---------------------------- MODULE SyncHistory ----------------------------
(***************************************************************************)
(* What the sync server promises to its clients about one workspace,       *)
(* without transactions, locks or storage.  A workspace is one linear      *)
(* history of commits.  A client proposes a commit together with the head  *)
(* it has seen; the commit is appended at most once, and only on top of    *)
(* that head; the client may be told "ok" only about a commit that is in   *)
(* the history and "head_conflict" only about one that is not.             *)
(***************************************************************************)
EXTENDS Naturals, Sequences

CONSTANTS
    Requests,   \* publish requests: records with the commit's id and the
                \* head it was composed on (fields id and expected)
    NoCommit    \* the head of an empty history

VARIABLES
    history,    \* the accepted requests, oldest first
    answers,    \* the answers given so far: [req, result]
    closed      \* the workspace has been deleted

vars == <<history, answers, closed>>

Ids  == {history[i].id : i \in DOMAIN history}
CurrentHead == IF history = <<>> THEN NoCommit ELSE history[Len(history)].id

Init ==
    /\ history = <<>>
    /\ answers = {}
    /\ closed = FALSE

\* The commit becomes the new head and its author is told so.
Accept(r) ==
    /\ ~closed
    /\ r.id \notin Ids
    /\ r.expected = CurrentHead
    /\ history' = Append(history, r)
    /\ answers' = answers \cup {[req |-> r, result |-> "ok"]}
    /\ UNCHANGED closed

\* A repeated request is confirmed without being appended again.
Confirm(r) ==
    /\ r \in {history[i] : i \in DOMAIN history}
    /\ answers' = answers \cup {[req |-> r, result |-> "ok"]}
    /\ UNCHANGED <<history, closed>>

\* The proposal was made on another head than the current one.
Conflict(r) ==
    /\ r.id \notin Ids
    /\ r.expected # CurrentHead
    /\ answers' = answers \cup {[req |-> r, result |-> "head_conflict"]}
    /\ UNCHANGED <<history, closed>>

\* Any other refusal leaves the history alone.
Refuse(r) ==
    /\ answers' = answers \cup {[req |-> r, result |-> "refused"]}
    /\ UNCHANGED <<history, closed>>

Close ==
    /\ closed' = TRUE
    /\ UNCHANGED <<history, answers>>

Next ==
    \/ \E r \in Requests : Accept(r) \/ Confirm(r) \/ Conflict(r) \/ Refuse(r)
    \/ Close

Spec == Init /\ [][Next]_vars
=============================================================================
