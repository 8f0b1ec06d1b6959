---------------------------- MODULE ChatHistory ----------------------------
(***************************************************************************)
(* What a chat session sends of its conversation to the model              *)
(* (crates/kuku-ai/src/session.rs).  Of a message only the kind and the    *)
(* size matter.  A message is "user", "text" (an assistant message without *)
(* tool calls), "calls" (one with n tool calls) or "result".               *)
(***************************************************************************)
EXTENDS Naturals, Sequences, FiniteSets, FiniteSetsExt

CONSTANTS
    HistoryCap,        \* HISTORY_HARD_CAP_BYTES
    MinRawTurns,       \* HISTORY_MIN_RAW_USER_TURNS
    SummaryCap,        \* HISTORY_SUMMARY_MAX_BYTES
    SummaryOverhead    \* the fixed text of the two summary messages

ASSUME HistoryAssumption ==
    /\ HistoryCap \in Nat /\ MinRawTurns \in Nat
    /\ SummaryCap \in Nat /\ SummaryOverhead \in Nat

Message == [kind : {"user", "text", "calls", "result"}, n : Nat]

UserMessage    == [kind |-> "user", n |-> 0]
TextMessage    == [kind |-> "text", n |-> 0]
CallMessage(k) == [kind |-> "calls", n |-> k]
ResultMessage  == [kind |-> "result", n |-> 0]

model_input_size(m) == 1 + m.n

Size(ms, from)  == MapThenSumSet(LAMBDA i : model_input_size(ms[i]), from..Len(ms))
Users(ms, from) == {i \in from..Len(ms) : ms[i].kind = "user"}

\* compact_history_for_model walks back from the last message and stops before
\* the first one that would exceed the cap, once enough user turns are kept.
Stops(ms, i) == Cardinality(Users(ms, i + 1)) >= MinRawTurns /\ Size(ms, i) > HistoryCap

WalkBack(ms) == 1 + Max({0} \cup {i \in DOMAIN ms : Stops(ms, i)})

\* What is left out ends where a user turn starts.
KeptFrom_Anywhere(ms) == WalkBack(ms)

KeptFrom(ms) ==
    IF WalkBack(ms) = 1
    THEN 1
    ELSE Min({Len(ms) + 1} \cup Users(ms, WalkBack(ms)))

\* build_history_summary_messages: as much summary as the room left allows, and
\* none when the room does not exceed its fixed text.
Monus(a, b) == IF a > b THEN a - b ELSE 0

SummarySize(ms) ==
    LET room == Min({Monus(HistoryCap, Size(ms, KeptFrom(ms))), SummaryCap})
    IN  IF KeptFrom(ms) = 1 \/ room <= SummaryOverhead THEN 0 ELSE room

(***************************************************************************)
(* What the model is sent: the whole conversation when it fits; otherwise  *)
(* its end, which starts at a user message, holds the last MinRawTurns of  *)
(* them, and with the summary stays within the cap unless those turns      *)
(* alone exceed it.  (compact_history_for_model)                           *)
(***************************************************************************)
WellCompacted(ms) ==
    LET from == KeptFrom(ms)
    IN  /\ Size(ms, 1) <= HistoryCap => from = 1
        /\ ms # << >> => from \in Users(ms, 1)
        /\ \/ Cardinality(Users(ms, from)) >= MinRawTurns
           \/ from = 1
        /\ \/ Size(ms, from) + SummarySize(ms) <= HistoryCap
           \/ Cardinality(Users(ms, from)) <= MinRawTurns
=============================================================================
