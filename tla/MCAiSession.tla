---------------------------- MODULE MCAiSession ----------------------------
(***************************************************************************)
(* Small instances of AiSession: two messages with cancellations and       *)
(* approvals, a turn on two files of which the user edits one, a proxy     *)
(* tool that is replaced, and a conversation of two messages.              *)
(***************************************************************************)
EXTENDS AiSession

Bound(turns, rounds, calls, tools, attach) ==
    [turns |-> turns, rounds |-> rounds, calls |-> calls, tools |-> tools, attach |-> attach,
     autos |-> 0, edits |-> 0, cancels |-> 0, swaps |-> 0]

MCBudgets ==
    { [Bound(2, 1, 1, {"edit"}, {"a"}) EXCEPT !.cancels = 2, !.autos = 1],
      [Bound(1, 1, 1, {"edit"}, {"a"}) EXCEPT !.cancels = 1, !.edits = 1],
      [Bound(1, 2, 2, Mutating \cup {"read"}, {"a"}) EXCEPT !.edits = 1],
      [Bound(1, 1, 1, {"proxy"}, {}) EXCEPT !.cancels = 1, !.swaps = 2],
      [Bound(1, 2, 2, {"proxy"}, {}) EXCEPT !.swaps = 2],
      Bound(2, 2, 2, {"read"}, {}) }
=============================================================================
