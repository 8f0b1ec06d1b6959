-------------------------- MODULE MCMeetingSession --------------------------
(***************************************************************************)
(* Instances of MeetingSession for TLC.                                    *)
(***************************************************************************)
EXTENDS MeetingSession

Quiet == [frames |-> 2, sessions |-> 1, stops |-> 1, cancels |-> 0, timeouts |-> 0, failures |-> 0,
          installs |-> 0, updates |-> 0, crashes |-> 0]

\* One session: a worker that dies twice, a failure, a transcript, a late cancel.
\* Two sessions: a cancellation races with each thread of the first one.
MCBudgets ==
    { [Quiet EXCEPT !.crashes = 2, !.updates = 1],
      [Quiet EXCEPT !.crashes = 1, !.failures = 1],
      [Quiet EXCEPT !.crashes = 1, !.cancels = 1, !.frames = 1],
      [Quiet EXCEPT !.cancels = 1, !.timeouts = 1, !.installs = 1, !.updates = 1],
      [Quiet EXCEPT !.sessions = 2, !.frames = 1, !.stops = 0, !.cancels = 1] }
=============================================================================
