--------------------------- MODULE MeetingSession ---------------------------
(***************************************************************************)
(* The native half of the meeting notes (meeting_notes/controller.rs,      *)
(* worker_protocol.rs, journal.rs, audio_capture.rs): one controller with  *)
(* at most one active session, and per session a thread that prepares the  *)
(* transcription worker, a thread that reads the worker's events, a thread *)
(* that records, and a thread that feeds the recording to the worker.  A   *)
(* worker that dies while recording is replaced once, and the replacement  *)
(* is fed the recording from its beginning.                                *)
(*                                                                         *)
(* The recording is counted in frames; a transcript is the number of       *)
(* frames it covers.  The messages and the progress of the state are left  *)
(* out, and so is the mixing of the two audio sources.                     *)
(***************************************************************************)
EXTENDS Naturals, Sequences, FiniteSets, SequencesExt

CONSTANTS
    Sessions,   \* the identities that sessions are started with, in order
    Budgets     \* the instances: how much may happen

ASSUME MeetingAssumption == Sessions \subseteq Nat \ {0}

VARIABLES
    phase,      \* MeetingStateSnapshot.phase
    current,    \* MeetingStateSnapshot.session_id, 0 for none
    active,     \* the id of the ActiveSession, 0 for none
    ses,        \* what belongs to each session
    worker,     \* the worker processes and the threads that read their output
    device,     \* the audio capture and the sender slot it delivers to
    main,       \* a cancellation under way on the main thread
    overtaken,  \* history: a thread acted on a check that a cancellation had outrun
    stray,      \* history: workers that were fed while they replaced another
    budget

vars == <<phase, current, active, ses, worker, device, main, overtaken, stray, budget>>

\* MAX_MEETING_SAMPLES, in frames: the longest recording.
MaxFrames == budget.frames

None == <<0, 0>>
Workers == Sessions \X {1, 2}
NoDevice == [on |-> FALSE, gen |-> 0, sender |-> FALSE]
NoCancel == [pc |-> "idle", session |-> 0, id |-> 0, child |-> None, discard |-> FALSE]
NoFeeder == [pc |-> "none", msg |-> "none", gen |-> 0, pos |-> 0, end |-> 0]
NewSession ==
    [prep |-> "none", restarts |-> 0, pending |-> None, child |-> None, stdin |-> None, gen |-> 0,
     shutdown |-> FALSE, final |-> FALSE, stop |-> FALSE, cmds |-> <<>>, registered |-> FALSE,
     audio |-> "none", spool |-> 0, queue |-> <<>>, feeder |-> NoFeeder,
     journal |-> "none", covers |-> 0, files |-> FALSE]
NewWorker == [pc |-> "none", got |-> <<>>, finish |-> FALSE, out |-> <<>>, reader |-> "none",
              event |-> "none", handles |-> 0, covers |-> 0]

Init ==
    /\ budget \in Budgets
    /\ phase = "idle" /\ current = 0 /\ active = 0
    /\ ses = [s \in Sessions |-> NewSession]
    /\ worker = [w \in Workers |-> NewWorker]
    /\ device = NoDevice
    /\ main = NoCancel
    /\ overtaken = FALSE
    /\ stray = {}

Spend(field) == /\ budget[field] > 0
                /\ budget' = [budget EXCEPT ![field] = @ - 1]

Killed(W, w) == IF w = None THEN W ELSE [W EXCEPT ![w].pc = "dead"]
clear_sender_if(D, s) == IF D.gen = s THEN [D EXCEPT !.sender = FALSE] ELSE D
Command(S, s, c) == IF S[s].stop THEN [S EXCEPT ![s].cmds = Append(@, c)] ELSE S

\* fail on top of the sessions S, the workers W and the capture D: whatever
\* session is active by now is shut down and its worker killed.
fail(S, W, D) ==
    IF active = 0 /\ phase = "idle"
    THEN /\ ses' = S /\ worker' = W /\ device' = D
         /\ UNCHANGED phase
    ELSE /\ phase' = "error"
         /\ device' = [D EXCEPT !.on = FALSE]
         /\ IF active = 0
            THEN ses' = S /\ worker' = W
            ELSE /\ ses' = Command([S EXCEPT ![active].shutdown = TRUE], active, "cancel")
                 /\ worker' = Killed(W, S[active].child)

\* fail_session without its check.
fail_session_Unchecked(s, S, W, D) == fail(S, W, D)

\* fail_session: only when the session is still the current one.
fail_session(s, S, W, D) ==
    IF current = s
    THEN fail(S, W, D)
    ELSE ses' = S /\ worker' = W /\ device' = D /\ UNCHANGED phase

----------------------------------------------------------------------------
(* The commands.  The plugin's service calls one at a time.                *)

start(s) ==
    /\ main.pc = "idle"
    /\ s <= budget.sessions
    /\ ses[s] = NewSession
    /\ \A r \in Sessions : r < s => ses[r] # NewSession
    /\ phase \in {"idle", "error"}
    /\ phase' = "preparing"
    /\ current' = s
    /\ active' = s
    /\ ses' = [ses EXCEPT ![s].prep = "check", ![s].journal = "empty"]
    /\ UNCHANGED <<worker, device, main, overtaken, stray, budget>>

stop ==
    /\ main.pc = "idle"
    /\ Spend("stops")
    /\ phase \in {"recording", "permission"}
    /\ phase' = "finalizing"
    /\ device' = [device EXCEPT !.on = FALSE]
    /\ ses' = IF active = 0 THEN ses ELSE Command(ses, active, "finish")
    /\ UNCHANGED <<current, active, worker, main, overtaken, stray>>

\* The state is reset first; the threads are then told and waited for.  Turning
\* the plugin off cancels and discards whatever there is.
cancel(discard) ==
    /\ main.pc = "idle"
    /\ current # 0 \/ (discard /\ phase # "idle")
    /\ Spend("cancels")
    /\ main' = [pc |-> "wait", session |-> current, id |-> active, discard |-> discard,
                child |-> IF active = 0 THEN None ELSE ses[active].child]
    /\ phase' = "idle" /\ current' = 0 /\ active' = 0
    /\ device' = [device EXCEPT !.on = FALSE]
    /\ ses' = IF active = 0 THEN ses
              ELSE Command([ses EXCEPT ![active].shutdown = TRUE], active, "cancel")
    /\ UNCHANGED <<worker, overtaken, stray>>

\* AudioLoopCompletion: no recording thread, or it has ended.
Completed(s) == ses[s].audio \in {"none", "done"}

\* The recording thread gets three seconds; then the worker is killed, and the
\* files and the journal go when they are to be discarded.
CancelEnds ==
    /\ main.pc = "wait"
    /\ IF main.id # 0 => Completed(main.id)
       THEN UNCHANGED budget
       ELSE Spend("timeouts")
    /\ main' = NoCancel
    /\ worker' = Killed(worker, main.child)
    /\ LET s == main.session IN
       ses' = IF main.discard /\ s # 0
              THEN [ses EXCEPT ![s].journal = "none", ![s].files = FALSE]
              ELSE ses
    /\ device' = IF main.id # 0 /\ ses[main.id].registered THEN clear_sender_if(device, main.id)
                 ELSE device
    /\ UNCHANGED <<phase, current, active, overtaken, stray>>

\* The document holds the final transcript and is on the disk.
acknowledge(s) ==
    /\ ses[s].journal = "final"
    /\ ses' = [ses EXCEPT ![s].journal = "none", ![s].files = FALSE]
    /\ IF current = s THEN phase' = "idle" /\ current' = 0 ELSE UNCHANGED <<phase, current>>
    /\ UNCHANGED <<active, worker, device, main, overtaken, stray, budget>>

----------------------------------------------------------------------------
(* Preparing a worker.                                                     *)

\* The probes of ensure_runtime and the checks of prepare_worker.
PrepareChecks(s) ==
    /\ ses[s].prep = "check"
    /\ LET ended == [ses EXCEPT ![s].prep = "none"] IN
       \/ /\ current # s
          /\ ses' = ended
          /\ UNCHANGED <<phase, worker, device, budget>>
       \/ /\ current = s
          /\ IF active = s
             THEN /\ ses' = [ses EXCEPT ![s].prep = "announce"]
                  /\ UNCHANGED <<phase, worker, device>>
             ELSE fail_session(s, ended, worker, device)
          /\ UNCHANGED budget
       \/ /\ current = s
          /\ Spend("installs")
          /\ ses' = [ses EXCEPT ![s].prep = "install"]
          /\ UNCHANGED <<phase, worker, device>>
       \/ /\ Spend("failures")
          /\ fail_session(s, ended, worker, device)
    /\ UNCHANGED <<current, active, main, overtaken, stray>>

\* The runtime is missing and is installed, whoever's state says so by now.
PrepareInstalls(s) ==
    /\ ses[s].prep = "install"
    /\ phase' = "preparing"
    /\ overtaken' = (overtaken \/ current # s)
    /\ ses' = [ses EXCEPT ![s].prep = IF active = s THEN "check" ELSE "none"]
    /\ UNCHANGED <<current, active, worker, device, main, stray, budget>>

\* The first preparation announces the download, whoever's state it is by now.
PrepareAnnounces(s) ==
    /\ ses[s].prep = "announce"
    /\ phase' = IF ses[s].restarts = 0 THEN "downloading" ELSE phase
    /\ overtaken' = (overtaken \/ (ses[s].restarts = 0 /\ current # s))
    /\ ses' = [ses EXCEPT ![s].prep = "spawn"]
    /\ UNCHANGED <<current, active, worker, device, main, stray, budget>>

\* A worker that is started for a session that is gone is killed at once.
PrepareSpawns(s) ==
    /\ ses[s].prep = "spawn"
    /\ LET w == <<s, ses[s].restarts + 1>> IN
       IF active = s
       THEN /\ ses' = [ses EXCEPT ![s].prep = "none", ![s].pending = w, ![s].child = w]
            /\ worker' = [worker EXCEPT ![w].pc = "loading", ![w].reader = "wait"]
       ELSE /\ ses' = [ses EXCEPT ![s].prep = "none"]
            /\ UNCHANGED worker
    /\ UNCHANGED <<phase, current, active, device, main, overtaken, stray, budget>>

----------------------------------------------------------------------------
(* The worker process: it loads its models, transcribes what it is fed and *)
(* answers the finish frame with the final transcript.                     *)

Emit(w, e) == [worker EXCEPT ![w].out = Append(@, e)]

\* Someone still holds the other end of the worker's input.
InputOpen(w) ==
    LET s == w[1] IN
    \/ active = s /\ ses[s].pending = w
    \/ /\ ses[s].stdin = w
       /\ active = s \/ main.id = s \/ ~Completed(s)

WorkerWorks(w) ==
    /\ \/ /\ worker[w].pc = "loading"
          /\ worker' = [Emit(w, "loading") EXCEPT ![w].pc = "loaded"]
       \/ /\ worker[w].pc = "loaded"
          /\ worker' = [Emit(w, "ready") EXCEPT ![w].pc = "up"]
       \/ /\ worker[w].pc = "up" /\ worker[w].finish
          /\ worker' = [worker EXCEPT ![w].out = @ \o <<"finalizing", "final">>,
                          ![w].pc = "exiting", ![w].covers = Len(worker[w].got)]
       \/ /\ worker[w].pc = "exiting" \/ (worker[w].pc = "up" /\ ~InputOpen(w))
          /\ worker' = [worker EXCEPT ![w].pc = "dead"]
    /\ UNCHANGED <<phase, current, active, ses, device, main, overtaken, stray, budget>>

WorkerTranscribes(w) ==
    /\ worker[w].pc = "up"
    /\ worker[w].got # <<>>
    /\ Spend("updates")
    /\ worker' = Emit(w, "transcript")
    /\ UNCHANGED <<phase, current, active, ses, device, main, overtaken, stray>>

WorkerFails(w) ==
    /\ worker[w].pc \notin {"none", "dead"}
    /\ Spend("crashes")
    /\ \/ worker' = [worker EXCEPT ![w].pc = "dead"]
       \/ worker' = [Emit(w, "error") EXCEPT ![w].pc = "dead"]
    /\ UNCHANGED <<phase, current, active, ses, device, main, overtaken, stray>>

----------------------------------------------------------------------------
(* Reading the worker's output.                                            *)

\* read_worker checks the session before it handles an event.
ReadEvent(w) ==
    /\ worker[w].reader = "wait"
    /\ worker[w].out # <<>>
    /\ worker' = IF current = w[1]
                 THEN [worker EXCEPT ![w].reader = "handle", ![w].event = Head(worker[w].out),
                                     ![w].out = Tail(worker[w].out)]
                 ELSE [worker EXCEPT ![w].reader = "done"]
    /\ UNCHANGED <<phase, current, active, ses, device, main, overtaken, stray, budget>>

\* worker_is_recovering looks at whatever session is active.
Recovering == active # 0 /\ ses[active].restarts > 0 /\ ses[active].stop

Read(w) == [worker EXCEPT ![w].reader = "wait"]

HandleLoading(w) ==
    /\ phase' = IF Recovering THEN phase ELSE "preparing"
    /\ worker' = Read(w)
    /\ UNCHANGED <<current, active, ses, device>>

\* activate_worker_input, up to the moment before the generation is counted.
HandleReady(w) ==
    /\ IF active = 0 \/ ses[active].pending = None
       THEN fail(ses, Read(w), device)
       ELSE /\ ses' = [ses EXCEPT ![active].stdin = ses[active].pending, ![active].pending = None]
            /\ worker' = [worker EXCEPT ![w].reader = "activated", ![w].handles = active]
            /\ UNCHANGED <<phase, device>>
    /\ UNCHANGED <<current, active>>

\* JournalStore::transcript: a late event does not replace a final result, and
\* a journal that is gone makes the session fail.
HandleTranscript(w) ==
    /\ IF ses[w[1]].journal = "none"
       THEN fail(ses, Read(w), device)
       ELSE /\ ses' = [ses EXCEPT ![w[1]].journal = IF @ = "final" THEN @ ELSE "update"]
            /\ worker' = Read(w)
            /\ UNCHANGED <<phase, device>>
    /\ UNCHANGED <<current, active>>

\* The final transcript counts as received before it is in the journal ...
HandleFinal(w) ==
    /\ IF active = w[1]
       THEN /\ ses' = [ses EXCEPT ![w[1]].final = TRUE]
            /\ worker' = [worker EXCEPT ![w].reader = "journal"]
       ELSE worker' = Read(w) /\ UNCHANGED ses
    /\ UNCHANGED <<phase, current, active, device>>

handle_worker_event(w) ==
    /\ worker[w].reader = "handle"
    /\ LET e == worker[w].event IN
       CASE e = "loading" -> HandleLoading(w)
         [] e = "ready" -> HandleReady(w)
         [] e = "transcript" -> HandleTranscript(w)
         [] e = "finalizing" -> /\ phase' = "finalizing"
                                /\ worker' = Read(w)
                                /\ UNCHANGED <<current, active, ses, device>>
         [] e = "final" -> HandleFinal(w)
         [] e = "error" -> fail(ses, Read(w), device) /\ UNCHANGED <<current, active>>
    /\ overtaken' = (overtaken \/ current # w[1])
    /\ UNCHANGED <<main, stray, budget>>

\* finish_session: the state is "saving" until the document is acknowledged.
finish_session(s, S, W) ==
    /\ ses' = S /\ worker' = W
    /\ IF current = s
       THEN /\ phase' = "saving"
            /\ active' = 0
            /\ device' = IF ses[s].registered THEN clear_sender_if(device, s) ELSE device
       ELSE UNCHANGED <<phase, active, device>>

\* ... and the state changes once it is there.
JournalFinal_Unchecked(w) ==
    /\ worker[w].reader = "journal"
    /\ finish_session(w[1], ses, Read(w))
    /\ UNCHANGED <<current, main, overtaken, stray, budget>>

JournalFinal(w) ==
    LET s == w[1] IN
    /\ worker[w].reader = "journal"
    /\ IF ses[s].journal = "none"
       THEN /\ fail(ses, Read(w), device)
            /\ overtaken' = (overtaken \/ current # s)
            /\ UNCHANGED active
       ELSE /\ finish_session(s, [ses EXCEPT ![s].journal = "final",
                     ![s].covers = IF ses[s].journal = "final" THEN @ ELSE worker[w].covers],
                              Read(w))
            /\ UNCHANGED overtaken
    /\ UNCHANGED <<current, main, stray, budget>>

\* The worker counts from here on; the first one starts the capture.
Activated(w) ==
    /\ worker[w].reader = "activated"
    /\ LET counted == [ses EXCEPT ![worker[w].handles].gen = @ + 1]
       IN  CASE active = 0 -> fail(counted, Read(w), device)
             [] active # 0 /\ ses[active].stop ->
                  ses' = counted /\ worker' = Read(w) /\ UNCHANGED <<phase, device>>
             [] OTHER ->
                  /\ ses' = [counted EXCEPT ![active].stop = TRUE, ![active].audio = "starting"]
                  /\ worker' = [worker EXCEPT ![w].reader = "capture", ![w].handles = active]
                  /\ phase' = "permission"
                  /\ UNCHANGED device
    /\ overtaken' = (overtaken \/ current # w[1])
    /\ UNCHANGED <<current, active, main, stray, budget>>

\* begin_capture: the capture may not start ...
CaptureStarts(w) ==
    /\ worker[w].reader = "capture"
    /\ LET s == worker[w].handles IN
       \/ /\ device' = [on |-> TRUE, gen |-> s, sender |-> TRUE]
          /\ worker' = [worker EXCEPT ![w].reader = "captures"]
          /\ UNCHANGED <<phase, ses, overtaken, budget>>
       \/ /\ Spend("failures")
          /\ fail([ses EXCEPT ![s].audio = "done"], Read(w), device)
          /\ overtaken' = (overtaken \/ current # s)
    /\ UNCHANGED <<current, active, main, stray>>

\* ... and it may have started for a session that is gone by now.
CaptureStarted_NoStop(w) ==
    /\ worker[w].reader = "captures"
    /\ LET s == worker[w].handles IN
       /\ IF active = s
          THEN /\ ses' = [ses EXCEPT ![s].registered = TRUE, ![s].audio = "open"]
               /\ worker' = Read(w)
               /\ UNCHANGED <<phase, device>>
          ELSE fail([ses EXCEPT ![s].audio = "done"], Read(w), clear_sender_if(device, s))
       /\ overtaken' = (overtaken \/ (active # s /\ current # s /\ phase # "idle"))
    /\ UNCHANGED <<current, active, main, stray, budget>>

CaptureStarted(w) ==
    /\ worker[w].reader = "captures"
    /\ LET s == worker[w].handles IN
       /\ IF active = s
          THEN /\ ses' = [ses EXCEPT ![s].registered = TRUE, ![s].audio = "open"]
               /\ worker' = Read(w)
               /\ UNCHANGED <<phase, device>>
          ELSE fail([ses EXCEPT ![s].audio = "done"], Read(w),
                    IF device.gen = s THEN [device EXCEPT !.sender = FALSE, !.on = FALSE]
                    ELSE device)
       /\ overtaken' = (overtaken \/ (active # s /\ current # s /\ phase # "idle"))
    /\ UNCHANGED <<current, active, main, stray, budget>>

\* restart_worker_after_exit, for whatever session is active.
CanRestart == active # 0 /\ ses[active].restarts < 1
restart_worker_after_exit ==
    [ses EXCEPT ![active].restarts = @ + 1, ![active].stdin = None, ![active].pending = None,
                ![active].child = None, ![active].prep = "check"]

\* The worker is gone: while recording or finalizing it is replaced, once.
WorkerExit(w) ==
    /\ worker[w].reader = "wait"
    /\ worker[w].pc = "dead"
    /\ worker[w].out = <<>>
    /\ LET s == w[1]
           done == [worker EXCEPT ![w].reader = "done"]
       IN  IF current # s \/ phase \in {"idle", "error", "saving"}
           THEN worker' = done /\ UNCHANGED <<phase, ses, device>>
           ELSE IF phase \in {"recording", "finalizing"} /\ CanRestart
           THEN /\ ses' = restart_worker_after_exit
                /\ worker' = done
                /\ UNCHANGED <<phase, device>>
           ELSE fail(ses, done, device)
    /\ UNCHANGED <<current, active, main, overtaken, stray, budget>>

----------------------------------------------------------------------------
(* Recording.                                                              *)

\* The thread creates the recording's files and the feeder.
AudioOpens(s) ==
    /\ ses[s].audio = "open"
    /\ \/ /\ ses' = [ses EXCEPT ![s].audio = "run", ![s].files = TRUE,
                                ![s].feeder = [NoFeeder EXCEPT !.pc = "recv"]]
          /\ UNCHANGED <<phase, worker, device, budget>>
       \/ /\ Spend("failures")
          /\ fail_session(s, [ses EXCEPT ![s].audio = "done"], worker, device)
    /\ UNCHANGED <<current, active, main, overtaken, stray>>

\* The loop looks at the shutdown flag and at its commands first.
Listening(s) == ses[s].audio = "run" /\ ~ses[s].shutdown /\ ses[s].cmds = <<>>
Delivers(s) == device.on /\ device.sender /\ device.gen = s

mark_recording(s) ==
    /\ Listening(s) /\ Delivers(s)
    /\ current = s /\ phase = "permission"
    /\ phase' = "recording"
    /\ UNCHANGED <<current, active, ses, worker, device, main, overtaken, stray, budget>>

\* After the loop: the recording is complete, or it is given up.
Ending(S, s, cancelled) ==
    IF cancelled
    THEN [S EXCEPT ![s].audio = "flush", ![s].shutdown = TRUE, ![s].queue = Append(@, <<"cancel", 0>>)]
    ELSE [S EXCEPT ![s].audio = "feed", ![s].queue = Append(@, <<"finish", S[s].spool>>)]
StopMine(s) == IF current = s THEN [device EXCEPT !.on = FALSE] ELSE device

\* append_worker_pcm: the frame is in the spool before the feeder hears of it.
append_worker_pcm(s) ==
    LET n == ses[s].spool + 1
    IN  [ses EXCEPT ![s].spool = n, ![s].queue = Append(@, <<"pcm", n>>)]

\* Nothing can be queued once the feeder is gone, and the disk may refuse.
AudioFrame(s) ==
    /\ Listening(s) /\ Delivers(s)
    /\ ses[s].spool < MaxFrames
    /\ LET written == append_worker_pcm(s)
           full == written[s].spool = MaxFrames
       IN
       \/ /\ IF ses[s].feeder.pc \in {"ok", "err"}
             THEN fail_session(s, Ending(written, s, TRUE), worker, StopMine(s))
             ELSE /\ ses' = IF full THEN Ending(written, s, FALSE) ELSE written
                  /\ device' = IF full THEN StopMine(s) ELSE device
                  /\ UNCHANGED <<phase, worker>>
          /\ UNCHANGED budget
       \/ /\ Spend("failures")
          /\ fail_session(s, Ending(ses, s, TRUE), worker, StopMine(s))
    /\ UNCHANGED <<current, active, main, overtaken, stray>>

\* The capture reports an error, or the microphone delivers nothing for too long.
CaptureFails(s) ==
    /\ Listening(s)
    /\ Spend("failures")
    /\ LET given_up == [ses EXCEPT ![s].audio = "done", ![s].shutdown = TRUE,
                                   ![s].queue = Append(@, <<"cancel", 0>>)]
       IN \/ Delivers(s) /\ fail_session(s, given_up, worker, device)
          \/ fail_session(s, given_up, worker,
                          clear_sender_if([device EXCEPT !.on = FALSE], s))
    /\ UNCHANGED <<current, active, main, overtaken, stray>>

\* Shut down, told to end, or the capture no longer delivers here.  A recording
\* that is complete still has what the mixer held back.
AudioEnds(s) ==
    /\ ses[s].audio = "run"
    /\ ses[s].shutdown \/ ses[s].cmds # <<>> \/ device.gen # s \/ ~device.sender
    /\ LET cancelled == ses[s].shutdown \/ (ses[s].cmds # <<>> /\ Head(ses[s].cmds) = "cancel")
       IN
       \/ /\ ses' = Ending(ses, s, cancelled)
          /\ device' = StopMine(s)
          /\ UNCHANGED <<phase, worker, budget>>
       \/ /\ ~cancelled /\ ses[s].spool < MaxFrames
          /\ ses' = Ending(append_worker_pcm(s), s, FALSE)
          /\ device' = StopMine(s)
          /\ UNCHANGED <<phase, worker, budget>>
       \/ /\ ~cancelled
          /\ Spend("failures")
          /\ fail_session(s, Ending(ses, s, TRUE), worker, StopMine(s))
    /\ UNCHANGED <<current, active, main, overtaken, stray>>

\* Waiting for the feeder, for a limited time.
AudioFed_Forever(s) ==
    /\ ses[s].audio \in {"flush", "feed"}
    /\ ses[s].feeder.pc \in {"ok", "err"}
    /\ LET ended == [ses EXCEPT ![s].audio = "done"]
           cleared == clear_sender_if(device, s)
       IN  IF ses[s].audio = "feed" /\ ses[s].feeder.pc # "ok" /\ phase # "error"
           THEN fail_session(s, ended, worker, cleared)
           ELSE ses' = ended /\ device' = cleared /\ UNCHANGED <<phase, worker>>
    /\ UNCHANGED <<current, active, main, overtaken, stray, budget>>

AudioFed(s) ==
    /\ ses[s].audio \in {"flush", "feed"}
    /\ LET ended == [ses EXCEPT ![s].audio = "done"]
           cleared == clear_sender_if(device, s)
       IN  IF ses[s].audio = "feed" /\ ses[s].feeder.pc # "ok" /\ phase # "error"
           THEN fail_session(s, ended, worker, cleared)
           ELSE ses' = ended /\ device' = cleared /\ UNCHANGED <<phase, worker>>
    /\ UNCHANGED <<current, active, main, overtaken, stray, budget>>

----------------------------------------------------------------------------
(* Feeding the worker.                                                     *)

Feeder(s, f) == ses' = [ses EXCEPT ![s].feeder = f]

\* worker_feeder_loop takes the next message; the queue closes with the recording.
FeederReceives(s) ==
    LET f == ses[s].feeder IN
    /\ f.pc = "recv"
    /\ ses[s].queue # <<>> \/ ses[s].audio = "done"
    /\ IF ses[s].queue = <<>>
       THEN Feeder(s, [f EXCEPT !.pc = "err"]) /\ UNCHANGED worker
       ELSE LET m == Head(ses[s].queue)
                rest == [ses EXCEPT ![s].queue = Tail(@)]
            IN  IF m[1] = "cancel"
                THEN /\ ses' = [rest EXCEPT ![s].feeder.pc = "ok"]
                     /\ worker' = Killed(worker, ses[s].stdin)
                ELSE /\ ses' = [rest EXCEPT ![s].feeder = [f EXCEPT !.pc = "sync", !.msg = m[1],
                                                                   !.end = m[2]]]
                     /\ UNCHANGED worker
    /\ UNCHANGED <<phase, current, active, device, main, overtaken, stray, budget>>

\* sync_worker_spool: a new generation is fed from the beginning.
FeederSyncs_Resume(s) ==
    LET f == ses[s].feeder IN
    /\ f.pc = "sync"
    /\ IF ses[s].shutdown
       THEN Feeder(s, [f EXCEPT !.pc = "err"])
       ELSE /\ ses[s].gen # 0
            /\ Feeder(s, [f EXCEPT !.gen = ses[s].gen,
                            !.pc = IF f.pos < f.end THEN "write"
                                   ELSE IF f.msg = "pcm" THEN "recv" ELSE "finish"])
    /\ UNCHANGED <<phase, current, active, worker, device, main, overtaken, stray, budget>>

FeederSyncs(s) ==
    LET f == ses[s].feeder
        pos == IF ses[s].gen = f.gen THEN f.pos ELSE 0
    IN
    /\ f.pc = "sync"
    /\ IF ses[s].shutdown
       THEN Feeder(s, [f EXCEPT !.pc = "err"])
       ELSE /\ ses[s].gen # 0
            /\ Feeder(s, [f EXCEPT !.gen = ses[s].gen, !.pos = pos,
                            !.pc = IF pos < f.end THEN "write"
                                   ELSE IF f.msg = "pcm" THEN "recv" ELSE "finish"])
    /\ UNCHANGED <<phase, current, active, worker, device, main, overtaken, stray, budget>>

\* write_worker_frame succeeds while there is a worker at the other end.
Writable(s) == ses[s].stdin # None /\ worker[ses[s].stdin].pc # "dead"
Fed(s) == IF Writable(s) /\ ses[s].feeder.gen # ses[s].stdin[2]
          THEN stray \cup {ses[s].stdin} ELSE stray

FeederWrites(s) ==
    LET f == ses[s].feeder
        w == ses[s].stdin
    IN
    /\ f.pc = "write"
    /\ IF Writable(s)
       THEN /\ Feeder(s, [f EXCEPT !.pos = @ + 1, !.pc = "sync"])
            /\ worker' = IF worker[w].pc = "exiting" THEN worker
                         ELSE [worker EXCEPT ![w].got = Append(@, f.pos + 1)]
       ELSE Feeder(s, [f EXCEPT !.pc = "waitGeneration"]) /\ UNCHANGED worker
    /\ stray' = Fed(s)
    /\ UNCHANGED <<phase, current, active, device, main, overtaken, budget>>

\* The finish frame: not when the worker was replaced since the last frame.
FeederFinishes(s) ==
    LET f == ses[s].feeder
        w == ses[s].stdin
    IN
    /\ \/ /\ f.pc = "finish"
          /\ Feeder(s, [f EXCEPT !.pc = IF ses[s].gen = f.gen THEN "end" ELSE "sync"])
          /\ UNCHANGED <<worker, stray>>
       \/ /\ f.pc = "end"
          /\ IF Writable(s)
             THEN /\ Feeder(s, [f EXCEPT !.pc = "waitFinal"])
                  /\ worker' = [worker EXCEPT ![w].finish = TRUE]
             ELSE Feeder(s, [f EXCEPT !.pc = "waitEnd"]) /\ UNCHANGED worker
          /\ stray' = Fed(s)
    /\ UNCHANGED <<phase, current, active, device, main, overtaken, budget>>

\* wait_for_worker_generation and wait_for_final_or_worker_generation: finish
\* stays pending until the final transcript is there.
FeederWaits(s) ==
    LET f == ses[s].feeder
        woken == ses[s].gen # f.gen \/ (f.pc = "waitFinal" /\ ses[s].final)
    IN
    /\ f.pc \in {"waitGeneration", "waitEnd", "waitFinal"}
    /\ woken \/ ses[s].shutdown
    /\ Feeder(s, [f EXCEPT !.pc =
                    CASE ~woken -> "err"
                      [] woken /\ f.pc # "waitGeneration" /\ ses[s].final -> "ok"
                      [] OTHER -> "sync"])
    /\ UNCHANGED <<phase, current, active, worker, device, main, overtaken, stray, budget>>

----------------------------------------------------------------------------

Preparer(s) == PrepareChecks(s) \/ PrepareInstalls(s) \/ PrepareAnnounces(s) \/ PrepareSpawns(s)
Reader(w) ==
    \/ ReadEvent(w) \/ handle_worker_event(w) \/ JournalFinal(w) \/ Activated(w)
    \/ CaptureStarts(w) \/ CaptureStarted(w) \/ WorkerExit(w)
AudioLoop(s) == AudioOpens(s) \/ AudioEnds(s) \/ AudioFed(s)
FeederLoop(s) ==
    \/ FeederReceives(s) \/ FeederSyncs(s) \/ FeederWrites(s) \/ FeederFinishes(s)
    \/ FeederWaits(s)

Next ==
    \/ \E s \in Sessions :
         \/ start(s) \/ acknowledge(s)
         \/ Preparer(s) \/ AudioLoop(s) \/ FeederLoop(s)
         \/ mark_recording(s) \/ AudioFrame(s) \/ CaptureFails(s)
    \/ stop \/ CancelEnds
    \/ \E discard \in BOOLEAN : cancel(discard)
    \/ \E w \in Workers :
         WorkerWorks(w) \/ WorkerTranscribes(w) \/ WorkerFails(w) \/ Reader(w)

\* The threads of the application run; a user, the capture and a worker may
\* never do anything.
Fairness ==
    /\ WF_vars(CancelEnds)
    /\ \A s \in Sessions :
         WF_vars(Preparer(s)) /\ WF_vars(AudioLoop(s)) /\ WF_vars(FeederLoop(s))
    /\ \A w \in Workers : WF_vars(Reader(w))

Spec == Init /\ [][Next]_vars /\ Fairness

----------------------------------------------------------------------------

\* Types of the controller's state, the sessions, the workers and the capture.
TypeOK ==
    /\ phase \in {"idle", "preparing", "downloading", "permission", "recording", "finalizing",
                  "saving", "error"}
    /\ {current, active, device.gen, main.session, main.id} \subseteq Sessions \cup {0}
    /\ \A s \in Sessions :
         /\ ses[s].prep \in {"none", "check", "install", "announce", "spawn"}
         /\ ses[s].restarts \in 0 .. 1 /\ ses[s].gen \in 0 .. 2
         /\ {ses[s].pending, ses[s].child, ses[s].stdin} \subseteq Workers \cup {None}
         /\ ses[s].audio \in {"none", "starting", "open", "run", "flush", "feed", "done"}
         /\ ses[s].journal \in {"none", "empty", "update", "final"}
         /\ ses[s].covers \in Nat /\ {ses[s].spool, ses[s].feeder.pos} \subseteq 0 .. MaxFrames
    /\ \A w \in Workers : worker[w].pc \in {"none", "loading", "loaded", "up", "exiting", "dead"}
    /\ stray \subseteq Workers

\* The final transcript covers the whole recording, also when the worker died
\* during the recording or while it was finishing (worker_feeder_loop).
FinalIsWhole ==
    \A s \in Sessions :
        ses[s].journal = "final" /\ (\A w \in stray : w[1] # s) => ses[s].covers = ses[s].spool

\* The state waits for a document to be saved only when the final transcript is
\* in the journal, whatever a cancellation or a failure raced with
\* (handle_worker_event, finish_session).
SavingIsDurable == phase = "saving" => current # 0 /\ ses[current].journal = "final"

\* The capture is on only while a thread is there that will turn it off, even
\* when a cancellation comes while the capture starts (begin_capture).
MicrophoneIsHeld ==
    device.on => \/ ses[device.gen].audio \in {"open", "run"}
                 \/ \E w \in Workers :
                      worker[w].reader = "captures" /\ worker[w].handles = device.gen

\* A thread of an earlier session leaves the phase and the capture of the
\* session that is current now alone (fail_session, clear_sender_if, audio_loop).
\* Set aside: a check that a cancellation has outrun.
NewSessionUndisturbed ==
    [][\A s \in Sessions :
         /\ ses[s] # NewSession /\ ses'[s] # ses[s]
         /\ current \notin {0, s} /\ ~overtaken'
         => /\ UNCHANGED <<phase, current, active>>
            /\ device.gen = current => device' = device]_vars

Finalizing(s) == phase = "finalizing" /\ current = s /\ ~ses[s].shutdown /\ ~overtaken

\* Finalizing ends, in a saved transcript or in an error, even when the worker
\* hangs or dies (audio_loop's worker_finish_timeout).  Set aside: the phase of
\* a session that is shut down, which a late event may still set.
FinalizingEnds == \A s \in Sessions : Finalizing(s) ~> ~Finalizing(s)

=============================================================================
