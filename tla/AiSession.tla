----------------------------- MODULE AiSession -----------------------------
(***************************************************************************)
(* One AI chat session: the turns that talk to the model and run its tool  *)
(* calls (crates/kuku-ai/src/session.rs), the tools that change the vault  *)
(* (src-tauri ai_tools and ai_host), and the chat panel that starts turns, *)
(* shows their events and answers their questions (plugins/builtin/ai_chat).*)
(*                                                                         *)
(* The panel and the runtime talk through two channels.  Events of the     *)
(* runtime reach the panel in the order in which they were emitted.  A     *)
(* command of the panel runs on a thread of its own, so that commands run  *)
(* in any order, and its failure comes back at any time.                   *)
(*                                                                         *)
(* A content is a number and stands for its own checksum; 0 is a missing   *)
(* file.  A call is <<turn, n>>, the n-th tool call of a turn.  The model's*)
(* answers are arbitrary.  Directories and replaced sessions are left out. *)
(***************************************************************************)
EXTENDS ChatHistory, TLC

CONSTANTS
    Paths,        \* vault paths
    RaceFiles,    \* the user may write between a guard's check and its write
    MaxTurns,     \* bound: messages of the session
    MaxCalls,     \* bound: tool calls of a turn
    Budgets       \* bounds: messages sent, rounds and calls of a turn, tools the
                  \* model asks for, files attached, changes of autoApprove, edits,
                  \* cancellations, tool replacements

None     == "none"
Turns    == 1..MaxTurns
Calls    == Turns \X (1..MaxCalls)
Modes    == {"Ask", "Agent"}
Access   == {"ReadOnly", "ProposesMutation"}
Mutating == {"create", "edit", "delete", "move"}
Busy     == {"streaming", "awaiting-approval", "applying"}
Note     == CHOOSE p \in Paths : TRUE    \* the file that exists at the start
NoOp     == [kind |-> "read", p |-> Note, q |-> Note, old |-> 0, new |-> 0]

ASSUME SessionAssumption ==
    /\ RaceFiles \in BOOLEAN /\ MaxTurns \in Nat /\ MaxCalls \in Nat
    /\ Budgets \subseteq [turns : Turns, rounds : Nat, calls : 1..MaxCalls,
                          tools : SUBSET (Mutating \cup {"read", "proxy"}),
                          attach : SUBSET Paths, autos : Nat,
                          edits : Nat, cancels : Nat, swaps : Nat]

VARIABLES
    control,     \* SessionControl: status, the turn that owns the token, deferred_cancel
    cancelled,   \* turns whose token is cancelled
    turn,        \* the turns
    senders,     \* calls that wait for an approval or for a proxy result
    answers,     \* what has been sent to a waiting call
    snapshots,   \* path_snapshots
    messages,    \* the conversation
    registry,    \* the proxy tool's access: in the plugin, in the runtime, as last
                 \* synchronized, and as listed by a synchronization under way
    events,      \* emitted and not yet handled by the panel
    commands,    \* sent by the panel and not yet run
    failures,    \* approvals whose command failed, not yet seen by the panel
    ui,          \* the panel: session status, isSendingMessage, autoApprove, cards
    file,        \* the vault
    fresh,       \* the last content made
    shown,       \* contents the model has seen or written
    budget       \* bounds left

waiting == <<senders, answers>>
seen    == <<snapshots, shown>>
disk    == <<file, fresh>>
panel   == <<commands, failures, ui>>
vars    == <<control, cancelled, turn, waiting, seen, messages, registry, events,
             panel, disk, budget>>

Idle    == [status |-> "Idle", token |-> 0, deferred |-> FALSE]
NewTurn == [pc |-> "none", mode |-> "Ask", embed |-> {}, offered |-> None,
            round |-> 1, left |-> 0, n |-> 0, op |-> NoOp]

Init ==
    /\ control = Idle /\ cancelled = {} /\ turn = [t \in Turns |-> NewTurn]
    /\ senders = {} /\ answers = {} /\ snapshots = [p \in Paths |-> 0] /\ shown = {}
    /\ messages = << >> /\ events = << >> /\ commands = {} /\ failures = {}
    /\ registry = [plugin |-> "ReadOnly", native |-> "ReadOnly",
                   synced |-> "ReadOnly", listed |-> "nothing"]
    /\ ui = [status |-> "idle", sending |-> FALSE, auto |-> FALSE, cards |-> << >>]
    /\ file = [p \in Paths |-> IF p = Note THEN 1 ELSE 0] /\ fresh = 1
    /\ budget \in Budgets

Call(t)    == <<t, turn[t].n>>
Running(t) == turn[t].pc \notin {"none", "spawned", "over"}
Event(type, call, what) == [type |-> type, call |-> call, what |-> what]

-----------------------------------------------------------------------------
(* The end of a turn and of a tool call.                                   *)

\* run_turn: only a turn that was not cancelled completes the run.  c is the
\* control record as the turn leaves it, es what it emits before it ends.
Complete_OkOnly(c, how) == IF how \in {"Stop", "ToolRoundLimit"} THEN Idle ELSE c

Complete(c, how) == IF how = "Cancelled" THEN c ELSE Idle

Finish(t, c, es, how) ==
    LET reason == IF c.deferred THEN "Cancelled" ELSE how
        call   == Call(t)
    IN  /\ turn' = [turn EXCEPT ![t].pc = "over"]
        /\ control' = Complete(c, how)
        /\ events' = events \o es
                     \o (IF how \in {"Cancelled", "Error"}
                         THEN <<Event("error", call, how)>> ELSE << >>)
                     \o <<Event("done", call, reason)>>

\* handle_tool_call ends and run_turn_inner records its result: the next call of
\* the message, the next round, or the end of the last round.
Result(t, c, es, outcome) ==
    LET end  == Append(es, Event("end", Call(t), outcome))
        more == turn[t].left > 1
    IN  /\ messages' = Append(messages, ResultMessage)
        /\ IF ~more /\ turn[t].round = budget.rounds
           THEN Finish(t, c, end, "ToolRoundLimit")
           ELSE /\ control' = c
                /\ events' = events \o end
                /\ turn' = IF more
                           THEN [turn EXCEPT ![t].pc = "call", ![t].left = @ - 1,
                                             ![t].n = @ + 1]
                           ELSE [turn EXCEPT ![t].pc = "request", ![t].round = @ + 1]

-----------------------------------------------------------------------------
(* A turn.                                                                 *)

allowed(mode, access) == IF mode = "Agent" \/ access = "ReadOnly" THEN access ELSE None

Remember(embed) == [p \in Paths |-> IF \E e \in embed : e[1] = p
                                    THEN (CHOOSE e \in embed : e[1] = p)[2]
                                    ELSE snapshots[p]]

\* start_run refuses a session that is not idle; then the user message is
\* recorded, and a missing provider configuration ends the turn.
StartRun(t) ==
    /\ turn[t].pc = "spawned"
    /\ IF control.status # "Idle"
       THEN Finish(t, control, << >>, "Error") /\ UNCHANGED <<messages, seen>>
       ELSE LET c == [status |-> "Streaming", token |-> t, deferred |-> FALSE]
            IN  /\ messages' = Append(messages, UserMessage)
                /\ snapshots' = Remember(turn[t].embed)
                /\ shown' = shown \cup {e[2] : e \in turn[t].embed}
                /\ \/ Finish(t, c, << >>, "Error")
                   \/ /\ control' = c
                      /\ turn' = [turn EXCEPT ![t].pc = "request",
                                    ![t].offered = allowed(turn[t].mode, registry.native)]
                      /\ UNCHANGED events
    /\ UNCHANGED <<cancelled, waiting, registry, panel, disk, budget>>

\* Authorization and the request itself, with the one retry after Unauthorized;
\* cancellation is not looked at here.
Request(t) ==
    /\ turn[t].pc = "request"
    /\ turn' = [turn EXCEPT ![t].pc = "stream"]
    /\ UNCHANGED <<control, cancelled, waiting, seen, messages, registry, events, panel,
                   disk, budget>>

\* ... or the request, or an item of the stream, is an error.
RequestFails(t) ==
    /\ turn[t].pc \in {"request", "stream"}
    /\ Finish(t, control, << >>, "Error")
    /\ UNCHANGED <<cancelled, waiting, seen, messages, registry, panel, disk, budget>>

\* The stream ends with or without text (one event stands for all of it) and
\* with k tool calls.
StreamEnds(t, k, text) ==
    LET chunk == IF text THEN <<Event("chunk", Call(t), None)>> ELSE << >>
    IN  /\ turn[t].pc = "stream"
        /\ turn[t].n + k <= budget.calls
        /\ messages' = IF k > 0 THEN Append(messages, CallMessage(k))
                       ELSE IF text THEN Append(messages, TextMessage) ELSE messages
        /\ IF k = 0
           THEN Finish(t, control, chunk, "Stop")
           ELSE /\ turn' = [turn EXCEPT ![t].pc = "call", ![t].left = k, ![t].n = @ + 1]
                /\ events' = events \o chunk
                /\ UNCHANGED control
        /\ UNCHANGED <<cancelled, waiting, seen, registry, panel, disk, budget>>

\* Each of the three waits (the stream, an approval, a proxy result) also waits
\* for the token; when both are ready either may win.
SeeCancel(t) ==
    /\ turn[t].pc \in {"stream", "approval", "proxy"}
    /\ t \in cancelled
    /\ senders' = senders \ {<<turn[t].pc, Call(t)>>}
    /\ Finish(t, control, << >>, "Cancelled")
    /\ UNCHANGED <<cancelled, answers, seen, messages, registry, panel, disk, budget>>

-----------------------------------------------------------------------------
(* A tool call.                                                            *)

\* tool_is_still_available: offered at the start of the turn, and the same now.
Available(t, tool) ==
    \/ tool = "read"
    \/ tool \in Mutating /\ turn[t].mode = "Agent"
    \/ tool = "proxy" /\ turn[t].offered # None /\ registry.native = turn[t].offered

\* A tool that is unknown or no longer available, or that fails.
RefuseTool(t) ==
    /\ turn[t].pc = "call"
    /\ Result(t, control, <<Event("start", Call(t), None)>>, "error")
    /\ UNCHANGED <<cancelled, waiting, seen, registry, panel, disk, budget>>

ReadFile(t, p) ==
    /\ turn[t].pc = "call"
    /\ "read" \in budget.tools
    /\ file[p] # 0
    /\ snapshots' = [snapshots EXCEPT ![p] = file[p]]
    /\ shown' = shown \cup {file[p]}
    /\ Result(t, control, <<Event("start", Call(t), None)>>, "ok")
    /\ UNCHANGED <<cancelled, waiting, registry, panel, disk, budget>>

\* The plan a mutating tool proposes: edit_file and delete_file expect what the
\* session last saw of the file, move_file a source that exists.
Plans(tool) ==
    IF tool = "create"
    THEN [kind : {tool}, p : Paths, q : {Note}, old : {0}, new : {fresh + 1}]
    ELSE IF tool = "edit"
    THEN {[kind |-> tool, p |-> p, q |-> Note, old |-> snapshots[p], new |-> fresh + 1] :
             p \in {p \in Paths : snapshots[p] # 0}}
    ELSE IF tool = "delete"
    THEN {[kind |-> tool, p |-> p, q |-> Note, old |-> snapshots[p], new |-> 0] :
             p \in {p \in Paths : snapshots[p] # 0}}
    ELSE {[kind |-> tool, p |-> p, q |-> q, old |-> 0, new |-> 0] :
             p \in {p \in Paths : file[p] # 0}, q \in Paths}

\* begin_awaiting_approval and the pending-approval event.
Propose(t, tool) ==
    /\ turn[t].pc = "call"
    /\ tool \in budget.tools \cap Mutating
    /\ Available(t, tool)
    /\ \E op \in Plans(tool) :
         /\ op.kind = "move" => op.p # op.q
         /\ turn' = [turn EXCEPT ![t].pc = "approval", ![t].op = op]
         /\ fresh' = IF op.new = 0 THEN fresh ELSE op.new
         /\ shown' = shown \cup ({op.new} \ {0})
    /\ senders' = senders \cup {<<"approval", Call(t)>>}
    /\ control' = [control EXCEPT !.status = "AwaitingApproval"]
    /\ events' = events \o <<Event("start", Call(t), None), Event("pending", Call(t), None)>>
    /\ UNCHANGED <<cancelled, answers, snapshots, messages, registry, panel, file, budget>>

Take(call, what) == [call |-> call, what |-> what] \in answers
                    /\ answers' = answers \ {[call |-> call, what |-> what]}

Rejected(t) ==
    /\ turn[t].pc = "approval"
    /\ Take(Call(t), "Reject")
    /\ Result(t, [control EXCEPT !.status = "Streaming"], << >>, "rejected")
    /\ UNCHANGED <<cancelled, senders, seen, registry, panel, disk, budget>>

Approved_Any(t) ==
    /\ turn[t].pc = "approval"
    /\ \E d \in {"Approve", "Reject"} : Take(Call(t), d)
    /\ control' = [control EXCEPT !.status = "Applying"]
    /\ turn' = [turn EXCEPT ![t].pc = "precheck"]
    /\ UNCHANGED <<cancelled, senders, seen, messages, registry, events, panel, disk, budget>>

Approved(t) ==
    /\ turn[t].pc = "approval"
    /\ Take(Call(t), "Approve")
    /\ control' = [control EXCEPT !.status = "Applying"]
    /\ turn' = [turn EXCEPT ![t].pc = "precheck"]
    /\ UNCHANGED <<cancelled, senders, seen, messages, registry, events, panel, disk, budget>>

\* The checks of apply_mutation, and the ones its guarded operations repeat.
Conflicts(op) ==
    CASE op.kind = "create" -> file[op.p] # 0
      [] op.kind \in {"edit", "delete"} -> file[op.p] # op.old
      [] op.kind = "move" -> file[op.p] = 0 \/ file[op.q] # 0

\* execute_native_tool after apply_mutation has answered: only now is the token
\* looked at again.
Applied(t, outcome) ==
    LET c == [control EXCEPT !.status = "Streaming"]
    IN  IF t \in cancelled
        THEN Finish(t, c, << >>, "Cancelled") /\ UNCHANGED messages
        ELSE Result(t, c, << >>, outcome)

\* An error of the host, such as a vault that is no longer open, becomes the
\* tool's result and leaves the status Applying.
HostFails_EndTurn(t) ==
    /\ turn[t].pc = "precheck"
    /\ Finish(t, control, << >>, "Error")
    /\ UNCHANGED <<cancelled, waiting, seen, messages, registry, panel, disk, budget>>

HostFails(t) ==
    /\ turn[t].pc = "precheck"
    /\ Result(t, control, << >>, "error")
    /\ UNCHANGED <<cancelled, waiting, seen, registry, panel, disk, budget>>

Check_Skip(t) ==
    /\ turn[t].pc \in {"precheck", "guard"}
    /\ IF Conflicts(turn[t].op) /\ turn[t].pc = "precheck"
       THEN Applied(t, "conflict")
       ELSE /\ turn' = [turn EXCEPT ![t].pc = IF @ = "precheck" THEN "guard" ELSE "write"]
            /\ UNCHANGED <<control, messages, events>>
    /\ UNCHANGED <<cancelled, waiting, seen, registry, panel, disk, budget>>

Check(t) ==
    /\ turn[t].pc \in {"precheck", "guard"}
    /\ IF Conflicts(turn[t].op)
       THEN Applied(t, "conflict")
       ELSE /\ turn' = [turn EXCEPT ![t].pc = IF @ = "precheck" THEN "guard" ELSE "write"]
            /\ UNCHANGED <<control, messages, events>>
    /\ UNCHANGED <<cancelled, waiting, seen, registry, panel, disk, budget>>

WriteFails(t) ==
    /\ turn[t].pc = "write"
    /\ Applied(t, "conflict")
    /\ UNCHANGED <<cancelled, waiting, seen, registry, panel, disk, budget>>

\* The operation on a map from paths, which is both what guarded_write,
\* guarded_delete and guarded_rename do to the vault and what
\* apply_successful_mutation does to the snapshots.
Perform(op, f) ==
    IF op.kind = "move"
    THEN [f EXCEPT ![op.q] = f[op.p], ![op.p] = 0]
    ELSE [f EXCEPT ![op.p] = op.new]

Write(t) ==
    /\ turn[t].pc = "write"
    /\ file' = Perform(turn[t].op, file)
    /\ snapshots' = Perform(turn[t].op, snapshots)
    /\ Applied(t, "ok")
    /\ UNCHANGED <<cancelled, waiting, shown, registry, panel, fresh, budget>>

\* execute_proxy_tool
CallProxy(t) ==
    /\ turn[t].pc = "call"
    /\ "proxy" \in budget.tools
    /\ Available(t, "proxy")
    /\ turn' = [turn EXCEPT ![t].pc = "proxy"]
    /\ senders' = senders \cup {<<"proxy", Call(t)>>}
    /\ events' = events \o <<Event("start", Call(t), None),
                             Event("proxy", Call(t), turn[t].offered)>>
    /\ UNCHANGED <<control, cancelled, answers, seen, messages, registry, panel, disk, budget>>

ProxyAnswered(t) ==
    /\ turn[t].pc = "proxy"
    /\ \E what \in {"ok", "error"} : Take(Call(t), what) /\ Result(t, control, << >>, what)
    /\ UNCHANGED <<cancelled, senders, seen, registry, panel, disk, budget>>

ProxyTimeout(t) ==
    /\ turn[t].pc = "proxy"
    /\ <<"proxy", Call(t)>> \in senders
    /\ senders' = senders \ {<<"proxy", Call(t)>>}
    /\ Result(t, control, << >>, "error")
    /\ UNCHANGED <<cancelled, answers, seen, registry, panel, disk, budget>>

-----------------------------------------------------------------------------
(* The commands of the panel, in the runtime.                              *)

backend == <<waiting, seen, messages, registry, events, failures, disk>>

\* ai_send_message spawns run_turn and returns.
SpawnTurn(t, m) ==
    /\ m \in commands /\ m.type = "send"
    /\ t = Min({u \in Turns : turn[u].pc = "none"})
    /\ turn' = [turn EXCEPT ![t].pc = "spawned", ![t].mode = m.mode, ![t].embed = m.embed]
    /\ commands' = commands \ {m}
    /\ ui' = [ui EXCEPT !.sending = FALSE]
    /\ UNCHANGED <<control, cancelled, backend, budget>>

\* SessionRuntime::cancel
RunCancel(m) ==
    /\ m \in commands /\ m.type = "cancel"
    /\ cancelled' = cancelled \cup ({control.token} \ {0})
    /\ control' = IF control.status = "Applying"
                  THEN [control EXCEPT !.deferred = TRUE]
                  ELSE [control EXCEPT !.token = 0]
    /\ commands' = commands \ {m}
    /\ UNCHANGED <<turn, backend, ui, budget>>

\* Sends an answer to the call that waits for it.
Deliver_Drop(channel, m) ==
    /\ senders' = senders \ {<<channel, m.call>>}
    /\ UNCHANGED answers

Deliver(channel, m) ==
    /\ senders' = senders \ {<<channel, m.call>>}
    /\ answers' = answers \cup {[call |-> m.call, what |-> m.what]}

\* resolve_approval; without a sender the command fails.
RunResolve(m) ==
    /\ m \in commands /\ m.type = "resolve"
    /\ commands' = commands \ {m}
    /\ IF <<"approval", m.call>> \in senders
       THEN Deliver("approval", m) /\ UNCHANGED failures
       ELSE failures' = failures \cup {m.call} /\ UNCHANGED waiting
    /\ UNCHANGED <<control, cancelled, turn, seen, messages, registry, events, ui, disk, budget>>

\* ai_submit_proxy_tool_result; the panel ignores its failure.
RunSubmit(m) ==
    /\ m \in commands /\ m.type = "submit"
    /\ commands' = commands \ {m}
    /\ IF <<"proxy", m.call>> \in senders THEN Deliver("proxy", m) ELSE UNCHANGED waiting
    /\ UNCHANGED <<control, cancelled, turn, seen, messages, registry, events, failures, ui,
                   disk, budget>>

-----------------------------------------------------------------------------
(* The panel.                                                              *)

engine == <<control, cancelled, turn, waiting, seen, messages, disk>>

Resolve(c, d) == [type |-> "resolve", call |-> c, what |-> d]

\* sendMessage up to the reading of the attachments
SendMessage ==
    /\ ~ui.sending /\ ui.status = "idle"
    /\ budget.turns > 0
    /\ budget' = [budget EXCEPT !.turns = @ - 1]
    /\ ui' = [ui EXCEPT !.sending = TRUE]
    /\ UNCHANGED <<engine, registry, events, commands, failures>>

\* ... and from there to the command; an attachment that cannot be read ends it.
SendPrepared ==
    /\ ui.sending /\ \A m \in commands : m.type # "send"
    /\ \/ /\ ui' = [ui EXCEPT !.sending = FALSE]
          /\ UNCHANGED commands
       \/ \E mode \in Modes, attached \in SUBSET {p \in budget.attach : file[p] # 0} :
            /\ ui' = [ui EXCEPT !.status = "streaming"]
            /\ commands' = commands \cup {[type |-> "send", mode |-> mode,
                             embed |-> {<<p, file[p]>> : p \in attached}]}
    /\ UNCHANGED <<engine, registry, events, failures, budget>>

CancelSession ==
    /\ ui.status \in Busy
    /\ budget.cancels > 0
    /\ budget' = [budget EXCEPT !.cancels = @ - 1]
    /\ commands' = commands \cup {[type |-> "cancel"]}
    /\ UNCHANGED <<engine, registry, events, failures, ui>>

Pending == {c \in DOMAIN ui.cards : ui.cards[c] = "pending"}

\* resolveApproval: the card and the status change before the command is run.
ResolveApproval(c, d) ==
    /\ c \in Pending
    /\ ui' = IF d = "Approve"
             THEN [ui EXCEPT !.cards[c] = "approved", !.status = "applying"]
             ELSE [ui EXCEPT !.cards[c] = "rejected", !.status = "streaming"]
    /\ commands' = commands \cup {Resolve(c, d)}
    /\ UNCHANGED <<engine, registry, events, failures, budget>>

ResolveFailed(c) ==
    /\ c \in failures
    /\ failures' = failures \ {c}
    /\ ui' = [ui EXCEPT !.cards[c] = "error", !.status = "error"]
    /\ UNCHANGED <<engine, registry, events, commands, budget>>

\* setAutoApprove approves every card that is pending, of earlier turns too.
SetAutoApprove ==
    /\ budget.autos > 0
    /\ budget' = [budget EXCEPT !.autos = @ - 1]
    /\ ui' = IF ui.auto \/ Pending = {}
             THEN [ui EXCEPT !.auto = ~ui.auto]
             ELSE [ui EXCEPT !.auto = TRUE, !.status = "applying",
                             !.cards = [c \in DOMAIN @ |-> IF c \in Pending THEN "approved"
                                                                            ELSE @[c]]]
    /\ commands' = IF ui.auto THEN commands
                   ELSE commands \cup {Resolve(c, "Approve") : c \in Pending}
    /\ UNCHANGED <<engine, registry, events, failures>>

\* endToolCall
CardAfter(outcome) ==
    CASE outcome = "ok" -> "applied"
      [] outcome = "rejected" -> "rejected"
      [] outcome = "conflict" -> "conflict"
      [] outcome = "error" -> "error"

\* proxy_tool_bridge: the handler runs only under the access the call was made
\* with, which must also be the one last synchronized.
Handles(e) ==
    /\ registry.plugin # None
    /\ registry.plugin = e.what
    /\ registry.plugin = registry.synced

Submit(c, what) == [type |-> "submit", call |-> c, what |-> what]

\* event_bridge and proxy_tool_bridge
HandleEvent ==
    /\ events # << >>
    /\ events' = Tail(events)
    /\ LET e == Head(events)
       IN  /\ ui' =
                CASE e.type = "end" ->
                       [ui EXCEPT !.status = "streaming",
                                  !.cards = [c \in DOMAIN @ |-> IF c = e.call
                                              THEN CardAfter(e.what) ELSE @[c]]]
                  [] e.type = "pending" ->
                       [ui EXCEPT !.status = IF ui.auto THEN "applying"
                                                        ELSE "awaiting-approval",
                                  !.cards = (e.call :> IF ui.auto THEN "approved"
                                                       ELSE "pending") @@ @]
                  [] e.type = "error" -> [ui EXCEPT !.status = "error"]
                  [] e.type = "done" ->
                       [ui EXCEPT !.status = IF e.what = "Error" THEN "error" ELSE "idle"]
                  [] OTHER -> [ui EXCEPT !.status = "streaming"]
           /\ commands' =
                IF e.type = "pending" /\ ui.auto
                THEN commands \cup {Resolve(e.call, "Approve")}
                ELSE IF e.type = "proxy"
                THEN commands \cup {Submit(e.call, IF Handles(e) THEN "ok" ELSE "error")}
                ELSE commands
    /\ UNCHANGED <<engine, registry, failures, budget>>

-----------------------------------------------------------------------------
(* The proxy tool's plugin, and the user's other work in the vault.        *)

ReplaceTool(access) ==
    /\ budget.swaps > 0 /\ access # registry.plugin
    /\ budget' = [budget EXCEPT !.swaps = @ - 1]
    /\ registry' = [registry EXCEPT !.plugin = access]
    /\ UNCHANGED <<engine, events, panel>>

\* syncRegisteredTools lists the tools, registers them with the runtime, and
\* records that it did; a synchronization waits for the one before it.
SyncTools ==
    /\ \/ /\ registry.listed = "nothing" /\ registry.synced # registry.plugin
          /\ registry' = [registry EXCEPT !.listed = registry.plugin]
       \/ /\ registry.listed # "nothing" /\ registry.native # registry.listed
          /\ registry' = [registry EXCEPT !.native = registry.listed]
       \/ /\ registry.listed # "nothing" /\ registry.native = registry.listed
          /\ registry' = [registry EXCEPT !.synced = registry.listed, !.listed = "nothing"]
    /\ UNCHANGED <<engine, events, panel, budget>>

UserEdit(p) ==
    /\ budget.edits > 0
    /\ RaceFiles \/ \A t \in Turns : turn[t].pc # "write"
    /\ budget' = [budget EXCEPT !.edits = @ - 1]
    /\ \/ fresh' = fresh + 1 /\ file' = [file EXCEPT ![p] = fresh + 1]
       \/ file[p] # 0 /\ file' = [file EXCEPT ![p] = 0] /\ UNCHANGED fresh
    /\ UNCHANGED <<control, cancelled, turn, waiting, seen, messages, registry, events, panel>>

TurnStep(t) ==
    \/ StartRun(t) \/ Request(t) \/ RequestFails(t) \/ SeeCancel(t)
    \/ \E k \in 0..2, text \in BOOLEAN : StreamEnds(t, k, text)
    \/ RefuseTool(t) \/ CallProxy(t) \/ ProxyAnswered(t) \/ ProxyTimeout(t)
    \/ \E p \in Paths : ReadFile(t, p)
    \/ \E tool \in Mutating : Propose(t, tool)
    \/ Rejected(t) \/ Approved(t) \/ HostFails(t) \/ Check(t) \/ WriteFails(t) \/ Write(t)

CommandStep ==
    \E m \in commands : RunCancel(m) \/ RunResolve(m) \/ RunSubmit(m)
                        \/ \E t \in Turns : SpawnTurn(t, m)

Answer(t) == \E c \in Pending, d \in {"Approve", "Reject"} : c[1] = t /\ ResolveApproval(c, d)

Next ==
    \/ \E t \in Turns : TurnStep(t)
    \/ CommandStep
    \/ SendMessage \/ SendPrepared \/ CancelSession \/ SetAutoApprove
    \/ \E t \in Turns : Answer(t)
    \/ \E c \in failures : ResolveFailed(c)
    \/ HandleEvent
    \/ \E access \in Access \cup {None} : ReplaceTool(access)
    \/ SyncTools
    \/ \E p \in Paths : UserEdit(p)

Spec == Init /\ [][Next]_vars

\* Tasks and callbacks that can run do run: the provider's stream ends or fails,
\* a proxy call is answered or times out.  The code does not time out an
\* approval; that the user answers a pending card, unless its turn was
\* cancelled, is assumed.
FairSpec ==
    /\ Spec
    /\ \A t \in Turns : WF_vars(TurnStep(t))
    /\ WF_vars(CommandStep) /\ WF_vars(SendPrepared) /\ WF_vars(HandleEvent)
    /\ WF_vars(\E c \in failures : ResolveFailed(c))
    /\ \A t \in Turns : WF_vars(t \notin cancelled /\ Answer(t))

-----------------------------------------------------------------------------
(* Properties.                                                             *)

\* Every variable holds a value of its type.
TypeOK ==
    /\ control \in [status : {"Idle", "Streaming", "AwaitingApproval", "Applying"},
                    token : Turns \cup {0}, deferred : BOOLEAN]
    /\ cancelled \subseteq Turns
    /\ \A t \in Turns : turn[t].pc \in {"none", "spawned", "request", "stream", "call",
                          "approval", "precheck", "guard", "write", "proxy", "over"}
    /\ senders \subseteq {"approval", "proxy"} \X Calls
    /\ answers \subseteq [call : Calls, what : {"Approve", "Reject", "ok", "error"}]
    /\ snapshots \in [Paths -> 0..fresh] /\ file \in [Paths -> 0..fresh]
    /\ shown \subseteq 1..fresh
    /\ messages \in Seq(Message)
    /\ failures \subseteq Calls
    /\ ui.status \in Busy \cup {"idle", "error"}
    /\ DOMAIN ui.cards \subseteq Calls

\* A session without a running turn accepts the next message, unless the last
\* turn to run was cancelled: run_turn completes every other run.
LeftBusyOnlyByCancel ==
    (\A t \in Turns : ~Running(t)) /\ control.status # "Idle"
        => /\ cancelled # {}
           /\ control.token \in cancelled \cup {0}

\* apply_mutation is entered only for a call of an Agent turn whose card the
\* panel shows as approved: an approval reaches the call it was given for.
AppliesOnlyApproved ==
    \A t \in Turns : turn[t].pc \in {"precheck", "guard", "write"} =>
        /\ turn[t].mode = "Agent"
        /\ Call(t) \in DOMAIN ui.cards /\ ui.cards[Call(t)] = "approved"

\* A tool call never destroys a content the model has not seen in this session:
\* what edit_file and delete_file replace was read, attached or written before,
\* and create_file and move_file replace nothing.
NoBlindOverwrite ==
    [][\A t \in Turns, p \in Paths :
         turn[t].pc = "write" /\ turn'[t].pc # "write" /\ file[p] # 0 /\ file'[p] # file[p]
           => IF turn[t].op.kind = "move" THEN file[p] \in {file'[q] : q \in Paths}
                                          ELSE file[p] \in shown]_vars

\* Every tool call the model made has its result right after it, in the messages
\* of later requests too; only a cancelled turn leaves calls without one, and
\* only the calls of its last message.
CallsAnswered ==
    LET answered(i) == \A j \in i+1..i+messages[i].n :
                          j \in DOMAIN messages /\ messages[j].kind = "result"
        open == {i \in DOMAIN messages : messages[i].kind = "calls" /\ ~answered(i)}
    IN  Cardinality(open) <= Cardinality(cancelled)
                             + Cardinality({t \in Turns \ cancelled : Running(t)})

\* What is sent to the model is well formed whenever a request is made.
HistoryFits ==
    (\E t \in Turns : turn[t].pc = "request") => WellCompacted(messages)

\* A busy panel becomes free again: the turn ends and its last event arrives.
BusyEnds == ui.status \in Busy ~> ui.status \notin Busy

=============================================================================
