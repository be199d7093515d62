---------------------------- MODULE SessionTurn ----------------------------
(***************************************************************************)
(* One conversation of the agent server: the turn engine that runs it      *)
(* (coworker/engine.py), the Inbox its prompts are parked in               *)
(* (coworker/inbox.py) and the session manager and WebSocket handler that  *)
(* start, stop, answer, persist and resume its turns (server/manager.py,   *)
(* server/app.py).                                                         *)
(*                                                                         *)
(* A step is what the server does between two awaits of its event loop; a  *)
(* Task is a coroutine driving the session's engine.  The text of messages *)
(* is abstracted away: a history keeps which tool calls are open, how often*)
(* each was answered and which background messages it contains.            *)
(***************************************************************************)
EXTENDS Naturals, FiniteSets

CONSTANTS
    Task,       \* coroutines that may drive the session's engine
    View,       \* open sockets showing the session
    Note,       \* background messages: self-wakes, channel deliveries
    NumCalls,   \* bound: tool calls the model proposes in all
    MaxCalls,   \* bound: tool calls in one assistant message
    MaxIter,    \* TurnEngine.max_iterations
    MaxTurns,   \* bound: turns started by the user or the scheduler
    MaxCrash,   \* bound: restarts of the server process
    CallId,     \* tool-call ids, as the provider hands them out
    IdOf,       \* the id of each call
    KindOf,     \* what the permission engine says of each call
    LowRisk,    \* calls whose tool declares low risk and no approval (_parallel_safe)
    Scheduled,  \* does the scheduler run this session?
    Surfaces,   \* the surfaces prompts are answered from
    NoFrame     \* "no answer in flight"

Call     == 1..NumCalls
Kind     == {"auto", "ask", "question", "blocked"}
Decision == {"allow", "deny"}

ASSUME SessionAssumption ==
    /\ NumCalls \in Nat /\ MaxCalls \in Nat /\ MaxIter \in Nat \ {0}
    /\ MaxTurns \in Nat /\ MaxCrash \in Nat
    /\ IdOf \in [Call -> CallId] /\ KindOf \in [Call -> Kind] /\ LowRisk \subseteq Call
    /\ Scheduled \in BOOLEAN
    /\ Surfaces \subseteq {"rest", "socket", "reply"}
    /\ IsFiniteSet(CallId)

VARIABLES
    live,       \* the engine's message history
    disk,       \* the history in the conversation store
    item,       \* InboxItem.state and resolution, by tool-call id
    rank,       \* order in which the items were created
    pc,         \* where each task stands in the turn
    todo,       \* calls of the current message not yet authorized
    cleared,    \* calls authorized and not yet answered
    iter,       \* iterations of the model loop; 0 while resuming
    origin,     \* what started the task
    running,    \* session_id \in SessionManager._running_sessions
    cancel,     \* TurnEngine._cancel is set
    steering,   \* TurnEngine._steering
    sent,       \* notes delivered to the session so far
    frame,      \* answer in flight on each socket
    executed,   \* how often each call's tool was started
    said,       \* answers people gave, and to which prompt (history variable)
    turns, crashes

taskVars  == <<pc, todo, cleared, iter, origin>>
inboxVars == <<item, rank>>
userVars  == <<frame, said>>
countVars == <<turns, crashes>>
vars == <<live, disk, taskVars, inboxVars, userVars, countVars, running, cancel,
          steering, sent, executed>>

-----------------------------------------------------------------------------
(* Histories.                                                              *)

History == [used    : 0..NumCalls,        \* calls proposed so far
            round   : SUBSET Call,        \* calls of the last assistant message
                                          \* that no user message follows
            answers : [Call -> Nat],      \* tool results appended for each call
            steered : SUBSET Note,        \* notes that reached the history
            failed  : BOOLEAN]            \* the tail is an error notice

NoHistory == [used |-> 0, round |-> {}, answers |-> [c \in Call |-> 0],
              steered |-> {}, failed |-> FALSE]

AddUser(h, notes) ==
    [h EXCEPT !.round = {}, !.steered = @ \cup notes, !.failed = FALSE]

AddRound(h, k) ==
    [h EXCEPT !.used = @ + k, !.round = (h.used + 1)..(h.used + k), !.failed = FALSE]

AddResults(h, S) ==
    [h EXCEPT !.answers = [c \in Call |-> IF c \in S THEN h.answers[c] + 1
                                                     ELSE h.answers[c]],
              !.failed = FALSE]

\* Mutant: resume goes over every call of the last message again.
UnansweredAll(h) == h.round

\* TurnEngine._unanswered_trailing_tool_calls: results are matched by id.
Unanswered(h) ==
    {c \in h.round : \A d \in Call : IdOf[d] = IdOf[c] => h.answers[d] = 0}

-----------------------------------------------------------------------------
(* The Inbox.                                                              *)

Pending == {i \in CallId : item[i] = "pending"}

\* InboxStore.pending(session_id)[0]: items are sorted by creation time.
Oldest(i) == i \in Pending /\ \A j \in Pending : rank[i] <= rank[j]

\* InboxStore.add: an item of this tool call is reused, whatever its state.
Raise(c) ==
    LET i == IdOf[c] IN
    IF item[i] = "none"
    THEN /\ item' = [item EXCEPT ![i] = "pending"]
         /\ rank' = [rank EXCEPT ![i] =
                       1 + Cardinality({j \in CallId : item[j] # "none"})]
    ELSE UNCHANGED inboxVars

\* Mutant: a later answer replaces the first.
ResolveLastWins(i, d) ==
    /\ item[i] # "none"
    /\ item' = [item EXCEPT ![i] = d]
    /\ UNCHANGED rank

\* InboxStore.resolve: the first answer wins.
Resolve(i, d) ==
    /\ item[i] = "pending"
    /\ item' = [item EXCEPT ![i] = d]
    /\ UNCHANGED rank

-----------------------------------------------------------------------------
Init ==
    /\ live = NoHistory /\ disk = NoHistory
    /\ item = [i \in CallId |-> "none"] /\ rank = [i \in CallId |-> 0]
    /\ pc = [t \in Task |-> "idle"]
    /\ todo = [t \in Task |-> {}] /\ cleared = [t \in Task |-> {}]
    /\ iter = [t \in Task |-> 0] /\ origin = [t \in Task |-> "socket"]
    /\ running = FALSE /\ cancel = FALSE
    /\ steering = {} /\ sent = {}
    /\ frame = [v \in View |-> NoFrame] /\ said = {}
    /\ executed = [c \in Call |-> 0]
    /\ turns = 0 /\ crashes = 0

Active == {t \in Task : pc[t] # "idle"}
Goto(t, label) == pc' = [pc EXCEPT ![t] = label]
OnSocket(t) == origin[t] \in {"socket", "retry"}
First(c, S) == c \in S /\ \A d \in S : c <= d     \* calls are handled in order

-----------------------------------------------------------------------------
(* Starting a turn.                                                        *)

\* Mutant: the session is marked running without looking whether it is.
MarkRunning == running' = TRUE

\* SessionManager.try_mark_running succeeds.
TryMarkRunning == ~running /\ running' = TRUE

\* claim_turn: a user message or a retry frame claims an idle session; the
\* coroutine that runs the turn is only scheduled.
ClaimTurn(t, how) ==
    /\ pc[t] = "idle" /\ turns < MaxTurns
    /\ TryMarkRunning
    /\ turns' = turns + 1
    /\ Goto(t, "claimed")
    /\ origin' = [origin EXCEPT ![t] = how]
    /\ UNCHANGED <<live, disk, todo, cleared, iter, inboxVars, userVars, crashes,
                   cancel, steering, sent, executed>>

\* TurnEngine.run or .retry up to its turn_start event, then the checkpoint.  A retry
\* without an error to retry yields no event: the turn ends at once.
Begin(t) ==
    /\ pc[t] = "claimed"
    /\ \/ /\ origin[t] = "socket"
          /\ live' = AddUser(live, {})
          /\ disk' = live'
          /\ UNCHANGED running
          /\ cancel' = FALSE
          /\ Goto(t, "model") /\ iter' = [iter EXCEPT ![t] = 1]
       \/ /\ origin[t] = "retry" /\ live.failed
          /\ disk' = live
          /\ cancel' = FALSE
          /\ Goto(t, "model") /\ iter' = [iter EXCEPT ![t] = 1]
          /\ UNCHANGED <<live, running>>
       \/ /\ origin[t] = "retry" /\ ~live.failed
          /\ disk' = live /\ running' = FALSE
          /\ Goto(t, "idle")
          /\ UNCHANGED <<live, cancel, iter>>
    /\ UNCHANGED <<todo, cleared, origin, inboxVars, userVars, countVars, steering, sent,
                   executed>>

\* TurnEngine.run without a socket: no await between the claim and the first
\* append, and no checkpoint at turn_start.
RunDetached(t, how, notes) ==
    /\ pc[t] = "idle"
    /\ live' = AddUser(live, notes)
    /\ cancel' = FALSE
    /\ Goto(t, "model")
    /\ iter' = [iter EXCEPT ![t] = 1]
    /\ origin' = [origin EXCEPT ![t] = how]
    /\ UNCHANGED <<disk, todo, cleared, inboxVars, userVars, crashes, steering,
                   executed>>

\* deliver_to_session on an idle session.
DeliverIdle(t, n) ==
    /\ n \notin sent
    /\ TryMarkRunning
    /\ sent' = sent \cup {n}
    /\ RunDetached(t, "deliver", {n})
    /\ UNCHANGED turns

\* deliver_to_session on a busy session: the message is queued for steering.
DeliverBusy(n) ==
    /\ running /\ n \notin sent
    /\ steering' = steering \cup {n}
    /\ sent' = sent \cup {n}
    /\ UNCHANGED <<live, disk, taskVars, inboxVars, userVars, countVars, running,
                   cancel, executed>>

\* _run_scheduled_task: a fresh session, which is not marked as running.
StartScheduled(t) ==
    /\ Scheduled /\ Active = {} /\ live = NoHistory /\ turns < MaxTurns
    /\ turns' = turns + 1
    /\ RunDetached(t, "scheduled", {})
    /\ UNCHANGED <<running, sent>>

-----------------------------------------------------------------------------
(* The model loop.                                                         *)

\* Mutant: max_iterations is not looked at.
LoopForever(t) == Goto(t, "model") /\ iter' = [iter EXCEPT ![t] = @ + 1]

\* The top of the while loop in _loop.
LoopTop(t) ==
    IF iter[t] < MaxIter
    THEN Goto(t, "model") /\ iter' = [iter EXCEPT ![t] = @ + 1]
    ELSE Goto(t, "ending") /\ UNCHANGED iter

\* Mutant: the queue is not emptied.
InjectAgain == live' = AddUser(live, steering) /\ UNCHANGED steering

\* _inject_steering.
InjectSteering == live' = AddUser(live, steering) /\ steering' = {}

\* The model proposes tool calls.
ModelCalls(t) ==
    /\ pc[t] = "model"
    /\ \E k \in 1..MaxCalls :
          /\ live.used + k <= NumCalls
          /\ live' = AddRound(live, k)
          /\ todo' = [todo EXCEPT ![t] = live'.round]
    /\ Goto(t, "authorize")
    /\ UNCHANGED <<disk, cleared, iter, origin, inboxVars, userVars, countVars, running,
                   cancel, steering, sent, executed>>

\* The model answers in text: the turn is over unless a note is waiting.
ModelText(t) ==
    /\ pc[t] = "model"
    /\ IF steering = {}
       THEN /\ live' = [live EXCEPT !.failed = FALSE]
            /\ Goto(t, "ending")
            /\ UNCHANGED <<iter, steering>>
       ELSE InjectSteering /\ LoopTop(t)
    /\ UNCHANGED <<disk, todo, cleared, origin, inboxVars, userVars, countVars, running,
                   cancel, sent, executed>>

\* Stop reached the stream, or the provider failed beyond recovery.
ModelEnds(t) ==
    /\ pc[t] = "model"
    /\ \/ cancel /\ live' = [live EXCEPT !.failed = FALSE]
       \/ live' = [live EXCEPT !.failed = TRUE]
    /\ Goto(t, "ending")
    /\ UNCHANGED <<disk, todo, cleared, iter, origin, inboxVars, userVars, countVars,
                   running, cancel, steering, sent, executed>>

-----------------------------------------------------------------------------
(* _handle_tool_calls: authorize every call in order, then execute.        *)

\* Answer the calls in S without running them.
Dismiss(t, S) ==
    /\ live' = AddResults(live, S)
    /\ todo' = [todo EXCEPT ![t] = @ \ S]
    /\ cleared' = [cleared EXCEPT ![t] = @ \ S]

Clear(t, c) ==
    /\ todo' = [todo EXCEPT ![t] = @ \ {c}]
    /\ cleared' = [cleared EXCEPT ![t] = @ \cup {c}]
    /\ UNCHANGED live

\* Mutant: a stopped call is dropped without a tool result.
DropTool(t, c) ==
    /\ todo' = [todo EXCEPT ![t] = @ \ {c}]
    /\ cleared' = [cleared EXCEPT ![t] = @ \ {c}]
    /\ UNCHANGED live

\* _interrupted_tool: a call that will not run because of Stop gets an error result.
InterruptedTool(t, c) == Dismiss(t, {c})

\* permissions.evaluate allows the call outright.
AllowedOutright(c) == KindOf[c] = "auto"

\* The next call is dismissed after Stop, or announced (TOOL_PROPOSED).  The engine
\* resumes when the event has been sent to the session's viewers; Stop may come first.
Authorize(t) ==
    /\ pc[t] = "authorize"
    /\ \E c \in Call :
          /\ First(c, todo[t])
          /\ \/ cancel /\ InterruptedTool(t, c) /\ UNCHANGED pc
             \/ ~cancel /\ Goto(t, "proposed") /\ UNCHANGED <<live, todo, cleared>>
    /\ UNCHANGED <<disk, iter, origin, inboxVars, userVars, countVars, running, cancel,
                   steering, sent, executed>>

\* The permission engine refuses the call or allows it outright.
Judge(t) ==
    /\ pc[t] = "proposed"
    /\ \E c \in Call :
          /\ First(c, todo[t])
          /\ \/ KindOf[c] = "blocked" /\ Dismiss(t, {c})
             \/ AllowedOutright(c) /\ Clear(t, c)
    /\ Goto(t, "authorize")
    /\ UNCHANGED <<disk, iter, origin, inboxVars, userVars, countVars, running, cancel,
                   steering, sent, executed>>

\* Mutant: only the socket's checkpoint saves the session.
CheckpointOnly(t, c) ==
    disk' = IF OnSocket(t) /\ KindOf[c] = "ask" THEN live ELSE disk

\* The prompt callbacks save a session whose item is pending (persist_session); the
\* socket's run_turn saves it at permission_required in any case.
SavePrompt(t, c) ==
    disk' = IF item'[IdOf[c]] = "pending" \/ (OnSocket(t) /\ KindOf[c] = "ask")
            THEN live ELSE disk

\* A prompt: the item is raised, and the session saved while it is pending.
Park(t) ==
    /\ pc[t] = "proposed"
    /\ \E c \in Call :
          /\ First(c, todo[t])
          /\ KindOf[c] \in {"ask", "question"}
          /\ Raise(c)
          /\ SavePrompt(t, c)
    /\ Goto(t, "parked")
    /\ UNCHANGED <<live, todo, cleared, iter, origin, userVars, countVars, running,
                   cancel, steering, sent, executed>>

\* Mutant: an answer that is not a denial counts as an approval.
NotDenied(c) == item[IdOf[c]] # "deny"

\* approval_outcome of the item's resolution is not DENY.
Approved(c) == item[IdOf[c]] = "allow"

\* Mutant: Stop does not wake the prompt.
DeniedOnly(c) == item[IdOf[c]] = "deny"

\* The prompt was denied, or Stop won the race in _interruptible.
Declined(c) == item[IdOf[c]] = "deny" \/ cancel

\* _interruptible: the item was resolved, or Stop won the race.
Unpark(t) ==
    /\ pc[t] = "parked"
    /\ \E c \in Call :
          /\ First(c, todo[t])
          /\ \/ Approved(c) /\ KindOf[c] = "ask" /\ Clear(t, c)
             \/ Approved(c) /\ KindOf[c] = "question" /\ Dismiss(t, {c})
             \/ Declined(c) /\ Dismiss(t, {c})
    /\ Goto(t, "authorize")
    /\ UNCHANGED <<disk, iter, origin, inboxVars, userVars, countVars, running, cancel,
                   steering, sent, executed>>

Concurrent(t) == IF Cardinality(cleared[t]) > 1 THEN cleared[t] \cap LowRisk ELSE {}

Execute(S) ==
    executed' = [c \in Call |-> IF c \in S THEN executed[c] + 1 ELSE executed[c]]

\* Start the low-risk calls together, or go on to the others.  Stop is not looked at.
StartConcurrent(t) ==
    /\ pc[t] = "authorize" /\ todo[t] = {}
    /\ Execute(Concurrent(t))
    /\ Goto(t, IF Concurrent(t) = {} THEN "serial" ELSE "gather")
    /\ UNCHANGED <<live, disk, todo, cleared, iter, origin, inboxVars, userVars,
                   countVars, running, cancel, steering, sent>>

FinishConcurrent(t) ==
    /\ pc[t] = "gather"
    /\ Dismiss(t, Concurrent(t))
    /\ Goto(t, "serial")
    /\ UNCHANGED <<disk, iter, origin, inboxVars, userVars, countVars, running, cancel,
                   steering, sent, executed>>

\* Mutant: Stop is not looked at between the calls.
StartSerialAnyway(t) ==
    /\ pc[t] = "serial" /\ cleared[t] # {}
    /\ Goto(t, "starting")
    /\ UNCHANGED <<live, disk, todo, cleared, iter, origin, inboxVars, userVars,
                   countVars, running, cancel, steering, sent, executed>>

\* The remaining calls one by one: Stop is looked at, then the call is announced
\* (TOOL_STARTED).
StartSerial(t) ==
    /\ pc[t] = "serial"
    /\ \E c \in Call :
          /\ First(c, cleared[t])
          /\ \/ cancel /\ InterruptedTool(t, c) /\ UNCHANGED pc
             \/ ~cancel /\ Goto(t, "starting") /\ UNCHANGED <<live, todo, cleared>>
    /\ UNCHANGED <<disk, iter, origin, inboxVars, userVars, countVars, running, cancel,
                   steering, sent, executed>>

\* When the event has been sent the tool is started; Stop is not looked at again.
Launch(t) ==
    /\ pc[t] = "starting"
    /\ \E c \in Call : First(c, cleared[t]) /\ Execute({c})
    /\ Goto(t, "tool")
    /\ UNCHANGED <<live, disk, todo, cleared, iter, origin, inboxVars, userVars,
                   countVars, running, cancel, steering, sent>>

FinishSerial(t) ==
    /\ pc[t] = "tool"
    /\ \E c \in Call : First(c, cleared[t]) /\ Dismiss(t, {c})
    /\ Goto(t, "serial")
    /\ UNCHANGED <<disk, iter, origin, inboxVars, userVars, countVars, running, cancel,
                   steering, sent, executed>>

\* iteration_end: checkpoint, then stop, steer or go round again.  resume()
\* enters the loop (iter = 0) without looking at the steering queue.
EndIteration(t) ==
    /\ pc[t] = "serial" /\ cleared[t] = {}
    /\ disk' = IF OnSocket(t) THEN live ELSE disk
    /\ IF cancel
       THEN Goto(t, "ending") /\ UNCHANGED <<live, steering, iter>>
       ELSE /\ LoopTop(t)
            /\ IF iter[t] # 0 /\ steering # {}
               THEN InjectSteering
               ELSE UNCHANGED <<live, steering>>
    /\ UNCHANGED <<todo, cleared, origin, inboxVars, userVars, countVars, running, cancel,
                   sent, executed>>

\* The turn's finally clause: save, and free the session if it was claimed.
EndTurn(t) ==
    /\ pc[t] = "ending"
    /\ disk' = live
    /\ running' = IF origin[t] = "scheduled" THEN running ELSE FALSE
    /\ Goto(t, "idle")
    /\ iter' = [iter EXCEPT ![t] = 0]
    /\ UNCHANGED <<live, todo, cleared, origin, inboxVars, userVars, countVars, cancel,
                   steering, sent, executed>>

-----------------------------------------------------------------------------
(* What people do, and restarts.                                           *)

\* An "interrupt" frame: request_interrupt.
Stop ==
    /\ cancel' = TRUE
    /\ UNCHANGED <<live, disk, taskVars, inboxVars, userVars, countVars, running,
                   steering, sent, executed>>

\* Mutant: the answer is recorded, but nobody resumes the turn.
LeaveSuspended == UNCHANGED <<disk, running, cancel, taskVars>>

\* _durable_resume, if nothing is marked running: continue the turn from the history,
\* or just save when no call of it is unanswered.
DurableResume ==
    \/ running /\ UNCHANGED <<disk, running, cancel, taskVars>>
    \/ /\ ~running /\ Unanswered(live) = {}
       /\ disk' = live
       /\ UNCHANGED <<running, cancel, taskVars>>
    \/ /\ ~running /\ Unanswered(live) # {}
       /\ running' = TRUE
       /\ cancel' = FALSE
       /\ \E t \in Task \ Active :
             /\ Goto(t, "authorize")
             /\ todo' = [todo EXCEPT ![t] = Unanswered(live)]
             /\ iter' = [iter EXCEPT ![t] = 0]
             /\ origin' = [origin EXCEPT ![t] = "resume"]
       /\ UNCHANGED <<disk, cleared>>

\* resolve_inbox (Inbox page, Slack button): resolve by id, then resume.
ResolveItem(i, d) ==
    /\ "rest" \in Surfaces
    /\ Resolve(i, d)
    /\ said' = said \cup {<<i, d>>}
    /\ DurableResume
    /\ UNCHANGED <<live, frame, countVars, steering, sent, executed>>

\* _resolve_inbox_reply: a tagged channel reply resolves the item, no more.
ReplyItem(i, d) ==
    /\ "reply" \in Surfaces
    /\ Resolve(i, d)
    /\ said' = said \cup {<<i, d>>}
    /\ UNCHANGED <<live, disk, taskVars, frame, countVars, running, cancel, steering,
                   sent, executed>>

\* A person answers the prompt they see; the frame carries no item id.
SendFrame(v, i, d) ==
    /\ "socket" \in Surfaces
    /\ frame[v] = NoFrame /\ item[i] = "pending"
    /\ frame' = [frame EXCEPT ![v] = d]
    /\ said' = said \cup {<<i, d>>}
    /\ UNCHANGED <<live, disk, taskVars, inboxVars, countVars, running, cancel, steering,
                   sent, executed>>

\* _resolve_pending: the frame answers the oldest pending item, if there is one.
FrameArrives(v) ==
    /\ frame[v] # NoFrame
    /\ frame' = [frame EXCEPT ![v] = NoFrame]
    /\ \/ Pending = {} /\ UNCHANGED inboxVars
       \/ \E i \in CallId : Oldest(i) /\ Resolve(i, frame[v])
    /\ UNCHANGED <<live, disk, taskVars, said, countVars, running, cancel, steering, sent,
                   executed>>

\* The process dies and comes back: what is not on disk is lost.
Crash ==
    /\ crashes < MaxCrash
    /\ crashes' = crashes + 1
    /\ live' = disk
    /\ pc' = [t \in Task |-> "idle"]
    /\ todo' = [t \in Task |-> {}] /\ cleared' = [t \in Task |-> {}]
    /\ iter' = [t \in Task |-> 0]
    /\ running' = FALSE /\ cancel' = FALSE /\ steering' = {}
    /\ frame' = [v \in View |-> NoFrame]
    /\ UNCHANGED <<disk, origin, inboxVars, said, turns, sent, executed>>

-----------------------------------------------------------------------------
TaskStep(t) ==
    \/ Begin(t) \/ ModelCalls(t) \/ ModelText(t) \/ ModelEnds(t)
    \/ Authorize(t) \/ Judge(t) \/ Park(t) \/ Unpark(t)
    \/ StartConcurrent(t) \/ FinishConcurrent(t)
    \/ StartSerial(t) \/ Launch(t) \/ FinishSerial(t)
    \/ EndIteration(t) \/ EndTurn(t)

Starts ==
    \/ \E t \in Task, how \in {"socket", "retry"} : ClaimTurn(t, how)
    \/ \E t \in Task, n \in Note : DeliverIdle(t, n)
    \/ \E n \in Note : DeliverBusy(n)
    \/ \E t \in Task : StartScheduled(t)

People ==
    \/ Stop
    \/ \E i \in CallId, d \in Decision : ResolveItem(i, d) \/ ReplyItem(i, d)
    \/ \E v \in View, i \in CallId, d \in Decision : SendFrame(v, i, d)
    \/ \E v \in View : FrameArrives(v)

Next == (\E t \in Task : TaskStep(t)) \/ Starts \/ People \/ Crash

Spec == Init /\ [][Next]_vars

-----------------------------------------------------------------------------
(* Properties.                                                             *)

\* Every variable has its type.
TypeOK ==
    /\ live \in History /\ disk \in History
    /\ item \in [CallId -> {"none", "pending"} \cup Decision]
    /\ rank \in [CallId -> Nat]
    /\ pc \in [Task -> {"idle", "claimed", "model", "authorize", "proposed", "parked",
                        "gather", "serial", "starting", "tool", "ending"}]
    /\ todo \in [Task -> SUBSET Call] /\ cleared \in [Task -> SUBSET Call]
    /\ iter \in [Task -> 0..MaxIter]
    /\ origin \in [Task -> {"socket", "retry", "deliver", "scheduled", "resume"}]
    /\ running \in BOOLEAN /\ cancel \in BOOLEAN
    /\ steering \subseteq Note /\ sent \subseteq Note
    /\ frame \in [View -> Decision \cup {NoFrame}]
    /\ said \subseteq CallId \X Decision
    /\ executed \in [Call -> Nat]
    /\ turns \in 0..MaxTurns /\ crashes \in 0..MaxCrash

\* One runner: while turns are claimed with try_mark_running, at most one
\* coroutine drives the engine, and exactly when the session is marked running.
OneRunner ==
    /\ \A t, u \in Active : t = u
    /\ running <=> Active # {}

\* A tool that needs consent has run only if its Inbox item was resolved as an
\* approval, whatever was stopped, resumed, restarted or answered in between.
ConsentedRuns ==
    \A c \in Call : KindOf[c] = "ask" /\ executed[c] > 0 => item[IdOf[c]] = "allow"

\* Nothing the permission engine refused, and no prompt-only tool, is executed.
OnlyToolsRun ==
    \A c \in Call : KindOf[c] \in {"blocked", "question"} => executed[c] = 0

\* The strengthening that makes these two inductive: a call that was authorized and
\* still waits to be executed was allowed outright, or its Inbox item is an approval.
ClearedByConsent ==
    \A t \in Task : \A c \in cleared[t] :
        KindOf[c] = "auto" \/ (KindOf[c] = "ask" /\ item[IdOf[c]] = "allow")

\* resume()'s claim "answered calls are skipped, so nothing double-executes".
AtMostOnce == \A c \in Call : executed[c] <= 1

\* Every tool call gets at most one tool result in the history.
AnsweredOnce == \A c \in Call : live.answers[c] <= 1

\* Between turns no proposed call is left without a result: the promise of
\* request_interrupt that "the history never carries orphans".
NoOrphans ==
    Active = {} => \A c \in 1..live.used : live.answers[c] > 0

ParkedOn(t, c) == pc[t] = "parked" /\ First(c, todo[t])

\* A turn waiting for a person survives a crash: what is on disk still shows the
\* call as the unanswered one, so that a later answer can resume it.
ParkedIsDurable ==
    \A t \in Task :
        \A c \in Call :
            (ParkedOn(t, c) /\ item[IdOf[c]] = "pending")
                => disk.round = live.round /\ c \in Unanswered(disk)

\* A background message is in the queue or in the history, once, unless the
\* process died.
NotesKept ==
    crashes = 0 => /\ sent = steering \cup live.steered
                   /\ steering \cap live.steered = {}

\* A prompt is resolved with an answer somebody gave to that very prompt.
ResolvedAsSaid ==
    \A i \in CallId : item[i] \in Decision => <<i, item[i]>> \in said

\* InboxStore.resolve, "exactly once": a resolution is never changed, and an
\* item never disappears.
AnswersKept ==
    \A i \in CallId : /\ (item[i] \in Decision => item'[i] = item[i])
                      /\ (item[i] = "pending" => item'[i] # "none")

FirstAnswerWins == [][AnswersKept]_item

\* The call whose start was announced and whose tool is not running yet.
Announced == {c \in Call : \E t \in Task : pc[t] = "starting" /\ First(c, cleared[t])}

\* After Stop the one tool that may still be started, low-risk ones apart, is one whose
\* start had been announced when Stop came; nothing is announced any more.
StopHolds ==
    [][cancel => /\ \A c \in Call \ LowRisk : executed'[c] > executed[c] => c \in Announced
                 /\ cancel' => Announced' \subseteq Announced]_vars

\* The abstract view: prompts are answered once and consent comes before the tool.
Gate == INSTANCE ToolGate WITH verdict <- item, runs <- executed
GateSpec == Gate!Spec

-----------------------------------------------------------------------------
(* Fairness: the event loop runs every ready coroutine, tools and provider *)
(* calls return or fail, and sockets deliver their frames.  Nobody is      *)
(* obliged to answer a prompt.                                             *)

FairSpec == /\ Spec
            /\ \A t \in Task : WF_vars(TaskStep(t))
            /\ \A v \in View : WF_vars(FrameArrives(v))

\* Stop ends the turn: a turn under way when Stop is pressed comes to an end
\* even if nobody ever answers its prompt.
StopEndsTurn ==
    \A t \in Task : cancel /\ pc[t] \notin {"idle", "claimed"} ~> pc[t] = "idle"

\* A prompt that is still pending after the last restart is not lost: if its call is
\* still the history's open one when it is answered, then the call gets its result, or
\* the resumed turn waits for another prompt of the same message.  A turn claimed but
\* not begun when the answer lands is excluded: its message closes the round.
Waiting == \E t \in Task, c \in Call : ParkedOn(t, c) /\ item[IdOf[c]] = "pending"

Claiming == \E t \in Task : pc[t] = "claimed"

AnswerTakesEffect ==
    \A c \in Call :
        [](/\ crashes = MaxCrash
           /\ c \in Unanswered(live) /\ item[IdOf[c]] = "pending"
           /\ []~Claiming
           => [](c \in Unanswered(live) /\ item[IdOf[c]] \in Decision
                    => <>(live.answers[c] > 0 \/ Waiting)))
=============================================================================
