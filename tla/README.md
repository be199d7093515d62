# Verification of the agent server

This directory holds TLA+ models of AI-COWORK, the TLC configurations that check
them on small instances, and TLAPS proofs of what matters most. Paths below are
relative to `src/`; `coworker/` stands for `connect-ai/coworker/`. The line
ranges behind every definition are in `PROJECT.json` ("map").

    tlc -workers 4 -config session_core.cfg MCSessionTurn.tla    # one run
    tlapm SessionHistory_proofs.tla                              # one proof module

## 1. The system

The repository is a local agent server (Python, asyncio and FastAPI) with a web
GUI, a browser gateway with its extension, review jobs that a launcher process and
the extension carry out together, and a crawler with a commerce part.

| Part | State it keeps | Operations | Interacts with | What is hard, and what must hold |
|---|---|---|---|---|
| **Turn engine** `coworker/engine.py` | history, cancel flag, steering queue, model, failed models, time waited | run, retry, resume, stop, steer, switch the model | provider (thread), tools (threads), approver (Inbox) | Stop from any state, prompts that wait for days, concurrent tools, quota waits. No tool without consent, no call answered twice or left open, every stopped turn ends, a turn's iterations and waiting are bounded |
| **Inbox** `coworker/inbox.py` | prompts and their resolutions, on disk | add, pending, resolve, wait | approver, REST, sockets, channels | answers from several surfaces, re-raised prompts. The first answer is final and belongs to its prompt |
| **Session manager** `coworker/server/manager.py` | live engines, running sessions, stores | claim, deliver, resume, persist, approve | everything | one engine, many would-be drivers; restarts in the middle of a prompt. One driver at a time, nothing lost |
| **Socket handler** `coworker/server/app.py` | a receive loop for each socket | user message, answer, interrupt, retry, choice of model | manager, GUI | frames carry no prompt id; a turn outlives its socket |
| **Automation** `coworker/automation/` | tasks and runs (SQLite), running ids | tick, run, save, due | manager | rows are read, changed and written whole by the loop, by runs and by requests in threads. No overlap, no lost run |
| **Self-wake** `coworker/selfwake.py` | wakes (JSON), automatic mode | schedule, due, mark fired, cancel | scheduler's tick, manager | restart between delivery and mark. Delivered, and once |
| Permissions, risk, trust | rules by session, task and workspace | decide | engine | pure decisions |
| Conversation and session stores | JSON and index | save, load, delete | manager | deletion while a turn runs |
| Providers | none | stream | engine | network, ids of tool calls |
| Tools, MCP, skills, memory | files, processes | execute | engine | leaf operations |
| Connectors, subscriptions | accounts, bindings | inbound, outbound messages | manager | delivery, routing |
| **Browser gateway** `browser_bridge/server.py`, `transport.py` | pending commands, permits, answers by command id, the active connection, the state | execute, cancel, register, take over, rotate, revoke, stop | extension (WebSocket), bridges | threads, two locks, late and duplicate answers, replaced sockets. A command is answered once, by its deadline, with what the extension did; a lost socket releases its callers |
| **Review jobs** `launch.py`, `browser_bridge/ingest.py`, `browser-extension/background.js` | jobs, queue, flight, checkpoints and results (JSON file); in the extension a line of jobs, one run, a challenge, local checkpoints | submit, acknowledge, checkpoint, finalize, report, resume after a challenge, retry, replay | extension (same WebSocket), bridges (HTTP) | lost sockets and replies, repeated requests, restarts on both sides, challenges solved by a person. No batch is skipped, a saved result is complete and stays, a job ends |
| **Profit guard** `crawler/commerce/profit_guard/` | profile, recommendations, backoff, audit trail (SQLite) | recommend, approve, reject, expire, apply | seller API, tools | calls in threads between reads and updates of a row. One decision, only approved prices are applied, no price gives the margin away |
| Crawler core `crawler/` | frontier and tasks (SQLite) | enqueue, dequeue, complete, fail | fetcher, sink | no program constructs the runner (section 6) |
| GUI, control plane, set-up, MCP bridges, CLI/TUI | — | — | — | presentation, generated code and I/O |

How they interact: a coroutine *drives* a session's engine. It is started by a
user message or a retry (socket), a background delivery (self-wake, channel), a
scheduled run, or a durable resumption after an answer. The engine calls the
provider and tools in threads and calls the approver, which adds an Inbox item,
saves the session and waits for the item's event. Any surface resolves the item.
Stop sets the engine's cancel flag. After a restart only the conversation store
and the Inbox remain. A tool of the crawl or shop bridges calls `execute_command` in
a thread of its own, which waits until the thread of the extension's connection
hands it an answer. Review jobs share that connection: the launcher sends jobs down
it, the extension acknowledges them and sends requests (checkpoint, progress,
chunks, finalize) that a pool of two threads executes.

## 2. What models what

| Module | Models | Notes |
|---|---|---|
| `SessionTurn` | engine + Inbox + manager + socket, for one session | the core |
| `ToolGate` | the abstract promise about consent and tools | refined by `SessionTurn` (`GateSpec`) |
| `QuotaRecovery` | failover, quota waits, model choices of one engine | |
| `Automation` | scheduled tasks, their runs and the wakes the tick delivers | |
| `PriceCalculator` | the integer arithmetic of the price calculator | used by `ProfitGuard` |
| `ApprovedPrice` | the abstract promise about prices and approvals | refined by `ProfitGuard` (`ApprovalSpec`) |
| `ProfitGuard` | the profit guard of one SKU: tool calls in threads, the store, the seller's API | |
| `CommandOutcome` | the abstract promise about a command and its answer | refined by `Gateway` (`OutcomeSpec`) |
| `Gateway` | the gateway's server and transport, composed with the extension | |
| `ReviewJob` | the abstract promise about a review job | refined by `IngestJobs` (`JobSpec`) |
| `IngestJobs` | review jobs: helper and extension with the socket between them | |
| `MC*` | instances for TLC | |
| `*_proofs` | theorems | see section 5 |

### SessionTurn

A step is what the server does between two awaits; asyncio makes that atomic. A
`Task` is a coroutine driving the engine; its `pc` names the await it stands at:
`claimed` (the session is marked running, the coroutine has not run), `model`
(provider call), `authorize`, `proposed` (a call is announced to the viewers),
`parked` (waiting for a person), `gather` (concurrent tools), `serial`, `starting`
(the start of a tool is announced), `tool` (an approved tool running), `ending`
(before the claim is given back). An announcement and what follows it are two steps,
because whoever consumes the engine's events awaits a broadcast to the session's
viewers before it asks for the next one (`app.py:1777`, `manager.py:2862`): a Stop may
come in between, and the engine looks at Stop before `TOOL_STARTED` and not after it. `live` is the engine's history, `disk` what the
conversation store has of it; both are abstracted to the calls of the last
assistant message, the number of results of every call, the background messages
included and whether the tail is an error notice. `item` is the Inbox by
tool-call id, `frame` an answer in flight on a socket.

The provider is an input: a response proposes any number of calls up to
`MaxCalls`, or none, or fails. What the permission engine says of a call is the
constant `KindOf`, and which tools declare low risk, so that several of them run
together, the constant `LowRisk`: the two are independent. A call is allowed outright (`auto`), needs an approval (`ask`), is itself
a question to the user (`question`), or is refused (`blocked`). The ids a provider
hands out are the constant `IdOf`; the theorems hold for repeated ids too, except
where they say otherwise.

`StartScheduled` is the scheduler's run of the session, which does not take the
claim that every other driver takes. `DurableResume` is what an answer from the
Inbox page does when nothing is marked running; a tagged channel reply
(`ReplyItem`) and a socket frame (`FrameArrives`) only resolve. `Crash` keeps
`disk` and `item`.

### QuotaRecovery

One engine between `StartTurn` and the end of the turn: `Top` (iteration limit,
queued choice), the call, and its outcomes. `Fail(kind)` is
`_recover_from_model_error` for the four classes of failures; `Failover`, `Ladder`
and `WaitForCapacity` are its parts; `Wake` the end of the wait by Stop, by a
choice or by the timer. `waited` is the code's account, to which a wait that a choice
cut short is not added (`engine.py:398`); `parked` is the time the turn really was
parked, and `woken` counts the waits that were cut short. `Pick` is the model picker: queued during a turn, applied
at once between turns.

### Automation

The rows of `scheduled_tasks` with what scheduling reads of them, one standing rule
each, and the copies of a row that its writers hold between reading and writing:
runs (`Mint`/`SaveMint`, `FinishRun`/`Advance`) on the event loop and requests
(`Request`/`Save`/`Reseed`) in the thread pool. Every `save` computes `next_run`
anew, as the store does, with the limit on runs (`MaxRuns`; a one-time task has one).
`Tick` spawns a run of every due task *as read*, then collects
the due wakes, which `StartWake` and `EndWake` deliver one after the other: the
tick awaits the woken turns and does not await runs. `Deliver` may fail: a delivery that
raises, or a session without an engine, is swallowed (`manager.py:2801`), noted in `undone`,
and the wake marked fired like any other. `Crash` keeps the row and
the wakes.

### ProfitGuard

A tool call runs in a thread with an engine of its own, so calls share nothing but
the SQLite store: a step is what a call does up to its next statement of the store
or call of the provider (each statement is atomic, `update_recommendation_status`
is a compare-and-set where it names an expected status). `pc` names that statement.
`Generate` reads the profile and works the price out with `PriceCalculator`, which
has the rounding to steps, the floor and the fees in integers (the code uses
`Decimal`; rates are in percent here). `spare` in a row is what the margin
leaves. `UpdatePrice` is the seller's API: it succeeds, refuses, or raises with the
price changed or not. `Stop` loses the calls and keeps the store.

`ApprovedPrice` knows only, for every recommendation, whether it is open, approved
or refused and which prices the shop has: a decision is final and the shop gets
approved prices only. The price monitor (snapshots, alerts, platform backoff) is
left out.

### Gateway

Threads: one for every caller of `execute_command`, one for every connection, one
for the operator. The server's lock and the transport's lock are each taken for a
few lines; a step is one such critical section *unless a thread asks for the second
lock while it holds the first*. There the step ends, the label (`asking`;
`registering`, `dropping`, `rotating`) says which lock is held, and every step that
takes a lock waits while another thread is at a label that holds it
(`ServerFree`, `TransportFree`). Code between two critical sections that no other
thread can observe is merged into the step before or after. Two paths return without the lock that other steps
wait for: an answer from the cache (`StartCall`) and the limit on permits (`Acquire`, which
takes a permit; `File` then enters the pending command). `broadcast_or_send` reads the
connection under the lock and writes without it, for commands (`Send`, `Write`) as for
cancellations (`Cancel`, `WriteCancel`). `Wait` merges the
timeout of the event with the pop of the pending command; `Limit` is the permits of
the semaphore, read from the configuration at `Init`.

`cache` is the idempotency cache (an entry lasts 300 s, so the model never expires
one: a second call under an id is either near or not). The extension has one socket
(`socket`), commands in flight and executions (`working`): a command under an id in
flight runs a second time. A deadline that passes in the extension (`Expire`) is reported
as an error while the action goes on, and may be carried out later (`Perform`); an answer
that says so counts as "unknown" for `OutcomeSpec`, like the deadline of the gateway itself.
`done` records what the extension did and is what
`OutcomeSpec` compares answers with. `Conn` are connections in the order in which
they are opened; `MaxEvent` bounds rotation, revocation, stop and verification
frames, the events that no call and no socket depends on. Left out: API_BLOCKED,
tab state, tokens and the checks of the HTTP upgrade, the HTTP polling transport,
audit records.

### IngestJobs

`known` ... `cycles` are the tables of `launch.py` under its lock, `calls` what
`IngestRPC` remembers of requests and where its pool stands with each, `order` the
pool's queue, `disk` the
state file, `file` the rows in a job's output. A finalize is three steps (`Merge`
reads the checkpoint, `Write` writes the file after fetching media or `WriteFails` is
answered with the error, `Record` concludes the job), because everything else may happen in between; other requests
are short and one step each, taken in the order in which they came. On the other side `line`
is `jobQueue`, `cur`/`at`/`pos` the run (`runJob`), `req` the one request it waits
for, `info` the challenge in `chrome.storage` and `shown` the one in the memory of the
service worker, `local` the checkpoint in `chrome.storage`. When the socket opens, what
is in memory is written over what is stored (`ShowAgain`): after a restart of the worker the
stored challenge survives only if the alarm restored it first. `forgot` are the jobs whose
challenge was dropped because another job started. `up` and `down` are the frames on the socket, lost with it.

A refused checkpoint or finalize is first reported as a failure, and the report ends the
run (`Replied`). Uploads are keyed by the job: the code takes a fresh `uploadId`, and
a run has one upload. The limits of the pool (a full queue, too many uploads,
`ingest.py:34-39, 96-97`) are left out: the extension waits for each answer before it asks
again.

Every fault (`Fault`) is a guard `Happens(f)`: `Most[n][f]` bounds how often it happens
and `Total[n]` how many happen in all, where `n` is the number of jobs. Batches of reviews are numbers; the scopes and
ratings by which the extension cuts the list are left out, and so are: login and
API-blocked outcomes, media, evidence and traces, the long poll, `/ingest/resume` and
`/ingest/clear`, and the preflight, which is part of the first fetch. A request that
is done is forgotten at once if nobody will ask for it again: the 600 s it is
kept for matter only if somebody does, and that is the fault `expiry`.

## 3. Runs

Deadlock is not checked in any run: turns, clock, edits, picks and faults are bounded,
and a session in which nobody types or answers rightly does nothing.

| Run | Asks | Bounds, and why they suffice |
|---|---|---|
| `session_core` | one runner, at most one execution and one result of every call, no call left open between turns, no message lost, a parked turn is on disk | two coroutines are enough for a second driver; two turns, so that something left by the first meets the second; two calls that need approval, in one message or two, the second a tool of low risk; a background message; all surfaces; no restart (the properties speak of one life of the server) |
| `session_gate` | refused calls never run; after Stop nothing is announced, and only what had been announced still starts (low-risk tools that run together apart, which the code does not check against Stop); the session implements `ToolGate` | four calls, one of each kind (allowed, approved and of low risk, a question, refused), in one message or several; user turns, and scheduled runs that an answer resumes while they are alive; one restart at any point |
| `session_progress` | stopped turns end; the answer to a prompt, one that outlived the restart included, puts a result into the history, or the turn waits for the next prompt of the message | one user turn and two background messages, an approval and a question, one restart; answers from the Inbox; fairness, below |
| `automation` | no overlap, wakes once, due tasks run, wakes are delivered | a one-time task due at 1 and a recurring one due at 2, so that a run of the first may be parked when the second comes due; two slots for the second, so that a run can meet another one; two wakes at 2, so that one waits for the turn of the other; one edit of any kind and one restart |
| `quota` | the turn is parked for its budget at most, and one budget more for every wait cut short by a choice; iterations counted, no retry of a failed model, turns end | two models of one provider and one of another; backoffs 2, 3, 3, ... against a budget of 6 so that the last is cut; two turns and three choices |
| `profit_guard` | one call decides, only approved prices reach the shop, applied means sold, decisions are audited, no price below the margin | two calls at a time on one recommendation (two of them take longer than a run should; they only meet in the cooldown, and the proofs hold for any number); two profiles and two quotes, so that the floor, the step and the market each set the price once; expiry within the clock; one stop of the server |
| `gateway` | nothing pending or busy at rest, answers tell what the extension did | two calls on one command or two, one or two permits, one connection that may be lost, a stop or a verification (proved for any number of everything) |
| `gateway_live` | a lost socket releases its callers, a late thread does not disconnect a new owner; a call returns by its deadline and a replaced connection ends, unless the locks are held crosswise | one call and two connections, so that one is replaced, are what the two locks need; one rotation or revocation (the first two proved for any number of everything) |
| `ingest` | no batch is skipped, a saved result is complete and stays, every job ends or needs a person | jobs of two batches, the pool's two threads; with one job the socket lost twice, every other fault once, three faults in all; with two jobs two faults in all, of those that disturb none (lost sockets, a challenge, a failing page, a repeated request, the alarm). The second job may be submitted at any moment at which the faults so far allow it |

The other runs are violations, each a disagreement between the code and what the
repository says of it:

| Run | Property | What TLC shows |
|---|---|---|
| `gateway_locks` | `CommandsReturn` | `get_state` holds the transport's lock and asks for the server's; registering or dropping a connection holds the server's and asks for the transport's: both threads, and every later call, wait for ever (`CycleForEver` proves that nothing undoes it) |
| `frame_wrong_prompt` | `ResolvedAsSaid` | Stop leaves its prompt pending; the next answer on the socket carries no id and goes to that prompt |
| `seen_drops_run` | `MissedRunKept` | opening an automation's page between its due time and the tick moves `next_run`: the run is dropped, a one-time task never runs |

The models have more such behaviours, which no run checks for any longer and which
anybody who changes the code there should know:

- *A scheduled run is resumed twice.* `_run_scheduled_task` drives the engine
  without the claim, so answering its live prompt in the Inbox (`manager.py:848`)
  starts a resumption of the same engine and the approved tool runs twice.
  `OneRunner` and `AtMostOnce` are checked with `Scheduled = FALSE`; with `TRUE`
  they fail.
- *Salvaged calls share ids.* Calls salvaged from text are `call_salvaged_0`, ... in
  every message (`openai_provider.py:675`), the Inbox finds the earlier item and a
  different call runs unasked. No property states the contrary: with fresh ids, where it
  would hold, nothing could break it.
- *A channel reply does not resume.* After a restart a tagged reply resolves the
  prompt and nobody continues the turn (`manager.py:2786`). With `"reply"` in
  `Surfaces`, `AnswerTakesEffect` fails.
- *A delivered note hides an open call.* A message that arrives after a restart goes behind
  the unanswered calls (`engine.py:443`), which a later answer then does not resume.
  `AnswerTakesEffect` speaks of calls that are still the open ones when they are answered.
- *A wait that a choice cuts short is not accounted* (`engine.py:398`): "total seconds to
  keep a turn parked" (`engine.py:49`) holds only while nobody chooses a model.
- *A wake whose delivery fails is marked fired* (`manager.py:2801`); `WakesDelivered`
  has the exception.
- *An action goes on after its deadline was reported* (`background.js:4289`): the abort
  signal is given to nobody, and a command a caller was told has failed is carried out.
- *A worker that restarts forgets the stored challenge* if its socket opens before the
  alarm (`background.js:4599`).
- *A queued model choice outlives its turn* and overrides the one made before the
  next turn (`engine.py:262`).
- *The helper's restart loses rows.* `_persist_ingest_state` fails silently while a
  checkpoint has rows (`json` refuses the tuple keys of its seen map), and the queue
  and the flight are not in the file. After a restart the extension goes on behind
  the batches that are gone and the result is saved without them.
- *A second finalize replaces a saved result by "empty".* It comes from a worker that
  was restarted while the first one wrote, from a request asked again after 600 s, or
  after the extension's own timeout.
- *A retry while the socket is down* is replayed without its retry flag, which the
  extension drops as a duplicate: the job never ends.
- *A second job forgets the first one's challenge*: `background.js:1606` sets
  `verificationInfo = null` at the start of any job, though
  `skills/shopee-reviews.md:21` has the job go on by itself. `JobEnds` names these jobs
  (`forgot`) as its one exception; without it the run with two jobs fails.
- *A market below the floor moves the price at once*: the calculator goes to the floor
  in one step, however far it is, though the profile has a limit per change
  (`max_price_change_pct`, `calculator.py:124`); `StepRespected` excludes that case.
- *Three lost sockets* (with a challenge between them) leave a saved job in the queue,
  which runs again from a stale hint and replaces its result; this is why the run stops at two.

`CONSTANTS` marked "bound" in the modules only bound the search. Symmetry (of
tasks, callers, calls and commands) is used in runs without liveness properties.

## 4. Fairness

*SessionTurn.* Every coroutine's steps are weakly fair: the event loop runs what
is ready, and provider calls and tools return or fail (both have timeouts or end
with Stop). Parking is an await without a step, so nobody is obliged to answer.
Sockets deliver their frames. Starting turns, Stop, answers and restarts are not
fair. A turn that is claimed at the moment of the answer makes `resolve_inbox` skip the
resumption, and its message closes the round; it is a window of milliseconds, and
`AnswerTakesEffect` excludes behaviours in which a claimed turn has not begun
(`Claiming`). `Stop` pressed while a turn is only `claimed`
is cleared by `run()`, so `StopEndsTurn` starts at the first step of the turn.

*Automation.* The tick, the delivery of the next wake, spawned runs up to their engine,
and the advance of a finished run are fair. Neither the end of a run (`FinishRun`) nor
that of a woken turn (`EndWake`) is: both may be parked on an approval for good. A parked
run stalls nothing. A parked woken turn stalls the scheduler, which awaits it
(`scheduler.py:87`); no comment promises otherwise (`scheduler.py:78` speaks of runs), and
`DueRuns` and `WakesDelivered` have the hypothesis `WokenTurnsEnd`, that the tick
is not kept for ever by the turn of a wake.

*QuotaRecovery.* A provider call returns or fails, and timers go off.

*Gateway.* Threads go on: a call that has begun, every connection's thread, the
operator's started operation. This includes that waits have deadlines (`Wait`) and that
a thread reading a socket sees it closed. The extension is not fair: it may never
connect, answer or send anything. A thread that waits for a lock is not enabled, so
fairness does not break the deadlock that `gateway_locks` finds.

*IngestJobs.* The helper handles its frames and its pool its requests (`Handle`,
`Execute`), the extension starts what is in its line, goes on with its run and handles its
frames (`Start`, `Fetch \/ Finalize`, `Dispatch`), opens the socket again
(`Connect`, every few seconds) and looks after its challenges (`Alarm`, every minute).
`Solve` is not fair: a challenge on show may stay unsolved for ever, and `JobEnds` counts a
job that waits for a person as one that has come to rest. Faults and retries by hand are not
fair either.

## 5. Proofs

| Theorem | States | Argument |
|---|---|---|
| `SessionTurn_proofs!TypeCorrect` | `[]TypeOK` | one lemma per group of actions |
| `…!ClearedCorrect` | `[]ClearedByConsent` | a call enters `cleared` only when the permission engine allows it outright (`Judge`) or after its item was approved, and approvals stay |
| `…!GateRefinement` | `Spec => GateSpec` | every step raises one prompt, answers one, starts tools that may run, or stutters (`GateStep`); the third needs `ClearedByConsent` |
| `…!FirstAnswerFinal` | `Spec => FirstAnswerWins` | from `GateStep` |
| `…!ConsentCorrect` | `[](ConsentedRuns /\ OnlyToolsRun)` | from `GateStep` and the finality of answers |
| `…!OneRunnerCorrect` | `[]OneRunner`, if not `Scheduled` | strengthened to `Claimed`, which is inductive because every start tests the claim; with scheduled runs it is false, see section 3 |
| `…!NotesKeptCorrect` | `[]NotesKept` | inductive |
| `SessionHistory_proofs!AnsweredOnceCorrect` | `[]AnsweredOnce`, if not `Scheduled` | `Ordered`: the calls a coroutine has in hand are unanswered calls of the last message, those to authorize and those authorized are distinct, and at labels outside `_handle_tool_calls` there are none; it needs `Claimed`, because a second driver would take the same calls in hand |
| `…!OncePerLifeCorrect` | `[](\A c : executed[c] <= 1 + crashes)`, if not `Scheduled` | `Once`: calls in hand were not started in this life, but for those running at this label; a restart gives every call without a result one more start, and no more |
| `…!AtMostOnceCorrect` | `[]AtMostOnce`, if not `Scheduled` and `MaxCrash = 0` | from the theorem above; a restart between a tool and its result breaks it, and the hazard list says so |
| `…!NoOrphansCorrect` | `[]NoOrphans`, if not `Scheduled` and `MaxCrash = 0` | `Covered`: a call without a result is in somebody's hands |
| `…!DurableCorrect` | `[]ParkedIsDurable`, if no two calls share an id (`FreshIdOf`) and not `Scheduled` | saved when it is raised, and nobody else changes the history or the disk while its coroutine waits (`StaysParked`) |
| `…!StopCorrect` | `Spec => StopHolds` | only two steps start tools: `StartConcurrent`, only those of low risk, and `Launch`, what was announced (`StoppedStarts`); and only `StartSerial` announces, which looks at Stop first (`StoppedAnnounces`) |
| `…!StopRunsOut` | while `cancel`, a turn under way is moved by nobody else, nobody takes Stop back before it has ended, and every step of its own descends in the order `Nearer` (iterations to come, phases of the iteration, calls to authorize, calls to run), if not `Scheduled` | `Claimed`: a start, a resumption or a second driver, which would clear the flag, finds the session marked running |
| `Automation_proofs!NoOverlapCorrect` | `[]NoOverlap` | strengthened to `OneRun`: the guard of a task is set exactly while a run of it is under way |
| `Automation_proofs!WakeOnceCorrect` | `[]WakeOnce` | strengthened to count a wake that is in the batch or whose turn is awaited |
| `Automation_proofs!TypeCorrect` | `[]TypeOK` | `NextRun` is the least fire time to come; that a nonempty set of instants has a least one is the well-foundedness of the naturals |
| `QuotaRecovery_proofs!WaitBoundedCorrect` | `[]WaitBounded`: the time really parked is at most `Budget * (woken + 1)` | the waits that ran their time fit in the budget, and each that was cut short in the one it bought (`Accounted`); one invariant `Inv` for these four: types, the budget, iterations against answers, a queued choice is the last one (`QueuedIsChosen`), and a model that is called in spite of having failed is the user's choice (`CalledAfresh`) |
| `…!RepliesCountedCorrect` | `[]RepliesCounted` | |
| `…!NoRetryCorrect` | `[]NoRetryOfExhausted` | |
| `…!TypeCorrect` | `[]TypeOK` | |
| `…!TurnRunsOut` | `[]Bounded`, and every step of the model loop ends the turn or descends in the order `Nearer` (a queued choice, answers, the wait, models that failed, the label) | a ladder step either adds a failed model or leaves one (`Ladder` excludes those that failed), an ended wait is accounted and was positive (`WaitBounded`), or it was woken by a choice, which the next step takes |
| `ProfitGuard_proofs!NeverBelowFloor` | a recommended price is at least the floor | integer arithmetic of the calculator, for every valid profile and quote |
| `…!FloorIsLeast` | the floor asks for no more than the margin needs: any whole amount that leaves it is at least the floor | the two divisions that round up are each least (`CeilDiv`, `RoundUp`) |
| `…!StepRespected` | a recommendation moves the price by `step` percent at most, up to rounding and unless the floor is higher | only for a market at or above the floor; below it the code goes to the floor in one step (section 3) |
| `…!RecommendedIsProfitable` | at a recommended price the profile's margin is left after all fees | the floor is rounded up to the step, and the kept share of a higher price is higher |
| `…!DecidedOnceCorrect` | `[]DecidedOnce` | one invariant `Inv` for these four, which says what each call may rely on at its label: a call about to write an audit entry has won its compare-and-set ... |
| `…!AppliedIsSoldCorrect` | `[]AppliedIsSold` | ... one at `clear` or `applied` has sold ... |
| `…!ProfitableCorrect` | `[]Profitable` | ... every row was made by the calculator ... |
| `…!DecisionsAuditedCorrect` | `[]DecisionsAudited` | ... and a decision without its entry has the call that took it at the label that writes it |
| `…!TypeCorrect` | `[]TypeOK` | from `Inv` and `BackedOff` |
| `…!BackoffBounded` | the backoff ends within `BackoffCap` from now | the failures a call has counted lie in the past (`BackedOff`); `Duration` is at most the cap whatever the power of two is, so no theory of powers is needed |
| `…!StatusOnlyMoves` | no step takes a status back | from the same invariant: whoever applies found the row approved, and approved rows become applied or failed only |
| `…!GuardImplementsApproval` | `Spec => ApprovalSpec` | every step decides one recommendation, gives the shop one approved price, or stutters |
| `Gateway_proofs!TypeCorrect` | `[]TypeOK` | the permits taken are the number of calls between `Acquire` and `Finish` (`Counted`) |
| `…!StateSettlesCorrect` | `[]StateSettles` | a pending command has a call that will pop it (`Attended`), and the state is busy only while one is pending |
| `…!OwnerKeptCorrect` | `Spec => OwnerKept` | who clears the active connection either owns it, and then it is closed or lost (`Ends`), or is the operator |
| `…!SocketLossReleasesCorrect` | `[]SocketLossReleases` | a call that waits was pending when its connection was dropped, and the drop reset it, unless its id was used twice (`Waited`, `Released`, `Resetting`) |
| `…!LocksExclusive` | no two threads are at labels that hold one lock | a step that takes a lock waits for it in `ServerFree` or `TransportFree`; the labels lie in functions of two modules |
| `…!CycleForEver` | `[](LockCycle => []LockCycle)` | who holds a lock leaves its label only by taking the other one: the deadlock that `gateway_locks` finds is never undone |
| `…!CycleKeepsCalls` | from a lock cycle on, no call that holds a permit or has asked for the state returns, whatever its deadline; what still returns are answers from the cache and calls that got no permit | from `CycleForEver`: every way from the state or a permit to the answer takes one of the two locks (`CycleStep`) |
| `…!GatewayImplementsOutcome` | `Spec => OutcomeSpec` | frames, outcomes, the cache and answers tell only what the extension has done (`Honest`), an expired deadline tells nothing, and a call is answered in one step |
| `IngestJobs_proofs!TypeCorrect` | `[]TypeOK` | with the frames on the socket and the state file, from which a restart reads, typed too |
| `…!KeptCorrect` | `[]KeptIsThere` | every position that is on its way to the extension is kept (`AllKept`: offers, items in line, hints, calls, replies), and what is known of the request that is waited for is what the run asked (`Agree`), so an answer cannot be taken for another's; a finalize writes before it drops rows (`Written`) |
| `IngestPromise_proofs!CalmImplementsReviewJob` | `Spec` implements `ReviewJob`, with `disturbed` once a restart, timeout, expiry or retry has happened, or a challenge and a lost socket both | see below |
| `…!JobSpecCorrect` | `Spec => JobSpec`, if `Most[n]["challenge"] = 0` for every `n`, or `Most[n]["drop"] = 0` | from the theorem above: where one of the two faults cannot happen, its `disturbed` is that of `JobSpec` |

They hold for every value of the constants that the named `ASSUME`s allow: any
number of coroutines, sockets, messages, calls, restarts, any assignment of ids
and kinds, any backoff table, schedule, profile and quote, any number of threads,
connections and commands, jobs, batches and faults. The safety theorems of the session do not assume
distinct ids or the absence of scheduled runs, except where stated.

*Why an undisturbed job keeps its promise.* `ReviewJob` says that a saved result is
complete and stays. A job could break it by running again after its result was
saved, so the invariant `CalmInv` is about what could start it again. A job is in
line or running once (`OneRun`). The pool works only on the one request that the
run waits for (`InHand`), so an execution is always one of the current run. Nothing
of a job is saved before its run asks for the result (`Unasked`, `Finishing`), and
then the helper has every batch, which is `KeptIsThere`. Without a challenge that
is enough: an offer that comes twice is dropped by `knownJobs` (`Quiet`). A challenge
lets the helper offer a job once more and lets it change a result, and what keeps
that from happening behind a saved result is the order of frames on one socket:
what the extension says of a challenge is heard before the finalize of the run that
follows (`ToldBefore`), and the job is offered again before that finalize is answered
(`OfferedBefore`), so the extension finds it running and drops the offer. A socket
that is lost reorders the two, since offers are made anew when it opens again; this
is why the theorem does not allow both, and why three lost sockets are enough to
break the promise (section 3).

Only model-checked:

- liveness, which is out of the prover's reach. Of `TurnEnds` and `StopEndsTurn` the
  part that is not about fairness is proved: every step of the turn gets it nearer to
  its end, in an order that cannot descend for ever (`TurnRunsOut`, `StopRunsOut`).
  That a step can be taken needs ENABLED and stays with TLC;
- `IngestJobs!JobSpec` with both challenges and lost sockets, within the bounds of
  `ingest`: it holds for two lost sockets and not for three (section 3), so that there is
  no theorem to prove.

Every other invariant and action property of the passing runs is proved, with the
hypotheses the table names.

## 6. Not modelled, and the plan

What would come next, and what the hazard list names without a property:

1. `SessionTurn`: the deletion of a session while its turn runs; a message that goes behind unanswered calls after
   a restart; Stop between the claim and `run()` (`engine.py:216`), and an answer given
   while a title is made: `is_running` counts that as running (`manager.py:2824`), so such an
   answer does not resume; the making of titles is not modelled.
2. `Automation`: a property over revocations (no run holds a revoked rule after
   the request has returned) with the window it does not cover; manual runs,
   which stay outside the overlap guard; a task that changes after `due()` read it
   (`scheduler.py:77`).
3. `Gateway`: the HTTP polling transport, which shares the pending table;
   `IngestJobs`: the long poll and `/ingest/resume`, which may hand one job the
   checkpoint of another.
4. Permissions as operators checked against a reference definition.

The crawler core is left out although it has a durable queue: nothing but its tests
constructs `CrawlRunner`. Reading it shows that a failing task makes `fail` raise
(`runner.py:158`, `frontier.py:63`), that tasks in flight are not taken back after a
restart (`frontier.py:47`) and that `next_run_at` is ignored (`storage.py:157`); a
model would have no program to be faithful to.

Left out for good: the GUI, the control plane and what the extension does in a page
(presentation and generated code), providers, tools, MCP bridges and connectors
(network and file I/O behind interfaces that the models treat as inputs), the rest
of the launcher and set-up.
Within the modelled parts: message texts, notices and display sidecars, titles,
audit records, cron arithmetic (a set of fire times stands for it), notifications
and mirrors of Inbox items, memory-level data races between threads.
