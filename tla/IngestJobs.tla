----------------------------- MODULE IngestJobs -----------------------------
(***************************************************************************)
(* Review jobs between the helper (launch.py, browser_bridge/ingest.py)    *)
(* and the extension (browser-extension/background.js).  The helper queues *)
(* jobs, keeps the rows of each batch as a checkpoint and writes the       *)
(* result; the extension runs one job at a time, asks the helper over a    *)
(* socket that is lost and opened again, and waits for a person when the   *)
(* shop wants a challenge solved.  A batch of reviews is its number.       *)
(***************************************************************************)
EXTENDS Integers, Sequences, FiniteSets, SequencesExt, Functions

CONSTANTS
    Job,
    Batches,     \* how many batches the reviews of a product come in
    Workers,     \* threads of the pool that executes requests (ingest.py: 2)
    RequestId,   \* ids of requests; one is used again when it is forgotten
    Most,        \* bound: how often each fault happens, by the number of jobs
    Total,       \* bound: how many faults happen, by the number of jobs
    NoJob, NoReq

Fault == {"drop", "worker", "helper", "challenge", "failure", "timeout", "expiry",
          "resend", "alarm", "again"}
Op == {"checkpoint", "finalize", "tell_challenge", "tell_failure", "chunk",
       "complete_challenge", "complete_failure"}

Batch == 1..Batches
Offset == 0..Batches
Request == [type : {"request"}, id : RequestId, op : Op, job : Job, batch : Offset]

ASSUME IngestAssumption ==
    /\ IsFiniteSet(Job) /\ NoJob \notin Job
    /\ Batches \in Nat \ {0} /\ Workers \in Nat \ {0}
    /\ RequestId \subseteq Nat /\ NoReq \notin Request
    /\ Most \in [0..Cardinality(Job) -> [Fault -> Nat]]
    /\ Total \in [0..Cardinality(Job) -> Nat]

VARIABLES
    known,       \* _INGEST_ALL_JOBS
    hint, again, \* the "checkpoint" and "retry" fields of a job there
    queue,       \* _INGEST_JOBS
    inflight,    \* _INGEST_INFLIGHT
    result,      \* _INGEST_RESULTS
    rows, next,  \* _INGEST_CHECKPOINTS: the rows and the next offset
    cycles,      \* _INGEST_RESOLVED_CYCLES
    calls,       \* IngestRPC.requests, with what the pool does for each
    order,       \* the requests that wait for a thread of the pool
    uploads,     \* IngestRPC.uploads: the jobs with an upload begun
    disk,        \* .ingest_jobs_state.json
    file,        \* the rows in the output file of each job
    linked,      \* the socket is open
    up, down,    \* frames on it, to the helper and to the extension
    line,        \* jobQueue
    cur,         \* the job that runJob is running
    at,          \* where it stands
    pos,         \* the batches it has behind it
    kind,        \* why it failed
    req,         \* the request it waits for
    seen,        \* knownJobs
    cycle,       \* verificationCycles
    info,        \* verificationInfo in chrome.storage: the job a challenge is shown for
    shown,       \* ... and in the memory of the service worker
    watching,    \* the watcher looks whether it was solved
    forgot,      \* jobs whose challenge is not shown any more, because another was
                 \* started, and that are not to be run (history variable)
    local,       \* checkpoint_<job> in chrome.storage
    count        \* how often each fault has happened

jobs      == <<known, hint, again, queue, inflight, result, cycles>>
chk       == <<rows, next>>
pool      == <<calls, order, uploads>>
stored    == <<disk, file>>
wire      == <<linked, up, down>>
runner    == <<cur, at, pos, kind, req>>
backlog   == <<line, seen>>
challenge == <<cycle, info, shown, watching, forgot>>
extension == <<runner, backlog, challenge, local>>
vars == <<jobs, chk, pool, stored, wire, extension, count>>

Blank == [known |-> {}, hint |-> [j \in Job |-> 0], again |-> [j \in Job |-> FALSE],
          result |-> [j \in Job |-> "none"]]

\* A request that is not known (any more).
NoCall == [op |-> "none", job |-> NoJob, batch |-> 0, at |-> "none", ok |-> TRUE, got |-> {}]

Init ==
    /\ known = {} /\ hint = Blank.hint /\ again = Blank.again
    /\ queue = {} /\ inflight = {} /\ result = Blank.result /\ cycles = [j \in Job |-> {}]
    /\ rows = [j \in Job |-> {}] /\ next = [j \in Job |-> 0]
    /\ calls = [id \in RequestId |-> NoCall] /\ order = <<>> /\ uploads = {}
    /\ disk = Blank /\ file = [j \in Job |-> {}]
    /\ linked = FALSE /\ up = <<>> /\ down = <<>>
    /\ line = <<>> /\ cur = NoJob /\ at = "idle" /\ pos = 0 /\ kind = "none" /\ req = NoReq
    /\ seen = {} /\ cycle = [j \in Job |-> 0]
    /\ info = NoJob /\ shown = NoJob /\ watching = FALSE
    /\ local = [j \in Job |-> 0]
    /\ count = [f \in Fault |-> 0] /\ forgot = {}

Happens(f) ==
    /\ count[f] < Most[Cardinality(known)][f]
    /\ FoldFunction(+, 0, count) < Total[Cardinality(known)]
    /\ count' = [count EXCEPT ![f] = @ + 1]

-----------------------------------------------------------------------------
(* The helper.                                                             *)

\* _persist_ingest_state: json.dumps refuses the tuple keys of the seen_map of
\* a checkpoint with rows, and the error is swallowed.
Persist ==
    disk' = IF \E j \in Job : rows'[j] # {} THEN disk
            ELSE [known |-> known', hint |-> hint', again |-> again', result |-> result']

\* A job as it is sent, to go on from a batch; from the checkpoint the helper
\* has of it, if no other is said.
JobFrom(j, retry, from) == [type |-> "job", job |-> j, retry |-> retry \/ again[j], from |-> from]
JobFrame(j, retry) == JobFrom(j, retry, IF rows[j] # {} THEN next[j] ELSE hint[j])

ToExtension(frames) == down' = IF linked THEN down \o frames ELSE down
ToHelper(frames)    == up'   = IF linked THEN up \o frames ELSE up

\* uuid4: which of the ids that are new is all the same.
NewJob == CHOOSE j \in Job : j \notin known

\* _queue_ingest_job.
Submit(j) ==
    /\ j \notin known /\ j = NewJob
    /\ \A f \in Fault : count[f] <= Most[Cardinality(known) + 1][f]
    /\ FoldFunction(+, 0, count) <= Total[Cardinality(known) + 1]
    /\ known' = known \cup {j} /\ queue' = queue \cup {j}
    /\ ToExtension(<<JobFrame(j, FALSE)>>)
    /\ UNCHANGED <<hint, again, inflight, result, cycles, chk, pool, file, linked, up,
                   extension, count>>
    /\ Persist

\* A person retries a job; the extension is sent what the helper has of it.
Retry(j) ==
    /\ j \in known /\ Happens("again")
    /\ result' = [result EXCEPT ![j] = "none"]
    /\ queue' = queue \cup {j}
    /\ ToExtension(<<JobFrom(j, TRUE, hint[j])>>)
    /\ UNCHANGED <<known, hint, again, inflight, cycles, chk, pool, file, linked, up, extension>>
    /\ Persist

\* /browser/reload: jobs in flight go back to the queue, and the extension
\* starts again (it sees the frame, or the socket's end).
Reload ==
    /\ inflight # {} /\ Happens("worker")
    /\ queue' = queue \cup {j \in inflight : result[j] = "none"}
    /\ inflight' = {}
    /\ ToExtension(<<[type |-> "reload"]>>)
    /\ UNCHANGED <<known, hint, again, result, cycles, chk, pool, file, linked, up, extension>>
    /\ Persist

\* Frames that the socket's thread handles itself.
Accepted(j) ==
    /\ queue' = queue \ {j}
    /\ inflight' = IF j \in queue THEN inflight \cup {j} ELSE inflight
    /\ UNCHANGED <<known, hint, again, result, cycles, chk, pool, file, down>>
    /\ Persist

Required(j) ==
    /\ result' = [result EXCEPT ![j] = "awaiting"]
    /\ UNCHANGED <<known, hint, again, queue, inflight, cycles, chk, pool, file, down>>
    /\ Persist

\* A challenge was solved: the job goes to the queue once more, with its
\* checkpoint.  A cycle that was seen before is ignored.
Resolved(j, n) ==
    IF n \in cycles[j]
    THEN UNCHANGED <<jobs, chk, pool, stored, down>>
    ELSE /\ cycles' = [cycles EXCEPT ![j] = @ \cup {n}]
         /\ result' = [result EXCEPT ![j] = "none"]
         /\ IF j \in known
            THEN /\ hint' = [hint EXCEPT ![j] = IF rows[j] # {} THEN next[j] ELSE @]
                 /\ again' = [again EXCEPT ![j] = TRUE]
                 /\ queue' = queue \cup {j}
                 /\ ToExtension(<<JobFrom(j, TRUE, hint'[j])>>)
            ELSE UNCHANGED <<hint, again, queue, down>>
         /\ UNCHANGED <<known, inflight, chk, pool, file>>
         /\ Persist

\* Mutant: any reply will do.
AwaitsAny(id) == req # NoReq

Awaits(id)   == IF req = NoReq THEN FALSE ELSE req.id = id
OnItsWay(id) == \E k \in DOMAIN up : up[k].type = "request" /\ up[k].id = id

\* Mutant: a request that was asked again is executed again.
ReceiveAnew(r) ==
    /\ calls' = [calls EXCEPT ![r.id] = [op |-> r.op, job |-> r.job, batch |-> r.batch,
                                         at |-> "waiting", ok |-> TRUE, got |-> {}]]
    /\ order' = Append(order, r.id)
    /\ UNCHANGED <<down, count, jobs, chk, uploads, stored>>

\* IngestRPC.submit: a request it remembers is answered, at once or when it is
\* done, and not executed again.  A request that is done is forgotten 600 s after
\* it came: at once here if the extension will not send it again, and if it does,
\* that is a fault.
Receive(r) ==
    LET kept == [id \in RequestId |->
                    IF calls[id].at # "done" \/ Awaits(id) \/ OnItsWay(id)
                    THEN calls[id] ELSE NoCall]
        old  == calls[r.id]
    IN  /\ \/ /\ \/ old.at = "none" /\ UNCHANGED count
                 \/ old.at = "done" /\ Happens("expiry")
              /\ calls' = [kept EXCEPT ![r.id] = [op |-> r.op, job |-> r.job, batch |-> r.batch,
                                                  at |-> "waiting", ok |-> TRUE, got |-> {}]]
              /\ order' = Append(order, r.id)
              /\ UNCHANGED down
           \/ /\ old.at # "none"
              /\ calls' = kept
              /\ ToExtension(IF old.at = "done"
                             THEN <<[type |-> "reply", id |-> r.id, ok |-> old.ok]>> ELSE <<>>)
              /\ UNCHANGED <<order, count>>
        /\ UNCHANGED <<jobs, chk, uploads, stored>>

Handle ==
    /\ linked /\ up # <<>>
    /\ up' = Tail(up)
    /\ LET m == Head(up)
       IN  \/ m.type = "accepted" /\ Accepted(m.job) /\ UNCHANGED count
           \/ m.type = "required" /\ Required(m.job) /\ UNCHANGED count
           \/ m.type = "resolved" /\ Resolved(m.job, m.cycle) /\ UNCHANGED count
           \/ m.type = "request"  /\ Receive(m)
    /\ UNCHANGED <<linked, extension>>

-----------------------------------------------------------------------------
(* The pool.  A finalize reads the checkpoint, writes the file after the   *)
(* media were fetched, and then records the result; other requests are one *)
(* step each.                                                              *)

Writing == {i \in RequestId : calls[i].at \in {"writing", "recording"}}

\* A thread of the pool takes the next request.
Takes(i, ops) ==
    /\ order # <<>> /\ i = Head(order) /\ calls[i].op \in ops
    /\ Cardinality(Writing) < Workers
    /\ order' = Tail(order)

\* The future is done and its callbacks send the reply.
Answer(i, ok) ==
    /\ calls' = [calls EXCEPT ![i].at = "done", ![i].ok = ok, ![i].got = {}]
    /\ ToExtension(<<[type |-> "reply", id |-> i, ok |-> ok]>>)
    /\ UNCHANGED <<linked, up, extension, count>>

\* _save_ingest_checkpoint.
Checkpoint(i) ==
    /\ Takes(i, {"checkpoint"})
    /\ rows' = [rows EXCEPT ![calls[i].job] = @ \cup {calls[i].batch}]
    /\ next' = [next EXCEPT ![calls[i].job] = calls[i].batch]
    /\ Answer(i, TRUE)
    /\ UNCHANGED <<jobs, uploads, file>>
    /\ Persist

\* _update_ingest_progress with the status a failed run reports.
Progress(i) ==
    /\ Takes(i, {"tell_challenge", "tell_failure"})
    /\ inflight' = IF calls[i].op = "tell_failure" THEN inflight \ {calls[i].job} ELSE inflight
    /\ Answer(i, TRUE)
    /\ UNCHANGED <<known, hint, again, queue, result, cycles, chk, uploads, file>>
    /\ Persist

Chunk(i) ==
    /\ Takes(i, {"chunk"})
    /\ uploads' = uploads \cup {calls[i].job}
    /\ Answer(i, TRUE)
    /\ UNCHANGED <<jobs, chk, stored>>

\* The job has this result and is no longer in flight.
Conclude(j, r) ==
    /\ result' = [result EXCEPT ![j] = r]
    /\ inflight' = inflight \ {j}
    /\ UNCHANGED <<known, hint, again, queue, cycles>>

\* Mutant: an error report ends the checkpoint, as a result does.
CompleteAfresh(i) ==
    /\ Takes(i, {"complete_challenge", "complete_failure"})
    /\ calls[i].job \in uploads
    /\ uploads' = uploads \ {calls[i].job}
    /\ rows' = [rows EXCEPT ![calls[i].job] = {}]
    /\ next' = [next EXCEPT ![calls[i].job] = 0]
    /\ Conclude(calls[i].job, IF calls[i].op = "complete_failure" THEN "error" ELSE "awaiting")
    /\ Answer(i, TRUE)
    /\ UNCHANGED file
    /\ Persist

\* _store_ingest_payload of an error report, whose chunks came before.
Complete(i) ==
    /\ Takes(i, {"complete_challenge", "complete_failure"})
    /\ calls[i].job \in uploads
    /\ uploads' = uploads \ {calls[i].job}
    /\ Conclude(calls[i].job, IF calls[i].op = "complete_failure" THEN "error" ELSE "awaiting")
    /\ Answer(i, TRUE)
    /\ UNCHANGED <<chk, file>>
    /\ Persist

CompleteLost(i) ==
    /\ Takes(i, {"complete_challenge", "complete_failure"})
    /\ calls[i].job \notin uploads
    /\ Answer(i, FALSE)
    /\ UNCHANGED <<jobs, chk, uploads, stored>>

\* _store_ingest_payload of a finalize, whose own rows are empty.
Merge(i) ==
    /\ Takes(i, {"finalize"}) /\ rows[calls[i].job] # {}
    /\ calls' = [calls EXCEPT ![i].at = "writing", ![i].got = rows[calls[i].job]]
    /\ UNCHANGED <<jobs, chk, uploads, stored, wire, extension, count>>

MergeNothing(i) ==
    /\ Takes(i, {"finalize"}) /\ rows[calls[i].job] = {}
    /\ Conclude(calls[i].job, "empty")
    /\ Answer(i, TRUE)
    /\ UNCHANGED <<chk, uploads, file>>
    /\ Persist

Write(i) ==
    /\ calls[i].at = "writing" /\ UNCHANGED order
    /\ file' = [file EXCEPT ![calls[i].job] = calls[i].got]
    /\ calls' = [calls EXCEPT ![i].at = "recording"]
    /\ UNCHANGED <<jobs, chk, uploads, disk, wire, extension, count>>

\* The file cannot be written, and the request is answered with the error.
WriteFails(i) ==
    /\ calls[i].at = "writing" /\ UNCHANGED order
    /\ Answer(i, FALSE)
    /\ UNCHANGED <<jobs, chk, uploads, stored>>

Record(i) ==
    /\ calls[i].at = "recording" /\ UNCHANGED order
    /\ Conclude(calls[i].job, "saved")
    /\ rows' = [rows EXCEPT ![calls[i].job] = {}]
    /\ next' = [next EXCEPT ![calls[i].job] = 0]
    /\ Answer(i, TRUE)
    /\ UNCHANGED <<uploads, file>>
    /\ Persist

Execute(i) ==
    \/ Checkpoint(i) \/ Progress(i) \/ Chunk(i) \/ Complete(i) \/ CompleteLost(i)
    \/ Merge(i) \/ MergeNothing(i) \/ Write(i) \/ WriteFails(i) \/ Record(i)

-----------------------------------------------------------------------------
(* The extension.                                                          *)

\* enqueueLegacyJob: every delivery is acknowledged; one of a job that is
\* running, in line, or known and no retry is dropped.
Enqueue(j, from, retry) ==
    LET fresh == cur # j /\ ~\E i \in 1..Len(line) : line[i].job = j
    IN  IF fresh /\ (retry \/ j \notin seen)
        THEN line' = Append(line, [job |-> j, from |-> from]) /\ seen' = seen \cup {j}
        ELSE UNCHANGED backlog

AcceptedFrame(j) == [type |-> "accepted", job |-> j]

\* crypto.randomUUID: an id no request, call or reply has.
FreshIds == {id \in RequestId :
                /\ ~OnItsWay(id)
                /\ calls[id].at = "none"
                /\ \A k \in DOMAIN down : ~(down[k].type = "reply" /\ down[k].id = id)}

\* sendIngestRequest.
NewRequest(op, j, b) ==
    /\ FreshIds # {}
    /\ req' = [type |-> "request", id |-> CHOOSE id \in FreshIds : TRUE,
               op |-> op, job |-> j, batch |-> b]

Ask(op, j, b) == NewRequest(op, j, b) /\ ToHelper(<<req'>>)

\* processJobQueue and the start of runJob, which a newer challenge shown for
\* any job does not survive.
Start ==
    /\ cur = NoJob /\ line # <<>>
    /\ LET item == Head(line)
       IN  /\ cur' = item.job
           /\ pos' = IF item.from # 0 THEN item.from ELSE local[item.job]
    /\ line' = Tail(line) /\ at' = "fetch" /\ kind' = "none"
    /\ info' = NoJob /\ shown' = NoJob /\ watching' = FALSE
    /\ forgot' = (forgot \ {cur'}) \cup ({info} \ ({NoJob} \cup {line[k].job : k \in DOMAIN line}))
    /\ UNCHANGED <<jobs, chk, pool, stored, wire, req, seen, cycle, local, count>>

\* A batch was fetched, and the helper is asked to keep it.
Fetch ==
    /\ at = "fetch" /\ pos < Batches
    /\ Ask("checkpoint", cur, pos + 1) /\ at' = "ack"
    /\ UNCHANGED <<jobs, chk, pool, stored, linked, down, cur, pos, kind, backlog, challenge,
                   local, count>>

\* Everything was fetched, and the helper is asked to write the result.
Finalize ==
    /\ at = "fetch" /\ pos = Batches
    /\ local' = [local EXCEPT ![cur] = 0]
    /\ Ask("finalize", cur, 0) /\ at' = "final"
    /\ UNCHANGED <<jobs, chk, pool, stored, linked, down, cur, pos, kind, backlog,
                   challenge, count>>

\* The shop wants a challenge solved: the person is shown it, the helper told,
\* and the failure reported.
Challenged ==
    /\ at = "fetch" /\ pos < Batches /\ Happens("challenge")
    /\ kind' = "challenge" /\ at' = "tell"
    /\ local' = [local EXCEPT ![cur] = pos]
    /\ info' = cur /\ shown' = cur /\ watching' = TRUE
    /\ NewRequest("tell_challenge", cur, 0)
    /\ ToHelper(<<[type |-> "required", job |-> cur], req'>>)
    /\ UNCHANGED <<jobs, chk, pool, stored, linked, down, cur, pos, backlog, cycle, forgot>>

\* Anything else that fails is reported as an error.
Fail ==
    /\ kind' = "failure" /\ at' = "tell"
    /\ Ask("tell_failure", cur, 0)

Failed ==
    /\ at = "fetch" /\ Happens("failure")
    /\ Fail
    /\ UNCHANGED <<jobs, chk, pool, stored, linked, down, cur, pos, backlog, challenge, local>>

EndRun == cur' = NoJob /\ at' = "idle" /\ pos' = 0 /\ kind' = "none" /\ req' = NoReq

\* The reply the run was waiting for.  A refusal fails the run: this is reported, and
\* a report that is refused is the end of it.
Replied(ok) ==
    CASE ~ok /\ at \in {"ack", "final"} -> Fail /\ UNCHANGED <<cur, pos, local>>
      [] ~ok /\ at \notin {"ack", "final"} -> EndRun /\ UNCHANGED <<up, local>>
      [] ok /\ at = "ack" ->
            /\ pos' = req.batch /\ local' = [local EXCEPT ![cur] = req.batch]
            /\ at' = "fetch" /\ req' = NoReq
            /\ UNCHANGED <<up, cur, kind>>
      [] ok /\ at = "tell" ->
            Ask("chunk", cur, 0) /\ at' = "chunk" /\ UNCHANGED <<cur, pos, kind, local>>
      [] ok /\ at = "chunk" ->
            /\ Ask(IF kind = "failure" THEN "complete_failure" ELSE "complete_challenge", cur, 0)
            /\ at' = "complete"
            /\ UNCHANGED <<cur, pos, kind, local>>
      [] ok /\ at \in {"final", "complete"} -> EndRun /\ UNCHANGED <<up, local>>

\* dispatchEnvelope.
Dispatch ==
    /\ linked /\ down # <<>> /\ Head(down).type # "reload"
    /\ down' = Tail(down)
    /\ LET m == Head(down)
       IN  \/ /\ m.type = "reply" /\ Awaits(m.id)
              /\ Replied(m.ok)
              /\ UNCHANGED backlog
           \/ /\ m.type = "reply" /\ ~Awaits(m.id)
              /\ UNCHANGED <<up, runner, backlog, local>>
           \/ /\ m.type = "job"
              /\ Enqueue(m.job, m.from, m.retry)
              /\ ToHelper(<<AcceptedFrame(m.job)>>)
              /\ UNCHANGED <<runner, local>>
    /\ UNCHANGED <<jobs, chk, pool, stored, linked, challenge, count>>

\* The watcher finds the challenge solved: resumeVerification.
Solve ==
    /\ watching /\ info # NoJob
    /\ watching' = FALSE
    /\ cycle' = [cycle EXCEPT ![info] = @ + 1]
    /\ Enqueue(info, local[info], TRUE)
    /\ ToHelper(<<[type |-> "resolved", job |-> info, cycle |-> cycle'[info]],
                  AcceptedFrame(info)>>)
    /\ UNCHANGED <<jobs, chk, pool, stored, linked, down, runner, info, shown, forgot, local,
                   count>>

\* restorePendingVerificationWatchers, once a minute; bounded while a run goes on.
Alarm ==
    /\ info # NoJob /\ ~watching
    /\ IF cur = NoJob /\ line = <<>> THEN UNCHANGED count ELSE Happens("alarm")
    /\ shown' = info /\ watching' = TRUE
    /\ UNCHANGED <<jobs, chk, pool, stored, wire, runner, backlog, cycle, info, forgot, local>>

\* A request is sent again every 5 s until it is answered.
Resend ==
    /\ linked /\ req # NoReq /\ Happens("resend")
    /\ ~OnItsWay(req.id)
    /\ up' = Append(up, req)
    /\ UNCHANGED <<jobs, chk, pool, stored, linked, down, extension>>

\* No answer in 120 s (30 min for a finalize): a run that fails fails once more
\* and ends, any other reports an error.
TimeOut ==
    /\ req # NoReq /\ Happens("timeout")
    /\ IF at \in {"ack", "final"}
       THEN Fail /\ UNCHANGED <<cur, pos>>
       ELSE EndRun /\ UNCHANGED up
    /\ UNCHANGED <<jobs, chk, pool, stored, linked, down, backlog, challenge, local>>

-----------------------------------------------------------------------------
(* The socket and the restarts.                                            *)

\* The worker writes what it remembers of a challenge over what is stored, and looks
\* after that one: after a restart it may remember none, and what was stored is lost.
ShowAgain == info' = shown /\ watching' = (shown # NoJob) /\ UNCHANGED shown

\* Mutant: jobs the extension has accepted are not sent again.
ConnectAccepted ==
    /\ ~linked
    /\ linked' = TRUE
    /\ down' = SetToSeq({JobFrame(j, FALSE) : j \in queue})
    /\ up' = <<>>
    /\ ShowAgain
    /\ UNCHANGED <<jobs, chk, pool, stored, runner, backlog, cycle, forgot, local, count>>

\* _on_browser_ws_connect replays the jobs not done; the extension asks again
\* and looks after its challenge.
Connect ==
    /\ ~linked
    /\ linked' = TRUE
    /\ down' = SetToSeq({JobFrame(j, FALSE) : j \in queue \cup inflight})
    /\ up' = IF req = NoReq THEN <<>> ELSE <<req>>
    /\ ShowAgain
    /\ UNCHANGED <<jobs, chk, pool, stored, runner, backlog, cycle, forgot, local, count>>

Cut == linked' = FALSE /\ up' = <<>> /\ down' = <<>>

Drop ==
    /\ linked /\ Happens("drop")
    /\ Cut
    /\ UNCHANGED <<jobs, chk, pool, stored, extension>>

\* The browser ends the service worker; what is in chrome.storage stays.
Restarted ==
    /\ Cut /\ EndRun
    /\ line' = <<>> /\ seen' = {}
    /\ cycle' = [j \in Job |-> 0] /\ shown' = NoJob /\ watching' = FALSE
    /\ UNCHANGED <<jobs, chk, pool, stored, info, forgot, local>>

WorkerRestart ==
    \/ Happens("worker") /\ Restarted
    \/ /\ linked /\ down # <<>> /\ Head(down).type = "reload"
       /\ Restarted /\ UNCHANGED count

\* The helper stops and starts again: _load_ingest_state.
HelperRestart ==
    /\ Happens("helper")
    /\ Cut
    /\ known' = disk.known /\ hint' = disk.hint /\ again' = disk.again /\ result' = disk.result
    /\ queue' = {} /\ inflight' = {} /\ cycles' = [j \in Job |-> {}]
    /\ rows' = [j \in Job |-> {}] /\ next' = [j \in Job |-> 0]
    /\ calls' = [id \in RequestId |-> NoCall] /\ order' = <<>> /\ uploads' = {}
    /\ UNCHANGED <<stored, extension>>

Helper == Handle \/ \E i \in RequestId : Execute(i)
Person == \E j \in Job : Submit(j) \/ Retry(j)
Browser == Start \/ Fetch \/ Finalize \/ Challenged \/ Failed \/ Dispatch

Next ==
    \/ Helper \/ Person \/ Browser \/ Reload
    \/ Solve \/ Alarm \/ Resend \/ TimeOut
    \/ Connect \/ Drop \/ WorkerRestart \/ HelperRestart

Spec == Init /\ [][Next]_vars

\* The helper's threads and the extension go on, the socket is opened again (and
\* what was asked is asked again then), and the alarm rings.  Nobody needs to solve a
\* challenge.
FairSpec ==
    /\ Spec
    /\ WF_vars(Handle) /\ WF_vars(\E i \in RequestId : Execute(i))
    /\ WF_vars(Start) /\ WF_vars(Fetch \/ Finalize) /\ WF_vars(Dispatch)
    /\ WF_vars(Connect) /\ WF_vars(Alarm)

-----------------------------------------------------------------------------
Result == {"none", "awaiting", "saved", "empty", "error"}
CallType == [op : Op \cup {"none"}, job : Job \cup {NoJob}, batch : Offset,
             at : {"none", "waiting", "writing", "recording", "done"}, ok : BOOLEAN,
             got : SUBSET Batch]

\* Every variable has its type, a request is in the pool's line once, and the pool has
\* no more than its threads at work.
TypeOK ==
    /\ known \subseteq Job /\ queue \subseteq known /\ inflight \subseteq known
    /\ seen \subseteq Job /\ forgot \subseteq Job /\ uploads \subseteq Job
    /\ hint \in [Job -> Offset] /\ next \in [Job -> Offset] /\ local \in [Job -> Offset]
    /\ again \in [Job -> BOOLEAN] /\ result \in [Job -> Result]
    /\ rows \in [Job -> SUBSET Batch] /\ file \in [Job -> SUBSET Batch]
    /\ cur \in Job \cup {NoJob} /\ shown \in {info, NoJob} /\ pos \in Offset
    /\ info \in Job \cup {NoJob} /\ (watching => shown # NoJob)
    /\ at \in {"idle", "fetch", "ack", "final", "tell", "chunk", "complete"}
    /\ (cur = NoJob) = (at = "idle") /\ (req = NoReq) = (at \in {"idle", "fetch"})
    /\ req \in Request \cup {NoReq}
    /\ kind \in {"none", "challenge", "failure"}
    /\ (~linked => up = <<>> /\ down = <<>>)
    /\ calls \in [RequestId -> CallType] /\ order \in Seq(RequestId)
    /\ \A k, l \in DOMAIN order : order[k] = order[l] => k = l
    /\ \A k \in DOMAIN order : calls[order[k]].at = "waiting"
    /\ Cardinality(Writing) <= Workers

\* Until the helper restarts or writes a result, what the extension takes as
\* kept (its own checkpoint, and the batches its run has behind it) is at the
\* helper: no batch is skipped because of an answer that was lost, came late or
\* belonged to another request, nor after a restart of the extension.
KeptIsThere ==
    \A j \in Job : count["helper"] = 0 /\ file[j] = {} =>
        1..local[j] \subseteq rows[j] /\ (cur = j => 1..pos \subseteq rows[j])

\* What goes beyond a lost socket, a late answer, a challenge and a failing page.
Disturbed == \E f \in {"worker", "helper", "timeout", "expiry", "again"} : count[f] # 0

\* Undisturbed, a job keeps the promise of ReviewJob.
Promise == INSTANCE ReviewJob WITH kept <- rows, disturbed <- Disturbed
JobSpec == Promise!Spec

\* The job waits for a person, who is shown its challenge.
AwaitsPerson(j) == shown = j /\ watching

\* Undisturbed, there is always a time to come when every job has ended, with a result
\* or an error, or needs a person: a lost frame, reply or socket does not leave it
\* waiting, and once its challenge is solved it goes on by itself
\* (skills/shopee-reviews.md:21).  Only when another job was started while its challenge
\* was shown may it be forgotten.
JobEnds ==
    []<>\/ Disturbed
        \/ \A j \in known : result[j] \in {"saved", "error"} \/ AwaitsPerson(j) \/ j \in forgot
=============================================================================
