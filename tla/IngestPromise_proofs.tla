------------------------ MODULE IngestPromise_proofs ------------------------
(***************************************************************************)
(* IngestJobs implements ReviewJob as long as nothing disturbs it, however *)
(* often challenges come, requests are sent again and pages fail; and,     *)
(* where no challenge comes, however often the socket is lost.             *)
(*                                                                         *)
(* Why: a job is in line or running once (OneRun), the pool works only on  *)
(* the request that the run waits for (InHand), nothing of a job is saved  *)
(* before its run asks for it (Unasked, Finishing), and what is said of a  *)
(* challenge is heard before that, because frames of one socket keep their *)
(* order (ToldBefore, OfferedBefore).                                      *)
(***************************************************************************)
EXTENDS IngestJobs_proofs

-----------------------------------------------------------------------------
(* The invariant of a calm behaviour.                                      *)

Calm == ~Disturbed /\ (count["challenge"] = 0 \/ count["drop"] = 0)

\* A frame that says of a job that a challenge is on show, or solved.
Tells(m, j) == m.type \in {"required", "resolved"} /\ m.job = j

\* A frame that offers a job once more, after a challenge.
Renews(m, j) == m.type = "job" /\ m.job = j /\ m.retry

\* Without a challenge nothing asks for a job to be run once more.
Quiet ==
    count["challenge"] = 0 =>
        /\ info = NoJob /\ \A j \in Job : ~again[j]
        /\ \A m \in Range(up) : m.type \in {"accepted", "request"}

\* Before the socket is opened for the first time the extension has no job.
Early ==
    count["drop"] = 0 /\ ~linked =>
        cur = NoJob /\ line = <<>> /\ info = NoJob /\ \A j \in Job : ~again[j]

\* A job was submitted before it is marked for another run, and the extension is not
\* told to reload.
Marked ==
    /\ \A j \in Job : again[j] => j \in known
    /\ \A m \in Range(down) : m.type \in {"job", "reply"}

\* A job is in line or running once.
OneRun ==
    /\ cur # NoJob => cur \in seen
    /\ \A k \in DOMAIN line : line[k].job \in seen /\ line[k].job # cur
    /\ \A k, l \in DOMAIN line : line[k].job = line[l].job => k = l

\* What the pool has not done yet is what the run waits for; a request on its way is
\* that one too, or known; and a reply to it comes when it is done, and says how.
InHand ==
    /\ \A i \in RequestId :
          calls[i].at \in {"waiting", "writing", "recording"} => req # NoReq /\ req.id = i
    /\ \A m \in Range(up) :
          m.type = "request" => (req # NoReq /\ m.id = req.id) \/ calls[m.id].at # "none"
    /\ req # NoReq =>
          \A m \in Range(down) :
             m.type = "reply" /\ m.id = req.id =>
                 calls[req.id].at = "done" /\ calls[req.id].ok = m.ok

Unsaved(j) == result[j] # "saved" /\ file[j] = {}

\* The run of the job has asked for its result.
Ends(j) == cur = j /\ at = "final"

\* Nothing is saved of a job that was not seen or is in line, or whose run has not asked
\* for it.
Unasked ==
    /\ \A j \in Job :
          j \notin seen \/ (\E k \in DOMAIN line : line[k].job = j) => Unsaved(j)
    /\ cur # NoJob /\ at # "final" => Unsaved(cur)

\* A challenge is on show for the run that met it, and until the next one starts.
Shown == info # NoJob => Unsaved(info) /\ at \in {"idle", "tell", "chunk", "complete"}

\* Where the finalize of a run stands.
Finishing ==
    /\ req # NoReq => (at = "final" <=> req.op = "finalize")
    /\ at = "final" =>
          /\ pos = Batches
          /\ calls[req.id].at \in {"none", "waiting", "writing"} => Unsaved(cur)
          /\ calls[req.id].at = "writing" => calls[req.id].got = Batch
          /\ calls[req.id].at = "recording" => file[cur] = Batch
          /\ calls[req.id].at = "done" /\ ~calls[req.id].ok => Unsaved(cur)

\* What the helper is yet to be told of a challenge, it is told before it gets the
\* finalize of a later run ...
ToldBefore ==
    \A k \in DOMAIN up, j \in Job : Tells(up[k], j) =>
        /\ Unsaved(j)
        /\ Ends(j) => /\ calls[req.id].at = "none"
                      /\ \A l \in 1..k - 1 : ~(up[l].type = "request" /\ up[l].id = req.id)

\* ... and the extension is offered the job again before it gets the reply to that.
OfferedBefore ==
    \A k \in DOMAIN down, j \in Job : Renews(down[k], j) =>
        /\ Ends(j) => \A l \in 1..k - 1 : ~(down[l].type = "reply" /\ down[l].id = req.id)
        /\ ~Ends(j) => Unsaved(j)

CalmInv ==
    /\ Quiet /\ Early /\ Marked
    /\ OneRun /\ InHand /\ Unasked /\ Shown /\ Finishing
    /\ ToldBefore /\ OfferedBefore

-----------------------------------------------------------------------------
(* The steps of a calm behaviour.                                          *)

\* No count of faults goes back.
LEMMA CountGrows ==
    ASSUME Typed, [Next]_vars
    PROVE  UNCHANGED count \/ \E f \in Fault : Happens(f)
  <1>1. CASE Person \/ Reload
    BY <1>1 DEF Person, Submit, Retry, Reload, Fault
  <1>2. CASE Helper
    BY <1>2 DEF Helper, Handle, Receive, Execute, Checkpoint, Progress, Chunk, Complete,
         CompleteLost, Merge, MergeNothing, Write, WriteFails, Record, Answer, Fault
  <1>3. CASE Browser
    BY <1>3 DEF Browser, Start, Fetch, Finalize, Challenged, Failed, Dispatch, Fault
  <1>4. CASE Solve \/ Alarm \/ Resend \/ TimeOut \/ Connect \/ Drop \/ WorkerRestart \/ HelperRestart
    BY <1>4 DEF Solve, Alarm, Resend, TimeOut, Connect, Drop, WorkerRestart, HelperRestart, Fault
  <1> QED BY <1>1, <1>2, <1>3, <1>4, NextKinds DEF vars

Disturbing == {"worker", "helper", "timeout", "expiry", "again"}

LEMMA StaysCalm ==
    ASSUME Typed, [Next]_vars, Calm'
    PROVE  /\ Calm /\ \A f \in Disturbing : ~Happens(f)
           /\ \A f \in Fault : count'[f] = 0 => count[f] = 0 /\ ~Happens(f)
  <1>1. \A f \in Disturbing : f \in Fault /\ count'[f] = 0
    BY DEF Calm, Disturbed, Disturbing, Fault
  <1>2. \A f \in Fault : count'[f] = 0 => count[f] = 0 /\ ~Happens(f)
    BY CountGrows, HappensCounts DEF Typed, TypedRest
  <1>3. \A f \in Disturbing : count[f] = 0
    BY <1>1, <1>2
  <1>4. count["challenge"] = 0 \/ count["drop"] = 0
    BY <1>2 DEF Calm, Fault
  <1> QED BY <1>1, <1>2, <1>3, <1>4 DEF Calm, Disturbed, Disturbing

\* A frame is handled: an acknowledgement, news of a challenge, a request that is new,
\* or one that is known.
Acknowledges(m) == m.type = "accepted" /\ Accepted(m.job) /\ UNCHANGED count

Hears(m) ==
    /\ \/ m.type = "required" /\ Required(m.job)
       \/ m.type = "resolved" /\ Resolved(m.job, m.cycle)
    /\ UNCHANGED count

Kept(id) == IF calls[id].at # "done" \/ Awaits(id) \/ OnItsWay(id) THEN calls[id] ELSE NoCall

Admits(r) ==
    /\ r.type = "request" /\ calls[r.id].at = "none"
    /\ calls' = [[id \in RequestId |-> Kept(id)] EXCEPT
                    ![r.id] = [op |-> r.op, job |-> r.job, batch |-> r.batch,
                               at |-> "waiting", ok |-> TRUE, got |-> {}]]
    /\ down' = down /\ UNCHANGED <<jobs, chk, uploads, stored, count>>

Repeats(r) ==
    /\ r.type = "request" /\ calls[r.id].at # "none"
    /\ calls' = [id \in RequestId |-> Kept(id)]
    /\ \/ ToExtension(<<>>)
       \/ /\ calls[r.id].at = "done"
          /\ ToExtension(<<[type |-> "reply", id |-> r.id, ok |-> calls[r.id].ok]>>)
    /\ UNCHANGED <<order, jobs, chk, uploads, stored, count>>

Handles(m) == Acknowledges(m) \/ Hears(m) \/ Admits(m) \/ Repeats(m)

CalmStep ==
    \/ /\ linked /\ up # <<>> /\ up' = Tail(up) /\ UNCHANGED <<linked, extension>>
       /\ Handles(Head(up))
    \/ \E i \in RequestId : Execute(i)
    \/ \E j \in Job : Submit(j)
    \/ Start \/ Fetch \/ Finalize \/ Challenged \/ Failed \/ Dispatch
    \/ Solve \/ Alarm \/ Resend \/ Connect \/ Drop
    \/ UNCHANGED vars

LEMMA CalmSteps ==
    ASSUME Typed, Marked, [Next]_vars, Calm'
    PROVE  CalmStep
  <1>1. \A f \in Disturbing : ~Happens(f)
    BY StaysCalm
  <1>2. ~HelperRestart /\ ~Reload /\ ~TimeOut /\ \A j \in Job : ~Retry(j)
    BY <1>1 DEF HelperRestart, Reload, TimeOut, Retry, Disturbing
  <1>3. ~WorkerRestart
    <2>1. down # <<>> => Head(down).type # "reload"
      BY TailRange DEF Marked, Typed, TypedWire
    <2> QED BY <1>1, <2>1 DEF WorkerRestart, Disturbing
  <1>4. CASE Handle
    <2> PICK m : m = Head(up) OBVIOUS
    <2>1. ~Happens("expiry") BY <1>1 DEF Disturbing
    <2>2. m.type = "request" /\ Receive(m) => Admits(m) \/ Repeats(m)
      BY <2>1 DEF Receive, Admits, Repeats, Kept
    <2> QED BY <1>4, <2>2 DEF Handle, CalmStep, Handles, Acknowledges, Hears
  <1> QED BY <1>2, <1>3, <1>4, NextKinds DEF CalmStep, Helper, Person, Browser


-----------------------------------------------------------------------------
(* Frames in their order.                                                  *)

\* An execution answers at most, with what is no offer.
LEMMA Executed ==
    ASSUME NEW i \in RequestId, Execute(i)
    PROVE  /\ UNCHANGED <<linked, up, extension, again>>
           /\ \/ down' = down
              \/ \E ok \in BOOLEAN : ToExtension(<<[type |-> "reply", id |-> i, ok |-> ok]>>)
  <1>1. CASE Checkpoint(i) \/ Progress(i) \/ Chunk(i) \/ CompleteLost(i) \/ WriteFails(i)
    BY <1>1 DEF Checkpoint, Progress, Chunk, CompleteLost, WriteFails, Answer, jobs
  <1>2. CASE Complete(i) \/ MergeNothing(i) \/ Record(i)
    BY <1>2 DEF Complete, MergeNothing, Record, Answer, Conclude
  <1>3. CASE Merge(i) \/ Write(i)
    BY <1>3 DEF Merge, Write, wire, jobs
  <1> QED BY <1>1, <1>2, <1>3 DEF Execute

\* What is offered anew when the socket opens.
LEMMA ConnectOffers ==
    ASSUME Typed, Connect, NEW m \in Range(down')
    PROVE  \E j \in queue \cup inflight : m = JobFrame(j, FALSE)
  <1> DEFINE S == {JobFrame(j, FALSE) : j \in queue \cup inflight}
  <1>1. IsFiniteSet(queue \cup inflight)
    BY IngestAssumption, FS_Subset DEF Typed, TypedJobs
  <1>2. IsFiniteSet(S)
    <2> DEFINE f == [j \in queue \cup inflight |-> JobFrame(j, FALSE)]
    <2>1. f \in Surjection(queue \cup inflight, S) BY DEF Surjection
    <2> HIDE DEF f, S
    <2> QED BY <1>1, <2>1, FS_Surjection
  <1>3. down' = SetToSeq(S) BY DEF Connect
  <1>4. m \in S
    <2> HIDE DEF S
    <2>1. Range(SetToSeq(S)) \subseteq S BY <1>2, SetToSeqRange
    <2> QED BY <1>3, <2>1
  <1> QED BY <1>4

\* Where the frames of a sequence are when others are put behind them, ...
LEMMA Extended ==
    ASSUME NEW S, NEW s \in Seq(S), NEW t \in Seq(S), NEW k \in DOMAIN (s \o t)
    PROVE  \/ /\ k \in DOMAIN s /\ (s \o t)[k] = s[k]
              /\ \A l \in 1..k - 1 : (s \o t)[l] = s[l]
           \/ (s \o t)[k] \in Range(t)
  <1>1. /\ Len(s \o t) = Len(s) + Len(t) /\ Len(s) \in Nat /\ Len(t) \in Nat
        /\ k \in 1..Len(s) + Len(t)
        /\ \A l \in 1..Len(s) + Len(t) : (s \o t)[l] = IF l <= Len(s) THEN s[l] ELSE t[l - Len(s)]
    OBVIOUS
  <1>2. CASE k <= Len(s)
    BY <1>1, <1>2
  <1>3. CASE k > Len(s)
    <2>1. k - Len(s) \in 1..Len(t) /\ (s \o t)[k] = t[k - Len(s)]
      BY <1>1, <1>3
    <2> QED BY <2>1 DEF Range
  <1> QED BY <1>1, <1>2, <1>3

\* ... and when the first is taken.
LEMMA Shortened ==
    ASSUME NEW S, NEW s \in Seq(S), s # <<>>, NEW k \in DOMAIN Tail(s)
    PROVE  /\ k + 1 \in DOMAIN s /\ Tail(s)[k] = s[k + 1] /\ Head(s) = s[1]
           /\ k \in Nat /\ 1 \in DOMAIN s /\ 1 \in 1..(k + 1) - 1
           /\ \A l \in 1..k - 1 : l + 1 \in 1..(k + 1) - 1 /\ Tail(s)[l] = s[l + 1]
  <1>1. Len(Tail(s)) = Len(s) - 1 /\ \A l \in 1..Len(Tail(s)) : Tail(s)[l] = s[l + 1]
    OBVIOUS
  <1>2. k \in 1..Len(s) - 1
    BY <1>1
  <1> QED BY <1>1, <1>2

\* The frame, and those before it, were there.
WasUp(k)   == /\ k \in DOMAIN up /\ up'[k] = up[k]
              /\ \A l \in 1..k - 1 : up'[l] = up[l]
WasDown(k) == /\ k \in DOMAIN down /\ down'[k] = down[k]
              /\ \A l \in 1..k - 1 : down'[l] = down[l]

LEMMA UpExtended ==
    ASSUME TypedWire, NEW frames \in Seq(UpFrame), ToHelper(frames), NEW k \in DOMAIN up'
    PROVE  WasUp(k) \/ up'[k] \in Range(frames)
  BY Extended DEF TypedWire, ToHelper, WasUp

LEMMA DownExtended ==
    ASSUME TypedWire, NEW frames \in Seq(DownFrame), ToExtension(frames), NEW k \in DOMAIN down'
    PROVE  WasDown(k) \/ down'[k] \in Range(frames)
  BY Extended DEF TypedWire, ToExtension, WasDown

HandleStep ==
    /\ linked /\ up # <<>> /\ up' = Tail(up) /\ UNCHANGED <<linked, extension>>
    /\ Handles(Head(up))

\* News of a challenge is sent when one is met, and when it is solved.
LEMMA TellsSteps ==
    ASSUME Typed, [Next]_vars, CalmStep, NEW k \in DOMAIN up', NEW j \in Job, Tells(up'[k], j)
    PROVE  HandleStep \/ WasUp(k) \/ (Challenged /\ j = cur) \/ (Solve /\ j = info)
  <1> USE DEF Typed
  <1>1. CASE up' = up
    <2>1. up \in Seq(UpFrame) BY DEF TypedWire
    <2> QED BY <1>1, <2>1 DEF WasUp
  <1>2. ASSUME NEW frames \in Seq(UpFrame), ToHelper(frames),
               \A m \in Range(frames) : m.type \in {"accepted", "request"}
        PROVE  WasUp(k)
    BY <1>2, UpExtended DEF Tells
  <1>3. ASSUME NEW m \in UpFrame, m.type \in {"accepted", "request"}, ToHelper(<<m>>)
        PROVE  WasUp(k)
    <2>1. <<m>> \in Seq(UpFrame) /\ Range(<<m>>) = {m} BY OneRange
    <2> QED BY <1>2, <1>3, <2>1
  <1>4. req' # NoReq => req' \in UpFrame /\ req'.type = "request"
    BY RunSteps DEF TypedRun, UpFrame, Asked, Request
  <1>5. req # NoReq => req \in UpFrame /\ req.type = "request"
    BY DEF TypedRun, UpFrame, Asked, Request
  <1>6. CASE Fetch \/ Finalize \/ Failed
    <2>1. ToHelper(<<req'>>) /\ at' \in {"ack", "final", "tell"}
      BY <1>6 DEF Fetch, Finalize, Failed, Fail, Ask
    <2>2. req' # NoReq BY <2>1, RunSteps DEF TypedRun
    <2> QED BY <1>3, <1>4, <2>1, <2>2
  <1>7. CASE Challenged
    <2> PICK told : told = [type |-> "required", job |-> cur] OBVIOUS
    <2>1. ToHelper(<<told, req'>>) /\ at' = "tell" /\ cur \in Job
      BY <1>7 DEF Challenged, TypedRun
    <2>2. req' # NoReq BY <2>1, RunSteps DEF TypedRun
    <2>3. told \in UpFrame BY <2>1 DEF UpFrame, Told
    <2>4. <<told, req'>> \in Seq(UpFrame) /\ Range(<<told, req'>>) = {told, req'}
      BY <1>4, <2>2, <2>3, TwoRange
    <2>5. WasUp(k) \/ up'[k] = told \/ up'[k] = req'
      BY <2>1, <2>4, UpExtended
    <2> QED BY <1>4, <1>7, <2>2, <2>5 DEF Tells
  <1>8. CASE Solve
    <2> PICK told : told = [type |-> "resolved", job |-> info, cycle |-> cycle'[info]] OBVIOUS
    <2> PICK accepted : accepted = AcceptedFrame(info) OBVIOUS
    <2>1. /\ ToHelper(<<told, accepted>>) /\ info \in Job
          /\ cycle' = [cycle EXCEPT ![info] = @ + 1] /\ cycle \in [Job -> Nat]
      BY <1>8 DEF Solve, TypedRest
    <2>2. told \in UpFrame /\ accepted \in UpFrame /\ accepted.type = "accepted"
      <3>1. cycle'[info] \in Nat BY <2>1
      <3> QED BY <2>1, <3>1 DEF UpFrame, Told, AcceptedFrame
    <2>3. <<told, accepted>> \in Seq(UpFrame) /\ Range(<<told, accepted>>) = {told, accepted}
      BY <2>2, TwoRange
    <2>4. WasUp(k) \/ up'[k] = told \/ up'[k] = accepted
      BY <2>1, <2>3, UpExtended
    <2> QED BY <1>8, <2>2, <2>4 DEF Tells
  <1>9. CASE Dispatch
    <2> PICK m : m = Head(down) OBVIOUS
    <2>1. m \in DownFrame BY <1>9, TailRange DEF Dispatch, TypedWire
    <2>2. CASE m.type = "job" /\ ToHelper(<<AcceptedFrame(m.job)>>)
      <3>1. AcceptedFrame(m.job) \in UpFrame /\ AcceptedFrame(m.job).type = "accepted"
        BY <2>1, <2>2 DEF DownFrame, Offer, Reply, UpFrame, Told, AcceptedFrame
      <3> QED BY <1>3, <2>2, <3>1
    <2>3. CASE m.type = "reply" /\ Awaits(m.id) /\ Replied(m.ok)
      <3>1. m.ok \in BOOLEAN /\ req # NoReq
        BY <2>1, <2>3 DEF DownFrame, Offer, Reply, Awaits
      <3>2. up' = up \/ (ToHelper(<<req'>>) /\ at' \in {"tell", "chunk", "complete"})
        BY <2>3, <3>1, RepliedCases DEF Fail, Ask
      <3>3. at' \in {"tell", "chunk", "complete"} => req' # NoReq BY RunSteps DEF TypedRun
      <3> QED BY <1>1, <1>3, <1>4, <3>2, <3>3
    <2> QED BY <1>1, <1>9, <2>2, <2>3 DEF Dispatch
  <1>10. CASE Resend
    <2>1. req # NoReq /\ linked /\ up' = up \o <<req>>
      BY <1>10 DEF Resend, TypedWire
    <2>2. ToHelper(<<req>>) BY <2>1 DEF ToHelper
    <2> QED BY <1>3, <1>5, <2>1, <2>2
  <1>11. CASE Connect
    <2>1. up' = <<>> \/ (req # NoReq /\ up' = <<req>>)
      BY <1>11 DEF Connect
    <2> QED BY <1>5, <2>1 DEF Tells
  <1>12. CASE Drop
    BY <1>12 DEF Drop, Cut
  <1>13. ASSUME NEW i \in RequestId, Execute(i) PROVE up' = up
    BY <1>13, Executed
  <1>14. CASE Start \/ Alarm \/ (\E x \in Job : Submit(x)) \/ UNCHANGED vars
    BY <1>1, <1>14 DEF Start, Alarm, Submit, vars, wire
  <1> QED
    BY <1>1, <1>6, <1>7, <1>8, <1>9, <1>10, <1>11, <1>12, <1>13, <1>14 DEF CalmStep, HandleStep

\* What is sent to the extension: a reply, or the offer of a job, made once more when
\* the helper hears that its challenge was solved.
LEMMA DownCases ==
    ASSUME Typed, [Next]_vars, CalmStep, ~Dispatch, NEW k \in DOMAIN down'
    PROVE  \/ WasDown(k)
           \/ down'[k].type = "reply"
           \/ \E x \in Job : down'[k] = JobFrame(x, FALSE) /\ (Submit(x) \/ Connect)
           \/ \E x \in Job, b \in Offset :
                 /\ down'[k] = JobFrom(x, TRUE, b)
                 /\ HandleStep /\ Hears(Head(up)) /\ Tells(Head(up), x)
  <1> USE DEF Typed
  <1>1. ASSUME down' = down PROVE WasDown(k)
    <2>1. down \in Seq(DownFrame) BY DEF TypedWire
    <2> QED BY <1>1, <2>1 DEF WasDown
  <1>2. ASSUME NEW m \in DownFrame, ToExtension(<<m>>)
        PROVE  WasDown(k) \/ down'[k] = m
    <2>1. <<m>> \in Seq(DownFrame) /\ Range(<<m>>) = {m} BY OneRange
    <2> QED BY <1>2, <2>1, DownExtended
  <1>3. ASSUME ToExtension(<<>>) PROVE WasDown(k)
    <2>1. <<>> \in Seq(DownFrame) /\ Range(<<>>) = {} BY DEF Range
    <2> QED BY <1>3, <2>1, DownExtended
  <1>4. ASSUME NEW i \in RequestId, NEW ok \in BOOLEAN,
               ToExtension(<<[type |-> "reply", id |-> i, ok |-> ok]>>)
        PROVE  WasDown(k) \/ down'[k].type = "reply"
    <2> PICK m : m = [type |-> "reply", id |-> i, ok |-> ok] OBVIOUS
    <2>1. m \in DownFrame /\ m.type = "reply" BY DEF DownFrame, Reply
    <2> QED BY <1>2, <1>4, <2>1
  <1>5. CASE HandleStep
    <2> PICK r : r = Head(up) OBVIOUS
    <2>1. r \in UpFrame BY <1>5, TailRange DEF HandleStep, TypedWire
    <2>2. CASE Acknowledges(r) BY <1>1, <2>2 DEF Acknowledges, Accepted
    <2>3. CASE Admits(r) BY <1>1, <2>3 DEF Admits
    <2>4. CASE Repeats(r)
      <3>1. r.id \in RequestId /\ calls[r.id].ok \in BOOLEAN
        BY <2>1, <2>4 DEF Repeats, UpFrame, Asked, Request, Told, TypedCalls, CallType
      <3> QED BY <1>3, <1>4, <2>4, <3>1 DEF Repeats
    <2>5. CASE Hears(r)
      <3>1. CASE r.type = "required" /\ Required(r.job)
        BY <1>1, <3>1 DEF Required
      <3>2. CASE r.type = "resolved" /\ Resolved(r.job, r.cycle)
        <4> PICK b : b = hint'[r.job] OBVIOUS
        <4> PICK m : m = JobFrom(r.job, TRUE, b) OBVIOUS
        <4>1. down' = down \/ ToExtension(<<m>>)
          BY <3>2 DEF Resolved
        <4>2. r.job \in Job
          BY <2>1, <3>2 DEF UpFrame, Asked, Request, Told
        <4>3. b \in Offset BY <4>2, JobsTyped DEF TypedJobs
        <4>4. m \in DownFrame BY <4>2, <4>3, OfferedFrom DEF DownFrame
        <4>5. Tells(r, r.job) BY <3>2 DEF Tells
        <4>6. CASE ToExtension(<<m>>)
          <5>1. WasDown(k) \/ down'[k] = m BY <1>2, <4>4, <4>6
          <5> QED BY <1>5, <2>5, <4>2, <4>3, <4>5, <5>1
        <4> QED BY <1>1, <4>1, <4>6
      <3> QED BY <2>5, <3>1, <3>2 DEF Hears
    <2> QED BY <1>5, <2>2, <2>3, <2>4, <2>5 DEF HandleStep, Handles
  <1>6. ASSUME NEW i \in RequestId, Execute(i) PROVE WasDown(k) \/ down'[k].type = "reply"
    <2>1. \/ down' = down
          \/ \E ok \in BOOLEAN : ToExtension(<<[type |-> "reply", id |-> i, ok |-> ok]>>)
      BY <1>6, Executed
    <2>2. CASE down' = down BY <1>1, <2>2
    <2>3. ASSUME NEW ok \in BOOLEAN, ToExtension(<<[type |-> "reply", id |-> i, ok |-> ok]>>)
          PROVE  WasDown(k) \/ down'[k].type = "reply"
      BY <1>4, <2>3
    <2> QED BY <2>1, <2>2, <2>3
  <1>7. ASSUME NEW x \in Job, Submit(x) PROVE WasDown(k) \/ down'[k] = JobFrame(x, FALSE)
    <2> PICK m : m = JobFrame(x, FALSE) OBVIOUS
    <2>1. m \in DownFrame BY Offered DEF DownFrame
    <2>2. ToExtension(<<m>>) BY <1>7 DEF Submit
    <2> QED BY <1>2, <2>1, <2>2
  <1>8. CASE Connect
    <2> PICK m : m = down'[k] OBVIOUS
    <2>1. m \in Range(down') BY DEF Range
    <2>2. PICK x \in queue \cup inflight : m = JobFrame(x, FALSE)
      BY <1>8, <2>1, ConnectOffers
    <2>3. x \in Job BY DEF TypedJobs
    <2> QED BY <1>8, <2>2, <2>3
  <1>9. CASE Drop
    BY <1>9 DEF Drop, Cut
  <1>10. CASE Start \/ Fetch \/ Finalize \/ Challenged \/ Failed \/ Solve \/ Alarm \/ Resend
              \/ UNCHANGED vars
    BY <1>1, <1>10 DEF Start, Fetch, Finalize, Challenged, Failed, Solve, Alarm, Resend, wire, vars
  <1> QED
    BY <1>5, <1>6, <1>7, <1>8, <1>9, <1>10 DEF CalmStep, HandleStep

LEMMA RenewsSteps ==
    ASSUME Typed, Quiet, Early, Marked, Calm, [Next]_vars, CalmStep, ~Dispatch,
           NEW k \in DOMAIN down', NEW j \in Job, Renews(down'[k], j)
    PROVE  WasDown(k) \/ (HandleStep /\ Hears(Head(up)) /\ Tells(Head(up), j))
  <1>1. ASSUME NEW x \in Job, Submit(x) \/ Connect PROVE down'[k] # JobFrame(x, FALSE)
    <2>1. ~again[x] BY <1>1 DEF Submit, Connect, Calm, Quiet, Early, Marked
    <2>2. JobFrame(x, FALSE).retry = again[x] /\ again[x] \in BOOLEAN
      BY DEF JobFrame, JobFrom, Typed, TypedJobs
    <2> QED BY <2>1, <2>2 DEF Renews
  <1>2. ASSUME NEW x \in Job, NEW b \in Offset, down'[k] = JobFrom(x, TRUE, b) PROVE x = j
    BY <1>2 DEF JobFrom, Renews
  <1>3. down'[k].type # "reply" BY DEF Renews
  <1> QED BY <1>1, <1>2, <1>3, DownCases

\* What the extension has in hand when no step of the run or of the watcher is taken.
LEMMA ExtensionRests ==
    ASSUME CalmStep
    PROVE  \/ UNCHANGED extension
           \/ Start \/ Fetch \/ Finalize \/ Challenged \/ Failed \/ Dispatch \/ Solve \/ Alarm
           \/ Connect /\ UNCHANGED <<runner, backlog, cycle, local>> /\ info' = shown
  <1>1. ASSUME NEW i \in RequestId, Execute(i) PROVE UNCHANGED extension
    BY <1>1, Executed
  <1> QED
    BY <1>1 DEF CalmStep, Submit, Resend, Connect, ShowAgain, Drop, vars

LEMMA QuietStep ==
    ASSUME Typed, Quiet, [Next]_vars, CalmStep, Calm'
    PROVE  Quiet'
  <1> USE DEF Typed
  <1> SUFFICES ASSUME count'["challenge"] = 0 PROVE Quiet'
    BY DEF Quiet
  <1>1. "challenge" \in Fault BY DEF Fault
  <1>2. count["challenge"] = 0 /\ ~Challenged
    BY <1>1, StaysCalm DEF Challenged
  <1>3. info' = NoJob
    <2>1. ~Solve /\ ~Alarm BY <1>2 DEF Solve, Alarm, Quiet
    <2>2. CASE Start BY <2>2 DEF Start
    <2>3. CASE Fetch \/ Finalize \/ Failed \/ Dispatch \/ UNCHANGED extension
      BY <1>2, <2>3 DEF Fetch, Finalize, Failed, Dispatch, extension, challenge, Quiet
    <2>4. CASE info' = shown BY <1>2, <2>4 DEF Quiet, TypedRest
    <2> QED BY <1>2, <2>1, <2>2, <2>3, <2>4, ExtensionRests
  <1>4. \A j \in Job : ~again'[j]
    <2>1. CASE HandleStep
      <3> PICK m : m = Head(up) OBVIOUS
      <3>1. m \in Range(up) BY <2>1, TailRange DEF HandleStep, TypedWire
      <3>2. ~Hears(m) BY <1>2, <3>1 DEF Hears, Quiet
      <3>3. again' = again
        BY <2>1, <3>2 DEF HandleStep, Handles, Acknowledges, Accepted, Admits, Repeats, jobs
      <3> QED BY <1>2, <3>3 DEF Quiet
    <2>2. CASE again' = again BY <1>2, <2>2 DEF Quiet
    <2>3. ASSUME NEW i \in RequestId, Execute(i) PROVE again' = again
      BY <2>3, Executed
    <2>4. CASE (\E j \in Job : Submit(j)) \/ Start \/ Fetch \/ Finalize \/ Failed \/ Dispatch \/ Solve
               \/ Alarm \/ Resend \/ Connect \/ Drop \/ UNCHANGED vars
      BY <2>2, <2>4 DEF Submit, Start, Fetch, Finalize, Failed, Dispatch, Solve, Alarm, Resend,
                        Connect, Drop, vars, jobs
    <2> QED BY <1>2, <2>1, <2>2, <2>3, <2>4 DEF CalmStep, HandleStep
  <1>5. ASSUME NEW m \in Range(up') PROVE m.type \in {"accepted", "request"}
    <2>1. up' \in Seq(UpFrame) BY UpSteps
    <2> PICK k \in DOMAIN up' : m = up'[k] BY DEF Range
    <2>2. m \in UpFrame BY <2>1
    <2>3. SUFFICES ASSUME NEW j \in Job, Tells(m, j) PROVE FALSE
      BY <2>2 DEF UpFrame, Asked, Request, Told, Tells
    <2>4. CASE HandleStep
      <3>1. m \in Range(up) BY <2>4, TailRange DEF HandleStep, TypedWire
      <3> QED BY <1>2, <2>3, <3>1 DEF Quiet, Tells
    <2>5. CASE WasUp(k)
      <3>1. m \in Range(up) BY <2>5 DEF WasUp, Range
      <3> QED BY <1>2, <2>3, <3>1 DEF Quiet, Tells
    <2>6. ~Solve BY <1>2 DEF Solve, Quiet
    <2> QED BY <1>2, <2>3, <2>4, <2>5, <2>6, TellsSteps
  <1> QED BY <1>3, <1>4, <1>5 DEF Quiet

LEMMA EarlyStep ==
    ASSUME Typed, Quiet, Early, OneRun, InHand, [Next]_vars, CalmStep, Calm'
    PROVE  Early'
  <1> USE DEF Typed
  <1> SUFFICES ASSUME count'["drop"] = 0, ~linked' PROVE Early'
    BY DEF Early
  <1>1. "drop" \in Fault BY DEF Fault
  <1>2. count["drop"] = 0 /\ ~Drop
    BY <1>1, StaysCalm DEF Drop
  <1>3. ~linked
    <2>1. linked' = linked \/ Connect
      <3>1. ASSUME NEW i \in RequestId, Execute(i) PROVE linked' = linked
        BY <3>1, Executed
      <3> QED
        BY <1>2, <3>1 DEF CalmStep, Submit, Start, Fetch, Finalize, Challenged, Failed, Dispatch,
                          Solve, Alarm, Resend, wire, vars
    <2> QED BY <2>1 DEF Connect
  <1>4. cur = NoJob /\ line = <<>> /\ info = NoJob /\ \A j \in Job : ~again[j]
    BY <1>2, <1>3 DEF Early
  <1>5. at # "fetch" BY <1>4 DEF TypedRun
  <1>6. UNCHANGED <<cur, line, info>>
    <2>2. ~Connect BY DEF Connect
    <2>1. ~Start /\ ~Fetch /\ ~Finalize /\ ~Challenged /\ ~Failed /\ ~Dispatch /\ ~Solve /\ ~Alarm
      BY <1>3, <1>4, <1>5 DEF Start, Fetch, Finalize, Challenged, Failed, Dispatch, Solve, Alarm
    <2> QED BY <2>1, <2>2, ExtensionRests DEF extension, runner, backlog, challenge
  <1>7. again' = again
    <2>1. ASSUME NEW i \in RequestId, Execute(i) PROVE again' = again
      BY <2>1, Executed
    <2> QED
      BY <1>3, <2>1 DEF CalmStep, Submit, Start, Fetch, Finalize, Challenged, Failed, Dispatch,
                        Solve, Alarm, Resend, Connect, Drop, vars, jobs
  <1> QED BY <1>4, <1>6, <1>7 DEF Early

LEMMA MarkedStep ==
    ASSUME Typed, Marked, [Next]_vars, CalmStep
    PROVE  Marked'
  <1> USE DEF Typed
  <1>1. known \subseteq known'
    <2>1. CASE HandleStep
      BY <2>1 DEF HandleStep, Handles, Acknowledges, Accepted, Hears, Required, Resolved, Admits,
                  Repeats, jobs
    <2>2. ASSUME NEW i \in RequestId, Execute(i) PROVE known' = known
      BY <2>2 DEF Execute, Checkpoint, Progress, Chunk, Complete, CompleteLost, Merge, MergeNothing,
                  Write, WriteFails, Record, Conclude, jobs
    <2> QED
      BY <2>1, <2>2 DEF CalmStep, HandleStep, Submit, Start, Fetch, Finalize, Challenged, Failed,
                        Dispatch, Solve, Alarm, Resend, Connect, Drop, vars, jobs
  <1>2. ASSUME NEW j \in Job, again'[j] PROVE again[j] \/ j \in known
    <2>1. CASE HandleStep
      <3> PICK m : m = Head(up) OBVIOUS
      <3>1. CASE Hears(m)
        BY <1>2, <3>1 DEF Hears, Required, Resolved, jobs, TypedJobs
      <3> QED
        BY <1>2, <2>1, <3>1 DEF HandleStep, Handles, Acknowledges, Accepted, Admits, Repeats, jobs
    <2>2. ASSUME NEW i \in RequestId, Execute(i) PROVE again' = again
      BY <2>2, Executed
    <2> QED
      BY <1>2, <2>1, <2>2 DEF CalmStep, HandleStep, Submit, Start, Fetch, Finalize, Challenged,
                              Failed, Dispatch, Solve, Alarm, Resend, Connect, Drop, vars, jobs
  <1>3. ASSUME NEW m \in Range(down') PROVE m.type \in {"job", "reply"}
    <2> PICK k \in DOMAIN down' : m = down'[k] BY DEF Range
    <2>1. CASE Dispatch
      BY <2>1, TailRange DEF Dispatch, TypedWire, Marked
    <2>2. CASE WasDown(k)
      <3>1. m \in Range(down) BY <2>2 DEF WasDown, Range
      <3> QED BY <3>1 DEF Marked
    <2>3. \A x \in Job : JobFrame(x, FALSE).type = "job" BY DEF JobFrame, JobFrom
    <2>4. \A x \in Job, b \in Offset : JobFrom(x, TRUE, b).type = "job" BY DEF JobFrom
    <2> QED BY <2>1, <2>2, <2>3, <2>4, DownCases
  <1> QED BY <1>1, <1>2, <1>3 DEF Marked

-----------------------------------------------------------------------------
(* Every job is in line or running once.                                   *)

\* How the line gets longer, ...
LEMMA Queued ==
    ASSUME Typed, NEW j \in Job, NEW from \in Offset, NEW retry, Enqueue(j, from, retry)
    PROVE  \/ UNCHANGED backlog
           \/ /\ seen' = seen \cup {j} /\ cur # j /\ \A k \in DOMAIN line : line[k].job # j
              /\ retry \/ j \notin seen
              /\ \A k \in DOMAIN line' : \/ k \in DOMAIN line /\ line'[k] = line[k]
                                         \/ k = Len(line) + 1 /\ line'[k].job = j
  <1>1. line \in Seq(Item)
    BY DEF Typed, TypedRest, Item
  <1>2. CASE /\ cur # j /\ ~\E i \in 1..Len(line) : line[i].job = j
             /\ retry \/ j \notin seen
             /\ line' = Append(line, [job |-> j, from |-> from]) /\ seen' = seen \cup {j}
    <2> PICK item : item = [job |-> j, from |-> from] OBVIOUS
    <2>1. item \in Item /\ item.job = j BY DEF Item
    <2>2. /\ line' \in Seq(Item) /\ Len(line') = Len(line) + 1
          /\ \A k \in 1..Len(line') : line'[k] = IF k <= Len(line) THEN line[k] ELSE item
      <3> HIDE DEF Item
      <3> QED BY <1>1, <1>2, <2>1
    <2>3. \A k \in DOMAIN line' : \/ k \in DOMAIN line /\ line'[k] = line[k]
                                  \/ k = Len(line) + 1 /\ line'[k] = item
      <3> HIDE DEF Item
      <3> QED BY <1>1, <2>2
    <2>4. \A k \in DOMAIN line : line[k].job # j
      <3> HIDE DEF Item
      <3> QED BY <1>1, <1>2
    <2> QED BY <1>2, <2>1, <2>3, <2>4
  <1> QED BY <1>2 DEF Enqueue

\* ... and shorter.
LEMMA Started ==
    ASSUME Typed, Start
    PROVE  /\ seen' = seen /\ 1 \in DOMAIN line /\ cur' = line[1].job /\ cur' \in Job
           /\ \A k \in DOMAIN line' : k + 1 \in DOMAIN line /\ k + 1 # 1 /\ line'[k] = line[k + 1]
           /\ \A k, l \in DOMAIN line' : k + 1 = l + 1 => k = l
  <1>1. line \in Seq(Item) BY DEF Typed, TypedRest, Item
  <1>2. line # <<>> /\ line' = Tail(line) /\ cur' = Head(line).job /\ seen' = seen
    BY DEF Start
  <1>3. /\ Len(line') = Len(line) - 1 /\ \A k \in 1..Len(line') : line'[k] = line[k + 1]
        /\ line' \in Seq(Item) /\ Head(line) = line[1] /\ 1 \in DOMAIN line /\ line[1] \in Item
    <2> HIDE DEF Item
    <2> QED BY <1>1, <1>2
  <1>4. /\ \A k \in DOMAIN line' : k + 1 \in DOMAIN line /\ k + 1 # 1 /\ line'[k] = line[k + 1]
        /\ \A k, l \in DOMAIN line' : k + 1 = l + 1 => k = l
    <2> HIDE DEF Item
    <2> QED BY <1>1, <1>3
  <1>5. cur' \in Job BY <1>2, <1>3 DEF Item
  <1> QED BY <1>2, <1>3, <1>4, <1>5

\* The kinds of Dispatch.
LEMMA Dispatched ==
    ASSUME Typed, Marked, Dispatch
    PROVE  \/ /\ Head(down).type = "reply" /\ Awaits(Head(down).id) /\ Head(down).ok \in BOOLEAN
              /\ req # NoReq /\ Replied(Head(down).ok) /\ UNCHANGED backlog
           \/ UNCHANGED <<up, runner, backlog>>
           \/ /\ Head(down).type = "job" /\ Head(down).job \in Job /\ Head(down).from \in Offset
              /\ Enqueue(Head(down).job, Head(down).from, Head(down).retry)
              /\ ToHelper(<<AcceptedFrame(Head(down).job)>>) /\ UNCHANGED runner
  <1> PICK m : m = Head(down) OBVIOUS
  <1>1. m \in DownFrame BY TailRange DEF Dispatch, Typed, TypedWire
  <1>2. CASE m.type = "reply" /\ Awaits(m.id) /\ Replied(m.ok) /\ UNCHANGED backlog
    <2>1. m.ok \in BOOLEAN /\ req # NoReq
      BY <1>1, <1>2 DEF DownFrame, Offer, Reply, Awaits
    <2> QED BY <1>2, <2>1
  <1>3. CASE UNCHANGED <<up, runner, backlog>> BY <1>3
  <1>4. CASE /\ m.type = "job" /\ Enqueue(m.job, m.from, m.retry)
             /\ ToHelper(<<AcceptedFrame(m.job)>>) /\ UNCHANGED runner
    <2>1. m.job \in Job /\ m.from \in Offset
      BY <1>1, <1>4 DEF DownFrame, Offer, Reply
    <2> QED BY <1>4, <2>1
  <1> QED BY <1>2, <1>3, <1>4 DEF Dispatch

LEMMA OneRunStep ==
    ASSUME Typed, Marked, OneRun, CalmStep
    PROVE  OneRun'
  <1> USE DEF Typed
  <1>1. CASE UNCHANGED <<cur, line, seen>>
    BY <1>1 DEF OneRun
  <1>2. CASE Start
    BY <1>2, Started DEF OneRun
  <1>3. ASSUME NEW j \in Job, NEW from \in Offset, NEW retry, Enqueue(j, from, retry), UNCHANGED runner
        PROVE  OneRun'
    <2>1. cur' = cur BY <1>3 DEF runner
    <2>2. CASE UNCHANGED backlog BY <1>1, <2>1, <2>2 DEF backlog
    <2> QED BY <1>3, <2>1, <2>2, Queued DEF OneRun
  <1>4. CASE Dispatch
    <2>1. CASE UNCHANGED backlog
      <3>1. cur' = cur \/ cur' = NoJob
        BY <1>4, Dispatched, RepliedCases DEF EndRun, runner
      <3>2. \A k \in DOMAIN line : line[k].job # NoJob
        <4>1. line \in Seq(Item) BY DEF TypedRest, Item
        <4>2. \A k \in DOMAIN line : line[k] \in Item
          <5> HIDE DEF Item
          <5> QED BY <4>1
        <4> QED BY <4>2, IngestAssumption DEF Item
      <3> QED BY <2>1, <3>1, <3>2 DEF OneRun, backlog
    <2>2. CASE /\ Head(down).job \in Job /\ Head(down).from \in Offset /\ UNCHANGED runner
               /\ Enqueue(Head(down).job, Head(down).from, Head(down).retry)
      <3> PICK j, from, retry : j = Head(down).job /\ from = Head(down).from /\ retry = Head(down).retry
        OBVIOUS
      <3> QED BY <1>3, <2>2
    <2> QED BY <1>4, <2>1, <2>2, Dispatched
  <1>5. CASE Solve
    <2> PICK from : from = local[info] OBVIOUS
    <2>1. info \in Job /\ from \in Offset /\ Enqueue(info, from, TRUE) /\ UNCHANGED runner
      BY <1>5 DEF Solve, TypedRest
    <2> QED BY <1>3, <2>1
  <1>6. CASE UNCHANGED <<runner, backlog>>
    BY <1>1, <1>6 DEF runner, backlog
  <1>7. CASE Fetch \/ Finalize \/ Challenged \/ Failed \/ Alarm \/ UNCHANGED extension
    BY <1>1, <1>6, <1>7 DEF Fetch, Finalize, Challenged, Failed, Alarm, extension, backlog
  <1> QED BY <1>2, <1>4, <1>5, <1>6, <1>7, ExtensionRests

-----------------------------------------------------------------------------
(* The pool works only on what the run waits for.                          *)

Undone == {"waiting", "writing", "recording"}

\* What an execution does to the call.
LEMMA ExecutedCall ==
    ASSUME Typed, NEW i \in RequestId, Execute(i)
    PROVE  /\ calls[i].at \in Undone /\ calls'[i].at \in {"writing", "recording", "done"}
           /\ \A id \in RequestId : id # i => calls'[id] = calls[id]
  <1> USE DEF Typed
  <1>1. ASSUME NEW ok, Answer(i, ok)
        PROVE  calls'[i].at = "done" /\ \A id \in RequestId : id # i => calls'[id] = calls[id]
    BY <1>1 DEF Answer, TypedCalls, CallType
  <1>2. CASE Checkpoint(i) \/ Progress(i) \/ Chunk(i) \/ Complete(i) \/ CompleteLost(i)
             \/ MergeNothing(i)
    <2>1. calls[i].at = "waiting"
      BY <1>2, TakenCall DEF Checkpoint, Progress, Chunk, Complete, CompleteLost, MergeNothing
    <2> QED
      BY <1>1, <1>2, <2>1
         DEF Checkpoint, Progress, Chunk, Complete, CompleteLost, MergeNothing, Undone
  <1>3. CASE Merge(i)
    <2>1. calls[i].at = "waiting" BY <1>3, TakenCall DEF Merge
    <2> QED BY <1>3, <2>1 DEF Merge, TypedCalls, CallType, Undone
  <1>4. CASE Write(i)
    BY <1>4 DEF Write, TypedCalls, CallType, Undone
  <1>5. CASE WriteFails(i) \/ Record(i)
    BY <1>1, <1>5 DEF WriteFails, Record, Undone
  <1> QED BY <1>2, <1>3, <1>4, <1>5 DEF Execute

\* What becomes of the calls: one is begun when the run waits for it, and it is
\* remembered as long as the run waits for it or it is on its way.
LEMMA CalmCalls ==
    ASSUME Typed, InHand, CalmStep, NEW i \in RequestId
    PROVE  /\ calls'[i].at \in Undone => calls[i].at \in Undone \/ Awaits(i)
           /\ calls[i].at # "none" /\ (OnItsWay(i) \/ Awaits(i)) => calls'[i].at # "none"
           /\ calls[i].at = "done" /\ Awaits(i) => calls'[i] = calls[i]
  <1> USE DEF Typed
  <1>1. CASE UNCHANGED calls
    BY <1>1
  <1>2. Kept(i) \in {calls[i], NoCall} /\ NoCall.at = "none"
        /\ (OnItsWay(i) \/ Awaits(i) => Kept(i) = calls[i])
    BY DEF Kept, NoCall
  <1>3. CASE up # <<>> /\ Admits(Head(up))
    <2> PICK r : r = Head(up) OBVIOUS
    <2>1. r \in Range(up) /\ r \in UpFrame BY <1>3, TailRange DEF TypedWire
    <2>2. r.type = "request" /\ calls[r.id].at = "none" BY <1>3 DEF Admits
    <2>3. Awaits(r.id) BY <2>1, <2>2 DEF InHand, Awaits
    <2>4. r.id \in RequestId BY <2>1, <2>2 DEF UpFrame, Asked, Request, Told
    <2>5. CASE i = r.id
      BY <1>3, <2>2, <2>3, <2>4, <2>5 DEF Admits
    <2>6. CASE i # r.id
      <3>1. calls'[i] = Kept(i) BY <1>3, <2>6 DEF Admits
      <3> QED BY <1>2, <3>1 DEF Undone
    <2> QED BY <2>5, <2>6
  <1>4. CASE Repeats(Head(up))
    <2>1. calls'[i] = Kept(i) BY <1>4 DEF Repeats
    <2> QED BY <1>2, <2>1 DEF Undone
  <1>5. ASSUME NEW id \in RequestId, Execute(id)
        PROVE  /\ calls'[i].at \in Undone => calls[i].at \in Undone \/ Awaits(i)
               /\ calls[i].at # "none" /\ (OnItsWay(i) \/ Awaits(i)) => calls'[i].at # "none"
               /\ calls[i].at = "done" /\ Awaits(i) => calls'[i] = calls[i]
    BY <1>5, ExecutedCall DEF Undone
  <1>6. CASE Acknowledges(Head(up)) \/ Hears(Head(up))
    BY <1>1, <1>6 DEF Acknowledges, Accepted, Hears, Required, Resolved, pool
  <1>7. CASE \/ (\E j \in Job : Submit(j)) \/ Start \/ Fetch \/ Finalize \/ Challenged \/ Failed
             \/ Dispatch \/ Solve \/ Alarm \/ Resend \/ Connect \/ Drop \/ UNCHANGED vars
    BY <1>1, <1>7 DEF Submit, Start, Fetch, Finalize, Challenged, Failed, Dispatch, Solve, Alarm,
                      Resend, Connect, Drop, vars, pool
  <1> QED BY <1>3, <1>4, <1>5, <1>6, <1>7 DEF CalmStep, Handles

\* The run goes on when what it waits for is done.
LEMMA CalmRequest ==
    ASSUME Typed, InHand, CalmStep
    PROVE  \/ req' = req
           \/ calls' = calls /\ (req # NoReq => calls[req.id].at = "done")
  <1> USE DEF Typed
  <1>1. CASE Fetch \/ Finalize \/ Challenged \/ Failed
    <2>1. at = "fetch" /\ calls' = calls BY <1>1 DEF Fetch, Finalize, Challenged, Failed, pool
    <2> QED BY <2>1 DEF TypedRun
  <1>2. CASE Dispatch
    <2> PICK m : m = Head(down) OBVIOUS
    <2>1. m \in Range(down) /\ calls' = calls
      BY <1>2, TailRange DEF Dispatch, TypedWire, pool
    <2>2. CASE m.type = "reply" /\ Awaits(m.id)
      BY <2>1, <2>2 DEF InHand, Awaits
    <2> QED BY <1>2, <2>2 DEF Dispatch, runner
  <1>3. CASE UNCHANGED extension
    BY <1>3 DEF extension, runner
  <1>4. CASE Start \/ Solve \/ Alarm \/ UNCHANGED runner
    BY <1>4 DEF Start, Solve, Alarm, runner
  <1> QED BY <1>1, <1>2, <1>3, <1>4, ExtensionRests

LEMMA InHandStep ==
    ASSUME Typed, InHand, CalmStep, [Next]_vars
    PROVE  InHand'
  <1> USE DEF Typed
  <1>1. \A i \in RequestId : Awaits(i) <=> req # NoReq /\ req.id = i
    BY DEF Awaits
  <1>2. req # NoReq => req.id \in RequestId
    BY DEF TypedRun, Asked, Request
  <1>3. ASSUME NEW i \in RequestId, calls'[i].at \in Undone PROVE req' # NoReq /\ req'.id = i
    <2>1. calls[i].at \in Undone \/ Awaits(i) BY <1>3, CalmCalls
    <2>2. Awaits(i) BY <1>1, <2>1 DEF InHand, Undone
    <2>3. CASE req' = req BY <1>1, <2>2, <2>3
    <2>4. CASE calls' = calls /\ calls[req.id].at = "done"
      BY <1>1, <1>3, <2>2, <2>4 DEF Undone
    <2> QED BY <1>1, <2>2, <2>3, <2>4, CalmRequest
  <1>4. ASSUME NEW m \in Range(up'), m.type = "request"
        PROVE  (req' # NoReq /\ m.id = req'.id) \/ calls'[m.id].at # "none"
    <2>1. CASE req' # NoReq /\ m = req' BY <2>1
    <2>2. CASE m \in Range(up)
      <3>1. m \in UpFrame /\ OnItsWay(m.id)
        BY <1>4, <2>2 DEF TypedWire, Range, OnItsWay
      <3>2. m.id \in RequestId BY <1>4, <3>1 DEF UpFrame, Asked, Request, Told
      <3>3. CASE calls[m.id].at # "none" BY <3>1, <3>2, <3>3, CalmCalls
      <3>4. CASE req # NoReq /\ m.id = req.id /\ req' = req BY <3>4
      <3>5. CASE req # NoReq /\ m.id = req.id /\ calls' = calls /\ calls[req.id].at = "done"
        BY <3>5
      <3> QED BY <1>4, <2>2, <3>3, <3>4, <3>5, CalmRequest DEF InHand
    <2> QED BY <1>4, <2>1, <2>2, UpSteps
  <1>5. ASSUME req' # NoReq, NEW m \in Range(down'), m.type = "reply", m.id = req'.id
        PROVE  calls'[req'.id].at = "done" /\ calls'[req'.id].ok = m.ok
    <2>1. CASE Says(m)' BY <1>5, <2>1 DEF Says
    <2>2. CASE m \in Range(down) /\ UNCHANGED req
      <3>1. calls[req.id].at = "done" /\ calls[req.id].ok = m.ok /\ Awaits(req.id)
        BY <1>5, <2>2 DEF InHand, Awaits
      <3> QED BY <1>2, <1>5, <2>2, <3>1, CalmCalls
    <2>3. CASE m \in Range(down) /\ AsksAnew
      <3>1. m.id \in FreshIds BY <1>5, <2>3 DEF AsksAnew
      <3> QED BY <1>5, <2>3, <3>1 DEF FreshIds, Range
    <2> QED BY <1>5, <2>1, <2>2, <2>3, DownSteps, RunSteps
  <1> QED BY <1>3, <1>4, <1>5 DEF InHand, Undone

-----------------------------------------------------------------------------
(* What is saved of a job, and when.                                       *)

\* A call that is executed is what the run asked.
LEMMA ExecutedForRun ==
    ASSUME Typed, Agree, InHand, NEW i \in RequestId, Execute(i)
    PROVE  /\ req # NoReq /\ req.id = i /\ cur \in Job /\ cur # NoJob
           /\ calls[i].job = cur /\ calls[i].op = req.op /\ calls[i].at \in Undone
  <1>1. calls[i].at \in Undone BY ExecutedCall
  <1>2. req # NoReq /\ req.id = i BY <1>1 DEF InHand, Undone
  <1>3. calls[i].op = req.op /\ calls[i].job = cur
    BY <1>1, <1>2 DEF Agree, Undone
  <1> QED BY <1>1, <1>2, <1>3 DEF Typed, TypedRun

\* When a run has asked for its result, and it is not saved yet, the helper has every
\* batch.
LEMMA EverythingKept ==
    ASSUME Typed, AllKept, Finishing, Calm, at = "final", cur \in Job, Unsaved(cur)
    PROVE  rows[cur] = Batch /\ Batch # {}
  <1>1. Safe(cur) BY DEF Safe, Unsaved, Calm, Disturbed
  <1>2. 1..Batches \subseteq rows[cur]
    BY <1>1 DEF AllKept, HasFields, Has, Finishing
  <1>3. rows[cur] \subseteq Batch BY DEF Typed, TypedKept
  <1>4. 1 \in Batch BY IngestAssumption DEF Batch
  <1> QED BY <1>2, <1>3, <1>4 DEF Batch

\* What the execution of a call does to a job.
Keeps(i) ==
    /\ at # "final"
    /\ \E b \in Batch : 1..b - 1 \subseteq rows[cur] /\ rows' = [rows EXCEPT ![cur] = @ \cup {b}]
    /\ UNCHANGED <<result, file>>
Reports(i) ==
    /\ at # "final"
    /\ \E r \in {"awaiting", "error"} : result' = [result EXCEPT ![cur] = r]
    /\ UNCHANGED <<rows, file>>
Merges(i) ==
    /\ at = "final" /\ calls[i].at = "waiting"
    /\ calls'[i].at = "writing" /\ calls'[i].got = Batch
    /\ UNCHANGED <<rows, result, file>>
Writes(i) ==
    /\ at = "final" /\ calls[i].at = "writing" /\ calls'[i].at = "recording"
    /\ rows[cur] = Batch /\ file' = [file EXCEPT ![cur] = Batch]
    /\ UNCHANGED <<rows, result>>
Fails(i) ==
    /\ at = "final" /\ calls[i].at = "writing" /\ calls'[i].at = "done"
    /\ UNCHANGED <<rows, result, file>>
Saves(i) ==
    /\ at = "final" /\ calls[i].at = "recording" /\ calls'[i].at = "done" /\ calls'[i].ok
    /\ file[cur] = Batch
    /\ result' = [result EXCEPT ![cur] = "saved"] /\ rows' = [rows EXCEPT ![cur] = {}]
    /\ UNCHANGED file

LEMMA ExecutedEffect ==
    ASSUME IInv, CalmInv, Calm, NEW i \in RequestId, Execute(i)
    PROVE  \/ at # "final" /\ UNCHANGED <<rows, result, file>>
           \/ Keeps(i) \/ Reports(i) \/ Merges(i) \/ Writes(i) \/ Fails(i) \/ Saves(i)
  <1> USE DEF IInv, CalmInv
  <1>0. /\ req # NoReq /\ req.id = i /\ cur \in Job /\ cur # NoJob
        /\ calls[i].job = cur /\ calls[i].op = req.op /\ calls[i].at \in Undone
    BY ExecutedForRun
  <1>1. at = "final" <=> calls[i].op = "finalize"
    BY <1>0 DEF Finishing
  <1>2. TypedCalls /\ InLine BY DEF Typed
  <1>3. CASE Checkpoint(i)
    <2>1. calls[i].op = "checkpoint" BY <1>2, <1>3, TakenCall DEF Checkpoint
    <2>2. at # "final" BY <1>1, <2>1
    <2>3. Unsaved(cur) /\ Safe(cur)
      BY <1>0, <2>2 DEF Unasked, Unsaved, Safe, Calm, Disturbed
    <2>4. 1..calls[i].batch - 1 \subseteq rows[cur] /\ calls[i].batch \in Batch
      BY <1>0, <1>2, <2>1, <2>3 DEF AllKept, HasCalls, Has, TypedCalls
    <2>5. /\ rows' = [rows EXCEPT ![cur] = @ \cup {calls[i].batch}]
          /\ UNCHANGED <<result, file>>
      BY <1>0, <1>3 DEF Checkpoint, jobs
    <2> QED BY <2>2, <2>4, <2>5 DEF Keeps
  <1>4. CASE Progress(i) \/ Chunk(i) \/ CompleteLost(i)
    <2>0. \/ Takes(i, {"tell_challenge", "tell_failure"}) \/ Takes(i, {"chunk"})
          \/ Takes(i, {"complete_challenge", "complete_failure"})
      BY <1>4 DEF Progress, Chunk, CompleteLost
    <2>1. calls[i].op # "finalize"
      BY <1>2, <2>0, TakenCall
    <2>2. UNCHANGED <<rows, result, file>>
      BY <1>4 DEF Progress, Chunk, CompleteLost, jobs, chk, stored
    <2> QED BY <1>1, <2>1, <2>2
  <1>5. CASE Complete(i)
    <2>1. calls[i].op # "finalize" BY <1>2, <1>5, TakenCall DEF Complete
    <2>2. /\ result' = [result EXCEPT ![cur] = "error"] \/ result' = [result EXCEPT ![cur] = "awaiting"]
          /\ UNCHANGED <<rows, file>>
      BY <1>0, <1>5 DEF Complete, Conclude, chk
    <2>3. \E r \in {"awaiting", "error"} : result' = [result EXCEPT ![cur] = r]
      BY <2>2, Zenon
    <2>4. at # "final" BY <1>1, <2>1
    <2> QED BY <2>2, <2>3, <2>4, Zenon DEF Reports
  <1>6. ASSUME calls[i].at \in {"waiting", "writing"}, calls[i].op = "finalize"
        PROVE  at = "final" /\ Unsaved(cur) /\ rows[cur] = Batch /\ Batch # {}
    <2>1. at = "final" BY <1>1, <1>6
    <2>2. Unsaved(cur) BY <1>0, <1>6, <2>1 DEF Finishing
    <2> QED BY <1>0, <2>1, <2>2, EverythingKept
  <1>7. CASE Merge(i) \/ MergeNothing(i)
    <2>0. Takes(i, {"finalize"})
      BY <1>7 DEF Merge, MergeNothing
    <2>1. calls[i].at = "waiting" /\ calls[i].op = "finalize"
      BY <1>2, <2>0, TakenCall
    <2>2. Merge(i) BY <1>0, <1>6, <1>7, <2>1 DEF MergeNothing
    <2>3. UNCHANGED <<rows, result, file>>
      BY <2>2 DEF Merge, jobs, chk, stored
    <2>4. calls'[i].at = "writing" /\ calls'[i].got = rows[cur]
      BY <1>0, <1>2, <2>2 DEF Merge, TypedCalls, CallType
    <2>5. at = "final" /\ rows[cur] = Batch BY <1>6, <2>1
    <2> QED BY <2>1, <2>3, <2>4, <2>5 DEF Merges
  <1>8. CASE Write(i)
    <2>1. calls[i].at = "writing" /\ calls[i].op = "finalize"
      BY <1>8 DEF Write, Written
    <2>2. at = "final" /\ rows[cur] = Batch BY <1>6, <2>1
    <2>3. calls[i].got = Batch BY <1>0, <2>1, <2>2 DEF Finishing
    <2>4. file' = [file EXCEPT ![cur] = Batch] /\ UNCHANGED <<rows, result>>
      BY <1>0, <1>8, <2>3 DEF Write, jobs, chk
    <2>5. calls'[i].at = "recording"
      BY <1>2, <1>8 DEF Write, TypedCalls, CallType
    <2> QED BY <2>1, <2>2, <2>4, <2>5 DEF Writes
  <1>9. CASE Record(i)
    <2>1. calls[i].at = "recording" /\ calls[i].op = "finalize"
      BY <1>9 DEF Record, Written
    <2>2. at = "final" BY <1>1, <2>1
    <2>3. file[cur] = Batch BY <1>0, <2>1, <2>2 DEF Finishing
    <2>4. /\ result' = [result EXCEPT ![cur] = "saved"] /\ rows' = [rows EXCEPT ![cur] = {}]
          /\ UNCHANGED file
      BY <1>0, <1>9 DEF Record, Conclude
    <2>5. calls'[i].at = "done" /\ calls'[i].ok
      BY <1>2, <1>9 DEF Record, Answer, TypedCalls, CallType
    <2> QED BY <2>1, <2>2, <2>3, <2>4, <2>5 DEF Saves
  <1>10. CASE WriteFails(i)
    <2>1. calls[i].at = "writing" /\ calls[i].op = "finalize"
      BY <1>10 DEF WriteFails, Written
    <2>2. at = "final" BY <1>1, <2>1
    <2>3. calls'[i].at = "done" /\ UNCHANGED <<rows, result, file>>
      BY <1>2, <1>10 DEF WriteFails, Answer, TypedCalls, CallType, jobs, chk, stored
    <2> QED BY <2>1, <2>2, <2>3 DEF Fails
  <1> QED BY <1>3, <1>4, <1>5, <1>7, <1>8, <1>9, <1>10 DEF Execute


\* A step that handles a frame executes nothing.
LEMMA HandleOnly ==
    ASSUME Typed, HandleStep
    PROVE  ~\E i \in RequestId : Execute(i)
  <1>1. up \in Seq(UpFrame) /\ up # <<>> /\ up' = Tail(up)
    BY DEF HandleStep, Typed, TypedWire
  <1>2. Len(up') = Len(up) - 1 /\ Len(up) \in Nat
    BY <1>1
  <1> QED BY <1>2, Executed

\* Only an execution touches what is kept, and it alone saves.
LEMMA OthersLeave ==
    ASSUME Typed, CalmStep, ~\E i \in RequestId : Execute(i)
    PROVE  /\ UNCHANGED <<rows, file>>
           /\ \/ UNCHANGED result
              \/ \E j \in Job : /\ HandleStep /\ Hears(Head(up)) /\ Tells(Head(up), j)
                                /\ \/ result' = [result EXCEPT ![j] = "none"]
                                   \/ result' = [result EXCEPT ![j] = "awaiting"]
  <1>1. CASE HandleStep
    <2> PICK m : m = Head(up) OBVIOUS
    <2>1. m \in UpFrame BY <1>1, TailRange DEF HandleStep, Typed, TypedWire
    <2>2. CASE Acknowledges(m)
      BY <2>2 DEF Acknowledges, Accepted, chk
    <2>3. CASE Admits(m) \/ Repeats(m)
      BY <2>3 DEF Admits, Repeats, jobs, chk, stored
    <2>4. CASE Hears(m)
      <3>1. m.job \in Job /\ Tells(m, m.job)
        BY <2>1, <2>4 DEF Hears, UpFrame, Asked, Request, Told, Tells
      <3>2. /\ UNCHANGED <<rows, file>>
            /\ \/ UNCHANGED result
               \/ result' = [result EXCEPT ![m.job] = "none"]
               \/ result' = [result EXCEPT ![m.job] = "awaiting"]
        BY <2>4 DEF Hears, Required, Resolved, jobs, chk, stored
      <3> QED BY <1>1, <2>4, <3>1, <3>2
    <2> QED BY <1>1, <2>2, <2>3, <2>4 DEF HandleStep, Handles
  <1>2. CASE \E j \in Job : Submit(j)
    BY <1>2 DEF Submit, chk
  <1>3. CASE Start \/ Fetch \/ Finalize \/ Challenged \/ Failed \/ Dispatch \/ Solve \/ Alarm
             \/ Resend \/ Connect \/ Drop \/ UNCHANGED vars
    BY <1>3 DEF Start, Fetch, Finalize, Challenged, Failed, Dispatch, Solve, Alarm, Resend, Connect,
                Drop, jobs, chk, stored, vars
  <1> QED BY <1>1, <1>2, <1>3 DEF CalmStep, HandleStep

\* What is not saved stays so, but for an execution when its run asked for the result.
LEMMA UnsavedStays ==
    ASSUME IInv, CalmInv, Calm, CalmStep, NEW j \in Job, Unsaved(j),
           ~Ends(j) \/ ~\E i \in RequestId : Execute(i)
    PROVE  Unsaved(j)'
  <1>0. result \in [Job -> Result] /\ file \in [Job -> SUBSET Batch]
    BY DEF IInv, Typed, TypedJobs, TypedKept
  <1>1. CASE ~\E i \in RequestId : Execute(i)
    <2>1. Typed BY DEF IInv
    <2> QED BY <1>0, <1>1, <2>1, OthersLeave DEF Unsaved
  <1>2. ASSUME NEW i \in RequestId, Execute(i), ~Ends(j) PROVE Unsaved(j)'
    <2>1. CASE UNCHANGED <<result, file>> BY <2>1 DEF Unsaved
    <2>2. CASE Reports(i)
      <3> PICK r \in {"awaiting", "error"} : result' = [result EXCEPT ![cur] = r]
        BY <2>2 DEF Reports
      <3>1. file' = file BY <2>2 DEF Reports
      <3> QED BY <1>0, <3>1 DEF Unsaved
    <2>3. CASE Writes(i) \/ Saves(i)
      <3>1. cur # j BY <1>2, <2>3 DEF Writes, Saves, Ends
      <3> QED BY <1>0, <2>3, <3>1 DEF Writes, Saves, Unsaved
    <2> QED BY <1>2, <2>1, <2>2, <2>3, ExecutedEffect DEF Keeps, Merges, Fails
  <1> QED BY <1>1, <1>2

\* When a run begins to ask for its result, and when it has it.
LEMMA EndsSteps ==
    ASSUME Typed, Marked, [Next]_vars, CalmStep, NEW j \in Job
    PROVE  /\ Ends(j)' => (Ends(j) /\ req' = req) \/ Finalize
           /\ Ends(j) => \/ Ends(j)' /\ req' = req
                         \/ Dispatch /\ Head(down).type = "reply" /\ Awaits(Head(down).id)
  <1> USE DEF Typed
  <1>1. CASE UNCHANGED runner
    BY <1>1 DEF runner, Ends
  <1>2. CASE Start
    BY <1>2, IngestAssumption DEF Start, Ends
  <1>3. CASE Fetch \/ Finalize \/ Challenged \/ Failed
    <2>1. at = "fetch" /\ (at' # "final" \/ Finalize)
      BY <1>3 DEF Fetch, Finalize, Challenged, Failed, Fail
    <2> QED BY <2>1 DEF Ends
  <1>4. CASE Dispatch
    <2>1. CASE UNCHANGED runner BY <1>1, <2>1
    <2>2. CASE /\ Head(down).type = "reply" /\ Awaits(Head(down).id) /\ Head(down).ok \in BOOLEAN
               /\ req # NoReq /\ Replied(Head(down).ok)
      <3>1. at' # "final" BY <2>2, RepliedCases DEF EndRun, Fail
      <3> QED BY <1>4, <2>2, <3>1 DEF Ends
    <2> QED BY <1>4, <2>1, <2>2, Dispatched
  <1>5. CASE UNCHANGED extension \/ Solve \/ Alarm
    BY <1>1, <1>5 DEF extension, Solve, Alarm
  <1> QED BY <1>1, <1>2, <1>3, <1>4, <1>5, ExtensionRests


\* Nothing is saved before it is asked for, step by step.
LEMMA UnaskedStep ==
    ASSUME IInv, CalmInv, Calm, CalmStep, [Next]_vars
    PROVE  Unasked'
  <1> USE DEF IInv, CalmInv
  <1> USE DEF Typed
  <1>1. ASSUME NEW j \in Job, Unsaved(j), ~Ends(j) PROVE Unsaved(j)'
    BY <1>1, UnsavedStays
  <1>2. ASSUME NEW j \in Job, j \notin seen \/ (\E k \in DOMAIN line : line[k].job = j)
        PROVE  Unsaved(j) /\ ~Ends(j)
    BY <1>2, IngestAssumption DEF Unasked, OneRun, Ends
  <1>3. ASSUME NEW j \in Job, j \notin seen' \/ (\E k \in DOMAIN line' : line'[k].job = j)
        PROVE  Unsaved(j)'
    <2>1. CASE j \notin seen \/ (\E k \in DOMAIN line : line[k].job = j)
      BY <1>1, <1>2, <2>1
    <2>2. CASE UNCHANGED backlog
      BY <1>3, <2>1, <2>2 DEF backlog
    <2>3. CASE Start
      BY <1>3, <2>1, <2>3, Started
    <2>4. ASSUME NEW x \in Job, NEW from \in Offset, NEW retry, Enqueue(x, from, retry),
                 retry /\ cur # x => Unsaved(x)
          PROVE  Unsaved(j)'
      <3>1. CASE /\ seen' = seen \cup {x} /\ cur # x
                 /\ retry \/ x \notin seen
                 /\ \A k \in DOMAIN line' : \/ k \in DOMAIN line /\ line'[k] = line[k]
                                            \/ k = Len(line) + 1 /\ line'[k].job = x
        <4>1. Unsaved(x) /\ ~Ends(x) BY <1>2, <2>4, <3>1 DEF Ends
        <4>2. CASE j = x BY <1>1, <4>1, <4>2
        <4>3. CASE j # x BY <1>3, <2>1, <3>1, <4>3
        <4> QED BY <4>2, <4>3
      <3> QED BY <2>2, <2>4, <3>1, Queued
    <2>5. CASE Dispatch
      <3>1. CASE /\ Head(down).type = "job" /\ Head(down).job \in Job /\ Head(down).from \in Offset
                 /\ Enqueue(Head(down).job, Head(down).from, Head(down).retry)
        <4> PICK x, from, retry : x = Head(down).job /\ from = Head(down).from /\ retry = Head(down).retry
          OBVIOUS
        <4>1. 1 \in DOMAIN down /\ Head(down) = down[1]
          BY <2>5 DEF Dispatch, TypedWire
        <4>2. retry => Renews(down[1], x) BY <3>1, <4>1 DEF Renews
        <4>3. retry /\ cur # x => Unsaved(x)
          BY <3>1, <4>1, <4>2 DEF OfferedBefore, Ends
        <4> QED BY <2>4, <3>1, <4>3
      <3> QED BY <2>2, <2>5, <3>1, Dispatched
    <2>6. CASE Solve
      <3> PICK from : from = local[info] OBVIOUS
      <3>1. info \in Job /\ from \in Offset /\ Enqueue(info, from, TRUE) /\ Unsaved(info)
        BY <2>6 DEF Solve, TypedRest, Shown
      <3> QED BY <2>4, <3>1
    <2>7. CASE Fetch \/ Finalize \/ Challenged \/ Failed \/ Alarm \/ UNCHANGED extension
      BY <2>2, <2>7 DEF Fetch, Finalize, Challenged, Failed, Alarm, extension
    <2> QED BY <2>2, <2>3, <2>5, <2>6, <2>7, ExtensionRests
  <1>4. ASSUME cur' # NoJob, at' # "final" PROVE Unsaved(cur)'
    <2> PICK j : j = cur' OBVIOUS
    <2>1. SUFFICES Unsaved(j)' OBVIOUS
    <2>2. j \in Job BY <1>4, RunSteps DEF TypedRun
    <2>3. CASE cur' = cur /\ at # "final"
      <3>1. Unsaved(j) /\ ~Ends(j) BY <1>4, <2>3 DEF Unasked, Ends
      <3> QED BY <1>1, <2>2, <3>1
    <2>4. CASE Start
      <3>1. Unsaved(j) /\ ~Ends(j) BY <1>2, <2>2, <2>4, Started
      <3> QED BY <1>1, <2>2, <3>1
    <2>5. CASE UNCHANGED runner
      BY <1>4, <2>3, <2>5 DEF runner
    <2>6. CASE Fetch \/ Finalize \/ Challenged \/ Failed
      BY <2>3, <2>6 DEF Fetch, Finalize, Challenged, Failed
    <2>7. CASE Dispatch
      <3>1. ASSUME Head(down).ok \in BOOLEAN, req # NoReq, Replied(Head(down).ok),
                   calls[req.id].at = "done", calls[req.id].ok = Head(down).ok
            PROVE  Unsaved(j)'
        <4>1. CASE at # "final"
          <5>1. cur' = cur \/ EndRun BY <3>1, RepliedCases
          <5> QED BY <1>4, <2>3, <4>1, <5>1 DEF EndRun
        <4>2. CASE at = "final"
          <5>1. EndRun \/ (~Head(down).ok /\ cur' = cur)
            BY <3>1, <4>2 DEF Replied
          <5>2. CASE ~Head(down).ok /\ cur' = cur
            <6>1. Unsaved(cur) BY <3>1, <4>2, <5>2 DEF Finishing
            <6>2. UNCHANGED <<result, file>> BY <2>7 DEF Dispatch, jobs, stored
            <6> QED BY <5>2, <6>1, <6>2 DEF Unsaved
          <5> QED BY <1>4, <5>1, <5>2 DEF EndRun
        <4> QED BY <4>1, <4>2
      <3>2. CASE /\ Head(down).type = "reply" /\ Awaits(Head(down).id)
                 /\ Head(down).ok \in BOOLEAN /\ req # NoReq /\ Replied(Head(down).ok)
        <4>1. Head(down) \in Range(down)
          BY <2>7, TailRange DEF Dispatch, TypedWire
        <4>2. calls[req.id].at = "done" /\ calls[req.id].ok = Head(down).ok
          BY <3>2, <4>1 DEF InHand, Awaits
        <4> QED BY <3>1, <3>2, <4>2
      <3> QED BY <2>5, <2>7, <3>2, Dispatched
    <2>8. CASE UNCHANGED extension \/ Solve \/ Alarm
      BY <2>5, <2>8 DEF extension, Solve, Alarm
    <2> QED BY <2>4, <2>5, <2>6, <2>7, <2>8, ExtensionRests
  <1>5. \A j \in Job : j \notin seen' \/ (\E k \in DOMAIN line' : line'[k].job = j)
                       => result'[j] # "saved" /\ file'[j] = {}
    BY <1>3 DEF Unsaved
  <1> QED BY <1>4, <1>5 DEF Unasked, Unsaved

LEMMA ShownStep ==
    ASSUME IInv, CalmInv, Calm, CalmStep, [Next]_vars
    PROVE  Shown'
  <1> USE DEF IInv, CalmInv
  <1> USE DEF Typed
  <1> SUFFICES ASSUME info' # NoJob PROVE Shown'
    BY DEF Shown
  <1> PICK j : j = info' OBVIOUS
  <1>1. ASSUME j \in Job, Unsaved(j), at # "final", at' \in {"idle", "tell", "chunk", "complete"}
        PROVE  Shown'
    <2>1. Unsaved(j)' BY <1>1, UnsavedStays DEF Ends
    <2> QED BY <1>1, <2>1 DEF Shown, Unsaved
  <1>2. CASE info' = info /\ at' \in {"idle", "tell", "chunk", "complete"}
    <2>1. j \in Job BY <1>2 DEF TypedRest
    <2> QED BY <1>1, <1>2, <2>1 DEF Shown
  <1>3. CASE UNCHANGED <<runner, info>>
    BY <1>2, <1>3 DEF Shown, runner
  <1>4. CASE Start
    BY <1>4 DEF Start
  <1>5. CASE Fetch \/ Finalize \/ Failed
    BY <1>5 DEF Fetch, Finalize, Failed, challenge, Shown
  <1>6. CASE Challenged
    <2>1. j = cur /\ at = "fetch" /\ at' = "tell" BY <1>6 DEF Challenged
    <2>2. cur # NoJob /\ cur \in Job BY <2>1 DEF TypedRun
    <2> QED BY <1>1, <2>1, <2>2 DEF Unasked
  <1>7. CASE Dispatch
    <2>1. info' = info BY <1>7 DEF Dispatch, challenge
    <2>2. CASE UNCHANGED runner BY <1>3, <2>1, <2>2
    <2>3. CASE Head(down).ok \in BOOLEAN /\ req # NoReq /\ Replied(Head(down).ok)
      <3>1. at \notin {"ack", "final"} BY <2>1 DEF Shown
      <3>2. at' \in {"idle", "chunk", "complete"} BY <2>3, <3>1, RepliedCases DEF EndRun
      <3> QED BY <1>2, <2>1, <3>2
    <2> QED BY <1>7, <2>2, <2>3, Dispatched
  <1>8. CASE UNCHANGED extension \/ Solve \/ Alarm
    BY <1>3, <1>8 DEF extension, challenge, Solve, Alarm
  <1>9. CASE UNCHANGED runner /\ info' = shown
    BY <1>3, <1>9 DEF TypedRest
  <1> QED BY <1>3, <1>4, <1>5, <1>6, <1>7, <1>8, <1>9, ExtensionRests

\* Where the finalize of a run stands, step by step.
LEMMA FinishingStep ==
    ASSUME IInv, CalmInv, Calm, CalmStep, [Next]_vars
    PROVE  Finishing'
  <1> USE DEF IInv, CalmInv
  <1> USE DEF Typed
  <1>0. (req = NoReq) = (at \in {"idle", "fetch"}) /\ (cur = NoJob) = (at = "idle")
    BY DEF TypedRun
  <1>1. ASSUME UNCHANGED <<file, req, at, pos, cur>>,
               at = "final" /\ Unsaved(cur) => result'[cur] # "saved",
               req # NoReq => calls'[req.id] = calls[req.id]
                              \/ (calls[req.id].at = "none" /\ calls'[req.id].at = "waiting")
        PROVE  Finishing'
    <2>1. at = "final" => req # NoReq BY <1>0
    <2> QED BY <1>1, <2>1 DEF Finishing, Unsaved
  <1>2. ASSUME at' # "final", req' = NoReq PROVE Finishing'
    BY <1>2 DEF Finishing
  <1>3. ASSUME at' # "final", NEW op \in Op, op # "finalize", cur \in Job, NEW b \in Offset,
               op = "checkpoint" => b \in Batch, NewRequest(op, cur, b)
        PROVE  Finishing'
    <2>1. req'.op = op BY <1>3, Requested
    <2> QED BY <1>3, <2>1 DEF Finishing
  <1>4. 0 \in Offset BY IngestAssumption DEF Offset
  <1>5. CASE HandleStep
    <2> PICK r : r = Head(up) OBVIOUS
    <2>1. UNCHANGED <<req, at, pos, cur>> BY <1>5 DEF HandleStep, extension, runner
    <2>2. req # NoReq => req.id \in RequestId /\ Awaits(req.id)
      BY DEF TypedRun, Asked, Request, Awaits
    <2>3. UNCHANGED file /\ (at = "final" /\ Unsaved(cur) => result'[cur] # "saved")
      <3>1. ~\E i \in RequestId : Execute(i) BY <1>5, HandleOnly
      <3>2. cur \in Job /\ Unsaved(cur) => Unsaved(cur)'
        <4> PICK j : j = cur OBVIOUS
        <4>1. j \in Job /\ Unsaved(j) => Unsaved(j)' BY <3>1, UnsavedStays
        <4> QED BY <2>1, <4>1
      <3>3. at = "final" => cur \in Job BY <1>0 DEF TypedRun
      <3>4. UNCHANGED file BY <3>1, OthersLeave
      <3> QED BY <2>1, <3>2, <3>3, <3>4 DEF Unsaved
    <2>4. CASE Acknowledges(r) \/ Hears(r)
      <3>1. calls' = calls
        BY <2>4 DEF Acknowledges, Accepted, Hears, Required, Resolved, pool
      <3> QED BY <1>1, <2>1, <2>3, <3>1
    <2>5. CASE Admits(r)
      <3>1. calls[r.id].at = "none"
        BY <2>5 DEF Admits
      <3>2. req # NoReq /\ req.id # r.id => calls'[req.id] = calls[req.id]
        BY <2>2, <2>5 DEF Admits, Kept
      <3>3. req # NoReq /\ req.id = r.id => calls'[req.id].at = "waiting"
        BY <2>2, <2>5 DEF Admits
      <3> QED BY <1>1, <2>1, <2>3, <3>1, <3>2, <3>3
    <2>6. CASE Repeats(r)
      BY <1>1, <2>1, <2>2, <2>3, <2>6 DEF Repeats, Kept
    <2> QED BY <1>5, <2>4, <2>5, <2>6 DEF HandleStep, Handles
  <1>6. ASSUME NEW i \in RequestId, Execute(i) PROVE Finishing'
    <2>1. UNCHANGED <<req, at, pos, cur>> BY <1>6, Executed DEF extension, runner
    <2>2. req # NoReq /\ req.id = i /\ cur \in Job BY <1>6, ExecutedForRun
    <2>3. CASE at # "final"
      BY <2>1, <2>2, <2>3 DEF Finishing
    <2>4. CASE Merges(i)
      BY <2>1, <2>2, <2>4 DEF Merges, Finishing, Unsaved
    <2>5. CASE Writes(i)
      BY <2>1, <2>2, <2>5 DEF Writes, Finishing, TypedKept
    <2>6. CASE Saves(i)
      BY <2>1, <2>2, <2>6 DEF Saves, Finishing
    <2>7. CASE Fails(i)
      BY <2>1, <2>2, <2>7 DEF Fails, Finishing, Unsaved
    <2> QED BY <1>6, <2>3, <2>4, <2>5, <2>6, <2>7, ExecutedEffect DEF Keeps, Reports
  <1>7. CASE Start
    <2>1. at' = "fetch" /\ req' = req /\ cur = NoJob BY <1>7 DEF Start
    <2> QED BY <1>0, <1>2, <2>1
  <1>8. CASE Fetch
    <2>1. at = "fetch" /\ pos < Batches /\ NewRequest("checkpoint", cur, pos + 1) /\ at' = "ack"
      BY <1>8 DEF Fetch, Ask
    <2>2. pos + 1 \in Batch /\ pos + 1 \in Offset
      BY <2>1, IngestAssumption DEF TypedRun, Batch, Offset
    <2>3. cur \in Job BY <2>1 DEF TypedRun
    <2> QED BY <1>3, <2>1, <2>2, <2>3 DEF Op
  <1>9. CASE Failed
    <2>1. at = "fetch" /\ NewRequest("tell_failure", cur, 0) /\ at' = "tell"
      BY <1>9 DEF Failed, Fail, Ask
    <2>2. cur \in Job BY <2>1 DEF TypedRun
    <2> QED BY <1>3, <1>4, <2>1, <2>2 DEF Op
  <1>10. CASE Finalize
    <2>1. /\ at = "fetch" /\ pos = Batches /\ NewRequest("finalize", cur, 0) /\ at' = "final"
          /\ UNCHANGED <<pos, cur>> /\ calls' = calls
      BY <1>10 DEF Finalize, Ask, pool
    <2>2. UNCHANGED <<result, file>> BY <1>10 DEF Finalize, jobs, stored
    <2>3. cur \in Job BY <2>1 DEF TypedRun
    <2>4. req'.op = "finalize" /\ req'.id \in FreshIds
      BY <1>4, <2>1, <2>3, Requested DEF Op
    <2>5. calls[req'.id].at = "none" BY <2>4 DEF FreshIds
    <2>6. Unsaved(cur) BY <1>0, <2>1 DEF Unasked
    <2>7. Unsaved(cur)' BY <2>1, <2>2, <2>6 DEF Unsaved
    <2> QED BY <2>1, <2>4, <2>5, <2>7 DEF Finishing
  <1>11. CASE Dispatch
    <2> PICK m : m = Head(down) OBVIOUS
    <2>1. m \in DownFrame /\ UNCHANGED <<calls, result, file>>
      BY <1>11, TailRange DEF Dispatch, TypedWire, pool, jobs, stored
    <2>2. CASE m.type = "reply" /\ Awaits(m.id) /\ Replied(m.ok)
      <3>1. m.ok \in BOOLEAN /\ req # NoReq
        BY <2>1, <2>2 DEF DownFrame, Offer, Reply, Awaits
      <3>2. CASE EndRun BY <1>2, <3>2 DEF EndRun
      <3>3. CASE at' = "fetch" /\ req' = NoReq BY <1>2, <3>3
      <3>4. ASSUME NEW op \in {"chunk", "complete_failure", "complete_challenge"},
                   NewRequest(op, cur, 0), at' \in {"chunk", "complete"}
            PROVE  Finishing'
        <4>1. op \in Op /\ op # "finalize" /\ op # "checkpoint" BY DEF Op
        <4>2. at' # "final" BY <3>4
        <4>3. cur \in Job BY <1>0, <3>1 DEF TypedRun
        <4> QED BY <1>3, <1>4, <3>4, <4>1, <4>2, <4>3
      <3>5. CASE Fail
        <4>1. NewRequest("tell_failure", cur, 0) /\ at' = "tell" BY <3>5 DEF Fail, Ask
        <4>2. cur \in Job BY <1>0, <3>1 DEF TypedRun
        <4> QED BY <1>3, <1>4, <4>1, <4>2 DEF Op
      <3> QED BY <2>2, <3>1, <3>2, <3>3, <3>4, <3>5, RepliedCases
    <2>3. CASE UNCHANGED runner
      BY <1>1, <2>1, <2>3 DEF runner, Unsaved
    <2> QED BY <1>11, <2>2, <2>3 DEF Dispatch
  <1>12. CASE Challenged
    <2>1. at = "fetch" /\ NewRequest("tell_challenge", cur, 0) /\ at' = "tell"
      BY <1>12 DEF Challenged
    <2>2. cur \in Job BY <2>1 DEF TypedRun
    <2> QED BY <1>3, <1>4, <2>1, <2>2 DEF Op
  <1>13. CASE (\E j \in Job : Submit(j)) \/ Solve \/ Alarm \/ Resend \/ Connect \/ Drop \/ UNCHANGED vars
    <2>1. UNCHANGED <<runner, calls, result, file>>
      BY <1>13 DEF Submit, Solve, Alarm, Resend, Connect, Drop, vars, extension, pool, jobs, stored
    <2> QED BY <1>1, <2>1 DEF runner, Unsaved
  <1> QED
    BY <1>5, <1>6, <1>7, <1>8, <1>9, <1>10, <1>11, <1>12, <1>13 DEF CalmStep, HandleStep

-----------------------------------------------------------------------------
(* What is said of a challenge is heard in time.                           *)

\* A request that a finalize makes has an id that nothing has.
LEMMA FinalizeAnew ==
    ASSUME Typed, Finalize
    PROVE  /\ req'.id \in FreshIds /\ UNCHANGED <<calls, down>>
           /\ \A k \in DOMAIN up : ~(up[k].type = "request" /\ up[k].id = req'.id)
           /\ \A k \in DOMAIN down : ~(down[k].type = "reply" /\ down[k].id = req'.id)
  <1>1. /\ NewRequest("finalize", cur, 0) /\ at = "fetch" /\ UNCHANGED <<calls, down>>
    BY DEF Finalize, Ask, pool
  <1>2. cur \in Job BY <1>1 DEF Typed, TypedRun
  <1>3. 0 \in Offset BY IngestAssumption DEF Offset
  <1>4. req'.id \in FreshIds BY <1>1, <1>2, <1>3, Requested DEF Op
  <1> QED BY <1>1, <1>4 DEF FreshIds, OnItsWay

\* The calls change when a frame is handled or a call executed.
LEMMA CallsRest ==
    ASSUME CalmStep, ~HandleStep, ~\E i \in RequestId : Execute(i)
    PROVE  calls' = calls
  BY DEF CalmStep, HandleStep, Submit, Start, Fetch, Finalize, Challenged, Failed, Dispatch, Solve,
         Alarm, Resend, Connect, Drop, vars, pool

\* The helper forgets no call that it begins, and begins only what it is asked.
LEMMA NotBegun ==
    ASSUME Typed, HandleStep, NEW i \in RequestId, calls[i].at = "none",
           ~(Head(up).type = "request" /\ Head(up).id = i)
    PROVE  calls'[i].at = "none"
  <1> PICK r : r = Head(up) OBVIOUS
  <1>1. Kept(i).at = "none" BY DEF Kept, NoCall
  <1>2. CASE Acknowledges(r) \/ Hears(r)
    BY <1>2 DEF Acknowledges, Accepted, Hears, Required, Resolved, pool
  <1>3. CASE Admits(r)
    <2>1. r.id # i BY <1>3 DEF Admits
    <2>2. calls'[i] = Kept(i) BY <1>3, <2>1 DEF Admits
    <2> QED BY <1>1, <2>2
  <1>4. CASE Repeats(r)
    <2>1. calls'[i] = Kept(i) BY <1>4 DEF Repeats
    <2> QED BY <1>1, <2>1
  <1> QED BY <1>2, <1>3, <1>4 DEF HandleStep, Handles

LEMMA ToldBeforeStep ==
    ASSUME IInv, CalmInv, Calm, CalmStep, [Next]_vars
    PROVE  ToldBefore'
  <1> USE DEF IInv, CalmInv
  <1> USE DEF Typed
  <1> SUFFICES ASSUME NEW k \in DOMAIN up', NEW j \in Job, Tells(up'[k], j)
               PROVE  /\ Unsaved(j)'
                      /\ Ends(j)' => /\ calls'[req'.id].at = "none"
                                     /\ \A l \in 1..k - 1 :
                                           ~(up'[l].type = "request" /\ up'[l].id = req'.id)
    BY DEF ToldBefore, Tells, Ends, Unsaved
  <1>0. req # NoReq => req.id \in RequestId
    BY DEF TypedRun, Asked, Request
  <1>1. at = "final" => req # NoReq
    BY DEF TypedRun
  <1>2. CASE WasUp(k)
    <2>1. k \in DOMAIN up /\ Tells(up[k], j) /\ \A l \in 1..k - 1 : l \in DOMAIN up /\ up'[l] = up[l]
      <3>1. up \in Seq(UpFrame) BY DEF TypedWire
      <3> QED BY <1>2, <3>1 DEF WasUp
    <2>2. /\ Unsaved(j)
          /\ Ends(j) => /\ calls[req.id].at = "none"
                        /\ \A l \in 1..k - 1 : ~(up[l].type = "request" /\ up[l].id = req.id)
      BY <2>1 DEF ToldBefore
    <2>3. Ends(j) => ~\E i \in RequestId : Execute(i)
      BY <2>2, ExecutedForRun DEF Undone
    <2>4. Unsaved(j)' BY <2>2, <2>3, UnsavedStays
    <2>5. CASE Ends(j)' /\ Finalize
      BY <2>1, <2>4, <2>5, FinalizeAnew DEF FreshIds
    <2>6. CASE Ends(j) /\ req' = req
      <3>1. calls'[req.id].at = "none"
        <4>1. CASE HandleStep
          <5>1. up \in Seq(UpFrame) /\ up # <<>> /\ up' = Tail(up)
            BY <4>1 DEF HandleStep, TypedWire
          <5> PICK m : m = up[1] OBVIOUS
          <5>2. Head(up) = m /\ k >= 1 BY <2>1, <5>1
          <5>3. ~(m.type = "request" /\ m.id = req.id)
            <6>1. CASE k = 1 BY <2>1, <6>1 DEF Tells
            <6>2. CASE k > 1
              <7>1. 1 \in 1..k - 1 BY <2>1, <5>1, <6>2
              <7> QED BY <2>2, <2>6, <7>1
            <6> QED BY <2>1, <5>1, <5>2, <6>1, <6>2
          <5> QED BY <1>0, <1>1, <2>2, <2>6, <4>1, <5>2, <5>3, NotBegun DEF Ends
        <4>2. CASE ~HandleStep
          <5>1. calls' = calls BY <2>3, <2>6, <4>2, CallsRest
          <5> QED BY <2>2, <2>6, <5>1
        <4> QED BY <4>1, <4>2
      <3> QED BY <2>1, <2>2, <2>4, <2>6, <3>1
    <2> QED BY <2>4, <2>5, <2>6, EndsSteps
  <1>3. CASE HandleStep
    <2>1. up \in Seq(UpFrame) /\ up # <<>> /\ up' = Tail(up)
      BY <1>3 DEF HandleStep, TypedWire
    <2>2. /\ k + 1 \in DOMAIN up /\ up'[k] = up[k + 1] /\ Head(up) = up[1]
          /\ k \in Nat /\ 1 \in 1..(k + 1) - 1
          /\ \A l \in 1..k - 1 : l + 1 \in 1..(k + 1) - 1 /\ up'[l] = up[l + 1]
      BY <2>1, Shortened
    <2> PICK n : n = k + 1 OBVIOUS
    <2>3. /\ Unsaved(j)
          /\ Ends(j) => /\ calls[req.id].at = "none"
                        /\ \A l \in 1..n - 1 : ~(up[l].type = "request" /\ up[l].id = req.id)
      BY <2>2 DEF ToldBefore
    <2>4. Unsaved(j)' BY <1>3, <2>3, UnsavedStays, HandleOnly
    <2>5. ASSUME Ends(j)'
          PROVE  /\ calls'[req'.id].at = "none"
                 /\ \A l \in 1..k - 1 : ~(up'[l].type = "request" /\ up'[l].id = req'.id)
      <3>1. Ends(j) /\ req' = req BY <1>3, <2>5 DEF HandleStep, extension, runner, Ends
      <3>2. ~(Head(up).type = "request" /\ Head(up).id = req.id)
        BY <2>2, <2>3, <3>1
      <3>3. calls'[req.id].at = "none"
        BY <1>0, <1>1, <1>3, <2>3, <3>1, <3>2, NotBegun DEF Ends
      <3> QED BY <2>2, <2>3, <3>1, <3>3
    <2> QED BY <2>4, <2>5
  <1>4. ASSUME Unsaved(j), ~Ends(j), at' # "final"
        PROVE  Unsaved(j)' /\ ~Ends(j)'
    BY <1>4, UnsavedStays DEF Ends
  <1>5. CASE Challenged /\ j = cur
    <2>1. at = "fetch" /\ at' = "tell" BY <1>5 DEF Challenged
    <2>2. Unsaved(j) BY <1>5, <2>1 DEF Unasked, TypedRun
    <2> QED BY <1>4, <2>1, <2>2 DEF Ends
  <1>6. CASE Solve /\ j = info
    <2>1. at' = at BY <1>6 DEF Solve, runner
    <2>2. Unsaved(j) /\ at # "final" BY <1>6 DEF Shown, Solve
    <2> QED BY <1>4, <2>1, <2>2 DEF Ends
  <1> QED BY <1>2, <1>3, <1>5, <1>6, TellsSteps

LEMMA OfferedBeforeStep ==
    ASSUME IInv, CalmInv, Calm, CalmStep, [Next]_vars
    PROVE  OfferedBefore'
  <1> USE DEF IInv, CalmInv
  <1> USE DEF Typed
  <1> SUFFICES ASSUME NEW k \in DOMAIN down', NEW j \in Job, Renews(down'[k], j)
               PROVE  /\ Ends(j)' => \A l \in 1..k - 1 :
                                        ~(down'[l].type = "reply" /\ down'[l].id = req'.id)
                      /\ ~Ends(j)' => Unsaved(j)'
    BY DEF OfferedBefore, Renews, Ends, Unsaved
  <1>0. down \in Seq(DownFrame) BY DEF TypedWire
  <1>1. CASE WasDown(k) /\ ~Dispatch
    <2>1. k \in DOMAIN down /\ Renews(down[k], j)
          /\ \A l \in 1..k - 1 : l \in DOMAIN down /\ down'[l] = down[l]
      BY <1>0, <1>1 DEF WasDown
    <2>2. /\ Ends(j) => \A l \in 1..k - 1 : ~(down[l].type = "reply" /\ down[l].id = req.id)
          /\ ~Ends(j) => Unsaved(j)
      BY <2>1 DEF OfferedBefore
    <2>3. CASE Ends(j)' /\ Finalize
      BY <2>1, <2>3, FinalizeAnew
    <2>4. CASE Ends(j)' /\ Ends(j) /\ req' = req
      BY <2>1, <2>2, <2>4
    <2>5. CASE ~Ends(j)'
      <3>1. ~Ends(j) BY <1>1, <2>5, EndsSteps
      <3> QED BY <2>2, <2>5, <3>1, UnsavedStays
    <2> QED BY <2>3, <2>4, <2>5, EndsSteps
  <1>2. CASE Dispatch
    <2>1. down # <<>> /\ down' = Tail(down) /\ UNCHANGED <<result, file>>
      BY <1>2 DEF Dispatch, jobs, stored
    <2>2. /\ k + 1 \in DOMAIN down /\ down'[k] = down[k + 1] /\ Head(down) = down[1]
          /\ k \in Nat /\ 1 \in 1..(k + 1) - 1 /\ 1 \in DOMAIN down
          /\ \A l \in 1..k - 1 : l + 1 \in 1..(k + 1) - 1 /\ down'[l] = down[l + 1]
      BY <1>0, <2>1, Shortened
    <2> PICK n : n = k + 1 OBVIOUS
    <2>3. /\ Ends(j) => \A l \in 1..n - 1 : ~(down[l].type = "reply" /\ down[l].id = req.id)
          /\ ~Ends(j) => Unsaved(j)
      BY <2>2 DEF OfferedBefore
    <2>4. \A l \in 1..k - 1 : l + 1 \in DOMAIN down
      BY <1>0, <2>2
    <2>5. CASE Ends(j)' /\ Finalize
      BY <2>2, <2>4, <2>5, FinalizeAnew
    <2>6. CASE Ends(j)' /\ Ends(j) /\ req' = req
      BY <2>2, <2>3, <2>6
    <2>7. CASE ~Ends(j)'
      <3>1. ~Ends(j)
        <4>1. ~(Head(down).type = "reply" /\ Awaits(Head(down).id)) \/ ~Ends(j)
          BY <2>2, <2>3 DEF Awaits
        <4> QED BY <2>7, <4>1, EndsSteps
      <3>2. Unsaved(j)' BY <2>1, <2>3, <3>1 DEF Unsaved
      <3> QED BY <2>7, <3>2
    <2> QED BY <2>5, <2>6, <2>7, EndsSteps
  <1>3. CASE HandleStep /\ Hears(Head(up)) /\ Tells(Head(up), j)
    <2>1. up \in Seq(UpFrame) /\ up # <<>> BY <1>3 DEF HandleStep, TypedWire
    <2>2. 1 \in DOMAIN up /\ Head(up) = up[1] BY <2>1
    <2>3. Unsaved(j) /\ (Ends(j) => calls[req.id].at = "none")
      BY <1>3, <2>2 DEF ToldBefore
    <2>4. Unsaved(j)' BY <1>3, <2>3, UnsavedStays, HandleOnly
    <2>5. ASSUME Ends(j)', NEW l \in 1..k - 1
          PROVE  ~(down'[l].type = "reply" /\ down'[l].id = req'.id)
      <3>1. /\ Ends(j) /\ req' = req /\ req # NoReq /\ calls' = calls
        BY <1>3, <2>5 DEF HandleStep, extension, runner, Ends, TypedRun, Hears, Required,
                          Resolved, pool
      <3>2. InHand' BY InHandStep
      <3>3. down'[l] \in Range(down')
        <4>1. down' \in Seq(DownFrame) BY DownSteps
        <4> QED BY <4>1 DEF Range
      <3> QED BY <2>3, <3>1, <3>2, <3>3 DEF InHand
    <2> QED BY <2>4, <2>5
  <1> QED BY <1>1, <1>2, <1>3, RenewsSteps

-----------------------------------------------------------------------------
(* The promise is kept.                                                    *)

LEMMA CalmInit ==
    ASSUME Init
    PROVE  IInv /\ CalmInv
  <1> USE DEF Init
  <1>1. Range(<<>>) = {} BY DEF Range
  <1>2. Quiet BY <1>1 DEF Quiet, Blank
  <1>8. Early /\ Marked BY <1>1 DEF Early, Marked, Blank
  <1>3. OneRun BY DEF OneRun
  <1>4. InHand BY <1>1 DEF InHand, NoCall
  <1>5. Unasked BY DEF Unasked, Unsaved, Blank
  <1>6. Finishing /\ Shown BY DEF Finishing, Shown
  <1>7. ToldBefore /\ OfferedBefore BY DEF ToldBefore, OfferedBefore
  <1> QED BY <1>2, <1>8, <1>3, <1>4, <1>5, <1>6, <1>7, InvInit DEF CalmInv

\* The invariant: of every behaviour, and of one that is calm.
PInv == IInv /\ (Calm => CalmInv)

LEMMA CalmStays ==
    ASSUME PInv, [Next]_vars
    PROVE  PInv'
  <1>1. IInv'
    BY TypedStep, AgreeStep, WrittenStep, KeptStep DEF PInv, IInv
  <1>2. ASSUME Calm' PROVE CalmInv'
    <2>1. Calm BY <1>2, StaysCalm DEF PInv, IInv
    <2>2. CalmInv /\ CalmStep BY <1>2, <2>1, CalmSteps DEF PInv, IInv, CalmInv
    <2> QED
      BY <1>2, <2>1, <2>2, QuietStep, EarlyStep, MarkedStep, OneRunStep, InHandStep,
         UnaskedStep, ShownStep, FinishingStep, ToldBeforeStep, OfferedBeforeStep
         DEF PInv, IInv, CalmInv
  <1> QED BY <1>1, <1>2 DEF PInv

Calmly == INSTANCE ReviewJob WITH kept <- rows, disturbed <- ~Calm

\* A calm step keeps, changes, writes or saves one job, or touches none.
LEMMA CalmStepKeepsPromise ==
    ASSUME PInv, [Next]_vars, Calm'
    PROVE  \/ UNCHANGED <<rows, result, file>>
           \/ \E j \in Job : Calmly!Keep(j) \/ Calmly!Change(j) \/ Calmly!Write(j) \/ Calmly!Save(j)
  <1>1. Calm /\ IInv /\ CalmInv /\ CalmStep
    BY StaysCalm, CalmSteps DEF PInv, IInv, CalmInv
  <1> USE DEF IInv, CalmInv
  <1>2. CASE ~\E i \in RequestId : Execute(i)
    <2>1. CASE UNCHANGED <<rows, result, file>> BY <2>1
    <2>2. ASSUME NEW j \in Job, HandleStep, Tells(Head(up), j), UNCHANGED <<rows, file>>,
                 \/ result' = [result EXCEPT ![j] = "none"]
                 \/ result' = [result EXCEPT ![j] = "awaiting"]
          PROVE  Calmly!Change(j)
      <3>1. 1 \in DOMAIN up /\ Head(up) = up[1] BY <2>2 DEF HandleStep, Typed, TypedWire
      <3>2. result[j] # "saved" BY <1>1, <2>2, <3>1 DEF ToldBefore, Unsaved
      <3>3. \E r \in {"none", "awaiting", "error"} : result' = [result EXCEPT ![j] = r]
        BY <2>2, Zenon
      <3> QED BY <2>2, <3>2, <3>3, Zenon DEF Calmly!Change
    <2>3. Typed BY <1>1
    <2> QED BY <1>1, <1>2, <2>1, <2>2, <2>3, OthersLeave
  <1>3. ASSUME NEW i \in RequestId, Execute(i)
        PROVE  \/ UNCHANGED <<rows, result, file>>
               \/ Calmly!Keep(cur) \/ Calmly!Change(cur) \/ Calmly!Write(cur) \/ Calmly!Save(cur)
    <2>1. cur \in Job /\ cur # NoJob /\ req # NoReq /\ req.id = i
      BY <1>1, <1>3, ExecutedForRun
    <2>2. at # "final" => Unsaved(cur) BY <1>1, <2>1 DEF Unasked
    <2>3. CASE Keeps(i)
      <3>1. result[cur] # "saved" BY <2>2, <2>3 DEF Keeps, Unsaved
      <3> QED BY <2>3, <3>1 DEF Keeps, Calmly!Keep, Batch
    <2>4. CASE Reports(i)
      <3>1. result[cur] # "saved" BY <2>2, <2>4 DEF Reports, Unsaved
      <3>2. \E r \in {"none", "awaiting", "error"} : result' = [result EXCEPT ![cur] = r]
        BY <2>4, Zenon DEF Reports
      <3>3. UNCHANGED <<rows, file>> BY <2>4 DEF Reports
      <3> QED BY <3>1, <3>2, <3>3, Zenon DEF Calmly!Change
    <2>5. CASE Writes(i)
      <3>1. Unsaved(cur) BY <1>1, <2>1, <2>5 DEF Writes, Finishing
      <3> QED BY <2>5, <3>1 DEF Writes, Unsaved, Calmly!Write, Batch
    <2>6. CASE Saves(i)
      BY <2>6 DEF Saves, Calmly!Save, Batch
    <2> QED BY <1>1, <1>3, <2>3, <2>4, <2>5, <2>6, ExecutedEffect DEF Merges, Fails
  <1>4. \A i \in RequestId : Execute(i) => cur \in Job
    BY <1>1, ExecutedForRun
  <1> QED BY <1>2, <1>3, <1>4

\* As long as nothing is restarted, timed out or retried, no answer has expired, and no
\* socket is lost in a behaviour with a challenge, the jobs keep the promise of
\* ReviewJob, however many jobs, challenges, repeated requests and failing pages there
\* are, or, without a challenge, lost sockets.
THEOREM CalmImplementsReviewJob == Spec => Calmly!Spec
  <1>1. Init => PInv /\ Calmly!Init
    <2> SUFFICES ASSUME Init PROVE PInv /\ Calmly!Init OBVIOUS
    <2>1. PInv BY CalmInit DEF PInv
    <2>2. Calm BY DEF Init, Calm, Disturbed, Fault
    <2>3. (~Calm) = FALSE BY <2>2, Zenon
    <2>4. rows = [j \in Job |-> {}] /\ file = [j \in Job |-> {}] /\ result = [j \in Job |-> "none"]
      BY DEF Init, Blank
    <2> QED BY <2>1, <2>3, <2>4, Zenon DEF Calmly!Init
  <1>2. PInv /\ [Next]_vars => PInv' BY CalmStays
  <1>3. PInv /\ [Next]_vars => [Calmly!Next]_(Calmly!vars)
    <2> SUFFICES ASSUME PInv, [Next]_vars PROVE Calmly!Next \/ UNCHANGED Calmly!vars
      BY Zenon
    <2>1. CASE ~Calm'
      BY <2>1, Zenon DEF Calmly!Next
    <2>2. CASE Calm'
      <3>1. Calm BY <2>2, StaysCalm DEF PInv, IInv
      <3>2. (~Calm)' = (~Calm) BY <2>2, <3>1, Zenon
      <3>3. CASE UNCHANGED <<rows, result, file>>
        BY <3>2, <3>3, Zenon DEF Calmly!vars
      <3>4. CASE \E j \in Job : Calmly!Keep(j) \/ Calmly!Change(j) \/ Calmly!Write(j) \/ Calmly!Save(j)
        BY <3>2, <3>4, Zenon DEF Calmly!Next
      <3> QED BY <2>2, <3>3, <3>4, CalmStepKeepsPromise
    <2> QED BY <2>1, <2>2
  <1> QED BY <1>1, <1>2, <1>3, PTL DEF Spec, Calmly!Spec

\* The property of the runs, where the shop never wants a challenge solved or the
\* socket is never lost.
THEOREM JobSpecCorrect ==
    ASSUME NEW f \in {"challenge", "drop"}, \A n \in 0..Cardinality(Job) : Most[n][f] = 0
    PROVE  Spec => JobSpec
  <1> DEFINE CInv == PInv /\ count[f] = 0
  <1>1. Init => CInv /\ Promise!Init
    <2> SUFFICES ASSUME Init PROVE CInv /\ Promise!Init OBVIOUS
    <2>1. CInv BY CalmInit DEF PInv, Init, Fault
    <2>2. ~Disturbed BY DEF Init, Disturbed, Fault
    <2>3. Disturbed = FALSE BY <2>2, Zenon DEF Disturbed
    <2>4. rows = [j \in Job |-> {}] /\ file = [j \in Job |-> {}] /\ result = [j \in Job |-> "none"]
      BY DEF Init, Blank
    <2> QED BY <2>1, <2>3, <2>4, Zenon DEF Promise!Init
  <1>2. CInv /\ [Next]_vars => CInv'
    <2> SUFFICES ASSUME CInv, [Next]_vars PROVE CInv' OBVIOUS
    <2>1. PInv' BY CalmStays
    <2>2. ~Happens(f)
      <3> PICK n : n = Cardinality(known) OBVIOUS
      <3>1. Happens(f) => count[f] < Most[n][f]
        BY Zenon DEF Happens
      <3>2. n \in 0..Cardinality(Job)
        <4>1. IsFiniteSet(Job) /\ known \subseteq Job
          BY IngestAssumption DEF PInv, IInv, Typed, TypedJobs
        <4>2. IsFiniteSet(known) /\ n \in Nat /\ Cardinality(Job) \in Nat /\ n <= Cardinality(Job)
          BY <4>1, FS_Subset, FS_CardinalityType
        <4> QED BY <4>2
      <3> QED BY <3>1, <3>2
    <2>3. UNCHANGED count \/ \E g \in Fault : Happens(g)
      BY CountGrows DEF PInv, IInv
    <2>4. count'[f] = 0
      BY <2>2, <2>3, HappensCounts DEF PInv, IInv, Typed, TypedRest, Fault
    <2> QED BY <2>1, <2>4
  <1>3. CInv /\ CInv' /\ [Next]_vars => [Promise!Next]_(Promise!vars)
    <2> SUFFICES ASSUME CInv, CInv', [Next]_vars PROVE Promise!Next \/ UNCHANGED Promise!vars
      BY Zenon
    <2>1. CASE Disturbed'
      BY <2>1, Zenon DEF Promise!Next
    <2>2. CASE ~Disturbed'
      <3>1. Calm' BY <2>2 DEF Calm
      <3>2. ~Disturbed BY <3>1, StaysCalm DEF PInv, IInv, Calm
      <3>3. Disturbed' = Disturbed BY <2>2, <3>2, Zenon DEF Disturbed
      <3>4. CASE UNCHANGED <<rows, result, file>>
        BY <3>3, <3>4, Zenon DEF Promise!vars
      <3>5. ASSUME NEW j \in Job, Calmly!Keep(j) \/ Calmly!Change(j) \/ Calmly!Write(j) \/ Calmly!Save(j)
            PROVE  Promise!Keep(j) \/ Promise!Change(j) \/ Promise!Write(j) \/ Promise!Save(j)
        BY <3>5, Zenon DEF Calmly!Keep, Calmly!Change, Calmly!Write, Calmly!Save,
           Promise!Keep, Promise!Change, Promise!Write, Promise!Save
      <3>6. CASE \E j \in Job : Calmly!Keep(j) \/ Calmly!Change(j) \/ Calmly!Write(j) \/ Calmly!Save(j)
        BY <3>3, <3>5, <3>6, Zenon DEF Promise!Next
      <3> QED BY <3>1, <3>4, <3>6, CalmStepKeepsPromise
    <2> QED BY <2>1, <2>2
  <1> QED BY <1>1, <1>2, <1>3, PTL DEF Spec, JobSpec, Promise!Spec
=============================================================================
