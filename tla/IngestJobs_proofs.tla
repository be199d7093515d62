------------------------- MODULE IngestJobs_proofs -------------------------
(***************************************************************************)
(* Theorems about IngestJobs, for every number of jobs, batches, threads   *)
(* and faults: types, and that what the extension takes as kept is at the  *)
(* helper.                                                                 *)
(***************************************************************************)
EXTENDS IngestJobs, FiniteSetTheorems, TLAPS

-----------------------------------------------------------------------------
(* The inductive invariant.                                                *)

Told == [type : {"accepted", "required"}, job : Job]
        \cup [type : {"resolved"}, job : Job, cycle : Nat]
Asked == {r \in Request : r.op = "checkpoint" => r.batch \in Batch}
UpFrame == Asked \cup Told

Offer == [type : {"job"}, job : Job, retry : BOOLEAN, from : Offset]
Reply == [type : {"reply"}, id : RequestId, ok : BOOLEAN]
DownFrame == Offer \cup Reply \cup [type : {"reload"}]

TypedJobs ==
    /\ known \subseteq Job /\ queue \subseteq known /\ inflight \subseteq known
    /\ hint \in [Job -> Offset] /\ again \in [Job -> BOOLEAN] /\ result \in [Job -> Result]
    /\ disk \in [known : SUBSET Job, hint : [Job -> Offset], again : [Job -> BOOLEAN],
                 result : [Job -> Result]]

TypedKept ==
    /\ next \in [Job -> Offset] /\ rows \in [Job -> SUBSET Batch]
    /\ file \in [Job -> SUBSET Batch] /\ uploads \subseteq Job

TypedCalls ==
    /\ calls \in [RequestId -> CallType]
    /\ \A i \in RequestId :
          /\ calls[i].at # "none" => calls[i].op \in Op /\ calls[i].job \in Job
          /\ calls[i].op = "checkpoint" => calls[i].batch \in Batch

InLine ==
    /\ order \in Seq(RequestId)
    /\ \A k, l \in DOMAIN order : order[k] = order[l] => k = l
    /\ \A k \in DOMAIN order : calls[order[k]].at = "waiting"

AtWork == IsFiniteSet(Writing) /\ Cardinality(Writing) <= Workers

TypedWire ==
    /\ linked \in BOOLEAN /\ up \in Seq(UpFrame) /\ down \in Seq(DownFrame)
    /\ (~linked => up = <<>> /\ down = <<>>)

TypedRun ==
    /\ cur \in Job \cup {NoJob} /\ pos \in Offset
    /\ at \in {"idle", "fetch", "ack", "final", "tell", "chunk", "complete"}
    /\ kind \in {"none", "challenge", "failure"}
    /\ req \in Asked \cup {NoReq}
    /\ (cur = NoJob) = (at = "idle") /\ (req = NoReq) = (at \in {"idle", "fetch"})

TypedRest ==
    /\ seen \subseteq Job /\ line \in Seq([job : Job, from : Offset])
    /\ local \in [Job -> Offset] /\ cycle \in [Job -> Nat]
    /\ info \in Job \cup {NoJob} /\ shown \in {info, NoJob}
    /\ watching \in BOOLEAN /\ (watching => shown # NoJob)
    /\ forgot \subseteq Job /\ count \in [Fault -> Nat]

\* What is known of a request is what the run asked.
Agree ==
    /\ req # NoReq => req.job = cur /\ (at = "ack" => req.op = "checkpoint")
    /\ req # NoReq => \A m \in Range(up) : m.type = "request" /\ m.id = req.id => m = req
    /\ req # NoReq /\ calls[req.id].at # "none" =>
          /\ calls[req.id].op = req.op /\ calls[req.id].job = req.job
          /\ calls[req.id].batch = req.batch

\* A file that is about to be written, or was, is not empty.
Written ==
    \A i \in RequestId :
        /\ calls[i].at \in {"writing", "recording"} => calls[i].op = "finalize"
        /\ calls[i].at = "writing" => calls[i].got # {}
        /\ calls[i].at = "recording" => file[calls[i].job] # {}

\* The first p batches of the job are at the helper.
Has(j, p) == 1..p \subseteq rows[j]

\* Until a restart of the helper or a result, this holds of every position.
Safe(j) == count["helper"] = 0 /\ file[j] = {}

\* Positions that are kept: fields, items in line and offers on their way.
HasFields(j) ==
    /\ Has(j, hint[j]) /\ Has(j, next[j]) /\ Has(j, local[j]) /\ (cur = j => Has(j, pos))
HasLine(j) == \A item \in Range(line) : item.job = j => Has(j, item.from)
HasOffers(j) == \A m \in Range(down) : m.type = "job" /\ m.job = j => Has(j, m.from)

\* A checkpoint is asked for when the batches before it are kept ...
HasAsked(j) ==
    /\ req # NoReq /\ req.op = "checkpoint" /\ req.job = j => Has(j, req.batch - 1)
    /\ \A m \in Range(up) :
          m.type = "request" /\ m.op = "checkpoint" /\ m.job = j => Has(j, m.batch - 1)

\* ... and answered when it is kept too.
HasCalls(j) ==
    \A i \in RequestId : calls[i].op = "checkpoint" /\ calls[i].job = j =>
        /\ Has(j, calls[i].batch - 1)
        /\ calls[i].at = "done" /\ calls[i].ok => Has(j, calls[i].batch)
HasReplies(j) ==
    req # NoReq /\ req.op = "checkpoint" /\ req.job = j =>
        \A m \in Range(down) : m.type = "reply" /\ m.id = req.id /\ m.ok => Has(j, req.batch)

AllKept ==
    \A j \in Job : Safe(j) =>
        /\ HasFields(j) /\ HasLine(j) /\ HasOffers(j)
        /\ HasAsked(j) /\ HasCalls(j) /\ HasReplies(j)

Typed ==
    /\ TypedJobs /\ TypedKept /\ TypedCalls /\ InLine /\ AtWork
    /\ TypedWire /\ TypedRun /\ TypedRest

IInv == Typed /\ Agree /\ Written /\ AllKept

-----------------------------------------------------------------------------
(* Sequences and what is in them.                                          *)

\* The frames of a sequence that lost its first, or was extended (ToHelper, ToExtension).
LEMMA TailRange ==
    ASSUME NEW S, NEW s \in Seq(S), s # <<>>
    PROVE  /\ Tail(s) \in Seq(S) /\ Range(Tail(s)) \subseteq Range(s)
           /\ Head(s) \in Range(s) /\ Range(s) \subseteq S
  <1>1. Len(Tail(s)) = Len(s) - 1 /\ \A k \in 1..Len(Tail(s)) : Tail(s)[k] = s[k + 1]
    OBVIOUS
  <1> QED BY <1>1 DEF Range

LEMMA ConcatRange ==
    ASSUME NEW S, NEW s \in Seq(S), NEW t \in Seq(S)
    PROVE  s \o t \in Seq(S) /\ Range(s \o t) \subseteq Range(s) \cup Range(t)
  <1>1. /\ Len(s \o t) = Len(s) + Len(t)
        /\ \A k \in 1..Len(s \o t) : (s \o t)[k] = IF k <= Len(s) THEN s[k] ELSE t[k - Len(s)]
    OBVIOUS
  <1> QED BY <1>1 DEF Range

LEMMA AppendRange ==
    ASSUME NEW S, NEW s \in Seq(S), NEW e \in S
    PROVE  Append(s, e) \in Seq(S) /\ Range(Append(s, e)) \subseteq Range(s) \cup {e}
  <1>1. Len(Append(s, e)) = Len(s) + 1
        /\ \A k \in 1..Len(Append(s, e)) : Append(s, e)[k] = IF k <= Len(s) THEN s[k] ELSE e
    OBVIOUS
  <1> QED BY <1>1 DEF Range

LEMMA OneRange ==
    ASSUME NEW S, NEW a \in S
    PROVE  <<a>> \in Seq(S) /\ Range(<<a>>) = {a} /\ <<>> \in Seq(S) /\ Range(<<>>) = {}
  BY DEF Range

LEMMA TwoRange ==
    ASSUME NEW S, NEW a \in S, NEW b \in S
    PROVE  <<a, b>> \in Seq(S) /\ Range(<<a, b>>) = {a, b}
  BY DEF Range

\* The frames of jobs that are offered anew when the socket opens (Connect).
LEMMA SetToSeqRange ==
    ASSUME NEW S, IsFiniteSet(S)
    PROVE  SetToSeq(S) \in Seq(S) /\ Range(SetToSeq(S)) \subseteq S
  <1>1. Cardinality(S) \in Nat /\ ExistsBijection(1..Cardinality(S), S)
    BY FS_CardinalityType
  <1>2. PICK f \in [1..Cardinality(S) -> S] : IsInjective(f)
    BY <1>1 DEF ExistsBijection, Bijection, Injection, IsInjective
  <1>3. SetToSeq(S) \in [1..Cardinality(S) -> S]
    BY <1>2 DEF SetToSeq
  <1> QED BY <1>1, <1>3 DEF Range

-----------------------------------------------------------------------------
(* What the actions have in common.                                        *)

\* A fault is counted, and nothing else is (Happens).
LEMMA HappensCounts ==
    ASSUME count \in [Fault -> Nat], NEW f \in Fault, Happens(f)
    PROVE  /\ count' \in [Fault -> Nat] /\ count'[f] # 0
           /\ \A g \in Fault : g # f => count'[g] = count[g]
  <1>1. count' = [count EXCEPT ![f] = @ + 1]
    BY Zenon DEF Happens
  <1> QED BY <1>1

\* The extension leaves the helper alone.
LEMMA ExtensionLeaves ==
    ASSUME \/ Browser \/ Solve \/ Alarm \/ Resend \/ TimeOut \/ Connect \/ Drop \/ WorkerRestart
    PROVE  UNCHANGED <<jobs, chk, pool, stored>>
  BY DEF Browser, Start, Fetch, Finalize, Challenged, Failed, Dispatch, Solve, Alarm, Resend,
         TimeOut, Connect, Drop, WorkerRestart, Restarted

\* The helper, and who uses it, leave the extension alone.
LEMMA HelperLeaves ==
    ASSUME Helper \/ Person \/ Reload
    PROVE  UNCHANGED <<linked, extension>>
  BY DEF Helper, Person, Reload, Submit, Retry, Handle, Execute, Checkpoint, Progress, Chunk,
         Complete, CompleteLost, Merge, MergeNothing, Write, WriteFails, Record, Answer, wire

\* A person and a reload leave the checkpoints and the pool alone.
LEMMA PersonLeaves ==
    ASSUME Person \/ Reload
    PROVE  UNCHANGED <<chk, pool, file, linked, up, extension>>
  BY DEF Person, Reload, Submit, Retry

\* The four kinds of steps.
LEMMA NextKinds ==
    ASSUME [Next]_vars
    PROVE  \/ Helper \/ Person \/ Reload \/ HelperRestart \/ UNCHANGED vars
           \/ Browser \/ Solve \/ Alarm \/ Resend \/ TimeOut \/ Connect \/ Drop \/ WorkerRestart
  BY DEF Next

\* What is written to the disk has its type (Persist).
LEMMA PersistTyped ==
    ASSUME TypedJobs, Persist, known' \subseteq Job, hint' \in [Job -> Offset],
           again' \in [Job -> BOOLEAN], result' \in [Job -> Result]
    PROVE  disk' \in [known : SUBSET Job, hint : [Job -> Offset], again : [Job -> BOOLEAN],
                      result : [Job -> Result]]
  BY DEF TypedJobs, Persist

\* A call whose turn it is.
LEMMA TakenCall ==
    ASSUME TypedCalls, InLine, NEW i \in RequestId, NEW ops, Takes(i, ops)
    PROVE  /\ calls[i].at = "waiting" /\ calls[i].op \in ops /\ calls[i].op \in Op
           /\ calls[i].job \in Job /\ calls[i] \in CallType
           /\ order' \in Seq(RequestId)
           /\ \A k, l \in DOMAIN order' : order'[k] = order'[l] => k = l
           /\ \A k \in DOMAIN order' : order'[k] # i /\ calls[order'[k]].at = "waiting"
           /\ Cardinality(Writing) < Workers
  <1>1. Len(order') = Len(order) - 1 /\ \A k \in 1..Len(order') : order'[k] = order[k + 1]
    BY DEF Takes, InLine
  <1>2. order \in Seq(RequestId) /\ order' \in Seq(RequestId) /\ i = order[1] /\ 1 \in DOMAIN order
    BY DEF Takes, InLine
  <1>3. calls[i].at = "waiting" /\ calls[i].op \in ops
    BY <1>2 DEF InLine, Takes
  <1>4. \A k, l \in DOMAIN order' : order'[k] = order'[l] => k = l
    BY <1>1, <1>2 DEF InLine
  <1>5. \A k \in DOMAIN order' : order'[k] # i /\ calls[order'[k]].at = "waiting"
    BY <1>1, <1>2 DEF InLine
  <1> QED BY <1>2, <1>3, <1>4, <1>5 DEF TypedCalls, Takes

-----------------------------------------------------------------------------
(* Types of the helper.                                                    *)

LEMMA JobsTyped ==
    ASSUME Typed, [Next]_vars
    PROVE  TypedJobs'
  <1> USE DEF Typed
  <1>1. CASE Person
    <2> PICK j \in Job : Submit(j) \/ Retry(j) BY <1>1 DEF Person
    <2>1. CASE Submit(j)
      <3>1. /\ known' \subseteq Job /\ queue' \subseteq known' /\ inflight' \subseteq known'
            /\ hint' = hint /\ again' = again /\ result' = result /\ Persist
        BY <2>1 DEF Submit, TypedJobs
      <3> QED BY <3>1, PersistTyped DEF TypedJobs
    <2>2. CASE Retry(j)
      <3>1. /\ known' = known /\ queue' \subseteq known' /\ inflight' \subseteq known'
            /\ hint' = hint /\ again' = again /\ result' \in [Job -> Result] /\ Persist
        BY <2>2 DEF Retry, TypedJobs, Result
      <3> QED BY <3>1, PersistTyped DEF TypedJobs
    <2> QED BY <2>1, <2>2
  <1>2. CASE Reload
    <2>1. /\ known' = known /\ queue' \subseteq known' /\ inflight' = {}
          /\ hint' = hint /\ again' = again /\ result' = result /\ Persist
      BY <1>2 DEF Reload, TypedJobs
    <2> QED BY <2>1, PersistTyped DEF TypedJobs
  <1>3. CASE Handle
    <2> PICK m : m = Head(up) OBVIOUS
    <2>1. CASE Accepted(m.job)
      <3>1. /\ known' = known /\ queue' \subseteq known' /\ inflight' \subseteq known'
            /\ hint' = hint /\ again' = again /\ result' = result /\ Persist
        BY <2>1 DEF Accepted, TypedJobs
      <3> QED BY <3>1, PersistTyped DEF TypedJobs
    <2>2. CASE Required(m.job)
      <3>1. /\ known' = known /\ queue' = queue /\ inflight' = inflight
            /\ hint' = hint /\ again' = again /\ result' \in [Job -> Result] /\ Persist
        BY <2>2 DEF Required, TypedJobs, Result
      <3> QED BY <3>1, PersistTyped DEF TypedJobs
    <2>3. CASE Resolved(m.job, m.cycle)
      <3>1. CASE m.cycle \in cycles[m.job]
        BY <2>3, <3>1 DEF Resolved, jobs, stored, TypedJobs
      <3>2. CASE m.cycle \notin cycles[m.job]
        <4>1. known' = known /\ inflight' = inflight /\ result' \in [Job -> Result] /\ Persist
          BY <2>3, <3>2 DEF Resolved, TypedJobs, Result
        <4>2. CASE m.job \in known
          <5>1. /\ hint' = [hint EXCEPT ![m.job] = IF rows[m.job] # {} THEN next[m.job] ELSE @]
                /\ again' = [again EXCEPT ![m.job] = TRUE] /\ queue' = queue \cup {m.job}
            BY <2>3, <3>2, <4>2 DEF Resolved
          <5>2. /\ hint' \in [Job -> Offset] /\ again' \in [Job -> BOOLEAN]
                /\ queue' \subseteq known'
            BY <4>1, <4>2, <5>1 DEF TypedJobs, TypedKept
          <5> QED BY <4>1, <5>2, PersistTyped DEF TypedJobs
        <4>3. CASE m.job \notin known
          <5>1. hint' = hint /\ again' = again /\ queue' = queue
            BY <2>3, <3>2, <4>3 DEF Resolved
          <5> QED BY <4>1, <5>1, PersistTyped DEF TypedJobs
        <4> QED BY <4>2, <4>3
      <3> QED BY <3>1, <3>2
    <2>4. CASE Receive(m)
      BY <2>4 DEF Receive, jobs, stored, TypedJobs
    <2> QED BY <1>3, <2>1, <2>2, <2>3, <2>4 DEF Handle
  <1>4. ASSUME NEW i \in RequestId, Execute(i) PROVE TypedJobs'
    <2>1. CASE Checkpoint(i)
      <3>1. UNCHANGED jobs /\ Persist BY <2>1 DEF Checkpoint
      <3> QED BY <3>1, PersistTyped DEF TypedJobs, jobs
    <2>2. CASE Progress(i)
      <3>1. /\ UNCHANGED <<known, hint, again, queue, result>> /\ inflight' \subseteq inflight
            /\ Persist
        BY <2>2 DEF Progress
      <3> QED BY <3>1, PersistTyped DEF TypedJobs
    <2>3. CASE Chunk(i) \/ CompleteLost(i) \/ Merge(i) \/ Write(i) \/ WriteFails(i)
      BY <2>3 DEF Chunk, CompleteLost, Merge, Write, WriteFails, jobs, stored, TypedJobs
    <2>4. ASSUME NEW r \in Result, Conclude(calls[i].job, r), Persist PROVE TypedJobs'
      <3>1. /\ UNCHANGED <<known, hint, again, queue>> /\ inflight' \subseteq inflight
            /\ result' \in [Job -> Result]
        BY <2>4 DEF Conclude, TypedJobs
      <3> QED BY <2>4, <3>1, PersistTyped DEF TypedJobs
    <2>5. CASE Complete(i) BY <2>4, <2>5 DEF Complete, Result
    <2>6. CASE MergeNothing(i) BY <2>4, <2>6 DEF MergeNothing, Result
    <2>7. CASE Record(i) BY <2>4, <2>7 DEF Record, Result
    <2> QED BY <1>4, <2>1, <2>2, <2>3, <2>5, <2>6, <2>7 DEF Execute
  <1>5. CASE HelperRestart
    BY <1>5 DEF HelperRestart, stored, TypedJobs
  <1>6. CASE UNCHANGED <<jobs, chk, pool, stored>>
    BY <1>6 DEF jobs, stored, TypedJobs
  <1> QED BY <1>1, <1>2, <1>3, <1>4, <1>5, <1>6, NextKinds, ExtensionLeaves DEF Helper, vars

LEMMA KeptTyped ==
    ASSUME Typed, [Next]_vars
    PROVE  TypedKept'
  <1> USE DEF Typed
  <1>1. ASSUME NEW i \in RequestId, Execute(i) PROVE TypedKept'
    <2>1. CASE Checkpoint(i)
      <3>1. calls[i].job \in Job /\ calls[i].batch \in Batch /\ Batch \subseteq Offset
        BY <2>1, TakenCall DEF Checkpoint, TypedCalls, Batch, Offset
      <3> QED BY <2>1, <3>1 DEF Checkpoint, TypedKept
    <2>2. CASE Progress(i) \/ CompleteLost(i) \/ Merge(i) \/ MergeNothing(i) \/ WriteFails(i)
      BY <2>2 DEF Progress, CompleteLost, Merge, MergeNothing, WriteFails, chk, stored, TypedKept
    <2>3. CASE Chunk(i) \/ Complete(i)
      <3>1. calls[i].job \in Job
        BY <2>3, TakenCall DEF Chunk, Complete
      <3> QED BY <2>3, <3>1 DEF Chunk, Complete, chk, stored, TypedKept
    <2>4. CASE Write(i)
      <3>1. calls[i].got \in SUBSET Batch
        BY DEF TypedCalls, CallType
      <3> QED BY <2>4, <3>1 DEF Write, chk, TypedKept
    <2>5. CASE Record(i)
      <3>1. 0 \in Offset BY IngestAssumption DEF Offset
      <3> QED BY <2>5, <3>1 DEF Record, TypedKept
    <2> QED BY <1>1, <2>1, <2>2, <2>3, <2>4, <2>5 DEF Execute
  <1>2. CASE Handle
    <2> PICK m : m = Head(up) OBVIOUS
    <2>1. CASE Accepted(m.job) \/ Required(m.job)
      BY <2>1 DEF Accepted, Required, chk, pool, TypedKept
    <2>2. CASE Resolved(m.job, m.cycle)
      BY <2>2 DEF Resolved, chk, pool, stored, TypedKept
    <2>3. CASE Receive(m)
      BY <2>3 DEF Receive, chk, stored, TypedKept
    <2> QED BY <1>2, <2>1, <2>2, <2>3 DEF Handle
  <1>3. CASE HelperRestart
    <2>1. 0 \in Offset BY IngestAssumption DEF Offset
    <2> QED BY <1>3, <2>1 DEF HelperRestart, stored, TypedKept
  <1>4. CASE UNCHANGED <<chk, pool, file>>
    BY <1>4 DEF chk, pool, TypedKept
  <1> QED
    BY <1>1, <1>2, <1>3, <1>4, NextKinds, ExtensionLeaves, PersonLeaves DEF Helper, vars, stored

LEMMA PoolTyped ==
    ASSUME Typed, [Next]_vars
    PROVE  TypedCalls' /\ InLine' /\ AtWork'
  <1> USE DEF Typed
  <1> USE IngestAssumption
  <1>1. ASSUME NEW i \in RequestId, NEW ops, Takes(i, ops), NEW ok \in BOOLEAN, Answer(i, ok)
        PROVE  TypedCalls' /\ InLine' /\ AtWork'
    <2>1. /\ calls[i].at = "waiting" /\ calls[i] \in CallType
          /\ order' \in Seq(RequestId)
          /\ \A k, l \in DOMAIN order' : order'[k] = order'[l] => k = l
          /\ \A k \in DOMAIN order' : order'[k] # i /\ calls[order'[k]].at = "waiting"
      BY <1>1, TakenCall
    <2>2. calls' = [calls EXCEPT ![i] = [@ EXCEPT !.at = "done", !.ok = ok, !.got = {}]]
      BY <1>1 DEF Answer
    <2>3. TypedCalls'
      BY <2>1, <2>2 DEF TypedCalls, CallType
    <2>4. InLine'
      BY <2>1, <2>2 DEF InLine, TypedCalls
    <2>5. Writing' = Writing
      BY <2>1, <2>2 DEF Writing, TypedCalls, CallType
    <2> QED BY <2>3, <2>4, <2>5 DEF AtWork
  <1>2. ASSUME NEW i \in RequestId, Execute(i) PROVE TypedCalls' /\ InLine' /\ AtWork'
    <2>1. CASE Checkpoint(i) \/ Progress(i) \/ Chunk(i) \/ Complete(i) \/ CompleteLost(i)
               \/ MergeNothing(i)
      BY <1>1, <2>1 DEF Checkpoint, Progress, Chunk, Complete, CompleteLost, MergeNothing
    <2>2. CASE Merge(i)
      <3>1. /\ calls[i].at = "waiting" /\ calls[i] \in CallType /\ calls[i].job \in Job
            /\ order' \in Seq(RequestId)
            /\ \A k, l \in DOMAIN order' : order'[k] = order'[l] => k = l
            /\ \A k \in DOMAIN order' : order'[k] # i /\ calls[order'[k]].at = "waiting"
            /\ Cardinality(Writing) < Workers
        BY <2>2, TakenCall DEF Merge
      <3>2. calls' = [calls EXCEPT ![i] = [@ EXCEPT !.at = "writing", !.got = rows[calls[i].job]]]
        BY <2>2 DEF Merge
      <3>3. TypedCalls'
        BY <3>1, <3>2 DEF TypedCalls, CallType, TypedKept
      <3>4. InLine'
        BY <3>1, <3>2 DEF InLine, TypedCalls
      <3>5. Writing' = Writing \cup {i} /\ i \notin Writing
        BY <3>1, <3>2 DEF Writing, TypedCalls, CallType
      <3>6. AtWork'
        <4>1. IsFiniteSet(Writing) /\ Cardinality(Writing) \in Nat
          BY FS_CardinalityType DEF AtWork
        <4>2. IsFiniteSet(Writing \cup {i}) /\ Cardinality(Writing \cup {i}) = Cardinality(Writing) + 1
          BY <3>5, <4>1, FS_AddElement
        <4> QED BY <3>1, <3>5, <4>1, <4>2 DEF AtWork
      <3> QED BY <3>3, <3>4, <3>6
    <2>3. CASE Write(i)
      <3>1. /\ calls' = [calls EXCEPT ![i] = [@ EXCEPT !.at = "recording"]]
            /\ calls[i].at = "writing" /\ order' = order
        BY <2>3 DEF Write
      <3>2. TypedCalls'
        BY <3>1 DEF TypedCalls, CallType
      <3>3. InLine'
        BY <3>1 DEF InLine, TypedCalls
      <3>4. Writing' = Writing
        BY <3>1 DEF Writing, TypedCalls, CallType
      <3> QED BY <3>2, <3>3, <3>4 DEF AtWork
    <2>4. CASE Record(i) \/ WriteFails(i)
      <3> PICK ok \in BOOLEAN :
              /\ calls' = [calls EXCEPT ![i] = [@ EXCEPT !.at = "done", !.ok = ok, !.got = {}]]
              /\ calls[i].at \in {"writing", "recording"} /\ order' = order
        BY <2>4 DEF Record, WriteFails, Answer
      <3>1. /\ calls' = [calls EXCEPT ![i] = [@ EXCEPT !.at = "done", !.ok = ok, !.got = {}]]
            /\ calls[i].at \in {"writing", "recording"} /\ order' = order
        OBVIOUS
      <3>2. TypedCalls'
        <4> PICK new : new = [calls[i] EXCEPT !.at = "done", !.ok = ok, !.got = {}] OBVIOUS
        <4>1. calls[i] \in CallType /\ calls[i].op \in Op /\ calls[i].job \in Job
              /\ (calls[i].op = "checkpoint" => calls[i].batch \in Batch)
          BY <3>1 DEF TypedCalls
        <4>2. /\ new \in CallType /\ new.op = calls[i].op /\ new.job = calls[i].job
              /\ new.batch = calls[i].batch
          BY <4>1 DEF CallType
        <4>3. calls' = [calls EXCEPT ![i] = new] BY <3>1
        <4> QED BY <4>1, <4>2, <4>3 DEF TypedCalls
      <3>3. InLine'
        BY <3>1 DEF InLine, TypedCalls
      <3>4. Writing' = Writing \ {i} /\ i \in Writing
        BY <3>1 DEF Writing, TypedCalls, CallType
      <3>5. AtWork'
        <4>1. IsFiniteSet(Writing) /\ Cardinality(Writing) \in Nat
          BY FS_CardinalityType DEF AtWork
        <4>2. IsFiniteSet(Writing \ {i}) /\ Cardinality(Writing \ {i}) = Cardinality(Writing) - 1
          BY <3>4, <4>1, FS_RemoveElement
        <4> QED BY <3>4, <4>1, <4>2 DEF AtWork
      <3> QED BY <3>2, <3>3, <3>5
    <2> QED BY <1>2, <2>1, <2>2, <2>3, <2>4 DEF Execute
  <1>3. CASE Handle
    <2> PICK m : m = Head(up) OBVIOUS
    <2>1. CASE Accepted(m.job) \/ Required(m.job) \/ Resolved(m.job, m.cycle)
      <3>1. calls' = calls /\ order' = order
        BY <2>1 DEF Accepted, Required, Resolved, pool
      <3> QED BY <3>1 DEF TypedCalls, InLine, AtWork, Writing
    <2>2. CASE m.type = "request" /\ Receive(m)
      <3> DEFINE kept == [id \in RequestId |->
                    IF calls[id].at # "done" \/ Awaits(id) \/ OnItsWay(id) THEN calls[id] ELSE NoCall]
                 new  == [op |-> m.op, job |-> m.job, batch |-> m.batch,
                          at |-> "waiting", ok |-> TRUE, got |-> {}]
      <3>1. m \in Asked
        BY <1>3, <2>2, TailRange DEF Handle, TypedWire, UpFrame, Told
      <3>2. kept \in [RequestId -> CallType] /\ NoCall \in CallType /\ 0 \in Offset
        BY DEF TypedCalls, CallType, NoCall, Offset
      <3>3. \A id \in RequestId : kept[id] \in {calls[id], NoCall}
        OBVIOUS
      <3>4. \A id \in RequestId : calls[id].at # "done" => kept[id] = calls[id]
        OBVIOUS
      <3>5. {id \in RequestId : kept[id].at \in {"writing", "recording"}} = Writing
        BY <3>3, <3>4 DEF Writing, NoCall
      <3>6. CASE calls' = kept /\ order' = order
        <4>1. TypedCalls'
          BY <3>2, <3>3, <3>6 DEF TypedCalls, NoCall
        <4>2. InLine'
          BY <3>4, <3>6 DEF InLine
        <4> QED BY <3>5, <3>6, <4>1, <4>2 DEF AtWork, Writing
      <3>7. CASE /\ calls' = [kept EXCEPT ![m.id] = new] /\ order' = Append(order, m.id)
                 /\ calls[m.id].at \in {"none", "done"}
        <4>1. m.id \in RequestId /\ new \in CallType /\ m.op \in Op /\ m.job \in Job
              /\ (m.op = "checkpoint" => m.batch \in Batch)
          BY <3>1 DEF Asked, Request, CallType
        <4>2. TypedCalls'
          BY <3>2, <3>3, <3>7, <4>1 DEF TypedCalls, NoCall
        <4>3. /\ order' \in Seq(RequestId) /\ Len(order') = Len(order) + 1
              /\ \A k \in 1..Len(order') : order'[k] = IF k <= Len(order) THEN order[k] ELSE m.id
          BY <3>7, <4>1 DEF InLine
        <4>4. \A k \in DOMAIN order : order[k] # m.id
          BY <3>7 DEF InLine
        <4>5. \A k, l \in DOMAIN order' : order'[k] = order'[l] => k = l
          BY <4>3, <4>4 DEF InLine
        <4> HIDE DEF kept
        <4>8. \A id \in RequestId : calls'[id] = IF id = m.id THEN new ELSE kept[id]
          BY <3>7, <4>1, <3>2
        <4>9. calls'[m.id] = new /\ new.at = "waiting"
          BY <4>1, <4>8
        <4>6. \A k \in DOMAIN order' : calls'[order'[k]].at = "waiting"
          <5>1. ASSUME NEW k \in DOMAIN order' PROVE calls'[order'[k]].at = "waiting"
            <6>1. CASE k <= Len(order)
              <7>1. /\ order'[k] = order[k] /\ k \in DOMAIN order
                    /\ calls[order[k]].at = "waiting" /\ order[k] \in RequestId
                BY <4>3, <6>1 DEF InLine
              <7> QED BY <3>4, <4>4, <4>8, <7>1
            <6>2. CASE ~(k <= Len(order))
              <7>1. order'[k] = m.id BY <4>3, <6>2
              <7> QED BY <4>9, <7>1
            <6> QED BY <6>1, <6>2
          <5> QED BY <5>1
        <4>7. Writing' = Writing
          <5>1. m.id \notin Writing
            BY <3>7 DEF Writing
          <5>2. ASSUME NEW id \in RequestId PROVE id \in Writing' <=> id \in Writing
            <6>1. CASE id = m.id
              BY <5>1, <4>9, <6>1 DEF Writing
            <6>2. CASE id # m.id
              <7>1. calls'[id] = kept[id] BY <4>8, <6>2
              <7>2. id \in {x \in RequestId : kept[x].at \in {"writing", "recording"}} <=> id \in Writing
                BY <3>5
              <7> QED BY <7>1, <7>2 DEF Writing
            <6> QED BY <6>1, <6>2
          <5> QED BY <5>2 DEF Writing
        <4> QED BY <4>2, <4>3, <4>5, <4>6, <4>7 DEF InLine, AtWork
      <3> QED BY <2>2, <3>6, <3>7 DEF Receive
    <2> QED BY <1>3, <2>1, <2>2 DEF Handle
  <1>4. CASE HelperRestart
    <2>1. calls' = [id \in RequestId |-> NoCall] /\ order' = <<>>
      BY <1>4 DEF HelperRestart
    <2>2. NoCall \in CallType
      BY DEF NoCall, CallType, Offset
    <2>3. Writing' = {}
      BY <2>1 DEF Writing, NoCall
    <2>4. Cardinality({}) = 0 /\ IsFiniteSet({})
      BY FS_EmptySet
    <2>5. TypedCalls' BY <2>1, <2>2 DEF TypedCalls, NoCall
    <2>6. InLine' BY <2>1 DEF InLine
    <2>7. AtWork' BY <2>3, <2>4 DEF AtWork
    <2> QED BY <2>5, <2>6, <2>7
  <1>5. CASE UNCHANGED pool
    BY <1>5 DEF pool, TypedCalls, InLine, AtWork, Writing
  <1> QED
    BY <1>2, <1>3, <1>4, <1>5, NextKinds, ExtensionLeaves, PersonLeaves DEF Helper, vars

-----------------------------------------------------------------------------
(* What is sent.                                                           *)

LEMMA SentUp ==
    ASSUME TypedWire, NEW frames \in Seq(UpFrame), ToHelper(frames)
    PROVE  /\ up' \in Seq(UpFrame) /\ Range(up') \subseteq Range(up) \cup Range(frames)
           /\ ~linked => up' = <<>>
  BY ConcatRange DEF TypedWire, ToHelper

LEMMA SentDown ==
    ASSUME TypedWire, NEW frames \in Seq(DownFrame), ToExtension(frames)
    PROVE  /\ down' \in Seq(DownFrame) /\ Range(down') \subseteq Range(down) \cup Range(frames)
           /\ ~linked => down' = <<>>
  BY ConcatRange DEF TypedWire, ToExtension

\* A new request has an id nothing else has (sendIngestRequest).
LEMMA Requested ==
    ASSUME NEW op \in Op, NEW j \in Job, NEW b \in Offset, op = "checkpoint" => b \in Batch,
           NewRequest(op, j, b)
    PROVE  /\ req' \in Asked /\ req' # NoReq /\ req'.type = "request"
           /\ req'.op = op /\ req'.job = j /\ req'.batch = b
           /\ req'.id \in FreshIds
  <1>1. PICK id \in FreshIds : req' = [type |-> "request", id |-> id, op |-> op, job |-> j, batch |-> b]
    BY DEF NewRequest
  <1>2. id \in RequestId BY DEF FreshIds
  <1> QED BY <1>1, <1>2, IngestAssumption DEF Asked, Request

\* The outcomes of a reply (Replied).
LEMMA RepliedCases ==
    ASSUME TypedRun, req # NoReq, NEW ok \in BOOLEAN, Replied(ok)
    PROVE  \/ EndRun /\ UNCHANGED <<up, local>>
           \/ /\ ok /\ at = "ack" /\ at' = "fetch" /\ req' = NoReq
              /\ pos' = req.batch /\ local' = [local EXCEPT ![cur] = req.batch]
              /\ UNCHANGED <<up, cur, kind>>
           \/ \E op \in {"chunk", "complete_failure", "complete_challenge"} :
                 /\ NewRequest(op, cur, 0) /\ ToHelper(<<req'>>) /\ at' \in {"chunk", "complete"}
                 /\ UNCHANGED <<cur, pos, kind, local>>
           \/ ~ok /\ at \in {"ack", "final"} /\ Fail /\ UNCHANGED <<cur, pos, local>>
  <1>1. CASE ~ok /\ at \notin {"ack", "final"}
    BY <1>1 DEF Replied
  <1>6. CASE ~ok /\ at \in {"ack", "final"}
    BY <1>6 DEF Replied
  <1>2. CASE ok /\ at = "ack"
    BY <1>2 DEF Replied
  <1>3. CASE ok /\ at = "tell"
    BY <1>3 DEF Replied, Ask
  <1>4. CASE ok /\ at = "chunk"
    BY <1>4 DEF Replied, Ask
  <1>5. CASE ok /\ at \in {"final", "complete"}
    BY <1>5 DEF Replied
  <1> QED BY <1>1, <1>2, <1>3, <1>4, <1>5, <1>6 DEF TypedRun

\* A run that asks anew: its request, and that the helper did nothing meanwhile.
AsksAnew ==
    /\ req' \in Asked /\ req' # NoReq /\ req'.id \in FreshIds /\ req'.job = cur' /\ cur' = cur
    /\ Range(down') \subseteq Range(down)
    /\ req'.op = "checkpoint" => at = "fetch" /\ req'.batch = pos + 1
    /\ at' = "ack" => req'.op = "checkpoint"
    /\ UNCHANGED <<jobs, chk, pool, stored>>

\* What a step does to the request that is waited for.
LEMMA RunSteps ==
    ASSUME Typed, [Next]_vars
    PROVE  /\ TypedRun'
           /\ req' # NoReq => UNCHANGED <<req, cur, at>> \/ AsksAnew
  <1> DEFINE G == TypedRun' /\ (req' # NoReq => UNCHANGED <<req, cur, at>> \/ AsksAnew)
  <1> USE DEF Typed
  <1>0. 0 \in Offset /\ Batch \subseteq Offset /\ NoJob \notin Job
    BY IngestAssumption DEF Offset, Batch
  <1>1. CASE UNCHANGED runner
    BY <1>1 DEF runner, TypedRun
  <1>2. ASSUME at # "idle", NEW op \in Op, NEW b \in Offset, op = "checkpoint" => b = pos + 1 /\ at = "fetch" /\ b \in Batch,
               NewRequest(op, cur, b), at' = "ack" => op = "checkpoint",
               at' \in {"ack", "final", "tell", "chunk", "complete"},
               kind' \in {"none", "challenge", "failure"}, UNCHANGED <<cur, pos>>,
               Range(down') \subseteq Range(down), UNCHANGED <<jobs, chk, pool, stored>>
        PROVE  G
    <2>1. cur \in Job BY <1>2 DEF TypedRun
    <2>2. /\ req' \in Asked /\ req' # NoReq /\ req'.op = op /\ req'.job = cur /\ req'.batch = b
          /\ req'.id \in FreshIds
      BY <1>2, <2>1, Requested
    <2>3. AsksAnew
      BY <1>2, <2>2 DEF AsksAnew
    <2> QED BY <1>0, <1>2, <2>1, <2>2, <2>3 DEF TypedRun
  <1>3. CASE Start
    <2>1. line \in Seq([job : Job, from : Offset]) /\ line # <<>>
      BY <1>3 DEF Start, TypedRest
    <2>2. Head(line) \in [job : Job, from : Offset]
      BY <2>1, TailRange
    <2>3. cur' \in Job /\ pos' \in Offset /\ at' = "fetch" /\ kind' = "none" /\ req' = req
      BY <1>3, <2>2 DEF Start, TypedRest
    <2>4. req = NoReq
      BY <1>3 DEF Start, TypedRun
    <2> QED BY <1>0, <2>3, <2>4 DEF TypedRun
  <1>4. CASE Fetch
    <2>1. pos + 1 \in Batch
      BY <1>4, IngestAssumption DEF Fetch, TypedRun, Offset, Batch
    <2>2. /\ at = "fetch" /\ NewRequest("checkpoint", cur, pos + 1) /\ at' = "ack" /\ down' = down
          /\ UNCHANGED <<cur, pos, kind>> /\ UNCHANGED <<jobs, chk, pool, stored>>
      BY <1>4 DEF Fetch, Ask
    <2> QED BY <1>0, <1>2, <2>1, <2>2 DEF Op, TypedRun
  <1>5. CASE Finalize
    <2>1. /\ at = "fetch" /\ NewRequest("finalize", cur, 0) /\ at' = "final" /\ down' = down
          /\ UNCHANGED <<cur, pos, kind>> /\ UNCHANGED <<jobs, chk, pool, stored>>
      BY <1>5 DEF Finalize, Ask
    <2> QED BY <1>0, <1>2, <2>1 DEF Op, TypedRun
  <1>6. CASE Challenged
    <2>1. /\ at = "fetch" /\ NewRequest("tell_challenge", cur, 0) /\ at' = "tell" /\ down' = down
          /\ UNCHANGED <<cur, pos>> /\ kind' = "challenge" /\ UNCHANGED <<jobs, chk, pool, stored>>
      BY <1>6 DEF Challenged
    <2> QED BY <1>0, <1>2, <2>1 DEF Op
  <1>7. CASE Failed
    <2>1. /\ at = "fetch" /\ NewRequest("tell_failure", cur, 0) /\ at' = "tell" /\ down' = down
          /\ UNCHANGED <<cur, pos>> /\ kind' = "failure" /\ UNCHANGED <<jobs, chk, pool, stored>>
      BY <1>7 DEF Failed, Fail, Ask
    <2> QED BY <1>0, <1>2, <2>1 DEF Op
  <1>8. ASSUME EndRun PROVE G
    BY <1>0, <1>8 DEF EndRun, TypedRun
  <1>9. CASE Dispatch
    <2>1. CASE UNCHANGED runner
      BY <1>1, <2>1
    <2>2. ASSUME NEW m, m = Head(down), m.type = "reply", Awaits(m.id), Replied(m.ok) PROVE G
      <3>1. /\ down # <<>> /\ down' = Tail(down) /\ UNCHANGED <<jobs, chk, pool, stored>>
        BY <1>9 DEF Dispatch
      <3>2. m \in Reply /\ Range(down') \subseteq Range(down)
        BY <2>2, <3>1, TailRange DEF TypedWire, DownFrame, Offer
      <3>3. m.ok \in BOOLEAN /\ req # NoReq
        BY <2>2, <3>2 DEF Reply, Awaits
      <3>4. CASE EndRun BY <1>8, <3>4
      <3>5. CASE /\ m.ok /\ at = "ack" /\ at' = "fetch" /\ req' = NoReq
                 /\ pos' = req.batch /\ UNCHANGED <<cur, kind>>
        BY <3>3, <3>5 DEF TypedRun, Asked, Request
      <3>6. ASSUME NEW op \in {"chunk", "complete_failure", "complete_challenge"},
                   NewRequest(op, cur, 0), at' \in {"chunk", "complete"}, UNCHANGED <<cur, pos, kind>>
            PROVE  G
        <4>1. at # "idle" BY <3>3 DEF TypedRun
        <4> QED BY <1>0, <1>2, <3>1, <3>2, <3>6, <4>1 DEF Op, TypedRun
      <3>7. CASE at \in {"ack", "final"} /\ Fail /\ UNCHANGED <<cur, pos>>
        <4>1. NewRequest("tell_failure", cur, 0) /\ at' = "tell" /\ kind' = "failure"
          BY <3>7 DEF Fail, Ask
        <4> QED BY <1>0, <1>2, <3>1, <3>2, <3>7, <4>1 DEF Op
      <3> QED BY <2>2, <3>3, <3>4, <3>5, <3>6, <3>7, RepliedCases
    <2> QED BY <1>9, <2>1, <2>2 DEF Dispatch
  <1>10. CASE TimeOut
    <2>1. CASE EndRun BY <1>8, <2>1
    <2>2. CASE at \in {"ack", "final"} /\ Fail /\ UNCHANGED <<cur, pos>>
      <3>1. /\ NewRequest("tell_failure", cur, 0) /\ at' = "tell" /\ down' = down
            /\ kind' = "failure" /\ UNCHANGED <<jobs, chk, pool, stored>>
        BY <1>10, <2>2 DEF TimeOut, Fail, Ask
      <3> QED BY <1>0, <1>2, <2>2, <3>1 DEF Op
    <2> QED BY <1>10, <2>1, <2>2 DEF TimeOut
  <1>11. CASE WorkerRestart
    BY <1>8, <1>11 DEF WorkerRestart, Restarted
  <1>12. CASE Helper \/ Person \/ Reload
    BY <1>1, <1>12, HelperLeaves DEF extension
  <1>13. CASE HelperRestart \/ Solve \/ Alarm \/ Resend \/ Connect \/ Drop \/ UNCHANGED vars
    BY <1>1, <1>13 DEF HelperRestart, Solve, Alarm, Resend, Connect, Drop, extension, vars
  <1> QED
    BY <1>3, <1>4, <1>5, <1>6, <1>7, <1>9, <1>10, <1>11, <1>12, <1>13, NextKinds DEF Browser

\* Frames to the helper: the requests among them are those that were there, and
\* the one that is waited for.
LEMMA UpSteps ==
    ASSUME Typed, [Next]_vars
    PROVE  /\ up' \in Seq(UpFrame) /\ (~linked' => up' = <<>>)
           /\ \A m \in Range(up') : m.type = "request" => m \in Range(up) \/ (req' # NoReq /\ m = req')
  <1> DEFINE G == /\ up' \in Seq(UpFrame) /\ (~linked' => up' = <<>>)
                  /\ \A m \in Range(up') : m.type = "request" => m \in Range(up) \/ (req' # NoReq /\ m = req')
  <1> USE DEF Typed
  <1>0. TypedRun' BY RunSteps
  <1>1. ASSUME UNCHANGED <<linked, up>> PROVE G
    BY <1>1 DEF TypedWire
  <1>2. ASSUME up' = <<>> PROVE G
    BY <1>2 DEF Range
  <1>3. ASSUME NEW frames \in Seq(UpFrame), ToHelper(frames), linked' = linked,
               \A m \in Range(frames) : m.type = "request" => req' # NoReq /\ m = req'
        PROVE  G
    BY <1>3, SentUp
  <1>4. ASSUME req' # NoReq, ToHelper(<<req'>>), linked' = linked PROVE G
    <2>1. req' \in UpFrame BY <1>0, <1>4 DEF TypedRun, UpFrame
    <2>2. <<req'>> \in Seq(UpFrame) /\ Range(<<req'>>) = {req'} BY <2>1, OneRange
    <2> QED BY <1>3, <1>4, <2>2
  <1>5. \A j \in Job : AcceptedFrame(j) \in UpFrame /\ AcceptedFrame(j).type # "request"
    BY DEF AcceptedFrame, UpFrame, Told
  <1>6. CASE Person \/ Reload
    BY <1>1, <1>6, PersonLeaves
  <1>7. CASE Handle
    BY <1>7, TailRange DEF Handle, TypedWire
  <1>8. ASSUME NEW i \in RequestId, Execute(i) PROVE G
    BY <1>1, <1>8 DEF Execute, Checkpoint, Progress, Chunk, Complete, CompleteLost, Merge,
                     MergeNothing, Write, WriteFails, Record, Answer, wire
  <1>9. CASE Start \/ Alarm
    BY <1>1, <1>9 DEF Start, Alarm, wire
  <1>10. CASE Fetch \/ Finalize \/ Failed
    <2>1. ToHelper(<<req'>>) /\ linked' = linked /\ at' \in {"ack", "final", "tell"}
      BY <1>10 DEF Fetch, Finalize, Failed, Fail, Ask
    <2>2. req' # NoReq BY <1>0, <2>1 DEF TypedRun
    <2> QED BY <1>4, <2>1, <2>2
  <1>11. CASE Challenged
    <2> DEFINE told == [type |-> "required", job |-> cur]
    <2>1. ToHelper(<<told, req'>>) /\ linked' = linked /\ at' = "tell" /\ at = "fetch"
      BY <1>11 DEF Challenged
    <2>2. req' # NoReq /\ req' \in UpFrame BY <1>0, <2>1 DEF TypedRun, UpFrame
    <2>3. told \in UpFrame /\ told.type # "request" BY <2>1 DEF TypedRun, UpFrame, Told
    <2>4. <<told, req'>> \in Seq(UpFrame) /\ Range(<<told, req'>>) = {told, req'}
      <3> HIDE DEF told
      <3> QED BY <2>2, <2>3, TwoRange
    <2> QED BY <1>3, <2>1, <2>2, <2>3, <2>4
  <1>12. CASE Dispatch
    <2> PICK m : m = Head(down) OBVIOUS
    <2>1. linked' = linked /\ m \in DownFrame
      BY <1>12, TailRange DEF Dispatch, TypedWire
    <2>2. CASE up' = up BY <1>1, <2>1, <2>2
    <2>3. CASE m.type = "job" /\ ToHelper(<<AcceptedFrame(m.job)>>)
      <3>1. m.job \in Job BY <2>1, <2>3 DEF DownFrame, Offer, Reply
      <3>2. /\ <<AcceptedFrame(m.job)>> \in Seq(UpFrame)
            /\ Range(<<AcceptedFrame(m.job)>>) = {AcceptedFrame(m.job)}
        BY <1>5, <3>1, OneRange
      <3> QED BY <1>3, <1>5, <2>1, <2>3, <3>1, <3>2
    <2>4. CASE m.type = "reply" /\ Awaits(m.id) /\ Replied(m.ok)
      <3>1. m.ok \in BOOLEAN /\ req # NoReq
        BY <2>1, <2>4 DEF DownFrame, Offer, Reply, Awaits
      <3>2. CASE ToHelper(<<req'>>) /\ at' \in {"chunk", "complete"}
        <4>1. req' # NoReq BY <1>0, <3>2 DEF TypedRun
        <4> QED BY <1>4, <2>1, <3>2, <4>1
      <3>3. CASE Fail
        <4>1. req' # NoReq BY <1>0, <3>3 DEF Fail, TypedRun
        <4> QED BY <1>4, <2>1, <3>3, <4>1 DEF Fail, Ask
      <3> QED BY <2>2, <2>4, <3>1, <3>2, <3>3, RepliedCases
    <2> QED BY <1>12, <2>2, <2>3, <2>4 DEF Dispatch
  <1>13. CASE Solve
    <2> DEFINE told == [type |-> "resolved", job |-> info, cycle |-> cycle'[info]]
    <2>1. ToHelper(<<told, AcceptedFrame(info)>>) /\ linked' = linked
      BY <1>13 DEF Solve
    <2>2. info \in Job /\ cycle'[info] \in Nat
      BY <1>13 DEF Solve, TypedRest
    <2>3. told \in UpFrame /\ told.type # "request" BY <2>2 DEF UpFrame, Told
    <2>4. /\ <<told, AcceptedFrame(info)>> \in Seq(UpFrame)
          /\ Range(<<told, AcceptedFrame(info)>>) = {told, AcceptedFrame(info)}
      BY <1>5, <2>2, <2>3, TwoRange
    <2> QED BY <1>3, <1>5, <2>1, <2>2, <2>3, <2>4
  <1>14. CASE Resend
    <2>1. up' = Append(up, req) /\ req # NoReq /\ req' = req /\ linked /\ linked' = linked
      BY <1>14 DEF Resend, extension, runner
    <2>2. req \in UpFrame BY <2>1 DEF TypedRun, UpFrame
    <2> QED BY <2>1, <2>2, AppendRange DEF TypedWire
  <1>15. CASE TimeOut
    <2>1. linked' = linked BY <1>15 DEF TimeOut
    <2>2. CASE Fail
      <3>1. req' # NoReq BY <1>0, <2>2 DEF Fail, TypedRun
      <3> QED BY <1>4, <2>1, <2>2, <3>1 DEF Fail, Ask
    <2>3. CASE up' = up BY <1>1, <2>1, <2>3
    <2> QED BY <1>15, <2>2, <2>3 DEF TimeOut
  <1>16. CASE Connect
    <2>1. linked' /\ req' = req /\ up' = IF req = NoReq THEN <<>> ELSE <<req>>
      BY <1>16 DEF Connect, runner
    <2>2. CASE req # NoReq
      <3>1. req \in UpFrame BY <2>2 DEF TypedRun, UpFrame
      <3>2. <<req>> \in Seq(UpFrame) /\ Range(<<req>>) = {req} BY <3>1, OneRange
      <3> QED BY <2>1, <2>2, <3>2
    <2> QED BY <1>2, <2>1, <2>2
  <1>17. CASE Drop \/ WorkerRestart \/ HelperRestart
    BY <1>2, <1>17 DEF Drop, WorkerRestart, Restarted, HelperRestart, Cut
  <1>18. CASE UNCHANGED vars
    BY <1>1, <1>18 DEF vars, wire
  <1> QED
    BY <1>6, <1>7, <1>8, <1>9, <1>10, <1>11, <1>12, <1>13, <1>14, <1>15, <1>16, <1>17, <1>18,
       NextKinds DEF Browser, Helper

\* A job as it is offered (JobFrom, JobFrame).
LEMMA OfferedFrom ==
    ASSUME Typed, NEW j \in Job, NEW retry \in BOOLEAN, NEW b \in Offset
    PROVE  /\ JobFrom(j, retry, b) \in Offer /\ JobFrom(j, retry, b).type = "job"
           /\ JobFrom(j, retry, b).job = j /\ JobFrom(j, retry, b).from = b
  BY DEF Typed, TypedJobs, JobFrom, Offer

LEMMA Offered ==
    ASSUME Typed, NEW j \in Job, NEW retry \in BOOLEAN
    PROVE  /\ JobFrame(j, retry) \in Offer /\ JobFrame(j, retry).type = "job"
           /\ JobFrame(j, retry).job = j /\ JobFrame(j, retry).from \in {hint[j], next[j]}
  <1>1. hint[j] \in Offset /\ next[j] \in Offset
    BY DEF Typed, TypedJobs, TypedKept
  <1> QED BY <1>1, OfferedFrom DEF JobFrame

\* What a frame to the extension says is so.
Says(m) ==
    /\ m.type = "job" => m.from \in {hint[m.job], next[m.job]}
    /\ m.type = "reply" => calls[m.id].at = "done" /\ calls[m.id].ok = m.ok

\* Frames to the extension: what they say is so when they are sent.
LEMMA DownSteps ==
    ASSUME Typed, [Next]_vars
    PROVE  /\ down' \in Seq(DownFrame) /\ (~linked' => down' = <<>>)
           /\ \A m \in Range(down') : m \in Range(down) \/ Says(m)'
  <1> DEFINE G == /\ down' \in Seq(DownFrame) /\ (~linked' => down' = <<>>)
                  /\ \A m \in Range(down') : m \in Range(down) \/ Says(m)'
  <1> USE DEF Typed
  <1>1. ASSUME UNCHANGED <<linked, down>> PROVE G
    BY <1>1 DEF TypedWire
  <1>2. ASSUME down' = <<>> PROVE G
    BY <1>2 DEF Range
  <1>3. ASSUME NEW m \in DownFrame, ToExtension(<<m>>), linked' = linked, Says(m)' PROVE G
    <2>1. <<m>> \in Seq(DownFrame) /\ Range(<<m>>) = {m} BY <1>3, OneRange
    <2> QED BY <1>3, <2>1, SentDown
  <1>4. ASSUME ToExtension(<<>>), linked' = linked PROVE G
    <2>1. <<>> \in Seq(DownFrame) /\ Range(<<>>) = {} BY DEF Range
    <2> QED BY <1>4, <2>1, SentDown
  <1>5. Offer \subseteq DownFrame /\ Reply \subseteq DownFrame
    BY DEF DownFrame
  <1>15. \A j \in Job, b \in Offset : /\ JobFrom(j, TRUE, b) \in DownFrame
                                     /\ JobFrom(j, TRUE, b).type = "job"
                                     /\ JobFrom(j, TRUE, b).job = j
                                     /\ JobFrom(j, TRUE, b).from = b
    BY <1>5, OfferedFrom
  <1>6. CASE Person
    <2> PICK j \in Job : Submit(j) \/ Retry(j) BY <1>6 DEF Person
    <2>1. CASE Submit(j)
      <3> PICK m : m = JobFrame(j, FALSE) OBVIOUS
      <3>1. ToExtension(<<m>>) /\ linked' = linked /\ hint' = hint /\ next' = next
        BY <2>1 DEF Submit, chk
      <3>2. m \in DownFrame /\ m.type = "job" /\ m.from \in {hint[m.job], next[m.job]}
        BY <1>5, Offered
      <3> QED BY <1>3, <3>1, <3>2 DEF Says
    <2>2. CASE Retry(j)
      <3> PICK m : m = JobFrom(j, TRUE, hint[j]) OBVIOUS
      <3>1. ToExtension(<<m>>) /\ linked' = linked /\ hint' = hint
        BY <2>2 DEF Retry
      <3>2. hint[j] \in Offset BY DEF TypedJobs
      <3>3. m \in DownFrame /\ m.type = "job" /\ m.job = j /\ m.from = hint[j]
        BY <1>5, <3>2, OfferedFrom
      <3> QED BY <1>3, <3>1, <3>3 DEF Says
    <2> QED BY <2>1, <2>2
  <1>7. CASE Reload
    <2> PICK m : m = [type |-> "reload"] OBVIOUS
    <2>1. m \in DownFrame /\ m.type = "reload" BY DEF DownFrame
    <2>2. ToExtension(<<m>>) /\ linked' = linked BY <1>7 DEF Reload
    <2> QED BY <1>3, <2>1, <2>2 DEF Says
  <1>8. CASE Handle
    <2> PICK r : r = Head(up) OBVIOUS
    <2>1. linked' = linked /\ up # <<>> /\ r \in UpFrame /\ r \in Range(up)
      BY <1>8, TailRange DEF Handle, TypedWire
    <2>2. CASE Accepted(r.job) \/ Required(r.job)
      BY <1>1, <2>1, <2>2 DEF Accepted, Required
    <2>3. CASE Resolved(r.job, r.cycle)
      <3>1. CASE r.cycle \in cycles[r.job] \/ r.job \notin known
        BY <1>1, <2>1, <2>3, <3>1 DEF Resolved
      <3>2. CASE r.cycle \notin cycles[r.job] /\ r.job \in known
        <4> PICK b : b = hint'[r.job] OBVIOUS
        <4> PICK m : m = JobFrom(r.job, TRUE, b) OBVIOUS
        <4>1. ToExtension(<<m>>) BY <2>3, <3>2 DEF Resolved
        <4>2. r.job \in Job BY <3>2 DEF TypedJobs
        <4>3. b \in Offset BY <4>2, JobsTyped DEF TypedJobs
        <4>4. m \in DownFrame /\ m.type = "job" /\ m.job = r.job /\ m.from = b
          BY <1>15, <4>2, <4>3
        <4> QED BY <1>3, <2>1, <4>1, <4>4 DEF Says
      <3> QED BY <3>1, <3>2
    <2>4. CASE r.type = "request" /\ Receive(r)
      <3>1. r.id \in RequestId /\ OnItsWay(r.id)
        BY <2>1, <2>4 DEF UpFrame, Asked, Request, Told, OnItsWay, Range
      <3>2. CASE down' = down BY <1>1, <2>1, <3>2
      <3>3. CASE ToExtension(<<>>) BY <1>4, <2>1, <3>3
      <3>4. CASE /\ calls[r.id].at = "done" /\ calls'[r.id] = calls[r.id]
                 /\ ToExtension(<<[type |-> "reply", id |-> r.id, ok |-> calls[r.id].ok]>>)
        <4> PICK m : m = [type |-> "reply", id |-> r.id, ok |-> calls[r.id].ok] OBVIOUS
        <4>1. calls[r.id].ok \in BOOLEAN BY <3>1 DEF TypedCalls, CallType
        <4>2. m \in DownFrame BY <1>5, <3>1, <4>1 DEF Reply
        <4> QED BY <1>3, <2>1, <3>4, <4>2 DEF Says
      <3>5. \/ down' = down
            \/ /\ calls' = [id \in RequestId |->
                     IF calls[id].at # "done" \/ Awaits(id) \/ OnItsWay(id) THEN calls[id] ELSE NoCall]
               /\ ToExtension(IF calls[r.id].at = "done"
                              THEN <<[type |-> "reply", id |-> r.id, ok |-> calls[r.id].ok]>> ELSE <<>>)
        BY <2>4 DEF Receive
      <3> QED BY <3>1, <3>2, <3>3, <3>4, <3>5
    <2> QED BY <1>8, <2>2, <2>3, <2>4 DEF Handle
  <1>9. ASSUME NEW i \in RequestId, Execute(i) PROVE G
    <2>1. ASSUME NEW ok \in BOOLEAN, Answer(i, ok) PROVE G
      <3> PICK m : m = [type |-> "reply", id |-> i, ok |-> ok] OBVIOUS
      <3>1. m \in DownFrame BY <1>5 DEF Reply
      <3>2. calls'[i].at = "done" /\ calls'[i].ok = ok
        BY <2>1 DEF Answer, TypedCalls, CallType
      <3> QED BY <1>3, <2>1, <3>1, <3>2 DEF Answer, Says
    <2>2. CASE Merge(i) \/ Write(i)
      BY <1>1, <2>2 DEF Merge, Write, wire
    <2> QED
      BY <1>9, <2>1, <2>2 DEF Execute, Checkpoint, Progress, Chunk, Complete, CompleteLost,
                              MergeNothing, WriteFails, Record
  <1>10. CASE Start \/ Fetch \/ Finalize \/ Challenged \/ Failed \/ Solve \/ Alarm \/ Resend \/ TimeOut
    BY <1>1, <1>10 DEF Start, Fetch, Finalize, Challenged, Failed, Solve, Alarm, Resend, TimeOut,
                       wire
  <1>11. CASE Dispatch
    BY <1>11, TailRange DEF Dispatch, TypedWire
  <1>12. CASE Connect
    <2> DEFINE S == {JobFrame(j, FALSE) : j \in queue \cup inflight}
    <2>1. IsFiniteSet(Job) BY IngestAssumption
    <2>2. IsFiniteSet(queue \cup inflight) BY <2>1, FS_Subset DEF TypedJobs
    <2>3. IsFiniteSet(S)
      <3> DEFINE f == [j \in queue \cup inflight |-> JobFrame(j, FALSE)]
      <3>1. f \in Surjection(queue \cup inflight, S) BY DEF Surjection
      <3> HIDE DEF f, S
      <3> QED BY <2>2, <3>1, FS_Surjection
    <2>4. S \subseteq DownFrame /\ \A m \in S : m.type = "job" /\ m.from \in {hint[m.job], next[m.job]}
      <3>1. ASSUME NEW m \in S
            PROVE  m \in DownFrame /\ m.type = "job" /\ m.from \in {hint[m.job], next[m.job]}
        <4> PICK j \in queue \cup inflight : m = JobFrame(j, FALSE) BY <3>1
        <4>1. j \in Job BY DEF TypedJobs
        <4> QED BY <1>5, <4>1, Offered
      <3> QED BY <3>1
    <2>5. SetToSeq(S) \in Seq(S) /\ Range(SetToSeq(S)) \subseteq S
      BY <2>3, SetToSeqRange
    <2>6. SetToSeq(S) \in Seq(DownFrame)
      <3> PICK s : s = SetToSeq(S) OBVIOUS
      <3> HIDE DEF S
      <3>1. s \in Seq(S) BY <2>5
      <3> QED BY <2>4, <3>1
    <2>7. down' = SetToSeq(S) /\ linked' /\ hint' = hint /\ next' = next
      BY <1>12 DEF Connect, jobs, chk
    <2> HIDE DEF S
    <2> QED BY <2>4, <2>5, <2>6, <2>7 DEF Says
  <1>13. CASE Drop \/ WorkerRestart \/ HelperRestart
    BY <1>2, <1>13 DEF Drop, WorkerRestart, Restarted, HelperRestart, Cut
  <1>14. CASE UNCHANGED vars
    BY <1>1, <1>14 DEF vars, wire
  <1> QED
    BY <1>6, <1>7, <1>8, <1>9, <1>10, <1>11, <1>12, <1>13, <1>14, NextKinds DEF Browser, Helper

LEMMA WireTyped ==
    ASSUME Typed, [Next]_vars
    PROVE  TypedWire'
  <1>1. linked' \in BOOLEAN
    <2>1. CASE Helper \/ Person \/ Reload
      BY <2>1, HelperLeaves DEF Typed, TypedWire
    <2>2. CASE ~(Helper \/ Person \/ Reload)
      BY <2>2, NextKinds DEF Typed, TypedWire, HelperRestart, Browser, Start, Fetch, Finalize,
                             Challenged, Failed, Dispatch, Solve, Alarm, Resend, TimeOut, Connect,
                             Drop, WorkerRestart, Restarted, Cut, wire, vars
    <2> QED BY <2>1, <2>2
  <1> QED BY <1>1, UpSteps, DownSteps DEF TypedWire

\* Faults are counted, and a restart of the helper stays counted.
LEMMA CountSteps ==
    ASSUME Typed, [Next]_vars
    PROVE  /\ count' \in [Fault -> Nat]
           /\ count'["helper"] = 0 => count["helper"] = 0 /\ ~HelperRestart
  <1> USE DEF Typed, TypedRest
  <1>1. ASSUME UNCHANGED count, ~HelperRestart
        PROVE  /\ count' \in [Fault -> Nat]
               /\ count'["helper"] = 0 => count["helper"] = 0 /\ ~HelperRestart
    BY <1>1
  <1>2. ASSUME NEW f \in Fault, Happens(f), f = "helper" \/ ~HelperRestart
        PROVE  /\ count' \in [Fault -> Nat]
               /\ count'["helper"] = 0 => count["helper"] = 0 /\ ~HelperRestart
    <2>1. "helper" \in Fault BY DEF Fault
    <2> QED BY <1>2, <2>1, HappensCounts
  <1>3. CASE HelperRestart
    BY <1>2, <1>3 DEF HelperRestart, Fault
  <1>4. CASE ~HelperRestart
    <2>1. \/ UNCHANGED count
          \/ \E f \in Fault : Happens(f)
      <3>1. CASE Person \/ Reload
        BY <3>1 DEF Person, Submit, Retry, Reload, Fault
      <3>2. CASE Helper
        BY <3>2 DEF Helper, Handle, Receive, Execute, Checkpoint, Progress, Chunk, Complete,
             CompleteLost, Merge, MergeNothing, Write, WriteFails, Record, Answer, Fault
      <3>3. CASE Browser
        BY <3>3 DEF Browser, Start, Fetch, Finalize, Challenged, Failed, Dispatch, Fault
      <3>4. CASE Solve \/ Alarm \/ Resend \/ TimeOut \/ Connect \/ Drop \/ WorkerRestart
        BY <3>4 DEF Solve, Alarm, Resend, TimeOut, Connect, Drop, WorkerRestart, Fault
      <3> QED BY <1>4, <3>1, <3>2, <3>3, <3>4, NextKinds DEF vars
    <2> QED BY <1>1, <1>2, <1>4, <2>1
  <1> QED BY <1>3, <1>4

-----------------------------------------------------------------------------
(* Where the extension's positions come from.                              *)

\* The reply that a run waits for is there, and tells it that p is kept.
Acknowledged(j, p) ==
    /\ cur = j /\ at = "ack" /\ req # NoReq /\ p = req.batch
    /\ \E m \in Range(down) : m.type = "reply" /\ m.id = req.id /\ m.ok

\* A position the extension can know of.
Known(j, p) ==
    \/ p = 0 \/ p = local[j] \/ (cur = j /\ p = pos) \/ Acknowledged(j, p)
    \/ \E item \in Range(line) : item.job = j /\ item.from = p
    \/ \E m \in Range(down) : m.type = "job" /\ m.job = j /\ m.from = p

Item == [job : Job, from : Offset]

\* What is put in line (Enqueue).
LEMMA Enqueued ==
    ASSUME Typed, NEW j \in Job, NEW from \in Offset, NEW retry, Enqueue(j, from, retry)
    PROVE  /\ line' \in Seq(Item) /\ seen' \subseteq Job
           /\ \A item \in Range(line') : item \in Range(line) \/ (item.job = j /\ item.from = from)
  <1>1. [job |-> j, from |-> from] \in Item BY DEF Item
  <1>2. line \in Seq(Item) /\ seen \subseteq Job BY DEF Typed, TypedRest, Item
  <1>3. CASE line' = Append(line, [job |-> j, from |-> from]) /\ seen' = seen \cup {j}
    <2>1. /\ line' \in Seq(Item)
          /\ Range(line') \subseteq Range(line) \cup {[job |-> j, from |-> from]}
      BY <1>1, <1>2, <1>3, AppendRange
    <2> QED BY <1>2, <1>3, <2>1
  <1>4. CASE UNCHANGED backlog
    BY <1>2, <1>4 DEF backlog
  <1> QED BY <1>3, <1>4 DEF Enqueue

\* Types of the extension, and where its positions come from.
LEMMA RestSteps ==
    ASSUME Typed, [Next]_vars
    PROVE  /\ TypedRest'
           /\ \A j \in Job : Known(j, local'[j]) /\ (cur' = j => Known(j, pos'))
           /\ \A item \in Range(line') : Known(item.job, item.from)
  <1> DEFINE T == /\ seen' \subseteq Job /\ line' \in Seq(Item)
                  /\ local' \in [Job -> Offset] /\ cycle' \in [Job -> Nat]
                  /\ info' \in Job \cup {NoJob} /\ shown' \in {info', NoJob}
                  /\ watching' \in BOOLEAN /\ (watching' => shown' # NoJob) /\ forgot' \subseteq Job
             K == /\ \A j \in Job : Known(j, local'[j]) /\ (cur' = j => Known(j, pos'))
                  /\ \A item \in Range(line') : Known(item.job, item.from)
  <1> USE DEF Typed
  <1>0. 0 \in Offset /\ NoJob \notin Job BY IngestAssumption DEF Offset
  <1>1. /\ seen \subseteq Job /\ line \in Seq(Item) /\ Range(line) \subseteq Item
        /\ local \in [Job -> Offset] /\ cycle \in [Job -> Nat]
        /\ info \in Job \cup {NoJob} /\ shown \in {info, NoJob}
        /\ watching \in BOOLEAN /\ (watching => shown # NoJob) /\ forgot \subseteq Job
    <2>1. line \in Seq(Item) BY DEF TypedRest, Item
    <2>2. Range(line) \subseteq Item
      <3> HIDE DEF Item
      <3> QED BY <2>1 DEF Range
    <2> QED BY <2>1, <2>2 DEF TypedRest
  <1>2. ASSUME UNCHANGED line PROVE \A item \in Range(line') : Known(item.job, item.from)
    BY <1>2 DEF Known
  <1>3. ASSUME UNCHANGED local PROVE \A j \in Job : Known(j, local'[j])
    BY <1>3 DEF Known
  <1>4. ASSUME UNCHANGED <<cur, pos>> \/ EndRun PROVE \A j \in Job : cur' = j => Known(j, pos')
    BY <1>4 DEF Known, EndRun
  <1>5. ASSUME UNCHANGED extension PROVE T /\ K
    BY <1>1, <1>2, <1>3, <1>4, <1>5 DEF extension, runner, backlog, challenge
  <1>6. ASSUME Start PROVE T /\ K
    <2> PICK item : item = Head(line) OBVIOUS
    <2>1. /\ line # <<>> /\ line' = Tail(line) /\ cur' = item.job
          /\ pos' = (IF item.from # 0 THEN item.from ELSE local[item.job])
          /\ info' = NoJob /\ shown' = NoJob /\ watching' = FALSE
          /\ forgot' = (forgot \ {cur'}) \cup ({info} \ ({NoJob} \cup {line[k].job : k \in DOMAIN line}))
          /\ UNCHANGED <<seen, cycle, local>>
      BY <1>6 DEF Start
    <2>2. /\ line' \in Seq(Item) /\ Range(line') \subseteq Range(line) /\ item \in Range(line)
      BY <1>1, <2>1, TailRange
    <2>3. \A j \in Job : cur' = j => Known(j, pos')
      BY <2>1, <2>2 DEF Known
    <2>4. \A i \in Range(line') : Known(i.job, i.from)
      BY <2>2 DEF Known
    <2>5. forgot' \subseteq Job
      <3> PICK away : away = {NoJob} \cup {line[k].job : k \in DOMAIN line} OBVIOUS
      <3>1. forgot' = (forgot \ {cur'}) \cup ({info} \ away) /\ NoJob \in away BY <2>1
      <3> QED BY <1>1, <3>1
    <2> QED BY <1>1, <1>3, <2>1, <2>2, <2>3, <2>4, <2>5
  <1>7. ASSUME Fetch \/ Failed \/ TimeOut PROVE T /\ K
    <2>1. UNCHANGED <<backlog, challenge, local>> /\ (UNCHANGED <<cur, pos>> \/ EndRun)
      BY <1>7 DEF Fetch, Failed, TimeOut
    <2> QED BY <1>1, <1>2, <1>3, <1>4, <2>1 DEF backlog, challenge
  <1>8. ASSUME Finalize \/ Challenged PROVE T /\ K
    <2>1. /\ UNCHANGED <<backlog, cur, pos, cycle>> /\ cur \in Job /\ pos \in Offset
          /\ local' = [local EXCEPT ![cur] = 0] \/ local' = [local EXCEPT ![cur] = pos]
          /\ \/ UNCHANGED <<info, shown, watching>>
             \/ info' = cur /\ shown' = cur /\ watching' = TRUE
          /\ UNCHANGED forgot
      BY <1>8 DEF Finalize, Challenged, challenge, TypedRun
    <2>2. local' \in [Job -> Offset] /\ \A j \in Job : Known(j, local'[j])
      BY <1>0, <1>1, <2>1 DEF Known
    <2>3. /\ watching' \in BOOLEAN /\ (watching' => shown' # NoJob)
          /\ info' \in Job \cup {NoJob} /\ shown' \in {info', NoJob}
      <3>1. CASE UNCHANGED <<info, shown, watching>> BY <1>1, <3>1, Zenon
      <3>2. CASE info' = cur /\ shown' = cur /\ watching' = TRUE BY <1>0, <2>1, <3>2, Zenon
      <3> QED BY <2>1, <3>1, <3>2
    <2> QED BY <1>0, <1>1, <1>2, <1>4, <2>1, <2>2, <2>3 DEF backlog
  <1>9. ASSUME Dispatch PROVE T /\ K
    <2> PICK m : m = Head(down) OBVIOUS
    <2>1. m \in Range(down) /\ m \in DownFrame /\ UNCHANGED challenge
      BY <1>9, TailRange DEF Dispatch, TypedWire
    <2>2. CASE m.type = "reply" /\ Awaits(m.id) /\ Replied(m.ok) /\ UNCHANGED backlog
      <3>1. m.ok \in BOOLEAN /\ req # NoReq /\ m.id = req.id
        BY <2>1, <2>2 DEF DownFrame, Offer, Reply, Awaits
      <3>2. CASE (EndRun \/ UNCHANGED <<cur, pos>>) /\ UNCHANGED local
        BY <1>1, <1>2, <1>3, <1>4, <2>1, <2>2, <3>2 DEF backlog, challenge
      <3>3. CASE /\ m.ok /\ at = "ack" /\ pos' = req.batch
                 /\ local' = [local EXCEPT ![cur] = req.batch] /\ UNCHANGED cur
        <4>1. Acknowledged(cur, req.batch)
          BY <2>1, <2>2, <3>1, <3>3 DEF Acknowledged
        <4>2. req.batch \in Offset /\ cur \in Job
          BY <3>1, <3>3 DEF TypedRun, Asked, Request
        <4>3. local' \in [Job -> Offset] /\ \A j \in Job : Known(j, local'[j])
          BY <1>1, <3>3, <4>1, <4>2 DEF Known
        <4>4. \A j \in Job : cur' = j => Known(j, pos')
          BY <3>3, <4>1 DEF Known
        <4> QED BY <1>1, <1>2, <2>1, <2>2, <4>3, <4>4 DEF backlog, challenge
      <3> QED BY <2>2, <3>1, <3>2, <3>3, RepliedCases
    <2>3. CASE UNCHANGED <<runner, backlog, local>>
      BY <1>1, <1>2, <1>3, <1>4, <2>1, <2>3 DEF backlog, challenge, runner
    <2>4. CASE m.type = "job" /\ Enqueue(m.job, m.from, m.retry) /\ UNCHANGED <<runner, local>>
      <3>1. m.job \in Job /\ m.from \in Offset
        BY <2>1, <2>4 DEF DownFrame, Offer, Reply
      <3>2. /\ line' \in Seq(Item) /\ seen' \subseteq Job
            /\ \A item \in Range(line') : item \in Range(line) \/ (item.job = m.job /\ item.from = m.from)
        BY <2>4, <3>1, Enqueued
      <3>3. \A item \in Range(line') : Known(item.job, item.from)
        BY <2>1, <2>4, <3>2 DEF Known
      <3> QED BY <1>1, <1>3, <1>4, <2>1, <2>4, <3>2, <3>3 DEF challenge, runner
    <2> QED BY <1>9, <2>2, <2>3, <2>4 DEF Dispatch
  <1>10. ASSUME Solve PROVE T /\ K
    <2>1. /\ info \in Job /\ watching' = FALSE /\ cycle' = [cycle EXCEPT ![info] = @ + 1]
          /\ Enqueue(info, local[info], TRUE) /\ UNCHANGED <<runner, info, shown, forgot, local>>
      BY <1>1, <1>10 DEF Solve
    <2>2. local[info] \in Offset BY <1>1, <2>1
    <2>3. /\ line' \in Seq(Item) /\ seen' \subseteq Job
          /\ \A item \in Range(line') : item \in Range(line) \/ (item.job = info /\ item.from = local[info])
      BY <2>1, <2>2, Enqueued
    <2>4. \A item \in Range(line') : Known(item.job, item.from)
      BY <2>3 DEF Known
    <2>5. watching' \in BOOLEAN /\ ~watching' BY <2>1, Zenon
    <2>6. cycle' \in [Job -> Nat] BY <1>1, <2>1
    <2> QED BY <1>1, <1>3, <1>4, <2>1, <2>3, <2>4, <2>5, <2>6 DEF runner
  <1>11. ASSUME Alarm \/ Connect PROVE T /\ K
    <2>1. UNCHANGED <<runner, backlog, cycle, forgot, local>>
      BY <1>11 DEF Alarm, Connect
    <2>2. /\ info' \in Job \cup {NoJob} /\ shown' \in {info', NoJob}
          /\ watching' \in BOOLEAN /\ (watching' => shown' # NoJob)
      <3>1. CASE Alarm
        <4>1. info' = info /\ shown' = info /\ info # NoJob /\ watching' BY <3>1 DEF Alarm
        <4>2. watching' \in BOOLEAN BY <3>1, Zenon DEF Alarm
        <4> QED BY <1>1, <4>1, <4>2
      <3>2. CASE Connect
        <4>1. info' = shown /\ shown' = shown BY <3>2 DEF Connect, ShowAgain
        <4>2. watching' \in BOOLEAN /\ (watching' => shown # NoJob)
          BY <3>2, Zenon DEF Connect, ShowAgain
        <4> QED BY <1>1, <4>1, <4>2
      <3> QED BY <1>11, <3>1, <3>2
    <2> QED BY <1>1, <1>2, <1>3, <1>4, <2>1, <2>2 DEF runner, backlog
  <1>12. ASSUME WorkerRestart PROVE T /\ K
    <2>1. /\ EndRun /\ line' = <<>> /\ seen' = {} /\ cycle' = [j \in Job |-> 0]
          /\ shown' = NoJob /\ watching' = FALSE /\ UNCHANGED <<info, forgot, local>>
      BY <1>12 DEF WorkerRestart, Restarted
    <2>2. line' \in Seq(Item) /\ Range(line') = {} BY <2>1 DEF Range
    <2> QED BY <1>1, <1>3, <1>4, <2>1, <2>2
  <1>13. ASSUME Resend \/ Drop \/ HelperRestart \/ UNCHANGED vars PROVE T /\ K
    BY <1>5, <1>13 DEF Resend, Drop, HelperRestart, vars
  <1>14. ASSUME Helper \/ Person \/ Reload PROVE T /\ K
    BY <1>5, <1>14, HelperLeaves
  <1>15. T /\ K
    BY <1>6, <1>7, <1>8, <1>9, <1>10, <1>11, <1>12, <1>13, <1>14, NextKinds DEF Browser
  <1> QED BY <1>15, CountSteps DEF TypedRest, Item

\* Every variable keeps its type.
LEMMA TypedStep ==
    ASSUME Typed, [Next]_vars
    PROVE  Typed'
  BY JobsTyped, KeptTyped, PoolTyped, WireTyped, RunSteps, RestSteps DEF Typed

LEMMA TypedInit ==
    ASSUME Init
    PROVE  Typed
  <1> USE DEF Init
  <1>1. 0 \in Offset BY IngestAssumption DEF Offset
  <1>2. TypedJobs BY <1>1 DEF TypedJobs, Blank, Result
  <1>3. TypedKept BY <1>1 DEF TypedKept
  <1>4. NoCall \in CallType BY <1>1 DEF NoCall, CallType
  <1>5. TypedCalls BY <1>4 DEF TypedCalls, NoCall
  <1>6. InLine BY DEF InLine
  <1>7. AtWork
    <2>1. Writing = {} BY DEF Writing, NoCall
    <2> QED BY <2>1, FS_EmptySet, IngestAssumption DEF AtWork
  <1>8. TypedWire
    <2>1. linked \in BOOLEAN BY Zenon
    <2>2. up = <<>> /\ down = <<>> OBVIOUS
    <2> QED BY <2>1, <2>2 DEF TypedWire
  <1>9. TypedRun BY <1>1 DEF TypedRun
  <1>10. TypedRest
    <2>1. watching \in BOOLEAN /\ ~watching BY Zenon
    <2>2. /\ seen = {} /\ line = <<>> /\ local \in [Job -> Offset] /\ cycle \in [Job -> Nat]
          /\ info = NoJob /\ shown = NoJob /\ forgot = {} /\ count \in [Fault -> Nat]
      BY <1>1
    <2> QED BY <2>1, <2>2 DEF TypedRest
  <1> QED BY <1>2, <1>3, <1>5, <1>6, <1>7, <1>8, <1>9, <1>10 DEF Typed

\* Every variable has its type, and the pool has no more than its threads at work.
THEOREM TypeCorrect == Spec => []TypeOK
  <1>1. Init => Typed BY TypedInit
  <1>2. Typed /\ [Next]_vars => Typed' BY TypedStep
  <1>3. Typed => TypeOK
    BY DEF Typed, TypedJobs, TypedKept, TypedCalls, InLine, AtWork, TypedWire, TypedRun, TypedRest,
           Asked, TypeOK
  <1> QED BY <1>1, <1>2, <1>3, PTL DEF Spec

-----------------------------------------------------------------------------
(* What the extension takes as kept is at the helper.                      *)

\* A call goes on: it stays what was asked, and is done with what it is for.
GoesOn(i) ==
    /\ calls[i].at # "none"
    /\ calls'[i].op = calls[i].op /\ calls'[i].job = calls[i].job /\ calls'[i].batch = calls[i].batch
    /\ calls'[i].at = "done" /\ calls'[i].ok /\ calls[i].op = "checkpoint" =>
          calls[i].batch \in rows'[calls[i].job]
    /\ calls'[i].at \in {"writing", "recording"} => calls'[i].op = "finalize"
    /\ calls'[i].at = "writing" => calls'[i].got # {}
    /\ calls'[i].at = "recording" => calls[i].at = "writing" /\ file'[calls[i].job] = calls[i].got

\* A call is received.
IsReceived(i) ==
    /\ calls'[i].at = "waiting"
    /\ \E m \in Range(up) :
          /\ m.type = "request" /\ m.id = i
          /\ m.op = calls'[i].op /\ m.job = calls'[i].job /\ m.batch = calls'[i].batch

\* What a step does to a call.
LEMMA CallSteps ==
    ASSUME Typed, Written, [Next]_vars, NEW i \in RequestId
    PROVE  calls'[i] = calls[i] \/ calls'[i] = NoCall \/ IsReceived(i) \/ GoesOn(i)
  <1> USE DEF Typed
  <1>1. calls \in [RequestId -> CallType] BY DEF TypedCalls
  <1>2. CASE Handle
    <2> PICK m : m = Head(up) OBVIOUS
    <2>1. m \in Range(up)
      BY <1>2, TailRange DEF Handle, TypedWire
    <2>2. CASE UNCHANGED calls BY <2>2
    <2>3. CASE m.type = "request" /\ Receive(m)
      <3> DEFINE kept == [id \in RequestId |->
                    IF calls[id].at # "done" \/ Awaits(id) \/ OnItsWay(id) THEN calls[id] ELSE NoCall]
                 new  == [op |-> m.op, job |-> m.job, batch |-> m.batch,
                          at |-> "waiting", ok |-> TRUE, got |-> {}]
      <3>1. calls' = kept \/ calls' = [kept EXCEPT ![m.id] = new]
        BY <2>3 DEF Receive
      <3>2. kept[i] = calls[i] \/ kept[i] = NoCall
        OBVIOUS
      <3>3. CASE calls'[i] = kept[i]
        BY <3>2, <3>3
      <3>4. CASE m.id = i /\ calls'[i] = new
        BY <2>1, <2>3, <3>4 DEF IsReceived
      <3>5. calls'[i] = kept[i] \/ (m.id = i /\ calls'[i] = new)
        <4> HIDE DEF new
        <4> QED BY <3>1
      <3> QED BY <3>3, <3>4, <3>5
    <2> QED BY <1>2, <2>2, <2>3 DEF Handle, Accepted, Required, Resolved, pool
  <1>3. ASSUME NEW k \in RequestId, Execute(k)
        PROVE  calls'[i] = calls[i] \/ GoesOn(i)
    <2>1. CASE i # k
      BY <1>1, <1>3, <2>1 DEF Execute, Checkpoint, Progress, Chunk, Complete, CompleteLost, Merge,
            MergeNothing, Write, WriteFails, Record, Answer
    <2>2. CASE i = k
      <3>1. ASSUME NEW ok \in BOOLEAN, Answer(i, ok), calls[i].at # "none",
                   calls[i].op = "checkpoint" => calls[i].batch \in rows'[calls[i].job]
            PROVE  GoesOn(i)
        <4>1. calls'[i] = [calls[i] EXCEPT !.at = "done", !.ok = ok, !.got = {}]
          BY <1>1, <3>1 DEF Answer
        <4> QED BY <1>1, <3>1, <4>1 DEF GoesOn, CallType
      <3>2. CASE Checkpoint(i)
        <4>1. calls[i].at # "none" /\ calls[i].job \in Job
          BY <3>2, TakenCall DEF Checkpoint
        <4>2. calls[i].batch \in rows'[calls[i].job]
          BY <3>2, <4>1 DEF Checkpoint, TypedKept
        <4> QED BY <3>1, <3>2, <4>1, <4>2 DEF Checkpoint
      <3>3. ASSUME NEW ops, Takes(i, ops), "checkpoint" \notin ops, NEW ok \in BOOLEAN, Answer(i, ok)
            PROVE  GoesOn(i)
        <4>1. calls[i].at # "none" /\ calls[i].op # "checkpoint"
          BY <3>3, TakenCall
        <4> QED BY <3>1, <3>3, <4>1
      <3>4. CASE Progress(i) \/ Chunk(i) \/ Complete(i) \/ CompleteLost(i) \/ MergeNothing(i)
        BY <3>3, <3>4 DEF Progress, Chunk, Complete, CompleteLost, MergeNothing
      <3>5. CASE Merge(i)
        <4>1. calls[i].at # "none" /\ calls[i].op = "finalize"
          BY <3>5, TakenCall DEF Merge
        <4>2. calls'[i] = [calls[i] EXCEPT !.at = "writing", !.got = rows[calls[i].job]]
              /\ rows[calls[i].job] # {}
          BY <1>1, <3>5 DEF Merge
        <4> QED BY <1>1, <4>1, <4>2 DEF GoesOn, CallType
      <3>6. CASE Write(i)
        <4>1. calls'[i] = [calls[i] EXCEPT !.at = "recording"] /\ calls[i].at = "writing"
              /\ file' = [file EXCEPT ![calls[i].job] = calls[i].got]
          BY <1>1, <3>6 DEF Write
        <4>2. calls[i].job \in Job BY <4>1 DEF TypedCalls
        <4> QED BY <1>1, <4>1, <4>2 DEF GoesOn, CallType, TypedKept, Written
      <3>7. CASE Record(i)
        <4>1. calls[i].at = "recording" /\ Answer(i, TRUE) BY <3>7 DEF Record
        <4>2. calls'[i] = [calls[i] EXCEPT !.at = "done", !.ok = TRUE, !.got = {}]
          BY <1>1, <4>1 DEF Answer
        <4>3. calls[i].op # "checkpoint" BY <4>1 DEF Written
        <4> QED BY <1>1, <4>1, <4>2, <4>3 DEF GoesOn, CallType
      <3>8. CASE WriteFails(i)
        <4>1. calls[i].at = "writing" /\ Answer(i, FALSE) BY <3>8 DEF WriteFails
        <4>2. calls[i].op # "checkpoint" BY <4>1 DEF Written
        <4> QED BY <3>1, <4>1, <4>2
      <3> QED BY <1>3, <2>2, <3>2, <3>4, <3>5, <3>6, <3>7, <3>8 DEF Execute
    <2> QED BY <2>1, <2>2
  <1>4. CASE HelperRestart
    BY <1>4 DEF HelperRestart
  <1>5. CASE UNCHANGED pool
    BY <1>5 DEF pool
  <1> QED
    BY <1>2, <1>3, <1>4, <1>5, NextKinds, ExtensionLeaves, PersonLeaves DEF Helper, vars

\* A file that is about to be written, or was, is not empty, step by step.
LEMMA WrittenStep ==
    ASSUME Typed, Written, [Next]_vars
    PROVE  Written'
  <1> USE DEF Typed
  <1>1. \A j \in Job : file[j] # {} => file'[j] # {}
    <2>1. CASE \E i \in RequestId : Write(i)
      <3> PICK i \in RequestId : Write(i) BY <2>1
      <3>1. /\ calls[i].at = "writing" /\ file' = [file EXCEPT ![calls[i].job] = calls[i].got]
        BY DEF Write
      <3>2. calls[i].got # {} BY <3>1 DEF Written
      <3> QED BY <3>1, <3>2 DEF TypedKept
    <2>2. CASE ~\E i \in RequestId : Write(i)
      <3>1. UNCHANGED file
        <4>1. CASE Helper
          BY <2>2, <4>1 DEF Helper, Handle, Accepted, Required, Resolved, Receive, stored, Execute,
               Checkpoint, Progress, Chunk, Complete, CompleteLost, Merge, MergeNothing,
               WriteFails, Record
        <4>2. CASE ~Helper
          BY <4>2, NextKinds, ExtensionLeaves, PersonLeaves DEF stored, HelperRestart, vars
        <4> QED BY <4>1, <4>2
      <3> QED BY <3>1
    <2> QED BY <2>1, <2>2
  <1>2. ASSUME NEW i \in RequestId
        PROVE  /\ calls'[i].at \in {"writing", "recording"} => calls'[i].op = "finalize"
               /\ calls'[i].at = "writing" => calls'[i].got # {}
               /\ calls'[i].at = "recording" => file'[calls'[i].job] # {}
    <2>1. CASE calls'[i] = calls[i]
      BY <1>1, <2>1 DEF Written, TypedCalls
    <2>2. CASE calls'[i] = NoCall
      BY <2>2 DEF NoCall
    <2>3. CASE IsReceived(i)
      BY <2>3 DEF IsReceived
    <2>4. CASE GoesOn(i)
      BY <2>4 DEF GoesOn, Written
    <2> QED BY <2>1, <2>2, <2>3, <2>4, CallSteps
  <1> QED BY <1>2 DEF Written

\* What is known of a request stays what the run asked.
LEMMA AgreeStep ==
    ASSUME Typed, Written, Agree, [Next]_vars
    PROVE  Agree'
  <1> SUFFICES ASSUME req' # NoReq PROVE Agree'
    BY DEF Agree
  <1> USE DEF Typed
  <1> PICK r : r = req' OBVIOUS
  <1>0. r \in Asked /\ r.id \in RequestId
    BY RunSteps DEF TypedRun, Asked, Request
  <1>1. CASE UNCHANGED <<req, cur, at>>
    <2>1. \A m \in Range(up') : m.type = "request" /\ m.id = r.id => m = r
      BY <1>1, UpSteps DEF Agree
    <2>2. ASSUME calls'[r.id].at # "none"
          PROVE  calls'[r.id].op = r.op /\ calls'[r.id].job = r.job /\ calls'[r.id].batch = r.batch
      <3>1. CASE calls'[r.id] = calls[r.id] BY <1>1, <2>2, <3>1 DEF Agree
      <3>2. CASE calls'[r.id] = NoCall BY <2>2, <3>2 DEF NoCall
      <3>3. CASE IsReceived(r.id)
        <4> PICK m \in Range(up) :
              /\ m.type = "request" /\ m.id = r.id
              /\ m.op = calls'[r.id].op /\ m.job = calls'[r.id].job /\ m.batch = calls'[r.id].batch
          BY <3>3 DEF IsReceived
        <4>1. m = r BY <1>1 DEF Agree
        <4> QED BY <4>1
      <3>4. CASE GoesOn(r.id) BY <1>1, <3>4 DEF Agree, GoesOn
      <3> QED BY <1>0, <3>1, <3>2, <3>3, <3>4, CallSteps
    <2>3. r.job = cur' /\ (at' = "ack" => r.op = "checkpoint")
      BY <1>1 DEF Agree
    <2> QED BY <2>1, <2>2, <2>3 DEF Agree
  <1>2. CASE AsksAnew
    <2>1. /\ r.id \in FreshIds /\ calls' = calls /\ r.job = cur'
          /\ (at' = "ack" => r.op = "checkpoint")
      BY <1>2 DEF AsksAnew, pool
    <2>2. \A m \in Range(up) : ~(m.type = "request" /\ m.id = r.id)
      BY <2>1 DEF FreshIds, OnItsWay, Range
    <2>3. calls'[r.id].at = "none"
      BY <2>1 DEF FreshIds
    <2>4. \A m \in Range(up') : m.type = "request" /\ m.id = r.id => m = r
      BY <2>2, UpSteps
    <2> QED BY <2>1, <2>3, <2>4 DEF Agree
  <1> QED BY <1>1, <1>2, RunSteps

\* Batches that are kept stay, until a restart of the helper or a result; and the
\* positions the helper has move only with a checkpoint.
LEMMA RowsSteps ==
    ASSUME Typed, Written, [Next]_vars, NEW j \in Job, Safe(j)'
    PROVE  /\ Safe(j) /\ rows[j] \subseteq rows'[j] /\ hint'[j] \in {hint[j], next[j]}
           /\ \/ next'[j] = next[j]
              \/ \E i \in RequestId : /\ calls[i].op = "checkpoint" /\ calls[i].job = j
                                     /\ next'[j] = calls[i].batch /\ next'[j] \in rows'[j]
  <1> USE DEF Typed
  <1>1. count["helper"] = 0 /\ ~HelperRestart /\ file'[j] = {}
    BY CountSteps DEF Safe
  <1>2. ASSUME UNCHANGED <<chk, file, hint>>
        PROVE  Safe(j) /\ rows[j] \subseteq rows'[j] /\ hint'[j] = hint[j] /\ next'[j] = next[j]
    BY <1>1, <1>2 DEF Safe, chk
  <1>3. CASE Handle
    <2> PICK m : m = Head(up) OBVIOUS
    <2>1. CASE Resolved(m.job, m.cycle)
      <3>1. UNCHANGED <<chk, file>> BY <2>1 DEF Resolved, stored
      <3>2. hint'[j] \in {hint[j], next[j]} BY <2>1 DEF Resolved, jobs, TypedJobs
      <3> QED BY <1>1, <3>1, <3>2 DEF Safe, chk
    <2>2. CASE Accepted(m.job) \/ Required(m.job) \/ Receive(m)
      <3>1. UNCHANGED <<chk, file, hint>>
        BY <2>2 DEF Accepted, Required, Receive, jobs, stored
      <3> QED BY <1>2, <3>1
    <2> QED BY <1>3, <2>1, <2>2 DEF Handle
  <1>4. ASSUME NEW i \in RequestId, Execute(i)
        PROVE  /\ Safe(j) /\ rows[j] \subseteq rows'[j] /\ hint'[j] = hint[j]
               /\ \/ next'[j] = next[j]
                  \/ /\ calls[i].op = "checkpoint" /\ calls[i].job = j
                     /\ next'[j] = calls[i].batch /\ next'[j] \in rows'[j]
    <2>1. hint' = hint
      BY <1>4 DEF Execute, Checkpoint, Progress, Chunk, Complete, CompleteLost, Merge, MergeNothing,
            Write, WriteFails, Record, Conclude, jobs
    <2>2. CASE Checkpoint(i)
      <3>1. calls[i].op = "checkpoint" BY <2>2, TakenCall DEF Checkpoint
      <3>2. /\ rows' = [rows EXCEPT ![calls[i].job] = @ \cup {calls[i].batch}]
            /\ next' = [next EXCEPT ![calls[i].job] = calls[i].batch] /\ file' = file
        BY <2>2 DEF Checkpoint
      <3>3. Safe(j) BY <1>1, <3>2 DEF Safe
      <3> QED BY <2>1, <3>1, <3>2, <3>3 DEF TypedKept
    <2>3. CASE \/ Progress(i) \/ Chunk(i) \/ Complete(i) \/ CompleteLost(i)
               \/ Merge(i) \/ MergeNothing(i) \/ WriteFails(i)
      <3>1. UNCHANGED <<chk, file>>
        BY <2>3 DEF Progress, Chunk, Complete, CompleteLost, Merge, MergeNothing, WriteFails, stored
      <3> QED BY <1>2, <2>1, <3>1
    <2>4. CASE Write(i)
      <3>1. calls[i].got # {} /\ UNCHANGED chk /\ file' = [file EXCEPT ![calls[i].job] = calls[i].got]
        BY <2>4 DEF Write, Written
      <3>2. file[j] = {} BY <1>1, <3>1 DEF TypedKept
      <3> QED BY <1>1, <2>1, <3>1, <3>2 DEF Safe, chk
    <2>5. CASE Record(i)
      <3>1. /\ file' = file /\ file[calls[i].job] # {}
            /\ rows' = [rows EXCEPT ![calls[i].job] = {}]
            /\ next' = [next EXCEPT ![calls[i].job] = 0]
        BY <2>5 DEF Record, Written
      <3>2. j # calls[i].job BY <1>1, <3>1
      <3> QED BY <1>1, <2>1, <3>1, <3>2 DEF Safe, TypedKept
    <2> QED BY <1>4, <2>2, <2>3, <2>4, <2>5 DEF Execute
  <1>5. CASE Person \/ Reload
    <2>1. UNCHANGED <<chk, file, hint>>
      BY <1>5, PersonLeaves DEF Person, Submit, Retry, Reload
    <2> QED BY <1>2, <2>1
  <1>6. CASE UNCHANGED <<jobs, chk, pool, stored>>
    BY <1>2, <1>6 DEF jobs, stored
  <1> QED BY <1>1, <1>3, <1>4, <1>5, <1>6, NextKinds, ExtensionLeaves DEF Helper, vars

\* What the extension can know of is at the helper.
LEMMA KnownIsThere ==
    ASSUME Typed, Agree, AllKept, NEW j \in Job, Safe(j), NEW p, Known(j, p)
    PROVE  Has(j, p)
  <1>1. HasFields(j) /\ HasLine(j) /\ HasOffers(j) /\ HasReplies(j)
    BY DEF AllKept
  <1>2. CASE p = 0
    BY <1>2 DEF Has
  <1>3. CASE Acknowledged(j, p)
    BY <1>1, <1>3 DEF Acknowledged, Agree, HasReplies
  <1> QED BY <1>1, <1>2, <1>3 DEF Known, HasFields, HasLine, HasOffers

LEMMA KeptStep ==
    ASSUME IInv, [Next]_vars
    PROVE  AllKept'
  <1> USE DEF IInv
  <1> SUFFICES ASSUME NEW j \in Job, Safe(j)'
               PROVE  /\ HasFields(j)' /\ HasLine(j)' /\ HasOffers(j)'
                      /\ HasAsked(j)' /\ HasCalls(j)' /\ HasReplies(j)'
    BY DEF AllKept
  <1>1. /\ Safe(j) /\ rows[j] \subseteq rows'[j] /\ hint'[j] \in {hint[j], next[j]}
        /\ \/ next'[j] = next[j]
           \/ \E i \in RequestId : /\ calls[i].op = "checkpoint" /\ calls[i].job = j
                                  /\ next'[j] = calls[i].batch /\ next'[j] \in rows'[j]
    BY RowsSteps
  <1>2. HasFields(j) /\ HasLine(j) /\ HasOffers(j) /\ HasAsked(j) /\ HasCalls(j) /\ HasReplies(j)
    BY <1>1 DEF AllKept
  <1>3. \A p : Has(j, p) => 1..p \subseteq rows'[j]
    BY <1>1 DEF Has
  <1>4. ASSUME NEW b \in Batch, Has(j, b - 1), b \in rows'[j] PROVE 1..b \subseteq rows'[j]
    <2>1. 1..b = (1..b - 1) \cup {b} BY DEF Batch
    <2> QED BY <1>3, <1>4, <2>1
  <1>5. \A p : Known(j, p) => Has(j, p)
    BY <1>1, KnownIsThere
  <1>6. HasFields(j)'
    <2>1. 1..hint'[j] \subseteq rows'[j]
      BY <1>1, <1>2, <1>3 DEF HasFields
    <2>2. 1..next'[j] \subseteq rows'[j]
      <3>1. CASE next'[j] = next[j] BY <1>2, <1>3, <3>1 DEF HasFields
      <3>2. ASSUME NEW i \in RequestId, calls[i].op = "checkpoint", calls[i].job = j,
                   next'[j] = calls[i].batch, next'[j] \in rows'[j]
            PROVE  1..next'[j] \subseteq rows'[j]
        <4>1. calls[i].batch \in Batch BY <3>2 DEF Typed, TypedCalls
        <4>2. Has(j, calls[i].batch - 1) BY <1>2, <3>2 DEF HasCalls
        <4> QED BY <1>4, <3>2, <4>1, <4>2
      <3> QED BY <1>1, <3>1, <3>2
    <2>3. 1..local'[j] \subseteq rows'[j] /\ (cur' = j => 1..pos' \subseteq rows'[j])
      BY <1>3, <1>5, RestSteps
    <2> QED BY <2>1, <2>2, <2>3 DEF HasFields, Has
  <1>7. HasLine(j)'
    <2>1. ASSUME NEW item \in Range(line'), item.job = j PROVE 1..item.from \subseteq rows'[j]
      BY <1>3, <1>5, <2>1, RestSteps
    <2> QED BY <2>1 DEF HasLine, Has
  <1>8. HasOffers(j)'
    <2>1. ASSUME NEW m \in Range(down'), m.type = "job", m.job = j PROVE 1..m.from \subseteq rows'[j]
      <3>1. CASE m \in Range(down) BY <1>2, <1>3, <2>1, <3>1 DEF HasOffers
      <3>2. CASE m.from \in {hint'[m.job], next'[m.job]} BY <1>6, <2>1, <3>2 DEF HasFields, Has
      <3> QED BY <2>1, <3>1, <3>2, DownSteps DEF Says
    <2> QED BY <2>1 DEF HasOffers, Has
  <1>9. req' # NoReq /\ req'.op = "checkpoint" /\ req'.job = j => 1..req'.batch - 1 \subseteq rows'[j]
    <2> SUFFICES ASSUME req' # NoReq, req'.op = "checkpoint", req'.job = j
                 PROVE  1..req'.batch - 1 \subseteq rows'[j]
      OBVIOUS
    <2>1. CASE UNCHANGED <<req, cur, at>> BY <1>2, <1>3, <2>1 DEF HasAsked
    <2>2. CASE AsksAnew
      <3>1. cur = j /\ req'.batch = pos + 1 /\ pos \in Nat
        BY <2>2 DEF AsksAnew, Typed, TypedRun, Offset
      <3>2. req'.batch - 1 = pos BY <3>1
      <3> QED BY <1>2, <1>3, <3>1, <3>2 DEF HasFields
    <2> QED BY <2>1, <2>2, RunSteps
  <1>10. HasAsked(j)'
    <2>1. ASSUME NEW m \in Range(up'), m.type = "request", m.op = "checkpoint", m.job = j
          PROVE  1..m.batch - 1 \subseteq rows'[j]
      <3>1. CASE m \in Range(up) BY <1>2, <1>3, <2>1, <3>1 DEF HasAsked
      <3>2. CASE req' # NoReq /\ m = req' BY <1>9, <2>1, <3>2
      <3> QED BY <2>1, <3>1, <3>2, UpSteps
    <2> QED BY <1>9, <2>1 DEF HasAsked, Has
  <1>11. HasCalls(j)'
    <2>1. ASSUME NEW i \in RequestId, calls'[i].op = "checkpoint", calls'[i].job = j
          PROVE  /\ 1..calls'[i].batch - 1 \subseteq rows'[j]
                 /\ calls'[i].at = "done" /\ calls'[i].ok => 1..calls'[i].batch \subseteq rows'[j]
      <3>1. CASE calls'[i] = calls[i] BY <1>2, <1>3, <2>1, <3>1 DEF HasCalls
      <3>2. CASE calls'[i] = NoCall BY <2>1, <3>2 DEF NoCall
      <3>3. CASE IsReceived(i) BY <1>2, <1>3, <2>1, <3>3 DEF IsReceived, HasAsked
      <3>4. CASE GoesOn(i)
        <4>1. calls[i].op = "checkpoint" /\ calls[i].job = j /\ calls'[i].batch = calls[i].batch
          BY <2>1, <3>4 DEF GoesOn
        <4>2. calls[i].batch \in Batch /\ Has(j, calls[i].batch - 1)
          BY <1>2, <4>1 DEF Typed, TypedCalls, HasCalls
        <4> QED BY <1>3, <1>4, <3>4, <4>1, <4>2 DEF GoesOn
      <3> QED BY <3>1, <3>2, <3>3, <3>4, CallSteps
    <2> QED BY <2>1 DEF HasCalls, Has
  <1>12. HasReplies(j)'
    <2> SUFFICES ASSUME req' # NoReq, req'.op = "checkpoint", req'.job = j,
                        NEW m \in Range(down'), m.type = "reply", m.id = req'.id, m.ok
                 PROVE  1..req'.batch \subseteq rows'[j]
      BY DEF HasReplies, Has
    <2>1. CASE ~(m \in Range(down))
      <3>1. calls'[m.id].at = "done" /\ calls'[m.id].ok
        BY <2>1, DownSteps DEF Says
      <3>2. m.id \in RequestId BY RunSteps DEF TypedRun, Asked, Request
      <3>3. /\ calls'[m.id].op = "checkpoint" /\ calls'[m.id].job = j
            /\ calls'[m.id].batch = req'.batch
        BY <3>1, AgreeStep DEF Agree
      <3> QED BY <1>11, <3>1, <3>2, <3>3 DEF HasCalls, Has
    <2>2. CASE m \in Range(down) /\ UNCHANGED <<req, cur, at>>
      BY <1>2, <1>3, <2>2 DEF HasReplies
    <2>3. CASE AsksAnew
      <3>1. m \in Range(down) /\ m.id \in FreshIds BY <2>3 DEF AsksAnew
      <3> QED BY <3>1 DEF FreshIds, Range
    <2> QED BY <2>1, <2>2, <2>3, RunSteps
  <1> QED BY <1>6, <1>7, <1>8, <1>10, <1>11, <1>12

LEMMA InvInit ==
    ASSUME Init
    PROVE  IInv
  <1>1. Agree /\ Written BY DEF Init, Agree, Written, NoCall
  <1>2. AllKept
    <2>1. \A j \in Job : Has(j, 0) BY DEF Has
    <2>2. Range(<<>>) = {} BY DEF Range
    <2> QED BY <2>1, <2>2, IngestAssumption DEF Init, Blank, NoCall, AllKept, HasFields, HasLine,
               HasOffers, HasAsked, HasCalls, HasReplies
  <1> QED BY <1>1, <1>2, TypedInit DEF IInv

\* Until the helper restarts or writes a result, no batch that the extension takes
\* as kept, in its checkpoint or its run, is missing at the helper.
THEOREM KeptCorrect == Spec => []KeptIsThere
  <1>1. Init => IInv
    BY InvInit
  <1>2. IInv /\ [Next]_vars => IInv'
    BY TypedStep, AgreeStep, WrittenStep, KeptStep DEF IInv
  <1>3. IInv => KeptIsThere
    BY DEF IInv, AllKept, HasFields, Has, Safe, KeptIsThere
  <1> QED BY <1>1, <1>2, <1>3, PTL DEF Spec
=============================================================================
