---------------------------- MODULE MemoryProofs ----------------------------
(***************************************************************************)
(* Theorems about the memory pipeline.  Phase 1 (MemoryStage1): for every  *)
(* finite set of threads, every set of workers and every cap, retry budget *)
(* and range of sources.  Phase 2 (MemoryPhase2): for every set of threads *)
(* and of consolidators and every limit on the selection.                  *)
(***************************************************************************)
EXTENDS MemoryStage1, MemoryPhase2, FiniteSetTheorems, TLAPS

\* A running job has attempts left and reads a source that is newer than its
\* last success; a job that was never claimed has no input.
JobsAhead ==
    \A t \in Thread :
        /\ job[t].status = "running" => job[t].remaining > 0 /\ job[t].input > job[t].success
        /\ job[t].status = "none" => job[t].input = 0

\* A worker that still owns its claim holds the source the job was claimed
\* for, and does not claim a thread again while it processes it.
ClaimsMatch ==
    \A w \in Worker, t \in Thread :
        /\ Owns(w, t) /\ held[w][t] # 0 => held[w][t] = job[t].input
        /\ seen[w][t] # 0 => held[w][t] = 0

\* The inductive invariant of phase 1.
IInv == TypeOK /\ JobsAhead /\ ClaimsMatch /\ OutputIsLastSuccess /\ LeasesWithinCap

\* A row of the job table is made of typed fields.
LEMMA JobFields ==
    ASSUME TypeOK, NEW t \in Thread
    PROVE  /\ job[t] \in JobRow /\ job[t].remaining \in 0 .. Retries
           /\ job[t].input \in 0 .. MaxSource /\ job[t].success \in 0 .. MaxSource
           /\ output[t] \in OutputRow /\ output[t].source \in 0 .. MaxSource
           /\ output[t].selected \in 0 .. MaxSource
  BY DEF TypeOK, JobRow, OutputRow

\* The rows that are written are well typed.
LEMMA RowTypes ==
    /\ NoJob \in JobRow /\ NoOutput \in OutputRow
    /\ TypeOK => \A t \in Thread : DoneJob(t) \in JobRow
    /\ TypeOK => \A w \in Worker, t \in Thread, source \in 0 .. MaxSource :
           ClaimedJob(w, t, source) \in JobRow
<1> USE MaxSourceAssumption, RetriesAssumption
<1>1. NoJob \in JobRow /\ NoOutput \in OutputRow
  BY DEF NoJob, NoOutput, JobRow, OutputRow, Lease, Backoff
<1>2. ASSUME TypeOK, NEW t \in Thread PROVE DoneJob(t) \in JobRow
  BY <1>2, JobFields DEF DoneJob, JobRow, Lease
<1>3. ASSUME TypeOK, NEW w \in Worker, NEW t \in Thread, NEW source \in 0 .. MaxSource
      PROVE  ClaimedJob(w, t, source) \in JobRow
  <2>1. Retries \in 0 .. Retries
    OBVIOUS
  <2> QED
    BY <1>3, <2>1, JobFields DEF ClaimedJob, JobRow, Lease, Backoff
<1> QED
  BY <1>1, <1>2, <1>3

\* Everything phase 1 claims of a state except the cap on live leases.
RowInv == TypeOK /\ JobsAhead /\ ClaimsMatch /\ OutputIsLastSuccess

\* The initial rows satisfy the invariant.
LEMMA RowInit == Init => RowInv
<1> SUFFICES ASSUME Init PROVE RowInv
  OBVIOUS
<1> USE MaxSourceAssumption, RetriesAssumption, RowTypes
<1>1. TypeOK
  BY DEF Init, TypeOK, Source, Empty
<1>2. \A t \in Thread : job[t] = NoJob /\ output[t] = NoOutput
  BY DEF Init
<1>3. \A w \in Worker, t \in Thread : seen[w][t] = 0 /\ held[w][t] = 0
  BY DEF Init, Empty
<1> QED
  BY <1>1, <1>2, <1>3 DEF RowInv, JobsAhead, ClaimsMatch, OutputIsLastSuccess, NoJob, NoOutput, Owns

\* Steps that leave the shared rows alone: the startup scan, its early end and
\* a crash keep the invariant because what they forget is only what the worker
\* holds in memory.
LEMMA LocalSteps ==
    ASSUME RowInv, NEW w \in Worker, Scan(w) \/ StopClaiming(w) \/ Crash(w)
    PROVE  RowInv'
<1> USE MaxSourceAssumption
<1>1. /\ UNCHANGED <<updated, mode, deleting, job, output, queue>>
      /\ seen' \in [Worker -> [Thread -> 0 .. MaxSource]]
      /\ held' \in [Worker -> [Thread -> 0 .. MaxSource]]
  <2>1. Empty \in [Thread -> 0 .. MaxSource]
    BY DEF Empty
  <2>2. [t \in Thread |-> IF mode[t] = "enabled" THEN updated[t] ELSE 0] \in [Thread -> 0 .. MaxSource]
    BY DEF RowInv, TypeOK, Source
  <2>3. CASE Scan(w)
    BY <2>2, <2>3 DEF RowInv, TypeOK, Scan
  <2>4. CASE StopClaiming(w)
    BY <2>1, <2>4 DEF RowInv, TypeOK, StopClaiming
  <2>5. CASE Crash(w)
    BY <2>1, <2>5 DEF RowInv, TypeOK, Crash
  <2> QED
    BY <2>3, <2>4, <2>5
<1>2. TypeOK'
  BY <1>1 DEF RowInv, TypeOK
<1>3. \A v \in Worker, t \in Thread :
          /\ held'[v][t] # 0 => held'[v][t] = held[v][t]
          /\ seen'[v][t] # 0 => held'[v][t] = 0
  <2>1. CASE Scan(w)
    <3>1. held' = held /\ held[w] = Empty /\ \A v \in Worker : v # w => seen'[v] = seen[v]
      BY <2>1 DEF Scan, RowInv, TypeOK
    <3> QED
      BY <3>1 DEF RowInv, ClaimsMatch, Empty
  <2>2. CASE StopClaiming(w)
    <3>1. held' = held /\ seen'[w] = Empty /\ \A v \in Worker : v # w => seen'[v] = seen[v]
      BY <2>2 DEF StopClaiming, RowInv, TypeOK
    <3> QED
      BY <3>1 DEF RowInv, ClaimsMatch, Empty
  <2>3. CASE Crash(w)
    <3>1. /\ held'[w] = Empty /\ seen'[w] = Empty
          /\ \A v \in Worker : v # w => seen'[v] = seen[v] /\ held'[v] = held[v]
      BY <2>3 DEF Crash, RowInv, TypeOK
    <3> QED
      BY <3>1 DEF RowInv, ClaimsMatch, Empty
  <2> QED
    BY <2>1, <2>2, <2>3
<1> QED
  BY <1>1, <1>2, <1>3 DEF RowInv, JobsAhead, ClaimsMatch, OutputIsLastSuccess, Owns

\* A claim is of a source newer than the output and the last success, whatever
\* the scan read and however old it is.
LEMMA ClaimStep ==
    ASSUME RowInv, NEW w \in Worker, NEW t \in Thread, TryClaim(w, t)
    PROVE  RowInv'
<1> DEFINE source == seen[w][t]
<1>0. source \in 0 .. MaxSource /\ source # 0 /\ held[w][t] = 0
  BY DEF RowInv, TypeOK, TryClaim, ClaimsMatch
<1>1. /\ seen' \in [Worker -> [Thread -> 0 .. MaxSource]]
      /\ seen'[w][t] = 0
      /\ \A v \in Worker, u \in Thread : <<v, u>> # <<w, t>> => seen'[v][u] = seen[v][u]
      /\ UNCHANGED <<updated, mode, deleting, output, queue>>
  BY MaxSourceAssumption DEF RowInv, TypeOK, TryClaim
<1>2. CASE ~Claimable(t, source)
  <2>1. UNCHANGED <<job, held>>
    BY <1>2 DEF TryClaim
  <2>2. TypeOK'
    BY <2>1, <1>1 DEF RowInv, TypeOK
  <2> QED
    BY <2>1, <2>2, <1>1 DEF RowInv, JobsAhead, ClaimsMatch, OutputIsLastSuccess, Owns
<1>3. CASE Claimable(t, source)
  <2>1. job' = [job EXCEPT ![t] = ClaimedJob(w, t, source)] /\ held' = [held EXCEPT ![w][t] = source]
    BY <1>3 DEF TryClaim
  <2>2. /\ job' \in [Thread -> JobRow] /\ job'[t] = ClaimedJob(w, t, source)
        /\ \A u \in Thread : u # t => job'[u] = job[u]
    BY <1>0, <2>1, RowTypes DEF RowInv, TypeOK
  <2>3. /\ held' \in [Worker -> [Thread -> 0 .. MaxSource]]
        /\ held'[w][t] = source
        /\ \A v \in Worker, u \in Thread : <<v, u>> # <<w, t>> => held'[v][u] = held[v][u]
    BY <1>0, <2>1 DEF RowInv, TypeOK
  <2>4. TypeOK'
    BY <1>1, <2>2, <2>3 DEF RowInv, TypeOK
  <2>5. /\ job'[t].status = "running" /\ job'[t].token = w /\ job'[t].input = source
        /\ job'[t].success = job[t].success
        /\ job'[t].remaining = IF source > job[t].input THEN Retries ELSE job[t].remaining
    BY <2>2, JobFields DEF ClaimedJob, Advanced, RowInv, JobRow
  <2>6. source > job[t].success
    BY <1>0, <1>3, JobFields, MaxSourceAssumption DEF Claimable, UpToDate, RowInv
  <2>7. job'[t].remaining > 0
    <3>1. job[t].status = "none" => source > job[t].input
      BY <1>0, MaxSourceAssumption DEF RowInv, JobsAhead
    <3>2. job[t].remaining > 0 \/ source > job[t].input
      BY <1>3, <3>1 DEF Claimable, MayUpdate, Advanced
    <3> QED
      BY <2>5, <3>2, RetriesAssumption
  <2>8. JobsAhead'
    BY <2>2, <2>5, <2>6, <2>7 DEF RowInv, JobsAhead
  <2>9. ClaimsMatch'
    <3> SUFFICES ASSUME NEW v \in Worker, NEW u \in Thread
                 PROVE  /\ Owns(v, u)' /\ held'[v][u] # 0 => held'[v][u] = job'[u].input
                        /\ seen'[v][u] # 0 => held'[v][u] = 0
      BY DEF ClaimsMatch, Owns
    <3>1. CASE u # t
      BY <3>1, <1>1, <2>2, <2>3 DEF RowInv, ClaimsMatch, Owns
    <3>2. CASE u = t /\ v = w
      BY <3>2, <1>1, <2>3, <2>5
    <3>3. CASE u = t /\ v # w
      BY <3>3, <1>1, <2>3, <2>5 DEF RowInv, ClaimsMatch, Owns
    <3> QED
      BY <3>1, <3>2, <3>3
  <2>10. OutputIsLastSuccess'
    BY <1>1, <2>2, <2>5 DEF RowInv, OutputIsLastSuccess
  <2> QED
    BY <2>4, <2>8, <2>9, <2>10 DEF RowInv
<1> QED
  BY <1>2, <1>3

\* The end of a claim takes its source from the worker and leaves the threads
\* and every other claim alone.
LEMMA ClaimEnds ==
    ASSUME RowInv, NEW w \in Worker, NEW t \in Thread, Finishing(w, t)
    PROVE  /\ held' \in [Worker -> [Thread -> 0 .. MaxSource]]
           /\ held[w][t] \in 1 .. MaxSource /\ held'[w][t] = 0
           /\ \A v \in Worker, u \in Thread : <<v, u>> # <<w, t>> => held'[v][u] = held[v][u]
           /\ UNCHANGED <<updated, mode, deleting, seen>>
           /\ Owns(w, t) => held[w][t] = job[t].input
  BY MaxSourceAssumption DEF RowInv, TypeOK, Finishing, ClaimsMatch

\* When one job row and one output row are replaced, and no worker comes to own
\* a claim, only the replaced rows have to be looked at.
LEMMA RowReplaced ==
    ASSUME RowInv, NEW t \in Thread, TypeOK',
           \A u \in Thread : u # t => job'[u] = job[u] /\ output'[u] = output[u],
           \A v \in Worker, u \in Thread :
               /\ held'[v][u] # 0 => held'[v][u] = held[v][u]
               /\ seen'[v][u] = seen[v][u],
           job'[t].status = "running" =>
               /\ job'[t].remaining > 0 /\ job'[t].input > job'[t].success
               /\ job'[t].token = job[t].token /\ job[t].status = "running"
               /\ job'[t].input = job[t].input,
           job'[t].status = "none" => job'[t].input = 0,
           output'[t].source # 0 => output'[t].source = job'[t].success
    PROVE  RowInv'
<1>1. JobsAhead'
  BY DEF RowInv, JobsAhead
<1>2. ClaimsMatch'
  BY DEF RowInv, ClaimsMatch, Owns
<1>3. OutputIsLastSuccess'
  BY DEF RowInv, OutputIsLastSuccess
<1> QED
  BY <1>1, <1>2, <1>3 DEF RowInv

\* A worker that lost its claim, or never had its result recorded, changes no row.
LEMMA LostClaim ==
    ASSUME RowInv, NEW w \in Worker, NEW t \in Thread, Finishing(w, t), UNCHANGED <<job, output, queue>>
    PROVE  RowInv'
<1>1. TypeOK'
  BY ClaimEnds DEF RowInv, TypeOK
<1> QED
  BY <1>1, ClaimEnds DEF RowInv, JobsAhead, ClaimsMatch, OutputIsLastSuccess, Owns

\* What settling a job as done leaves in its row.
LEMMA DoneFields ==
    ASSUME RowInv, NEW t \in Thread, job' = [job EXCEPT ![t] = DoneJob(t)]
    PROVE  /\ job' \in [Thread -> JobRow]
           /\ job'[t].status = "done" /\ job'[t].success = job[t].input
           /\ \A u \in Thread : u # t => job'[u] = job[u]
<1>1. job' \in [Thread -> JobRow] /\ job'[t] = DoneJob(t) /\ \A u \in Thread : u # t => job'[u] = job[u]
  BY RowTypes DEF RowInv, TypeOK
<1> QED
  BY <1>1, JobFields DEF DoneJob, RowInv, JobRow

\* The published memory carries the source of the claim, which becomes the
\* watermark of the job in the same transaction.
LEMMA SucceedStep ==
    ASSUME RowInv, NEW w \in Worker, NEW t \in Thread, MarkSucceeded(w, t)
    PROVE  RowInv'
<1>0. Finishing(w, t)
  BY DEF MarkSucceeded
<1>1. CASE ~Owns(w, t)
  BY <1>0, <1>1, LostClaim DEF MarkSucceeded
<1>2. CASE Owns(w, t)
  <2>1. /\ job' = [job EXCEPT ![t] = DoneJob(t)] /\ queue' = Enqueued(queue)
        /\ output' = IF held[w][t] >= output[t].source
                     THEN [output EXCEPT ![t].source = held[w][t]] ELSE output
    BY <1>2 DEF MarkSucceeded
  <2>2. held[w][t] = job[t].input /\ held[w][t] \in 1 .. MaxSource /\ job[t].input > job[t].success
    BY <1>0, <1>2, ClaimEnds DEF RowInv, JobsAhead, Owns
  <2>3. held[w][t] >= output[t].source
    BY <2>2, JobFields, MaxSourceAssumption DEF RowInv, OutputIsLastSuccess
  <2>4. /\ output' \in [Thread -> OutputRow] /\ output'[t].source = held[w][t]
        /\ \A u \in Thread : u # t => output'[u] = output[u]
    BY <2>1, <2>2, <2>3, JobFields, MaxSourceAssumption DEF RowInv, TypeOK, OutputRow
  <2>5. TypeOK'
    BY <1>0, <2>1, <2>4, DoneFields, ClaimEnds DEF RowInv, TypeOK, Enqueued
  <2>6. /\ job'[t].status = "done" /\ job'[t].success = job[t].input
        /\ \A u \in Thread : u # t => job'[u] = job[u]
    BY <2>1, DoneFields
  <2>7. \A v \in Worker, u \in Thread :
            /\ held'[v][u] # 0 => held'[v][u] = held[v][u]
            /\ seen'[v][u] = seen[v][u]
    BY <1>0, ClaimEnds
  <2> QED
    BY <2>2, <2>4, <2>5, <2>6, <2>7, RowReplaced
<1> QED
  BY <1>1, <1>2

\* A claim that found nothing to remember removes the memory it replaces.
LEMMA NoOutputStep ==
    ASSUME RowInv, NEW w \in Worker, NEW t \in Thread, MarkSucceededNoOutput(w, t)
    PROVE  RowInv'
<1>0. Finishing(w, t)
  BY DEF MarkSucceededNoOutput
<1>1. CASE ~Owns(w, t)
  BY <1>0, <1>1, LostClaim DEF MarkSucceededNoOutput
<1>2. CASE Owns(w, t)
  <2>1. /\ job' = [job EXCEPT ![t] = DoneJob(t)] /\ queue' \in {queue, Enqueued(queue)}
        /\ output' = [output EXCEPT ![t] = NoOutput]
    BY <1>2 DEF MarkSucceededNoOutput
  <2>2. /\ output' \in [Thread -> OutputRow] /\ output'[t].source = 0
        /\ \A u \in Thread : u # t => output'[u] = output[u]
    BY <2>1, RowTypes DEF RowInv, TypeOK, NoOutput
  <2>3. TypeOK'
    BY <1>0, <2>1, <2>2, DoneFields, ClaimEnds DEF RowInv, TypeOK, Enqueued
  <2>4. /\ job'[t].status = "done" /\ job'[t].success = job[t].input
        /\ \A u \in Thread : u # t => job'[u] = job[u]
    BY <2>1, DoneFields
  <2>5. \A v \in Worker, u \in Thread :
            /\ held'[v][u] # 0 => held'[v][u] = held[v][u]
            /\ seen'[v][u] = seen[v][u]
    BY <1>0, ClaimEnds
  <2> QED
    BY <2>2, <2>3, <2>4, <2>5, RowReplaced
<1> QED
  BY <1>1, <1>2

\* A failure uses up one attempt, which a running job always has.
LEMMA FailStep ==
    ASSUME RowInv, NEW w \in Worker, NEW t \in Thread, MarkFailed(w, t)
    PROVE  RowInv'
<1>0. Finishing(w, t) /\ UNCHANGED <<output, queue>>
  BY DEF MarkFailed
<1>1. CASE ~Owns(w, t)
  BY <1>0, <1>1, LostClaim DEF MarkFailed
<1>2. CASE Owns(w, t)
  <2>1. job' = [job EXCEPT ![t].status = "error", ![t].lease = "none",
                           ![t].retry = "waiting", ![t].remaining = @ - 1]
    BY <1>2 DEF MarkFailed
  <2>2. job[t].remaining - 1 \in 0 .. Retries
    BY <1>2, JobFields, RetriesAssumption DEF RowInv, JobsAhead, Owns
  <2>3. /\ job' \in [Thread -> JobRow] /\ job'[t].status = "error" /\ job'[t].success = job[t].success
        /\ \A u \in Thread : u # t => job'[u] = job[u]
    BY SMTT(30), <2>1, <2>2, JobFields DEF RowInv, TypeOK, JobRow, Lease, Backoff
  <2>4. TypeOK'
    BY <1>0, <2>3, ClaimEnds DEF RowInv, TypeOK
  <2> QED
    BY <1>0, <2>3, <2>4, ClaimEnds, RowReplaced DEF RowInv, OutputIsLastSuccess
<1> QED
  BY <1>1, <1>2

\* The clock only ages a lease or a back-off.
LEMMA ClockStep ==
    ASSUME RowInv, NEW t \in Thread, JobTimePasses(t)
    PROVE  RowInv'
<1>1. UNCHANGED <<updated, mode, deleting, output, queue, seen, held>>
  BY DEF JobTimePasses
<1>2. /\ job' \in [Thread -> JobRow]
      /\ \A u \in Thread : u # t => job'[u] = job[u]
      /\ job'[t].status = job[t].status /\ job'[t].token = job[t].token
      /\ job'[t].remaining = job[t].remaining
      /\ job'[t].input = job[t].input /\ job'[t].success = job[t].success
  BY SMTT(30), JobFields DEF JobTimePasses, RowInv, TypeOK, JobRow, Lease, Backoff
<1>3. TypeOK'
  BY <1>1, <1>2 DEF RowInv, TypeOK
<1> QED
  BY <1>1, <1>2, <1>3, RowReplaced DEF RowInv, JobsAhead, OutputIsLastSuccess

\* Deleting the memory of a thread deletes its job and its output together.
LEMMA DeleteStep ==
    ASSUME RowInv, NEW t \in Thread, DeleteThreadMemory(t)
    PROVE  RowInv'
<1>1. /\ deleting' \subseteq Thread /\ queue' \in {queue, Enqueued(queue)}
      /\ job' = [job EXCEPT ![t] = NoJob] /\ output' = [output EXCEPT ![t] = NoOutput]
      /\ UNCHANGED <<updated, mode, seen, held>>
  BY DEF DeleteThreadMemory, RowInv, TypeOK
<1>2. /\ job' \in [Thread -> JobRow] /\ output' \in [Thread -> OutputRow]
      /\ job'[t] = NoJob /\ output'[t] = NoOutput
      /\ \A u \in Thread : u # t => job'[u] = job[u] /\ output'[u] = output[u]
  BY <1>1, RowTypes DEF RowInv, TypeOK
<1>3. TypeOK'
  BY <1>1, <1>2 DEF RowInv, TypeOK, Enqueued
<1> QED
  BY <1>1, <1>2, <1>3, RowReplaced DEF NoJob, NoOutput

\* A thread moves on, or its row goes after its memory.
LEMMA ThreadSteps ==
    ASSUME RowInv, NEW t \in Thread, TouchThread(t) \/ DeleteThreadRow(t)
    PROVE  RowInv'
<1>1. UNCHANGED <<job, output, queue, seen, held>>
  BY DEF TouchThread, DeleteThreadRow
<1>2. CASE TouchThread(t)
  <2>1. updated[t] + 1 \in Source
    BY <1>2, MaxSourceAssumption DEF TouchThread, RowInv, TypeOK, Source
  <2>2. updated' \in [Thread -> Source] /\ UNCHANGED <<mode, deleting>>
    BY <1>2, <2>1 DEF TouchThread, RowInv, TypeOK
  <2>3. TypeOK'
    BY <1>1, <2>2 DEF RowInv, TypeOK
  <2> QED
    BY <1>1, <2>3 DEF RowInv, JobsAhead, ClaimsMatch, OutputIsLastSuccess, Owns
<1>3. CASE DeleteThreadRow(t)
  <2>1. TypeOK'
    BY <1>1, <1>3 DEF RowInv, TypeOK, DeleteThreadRow
  <2> QED
    BY <1>1, <2>1 DEF RowInv, JobsAhead, ClaimsMatch, OutputIsLastSuccess, Owns
<1> QED
  BY <1>2, <1>3

\* Retention, a reset of the database and phase 2 change outputs only by
\* removing them or by marking the snapshot that was consumed.
LEMMA TableSteps ==
    ASSUME RowInv, Prune \/ ClearMemoryData \/ Phase2
    PROVE  RowInv'
<1>1. UNCHANGED <<updated, mode, deleting, seen, held>>
  BY DEF Prune, ClearMemoryData, Phase2
<1>2. CASE Prune
  <2>1. UNCHANGED <<job, queue>>
    BY <1>2 DEF Prune
  <2>2. PICK old \in SUBSET Thread : output' = [t \in Thread |-> IF t \in old THEN NoOutput ELSE output[t]]
    BY <1>2 DEF Prune
  <2>3. output' \in [Thread -> OutputRow] /\ \A t \in Thread : output'[t] \in {NoOutput, output[t]}
    BY <2>2, RowTypes DEF RowInv, TypeOK
  <2>4. TypeOK'
    BY <1>1, <2>1, <2>3 DEF RowInv, TypeOK
  <2> QED
    BY <1>1, <2>1, <2>3, <2>4 DEF RowInv, JobsAhead, ClaimsMatch, OutputIsLastSuccess, Owns, NoOutput
<1>3. CASE ClearMemoryData
  <2>1. \A t \in Thread : job'[t] = NoJob /\ output'[t] = NoOutput
    BY <1>3 DEF ClearMemoryData
  <2>2. TypeOK'
    BY <1>1, <1>3, RowTypes DEF RowInv, TypeOK, ClearMemoryData
  <2> QED
    BY <1>1, <2>1, <2>2 DEF RowInv, JobsAhead, ClaimsMatch, OutputIsLastSuccess, Owns, NoOutput, NoJob
<1>4. CASE Phase2
  <2>1. job' = job /\ queue' \in {"idle", "running"}
    BY <1>4 DEF Phase2
  <2>2. /\ output' \in [Thread -> OutputRow]
        /\ \A t \in Thread : output'[t].source = output[t].source
    BY <1>4, JobFields, MaxSourceAssumption DEF Phase2, RowInv, TypeOK, OutputRow
  <2>3. TypeOK'
    BY <1>1, <2>1, <2>2 DEF RowInv, TypeOK
  <2> QED
    BY <1>1, <2>1, <2>2, <2>3 DEF RowInv, JobsAhead, ClaimsMatch, OutputIsLastSuccess, Owns
<1> QED
  BY <1>2, <1>3, <1>4

\* Every step of phase 1 keeps the rows consistent.
LEMMA RowStep == RowInv /\ [Next]_stage1Vars => RowInv'
<1> SUFFICES ASSUME RowInv, [Next]_stage1Vars PROVE RowInv'
  OBVIOUS
<1>1. CASE UNCHANGED stage1Vars
  BY <1>1 DEF stage1Vars, RowInv, TypeOK, JobsAhead, ClaimsMatch, OutputIsLastSuccess, Owns
<1> QED
  BY <1>1, LocalSteps, ClaimStep, SucceedStep, NoOutputStep, FailStep, ClockStep, DeleteStep,
     ThreadSteps, TableSteps DEF Next

\* The live leases are finitely many.
LEMMA LiveFinite == IsFiniteSet(LiveJobs) /\ Cardinality(LiveJobs) \in Nat
<1>1. LiveJobs \subseteq Thread
  BY DEF LiveJobs
<1> QED
  BY <1>1, ThreadAssumption, FS_Subset, FS_CardinalityType

\* Leases that end or expire leave the cap kept.
LEMMA LeasesShrink ==
    ASSUME LeasesWithinCap, LiveJobs' \subseteq LiveJobs
    PROVE  LeasesWithinCap'
<1>1. IsFiniteSet(LiveJobs') /\ Cardinality(LiveJobs') <= Cardinality(LiveJobs)
  BY LiveFinite, FS_Subset
<1>2. Cardinality(LiveJobs') \in Nat
  BY <1>1, FS_CardinalityType
<1> QED
  BY <1>1, <1>2, LiveFinite, MaxRunningAssumption DEF LeasesWithinCap

\* A claim adds its own lease to fewer than MaxRunning others, also when it
\* takes over an expired lease of the same job.
LEMMA LeaseTaken ==
    ASSUME LeasesWithinCap, NEW t \in Thread, NEW source, Claimable(t, source),
           LiveJobs' \subseteq LiveJobs \cup {t}
    PROVE  LeasesWithinCap'
<1> DEFINE others == LiveJobs \ {t}
<1>1. IsFiniteSet(others) /\ Cardinality(others) \in Nat
  BY LiveFinite, FS_RemoveElement, FS_CardinalityType
<1>2. Cardinality(others) < MaxRunning
  <2>1. CASE job[t].status = "none"
    <3>1. t \notin LiveJobs
      BY <2>1 DEF LiveJobs
    <3>2. others = LiveJobs
      BY <3>1
    <3> QED
      BY <2>1, <3>2 DEF Claimable, MayInsert
  <2>2. CASE job[t].status # "none"
    BY <2>2 DEF Claimable, MayUpdate
  <2> QED
    BY <2>1, <2>2
<1>3. /\ IsFiniteSet(others \cup {t})
      /\ Cardinality(others \cup {t}) = Cardinality(others) + 1
  BY <1>1, FS_AddElement
<1>4. LiveJobs' \subseteq others \cup {t}
  OBVIOUS
<1> HIDE DEF others
<1>5. IsFiniteSet(LiveJobs') /\ Cardinality(LiveJobs') <= Cardinality(others) + 1
  BY <1>3, <1>4, FS_Subset
<1>6. Cardinality(LiveJobs') \in Nat
  BY <1>5, FS_CardinalityType
<1> QED
  BY <1>1, <1>2, <1>5, <1>6, MaxRunningAssumption DEF LeasesWithinCap

\* What one step may do to a job row: claim it for a newer source, settle it at
\* its input, fail it, age it, or delete it.
JobMoves(t) ==
    \/ job'[t] = job[t]
    \/ job'[t].status = "none" /\ job'[t] = NoJob
    \/ /\ job'[t].success = job[t].success
       /\ job'[t].lease # "live"
    \/ /\ job'[t].success = job[t].success
       /\ job'[t].status = job[t].status /\ job'[t].lease = job[t].lease
    \/ /\ job[t].status = "running"
       /\ job'[t].status = "done" /\ job'[t].success = job[t].input

\* Every step moves every job as JobMoves says, or claims one job and leaves the
\* others alone.
LEMMA JobStep ==
    ASSUME RowInv, [Next]_stage1Vars
    PROVE  \/ \A t \in Thread : JobMoves(t)
           \/ \E w \in Worker, t \in Thread, source \in 1 .. MaxSource :
                  /\ Claimable(t, source)
                  /\ job' = [job EXCEPT ![t] = ClaimedJob(w, t, source)]
<1>1. CASE UNCHANGED job
  BY <1>1 DEF JobMoves
<1>2. ASSUME NEW w \in Worker, NEW t \in Thread, TryClaim(w, t), ~UNCHANGED job
      PROVE  \E v \in Worker, u \in Thread, source \in 1 .. MaxSource :
                 /\ Claimable(u, source)
                 /\ job' = [job EXCEPT ![u] = ClaimedJob(v, u, source)]
  <2>1. seen[w][t] \in 1 .. MaxSource
    BY <1>2, MaxSourceAssumption DEF TryClaim, RowInv, TypeOK
  <2> QED
    BY <1>2, <2>1 DEF TryClaim
<1>3. ASSUME NEW w \in Worker, NEW t \in Thread, MarkSucceeded(w, t) \/ MarkSucceededNoOutput(w, t),
             ~UNCHANGED job
      PROVE  \A u \in Thread : JobMoves(u)
  <2>1. Owns(w, t) /\ job' = [job EXCEPT ![t] = DoneJob(t)]
    BY <1>3 DEF MarkSucceeded, MarkSucceededNoOutput
  <2> QED
    BY <2>1, DoneFields DEF JobMoves, Owns
<1>4. ASSUME NEW w \in Worker, NEW t \in Thread, MarkFailed(w, t), ~UNCHANGED job
      PROVE  \A u \in Thread : JobMoves(u)
  <2>1. job' = [job EXCEPT ![t].status = "error", ![t].lease = "none",
                           ![t].retry = "waiting", ![t].remaining = @ - 1]
    BY <1>4 DEF MarkFailed
  <2>2. /\ job'[t].success = job[t].success /\ job'[t].lease = "none"
        /\ \A u \in Thread : u # t => job'[u] = job[u]
    BY <2>1, JobFields DEF RowInv, TypeOK, JobRow
  <2> QED
    BY <2>2 DEF JobMoves
<1>5. ASSUME NEW t \in Thread, JobTimePasses(t) PROVE \A u \in Thread : JobMoves(u)
  <2>1. /\ \A u \in Thread : u # t => job'[u] = job[u]
        /\ job'[t].success = job[t].success
        /\ \/ job'[t].lease = "expired"
           \/ job'[t].status = job[t].status /\ job'[t].lease = job[t].lease
    BY <1>5, JobFields DEF JobTimePasses, RowInv, TypeOK, JobRow
  <2> QED
    BY <2>1 DEF JobMoves
<1>6. ASSUME NEW t \in Thread, DeleteThreadMemory(t) PROVE \A u \in Thread : JobMoves(u)
  BY <1>6 DEF DeleteThreadMemory, RowInv, TypeOK, JobMoves, NoJob
<1>7. ASSUME ClearMemoryData PROVE \A u \in Thread : JobMoves(u)
  BY <1>7 DEF ClearMemoryData, JobMoves, NoJob
<1>8. \/ UNCHANGED job
      \/ \E w \in Worker, t \in Thread :
             TryClaim(w, t) \/ MarkSucceeded(w, t) \/ MarkSucceededNoOutput(w, t) \/ MarkFailed(w, t)
      \/ \E t \in Thread : JobTimePasses(t) \/ DeleteThreadMemory(t)
      \/ ClearMemoryData
  BY DEF Next, stage1Vars, Scan, StopClaiming, Crash, TouchThread, DeleteThreadRow, Prune, Phase2
<1> QED
  BY <1>1, <1>2, <1>3, <1>4, <1>5, <1>6, <1>7, <1>8

\* However claims, expiries, takeovers and deletions interleave, a step keeps
\* the number of live leases within the cap.
LEMMA LeaseStep == RowInv /\ LeasesWithinCap /\ [Next]_stage1Vars => LeasesWithinCap'
<1> SUFFICES ASSUME RowInv, LeasesWithinCap, [Next]_stage1Vars PROVE LeasesWithinCap'
  OBVIOUS
<1>1. CASE \A t \in Thread : JobMoves(t)
  <2>1. LiveJobs' \subseteq LiveJobs
    BY <1>1 DEF JobMoves, LiveJobs, NoJob
  <2> QED
    BY <2>1, LeasesShrink
<1>2. ASSUME NEW w \in Worker, NEW t \in Thread, NEW source \in 1 .. MaxSource,
             Claimable(t, source), job' = [job EXCEPT ![t] = ClaimedJob(w, t, source)]
      PROVE  LeasesWithinCap'
  <2>1. \A u \in Thread : u # t => job'[u] = job[u]
    BY <1>2 DEF RowInv, TypeOK
  <2>2. LiveJobs' \subseteq LiveJobs \cup {t}
    BY <2>1 DEF LiveJobs
  <2> QED
    BY <1>2, <2>2, LeaseTaken
<1> QED
  BY <1>1, <1>2, JobStep

\* The first phase starts and stays in states that satisfy its invariant.
THEOREM Invariance == Spec => []IInv
<1>1. Init => IInv
  <2> SUFFICES ASSUME Init PROVE LeasesWithinCap
    BY RowInit DEF RowInv, IInv
  <2>1. LiveJobs = {}
    BY DEF Init, LiveJobs, NoJob
  <2> QED
    BY <2>1, FS_EmptySet, MaxRunningAssumption DEF LeasesWithinCap
<1>2. IInv /\ [Next]_stage1Vars => IInv'
  BY RowStep, LeaseStep DEF IInv, RowInv
<1> QED
  BY <1>1, <1>2, PTL DEF Spec

\* No more than MaxRunning jobs hold a live lease, for every number of workers,
\* threads and takeovers (try_claim_stage1_job).
THEOREM LeaseCap == Spec => []LeasesWithinCap
  BY Invariance, PTL DEF IInv

\* A published memory always comes from the last successful claim of its thread
\* (mark_stage1_job_succeeded).
THEOREM OutputsFromLastSuccess == Spec => []OutputIsLastSuccess
  BY Invariance, PTL DEF IInv

\* The success watermark of a job never moves back while its row exists.
THEOREM WatermarkNeverReturns == Spec => WatermarkAdvances
<1>1. ASSUME IInv, [Next]_stage1Vars, NEW t \in Thread, job'[t].status # "none"
      PROVE  job'[t].success >= job[t].success
  <2>1. RowInv /\ RowInv'
    BY <1>1, RowStep DEF IInv, RowInv
  <2>2. job[t].success \in Nat /\ job[t].input \in Nat
    BY <2>1, JobFields, MaxSourceAssumption DEF RowInv
  <2>3. CASE JobMoves(t)
    BY <1>1, <2>1, <2>2, <2>3 DEF JobMoves, RowInv, JobsAhead
  <2>4. ASSUME NEW w \in Worker, NEW u \in Thread, NEW source \in 1 .. MaxSource,
               job' = [job EXCEPT ![u] = ClaimedJob(w, u, source)]
        PROVE  job'[t].success = job[t].success
    BY <2>1, <2>4, JobFields DEF RowInv, TypeOK, ClaimedJob, JobRow
  <2> QED
    BY <1>1, <2>1, <2>2, <2>3, <2>4, JobStep
<1>2. IInv /\ [Next]_stage1Vars =>
        [\A t \in Thread : job'[t].status # "none" => job'[t].success >= job[t].success]_stage1Vars
  BY <1>1
<1> QED
  BY <1>2, Invariance, PTL DEF Spec, WatermarkAdvances

\* Phase 1 implements the interface it shares with phase 2: every step of it
\* publishes a memory of the same or a newer source, forgets one and asks for a
\* consolidation if the baseline holds it, drops memories outside the baseline,
\* clears all of them, or leaves both the outputs and the queue alone.
THEOREM ImplementsMemoryOutputs == Spec => KeepsOutputs
<1> DEFINE Shared == <<output, queue>>
<1>1. Init => Outputs!Init
  BY DEF Init, Outputs!Init, NoOutput, Outputs!NoOutput
<1>2. ASSUME RowInv, NEW w \in Worker, NEW t \in Thread, MarkSucceeded(w, t)
      PROVE  Outputs!Publish(t) \/ UNCHANGED Shared
  <2>1. CASE ~Owns(w, t)
    BY <1>2, <2>1 DEF MarkSucceeded
  <2>2. CASE Owns(w, t)
    <3>1. held[w][t] = job[t].input /\ held[w][t] \in 1 .. MaxSource /\ job[t].input > job[t].success
      BY <1>2, <2>2, ClaimEnds DEF MarkSucceeded, RowInv, JobsAhead, Owns
    <3>2. held[w][t] \in output[t].source .. MaxSource
      BY <1>2, <3>1, JobFields, MaxSourceAssumption DEF RowInv, OutputIsLastSuccess
    <3>3. /\ output' = IF held[w][t] >= output[t].source
                       THEN [output EXCEPT ![t].source = held[w][t]] ELSE output
          /\ queue' = Enqueued(queue)
      BY <1>2, <2>2 DEF MarkSucceeded
    <3>4. held[w][t] >= output[t].source
      BY <1>2, <3>2, JobFields, MaxSourceAssumption DEF RowInv
    <3> QED
      BY <3>2, <3>3, <3>4 DEF Outputs!Publish, Enqueued, Outputs!Enqueued
  <2> QED
    BY <2>1, <2>2
<1>3. ASSUME RowInv, NEW w \in Worker, NEW t \in Thread, MarkSucceededNoOutput(w, t)
      PROVE  Outputs!Forget(t) \/ UNCHANGED Shared
  <2>1. CASE ~Owns(w, t)
    BY <1>3, <2>1 DEF MarkSucceededNoOutput
  <2>2. CASE Owns(w, t)
    <3>1. /\ output' = [output EXCEPT ![t] = NoOutput]
          /\ queue' = IF output[t] = NoOutput THEN queue ELSE Enqueued(queue)
      BY <1>3, <2>2 DEF MarkSucceededNoOutput
    <3>2. output[t] = NoOutput => output[t].selected = 0
      BY DEF NoOutput
    <3> QED
      BY <3>1, <3>2 DEF Outputs!Forget, Outputs!NoOutput, NoOutput, Enqueued, Outputs!Enqueued
  <2> QED
    BY <2>1, <2>2
<1>4. ASSUME NEW t \in Thread, DeleteThreadMemory(t) PROVE Outputs!Forget(t)
  BY <1>4 DEF DeleteThreadMemory, Outputs!Forget, Outputs!NoOutput, NoOutput, Enqueued, Outputs!Enqueued
<1>5. ASSUME Prune PROVE Outputs!Drop
  <2>1. PICK old \in SUBSET {t \in Thread : output[t] # NoOutput /\ output[t].selected = 0} :
            output' = [t \in Thread |-> IF t \in old THEN NoOutput ELSE output[t]]
    BY <1>5 DEF Prune
  <2>2. old \in SUBSET {t \in Thread : output[t].selected = 0}
    OBVIOUS
  <2> QED
    BY <1>5, <2>1, <2>2 DEF Prune, Outputs!Drop, Outputs!NoOutput, NoOutput
<1>6. ASSUME ClearMemoryData PROVE Outputs!Clear
  BY <1>6 DEF ClearMemoryData, Outputs!Clear, Outputs!NoOutput, NoOutput
<1>7. ASSUME Phase2 PROVE Outputs!Claim \/ Outputs!Record \/ Outputs!Fail
  BY <1>7 DEF Phase2, Outputs!Claim, Outputs!Record, Outputs!Fail
<1>8. ASSUME NEW w \in Worker, NEW t \in Thread,
             TryClaim(w, t) \/ MarkFailed(w, t)
      PROVE  UNCHANGED Shared
  BY <1>8 DEF TryClaim, MarkFailed
<1>9. ASSUME NEW t \in Thread, JobTimePasses(t) \/ TouchThread(t) \/ DeleteThreadRow(t)
      PROVE  UNCHANGED Shared
  BY <1>9 DEF JobTimePasses, TouchThread, DeleteThreadRow
<1>10. ASSUME NEW w \in Worker, Scan(w) \/ StopClaiming(w) \/ Crash(w) PROVE UNCHANGED Shared
  BY <1>10 DEF Scan, StopClaiming, Crash
<1>11. IInv /\ [Next]_stage1Vars => [Outputs!Next]_Shared
  <2> SUFFICES ASSUME IInv, [Next]_stage1Vars PROVE [Outputs!Next]_Shared
    OBVIOUS
  <2>1. RowInv
    BY DEF IInv, RowInv
  <2>2. CASE UNCHANGED stage1Vars
    BY <2>2 DEF stage1Vars
  <2> QED
    BY <2>1, <2>2, <1>2, <1>3, <1>4, <1>5, <1>6, <1>7, <1>8, <1>9, <1>10 DEF Next, Outputs!Next
<1> QED
  BY <1>1, <1>11, Invariance, PTL DEF Spec, KeepsOutputs, Outputs!Spec

-----------------------------------------------------------------------------
(* Phase 2 *)

\* A running consolidation has an owner.
RunningOwned == global.status = "running" => global.token \in Consolidator

\* Whoever is at work owns the job under a live lease.
WorkersOwn ==
    environment = "calm" =>
        \A c \in Consolidator : ~At(c, "idle") => OwnsGlobal(c) /\ global.lease = "live"

\* How far the memory root has come when a consolidator is at pc with the inputs i.
\* From the selection to the removal of the old repository there is a baseline.
Based == {"select", "load", "sync", "diff", "agent", "completed", "errored", "orphan", "confirm", "unset", "mark"}
\* From the rewriting of the inputs to the commit the root holds the inputs loaded.
Synchronized == {"diff", "agent", "completed", "confirm", "unset", "commit"}

RootAt(pc, i) ==
    /\ pc \in Based => baseline # NoBaseline
    /\ pc \in Synchronized => workspace.inputs = i
    /\ pc = "completed" => Digested(workspace) \/ workspace.artifacts = "invalid"
    /\ pc \in {"confirm", "unset", "commit"} => Digested(workspace)
    /\ pc = "mark" => Digested(baseline) /\ baseline.inputs = i

\* A root without a repository can be taken as a baseline as it is.
RootKept ==
    environment = "calm" =>
        /\ ~clearing
        /\ baseline = NoBaseline => workspace = EmptyRoot \/ Digested(workspace)
        /\ \A c \in Consolidator : RootAt(phase2[c].pc, phase2[c].inputs)

\* The inductive invariant of phase 2.
P2Inv == P2TypeOK /\ RunningOwned /\ WorkersOwn /\ BaselineIsDigested /\ RootKept

P2Row == [pc: Stage, inputs: Inputs]

LEMMA P2Fields ==
    ASSUME P2TypeOK
    PROVE  /\ \A c \in Consolidator : phase2[c] \in P2Row /\ phase2[c].pc \in Stage /\ phase2[c].inputs \in Inputs
           /\ workspace \in Files /\ workspace.inputs \in Inputs /\ workspace.digest \in Inputs
           /\ workspace # NoBaseline
  BY DEF P2TypeOK, P2Row, Files, NoBaseline, EmptyRoot

LEMMA RootFields ==
    /\ Empty \in Inputs /\ EmptyRoot \in Files /\ ~Digested(EmptyRoot) /\ EmptyRoot.artifacts = "invalid"
    /\ NoGlobal \in GlobalRow /\ NoGlobal.status = "none" /\ NoBaseline.artifacts = "absent"
    /\ NoOutput \in OutputRow
<1>1. Empty \in Inputs
  BY MaxSourceAssumption DEF Empty, Inputs
<1> QED
  BY <1>1, MaxSourceAssumption
  DEF EmptyRoot, Files, Digested, NoGlobal, GlobalRow, NoBaseline, NoOutput, OutputRow

\* The step of one consolidator replaces its record.
OnlyMoves(c) ==
    /\ phase2' \in [Consolidator -> P2Row]
    /\ \A d \in Consolidator : d # c => phase2'[d] = phase2[d]

LEMMA P2Replaced ==
    ASSUME P2TypeOK, NEW c \in Consolidator, NEW r \in P2Row, phase2' = [phase2 EXCEPT ![c] = r]
    PROVE  OnlyMoves(c) /\ phase2'[c] = r
  BY DEF P2TypeOK, P2Row, OnlyMoves

LEMMA GotoMoves ==
    ASSUME P2TypeOK, NEW c \in Consolidator, NEW pc \in Stage, Goto(c, pc)
    PROVE  OnlyMoves(c) /\ phase2'[c].pc = pc /\ phase2'[c].inputs = phase2[c].inputs
<1> DEFINE r == [phase2[c] EXCEPT !.pc = pc]
<1>1. r \in P2Row /\ r.pc = pc /\ r.inputs = phase2[c].inputs
  BY P2Fields DEF P2Row
<1>2. phase2' = [phase2 EXCEPT ![c] = r]
  BY DEF Goto
<1> HIDE DEF r
<1> QED
  BY <1>1, <1>2, P2Replaced

LEMMA StopMoves ==
    ASSUME P2TypeOK, NEW c \in Consolidator, Stop(c)
    PROVE  OnlyMoves(c) /\ phase2'[c].pc = "idle"
<1> DEFINE r == [pc |-> "idle", inputs |-> Empty]
<1>1. r \in P2Row /\ r.pc = "idle"
  BY RootFields DEF P2Row, Stage
<1>2. phase2' = [phase2 EXCEPT ![c] = r]
  BY DEF Stop
<1> HIDE DEF r
<1> QED
  BY <1>1, <1>2, P2Replaced

\* While the environment is calm, nobody else is at work.
LEMMA Alone ==
    ASSUME P2Inv, environment = "calm", NEW c \in Consolidator, ~At(c, "idle") \/ GlobalClaimable,
           NEW d \in Consolidator, d # c
    PROVE  phase2[d].pc = "idle"
  BY DEF P2Inv, WorkersOwn, OwnsGlobal, At, GlobalClaimable

\* A step of the consolidator c: it keeps its job, and leaves the root in order.
Keeps(c) ==
    /\ phase2'[c].pc # "idle" => global'.status = "running" /\ global'.token = c /\ global'.lease = "live"
    /\ baseline' \in {NoBaseline, EmptyRoot} \/ Digested(baseline')
    /\ baseline' = NoBaseline => workspace' = EmptyRoot \/ Digested(workspace')
    /\ RootAt(phase2[c].pc, phase2[c].inputs)'

LEMMA P2WorkStep ==
    ASSUME P2Inv, NEW c \in Consolidator, ~At(c, "idle") \/ GlobalClaimable,
           P2TypeOK', OnlyMoves(c), RunningOwned', UNCHANGED <<clearing, environment>>,
           environment = "calm" => Keeps(c)
    PROVE  P2Inv'
<1>1. CASE environment # "calm"
  BY <1>1 DEF P2Inv, WorkersOwn, BaselineIsDigested, RootKept
<1>2. CASE environment = "calm"
  <2>1. ASSUME NEW d \in Consolidator, d # c
        PROVE  phase2'[d].pc = "idle"
    BY <1>2, <2>1, Alone DEF OnlyMoves
  <2>2. WorkersOwn'
    BY <1>2, <2>1 DEF WorkersOwn, At, OwnsGlobal, Keeps
  <2>3. \A d \in Consolidator : RootAt(phase2[d].pc, phase2[d].inputs)'
    BY <1>2, <2>1 DEF Keeps, RootAt, Based, Synchronized
  <2>4. RootKept' /\ BaselineIsDigested'
    BY <1>2, <2>3 DEF RootKept, BaselineIsDigested, Keeps, P2Inv, Digested
  <2> QED
    BY <2>2, <2>4 DEF P2Inv
<1> QED
  BY <1>1, <1>2

\* A step that leaves the memory root and the consolidators alone.
LEMMA P2OutsideStep ==
    ASSUME P2Inv, P2TypeOK', RunningOwned', UNCHANGED <<workspace, baseline, phase2, clearing, environment>>,
           environment = "calm" => \A c \in Consolidator : ~At(c, "idle") =>
               global'.status = "running" /\ global'.token = c /\ global'.lease = "live"
    PROVE  P2Inv'
<1>1. WorkersOwn'
  BY DEF WorkersOwn, At, OwnsGlobal
<1>2. BaselineIsDigested' /\ RootKept'
  BY DEF P2Inv, BaselineIsDigested, RootKept, RootAt, Digested
<1> QED
  BY <1>1, <1>2 DEF P2Inv

LEMMA P2InitHolds == P2Init => P2Inv
<1> SUFFICES ASSUME P2Init PROVE P2Inv
  OBVIOUS
<1> DEFINE r == [pc |-> "idle", inputs |-> Empty]
<1>1. r \in P2Row /\ r.pc = "idle"
  BY RootFields DEF P2Row, Stage
<1>2. phase2 = [c \in Consolidator |-> r]
  BY DEF P2Init
<1> HIDE DEF r
<1>3. phase2 \in [Consolidator -> P2Row] /\ \A c \in Consolidator : phase2[c].pc = "idle"
  BY <1>1, <1>2
<1>4. P2TypeOK
  BY <1>3, RootFields DEF P2Init, P2TypeOK, P2Row
<1>5. RunningOwned /\ WorkersOwn
  BY <1>3, RootFields DEF P2Init, RunningOwned, WorkersOwn, At
<1>6. BaselineIsDigested /\ RootKept
  BY <1>3 DEF P2Init, BaselineIsDigested, RootKept, RootAt, Based, Synchronized
<1> QED
  BY <1>4, <1>5, <1>6 DEF P2Inv

\* What a consolidator at work relies on while the environment is calm.
LEMMA AtWork ==
    ASSUME P2Inv, environment = "calm", NEW c \in Consolidator
    PROVE  /\ ~At(c, "idle") => OwnsGlobal(c) /\ global.lease = "live"
           /\ RootAt(phase2[c].pc, phase2[c].inputs)
           /\ baseline \in {NoBaseline, EmptyRoot} \/ Digested(baseline)
           /\ baseline = NoBaseline => workspace = EmptyRoot \/ Digested(workspace)
  BY DEF P2Inv, WorkersOwn, BaselineIsDigested, RootKept

LEMMA P2TypeStep ==
    ASSUME P2TypeOK, NEW c \in Consolidator, OnlyMoves(c), UNCHANGED <<mode, pollution, clearing, environment>>,
           output' \in [Thread -> OutputRow], global' \in GlobalRow,
           workspace' \in Files, baseline' \in Files \cup {NoBaseline}
    PROVE  P2TypeOK'
  BY DEF P2TypeOK, OnlyMoves, P2Row

\* A step that changes nothing but the consolidator's own record.
LEMMA OwnStep ==
    ASSUME P2Inv, NEW c \in Consolidator, ~At(c, "idle"), OnlyMoves(c),
           UNCHANGED <<rows, global, workspace, baseline, pollution, clearing, environment>>,
           environment = "calm" => RootAt(phase2[c].pc, phase2[c].inputs)'
    PROVE  P2Inv'
<1>1. P2TypeOK'
  BY P2TypeStep DEF P2Inv, P2TypeOK, rows
<1>2. RunningOwned'
  BY DEF P2Inv, RunningOwned
<1>3. environment = "calm" => Keeps(c)
  BY AtWork DEF Keeps, OwnsGlobal, Digested
<1> QED
  BY <1>1, <1>2, <1>3, P2WorkStep

\* Going back to idle, to fail or to a place of the same kind asks nothing of the root.
LEMMA StopStep ==
    ASSUME P2Inv, NEW c \in Consolidator, ~At(c, "idle"), Stop(c),
           UNCHANGED <<rows, global, workspace, baseline, pollution, clearing, environment>>
    PROVE  P2Inv'
<1>1. OnlyMoves(c) /\ phase2'[c].pc = "idle"
  BY StopMoves DEF P2Inv
<1>2. RootAt(phase2[c].pc, phase2[c].inputs)'
  BY <1>1 DEF RootAt, Based, Synchronized
<1> QED
  BY <1>1, <1>2, OwnStep

LEMMA GotoStep ==
    ASSUME P2Inv, NEW c \in Consolidator, ~At(c, "idle"), NEW pc \in Stage, Goto(c, pc),
           UNCHANGED <<rows, global, workspace, baseline, pollution, clearing, environment>>,
           environment = "calm" => RootAt(pc, phase2[c].inputs)
    PROVE  P2Inv'
<1>1. OnlyMoves(c) /\ phase2'[c].pc = pc /\ phase2'[c].inputs = phase2[c].inputs
  BY GotoMoves DEF P2Inv
<1>2. environment = "calm" => RootAt(phase2[c].pc, phase2[c].inputs)'
  BY <1>1 DEF RootAt, Digested
<1> QED
  BY <1>1, <1>2, OwnStep

LEMMA AllStages ==
    /\ {"idle", "prepare", "select", "load", "sync", "diff", "agent", "completed", "errored"} \subseteq Stage
    /\ {"confirm", "unset", "commit", "mark", "fail", "orphan"} \subseteq Stage
  BY DEF Stage

LEMMA SelectKeysKeeps == ASSUME P2Inv, NEW c \in Consolidator, P2SelectKeys(c) PROVE P2Inv'
<1>1. PICK keys \in SUBSET Thread :
          phase2' = [phase2 EXCEPT ![c] =
              [pc |-> "load", inputs |-> [t \in Thread |-> IF t \in keys THEN output[t].source ELSE 0]]]
  BY DEF P2SelectKeys
<1> DEFINE i == [t \in Thread |-> IF t \in keys THEN output[t].source ELSE 0]
<1> DEFINE r == [pc |-> "load", inputs |-> i]
<1>2. i \in Inputs
  <2>1. \A t \in Thread : output[t].source \in 0 .. MaxSource
    BY DEF P2Inv, P2TypeOK, OutputRow
  <2> QED
    BY <2>1, MaxSourceAssumption DEF Inputs
<1>3. phase2' = [phase2 EXCEPT ![c] = r]
  BY <1>1
<1> HIDE DEF i
<1>4. r \in P2Row /\ r.pc = "load"
  BY <1>2, AllStages DEF P2Row
<1> HIDE DEF r
<1>5. OnlyMoves(c) /\ phase2'[c].pc = "load"
  BY <1>3, <1>4, P2Replaced DEF P2Inv
<1>6. environment = "calm" => RootAt(phase2[c].pc, phase2[c].inputs)'
  BY <1>5, AtWork DEF P2SelectKeys, At, RootAt, Based, Synchronized
<1> QED
  BY <1>5, <1>6, OwnStep DEF P2SelectKeys, At

LEMMA LoadRowsKeeps == ASSUME P2Inv, NEW c \in Consolidator, P2LoadRows(c) PROVE P2Inv'
<1> DEFINE i == [t \in Thread |->
                    IF Enabled(t) /\ output[t].source = phase2[c].inputs[t] THEN phase2[c].inputs[t] ELSE 0]
<1> DEFINE r == [pc |-> "sync", inputs |-> i]
<1>1. i \in Inputs
  <2>1. phase2[c].inputs \in Inputs
    BY P2Fields DEF P2Inv
  <2> QED
    BY <2>1, MaxSourceAssumption DEF Inputs
<1>2. phase2' = [phase2 EXCEPT ![c] = r]
  BY DEF P2LoadRows
<1> HIDE DEF i
<1>3. r \in P2Row /\ r.pc = "sync"
  BY <1>1, AllStages DEF P2Row
<1> HIDE DEF r
<1>4. OnlyMoves(c) /\ phase2'[c].pc = "sync"
  BY <1>2, <1>3, P2Replaced DEF P2Inv
<1>5. environment = "calm" => RootAt(phase2[c].pc, phase2[c].inputs)'
  BY <1>4, AtWork DEF P2LoadRows, At, RootAt, Based, Synchronized
<1> QED
  BY <1>4, <1>5, OwnStep DEF P2LoadRows, At

LEMMA DiffKeeps == ASSUME P2Inv, NEW c \in Consolidator, P2Diff(c) PROVE P2Inv'
<1> USE AllStages DEF P2Diff, At
<1>1. environment = "calm" => RootAt("diff", phase2[c].inputs)
  BY AtWork
<1>2. CASE baseline = NoBaseline
  <2>1. Goto(c, "fail")
    BY <1>2, P2Fields DEF P2Inv
  <2>2. RootAt("fail", phase2[c].inputs)
    BY DEF RootAt, Based, Synchronized
  <2> QED
    BY <2>1, <2>2, GotoStep
<1>3. CASE baseline # NoBaseline /\ baseline = workspace /\ workspace.artifacts # "invalid"
  <2>1. Goto(c, "mark")
    BY <1>3
  <2>2. environment = "calm" => RootAt("mark", phase2[c].inputs)
    BY <1>1, <1>3, AtWork, RootFields DEF RootAt, Based, Synchronized, EmptyRoot
  <2> QED
    BY <2>1, <2>2, GotoStep
<1>4. CASE baseline # NoBaseline /\ ~(baseline = workspace /\ workspace.artifacts # "invalid")
  <2>1. Goto(c, "agent")
    BY <1>4
  <2>2. environment = "calm" => RootAt("agent", phase2[c].inputs)
    BY <1>1, <1>4 DEF RootAt, Based, Synchronized
  <2> QED
    BY <2>1, <2>2, GotoStep
<1> QED
  BY <1>2, <1>3, <1>4

LEMMA AgentErrsKeeps == ASSUME P2Inv, NEW c \in Consolidator, AgentErrs(c) PROVE P2Inv'
<1>1. environment = "calm" => RootAt("errored", phase2[c].inputs)
  BY AtWork DEF AgentErrs, At, RootAt, Based, Synchronized
<1> QED
  BY <1>1, GotoStep, AllStages DEF AgentErrs, At

LEMMA ShutdownKeeps == ASSUME P2Inv, NEW c \in Consolidator, P2Shutdown(c) PROVE P2Inv'
<1> USE AllStages
<1>1. ~At(c, "idle") /\ UNCHANGED <<rows, global, workspace, baseline, pollution, clearing, environment>>
  BY DEF P2Shutdown, At
<1>2. RootAt("fail", phase2[c].inputs)
  BY DEF RootAt, Based, Synchronized
<1>3. CASE Goto(c, "fail")
  BY <1>1, <1>2, <1>3, GotoStep
<1>4. CASE At(c, "completed") /\ Goto(c, "confirm") /\ workspace.artifacts # "invalid"
  <2>1. environment = "calm" => RootAt("confirm", phase2[c].inputs)
    BY <1>4, AtWork DEF At, RootAt, Based, Synchronized
  <2> QED
    BY <1>1, <1>4, <2>1, GotoStep
<1> QED
  BY <1>3, <1>4 DEF P2Shutdown

LEMMA ShutdownFailsKeeps == ASSUME P2Inv, NEW c \in Consolidator, P2ShutdownFails(c) PROVE P2Inv'
<1> USE AllStages
<1>1. ~At(c, "idle") /\ UNCHANGED <<rows, global, workspace, baseline, pollution, clearing, environment>>
  BY DEF P2ShutdownFails, At
<1>2. CASE Stop(c)
  BY <1>1, <1>2, StopStep
<1>3. CASE At(c, "errored") /\ Goto(c, "orphan")
  <2>1. environment = "calm" => RootAt("orphan", phase2[c].inputs)
    BY <1>3, AtWork DEF At, RootAt, Based, Synchronized
  <2> QED
    BY <1>1, <1>3, <2>1, GotoStep
<1> QED
  BY <1>2, <1>3 DEF P2ShutdownFails

LEMMA PrepareKeeps == ASSUME P2Inv, NEW c \in Consolidator, P2Prepare(c) PROVE P2Inv'
<1>1. /\ ~At(c, "idle") /\ Goto(c, "select")
      /\ baseline' = (IF baseline = NoBaseline THEN workspace ELSE baseline)
      /\ UNCHANGED <<rows, global, workspace, pollution, clearing, environment>>
  BY DEF P2Prepare, At
<1>2. OnlyMoves(c) /\ phase2'[c].pc = "select"
  BY <1>1, GotoMoves, AllStages DEF P2Inv
<1>3. workspace # NoBaseline /\ baseline' # NoBaseline
  BY <1>1, P2Fields DEF P2Inv
<1>4. P2TypeOK'
  BY <1>1, <1>2, P2TypeStep DEF P2Inv, P2TypeOK, rows
<1>5. RunningOwned'
  BY <1>1 DEF P2Inv, RunningOwned
<1>6. ASSUME environment = "calm" PROVE Keeps(c)
  <2>1. RootAt(phase2[c].pc, phase2[c].inputs)'
    BY <1>2, <1>3 DEF RootAt, Based, Synchronized
  <2>2. baseline' \in {NoBaseline, EmptyRoot} \/ Digested(baseline')
    BY <1>1, <1>6, AtWork DEF Digested
  <2>3. global'.status = "running" /\ global'.token = c /\ global'.lease = "live"
    BY <1>1, <1>6, AtWork DEF OwnsGlobal
  <2> QED
    BY <1>3, <2>1, <2>2, <2>3 DEF Keeps
<1> QED
  BY <1>1, <1>2, <1>4, <1>5, <1>6, P2WorkStep

LEMMA SyncKeeps == ASSUME P2Inv, NEW c \in Consolidator, P2Sync(c) PROVE P2Inv'
<1>1. /\ At(c, "sync") /\ Goto(c, "diff")
      /\ workspace' = [workspace EXCEPT !.inputs = phase2[c].inputs]
      /\ UNCHANGED <<rows, global, baseline, pollution, clearing, environment>>
  BY DEF P2Sync
<1>2. OnlyMoves(c) /\ phase2'[c].pc = "diff" /\ phase2'[c].inputs = phase2[c].inputs
  BY <1>1, GotoMoves, AllStages DEF P2Inv
<1>3. workspace' \in Files /\ workspace'.inputs = phase2[c].inputs
  BY <1>1, P2Fields DEF P2Inv, Files
<1>4. P2TypeOK'
  BY <1>1, <1>2, <1>3, P2TypeStep DEF P2Inv, P2TypeOK, rows
<1>5. RunningOwned'
  BY <1>1 DEF P2Inv, RunningOwned
<1>6. ASSUME environment = "calm" PROVE Keeps(c)
  <2>1. baseline' # NoBaseline /\ baseline' = baseline
    BY <1>1, <1>6, AtWork DEF At, RootAt, Based
  <2>2. RootAt(phase2[c].pc, phase2[c].inputs)'
    BY <1>2, <1>3, <2>1 DEF RootAt, Based, Synchronized
  <2>3. global'.status = "running" /\ global'.token = c /\ global'.lease = "live"
    BY <1>1, <1>6, AtWork DEF OwnsGlobal, At
  <2>4. baseline' \in {NoBaseline, EmptyRoot} \/ Digested(baseline')
    BY <1>6, <2>1, AtWork
  <2> QED
    BY <2>1, <2>2, <2>3, <2>4 DEF Keeps
<1> QED
  BY <1>1, <1>2, <1>4, <1>5, <1>6, P2WorkStep DEF At

\* What an agent leaves in the root.
LEMMA AgentFiles ==
    ASSUME P2TypeOK,
           workspace' \in {[workspace EXCEPT !.digest = workspace.inputs, !.artifacts = "whole"],
                           [workspace EXCEPT !.artifacts = "invalid"], [workspace EXCEPT !.artifacts = "partial"]}
    PROVE  /\ workspace' \in Files /\ workspace'.inputs = workspace.inputs
           /\ Digested(workspace') \/ workspace'.artifacts \in {"invalid", "partial"}
           /\ workspace' = [workspace EXCEPT !.artifacts = "invalid"] => workspace'.artifacts = "invalid"
           /\ workspace' = [workspace EXCEPT !.digest = workspace.inputs, !.artifacts = "whole"] => Digested(workspace')
<1>1. workspace \in Files /\ workspace.inputs \in Inputs
  BY P2Fields
<1>2. CASE workspace' = [workspace EXCEPT !.digest = workspace.inputs, !.artifacts = "whole"]
  BY <1>1, <1>2 DEF Files, Digested
<1>3. CASE workspace' = [workspace EXCEPT !.artifacts = "invalid"]
  BY <1>1, <1>3 DEF Files
<1>4. CASE workspace' = [workspace EXCEPT !.artifacts = "partial"]
  BY <1>1, <1>4 DEF Files
<1> QED
  BY <1>2, <1>3, <1>4

\* A step in which a running agent writes the root.
LEMMA AgentStep ==
    ASSUME P2Inv, NEW c \in Consolidator, phase2[c].pc \in {"agent", "errored", "orphan"}, OnlyMoves(c),
           phase2'[c].inputs = phase2[c].inputs, phase2'[c].pc \in {phase2[c].pc, "completed"},
           phase2[c].pc = "agent" \/ phase2'[c].pc = phase2[c].pc,
           workspace' \in Files, workspace'.inputs = workspace.inputs,
           phase2'[c].pc = "completed" => Digested(workspace') \/ workspace'.artifacts = "invalid",
           UNCHANGED <<rows, global, baseline, pollution, clearing, environment>>
    PROVE  P2Inv'
<1>1. P2TypeOK'
  BY P2TypeStep DEF P2Inv, P2TypeOK, rows
<1>2. RunningOwned'
  BY DEF P2Inv, RunningOwned
<1>3. ASSUME environment = "calm" PROVE Keeps(c)
  <2>1. baseline' # NoBaseline /\ baseline' = baseline
    BY <1>3, AtWork DEF RootAt, Based
  <2>2. phase2[c].pc = "agent" => workspace'.inputs = phase2[c].inputs
    BY <1>3, AtWork DEF RootAt, Synchronized
  <2>3. RootAt(phase2[c].pc, phase2[c].inputs)'
    BY <2>1, <2>2 DEF RootAt, Based, Synchronized
  <2>4. global'.status = "running" /\ global'.token = c /\ global'.lease = "live"
    BY <1>3, AtWork DEF OwnsGlobal, At
  <2>5. baseline' \in {NoBaseline, EmptyRoot} \/ Digested(baseline')
    BY <1>3, <2>1, AtWork
  <2> QED
    BY <2>1, <2>3, <2>4, <2>5 DEF Keeps
<1> QED
  BY <1>1, <1>2, <1>3, P2WorkStep DEF At

LEMMA AgentCompletesKeeps == ASSUME P2Inv, NEW c \in Consolidator, AgentCompletes(c) PROVE P2Inv'
<1>1. OnlyMoves(c) /\ phase2'[c].pc = "completed" /\ phase2'[c].inputs = phase2[c].inputs
  BY GotoMoves, AllStages DEF P2Inv, AgentCompletes
<1>2. /\ workspace' \in Files /\ workspace'.inputs = workspace.inputs
      /\ Digested(workspace') \/ workspace'.artifacts = "invalid"
  BY AgentFiles DEF P2Inv, AgentCompletes
<1> QED
  BY <1>1, <1>2, AgentStep DEF AgentCompletes, At

LEMMA AgentWritesKeeps == ASSUME P2Inv, NEW c \in Consolidator, AgentWrites(c) PROVE P2Inv'
<1>1. OnlyMoves(c) /\ phase2'[c] = phase2[c]
  BY DEF P2Inv, P2TypeOK, AgentWrites, OnlyMoves, P2Row
<1>2. workspace' \in Files /\ workspace'.inputs = workspace.inputs
  BY AgentFiles DEF P2Inv, AgentWrites
<1> QED
  BY <1>1, <1>2, AgentStep DEF AgentWrites

\* The fields of the global row after its updates.
LEMMA GlobalRenewed ==
    ASSUME P2TypeOK, global' = [global EXCEPT !.lease = "live"]
    PROVE  /\ global' \in GlobalRow /\ global'.lease = "live"
           /\ global'.status = global.status /\ global'.token = global.token
  BY DEF P2TypeOK, GlobalRow

LEMMA HeartbeatKeeps == ASSUME P2Inv, NEW c \in Consolidator, P2Heartbeat(c) PROVE P2Inv'
<1>1. environment # "calm" /\ ~At(c, "idle")
  BY AtWork DEF P2Heartbeat, At
<1>2. CASE OwnsGlobal(c)
  <2>1. OnlyMoves(c)
    BY <1>2 DEF P2Inv, P2TypeOK, P2Heartbeat, OnlyMoves, P2Row
  <2>2. global' \in GlobalRow /\ global'.status = global.status /\ global'.token = global.token
    BY <1>2, GlobalRenewed DEF P2Inv, P2Heartbeat
  <2>3. P2TypeOK'
    BY <2>1, <2>2, P2TypeStep DEF P2Inv, P2TypeOK, P2Heartbeat, rows
  <2>4. RunningOwned'
    BY <2>2 DEF P2Inv, RunningOwned
  <2> QED
    BY <1>1, <2>1, <2>3, <2>4, P2WorkStep DEF P2Heartbeat
<1>3. CASE ~OwnsGlobal(c)
  BY <1>1, <1>3, GotoStep, AllStages DEF P2Heartbeat
<1> QED
  BY <1>2, <1>3

LEMMA ConfirmKeeps == ASSUME P2Inv, NEW c \in Consolidator, P2Confirm(c) PROVE P2Inv'
<1>1. CASE OwnsGlobal(c)
  <2>1. OnlyMoves(c) /\ phase2'[c].pc = "unset" /\ phase2'[c].inputs = phase2[c].inputs
    BY <1>1, GotoMoves, AllStages DEF P2Inv, P2Confirm
  <2>2. /\ global' \in GlobalRow /\ global'.lease = "live"
        /\ global'.status = global.status /\ global'.token = global.token
    BY <1>1, GlobalRenewed DEF P2Inv, P2Confirm
  <2>3. P2TypeOK'
    BY <2>1, <2>2, P2TypeStep DEF P2Inv, P2TypeOK, P2Confirm, rows
  <2>4. RunningOwned'
    BY <2>2 DEF P2Inv, RunningOwned
  <2>5. ASSUME environment = "calm" PROVE Keeps(c)
    <3>1. RootAt("confirm", phase2[c].inputs)
      BY <2>5, AtWork DEF P2Confirm, At
    <3>2. RootAt(phase2[c].pc, phase2[c].inputs)'
      BY <2>1, <3>1 DEF RootAt, Based, Synchronized, P2Confirm, Digested
    <3> QED
      BY <1>1, <2>2, <2>5, <3>2, AtWork DEF Keeps, OwnsGlobal, P2Confirm, Digested
  <2> QED
    BY <2>1, <2>3, <2>4, <2>5, P2WorkStep DEF P2Confirm, At
<1>2. CASE ~OwnsGlobal(c)
  BY <1>2, StopStep DEF P2Confirm, At
<1> QED
  BY <1>1, <1>2

LEMMA UnsetKeeps == ASSUME P2Inv, NEW c \in Consolidator, P2Unset(c) PROVE P2Inv'
<1>1. OnlyMoves(c) /\ phase2'[c].pc = "commit" /\ phase2'[c].inputs = phase2[c].inputs
  BY GotoMoves, AllStages DEF P2Inv, P2Unset
<1>2. P2TypeOK'
  BY <1>1, P2TypeStep DEF P2Inv, P2TypeOK, P2Unset, rows
<1>3. RunningOwned'
  BY DEF P2Inv, RunningOwned, P2Unset
<1>4. ASSUME environment = "calm" PROVE Keeps(c)
  <2>1. RootAt("unset", phase2[c].inputs)
    BY <1>4, AtWork DEF P2Unset, At
  <2>2. workspace.inputs = phase2[c].inputs /\ Digested(workspace) /\ workspace' = workspace
    BY <2>1 DEF RootAt, Synchronized, P2Unset
  <2>3. RootAt(phase2[c].pc, phase2[c].inputs)'
    BY <1>1, <2>2 DEF RootAt, Based, Synchronized
  <2>4. global'.status = "running" /\ global'.token = c /\ global'.lease = "live"
    BY <1>4, AtWork DEF OwnsGlobal, P2Unset, At
  <2> QED
    BY <2>2, <2>3, <2>4 DEF Keeps, P2Unset
<1> QED
  BY <1>1, <1>2, <1>3, <1>4, P2WorkStep DEF P2Unset, At

\* The repository gets its commit, whether the reset then ends well or not.
LEMMA CommitStep ==
    ASSUME P2Inv, NEW c \in Consolidator, At(c, "commit"), NEW pc \in {"mark", "fail"}, Goto(c, pc),
           baseline' = workspace,
           UNCHANGED <<rows, global, workspace, pollution, clearing, environment>>
    PROVE  P2Inv'
<1>1. OnlyMoves(c) /\ phase2'[c].pc = pc /\ phase2'[c].inputs = phase2[c].inputs
  BY GotoMoves, AllStages DEF P2Inv
<1>2. P2TypeOK'
  BY <1>1, P2TypeStep DEF P2Inv, P2TypeOK, rows
<1>3. RunningOwned'
  BY DEF P2Inv, RunningOwned
<1>4. ASSUME environment = "calm" PROVE Keeps(c)
  <2>1. RootAt("commit", phase2[c].inputs)
    BY <1>4, AtWork DEF At
  <2>2. /\ baseline'.inputs = phase2[c].inputs /\ Digested(baseline')
        /\ baseline' # NoBaseline
    BY <2>1, P2Fields DEF RootAt, Synchronized, P2Inv
  <2>3. RootAt(phase2[c].pc, phase2[c].inputs)'
    BY <1>1, <2>2 DEF RootAt, Based, Synchronized
  <2>4. global'.status = "running" /\ global'.token = c /\ global'.lease = "live"
    BY <1>4, AtWork DEF OwnsGlobal, At
  <2> QED
    BY <2>2, <2>3, <2>4 DEF Keeps
<1> QED
  BY <1>1, <1>2, <1>3, <1>4, P2WorkStep DEF At

LEMMA CommitKeeps == ASSUME P2Inv, NEW c \in Consolidator, P2Commit(c) PROVE P2Inv'
  BY CommitStep DEF P2Commit

LEMMA StepFailsKeeps == ASSUME P2Inv, NEW c \in Consolidator, P2StepFails(c) PROVE P2Inv'
<1>1. RootAt("fail", phase2[c].inputs) /\ Goto(c, "fail") /\ ~At(c, "idle")
  BY DEF RootAt, Based, Synchronized, P2StepFails, At
<1>2. CASE UNCHANGED baseline
  BY <1>1, <1>2, GotoStep, AllStages DEF P2StepFails
<1>3. CASE At(c, "commit") /\ baseline' = workspace
  BY <1>1, <1>3, CommitStep DEF P2StepFails
<1> QED
  BY <1>2, <1>3 DEF P2StepFails

\* A step that ends a consolidation and settles the row, which is running no more.
LEMMA SettleStep ==
    ASSUME P2Inv, NEW c \in Consolidator, ~At(c, "idle"), Stop(c),
           output' \in [Thread -> OutputRow], global' \in GlobalRow,
           global' = global \/ global'.status # "running",
           UNCHANGED <<mode, workspace, baseline, pollution, clearing, environment>>
    PROVE  P2Inv'
<1>1. OnlyMoves(c) /\ phase2'[c].pc = "idle"
  BY StopMoves DEF P2Inv
<1>2. P2TypeOK'
  BY <1>1, P2TypeStep DEF P2Inv, P2TypeOK
<1>3. RunningOwned'
  BY DEF P2Inv, RunningOwned
<1>4. ASSUME environment = "calm" PROVE Keeps(c)
  <2>1. RootAt(phase2[c].pc, phase2[c].inputs)'
    BY <1>1 DEF RootAt, Based, Synchronized
  <2> QED
    BY <1>1, <1>4, <2>1, AtWork DEF Keeps, Digested
<1> QED
  BY <1>1, <1>2, <1>3, <1>4, P2WorkStep

\* Recording a consolidation marks only snapshots that are still there.
LEMMA RecordedRows ==
    ASSUME P2TypeOK, NEW c \in Consolidator
    PROVE  /\ Recorded(c) \in [Thread -> OutputRow]
           /\ \A t \in Thread : Recorded(c)[t].selected # 0 => Recorded(c)[t].selected = phase2[c].inputs[t]
<1> DEFINE s(t) == IF output[t].source = phase2[c].inputs[t] THEN output[t].source ELSE 0
<1> DEFINE r(t) == [output[t] EXCEPT !.selected = s(t)]
<1>1. ASSUME NEW t \in Thread
      PROVE  output[t] \in OutputRow /\ s(t) \in 0 .. MaxSource /\ (s(t) # 0 => s(t) = phase2[c].inputs[t])
  BY <1>1, MaxSourceAssumption DEF P2TypeOK, OutputRow
<1>2. Recorded(c) = [t \in Thread |-> r(t)]
  BY DEF Recorded
<1> HIDE DEF s
<1>3. ASSUME NEW t \in Thread PROVE r(t) \in OutputRow /\ r(t).selected = s(t)
  BY <1>1, <1>3 DEF OutputRow
<1> HIDE DEF r
<1> QED
  BY <1>1, <1>2, <1>3

\* The row of a consolidation that succeeded or failed.
LEMMA GlobalSettled ==
    ASSUME P2TypeOK
    PROVE  /\ [global EXCEPT !.status = "done", !.lease = "none", !.finished = "recent", !.error = FALSE] \in GlobalRow
           /\ [global EXCEPT !.status = "error", !.lease = "none", !.retry = "waiting",
                             !.finished = "recent", !.error = TRUE] \in GlobalRow
           /\ [global EXCEPT !.status = "done", !.lease = "none",
                             !.finished = "recent", !.error = FALSE].status = "done"
           /\ [global EXCEPT !.status = "error", !.lease = "none", !.retry = "waiting",
                             !.finished = "recent", !.error = TRUE].status = "error"
  BY DEF P2TypeOK, GlobalRow

LEMMA SucceedKeeps == ASSUME P2Inv, NEW c \in Consolidator, P2Succeed(c) PROVE P2Inv'
<1>1. /\ output' \in [Thread -> OutputRow] /\ global' \in GlobalRow
      /\ global' = global \/ global'.status # "running"
  BY RecordedRows, GlobalSettled DEF P2Succeed, P2Inv, P2TypeOK
<1> QED
  BY <1>1, SettleStep DEF P2Succeed, At

LEMMA FailedKeeps == ASSUME P2Inv, NEW c \in Consolidator, P2Failed(c) PROVE P2Inv'
<1>1. /\ output' \in [Thread -> OutputRow] /\ global' \in GlobalRow
      /\ global' = global \/ global'.status # "running"
  BY GlobalSettled DEF P2Failed, P2Inv, P2TypeOK, rows
<1> QED
  BY <1>1, SettleStep DEF P2Failed, At, rows

LEMMA ClaimedRow ==
    ASSUME NEW c \in Consolidator, global' = [NoGlobal EXCEPT !.status = "running", !.token = c, !.lease = "live"]
    PROVE  /\ global' \in GlobalRow
           /\ global'.status = "running" /\ global'.token = c /\ global'.lease = "live"
  BY DEF NoGlobal, GlobalRow

LEMMA ClaimKeeps == ASSUME P2Inv, NEW c \in Consolidator, P2Claim(c) PROVE P2Inv'
<1>1. OnlyMoves(c) /\ phase2'[c].pc = "prepare"
  BY GotoMoves, AllStages DEF P2Inv, P2Claim
<1>2. /\ global' \in GlobalRow
      /\ global'.status = "running" /\ global'.token = c /\ global'.lease = "live"
  BY ClaimedRow DEF P2Claim
<1>3. P2TypeOK'
  BY <1>1, <1>2, P2TypeStep DEF P2Inv, P2TypeOK, P2Claim, rows
<1>4. RunningOwned'
  BY <1>2 DEF RunningOwned
<1>5. ASSUME environment = "calm" PROVE Keeps(c)
  <2>1. RootAt(phase2[c].pc, phase2[c].inputs)'
    BY <1>1 DEF RootAt, Based, Synchronized
  <2> QED
    BY <1>2, <1>5, <2>1, AtWork DEF Keeps, P2Claim, Digested
<1> QED
  BY <1>1, <1>3, <1>4, <1>5, P2WorkStep DEF P2Claim

\* Asking for a consolidation leaves a running one alone.
LEMMA EnqueuedFields ==
    ASSUME P2TypeOK
    PROVE  /\ EnqueuedRow(global) \in GlobalRow
           /\ EnqueuedRow(global).status = IF global.status = "running" THEN "running" ELSE "pending"
           /\ global.status = "running" => EnqueuedRow(global) = global
  BY DEF P2TypeOK, GlobalRow, EnqueuedRow

\* A step outside the consolidators that at most asks for a consolidation.
LEMMA EnqueueStep ==
    ASSUME P2Inv, global' = global \/ global' = EnqueuedRow(global),
           mode' \in [Thread -> {"enabled", "polluted"}], output' \in [Thread -> OutputRow],
           pollution' \in [Thread -> {"idle", "selected", "unselected", "enqueue"}],
           UNCHANGED <<workspace, baseline, phase2, clearing, environment>>
    PROVE  P2Inv'
<1>1. /\ global' \in GlobalRow
      /\ global.status = "running" => global' = global
      /\ global'.status = "running" => global' = global
  BY EnqueuedFields DEF P2Inv, P2TypeOK
<1>2. P2TypeOK'
  BY <1>1 DEF P2Inv, P2TypeOK
<1>3. RunningOwned'
  BY <1>1 DEF P2Inv, RunningOwned
<1>4. environment = "calm" => \A c \in Consolidator : ~At(c, "idle") =>
          global'.status = "running" /\ global'.token = c /\ global'.lease = "live"
  BY <1>1, AtWork DEF OwnsGlobal
<1> QED
  BY <1>2, <1>3, <1>4, P2OutsideStep

\* Phase 1 replaces the source of one memory, or forgets it.
LEMMA Stage1Rows ==
    ASSUME P2TypeOK, NEW t \in Thread, Stage1(t)
    PROVE  output' \in [Thread -> OutputRow]
<1>1. output \in [Thread -> OutputRow] /\ output[t] \in OutputRow /\ output[t].source \in 0 .. MaxSource
  BY DEF P2TypeOK, OutputRow
<1>2. CASE output' = [output EXCEPT ![t] = NoOutput]
  BY <1>1, <1>2, RootFields
<1>3. CASE \E s \in (output[t].source + 1) .. (IF environment = "calm" THEN MaxSource ELSE RoughSource) :
               output' = [output EXCEPT ![t].source = s]
  <2>1. PICK s \in (output[t].source + 1) .. (IF environment = "calm" THEN MaxSource ELSE RoughSource) :
            output' = [output EXCEPT ![t].source = s]
    BY <1>3
  <2>2. s \in 0 .. MaxSource
    BY <1>1, <2>1, MaxSourceAssumption, RoughSourceAssumption
  <2> DEFINE r == [output[t] EXCEPT !.source = s]
  <2>3. r \in OutputRow
    BY <1>1, <2>2 DEF OutputRow
  <2>4. output' = [output EXCEPT ![t] = r]
    BY <2>1
  <2> HIDE DEF r
  <2> QED
    BY <1>1, <2>3, <2>4
<1> QED
  BY <1>2, <1>3 DEF Stage1

LEMMA Stage1Keeps == ASSUME P2Inv, NEW t \in Thread, Stage1(t) PROVE P2Inv'
<1>1. output' \in [Thread -> OutputRow]
  BY Stage1Rows DEF P2Inv
<1> QED
  BY <1>1, EnqueueStep DEF Stage1, P2Inv, P2TypeOK

LEMMA PolluteKeeps ==
    ASSUME P2Inv, NEW t \in Thread, PolluteRead(t) \/ PolluteMark(t) \/ PolluteEnqueue(t)
    PROVE  P2Inv'
<1>1. mode' \in [Thread -> {"enabled", "polluted"}]
  BY DEF P2Inv, P2TypeOK, PolluteRead, PolluteMark, PolluteEnqueue, rows
<1>2. pollution' \in [Thread -> {"idle", "selected", "unselected", "enqueue"}]
  BY DEF P2Inv, P2TypeOK, PolluteRead, PolluteMark, PolluteEnqueue
<1>3. /\ output' \in [Thread -> OutputRow]
      /\ global' = global \/ global' = EnqueuedRow(global)
      /\ UNCHANGED <<workspace, baseline, phase2, clearing, environment>>
  BY DEF P2Inv, P2TypeOK, PolluteRead, PolluteMark, PolluteEnqueue, rows
<1> QED
  BY <1>1, <1>2, <1>3, EnqueueStep

\* The clock changes neither the status nor the owner of the global row.
LEMMA ClockFields ==
    ASSUME P2TypeOK, GlobalTimePasses
    PROVE  /\ global' \in GlobalRow /\ global'.status = global.status /\ global'.token = global.token
           /\ \/ global'.lease = global.lease
              \/ environment = "calm" => \A c \in Consolidator : global.token = c => At(c, "idle")
  BY DEF P2TypeOK, GlobalTimePasses, GlobalRow

LEMMA ClockKeeps == ASSUME P2Inv, GlobalTimePasses PROVE P2Inv'
<1>1. /\ global' \in GlobalRow /\ global'.status = global.status /\ global'.token = global.token
      /\ \/ global'.lease = global.lease
         \/ environment = "calm" => \A c \in Consolidator : global.token = c => At(c, "idle")
  BY ClockFields DEF P2Inv
<1>2. P2TypeOK'
  BY <1>1 DEF P2Inv, P2TypeOK, GlobalTimePasses, rows
<1>3. RunningOwned'
  BY <1>1 DEF P2Inv, RunningOwned
<1>4. environment = "calm" => \A c \in Consolidator : ~At(c, "idle") =>
          global'.status = "running" /\ global'.token = c /\ global'.lease = "live"
  BY <1>1, AtWork DEF OwnsGlobal
<1> QED
  BY <1>2, <1>3, <1>4, P2OutsideStep DEF GlobalTimePasses

LEMMA ResetKeeps == ASSUME P2Inv, ResetRows \/ ResetRoot PROVE P2Inv'
<1>1. environment # "calm" /\ UNCHANGED environment
  BY DEF ResetRows, ResetRoot, P2Inv, RootKept
<1>2. output' \in [Thread -> OutputRow] /\ global' \in GlobalRow
  BY RootFields DEF ResetRows, ResetRoot, P2Inv, P2TypeOK, rows
<1>3. workspace' \in Files /\ baseline' \in Files \cup {NoBaseline} /\ clearing' \in BOOLEAN
  BY RootFields DEF ResetRows, ResetRoot, P2Inv, P2TypeOK
<1>4. P2TypeOK'
  BY <1>2, <1>3 DEF ResetRows, ResetRoot, P2Inv, P2TypeOK, rows
<1>5. RunningOwned'
  BY RootFields DEF ResetRows, ResetRoot, P2Inv, RunningOwned
<1> QED
  BY <1>1, <1>4, <1>5 DEF P2Inv, WorkersOwn, BaselineIsDigested, RootKept

LEMMA P2StepHolds == P2Inv /\ [P2Next]_p2Vars => P2Inv'
<1> SUFFICES ASSUME P2Inv, [P2Next]_p2Vars PROVE P2Inv'
  OBVIOUS
<1>1. ASSUME NEW c \in Consolidator, P2Work(c)
      PROVE  P2Inv'
  <2>1. CASE OrphanEnds(c)
    BY <2>1, StopStep DEF OrphanEnds, At
  <2> QED
    BY <1>1, <2>1, PrepareKeeps, SelectKeysKeeps, LoadRowsKeeps, SyncKeeps, DiffKeeps, HeartbeatKeeps,
       ShutdownKeeps, ConfirmKeeps, UnsetKeeps, CommitKeeps, SucceedKeeps, FailedKeeps DEF P2Work
<1>2. ASSUME NEW c \in Consolidator, P2Crash(c) PROVE P2Inv'
  BY <1>2, StopStep DEF P2Crash
<1>3. CASE UNCHANGED p2Vars
  BY <1>3 DEF p2Vars, P2Inv, P2TypeOK, RunningOwned, WorkersOwn, At, OwnsGlobal, BaselineIsDigested,
              RootKept, RootAt, Digested
<1> QED
  BY <1>1, <1>2, <1>3, ClaimKeeps, AgentCompletesKeeps, AgentErrsKeeps, AgentWritesKeeps, ShutdownFailsKeeps,
     StepFailsKeeps, ClockKeeps, Stage1Keeps, PolluteKeeps, ResetKeeps DEF P2Next

\* Phase 2 keeps its rows well typed, its job owned, its workers under their
\* lease and the memory root in order.
THEOREM P2Invariance == P2Spec => []P2Inv
  BY P2InitHolds, P2StepHolds, PTL DEF P2Spec

\* While leases outlast their consolidation, at most one consolidator is
\* between its claim and its last file operation, however many processes run
\* phase 2 and wherever they die (phase2.rs, try_claim_global_phase2_job).
THEOREM OneConsolidation == P2Spec => []OnlyOneConsolidation
<1>1. P2Inv => OnlyOneConsolidation
  <2> SUFFICES ASSUME P2Inv, environment = "calm" PROVE Cardinality(Touching) <= 1
    BY DEF OnlyOneConsolidation
  <2>1. \A c, d \in Touching : c = d
    BY Alone DEF Touching, At
  <2>2. CASE Touching = {}
    BY <2>2, FS_EmptySet
  <2>3. CASE Touching # {}
    <3>1. PICK c \in Touching : Touching = {c}
      BY <2>1, <2>3
    <3> QED
      BY <3>1, FS_Singleton
  <2> QED
    BY <2>2, <2>3
<1> QED
  BY <1>1, P2Invariance, PTL

\* A git baseline is never inputs without the digest made from them: a process
\* that dies between the removal of .git and the commit leaves files that the
\* next run may take as its baseline (reset_git_repository, prepare_memory_workspace).
THEOREM BaselineDigested == P2Spec => []BaselineIsDigested
  BY P2Invariance, PTL DEF P2Inv

\* The step that takes the row from running to done or error is the owner's.
LEMMA SettledBy ==
    ASSUME P2Inv, P2Next, global.status = "running", global'.status \in {"done", "error"}
    PROVE  \E c \in Consolidator :
               /\ global.token = c /\ Stop(c)
               /\ \/ At(c, "mark") /\ P2Succeed(c) /\ global'.status = "done" /\ output' = Recorded(c)
                  \/ At(c, "fail") /\ P2Failed(c) /\ global'.status = "error"
<1>1. global.token \in Consolidator /\ Nobody \notin Consolidator
  BY ConsolidatorAssumption DEF P2Inv, RunningOwned
<1>2. ASSUME NEW c \in Consolidator, P2Succeed(c) \/ P2Failed(c)
      PROVE  /\ global.token = c /\ Stop(c)
             /\ \/ At(c, "mark") /\ P2Succeed(c) /\ global'.status = "done" /\ output' = Recorded(c)
                \/ At(c, "fail") /\ P2Failed(c) /\ global'.status = "error"
  <2>1. CASE P2Succeed(c)
    BY <2>1, GlobalSettled DEF P2Succeed, OwnsGlobal, P2Inv
  <2>2. CASE P2Failed(c)
    BY <1>1, <2>2, GlobalSettled DEF P2Failed, MayFail, P2Inv
  <2> QED
    BY <1>2, <2>1, <2>2
<1>3. ASSUME NEW c \in Consolidator,
             P2Claim(c) \/ P2Heartbeat(c) \/ P2Confirm(c)
      PROVE  FALSE
  BY <1>3, ClaimedRow, GlobalRenewed DEF P2Claim, P2Heartbeat, P2Confirm, P2Inv
<1>4. ASSUME NEW c \in Consolidator,
             \/ P2Prepare(c) \/ P2SelectKeys(c) \/ P2LoadRows(c) \/ P2Sync(c) \/ P2Diff(c)
             \/ P2Shutdown(c) \/ OrphanEnds(c) \/ P2Unset(c) \/ P2Commit(c)
             \/ AgentCompletes(c) \/ AgentErrs(c) \/ AgentWrites(c)
             \/ P2ShutdownFails(c) \/ P2StepFails(c) \/ P2Crash(c)
      PROVE  FALSE
  <2>1. UNCHANGED global
    BY <1>4, Zenon DEF P2Prepare, P2SelectKeys, P2LoadRows, P2Sync, P2Diff, P2Shutdown, OrphanEnds, P2Unset, P2Commit,
       AgentCompletes, AgentErrs, AgentWrites, P2ShutdownFails, P2StepFails, P2Crash
  <2> QED
    BY <2>1
<1>5. ASSUME GlobalTimePasses \/ ResetRows \/ ResetRoot PROVE FALSE
  BY <1>5, ClockFields, RootFields DEF ResetRows, ResetRoot, P2Inv
<1>6. ASSUME NEW t \in Thread, Stage1(t) \/ PolluteRead(t) \/ PolluteMark(t) \/ PolluteEnqueue(t) PROVE FALSE
  <2>1. global' = global \/ global' = EnqueuedRow(global)
    BY <1>6 DEF Stage1, PolluteRead, PolluteMark, PolluteEnqueue
  <2> QED
    BY <2>1, EnqueuedFields DEF P2Inv
<1> QED
  BY <1>2, <1>3, <1>4, <1>5, <1>6 DEF P2Next, P2Work

\* Nobody but the owner of the running job settles it, also not through
\* mark_global_phase2_job_failed_if_unowned.
THEOREM OwnerSettles == P2Spec => OnlyOwnerSettles
<1> DEFINE A == global.status = "running" /\ global'.status \in {"done", "error"}
                => \E c \in Consolidator :
                      global.token = c /\ phase2[c].pc \in {"mark", "fail"} /\ phase2'[c].pc = "idle"
<1>1. P2Inv /\ [P2Next]_p2Vars => [A]_p2Vars
  <2> SUFFICES ASSUME P2Inv, P2Next, global.status = "running", global'.status \in {"done", "error"}
               PROVE  \E c \in Consolidator :
                          global.token = c /\ phase2[c].pc \in {"mark", "fail"} /\ phase2'[c].pc = "idle"
    OBVIOUS
  <2>1. PICK c \in Consolidator : global.token = c /\ Stop(c) /\ (At(c, "mark") \/ At(c, "fail"))
    BY SettledBy
  <2> QED
    BY <2>1, StopMoves DEF At, P2Inv
<1> QED
  BY <1>1, P2Invariance, PTL DEF P2Spec, OnlyOwnerSettles

\* A success is recorded only over a baseline that digests its inputs, and the
\* snapshots it marks are those of the baseline (mark_global_phase2_job_succeeded).
THEOREM SuccessIsBaseline == P2Spec => SuccessMatchesBaseline
<1> DEFINE A == environment = "calm" /\ global.status = "running" /\ global'.status = "done" =>
                    /\ Digested(baseline)
                    /\ \A t \in Thread : output'[t].selected # 0 => output'[t].selected = baseline.inputs[t]
<1>1. P2Inv /\ [P2Next]_p2Vars => [A]_p2Vars
  <2> SUFFICES ASSUME P2Inv, P2Next, environment = "calm", global.status = "running", global'.status = "done"
               PROVE  /\ Digested(baseline)
                      /\ \A t \in Thread : output'[t].selected # 0 => output'[t].selected = baseline.inputs[t]
    OBVIOUS
  <2>1. PICK c \in Consolidator : At(c, "mark") /\ output' = Recorded(c)
    BY SettledBy
  <2>2. Digested(baseline) /\ baseline.inputs = phase2[c].inputs
    BY <2>1, AtWork DEF At, RootAt
  <2> QED
    BY <2>1, <2>2, RecordedRows DEF P2Inv
<1> QED
  BY <1>1, P2Invariance, PTL DEF P2Spec, SuccessMatchesBaseline

\* The queue that the other phase sees.
LEMMA QueueFields ==
    /\ QueueOf(NoGlobal) = "idle"
    /\ P2TypeOK => QueueOf(EnqueuedRow(global)) = P2Outputs!Enqueued(QueueOf(global))
<1>1. QueueOf(NoGlobal) = "idle"
  BY RootFields DEF QueueOf
<1>2. ASSUME P2TypeOK PROVE QueueOf(EnqueuedRow(global)) = P2Outputs!Enqueued(QueueOf(global))
  BY <1>2, EnqueuedFields DEF QueueOf, P2Outputs!Enqueued
<1> QED
  BY <1>1, <1>2

LEMMA Stage1Outputs == ASSUME P2Inv, NEW t \in Thread, Stage1(t) PROVE P2Outputs!Publish(t) \/ P2Outputs!Forget(t)
<1>1. QueueOf(EnqueuedRow(global)) = P2Outputs!Enqueued(QueueOf(global))
  BY QueueFields DEF P2Inv
<1>2. CASE /\ output' = [output EXCEPT ![t] = NoOutput]
           /\ global' = EnqueuedRow(global) \/ (output[t].selected = 0 /\ global' = global)
  <2>1. output' = [output EXCEPT ![t] = P2Outputs!NoOutput]
    BY <1>2 DEF NoOutput, P2Outputs!NoOutput
  <2>2. CASE global' = EnqueuedRow(global)
    BY <1>1, <2>1, <2>2 DEF P2Outputs!Forget
  <2>3. CASE output[t].selected = 0 /\ global' = global
    BY <2>1, <2>3 DEF P2Outputs!Forget, QueueOf
  <2> QED
    BY <1>2, <2>2, <2>3
<1>3. CASE \E s \in (output[t].source + 1) .. (IF environment = "calm" THEN MaxSource ELSE RoughSource) :
               output' = [output EXCEPT ![t].source = s] /\ global' = EnqueuedRow(global)
  <2>1. PICK s \in (output[t].source + 1) .. (IF environment = "calm" THEN MaxSource ELSE RoughSource) :
            output' = [output EXCEPT ![t].source = s] /\ global' = EnqueuedRow(global)
    BY <1>3
  <2>2. s \in output[t].source .. MaxSource
    <3>1. output[t].source \in 0 .. MaxSource
      BY DEF P2Inv, P2TypeOK, OutputRow
    <3> QED
      BY <2>1, <3>1, MaxSourceAssumption, RoughSourceAssumption
  <2> QED
    BY <1>1, <2>1, <2>2 DEF P2Outputs!Publish
<1> QED
  BY <1>2, <1>3 DEF Stage1

LEMMA SucceedOutputs ==
    ASSUME P2Inv, NEW c \in Consolidator, P2Succeed(c)
    PROVE  P2Outputs!Record \/ UNCHANGED <<output, QueueOf(global)>>
<1>1. CASE ~OwnsGlobal(c)
  BY <1>1 DEF P2Succeed, QueueOf
<1>2. CASE OwnsGlobal(c)
  <2> DEFINE kept == {t \in Thread : output[t].source = phase2[c].inputs[t]}
  <2>1. Recorded(c) = [t \in Thread |->
                          [output[t] EXCEPT !.selected = IF t \in kept THEN output[t].source ELSE 0]]
    BY DEF Recorded
  <2>2. kept \in SUBSET Thread
    OBVIOUS
  <2> HIDE DEF kept
  <2>3. QueueOf(global) = "running" /\ QueueOf(global)' = "idle"
    BY <1>2, GlobalSettled DEF P2Succeed, OwnsGlobal, QueueOf, P2Inv
  <2>4. output' = Recorded(c)
    BY <1>2 DEF P2Succeed
  <2> QED
    BY <2>1, <2>2, <2>3, <2>4 DEF P2Outputs!Record
<1> QED
  BY <1>1, <1>2

\* Phase 2 implements what MemoryOutputs promises phase 1: it marks only
\* snapshots that are there, and records or fails only a running job.
THEOREM P2ImplementsMemoryOutputs == P2Spec => P2KeepsOutputs
<1>1. P2Init => P2Outputs!Init
  BY QueueFields DEF P2Init, P2Outputs!Init, NoOutput, P2Outputs!NoOutput
<1>2. ASSUME P2Inv, [P2Next]_p2Vars
      PROVE  P2Outputs!Next \/ UNCHANGED <<output, QueueOf(global)>>
  <2>1. ASSUME NEW c \in Consolidator, P2Claim(c) PROVE P2Outputs!Claim
    BY <2>1, ClaimedRow DEF P2Claim, P2Outputs!Claim, QueueOf, rows
  <2>2. ASSUME NEW c \in Consolidator, P2Failed(c)
        PROVE  P2Outputs!Fail \/ UNCHANGED <<output, QueueOf(global)>>
    BY <1>2, <2>2, GlobalSettled DEF P2Failed, MayFail, P2Outputs!Fail, QueueOf, rows, P2Inv
  <2>3. ASSUME NEW c \in Consolidator,
               \/ P2Prepare(c) \/ P2SelectKeys(c) \/ P2LoadRows(c) \/ P2Sync(c) \/ P2Diff(c)
               \/ P2Shutdown(c) \/ OrphanEnds(c) \/ P2Unset(c) \/ P2Commit(c)
               \/ AgentCompletes(c) \/ AgentErrs(c) \/ AgentWrites(c)
               \/ P2ShutdownFails(c) \/ P2StepFails(c) \/ P2Crash(c)
        PROVE  UNCHANGED <<output, QueueOf(global)>>
    <3>1. UNCHANGED <<rows, global>>
      BY <2>3, Zenon DEF P2Prepare, P2SelectKeys, P2LoadRows, P2Sync, P2Diff, P2Shutdown, OrphanEnds, P2Unset,
         P2Commit, AgentCompletes, AgentErrs, AgentWrites, P2ShutdownFails, P2StepFails, P2Crash
    <3> QED
      BY <3>1 DEF rows, QueueOf
  <2>4. ASSUME NEW c \in Consolidator, P2Heartbeat(c) \/ P2Confirm(c)
        PROVE  UNCHANGED <<output, QueueOf(global)>>
    <3>1. UNCHANGED output /\ (global' = global \/ global' = [global EXCEPT !.lease = "live"])
      BY <2>4 DEF P2Heartbeat, P2Confirm, rows
    <3> QED
      BY <1>2, <3>1, GlobalRenewed DEF P2Inv, QueueOf
  <2>5. ASSUME GlobalTimePasses PROVE UNCHANGED <<output, QueueOf(global)>>
    BY <1>2, <2>5, ClockFields DEF P2Inv, GlobalTimePasses, rows, QueueOf
  <2>6. ASSUME NEW t \in Thread, PolluteRead(t) \/ PolluteMark(t) \/ PolluteEnqueue(t)
        PROVE  P2Outputs!Enqueue \/ UNCHANGED <<output, QueueOf(global)>>
    <3>1. UNCHANGED output /\ (global' = global \/ global' = EnqueuedRow(global))
      BY <2>6 DEF PolluteRead, PolluteMark, PolluteEnqueue, rows
    <3> QED
      BY <1>2, <3>1, QueueFields DEF P2Inv, P2Outputs!Enqueue, QueueOf
  <2>7. CASE ResetRows
    BY <2>7, QueueFields DEF ResetRows, P2Outputs!Clear, P2Outputs!Next, NoOutput, P2Outputs!NoOutput
  <2>8. CASE ResetRoot \/ UNCHANGED p2Vars
    BY <2>8 DEF ResetRoot, p2Vars, rows, QueueOf
  <2> QED
    BY <1>2, <2>1, <2>2, <2>3, <2>4, <2>5, <2>6, <2>7, <2>8, Stage1Outputs, SucceedOutputs
    DEF P2Next, P2Work, P2Outputs!Next
<1> QED
  BY <1>1, <1>2, P2Invariance, PTL DEF P2Spec, P2KeepsOutputs, P2Outputs!Spec

(***************************************************************************)
(* The part of PollutedForgotten that is a safety property.  A polluted    *)
(* thread is forgotten when it is outside the recorded baseline and nobody *)
(* is left who loaded its memory before it was polluted.                   *)
(***************************************************************************)
Loaded == {"sync", "diff", "agent", "completed", "errored", "confirm", "unset", "commit", "mark"}

Forgotten(t) ==
    /\ mode[t] = "polluted" /\ output[t].selected = 0
    /\ \A c \in Consolidator : phase2[c].pc \in Loaded => phase2[c].inputs[t] = 0

\* A consolidator that moves on with the inputs it has.
LEMMA GotoForgets ==
    ASSUME P2TypeOK, NEW t \in Thread, Forgotten(t), NEW c \in Consolidator, NEW pc \in Stage, Goto(c, pc),
           pc \in Loaded => phase2[c].pc \in Loaded, UNCHANGED <<mode, output>>
    PROVE  Forgotten(t)'
<1>1. OnlyMoves(c) /\ phase2'[c].pc = pc /\ phase2'[c].inputs = phase2[c].inputs
  BY GotoMoves
<1> QED
  BY <1>1 DEF Forgotten, OnlyMoves

LEMMA StopForgets ==
    ASSUME P2TypeOK, NEW t \in Thread, Forgotten(t), NEW c \in Consolidator, Stop(c),
           UNCHANGED mode, output'[t].selected = 0
    PROVE  Forgotten(t)'
<1>1. OnlyMoves(c) /\ phase2'[c].pc = "idle"
  BY StopMoves
<1> QED
  BY <1>1 DEF Forgotten, OnlyMoves, Loaded

LEMMA LoadForgets ==
    ASSUME P2TypeOK, NEW t \in Thread, Forgotten(t), NEW c \in Consolidator, P2SelectKeys(c) \/ P2LoadRows(c)
    PROVE  Forgotten(t)'
<1>1. \A d \in Consolidator : d # c => phase2'[d] = phase2[d]
  BY DEF P2TypeOK, P2SelectKeys, P2LoadRows
<1>2. phase2'[c].pc \in Loaded => phase2'[c].inputs[t] = 0
  <2>1. CASE P2SelectKeys(c)
    <3>1. phase2'[c].pc = "load"
      BY <2>1 DEF P2TypeOK, P2SelectKeys
    <3> QED
      BY <3>1 DEF Loaded
  <2>2. CASE P2LoadRows(c)
    <3>1. ~Enabled(t)
      BY DEF Forgotten, Enabled
    <3>2. phase2'[c].inputs =
              [u \in Thread |-> IF Enabled(u) /\ output[u].source = phase2[c].inputs[u]
                                THEN phase2[c].inputs[u] ELSE 0]
      BY <2>2 DEF P2TypeOK, P2LoadRows
    <3> QED
      BY <3>1, <3>2
  <2> QED
    BY <2>1, <2>2
<1>3. UNCHANGED <<mode, output>>
  BY DEF P2SelectKeys, P2LoadRows, rows
<1> QED
  BY <1>1, <1>2, <1>3 DEF Forgotten

LEMMA SucceedForgets ==
    ASSUME P2TypeOK, NEW t \in Thread, Forgotten(t), NEW c \in Consolidator, P2Succeed(c)
    PROVE  Forgotten(t)'
<1>1. phase2[c].inputs[t] = 0
  BY DEF P2Succeed, At, Forgotten, Loaded
<1>2. output'[t].selected = 0
  BY <1>1, RecordedRows DEF P2Succeed, Forgotten
<1> QED
  BY <1>2, StopForgets DEF P2Succeed

\* The steps outside the consolidators.
LEMMA OutsideForgets ==
    ASSUME P2TypeOK, NEW t \in Thread, Forgotten(t), UNCHANGED <<phase2, mode>>, output'[t].selected = 0
    PROVE  Forgotten(t)'
  BY DEF Forgotten

LEMMA Stage1Forgets ==
    ASSUME P2TypeOK, NEW t \in Thread, Forgotten(t), NEW u \in Thread, Stage1(u)
    PROVE  Forgotten(t)'
<1>1. output \in [Thread -> OutputRow] /\ NoOutput.selected = 0 /\ output[t].selected = 0
  BY DEF P2TypeOK, NoOutput, Forgotten
<1>2. output' = [output EXCEPT ![u] = NoOutput] \/ \E s : output' = [output EXCEPT ![u].source = s]
  BY DEF Stage1
<1>3. output'[t].selected = 0
  <2>1. CASE output' = [output EXCEPT ![u] = NoOutput]
    BY <1>1, <2>1
  <2>2. ASSUME NEW s, output' = [output EXCEPT ![u].source = s] PROVE output'[t].selected = 0
    BY <1>1, <2>2 DEF OutputRow
  <2> QED
    BY <1>2, <2>1, <2>2
<1> QED
  BY <1>3, OutsideForgets DEF Stage1

LEMMA ForgottenStep ==
    ASSUME P2Inv, [P2Next]_p2Vars, NEW t \in Thread, Forgotten(t)
    PROVE  Forgotten(t)'
<1>1. P2TypeOK
  BY DEF P2Inv
<1> USE <1>1, AllStages
<1>2. ASSUME NEW c \in Consolidator, P2Crash(c) \/ OrphanEnds(c) \/ P2Failed(c) PROVE Forgotten(t)'
  BY <1>2, StopForgets DEF P2Crash, OrphanEnds, P2Failed, rows, Forgotten
<1>3. ASSUME NEW c \in Consolidator, P2Claim(c) \/ P2Prepare(c) \/ P2StepFails(c) PROVE Forgotten(t)'
  BY <1>3, GotoForgets DEF P2Claim, P2Prepare, P2StepFails, rows, Loaded
<1>4. ASSUME NEW c \in Consolidator,
             P2Sync(c) \/ AgentCompletes(c) \/ AgentErrs(c) \/ P2Unset(c) \/ P2Commit(c)
      PROVE  Forgotten(t)'
  BY <1>4, GotoForgets DEF P2Sync, AgentCompletes, AgentErrs, P2Unset, P2Commit, rows, Loaded, At
<1>5. ASSUME NEW c \in Consolidator, P2Diff(c) PROVE Forgotten(t)'
  <2>1. Goto(c, "fail") \/ Goto(c, "mark") \/ Goto(c, "agent")
    BY <1>5, P2Fields DEF P2Diff
  <2> QED
    BY <1>5, <2>1, GotoForgets DEF P2Diff, rows, Loaded, At
<1>6. ASSUME NEW c \in Consolidator, P2Shutdown(c) \/ P2ShutdownFails(c) PROVE Forgotten(t)'
  <2>1. UNCHANGED <<mode, output>> /\ phase2[c].pc \in Loaded /\ output[t].selected = 0
    BY <1>6 DEF P2Shutdown, P2ShutdownFails, rows, Loaded, At, Forgotten
  <2>2. Goto(c, "fail") \/ Goto(c, "confirm") \/ Goto(c, "orphan") \/ Stop(c)
    BY <1>6 DEF P2Shutdown, P2ShutdownFails
  <2> QED
    BY <2>1, <2>2, GotoForgets, StopForgets
<1>7. ASSUME NEW c \in Consolidator, P2Heartbeat(c) \/ P2Confirm(c) PROVE Forgotten(t)'
  <2>1. UNCHANGED <<mode, output>> /\ phase2[c].pc \in Loaded /\ output[t].selected = 0
    BY <1>7 DEF P2Heartbeat, P2Confirm, rows, Loaded, At, Forgotten
  <2>2. UNCHANGED phase2 \/ Goto(c, "errored") \/ Goto(c, "unset") \/ Stop(c)
    BY <1>7 DEF P2Heartbeat, P2Confirm
  <2> QED
    BY <2>1, <2>2, GotoForgets, StopForgets, OutsideForgets
<1>8. ASSUME NEW u \in Thread, PolluteMark(u) PROVE Forgotten(t)'
  <2>1. mode'[t] = "polluted"
    BY <1>8 DEF PolluteMark, Forgotten, P2TypeOK
  <2> QED
    BY <1>8, <2>1 DEF PolluteMark, Forgotten
<1>9. ASSUME NEW u \in Thread, PolluteRead(u) \/ PolluteEnqueue(u) PROVE Forgotten(t)'
  BY <1>9, OutsideForgets DEF PolluteRead, PolluteEnqueue, rows, Forgotten
<1>10. CASE GlobalTimePasses \/ ResetRoot
  BY <1>10, OutsideForgets DEF GlobalTimePasses, ResetRoot, rows, Forgotten
<1>11. CASE ResetRows
  BY <1>11, OutsideForgets DEF ResetRows, NoOutput
<1>12. ASSUME NEW c \in Consolidator, AgentWrites(c) PROVE Forgotten(t)'
  BY <1>12, OutsideForgets DEF AgentWrites, rows, Forgotten
<1>13. CASE UNCHANGED p2Vars
  BY <1>13, OutsideForgets DEF p2Vars, Forgotten
<1> QED
  BY <1>2, <1>3, <1>4, <1>5, <1>6, <1>7, <1>8, <1>9, <1>10, <1>11, <1>12, <1>13,
     LoadForgets, SucceedForgets, Stage1Forgets DEF P2Next, P2Work

\* A polluted thread that has been forgotten never comes back into the
\* baseline, in either environment: the selection and the loading of the rows
\* both ask for an enabled thread (get_phase2_input_selection).
THEOREM PollutedStaysForgotten ==
    ASSUME NEW t \in Thread
    PROVE  P2Spec => [](Forgotten(t) => [](output[t].selected = 0))
<1>1. P2Inv /\ [P2Next]_p2Vars /\ Forgotten(t) => Forgotten(t)'
  BY ForgottenStep
<1>2. Forgotten(t) => output[t].selected = 0
  BY DEF Forgotten
<1> QED
  BY <1>1, <1>2, P2Invariance, PTL DEF P2Spec
=============================================================================
