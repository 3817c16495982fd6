---------------------------- MODULE MemoryStage1 ----------------------------
(***************************************************************************)
(* The first phase of the engine's memory pipeline: worker processes claim *)
(* per-thread extraction jobs in the shared memories database under a      *)
(* lease, sample a model and publish the extracted memory.                 *)
(* Code: state/src/runtime/memories.rs and memories/write/src/phase1.rs.   *)
(*                                                                         *)
(* Every database transaction is one action.  Times are compared with the  *)
(* clock only, so a lease is live or expired and a back-off is waiting or  *)
(* elapsed; the clock passing them is an action of its own.  The ownership *)
(* token of a claim is represented by the worker: a worker holds at most   *)
(* one claim of a job, and claiming writes a fresh token.  Usage counters  *)
(* only rank the outputs and are left out.  Phase 2 is seen through the    *)
(* rows it shares with this phase, as MemoryOutputs describes them.        *)
(***************************************************************************)
EXTENDS MemoryTables

CONSTANTS
    Worker,       \* processes that run the startup pipeline
    MaxRunning,   \* max_rollouts_per_startup: claims per startup and live leases
    Retries       \* DEFAULT_RETRY_REMAINING

ASSUME MaxRunningAssumption == MaxRunning \in Nat
ASSUME RetriesAssumption == Retries \in Nat \ {0}
ASSUME NobodyAssumption == Nobody \notin Worker
ASSUME ThreadAssumption == IsFiniteSet(Thread)

VARIABLES
    updated,   \* threads.updated_at of the state database
    deleting,  \* threads whose memory is deleted and whose row is not yet
    job,       \* jobs rows of kind memory_stage1
    queue,     \* the jobs row of the global consolidation: idle, pending or running
    seen,      \* what the startup scan of a worker read and has not tried yet
    held       \* the source of each claim a worker is processing

stage1Vars == <<updated, mode, deleting, job, output, queue, seen, held>>

Source == 1 .. MaxSource
Lease == {"none", "live", "expired"}
Backoff == {"none", "waiting", "elapsed"}

NoJob == [status |-> "none", token |-> Nobody, lease |-> "none",
          retry |-> "none", remaining |-> 0, input |-> 0, success |-> 0]

JobRow == [status: {"none", "running", "done", "error"},
           token: Worker \cup {Nobody}, lease: Lease, retry: Backoff,
           remaining: 0 .. Retries, input: 0 .. MaxSource, success: 0 .. MaxSource]

Claims(w) == {t \in Thread : held[w][t] # 0}

\* enqueue_global_consolidation_with_executor: a running job stays running.
NotEnqueued(q) == q
Enqueued(q) == IF q = "running" THEN q ELSE "pending"

LiveJobs == {t \in Thread : job[t].status = "running" /\ job[t].lease = "live"}

\* The WHERE clauses of the claim's upsert, in the order of the statement.
OutputUpToDate(t, source) == output[t].source >= source
UpToDate(t, source) == output[t].source >= source \/ job[t].success >= source
Advanced(t, source) == source > job[t].input
InsertAlways == TRUE
MayInsert == Cardinality(LiveJobs) < MaxRunning
MayUpdate(t, source) ==
    /\ t \notin LiveJobs
    /\ job[t].retry # "waiting" \/ Advanced(t, source)
    /\ job[t].remaining > 0 \/ Advanced(t, source)
    /\ Cardinality(LiveJobs \ {t}) < MaxRunning
Claimable(t, source) ==
    /\ ~UpToDate(t, source)
    /\ IF job[t].status = "none" THEN MayInsert ELSE MayUpdate(t, source)

ClaimedJob(w, t, source) ==
    [job[t] EXCEPT !.status = "running", !.token = w, !.lease = "live",
                   !.retry = "none", !.input = source,
                   !.remaining = IF Advanced(t, source) THEN Retries ELSE @]

\* `status = 'running' AND ownership_token = ?`
Owns(w, t) == job[t].status = "running" /\ job[t].token = w

Init ==
    /\ updated = [t \in Thread |-> 1]
    /\ mode = [t \in Thread |-> "enabled"]
    /\ deleting = {}
    /\ job = [t \in Thread |-> NoJob]
    /\ output = [t \in Thread |-> NoOutput]
    /\ queue = "idle"
    /\ seen = [w \in Worker |-> Empty]
    /\ held = [w \in Worker |-> Empty]

(***************************************************************************)
(* claim_stage1_jobs_for_startup reads the eligible threads of the state   *)
(* database once and then tries to claim each of them in the memories      *)
(* database.  The staleness probe before the claim repeats two conditions  *)
(* of the claim and changes nothing, so it is part of TryClaim.            *)
(***************************************************************************)
Scan(w) ==
    /\ seen[w] = Empty /\ held[w] = Empty
    /\ MaxRunning > 0
    /\ \E t \in Thread : mode[t] = "enabled"
    /\ seen' = [seen EXCEPT ![w] =
                    [t \in Thread |-> IF mode[t] = "enabled" THEN updated[t] ELSE 0]]
    /\ UNCHANGED <<updated, mode, deleting, job, output, queue, held>>

TryClaim(w, t) ==
    LET source == seen[w][t] IN
    /\ source # 0
    /\ Cardinality(Claims(w)) < MaxRunning
    /\ seen' = [seen EXCEPT ![w][t] = 0]
    /\ IF Claimable(t, source)
       THEN /\ job' = [job EXCEPT ![t] = ClaimedJob(w, t, source)]
            /\ held' = [held EXCEPT ![w][t] = source]
       ELSE UNCHANGED <<job, held>>
    /\ UNCHANGED <<updated, mode, deleting, output, queue>>

\* max_claimed claims are enough for one startup: the rest of the scan is dropped.
StopClaiming(w) ==
    /\ seen[w] # Empty
    /\ Cardinality(Claims(w)) >= MaxRunning
    /\ seen' = [seen EXCEPT ![w] = Empty]
    /\ UNCHANGED <<updated, mode, deleting, job, output, queue, held>>

\* A claimed job runs once the claiming loop is over; its claim ends with its result.
Finishing(w, t) ==
    /\ seen[w] = Empty
    /\ held[w][t] # 0
    /\ held' = [held EXCEPT ![w][t] = 0]
    /\ UNCHANGED <<updated, mode, deleting, seen>>

DoneAtUpdate(t) == [job[t] EXCEPT !.status = "done", !.lease = "none",
                                  !.success = updated[t]]
DoneJob(t) == [job[t] EXCEPT !.status = "done", !.lease = "none",
                             !.success = job[t].input]

\* mark_stage1_job_succeeded: the upsert keeps the phase-2 snapshot and a newer output.
MarkSucceeded(w, t) ==
    /\ Finishing(w, t)
    /\ IF Owns(w, t)
       THEN /\ job' = [job EXCEPT ![t] = DoneJob(t)]
            /\ output' = IF held[w][t] >= output[t].source
                         THEN [output EXCEPT ![t].source = held[w][t]]
                         ELSE output
            /\ queue' = Enqueued(queue)
       ELSE UNCHANGED <<job, output, queue>>

MarkSucceededNoOutput(w, t) ==
    /\ Finishing(w, t)
    /\ IF Owns(w, t)
       THEN /\ job' = [job EXCEPT ![t] = DoneJob(t)]
            /\ output' = [output EXCEPT ![t] = NoOutput]
            /\ queue' = IF output[t] = NoOutput THEN queue ELSE Enqueued(queue)
       ELSE UNCHANGED <<job, output, queue>>

MarkFailed(w, t) ==
    /\ Finishing(w, t)
    /\ IF Owns(w, t)
       THEN job' = [job EXCEPT ![t].status = "error", ![t].lease = "none",
                               ![t].retry = "waiting", ![t].remaining = @ - 1]
       ELSE UNCHANGED job
    /\ UNCHANGED <<output, queue>>

\* A process dies, or a result is dropped because the database was unavailable.
Crash(w) ==
    /\ seen[w] # Empty \/ held[w] # Empty
    /\ seen' = [seen EXCEPT ![w] = Empty]
    /\ held' = [held EXCEPT ![w] = Empty]
    /\ UNCHANGED <<updated, mode, deleting, job, output, queue>>

\* The clock passes lease_until or retry_at of a job.
JobTimePasses(t) ==
    /\ \/ /\ job[t].lease = "live"
          /\ job' = [job EXCEPT ![t].lease = "expired"]
       \/ /\ job[t].retry = "waiting"
          /\ job' = [job EXCEPT ![t].retry = "elapsed"]
    /\ UNCHANGED <<updated, mode, deleting, output, queue, seen, held>>

\* The user continues a thread.
TouchThread(t) ==
    /\ mode[t] # "gone"
    /\ updated[t] < MaxSource
    /\ updated' = [updated EXCEPT ![t] = @ + 1]
    /\ UNCHANGED <<mode, deleting, job, output, queue, seen, held>>

(***************************************************************************)
(* delete_threads_strict: the memory of a thread goes first, in one        *)
(* transaction, the row of the thread last.                                *)
(***************************************************************************)
DeleteThreadMemory(t) ==
    /\ mode[t] # "gone" /\ t \notin deleting
    /\ deleting' = deleting \cup {t}
    /\ job' = [job EXCEPT ![t] = NoJob]
    /\ output' = [output EXCEPT ![t] = NoOutput]
    /\ queue' = IF output[t].selected # 0 THEN Enqueued(queue) ELSE queue
    /\ UNCHANGED <<updated, mode, seen, held>>

DeleteThreadRow(t) ==
    /\ t \in deleting
    /\ deleting' = deleting \ {t}
    /\ mode' = [mode EXCEPT ![t] = "gone"]
    /\ UNCHANGED <<updated, job, output, queue, seen, held>>

\* prune_stage1_outputs_for_retention: outputs outside the baseline that aged out.
Prune ==
    /\ \E old \in SUBSET {t \in Thread : output[t] # NoOutput /\ output[t].selected = 0} :
           /\ old # {}
           /\ output' = [t \in Thread |-> IF t \in old THEN NoOutput ELSE output[t]]
    /\ UNCHANGED <<updated, mode, deleting, job, queue, seen, held>>

\* clear_memory_data_in_pool: every output and every job of both kinds, at once.
ClearMemoryData ==
    /\ job' = [t \in Thread |-> NoJob]
    /\ output' = [t \in Thread |-> NoOutput]
    /\ queue' = "idle"
    /\ UNCHANGED <<updated, mode, deleting, seen, held>>

(***************************************************************************)
(* Phase 2 claims the global job, and settles it: it fails, or succeeds    *)
(* and marks the snapshots it consumed.                                    *)
(***************************************************************************)
Phase2 ==
    /\ \/ queue' = "running" /\ queue # "running" /\ UNCHANGED output
       \/ /\ queue = "running" /\ queue' = "idle"
          /\ \E kept \in SUBSET Thread :
                 output' = [t \in Thread |->
                     [output[t] EXCEPT !.selected = IF t \in kept THEN output[t].source ELSE 0]]
       \/ queue = "running" /\ queue' = "idle" /\ UNCHANGED output
    /\ UNCHANGED <<updated, mode, deleting, job, seen, held>>

Next ==
    \/ \E w \in Worker : Scan(w) \/ StopClaiming(w) \/ Crash(w)
    \/ \E w \in Worker, t \in Thread :
           \/ TryClaim(w, t)
           \/ MarkSucceeded(w, t) \/ MarkSucceededNoOutput(w, t) \/ MarkFailed(w, t)
    \/ \E t \in Thread :
           \/ JobTimePasses(t) \/ TouchThread(t)
           \/ DeleteThreadMemory(t) \/ DeleteThreadRow(t)
    \/ Prune \/ ClearMemoryData \/ Phase2

Spec == Init /\ [][Next]_stage1Vars

-----------------------------------------------------------------------------
(* Properties *)

\* The rows of both databases and the claims of the workers are well formed.
TypeOK ==
    /\ updated \in [Thread -> Source]
    /\ mode \in [Thread -> {"enabled", "polluted", "gone"}]
    /\ deleting \subseteq Thread
    /\ job \in [Thread -> JobRow]
    /\ output \in [Thread -> OutputRow]
    /\ queue \in {"idle", "pending", "running"}
    /\ seen \in [Worker -> [Thread -> 0 .. MaxSource]]
    /\ held \in [Worker -> [Thread -> 0 .. MaxSource]]

\* However claims, expiries and takeovers interleave, no more than MaxRunning
\* jobs hold a live lease (the running cap of try_claim_stage1_job).
LeasesWithinCap == Cardinality(LiveJobs) <= MaxRunning

\* A published memory was extracted by the last successful claim of its
\* thread: a worker whose claim was taken over publishes nothing, so the
\* output and the success watermark of the job never drift apart.
OutputIsLastSuccess ==
    \A t \in Thread : output[t].source # 0 => output[t].source = job[t].success

\* The success watermark of a thread never moves back while its row exists,
\* whatever stale scans claim: an older source is never extracted again.
WatermarkAdvances ==
    [][\A t \in Thread :
          job'[t].status # "none" => job'[t].success >= job[t].success]_stage1Vars

Outputs == INSTANCE MemoryOutputs

\* Phase 1 implements the interface of MemoryOutputs: no memory is replaced
\* by an older one, and no memory of the baseline changes or disappears
\* without a consolidation that is pending or running.
KeepsOutputs == Outputs!Spec
=============================================================================
