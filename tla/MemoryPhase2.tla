---------------------------- MODULE MemoryPhase2 ----------------------------
(***************************************************************************)
(* The second phase of the memory pipeline: one worker at a time is to     *)
(* consolidate the extracted memories into the memory workspace, a         *)
(* directory with a git baseline, under the lease of the global job.       *)
(* Code: memories/write/src/phase2.rs and workspace.rs over the tables of  *)
(* state/src/runtime/memories.rs.  The watermark and the retry counter of  *)
(* the global job decide nothing and are left out.                         *)
(*                                                                         *)
(* The workspace holds the extracted inputs (which snapshot of each        *)
(* thread) and the digest the consolidation agent derives from them, that  *)
(* is the inputs it reflects.  The artifacts of the digest are "whole",    *)
(* "partial" while an agent rewrites them, or "invalid" when they do not   *)
(* pass the validation of phase 2.                                         *)
(***************************************************************************)
EXTENDS MemoryTables

CONSTANTS
    RoughSource,   \* the bound on updated_at in the rough environment
    MaxRaw,        \* max_raw_memories_for_consolidation
    Consolidator   \* processes that run phase 2

ASSUME RoughSourceAssumption == RoughSource \in 0 .. MaxSource
ASSUME MaxRawAssumption == MaxRaw \in Nat
ASSUME ConsolidatorAssumption == Nobody \notin Consolidator

VARIABLES
    global,       \* the jobs row of the global consolidation
    workspace,    \* files of the memory root
    baseline,     \* the tree of its last git commit, or NoBaseline
    phase2,       \* program counter and loaded inputs of each consolidator
    pollution,    \* mark_thread_memory_mode_polluted in progress, per thread
    clearing,     \* a memory reset has cleared the rows and not yet the root
    environment   \* "calm": leases outlast their consolidation, and no resets

rows == <<mode, output>>
p2Vars == <<mode, output, global, workspace, baseline, phase2, pollution, clearing, environment>>

Inputs == [Thread -> 0 .. MaxSource]
Files == [inputs: Inputs, digest: Inputs, artifacts: {"whole", "partial", "invalid"}]
EmptyRoot == [inputs |-> Empty, digest |-> Empty, artifacts |-> "invalid"]
NoBaseline == [EmptyRoot EXCEPT !.artifacts = "absent"]
Digested(files) == files.artifacts = "whole" /\ files.digest = files.inputs

NoGlobal == [status |-> "none", token |-> Nobody, lease |-> "none",
             retry |-> "none", finished |-> "none", error |-> FALSE]
GlobalRow == [status: {"none", "pending", "running", "done", "error"},
              token: Consolidator \cup {Nobody}, lease: {"none", "live", "expired"},
              retry: {"none", "waiting", "elapsed"},
              finished: {"none", "recent", "old"}, error: BOOLEAN]

Stage == {"idle", "prepare", "select", "load", "sync", "diff", "agent",
          "completed", "errored", "confirm", "unset", "commit", "mark", "fail", "orphan"}

P2Init ==
    /\ mode = [t \in Thread |-> "enabled"]
    /\ output = [t \in Thread |-> NoOutput]
    /\ global = NoGlobal
    /\ workspace = EmptyRoot
    /\ baseline = NoBaseline
    /\ phase2 = [c \in Consolidator |-> [pc |-> "idle", inputs |-> Empty]]
    /\ pollution = [t \in Thread |-> "idle"]
    /\ clearing = FALSE
    /\ environment \in {"calm", "rough"}

\* enqueue_global_consolidation_with_executor: a running job stays running,
\* any other becomes pending and loses its back-off.
EnqueuedRow(g) ==
    IF g.status = "running" THEN g
    ELSE [g EXCEPT !.status = "pending", !.retry = "none"]

(***************************************************************************)
(* Phase 1, as MemoryOutputs describes it: it publishes a memory of a      *)
(* newer source, whatever has become of the memory mode since its claim,   *)
(* forgets one, or drops one outside the baseline.                         *)
(***************************************************************************)
Stage1(t) ==
    /\ \/ \E s \in (output[t].source + 1) .. (IF environment = "calm" THEN MaxSource ELSE RoughSource) :
              /\ output' = [output EXCEPT ![t].source = s]
              /\ global' = EnqueuedRow(global)
       \/ /\ output[t].source # 0
          /\ output' = [output EXCEPT ![t] = NoOutput]
          /\ \/ global' = EnqueuedRow(global)
             \/ output[t].selected = 0 /\ UNCHANGED global
    /\ UNCHANGED <<mode, workspace, baseline, phase2, pollution, clearing, environment>>

At(c, pc) == phase2[c].pc = pc
Goto(c, pc) == phase2' = [phase2 EXCEPT ![c].pc = pc]
Stop(c) == phase2' = [phase2 EXCEPT ![c] = [pc |-> "idle", inputs |-> Empty]]
OwnsGlobal(c) == global.status = "running" /\ global.token = c

\* try_claim_global_phase2_job: back-off, live lease and success cooldown refuse.
ClaimOverLease == global.retry # "waiting"
GlobalClaimable ==
    /\ global.retry # "waiting"
    /\ ~(global.status = "running" /\ global.lease = "live")
    /\ global.error \/ global.finished # "recent"

P2Claim(c) ==
    /\ At(c, "idle")
    /\ GlobalClaimable
    /\ global' = [NoGlobal EXCEPT !.status = "running", !.token = c, !.lease = "live"]
    /\ Goto(c, "prepare")
    /\ UNCHANGED <<rows, workspace, baseline, pollution, clearing, environment>>

\* prepare_memory_workspace: a missing baseline is made from the current files.
P2PrepareResets(c) ==
    /\ At(c, "prepare")
    /\ baseline' = workspace
    /\ Goto(c, "select")
    /\ UNCHANGED <<rows, global, workspace, pollution, clearing, environment>>
P2Prepare(c) ==
    /\ At(c, "prepare")
    /\ baseline' = IF baseline = NoBaseline THEN workspace ELSE baseline
    /\ Goto(c, "select")
    /\ UNCHANGED <<rows, global, workspace, pollution, clearing, environment>>

(***************************************************************************)
(* get_phase2_input_selection ranks keys first and reads the rows of the   *)
(* keys afterwards, each time filtered by the memory mode in the other     *)
(* database; a row that changed in between is skipped.  Rank and age are   *)
(* data: any MaxRaw eligible outputs may be the selection.                 *)
(***************************************************************************)
Extracted(t) == output[t].source # 0
Enabled(t) == output[t].source # 0 /\ mode[t] = "enabled"

P2SelectKeys(c) ==
    /\ At(c, "select")
    /\ \E keys \in SUBSET {t \in Thread : Enabled(t)} :
           /\ Cardinality(keys) <= MaxRaw
           /\ phase2' = [phase2 EXCEPT ![c] =
                  [pc |-> "load",
                   inputs |-> [t \in Thread |-> IF t \in keys THEN output[t].source ELSE 0]]]
    /\ UNCHANGED <<rows, global, workspace, baseline, pollution, clearing, environment>>

P2LoadRows(c) ==
    /\ At(c, "load")
    /\ phase2' = [phase2 EXCEPT ![c] =
           [pc |-> "sync",
            inputs |-> [t \in Thread |->
                IF Enabled(t) /\ output[t].source = phase2[c].inputs[t]
                THEN phase2[c].inputs[t] ELSE 0]]]
    /\ UNCHANGED <<rows, global, workspace, baseline, pollution, clearing, environment>>

\* sync_phase2_workspace_inputs rewrites the inputs and leaves the digest alone.
P2Sync(c) ==
    /\ At(c, "sync")
    /\ workspace' = [workspace EXCEPT !.inputs = phase2[c].inputs]
    /\ Goto(c, "diff")
    /\ UNCHANGED <<rows, global, baseline, pollution, clearing, environment>>

\* Unchanged files with valid artifacts need no agent; a missing repository is an error.
P2Diff(c) ==
    /\ At(c, "diff")
    /\ Goto(c, CASE baseline = NoBaseline -> "fail"
                 [] baseline = workspace /\ workspace.artifacts # "invalid" -> "mark"
                 [] OTHER -> "agent")
    /\ UNCHANGED <<rows, global, workspace, baseline, pollution, clearing, environment>>

\* loop_agent's heartbeat renews the lease of the owner and stops anyone else.
P2Heartbeat(c) ==
    /\ At(c, "agent")
    /\ IF OwnsGlobal(c)
       THEN /\ global.lease # "live"
            /\ global' = [global EXCEPT !.lease = "live"]
            /\ UNCHANGED phase2
       ELSE /\ Goto(c, "errored")
            /\ UNCHANGED global
    /\ UNCHANGED <<rows, workspace, baseline, pollution, clearing, environment>>

\* A completed agent digested the inputs, or left artifacts that are not valid.
AgentCompletes(c) ==
    /\ At(c, "agent")
    /\ workspace' \in {[workspace EXCEPT !.digest = workspace.inputs, !.artifacts = "whole"],
                       [workspace EXCEPT !.artifacts = "invalid"]}
    /\ Goto(c, "completed")
    /\ UNCHANGED <<rows, global, baseline, pollution, clearing, environment>>

AgentErrs(c) ==
    /\ At(c, "agent")
    /\ Goto(c, "errored")
    /\ UNCHANGED <<rows, global, workspace, baseline, pollution, clearing, environment>>

\* An agent at work rewrites the artifacts until it is shut down.
AgentWrites(c) ==
    /\ phase2[c].pc \in {"agent", "errored", "orphan"}
    /\ workspace.artifacts # "partial"
    /\ workspace' = [workspace EXCEPT !.artifacts = "partial"]
    /\ UNCHANGED <<rows, global, baseline, phase2, pollution, clearing, environment>>

\* Shutting the agent down, then validating the artifacts of a completed one.
P2Shutdown(c) ==
    /\ \/ At(c, "completed") /\ Goto(c, IF workspace.artifacts = "invalid" THEN "fail" ELSE "confirm")
       \/ At(c, "errored") /\ Goto(c, "fail")
    /\ UNCHANGED <<rows, global, workspace, baseline, pollution, clearing, environment>>

\* A shutdown that fails keeps the lease, and its agent may go on for a while.
P2ShutdownFails(c) ==
    /\ \/ At(c, "completed") /\ Stop(c)
       \/ At(c, "errored") /\ Goto(c, "orphan")
    /\ UNCHANGED <<rows, global, workspace, baseline, pollution, clearing, environment>>

OrphanEnds(c) ==
    /\ At(c, "orphan")
    /\ Stop(c)
    /\ UNCHANGED <<rows, global, workspace, baseline, pollution, clearing, environment>>

\* "Do not reset the workspace baseline if we lost the lock."
P2Confirm(c) ==
    /\ At(c, "confirm")
    /\ IF OwnsGlobal(c)
       THEN /\ global' = [global EXCEPT !.lease = "live"]
            /\ Goto(c, "unset")
       ELSE /\ Stop(c)
            /\ UNCHANGED global
    /\ UNCHANGED <<rows, workspace, baseline, pollution, clearing, environment>>

\* reset_git_repository removes the metadata before it commits the current files.
P2Unset(c) ==
    /\ At(c, "unset")
    /\ baseline' = NoBaseline
    /\ Goto(c, "commit")
    /\ UNCHANGED <<rows, global, workspace, pollution, clearing, environment>>

P2Commit(c) ==
    /\ At(c, "commit")
    /\ baseline' = workspace
    /\ Goto(c, "mark")
    /\ UNCHANGED <<rows, global, workspace, pollution, clearing, environment>>

\* The selection recorded by mark_global_phase2_job_succeeded: exact snapshots only.
RecordsCurrent(c) ==
    [t \in Thread |->
        [output[t] EXCEPT !.selected = IF phase2[c].inputs[t] # 0 THEN output[t].source ELSE 0]]
RecordsInputs(c) ==
    [t \in Thread |-> [output[t] EXCEPT !.selected = phase2[c].inputs[t]]]
Recorded(c) ==
    [t \in Thread |->
        [output[t] EXCEPT !.selected =
            IF output[t].source = phase2[c].inputs[t] THEN output[t].source ELSE 0]]

P2Succeed(c) ==
    /\ At(c, "mark")
    /\ Stop(c)
    /\ IF OwnsGlobal(c)
       THEN /\ global' = [global EXCEPT !.status = "done", !.lease = "none",
                                        !.finished = "recent", !.error = FALSE]
            /\ output' = Recorded(c)
       ELSE UNCHANGED <<global, output>>
    /\ UNCHANGED <<mode, workspace, baseline, pollution, clearing, environment>>

\* job::failed: the owner's row, or (failed_if_unowned) a running row without owner.
FailsAnyOwner(c) == global.status = "running" /\ c \in Consolidator
MayFail(c) == global.status = "running" /\ global.token \in {c, Nobody}

P2Failed(c) ==
    /\ At(c, "fail")
    /\ Stop(c)
    /\ global' = IF MayFail(c)
                 THEN [global EXCEPT !.status = "error", !.lease = "none", !.retry = "waiting",
                                     !.finished = "recent", !.error = TRUE]
                 ELSE global
    /\ UNCHANGED <<rows, workspace, baseline, pollution, clearing, environment>>

\* Every step before the mark may fail on its own (I/O, configuration, database),
\* the reset of the repository also after its commit.
P2StepFails(c) ==
    /\ phase2[c].pc \in {"prepare", "select", "load", "sync", "diff", "confirm", "unset", "commit"}
    /\ Goto(c, "fail")
    /\ \/ UNCHANGED baseline
       \/ At(c, "commit") /\ baseline' = workspace
    /\ UNCHANGED <<rows, global, workspace, pollution, clearing, environment>>

\* The process dies, its agent with it, or its last database call fails.
P2Crash(c) ==
    /\ ~At(c, "idle")
    /\ Stop(c)
    /\ UNCHANGED <<rows, global, workspace, baseline, pollution, clearing, environment>>

\* The clock passes the lease, the back-off or the cooldown of the global job.
GlobalTimePasses ==
    /\ \/ /\ global.lease = "live"
          /\ environment = "calm" => \A c \in Consolidator : global.token = c => At(c, "idle")
          /\ global' = [global EXCEPT !.lease = "expired"]
       \/ /\ global.retry = "waiting"
          /\ global' = [global EXCEPT !.retry = "elapsed"]
       \/ /\ global.finished = "recent"
          /\ global' = [global EXCEPT !.finished = "old"]
    /\ UNCHANGED <<rows, workspace, baseline, phase2, pollution, clearing, environment>>

(***************************************************************************)
(* mark_thread_memory_mode_polluted: three statements of two databases.    *)
(***************************************************************************)
PolluteRead(t) ==
    /\ environment = "calm"
    /\ pollution[t] = "idle" /\ mode[t] = "enabled"
    /\ pollution' = [pollution EXCEPT ![t] =
                         IF output[t].selected # 0 THEN "selected" ELSE "unselected"]
    /\ UNCHANGED <<rows, global, workspace, baseline, phase2, clearing, environment>>

PolluteMark(t) ==
    /\ pollution[t] \in {"selected", "unselected"}
    /\ mode' = IF mode[t] = "enabled" THEN [mode EXCEPT ![t] = "polluted"] ELSE mode
    /\ pollution' = [pollution EXCEPT ![t] = IF @ = "selected" THEN "enqueue" ELSE "idle"]
    /\ UNCHANGED <<output, global, workspace, baseline, phase2, clearing, environment>>

PolluteEnqueue(t) ==
    /\ pollution[t] = "enqueue"
    /\ global' = EnqueuedRow(global)
    /\ pollution' = [pollution EXCEPT ![t] = "idle"]
    /\ UNCHANGED <<rows, workspace, baseline, phase2, clearing, environment>>

\* memory_reset: the rows first, then the contents of the memory root, .git included.
ResetRows ==
    /\ environment = "rough" /\ ~clearing
    /\ output' = [t \in Thread |-> NoOutput]
    /\ global' = NoGlobal
    /\ clearing' = TRUE
    /\ UNCHANGED <<mode, workspace, baseline, phase2, pollution, environment>>

ResetRoot ==
    /\ clearing
    /\ workspace' = EmptyRoot
    /\ baseline' = NoBaseline
    /\ clearing' = FALSE
    /\ UNCHANGED <<rows, global, phase2, pollution, environment>>

P2Work(c) ==
    \/ P2Prepare(c) \/ P2SelectKeys(c) \/ P2LoadRows(c) \/ P2Sync(c) \/ P2Diff(c)
    \/ P2Heartbeat(c) \/ P2Shutdown(c) \/ OrphanEnds(c)
    \/ P2Confirm(c) \/ P2Unset(c) \/ P2Commit(c) \/ P2Succeed(c) \/ P2Failed(c)

P2Next ==
    \/ \E c \in Consolidator :
           \/ P2Claim(c) \/ P2Work(c)
           \/ AgentCompletes(c) \/ AgentErrs(c) \/ AgentWrites(c)
           \/ P2ShutdownFails(c) \/ P2StepFails(c) \/ P2Crash(c)
    \/ GlobalTimePasses
    \/ \E t \in Thread : Stage1(t) \/ PolluteRead(t) \/ PolluteMark(t) \/ PolluteEnqueue(t)
    \/ ResetRows \/ ResetRoot

P2Spec == P2Init /\ [][P2Next]_p2Vars

(***************************************************************************)
(* Fairness.  The executor runs the steps of a consolidator and the clock  *)
(* goes on; sessions keep being started, so that a possible claim is made; *)
(* and the faults below stop at some time: from then on agents complete    *)
(* with valid artifacts.  Nothing is assumed of stage 1.                   *)
(***************************************************************************)
Digests(c) == AgentCompletes(c) /\ Digested(workspace')
P2Forward(c) == P2Claim(c) \/ P2Work(c) \/ Digests(c)
Fault(c) ==
    \/ P2StepFails(c) \/ P2Crash(c) \/ P2ShutdownFails(c) \/ AgentErrs(c)
    \/ AgentCompletes(c) /\ ~Digested(workspace')

P2Fairness ==
    /\ WF_p2Vars(GlobalTimePasses)
    /\ \A t \in Thread : WF_p2Vars(PolluteMark(t) \/ PolluteEnqueue(t))
    /\ \A c \in Consolidator : WF_p2Vars(P2Forward(c))
    /\ <>[][\A c \in Consolidator : ~Fault(c)]_p2Vars

P2FairSpec == P2Spec /\ P2Fairness

-----------------------------------------------------------------------------
(* Properties *)

\* The global row, the files and the consolidators are well formed.
P2TypeOK ==
    /\ mode \in [Thread -> {"enabled", "polluted"}]
    /\ output \in [Thread -> OutputRow]
    /\ global \in GlobalRow
    /\ workspace \in Files
    /\ baseline \in Files \cup {NoBaseline}
    /\ phase2 \in [Consolidator -> [pc: Stage, inputs: Inputs]]
    /\ pollution \in [Thread -> {"idle", "selected", "unselected", "enqueue"}]
    /\ clearing \in BOOLEAN
    /\ environment \in {"calm", "rough"}

(***************************************************************************)
(* memories/README.md: the lock is claimed "before touching the memories   *)
(* root (so only one consolidation inspects or mutates the workspace at a  *)
(* time)".  Holds while leases outlast their consolidation and nobody      *)
(* resets the memories; a consolidator past its last file operation is not *)
(* counted.                                                                *)
(***************************************************************************)
Touching == {c \in Consolidator : phase2[c].pc \notin {"idle", "mark"}}
OnlyOneConsolidation == environment = "calm" => Cardinality(Touching) <= 1

\* A run of phase 2 leaves `running` by the hand of its owner alone: whoever
\* lost the lease, was taken over or outlived a reset settles nothing, also
\* through the fallback mark_global_phase2_job_failed_if_unowned.
OnlyOwnerSettles ==
    [][global.status = "running" /\ global'.status \in {"done", "error"}
       => \E c \in Consolidator :
             global.token = c /\ phase2[c].pc \in {"mark", "fail"} /\ phase2'[c].pc = "idle"]_p2Vars

\* The baseline never holds inputs without the digest made from them, also
\* when a process dies between the removal of the old repository and the
\* commit of the new one and the next run takes the files as they are.
BaselineIsDigested ==
    environment = "calm" => baseline \in {NoBaseline, EmptyRoot} \/ Digested(baseline)

\* When a run is recorded as successful, every snapshot it marks as consumed
\* is the one in the baseline, and the baseline's digest reflects it.
SuccessMatchesBaseline ==
    [][environment = "calm" /\ global.status = "running" /\ global'.status = "done" =>
          /\ Digested(baseline)
          /\ \A t \in Thread : output'[t].selected # 0 =>
                 output'[t].selected = baseline.inputs[t]]_p2Vars

\* A polluted thread is forgotten for good: it drops out of the recorded
\* baseline and no run that had loaded it earlier brings it back.
PollutedForgotten ==
    \A t \in Thread :
        (environment = "calm" /\ mode[t] = "polluted") ~> [](output[t].selected = 0)

\* Phase 2 implements the interface of MemoryOutputs: it only marks and
\* unmarks snapshots that are still there, and only while it holds the job.
QueueOf(g) == IF g.status \in {"pending", "running"} THEN g.status ELSE "idle"
P2Outputs == INSTANCE MemoryOutputs WITH queue <- QueueOf(global)
P2KeepsOutputs == P2Outputs!Spec
=============================================================================
