--------------------------- MODULE ExpertReviews ---------------------------
(***************************************************************************)
(* Expert reviews of one conversation (lg-cli/lg_cli/bounded_reviews.py,   *)
(* codex_reviews.py and the turn handling of codex_runtime.py).  The       *)
(* engine asks for reviews by calls of one parent turn; a call runs one    *)
(* job per expert, and each expert is one request to a model.              *)
(*                                                                         *)
(* Everything runs on one asyncio loop: an action is what runs between two *)
(* awaits.  A cancelled task sees the cancellation at its next resumption, *)
(* and a model that swallows it may still return an answer.  Every save    *)
(* replaces the whole checkpoint; a save may fail, before or after the     *)
(* file was replaced, and the first failure closes the session's reviews.  *)
(* The process may die at any await; the checkpoint and what was shown or  *)
(* told to others survive.                                                 *)
(*                                                                         *)
(* Requests, prompts and answers are left out: an answer is acceptable or  *)
(* it is not.  source is what the fingerprints of task and text identify.  *)
(***************************************************************************)
EXTENDS Integers, FiniteSets

CONSTANTS
    CallId,      \* identities of tool calls
    Expert,      \* the experts the policy offers
    Source,      \* states of the reviewed task and its text
    MaxTurn,     \* bound on parent turns
    MaxChanges,  \* bound on changes of the source
    MaxFaults    \* bound on failing saves and deaths of the process

NoTask == "no task"   \* no review task is bound
Budget == 2           \* experts, and calls, of one parent turn

ASSUME ReviewAssumption ==
    /\ Source # {} /\ NoTask \notin Source /\ "none" \notin Source
    /\ IsFiniteSet(Expert)
    /\ MaxTurn \in Nat /\ MaxChanges \in Nat /\ MaxFaults \in Nat

Turn == 1 .. MaxTurn
Terminal == {"completed", "failed", "cancelled"}
ChildState == {"none", "waiting", "running"} \union Terminal

VARIABLES
    mem,         \* the objects: flags, budget, calls with their records, live calls
    disk,        \* the checkpoint in the session's metadata
    pc,          \* where the coroutine of every call is
    job,         \* where the job of every expert is
    callCancel,  \* calls whose task has been cancelled and has not resumed
    jobCancel,   \* experts whose job has been cancelled and has not resumed
    phase,       \* the runtime: down, idle, running, draining
    active,      \* _run_active
    turn,        \* the agent's turn_id, 0 for none
    source,      \* what the fingerprints say now
    shown,       \* of the last turn begun: the state last shown of every expert,
    asked,       \* the requests made to models for every expert,
    told,        \* the calls whose engine was told that they completed
    env          \* how often the environment acted

tasks == <<pc, job, callCancel, jobCancel>>
runtime == <<phase, active, turn>>
observed == <<shown, asked, told>>
vars == <<mem, disk, tasks, runtime, source, observed, env>>

NoEntry == [child |-> [e \in Expert |-> "none"], source |-> "none",
            settled |-> TRUE, interrupted |-> FALSE]
NoCheckpoint == [turn |-> 0, used |-> {}, calls |-> [c \in CallId |-> NoEntry]]
NoMemory == [turn |-> 0, used |-> {}, calls |-> [c \in CallId |-> NoEntry],
             live |-> {}, records |-> {}, revoked |-> TRUE, failed |-> FALSE]

ExpertsOf(entry) == {e \in Expert : entry.child[e] # "none"}
Seen(m) == {c \in CallId : m.calls[c] # NoEntry}
Unfinished == {e \in Expert : job[e] \in {"new", "run"}}
JobsDone(c) == ExpertsOf(mem.calls[c]) \intersect Unfinished = {}
Pending == {c \in CallId : pc[c] # "idle"}

Init ==
    /\ mem = NoMemory
    /\ disk = NoCheckpoint
    /\ pc = [c \in CallId |-> "idle"]
    /\ job = [e \in Expert |-> "none"]
    /\ callCancel = {} /\ jobCancel = {}
    /\ phase = "down" /\ active = FALSE /\ turn = 0
    /\ source = CHOOSE s \in Source : TRUE
    /\ shown = [e \in Expert |-> "none"]
    /\ asked = [e \in Expert |-> 0]
    /\ told = {}
    /\ env = [changes |-> 0, faults |-> 0]
-----------------------------------------------------------------------------
(***************************************************************************)
(* Saving.                                                                 *)
(***************************************************************************)
Checkpoint(m) == [turn |-> m.turn, used |-> m.used, calls |-> m.calls]

\* _write after a failure: nothing runs on, nothing more is written.
Broken(m) == [m EXCEPT !.failed = TRUE, !.revoked = TRUE, !.live = {}]

\* Whether the next save succeeds.
SaveOutcomes == IF mem.failed THEN {FALSE}
                ELSE IF env.faults < MaxFaults THEN BOOLEAN ELSE {TRUE}

\* _save of the memory m fails, possibly after replacing the file, and the
\* handlers go on to leave the memory as `after`.
SaveFails(m, after) ==
    /\ mem' = Broken(after)
    /\ disk' \in IF mem.failed THEN {disk} ELSE {disk, Checkpoint(m)}
    /\ env' = IF mem.failed THEN env ELSE [env EXCEPT !.faults = @ + 1]

Save(m, ok) ==
    IF ok THEN mem' = m /\ disk' = Checkpoint(m) /\ UNCHANGED env ELSE SaveFails(m, m)

\* emit of the children of the calls C.
Show(m, C) ==
    shown' = [e \in Expert |->
        IF \E c \in C : e \in ExpertsOf(m.calls[c])
        THEN m.calls[CHOOSE c \in C : e \in ExpertsOf(m.calls[c])].child[e]
        ELSE shown[e]]

\* The states settle_interrupted and restore leave children in.
SettledRunning(state) == IF state = "running" THEN "cancelled" ELSE state
SettledAlways(state) == IF state = "none" THEN "none" ELSE "cancelled"
SettledChild(state) == IF state \in Terminal \union {"none"} THEN state ELSE "cancelled"

SettledEntry(entry) == [entry EXCEPT !.child = [e \in Expert |-> SettledChild(@[e])]]
SettledCalls(m) ==
    [c \in CallId |-> IF c \in m.records THEN SettledEntry(m.calls[c]) ELSE m.calls[c]]

\* settle_interrupted: no call is live, no child of a record is left unfinished.
Settle(m) == [m EXCEPT !.live = {}, !.calls = SettledCalls(m)]

\* The tail of revoke: every unsettled entry is settled as interrupted.
CloseEntry(entry) ==
    IF entry.settled THEN entry ELSE [entry EXCEPT !.settled = TRUE, !.interrupted = TRUE]
Close(m) == [m EXCEPT !.calls = [c \in CallId |-> CloseEntry(m.calls[c])]]

(***************************************************************************)
(* revoke, run by the task of the call `self` or by the runtime: other     *)
(* calls are cancelled, the records settled and saved, the entries closed  *)
(* and saved again.  k of the two saves succeed; a call that is through    *)
(* with its record drops it (finish).                                      *)
(***************************************************************************)
RevokeOutcomes(m) == IF m.failed THEN {0}
                     ELSE IF env.faults < MaxFaults THEN 0 .. 2 ELSE {2}

Revoke(m, self, k) ==
    LET settled == Settle([m EXCEPT !.revoked = TRUE])
        closed == Close(settled)
    IN /\ mem' = [(CASE k = 0 -> Broken(settled) [] k = 1 -> Broken(closed) [] k = 2 -> closed)
                     EXCEPT !.records = @ \ self]
       /\ disk' \in CASE k = 0 /\ m.failed -> {disk}
                      [] k = 0 /\ ~m.failed -> {disk, Checkpoint(settled)}
                      [] k = 1 -> {Checkpoint(settled), Checkpoint(closed)}
                      [] k = 2 -> {Checkpoint(closed)}
       /\ env' = IF k = 2 \/ m.failed THEN env ELSE [env EXCEPT !.faults = @ + 1]
       /\ Show(settled, settled.records)
       /\ callCancel' = (callCancel \union Pending) \ self
       /\ jobCancel' = jobCancel \union Unfinished
-----------------------------------------------------------------------------
(***************************************************************************)
(* The runtime: opening a session, running a turn, interrupting and ending *)
(* it.                                                                     *)
(***************************************************************************)
\* restore: the calls a dead process left unsettled are settled as interrupted.
RestoredCalls == [c \in CallId |->
    IF disk.calls[c].settled THEN disk.calls[c] ELSE CloseEntry(SettledEntry(disk.calls[c]))]

\* _check_state: what restore accepts.
ValidCheckpoint(d) ==
    /\ Cardinality(d.used) <= Budget /\ Cardinality(Seen(d)) <= Budget
    /\ d.turn = 0 => Seen(d) = {}
    /\ UNION {ExpertsOf(d.calls[c]) : c \in CallId} = d.used
    /\ \A c \in CallId : d.calls[c].settled => \A e \in ExpertsOf(d.calls[c]) : d.calls[c].child[e] \in Terminal
    /\ \A b, c \in CallId : b # c => ExpertsOf(d.calls[b]) \intersect ExpertsOf(d.calls[c]) = {}

Restore ==
    /\ phase = "down"
    /\ ValidCheckpoint(disk)
    /\ \E ok \in SaveOutcomes :
         LET m == [NoMemory EXCEPT !.turn = disk.turn, !.used = disk.used, !.calls = RestoredCalls]
         IN IF disk = NoCheckpoint
            THEN ok /\ mem' = m /\ phase' = "idle" /\ UNCHANGED <<disk, env>>
            ELSE /\ Save(m, ok)
                 /\ phase' = IF ok THEN "idle" ELSE "lost"
    /\ UNCHANGED <<tasks, active, turn, source, observed>>

\* begin: the budget is bound to a parent turn once.
MayBegin(t) == mem.records = {} /\ Unfinished = {} /\ t # mem.turn

\* run, up to the binding of the turn t the engine started; a refused begin
\* ends the run.
Run(t) ==
    /\ phase = "idle"
    /\ t \in {mem.turn, mem.turn + 1}
    /\ \E ok \in SaveOutcomes :
         IF MayBegin(t) /\ ~mem.failed
         THEN /\ Save([mem EXCEPT !.revoked = FALSE, !.turn = t, !.used = {},
                                  !.calls = NoCheckpoint.calls], ok)
              /\ IF ok THEN phase' = "running" /\ active' = TRUE /\ turn' = t
                 ELSE phase' = "draining" /\ UNCHANGED <<active, turn>>
              /\ shown' = [e \in Expert |-> IF t = mem.turn THEN shown[e] ELSE "none"]
              /\ asked' = [e \in Expert |-> IF t = mem.turn THEN asked[e] ELSE 0]
              /\ told' = IF t = mem.turn THEN told ELSE {}
         ELSE phase' = "draining" /\ UNCHANGED <<mem, disk, env, active, turn, observed>>
    /\ UNCHANGED <<tasks, source>>

\* interrupt: the reviews are revoked before the engine is asked to stop.
Interrupt ==
    /\ phase = "running" /\ active
    /\ active' = FALSE
    /\ \E k \in RevokeOutcomes(mem) : Revoke(mem, {}, k)
    /\ UNCHANGED <<pc, job, phase, turn, source, asked, told>>

\* The turn ends, however it ends: agent.run forgets it, _settle_execution revokes.
EndTurn ==
    /\ phase = "running"
    /\ phase' = "draining" /\ active' = FALSE /\ turn' = 0
    /\ \E k \in RevokeOutcomes(mem) : Revoke(mem, {}, k)
    /\ UNCHANGED <<pc, job, source, asked, told>>

\* drain: no call and no job is pending.
Drained == Pending = {} /\ Unfinished = {}

Drain ==
    /\ phase = "draining"
    /\ Drained
    /\ phase' = "idle"
    /\ UNCHANGED <<mem, disk, tasks, active, turn, source, observed, env>>
-----------------------------------------------------------------------------
(***************************************************************************)
(* call and execute.                                                       *)
(***************************************************************************)
\* available() of the adapter: the runtime runs and a review task is bound.
Available == ~mem.failed /\ active /\ source # NoTask

\* unchanged(record): same parent, still available, same task and text.
Unchanged(c) ==
    /\ mem.turn = turn
    /\ ~mem.revoked /\ Available
    /\ mem.calls[c].source = source

\* _validate_call and the budget of prepare.
WithinBudget(E) == mem.used \intersect E = {} /\ Cardinality(mem.used \union E) <= Budget

\* A call is recorded and saved before any model is asked.
CallBegin(c, E) ==
    /\ phase = "running"
    /\ ~mem.revoked /\ Available
    /\ turn = mem.turn
    /\ c \notin Seen(mem)
    /\ E # {} /\ WithinBudget(E)
    /\ LET entry == [child |-> [e \in Expert |-> IF e \in E THEN "waiting" ELSE "none"],
                     source |-> source, settled |-> FALSE, interrupted |-> FALSE]
           m == [mem EXCEPT !.used = @ \union E, !.calls[c] = entry, !.records = @ \union {c}]
       IN \/ /\ TRUE \in SaveOutcomes
             /\ Save([m EXCEPT !.live = @ \union {c}], TRUE)
             /\ pc' = [pc EXCEPT ![c] = "gather"]
             /\ job' = [e \in Expert |-> IF e \in E THEN "new" ELSE job[e]]
             /\ UNCHANGED <<callCancel, jobCancel, shown>>
          \/ \* the save fails; revoke finds nothing it can write
             /\ FALSE \in SaveOutcomes
             /\ SaveFails(m, [Settle(m) EXCEPT !.records = @ \ {c}])
             /\ Show(Settle(m), m.records)
             /\ callCancel' = callCancel \union Pending
             /\ jobCancel' = jobCancel \union Unfinished
             /\ UNCHANGED <<pc, job>>
    /\ UNCHANGED <<runtime, source, asked, told>>

JobsEnded(c) == \A e \in ExpertsOf(mem.calls[c]) : job[e] = "ended"
SomeJobBroke(c) == \E e \in ExpertsOf(mem.calls[c]) : job[e] \in {"raised", "cancelled"}

\* gather returns: the sources are checked once more for all experts together,
\* then the outcome is saved and shown.  A call that is no longer live keeps
\* its children as they are.
Judged(c) ==
    IF Unchanged(c) THEN mem
    ELSE [mem EXCEPT !.calls[c].child = [e \in Expert |-> IF @[e] = "none" THEN "none" ELSE "failed"]]

Judge(c) ==
    /\ pc[c] = "gather" /\ c \notin callCancel /\ JobsEnded(c)
    /\ IF c \in mem.live
       THEN \E ok \in SaveOutcomes :
              IF ok
              THEN /\ Save([Judged(c) EXCEPT !.live = @ \ {c}], TRUE)
                   /\ Show(Judged(c), {c})
                   /\ pc' = [pc EXCEPT ![c] = "leave"]
                   /\ UNCHANGED jobCancel
              ELSE /\ SaveFails(Judged(c), Settle(Judged(c)))
                   /\ Show(Settle(Judged(c)), mem.records)
                   /\ pc' = [pc EXCEPT ![c] = "unwind"]
                   /\ jobCancel' = jobCancel \union Unfinished
       ELSE /\ pc' = [pc EXCEPT ![c] = "void"]
            /\ UNCHANGED <<mem, disk, env, shown, jobCancel>>
    /\ UNCHANGED <<job, callCancel, runtime, source, asked, told>>

\* gather raises, because the task was cancelled or a job broke.
BreakWaits(c) ==
    /\ pc[c] = "gather"
    /\ c \in callCancel \/ SomeJobBroke(c)
    /\ \E ok \in SaveOutcomes : Save(Settle(mem), ok)
    /\ Show(Settle(mem), mem.records)
    /\ callCancel' = callCancel \ {c}
    /\ jobCancel' = jobCancel \union Unfinished
    /\ UNCHANGED <<pc, job, runtime, source, asked, told>>
Break(c) ==
    /\ pc[c] = "gather"
    /\ c \in callCancel \/ SomeJobBroke(c)
    /\ \E ok \in SaveOutcomes : Save(Settle(mem), ok)
    /\ Show(Settle(mem), mem.records)
    /\ pc' = [pc EXCEPT ![c] = "unwind"]
    /\ callCancel' = callCancel \ {c}
    /\ jobCancel' = jobCancel \union Unfinished
    /\ UNCHANGED <<job, runtime, source, asked, told>>

\* The coroutine ends with an exception: revoke, and an error to the engine.
Unwind(c) ==
    /\ \/ pc[c] = "unwind" /\ JobsDone(c)
       \/ pc[c] \in {"leave", "void", "unwind"} /\ c \in callCancel
    /\ \E k \in RevokeOutcomes(mem) : Revoke(mem, {c}, k)
    /\ pc' = [pc EXCEPT ![c] = "idle"]
    /\ UNCHANGED <<job, runtime, source, asked, told>>

SomeCompleted(m, c) == \E e \in Expert : m.calls[c].child[e] = "completed"
Completed(m, c) == \A e \in ExpertsOf(m.calls[c]) : m.calls[c].child[e] = "completed"

\* The coroutine ends regularly: the entry is settled and saved, and the
\* engine gets the result if its turn still runs.
Interrupted(c) == mem.revoked \/ turn # mem.turn \/ ~Available

Return(c) ==
    /\ pc[c] \in {"leave", "void"} /\ c \notin callCancel /\ JobsDone(c)
    /\ LET m == [mem EXCEPT !.calls[c].settled = TRUE,
                            !.calls[c].interrupted = @ \/ Interrupted(c)]
       IN \/ /\ TRUE \in SaveOutcomes
             /\ Save([m EXCEPT !.records = @ \ {c}], TRUE)
             /\ told' = IF pc[c] = "leave" /\ Completed(m, c) /\ ~m.calls[c].interrupted /\ active
                        THEN told \union {c} ELSE told
             /\ UNCHANGED <<shown, callCancel, jobCancel>>
          \/ /\ FALSE \in SaveOutcomes
             /\ SaveFails(m, [Settle(m) EXCEPT !.records = @ \ {c}])
             /\ Show(Settle(m), m.records)
             /\ callCancel' = (callCancel \union Pending) \ {c}
             /\ jobCancel' = jobCancel \union Unfinished
             /\ UNCHANGED told
    /\ pc' = [pc EXCEPT ![c] = "idle"]
    /\ UNCHANGED <<job, runtime, source, asked>>
-----------------------------------------------------------------------------
(***************************************************************************)
(* work: one job per expert.                                               *)
(***************************************************************************)
CallOf(e) == CHOOSE c \in CallId : e \in ExpertsOf(mem.calls[c])

WithChild(c, e, state) == [mem EXCEPT !.calls[c].child[e] = state]

\* A save of the job e fails: the job raises, the other jobs are cancelled.
JobRaises(e, m) ==
    /\ Save(m, FALSE)
    /\ job' = [job EXCEPT ![e] = "raised"]
    /\ jobCancel' = (jobCancel \union Unfinished) \ {e}

JobStart(e) ==
    /\ job[e] = "new" /\ e \notin jobCancel
    /\ LET c == CallOf(e)
           m == WithChild(c, e, "running")
       IN \E ok \in SaveOutcomes :
            IF ok
            THEN /\ Save(m, TRUE)
                 /\ shown' = [shown EXCEPT ![e] = "running"]
                 /\ job' = [job EXCEPT ![e] = IF m.turn = turn THEN "run" ELSE "ended"]
                 /\ asked' = IF m.turn = turn THEN [asked EXCEPT ![e] = @ + 1] ELSE asked
                 /\ UNCHANGED jobCancel
            ELSE JobRaises(e, m) /\ UNCHANGED <<shown, asked>>
    /\ UNCHANGED <<pc, callCancel, runtime, source, told>>

\* The answer is kept only while the call is live and the child still runs;
\* it is good only when the source has not changed.
KeepsResult(c, e) == c \in mem.live /\ mem.turn = turn /\ mem.calls[c].child[e] = "running"

JobRetry(e, good) ==
    /\ job[e] = "run" /\ asked[e] < 2
    /\ asked' = [asked EXCEPT ![e] = @ + 1]
    /\ UNCHANGED <<mem, disk, tasks, runtime, source, shown, told, env>>
JobEnd(e, good) ==
    /\ job[e] = "run"
    /\ LET c == CallOf(e)
           m == WithChild(c, e, IF good /\ Unchanged(c) THEN "completed" ELSE "failed")
       IN IF KeepsResult(c, e)
          THEN \E ok \in SaveOutcomes :
                 IF ok THEN /\ Save(m, TRUE)
                            /\ job' = [job EXCEPT ![e] = "ended"]
                            /\ jobCancel' = jobCancel \ {e}
                 ELSE JobRaises(e, m)
          ELSE /\ job' = [job EXCEPT ![e] = "ended"]
               /\ jobCancel' = jobCancel \ {e}
               /\ UNCHANGED <<mem, disk, env>>
    /\ UNCHANGED <<pc, callCancel, runtime, source, observed>>

JobCancelled(e) ==
    /\ e \in jobCancel
    /\ job' = [job EXCEPT ![e] = "cancelled"]
    /\ jobCancel' = jobCancel \ {e}
    /\ UNCHANGED <<mem, disk, pc, callCancel, runtime, source, observed, env>>
-----------------------------------------------------------------------------
(***************************************************************************)
(* The environment.                                                        *)
(***************************************************************************)
\* Another process edits the text, accepts a version, or unbinds the task.
ChangeSource(s) ==
    /\ env.changes < MaxChanges
    /\ s # source
    /\ source' = s
    /\ env' = [env EXCEPT !.changes = @ + 1]
    /\ UNCHANGED <<mem, disk, tasks, runtime, shown, asked, told>>

Die ==
    /\ mem' = NoMemory
    /\ pc' = [c \in CallId |-> "idle"]
    /\ job' = [e \in Expert |-> "none"]
    /\ callCancel' = {} /\ jobCancel' = {}
    /\ phase' = "down" /\ active' = FALSE /\ turn' = 0
    /\ UNCHANGED <<disk, source, observed>>

Crash ==
    /\ phase # "down" /\ env.faults < MaxFaults
    /\ env' = [env EXCEPT !.faults = @ + 1]
    /\ Die

\* A session whose checkpoint failed refuses reviews until it is reopened.
Reopen ==
    /\ phase \in {"idle", "lost"} /\ mem.failed
    /\ Die
    /\ UNCHANGED env

CallStep(c) == Judge(c) \/ Break(c) \/ Unwind(c) \/ Return(c)
JobStep(e) == JobStart(e) \/ (\E good \in BOOLEAN : JobEnd(e, good)) \/ JobCancelled(e)

Next ==
    \/ Restore \/ Interrupt \/ EndTurn \/ Drain \/ Crash \/ Reopen
    \/ \E t \in Turn : Run(t)
    \/ \E c \in CallId, E \in SUBSET Expert : CallBegin(c, E)
    \/ \E c \in CallId : CallStep(c)
    \/ \E e \in Expert : JobStep(e)
    \/ \E s \in Source \union {NoTask} : ChangeSource(s)

Spec == Init /\ [][Next]_vars

\* The loop resumes every task that can go on.  A job that waits for its model
\* ends by the answer, the deadline or the cancellation.
FairSpec ==
    /\ Spec
    /\ \A c \in CallId : WF_vars(CallStep(c))
    /\ \A e \in Expert : WF_vars(JobStep(e))
    /\ WF_vars(Drain)
-----------------------------------------------------------------------------
(***************************************************************************)
(* Properties.                                                             *)
(***************************************************************************)
Entry == [child : [Expert -> ChildState], source : Source \union {"none"},
          settled : BOOLEAN, interrupted : BOOLEAN]

Memory == [turn : Turn \union {0}, used : SUBSET Expert, calls : [CallId -> Entry],
           live : SUBSET CallId, records : SUBSET CallId, revoked : BOOLEAN, failed : BOOLEAN]
Checkpoints == [turn : Turn \union {0}, used : SUBSET Expert, calls : [CallId -> Entry]]

\* Every variable has its shape; a live call has a record and waits for its
\* jobs, and a record belongs to a call that runs.
TypeOK ==
    /\ mem \in Memory /\ disk \in Checkpoints
    /\ pc \in [CallId -> {"idle", "gather", "leave", "void", "unwind"}]
    /\ job \in [Expert -> {"none", "new", "run", "ended", "raised", "cancelled"}]
    /\ mem.records = Pending /\ \A c \in mem.live : pc[c] = "gather"
    /\ jobCancel \subseteq Unfinished /\ callCancel \subseteq Pending
    /\ phase \in {"down", "lost", "idle", "running", "draining"} /\ active \in BOOLEAN
    /\ turn \in {0, mem.turn}
    /\ source \in Source \union {NoTask}
    /\ shown \in [Expert -> ChildState] /\ asked \in [Expert -> Nat] /\ told \subseteq CallId
    /\ env \in [changes : Nat, faults : Nat]

\* "Each expert is available once per parent turn" (review_policy.py): no model
\* is asked twice for one expert of a turn, and no more than two experts are
\* asked, across calls, cancellations, failed saves, crashes and a turn that is
\* bound again after a restart.
BudgetKept ==
    /\ \A e \in Expert : asked[e] <= 1
    /\ Cardinality({e \in Expert : asked[e] > 0}) <= Budget

\* Whenever the process dies, restore accepts the checkpoint it left.
CheckpointRestorable == ValidCheckpoint(disk)

\* A review the engine was told has completed is recorded so, and stays so:
\* later revocations, failing saves and restores do not take it back.
ToldIsRecorded ==
    \A c \in told :
        /\ c \in Seen(disk)
        /\ disk.calls[c].settled /\ ~disk.calls[c].interrupted
        /\ \A e \in Expert : disk.calls[c].child[e] \in {"none", "completed"}

\* "Consumers treat terminal task events as immutable": once a terminal state
\* of a review was shown, no other state of it is ever shown.
ShownIsFinal ==
    [][\A e \in Expert : shown[e] \in Terminal =>
          \/ shown'[e] = shown[e]
          \/ phase = "idle" /\ mem'.turn # mem.turn]_vars

\* The runtime never waits for ever for its reviews: draining ends.
DrainEnds == phase = "draining" ~> phase # "draining"
=============================================================================
