----------------------- MODULE WorkflowControlProofs ------------------------
(***************************************************************************)
(* Theorems about WorkflowControl, for every set of cancellers, every      *)
(* scenario and every bound on runs.                                       *)
(***************************************************************************)
EXTENDS WorkflowControl, FiniteSetTheorems, TLAPS

Work == {"spawn", "read", "feed", "last", "reap"}
Fresh == {"sched", "approve"}
Holding == {"handle", "kill", "changed"}

\* Runs are numbered in the order of their scheduling, and a retry that was
\* asked for has a number left.
RunsNumbered ==
    /\ \E n \in 0 .. MaxRuns : Used = 1 .. n
    /\ Cardinality(Used) + Cardinality(Retrying) <= MaxRuns

\* The backend runs one task at a time; a first attempt is named by its run, and
\* a task that an earlier opening has left is of no job of this one.
SingleTask ==
    /\ \A r, s \in Run : TaskActive(r) /\ TaskActive(s) => r = s
    /\ \A r \in Run : run[r].st = "left" => run[r].job = 0
    /\ \A r \in Run : TaskActive(r) /\ run[r].st # "left" /\ ~run[r].retry => run[r].job = r
    /\ \A r \in Run : run[r].cancel => TaskActive(r)

\* A task that works, or is about to go on with a job, is of the current job.
Serves(r) == run[r].st \in Work \/ (run[r].st \in Fresh /\ run[r].retry)
TaskServesJob ==
    /\ \A r \in Run : Serves(r) => run[r].job = job.id /\ JobActive
    /\ job.id = 0 => job.status = "none"

\* The event of the job is clear while a task works on it.
EventClear == \A r \in Run : run[r].st \in Work => ~changed

\* A job that no task serves was stopped against the handle of an earlier
\* worker, and never against that of a task that was left.
Stranded == handle # 0 /\ changed /\ job.stop
JobServed ==
    /\ JobActive => (\E r \in Run : Serves(r)) \/ Stranded
    /\ \A r \in Run : handle = r => run[r].st # "left"

\* The journal and the tasks agree on what began and what is over; only a task
\* that was left may write a second end.
JournalOf(r) ==
    /\ run[r].st \in {"none", "sched"} => ~journal[r].started
    /\ run[r].st \notin {"done", "left", "gone"} => journal[r].completed = 0
    /\ TaskActive(r) /\ run[r].st \notin {"sched", "left"} => journal[r].started
    /\ journal[r].completed <= IF run[r].st = "gone" THEN 2 ELSE 1
    /\ journal[r].completed > 0 => journal[r].started
    /\ session # "down" /\ journal[r].started /\ run[r].st \in {"done", "gone"} =>
          journal[r].completed > 0
    /\ session = "down" => ~TaskActive(r)
JournalFollows == \A r \in Run : JournalOf(r)

\* The part of the invariant about tasks, their job and the journal.
TaskPart ==
    SingleTask /\ TaskServesJob /\ EventClear /\ JobServed /\ OneWorker /\ JournalFollows

\* The lock is held by the stop that is under way, and by nobody else; the stop
\* has a job.
LockHeld ==
    /\ \A o \in Op : lock = o <=> op[o].pc \in Holding
    /\ \A o \in Op : op[o].pc \in Holding => op[o].job # 0

\* A stop that holds the lock has marked the job a retry is about to go on with.
StopMarks ==
    \A o \in Op, r \in Run :
        op[o].pc \in Holding /\ run[r].st \in Fresh /\ run[r].retry => job.stop

\* Where a cancel or a close may be; the session is popped while a close shuts.
Phase(k) ==
    /\ op[k].act \in {"none", "cancel", "close", "shut"}
    /\ op[k].act = "none" => op[k].pc = "idle"
    /\ op[k].act \in {"cancel", "close"} =>
          op[k].pc \in {"owned", "lock", "interrupt", "gather"} \union Holding
    /\ op[k].act = "shut" =>
          op[k].pc \in {"retire", "stop", "lock"} \union Holding /\ session = "popped"

\* What it owns: runs that were scheduled, and all that were left; all of them are
\* over before it begins and when it shuts.
Owns(k) ==
    /\ owned[k] \subseteq Used \union {0}
    /\ op[k].pc \notin {"idle", "owned"} => \A r \in Run : run[r].st = "left" => r \in owned[k]
    /\ op[k].pc \in {"idle", "owned"} \/ op[k].act = "shut" =>
          \A r \in Run : r \in owned[k] => ~TaskActive(r)

\* A retry that it owns and that has not begun is being stopped, and can be
\* passed by the stop only against the handle of an earlier worker.
OwnedRetry(k) ==
    \A r \in Run : run[r].st = "sched" /\ run[r].retry /\ r \in owned[k] =>
        /\ op[k].pc \in {"lock"} \union Holding => op[k].job = job.id
        /\ op[k].pc # "lock" => job.stop
        /\ op[k].pc \in {"kill", "changed", "interrupt", "gather"} => handle # 0
        /\ op[k].pc \in {"interrupt", "gather"} => changed

\* No other job takes the place of the one that a closing session stops.
ShutStops(k) ==
    op[k].act = "shut" /\ op[k].pc \in Holding =>
        job.id = op[k].job /\ (JobActive \/ \A r \in Run : run[r].st \notin Fresh)

CancelPart(k) == Phase(k) /\ Owns(k) /\ OwnedRetry(k) /\ ShutStops(k)

\* One close shuts; a task is cancelled only while a cancel waits for it.
Gathers(k, r) == op[k].pc = "gather" /\ r \in owned[k]
CancelsMeet ==
    /\ \A k, l \in Canceller : op[k].act = "shut" /\ op[l].act = "shut" => k = l
    /\ \A r \in Run : run[r].cancel /\ run[r].st # "left" => \E k \in Canceller : Gathers(k, r)

\* The part of the invariant about the requests.
OpPart == LockHeld /\ StopMarks /\ CancelsMeet /\ \A k \in Canceller : CancelPart(k)

IInv == TypeOK /\ RunsNumbered /\ TaskPart /\ OpPart

JobRow == [id : 0 .. MaxRuns, kind : Kinds \union {"none"},
           status : Running \union Settled \union {"none"}, stop : BOOLEAN]
RunRow == [st : TaskState, job : 0 .. MaxRuns, kind : Kinds \union {"none"},
           retry : BOOLEAN, cancel : BOOLEAN]
JournalRow == [started : BOOLEAN, completed : Nat]
ProcState == {"none", "live", "dying", "lost", "falling", "ok", "bad"}

-----------------------------------------------------------------------------
(* What the task of a run does in one step *)

\* The rest of the state, which no task touches, and the other runs.
OthersKept(r) ==
    /\ UNCHANGED <<lock, op, owned, agent, session, env>>
    /\ \A s \in Run : s # r => run'[s] = run[s] /\ proc'[s] = proc[s] /\ journal'[s] = journal[s]

\* The run is over, or has only its last awaits left.
Ended(r) ==
    \/ /\ run'[r].st = "tail" /\ run'[r].job = run[r].job /\ run'[r].retry = run[r].retry
       /\ ~run'[r].cancel /\ journal'[r].completed = journal[r].completed
    \/ run'[r] = Over /\ journal'[r].completed = journal[r].completed + 1

\* The run begins in the journal with its first step.
Journalled(r) == journal'[r].started = (run[r].st = "sched" \/ journal[r].started)

\* The task asks for an approval.
Asks(r) ==
    /\ run[r].st = "sched" /\ run'[r] = [run[r] EXCEPT !.st = "approve"] /\ ~run[r].cancel
    /\ UNCHANGED <<job, changed, handle>> /\ proc'[r] = proc[r]
    /\ Journalled(r) /\ journal'[r].completed = journal[r].completed

\* The task begins to work, on the job it retries or on a new one.
Works(r) ==
    /\ run[r].st \in Fresh /\ ~run[r].cancel
    /\ run'[r] = [run[r] EXCEPT !.st = "spawn"]
    /\ \/ run[r].retry /\ ~job.stop /\ job'.id = job.id
       \/ ~run[r].retry /\ ~JobActive /\ job'.id = r
    /\ job'.status = "running" /\ ~job'.stop
    /\ ~changed' /\ UNCHANGED handle /\ proc'[r] = proc[r]
    /\ Journalled(r) /\ journal'[r].completed = journal[r].completed

\* The job gets its end, and its worker is gone or lost.
Settles(r) ==
    /\ Serves(r) /\ Ended(r) /\ Journalled(r)
    /\ job'.id = job.id /\ job'.stop = job.stop /\ job'.status \in Settled
    /\ changed' /\ handle' \in {0, handle} /\ ~Live(r)'

\* A first attempt is given up before it made a job.
GivesUp(r) ==
    /\ run[r].st \in Fresh /\ ~run[r].retry
    /\ Ended(r) /\ Journalled(r)
    /\ UNCHANGED <<job, changed, handle>> /\ proc'[r] = proc[r]

\* The worker is made, and the host holds it.
Spawns(r) ==
    /\ run[r].st = "spawn" /\ ~run[r].cancel
    /\ run'[r] = [run[r] EXCEPT !.st = "read"]
    /\ proc'[r] = "live" /\ handle' = r
    /\ UNCHANGED <<job, changed, journal>>

\* The task waits for the feeding to end, or for the worker it has signalled.
Minds(r) ==
    /\ run[r].st \in {"read", "feed"}
    /\ \E st \in {"feed", "last", "reap"} :
          /\ run'[r] = [run[r] EXCEPT !.st = st, !.cancel = FALSE]
          /\ Live(r)' => Live(r) /\ st # "last"
    /\ UNCHANGED <<job, changed, handle, journal>>

Ends(r) ==
    /\ run[r].st = "tail" /\ run'[r] = Over
    /\ journal'[r].started = journal[r].started
    /\ journal'[r].completed = journal[r].completed + 1
    /\ UNCHANGED <<job, changed, handle, proc>>

\* A cancelled task ends before its first step.
NeverBegins(r) ==
    /\ run[r].st = "sched" /\ run[r].cancel /\ run'[r] = Over
    /\ UNCHANGED <<job, changed, handle, proc, journal>>

TaskMoves(r) ==
    \/ Asks(r) \/ Works(r) \/ Settles(r) \/ GivesUp(r)
    \/ Spawns(r) \/ Minds(r) \/ Ends(r) \/ NeverBegins(r)

\* The fields of a typed state.
LEMMA Fields ==
    ASSUME TypeOK
    PROVE  /\ job \in JobRow /\ job.id \in 0 .. MaxRuns /\ job.stop \in BOOLEAN
           /\ \A r \in Run : /\ run[r] \in RunRow /\ run[r].job \in 0 .. MaxRuns
                             /\ run[r].retry \in BOOLEAN /\ run[r].cancel \in BOOLEAN
                             /\ run[r].st \in TaskState
                             /\ journal[r] \in JournalRow /\ journal[r].started \in BOOLEAN
                             /\ journal[r].completed \in Nat
                             /\ proc[r] \in ProcState
           /\ run \in [Run -> RunRow] /\ journal \in [Run -> JournalRow] /\ proc \in [Run -> ProcState]
  BY DEF TypeOK, JobRow, RunRow, JournalRow, ProcState

\* The row of a task that is over.
LEMMA OverFields ==
    Over \in RunRow /\ Over.st = "done" /\ Over.cancel = FALSE /\ Over.retry = FALSE
<1>1. 0 \in 0 .. MaxRuns
  BY ControlAssumption
<1> QED
  BY <1>1 DEF Over, RunRow, TaskState

\* A task that leaves is at its tail or over, and the journal says so.
LEMMA LeaveEnds ==
    ASSUME TypeOK, NEW r \in Run, NEW j \in [Run -> JournalRow],
           \A s \in Run : j[s].completed = journal[s].completed,
           \A s \in Run : s # r => j[s] = journal[s],
           Leave(r, j)
    PROVE  /\ run' \in [Run -> RunRow] /\ journal' \in [Run -> JournalRow]
           /\ \A s \in Run : s # r => run'[s] = run[s] /\ journal'[s] = journal[s]
           /\ Ended(r) /\ journal'[r].started = j[r].started
<1>1. CASE run[r].retry \/ run[r].kind = "review"
  <2>1. run' = [run EXCEPT ![r].st = "tail", ![r].cancel = FALSE] /\ journal' = j
    BY <1>1 DEF Leave
  <2>2. /\ run' \in [Run -> RunRow] /\ \A s \in Run : s # r => run'[s] = run[s]
        /\ run'[r].st = "tail" /\ run'[r].job = run[r].job /\ run'[r].retry = run[r].retry
        /\ ~run'[r].cancel
    BY ZenonT(40), <2>1, Fields DEF RunRow, TaskState
  <2> QED
    BY <2>1, <2>2 DEF Ended
<1>2. CASE ~(run[r].retry \/ run[r].kind = "review")
  <2>1. run' = [run EXCEPT ![r] = Over] /\ journal' = [j EXCEPT ![r].completed = @ + 1]
    BY <1>2 DEF Leave
  <2>2. Over \in RunRow
    BY OverFields
  <2>3. run' \in [Run -> RunRow] /\ run'[r] = Over /\ \A s \in Run : s # r => run'[s] = run[s]
    BY <2>1, <2>2, Fields
  <2>4. j[r] \in JournalRow /\ j[r].completed + 1 \in Nat /\ j[r].completed = journal[r].completed
    BY DEF JournalRow
  <2>5. /\ journal' \in [Run -> JournalRow] /\ \A s \in Run : s # r => journal'[s] = journal[s]
        /\ journal'[r].started = j[r].started /\ journal'[r].completed = journal[r].completed + 1
    BY <2>1, <2>4 DEF JournalRow
  <2> QED
    BY <2>3, <2>5 DEF Ended
<1> QED
  BY <1>1, <1>2

\* What a task must show of its step.
TaskTyped ==
    /\ run' \in [Run -> RunRow] /\ journal' \in [Run -> JournalRow] /\ proc' \in [Run -> ProcState]
    /\ job' \in JobRow /\ changed' \in BOOLEAN /\ handle' \in 0 .. MaxRuns

\* A job that settles: its end, the event, the worker and the task at once.
LEMMA SettleEffect ==
    ASSUME TypeOK, NEW r \in Run, NEW j \in [Run -> JournalRow], NEW status \in Settled,
           NEW h \in {0, handle}, \A s \in Run : j[s].completed = journal[s].completed,
           \A s \in Run : s # r => j[s] = journal[s],
           j[r].started = (run[r].st = "sched" \/ journal[r].started),
           Serves(r), SettleJob(r, status, h, j),
           UNCHANGED <<lock, op, owned, agent, session, env>>
    PROVE  TaskTyped /\ OthersKept(r) /\ Settles(r)
<1>1. /\ job' = [job EXCEPT !.status = status] /\ changed' = TRUE /\ handle' = h
      /\ proc' = [proc EXCEPT ![r] = "none"] /\ Leave(r, j)
  BY DEF SettleJob
<1>2. /\ run' \in [Run -> RunRow] /\ journal' \in [Run -> JournalRow]
      /\ \A s \in Run : s # r => run'[s] = run[s] /\ journal'[s] = journal[s]
      /\ Ended(r) /\ Journalled(r)
  BY <1>1, LeaveEnds DEF Journalled
<1>3. /\ job' \in JobRow /\ job'.id = job.id /\ job'.stop = job.stop /\ job'.status = status
  BY <1>1, Fields DEF JobRow
<1>4. /\ proc' \in [Run -> ProcState] /\ proc'[r] = "none"
      /\ \A s \in Run : s # r => proc'[s] = proc[s]
  BY <1>1, Fields DEF ProcState
<1>5. h \in 0 .. MaxRuns
  BY ControlAssumption DEF TypeOK
<1>6. TaskTyped
  BY <1>1, <1>2, <1>3, <1>4, <1>5 DEF TaskTyped
<1>7. OthersKept(r)
  BY <1>2, <1>4 DEF OthersKept
<1> QED
  BY <1>1, <1>2, <1>3, <1>4, <1>6, <1>7 DEF Settles, Live

\* A first attempt that leaves changes nothing but its own row.
LEMMA GiveUpEffect ==
    ASSUME TypeOK, NEW r \in Run, NEW j \in [Run -> JournalRow],
           \A s \in Run : j[s].completed = journal[s].completed,
           \A s \in Run : s # r => j[s] = journal[s],
           j[r].started = (run[r].st = "sched" \/ journal[r].started),
           run[r].st \in Fresh, ~run[r].retry, Leave(r, j),
           UNCHANGED <<job, changed, handle, proc, lock, op, owned, agent, session, env>>
    PROVE  TaskTyped /\ OthersKept(r) /\ GivesUp(r)
<1>1. /\ run' \in [Run -> RunRow] /\ journal' \in [Run -> JournalRow]
      /\ \A s \in Run : s # r => run'[s] = run[s] /\ journal'[s] = journal[s]
      /\ Ended(r) /\ Journalled(r)
  BY LeaveEnds DEF Journalled
<1>2. TaskTyped
  BY <1>1, Fields DEF TaskTyped, TypeOK
<1> QED
  BY <1>1, <1>2 DEF OthersKept, GivesUp

\* run() and _execute(): a first attempt makes the job or is refused, a retry
\* goes on with its job or finds it stopped.
LEMMA ControlEffect ==
    ASSUME TypeOK, NEW r \in Run, NEW j \in [Run -> JournalRow],
           \A s \in Run : j[s].completed = journal[s].completed,
           \A s \in Run : s # r => j[s] = journal[s],
           j[r].started = (run[r].st = "sched" \/ journal[r].started),
           run[r].st \in Fresh, ~run[r].cancel, ControlRun(r, j),
           UNCHANGED <<lock, op, owned, agent, session, env>>
    PROVE  TaskTyped /\ OthersKept(r) /\ (Works(r) \/ Settles(r) \/ GivesUp(r))
<1> DEFINE new == [id |-> r, kind |-> run[r].kind, status |-> "starting", stop |-> FALSE]
<1>1. CASE ~run[r].retry /\ JobActive
  BY <1>1, GiveUpEffect DEF ControlRun
<1>2. CASE run[r].retry /\ job.stop
  <2>1. SettleJob(r, "stopped", handle, j) /\ "stopped" \in Settled /\ Serves(r)
    BY <1>2 DEF ControlRun, Execute, Settled, Serves
  <2> QED
    BY <2>1, SettleEffect
<1>3. ASSUME NEW next \in JobRow, next.stop = FALSE, Execute(r, next, j),
             \/ run[r].retry /\ ~job.stop /\ next.id = job.id
             \/ ~run[r].retry /\ ~JobActive /\ next.id = r
      PROVE  TaskTyped /\ OthersKept(r) /\ Works(r)
  <2>1. /\ job' = [next EXCEPT !.status = "running"] /\ changed' = FALSE
        /\ run' = [run EXCEPT ![r].st = "spawn"] /\ journal' = j /\ UNCHANGED <<handle, proc>>
    BY <1>3 DEF Execute
  <2>2. job' \in JobRow /\ job'.id = next.id /\ job'.status = "running" /\ job'.stop = FALSE
    BY <1>3, <2>1 DEF JobRow, Running
  <2>3. /\ run' \in [Run -> RunRow] /\ run'[r] = [run[r] EXCEPT !.st = "spawn"]
        /\ \A s \in Run : s # r => run'[s] = run[s]
    BY <2>1, Fields DEF RunRow, TaskState
  <2>4. TaskTyped
    BY <2>1, <2>2, <2>3, Fields DEF TaskTyped, TypeOK
  <2>5. OthersKept(r)
    BY <2>1, <2>3 DEF OthersKept
  <2>6. Journalled(r) /\ journal'[r].completed = journal[r].completed
    BY <2>1 DEF Journalled
  <2> QED
    BY <1>3, <2>1, <2>2, <2>3, <2>4, <2>5, <2>6 DEF Works
<1>4. CASE run[r].retry /\ ~job.stop
  <2>1. Execute(r, job, j)
    BY <1>4 DEF ControlRun
  <2> QED
    BY <1>3, <1>4, <2>1, Fields
<1>5. CASE ~run[r].retry /\ ~JobActive
  <2>1. Execute(r, new, j)
    BY <1>5 DEF ControlRun
  <2>2. r \in 0 .. MaxRuns /\ run[r].kind \in Kinds \union {"none"}
    BY Fields, ControlAssumption DEF Run, RunRow
  <2>3. new \in JobRow /\ new.stop = FALSE /\ new.id = r
    BY <2>2 DEF JobRow, Running
  <2> HIDE DEF new
  <2> QED
    BY <1>3, <1>5, <2>1, <2>3
<1> QED
  BY <1>1, <1>2, <1>4, <1>5, Fields

\* The journal a task hands on: as it is, or with its own start.
LEMMA OwnJournal ==
    ASSUME TypeOK, NEW r \in Run
    PROVE  /\ run[r].st # "sched" =>
                /\ journal \in [Run -> JournalRow]
                /\ journal[r].started = (run[r].st = "sched" \/ journal[r].started)
           /\ LET j == [journal EXCEPT ![r].started = TRUE] IN
                /\ j \in [Run -> JournalRow] /\ j[r].started = TRUE
                /\ \A s \in Run : j[s].completed = journal[s].completed
                /\ \A s \in Run : s # r => j[s] = journal[s]
  BY Fields DEF JournalRow

\* Every step of a task is one of the moves, leaves every other run alone and
\* keeps the types.
LEMMA TaskOutcome ==
    ASSUME TypeOK, NEW r \in Run, Task(r)
    PROVE  TaskTyped /\ OthersKept(r) /\ TaskMoves(r)
<1> USE DEF TaskMoves
<1>1. CASE Begin(r)
  <2> DEFINE begun == [journal EXCEPT ![r].started = TRUE]
  <2>0. /\ run[r].st = "sched" /\ ~run[r].cancel
        /\ UNCHANGED <<lock, op, owned, agent, session, env>>
    BY <1>1 DEF Begin
  <2>1. /\ begun \in [Run -> JournalRow] /\ begun[r].started = TRUE
        /\ \A s \in Run : begun[s].completed = journal[s].completed
        /\ \A s \in Run : s # r => begun[s] = journal[s]
    BY OwnJournal
  <2>2. CASE run[r].kind = "command"
    <3>1. ControlRun(r, begun)
      BY <1>1, <2>2 DEF Begin
    <3>2. run[r].st \in Fresh
      BY <2>0 DEF Fresh
    <3> HIDE DEF begun
    <3> QED
      BY <2>0, <2>1, <3>1, <3>2, ControlEffect
  <2>3. CASE run[r].kind # "command"
    <3>1. /\ run' = [run EXCEPT ![r].st = "approve"] /\ journal' = begun
          /\ UNCHANGED <<job, changed, handle, proc>>
      BY <1>1, <2>3 DEF Begin
    <3>2. /\ run' \in [Run -> RunRow] /\ run'[r] = [run[r] EXCEPT !.st = "approve"]
          /\ \A s \in Run : s # r => run'[s] = run[s]
      BY <3>1, Fields DEF RunRow, TaskState
    <3> HIDE DEF begun
    <3>3. TaskTyped
      BY <2>1, <3>1, <3>2, Fields DEF TaskTyped, TypeOK
    <3>4. Journalled(r) /\ journal'[r].completed = journal[r].completed
      BY <2>0, <2>1, <3>1 DEF Journalled
    <3>5. OthersKept(r)
      BY <2>0, <2>1, <3>1, <3>2 DEF OthersKept
    <3> QED
      BY <2>0, <3>1, <3>2, <3>3, <3>4, <3>5 DEF Asks
  <2> QED
    BY <2>2, <2>3
<1>2. CASE Approved(r)
  <2>1. /\ run[r].st \in Fresh /\ run[r].st # "sched" /\ ~run[r].cancel /\ ControlRun(r, journal)
        /\ UNCHANGED <<lock, op, owned, agent, session, env>>
    BY <1>2 DEF Approved, Fresh
  <2> QED
    BY <2>1, ControlEffect, OwnJournal
<1>3. CASE NotApproved(r) \/ CancelledApproval(r)
  <2>1. /\ run[r].st \in Fresh /\ run[r].st # "sched"
        /\ UNCHANGED <<lock, op, owned, agent, session, env>>
    BY <1>3 DEF NotApproved, CancelledApproval, Fresh
  <2>2. CASE run[r].retry
    <3>1. PICK status \in Settled : SettleJob(r, status, handle, journal)
      BY <1>3, <2>2 DEF NotApproved, CancelledApproval, Settled
    <3>2. Serves(r)
      BY <2>1, <2>2 DEF Serves
    <3> QED
      BY <2>1, <3>1, <3>2, SettleEffect, OwnJournal
  <2>3. CASE ~run[r].retry
    <3>1. Leave(r, journal) /\ UNCHANGED <<job, changed, handle, proc>>
      BY <1>3, <2>3 DEF NotApproved, CancelledApproval
    <3> QED
      BY <2>1, <2>3, <3>1, GiveUpEffect, OwnJournal
  <2> QED
    BY <2>2, <2>3
<1>4. ASSUME NEW status \in Settled, NEW h \in {0, handle}, run[r].st \in Work,
             SettleJob(r, status, h, journal), UNCHANGED <<lock, op, owned, agent, session, env>>
      PROVE  TaskTyped /\ OthersKept(r) /\ Settles(r)
  <2>1. Serves(r) /\ run[r].st # "sched"
    BY <1>4 DEF Serves, Work
  <2>2. /\ journal \in [Run -> JournalRow]
        /\ journal[r].started = (run[r].st = "sched" \/ journal[r].started)
    BY <2>1, OwnJournal
  <2> QED
    BY <1>4, <2>1, <2>2, SettleEffect, Zenon
<1>5. CASE Spawn(r)
  <2>1. /\ run[r].st = "spawn" /\ ~run[r].cancel
        /\ UNCHANGED <<lock, op, owned, agent, session, env>>
    BY <1>5 DEF Spawn
  <2>2. CASE SettleJob(r, "failed", handle, journal)
    BY <1>4, <2>1, <2>2 DEF Work, Settled
  <2>3. CASE /\ proc' = [proc EXCEPT ![r] = "live"] /\ handle' = r
             /\ run' = [run EXCEPT ![r].st = "read"] /\ UNCHANGED <<job, changed, journal>>
    <3>1. /\ run' \in [Run -> RunRow] /\ run'[r] = [run[r] EXCEPT !.st = "read"]
          /\ \A s \in Run : s # r => run'[s] = run[s]
      BY <2>3, Fields DEF RunRow, TaskState
    <3>2. /\ proc' \in [Run -> ProcState] /\ proc'[r] = "live"
          /\ \A s \in Run : s # r => proc'[s] = proc[s]
      BY <2>3, Fields DEF ProcState
    <3>3. r \in 0 .. MaxRuns
      BY ControlAssumption DEF Run
    <3>4. TaskTyped
      BY <2>3, <3>1, <3>2, <3>3, Fields DEF TaskTyped, TypeOK
    <3> QED
      BY <2>1, <2>3, <3>1, <3>2, <3>4 DEF OthersKept, Spawns
  <2> QED
    BY <1>5, <2>2, <2>3 DEF Spawn
<1>6. ASSUME NEW st \in {"feed", "last", "reap"}, run[r].st \in {"read", "feed"},
             run' = [run EXCEPT ![r].st = st, ![r].cancel = FALSE],
             \/ proc' = proc /\ (st = "last" => ~Live(r))
             \/ Signal(r) /\ st # "last",
             UNCHANGED <<job, changed, handle, journal, lock, op, owned, agent, session, env>>
      PROVE  TaskTyped /\ OthersKept(r) /\ Minds(r)
  <2>1. st \in TaskState
    BY DEF TaskState
  <2>2. /\ run' \in [Run -> RunRow] /\ run'[r] = [run[r] EXCEPT !.st = st, !.cancel = FALSE]
        /\ \A s \in Run : s # r => run'[s] = run[s]
    BY ZenonT(40), <1>6, <2>1, Fields DEF RunRow
  <2>3. /\ proc' \in [Run -> ProcState] /\ (Live(r)' => Live(r) /\ st # "last")
        /\ \A s \in Run : s # r => proc'[s] = proc[s]
    BY <1>6, Fields DEF ProcState, Signal, Live, Lost
  <2>4. TaskTyped
    BY <1>6, <2>2, <2>3, Fields DEF TaskTyped, TypeOK
  <2> QED
    BY <1>6, <2>2, <2>3, <2>4 DEF OthersKept, Minds
<1>7. ASSUME NEW st \in TaskState, run[r].cancel = FALSE, run' = [run EXCEPT ![r].st = st]
      PROVE  run' = [run EXCEPT ![r].st = st, ![r].cancel = FALSE]
  BY <1>7, Fields DEF RunRow
<1>8. ASSUME run[r].st \in Work, Finish(r), UNCHANGED <<lock, op, owned, agent, session, env>>
      PROVE  TaskTyped /\ OthersKept(r) /\ Settles(r)
  BY <1>4, <1>8 DEF Finish
<1>9. CASE ReadEnds(r) \/ LastEnds(r)
  <2>1. run[r].st \in Work /\ UNCHANGED <<lock, op, owned, agent, session, env>>
    BY <1>9 DEF ReadEnds, LastEnds, Work
  <2>2. CASE Finish(r)
    BY <1>8, <2>1, <2>2
  <2>3. CASE ~Finish(r)
    <3>1. /\ run[r].st = "read" /\ run[r].cancel = FALSE /\ ~Live(r)
          /\ run' = [run EXCEPT ![r].st = "last"]
          /\ UNCHANGED <<job, changed, handle, proc, journal>>
      BY <1>9, <2>3, Fields DEF ReadEnds, LastEnds
    <3>2. run' = [run EXCEPT ![r].st = "last", ![r].cancel = FALSE]
      BY <1>7, <3>1 DEF TaskState
    <3>3. TaskTyped /\ OthersKept(r) /\ Minds(r)
      BY <1>6, <2>1, <3>1, <3>2
    <3> QED
      BY <3>3
  <2> QED
    BY <2>2, <2>3
<1>14. CASE BadOutput(r) \/ CancelledWork(r)
  <2>1. /\ run[r].st = "read" /\ Fail(r) /\ UNCHANGED <<lock, op, owned, agent, session, env>>
    BY <1>14 DEF BadOutput, CancelledWork
  <2>2. CASE run[r].kind = "command" \/ Live(r)
    BY <1>6, <2>1, <2>2 DEF Fail
  <2>3. CASE ~(run[r].kind = "command" \/ Live(r))
    BY <1>4, <2>1, <2>3 DEF Fail, Work, Settled
  <2> QED
    BY <2>2, <2>3
<1>15. CASE FeedEnds(r)
  <2>1. /\ run[r].st = "feed" /\ run[r].cancel = FALSE
        /\ UNCHANGED <<lock, op, owned, agent, session, env>>
    BY <1>15, Fields DEF FeedEnds
  <2>2. CASE Live(r)
    <3>1. Signal(r) /\ run' = [run EXCEPT ![r].st = "reap"] /\ UNCHANGED <<job, changed, handle, journal>>
      BY <1>15, <2>2 DEF FeedEnds
    <3>2. run' = [run EXCEPT ![r].st = "reap", ![r].cancel = FALSE]
      BY <1>7, <2>1, <3>1 DEF TaskState
    <3> QED
      BY <1>6, <2>1, <3>1, <3>2
  <2>3. CASE ~Live(r)
    BY <1>4, <1>15, <2>1, <2>3 DEF FeedEnds, Work, Settled
  <2> QED
    BY <2>2, <2>3
<1>16. CASE Reap(r) \/ CancelledReap(r) \/ CancelledSpawn(r)
  <2>1. PICK h \in {0, handle} : /\ run[r].st \in Work /\ SettleJob(r, "failed", h, journal)
                                 /\ UNCHANGED <<lock, op, owned, agent, session, env>>
    BY <1>16 DEF Reap, CancelledReap, CancelledSpawn, Work
  <2> QED
    BY <1>4, <2>1 DEF Settled
<1>10. CASE End(r)
  <2>1. /\ run[r].st = "tail" /\ run' = [run EXCEPT ![r] = Over]
        /\ journal' = [journal EXCEPT ![r].completed = @ + 1]
        /\ UNCHANGED <<job, changed, lock, handle, proc, op, owned, agent, session, env>>
    BY <1>10 DEF End, control
  <2>2. run' \in [Run -> RunRow] /\ run'[r] = Over /\ \A s \in Run : s # r => run'[s] = run[s]
    BY <2>1, Fields, OverFields
  <2>3. /\ journal' \in [Run -> JournalRow] /\ \A s \in Run : s # r => journal'[s] = journal[s]
        /\ journal'[r].started = journal[r].started /\ journal'[r].completed = journal[r].completed + 1
    BY <2>1, Fields DEF JournalRow
  <2>4. TaskTyped
    BY <2>1, <2>2, <2>3, Fields DEF TaskTyped, TypeOK
  <2> QED
    BY <2>1, <2>2, <2>3, <2>4 DEF OthersKept, Ends
<1>11. CASE CancelledUnbegun(r)
  <2>1. /\ run[r].st = "sched" /\ run[r].cancel /\ run' = [run EXCEPT ![r] = Over]
        /\ UNCHANGED <<job, changed, lock, handle, proc, journal, op, owned, agent, session, env>>
    BY <1>11 DEF CancelledUnbegun, control
  <2>2. run' \in [Run -> RunRow] /\ run'[r] = Over /\ \A s \in Run : s # r => run'[s] = run[s]
    BY <2>1, Fields, OverFields
  <2>3. TaskTyped
    BY <2>1, <2>2, Fields DEF TaskTyped, TypeOK
  <2> QED
    BY <2>1, <2>2, <2>3 DEF OthersKept, NeverBegins
<1>13. CASE CancelledFeed(r)
  <2>1. /\ run[r].st \in Work /\ run[r].st # "sched"
        /\ job' = [job EXCEPT !.status = "failed"] /\ changed' = TRUE
        /\ proc' = [proc EXCEPT ![r] = CASE @ = "live" -> "lost" [] @ = "dying" -> "falling"
                                           [] OTHER -> "none"]
        /\ Leave(r, journal)
        /\ UNCHANGED <<handle, lock, op, owned, agent, session, env>>
    BY <1>13 DEF CancelledFeed, Work
  <2>2. /\ run' \in [Run -> RunRow] /\ journal' \in [Run -> JournalRow]
        /\ \A s \in Run : s # r => run'[s] = run[s] /\ journal'[s] = journal[s]
        /\ Ended(r) /\ journal'[r].started = journal[r].started
    BY <2>1, LeaveEnds, Fields
  <2>3. job' \in JobRow /\ job'.id = job.id /\ job'.stop = job.stop /\ job'.status = "failed"
    BY <2>1, Fields DEF JobRow, Settled
  <2>4. /\ proc' \in [Run -> ProcState] /\ ~Live(r)'
        /\ \A s \in Run : s # r => proc'[s] = proc[s]
    BY <2>1, Fields DEF ProcState, Live
  <2>5. TaskTyped
    BY <2>1, <2>2, <2>3, <2>4, Fields DEF TaskTyped, TypeOK
  <2>6. OthersKept(r)
    BY <2>1, <2>2, <2>4 DEF OthersKept
  <2>7. Journalled(r) /\ Serves(r)
    BY <2>1, <2>2, OwnJournal DEF Journalled, Serves, Work
  <2>8. job'.status \in Settled /\ handle' \in {0, handle}
    BY <2>1, <2>3 DEF Settled
  <2> QED
    BY <2>1, <2>2, <2>3, <2>4, <2>5, <2>6, <2>7, <2>8 DEF Settles
<1> QED
  BY <1>1, <1>2, <1>3, <1>5, <1>9, <1>10, <1>11, <1>13, <1>14, <1>15, <1>16 DEF Task

\* After its step a task is no longer cancelled, and it is over or still of the
\* same job; each move leaves it where its name says.
LEMMA MoveFields ==
    ASSUME TypeOK, NEW r \in Run, TaskMoves(r)
    PROVE  /\ TaskActive(r) /\ run'[r].st # "none" /\ run'[r].cancel = FALSE
           /\ \/ run'[r].st = "done"
              \/ run'[r].job = run[r].job /\ run'[r].retry = run[r].retry
           /\ Asks(r) => run'[r].st = "approve"
           /\ Works(r) => run'[r].st = "spawn"
           /\ Settles(r) \/ GivesUp(r) => run'[r].st \in {"tail", "done"}
           /\ Spawns(r) => run'[r].st = "read"
           /\ Minds(r) => run'[r].st \in {"feed", "last", "reap"}
           /\ Ends(r) \/ NeverBegins(r) => run'[r].st = "done"
           /\ \/ run'[r].st = "done" /\ journal'[r].completed = journal[r].completed + 1
              \/ run'[r].st # "done" /\ journal'[r].completed = journal[r].completed
              \/ NeverBegins(r)
<1>0. /\ run[r] \in RunRow /\ run[r].cancel \in BOOLEAN /\ run[r].retry \in BOOLEAN
      /\ Over.st = "done" /\ Over.cancel = FALSE
  BY Fields, OverFields
<1>1. CASE Asks(r) \/ Works(r) \/ Spawns(r)
  <2>1. /\ run[r].cancel = FALSE
        /\ journal'[r].completed = journal[r].completed
        /\ run[r].st \in {"sched", "approve", "spawn"}
    BY <1>0, <1>1 DEF Asks, Works, Spawns, Fresh
  <2>4. /\ Asks(r) => run'[r] = [run[r] EXCEPT !.st = "approve"]
        /\ Works(r) => run'[r] = [run[r] EXCEPT !.st = "spawn"]
        /\ Spawns(r) => run'[r] = [run[r] EXCEPT !.st = "read"]
    BY DEF Asks, Works, Spawns
  <2>2. /\ run'[r].cancel = FALSE /\ run'[r].job = run[r].job /\ run'[r].retry = run[r].retry
        /\ run'[r].st \in {"approve", "spawn", "read"}
        /\ Asks(r) => run'[r].st = "approve"
        /\ Works(r) => run'[r].st = "spawn"
        /\ Spawns(r) => run'[r].st = "read"
    BY <1>0, <1>1, <2>1, <2>4 DEF RunRow
  <2>3. ~Settles(r) /\ ~GivesUp(r) /\ ~Minds(r) /\ ~Ends(r) /\ ~NeverBegins(r)
    <3>1. run'[r].st \notin {"tail", "done", "feed", "last", "reap"}
      BY <2>2
    <3>2. /\ Ended(r) => run'[r].st \in {"tail", "done"}
          /\ Minds(r) => run'[r].st \in {"feed", "last", "reap"}
      BY <1>0 DEF Ended, Minds, RunRow
    <3> QED
      BY <1>0, <3>1, <3>2 DEF Settles, GivesUp, Ends, NeverBegins
  <2> QED
    BY <2>1, <2>2, <2>3 DEF TaskActive
<1>2. CASE Minds(r)
  <2>1. PICK st \in {"feed", "last", "reap"} : run'[r] = [run[r] EXCEPT !.st = st, !.cancel = FALSE]
    BY <1>2 DEF Minds
  <2>2. /\ run'[r].cancel = FALSE /\ run'[r].job = run[r].job /\ run'[r].retry = run[r].retry
        /\ run'[r].st \in {"feed", "last", "reap"}
        /\ run[r].st \in {"read", "feed"} /\ journal'[r].completed = journal[r].completed
    BY <1>0, <1>2, <2>1 DEF RunRow, Minds
  <2>3. /\ Ended(r) => run'[r].st \in {"tail", "done"}
        /\ Asks(r) => run'[r].st = "approve"
        /\ Works(r) => run'[r].st = "spawn"
        /\ Spawns(r) => run'[r].st = "read"
        /\ Ends(r) \/ NeverBegins(r) => run'[r].st = "done"
    BY <1>0 DEF Ended, Asks, Works, Spawns, Ends, NeverBegins, RunRow
  <2> QED
    BY <2>2, <2>3 DEF TaskActive, Settles, GivesUp
<1>3. CASE Settles(r) \/ GivesUp(r) \/ Ends(r) \/ NeverBegins(r)
  <2>1. /\ run'[r].st \in {"tail", "done"} /\ run'[r].cancel = FALSE
        /\ \/ run'[r].st = "done"
           \/ run'[r].job = run[r].job /\ run'[r].retry = run[r].retry
    <3>1. CASE Settles(r) \/ GivesUp(r)
      <4>1. CASE run'[r] = Over
        BY <1>0, <4>1
      <4>2. CASE run'[r] # Over
        BY <3>1, <4>2 DEF Settles, GivesUp, Ended
      <4> QED
        BY <4>1, <4>2
    <3>2. CASE Ends(r) \/ NeverBegins(r)
      BY <1>0, <3>2 DEF Ends, NeverBegins
    <3> QED
      BY <1>3, <3>1, <3>2
  <2>2. run[r].st \in {"sched", "approve", "spawn", "read", "feed", "last", "reap", "tail"}
    BY <1>3 DEF Settles, GivesUp, Ends, NeverBegins, Serves, Work, Fresh
  <2>3. /\ Asks(r) => run'[r].st = "approve"
        /\ Works(r) => run'[r].st = "spawn"
        /\ Spawns(r) => run'[r].st = "read"
        /\ Minds(r) => run'[r].st \in {"feed", "last", "reap"}
        /\ Ends(r) \/ NeverBegins(r) => run'[r].st = "done"
    BY <1>0 DEF Asks, Works, Spawns, Minds, Ends, NeverBegins, RunRow
  <2>4. \/ run'[r].st = "done" /\ journal'[r].completed = journal[r].completed + 1
        \/ run'[r].st # "done" /\ journal'[r].completed = journal[r].completed
        \/ NeverBegins(r)
    BY <1>0, <1>3 DEF Settles, GivesUp, Ended, Ends
  <2> QED
    BY <2>1, <2>2, <2>3, <2>4 DEF TaskActive
<1> QED
  BY <1>1, <1>2, <1>3 DEF TaskMoves

\* Where one task takes a step, what the invariant says of the requests goes on
\* to hold: the task has begun, its job is still there, or it made a job where
\* there was none.
LEMMA OneRunMoves ==
    ASSUME IInv, NEW r \in Run, TaskActive(r), UNCHANGED <<lock, op, owned, session>>,
           \A s \in Run : s # r => run'[s] = run[s],
           run'[r].st \notin {"none", "sched"}, run'[r].cancel = FALSE,
           run'[r].st = "left" => run[r].st = "left",
           run'[r].st \in Fresh => run[r].st \in Fresh /\ run'[r].retry = run[r].retry /\ UNCHANGED job,
           \/ job'.id = job.id /\ (JobActive => JobActive' \/ run'[r].st \notin Fresh)
           \/ run[r].st \in Fresh /\ ~JobActive
    PROVE  OpPart'
<1>1. \A s \in Run : s # r => ~TaskActive(s) /\ run[s].st \in {"none", "done", "gone"} /\ ~run[s].cancel
  BY DEF IInv, TaskPart, SingleTask, TaskActive
<1>2. Used' = Used
  BY DEF Used, TaskActive
<1>3. LockHeld'
  BY DEF IInv, OpPart, LockHeld
<1>4. StopMarks'
  <2>1. SUFFICES ASSUME NEW o \in Op, NEW s \in Run, op[o].pc \in Holding,
                        run'[s].st \in Fresh, run'[s].retry
                 PROVE  job'.stop
    BY DEF StopMarks
  <2>2. s = r
    BY <1>1, <2>1 DEF Fresh
  <2> QED
    BY <2>1, <2>2 DEF IInv, OpPart, StopMarks
<1>5. CancelsMeet'
  <2>1. \A s \in Run : ~run'[s].cancel
    BY <1>1
  <2> QED
    BY <2>1 DEF IInv, OpPart, CancelsMeet
<1>6. ASSUME NEW k \in Canceller PROVE CancelPart(k)'
  <2>0. Phase(k) /\ Owns(k) /\ OwnedRetry(k) /\ ShutStops(k)
    BY <1>6 DEF IInv, OpPart, CancelPart
  <2>1. Phase(k)'
    BY <2>0 DEF Phase
  <2>2. Owns(k)'
    <3>1. \A s \in Run : run'[s].st = "left" => run[s].st = "left"
      OBVIOUS
    <3>2. \A s \in Run : TaskActive(s)' => TaskActive(s)
      BY DEF TaskActive
    <3>3. op'[k] = op[k] /\ owned'[k] = owned[k]
      OBVIOUS
    <3> QED
      BY <1>2, <2>0, <3>1, <3>2, <3>3 DEF Owns
  <2>3. OwnedRetry(k)'
    <3>1. \A s \in Run : run'[s].st # "sched"
      BY <1>1
    <3> QED
      BY <3>1 DEF OwnedRetry
  <2>4. ShutStops(k)'
    <3>1. SUFFICES ASSUME op[k].act = "shut", op[k].pc \in Holding
                   PROVE  job'.id = op[k].job /\ (JobActive' \/ \A s \in Run : run'[s].st \notin Fresh)
      BY DEF ShutStops
    <3>2. job.id = op[k].job /\ (JobActive \/ \A s \in Run : run[s].st \notin Fresh)
      BY <2>0, <3>1 DEF ShutStops
    <3>3. \A s \in Run : s # r => run'[s].st \notin Fresh
      BY <1>1 DEF Fresh
    <3>4. job'.id = job.id /\ (JobActive => JobActive' \/ run'[r].st \notin Fresh)
      BY <3>2
    <3> QED
      BY <3>2, <3>3, <3>4
  <2> QED
    BY <2>1, <2>2, <2>3, <2>4 DEF CancelPart
<1> QED
  BY <1>3, <1>4, <1>5, <1>6 DEF OpPart

\* The step of a task keeps the invariant.
LEMMA TaskStep ==
    ASSUME IInv, NEW r \in Run, Task(r)
    PROVE  IInv'
<1>0. TypeOK /\ TaskTyped /\ OthersKept(r) /\ TaskMoves(r)
  BY TaskOutcome DEF IInv
<1>1. /\ TaskActive(r) /\ run'[r].st # "none" /\ run'[r].cancel = FALSE
      /\ run'[r].st = "done" \/ (run'[r].job = run[r].job /\ run'[r].retry = run[r].retry)
      /\ Asks(r) => run'[r].st = "approve"
      /\ Works(r) => run'[r].st = "spawn"
      /\ Settles(r) \/ GivesUp(r) => run'[r].st \in {"tail", "done"}
      /\ Spawns(r) => run'[r].st = "read"
      /\ Minds(r) => run'[r].st \in {"feed", "last", "reap"}
      /\ Ends(r) \/ NeverBegins(r) => run'[r].st = "done"
      /\ \/ run'[r].st = "done" /\ journal'[r].completed = journal[r].completed + 1
         \/ run'[r].st # "done" /\ journal'[r].completed = journal[r].completed
         \/ NeverBegins(r)
  BY <1>0, MoveFields
<1>2. /\ op' = op /\ lock' = lock /\ owned' = owned /\ agent' = agent /\ session' = session /\ env' = env
      /\ \A s \in Run : s # r => run'[s] = run[s] /\ proc'[s] = proc[s] /\ journal'[s] = journal[s]
  BY <1>0 DEF OthersKept
<1>3. /\ SingleTask /\ TaskServesJob /\ EventClear /\ JobServed /\ OneWorker /\ JournalFollows
      /\ RunsNumbered /\ OpPart
  BY DEF IInv, TaskPart
<1>4. \A s \in Run : s # r => /\ ~TaskActive(s) /\ run[s].st \in {"none", "done", "gone"}
                              /\ ~Serves(s) /\ ~Live(s)
  BY <1>1, <1>3 DEF SingleTask, TaskActive, Serves, OneWorker, Work, Fresh
<1>5. /\ \A s \in Run : s # r => ~Serves(s)' /\ ~Live(s)' /\ run'[s].st \in {"none", "done", "gone"}
      /\ run[r].st # "left" /\ run'[r].st \notin {"none", "sched", "left", "gone"}
  <2>1. \A s \in Run : s # r => ~Serves(s)' /\ ~Live(s)' /\ run'[s].st \in {"none", "done", "gone"}
    BY <1>2, <1>4 DEF Serves, Live
  <2>2. run[r].st # "left"
    BY <1>0 DEF TaskMoves, Asks, Works, Settles, GivesUp, Spawns, Minds, Ends, NeverBegins, Serves, Work, Fresh
  <2>3. run'[r].st \notin {"none", "sched", "left", "gone"}
    BY <1>0, <1>1 DEF TaskMoves
  <2> QED
    BY <2>1, <2>2, <2>3
<1>6. TypeOK'
  BY <1>0, <1>2 DEF TaskTyped, TypeOK, JobRow, RunRow, JournalRow, ProcState
<1>7. RunsNumbered'
  <2>1. Used' = Used
    BY <1>1, <1>2 DEF Used, TaskActive
  <2> QED
    BY <1>2, <1>3, <2>1 DEF RunsNumbered, Retrying
<1>8. SingleTask'
  <2>1. \A s \in Run : TaskActive(s)' => s = r
    BY <1>5 DEF TaskActive
  <2>2. \A s \in Run : ~run'[s].cancel \/ s = r
    BY <1>2, <1>3, <1>4 DEF SingleTask
  <2>3. TaskActive(r)' /\ ~run'[r].retry => run'[r].job = r
    BY <1>1, <1>3, <1>5 DEF SingleTask, TaskActive
  <2> QED
    BY <1>1, <1>5, <2>1, <2>2, <2>3 DEF SingleTask
<1>9. TaskServesJob'
  <2>1. Serves(r)' => Asks(r) \/ Works(r) \/ Spawns(r) \/ Minds(r)
    BY <1>0, <1>1 DEF TaskMoves, Serves, Work, Fresh
  <2>2. Asks(r) /\ Serves(r)' => run'[r].job = job'.id /\ JobActive'
    BY <1>1, <1>3 DEF Asks, TaskServesJob, Serves, Work, Fresh, JobActive
  <2>3. Works(r) => run'[r].job = job'.id /\ JobActive'
    BY <1>1, <1>3, <1>5 DEF Works, TaskServesJob, SingleTask, Serves, JobActive, Running
  <2>4. Spawns(r) \/ Minds(r) => run'[r].job = job'.id /\ JobActive'
    BY <1>1, <1>3 DEF Spawns, Minds, TaskServesJob, Serves, Work, JobActive
  <2>5. job'.id = 0 => job'.status = "none"
    <3>0. Serves(r) => job.id # 0
      BY <1>3 DEF TaskServesJob, JobActive, Running
    <3>1. CASE Works(r)
      BY <3>0, <3>1 DEF Works, Serves, Run
    <3>2. CASE Settles(r)
      BY <3>0, <3>2 DEF Settles
    <3>3. CASE ~Works(r) /\ ~Settles(r)
      BY <1>0, <1>3, <3>3 DEF TaskMoves, Asks, GivesUp, Spawns, Minds, Ends, NeverBegins, TaskServesJob
    <3> QED
      BY <3>1, <3>2, <3>3
  <2> QED
    BY <1>5, <2>1, <2>2, <2>3, <2>4, <2>5 DEF TaskServesJob
<1>10. EventClear'
  <2>1. run'[r].st \in Work => Works(r) \/ Spawns(r) \/ Minds(r)
    BY <1>0, <1>1 DEF TaskMoves, Work
  <2>2. Spawns(r) \/ Minds(r) => ~changed'
    BY <1>3 DEF Spawns, Minds, EventClear, Work
  <2>3. Works(r) => ~changed'
    BY DEF Works
  <2> QED
    BY <1>5, <2>1, <2>2, <2>3 DEF EventClear, Work
<1>11. JobServed'
  <2>0. \A s \in Run : handle' = s => run'[s].st # "left"
    <3>1. handle' \in {0, handle, r}
      BY <1>0 DEF TaskMoves, Asks, Works, Settles, GivesUp, Spawns, Minds, Ends, NeverBegins
    <3>2. 0 \notin Run
      BY DEF Run
    <3> QED
      BY <1>5, <3>1, <3>2
  <2>1. CASE Asks(r) \/ GivesUp(r) \/ Ends(r)
    <3>1. UNCHANGED <<job, changed, handle>>
      BY <2>1 DEF Asks, GivesUp, Ends
    <3>2. Serves(r) => Serves(r)'
      BY <1>1, <2>1 DEF Asks, GivesUp, Ends, Serves, Work, Fresh
    <3> QED
      BY <1>3, <1>4, <2>0, <3>1, <3>2 DEF JobServed, Stranded, JobActive
  <2>2. CASE Works(r) \/ Spawns(r) \/ Minds(r)
    BY <1>1, <2>0, <2>2 DEF JobServed, Serves, Work
  <2>3. CASE Settles(r)
    BY <2>0, <2>3 DEF Settles, JobServed, JobActive, Settled, Running
  <2>4. CASE NeverBegins(r)
    <3>1. UNCHANGED <<job, changed, handle>> /\ run[r].st = "sched" /\ run[r].cancel
      BY <2>4 DEF NeverBegins
    <3>2. PICK k \in Canceller : r \in owned[k] /\ op[k].pc = "gather"
      BY <1>3, <1>5, <3>1 DEF OpPart, CancelsMeet, Gathers
    <3>3. CASE run[r].retry
      <4>1. OwnedRetry(k)
        BY <1>3 DEF OpPart, CancelPart
      <4>2. Stranded
        BY <3>1, <3>2, <3>3, <4>1 DEF OwnedRetry, Stranded
      <4> QED
        BY <2>0, <3>1, <4>2 DEF JobServed, Stranded
    <3>4. CASE ~run[r].retry
      <4>1. ~Serves(r)
        BY <3>1, <3>4 DEF Serves, Work
      <4> QED
        BY <1>3, <1>4, <2>0, <3>1, <4>1 DEF JobServed, Stranded, JobActive
    <3> QED
      BY <3>3, <3>4
  <2> QED
    BY <1>0, <2>1, <2>2, <2>3, <2>4 DEF TaskMoves
<1>12. OneWorker'
  <2>0. SUFFICES ASSUME Live(r)'
                 PROVE  run'[r].st \in {"read", "feed", "reap"} /\ handle' = r
    <3>1. run'[r].st \in {"read", "feed", "reap"} => Serves(r)'
      BY DEF Serves, Work
    <3>2. \A s \in Run : s # r => ~TaskActive(s)'
      BY <1>5 DEF TaskActive
    <3> QED
      BY <1>5, <1>9, <2>0, <3>1, <3>2 DEF OneWorker, TaskServesJob
  <2>1. CASE Asks(r) \/ Works(r) \/ GivesUp(r) \/ NeverBegins(r) \/ Ends(r)
    <3>1. proc'[r] = proc[r] /\ run[r].st \in {"sched", "approve", "tail"}
      BY <2>1 DEF Asks, Works, GivesUp, NeverBegins, Ends, Fresh
    <3> QED
      BY <1>3, <2>0, <3>1 DEF OneWorker, Live
  <2>2. CASE Settles(r)
    BY <2>0, <2>2 DEF Settles
  <2>3. CASE Spawns(r)
    BY <1>1, <2>3 DEF Spawns
  <2>4. CASE Minds(r)
    <3>1. PICK st \in {"feed", "last", "reap"} : /\ run'[r] = [run[r] EXCEPT !.st = st, !.cancel = FALSE]
                                                 /\ Live(r) /\ st # "last"
      BY <2>0, <2>4 DEF Minds
    <3>2. run'[r].st = st /\ handle' = handle
      BY <1>0, <2>4, <3>1, Fields DEF Minds, RunRow
    <3> QED
      BY <1>3, <1>5, <3>1, <3>2 DEF OneWorker
  <2> QED
    BY <1>0, <2>1, <2>2, <2>3, <2>4 DEF TaskMoves
<1>13. JournalFollows'
  <2>1. ASSUME NEW s \in Run, s # r PROVE JournalOf(s)'
    BY <1>2, <1>3, <2>1 DEF JournalFollows, JournalOf, TaskActive
  <2>2. /\ journal[r].completed = 0
        /\ run[r].st = "sched" => ~journal[r].started
        /\ run[r].st # "sched" => journal[r].started
        /\ session' # "down"
    BY <1>1, <1>2, <1>3, <1>5 DEF JournalFollows, JournalOf, TaskActive
  <2>3. CASE NeverBegins(r)
    <3>1. /\ journal'[r].started = FALSE /\ run'[r].st = "done" /\ journal'[r].completed = 0
      BY <1>0, <1>1, <2>2, <2>3, Fields DEF NeverBegins
    <3> QED
      BY <2>1, <2>2, <3>1 DEF JournalFollows, JournalOf, TaskActive
  <2>4. CASE ~NeverBegins(r)
    <3>1. journal'[r].started
      <4>1. CASE Asks(r) \/ Works(r) \/ Settles(r) \/ GivesUp(r)
        BY <2>2, <4>1 DEF Asks, Works, Settles, GivesUp, Journalled
      <4>2. CASE Spawns(r) \/ Minds(r) \/ Ends(r)
        BY <2>2, <4>2 DEF Spawns, Minds, Ends
      <4> QED
        BY <1>0, <2>4, <4>1, <4>2 DEF TaskMoves
    <3>2. \/ run'[r].st = "done" /\ journal'[r].completed = 1
          \/ run'[r].st # "done" /\ journal'[r].completed = 0
      BY <1>1, <2>2, <2>4
    <3> QED
      BY <1>5, <2>1, <2>2, <3>1, <3>2 DEF JournalFollows, JournalOf, TaskActive
  <2> QED
    BY <2>3, <2>4
<1>14. OpPart'
  <2>1. run'[r].st \in Fresh => Asks(r)
    BY <1>0, <1>1 DEF TaskMoves, Fresh
  <2>2. run'[r].st \in Fresh => run[r].st \in Fresh /\ run'[r].retry = run[r].retry /\ UNCHANGED job
    BY <1>1, <2>1 DEF Asks, Fresh
  <2>3. \/ job'.id = job.id /\ (JobActive => JobActive' \/ run'[r].st \notin Fresh)
        \/ run[r].st \in Fresh /\ ~JobActive
    <3>1. CASE Works(r)
      BY <1>1, <3>1 DEF Works, JobActive, Running
    <3>2. CASE Settles(r)
      BY <1>1, <3>2 DEF Settles, Fresh
    <3>3. CASE ~Works(r) /\ ~Settles(r)
      BY <1>0, <3>3 DEF TaskMoves, Asks, GivesUp, Spawns, Minds, Ends, NeverBegins, JobActive
    <3> QED
      BY <3>1, <3>2, <3>3
  <2> QED
    BY <1>1, <1>2, <1>5, <2>2, <2>3, OneRunMoves
<1> QED
  BY <1>6, <1>7, <1>8, <1>9, <1>10, <1>11, <1>12, <1>13, <1>14 DEF IInv, TaskPart

\* A task that an earlier opening has left starts, makes a worker or ends: it
\* serves no job of this opening.
LEMMA LeftStep ==
    ASSUME IInv, NEW r \in Run, LeftTask(r)
    PROVE  IInv'
<1>0. TypeOK /\ RunsNumbered /\ TaskPart /\ OpPart
  BY DEF IInv
<1>1. /\ run[r].st = "left" /\ UNCHANGED <<job, changed, lock, handle, op, owned, agent, session, env>>
  BY DEF LeftTask, LeftStarts, LeftSpawns, LeftEnds, control
<1>2. \A s \in Run : s # r => ~TaskActive(s) /\ ~Live(s) /\ ~Serves(s)
  BY <1>0, <1>1 DEF TaskPart, SingleTask, OneWorker, TaskActive, Serves, Work, Fresh
<1>3. ~Serves(r)
  BY <1>1 DEF Serves, Work, Fresh
<1>4. CASE LeftStarts(r)
  <2>1. run' = run /\ proc' = proc /\ journal' = [journal EXCEPT ![r].started = TRUE]
    BY <1>4 DEF LeftStarts
  <2>2. /\ journal' \in [Run -> JournalRow] /\ journal'[r].started = TRUE
        /\ journal'[r].completed = journal[r].completed
        /\ \A s \in Run : s # r => journal'[s] = journal[s]
    BY <1>0, <2>1, Fields DEF JournalRow
  <2>3. TypeOK'
    BY <1>0, <1>1, <2>1, <2>2 DEF TypeOK, JournalRow
  <2>4. SingleTask' /\ TaskServesJob' /\ EventClear' /\ JobServed' /\ OneWorker' /\ RunsNumbered'
    BY <1>0, <1>1, <2>1 DEF TaskPart, SingleTask, TaskServesJob, EventClear, JobServed, OneWorker, RunsNumbered,
       Used, Retrying, TaskActive, Serves, Stranded, Live, JobActive
  <2>5. JournalFollows'
    BY <1>0, <1>1, <2>1, <2>2 DEF TaskPart, JournalFollows, JournalOf, TaskActive
  <2>6. OpPart'
    BY <1>0, <1>1, <2>1 DEF OpPart, LockHeld, StopMarks, CancelsMeet, Gathers, CancelPart, Phase, Owns,
       OwnedRetry, ShutStops, Used, TaskActive, JobActive
  <2> QED
    BY <2>3, <2>4, <2>5, <2>6 DEF IInv, TaskPart
<1>5. CASE LeftSpawns(r)
  <2>1. run' = run /\ journal' = journal /\ proc' = [proc EXCEPT ![r] = "live"]
    BY <1>5 DEF LeftSpawns
  <2>2. proc' \in [Run -> ProcState] /\ \A s \in Run : s # r => proc'[s] = proc[s]
    BY <1>0, <2>1, Fields DEF ProcState
  <2>3. TypeOK'
    BY <1>0, <1>1, <2>1, <2>2 DEF TypeOK, ProcState
  <2>4. SingleTask' /\ TaskServesJob' /\ EventClear' /\ JobServed' /\ JournalFollows' /\ RunsNumbered'
    BY <1>0, <1>1, <2>1 DEF TaskPart, SingleTask, TaskServesJob, EventClear, JobServed, JournalFollows, JournalOf,
       RunsNumbered, Used, Retrying, TaskActive, Serves, Stranded, JobActive
  <2>5. OneWorker'
    BY <1>1, <1>2, <2>1, <2>2 DEF OneWorker, Live, TaskActive
  <2>6. OpPart'
    BY <1>0, <1>1, <2>1 DEF OpPart, LockHeld, StopMarks, CancelsMeet, Gathers, CancelPart, Phase, Owns,
       OwnedRetry, ShutStops, Used, TaskActive, JobActive
  <2> QED
    BY <2>3, <2>4, <2>5, <2>6 DEF IInv, TaskPart
<1>6. CASE LeftEnds(r)
  <2> DEFINE gone == [Over EXCEPT !.st = "gone"]
  <2>1. /\ run' = [run EXCEPT ![r] = gone] /\ (journal[r].started \/ run[r].cancel)
        /\ \E p \in {"none", "lost"} : proc' = [proc EXCEPT ![r] = p]
        /\ journal' = [journal EXCEPT ![r].completed = IF journal[r].started THEN @ + 1 ELSE @]
    BY <1>6 DEF LeftEnds
  <2>2. gone \in RunRow /\ gone.st = "gone" /\ gone.cancel = FALSE
    BY OverFields DEF RunRow, TaskState, Over
  <2> HIDE DEF gone
  <2>3. /\ run' \in [Run -> RunRow] /\ run'[r].st = "gone" /\ run'[r].cancel = FALSE
        /\ \A s \in Run : s # r => run'[s] = run[s]
    BY <1>0, <2>1, <2>2, Fields
  <2>4. /\ proc' \in [Run -> ProcState] /\ ~Live(r)' /\ \A s \in Run : s # r => proc'[s] = proc[s]
    BY <1>0, <2>1, Fields DEF ProcState, Live
  <2>5. journal[r] \in JournalRow /\ journal[r].completed + 1 \in Nat
    BY <1>0, Fields DEF JournalRow
  <2>6. /\ journal' \in [Run -> JournalRow] /\ journal'[r].started = journal[r].started
        /\ journal'[r].completed = (IF journal[r].started THEN journal[r].completed + 1 ELSE journal[r].completed)
        /\ \A s \in Run : s # r => journal'[s] = journal[s]
    BY <1>0, <2>1, <2>5, Fields DEF JournalRow
  <2>7. TypeOK'
    BY <1>0, <1>1, <2>3, <2>4, <2>6 DEF TypeOK, RunRow, ProcState, JournalRow
  <2>8. RunsNumbered'
    <3>1. Used' = Used
      BY <1>1, <2>3 DEF Used
    <3> QED
      BY <1>0, <1>1, <3>1 DEF RunsNumbered, Retrying
  <2>9. \A s \in Run : /\ ~TaskActive(s)' /\ ~Serves(s)' /\ ~Live(s)' /\ ~run'[s].cancel
                       /\ run'[s].st # "left"
    BY <1>0, <1>2, <2>3, <2>4 DEF TaskActive, Serves, Live, Work, Fresh, TaskPart, SingleTask
  <2>10. SingleTask' /\ TaskServesJob' /\ EventClear' /\ OneWorker'
    BY <1>0, <1>1, <2>9 DEF SingleTask, TaskServesJob, EventClear, OneWorker, Serves, TaskPart, JobActive
  <2>11. JobServed'
    BY <1>0, <1>1, <1>2, <1>3, <2>3 DEF TaskPart, JobServed, Stranded, JobActive
  <2>12. JournalFollows'
    <3>1. journal[r].completed \in {0, 1} /\ session # "down"
      BY <1>0, <1>1, Fields DEF TaskPart, JournalFollows, JournalOf, TaskActive
    <3> QED
      BY <1>0, <1>1, <1>2, <2>3, <2>6, <3>1 DEF TaskPart, JournalFollows, JournalOf, TaskActive
  <2>13. OpPart'
    <3>1. TaskActive(r) /\ run'[r].st \notin Fresh
      BY <1>1, <2>3 DEF TaskActive, Fresh
    <3> QED
      BY <1>1, <2>3, <3>1, OneRunMoves
  <2> QED
    BY <2>7, <2>8, <2>10, <2>11, <2>12, <2>13 DEF IInv, TaskPart
<1> QED
  BY <1>4, <1>5, <1>6 DEF LeftTask

-----------------------------------------------------------------------------
(* New runs *)

\* The runs in use and the retries asked for are counted.
LEMMA Counted ==
    ASSUME TypeOK, RunsNumbered
    PROVE  /\ Cardinality(Used) \in 0 .. MaxRuns /\ Used = 1 .. Cardinality(Used)
           /\ IsFiniteSet(Retrying) /\ Cardinality(Retrying) \in Nat
           /\ \A c \in Retrying : Cardinality(Retrying) >= 1
<1>1. PICK n \in 0 .. MaxRuns : Used = 1 .. n
  BY DEF RunsNumbered
<1>2. Cardinality(Used) = n
  BY <1>1, FS_Interval, ControlAssumption
<1>3. IsFiniteSet(Client)
  <2>1. IsFiniteSet({} \union {"socket"})
    BY FS_EmptySet, FS_AddElement
  <2>2. IsFiniteSet(({} \union {"socket"}) \union {"author"})
    BY <2>1, FS_AddElement
  <2>3. Client = ({} \union {"socket"}) \union {"author"}
    BY DEF Client
  <2> QED
    BY <2>2, <2>3
<1>4. IsFiniteSet(Retrying) /\ Cardinality(Retrying) \in Nat
  <2>1. Retrying \subseteq Client
    BY DEF Retrying
  <2> QED
    BY <1>3, <2>1, FS_Subset, FS_CardinalityType
<1>5. ASSUME NEW c \in Retrying PROVE Cardinality(Retrying) >= 1
  <2>1. Cardinality(Retrying) # 0
    BY <1>4, <1>5, FS_EmptySet
  <2> QED
    BY <1>4, <2>1
<1> QED
  BY <1>1, <1>2, <1>4, <1>5

\* The next run has a number that no task, journal entry or cancel knows.
LEMMA NextIsFresh ==
    ASSUME TypeOK, RunsNumbered, Cardinality(Used) < MaxRuns
    PROVE  /\ NextRun \in Run /\ run[NextRun].st = "none" /\ NextRun # 0
           /\ Used \union {NextRun} = 1 .. NextRun
           /\ NextRun \in 0 .. MaxRuns /\ Cardinality(1 .. NextRun) = Cardinality(Used) + 1
<1>1. Cardinality(Used) \in 0 .. MaxRuns /\ Used = 1 .. Cardinality(Used)
  BY Counted
<1>2. NextRun \in 1 .. MaxRuns /\ NextRun = Cardinality(Used) + 1
  BY <1>1, ControlAssumption DEF NextRun
<1>3. NextRun \notin Used
  BY <1>1, <1>2
<1>4. Used \union {NextRun} = 1 .. NextRun
  BY <1>1, <1>2
<1>5. Cardinality(1 .. NextRun) = NextRun
  BY <1>2, FS_Interval
<1> QED
  BY <1>2, <1>3, <1>4, <1>5 DEF Run, Used

\* Scheduling makes one new task, beside no other, and that no cancel owns.
LEMMA NewTask ==
    ASSUME IInv, ~RunActive, Cardinality(Used) < MaxRuns,
           NEW kind \in Kinds \union {"none"}, NEW id \in 0 .. MaxRuns, NEW retry \in BOOLEAN,
           run' = [run EXCEPT ![NextRun] = Scheduled(kind, id, retry)]
    PROVE  /\ run' \in [Run -> RunRow] /\ NextRun \in Run /\ NextRun # 0
           /\ \A k \in Canceller : NextRun \notin owned[k]
           /\ run'[NextRun].st = "sched" /\ run'[NextRun].job = id
           /\ run'[NextRun].retry = retry /\ run'[NextRun].cancel = FALSE
           /\ \A s \in Run : s # NextRun => run'[s] = run[s] /\ run[s].st \in {"none", "done", "gone"}
           /\ \A s \in Run : ~Live(s) /\ ~TaskActive(s) /\ ~run[s].cancel
           /\ ~journal[NextRun].started /\ journal[NextRun].completed = 0
           /\ (\E n \in 0 .. MaxRuns : Used' = 1 .. n) /\ Cardinality(Used') = Cardinality(Used) + 1
           /\ Used \subseteq Used'
<1>1. /\ NextRun \in Run /\ run[NextRun].st = "none" /\ NextRun # 0
      /\ Used \union {NextRun} = 1 .. NextRun
      /\ NextRun \in 0 .. MaxRuns /\ Cardinality(1 .. NextRun) = Cardinality(Used) + 1
  BY NextIsFresh DEF IInv
<1>2. Scheduled(kind, id, retry) \in RunRow
  BY DEF Scheduled, RunRow, TaskState
<1>3. /\ run' \in [Run -> RunRow] /\ run'[NextRun] = Scheduled(kind, id, retry)
      /\ \A s \in Run : s # NextRun => run'[s] = run[s]
  BY <1>1, <1>2, Fields DEF IInv
<1>4. /\ run'[NextRun].st = "sched" /\ run'[NextRun].job = id
      /\ run'[NextRun].retry = retry /\ run'[NextRun].cancel = FALSE
  BY <1>3 DEF Scheduled
<1>5. \A s \in Run : run[s].st \in {"none", "done", "gone"} /\ ~Live(s) /\ ~TaskActive(s) /\ ~run[s].cancel
  BY DEF RunActive, TaskActive, IInv, TaskPart, OneWorker, SingleTask
<1>6. Used' = 1 .. NextRun
  BY <1>1, <1>3, <1>4 DEF Used
<1>7. \A k \in Canceller : NextRun \notin owned[k]
  BY <1>1 DEF IInv, OpPart, CancelPart, Owns, Used
<1>8. ~journal[NextRun].started /\ journal[NextRun].completed = 0
  BY <1>1 DEF IInv, TaskPart, JournalFollows, JournalOf
<1>9. Cardinality(Used') = Cardinality(Used) + 1 /\ Used \subseteq Used'
  BY <1>1, <1>6
<1> QED
  BY <1>1, <1>3, <1>4, <1>5, <1>6, <1>7, <1>8, <1>9

\* What the invariant says of the cancels does not change with a new task in an
\* open session.
LEMMA CancelsIgnoreNew ==
    ASSUME IInv, session = "open", session' = session, owned' = owned, NEW n \in Run,
           \A k \in Canceller : op'[k] = op[k], \A k \in Canceller : n \notin owned[k],
           run'[n].st = "sched", ~run'[n].cancel, Used \subseteq Used',
           \A s \in Run : s # n => run'[s] = run[s] /\ run[s].st \in {"none", "done", "gone"},
           \A s \in Run : ~run[s].cancel
    PROVE  CancelsMeet' /\ \A k \in Canceller : CancelPart(k)'
<1>1. ASSUME NEW k \in Canceller PROVE CancelPart(k)'
  <2>0. Phase(k) /\ Owns(k) /\ op'[k] = op[k] /\ n \notin owned[k] /\ op[k].act # "shut"
    BY DEF IInv, OpPart, CancelPart, Phase
  <2>1. Phase(k)' /\ ShutStops(k)'
    BY <2>0 DEF Phase, ShutStops
  <2>2. OwnedRetry(k)'
    BY <2>0 DEF OwnedRetry
  <2>3. Owns(k)'
    BY <2>0 DEF Owns, TaskActive
  <2> QED
    BY <2>1, <2>2, <2>3 DEF CancelPart
<1>2. CancelsMeet'
  <2>1. \A s \in Run : ~run'[s].cancel
    OBVIOUS
  <2> QED
    BY <2>1 DEF IInv, OpPart, CancelsMeet
<1> QED
  BY <1>1, <1>2

\* The author starts a workflow, also beside a close.
LEMMA ScheduleStep ==
    ASSUME IInv, NEW kind \in Kinds, Schedule(kind)
    PROVE  IInv'
<1>1. /\ session = "open" /\ RunsLeft /\ ~RunActive
      /\ run' = [run EXCEPT ![NextRun] = Scheduled(kind, NextRun, FALSE)]
      /\ UNCHANGED <<job, changed, lock, handle, proc, journal, op, owned, agent, session, env>>
  BY DEF Schedule, control
<1>2. /\ Cardinality(Used) \in 0 .. MaxRuns /\ Cardinality(Retrying) \in Nat
      /\ Cardinality(Used) + Cardinality(Retrying) < MaxRuns
  BY <1>1, Counted DEF IInv, RunsLeft
<1>3. Cardinality(Used) < MaxRuns /\ NextRun \in 0 .. MaxRuns
  BY <1>2, ControlAssumption, NextIsFresh DEF IInv
<1>4. PICK n \in Run :
      /\ run' \in [Run -> RunRow] /\ \A k \in Canceller : n \notin owned[k]
      /\ run'[n].st = "sched" /\ run'[n].job = n /\ run'[n].retry = FALSE /\ run'[n].cancel = FALSE
      /\ \A s \in Run : s # n => run'[s] = run[s] /\ run[s].st \in {"none", "done", "gone"}
      /\ \A s \in Run : ~Live(s) /\ ~TaskActive(s) /\ ~run[s].cancel
      /\ ~journal[n].started /\ journal[n].completed = 0
      /\ (\E m \in 0 .. MaxRuns : Used' = 1 .. m) /\ Cardinality(Used') = Cardinality(Used) + 1
      /\ Used \subseteq Used'
  BY <1>1, <1>3, NewTask
<1>5. \A s \in Run : ~Serves(s) /\ ~Serves(s)' /\ ~Live(s)' /\ run'[s].st \notin Work
  BY <1>1, <1>4 DEF Serves, Work, Fresh, Live, TaskActive
<1>6. TypeOK'
  BY <1>1, <1>4 DEF IInv, TypeOK, RunRow
<1>7. RunsNumbered'
  <2>1. Retrying' = Retrying
    BY <1>1 DEF Retrying
  <2>2. Cardinality(Used') + Cardinality(Retrying') <= MaxRuns
    BY <1>2, <1>4, <2>1, ControlAssumption
  <2> QED
    BY <1>1, <1>4, <2>2 DEF IInv, RunsNumbered
<1>8. SingleTask'
  BY <1>4 DEF SingleTask, TaskActive
<1>9. TaskServesJob' /\ EventClear' /\ OneWorker'
  BY <1>1, <1>5 DEF IInv, TaskPart, TaskServesJob, EventClear, OneWorker, JobActive
<1>10. JobServed'
  BY <1>1, <1>4, <1>5 DEF IInv, TaskPart, JobServed, Stranded, JobActive
<1>11. JournalFollows'
  <2>1. ASSUME NEW s \in Run, s # n PROVE JournalOf(s)'
    BY <1>1, <1>4, <2>1 DEF IInv, TaskPart, JournalFollows, JournalOf, TaskActive
  <2>2. session' = "open" /\ run'[n].st = "sched" /\ ~journal'[n].started /\ journal'[n].completed = 0
    BY <1>1, <1>4
  <2>3. JournalOf(n)'
    BY <2>2 DEF JournalOf
  <2> QED
    BY <2>1, <2>3 DEF JournalFollows
<1>12. LockHeld' /\ StopMarks'
  BY <1>1, <1>4 DEF IInv, OpPart, LockHeld, StopMarks, Fresh
<1>13. CancelsMeet' /\ \A k \in Canceller : CancelPart(k)'
  BY <1>1, <1>4, CancelsIgnoreNew
<1> QED
  BY <1>6, <1>7, <1>8, <1>9, <1>10, <1>11, <1>12, <1>13 DEF IInv, TaskPart, OpPart

-----------------------------------------------------------------------------
(* Steps that leave the tasks where they are *)

OpRow == [pc : {"idle", "owned", "lock", "handle", "kill", "changed", "interrupt",
                "gather", "retire", "stop"},
          act : {"none", "stop", "retry", "cancel", "close", "shut"},
          job : 0 .. MaxRuns, target : 0 .. MaxRuns, end : {"ok", "raise", "stale"}]
EnvRow == [kinds : SUBSET Kinds, stops : Nat, cancels : Nat, faults : Nat]

\* Every task stands where it stood, for the same job; workers may only end.
TasksStand ==
    /\ \A r \in Run : /\ run'[r].st = run[r].st /\ run'[r].job = run[r].job
                      /\ run'[r].retry = run[r].retry /\ journal'[r] = journal[r]
                      /\ run'[r].cancel => TaskActive(r)
                      /\ Live(r)' => Live(r)
    /\ changed' = changed /\ handle' = handle
    /\ job'.id = job.id /\ JobActive' = JobActive /\ (job.stop => job'.stop)
    /\ job'.id = 0 => job'.status = job.status

\* As long as the tasks stand where they stood, what the invariant says of them
\* goes on to hold.
LEMMA TasksKept ==
    ASSUME TypeOK, TaskPart, TasksStand, session = "down" <=> session' = "down"
    PROVE  TaskPart'
<1>1. \A r \in Run : TaskActive(r)' = TaskActive(r) /\ Serves(r)' = Serves(r)
  BY DEF TasksStand, TaskActive, Serves
<1>2. SingleTask' /\ TaskServesJob' /\ EventClear'
  BY <1>1 DEF TasksStand, TaskPart, SingleTask, TaskServesJob, EventClear
<1>3. JobServed'
  BY <1>1 DEF TasksStand, TaskPart, JobServed, Stranded
<1>4. OneWorker'
  BY <1>1 DEF TasksStand, TaskPart, OneWorker
<1>5. JournalFollows'
  BY <1>1 DEF TasksStand, TaskPart, JournalFollows, JournalOf
<1> QED
  BY <1>2, <1>3, <1>4, <1>5 DEF TaskPart

\* The fields of a request.
LEMMA OpFields ==
    ASSUME TypeOK
    PROVE  /\ op \in [Op -> OpRow] /\ \A o \in Op : op[o] \in OpRow
           /\ \A o \in Op : op[o].job \in 0 .. MaxRuns /\ op[o].target \in 0 .. MaxRuns
           /\ env \in EnvRow /\ owned \in [Canceller -> SUBSET (0 .. MaxRuns)]
  BY DEF TypeOK, OpRow, EnvRow

LEMMA IdleFields ==
    /\ Idle \in OpRow /\ Idle.pc = "idle" /\ Idle.act = "none" /\ Idle.job = 0
    /\ Idle.target = 0 /\ Idle.end = "ok"
<1>1. 0 \in 0 .. MaxRuns
  BY ControlAssumption
<1> QED
  BY <1>1 DEF Idle, OpRow

\* Who asks: the clients, and the cancels, which are none of them.
LEMMA OpNames ==
    /\ "socket" \in Op /\ "author" \in Op /\ "free" \notin Op /\ Client = {"socket", "author"}
    /\ Canceller \subseteq Op /\ Client \subseteq Op /\ Op = Client \union Canceller
    /\ \A k \in Canceller : k # "socket" /\ k # "author" /\ k \notin Client
  BY ControlAssumption DEF Op, Client

\* Where no request to retry is added, the runs stay numbered.
LEMMA RunsKept ==
    ASSUME IInv, \A r \in Run : run'[r].st = run[r].st, Retrying' \subseteq Retrying
    PROVE  RunsNumbered'
<1>1. Used' = Used
  BY DEF Used
<1>2. /\ Cardinality(Used) \in 0 .. MaxRuns /\ IsFiniteSet(Retrying) /\ Cardinality(Retrying) \in Nat
  BY Counted DEF IInv
<1>3. IsFiniteSet(Retrying') /\ Cardinality(Retrying') <= Cardinality(Retrying)
  BY <1>2, FS_Subset
<1>4. Cardinality(Retrying') \in Nat
  BY <1>3, FS_CardinalityType
<1>5. Cardinality(Used') + Cardinality(Retrying') <= MaxRuns
  BY <1>1, <1>2, <1>3, <1>4, ControlAssumption DEF IInv, RunsNumbered
<1> QED
  BY <1>1, <1>5 DEF IInv, RunsNumbered

\* A request keeps its place, whatever it remembers of its end.
SamePlace(p) == op'[p].pc = op[p].pc /\ op'[p].act = op[p].act /\ op'[p].job = op[p].job

\* What the invariant says of a cancel that keeps its place goes on to hold.
LEMMA CancelKept ==
    ASSUME TypeOK, NEW k \in Canceller, CancelPart(k), TasksStand, SamePlace(k),
           owned'[k] \subseteq owned[k], \A r \in Run : r \in owned'[k] <=> r \in owned[k],
           op[k].act = "shut" => session' = session
    PROVE  CancelPart(k)'
<1>1. /\ Used' = Used
      /\ \A r \in Run : TaskActive(r)' = TaskActive(r) /\ run'[r].st = run[r].st /\ run'[r].retry = run[r].retry
  BY DEF TasksStand, Used, TaskActive
<1>2. /\ job'.id = job.id /\ JobActive' = JobActive /\ (job.stop => job'.stop)
      /\ handle' = handle /\ changed' = changed
  BY DEF TasksStand
<1>3. Phase(k)'
  BY DEF CancelPart, Phase, SamePlace
<1>4. Owns(k)'
  BY <1>1 DEF CancelPart, Owns, SamePlace
<1>5. OwnedRetry(k)'
  BY <1>1, <1>2 DEF CancelPart, OwnedRetry, SamePlace
<1>6. ShutStops(k)'
  BY <1>1, <1>2 DEF CancelPart, ShutStops, SamePlace
<1> QED
  BY <1>3, <1>4, <1>5, <1>6 DEF CancelPart

\* Where no task is cancelled, none waited for is given up and no close comes to
\* shut, the cancels go on to meet.
LEMMA MeetKept ==
    ASSUME IInv, \A r \in Run : run'[r].cancel = run[r].cancel /\ run'[r].st = run[r].st,
           \A k \in Canceller : /\ op'[k].act = "shut" => op[k].act = "shut"
                                /\ \A r \in Run : Gathers(k, r) => Gathers(k, r)'
    PROVE  CancelsMeet'
  BY DEF IInv, OpPart, CancelsMeet

\* What a request that moves must show: others keep their place or are ended.
LEMMA RequestMoves ==
    ASSUME IInv, NEW o \in Op, op' \in [Op -> OpRow], lock' \in Op \union {"free"},
           \A p \in Op \ {o} : SamePlace(p) \/ (p \in Client /\ op'[p] = Idle),
           \A p \in Op : lock' = p <=> op'[p].pc \in Holding,
           op'[o].pc \in Holding => op'[o].job # 0 /\ (job'.stop \/ op[o].pc \in Holding),
           TasksStand, run' \in [Run -> RunRow], job' \in JobRow, proc' \in [Run -> ProcState],
           journal' = journal, env' \in EnvRow, owned' \in [Canceller -> SUBSET (0 .. MaxRuns)],
           agent' \in {"off", "on", "ending", "left", "leaving"},
           session' \in {"open", "popped", "closed", "abandoned", "down"},
           session = "down" <=> session' = "down",
           \A k \in Canceller \ {o} : owned'[k] = owned[k] /\ (op[k].act = "shut" => session' = session),
           o \in Canceller => CancelPart(o)', RunsNumbered', CancelsMeet'
    PROVE  IInv'
<1>0. TypeOK /\ TaskPart /\ OpPart
  BY DEF IInv
<1>1. TypeOK'
  BY <1>0 DEF TypeOK, TasksStand, OpRow, RunRow, JobRow, ProcState, EnvRow
<1>2. TaskPart'
  BY <1>0, TasksKept
<1>3. LockHeld'
  <2>1. ASSUME NEW p \in Op, op'[p].pc \in Holding PROVE op'[p].job # 0
    BY <1>0, <2>1, IdleFields DEF OpPart, LockHeld, SamePlace, Holding
  <2> QED
    BY <2>1 DEF LockHeld
<1>4. StopMarks'
  <2>1. ASSUME NEW p \in Op, op'[p].pc \in Holding PROVE job'.stop \/ op[p].pc \in Holding
    BY <2>1, IdleFields DEF SamePlace, Holding
  <2> QED
    BY <1>0, <2>1 DEF OpPart, StopMarks, TasksStand
<1>5. ASSUME NEW k \in Canceller, k # o PROVE CancelPart(k)'
  <2>1. SamePlace(k)
    BY <1>5, OpNames
  <2> QED
    BY <1>0, <1>5, <2>1, CancelKept DEF OpPart
<1> QED
  BY <1>1, <1>2, <1>3, <1>4, <1>5 DEF IInv, OpPart

\* A worker ends by itself.
LEMMA ExitStep ==
    ASSUME IInv, NEW r \in Run, Exit(r)
    PROVE  IInv'
<1>0. TypeOK /\ TaskPart /\ OpPart
  BY DEF IInv
<1>1. /\ UNCHANGED <<job, changed, lock, handle, run, journal, op, owned, agent, session, env>>
      /\ proc' \in [Run -> ProcState] /\ proc'[r] \in {"none", "ok", "bad"}
      /\ \A s \in Run : s # r => proc'[s] = proc[s]
  BY <1>0, Fields DEF Exit, control, ProcState
<1>2. TypeOK'
  BY <1>0, <1>1 DEF TypeOK, ProcState
<1>3. TasksStand
  BY <1>0, <1>1 DEF TasksStand, Live, JobActive, TaskPart, SingleTask
<1>4. TaskPart'
  BY <1>0, <1>1, <1>3, TasksKept
<1>5. RunsNumbered'
  BY <1>1 DEF IInv, RunsNumbered, Used, Retrying
<1>6. LockHeld' /\ StopMarks' /\ CancelsMeet'
  BY <1>0, <1>1 DEF OpPart, LockHeld, StopMarks, CancelsMeet, Gathers
<1>7. ASSUME NEW k \in Canceller PROVE CancelPart(k)'
  <2>1. SamePlace(k)
    BY <1>1 DEF SamePlace
  <2> QED
    BY <1>0, <1>1, <1>3, <2>1, CancelKept DEF OpPart
<1> QED
  BY <1>2, <1>4, <1>5, <1>6, <1>7 DEF IInv, OpPart

\* A turn of the agent begins or ends.
LEMMA AgentSteps ==
    ASSUME IInv, StartAgent \/ EndAgent
    PROVE  IInv'
<1>0. TypeOK /\ TaskPart /\ OpPart /\ owned \in [Canceller -> SUBSET (0 .. MaxRuns)]
  BY OpFields DEF IInv
<1>1. /\ UNCHANGED <<job, changed, lock, handle, run, proc, journal, op, session, env>>
      /\ agent' \in {"off", "on"}
      /\ owned' = owned \/ owned' = [k \in Canceller |-> owned[k] \ {0}]
  BY DEF StartAgent, EndAgent, control
<1>2. /\ owned' \in [Canceller -> SUBSET (0 .. MaxRuns)]
      /\ \A k \in Canceller : owned'[k] \subseteq owned[k] /\ \A r \in Run : r \in owned'[k] <=> r \in owned[k]
  BY <1>0, <1>1 DEF Run
<1>3. TypeOK'
  BY <1>0, <1>1, <1>2 DEF TypeOK
<1>4. TasksStand
  BY <1>0, <1>1 DEF TasksStand, Live, JobActive, TaskPart, SingleTask
<1>5. TaskPart'
  BY <1>0, <1>1, <1>4, TasksKept
<1>6. RunsNumbered'
  BY <1>1 DEF IInv, RunsNumbered, Used, Retrying
<1>7. LockHeld' /\ StopMarks'
  BY <1>0, <1>1 DEF OpPart, LockHeld, StopMarks
<1>8. CancelsMeet'
  BY <1>1, <1>2, MeetKept DEF Gathers
<1>9. ASSUME NEW k \in Canceller PROVE CancelPart(k)'
  <2>1. SamePlace(k)
    BY <1>1 DEF SamePlace
  <2> QED
    BY <1>0, <1>1, <1>2, <1>4, <2>1, CancelKept DEF OpPart
<1> QED
  BY <1>3, <1>5, <1>6, <1>7, <1>8, <1>9 DEF IInv, OpPart

-----------------------------------------------------------------------------
(* stop and retry *)

\* A request that returns gives the lock back.  The stop of a cancel returns
\* only when a retry that it owns and that has not begun was stopped against an
\* earlier worker; that of a close ends it, with all it owned over.
LEMMA ReturnStep ==
    ASSUME IInv, NEW o \in Op, NEW normally \in BOOLEAN, Return(o, normally),
           op[o].pc \in {"lock", "stop"} \union Holding,
           lock' = IF op[o].pc \in Holding THEN "free" ELSE lock,
           UNCHANGED <<job, changed, handle, run, proc, journal, owned, agent, env>>,
           o \in Canceller => \A r \in Run : run[r].st = "sched" /\ run[r].retry /\ r \in owned[o] =>
                                  job.stop /\ handle # 0 /\ changed
    PROVE  IInv'
<1>0. /\ TypeOK /\ TaskPart /\ OpPart /\ op \in [Op -> OpRow] /\ op[o] \in OpRow
      /\ env \in EnvRow /\ owned \in [Canceller -> SUBSET (0 .. MaxRuns)]
  BY OpFields DEF IInv
<1>1. /\ \A p \in Op : p # o => op'[p] = op[p]
      /\ op' \in [Op -> OpRow] /\ op'[o].act # "shut" /\ op'[o].act # "retry"
      /\ \/ o \in Client /\ session' = session /\ op'[o] = Idle
         \/ /\ o \in Canceller /\ op[o].act \in {"cancel", "close"} /\ session' = session
            /\ op'[o].pc = "interrupt" /\ op'[o].act = op[o].act
         \/ /\ o \in Canceller /\ op[o].act = "shut" /\ op'[o] = Idle /\ session = "popped"
            /\ session' \in {"closed", "abandoned"}
  <2>1. CASE o \in Client
    <3>1. op' = [op EXCEPT ![o] = Idle] /\ session' = session
      BY <2>1 DEF Return
    <3> QED
      BY <1>0, <2>1, <3>1, IdleFields
  <2>2. CASE o \notin Client /\ op[o].act # "shut"
    <3> DEFINE row == [Idle EXCEPT !.pc = "interrupt", !.act = op[o].act,
                                   !.end = IF normally THEN "ok" ELSE "raise"]
    <3>1. op' = [op EXCEPT ![o] = row] /\ session' = session
      BY <2>2 DEF Return
    <3>2. o \in Canceller /\ Phase(o)
      BY <1>0, <2>2, OpNames DEF OpPart, CancelPart
    <3>3. op[o].act \in {"cancel", "close"}
      BY <2>2, <3>2 DEF Phase, Holding
    <3>4. row \in OpRow /\ row.pc = "interrupt" /\ row.act = op[o].act
      BY <3>3, IdleFields DEF OpRow, Idle
    <3> HIDE DEF row
    <3> QED
      BY <1>0, <3>1, <3>2, <3>3, <3>4
  <2>3. CASE o \notin Client /\ op[o].act = "shut"
    <3>1. op' = [op EXCEPT ![o] = Idle] /\ session' = IF normally THEN "closed" ELSE "abandoned"
      BY <2>3 DEF Return
    <3>2. o \in Canceller /\ session = "popped"
      BY <1>0, <2>3, OpNames DEF OpPart, CancelPart, Phase
    <3> QED
      BY <1>0, <2>3, <3>1, <3>2, IdleFields
  <2> QED
    BY <2>1, <2>2, <2>3
<1>2. op'[o].pc \in {"idle", "interrupt"} /\ op'[o].pc \notin Holding
  BY <1>1, IdleFields DEF Holding
<1>3. RunsNumbered'
  <2>1. Retrying' \subseteq Retrying
    BY <1>1 DEF Retrying, Op
  <2> QED
    BY <2>1, RunsKept
<1>4. TasksStand
  BY <1>0 DEF TasksStand, Live, JobActive, TaskPart, SingleTask
<1>5. lock' \in Op \union {"free"} /\ \A p \in Op : lock' = p <=> op'[p].pc \in Holding
  <2>1. LockHeld /\ lock \in Op \union {"free"}
    BY <1>0 DEF OpPart, TypeOK
  <2> QED
    BY <1>1, <1>2, <2>1, OpNames DEF LockHeld
<1>6. CancelsMeet'
  <2>1. o \in Canceller => op[o].pc # "gather"
    BY DEF Holding
  <2> QED
    BY <1>1, <2>1, MeetKept, OpNames DEF Gathers
<1>7. ASSUME o \in Canceller PROVE CancelPart(o)'
  <2>0. Phase(o) /\ Owns(o) /\ o \notin Client
    BY <1>0, <1>7, OpNames DEF OpPart, CancelPart
  <2>1. CASE op[o].act # "shut"
    <3>1. op[o].act \in {"cancel", "close"} /\ op'[o].pc = "interrupt" /\ op'[o].act = op[o].act
      BY <1>1, <2>0, <2>1
    <3>2. Phase(o)' /\ ShutStops(o)'
      BY <3>1 DEF Phase, ShutStops
    <3>3. Owns(o)'
      BY <2>0, <3>1 DEF Owns, Used, TaskActive, Holding
    <3>4. OwnedRetry(o)'
      BY <1>7, <3>1 DEF OwnedRetry, Holding
    <3> QED
      BY <3>2, <3>3, <3>4 DEF CancelPart
  <2>2. CASE op[o].act = "shut"
    <3>1. op'[o].pc = "idle" /\ op'[o].act = "none"
      BY <1>1, <2>0, <2>2, IdleFields
    <3>2. Phase(o)' /\ ShutStops(o)'
      BY <3>1 DEF Phase, ShutStops
    <3>3. Owns(o)'
      BY <2>0, <2>2, <3>1 DEF Owns, Used, TaskActive
    <3>4. OwnedRetry(o)'
      BY <2>0, <2>2 DEF OwnedRetry, Owns, TaskActive
    <3> QED
      BY <3>2, <3>3, <3>4 DEF CancelPart
  <2> QED
    BY <2>1, <2>2
<1>8. \A k \in Canceller \ {o} : op[k].act = "shut" => session' = session
  BY <1>0, <1>1 DEF OpPart, CancelsMeet
<1>9. /\ session' \in {"open", "popped", "closed", "abandoned", "down"}
      /\ session = "down" <=> session' = "down"
      /\ agent' \in {"off", "on", "ending", "left", "leaving"}
      /\ run' \in [Run -> RunRow] /\ job' \in JobRow /\ proc' \in [Run -> ProcState]
  BY <1>0, <1>1, Fields DEF TypeOK
<1>10. \A p \in Op \ {o} : SamePlace(p)
  BY <1>1 DEF SamePlace
<1> QED
  BY <1>0, <1>1, <1>2, <1>3, <1>4, <1>5, <1>6, <1>7, <1>8, <1>9, <1>10, RequestMoves

\* What the stop of a cancel knows when it has a retry before it that it owns.
LEMMA OwnedRetryStands ==
    ASSUME IInv, NEW k \in Canceller, NEW r \in Run, run[r].st = "sched", run[r].retry, r \in owned[k]
    PROVE  /\ JobActive /\ run[r].job = job.id
           /\ \A s \in Run : run[s].st \notin Work \union {"approve"} /\ ~Live(s)
           /\ op[k].pc \in {"lock"} \union Holding => op[k].job = job.id
           /\ op[k].pc # "lock" => job.stop
           /\ op[k].pc \in {"kill", "changed"} => handle # 0
<1>0. TaskPart /\ OwnedRetry(k)
  BY DEF IInv, OpPart, CancelPart
<1>1. Serves(r) /\ TaskActive(r)
  BY DEF Serves, Fresh, TaskActive
<1>2. \A s \in Run : s # r => ~TaskActive(s)
  BY <1>0, <1>1 DEF TaskPart, SingleTask
<1>3. \A s \in Run : run[s].st \notin Work \union {"approve", "left"}
  BY <1>2 DEF TaskActive, Work
<1>4. \A s \in Run : ~Live(s)
  BY <1>0, <1>3 DEF TaskPart, OneWorker, Work
<1> QED
  BY <1>0, <1>1, <1>3, <1>4 DEF TaskPart, TaskServesJob, OwnedRetry

\* The job is not there or over: nothing to stop.
LEMMA StopIdleStep ==
    ASSUME IInv, NEW o \in Op, StopIdle(o)
    PROVE  IInv'
<1>1. /\ op[o].pc = "lock" /\ (job.id # op[o].job \/ ~JobActive) /\ Return(o, job.id = op[o].job)
      /\ UNCHANGED <<job, changed, lock, handle, run, proc, journal, owned, agent, env>>
  BY DEF StopIdle, AtStop, AtLock, OwnJob, control
<1>2. op[o].pc \notin Holding /\ (job.id = op[o].job) \in BOOLEAN
  BY <1>1 DEF Holding
<1>3. o \in Canceller => \A r \in Run : ~(run[r].st = "sched" /\ run[r].retry /\ r \in owned[o])
  BY <1>1, OwnedRetryStands
<1> QED
  BY <1>1, <1>2, <1>3, ReturnStep

\* A retry that is refused changes nothing.
LEMMA RetryRefusedStep ==
    ASSUME IInv, NEW o \in Op, RetryRefused(o)
    PROVE  IInv'
<1>1. /\ op[o].pc = "lock" /\ op[o].act = "retry" /\ Return(o, FALSE)
      /\ UNCHANGED <<job, changed, lock, handle, run, proc, journal, owned, agent, env>>
  BY DEF RetryRefused, AtRetry, AtLock, control
<1>2. o \notin Canceller /\ op[o].pc \notin Holding
  BY <1>1 DEF IInv, OpPart, CancelPart, Phase, Holding
<1> QED
  BY <1>1, <1>2, ReturnStep

\* A stop that returns normally found the event set, the job over or another in
\* its place.
LEMMA StopReturnsStep ==
    ASSUME IInv, NEW o \in Op, StopReturns(o)
    PROVE  IInv'
<1>1. /\ op[o].pc = "changed" /\ lock' = "free" /\ Return(o, TRUE)
      /\ (changed \/ job.id # op[o].job \/ ~JobActive)
      /\ UNCHANGED <<job, changed, handle, run, proc, journal, owned, agent, env>>
  BY DEF StopReturns, Woken, OwnJob
<1>2. op[o].pc \in Holding
  BY <1>1 DEF Holding
<1>3. o \in Canceller => \A r \in Run : run[r].st = "sched" /\ run[r].retry /\ r \in owned[o] =>
                             job.stop /\ handle # 0 /\ changed
  BY <1>1, <1>2, OwnedRetryStands
<1> QED
  BY <1>1, <1>2, <1>3, ReturnStep

\* A stop that times out has missed a worker.
LEMMA StopTimesOutStep ==
    ASSUME IInv, NEW o \in Op, StopTimesOut(o)
    PROVE  IInv'
<1>1. /\ op[o].pc = "changed" /\ lock' = "free" /\ Return(o, FALSE)
      /\ \E r \in Run : run[r].st = "spawn" \/ Live(r)
      /\ UNCHANGED <<job, changed, handle, run, proc, journal, owned, agent, env>>
  BY DEF StopTimesOut
<1>2. op[o].pc \in Holding
  BY <1>1 DEF Holding
<1>3. o \in Canceller => \A r \in Run : ~(run[r].st = "sched" /\ run[r].retry /\ r \in owned[o])
  BY <1>1, OwnedRetryStands DEF Work
<1> QED
  BY <1>1, <1>2, <1>3, ReturnStep

\* The four ways a stop goes on: it signals the worker it finds, finds the job
\* over, gives up waiting for a worker, or sees its worker dead.
LEMMA StopGoesOn ==
    ASSUME IInv, NEW o \in Op, StopKill(o) \/ StopUnneeded(o) \/ StopGivesUp(o) \/ StopKilled(o)
    PROVE  IInv'
<1>0. /\ TypeOK /\ TaskPart /\ OpPart /\ op \in [Op -> OpRow] /\ op[o] \in OpRow
      /\ handle \in 0 .. MaxRuns /\ lock \in Op \union {"free"}
      /\ env \in EnvRow /\ owned \in [Canceller -> SUBSET (0 .. MaxRuns)]
  BY OpFields DEF IInv, TypeOK
<1>1. op[o].pc \in {"handle", "kill"} /\ op[o].pc \in Holding
  BY DEF StopKill, StopUnneeded, StopGivesUp, StopKilled, Holding
<1>2. /\ UNCHANGED <<job, changed, lock, handle, run, journal, owned, agent, session>> /\ env' \in EnvRow
  <2>1. CASE StopGivesUp(o)
    <3>1. env' = [env EXCEPT !.faults = @ - 1] /\ env.faults > 0 /\ env.faults \in Nat
      BY <1>0, <2>1 DEF StopGivesUp, EnvRow
    <3> QED
      BY <1>0, <2>1, <3>1 DEF StopGivesUp, control, EnvRow
  <2>2. CASE ~StopGivesUp(o)
    BY <1>0, <2>2 DEF StopKill, StopUnneeded, StopKilled, control
  <2> QED
    BY <2>1, <2>2
<1>3. /\ op' \in [Op -> OpRow] /\ \A p \in Op : p # o => op'[p] = op[p]
      /\ op'[o].pc \in {"kill", "changed"} /\ op'[o].act = op[o].act /\ op'[o].job = op[o].job
  <2>1. CASE StopKill(o)
    <3>1. op' = [op EXCEPT ![o].pc = "kill", ![o].target = handle]
      BY <2>1 DEF StopKill
    <3> QED
      BY <1>0, <3>1 DEF OpRow
  <2>2. CASE StopUnneeded(o) \/ StopGivesUp(o)
    <3>1. op' = [op EXCEPT ![o].pc = "changed"]
      BY <2>2 DEF StopUnneeded, StopGivesUp
    <3> QED
      BY <1>0, <3>1 DEF OpRow
  <2>3. CASE StopKilled(o)
    <3>1. op' = [op EXCEPT ![o].pc = "changed", ![o].target = 0] /\ 0 \in 0 .. MaxRuns
      BY <2>3, ControlAssumption DEF StopKilled
    <3> QED
      BY <1>0, <3>1 DEF OpRow
  <2> QED
    BY <2>1, <2>2, <2>3
<1>4. proc' \in [Run -> ProcState] /\ \A r \in Run : Live(r)' => Live(r)
  <2>1. CASE StopKill(o)
    <3>1. Signal(handle) /\ handle \in Run
      BY <1>0, <2>1, ControlAssumption DEF StopKill, Run
    <3> QED
      BY <1>0, <3>1, Fields DEF Signal, Live, Lost, ProcState
  <2>2. CASE ~StopKill(o)
    <3>1. proc' = proc
      BY <2>2 DEF StopUnneeded, StopGivesUp, StopKilled
    <3> QED
      BY <1>0, <3>1, Fields DEF Live
  <2> QED
    BY <2>1, <2>2
<1>5. TasksStand
  BY <1>0, <1>2, <1>4 DEF TasksStand, JobActive, TaskPart, SingleTask
<1>6. op'[o].pc \in Holding /\ LockHeld
  BY <1>0, <1>3 DEF Holding, OpPart
<1>7. RunsNumbered'
  <2>1. Retrying' \subseteq Retrying
    BY <1>3 DEF Retrying, Op
  <2> QED
    BY <1>2, <2>1, RunsKept
<1>8. CancelsMeet'
  <2>1. op[o].pc # "gather"
    BY <1>1
  <2> QED
    BY <1>2, <1>3, <2>1, MeetKept, OpNames DEF Gathers
<1>9. ASSUME o \in Canceller PROVE CancelPart(o)'
  <2>0. Phase(o) /\ Owns(o) /\ OwnedRetry(o) /\ ShutStops(o)
    BY <1>0, <1>9 DEF OpPart, CancelPart
  <2>1. Phase(o)'
    BY <1>1, <1>2, <1>3, <1>6, <2>0 DEF Phase
  <2>2. Owns(o)'
    BY <1>1, <1>2, <1>3, <2>0 DEF Owns, Used, TaskActive
  <2>3. OwnedRetry(o)'
    <3>1. ASSUME NEW r \in Run, run[r].st = "sched", run[r].retry, r \in owned[o] PROVE handle # 0
      BY <1>1, <1>9, <3>1, OwnedRetryStands DEF StopKill, StopUnneeded, StopGivesUp, StopKilled, Work
    <3> QED
      BY <1>1, <1>2, <1>3, <1>6, <2>0, <3>1 DEF OwnedRetry
  <2>4. ShutStops(o)'
    BY <1>1, <1>2, <1>3, <2>0 DEF ShutStops, JobActive
  <2> QED
    BY <2>1, <2>2, <2>3, <2>4 DEF CancelPart
<1>10. \A p \in Op \ {o} : SamePlace(p)
  BY <1>3 DEF SamePlace
<1>11. \A p \in Op : lock' = p <=> op'[p].pc \in Holding
  BY <1>1, <1>2, <1>3, <1>6 DEF LockHeld
<1>12. op'[o].job # 0
  BY <1>1, <1>3, <1>6 DEF LockHeld
<1>13. run' \in [Run -> RunRow] /\ job' \in JobRow
  BY <1>0, <1>2, Fields
<1>14. agent' \in {"off", "on", "ending", "left", "leaving"}
       /\ session' \in {"open", "popped", "closed", "abandoned", "down"}
  BY <1>0, <1>2 DEF TypeOK
<1> QED
  BY <1>0, <1>1, <1>2, <1>3, <1>4, <1>5, <1>7, <1>8, <1>9, <1>10, <1>11, <1>12, <1>13, <1>14, RequestMoves

\* A stop takes the lock and marks the job.
LEMMA StopStep ==
    ASSUME IInv, NEW o \in Op, Stop(o)
    PROVE  IInv'
<1>0. /\ TypeOK /\ TaskPart /\ OpPart /\ op \in [Op -> OpRow] /\ op[o] \in OpRow /\ job \in JobRow
      /\ env \in EnvRow /\ owned \in [Canceller -> SUBSET (0 .. MaxRuns)]
  BY OpFields, Fields DEF IInv
<1>1. /\ op[o].pc = "lock" /\ lock = "free" /\ job.id = op[o].job /\ JobActive
      /\ lock' = o /\ job' = [job EXCEPT !.stop = TRUE, !.status = "stopping"]
      /\ op' = [op EXCEPT ![o].pc = "handle"]
      /\ UNCHANGED <<changed, handle, run, proc, journal, owned, agent, session, env>>
  BY DEF Stop, AtStop, AtLock, OwnJob
<1>2. job' \in JobRow /\ job'.id = job.id /\ job'.stop = TRUE /\ job'.status = "stopping"
  BY <1>0, <1>1 DEF JobRow, Running
<1>3. /\ op' \in [Op -> OpRow] /\ \A p \in Op : p # o => op'[p] = op[p]
      /\ op'[o].pc = "handle" /\ op'[o].act = op[o].act /\ op'[o].job = op[o].job
  BY <1>0, <1>1 DEF OpRow
<1>4. JobActive' /\ op'[o].pc \in Holding /\ op[o].pc \notin Holding
  BY <1>1, <1>2, <1>3 DEF JobActive, Running, Holding
<1>10. job.id # 0 /\ op'[o].job # 0
  BY <1>0, <1>1, <1>3 DEF TaskPart, TaskServesJob, JobActive, Running
<1>5. TasksStand
  BY <1>0, <1>1, <1>2, <1>4, <1>10 DEF TasksStand, Live, TaskPart, SingleTask
<1>6. RunsNumbered'
  <2>1. Retrying' \subseteq Retrying
    BY <1>3 DEF Retrying, Op
  <2> QED
    BY <1>1, <2>1, RunsKept
<1>7. CancelsMeet'
  <2>1. op[o].pc # "gather"
    BY <1>1
  <2> QED
    BY <1>1, <1>3, <2>1, MeetKept, OpNames DEF Gathers
<1>8. \A p \in Op : lock' = p <=> op'[p].pc \in Holding
  BY <1>0, <1>1, <1>3, <1>4, OpNames DEF OpPart, LockHeld
<1>9. ASSUME o \in Canceller PROVE CancelPart(o)'
  <2>0. Phase(o) /\ Owns(o) /\ OwnedRetry(o)
    BY <1>0, <1>9 DEF OpPart, CancelPart
  <2>1. Phase(o)'
    BY <1>1, <1>3, <1>4, <2>0 DEF Phase
  <2>2. Owns(o)'
    BY <1>1, <1>3, <2>0 DEF Owns, Used, TaskActive
  <2>3. OwnedRetry(o)'
    BY <1>1, <1>2, <1>3, <2>0 DEF OwnedRetry
  <2>4. ShutStops(o)'
    BY <1>1, <1>2, <1>3, <1>4 DEF ShutStops
  <2> QED
    BY <2>1, <2>2, <2>3, <2>4 DEF CancelPart
<1>11. \A p \in Op \ {o} : SamePlace(p)
  BY <1>3 DEF SamePlace
<1>12. /\ agent' \in {"off", "on", "ending", "left", "leaving"}
       /\ session' \in {"open", "popped", "closed", "abandoned", "down"}
       /\ run' \in [Run -> RunRow] /\ proc' \in [Run -> ProcState]
  BY <1>0, <1>1, Fields DEF TypeOK
<1> QED
  BY <1>0, <1>1, <1>2, <1>3, <1>5, <1>6, <1>7, <1>8, <1>9, <1>10, <1>11, <1>12, RequestMoves

\* A retry schedules a task for a job that nothing else serves.
LEMMA RetryStep ==
    ASSUME IInv, NEW o \in Op, Retry(o)
    PROVE  IInv'
<1>0. /\ TypeOK /\ TaskPart /\ OpPart /\ op \in [Op -> OpRow] /\ job \in JobRow
      /\ job.id \in 0 .. MaxRuns /\ job.kind \in Kinds \union {"none"}
  BY OpFields, Fields DEF IInv, JobRow
<1>1. /\ op[o].pc = "lock" /\ lock = "free" /\ op[o].act = "retry" /\ job.id = op[o].job
      /\ job.status \in {"failed", "stopped"} /\ ~RunActive /\ session = "open"
      /\ job' = [job EXCEPT !.stop = FALSE, !.status = "starting"]
      /\ run' = [run EXCEPT ![NextRun] = Scheduled(job.kind, job.id, TRUE)]
      /\ Return(o, TRUE)
      /\ UNCHANGED <<changed, lock, handle, proc, journal, owned, agent, env>>
  BY DEF Retry, AtRetry, AtLock, Retriable, OwnJob
<1>2. o \notin Canceller /\ o \in Client
  BY <1>0, <1>1, OpNames DEF OpPart, CancelPart, Phase
<1>3. op' = [op EXCEPT ![o] = Idle] /\ session' = session
  BY <1>1, <1>2 DEF Return
<1>4. op' \in [Op -> OpRow] /\ op'[o] = Idle /\ \A p \in Op : p # o => op'[p] = op[p]
  BY <1>0, <1>3, IdleFields
<1>5. /\ Retrying' = Retrying \ {o} /\ o \in Retrying
  BY <1>0, <1>1, <1>2, <1>4, IdleFields DEF Retrying, Op
<1>6. /\ Cardinality(Used) \in 0 .. MaxRuns /\ Cardinality(Retrying) \in Nat /\ Cardinality(Retrying) >= 1
      /\ Cardinality(Retrying') = Cardinality(Retrying) - 1
      /\ Cardinality(Used) + Cardinality(Retrying) <= MaxRuns
  BY <1>5, Counted, FS_RemoveElement DEF IInv, RunsNumbered
<1>7. Cardinality(Used) < MaxRuns
  BY <1>6, ControlAssumption
<1>8. PICK n \in Run :
      /\ run' \in [Run -> RunRow] /\ \A k \in Canceller : n \notin owned[k]
      /\ run'[n].st = "sched" /\ run'[n].job = job.id /\ run'[n].retry = TRUE /\ run'[n].cancel = FALSE
      /\ \A s \in Run : s # n => run'[s] = run[s] /\ run[s].st \in {"none", "done", "gone"}
      /\ \A s \in Run : ~Live(s) /\ ~TaskActive(s) /\ ~run[s].cancel
      /\ ~journal[n].started /\ journal[n].completed = 0
      /\ (\E m \in 0 .. MaxRuns : Used' = 1 .. m) /\ Cardinality(Used') = Cardinality(Used) + 1
      /\ Used \subseteq Used'
  BY <1>0, <1>1, <1>7, NewTask
<1>9. job' \in JobRow /\ job'.id = job.id /\ job'.stop = FALSE /\ job'.status = "starting"
  BY <1>0, <1>1 DEF JobRow, Running
<1>10. \A s \in Run : ~Live(s)' /\ run'[s].st \notin Work
  BY <1>1, <1>8 DEF Live, Work
<1>11. TypeOK'
  BY <1>0, <1>1, <1>3, <1>4, <1>8, <1>9 DEF TypeOK, RunRow, JobRow, OpRow
<1>12. RunsNumbered'
  <2>1. Cardinality(Used') + Cardinality(Retrying') <= MaxRuns
    BY <1>6, <1>8, ControlAssumption
  <2> QED
    BY <1>8, <2>1 DEF RunsNumbered
<1>13. SingleTask'
  BY <1>8 DEF SingleTask, TaskActive
<1>14. TaskServesJob' /\ JobServed'
  <2>1. Serves(n)' /\ \A s \in Run : s # n => ~Serves(s)'
    BY <1>8 DEF Serves, Work, Fresh
  <2>2. job.id # 0
    BY <1>0, <1>1 DEF TaskPart, TaskServesJob
  <2>3. \A s \in Run : run'[s].st # "left"
    BY <1>8
  <2> QED
    BY <1>8, <1>9, <2>1, <2>2, <2>3 DEF TaskServesJob, JobServed, JobActive, Running
<1>15. EventClear' /\ OneWorker'
  BY <1>10 DEF EventClear, OneWorker
<1>16. JournalFollows'
  <2>1. ASSUME NEW s \in Run, s # n PROVE JournalOf(s)'
    BY <1>0, <1>1, <1>3, <1>8, <2>1 DEF TaskPart, JournalFollows, JournalOf, TaskActive
  <2>2. session' = "open" /\ run'[n].st = "sched" /\ ~journal'[n].started /\ journal'[n].completed = 0
    BY <1>1, <1>3, <1>8
  <2>3. JournalOf(n)'
    BY <2>2 DEF JournalOf
  <2> QED
    BY <2>1, <2>3 DEF JournalFollows
<1>17. \A p \in Op : op[p].pc \notin Holding /\ op'[p].pc \notin Holding
  BY <1>0, <1>1, <1>4, OpNames, IdleFields DEF OpPart, LockHeld, Holding
<1>18. LockHeld' /\ StopMarks'
  BY <1>0, <1>1, <1>17 DEF OpPart, LockHeld, StopMarks
<1>19. CancelsMeet' /\ \A k \in Canceller : CancelPart(k)'
  <2>1. \A k \in Canceller : op'[k] = op[k]
    BY <1>2, <1>4, OpNames
  <2> QED
    BY <1>1, <1>3, <1>8, <2>1, CancelsIgnoreNew
<1> QED
  BY <1>11, <1>12, <1>13, <1>14, <1>15, <1>16, <1>18, <1>19 DEF IInv, TaskPart, OpPart

\* A client asks for a stop or a retry; a retry reserves its run.
LEMMA RequestStep ==
    ASSUME IInv, NEW c \in Client, NEW act \in {"stop", "retry"}, Request(c, act)
    PROVE  IInv'
<1> DEFINE row == [Idle EXCEPT !.pc = "lock", !.act = act, !.job = job.id]
<1>0. /\ TypeOK /\ TaskPart /\ OpPart /\ op \in [Op -> OpRow] /\ job.id \in 0 .. MaxRuns /\ c \in Op
      /\ c \notin Canceller /\ env \in EnvRow /\ owned \in [Canceller -> SUBSET (0 .. MaxRuns)]
      /\ lock \in Op \union {"free"}
  BY OpFields, Fields, OpNames DEF IInv, TypeOK
<1>1. /\ op[c] = Idle /\ op' = [op EXCEPT ![c] = row]
      /\ UNCHANGED <<job, changed, lock, handle, run, proc, journal, owned, agent, session>>
  BY DEF Request, control
<1>2. row \in OpRow /\ row.pc = "lock" /\ row.act = act
  BY <1>0, IdleFields DEF OpRow, Idle
<1> HIDE DEF row
<1>3. /\ op' \in [Op -> OpRow] /\ op'[c].pc = "lock" /\ op'[c].act = act
      /\ \A p \in Op : p # c => op'[p] = op[p]
  BY <1>0, <1>1, <1>2
<1>4. env' \in EnvRow
  <2>1. CASE act = "retry"
    BY <1>0, <2>1 DEF Request
  <2>2. CASE act = "stop"
    <3>1. env' = [env EXCEPT !.stops = @ - 1] /\ env.stops > 0 /\ env.stops \in Nat
      BY <1>0, <2>2 DEF Request, EnvRow
    <3> QED
      BY <1>0, <3>1 DEF EnvRow
  <2> QED
    BY <2>1, <2>2
<1>5. RunsNumbered'
  <2>1. CASE act = "stop"
    <3>1. Retrying' \subseteq Retrying
      BY <1>3, <2>1 DEF Retrying, Op
    <3> QED
      BY <1>1, <3>1, RunsKept
  <2>2. CASE act = "retry"
    <3>1. RunsLeft /\ Used' = Used
      BY <1>1, <2>2 DEF Request, Used
    <3>2. Retrying' = Retrying \union {c} /\ c \notin Retrying
      BY <1>0, <1>1, <1>3, <2>2, IdleFields DEF Retrying, Op
    <3>3. /\ Cardinality(Used) \in 0 .. MaxRuns /\ Cardinality(Retrying) \in Nat /\ IsFiniteSet(Retrying)
      BY <1>0, Counted DEF IInv
    <3>4. Cardinality(Retrying') = Cardinality(Retrying) + 1
      BY <3>2, <3>3, FS_AddElement
    <3>5. Cardinality(Used') + Cardinality(Retrying') <= MaxRuns
      BY <3>1, <3>3, <3>4, ControlAssumption DEF RunsLeft
    <3> QED
      BY <3>1, <3>5 DEF IInv, RunsNumbered
  <2> QED
    BY <2>1, <2>2
<1>6. TasksStand
  BY <1>0, <1>1 DEF TasksStand, JobActive, Live, TaskPart, SingleTask
<1>7. op[c].pc \notin Holding /\ op'[c].pc \notin Holding
  BY <1>1, <1>3, IdleFields DEF Holding
<1>8. \A p \in Op : lock' = p <=> op'[p].pc \in Holding
  BY <1>0, <1>1, <1>3, <1>7 DEF OpPart, LockHeld
<1>9. CancelsMeet'
  <2>1. \A k \in Canceller : op'[k] = op[k]
    BY <1>0, <1>3, OpNames
  <2> QED
    BY <1>1, <2>1, MeetKept DEF Gathers
<1>10. \A p \in Op \ {c} : SamePlace(p)
  BY <1>3 DEF SamePlace
<1>11. /\ agent' \in {"off", "on", "ending", "left", "leaving"}
       /\ session' \in {"open", "popped", "closed", "abandoned", "down"}
       /\ run' \in [Run -> RunRow] /\ proc' \in [Run -> ProcState] /\ job' \in JobRow
  BY <1>0, <1>1, Fields DEF TypeOK
<1> QED
  BY <1>0, <1>1, <1>3, <1>4, <1>5, <1>6, <1>7, <1>8, <1>9, <1>10, <1>11, RequestMoves

-----------------------------------------------------------------------------
(* cancel and close *)

\* The types of what a step leaves alone.
LEMMA KeptTypes ==
    ASSUME TypeOK
    PROVE  /\ lock \in Op \union {"free"} /\ agent \in {"off", "on", "ending", "left", "leaving"}
           /\ session \in {"open", "popped", "closed", "abandoned", "down"}
           /\ run \in [Run -> RunRow] /\ proc \in [Run -> ProcState] /\ job \in JobRow
           /\ op \in [Op -> OpRow] /\ env \in EnvRow
           /\ owned \in [Canceller -> SUBSET (0 .. MaxRuns)]
<1>1. /\ lock \in Op \union {"free"} /\ agent \in {"off", "on", "ending", "left", "leaving"}
      /\ session \in {"open", "popped", "closed", "abandoned", "down"}
  BY DEF TypeOK
<1> QED
  BY <1>1, Fields, OpFields

\* A cancel or a close that lists its tasks owns all that are active, and stops
\* the job if there is one to stop.
LEMMA ListStep ==
    ASSUME IInv, NEW k \in Canceller, NEW act \in {"cancel", "close"}, List(k, act),
           op[k].pc \in {"idle", "owned"}, env' \in EnvRow,
           UNCHANGED <<job, changed, lock, handle, run, proc, journal, agent, session>>
    PROVE  IInv'
<1> DEFINE row == [Idle EXCEPT !.pc = StopActive("interrupt"), !.act = act, !.job = job.id]
           mine == {r \in Run : TaskActive(r)} \union {0 : a \in {agent} \ {"off"}}
<1>0. /\ TypeOK /\ TaskPart /\ OpPart /\ op \in [Op -> OpRow] /\ job.id \in 0 .. MaxRuns /\ k \in Op
      /\ k \notin Client /\ owned \in [Canceller -> SUBSET (0 .. MaxRuns)]
  BY OpFields, Fields, OpNames DEF IInv
<1>1. op' = [op EXCEPT ![k] = row] /\ owned' = [owned EXCEPT ![k] = mine]
  BY DEF List
<1>2. /\ row \in OpRow /\ row.act = act /\ row.job = job.id
      /\ row.pc = IF JobActive THEN "lock" ELSE "interrupt"
  BY <1>0, IdleFields DEF OpRow, Idle, StopActive
<1>3. mine \subseteq Used \union {0} /\ mine \subseteq 0 .. MaxRuns /\ \A r \in Run : TaskActive(r) => r \in mine
  BY ControlAssumption DEF Used, TaskActive, Run
<1> HIDE DEF row, mine
<1>4. /\ op' \in [Op -> OpRow] /\ op'[k].act = act /\ op'[k].job = job.id
      /\ op'[k].pc = IF JobActive THEN "lock" ELSE "interrupt"
      /\ \A p \in Op : p # k => op'[p] = op[p]
  BY <1>0, <1>1, <1>2
<1>5. /\ owned' \in [Canceller -> SUBSET (0 .. MaxRuns)] /\ owned'[k] = mine
      /\ \A l \in Canceller : l # k => owned'[l] = owned[l]
  BY <1>0, <1>1, <1>3
<1>6. TasksStand
  BY <1>0 DEF TasksStand, JobActive, Live, TaskPart, SingleTask
<1>7. RunsNumbered'
  <2>1. Retrying' \subseteq Retrying
    BY <1>4 DEF Retrying, Op
  <2> QED
    BY <2>1, RunsKept
<1>8. op[k].pc \notin Holding /\ op'[k].pc \notin Holding
  BY <1>4 DEF Holding
<1>9. \A p \in Op : lock' = p <=> op'[p].pc \in Holding
  BY <1>0, <1>4, <1>8 DEF OpPart, LockHeld
<1>10. CancelsMeet'
  <2>1. op[k].pc # "gather" /\ op'[k].act # "shut"
    BY <1>4
  <2> QED
    BY <1>0, <1>4, <1>5, <2>1, MeetKept, OpNames DEF Gathers
<1>11. \A p \in Op \ {k} : SamePlace(p)
  BY <1>4 DEF SamePlace
<1>12. CancelPart(k)'
  <2>1. Phase(k)' /\ ShutStops(k)'
    BY <1>4 DEF Phase, ShutStops
  <2>2. Owns(k)'
    <3>1. Used' = Used /\ \A r \in Run : run'[r].st = "left" => r \in owned'[k]
      BY <1>3, <1>5 DEF Used, TaskActive
    <3> QED
      BY <1>3, <1>4, <1>5, <3>1 DEF Owns
  <2>3. OwnedRetry(k)'
    <3>1. ASSUME NEW r \in Run, run[r].st = "sched", run[r].retry PROVE JobActive
      BY <1>0, <3>1 DEF TaskPart, TaskServesJob, Serves, Fresh
    <3>2. ASSUME NEW r \in Run, run'[r].st = "sched", run'[r].retry
          PROVE  op'[k].pc = "lock" /\ op'[k].job = job'.id
      BY <1>4, <3>1, <3>2
    <3> QED
      BY <3>2 DEF OwnedRetry
  <2> QED
    BY <2>1, <2>2, <2>3 DEF CancelPart
<1> QED
  BY <1>0, <1>4, <1>5, <1>6, <1>7, <1>8, <1>9, <1>10, <1>11, <1>12, KeptTypes, RequestMoves

\* A cancel that finds a request of the agent's tools ends it first.
LEMMA CancelBeginStep ==
    ASSUME IInv, NEW k \in Canceller, NEW act \in {"cancel", "close"}, CancelBegin(k, act)
    PROVE  IInv'
<1>0. /\ TypeOK /\ TaskPart /\ OpPart /\ op \in [Op -> OpRow] /\ k \in Op /\ env \in EnvRow
      /\ k # "socket" /\ "socket" \in Op /\ "socket" \in Client /\ "free" \notin Op
      /\ lock \in Op \union {"free"} /\ owned \in [Canceller -> SUBSET (0 .. MaxRuns)]
  BY OpFields, OpNames DEF IInv, TypeOK
<1>1. /\ op[k] = Idle
      /\ UNCHANGED <<job, changed, handle, run, proc, journal, agent, session>>
  BY DEF CancelBegin
<1>2. op[k].pc = "idle"
  BY <1>1, IdleFields
<1>3. env' \in EnvRow
  <2>1. env' = [env EXCEPT !.cancels = @ - 1] /\ env.cancels > 0 /\ env.cancels \in Nat
    BY <1>0 DEF CancelBegin, EnvRow
  <2> QED
    BY <1>0, <2>1 DEF EnvRow
<1>4. CASE op["socket"] = Idle
  <2>1. List(k, act) /\ lock' = lock
    BY <1>4 DEF CancelBegin
  <2> QED
    BY <1>1, <1>2, <1>3, <2>1, ListStep
<1>5. CASE op["socket"] # Idle
  <2> DEFINE row == [Idle EXCEPT !.pc = "owned", !.act = act]
  <2>1. /\ op' = [op EXCEPT ![k] = row, !["socket"] = Idle]
        /\ lock' = Free("socket") /\ owned' = owned
    BY <1>5 DEF CancelBegin
  <2>2. row \in OpRow /\ row.pc = "owned" /\ row.act = act
    BY IdleFields DEF OpRow, Idle
  <2> HIDE DEF row
  <2>3. /\ op' \in [Op -> OpRow] /\ op'[k].pc = "owned" /\ op'[k].act = act /\ op'["socket"] = Idle
        /\ \A p \in Op : p # k /\ p # "socket" => op'[p] = op[p]
    BY <1>0, <2>1, <2>2, IdleFields
  <2>4. TasksStand
    BY <1>0, <1>1 DEF TasksStand, JobActive, Live, TaskPart, SingleTask
  <2>5. RunsNumbered'
    <3>1. Retrying' \subseteq Retrying
      BY <2>3, IdleFields DEF Retrying, Op
    <3> QED
      BY <1>1, <3>1, RunsKept
  <2>6. op[k].pc \notin Holding /\ op'[k].pc \notin Holding /\ op'["socket"].pc \notin Holding
    BY <1>2, <2>3, IdleFields DEF Holding
  <2>7. lock' \in Op \union {"free"} /\ \A p \in Op : lock' = p <=> op'[p].pc \in Holding
    <3>1. LockHeld
      BY <1>0 DEF OpPart
    <3>2. lock' = IF lock = "socket" THEN "free" ELSE lock
      BY <2>1 DEF Free
    <3> QED
      BY <1>0, <2>3, <2>6, <3>1, <3>2 DEF LockHeld
  <2>8. CancelsMeet'
    <3>1. op[k].pc # "gather" /\ op'[k].act # "shut"
      BY <1>2, <2>3
    <3> QED
      BY <1>0, <1>1, <2>1, <2>3, <3>1, MeetKept, OpNames DEF Gathers
  <2>9. \A p \in Op \ {k} : SamePlace(p) \/ (p \in Client /\ op'[p] = Idle)
    BY <1>0, <2>3 DEF SamePlace
  <2>10. CancelPart(k)'
    <3>0. Phase(k) /\ Owns(k)
      BY <1>0 DEF OpPart, CancelPart
    <3>1. Phase(k)' /\ ShutStops(k)'
      BY <2>3 DEF Phase, ShutStops
    <3>2. Owns(k)'
      BY <1>1, <1>2, <2>1, <2>3, <3>0 DEF Owns, Used, TaskActive
    <3>3. OwnedRetry(k)'
      <4>1. \A r \in Run : r \in owned[k] => run[r].st # "sched"
        BY <1>2, <3>0 DEF Owns, TaskActive
      <4> QED
        BY <1>1, <2>1, <4>1 DEF OwnedRetry
    <3> QED
      BY <3>1, <3>2, <3>3 DEF CancelPart
  <2> QED
    BY <1>0, <1>1, <1>3, <2>1, <2>3, <2>4, <2>5, <2>6, <2>7, <2>8, <2>9, <2>10, KeptTypes, RequestMoves
<1> QED
  BY <1>4, <1>5

LEMMA CancelOwnedStep ==
    ASSUME IInv, NEW k \in Canceller, CancelOwned(k)
    PROVE  IInv'
<1>1. /\ op[k].pc = "owned" /\ List(k, op[k].act)
      /\ UNCHANGED <<job, changed, lock, handle, run, proc, journal, agent, session, env>>
  BY DEF CancelOwned, control
<1>2. op[k].act \in {"cancel", "close"}
  BY <1>1 DEF IInv, OpPart, CancelPart, Phase, Holding
<1>3. env' \in EnvRow
  BY <1>1, OpFields DEF IInv
<1> QED
  BY <1>1, <1>2, <1>3, ListStep

\* The tasks that are owned get their cancellation, and are waited for.
LEMMA CancelTasksStep ==
    ASSUME IInv, NEW k \in Canceller, CancelTasks(k)
    PROVE  IInv'
<1>0. /\ TypeOK /\ TaskPart /\ OpPart /\ op \in [Op -> OpRow] /\ k \in Op
      /\ k # "author" /\ "author" \in Op /\ "author" \in Client /\ "free" \notin Op
      /\ \A l \in Canceller : l # "author" /\ l \in Op
  BY OpFields, OpNames DEF IInv
<1>1. /\ op[k].pc = "interrupt"
      /\ run' = [r \in Run |-> [run[r] EXCEPT !.cancel = @ \/ (r \in owned[k] /\ TaskActive(r))]]
      /\ op' = [op EXCEPT ![k].pc = "gather", !["author"] = IF 0 \in owned[k] THEN Idle ELSE @]
      /\ lock' = IF 0 \in owned[k] THEN Free("author") ELSE lock
      /\ UNCHANGED <<job, changed, handle, proc, journal, owned, session, env>>
  BY DEF CancelTasks
<1>2. agent' \in {"off", "on", "ending", "left", "leaving"}
  BY <1>0, KeptTypes DEF CancelTasks
<1>3. \A r \in Run : /\ run'[r] \in RunRow /\ run'[r].st = run[r].st /\ run'[r].job = run[r].job
                     /\ run'[r].retry = run[r].retry
                     /\ run'[r].cancel <=> (run[r].cancel \/ (r \in owned[k] /\ TaskActive(r)))
  BY <1>0, <1>1, Fields DEF RunRow
<1>4. run' \in [Run -> RunRow]
  BY <1>1, <1>3
<1>5. /\ op' \in [Op -> OpRow] /\ op'[k].pc = "gather" /\ op'[k].act = op[k].act
      /\ \A p \in Op : p # k /\ p # "author" => op'[p] = op[p]
      /\ op'["author"] = IF 0 \in owned[k] THEN Idle ELSE op["author"]
  <2> DEFINE author == IF 0 \in owned[k] THEN Idle ELSE op["author"]
             row == [op[k] EXCEPT !.pc = "gather"]
  <2>1. author \in OpRow /\ row \in OpRow /\ row.pc = "gather" /\ row.act = op[k].act
    BY <1>0, IdleFields DEF OpRow
  <2>2. op' = [op EXCEPT ![k] = row, !["author"] = author]
    BY <1>0, <1>1
  <2> HIDE DEF row
  <2> QED
    BY <1>0, <2>1, <2>2
<1>6. TasksStand
  BY <1>0, <1>1, <1>3 DEF TasksStand, JobActive, Live, TaskPart, SingleTask
<1>7. RunsNumbered'
  <2>1. Retrying' \subseteq Retrying
    BY <1>0, <1>5, IdleFields DEF Retrying, Op
  <2> QED
    BY <1>3, <2>1, RunsKept
<1>8. op[k].pc \notin Holding /\ op'[k].pc \notin Holding /\ Idle.pc \notin Holding
  BY <1>1, <1>5, IdleFields DEF Holding
<1>9. lock' \in Op \union {"free"} /\ \A p \in Op : lock' = p <=> op'[p].pc \in Holding
  <2>1. LockHeld /\ lock \in Op \union {"free"}
    BY <1>0, KeptTypes DEF OpPart
  <2>2. CASE 0 \in owned[k]
    <3>1. lock' = IF lock = "author" THEN "free" ELSE lock
      BY <1>1, <2>2 DEF Free
    <3> QED
      BY <1>0, <1>5, <1>8, <2>1, <2>2, <3>1 DEF LockHeld
  <2>3. CASE 0 \notin owned[k]
    BY <1>0, <1>1, <1>5, <1>8, <2>1, <2>3 DEF LockHeld
  <2> QED
    BY <2>2, <2>3
<1>10. CancelsMeet'
  <2>1. \A l \in Canceller : /\ op'[l].act = op[l].act /\ (l # k => op'[l] = op[l])
                             /\ \A r \in Run : Gathers(l, r) => Gathers(l, r)'
    BY <1>0, <1>1, <1>5 DEF Gathers
  <2>2. ASSUME NEW r \in Run, run'[r].cancel, run'[r].st # "left"
        PROVE  \E l \in Canceller : Gathers(l, r)'
    <3>1. CASE run[r].cancel
      BY <1>0, <1>3, <2>1, <2>2, <3>1 DEF OpPart, CancelsMeet
    <3>2. CASE ~run[r].cancel
      <4>1. r \in owned'[k] /\ op'[k].pc = "gather"
        BY <1>1, <1>3, <1>5, <2>2, <3>2
      <4> QED
        BY <4>1 DEF Gathers
    <3> QED
      BY <3>1, <3>2
  <2> QED
    BY <1>0, <2>1, <2>2 DEF OpPart, CancelsMeet
<1>11. \A p \in Op \ {k} : SamePlace(p) \/ (p \in Client /\ op'[p] = Idle)
  BY <1>0, <1>5 DEF SamePlace
<1>12. CancelPart(k)'
  <2>0. Phase(k) /\ Owns(k) /\ OwnedRetry(k)
    BY <1>0 DEF OpPart, CancelPart
  <2>1. Phase(k)' /\ ShutStops(k)'
    BY <1>1, <1>5, <2>0 DEF Phase, ShutStops, Holding
  <2>2. Owns(k)'
    <3>1. op'[k].act # "shut" /\ op'[k].pc \notin {"idle", "owned"}
      BY <1>1, <1>5, <2>0 DEF Phase, Holding
    <3>2. Used' = Used /\ \A r \in Run : run'[r].st = run[r].st
      BY <1>3 DEF Used
    <3> QED
      BY <1>1, <2>0, <3>1, <3>2 DEF Owns
  <2>3. OwnedRetry(k)'
    <3>1. /\ op[k].pc = "interrupt" /\ op'[k].pc = "gather" /\ owned' = owned
          /\ job' = job /\ handle' = handle /\ changed' = changed
          /\ \A r \in Run : run'[r].st = run[r].st /\ run'[r].retry = run[r].retry
      BY <1>1, <1>3, <1>5
    <3> QED
      BY <2>0, <3>1 DEF OwnedRetry, Holding
  <2> QED
    BY <2>1, <2>2, <2>3 DEF CancelPart
<1> QED
  BY <1>0, <1>1, <1>2, <1>4, <1>5, <1>6, <1>7, <1>8, <1>9, <1>10, <1>11, <1>12, KeptTypes, RequestMoves

\* All that was owned is over.  The cancel ends, or the close comes to shut the
\* session, which no other close does.
LEMMA CancelGatheredStep ==
    ASSUME IInv, NEW k \in Canceller, CancelGathered(k)
    PROVE  IInv'
<1> DEFINE pops == op[k].act = "close" /\ op[k].end = "ok" /\ session = "open"
           shut == [op[k] EXCEPT !.pc = "retire", !.act = "shut"]
<1>0. /\ TypeOK /\ TaskPart /\ OpPart /\ op \in [Op -> OpRow] /\ k \in Op /\ k \notin Client
      /\ owned \in [Canceller -> SUBSET (0 .. MaxRuns)]
      /\ \A p \in Op : op[p] \in OpRow
  BY OpFields, OpNames DEF IInv
<1>1. /\ op[k].pc = "gather" /\ \A r \in owned[k] : r # 0 /\ ~TaskActive(r)
      /\ op' = [o \in Op |-> IF o = k THEN IF pops THEN shut ELSE Idle
                             ELSE IF Replaces(k) /\ op[o].pc \in {"interrupt", "gather"}
                             THEN [op[o] EXCEPT !.end = "stale"] ELSE op[o]]
      /\ session' = CASE pops -> "popped" [] session = "closed" -> "abandoned" [] OTHER -> session
      /\ owned' = IF pops THEN owned ELSE [owned EXCEPT ![k] = {}]
      /\ UNCHANGED <<job, changed, lock, handle, run, proc, journal, agent, env>>
  BY DEF CancelGathered, control
<1>2. /\ session' = IF pops THEN "popped" ELSE IF session = "closed" THEN "abandoned" ELSE session
      /\ session' \in {"open", "popped", "closed", "abandoned", "down"}
      /\ session = "down" <=> session' = "down"
  BY <1>0, <1>1, KeptTypes
<1>3. shut \in OpRow /\ shut.pc = "retire" /\ shut.act = "shut"
  BY <1>0 DEF OpRow
<1>4. \A p \in Op : [op[p] EXCEPT !.end = "stale"] \in OpRow
  BY <1>0 DEF OpRow
<1>5. /\ op'[k] = IF pops THEN shut ELSE Idle
      /\ \A p \in Op : p # k => op'[p] = op[p] \/ op'[p] = [op[p] EXCEPT !.end = "stale"]
      /\ op' \in [Op -> OpRow]
  BY <1>0, <1>1, <1>3, <1>4, IdleFields
<1>6. /\ owned' \in [Canceller -> SUBSET (0 .. MaxRuns)]
      /\ owned'[k] = IF pops THEN owned[k] ELSE {}
      /\ \A l \in Canceller : l # k => owned'[l] = owned[l]
  BY <1>0, <1>1
<1>7. \A p \in Op \ {k} : SamePlace(p)
  BY <1>0, <1>5 DEF SamePlace, OpRow
<1>8. /\ op'[k].pc = IF pops THEN "retire" ELSE "idle"
      /\ op'[k].act = IF pops THEN "shut" ELSE "none"
  BY <1>3, <1>5, IdleFields
<1> HIDE DEF shut
<1>9. TasksStand
  BY <1>0, <1>1 DEF TasksStand, JobActive, Live, TaskPart, SingleTask
<1>10. RunsNumbered'
  <2>1. Retrying' \subseteq Retrying
    BY <1>0, <1>7 DEF Retrying, Op, SamePlace
  <2> QED
    BY <1>1, <2>1, RunsKept
<1>11. op[k].pc \notin Holding /\ op'[k].pc \notin Holding
  BY <1>1, <1>8 DEF Holding
<1>12. \A p \in Op : lock' = p <=> op'[p].pc \in Holding
  BY <1>0, <1>1, <1>7, <1>11 DEF OpPart, LockHeld, SamePlace
<1>13. \A l \in Canceller \ {k} : op[l].act = "shut" => session' = session /\ ~pops
  BY <1>0, <1>2 DEF OpPart, CancelPart, Phase
<1>14. \A l \in Canceller \ {k} : SamePlace(l) /\ owned'[l] = owned[l]
  BY <1>6, <1>7, OpNames
<1>15. CancelsMeet'
  <2>1. ASSUME NEW l \in Canceller, NEW m \in Canceller, op'[l].act = "shut", op'[m].act = "shut" PROVE l = m
    BY <1>0, <1>8, <1>13, <1>14, <2>1 DEF OpPart, CancelsMeet, SamePlace
  <2>2. ASSUME NEW r \in Run, run'[r].cancel, run'[r].st # "left"
        PROVE  \E l \in Canceller : Gathers(l, r)'
    <3>1. TaskActive(r) /\ r # 0
      BY <1>0, <1>1, <2>2 DEF TaskPart, SingleTask, Run
    <3>2. PICK l \in Canceller : Gathers(l, r)
      BY <1>0, <1>1, <2>2 DEF OpPart, CancelsMeet
    <3>3. l # k
      BY <1>1, <3>1, <3>2 DEF Gathers
    <3>4. Gathers(l, r)'
      BY <1>14, <3>2, <3>3 DEF Gathers, SamePlace
    <3> QED
      BY <3>4
  <2> QED
    BY <2>1, <2>2 DEF CancelsMeet
<1>16. CancelPart(k)'
  <2>0. Owns(k)
    BY <1>0 DEF OpPart, CancelPart
  <2>1. Phase(k)' /\ ShutStops(k)'
    BY <1>2, <1>8, <1>11 DEF Phase, ShutStops
  <2>2. \A r \in Run : r \in owned'[k] => ~TaskActive(r)
    BY <1>1, <1>6
  <2>3. \A r \in Run : r \in owned'[k] => ~TaskActive(r)' /\ run'[r].st # "sched"
    BY <1>1, <2>2 DEF TaskActive
  <2>4. \A r \in Run : run[r].st # "left"
    BY <1>1, <2>0 DEF Owns, TaskActive
  <2>5. Used' = Used /\ owned'[k] \subseteq owned[k]
    BY <1>1, <1>6 DEF Used
  <2>6. Owns(k)'
    BY <1>1, <2>0, <2>3, <2>4, <2>5 DEF Owns
  <2>7. OwnedRetry(k)'
    BY <2>3 DEF OwnedRetry
  <2> QED
    BY <2>1, <2>6, <2>7 DEF CancelPart
<1> HIDE DEF pops
<1> QED
  BY <1>0, <1>1, <1>2, <1>5, <1>6, <1>7, <1>9, <1>10, <1>11, <1>12, <1>13, <1>15, <1>16, KeptTypes, RequestMoves

\* A close that shuts ends the requests of the agent's tools, then stops the job
\* that is left.
LEMMA ShutSteps ==
    ASSUME IInv, NEW k \in Canceller, Retire(k) \/ CloseStop(k)
    PROVE  IInv'
<1>0. /\ TypeOK /\ TaskPart /\ OpPart /\ op \in [Op -> OpRow] /\ k \in Op /\ op[k] \in OpRow
      /\ k # "socket" /\ "socket" \in Op /\ "socket" \in Client /\ "free" \notin Op
      /\ job.id \in 0 .. MaxRuns
  BY OpFields, OpNames, Fields DEF IInv
<1>1. /\ UNCHANGED <<job, changed, handle, run, proc, journal, owned, agent, session, env>>
      /\ op[k].pc \in {"retire", "stop"}
  BY DEF Retire, CloseStop, control
<1>2. /\ op' \in [Op -> OpRow] /\ op'[k].act = op[k].act /\ op'[k].pc \in {"stop", "lock"}
      /\ \A p \in Op : p # k /\ p # "socket" => op'[p] = op[p]
      /\ \/ op'["socket"] = Idle /\ lock' = Free("socket")
         \/ op'["socket"] = op["socket"] /\ lock' = lock
  <2>1. CASE Retire(k)
    <3>1. op' = [op EXCEPT ![k].pc = "stop", !["socket"] = Idle] /\ lock' = Free("socket")
      BY <2>1 DEF Retire
    <3> QED
      BY <1>0, <3>1, IdleFields DEF OpRow
  <2>2. CASE CloseStop(k)
    <3>1. op' = [op EXCEPT ![k].pc = "lock", ![k].job = job.id] /\ lock' = lock
      BY <2>2 DEF CloseStop, control
    <3> QED
      BY <1>0, <3>1 DEF OpRow
  <2> QED
    BY <2>1, <2>2
<1>3. TasksStand
  BY <1>0, <1>1 DEF TasksStand, JobActive, Live, TaskPart, SingleTask
<1>4. RunsNumbered'
  <2>1. Retrying' \subseteq Retrying
    BY <1>0, <1>2, IdleFields DEF Retrying, Op
  <2> QED
    BY <1>1, <2>1, RunsKept
<1>5. op[k].pc \notin Holding /\ op'[k].pc \notin Holding /\ Idle.pc \notin Holding
  BY <1>1, <1>2, IdleFields DEF Holding
<1>6. lock' \in Op \union {"free"} /\ \A p \in Op : lock' = p <=> op'[p].pc \in Holding
  <2>1. LockHeld /\ lock \in Op \union {"free"}
    BY <1>0, KeptTypes DEF OpPart
  <2>2. CASE op'["socket"] = Idle /\ lock' = Free("socket")
    <3>1. lock' = IF lock = "socket" THEN "free" ELSE lock
      BY <2>2 DEF Free
    <3> QED
      BY <1>0, <1>2, <1>5, <2>1, <2>2, <3>1 DEF LockHeld
  <2>3. CASE op'["socket"] = op["socket"] /\ lock' = lock
    BY <1>0, <1>2, <1>5, <2>1, <2>3 DEF LockHeld
  <2> QED
    BY <1>2, <2>2, <2>3
<1>7. CancelsMeet'
  <2>1. op[k].pc # "gather"
    BY <1>1
  <2> QED
    BY <1>1, <1>2, <2>1, MeetKept, OpNames DEF Gathers
<1>8. \A p \in Op \ {k} : SamePlace(p) \/ (p \in Client /\ op'[p] = Idle)
  BY <1>0, <1>2 DEF SamePlace
<1>9. CancelPart(k)'
  <2>0. Phase(k) /\ Owns(k)
    BY <1>0 DEF OpPart, CancelPart
  <2>1. op[k].act = "shut" /\ session = "popped"
    BY <1>1, <2>0 DEF Phase, Holding
  <2>2. Phase(k)' /\ ShutStops(k)'
    BY <1>1, <1>2, <1>5, <2>1 DEF Phase, ShutStops
  <2>3. Owns(k)'
    BY <1>1, <1>2, <2>0, <2>1 DEF Owns, Used, TaskActive
  <2>4. OwnedRetry(k)'
    BY <1>1, <2>0, <2>1 DEF OwnedRetry, Owns, TaskActive
  <2> QED
    BY <2>2, <2>3, <2>4 DEF CancelPart
<1> QED
  BY <1>0, <1>1, <1>2, <1>3, <1>4, <1>5, <1>6, <1>7, <1>8, <1>9, KeptTypes, RequestMoves

LEMMA CloseIdleStep ==
    ASSUME IInv, NEW k \in Canceller, CloseIdle(k)
    PROVE  IInv'
<1>1. /\ op[k].pc = "stop" /\ Return(k, TRUE)
      /\ UNCHANGED <<job, changed, lock, handle, run, proc, journal, owned, agent, env>>
  BY DEF CloseIdle, control
<1>2. k \in Op /\ op[k].pc \notin Holding
  BY <1>1, OpNames DEF Holding
<1>3. \A r \in Run : ~(run[r].st = "sched" /\ run[r].retry /\ r \in owned[k])
  BY <1>1 DEF IInv, OpPart, CancelPart, Phase, Owns, Holding, TaskActive
<1> QED
  BY <1>1, <1>2, <1>3, ReturnStep

-----------------------------------------------------------------------------
(* Ends and openings of the session *)

\* Where no request is left, what the invariant says of requests holds.
LEMMA AllIdle ==
    ASSUME IInv, lock' = "free", op' = [o \in Op |-> Idle], owned' = [k \in Canceller |-> {}],
           \A r \in Run : run'[r].cancel => run'[r].st = "left",
           \A r \in Run : run'[r].st = "none" <=> run[r].st = "none"
    PROVE  /\ OpPart' /\ RunsNumbered' /\ op' \in [Op -> OpRow]
           /\ owned' \in [Canceller -> SUBSET (0 .. MaxRuns)]
<1>1. \A o \in Op : op'[o] = Idle /\ op'[o].pc = "idle" /\ op'[o].act = "none"
  BY IdleFields
<1>2. \A o \in Op : op'[o].pc \notin Holding
  BY <1>1 DEF Holding
<1>3. LockHeld' /\ StopMarks'
  BY <1>2, OpNames DEF LockHeld, StopMarks
<1>4. CancelsMeet'
  BY <1>1, OpNames DEF CancelsMeet
<1>5. ASSUME NEW k \in Canceller PROVE CancelPart(k)'
  <2>1. op'[k].pc = "idle" /\ op'[k].act = "none" /\ owned'[k] = {}
    BY <1>1, <1>5, OpNames
  <2> QED
    BY <2>1 DEF CancelPart, Phase, Owns, OwnedRetry, ShutStops
<1>6. RunsNumbered'
  <2>1. Used' = Used
    BY DEF Used
  <2>2. Retrying' = {}
    BY <1>1, OpNames DEF Retrying
  <2>3. Cardinality(Retrying') = 0 /\ Cardinality(Used) \in 0 .. MaxRuns
    BY <2>2, FS_EmptySet, Counted DEF IInv
  <2>4. Cardinality(Used') + Cardinality(Retrying') <= MaxRuns
    BY <2>1, <2>3, ControlAssumption
  <2> QED
    BY <2>1, <2>4 DEF IInv, RunsNumbered
<1>7. op' \in [Op -> OpRow] /\ owned' \in [Canceller -> SUBSET (0 .. MaxRuns)]
  BY IdleFields
<1> QED
  BY <1>3, <1>4, <1>5, <1>6, <1>7 DEF OpPart

LEMMA NoJobFields ==
    NoJob \in JobRow /\ NoJob.status = "none" /\ 0 \in 0 .. MaxRuns
  BY ControlAssumption DEF NoJob, JobRow

\* The backend dies, or ends: only the journal is left.
LEMMA EndSteps ==
    ASSUME IInv, Crash \/ Quit
    PROVE  IInv'
<1>0. TypeOK /\ TaskPart /\ OpPart
  BY DEF IInv
<1>1. /\ session' = "down" /\ journal' = journal
      /\ job' = NoJob /\ changed' = FALSE /\ lock' = "free" /\ handle' = 0
      /\ run' = [r \in Run |-> IF TaskActive(r) THEN Over ELSE run[r]]
      /\ proc' = [r \in Run |-> "none"]
      /\ op' = [o \in Op |-> Idle]
      /\ owned' = [k \in Canceller |-> {}] /\ agent' = "off"
  BY DEF Crash, Quit, Vanish
<1>2. env' \in EnvRow
  <2>1. CASE Crash
    <3>1. env' = [env EXCEPT !.faults = @ - 1] /\ env.faults > 0 /\ env.faults \in Nat /\ env \in EnvRow
      BY <1>0, <2>1, OpFields DEF Crash, EnvRow
    <3> QED
      BY <3>1 DEF EnvRow
  <2>2. CASE Quit
    BY <1>0, <2>2, OpFields DEF Quit
  <2> QED
    BY <2>1, <2>2
<1>3. \A r \in Run : /\ run'[r] = IF TaskActive(r) THEN Over ELSE run[r]
                     /\ run'[r] \in RunRow
                     /\ run'[r].st \in {"none", "done", "gone"} /\ ~run'[r].cancel
                     /\ run'[r].st = "none" <=> run[r].st = "none"
                     /\ run'[r].st = "gone" <=> run[r].st = "gone"
  BY <1>0, <1>1, Fields, OverFields DEF TaskActive, TaskPart, SingleTask
<1>4. run' \in [Run -> RunRow]
  BY <1>1, <1>3
<1>5. OpPart' /\ RunsNumbered' /\ op' \in [Op -> OpRow] /\ owned' \in [Canceller -> SUBSET (0 .. MaxRuns)]
  BY <1>1, <1>3, AllIdle
<1>6. TypeOK'
  <2>1. /\ job' \in JobRow /\ changed' \in BOOLEAN /\ handle' \in 0 .. MaxRuns
        /\ proc' \in [Run -> ProcState] /\ journal' \in [Run -> JournalRow]
    BY <1>0, <1>1, Fields, NoJobFields DEF ProcState
  <2> QED
    BY <1>1, <1>2, <1>4, <1>5, <2>1 DEF TypeOK, JobRow, RunRow, OpRow, EnvRow, ProcState, JournalRow
<1>7. \A r \in Run : ~TaskActive(r)' /\ ~Serves(r)' /\ ~Live(r)' /\ run'[r].st \notin Work \union {"left"}
  BY <1>1, <1>3 DEF TaskActive, Serves, Live, Work, Fresh
<1>8. ~JobActive' /\ job'.status = "none"
  BY <1>1, NoJobFields DEF JobActive, Running
<1>9. SingleTask' /\ TaskServesJob' /\ EventClear' /\ JobServed' /\ OneWorker'
  BY <1>3, <1>7, <1>8 DEF SingleTask, TaskServesJob, EventClear, JobServed, OneWorker
<1>10. ASSUME NEW r \in Run PROVE JournalOf(r)'
  <2>1. JournalOf(r)
    BY <1>0 DEF TaskPart, JournalFollows
  <2> QED
    BY <1>1, <1>3, <1>7, <2>1 DEF JournalOf
<1> QED
  BY <1>5, <1>6, <1>9, <1>10 DEF IInv, TaskPart, JournalFollows

\* What opening writes: the end of every run that began and has none.
LEMMA InterruptedRows ==
    ASSUME TypeOK, journal' = Interrupted
    PROVE  /\ journal' \in [Run -> JournalRow]
           /\ \A r \in Run : /\ journal'[r].started = journal[r].started
                             /\ journal'[r].completed =
                                   IF journal[r].started /\ journal[r].completed = 0
                                   THEN 1 ELSE journal[r].completed
<1>1. ASSUME NEW r \in Run
      PROVE  /\ journal'[r] \in JournalRow /\ journal'[r].started = journal[r].started
             /\ journal'[r].completed = IF journal[r].started /\ journal[r].completed = 0
                                        THEN 1 ELSE journal[r].completed
  <2>1. journal'[r] = IF journal[r].started /\ journal[r].completed = 0
                      THEN [journal[r] EXCEPT !.completed = 1] ELSE journal[r]
    BY DEF Interrupted
  <2>2. journal[r] \in JournalRow
    BY Fields
  <2> QED
    BY <2>1, <2>2 DEF JournalRow
<1> QED
  BY <1>1 DEF Interrupted

\* The next backend opens the session.
LEMMA OpenStep ==
    ASSUME IInv, Open
    PROVE  IInv'
<1>0. TypeOK /\ TaskPart /\ OpPart
  BY DEF IInv
<1>1. /\ session = "down" /\ session' = "open" /\ journal' = Interrupted
      /\ UNCHANGED <<job, changed, lock, handle, run, proc, op, owned, agent, env>>
  BY DEF Open, control
<1>2. /\ journal' \in [Run -> JournalRow]
      /\ \A r \in Run : /\ journal'[r].started = journal[r].started
                        /\ journal'[r].completed = IF journal[r].started /\ journal[r].completed = 0
                                                   THEN 1 ELSE journal[r].completed
  BY <1>0, <1>1, InterruptedRows
<1>3. TypeOK'
  BY <1>0, <1>1, <1>2 DEF TypeOK, JournalRow
<1>4. RunsNumbered' /\ LockHeld' /\ StopMarks' /\ CancelsMeet'
  BY <1>0, <1>1 DEF IInv, RunsNumbered, Used, Retrying, OpPart, LockHeld, StopMarks, CancelsMeet, Gathers
<1>5. ASSUME NEW k \in Canceller PROVE CancelPart(k)'
  <2>1. Phase(k) /\ Owns(k) /\ OwnedRetry(k) /\ ShutStops(k)
    BY <1>0 DEF OpPart, CancelPart
  <2>2. Phase(k)'
    BY <1>1, <2>1 DEF Phase
  <2> QED
    BY <1>1, <2>1, <2>2 DEF CancelPart, Owns, OwnedRetry, ShutStops, Used, TaskActive, JobActive
<1>6. SingleTask' /\ TaskServesJob' /\ EventClear' /\ JobServed' /\ OneWorker'
  BY <1>0, <1>1 DEF TaskPart, SingleTask, TaskServesJob, EventClear, JobServed, OneWorker, Serves,
       Stranded, TaskActive, JobActive, Live
<1>7. ASSUME NEW r \in Run PROVE JournalOf(r)'
  <2>1. JournalOf(r) /\ journal[r].completed \in Nat
    BY <1>0, Fields DEF TaskPart, JournalFollows
  <2>2. ~TaskActive(r) /\ run[r].st \in {"none", "done", "gone"}
    BY <1>1, <2>1 DEF JournalOf, TaskActive
  <2> QED
    BY <1>1, <1>2, <2>1, <2>2 DEF JournalOf, TaskActive
<1> QED
  BY <1>3, <1>4, <1>5, <1>6, <1>7 DEF IInv, TaskPart, OpPart, JournalFollows

\* The same backend opens the session again: a task the close did not find is
\* left, with the worker it may have.
LEMMA ReopenStep ==
    ASSUME IInv, Reopen
    PROVE  IInv'
<1>0. TypeOK /\ TaskPart /\ OpPart
  BY DEF IInv
<1>1. /\ session = "closed" /\ session' = "open" /\ journal' = Interrupted
      /\ job' = NoJob /\ changed' = FALSE /\ lock' = "free" /\ handle' = 0
      /\ run' = [r \in Run |-> IF TaskActive(r)
                               THEN [run[r] EXCEPT !.st = "left", !.job = 0, !.retry = FALSE]
                               ELSE run[r]]
      /\ op' = [o \in Op |-> Idle] /\ owned' = [k \in Canceller |-> {}]
      /\ UNCHANGED <<proc, env>>
  BY DEF Reopen
<1>2. agent' \in {"off", "on", "ending", "left", "leaving"}
  BY <1>0, KeptTypes DEF Reopen
<1>3. /\ journal' \in [Run -> JournalRow]
      /\ \A r \in Run : /\ journal'[r].started = journal[r].started
                        /\ journal'[r].completed = IF journal[r].started /\ journal[r].completed = 0
                                                   THEN 1 ELSE journal[r].completed
  BY <1>0, <1>1, InterruptedRows
<1>4. ASSUME NEW r \in Run
      PROVE  /\ run'[r] \in RunRow /\ run'[r].cancel = run[r].cancel
             /\ TaskActive(r) => run'[r].st = "left" /\ run'[r].job = 0 /\ ~run'[r].retry
             /\ ~TaskActive(r) => run'[r] = run[r] /\ ~run[r].cancel
             /\ TaskActive(r)' = TaskActive(r)
             /\ run'[r].st = "none" <=> run[r].st = "none"
  <2>1. CASE TaskActive(r)
    <3>1. run'[r] = [run[r] EXCEPT !.st = "left", !.job = 0, !.retry = FALSE] /\ run[r] \in RunRow
      BY <1>0, <1>1, <2>1, Fields
    <3>2. /\ run'[r] \in RunRow /\ run'[r].cancel = run[r].cancel
          /\ run'[r].st = "left" /\ run'[r].job = 0 /\ run'[r].retry = FALSE
      BY <3>1, NoJobFields DEF RunRow, TaskState
    <3> QED
      BY <2>1, <3>2 DEF TaskActive
  <2>2. CASE ~TaskActive(r)
    <3>1. run'[r] = run[r] /\ run[r] \in RunRow /\ ~run[r].cancel
      BY <1>0, <1>1, <2>2, Fields DEF TaskPart, SingleTask
    <3> QED
      BY <2>2, <3>1 DEF TaskActive
  <2> QED
    BY <2>1, <2>2
<1>5. run' \in [Run -> RunRow]
  BY <1>1, <1>4
<1>6. OpPart' /\ RunsNumbered' /\ op' \in [Op -> OpRow] /\ owned' \in [Canceller -> SUBSET (0 .. MaxRuns)]
  BY <1>1, <1>4, AllIdle
<1>7. TypeOK'
  <2>1. job' \in JobRow /\ handle' \in 0 .. MaxRuns
    BY <1>1, NoJobFields
  <2> QED
    BY <1>0, <1>1, <1>2, <1>3, <1>5, <1>6, <2>1 DEF TypeOK, JobRow, RunRow, OpRow, JournalRow
<1>8. \A r \in Run : ~Serves(r)' /\ run'[r].st \notin Work
  BY <1>4 DEF TaskActive, Serves, Work, Fresh
<1>9. ~JobActive' /\ job'.status = "none" /\ \A r \in Run : handle' # r
  <2>1. \A r \in Run : r # 0
    BY ControlAssumption DEF Run
  <2> QED
    BY <1>1, <2>1, NoJobFields DEF JobActive, Running
<1>10. SingleTask'
  BY <1>0, <1>4 DEF TaskPart, SingleTask
<1>11. TaskServesJob' /\ EventClear' /\ JobServed'
  BY <1>8, <1>9 DEF TaskServesJob, EventClear, JobServed
<1>12. OneWorker'
  <2>1. ASSUME NEW r \in Run, Live(r)'
        PROVE  run'[r].st = "left" /\ \A s \in Run \ {r} : ~Live(s)' /\ ~TaskActive(s)'
    <3>1. Live(r) /\ \A s \in Run : Live(s)' = Live(s)
      BY <1>1, <2>1 DEF Live
    <3>2. TaskActive(r) /\ \A s \in Run \ {r} : ~Live(s) /\ ~TaskActive(s)
      BY <1>0, <3>1 DEF TaskPart, OneWorker, TaskActive
    <3> QED
      BY <1>4, <3>1, <3>2
  <2> QED
    BY <2>1 DEF OneWorker
<1>13. ASSUME NEW r \in Run PROVE JournalOf(r)'
  <2>1. /\ JournalOf(r) /\ journal[r].completed \in Nat /\ session = "closed" /\ session' = "open"
        /\ journal'[r].started = journal[r].started
        /\ journal'[r].completed = IF journal[r].started /\ journal[r].completed = 0
                                   THEN 1 ELSE journal[r].completed
    BY <1>0, <1>1, <1>3, Fields DEF TaskPart, JournalFollows
  <2>2. CASE TaskActive(r)
    <3>1. run'[r].st = "left" /\ journal[r].completed <= 1
      BY <1>4, <2>1, <2>2 DEF JournalOf, TaskActive
    <3> QED
      BY <2>1, <3>1 DEF JournalOf
  <2>3. CASE ~TaskActive(r)
    <3>1. run'[r] = run[r] /\ run[r].st \in {"none", "done", "gone"} /\ ~TaskActive(r)'
      BY <1>4, <2>3 DEF TaskActive
    <3> QED
      BY <2>1, <3>1 DEF JournalOf
  <2> QED
    BY <2>2, <2>3
<1> QED
  BY <1>6, <1>7, <1>10, <1>11, <1>12, <1>13 DEF IInv, TaskPart, JournalFollows

-----------------------------------------------------------------------------
(* The theorems *)

\* The backend starts with an idle control and no task.
LEMMA InitIInv == Init => IInv
<1> SUFFICES ASSUME Init PROVE IInv
  OBVIOUS
<1>0. 0 \in 0 .. MaxRuns
  BY ControlAssumption
<1>1. /\ job = NoJob /\ changed = FALSE /\ lock = "free" /\ handle = 0
      /\ run = [r \in Run |-> NoRun] /\ proc = [r \in Run |-> "none"]
      /\ journal = [r \in Run |-> [started |-> FALSE, completed |-> 0]]
      /\ op = [o \in Op |-> Idle] /\ owned = [o \in Canceller |-> {}]
      /\ agent = "off" /\ session = "open" /\ env \in EnvRow
  BY ControlAssumption DEF Init, EnvRow
<1>2. NoRun \in RunRow /\ NoRun.st = "none" /\ ~NoRun.cancel
  BY <1>0 DEF NoRun, RunRow, TaskState
<1>3. /\ \A r \in Run : run[r] = NoRun /\ ~journal[r].started /\ journal[r].completed = 0 /\ ~Live(r)
      /\ \A o \in Op : op[o] = Idle /\ op[o].pc = "idle" /\ op[o].act = "none"
      /\ \A k \in Canceller : owned[k] = {}
  BY <1>1, IdleFields DEF Live
<1>4. TypeOK
  <2>1. /\ job \in JobRow /\ run \in [Run -> RunRow] /\ proc \in [Run -> ProcState]
        /\ journal \in [Run -> JournalRow] /\ op \in [Op -> OpRow]
        /\ owned \in [Canceller -> SUBSET (0 .. MaxRuns)]
    BY <1>1, <1>2, NoJobFields, IdleFields DEF ProcState, JournalRow
  <2> QED
    BY <1>0, <1>1, <2>1 DEF TypeOK, JobRow, RunRow, OpRow, ProcState, JournalRow, EnvRow
<1>5. RunsNumbered
  <2>1. Used = {} /\ Retrying = {}
    BY <1>2, <1>3, OpNames DEF Used, Retrying
  <2>2. Used = 1 .. 0
    BY <2>1
  <2>3. Cardinality(Used) + Cardinality(Retrying) <= MaxRuns
    BY <2>1, FS_EmptySet, ControlAssumption
  <2> QED
    BY <1>0, <2>2, <2>3 DEF RunsNumbered
<1>6. \A r \in Run : /\ ~TaskActive(r) /\ ~Serves(r) /\ ~run[r].cancel
                     /\ run[r].st = "none" /\ run[r].st \notin Work
  BY <1>2, <1>3 DEF TaskActive, Serves, Work, Fresh
<1>7. ~JobActive /\ job.status = "none"
  BY <1>1, NoJobFields DEF JobActive, Running
<1>8. SingleTask /\ TaskServesJob /\ EventClear /\ JobServed /\ OneWorker
  BY <1>3, <1>6, <1>7 DEF SingleTask, TaskServesJob, EventClear, JobServed, OneWorker
<1>9. JournalFollows
  BY <1>1, <1>3, <1>6 DEF JournalFollows, JournalOf
<1>10. OpPart
  <2>1. LockHeld /\ StopMarks /\ CancelsMeet
    BY <1>1, <1>3, <1>6, OpNames DEF LockHeld, StopMarks, CancelsMeet, Holding
  <2>2. ASSUME NEW k \in Canceller PROVE CancelPart(k)
    BY <1>3, <1>6, OpNames DEF CancelPart, Phase, Owns, OwnedRetry, ShutStops
  <2> QED
    BY <2>1, <2>2 DEF OpPart
<1> QED
  BY <1>4, <1>5, <1>8, <1>9, <1>10 DEF IInv, TaskPart

\* A step that changes nothing.
LEMMA StutterStep ==
    ASSUME IInv, UNCHANGED vars
    PROVE  IInv'
<1>0. TypeOK /\ TaskPart /\ OpPart
  BY DEF IInv
<1>1. UNCHANGED <<job, changed, lock, handle, run, proc, journal, op, owned, agent, session, env>>
  BY DEF vars, control
<1>2. TypeOK'
  BY <1>0, <1>1 DEF TypeOK
<1>3. TasksStand
  BY <1>0, <1>1 DEF TasksStand, Live, JobActive, TaskPart, SingleTask
<1>4. TaskPart'
  BY <1>0, <1>1, <1>3, TasksKept
<1>5. RunsNumbered'
  BY <1>1 DEF IInv, RunsNumbered, Used, Retrying
<1>6. LockHeld' /\ StopMarks' /\ CancelsMeet'
  BY <1>0, <1>1 DEF OpPart, LockHeld, StopMarks, CancelsMeet, Gathers
<1>7. ASSUME NEW k \in Canceller PROVE CancelPart(k)'
  <2>1. SamePlace(k)
    BY <1>1 DEF SamePlace
  <2> QED
    BY <1>0, <1>1, <1>3, <2>1, CancelKept DEF OpPart
<1> QED
  BY <1>2, <1>4, <1>5, <1>6, <1>7 DEF IInv, OpPart

\* Every step keeps the invariant.
LEMMA NextIInv == IInv /\ [Next]_vars => IInv'
<1> SUFFICES ASSUME IInv, [Next]_vars PROVE IInv'
  OBVIOUS
<1>1. CASE \E kind \in Kinds : Schedule(kind)
  BY <1>1, ScheduleStep
<1>2. CASE StartAgent \/ EndAgent
  BY <1>2, AgentSteps
<1>3. CASE \E r \in Run : Task(r) \/ LeftTask(r) \/ Exit(r)
  BY <1>3, TaskStep, LeftStep, ExitStep
<1>4. CASE \E c \in Client, act \in {"stop", "retry"} : Request(c, act)
  BY <1>4, RequestStep
<1>5. CASE \E o \in Op : Control(o) \/ StopGivesUp(o)
  BY <1>5, StopIdleStep, StopStep, StopGoesOn, StopReturnsStep, StopTimesOutStep, RetryRefusedStep,
     RetryStep DEF Control
<1>6. CASE \E k \in Canceller : Cancel(k) \/ \E act \in {"cancel", "close"} : CancelBegin(k, act)
  BY <1>6, CancelBeginStep, CancelOwnedStep, CancelTasksStep, CancelGatheredStep, ShutSteps,
     CloseIdleStep DEF Cancel
<1>7. CASE Crash \/ Quit \/ Open \/ Reopen
  BY <1>7, EndSteps, OpenStep, ReopenStep
<1>8. CASE UNCHANGED vars
  BY <1>8, StutterStep
<1> QED
  BY <1>1, <1>2, <1>3, <1>4, <1>5, <1>6, <1>7, <1>8 DEF Next

\* The inductive invariant holds, through every interleaving of tasks, stops,
\* retries, cancels, closes, reopenings and deaths of the backend.
THEOREM Invariance == Spec => []IInv
  BY InitIInv, NextIInv, PTL DEF Spec

\* Never two workers that a task minds; such a worker is the one the host holds,
\* of the job the control reports as active, or that of a task that was left.
THEOREM NeverTwoWorkers == Spec => []OneWorker
<1>1. IInv => OneWorker
  BY DEF IInv, TaskPart
<1> QED
  BY <1>1, Invariance, PTL

\* An active job has a task that will settle it, unless its stop was satisfied
\* by the handle of an earlier attempt.
THEOREM ActiveJobsHaveTasks == Spec => []ActiveHasTask
<1>1. ASSUME IInv PROVE ActiveHasTask
  <2>0. TypeOK /\ TaskPart
    BY <1>1 DEF IInv
  <2>1. SUFFICES ASSUME JobActive
                 PROVE  \/ \E r \in Run : TaskActive(r) /\ run[r].job = job.id
                        \/ handle # 0 /\ ~Live(handle) /\ changed /\ job.stop
    BY DEF ActiveHasTask
  <2>2. CASE \E r \in Run : Serves(r)
    <3>1. PICK r \in Run : Serves(r)
      BY <2>2
    <3>2. TaskActive(r) /\ run[r].job = job.id
      BY <2>0, <3>1 DEF TaskPart, TaskServesJob, Serves, TaskActive, Work, Fresh
    <3> QED
      BY <3>2
  <2>3. CASE Stranded
    <3>1. handle \in Run
      BY <2>0, <2>3, ControlAssumption DEF Stranded, TypeOK, Run
    <3>2. run[handle].st \notin Work \union {"left"}
      BY <2>0, <2>3, <3>1 DEF Stranded, TaskPart, EventClear, JobServed
    <3>3. ~Live(handle)
      BY <2>0, <3>1, <3>2 DEF TaskPart, OneWorker, Work
    <3> QED
      BY <2>3, <3>3 DEF Stranded
  <2> QED
    BY <2>0, <2>1, <2>2, <2>3 DEF TaskPart, JobServed
<1>2. IInv => ActiveHasTask
  BY <1>1
<1> QED
  BY <1>2, Invariance, PTL

\* The journal has at most one end for a run, only for one that began and is
\* over, and in an open session exactly one; two only for a task that was left.
THEOREM JournalIsSettled == Spec => []JournalSettled
<1>1. ASSUME IInv PROVE JournalSettled
  <2>1. \A r \in Run : run[r].st \in TaskState /\ JournalOf(r)
    BY <1>1, Fields DEF IInv, TaskPart, JournalFollows
  <2> QED
    BY <2>1 DEF JournalOf, JournalSettled, TaskActive
<1>2. IInv => JournalSettled
  BY <1>1
<1> QED
  BY <1>2, Invariance, PTL

\* Only the normal return of a close that shuts makes a session closed.
LEMMA ClosedBy ==
    ASSUME IInv, [Next]_vars, session' = "closed", session # "closed"
    PROVE  \E k \in Canceller : /\ op[k].act = "shut"
                                /\ (StopIdle(k) /\ OwnJob(k)) \/ StopReturns(k) \/ CloseIdle(k)
<1>1. ASSUME NEW o \in Op, NEW normally \in BOOLEAN, Return(o, normally)
      PROVE  o \in Canceller /\ op[o].act = "shut" /\ normally
  <2>1. o \notin Client
    BY <1>1 DEF Return
  <2>2. op[o].act = "shut"
    BY <1>1, <2>1 DEF Return
  <2>3. session' = IF normally THEN "closed" ELSE "abandoned"
    BY <1>1, <2>1, <2>2 DEF Return
  <2> QED
    BY <2>1, <2>2, <2>3, OpNames
<1>2. ~ \E kind \in Kinds : Schedule(kind)
  BY DEF Schedule
<1>3. ~(StartAgent \/ EndAgent)
  BY DEF StartAgent, EndAgent
<1>4. ASSUME NEW r \in Run PROVE ~(Task(r) \/ LeftTask(r) \/ Exit(r))
  BY DEF Task, LeftTask, Exit, Begin, Approved, NotApproved, Spawn, ReadEnds, LastEnds, BadOutput,
     FeedEnds, Reap, End, CancelledUnbegun, CancelledApproval, CancelledSpawn, CancelledWork,
     CancelledFeed, CancelledReap, LeftStarts, LeftSpawns, LeftEnds
<1>5. ~ \E c \in Client, act \in {"stop", "retry"} : Request(c, act)
  BY DEF Request
<1>6. ASSUME NEW o \in Op, Control(o) \/ StopGivesUp(o)
      PROVE  o \in Canceller /\ op[o].act = "shut" /\ ((StopIdle(o) /\ OwnJob(o)) \/ StopReturns(o))
  <2>1. CASE StopIdle(o)
    <3>1. Return(o, OwnJob(o)) /\ OwnJob(o) \in BOOLEAN
      BY <2>1 DEF StopIdle, OwnJob
    <3> QED
      BY <1>1, <2>1, <3>1
  <2>2. CASE StopReturns(o)
    BY <1>1, <2>2 DEF StopReturns
  <2>3. CASE StopTimesOut(o) \/ RetryRefused(o)
    BY <1>1, <2>3 DEF StopTimesOut, RetryRefused
  <2>4. CASE Retry(o)
    <3>1. op[o].act = "retry" /\ Return(o, TRUE)
      BY <2>4 DEF Retry, AtRetry
    <3> QED
      BY <1>1, <3>1
  <2>5. CASE Stop(o) \/ StopKill(o) \/ StopUnneeded(o) \/ StopKilled(o) \/ StopGivesUp(o)
    BY <2>5 DEF Stop, StopKill, StopUnneeded, StopKilled, StopGivesUp
  <2> QED
    BY <1>6, <2>1, <2>2, <2>3, <2>4, <2>5 DEF Control
<1>7. ASSUME NEW k \in Canceller, Cancel(k) \/ \E act \in {"cancel", "close"} : CancelBegin(k, act)
      PROVE  op[k].act = "shut" /\ CloseIdle(k)
  <2>1. CASE CloseIdle(k)
    BY <1>1, <2>1, OpNames DEF CloseIdle
  <2>2. ~CancelGathered(k)
    BY DEF CancelGathered
  <2> QED
    BY <1>7, <2>1, <2>2 DEF Cancel, CancelOwned, CancelTasks, Retire, CloseStop, CancelBegin
<1>8. ~(Crash \/ Quit \/ Open \/ Reopen \/ UNCHANGED vars)
  BY DEF Crash, Quit, Open, Reopen, vars
<1> QED
  BY <1>2, <1>3, <1>4, <1>5, <1>6, <1>7, <1>8, OpNames DEF Next

\* A close that returns normally leaves no worker that a task minds and none of
\* the tasks it had listed; what is still active was started beside it.
THEOREM ClosesSettle == Spec => CloseSettles
<1>1. ASSUME IInv, [Next]_vars, session' = "closed", session # "closed", NEW r \in Run
      PROVE  /\ ~Live(r)
             /\ TaskActive(r) =>
                   /\ \A k \in Canceller : op[k].act = "shut" => r \notin owned[k]
                   /\ \/ run[r].st = "tail"
                      \/ run[r].st \in {"sched", "approve"} /\ (run[r].retry => job.stop)
  <2>0. TypeOK /\ TaskPart /\ OpPart /\ \A s \in Run : run[s].st \in TaskState
    BY <1>1, Fields DEF IInv
  <2>1. PICK k \in Canceller : /\ op[k].act = "shut"
                               /\ (StopIdle(k) /\ OwnJob(k)) \/ StopReturns(k) \/ CloseIdle(k)
    BY <1>1, ClosedBy
  <2>2. CancelPart(k) /\ k \in Op
    BY <2>0, OpNames DEF OpPart
  <2>3. ~JobActive \/ (changed /\ op[k].pc \in Holding)
    <3>1. CASE StopReturns(k)
      <4>1. op[k].pc \in Holding /\ (changed \/ job.id # op[k].job \/ ~JobActive)
        BY <3>1 DEF StopReturns, Woken, OwnJob, Holding
      <4> QED
        BY <2>1, <2>2, <4>1 DEF CancelPart, ShutStops
    <3>2. CASE (StopIdle(k) /\ OwnJob(k)) \/ CloseIdle(k)
      BY <3>2 DEF StopIdle, CloseIdle
    <3> QED
      BY <2>1, <3>1, <3>2
  <2>4. \A s \in Run : run[s].st \notin Work
    BY <2>0, <2>3 DEF TaskPart, EventClear, TaskServesJob, Serves
  <2>5. \A s \in Run : run[s].st # "left"
    BY <2>1, <2>2 DEF CancelPart, Phase, Owns, Holding, TaskActive
  <2>6. ~Live(r)
    BY <2>0, <2>4, <2>5 DEF TaskPart, OneWorker, Work
  <2>7. \A l \in Canceller : op[l].act = "shut" /\ TaskActive(r) => r \notin owned[l]
    BY <2>0 DEF OpPart, CancelPart, Owns
  <2>8. TaskActive(r) => run[r].st \in {"tail", "sched", "approve"}
    BY <2>0, <2>4, <2>5 DEF TaskActive, TaskState, Work
  <2>9. run[r].st \in Fresh /\ run[r].retry => job.stop
    BY <2>0, <2>2, <2>3 DEF TaskPart, TaskServesJob, Serves, OpPart, StopMarks
  <2> QED
    BY <2>6, <2>7, <2>8, <2>9 DEF Fresh
<1>2. IInv /\ [Next]_vars =>
        [session' = "closed" /\ session # "closed" =>
          \A r \in Run :
              /\ ~Live(r)
              /\ TaskActive(r) =>
                    /\ \A k \in Canceller : op[k].act = "shut" => r \notin owned[k]
                    /\ \/ run[r].st = "tail"
                       \/ run[r].st \in {"sched", "approve"} /\ (run[r].retry => job.stop)]_vars
  BY <1>1
<1> QED
  BY <1>2, Invariance, PTL DEF CloseSettles, Spec

\* A stop that returns normally leaves no task of its job that minds a worker or
\* is about to make one: the event it waited for is clear while a task works.
THEOREM StopsSettle == Spec => StopIsSettled
<1>1. ASSUME IInv, NEW o \in Op, StopReturns(o), NEW r \in Run, run[r].job = op[o].job
      PROVE  ~(Live(r) \/ run[r].st \in {"spawn", "read", "feed", "reap"})
  <2>0. TypeOK /\ TaskPart /\ OpPart
    BY <1>1 DEF IInv
  <2>1. op[o].pc \in Holding /\ (changed \/ job.id # op[o].job \/ ~JobActive)
    BY <1>1 DEF StopReturns, Woken, OwnJob, Holding
  <2>2. run[r].st \notin Work
    BY <1>1, <2>0, <2>1 DEF TaskPart, EventClear, TaskServesJob, Serves
  <2>3. run[r].job # 0
    BY <1>1, <2>0, <2>1 DEF OpPart, LockHeld
  <2>4. run[r].st # "left"
    BY <2>0, <2>3 DEF TaskPart, SingleTask
  <2>5. ~Live(r)
    BY <2>0, <2>2, <2>4 DEF TaskPart, OneWorker, Work
  <2> QED
    BY <2>2, <2>5 DEF Work
<1>2. IInv => [\A o \in Op : StopReturns(o) =>
                 ~ \E r \in Run : /\ run[r].job = op[o].job
                                  /\ Live(r) \/ run[r].st \in {"spawn", "read", "feed", "reap"}]_vars
  BY <1>1
<1> QED
  BY <1>2, Invariance, PTL DEF StopIsSettled
=============================================================================
