-------------------------- MODULE WorkflowControl --------------------------
(***************************************************************************)
(* Workflows of one conversation of the studio backend                     *)
(* (lg-cli/lg_cli/workflow_control.py, and the scheduling, cancelling,     *)
(* closing and opening of backend.py and backend_analysis.py).  A workflow *)
(* is a job of WorkflowControl: a worker process, run by a task of the     *)
(* backend, which the agent or the author may stop and retry.              *)
(*                                                                         *)
(* Everything runs on one asyncio loop: an action is what runs between two *)
(* awaits.  A cancelled task sees the cancellation at its next resumption. *)
(* The waiters of the action lock are served in any order.                 *)
(*                                                                         *)
(* Every request of the client is served by a task of its own: runs are    *)
(* started, cancelled and the session closed beside each other.            *)
(*                                                                         *)
(* A job is named by its first run.  Arguments, output, guidance, numbers  *)
(* of attempts and what a worker does to the book are left out.  A death   *)
(* of the backend ends everything but the journal; a worker that outlives  *)
(* it belongs to nobody and is left out as well.                           *)
(***************************************************************************)
EXTENDS Integers, FiniteSets

CONSTANTS
    MaxRuns,     \* bound on runs
    Canceller,   \* the requests run/cancel and session/close that may be under way
    Scenario     \* what the client and the environment may do: the kinds of workflow
                 \* in use and bounds on requests to stop, on cancels and closes, and
                 \* on slow steps and deaths of the backend

(* command: a writing command, whose request is fed to the worker;         *)
(* analysis: needs an approval for every attempt; review: part of an       *)
(* accepting operation, never retried.                                     *)
Kinds == {"command", "analysis", "review"}

ASSUME ControlAssumption ==
    /\ MaxRuns \in Nat
    /\ Canceller \intersect {"socket", "author", "free"} = {}
    /\ Scenario \subseteq [kinds : SUBSET Kinds, stops : Nat, cancels : Nat, faults : Nat]

Run == 1 .. MaxRuns
Client == {"socket", "author"}     \* workflow tools of the agent; author_control
Op == Client \union Canceller
TaskState == {"none", "sched", "approve", "spawn", "read", "feed", "last", "reap", "tail",
              "done", "left", "gone"}
Running == {"starting", "running", "stopping"}
Settled == {"stopped", "completed", "failed"}

VARIABLES
    job,      \* WorkflowControl.job
    changed,  \* its event _changed
    lock,     \* who holds its _action_lock
    handle,   \* the run whose process ProcessHost.process is, 0 for None
    run,      \* the tasks of the backend
    proc,     \* the worker process of every run
    journal,  \* what the event journal says of every run
    op,       \* the coroutines of stop, retry and cancel
    owned,    \* the tasks each cancel() will cancel; 0 is the task of the agent
    agent,    \* the task of the agent: off, on, ending; left and leaving of an
              \* earlier opening of the session
    session,  \* open, popped, closed, abandoned, down
    env       \* what is left of the scenario

control == <<job, changed, lock, handle>>
vars == <<control, run, proc, journal, op, owned, agent, session, env>>

NoJob == [id |-> 0, kind |-> "none", status |-> "none", stop |-> FALSE]
NoRun == [st |-> "none", job |-> 0, kind |-> "none", retry |-> FALSE, cancel |-> FALSE]
Over == [st |-> "done", job |-> 0, kind |-> "none", retry |-> FALSE, cancel |-> FALSE]
Idle == [pc |-> "idle", act |-> "none", job |-> 0, target |-> 0, end |-> "ok"]

Init ==
    /\ job = NoJob /\ changed = FALSE /\ lock = "free" /\ handle = 0
    /\ run = [r \in Run |-> NoRun]
    /\ proc = [r \in Run |-> "none"]
    /\ journal = [r \in Run |-> [started |-> FALSE, completed |-> 0]]
    /\ op = [o \in Op |-> Idle]
    /\ owned = [o \in Canceller |-> {}] /\ agent = "off" /\ session = "open"
    /\ env \in Scenario

---------------------------------------------------------------------------
(* Scheduling *)

JobActive == job.status \in Running
TaskActive(r) == run[r].st \notin {"none", "done", "gone"}
RunActive == \E r \in Run : TaskActive(r)

(* A worker whose task minds it, and one whose task is gone. *)
Live(r) == proc[r] \in {"live", "dying"}
Lost(r) == proc[r] \in {"lost", "falling"}

Used == {r \in Run : run[r].st # "none"}
Retrying == {c \in Client : op[c].act = "retry"}
RunsLeft == Cardinality(Used) + Cardinality(Retrying) < MaxRuns   \* MaxRuns
NextRun == Cardinality(Used) + 1

Scheduled(kind, id, retry) ==
    [st |-> "sched", job |-> id, kind |-> kind, retry |-> retry, cancel |-> FALSE]

(* The author starts a workflow, also while the session is being closed.   *)
(* A task of an earlier opening of the session counts as active as well.   *)
Schedule(kind) ==
    /\ session = "open" /\ kind \in env.kinds /\ RunsLeft
    /\ ~RunActive /\ agent = "off"
    /\ kind # "review" => ~JobActive
    /\ run' = [run EXCEPT ![NextRun] = Scheduled(kind, NextRun, FALSE)]
    /\ UNCHANGED <<control, proc, journal, op, owned, agent, session, env>>

(* A turn of the agent may run beside a workflow, not beside an operation. *)
StartAgent ==
    /\ session = "open" /\ agent = "off"
    /\ ~ \E r \in Run : TaskActive(r) /\ run[r].kind = "review"
    /\ agent' = "on"
    /\ UNCHANGED <<control, run, proc, journal, op, owned, session, env>>

EndAgent ==
    /\ agent # "off" /\ op["author"] = Idle
    /\ agent' = "off"
    /\ owned' = [o \in Canceller |-> owned[o] \ {0}]
    /\ UNCHANGED <<control, run, proc, journal, op, session, env>>

---------------------------------------------------------------------------
(* The task of a run *)

(* The run is over, or has awaits left: the animation of a retry, what     *)
(* follows the review of an acceptance.  j is the journal so far.          *)
Leave(r, j) ==
    IF run[r].retry \/ run[r].kind = "review"
    THEN /\ run' = [run EXCEPT ![r].st = "tail", ![r].cancel = FALSE]
         /\ journal' = j
    ELSE /\ run' = [run EXCEPT ![r] = Over]
         /\ journal' = [j EXCEPT ![r].completed = @ + 1]

(* _execute ends: the job has a status and whoever waits for it wakes.     *)
(* The host forgets its process, h = 0, only at the end of run_command.    *)
SettleJob(r, status, h, j) ==
    /\ job' = [job EXCEPT !.status = status]
    /\ changed' = TRUE
    /\ handle' = h
    /\ proc' = [proc EXCEPT ![r] = "none"]
    /\ Leave(r, j)

(* Mutant: the event of the last attempt is not cleared. *)
ExecuteUncleared(r, next, j) ==
    IF next.stop
    THEN SettleJob(r, "stopped", handle, j)
    ELSE /\ job' = [next EXCEPT !.status = "running"]
         /\ run' = [run EXCEPT ![r].st = "spawn"]
         /\ journal' = j
         /\ UNCHANGED <<changed, handle, proc>>

(* _execute begins, unless the job was stopped before it came to that. *)
Execute(r, next, j) ==
    IF next.stop
    THEN SettleJob(r, "stopped", handle, j)
    ELSE /\ job' = [next EXCEPT !.status = "running"]
         /\ changed' = FALSE
         /\ run' = [run EXCEPT ![r].st = "spawn"]
         /\ journal' = j
         /\ UNCHANGED <<handle, proc>>

(* The first attempt makes the job, a retry goes on with it. *)
ControlRun(r, j) ==
    IF run[r].retry
    THEN Execute(r, job, j)
    ELSE IF JobActive
    THEN Leave(r, j) /\ UNCHANGED <<job, changed, handle, proc>>
    ELSE Execute(r, [id |-> r, kind |-> run[r].kind, status |-> "starting", stop |-> FALSE], j)

(* The first step of a task emits run/started. *)
Begin(r) ==
    /\ run[r].st = "sched" /\ ~run[r].cancel
    /\ LET begun == [journal EXCEPT ![r].started = TRUE]
       IN  IF run[r].kind = "command"
           THEN ControlRun(r, begun)
           ELSE /\ run' = [run EXCEPT ![r].st = "approve"]
                /\ journal' = begun
                /\ UNCHANGED <<job, changed, handle, proc>>
    /\ UNCHANGED <<lock, op, owned, agent, session, env>>

(* The author approves what is still as it was previewed.  A stop of a     *)
(* retried job goes before the answer.                                     *)
Approved(r) ==
    /\ run[r].st = "approve" /\ ~run[r].cancel
    /\ ControlRun(r, journal)
    /\ UNCHANGED <<lock, op, owned, agent, session, env>>

(* Declined, cancelled or stopped; or the source has changed. *)
NotApproved(r) ==
    /\ run[r].st = "approve" /\ ~run[r].cancel
    /\ IF run[r].retry
       THEN \E status \in {"stopped", "failed"} : SettleJob(r, status, handle, journal)
       ELSE Leave(r, journal) /\ UNCHANGED <<job, changed, handle, proc>>
    /\ UNCHANGED <<lock, op, owned, agent, session, env>>

Spawn(r) ==
    /\ run[r].st = "spawn" /\ ~run[r].cancel
    /\ \/ /\ proc' = [proc EXCEPT ![r] = "live"] /\ handle' = r
          /\ run' = [run EXCEPT ![r].st = "read"]
          /\ UNCHANGED <<job, changed, journal>>
       \/ SettleJob(r, "failed", handle, journal)
    /\ UNCHANGED <<lock, op, owned, agent, session, env>>

(* The worker ends by itself, or because it was signalled. *)
Exit(r) ==
    /\ \/ Live(r) /\ \E code \in {"ok", "bad"} : proc' = [proc EXCEPT ![r] = code]
       \/ Lost(r) /\ proc' = [proc EXCEPT ![r] = "none"]
    /\ UNCHANGED <<control, run, journal, op, owned, agent, session, env>>

(* on_finish may refuse the result of a command. *)
Finish(r) ==
    \E status \in Settled :
        /\ (status = "stopped") <=> job.stop
        /\ status = "completed" => proc[r] = "ok"
        /\ status = "failed" => proc[r] = "bad" \/ run[r].kind = "command"
        /\ SettleJob(r, status, 0, journal)

(* The worker has ended; run_command returns when the feeding has as well. *)
ReadEnds(r) ==
    /\ run[r].st = "read" /\ ~run[r].cancel /\ ~Live(r)
    /\ IF run[r].kind = "command"
       THEN /\ run' = [run EXCEPT ![r].st = "last"]
            /\ UNCHANGED <<job, changed, handle, proc, journal>>
       ELSE Finish(r)
    /\ UNCHANGED <<lock, op, owned, agent, session, env>>

LastEnds(r) ==
    /\ run[r].st = "last" /\ ~run[r].cancel
    /\ Finish(r)
    /\ UNCHANGED <<lock, op, owned, agent, session, env>>

(* Mutant: the signal does not reach the worker. *)
SignalLost(r) == UNCHANGED proc

Signal(r) ==
    proc' = [proc EXCEPT ![r] = CASE Live(r) -> "dying" [] Lost(r) -> "falling" [] OTHER -> @]

(* run_command fails: the feeding is ended, and awaited, before the worker *)
(* is signalled.                                                           *)
Fail(r) ==
    IF run[r].kind = "command"
    THEN /\ run' = [run EXCEPT ![r].st = "feed", ![r].cancel = FALSE]
         /\ UNCHANGED <<job, changed, handle, proc, journal>>
    ELSE IF Live(r)
    THEN /\ Signal(r)
         /\ run' = [run EXCEPT ![r].st = "reap", ![r].cancel = FALSE]
         /\ UNCHANGED <<job, changed, handle, journal>>
    ELSE SettleJob(r, "failed", 0, journal)

(* A record of the output cannot be read. *)
BadOutput(r) ==
    /\ run[r].st = "read" /\ ~run[r].cancel
    /\ Fail(r)
    /\ UNCHANGED <<lock, op, owned, agent, session, env>>

FeedEnds(r) ==
    /\ run[r].st = "feed" /\ ~run[r].cancel
    /\ IF Live(r)
       THEN /\ Signal(r)
            /\ run' = [run EXCEPT ![r].st = "reap"]
            /\ UNCHANGED <<job, changed, handle, journal>>
       ELSE SettleJob(r, "failed", 0, journal)
    /\ UNCHANGED <<lock, op, owned, agent, session, env>>

Reap(r) ==
    /\ run[r].st = "reap" /\ ~run[r].cancel /\ ~Live(r)
    /\ SettleJob(r, "failed", 0, journal)
    /\ UNCHANGED <<lock, op, owned, agent, session, env>>

End(r) ==
    /\ run[r].st = "tail"
    /\ run' = [run EXCEPT ![r] = Over]
    /\ journal' = [journal EXCEPT ![r].completed = @ + 1]
    /\ UNCHANGED <<control, proc, op, owned, agent, session, env>>

(* The task resumes with a cancellation.  One that never began does not    *)
(* even emit its start.                                                    *)
CancelledUnbegun(r) ==
    /\ run[r].st = "sched" /\ run[r].cancel
    /\ run' = [run EXCEPT ![r] = Over]
    /\ UNCHANGED <<control, proc, journal, op, owned, agent, session, env>>

CancelledApproval(r) ==
    /\ run[r].st = "approve" /\ run[r].cancel
    /\ IF run[r].retry
       THEN SettleJob(r, "stopped", handle, journal)
       ELSE Leave(r, journal) /\ UNCHANGED <<job, changed, handle, proc>>
    /\ UNCHANGED <<lock, op, owned, agent, session, env>>

CancelledSpawn(r) ==
    /\ run[r].st = "spawn" /\ run[r].cancel
    /\ SettleJob(r, "failed", handle, journal)
    /\ UNCHANGED <<lock, op, owned, agent, session, env>>

(* Mutant: the cancelled task leaves its worker to itself. *)
CancelledLeavesWorker(r) ==
    /\ run[r].st = "read" /\ run[r].cancel
    /\ job' = [job EXCEPT !.status = "failed"] /\ changed' = TRUE /\ handle' = 0
    /\ Leave(r, journal)
    /\ UNCHANGED <<lock, proc, op, owned, agent, session, env>>

CancelledWork(r) ==
    /\ run[r].st = "read" /\ run[r].cancel
    /\ Fail(r)
    /\ UNCHANGED <<lock, op, owned, agent, session, env>>

(* Cancelled while the feeding ends: the rest of run_command is skipped.   *)
(* The host keeps the handle, and a worker that lives is not signalled.    *)
CancelledFeed(r) ==
    /\ run[r].st \in {"feed", "last"} /\ run[r].cancel
    /\ job' = [job EXCEPT !.status = "failed"] /\ changed' = TRUE
    /\ proc' = [proc EXCEPT ![r] = CASE @ = "live" -> "lost" [] @ = "dying" -> "falling"
                                      [] OTHER -> "none"]
    /\ Leave(r, journal)
    /\ UNCHANGED <<handle, lock, op, owned, agent, session, env>>

(* Cancelled while it waits for the end of its worker: the worker gets its *)
(* SIGKILL, but the host keeps the handle.                                 *)
CancelledReap(r) ==
    /\ run[r].st = "reap" /\ run[r].cancel
    /\ SettleJob(r, "failed", handle, journal)
    /\ UNCHANGED <<lock, op, owned, agent, session, env>>

(* A task of an earlier opening of the session goes on with the control,   *)
(* the host and the journal of that opening.                               *)
LeftStarts(r) ==
    /\ run[r].st = "left" /\ ~run[r].cancel /\ ~journal[r].started
    /\ journal' = [journal EXCEPT ![r].started = TRUE]
    /\ UNCHANGED <<control, run, proc, op, owned, agent, session, env>>

LeftSpawns(r) ==
    /\ run[r].st = "left" /\ ~run[r].cancel /\ journal[r].started /\ proc[r] = "none"
    /\ proc' = [proc EXCEPT ![r] = "live"]
    /\ UNCHANGED <<control, run, journal, op, owned, agent, session, env>>

LeftEnds(r) ==
    /\ run[r].st = "left" /\ (journal[r].started \/ run[r].cancel)
    /\ run' = [run EXCEPT ![r] = [Over EXCEPT !.st = "gone"]]
    /\ \E p \in {"none", "lost"} :
          /\ p = "lost" => Live(r) /\ run[r].cancel /\ run[r].kind = "command"
          /\ proc' = [proc EXCEPT ![r] = p]
    /\ journal' = [journal EXCEPT ![r].completed = IF journal[r].started THEN @ + 1 ELSE @]
    /\ UNCHANGED <<control, op, owned, agent, session, env>>

Task(r) ==
    \/ Begin(r) \/ Approved(r) \/ NotApproved(r) \/ Spawn(r) \/ ReadEnds(r) \/ LastEnds(r)
    \/ BadOutput(r) \/ FeedEnds(r) \/ Reap(r) \/ End(r)
    \/ CancelledUnbegun(r) \/ CancelledApproval(r) \/ CancelledSpawn(r)
    \/ CancelledWork(r) \/ CancelledFeed(r) \/ CancelledReap(r)

LeftTask(r) == LeftStarts(r) \/ LeftSpawns(r) \/ LeftEnds(r)

---------------------------------------------------------------------------
(* stop and retry *)

Free(o) == IF lock = o THEN "free" ELSE lock

(* A client's request is answered.  The stop of a cancel returns or        *)
(* raises, which the cancel remembers; the stop of control.close ends the  *)
(* close.                                                                  *)
Return(o, normally) ==
    CASE o \in Client ->
           op' = [op EXCEPT ![o] = Idle] /\ UNCHANGED session
      [] o \notin Client /\ op[o].act # "shut" ->
           /\ op' = [op EXCEPT ![o] = [Idle EXCEPT !.pc = "interrupt", !.act = op[o].act,
                                                  !.end = IF normally THEN "ok" ELSE "raise"]]
           /\ UNCHANGED session
      [] o \notin Client /\ op[o].act = "shut" ->
           /\ op' = [op EXCEPT ![o] = Idle]
           /\ session' = IF normally THEN "closed" ELSE "abandoned"

(* The tools of the agent reach the control by its socket, open session or *)
(* not; the author's words reach the control of the open session by the    *)
(* task of the agent.                                                      *)
Request(c, act) ==
    /\ IF c = "socket" THEN agent \in {"on", "ending"}
                       ELSE agent \in {"on", "left"} /\ session = "open"
    /\ op[c] = Idle /\ job.id # 0
    /\ IF act = "retry" THEN RunsLeft /\ UNCHANGED env
       ELSE env.stops > 0 /\ env' = [env EXCEPT !.stops = @ - 1]
    /\ op' = [op EXCEPT ![c] = [Idle EXCEPT !.pc = "lock", !.act = act, !.job = job.id]]
    /\ UNCHANGED <<control, run, proc, journal, owned, agent, session>>

AtLock(o) == op[o].pc = "lock" /\ lock = "free"
AtStop(o) == AtLock(o) /\ op[o].act # "retry"
AtRetry(c) == AtLock(c) /\ op[c].act = "retry"

(* The job a stop or a retry was asked for is the one there is. *)
OwnJob(o) == job.id = op[o].job

StopIdle(o) ==
    /\ AtStop(o)
    /\ ~OwnJob(o) \/ ~JobActive
    /\ Return(o, OwnJob(o))
    /\ UNCHANGED <<control, run, proc, journal, owned, agent, env>>

Stop(o) ==
    /\ AtStop(o)
    /\ OwnJob(o) /\ JobActive
    /\ lock' = o
    /\ job' = [job EXCEPT !.stop = TRUE, !.status = "stopping"]
    /\ op' = [op EXCEPT ![o].pc = "handle"]
    /\ UNCHANGED <<changed, handle, run, proc, journal, owned, agent, session, env>>

(* The poll for a process ends: there is one, or the job is over. *)
StopKill(o) ==
    /\ op[o].pc = "handle" /\ handle # 0
    /\ Signal(handle)
    /\ op' = [op EXCEPT ![o].pc = "kill", ![o].target = handle]
    /\ UNCHANGED <<control, run, journal, owned, agent, session, env>>

StopUnneeded(o) ==
    /\ op[o].pc = "handle" /\ handle = 0 /\ ~JobActive
    /\ op' = [op EXCEPT ![o].pc = "changed"]
    /\ UNCHANGED <<control, run, proc, journal, owned, agent, session, env>>

(* It ends after two seconds while the approval is still being given up,   *)
(* or the process still being made.                                        *)
StopGivesUp(o) ==
    /\ op[o].pc = "handle" /\ handle = 0
    /\ \E r \in Run : run[r].st \in {"approve", "spawn"}
    /\ env.faults > 0 /\ env' = [env EXCEPT !.faults = @ - 1]
    /\ op' = [op EXCEPT ![o].pc = "changed"]
    /\ UNCHANGED <<control, run, proc, journal, owned, agent, session>>

(* stop_workflow_process waits for the end, with SIGKILL when SIGTERM does *)
(* not do.                                                                 *)
StopKilled(o) ==
    /\ op[o].pc = "kill" /\ ~Live(op[o].target) /\ ~Lost(op[o].target)
    /\ op' = [op EXCEPT ![o].pc = "changed", ![o].target = 0]
    /\ UNCHANGED <<control, run, proc, journal, owned, agent, session, env>>

(* The event is set, or it was when the job ended and the next job has     *)
(* cleared it since.                                                       *)
Woken(o) == changed \/ ~OwnJob(o) \/ ~JobActive

StopReturns(o) ==
    /\ op[o].pc = "changed" /\ Woken(o)
    /\ lock' = "free"
    /\ Return(o, TRUE)
    /\ UNCHANGED <<job, changed, handle, run, proc, journal, owned, agent, env>>

(* After twelve seconds, when a worker was missed: it was made after the   *)
(* poll, or the handle was of an earlier one.                              *)
StopTimesOut(o) ==
    /\ op[o].pc = "changed" /\ ~Woken(o)
    /\ \E r \in Run : run[r].st = "spawn" \/ Live(r)
    /\ lock' = "free"
    /\ Return(o, FALSE)
    /\ UNCHANGED <<job, changed, handle, run, proc, journal, owned, agent, env>>

(* schedule() lets a retry run beside the agent, and beside nothing else. *)
Retriable ==
    /\ job.status \in {"failed", "stopped"} /\ job.kind # "review"
    /\ session = "open" /\ ~RunActive

(* Mutant: a refused retry does not put the job back. *)
RetryUnrestored(c) ==
    /\ AtRetry(c)
    /\ ~OwnJob(c) \/ ~Retriable
    /\ job' = IF job.status \in {"failed", "stopped"}
              THEN [job EXCEPT !.stop = FALSE, !.status = "starting"] ELSE job
    /\ Return(c, FALSE)
    /\ UNCHANGED <<changed, lock, handle, run, proc, journal, owned, agent, env>>

RetryRefused(c) ==
    /\ AtRetry(c)
    /\ ~OwnJob(c) \/ ~Retriable
    /\ Return(c, FALSE)
    /\ UNCHANGED <<control, run, proc, journal, owned, agent, env>>

Retry(c) ==
    /\ AtRetry(c)
    /\ OwnJob(c) /\ Retriable
    /\ job' = [job EXCEPT !.stop = FALSE, !.status = "starting"]
    /\ run' = [run EXCEPT ![NextRun] = Scheduled(job.kind, job.id, TRUE)]
    /\ Return(c, TRUE)
    /\ UNCHANGED <<changed, lock, handle, proc, journal, owned, agent, env>>

Control(o) ==
    \/ StopIdle(o) \/ Stop(o) \/ StopKill(o) \/ StopUnneeded(o)
    \/ StopKilled(o) \/ StopReturns(o) \/ StopTimesOut(o)
    \/ RetryRefused(o) \/ Retry(o)

---------------------------------------------------------------------------
(* run/cancel and session/close *)

(* The job is stopped, if there is one to stop. *)
StopActive(otherwise) == IF JobActive THEN "lock" ELSE otherwise

(* What is to be cancelled is fixed before the job is stopped. *)
List(k, act) ==
    /\ owned' = [owned EXCEPT ![k] = {r \in Run : TaskActive(r)} \union {0 : a \in {agent} \ {"off"}}]
    /\ op' = [op EXCEPT ![k] = [Idle EXCEPT !.pc = StopActive("interrupt"), !.act = act, !.job = job.id]]

(* The requests of the agent's tools are cancelled first, and awaited. *)
CancelBegin(k, act) ==
    /\ session = "open" /\ op[k] = Idle
    /\ k = CHOOSE free \in Canceller : op[free] = Idle
    /\ env.cancels > 0 /\ env' = [env EXCEPT !.cancels = @ - 1]
    /\ IF op["socket"] = Idle
       THEN List(k, act) /\ UNCHANGED lock
       ELSE /\ op' = [op EXCEPT ![k] = [Idle EXCEPT !.pc = "owned", !.act = act], !["socket"] = Idle]
            /\ lock' = Free("socket")
            /\ UNCHANGED owned
    /\ UNCHANGED <<job, changed, handle, run, proc, journal, agent, session>>

CancelOwned(k) ==
    /\ op[k].pc = "owned"
    /\ List(k, op[k].act)
    /\ UNCHANGED <<control, run, proc, journal, agent, session, env>>

(* After at most two seconds for the interruption of the agent's turn. *)
CancelTasks(k) ==
    /\ op[k].pc = "interrupt"
    /\ run' = [r \in Run |-> [run[r] EXCEPT !.cancel = @ \/ (r \in owned[k] /\ TaskActive(r))]]
    /\ agent' = CASE 0 \in owned[k] /\ agent = "on" -> "ending"
                  [] 0 \in owned[k] /\ agent = "left" -> "leaving"
                  [] OTHER -> agent
    /\ op' = [op EXCEPT ![k].pc = "gather",
                        !["author"] = IF 0 \in owned[k] THEN Idle ELSE @]
    /\ lock' = IF 0 \in owned[k] THEN Free("author") ELSE lock
    /\ UNCHANGED <<job, changed, handle, proc, journal, owned, session, env>>

(* The agent is replaced.  Of two cancels that close the same one the      *)
(* later finds the session locked by what the other put in its place, and  *)
(* raises, unless the session was closed in between: then it locks it      *)
(* again, for nobody.  A close goes on when its cancel did not raise and   *)
(* the session is still there.                                             *)
Replaces(k) == op[k].end # "stale" \/ session = "closed"

CancelGathered(k) ==
    /\ op[k].pc = "gather"
    /\ \A r \in owned[k] : r # 0 /\ ~TaskActive(r)
    /\ LET pops == op[k].act = "close" /\ op[k].end = "ok" /\ session = "open"
       IN  /\ op' = [o \in Op |->
                        IF o = k THEN IF pops THEN [op[k] EXCEPT !.pc = "retire", !.act = "shut"] ELSE Idle
                        ELSE IF Replaces(k) /\ op[o].pc \in {"interrupt", "gather"}
                        THEN [op[o] EXCEPT !.end = "stale"] ELSE op[o]]
           /\ session' = CASE pops -> "popped"
                           [] session = "closed" -> "abandoned"
                           [] OTHER -> session
           /\ owned' = IF pops THEN owned ELSE [owned EXCEPT ![k] = {}]
    /\ UNCHANGED <<control, run, proc, journal, agent, env>>

(* control.close: the endpoint goes, then the job that is left. *)
Retire(k) ==
    /\ op[k].pc = "retire"
    /\ op' = [op EXCEPT ![k].pc = "stop", !["socket"] = Idle]
    /\ lock' = Free("socket")
    /\ UNCHANGED <<job, changed, handle, run, proc, journal, owned, agent, session, env>>

CloseStop(k) ==
    /\ op[k].pc = "stop" /\ JobActive
    /\ op' = [op EXCEPT ![k].pc = "lock", ![k].job = job.id]
    /\ UNCHANGED <<control, run, proc, journal, owned, agent, session, env>>

(* Mutant: closing does not look for a job that is left. *)
CloseAnyway(k) ==
    /\ op[k].pc = "stop"
    /\ Return(k, TRUE)
    /\ UNCHANGED <<control, run, proc, journal, owned, agent, env>>

CloseIdle(k) ==
    /\ op[k].pc = "stop" /\ ~JobActive
    /\ Return(k, TRUE)
    /\ UNCHANGED <<control, run, proc, journal, owned, agent, env>>

Cancel(k) ==
    \/ CancelOwned(k) \/ CancelTasks(k) \/ CancelGathered(k)
    \/ Retire(k) \/ CloseStop(k) \/ CloseIdle(k)

---------------------------------------------------------------------------
(* The session is opened again, and what the journal says is unfinished is *)
(* closed in it: by the next backend, or by the same one.                  *)

Vanish ==
    /\ job' = NoJob /\ changed' = FALSE /\ lock' = "free" /\ handle' = 0
    /\ run' = [r \in Run |-> IF TaskActive(r) THEN Over ELSE run[r]]
    /\ proc' = [r \in Run |-> "none"]
    /\ op' = [o \in Op |-> Idle]
    /\ owned' = [k \in Canceller |-> {}] /\ agent' = "off"

Crash ==
    /\ session # "down"
    /\ env.faults > 0 /\ env' = [env EXCEPT !.faults = @ - 1]
    /\ session' = "down"
    /\ Vanish
    /\ UNCHANGED journal

(* The backend ends after it has closed its sessions. *)
Quit ==
    /\ session \in {"closed", "abandoned"}
    /\ session' = "down"
    /\ Vanish
    /\ UNCHANGED <<journal, env>>

Interrupted ==
    [r \in Run |-> IF journal[r].started /\ journal[r].completed = 0
                   THEN [journal[r] EXCEPT !.completed = 1] ELSE journal[r]]

(* Mutant: runs left unfinished are not closed. *)
OpenUnfinished ==
    /\ session = "down"
    /\ session' = "open"
    /\ UNCHANGED <<control, run, proc, journal, op, owned, agent, env>>

Open ==
    /\ session = "down"
    /\ session' = "open"
    /\ journal' = Interrupted
    /\ UNCHANGED <<control, run, proc, op, owned, agent, env>>

(* In the same backend the session gets a new control and a new host, and  *)
(* the requests of the old control have no effect on them.  A task that    *)
(* the close did not find is left, and still counts as active.             *)
Reopen ==
    /\ session = "closed"
    /\ session' = "open"
    /\ journal' = Interrupted
    /\ job' = NoJob /\ changed' = FALSE /\ lock' = "free" /\ handle' = 0
    /\ run' = [r \in Run |-> IF TaskActive(r)
                             THEN [run[r] EXCEPT !.st = "left", !.job = 0, !.retry = FALSE]
                             ELSE run[r]]
    /\ op' = [o \in Op |-> Idle]
    /\ owned' = [k \in Canceller |-> {}]
    /\ agent' = CASE agent = "on" -> "left" [] agent = "ending" -> "leaving" [] OTHER -> agent
    /\ UNCHANGED <<proc, env>>

Next ==
    \/ \E kind \in Kinds : Schedule(kind)
    \/ StartAgent \/ EndAgent
    \/ \E r \in Run : Task(r) \/ LeftTask(r) \/ Exit(r)
    \/ \E c \in Client, act \in {"stop", "retry"} : Request(c, act)
    \/ \E o \in Op : Control(o) \/ StopGivesUp(o)
    \/ \E k \in Canceller : Cancel(k) \/ \E act \in {"cancel", "close"} : CancelBegin(k, act)
    \/ Crash \/ Quit \/ Open \/ Reopen

Spec == Init /\ [][Next]_vars

(* The loop runs what is ready: every task, the coroutines of stop, retry  *)
(* and cancel.  A task that waits for an approval does so until it is      *)
(* stopped or cancelled, and so may a task that is left; a worker runs as  *)
(* long as it likes until it is signalled, SIGKILL being the last signal;  *)
(* the cancelled turn of an agent ends.                                    *)
Moves(r) ==
    \/ (run[r].st # "approve" \/ run[r].cancel \/ (run[r].retry /\ job.stop)) /\ Task(r)
    \/ run[r].cancel /\ LeftEnds(r)

Serve(o) == Control(o) \/ (o \in Canceller /\ Cancel(o))

Fairness ==
    /\ \A r \in Run : WF_vars(Moves(r)) /\ WF_vars(proc[r] \in {"dying", "falling"} /\ Exit(r))
    /\ \A o \in Op : WF_vars(Serve(o))
    /\ WF_vars(agent \in {"ending", "leaving"} /\ EndAgent)

FairSpec == Spec /\ Fairness

---------------------------------------------------------------------------
(* Properties *)

(* The types of the state. *)
TypeOK ==
    /\ job \in [id : 0 .. MaxRuns, kind : Kinds \union {"none"},
                status : Running \union Settled \union {"none"}, stop : BOOLEAN]
    /\ changed \in BOOLEAN /\ lock \in Op \union {"free"} /\ handle \in 0 .. MaxRuns
    /\ run \in [Run -> [st : TaskState, job : 0 .. MaxRuns, kind : Kinds \union {"none"},
                        retry : BOOLEAN, cancel : BOOLEAN]]
    /\ proc \in [Run -> {"none", "live", "dying", "lost", "falling", "ok", "bad"}]
    /\ journal \in [Run -> [started : BOOLEAN, completed : Nat]]
    /\ op \in [Op -> [pc : {"idle", "owned", "lock", "handle", "kill", "changed", "interrupt",
                            "gather", "retire", "stop"},
                      act : {"none", "stop", "retry", "cancel", "close", "shut"},
                      job : 0 .. MaxRuns, target : 0 .. MaxRuns, end : {"ok", "raise", "stale"}]]
    /\ owned \in [Canceller -> SUBSET (0 .. MaxRuns)]
    /\ agent \in {"off", "on", "ending", "left", "leaving"}
    /\ session \in {"open", "popped", "closed", "abandoned", "down"}
    /\ env \in [kinds : SUBSET Kinds, stops : Nat, cancels : Nat, faults : Nat]

(* A worker whose task has not ended without it is the only one: the one   *)
(* the host holds, of a task that minds it, for the job the control        *)
(* reports as running; or that of a task an earlier opening has left.  No  *)
(* interleaving of starts, retries, stops and cancellations makes two of   *)
(* them.  A task that is cancelled twice, the second time while the        *)
(* feeding of its worker ends, does leave its worker: that one is lost.    *)
OneWorker ==
    \A r \in Run : Live(r) =>
        /\ \A s \in Run \ {r} : ~Live(s) /\ ~TaskActive(s)
        /\ \/ run[r].st = "left"
           \/ /\ run[r].st \in {"read", "feed", "reap"} /\ handle = r
              /\ job.id = run[r].job /\ JobActive

(* A job that is reported as starting, running or stopping has a task that *)
(* will settle it; otherwise the session refuses every workflow from then  *)
(* on.  There is one exception: a task cancelled while its feeding or its  *)
(* reaping ends leaves its handle with the host, a stop of the next        *)
(* attempt is satisfied by that handle and the event of that end, and the  *)
(* cancel that asked for the stop then ends the task of the attempt before *)
(* it began.                                                               *)
ActiveHasTask ==
    JobActive => \/ \E r \in Run : TaskActive(r) /\ run[r].job = job.id
                 \/ handle # 0 /\ ~Live(handle) /\ changed /\ job.stop

(* The journal of an open session has one end for every run it says was    *)
(* started and whose task is gone, and never two, through cancellations,   *)
(* deaths and reopenings; but a task that a reopening in the same backend  *)
(* left may write a second end.                                            *)
JournalSettled ==
    \A r \in Run :
        /\ journal[r].completed <= IF run[r].st = "gone" THEN 2 ELSE 1
        /\ journal[r].completed > 0 =>
              journal[r].started /\ run[r].st \in {"done", "left", "gone"}
        /\ session = "open" /\ journal[r].started /\ run[r].st \in {"done", "gone"} =>
              journal[r].completed > 0

(* A close that returns normally has waited for every task it had listed;  *)
(* no worker runs but a lost one, and no task is about to make one but     *)
(* that of a workflow started while the close was under way.  Also a retry *)
(* that slipped in beside it was found, and is over but for its last step, *)
(* or has its stop before it.                                              *)
CloseSettles ==
    [][session' = "closed" /\ session # "closed" =>
          \A r \in Run :
              /\ ~Live(r)
              /\ TaskActive(r) =>
                    /\ \A k \in Canceller : op[k].act = "shut" => r \notin owned[k]
                    /\ \/ run[r].st = "tail"
                       \/ run[r].st \in {"sched", "approve"} /\ (run[r].retry => job.stop)]_vars

(* A stop that returns normally leaves no task of its job that minds a     *)
(* worker or is about to make one.                                         *)
StopIsSettled ==
    [][\A o \in Op : StopReturns(o) =>
          ~ \E r \in Run : /\ run[r].job = op[o].job
                           /\ Live(r) \/ run[r].st \in {"spawn", "read", "feed", "reap"}]_vars

(* Every request comes to an end: no stop, retry, cancel or close waits    *)
(* forever for the lock, for a process or for a task that another of them  *)
(* holds up.                                                               *)
RequestsEnd == \A o \in Op : []<>(op[o] = Idle)

=============================================================================
