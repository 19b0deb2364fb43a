-------------------------- MODULE BackgroundRuntime --------------------------
(***************************************************************************)
(* The durable job runtime of package background (background/runtime.go).  *)
(*                                                                         *)
(* Jobs, tasks and attempts are database rows; every transaction on them   *)
(* is one atomic step, because the database serialises writers.  What is   *)
(* in memory (the table of active tasks, the goroutine of each attempt and *)
(* the cause its context was canceled with, the dispatcher's slot count    *)
(* and the half-done operator requests) is lost when the process ends.     *)
(* A goroutine is named by its task and its attempt number.                *)
(***************************************************************************)
EXTENDS Integers, FiniteSets

CONSTANTS
    Job,        \* job rows that may be enqueued
    Task,       \* task rows that may be created
    JobOf,      \* the job a task belongs to
    ParentOf,   \* the task whose success creates it; NoTask for a root task
    NoTask,
    Required,   \* Task -> BOOLEAN: does its failure fail the job
    Delayed,    \* the tasks that are created with a future run_after
    Pausable,   \* the jobs enqueued with durable pause support
    Commits,    \* the tasks whose handler calls BeginCommit
    Queue, QueueOf, Capacity,
    MaxAttempts,    \* TaskSpec.MaxAttempts, 4 unless the caller says otherwise
    MaxRuns,    \* bound on the attempts of one task
    Admin,      \* concurrent operator requests
    Ops,        \* the operator requests that are made
    Faults,     \* the faults that happen
    Results,    \* what a handler may return
    StopCause   \* what the root context is canceled with, see Shutdown

AllOps == {"pause", "resume", "runNow", "cancelJob", "cancelTask", "retryJob",
           "retryTask", "queue"}

AllFaults == {"crash", "shutdown", "lostFinish", "busy"}

(* "ctx" is the bare context error: the handler gave up on its context. *)
AllResults == {"ok", "ctx", "transient", "permanent", "deferred"}

ASSUME ConstantsAssumption ==
    /\ IsFiniteSet(Task) /\ JobOf \in [Task -> Job]
    /\ NoTask \notin Task
    /\ ParentOf \in [Task -> Task \cup {NoTask}]
    /\ Required \in [Task -> BOOLEAN]
    /\ Delayed \subseteq Task /\ Commits \subseteq Task /\ Pausable \subseteq Job
    /\ Queue # {} /\ QueueOf \in [Task -> Queue]
    /\ Capacity \in [Queue -> Nat \ {0}]
    /\ MaxAttempts \in Nat \ {0} /\ MaxRuns \in Nat \ {0}
    /\ Ops \subseteq AllOps /\ Faults \subseteq AllFaults
    /\ Results \subseteq AllResults
    /\ StopCause \in {"parent", "stopping"}

(* A child belongs to the job of the task that creates it. *)
ASSUME FamilyAssumption ==
    \A t \in Task : ParentOf[t] # NoTask => JobOf[ParentOf[t]] = JobOf[t]

(* validateJobSpec refuses a job without tasks. *)
ASSUME SpecAssumption ==
    \A j \in Job : \E t \in Task : JobOf[t] = j /\ ParentOf[t] = NoTask

Runs == 1 .. MaxRuns

VARIABLES
    job,        \* rows of background_jobs: status and the two requests on it
    task,       \* rows of background_tasks
    attempt,    \* rows of background_attempts: their status, per task and number
    queuePaused,    \* rows of the queue states
    phase,      \* the process: "down", "up" or "stopping"
    active,     \* Runtime.active: the attempt registered for a task, 0 for none
    run,        \* the goroutines
    dispatcher, \* the one dispatch loop's local state
    request     \* operator requests between their transaction and their signals

rows == <<job, task, attempt, queuePaused>>
memory == <<active, run, dispatcher, request>>
vars == <<job, task, attempt, queuePaused, phase, active, run, dispatcher, request>>

-----------------------------------------------------------------------------
(* The state.                                                              *)

TaskWaiting == {"queued", "retry_wait"}
TaskInFlight == {"running", "cancel_requested"}
TaskTerminal == {"succeeded", "failed", "canceled"}
TaskStatus == TaskWaiting \cup TaskInFlight \cup TaskTerminal \cup {"absent"}

JobTerminal == {"succeeded", "succeeded_with_warnings", "failed", "canceled"}
JobStatus == JobTerminal \cup {"absent", "queued", "running", "retry_wait",
                  "pause_requested", "paused", "cancel_requested"}

AttemptStatus == {"none", "running", "succeeded", "failed", "canceled", "interrupted"}

Causes == {"none", "parent", "stopping", "canceled", "paused"}
Classes == {"ok", "transient", "permanent", "canceled", "interrupted", "paused", "deferred"}

(* A goroutine runs its handler, which a refused BeginCommit makes give up, *)
(* then persists the classified result, then runs its deferred clean-up.    *)
RunPC == {"none", "handler", "refused", "finish", "exit"}

(* lapped is history: the goroutine, or an earlier one of its task, was     *)
(* launched while another one of the task was still there.                  *)
NoRun == [pc |-> "none", cause |-> "none", commit |-> FALSE, class |-> "ok", lapped |-> FALSE]
NoDispatch == [queue |-> CHOOSE q \in Queue : TRUE, left |-> 0, task |-> NoTask, number |-> 0]
NoRequest == [step |-> "idle", cause |-> "none", tasks |-> {}]

Live(t, n) == run[t][n].pc # "none"
Lapped(t) == \E n \in Runs : run[t][n].lapped
Committing(t) == task[t].commit /\ task[t].status \in TaskInFlight
TasksOf(j) == {t \in Task : JobOf[t] = j}

(* The rows, the registry of goroutines and the requests have their types. *)
TypeOK ==
    /\ job \in [Job -> [status : JobStatus, pause : BOOLEAN, cancel : BOOLEAN]]
    /\ task \in [Task -> [status : TaskStatus, runs : 0 .. MaxRuns, max : Nat,
                          due : BOOLEAN, beat : {"none", "fresh", "stale"},
                          cancel : BOOLEAN, commit : BOOLEAN]]
    /\ attempt \in [Task -> [Runs -> AttemptStatus]]
    /\ queuePaused \in [Queue -> BOOLEAN]
    /\ phase \in {"down", "up", "stopping"}
    /\ active \in [Task -> 0 .. MaxRuns]
    /\ run \in [Task -> [Runs -> [pc : RunPC, cause : Causes, commit : BOOLEAN,
                                  class : Classes, lapped : BOOLEAN]]]
    /\ dispatcher \in [queue : Queue, left : Nat, task : Task \cup {NoTask},
                       number : 0 .. MaxRuns]
    /\ request \in [Admin -> [step : {"idle", "pluck", "signal"}, cause : Causes,
                              tasks : SUBSET Task]]

Init ==
    /\ job = [j \in Job |-> [status |-> "absent", pause |-> FALSE, cancel |-> FALSE]]
    /\ task = [t \in Task |-> [status |-> "absent", runs |-> 0, max |-> MaxAttempts,
                               due |-> TRUE, beat |-> "none", cancel |-> FALSE,
                               commit |-> FALSE]]
    /\ attempt = [t \in Task |-> [n \in Runs |-> "none"]]
    /\ queuePaused = [q \in Queue |-> FALSE]
    /\ phase = "down"
    /\ active = [t \in Task |-> 0]
    /\ run = [t \in Task |-> [n \in Runs |-> NoRun]]
    /\ dispatcher = NoDispatch
    /\ request = [a \in Admin |-> NoRequest]

-----------------------------------------------------------------------------
(* recomputeJob: a job's status is a reduction of its tasks' statuses.     *)

ReducedStatus(tk, jb, j) ==
    LET has(S) == \E t \in TasksOf(j) : tk[t].status \in S
        hasRequired(s) == \E t \in TasksOf(j) : tk[t].status = s /\ Required[t]
    IN CASE ~has(TaskStatus \ {"absent"}) -> jb.status
         [] has(TaskWaiting \cup TaskInFlight) ->
              ( CASE jb.cancel -> "cancel_requested"
                  [] ~jb.cancel /\ jb.pause ->
                       IF has(TaskInFlight) THEN "pause_requested" ELSE "paused"
                  [] ~jb.cancel /\ ~jb.pause ->
                       IF has(TaskInFlight) THEN "running"
                       ELSE IF has({"retry_wait"}) THEN "retry_wait" ELSE "queued" )
         [] OTHER ->
              IF hasRequired("failed") THEN "failed"
              ELSE IF jb.cancel \/ hasRequired("canceled") THEN "canceled"
              ELSE IF has({"failed", "canceled"}) THEN "succeeded_with_warnings"
              ELSE "succeeded"

RecomputeJob(tk, jb, j) ==
    LET status == ReducedStatus(tk, jb, j)
    IN [jb EXCEPT !.status = status, !.pause = @ /\ status \notin JobTerminal]

(* The rows of job j after a transaction that leaves its tasks as tk and    *)
(* the requests on it as jb; every transaction ends with recomputeJob.      *)
Commit(tk, jb, j) ==
    /\ task' = tk
    /\ job' = [job EXCEPT ![j] = RecomputeJob(tk, jb, j)]

(* createTask *)
CreatedTask(t) ==
    [status |-> "queued", runs |-> 0, max |-> MaxAttempts, due |-> t \notin Delayed,
     beat |-> "none", cancel |-> FALSE, commit |-> FALSE]

(* Enqueue of a new job.  An enqueue that finds its idempotency key changes nothing. *)
Enqueue(j) ==
    /\ phase = "up"
    /\ job[j].status = "absent"
    /\ task' = [t \in Task |-> IF JobOf[t] = j /\ ParentOf[t] = NoTask
                               THEN CreatedTask(t) ELSE task[t]]
    /\ job' = [job EXCEPT ![j].status = "queued"]
    /\ UNCHANGED <<attempt, queuePaused, phase, memory>>

(* A future run_after comes due. *)
RunAfterElapses(t) ==
    /\ ~task[t].due
    /\ task' = [task EXCEPT ![t].due = TRUE]
    /\ UNCHANGED <<job, attempt, queuePaused, phase, memory>>

-----------------------------------------------------------------------------
(* The life of the process.                                                *)

(* Mutant: a cancellation pending at the restart is queued like other work. *)
RecoveredTaskIgnoresCancel(t) ==
    LET r == task[t]
    IN CASE Committing(t) -> [r EXCEPT !.status = "failed", !.beat = "none"]
         [] ~r.commit /\ r.status \in TaskInFlight ->
                [r EXCEPT !.status = "queued", !.max = @ + 1, !.due = TRUE,
                          !.beat = "none", !.cancel = FALSE]
         [] OTHER -> r

(* Recover closes what the last process left open: work past its commit    *)
(* fence fails for review, a requested cancellation completes, the rest is *)
(* queued again at no cost to its retry budget.                            *)
RecoveredTask(t) ==
    LET r == task[t]
    IN CASE Committing(t) -> [r EXCEPT !.status = "failed", !.beat = "none"]
         [] ~r.commit /\ r.status = "cancel_requested" ->
                [r EXCEPT !.status = "canceled", !.beat = "none"]
         [] ~r.commit /\ r.status = "running" ->
                [r EXCEPT !.status = "queued", !.max = @ + 1, !.due = TRUE,
                          !.beat = "none", !.cancel = FALSE]
         [] OTHER -> r

(* Mutant: Recover recomputes only running and waiting jobs. *)
RecoverForgetsRequests ==
    LET tk == [t \in Task |-> RecoveredTask(t)]
    IN /\ attempt' = [t \in Task |-> [n \in Runs |->
                        IF attempt[t][n] = "running" THEN "interrupted" ELSE attempt[t][n]]]
       /\ task' = tk
       /\ job' = [j \in Job |-> IF job[j].status \in {"running", "retry_wait"}
                                THEN RecomputeJob(tk, job[j], j) ELSE job[j]]

(* Mutant: Recover leaves the interrupted attempts open. *)
RecoverForgetsAttempts ==
    LET tk == [t \in Task |-> RecoveredTask(t)]
    IN /\ attempt' = attempt
       /\ task' = tk
       /\ job' = [j \in Job |-> IF job[j].status = "absent"
                                THEN job[j] ELSE RecomputeJob(tk, job[j], j)]

Recover ==
    LET tk == [t \in Task |-> RecoveredTask(t)]
        stale == {"running", "retry_wait", "pause_requested", "paused", "cancel_requested"}
    IN /\ attempt' = [t \in Task |-> [n \in Runs |->
                        IF attempt[t][n] = "running" THEN "interrupted" ELSE attempt[t][n]]]
       /\ task' = tk
       /\ job' = [j \in Job |-> IF job[j].status \in stale
                                THEN RecomputeJob(tk, job[j], j) ELSE job[j]]

Start ==
    /\ phase = "down"
    /\ phase' = "up"
    /\ Recover
    /\ UNCHANGED <<queuePaused, memory>>

EmptyMemory ==
    /\ active' = [t \in Task |-> 0]
    /\ run' = [t \in Task |-> [n \in Runs |-> NoRun]]
    /\ dispatcher' = NoDispatch
    /\ request' = [a \in Admin |-> NoRequest]

Crash ==
    /\ "crash" \in Faults
    /\ phase = "up"
    /\ phase' = "down"
    /\ EmptyMemory
    /\ UNCHANGED rows

(* The first cancellation of a context wins. *)
Canceled(r, cause) ==
    [r EXCEPT !.cause = IF @ = "none" /\ r.pc # "none" THEN cause ELSE @]

(* The root context is canceled, and every task's context with it.  The    *)
(* server cancels the parent context first, so that the cause is a plain   *)
(* context.Canceled ("parent"); an owner that only calls Stop leaves        *)
(* errRuntimeStopping ("stopping").                                         *)
Shutdown ==
    /\ "shutdown" \in Faults
    /\ phase = "up"
    /\ phase' = "stopping"
    /\ run' = [t \in Task |-> [n \in Runs |-> Canceled(run[t][n], StopCause)]]
    /\ UNCHANGED <<rows, active, dispatcher, request>>

(* Stop returns when every goroutine has left, or after thirty seconds. *)
StopReturns ==
    /\ phase = "stopping"
    /\ phase' = "down"
    /\ EmptyMemory
    /\ UNCHANGED rows

-----------------------------------------------------------------------------
(* The dispatch loop.                                                      *)

ActiveCount(q) == Cardinality({t \in Task : QueueOf[t] = q /\ active[t] # 0})

(* Mutant: the slots are counted the wrong way round. *)
DispatchQueueSwapped(q) ==
    /\ phase = "up"
    /\ dispatcher.left = 0
    /\ ~queuePaused[q]
    /\ Capacity[q] > ActiveCount(q)
    /\ dispatcher' = [NoDispatch EXCEPT !.queue = q, !.left = ActiveCount(q) - Capacity[q]]
    /\ UNCHANGED <<rows, phase, active, run, request>>

(* The free slots of a queue are counted once per pass. *)
DispatchQueue(q) ==
    /\ phase = "up"
    /\ dispatcher.left = 0
    /\ ~queuePaused[q]
    /\ Capacity[q] > ActiveCount(q)
    /\ dispatcher' = [NoDispatch EXCEPT !.queue = q, !.left = Capacity[q] - ActiveCount(q)]
    /\ UNCHANGED <<rows, phase, active, run, request>>

Claimable(t) ==
    /\ task[t].status \in TaskWaiting
    /\ task[t].due
    /\ ~job[JobOf[t]].pause
    /\ ~job[JobOf[t]].cancel

Claim(t) ==
    LET n == task[t].runs + 1
    IN /\ phase = "up"
       /\ dispatcher.left > 0
       /\ dispatcher.task = NoTask
       /\ QueueOf[t] = dispatcher.queue
       /\ Claimable(t)
       /\ task[t].runs < MaxRuns
       /\ Commit([task EXCEPT ![t] = [@ EXCEPT !.status = "running", !.runs = n, !.due = TRUE,
                                               !.beat = "fresh", !.commit = FALSE]],
                 job[JobOf[t]], JobOf[t])
       /\ attempt' = [attempt EXCEPT ![t][n] = "running"]
       /\ dispatcher' = [dispatcher EXCEPT !.task = t, !.number = n]
       /\ UNCHANGED <<queuePaused, phase, active, run, request>>

Launch ==
    LET t == dispatcher.task
        n == dispatcher.number
    IN /\ t # NoTask
       /\ active' = [active EXCEPT ![t] = n]
       /\ run' = [run EXCEPT ![t][n] =
                    [NoRun EXCEPT !.pc = "handler",
                                  !.cause = IF phase = "up" THEN "none" ELSE StopCause,
                                  !.lapped = Lapped(t) \/ \E m \in Runs : Live(t, m)]]
       /\ dispatcher' = [dispatcher EXCEPT !.left = @ - 1, !.task = NoTask, !.number = 0]
       /\ UNCHANGED <<rows, phase, request>>

(* The pass over a queue ends when nothing is claimable or a claim fails. *)
DispatchEnds ==
    /\ dispatcher.left > 0
    /\ dispatcher.task = NoTask
    /\ dispatcher' = NoDispatch
    /\ UNCHANGED <<rows, phase, active, run, request>>

-----------------------------------------------------------------------------
(* The goroutine of one attempt.                                           *)

(* classifyError *)
Class(result, cause) ==
    IF result # "ctx" THEN result
    ELSE CASE cause = "stopping" -> "interrupted"
           [] cause = "paused" -> "paused"
           [] OTHER -> "canceled"

(* Mutant: the goroutine unregisters before it stores its result. *)
HandlerReturnsUnregistered(t, n) ==
    /\ run[t][n].pc = "handler"
    /\ \E result \in Results :
         /\ result = "ctx" => run[t][n].cause # "none"
         /\ run' = [run EXCEPT ![t][n].pc = "finish",
                               ![t][n].class = Class(result, run[t][n].cause)]
    /\ active' = [active EXCEPT ![t] = 0]
    /\ UNCHANGED <<rows, phase, dispatcher, request>>

(* A handler returns its context's error only once that context is canceled. *)
HandlerReturns(t, n) ==
    /\ run[t][n].pc = "handler"
    /\ \E result \in Results :
         /\ result = "ctx" => run[t][n].cause # "none"
         /\ run' = [run EXCEPT ![t][n].pc = "finish",
                               ![t][n].class = Class(result, run[t][n].cause)]
    /\ UNCHANGED <<rows, phase, active, dispatcher, request>>

(* After a refused BeginCommit it returns context.Canceled, or says Canceled itself. *)
RefusedReturns(t, n) ==
    /\ run[t][n].pc = "refused"
    /\ \E class \in {"canceled", Class("ctx", run[t][n].cause)} :
         run' = [run EXCEPT ![t][n].pc = "finish", ![t][n].class = class]
    /\ UNCHANGED <<rows, phase, active, dispatcher, request>>

(* Mutant: BeginCommit does not look at the pause request. *)
CanCommitWhilePausing(t) ==
    /\ task[t].status = "running"
    /\ ~job[JobOf[t]].cancel
    /\ ~task[t].cancel

CanCommit(t) ==
    /\ task[t].status = "running"
    /\ ~job[JobOf[t]].cancel
    /\ ~job[JobOf[t]].pause
    /\ ~task[t].cancel

BeginCommit(t, n) ==
    /\ run[t][n].pc = "handler"
    /\ t \in Commits
    /\ ~run[t][n].commit
    /\ run[t][n].cause = "none"
    /\ CanCommit(t)
    /\ Commit([task EXCEPT ![t].commit = TRUE], job[JobOf[t]], JobOf[t])
    /\ run' = [run EXCEPT ![t][n].commit = TRUE]
    /\ UNCHANGED <<attempt, queuePaused, phase, active, dispatcher, request>>

(* It also returns false when its transaction fails. *)
BeginCommitRefused(t, n) ==
    /\ run[t][n].pc = "handler"
    /\ t \in Commits
    /\ ~run[t][n].commit
    /\ run[t][n].cause # "none" \/ ~CanCommit(t) \/ "busy" \in Faults
    /\ run' = [run EXCEPT ![t][n].pc = "refused"]
    /\ UNCHANGED <<rows, phase, active, dispatcher, request>>

(* ReportProgress refreshes the heartbeat of whatever run its task is in. *)
ReportProgress(t, n) ==
    /\ run[t][n].pc = "handler"
    /\ run[t][n].cause = "none"
    /\ task[t].status \in TaskInFlight
    /\ Commit([task EXCEPT ![t].beat = "fresh"], job[JobOf[t]], JobOf[t])
    /\ UNCHANGED <<attempt, queuePaused, phase, memory>>

(* What finish makes of the row of a task in flight, whose result is of    *)
(* class c.  A cancellation requested before the commit fence beats        *)
(* success and pause, and nothing else.                                    *)
FinishClass(r, c) ==
    IF c \in {"ok", "paused"} /\ r.status = "cancel_requested" /\ ~r.commit THEN "canceled" ELSE c

FinishedTask(r, c) ==
    LET closed == [r EXCEPT !.beat = "none"]
    IN CASE c = "ok" -> [closed EXCEPT !.status = "succeeded"]
         [] c \in {"paused", "interrupted"} ->
              [closed EXCEPT !.status = "queued", !.due = TRUE, !.cancel = FALSE, !.max = @ + 1]
         [] c = "deferred" ->
              [closed EXCEPT !.status = "retry_wait", !.due = FALSE, !.max = @ + 1]
         [] c = "canceled" -> [closed EXCEPT !.status = "canceled"]
         [] c = "transient" /\ r.runs < r.max ->
              [closed EXCEPT !.status = "retry_wait", !.due = FALSE]
         [] OTHER -> [closed EXCEPT !.status = "failed"]

FinishedAttempt(c) ==
    CASE c = "ok" -> "succeeded"
      [] c \in {"paused", "interrupted", "deferred"} -> "interrupted"
      [] c = "canceled" -> "canceled"
      [] OTHER -> "failed"

(* finish: the result is dropped if the task is no longer in flight; a     *)
(* success creates the children the handler returned, once.                *)
Finish(t, n) ==
    /\ run[t][n].pc = "finish"
    /\ run' = [run EXCEPT ![t][n].pc = "exit"]
    /\ IF task[t].status \notin TaskInFlight
       THEN UNCHANGED <<job, task, attempt>>
       ELSE LET c == FinishClass(task[t], run[t][n].class)
            IN /\ attempt' = [attempt EXCEPT ![t][n] = FinishedAttempt(c)]
               /\ Commit([s \in Task |->
                            CASE s = t -> FinishedTask(task[t], c)
                              [] s # t /\ c = "ok" /\ ParentOf[s] = t
                                       /\ task[s].status = "absent" -> CreatedTask(s)
                              [] OTHER -> task[s]],
                         job[JobOf[t]], JobOf[t])
    /\ UNCHANGED <<queuePaused, phase, active, dispatcher, request>>

(* finishWithRetry gives up after five failed transactions. *)
FinishLost(t, n) ==
    /\ "lostFinish" \in Faults
    /\ run[t][n].pc = "finish"
    /\ run' = [run EXCEPT ![t][n].pc = "exit"]
    /\ UNCHANGED <<rows, phase, active, dispatcher, request>>

(* The deferred clean-up deletes the task's entry, whoever registered it. *)
GoroutineExits(t, n) ==
    /\ run[t][n].pc = "exit"
    /\ active' = [active EXCEPT ![t] = 0]
    /\ run' = [run EXCEPT ![t][n] = [NoRun EXCEPT !.lapped = run[t][n].lapped]]
    /\ UNCHANGED <<rows, phase, dispatcher, request>>

-----------------------------------------------------------------------------
(* The heartbeat loop.                                                     *)

(* A registered task is refreshed every five seconds and a claimed one is  *)
(* registered at once, so that only other heartbeats reach thirty seconds. *)
HeartbeatExpires(t) ==
    /\ task[t].status \in TaskInFlight
    /\ task[t].beat = "fresh"
    /\ active[t] = 0
    /\ dispatcher.task # t
    /\ task' = [task EXCEPT ![t].beat = "stale"]
    /\ UNCHANGED <<job, attempt, queuePaused, phase, memory>>

(* Mutant: only a missing heartbeat counts, not an old one. *)
StaleOnlyIfMissing(t) ==
    task[t].status \in TaskInFlight /\ task[t].beat = "none" /\ active[t] = 0

Stale(t) == task[t].status \in TaskInFlight /\ task[t].beat # "fresh" /\ active[t] = 0

(* Mutant: work past its commit fence is queued again. *)
StaleTaskIgnoresCommit(r) ==
    LET closed == [r EXCEPT !.due = TRUE, !.beat = "none", !.cancel = FALSE]
    IN IF r.status = "cancel_requested" THEN [closed EXCEPT !.status = "canceled"]
       ELSE [closed EXCEPT !.status = "queued", !.max = @ + 1]

StaleTask(r) ==
    LET closed == [r EXCEPT !.due = TRUE, !.beat = "none", !.cancel = FALSE]
    IN CASE r.commit -> [closed EXCEPT !.status = "failed"]
         [] ~r.commit /\ r.status = "cancel_requested" -> [closed EXCEPT !.status = "canceled"]
         [] OTHER -> [closed EXCEPT !.status = "queued", !.max = @ + 1]

StaleAttempt(r) ==
    IF ~r.commit /\ r.status = "cancel_requested" THEN "canceled" ELSE "interrupted"

RecoverStaleTasks ==
    LET tk == [t \in Task |-> IF Stale(t) THEN StaleTask(task[t]) ELSE task[t]]
    IN /\ phase = "up"
       /\ \E t \in Task : Stale(t)
       /\ task' = tk
       /\ attempt' = [t \in Task |-> [n \in Runs |->
                        IF Stale(t) /\ attempt[t][n] = "running"
                        THEN StaleAttempt(task[t]) ELSE attempt[t][n]]]
       /\ job' = [j \in Job |-> IF \E t \in TasksOf(j) : Stale(t)
                                THEN RecomputeJob(tk, job[j], j) ELSE job[j]]
       /\ UNCHANGED <<queuePaused, phase, memory>>

-----------------------------------------------------------------------------
(* Operator requests.  PauseJob, CancelJob and CancelTask commit their     *)
(* transaction first and cancel the contexts of active tasks afterwards.   *)

Requested(op) == phase = "up" /\ op \in Ops

Signals(a, cause, tasks) ==
    request' = [request EXCEPT ![a] = [step |-> "signal", cause |-> cause, tasks |-> tasks]]

PauseJob(a, j) ==
    /\ Requested("pause")
    /\ request[a].step = "idle"
    /\ j \in Pausable
    /\ job[j].status \in {"queued", "running", "retry_wait"}
    /\ ~job[j].pause /\ ~job[j].cancel
    /\ \A t \in TasksOf(j) : ~Committing(t)
    /\ Commit(task, [job[j] EXCEPT !.pause = TRUE], j)
    /\ Signals(a, "paused", TasksOf(j))
    /\ UNCHANGED <<attempt, queuePaused, phase, active, run, dispatcher>>

ResumeJob(j) ==
    /\ Requested("resume")
    /\ job[j].status \in {"pause_requested", "paused"}
    /\ Commit(task, [job[j] EXCEPT !.pause = FALSE], j)
    /\ UNCHANGED <<attempt, queuePaused, phase, memory>>

RunJobNow(j) ==
    LET waits(t) == t \in TasksOf(j) /\ task[t].status = "queued" /\ ~task[t].due
    IN /\ Requested("runNow")
       /\ job[j].status = "queued"
       /\ ~job[j].pause /\ ~job[j].cancel
       /\ \E t \in Task : waits(t)
       /\ Commit([t \in Task |-> IF waits(t) THEN [task[t] EXCEPT !.due = TRUE] ELSE task[t]],
                 job[j], j)
       /\ UNCHANGED <<attempt, queuePaused, phase, memory>>

CancelJob(a, j) ==
    /\ Requested("cancelJob")
    /\ request[a].step = "idle"
    /\ job[j].status \notin JobTerminal \cup {"absent"}
    /\ \A t \in TasksOf(j) : ~Committing(t)
    /\ Commit([t \in Task |->
                 CASE JobOf[t] = j /\ task[t].status \in TaskWaiting ->
                        [task[t] EXCEPT !.status = "canceled"]
                   [] JobOf[t] = j /\ task[t].status = "running" ->
                        [task[t] EXCEPT !.status = "cancel_requested", !.cancel = TRUE]
                   [] OTHER -> task[t]],
              [job[j] EXCEPT !.cancel = TRUE, !.pause = FALSE], j)
    /\ request' = [request EXCEPT ![a] = [step |-> "pluck", cause |-> "canceled",
                                          tasks |-> TasksOf(j)]]
    /\ UNCHANGED <<attempt, queuePaused, phase, active, run, dispatcher>>

(* CancelJob reads again which of the job's tasks are being canceled. *)
PluckCanceled(a) ==
    /\ request[a].step = "pluck"
    /\ Signals(a, "canceled", {t \in request[a].tasks : task[t].status = "cancel_requested"})
    /\ UNCHANGED <<rows, phase, active, run, dispatcher>>

(* The contexts that are registered by now are canceled. *)
SignalActive(a) ==
    /\ request[a].step = "signal"
    /\ run' = [t \in Task |-> [n \in Runs |->
                 IF t \in request[a].tasks /\ active[t] = n
                 THEN Canceled(run[t][n], request[a].cause) ELSE run[t][n]]]
    /\ request' = [request EXCEPT ![a] = NoRequest]
    /\ UNCHANGED <<rows, phase, active, dispatcher>>

CancelTask(a, t) ==
    /\ Requested("cancelTask")
    /\ request[a].step = "idle"
    /\ task[t].status \notin TaskTerminal \cup {"absent"}
    /\ ~task[t].commit
    /\ Commit([task EXCEPT ![t] = IF @.status \in TaskInFlight
                 THEN [@ EXCEPT !.status = "cancel_requested", !.cancel = TRUE]
                 ELSE [@ EXCEPT !.status = "canceled"]],
              job[JobOf[t]], JobOf[t])
    /\ Signals(a, "canceled", {t})
    /\ UNCHANGED <<attempt, queuePaused, phase, active, run, dispatcher>>

RetriedTask(r) ==
    [r EXCEPT !.status = "queued", !.due = TRUE, !.cancel = FALSE, !.commit = FALSE,
              !.max = r.runs + 4]

RetryJob(j) ==
    LET over(t) == t \in TasksOf(j) /\ task[t].status \in {"failed", "canceled"}
    IN /\ Requested("retryJob")
       /\ job[j].status \in {"failed", "canceled", "succeeded_with_warnings"}
       /\ \E t \in Task : over(t)
       /\ Commit([t \in Task |-> IF over(t) THEN RetriedTask(task[t]) ELSE task[t]],
                 [job[j] EXCEPT !.cancel = FALSE, !.pause = FALSE], j)
       /\ UNCHANGED <<attempt, queuePaused, phase, memory>>

(* Mutant: a succeeded task can be retried. *)
RetryTaskOfAnyOutcome(t) ==
    /\ Requested("retryTask")
    /\ task[t].status \in TaskTerminal
    /\ Commit([task EXCEPT ![t] = RetriedTask(@)],
              [job[JobOf[t]] EXCEPT !.cancel = FALSE], JobOf[t])
    /\ UNCHANGED <<attempt, queuePaused, phase, memory>>

RetryTask(t) ==
    /\ Requested("retryTask")
    /\ task[t].status \in {"failed", "canceled"}
    /\ Commit([task EXCEPT ![t] = RetriedTask(@)],
              [job[JobOf[t]] EXCEPT !.cancel = FALSE], JobOf[t])
    /\ UNCHANGED <<attempt, queuePaused, phase, memory>>

SetQueuePaused(q) ==
    /\ Requested("queue")
    /\ queuePaused' = [queuePaused EXCEPT ![q] = ~@]
    /\ UNCHANGED <<job, task, attempt, phase, memory>>

-----------------------------------------------------------------------------

Process == Start \/ Crash \/ Shutdown \/ StopReturns

Dispatch == (\E q \in Queue : DispatchQueue(q)) \/ (\E t \in Task : Claim(t))
            \/ Launch \/ DispatchEnds

Goroutine(t, n) ==
    \/ HandlerReturns(t, n) \/ RefusedReturns(t, n)
    \/ BeginCommit(t, n) \/ BeginCommitRefused(t, n) \/ ReportProgress(t, n)
    \/ Finish(t, n) \/ FinishLost(t, n) \/ GoroutineExits(t, n)

Heartbeat == (\E t \in Task : HeartbeatExpires(t)) \/ RecoverStaleTasks

Operator ==
    \/ \E j \in Job : Enqueue(j) \/ ResumeJob(j) \/ RunJobNow(j) \/ RetryJob(j)
    \/ \E t \in Task : RetryTask(t)
    \/ \E q \in Queue : SetQueuePaused(q)
    \/ \E a \in Admin :
         \/ \E j \in Job : PauseJob(a, j) \/ CancelJob(a, j)
         \/ \E t \in Task : CancelTask(a, t)
         \/ PluckCanceled(a) \/ SignalActive(a)

Next ==
    \/ Process \/ Dispatch \/ Heartbeat \/ Operator
    \/ \E t \in Task, n \in Runs : Goroutine(t, n)
    \/ \E t \in Task : RunAfterElapses(t)

Spec == Init /\ [][Next]_vars

-----------------------------------------------------------------------------
(* Safety.                                                                 *)

(* A job's stored status is always the reduction of its tasks' statuses,   *)
(* whichever of the dispatcher, a finishing handler, an operator or a      *)
(* recovery wrote last (recomputeJob).                                     *)
JobStatusReduced ==
    \A j \in Job : job[j].status # "absent" =>
        job[j].status = ReducedStatus(task, job[j], j)

(* BeginCommit and the requests exclude each other: while a task is past   *)
(* its commit fence its job has neither a pause nor a cancellation pending *)
(* and the task itself cannot be asked to cancel.                          *)
CommitFence ==
    \A t \in Task : Committing(t) =>
        /\ task[t].status = "running"
        /\ ~task[t].cancel
        /\ ~job[JobOf[t]].pause /\ ~job[JobOf[t]].cancel

(* On a queue of capacity one the attempt history is exact while the       *)
(* process runs: an attempt is open iff it is the latest one of a task     *)
(* that is in flight.                                                      *)
AttemptLog ==
    phase # "down" =>
        \A t \in Task, n \in Runs :
            Capacity[QueueOf[t]] = 1 =>
                (attempt[t][n] = "running" <=> task[t].status \in TaskInFlight /\ n = task[t].runs)

(* Irreversible work whose goroutine is gone is left for review: such a    *)
(* task can only become failed, and so is never claimed again unasked      *)
(* (Recover and recoverStaleTasks).                                        *)
OrphanedCommitFails ==
    [][\A t \in Task :
        /\ Committing(t)
        /\ \A n \in Runs : ~Live(t, n)
        /\ dispatcher.task # t
        /\ task'[t].status # task[t].status
        => task'[t].status = "failed"]_vars

(* recoverStaleTasks reclaims a task only if no goroutine of it is left, as *)
(* its comment says.  On a queue that runs more than one task at a time the *)
(* exit of an attempt can unregister the next attempt of the same task.     *)
StaleHasNoGoroutine ==
    [][RecoverStaleTasks => \A t \in Task, n \in Runs : Stale(t) => ~Live(t, n)]_vars

(* What holds of recoverStaleTasks on every queue: a task is reclaimed      *)
(* under a goroutine of its own only if two of its goroutines were there    *)
(* at once, and on a queue of capacity one they never are.                  *)
ReclaimedOnlyIfLapped ==
    [][RecoverStaleTasks =>
        \A t \in Task, n \in Runs :
            Stale(t) /\ Live(t, n) => Lapped(t) /\ Capacity[QueueOf[t]] > 1]_vars

(* A finished job is reopened only by an operator's retry of one of its    *)
(* tasks, never by a late result, a recovery or a child task.              *)
ReopenedOnlyByRetry ==
    [][\A j \in Job :
        job[j].status \in JobTerminal /\ job'[j].status \notin JobTerminal
        => \E t \in TasksOf(j) : task[t].status \in {"failed", "canceled"}
                                 /\ task'[t].status = "queued"]_vars

(* A running task whose cancellation nobody asked for does not become      *)
(* canceled: an application shutdown interrupts it and queues it again.    *)
CanceledOnlyOnRequest ==
    [][\A t \in Task : task[t].status = "running" /\ ~task[t].cancel
                       => task'[t].status # "canceled"]_vars

-----------------------------------------------------------------------------
(* Progress.  The loops run while the process does, a failed claim is      *)
(* tried again on the next tick, the process is restarted and does not die *)
(* every time before it has looked at a queue, and a handler returns       *)
(* sooner or later.  No operator ever has to act.                          *)

Fairness ==
    /\ WF_vars(Start) /\ WF_vars(StopReturns)
    /\ \A q \in Queue : SF_vars(DispatchQueue(q))
    /\ \A t \in Task : SF_vars(Claim(t)) /\ WF_vars(RunAfterElapses(t))
    /\ WF_vars(Launch) /\ WF_vars(DispatchEnds)
    /\ \A t \in Task, n \in Runs :
         /\ WF_vars(HandlerReturns(t, n) \/ RefusedReturns(t, n))
         /\ WF_vars(Finish(t, n) \/ FinishLost(t, n))
         /\ WF_vars(GoroutineExits(t, n))
    /\ \A t \in Task : WF_vars(HeartbeatExpires(t))
    /\ WF_vars(RecoverStaleTasks)
    /\ \A a \in Admin : WF_vars(PluckCanceled(a)) /\ WF_vars(SignalActive(a))

FairSpec == Spec /\ Fairness

(* An accepted cancellation completes: CancelJob is followed by a job that *)
(* is no longer waiting for it, across lost results, shutdowns and crashes.*)
(* The one exception is a task whose handler asks for another run after    *)
(* the request (a transient error or a deferral): finish makes it wait for *)
(* a retry, and claim refuses it for as long as the request stands.        *)
CancelCompletes ==
    \A j \in Job : job[j].status = "cancel_requested" ~>
        \/ job[j].status # "cancel_requested"
        \/ \E t \in TasksOf(j) : task[t].status = "retry_wait"

(* An accepted pause takes effect, even if its signal reaches nobody. *)
PauseSettles ==
    \A j \in Job : job[j].status = "pause_requested" ~> job[j].status # "pause_requested"

(* An enqueued job ends without anyone's help, through retries, delays,    *)
(* lost results and crashes, unless somebody asks for its pause or its     *)
(* cancellation, or a task waits for more attempts than the model has.     *)
JobEnds ==
    \A j \in Job : job[j].status = "queued" ~>
        \/ job[j].status \in JobTerminal
        \/ job[j].pause \/ job[j].cancel
        \/ \E t \in TasksOf(j) : task[t].runs = MaxRuns /\ task[t].status \in TaskWaiting

=============================================================================
