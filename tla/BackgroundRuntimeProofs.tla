----------------------- MODULE BackgroundRuntimeProofs -----------------------
(***************************************************************************)
(* Theorems about BackgroundRuntime, for every set of jobs, tasks, queues  *)
(* and operator requests, every capacity and every bound on attempts.      *)
(***************************************************************************)
EXTENDS BackgroundRuntime, FiniteSetTheorems, TLAPS

JobRow == [status : JobStatus, pause : BOOLEAN, cancel : BOOLEAN]
TaskRow == [status : TaskStatus, runs : 0 .. MaxRuns, max : Nat, due : BOOLEAN,
            beat : {"none", "fresh", "stale"}, cancel : BOOLEAN, commit : BOOLEAN]
RunState == [pc : RunPC, cause : Causes, commit : BOOLEAN, class : Classes,
             lapped : BOOLEAN]

-----------------------------------------------------------------------------
(* Lemmas about the operators.                                             *)

(* recomputeJob computes a job status. *)
LEMMA ReducedStatusType ==
    ASSUME NEW tk, NEW jb \in JobRow, NEW j \in Job
    PROVE  ReducedStatus(tk, jb, j) \in JobStatus
BY DEF ReducedStatus, JobStatus, JobTerminal, JobRow

LEMMA RecomputeJobType ==
    ASSUME NEW tk, NEW jb \in JobRow, NEW j \in Job
    PROVE  RecomputeJob(tk, jb, j) \in JobRow
<1>1. ReducedStatus(tk, jb, j) \in JobStatus
  BY ReducedStatusType
<1> DEFINE s == ReducedStatus(tk, jb, j)
<1>2. /\ jb.pause \in BOOLEAN /\ (jb.pause /\ s \notin JobTerminal) \in BOOLEAN
  BY DEF JobRow
<1>3. RecomputeJob(tk, jb, j) = [jb EXCEPT !.status = s, !.pause = jb.pause /\ s \notin JobTerminal]
  BY DEF RecomputeJob
<1> HIDE DEF s
<1> QED
  BY <1>1, <1>2, <1>3 DEF JobRow, s

LEMMA CommitType ==
    ASSUME TypeOK, NEW tk \in [Task -> TaskRow], NEW jb \in JobRow, NEW j \in Job, Commit(tk, jb, j)
    PROVE  job' \in [Job -> JobRow] /\ task' \in [Task -> TaskRow]
<1>1. RecomputeJob(tk, jb, j) \in JobRow
  BY RecomputeJobType
<1>2. job \in [Job -> JobRow]
  BY DEF TypeOK, JobRow
<1> QED
  BY <1>1, <1>2 DEF Commit

LEMMA TaskOfCommit ==
    ASSUME TypeOK, NEW t \in Task
    PROVE /\ task[t] \in TaskRow /\ job[JobOf[t]] \in JobRow /\ JobOf[t] \in Job
BY ConstantsAssumption DEF TypeOK, TaskRow, JobRow

LEMMA CreatedTaskType ==
    ASSUME NEW t \in Task PROVE CreatedTask(t) \in TaskRow
BY ConstantsAssumption DEF CreatedTask, TaskRow, TaskStatus, TaskWaiting

(* The row updates of the runtime keep a row a row. *)
LEMMA TaskRowUpdate ==
    ASSUME NEW r \in TaskRow, NEW s \in TaskStatus
    PROVE  /\ [r EXCEPT !.status = s, !.beat = "none"] \in TaskRow
           /\ [r EXCEPT !.beat = "none"] \in TaskRow
           /\ [r EXCEPT !.status = s] \in TaskRow
           /\ [r EXCEPT !.status = s, !.cancel = TRUE] \in TaskRow
           /\ [r EXCEPT !.status = s, !.due = FALSE] \in TaskRow
BY DEF TaskRow

LEMMA TaskFieldUpdate ==
    ASSUME NEW r \in TaskRow
    PROVE  /\ [r EXCEPT !.beat = "fresh"] \in TaskRow
           /\ [r EXCEPT !.beat = "stale"] \in TaskRow
           /\ [r EXCEPT !.due = TRUE] \in TaskRow
           /\ [r EXCEPT !.commit = TRUE] \in TaskRow
BY DEF TaskRow

(* A row that goes back to waiting, with a new budget m of attempts. *)
LEMMA RequeuedRow ==
    ASSUME NEW r \in TaskRow, NEW s \in TaskStatus, NEW m \in Nat
    PROVE  /\ [r EXCEPT !.status = s, !.max = m] \in TaskRow
           /\ [r EXCEPT !.status = s, !.due = FALSE, !.max = m] \in TaskRow
           /\ [r EXCEPT !.status = s, !.due = TRUE, !.cancel = FALSE, !.max = m] \in TaskRow
           /\ [r EXCEPT !.status = s, !.max = m, !.due = TRUE, !.beat = "none",
                        !.cancel = FALSE] \in TaskRow
           /\ [r EXCEPT !.status = s, !.due = TRUE, !.cancel = FALSE, !.commit = FALSE,
                        !.max = m] \in TaskRow
BY DEF TaskRow

LEMMA Budget ==
    ASSUME NEW r \in TaskRow PROVE r.max + 1 \in Nat /\ r.runs + 4 \in Nat
BY ConstantsAssumption DEF TaskRow

LEMMA StatusNames ==
    {"queued", "retry_wait", "running", "cancel_requested", "succeeded", "failed", "canceled"}
        \subseteq TaskStatus
BY DEF TaskStatus, TaskWaiting, TaskInFlight, TaskTerminal

LEMMA RecoveredTaskType ==
    ASSUME TypeOK, NEW t \in Task PROVE RecoveredTask(t) \in TaskRow
<1> DEFINE r == task[t]
<1>1. r \in TaskRow
  BY DEF TypeOK, TaskRow
<1>2. [r EXCEPT !.status = "failed", !.beat = "none"] \in TaskRow
  BY <1>1, TaskRowUpdate, StatusNames
<1>3. [r EXCEPT !.status = "canceled", !.beat = "none"] \in TaskRow
  BY <1>1, TaskRowUpdate, StatusNames
<1>4. [r EXCEPT !.status = "queued", !.max = @ + 1, !.due = TRUE,
                !.beat = "none", !.cancel = FALSE] \in TaskRow
  BY <1>1, Budget, RequeuedRow, StatusNames
<1> QED
  BY <1>1, <1>2, <1>3, <1>4 DEF RecoveredTask

LEMMA FinishedTaskType ==
    ASSUME NEW r \in TaskRow, NEW c PROVE FinishedTask(r, c) \in TaskRow
<1> DEFINE closed == [r EXCEPT !.beat = "none"]
<1>1. closed \in TaskRow
  BY TaskRowUpdate, StatusNames
<1> HIDE DEF closed
<1>3. /\ [closed EXCEPT !.status = "succeeded"] \in TaskRow
      /\ [closed EXCEPT !.status = "canceled"] \in TaskRow
      /\ [closed EXCEPT !.status = "failed"] \in TaskRow
      /\ [closed EXCEPT !.status = "retry_wait", !.due = FALSE] \in TaskRow
  BY <1>1, TaskRowUpdate, StatusNames
<1>4. [closed EXCEPT !.status = "queued", !.due = TRUE, !.cancel = FALSE, !.max = @ + 1] \in TaskRow
  BY <1>1, Budget, RequeuedRow, StatusNames
<1>5. [closed EXCEPT !.status = "retry_wait", !.due = FALSE, !.max = @ + 1] \in TaskRow
  BY <1>1, Budget, RequeuedRow, StatusNames
<1> QED
  BY <1>3, <1>4, <1>5 DEF FinishedTask, closed

LEMMA StaleTaskType ==
    ASSUME NEW r \in TaskRow PROVE StaleTask(r) \in TaskRow
<1> DEFINE closed == [r EXCEPT !.due = TRUE, !.beat = "none", !.cancel = FALSE]
<1>1. closed \in TaskRow
  BY DEF TaskRow
<1> HIDE DEF closed
<1>2. [closed EXCEPT !.status = "failed"] \in TaskRow /\ [closed EXCEPT !.status = "canceled"] \in TaskRow
  BY <1>1, TaskRowUpdate, StatusNames
<1>3. [closed EXCEPT !.status = "queued", !.max = @ + 1] \in TaskRow
  BY <1>1, Budget, RequeuedRow, StatusNames
<1> QED
  BY <1>2, <1>3 DEF StaleTask, closed

LEMMA RetriedTaskType ==
    ASSUME NEW r \in TaskRow PROVE RetriedTask(r) \in TaskRow
BY Budget, RequeuedRow, StatusNames DEF RetriedTask

LEMMA FinishedAttemptType ==
    ASSUME NEW c PROVE FinishedAttempt(c) \in AttemptStatus
BY DEF FinishedAttempt, AttemptStatus

LEMMA CanceledType ==
    ASSUME NEW r \in RunState, NEW c \in Causes PROVE Canceled(r, c) \in RunState
BY DEF Canceled, RunState

LEMMA NoRunType == NoRun \in RunState
BY DEF NoRun, RunState, RunPC, Causes, Classes

DispatcherState ==
    [queue : Queue, left : Nat, task : Task \cup {NoTask}, number : 0 .. MaxRuns]
RequestState == [step : {"idle", "pluck", "signal"}, cause : Causes, tasks : SUBSET Task]

LEMMA NoDispatchType == NoDispatch \in DispatcherState
<1>1. (CHOOSE p \in Queue : TRUE) \in Queue
  BY ConstantsAssumption
<1> QED
  BY <1>1, ConstantsAssumption DEF NoDispatch, DispatcherState

LEMMA NoRequestType == NoRequest \in RequestState
BY DEF NoRequest, RequestState, Causes

(* A step that empties the memory leaves it well typed. *)
LEMMA EmptyMemoryType ==
    ASSUME EmptyMemory
    PROVE  /\ active' \in [Task -> 0 .. MaxRuns]
           /\ run' \in [Task -> [Runs -> RunState]]
           /\ dispatcher' \in DispatcherState
           /\ request' \in [Admin -> RequestState]
<1>1. 0 \in 0 .. MaxRuns
  BY ConstantsAssumption
<1> QED
  BY <1>1, NoDispatchType, NoRunType, NoRequestType DEF EmptyMemory

(* The type invariant, component by component. *)
LEMMA TypeParts ==
    TypeOK <=> /\ job \in [Job -> JobRow]
               /\ task \in [Task -> TaskRow]
               /\ attempt \in [Task -> [Runs -> AttemptStatus]]
               /\ queuePaused \in [Queue -> BOOLEAN]
               /\ phase \in {"down", "up", "stopping"}
               /\ active \in [Task -> 0 .. MaxRuns]
               /\ run \in [Task -> [Runs -> RunState]]
               /\ dispatcher \in DispatcherState
               /\ request \in [Admin -> RequestState]
BY DEF TypeOK, JobRow, TaskRow, RunState, DispatcherState, RequestState

LEMMA TypePartsNext ==
    ASSUME job' \in [Job -> JobRow],
           task' \in [Task -> TaskRow],
           attempt' \in [Task -> [Runs -> AttemptStatus]],
           queuePaused' \in [Queue -> BOOLEAN],
           phase' \in {"down", "up", "stopping"},
           active' \in [Task -> 0 .. MaxRuns],
           run' \in [Task -> [Runs -> RunState]],
           dispatcher' \in DispatcherState,
           request' \in [Admin -> RequestState]
    PROVE  TypeOK'
BY DEF TypeOK, JobRow, TaskRow, RunState, DispatcherState, RequestState

-----------------------------------------------------------------------------
(* Type correctness.  The slot count stays a natural number because the    *)
(* dispatcher holds a claimed task only while it has a slot for it.        *)

DispatcherOK ==
    dispatcher.task # NoTask =>
        /\ dispatcher.left > 0
        /\ dispatcher.number \in Runs
        /\ QueueOf[dispatcher.task] = dispatcher.queue

TypeInv == TypeOK /\ DispatcherOK

LEMMA TypeInit == Init => TypeOK
<1> SUFFICES ASSUME Init PROVE TypeOK
  OBVIOUS
<1>1. 0 \in 0 .. MaxRuns /\ MaxAttempts \in Nat
  BY ConstantsAssumption
<1>2. job \in [Job -> JobRow] /\ task \in [Task -> TaskRow]
  BY <1>1 DEF Init, JobRow, TaskRow, JobStatus, TaskStatus
<1>3. attempt \in [Task -> [Runs -> AttemptStatus]] /\ queuePaused \in [Queue -> BOOLEAN]
  BY DEF Init, AttemptStatus
<1>4. active \in [Task -> 0 .. MaxRuns] /\ run \in [Task -> [Runs -> RunState]]
  BY <1>1, NoRunType DEF Init
<1>5. dispatcher \in DispatcherState /\ request \in [Admin -> RequestState]
  BY NoDispatchType, NoRequestType DEF Init
<1>6. phase \in {"down", "up", "stopping"}
  BY DEF Init
<1> QED
  BY <1>2, <1>3, <1>4, <1>5, <1>6, TypeParts

LEMMA TypeProcess == TypeOK /\ Process => TypeOK'
<1> SUFFICES ASSUME TypeOK, Process PROVE TypeOK'
  OBVIOUS
<1>0. /\ job \in [Job -> JobRow] /\ task \in [Task -> TaskRow]
      /\ attempt \in [Task -> [Runs -> AttemptStatus]] /\ queuePaused \in [Queue -> BOOLEAN]
      /\ active \in [Task -> 0 .. MaxRuns] /\ run \in [Task -> [Runs -> RunState]]
      /\ dispatcher \in DispatcherState /\ request \in [Admin -> RequestState]
  BY TypeParts
<1>1. CASE Start
  <2> DEFINE tk == [t \in Task |-> RecoveredTask(t)]
  <2>1. tk \in [Task -> TaskRow]
    BY RecoveredTaskType
  <2>2. \A j \in Job : RecomputeJob(tk, job[j], j) \in JobRow
    BY <1>0, RecomputeJobType
  <2>3. task' = tk
    BY <1>1 DEF Start, Recover
  <2> HIDE DEF tk
  <2>4. job' \in [Job -> JobRow]
    BY <1>0, <1>1, <2>2 DEF Start, Recover, tk
  <2>5. attempt' \in [Task -> [Runs -> AttemptStatus]]
    BY <1>0, <1>1 DEF Start, Recover, AttemptStatus
  <2> QED
    BY <1>0, <1>1, <2>1, <2>3, <2>4, <2>5, TypePartsNext DEF Start, memory
<1>2. CASE Crash \/ StopReturns
  BY <1>0, <1>2, EmptyMemoryType, TypePartsNext DEF Crash, StopReturns, rows
<1>3. CASE Shutdown
  <2>1. StopCause \in Causes
    BY ConstantsAssumption DEF Causes
  <2>2. run' \in [Task -> [Runs -> RunState]]
    BY <1>0, <1>3, <2>1, CanceledType DEF Shutdown
  <2> QED
    BY <1>0, <1>3, <2>2, TypePartsNext DEF Shutdown, rows
<1> QED
  BY <1>1, <1>2, <1>3 DEF Process

LEMMA TypeDispatch == TypeInv /\ Dispatch => TypeOK'
<1> SUFFICES ASSUME TypeOK, DispatcherOK, Dispatch PROVE TypeOK'
  BY DEF TypeInv
<1>0. /\ job \in [Job -> JobRow] /\ task \in [Task -> TaskRow]
      /\ attempt \in [Task -> [Runs -> AttemptStatus]] /\ queuePaused \in [Queue -> BOOLEAN]
      /\ phase \in {"down", "up", "stopping"}
      /\ active \in [Task -> 0 .. MaxRuns] /\ run \in [Task -> [Runs -> RunState]]
      /\ dispatcher \in DispatcherState /\ request \in [Admin -> RequestState]
  BY TypeParts
<1>1. ASSUME NEW q \in Queue, DispatchQueue(q) PROVE TypeOK'
  <2>1. Capacity[q] \in Nat /\ ActiveCount(q) \in Nat
    <3>1. IsFiniteSet({t \in Task : QueueOf[t] = q /\ active[t] # 0})
      BY ConstantsAssumption, FS_Subset
    <3> QED
      BY <3>1, ConstantsAssumption, FS_CardinalityType DEF ActiveCount
  <2>2. Capacity[q] - ActiveCount(q) \in Nat
    BY <1>1, <2>1 DEF DispatchQueue
  <2>3. dispatcher' \in DispatcherState
    BY <1>1, <2>2, NoDispatchType DEF DispatchQueue, DispatcherState
  <2> QED
    BY <1>0, <1>1, <2>3, TypePartsNext DEF DispatchQueue, rows
<1>2. ASSUME NEW t \in Task, Claim(t) PROVE TypeOK'
  <2> DEFINE n == task[t].runs + 1
             r == [task[t] EXCEPT !.status = "running", !.runs = n, !.due = TRUE,
                                  !.beat = "fresh", !.commit = FALSE]
  <2>1. n \in Runs /\ n \in 0 .. MaxRuns
    BY <1>0, <1>2, ConstantsAssumption DEF Claim, TaskRow, Runs
  <2> HIDE DEF n
  <2>2. r \in TaskRow
    BY <1>0, <2>1, StatusNames, ZenonT(60) DEF TaskRow
  <2> HIDE DEF r
  <2>3. [task EXCEPT ![t] = r] \in [Task -> TaskRow]
    BY <1>0, <2>2
  <2>4. Commit([task EXCEPT ![t] = r], job[JobOf[t]], JobOf[t])
    BY <1>2 DEF Claim, r, n
  <2>5. job' \in [Job -> JobRow] /\ task' \in [Task -> TaskRow]
    BY <2>3, <2>4, CommitType, TaskOfCommit
  <2>6. attempt' = [attempt EXCEPT ![t][n] = "running"]
    BY <1>2 DEF Claim, n
  <2>7. attempt' \in [Task -> [Runs -> AttemptStatus]]
    BY <1>0, <2>1, <2>6 DEF AttemptStatus
  <2>8. dispatcher' = [dispatcher EXCEPT !.task = t, !.number = n]
    BY <1>2 DEF Claim, n
  <2>9. dispatcher' \in DispatcherState
    BY <1>0, <2>1, <2>8 DEF DispatcherState
  <2> QED
    BY <1>0, <1>2, <2>5, <2>7, <2>9, TypePartsNext DEF Claim
<1>3. CASE DispatchEnds
  BY <1>0, <1>3, NoDispatchType, TypePartsNext DEF DispatchEnds, rows
<1>4. CASE Launch
  <2>0. dispatcher.task \in Task /\ dispatcher.number \in 0 .. MaxRuns /\ StopCause \in Causes
    BY <1>0, <1>4, ConstantsAssumption DEF Launch, DispatcherState, Causes
  <2>1. active' \in [Task -> 0 .. MaxRuns]
    BY <1>0, <1>4, <2>0 DEF Launch
  <2> DEFINE again == Lapped(dispatcher.task) \/ \E m \in Runs : Live(dispatcher.task, m)
             r == [NoRun EXCEPT !.pc = "handler",
                                !.cause = IF phase = "up" THEN "none" ELSE StopCause,
                                !.lapped = again]
  <2>a. again \in BOOLEAN
    BY DEF Lapped, Live
  <2> HIDE DEF again
  <2>2. r \in RunState
    BY <2>0, <2>a, NoRunType DEF RunState, RunPC, Causes
  <2> HIDE DEF r
  <2>3. run' \in [Task -> [Runs -> RunState]]
    BY <1>0, <1>4, <2>0, <2>2 DEF Launch, r, again
  <2>4. dispatcher.left - 1 \in Nat /\ 0 \in 0 .. MaxRuns
    BY <1>0, <1>4, ConstantsAssumption DEF Launch, DispatcherOK, DispatcherState
  <2>5. dispatcher' \in DispatcherState
    BY <1>0, <1>4, <2>4 DEF Launch, DispatcherState
  <2> QED
    BY <1>0, <1>4, <2>1, <2>3, <2>5, TypePartsNext DEF Launch, rows
<1> QED
  BY <1>1, <1>2, <1>3, <1>4 DEF Dispatch

LEMMA ClassType ==
    ASSUME NEW result \in AllResults, NEW cause PROVE Class(result, cause) \in Classes
BY DEF Class, Classes, AllResults

(* Updating the state of one goroutine keeps the goroutines well typed. *)
LEMMA RunUpdate ==
    ASSUME run \in [Task -> [Runs -> RunState]], NEW t \in Task, NEW n \in Runs,
           NEW p \in RunPC, NEW c \in Classes
    PROVE  /\ [run EXCEPT ![t][n].pc = p] \in [Task -> [Runs -> RunState]]
           /\ [run EXCEPT ![t][n].pc = p, ![t][n].class = c] \in [Task -> [Runs -> RunState]]
           /\ [run EXCEPT ![t][n].commit = TRUE] \in [Task -> [Runs -> RunState]]
<1> DEFINE r == run[t][n]
<1>1. r \in RunState /\ run[t] \in [Runs -> RunState]
  OBVIOUS
<1>2. \A q \in RunState : [run EXCEPT ![t][n] = q] \in [Task -> [Runs -> RunState]]
  BY <1>1
<1>3. /\ [r EXCEPT !.pc = p] \in RunState
      /\ [r EXCEPT !.pc = p, !.class = c] \in RunState
      /\ [r EXCEPT !.commit = TRUE] \in RunState
  BY <1>1 DEF RunState
<1>4. [run EXCEPT ![t][n].pc = p] = [run EXCEPT ![t][n] = [r EXCEPT !.pc = p]]
  BY <1>1 DEF RunState
<1>5. [run EXCEPT ![t][n].pc = p, ![t][n].class = c]
        = [run EXCEPT ![t][n] = [r EXCEPT !.pc = p, !.class = c]]
  BY <1>1 DEF RunState
<1>6. [run EXCEPT ![t][n].commit = TRUE] = [run EXCEPT ![t][n] = [r EXCEPT !.commit = TRUE]]
  BY <1>1 DEF RunState
<1> QED
  BY <1>2, <1>3, <1>4, <1>5, <1>6

LEMMA TypeGoroutine == TypeOK /\ (\E t \in Task, n \in Runs : Goroutine(t, n)) => TypeOK'
<1> SUFFICES ASSUME TypeOK, NEW t \in Task, NEW n \in Runs, Goroutine(t, n) PROVE TypeOK'
  OBVIOUS
<1>0. /\ job \in [Job -> JobRow] /\ task \in [Task -> TaskRow]
      /\ attempt \in [Task -> [Runs -> AttemptStatus]] /\ queuePaused \in [Queue -> BOOLEAN]
      /\ phase \in {"down", "up", "stopping"}
      /\ active \in [Task -> 0 .. MaxRuns] /\ run \in [Task -> [Runs -> RunState]]
      /\ dispatcher \in DispatcherState /\ request \in [Admin -> RequestState]
  BY TypeParts
<1>c. job[JobOf[t]] \in JobRow /\ JobOf[t] \in Job
  BY TaskOfCommit
<1>p. {"handler", "refused", "finish", "exit"} \subseteq RunPC
  BY DEF RunPC
<1>1. CASE HandlerReturns(t, n)
  <2>1. PICK result \in Results :
          run' = [run EXCEPT ![t][n].pc = "finish", ![t][n].class = Class(result, run[t][n].cause)]
    BY <1>1 DEF HandlerReturns
  <2> DEFINE c == Class(result, run[t][n].cause)
  <2>2. c \in Classes
    BY ClassType, ConstantsAssumption
  <2> HIDE DEF c
  <2>3. run' = [run EXCEPT ![t][n].pc = "finish", ![t][n].class = c]
    BY <2>1 DEF c
  <2>4. run' \in [Task -> [Runs -> RunState]]
    BY <1>0, <1>p, <2>2, <2>3, RunUpdate
  <2> QED
    BY <1>0, <1>1, <2>4, TypePartsNext DEF HandlerReturns, rows
<1>2. CASE RefusedReturns(t, n)
  <2>1. PICK c \in {"canceled", Class("ctx", run[t][n].cause)} :
          run' = [run EXCEPT ![t][n].pc = "finish", ![t][n].class = c]
    BY <1>2 DEF RefusedReturns
  <2>2. c \in Classes
    BY ClassType DEF Classes, AllResults
  <2>3. run' \in [Task -> [Runs -> RunState]]
    BY <1>0, <1>p, <2>1, <2>2, RunUpdate
  <2> QED
    BY <1>0, <1>2, <2>3, TypePartsNext DEF RefusedReturns, rows
<1>3. CASE BeginCommit(t, n)
  <2>1. [task EXCEPT ![t].commit = TRUE] \in [Task -> TaskRow]
    BY <1>0, TaskFieldUpdate
  <2>2. job' \in [Job -> JobRow] /\ task' \in [Task -> TaskRow]
    BY <1>3, <1>c, <2>1, CommitType DEF BeginCommit
  <2>3. run' \in [Task -> [Runs -> RunState]]
    BY <1>0, <1>p, <1>3, RunUpdate DEF BeginCommit, Classes
  <2> QED
    BY <1>0, <1>3, <2>2, <2>3, TypePartsNext DEF BeginCommit
<1>4. CASE BeginCommitRefused(t, n)
  <2>1. run' \in [Task -> [Runs -> RunState]]
    BY <1>0, <1>p, <1>4, RunUpdate DEF BeginCommitRefused, Classes
  <2> QED
    BY <1>0, <1>4, <2>1, TypePartsNext DEF BeginCommitRefused, rows
<1>5. CASE ReportProgress(t, n)
  <2>1. [task EXCEPT ![t].beat = "fresh"] \in [Task -> TaskRow]
    BY <1>0, TaskFieldUpdate
  <2>2. job' \in [Job -> JobRow] /\ task' \in [Task -> TaskRow]
    BY <1>5, <1>c, <2>1, CommitType DEF ReportProgress
  <2> QED
    BY <1>0, <1>5, <2>2, TypePartsNext DEF ReportProgress, memory
<1>6. CASE Finish(t, n)
  <2>1. run' \in [Task -> [Runs -> RunState]]
    BY <1>0, <1>p, <1>6, RunUpdate DEF Finish, Classes
  <2>2. CASE task[t].status \notin TaskInFlight
    BY <1>0, <1>6, <2>1, <2>2, TypePartsNext DEF Finish
  <2>3. CASE task[t].status \in TaskInFlight
    <3> DEFINE c == FinishClass(task[t], run[t][n].class)
               tk == [s \in Task |->
                        CASE s = t -> FinishedTask(task[t], c)
                          [] s # t /\ c = "ok" /\ ParentOf[s] = t
                                   /\ task[s].status = "absent" -> CreatedTask(s)
                          [] OTHER -> task[s]]
    <3>1. /\ attempt' = [attempt EXCEPT ![t][n] = FinishedAttempt(c)]
          /\ Commit(tk, job[JobOf[t]], JobOf[t])
      BY <1>6, <2>3 DEF Finish
    <3>2. tk \in [Task -> TaskRow]
      BY <1>0, FinishedTaskType, CreatedTaskType
    <3>3. FinishedAttempt(c) \in AttemptStatus
      BY FinishedAttemptType
    <3> HIDE DEF c, tk
    <3>4. job' \in [Job -> JobRow] /\ task' \in [Task -> TaskRow]
      BY <1>c, <3>1, <3>2, CommitType
    <3>5. attempt' \in [Task -> [Runs -> AttemptStatus]]
      BY <1>0, <3>1, <3>3
    <3> QED
      BY <1>0, <1>6, <2>1, <3>4, <3>5, TypePartsNext DEF Finish
  <2> QED
    BY <2>2, <2>3
<1>7. CASE FinishLost(t, n)
  <2>1. run' \in [Task -> [Runs -> RunState]]
    BY <1>0, <1>p, <1>7, RunUpdate DEF FinishLost, Classes
  <2> QED
    BY <1>0, <1>7, <2>1, TypePartsNext DEF FinishLost, rows
<1>8. CASE GoroutineExits(t, n)
  <2>0. [NoRun EXCEPT !.lapped = run[t][n].lapped] \in RunState
    BY <1>0, NoRunType DEF RunState
  <2>1. run' \in [Task -> [Runs -> RunState]]
    BY <1>0, <1>8, <2>0 DEF GoroutineExits
  <2>2. active' \in [Task -> 0 .. MaxRuns]
    BY <1>0, <1>8, ConstantsAssumption DEF GoroutineExits
  <2> QED
    BY <1>0, <1>8, <2>1, <2>2, TypePartsNext DEF GoroutineExits, rows
<1> QED
  BY <1>1, <1>2, <1>3, <1>4, <1>5, <1>6, <1>7, <1>8 DEF Goroutine

LEMMA TypeHeartbeat ==
    TypeOK /\ (Heartbeat \/ \E t \in Task : RunAfterElapses(t)) => TypeOK'
<1> SUFFICES ASSUME TypeOK, Heartbeat \/ \E t \in Task : RunAfterElapses(t) PROVE TypeOK'
  OBVIOUS
<1>0. /\ job \in [Job -> JobRow] /\ task \in [Task -> TaskRow]
      /\ attempt \in [Task -> [Runs -> AttemptStatus]] /\ queuePaused \in [Queue -> BOOLEAN]
      /\ phase \in {"down", "up", "stopping"}
      /\ active \in [Task -> 0 .. MaxRuns] /\ run \in [Task -> [Runs -> RunState]]
      /\ dispatcher \in DispatcherState /\ request \in [Admin -> RequestState]
  BY TypeParts
<1>1. ASSUME NEW t \in Task, HeartbeatExpires(t) PROVE TypeOK'
  <2>0. task' = [task EXCEPT ![t] = [task[t] EXCEPT !.beat = "stale"]]
    BY <1>1 DEF HeartbeatExpires
  <2>2. [task[t] EXCEPT !.beat = "stale"] \in TaskRow
    BY <1>0, TaskFieldUpdate
  <2>1. task' \in [Task -> TaskRow]
    BY <1>0, <2>0, <2>2
  <2> QED
    BY <1>0, <1>1, <2>1, TypePartsNext DEF HeartbeatExpires, memory
<1>2. ASSUME NEW t \in Task, RunAfterElapses(t) PROVE TypeOK'
  <2>0. task' = [task EXCEPT ![t] = [task[t] EXCEPT !.due = TRUE]]
    BY <1>2 DEF RunAfterElapses
  <2>2. [task[t] EXCEPT !.due = TRUE] \in TaskRow
    BY <1>0, TaskFieldUpdate
  <2>1. task' \in [Task -> TaskRow]
    BY <1>0, <2>0, <2>2
  <2> QED
    BY <1>0, <1>2, <2>1, TypePartsNext DEF RunAfterElapses, memory
<1>3. CASE RecoverStaleTasks
  <2> DEFINE tk == [t \in Task |-> IF Stale(t) THEN StaleTask(task[t]) ELSE task[t]]
  <2>1. tk \in [Task -> TaskRow]
    BY <1>0, StaleTaskType
  <2>2. task' = tk
    BY <1>3 DEF RecoverStaleTasks
  <2>3. \A j \in Job : RecomputeJob(tk, job[j], j) \in JobRow
    BY <1>0, RecomputeJobType
  <2>4. job' = [j \in Job |-> IF \E t \in TasksOf(j) : Stale(t)
                              THEN RecomputeJob(tk, job[j], j) ELSE job[j]]
    BY <1>3 DEF RecoverStaleTasks
  <2> HIDE DEF tk
  <2>5. job' \in [Job -> JobRow]
    BY <1>0, <2>3, <2>4
  <2>6. \A r \in TaskRow : StaleAttempt(r) \in AttemptStatus
    BY DEF StaleAttempt, AttemptStatus
  <2>7. attempt' \in [Task -> [Runs -> AttemptStatus]]
    BY <1>0, <1>3, <2>6 DEF RecoverStaleTasks
  <2> QED
    BY <1>0, <1>3, <2>1, <2>2, <2>5, <2>7, TypePartsNext DEF RecoverStaleTasks, memory
<1> QED
  BY <1>1, <1>2, <1>3 DEF Heartbeat

LEMMA TypeOperator == TypeOK /\ Operator => TypeOK'
<1> SUFFICES ASSUME TypeOK, Operator PROVE TypeOK'
  OBVIOUS
<1>0. /\ job \in [Job -> JobRow] /\ task \in [Task -> TaskRow]
      /\ attempt \in [Task -> [Runs -> AttemptStatus]] /\ queuePaused \in [Queue -> BOOLEAN]
      /\ phase \in {"down", "up", "stopping"}
      /\ active \in [Task -> 0 .. MaxRuns] /\ run \in [Task -> [Runs -> RunState]]
      /\ dispatcher \in DispatcherState /\ request \in [Admin -> RequestState]
  BY TypeParts
<1>c. \A t \in Task : job[JobOf[t]] \in JobRow /\ JobOf[t] \in Job
  BY TaskOfCommit
<1>r. \A jb \in JobRow : /\ [jb EXCEPT !.pause = TRUE] \in JobRow
                         /\ [jb EXCEPT !.pause = FALSE] \in JobRow
                         /\ [jb EXCEPT !.cancel = FALSE] \in JobRow
                         /\ [jb EXCEPT !.cancel = TRUE, !.pause = FALSE] \in JobRow
                         /\ [jb EXCEPT !.cancel = FALSE, !.pause = FALSE] \in JobRow
  BY DEF JobRow
<1>q. \A a \in Admin, c \in {"paused", "canceled"}, S \in SUBSET Task :
        Signals(a, c, S) => request' \in [Admin -> RequestState]
  BY <1>0 DEF Signals, RequestState, Causes
<1>s. \A j : TasksOf(j) \in SUBSET Task
  BY DEF TasksOf
<1>1. ASSUME NEW j \in Job, Enqueue(j) PROVE TypeOK'
  <2>1. task' \in [Task -> TaskRow]
    BY <1>0, <1>1, CreatedTaskType DEF Enqueue
  <2>2. job' \in [Job -> JobRow]
    BY <1>0, <1>1 DEF Enqueue, JobRow, JobStatus
  <2> QED
    BY <1>0, <1>1, <2>1, <2>2, TypePartsNext DEF Enqueue, memory
<1>2. ASSUME NEW j \in Job, ResumeJob(j) PROVE TypeOK'
  <2>1. job' \in [Job -> JobRow] /\ task' \in [Task -> TaskRow]
    BY <1>0, <1>r, <1>2, CommitType DEF ResumeJob
  <2> QED
    BY <1>0, <1>2, <2>1, TypePartsNext DEF ResumeJob, memory
<1>3. ASSUME NEW j \in Job, RunJobNow(j) PROVE TypeOK'
  <2> DEFINE waits(t) == t \in TasksOf(j) /\ task[t].status = "queued" /\ ~task[t].due
             tk == [t \in Task |-> IF waits(t) THEN [task[t] EXCEPT !.due = TRUE] ELSE task[t]]
  <2>1. tk \in [Task -> TaskRow]
    BY <1>0, TaskFieldUpdate
  <2>2. Commit(tk, job[j], j)
    BY <1>3 DEF RunJobNow
  <2> HIDE DEF tk
  <2>3. job' \in [Job -> JobRow] /\ task' \in [Task -> TaskRow]
    BY <1>0, <2>1, <2>2, CommitType
  <2> QED
    BY <1>0, <1>3, <2>3, TypePartsNext DEF RunJobNow, memory
<1>4. ASSUME NEW j \in Job, RetryJob(j) PROVE TypeOK'
  <2> DEFINE over(t) == t \in TasksOf(j) /\ task[t].status \in {"failed", "canceled"}
             tk == [t \in Task |-> IF over(t) THEN RetriedTask(task[t]) ELSE task[t]]
  <2>1. tk \in [Task -> TaskRow]
    BY <1>0, RetriedTaskType
  <2>2. Commit(tk, [job[j] EXCEPT !.cancel = FALSE, !.pause = FALSE], j)
    BY <1>4 DEF RetryJob
  <2> HIDE DEF tk
  <2>3. job' \in [Job -> JobRow] /\ task' \in [Task -> TaskRow]
    BY <1>0, <1>r, <2>1, <2>2, CommitType
  <2> QED
    BY <1>0, <1>4, <2>3, TypePartsNext DEF RetryJob, memory
<1>5. ASSUME NEW t \in Task, RetryTask(t) PROVE TypeOK'
  <2>1. [task EXCEPT ![t] = RetriedTask(@)] \in [Task -> TaskRow]
    BY <1>0, RetriedTaskType
  <2>2. job' \in [Job -> JobRow] /\ task' \in [Task -> TaskRow]
    BY <1>c, <1>r, <1>5, <2>1, CommitType DEF RetryTask
  <2> QED
    BY <1>0, <1>5, <2>2, TypePartsNext DEF RetryTask, memory
<1>6. ASSUME NEW q \in Queue, SetQueuePaused(q) PROVE TypeOK'
  <2>1. queuePaused' \in [Queue -> BOOLEAN]
    BY <1>0, <1>6 DEF SetQueuePaused
  <2> QED
    BY <1>0, <1>6, <2>1, TypePartsNext DEF SetQueuePaused, memory
<1>7. ASSUME NEW a \in Admin, NEW j \in Job, PauseJob(a, j) PROVE TypeOK'
  <2>1. job' \in [Job -> JobRow] /\ task' \in [Task -> TaskRow]
    BY <1>0, <1>r, <1>7, CommitType DEF PauseJob
  <2>2. request' \in [Admin -> RequestState]
    BY <1>q, <1>s, <1>7 DEF PauseJob
  <2> QED
    BY <1>0, <1>7, <2>1, <2>2, TypePartsNext DEF PauseJob
<1>8. ASSUME NEW a \in Admin, NEW j \in Job, CancelJob(a, j) PROVE TypeOK'
  <2> DEFINE tk == [t \in Task |->
                 CASE JobOf[t] = j /\ task[t].status \in TaskWaiting ->
                        [task[t] EXCEPT !.status = "canceled"]
                   [] JobOf[t] = j /\ task[t].status = "running" ->
                        [task[t] EXCEPT !.status = "cancel_requested", !.cancel = TRUE]
                   [] OTHER -> task[t]]
  <2>1. tk \in [Task -> TaskRow]
    <3>1. \A t \in Task : /\ [task[t] EXCEPT !.status = "canceled"] \in TaskRow
                          /\ [task[t] EXCEPT !.status = "cancel_requested", !.cancel = TRUE] \in TaskRow
      BY <1>0, TaskRowUpdate, StatusNames
    <3> QED
      BY <1>0, <3>1
  <2>2. Commit(tk, [job[j] EXCEPT !.cancel = TRUE, !.pause = FALSE], j)
    BY <1>8 DEF CancelJob
  <2> HIDE DEF tk
  <2>3. job' \in [Job -> JobRow] /\ task' \in [Task -> TaskRow]
    BY <1>0, <1>r, <2>1, <2>2, CommitType
  <2>4. request' \in [Admin -> RequestState]
    BY <1>0, <1>s, <1>8 DEF CancelJob, RequestState, Causes
  <2> QED
    BY <1>0, <1>8, <2>3, <2>4, TypePartsNext DEF CancelJob
<1>9. ASSUME NEW a \in Admin, NEW t \in Task, CancelTask(a, t) PROVE TypeOK'
  <2> DEFINE tk == [task EXCEPT ![t] = IF @.status \in TaskInFlight
                 THEN [@ EXCEPT !.status = "cancel_requested", !.cancel = TRUE]
                 ELSE [@ EXCEPT !.status = "canceled"]]
  <2>1. tk \in [Task -> TaskRow]
    <3>1. /\ [task[t] EXCEPT !.status = "canceled"] \in TaskRow
          /\ [task[t] EXCEPT !.status = "cancel_requested", !.cancel = TRUE] \in TaskRow
      BY <1>0, TaskRowUpdate, StatusNames
    <3> QED
      BY <1>0, <3>1
  <2>2. Commit(tk, job[JobOf[t]], JobOf[t])
    BY <1>9 DEF CancelTask
  <2> HIDE DEF tk
  <2>3. job' \in [Job -> JobRow] /\ task' \in [Task -> TaskRow]
    BY <1>c, <2>1, <2>2, CommitType
  <2>4. request' \in [Admin -> RequestState]
    BY <1>q, <1>9 DEF CancelTask
  <2> QED
    BY <1>0, <1>9, <2>3, <2>4, TypePartsNext DEF CancelTask
<1>10. ASSUME NEW a \in Admin, PluckCanceled(a) PROVE TypeOK'
  <2>1. {t \in request[a].tasks : task[t].status = "cancel_requested"} \in SUBSET Task
    BY <1>0 DEF RequestState
  <2>2. request' \in [Admin -> RequestState]
    BY <1>q, <1>10, <2>1 DEF PluckCanceled
  <2> QED
    BY <1>0, <1>10, <2>2, TypePartsNext DEF PluckCanceled, rows
<1>11. ASSUME NEW a \in Admin, SignalActive(a) PROVE TypeOK'
  <2>1. request' \in [Admin -> RequestState]
    BY <1>0, <1>11, NoRequestType DEF SignalActive
  <2>2. request[a].cause \in Causes
    BY <1>0 DEF RequestState
  <2>3. run' \in [Task -> [Runs -> RunState]]
    BY <1>0, <1>11, <2>2, CanceledType DEF SignalActive
  <2> QED
    BY <1>0, <1>11, <2>1, <2>3, TypePartsNext DEF SignalActive, rows
<1> QED
  BY <1>1, <1>2, <1>3, <1>4, <1>5, <1>6, <1>7, <1>8, <1>9, <1>10, <1>11 DEF Operator

(* Only the dispatcher touches its state, and a restart clears it. *)
LEMMA DispatcherNext ==
    ASSUME TypeOK, DispatcherOK, [Next]_vars PROVE DispatcherOK'
<1>0. dispatcher \in DispatcherState
  BY TypeParts
<1>1. CASE UNCHANGED dispatcher
  BY <1>1 DEF DispatcherOK
<1>2. CASE dispatcher' = NoDispatch
  BY <1>2 DEF DispatcherOK, NoDispatch
<1>3. ASSUME NEW q \in Queue, DispatchQueue(q) PROVE DispatcherOK'
  BY <1>3 DEF DispatcherOK, NoDispatch, DispatchQueue
<1>4. ASSUME NEW t \in Task, Claim(t) PROVE DispatcherOK'
  <2>1. task[t].runs \in 0 .. MaxRuns /\ task[t].runs + 1 \in Runs
    BY <1>4, TypeParts, ConstantsAssumption DEF Claim, TaskRow, Runs
  <2>2. /\ dispatcher'.task = t /\ dispatcher'.number = task[t].runs + 1
        /\ dispatcher'.left = dispatcher.left /\ dispatcher'.queue = dispatcher.queue
        /\ dispatcher.left > 0 /\ QueueOf[t] = dispatcher.queue
    BY <1>0, <1>4 DEF Claim, DispatcherState
  <2> QED
    BY <2>1, <2>2 DEF DispatcherOK
<1>5. CASE Launch
  BY <1>0, <1>5 DEF Launch, DispatcherOK, DispatcherState
<1>6. CASE Process
  BY <1>1, <1>2, <1>6 DEF Process, Start, Crash, Shutdown, StopReturns, EmptyMemory, memory
<1>7. CASE DispatchEnds
  BY <1>2, <1>7 DEF DispatchEnds
<1>8. CASE Heartbeat \/ \E t \in Task : RunAfterElapses(t)
  BY <1>1, <1>8, SMTT(30) DEF Heartbeat, HeartbeatExpires, RecoverStaleTasks, RunAfterElapses, memory
<1>9. ASSUME NEW t \in Task, NEW n \in Runs, Goroutine(t, n) PROVE DispatcherOK'
  <2>1. HandlerReturns(t, n) \/ RefusedReturns(t, n) \/ BeginCommitRefused(t, n) => UNCHANGED dispatcher
    BY DEF HandlerReturns, RefusedReturns, BeginCommitRefused
  <2>2. BeginCommit(t, n) \/ ReportProgress(t, n) => UNCHANGED dispatcher
    BY DEF BeginCommit, ReportProgress, memory
  <2>3. Finish(t, n) => UNCHANGED dispatcher
    BY DEF Finish, memory
  <2>4. FinishLost(t, n) \/ GoroutineExits(t, n) => UNCHANGED dispatcher
    BY DEF FinishLost, GoroutineExits
  <2> QED
    BY <1>1, <1>9, <2>1, <2>2, <2>3, <2>4 DEF Goroutine
<1>10. CASE Operator
  BY <1>1, <1>10 DEF Operator, Enqueue, ResumeJob, RunJobNow, RetryJob, RetryTask, SetQueuePaused,
                     PauseJob, CancelJob, CancelTask, PluckCanceled, SignalActive, memory
<1>11. CASE UNCHANGED vars
  BY <1>1, <1>11 DEF vars
<1> QED
  BY <1>3, <1>4, <1>5, <1>6, <1>7, <1>8, <1>9, <1>10, <1>11 DEF Next, Dispatch

LEMMA TypeNext == TypeInv /\ [Next]_vars => TypeInv'
<1> SUFFICES ASSUME TypeInv, [Next]_vars PROVE TypeInv'
  OBVIOUS
<1>0. TypeOK /\ DispatcherOK
  BY DEF TypeInv
<1>1. DispatcherOK'
  BY <1>0, DispatcherNext
<1>2. CASE UNCHANGED vars
  BY <1>0, <1>1, <1>2, TypeParts, TypePartsNext DEF vars, TypeInv
<1> QED
  BY <1>0, <1>1, <1>2, TypeProcess, TypeDispatch, TypeGoroutine, TypeHeartbeat, TypeOperator
  DEF Next, TypeInv

(* Every row, table entry, goroutine and pending request keeps its type in *)
(* every behaviour; in particular the dispatcher's slot count never goes   *)
(* negative and no attempt number leaves its range (runtime.go, all).      *)
THEOREM TypeCorrect == Spec => []TypeOK
<1>1. Init => TypeInv
  <2>1. Init => DispatcherOK
    BY DEF Init, DispatcherOK, NoDispatch
  <2> QED
    BY <2>1, TypeInit DEF TypeInv
<1>2. TypeInv => TypeOK
  BY DEF TypeInv
<1> QED
  BY <1>1, <1>2, TypeNext, PTL DEF Spec

-----------------------------------------------------------------------------
(* The commit fence.                                                       *)

(* What a transaction on job j does to the requests on the jobs. *)
LEMMA CommitFlags ==
    ASSUME TypeOK, NEW tk, NEW jb \in JobRow, NEW j \in Job, Commit(tk, jb, j)
    PROVE  /\ task' = tk
           /\ job'[j] = RecomputeJob(tk, jb, j)
           /\ job'[j].cancel = jb.cancel
           /\ job'[j].pause => jb.pause
           /\ \A i \in Job : i # j => job'[i] = job[i]
<1>1. job \in [Job -> JobRow]
  BY TypeParts
<1>2. task' = tk /\ job' = [job EXCEPT ![j] = RecomputeJob(tk, jb, j)]
  BY DEF Commit
<1>3. job'[j] = RecomputeJob(tk, jb, j) /\ \A i \in Job : i # j => job'[i] = job[i]
  BY <1>1, <1>2
<1>4. RecomputeJob(tk, jb, j).cancel = jb.cancel /\ (RecomputeJob(tk, jb, j).pause => jb.pause)
  BY DEF RecomputeJob, JobRow
<1> QED
  BY <1>2, <1>3, <1>4

(* A step keeps the fence if whatever is committing after it was so before, *)
(* and no request appears on the jobs concerned.                            *)
LEMMA FenceKept ==
    ASSUME CommitFence,
           \A t \in Task : Committing(t)' =>
               /\ Committing(t)
               /\ task'[t].status = task[t].status /\ task'[t].cancel = task[t].cancel
               /\ job'[JobOf[t]].pause => job[JobOf[t]].pause
               /\ job'[JobOf[t]].cancel => job[JobOf[t]].cancel
    PROVE  CommitFence'
BY DEF CommitFence

(* A transaction that sets no request keeps the fence if it puts no task  *)
(* past it.                                                               *)
LEMMA FenceCommit ==
    ASSUME TypeOK, CommitFence, NEW tk, NEW jb \in JobRow, NEW j \in Job,
           Commit(tk, jb, j),
           jb.pause => job[j].pause,
           jb.cancel => job[j].cancel,
           \A t \in Task : tk[t].commit /\ tk[t].status \in TaskInFlight =>
               task[t].commit /\ task[t].status = tk[t].status /\ task[t].cancel = tk[t].cancel
    PROVE  CommitFence'
<1>1. /\ task' = tk /\ (job'[j].cancel => job[j].cancel) /\ (job'[j].pause => job[j].pause)
      /\ \A i \in Job : i # j => job'[i] = job[i]
  BY CommitFlags
<1>2. \A t \in Task : /\ job'[JobOf[t]].cancel => job[JobOf[t]].cancel
                      /\ job'[JobOf[t]].pause => job[JobOf[t]].pause
  BY <1>1, TaskOfCommit
<1>3. \A t \in Task : Committing(t)' => Committing(t)
               /\ task'[t].status = task[t].status /\ task'[t].cancel = task[t].cancel
  BY <1>1 DEF Committing
<1> QED
  BY <1>2, <1>3, FenceKept

LEMMA FenceNext ==
    ASSUME TypeOK, CommitFence, [Next]_vars PROVE CommitFence'
<1>0. job \in [Job -> JobRow] /\ task \in [Task -> TaskRow]
  BY TypeParts
<1>c. \A t \in Task : task[t] \in TaskRow /\ job[JobOf[t]] \in JobRow /\ JobOf[t] \in Job
  BY TaskOfCommit
<1>f. TaskInFlight = {"running", "cancel_requested"} /\ TaskWaiting = {"queued", "retry_wait"}
  BY DEF TaskInFlight, TaskWaiting
<1>u. CASE UNCHANGED <<job, task>>
  BY <1>u, FenceKept DEF Committing
<1>1. CASE Start
  <2>1. \A t \in Task : ~Committing(t)'
    <3> SUFFICES ASSUME NEW t \in Task PROVE ~Committing(t)'
      OBVIOUS
    <3>1. task'[t] = RecoveredTask(t)
      BY <1>1 DEF Start, Recover
    <3>2. ~(RecoveredTask(t).commit /\ RecoveredTask(t).status \in TaskInFlight)
      BY <1>c, <1>f DEF RecoveredTask, Committing, TaskRow
    <3> QED
      BY <3>1, <3>2 DEF Committing
  <2> QED
    BY <2>1 DEF CommitFence
<1>2. CASE Crash \/ Shutdown \/ StopReturns
  BY <1>2, <1>u DEF Crash, Shutdown, StopReturns, rows
<1>3. ASSUME NEW t \in Task, Claim(t) PROVE CommitFence'
  <2> DEFINE tk == [task EXCEPT ![t] = [@ EXCEPT !.status = "running", !.runs = task[t].runs + 1,
                                        !.due = TRUE, !.beat = "fresh", !.commit = FALSE]]
  <2>1. Commit(tk, job[JobOf[t]], JobOf[t])
    BY <1>3 DEF Claim
  <2>2. \A s \in Task : tk[s].commit => s # t /\ tk[s] = task[s]
    BY <1>0 DEF TaskRow
  <2> HIDE DEF tk
  <2> QED
    BY <1>c, <2>1, <2>2, FenceCommit
<1>4. CASE (\E q \in Queue : DispatchQueue(q)) \/ Launch \/ DispatchEnds
  BY <1>4, <1>u DEF DispatchQueue, Launch, DispatchEnds, rows
<1>5. ASSUME NEW t \in Task, NEW n \in Runs, Goroutine(t, n) PROVE CommitFence'
  <2>1. CASE HandlerReturns(t, n) \/ RefusedReturns(t, n) \/ BeginCommitRefused(t, n)
             \/ FinishLost(t, n) \/ GoroutineExits(t, n)
    BY <2>1, <1>u DEF HandlerReturns, RefusedReturns, BeginCommitRefused, FinishLost,
                      GoroutineExits, rows
  <2>2. CASE BeginCommit(t, n)
    <3>1. /\ task' = [task EXCEPT ![t].commit = TRUE]
          /\ job'[JobOf[t]].cancel = job[JobOf[t]].cancel
          /\ job'[JobOf[t]].pause => job[JobOf[t]].pause
          /\ \A i \in Job : i # JobOf[t] => job'[i] = job[i]
      BY <1>c, <2>2, CommitFlags, ZenonT(60) DEF BeginCommit
    <3>2. \A s \in Task : s # t => task'[s] = task[s]
      BY <1>0, <3>1
    <3>3. \A s \in Task : Committing(s)' => s = t \/ Committing(s)
      BY <3>2 DEF Committing
    <3>4. task'[t].status = task[t].status /\ task'[t].cancel = task[t].cancel
      BY <1>0, <3>1 DEF TaskRow
    <3>5. /\ task[t].status = "running" /\ ~task[t].cancel
          /\ ~job[JobOf[t]].cancel /\ ~job[JobOf[t]].pause
      BY <2>2 DEF BeginCommit, CanCommit
    <3>6. ASSUME NEW s \in Task, Committing(s)'
          PROVE  /\ task'[s].status = "running" /\ ~task'[s].cancel
                 /\ ~job'[JobOf[s]].pause /\ ~job'[JobOf[s]].cancel
      <4>1. CASE s = t
        BY <3>1, <3>4, <3>5, <4>1
      <4>2. CASE s # t
        <5>1. /\ task[s].status = "running" /\ ~task[s].cancel
              /\ ~job[JobOf[s]].pause /\ ~job[JobOf[s]].cancel
          BY <3>3, <3>6, <4>2 DEF CommitFence
        <5> QED
          BY <1>c, <3>1, <3>2, <4>2, <5>1
      <4> QED
        BY <4>1, <4>2
    <3> QED
      BY <3>6 DEF CommitFence
  <2>3. CASE ReportProgress(t, n)
    <3> DEFINE tk == [task EXCEPT ![t].beat = "fresh"]
    <3>1. \A s \in Task : /\ tk[s].commit = task[s].commit /\ tk[s].status = task[s].status
                          /\ tk[s].cancel = task[s].cancel
      BY <1>0 DEF TaskRow
    <3>2. Commit(tk, job[JobOf[t]], JobOf[t])
      BY <2>3 DEF ReportProgress
    <3> HIDE DEF tk
    <3> QED
      BY <1>c, <3>1, <3>2, FenceCommit
  <2>4. CASE Finish(t, n)
    <3>1. CASE task[t].status \notin TaskInFlight
      BY <1>u, <2>4, <3>1 DEF Finish
    <3>2. CASE task[t].status \in TaskInFlight
      <4> DEFINE c == FinishClass(task[t], run[t][n].class)
                 tk == [s \in Task |->
                          CASE s = t -> FinishedTask(task[t], c)
                            [] s # t /\ c = "ok" /\ ParentOf[s] = t
                                     /\ task[s].status = "absent" -> CreatedTask(s)
                            [] OTHER -> task[s]]
      <4>1. Commit(tk, job[JobOf[t]], JobOf[t])
        BY <2>4, <3>2 DEF Finish
      <4>2. FinishedTask(task[t], c).status \notin TaskInFlight
        BY <1>c, <1>f DEF FinishedTask, TaskRow
      <4>3. \A s \in Task : ~CreatedTask(s).commit
        BY DEF CreatedTask
      <4> HIDE DEF c
      <4>4. \A s \in Task : tk[s].commit /\ tk[s].status \in TaskInFlight => tk[s] = task[s]
        BY <4>2, <4>3
      <4> HIDE DEF tk
      <4> QED
        BY <1>c, <4>1, <4>4, FenceCommit
    <3> QED
      BY <3>1, <3>2
  <2> QED
    BY <1>5, <2>1, <2>2, <2>3, <2>4 DEF Goroutine
<1>6. ASSUME NEW t \in Task, HeartbeatExpires(t) PROVE CommitFence'
  <2>1. task' = [task EXCEPT ![t].beat = "stale"] /\ job' = job
    BY <1>6 DEF HeartbeatExpires
  <2>2. \A s \in Task : /\ task'[s].commit = task[s].commit /\ task'[s].status = task[s].status
                        /\ task'[s].cancel = task[s].cancel
    BY <1>0, <2>1 DEF TaskRow
  <2> QED
    BY <2>1, <2>2, FenceKept DEF Committing
<1>7. ASSUME NEW t \in Task, RunAfterElapses(t) PROVE CommitFence'
  <2>1. task' = [task EXCEPT ![t].due = TRUE] /\ job' = job
    BY <1>7 DEF RunAfterElapses
  <2>2. \A s \in Task : /\ task'[s].commit = task[s].commit /\ task'[s].status = task[s].status
                        /\ task'[s].cancel = task[s].cancel
    BY <1>0, <2>1 DEF TaskRow
  <2> QED
    BY <2>1, <2>2, FenceKept DEF Committing
<1>8. CASE RecoverStaleTasks
  <2> DEFINE tk == [t \in Task |-> IF Stale(t) THEN StaleTask(task[t]) ELSE task[t]]
  <2>1. /\ task' = tk
        /\ job' = [j \in Job |-> IF \E t \in TasksOf(j) : Stale(t)
                                 THEN RecomputeJob(tk, job[j], j) ELSE job[j]]
    BY <1>8 DEF RecoverStaleTasks
  <2>2. \A t \in Task : StaleTask(task[t]).status \notin TaskInFlight
    BY <1>c, <1>f DEF StaleTask, TaskRow
  <2>3. \A t \in Task : tk[t].status \in TaskInFlight => tk[t] = task[t]
    BY <2>2
  <2> HIDE DEF tk
  <2>4. \A j \in Job : /\ RecomputeJob(tk, job[j], j).cancel = job[j].cancel
                       /\ RecomputeJob(tk, job[j], j).pause => job[j].pause
    BY <1>0 DEF RecomputeJob, JobRow
  <2>5. \A j \in Job : job'[j].cancel = job[j].cancel /\ (job'[j].pause => job[j].pause)
    BY <2>1, <2>4
  <2> QED
    BY <1>c, <2>1, <2>3, <2>5, FenceKept DEF Committing
<1>9. ASSUME NEW j \in Job, Enqueue(j) PROVE CommitFence'
  <2>1. \A t \in Task : task'[t] = CreatedTask(t) \/ task'[t] = task[t]
    BY <1>9 DEF Enqueue
  <2>2. ASSUME NEW t \in Task, task'[t].commit PROVE task'[t] = task[t]
    <3>1. ~CreatedTask(t).commit
      BY DEF CreatedTask
    <3>2. task'[t] # CreatedTask(t)
      BY <2>2, <3>1
    <3> QED
      BY <2>1, <3>2
  <2>3. \A i \in Job : job'[i].pause = job[i].pause /\ job'[i].cancel = job[i].cancel
    BY <1>0, <1>9 DEF Enqueue, JobRow
  <2> QED
    BY <1>c, <2>2, <2>3, FenceKept DEF Committing
<1>10. ASSUME NEW j \in Job, ResumeJob(j) PROVE CommitFence'
  <2>1. [job[j] EXCEPT !.pause = FALSE] \in JobRow /\ ~[job[j] EXCEPT !.pause = FALSE].pause
        /\ [job[j] EXCEPT !.pause = FALSE].cancel = job[j].cancel
    BY <1>0 DEF JobRow
  <2>2. Commit(task, [job[j] EXCEPT !.pause = FALSE], j)
    BY <1>10 DEF ResumeJob
  <2> QED
    BY <2>1, <2>2, FenceCommit
<1>11. ASSUME NEW j \in Job, RunJobNow(j) PROVE CommitFence'
  <2> DEFINE waits(t) == t \in TasksOf(j) /\ task[t].status = "queued" /\ ~task[t].due
             tk == [t \in Task |-> IF waits(t) THEN [task[t] EXCEPT !.due = TRUE] ELSE task[t]]
  <2>1. Commit(tk, job[j], j)
    BY <1>11 DEF RunJobNow
  <2>2. \A s \in Task : /\ tk[s].commit = task[s].commit /\ tk[s].status = task[s].status
                        /\ tk[s].cancel = task[s].cancel
    BY <1>0 DEF TaskRow
  <2> HIDE DEF tk
  <2> QED
    BY <1>0, <2>1, <2>2, FenceCommit
<1>12. ASSUME NEW j \in Job, RetryJob(j) PROVE CommitFence'
  <2> DEFINE over(t) == t \in TasksOf(j) /\ task[t].status \in {"failed", "canceled"}
             tk == [t \in Task |-> IF over(t) THEN RetriedTask(task[t]) ELSE task[t]]
             jb == [job[j] EXCEPT !.cancel = FALSE, !.pause = FALSE]
  <2>1. Commit(tk, jb, j)
    BY <1>12 DEF RetryJob
  <2>2. \A t \in Task : ~RetriedTask(task[t]).commit
    BY <1>c DEF RetriedTask, TaskRow
  <2>3. \A s \in Task : tk[s].commit => tk[s] = task[s]
    BY <2>2
  <2>4. jb \in JobRow /\ ~jb.cancel /\ ~jb.pause
    BY <1>0 DEF JobRow
  <2> HIDE DEF tk, jb
  <2> QED
    BY <2>1, <2>3, <2>4, FenceCommit
<1>13. ASSUME NEW t \in Task, RetryTask(t) PROVE CommitFence'
  <2> DEFINE tk == [task EXCEPT ![t] = RetriedTask(@)]
             jb == [job[JobOf[t]] EXCEPT !.cancel = FALSE]
  <2>1. Commit(tk, jb, JobOf[t])
    BY <1>13 DEF RetryTask
  <2>2. ~RetriedTask(task[t]).commit
    BY <1>c DEF RetriedTask, TaskRow
  <2>3. \A s \in Task : tk[s].commit => tk[s] = task[s]
    BY <1>0, <2>2
  <2>4. jb \in JobRow /\ ~jb.cancel /\ jb.pause = job[JobOf[t]].pause
    BY <1>c DEF JobRow
  <2> HIDE DEF tk, jb
  <2> QED
    BY <1>c, <2>1, <2>3, <2>4, FenceCommit
<1>14. ASSUME NEW a \in Admin, NEW j \in Job, PauseJob(a, j) PROVE CommitFence'
  <2> DEFINE jb == [job[j] EXCEPT !.pause = TRUE]
  <2>1. jb \in JobRow /\ jb.cancel = job[j].cancel
    BY <1>0 DEF JobRow
  <2>2. Commit(task, jb, j) /\ \A t \in TasksOf(j) : ~Committing(t)
    BY <1>14 DEF PauseJob
  <2> HIDE DEF jb
  <2>3. /\ task' = task /\ job'[j].cancel = job[j].cancel
        /\ \A i \in Job : i # j => job'[i] = job[i]
    BY <2>1, <2>2, CommitFlags
  <2>4. \A t \in Task : Committing(t)' => Committing(t) /\ JobOf[t] # j
    BY <2>2, <2>3 DEF Committing, TasksOf
  <2> QED
    BY <1>c, <2>3, <2>4, FenceKept
<1>15. ASSUME NEW a \in Admin, NEW j \in Job, CancelJob(a, j) PROVE CommitFence'
  <2> DEFINE tk == [t \in Task |->
                 CASE JobOf[t] = j /\ task[t].status \in TaskWaiting ->
                        [task[t] EXCEPT !.status = "canceled"]
                   [] JobOf[t] = j /\ task[t].status = "running" ->
                        [task[t] EXCEPT !.status = "cancel_requested", !.cancel = TRUE]
                   [] OTHER -> task[t]]
             jb == [job[j] EXCEPT !.cancel = TRUE, !.pause = FALSE]
  <2>1. Commit(tk, jb, j) /\ \A t \in TasksOf(j) : ~Committing(t)
    BY <1>15 DEF CancelJob
  <2>2. jb \in JobRow
    BY <1>0 DEF JobRow
  <2>3. \A t \in Task : JobOf[t] # j => tk[t] = task[t]
    OBVIOUS
  <2>4. \A t \in Task : JobOf[t] = j => ~(tk[t].commit /\ tk[t].status \in TaskInFlight)
    BY <1>c, <1>f, <2>1 DEF Committing, TasksOf, TaskRow
  <2> HIDE DEF tk, jb
  <2>5. task' = tk /\ \A i \in Job : i # j => job'[i] = job[i]
    BY <2>1, <2>2, CommitFlags
  <2>6. \A t \in Task : Committing(t)' => Committing(t) /\ JobOf[t] # j /\ task'[t] = task[t]
    BY <2>3, <2>4, <2>5 DEF Committing
  <2> QED
    BY <1>c, <2>5, <2>6, FenceKept
<1>16. ASSUME NEW a \in Admin, NEW t \in Task, CancelTask(a, t) PROVE CommitFence'
  <2> DEFINE tk == [task EXCEPT ![t] = IF @.status \in TaskInFlight
                 THEN [@ EXCEPT !.status = "cancel_requested", !.cancel = TRUE]
                 ELSE [@ EXCEPT !.status = "canceled"]]
  <2>1. Commit(tk, job[JobOf[t]], JobOf[t]) /\ ~task[t].commit
    BY <1>16 DEF CancelTask
  <2>2. \A s \in Task : s # t => tk[s] = task[s]
    BY <1>0
  <2>3. tk[t].commit = task[t].commit
    BY <1>0 DEF TaskRow
  <2> HIDE DEF tk
  <2> QED
    BY <1>c, <2>1, <2>2, <2>3, FenceCommit
<1>17. CASE (\E q \in Queue : SetQueuePaused(q)) \/ \E a \in Admin : PluckCanceled(a) \/ SignalActive(a)
  BY <1>17, <1>u DEF SetQueuePaused, PluckCanceled, SignalActive, rows
<1>18. CASE UNCHANGED vars
  BY <1>18, <1>u DEF vars
<1> QED
  BY <1>1, <1>2, <1>3, <1>4, <1>5, <1>6, <1>7, <1>8, <1>9, <1>10, <1>11, <1>12, <1>13, <1>14,
     <1>15, <1>16, <1>17, <1>18
  DEF Next, Process, Dispatch, Heartbeat, Operator

(* Irreversible work and operator requests exclude each other in every     *)
(* behaviour: while a task is past its BeginCommit fence, its job has no   *)
(* pause and no cancellation pending and the task is not being canceled.   *)
THEOREM FenceHolds == Spec => []CommitFence
<1> DEFINE Inv == TypeInv /\ CommitFence
<1>1. Init => Inv
  <2>1. Init => TypeInv
    BY TypeInit DEF Init, DispatcherOK, NoDispatch, TypeInv
  <2>2. Init => CommitFence
    BY DEF Init, CommitFence, Committing
  <2> QED
    BY <2>1, <2>2
<1>2. Inv /\ [Next]_vars => Inv'
  BY TypeNext, FenceNext DEF TypeInv
<1>3. Inv => CommitFence
  OBVIOUS
<1> HIDE DEF Inv
<1> QED
  BY <1>1, <1>2, <1>3, PTL DEF Spec

-----------------------------------------------------------------------------
(* The reduction of a job's status.  Recover recomputes only jobs in some  *)
(* statuses, and Enqueue overwrites rows: the invariant has to say that    *)
(* the rows of a job that was never enqueued are untouched.                *)

ReducedAt(j) ==
    IF job[j].status = "absent"
    THEN /\ ~job[j].pause /\ ~job[j].cancel
         /\ \A t \in TasksOf(j) : task[t].status = "absent"
    ELSE job[j].status = ReducedStatus(task, job[j], j)

ReductionInv == \A j \in Job : ReducedAt(j)

(* recomputeJob looks at nothing but the statuses of the job's tasks. *)
LEMMA ReducedStatusDepends ==
    ASSUME NEW j \in Job, NEW tk, NEW tl, NEW jb,
           \A t \in TasksOf(j) : tk[t].status = tl[t].status
    PROVE  ReducedStatus(tk, jb, j) = ReducedStatus(tl, jb, j)
BY DEF ReducedStatus

(* A second recomputeJob in a row changes nothing: the pause request that  *)
(* the first one drops only matters to jobs that are not over.             *)
LEMMA RecomputeIdempotent ==
    ASSUME NEW j \in Job, NEW tk, NEW jb \in JobRow
    PROVE  /\ RecomputeJob(tk, jb, j).status = ReducedStatus(tk, RecomputeJob(tk, jb, j), j)
           /\ jb.status # "absent" => RecomputeJob(tk, jb, j).status # "absent"
<1> DEFINE s == ReducedStatus(tk, jb, j)
           r == RecomputeJob(tk, jb, j)
           has(S) == \E t \in TasksOf(j) : tk[t].status \in S
<1>1. r.status = s /\ r.cancel = jb.cancel /\ (s \notin JobTerminal => r.pause = jb.pause)
  BY DEF RecomputeJob, JobRow
<1> SUFFICES r.status = ReducedStatus(tk, r, j) /\ (jb.status # "absent" => r.status # "absent")
  OBVIOUS
<1> HIDE DEF r
<1>2. CASE ~has(TaskStatus \ {"absent"})
  <2>1. ~has(TaskWaiting \cup TaskInFlight)
    BY <1>2 DEF TaskStatus, TaskWaiting, TaskInFlight
  <2> QED
    BY <1>1, <1>2, <2>1 DEF ReducedStatus
<1>3. CASE has(TaskStatus \ {"absent"}) /\ has(TaskWaiting \cup TaskInFlight)
  <2>1. s \notin JobTerminal /\ s # "absent"
    BY <1>3 DEF ReducedStatus, JobTerminal, JobRow
  <2> QED
    BY <1>1, <1>3, <2>1 DEF ReducedStatus
<1>4. CASE has(TaskStatus \ {"absent"}) /\ ~has(TaskWaiting \cup TaskInFlight)
  BY <1>1, <1>4 DEF ReducedStatus
<1> QED
  BY <1>2, <1>3, <1>4

(* A job none of whose tasks changes status keeps its reduced status. *)
LEMMA ReducedKept ==
    ASSUME NEW j \in Job, ReducedAt(j), job'[j] = job[j],
           \A t \in TasksOf(j) : task'[t].status = task[t].status
    PROVE  ReducedAt(j)'
<1>1. ReducedStatus(task', job[j], j) = ReducedStatus(task, job[j], j)
  BY ReducedStatusDepends
<1>2. ReducedStatus(task, job[j], j)' = ReducedStatus(task', job'[j], j)
  BY DEF ReducedStatus, TasksOf
<1>3. TasksOf(j)' = TasksOf(j)
  BY DEF TasksOf
<1> QED
  BY <1>1, <1>2, <1>3 DEF ReducedAt

(* A recomputed job has a reduced status. *)
LEMMA ReducedRecomputed ==
    ASSUME NEW j \in Job, NEW tk, NEW jb \in JobRow, jb.status # "absent",
           task' = tk, job'[j] = RecomputeJob(tk, jb, j)
    PROVE  ReducedAt(j)'
<1>1. ReducedStatus(task, job[j], j)' = ReducedStatus(task', job'[j], j)
  BY DEF ReducedStatus, TasksOf
<1> QED
  BY <1>1, RecomputeIdempotent DEF ReducedAt

LEMMA ReducedCommit ==
    ASSUME TypeOK, ReductionInv, NEW tk, NEW jb \in JobRow, NEW j \in Job, Commit(tk, jb, j),
           jb.status # "absent",
           \A t \in Task : JobOf[t] # j => tk[t].status = task[t].status
    PROVE  ReductionInv'
<1> SUFFICES ASSUME NEW i \in Job PROVE ReducedAt(i)'
  BY DEF ReductionInv
<1>1. task' = tk /\ job'[j] = RecomputeJob(tk, jb, j) /\ (i # j => job'[i] = job[i])
  BY CommitFlags
<1>2. CASE i = j
  BY <1>1, <1>2, ReducedRecomputed
<1>3. CASE i # j
  BY <1>1, <1>3, ReducedKept DEF ReductionInv, TasksOf
<1> QED
  BY <1>2, <1>3

(* A task that exists belongs to a job that does. *)
LEMMA TaskHasJob ==
    ASSUME TypeOK, ReductionInv, NEW t \in Task, task[t].status # "absent"
    PROVE  job[JobOf[t]].status # "absent"
BY TaskOfCommit DEF ReductionInv, ReducedAt, TasksOf

(* What the reduced status says about the tasks. *)
LEMMA ReducedTasks ==
    ASSUME TypeOK, ReductionInv, NEW j \in Job, NEW t \in TasksOf(j)
    PROVE  /\ job[j].status \in JobTerminal \cup {"absent"} =>
                task[t].status \in TaskTerminal \cup {"absent"}
           /\ job[j].status = "queued" => task[t].status \notin TaskInFlight
           /\ job[j].status = "absent" => task[t].status = "absent"
<1>0. t \in Task /\ task[t].status \in TaskStatus /\ job[j] \in JobRow
  BY TypeParts DEF TasksOf, TaskRow
<1>f. TaskInFlight = {"running", "cancel_requested"} /\ TaskWaiting = {"queued", "retry_wait"}
  BY DEF TaskInFlight, TaskWaiting
<1>1. CASE job[j].status = "absent"
  BY <1>1, <1>f DEF ReductionInv, ReducedAt, JobTerminal
<1>2. CASE job[j].status # "absent"
  <2>1. job[j].status = ReducedStatus(task, job[j], j)
    BY <1>2 DEF ReductionInv, ReducedAt
  <2>2. ASSUME task[t].status \in TaskWaiting \cup TaskInFlight
        PROVE  /\ ReducedStatus(task, job[j], j) \notin JobTerminal
               /\ task[t].status \in TaskInFlight => ReducedStatus(task, job[j], j) # "queued"
    <3>1. \E u \in TasksOf(j) : task[u].status \in TaskStatus \ {"absent"}
      BY <1>0, <1>f, <2>2
    <3>2. \E u \in TasksOf(j) : task[u].status \in TaskWaiting \cup TaskInFlight
      BY <2>2
    <3> QED
      BY <3>1, <3>2 DEF ReducedStatus, JobTerminal, JobRow
  <2>3. task[t].status \in TaskWaiting \cup TaskInFlight \cup TaskTerminal \cup {"absent"}
    BY <1>0 DEF TaskStatus
  <2> QED
    BY <1>2, <1>f, <2>1, <2>2, <2>3
<1> QED
  BY <1>1, <1>2

LEMMA ReductionNext ==
    ASSUME TypeOK, ReductionInv, [Next]_vars PROVE ReductionInv'
<1>0. job \in [Job -> JobRow] /\ task \in [Task -> TaskRow]
  BY TypeParts
<1>c. \A t \in Task : task[t] \in TaskRow /\ job[JobOf[t]] \in JobRow /\ JobOf[t] \in Job
  BY TaskOfCommit
<1>f. TaskInFlight = {"running", "cancel_requested"} /\ TaskWaiting = {"queued", "retry_wait"}
  BY DEF TaskInFlight, TaskWaiting
<1>i. \A t \in Task : task[t].status # "absent" => job[JobOf[t]].status # "absent"
  BY TaskHasJob
<1>u. CASE job' = job /\ \A t \in Task : task'[t].status = task[t].status
  BY <1>u, ReducedKept DEF ReductionInv, TasksOf
<1>v. CASE UNCHANGED <<job, task>>
  BY <1>u, <1>v
<1>1. CASE Start
  <2> DEFINE tk == [t \in Task |-> RecoveredTask(t)]
             stale == {"running", "retry_wait", "pause_requested", "paused", "cancel_requested"}
  <2>1. task' = tk /\ job' = [j \in Job |-> IF job[j].status \in stale
                                            THEN RecomputeJob(tk, job[j], j) ELSE job[j]]
    BY <1>1 DEF Start, Recover
  <2>2. \A t \in Task : task[t].status \notin TaskInFlight => tk[t].status = task[t].status
    BY <1>f DEF RecoveredTask, Committing
  <2> HIDE DEF tk
  <2>3. ASSUME NEW j \in Job PROVE ReducedAt(j)'
    <3>1. CASE job[j].status \in stale
      BY <1>0, <2>1, <3>1, ReducedRecomputed
    <3>2. CASE job[j].status \notin stale
      <4>1. job[j].status \in JobTerminal \cup {"absent", "queued"}
        BY <1>0, <3>2 DEF JobRow, JobStatus
      <4>2. \A t \in TasksOf(j) : task[t].status \notin TaskInFlight
        BY <1>f, <4>1, ReducedTasks DEF TaskTerminal
      <4>3. \A t \in TasksOf(j) : task'[t].status = task[t].status
        BY <2>1, <2>2, <4>2 DEF TasksOf
      <4>4. job'[j] = job[j]
        BY <2>1, <3>2
      <4> QED
        BY <4>3, <4>4, ReducedKept DEF ReductionInv
    <3> QED
      BY <3>1, <3>2
  <2> QED
    BY <2>3 DEF ReductionInv
<1>2. CASE Crash \/ Shutdown \/ StopReturns
  BY <1>2, <1>v DEF Crash, Shutdown, StopReturns, rows
<1>3. ASSUME NEW t \in Task, Claim(t) PROVE ReductionInv'
  <2> DEFINE tk == [task EXCEPT ![t] = [@ EXCEPT !.status = "running", !.runs = task[t].runs + 1,
                                        !.due = TRUE, !.beat = "fresh", !.commit = FALSE]]
  <2>1. Commit(tk, job[JobOf[t]], JobOf[t]) /\ task[t].status \in TaskWaiting
    BY <1>3 DEF Claim, Claimable
  <2>2. \A s \in Task : s # t => tk[s] = task[s]
    BY <1>0
  <2> HIDE DEF tk
  <2> QED
    BY <1>c, <1>f, <1>i, <2>1, <2>2, ReducedCommit
<1>4. CASE (\E q \in Queue : DispatchQueue(q)) \/ Launch \/ DispatchEnds
  <2>1. (\E q \in Queue : DispatchQueue(q)) => UNCHANGED <<job, task>>
    BY DEF DispatchQueue, rows
  <2>2. Launch \/ DispatchEnds => UNCHANGED <<job, task>>
    BY DEF Launch, DispatchEnds, rows
  <2> QED
    BY <1>4, <1>v, <2>1, <2>2
<1>5. ASSUME NEW t \in Task, NEW n \in Runs, Goroutine(t, n) PROVE ReductionInv'
  <2>1. CASE HandlerReturns(t, n) \/ RefusedReturns(t, n) \/ BeginCommitRefused(t, n)
             \/ FinishLost(t, n) \/ GoroutineExits(t, n)
    BY <2>1, <1>v DEF HandlerReturns, RefusedReturns, BeginCommitRefused, FinishLost,
                      GoroutineExits, rows
  <2>2. CASE BeginCommit(t, n)
    <3> DEFINE tk == [task EXCEPT ![t].commit = TRUE]
    <3>1. Commit(tk, job[JobOf[t]], JobOf[t]) /\ task[t].status = "running"
      BY <2>2 DEF BeginCommit, CanCommit
    <3>2. \A s \in Task : s # t => tk[s] = task[s]
      BY <1>0
    <3> HIDE DEF tk
    <3> QED
      BY <1>c, <1>i, <3>1, <3>2, ReducedCommit
  <2>3. CASE ReportProgress(t, n)
    <3> DEFINE tk == [task EXCEPT ![t].beat = "fresh"]
    <3>1. Commit(tk, job[JobOf[t]], JobOf[t]) /\ task[t].status \in TaskInFlight
      BY <2>3 DEF ReportProgress
    <3>2. \A s \in Task : s # t => tk[s] = task[s]
      BY <1>0
    <3> HIDE DEF tk
    <3> QED
      BY <1>c, <1>f, <1>i, <3>1, <3>2, ReducedCommit
  <2>4. CASE Finish(t, n)
    <3>1. CASE task[t].status \notin TaskInFlight
      BY <1>v, <2>4, <3>1 DEF Finish
    <3>2. CASE task[t].status \in TaskInFlight
      <4> DEFINE c == FinishClass(task[t], run[t][n].class)
                 tk == [s \in Task |->
                          CASE s = t -> FinishedTask(task[t], c)
                            [] s # t /\ c = "ok" /\ ParentOf[s] = t
                                     /\ task[s].status = "absent" -> CreatedTask(s)
                            [] OTHER -> task[s]]
      <4>1. Commit(tk, job[JobOf[t]], JobOf[t])
        BY <2>4, <3>2 DEF Finish
      <4>2. \A s \in Task : ParentOf[s] = t => JobOf[s] = JobOf[t]
        BY FamilyAssumption, ConstantsAssumption
      <4> HIDE DEF c
      <4>3. \A s \in Task : JobOf[s] # JobOf[t] => tk[s] = task[s]
        BY <4>2
      <4> HIDE DEF tk
      <4> QED
        BY <1>c, <1>f, <1>i, <3>2, <4>1, <4>3, ReducedCommit
    <3> QED
      BY <3>1, <3>2
  <2> QED
    BY <1>5, <2>1, <2>2, <2>3, <2>4 DEF Goroutine
<1>6. ASSUME NEW t \in Task, HeartbeatExpires(t) PROVE ReductionInv'
  <2>1. task' = [task EXCEPT ![t].beat = "stale"] /\ job' = job
    BY <1>6 DEF HeartbeatExpires
  <2>2. \A s \in Task : task'[s].status = task[s].status
    BY <1>0, <2>1 DEF TaskRow
  <2> QED
    BY <1>u, <2>1, <2>2
<1>7. ASSUME NEW t \in Task, RunAfterElapses(t) PROVE ReductionInv'
  <2>1. task' = [task EXCEPT ![t].due = TRUE] /\ job' = job
    BY <1>7 DEF RunAfterElapses
  <2>2. \A s \in Task : task'[s].status = task[s].status
    BY <1>0, <2>1 DEF TaskRow
  <2> QED
    BY <1>u, <2>1, <2>2
<1>8. CASE RecoverStaleTasks
  <2> DEFINE tk == [t \in Task |-> IF Stale(t) THEN StaleTask(task[t]) ELSE task[t]]
  <2>1. /\ task' = tk
        /\ job' = [j \in Job |-> IF \E t \in TasksOf(j) : Stale(t)
                                 THEN RecomputeJob(tk, job[j], j) ELSE job[j]]
    BY <1>8 DEF RecoverStaleTasks
  <2>2. \A t \in Task : ~Stale(t) => tk[t] = task[t]
    OBVIOUS
  <2>3. \A t \in Task : Stale(t) => task[t].status # "absent"
    BY <1>f DEF Stale
  <2> HIDE DEF tk
  <2>4. ASSUME NEW j \in Job PROVE ReducedAt(j)'
    <3>1. CASE \E t \in TasksOf(j) : Stale(t)
      <4>1. job[j].status # "absent"
        BY <1>i, <2>3, <3>1 DEF TasksOf
      <4> QED
        BY <1>0, <2>1, <3>1, <4>1, ReducedRecomputed
    <3>2. CASE ~\E t \in TasksOf(j) : Stale(t)
      BY <2>1, <2>2, <3>2, ReducedKept DEF ReductionInv, TasksOf
    <3> QED
      BY <3>1, <3>2
  <2> QED
    BY <2>4 DEF ReductionInv
<1>9. ASSUME NEW j \in Job, Enqueue(j) PROVE ReductionInv'
  <2>0. \A t \in Task : CreatedTask(t).status = "queued"
    BY DEF CreatedTask
  <2>1. \A t \in Task : task'[t] = IF JobOf[t] = j /\ ParentOf[t] = NoTask
                                   THEN CreatedTask(t) ELSE task[t]
    BY <1>9 DEF Enqueue
  <2>2. /\ job'[j].status = "queued" /\ job'[j].pause = job[j].pause /\ job'[j].cancel = job[j].cancel
        /\ \A i \in Job : i # j => job'[i] = job[i]
    BY <1>0, <1>9 DEF Enqueue, JobRow
  <2>3. /\ ~job[j].pause /\ ~job[j].cancel /\ \A t \in TasksOf(j) : task[t].status = "absent"
    BY <1>9 DEF Enqueue, ReductionInv, ReducedAt
  <2>4. \A t \in TasksOf(j) : task'[t].status \in {"queued", "absent"}
    BY <2>0, <2>1, <2>3 DEF TasksOf
  <2>5. \E t \in TasksOf(j) : task'[t].status = "queued"
    BY <2>0, <2>1, SpecAssumption DEF TasksOf
  <2>6. ReducedStatus(task', job'[j], j) = "queued"
    <3>1. /\ \E t \in TasksOf(j) : task'[t].status \in TaskStatus \ {"absent"}
          /\ \E t \in TasksOf(j) : task'[t].status \in TaskWaiting \cup TaskInFlight
          /\ ~\E t \in TasksOf(j) : task'[t].status \in TaskInFlight
          /\ ~\E t \in TasksOf(j) : task'[t].status \in {"retry_wait"}
      BY <1>f, <2>4, <2>5, StatusNames
    <3> QED
      BY <2>2, <2>3, <3>1 DEF ReducedStatus
  <2>7. ReducedStatus(task, job[j], j)' = ReducedStatus(task', job'[j], j)
    BY DEF ReducedStatus, TasksOf
  <2>8. ReducedAt(j)'
    BY <2>2, <2>6, <2>7 DEF ReducedAt
  <2>9. \A i \in Job : i # j => ReducedAt(i)'
    BY <2>1, <2>2, ReducedKept DEF ReductionInv, TasksOf
  <2> QED
    BY <2>8, <2>9 DEF ReductionInv
<1>10. ASSUME NEW j \in Job, ResumeJob(j) PROVE ReductionInv'
  <2> DEFINE jb == [job[j] EXCEPT !.pause = FALSE]
  <2>1. jb \in JobRow /\ jb.status = job[j].status
    BY <1>0 DEF JobRow
  <2>2. Commit(task, jb, j) /\ job[j].status # "absent"
    BY <1>10 DEF ResumeJob
  <2> HIDE DEF jb
  <2> QED
    BY <2>1, <2>2, ReducedCommit
<1>11. ASSUME NEW j \in Job, RunJobNow(j) PROVE ReductionInv'
  <2> DEFINE waits(t) == t \in TasksOf(j) /\ task[t].status = "queued" /\ ~task[t].due
             tk == [t \in Task |-> IF waits(t) THEN [task[t] EXCEPT !.due = TRUE] ELSE task[t]]
  <2>1. Commit(tk, job[j], j) /\ job[j].status # "absent"
    BY <1>11 DEF RunJobNow
  <2>2. \A s \in Task : JobOf[s] # j => tk[s] = task[s]
    BY DEF TasksOf
  <2> HIDE DEF tk
  <2> QED
    BY <1>0, <2>1, <2>2, ReducedCommit
<1>12. ASSUME NEW j \in Job, RetryJob(j) PROVE ReductionInv'
  <2> DEFINE over(t) == t \in TasksOf(j) /\ task[t].status \in {"failed", "canceled"}
             tk == [t \in Task |-> IF over(t) THEN RetriedTask(task[t]) ELSE task[t]]
             jb == [job[j] EXCEPT !.cancel = FALSE, !.pause = FALSE]
  <2>1. Commit(tk, jb, j) /\ job[j].status # "absent"
    BY <1>12 DEF RetryJob
  <2>2. \A s \in Task : JobOf[s] # j => tk[s] = task[s]
    BY DEF TasksOf
  <2>3. jb \in JobRow /\ jb.status = job[j].status
    BY <1>0 DEF JobRow
  <2> HIDE DEF tk, jb
  <2> QED
    BY <2>1, <2>2, <2>3, ReducedCommit
<1>13. ASSUME NEW t \in Task, RetryTask(t) PROVE ReductionInv'
  <2> DEFINE tk == [task EXCEPT ![t] = RetriedTask(@)]
             jb == [job[JobOf[t]] EXCEPT !.cancel = FALSE]
  <2>1. Commit(tk, jb, JobOf[t]) /\ task[t].status # "absent"
    BY <1>13 DEF RetryTask
  <2>2. \A s \in Task : s # t => tk[s] = task[s]
    BY <1>0
  <2>3. jb \in JobRow /\ jb.status = job[JobOf[t]].status
    BY <1>c DEF JobRow
  <2> HIDE DEF tk, jb
  <2> QED
    BY <1>c, <1>i, <2>1, <2>2, <2>3, ReducedCommit
<1>14. ASSUME NEW a \in Admin, NEW j \in Job, PauseJob(a, j) PROVE ReductionInv'
  <2> DEFINE jb == [job[j] EXCEPT !.pause = TRUE]
  <2>1. jb \in JobRow /\ jb.status = job[j].status
    BY <1>0 DEF JobRow
  <2>2. Commit(task, jb, j) /\ job[j].status # "absent"
    BY <1>14 DEF PauseJob
  <2> HIDE DEF jb
  <2> QED
    BY <2>1, <2>2, ReducedCommit
<1>15. ASSUME NEW a \in Admin, NEW j \in Job, CancelJob(a, j) PROVE ReductionInv'
  <2>0. job[j].status # "absent"
    BY <1>15, ZenonT(60) DEF CancelJob
  <2> DEFINE tk == [t \in Task |->
                 CASE JobOf[t] = j /\ task[t].status \in TaskWaiting ->
                        [task[t] EXCEPT !.status = "canceled"]
                   [] JobOf[t] = j /\ task[t].status = "running" ->
                        [task[t] EXCEPT !.status = "cancel_requested", !.cancel = TRUE]
                   [] OTHER -> task[t]]
             jb == [job[j] EXCEPT !.cancel = TRUE, !.pause = FALSE]
  <2>1. Commit(tk, jb, j)
    BY <1>15, ZenonT(60) DEF CancelJob
  <2>2. jb \in JobRow /\ jb.status = job[j].status
    BY <1>0 DEF JobRow
  <2>3. \A t \in Task : JobOf[t] # j => tk[t] = task[t]
    OBVIOUS
  <2> HIDE DEF tk, jb
  <2> QED
    BY <2>0, <2>1, <2>2, <2>3, ReducedCommit
<1>16. ASSUME NEW a \in Admin, NEW t \in Task, CancelTask(a, t) PROVE ReductionInv'
  <2> DEFINE tk == [task EXCEPT ![t] = IF @.status \in TaskInFlight
                 THEN [@ EXCEPT !.status = "cancel_requested", !.cancel = TRUE]
                 ELSE [@ EXCEPT !.status = "canceled"]]
  <2>1. Commit(tk, job[JobOf[t]], JobOf[t]) /\ task[t].status # "absent"
    BY <1>16 DEF CancelTask
  <2>2. \A s \in Task : s # t => tk[s] = task[s]
    BY <1>0
  <2> HIDE DEF tk
  <2> QED
    BY <1>c, <1>i, <2>1, <2>2, ReducedCommit
<1>17. CASE (\E q \in Queue : SetQueuePaused(q)) \/ \E a \in Admin : PluckCanceled(a) \/ SignalActive(a)
  BY <1>17, <1>v DEF SetQueuePaused, PluckCanceled, SignalActive, rows
<1>18. CASE UNCHANGED vars
  BY <1>18, <1>v DEF vars
<1> QED
  BY <1>1, <1>2, <1>3, <1>4, <1>5, <1>6, <1>7, <1>8, <1>9, <1>10, <1>11, <1>12, <1>13, <1>14,
     <1>15, <1>16, <1>17, <1>18
  DEF Next, Process, Dispatch, Heartbeat, Operator

(* The rows and the reduction, together, are inductive. *)
LEMMA ReductionHolds == Spec => [](TypeOK /\ ReductionInv)
<1> DEFINE Inv == TypeInv /\ ReductionInv
<1>1. Init => Inv
  <2>1. Init => TypeInv
    BY TypeInit DEF Init, DispatcherOK, NoDispatch, TypeInv
  <2>2. Init => ReductionInv
    BY DEF Init, ReductionInv, ReducedAt, TasksOf
  <2> QED
    BY <2>1, <2>2
<1>2. Inv /\ [Next]_vars => Inv'
  BY TypeNext, ReductionNext DEF TypeInv
<1>3. Inv => TypeOK /\ ReductionInv
  BY DEF TypeInv
<1> HIDE DEF Inv
<1> QED
  BY <1>1, <1>2, <1>3, PTL DEF Spec

(* Whichever of the dispatcher, a finishing handler, an operator or a      *)
(* recovery wrote last, a job's stored status is the reduction of its      *)
(* tasks' statuses (recomputeJob), although Recover recomputes only the    *)
(* jobs in some statuses.                                                  *)
THEOREM StatusIsReduced == Spec => []JobStatusReduced
<1>1. ReductionInv => JobStatusReduced
  BY DEF ReductionInv, ReducedAt, JobStatusReduced
<1> QED
  BY <1>1, ReductionHolds, PTL

(* One step reopens a finished job only by putting one of its failed or    *)
(* canceled tasks back in the queue.                                       *)
LEMMA ReopenStep ==
    ASSUME TypeOK, ReductionInv, [Next]_vars, NEW j \in Job,
           job[j].status \in JobTerminal, job'[j].status \notin JobTerminal
    PROVE  \E t \in TasksOf(j) : task[t].status \in {"failed", "canceled"}
                                 /\ task'[t].status = "queued"
<1>0. job \in [Job -> JobRow] /\ task \in [Task -> TaskRow]
  BY TypeParts
<1>c. \A t \in Task : task[t] \in TaskRow /\ job[JobOf[t]] \in JobRow /\ JobOf[t] \in Job
  BY TaskOfCommit
<1>f. TaskInFlight = {"running", "cancel_requested"} /\ TaskWaiting = {"queued", "retry_wait"}
      /\ TaskTerminal = {"succeeded", "failed", "canceled"}
      /\ JobTerminal = {"succeeded", "succeeded_with_warnings", "failed", "canceled"}
  BY DEF TaskInFlight, TaskWaiting, TaskTerminal, JobTerminal
<1>o. \A t \in TasksOf(j) : task[t].status \notin TaskWaiting \cup TaskInFlight
  BY <1>f, ReducedTasks
<1>n. job'[j] # job[j]
  OBVIOUS
<1>s. \A t \in Task : task[t].status \in TaskWaiting \cup TaskInFlight => JobOf[t] # j
  BY <1>o DEF TasksOf
<1>t. \A tk, jb, i : i \in Job /\ jb \in JobRow /\ Commit(tk, jb, i) => i = j
  BY <1>n, CommitFlags
<1>1. CASE Start
  <2>1. job[j].status \notin {"running", "retry_wait", "pause_requested", "paused", "cancel_requested"}
    BY <1>f
  <2> QED
    BY <1>1, <1>n, <2>1 DEF Start, Recover
<1>2. CASE Crash \/ Shutdown \/ StopReturns \/ UNCHANGED vars
  BY <1>2, <1>n DEF Crash, Shutdown, StopReturns, rows, vars
<1>3. ASSUME NEW t \in Task, Claim(t) PROVE FALSE
  <2>1. /\ \E tk : Commit(tk, job[JobOf[t]], JobOf[t])
        /\ task[t].status \in TaskWaiting
    BY <1>3, Zenon DEF Claim, Claimable
  <2> QED
    BY <1>c, <1>s, <1>t, <2>1
<1>4. CASE (\E q \in Queue : DispatchQueue(q)) \/ Launch \/ DispatchEnds
  <2>1. (\E q \in Queue : DispatchQueue(q)) => job' = job
    BY DEF DispatchQueue, rows
  <2>2. Launch \/ DispatchEnds => job' = job
    BY DEF Launch, DispatchEnds, rows
  <2> QED
    BY <1>4, <1>n, <2>1, <2>2
<1>5. ASSUME NEW t \in Task, NEW n \in Runs, Goroutine(t, n) PROVE FALSE
  <2>1. CASE HandlerReturns(t, n) \/ RefusedReturns(t, n) \/ BeginCommitRefused(t, n)
             \/ FinishLost(t, n) \/ GoroutineExits(t, n)
    BY <2>1, <1>n DEF HandlerReturns, RefusedReturns, BeginCommitRefused, FinishLost,
                      GoroutineExits, rows
  <2>2. CASE BeginCommit(t, n) \/ ReportProgress(t, n)
    <3>1. /\ \E tk : Commit(tk, job[JobOf[t]], JobOf[t])
          /\ task[t].status \in TaskInFlight
      BY <1>f, <2>2, Zenon DEF BeginCommit, CanCommit, ReportProgress
    <3> QED
      BY <1>c, <1>s, <1>t, <3>1
  <2>3. CASE Finish(t, n)
    <3>1. task[t].status \in TaskInFlight
      BY <1>n, <2>3 DEF Finish
    <3>2. \E tk : Commit(tk, job[JobOf[t]], JobOf[t])
      BY <2>3, <3>1, Zenon DEF Finish
    <3> QED
      BY <1>c, <1>s, <1>t, <3>1, <3>2
  <2> QED
    BY <1>5, <2>1, <2>2, <2>3 DEF Goroutine
<1>6. CASE \E t \in Task : HeartbeatExpires(t) \/ RunAfterElapses(t)
  BY <1>6, <1>n DEF HeartbeatExpires, RunAfterElapses
<1>7. CASE RecoverStaleTasks
  <2>1. ~\E t \in TasksOf(j) : Stale(t)
    BY <1>o DEF Stale
  <2> QED
    BY <1>7, <1>n, <2>1 DEF RecoverStaleTasks
<1>8. ASSUME NEW i \in Job, Enqueue(i) PROVE FALSE
  <2>1. i = j
    BY <1>0, <1>8, <1>n DEF Enqueue
  <2> QED
    BY <1>8, <1>f, <2>1 DEF Enqueue
<1>9. ASSUME NEW i \in Job, ResumeJob(i) \/ RunJobNow(i) \/ \E a \in Admin : PauseJob(a, i) PROVE FALSE
  <2>1. \A jb \in JobRow : [jb EXCEPT !.pause = TRUE] \in JobRow /\ [jb EXCEPT !.pause = FALSE] \in JobRow
    BY DEF JobRow
  <2>2. \E tk, jb : jb \in JobRow /\ Commit(tk, jb, i)
    BY <1>0, <1>9, <2>1, Zenon DEF ResumeJob, RunJobNow, PauseJob
  <2>3. job[i].status \in {"pause_requested", "paused", "queued", "running", "retry_wait"}
    BY <1>9, Zenon DEF ResumeJob, RunJobNow, PauseJob
  <2> QED
    BY <1>f, <1>t, <2>2, <2>3
<1>10. ASSUME NEW i \in Job, NEW a \in Admin, CancelJob(a, i) PROVE FALSE
  <2>1. \A jb \in JobRow : [jb EXCEPT !.cancel = TRUE, !.pause = FALSE] \in JobRow
    BY DEF JobRow
  <2>2. \E tk, jb : jb \in JobRow /\ Commit(tk, jb, i)
    BY <1>0, <1>10, <2>1, Zenon DEF CancelJob
  <2>3. job[i].status \notin JobTerminal
    BY <1>10, Zenon DEF CancelJob
  <2> QED
    BY <1>t, <2>2, <2>3
<1>11. ASSUME NEW i \in Job, RetryJob(i)
       PROVE  \E t \in TasksOf(j) : task[t].status \in {"failed", "canceled"}
                                    /\ task'[t].status = "queued"
  <2> DEFINE over(t) == t \in TasksOf(i) /\ task[t].status \in {"failed", "canceled"}
             tk == [t \in Task |-> IF over(t) THEN RetriedTask(task[t]) ELSE task[t]]
             jb == [job[i] EXCEPT !.cancel = FALSE, !.pause = FALSE]
  <2>1. Commit(tk, jb, i) /\ \E t \in Task : over(t)
    BY <1>11 DEF RetryJob
  <2>2. jb \in JobRow
    BY <1>0 DEF JobRow
  <2>3. i = j /\ task' = tk
    BY <1>t, <2>1, <2>2, CommitFlags
  <2>4. \A t \in Task : RetriedTask(task[t]).status = "queued"
    BY <1>c DEF RetriedTask, TaskRow
  <2>5. \A t \in Task : over(t) => task'[t].status = "queued"
    BY <2>3, <2>4
  <2> QED
    BY <2>1, <2>3, <2>5
<1>12. ASSUME NEW t \in Task, RetryTask(t)
       PROVE  \E u \in TasksOf(j) : task[u].status \in {"failed", "canceled"}
                                    /\ task'[u].status = "queued"
  <2> DEFINE tk == [task EXCEPT ![t] = RetriedTask(@)]
             jb == [job[JobOf[t]] EXCEPT !.cancel = FALSE]
  <2>1. Commit(tk, jb, JobOf[t]) /\ task[t].status \in {"failed", "canceled"}
    BY <1>12 DEF RetryTask
  <2>2. jb \in JobRow
    BY <1>c DEF JobRow
  <2>3. JobOf[t] = j /\ task' = tk
    BY <1>c, <1>t, <2>1, <2>2, CommitFlags
  <2>4. task'[t].status = "queued"
    BY <1>0, <1>c, <2>3 DEF RetriedTask, TaskRow
  <2> QED
    BY <2>1, <2>3, <2>4 DEF TasksOf
<1>13. ASSUME NEW a \in Admin, NEW t \in Task, CancelTask(a, t) PROVE FALSE
  <2>1. \E tk : Commit(tk, job[JobOf[t]], JobOf[t])
    BY <1>13, Zenon DEF CancelTask
  <2>2. task[t].status \notin TaskTerminal \cup {"absent"}
    BY <1>13, Zenon DEF CancelTask
  <2>3. task[t].status \in TaskWaiting \cup TaskInFlight
    BY <1>c, <2>2 DEF TaskRow, TaskStatus
  <2> QED
    BY <1>c, <1>s, <1>t, <2>1, <2>3
<1>14. CASE (\E q \in Queue : SetQueuePaused(q)) \/ \E a \in Admin : PluckCanceled(a) \/ SignalActive(a)
  BY <1>14, <1>n DEF SetQueuePaused, PluckCanceled, SignalActive, rows
<1> QED
  BY <1>1, <1>2, <1>3, <1>4, <1>5, <1>6, <1>7, <1>8, <1>9, <1>10, <1>11, <1>12, <1>13, <1>14
  DEF Next, Process, Dispatch, Heartbeat, Operator

(* A finished job is reopened only by an operator's retry of one of its    *)
(* tasks: no late result (finish), no recovery and no child task does it.  *)
THEOREM OnlyRetriesReopen == Spec => ReopenedOnlyByRetry
<1>1. TypeOK /\ ReductionInv /\ [Next]_vars =>
        [\A j \in Job :
           job[j].status \in JobTerminal /\ job'[j].status \notin JobTerminal
           => \E t \in TasksOf(j) : task[t].status \in {"failed", "canceled"}
                                    /\ task'[t].status = "queued"]_vars
  BY ReopenStep
<1> QED
  BY <1>1, ReductionHolds, PTL DEF Spec, ReopenedOnlyByRetry

(* One step that changes the status of a task past its commit fence, whose *)
(* goroutine is gone, makes it failed.                                     *)
LEMMA OrphanStep ==
    ASSUME TypeOK, ReductionInv, [Next]_vars, NEW t \in Task,
           Committing(t), \A n \in Runs : ~Live(t, n),
           task'[t].status # task[t].status
    PROVE  task'[t].status = "failed"
<1>0. job \in [Job -> JobRow] /\ task \in [Task -> TaskRow]
  BY TypeParts
<1>c. \A s \in Task : task[s] \in TaskRow /\ job[JobOf[s]] \in JobRow /\ JobOf[s] \in Job
  BY TaskOfCommit
<1>f. TaskInFlight = {"running", "cancel_requested"} /\ TaskWaiting = {"queued", "retry_wait"}
  BY DEF TaskInFlight, TaskWaiting
<1>o. task[t].commit /\ task[t].status \in TaskInFlight
  BY DEF Committing
<1>n. task'[t] # task[t]
  OBVIOUS
<1>t. \A tk, jb, i : Commit(tk, jb, i) => task' = tk
  BY DEF Commit
<1>1. CASE Start
  <2>1. task'[t] = RecoveredTask(t)
    BY <1>1 DEF Start, Recover
  <2>2. RecoveredTask(t) = [task[t] EXCEPT !.status = "failed", !.beat = "none"]
    BY <1>o DEF RecoveredTask, Committing
  <2> QED
    BY <1>c, <2>1, <2>2 DEF TaskRow
<1>2. CASE Crash \/ Shutdown \/ StopReturns \/ UNCHANGED vars
  BY <1>2, <1>n DEF Crash, Shutdown, StopReturns, rows, vars
<1>3. ASSUME NEW s \in Task, Claim(s) PROVE FALSE
  <2>1. /\ \E r : task' = [task EXCEPT ![s] = r]
        /\ task[s].status \in TaskWaiting
    BY <1>3, <1>t, Zenon DEF Claim, Claimable
  <2>2. s # t
    BY <1>f, <1>o, <2>1
  <2> QED
    BY <1>0, <1>n, <2>1, <2>2
<1>4. CASE (\E q \in Queue : DispatchQueue(q)) \/ Launch \/ DispatchEnds
  <2>1. (\E q \in Queue : DispatchQueue(q)) => task' = task
    BY DEF DispatchQueue, rows
  <2>2. Launch \/ DispatchEnds => task' = task
    BY DEF Launch, DispatchEnds, rows
  <2> QED
    BY <1>4, <1>n, <2>1, <2>2
<1>5. ASSUME NEW s \in Task, NEW n \in Runs, Goroutine(s, n) PROVE FALSE
  <2>1. CASE HandlerReturns(s, n) \/ RefusedReturns(s, n) \/ BeginCommitRefused(s, n)
             \/ FinishLost(s, n) \/ GoroutineExits(s, n)
    BY <2>1, <1>n DEF HandlerReturns, RefusedReturns, BeginCommitRefused, FinishLost,
                      GoroutineExits, rows
  <2>2. CASE BeginCommit(s, n) \/ ReportProgress(s, n)
    <3>1. task' = [task EXCEPT ![s].commit = TRUE] \/ task' = [task EXCEPT ![s].beat = "fresh"]
      BY <1>t, <2>2, Zenon DEF BeginCommit, ReportProgress
    <3> QED
      BY <1>0, <3>1 DEF TaskRow
  <2>3. CASE Finish(s, n)
    <3>1. s # t
      BY <2>3 DEF Finish, Live
    <3>2. CASE task[s].status \notin TaskInFlight
      BY <1>n, <2>3, <3>2 DEF Finish
    <3>3. CASE task[s].status \in TaskInFlight
      <4> DEFINE c == FinishClass(task[s], run[s][n].class)
                 tk == [u \in Task |->
                          CASE u = s -> FinishedTask(task[s], c)
                            [] u # s /\ c = "ok" /\ ParentOf[u] = s
                                     /\ task[u].status = "absent" -> CreatedTask(u)
                            [] OTHER -> task[u]]
      <4>1. Commit(tk, job[JobOf[s]], JobOf[s])
        BY <2>3, <3>3 DEF Finish
      <4> HIDE DEF c
      <4>2. tk[t] = task[t]
        BY <1>f, <1>o, <3>1
      <4> HIDE DEF tk
      <4> QED
        BY <1>n, <1>t, <4>1, <4>2
    <3> QED
      BY <3>2, <3>3
  <2> QED
    BY <1>5, <2>1, <2>2, <2>3 DEF Goroutine
<1>6. ASSUME NEW s \in Task, HeartbeatExpires(s) \/ RunAfterElapses(s) PROVE FALSE
  <2>1. task' = [task EXCEPT ![s].beat = "stale"] \/ task' = [task EXCEPT ![s].due = TRUE]
    BY <1>6 DEF HeartbeatExpires, RunAfterElapses
  <2> QED
    BY <1>0, <2>1 DEF TaskRow
<1>7. CASE RecoverStaleTasks
  <2>1. task'[t] = IF Stale(t) THEN StaleTask(task[t]) ELSE task[t]
    BY <1>7 DEF RecoverStaleTasks
  <2>2. StaleTask(task[t]).status = "failed"
    BY <1>c, <1>o DEF StaleTask, TaskRow
  <2> QED
    BY <1>n, <2>1, <2>2
<1>8. ASSUME NEW j \in Job, Enqueue(j) PROVE FALSE
  <2>1. task[t].status # "absent"
    BY <1>f, <1>o
  <2>2. JobOf[t] # j
    BY <1>8, <2>1, TaskHasJob DEF Enqueue
  <2> QED
    BY <1>8, <1>n, <2>2 DEF Enqueue
<1>9. CASE \E j \in Job : ResumeJob(j) \/ \E a \in Admin : PauseJob(a, j)
  BY <1>9, <1>n, <1>t, Zenon DEF ResumeJob, PauseJob
<1>10. ASSUME NEW j \in Job, RunJobNow(j) PROVE FALSE
  <2> DEFINE waits(s) == s \in TasksOf(j) /\ task[s].status = "queued" /\ ~task[s].due
             tk == [s \in Task |-> IF waits(s) THEN [task[s] EXCEPT !.due = TRUE] ELSE task[s]]
  <2>1. Commit(tk, job[j], j)
    BY <1>10 DEF RunJobNow
  <2>2. tk[t] = task[t]
    BY <1>f, <1>o
  <2> HIDE DEF tk
  <2> QED
    BY <1>n, <1>t, <2>1, <2>2
<1>11. ASSUME NEW j \in Job, RetryJob(j) PROVE FALSE
  <2> DEFINE over(s) == s \in TasksOf(j) /\ task[s].status \in {"failed", "canceled"}
             tk == [s \in Task |-> IF over(s) THEN RetriedTask(task[s]) ELSE task[s]]
  <2>1. Commit(tk, [job[j] EXCEPT !.cancel = FALSE, !.pause = FALSE], j)
    BY <1>11 DEF RetryJob
  <2>2. tk[t] = task[t]
    BY <1>f, <1>o
  <2> HIDE DEF tk
  <2> QED
    BY <1>n, <1>t, <2>1, <2>2
<1>12. ASSUME NEW s \in Task, RetryTask(s) PROVE FALSE
  <2>1. task' = [task EXCEPT ![s] = RetriedTask(@)] /\ s # t
    BY <1>12, <1>f, <1>o, <1>t DEF RetryTask
  <2> QED
    BY <1>0, <1>n, <2>1
<1>13. ASSUME NEW j \in Job, NEW a \in Admin, CancelJob(a, j) PROVE FALSE
  <2> DEFINE tk == [s \in Task |->
                 CASE JobOf[s] = j /\ task[s].status \in TaskWaiting ->
                        [task[s] EXCEPT !.status = "canceled"]
                   [] JobOf[s] = j /\ task[s].status = "running" ->
                        [task[s] EXCEPT !.status = "cancel_requested", !.cancel = TRUE]
                   [] OTHER -> task[s]]
             jb == [job[j] EXCEPT !.cancel = TRUE, !.pause = FALSE]
  <2>0. \A s \in TasksOf(j) : ~Committing(s)
    BY <1>13, Zenon DEF CancelJob
  <2>1. Commit(tk, jb, j)
    BY <1>13, ZenonT(60) DEF CancelJob
  <2>2. JobOf[t] # j
    BY <2>0 DEF TasksOf
  <2>3. tk[t] = task[t]
    BY <2>2
  <2> HIDE DEF tk
  <2> QED
    BY <1>n, <1>t, <2>1, <2>3
<1>14. ASSUME NEW a \in Admin, NEW s \in Task, CancelTask(a, s) PROVE FALSE
  <2>1. /\ \E r : task' = [task EXCEPT ![s] = r]
        /\ ~task[s].commit
    BY <1>14, <1>t, Zenon DEF CancelTask
  <2>2. s # t
    BY <1>o, <2>1
  <2> QED
    BY <1>0, <1>n, <2>1, <2>2
<1>15. CASE (\E q \in Queue : SetQueuePaused(q)) \/ \E a \in Admin : PluckCanceled(a) \/ SignalActive(a)
  BY <1>15, <1>n DEF SetQueuePaused, PluckCanceled, SignalActive, rows
<1> QED
  BY <1>1, <1>2, <1>3, <1>4, <1>5, <1>6, <1>7, <1>8, <1>9, <1>10, <1>11, <1>12, <1>13, <1>14, <1>15
  DEF Next, Process, Dispatch, Heartbeat, Operator

(* Irreversible work whose goroutine is gone is left for review: Recover   *)
(* and recoverStaleTasks fail it, and nothing else touches its status.     *)
THEOREM OrphansFail == Spec => OrphanedCommitFails
<1>1. TypeOK /\ ReductionInv /\ [Next]_vars =>
        [\A t \in Task :
           /\ Committing(t)
           /\ \A n \in Runs : ~Live(t, n)
           /\ dispatcher.task # t
           /\ task'[t].status # task[t].status
           => task'[t].status = "failed"]_vars
  BY OrphanStep
<1> QED
  BY <1>1, ReductionHolds, PTL DEF Spec, OrphanedCommitFails

-----------------------------------------------------------------------------
(* Queues of capacity one.  There the entry of a task in Runtime.active    *)
(* can be trusted: a goroutine holds the only slot of its queue until it   *)
(* deletes its own entry, so no second attempt is registered meanwhile.    *)

Serial(t) == Capacity[QueueOf[t]] = 1

(* A goroutine is registered, for the latest attempt of its task. *)
GoroutineRegistered ==
    \A t \in Task, n \in Runs : Serial(t) /\ Live(t, n) =>
        active[t] = n /\ task[t].runs = n /\ task[t].status # "absent"

(* The task between its claim and its launch is in flight. *)
ClaimHeld ==
    \A t \in Task : Serial(t) /\ dispatcher.task = t =>
        /\ task[t].status \in TaskInFlight
        /\ task[t].runs = dispatcher.number
        /\ task[t].beat = "fresh"

(* The dispatcher has a slot to give only while nothing runs on the queue. *)
SlotFree ==
    dispatcher.left > 0 /\ Capacity[dispatcher.queue] = 1 =>
        /\ dispatcher.left = 1
        /\ \A t \in Task : QueueOf[t] = dispatcher.queue => active[t] = 0

DownEmpty ==
    phase = "down" => /\ dispatcher.left = 0 /\ dispatcher.task = NoTask
                      /\ \A t \in Task, n \in Runs : ~Live(t, n)

SerialInv == GoroutineRegistered /\ ClaimHeld /\ SlotFree /\ DownEmpty /\ AttemptLog

(* A step that starts and ends no attempt keeps the invariant. *)
LEMMA QuietStep ==
    ASSUME TypeInv, SerialInv, phase' = "down" <=> phase = "down",
           UNCHANGED <<attempt, active, dispatcher>>,
           \A t \in Task, n \in Runs : Live(t, n)' => Live(t, n),
           \A t \in Task :
              \/ task[t].status = "absent" /\ task'[t].status \notin TaskInFlight
              \/ /\ task'[t].runs = task[t].runs
                 /\ task'[t].status \in TaskInFlight <=> task[t].status \in TaskInFlight
                 /\ task'[t].status # "absent"
                 /\ dispatcher.task = t /\ task[t].beat = "fresh" => task'[t].beat = "fresh"
    PROVE  SerialInv'
<1>f. "absent" \notin TaskInFlight
  BY DEF TaskInFlight
<1>1. GoroutineRegistered'
  BY DEF SerialInv, GoroutineRegistered, Serial
<1>2. ClaimHeld'
  BY <1>f DEF SerialInv, ClaimHeld, Serial
<1>3. SlotFree'
  BY DEF SerialInv, SlotFree
<1>4. DownEmpty'
  BY DEF SerialInv, DownEmpty
<1>5. AttemptLog'
  BY <1>f DEF SerialInv, AttemptLog
<1> QED
  BY <1>1, <1>2, <1>3, <1>4, <1>5 DEF SerialInv

(* No goroutine runs on a serial queue the dispatcher holds a slot of. *)
LEMMA SlotMeansIdle ==
    ASSUME TypeInv, SerialInv, NEW t \in Task, Serial(t), dispatcher.left > 0,
           QueueOf[t] = dispatcher.queue
    PROVE  active[t] = 0 /\ \A n \in Runs : ~Live(t, n)
<1>1. active[t] = 0
  BY DEF SerialInv, SlotFree, Serial
<1>2. \A n \in Runs : n # 0
  BY ConstantsAssumption DEF Runs
<1> QED
  BY <1>1, <1>2 DEF SerialInv, GoroutineRegistered

LEMMA SerialProcess ==
    ASSUME TypeInv, SerialInv, Process PROVE SerialInv'
<1>0. /\ job \in [Job -> JobRow] /\ task \in [Task -> TaskRow]
      /\ attempt \in [Task -> [Runs -> AttemptStatus]] /\ run \in [Task -> [Runs -> RunState]]
  BY TypeParts DEF TypeInv
<1>f. TaskInFlight = {"running", "cancel_requested"}
  BY DEF TaskInFlight
<1>1. CASE Start
  <2>1. /\ dispatcher.left = 0 /\ dispatcher.task = NoTask /\ \A t \in Task, n \in Runs : ~Live(t, n)
        /\ UNCHANGED <<active, run, dispatcher>> /\ phase' = "up"
    BY <1>1 DEF Start, SerialInv, DownEmpty, memory
  <2>2. GoroutineRegistered' /\ SlotFree' /\ DownEmpty'
    BY <2>1 DEF GoroutineRegistered, SlotFree, DownEmpty, Live
  <2>3. ClaimHeld'
    BY <2>1, ConstantsAssumption DEF ClaimHeld
  <2>4. \A t \in Task : task'[t] = RecoveredTask(t)
    BY <1>1 DEF Start, Recover
  <2>5. \A t \in Task : RecoveredTask(t).status \notin TaskInFlight
    BY <1>0, <1>f DEF RecoveredTask, Committing, TaskRow
  <2>6. \A t \in Task, n \in Runs : attempt'[t][n] # "running"
    BY <1>1 DEF Start, Recover
  <2>7. AttemptLog'
    BY <2>4, <2>5, <2>6 DEF AttemptLog
  <2> QED
    BY <2>2, <2>3, <2>7 DEF SerialInv
<1>2. CASE Crash \/ StopReturns
  <2>1. /\ run' = [t \in Task |-> [n \in Runs |-> NoRun]] /\ dispatcher' = NoDispatch
        /\ phase' = "down"
    BY <1>2 DEF Crash, StopReturns, EmptyMemory
  <2>2. \A t \in Task, n \in Runs : ~Live(t, n)'
    BY <2>1 DEF Live, NoRun
  <2>3. dispatcher'.left = 0 /\ dispatcher'.task = NoTask
    BY <2>1 DEF NoDispatch
  <2> QED
    BY <2>1, <2>2, <2>3, ConstantsAssumption
    DEF SerialInv, GoroutineRegistered, ClaimHeld, SlotFree, DownEmpty, AttemptLog
<1>3. CASE Shutdown
  <2>1. \A t \in Task, n \in Runs : run'[t][n] = Canceled(run[t][n], StopCause)
    BY <1>3 DEF Shutdown
  <2>2. \A t \in Task, n \in Runs : Canceled(run[t][n], StopCause).pc = run[t][n].pc
    BY <1>0 DEF Canceled, RunState
  <2>3. \A t \in Task, n \in Runs : Live(t, n)' => Live(t, n)
    BY <2>1, <2>2 DEF Live
  <2>4. /\ phase' = "stopping" /\ phase = "up" /\ task' = task /\ attempt' = attempt
        /\ UNCHANGED <<active, dispatcher>>
    BY <1>3 DEF Shutdown, rows
  <2> QED
    BY <1>f, <2>3, <2>4, QuietStep
<1> QED
  BY <1>1, <1>2, <1>3 DEF Process

LEMMA SerialDispatch ==
    ASSUME TypeInv, SerialInv, Dispatch PROVE SerialInv'
<1>0. /\ job \in [Job -> JobRow] /\ task \in [Task -> TaskRow]
      /\ attempt \in [Task -> [Runs -> AttemptStatus]] /\ run \in [Task -> [Runs -> RunState]]
      /\ active \in [Task -> 0 .. MaxRuns] /\ dispatcher \in DispatcherState
  BY TypeParts DEF TypeInv
<1>f. TaskInFlight = {"running", "cancel_requested"} /\ TaskWaiting = {"queued", "retry_wait"}
  BY DEF TaskInFlight, TaskWaiting
<1>n. NoTask \notin Task
  BY ConstantsAssumption
<1>1. ASSUME NEW q \in Queue, DispatchQueue(q) PROVE SerialInv'
  <2>1. UNCHANGED <<task, attempt, active, run, phase>> /\ phase = "up"
    BY <1>1 DEF DispatchQueue, rows
  <2>2. dispatcher'.task = NoTask /\ dispatcher'.queue = q
        /\ dispatcher'.left = Capacity[q] - ActiveCount(q) /\ Capacity[q] > ActiveCount(q)
    BY <1>1 DEF DispatchQueue, NoDispatch
  <2>3. ASSUME Capacity[q] = 1
        PROVE  dispatcher'.left = 1 /\ \A t \in Task : QueueOf[t] = q => active[t] = 0
    <3> DEFINE S == {t \in Task : QueueOf[t] = q /\ active[t] # 0}
    <3>1. IsFiniteSet(S)
      BY ConstantsAssumption, FS_Subset
    <3>2. Cardinality(S) \in Nat /\ ActiveCount(q) = Cardinality(S)
      BY <3>1, FS_CardinalityType DEF ActiveCount
    <3>3. ActiveCount(q) = 0
      BY <2>2, <2>3, <3>2
    <3>4. S = {}
      BY <3>1, <3>2, <3>3, FS_EmptySet
    <3> QED
      BY <2>2, <2>3, <3>3, <3>4
  <2>4. SlotFree'
    BY <2>1, <2>2, <2>3 DEF SlotFree
  <2> QED
    BY <1>n, <2>1, <2>2, <2>4
    DEF SerialInv, GoroutineRegistered, ClaimHeld, DownEmpty, AttemptLog, Live
<1>2. ASSUME NEW t \in Task, Claim(t) PROVE SerialInv'
  <2> DEFINE n == task[t].runs + 1
  <2>1. /\ phase = "up" /\ dispatcher.left > 0 /\ dispatcher.task = NoTask
        /\ QueueOf[t] = dispatcher.queue /\ task[t].status \in TaskWaiting
        /\ task[t].runs < MaxRuns
        /\ UNCHANGED <<phase, active, run>>
    BY <1>2 DEF Claim, Claimable
  <2>2. n \in Runs /\ \A m \in Runs : m = n => m # task[t].runs
    BY <1>0, <2>1, ConstantsAssumption DEF TaskRow, Runs
  <2>3. task' = [task EXCEPT ![t] = [@ EXCEPT !.status = "running", !.runs = n, !.due = TRUE,
                                              !.beat = "fresh", !.commit = FALSE]]
    BY <1>2 DEF Claim, Commit
  <2>4. attempt' = [attempt EXCEPT ![t][n] = "running"]
    BY <1>2 DEF Claim
  <2>5. dispatcher' = [dispatcher EXCEPT !.task = t, !.number = n]
    BY <1>2 DEF Claim
  <2> HIDE DEF n
  <2>6. /\ task'[t].status = "running" /\ task'[t].runs = n /\ task'[t].beat = "fresh"
        /\ \A s \in Task : s # t => task'[s] = task[s]
    BY <1>0, <2>3 DEF TaskRow
  <2>7. /\ dispatcher'.task = t /\ dispatcher'.number = n
        /\ dispatcher'.left = dispatcher.left /\ dispatcher'.queue = dispatcher.queue
    BY <1>0, <2>5 DEF DispatcherState
  <2>8. GoroutineRegistered'
    <3>1. Serial(t) => \A m \in Runs : ~Live(t, m)
      BY <2>1, SlotMeansIdle
    <3> QED
      BY <2>1, <2>6, <3>1 DEF SerialInv, GoroutineRegistered, Serial, Live
  <2>9. ClaimHeld'
    BY <1>f, <2>6, <2>7 DEF ClaimHeld
  <2>10. SlotFree' /\ DownEmpty'
    BY <2>1, <2>7 DEF SerialInv, SlotFree, DownEmpty
  <2>11. AttemptLog'
    <3>1. \A s \in Task : s # t => attempt'[s] = attempt[s]
      BY <1>0, <2>4
    <3>2. \A m \in Runs : attempt'[t][m] = IF m = n THEN "running" ELSE attempt[t][m]
      BY <1>0, <2>2, <2>4
    <3>3. Capacity[QueueOf[t]] = 1 => \A m \in Runs : attempt[t][m] # "running"
      BY <1>f, <2>1 DEF SerialInv, AttemptLog
    <3> QED
      BY <1>f, <2>1, <2>6, <3>1, <3>2, <3>3 DEF SerialInv, AttemptLog
  <2> QED
    BY <2>8, <2>9, <2>10, <2>11 DEF SerialInv
<1>3. CASE Launch
  <2> DEFINE t == dispatcher.task
             n == dispatcher.number
  <2>1. t \in Task /\ n \in Runs /\ dispatcher.left > 0 /\ QueueOf[t] = dispatcher.queue
        /\ UNCHANGED <<task, attempt, phase>>
    BY <1>0, <1>3 DEF Launch, DispatcherState, TypeInv, DispatcherOK, rows
  <2>2. active' = [active EXCEPT ![t] = n]
    BY <1>3 DEF Launch
  <2>3. \A s \in Task, m \in Runs : (s # t \/ m # n) => run'[s][m] = run[s][m]
    BY <1>0, <1>3, <2>1 DEF Launch
  <2>4. dispatcher'.left = dispatcher.left - 1 /\ dispatcher'.task = NoTask
        /\ dispatcher'.queue = dispatcher.queue
    BY <1>0, <1>3 DEF Launch, DispatcherState
  <2>5. phase # "down"
    BY <1>3 DEF SerialInv, DownEmpty, Launch
  <2>6. GoroutineRegistered'
    <3> SUFFICES ASSUME NEW s \in Task, NEW m \in Runs, Serial(s), Live(s, m)'
                 PROVE  active'[s] = m /\ task[s].runs = m /\ task[s].status # "absent"
      BY <2>1 DEF GoroutineRegistered, Serial
    <3>1. CASE s = t
      <4>1. \A k \in Runs : ~Live(t, k)
        BY <2>1, <3>1, SlotMeansIdle
      <4>2. m = n
        BY <2>3, <3>1, <4>1 DEF Live
      <4>3. task[t].status \in TaskInFlight /\ task[t].runs = n
        BY <2>1, <3>1 DEF SerialInv, ClaimHeld
      <4> QED
        BY <1>0, <1>f, <2>1, <2>2, <3>1, <4>2, <4>3
    <3>2. CASE s # t
      BY <1>0, <2>2, <2>3, <3>2 DEF SerialInv, GoroutineRegistered, Live
    <3> QED
      BY <3>1, <3>2
  <2>7. SlotFree'
    <3>1. Capacity[dispatcher.queue] = 1 => dispatcher.left = 1
      BY <2>1 DEF SerialInv, SlotFree
    <3> QED
      BY <1>0, <2>4, <3>1 DEF SlotFree, DispatcherState
  <2> QED
    BY <1>n, <2>1, <2>4, <2>5, <2>6, <2>7 DEF SerialInv, ClaimHeld, DownEmpty, AttemptLog
<1>4. CASE DispatchEnds
  <2>1. UNCHANGED <<task, attempt, active, run, phase>> /\ dispatcher' = NoDispatch
    BY <1>4 DEF DispatchEnds, rows
  <2>2. dispatcher'.left = 0 /\ dispatcher'.task = NoTask
    BY <2>1 DEF NoDispatch
  <2> QED
    BY <1>n, <2>1, <2>2
    DEF SerialInv, GoroutineRegistered, ClaimHeld, SlotFree, DownEmpty, AttemptLog, Live
<1> QED
  BY <1>1, <1>2, <1>3, <1>4 DEF Dispatch

LEMMA SerialGoroutine ==
    ASSUME TypeInv, SerialInv, NEW t \in Task, NEW n \in Runs, Goroutine(t, n) PROVE SerialInv'
<1>0. /\ job \in [Job -> JobRow] /\ task \in [Task -> TaskRow]
      /\ attempt \in [Task -> [Runs -> AttemptStatus]] /\ run \in [Task -> [Runs -> RunState]]
      /\ active \in [Task -> 0 .. MaxRuns] /\ dispatcher \in DispatcherState
  BY TypeParts DEF TypeInv
<1>f. TaskInFlight = {"running", "cancel_requested"}
  BY DEF TaskInFlight
<1>1. CASE HandlerReturns(t, n) \/ RefusedReturns(t, n) \/ BeginCommitRefused(t, n) \/ FinishLost(t, n)
  <2>1. UNCHANGED <<task, attempt, active, dispatcher, phase>> /\ Live(t, n)
    BY <1>1 DEF HandlerReturns, RefusedReturns, BeginCommitRefused, FinishLost, rows, Live
  <2>2. \A s \in Task, m \in Runs : (s # t \/ m # n) => run'[s][m] = run[s][m]
    <3>1. CASE HandlerReturns(t, n)
      BY <1>0, <3>1 DEF HandlerReturns
    <3>2. CASE RefusedReturns(t, n)
      BY <1>0, <3>2 DEF RefusedReturns
    <3>3. CASE BeginCommitRefused(t, n) \/ FinishLost(t, n)
      BY <1>0, <3>3 DEF BeginCommitRefused, FinishLost
    <3> QED
      BY <1>1, <3>1, <3>2, <3>3
  <2>3. \A s \in Task, m \in Runs : Live(s, m)' => Live(s, m)
    BY <2>1, <2>2 DEF Live
  <2> QED
    BY <1>f, <2>1, <2>3, QuietStep
<1>2. CASE BeginCommit(t, n)
  <2>1. UNCHANGED <<attempt, active, dispatcher, phase>> /\ task' = [task EXCEPT ![t].commit = TRUE]
        /\ task[t].status = "running" /\ Live(t, n)
        /\ run' = [run EXCEPT ![t][n].commit = TRUE]
    BY <1>2 DEF BeginCommit, Commit, CanCommit, Live
  <2>2. \A s \in Task : /\ task'[s].status = task[s].status /\ task'[s].runs = task[s].runs
                        /\ task'[s].beat = task[s].beat
    BY <1>0, <2>1 DEF TaskRow
  <2>3. \A s \in Task, m \in Runs : (s # t \/ m # n) => run'[s][m] = run[s][m]
    BY <1>0, <2>1
  <2>4. \A s \in Task, m \in Runs : Live(s, m)' => Live(s, m)
    BY <2>1, <2>3 DEF Live
  <2> QED
    BY <1>f, <2>1, <2>2, <2>4, QuietStep
<1>3. CASE ReportProgress(t, n)
  <2>1. UNCHANGED <<attempt, active, dispatcher, run, phase>>
        /\ task' = [task EXCEPT ![t].beat = "fresh"]
    BY <1>3 DEF ReportProgress, Commit, memory
  <2>2. \A s \in Task : /\ task'[s].status = task[s].status /\ task'[s].runs = task[s].runs
                        /\ task[s].beat = "fresh" => task'[s].beat = "fresh"
    BY <1>0, <2>1 DEF TaskRow
  <2> QED
    BY <1>f, <2>1, <2>2, QuietStep DEF Live
<1>4. CASE Finish(t, n)
  <2>1. UNCHANGED <<active, dispatcher, phase>> /\ run' = [run EXCEPT ![t][n].pc = "exit"] /\ Live(t, n)
    BY <1>4 DEF Finish, Live
  <2>2. \A s \in Task, m \in Runs : (s # t \/ m # n) => run'[s][m] = run[s][m]
    BY <1>0, <2>1
  <2>3. \A s \in Task, m \in Runs : Live(s, m)' => Live(s, m)
    BY <2>1, <2>2 DEF Live
  <2>4. CASE task[t].status \notin TaskInFlight
    <3>1. task' = task /\ attempt' = attempt
      BY <1>4, <2>4 DEF Finish
    <3> QED
      BY <1>f, <2>1, <2>3, <3>1, QuietStep
  <2>5. CASE task[t].status \in TaskInFlight
    <3> DEFINE c == FinishClass(task[t], run[t][n].class)
               tk == [s \in Task |->
                        CASE s = t -> FinishedTask(task[t], c)
                          [] s # t /\ c = "ok" /\ ParentOf[s] = t
                                   /\ task[s].status = "absent" -> CreatedTask(s)
                          [] OTHER -> task[s]]
    <3>1. task' = tk /\ attempt' = [attempt EXCEPT ![t][n] = FinishedAttempt(c)]
      BY <1>4, <2>5 DEF Finish, Commit
    <3>2. FinishedAttempt(c) # "running"
      BY DEF FinishedAttempt
    <3>3. /\ FinishedTask(task[t], c).status \notin TaskInFlight \cup {"absent"}
          /\ FinishedTask(task[t], c).runs = task[t].runs
      BY <1>0, <1>f DEF FinishedTask, TaskRow
    <3>4. \A s \in Task : CreatedTask(s).status \notin TaskInFlight
      BY <1>f DEF CreatedTask
    <3> HIDE DEF c
    <3>5. \A s \in Task : s # t => \/ task'[s] = task[s]
                                   \/ task[s].status = "absent" /\ task'[s].status \notin TaskInFlight
      BY <3>1, <3>4
    <3>6. task'[t] = FinishedTask(task[t], c)
      BY <3>1
    <3>7. /\ \A s \in Task : s # t => attempt'[s] = attempt[s]
          /\ \A m \in Runs : attempt'[t][m] = IF m = n THEN FinishedAttempt(c) ELSE attempt[t][m]
      BY <1>0, <3>1
    <3> HIDE DEF tk
    <3>8. Serial(t) => active[t] = n /\ task[t].runs = n
      BY <2>1 DEF SerialInv, GoroutineRegistered
    <3>9. Serial(t) => dispatcher.task # t
      BY <2>1, SlotMeansIdle, ConstantsAssumption DEF TypeInv, DispatcherOK
    <3>10. GoroutineRegistered'
      <4> SUFFICES ASSUME NEW s \in Task, NEW m \in Runs, Serial(s), Live(s, m)'
                   PROVE  active[s] = m /\ task'[s].runs = m /\ task'[s].status # "absent"
        BY <2>1 DEF GoroutineRegistered, Serial
      <4>1. active[s] = m /\ task[s].runs = m /\ task[s].status # "absent"
        BY <2>3 DEF SerialInv, GoroutineRegistered
      <4>2. CASE s = t
        BY <3>3, <3>6, <4>1, <4>2
      <4>3. CASE s # t
        BY <3>5, <4>1, <4>3
      <4> QED
        BY <4>2, <4>3
    <3>11. ClaimHeld'
      <4> SUFFICES ASSUME NEW s \in Task, Serial(s), dispatcher.task = s
                   PROVE  /\ task'[s].status \in TaskInFlight
                          /\ task'[s].runs = dispatcher.number /\ task'[s].beat = "fresh"
        BY <2>1 DEF ClaimHeld, Serial
      <4>1. /\ task[s].status \in TaskInFlight
            /\ task[s].runs = dispatcher.number /\ task[s].beat = "fresh"
        BY DEF SerialInv, ClaimHeld
      <4> QED
        BY <1>f, <3>5, <3>9, <4>1
    <3>12. SlotFree' /\ DownEmpty'
      BY <2>1, <2>3 DEF SerialInv, SlotFree, DownEmpty
    <3>13. AttemptLog'
      <4> SUFFICES ASSUME phase # "down", NEW s \in Task, NEW m \in Runs, Serial(s)
                   PROVE  attempt'[s][m] = "running" <=> task'[s].status \in TaskInFlight /\ m = task'[s].runs
        BY <2>1 DEF AttemptLog, Serial
      <4>1. attempt[s][m] = "running" <=> task[s].status \in TaskInFlight /\ m = task[s].runs
        BY DEF SerialInv, AttemptLog, Serial
      <4>2. CASE s = t
        BY <3>2, <3>3, <3>6, <3>7, <3>8, <4>1, <4>2
      <4>3. CASE s # t
        BY <1>f, <3>5, <3>7, <4>1, <4>3
      <4> QED
        BY <4>2, <4>3
    <3> QED
      BY <3>10, <3>11, <3>12, <3>13 DEF SerialInv
  <2> QED
    BY <2>4, <2>5
<1>5. CASE GoroutineExits(t, n)
  <2>1. /\ UNCHANGED <<task, attempt, dispatcher, phase>> /\ Live(t, n)
        /\ run' = [run EXCEPT ![t][n] = [NoRun EXCEPT !.lapped = run[t][n].lapped]]
        /\ active' = [active EXCEPT ![t] = 0]
    BY <1>5 DEF GoroutineExits, rows, Live
  <2>2. /\ \A s \in Task, m \in Runs : (s # t \/ m # n) => run'[s][m] = run[s][m]
        /\ run'[t][n].pc = "none"
    BY <1>0, <2>1 DEF NoRun
  <2>3. \A s \in Task, m \in Runs : Live(s, m)' => Live(s, m) /\ (s # t \/ m # n)
    BY <2>1, <2>2 DEF Live, NoRun
  <2>4. GoroutineRegistered'
    <3> SUFFICES ASSUME NEW s \in Task, NEW m \in Runs, Serial(s), Live(s, m)'
                 PROVE  active'[s] = m /\ task[s].runs = m /\ task[s].status # "absent"
      BY <2>1 DEF GoroutineRegistered, Serial
    <3>1. active[s] = m /\ task[s].runs = m /\ task[s].status # "absent"
      BY <2>3 DEF SerialInv, GoroutineRegistered
    <3>2. s # t
      BY <2>1, <2>3, <3>1 DEF SerialInv, GoroutineRegistered
    <3> QED
      BY <1>0, <2>1, <3>1, <3>2
  <2>5. SlotFree'
    BY <1>0, <2>1 DEF SerialInv, SlotFree
  <2> QED
    BY <2>1, <2>3, <2>4, <2>5 DEF SerialInv, ClaimHeld, DownEmpty, AttemptLog
<1> QED
  BY <1>1, <1>2, <1>3, <1>4, <1>5 DEF Goroutine

LEMMA SerialHeartbeat ==
    ASSUME TypeInv, SerialInv, Heartbeat PROVE SerialInv'
<1>0. task \in [Task -> TaskRow] /\ attempt \in [Task -> [Runs -> AttemptStatus]]
  BY TypeParts DEF TypeInv
<1>f. TaskInFlight = {"running", "cancel_requested"}
  BY DEF TaskInFlight
<1>1. ASSUME NEW t \in Task, HeartbeatExpires(t) PROVE SerialInv'
  <2>1. /\ UNCHANGED <<attempt, active, run, dispatcher, phase>> /\ dispatcher.task # t
        /\ task' = [task EXCEPT ![t].beat = "stale"]
    BY <1>1 DEF HeartbeatExpires, memory
  <2>2. \A s \in Task : /\ task'[s].status = task[s].status /\ task'[s].runs = task[s].runs
                        /\ s # t => task'[s].beat = task[s].beat
    BY <1>0, <2>1 DEF TaskRow
  <2> QED
    BY <1>f, <2>1, <2>2, QuietStep DEF Live
<1>2. CASE RecoverStaleTasks
  <2>1. /\ UNCHANGED <<active, run, dispatcher, phase>> /\ phase = "up"
        /\ task' = [t \in Task |-> IF Stale(t) THEN StaleTask(task[t]) ELSE task[t]]
        /\ attempt' = [t \in Task |-> [n \in Runs |->
                         IF Stale(t) /\ attempt[t][n] = "running"
                         THEN StaleAttempt(task[t]) ELSE attempt[t][n]]]
    BY <1>2 DEF RecoverStaleTasks, memory
  <2>2. \A t \in Task : /\ StaleTask(task[t]).status \notin TaskInFlight \cup {"absent"}
                        /\ StaleTask(task[t]).runs = task[t].runs
                        /\ StaleAttempt(task[t]) # "running"
    BY <1>0, <1>f DEF StaleTask, StaleAttempt, TaskRow
  <2>3. \A t \in Task : Stale(t) => task'[t] = StaleTask(task[t])
    BY <2>1
  <2>4. \A t \in Task : ~Stale(t) => task'[t] = task[t] /\ \A n \in Runs : attempt'[t][n] = attempt[t][n]
    BY <2>1
  <2>5. \A t \in Task, n \in Runs : Stale(t) => attempt'[t][n] # "running"
    BY <2>1, <2>2
  <2>6. \A t \in Task : task'[t].runs = task[t].runs
                        /\ (task[t].status # "absent" => task'[t].status # "absent")
    BY <2>2, <2>3, <2>4
  <2>7. GoroutineRegistered'
    BY <2>1, <2>6 DEF SerialInv, GoroutineRegistered, Serial, Live
  <2>8. ClaimHeld'
    <3>1. \A t \in Task : Serial(t) /\ dispatcher.task = t => ~Stale(t)
      BY DEF SerialInv, ClaimHeld, Stale
    <3> QED
      BY <2>1, <2>4, <3>1 DEF SerialInv, ClaimHeld, Serial
  <2>9. AttemptLog'
    <3> SUFFICES ASSUME NEW t \in Task, NEW n \in Runs, Serial(t)
                 PROVE  attempt'[t][n] = "running" <=> task'[t].status \in TaskInFlight /\ n = task'[t].runs
      BY DEF AttemptLog, Serial
    <3>1. CASE Stale(t)
      BY <2>2, <2>3, <2>5, <3>1
    <3>2. CASE ~Stale(t)
      BY <2>1, <2>4, <3>2 DEF SerialInv, AttemptLog, Serial
    <3> QED
      BY <3>1, <3>2
  <2> QED
    BY <2>1, <2>7, <2>8, <2>9 DEF SerialInv, SlotFree, DownEmpty, Live
<1> QED
  BY <1>1, <1>2 DEF Heartbeat

LEMMA SerialOperator ==
    ASSUME TypeInv, ReductionInv, SerialInv, Operator \/ \E t \in Task : RunAfterElapses(t)
    PROVE  SerialInv'
<1>0. /\ job \in [Job -> JobRow] /\ task \in [Task -> TaskRow] /\ run \in [Task -> [Runs -> RunState]]
      /\ TypeOK
  BY TypeParts DEF TypeInv
<1>f. TaskInFlight = {"running", "cancel_requested"} /\ TaskWaiting = {"queued", "retry_wait"}
      /\ TaskTerminal = {"succeeded", "failed", "canceled"}
  BY DEF TaskInFlight, TaskWaiting, TaskTerminal
<1>m. CASE /\ UNCHANGED <<attempt, phase, active, run, dispatcher>>
           /\ \A t \in Task :
                \/ task[t].status = "absent" /\ task'[t].status \notin TaskInFlight
                \/ /\ task'[t].runs = task[t].runs
                   /\ task'[t].status \in TaskInFlight <=> task[t].status \in TaskInFlight
                   /\ task'[t].status # "absent"
                   /\ task'[t].beat = task[t].beat
  BY <1>m, QuietStep DEF Live
<1>v. CASE UNCHANGED <<task, attempt, phase, active, run, dispatcher>>
  BY <1>f, <1>v, QuietStep DEF Live
<1>1. ASSUME NEW t \in Task, RunAfterElapses(t) PROVE SerialInv'
  <2>1. UNCHANGED <<attempt, phase, active, run, dispatcher>> /\ task' = [task EXCEPT ![t].due = TRUE]
    BY <1>1 DEF RunAfterElapses, memory
  <2>2. \A s \in Task : /\ task'[s].status = task[s].status /\ task'[s].runs = task[s].runs
                        /\ task'[s].beat = task[s].beat
    BY <1>0, <2>1 DEF TaskRow
  <2> QED
    BY <1>f, <1>m, <2>1, <2>2
<1>2. ASSUME NEW j \in Job, Enqueue(j) PROVE SerialInv'
  <2>1. /\ UNCHANGED <<attempt, phase, active, run, dispatcher>> /\ job[j].status = "absent"
        /\ \A t \in Task : task'[t] = IF JobOf[t] = j /\ ParentOf[t] = NoTask
                                      THEN CreatedTask(t) ELSE task[t]
    BY <1>2 DEF Enqueue, memory
  <2>2. \A t \in Task : JobOf[t] = j => task[t].status = "absent"
    BY <1>0, <2>1, TaskHasJob
  <2>3. \A t \in Task : CreatedTask(t).status \notin TaskInFlight
    BY <1>f DEF CreatedTask
  <2>4. \A t \in Task : \/ task[t].status = "absent" /\ task'[t].status \notin TaskInFlight
                        \/ task[t].status # "absent" /\ task'[t] = task[t]
    BY <1>f, <2>1, <2>2, <2>3
  <2> QED
    BY <1>m, <2>1, <2>4
<1>3. CASE \E j \in Job : ResumeJob(j) \/ \E a \in Admin : PauseJob(a, j)
  BY <1>3, <1>v, Zenon DEF ResumeJob, PauseJob, Commit, memory
<1>4. ASSUME NEW j \in Job, RunJobNow(j) PROVE SerialInv'
  <2> DEFINE waits(t) == t \in TasksOf(j) /\ task[t].status = "queued" /\ ~task[t].due
             tk == [t \in Task |-> IF waits(t) THEN [task[t] EXCEPT !.due = TRUE] ELSE task[t]]
  <2>1. UNCHANGED <<attempt, phase, active, run, dispatcher>> /\ task' = tk
    BY <1>4 DEF RunJobNow, Commit, memory
  <2>2. \A s \in Task : /\ tk[s].status = task[s].status /\ tk[s].runs = task[s].runs
                        /\ tk[s].beat = task[s].beat
    BY <1>0 DEF TaskRow
  <2> HIDE DEF tk
  <2> QED
    BY <1>f, <1>m, <2>1, <2>2
<1>r. \A t \in Task : task[t].status \in {"failed", "canceled"} =>
        LET r == RetriedTask(task[t]) IN
            r.status = "queued" /\ r.runs = task[t].runs /\ r.beat = task[t].beat
  BY <1>0 DEF RetriedTask, TaskRow
<1>5. ASSUME NEW j \in Job, RetryJob(j) PROVE SerialInv'
  <2> DEFINE over(t) == t \in TasksOf(j) /\ task[t].status \in {"failed", "canceled"}
             tk == [t \in Task |-> IF over(t) THEN RetriedTask(task[t]) ELSE task[t]]
  <2>1. UNCHANGED <<attempt, phase, active, run, dispatcher>> /\ task' = tk
    BY <1>5 DEF RetryJob, Commit, memory
  <2>2. \A s \in Task : \/ tk[s] = task[s]
                        \/ /\ task[s].status \in {"failed", "canceled"} /\ tk[s].status = "queued"
                           /\ tk[s].runs = task[s].runs /\ tk[s].beat = task[s].beat
    BY <1>r
  <2> HIDE DEF tk
  <2> QED
    BY <1>f, <1>m, <2>1, <2>2
<1>6. ASSUME NEW t \in Task, RetryTask(t) PROVE SerialInv'
  <2>1. UNCHANGED <<attempt, phase, active, run, dispatcher>>
        /\ task' = [task EXCEPT ![t] = RetriedTask(task[t])]
        /\ task[t].status \in {"failed", "canceled"}
    BY <1>6 DEF RetryTask, Commit, memory
  <2>2. \A s \in Task : \/ task'[s] = task[s]
                        \/ /\ task[s].status \in {"failed", "canceled"} /\ task'[s].status = "queued"
                           /\ task'[s].runs = task[s].runs /\ task'[s].beat = task[s].beat
    BY <1>0, <1>r, <2>1
  <2> QED
    BY <1>f, <1>m, <2>1, <2>2
<1>7. ASSUME NEW a \in Admin, NEW j \in Job, CancelJob(a, j) PROVE SerialInv'
  <2> DEFINE tk == [t \in Task |->
                 CASE JobOf[t] = j /\ task[t].status \in TaskWaiting ->
                        [task[t] EXCEPT !.status = "canceled"]
                   [] JobOf[t] = j /\ task[t].status = "running" ->
                        [task[t] EXCEPT !.status = "cancel_requested", !.cancel = TRUE]
                   [] OTHER -> task[t]]
             jb == [job[j] EXCEPT !.cancel = TRUE, !.pause = FALSE]
  <2>1. Commit(tk, jb, j)
    BY <1>7, ZenonT(60) DEF CancelJob
  <2>2. UNCHANGED <<attempt, phase, active, run, dispatcher>>
    BY <1>7, Zenon DEF CancelJob
  <2>3. \A s \in Task : \/ tk[s] = task[s]
                        \/ /\ task[s].status \in TaskWaiting /\ tk[s].status = "canceled"
                           /\ tk[s].runs = task[s].runs /\ tk[s].beat = task[s].beat
                        \/ /\ task[s].status = "running" /\ tk[s].status = "cancel_requested"
                           /\ tk[s].runs = task[s].runs /\ tk[s].beat = task[s].beat
    BY <1>0, <1>f DEF TaskRow
  <2> HIDE DEF tk, jb
  <2>4. task' = tk
    BY <2>1 DEF Commit
  <2> QED
    BY <1>f, <1>m, <2>2, <2>3, <2>4
<1>8. ASSUME NEW a \in Admin, NEW t \in Task, CancelTask(a, t) PROVE SerialInv'
  <2>1. /\ UNCHANGED <<attempt, phase, active, run, dispatcher>>
        /\ task' = [task EXCEPT ![t] = IF @.status \in TaskInFlight
                      THEN [@ EXCEPT !.status = "cancel_requested", !.cancel = TRUE]
                      ELSE [@ EXCEPT !.status = "canceled"]]
        /\ task[t].status # "absent"
    BY <1>8, Zenon DEF CancelTask, Commit
  <2>2. /\ \A s \in Task : s # t => task'[s] = task[s]
        /\ task'[t].runs = task[t].runs /\ task'[t].beat = task[t].beat
        /\ task'[t].status = IF task[t].status \in TaskInFlight THEN "cancel_requested" ELSE "canceled"
    BY <1>0, <2>1 DEF TaskRow
  <2> QED
    BY <1>f, <1>m, <2>1, <2>2
<1>9. CASE (\E q \in Queue : SetQueuePaused(q)) \/ \E a \in Admin : PluckCanceled(a)
  BY <1>9, <1>v DEF SetQueuePaused, PluckCanceled, rows, memory
<1>10. ASSUME NEW a \in Admin, SignalActive(a) PROVE SerialInv'
  <2>1. UNCHANGED <<task, attempt, phase, active, dispatcher>>
        /\ \A t \in Task, n \in Runs : run'[t][n] =
              IF t \in request[a].tasks /\ active[t] = n
              THEN Canceled(run[t][n], request[a].cause) ELSE run[t][n]
    BY <1>10 DEF SignalActive, rows
  <2>2. \A t \in Task, n \in Runs : Canceled(run[t][n], request[a].cause).pc = run[t][n].pc
    BY <1>0 DEF Canceled, RunState
  <2>3. \A t \in Task, n \in Runs : Live(t, n)' => Live(t, n)
    BY <2>1, <2>2 DEF Live
  <2> QED
    BY <1>f, <2>1, <2>3, QuietStep
<1> QED
  BY <1>1, <1>2, <1>3, <1>4, <1>5, <1>6, <1>7, <1>8, <1>9, <1>10 DEF Operator

SerialStrong == TypeInv /\ SerialInv

LEMMA SerialHolds == Spec => []SerialStrong
<1> DEFINE Inv == TypeInv /\ ReductionInv /\ SerialInv
<1>1. Init => Inv
  <2>1. Init => TypeInv
    BY TypeInit DEF Init, DispatcherOK, NoDispatch, TypeInv
  <2>2. Init => ReductionInv
    BY DEF Init, ReductionInv, ReducedAt, TasksOf
  <2>3. ASSUME Init PROVE SerialInv
    <3>1. \A t \in Task, n \in Runs : ~Live(t, n)
      BY <2>3 DEF Init, Live, NoRun
    <3>2. dispatcher.left = 0 /\ dispatcher.task = NoTask /\ phase = "down"
      BY <2>3 DEF Init, NoDispatch
    <3> QED
      BY <3>1, <3>2, ConstantsAssumption
      DEF SerialInv, GoroutineRegistered, ClaimHeld, SlotFree, DownEmpty, AttemptLog
  <2> QED
    BY <2>1, <2>2, <2>3
<1>2. Inv /\ [Next]_vars => Inv'
  <2> SUFFICES ASSUME TypeInv, ReductionInv, SerialInv, [Next]_vars
               PROVE  TypeInv' /\ ReductionInv' /\ SerialInv'
    OBVIOUS
  <2>0. TypeOK
    BY DEF TypeInv
  <2>1. TypeInv' /\ ReductionInv'
    BY <2>0, TypeNext, ReductionNext
  <2> SUFFICES SerialInv'
    BY <2>1
  <2>2. CASE UNCHANGED vars
    <3>1. UNCHANGED <<task, attempt, phase, active, run, dispatcher>> /\ "absent" \notin TaskInFlight
      BY <2>2 DEF vars, TaskInFlight
    <3>2. \A t \in Task, n \in Runs : Live(t, n)' => Live(t, n)
      BY <3>1 DEF Live
    <3> QED
      BY <3>1, <3>2, QuietStep
  <2>3. CASE Process
    BY <2>3, SerialProcess
  <2>4. CASE Dispatch
    BY <2>4, SerialDispatch
  <2>5. CASE Heartbeat
    BY <2>5, SerialHeartbeat
  <2>6. CASE Operator \/ \E t \in Task : RunAfterElapses(t)
    BY <2>6, SerialOperator
  <2>7. CASE \E t \in Task, n \in Runs : Goroutine(t, n)
    BY <2>7, SerialGoroutine
  <2> QED
    BY <2>2, <2>3, <2>4, <2>5, <2>6, <2>7 DEF Next
<1>3. Inv => SerialStrong
  BY DEF SerialStrong
<1> HIDE DEF Inv
<1> QED
  BY <1>1, <1>2, <1>3, PTL DEF Spec

(* On a queue of capacity one the attempt history is exact while the       *)
(* process runs: an attempt is open iff it is the latest one of a task in  *)
(* flight, through lost results, recoveries, retries and cancellations.    *)
THEOREM AttemptsAreExact == Spec => []AttemptLog
<1>1. SerialStrong => AttemptLog
  BY DEF SerialStrong, SerialInv
<1> QED
  BY <1>1, SerialHolds, PTL

-----------------------------------------------------------------------------
(* Goroutines of one task that were there at once.                         *)

(* A task none of whose goroutines was launched beside another one has at  *)
(* most one, the registered one; on a queue of capacity one none ever was. *)
LapInv ==
    \A t \in Task :
        /\ Serial(t) => ~Lapped(t)
        /\ \A n \in Runs : Live(t, n) => Lapped(t) \/ active[t] = n

(* A step that registers, launches and ends no goroutine keeps LapInv. *)
LEMMA LapQuiet ==
    ASSUME LapInv, active' = active,
           \A t \in Task, n \in Runs : run'[t][n].lapped = run[t][n].lapped,
           \A t \in Task, n \in Runs : Live(t, n)' => Live(t, n)
    PROVE  LapInv'
BY DEF LapInv, Lapped, Serial

LEMMA LapDispatch ==
    ASSUME TypeInv, SerialInv, LapInv, Dispatch PROVE LapInv'
<1>0. run \in [Task -> [Runs -> RunState]] /\ active \in [Task -> 0 .. MaxRuns]
  BY TypeParts DEF TypeInv
<1>1. CASE Launch
  <2>1. PICK t \in Task, n \in Runs :
           /\ t = dispatcher.task /\ n = dispatcher.number
           /\ dispatcher.left > 0 /\ QueueOf[t] = dispatcher.queue
    BY <1>1, TypeParts DEF Launch, TypeInv, DispatcherOK, DispatcherState
  <2>2. PICK again \in BOOLEAN : again = (Lapped(t) \/ \E m \in Runs : Live(t, m))
    OBVIOUS
  <2>3. /\ active' = [active EXCEPT ![t] = n]
        /\ run' = [run EXCEPT ![t][n] = [NoRun EXCEPT !.pc = "handler",
                       !.cause = IF phase = "up" THEN "none" ELSE StopCause,
                       !.lapped = again]]
    BY <1>1, <2>1, <2>2 DEF Launch
  <2>4. /\ \A s \in Task, m \in Runs : s # t \/ m # n => run'[s][m] = run[s][m]
        /\ run'[t][n].lapped = again
        /\ active'[t] = n /\ \A s \in Task : s # t => active'[s] = active[s]
    BY <1>0, <2>3 DEF NoRun
  <2>5. ASSUME NEW s \in Task, s # t
        PROVE  /\ Serial(s) => ~Lapped(s)'
               /\ \A m \in Runs : Live(s, m)' => Lapped(s)' \/ active'[s] = m
    BY <2>4, <2>5 DEF LapInv, Lapped, Live
  <2>6. Serial(t) => ~Lapped(t)'
    <3> SUFFICES ASSUME Serial(t) PROVE ~Lapped(t)'
      OBVIOUS
    <3>1. \A m \in Runs : ~Live(t, m)
      BY <2>1, SlotMeansIdle
    <3>2. ~Lapped(t) /\ ~again
      BY <2>2, <3>1 DEF LapInv
    <3> QED
      BY <2>4, <3>2 DEF Lapped
  <2>7. ASSUME NEW m \in Runs, Live(t, m)' PROVE Lapped(t)' \/ active'[t] = m
    <3>1. CASE m = n
      BY <2>4, <3>1
    <3>2. CASE m # n
      <4>1. Live(t, m)
        BY <2>4, <2>7, <3>2 DEF Live
      <4>2. again
        BY <2>2, <4>1
      <4> QED
        BY <2>4, <4>2 DEF Lapped
    <3> QED
      BY <3>1, <3>2
  <2> QED
    BY <2>5, <2>6, <2>7 DEF LapInv, Serial
<1>2. CASE ~Launch
  <2>1. UNCHANGED <<active, run>>
    BY <1>2 DEF Dispatch, DispatchQueue, Claim, DispatchEnds
  <2> QED
    BY <2>1, LapQuiet DEF Live
<1> QED
  BY <1>1, <1>2

LEMMA LapGoroutine ==
    ASSUME TypeInv, LapInv, NEW t \in Task, NEW n \in Runs, Goroutine(t, n) PROVE LapInv'
<1>0. run \in [Task -> [Runs -> RunState]] /\ active \in [Task -> 0 .. MaxRuns]
  BY TypeParts DEF TypeInv
<1>1. CASE GoroutineExits(t, n)
  <2>1. /\ run' = [run EXCEPT ![t][n] = [NoRun EXCEPT !.lapped = run[t][n].lapped]]
        /\ active' = [active EXCEPT ![t] = 0] /\ Live(t, n)
    BY <1>1 DEF GoroutineExits, Live
  <2>2. /\ \A s \in Task, m \in Runs : s # t \/ m # n => run'[s][m] = run[s][m]
        /\ run'[t][n].pc = "none" /\ run'[t][n].lapped = run[t][n].lapped
    BY <1>0, <2>1 DEF NoRun
  <2>3. \A s \in Task : Lapped(s)' <=> Lapped(s)
    BY <2>2 DEF Lapped
  <2>4. \A s \in Task, m \in Runs : Live(s, m)' => Live(s, m) /\ (s # t \/ m # n)
    BY <2>2 DEF Live
  <2>5. ASSUME NEW s \in Task, NEW m \in Runs, Live(s, m)'
        PROVE  Lapped(s) \/ active'[s] = m
    <3>1. Live(s, m) /\ (Lapped(s) \/ active[s] = m)
      BY <2>4, <2>5 DEF LapInv
    <3>2. CASE s = t
      BY <2>1, <2>4, <2>5, <3>1, <3>2 DEF LapInv
    <3> QED
      BY <1>0, <2>1, <3>1, <3>2
  <2> QED
    BY <2>3, <2>5 DEF LapInv, Serial
<1>2. CASE HandlerReturns(t, n) \/ RefusedReturns(t, n)
  <2>1. active' = active /\ \E c : run' = [run EXCEPT ![t][n].pc = "finish", ![t][n].class = c]
    BY <1>2 DEF HandlerReturns, RefusedReturns
  <2>2. Live(t, n)
    BY <1>2 DEF Live, HandlerReturns, RefusedReturns
  <2>3. /\ \A s \in Task, m \in Runs : s # t \/ m # n => run'[s][m] = run[s][m]
        /\ run'[t][n].lapped = run[t][n].lapped
    BY <1>0, <2>1 DEF RunState
  <2>4. \A s \in Task, m \in Runs :
           run'[s][m].lapped = run[s][m].lapped /\ (Live(s, m)' => Live(s, m))
    BY <2>2, <2>3 DEF Live
  <2> QED
    BY <2>1, <2>4, LapQuiet
<1>3. CASE BeginCommit(t, n) \/ BeginCommitRefused(t, n) \/ Finish(t, n) \/ FinishLost(t, n)
  <2>1. active' = active /\ Live(t, n)
    BY <1>3 DEF BeginCommit, BeginCommitRefused, Finish, FinishLost, Live
  <2>2. \/ run' = [run EXCEPT ![t][n].commit = TRUE]
        \/ \E p \in RunPC : run' = [run EXCEPT ![t][n].pc = p]
    BY <1>3 DEF BeginCommit, BeginCommitRefused, Finish, FinishLost, RunPC
  <2>3. /\ \A s \in Task, m \in Runs : s # t \/ m # n => run'[s][m] = run[s][m]
        /\ run'[t][n].lapped = run[t][n].lapped
    BY <1>0, <2>2 DEF RunState
  <2>4. \A s \in Task, m \in Runs :
           run'[s][m].lapped = run[s][m].lapped /\ (Live(s, m)' => Live(s, m))
    BY <2>1, <2>3 DEF Live
  <2> QED
    BY <2>1, <2>4, LapQuiet
<1>4. CASE ReportProgress(t, n)
  <2>1. UNCHANGED <<active, run>>
    BY <1>4 DEF ReportProgress, memory
  <2> QED
    BY <2>1, LapQuiet DEF Live
<1> QED
  BY <1>1, <1>2, <1>3, <1>4 DEF Goroutine

LEMMA LapOthers ==
    ASSUME TypeInv, LapInv,
           \/ Process \/ Heartbeat \/ Operator \/ UNCHANGED vars
           \/ \E t \in Task : RunAfterElapses(t)
    PROVE  LapInv'
<1>0. run \in [Task -> [Runs -> RunState]]
  BY TypeParts DEF TypeInv
<1>1. CASE Crash \/ StopReturns
  <2>1. run' = [t \in Task |-> [n \in Runs |-> NoRun]]
    BY <1>1 DEF Crash, StopReturns, EmptyMemory
  <2> QED
    BY <2>1 DEF LapInv, Lapped, Live, NoRun
<1>2. CASE Shutdown \/ \E a \in Admin : SignalActive(a)
  <2>1. active' = active
    BY <1>2 DEF Shutdown, SignalActive
  <2>2. \A t \in Task, n \in Runs :
           run'[t][n] = run[t][n] \/ \E c : run'[t][n] = Canceled(run[t][n], c)
    BY <1>2 DEF Shutdown, SignalActive
  <2>a. \A r \in RunState : \A c : Canceled(r, c).pc = r.pc /\ Canceled(r, c).lapped = r.lapped
    BY DEF Canceled, RunState
  <2>b. \A t \in Task, n \in Runs : run[t][n] \in RunState
    BY <1>0
  <2>3. \A t \in Task, n \in Runs :
           run'[t][n].pc = run[t][n].pc /\ run'[t][n].lapped = run[t][n].lapped
    BY <2>2, <2>a, <2>b
  <2> QED
    BY <2>1, <2>3, LapQuiet DEF Live
<1>3. CASE UNCHANGED <<active, run>>
  BY <1>3, LapQuiet DEF Live
<1>4. Process => Crash \/ StopReturns \/ Shutdown \/ UNCHANGED <<active, run>>
  BY DEF Process, Start, memory
<1>5. Heartbeat => UNCHANGED <<active, run>>
  BY DEF Heartbeat, HeartbeatExpires, RecoverStaleTasks, memory
<1>6. Operator => (\E a \in Admin : SignalActive(a)) \/ UNCHANGED <<active, run>>
  BY DEF Operator, Enqueue, ResumeJob, RunJobNow, RetryJob, RetryTask, SetQueuePaused,
         PauseJob, CancelJob, CancelTask, PluckCanceled, memory
<1>7. (\E t \in Task : RunAfterElapses(t)) \/ UNCHANGED vars => UNCHANGED <<active, run>>
  BY DEF RunAfterElapses, memory, vars
<1> QED
  BY <1>1, <1>2, <1>3, <1>4, <1>5, <1>6, <1>7

(* recoverStaleTasks reclaims a task under a goroutine of its own only if  *)
(* two goroutines of the task were there at once, which no queue of        *)
(* capacity one allows: for every set of tasks, queues and capacities.     *)
THEOREM StaleReclaimIsSafe == Spec => ReclaimedOnlyIfLapped
<1>1. Init => LapInv
  BY DEF Init, LapInv, Lapped, Live, NoRun
<1>2. SerialStrong /\ LapInv /\ [Next]_vars => LapInv'
  BY LapDispatch, LapGoroutine, LapOthers DEF Next, SerialStrong
<1>3. SerialStrong /\ LapInv =>
        [RecoverStaleTasks =>
          \A t \in Task, n \in Runs :
              Stale(t) /\ Live(t, n) => Lapped(t) /\ Capacity[QueueOf[t]] > 1]_vars
  <2> SUFFICES ASSUME LapInv, NEW t \in Task, NEW n \in Runs, Stale(t), Live(t, n)
               PROVE  Lapped(t) /\ Capacity[QueueOf[t]] > 1
    OBVIOUS
  <2>1. n # 0 /\ Capacity[QueueOf[t]] \in Nat \ {0}
    BY ConstantsAssumption DEF Runs
  <2>2. Lapped(t)
    BY <2>1 DEF LapInv, Stale
  <2>3. Capacity[QueueOf[t]] # 1
    BY <2>2 DEF LapInv, Serial
  <2> QED
    BY <2>1, <2>2, <2>3
<1> QED
  BY <1>1, <1>2, <1>3, SerialHolds, PTL DEF Spec, ReclaimedOnlyIfLapped
=============================================================================
