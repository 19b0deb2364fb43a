------------------------------ MODULE Schedules ------------------------------
(***************************************************************************)
(* A recurring schedule of the background runtime: its row, the loop that  *)
(* claims the row when it is due and then enqueues a job under a key made  *)
(* of the current period, and the operator who runs it by hand.  The clock *)
(* is the wall clock of the server, in units of which Interval make up the *)
(* interval of the schedule; it may be set back.                           *)
(***************************************************************************)
EXTENDS Naturals

CONSTANTS Interval, MaxClock,
          RunsOnStart,        \* the values of RunOnStart tried
          MaxManualRuns,
          MaxScheduleFaults   \* crashes, corrections of the clock, failed enqueues

ASSUME SchedulesAssumption ==
    /\ Interval \in Nat \ {0} /\ {MaxClock, MaxManualRuns, MaxScheduleFaults} \subseteq Nat
    /\ RunsOnStart \subseteq BOOLEAN

VARIABLES clock,
          scheduled,    \* the schedule's row: next_run_at, last_job_id, last_status
          scheduledJobs, \* the status of the jobs by idempotency key
          loop,         \* where scheduleLoop is, the time and the job it holds
          manual,       \* a RunSchedule request between its two writes
          scheduleFaults

scheduleVars == <<clock, scheduled, scheduledJobs, loop, manual, scheduleFaults>>

NoKey == <<"none", 0>>
NoSchedule == [next |-> 0, job |-> NoKey, status |-> "missing"]
DueKey(now) == <<"schedule", now \div Interval>>
ManualKey(n) == <<"schedule-manual", n>>
ScheduleKeys == {DueKey(t) : t \in 0..MaxClock} \cup {ManualKey(n) : n \in 1..MaxManualRuns}
LoopDown == [pc |-> "down", now |-> 0, job |-> NoKey, seen |-> "none"]

SchedulesInit ==
    /\ clock \in 0..(Interval - 1)
    /\ scheduled = NoSchedule
    /\ scheduledJobs = [k \in ScheduleKeys |-> "none"]
    /\ loop = LoopDown /\ manual = NoKey /\ scheduleFaults = 0

ScheduleFault == scheduleFaults < MaxScheduleFaults /\ scheduleFaults' = scheduleFaults + 1
JobKnown(k) == k # NoKey /\ scheduledJobs[k] # "none"

ClockAdvances ==
    /\ clock < MaxClock /\ clock' = clock + 1
    /\ UNCHANGED <<scheduled, scheduledJobs, loop, manual, scheduleFaults>>

ClockSetBack ==
    /\ ScheduleFault
    /\ \E t \in 0..MaxClock : t < clock /\ clock' = t
    /\ UNCHANGED <<scheduled, scheduledJobs, loop, manual>>

\* ensureSchedules creates the row once; the first pass follows at once.
EnsureSchedules ==
    /\ loop.pc = "down"
    /\ \E onStart \in RunsOnStart :
         scheduled' = IF scheduled # NoSchedule THEN scheduled
                      ELSE [next |-> IF onStart THEN clock ELSE clock + Interval,
                            job |-> NoKey, status |-> "empty"]
    /\ loop' = [LoopDown EXCEPT !.pc = "wake"]
    /\ UNCHANGED <<clock, scheduledJobs, manual, scheduleFaults>>

\* refreshScheduleOutcomes: the row and its job are read, then the outcome is
\* written to the row, whatever job it names by then.
RefreshReads ==
    /\ loop.pc = "idle"
    /\ loop' = IF JobKnown(scheduled.job)
               THEN [loop EXCEPT !.pc = "refresh", !.seen = scheduledJobs[scheduled.job]]
               ELSE [loop EXCEPT !.pc = "wake"]
    /\ UNCHANGED <<clock, scheduled, scheduledJobs, manual, scheduleFaults>>

RefreshScheduleOutcomes ==
    /\ loop.pc = "refresh"
    /\ scheduled' = [scheduled EXCEPT !.status = loop.seen]
    /\ loop' = [loop EXCEPT !.pc = "wake", !.seen = "none"]
    /\ UNCHANGED <<clock, scheduledJobs, manual, scheduleFaults>>

\* runDueSchedules reads the time once for all schedules.
RunDueSchedules ==
    /\ loop.pc = "wake"
    /\ loop' = [loop EXCEPT !.pc = "due", !.now = clock]
    /\ UNCHANGED <<clock, scheduled, scheduledJobs, manual, scheduleFaults>>

\* Mutant: the next run keeps the cadence of the row.
NextRunOfRow(now) == scheduled.next + Interval

NextRun(now) == now + Interval

ClaimSchedule ==
    /\ loop.pc = "due"
    /\ IF scheduled.next <= loop.now
       THEN /\ scheduled' = [scheduled EXCEPT !.next = NextRun(loop.now)]
            /\ loop' = [loop EXCEPT !.pc = "claimed"]
       ELSE /\ loop' = [loop EXCEPT !.pc = "idle"] /\ UNCHANGED scheduled
    /\ UNCHANGED <<clock, scheduledJobs, manual, scheduleFaults>>

EnqueueScheduled ==
    LET k == DueKey(loop.now)
    IN /\ loop.pc = "claimed"
       /\ scheduledJobs' = IF JobKnown(k) THEN scheduledJobs
                           ELSE [scheduledJobs EXCEPT ![k] = "queued"]
       /\ loop' = [loop EXCEPT !.pc = "record", !.job = k, !.seen = scheduledJobs'[k]]
       /\ UNCHANGED <<clock, scheduled, manual, scheduleFaults>>

EnqueueScheduledFails ==
    /\ loop.pc = "claimed" /\ ScheduleFault
    /\ scheduled' = [scheduled EXCEPT !.status = "failed"]
    /\ loop' = [loop EXCEPT !.pc = "idle"]
    /\ UNCHANGED <<clock, scheduledJobs, manual>>

RecordScheduled ==
    /\ loop.pc = "record"
    /\ scheduled' = [scheduled EXCEPT !.job = loop.job, !.status = loop.seen]
    /\ loop' = [loop EXCEPT !.pc = "idle", !.job = NoKey, !.seen = "none"]
    /\ UNCHANGED <<clock, scheduledJobs, manual, scheduleFaults>>

RunSchedule(n) ==
    /\ loop.pc # "down" /\ manual = NoKey
    /\ scheduledJobs[ManualKey(n)] = "none"
    /\ scheduledJobs' = [scheduledJobs EXCEPT ![ManualKey(n)] = "queued"]
    /\ manual' = ManualKey(n)
    /\ UNCHANGED <<clock, scheduled, loop, scheduleFaults>>

RunScheduleRecords ==
    /\ manual # NoKey
    /\ scheduled' = [scheduled EXCEPT !.job = manual, !.status = "queued"]
    /\ manual' = NoKey
    /\ UNCHANGED <<clock, scheduledJobs, loop, scheduleFaults>>

ScheduledJobEnds(k) ==
    /\ scheduledJobs[k] = "queued"
    /\ scheduledJobs' = [scheduledJobs EXCEPT ![k] = "succeeded"]
    /\ UNCHANGED <<clock, scheduled, loop, manual, scheduleFaults>>

SchedulerCrash ==
    /\ loop.pc # "down" /\ ScheduleFault
    /\ loop' = LoopDown /\ manual' = NoKey
    /\ UNCHANGED <<clock, scheduled, scheduledJobs>>

SchedulesNext ==
    \/ ClockAdvances \/ ClockSetBack \/ EnsureSchedules
    \/ RefreshReads \/ RefreshScheduleOutcomes
    \/ RunDueSchedules \/ ClaimSchedule \/ EnqueueScheduled \/ EnqueueScheduledFails
    \/ RecordScheduled \/ RunScheduleRecords \/ SchedulerCrash
    \/ \E n \in 1..MaxManualRuns : RunSchedule(n)
    \/ \E k \in ScheduleKeys : ScheduledJobEnds(k)

SchedulesSpec == SchedulesInit /\ [][SchedulesNext]_scheduleVars

-----------------------------------------------------------------------------
(* A claimed run is never swallowed by an earlier one: no job has its key   *)
(* yet, although the key only names the period of the clock, the loop may   *)
(* be late, the process may crash between the claim and the job, and the    *)
(* clock may be set back.                                                   *)
NoRunSwallowed == loop.pc = "claimed" => scheduledJobs[DueKey(loop.now)] = "none"
=============================================================================
