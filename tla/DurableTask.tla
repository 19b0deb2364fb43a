----------------------------- MODULE DurableTask -----------------------------
(***************************************************************************)
(* What the background runtime makes of one task row, for the modules that *)
(* model its handlers: BackgroundRuntime is the runtime itself.  A job     *)
(* that stays canceled keeps a task that is to be retried from running     *)
(* ("held"); "queued" stands for retry_wait too.                           *)
(***************************************************************************)
EXTENDS Naturals

CONSTANT TaskRuns   \* runs of one task, retries by hand included

ASSUME TaskRunsAssumption == TaskRuns \in Nat \ {0}

TaskOver == {"succeeded", "failed", "canceled"}
TaskOpen == {"queued", "held", "running", "cancel_requested"}
TaskRows == [st : TaskOver \cup TaskOpen \cup {"none"}, runs : 0 .. TaskRuns, commit : BOOLEAN]
NoTaskRow == [st |-> "none", runs |-> 0, commit |-> FALSE]
NewTaskRow == [st |-> "queued", runs |-> 0, commit |-> FALSE]

Claimable(t) == t.st = "queued" /\ t.runs < TaskRuns
Claimed(t) == [st |-> "running", runs |-> t.runs + 1, commit |-> FALSE]

CommitAllowed(t) == t.st = "running"
Committing(t) == t.commit /\ t.st \in {"running", "cancel_requested"}

\* finish: how is the class of the handler's result.
FinishedRow(t, how) ==
    [t EXCEPT !.st =
        IF t.st \notin {"running", "cancel_requested"} THEN t.st
        ELSE CASE how = "ok" ->
                      IF t.st = "cancel_requested" /\ ~ t.commit THEN "canceled" ELSE "succeeded"
               [] how = "canceled" -> "canceled"
               [] how = "interrupted" /\ t.runs < TaskRuns -> "queued"
               [] how = "transient" /\ t.runs < TaskRuns ->
                      IF t.st = "cancel_requested" THEN "held" ELSE "queued"
               [] OTHER -> "failed"]

\* CancelJob for one task of the job.
CanceledRow(t) ==
    [t EXCEPT !.st = CASE t.st \in {"queued", "held"} -> "canceled"
                       [] t.st = "running" -> "cancel_requested"
                       [] OTHER -> t.st]

\* RetryJob for one task of a job that is over.
RetriedRow(t) ==
    IF t.st \in {"failed", "canceled"} THEN [t EXCEPT !.st = "queued", !.commit = FALSE] ELSE t

\* Recover when the process starts again.
RecoveredRow(t) ==
    [t EXCEPT !.st = IF Committing(t) THEN "failed"
                     ELSE CASE t.st = "cancel_requested" -> "canceled"
                            [] t.st = "running" -> IF t.runs < TaskRuns THEN "queued" ELSE "failed"
                            [] OTHER -> t.st]
=============================================================================
