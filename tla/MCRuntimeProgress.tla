-------------------------- MODULE MCRuntimeProgress --------------------------
(* Progress of the runtime on one queue.  A behaviour has one of two jobs:   *)
(* the job of one task, with operators, crashes and shutdowns, or the        *)
(* required root task with its delayed start and its optional child, with    *)
(* nobody to help.                                                           *)
EXTENDS BackgroundRuntime

CONSTANTS family, single, root, child, solo, q1

VARIABLE part

TwoJobs == {family, single}
Tasks == {root, child, solo}
JobOfTask == [t \in Task |-> IF t = solo THEN single ELSE family]
Parents == [t \in Task |-> IF t = child THEN root ELSE NoTask]
AllButChild == [t \in Task |-> t # child]
DelayedRoot == {root}
OneQueue == {q1}
SameQueue == [t \in Task |-> q1]
CapacityOne == [q \in Queue |-> 1]

progressVars == <<part, vars>>

ProgressInit == part \in TwoJobs /\ Init

Unhelped ==
    \/ Start \/ Dispatch \/ Heartbeat \/ Enqueue(family)
    \/ \E t \in Task, n \in Runs : Goroutine(t, n)
    \/ \E t \in Task : RunAfterElapses(t)

ProgressNext ==
    /\ UNCHANGED part
    /\ \/ part = single /\ Next /\ UNCHANGED job[family]
       \/ part = family /\ Unhelped

ProgressSpec == ProgressInit /\ [][ProgressNext]_progressVars /\ Fairness
=============================================================================
