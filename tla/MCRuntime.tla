------------------------------ MODULE MCRuntime ------------------------------
(* Instances of BackgroundRuntime with one job on one queue: a single task, *)
(* or a required root task with an optional child.                          *)
EXTENDS BackgroundRuntime

CONSTANTS j1, root, child, q1

OneJob == {j1}
Single == {root}
Family == {root, child}
AllOfOneJob == [t \in Task |-> j1]
Parents == [t \in Task |-> IF t = child THEN root ELSE NoTask]
RootRequired == [t \in Task |-> t = root]
OneQueue == {q1}
SameQueue == [t \in Task |-> q1]
CapacityOne == [q \in Queue |-> 1]
CapacityTwo == [q \in Queue |-> 2]
=============================================================================
