---------------------------- MODULE MCScheduler ----------------------------
(* One task, read, edited and run by the loop and by a manual run beside   *)
(* it: tasks share only the loop, which lets the API in between the rows   *)
(* it reads and each run whether it has one row or more.  Its schedule is  *)
(* one of two, so that an edit can make a time match that has passed.  The *)
(* loop starts with the first restart, and the second follows or cuts its  *)
(* runs.                                                                   *)
EXTENDS Scheduler

CONSTANTS t1, m1, often, seldom

OneTask == {t1}
OneManual == {m1}
TwoSchedules == {often, seldom}
Times == [c \in TwoSchedules |-> IF c = often THEN {1, 2, 3} ELSE {2}]

(* The bound of the server's third life: it is followed until the third    *)
(* record of a run, of any of its lives, is begun.                         *)
FewRecords == restarts = 2 => Len(executions) <= 2
=============================================================================
