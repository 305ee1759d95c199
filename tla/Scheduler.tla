----------------------------- MODULE Scheduler -----------------------------
(***************************************************************************)
(* scheduler.py's TaskEngine: the loop that runs the tasks that are due,   *)
(* the runs that POST /v1/tasks/{id}/run starts beside it, the task API,   *)
(* and the two tables they share.  A run awaits the daemon for up to a     *)
(* minute, and works on the row it was given before: by then the row may   *)
(* have been changed, run by someone else, or deleted.                     *)
(*                                                                         *)
(* A cron expression is the set of times it matches, of which a run finds  *)
(* those within reach of the search (see Cron), and the answer of          *)
(* dispatch_spawn (see RpcDispatch) is that it returned or that it raised. *)
(***************************************************************************)
EXTENDS Integers, Sequences, FiniteSets

CONSTANTS
    Tasks,        \* task ids, each created once
    Manual,       \* requests for a manual run, each made once
    Loop,         \* the scheduler's own runs, one at a time
    Schedules,    \* cron expressions
    Slots,        \* the times each of them matches
    LookBack,     \* how far back a task that never ran is due (86400 s)
    Minute,       \* what the search for the next match goes by (60 s)
    Horizon,      \* how far it goes (525600 minutes, in seconds)
    Interval,     \* sleep of the loop (60 s)
    MaxFailures,  \* failures that disable a task (5)
    MaxTime,      \* bound of the clock
    MaxRestarts   \* bound of the stops of the server

ASSUME SchedulerAssumption ==
    /\ Loop \notin Manual
    /\ Slots \in [Schedules -> SUBSET Nat]
    /\ LookBack \in Nat
    /\ Minute \in Nat \ {0}
    /\ Horizon \in Nat
    /\ Interval \in Nat \ {0}
    /\ MaxFailures \in Nat \ {0}
    /\ MaxTime \in Nat \ {0}
    /\ MaxRestarts \in Nat

VARIABLES
    now,         \* time.time()
    rows,        \* scheduled_tasks: id -> row
    made,        \* the ids that have been given out
    executions,  \* task_executions, in the order of their creation
    loop,        \* off, asleep, listed (has the rows) or checking them
    wakeAt,      \* when its sleep ends, 0 when it is not asleep
    checkedAt,   \* the now of check_and_run, 0 when it is not checking
    todo,        \* the rows it has still to deal with, as it selected them
    run,         \* what each runner is at
    restarts,
    served,      \* history: slots of each task for which a run of the loop
                 \* has come to its end
    cut,         \* history: executions whose run the server's stop cut short
    stale        \* history: runs the loop has begun of each task since a
                 \* client disabled or deleted it, at most 2

api == <<rows, made>>
loopVars == <<loop, wakeAt, checkedAt, todo>>
vars == <<now, rows, made, executions, loop, wakeAt, checkedAt, todo, run,
          restarts, served, cut, stale>>

Runners == Manual \cup {Loop}

(* reason is whether disabled_reason is set, lastRun is 0 for NULL, which  *)
(* is also how the code reads a 0.                                         *)
Row == [enabled : BOOLEAN, reason : BOOLEAN, failures : Nat, lastRun : Nat,
        machine : BOOLEAN, schedule : Schedules]

Selected == [task : Tasks, row : Row]

(* A runner with what it was given of a row; one that dispatches or is past *)
(* it holds an execution record.                                           *)
NotAsked == [phase |-> "new"]
Resting == [phase |-> "idle"]
Asked == [phase : {"asked", "recorded"}, task : Tasks, machine : BOOLEAN,
          failures : Nat]
Underway == [phase : {"dispatching", "failed", "storing"}, task : Tasks,
             machine : BOOLEAN, failures : Nat, exec : Nat,
             slots : SUBSET Nat]

Holds(r, i) ==
    run[r].phase \in {"dispatching", "failed", "storing"} /\ run[r].exec = i

Init ==
    /\ now = 1
    /\ rows = << >>
    /\ made = {}
    /\ executions = << >>
    /\ loop = "off"
    /\ wakeAt = 0
    /\ checkedAt = 0
    /\ todo = {}
    /\ run = [r \in Runners |-> IF r = Loop THEN Resting ELSE NotAsked]
    /\ restarts = 0
    /\ served = [t \in Tasks |-> {}]
    /\ cut = {}
    /\ stale = [t \in Tasks |-> 0]

Tick ==
    /\ now < MaxTime
    /\ now' = now + 1
    /\ UNCHANGED <<api, executions, loopVars, run, restarts, served, cut, stale>>

-----------------------------------------------------------------------------
(* The task API.                                                           *)

Create(t) ==
    /\ t \notin made
    /\ made' = made \cup {t}
    /\ \E e, m \in BOOLEAN, c \in Schedules :
        rows' = [u \in DOMAIN rows \cup {t} |->
            IF u = t THEN [enabled |-> e, reason |-> FALSE, failures |-> 0,
                           lastRun |-> 0, machine |-> m, schedule |-> c]
            ELSE rows[u]]
    /\ UNCHANGED <<now, executions, loopVars, run, restarts, served, cut, stale>>

(* PATCH takes any of the columns; what disables a task for its failures   *)
(* is at most cleared by it.                                               *)
Patch(t) ==
    /\ t \in DOMAIN rows
    /\ \E e, m, pardoned, cleared \in BOOLEAN, c \in Schedules :
        /\ rows' = [u \in DOMAIN rows |->
               IF u = t
               THEN [rows[u] EXCEPT !.enabled = e, !.machine = m, !.schedule = c,
                                    !.failures = IF pardoned THEN 0 ELSE @,
                                    !.reason = @ /\ ~cleared]
               ELSE rows[u]]
        /\ stale' = [stale EXCEPT ![t] = IF e THEN 0 ELSE @]
    /\ UNCHANGED <<now, made, executions, loopVars, run, restarts, served, cut>>

Delete(t) ==
    /\ t \in DOMAIN rows
    /\ rows' = [u \in DOMAIN rows \ {t} |-> rows[u]]
    /\ UNCHANGED <<now, made, executions, loopVars, run, restarts, served, cut,
                   stale>>

-----------------------------------------------------------------------------
(* Executions: create_execution and update_execution.                      *)

Recorded(t, trigger) ==
    Append(executions, [task |-> t, trigger |-> trigger, status |-> "pending"])

Close(r, status) == executions' = [executions EXCEPT ![run[r].exec].status = status]

(* _execute_task up to its first await: whoever asked for the run, its     *)
(* record says "scheduled".                                                *)
StartRun(r, t, machine, failures, slots) ==
    /\ executions' = Recorded(t, "scheduled")
    /\ run' = [run EXCEPT ![r] =
           [phase |-> "dispatching", task |-> t, machine |-> machine,
            failures |-> failures, exec |-> Len(executions) + 1,
            slots |-> slots]]

(* The daemon answered.                                                    *)
Spawned(r) ==
    /\ run[r].phase = "dispatching"
    /\ run[r].machine
    /\ Close(r, "running")
    /\ run' = [run EXCEPT ![r].phase = "storing"]
    /\ UNCHANGED <<now, api, loopVars, restarts, served, cut, stale>>

(* Mutated: it returns before it has closed the record.                    *)
SkipSilently(r) ==
    /\ run[r].phase = "dispatching"
    /\ ~run[r].machine
    /\ run' = [run EXCEPT ![r] = Resting]
    /\ UNCHANGED <<now, api, executions, loopVars, restarts, served, cut, stale>>

(* No machine is assigned: the run returns here, and last_run_at stays.    *)
Skip(r) ==
    /\ run[r].phase = "dispatching"
    /\ ~run[r].machine
    /\ Close(r, "skipped")
    /\ run' = [run EXCEPT ![r] = Resting]
    /\ UNCHANGED <<now, api, loopVars, restarts, served, cut, stale>>

(* The dispatch raised.                                                    *)
Raised(r) ==
    /\ run[r].phase = "dispatching"
    /\ run[r].machine
    /\ Close(r, "failed")
    /\ run' = [run EXCEPT ![r].phase = "failed"]
    /\ UNCHANGED <<now, api, loopVars, restarts, served, cut, stale>>

(* Mutated: the counter of the task is counted up twice by a failure.      *)
CountFailureTwice(r) ==
    /\ run[r].phase = "failed"
    /\ rows' = [t \in DOMAIN rows |->
           IF t = run[r].task THEN [rows[t] EXCEPT !.failures = run[r].failures + 2]
           ELSE rows[t]]
    /\ run' = [run EXCEPT ![r].phase = "storing"]
    /\ UNCHANGED <<now, made, executions, loopVars, restarts, served, cut, stale>>

(* The count is one more than in the row the run was given.  UPDATE leaves *)
(* a row that is gone alone.                                               *)
CountFailure(r) ==
    /\ run[r].phase = "failed"
    /\ rows' = [t \in DOMAIN rows |->
           IF t = run[r].task THEN [rows[t] EXCEPT !.failures = run[r].failures + 1]
           ELSE rows[t]]
    /\ run' = [run EXCEPT ![r].phase = "storing"]
    /\ UNCHANGED <<now, made, executions, loopVars, restarts, served, cut, stale>>

(* Mutated: last_run_at is when the next check will be.                    *)
StoreNextRun(r) ==
    /\ run[r].phase = "storing"
    /\ rows' = [t \in DOMAIN rows |->
           IF t = run[r].task THEN [rows[t] EXCEPT !.lastRun = now + Interval]
           ELSE rows[t]]
    /\ run' = [run EXCEPT ![r] = Resting]
    /\ served' = IF r = Loop
                 THEN [served EXCEPT ![run[r].task] = @ \cup run[r].slots]
                 ELSE served
    /\ UNCHANGED <<now, made, executions, loopVars, restarts, cut, stale>>

StoreRun(r) ==
    /\ run[r].phase = "storing"
    /\ rows' = [t \in DOMAIN rows |->
           IF t = run[r].task THEN [rows[t] EXCEPT !.lastRun = now] ELSE rows[t]]
    /\ run' = [run EXCEPT ![r] = Resting]
    /\ served' = IF r = Loop
                 THEN [served EXCEPT ![run[r].task] = @ \cup run[r].slots]
                 ELSE served
    /\ UNCHANGED <<now, made, executions, loopVars, restarts, cut, stale>>

-----------------------------------------------------------------------------
(* POST /v1/tasks/{id}/run: SELECT, a record that nothing will ever update, *)
(* and a run of its own in the background, which asks neither whether the  *)
(* task is enabled nor whether it is running.                              *)

AskRun(r, t) ==
    /\ r \in Manual
    /\ run[r].phase = "new"
    /\ t \in DOMAIN rows
    /\ run' = [run EXCEPT ![r] =
           [phase |-> "asked", task |-> t, machine |-> rows[t].machine,
            failures |-> rows[t].failures]]
    /\ UNCHANGED <<now, api, executions, loopVars, restarts, served, cut, stale>>

RecordAsked(r) ==
    /\ run[r].phase = "asked"
    /\ executions' = Recorded(run[r].task, "manual")
    /\ run' = [run EXCEPT ![r].phase = "recorded"]
    /\ UNCHANGED <<now, api, loopVars, restarts, served, cut, stale>>

StartAsked(r) ==
    /\ run[r].phase = "recorded"
    /\ StartRun(r, run[r].task, run[r].machine, run[r].failures, {})
    /\ UNCHANGED <<now, api, loopVars, restarts, served, cut, stale>>

-----------------------------------------------------------------------------
(* check_and_run.                                                          *)

List ==
    /\ loop = "asleep"
    /\ now >= wakeAt
    /\ loop' = "listed"
    /\ wakeAt' = 0
    /\ todo' = {[task |-> t, row |-> rows[t]] : t \in DOMAIN rows}
    /\ UNCHANGED <<now, api, executions, checkedAt, run, restarts, served, cut,
                   stale>>

(* The time a task's next match is searched from.                          *)
Base(row, at) == IF row.lastRun = 0 THEN at - LookBack ELSE row.lastRun

(* The search begins in the minute of its base and ends at a horizon.      *)
InReach(s, base) == s < (base - (base % Minute)) + Horizon

(* Mutated: next_cron_match takes a match at its very start.               *)
DueSlotsFromBase(row, at) ==
    {s \in Slots[row.schedule] :
        Base(row, at) <= s /\ s <= at /\ InReach(s, Base(row, at))}

(* The matches after the base, up to at: a task is due if there is one     *)
(* (CronProofs: that is what the search finds out).                        *)
DueSlots(row, at) ==
    {s \in Slots[row.schedule] :
        Base(row, at) < s /\ s <= at /\ InReach(s, Base(row, at))}

(* Mutated: the enabled column is not looked at.                           *)
ConcernsAnyway(row) ==
    ~row.reason /\ (row.failures >= MaxFailures \/ DueSlots(row, now) # {})

(* The loop deals with a row: it is enabled, and either disabled now for   *)
(* its failures or due.                                                    *)
Concerns(row) ==
    /\ row.enabled
    /\ ~row.reason
    /\ row.failures >= MaxFailures \/ DueSlots(row, now) # {}

(* Everything the loop decides, it decides on the rows as it selected them *)
(* and the time it read after that.                                        *)
Check ==
    /\ loop = "listed"
    /\ loop' = "checking"
    /\ checkedAt' = now
    /\ todo' = {x \in todo : Concerns(x.row)}
    /\ UNCHANGED <<now, api, executions, wakeAt, run, restarts, served, cut, stale>>

(* Mutated: one failure too few.                                           *)
FailsTooOftenOffByOne(row) == row.failures >= MaxFailures - 1

FailsTooOften(row) == row.failures >= MaxFailures

Free == loop = "checking" /\ run[Loop].phase = "idle"

Disable(x) ==
    /\ Free
    /\ x \in todo
    /\ FailsTooOften(x.row)
    /\ todo' = todo \ {x}
    /\ rows' = [t \in DOMAIN rows |->
           IF t = x.task THEN [rows[t] EXCEPT !.enabled = FALSE, !.reason = TRUE]
           ELSE rows[t]]
    /\ UNCHANGED <<now, made, executions, loop, wakeAt, checkedAt, run, restarts,
                   served, cut, stale>>

AtMost(n, limit) == IF n < limit THEN n ELSE limit

RunDue(x) ==
    /\ Free
    /\ x \in todo
    /\ ~FailsTooOften(x.row)
    /\ todo' = todo \ {x}
    /\ StartRun(Loop, x.task, x.row.machine, x.row.failures,
                DueSlots(x.row, checkedAt))
    /\ stale' = IF x.task \in DOMAIN rows /\ rows[x.task].enabled THEN stale
                ELSE [stale EXCEPT ![x.task] = AtMost(@ + 1, 2)]
    /\ UNCHANGED <<now, api, loop, wakeAt, checkedAt, restarts, served, cut>>

Sleep ==
    /\ Free
    /\ todo = {}
    /\ loop' = "asleep"
    /\ wakeAt' = now + Interval
    /\ checkedAt' = 0
    /\ UNCHANGED <<now, api, executions, todo, run, restarts, served, cut, stale>>

-----------------------------------------------------------------------------
(* The server stops, cancelling the loop where it stands, and starts again: *)
(* the loop starts only if there is a task by then.                        *)
Restart ==
    /\ restarts < MaxRestarts
    /\ restarts' = restarts + 1
    /\ loop' = IF DOMAIN rows = {} THEN "off" ELSE "asleep"
    /\ wakeAt' = IF DOMAIN rows = {} THEN 0 ELSE now
    /\ checkedAt' = 0
    /\ todo' = {}
    /\ run' = [r \in Runners |-> IF run[r].phase = "new" THEN NotAsked ELSE Resting]
    /\ cut' = cut \cup {i \in DOMAIN executions : \E r \in Runners : Holds(r, i)}
    /\ UNCHANGED <<now, api, executions, served, stale>>

Next ==
    \/ Tick
    \/ \E t \in Tasks : Create(t) \/ Patch(t) \/ Delete(t)
    \/ \E r \in Runners :
        \/ Spawned(r) \/ Skip(r) \/ Raised(r) \/ CountFailure(r) \/ StoreRun(r)
        \/ \E t \in Tasks : AskRun(r, t)
        \/ RecordAsked(r) \/ StartAsked(r)
    \/ List \/ Check \/ Sleep
    \/ \E x \in todo : Disable(x) \/ RunDue(x)
    \/ Restart

Spec == Init /\ [][Next]_vars

-----------------------------------------------------------------------------
Executions == [task : Tasks, trigger : {"scheduled", "manual"},
               status : {"pending", "running", "skipped", "failed"}]

(* The values the variables can hold; no run is dated later than now.      *)
TypeOK ==
    /\ now \in Nat \ {0}
    /\ DOMAIN rows \subseteq made
    /\ made \subseteq Tasks
    /\ \A t \in DOMAIN rows : rows[t] \in Row /\ rows[t].lastRun <= now
    /\ executions \in Seq(Executions)
    /\ loop \in {"off", "asleep", "listed", "checking"}
    /\ wakeAt \in Nat
    /\ checkedAt \in 0..now
    /\ todo \subseteq Selected
    /\ run \in [Runners -> {NotAsked, Resting} \cup Asked \cup Underway]
    /\ restarts \in Nat
    /\ served \in [Tasks -> SUBSET Nat]
    /\ cut \subseteq DOMAIN executions
    /\ stale \in [Tasks -> 0..2]

(* A slot that the loop has run a task for is never run for it again: not  *)
(* by a later check, after an edit of the schedule, after manual runs that *)
(* overlap it, or after a restart. A run that the stop of the server cut   *)
(* short, or that was skipped for want of a machine, has not served its    *)
(* slot.                                                                   *)
ServedOnce ==
    run[Loop].phase \in {"dispatching", "failed", "storing"}
        => run[Loop].slots \cap served[run[Loop].task] = {}

Failed(t) ==
    {i \in DOMAIN executions : executions[i].task = t /\ executions[i].status = "failed"}

(* consecutive_failures is never more than the failures the history shows, *)
(* although it is written from rows read before the run, by runs that      *)
(* overlap each other and the client's resets.                             *)
CountedFailuresHappened ==
    \A t \in DOMAIN rows : rows[t].failures <= Cardinality(Failed(t))

(* The breaker disables a task only after as many failures as it allows,   *)
(* however stale the count it goes by is.                                  *)
DisabledHasFailed ==
    \A t \in DOMAIN rows :
        rows[t].reason => Cardinality(Failed(t)) >= MaxFailures

(* The loop may still run a task that was disabled or deleted while it     *)
(* dealt with others, but only once.                                       *)
StaleRunsOnce == \A t \in Tasks : stale[t] <= 1

(* A record is left pending in three cases only: its run is under way, the *)
(* stop of the server cut it short, or it is what a manual run answered    *)
(* with, which nobody updates.                                             *)
PendingExplained ==
    \A i \in DOMAIN executions :
        executions[i].status = "pending" =>
            \/ \E r \in Runners : Holds(r, i)
            \/ i \in cut
            \/ executions[i].trigger = "manual"
=============================================================================
