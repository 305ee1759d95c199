-------------------------- MODULE SchedulerProofs --------------------------
(***************************************************************************)
(* The safety of the scheduler for any tasks, schedules and manual runs.   *)
(* The checked properties are not inductive: they say nothing of the rows  *)
(* that the loop and the runs go by after they selected them.              *)
(***************************************************************************)
EXTENDS Scheduler, FiniteSetTheorems, SequenceTheorems, TLAPS

Busy(r) == run[r].phase \in {"dispatching", "failed", "storing"}

-----------------------------------------------------------------------------
(* Types.                                                                  *)

LEMMA InitTypes == Init => TypeOK
<1> SUFFICES ASSUME Init PROVE TypeOK
    OBVIOUS
<1> QED BY SchedulerAssumption DEF Init, TypeOK, Runners, Selected

(* The parts of TypeOK that concern the clock and the API.                 *)
LEMMA ApiTypes ==
    ASSUME TypeOK, NEW t \in Tasks, Create(t) \/ Patch(t) \/ Delete(t)
    PROVE  TypeOK'
<1>1. CASE Create(t)
    BY <1>1, SchedulerAssumption DEF Create, TypeOK, Row, loopVars
<1>2. CASE Patch(t)
    <2>1. PICK e, m, pardoned, cleared \in BOOLEAN, c \in Schedules :
              /\ rows' = [u \in DOMAIN rows |->
                     IF u = t
                     THEN [rows[u] EXCEPT !.enabled = e, !.machine = m, !.schedule = c,
                                          !.failures = IF pardoned THEN 0 ELSE @,
                                          !.reason = @ /\ ~cleared]
                     ELSE rows[u]]
              /\ stale' = [stale EXCEPT ![t] = IF e THEN 0 ELSE @]
        BY <1>2 DEF Patch
    <2>2. UNCHANGED <<now, made, executions, loopVars, run, restarts, served, cut>>
        BY <1>2 DEF Patch
    <2>3. rows[t] \in Row /\ stale \in [Tasks -> 0..2]
        BY <1>2 DEF Patch, TypeOK
    <2>4. ASSUME NEW u \in DOMAIN rows
          PROVE  rows'[u] \in Row /\ rows'[u].lastRun <= now
        <3>1. CASE u # t
            BY <2>1, <3>1 DEF TypeOK
        <3>2. CASE u = t
            <4>1. (rows[t].reason /\ ~cleared) \in BOOLEAN
                OBVIOUS
            <4>2. (IF pardoned THEN 0 ELSE rows[t].failures) \in Nat
                BY <2>3 DEF Row
            <4> DEFINE reason == rows[t].reason /\ ~cleared
                       failures == IF pardoned THEN 0 ELSE rows[t].failures
            <4>3. rows'[u] = [rows[t] EXCEPT !.enabled = e, !.machine = m,
                                  !.schedule = c, !.failures = failures,
                                  !.reason = reason]
                BY <2>1, <3>2
            <4>4. reason \in BOOLEAN /\ failures \in Nat
                BY <4>1, <4>2
            <4> HIDE DEF reason, failures
            <4>5. rows'[u] \in Row /\ rows'[u].lastRun = rows[t].lastRun
                BY <2>3, <4>3, <4>4 DEF Row
            <4> QED BY <3>2, <4>5 DEF TypeOK
        <3> QED BY <3>1, <3>2
    <2>5. stale' \in [Tasks -> 0..2]
        <3>1. stale' = stale \/ stale' = [stale EXCEPT ![t] = 0]
            <4>1. stale' = [stale EXCEPT ![t] = IF e THEN 0 ELSE @]
                BY <2>1
            <4>2. [stale EXCEPT ![t] = stale[t]] = stale
                BY <2>3
            <4> QED BY <4>1, <4>2
        <3> QED BY <2>3, <3>1
    <2>6. DOMAIN rows' = DOMAIN rows
        BY <2>1
    <2> QED BY <2>2, <2>4, <2>5, <2>6 DEF TypeOK, loopVars
<1>3. CASE Delete(t)
    BY <1>3, SchedulerAssumption DEF Delete, TypeOK, Row, loopVars
<1> QED BY <1>1, <1>2, <1>3

(* What PATCH leaves as it is, and what it may do to the rest.             *)
LEMMA PatchChanges ==
    ASSUME TypeOK, NEW t \in Tasks, Patch(t)
    PROVE  /\ t \in DOMAIN rows
           /\ DOMAIN rows' = DOMAIN rows
           /\ \A u \in DOMAIN rows :
                  /\ u # t => rows'[u] = rows[u]
                  /\ rows'[u].lastRun = rows[u].lastRun
           /\ rows'[t].failures \in {rows[t].failures, 0}
           /\ rows'[t].reason => rows[t].reason
           /\ \/ stale' = [stale EXCEPT ![t] = 0]
              \/ stale' = stale /\ ~rows'[t].enabled
<1>1. PICK e, m, pardoned, cleared \in BOOLEAN, c \in Schedules :
          /\ rows' = [u \in DOMAIN rows |->
                 IF u = t
                 THEN [rows[u] EXCEPT !.enabled = e, !.machine = m, !.schedule = c,
                                      !.failures = IF pardoned THEN 0 ELSE @,
                                      !.reason = @ /\ ~cleared]
                 ELSE rows[u]]
          /\ stale' = [stale EXCEPT ![t] = IF e THEN 0 ELSE @]
    BY DEF Patch
<1>2. t \in DOMAIN rows /\ rows[t] \in Row /\ stale \in [Tasks -> 0..2]
    BY DEF Patch, TypeOK
<1>3. DOMAIN rows' = DOMAIN rows /\ \A u \in DOMAIN rows : u # t => rows'[u] = rows[u]
    BY <1>1
<1>4. rows'[t] = [rows[t] EXCEPT !.enabled = e, !.machine = m, !.schedule = c,
                                 !.failures = IF pardoned THEN 0 ELSE @,
                                 !.reason = @ /\ ~cleared]
    BY <1>1, <1>2
<1>5. /\ rows'[t].lastRun = rows[t].lastRun
      /\ rows'[t].failures \in {rows[t].failures, 0}
      /\ rows'[t].enabled = e
    BY <1>2, <1>4 DEF Row
<1>6. rows'[t].reason => rows[t].reason
    BY <1>2, <1>4 DEF Row
<1>7. (stale' = stale /\ ~e) \/ stale' = [stale EXCEPT ![t] = 0]
    <2>1. stale' = [stale EXCEPT ![t] = IF e THEN 0 ELSE @]
        BY <1>1
    <2>2. [stale EXCEPT ![t] = stale[t]] = stale
        BY <1>2
    <2> QED BY <2>1, <2>2
<1> QED BY <1>2, <1>3, <1>5, <1>6, <1>7

LEMMA ClockTypes == TypeOK /\ Tick => TypeOK'
<1> SUFFICES ASSUME TypeOK, Tick PROVE TypeOK'
    OBVIOUS
<1>1. now' \in Nat \ {0} /\ now <= now'
    BY DEF Tick, TypeOK
<1>2. checkedAt' \in 0..now'
    BY <1>1 DEF Tick, TypeOK, loopVars
<1>3. \A t \in DOMAIN rows : rows[t] \in Row /\ rows[t].lastRun <= now'
    BY <1>1 DEF TypeOK, Row
<1> QED BY <1>1, <1>2, <1>3 DEF Tick, TypeOK, loopVars, api

(* A runner keeps its type when its phase moves on.                        *)
LEMMA StartTypes ==
    ASSUME TypeOK, NEW r \in Runners, NEW t \in Tasks, NEW m \in BOOLEAN,
           NEW f \in Nat, NEW slots \in SUBSET Nat, StartRun(r, t, m, f, slots)
    PROVE  /\ executions' \in Seq(Executions)
           /\ DOMAIN executions \subseteq DOMAIN executions'
           /\ run' \in [Runners -> {NotAsked, Resting} \cup Asked \cup Underway]
<1>1. [task |-> t, trigger |-> "scheduled", status |-> "pending"] \in Executions
    BY DEF Executions
<1>2. /\ executions' \in Seq(Executions)
      /\ DOMAIN executions \subseteq DOMAIN executions'
    BY <1>1, AppendProperties, LenProperties DEF StartRun, Recorded, TypeOK
<1>3. Len(executions) + 1 \in Nat
    BY LenProperties DEF TypeOK
<1>4. run' \in [Runners -> {NotAsked, Resting} \cup Asked \cup Underway]
    BY <1>3 DEF StartRun, TypeOK, Underway
<1> QED BY <1>2, <1>4

LEMMA CloseTypes ==
    ASSUME TypeOK, NEW r \in Runners, NEW status \in {"running", "skipped", "failed"},
           Close(r, status)
    PROVE  executions' \in Seq(Executions) /\ DOMAIN executions' = DOMAIN executions
<1>1. executions \in [1..Len(executions) -> Executions] /\ Len(executions) \in Nat
    BY LenProperties DEF TypeOK
<1>2. executions' \in [1..Len(executions) -> Executions]
    BY <1>1 DEF Close, Executions
<1> QED BY <1>1, <1>2

(* What a runner in each phase is.                                         *)
LEMMA Phases ==
    ASSUME TypeOK, NEW r \in Runners
    PROVE  /\ Busy(r) => run[r] \in Underway
           /\ run[r].phase \in {"asked", "recorded"} => run[r] \in Asked
           /\ run[r].phase \in {"new", "idle", "asked", "recorded",
                                "dispatching", "failed", "storing"}
  BY DEF TypeOK, Busy, Asked, Underway, NotAsked, Resting

RunnerStep(r) ==
    Spawned(r) \/ Skip(r) \/ Raised(r) \/ CountFailure(r) \/ StoreRun(r)

LEMMA RunnerTypes ==
    ASSUME TypeOK, NEW r \in Runners, RunnerStep(r)
    PROVE  TypeOK'
<1> USE DEF api, loopVars
<1>1. run[r] \in Underway
    <2>1. Busy(r)
        BY DEF RunnerStep, Spawned, Skip, Raised, CountFailure, StoreRun, Busy
    <2> QED BY <2>1, Phases
<1>2. CASE Spawned(r) \/ Skip(r) \/ Raised(r)
    <2>1. PICK status \in {"running", "skipped", "failed"} : Close(r, status)
        BY <1>2 DEF Spawned, Skip, Raised
    <2>2. executions' \in Seq(Executions) /\ cut' \subseteq DOMAIN executions'
        BY <1>2, <2>1, CloseTypes DEF TypeOK, Spawned, Skip, Raised
    <2>3. run' \in [Runners -> {NotAsked, Resting} \cup Asked \cup Underway]
        BY <1>1, <1>2 DEF TypeOK, Spawned, Skip, Raised, Underway
    <2> QED BY <1>2, <2>2, <2>3 DEF TypeOK, Spawned, Skip, Raised
<1>3. CASE CountFailure(r)
    <2>1. run[r].failures + 1 \in Nat
        BY <1>1 DEF Underway
    <2>2. ASSUME NEW u \in DOMAIN rows
          PROVE  rows'[u] \in Row /\ rows'[u].lastRun <= now
        BY <1>3, <2>1 DEF CountFailure, TypeOK, Row
    <2>3. run' \in [Runners -> {NotAsked, Resting} \cup Asked \cup Underway]
        BY <1>1, <1>3 DEF TypeOK, CountFailure, Underway
    <2> QED BY <1>3, <2>2, <2>3 DEF TypeOK, CountFailure
<1>4. CASE StoreRun(r)
    <2>1. ASSUME NEW u \in DOMAIN rows
          PROVE  rows'[u] \in Row /\ rows'[u].lastRun <= now
        <3>1. /\ rows[u] \in Row /\ rows[u].lastRun <= now /\ now \in Nat
              /\ \/ rows'[u] = rows[u]
                 \/ rows'[u] = [rows[u] EXCEPT !.lastRun = now]
            BY <1>4 DEF StoreRun, TypeOK
        <3> QED BY <3>1 DEF Row
    <2>2. run' \in [Runners -> {NotAsked, Resting} \cup Asked \cup Underway]
        BY <1>4 DEF TypeOK, StoreRun
    <2>3. served' \in [Tasks -> SUBSET Nat]
        BY <1>1, <1>4 DEF TypeOK, StoreRun, Underway
    <2> QED BY <1>4, <2>1, <2>2, <2>3 DEF TypeOK, StoreRun
<1> QED BY <1>2, <1>3, <1>4 DEF RunnerStep

LEMMA AskTypes ==
    ASSUME TypeOK, NEW r \in Runners,
           (\E t \in Tasks : AskRun(r, t)) \/ RecordAsked(r) \/ StartAsked(r)
    PROVE  TypeOK'
<1> USE DEF api, loopVars
<1>1. ASSUME NEW t \in Tasks, AskRun(r, t) PROVE TypeOK'
    <2>1. rows[t] \in Row
        BY <1>1 DEF AskRun, TypeOK
    <2>2. run' \in [Runners -> {NotAsked, Resting} \cup Asked \cup Underway]
        BY <1>1, <2>1 DEF AskRun, TypeOK, Asked, Row
    <2> QED BY <1>1, <2>2 DEF AskRun, TypeOK
<1>2. CASE RecordAsked(r)
    <2>1. run[r] \in Asked
        BY <1>2, Phases DEF RecordAsked
    <2>2. [task |-> run[r].task, trigger |-> "manual", status |-> "pending"]
              \in Executions
        BY <2>1 DEF Executions, Asked
    <2>3. /\ executions' \in Seq(Executions)
          /\ DOMAIN executions \subseteq DOMAIN executions'
        BY <1>2, <2>2, AppendProperties, LenProperties
        DEF RecordAsked, Recorded, TypeOK
    <2>4. run' \in [Runners -> {NotAsked, Resting} \cup Asked \cup Underway]
        BY <1>2, <2>1 DEF RecordAsked, TypeOK, Asked
    <2> QED BY <1>2, <2>3, <2>4 DEF RecordAsked, TypeOK
<1>3. CASE StartAsked(r)
    <2>1. run[r] \in Asked
        BY <1>3, Phases DEF StartAsked
    <2>2. run[r].task \in Tasks /\ run[r].machine \in BOOLEAN /\ run[r].failures \in Nat
        BY <2>1 DEF Asked
    <2>3. StartRun(r, run[r].task, run[r].machine, run[r].failures, {})
        BY <1>3 DEF StartAsked
    <2>4. /\ executions' \in Seq(Executions)
          /\ DOMAIN executions \subseteq DOMAIN executions'
          /\ run' \in [Runners -> {NotAsked, Resting} \cup Asked \cup Underway]
        BY <2>2, <2>3, StartTypes
    <2> QED BY <1>3, <2>4 DEF StartAsked, TypeOK
<1> QED BY <1>1, <1>2, <1>3

LEMMA LoopTypes ==
    ASSUME TypeOK,
           List \/ Check \/ Sleep \/ (\E x \in todo : Disable(x) \/ RunDue(x))
    PROVE  TypeOK'
<1> USE SchedulerAssumption DEF api, loopVars
<1>1. CASE List
    BY <1>1 DEF List, TypeOK, Selected
<1>2. CASE Check
    BY <1>2 DEF Check, TypeOK
<1>3. CASE Sleep
    BY <1>3 DEF Sleep, TypeOK
<1>4. ASSUME NEW x \in todo, Disable(x) PROVE TypeOK'
    <2>1. ASSUME NEW u \in DOMAIN rows
          PROVE  rows'[u] \in Row /\ rows'[u].lastRun <= now
        BY <1>4 DEF Disable, TypeOK, Row
    <2> QED BY <1>4, <2>1 DEF Disable, TypeOK
<1>5. ASSUME NEW x \in todo, RunDue(x) PROVE TypeOK'
    <2>1. /\ x.task \in Tasks
          /\ x.row.machine \in BOOLEAN
          /\ x.row.failures \in Nat
          /\ DueSlots(x.row, checkedAt) \in SUBSET Nat
        BY DEF TypeOK, Selected, Row, DueSlots
    <2>2. Loop \in Runners
        BY DEF Runners
    <2>3. StartRun(Loop, x.task, x.row.machine, x.row.failures,
                   DueSlots(x.row, checkedAt))
        BY <1>5 DEF RunDue
    <2> HIDE DEF DueSlots
    <2>4. /\ executions' \in Seq(Executions)
          /\ DOMAIN executions \subseteq DOMAIN executions'
          /\ run' \in [Runners -> {NotAsked, Resting} \cup Asked \cup Underway]
        BY <2>1, <2>2, <2>3, StartTypes
    <2>5. stale' \in [Tasks -> 0..2]
        BY <1>5, <2>1 DEF RunDue, TypeOK, AtMost
    <2> QED BY <1>5, <2>4, <2>5 DEF RunDue, TypeOK
<1> QED BY <1>1, <1>2, <1>3, <1>4, <1>5

LEMMA RestartTypes == TypeOK /\ Restart => TypeOK'
  BY DEF Restart, TypeOK, api, NotAsked, Resting

LEMMA NextTypes == TypeOK /\ [Next]_vars => TypeOK'
<1> SUFFICES ASSUME TypeOK, [Next]_vars PROVE TypeOK'
    OBVIOUS
<1>1. CASE UNCHANGED vars
    BY <1>1 DEF vars, TypeOK
<1>2. CASE Next
    BY <1>2, ClockTypes, ApiTypes, RunnerTypes, AskTypes, LoopTypes, RestartTypes
    DEF Next, RunnerStep
<1> QED BY <1>1, <1>2

-----------------------------------------------------------------------------
(* The loop and the rows it has selected.                                  *)

(* Each task is selected once and left behind when it is run; only enabled *)
(* ones outlive the check; the loop runs one task at a time.               *)
LoopInv ==
    /\ \A x, y \in todo : x.task = y.task => x = y
    /\ run[Loop].phase # "idle" => Busy(Loop) /\ loop = "checking"
    /\ Busy(Loop) => run[Loop].task \in made
    /\ Busy(Loop) => \A x \in todo : x.task # run[Loop].task
    /\ loop = "checking" => \A x \in todo : x.row.enabled
    /\ \A x \in todo : x.task \in made
    /\ loop \in {"off", "asleep"} => todo = {}

LEMMA InitLoop == Init => LoopInv
  BY DEF Init, LoopInv, Busy, Resting, Runners

(* The steps that leave the loop's own run and its list alone.             *)
LEMMA AsideLoop ==
    ASSUME LoopInv, run'[Loop] = run[Loop], UNCHANGED <<todo, loop>>,
           made \subseteq made'
    PROVE  LoopInv'
  BY DEF LoopInv, Busy

(* A runner that is asked for by a client is not the loop.                 *)
LEMMA LoopIsNotAsked ==
    ASSUME LoopInv, NEW r \in Runners,
           (\E t \in Tasks : AskRun(r, t)) \/ RecordAsked(r) \/ StartAsked(r)
    PROVE  r \in Manual /\ r # Loop
  BY SchedulerAssumption
  DEF LoopInv, Busy, AskRun, RecordAsked, StartAsked, Runners

LEMMA NextLoop == TypeOK /\ LoopInv /\ [Next]_vars => LoopInv'
<1> SUFFICES ASSUME TypeOK, LoopInv, [Next]_vars PROVE LoopInv'
    OBVIOUS
<1> USE DEF api, loopVars
<1>0. run \in [Runners -> {NotAsked, Resting} \cup Asked \cup Underway] /\ Loop \in Runners
    BY DEF TypeOK, Runners
<1>1. CASE UNCHANGED vars \/ Tick
    BY <1>1, AsideLoop DEF vars, Tick
<1>2. ASSUME NEW t \in Tasks, Create(t) \/ Patch(t) \/ Delete(t) PROVE LoopInv'
    BY <1>2, AsideLoop DEF Create, Patch, Delete
<1>3. ASSUME NEW r \in Runners, RunnerStep(r) PROVE LoopInv'
    <2>1. CASE r # Loop
        <3>1. run'[Loop] = run[Loop]
            BY <1>0, <1>3, <2>1
            DEF RunnerStep, Spawned, Skip, Raised, CountFailure, StoreRun
        <3> QED BY <1>3, <3>1, AsideLoop
            DEF RunnerStep, Spawned, Skip, Raised, CountFailure, StoreRun
    <2>2. CASE r = Loop
        <3>1. /\ Busy(Loop)
              /\ \/ run'[Loop] = Resting
                 \/ /\ run'[Loop].task = run[Loop].task
                    /\ run'[Loop].phase \in {"failed", "storing"}
            <4>1. Busy(Loop)
                BY <1>3, <2>2
                DEF RunnerStep, Spawned, Skip, Raised, CountFailure, StoreRun, Busy
            <4>2. run[Loop] \in Underway
                BY <4>1, <1>0, Phases
            <4> QED BY <1>0, <1>3, <2>2, <4>1, <4>2
                DEF RunnerStep, Spawned, Skip, Raised, CountFailure, StoreRun, Underway
        <3>2. UNCHANGED <<todo, loop, made>>
            BY <1>3 DEF RunnerStep, Spawned, Skip, Raised, CountFailure, StoreRun
        <3> QED BY <3>1, <3>2 DEF LoopInv, Busy, Resting
    <2> QED BY <2>1, <2>2
<1>4. ASSUME NEW r \in Runners,
             (\E t \in Tasks : AskRun(r, t)) \/ RecordAsked(r) \/ StartAsked(r)
      PROVE  LoopInv'
    <2>1. r # Loop
        BY <1>4, LoopIsNotAsked
    <2>2. run'[Loop] = run[Loop]
        BY <1>0, <1>4, <2>1 DEF AskRun, RecordAsked, StartAsked, StartRun
    <2> QED BY <1>4, <2>2, AsideLoop DEF AskRun, RecordAsked, StartAsked
<1>5. CASE List
    BY <1>5 DEF List, LoopInv, Busy, TypeOK
<1>6. CASE Check
    BY <1>6 DEF Check, Concerns, LoopInv, Busy
<1>7. CASE Sleep
    BY <1>7 DEF Sleep, Free, LoopInv, Busy
<1>8. ASSUME NEW x \in todo, Disable(x) PROVE LoopInv'
    BY <1>8 DEF Disable, LoopInv, Busy
<1>9. ASSUME NEW x \in todo, RunDue(x) PROVE LoopInv'
    <2>1. run'[Loop].phase = "dispatching" /\ run'[Loop].task = x.task
        BY <1>0, <1>9 DEF RunDue, StartRun
    <2>2. todo' = todo \ {x} /\ UNCHANGED <<loop, made>> /\ loop = "checking"
        BY <1>9 DEF RunDue, Free
    <2> QED BY <2>1, <2>2 DEF LoopInv, Busy
<1>10. CASE Restart
    <2>1. run'[Loop] = Resting
        BY <1>0, <1>10 DEF Restart, LoopInv, Busy
    <2> QED BY <1>10, <2>1 DEF Restart, LoopInv, Busy, Resting
<1> QED BY <1>1, <1>2, <1>3, <1>4, <1>5, <1>6, <1>7, <1>8, <1>9, <1>10
        DEF Next, RunnerStep

-----------------------------------------------------------------------------
(* The slots that have been served.                                        *)

(* All that t was served for lies at or before last.                       *)
UpTo(t, last) == served[t] # {} => last > 0 /\ \A s \in served[t] : s <= last

(* The date of its last run, in the table and in what the loop selected,   *)
(* covers every slot a task was served for.                                *)
ServedInv ==
    /\ \A t \in Tasks \ made : served[t] = {}
    /\ \A t \in Tasks : \A s \in served[t] : s <= now
    /\ \A t \in DOMAIN rows : UpTo(t, rows[t].lastRun)
    /\ \A x \in todo : UpTo(x.task, x.row.lastRun)
    /\ Busy(Loop) => \A s \in run[Loop].slots : s <= now
    /\ ServedOnce

LEMMA InitServed == Init => ServedInv
  BY DEF Init, ServedInv, UpTo, ServedOnce, Busy, Resting, Runners

(* The steps that serve nothing and select nothing.                        *)
LEMMA AsideServed ==
    ASSUME TypeOK, ServedInv, LoopInv, UNCHANGED <<todo, served, made>>,
           run'[Loop] = run[Loop], now' \in Nat, now <= now',
           \A t \in DOMAIN rows' :
               t \in DOMAIN rows /\ rows'[t].lastRun \in {rows[t].lastRun, now}
    PROVE  ServedInv'
<1>1. ASSUME NEW t \in DOMAIN rows' PROVE UpTo(t, rows'[t].lastRun)
    BY DEF ServedInv, UpTo, TypeOK, Row
<1>2. Busy(Loop) => \A s \in run[Loop].slots : s \in Nat
    BY Phases DEF Busy, Underway, Runners
<1>3. Busy(Loop) => \A s \in run[Loop].slots : s <= now'
    BY <1>2 DEF ServedInv, TypeOK
<1>4. \A t \in Tasks : \A s \in served[t] : s <= now'
    BY DEF ServedInv, TypeOK
<1> QED BY <1>1, <1>3, <1>4 DEF ServedInv, UpTo, ServedOnce, Busy

LEMMA NextServed == TypeOK /\ LoopInv /\ ServedInv /\ [Next]_vars => ServedInv'
<1> SUFFICES ASSUME TypeOK, LoopInv, ServedInv, [Next]_vars PROVE ServedInv'
    OBVIOUS
<1> USE DEF api, loopVars
<1>0. /\ run \in [Runners -> {NotAsked, Resting} \cup Asked \cup Underway]
      /\ Loop \in Runners
      /\ now \in Nat \ {0}
      /\ served \in [Tasks -> SUBSET Nat]
    BY DEF TypeOK, Runners
<1>1. CASE UNCHANGED vars \/ Tick
    BY <1>0, <1>1, AsideServed DEF vars, Tick
<1>2. ASSUME NEW t \in Tasks, Create(t) PROVE ServedInv'
    <2>1. served[t] = {}
        BY <1>2 DEF Create, ServedInv
    <2>2. \A u \in DOMAIN rows' :
              \/ u = t
              \/ u \in DOMAIN rows /\ rows'[u].lastRun = rows[u].lastRun
        BY <1>2 DEF Create
    <2>3. UNCHANGED <<served, todo, run, now>> /\ made' = made \cup {t}
        BY <1>2 DEF Create
    <2> QED BY <2>1, <2>2, <2>3 DEF ServedInv, UpTo, ServedOnce, Busy
<1>3. ASSUME NEW t \in Tasks, Patch(t) \/ Delete(t) PROVE ServedInv'
    <2>1. \A u \in DOMAIN rows' :
              u \in DOMAIN rows /\ rows'[u].lastRun = rows[u].lastRun
        <3>1. CASE Delete(t)
            BY <3>1 DEF Delete
        <3>2. CASE Patch(t)
            BY <3>2, PatchChanges
        <3> QED BY <1>3, <3>1, <3>2
    <2>2. UNCHANGED <<todo, served, made, run, now>>
        BY <1>3 DEF Patch, Delete
    <2> QED BY <1>0, <2>1, <2>2, AsideServed
<1>4. ASSUME NEW r \in Runners, Spawned(r) \/ Skip(r) \/ Raised(r) PROVE ServedInv'
    <2>1. UNCHANGED <<rows, todo, served, made, now>>
        BY <1>4 DEF Spawned, Skip, Raised
    <2>2. CASE r # Loop
        BY <1>0, <1>4, <2>1, <2>2, AsideServed DEF Spawned, Skip, Raised
    <2>3. CASE r = Loop
        <3>1. Busy(Loop) /\ run[Loop] \in Underway
            BY <1>0, <1>4, <2>3, Phases DEF Spawned, Skip, Raised, Busy
        <3>2. \/ run'[Loop] = Resting
              \/ /\ run'[Loop].task = run[Loop].task
                 /\ run'[Loop].slots = run[Loop].slots
            BY <1>0, <1>4, <2>3, <3>1 DEF Spawned, Skip, Raised, Underway
        <3> QED BY <2>1, <3>1, <3>2 DEF ServedInv, ServedOnce, UpTo, Busy, Resting
    <2> QED BY <2>2, <2>3
<1>5. ASSUME NEW r \in Runners, CountFailure(r) PROVE ServedInv'
    <2>1. /\ UNCHANGED <<todo, served, made, now>>
          /\ \A u \in DOMAIN rows' :
                 u \in DOMAIN rows /\ rows'[u].lastRun = rows[u].lastRun
        BY <1>5 DEF CountFailure, TypeOK, Row
    <2>2. /\ run'[Loop].task = run[Loop].task
          /\ run'[Loop].slots = run[Loop].slots
          /\ run[Loop].phase \in {"dispatching", "failed", "storing"}
                 <=> run'[Loop].phase \in {"dispatching", "failed", "storing"}
        <3>1. run[r] \in Underway
            BY <1>5, Phases DEF CountFailure, Busy
        <3> QED BY <1>0, <1>5, <3>1 DEF CountFailure, Underway
    <2> QED BY <2>1, <2>2 DEF ServedInv, ServedOnce, UpTo, Busy
<1>6. ASSUME NEW r \in Runners, StoreRun(r) PROVE ServedInv'
    <2>1. /\ UNCHANGED <<todo, made, now>>
          /\ run'[r] = Resting
          /\ \A q \in Runners : q # r => run'[q] = run[q]
          /\ DOMAIN rows' = DOMAIN rows
          /\ \A u \in DOMAIN rows :
                 IF u = run[r].task THEN rows'[u].lastRun = now
                 ELSE rows'[u].lastRun = rows[u].lastRun
        BY <1>0, <1>6 DEF StoreRun, TypeOK, Row
    <2>2. CASE r # Loop
        <3>1. served' = served
            BY <1>6, <2>2 DEF StoreRun
        <3> QED BY <1>0, <2>1, <2>2, <3>1, AsideServed
    <2>3. CASE r = Loop
        <3>1. Busy(Loop) /\ run[Loop] \in Underway
            BY <1>0, <1>6, <2>3, Phases DEF StoreRun, Busy
        <3>2. run[Loop].task \in Tasks /\ run[Loop].task \in made
            BY <3>1 DEF LoopInv, Underway
        <3>3. served' = [served EXCEPT ![run[Loop].task] = @ \cup run[Loop].slots]
            BY <1>6, <2>3 DEF StoreRun
        <3>4. \A t \in Tasks : \A s \in served'[t] : s <= now
            BY <1>0, <3>1, <3>2, <3>3 DEF ServedInv
        <3>5. ASSUME NEW t \in DOMAIN rows PROVE UpTo(t, rows[t].lastRun)'
            <4>1. t \in Tasks
                BY DEF TypeOK
            <4>2. CASE t = run[Loop].task
                BY <1>0, <2>1, <2>3, <3>4, <4>1, <4>2 DEF UpTo
            <4>3. CASE t # run[Loop].task
                <5>1. served'[t] = served[t] /\ rows'[t].lastRun = rows[t].lastRun
                    BY <1>0, <2>1, <2>3, <3>3, <4>1, <4>3
                <5> QED BY <5>1 DEF ServedInv, UpTo
            <4> QED BY <4>2, <4>3
        <3>6. ASSUME NEW x \in todo PROVE UpTo(x.task, x.row.lastRun)'
            <4>1. x.task # run[Loop].task /\ x.task \in Tasks
                BY <3>1 DEF LoopInv, TypeOK, Selected
            <4>2. served'[x.task] = served[x.task]
                BY <1>0, <3>3, <4>1
            <4> QED BY <4>2 DEF ServedInv, UpTo
        <3>7. \A t \in Tasks \ made : served'[t] = {}
            BY <1>0, <3>2, <3>3 DEF ServedInv
        <3> QED BY <2>1, <2>3, <3>4, <3>5, <3>6, <3>7
            DEF ServedInv, ServedOnce, Busy, Resting
    <2> QED BY <2>2, <2>3
<1>7. ASSUME NEW r \in Runners,
             (\E t \in Tasks : AskRun(r, t)) \/ RecordAsked(r) \/ StartAsked(r)
      PROVE  ServedInv'
    <2>1. r # Loop
        BY <1>7, LoopIsNotAsked
    <2>2. run'[Loop] = run[Loop]
        BY <1>0, <1>7, <2>1 DEF AskRun, RecordAsked, StartAsked, StartRun
    <2> QED BY <1>0, <1>7, <2>2, AsideServed DEF AskRun, RecordAsked, StartAsked
<1>8. CASE List
    <2>1. \A x \in todo' : x.task \in DOMAIN rows /\ x.row = rows[x.task]
        BY <1>8 DEF List
    <2>2. UNCHANGED <<now, rows, made, run, served>>
        BY <1>8 DEF List
    <2> QED BY <2>1, <2>2 DEF ServedInv, UpTo, ServedOnce, Busy
<1>9. CASE Check \/ Sleep
    <2>1. todo' \subseteq todo /\ UNCHANGED <<now, rows, made, run, served>>
        BY <1>9 DEF Check, Sleep
    <2> QED BY <2>1 DEF ServedInv, UpTo, ServedOnce, Busy
<1>10. ASSUME NEW x \in todo, Disable(x) PROVE ServedInv'
    <2>1. todo' \subseteq todo /\ UNCHANGED <<now, made, run, served>>
        BY <1>10 DEF Disable
    <2>2. \A u \in DOMAIN rows' :
              u \in DOMAIN rows /\ rows'[u].lastRun = rows[u].lastRun
        BY <1>10 DEF Disable, TypeOK, Row
    <2> QED BY <2>1, <2>2 DEF ServedInv, UpTo, ServedOnce, Busy
<1>11. ASSUME NEW x \in todo, RunDue(x) PROVE ServedInv'
    <2>1. todo' \subseteq todo /\ UNCHANGED <<now, rows, made, served>>
        BY <1>11 DEF RunDue
    <2>2. run'[Loop].task = x.task /\ run'[Loop].slots = DueSlots(x.row, checkedAt)
        BY <1>0, <1>11 DEF RunDue, StartRun
    <2>3. /\ x.task \in Tasks /\ x.row.lastRun \in Nat
          /\ Slots[x.row.schedule] \subseteq Nat
          /\ checkedAt \in Nat /\ checkedAt <= now
        BY SchedulerAssumption DEF TypeOK, Selected, Row
    <2>4. \A s \in DueSlots(x.row, checkedAt) : s <= now
        BY <1>0, <2>3 DEF DueSlots
    <2>5. DueSlots(x.row, checkedAt) \cap served[x.task] = {}
        BY <1>0, <2>3 DEF DueSlots, Base, ServedInv, UpTo
    <2> QED BY <2>1, <2>2, <2>4, <2>5 DEF ServedInv, UpTo, ServedOnce, Busy
<1>12. CASE Restart
    <2>1. ~Busy(Loop)'
        BY <1>0, <1>12 DEF Restart, Busy, NotAsked, Resting
    <2> QED BY <1>12, <2>1 DEF Restart, ServedInv, UpTo, ServedOnce, Busy
<1> QED BY <1>1, <1>2, <1>3, <1>4, <1>5, <1>6, <1>7, <1>8, <1>9, <1>10, <1>11,
           <1>12 DEF Next

-----------------------------------------------------------------------------
(* Runs of tasks that were disabled or deleted.                            *)

(* None has been run while it is enabled, or as long as the loop has still *)
(* a row of it that says so.                                               *)
StaleInv ==
    /\ StaleRunsOnce
    /\ \A t \in Tasks \ made : stale[t] = 0
    /\ \A t \in DOMAIN rows : rows[t].enabled => stale[t] = 0
    /\ \A x \in todo : x.row.enabled => stale[x.task] = 0

LEMMA InitStale == Init => StaleInv
  BY DEF Init, StaleInv, StaleRunsOnce

LEMMA AsideStale ==
    ASSUME StaleInv, UNCHANGED <<stale, made>>, todo' \subseteq todo,
           \A t \in DOMAIN rows' :
               t \in DOMAIN rows /\ (rows'[t].enabled => rows[t].enabled)
    PROVE  StaleInv'
  BY DEF StaleInv, StaleRunsOnce

LEMMA NextStale == TypeOK /\ LoopInv /\ StaleInv /\ [Next]_vars => StaleInv'
<1> SUFFICES ASSUME TypeOK, LoopInv, StaleInv, [Next]_vars PROVE StaleInv'
    OBVIOUS
<1> USE DEF api, loopVars
<1>0. stale \in [Tasks -> 0..2] /\ \A x \in todo : x.task \in Tasks
    BY DEF TypeOK, Selected
<1>1. CASE UNCHANGED vars \/ Tick
    BY <1>1, AsideStale DEF vars, Tick
<1>2. ASSUME NEW t \in Tasks, Create(t) PROVE StaleInv'
    <2>1. stale[t] = 0
        BY <1>2 DEF Create, StaleInv
    <2>2. \A u \in DOMAIN rows' : u = t \/ (u \in DOMAIN rows /\ rows'[u] = rows[u])
        BY <1>2 DEF Create
    <2>3. UNCHANGED <<stale, todo>> /\ made' = made \cup {t}
        BY <1>2 DEF Create
    <2> QED BY <2>1, <2>2, <2>3 DEF StaleInv, StaleRunsOnce
<1>3. ASSUME NEW t \in Tasks, Patch(t) PROVE StaleInv'
    <2>1. UNCHANGED <<todo, made>>
        BY <1>3 DEF Patch
    <2>2. CASE stale' = [stale EXCEPT ![t] = 0]
        <3>1. \A u \in Tasks : stale'[u] \in {stale[u], 0}
            BY <1>0, <2>2
        <3>2. stale'[t] = 0
            BY <1>0, <2>2
        <3>3. \A u \in DOMAIN rows : u \in Tasks
            BY DEF TypeOK
        <3> QED BY <1>0, <1>3, <2>1, <3>1, <3>2, <3>3, PatchChanges
            DEF StaleInv, StaleRunsOnce
    <2>3. CASE stale' = stale /\ ~rows'[t].enabled
        BY <1>3, <2>1, <2>3, PatchChanges, AsideStale
    <2> QED BY <1>3, <2>2, <2>3, PatchChanges
<1>4. ASSUME NEW t \in Tasks, Delete(t) PROVE StaleInv'
    BY <1>4, AsideStale DEF Delete
<1>5. ASSUME NEW r \in Runners, RunnerStep(r) PROVE StaleInv'
    <2>1. UNCHANGED <<stale, made, todo>>
        BY <1>5 DEF RunnerStep, Spawned, Skip, Raised, CountFailure, StoreRun
    <2>2. \A t \in DOMAIN rows' :
              t \in DOMAIN rows /\ (rows'[t].enabled => rows[t].enabled)
        <3>1. CASE Spawned(r) \/ Skip(r) \/ Raised(r)
            BY <3>1 DEF Spawned, Skip, Raised
        <3>2. CASE CountFailure(r)
            BY <3>2 DEF CountFailure, TypeOK, Row
        <3>3. CASE StoreRun(r)
            BY <3>3 DEF StoreRun, TypeOK, Row
        <3> QED BY <1>5, <3>1, <3>2, <3>3 DEF RunnerStep
    <2> QED BY <2>1, <2>2, AsideStale
<1>6. ASSUME NEW r \in Runners,
             (\E t \in Tasks : AskRun(r, t)) \/ RecordAsked(r) \/ StartAsked(r)
      PROVE  StaleInv'
    BY <1>6, AsideStale DEF AskRun, RecordAsked, StartAsked
<1>7. CASE List
    <2>1. \A x \in todo' : x.task \in DOMAIN rows /\ x.row = rows[x.task]
        BY <1>7 DEF List
    <2> QED BY <1>7, <2>1 DEF List, StaleInv, StaleRunsOnce
<1>8. CASE Check \/ Sleep
    BY <1>8, AsideStale DEF Check, Sleep
<1>9. ASSUME NEW x \in todo, Disable(x) PROVE StaleInv'
    <2>1. \A t \in DOMAIN rows' :
              t \in DOMAIN rows /\ (rows'[t].enabled => rows[t].enabled)
        BY <1>9 DEF Disable, TypeOK, Row
    <2> QED BY <1>9, <2>1, AsideStale DEF Disable
<1>10. ASSUME NEW x \in todo, RunDue(x) PROVE StaleInv'
    <2>1. todo' = todo \ {x} /\ UNCHANGED <<rows, made>> /\ loop = "checking"
        BY <1>10 DEF RunDue, Free
    <2>2. CASE stale' = stale
        BY <2>1, <2>2, AsideStale
    <2>3. CASE /\ ~(x.task \in DOMAIN rows /\ rows[x.task].enabled)
               /\ stale' = [stale EXCEPT ![x.task] = AtMost(@ + 1, 2)]
        <3>1. stale[x.task] = 0 /\ x.task \in made
            BY <2>1 DEF StaleInv, LoopInv
        <3>2. stale'[x.task] = 1 /\ \A t \in Tasks : t # x.task => stale'[t] = stale[t]
            BY <1>0, <2>3, <3>1 DEF AtMost
        <3>3. \A y \in todo' : y.task # x.task
            BY <2>1 DEF LoopInv
        <3>4. \A t \in DOMAIN rows : t \in Tasks
            BY DEF TypeOK
        <3> QED BY <1>0, <2>1, <2>3, <3>1, <3>2, <3>3, <3>4 DEF StaleInv, StaleRunsOnce
    <2> QED BY <1>10, <2>2, <2>3 DEF RunDue
<1>11. CASE Restart
    BY <1>11, AsideStale DEF Restart
<1> QED BY <1>1, <1>2, <1>3, <1>4, <1>5, <1>6, <1>7, <1>8, <1>9, <1>10, <1>11
        DEF Next, RunnerStep

-----------------------------------------------------------------------------
(* Runs and their records.                                                 *)

(* Each run holds a record of its task of its own, pending exactly while   *)
(* it dispatches.                                                          *)
ExecInv ==
    /\ \A r \in Runners : Busy(r) =>
           /\ run[r].exec \in DOMAIN executions
           /\ executions[run[r].exec].task = run[r].task
           /\ run[r].phase = "dispatching" <=> executions[run[r].exec].status = "pending"
    /\ \A r, q \in Runners : Busy(r) /\ Busy(q) /\ run[r].exec = run[q].exec => r = q
    /\ PendingExplained

LEMMA InitExec == Init => ExecInv
  BY DEF Init, ExecInv, PendingExplained, Busy, NotAsked, Resting

(* The steps that leave the records and the runs that hold them alone.     *)
LEMMA AsideExec ==
    ASSUME ExecInv, UNCHANGED <<executions, cut>>,
           \A r \in Runners : run'[r] = run[r] \/ (~Busy(r) /\ ~Busy(r)')
    PROVE  ExecInv'
<1>1. ASSUME NEW r \in Runners, Busy(r)' PROVE run'[r] = run[r] /\ Busy(r)
    BY <1>1 DEF Busy
<1>2. ASSUME NEW r \in Runners, NEW i, Holds(r, i) PROVE Holds(r, i)'
    BY <1>2 DEF Holds, Busy
<1>3. PendingExplained'
    BY <1>2 DEF ExecInv, PendingExplained
<1> QED BY <1>1, <1>3 DEF ExecInv

(* Closing a record touches no other.                                      *)
LEMMA ClosedRecord ==
    ASSUME TypeOK, ExecInv, NEW r \in Runners, Busy(r),
           NEW status \in {"running", "skipped", "failed"}, Close(r, status)
    PROVE  /\ DOMAIN executions' = DOMAIN executions
           /\ \A i \in DOMAIN executions :
                  i # run[r].exec => executions'[i] = executions[i]
           /\ executions'[run[r].exec].task = run[r].task
           /\ executions'[run[r].exec].trigger = executions[run[r].exec].trigger
           /\ executions'[run[r].exec].status = status
<1>1. executions \in [1..Len(executions) -> Executions]
    BY LenProperties DEF TypeOK
<1>2. run[r].exec \in DOMAIN executions /\ executions[run[r].exec].task = run[r].task
    BY DEF ExecInv
<1>3. executions[run[r].exec] \in Executions
    BY <1>1, <1>2
<1> QED BY <1>1, <1>2, <1>3 DEF Close, Executions

(* A new record comes after all the others.                                *)
LEMMA NewRecord ==
    ASSUME TypeOK, NEW t, NEW trigger, executions' = Recorded(t, trigger)
    PROVE  /\ Len(executions) + 1 \notin DOMAIN executions
           /\ DOMAIN executions' = DOMAIN executions \cup {Len(executions) + 1}
           /\ \A i \in DOMAIN executions : executions'[i] = executions[i]
           /\ executions'[Len(executions) + 1] =
                  [task |-> t, trigger |-> trigger, status |-> "pending"]
<1>1. Len(executions) \in Nat /\ DOMAIN executions = 1..Len(executions)
    BY LenProperties DEF TypeOK
<1> QED BY <1>1 DEF Recorded

(* A run that begins holds the new record.                                 *)
LEMMA StartExec ==
    ASSUME TypeOK, ExecInv, NEW r \in Runners, ~Busy(r), UNCHANGED cut,
           NEW t, NEW m, NEW f, NEW slots, StartRun(r, t, m, f, slots)
    PROVE  ExecInv'
<1>0. PICK new : new = Len(executions) + 1
    OBVIOUS
<1>1. /\ new \notin DOMAIN executions
      /\ DOMAIN executions' = DOMAIN executions \cup {new}
      /\ \A i \in DOMAIN executions : executions'[i] = executions[i]
      /\ executions'[new] = [task |-> t, trigger |-> "scheduled", status |-> "pending"]
    BY <1>0, NewRecord DEF StartRun
<1>2. /\ \A q \in Runners : q # r => run'[q] = run[q]
      /\ run'[r].phase = "dispatching" /\ run'[r].task = t /\ run'[r].exec = new
    BY <1>0 DEF StartRun, TypeOK
<1>3. \A q \in Runners : q # r /\ Busy(q)' => Busy(q) /\ run'[q].exec # new
    BY <1>1, <1>2 DEF Busy, ExecInv
<1>4. ASSUME NEW q \in Runners, Busy(q)'
      PROVE  /\ run'[q].exec \in DOMAIN executions'
             /\ executions'[run'[q].exec].task = run'[q].task
             /\ run'[q].phase = "dispatching" <=>
                    executions'[run'[q].exec].status = "pending"
    BY <1>1, <1>2, <1>3, <1>4 DEF ExecInv
<1>5. ASSUME NEW p \in Runners, NEW q \in Runners,
             Busy(p)', Busy(q)', run'[p].exec = run'[q].exec
      PROVE  p = q
    BY <1>2, <1>3, <1>5 DEF ExecInv
<1>6. ASSUME NEW q \in Runners, NEW i, Holds(q, i) PROVE Holds(q, i)'
    BY <1>2, <1>6 DEF Holds, Busy
<1>7. Holds(r, new)'
    BY <1>2 DEF Holds
<1>8. PendingExplained'
    BY <1>1, <1>6, <1>7 DEF ExecInv, PendingExplained
<1> QED BY <1>4, <1>5, <1>8 DEF ExecInv

LEMMA NextExec == TypeOK /\ LoopInv /\ ExecInv /\ [Next]_vars => ExecInv'
<1> SUFFICES ASSUME TypeOK, LoopInv, ExecInv, [Next]_vars PROVE ExecInv'
    OBVIOUS
<1> USE DEF api, loopVars
<1>0. /\ run \in [Runners -> {NotAsked, Resting} \cup Asked \cup Underway]
      /\ Loop \in Runners
    BY DEF TypeOK, Runners
<1>1. CASE UNCHANGED vars \/ Tick
    BY <1>1, AsideExec DEF vars, Tick
<1>2. ASSUME NEW t \in Tasks, Create(t) \/ Patch(t) \/ Delete(t) PROVE ExecInv'
    <2>1. UNCHANGED <<executions, cut, run>>
        BY <1>2 DEF Create, Patch, Delete
    <2> QED BY <2>1, AsideExec
<1>3. ASSUME NEW r \in Runners, Spawned(r) \/ Skip(r) \/ Raised(r) PROVE ExecInv'
    <2>1. Busy(r) /\ run[r] \in Underway /\ UNCHANGED cut
        BY <1>0, <1>3, Phases DEF Spawned, Skip, Raised, Busy
    <2>2. PICK status \in {"running", "skipped", "failed"} : Close(r, status)
        BY <1>3 DEF Spawned, Skip, Raised
    <2>3. /\ DOMAIN executions' = DOMAIN executions
          /\ \A i \in DOMAIN executions :
                 i # run[r].exec => executions'[i] = executions[i]
          /\ executions'[run[r].exec].task = run[r].task
          /\ executions'[run[r].exec].status = status
        BY <2>1, <2>2, ClosedRecord
    <2>4. /\ \A q \in Runners : q # r => run'[q] = run[q]
          /\ \/ run'[r] = Resting
             \/ /\ run'[r].phase \in {"failed", "storing"}
                /\ run'[r].task = run[r].task
                /\ run'[r].exec = run[r].exec
        BY <1>0, <1>3, <2>1 DEF Spawned, Skip, Raised, Underway
    <2>5. ASSUME NEW q \in Runners, Busy(q)'
          PROVE  /\ Busy(q)
                 /\ run'[q].exec = run[q].exec
                 /\ run'[q].task = run[q].task
                 /\ q = r => run'[q].phase # "dispatching"
                 /\ q # r => run'[q] = run[q]
        BY <2>1, <2>4, <2>5 DEF Busy, Resting
    <2>6. ASSUME NEW q \in Runners, Busy(q)'
          PROVE  /\ run'[q].exec \in DOMAIN executions'
                 /\ executions'[run'[q].exec].task = run'[q].task
                 /\ run'[q].phase = "dispatching" <=>
                        executions'[run'[q].exec].status = "pending"
        BY <2>1, <2>3, <2>5, <2>6 DEF ExecInv
    <2>7. ASSUME NEW p \in Runners, NEW q \in Runners,
                 Busy(p)', Busy(q)', run'[p].exec = run'[q].exec
          PROVE  p = q
        BY <2>5, <2>7 DEF ExecInv
    <2>8. ASSUME NEW i \in DOMAIN executions, i # run[r].exec,
                 NEW q \in Runners, Holds(q, i)
          PROVE  Holds(q, i)'
        BY <2>4, <2>8 DEF Holds
    <2>9. PendingExplained'
        <3>1. ASSUME NEW i \in DOMAIN executions', executions'[i].status = "pending"
              PROVE  i \in DOMAIN executions /\ i # run[r].exec /\ executions'[i] = executions[i]
            BY <2>3, <3>1
        <3> QED BY <2>1, <2>8, <3>1 DEF ExecInv, PendingExplained
    <2> QED BY <2>6, <2>7, <2>9 DEF ExecInv
<1>4. ASSUME NEW r \in Runners, CountFailure(r) \/ StoreRun(r) PROVE ExecInv'
    <2>1. Busy(r) /\ run[r] \in Underway /\ run[r].phase # "dispatching"
        BY <1>4, Phases DEF CountFailure, StoreRun, Busy
    <2>2. UNCHANGED <<executions, cut>>
        BY <1>4 DEF CountFailure, StoreRun
    <2>3. /\ \A q \in Runners : q # r => run'[q] = run[q]
          /\ \/ run'[r] = Resting
             \/ /\ run'[r].phase = "storing"
                /\ run'[r].task = run[r].task
                /\ run'[r].exec = run[r].exec
        BY <1>0, <1>4, <2>1 DEF CountFailure, StoreRun, Underway
    <2>4. ASSUME NEW q \in Runners, Busy(q)'
          PROVE  /\ Busy(q)
                 /\ run'[q].exec = run[q].exec
                 /\ run'[q].task = run[q].task
                 /\ run'[q].phase = "dispatching" <=> run[q].phase = "dispatching"
        BY <2>1, <2>3, <2>4 DEF Busy, Resting
    <2>5. ASSUME NEW q \in Runners, Busy(q)'
          PROVE  /\ run'[q].exec \in DOMAIN executions'
                 /\ executions'[run'[q].exec].task = run'[q].task
                 /\ run'[q].phase = "dispatching" <=>
                        executions'[run'[q].exec].status = "pending"
        BY <2>2, <2>4, <2>5 DEF ExecInv
    <2>6. ASSUME NEW p \in Runners, NEW q \in Runners,
                 Busy(p)', Busy(q)', run'[p].exec = run'[q].exec
          PROVE  p = q
        BY <2>4, <2>6 DEF ExecInv
    <2>7. executions[run[r].exec].status # "pending"
        BY <2>1 DEF ExecInv
    <2>8. ASSUME NEW i \in DOMAIN executions, i # run[r].exec,
                 NEW q \in Runners, Holds(q, i)
          PROVE  Holds(q, i)'
        BY <2>3, <2>8 DEF Holds
    <2>9. PendingExplained'
        BY <2>2, <2>7, <2>8 DEF ExecInv, PendingExplained
    <2> QED BY <2>5, <2>6, <2>9 DEF ExecInv
<1>5. ASSUME NEW r \in Runners, NEW t \in Tasks, AskRun(r, t) PROVE ExecInv'
    <2>1. ~Busy(r) /\ run'[r].phase = "asked" /\ UNCHANGED <<executions, cut>>
        BY <1>0, <1>5 DEF AskRun, Busy
    <2>2. \A q \in Runners : q # r => run'[q] = run[q]
        BY <1>0, <1>5 DEF AskRun
    <2>3. ~Busy(r)'
        BY <2>1 DEF Busy
    <2> QED BY <2>1, <2>2, <2>3, AsideExec
<1>6. ASSUME NEW r \in Runners, RecordAsked(r) PROVE ExecInv'
    <2> DEFINE new == Len(executions) + 1
    <2>1. /\ new \notin DOMAIN executions
          /\ DOMAIN executions' = DOMAIN executions \cup {new}
          /\ \A i \in DOMAIN executions : executions'[i] = executions[i]
          /\ executions'[new] =
                 [task |-> run[r].task, trigger |-> "manual", status |-> "pending"]
        BY <1>6, NewRecord DEF RecordAsked
    <2> HIDE DEF new
    <2>2. \A q \in Runners : Busy(q)' => run'[q] = run[q] /\ Busy(q)
        BY <1>0, <1>6, Phases DEF RecordAsked, Busy, Asked
    <2>3. ASSUME NEW q \in Runners, NEW i, Holds(q, i) PROVE Holds(q, i)'
        BY <1>0, <1>6, <2>3 DEF RecordAsked, Holds
    <2>4. PendingExplained'
        BY <1>6, <2>1, <2>3 DEF RecordAsked, ExecInv, PendingExplained
    <2> QED BY <2>1, <2>2, <2>4 DEF ExecInv
<1>7. ASSUME NEW r \in Runners, StartAsked(r) PROVE ExecInv'
    <2>1. ~Busy(r) /\ UNCHANGED cut
          /\ StartRun(r, run[r].task, run[r].machine, run[r].failures, {})
        BY <1>7 DEF StartAsked, Busy
    <2> QED BY <2>1, StartExec
<1>8. CASE List \/ Check \/ Sleep \/ \E x \in todo : Disable(x)
    BY <1>8, AsideExec DEF List, Check, Sleep, Disable
<1>9. ASSUME NEW x \in todo, RunDue(x) PROVE ExecInv'
    <2>1. ~Busy(Loop) /\ UNCHANGED cut
          /\ StartRun(Loop, x.task, x.row.machine, x.row.failures,
                      DueSlots(x.row, checkedAt))
        BY <1>9 DEF RunDue, Free, Busy
    <2> QED BY <1>0, <2>1, StartExec
<1>10. CASE Restart
    <2>1. \A r \in Runners : ~Busy(r)'
        BY <1>10 DEF Restart, Busy, NotAsked, Resting
    <2>2. UNCHANGED executions
        BY <1>10 DEF Restart
    <2>3. \A i \in DOMAIN executions :
              i \in cut' <=> i \in cut \/ \E r \in Runners : Holds(r, i)
        BY <1>10 DEF Restart, TypeOK
    <2>4. PendingExplained'
        BY <2>2, <2>3 DEF ExecInv, PendingExplained
    <2> QED BY <2>1, <2>4 DEF ExecInv
<1> QED BY <1>1, <1>2, <1>3, <1>4, <1>5, <1>6, <1>7, <1>8, <1>9, <1>10 DEF Next

-----------------------------------------------------------------------------
(* Failures and their count.                                               *)

Fails(t) == Cardinality(Failed(t))

(* Whatever says how often a task has failed - its row, what the loop      *)
(* selected, what a run was given and will count on - says no more than    *)
(* the history shows, a failure that is still to be counted included.      *)
CountInv ==
    /\ CountedFailuresHappened
    /\ DisabledHasFailed
    /\ \A x \in todo : x.row.failures <= Fails(x.task)
    /\ \A r \in Runners : run[r].phase \in {"asked", "recorded", "dispatching"}
           => run[r].failures <= Fails(run[r].task)
    /\ \A r \in Runners : run[r].phase = "failed"
           => run[r].failures + 1 <= Fails(run[r].task)

LEMMA InitCount == Init => CountInv
  BY DEF Init, CountInv, CountedFailuresHappened, DisabledHasFailed, NotAsked, Resting

LEMMA FailedFinite ==
    ASSUME TypeOK, NEW t PROVE IsFiniteSet(Failed(t)) /\ Fails(t) \in Nat
<1>1. Failed(t) \subseteq 1..Len(executions) /\ Len(executions) \in Nat
    BY LenProperties DEF Failed, TypeOK
<1>2. IsFiniteSet(1..Len(executions))
    BY <1>1, FS_Interval
<1> QED BY <1>1, <1>2, FS_Subset, FS_CardinalityType DEF Fails

(* No step takes a failure back, and a dispatch that raises adds one.      *)
LEMMA FailsGrow ==
    ASSUME TypeOK, LoopInv, ExecInv, [Next]_vars
    PROVE  /\ \A t : Fails(t) \in Nat /\ Fails(t)' \in Nat /\ Fails(t) <= Fails(t)'
           /\ \A r \in Runners, t \in Tasks :
                  Raised(r) /\ run[r].task = t => Fails(t)' = Fails(t) + 1
<1> USE DEF api, loopVars
<1>1. TypeOK'
    BY NextTypes
<1>2. ASSUME NEW r \in Runners, NEW status \in {"running", "skipped", "failed"},
             run[r].phase = "dispatching", Close(r, status)
      PROVE  /\ \A t : Failed(t) \subseteq Failed(t)'
             /\ \A t, i : /\ status = "failed"
                         /\ t = run[r].task
                         /\ i = run[r].exec
                 => i \notin Failed(t) /\ Failed(t)' = Failed(t) \cup {i}
    <2>1. /\ Busy(r) /\ run[r].exec \in DOMAIN executions
          /\ executions[run[r].exec].task = run[r].task
          /\ executions[run[r].exec].status = "pending"
        BY <1>2 DEF ExecInv, Busy
    <2>2. /\ DOMAIN executions' = DOMAIN executions
          /\ \A i \in DOMAIN executions :
                 i # run[r].exec => executions'[i] = executions[i]
          /\ executions'[run[r].exec].task = run[r].task
          /\ executions'[run[r].exec].status = status
        BY <1>2, <2>1, ClosedRecord
    <2>3. ASSUME NEW t PROVE Failed(t) \subseteq Failed(t)'
        BY <2>1, <2>2 DEF Failed
    <2>4. ASSUME NEW t, NEW i, status = "failed", t = run[r].task, i = run[r].exec
          PROVE  i \notin Failed(t) /\ Failed(t)' = Failed(t) \cup {i}
        BY <2>1, <2>2, <2>4 DEF Failed
    <2> QED BY <2>3, <2>4
<1>3. ASSUME NEW t0, NEW trigger, executions' = Recorded(t0, trigger)
      PROVE  \A t : Failed(t) \subseteq Failed(t)'
    BY <1>3, NewRecord DEF Failed
<1>4. ASSUME NEW t PROVE Failed(t) \subseteq Failed(t)'
    <2>1. CASE UNCHANGED executions
        BY <2>1 DEF Failed
    <2>2. ASSUME NEW r \in Runners, Spawned(r) \/ Skip(r) \/ Raised(r)
          PROVE  Failed(t) \subseteq Failed(t)'
        BY <1>2, <2>2 DEF Spawned, Skip, Raised
    <2>3. ASSUME NEW r \in Runners, RecordAsked(r) \/ StartAsked(r)
          PROVE  Failed(t) \subseteq Failed(t)'
        BY <1>3, <2>3 DEF RecordAsked, StartAsked, StartRun
    <2>4. ASSUME NEW x \in todo, RunDue(x)
          PROVE  Failed(t) \subseteq Failed(t)'
        BY <1>3, <2>4 DEF RunDue, StartRun
    <2>5. \/ UNCHANGED executions
          \/ \E r \in Runners : Spawned(r) \/ Skip(r) \/ Raised(r)
          \/ \E r \in Runners : RecordAsked(r) \/ StartAsked(r)
          \/ \E x \in todo : RunDue(x)
        BY DEF Next, vars, Tick, Create, Patch, Delete, CountFailure, StoreRun,
               AskRun, List, Check, Sleep, Disable, Restart
    <2> QED BY <2>1, <2>2, <2>3, <2>4, <2>5
<1>5. \A t : /\ IsFiniteSet(Failed(t)) /\ Fails(t) \in Nat
             /\ IsFiniteSet(Failed(t)') /\ Fails(t)' \in Nat
    <2>1. \A t : IsFiniteSet(Failed(t)) /\ Fails(t) \in Nat
        BY FailedFinite
    <2>2. ASSUME TypeOK' PROVE \A t : IsFiniteSet(Failed(t)') /\ Fails(t)' \in Nat
        <3>1. /\ \A t : Failed(t)' \subseteq 1..Len(executions')
              /\ Len(executions') \in Nat
            BY <2>2, LenProperties DEF Failed, TypeOK
        <3>2. IsFiniteSet(1..Len(executions'))
            BY <3>1, FS_Interval
        <3> QED BY <3>1, <3>2, FS_Subset, FS_CardinalityType DEF Fails
    <2> QED BY <1>1, <2>1, <2>2
<1>6. \A t : Fails(t) <= Fails(t)'
    BY <1>4, <1>5, FS_Subset DEF Fails
<1>7. ASSUME NEW r \in Runners, NEW t \in Tasks, Raised(r), run[r].task = t
      PROVE  Fails(t)' = Fails(t) + 1
    <2>1. PICK i : i = run[r].exec
        OBVIOUS
    <2>2. i \notin Failed(t) /\ Failed(t)' = Failed(t) \cup {i}
        BY <1>2, <1>7, <2>1 DEF Raised
    <2> QED BY <1>5, <2>2, FS_AddElement DEF Fails
<1> QED BY <1>5, <1>6, <1>7

(* What a step has to keep: a count that it passes on is one it was given,  *)
(* or one the history bears out.                                           *)
LEMMA CountStep ==
    ASSUME TypeOK, CountInv,
           \A t : Fails(t) \in Nat /\ Fails(t)' \in Nat /\ Fails(t) <= Fails(t)',
           \A t \in DOMAIN rows' :
               /\ rows'[t].failures <= Fails(t)'
               /\ rows'[t].reason => Fails(t)' >= MaxFailures,
           \A x \in todo' :
               x \in todo \/ \E t : x.task = t /\ x.row.failures <= Fails(t)',
           \A r \in Runners :
               \/ run'[r] = run[r]
               \/ run'[r].phase \in {"new", "idle", "storing"}
               \/ \E t : /\ run'[r].task = t
                         /\ run'[r].failures \in Nat
                         /\ run'[r].failures
                                + (IF run'[r].phase = "failed" THEN 1 ELSE 0)
                                <= Fails(t)'
    PROVE  CountInv'
<1>1. ASSUME NEW x \in todo' PROVE x.row.failures <= Fails(x.task)'
    <2>1. CASE x \in todo
        <3>1. x.row.failures \in Nat /\ x.row.failures <= Fails(x.task)
            BY <2>1 DEF TypeOK, Selected, Row, CountInv
        <3> QED BY <3>1
    <2> QED BY <2>1
<1>2. ASSUME NEW r \in Runners,
             run[r].phase \in {"asked", "recorded", "dispatching", "failed"}
      PROVE  /\ run[r].failures \in Nat
             /\ run[r].failures <= Fails(run[r].task)
             /\ run[r].phase = "failed" => run[r].failures + 1 <= Fails(run[r].task)
    BY <1>2, Phases DEF Busy, Asked, Underway, CountInv
<1>3. ASSUME NEW r \in Runners,
             run'[r].phase \in {"asked", "recorded", "dispatching", "failed"}
      PROVE  \E t : /\ run'[r].task = t
                    /\ run'[r].failures \in Nat
                    /\ run'[r].failures <= Fails(t)'
                    /\ run'[r].phase = "failed" => run'[r].failures + 1 <= Fails(t)'
    <2>1. CASE run'[r] = run[r]
        <3>1. PICK t : t = run[r].task
            OBVIOUS
        <3>2. /\ run[r].failures \in Nat
              /\ run[r].failures <= Fails(t)'
              /\ run[r].phase = "failed" => run[r].failures + 1 <= Fails(t)'
            BY <1>2, <1>3, <2>1, <3>1
        <3> QED BY <2>1, <3>1, <3>2
    <2>2. CASE \E t : /\ run'[r].task = t
                      /\ run'[r].failures \in Nat
                      /\ run'[r].failures
                             + (IF run'[r].phase = "failed" THEN 1 ELSE 0)
                             <= Fails(t)'
        BY <2>2
    <2> QED BY <1>3, <2>1, <2>2
<1>4. ASSUME NEW r \in Runners, run'[r].phase \in {"asked", "recorded", "dispatching"}
      PROVE  run'[r].failures <= Fails(run[r].task)'
    BY <1>3, <1>4
<1>5. ASSUME NEW r \in Runners, run'[r].phase = "failed"
      PROVE  run'[r].failures + 1 <= Fails(run[r].task)'
    BY <1>3, <1>5
<1> QED BY <1>1, <1>4, <1>5
        DEF CountInv, CountedFailuresHappened, DisabledHasFailed, Fails

(* The steps that give no one a new count.                                 *)
LEMMA AsideCount ==
    ASSUME TypeOK, CountInv, todo' \subseteq todo,
           \A t : Fails(t) \in Nat /\ Fails(t)' \in Nat /\ Fails(t) <= Fails(t)',
           \A t \in DOMAIN rows' :
               /\ t \in DOMAIN rows
               /\ rows'[t].failures \in {rows[t].failures, 0}
               /\ rows'[t].reason => rows[t].reason,
           \A r \in Runners :
               \/ run'[r] = run[r]
               \/ run'[r].phase \in {"new", "idle", "storing"}
    PROVE  CountInv'
<1>1. ASSUME NEW t \in DOMAIN rows'
      PROVE  /\ rows'[t].failures <= Fails(t)'
             /\ rows'[t].reason => Fails(t)' >= MaxFailures
    <2>1. rows[t].failures \in Nat /\ rows[t].failures <= Fails(t)
        BY DEF TypeOK, Row, CountInv, CountedFailuresHappened, Fails
    <2>2. rows[t].reason => Fails(t) >= MaxFailures
        BY DEF CountInv, DisabledHasFailed, Fails
    <2> QED BY <2>1, <2>2, SchedulerAssumption
<1> QED BY <1>1, CountStep

LEMMA NextCount == TypeOK /\ LoopInv /\ ExecInv /\ CountInv /\ [Next]_vars => CountInv'
<1> SUFFICES ASSUME TypeOK, LoopInv, ExecInv, CountInv, [Next]_vars PROVE CountInv'
    OBVIOUS
<1> USE DEF api, loopVars
<1>0. /\ run \in [Runners -> {NotAsked, Resting} \cup Asked \cup Underway]
      /\ Loop \in Runners
      /\ \A t : Fails(t) \in Nat /\ Fails(t)' \in Nat /\ Fails(t) <= Fails(t)'
    BY FailsGrow DEF TypeOK, Runners
<1>r. \A t \in DOMAIN rows :
          /\ t \in Tasks
          /\ rows[t].failures \in Nat
          /\ rows[t].failures <= Fails(t)
          /\ rows[t].reason => Fails(t) >= MaxFailures
    BY DEF TypeOK, Row, CountInv, CountedFailuresHappened, DisabledHasFailed, Fails
<1>1. CASE UNCHANGED vars \/ Tick
    BY <1>0, <1>1, AsideCount DEF vars, Tick
<1>2. ASSUME NEW t \in Tasks, Create(t) PROVE CountInv'
    <2>1. /\ UNCHANGED <<todo, run>>
          /\ \A u \in DOMAIN rows' :
                 \/ u \in DOMAIN rows /\ rows'[u] = rows[u]
                 \/ rows'[u].failures = 0 /\ rows'[u].reason = FALSE
        BY <1>2 DEF Create
    <2>2. UNCHANGED executions
        BY <1>2 DEF Create
    <2>3. \A u : Fails(u)' = Fails(u) /\ Failed(u)' = Failed(u)
        BY <2>2 DEF Fails, Failed
    <2>4. \A u \in DOMAIN rows' :
              rows'[u].failures <= Fails(u) /\ (rows'[u].reason => Fails(u) >= MaxFailures)
        BY <1>0, <1>r, <2>1
    <2> QED BY <2>1, <2>3, <2>4
            DEF CountInv, CountedFailuresHappened, DisabledHasFailed, Fails
<1>3. ASSUME NEW t \in Tasks, Patch(t) PROVE CountInv'
    <2>1. UNCHANGED <<todo, run>>
        BY <1>3 DEF Patch
    <2> QED BY <1>0, <1>3, <2>1, PatchChanges, AsideCount
<1>4. ASSUME NEW t \in Tasks, Delete(t) PROVE CountInv'
    BY <1>0, <1>4, AsideCount DEF Delete
<1>5. ASSUME NEW r \in Runners, Spawned(r) \/ Skip(r) \/ StoreRun(r) PROVE CountInv'
    <2>1. run'[r].phase \in {"idle", "storing"} /\ todo' = todo
        BY <1>0, <1>5, Phases DEF Spawned, Skip, StoreRun, Resting, Busy, Underway
    <2>2. \A q \in Runners : q # r => run'[q] = run[q]
        BY <1>0, <1>5 DEF Spawned, Skip, StoreRun
    <2>3. \A t \in DOMAIN rows' :
              /\ t \in DOMAIN rows
              /\ rows'[t].failures = rows[t].failures
              /\ rows'[t].reason => rows[t].reason
        <3>1. CASE Spawned(r) \/ Skip(r)
            BY <3>1 DEF Spawned, Skip
        <3>2. CASE StoreRun(r)
            BY <3>2 DEF StoreRun, TypeOK, Row
        <3> QED BY <1>5, <3>1, <3>2
    <2> QED BY <1>0, <2>1, <2>2, <2>3, AsideCount
<1>6. ASSUME NEW r \in Runners, Raised(r) PROVE CountInv'
    <2>1. PICK t \in Tasks : t = run[r].task
        BY <1>6, Phases DEF Raised, Busy, Underway
    <2>2. Fails(t)' = Fails(t) + 1
        BY <1>6, <2>1, FailsGrow
    <2>3. /\ run[r].failures \in Nat
          /\ run[r].failures <= Fails(t)
        BY <1>6, <2>1, Phases DEF Raised, Busy, Underway, CountInv
    <2>4. /\ run'[r].phase = "failed" /\ run'[r].task = t
          /\ run'[r].failures = run[r].failures
          /\ \A q \in Runners : q # r => run'[q] = run[q]
          /\ UNCHANGED <<todo, rows>>
        BY <1>0, <1>6, <2>1, Phases DEF Raised, Busy, Underway
    <2>5. run'[r].failures + (IF run'[r].phase = "failed" THEN 1 ELSE 0) <= Fails(t)'
        BY <1>0, <2>2, <2>3, <2>4
    <2>6. \A u \in DOMAIN rows' :
              /\ rows'[u].failures <= Fails(u)'
              /\ rows'[u].reason => Fails(u)' >= MaxFailures
        BY <1>0, <1>r, <2>4, SchedulerAssumption
    <2> QED BY <1>0, <2>3, <2>4, <2>5, <2>6, CountStep
<1>7. ASSUME NEW r \in Runners, CountFailure(r) PROVE CountInv'
    <2>1. PICK t \in Tasks : t = run[r].task
        BY <1>7, Phases DEF CountFailure, Busy, Underway
    <2>2. run[r].failures \in Nat /\ run[r].failures + 1 <= Fails(t)
        BY <1>7, <2>1, Phases DEF CountFailure, Busy, Underway, CountInv
    <2>3. /\ run'[r].phase = "storing" /\ todo' = todo
          /\ \A q \in Runners : q # r => run'[q] = run[q]
        BY <1>0, <1>7, Phases DEF CountFailure, Busy, Underway
    <2>4. \A u \in DOMAIN rows' :
              /\ u \in DOMAIN rows
              /\ rows'[u].failures = IF u = t THEN run[r].failures + 1
                                     ELSE rows[u].failures
              /\ rows'[u].reason = rows[u].reason
        BY <1>7, <2>1 DEF CountFailure, TypeOK, Row
    <2>5. ASSUME NEW u \in DOMAIN rows'
          PROVE  /\ rows'[u].failures <= Fails(u)'
                 /\ rows'[u].reason => Fails(u)' >= MaxFailures
        <3>1. u \in DOMAIN rows /\ rows'[u].reason = rows[u].reason
            BY <2>4
        <3>2. rows'[u].failures <= Fails(u)'
            BY <1>0, <1>r, <2>2, <2>4
        <3>3. rows[u].reason => Fails(u)' >= MaxFailures
            BY <1>0, <1>r, <3>1, SchedulerAssumption
        <3> QED BY <3>1, <3>2, <3>3
    <2> QED BY <1>0, <2>3, <2>5, CountStep
<1>8. ASSUME NEW r \in Runners, NEW t \in Tasks, AskRun(r, t) PROVE CountInv'
    <2>1. /\ run'[r].task = t /\ run'[r].phase = "asked"
          /\ run'[r].failures = rows[t].failures
          /\ \A q \in Runners : q # r => run'[q] = run[q]
          /\ UNCHANGED <<todo, rows>>
          /\ t \in DOMAIN rows
        BY <1>0, <1>8 DEF AskRun
    <2>2. run'[r].failures \in Nat
          /\ run'[r].failures + (IF run'[r].phase = "failed" THEN 1 ELSE 0) <= Fails(t)'
        BY <1>0, <1>r, <2>1
    <2>3. \A u \in DOMAIN rows' :
              /\ rows'[u].failures <= Fails(u)'
              /\ rows'[u].reason => Fails(u)' >= MaxFailures
        BY <1>0, <1>r, <2>1, SchedulerAssumption
    <2> QED BY <1>0, <2>1, <2>2, <2>3, CountStep
<1>9. ASSUME NEW r \in Runners, RecordAsked(r) \/ StartAsked(r) PROVE CountInv'
    <2>1. PICK t \in Tasks : t = run[r].task
        BY <1>9, Phases DEF RecordAsked, StartAsked, Asked
    <2>2. run[r].failures \in Nat /\ run[r].failures <= Fails(t)
        BY <1>9, <2>1, Phases DEF RecordAsked, StartAsked, Asked, CountInv
    <2>3. run[r] \in Asked
        BY <1>9, Phases DEF RecordAsked, StartAsked
    <2>4. /\ run'[r].task = t /\ run'[r].phase \in {"recorded", "dispatching"}
          /\ run'[r].failures = run[r].failures
          /\ \A q \in Runners : q # r => run'[q] = run[q]
          /\ UNCHANGED <<todo, rows>>
        <3>1. CASE RecordAsked(r)
            BY <1>0, <2>1, <2>3, <3>1 DEF RecordAsked, Asked
        <3>2. CASE StartAsked(r)
            BY <1>0, <2>1, <2>3, <3>2 DEF StartAsked, StartRun, Asked
        <3> QED BY <1>9, <3>1, <3>2
    <2>5. run'[r].failures + (IF run'[r].phase = "failed" THEN 1 ELSE 0) <= Fails(t)'
        BY <1>0, <2>2, <2>4
    <2>6. \A u \in DOMAIN rows' :
              /\ rows'[u].failures <= Fails(u)'
              /\ rows'[u].reason => Fails(u)' >= MaxFailures
        BY <1>0, <1>r, <2>4, SchedulerAssumption
    <2> QED BY <1>0, <2>2, <2>4, <2>5, <2>6, CountStep
<1>10. CASE List
    <2>1. UNCHANGED <<rows, run>> /\ todo' = {[task |-> t, row |-> rows[t]] : t \in DOMAIN rows}
        BY <1>10 DEF List
    <2>2. \A x \in todo' : \E t : x.task = t /\ x.row.failures <= Fails(t)'
        BY <1>0, <1>r, <2>1
    <2>3. \A u \in DOMAIN rows' :
              /\ rows'[u].failures <= Fails(u)'
              /\ rows'[u].reason => Fails(u)' >= MaxFailures
        BY <1>0, <1>r, <2>1, SchedulerAssumption
    <2> QED BY <1>0, <2>1, <2>2, <2>3, CountStep
<1>11. CASE Check \/ Sleep
    <2>1. UNCHANGED <<rows, run>> /\ todo' \subseteq todo
        BY <1>11 DEF Check, Sleep
    <2> QED BY <1>0, <2>1, AsideCount
<1>12. ASSUME NEW x \in todo, Disable(x) PROVE CountInv'
    <2>1. x.row.failures >= MaxFailures
        BY <1>12 DEF Disable, FailsTooOften
    <2>2. x.row.failures \in Nat /\ x.row.failures <= Fails(x.task)
        BY DEF TypeOK, Selected, Row, CountInv
    <2>3. UNCHANGED run /\ todo' \subseteq todo
        BY <1>12 DEF Disable
    <2>4. \A u \in DOMAIN rows' :
              /\ u \in DOMAIN rows
              /\ rows'[u].failures = rows[u].failures
              /\ u # x.task => rows'[u] = rows[u]
        BY <1>12 DEF Disable, TypeOK, Row
    <2>5. ASSUME NEW u \in DOMAIN rows'
          PROVE  /\ rows'[u].failures <= Fails(u)'
                 /\ rows'[u].reason => Fails(u)' >= MaxFailures
        <3>1. rows'[u].failures <= Fails(u)'
            BY <1>0, <1>r, <2>4
        <3>2. CASE u = x.task
            BY <1>0, <2>1, <2>2, <3>1, <3>2, SchedulerAssumption
        <3>3. CASE u # x.task
            BY <1>0, <1>r, <2>4, <3>1, <3>3, SchedulerAssumption
        <3> QED BY <3>2, <3>3
    <2> QED BY <1>0, <2>3, <2>5, CountStep
<1>13. ASSUME NEW x \in todo, RunDue(x) PROVE CountInv'
    <2>1. PICK t : t = x.task
        OBVIOUS
    <2>2. x.row.failures \in Nat /\ x.row.failures <= Fails(t)
        BY <2>1 DEF TypeOK, Selected, Row, CountInv
    <2>3. /\ run'[Loop].task = t /\ run'[Loop].phase = "dispatching"
          /\ run'[Loop].failures = x.row.failures
          /\ \A q \in Runners : q # Loop => run'[q] = run[q]
          /\ todo' \subseteq todo
        BY <1>0, <1>13, <2>1 DEF RunDue, StartRun
    <2>4. run'[Loop].failures + (IF run'[Loop].phase = "failed" THEN 1 ELSE 0)
              <= Fails(t)'
        BY <1>0, <2>2, <2>3
    <2>5. UNCHANGED rows
        BY <1>13 DEF RunDue
    <2>6. \A u \in DOMAIN rows' :
              /\ rows'[u].failures <= Fails(u)'
              /\ rows'[u].reason => Fails(u)' >= MaxFailures
        BY <1>0, <1>r, <2>5, SchedulerAssumption
    <2> QED BY <1>0, <2>2, <2>3, <2>4, <2>6, CountStep
<1>14. CASE Restart
    <2>1. \A r \in Runners : run'[r].phase \in {"new", "idle"}
        BY <1>14 DEF Restart, NotAsked, Resting
    <2>2. UNCHANGED rows /\ todo' \subseteq todo
        BY <1>14 DEF Restart
    <2> QED BY <1>0, <2>1, <2>2, AsideCount
<1> QED BY <1>1, <1>2, <1>3, <1>4, <1>5, <1>6, <1>7, <1>8, <1>9, <1>10, <1>11,
           <1>12, <1>13, <1>14 DEF Next

-----------------------------------------------------------------------------
IInv == TypeOK /\ LoopInv /\ ServedInv /\ StaleInv /\ ExecInv /\ CountInv

(* The inductive invariant: whatever the tasks, the schedules, the bounds  *)
(* and the number of manual runs.                                          *)
THEOREM SchedulerInvariant == Spec => []IInv
<1>1. Init => IInv
    BY InitTypes, InitLoop, InitServed, InitStale, InitExec, InitCount DEF IInv
<1>2. IInv /\ [Next]_vars => IInv'
    BY NextTypes, NextLoop, NextServed, NextStale, NextExec, NextCount DEF IInv
<1> QED BY <1>1, <1>2, PTL DEF Spec

(* Every variable keeps its type, and no run of a task is dated in the     *)
(* future of the clock that check_and_run compares it with.                *)
THEOREM SchedulerTypes == Spec => []TypeOK
<1>1. IInv => TypeOK
    BY DEF IInv
<1> QED BY <1>1, SchedulerInvariant, PTL

(* check_and_run never runs a task twice for one slot of its schedule,     *)
(* unless the stop of the server cut the first run short.                  *)
THEOREM SlotsAreServedOnce == Spec => []ServedOnce
<1>1. IInv => ServedOnce
    BY DEF IInv, ServedInv
<1> QED BY <1>1, SchedulerInvariant, PTL

(* consecutive_failures never exceeds the failures that task_executions    *)
(* shows, whichever runs overlap.                                          *)
THEOREM CountedFailuresAreReal == Spec => []CountedFailuresHappened
<1>1. IInv => CountedFailuresHappened
    BY DEF IInv, CountInv
<1> QED BY <1>1, SchedulerInvariant, PTL

(* No task is disabled for its failures before it has had as many as the   *)
(* circuit breaker of check_and_run allows.                                *)
THEOREM DisabledTasksHaveFailed == Spec => []DisabledHasFailed
<1>1. IInv => DisabledHasFailed
    BY DEF IInv, CountInv
<1> QED BY <1>1, SchedulerInvariant, PTL

(* After a client disabled or deleted a task, check_and_run begins at most *)
(* one more run of it.                                                     *)
THEOREM StaleTasksRunOnce == Spec => []StaleRunsOnce
<1>1. IInv => StaleRunsOnce
    BY DEF IInv, StaleInv
<1> QED BY <1>1, SchedulerInvariant, PTL

(* An execution that stays pending is under way, was cut short by a stop,  *)
(* or is the record of a manual run, which nothing updates.                *)
THEOREM PendingRecordsAreExplained == Spec => []PendingExplained
<1>1. IInv => PendingExplained
    BY DEF IInv, ExecInv
<1> QED BY <1>1, SchedulerInvariant, PTL
=============================================================================
