-------------------------- MODULE Scheduler_proofs --------------------------
(***************************************************************************)
(* Theorems about the keep-alive scheduler, for every interval, jitter,    *)
(* number of retries and every number of syncs, manual runs and crashes.   *)
(***************************************************************************)
EXTENDS Scheduler, FiniteSetTheorems, TLAPS

RunSet == [mode : {"timer", "now", "manual"},
           phase : {"spawned", "performing", "backoff", "done"},
           attempts : Nat, ver : Nat, last : Nat, plan : Nat]
PlanRow == [no : Nat, ver : Nat, at : Int]

Types ==
    /\ now \in Nat /\ last \in Nat /\ ver \in Nat /\ plans \in Nat /\ burned \in Nat
    /\ present \in BOOLEAN /\ busy \in BOOLEAN /\ overtaken \in BOOLEAN
    /\ plan \in PlanRow \cup {Null} /\ runs \in SUBSET RunSet

(* The key is in _running while there is a coroutine, and there is one.    *)
OneKey ==
    /\ ~busy => runs = {}
    /\ \A r, s \in runs : r = s

(* What the last manual run has burned is behind every plan that is left   *)
(* and every timer run that is on its way.                                 *)
PlansAhead ==
    /\ burned <= plans
    /\ plan # Null => plan.no > burned
    /\ \A r \in runs : r.mode = "timer" => r.plan > burned

(* A row that is gone has no plan.                                         *)
NoRowNoPlan == ~present => plan = Null

IInv == Types /\ OneKey /\ PlansAhead /\ NoRowNoPlan /\ PlanMatches

-----------------------------------------------------------------------------
(* The next moment of a schedule is later than what it is counted from: by *)
(* the interval, or for a cron expression by at most that.                 *)
LEMMA NominalLater ==
    ASSUME NEW v \in Nat, NEW after \in Nat
    PROVE  /\ Nominal(v, after) \in (after + 1)..(after + Interval)
           /\ v \notin Cron => Nominal(v, after) = after + Interval
<1>1. after % Interval \in 0..(Interval - 1)
  BY SchedulerAssumption
<1> QED
  BY <1>1, SchedulerAssumption DEF Nominal

(* A plan is a row with a fresh number, made from the version asked for.   *)
LEMMA PlansType ==
    ASSUME plans \in Nat, NEW v \in Nat, NEW after \in Nat, NEW floor \in Nat,
           NEW p \in Plans(v, after, floor)
    PROVE  p \in PlanRow /\ p.no = plans + 1 /\ p.ver = v
<1>1. Nominal(v, after) \in Int
  BY NominalLater
<1> QED
  BY <1>1, SchedulerAssumption DEF Plans, next_run, PlanRow

(* A plan counted from now that is not ahead of now was brought there by   *)
(* the jitter, which for an interval has to be as long as the interval.    *)
LEMMA PlansLater ==
    ASSUME plans \in Nat, now \in Nat, NEW v \in Nat, NEW p \in Plans(v, now, now),
           p.at <= now
    PROVE  Jitter > 0 /\ (v \in Cron \/ Jitter >= Interval)
<1>1. PICK j \in (0 - Jitter)..Jitter :
        p.at = IF Nominal(v, now) + j < now THEN now ELSE Nominal(v, now) + j
  BY DEF Plans, next_run
<1>2. Nominal(v, now) + j <= now
  BY <1>1, NominalLater, SchedulerAssumption
<1> QED
  BY <1>1, <1>2, NominalLater, SchedulerAssumption

(* What is planned is the plan that is there or a new one for the row.     *)
LEMMA PlannedIsSound ==
    ASSUME Types, PlansAhead, NEW p \in Planned
    PROVE  /\ p \in PlanRow /\ p.no > burned
           /\ p = plan \/ (plan = Null /\ p.no = plans + 1 /\ p.ver = ver)
<1>1. CASE plan # Null
  BY <1>1 DEF Planned, Types, PlansAhead
<1>2. CASE plan = Null
  <2>1. p \in Plans(ver, Anchor, now)
    BY <1>2 DEF Planned
  <2>2. Anchor \in Nat
    BY DEF Anchor, Types
  <2>3. p \in PlanRow /\ p.no = plans + 1 /\ p.ver = ver
    BY <2>1, <2>2, PlansType DEF Types
  <2> QED
    BY <1>2, <2>3 DEF Types, PlansAhead
<1> QED
  BY <1>1, <1>2

(* _reschedule keeps the row typed, its plan fresh and in step with the    *)
(* version it was made from.                                               *)
LEMMA RescheduleStep ==
    ASSUME Types, NoRowNoPlan, NEW r \in RunSet, NEW ran \in BOOLEAN, reschedule(r, ran)
    PROVE  /\ last' \in Nat /\ plans' = plans + 1
           /\ overtaken' \in BOOLEAN /\ plan' \in PlanRow \cup {Null}
           /\ plan' # Null => plan'.no = plans + 1 /\ plan'.ver = r.ver /\ present
           /\ overtaken' = (r.ver # ver)
<1>1. PICK p \in IF r.ver \in Broken THEN {Null} ELSE Plans(r.ver, now, now) :
         /\ plan' = IF present THEN p ELSE plan
         /\ plans' = plans + 1
  BY DEF reschedule
<1>2. p = Null \/ (p \in PlanRow /\ p.no = plans + 1 /\ p.ver = r.ver)
  BY <1>1, PlansType DEF Types, RunSet
<1>3. last' \in Nat /\ overtaken' = (r.ver # ver)
  BY DEF reschedule, Types, RunSet
<1> QED
  BY <1>1, <1>2, <1>3 DEF Types, NoRowNoPlan

(* The same for what is due at once.                                       *)
LEMMA RescheduleLater ==
    ASSUME Types, AtOnceByJitter, NEW r \in RunSet, NEW ran \in BOOLEAN, reschedule(r, ran)
    PROVE  AtOnceByJitter'
<1>1. PICK p \in IF r.ver \in Broken THEN {Null} ELSE Plans(r.ver, now, now) :
         IF present /\ p # Null /\ p.at <= now
         THEN early' = early \cup {r.ver} ELSE early' = early
  BY DEF reschedule
<1>2. r.ver \in Nat
  BY DEF RunSet
<1>3. p # Null /\ p.at <= now => Jitter > 0 /\ (r.ver \in Cron \/ Jitter >= Interval)
  BY <1>1, <1>2, PlansLater DEF Types
<1> QED
  BY <1>1, <1>3 DEF AtOnceByJitter

-----------------------------------------------------------------------------
(* The first state satisfies the inductive invariant.                      *)
LEMMA InitIInv == Init => IInv
<1> SUFFICES ASSUME Init PROVE IInv
  OBVIOUS
<1>1. now = 1 /\ last = 0 /\ ver = 0 /\ plans = 0 /\ burned = 0 /\ plan = Null /\ runs = {}
  BY DEF Init
<1>2. present = TRUE /\ busy = FALSE /\ overtaken = FALSE
  BY DEF Init
<1>3. Types
  BY <1>1, <1>2 DEF Types
<1>4. OneKey /\ NoRowNoPlan /\ PlanMatches
  BY <1>1 DEF OneKey, NoRowNoPlan, PlanMatches
<1>5. PlansAhead
  BY <1>1 DEF PlansAhead
<1> QED
  BY <1>3, <1>4, <1>5 DEF IInv

(* A tick starts at most one run, for the plan the row shows.              *)
LEMMA TickStep == IInv /\ tick_once => IInv'
<1> SUFFICES ASSUME IInv, tick_once PROVE IInv'
  OBVIOUS
<1> USE DEF IInv
<1>1. PICK p \in Planned :
        /\ plan' = p /\ plans' = IF p = plan THEN plans ELSE p.no
        /\ IF p.at > now THEN UNCHANGED <<runs, busy>>
           ELSE Start([Coroutine("timer", "spawned", 0) EXCEPT !.plan = p.no])
  BY DEF tick_once
<1>2. /\ p \in PlanRow /\ p.no > burned
      /\ p = plan \/ (plan = Null /\ p.no = plans + 1 /\ p.ver = ver)
  BY <1>1, PlannedIsSound
<1>3. /\ present /\ ~busy /\ runs = {}
      /\ UNCHANGED <<now, present, enabled, ver, last, history, counters>>
  BY DEF tick_once, OneKey
<1>4. plans' \in Nat /\ plans' >= plans
  BY <1>1, <1>2 DEF Types, PlanRow
<1>5. p # Null /\ p.no \in Nat
  BY <1>2, SchedulerAssumption DEF PlanRow
<1> DEFINE r == [Coroutine("timer", "spawned", 0) EXCEPT !.plan = p.no]
<1>6. PlanNo \in Nat
  BY DEF PlanNo, Types, PlanRow
<1>7. r \in RunSet /\ r.plan = p.no
  BY <1>5, <1>6 DEF Coroutine, RunSet, Types
<1>8. (runs' = {} /\ busy' = FALSE) \/ (runs' = {r} /\ busy' = TRUE)
  BY <1>1, <1>3 DEF Start
<1> HIDE DEF r
<1>9. Types'
  BY <1>1, <1>2, <1>3, <1>4, <1>7, <1>8 DEF Types, history
<1>10. OneKey'
  BY <1>8 DEF OneKey
<1>11. PlansAhead'
  BY <1>1, <1>2, <1>3, <1>4, <1>7, <1>8 DEF PlansAhead, Types, history
<1>12. NoRowNoPlan' /\ PlanMatches'
  BY <1>1, <1>2, <1>3, <1>5 DEF NoRowNoPlan, PlanMatches, history
<1> QED
  BY <1>9, <1>10, <1>11, <1>12

(* Steps of the coroutine that leave the row alone.                        *)
LEMMA RunStep ==
    ASSUME IInv, NEW r \in runs, NEW s, s \in RunSet, s.mode = r.mode, s.plan = r.plan,
           runs' = (runs \ {r}) \cup {s}, busy' = busy,
           UNCHANGED <<now, rowVars, history, counters>>
    PROVE  IInv'
<1>1. runs = {r} /\ busy /\ runs' = {s}
  BY DEF IInv, OneKey, Types
<1> QED
  BY <1>1 DEF IInv, Types, OneKey, PlansAhead, NoRowNoPlan, PlanMatches, rowVars, history

(* A run performs its action.                                              *)
LEMMA PerformStep == ASSUME IInv, NEW r \in runs, perform(r) PROVE IInv'
<1> DEFINE n == r.attempts + 1
           s == [r EXCEPT !.phase = "performing", !.attempts = n]
<1>1. r \in RunSet
  BY DEF IInv, Types
<1>2. s \in RunSet /\ s.mode = r.mode /\ s.plan = r.plan
  <2>1. n \in Nat
    BY <1>1 DEF RunSet
  <2> HIDE DEF n
  <2> QED
    BY <1>1, <2>1 DEF RunSet
<1>3. /\ runs' = (runs \ {r}) \cup {s} /\ busy' = busy
      /\ UNCHANGED <<now, rowVars, history, counters>>
  BY DEF perform
<1> HIDE DEF s
<1> QED
  BY <1>2, <1>3, RunStep

(* A run waits for its next attempt.                                       *)
LEMMA RetryStep == ASSUME IInv, NEW r \in runs, retry(r) PROVE IInv'
<1> DEFINE s == [r EXCEPT !.phase = "backoff"]
<1>1. r \in RunSet
  BY DEF IInv, Types
<1>2. s \in RunSet /\ s.mode = r.mode /\ s.plan = r.plan
  BY <1>1 DEF RunSet
<1>3. /\ runs' = (runs \ {r}) \cup {s} /\ busy' = busy
      /\ UNCHANGED <<now, rowVars, history, counters>>
  BY DEF retry
<1> HIDE DEF s
<1> QED
  BY <1>2, <1>3, RunStep

(* A run ends and plans the next one.                                      *)
LEMMA ExecuteStep ==
    ASSUME IInv, NEW r \in runs, NEW ran \in BOOLEAN, execute_ends(r, ran) PROVE IInv'
<1> DEFINE s == [r EXCEPT !.phase = "done"]
<1>1. r \in RunSet /\ runs = {r} /\ busy
  BY DEF IInv, Types, OneKey
<1>2. s \in RunSet /\ s.mode = r.mode /\ s.plan = r.plan
  BY <1>1 DEF RunSet
<1>3. /\ reschedule(r, ran) /\ runs' = {s} /\ busy' = busy /\ now' = now
      /\ present' = present /\ ver' = ver /\ burned' = burned
  BY <1>1 DEF execute_ends
<1>4. /\ last' \in Nat /\ plans' = plans + 1
      /\ overtaken' \in BOOLEAN /\ plan' \in PlanRow \cup {Null}
      /\ plan' # Null => plan'.no = plans + 1 /\ plan'.ver = r.ver /\ present
      /\ overtaken' = (r.ver # ver)
  BY <1>1, <1>3, RescheduleStep DEF IInv
<1> HIDE DEF s
<1>5. Types'
  BY <1>2, <1>3, <1>4 DEF IInv, Types
<1>6. OneKey'
  BY <1>1, <1>3 DEF OneKey
<1>7. PlansAhead'
  BY <1>1, <1>2, <1>3, <1>4 DEF IInv, Types, PlansAhead
<1>8. NoRowNoPlan' /\ PlanMatches'
  BY <1>3, <1>4 DEF NoRowNoPlan, PlanMatches
<1> QED
  BY <1>5, <1>6, <1>7, <1>8 DEF IInv

(* The coroutine leaves, by its callback or at the end of a manual run.    *)
LEMMA LeaveStep ==
    ASSUME IInv, NEW r \in runs, done_callback(r) \/ manual_ends(r) PROVE IInv'
<1>1. runs = {r}
  BY DEF IInv, OneKey
<1>2. runs' = {} /\ busy' = FALSE /\ UNCHANGED <<now, rowVars, history, counters>>
  BY <1>1 DEF done_callback, manual_ends
<1> QED
  BY <1>2 DEF IInv, Types, OneKey, PlansAhead, NoRowNoPlan, PlanMatches, rowVars, history

(* An administrator runs the task now.                                     *)
LEMMA RunNowStep == ASSUME IInv, run_now PROVE IInv'
<1> DEFINE r == Coroutine("now", "spawned", 0)
<1>1. r \in RunSet /\ r.mode = "now"
  BY DEF IInv, Types, PlanRow, PlanNo, Coroutine, RunSet
<1>2. runs = {} /\ runs' = {r} /\ busy' = TRUE /\ UNCHANGED <<now, rowVars, history>>
  BY DEF run_now, Start, IInv, OneKey
<1> HIDE DEF r
<1> QED
  BY <1>1, <1>2 DEF IInv, Types, OneKey, PlansAhead, NoRowNoPlan, PlanMatches, rowVars, history

(* An administrator runs it by hand and waits.                             *)
LEMMA RunManualStep == ASSUME IInv, run_manual PROVE IInv'
<1> DEFINE r == Coroutine("manual", "performing", 1)
<1>1. r \in RunSet /\ r.mode = "manual" /\ r.ver = ver
  BY DEF IInv, Types, PlanRow, PlanNo, Coroutine, RunSet
<1>2. /\ runs = {} /\ runs' = {r} /\ busy' = TRUE /\ reschedule(r, TRUE)
      /\ burned' = plans /\ now' = now /\ present' = present /\ ver' = ver
  BY DEF run_manual, Start, IInv, OneKey
<1> HIDE DEF r
<1>3. /\ last' \in Nat /\ plans' = plans + 1
      /\ overtaken' \in BOOLEAN /\ plan' \in PlanRow \cup {Null}
      /\ plan' # Null => plan'.no = plans + 1 /\ plan'.ver = r.ver /\ present
      /\ overtaken' = (r.ver # ver)
  BY <1>1, <1>2, RescheduleStep DEF IInv
<1>4. Types'
  BY <1>1, <1>2, <1>3 DEF IInv, Types
<1>5. OneKey'
  BY <1>2 DEF OneKey
<1>6. PlansAhead'
  BY <1>1, <1>2, <1>3 DEF IInv, Types, PlansAhead
<1>7. NoRowNoPlan' /\ PlanMatches'
  BY <1>1, <1>2, <1>3 DEF NoRowNoPlan, PlanMatches
<1> QED
  BY <1>4, <1>5, <1>6, <1>7 DEF IInv

(* The hub replaces the task.                                              *)
LEMMA ReplaceStep ==
    ASSUME IInv, NEW v \in Versions, NEW on \in BOOLEAN, replace_tasks(v, on) PROVE IInv'
BY DEF IInv, Types, OneKey, PlansAhead, NoRowNoPlan, PlanMatches, replace_tasks,
       schedule_changed, Versions

(* The hub deletes the task.                                               *)
LEMMA DeleteStep == ASSUME IInv, delete_task PROVE IInv'
BY DEF IInv, Types, OneKey, PlansAhead, NoRowNoPlan, PlanMatches, delete_task, history

(* The process dies, or time passes.                                       *)
LEMMA RestStep == ASSUME IInv, crash \/ pass_time \/ UNCHANGED vars PROVE IInv'
<1>1. /\ UNCHANGED <<present, ver, last, plan, plans, burned, overtaken>>
      /\ now' \in Nat
  BY DEF crash, pass_time, vars, rowVars, history, IInv, Types
<1>2. UNCHANGED <<runs, busy>> \/ (runs' = {} /\ busy' = FALSE)
  BY DEF crash, pass_time, vars
<1>3. Types' /\ OneKey'
  BY <1>1, <1>2 DEF IInv, Types, OneKey
<1>4. PlansAhead' /\ NoRowNoPlan' /\ PlanMatches'
  BY <1>1, <1>2 DEF IInv, PlansAhead, NoRowNoPlan, PlanMatches
<1> QED
  BY <1>3, <1>4 DEF IInv

(* Every step keeps the inductive invariant.                               *)
LEMMA Inductive == IInv /\ [Next]_vars => IInv'
BY TickStep, PerformStep, RetryStep, ExecuteStep, LeaveStep, RunNowStep, RunManualStep,
   ReplaceStep, DeleteStep, RestStep DEF Next

(* The inductive invariant holds throughout.                               *)
LEMMA Invariance == Spec => []IInv
BY InitIInv, Inductive, PTL DEF Spec

-----------------------------------------------------------------------------
(* However ticks, commands of the hub, retries, syncs and crashes fall, a  *)
(* task is never executed by two coroutines at once (scheduler.py,         *)
(* _running).                                                              *)
THEOREM RunsDoNotOverlap == Spec => []NoOverlap
<1>1. IInv => NoOverlap
  <2> SUFFICES ASSUME IInv PROVE NoOverlap
    OBVIOUS
  <2> DEFINE live == {r \in runs : r.phase # "done"}
  <2>1. CASE live = {}
    BY <2>1, FS_EmptySet DEF NoOverlap
  <2>2. CASE live # {}
    <3>1. PICK r \in live : TRUE
      BY <2>2
    <3>2. live = {r}
      BY <3>1 DEF IInv, OneKey
    <3> QED
      BY <3>2, FS_Singleton DEF NoOverlap
  <2> QED
    BY <2>1, <2>2
<1> QED
  BY <1>1, Invariance, PTL

(* Once a manual run has begun, no timer run is made from a plan that was  *)
(* there before it, also after a crash (scheduler.py, run_manual).         *)
THEOREM ManualRunsOnce == Spec => []ManualNotRepeated
<1>1. IInv => ManualNotRepeated
  BY DEF IInv, PlansAhead, ManualNotRepeated
<1> QED
  BY <1>1, Invariance, PTL

(* The plan in the table follows the schedule in the table unless a run    *)
(* overtaken by an edit wrote it, and a run leaves a plan that is due at   *)
(* once only where the jitter brings it there: never without jitter, and   *)
(* for an interval only when the jitter is as long (schedule.py, next_run; *)
(* scheduler.py, _reschedule).                                             *)
THEOREM PlansAreSound == Spec => []PlanSound
<1>1. Init => AtOnceByJitter
  BY DEF Init, AtOnceByJitter
<1>2. IInv /\ AtOnceByJitter /\ [Next]_vars => AtOnceByJitter'
  <2> SUFFICES ASSUME IInv, AtOnceByJitter, [Next]_vars PROVE AtOnceByJitter'
    OBVIOUS
  <2>1. ASSUME NEW r \in runs, NEW ran \in BOOLEAN, execute_ends(r, ran)
        PROVE  AtOnceByJitter'
    BY <2>1, RescheduleLater DEF execute_ends, IInv, Types
  <2>2. ASSUME run_manual PROVE AtOnceByJitter'
    <3>1. Coroutine("manual", "performing", 1) \in RunSet
      BY DEF IInv, Types, PlanRow, PlanNo, Coroutine, RunSet
    <3> QED
      BY <2>2, <3>1, RescheduleLater DEF run_manual, IInv
  <2>3. ASSUME NEW r \in runs,
               perform(r) \/ retry(r) \/ done_callback(r) \/ manual_ends(r)
        PROVE  early' = early
    BY <2>3 DEF perform, retry, done_callback, manual_ends, history
  <2>4. ASSUME tick_once \/ run_now \/ delete_task \/ crash \/ pass_time \/ UNCHANGED vars
               \/ \E v \in Versions, on \in BOOLEAN : replace_tasks(v, on)
        PROVE  early' = early
    BY <2>4 DEF tick_once, run_now, delete_task, crash, pass_time, replace_tasks, vars, history
  <2>5. early' = early => AtOnceByJitter'
    BY DEF AtOnceByJitter
  <2> QED
    BY <2>1, <2>2, <2>3, <2>4, <2>5 DEF Next
<1>3. IInv /\ AtOnceByJitter => PlanSound
  BY DEF IInv, PlanSound
<1> QED
  BY <1>1, <1>2, <1>3, Invariance, PTL DEF Spec
-----------------------------------------------------------------------------
(* What the columns and the coroutines can hold.  The attempts of a run    *)
(* are bounded by where it stands: none before the first, no more than     *)
(* retry_max while it waits for another one.                               *)
AttemptsOK(r) ==
    /\ r.phase = "spawned" => r.attempts = 0
    /\ r.phase = "backoff" => r.attempts <= RetryMax
    /\ r.attempts <= RetryMax + 1

RunOK(r) == r \in RunSet /\ r.ver \in Versions /\ r.last \in 0..MaxTime /\ AttemptsOK(r)

RowRanges ==
    /\ now \in 1..MaxTime /\ last \in 0..MaxTime /\ ver \in Versions
    /\ plan \in PlanSet \cup {Null}

RunRanges ==
    /\ busy => runs # {}
    /\ \A r \in runs : RunOK(r)

Ranges == RowRanges /\ RunRanges /\ enabled \in BOOLEAN

(* A plan counted from a time of the clock is a row of the table.          *)
LEMMA PlansRange ==
    ASSUME plans \in Nat, now \in 1..MaxTime, NEW v \in Versions, NEW after \in 0..MaxTime,
           NEW p \in Plans(v, after, now)
    PROVE  p \in PlanSet
<1>1. PICK at \in next_run(v, after, now) : p = [no |-> plans + 1, ver |-> v, at |-> at]
  BY DEF Plans
<1>2. at \in 0..(MaxTime + Interval + Jitter)
  <2>1. PICK j \in (0 - Jitter)..Jitter :
          at = IF Nominal(v, after) + j < now THEN now ELSE Nominal(v, after) + j
    BY <1>1 DEF next_run
  <2>2. v \in Nat /\ after \in Nat /\ MaxTime \in Nat
    BY SchedulerAssumption DEF Versions
  <2>3. Nominal(v, after) \in (after + 1)..(after + Interval)
    BY <2>2, NominalLater
  <2>4. Nominal(v, after) \in 1..(MaxTime + Interval)
    BY <2>2, <2>3, SchedulerAssumption
  <2> HIDE DEF Nominal
  <2> QED
    BY <2>1, <2>4, SchedulerAssumption
<1> QED
  BY <1>1, <1>2 DEF PlanSet

(* A coroutine is started on the row as it is.                             *)
LEMMA CoroutineRange ==
    ASSUME IInv, Ranges, NEW mode \in {"timer", "now", "manual"},
           NEW phase \in {"spawned", "performing"}, NEW n \in {0, 1},
           phase = "spawned" => n = 0
    PROVE  RunOK(Coroutine(mode, phase, n))
<1>1. PlanNo \in Nat
  BY DEF PlanNo, IInv, Types, PlanRow
<1>2. ver \in Nat /\ last \in Nat /\ ver \in Versions /\ last \in 0..MaxTime
  BY DEF IInv, Types, Ranges, RowRanges
<1>3. Coroutine(mode, phase, n) \in RunSet
  BY <1>1, <1>2 DEF Coroutine, RunSet
<1>4. AttemptsOK(Coroutine(mode, phase, n))
  BY SchedulerAssumption DEF Coroutine, AttemptsOK
<1> QED
  BY <1>2, <1>3, <1>4 DEF Coroutine, RunOK

(* The scheduler's own turn: a plan, and a run when it is due.             *)
LEMMA TickRange == ASSUME IInv, Ranges, tick_once PROVE Ranges'
<1>1. PICK p \in Planned :
        /\ plan' = p
        /\ IF p.at > now THEN UNCHANGED <<runs, busy>>
           ELSE Start([Coroutine("timer", "spawned", 0) EXCEPT !.plan = p.no])
  BY DEF tick_once
<1>2. p \in PlanSet
  <2>1. CASE plan # Null
    BY <2>1 DEF Planned, Ranges, RowRanges
  <2>2. CASE plan = Null
    <3>1. p \in Plans(ver, Anchor, now)
      BY <2>2 DEF Planned
    <3>2. Anchor \in 0..MaxTime
      BY SchedulerAssumption DEF Anchor, Ranges, RowRanges
    <3> QED
      BY <3>1, <3>2, PlansRange DEF IInv, Types, Ranges, RowRanges
  <2> QED
    BY <2>1, <2>2
<1>3. UNCHANGED <<now, enabled, ver, last>>
  BY DEF tick_once
<1>4. RowRanges' /\ enabled' \in BOOLEAN
  BY <1>1, <1>2, <1>3 DEF Ranges, RowRanges
<1> DEFINE r == [Coroutine("timer", "spawned", 0) EXCEPT !.plan = p.no]
<1>5. RunOK(r)
  <2>1. RunOK(Coroutine("timer", "spawned", 0))
    BY CoroutineRange
  <2>2. p.no \in Nat
    BY <1>2 DEF PlanSet
  <2> HIDE DEF Coroutine
  <2> QED
    BY <2>1, <2>2 DEF RunOK, RunSet, AttemptsOK
<1> HIDE DEF r
<1>6. UNCHANGED <<runs, busy>> \/ runs' = runs \cup {r}
  BY <1>1 DEF Start, r
<1>7. RunRanges'
  BY <1>5, <1>6 DEF Ranges, RunRanges, RunOK, AttemptsOK
<1> QED
  BY <1>4, <1>7 DEF Ranges

(* A run that goes on stays the only one, within its attempts.             *)
LEMMA RunRange ==
    ASSUME IInv, Ranges, NEW r \in runs, NEW s, RunOK(s), runs' = (runs \ {r}) \cup {s}
    PROVE  RunRanges'
BY DEF Ranges, RunRanges, RunOK, AttemptsOK

(* An attempt more is an attempt within the limit.                         *)
LEMMA PerformRange == ASSUME IInv, Ranges, NEW r \in runs, perform(r) PROVE Ranges'
<1> DEFINE n == r.attempts + 1
           s == [r EXCEPT !.phase = "performing", !.attempts = n]
<1>1. RunOK(r)
  BY DEF Ranges, RunRanges
<1>2. n \in Nat /\ n <= RetryMax + 1
  BY <1>1, SchedulerAssumption DEF perform, RunOK, RunSet, AttemptsOK
<1>3. /\ runs' = (runs \ {r}) \cup {s}
      /\ UNCHANGED <<now, present, enabled, ver, last, plan, plans, busy>>
  BY DEF perform, rowVars
<1> HIDE DEF n
<1>4. RunOK(s)
  BY <1>1, <1>2 DEF RunOK, RunSet, AttemptsOK
<1> HIDE DEF s
<1>5. RunRanges'
  BY <1>3, <1>4, RunRange
<1> QED
  BY <1>3, <1>5 DEF Ranges, RowRanges

(* A run waits only before its last attempt.                               *)
LEMMA RetryRange == ASSUME IInv, Ranges, NEW r \in runs, retry(r) PROVE Ranges'
<1> DEFINE s == [r EXCEPT !.phase = "backoff"]
<1>1. RunOK(r) /\ r.attempts <= RetryMax
  BY DEF Ranges, RunRanges, retry
<1>2. /\ runs' = (runs \ {r}) \cup {s}
      /\ UNCHANGED <<now, present, enabled, ver, last, plan, plans, busy>>
  BY DEF retry, rowVars
<1>3. RunOK(s)
  BY <1>1 DEF RunOK, RunSet, AttemptsOK
<1> HIDE DEF s
<1>4. RunRanges'
  BY <1>2, <1>3, RunRange
<1> QED
  BY <1>2, <1>4 DEF Ranges, RowRanges

(* _reschedule writes a row of the table.                                  *)
LEMMA RescheduleRange ==
    ASSUME IInv, Ranges, NEW r, RunOK(r), NEW ran \in BOOLEAN, reschedule(r, ran)
    PROVE  last' \in 0..MaxTime /\ plan' \in PlanSet \cup {Null}
<1>1. PICK p \in IF r.ver \in Broken THEN {Null} ELSE Plans(r.ver, now, now) :
         plan' = IF present THEN p ELSE plan
  BY DEF reschedule
<1>2. now \in 0..MaxTime /\ now \in 1..MaxTime
  BY SchedulerAssumption DEF Ranges, RowRanges
<1>3. p \in PlanSet \cup {Null}
  BY <1>1, <1>2, PlansRange DEF IInv, Types, RunOK
<1>4. last' \in 0..MaxTime
  BY <1>2 DEF reschedule, RunOK, Ranges, RowRanges
<1> QED
  BY <1>1, <1>3, <1>4 DEF Ranges, RowRanges

(* The end of a run writes values in range.                                *)
LEMMA ExecuteRange ==
    ASSUME IInv, Ranges, NEW r \in runs, NEW ran \in BOOLEAN, execute_ends(r, ran)
    PROVE  Ranges'
<1> DEFINE s == [r EXCEPT !.phase = "done"]
<1>1. RunOK(r) /\ reschedule(r, ran)
  BY DEF Ranges, RunRanges, execute_ends
<1>2. runs' = (runs \ {r}) \cup {s} /\ UNCHANGED <<now, enabled, ver, busy>>
  BY DEF execute_ends
<1>3. RunOK(s)
  BY <1>1 DEF RunOK, RunSet, AttemptsOK
<1> HIDE DEF s
<1>4. last' \in 0..MaxTime /\ plan' \in PlanSet \cup {Null}
  BY <1>1, RescheduleRange
<1>5. RunRanges'
  BY <1>2, <1>3, RunRange
<1> QED
  BY <1>2, <1>4, <1>5 DEF Ranges, RowRanges

(* Runs an administrator starts are well formed.                           *)
LEMMA StartRange ==
    ASSUME IInv, Ranges, run_now \/ run_manual
    PROVE  Ranges'
<1>1. ASSUME NEW r, RunOK(r), Start(r) PROVE RunRanges'
  BY <1>1 DEF Start, Ranges, RunRanges, RunOK, AttemptsOK
<1>2. CASE run_now
  <2>1. RunOK(Coroutine("now", "spawned", 0))
    BY CoroutineRange
  <2>2. Start(Coroutine("now", "spawned", 0)) /\ UNCHANGED <<now, enabled, ver, last, plan>>
    BY <1>2 DEF run_now, rowVars
  <2>3. RunRanges'
    BY <1>1, <2>1, <2>2
  <2> QED
    BY <2>2, <2>3 DEF Ranges, RowRanges
<1>3. CASE run_manual
  <2>1. RunOK(Coroutine("manual", "performing", 1))
    BY CoroutineRange
  <2>2. /\ Start(Coroutine("manual", "performing", 1)) /\ UNCHANGED <<now, enabled, ver>>
        /\ reschedule(Coroutine("manual", "performing", 1), TRUE)
    BY <1>3 DEF run_manual
  <2>3. RunRanges'
    BY <1>1, <2>1, <2>2
  <2>4. last' \in 0..MaxTime /\ plan' \in PlanSet \cup {Null}
    BY <2>1, <2>2, RescheduleRange
  <2> QED
    BY <2>2, <2>3, <2>4 DEF Ranges, RowRanges
<1> QED
  BY <1>2, <1>3

(* Steps that take runs away, change the row or let time pass.             *)
LEMMA RestRange ==
    ASSUME IInv, Ranges,
           \/ \E r \in runs : done_callback(r) \/ manual_ends(r)
           \/ \E v \in Versions, on \in BOOLEAN : replace_tasks(v, on)
           \/ delete_task \/ crash \/ pass_time \/ UNCHANGED vars
    PROVE  Ranges'
<1>1. (runs' \subseteq runs /\ busy' = FALSE) \/ UNCHANGED <<runs, busy>>
  BY DEF done_callback, manual_ends, replace_tasks, delete_task, crash, pass_time, vars
<1>2. RunRanges'
  BY <1>1 DEF Ranges, RunRanges, RunOK, AttemptsOK
<1>3. now' \in 1..MaxTime
  BY SchedulerAssumption
     DEF done_callback, manual_ends, replace_tasks, delete_task, crash, pass_time, vars,
         Ranges, RowRanges
<1>4. last' = last /\ ver' \in Versions /\ (plan' = plan \/ plan' = Null)
  BY DEF done_callback, manual_ends, replace_tasks, delete_task, crash, pass_time, vars,
         rowVars, Ranges, RowRanges
<1>5. enabled' \in BOOLEAN
  BY DEF done_callback, manual_ends, replace_tasks, delete_task, crash, pass_time, vars,
         rowVars, Ranges
<1> QED
  BY <1>2, <1>3, <1>4, <1>5 DEF Ranges, RowRanges

(* Every variable holds what the task row and its coroutines can hold; a   *)
(* run makes at most retry_max + 1 attempts, and the key is in _running    *)
(* exactly while there is a coroutine (scheduler.py, _execute, _running).  *)
THEOREM TypeCorrect == Spec => []TypeOK
<1>1. Init => Ranges
  <2> SUFFICES ASSUME Init PROVE Ranges
    OBVIOUS
  <2>1. RowRanges
    BY SchedulerAssumption DEF Init, RowRanges, Versions
  <2>2. RunRanges
    BY DEF Init, RunRanges
  <2> QED
    BY <2>1, <2>2 DEF Init, Ranges
<1>2. IInv /\ Ranges /\ [Next]_vars => Ranges'
  BY TickRange, PerformRange, RetryRange, ExecuteRange, StartRange, RestRange DEF Next
<1>3. IInv /\ Ranges => TypeOK
  <2> SUFFICES ASSUME IInv, Ranges PROVE TypeOK
    OBVIOUS
  <2>1. now \in 0..MaxTime /\ last \in 0..MaxTime /\ ver \in Versions
    BY SchedulerAssumption DEF Ranges, RowRanges
  <2>2. present \in BOOLEAN /\ enabled \in BOOLEAN
    BY DEF IInv, Types, Ranges
  <2>3. plan \in PlanSet \cup {Null} /\ plans \in Nat
    BY DEF IInv, Types, Ranges, RowRanges
  <2>4. busy = (runs # {})
    BY DEF IInv, Types, OneKey, Ranges, RunRanges
  <2>5. ASSUME NEW r \in runs
        PROVE  /\ r.mode \in {"timer", "now", "manual"}
               /\ r.phase \in {"spawned", "performing", "backoff", "done"}
               /\ r.attempts \in 0..(RetryMax + 1)
    BY SchedulerAssumption DEF Ranges, RunRanges, RunOK, RunSet, AttemptsOK
  <2> QED
    BY <2>1, <2>2, <2>3, <2>4, <2>5 DEF TypeOK
<1> QED
  BY <1>1, <1>2, <1>3, Invariance, PTL DEF Spec
=============================================================================
