----------------------------- MODULE Scheduler -----------------------------
(***************************************************************************)
(* The keep-alive scheduler of the agent (scheduler.py) and one row of its *)
(* task table (store.py): timer runs with retries, manual runs asked for   *)
(* by the hub, replacement of the task by sync_tasks at any moment, and    *)
(* crashes.  A coroutine runs on the snapshot of the row it was started    *)
(* with.  What the hardware does is left open: it answers, it raises, or   *)
(* the task turns out not to be runnable.                                  *)
(***************************************************************************)
EXTENDS Integers, FiniteSets

CONSTANTS
    Null,       \* no plan: next_run_at IS NULL
    Interval,   \* the days of an interval, and how far the moments of a
                \* cron expression are apart, in units of time
    Jitter,     \* jitter_seconds, in the same unit
    RetryMax,   \* retry_max of the task
    Cron,       \* versions of the schedule that are cron expressions
    Broken,     \* versions of the schedule that do not parse
    MaxTime,    \* bound: the clock
    MaxSync,    \* bound: sync_tasks applied
    MaxManual,  \* bound: run_task commands
    MaxCrash,   \* bound: restarts of the agent
    MaxEarly    \* bound: number of the last plan that may be due the moment
                \* it is made

ASSUME SchedulerAssumption ==
    /\ Interval \in Nat \ {0} /\ Jitter \in Nat /\ RetryMax \in Nat
    /\ MaxTime \in Nat \ {0} /\ MaxSync \in Nat /\ MaxManual \in Nat /\ MaxCrash \in Nat
    /\ MaxEarly \in Nat /\ Cron \subseteq Nat /\ Broken \subseteq Nat /\ Null \notin [no : Nat, ver : Nat, at : Int]

VARIABLES
    now,        \* the agent's clock
    present,    \* store: the row exists
    enabled,    \* store: enabled
    ver,        \* store: the schedule columns, as a version
    last,       \* store: last_run_at; 0 when NULL
    plan,       \* store: next_run_at with the schedule it was made from
    busy,       \* scheduler: the task id is a key of _running
    runs,       \* scheduler: the coroutines executing the task
    plans,      \* history: plans made so far
    burned,     \* history: plans made when the last manual run began
    answered,   \* history: the last plan whose timer run was reported
    dropped,    \* history: the last plan a sync or a manual run took away
    overtaken,  \* history: the plan was written by a run started under an
                \*          older schedule
    early,      \* history: schedules of which a run left a plan due at once
    syncs, manuals, crashes

rowVars  == <<present, enabled, ver, last, plan, plans>>
history  == <<burned, answered, dropped, overtaken, early>>
counters == <<syncs, manuals, crashes>>
vars == <<now, rowVars, busy, runs, history, counters>>

Init ==
    /\ now = 1 /\ present = TRUE /\ enabled = TRUE
    /\ ver = 0 /\ last = 0 /\ plan = Null /\ plans = 0
    /\ busy = FALSE /\ runs = {}
    /\ burned = 0 /\ answered = 0 /\ dropped = 0
    /\ overtaken = FALSE /\ early = {}
    /\ syncs = 0 /\ manuals = 0 /\ crashes = 0

PlanNo == IF plan = Null THEN 0 ELSE plan.no

\* next_interval and next_cron.  An interval is counted from `after`; a cron
\* expression names moments of the calendar, and its next one is the first
\* that is later than `after`, however near.
Nominal(v, after) ==
    IF v \in Cron THEN after - (after % Interval) + Interval ELSE after + Interval

\* next_run: the moment of the schedule, jittered, and not before `floor`.
next_run(v, after, floor) ==
    {IF Nominal(v, after) + j < floor THEN floor ELSE Nominal(v, after) + j :
        j \in (0 - Jitter)..Jitter}

\* The plan a schedule of version v can lead to.
Plans(v, after, floor) ==
    {[no |-> plans + 1, ver |-> v, at |-> at] : at \in next_run(v, after, floor)}

Coroutine(mode, phase, attempts) ==
    [mode |-> mode, phase |-> phase, attempts |-> attempts,
     ver |-> ver, last |-> last, plan |-> PlanNo]

-----------------------------------------------------------------------------
(* The tick *)

Start(r) == runs' = runs \cup {r} /\ busy' = TRUE

\* What _plan counts from: the last run, or now for a task that never ran and
\* for a cron expression.
Anchor == IF ver \in Cron \/ last = 0 THEN now ELSE last

\* _plan, or the plan that is there already.
Planned == IF plan # Null THEN {plan} ELSE Plans(ver, Anchor, now)

\* Mutants: a running task is not skipped; the next run is planned before
\* this one has been made.
tick_once_busy ==
    /\ present /\ enabled
    /\ plan = Null => ver \notin Broken
    /\ \E p \in Planned :
          /\ plan' = p /\ plans' = IF p = plan THEN plans ELSE p.no
          /\ IF p.at > now THEN UNCHANGED <<runs, busy>>
             ELSE Start([Coroutine("timer", "spawned", 0) EXCEPT !.plan = p.no])
    /\ UNCHANGED <<now, present, enabled, ver, last, history, counters>>

tick_once_advances ==
    /\ present /\ enabled /\ ~busy
    /\ plan = Null => ver \notin Broken
    /\ \E p \in IF plan # Null /\ plan.at <= now THEN Plans(ver, now, now) ELSE Planned :
          /\ plan' = p /\ plans' = IF p = plan THEN plans ELSE p.no
          /\ IF plan = Null \/ p = plan THEN UNCHANGED <<runs, busy>>
             ELSE Start(Coroutine("timer", "spawned", 0))
    /\ UNCHANGED <<now, present, enabled, ver, last, history, counters>>

\* tick_once: plan what has no plan and start what is due.  An expression that
\* does not parse is reported and its plan stays NULL.
tick_once ==
    /\ present /\ enabled /\ ~busy
    /\ plan = Null => ver \notin Broken
    /\ \E p \in Planned :
          /\ plan' = p /\ plans' = IF p = plan THEN plans ELSE p.no
          /\ IF p.at > now THEN UNCHANGED <<runs, busy>>
             ELSE Start([Coroutine("timer", "spawned", 0) EXCEPT !.plan = p.no])
    /\ UNCHANGED <<now, present, enabled, ver, last, history, counters>>

-----------------------------------------------------------------------------
(* One run *)

\* _reschedule: record the run and plan the next one from the snapshot.  A
\* row that is gone is not updated.
reschedule(r, ran) ==
    /\ last' = IF ~present THEN last ELSE IF ran THEN now ELSE r.last
    /\ \E p \in IF r.ver \in Broken THEN {Null} ELSE Plans(r.ver, now, now) :
          /\ plan' = IF present THEN p ELSE plan
          /\ plans' = plans + 1
          /\ IF present /\ p # Null /\ p.at <= now
             THEN p.no <= MaxEarly /\ early' = early \cup {r.ver}
             ELSE UNCHANGED early
    /\ overtaken' = (r.ver # ver)

\* The coroutine calls the device, for the first time or again.
perform(r) ==
    /\ r.phase \in {"spawned", "backoff"}
    /\ runs' = (runs \ {r}) \cup {[r EXCEPT !.phase = "performing", !.attempts = @ + 1]}
    /\ UNCHANGED <<now, rowVars, busy, history, counters>>

\* The attempt raised and is worth another one after a delay.
retry(r) ==
    /\ r.mode # "manual" /\ r.phase = "performing" /\ r.attempts <= RetryMax
    /\ runs' = (runs \ {r}) \cup {[r EXCEPT !.phase = "backoff"]}
    /\ UNCHANGED <<now, rowVars, busy, history, counters>>

\* A timer run ends: it succeeded, used up its attempts, or found that the
\* task cannot run.  It plans the next run and reports.
execute_ends(r, ran) ==
    /\ r.mode # "manual"
    /\ IF ran THEN r.phase = "performing" ELSE r.phase \in {"spawned", "backoff"}
    /\ reschedule(r, ran)
    /\ answered' = r.plan
    /\ runs' = (runs \ {r}) \cup {[r EXCEPT !.phase = "done"]}
    /\ UNCHANGED <<now, present, enabled, ver, busy, burned, dropped, counters>>

\* The done callback of the task takes the key out of _running.
done_callback(r) ==
    /\ r.phase = "done"
    /\ runs' = runs \ {r} /\ busy' = FALSE
    /\ UNCHANGED <<now, rowVars, history, counters>>

\* run_now (a hub without durable commands): the same coroutine, started by
\* a command instead of the clock.
run_now ==
    /\ present /\ ~busy /\ manuals < MaxManual
    /\ Start(Coroutine("now", "spawned", 0))
    /\ manuals' = manuals + 1
    /\ UNCHANGED <<now, rowVars, history, syncs, crashes>>

\* Mutant: the schedule is advanced when the run is over.
run_manual_late ==
    /\ present /\ ~busy /\ manuals < MaxManual
    /\ Start(Coroutine("manual", "performing", 1))
    /\ burned' = plans
    /\ manuals' = manuals + 1
    /\ UNCHANGED <<now, rowVars, answered, dropped, overtaken, early, syncs, crashes>>

\* run_manual up to the hardware: the schedule is advanced first.
run_manual ==
    /\ present /\ ~busy /\ manuals < MaxManual
    /\ Start(Coroutine("manual", "performing", 1))
    /\ reschedule(Coroutine("manual", "performing", 1), TRUE)
    /\ burned' = plans /\ dropped' = plans
    /\ manuals' = manuals + 1
    /\ UNCHANGED <<now, present, enabled, ver, answered, syncs, crashes>>

\* Mutant: a run that fails leaves its key behind.
manual_ends_keeps_key(r) ==
    /\ r.mode = "manual" /\ r.phase = "performing"
    /\ runs' = runs \ {r} /\ busy' \in {FALSE, TRUE}
    /\ UNCHANGED <<now, rowVars, history, counters>>

\* run_manual ends, however it ends: report, and free the key.
manual_ends(r) ==
    /\ r.mode = "manual" /\ r.phase = "performing"
    /\ runs' = runs \ {r} /\ busy' = FALSE
    /\ UNCHANGED <<now, rowVars, history, counters>>

-----------------------------------------------------------------------------
(* The table is replaced; the agent dies; time passes *)

\* Mutant: the old plan is kept whatever changed.
schedule_changed_never(v) == FALSE

\* _schedule_changed: type, expression or jitter differ from the row's.
schedule_changed(v) == v # ver

\* replace_tasks with a row of version v, which may be the old one.
replace_tasks(v, on) ==
    /\ present /\ syncs < MaxSync
    /\ ver' = v /\ enabled' = on
    /\ plan' = IF schedule_changed(v) THEN Null ELSE plan
    /\ dropped' = IF v # ver THEN plans ELSE dropped
    /\ overtaken' = (overtaken /\ v = ver)
    /\ syncs' = syncs + 1
    /\ UNCHANGED <<now, present, last, plans, busy, runs, burned, answered, early,
                   manuals, crashes>>

\* replace_tasks without the row.
delete_task ==
    /\ present /\ syncs < MaxSync
    /\ present' = FALSE /\ plan' = Null
    /\ syncs' = syncs + 1
    /\ UNCHANGED <<now, enabled, ver, last, plans, busy, runs, history, manuals, crashes>>

\* The agent is stopped or killed and starts again: coroutines are gone
\* without a word, the table stays.
crash ==
    /\ crashes < MaxCrash
    /\ runs' = {} /\ busy' = FALSE
    /\ crashes' = crashes + 1
    /\ UNCHANGED <<now, rowVars, history, syncs, manuals>>

pass_time ==
    /\ now < MaxTime
    /\ now' = now + 1
    /\ UNCHANGED <<rowVars, busy, runs, history, counters>>

\* bound: the schedules a task is given
Versions == 0..2

Next ==
    \/ tick_once
    \/ \E r \in runs : perform(r)
    \/ \E r \in runs : retry(r)
    \/ \E r \in runs, ran \in BOOLEAN : execute_ends(r, ran)
    \/ \E r \in runs : done_callback(r)
    \/ run_now
    \/ run_manual
    \/ \E r \in runs : manual_ends(r)
    \/ \E v \in Versions, on \in BOOLEAN : replace_tasks(v, on)
    \/ delete_task
    \/ crash
    \/ pass_time

Spec == Init /\ [][Next]_vars

\* A coroutine goes on when the hardware has answered, raised or timed out.
Continues(r) ==
    \/ manual_ends(r) \/ retry(r) \/ done_callback(r)
    \/ \E ran \in BOOLEAN : execute_ends(r, ran)

\* The loop ticks, coroutines run on, the hardware answers or times out.
FairSpec ==
    /\ Spec
    /\ WF_vars(tick_once)
    /\ WF_vars(\E r \in runs : perform(r))
    /\ WF_vars(\E r \in runs : Continues(r))

-----------------------------------------------------------------------------
PlanSet == [no : Nat, ver : Versions, at : 0..(MaxTime + Interval + Jitter)]

\* Every variable holds what the row and the coroutines can hold, and the key
\* is in _running exactly while a coroutine of the task exists.
TypeOK ==
    /\ now \in 0..MaxTime /\ last \in 0..MaxTime /\ ver \in Versions
    /\ present \in BOOLEAN /\ enabled \in BOOLEAN
    /\ plan \in PlanSet \cup {Null} /\ plans \in Nat
    /\ busy = (runs # {})
    /\ \A r \in runs : /\ r.mode \in {"timer", "now", "manual"}
                       /\ r.phase \in {"spawned", "performing", "backoff", "done"}
                       /\ r.attempts \in 0..(RetryMax + 1)

\* A task is never executed by two coroutines at once, whoever starts them
\* (scheduler.py: every entry looks at _running first).
NoOverlap == Cardinality({r \in runs : r.phase # "done"}) <= 1

\* Once a manual run has begun, the timer never again runs a plan made before
\* it: a crash does not turn the manual run into an overdue timer run
\* (scheduler.py:135-136).
ManualNotRepeated == \A r \in runs : r.mode = "timer" => r.plan > burned

\* The plan in the table was made from the schedule in the table, but for the
\* one a run started under an older schedule wrote (store.py replace_tasks).
PlanMatches == plan # Null /\ ~overtaken => plan.ver = ver

\* A run never leaves a plan that is due the moment it finished, which is what
\* the docstring of next_run says the floor is for (schedule.py:182-184).
NotAtOnce == early = {}

\* Only the jitter brings a plan forward to the run that makes it: of a cron
\* expression, whose moment may be that near, or of an interval that is no
\* longer than its jitter (schedule.py next_run, scheduler.py _reschedule).
AtOnceByJitter ==
    \A v \in early : Jitter > 0 /\ (v \in Cron \/ Jitter >= Interval)

\* scheduler.py _plan, _reschedule: a plan follows the schedule of its task, and
\* lies ahead of the run that made it unless the jitter brings it there.
PlanSound == PlanMatches /\ AtOnceByJitter

\* The row holds a plan whose time has come.
Due == present /\ enabled /\ plan # Null /\ plan.at <= now

\* A due plan leaves the row only with the report of its run, or because the
\* task is disabled, deleted, rescheduled or run by hand; and it does leave,
\* also when the agent dies in the middle of the run (scheduler.py tick_once,
\* _execute).
DueRuns ==
    /\ [][Due /\ plan' # plan =>
            answered' = plan.no \/ dropped' >= plan.no \/ ~enabled' \/ ~present']_vars
    /\ Due ~> ~Due
=============================================================================
