---------------------------- MODULE OfflineAlert ----------------------------
(***************************************************************************)
(* The offline alerter (alerts.py) for one module of one agent, the        *)
(* gateway session that feeds it (gateway.py) and the database worker      *)
(* both wait on (Database.run).                                            *)
(*                                                                         *)
(* The worker is one thread taking jobs in order; a job runs to its end    *)
(* even if the coroutine awaiting it was cancelled.  Finished jobs resume  *)
(* their coroutines in order, new tasks start in order, and between the    *)
(* two the event loop may choose either.                                   *)
(***************************************************************************)
EXTENDS Integers, Sequences

CONSTANTS
    MaxReports,  \* bound: connections, status frames and settings changes
    MaxRestart   \* bound: times the hub process is restarted

VARIABLES
    online,    \* hub db: devices.online
    incident,  \* hub db: the module's offline incident is not resolved
    enabled,   \* hub db: setting offline_alerts_enabled
    session,   \* gateway: none, ready, or the job the session awaits
    timer,     \* alerter: state of the coroutine in _pending, or idle
    alerted,   \* alerter: the module is in _alerted
    fresh,     \* event loop: spawned tasks that have not started
    jobs,      \* database worker: jobs not yet executed
    done,      \* event loop: executed jobs whose coroutine has not resumed
    noted,     \* history: what the alerter was told last
    pages,     \* history: the pushes it decided on
    sinceUp,   \* history: pages since the module was last reported online
    reports,   \* bound: reports so far
    restarts   \* bound: restarts so far

dbVars   == <<online, incident, enabled>>
taskVars == <<timer, alerted, fresh, noted, pages, sinceUp>>
counters == <<reports, restarts>>
vars == <<dbVars, session, taskVars, jobs, done, counters>>

\* What was announced last; nothing counts as the module being up.
LastPage(s) == IF s = <<>> THEN "online" ELSE s[Len(s)]

Init ==
    /\ online = FALSE /\ incident = FALSE /\ enabled = TRUE
    /\ session = "none"
    /\ timer = "idle" /\ alerted = FALSE /\ fresh = <<>>
    /\ jobs = <<>> /\ done = <<>>
    /\ noted = "nothing" /\ pages = <<>> /\ sinceUp = 0
    /\ reports = 0 /\ restarts = 0

-----------------------------------------------------------------------------
(* The gateway's session of this agent *)

\* One of the session's steps that waits for the database: hello lists the
\* module, a status frame states its condition, the connection ends.
Report(from, kind, on) ==
    /\ session = from /\ reports < MaxReports
    /\ session' = kind
    /\ jobs' = Append(jobs, [kind |-> kind, flag |-> on])
    /\ reports' = reports + 1
    /\ UNCHANGED <<dbVars, taskVars, done, restarts>>

hello(on) == Report("none", "hello", on)
_apply_status(on) == Report("ready", "status", on)
disconnect == Report("ready", "disconnect", FALSE)

\* The administrator switches offline alerts on or off.
put_settings ==
    /\ reports < MaxReports
    /\ enabled' = ~enabled
    /\ reports' = reports + 1
    /\ UNCHANGED <<online, incident, session, taskVars, jobs, done, restarts>>

-----------------------------------------------------------------------------
(* The database worker *)

\* The verdict of _record_offline: still down, and alerts still wanted.
record_offline == enabled /\ ~online

\* What the job returns to its coroutine.  `flag` is its argument: the state
\* reported, whether the timer still wants the answer, whether a page is to
\* be followed by an all-clear.
Answer(job) ==
    CASE job.kind = "disconnect" -> online
      [] job.kind = "enabled"    -> enabled
      [] job.kind = "record"     -> record_offline
      [] OTHER                   -> job.flag

\* The worker executes the oldest job: _persist_registration, _apply_status,
\* _persist_disconnect, the enabled setting, _record_offline, or
\* resolve_incident.
execute ==
    /\ jobs # <<>>
    /\ LET job == Head(jobs) IN
       /\ online' = CASE job.kind \in {"hello", "status"} -> job.flag
                      [] job.kind = "disconnect" -> FALSE
                      [] OTHER -> online
       /\ incident' = CASE job.kind = "record" -> incident \/ record_offline
                        [] job.kind = "resolve" -> FALSE
                        [] OTHER -> incident
       /\ done' = Append(done, [job |-> job, answer |-> Answer(job)])
    /\ jobs' = Tail(jobs)
    /\ UNCHANGED <<enabled, session, taskVars, counters>>

-----------------------------------------------------------------------------
(* The alerter *)

\* Jobs of the timer go on without it once it is cancelled.
Orphan(job) == IF job.kind \in {"enabled", "record"} THEN [job EXCEPT !.flag = FALSE] ELSE job
OrphanedJobs == [i \in 1..Len(jobs) |-> Orphan(jobs[i])]
OrphanedDone(rest) ==
    [i \in 1..Len(rest) |-> [rest[i] EXCEPT !.job = Orphan(rest[i].job)]]

\* Arm the grace timer, unless one is armed or the outage was paged.
note_offline(rest) ==
    /\ noted' = "offline"
    /\ IF timer # "idle" \/ alerted
         THEN UNCHANGED <<timer, fresh>>
         ELSE timer' = "new" /\ fresh' = Append(fresh, [kind |-> "enabled", flag |-> TRUE])
    /\ UNCHANGED <<alerted, sinceUp, jobs>> /\ done' = rest

\* Tasks start in the order they were spawned, and none is spawned behind a
\* timer that waits for its turn: cancelled, it drops out at the end.
NotStarted == IF timer = "new" THEN SubSeq(fresh, 1, Len(fresh) - 1) ELSE fresh

\* Mutant: only a paged outage resolves its incident.
note_online_if_alerted(rest) ==
    /\ noted' = "online" /\ sinceUp' = 0
    /\ timer' = "idle" /\ alerted' = FALSE
    /\ fresh' = NotStarted \o
           (IF alerted THEN <<[kind |-> "resolve", flag |-> TRUE]>> ELSE <<>>)
    /\ jobs' = OrphanedJobs /\ done' = OrphanedDone(rest)

\* Cancel the timer if there is one, forget the page, and spawn _recover.
note_online(rest) ==
    /\ noted' = "online" /\ sinceUp' = 0
    /\ timer' = "idle" /\ alerted' = FALSE
    /\ fresh' = Append(NotStarted, [kind |-> "resolve", flag |-> alerted])
    /\ jobs' = OrphanedJobs /\ done' = OrphanedDone(rest)

\* A spawned task runs to its first await: both kinds ask the database.
start ==
    /\ fresh # <<>>
    /\ jobs' = Append(jobs, Head(fresh))
    /\ timer' = IF Head(fresh).kind = "enabled" THEN "asking" ELSE timer
    /\ fresh' = Tail(fresh)
    /\ UNCHANGED <<dbVars, session, alerted, noted, pages, sinceUp, done, counters>>

\* The grace period is over: _fire_after_grace asks for the record.
grace_over ==
    /\ timer = "sleeping"
    /\ timer' = "recording"
    /\ jobs' = Append(jobs, [kind |-> "record", flag |-> TRUE])
    /\ UNCHANGED <<dbVars, session, alerted, fresh, noted, pages, sinceUp, done, counters>>

\* A session resumes: it is ready or gone, and notes what it learnt.
resume_session ==
    /\ done # <<>>
    /\ LET job == Head(done).job IN
       /\ job.kind \in {"hello", "status", "disconnect"}
       /\ session' = IF job.kind = "disconnect" THEN "none" ELSE "ready"
       /\ IF job.kind = "disconnect"
            THEN IF Head(done).answer THEN note_offline(Tail(done))
                 ELSE done' = Tail(done) /\ UNCHANGED <<noted, timer, alerted, fresh, sinceUp, jobs>>
            ELSE IF job.flag THEN note_online(Tail(done)) ELSE note_offline(Tail(done))
    /\ UNCHANGED <<dbVars, pages, counters>>

\* The timer learns that alerts are on and sleeps, or ends.
resume_enabled ==
    /\ done # <<>> /\ Head(done).job.kind = "enabled"
    /\ timer' = IF ~Head(done).job.flag THEN timer
                ELSE IF Head(done).answer THEN "sleeping" ELSE "idle"
    /\ done' = Tail(done)
    /\ UNCHANGED <<dbVars, session, alerted, fresh, noted, pages, sinceUp, jobs, counters>>

\* The timer learns that the outage was recorded and pages, or ends.
resume_record ==
    /\ done # <<>> /\ Head(done).job.kind = "record"
    /\ LET wanted == Head(done).job.flag
           pagesNow == wanted /\ Head(done).answer
       IN  /\ timer' = IF wanted THEN "idle" ELSE timer
           /\ alerted' = (alerted \/ pagesNow)
           /\ pages' = IF pagesNow THEN Append(pages, "offline") ELSE pages
           /\ sinceUp' = IF pagesNow THEN sinceUp + 1 ELSE sinceUp
    /\ done' = Tail(done)
    /\ UNCHANGED <<dbVars, session, fresh, noted, jobs, counters>>

\* _recover goes on: the all-clear follows only what was paged.
resume_recover ==
    /\ done # <<>> /\ Head(done).job.kind = "resolve"
    /\ pages' = IF Head(done).job.flag THEN Append(pages, "online") ELSE pages
    /\ done' = Tail(done)
    /\ UNCHANGED <<dbVars, session, timer, alerted, fresh, noted, sinceUp, jobs, counters>>

\* The hub process is killed and started: AppState.build marks every device
\* offline; whatever was in memory is gone.
restart ==
    /\ restarts < MaxRestart
    /\ restarts' = restarts + 1
    /\ online' = FALSE
    /\ session' = "none"
    /\ timer' = "idle" /\ alerted' = FALSE /\ fresh' = <<>>
    /\ jobs' = <<>> /\ done' = <<>>
    /\ noted' = "nothing"
    /\ UNCHANGED <<incident, enabled, pages, sinceUp, reports>>

-----------------------------------------------------------------------------
Next ==
    \/ \E on \in BOOLEAN : hello(on)
    \/ \E on \in BOOLEAN : _apply_status(on)
    \/ disconnect
    \/ put_settings
    \/ execute
    \/ start
    \/ grace_over
    \/ resume_session
    \/ resume_enabled
    \/ resume_record
    \/ resume_recover
    \/ restart

Spec == Init /\ [][Next]_vars

\* The worker thread and the event loop keep running, and time passes.
FairSpec ==
    /\ Spec
    /\ WF_vars(execute) /\ WF_vars(start) /\ WF_vars(grace_over)
    /\ WF_vars(resume_session) /\ WF_vars(resume_enabled)
    /\ WF_vars(resume_record) /\ WF_vars(resume_recover)

-----------------------------------------------------------------------------
Jobs == [kind : {"hello", "status", "disconnect", "enabled", "record", "resolve"},
         flag : BOOLEAN]

\* Jobs, executed or not, whose answer the timer waits for.
Wanted(kind) ==
    \/ \E i \in 1..Len(jobs) : jobs[i] = [kind |-> kind, flag |-> TRUE]
    \/ \E i \in 1..Len(done) : done[i].job = [kind |-> kind, flag |-> TRUE]

\* Every variable holds what the columns, sets and queues of the code can,
\* and the state of the timer is the job it waits for.
TypeOK ==
    /\ (timer = "asking") = Wanted("enabled")
    /\ (timer = "recording") = Wanted("record")
    /\ online \in BOOLEAN /\ incident \in BOOLEAN /\ enabled \in BOOLEAN
    /\ session \in {"none", "ready", "hello", "status", "disconnect"}
    /\ timer \in {"idle", "new", "asking", "sleeping", "recording"}
    /\ alerted \in BOOLEAN
    /\ fresh \in Seq([kind : {"enabled", "resolve"}, flag : BOOLEAN])
    /\ jobs \in Seq(Jobs)
    /\ done \in Seq([job : Jobs, answer : BOOLEAN])
    /\ noted \in {"nothing", "online", "offline"}
    /\ pages \in Seq({"online", "offline"})

\* Nothing is queued and nothing is about to run, but for a sleeping timer.
Quiet == jobs = <<>> /\ done = <<>> /\ fresh = <<>>

\* One page per outage and one all-clear per page, in that order: a cancelled
\* timer, a repeated report or a quick succession of drops never produces a
\* second page or an unannounced all-clear (alerts.py, module docstring).  A
\* restart forgets what was paged.
Alternates ==
    restarts = 0 => \A i \in 1..Len(pages) : pages[i] = IF i % 2 = 1 THEN "offline" ELSE "online"

\* alerts.py, module docstring: an outage is paged once; each restart of the hub,
\* which forgets what was paged, adds at most one page more.
OnePage == sinceUp <= 1 + restarts

\* Once the queues have drained, an open offline incident means the module is
\* down, and a paged outage has its incident: the record a cancelled timer
\* still makes is resolved by the recovery that cancelled it.
IncidentMatches ==
    Quiet => (incident => ~online) /\ (alerted => incident)

\* While alerts stay enabled, an outage the gateway noted ends in recovery or
\* in a page (a restart of the hub forgets the timer).
Paged ==
    [](enabled /\ restarts = 0) => (noted = "offline" ~> noted = "online" \/ LastPage(pages) = "offline")

\* A page is followed by the all-clear unless the module is down again.
Recovered ==
    [](restarts = 0) => (noted = "online" ~> noted = "offline" \/ LastPage(pages) = "online")
=============================================================================
