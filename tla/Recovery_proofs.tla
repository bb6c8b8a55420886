--------------------------- MODULE Recovery_proofs ---------------------------
(***************************************************************************)
(* Theorems about Recovery for every limit, window, delay, cooldown and    *)
(* health threshold.                                                       *)
(*                                                                         *)
(* Every step saves the record it changes, and none forgets an attempt of  *)
(* the last 24 hours (MemKept); an action is entered before it is taken    *)
(* and only below the limit and after the cooldown (Started).  So the      *)
(* actions of a window are among the attempts on record (Times), and there *)
(* are at most as many as the limit, each a cooldown after the one before. *)
(* What a sampler is doing, and since when, is known from its place in the *)
(* code (Control), which is what tells two actions at once apart and, when *)
(* they do not overlap, brings the radio back.                             *)
(***************************************************************************)
EXTENDS Recovery, TLAPS, FiniteSetTheorems

(* The fields of a recovery record.                                        *)
LEMMA RecordType ==
    ASSUME NEW m \in Records
    PROVE  /\ m.stage \in 0 .. 2 /\ m.attempts \in SUBSET Attempts
           /\ m.inflight \in {"none", "serial_reconnect"} \cup Actions
           /\ m.issue \in BOOLEAN /\ m.limit \in BOOLEAN
  BY DEF Records

(* A record with another stage of the ladder.                              *)
LEMMA StageSet ==
    ASSUME NEW m \in Records, NEW v \in 0 .. 2
    PROVE  LET w == [m EXCEPT !.stage = v]
           IN  w \in Records /\ w.attempts = m.attempts /\ w.issue = m.issue
  BY DEF Records

(* A record with another note of the limit.                                *)
LEMMA LimitSet ==
    ASSUME NEW m \in Records, NEW v \in BOOLEAN
    PROVE  LET w == [m EXCEPT !.limit = v]
           IN  w \in Records /\ w.attempts = m.attempts /\ w.issue = m.issue
  BY DEF Records

(* A record that owns an incident or gives it up.                          *)
LEMMA IssueSet ==
    ASSUME NEW m \in Records, NEW v \in BOOLEAN
    PROVE  LET w == [m EXCEPT !.issue = v]
           IN  w \in Records /\ w.attempts = m.attempts /\ w.issue = v
  BY DEF Records

(* A record with another action in flight.                                 *)
LEMMA InflightSet ==
    ASSUME NEW m \in Records, NEW v \in {"none", "serial_reconnect"} \cup Actions
    PROVE  LET w == [m EXCEPT !.inflight = v]
           IN  w \in Records /\ w.attempts = m.attempts /\ w.issue = m.issue
  BY DEF Records

(* A record with other attempts.                                           *)
LEMMA AttemptsSet ==
    ASSUME NEW m \in Records, NEW v \in SUBSET Attempts
    PROVE  LET w == [m EXCEPT !.attempts = v]
           IN  w \in Records /\ w.attempts = v /\ w.issue = m.issue
  BY DEF Records

(* The record of a module that is well again.                              *)
LEMMA QuietRecord ==
    ASSUME NEW m \in Records
    PROVE  LET quiet == [m EXCEPT !.stage = 0, !.limit = FALSE]
           IN  quiet \in Records /\ quiet.attempts = m.attempts /\ quiet.issue = m.issue
<1> DEFINE w == [m EXCEPT !.stage = 0]
<1>1. 0 \in 0 .. 2 /\ FALSE \in BOOLEAN
  OBVIOUS
<1>2. w \in Records /\ w.attempts = m.attempts /\ w.issue = m.issue
  BY <1>1, StageSet, Zenon
<1>3. [m EXCEPT !.stage = 0, !.limit = FALSE] = [w EXCEPT !.limit = FALSE]
  OBVIOUS
<1> HIDE DEF w
<1>4. LET v == [w EXCEPT !.limit = FALSE]
      IN  v \in Records /\ v.attempts = w.attempts /\ v.issue = w.issue
  BY <1>1, <1>2, LimitSet, Zenon
<1> QED BY <1>2, <1>3, <1>4

(* The record when an action ends: only a failed one keeps the incident.   *)
LEMMA FinishedRecord ==
    ASSUME NEW m \in Records, NEW outcome
    PROVE  /\ Finished(m, outcome) \in Records
           /\ Finished(m, outcome).attempts = m.attempts
           /\ Finished(m, outcome).issue = (m.issue /\ outcome = "failed")
<1> DEFINE w == [m EXCEPT !.inflight = "none"]
           b == m.issue /\ outcome = "failed"
<1>1. "none" \in {"none", "serial_reconnect"} \cup Actions /\ b \in BOOLEAN
  OBVIOUS
<1>2. w \in Records /\ w.attempts = m.attempts /\ w.issue = m.issue
  BY <1>1, InflightSet, Zenon
<1>3. Finished(m, outcome) = [w EXCEPT !.issue = b]
  BY DEF Finished, Records
<1> HIDE DEF w, b
<1>4. LET v == [w EXCEPT !.issue = b]
      IN  v \in Records /\ v.attempts = w.attempts /\ v.issue = b
  BY <1>1, <1>2, IssueSet, Zenon
<1> QED BY <1>2, <1>3, <1>4, Zenon DEF b

(* The record when an action starts: it owns the incident.                 *)
LEMMA StartedRecord ==
    ASSUME NEW m \in Records, NEW action \in {"serial_reconnect"} \cup Actions
    PROVE  LET w == [m EXCEPT !.inflight = action, !.issue = TRUE]
           IN  w \in Records /\ w.attempts = m.attempts /\ w.issue = TRUE
<1> DEFINE w == [m EXCEPT !.inflight = action]
<1>1. action \in {"none", "serial_reconnect"} \cup Actions /\ TRUE \in BOOLEAN
  OBVIOUS
<1>2. w \in Records /\ w.attempts = m.attempts
  BY <1>1, InflightSet, Zenon
<1>3. [m EXCEPT !.inflight = action, !.issue = TRUE] = [w EXCEPT !.issue = TRUE]
  OBVIOUS
<1> HIDE DEF w
<1>4. LET v == [w EXCEPT !.issue = TRUE]
      IN  v \in Records /\ v.attempts = w.attempts /\ v.issue = TRUE
  BY <1>1, <1>2, IssueSet, Zenon
<1> QED BY <1>2, <1>3, <1>4

(* The record when the limit is reached: it owns the incident.             *)
LEMMA LimitRecord ==
    ASSUME NEW m \in Records
    PROVE  LET w == [m EXCEPT !.limit = TRUE, !.issue = TRUE]
           IN  w \in Records /\ w.attempts = m.attempts /\ w.issue = TRUE
<1> DEFINE w == [m EXCEPT !.limit = TRUE]
<1>1. TRUE \in BOOLEAN
  OBVIOUS
<1>2. w \in Records /\ w.attempts = m.attempts
  BY <1>1, LimitSet, Zenon
<1>3. [m EXCEPT !.limit = TRUE, !.issue = TRUE] = [w EXCEPT !.issue = TRUE]
  OBVIOUS
<1> HIDE DEF w
<1>4. LET v == [w EXCEPT !.issue = TRUE]
      IN  v \in Records /\ v.attempts = w.attempts /\ v.issue = TRUE
  BY <1>1, <1>2, IssueSet, Zenon
<1> QED BY <1>2, <1>3, <1>4

\* The attempts of the last 24 hours.
Recent == {a \in mem.attempts : InWindow(a.at)}

\* The entry of an attempt made now.
Entry == [no |-> Len(actions) + 1, at |-> now]

(* _prune_recovery_attempts keeps the attempts of the window.              *)
LEMMA PrunedRecord ==
    ASSUME mem \in Records
    PROVE  /\ _prune_recovery_attempts \in Records
           /\ _prune_recovery_attempts.attempts = Recent
           /\ _prune_recovery_attempts.issue = mem.issue
<1> DEFINE w == [mem EXCEPT !.attempts = Recent]
           b == mem.limit /\ Cardinality(Recent) >= Limit
<1>1. Recent \in SUBSET Attempts /\ b \in BOOLEAN
  BY RecordType DEF Recent
<1>2. w \in Records /\ w.attempts = Recent /\ w.issue = mem.issue
  BY <1>1, AttemptsSet, Zenon
<1>3. _prune_recovery_attempts = [w EXCEPT !.limit = b]
  BY DEF _prune_recovery_attempts, Recent, Records
<1> HIDE DEF w, b
<1>4. LET v == [w EXCEPT !.limit = b]
      IN  v \in Records /\ v.attempts = w.attempts /\ v.issue = w.issue
  BY <1>1, <1>2, LimitSet, Zenon
<1> QED BY <1>2, <1>3, <1>4

-----------------------------------------------------------------------------
(* What the steps do to the record *)

\* The record stays well formed, the incident stays owned, and no attempt of
\* the last 24 hours is forgotten.
MemKept ==
    /\ mem' \in Records /\ disk' = mem'
    /\ incident' \in BOOLEAN /\ (incident' => mem'.issue)
    /\ mem'.attempts \subseteq mem.attempts
    /\ Recent \subseteq mem'.attempts

\* A registration recovery action is entered in the record before it is taken.
Started(p) ==
    /\ mem' \in Records /\ disk' = mem'
    /\ incident' \in BOOLEAN /\ mem'.issue
    /\ mem'.attempts = Recent \cup {Entry}
    /\ ~(Cardinality(Recent) >= Limit)
    /\ ~\E a \in Recent : now - a.at < Cooldown
    /\ actions' = Append(actions, now)
    /\ overlap' = (overlap \/ \E q \in Samplers : doing[q] # "none")
    /\ begun' = [begun EXCEPT ![p] = now]
    /\ doing' = [doing EXCEPT ![p] = Ladder[mem.stage + 1]]
    /\ pc' = [pc EXCEPT ![p] = IF Ladder[mem.stage + 1] = "module_reset" THEN "reset" ELSE "allowed"]

(* A record is saved with all attempts, or with those of the window.       *)
LEMMA SaveKeeps ==
    ASSUME NEW m \in Records, Save(m), mem \in Records,
           incident' \in BOOLEAN, incident' => m.issue,
           m.attempts = mem.attempts \/ m.attempts = Recent
    PROVE  MemKept
  BY DEF MemKept, Save, Recent

(* Record and incident stay.                                               *)
LEMMA SameKeeps ==
    ASSUME TypeOK, IncidentHasOwner, UNCHANGED <<mem, disk, incident>>
    PROVE  MemKept
  BY DEF MemKept, TypeOK, IncidentHasOwner, Recent

(* _finish_recovery closes the incident with the ownership.                *)
LEMMA FinishKeeps ==
    ASSUME TypeOK, IncidentHasOwner, NEW m \in Records, NEW outcome,
           m.attempts = mem.attempts, m.issue = mem.issue, _finish_recovery(m, outcome)
    PROVE  MemKept
<1>1. incident' = (incident /\ outcome = "failed") /\ Save(Finished(m, outcome))
  BY DEF _finish_recovery
<1>2. /\ Finished(m, outcome) \in Records
      /\ Finished(m, outcome).attempts = mem.attempts
      /\ Finished(m, outcome).issue = (mem.issue /\ outcome = "failed")
  BY FinishedRecord
<1>3. incident => mem.issue
  BY DEF TypeOK, IncidentHasOwner
<1>4. incident' \in BOOLEAN /\ (incident' => Finished(m, outcome).issue)
  BY <1>1, <1>2, <1>3
<1>5. mem \in Records
  BY DEF TypeOK
<1> QED BY <1>1, <1>2, <1>4, <1>5, SaveKeeps

(* close_issue, for a module that is well or switched off.                 *)
LEMMA CloseKeeps ==
    ASSUME TypeOK, IncidentHasOwner, NEW outcome, close_issue(mem, outcome)
    PROVE  MemKept /\ since' = Never
<1> DEFINE quiet == [mem EXCEPT !.stage = 0, !.limit = FALSE]
<1>1. mem \in Records /\ incident \in BOOLEAN /\ (incident => mem.issue)
  BY DEF TypeOK, IncidentHasOwner
<1>2. quiet \in Records /\ quiet.attempts = mem.attempts /\ quiet.issue = mem.issue
  BY <1>1, QuietRecord, Zenon
<1>3. /\ since' = Never
      /\ _finish_recovery(quiet, outcome) \/ (Save(quiet) /\ incident' = incident)
  BY DEF close_issue
<1> HIDE DEF quiet
<1>4. CASE _finish_recovery(quiet, outcome)
  BY <1>2, <1>3, <1>4, FinishKeeps
<1>5. CASE Save(quiet) /\ incident' = incident
  BY <1>1, <1>2, <1>3, <1>5, SaveKeeps
<1> QED BY <1>3, <1>4, <1>5

(* _start_recovery opens the incident and takes ownership.                 *)
LEMMA StartKeeps ==
    ASSUME TypeOK, _start_recovery(mem, "serial_reconnect")
    PROVE  MemKept
<1> DEFINE w == [mem EXCEPT !.inflight = "serial_reconnect", !.issue = TRUE]
<1>1. Save(w) /\ incident' = TRUE
  BY DEF _start_recovery
<1>2. mem \in Records
  BY DEF TypeOK
<1>3. "serial_reconnect" \in {"serial_reconnect"} \cup Actions
  OBVIOUS
<1>4. w \in Records /\ w.attempts = mem.attempts /\ w.issue = TRUE
  BY <1>2, <1>3, StartedRecord, Zenon
<1> HIDE DEF w
<1> QED BY <1>1, <1>2, <1>4, SaveKeeps

(* The end of a command that switched the radio.                           *)
LEMMA AfterCommandKeeps ==
    ASSUME TypeOK, IncidentHasOwner, NEW off, after_command(off)
    PROVE  MemKept /\ since' \in {Never, now}
<1>1. CASE \E outcome : close_issue(mem, outcome)
  BY <1>1, CloseKeeps
<1>2. CASE since' = now /\ UNCHANGED <<mem, disk, incident>>
  BY <1>2, SameKeeps
<1> QED BY <1>1, <1>2 DEF after_command

(* A sample concludes what an action achieved.                             *)
LEMMA ConcludeKeeps ==
    ASSUME TypeOK, IncidentHasOwner, NEW p \in Samplers, NEW recovered, conclude(p, recovered)
    PROVE  MemKept /\ since' \in {Never, since} /\ registered' \in BOOLEAN
<1>1. mem \in Records /\ registered \in BOOLEAN
  BY DEF TypeOK
<1>2. CASE recovered
  <2> DEFINE quiet == [mem EXCEPT !.stage = 0, !.limit = FALSE]
  <2>1. quiet \in Records /\ quiet.attempts = mem.attempts /\ quiet.issue = mem.issue
    BY <1>1, QuietRecord, Zenon
  <2>2. registered' = TRUE /\ since' = Never /\ _finish_recovery(quiet, "succeeded")
    BY <1>2 DEF conclude
  <2> HIDE DEF quiet
  <2> QED BY <2>1, <2>2, FinishKeeps
<1>3. CASE ~recovered
  <2> DEFINE w == [mem EXCEPT !.stage = (mem.stage + 1) % 3]
  <2>1. mem.stage \in 0 .. 2 /\ (mem.stage + 1) % 3 \in 0 .. 2
    BY <1>1, RecordType
  <2>2. w \in Records /\ w.attempts = mem.attempts /\ w.issue = mem.issue
    BY <1>1, <2>1, StageSet, Zenon
  <2>3. UNCHANGED <<registered, since>> /\ _finish_recovery(w, "failed")
    BY <1>3 DEF conclude
  <2> HIDE DEF w
  <2> QED BY <1>1, <2>2, <2>3, FinishKeeps
<1> QED BY <1>2, <1>3

\* _maybe_recover_registration ends the sample, or starts an action.
LEMMA DecideKeeps ==
    ASSUME TypeOK, IncidentHasOwner, actions \in Seq(Nat), NEW p \in Samplers, _maybe_recover_registration(p)
    PROVE  /\ since' \in {Never, since, now}
           /\ \/ /\ MemKept /\ UNCHANGED <<doing, begun, actions, overlap>>
                 /\ pc' = [pc EXCEPT ![p] = "idle"]
              \/ Started(p)
<1> DEFINE start == IF since = Never THEN now ELSE since
           m == _prune_recovery_attempts
           action == Ladder[m.stage + 1]
<1>1. mem \in Records /\ incident \in BOOLEAN /\ (incident => mem.issue)
  BY DEF TypeOK, IncidentHasOwner
<1>2. m \in Records /\ m.attempts = Recent /\ m.issue = mem.issue
  BY <1>1, PrunedRecord
<1>3. m.stage = mem.stage /\ mem.stage \in 0 .. 2
  BY <1>1, RecordType DEF _prune_recovery_attempts, Records
<1>4. CASE \E outcome : /\ close_issue(mem, outcome) /\ UNCHANGED <<doing, begun, actions, overlap>>
                        /\ pc' = [pc EXCEPT ![p] = "idle"]
  BY <1>4, CloseKeeps
<1>5. CASE /\ since' = start /\ UNCHANGED <<mem, disk, incident, doing, begun, actions, overlap>>
           /\ pc' = [pc EXCEPT ![p] = "idle"]
  BY <1>5, SameKeeps
<1>6. CASE /\ since' = start /\ _report_recovery_limit(m) /\ UNCHANGED <<doing, begun, actions, overlap>>
           /\ pc' = [pc EXCEPT ![p] = "idle"]
  <2> DEFINE w == [m EXCEPT !.limit = TRUE, !.issue = TRUE]
  <2> HIDE DEF m
  <2>1. w \in Records /\ w.attempts = m.attempts /\ w.issue = TRUE
    BY <1>2, LimitRecord, Zenon
  <2>2. (Save(m) /\ incident' = incident) \/ (Save(w) /\ incident' = TRUE)
    BY <1>6 DEF _report_recovery_limit
  <2> HIDE DEF w
  <2>3. CASE Save(m) /\ incident' = incident
    BY <1>1, <1>2, <1>6, <2>3, SaveKeeps
  <2>4. CASE Save(w) /\ incident' = TRUE
    BY <1>1, <1>2, <1>6, <2>1, <2>4, SaveKeeps
  <2> QED BY <2>2, <2>3, <2>4
<1>7. CASE /\ since' = start /\ Save(m) /\ UNCHANGED <<incident, doing, begun, actions, overlap>>
           /\ pc' = [pc EXCEPT ![p] = "idle"]
  <2> HIDE DEF m
  <2>1. MemKept
    BY <1>1, <1>2, <1>7, SaveKeeps
  <2> QED BY <1>7, <2>1
<1>8. CASE /\ since' = start /\ ~Exhausted(m) /\ ~Cooling(m)
           /\ _start_recovery([m EXCEPT !.attempts = m.attempts \cup {Entry}], action)
           /\ actions' = Append(actions, now)
           /\ overlap' = (overlap \/ \E q \in Samplers : doing[q] # "none")
           /\ doing' = [doing EXCEPT ![p] = action] /\ begun' = [begun EXCEPT ![p] = now]
           /\ To(p, IF action = "module_reset" THEN "reset" ELSE "allowed")
  <2> HIDE DEF m
  <2> DEFINE w == [m EXCEPT !.attempts = m.attempts \cup {Entry}]
             v == [w EXCEPT !.inflight = action, !.issue = TRUE]
  <2>1. m.attempts \cup {Entry} \in SUBSET Attempts
    <3>1. Entry \in Attempts
      <4>1. now \in 0 .. MaxNow /\ Len(actions) + 1 \in Nat
        BY DEF TypeOK
      <4> QED BY <4>1 DEF Entry, Attempts
    <3>2. m.attempts \in SUBSET Attempts
      BY <1>2, RecordType
    <3> QED BY <3>1, <3>2
  <2>2. w \in Records /\ w.attempts = m.attempts \cup {Entry}
    BY <1>2, <2>1, AttemptsSet, Zenon
  <2>3. action \in {"serial_reconnect"} \cup Actions
    BY <1>3 DEF Actions
  <2>4. Save(v) /\ incident' = TRUE
    BY <1>8 DEF _start_recovery
  <2> HIDE DEF w
  <2>5. v \in Records /\ v.attempts = w.attempts /\ v.issue = TRUE
    BY <2>2, <2>3, StartedRecord, Zenon
  <2> HIDE DEF v
  <2>6. mem' \in Records /\ disk' = mem' /\ incident' \in BOOLEAN /\ mem'.issue
    BY <2>4, <2>5 DEF Save
  <2>7. mem'.attempts = Recent \cup {Entry}
    BY <1>2, <2>2, <2>4, <2>5 DEF Save
  <2>8. ~(Cardinality(Recent) >= Limit) /\ ~\E a \in Recent : now - a.at < Cooldown
    BY <1>2, <1>8 DEF Exhausted, Cooling
  <2>9. action = Ladder[mem.stage + 1]
    BY <1>3
  <2>10. Started(p)
    BY <1>8, <2>6, <2>7, <2>8, <2>9 DEF Started, To
  <2> QED BY <1>8, <2>10
<1> HIDE DEF m
<1> QED BY <1>4, <1>5, <1>6, <1>7, <1>8 DEF _maybe_recover_registration, m, To, Entry

(* _connect settles the action the last process left in flight.            *)
LEMMA ConnectKeeps ==
    ASSUME TypeOK, IncidentHasOwner, _connect
    PROVE  MemKept /\ since' \in {Never, now}
<1> DEFINE outcome == CASE mem.inflight = "serial_reconnect" -> "succeeded"
                        [] ~radio' -> "cancelled"
                        [] registered' -> "succeeded"
                        [] OTHER -> "failed"
           m == IF Interrupted(mem) THEN Finished(mem, outcome) ELSE mem
           open == IF Interrupted(mem) THEN incident /\ outcome = "failed" ELSE incident
           quiet == [m EXCEPT !.stage = 0, !.limit = FALSE]
           none == IF m.issue THEN "none" ELSE quiet.inflight
           closed == [quiet EXCEPT !.inflight = none, !.issue = FALSE]
<1>1. mem \in Records /\ incident \in BOOLEAN /\ (incident => mem.issue)
  BY DEF TypeOK, IncidentHasOwner
<1>2. \/ since' = Never /\ Save(closed) /\ incident' = (open /\ ~m.issue)
      \/ since' = now /\ Save(m) /\ incident' = open
  BY DEF _connect
<1> HIDE DEF outcome
<1>3. m \in Records /\ m.attempts = mem.attempts
  BY <1>1, FinishedRecord
<1>4. open \in BOOLEAN /\ (open => m.issue)
  <2>1. CASE Interrupted(mem)
    <3>1. Finished(mem, outcome).issue = (mem.issue /\ outcome = "failed")
      BY <1>1, FinishedRecord
    <3> QED BY <1>1, <2>1, <3>1
  <2>2. CASE ~Interrupted(mem)
    BY <1>1, <2>2
  <2> QED BY <2>1, <2>2
<1> HIDE DEF m, open
<1>5. quiet \in Records /\ quiet.attempts = m.attempts
  BY <1>3, QuietRecord, Zenon
<1>6. none \in {"none", "serial_reconnect"} \cup Actions
  BY <1>5, RecordType
<1> HIDE DEF quiet, none
<1>7. closed \in Records /\ closed.attempts = quiet.attempts
  <2> DEFINE w == [quiet EXCEPT !.inflight = none]
  <2>1. w \in Records /\ w.attempts = quiet.attempts
    BY <1>5, <1>6, InflightSet, Zenon
  <2>2. closed = [w EXCEPT !.issue = FALSE] /\ FALSE \in BOOLEAN
    OBVIOUS
  <2> HIDE DEF w, closed
  <2>3. LET v == [w EXCEPT !.issue = FALSE]
        IN  v \in Records /\ v.attempts = w.attempts /\ v.issue = FALSE
    BY <2>1, <2>2, IssueSet, Zenon
  <2> QED BY <2>1, <2>2, <2>3
<1> HIDE DEF closed
<1>8. CASE since' = Never /\ Save(closed) /\ incident' = (open /\ ~m.issue)
  <2>1. incident' \in BOOLEAN /\ ~incident'
    BY <1>4, <1>8
  <2> QED BY <1>1, <1>3, <1>5, <1>7, <1>8, <2>1, SaveKeeps
<1>9. CASE since' = now /\ Save(m) /\ incident' = open
  BY <1>1, <1>3, <1>4, <1>9, SaveKeeps
<1> QED BY <1>2, <1>8, <1>9

(* _load_recovery_state reads the saved record and prunes it.              *)
LEMMA KillKeeps ==
    ASSUME TypeOK, IncidentHasOwner, kill
    PROVE  MemKept
<1> DEFINE w == [mem EXCEPT !.attempts = Recent]
<1>1. mem \in Records /\ disk = mem /\ incident \in BOOLEAN /\ (incident => mem.issue)
  BY DEF TypeOK, IncidentHasOwner
<1>2. Save(w) /\ incident' = incident
  BY <1>1 DEF kill, _load_recovery_state, Recent
<1>3. Recent \in SUBSET Attempts
  BY <1>1, RecordType DEF Recent
<1>4. w \in Records /\ w.attempts = Recent /\ w.issue = mem.issue
  BY <1>1, <1>3, AttemptsSet, Zenon
<1> HIDE DEF w
<1> QED BY <1>1, <1>2, <1>4, SaveKeeps

(* The reset of the module starts the ladder again.                        *)
LEMMA ResetKeeps ==
    ASSUME TypeOK, IncidentHasOwner, NEW p \in Samplers, module_reset(p)
    PROVE  MemKept
<1> DEFINE w == [mem EXCEPT !.stage = 0]
<1>1. mem \in Records /\ disk = mem /\ incident \in BOOLEAN /\ (incident => mem.issue)
  BY DEF TypeOK, IncidentHasOwner
<1>2. Save(w) /\ incident' = incident
  BY DEF module_reset
<1>3. 0 \in 0 .. 2
  OBVIOUS
<1>4. w \in Records /\ w.attempts = mem.attempts /\ w.issue = mem.issue
  BY <1>1, <1>3, StageSet, Zenon
<1> HIDE DEF w
<1> QED BY <1>1, <1>2, <1>4, SaveKeeps

-----------------------------------------------------------------------------
(* Type correctness *)

\* The steps that leave the record alone.
LEMMA RecordUntouched ==
    ASSUME NEW p \in Samplers, NEW mode \in {"auto", "manual"},
           \/ _read_state(p) \/ cycle_radio(p) \/ _teardown \/ port_dies
           \/ select_operator(mode) \/ network_changes \/ tick
    PROVE  UNCHANGED <<mem, disk, incident, since, actions>>
  BY DEF _read_state, cycle_radio, _teardown, port_dies, select_operator, network_changes, tick

\* The health check enters a reconnection in the record, or nothing.
LEMMA HealthKeeps ==
    ASSUME TypeOK, IncidentHasOwner, NEW p \in Samplers, _check_health(p)
    PROVE  MemKept
<1>1. UNCHANGED <<mem, disk, incident>> \/ _start_recovery(mem, "serial_reconnect")
  BY DEF _check_health
<1> QED BY <1>1, SameKeeps, StartKeeps

\* An action of the ladder goes on, or is concluded.
LEMMA ActionKeeps ==
    ASSUME TypeOK, IncidentHasOwner, NEW p \in Samplers, recovery_action(p) \/ check_registration(p)
    PROVE  MemKept /\ since' \in {Never, since} /\ registered' \in BOOLEAN /\ actions' = actions
<1>1. actions' = actions
  BY DEF recovery_action, check_registration
<1>2. CASE \E recovered : conclude(p, recovered)
  BY <1>1, <1>2, ConcludeKeeps
<1>3. CASE UNCHANGED <<registered, since, mem, disk, incident>>
  BY <1>1, <1>3, SameKeeps DEF TypeOK
<1> QED BY <1>2, <1>3 DEF recovery_action, check_registration

\* Whatever the step, it keeps the record or starts an action.
LEMMA RecordStep ==
    ASSUME TypeOK, IncidentHasOwner, actions \in Seq(Nat), Next
    PROVE  /\ since' \in Never .. now
           /\ \/ MemKept /\ actions' = actions
              \/ \E p \in Samplers : _maybe_recover_registration(p) /\ Started(p)
<1>1. ASSUME NEW p \in Samplers, _maybe_recover_registration(p)
      PROVE  /\ since' \in {Never, since, now}
             /\ (MemKept /\ actions' = actions) \/ Started(p)
  BY <1>1, DecideKeeps
<1>2. ASSUME NEW p \in Samplers, _check_health(p)
      PROVE  MemKept /\ UNCHANGED <<since, actions>>
  BY <1>2, HealthKeeps DEF _check_health
<1>3. ASSUME NEW p \in Samplers, recovery_action(p) \/ check_registration(p)
      PROVE  MemKept /\ actions' = actions /\ since' \in {Never, since}
  BY <1>3, ActionKeeps
<1>4. ASSUME NEW p \in Samplers, module_reset(p)
      PROVE  MemKept /\ actions' = actions /\ since' = begun[p]
  BY <1>4, ResetKeeps DEF module_reset
<1>5. ASSUME _connect
      PROVE  MemKept /\ actions' = actions /\ since' \in {Never, now}
  BY <1>5, ConnectKeeps DEF _connect
<1>6. ASSUME kill
      PROVE  MemKept /\ actions' = actions /\ since' = Never
  BY <1>6, KillKeeps DEF kill
<1>7. ASSUME NEW on \in BOOLEAN, set_radio_enabled(on)
      PROVE  MemKept /\ actions' = actions /\ since' \in {Never, now}
  BY <1>7, AfterCommandKeeps DEF set_radio_enabled
<1>8. ASSUME select_settled
      PROVE  MemKept /\ actions' = actions /\ since' \in {Never, now}
  BY <1>8, AfterCommandKeeps DEF select_settled
<1>9. ASSUME NEW p \in Samplers, NEW mode \in {"auto", "manual"},
             \/ _read_state(p) \/ cycle_radio(p) \/ _teardown \/ port_dies
             \/ select_operator(mode) \/ network_changes \/ tick
      PROVE  MemKept /\ UNCHANGED <<since, actions>>
  BY <1>9, RecordUntouched, SameKeeps
<1>10. "loop" \in Samplers /\ "auto" \in {"auto", "manual"}
  BY DEF Samplers
<1>11. \/ since' \in {Never, since, now}
       \/ \E p \in Samplers : since' = begun[p]
  BY <1>1, <1>2, <1>3, <1>4, <1>5, <1>6, <1>7, <1>8, <1>9, <1>10 DEF Next, Goes
<1>12. since' \in Never .. now
  <2>1. /\ since \in Never .. now /\ now \in Nat /\ \A p \in Samplers : begun[p] \in Never .. now
    BY RecoveryAssumption DEF TypeOK
  <2> QED BY <1>11, <2>1 DEF Never
<1>13. \/ MemKept /\ actions' = actions
       \/ \E p \in Samplers : _maybe_recover_registration(p) /\ Started(p)
  BY <1>1, <1>2, <1>3, <1>4, <1>5, <1>6, <1>7, <1>8, <1>9, <1>10 DEF Next, Goes
<1> QED BY <1>12, <1>13

\* Time stands still or advances by a tick.
LEMMA TimeStep ==
    ASSUME TypeOK, Next
    PROVE  now' \in 0 .. MaxNow /\ (now' = now \/ now' = now + 1)
<1>1. now \in 0 .. MaxNow /\ MaxNow \in Nat
  BY RecoveryAssumption DEF TypeOK
<1>2. CASE tick
  BY <1>1, <1>2 DEF tick
<1>3. CASE UNCHANGED now
  BY <1>1, <1>3
<1> QED BY <1>2, <1>3 DEF Next, Goes, _check_health, _read_state, _maybe_recover_registration,
      recovery_action, cycle_radio, check_registration, module_reset, _connect, _teardown,
      port_dies, kill, set_radio_enabled, select_operator, select_settled, network_changes

\* The variables of the module and the worker.
LEMMA FlagsStep ==
    ASSUME TypeOK, IncidentHasOwner, Next
    PROVE  /\ rf' \in BOOLEAN /\ net' \in BOOLEAN /\ manual' \in BOOLEAN /\ radio' \in BOOLEAN
           /\ registered' \in BOOLEAN /\ wanted' \in BOOLEAN
           /\ link' \in {"down", "up", "lost"} /\ live' \in SUBSET Samplers
           /\ selecting' \in {"none", "auto", "manual"}
<1> DEFINE Flags == /\ rf' \in BOOLEAN /\ net' \in BOOLEAN /\ manual' \in BOOLEAN /\ radio' \in BOOLEAN
                    /\ registered' \in BOOLEAN /\ wanted' \in BOOLEAN
                    /\ link' \in {"down", "up", "lost"} /\ live' \in SUBSET Samplers
                    /\ selecting' \in {"none", "auto", "manual"}
<1>0. /\ rf \in BOOLEAN /\ net \in BOOLEAN /\ manual \in BOOLEAN /\ radio \in BOOLEAN
      /\ registered \in BOOLEAN /\ wanted \in BOOLEAN
      /\ link \in {"down", "up", "lost"} /\ live \in SUBSET Samplers
      /\ selecting \in {"none", "auto", "manual"}
  BY DEF TypeOK
<1>1. ASSUME NEW p \in Samplers, _check_health(p) PROVE Flags
  BY <1>0, <1>1 DEF _check_health, moduleVars
<1>2. ASSUME NEW p \in Samplers, _read_state(p) PROVE Flags
  BY <1>0, <1>2 DEF _read_state, moduleVars
<1>3. ASSUME NEW p \in Samplers, _maybe_recover_registration(p) PROVE Flags
  BY <1>0, <1>3 DEF _maybe_recover_registration, moduleVars
<1>4. ASSUME NEW p \in Samplers, recovery_action(p) PROVE Flags
  <2>1. registered' \in BOOLEAN
    BY <1>4, ActionKeeps
  <2>2. rf' \in {rf, FALSE}
    BY <1>4 DEF recovery_action
  <2> QED BY <1>0, <1>4, <2>1, <2>2 DEF recovery_action
<1>5. ASSUME NEW p \in Samplers, cycle_radio(p) PROVE Flags
  BY <1>0, <1>5 DEF cycle_radio
<1>6. ASSUME NEW p \in Samplers, check_registration(p) PROVE Flags
  <2>1. registered' \in BOOLEAN
    BY <1>6, ActionKeeps
  <2> QED BY <1>0, <1>6, <2>1 DEF check_registration, moduleVars
<1>7. ASSUME NEW p \in Samplers, module_reset(p) PROVE Flags
  <2>1. rf' \in {rf, TRUE} /\ link' \in {"lost", link} /\ live' \in {{}, live}
    BY <1>7 DEF module_reset
  <2> QED BY <1>0, <1>7, <2>1 DEF module_reset
<1>8. ASSUME _connect PROVE Flags
  BY <1>0, <1>8 DEF _connect, moduleVars, procVars
<1>9. ASSUME _teardown PROVE Flags
  BY <1>0, <1>9 DEF _teardown, moduleVars
<1>10. ASSUME port_dies PROVE Flags
  BY <1>0, <1>10 DEF port_dies, moduleVars
<1>11. ASSUME kill PROVE Flags
  BY <1>0, <1>11 DEF kill, moduleVars
<1>12. ASSUME NEW on \in BOOLEAN, set_radio_enabled(on) PROVE Flags
  BY <1>0, <1>12 DEF set_radio_enabled, procVars
<1>13. ASSUME NEW mode \in {"auto", "manual"}, select_operator(mode) PROVE Flags
  BY <1>0, <1>13 DEF select_operator, moduleVars, procVars
<1>14. ASSUME select_settled PROVE Flags
  BY <1>0, <1>14 DEF select_settled, procVars
<1>15. ASSUME network_changes PROVE Flags
  BY <1>0, <1>15 DEF network_changes, procVars
<1>16. ASSUME tick PROVE Flags
  BY <1>0, <1>16 DEF tick, moduleVars, procVars
<1> HIDE DEF Flags
<1>17. Flags
  BY <1>1, <1>2, <1>3, <1>4, <1>5, <1>6, <1>7, <1>8, <1>9, <1>10, <1>11, <1>12, <1>13, <1>14,
     <1>15, <1>16 DEF Next, Goes
<1> QED BY <1>17 DEF Flags

\* The counters.
LEMMA CountersStep ==
    ASSUME TypeOK, Next
    PROVE  /\ failures' \in 0 .. Threshold + 1
           /\ faults' \in 0 .. MaxFaults /\ faults <= faults'
           /\ commands' \in 0 .. MaxCommands
<1>1. /\ failures \in 0 .. Threshold + 1 /\ faults \in 0 .. MaxFaults /\ commands \in 0 .. MaxCommands
      /\ Threshold \in Nat /\ MaxFaults \in Nat /\ MaxCommands \in Nat
  BY RecoveryAssumption DEF TypeOK
<1>2. failures' \in {failures, 0} \/ (failures < Threshold /\ failures' = failures + 1)
  BY DEF Next, Goes, _check_health, _read_state, _maybe_recover_registration, recovery_action,
     cycle_radio, check_registration, module_reset, _connect, _teardown, port_dies, kill,
     set_radio_enabled, select_operator, select_settled, network_changes, tick
<1>3. faults' = faults \/ Fault
  BY DEF Next, Goes, _check_health, _read_state, _maybe_recover_registration, recovery_action,
     cycle_radio, check_registration, module_reset, _connect, _teardown, port_dies, kill,
     set_radio_enabled, select_operator, select_settled, network_changes, tick
<1>4. commands' = commands \/ Command
  BY DEF Next, Goes, _check_health, _read_state, _maybe_recover_registration, recovery_action,
     cycle_radio, check_registration, module_reset, _connect, _teardown, port_dies, kill,
     set_radio_enabled, select_operator, select_settled, network_changes, tick
<1> QED BY <1>1, <1>2, <1>3, <1>4 DEF Fault, Command

Wheres == {"idle", "read", "decide", "allowed", "reset", "cfun", "check"}

\* A sampler moves, and what it does is none or an action of the ladder.
LEMMA SamplersStep ==
    ASSUME TypeOK, IncidentHasOwner, actions \in Seq(Nat), Next
    PROVE  pc' \in [Samplers -> Wheres] /\ doing' \in [Samplers -> {"none"} \cup Actions]
<1> DEFINE Typed == pc' \in [Samplers -> Wheres] /\ doing' \in [Samplers -> {"none"} \cup Actions]
<1>1. pc \in [Samplers -> Wheres] /\ doing \in [Samplers -> {"none"} \cup Actions]
  BY DEF TypeOK, Wheres
<1>2. ASSUME NEW p \in Samplers, NEW where \in Wheres, To(p, where),
             \/ doing' = doing \/ doing' = [doing EXCEPT ![p] = "none"]
      PROVE  Typed
  BY <1>1, <1>2 DEF To
<1>3. ASSUME UNCHANGED <<pc, doing>> PROVE Typed
  BY <1>1, <1>3
<1>4. {"idle", "read", "decide", "check", "cfun"} \subseteq Wheres
  BY DEF Wheres
<1>5. ASSUME NEW p \in Samplers, _maybe_recover_registration(p) PROVE Typed
  <2>1. CASE pc' = [pc EXCEPT ![p] = "idle"] /\ doing' = doing
    BY <1>2, <1>4, <2>1 DEF To
  <2>2. CASE Started(p)
    <3>1. mem.stage \in 0 .. 2
      BY RecordType DEF TypeOK
    <3>2. Ladder[mem.stage + 1] \in Actions
      BY <3>1 DEF Actions
    <3> HIDE DEF Ladder
    <3>3. doing' \in [Samplers -> {"none"} \cup Actions]
      BY <1>1, <2>2, <3>2 DEF Started
    <3>4. pc' \in [Samplers -> Wheres]
      BY <1>1, <2>2 DEF Started, Wheres
    <3> QED BY <3>3, <3>4
  <2> QED BY <1>5, <2>1, <2>2, DecideKeeps
<1>6. ASSUME NEW p \in Samplers, recovery_action(p) PROVE Typed
  BY <1>2, <1>4, <1>6 DEF recovery_action, conclude, Rest
<1>7. ASSUME kill PROVE Typed
  BY <1>7 DEF kill, Wheres
<1>8. ASSUME NEW p \in Samplers,
             _check_health(p) \/ _read_state(p) \/ cycle_radio(p) \/ check_registration(p) \/ module_reset(p)
      PROVE  Typed
  BY <1>2, <1>3, <1>4, <1>8 DEF _check_health, _read_state, cycle_radio, check_registration, conclude, Rest,
     module_reset
<1>9. ASSUME \/ _connect \/ _teardown \/ port_dies \/ (\E on \in BOOLEAN : set_radio_enabled(on))
             \/ (\E mode \in {"auto", "manual"} : select_operator(mode))
             \/ select_settled \/ network_changes \/ tick
      PROVE  Typed
  <2>1. UNCHANGED <<pc, doing>>
    BY <1>9 DEF _connect, _teardown, port_dies, set_radio_enabled, select_operator, select_settled,
       network_changes, tick, procVars
  <2> QED BY <1>3, <2>1
<1> HIDE DEF Typed
<1>10. Typed
  BY <1>5, <1>6, <1>7, <1>8, <1>9 DEF Next, Goes
<1> QED BY <1>10 DEF Typed

\* When a sampler began its action, and whether two have overlapped.
LEMMA BegunStep ==
    ASSUME TypeOK, IncidentHasOwner, actions \in Seq(Nat), Next
    PROVE  begun' \in [Samplers -> Never .. now'] /\ overlap' \in BOOLEAN
<1>1. /\ begun \in [Samplers -> Never .. now] /\ overlap \in BOOLEAN
      /\ now \in Nat /\ now' \in Nat /\ now <= now'
  <2>1. MaxNow \in Nat
    BY RecoveryAssumption
  <2>2. now \in 0 .. MaxNow /\ begun \in [Samplers -> Never .. now] /\ overlap \in BOOLEAN
    BY DEF TypeOK
  <2> QED BY <2>1, <2>2, TimeStep
<1>2. Never .. now \subseteq Never .. now' /\ Never \in Never .. now' /\ now \in Never .. now'
  BY <1>1 DEF Never
<1>3. CASE UNCHANGED <<begun, overlap>>
  BY <1>1, <1>2, <1>3
<1>4. ASSUME NEW p \in Samplers, begun' = [begun EXCEPT ![p] = Never], overlap' = overlap
      PROVE  begun' \in [Samplers -> Never .. now'] /\ overlap' \in BOOLEAN
  BY <1>1, <1>2, <1>4
<1>5. ASSUME NEW p \in Samplers, Started(p)
      PROVE  begun' \in [Samplers -> Never .. now'] /\ overlap' \in BOOLEAN
  <2>1. begun' = [begun EXCEPT ![p] = now] /\ overlap' = (overlap \/ \E q \in Samplers : doing[q] # "none")
    BY <1>5 DEF Started
  <2> QED BY <1>1, <1>2, <2>1
<1>6. ASSUME NEW p \in Samplers, _maybe_recover_registration(p)
      PROVE  begun' \in [Samplers -> Never .. now'] /\ overlap' \in BOOLEAN
  BY <1>3, <1>5, <1>6, DecideKeeps
<1>7. ASSUME NEW p \in Samplers, recovery_action(p) \/ check_registration(p) \/ module_reset(p)
      PROVE  begun' \in [Samplers -> Never .. now'] /\ overlap' \in BOOLEAN
  <2>1. overlap' = overlap /\ (begun' = begun \/ begun' = [begun EXCEPT ![p] = Never])
    BY <1>7 DEF recovery_action, check_registration, module_reset, conclude, Rest
  <2> QED BY <1>3, <1>4, <2>1
<1>8. CASE kill
  BY <1>1, <1>2, <1>8 DEF kill
<1>9. ASSUME NEW p \in Samplers, _check_health(p) \/ _read_state(p) \/ cycle_radio(p)
      PROVE  UNCHANGED <<begun, overlap>>
  BY <1>9 DEF _check_health, _read_state, cycle_radio
<1>10. ASSUME \/ _connect \/ _teardown \/ port_dies \/ (\E on \in BOOLEAN : set_radio_enabled(on))
              \/ (\E mode \in {"auto", "manual"} : select_operator(mode))
              \/ select_settled \/ network_changes \/ tick
       PROVE  UNCHANGED <<begun, overlap>>
  BY <1>10 DEF _connect, _teardown, port_dies, set_radio_enabled, select_operator, select_settled,
     network_changes, tick, procVars
<1> QED BY <1>3, <1>6, <1>7, <1>8, <1>9, <1>10 DEF Next, Goes

\* The record of a step, seen as a type.
LEMMA TypeStep ==
    ASSUME TypeOK, IncidentHasOwner, actions \in Seq(Nat), Next
    PROVE  TypeOK' /\ IncidentHasOwner'
<1>1. now \in Nat /\ now' \in 0 .. MaxNow /\ now <= now' /\ MaxNow \in Nat
  <2>1. MaxNow \in Nat
    BY RecoveryAssumption
  <2>2. now \in 0 .. MaxNow
    BY DEF TypeOK
  <2> QED BY <2>1, <2>2, TimeStep
<1>0. Limit \in Nat
  BY RecoveryAssumption
<1>2. since' \in Never .. now'
  <2>1. since' \in Never .. now
    BY RecordStep
  <2> QED BY <1>1, <2>1 DEF Never
<1>3. /\ IsFiniteSet(mem.attempts) /\ Cardinality(mem.attempts) <= Limit
      /\ Recent \subseteq mem.attempts /\ \A a \in mem.attempts : a.at \in Nat /\ a.at <= now
  <2>1. mem.attempts \in SUBSET Attempts
    BY RecordType DEF TypeOK
  <2>2. \A a \in mem.attempts : a.at \in Nat
    BY <1>1, <2>1 DEF Attempts
  <2> QED BY <2>2 DEF TypeOK, Recent
<1>4. /\ mem' \in Records /\ disk' = mem' /\ incident' \in BOOLEAN /\ (incident' => mem'.issue)
      /\ \A a \in mem'.attempts : a.at <= now'
      /\ IsFiniteSet(mem'.attempts) /\ Cardinality(mem'.attempts) <= Limit
  <2>1. CASE MemKept
    <3>1. mem'.attempts \subseteq mem.attempts
      BY <2>1 DEF MemKept
    <3>2. IsFiniteSet(mem'.attempts) /\ Cardinality(mem'.attempts) <= Cardinality(mem.attempts)
      BY <1>3, <3>1, FS_Subset
    <3>3. Cardinality(mem'.attempts) \in Nat /\ Cardinality(mem.attempts) \in Nat
      BY <1>3, <3>2, FS_CardinalityType
    <3>4. Cardinality(mem'.attempts) <= Limit
      BY <1>0, <1>3, <3>2, <3>3
    <3>5. \A a \in mem'.attempts : a.at <= now'
      BY <1>1, <1>3, <3>1
    <3> QED BY <2>1, <3>2, <3>4, <3>5 DEF MemKept
  <2>2. ASSUME NEW p \in Samplers, Started(p)
        PROVE  /\ mem' \in Records /\ disk' = mem' /\ incident' \in BOOLEAN /\ (incident' => mem'.issue)
               /\ \A a \in mem'.attempts : a.at <= now'
               /\ IsFiniteSet(mem'.attempts) /\ Cardinality(mem'.attempts) <= Limit
    <3>1. mem'.attempts = Recent \cup {Entry} /\ ~(Cardinality(Recent) >= Limit)
      BY <2>2 DEF Started
    <3>2. IsFiniteSet(Recent)
      BY <1>3, FS_Subset
    <3>3. Cardinality(Recent) \in Nat /\ Cardinality(Recent \cup {Entry}) <= Cardinality(Recent) + 1
      <4>1. Cardinality(Recent) \in Nat
        BY <3>2, FS_CardinalityType
      <4>2. Cardinality(Recent \cup {Entry}) =
              IF Entry \in Recent THEN Cardinality(Recent) ELSE Cardinality(Recent) + 1
        BY <3>2, FS_AddElement
      <4> QED BY <4>1, <4>2
    <3>4. IsFiniteSet(mem'.attempts) /\ Cardinality(mem'.attempts) \in Nat
      BY <3>1, <3>2, FS_AddElement, FS_CardinalityType
    <3>5. Cardinality(mem'.attempts) <= Limit
      BY <1>0, <3>1, <3>3, <3>4
    <3>6. \A a \in mem'.attempts : a.at <= now'
      <4>1. Entry.at = now
        BY DEF Entry
      <4> QED BY <1>1, <1>3, <3>1, <4>1
    <3> QED BY <2>2, <3>4, <3>5, <3>6 DEF Started
  <2> QED BY <2>1, <2>2, RecordStep
<1>5. IncidentHasOwner'
  BY <1>4 DEF IncidentHasOwner
<1>6. TypeOK'
  BY <1>1, <1>2, <1>4, FlagsStep, CountersStep, SamplersStep, BegunStep DEF TypeOK, Wheres
<1> QED BY <1>5, <1>6

-----------------------------------------------------------------------------
(* The limit per window *)

\* The actions keep their distance, and the record still holds those of the
\* last 24 hours.
Times ==
    /\ actions \in Seq(Nat)
    /\ Spaced
    /\ \A i \in DOMAIN actions :
         actions[i] <= now /\ (now - actions[i] < Window => [no |-> i, at |-> actions[i]] \in mem.attempts)

(* A step that takes no action leaves the count of the window.             *)
LEMMA KeptTimes ==
    ASSUME TypeOK, Times, WindowLimit, MemKept, actions' = actions, now' \in Nat, now <= now'
    PROVE  Times' /\ WindowLimit'
<1>1. now \in Nat /\ Window \in Nat
  BY RecoveryAssumption DEF TypeOK
<1>2. ASSUME NEW i \in DOMAIN actions
      PROVE  /\ actions[i] <= now'
             /\ now' - actions[i] < Window => [no |-> i, at |-> actions[i]] \in mem'.attempts
  <2> DEFINE a == [no |-> i, at |-> actions[i]]
  <2>1. actions[i] \in Nat /\ actions[i] <= now /\ (now - actions[i] < Window => a \in mem.attempts)
    BY DEF Times
  <2>2. a.at = actions[i]
    OBVIOUS
  <2> HIDE DEF a
  <2>3. ASSUME now' - actions[i] < Window
        PROVE  a \in mem'.attempts
    <3>1. now - actions[i] \in 0 .. Window - 1
      BY <1>1, <2>1, <2>3
    <3>2. a \in mem.attempts
      BY <1>1, <2>1, <3>1
    <3>3. a \in Recent
      BY <2>2, <3>1, <3>2 DEF Recent, InWindow
    <3> QED BY <3>3 DEF MemKept
  <2>4. actions[i] <= now'
    BY <1>1, <2>1
  <2> QED BY <2>3, <2>4 DEF a
<1>3. Times'
  BY <1>2 DEF Times, Spaced, Apart
<1>4. WindowLimit'
  BY DEF WindowLimit
<1> QED BY <1>3, <1>4

\* An action is taken long enough after every one before it.
LEMMA StartedApart ==
    ASSUME TypeOK, Times, NEW p \in Samplers, Started(p), NEW i \in DOMAIN actions
    PROVE  /\ actions[i] \in Nat /\ actions[i] <= now
           /\ now - actions[i] < Window => [no |-> i, at |-> actions[i]] \in Recent
           /\ Apart(actions[i], now)
<1> DEFINE a == [no |-> i, at |-> actions[i]]
<1>1. now \in Nat /\ Window \in Nat /\ Cooldown \in Nat
  BY RecoveryAssumption DEF TypeOK
<1>2. actions[i] \in Nat /\ actions[i] <= now /\ (now - actions[i] < Window => a \in mem.attempts)
  BY DEF Times
<1>3. a.at = actions[i]
  OBVIOUS
<1> HIDE DEF a
<1>4. ASSUME now - actions[i] < Window
      PROVE  a \in Recent
  <2>1. now - actions[i] \in 0 .. Window - 1
    BY <1>1, <1>2, <1>4
  <2> QED BY <1>2, <1>3, <1>4, <2>1 DEF Recent, InWindow
<1>5. now - actions[i] < Window => ~(now - actions[i] < Cooldown)
  BY <1>3, <1>4 DEF Started
<1>6. Apart(actions[i], now)
  BY <1>1, <1>2, <1>5 DEF Apart
<1> QED BY <1>2, <1>4, <1>6 DEF a

\* The actions of the window an action closes are among those the record holds.
LEMMA StartedTimes ==
    ASSUME TypeOK, Times, WindowLimit, NEW p \in Samplers, Started(p), now' = now
    PROVE  Times' /\ WindowLimit'
<1> DEFINE N == Len(actions)
<1>1. now \in Nat /\ Window \in Nat /\ Window # 0 /\ Cooldown \in Nat /\ Limit \in Nat
  BY RecoveryAssumption DEF TypeOK
<1>2. /\ N \in Nat /\ DOMAIN actions = 1 .. N /\ \A i \in 1 .. N : actions[i] \in Nat
  BY DEF Times
<1>3. /\ actions' \in Seq(Nat) /\ DOMAIN actions' = 1 .. N + 1 /\ actions'[N + 1] = now
      /\ \A i \in 1 .. N : actions'[i] = actions[i]
  BY <1>1, <1>2 DEF Started, Times
<1>4. /\ mem'.attempts = Recent \cup {[no |-> N + 1, at |-> now]} /\ ~(Cardinality(Recent) >= Limit)
  BY DEF Started, Entry
<1> HIDE DEF N
<1>5. ASSUME NEW i \in 1 .. N
      PROVE  /\ actions[i] <= now /\ Apart(actions[i], now)
             /\ now - actions[i] < Window => [no |-> i, at |-> actions[i]] \in Recent
  BY <1>2, StartedApart
<1>6. Times'
  <2>1. ASSUME NEW i \in 1 .. N + 1, NEW j \in 1 .. N + 1, i < j
        PROVE  Apart(actions'[i], actions'[j])
    <3>1. i \in 1 .. N
      BY <1>2, <2>1
    <3>2. CASE j \in 1 .. N
      BY <1>2, <1>3, <2>1, <3>1, <3>2 DEF Times, Spaced
    <3>3. CASE j = N + 1
      BY <1>3, <1>5, <3>1, <3>3
    <3> QED BY <1>2, <3>2, <3>3
  <2>2. Spaced'
    BY <1>3, <2>1 DEF Spaced, Apart
  <2>3. ASSUME NEW i \in 1 .. N + 1
        PROVE  /\ actions'[i] <= now
               /\ now - actions'[i] < Window => [no |-> i, at |-> actions'[i]] \in mem'.attempts
    <3>1. CASE i \in 1 .. N
      <4>1. actions'[i] = actions[i]
        BY <1>3, <3>1
      <4> QED BY <1>4, <1>5, <3>1, <4>1
    <3>2. CASE i = N + 1
      BY <1>1, <1>3, <1>4, <3>2
    <3> QED BY <1>2, <3>1, <3>2
  <2> QED BY <1>3, <2>2, <2>3 DEF Times
<1>7. ASSUME NEW n \in 1 .. N + 1
      PROVE  Cardinality({k \in 1 .. N + 1 : actions'[k] - actions'[n] \in 0 .. Window - 1}) <= Limit
  <2> DEFINE a == actions'[n]
             K == {k \in 1 .. N + 1 : actions'[k] - a \in 0 .. Window - 1}
             K0 == {k \in 1 .. N : actions[k] - a \in 0 .. Window - 1}
  <2>1. a \in Nat
    <3>1. n \in 1 .. N \/ n = N + 1
      BY <1>2
    <3> QED BY <1>1, <1>2, <1>3, <3>1
  <2>2. IsFiniteSet(1 .. N)
    BY <1>2, FS_Interval
  <2>3. IsFiniteSet(K0)
    BY <2>2, FS_Subset
  <2>4. CASE now - a < Window
    <3> DEFINE f == [k \in K0 |-> [no |-> k, at |-> actions[k]]]
    <3>1. \A k \in K0 : [no |-> k, at |-> actions[k]] \in Recent
      <4> TAKE k \in K0
      <4>1. k \in 1 .. N /\ actions[k] \in Nat /\ actions[k] - a \in 0 .. Window - 1
        BY <1>2
      <4>2. now - actions[k] < Window
        BY <1>1, <2>1, <2>4, <4>1
      <4> QED BY <1>5, <4>1, <4>2
    <3>2. \A j, k \in K0 : f[j] = f[k] => j = k
      <4> TAKE j, k \in K0
      <4>1. f[j].no = j /\ f[k].no = k
        OBVIOUS
      <4> QED BY <4>1
    <3>3. f \in Injection(K0, Recent)
      <4>1. f \in [K0 -> Recent] /\ DOMAIN f = K0
        BY <3>1
      <4> HIDE DEF f
      <4> QED BY <3>2, <4>1, Zenon DEF Injection, IsInjective
    <3>4. IsFiniteSet(Recent) /\ Cardinality(Recent) \in Nat
      <4>1. IsFiniteSet(mem.attempts) /\ Recent \subseteq mem.attempts
        BY DEF Recent, TypeOK
      <4> QED BY <4>1, FS_Subset, FS_CardinalityType
    <3> HIDE DEF f, K0
    <3>5. Cardinality(K0) <= Cardinality(Recent) /\ Cardinality(K0) \in Nat
      BY <2>3, <3>3, <3>4, FS_Injection, FS_CardinalityType
    <3>6. IsFiniteSet(K0 \cup {N + 1}) /\ Cardinality(K0 \cup {N + 1}) \in Nat
      BY <2>3, FS_AddElement, FS_CardinalityType
    <3>7. Cardinality(K0 \cup {N + 1}) = IF N + 1 \in K0 THEN Cardinality(K0) ELSE Cardinality(K0) + 1
      BY <2>3, FS_AddElement
    <3>8. K \subseteq K0 \cup {N + 1}
      BY <1>2, <1>3 DEF K0
    <3> HIDE DEF K
    <3>9. Cardinality(K) <= Cardinality(K0 \cup {N + 1}) /\ Cardinality(K) \in Nat
      BY <3>6, <3>8, FS_Subset, FS_CardinalityType
    <3>10. Cardinality(K) <= Limit
      BY <1>1, <1>4, <3>4, <3>5, <3>6, <3>7, <3>9
    <3> QED BY <3>10 DEF K
  <2>5. CASE ~(now - a < Window)
    <3>1. n \in 1 .. N /\ a = actions[n]
      BY <1>1, <1>2, <1>3, <2>5
    <3>2. ~(now - a \in 0 .. Window - 1)
      BY <1>1, <2>1, <2>5
    <3>3. K = K0
      <4>1. N + 1 \notin K
        BY <1>3, <3>2
      <4>2. \A k \in 1 .. N + 1 : k \in 1 .. N \/ k = N + 1
        BY <1>2
      <4>3. \A k \in 1 .. N : k \in 1 .. N + 1
        BY <1>2
      <4> QED BY <1>3, <4>1, <4>2, <4>3
    <3>4. Cardinality(K0) <= Limit
      BY <1>2, <3>1 DEF WindowLimit
    <3> QED BY <3>3, <3>4
  <2> QED BY <2>4, <2>5
<1>8. WindowLimit'
  BY <1>3, <1>7 DEF WindowLimit
<1> QED BY <1>6, <1>8

-----------------------------------------------------------------------------
(* The actions of the two samplers, and the radio *)

Working == {"allowed", "reset", "cfun", "check"}

\* A sampler at work has begun with an entry of the history, and without faults
\* and overlaps it still has the port on which it switched the radio off.
Control(p) ==
    /\ doing[p] # "none" <=> pc[p] \in Working
    /\ doing[p] # "none" => \E i \in DOMAIN actions : begun[p] = actions[i]
    /\ faults = 0 /\ ~overlap /\ pc[p] = "cfun" => p \in live

\* Actions that never overlapped do not overlap now.
Alone == ~overlap => \A p, q \in Samplers : doing[p] # "none" /\ doing[q] # "none" => p = q

\* Without faults a port is given up with every sampler on it.
PortsUp == faults = 0 /\ link # "up" => live = {}

Controlled == (\A p \in Samplers : Control(p)) /\ Alone /\ PortsUp /\ OneAction /\ RadioComesBack

\* Steps between which neither a sampler nor the module moves.
LEMMA StillControlled ==
    ASSUME Controlled, UNCHANGED <<rf, pc, doing, begun, actions, overlap, live, wanted, faults>>,
           link' = link \/ link' = "up"
    PROVE  Controlled'
<1>1. ASSUME NEW q \in Samplers PROVE Control(q)'
  BY DEF Controlled, Control
<1>2. Alone' /\ PortsUp'
  BY DEF Controlled, Alone, PortsUp
<1>3. OneAction' /\ RadioComesBack'
  BY DEF Controlled, OneAction, Apart, RadioComesBack
<1> QED BY <1>1, <1>2, <1>3 DEF Controlled

\* A sampler that is not at work goes on without starting an action.
LEMMA SamplingControlled ==
    ASSUME TypeOK, Controlled, NEW p \in Samplers, pc[p] \in {"idle", "read", "decide"},
           NEW where \in {"idle", "read", "decide"}, pc' = [pc EXCEPT ![p] = where],
           UNCHANGED <<rf, doing, begun, actions, overlap, link, wanted, faults>>,
           live \subseteq live', live' = live \/ link = "up"
    PROVE  Controlled'
<1>1. pc \in [Samplers -> Wheres]
  BY DEF TypeOK, Wheres
<1>2. pc'[p] = where /\ \A q \in Samplers \ {p} : pc'[q] = pc[q]
  BY <1>1
<1>3. ASSUME NEW q \in Samplers PROVE Control(q)'
  <2>1. CASE q = p
    BY <1>2, <2>1 DEF Controlled, Control, Working
  <2>2. CASE q # p
    BY <1>2, <2>2 DEF Controlled, Control
  <2> QED BY <2>1, <2>2
<1>4. Alone' /\ PortsUp'
  BY DEF Controlled, Alone, PortsUp
<1>5. OneAction'
  BY DEF Controlled, OneAction, Apart
<1>6. RadioComesBack'
  <2>1. ASSUME NEW q \in Samplers, pc[q] = "cfun" PROVE pc'[q] = "cfun"
    BY <1>2, <2>1
  <2> QED BY <2>1 DEF Controlled, RadioComesBack
<1> QED BY <1>3, <1>4, <1>5, <1>6 DEF Controlled

\* The sampler at work moves on, or rests.
LEMMA WorkingControlled ==
    ASSUME TypeOK, Controlled, NEW p \in Samplers, pc[p] \in Working,
           NEW where \in {"idle", "cfun", "check"}, pc' = [pc EXCEPT ![p] = where],
           \/ /\ where = "idle"
              /\ doing' = [doing EXCEPT ![p] = "none"] /\ begun' = [begun EXCEPT ![p] = Never]
           \/ where # "idle" /\ UNCHANGED <<doing, begun>>,
           where = "cfun" => p \in live,
           UNCHANGED <<actions, overlap, live, link, wanted>>,
           faults \in Nat, faults' \in Nat, faults <= faults',
           \/ rf' = rf /\ pc[p] # "cfun"
           \/ rf' = TRUE
           \/ rf' = FALSE /\ where = "cfun"
           \/ faults' > 0 \/ overlap
    PROVE  Controlled'
<1>1. /\ pc \in [Samplers -> Wheres] /\ doing \in [Samplers -> {"none"} \cup Actions]
      /\ begun \in [Samplers -> Never .. now]
  BY DEF TypeOK, Wheres
<1>2. /\ pc'[p] = where
      /\ \A q \in Samplers \ {p} : pc'[q] = pc[q] /\ doing'[q] = doing[q] /\ begun'[q] = begun[q]
  BY <1>1
<1>3. doing'[p] = IF where = "idle" THEN "none" ELSE doing[p]
  BY <1>1
<1>4. where # "idle" => begun'[p] = begun[p]
  OBVIOUS
<1>5. doing[p] # "none"
  BY DEF Controlled, Control
<1>6. faults' = 0 => faults = 0
  OBVIOUS
<1>7. ASSUME NEW q \in Samplers PROVE Control(q)'
  <2>1. CASE q = p
    BY <1>2, <1>3, <1>4, <1>5, <2>1 DEF Controlled, Control, Working
  <2>2. CASE q # p
    BY <1>2, <1>6, <2>2 DEF Controlled, Control
  <2> QED BY <2>1, <2>2
<1>8. \A q \in Samplers : doing'[q] # "none" => doing[q] # "none" /\ begun'[q] = begun[q]
  BY <1>2, <1>3, <1>4
<1>9. Alone' /\ PortsUp'
  BY <1>6, <1>8 DEF Controlled, Alone, PortsUp
<1>10. OneAction'
  BY <1>8 DEF Controlled, OneAction, Apart
<1>11. RadioComesBack'
  <2>1. SUFFICES ASSUME faults' = 0, ~overlap', wanted', ~rf'
                 PROVE  \E q \in Samplers : pc'[q] = "cfun"
    BY DEF RadioComesBack
  <2>2. CASE rf' = rf /\ pc[p] # "cfun"
    <3>1. PICK q \in Samplers : pc[q] = "cfun"
      BY <1>6, <2>1, <2>2 DEF Controlled, RadioComesBack
    <3> QED BY <1>2, <2>2, <3>1
  <2>3. CASE where = "cfun"
    BY <1>2, <2>3
  <2> QED BY <2>1, <2>2, <2>3
<1> QED BY <1>7, <1>9, <1>10, <1>11 DEF Controlled

\* After a fault only the distance of the actions is left to keep.
LEMMA FaultyControlled ==
    ASSUME Controlled, UNCHANGED <<pc, doing, begun, actions, overlap>>, faults' # 0
    PROVE  Controlled'
<1>1. ASSUME NEW q \in Samplers PROVE Control(q)'
  BY DEF Controlled, Control
<1>2. Alone' /\ PortsUp' /\ RadioComesBack'
  BY DEF Controlled, Alone, PortsUp, RadioComesBack
<1>3. OneAction'
  BY DEF Controlled, OneAction, Apart
<1> QED BY <1>1, <1>2, <1>3 DEF Controlled

\* After a kill no sampler is at work.
LEMMA KillControlled ==
    ASSUME \A q \in Samplers : pc'[q] = "idle" /\ doing'[q] = "none", faults' # 0
    PROVE  Controlled'
<1>1. ASSUME NEW q \in Samplers PROVE Control(q)'
  BY DEF Control, Working
<1>2. Alone' /\ PortsUp' /\ RadioComesBack' /\ OneAction'
  BY DEF Alone, PortsUp, RadioComesBack, OneAction
<1> QED BY <1>1, <1>2 DEF Controlled

\* An action is started long enough after the one the other sampler is at.
LEMMA StartedControlled ==
    ASSUME TypeOK, Times, Controlled, NEW p \in Samplers, pc[p] = "decide", Started(p),
           UNCHANGED <<rf, live, link, wanted, faults, now>>
    PROVE  Controlled'
<1>1. /\ pc \in [Samplers -> Wheres] /\ doing \in [Samplers -> {"none"} \cup Actions]
      /\ begun \in [Samplers -> Never .. now] /\ overlap \in BOOLEAN /\ now \in Nat
  BY RecoveryAssumption DEF TypeOK, Wheres
<1>2. Ladder[mem.stage + 1] \in Actions /\ "none" \notin Actions
  <2>1. mem.stage \in 0 .. 2
    BY RecordType DEF TypeOK
  <2> QED BY <2>1 DEF Actions, Ladder
<1>3. /\ doing'[p] # "none" /\ pc'[p] \in {"allowed", "reset"} /\ begun'[p] = now
      /\ \A q \in Samplers \ {p} : doing'[q] = doing[q] /\ pc'[q] = pc[q] /\ begun'[q] = begun[q]
  <2> HIDE DEF Ladder
  <2> QED BY <1>1, <1>2 DEF Started
<1>4. /\ Len(actions) + 1 \in DOMAIN actions' /\ actions'[Len(actions) + 1] = now
      /\ \A i \in DOMAIN actions : i \in DOMAIN actions' /\ actions'[i] = actions[i]
  <2>1. actions \in Seq(Nat) /\ actions' = Append(actions, now)
    BY DEF Started, Times
  <2> QED BY <1>1, <2>1
<1>5. overlap' = (overlap \/ \E q \in Samplers : doing[q] # "none")
  BY DEF Started
<1>6. ASSUME NEW q \in Samplers PROVE Control(q)'
  <2>1. CASE q = p
    <3>1. \E i \in DOMAIN actions' : begun'[q] = actions'[i]
      BY <1>3, <1>4, <2>1
    <3> QED BY <1>3, <2>1, <3>1 DEF Control, Working
  <2>2. CASE q # p
    <3>1. doing[q] # "none" <=> pc[q] \in Working
      BY DEF Controlled, Control
    <3>2. ASSUME doing[q] # "none" PROVE \E i \in DOMAIN actions' : begun'[q] = actions'[i]
      BY <1>3, <1>4, <2>2, <3>2 DEF Controlled, Control
    <3>3. faults = 0 /\ ~overlap /\ pc[q] = "cfun" => q \in live
      BY DEF Controlled, Control
    <3>4. doing'[q] = doing[q] /\ pc'[q] = pc[q] /\ begun'[q] = begun[q]
      BY <1>3, <2>2
    <3> QED BY <1>1, <1>5, <3>1, <3>2, <3>3, <3>4 DEF Control
  <2> QED BY <2>1, <2>2
<1>7. Alone'
  BY <1>3, <1>5 DEF Alone
<1>8. PortsUp'
  BY DEF Controlled, PortsUp
<1>9. OneAction'
  <2>1. ASSUME NEW q \in Samplers \ {p}, doing'[q] # "none" PROVE Apart(begun'[q], begun'[p])
    <3>1. PICK i \in DOMAIN actions : begun[q] = actions[i]
      BY <1>3, <2>1 DEF Controlled, Control
    <3> QED BY <1>3, <2>1, <3>1, StartedApart
  <2>2. ASSUME NEW q \in Samplers \ {p}, NEW r \in Samplers \ {p}, q # r,
               doing'[q] # "none", doing'[r] # "none"
        PROVE  Apart(begun'[q], begun'[r]) \/ Apart(begun'[r], begun'[q])
    BY <1>3, <2>2 DEF Controlled, OneAction
  <2>3. \A q, r \in Samplers : doing'[q] # "none" /\ doing'[r] # "none" /\ q # r =>
            Apart(begun'[q], begun'[r]) \/ Apart(begun'[r], begun'[q])
    BY <2>1, <2>2
  <2> QED BY <2>3 DEF OneAction, Apart
<1>10. RadioComesBack'
  <2>1. ASSUME NEW q \in Samplers, pc[q] = "cfun" PROVE pc'[q] = "cfun"
    BY <1>3, <2>1
  <2>2. ~overlap' => ~overlap
    BY <1>1, <1>5
  <2> QED BY <2>1, <2>2 DEF Controlled, RadioComesBack
<1> QED BY <1>6, <1>7, <1>8, <1>9, <1>10 DEF Controlled

\* module_reset: the port closes under the other sampler, which without an
\* overlap is not at work.
LEMMA ResetControlled ==
    ASSUME TypeOK, Controlled, NEW p \in Samplers, module_reset(p)
    PROVE  Controlled'
<1>1. /\ pc \in [Samplers -> Wheres] /\ doing \in [Samplers -> {"none"} \cup Actions]
      /\ begun \in [Samplers -> Never .. now] /\ rf \in BOOLEAN
  BY DEF TypeOK, Wheres
<1>2. /\ pc[p] = "reset" /\ UNCHANGED <<actions, overlap, wanted, faults>>
      /\ pc' = [pc EXCEPT ![p] = "idle"] /\ doing' = [doing EXCEPT ![p] = "none"]
      /\ begun' = [begun EXCEPT ![p] = Never]
      /\ rf' \in {rf, TRUE}
      /\ live' = {} \/ UNCHANGED <<link, live>>
  BY DEF module_reset, Rest, To
<1>3. doing[p] # "none"
  BY <1>2 DEF Controlled, Control, Working
<1>4. /\ pc'[p] = "idle" /\ doing'[p] = "none"
      /\ \A q \in Samplers \ {p} : doing'[q] = doing[q] /\ pc'[q] = pc[q] /\ begun'[q] = begun[q]
  BY <1>1, <1>2
<1>5. ASSUME NEW q \in Samplers PROVE Control(q)'
  <2>1. CASE q = p
    BY <1>4, <2>1 DEF Control, Working
  <2>2. CASE q # p
    <3>1. ~overlap => pc[q] # "cfun"
      BY <1>3, <2>2 DEF Controlled, Control, Alone, Working
    <3> QED BY <1>2, <1>4, <2>2, <3>1 DEF Controlled, Control
  <2> QED BY <2>1, <2>2
<1>6. Alone' /\ PortsUp'
  BY <1>2, <1>4 DEF Controlled, Alone, PortsUp
<1>7. OneAction'
  BY <1>4 DEF Controlled, OneAction, Apart
<1>8. RadioComesBack'
  <2>1. ASSUME NEW q \in Samplers, pc[q] = "cfun" PROVE pc'[q] = "cfun"
    BY <1>2, <1>4, <2>1
  <2>2. rf => rf'
    BY <1>2, Zenon
  <2> QED BY <1>2, <2>1, <2>2 DEF Controlled, RadioComesBack
<1> QED BY <1>5, <1>6, <1>7, <1>8 DEF Controlled

\* _teardown: without faults no sampler is left on the port.
LEMMA TeardownControlled ==
    ASSUME TypeOK, Controlled, _teardown
    PROVE  Controlled'
<1>1. /\ link = "lost" /\ link' = "down" /\ live' = {}
      /\ UNCHANGED <<rf, pc, doing, begun, actions, overlap, wanted, faults>>
  BY DEF _teardown, moduleVars
<1>2. ASSUME NEW q \in Samplers PROVE Control(q)'
  BY <1>1 DEF Controlled, Control, PortsUp
<1>3. Alone' /\ PortsUp' /\ RadioComesBack'
  BY <1>1 DEF Controlled, Alone, PortsUp, RadioComesBack
<1>4. OneAction'
  BY <1>1 DEF Controlled, OneAction, Apart
<1> QED BY <1>2, <1>3, <1>4 DEF Controlled

(* Every step keeps what a sampler's place says of its action.             *)
LEMMA ControlStep ==
    ASSUME TypeOK, IncidentHasOwner, Times, Controlled, Next
    PROVE  Controlled'
<1>0. faults \in Nat /\ faults' \in Nat /\ faults <= faults'
  <2>1. MaxFaults \in Nat
    BY RecoveryAssumption
  <2>2. faults \in 0 .. MaxFaults
    BY DEF TypeOK
  <2> QED BY <2>1, <2>2, CountersStep
<1>1. ASSUME NEW p \in Samplers, _check_health(p) PROVE Controlled'
  <2>1. pc[p] = "idle" /\ link = "up" /\ UNCHANGED <<rf, doing, begun, actions, overlap, wanted>>
    BY <1>1 DEF _check_health, moduleVars
  <2>2. CASE pc' = [pc EXCEPT ![p] = "read"] /\ live' = live \cup {p} /\ UNCHANGED <<link, faults>>
    BY <2>1, <2>2, SamplingControlled
  <2>3. CASE Fault /\ UNCHANGED pc
    <3>1. faults' # 0
      BY <1>0, <2>3 DEF Fault
    <3> QED BY <2>1, <2>3, <3>1, FaultyControlled
  <2> QED BY <1>1, <2>2, <2>3 DEF _check_health, To
<1>2. ASSUME NEW p \in Samplers, _read_state(p) PROVE Controlled'
  <2>1. /\ pc[p] = "read" /\ pc' = [pc EXCEPT ![p] = "decide"]
        /\ UNCHANGED <<rf, doing, begun, actions, overlap, live, link, wanted, faults>>
    BY <1>2 DEF _read_state, To, moduleVars
  <2> QED BY <2>1, SamplingControlled
<1>3. ASSUME NEW p \in Samplers, _maybe_recover_registration(p) PROVE Controlled'
  <2>1. pc[p] = "decide" /\ UNCHANGED <<rf, live, link, wanted, faults, now>>
    BY <1>3 DEF _maybe_recover_registration, moduleVars
  <2>2. CASE UNCHANGED <<doing, begun, actions, overlap>> /\ pc' = [pc EXCEPT ![p] = "idle"]
    BY <2>1, <2>2, SamplingControlled
  <2>3. CASE Started(p)
    BY <2>1, <2>3, StartedControlled
  <2> QED BY <1>3, <2>2, <2>3, DecideKeeps DEF Times
<1>4. ASSUME NEW p \in Samplers, recovery_action(p) PROVE Controlled'
  <2>1. pc[p] = "allowed" /\ pc[p] \in Working /\ UNCHANGED <<actions, overlap, live, link, wanted, faults>>
    BY <1>4 DEF recovery_action, Working
  <2>2. CASE (\E recovered : conclude(p, recovered)) /\ rf' = rf
    <3>1. /\ pc' = [pc EXCEPT ![p] = "idle"] /\ doing' = [doing EXCEPT ![p] = "none"]
          /\ begun' = [begun EXCEPT ![p] = Never]
      BY <2>2 DEF conclude, Rest, To
    <3> QED BY <1>0, <2>1, <2>2, <3>1, WorkingControlled
  <2>3. ASSUME NEW where \in {"cfun", "check"}, pc' = [pc EXCEPT ![p] = where], UNCHANGED <<doing, begun>>,
               (where = "cfun" /\ rf' = FALSE /\ p \in live) \/ (where = "check" /\ rf' = rf)
        PROVE  Controlled'
    BY <1>0, <2>1, <2>3, WorkingControlled
  <2> QED BY <1>4, <2>2, <2>3 DEF recovery_action, To
<1>5. ASSUME NEW p \in Samplers, cycle_radio(p) PROVE Controlled'
  <2>1. /\ pc[p] = "cfun" /\ pc[p] \in Working /\ pc' = [pc EXCEPT ![p] = "check"]
        /\ UNCHANGED <<doing, begun, actions, overlap, live, link, wanted>>
    BY <1>5 DEF cycle_radio, To, Working
  <2>2. faults = 0 /\ ~overlap => p \in live
    BY <2>1 DEF Controlled, Control
  <2>3. rf' = TRUE \/ faults' > 0 \/ overlap
    BY <1>0, <1>5, <2>2 DEF cycle_radio, TurnsOn, Fault
  <2> QED BY <1>0, <2>1, <2>3, WorkingControlled
<1>6. ASSUME NEW p \in Samplers, check_registration(p) PROVE Controlled'
  <2>1. /\ pc[p] = "check" /\ pc[p] \in Working
        /\ pc' = [pc EXCEPT ![p] = "idle"] /\ doing' = [doing EXCEPT ![p] = "none"]
        /\ begun' = [begun EXCEPT ![p] = Never]
        /\ UNCHANGED <<rf, actions, overlap, live, link, wanted, faults>>
    BY <1>6 DEF check_registration, conclude, Rest, To, moduleVars, Working
  <2> QED BY <1>0, <2>1, WorkingControlled
<1>7. ASSUME NEW p \in Samplers, module_reset(p) PROVE Controlled'
  BY <1>7, ResetControlled
<1>8. ASSUME _connect PROVE Controlled'
  <2>1. UNCHANGED <<rf, pc, doing, begun, actions, overlap, live, wanted, faults>> /\ link' = "up"
    BY <1>8 DEF _connect, moduleVars, procVars
  <2> QED BY <2>1, StillControlled
<1>9. ASSUME _teardown PROVE Controlled'
  BY <1>9, TeardownControlled
<1>10. ASSUME port_dies PROVE Controlled'
  <2>1. UNCHANGED <<pc, doing, begun, actions, overlap>> /\ Fault
    BY <1>10 DEF port_dies, moduleVars
  <2>2. faults' # 0
    BY <1>0, <2>1 DEF Fault
  <2> QED BY <2>1, <2>2, FaultyControlled
<1>11. ASSUME kill PROVE Controlled'
  <2>1. \A q \in Samplers : pc'[q] = "idle" /\ doing'[q] = "none"
    BY <1>11 DEF kill
  <2>2. faults' # 0
    BY <1>0, <1>11 DEF kill, Fault
  <2> QED BY <2>1, <2>2, KillControlled
<1>12. ASSUME NEW on \in BOOLEAN, set_radio_enabled(on) PROVE Controlled'
  <2>1. rf' = on /\ wanted' = on /\ UNCHANGED <<link, pc, doing, begun, actions, overlap, live, faults>>
    BY <1>12 DEF set_radio_enabled, procVars
  <2>2. ASSUME NEW q \in Samplers PROVE Control(q)'
    BY <2>1 DEF Controlled, Control
  <2>3. Alone' /\ PortsUp' /\ RadioComesBack'
    BY <2>1 DEF Controlled, Alone, PortsUp, RadioComesBack
  <2>4. OneAction'
    BY <2>1 DEF Controlled, OneAction, Apart
  <2> QED BY <2>2, <2>3, <2>4 DEF Controlled
<1>13. ASSUME NEW mode \in {"auto", "manual"}, select_operator(mode) PROVE Controlled'
  <2>1. UNCHANGED <<rf, link, pc, doing, begun, actions, overlap, live, wanted, faults>>
    BY <1>13 DEF select_operator, moduleVars, procVars
  <2> QED BY <2>1, StillControlled
<1>14. ASSUME select_settled \/ network_changes \/ tick PROVE Controlled'
  <2>1. UNCHANGED <<rf, link, pc, doing, begun, actions, overlap, live, wanted, faults>>
    BY <1>14 DEF select_settled, network_changes, tick, moduleVars, procVars
  <2> QED BY <2>1, StillControlled
<1> QED BY <1>1, <1>2, <1>3, <1>4, <1>5, <1>6, <1>7, <1>8, <1>9, <1>10, <1>11, <1>12, <1>13, <1>14
     DEF Next, Goes

-----------------------------------------------------------------------------
(* The theorems *)

\* The inductive invariant.
IInv == TypeOK /\ IncidentHasOwner /\ Controlled /\ Times /\ WindowLimit

(* A module that was just added satisfies the inductive invariant.         *)
LEMMA InitIInv == Init => IInv
<1> SUFFICES ASSUME Init PROVE IInv
  OBVIOUS
<1>1. mem \in Records /\ mem.attempts = {} /\ disk = mem
  BY DEF Init, Clear, Records
<1>2. IsFiniteSet(mem.attempts) /\ Cardinality(mem.attempts) <= Limit
  <2>1. IsFiniteSet(mem.attempts) /\ Cardinality(mem.attempts) = 0
    BY <1>1, FS_EmptySet
  <2> QED BY <2>1, RecoveryAssumption
<1>3. TypeOK
  <2>1. pc \in [Samplers -> {"idle", "read", "decide", "allowed", "reset", "cfun", "check"}]
        /\ doing \in [Samplers -> {"none"} \cup Actions] /\ live \subseteq Samplers
    BY DEF Init
  <2>2. /\ failures \in 0 .. Threshold + 1 /\ since \in Never .. now
        /\ begun \in [Samplers -> Never .. now] /\ overlap \in BOOLEAN
        /\ now \in 0 .. MaxNow /\ faults \in 0 .. MaxFaults /\ commands \in 0 .. MaxCommands
    <3>1. Threshold \in Nat /\ MaxNow \in Nat /\ MaxFaults \in Nat /\ MaxCommands \in Nat
      BY RecoveryAssumption
    <3>2. now = 0 /\ since = Never /\ failures = 0 /\ faults = 0 /\ commands = 0 /\ overlap = FALSE
      BY DEF Init
    <3>3. Never \in Never .. now
      BY <3>2 DEF Never
    <3>4. begun \in [Samplers -> Never .. now]
      BY <3>3 DEF Init
    <3>5. \A n \in Nat : 0 \in 0 .. n
      OBVIOUS
    <3>6. Threshold + 1 \in Nat
      BY <3>1
    <3> QED BY <3>1, <3>2, <3>3, <3>4, <3>5, <3>6, Zenon
  <2>3. /\ rf \in BOOLEAN /\ net \in BOOLEAN /\ manual \in BOOLEAN /\ radio \in BOOLEAN
        /\ registered \in BOOLEAN /\ incident \in BOOLEAN /\ wanted \in BOOLEAN
        /\ link \in {"down", "up", "lost"} /\ selecting \in {"none", "auto", "manual"}
    BY DEF Init
  <2> QED BY <1>1, <1>2, <2>1, <2>2, <2>3 DEF TypeOK
<1>4. IncidentHasOwner
  BY DEF Init, IncidentHasOwner
<1>5. Controlled
  BY DEF Init, Controlled, Control, Alone, PortsUp, Working, OneAction, RadioComesBack
<1>6. Times /\ WindowLimit
  <2>1. actions = <<>>
    BY DEF Init
  <2>2. DOMAIN actions = {} /\ actions \in Seq(Nat)
    BY <2>1
  <2> QED BY <2>2 DEF Times, Spaced, WindowLimit
<1> QED BY <1>3, <1>4, <1>5, <1>6 DEF IInv

(* Every step keeps it.                                                    *)
LEMMA NextIInv == IInv /\ [Next]_recVars => IInv'
<1> SUFFICES ASSUME IInv, [Next]_recVars PROVE IInv'
  OBVIOUS
<1> USE DEF IInv
<1>1. CASE Next
  <2>1. TypeOK' /\ IncidentHasOwner'
    BY <1>1, TypeStep DEF Times
  <2>2. Controlled'
    BY <1>1, ControlStep
  <2>3. now' \in Nat /\ now <= now'
    BY <1>1, TimeStep, RecoveryAssumption DEF TypeOK
  <2>4. CASE MemKept /\ actions' = actions
    BY <2>1, <2>2, <2>3, <2>4, KeptTimes
  <2>5. ASSUME NEW p \in Samplers, _maybe_recover_registration(p), Started(p)
        PROVE  Times' /\ WindowLimit'
    <3>1. now' = now
      BY <2>5 DEF _maybe_recover_registration
    <3> QED BY <2>5, <3>1, StartedTimes
  <2> QED BY <1>1, <2>1, <2>2, <2>4, <2>5, RecordStep DEF Times
<1>2. CASE UNCHANGED recVars
  <2>1. UNCHANGED <<rf, net, manual, link, radio, registered, failures, since, mem, disk, pc, doing,
                    begun, live, selecting, incident, now, wanted, actions, overlap, faults, commands>>
    BY <1>2 DEF recVars
  <2>2. TypeOK' /\ IncidentHasOwner'
    BY <2>1 DEF TypeOK, IncidentHasOwner
  <2>3. Controlled'
    BY <2>1, StillControlled
  <2>4. Times' /\ WindowLimit'
    BY <2>1 DEF Times, Spaced, Apart, WindowLimit
  <2> QED BY <2>2, <2>3, <2>4
<1> QED BY <1>1, <1>2

\* The inductive invariant holds in every state of the recovery.
THEOREM Invariance == Spec => []IInv
  BY InitIInv, NextIInv, PTL DEF Spec

\* The worker's state keeps its types; in particular what is on disk is what the
\* worker acts on, and holds no more attempts than the limit.
THEOREM TypeCorrect == Spec => []TypeOK
<1>1. IInv => TypeOK
  BY DEF IInv
<1> QED BY <1>1, Invariance, PTL

\* worker.py _finish_recovery, gateway.py _apply_device_recovery: an incident that
\* is open at the Server has an open issue at the worker, over kills, lost ports
\* and commands of the operator.
THEOREM IncidentIsOwned == Spec => []IncidentHasOwner
<1>1. IInv => IncidentHasOwner
  BY DEF IInv
<1> QED BY <1>1, Invariance, PTL

\* worker.py _maybe_recover_registration: for every limit, window and cooldown,
\* and however long an action takes, the actions in any 24 hours stay in the limit
\* over restarts and keep the cooldown between them, two samplers are at work
\* together only when the first outlasts it, and without faults and such an
\* overlap a radio cycle ends with the radio on.
THEOREM LadderIsBounded == Spec => []LadderBounded
<1>1. IInv => LadderBounded
  BY DEF IInv, Controlled, Times, LadderBounded
<1> QED BY <1>1, Invariance, PTL
=============================================================================
