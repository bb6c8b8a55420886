------------------------------ MODULE Recovery ------------------------------
(***************************************************************************)
(* Automatic recovery of one module (worker.py, modem.py): the supervisor  *)
(* that opens and reopens the port, the status sample with its AT health   *)
(* check, the ladder of recovery actions for a module that stays off the   *)
(* network, its 24-hour limit, the state kept on disk, and the commands of *)
(* the operator that run beside it.                                        *)
(*                                                                         *)
(* The sample runs in the worker's loop and, for a refresh command, in a   *)
(* second coroutine: a sampler is one of them.  A step is what runs        *)
(* between two awaits, and time may pass between any two steps: an action  *)
(* may outlast the cooldown, and the other sampler start the next.  The    *)
(* incident of the Server is changed when the agent emits the event, which *)
(* the event stream delivers in order; the texts and the measurements are  *)
(* left out.                                                               *)
(***************************************************************************)
EXTENDS Integers, FiniteSets, Sequences

CONSTANTS
    Limit,        \* recovery_max_attempts_24h
    Window,       \* RECOVERY_WINDOW, in ticks
    Delay,        \* registration_recovery_delay, in ticks
    Cooldown,     \* recovery_cooldown, in ticks
    Threshold,    \* health_failure_threshold
    MaxNow,       \* bound: ticks
    MaxFaults,    \* bound: kills, lost ports, failed health checks and CFUN=1
    MaxCommands   \* bound: commands of the operator

ASSUME RecoveryAssumption ==
    /\ {Limit, Delay, Cooldown, MaxNow, MaxFaults, MaxCommands} \subseteq Nat
    /\ {Window, Threshold} \subseteq Nat \ {0}

VARIABLES
    rf,        \* the module: AT+CFUN=1
    net,       \* a network that would register the module is in reach
    manual,    \* operator_selection_mode = 1
    link,      \* the worker: "down", "up", or "lost" before the teardown
    radio,     \* state.radio_enabled
    registered,\* state.registered
    failures,  \* _health_failures
    since,     \* _unregistered_since, or Never
    mem,       \* what _persist_recovery_state saves
    disk,      \* what it has saved
    pc,        \* where each sampler stands
    doing,     \* the recovery action each sampler performs
    begun,     \* when it decided on it, or Never
    live,      \* samplers whose port has not died since they began
    selecting, \* the selection select_operator is waiting for
    incident,  \* the Server's incident for this module is open
    now,
    wanted,    \* history: the last radio command of the operator
    actions,   \* history: times of the registration recovery actions
    overlap,   \* history: an action was started while the other sampler was at one
    faults,    \* history: number of faults
    commands   \* history: number of commands

moduleVars == <<rf, net, manual>>
procVars == <<pc, doing, begun, live>>
recVars == <<rf, net, manual, link, radio, registered, failures, since, mem, disk, pc, doing,
             begun, live, selecting, incident, now, wanted, actions, overlap, faults, commands>>

Samplers == {"loop", "refresh"}
Ladder == <<"operator_reselect", "radio_cycle", "module_reset">>
Never == -1
Actions == {Ladder[n] : n \in 1 .. 3}
Clear == [stage |-> 0, attempts |-> {}, inflight |-> "none", issue |-> FALSE, limit |-> FALSE]

\* An attempt of the last 24 hours; numbers keep those of equal times apart.
Attempts == [no : Nat, at : 0 .. MaxNow]

Records ==
    [stage : 0 .. 2, attempts : SUBSET Attempts, inflight : {"none", "serial_reconnect"} \cup Actions,
     issue : BOOLEAN, limit : BOOLEAN]

TypeOK ==
    /\ rf \in BOOLEAN /\ net \in BOOLEAN /\ manual \in BOOLEAN /\ radio \in BOOLEAN
    /\ registered \in BOOLEAN /\ incident \in BOOLEAN /\ wanted \in BOOLEAN
    /\ link \in {"down", "up", "lost"}
    /\ failures \in 0 .. Threshold + 1
    /\ since \in Never .. now
    /\ mem \in Records /\ \A a \in mem.attempts : a.at <= now
    /\ IsFiniteSet(mem.attempts) /\ Cardinality(mem.attempts) <= Limit
    /\ disk = mem
    /\ pc \in [Samplers -> {"idle", "read", "decide", "allowed", "reset", "cfun", "check"}]
    /\ doing \in [Samplers -> {"none"} \cup Actions]
    /\ begun \in [Samplers -> Never .. now]
    /\ overlap \in BOOLEAN
    /\ live \subseteq Samplers
    /\ selecting \in {"none", "auto", "manual"}
    /\ now \in 0 .. MaxNow /\ faults \in 0 .. MaxFaults /\ commands \in 0 .. MaxCommands

Init ==
    /\ rf = TRUE /\ net = TRUE /\ manual = FALSE
    /\ link = "down" /\ radio = TRUE /\ registered = FALSE /\ failures = 0
    /\ since = Never /\ mem = Clear /\ disk = Clear
    /\ pc = [p \in Samplers |-> "idle"] /\ doing = [p \in Samplers |-> "none"]
    /\ begun = [p \in Samplers |-> Never] /\ live = {}
    /\ selecting = "none" /\ incident = FALSE
    /\ now = 0 /\ wanted = TRUE /\ actions = <<>> /\ overlap = FALSE /\ faults = 0 /\ commands = 0

Fault == faults < MaxFaults /\ faults' = faults + 1

----------------------------------------------------------------------------
(* The durable record and the events *)

\* Mutant: the action is not saved before it is taken.
Save_at_end(m) == mem' = m /\ disk' = IF m.inflight # "none" THEN disk ELSE m

Save(m) == mem' = m /\ disk' = m

_start_recovery(m, action) ==
    /\ Save([m EXCEPT !.inflight = action, !.issue = TRUE])
    /\ incident' = TRUE

\* Mutant: a failed action closes the issue, too.
Finished_failed(m, outcome) == [m EXCEPT !.inflight = "none", !.issue = FALSE]

Finished(m, outcome) ==
    [m EXCEPT !.inflight = "none", !.issue = @ /\ outcome = "failed"]

_finish_recovery(m, outcome) ==
    /\ Save(Finished(m, outcome))
    /\ incident' = (incident /\ outcome = "failed")

\* Mutant: the issue is closed only when the ladder had been entered.
close_issue_changed(m, outcome) ==
    LET quiet == [m EXCEPT !.stage = 0, !.limit = FALSE]
    IN  /\ since' = Never
        /\ IF m.issue /\ (m # quiet \/ since # Never) THEN _finish_recovery(quiet, outcome)
           ELSE Save(quiet) /\ UNCHANGED incident

\* _registration_restored and _cancel_registration_recovery differ only in the
\* outcome they report, and report it only for an open issue.
close_issue(m, outcome) ==
    LET quiet == [m EXCEPT !.stage = 0, !.limit = FALSE]
    IN  /\ since' = Never
        /\ IF m.issue THEN _finish_recovery(quiet, outcome)
           ELSE Save(quiet) /\ UNCHANGED incident

InWindow(t) == now - t \in 0 .. Window - 1

\* Mutant: a restart begins a new window.
_load_recovery_state_fresh == [disk EXCEPT !.attempts = {}]

_load_recovery_state == [disk EXCEPT !.attempts = {a \in @ : InWindow(a.at)}]

_prune_recovery_attempts ==
    LET recent == {a \in mem.attempts : InWindow(a.at)}
    IN  [mem EXCEPT !.attempts = recent, !.limit = @ /\ Cardinality(recent) >= Limit]

----------------------------------------------------------------------------
(* The status sample *)

To(p, where) == pc' = [pc EXCEPT ![p] = where]

\* Commands of the operator reach a module that is online.
Command == link = "up" /\ commands < MaxCommands /\ commands' = commands + 1

\* The AT health check.  At the threshold the loop gives the port up; in a
\* refresh command the same exception only fails the command.
_check_health(p) ==
    /\ pc[p] = "idle" /\ link = "up"
    /\ IF p = "refresh" THEN Command ELSE UNCHANGED commands
    /\ \/ /\ failures' = 0
          /\ To(p, "read") /\ live' = live \cup {p}
          /\ UNCHANGED <<link, mem, disk, incident, faults>>
       \/ /\ Fault
          /\ failures' = IF failures < Threshold THEN failures + 1 ELSE failures
          /\ IF failures + 1 < Threshold
             THEN UNCHANGED <<link, mem, disk, incident>>
             ELSE /\ _start_recovery(mem, "serial_reconnect")
                  /\ link' = IF p = "loop" THEN "lost" ELSE link
          /\ UNCHANGED <<pc, live>>
    /\ UNCHANGED <<moduleVars, radio, registered, since, doing, begun, selecting, now, wanted, actions, overlap>>

\* What the module answers now, unless its port has died: the radio is then
\* what it was, and registration counts as missing.
_read_state(p) ==
    /\ pc[p] = "read"
    /\ radio' = IF p \in live THEN rf ELSE radio
    /\ registered' = (p \in live /\ rf /\ net)
    /\ To(p, "decide")
    /\ UNCHANGED <<moduleVars, link, failures, since, mem, disk, doing, begun, live, selecting, incident, now,
                   wanted, actions, overlap, faults, commands>>

\* The last attempt is the one that counts: none is later.
Cooling(m) == \E a \in m.attempts : now - a.at < Cooldown

Exhausted(m) == Cardinality(m.attempts) >= Limit

_report_recovery_limit(m) ==
    IF m.limit THEN Save(m) /\ UNCHANGED incident
    ELSE Save([m EXCEPT !.limit = TRUE, !.issue = TRUE]) /\ incident' = TRUE

_maybe_recover_registration(p) ==
    /\ pc[p] = "decide"
    /\ LET start == IF since = Never THEN now ELSE since
           m == _prune_recovery_attempts
           action == Ladder[m.stage + 1]
           give_up(outcome) == close_issue(mem, outcome) /\ UNCHANGED <<doing, begun, actions, overlap>> /\ To(p, "idle")
       IN  \/ /\ ~radio \/ manual \/ (~registered /\ Limit = 0)
              /\ give_up("cancelled")
           \/ /\ radio /\ ~manual /\ registered
              /\ give_up("succeeded")
           \/ /\ radio /\ ~manual /\ ~registered /\ Limit # 0
              /\ since' = start
              /\ IF now - start < Delay
                 THEN To(p, "idle") /\ UNCHANGED <<mem, disk, incident, doing, begun, actions, overlap>>
                 ELSE IF Exhausted(m)
                 THEN To(p, "idle") /\ _report_recovery_limit(m) /\ UNCHANGED <<doing, begun, actions, overlap>>
                 ELSE IF Cooling(m)
                 THEN To(p, "idle") /\ Save(m) /\ UNCHANGED <<incident, doing, begun, actions, overlap>>
                 ELSE /\ _start_recovery([m EXCEPT !.attempts = @ \cup {[no |-> Len(actions) + 1, at |-> now]}], action)
                      /\ actions' = Append(actions, now)
                      /\ overlap' = (overlap \/ \E q \in Samplers : doing[q] # "none")
                      /\ doing' = [doing EXCEPT ![p] = action] /\ begun' = [begun EXCEPT ![p] = now]
                      /\ To(p, IF action = "module_reset" THEN "reset" ELSE "allowed")
    /\ UNCHANGED <<moduleVars, link, radio, registered, failures, live, selecting, now, wanted, faults, commands>>

Rest(p) ==
    /\ To(p, "idle")
    /\ doing' = [doing EXCEPT ![p] = "none"] /\ begun' = [begun EXCEPT ![p] = Never]

\* The outcome of an action, for the worker.
conclude(p, recovered) ==
    /\ Rest(p)
    /\ IF recovered
       THEN /\ registered' = TRUE /\ since' = Never
            /\ _finish_recovery([mem EXCEPT !.stage = 0, !.limit = FALSE], "succeeded")
       ELSE /\ _finish_recovery([mem EXCEPT !.stage = (@ + 1) % 3], "failed")
            /\ UNCHANGED <<registered, since>>

\* _automatic_recovery_allowed asks for the radio again, and only then the
\* first AT command of the action is sent: AT+COPS=0, or AT+CFUN=0.
recovery_action(p) ==
    /\ pc[p] = "allowed"
    /\ LET on == IF p \in live THEN rf ELSE radio
       IN  IF ~on THEN conclude(p, FALSE) /\ UNCHANGED rf
           ELSE /\ IF doing[p] = "radio_cycle" /\ p \in live
                   THEN rf' = FALSE /\ To(p, "cfun")
                   ELSE To(p, "check") /\ UNCHANGED rf
                /\ UNCHANGED <<registered, since, mem, disk, incident, doing, begun>>
    /\ UNCHANGED <<net, manual, link, radio, failures, live, selecting, now, wanted, actions, overlap, faults, commands>>

TurnsOn(p) == p \in live

\* AT+CFUN=1 a second later.  It fails with the port, or for itself.
cycle_radio(p) ==
    /\ pc[p] = "cfun"
    /\ \/ TurnsOn(p) /\ rf' = TRUE /\ UNCHANGED faults
       \/ ~TurnsOn(p) /\ UNCHANGED <<rf, faults>>
       \/ TurnsOn(p) /\ Fault /\ UNCHANGED rf
    /\ To(p, "check")
    /\ UNCHANGED <<net, manual, link, radio, registered, failures, since, mem, disk, doing, begun, live, selecting,
                   incident, now, wanted, actions, overlap, commands>>

check_registration(p) ==
    /\ pc[p] = "check"
    /\ conclude(p, p \in live /\ rf /\ net)
    /\ UNCHANGED <<moduleVars, link, radio, failures, live, selecting, now, wanted, actions, overlap, faults, commands>>

\* The module restarts, with its radio on or as it was; the loop reopens the
\* port and a refresh command fails, the outcome is left to the next connection.
module_reset(p) ==
    /\ pc[p] = "reset"
    /\ Save([mem EXCEPT !.stage = 0])
    /\ since' = begun[p]
    /\ Rest(p)
    /\ IF p \in live THEN rf' \in {rf, TRUE} /\ link' = "lost" /\ live' = {}
       ELSE UNCHANGED <<rf, link, live>>
    /\ UNCHANGED <<net, manual, radio, registered, failures, selecting, incident, now, wanted, actions, overlap,
                   faults, commands>>

----------------------------------------------------------------------------
(* The supervisor *)

Interrupted(m) == m.inflight # "none"

\* _connect up to _settle_recovery_after_connect: the first readings, then the
\* end of what the loss of the port, a reset or a crash interrupted.
_connect ==
    /\ link = "down"
    /\ link' = "up" /\ radio' = rf /\ registered' = (rf /\ net) /\ failures' = 0
    /\ LET outcome == CASE mem.inflight = "serial_reconnect" -> "succeeded"
                        [] ~radio' -> "cancelled"
                        [] registered' -> "succeeded"
                        [] OTHER -> "failed"
           m == IF Interrupted(mem) THEN Finished(mem, outcome) ELSE mem
           open == IF Interrupted(mem) THEN incident /\ outcome = "failed" ELSE incident
           quiet == [m EXCEPT !.stage = 0, !.limit = FALSE]
       IN  IF registered' \/ ~radio'
           THEN /\ since' = Never
                /\ Save([quiet EXCEPT !.inflight = IF m.issue THEN "none" ELSE @, !.issue = FALSE])
                /\ incident' = (open /\ ~m.issue)
           ELSE since' = now /\ Save(m) /\ incident' = open
    /\ UNCHANGED <<moduleVars, procVars, selecting, now, wanted, actions, overlap, faults, commands>>

\* _serve notices the loss; _go_offline and _teardown.
_teardown ==
    /\ link = "lost" /\ pc["loop"] = "idle"
    /\ link' = "down" /\ live' = {}
    /\ UNCHANGED <<moduleVars, radio, registered, failures, since, mem, disk, pc, doing, begun, selecting, incident,
                   now, wanted, actions, overlap, faults, commands>>

port_dies ==
    /\ link = "up" /\ Fault
    /\ link' = "lost" /\ live' = {}
    /\ UNCHANGED <<moduleVars, radio, registered, failures, since, mem, disk, pc, doing, begun, selecting, incident,
                   now, wanted, actions, overlap, commands>>

\* The agent dies and comes back with what is on disk.
kill ==
    /\ Fault
    /\ link' = "down" /\ radio' = TRUE /\ registered' = FALSE /\ failures' = 0 /\ since' = Never
    /\ Save(_load_recovery_state)
    /\ pc' = [p \in Samplers |-> "idle"] /\ doing' = [p \in Samplers |-> "none"]
    /\ begun' = [p \in Samplers |-> Never] /\ live' = {}
    /\ selecting' = "none"
    /\ UNCHANGED <<moduleVars, incident, now, wanted, actions, overlap, commands>>

----------------------------------------------------------------------------
(* Commands of the operator, and the world *)

\* What a command that changed the registration does with an open issue.
after_command(off) ==
    IF off THEN close_issue(mem, "cancelled")
    ELSE IF registered' THEN close_issue(mem, "succeeded")
    ELSE since' = now /\ UNCHANGED <<mem, disk, incident>>

set_radio_enabled(on) ==
    /\ Command
    /\ rf' = on /\ radio' = on /\ registered' = (on /\ net)
    /\ wanted' = on
    /\ after_command(~on)
    /\ UNCHANGED <<net, manual, link, failures, procVars, selecting, now, actions, overlap, faults>>

\* AT+COPS is accepted; the wait for the registration follows.
select_operator(mode) ==
    /\ Command /\ radio /\ selecting = "none"
    /\ selecting' = mode
    /\ UNCHANGED <<moduleVars, link, radio, registered, failures, since, mem, disk, procVars, incident, now,
                   wanted, actions, overlap, faults>>

select_settled ==
    /\ selecting # "none"
    /\ manual' = (selecting = "manual") /\ selecting' = "none"
    /\ registered' = (link = "up" /\ rf /\ net)
    /\ after_command(~registered' /\ manual')
    /\ UNCHANGED <<rf, net, link, radio, failures, procVars, now, wanted, actions, overlap, faults, commands>>

network_changes ==
    /\ net' = ~net
    /\ UNCHANGED <<rf, manual, link, radio, registered, failures, since, mem, disk, procVars, selecting, incident,
                   now, wanted, actions, overlap, faults, commands>>

tick ==
    /\ now < MaxNow /\ now' = now + 1
    /\ UNCHANGED <<moduleVars, link, radio, registered, failures, since, mem, disk, procVars, selecting, incident,
                   wanted, actions, overlap, faults, commands>>

----------------------------------------------------------------------------

Goes(p) == _read_state(p) \/ _maybe_recover_registration(p) \/ recovery_action(p) \/ cycle_radio(p)
           \/ check_registration(p) \/ module_reset(p)

Next ==
    \/ \E p \in Samplers : _check_health(p) \/ Goes(p)
    \/ _connect \/ _teardown \/ port_dies \/ kill
    \/ \E on \in BOOLEAN : set_radio_enabled(on)
    \/ \E mode \in {"auto", "manual"} : select_operator(mode)
    \/ select_settled \/ network_changes \/ tick

Spec == Init /\ [][Next]_recVars

\* The event loop resumes what is ready, the loop samples every interval, and
\* a port that was given up is opened again.
Fairness ==
    /\ \A p \in Samplers : WF_recVars(Goes(p))
    /\ WF_recVars(_check_health("loop")) /\ WF_recVars(_connect) /\ WF_recVars(_teardown)

FairSpec == Spec /\ Fairness

----------------------------------------------------------------------------
(* Properties *)

\* No more than the configured number of recovery actions in any 24 hours,
\* restarts of the agent, resets of the module and refreshes included.
WindowLimit ==
    \A n \in DOMAIN actions :
        Cardinality({k \in DOMAIN actions : actions[k] - actions[n] \in 0 .. Window - 1}) <= Limit

\* An incident that is open at the Server belongs to an issue the worker still
\* knows of: nobody else would ever resolve it.
IncidentHasOwner == incident => disk.issue

\* Long enough after an action for the next one: the cooldown, or the window
\* after which the attempt is forgotten.
Apart(s, t) == t - s >= Cooldown \/ t - s >= Window

\* The actions keep that distance, over restarts, resets and refreshes.
Spaced == \A i, j \in DOMAIN actions : i < j => Apart(actions[i], actions[j])

\* Two samplers disturb the module at the same time only when the action of
\* the one outlasts the cooldown.
OneAction ==
    \A p, q \in Samplers : doing[p] # "none" /\ doing[q] # "none" /\ p # q =>
        Apart(begun[p], begun[q]) \/ Apart(begun[q], begun[p])

\* Without faults and such an overlap the radio is off against the operator's
\* wish only while a cycle is between AT+CFUN=0 and AT+CFUN=1.
RadioComesBack == faults = 0 /\ ~overlap /\ wanted /\ ~rf => \E p \in Samplers : pc[p] = "cfun"

\* worker.py _maybe_recover_registration: what the ladder does to the module is
\* bounded, by its number, by the distance of its actions, and by the end of a
\* cycle.
LadderBounded == WindowLimit /\ Spaced /\ OneAction /\ RadioComesBack

\* A recovery that was started is concluded, crashes and lost ports in between
\* included; only what a refresh command asks for in vain is left, with the port
\* open and nobody at work, to the next connection: a reconnection, or the reset
\* of a port that is gone.
Concluded ==
    mem.inflight # "none" ~> \/ mem.inflight = "none"
                             \/ /\ mem.inflight \in {"serial_reconnect", "module_reset"} /\ link = "up"
                                /\ \A p \in Samplers : doing[p] = "none"

\* Once the module can register and its radio stays on, the incident is closed.
IncidentCleared == <>[](rf /\ net) => <>[]~incident

\* worker.py _settle_recovery_after_connect, _registration_restored: what was
\* started is concluded, and what was reported is cleared.
Recovers == Concluded /\ IncidentCleared

\* "A deliberate flight-mode choice must never be undone by an automatic
\* registration recovery" (modem.py, _automatic_recovery_allowed).
FlightModeKept == [][~wanted /\ ~wanted' /\ ~rf => ~rf']_recVars
=============================================================================
