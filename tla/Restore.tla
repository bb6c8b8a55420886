------------------------------ MODULE Restore -------------------------------
(***************************************************************************)
(* Replacing the live database by an uploaded backup while the hub runs    *)
(* (restore.py), composed with the registry of agent sessions and the      *)
(* writer thread it must silence first (Registry.tla).                     *)
(*                                                                         *)
(* The switch runs alone behind a lock, but agent sessions, browser        *)
(* requests and writes queued before it are still finishing.  Every        *)
(* database step of it is one operation of the writer thread and may fail; *)
(* a failed switch puts the snapshot back, a failed rollback leaves the    *)
(* hub in maintenance for an operator.  The process may be killed and      *)
(* started again at any point.  The backup API copies all pages in one     *)
(* transaction, so a failed or interrupted copy leaves the old contents.   *)
(***************************************************************************)
EXTENDS Registry

CONSTANTS MaxRestores,  \* restores begun
          MaxKills      \* times the process is killed

VARIABLES step,      \* where restore() stands
          active,    \* restore.active: the API is closed
          outcome,   \* restore.outcome
          snapshot,  \* the copy of the live database taken before the switch
          notifier,  \* the notifier runs, was paused, or is rebuilt
          restores, kills

controlVars == <<step, active, outcome, snapshot, notifier, restores, kills>>
restoreVars == <<registryVars, controlVars>>

(* The steps that are operations of the writer thread, in their order.     *)
DbSteps == {"clean", "backup", "replace", "reset", "verify", "rollback", "verify_back"}
Steps == {"idle", "preparing", "draining", "finish"} \union DbSteps

NoSnapshot == [connected |-> {}, rows |-> {}, backup |-> 0, owed |-> {}, taken |-> FALSE]

InitRestore ==
    /\ InitRegistry
    /\ step = "idle" /\ active = FALSE /\ outcome = "none"
    /\ snapshot = NoSnapshot
    /\ notifier = "running"
    /\ restores = 0 /\ kills = 0

-----------------------------------------------------------------------------
(* RestoreMiddleware *)

(* A socket or a request is let in unless the switch is on.                *)
open_socket(s) == ~active /\ serve(s) /\ UNCHANGED controlVars
open_request(r) == ~active /\ request(r) /\ UNCHANGED controlVars

InFlight == {r \in Requests : req[r] \notin {"none", "done"}}

(* The control.idle event: set when the last request in flight leaves.     *)
Idle == InFlight = {}

-----------------------------------------------------------------------------
(* RestoreController *)

(* restore/_upload: one at a time; the upload, its validation and the      *)
(* migration of the candidate touch nothing that is live.                  *)
restore ==
    /\ step = "idle" /\ ~active /\ restores < MaxRestores
    /\ step' = "preparing" /\ outcome' = "none" /\ snapshot' = NoSnapshot
    /\ restores' = restores + 1
    /\ UNCHANGED <<registryVars, active, notifier, kills>>

upload_fails ==
    /\ step = "preparing"
    /\ step' = "idle" /\ outcome' = "unchanged"
    /\ UNCHANGED <<registryVars, active, snapshot, notifier, restores, kills>>

(* retire_for_restore: no session of this gateway is served any more.      *)
retire_for_restore ==
    /\ retiring' = TRUE
    /\ ready' = {}
    /\ _abandon_pending({conns[a] : a \in Agents} \ {None})
    /\ conns' = [a \in Agents |-> None]

(* _switch: in one step of the loop the API closes, the gateway is retired *)
(* and its maintenance flag is set (stop_background).                      *)
_switch ==
    /\ step = "preparing"
    /\ active' = TRUE /\ step' = "draining"
    /\ retire_for_restore
    /\ maintenance' = TRUE
    /\ UNCHANGED <<sess, gw, writer, db, owed, outcome, snapshot, notifier,
                   restores, kills>>

(* The requests in flight are awaited; then nothing is pushed any more     *)
(* (notifier.pause) and the database steps begin.                          *)
drained ==
    /\ step = "draining" /\ Idle
    /\ notifier' = "paused"
    /\ step' = "clean" /\ Queue("restore", "clean")
    /\ UNCHANGED <<sess, conns, ready, gatewayVars, pending, req, db, owed,
                   active, outcome, snapshot, restores, kills>>

(* Mutant: the wait for the requests has no limit.                         *)
drain_timeout_never ==
    step = "draining" /\ ~Idle /\ UNCHANGED restoreVars

(* restore_drain_timeout: 409, the database is left as it is.              *)
drain_timeout ==
    /\ step = "draining" /\ ~Idle
    /\ step' = "finish" /\ outcome' = "unchanged"
    /\ UNCHANGED <<registryVars, active, snapshot, notifier, restores, kills>>

(* The step after a database step that succeeded, and after one that did   *)
(* not: before the copy nothing is to be undone.                           *)
AfterDone == [clean |-> "backup", backup |-> "replace", replace |-> "reset",
              reset |-> "verify", verify |-> "finish",
              rollback |-> "verify_back", verify_back |-> "finish"]
AfterFailed == [clean |-> "finish", backup |-> "finish", replace |-> "rollback",
                reset |-> "rollback", verify |-> "rollback",
                rollback |-> "finish", verify_back |-> "finish"]
Outcome == [verify |-> "restored", verify_back |-> "rolled_back"]
FailedOutcome == [clean |-> "unchanged", backup |-> "unchanged",
                  rollback |-> "manual_recovery", verify_back |-> "manual_recovery"]

(* A backup of a hub that was running shows its agents connected.  Its     *)
(* "backup" mark names the gateway it was restored under.                  *)
Backup == [connected |-> Agents, rows |-> {}, backup |-> gw]

(* What each database step does to the live database.  A restored backup   *)
(* is answerable only for what is promised from then on; the snapshot for  *)
(* everything promised before it and since.                                *)
Effect(at) ==
    CASE at = "clean" ->
           db' = [db EXCEPT !.connected = {}] /\ UNCHANGED <<snapshot, owed>>
      [] at = "backup" ->
           /\ snapshot' = [connected |-> db.connected, rows |-> db.rows,
                           backup |-> db.backup, owed |-> owed, taken |-> TRUE]
           /\ UNCHANGED <<db, owed>>
      [] at = "replace" -> db' = Backup /\ owed' = {} /\ UNCHANGED snapshot
      [] at = "reset" ->
           db' = [db EXCEPT !.connected = {}] /\ UNCHANGED <<snapshot, owed>>
      [] at = "rollback" ->
           /\ db' = [connected |-> snapshot.connected, rows |-> snapshot.rows,
                     backup |-> snapshot.backup]
           /\ owed' = owed \union snapshot.owed
           /\ UNCHANGED snapshot
      [] at \in {"verify", "verify_back"} -> UNCHANGED <<db, snapshot, owed>>

Proceed(next) ==
    /\ step' = next
    /\ writer' = IF next = "finish" THEN Tail(writer)
                 ELSE Append(Tail(writer), <<"restore", next>>)

db_step ==
    /\ NextWrite("restore")
    /\ \/ /\ Effect(step)
          /\ Proceed(AfterDone[step])
          /\ outcome' = IF step \in DOMAIN Outcome THEN Outcome[step] ELSE outcome
       \/ /\ Proceed(AfterFailed[step])
          /\ outcome' = IF step \in DOMAIN FailedOutcome THEN FailedOutcome[step]
                        ELSE outcome
          /\ UNCHANGED <<db, snapshot, owed>>
    /\ UNCHANGED <<sess, conns, ready, gatewayVars, pending, req, active,
                   notifier, restores, kills>>

(* The finally of _switch: the services that were stopped are rebuilt on   *)
(* the database as it is now, and the API opens; after a rollback that     *)
(* failed, or a rebuild that does, it stays closed.                        *)
rebuild ==
    /\ gw' = gw + 1 /\ retiring' = FALSE /\ maintenance' = FALSE
    /\ notifier' = "running"

finish ==
    /\ step = "finish"
    /\ step' = "idle"
    /\ \/ /\ outcome # "manual_recovery"
          /\ rebuild /\ active' = FALSE /\ UNCHANGED outcome
       \/ /\ outcome' = "manual_recovery"
          /\ UNCHANGED <<gatewayVars, notifier, active>>
    /\ UNCHANGED <<sess, conns, ready, pending, req, writer, db, owed, snapshot,
                   restores, kills>>

(* The process is killed and started: what is queued for the writer is     *)
(* gone with every task, and AppState.build marks every agent disconnected.*)
restart ==
    /\ kills < MaxKills /\ kills' = kills + 1
    /\ sess' = [s \in Sockets |->
                  IF sess[s].at = "none" THEN sess[s] ELSE [sess[s] EXCEPT !.at = "gone"]]
    /\ conns' = [a \in Agents |-> None] /\ ready' = {}
    /\ gw' = gw + 1 /\ retiring' = FALSE /\ maintenance' = FALSE
    /\ pending' = [r \in Requests |-> None]
    /\ req' = [r \in Requests |-> IF req[r] = "none" THEN "none" ELSE "done"]
    /\ writer' = <<>>
    /\ db' = [db EXCEPT !.connected = {}]
    /\ step' = "idle" /\ active' = FALSE /\ outcome' = "none"
    /\ snapshot' = NoSnapshot /\ notifier' = "running"
    /\ UNCHANGED <<owed, restores>>

SwitchNext == _switch \/ drained \/ drain_timeout \/ db_step \/ finish

Next ==
    \/ \E s \in Sockets : open_socket(s)
    \/ \E r \in Requests : open_request(r)
    \/ (WriterNext \/ SessionNext \/ RequestNext) /\ UNCHANGED controlVars
    \/ restore \/ upload_fails \/ SwitchNext \/ restart

Spec == InitRestore /\ [][Next]_restoreVars

(* The writer thread runs what is queued, and the admitted switch runs to  *)
(* its end (finish_before_cancel); nothing is assumed of peers, requests   *)
(* and uploads.                                                            *)
FairNext == SwitchNext \/ (WriterNext /\ UNCHANGED controlVars)

FairSpec == Spec /\ WF_restoreVars(FairNext)

-----------------------------------------------------------------------------
(* Properties *)

(* Every variable has its type.                                            *)
TypeOK ==
    /\ sess \in [Sockets -> [at : SessionAt, agent : Agents \union {None},
                             item : Items \union {None}, gw : Nat]]
    /\ conns \in [Agents -> Sockets \union {None}]
    /\ ready \subseteq Sockets
    /\ gw \in Nat /\ retiring \in BOOLEAN /\ maintenance \in BOOLEAN
    /\ pending \in [Requests -> Sockets \union {None}]
    /\ req \in [Requests -> RequestAt]
    /\ \A k \in DOMAIN writer : writer[k][1] \in {"register", "disconnect", "event", "row", "restore"}
    /\ db.connected \subseteq Agents /\ db.rows \subseteq Items \union Requests
    /\ owed \subseteq Items \union Requests
    /\ step \in Steps /\ active \in BOOLEAN
    /\ outcome \in {"none", "unchanged", "restored", "rolled_back", "manual_recovery"}
    /\ notifier \in {"running", "paused"}

(* gateway.py _unregister, _persist_disconnect: a session that is being    *)
(* served is never marked disconnected in the database by the clean-up of  *)
(* another session of its agent, nor by the runtime reset of a restore.    *)
LiveIsConnected ==
    \A s \in ready : sess[s].at \in {"serving", "applying", "applied"} =>
                         sess[s].agent \in db.connected

(* gateway.py _register ("concurrent hellos cannot both win"): two         *)
(* sessions never serve one agent.                                         *)
OneSession ==
    \A s, t \in ready : s # t => sess[s].agent # sess[t].agent

(* gateway.py _abandon_pending: a waiting call is waiting for a session    *)
(* that is still served, so no browser waits out a timeout for an agent    *)
(* that is known to be gone.                                               *)
PendingHasOwner == \A r \in Requests : pending[r] # None => pending[r] \in ready

(* restore.py _switch: an event that was acknowledged to an agent (which   *)
(* then deletes it) and a write that was answered to a browser are in the  *)
(* live database, whatever fails, unless a backup replaced it since.       *)
PromisesKept == owed \subseteq db.rows

(* gateway.py:246-248 ("their cleanup must not write stale offline state   *)
(* after the replacement gateway is serving again"): no session of a       *)
(* gateway that was retired for a restore changes the restored database,   *)
(* neither with an event nor with its registration or clean-up.            *)
NoStaleWrite ==
    [][db' # db /\ writer # <<>> /\ Head(writer)[1] \in {"register", "disconnect", "event"}
          /\ writer' = Tail(writer)
         => sess[Writing].gw > db.backup]_restoreVars

(* restore.py: when the API is open, the hub serves: its gateway is not a  *)
(* retired one and its notifier runs.                                      *)
OpenIsServing == ~active => ~retiring /\ ~maintenance /\ notifier = "running"

(* gateway.py, restore.py: the promises of the registry and of the switch  *)
(* together.                                                               *)
SessionsTrue ==
    LiveIsConnected /\ OneSession /\ PendingHasOwner /\ PromisesKept /\ OpenIsServing

(* gateway.py:543-545: "Restore already retired this registry and will     *)
(* persist a clean runtime state": an agent the database shows as          *)
(* connected has a session, or a restore is on its way to reset it.        *)
ConnectedIsLive ==
    ~active => \A a \in db.connected : conns[a] # None

(* restore.py _switch: maintenance ends, or an operator is called.         *)
MaintenanceEnds == active ~> (~active \/ outcome = "manual_recovery")
=============================================================================
