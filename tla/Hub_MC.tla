------------------------------- MODULE Hub_MC -------------------------------
(***************************************************************************)
(* The parts of the hub that share no state in their models, checked in    *)
(* one run: the registry of agent sessions with the online restore, the    *)
(* offline alerts, the opening of the database file and the SMS delivery   *)
(* reports.  The initial state says which part moves; the others stand     *)
(* still, so the run is the union of four independent ones.                *)
(***************************************************************************)
EXTENDS HubParts

VARIABLE part

alertVars == <<online, incident, enabled, session, timer, alerted, fresh, jobs, done,
               noted, pages, sinceUp, reports, restarts>>
fileVars == <<file, txn, pc, todo, preExisting, snaps, original, faults>>
dlvrVars == <<taken, sent, rows, msgStatus, best, stray, dlvrReports>>
hubVars == <<part, alertVars, restoreVars, fileVars, dlvrVars>>

(* A file is looked for among all those a start may find only where the    *)
(* part is the opening of the database; elsewhere there is none.           *)
HubInit ==
    /\ part \in {"alerts", "switch", "file", "delivery"}
    /\ InitRestore /\ Alert!Init /\ File!Init /\ Dlvr!Init
    /\ part # "file" => file = File!NoFile

HubNext ==
    \/ /\ part = "switch" /\ Next
       /\ UNCHANGED <<part, alertVars, fileVars, dlvrVars>>
    \/ /\ part = "alerts" /\ Alert!Next
       /\ UNCHANGED <<part, restoreVars, fileVars, dlvrVars>>
    \/ /\ part = "file" /\ File!Next
       /\ UNCHANGED <<part, alertVars, restoreVars, dlvrVars>>
    \/ /\ part = "delivery" /\ Dlvr!Next
       /\ UNCHANGED <<part, alertVars, restoreVars, fileVars>>

(* The fairness of each part, as its module states and justifies it.       *)
AlertFair ==
    /\ WF_alertVars(part = "alerts" /\ Alert!execute)
    /\ WF_alertVars(part = "alerts" /\ Alert!start)
    /\ WF_alertVars(part = "alerts" /\ Alert!grace_over)
    /\ WF_alertVars(part = "alerts" /\ Alert!resume_session)
    /\ WF_alertVars(part = "alerts" /\ Alert!resume_enabled)
    /\ WF_alertVars(part = "alerts" /\ Alert!resume_record)
    /\ WF_alertVars(part = "alerts" /\ Alert!resume_recover)

SwitchFair == WF_restoreVars(part = "switch" /\ FairNext)

FileFair == WF_fileVars(part = "file" /\ File!Working)

HubSpec == HubInit /\ [][HubNext]_hubVars /\ AlertFair /\ SwitchFair /\ FileFair

-----------------------------------------------------------------------------
(* Every part keeps the types of its module.                               *)
HubTypeOK ==
    /\ part = "switch" => TypeOK
    /\ part = "alerts" => Alert!TypeOK
    /\ part = "file" => File!TypeOK
    /\ part = "delivery" => Dlvr!TypeOK

(* db.py _migrate, _run_step: an open database has the current shape, the  *)
(* version is never ahead of the shape, no committed step loses rows, and  *)
(* a changed file can be taken back.                                       *)
FileSound ==
    part = "file" => /\ File!OpenIsCurrent /\ File!VersionIsTrue
                     /\ File!RowsKept /\ File!WayBack

(* gateway.py _ingest, db.py _terminal_delivery_state: a retired gateway   *)
(* writes nothing into a restored database, delivered stays delivered.     *)
NoStepBack == NoStaleWrite /\ Dlvr!DeliveredIsFinal

(* alerts.py, restore.py _switch, db.py _migrate: an outage is paged and   *)
(* its end reported, maintenance ends or an operator is called, and the    *)
(* database opens in the end.                                              *)
HubLiveness ==
    /\ MaintenanceEnds /\ Alert!Paged /\ Alert!Recovered
    /\ part = "file" => File!Opens
=============================================================================
