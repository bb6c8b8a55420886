------------------------------ MODULE HubParts ------------------------------
(***************************************************************************)
(* The registry of agent sessions with the online restore, and beside it   *)
(* the SMS delivery reports, the offline alerts and the opening of the     *)
(* database file, under names that leave room for each other: the parts of *)
(* the hub that the run checks and the theorems are about.                 *)
(***************************************************************************)
EXTENDS Restore

CONSTANTS Messages, SegmentCount, Gap, MaxReports,
          AlertReports, MaxRestart,
          MaxFaults

(* A start is interrupted finitely often.                                  *)
ASSUME FileAssumption == MaxFaults \in Nat

VARIABLES
    (* Delivery *)
    taken, sent, rows, msgStatus, best, stray, dlvrReports,
    (* OfflineAlert *)
    online, incident, enabled, session, timer, alerted, fresh, jobs, done,
    noted, pages, sinceUp, reports, restarts,
    (* Schema *)
    file, txn, pc, todo, preExisting, snaps, original, faults

Dlvr == INSTANCE Delivery WITH outcome <- sent, status <- msgStatus, reports <- dlvrReports

(* Connections, status frames, settings changes and restarts.              *)
Alert == INSTANCE OfflineAlert WITH MaxReports <- AlertReports

(* Every version a file may have.                                          *)
File == INSTANCE Schema

(* db.py record_sms_delivery: no report of a known segment is lost, and a  *)
(* message is delivered when all its segments are.                         *)
ReportsTrue == Dlvr!ReportsTrue

(* alerts.py: pages and all-clears alternate, an outage is paged once for  *)
(* each life of the hub, and the incident agrees with the device.          *)
AlertsTrue == Alert!Alternates /\ Alert!OnePage /\ Alert!IncidentMatches
=============================================================================
