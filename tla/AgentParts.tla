----------------------------- MODULE AgentParts -----------------------------
(***************************************************************************)
(* The SMS inbox, and beside it the AT client, port discovery and the      *)
(* packet-data policy, under names that leave room for each other: what    *)
(* the run of the agent and the theorems about it have in common.          *)
(***************************************************************************)
EXTENDS Inbox

CONSTANTS Calls, Prompted, Shared, Urcs, Splits, MaxTimeouts,
          Ports, Modules, Configured, MaxAdopted, MaxPlugs, MaxUnread,
          MaxPolicy, MaxWorld, MaxDataFaults

(* Each call of execute has its own command; the prefixes registered for a *)
(* URC that some answer shares are those of calls.                         *)
ASSUME ATAssumption ==
    /\ Prompted \subseteq Calls /\ Shared \subseteq Calls /\ "none" \notin Calls
    /\ "no urc" \notin Splits /\ MaxTimeouts \in Nat

(* Ports and modules have numbers, and 0 stands for none; a configured     *)
(* device names an IMEI or a card.                                         *)
ASSUME DiscoveryAssumption ==
    /\ Ports \subseteq Nat \ {0} /\ 0 \notin Modules
    /\ Configured \in Seq({"imei", "iccid"} \X Modules)

VARIABLES
    (* ATClient *)
    call, waiting, pending, capture, port, wire, modem, toReport, got,
    dispatched, order, timeouts,
    (* Discovery *)
    plugged, workers, workerStatus, workerPort, claimed, scan, slipped, plugs,
    unread,
    (* DataPolicy *)
    allowed, roamingOk, network, attached, pdp, state, dataEnabled, at, forced,
    policies, worlds, dataFaults

AT == INSTANCE ATClient

Find == INSTANCE Discovery WITH status <- workerStatus, port <- workerPort

Data == INSTANCE DataPolicy WITH enabled <- dataEnabled

(* client.py: a command that finished well got its own response; what one  *)
(* that timed out leaves behind shifts the answers by as many commands as  *)
(* timed out, no more; URCs reach their handlers whole.                    *)
ATSafe == AT!OwnAnswer /\ AT!BoundedLag /\ AT!HandlersGetUrcs

(* discovery.py: a worker that asks for a module talks to that one; while  *)
(* modules give their identities in full every worker asks for one, and    *)
(* there is one worker for each adopted module.                            *)
DiscoverySafe == Find!RightModule /\ Find!NamedIfRead /\ Find!SpokenForIfRead
=============================================================================
