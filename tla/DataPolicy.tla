----------------------------- MODULE DataPolicy -----------------------------
(***************************************************************************)
(* The packet-data policy of one module (worker.py, modem.py): what the    *)
(* operator allows is kept in the agent's store and enforced by every      *)
(* status sample and by the commands that change it.  The sample and a     *)
(* command are two coroutines that share the worker's state; a step is     *)
(* what runs between two awaits, one AT exchange or reading at most.  The  *)
(* user-data contexts of the module are one; its IMS bearer, which is      *)
(* never touched, is left out.                                             *)
(***************************************************************************)
EXTENDS Integers

CONSTANTS
    MaxPolicy,   \* bound: commands that change the policy
    MaxWorld,    \* bound: changes of the network and contexts others activate
    MaxDataFaults\* bound: readings and deactivations that fail

VARIABLES
    allowed,   \* data-policy key of the store
    roamingOk, \* roaming-data-policy key of the store
    network,   \* home, roaming or none
    attached,  \* the module: CGATT
    pdp,       \* the module: a user-data context is active
    state,     \* state.roaming with state.registered, data_attached, pdp_active
    enabled,   \* state.data_enabled
    at,        \* where each coroutine stands
    forced,    \* the force argument of each
    policies, worlds, dataFaults  \* history: steps of each bounded kind

truth == <<network, attached, pdp>>
counts == <<policies, worlds, dataFaults>>
dataVars == <<allowed, roamingOk, network, attached, pdp, state, enabled, at, forced,
              policies, worlds, dataFaults>>

Coroutines == {"sample", "command"}
Places == {"idle", "registration", "status", "decide", "deactivate", "attach", "again", "confirm", "on"}

TypeOK ==
    /\ {allowed, roamingOk, attached, pdp, enabled} \subseteq BOOLEAN
    /\ network \in {"home", "roaming", "none"}
    /\ state.net \in {"home", "roaming", "none", "unknown"}
    /\ state.att \in {"yes", "no", "unknown"} /\ state.pdp \in {"yes", "no", "unknown"}
    /\ at \in [Coroutines -> Places] /\ forced \in [Coroutines -> BOOLEAN]

\* A module an older agent left with an active context, and the default policy.
Init ==
    /\ allowed = FALSE /\ roamingOk = FALSE
    /\ network = "home" /\ attached = TRUE /\ pdp = TRUE
    /\ state = [net |-> "unknown", att |-> "unknown", pdp |-> "unknown"] /\ enabled = FALSE
    /\ at = [p \in Coroutines |-> IF p = "sample" THEN "status" ELSE "idle"]
    /\ forced = [p \in Coroutines |-> p = "sample"]
    /\ policies = 0 /\ worlds = 0 /\ dataFaults = 0

To(p, place) == at' = [at EXCEPT ![p] = place]

Read(b) == IF b THEN "yes" ELSE "no"
Fails == dataFaults < MaxDataFaults /\ dataFaults' = dataFaults + 1

----------------------------------------------------------------------------
(* Who enforces: the status sample, and the two commands *)

_sample_status ==
    /\ at["sample"] = "idle"
    /\ To("sample", "registration") /\ forced' = [forced EXCEPT !["sample"] = FALSE]
    /\ UNCHANGED <<allowed, roamingOk, truth, state, enabled, counts>>

Commanded == at["command"] = "idle" /\ policies < MaxPolicy /\ policies' = policies + 1

set_data_enabled(on) ==
    /\ Commanded
    /\ allowed' = on
    /\ To("command", "registration") /\ forced' = [forced EXCEPT !["command"] = TRUE]
    /\ UNCHANGED <<roamingOk, truth, state, enabled, worlds, dataFaults>>

set_roaming_data_allowed(on) ==
    /\ Commanded
    /\ roamingOk' = on
    /\ To("command", "registration") /\ forced' = [forced EXCEPT !["command"] = ~on]
    /\ UNCHANGED <<allowed, truth, state, enabled, worlds, dataFaults>>

Registration(failed) == IF failed THEN "unknown" ELSE network

read_registration(p) ==
    /\ at[p] = "registration"
    /\ \E failed \in BOOLEAN :
         /\ IF failed THEN Fails ELSE UNCHANGED dataFaults
         /\ state' = [state EXCEPT !.net = Registration(failed)]
    /\ To(p, "status")
    /\ UNCHANGED <<allowed, roamingOk, truth, enabled, forced, policies, worlds>>

----------------------------------------------------------------------------
(* _enforce_data_policy *)

read_data_status(p) ==
    /\ at[p] = "status"
    /\ \/ /\ state' = [state EXCEPT !.att = Read(attached), !.pdp = Read(pdp)]
          /\ UNCHANGED dataFaults
       \/ Fails /\ state' = [state EXCEPT !.att = "unknown", !.pdp = "unknown"]
    /\ To(p, "decide")
    /\ UNCHANGED <<allowed, roamingOk, truth, enabled, forced, policies, worlds>>

\* state.roaming is not False: an unknown network blocks, too.
Blocked == allowed /\ state.net \in {"roaming", "unknown"} /\ ~roamingOk

Registered == state.net \in {"home", "roaming"}

\* Mutant: a context that is up is left alone unless the call is forced.
NeedsStop_forced(p) == forced[p] /\ state.pdp # "no"

NeedsStop(p) ==
    \/ state.pdp = "yes" \/ (Registered /\ state.att = "no")
    \/ (forced[p] /\ state.pdp = "unknown")

_enforce_data_policy(p) ==
    /\ at[p] = "decide"
    /\ enabled' = (allowed /\ ~Blocked)
    /\ To(p, IF ~enabled' /\ NeedsStop(p) THEN "deactivate"
             ELSE IF enabled' /\ Registered /\ state.att = "no" THEN "on"
             ELSE "idle")
    /\ UNCHANGED <<allowed, roamingOk, truth, state, forced, counts>>

\* set_data_enabled(True): AT+CGATT=1, which may bring a default context up.
\* The worker's state follows the decision taken before the wait.
attach_allowed(p) ==
    /\ at[p] = "on"
    /\ \/ attached' = TRUE /\ pdp' \in {pdp, TRUE} /\ UNCHANGED dataFaults /\ enabled' = TRUE
       \/ Fails /\ UNCHANGED <<attached, pdp, enabled>>
    /\ state' = [state EXCEPT !.att = Read(attached'), !.pdp = Read(pdp')]
    /\ To(p, "idle")
    /\ UNCHANGED <<allowed, roamingOk, network, forced, policies, worlds>>

\* set_data_enabled(False): the active context is deactivated; a module that
\* is not attached is attached, and what that brings up deactivated as well.
deactivate(p) ==
    /\ at[p] \in {"deactivate", "again"}
    /\ \/ pdp' = FALSE /\ UNCHANGED dataFaults
       \/ pdp /\ Fails /\ UNCHANGED pdp
    /\ To(p, IF at[p] = "deactivate" /\ ~attached THEN "attach" ELSE "confirm")
    /\ UNCHANGED <<allowed, roamingOk, network, attached, state, enabled, forced, policies, worlds>>

reattach(p) ==
    /\ at[p] = "attach"
    /\ \/ attached' = TRUE /\ pdp' \in {pdp, TRUE} /\ To(p, "again") /\ UNCHANGED dataFaults
       \/ Fails /\ To(p, "confirm") /\ UNCHANGED <<attached, pdp>>
    /\ UNCHANGED <<allowed, roamingOk, network, state, enabled, forced, policies, worlds>>

\* The closing read.  Unless it shows the context down the call raises: the
\* sample takes the worker down, and the connection that follows enforces the
\* policy with force; a command only fails.
confirm(p) ==
    /\ at[p] = "confirm"
    /\ state' = [state EXCEPT !.att = Read(attached), !.pdp = Read(pdp)]
    /\ IF pdp /\ p = "sample"
       THEN To(p, "registration") /\ forced' = [forced EXCEPT ![p] = TRUE]
       ELSE To(p, "idle") /\ UNCHANGED forced
    /\ UNCHANGED <<allowed, roamingOk, truth, enabled, counts>>

----------------------------------------------------------------------------
(* The module and its network *)

World == worlds < MaxWorld /\ worlds' = worlds + 1

network_moves(to) ==
    /\ World /\ network # to
    /\ network' = to
    /\ attached' = (attached /\ to # "none") /\ pdp' = (pdp /\ to # "none")
    /\ UNCHANGED <<allowed, roamingOk, state, enabled, at, forced, policies, dataFaults>>

host_activates ==
    /\ World /\ attached /\ ~pdp
    /\ pdp' = TRUE
    /\ UNCHANGED <<allowed, roamingOk, network, attached, state, enabled, at, forced, policies, dataFaults>>

----------------------------------------------------------------------------

Goes(p) == read_registration(p) \/ read_data_status(p) \/ _enforce_data_policy(p)
           \/ attach_allowed(p) \/ deactivate(p) \/ reattach(p) \/ confirm(p)

Next ==
    \/ _sample_status
    \/ \E on \in BOOLEAN : set_data_enabled(on) \/ set_roaming_data_allowed(on)
    \/ \E p \in Coroutines : Goes(p)
    \/ \E to \in {"home", "roaming", "none"} : network_moves(to)
    \/ host_activates

Spec == Init /\ [][Next]_dataVars

\* The worker samples every interval and AT exchanges end.
Fairness == WF_dataVars(_sample_status) /\ \A p \in Coroutines : WF_dataVars(Goes(p))

----------------------------------------------------------------------------
(* Properties *)

Permitted == allowed /\ (roamingOk \/ network # "roaming")

\* Once the operator's policy and the network no longer permit data, the
\* worker ends up refusing it and the context is down, whatever the sample and
\* a command did to each other's state on the way.
Enforced == <>[]~Permitted => <>[](~enabled /\ ~pdp)
=============================================================================
