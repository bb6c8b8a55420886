------------------------------ MODULE Agent_MC ------------------------------
(***************************************************************************)
(* The parts of the agent that share no state in their models, checked in  *)
(* one run: the AT client, the SMS inbox, the packet-data policy, port     *)
(* discovery and, with the hub it talks to, the event stream on a calm     *)
(* link.  The initial state says which part moves; the others stand still, *)
(* so the run is the union of five independent ones.                       *)
(***************************************************************************)
EXTENDS AgentParts

VARIABLES part,
    (* EventStream *)
    stream, lastSeq, isStatus, queue, connected, sentThrough, batch,
    senderWaits, wake, up, down, conn, connStream, acking, ingested,
    mirror

(* Two parts of one message.                                               *)
OneKey == [p \in {"a1", "a2"} |-> "k"]
Numbered == [p \in {"a1", "a2"} |-> IF p = "a1" THEN 1 ELSE 2]
TwoParts == [p \in {"a1", "a2"} |-> 2]

(* One device configured by its card.                                      *)
OneCard == << <<"iccid", 1>> >>

(* Two events through a page and a window of one.                          *)
Events == INSTANCE EventStream WITH
        Batch <- 1, Keep <- 1, MaxSeq <- 2, MaxStream <- 0, MaxWire <- 1,
        ResendInUse <- FALSE, status <- isStatus, waiting <- senderWaits

atVars == <<call, waiting, pending, capture, port, wire, modem, toReport, got,
            dispatched, order, timeouts>>
dataVars == <<allowed, roamingOk, network, attached, pdp, state, dataEnabled, at,
              forced, policies, worlds, dataFaults>>
findVars == <<plugged, workers, workerStatus, workerPort, claimed, scan, slipped,
              plugs, unread>>
eventVars == <<stream, lastSeq, isStatus, queue, connected, sentThrough, batch,
               senderWaits, wake, up, down, conn, connStream, acking,
               ingested, mirror>>
agentVars == <<part, atVars, inboxVars, dataVars, findVars, eventVars>>

AgentInit ==
    /\ part \in {"at", "sms", "data", "find", "events"}
    /\ AT!Init /\ Init /\ Data!Init /\ Find!Init /\ Events!Init

AgentNext ==
    \/ /\ part = "at" /\ AT!Next
       /\ UNCHANGED <<part, inboxVars, dataVars, findVars, eventVars>>
    \/ /\ part = "sms" /\ Next
       /\ UNCHANGED <<part, atVars, dataVars, findVars, eventVars>>
    \/ /\ part = "data" /\ Data!Next
       /\ UNCHANGED <<part, atVars, inboxVars, findVars, eventVars>>
    \/ /\ part = "find" /\ Find!Next
       /\ UNCHANGED <<part, atVars, inboxVars, dataVars, eventVars>>
    \/ /\ part = "events" /\ Events!Next
       /\ UNCHANGED <<part, atVars, inboxVars, dataVars, findVars>>

(* The fairness of each part, as its module states and justifies it.       *)
ATFair ==
    /\ WF_atVars(part = "at" /\ AT!Client) /\ WF_atVars(part = "at" /\ AT!Waits)
    /\ WF_atVars(part = "at" /\ AT!modem_writes)

SMSFair ==
    /\ WF_inboxVars(part = "sms" /\ Fetching) /\ WF_inboxVars(part = "sms" /\ Draining)
    /\ WF_inboxVars(part = "sms" /\ flush_loop)
    /\ WF_inboxVars(part = "sms" /\ deadline("k"))
    /\ WF_inboxVars(part = "sms" /\ connect)

DataFair ==
    /\ WF_dataVars(part = "data" /\ Data!_sample_status)
    /\ \A p \in Data!Coroutines : WF_dataVars(part = "data" /\ Data!Goes(p))

FindFair ==
    /\ WF_findVars(part = "find" /\ Find!Scans)
    /\ SF_findVars(part = "find" /\ Find!acquire(1))
    /\ \A w \in 1 .. 3 :
         WF_findVars(part = "find" /\ w \in DOMAIN workers
                     /\ (Find!connect(w) \/ Find!_teardown(w)))

EventFair ==
    /\ WF_eventVars(part = "events" /\ Events!connect_once)
    /\ WF_eventVars(part = "events" /\ Events!register)
    /\ WF_eventVars(part = "events" /\ Events!sender_turn)
    /\ WF_eventVars(part = "events" /\ Events!sender_next)
    /\ WF_eventVars(part = "events" /\ Events!apply_event)
    /\ WF_eventVars(part = "events" /\ Events!send_ack)
    /\ WF_eventVars(part = "events" /\ Events!handle_ack)
    /\ WF_eventVars(part = "events" /\ Events!unregister /\ ~connected)
    /\ WF_eventVars(part = "events" /\ Events!link_lost /\ conn = "none")
    /\ <>[][~Events!link_lost /\ ~Events!unregister]_eventVars

AgentSpec ==
    /\ AgentInit /\ [][AgentNext]_agentVars
    /\ ATFair /\ SMSFair /\ DataFair /\ FindFair /\ EventFair

-----------------------------------------------------------------------------
(* Every part keeps the types of its module.                               *)
AgentTypeOK == AT!TypeOK /\ TypeOK /\ Data!TypeOK /\ Find!TypeOK

(* client.py execute, modem.py _index_loop and _flush_loop, worker.py      *)
(* _enforce_data_policy, discovery.py acquire, link.py _sender and         *)
(* _handle_ack: every call ends, a delivered message is reported, data     *)
(* that is not permitted ends up off, a configured module is found, and    *)
(* every event reaches the hub and is acknowledged.                        *)
AgentLiveness ==
    /\ AT!CallsEnd /\ Reports /\ Find!FoundInTheEnd
    /\ part = "data" => Data!Enforced
    /\ Events!Delivered /\ Events!Acknowledged
=============================================================================
