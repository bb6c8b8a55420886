------------------------------- MODULE Inbox -------------------------------
(***************************************************************************)
(* Incoming SMS of one module: the module's own store, the coroutine that  *)
(* follows up +CMTI and the sweep drain_inbox (modem.py), reassembly of    *)
(* long messages (pdu/concat.py) and the report to the agent's event log   *)
(* (worker._on_sms).  The two coroutines share the AT client, which runs   *)
(* one command at a time: a command is one step, and between two commands  *)
(* of one coroutine the other may issue its own.  _on_sms is synchronous,  *)
(* so a message is stored in the same step that emits it.                  *)
(***************************************************************************)
EXTENDS Integers, FiniteSets, Sequences

CONSTANTS
    Parts,       \* SMS PDUs the network delivers
    KeyOf,       \* [Parts -> keys]: sender and concatenation reference
    PartNo,       \* [Parts -> Nat]: number of the part
    TotalOf,     \* [Parts -> Nat]: parts of the message; 1 for a plain SMS
    Undecodable, \* parts decode_pdu rejects
    Slots,       \* slots of the module's store
    MaxInboxFaults  \* bound: lost ports and AT commands that fail

Empty == "empty"

ASSUME InboxAssumption ==
    /\ Empty \notin Parts /\ TotalOf \in [Parts -> Nat]
    /\ Slots \subseteq Nat \ {0} /\ MaxInboxFaults \in Nat

VARIABLES
    coming,    \* parts the network still holds
    slots,     \* the module's store: the part in each slot, or Empty
    online,    \* the worker has opened and initialised the module
    indexes,   \* _new_message_indexes: slots announced by +CMTI
    partials,  \* Reassembler._pending: per key the total, the parts, overdue or not
    fetch,     \* the coroutine _index_loop
    drain,     \* the coroutine that runs drain_inbox
    reports,   \* history: how often each part was reported, up to 2
    reread,    \* history: parts read while they were held, reported or given up
    lost,      \* history: parts a failure took from the agent's hands
    stranded,  \* history: parts whose +CMTI was used up by a failed read
    downs,     \* history: times the port was lost
    errors     \* history: AT commands that failed

inboxVars == <<coming, slots, online, indexes, partials, fetch, drain, reports, reread,
               lost, stranded, downs, errors>>

MayFail == downs + errors < MaxInboxFaults
Keys == {KeyOf[p] : p \in Parts}
NoPartial == [total |-> 0, parts |-> {}, overdue |-> FALSE]
NoFetch == [step |-> "idle", index |-> 0, part |-> Empty, whole |-> {}]
NoDrain == [step |-> "idle", todo |-> {}, collected |-> {}]

\* What each coroutine has read and neither reported nor left in the store.
Held(p) ==
    \/ p = fetch.part \/ p \in fetch.whole
    \/ p \in drain.collected
    \/ \E k \in Keys : p \in partials[k].parts

TypeOK ==
    /\ coming \subseteq Parts
    /\ slots \in [Slots -> Parts \cup {Empty}]
    /\ online \in BOOLEAN
    /\ indexes \in Seq(Slots)
    /\ \A k \in Keys :
         /\ partials[k].total \in Nat /\ partials[k].overdue \in BOOLEAN
         /\ partials[k].parts \subseteq {p \in Parts : KeyOf[p] = k /\ TotalOf[p] = partials[k].total}
         /\ Cardinality(partials[k].parts) < partials[k].total \/ partials[k] = NoPartial
    /\ fetch.step \in {"idle", "read", "diag", "delete", "discard"}
    /\ drain.step \in {"idle", "list", "next", "delete", "discard"}
    /\ reports \in [Parts -> 0 .. 2]
    /\ reread \subseteq Parts /\ lost \subseteq Parts /\ stranded \subseteq Parts
    /\ downs \in 0 .. MaxInboxFaults /\ errors \in 0 .. MaxInboxFaults

\* A worker connects to a module that may hold mail from before.
Init ==
    /\ coming = Parts
    /\ slots = [i \in Slots |-> Empty]
    /\ online = FALSE
    /\ indexes = <<>>
    /\ partials = [k \in Keys |-> NoPartial]
    /\ fetch = NoFetch /\ drain = NoDrain
    /\ reports = [p \in Parts |-> 0]
    /\ reread = {} /\ lost = {} /\ stranded = {}
    /\ downs = 0 /\ errors = 0

----------------------------------------------------------------------------
(* The module *)

\* A message lands in a free slot; with a port open the module announces it.
deliver(p, i) ==
    /\ p \in coming /\ slots[i] = Empty
    /\ coming' = coming \ {p}
    /\ slots' = [slots EXCEPT ![i] = p]
    /\ indexes' = IF online THEN Append(indexes, i) ELSE indexes
    /\ UNCHANGED <<online, partials, fetch, drain, reports, reread, lost, stranded, downs, errors>>

----------------------------------------------------------------------------
(* Reassembly *)

Reported(S) == [p \in Parts |-> IF p \in S THEN IF reports[p] = 0 THEN 1 ELSE 2 ELSE reports[p]]

\* The partial a part joins: a new one when the totals differ.
Joined(p) ==
    IF partials[KeyOf[p]].total = TotalOf[p] THEN partials[KeyOf[p]]
    ELSE [NoPartial EXCEPT !.total = TotalOf[p]]

\* parts[concat.seq] = sms: a part that is read again replaces itself.
PartsWith(p) == {q \in Joined(p).parts : PartNo[q] # PartNo[p]} \cup {p}

\* Mutant: a message is never seen to be complete.
push_incomplete(p) == IF TotalOf[p] <= 1 THEN {p} ELSE {}

\* Reassembler.push: the whole message, or {} when parts are missing.
push(p) ==
    IF TotalOf[p] <= 1 THEN {p}
    ELSE IF Cardinality(PartsWith(p)) = TotalOf[p] THEN PartsWith(p) ELSE {}

PartialsAfter(p) ==
    IF TotalOf[p] <= 1 THEN partials
    ELSE [partials EXCEPT ![KeyOf[p]] =
            IF push(p) # {} THEN NoPartial ELSE [Joined(p) EXCEPT !.parts = PartsWith(p)]]

\* Parts that were waiting under the same key with another total are dropped.
Dropped(p) == IF TotalOf[p] <= 1 THEN {} ELSE partials[KeyOf[p]].parts \ PartsWith(p)

\* flush_expired: overdue partials leave the table and are merged as they are.
Overdue == {k \in Keys : partials[k].overdue}
Expired == [k \in Keys |-> IF k \in Overdue THEN NoPartial ELSE partials[k]]
Flushed == UNION {partials[k].parts : k \in Overdue}

deadline(k) ==
    /\ partials[k].parts # {} /\ ~partials[k].overdue
    /\ partials' = [partials EXCEPT ![k].overdue = TRUE]
    /\ UNCHANGED <<coming, slots, online, indexes, fetch, drain, reports, reread, lost, stranded, downs, errors>>

\* _flush_loop: what has waited too long is reported with its gaps closed.
flush_loop ==
    /\ online /\ Overdue # {}
    /\ partials' = Expired
    /\ reports' = Reported(Flushed)
    /\ UNCHANGED <<coming, slots, online, indexes, fetch, drain, reread, lost, stranded, downs, errors>>

----------------------------------------------------------------------------
(* _index_loop and _fetch_index *)

index_loop ==
    /\ online /\ fetch.step = "idle" /\ indexes # <<>>
    /\ fetch' = [NoFetch EXCEPT !.step = "read", !.index = Head(indexes)]
    /\ indexes' = Tail(indexes)
    /\ UNCHANGED <<coming, slots, online, partials, drain, reports, reread, lost, stranded, downs, errors>>

Listed == {e.part : e \in drain.todo}
Seen(S) == reread \cup {p \in S : Held(p) \/ p \in Listed \/ reports[p] > 0 \/ p \in lost}

\* AT+CMGR: the slot may have been emptied in the meantime.
read_stored ==
    /\ fetch.step = "read"
    /\ LET p == slots[fetch.index]
       IN  IF p = Empty THEN fetch' = NoFetch /\ UNCHANGED reread
           ELSE /\ fetch' = [fetch EXCEPT !.step = "diag", !.part = p]
                /\ reread' = Seen({p})
    /\ UNCHANGED <<coming, slots, online, indexes, partials, drain, reports, lost, stranded, downs, errors>>

read_failed ==
    /\ fetch.step = "read" /\ MayFail
    /\ errors' = errors + 1
    /\ stranded' = stranded \cup {p \in Parts : p = slots[fetch.index]}
    /\ fetch' = NoFetch
    /\ UNCHANGED <<coming, slots, online, indexes, partials, drain, reports, reread, lost, downs>>

\* After the diagnostic AT+CMGL the PDU is decoded and pushed.
fetch_push ==
    /\ fetch.step = "diag"
    /\ IF fetch.part \in Undecodable
       THEN /\ fetch' = [fetch EXCEPT !.step = "discard", !.part = Empty]
            /\ lost' = lost \cup {fetch.part}
            /\ UNCHANGED partials
       ELSE /\ fetch' = [fetch EXCEPT !.step = "delete", !.part = Empty, !.whole = push(fetch.part)]
            /\ partials' = PartialsAfter(fetch.part)
            /\ lost' = lost \cup Dropped(fetch.part)
    /\ UNCHANGED <<coming, slots, online, indexes, drain, reports, reread, stranded, downs, errors>>

\* AT+CMGD empties the slot, whatever it holds by now.
Deleted(i) == [slots EXCEPT ![i] = Empty]
Overwritten(i) == {p \in Parts : p = slots[i] /\ reports[p] = 0 /\ ~Held(p)}

\* The slot is emptied, then the message is emitted.
fetch_delete ==
    /\ fetch.step \in {"delete", "discard"}
    /\ slots' = Deleted(fetch.index)
    /\ lost' = lost \cup Overwritten(fetch.index)
    /\ reports' = Reported(fetch.whole)
    /\ fetch' = NoFetch
    /\ UNCHANGED <<coming, online, indexes, partials, drain, reread, stranded, downs, errors>>

\* The exception skips the report; what is still in a slot can be read again.
Stored(p) == \E i \in Slots : slots[i] = p

fetch_delete_failed ==
    /\ fetch.step \in {"delete", "discard"} /\ MayFail
    /\ errors' = errors + 1
    /\ lost' = lost \cup {p \in fetch.whole : ~Stored(p)}
    /\ stranded' = stranded \cup {p \in fetch.whole : Stored(p)}
    /\ fetch' = NoFetch
    /\ UNCHANGED <<coming, slots, online, indexes, partials, drain, reports, reread, downs>>

----------------------------------------------------------------------------
(* drain_inbox: after connecting, and whenever the store is 80% full *)

connect ==
    /\ ~online
    /\ online' = TRUE
    /\ drain' = [NoDrain EXCEPT !.step = "list"]
    /\ UNCHANGED <<coming, slots, indexes, partials, fetch, reports, reread, lost, stranded, downs, errors>>

Used == {i \in Slots : slots[i] # Empty}

sample_status ==
    /\ online /\ drain.step = "idle"
    /\ Cardinality(Used) * 10 >= Cardinality(Slots) * 8
    /\ drain' = [NoDrain EXCEPT !.step = "list"]
    /\ UNCHANGED <<coming, slots, online, indexes, partials, fetch, reports, reread, lost, stranded, downs, errors>>

\* AT+CMGL reads every slot at once; the sweep works from this copy.
list_stored ==
    /\ drain.step = "list"
    /\ drain' = [drain EXCEPT !.step = "next",
                              !.todo = {[index |-> i, part |-> slots[i]] : i \in Used}]
    /\ reread' = Seen({slots[i] : i \in Used})
    /\ UNCHANGED <<coming, slots, online, indexes, partials, fetch, reports, lost, stranded, downs, errors>>

\* The module lists its slots in their order.
Turn == CHOOSE e \in drain.todo : \A f \in drain.todo : e.index <= f.index

drain_push ==
    /\ drain.step = "next" /\ drain.todo # {}
    /\ LET p == Turn.part
       IN  IF p \in Undecodable
           THEN /\ drain' = [drain EXCEPT !.step = "discard"]
                /\ lost' = lost \cup {p}
                /\ UNCHANGED partials
           ELSE /\ drain' = [drain EXCEPT !.step = "delete", !.collected = @ \cup push(p)]
                /\ partials' = PartialsAfter(p)
                /\ lost' = lost \cup Dropped(p)
    /\ UNCHANGED <<coming, slots, online, indexes, fetch, reports, reread, stranded, downs, errors>>

drain_delete ==
    /\ drain.step \in {"delete", "discard"}
    /\ slots' = Deleted(Turn.index)
    /\ lost' = lost \cup Overwritten(Turn.index)
    /\ drain' = [drain EXCEPT !.step = "next", !.todo = @ \ {Turn}]
    /\ UNCHANGED <<coming, online, indexes, partials, fetch, reports, reread, stranded, downs, errors>>

\* Mutant: the overdue partials leave the table and are forgotten.
drain_emit_collected ==
    /\ drain.step = "next" /\ drain.todo = {}
    /\ reports' = Reported(drain.collected)
    /\ partials' = Expired
    /\ drain' = NoDrain
    /\ UNCHANGED <<coming, slots, online, indexes, fetch, reread, lost, stranded, downs, errors>>

\* The sweep ends: overdue partials join what was collected, and all is emitted.
drain_emit ==
    /\ drain.step = "next" /\ drain.todo = {}
    /\ reports' = Reported(drain.collected \cup Flushed)
    /\ partials' = Expired
    /\ drain' = NoDrain
    /\ UNCHANGED <<coming, slots, online, indexes, fetch, reread, lost, stranded, downs, errors>>

----------------------------------------------------------------------------
(* The port *)

InHand == {p \in Parts : Held(p)}

\* The port is lost, a command of the sweep fails or the agent stops: the
\* coroutines are cancelled and the next connection has a new Reassembler.
port_lost ==
    /\ online /\ MayFail
    /\ downs' = downs + 1
    /\ online' = FALSE
    /\ lost' = lost \cup {p \in InHand : reports[p] = 0 /\ ~Stored(p)}
    /\ fetch' = NoFetch /\ drain' = NoDrain
    /\ indexes' = <<>>
    /\ partials' = [k \in Keys |-> NoPartial]
    /\ UNCHANGED <<coming, slots, reports, reread, stranded, errors>>

----------------------------------------------------------------------------

Fetching == index_loop \/ read_stored \/ fetch_push \/ fetch_delete
Draining == list_stored \/ drain_push \/ drain_delete \/ drain_emit

Next ==
    \/ \E p \in Parts, i \in Slots : deliver(p, i)
    \/ \E k \in Keys : deadline(k)
    \/ flush_loop \/ Fetching \/ Draining
    \/ read_failed \/ fetch_delete_failed
    \/ connect \/ sample_status \/ port_lost

Spec == Init /\ [][Next]_inboxVars

\* Coroutines go on, timers fire, and the supervisor connects again.
Fairness ==
    /\ WF_inboxVars(Fetching) /\ WF_inboxVars(Draining) /\ WF_inboxVars(flush_loop)
    /\ \A k \in Keys : WF_inboxVars(deadline(k))
    /\ WF_inboxVars(connect)

----------------------------------------------------------------------------
(* Properties *)

\* Nothing gets out of sight: a part the network has delivered is in the
\* module's store, in the agent's hands or reported, unless a failure or a
\* PDU that cannot be read took it.
Accounted ==
    \A p \in Parts \ coming : Stored(p) \/ Held(p) \/ reports[p] > 0 \/ p \in lost

\* A part is reported twice only when it was read twice.
ReportedOnce == \A p \in Parts : reports[p] > 1 => p \in reread

\* While no command failed and the port held, the only messages that are lost
\* are ones the codec rejects, ones whose slot was reused while both coroutines
\* were at work on it, and ones whose key came back with another total or with
\* the same number.
LostOnlyByRace ==
    downs = 0 /\ errors = 0 =>
        \A p \in lost : \/ p \in Undecodable
                        \/ reread # {}
                        \/ \E q \in Parts \ {p} :
                              /\ KeyOf[q] = KeyOf[p]
                              /\ TotalOf[q] # TotalOf[p] \/ PartNo[q] = PartNo[p]

\* modem.py, concat.py: no part of a message gets out of sight; one is reported
\* twice only when it was read twice; without failures only the races named
\* lose a message.
InboxSafe == Accounted /\ ReportedOnce /\ LostOnlyByRace

\* Every message delivered is reported in the end, whole or in pieces, unless
\* it was lost or left in the store by a failed command.
Reports ==
    \A p \in Parts : p \notin coming ~> (reports[p] > 0 \/ p \in lost \/ p \in stranded)
=============================================================================
