------------------------------ MODULE Delivery ------------------------------
(***************************************************************************)
(* Delivery reports of sent messages at the hub (db.py, gateway.py).  The  *)
(* agent reports a send once, with the reference the module gave each      *)
(* segment; references repeat after 256, and a report names no more than   *)
(* the reference, the recipient and, mostly, the time the service centre   *)
(* accepted the segment.  Here the messages go to one recipient from one   *)
(* module and use the same references.  Reports reach the hub in any       *)
(* number and order, even before the send they belong to.                  *)
(***************************************************************************)
EXTENDS Integers

CONSTANTS
    Messages,      \* messages in the order they are sent: 1 .. n
    SegmentCount,  \* segments of each message
    Gap,           \* ticks between a message and the next with the same references
    MaxReports     \* bound: reports

VARIABLES
    taken,     \* segments of each message the network has accepted
    outcome,   \* sms_out as the hub has applied it: "none", "pending" or "failed"
    rows,      \* sms_delivery_segments
    status,    \* messages.status
    best,      \* history: the strongest report of each segment
    stray,     \* history: a report met a case the hub cannot tell apart
    reports

delVars == <<taken, outcome, rows, status, best, stray, reports>>

Unmatched == 0
States == {"pending", "failed", "delivered"}
Segments == 1 .. SegmentCount  \* the segment being its reference
Keys == Messages \X Segments
Submitted(m) == Gap * m

TypeOK ==
    /\ taken \in [Messages -> 0 .. SegmentCount]
    /\ outcome \in [Messages -> {"none", "pending", "failed"}]
    /\ \A r \in rows : r.msg \in Messages \cup {Unmatched} /\ r.ref \in Segments /\ r.status \in States
    /\ \A r, q \in rows : r.msg = q.msg /\ r.ref = q.ref /\ r.old = q.old => r = q
    /\ status \in [Messages -> {"none", "partial"} \cup States]
    /\ best \in [Keys -> States]

Init ==
    /\ taken = [m \in Messages |-> 0] /\ outcome = [m \in Messages |-> "none"]
    /\ rows = {} /\ status = [m \in Messages |-> "none"]
    /\ best = [k \in Keys |-> "pending"] /\ stray = FALSE /\ reports = 0

----------------------------------------------------------------------------
(* States of segments and of messages *)

\* An old temporary report, or a failure after success, changes nothing.
_terminal_delivery_state(current, incoming) ==
    CASE incoming = "pending" /\ current # "pending" -> current
      [] incoming = "failed" /\ current = "delivered" -> current
      [] OTHER -> incoming

Aggregate(own) ==
    CASE \A r \in own : r.status = "delivered" -> "delivered"
      [] (\E r \in own : r.status = "delivered") /\ (\E r \in own : r.status # "delivered") -> "partial"
      [] (\A r \in own : r.status # "delivered") /\ (\E r \in own : r.status = "failed") -> "failed"
      [] OTHER -> "pending"

\* All segments of a message have a row once one has.
_update_message_delivery_status(m, newRows) ==
    status' = [status EXCEPT ![m] = Aggregate({r \in newRows : r.msg = m})]

----------------------------------------------------------------------------
(* The agent and the network *)

\* The next segment is accepted; messages go one at a time.
submit(m) ==
    /\ taken[m] < SegmentCount /\ outcome[m] = "none"
    /\ \A k \in Messages : k < m => outcome[k] # "none"
    /\ taken' = [taken EXCEPT ![m] = @ + 1]
    /\ UNCHANGED <<outcome, rows, status, best, stray, reports>>

\* Reports of a reference that no send has claimed in the last ten minutes.
Early(n) == {r \in rows : r.msg = Unmatched /\ r.ref = n /\ ~r.old}

\* The rows of a message: early reports are taken over, others start pending.
attach_sms_segments(m) ==
    LET taking == UNION {Early(n) : n \in Segments}
        fresh == {[msg |-> m, ref |-> n, status |-> "pending", old |-> FALSE] :
                    n \in {k \in Segments : Early(k) = {}}}
    IN  (rows \ taking) \cup {[r EXCEPT !.msg = m] : r \in taking} \cup fresh

\* A send that went well.
_apply_sms_out(m) ==
    /\ taken[m] = SegmentCount /\ outcome[m] = "none"
    /\ outcome' = [outcome EXCEPT ![m] = "pending"]
    /\ rows' = attach_sms_segments(m)
    /\ _update_message_delivery_status(m, rows')
    /\ UNCHANGED <<taken, best, stray, reports>>

\* A segment was refused: the hub learns no references, and what was accepted
\* of the message stays without a match.
_apply_sms_out_failed(m) ==
    /\ taken[m] < SegmentCount /\ outcome[m] = "none"
    /\ \A k \in Messages : k < m => outcome[k] # "none"
    /\ outcome' = [outcome EXCEPT ![m] = "failed"]
    /\ status' = [status EXCEPT ![m] = "failed"]
    /\ stray' = (stray \/ taken[m] > 0)
    /\ UNCHANGED <<taken, rows, best, reports>>

----------------------------------------------------------------------------
(* record_sms_delivery *)

Distance(r, ts) == IF Submitted(r.msg) > ts THEN Submitted(r.msg) - ts ELSE ts - Submitted(r.msg)

\* Mutant: the newest send with this reference.
Match_newest(matched, ts) == CHOOSE r \in matched : \A q \in matched : q.msg <= r.msg

\* The send nearest to the time of the service centre, or the newest; of two
\* at the same distance the newer.
Match(matched, ts) ==
    IF ts = -1 THEN CHOOSE r \in matched : \A q \in matched : q.msg <= r.msg
    ELSE CHOOSE r \in matched : \A q \in matched :
           \/ Distance(r, ts) < Distance(q, ts)
           \/ Distance(r, ts) = Distance(q, ts) /\ q.msg <= r.msg

\* The row with what the report makes of its state.
Updated(r, state) ==
    (rows \ {r}) \cup {[r EXCEPT !.status = _terminal_delivery_state(r.status, state)]}

\* What the hub does with a report of reference n.
record_sms_delivery(n, state, ts) ==
    LET matched == {r \in rows : r.msg # Unmatched /\ r.ref = n}
        waiting == {r \in rows : r.msg = Unmatched /\ r.ref = n}
    IN  IF matched # {}
        THEN LET r == Match(matched, ts)
             IN  rows' = Updated(r, state) /\ _update_message_delivery_status(r.msg, rows')
        ELSE /\ rows' = IF waiting # {} THEN Updated(CHOOSE r \in waiting : r.old => \A q \in waiting : q.old, state)
                        ELSE rows \cup {[msg |-> Unmatched, ref |-> n, status |-> state, old |-> FALSE]}
             /\ UNCHANGED status

\* Of two reports: delivered before failed before on its way.
Strongest(a, b) ==
    IF "delivered" \in {a, b} THEN "delivered" ELSE IF "failed" \in {a, b} THEN "failed" ELSE "pending"

\* A report for a segment the network has.  The service centre accepts a
\* segment within a tick of the send; a report without its time, one that
\* finds only another message's row, or one of a send that failed, goes astray.
_apply_sms_delivery(m, n, state, ts) ==
    /\ n <= taken[m] /\ reports < MaxReports
    /\ reports' = reports + 1
    /\ record_sms_delivery(n, state, ts)
    /\ LET own == \E r \in rows : r.msg = m /\ r.ref = n
           others == \E r \in rows : r.msg \notin {m, Unmatched} /\ r.ref = n
           newer == \E r \in rows : r.msg > m /\ r.ref = n
       IN  stray' = (stray \/ outcome[m] = "failed" \/ (~own /\ others) \/ (ts = -1 /\ newer))
    /\ best' = [best EXCEPT ![<<m, n>>] = Strongest(@, state)]
    /\ UNCHANGED <<taken, outcome>>

\* Ten minutes pass: a send no longer takes the report over.
grow_old(r) ==
    /\ r.msg = Unmatched /\ ~r.old
    /\ rows' = (rows \ {q \in rows : q.msg = Unmatched /\ q.ref = r.ref}) \cup {[r EXCEPT !.old = TRUE]}
    /\ stray' = TRUE
    /\ UNCHANGED <<taken, outcome, status, best, reports>>

----------------------------------------------------------------------------

Next ==
    \/ \E m \in Messages : submit(m) \/ _apply_sms_out(m) \/ _apply_sms_out_failed(m)
    \/ \E m \in Messages, n \in Segments, state \in States, late \in {0, 1, -1} :
         _apply_sms_delivery(m, n, state, IF late = -1 THEN -1 ELSE Submitted(m) + late)
    \/ \E r \in rows : grow_old(r)

Spec == Init /\ [][Next]_delVars

----------------------------------------------------------------------------
(* Properties *)

\* Every segment the hub knows stands as its strongest report says, however
\* reports come, repeat and overtake each other or the send itself, and though
\* the references are used again (a report that cannot be told apart aside).
ReportsKept ==
    ~stray => \A r \in rows : r.msg # Unmatched => r.status = best[<<r.msg, r.ref>>]

\* A message the hub shows as delivered was reported so for every segment.
DeliveredIsTrue ==
    ~stray => \A m \in Messages :
        status[m] = "delivered" => \A n \in Segments : best[<<m, n>>] = "delivered"

\* db.py record_sms_delivery: what the hub shows of a segment and of a message
\* is what was reported of it.
ReportsTrue == ReportsKept /\ DeliveredIsTrue

\* Once delivered, always delivered, stray reports included.
DeliveredIsFinal ==
    [][\A m \in Messages : status[m] = "delivered" => status'[m] = "delivered"]_delVars
=============================================================================
