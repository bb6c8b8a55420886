---------------------------- MODULE EventStream ----------------------------
(***************************************************************************)
(* The path of one event from the agent's SQLite queue to the hub's        *)
(* database: store.py (append, trim, cumulative ack), link.py (sender and  *)
(* receiver of one WebSocket), gateway.py (registration, ingest, ack) and  *)
(* db.py (apply_event: dedupe mark and business writes in one transaction).*)
(*                                                                         *)
(* An event is its sequence number; all the queue tells apart is whether   *)
(* its kind is "status" (the only kind trim_events may drop).  A frame on  *)
(* the wire is the seq it carries.  A WebSocket is one FIFO in each        *)
(* direction that dies with the connection.                                *)
(***************************************************************************)
EXTENDS Integers, FiniteSets, Sequences

CONSTANTS
    Batch,      \* BATCH: rows one unacked_events() query returns
    Keep,       \* max_queued_events: trim_events' target
    MaxSeq,     \* bound: events appended to one store
    MaxStream,  \* bound: times the store file is replaced
    MaxWire,    \* bound: frames one direction of a socket buffers
    ResendInUse \* TRUE if somebody sends resend_from frames

ASSUME EventStreamAssumption ==
    /\ Batch \in Nat \ {0}
    /\ Keep \in Nat
    /\ MaxSeq \in Nat
    /\ MaxStream \in Nat
    /\ MaxWire \in Nat

ASSUME ResendAssumption == ResendInUse \in BOOLEAN

VARIABLES
    stream,      \* agent db: label of this sequence-number space
    lastSeq,     \* agent db: highest seq handed out (AUTOINCREMENT)
    status,      \* agent db: the seqs whose kind is "status"
    queue,       \* agent db: rows with acked = 0
    connected,   \* link: _connected
    sentThrough, \* link: _sent_through
    batch,       \* link: events of the sender's loop not yet behind it; the
                 \*       least one has been written and is being awaited
    waiting,     \* link: the sender sits in _wake.wait()
    wake,        \* link: the _wake event is set
    up,          \* wire: event frames the gateway has not read
    down,        \* wire: ack and resend_from frames the agent has not read
    conn,        \* gateway: this agent's connection: none, hello or ready
    connStream,  \* gateway: connection.stream_id
    acking,      \* gateway: seq committed and not yet acknowledged; 0 if none
    ingested,    \* hub db: rows <<stream, seq>> of table ingested
    mirror       \* hub db: events whose business writes committed, in order

storeVars  == <<stream, lastSeq, status, queue>>
senderVars == <<connected, sentThrough, batch, waiting>>
hubVars    == <<conn, connStream, acking, ingested, mirror>>
vars == <<storeVars, senderVars, wake, up, down, hubVars>>

Ack    == [type : {"ack"}, seq : 1..MaxSeq]
Resend == [type : {"resend_from"}, seq : 1..MaxSeq]

\* The least n elements of a finite set of numbers (ORDER BY seq LIMIT n).
Oldest(S, n) == {s \in S : Cardinality({t \in S : t < s}) < n}

\* The event the sender is writing: the list it walks is in seq order.
Least(S) == CHOOSE s \in S : \A t \in S : s <= t

\* Seqs of the given stream whose dedupe row has been committed.
IngestedOf(st) == {s \in 1..MaxSeq : <<st, s>> \in ingested}

Init ==
    /\ stream = 0 /\ lastSeq = 0 /\ status = {} /\ queue = {}
    /\ connected = FALSE /\ sentThrough = 0 /\ batch = {} /\ waiting = FALSE
    /\ wake = FALSE
    /\ up = <<>> /\ down = <<>>
    /\ conn = "none" /\ connStream = 0 /\ acking = 0
    /\ ingested = {} /\ mirror = <<>>

-----------------------------------------------------------------------------
(* The agent's store (store.py) and the producers that write to it (app.py) *)

\* Mutant: every kind may be trimmed.
trim_events_any(rows, samples) == Oldest(rows, Cardinality(rows) - Keep)

\* The rows trim_events deletes from a queue holding `rows`.
trim_events(rows, samples) ==
    Oldest(rows \cap samples, Cardinality(rows) - Keep)

\* HubAgent.emit: append one event, trim, wake the sender.
emit(kind) ==
    /\ lastSeq < MaxSeq
    /\ lastSeq' = lastSeq + 1
    /\ status' = IF kind = "status" THEN status \cup {lastSeq + 1} ELSE status
    /\ queue' = LET rows == queue \cup {lastSeq + 1}
                IN  rows \ trim_events(rows, status')
    /\ wake' = TRUE
    /\ UNCHANGED <<stream, senderVars, up, down, hubVars>>

\* A receipt (cmd_result, tasks_applied) is appended inside the transaction
\* that made it true; it is not a status event and the queue is not trimmed.
append_receipt ==
    /\ lastSeq < MaxSeq
    /\ lastSeq' = lastSeq + 1
    /\ queue' = queue \cup {lastSeq + 1}
    /\ wake' = TRUE
    /\ UNCHANGED <<stream, status, senderVars, up, down, hubVars>>

\* The data directory is lost or replaced while the agent is down: the next
\* start finds no sequence history and labels a new space.
rebuild_store ==
    /\ ~connected
    /\ stream < MaxStream
    /\ stream' = stream + 1
    /\ lastSeq' = 0 /\ status' = {} /\ queue' = {}
    /\ wake' = FALSE
    /\ UNCHANGED <<senderVars, up, down, hubVars>>

-----------------------------------------------------------------------------
(* The link (link.py) *)

\* Mutant: the marker of the previous session survives a reconnect.
connect_once_keeps_marker ==
    /\ ~connected
    /\ conn = "none"
    /\ connected' = TRUE
    /\ batch' = {} /\ waiting' = FALSE
    /\ up' = <<>> /\ down' = <<>>
    /\ conn' = "hello" /\ connStream' = stream /\ acking' = 0
    /\ UNCHANGED <<storeVars, sentThrough, wake, ingested, mirror>>

\* A socket that reaches the hub and is accepted; hello is its first frame.
\* While the hub still holds this agent's previous connection a hello is
\* refused with 4003 and the agent backs off: nothing durable changes.
connect_once ==
    /\ ~connected
    /\ conn = "none"
    /\ connected' = TRUE
    /\ sentThrough' = 0
    /\ batch' = {} /\ waiting' = FALSE
    /\ up' = <<>> /\ down' = <<>>
    /\ conn' = "hello" /\ connStream' = stream /\ acking' = 0
    /\ UNCHANGED <<storeVars, wake, ingested, mirror>>

\* Frames written to a socket the hub has already closed go nowhere.
Written(seq) == IF conn = "none" THEN up ELSE Append(up, seq)

\* One turn of the sender up to its first await: clear the wake event, read
\* the oldest Batch unacknowledged rows, keep those after the marker; write
\* the first, or go to sleep.
sender_query ==
    LET events == {s \in Oldest(queue, Batch) : s > sentThrough} IN
    /\ wake' = FALSE
    /\ batch' = events
    /\ waiting' = (events = {})
    /\ up' = IF events = {} THEN up ELSE Written(Least(events))
    /\ UNCHANGED <<storeVars, connected, sentThrough, down, hubVars>>

\* The sender is at the top of its loop, or its wait was ended by wake().
sender_turn ==
    /\ connected /\ batch = {} /\ Len(up) < MaxWire
    /\ waiting => wake
    /\ sender_query

\* The five-second safety timeout ended the wait instead.
sender_timeout ==
    /\ connected /\ waiting /\ ~wake /\ Len(up) < MaxWire
    /\ sender_query

\* Mutant: the marker is advanced past the event just written.
sender_next_skips ==
    /\ connected /\ batch # {} /\ Len(up) < MaxWire
    /\ sentThrough' = Least(batch) + 1
    /\ batch' = batch \ {Least(batch)}
    /\ up' = IF batch' = {} THEN up ELSE Written(Least(batch'))
    /\ UNCHANGED <<storeVars, connected, waiting, wake, down, hubVars>>

\* The awaited write of the least event returns: record it, and write the
\* next one of this batch.
sender_next ==
    /\ connected /\ batch # {} /\ Len(up) < MaxWire
    /\ sentThrough' = Least(batch)
    /\ batch' = batch \ {Least(batch)}
    /\ up' = IF batch' = {} THEN up ELSE Written(Least(batch'))
    /\ UNCHANGED <<storeVars, connected, waiting, wake, down, hubVars>>

\* ack_through and the wake that follows a removal.
handle_ack ==
    /\ connected /\ down # <<>> /\ Head(down).type = "ack"
    /\ queue' = {s \in queue : s > Head(down).seq}
    /\ wake' = (wake \/ queue' # queue)
    /\ down' = Tail(down)
    /\ UNCHANGED <<stream, lastSeq, status, senderVars, up, hubVars>>

\* Mutant: the marker is set to the requested seq, which is then skipped.
handle_resend_off_by_one ==
    /\ connected /\ down # <<>> /\ Head(down).type = "resend_from"
    /\ sentThrough' = Head(down).seq
    /\ wake' = TRUE
    /\ down' = Tail(down)
    /\ UNCHANGED <<storeVars, connected, batch, waiting, up, hubVars>>

\* Rewind the in-session marker and wake the sender.
handle_resend ==
    /\ connected /\ down # <<>> /\ Head(down).type = "resend_from"
    /\ sentThrough' = Head(down).seq - 1
    /\ wake' = TRUE
    /\ down' = Tail(down)
    /\ UNCHANGED <<storeVars, connected, batch, waiting, up, hubVars>>

\* The connection is lost, closed by the hub, or the agent process is killed:
\* the sender is cancelled and frames still on their way down are gone.
\* Frames already on their way up may still be read by the hub.
link_lost ==
    /\ connected
    /\ connected' = FALSE
    /\ batch' = {} /\ waiting' = FALSE
    /\ down' = <<>>
    /\ UNCHANGED <<storeVars, sentThrough, wake, up, hubVars>>

-----------------------------------------------------------------------------
(* The hub (gateway.py, db.py) *)

\* serve reads hello and _register commits: the connection is ready.
register ==
    /\ conn = "hello"
    /\ conn' = "ready"
    /\ UNCHANGED <<storeVars, senderVars, wake, up, down,
                   connStream, acking, ingested, mirror>>

\* Mutants: the dedupe row is not looked at; its key has no stream.
Duplicate_never(e) == FALSE
Duplicate_any_stream(e) == \E f \in ingested : f[2] = e[2]

\* INSERT OR IGNORE INTO ingested changed no row.
Duplicate(e) == e \in ingested

\* _ingest, first half: apply_event commits the dedupe row together with the
\* business writes, or finds the row and writes nothing.
apply_event ==
    /\ conn = "ready" /\ acking = 0 /\ up # <<>>
    /\ LET e == <<connStream, Head(up)>> IN
       /\ ingested' = ingested \cup {e}
       /\ mirror' = IF Duplicate(e) THEN mirror ELSE Append(mirror, e)
    /\ acking' = Head(up)
    /\ up' = Tail(up)
    /\ UNCHANGED <<storeVars, senderVars, wake, down, conn, connStream>>

\* _ingest, second half: acknowledge, duplicate or not.  An ack written to a
\* socket whose other end is gone is lost.
send_ack ==
    /\ conn = "ready" /\ acking # 0 /\ Len(down) < MaxWire
    /\ down' = IF connected
                 THEN Append(down, [type |-> "ack", seq |-> acking]) ELSE down
    /\ acking' = 0
    /\ UNCHANGED <<storeVars, senderVars, wake, up,
                   conn, connStream, ingested, mirror>>

\* The session ends on the hub's side: the event's transaction raised and was
\* rolled back (1011), the peer's close was read, or the process died between
\* any two steps.  Unread frames are dropped; committed rows are not.
unregister ==
    /\ conn # "none"
    /\ conn' = "none" /\ acking' = 0
    /\ up' = <<>>
    /\ UNCHANGED <<storeVars, senderVars, wake, down,
                   connStream, ingested, mirror>>

\* An operator's tool asks for a replay.  The shipped hub never sends this
\* frame; whoever does may only ask for a point up to which it is complete.
request_resend(s) ==
    /\ ResendInUse /\ conn = "ready" /\ connected /\ Len(down) < MaxWire
    /\ \A i \in 1..Len(down) : down[i].type # "resend_from"
    /\ s <= lastSeq
    /\ \E x \in IngestedOf(connStream) \cup {0} : s <= x + 1
    /\ down' = Append(down, [type |-> "resend_from", seq |-> s])
    /\ UNCHANGED <<storeVars, senderVars, wake, up, hubVars>>

-----------------------------------------------------------------------------
Next ==
    \/ \E kind \in {"status", "sms"} : emit(kind)
    \/ append_receipt
    \/ rebuild_store
    \/ connect_once
    \/ sender_turn
    \/ sender_timeout
    \/ sender_next
    \/ handle_ack
    \/ handle_resend
    \/ link_lost
    \/ register
    \/ apply_event
    \/ send_ack
    \/ unregister
    \/ \E s \in 1..MaxSeq : request_resend(s)

Spec == Init /\ [][Next]_vars

\* What the event loops guarantee: every task that can run eventually runs,
\* the agent keeps reconnecting, each side eventually notices that the other
\* is gone.  The five-second timeout is deliberately given no fairness.
Progress ==
    /\ WF_vars(connect_once) /\ WF_vars(register)
    /\ WF_vars(sender_turn) /\ WF_vars(sender_next)
    /\ WF_vars(apply_event) /\ WF_vars(send_ack)
    /\ WF_vars(handle_ack) /\ WF_vars(handle_resend)
    /\ WF_vars(unregister /\ ~connected)
    /\ WF_vars(link_lost /\ conn = "none")

\* What the environment must grant: some connection is not cut any more, and
\* the hub's transactions stop failing.
Calm == <>[][~link_lost /\ ~unregister]_vars

FairSpec == Spec /\ Progress /\ Calm

-----------------------------------------------------------------------------
TypeStore ==
    /\ stream \in 0..MaxStream
    /\ lastSeq \in 0..MaxSeq
    /\ status \subseteq 1..MaxSeq
    /\ queue \subseteq 1..MaxSeq

TypeFlags ==
    /\ connected \in BOOLEAN
    /\ waiting \in BOOLEAN
    /\ wake \in BOOLEAN

TypeSender ==
    /\ sentThrough \in 0..MaxSeq
    /\ batch \subseteq 1..MaxSeq

TypeWire ==
    /\ up \in Seq(1..MaxSeq)
    /\ down \in Seq(Ack \cup Resend)

TypeHub ==
    /\ conn \in {"none", "hello", "ready"}
    /\ connStream \in 0..MaxStream
    /\ acking \in 0..MaxSeq
    /\ ingested \subseteq (0..MaxStream) \X (1..MaxSeq)
    /\ mirror \in Seq((0..MaxStream) \X (1..MaxSeq))

\* Every variable holds what the code's columns, fields and frames can hold.
TypeOK == TypeStore /\ TypeFlags /\ TypeSender /\ TypeWire /\ TypeHub

\* No event other than a status sample leaves the agent's queue before the
\* hub has committed it, whatever is lost, replayed or restarted on the way
\* (store.py ack_through/trim_events, gateway.py _ingest).
NoLoss == (1..lastSeq) \ status \subseteq queue \cup IngestedOf(stream)

\* The business writes of one (stream, seq) happen at most once, and exactly
\* when its dedupe row exists (db.py apply_event).
ExactlyOnce ==
    /\ \A i, j \in 1..Len(mirror) : mirror[i] = mirror[j] => i = j
    /\ ingested = {mirror[i] : i \in 1..Len(mirror)}

\* Events of one store are applied in sequence order, also across reconnects,
\* replays, trimming and rewinds (protocol.md section 1: reordering does not
\* happen).
InOrder ==
    \A i, j \in 1..Len(mirror) :
        i < j /\ mirror[i][1] = mirror[j][1] => mirror[i][2] < mirror[j][2]

\* A cumulative ack never overtakes an event the hub does not have: whatever
\* an ack on the wire will delete has been committed.
AckCovered ==
    \A i \in 1..Len(down) : \A s \in queue :
        down[i].type = "ack" /\ s <= down[i].seq => s \in IngestedOf(stream)

(* The inductive strengthening of the invariants above. *)

\* The dedupe row of event y of stream st exists.
Committed(st, y) == <<st, y>> \in ingested

\* Event y is in a frame the gateway has not read.
OnWire(y) == \E i \in 1..Len(up) : up[i] = y

\* Event y of stream st can still reach the hub.
CanArrive(st, y) ==
    \/ st = stream /\ (y \in queue \/ y \in batch)
    \/ st = connStream /\ OnWire(y)

\* Everything below it is safe to forget once f is handled.
Bound(f) == IF f.type = "ack" THEN f.seq + 1 ELSE f.seq

\* What dies with which side of a connection.
Ends ==
    /\ conn = "none" => up = <<>> /\ acking = 0
    /\ ~connected => batch = {} /\ down = <<>>
    /\ waiting => batch = {}
    /\ connected /\ conn # "none" => connStream = stream
    /\ connStream <= stream

\* No number was used before the store handed it out.
Issued ==
    /\ \A y \in queue : y <= lastSeq
    /\ \A y \in batch : y <= lastSeq
    /\ \A y \in status : y <= lastSeq
    /\ connected => sentThrough <= lastSeq
    /\ \A st \in 0..MaxStream, y \in 1..MaxSeq :
           Committed(st, y) => st < stream \/ (st = stream /\ y <= lastSeq)
    /\ connStream = stream => \A i \in 1..Len(up) : up[i] <= lastSeq
    /\ connStream = stream => acking <= lastSeq
    /\ \A i \in 1..Len(down) : down[i].seq <= lastSeq

\* The hub never has an event while an earlier one can still arrive.
IngestPrefix ==
    \A st \in 0..MaxStream : \A y, z \in 1..MaxSeq :
        CanArrive(st, y) /\ Committed(st, z) /\ y < z => Committed(st, y)

\* Whatever precedes a frame on the wire was committed or travels before it.
UpGap ==
    \A i \in 1..Len(up) : \A y \in 1..MaxSeq :
        CanArrive(connStream, y) /\ y < up[i] =>
            Committed(connStream, y) \/ \E j \in 1..(i - 1) : up[j] = y

Reached(y) == Committed(stream, y) \/ OnWire(y)

\* Whatever precedes the sender's marker, or an event it is about to write,
\* was committed, is on the wire, or is in the sender's own batch.
SenderGap ==
    connected /\ conn # "none" =>
        /\ \A y \in 1..MaxSeq : CanArrive(stream, y) /\ y <= sentThrough => Reached(y)
        /\ \A b \in batch : \A y \in 1..MaxSeq :
               CanArrive(stream, y) /\ y < b => Reached(y) \/ y \in batch
        /\ batch # {} => Reached(Least(batch))

\* An ack about to be sent covers only committed events ...
AckGap ==
    \A y \in 1..MaxSeq :
        CanArrive(connStream, y) /\ y <= acking => Committed(connStream, y)

\* ... and so does every frame on its way down.
DownGap ==
    \A i \in 1..Len(down) : \A y \in 1..MaxSeq :
        CanArrive(stream, y) /\ y < Bound(down[i]) => Committed(stream, y)

Gaps == Ends /\ Issued /\ IngestPrefix /\ UpGap /\ SenderGap /\ AckGap /\ DownGap

\* The inductive invariant.
IInv == TypeOK /\ NoLoss /\ ExactlyOnce /\ InOrder /\ Gaps

\* The event path implements the mirror EventMirror describes.
Mirror == INSTANCE EventMirror WITH
    owed <- (1..lastSeq) \ (status \cup IngestedOf(stream)),
    Seqs <- 1..MaxSeq,
    Streams <- 0..MaxStream

ImplementsMirror == Mirror!Spec

\* An event that entered the queue and is not a status sample is eventually
\* mirrored, unless the store itself is replaced.  No wake-up is ever missed:
\* the five-second timeout is not needed.
Delivered ==
    \A st \in 0..MaxStream, s \in 1..MaxSeq :
        (stream = st /\ s \in queue \ status)
            ~> (<<st, s>> \in ingested \/ stream # st)

\* The agent's queue eventually empties of events the hub already has: the
\* acks catch up (link.py _handle_ack).
Acknowledged ==
    \A st \in 0..MaxStream, s \in 1..MaxSeq :
        (stream = st /\ s \in queue) ~> (s \notin queue \/ stream # st)
=============================================================================
