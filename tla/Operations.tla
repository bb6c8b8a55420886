----------------------------- MODULE Operations -----------------------------
(***************************************************************************)
(* Durable commands: the hub's command_operations table and its dispatcher *)
(* (gateway.py, db.py), the agent's bounded per-device queues              *)
(* (commands.py), its execution journal (store.py) and the hardware behind *)
(* handle_command (app.py).                                                *)
(*                                                                         *)
(* An operation is one (actor, device, idempotency key); a frame is the    *)
(* operation it carries.  Results travel through the event path of module  *)
(* EventStream: in order, once, while a connection of the same store       *)
(* exists.  A frame the hub reads after the agent has lost the link is not *)
(* told apart from one it read just before.                                *)
(***************************************************************************)
EXTENDS Integers, FiniteSets, Sequences, SequencesExt

CONSTANTS
    Ops,           \* operations administrators submit
    Devices,       \* modules of this agent
    DeviceOf,      \* [Ops -> Devices]
    None,          \* no operation
    HubPending,    \* create_operation: open operations the hub accepts
    HubPerDevice,  \* create_operation: open operations of one device
    MaxPending,    \* MAX_PENDING_COMMANDS
    MaxPerDevice,  \* MAX_DEVICE_COMMANDS
    MaxWorkers,    \* MAX_COMMAND_WORKERS
    MaxSim,        \* bound: SIM changes
    MaxOpen,       \* bound: times a port is opened
    MaxStream,     \* bound: times the agent's store is replaced
    MaxRestore     \* bound: times the hub's database is put back to a backup

ASSUME OperationsAssumption ==
    /\ IsFiniteSet(Ops) /\ None \notin Ops
    /\ DeviceOf \in [Ops -> Devices]
    /\ HubPending \in Nat /\ HubPerDevice \in Nat
    /\ MaxPending \in Nat /\ MaxPerDevice \in Nat /\ MaxWorkers \in Nat
    /\ MaxSim \in Nat /\ MaxOpen \in Nat /\ MaxStream \in Nat /\ MaxRestore \in Nat

VARIABLES
    status,    \* hub db: command_operations.status; "none" before the INSERT
    opConn,    \* hub db: connection_id
    opStream,  \* hub db: stream_id, never changed once written
    expected,  \* hub db and frame: expected_iccid (Blank: unknown), likewise
    created,   \* hub db: the operations in created_at, rowid order
    hubSim,    \* hub db: iccid of each device as last reported, or Blank
    backup,    \* a backup file: hubRows when it was taken, or <<>>
    restores,  \* history: how often it was put back
    due,       \* operations whose deadline has passed
    conn,      \* gateway: id of the ready connection; 0 when there is none
    connStream,\* gateway: its stream_id
    sending,   \* gateway: operation claimed by the dispatcher and not sent
    down,      \* wire: command frames the agent has not read
    connected, \* agent: the link is up
    stream,    \* agent db: stream id
    journal,   \* agent db: command_runs.status; "none" without a row
    results,   \* agent db: events the hub has not applied yet
    queues,    \* agent: frames of each device, the running one at the head
    running,   \* agent: devices whose head frame executes
    reading,   \* agent: worker.state.iccid of each device, or Blank
    opens,     \* bound: ports opened so far
    sim,       \* the SIM in each device
    log,       \* history: every call of the hardware, with the SIM in the
               \*          device and the worker's reading of it
    finished   \* history: operations the hardware carried out in full

hubRows  == <<status, opConn, created, hubSim>>
rowVars  == <<opConn, opStream, expected, created, hubSim, backup, restores>>
hubVars  == <<status, rowVars, due, conn, connStream, sending>>
linkVars == <<connected, stream>>
runVars  == <<queues, running, journal, results>>
hwVars   == <<reading, opens, sim, log, finished>>
vars == <<hubVars, down, linkVars, runVars, hwVars>>

Verdicts == {"succeeded", "failed", "unknown", "cancelled"}
ConnIds == 1..(Cardinality(Ops) + 1)
Blank == -1
Sims == 0..MaxSim
Readings == Sims \cup {Blank}
OpsOf(d) == {o \in Ops : DeviceOf[o] = d}

Init ==
    /\ status = [o \in Ops |-> "none"]
    /\ opConn = [o \in Ops |-> 0]
    /\ opStream = [o \in Ops |-> 0]
    /\ expected = [o \in Ops |-> Blank]
    /\ created = <<>>
    /\ hubSim = [d \in Devices |-> Blank]
    /\ backup = <<>> /\ restores = 0
    /\ due = {}
    /\ conn = 0 /\ connStream = 0 /\ sending = None
    /\ down = <<>>
    /\ connected = FALSE /\ stream = 0
    /\ journal = [o \in Ops |-> "none"]
    /\ results = <<>>
    /\ queues = [d \in Devices |-> <<>>]
    /\ running = {}
    /\ reading = [d \in Devices |-> Blank] /\ opens = 0
    /\ sim = [d \in Devices |-> 0]
    /\ log = <<>>
    /\ finished = {}

-----------------------------------------------------------------------------
(* The hub's table (db.py) *)

\* Rows in one of the given statuses become `to`; the others stay.
Settle(S, from, to) ==
    [o \in Ops |-> IF o \in S /\ status[o] = from THEN to ELSE status[o]]

Open == {o \in Ops : status[o] \in {"queued", "running"}}

\* submit_operation / create_operation.  The connection is read and the
\* INSERT is queued on the one database worker without a switch in between,
\* so a later registration's rebind comes after the INSERT.  A repeated
\* idempotency key finds its row and changes nothing.
submit_operation(o) ==
    /\ status[o] = "none" /\ conn # 0
    /\ Cardinality(Open) < HubPending
    /\ Cardinality(Open \cap OpsOf(DeviceOf[o])) < HubPerDevice
    /\ status' = [status EXCEPT ![o] = "queued"]
    /\ opConn' = [opConn EXCEPT ![o] = conn]
    /\ opStream' = [opStream EXCEPT ![o] = connStream]
    /\ expected' = [expected EXCEPT ![o] = hubSim[DeviceOf[o]]]
    /\ created' = Append(created, o)
    /\ UNCHANGED <<hubSim, backup, restores, due, conn, connStream, sending, down,
                   linkVars, runVars, hwVars>>

\* The administrator withdraws an operation.
cancel_operation(o) ==
    /\ status[o] = "queued"
    /\ status' = [status EXCEPT ![o] = "cancelled"]
    /\ UNCHANGED <<rowVars, due, conn, connStream, sending, down, linkVars, runVars, hwVars>>

\* The deadline of an open operation passes.
deadline(o) ==
    /\ o \in Open \ due
    /\ due' = due \cup {o}
    /\ UNCHANGED <<status, rowVars, conn, connStream, sending, down,
                   linkVars, runVars, hwVars>>

\* What was not sent is cancelled, what may have been sent is unknown.
Expired(st) ==
    CASE st = "queued"  -> "cancelled"
      [] st = "running" -> "unknown"
      [] OTHER          -> st

\* Start of a dispatch pass: rows whose deadline has passed are closed.
expire_operations ==
    /\ sending = None
    /\ due \cap Open # {}
    /\ status' = [o \in Ops |-> IF o \in due THEN Expired(status[o]) ELSE status[o]]
    /\ UNCHANGED <<rowVars, due, conn, connStream, sending, down, linkVars, runVars, hwVars>>

\* Mutant: no ORDER BY.
OldestQueued_any(o) == TRUE

\* NOT EXISTS a running row of the same device.
DeviceFree(o) == \A p \in OpsOf(DeviceOf[o]) : status[p] # "running"

\* ORDER BY created_at, rowid, one row of a device in a pass.
OldestQueued(o) ==
    \A i, j \in 1..Len(created) :
        created[j] = o /\ i < j /\ DeviceOf[created[i]] = DeviceOf[o]
            => status[created[i]] # "queued"

\* One row of a dispatch pass: the oldest queued operation of a device that
\* has none running, if it is bound to the connection that is ready now.
claim_operation(o) ==
    /\ sending = None
    /\ status[o] = "queued" /\ o \notin due
    /\ DeviceFree(o) /\ OldestQueued(o)
    /\ conn # 0 /\ opConn[o] = conn
    /\ status' = [status EXCEPT ![o] = "running"]
    /\ sending' = o
    /\ UNCHANGED <<rowVars, due, conn, connStream, down, linkVars, runVars, hwVars>>

\* The claimed frame is written.  What is written to a socket whose other
\* end is gone is lost.
dispatch_send ==
    /\ sending # None
    /\ conn # 0 /\ opConn[sending] = conn
    /\ down' = IF connected THEN Append(down, sending) ELSE down
    /\ sending' = None
    /\ UNCHANGED <<status, rowVars, due, conn, connStream,
                   linkVars, runVars, hwVars>>

\* The write raised or took more than five seconds; in the second case the
\* frame may be in the socket's buffer all the same.
dispatch_failed ==
    /\ sending # None
    /\ status' = Settle({sending}, "running", "unknown")
    /\ sending' = None
    /\ \/ UNCHANGED down
       \/ /\ conn # 0 /\ opConn[sending] = conn /\ connected
          /\ down' = Append(down, sending)
    /\ UNCHANGED <<rowVars, due, conn, connStream, linkVars, runVars, hwVars>>

\* Mutant: a late result does not settle an unknown operation.
Accepts_running_only(o) ==
    /\ status[o] = "running"
    /\ opStream[o] = connStream
    /\ expected[o] \in {Blank, hubSim[DeviceOf[o]]}

\* Mutant: the WHERE clause does not name the status.
Accepts_closed(o) ==
    /\ opStream[o] = connStream
    /\ expected[o] \in {Blank, hubSim[DeviceOf[o]]}

\* The WHERE clause of apply_operation_result.
Accepts(o) ==
    /\ status[o] \in {"running", "unknown"}
    /\ opStream[o] = connStream
    /\ expected[o] \in {Blank, hubSim[DeviceOf[o]]}

\* One event of the agent is applied: a status event carries the reading it
\* was sampled with, and a blank one leaves the device's SIM as it is; a
\* cmd_result settles a row that is still running or unknown and whose stream
\* and SIM are the ones the operation was made for.
apply_operation_result ==
    /\ conn # 0 /\ connected /\ results # <<>>
    /\ LET r == Head(results) IN
       \/ /\ r.kind = "status"
          /\ hubSim' = IF r.sim = Blank THEN hubSim
                       ELSE [hubSim EXCEPT ![r.device] = r.sim]
          /\ UNCHANGED status
       \/ /\ r.kind = "cmd_result"
          /\ status' = IF Accepts(r.op)
                         THEN [status EXCEPT ![r.op] = r.verdict] ELSE status
          /\ UNCHANGED hubSim
    /\ results' = Tail(results)
    /\ UNCHANGED <<opConn, opStream, expected, created, backup, restores, due, conn,
                   connStream, sending, down, linkVars, queues, running,
                   journal, hwVars>>

-----------------------------------------------------------------------------
(* The agent's journal (store.py) *)

Result(o, verdict) == [kind |-> "cmd_result", op |-> o, verdict |-> verdict]

\* What the journal says of o after an attempt to record `verdict`: a row
\* that is missing is made and closed as cancelled, a closed one stays.
Recorded(o, verdict) ==
    CASE journal[o] = "none"    -> "cancelled"
      [] journal[o] = "running" -> verdict
      [] OTHER                  -> journal[o]

\* Record the verdict of each operation of S together with its event.
finish_command(S, verdict) ==
    LET told == SetToSeq(S) IN
    /\ journal' = [o \in Ops |->
           IF o \in S THEN Recorded(o, verdict) ELSE journal[o]]
    /\ results' = results \o [i \in 1..Len(told) |->
           Result(told[i], Recorded(told[i], verdict))]

\* Frames that will not be executed: new ones are journalled as cancelled,
\* known results are told again, nothing is said of a running one.
reject_command(S) ==
    finish_command({o \in S : journal[o] # "running"}, "cancelled")

\* Frames of a device behind the one that executes.
Waiting(d) == {queues[d][i] : i \in (IF d \in running THEN 2 ELSE 1)..Len(queues[d])}

Pending == UNION {{d} \X (1..Len(queues[d])) : d \in Devices}

-----------------------------------------------------------------------------
(* The agent's command queues (commands.py) and handle_command (app.py) *)

QueueFull(d) ==
    \/ Cardinality(Pending) >= MaxPending
    \/ queues[d] # <<>> /\ Len(queues[d]) >= MaxPerDevice
    \/ /\ queues[d] = <<>>
       /\ Cardinality({e \in Devices : queues[e] # <<>>}) >= MaxWorkers

\* CommandDispatcher.submit: queue the frame, or reject it with a receipt.
submit ==
    /\ connected /\ down # <<>>
    /\ LET o == Head(down) d == DeviceOf[Head(down)] IN
       \/ /\ QueueFull(d)
          /\ reject_command({o})
          /\ UNCHANGED queues
       \/ /\ ~QueueFull(d)
          /\ queues' = [queues EXCEPT ![d] = Append(@, o)]
          /\ UNCHANGED <<journal, results>>
    /\ down' = Tail(down)
    /\ UNCHANGED <<hubVars, linkVars, running, hwVars>>

\* handle_command on a frame that was seen before: nothing is executed, and
\* a result that is known is told again.
handle_repeated(d) ==
    /\ d \notin running /\ queues[d] # <<>>
    /\ LET o == Head(queues[d]) IN
       /\ journal[o] # "none"
       /\ reject_command({o})
    /\ queues' = [queues EXCEPT ![d] = Tail(@)]
    /\ UNCHANGED <<hubVars, down, linkVars, running, hwVars>>

\* handle_command claims the frame and ends before the hardware: the
\* deadline has passed on the agent's clock (which is not the hub's), another
\* SIM is in the device, the device is offline, or the request is invalid.
handle_refused(d, verdict) ==
    /\ d \notin running /\ queues[d] # <<>>
    /\ LET o == Head(queues[d]) IN
       /\ journal[o] = "none"
       /\ journal' = [journal EXCEPT ![o] = verdict]
       /\ results' = Append(results, Result(o, verdict))
    /\ queues' = [queues EXCEPT ![d] = Tail(@)]
    /\ UNCHANGED <<hubVars, down, linkVars, running, hwVars>>

\* identity_changed: both SIMs are known and differ.  The agent's is what the
\* worker read when it opened the port, not the card that is there now.
identity_changed(o, d) ==
    /\ expected[o] # Blank /\ reading[d] # Blank
    /\ expected[o] # reading[d]

\* Mutant: the journal is not consulted.
MayStart_again(o, d) == ~identity_changed(o, d)

\* begin_command returned "new" and the identity has not changed.
MayStart(o, d) == journal[o] = "none" /\ ~identity_changed(o, d)

\* handle_command claims the frame, sees no other SIM than the one it was
\* made for, and calls the modem.
handle_started(d) ==
    /\ d \notin running /\ queues[d] # <<>>
    /\ LET o == Head(queues[d]) IN
       /\ MayStart(o, d)
       /\ journal' = [journal EXCEPT ![o] = "running"]
       /\ log' = Append(log, [op |-> o, sim |-> sim[d], reading |-> reading[d]])
    /\ running' = running \cup {d}
    /\ UNCHANGED <<hubVars, down, linkVars, queues, results, reading, opens, sim,
                   finished>>

\* Returned: succeeded; raised once the modem was called: unknown.
Outcome(verdict) == verdict

\* Mutant: the worker of an empty queue is not given back.
handle_finished_keeps_worker(d, verdict) ==
    /\ d \in running /\ queues[d] # <<>>
    /\ LET o == Head(queues[d]) IN
       /\ finish_command({o}, Outcome(verdict))
       /\ finished' = IF verdict = "succeeded" THEN finished \cup {o} ELSE finished
    /\ queues' = [queues EXCEPT ![d] = Tail(@)]
    /\ UNCHANGED <<hubVars, down, linkVars, running, reading, opens, sim, log>>

\* The modem answered, or raised after the command had reached it.
handle_finished(d, verdict) ==
    /\ d \in running
    /\ LET o == Head(queues[d]) IN
       /\ finish_command({o}, Outcome(verdict))
       /\ finished' = IF verdict = "succeeded" THEN finished \cup {o} ELSE finished
    /\ queues' = [queues EXCEPT ![d] = Tail(@)]
    /\ running' = running \ {d}
    /\ UNCHANGED <<hubVars, down, linkVars, reading, opens, sim, log>>

\* Somebody exchanges the SIM; the worker does not notice.
sim_swap(d) ==
    /\ sim[d] < MaxSim
    /\ sim' = [sim EXCEPT ![d] = @ + 1]
    /\ UNCHANGED <<hubVars, down, linkVars, runVars, reading, opens, log, finished>>

\* _connect: the worker opens the port, for the first time or after it was
\* lost, reads the SIM, which may fail, and reports its status.
_connect(d) ==
    /\ d \notin running /\ opens < MaxOpen
    /\ \E r \in {sim[d], Blank} :
          /\ reading' = [reading EXCEPT ![d] = r]
          /\ results' = Append(results, [kind |-> "status", device |-> d, sim |-> r])
    /\ opens' = opens + 1
    /\ UNCHANGED <<hubVars, down, linkVars, queues, running, journal, sim, log, finished>>

-----------------------------------------------------------------------------
(* The connection, and both processes dying *)

\* The workers of a new process have read nothing.
Unread ==
    /\ reading' = [d \in Devices |-> Blank]
    /\ UNCHANGED <<opens, sim, log, finished>>

\* hello is accepted: queued operations of this store follow the connection.
register ==
    /\ ~connected /\ conn = 0
    /\ connected' = TRUE /\ down' = <<>>
    /\ connStream' = stream
    /\ conn' = CHOOSE c \in ConnIds : \A o \in Ops : opConn[o] # c
    /\ opConn' = [o \in Ops |->
           IF status[o] = "queued" /\ opStream[o] = stream THEN conn' ELSE opConn[o]]
    /\ UNCHANGED <<status, opStream, expected, created, hubSim, backup, restores, due,
                   sending, stream, runVars, hwVars>>

\* The agent loses the link: discard_queued rejects what has not started.
link_lost ==
    /\ connected
    /\ connected' = FALSE /\ down' = <<>>
    /\ reject_command(UNION {Waiting(d) : d \in Devices})
    /\ queues' = [d \in Devices |-> SubSeq(queues[d], 1, IF d \in running THEN 1 ELSE 0)]
    /\ UNCHANGED <<hubVars, stream, running, hwVars>>

\* _unregister / disconnect_operations.
unregister ==
    /\ conn # 0
    /\ status' = Settle({o \in Ops : opConn[o] = conn}, "running", "unknown")
    /\ conn' = 0
    /\ UNCHANGED <<rowVars, due, connStream, sending, down, linkVars, runVars, hwVars>>

\* The hub process dies and starts: recover_operations.
hub_restart ==
    /\ status' = Settle(Ops, "running", "unknown")
    /\ conn' = 0 /\ sending' = None
    /\ UNCHANGED <<rowVars, due, connStream, down, linkVars, runVars, hwVars>>

\* The agent is stopped: queued frames are rejected, a running one is
\* cancelled and its unknown result is told twice (handle_command, _worker).
agent_stop ==
    /\ connected' = FALSE /\ down' = <<>>
    /\ LET cut  == {Head(queues[d]) : d \in running}
           rest == (UNION {Waiting(d) : d \in Devices}) \ cut
           told == SetToSeq(rest) \o SetToSeq(cut) \o SetToSeq(cut)
       IN  /\ journal' = [o \in Ops |->
                  IF o \in rest \cup cut THEN Recorded(o, "unknown") ELSE journal[o]]
           /\ results' = results \o [i \in 1..Len(told) |->
                  Result(told[i], Recorded(told[i], "unknown"))]
    /\ queues' = [d \in Devices |-> <<>>] /\ running' = {}
    /\ Unread
    /\ UNCHANGED <<hubVars, stream>>

\* The agent process dies and starts: _recover_commands.
agent_crash ==
    /\ connected' = FALSE /\ down' = <<>>
    /\ finish_command({o \in Ops : journal[o] = "running"}, "unknown")
    /\ queues' = [d \in Devices |-> <<>>] /\ running' = {}
    /\ Unread
    /\ UNCHANGED <<hubVars, stream>>

\* The agent's database file is lost with the process.
rebuild_store ==
    /\ stream < MaxStream
    /\ stream' = stream + 1
    /\ connected' = FALSE /\ down' = <<>>
    /\ journal' = [o \in Ops |-> "none"] /\ results' = <<>>
    /\ queues' = [d \in Devices |-> <<>>] /\ running' = {}
    /\ Unread
    /\ UNCHANGED hubVars

\* An administrator downloads a backup.
backup_to ==
    /\ restores < MaxRestore /\ backup = <<>> /\ created # <<>>
    /\ backup' = hubRows
    /\ UNCHANGED <<hubRows, opStream, expected, restores, due, conn,
                   connStream, sending, down, linkVars, runVars, hwVars>>

\* The rows of the backup take the place of the current ones; `closed` says
\* what an open status becomes.  An operation that is not in the backup is
\* gone: ids are never reused.
FromBackup(closed) ==
    /\ backup # <<>>
    /\ status' = [o \in Ops |->
           LET old == backup[1][o] IN
           IF old = "none" /\ status[o] # "none" THEN "gone"
           ELSE IF old \in DOMAIN closed THEN closed[old] ELSE old]
    /\ opConn' = backup[2] /\ created' = backup[3] /\ hubSim' = backup[4]
    /\ backup' = <<>> /\ restores' = restores + 1
    /\ conn' = 0 /\ sending' = None
    /\ UNCHANGED <<opStream, expected, due, connStream, down, linkVars,
                   runVars, hwVars>>

\* _switch: the connections are dropped, the database is replaced and
\* reset_restored_runtime closes what it shows as open.
restore == FromBackup([queued |-> "cancelled", running |-> "unknown"])

\* The hub is stopped, its volume is put back to an older copy, and it starts
\* with recover_operations.
rollback_volume == FromBackup([running |-> "unknown"])

-----------------------------------------------------------------------------
Next ==
    \/ \E o \in Ops : submit_operation(o)
    \/ \E o \in Ops : cancel_operation(o)
    \/ \E o \in Ops : deadline(o)
    \/ expire_operations
    \/ \E o \in Ops : claim_operation(o)
    \/ dispatch_send
    \/ dispatch_failed
    \/ apply_operation_result
    \/ submit
    \/ \E d \in Devices : handle_repeated(d)
    \/ \E d \in Devices, v \in {"cancelled", "failed"} : handle_refused(d, v)
    \/ \E d \in Devices : handle_started(d)
    \/ \E d \in Devices, v \in {"succeeded", "unknown"} : handle_finished(d, v)
    \/ \E d \in Devices : sim_swap(d)
    \/ \E d \in Devices : _connect(d)
    \/ register
    \/ link_lost
    \/ unregister
    \/ hub_restart
    \/ agent_stop
    \/ agent_crash
    \/ rebuild_store
    \/ backup_to
    \/ restore
    \/ rollback_volume

Spec == Init /\ [][Next]_vars

\* The event loops of both processes: whatever can run eventually runs, time
\* passes, and each side notices that the other is gone.
Progress ==
    /\ WF_vars(expire_operations) /\ WF_vars(dispatch_send \/ dispatch_failed)
    /\ WF_vars(apply_operation_result) /\ WF_vars(submit) /\ WF_vars(register)
    /\ WF_vars(unregister /\ ~connected) /\ WF_vars(link_lost /\ conn = 0)
    /\ \A o \in Ops : WF_vars(deadline(o)) /\ WF_vars(claim_operation(o))
    /\ \A d \in Devices :
          /\ WF_vars(\/ handle_repeated(d) \/ handle_started(d)
                     \/ \E v \in {"cancelled", "failed"} : handle_refused(d, v))
          /\ WF_vars(\E v \in {"succeeded", "unknown"} : handle_finished(d, v))

\* Links and processes eventually stop failing.
Calm == <>[][~( \/ link_lost \/ unregister \/ hub_restart
                \/ agent_stop \/ agent_crash )]_vars

FairSpec == Spec /\ Progress /\ Calm

-----------------------------------------------------------------------------
Events ==
    [kind : {"cmd_result"}, op : Ops, verdict : Verdicts]
        \cup [kind : {"status"}, device : Devices, sim : Readings]

\* Every variable holds what the code's columns, queues and frames can hold.
TypeOK ==
    /\ status \in [Ops -> Verdicts \cup {"none", "queued", "running", "gone"}]
    /\ opConn \in [Ops -> ConnIds \cup {0}]
    /\ opStream \in [Ops -> 0..MaxStream]
    /\ expected \in [Ops -> Readings]
    /\ created \in Seq(Ops) /\ hubSim \in [Devices -> Readings]
    /\ due \subseteq Ops /\ sending \in Ops \cup {None}
    /\ conn \in ConnIds \cup {0} /\ connStream \in 0..MaxStream
    /\ down \in Seq(Ops) /\ results \in Seq(Events)
    /\ connected \in BOOLEAN /\ stream \in 0..MaxStream
    /\ journal \in [Ops -> Verdicts \cup {"none", "running"}]
    /\ queues \in [Devices -> Seq(Ops)]
    /\ running \subseteq {d \in Devices : queues[d] # <<>>}
    /\ reading \in [Devices -> Readings] /\ opens \in 0..MaxOpen
    /\ sim \in [Devices -> Sims] /\ finished \subseteq Ops

Ran == {log[i].op : i \in 1..Len(log)}

\* An operation reaches the hardware at most once, whatever is lost, timed
\* out, restarted, replaced or rolled back around it.
AtMostOnce == \A i, j \in 1..Len(log) : log[i].op = log[j].op => i = j

\* Only operations that never reached the hardware are shown as cancelled or
\* failed (docs/optimization-backend.md:199).
CancelledNeverRan == \A o \in Ran : status[o] \notin {"cancelled", "failed"}

\* An operation is shown as succeeded only if the hardware carried it out.
SucceededRan == \A o \in Ops : status[o] = "succeeded" => o \in finished

\* The hardware is called with another SIM than the operation was made for
\* only where the agent cannot know: the hub did not know the SIM, the worker
\* has no reading, or the card was exchanged since the port was opened.
RightSim ==
    \A i \in 1..Len(log) :
        \/ log[i].sim = expected[log[i].op]
        \/ expected[log[i].op] = Blank
        \/ log[i].reading # log[i].sim

\* app.py handle_command: the hardware is called for an operation at most once,
\* and never with a SIM that is known to be another one.
RanAsMeant == AtMostOnce /\ RightSim

\* Operations of one device reach the hardware in the order of submission.
SubmissionOrder ==
    \A i, j \in 1..Len(log) : \A m, n \in 1..Len(created) :
        /\ i < j /\ DeviceOf[log[i].op] = DeviceOf[log[j].op]
        /\ created[m] = log[i].op /\ created[n] = log[j].op
        => m <= n

\* The hub has at most one operation of a device out.
OneRunning ==
    \A o, p \in Ops : status[o] = "running" /\ status[p] = "running"
                        /\ DeviceOf[o] = DeviceOf[p] => o = p

\* What the hub shows is true: one operation of a device is out, succeeded
\* operations did run and, unless the database was put back to a backup,
\* cancelled and failed ones did not and a device ran its operations in the
\* order of submission.
CommandsTrue ==
    /\ OneRunning /\ SucceededRan
    /\ restores = 0 => CancelledNeverRan /\ SubmissionOrder

\* A confirmed outcome is never overwritten by a late event, an expiry, a
\* disconnect or a restart: only a backup put in its place undoes it.
ConfirmedIsFinal ==
    [][restores' = restores =>
         \A o \in Ops : status[o] \in {"succeeded", "failed", "cancelled"}
                           => status'[o] = status[o]]_vars

\* No operation stays open: it is sent and answered, or its deadline closes
\* it, also when the store it was made for no longer exists.
Closes == \A o \in Ops : status[o] = "queued" ~> status[o] \notin {"queued", "running"}

\* What the agent's journal says becomes what the hub shows, also for an
\* operation that was already given up as unknown, unless the journal is lost,
\* another SIM was put in, or the hub went back to an older database.
Converges ==
    \A o \in Ops, v \in Verdicts :
        journal[o] = v ~> \/ status[o] = v
                          \/ journal[o] # v
                          \/ expected[o] \notin {Blank, sim[DeviceOf[o]]}
                          \/ restores > 0

\* db.py expire_operations, apply_operation_result: every operation is closed,
\* and a result the agent recorded gets through.
CommandsEnd == Closes /\ Converges
=============================================================================
