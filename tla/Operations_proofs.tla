-------------------------- MODULE Operations_proofs --------------------------
(***************************************************************************)
(* Theorems about durable commands, for every number of operations,        *)
(* modules, stores, restores and every size of the queues: an operation    *)
(* reaches the hardware at most once, and with its SIM; what the hub shows *)
(* of it is true; a confirmed outcome is final.                            *)
(*                                                                         *)
(* Three invariants carry them, each resting on the one before.  IInv:     *)
(* frames the agent may execute were made for its store, and what ran      *)
(* under this store is in its journal.  Truth: events repeat the journal,  *)
(* and the journal is right.  Plain, up to the first backup put back: the  *)
(* operations of a module stand in one line in the order of the table.     *)
(***************************************************************************)
EXTENDS Operations, FiniteSetTheorems, SequenceTheorems, TLAPS

Statuses == Verdicts \cup {"none", "queued", "running", "gone"}

(* The calls of the hardware, as the history has them.                     *)
Calls == [op : Ops, sim : Sims, reading : Readings]
Call(o, d) == [op |-> o, sim |-> sim[d], reading |-> reading[d]]

Types ==
    /\ status \in [Ops -> Statuses] /\ sending \in Ops \cup {None}
    /\ opConn \in [Ops -> Nat] /\ opStream \in [Ops -> Nat] /\ expected \in [Ops -> Readings]
    /\ conn \in Nat /\ connStream \in Nat /\ stream \in Nat /\ connected \in BOOLEAN
    /\ down \in Seq(Ops) /\ results \in Seq(Events)
    /\ journal \in [Ops -> Verdicts \cup {"none", "running"}]
    /\ queues \in [Devices -> Seq(Ops)]
    /\ \A d \in running : d \in Devices /\ queues[d] # <<>>
    /\ hubSim \in [Devices -> Readings] /\ reading \in [Devices -> Readings]
    /\ sim \in [Devices -> Sims]
    /\ log \in Seq(Calls)

BackupType ==
    backup # <<>> => /\ backup[1] \in [Ops -> Statuses] /\ backup[2] \in [Ops -> Nat]
                     /\ backup[4] \in [Devices -> Readings]

(* A live connection belongs to the agent's store, and an operation bound  *)
(* to it was made for that store.                                          *)
Bound ==
    /\ conn # 0 /\ connected => connStream = stream
    /\ connStream <= stream
    /\ \A o \in Ops : opStream[o] <= stream
    /\ conn # 0 => \A o \in Ops : opConn[o] = conn => opStream[o] = connStream
    /\ sending # None => status[sending] # "none"

(* Frames the agent may still execute were made for its store.             *)
Bears(o) == status[o] # "none" /\ opStream[o] = stream

FramesBear ==
    /\ \A i \in 1..Len(down) : Bears(down[i])
    /\ \A d \in Devices : \A i \in 1..Len(queues[d]) : Bears(queues[d][i])

(* What ran under this store is in its journal.                            *)
Journalled ==
    \A i \in 1..Len(log) :
        /\ status[log[i].op] # "none"
        /\ opStream[log[i].op] = stream => journal[log[i].op] # "none"

IInv ==
    Types /\ BackupType /\ Bound /\ FramesBear /\ Journalled /\ AtMostOnce /\ RightSim

-----------------------------------------------------------------------------
(* The elements of a sequence.                                             *)
LEMMA SeqFacts ==
    ASSUME NEW S, NEW q \in Seq(S)
    PROVE  Len(q) \in Nat /\ \A i \in 1..Len(q) : q[i] \in S
OBVIOUS

(* A sequence without its head.                                            *)
LEMMA TakeFacts ==
    ASSUME NEW S, NEW q \in Seq(S), q # <<>>
    PROVE  /\ Head(q) \in S /\ Tail(q) \in Seq(S)
           /\ Len(q) \in Nat /\ Len(q) >= 1 /\ Head(q) = q[1]
           /\ Len(Tail(q)) = Len(q) - 1
           /\ \A i \in 1..Len(Tail(q)) : Tail(q)[i] = q[i + 1]
OBVIOUS

(* A sequence with one more element.                                       *)
LEMMA PutFacts ==
    ASSUME NEW S, NEW q \in Seq(S), NEW e \in S
    PROVE  /\ Append(q, e) \in Seq(S) /\ Len(q) \in Nat
           /\ Len(Append(q, e)) = Len(q) + 1
           /\ \A i \in 1..Len(q) : Append(q, e)[i] = q[i]
           /\ Append(q, e)[Len(q) + 1] = e
OBVIOUS

(* A finite set can be told one by one.                                    *)
LEMMA TellType ==
    ASSUME NEW S, IsFiniteSet(S)
    PROVE  SetToSeq(S) \in Seq(S)
<1>1. Cardinality(S) \in Nat /\ ExistsBijection(1..Cardinality(S), S)
  BY FS_CardinalityType
<1>2. \E f \in [1..Cardinality(S) -> S] : IsInjective(f)
  BY <1>1 DEF ExistsBijection, Bijection, Injection
<1>3. SetToSeq(S) \in [1..Cardinality(S) -> S]
  BY <1>2 DEF SetToSeq
<1> QED
  BY <1>1, <1>3

(* What is recorded of an operation is a verdict.                          *)
LEMMA RecordedType ==
    ASSUME Types, NEW o \in Ops, NEW v \in Verdicts
    PROVE  Recorded(o, v) \in Verdicts
BY DEF Types, Recorded, Verdicts

(* The events of one record of the journal are well formed.                *)
LEMMA ToldType ==
    ASSUME Types, NEW told \in Seq(Ops), NEW v \in Verdicts,
           results' = results \o [i \in 1..Len(told) |-> Result(told[i], Recorded(told[i], v))]
    PROVE  results' \in Seq(Events)
<1> DEFINE more == [i \in 1..Len(told) |-> Result(told[i], Recorded(told[i], v))]
<1>1. Len(told) \in Nat /\ \A i \in 1..Len(told) : told[i] \in Ops
  BY SeqFacts
<1>2. \A i \in 1..Len(told) : Result(told[i], Recorded(told[i], v)) \in Events
  BY <1>1, RecordedType DEF Result, Events
<1>3. more \in Seq(Events)
  BY <1>1, <1>2
<1> QED
  BY <1>3, ConcatProperties DEF Types

(* Recording a verdict never takes an operation out of the journal.        *)
LEMMA FinishType ==
    ASSUME Types, NEW S \in SUBSET Ops, NEW v \in Verdicts, finish_command(S, v)
    PROVE  /\ journal' \in [Ops -> Verdicts \cup {"none", "running"}]
           /\ \A o \in Ops : journal[o] # "none" => journal'[o] # "none"
           /\ results' \in Seq(Events)
<1>1. \A o \in Ops : Recorded(o, v) \in Verdicts
  BY RecordedType
<1>2. journal' = [o \in Ops |-> IF o \in S THEN Recorded(o, v) ELSE journal[o]]
  BY DEF finish_command
<1>3. "none" \notin Verdicts
  BY DEF Verdicts
<1>4. IsFiniteSet(S)
  BY OperationsAssumption, FS_Subset
<1>5. SetToSeq(S) \in Seq(Ops)
  <2>1. SetToSeq(S) \in Seq(S)
    BY <1>4, TellType
  <2> QED
    BY <2>1
<1>6. results' \in Seq(Events)
  BY <1>5, ToldType DEF finish_command
<1> QED
  BY <1>1, <1>2, <1>3, <1>6 DEF Types

-----------------------------------------------------------------------------
(* The first state satisfies the inductive invariant.                      *)
LEMMA InitIInv == Init => IInv
<1> SUFFICES ASSUME Init PROVE IInv
  OBVIOUS
<1>1. Len(log) = 0 /\ Len(down) = 0 /\ \A d \in Devices : Len(queues[d]) = 0
  BY DEF Init
<1>2. Types
  <2>1. 0 \in Nat /\ 0 \in Sims /\ Blank \in Readings /\ "none" \in Statuses
    BY OperationsAssumption DEF Statuses, Sims, Readings
  <2>2. /\ status \in [Ops -> Statuses] /\ sending \in Ops \cup {None}
        /\ opConn \in [Ops -> Nat] /\ opStream \in [Ops -> Nat] /\ expected \in [Ops -> Readings]
        /\ hubSim \in [Devices -> Readings] /\ reading \in [Devices -> Readings]
        /\ sim \in [Devices -> Sims]
    BY <2>1 DEF Init
  <2>3. /\ conn \in Nat /\ connStream \in Nat /\ stream \in Nat /\ connected \in BOOLEAN
        /\ down \in Seq(Ops) /\ results \in Seq(Events) /\ log \in Seq(Calls)
    <3>1. conn = 0 /\ connStream = 0 /\ stream = 0 /\ connected = FALSE
      BY DEF Init
    <3>2. down = <<>> /\ results = <<>> /\ log = <<>>
      BY DEF Init
    <3>3. down \in Seq(Ops) /\ results \in Seq(Events)
      BY <3>2
    <3>4. log \in Seq(Calls)
      BY <3>2
    <3> QED
      BY <3>1, <3>3, <3>4
  <2>4. /\ journal \in [Ops -> Verdicts \cup {"none", "running"}]
        /\ queues \in [Devices -> Seq(Ops)] /\ running = {}
    BY DEF Init
  <2> QED
    BY <2>2, <2>3, <2>4 DEF Types
<1>3. BackupType /\ Bound
  BY OperationsAssumption DEF Init, BackupType, Bound
<1>4. FramesBear /\ Journalled /\ AtMostOnce /\ RightSim
  BY <1>1 DEF FramesBear, Journalled, AtMostOnce, RightSim
<1> QED
  BY <1>2, <1>3, <1>4 DEF IInv

(* The hardware is called for operations only.                             *)
LEMMA LogOps ==
    ASSUME IInv
    PROVE  Len(log) \in Nat /\ \A i \in 1..Len(log) : log[i].op \in Ops
<1>1. log \in Seq(Calls)
  BY DEF IInv, Types
<1>2. Len(log) \in Nat /\ \A i \in 1..Len(log) : log[i] \in Calls
  BY <1>1, SeqFacts
<1> QED
  BY <1>2 DEF Calls

(* Steps of the hub's table: an operation that exists goes on existing.    *)
LEMMA TableStep ==
    ASSUME IInv, status' \in [Ops -> Statuses],
           \A o \in Ops : status'[o] = "none" => status[o] = "none",
           sending' \in Ops \cup {None}, sending' # None => status'[sending'] # "none",
           conn' \in {conn, 0}, opConn' = opConn, hubSim' \in [Devices -> Readings],
           results' \in Seq(Events),
           UNCHANGED <<opStream, expected, backup, connStream, down, linkVars, queues,
                       running, journal, hwVars>>
    PROVE  IInv'
<1>1. Types'
  BY DEF IInv, Types, linkVars, hwVars
<1>2. BackupType' /\ Bound'
  BY DEF IInv, BackupType, Bound, linkVars, Types
<1>3. log' = log
  BY DEF hwVars
<1>4. \A i \in 1..Len(log) : log[i].op \in Ops
  BY LogOps
<1>5. /\ \A i \in 1..Len(down) : down[i] \in Ops
      /\ \A d \in Devices : \A i \in 1..Len(queues[d]) : queues[d][i] \in Ops
  BY SeqFacts DEF IInv, Types
<1>6. FramesBear'
  BY <1>5 DEF IInv, FramesBear, Bears, linkVars
<1>7. Journalled' /\ AtMostOnce' /\ RightSim'
  BY <1>3, <1>4 DEF IInv, Journalled, AtMostOnce, RightSim, linkVars
<1> QED
  BY <1>1, <1>2, <1>6, <1>7 DEF IInv

(* Steps of the agent that call no hardware: the frames left are frames    *)
(* that were there, and the journal forgets nothing.                       *)
LEMMA AgentStep ==
    ASSUME IInv, UNCHANGED <<hubVars, stream, log>>, connected' \in {connected, FALSE},
           sim' \in [Devices -> Sims] /\ reading' \in [Devices -> Readings], down' \in Seq(Ops), results' \in Seq(Events),
           queues' \in [Devices -> Seq(Ops)],
           \A d \in running' : d \in Devices /\ queues'[d] # <<>>,
           \A i \in 1..Len(down') : Bears(down'[i]),
           \A d \in Devices : \A i \in 1..Len(queues'[d]) : Bears(queues'[d][i]),
           journal' \in [Ops -> Verdicts \cup {"none", "running"}],
           \A o \in Ops : journal[o] # "none" => journal'[o] # "none"
    PROVE  IInv'
<1>1. Types'
  BY DEF IInv, Types, hubVars, rowVars
<1>2. BackupType' /\ Bound'
  <2>1. UNCHANGED <<status, opConn, opStream, backup, conn, connStream, sending, stream>>
    BY DEF hubVars, rowVars
  <2>2. connected' => connected
    OBVIOUS
  <2> QED
    BY <2>1, <2>2 DEF IInv, BackupType, Bound
<1>3. \A i \in 1..Len(log) : log[i].op \in Ops
  BY LogOps
<1>4. FramesBear'
  BY DEF FramesBear, Bears, hubVars, rowVars
<1>5. Journalled' /\ AtMostOnce' /\ RightSim'
  BY <1>3 DEF IInv, Journalled, AtMostOnce, RightSim, hubVars, rowVars
<1> QED
  BY <1>1, <1>2, <1>4, <1>5 DEF IInv

-----------------------------------------------------------------------------
(* The hub *)

(* create_operation binds the new row to the live connection and its       *)
(* store.                                                                  *)
LEMMA SubmitOperationStep == ASSUME IInv, NEW o \in Ops, submit_operation(o) PROVE IInv'
<1>1. /\ status[o] = "none" /\ conn # 0
      /\ status' = [status EXCEPT ![o] = "queued"]
      /\ opConn' = [opConn EXCEPT ![o] = conn]
      /\ opStream' = [opStream EXCEPT ![o] = connStream]
      /\ expected' = [expected EXCEPT ![o] = hubSim[DeviceOf[o]]]
      /\ UNCHANGED <<hubSim, backup, conn, connStream, sending, down, connected, stream,
                     queues, running, journal, results, reading, sim, log>>
  BY DEF submit_operation, linkVars, runVars, hwVars
<1>2. hubSim[DeviceOf[o]] \in Readings
  BY OperationsAssumption DEF IInv, Types
<1>3. Types'
  BY <1>1, <1>2 DEF IInv, Types, Statuses
<1>4. BackupType' /\ Bound'
  BY <1>1 DEF IInv, Types, BackupType, Bound
<1>5. /\ \A i \in 1..Len(down) : down[i] \in Ops
      /\ \A d \in Devices : \A i \in 1..Len(queues[d]) : queues[d][i] \in Ops
  BY SeqFacts DEF IInv, Types
<1>6. FramesBear'
  <2>1. \A x \in Ops : Bears(x) => status'[x] # "none" /\ opStream'[x] = stream'
    BY <1>1 DEF IInv, Types, Bears
  <2> QED
    BY <1>1, <1>5, <2>1 DEF IInv, FramesBear, Bears
<1>7. \A i \in 1..Len(log) : log[i].op \in Ops /\ log[i].op # o
  BY <1>1, LogOps DEF IInv, Journalled
<1>8. Journalled' /\ AtMostOnce' /\ RightSim'
  BY <1>1, <1>7 DEF IInv, Types, Journalled, AtMostOnce, RightSim
<1> QED
  BY <1>3, <1>4, <1>6, <1>8 DEF IInv

(* Closing rows makes none of them disappear.                              *)
LEMMA SettleFacts ==
    ASSUME Types, NEW S, NEW to \in Statuses \ {"none"}
    PROVE  /\ Settle(S, "running", to) \in [Ops -> Statuses]
           /\ \A o \in Ops : Settle(S, "running", to)[o] = "none" => status[o] = "none"
BY DEF Types, Settle

(* cancel_operation closes a row.                                          *)
LEMMA CancelStep == ASSUME IInv, NEW o \in Ops, cancel_operation(o) PROVE IInv'
<1>1. /\ status' = [status EXCEPT ![o] = "cancelled"]
      /\ UNCHANGED <<rowVars, conn, connStream, sending, down, linkVars, runVars, hwVars>>
  BY DEF cancel_operation
<1>2. status' \in [Ops -> Statuses] /\ \A x \in Ops : status'[x] = "none" => status[x] = "none"
  BY <1>1 DEF IInv, Types, Statuses, Verdicts
<1> QED
  BY <1>1, <1>2, TableStep DEF IInv, Types, Bound, rowVars, runVars

(* A deadline passes.                                                      *)
LEMMA DeadlineStep == ASSUME IInv, NEW o \in Ops, deadline(o) PROVE IInv'
BY TableStep DEF IInv, Types, Bound, deadline, rowVars, runVars

(* expire_operations closes rows.                                          *)
LEMMA ExpireStep == ASSUME IInv, expire_operations PROVE IInv'
<1>1. /\ status' = [o \in Ops |-> IF o \in due THEN Expired(status[o]) ELSE status[o]]
      /\ UNCHANGED <<rowVars, conn, connStream, sending, down, linkVars, runVars, hwVars>>
      /\ sending = None
  BY DEF expire_operations
<1>2. \A st \in Statuses : Expired(st) \in Statuses /\ (Expired(st) = "none" => st = "none")
  BY DEF Statuses, Verdicts, Expired
<1>3. status' \in [Ops -> Statuses] /\ \A x \in Ops : status'[x] = "none" => status[x] = "none"
  BY <1>1, <1>2 DEF IInv, Types
<1> QED
  BY <1>1, <1>3, TableStep DEF IInv, Types, rowVars, runVars

(* claim_operation marks an existing row.                                  *)
LEMMA ClaimStep == ASSUME IInv, NEW o \in Ops, claim_operation(o) PROVE IInv'
<1>1. /\ status' = [status EXCEPT ![o] = "running"] /\ sending' = o
      /\ UNCHANGED <<rowVars, conn, connStream, down, linkVars, runVars, hwVars>>
  BY DEF claim_operation
<1>2. /\ status' \in [Ops -> Statuses] /\ status'[o] # "none"
      /\ \A x \in Ops : status'[x] = "none" => status[x] = "none"
  BY <1>1 DEF IInv, Types, Statuses, Verdicts
<1> QED
  BY <1>1, <1>2, TableStep DEF IInv, Types, rowVars, runVars

(* A frame written to a live connection is for the store behind it.        *)
LEMMA DispatchStep == ASSUME IInv, dispatch_send \/ dispatch_failed PROVE IInv'
<1>1. /\ sending # None /\ sending' = None
      /\ UNCHANGED <<rowVars, conn, connStream, linkVars, runVars, hwVars>>
  BY DEF dispatch_send, dispatch_failed
<1>2. sending \in Ops /\ status[sending] # "none"
  BY <1>1 DEF IInv, Types, Bound
<1>3. /\ status' \in [Ops -> Statuses]
      /\ \A x \in Ops : status'[x] = "none" => status[x] = "none"
  <2>1. CASE dispatch_send
    BY <2>1 DEF dispatch_send, IInv, Types
  <2>2. CASE dispatch_failed
    <3>1. "unknown" \in Statuses \ {"none"}
      BY DEF Statuses, Verdicts
    <3> QED
      BY <2>2, <3>1, SettleFacts DEF dispatch_failed, IInv
  <2> QED
    BY <2>1, <2>2
<1>4. \/ down' = down
      \/ conn # 0 /\ opConn[sending] = conn /\ connected /\ down' = Append(down, sending)
  BY DEF dispatch_send, dispatch_failed
<1>5. CASE down' = down
  BY <1>1, <1>3, <1>5, TableStep DEF IInv, Types, rowVars, runVars
<1>6. CASE conn # 0 /\ opConn[sending] = conn /\ connected /\ down' = Append(down, sending)
  <2>1. Bears(sending)
    BY <1>2, <1>6 DEF IInv, Bound, Bears
  <2>2. down \in Seq(Ops)
    BY DEF IInv, Types
  <2>3. /\ down' \in Seq(Ops) /\ Len(down) \in Nat /\ Len(down') = Len(down) + 1
        /\ down'[Len(down) + 1] = sending /\ \A i \in 1..Len(down) : down'[i] = down[i]
    BY <1>2, <1>6, <2>2, PutFacts
  <2>4. \A i \in 1..Len(down') : i \in 1..Len(down) \/ i = Len(down) + 1
    BY <2>3
  <2>5. \A i \in 1..Len(down') : down'[i] \in Ops /\ Bears(down'[i])
    <3>1. \A i \in 1..Len(down) : down[i] \in Ops
      BY <2>2, SeqFacts
    <3> QED
      BY <1>2, <2>1, <2>3, <2>4, <3>1 DEF IInv, FramesBear
  <2>6. /\ UNCHANGED <<opConn, opStream, expected, hubSim, backup, conn, connStream, connected,
                       stream, queues, running, journal, results, reading, sim, log>>
    BY <1>1 DEF rowVars, linkVars, runVars, hwVars
  <2>7. Types'
    BY <1>1, <1>3, <2>3, <2>6 DEF IInv, Types
  <2>8. BackupType' /\ Bound'
    BY <1>1, <2>6 DEF IInv, BackupType, Bound
  <2>9. FramesBear'
    <3>1. \A d \in Devices : \A i \in 1..Len(queues[d]) : queues[d][i] \in Ops
      BY SeqFacts DEF IInv, Types
    <3> QED
      BY <1>3, <2>5, <2>6, <3>1 DEF IInv, FramesBear, Bears
  <2>10. Journalled' /\ AtMostOnce' /\ RightSim'
    BY <1>3, <2>6, LogOps DEF IInv, Journalled, AtMostOnce, RightSim
  <2> QED
    BY <2>7, <2>8, <2>9, <2>10 DEF IInv
<1> QED
  BY <1>4, <1>5, <1>6

(* apply_operation_result closes the row of one event.                     *)
LEMMA ApplyStep == ASSUME IInv, apply_operation_result PROVE IInv'
<1> DEFINE r == Head(results)
<1>1. /\ results # <<>> /\ results' = Tail(results)
      /\ UNCHANGED <<opConn, opStream, expected, backup, conn, connStream, sending, down,
                     linkVars, queues, running, journal, hwVars>>
  BY DEF apply_operation_result
<1>2. r \in Events /\ results' \in Seq(Events)
  BY <1>1, TakeFacts DEF IInv, Types
<1> HIDE DEF r
<1>3. \/ /\ r.kind = "status" /\ status' = status
         /\ \/ hubSim' = hubSim
            \/ hubSim' = [hubSim EXCEPT ![r.device] = r.sim]
      \/ /\ r.kind = "cmd_result" /\ hubSim' = hubSim
         /\ \/ status' = status
            \/ status' = [status EXCEPT ![r.op] = r.verdict]
  BY DEF apply_operation_result, r
<1>4. /\ r.kind = "status" => r.sim \in Readings
      /\ r.kind = "cmd_result" => r.op \in Ops /\ r.verdict \in Verdicts
  BY <1>2, OperationsAssumption DEF Events
<1>5. /\ status' \in [Ops -> Statuses] /\ hubSim' \in [Devices -> Readings]
      /\ \A x \in Ops : status'[x] = "none" => status[x] = "none"
  BY <1>3, <1>4 DEF IInv, Types, Statuses, Verdicts
<1>6. sending' \in Ops \cup {None} /\ (sending' # None => status'[sending'] # "none")
  BY <1>1, <1>5 DEF IInv, Types, Bound
<1> QED
  BY <1>1, <1>2, <1>5, <1>6, TableStep

-----------------------------------------------------------------------------
(* The agent *)

(* What waits in the queues and on the wire, element by element.           *)
LEMMA FrameFacts ==
    ASSUME IInv
    PROVE  /\ down \in Seq(Ops) /\ Len(down) \in Nat
           /\ \A i \in 1..Len(down) : down[i] \in Ops /\ Bears(down[i])
           /\ \A d \in Devices :
                 /\ queues[d] \in Seq(Ops) /\ Len(queues[d]) \in Nat
                 /\ \A i \in 1..Len(queues[d]) : queues[d][i] \in Ops /\ Bears(queues[d][i])
<1>1. down \in Seq(Ops) /\ \A d \in Devices : queues[d] \in Seq(Ops)
  BY DEF IInv, Types
<1>2. Len(down) \in Nat /\ \A i \in 1..Len(down) : down[i] \in Ops
  BY <1>1, SeqFacts
<1>3. \A d \in Devices :
        Len(queues[d]) \in Nat /\ \A i \in 1..Len(queues[d]) : queues[d][i] \in Ops
  BY <1>1, SeqFacts
<1> QED
  BY <1>1, <1>2, <1>3 DEF IInv, FramesBear

(* The frame at the head of a queue, and the queue without it.             *)
LEMMA HeadFacts ==
    ASSUME IInv, NEW d \in Devices, queues[d] # <<>>
    PROVE  /\ Head(queues[d]) \in Ops /\ Bears(Head(queues[d]))
           /\ Tail(queues[d]) \in Seq(Ops)
           /\ \A i \in 1..Len(Tail(queues[d])) : Bears(Tail(queues[d])[i])
<1>1. /\ queues[d] \in Seq(Ops)
      /\ \A i \in 1..Len(queues[d]) : Bears(queues[d][i])
  BY FrameFacts
<1>2. /\ Head(queues[d]) \in Ops /\ Tail(queues[d]) \in Seq(Ops)
      /\ Len(queues[d]) \in Nat /\ Len(queues[d]) >= 1 /\ Head(queues[d]) = queues[d][1]
      /\ Len(Tail(queues[d])) = Len(queues[d]) - 1
      /\ \A i \in 1..Len(Tail(queues[d])) : Tail(queues[d])[i] = queues[d][i + 1]
  BY <1>1, TakeFacts
<1>3. /\ 1 \in 1..Len(queues[d])
      /\ \A i \in 1..Len(Tail(queues[d])) : i + 1 \in 1..Len(queues[d])
  BY <1>2
<1> QED
  BY <1>1, <1>2, <1>3

(* The verdicts the agent records.                                         *)
LEMMA VerdictFacts == {"cancelled", "failed", "succeeded", "unknown"} \subseteq Verdicts
BY DEF Verdicts

(* The agent queues or refuses the next frame of the wire.                 *)
LEMMA SubmitStep == ASSUME IInv, submit PROVE IInv'
<1> DEFINE o == Head(down)
           d == DeviceOf[o]
<1>1. /\ down # <<>> /\ down' = Tail(down)
      /\ UNCHANGED <<hubVars, stream, log, connected, reading, sim, running>>
  BY DEF submit, linkVars, hwVars
<1>2. down \in Seq(Ops)
  BY FrameFacts
<1>3. /\ o \in Ops /\ o = down[1] /\ Tail(down) \in Seq(Ops) /\ Len(down) \in Nat /\ Len(down) >= 1
      /\ Len(Tail(down)) = Len(down) - 1
      /\ \A i \in 1..Len(Tail(down)) : Tail(down)[i] = down[i + 1]
  BY <1>1, <1>2, TakeFacts
<1>4. 1 \in 1..Len(down) /\ \A i \in 1..Len(Tail(down)) : i + 1 \in 1..Len(down)
  BY <1>3
<1>5. Bears(o) /\ \A i \in 1..Len(down') : Bears(down'[i])
  BY <1>1, <1>3, <1>4, FrameFacts
<1>6. d \in Devices
  BY <1>3, OperationsAssumption
<1>7. \/ reject_command({o}) /\ queues' = queues
      \/ queues' = [queues EXCEPT ![d] = Append(@, o)] /\ UNCHANGED <<journal, results>>
  BY DEF submit
<1> HIDE DEF o, d
<1>8. CASE reject_command({o}) /\ queues' = queues
  <2>1. finish_command({x \in {o} : journal[x] # "running"}, "cancelled")
    BY <1>8 DEF reject_command
  <2>2. {x \in {o} : journal[x] # "running"} \in SUBSET Ops /\ "cancelled" \in Verdicts
    BY <1>3, VerdictFacts
  <2>3. /\ journal' \in [Ops -> Verdicts \cup {"none", "running"}]
        /\ \A x \in Ops : journal[x] # "none" => journal'[x] # "none"
        /\ results' \in Seq(Events)
    BY <2>1, <2>2, FinishType DEF IInv
  <2> QED
    BY <1>1, <1>3, <1>5, <1>8, <2>3, FrameFacts, AgentStep DEF IInv, Types
<1>9. CASE queues' = [queues EXCEPT ![d] = Append(@, o)] /\ UNCHANGED <<journal, results>>
  <2>1. /\ queues[d] \in Seq(Ops)
        /\ \A i \in 1..Len(queues[d]) : Bears(queues[d][i])
    BY <1>6, FrameFacts
  <2>2. /\ Append(queues[d], o) \in Seq(Ops) /\ Len(queues[d]) \in Nat
        /\ Len(Append(queues[d], o)) = Len(queues[d]) + 1
        /\ \A i \in 1..Len(queues[d]) : Append(queues[d], o)[i] = queues[d][i]
        /\ Append(queues[d], o)[Len(queues[d]) + 1] = o
    BY <1>3, <2>1, PutFacts
  <2>3. \A i \in 1..Len(Append(queues[d], o)) : i \in 1..Len(queues[d]) \/ i = Len(queues[d]) + 1
    BY <2>2
  <2>4. \A i \in 1..Len(Append(queues[d], o)) : Bears(Append(queues[d], o)[i])
    BY <1>5, <2>1, <2>2, <2>3
  <2>5. Append(queues[d], o) # <<>>
    BY <2>2
  <2>6. /\ queues' \in [Devices -> Seq(Ops)]
        /\ \A e \in Devices : queues'[e] = IF e = d THEN Append(queues[d], o) ELSE queues[e]
    BY <1>6, <1>9, <2>2 DEF IInv, Types
  <2>7. \A e \in Devices : \A i \in 1..Len(queues'[e]) : Bears(queues'[e][i])
    BY <2>4, <2>6, FrameFacts
  <2>8. \A e \in running' : e \in Devices /\ queues'[e] # <<>>
    BY <1>1, <2>5, <2>6 DEF IInv, Types
  <2>9. /\ journal' \in [Ops -> Verdicts \cup {"none", "running"}] /\ results' \in Seq(Events)
        /\ \A x \in Ops : journal[x] # "none" => journal'[x] # "none"
        /\ sim' \in [Devices -> Sims] /\ reading' \in [Devices -> Readings]
        /\ connected' \in {connected, FALSE}
    BY <1>1, <1>9 DEF IInv, Types
  <2> QED
    BY <1>1, <1>3, <1>5, <2>6, <2>7, <2>8, <2>9, AgentStep
<1> QED
  BY <1>7, <1>8, <1>9

(* The head frame of an idle module, or of one that is done, is taken off. *)
LEMMA TakenStep ==
    ASSUME IInv, NEW d \in Devices, queues[d] # <<>>,
           queues' = [queues EXCEPT ![d] = Tail(@)], running' \subseteq running \ {d},
           UNCHANGED <<hubVars, down, linkVars, reading, sim, log>>, results' \in Seq(Events),
           journal' \in [Ops -> Verdicts \cup {"none", "running"}],
           \A o \in Ops : journal[o] # "none" => journal'[o] # "none"
    PROVE  IInv'
<1>1. /\ Tail(queues[d]) \in Seq(Ops)
      /\ \A i \in 1..Len(Tail(queues[d])) : Bears(Tail(queues[d])[i])
  BY HeadFacts
<1>2. /\ queues' \in [Devices -> Seq(Ops)]
      /\ \A e \in Devices : queues'[e] = IF e = d THEN Tail(queues[d]) ELSE queues[e]
  BY <1>1 DEF IInv, Types
<1>3. \A e \in Devices : \A i \in 1..Len(queues'[e]) : Bears(queues'[e][i])
  BY <1>1, <1>2, FrameFacts
<1>4. \A e \in running' : e \in Devices /\ queues'[e] # <<>>
  BY <1>2 DEF IInv, Types
<1>5. \A i \in 1..Len(down') : Bears(down'[i])
  BY FrameFacts
<1>6. /\ down' \in Seq(Ops) /\ sim' \in [Devices -> Sims] /\ reading' \in [Devices -> Readings]
      /\ connected' \in {connected, FALSE} /\ UNCHANGED <<hubVars, stream, log>>
  BY DEF IInv, Types, linkVars
<1> QED
  BY <1>2, <1>3, <1>4, <1>5, <1>6, AgentStep

(* A frame the journal knows is not executed.                              *)
LEMMA RepeatedStep == ASSUME IInv, NEW d \in Devices, handle_repeated(d) PROVE IInv'
<1> DEFINE S == {x \in {Head(queues[d])} : journal[x] # "running"}
<1>1. /\ queues[d] # <<>> /\ queues' = [queues EXCEPT ![d] = Tail(@)] /\ d \notin running
      /\ running' = running /\ UNCHANGED <<hubVars, down, linkVars, reading, sim, log>>
      /\ finish_command(S, "cancelled")
  BY DEF handle_repeated, hwVars, reject_command
<1>2. S \in SUBSET Ops /\ "cancelled" \in Verdicts
  BY <1>1, HeadFacts, VerdictFacts
<1> HIDE DEF S
<1>3. /\ journal' \in [Ops -> Verdicts \cup {"none", "running"}]
      /\ \A x \in Ops : journal[x] # "none" => journal'[x] # "none"
      /\ results' \in Seq(Events)
  BY <1>1, <1>2, FinishType DEF IInv
<1> QED
  BY <1>1, <1>3, TakenStep

(* A frame that ends before the hardware is journalled.                    *)
LEMMA RefusedStep ==
    ASSUME IInv, NEW d \in Devices, NEW v \in {"cancelled", "failed"}, handle_refused(d, v)
    PROVE  IInv'
<1> DEFINE o == Head(queues[d])
<1>1. /\ queues[d] # <<>> /\ queues' = [queues EXCEPT ![d] = Tail(@)] /\ d \notin running
      /\ running' = running /\ UNCHANGED <<hubVars, down, linkVars, reading, sim, log>>
      /\ journal' = [journal EXCEPT ![o] = v] /\ results' = Append(results, Result(o, v))
  BY DEF handle_refused, hwVars
<1>2. o \in Ops /\ v \in Verdicts
  BY <1>1, HeadFacts, VerdictFacts
<1> HIDE DEF o
<1>3. Result(o, v) \in Events /\ results \in Seq(Events)
  BY <1>2 DEF Result, Events, IInv, Types
<1>4. results' \in Seq(Events)
  BY <1>1, <1>3, PutFacts
<1>5. /\ journal' \in [Ops -> Verdicts \cup {"none", "running"}]
      /\ \A x \in Ops : journal[x] # "none" => journal'[x] # "none"
  BY <1>1, <1>2 DEF IInv, Types, Verdicts
<1> QED
  BY <1>1, <1>4, <1>5, TakenStep

(* The hardware answered: the verdict is recorded.                         *)
LEMMA FinishedStep ==
    ASSUME IInv, NEW d \in Devices, NEW v \in {"succeeded", "unknown"}, handle_finished(d, v)
    PROVE  IInv'
<1>1. /\ queues[d] # <<>>
  BY DEF handle_finished, IInv, Types
<1>2. /\ queues' = [queues EXCEPT ![d] = Tail(@)] /\ running' = running \ {d}
      /\ UNCHANGED <<hubVars, down, linkVars, reading, sim, log>>
      /\ finish_command({Head(queues[d])}, v)
  BY DEF handle_finished, Outcome
<1>3. {Head(queues[d])} \in SUBSET Ops /\ v \in Verdicts
  BY <1>1, HeadFacts, VerdictFacts
<1>4. /\ journal' \in [Ops -> Verdicts \cup {"none", "running"}]
      /\ \A x \in Ops : journal[x] # "none" => journal'[x] # "none"
      /\ results' \in Seq(Events)
  BY <1>2, <1>3, FinishType DEF IInv
<1> QED
  BY <1>1, <1>2, <1>4, TakenStep

(* The hardware is called: the journal shows that it was not before.       *)
LEMMA StartedStep == ASSUME IInv, NEW d \in Devices, handle_started(d) PROVE IInv'
<1> DEFINE o == Head(queues[d])
<1>1. /\ queues[d] # <<>> /\ journal[o] = "none" /\ ~identity_changed(o, d)
      /\ journal' = [journal EXCEPT ![o] = "running"]
      /\ log' = Append(log, Call(o, d)) /\ running' = running \cup {d}
  BY DEF handle_started, MayStart, Call
<1>2. UNCHANGED <<status, sending, opConn, opStream, expected, hubSim, backup, conn, connStream,
                  down, connected, stream, queues, results, reading, sim>>
  BY DEF handle_started, hubVars, rowVars, linkVars
<1>3. o \in Ops /\ Bears(o)
  BY <1>1, HeadFacts
<1> HIDE DEF o
<1>4. Call(o, d) \in Calls /\ Call(o, d).op = o
  BY <1>3 DEF IInv, Types, Call, Calls
<1>5. /\ log' \in Seq(Calls) /\ Len(log) \in Nat /\ Len(log') = Len(log) + 1
      /\ log'[Len(log) + 1] = Call(o, d)
      /\ \A i \in 1..Len(log) : log'[i] = log[i]
  <2>1. log \in Seq(Calls) /\ Call(o, d) \in Calls
    BY <1>4 DEF IInv, Types
  <2> QED
    BY <1>1, <2>1, PutFacts
<1>6. \A i \in 1..Len(log') : i \in 1..Len(log) \/ i = Len(log) + 1
  BY <1>5
<1>7. \A i \in 1..Len(log) : log[i].op \in Ops /\ log[i].op # o
  BY <1>1, <1>3, LogOps DEF IInv, Journalled, Bears
<1>8. Types'
  BY <1>1, <1>2, <1>3, <1>5 DEF IInv, Types
<1>9. BackupType' /\ Bound' /\ FramesBear'
  BY <1>2 DEF IInv, BackupType, Bound, FramesBear, Bears
<1>10. Journalled'
  <2>1. journal'[o] = "running" /\ \A x \in Ops : x # o => journal'[x] = journal[x]
    BY <1>1, <1>3 DEF IInv, Types
  <2> SUFFICES ASSUME NEW i \in 1..Len(log')
               PROVE  /\ status'[log'[i].op] # "none"
                      /\ opStream'[log'[i].op] = stream' => journal'[log'[i].op] # "none"
    BY DEF Journalled
  <2>2. CASE i \in 1..Len(log)
    <3>1. log'[i] = log[i] /\ log[i].op \in Ops /\ log[i].op # o
      BY <1>5, <1>7, <2>2
    <3>2. /\ status[log[i].op] # "none"
          /\ opStream[log[i].op] = stream => journal[log[i].op] # "none"
      BY <2>2 DEF IInv, Journalled
    <3> QED
      BY <1>2, <2>1, <3>1, <3>2
  <2>3. CASE i = Len(log) + 1
    <3>1. log'[i].op = o
      BY <1>4, <1>5, <2>3
    <3> QED
      BY <1>2, <1>3, <2>1, <3>1 DEF Bears
  <2> QED
    BY <1>6, <2>2, <2>3
<1>11. AtMostOnce'
  <2> SUFFICES ASSUME NEW i \in 1..Len(log'), NEW j \in 1..Len(log'),
                      log'[i].op = log'[j].op
               PROVE  i = j
    BY DEF AtMostOnce
  <2>1. log'[Len(log) + 1].op = o
    BY <1>4, <1>5
  <2>2. \A k \in 1..Len(log) : log'[k].op = log[k].op /\ log[k].op # o
    BY <1>5, <1>7
  <2>3. CASE i \in 1..Len(log) /\ j \in 1..Len(log)
    BY <2>2, <2>3 DEF IInv, AtMostOnce
  <2>4. CASE i = Len(log) + 1 \/ j = Len(log) + 1
    BY <1>6, <2>1, <2>2, <2>4
  <2> QED
    BY <1>6, <2>3, <2>4
<1>12. RightSim'
  <2>1. ASSUME NEW i \in 1..Len(log)
        PROVE  \/ log'[i].sim = expected[log'[i].op] \/ expected[log'[i].op] = Blank
               \/ log'[i].reading # log'[i].sim
    BY <1>5 DEF IInv, RightSim
  <2>2. LET c == log'[Len(log) + 1]
        IN  c.sim = expected[c.op] \/ expected[c.op] = Blank \/ c.reading # c.sim
    <3>1. sim[d] # Blank
      BY OperationsAssumption DEF IInv, Types, Sims, Blank
    <3>2. \/ sim[d] = expected[o] \/ expected[o] = Blank \/ reading[d] # sim[d]
      BY <1>1, <3>1 DEF identity_changed
    <3> QED
      BY <1>5, <3>2 DEF Call
  <2> QED
    BY <1>2, <1>6, <2>1, <2>2 DEF RightSim
<1> QED
  BY <1>8, <1>9, <1>10, <1>11, <1>12 DEF IInv

(* A SIM is exchanged, or a port is opened and its SIM is read.           *)
LEMMA ModuleStep ==
    ASSUME IInv, NEW d \in Devices, sim_swap(d) \/ _connect(d)
    PROVE  IInv'
<1>1. /\ UNCHANGED <<hubVars, down, linkVars, queues, running, journal, log>>
      /\ sim' = sim \/ (sim[d] < MaxSim /\ sim' = [sim EXCEPT ![d] = @ + 1])
  BY DEF sim_swap, _connect, runVars
<1>2. sim' \in [Devices -> Sims]
  <2>1. sim[d] \in Sims
    BY DEF IInv, Types
  <2>2. sim[d] < MaxSim => sim[d] + 1 \in Sims
    BY <2>1, OperationsAssumption DEF Sims
  <2> QED
    BY <1>1, <2>2 DEF IInv, Types
<1>3. reading' \in [Devices -> Readings] /\ results' \in Seq(Events)
  <2>1. CASE sim_swap(d)
    BY <2>1 DEF sim_swap, runVars, IInv, Types
  <2>2. CASE _connect(d)
    <3>1. PICK r \in {sim[d], Blank} :
            /\ reading' = [reading EXCEPT ![d] = r]
            /\ results' = Append(results, [kind |-> "status", device |-> d, sim |-> r])
      BY <2>2 DEF _connect
    <3>2. r \in Readings
      BY <3>1 DEF IInv, Types, Readings
    <3>3. /\ results \in Seq(Events)
          /\ [kind |-> "status", device |-> d, sim |-> r] \in Events
      BY <3>2 DEF IInv, Types, Events
    <3>4. results' \in Seq(Events)
      BY <3>1, <3>3, PutFacts
    <3> QED
      BY <3>1, <3>2, <3>4 DEF IInv, Types
  <2> QED
    BY <2>1, <2>2
<1>4. /\ down' \in Seq(Ops) /\ queues' \in [Devices -> Seq(Ops)]
      /\ \A e \in running' : e \in Devices /\ queues'[e] # <<>>
      /\ journal' \in [Ops -> Verdicts \cup {"none", "running"}]
      /\ \A x \in Ops : journal[x] # "none" => journal'[x] # "none"
  BY <1>1 DEF IInv, Types
<1>5. /\ \A i \in 1..Len(down') : Bears(down'[i])
      /\ \A e \in Devices : \A i \in 1..Len(queues'[e]) : Bears(queues'[e][i])
  BY <1>1 DEF IInv, FramesBear
<1>6. connected' \in {connected, FALSE} /\ UNCHANGED <<hubVars, stream, log>>
  BY <1>1 DEF linkVars
<1> QED
  BY <1>2, <1>3, <1>4, <1>5, <1>6, AgentStep

-----------------------------------------------------------------------------
(* Connections, crashes, replaced stores and databases *)

(* There is always a connection id no operation is bound to.               *)
LEMMA FreshId ==
    ASSUME Types
    PROVE  \E c \in ConnIds : \A o \in Ops : opConn[o] # c
<1> SUFFICES ASSUME \A c \in ConnIds : \E o \in Ops : opConn[o] = c PROVE FALSE
  OBVIOUS
<1> DEFINE n == Cardinality(Ops)
           used == {o \in Ops : opConn[o] \in ConnIds}
           f == [o \in used |-> opConn[o]]
<1>1. IsFiniteSet(Ops) /\ n \in Nat
  BY OperationsAssumption, FS_CardinalityType
<1>2. IsFiniteSet(used) /\ Cardinality(used) <= n
  BY <1>1, FS_Subset
<1>3. f \in Surjection(used, ConnIds)
  BY DEF Surjection
<1>4. Cardinality(ConnIds) <= Cardinality(used)
  BY <1>2, <1>3, FS_Surjection
<1>5. Cardinality(1..(n + 1)) = n + 1
  BY <1>1, FS_Interval
<1>6. Cardinality(used) \in Nat
  BY <1>2, FS_CardinalityType
<1> QED
  BY <1>1, <1>2, <1>4, <1>5, <1>6 DEF ConnIds

(* A new connection has an id of its own and rebinds only rows of the      *)
(* store it stands for.                                                    *)
LEMMA RegisterStep == ASSUME IInv, register PROVE IInv'
<1>1. /\ conn = 0 /\ connected' = TRUE /\ down' = <<>> /\ connStream' = stream
      /\ conn' = CHOOSE c \in ConnIds : \A o \in Ops : opConn[o] # c
      /\ opConn' = [o \in Ops |->
             IF status[o] = "queued" /\ opStream[o] = stream THEN conn' ELSE opConn[o]]
      /\ UNCHANGED <<status, opStream, expected, hubSim, backup, sending, stream, queues,
                     running, journal, results, reading, sim, log>>
  BY DEF register, runVars, hwVars
<1>2. conn' \in ConnIds /\ \A o \in Ops : opConn[o] # conn'
  BY <1>1, FreshId DEF IInv
<1>3. conn' \in Nat /\ conn' # 0
  BY <1>2, OperationsAssumption, FS_CardinalityType DEF ConnIds
<1>4. Types'
  <2>1. opConn' \in [Ops -> Nat]
    BY <1>1, <1>3 DEF IInv, Types
  <2>2. down' \in Seq(Ops)
    BY <1>1
  <2>3. connected' \in BOOLEAN
    BY <1>1
  <2>4. connStream' \in Nat
    BY <1>1 DEF IInv, Types
  <2>5. UNCHANGED <<status, opStream, expected, hubSim, sending, stream, queues, running,
                    journal, results, reading, sim, log>>
    BY <1>1
  <2> QED
    BY <1>3, <2>1, <2>2, <2>3, <2>4, <2>5 DEF IInv, Types
<1>5. BackupType' /\ Bound'
  <2>1. BackupType'
    BY <1>1 DEF IInv, BackupType
  <2>2. \A o \in Ops : opConn'[o] = conn' => opStream'[o] = connStream'
    BY <1>1, <1>2
  <2>3. connStream' <= stream' /\ \A o \in Ops : opStream'[o] <= stream'
    BY <1>1 DEF IInv, Types, Bound
  <2> QED
    BY <1>1, <2>1, <2>2, <2>3 DEF IInv, Bound
<1>6. FramesBear'
  <2>1. Len(down') = 0
    BY <1>1
  <2> QED
    BY <1>1, <2>1 DEF IInv, FramesBear, Bears
<1>7. Journalled' /\ AtMostOnce' /\ RightSim'
  BY <1>1 DEF IInv, Journalled, AtMostOnce, RightSim
<1> QED
  BY <1>4, <1>5, <1>6, <1>7 DEF IInv

(* What waits in a queue are operations.                                   *)
LEMMA WaitingFacts == ASSUME IInv, NEW d \in Devices PROVE Waiting(d) \subseteq Ops
<1>1. /\ Len(queues[d]) \in Nat
      /\ \A i \in 1..Len(queues[d]) : queues[d][i] \in Ops
  BY FrameFacts
<1> QED
  BY <1>1 DEF Waiting

(* The empty sequence holds no frame.                                      *)
LEMMA NoFrames ==
    ASSUME NEW q, q = <<>>
    PROVE  q \in Seq(Ops) /\ \A i \in 1..Len(q) : Bears(q[i])
<1>1. q \in Seq(Ops) /\ Len(q) = 0
  OBVIOUS
<1> QED
  BY <1>1

(* The first k elements of a sequence.                                     *)
LEMMA FirstFacts ==
    ASSUME NEW S, NEW q, NEW k \in Nat, \A i \in 1..k : q[i] \in S
    PROVE  /\ SubSeq(q, 1, k) \in Seq(S) /\ Len(SubSeq(q, 1, k)) = k
           /\ \A i \in 1..k : SubSeq(q, 1, k)[i] = q[i]
<1>1. 1 \in Int /\ k \in Int
  OBVIOUS
<1>2. /\ SubSeq(q, 1, k) \in Seq(S)
      /\ Len(SubSeq(q, 1, k)) = IF 1 <= k THEN k - 1 + 1 ELSE 0
      /\ \A i \in 1..(k - 1 + 1) : SubSeq(q, 1, k)[i] = q[1 + i - 1]
  BY <1>1, SubSeqProperties
<1> QED
  BY <1>2

(* The agent goes on without the link: what is kept was there.             *)
LEMMA LinkLostStep == ASSUME IInv, link_lost PROVE IInv'
<1> DEFINE W == UNION {Waiting(d) : d \in Devices}
           S == {o \in W : journal[o] # "running"}
           keep(d) == IF d \in running THEN 1 ELSE 0
<1>1. /\ connected' = FALSE /\ down' = <<>> /\ finish_command(S, "cancelled")
      /\ queues' = [d \in Devices |-> SubSeq(queues[d], 1, keep(d))]
      /\ UNCHANGED <<hubVars, stream, running, reading, sim, log>>
  BY DEF link_lost, reject_command, hwVars
<1>2. S \in SUBSET Ops /\ "cancelled" \in Verdicts
  BY WaitingFacts, VerdictFacts
<1>3. /\ journal' \in [Ops -> Verdicts \cup {"none", "running"}]
      /\ \A x \in Ops : journal[x] # "none" => journal'[x] # "none"
      /\ results' \in Seq(Events)
  BY <1>1, <1>2, FinishType DEF IInv
<1>4. ASSUME NEW d \in Devices
      PROVE  /\ SubSeq(queues[d], 1, keep(d)) \in Seq(Ops)
             /\ Len(SubSeq(queues[d], 1, keep(d))) = keep(d)
             /\ \A i \in 1..keep(d) :
                   SubSeq(queues[d], 1, keep(d))[i] = queues[d][i] /\ i \in 1..Len(queues[d])
  <2>1. keep(d) \in Nat /\ keep(d) <= Len(queues[d])
    <3>1. d \in running => queues[d] # <<>>
      BY DEF IInv, Types
    <3>2. queues[d] \in Seq(Ops) /\ Len(queues[d]) \in Nat
      BY FrameFacts
    <3>3. d \in running => Len(queues[d]) >= 1
      BY <3>1, <3>2, TakeFacts
    <3> QED
      BY <3>2, <3>3
  <2>2. Len(queues[d]) \in Nat /\ \A i \in 1..Len(queues[d]) : queues[d][i] \in Ops
    BY FrameFacts
  <2> HIDE DEF keep
  <2>3. \A i \in 1..keep(d) : i \in 1..Len(queues[d])
    BY <2>1, <2>2
  <2>4. \A i \in 1..keep(d) : queues[d][i] \in Ops
    BY <2>2, <2>3
  <2> QED
    BY <2>1, <2>3, <2>4, FirstFacts
<1>5. /\ queues' \in [Devices -> Seq(Ops)]
      /\ \A d \in Devices : queues'[d] = SubSeq(queues[d], 1, keep(d))
  BY <1>1, <1>4
<1>6. \A d \in Devices : \A i \in 1..Len(queues'[d]) : Bears(queues'[d][i])
  <2> HIDE DEF keep
  <2> QED
    BY <1>4, <1>5, FrameFacts
<1>7. \A d \in running' : d \in Devices /\ queues'[d] # <<>>
  <2> SUFFICES ASSUME NEW d \in running PROVE d \in Devices /\ queues'[d] # <<>>
    BY <1>1
  <2>1. d \in Devices /\ keep(d) = 1
    BY DEF IInv, Types
  <2>2. Len(queues'[d]) = 1
    BY <1>4, <1>5, <2>1
  <2> QED
    BY <2>1, <2>2
<1>8. UNCHANGED <<hubVars, stream, log>> /\ connected' \in {connected, FALSE}
  BY <1>1
<1>9. sim' \in [Devices -> Sims] /\ reading' \in [Devices -> Readings]
  BY <1>1 DEF IInv, Types
<1>10. down' \in Seq(Ops) /\ \A i \in 1..Len(down') : Bears(down'[i])
  BY <1>1, NoFrames
<1> HIDE DEF keep, S, W
<1> QED
  BY <1>3, <1>5, <1>6, <1>7, <1>8, <1>9, <1>10, AgentStep

(* A process that ends leaves no frame behind.                             *)
LEMMA EndStep ==
    ASSUME IInv, connected' = FALSE, down' = <<>>, queues' = [d \in Devices |-> <<>>],
           running' = {}, Unread, UNCHANGED <<hubVars, stream>>, results' \in Seq(Events),
           journal' \in [Ops -> Verdicts \cup {"none", "running"}],
           \A o \in Ops : journal[o] # "none" => journal'[o] # "none"
    PROVE  IInv'
<1>1. \A d \in Devices : queues'[d] = <<>>
  OBVIOUS
<1>2. \A d \in Devices :
         queues'[d] \in Seq(Ops) /\ \A i \in 1..Len(queues'[d]) : Bears(queues'[d][i])
  BY <1>1, NoFrames
<1>3. queues' \in [Devices -> Seq(Ops)]
  BY <1>2
<1>4. down' \in Seq(Ops) /\ \A i \in 1..Len(down') : Bears(down'[i])
  BY NoFrames
<1>5. sim' \in [Devices -> Sims] /\ reading' \in [Devices -> Readings]
  BY DEF IInv, Types, Unread, Readings
<1>6. UNCHANGED <<hubVars, stream, log>> /\ connected' \in {connected, FALSE}
  BY DEF Unread
<1>7. \A d \in running' : d \in Devices /\ queues'[d] # <<>>
  OBVIOUS
<1> QED
  BY <1>2, <1>3, <1>4, <1>5, <1>6, <1>7, AgentStep

(* The agent dies: running entries of the journal are closed as unknown.   *)
LEMMA CrashStep == ASSUME IInv, agent_crash PROVE IInv'
<1> DEFINE S == {o \in Ops : journal[o] = "running"}
<1>1. /\ connected' = FALSE /\ down' = <<>> /\ queues' = [d \in Devices |-> <<>>]
      /\ running' = {} /\ Unread /\ UNCHANGED <<hubVars, stream>>
      /\ finish_command(S, "unknown")
  BY DEF agent_crash
<1>2. S \in SUBSET Ops /\ "unknown" \in Verdicts
  BY VerdictFacts
<1> HIDE DEF S
<1>3. /\ journal' \in [Ops -> Verdicts \cup {"none", "running"}]
      /\ \A x \in Ops : journal[x] # "none" => journal'[x] # "none"
      /\ results' \in Seq(Events)
  BY <1>1, <1>2, FinishType DEF IInv
<1> QED
  BY <1>1, <1>3, EndStep

(* The agent is stopped: queued frames and the running one are recorded.   *)
LEMMA StopStep == ASSUME IInv, agent_stop PROVE IInv'
<1> DEFINE cut == {Head(queues[d]) : d \in running}
           rest == (UNION {Waiting(d) : d \in Devices}) \ cut
           told == SetToSeq(rest) \o SetToSeq(cut) \o SetToSeq(cut)
<1>1. /\ connected' = FALSE /\ down' = <<>> /\ queues' = [d \in Devices |-> <<>>]
      /\ running' = {} /\ Unread /\ UNCHANGED <<hubVars, stream>>
      /\ journal' = [o \in Ops |->
             IF o \in rest \cup cut THEN Recorded(o, "unknown") ELSE journal[o]]
      /\ results' = results \o [i \in 1..Len(told) |->
             Result(told[i], Recorded(told[i], "unknown"))]
  BY DEF agent_stop
<1>2. cut \in SUBSET Ops /\ rest \in SUBSET Ops
  <2>1. \A d \in running : d \in Devices /\ queues[d] # <<>>
    BY DEF IInv, Types
  <2> QED
    BY <2>1, HeadFacts, WaitingFacts
<1> HIDE DEF cut, rest
<1>3. SetToSeq(rest) \in Seq(Ops) /\ SetToSeq(cut) \in Seq(Ops)
  <2>1. IsFiniteSet(rest) /\ IsFiniteSet(cut)
    BY <1>2, OperationsAssumption, FS_Subset
  <2>2. SetToSeq(rest) \in Seq(rest) /\ SetToSeq(cut) \in Seq(cut)
    BY <2>1, TellType
  <2> QED
    BY <1>2, <2>2
<1>4. told \in Seq(Ops)
  BY <1>3, ConcatProperties
<1>5. "unknown" \in Verdicts /\ "none" \notin Verdicts
  BY DEF Verdicts
<1> HIDE DEF told
<1>6. results' \in Seq(Events)
  BY <1>1, <1>4, <1>5, ToldType DEF IInv
<1>7. \A o \in Ops : Recorded(o, "unknown") \in Verdicts
  BY <1>5, RecordedType DEF IInv
<1>8. /\ journal' \in [Ops -> Verdicts \cup {"none", "running"}]
      /\ \A x \in Ops : journal[x] # "none" => journal'[x] # "none"
  BY <1>1, <1>5, <1>7 DEF IInv, Types
<1> QED
  BY <1>1, <1>6, <1>8, EndStep

(* A new store has a new stream: no operation was made for it yet.         *)
LEMMA RebuildStep == ASSUME IInv, rebuild_store PROVE IInv'
<1>1. /\ stream' = stream + 1 /\ connected' = FALSE /\ down' = <<>> /\ results' = <<>>
      /\ journal' = [o \in Ops |-> "none"] /\ queues' = [d \in Devices |-> <<>>]
      /\ running' = {}
      /\ UNCHANGED <<status, opConn, opStream, expected, hubSim, backup, conn, connStream,
                     sending, sim, log>>
      /\ reading' = [d \in Devices |-> Blank]
  BY DEF rebuild_store, hubVars, rowVars, Unread
<1>2. Len(down') = 0 /\ \A d \in Devices : Len(queues'[d]) = 0
  BY <1>1
<1>3. Types'
  <2>1. down' \in Seq(Ops) /\ results' \in Seq(Events)
    BY <1>1
  <2>2. queues' \in [Devices -> Seq(Ops)] /\ journal' \in [Ops -> Verdicts \cup {"none", "running"}]
    BY <1>1
  <2>3. stream' \in Nat
    BY <1>1 DEF IInv, Types
  <2>4. connected' \in BOOLEAN /\ reading' \in [Devices -> Readings]
    BY <1>1 DEF Readings
  <2> QED
    BY <1>1, <2>1, <2>2, <2>3, <2>4 DEF IInv, Types
<1>4. \A o \in Ops : opStream[o] \in Nat /\ opStream[o] < stream' /\ stream \in Nat /\ connStream \in Nat
  BY <1>1 DEF IInv, Types, Bound
<1>5. BackupType' /\ Bound'
  <2>1. connStream' <= stream'
    BY <1>1 DEF IInv, Types, Bound
  <2>2. \A o \in Ops : opStream'[o] <= stream'
    BY <1>1, <1>4 DEF IInv, Types
  <2> QED
    BY <1>1, <2>1, <2>2 DEF IInv, BackupType, Bound
<1>6. FramesBear'
  BY <1>2 DEF FramesBear
<1>7. Journalled'
  <2>1. \A i \in 1..Len(log) : opStream'[log[i].op] # stream'
    <3>1. UNCHANGED opStream /\ stream' \in Nat
      BY <1>1, <1>3 DEF Types
    <3>2. \A o \in Ops : opStream[o] # stream'
      BY <1>4, <3>1
    <3> QED
      BY <3>1, <3>2, LogOps
  <2> QED
    BY <1>1, <2>1 DEF IInv, Journalled
<1>8. AtMostOnce' /\ RightSim'
  BY <1>1 DEF IInv, AtMostOnce, RightSim
<1> QED
  BY <1>3, <1>5, <1>6, <1>7, <1>8 DEF IInv

(* The hub loses the connection or restarts: running rows become unknown.  *)
LEMMA HubDownStep == ASSUME IInv, unregister \/ hub_restart PROVE IInv'
<1>1. PICK S : status' = Settle(S, "running", "unknown")
  BY DEF unregister, hub_restart
<1>2. /\ conn' = 0 /\ sending' \in {sending, None}
      /\ UNCHANGED <<rowVars, connStream, down, linkVars, runVars, hwVars>>
  BY DEF unregister, hub_restart
<1>3. "unknown" \in Statuses \ {"none"}
  BY DEF Statuses, Verdicts
<1>4. /\ status' \in [Ops -> Statuses]
      /\ \A x \in Ops : status'[x] = "none" => status[x] = "none"
  BY <1>1, <1>3, SettleFacts DEF IInv
<1>5. sending' \in Ops \cup {None} /\ (sending' # None => status'[sending'] # "none")
  BY <1>2, <1>4 DEF IInv, Types, Bound
<1> QED
  BY <1>2, <1>4, <1>5, TableStep DEF IInv, Types, rowVars, runVars

(* A backup holds rows of the right shape.                                 *)
LEMMA BackupStep == ASSUME IInv, backup_to PROVE IInv'
<1>1. /\ backup' = <<status, opConn, created, hubSim>>
      /\ UNCHANGED <<status, opConn, opStream, expected, hubSim, conn, connStream, sending, down,
                     connected, stream, queues, running, journal, results, reading, sim, log>>
  BY DEF backup_to, hubRows, linkVars, runVars, hwVars
<1>2. BackupType'
  BY <1>1 DEF IInv, Types, BackupType
<1>3. Types' /\ Bound'
  BY <1>1 DEF IInv, Types, Bound
<1>4. FramesBear' /\ Journalled' /\ AtMostOnce' /\ RightSim'
  BY <1>1 DEF IInv, FramesBear, Bears, Journalled, AtMostOnce, RightSim
<1> QED
  BY <1>2, <1>3, <1>4 DEF IInv

(* An older database: an operation it does not know is not made again.     *)
LEMMA FromBackupStep ==
    ASSUME IInv, NEW closed, FromBackup(closed),
           \A st \in DOMAIN closed : closed[st] \in Statuses \ {"none"}
    PROVE  IInv'
<1>1. /\ backup # <<>>
      /\ status' = [o \in Ops |->
             IF backup[1][o] = "none" /\ status[o] # "none" THEN "gone"
             ELSE IF backup[1][o] \in DOMAIN closed THEN closed[backup[1][o]] ELSE backup[1][o]]
      /\ opConn' = backup[2] /\ hubSim' = backup[4] /\ backup' = <<>>
      /\ conn' = 0 /\ sending' = None
      /\ UNCHANGED <<opStream, expected, connStream, down, connected, stream, queues, running,
                     journal, results, reading, sim, log>>
  BY DEF FromBackup, linkVars, runVars, hwVars
<1>2. /\ backup[1] \in [Ops -> Statuses] /\ backup[2] \in [Ops -> Nat]
      /\ backup[4] \in [Devices -> Readings]
  BY <1>1 DEF IInv, BackupType
<1>3. status' \in [Ops -> Statuses]
  <2>1. "gone" \in Statuses
    BY DEF Statuses
  <2> QED
    BY <1>1, <1>2, <2>1
<1>4. \A x \in Ops : status'[x] = "none" => status[x] = "none"
  BY <1>1, <1>2
<1>5. Types'
  BY <1>1, <1>2, <1>3 DEF IInv, Types
<1>6. BackupType' /\ Bound'
  BY <1>1 DEF IInv, BackupType, Bound
<1>7. FramesBear'
  BY <1>1, <1>4, FrameFacts DEF FramesBear, Bears
<1>8. Journalled' /\ AtMostOnce' /\ RightSim'
  BY <1>1, <1>4, LogOps DEF IInv, Journalled, AtMostOnce, RightSim
<1> QED
  BY <1>5, <1>6, <1>7, <1>8 DEF IInv

(* Both ways of putting a backup back.                                     *)
LEMMA RestoreStep == ASSUME IInv, restore \/ rollback_volume PROVE IInv'
<1>1. {"cancelled", "unknown"} \subseteq Statuses \ {"none"}
  BY DEF Statuses, Verdicts
<1>2. CASE restore
  BY <1>1, <1>2, FromBackupStep DEF restore
<1>3. CASE rollback_volume
  BY <1>1, <1>3, FromBackupStep DEF rollback_volume
<1> QED
  BY <1>2, <1>3

(* Nothing happens.                                                        *)
LEMMA StutterStep == ASSUME IInv, UNCHANGED vars PROVE IInv'
BY DEF IInv, Types, BackupType, Bound, FramesBear, Bears, Journalled, AtMostOnce, RightSim,
       vars, hubVars, rowVars, linkVars, runVars, hwVars

(* Every step keeps the inductive invariant.                               *)
LEMMA Inductive == IInv /\ [Next]_vars => IInv'
<1> SUFFICES ASSUME IInv, [Next]_vars PROVE IInv'
  OBVIOUS
<1>1. ASSUME NEW o \in Ops,
             \/ submit_operation(o) \/ cancel_operation(o) \/ deadline(o) \/ claim_operation(o)
      PROVE  IInv'
  BY <1>1, SubmitOperationStep, CancelStep, DeadlineStep, ClaimStep
<1>2. ASSUME expire_operations \/ dispatch_send \/ dispatch_failed \/ apply_operation_result
      PROVE  IInv'
  BY <1>2, ExpireStep, DispatchStep, ApplyStep
<1>3. ASSUME NEW d \in Devices,
             handle_repeated(d) \/ handle_started(d) \/ sim_swap(d) \/ _connect(d)
      PROVE  IInv'
  BY <1>3, RepeatedStep, StartedStep, ModuleStep
<1>4. ASSUME NEW d \in Devices, NEW v \in {"cancelled", "failed"}, handle_refused(d, v) PROVE IInv'
  BY <1>4, RefusedStep
<1>5. ASSUME NEW d \in Devices, NEW v \in {"succeeded", "unknown"}, handle_finished(d, v) PROVE IInv'
  BY <1>5, FinishedStep
<1>6. ASSUME submit \/ register \/ link_lost \/ unregister \/ hub_restart PROVE IInv'
  BY <1>6, SubmitStep, RegisterStep, LinkLostStep, HubDownStep
<1>7. ASSUME \/ agent_stop \/ agent_crash \/ rebuild_store \/ backup_to \/ restore
             \/ rollback_volume \/ UNCHANGED vars
      PROVE  IInv'
  BY <1>7, StopStep, CrashStep, RebuildStep, BackupStep, RestoreStep, StutterStep
<1> QED
  BY <1>1, <1>2, <1>3, <1>4, <1>5, <1>6, <1>7 DEF Next

(* The inductive invariant holds throughout.                               *)
LEMMA Invariance == Spec => []IInv
BY InitIInv, Inductive, PTL DEF Spec

(* An operation reaches the hardware at most once, whatever is lost,       *)
(* repeated, restarted, replaced or rolled back, and with another SIM than *)
(* it was made for only where the hub or the worker has no ICCID or the    *)
(* card was exchanged under an open port (app.py, handle_command;          *)
(* store.py, begin_command).                                               *)
THEOREM CommandsRunAsMeant == Spec => []RanAsMeant
<1>1. IInv => RanAsMeant
  BY DEF IInv, RanAsMeant
<1> QED
  BY <1>1, Invariance, PTL

-----------------------------------------------------------------------------
(* What the hub shows.  The agent's events repeat its journal, the journal *)
(* says "succeeded" only of what the hardware carried out and "cancelled"  *)
(* or "failed" only of what it never saw, and so does a backup.            *)

Recalled ==
    \A i \in 1..Len(results) :
        results[i].kind = "cmd_result" => journal[results[i].op] = results[i].verdict

Completed ==
    \A o \in Ops : journal[o] = "succeeded" \/ status[o] = "succeeded" => o \in finished

Untouched == \A i \in 1..Len(log) : journal[log[i].op] \notin {"cancelled", "failed"}

SavedTrue ==
    backup # <<>> => \A o \in Ops : backup[1][o] = "succeeded" => o \in finished

Truth == restores \in Nat /\ Recalled /\ Completed /\ Untouched /\ SavedTrue /\ OneRunning

(* At first nothing is shown.                                              *)
LEMMA InitTruth == Init => Truth
<1> SUFFICES ASSUME Init PROVE Truth
  OBVIOUS
<1>1. Len(log) = 0 /\ Len(results) = 0
  BY DEF Init
<1> QED
  BY <1>1 DEF Init, Truth, Recalled, Completed, Untouched, SavedTrue, OneRunning

(* A step of the hub's table: the journal stays, an event may be consumed. *)
LEMMA TableTruth ==
    ASSUME IInv, Truth, results' = results \/ (results # <<>> /\ results' = Tail(results)),
           UNCHANGED <<journal, log, finished, backup, restores>>,
           \A o \in Ops : status'[o] = "succeeded" => o \in finished
    PROVE  restores' \in Nat /\ Recalled' /\ Completed' /\ Untouched' /\ SavedTrue'
<1>1. \A i \in 1..Len(results') : \E k \in 1..Len(results) : results'[i] = results[k]
  <2>1. CASE results' = results
    BY <2>1
  <2>2. CASE results # <<>> /\ results' = Tail(results)
    <3>1. results \in Seq(Events)
      BY DEF IInv, Types
    <3>2. /\ Len(results) \in Nat /\ Len(results') = Len(results) - 1
          /\ \A i \in 1..Len(results') : results'[i] = results[i + 1]
      BY <2>2, <3>1, TakeFacts
    <3>3. \A i \in 1..Len(results') : i + 1 \in 1..Len(results)
      BY <3>2
    <3> QED
      BY <3>2, <3>3
  <2> QED
    BY <2>1, <2>2
<1>2. Recalled'
  BY <1>1 DEF Truth, Recalled
<1> QED
  BY <1>2 DEF Truth, Completed, Untouched, SavedTrue

(* The events of a record are the earlier ones and those of its verdicts.  *)
LEMMA ToldFacts ==
    ASSUME Types, NEW S \in SUBSET Ops, NEW told \in Seq(S), NEW v \in Verdicts,
           results' = results \o [i \in 1..Len(told) |-> Result(told[i], Recorded(told[i], v))]
    PROVE  \A i \in 1..Len(results') :
               \/ \E k \in 1..Len(results) : results'[i] = results[k]
               \/ \E o \in S : results'[i] = Result(o, Recorded(o, v))
<1> DEFINE more == [i \in 1..Len(told) |-> Result(told[i], Recorded(told[i], v))]
<1>1. Len(told) \in Nat /\ \A i \in 1..Len(told) : told[i] \in S
  BY SeqFacts
<1>2. told \in Seq(Ops)
  BY <1>1
<1>3. \A i \in 1..Len(told) : Result(told[i], Recorded(told[i], v)) \in Events
  BY <1>1, RecordedType DEF Result, Events
<1>4. more \in Seq(Events) /\ Len(more) = Len(told)
  BY <1>1, <1>3
<1>5. results \in Seq(Events) /\ Len(results) \in Nat
  BY DEF Types
<1>6. /\ Len(results') = Len(results) + Len(more)
      /\ \A i \in 1..(Len(results) + Len(more)) :
             results'[i] = IF i <= Len(results) THEN results[i] ELSE more[i - Len(results)]
  BY <1>4, <1>5, ConcatProperties
<1> SUFFICES ASSUME NEW i \in 1..Len(results')
             PROVE  \/ \E k \in 1..Len(results) : results'[i] = results[k]
                    \/ \E o \in S : results'[i] = Result(o, Recorded(o, v))
  OBVIOUS
<1>7. CASE i <= Len(results)
  BY <1>4, <1>5, <1>6, <1>7
<1>9. Len(more) \in Nat /\ i \in Nat
  BY <1>1, <1>4, <1>5, <1>6
<1>8. CASE i > Len(results)
  <2>1. i - Len(results) \in 1..Len(told)
    BY <1>1, <1>4, <1>5, <1>6, <1>8
  <2>2. results'[i] = more[i - Len(results)]
    BY <1>1, <1>4, <1>5, <1>6, <1>8
  <2>3. results'[i] = Result(told[i - Len(results)], Recorded(told[i - Len(results)], v))
    BY <2>1, <2>2
  <2> HIDE DEF more
  <2> QED
    BY <1>1, <2>1, <2>3
<1> HIDE DEF more
<1> QED
  BY <1>5, <1>7, <1>8, <1>9

(* A step of the agent that records the verdict v of the operations of S:  *)
(* what ran is in the journal, so what is new there never ran.             *)
LEMMA RecordTruth ==
    ASSUME IInv, Truth, NEW S \in SUBSET Ops, NEW v \in Verdicts,
           UNCHANGED <<status, backup, restores, log, stream, opStream>>,
           finished \subseteq finished', v = "succeeded" => S \subseteq finished',
           \A o \in S : journal[o] = "none" => Bears(o),
           \A o \in S : journal[o] = "running" => v \in {"succeeded", "unknown"},
           journal' = [o \in Ops |-> IF o \in S THEN Recorded(o, v) ELSE journal[o]],
           \A i \in 1..Len(results') :
               \/ \E k \in 1..Len(results) : results'[i] = results[k]
               \/ \E o \in S : results'[i] = Result(o, Recorded(o, v))
    PROVE  Truth'
<1>1. journal \in [Ops -> Verdicts \cup {"none", "running"}]
  BY DEF IInv, Types
<1>2. \A o \in Ops : journal'[o] = IF o \in S THEN Recorded(o, v) ELSE journal[o]
  OBVIOUS
<1>3. \A o \in Ops : journal[o] \in Verdicts => journal'[o] = journal[o]
  BY <1>2 DEF Recorded, Verdicts
<1>4. Recalled'
  <2> SUFFICES ASSUME NEW i \in 1..Len(results'), results'[i].kind = "cmd_result"
               PROVE  journal'[results'[i].op] = results'[i].verdict
    BY DEF Recalled
  <2>1. CASE \E k \in 1..Len(results) : results'[i] = results[k]
    <3>1. PICK k \in 1..Len(results) : results'[i] = results[k]
      BY <2>1
    <3>2. results[k] \in Events /\ results[k].kind = "cmd_result"
      BY <3>1, SeqFacts DEF IInv, Types
    <3>3. results[k].op \in Ops /\ results[k].verdict \in Verdicts
      BY <3>2 DEF Events
    <3>4. journal[results[k].op] = results[k].verdict
      BY <3>2 DEF Truth, Recalled
    <3> QED
      BY <1>3, <3>1, <3>3, <3>4
  <2>2. CASE \E o \in S : results'[i] = Result(o, Recorded(o, v))
    <3>1. PICK o \in S : results'[i] = Result(o, Recorded(o, v))
      BY <2>2
    <3>2. results'[i].op = o /\ results'[i].verdict = Recorded(o, v)
      BY <3>1 DEF Result
    <3> QED
      BY <1>2, <3>2
  <2> QED
    BY <2>1, <2>2
<1>5. Completed'
  <2>1. \A o \in Ops : journal'[o] = "succeeded" => journal[o] = "succeeded" \/ o \in finished'
    BY <1>1, <1>2 DEF Recorded
  <2> QED
    BY <2>1 DEF Truth, Completed
<1>6. Untouched'
  <2>1. \A i \in 1..Len(log) : log[i].op \in Ops
    BY LogOps
  <2>2. \A i \in 1..Len(log) : journal[log[i].op] \notin {"cancelled", "failed"}
    BY DEF Truth, Untouched
  <2>3. \A i \in 1..Len(log) : ~(journal[log[i].op] = "none" /\ Bears(log[i].op))
    BY DEF IInv, Journalled, Bears
  <2>4. \A o \in Ops : /\ journal[o] \notin {"cancelled", "failed"}
                       /\ ~(journal[o] = "none" /\ Bears(o))
                       => journal'[o] \notin {"cancelled", "failed"}
    BY <1>1, <1>2 DEF Recorded
  <2> QED
    BY <2>1, <2>2, <2>3, <2>4 DEF Untouched
<1>7. SavedTrue' /\ OneRunning' /\ restores' \in Nat
  BY DEF Truth, SavedTrue, OneRunning
<1> QED
  BY <1>4, <1>5, <1>6, <1>7 DEF Truth

(* finish_command and reject_command record in this way.                   *)
LEMMA FinishFacts ==
    ASSUME IInv, NEW S \in SUBSET Ops, NEW v \in Verdicts, finish_command(S, v)
    PROVE  /\ journal' = [o \in Ops |-> IF o \in S THEN Recorded(o, v) ELSE journal[o]]
           /\ \A i \in 1..Len(results') :
                  \/ \E k \in 1..Len(results) : results'[i] = results[k]
                  \/ \E o \in S : results'[i] = Result(o, Recorded(o, v))
<1>1. IsFiniteSet(S)
  BY OperationsAssumption, FS_Subset
<1>2. SetToSeq(S) \in Seq(S)
  BY <1>1, TellType
<1>3. results' = results \o [i \in 1..Len(SetToSeq(S)) |->
                     Result(SetToSeq(S)[i], Recorded(SetToSeq(S)[i], v))]
  BY DEF finish_command
<1>4. \A i \in 1..Len(results') :
          \/ \E k \in 1..Len(results) : results'[i] = results[k]
          \/ \E o \in S : results'[i] = Result(o, Recorded(o, v))
  BY <1>2, <1>3, ToldFacts DEF IInv
<1> QED
  BY <1>4 DEF finish_command

(* Frames are refused: those that run are left out.                        *)
LEMMA RejectTruth ==
    ASSUME IInv, Truth, NEW S \in SUBSET Ops, reject_command(S), \A o \in S : Bears(o),
           UNCHANGED <<status, backup, restores, log, stream, opStream, finished>>
    PROVE  Truth'
<1> DEFINE R == {o \in S : journal[o] # "running"}
<1>1. R \in SUBSET Ops /\ "cancelled" \in Verdicts /\ finish_command(R, "cancelled")
  BY VerdictFacts DEF reject_command
<1>2. \A o \in R : journal[o] # "running" /\ Bears(o)
  OBVIOUS
<1> HIDE DEF R
<1>3. /\ journal' = [o \in Ops |-> IF o \in R THEN Recorded(o, "cancelled") ELSE journal[o]]
      /\ \A i \in 1..Len(results') :
             \/ \E k \in 1..Len(results) : results'[i] = results[k]
             \/ \E o \in R : results'[i] = Result(o, Recorded(o, "cancelled"))
  BY <1>1, FinishFacts
<1> QED
  BY <1>1, <1>2, <1>3, RecordTruth

(* Nothing is recorded.                                                    *)
LEMMA SilentTruth ==
    ASSUME IInv, Truth,
           UNCHANGED <<status, backup, restores, log, stream, opStream, journal, results, finished>>
    PROVE  Truth'
BY DEF Truth, Recalled, Completed, Untouched, SavedTrue, OneRunning

-----------------------------------------------------------------------------
(* The hub's steps keep the truth of what it shows.                        *)

(* No other row becomes running.                                           *)
LEMMA NoneClaimed ==
    ASSUME Truth, \A o \in Ops : status'[o] = "running" => status[o] = "running"
    PROVE  OneRunning'
BY DEF Truth, OneRunning

(* Settling rows makes none succeed or run.                                *)
LEMMA SettleTruth ==
    ASSUME IInv, NEW S, status' = Settle(S, "running", "unknown")
    PROVE  \A o \in Ops : /\ status'[o] = "succeeded" => status[o] = "succeeded"
                          /\ status'[o] = "running" => status[o] = "running"
BY DEF Settle

(* Requests, cancellations, deadlines, claims and sends.                   *)
LEMMA TableStepsTruth ==
    ASSUME IInv, Truth, NEW o \in Ops,
           \/ submit_operation(o) \/ cancel_operation(o) \/ deadline(o) \/ claim_operation(o)
           \/ expire_operations \/ dispatch_send \/ dispatch_failed
           \/ unregister \/ hub_restart
    PROVE  Truth'
<1>1. UNCHANGED <<results, journal, log, finished, backup, restores>>
  BY DEF submit_operation, cancel_operation, deadline, claim_operation, expire_operations,
         dispatch_send, dispatch_failed, unregister, hub_restart, rowVars, runVars, hwVars
<1>2. status \in [Ops -> Statuses]
  BY DEF IInv, Types
<1>3. /\ \A x \in Ops : status'[x] = "succeeded" => status[x] = "succeeded"
      /\ OneRunning'
  <2>1. CASE submit_operation(o) \/ cancel_operation(o) \/ deadline(o) \/ dispatch_send
    <3>1. \A x \in Ops : /\ status'[x] = "succeeded" => status[x] = "succeeded"
                         /\ status'[x] = "running" => status[x] = "running"
      BY <1>2, <2>1 DEF submit_operation, cancel_operation, deadline, dispatch_send
    <3> QED
      BY <3>1, NoneClaimed
  <2>2. CASE expire_operations
    <3>1. \A st \in Statuses : /\ Expired(st) = "succeeded" => st = "succeeded"
                               /\ Expired(st) = "running" => st = "running"
      BY DEF Statuses, Verdicts, Expired
    <3>2. \A x \in Ops : /\ status'[x] = "succeeded" => status[x] = "succeeded"
                         /\ status'[x] = "running" => status[x] = "running"
      BY <1>2, <2>2, <3>1 DEF expire_operations
    <3> QED
      BY <3>2, NoneClaimed
  <2>3. CASE claim_operation(o)
    <3>1. /\ status' = [status EXCEPT ![o] = "running"]
          /\ \A p \in Ops : DeviceOf[p] = DeviceOf[o] => status[p] # "running"
      BY <2>3 DEF claim_operation, DeviceFree, OpsOf
    <3> QED
      BY <1>2, <3>1 DEF Truth, OneRunning
  <2>4. CASE dispatch_failed \/ unregister \/ hub_restart
    <3>1. PICK S : status' = Settle(S, "running", "unknown")
      BY <2>4 DEF dispatch_failed, unregister, hub_restart
    <3> QED
      BY <3>1, SettleTruth, NoneClaimed
  <2> QED
    BY <2>1, <2>2, <2>3, <2>4
<1>4. \A x \in Ops : status'[x] = "succeeded" => x \in finished
  BY <1>3 DEF Truth, Completed
<1> QED
  BY <1>1, <1>3, <1>4, TableTruth DEF Truth

(* An event is applied: it repeats the journal.                            *)
LEMMA ApplyTruth == ASSUME IInv, Truth, apply_operation_result PROVE Truth'
<1> DEFINE r == Head(results)
<1>1. /\ results # <<>> /\ results' = Tail(results)
      /\ UNCHANGED <<journal, log, finished, backup, restores>>
  BY DEF apply_operation_result, hwVars
<1>2. results \in Seq(Events) /\ status \in [Ops -> Statuses]
  BY DEF IInv, Types
<1>3. r \in Events /\ r = results[1] /\ 1 \in 1..Len(results)
  BY <1>1, <1>2, TakeFacts
<1> HIDE DEF r
<1>4. \/ status' = status
      \/ r.kind = "cmd_result" /\ status' = [status EXCEPT ![r.op] = r.verdict]
  BY DEF apply_operation_result, r
<1>5. r.kind = "cmd_result" =>
          r.op \in Ops /\ r.verdict \in Verdicts /\ journal[r.op] = r.verdict
  BY <1>3 DEF Events, Truth, Recalled
<1>6. \A x \in Ops : status'[x] = "succeeded" => x \in finished
  BY <1>2, <1>4, <1>5 DEF Truth, Completed
<1>7. \A x \in Ops : status'[x] = "running" => status[x] = "running"
  BY <1>2, <1>4, <1>5 DEF Verdicts
<1>8. OneRunning'
  BY <1>7, NoneClaimed
<1> QED
  BY <1>1, <1>6, <1>8, TableTruth DEF Truth

(* A backup is taken.                                                      *)
LEMMA BackupTruth == ASSUME IInv, Truth, backup_to PROVE Truth'
<1>1. /\ backup' = <<status, opConn, created, hubSim>>
      /\ UNCHANGED <<status, results, journal, log, finished, restores>>
  BY DEF backup_to, hubRows, runVars, hwVars
<1>2. backup'[1] = status
  BY <1>1
<1> QED
  BY <1>1, <1>2 DEF Truth, Recalled, Completed, Untouched, SavedTrue, OneRunning

(* A backup is put back: none of its rows is shown as running.             *)
LEMMA RestoreTruth == ASSUME IInv, Truth, restore \/ rollback_volume PROVE Truth'
<1>1. PICK closed : /\ FromBackup(closed)
                    /\ "running" \in DOMAIN closed
                    /\ \A st \in DOMAIN closed : closed[st] \in {"cancelled", "unknown"}
  <2>1. CASE restore
    <3>1. FromBackup([queued |-> "cancelled", running |-> "unknown"])
      BY <2>1 DEF restore
    <3> QED
      BY <3>1
  <2>2. CASE rollback_volume
    <3>1. FromBackup([running |-> "unknown"])
      BY <2>2 DEF rollback_volume
    <3> QED
      BY <3>1
  <2> QED
    BY <2>1, <2>2
<1>2. /\ backup # <<>> /\ backup' = <<>> /\ restores' = restores + 1
      /\ status' = [o \in Ops |->
             IF backup[1][o] = "none" /\ status[o] # "none" THEN "gone"
             ELSE IF backup[1][o] \in DOMAIN closed THEN closed[backup[1][o]] ELSE backup[1][o]]
      /\ UNCHANGED <<results, journal, log, finished>>
  BY <1>1 DEF FromBackup, runVars, hwVars
<1>3. \A o \in Ops : /\ status'[o] # "running"
                     /\ status'[o] = "succeeded" => backup[1][o] = "succeeded"
  BY <1>1, <1>2
<1>4. Completed' /\ OneRunning'
  BY <1>2, <1>3 DEF Truth, Completed, SavedTrue, OneRunning
<1>5. Recalled' /\ Untouched'
  BY <1>2 DEF Truth, Recalled, Untouched
<1>6. SavedTrue' /\ restores' \in Nat
  BY <1>2 DEF Truth, SavedTrue
<1> QED
  BY <1>4, <1>5, <1>6 DEF Truth

-----------------------------------------------------------------------------
(* The agent's steps keep it.                                              *)

(* Frames that wait were made for this store.                              *)
LEMMA WaitingBear == ASSUME IInv, NEW d \in Devices PROVE \A o \in Waiting(d) : o \in Ops /\ Bears(o)
<1>1. /\ Len(queues[d]) \in Nat
      /\ \A i \in 1..Len(queues[d]) : queues[d][i] \in Ops /\ Bears(queues[d][i])
  BY FrameFacts
<1> QED
  BY <1>1 DEF Waiting

(* The next frame of the wire is queued, or refused with a receipt.        *)
LEMMA SubmitTruth == ASSUME IInv, Truth, submit PROVE Truth'
<1>1. UNCHANGED <<status, backup, restores, log, stream, opStream, finished>>
  BY DEF submit, hubVars, rowVars, linkVars, hwVars
<1>2. down # <<>> /\ (reject_command({Head(down)}) \/ UNCHANGED <<journal, results>>)
  BY DEF submit
<1>3. down \in Seq(Ops) /\ \A i \in 1..Len(down) : Bears(down[i])
  BY FrameFacts
<1>4. Head(down) \in Ops /\ Head(down) = down[1] /\ 1 \in 1..Len(down)
  BY <1>2, <1>3, TakeFacts
<1>5. {Head(down)} \in SUBSET Ops /\ \A o \in {Head(down)} : Bears(o)
  BY <1>3, <1>4
<1> QED
  BY <1>1, <1>2, <1>5, RejectTruth, SilentTruth

(* A frame ends before the hardware: it was made for this store, so it     *)
(* ran before only if the journal knows it.                                *)
LEMMA HandleTruth ==
    ASSUME IInv, Truth, NEW d \in Devices, NEW v \in {"cancelled", "failed"},
           handle_repeated(d) \/ handle_refused(d, v)
    PROVE  Truth'
<1> DEFINE o == Head(queues[d])
<1>1. /\ UNCHANGED <<status, backup, restores, log, stream, opStream, finished>>
      /\ queues[d] # <<>>
  BY DEF handle_repeated, handle_refused, hubVars, rowVars, linkVars, hwVars
<1>2. o \in Ops /\ Bears(o)
  BY <1>1, HeadFacts
<1>3. CASE handle_repeated(d)
  <2>1. {o} \in SUBSET Ops /\ reject_command({o}) /\ \A x \in {o} : Bears(x)
    BY <1>2, <1>3 DEF handle_repeated
  <2> QED
    BY <1>1, <2>1, RejectTruth
<1>4. CASE handle_refused(d, v)
  <2>1. /\ journal[o] = "none" /\ journal' = [journal EXCEPT ![o] = v]
        /\ results' = Append(results, Result(o, v))
    BY <1>4 DEF handle_refused
  <2> HIDE DEF o
  <2>2. /\ results \in Seq(Events) /\ Result(o, v) \in Events
        /\ journal \in [Ops -> Verdicts \cup {"none", "running"}]
    BY <1>2, VerdictFacts DEF IInv, Types, Result, Events
  <2>3. /\ Len(results) \in Nat /\ Len(results') = Len(results) + 1
        /\ \A i \in 1..Len(results) : results'[i] = results[i]
        /\ results'[Len(results) + 1] = Result(o, v)
    BY <2>1, <2>2, PutFacts
  <2>4. /\ journal'[o] = v /\ \A x \in Ops : x # o => journal'[x] = journal[x]
    BY <1>2, <2>1, <2>2
  <2>5. Recalled'
    <3> SUFFICES ASSUME NEW i \in 1..Len(results'), results'[i].kind = "cmd_result"
                 PROVE  journal'[results'[i].op] = results'[i].verdict
      BY DEF Recalled
    <3>1. CASE i \in 1..Len(results)
      <4>1. results[i] \in Events /\ results'[i] = results[i]
        BY <2>2, <2>3, <3>1, SeqFacts
      <4>2. results[i].op \in Ops /\ results[i].verdict \in Verdicts
        BY <4>1 DEF Events
      <4>3. journal[results[i].op] = results[i].verdict
        BY <3>1, <4>1 DEF Truth, Recalled
      <4>4. results[i].op # o
        BY <2>1, <4>2, <4>3 DEF Verdicts
      <4> QED
        BY <2>4, <4>1, <4>2, <4>3, <4>4
    <3>2. CASE i = Len(results) + 1
      BY <2>3, <2>4, <3>2 DEF Result
    <3> QED
      BY <2>3, <3>1, <3>2
  <2>6. Completed'
    BY <1>1, <2>4 DEF Truth, Completed
  <2>7. Untouched'
    <3>1. \A i \in 1..Len(log) : log[i].op \in Ops /\ log[i].op # o
      BY <1>2, <2>1, LogOps DEF IInv, Journalled, Bears
    <3> QED
      BY <1>1, <2>4, <3>1 DEF Truth, Untouched
  <2> QED
    BY <1>1, <2>5, <2>6, <2>7 DEF Truth, SavedTrue, OneRunning
<1> QED
  BY <1>3, <1>4

(* The hardware is called for an operation the journal does not know.      *)
LEMMA StartedTruth == ASSUME IInv, Truth, NEW d \in Devices, handle_started(d) PROVE Truth'
<1> DEFINE o == Head(queues[d])
<1>1. /\ queues[d] # <<>> /\ journal[o] = "none" /\ journal' = [journal EXCEPT ![o] = "running"]
      /\ log' = Append(log, Call(o, d))
      /\ UNCHANGED <<status, backup, restores, results, finished>>
  BY DEF handle_started, MayStart, hubVars, rowVars, Call
<1>2. o \in Ops /\ Call(o, d) \in Calls /\ Call(o, d).op = o
  <2>1. o \in Ops
    BY <1>1, HeadFacts
  <2> QED
    BY <2>1 DEF IInv, Types, Call, Calls
<1> HIDE DEF o
<1>3. journal \in [Ops -> Verdicts \cup {"none", "running"}] /\ results \in Seq(Events)
  BY DEF IInv, Types
<1>4. journal'[o] = "running" /\ \A x \in Ops : x # o => journal'[x] = journal[x]
  BY <1>1, <1>2, <1>3
<1>5. \A i \in 1..Len(results) : results[i].kind = "cmd_result" =>
          results[i].op \in Ops /\ results[i].verdict \in Verdicts
  <2>1. \A i \in 1..Len(results) : results[i] \in Events
    BY <1>3, SeqFacts
  <2> QED
    BY <2>1 DEF Events
<1>6. Recalled'
  BY <1>1, <1>4, <1>5 DEF Truth, Recalled, Verdicts
<1>7. Completed'
  BY <1>1, <1>4 DEF Truth, Completed
<1>8. Untouched'
  <2>1. log \in Seq(Calls) /\ Call(o, d) \in Calls
    BY <1>2 DEF IInv, Types
  <2>2. /\ Len(log) \in Nat /\ Len(log') = Len(log) + 1
        /\ log'[Len(log) + 1] = Call(o, d)
        /\ \A i \in 1..Len(log) : log'[i] = log[i]
    BY <1>1, <2>1, PutFacts
  <2>3. \A i \in 1..Len(log') : i \in 1..Len(log) \/ i = Len(log) + 1
    BY <2>2
  <2>4. \A i \in 1..Len(log) : journal'[log'[i].op] \notin {"cancelled", "failed"}
    <3>1. \A i \in 1..Len(log) : log[i].op \in Ops
      BY LogOps
    <3> QED
      BY <1>4, <2>2, <3>1 DEF Truth, Untouched
  <2>5. journal'[log'[Len(log) + 1].op] = "running"
    BY <1>2, <1>4, <2>2
  <2> QED
    BY <2>3, <2>4, <2>5 DEF Untouched
<1> QED
  BY <1>1, <1>6, <1>7, <1>8 DEF Truth, SavedTrue, OneRunning

(* The hardware answered: succeeded is recorded of what it carried out.    *)
LEMMA FinishedTruth ==
    ASSUME IInv, Truth, NEW d \in Devices, NEW v \in {"succeeded", "unknown"}, handle_finished(d, v)
    PROVE  Truth'
<1> DEFINE o == Head(queues[d])
<1>1. /\ finish_command({o}, v) /\ queues[d] # <<>>
      /\ finished' = IF v = "succeeded" THEN finished \cup {o} ELSE finished
      /\ UNCHANGED <<status, backup, restores, log, stream, opStream>>
  BY DEF handle_finished, Outcome, IInv, Types, hubVars, rowVars, linkVars
<1>2. {o} \in SUBSET Ops /\ Bears(o) /\ v \in Verdicts
  BY <1>1, HeadFacts, VerdictFacts
<1> HIDE DEF o
<1>3. /\ journal' = [x \in Ops |-> IF x \in {o} THEN Recorded(x, v) ELSE journal[x]]
      /\ \A i \in 1..Len(results') :
             \/ \E k \in 1..Len(results) : results'[i] = results[k]
             \/ \E x \in {o} : results'[i] = Result(x, Recorded(x, v))
  BY <1>1, <1>2, FinishFacts
<1>4. finished \subseteq finished' /\ (v = "succeeded" => {o} \subseteq finished')
  BY <1>1
<1>5. \A x \in {o} : Bears(x)
  BY <1>2
<1> QED
  BY <1>1, <1>2, <1>3, <1>4, <1>5, RecordTruth

(* What happens to a module is not a result.                               *)
LEMMA ModuleTruth ==
    ASSUME IInv, Truth, NEW d \in Devices, sim_swap(d) \/ _connect(d)
    PROVE  Truth'
<1>1. UNCHANGED <<status, backup, restores, log, journal, finished>>
  BY DEF sim_swap, _connect, hubVars, rowVars, runVars
<1>2. Recalled'
  <2>1. CASE sim_swap(d)
    BY <1>1, <2>1 DEF sim_swap, runVars, Truth, Recalled
  <2>2. CASE _connect(d)
    <3>1. PICK s \in {sim[d], Blank} :
            results' = Append(results, [kind |-> "status", device |-> d, sim |-> s])
      BY <2>2 DEF _connect
    <3> DEFINE r == [kind |-> "status", device |-> d, sim |-> s]
    <3>2. results \in Seq(Events \cup {r}) /\ r.kind = "status"
      BY SeqFacts DEF IInv, Types
    <3> HIDE DEF r
    <3>3. /\ Len(results) \in Nat /\ Len(results') = Len(results) + 1
          /\ \A i \in 1..Len(results) : results'[i] = results[i]
          /\ results'[Len(results) + 1] = r
      BY <3>1, <3>2, PutFacts DEF r
    <3>4. \A i \in 1..Len(results') : i \in 1..Len(results) \/ i = Len(results) + 1
      BY <3>3
    <3> QED
      BY <1>1, <3>2, <3>3, <3>4 DEF Truth, Recalled
  <2> QED
    BY <2>1, <2>2
<1> QED
  BY <1>1, <1>2 DEF Truth, Completed, Untouched, SavedTrue, OneRunning

(* The link or the process ends.                                           *)
LEMMA EndTruth ==
    ASSUME IInv, Truth, link_lost \/ agent_stop \/ agent_crash
    PROVE  Truth'
<1>1. UNCHANGED <<status, backup, restores, log, stream, opStream, finished>>
  BY DEF link_lost, agent_stop, agent_crash, Unread, hubVars, rowVars, hwVars
<1> DEFINE W == UNION {Waiting(d) : d \in Devices}
<1>2. W \in SUBSET Ops /\ \A o \in W : Bears(o)
  BY WaitingBear
<1>3. CASE link_lost
  <2>1. reject_command(W)
    BY <1>3 DEF link_lost
  <2> HIDE DEF W
  <2> QED
    BY <1>1, <1>2, <2>1, RejectTruth
<1>4. CASE agent_crash
  <2> DEFINE S == {o \in Ops : journal[o] = "running"}
  <2>1. finish_command(S, "unknown") /\ S \in SUBSET Ops /\ "unknown" \in Verdicts
    BY <1>4, VerdictFacts DEF agent_crash
  <2>2. \A o \in S : journal[o] # "none"
    OBVIOUS
  <2> HIDE DEF S
  <2>3. /\ journal' = [o \in Ops |-> IF o \in S THEN Recorded(o, "unknown") ELSE journal[o]]
        /\ \A i \in 1..Len(results') :
               \/ \E k \in 1..Len(results) : results'[i] = results[k]
               \/ \E o \in S : results'[i] = Result(o, Recorded(o, "unknown"))
    BY <2>1, FinishFacts
  <2> QED
    BY <1>1, <2>1, <2>2, <2>3, RecordTruth
<1>5. CASE agent_stop
  <2> DEFINE cut == {Head(queues[d]) : d \in running}
             rest == W \ cut
             S == rest \cup cut
             told == SetToSeq(rest) \o SetToSeq(cut) \o SetToSeq(cut)
  <2>1. /\ journal' = [o \in Ops |-> IF o \in S THEN Recorded(o, "unknown") ELSE journal[o]]
        /\ results' = results \o [i \in 1..Len(told) |->
               Result(told[i], Recorded(told[i], "unknown"))]
    BY <1>5 DEF agent_stop
  <2>2. cut \in SUBSET Ops /\ \A o \in cut : Bears(o)
    <3>1. \A d \in running : d \in Devices /\ queues[d] # <<>>
      BY DEF IInv, Types
    <3> QED
      BY <3>1, HeadFacts
  <2>3. rest \in SUBSET Ops /\ \A o \in rest : Bears(o)
    BY <1>2
  <2> HIDE DEF W, cut, rest
  <2>4. S \in SUBSET Ops /\ "unknown" \in Verdicts /\ \A o \in S : Bears(o)
    BY <2>2, <2>3, VerdictFacts
  <2>5. told \in Seq(S)
    <3>1. IsFiniteSet(rest) /\ IsFiniteSet(cut)
      BY <2>2, <2>3, OperationsAssumption, FS_Subset
    <3>2. SetToSeq(rest) \in Seq(rest) /\ SetToSeq(cut) \in Seq(cut)
      BY <3>1, TellType
    <3>3. SetToSeq(rest) \in Seq(S) /\ SetToSeq(cut) \in Seq(S)
      BY <3>2
    <3> HIDE DEF S
    <3> QED
      BY <3>3, ConcatProperties
  <2> HIDE DEF S, told
  <2>6. \A i \in 1..Len(results') :
            \/ \E k \in 1..Len(results) : results'[i] = results[k]
            \/ \E o \in S : results'[i] = Result(o, Recorded(o, "unknown"))
    BY <2>1, <2>4, <2>5, ToldFacts DEF IInv
  <2> QED
    BY <1>1, <2>1, <2>4, <2>6, RecordTruth
<1> QED
  BY <1>3, <1>4, <1>5

(* A new store has an empty journal and owes no event.                     *)
LEMMA RebuildTruth == ASSUME IInv, Truth, rebuild_store PROVE Truth'
<1>1. /\ journal' = [o \in Ops |-> "none"] /\ results' = <<>>
      /\ UNCHANGED <<status, backup, restores, log, finished>>
  BY DEF rebuild_store, Unread, hubVars, rowVars
<1>2. Len(results') = 0 /\ \A o \in Ops : journal'[o] = "none"
  BY <1>1
<1>3. Recalled' /\ Completed'
  BY <1>1, <1>2 DEF Truth, Recalled, Completed
<1>4. Untouched'
  BY <1>1, <1>2, LogOps DEF Untouched
<1> QED
  BY <1>1, <1>3, <1>4 DEF Truth, SavedTrue, OneRunning

(* A new connection records nothing.                                       *)
LEMMA RegisterTruth == ASSUME IInv, Truth, register \/ UNCHANGED vars PROVE Truth'
<1>1. UNCHANGED <<status, backup, restores, log, stream, opStream, journal, results, finished>>
  BY DEF register, vars, hubVars, rowVars, linkVars, runVars, hwVars
<1> QED
  BY <1>1, SilentTruth

(* Every step keeps the truth of what is shown.                            *)
LEMMA NextTruth == IInv /\ Truth /\ [Next]_vars => Truth'
<1> SUFFICES ASSUME IInv, Truth, [Next]_vars PROVE Truth'
  OBVIOUS
<1>1. ASSUME NEW o \in Ops,
             \/ submit_operation(o) \/ cancel_operation(o) \/ deadline(o) \/ claim_operation(o)
      PROVE  Truth'
  BY <1>1, TableStepsTruth
<1>2. ASSUME expire_operations \/ dispatch_send \/ dispatch_failed \/ unregister \/ hub_restart
      PROVE  Truth'
  <2>1. CASE Ops # {}
    BY <1>2, <2>1, TableStepsTruth
  <2>2. CASE Ops = {}
    <3>1. UNCHANGED <<results, journal, log, finished, backup, restores>>
      BY <1>2 DEF expire_operations, dispatch_send, dispatch_failed, unregister, hub_restart,
                  rowVars, runVars, hwVars
    <3> QED
      BY <2>2, <3>1, TableTruth DEF Truth, OneRunning
  <2> QED
    BY <2>1, <2>2
<1>3. ASSUME apply_operation_result \/ submit \/ link_lost \/ agent_stop \/ agent_crash
      PROVE  Truth'
  BY <1>3, ApplyTruth, SubmitTruth, EndTruth
<1>4. ASSUME NEW d \in Devices,
             handle_repeated(d) \/ handle_started(d) \/ sim_swap(d) \/ _connect(d)
      PROVE  Truth'
  <2>1. "failed" \in {"cancelled", "failed"}
    OBVIOUS
  <2> QED
    BY <1>4, <2>1, HandleTruth, StartedTruth, ModuleTruth
<1>5. ASSUME NEW d \in Devices, NEW v \in {"cancelled", "failed"}, handle_refused(d, v)
      PROVE  Truth'
  BY <1>5, HandleTruth
<1>6. ASSUME NEW d \in Devices, NEW v \in {"succeeded", "unknown"}, handle_finished(d, v)
      PROVE  Truth'
  BY <1>6, FinishedTruth
<1>7. ASSUME \/ rebuild_store \/ register \/ UNCHANGED vars
             \/ backup_to \/ restore \/ rollback_volume
      PROVE  Truth'
  BY <1>7, RebuildTruth, RegisterTruth, BackupTruth, RestoreTruth
<1> QED
  BY <1>1, <1>2, <1>3, <1>4, <1>5, <1>6, <1>7 DEF Next

(* What is shown is true throughout.                                       *)
LEMMA TruthInvariance == Spec => []Truth
BY InitTruth, NextTruth, Invariance, PTL DEF Spec

-----------------------------------------------------------------------------
(* A confirmed outcome is final.                                           *)

Final == \A o \in Ops : status[o] \in {"succeeded", "failed", "cancelled"} => status'[o] = status[o]

(* Every statement of the hub names the status it closes.                  *)
LEMMA NextFinal == IInv /\ Truth /\ [Next]_vars => (restores' = restores => Final)
<1> SUFFICES ASSUME IInv, Truth, [Next]_vars, restores' = restores PROVE Final
  OBVIOUS
<1>1. status \in [Ops -> Statuses] /\ results \in Seq(Events)
  BY DEF IInv, Types
<1>2. ASSUME NEW o \in Ops,
             \/ submit_operation(o) \/ cancel_operation(o) \/ deadline(o) \/ claim_operation(o)
      PROVE  Final
  BY <1>1, <1>2 DEF submit_operation, cancel_operation, deadline, claim_operation, Final
<1>3. ASSUME expire_operations PROVE Final
  BY <1>1, <1>3 DEF expire_operations, Expired, Final
<1>4. ASSUME dispatch_failed \/ unregister \/ hub_restart PROVE Final
  <2>1. PICK S : status' = Settle(S, "running", "unknown")
    BY <1>4 DEF dispatch_failed, unregister, hub_restart
  <2> QED
    BY <1>1, <2>1 DEF Settle, Final
<1>5. ASSUME apply_operation_result PROVE Final
  <2> DEFINE r == Head(results)
  <2>1. results # <<>> /\ \/ status' = status
                          \/ /\ r.kind = "cmd_result" /\ status[r.op] \in {"running", "unknown"}
                             /\ status' = [status EXCEPT ![r.op] = r.verdict]
    BY <1>5 DEF apply_operation_result, Accepts
  <2>2. r \in Events
    BY <1>1, <2>1, TakeFacts
  <2> HIDE DEF r
  <2>3. r.kind = "cmd_result" => r.op \in Ops
    BY <2>2 DEF Events
  <2> QED
    BY <1>1, <2>1, <2>3 DEF Final
<1>6. ASSUME UNCHANGED status PROVE Final
  BY <1>6 DEF Final
<1>7. ASSUME NEW d \in Devices,
             \/ handle_repeated(d) \/ handle_started(d) \/ sim_swap(d) \/ _connect(d)
             \/ \E v \in {"cancelled", "failed"} : handle_refused(d, v)
             \/ \E v \in {"succeeded", "unknown"} : handle_finished(d, v)
      PROVE  UNCHANGED status
  BY <1>7 DEF handle_repeated, handle_started, sim_swap, _connect, handle_refused,
              handle_finished, hubVars
<1>8. ASSUME \/ dispatch_send \/ submit \/ register \/ link_lost \/ agent_stop \/ agent_crash
             \/ rebuild_store \/ backup_to \/ UNCHANGED vars
      PROVE  UNCHANGED status
  BY <1>8 DEF dispatch_send, submit, register, link_lost, agent_stop, agent_crash, rebuild_store,
              backup_to, hubRows, vars, hubVars
<1>9. ASSUME restore \/ rollback_volume PROVE FALSE
  <2>1. restores' = restores + 1 /\ restores \in Nat
    BY <1>9 DEF restore, rollback_volume, FromBackup, Truth
  <2> QED
    BY <2>1
<1> QED
  BY <1>2, <1>3, <1>4, <1>5, <1>6, <1>7, <1>8, <1>9 DEF Next

(* No late event, expiry, disconnect or restart overwrites a confirmed     *)
(* outcome (db.py, apply_operation_result, expire_operations,              *)
(* disconnect_operations, recover_operations).                             *)
THEOREM ConfirmedOutcomesAreFinal == Spec => ConfirmedIsFinal
<1>1. IInv /\ Truth /\ [Next]_vars => [restores' = restores => Final]_vars
  BY NextFinal
<1>2. [restores' = restores => Final]_vars
        => [restores' = restores =>
              \A o \in Ops : status[o] \in {"succeeded", "failed", "cancelled"}
                                => status'[o] = status[o]]_vars
  BY DEF Final
<1> QED
  BY <1>1, <1>2, Invariance, TruthInvariance, PTL DEF Spec, ConfirmedIsFinal

-----------------------------------------------------------------------------
(* The order of submission, as long as no backup was put back.  A module's *)
(* operations stand in one line: those that ran, the frames in its queue,  *)
(* the frames on the wire, the one being sent and those still queued at    *)
(* the hub.  Everyone in the line was created before those behind.         *)

Framed(o) ==
    \/ \E i \in 1..Len(down) : down[i] = o
    \/ \E d \in Devices : \E i \in 1..Len(queues[d]) : queues[d][i] = o

Offered(o) == o = sending \/ Framed(o)

Listed ==
    /\ created \in Seq(Ops)
    /\ \A m, n \in 1..Len(created) : created[m] = created[n] => m = n
    /\ \A o \in Ops : status[o] # "none" <=> \E m \in 1..Len(created) : created[m] = o

(* What is queued was offered to nobody, what is shown as not executed was *)
(* not and will not be.                                                    *)
Fresh ==
    /\ \A o \in Ops : Offered(o) => status[o] \notin {"none", "queued"}
    /\ \A i \in 1..Len(log) : status[log[i].op] \notin {"none", "queued", "cancelled", "failed"}
    /\ \A o \in Ops : Offered(o) /\ status[o] \in {"cancelled", "failed"} /\ opStream[o] = stream
                        => journal[o] # "none"

Ahead(p, o) ==
    DeviceOf[p] = DeviceOf[o] =>
        \E m, n \in 1..Len(created) : m < n /\ created[m] = p /\ created[n] = o

Routed == \A d \in Devices : \A i \in 1..Len(queues[d]) : DeviceOf[queues[d][i]] = d

RanFirst ==
    /\ \A i, j \in 1..Len(log) : i < j => Ahead(log[i].op, log[j].op)
    /\ \A k \in 1..Len(log) : \A d \in Devices : \A i \in 1..Len(queues[d]) :
          (d \in running /\ i = 1) \/ Ahead(log[k].op, queues[d][i])
    /\ \A k \in 1..Len(log) : \A j \in 1..Len(down) : Ahead(log[k].op, down[j])

QueueThenDown ==
    /\ \A d \in Devices : \A i, j \in 1..Len(queues[d]) :
          i < j => Ahead(queues[d][i], queues[d][j])
    /\ \A d \in Devices : \A i \in 1..Len(queues[d]) : \A j \in 1..Len(down) :
          Ahead(queues[d][i], down[j])
    /\ \A i, j \in 1..Len(down) : i < j => Ahead(down[i], down[j])

SendingNext ==
    sending # None => /\ \A k \in 1..Len(log) : Ahead(log[k].op, sending)
                      /\ \A p \in Ops : Framed(p) => Ahead(p, sending)

QueuedLast ==
    \A o \in Ops : status[o] = "queued" => /\ \A k \in 1..Len(log) : Ahead(log[k].op, o)
                                           /\ \A p \in Ops : Offered(p) => Ahead(p, o)

Ordered == Routed /\ RanFirst /\ QueueThenDown /\ SendingNext /\ QueuedLast

Plain == Listed /\ Fresh /\ Ordered

(* Steps in which nobody joins the line: frames leave at the front or are  *)
(* lost, rows close.                                                       *)
LEMMA LineKept ==
    ASSUME IInv, Truth, Plain, NEW a \in Nat, NEW b \in [Devices -> Nat],
           UNCHANGED <<created, opStream, log>>, sending' \in {sending, None},
           \A i \in 1..Len(down') : i + a \in 1..Len(down) /\ down'[i] = down[i + a],
           \A d \in Devices : \A i \in 1..Len(queues'[d]) :
               /\ i + b[d] \in 1..Len(queues[d]) /\ queues'[d][i] = queues[d][i + b[d]]
               /\ d \in running /\ i + b[d] = 1 => d \in running' /\ i = 1,
           \A o \in Ops : /\ status'[o] = "none" <=> status[o] = "none"
                          /\ status'[o] = "queued" => status[o] = "queued"
                          /\ status'[o] \in {"cancelled", "failed"} =>
                                \/ status[o] \in {"queued", "cancelled", "failed"}
                                \/ journal[o] \in {"cancelled", "failed"}
                          /\ opStream[o] = stream' =>
                                opStream[o] = stream /\ (journal[o] # "none" => journal'[o] # "none")
    PROVE  Plain'
<1> USE DEF Plain
<1>1. \A o \in Ops : Framed(o)' => Framed(o)
  <2> SUFFICES ASSUME NEW o \in Ops, Framed(o)' PROVE Framed(o)
    OBVIOUS
  <2>1. CASE \E i \in 1..Len(down') : down'[i] = o
    <3>1. PICK i \in 1..Len(down') : down'[i] = o
      BY <2>1
    <3>2. PICK k \in 1..Len(down) : down[k] = o
      BY <3>1
    <3> QED
      BY <3>2 DEF Framed
  <2>2. CASE \E d \in Devices : \E i \in 1..Len(queues'[d]) : queues'[d][i] = o
    <3>1. PICK d \in Devices : \E i \in 1..Len(queues'[d]) : queues'[d][i] = o
      BY <2>2
    <3>2. PICK i \in 1..Len(queues'[d]) : queues'[d][i] = o
      BY <3>1
    <3>3. PICK k \in 1..Len(queues[d]) : queues[d][k] = o
      BY <3>2
    <3> QED
      BY <3>3 DEF Framed
  <2> QED
    BY <2>1, <2>2 DEF Framed
<1>2. sending \in Ops \cup {None} /\ None \notin Ops
  BY OperationsAssumption DEF IInv, Types
<1>3. \A o \in Ops : Offered(o)' => Offered(o)
  BY <1>1, <1>2 DEF Offered
<1>4. Listed'
  BY DEF Listed
<1>5. Fresh'
  <2>1. \A o \in Ops : Offered(o)' => status'[o] \notin {"none", "queued"}
    BY <1>3 DEF Fresh
  <2>2. \A i \in 1..Len(log') : status'[log'[i].op] \notin {"none", "queued", "cancelled", "failed"}
    BY LogOps DEF Fresh, Truth, Untouched
  <2>3. \A o \in Ops :
            Offered(o)' /\ status'[o] \in {"cancelled", "failed"} /\ opStream'[o] = stream'
              => journal'[o] # "none"
    BY <1>3 DEF Fresh
  <2> QED
    BY <2>1, <2>2, <2>3 DEF Fresh
<1>6. \A p, o : Ahead(p, o)' <=> Ahead(p, o)
  BY DEF Ahead
<1>7. Routed'
  <2>1. \A d \in Devices : \A i \in 1..Len(queues[d]) : DeviceOf[queues[d][i]] = d
    BY DEF Ordered, Routed
  <2>2. ASSUME NEW d \in Devices, NEW i \in 1..Len(queues'[d])
        PROVE  DeviceOf[queues'[d][i]] = d
    <3>1. PICK k \in 1..Len(queues[d]) : queues'[d][i] = queues[d][k]
      OBVIOUS
    <3> QED
      BY <2>1, <3>1
  <2> QED
    BY <2>2 DEF Routed
<1>8. RanFirst'
  <2>1. \A i, j \in 1..Len(log') : i < j => Ahead(log'[i].op, log'[j].op)
    BY DEF Ordered, RanFirst
  <2>2. ASSUME NEW k \in 1..Len(log'), NEW d \in Devices, NEW i \in 1..Len(queues'[d])
        PROVE  (d \in running' /\ i = 1) \/ Ahead(log'[k].op, queues'[d][i])
    <3>1. PICK x \in 1..Len(queues[d]) :
             x = i + b[d] /\ queues'[d][i] = queues[d][x] /\ (d \in running /\ x = 1 => d \in running' /\ i = 1)
      OBVIOUS
    <3>2. (d \in running /\ x = 1) \/ Ahead(log[k].op, queues[d][x])
      BY DEF Ordered, RanFirst
    <3> QED
      BY <3>1, <3>2
  <2>3. ASSUME NEW k \in 1..Len(log'), NEW j \in 1..Len(down') PROVE Ahead(log'[k].op, down'[j])
    <3>1. PICK x \in 1..Len(down) : down'[j] = down[x]
      OBVIOUS
    <3>2. Ahead(log[k].op, down[x])
      BY DEF Ordered, RanFirst
    <3> QED
      BY <3>1, <3>2
  <2> QED
    BY <1>6, <2>1, <2>2, <2>3 DEF RanFirst
<1>9. QueueThenDown'
  <2>1. ASSUME NEW d \in Devices, NEW i \in 1..Len(queues'[d]), NEW j \in 1..Len(queues'[d]), i < j
        PROVE  Ahead(queues'[d][i], queues'[d][j])
    <3>1. PICK x \in 1..Len(queues[d]), y \in 1..Len(queues[d]) :
             x < y /\ queues'[d][i] = queues[d][x] /\ queues'[d][j] = queues[d][y]
      <4>1. i + b[d] < j + b[d]
        BY <2>1
      <4> QED
        BY <4>1
    <3>2. Ahead(queues[d][x], queues[d][y])
      BY <3>1 DEF Ordered, QueueThenDown
    <3> QED
      BY <3>1, <3>2
  <2>2. ASSUME NEW d \in Devices, NEW i \in 1..Len(queues'[d]), NEW j \in 1..Len(down')
        PROVE  Ahead(queues'[d][i], down'[j])
    <3>1. PICK x \in 1..Len(queues[d]), y \in 1..Len(down) :
             queues'[d][i] = queues[d][x] /\ down'[j] = down[y]
      OBVIOUS
    <3>2. Ahead(queues[d][x], down[y])
      BY <3>1 DEF Ordered, QueueThenDown
    <3> QED
      BY <3>1, <3>2
  <2>3. ASSUME NEW i \in 1..Len(down'), NEW j \in 1..Len(down'), i < j
        PROVE  Ahead(down'[i], down'[j])
    <3>1. PICK x \in 1..Len(down), y \in 1..Len(down) :
             x < y /\ down'[i] = down[x] /\ down'[j] = down[y]
      <4>1. i + a < j + a
        BY <2>3
      <4> QED
        BY <4>1
    <3>2. Ahead(down[x], down[y])
      BY <3>1 DEF Ordered, QueueThenDown
    <3> QED
      BY <3>1, <3>2
  <2> QED
    BY <1>6, <2>1, <2>2, <2>3 DEF QueueThenDown
<1>10. SendingNext'
  <2>1. sending' # None => sending' = sending
    OBVIOUS
  <2> QED
    BY <1>1, <1>6, <2>1 DEF Ordered, SendingNext
<1>11. QueuedLast'
  BY <1>3, <1>6 DEF Ordered, QueuedLast
<1> QED
  BY <1>4, <1>5, <1>7, <1>8, <1>9, <1>10, <1>11 DEF Ordered

(* Rows close and frames stay.                                             *)
LEMMA TablePlain ==
    ASSUME IInv, Truth, Plain, sending' \in {sending, None},
           UNCHANGED <<created, opStream, log, down, queues, running, stream, journal>>,
           \A o \in Ops : /\ status'[o] = "none" <=> status[o] = "none"
                          /\ status'[o] = "queued" => status[o] = "queued"
                          /\ status'[o] \in {"cancelled", "failed"} =>
                                \/ status[o] \in {"queued", "cancelled", "failed"}
                                \/ journal[o] \in {"cancelled", "failed"}
    PROVE  Plain'
<1> DEFINE b == [d \in Devices |-> 0]
<1>1. b \in [Devices -> Nat] /\ 0 \in Nat /\ \A d \in Devices : b[d] = 0
  OBVIOUS
<1> HIDE DEF b
<1>2. \A i \in 1..Len(down') : i + 0 \in 1..Len(down) /\ down'[i] = down[i + 0]
  <2>1. \A i \in 1..Len(down) : i + 0 = i
    OBVIOUS
  <2> QED
    BY <2>1
<1>3. \A d \in Devices : \A i \in 1..Len(queues'[d]) :
          /\ i + b[d] \in 1..Len(queues[d]) /\ queues'[d][i] = queues[d][i + b[d]]
          /\ d \in running /\ i + b[d] = 1 => d \in running' /\ i = 1
  <2>1. \A d \in Devices : \A i \in 1..Len(queues[d]) : i + b[d] = i
    BY <1>1
  <2> QED
    BY <2>1
<1> QED
  BY <1>1, <1>2, <1>3, LineKept

(* Frames leave and rows stay.                                             *)
LEMMA FramesPlain ==
    ASSUME IInv, Truth, Plain, NEW a \in Nat, NEW b \in [Devices -> Nat],
           UNCHANGED <<created, opStream, log, status, sending, stream>>,
           \A i \in 1..Len(down') : i + a \in 1..Len(down) /\ down'[i] = down[i + a],
           \A d \in Devices : \A i \in 1..Len(queues'[d]) :
               /\ i + b[d] \in 1..Len(queues[d]) /\ queues'[d][i] = queues[d][i + b[d]]
               /\ d \in running /\ i + b[d] = 1 => d \in running' /\ i = 1,
           \A o \in Ops : journal[o] # "none" => journal'[o] # "none"
    PROVE  Plain'
<1>1. \A o \in Ops : /\ status'[o] = "none" <=> status[o] = "none"
                     /\ status'[o] = "queued" => status[o] = "queued"
                     /\ status'[o] \in {"cancelled", "failed"} =>
                           \/ status[o] \in {"queued", "cancelled", "failed"}
                           \/ journal[o] \in {"cancelled", "failed"}
                     /\ opStream[o] = stream' =>
                           opStream[o] = stream /\ (journal[o] # "none" => journal'[o] # "none")
  OBVIOUS
<1> QED
  BY <1>1, LineKept

(* Closing rows: cancelled is only what was queued.                        *)
LEMMA ClosePlain ==
    ASSUME IInv, Truth, Plain, NEW o \in Ops,
           \/ cancel_operation(o) \/ deadline(o) \/ expire_operations
           \/ unregister \/ hub_restart
    PROVE  Plain'
<1>1. UNCHANGED <<created, opStream, log, down, queues, running, stream, journal>>
  BY DEF cancel_operation, deadline, expire_operations, unregister, hub_restart, rowVars,
         linkVars, runVars, hwVars
<1>2. sending' \in {sending, None}
  BY DEF cancel_operation, deadline, expire_operations, unregister, hub_restart
<1>3. status \in [Ops -> Statuses]
  BY DEF IInv, Types
<1>4. \A x \in Ops : /\ status'[x] = "none" <=> status[x] = "none"
                     /\ status'[x] = "queued" => status[x] = "queued"
                     /\ status'[x] \in {"cancelled", "failed"} =>
                           status[x] \in {"queued", "cancelled", "failed"}
  <2>1. CASE cancel_operation(o) \/ deadline(o)
    BY <1>3, <2>1 DEF cancel_operation, deadline
  <2>2. CASE expire_operations
    BY <1>3, <2>2 DEF expire_operations, Expired
  <2>3. CASE unregister \/ hub_restart
    <3>1. PICK S : status' = Settle(S, "running", "unknown")
      BY <2>3 DEF unregister, hub_restart
    <3> QED
      BY <1>3, <3>1 DEF Settle
  <2> QED
    BY <2>1, <2>2, <2>3
<1> QED
  BY <1>1, <1>2, <1>4, TablePlain

(* An event is applied: cancelled or failed is what the journal says.      *)
LEMMA ApplyPlain == ASSUME IInv, Truth, Plain, apply_operation_result PROVE Plain'
<1> DEFINE r == Head(results)
<1>1. /\ results # <<>>
      /\ UNCHANGED <<created, opStream, log, down, queues, running, stream, journal, sending>>
  BY DEF apply_operation_result, linkVars, hwVars
<1>2. results \in Seq(Events) /\ status \in [Ops -> Statuses]
  BY DEF IInv, Types
<1>3. r \in Events /\ r = results[1] /\ 1 \in 1..Len(results)
  BY <1>1, <1>2, TakeFacts
<1> HIDE DEF r
<1>4. \/ status' = status
      \/ /\ r.kind = "cmd_result" /\ status[r.op] \in {"running", "unknown"}
         /\ status' = [status EXCEPT ![r.op] = r.verdict]
  BY DEF apply_operation_result, Accepts, r
<1>5. r.kind = "cmd_result" =>
          r.op \in Ops /\ r.verdict \in Verdicts /\ journal[r.op] = r.verdict
  BY <1>3 DEF Events, Truth, Recalled
<1>6. \A x \in Ops : /\ status'[x] = "none" <=> status[x] = "none"
                     /\ status'[x] = "queued" => status[x] = "queued"
                     /\ status'[x] \in {"cancelled", "failed"} =>
                           \/ status[x] \in {"queued", "cancelled", "failed"}
                           \/ journal[x] \in {"cancelled", "failed"}
  BY <1>2, <1>4, <1>5 DEF Verdicts
<1> QED
  BY <1>1, <1>6, TablePlain

(* A row is claimed: it was the oldest of its module.                      *)
LEMMA ClaimPlain == ASSUME IInv, Plain, NEW o \in Ops, claim_operation(o) PROVE Plain'
<1> USE DEF Plain
<1>1. /\ sending = None /\ sending' = o /\ status[o] = "queued"
      /\ status' = [status EXCEPT ![o] = "running"] /\ OldestQueued(o)
      /\ UNCHANGED <<created, opStream, log, down, queues, running, stream, journal>>
  BY DEF claim_operation, rowVars, linkVars, runVars, hwVars
<1>2. status \in [Ops -> Statuses] /\ None \notin Ops
  BY OperationsAssumption DEF IInv, Types
<1>3. status'[o] = "running" /\ \A x \in Ops : x # o => status'[x] = status[x]
  BY <1>1, <1>2
<1>4. \A x : Framed(x)' <=> Framed(x)
  BY <1>1 DEF Framed
<1>5. \A x \in Ops : Offered(x)' => x = o \/ Offered(x)
  BY <1>1, <1>4 DEF Offered
<1>6. \A p, x : Ahead(p, x)' <=> Ahead(p, x)
  BY <1>1 DEF Ahead
<1>7. Listed'
  BY <1>1, <1>3 DEF Listed
<1>8. Fresh'
  <2>1. \A i \in 1..Len(log) : log[i].op \in Ops /\ log[i].op # o
    BY <1>1, LogOps DEF Fresh
  <2> QED
    BY <1>1, <1>3, <1>5, <2>1 DEF Fresh
<1>9. Routed' /\ RanFirst' /\ QueueThenDown'
  BY <1>1, <1>6 DEF Ordered, Routed, RanFirst, QueueThenDown
<1>10. SendingNext'
  <2>1. /\ \A k \in 1..Len(log) : Ahead(log[k].op, o)
        /\ \A p \in Ops : Offered(p) => Ahead(p, o)
    BY <1>1 DEF Ordered, QueuedLast
  <2> QED
    BY <1>1, <1>4, <1>6, <2>1 DEF SendingNext, Offered
<1>11. QueuedLast'
  <2> SUFFICES ASSUME NEW q \in Ops, status'[q] = "queued"
               PROVE  /\ \A k \in 1..Len(log) : Ahead(log[k].op, q)
                      /\ \A p \in Ops : Offered(p)' => Ahead(p, q)
    BY <1>1, <1>6 DEF QueuedLast
  <2>1. q # o /\ status[q] = "queued"
    BY <1>3
  <2>2. /\ \A k \in 1..Len(log) : Ahead(log[k].op, q)
        /\ \A p \in Ops : Offered(p) => Ahead(p, q)
    BY <2>1 DEF Ordered, QueuedLast
  <2>3. Ahead(o, q)
    <3> SUFFICES ASSUME DeviceOf[o] = DeviceOf[q]
                 PROVE  \E m, n \in 1..Len(created) : m < n /\ created[m] = o /\ created[n] = q
      BY DEF Ahead
    <3>1. PICK m \in 1..Len(created) : created[m] = o
      BY <1>1 DEF Listed
    <3>2. PICK n \in 1..Len(created) : created[n] = q
      BY <2>1 DEF Listed
    <3>3. ~(n < m)
      BY <1>1, <2>1, <3>1, <3>2 DEF OldestQueued
    <3>4. m # n
      BY <2>1, <3>1, <3>2
    <3>5. m < n
      BY <3>3, <3>4
    <3> QED
      BY <3>1, <3>2, <3>5
  <2> QED
    BY <1>5, <2>2, <2>3
<1> QED
  BY <1>7, <1>8, <1>9, <1>10, <1>11 DEF Ordered

(* The claimed frame is written behind all others, or lost.                *)
LEMMA DispatchPlain ==
    ASSUME IInv, Truth, Plain, dispatch_send \/ dispatch_failed PROVE Plain'
<1> USE DEF Plain
<1>1. /\ sending # None /\ sending' = None
      /\ UNCHANGED <<created, opStream, log, queues, running, stream, journal>>
  BY DEF dispatch_send, dispatch_failed, rowVars, linkVars, runVars, hwVars
<1>2. sending \in Ops /\ status \in [Ops -> Statuses] /\ down \in Seq(Ops)
  BY <1>1 DEF IInv, Types
<1>3. \A x \in Ops : /\ status'[x] = "none" <=> status[x] = "none"
                     /\ status'[x] = "queued" => status[x] = "queued"
                     /\ status'[x] \in {"cancelled", "failed"} => status[x] = status'[x]
  <2>1. CASE dispatch_send
    BY <2>1 DEF dispatch_send
  <2>2. CASE dispatch_failed
    BY <1>2, <2>2 DEF dispatch_failed, Settle
  <2> QED
    BY <2>1, <2>2
<1>4. down' = down \/ down' = Append(down, sending)
  BY DEF dispatch_send, dispatch_failed
<1>5. CASE down' = down
  BY <1>1, <1>3, <1>5, TablePlain
<1>6. CASE down' = Append(down, sending)
  <2>1. /\ Len(down) \in Nat /\ Len(down') = Len(down) + 1
        /\ down'[Len(down) + 1] = sending /\ \A i \in 1..Len(down) : down'[i] = down[i]
    BY <1>2, <1>6, PutFacts
  <2>2. \A i \in 1..Len(down') : \/ i \in 1..Len(down) /\ down'[i] = down[i]
                                 \/ i = Len(down) + 1 /\ down'[i] = sending
    BY <2>1
  <2>3. \A x : Framed(x)' => Framed(x) \/ x = sending
    BY <1>1, <2>2 DEF Framed
  <2>4. \A x \in Ops : Offered(x)' => Offered(x)
    BY <1>1, <1>2, <2>3, OperationsAssumption DEF Offered
  <2>5. \A p, x : Ahead(p, x)' <=> Ahead(p, x)
    BY <1>1 DEF Ahead
  <2>6. Listed' /\ Fresh'
    <3>1. Listed'
      BY <1>1, <1>3 DEF Listed
    <3>2. Fresh'
      BY <1>1, <1>3, <2>4, LogOps DEF Fresh
    <3> QED
      BY <3>1, <3>2
  <2>7. Routed' /\ SendingNext' /\ QueuedLast'
    <3>1. QueuedLast'
      BY <1>1, <1>3, <2>4, <2>5 DEF Ordered, QueuedLast
    <3> QED
      BY <1>1, <3>1 DEF Ordered, Routed, SendingNext
  <2>8. /\ \A k \in 1..Len(log) : Ahead(log[k].op, sending)
        /\ \A p \in Ops : Framed(p) => Ahead(p, sending)
    BY <1>1 DEF Ordered, SendingNext
  <2>9. RanFirst'
    BY <1>1, <2>2, <2>5, <2>8 DEF Ordered, RanFirst
  <2>10. QueueThenDown'
    <3>1. \A d \in Devices : \A i \in 1..Len(queues[d]) : Ahead(queues[d][i], sending)
      BY <2>8, FrameFacts DEF Framed
    <3>2. \A i \in 1..Len(down) : Ahead(down[i], sending)
      BY <2>8, FrameFacts DEF Framed
    <3>3. \A d \in Devices : \A i, j \in 1..Len(queues'[d]) :
              i < j => Ahead(queues'[d][i], queues'[d][j])
      BY <1>1 DEF Ordered, QueueThenDown
    <3>4. \A d \in Devices : \A i \in 1..Len(queues'[d]) : \A j \in 1..Len(down') :
              Ahead(queues'[d][i], down'[j])
      BY <1>1, <2>2, <3>1 DEF Ordered, QueueThenDown
    <3>5. \A i, j \in 1..Len(down') : i < j => Ahead(down'[i], down'[j])
      <4> SUFFICES ASSUME NEW i \in 1..Len(down'), NEW j \in 1..Len(down'), i < j
                   PROVE  Ahead(down'[i], down'[j])
        OBVIOUS
      <4>1. i \in 1..Len(down) /\ down'[i] = down[i]
        BY <2>1, <2>2
      <4>2. CASE j \in 1..Len(down)
        BY <2>1, <4>1, <4>2 DEF Ordered, QueueThenDown
      <4>3. CASE j = Len(down) + 1
        BY <2>1, <3>2, <4>1, <4>3
      <4> QED
        BY <2>2, <4>2, <4>3
    <3> QED
      BY <2>5, <3>3, <3>4, <3>5 DEF QueueThenDown
  <2> QED
    BY <2>6, <2>7, <2>9, <2>10 DEF Ordered
<1> QED
  BY <1>4, <1>5, <1>6

(* A new operation is the last of its module's line.                       *)
LEMMA SubmitOperationPlain ==
    ASSUME IInv, Truth, Plain, NEW o \in Ops, submit_operation(o) PROVE Plain'
<1> USE DEF Plain
<1>1. /\ status[o] = "none" /\ status' = [status EXCEPT ![o] = "queued"]
      /\ opStream' = [opStream EXCEPT ![o] = connStream] /\ created' = Append(created, o)
      /\ UNCHANGED <<sending, log, down, queues, running, stream, journal>>
  BY DEF submit_operation, linkVars, runVars, hwVars
<1>2. /\ status \in [Ops -> Statuses] /\ opStream \in [Ops -> Nat] /\ created \in Seq(Ops)
  BY DEF IInv, Types, Listed
<1>3. status'[o] = "queued" /\ \A x \in Ops : x # o => status'[x] = status[x] /\ opStream'[x] = opStream[x]
  BY <1>1, <1>2
<1>4. /\ created' \in Seq(Ops) /\ Len(created) \in Nat /\ Len(created') = Len(created) + 1
      /\ created'[Len(created) + 1] = o
      /\ \A m \in 1..Len(created) : created'[m] = created[m]
  BY <1>1, <1>2, PutFacts
<1>5. \A m \in 1..Len(created') : m \in 1..Len(created) \/ m = Len(created) + 1
  BY <1>4
<1>6. \A m \in 1..Len(created) : created[m] \in Ops /\ created[m] # o
  BY <1>1, <1>2, SeqFacts DEF Listed
<1>7. \A x : (Framed(x)' <=> Framed(x)) /\ (Offered(x)' <=> Offered(x))
  BY <1>1 DEF Framed, Offered
<1>8. 1..Len(created) \subseteq 1..Len(created') /\ Len(created) + 1 \in 1..Len(created')
  BY <1>4
<1>9. \A p, x : Ahead(p, x) => Ahead(p, x)'
  BY <1>4, <1>8 DEF Ahead
<1>10. Listed'
  <2>1. \A m, n \in 1..Len(created') : created'[m] = created'[n] => m = n
    BY <1>4, <1>5, <1>6 DEF Listed
  <2>2. \A x \in Ops : status'[x] # "none" <=> \E m \in 1..Len(created') : created'[m] = x
    <3> SUFFICES ASSUME NEW x \in Ops
                 PROVE  status'[x] # "none" <=> \E m \in 1..Len(created') : created'[m] = x
      OBVIOUS
    <3>1. CASE x = o
      BY <1>3, <1>4, <1>8, <3>1
    <3>2. CASE x # o
      <4>1. (\E m \in 1..Len(created') : created'[m] = x) <=> (\E m \in 1..Len(created) : created[m] = x)
        BY <1>4, <1>5, <1>8, <3>2
      <4> QED
        BY <1>3, <3>2, <4>1 DEF Listed
    <3> QED
      BY <3>1, <3>2
  <2> QED
    BY <1>4, <2>1, <2>2 DEF Listed
<1>11. /\ ~Offered(o) /\ \A i \in 1..Len(log) : log[i].op \in Ops /\ log[i].op # o
  BY <1>1, LogOps DEF Fresh
<1>12. Fresh'
  BY <1>1, <1>3, <1>7, <1>11 DEF Fresh
<1>13. Routed' /\ RanFirst' /\ QueueThenDown' /\ SendingNext'
  BY <1>1, <1>7, <1>9 DEF Ordered, Routed, RanFirst, QueueThenDown, SendingNext
<1>14. \A p \in Ops : status[p] # "none" => Ahead(p, o)'
  <2> SUFFICES ASSUME NEW p \in Ops, status[p] # "none"
               PROVE  \E m, n \in 1..Len(created') : m < n /\ created'[m] = p /\ created'[n] = o
    BY DEF Ahead
  <2>1. PICK m \in 1..Len(created) : created[m] = p
    BY DEF Listed
  <2>2. m < Len(created) + 1 /\ m \in 1..Len(created')
    BY <1>4, <1>8
  <2> QED
    BY <1>4, <1>8, <2>1, <2>2
<1>15. QueuedLast'
  <2> SUFFICES ASSUME NEW q \in Ops, status'[q] = "queued"
               PROVE  /\ \A k \in 1..Len(log) : Ahead(log[k].op, q)'
                      /\ \A p \in Ops : Offered(p) => Ahead(p, q)'
    BY <1>1, <1>7 DEF QueuedLast, Ahead
  <2>1. CASE q = o
    <3>1. /\ \A k \in 1..Len(log) : status[log[k].op] # "none"
          /\ \A p \in Ops : Offered(p) => status[p] # "none"
      BY DEF Fresh
    <3> QED
      BY <1>1, <1>11, <1>14, <2>1, <3>1
  <2>2. CASE q # o
    <3>1. /\ \A k \in 1..Len(log) : Ahead(log[k].op, q)
          /\ \A p \in Ops : Offered(p) => Ahead(p, q)
      BY <1>3, <2>2 DEF Ordered, QueuedLast
    <3> QED
      BY <1>1, <1>9, <3>1
  <2> QED
    BY <2>1, <2>2
<1> QED
  BY <1>10, <1>12, <1>13, <1>15 DEF Ordered

(* A frame goes from the wire to the end of its module's queue, or is      *)
(* refused.                                                                *)
LEMMA SubmitPlain == ASSUME IInv, Truth, Plain, submit PROVE Plain'
<1> USE DEF Plain
<1> DEFINE o == Head(down)
           e == DeviceOf[o]
<1>1. /\ down # <<>> /\ down' = Tail(down)
      /\ UNCHANGED <<created, opStream, log, status, sending, stream, running>>
  BY DEF submit, hubVars, rowVars, linkVars, hwVars
<1>2. \/ reject_command({o}) /\ queues' = queues
      \/ queues' = [queues EXCEPT ![e] = Append(@, o)] /\ UNCHANGED <<journal, results>>
  BY DEF submit
<1>3. down \in Seq(Ops) /\ queues \in [Devices -> Seq(Ops)]
  BY DEF IInv, Types
<1>4. /\ o \in Ops /\ Len(down) \in Nat /\ Len(down) >= 1 /\ o = down[1]
      /\ Len(down') = Len(down) - 1 /\ \A i \in 1..Len(down') : down'[i] = down[i + 1]
  BY <1>1, <1>3, TakeFacts
<1>5. /\ \A i \in 1..Len(down') : i + 1 \in 1..Len(down) /\ down'[i] = down[i + 1]
      /\ 1 \in 1..Len(down)
  BY <1>4
<1>6. e \in Devices
  BY <1>4, OperationsAssumption
<1> HIDE DEF o
<1>7. CASE reject_command({o}) /\ queues' = queues
  <2> DEFINE b == [d \in Devices |-> 0]
  <2>1. b \in [Devices -> Nat] /\ 1 \in Nat /\ \A d \in Devices : b[d] = 0
    OBVIOUS
  <2> HIDE DEF b
  <2>2. \A d \in Devices : \A i \in 1..Len(queues'[d]) :
            /\ i + b[d] \in 1..Len(queues[d]) /\ queues'[d][i] = queues[d][i + b[d]]
            /\ d \in running /\ i + b[d] = 1 => d \in running' /\ i = 1
    <3>1. \A d \in Devices : \A i \in 1..Len(queues[d]) : i + b[d] = i
      BY <2>1
    <3> QED
      BY <1>1, <1>7, <3>1
  <2>3. \A x \in Ops : journal[x] # "none" => journal'[x] # "none"
    <3>1. finish_command({x \in {o} : journal[x] # "running"}, "cancelled")
      BY <1>7 DEF reject_command
    <3>2. {x \in {o} : journal[x] # "running"} \in SUBSET Ops /\ "cancelled" \in Verdicts
      BY <1>4, VerdictFacts
    <3> QED
      BY <3>1, <3>2, FinishType DEF IInv
  <2> QED
    BY <1>1, <1>5, <2>1, <2>2, <2>3, FramesPlain
<1>8. CASE queues' = [queues EXCEPT ![e] = Append(@, o)] /\ UNCHANGED <<journal, results>>
  <2> DEFINE n == Len(queues[e])
  <2>1. /\ n \in Nat /\ Len(queues'[e]) = n + 1
        /\ queues'[e][n + 1] = o /\ \A i \in 1..n : queues'[e][i] = queues[e][i]
        /\ \A d \in Devices : d # e => queues'[d] = queues[d]
    <3>1. queues[e] \in Seq(Ops) /\ queues'[e] = Append(queues[e], o)
      BY <1>3, <1>6, <1>8
    <3>2. \A d \in Devices : d # e => queues'[d] = queues[d]
      BY <1>3, <1>6, <1>8
    <3> QED
      BY <1>4, <3>1, <3>2, PutFacts
  <2>2. \A d \in Devices : \A i \in 1..Len(queues'[d]) :
            \/ i \in 1..Len(queues[d]) /\ queues'[d][i] = queues[d][i]
            \/ d = e /\ i = n + 1 /\ queues'[d][i] = o
    BY <2>1
  <2> HIDE DEF n
  <2>3. \A x \in Ops : Framed(x)' => Framed(x)
    <3>1. Framed(o)
      BY <1>4, <1>5 DEF Framed
    <3>2. ASSUME NEW x \in Ops, NEW i \in 1..Len(down'), down'[i] = x PROVE Framed(x)
      <4>1. PICK k \in 1..Len(down) : down[k] = x
        BY <1>5, <3>2
      <4> QED
        BY <4>1 DEF Framed
    <3>3. ASSUME NEW x \in Ops, NEW d \in Devices, NEW i \in 1..Len(queues'[d]), queues'[d][i] = x
          PROVE  Framed(x)
      BY <2>2, <3>1, <3>3 DEF Framed
    <3> QED
      BY <3>2, <3>3 DEF Framed
  <2>4. \A x \in Ops : Offered(x)' => Offered(x)
    BY <1>1, <2>3 DEF Offered
  <2>5. \A p, x : Ahead(p, x)' <=> Ahead(p, x)
    BY <1>1 DEF Ahead
  <2>6. Listed' /\ Fresh'
    BY <1>1, <1>8, <2>4 DEF Listed, Fresh
  <2>7. Routed'
    BY <2>2 DEF Ordered, Routed
  <2>8. SendingNext' /\ QueuedLast'
    BY <1>1, <2>3, <2>4, <2>5 DEF Ordered, SendingNext, QueuedLast
  <2>9. RanFirst'
    <3>1. \A i, j \in 1..Len(log') : i < j => Ahead(log'[i].op, log'[j].op)
      BY <1>1 DEF Ordered, RanFirst
    <3>2. \A k \in 1..Len(log') : \A j \in 1..Len(down') : Ahead(log'[k].op, down'[j])
      BY <1>1, <1>5 DEF Ordered, RanFirst
    <3>3. \A k \in 1..Len(log') : Ahead(log'[k].op, o)
      BY <1>1, <1>4, <1>5 DEF Ordered, RanFirst
    <3>4. \A k \in 1..Len(log') : \A d \in Devices : \A i \in 1..Len(queues'[d]) :
              (d \in running' /\ i = 1) \/ Ahead(log'[k].op, queues'[d][i])
      BY <1>1, <2>2, <3>3 DEF Ordered, RanFirst
    <3> QED
      BY <2>5, <3>1, <3>2, <3>4 DEF RanFirst
  <2>10. QueueThenDown'
    <3>1. \A i \in 1..Len(down') : Ahead(o, down'[i])
      <4>1. \A i \in 1..Len(down') : 1 < i + 1
        BY <1>4
      <4> QED
        BY <1>4, <1>5, <4>1 DEF Ordered, QueueThenDown
    <3>2. \A i, j \in 1..Len(down') : i < j => Ahead(down'[i], down'[j])
      <4>1. \A i, j \in 1..Len(down') : i < j => i + 1 < j + 1
        BY <1>4
      <4> QED
        BY <1>5, <4>1 DEF Ordered, QueueThenDown
    <3>3. \A d \in Devices : \A i \in 1..Len(queues[d]) : Ahead(queues[d][i], o)
      BY <1>4, <1>5 DEF Ordered, QueueThenDown
    <3>4. \A d \in Devices : \A i \in 1..Len(queues[d]) : \A j \in 1..Len(down') :
              Ahead(queues[d][i], down'[j])
      BY <1>5 DEF Ordered, QueueThenDown
    <3>5. \A d \in Devices : \A i \in 1..Len(queues'[d]) : \A j \in 1..Len(down') :
              Ahead(queues'[d][i], down'[j])
      BY <2>2, <3>1, <3>4
    <3>6. \A d \in Devices : \A i, j \in 1..Len(queues'[d]) :
              i < j => Ahead(queues'[d][i], queues'[d][j])
      <4> SUFFICES ASSUME NEW d \in Devices, NEW i \in 1..Len(queues'[d]),
                          NEW j \in 1..Len(queues'[d]), i < j
                   PROVE  Ahead(queues'[d][i], queues'[d][j])
        OBVIOUS
      <4>1. i \in 1..Len(queues[d]) /\ queues'[d][i] = queues[d][i]
        <5>1. CASE d # e
          BY <2>1, <5>1
        <5>2. CASE d = e
          <6>1. i < n + 1
            BY <2>1, <5>2
          <6> QED
            BY <2>1, <2>2, <5>2, <6>1
        <5> QED
          BY <5>1, <5>2
      <4>2. CASE j \in 1..Len(queues[d]) /\ queues'[d][j] = queues[d][j]
        BY <4>1, <4>2 DEF Ordered, QueueThenDown
      <4>3. CASE queues'[d][j] = o
        BY <3>3, <4>1, <4>3
      <4> QED
        BY <2>2, <4>2, <4>3
    <3> QED
      BY <2>5, <3>2, <3>5, <3>6 DEF QueueThenDown
  <2> QED
    BY <2>6, <2>7, <2>8, <2>9, <2>10 DEF Ordered
<1> QED
  BY <1>2, <1>7, <1>8

(* The head frame of a module's queue is taken off.                        *)
LEMMA TakenPlain ==
    ASSUME IInv, Truth, Plain, NEW d \in Devices, queues[d] # <<>>,
           queues' = [queues EXCEPT ![d] = Tail(@)], running' \in {running, running \ {d}},
           d \in running => d \notin running',
           UNCHANGED <<created, opStream, log, status, sending, stream, down>>,
           \A o \in Ops : journal[o] # "none" => journal'[o] # "none"
    PROVE  Plain'
<1> DEFINE b == [x \in Devices |-> IF x = d THEN 1 ELSE 0]
<1>1. b \in [Devices -> Nat] /\ 0 \in Nat /\ \A x \in Devices : b[x] = IF x = d THEN 1 ELSE 0
  OBVIOUS
<1> HIDE DEF b
<1>2. queues \in [Devices -> Seq(Ops)]
  BY DEF IInv, Types
<1>3. /\ Len(queues[d]) \in Nat /\ Len(queues'[d]) = Len(queues[d]) - 1
      /\ \A i \in 1..Len(queues'[d]) : queues'[d][i] = queues[d][i + 1]
      /\ \A x \in Devices : x # d => queues'[x] = queues[x]
  <2>1. queues[d] \in Seq(Ops) /\ queues'[d] = Tail(queues[d])
    BY <1>2
  <2>2. \A x \in Devices : x # d => queues'[x] = queues[x]
    BY <1>2
  <2>3. /\ Len(queues[d]) \in Nat /\ Len(Tail(queues[d])) = Len(queues[d]) - 1
        /\ \A i \in 1..Len(Tail(queues[d])) : Tail(queues[d])[i] = queues[d][i + 1]
    BY <2>1, TakeFacts
  <2> QED
    BY <2>1, <2>2, <2>3
<1>4. \A i \in 1..Len(down') : i + 0 \in 1..Len(down) /\ down'[i] = down[i + 0]
  <2>1. \A i \in 1..Len(down) : i + 0 = i
    OBVIOUS
  <2> QED
    BY <2>1
<1>5. ASSUME NEW x \in Devices, NEW i \in 1..Len(queues'[x])
      PROVE  /\ i + b[x] \in 1..Len(queues[x]) /\ queues'[x][i] = queues[x][i + b[x]]
             /\ x \in running /\ i + b[x] = 1 => x \in running' /\ i = 1
  <2>1. CASE x = d
    <3>1. b[x] = 1 /\ i + 1 \in 1..Len(queues[x]) /\ i + 1 # 1
      BY <1>1, <1>3, <2>1
    <3> QED
      BY <1>3, <2>1, <3>1
  <2>2. CASE x # d
    <3>1. b[x] = 0 /\ i + b[x] = i /\ queues'[x] = queues[x]
      BY <1>1, <1>3, <2>2
    <3>2. x \in running => x \in running'
      BY <2>2
    <3> QED
      BY <3>1, <3>2
  <2> QED
    BY <2>1, <2>2
<1> QED
  BY <1>1, <1>4, <1>5, FramesPlain

(* A frame ends before the hardware and leaves its queue.                  *)
LEMMA HandlePlain ==
    ASSUME IInv, Truth, Plain, NEW d \in Devices, NEW v \in {"cancelled", "failed"},
           handle_repeated(d) \/ handle_refused(d, v)
    PROVE  Plain'
<1>1. /\ queues[d] # <<>> /\ d \notin running /\ running' = running
      /\ queues' = [queues EXCEPT ![d] = Tail(@)]
      /\ UNCHANGED <<created, opStream, log, status, sending, stream, down>>
  BY DEF handle_repeated, handle_refused, hubVars, rowVars, linkVars, hwVars
<1>2. Head(queues[d]) \in Ops
  BY <1>1, HeadFacts
<1>3. \A o \in Ops : journal[o] # "none" => journal'[o] # "none"
  <2>1. CASE handle_repeated(d)
    <3> DEFINE S == {x \in {Head(queues[d])} : journal[x] # "running"}
    <3>1. finish_command(S, "cancelled") /\ S \in SUBSET Ops /\ "cancelled" \in Verdicts
      BY <1>2, <2>1, VerdictFacts DEF handle_repeated, reject_command
    <3> HIDE DEF S
    <3> QED
      BY <3>1, FinishType DEF IInv
  <2>2. CASE handle_refused(d, v)
    BY <1>2, <2>2 DEF handle_refused, IInv, Types
  <2> QED
    BY <2>1, <2>2
<1> QED
  BY <1>1, <1>3, TakenPlain

(* The hardware answered and the frame leaves its queue.                   *)
LEMMA FinishedPlain ==
    ASSUME IInv, Truth, Plain, NEW d \in Devices, NEW v \in {"succeeded", "unknown"},
           handle_finished(d, v)
    PROVE  Plain'
<1>1. /\ queues[d] # <<>> /\ running' = running \ {d}
      /\ queues' = [queues EXCEPT ![d] = Tail(@)] /\ finish_command({Head(queues[d])}, v)
      /\ UNCHANGED <<created, opStream, log, status, sending, stream, down>>
  BY DEF handle_finished, Outcome, IInv, Types, hubVars, rowVars, linkVars
<1>2. {Head(queues[d])} \in SUBSET Ops /\ v \in Verdicts
  BY <1>1, HeadFacts, VerdictFacts
<1>3. \A o \in Ops : journal[o] # "none" => journal'[o] # "none"
  BY <1>1, <1>2, FinishType DEF IInv
<1> QED
  BY <1>1, <1>3, TakenPlain

(* The hardware is called for the first frame of the line.                 *)
LEMMA StartedPlain == ASSUME IInv, Truth, Plain, NEW e \in Devices, handle_started(e) PROVE Plain'
<1> USE DEF Plain
<1> DEFINE o == Head(queues[e])
<1>1. /\ e \notin running /\ queues[e] # <<>> /\ journal[o] = "none"
      /\ journal' = [journal EXCEPT ![o] = "running"]
      /\ log' = Append(log, Call(o, e)) /\ running' = running \cup {e}
      /\ UNCHANGED <<created, opStream, status, sending, stream, down, queues>>
  BY DEF handle_started, MayStart, hubVars, rowVars, linkVars, Call
<1>2. o \in Ops /\ Bears(o) /\ Call(o, e) \in Calls /\ Call(o, e).op = o
  <2>1. o \in Ops /\ Bears(o)
    BY <1>1, HeadFacts
  <2> QED
    BY <2>1 DEF IInv, Types, Call, Calls
<1>3. o = queues[e][1] /\ 1 \in 1..Len(queues[e])
  <2>1. queues[e] \in Seq(Ops)
    BY FrameFacts
  <2> QED
    BY <1>1, <2>1, TakeFacts
<1> HIDE DEF o
<1>4. /\ Len(log) \in Nat /\ Len(log') = Len(log) + 1
      /\ log'[Len(log) + 1] = Call(o, e)
      /\ \A i \in 1..Len(log) : log'[i] = log[i]
  <2>1. log \in Seq(Calls) /\ Call(o, e) \in Calls
    BY <1>2 DEF IInv, Types
  <2> QED
    BY <1>1, <2>1, PutFacts
<1>5. \A i \in 1..Len(log') : \/ i \in 1..Len(log) /\ log'[i].op = log[i].op
                              \/ i = Len(log) + 1 /\ log'[i].op = o
  BY <1>2, <1>4
<1>6. \A x : (Framed(x)' <=> Framed(x)) /\ (Offered(x)' <=> Offered(x))
  BY <1>1 DEF Framed, Offered
<1>7. \A p, x : Ahead(p, x)' <=> Ahead(p, x)
  BY <1>1 DEF Ahead
<1>8. Framed(o) /\ DeviceOf[o] = e
  BY <1>3 DEF Framed, Ordered, Routed
<1>9. Listed'
  BY <1>1 DEF Listed
<1>10. Fresh'
  <2>1. status[o] \notin {"none", "queued", "cancelled", "failed"}
    BY <1>1, <1>2, <1>8 DEF Fresh, Offered, Bears
  <2>2. \A x \in Ops : journal[x] # "none" => journal'[x] # "none"
    BY <1>1, <1>2 DEF IInv, Types
  <2> QED
    BY <1>1, <1>5, <1>6, <2>1, <2>2 DEF Fresh
<1>11. Routed' /\ QueueThenDown'
  BY <1>1, <1>7 DEF Ordered, Routed, QueueThenDown
<1>12. SendingNext'
  <2>1. sending # None => Ahead(o, sending)
    BY <1>2, <1>8 DEF Ordered, SendingNext
  <2> QED
    BY <1>1, <1>5, <1>6, <1>7, <2>1 DEF Ordered, SendingNext
<1>13. QueuedLast'
  <2>1. \A q \in Ops : status[q] = "queued" => Ahead(o, q)
    BY <1>2, <1>8 DEF Ordered, QueuedLast, Offered
  <2> QED
    BY <1>1, <1>5, <1>6, <1>7, <2>1 DEF Ordered, QueuedLast
<1>14. RanFirst'
  <2>1. \A k \in 1..Len(log) : Ahead(log[k].op, o)
    BY <1>1, <1>3 DEF Ordered, RanFirst
  <2>2. \A i, j \in 1..Len(log') : i < j => Ahead(log'[i].op, log'[j].op)
    <3> SUFFICES ASSUME NEW i \in 1..Len(log'), NEW j \in 1..Len(log'), i < j
                 PROVE  Ahead(log'[i].op, log'[j].op)
      OBVIOUS
    <3>1. i \in 1..Len(log) /\ log'[i].op = log[i].op
      BY <1>4, <1>5
    <3>2. CASE j \in 1..Len(log) /\ log'[j].op = log[j].op
      BY <3>1, <3>2 DEF Ordered, RanFirst
    <3>3. CASE log'[j].op = o
      BY <2>1, <3>1, <3>3
    <3> QED
      BY <1>5, <3>2, <3>3
  <2>3. \A k \in 1..Len(log') : \A j \in 1..Len(down') : Ahead(log'[k].op, down'[j])
    <3>1. \A j \in 1..Len(down) : Ahead(o, down[j])
      BY <1>3 DEF Ordered, QueueThenDown
    <3> QED
      BY <1>1, <1>5, <3>1 DEF Ordered, RanFirst
  <2>4. \A k \in 1..Len(log') : \A d \in Devices : \A i \in 1..Len(queues'[d]) :
            (d \in running' /\ i = 1) \/ Ahead(log'[k].op, queues'[d][i])
    <3> SUFFICES ASSUME NEW k \in 1..Len(log'), NEW d \in Devices, NEW i \in 1..Len(queues[d])
                 PROVE  (d \in running' /\ i = 1) \/ Ahead(log'[k].op, queues[d][i])
      BY <1>1
    <3>1. CASE k \in 1..Len(log) /\ log'[k].op = log[k].op
      BY <1>1, <3>1 DEF Ordered, RanFirst
    <3>2. CASE log'[k].op = o
      <4>1. CASE d # e
        <5>1. DeviceOf[queues[d][i]] = d
          BY DEF Ordered, Routed
        <5> QED
          BY <1>8, <3>2, <4>1, <5>1 DEF Ahead
      <4>2. CASE d = e /\ i = 1
        BY <1>1, <4>2
      <4>3. CASE d = e /\ i # 1
        <5>1. 1 < i
          BY <4>3, FrameFacts
        <5> QED
          BY <1>3, <3>2, <4>3, <5>1 DEF Ordered, QueueThenDown
      <4> QED
        BY <4>1, <4>2, <4>3
    <3> QED
      BY <1>5, <3>1, <3>2
  <2> QED
    BY <1>7, <2>2, <2>3, <2>4 DEF RanFirst
<1> QED
  BY <1>9, <1>10, <1>11, <1>12, <1>13, <1>14 DEF Ordered

(* The SIM of a module changes: the line stands.                           *)
LEMMA ModulePlain ==
    ASSUME IInv, Truth, Plain, NEW d \in Devices, sim_swap(d) \/ _connect(d)
    PROVE  Plain'
<1>1. UNCHANGED <<created, opStream, log, down, queues, running, stream, journal, status, sending>>
  BY DEF sim_swap, _connect, hubVars, rowVars, linkVars, runVars
<1> QED
  BY <1>1, TablePlain

(* The link is lost: at most the frame that runs is left.                  *)
LEMMA LinkLostPlain == ASSUME IInv, Truth, Plain, link_lost PROVE Plain'
<1> DEFINE W == UNION {Waiting(d) : d \in Devices}
           S == {o \in W : journal[o] # "running"}
           keep(d) == IF d \in running THEN 1 ELSE 0
           b == [d \in Devices |-> 0]
<1>1. /\ down' = <<>> /\ finish_command(S, "cancelled") /\ running' = running
      /\ queues' = [d \in Devices |-> SubSeq(queues[d], 1, keep(d))]
      /\ UNCHANGED <<created, opStream, log, status, sending, stream>>
  BY DEF link_lost, reject_command, hubVars, rowVars, hwVars
<1>2. S \in SUBSET Ops /\ "cancelled" \in Verdicts
  BY WaitingFacts, VerdictFacts
<1>3. \A x \in Ops : journal[x] # "none" => journal'[x] # "none"
  BY <1>1, <1>2, FinishType DEF IInv
<1>4. ASSUME NEW d \in Devices
      PROVE  /\ Len(queues'[d]) = keep(d) /\ keep(d) \in Nat /\ keep(d) <= Len(queues[d])
             /\ Len(queues[d]) \in Nat
             /\ \A i \in 1..keep(d) : queues'[d][i] = queues[d][i]
  <2>1. d \in running => queues[d] # <<>>
    BY DEF IInv, Types
  <2>2. /\ queues[d] \in Seq(Ops) /\ Len(queues[d]) \in Nat
        /\ \A i \in 1..Len(queues[d]) : queues[d][i] \in Ops
    BY FrameFacts
  <2>3. d \in running => Len(queues[d]) >= 1
    BY <2>1, <2>2, TakeFacts
  <2>4. keep(d) \in Nat /\ keep(d) <= Len(queues[d])
    BY <2>2, <2>3
  <2>5. queues'[d] = SubSeq(queues[d], 1, keep(d))
    BY <1>1
  <2> HIDE DEF keep
  <2>6. \A i \in 1..keep(d) : queues[d][i] \in Ops
    BY <2>2, <2>4
  <2> QED
    BY <2>2, <2>4, <2>5, <2>6, FirstFacts
<1>5. b \in [Devices -> Nat] /\ 0 \in Nat /\ \A d \in Devices : b[d] = 0
  OBVIOUS
<1>6. Len(down') = 0
  BY <1>1
<1> HIDE DEF b, S, W, keep
<1>7. ASSUME NEW d \in Devices, NEW i \in 1..Len(queues'[d])
      PROVE  /\ i + b[d] \in 1..Len(queues[d]) /\ queues'[d][i] = queues[d][i + b[d]]
             /\ d \in running /\ i + b[d] = 1 => d \in running' /\ i = 1
  <2>1. i + b[d] = i /\ i \in 1..keep(d) /\ i \in 1..Len(queues[d])
    BY <1>4, <1>5
  <2> QED
    BY <1>1, <1>4, <2>1
<1>8. \A i \in 1..Len(down') : i + 0 \in 1..Len(down) /\ down'[i] = down[i + 0]
  BY <1>6
<1> QED
  BY <1>1, <1>3, <1>5, <1>7, <1>8, FramesPlain

(* Steps that empty the wire: with the queues (the agent ends, its store   *)
(* is replaced) or without (a new connection).                             *)
LEMMA EmptiedPlain ==
    ASSUME IInv, Truth, Plain, Len(down') = 0, UNCHANGED <<created, opStream, log, status, sending>>,
           \/ \A d \in Devices : Len(queues'[d]) = 0
           \/ UNCHANGED <<queues, running>>,
           \A o \in Ops : opStream[o] = stream' =>
               opStream[o] = stream /\ (journal[o] # "none" => journal'[o] # "none")
    PROVE  Plain'
<1> DEFINE b == [d \in Devices |-> 0]
<1>1. b \in [Devices -> Nat] /\ 0 \in Nat /\ \A d \in Devices : b[d] = 0
  OBVIOUS
<1> HIDE DEF b
<1>2. \A i \in 1..Len(down') : i + 0 \in 1..Len(down) /\ down'[i] = down[i + 0]
  OBVIOUS
<1>3. ASSUME NEW d \in Devices, NEW i \in 1..Len(queues'[d])
      PROVE  /\ i + b[d] \in 1..Len(queues[d]) /\ queues'[d][i] = queues[d][i + b[d]]
             /\ d \in running /\ i + b[d] = 1 => d \in running' /\ i = 1
  <2>1. UNCHANGED <<queues, running>>
    BY <1>3
  <2>2. i + b[d] = i
    BY <1>1
  <2> QED
    BY <2>1, <2>2
<1>4. \A o \in Ops : /\ status'[o] = "none" <=> status[o] = "none"
                     /\ status'[o] = "queued" => status[o] = "queued"
                     /\ status'[o] \in {"cancelled", "failed"} =>
                           \/ status[o] \in {"queued", "cancelled", "failed"}
                           \/ journal[o] \in {"cancelled", "failed"}
                     /\ opStream[o] = stream' =>
                           opStream[o] = stream /\ (journal[o] # "none" => journal'[o] # "none")
  OBVIOUS
<1> QED
  BY <1>1, <1>2, <1>3, <1>4, LineKept

(* The agent ends, its store is replaced, or a new connection is made.     *)
LEMMA EndPlain ==
    ASSUME IInv, Truth, Plain, agent_stop \/ agent_crash \/ rebuild_store \/ register
    PROVE  Plain'
<1>1. down' = <<>> /\ UNCHANGED <<created, opStream, log, status, sending>>
  BY DEF agent_stop, agent_crash, rebuild_store, register, Unread, hubVars, rowVars, hwVars
<1>2. Len(down') = 0
  BY <1>1
<1>3. journal \in [Ops -> Verdicts \cup {"none", "running"}] /\ "none" \notin Verdicts
  BY DEF IInv, Types, Verdicts
<1>4. CASE register
  <2>1. UNCHANGED <<queues, running, stream, journal>>
    BY <1>4 DEF register, runVars
  <2> QED
    BY <1>1, <1>2, <2>1, EmptiedPlain
<1>5. CASE rebuild_store
  <2>1. stream' = stream + 1 /\ queues' = [d \in Devices |-> <<>>]
    BY <1>5 DEF rebuild_store
  <2>2. \A d \in Devices : Len(queues'[d]) = 0
    BY <2>1
  <2>3. \A o \in Ops : opStream[o] # stream'
    <3>1. stream \in Nat /\ \A o \in Ops : opStream[o] \in Nat /\ opStream[o] <= stream
      BY DEF IInv, Types, Bound
    <3> QED
      BY <2>1, <3>1
  <2> QED
    BY <1>1, <1>2, <2>2, <2>3, EmptiedPlain
<1>6. CASE agent_stop \/ agent_crash
  <2>1. queues' = [d \in Devices |-> <<>>] /\ stream' = stream
    BY <1>6 DEF agent_stop, agent_crash
  <2>2. \A d \in Devices : Len(queues'[d]) = 0
    BY <2>1
  <2>3. PICK S : journal' = [o \in Ops |-> IF o \in S THEN Recorded(o, "unknown") ELSE journal[o]]
    BY <1>6 DEF agent_stop, agent_crash, finish_command
  <2>4. \A o \in Ops : Recorded(o, "unknown") \in Verdicts
    BY RecordedType, VerdictFacts DEF IInv
  <2>5. \A o \in Ops : journal[o] # "none" => journal'[o] # "none"
    BY <1>3, <2>3, <2>4
  <2> QED
    BY <1>1, <1>2, <2>1, <2>2, <2>5, EmptiedPlain
<1> QED
  BY <1>4, <1>5, <1>6

(* Nothing of the line changes when a backup is taken.                     *)
LEMMA BackupPlain == ASSUME IInv, Truth, Plain, backup_to \/ UNCHANGED vars PROVE Plain'
<1>1. UNCHANGED <<created, opStream, log, down, queues, running, stream, journal, status, sending>>
  BY DEF backup_to, hubRows, linkVars, runVars, hwVars, vars, hubVars, rowVars
<1> QED
  BY <1>1, TablePlain

(* At first nobody stands in the line.                                     *)
LEMMA InitPlain == Init => Plain
<1> SUFFICES ASSUME Init PROVE Plain
  OBVIOUS
<1>1. /\ Len(log) = 0 /\ Len(down) = 0 /\ Len(created) = 0 /\ sending = None
      /\ \A d \in Devices : Len(queues[d]) = 0
      /\ \A o \in Ops : status[o] = "none"
  BY DEF Init
<1>2. created \in Seq(Ops)
  <2>1. created = <<>>
    BY DEF Init
  <2> QED
    BY <2>1
<1>3. Listed
  BY <1>1, <1>2 DEF Listed
<1>4. \A o \in Ops : ~Offered(o)
  BY <1>1, OperationsAssumption DEF Offered, Framed
<1>5. Fresh
  BY <1>1, <1>4 DEF Fresh
<1>6. Ordered
  BY <1>1 DEF Ordered, Routed, RanFirst, QueueThenDown, SendingNext, QueuedLast
<1> QED
  BY <1>3, <1>5, <1>6 DEF Plain

(* Every step keeps the line, up to the first backup that is put back.     *)
LEMMA NextPlain ==
    ASSUME IInv, Truth, restores = 0 => Plain, [Next]_vars
    PROVE  (restores = 0 => Plain)'
<1>1. ASSUME restore \/ rollback_volume PROVE restores' # 0
  <2>1. restores' = restores + 1 /\ restores \in Nat
    BY <1>1 DEF restore, rollback_volume, FromBackup, Truth
  <2> QED
    BY <2>1
<1>2. ASSUME ~restore, ~rollback_volume PROVE restores' = restores
  BY <1>2 DEF Next, submit_operation, cancel_operation, deadline, expire_operations,
        claim_operation, dispatch_send, dispatch_failed, apply_operation_result, submit,
        handle_repeated, handle_refused, handle_started, handle_finished, sim_swap, _connect,
        register, link_lost, unregister, hub_restart, agent_stop, agent_crash, rebuild_store, backup_to,
        vars, hubVars, rowVars
<1> SUFFICES ASSUME restores' = 0, ~restore, ~rollback_volume PROVE Plain'
  BY <1>1
<1>3. Plain
  BY <1>2
<1>4. ASSUME NEW o \in Ops,
             \/ submit_operation(o) \/ cancel_operation(o) \/ deadline(o) \/ claim_operation(o)
      PROVE  Plain'
  BY <1>3, <1>4, SubmitOperationPlain, ClosePlain, ClaimPlain
<1>5. ASSUME expire_operations \/ unregister \/ hub_restart PROVE Plain'
  <2>1. CASE Ops # {}
    BY <1>3, <1>5, <2>1, ClosePlain
  <2>2. CASE Ops = {}
    <3>1. /\ UNCHANGED <<created, opStream, log, down, queues, running, stream, journal>>
          /\ sending' \in {sending, None}
      BY <1>5 DEF expire_operations, unregister, hub_restart, rowVars, linkVars, runVars, hwVars
    <3> QED
      BY <1>3, <2>2, <3>1, TablePlain
  <2> QED
    BY <2>1, <2>2
<1>6. ASSUME dispatch_send \/ dispatch_failed \/ apply_operation_result \/ submit \/ link_lost
      PROVE  Plain'
  BY <1>3, <1>6, DispatchPlain, ApplyPlain, SubmitPlain, LinkLostPlain
<1>7. ASSUME NEW d \in Devices,
             handle_repeated(d) \/ handle_started(d) \/ sim_swap(d) \/ _connect(d)
      PROVE  Plain'
  <2>1. "failed" \in {"cancelled", "failed"}
    OBVIOUS
  <2> QED
    BY <1>3, <1>7, <2>1, HandlePlain, StartedPlain, ModulePlain
<1>8. ASSUME NEW d \in Devices, NEW v \in {"cancelled", "failed"}, handle_refused(d, v)
      PROVE  Plain'
  BY <1>3, <1>8, HandlePlain
<1>9. ASSUME NEW d \in Devices, NEW v \in {"succeeded", "unknown"}, handle_finished(d, v)
      PROVE  Plain'
  BY <1>3, <1>9, FinishedPlain
<1>10. ASSUME agent_stop \/ agent_crash \/ rebuild_store \/ register \/ backup_to \/ UNCHANGED vars
       PROVE  Plain'
  BY <1>3, <1>10, EndPlain, BackupPlain
<1> QED
  BY <1>4, <1>5, <1>6, <1>7, <1>8, <1>9, <1>10 DEF Next

(* The line is in the order of the table, and so is what ran.              *)
LEMMA PlainShows == ASSUME IInv, Plain PROVE CancelledNeverRan /\ SubmissionOrder
<1>1. CancelledNeverRan
  BY DEF CancelledNeverRan, Ran, Plain, Fresh
<1>2. ASSUME NEW i \in 1..Len(log), NEW j \in 1..Len(log),
             NEW m \in 1..Len(created), NEW n \in 1..Len(created),
             i < j, DeviceOf[log[i].op] = DeviceOf[log[j].op],
             created[m] = log[i].op, created[n] = log[j].op
      PROVE  m <= n
  <2>1. Ahead(log[i].op, log[j].op)
    BY <1>2 DEF Plain, Ordered, RanFirst
  <2>2. PICK x \in 1..Len(created), y \in 1..Len(created) :
           x < y /\ created[x] = log[i].op /\ created[y] = log[j].op
    BY <1>2, <2>1 DEF Ahead
  <2>3. \A k, l \in 1..Len(created) : created[k] = created[l] => k = l
    BY DEF Plain, Listed
  <2>4. x = m /\ y = n
    BY <1>2, <2>2, <2>3
  <2> QED
    BY <2>2, <2>4
<1> QED
  BY <1>1, <1>2 DEF SubmissionOrder

(* What the hub shows of its operations is true: one of a module is out at *)
(* a time, succeeded ones ran, and unless a backup was put back, cancelled *)
(* and failed ones did not run and those of a module ran in the order of   *)
(* submission (db.py, claim_operation, apply_operation_result,             *)
(* expire_operations; commands.py; store.py, finish_command).              *)
THEOREM CommandsAreTrue == Spec => []CommandsTrue
<1>1. Init => (restores = 0 => Plain)
  BY InitPlain
<1>2. IInv /\ Truth /\ (restores = 0 => Plain) /\ [Next]_vars => (restores = 0 => Plain)'
  BY NextPlain
<1>3. IInv /\ Truth /\ (restores = 0 => Plain) => CommandsTrue
  BY PlainShows DEF CommandsTrue, Truth, SucceededRan, Completed
<1> QED
  BY <1>1, <1>2, <1>3, Invariance, TruthInvariance, PTL DEF Spec

-----------------------------------------------------------------------------
(* The types in full: what the table, a backup and the counters may hold.  *)

Ids == ConnIds \cup {0}

Ranges ==
    /\ opConn \in [Ops -> Ids] /\ conn \in Ids
    /\ opStream \in [Ops -> 0..MaxStream]
    /\ connStream \in 0..MaxStream /\ stream \in 0..MaxStream
    /\ expected \in [Ops -> Readings] /\ hubSim \in [Devices -> Readings]
    /\ created \in Seq(Ops) /\ due \subseteq Ops /\ finished \subseteq Ops

SavedRanges ==
    backup # <<>> => /\ backup[2] \in [Ops -> Ids] /\ backup[3] \in Seq(Ops)
                     /\ backup[4] \in [Devices -> Readings]

(* The empty tables are within their ranges.                               *)
LEMMA InitRanges == Init => Ranges /\ SavedRanges
<1>1. Blank \in Readings
  BY DEF Readings
<1> QED
  BY <1>1, OperationsAssumption DEF Init, Ranges, SavedRanges, Ids

(* A step of the hub's table: a new row takes what the connection has.     *)
LEMMA RowRanges ==
    ASSUME Ranges, SavedRanges, NEW o \in Ops,
           submit_operation(o) \/ cancel_operation(o) \/ deadline(o) \/ claim_operation(o)
    PROVE  Ranges' /\ SavedRanges'
<1>1. CASE submit_operation(o)
  <2>1. /\ opConn' = [opConn EXCEPT ![o] = conn]
        /\ opStream' = [opStream EXCEPT ![o] = connStream]
        /\ expected' = [expected EXCEPT ![o] = hubSim[DeviceOf[o]]]
        /\ created' = Append(created, o)
        /\ UNCHANGED <<conn, connStream, stream, hubSim, due, finished, backup>>
    BY <1>1 DEF submit_operation, linkVars, hwVars
  <2>2. hubSim[DeviceOf[o]] \in Readings
    BY OperationsAssumption DEF Ranges
  <2> QED
    BY <2>1, <2>2 DEF Ranges, SavedRanges
<1>2. CASE deadline(o)
  BY <1>2 DEF deadline, rowVars, linkVars, hwVars, Ranges, SavedRanges
<1>3. CASE cancel_operation(o) \/ claim_operation(o)
  BY <1>3 DEF cancel_operation, claim_operation, rowVars, linkVars, hwVars, Ranges, SavedRanges
<1> QED
  BY <1>1, <1>2, <1>3

(* An event of the agent brings a SIM the module can have.                 *)
LEMMA ApplyRanges ==
    ASSUME IInv, Ranges, SavedRanges, apply_operation_result
    PROVE  Ranges' /\ SavedRanges'
<1> DEFINE r == Head(results)
<1>1. /\ results # <<>>
      /\ \/ hubSim' = hubSim
         \/ r.kind = "status" /\ hubSim' = [hubSim EXCEPT ![r.device] = r.sim]
      /\ UNCHANGED <<opConn, opStream, expected, created, backup, due, conn, connStream,
                     stream, finished>>
  BY DEF apply_operation_result, linkVars, hwVars
<1>2. r \in Events
  BY <1>1, TakeFacts DEF IInv, Types
<1> HIDE DEF r
<1>3. r.kind = "status" => r.sim \in Readings
  BY <1>2 DEF Events
<1> QED
  BY <1>1, <1>3 DEF Ranges, SavedRanges

(* A new connection has a free id.                                         *)
LEMMA RegisterRanges ==
    ASSUME IInv, Ranges, SavedRanges, register
    PROVE  Ranges' /\ SavedRanges'
<1>1. /\ conn' = CHOOSE c \in ConnIds : \A o \in Ops : opConn[o] # c
      /\ connStream' = stream
      /\ opConn' = [o \in Ops |->
             IF status[o] = "queued" /\ opStream[o] = stream THEN conn' ELSE opConn[o]]
      /\ UNCHANGED <<opStream, expected, created, hubSim, backup, due, stream, finished>>
  BY DEF register, hwVars
<1>2. conn' \in ConnIds
  BY <1>1, FreshId DEF IInv
<1> QED
  BY <1>1, <1>2 DEF Ranges, SavedRanges, Ids

(* A backup takes the rows, and puts them back.                            *)
LEMMA BackupRanges ==
    ASSUME Ranges, SavedRanges, backup_to \/ restore \/ rollback_volume
    PROVE  Ranges' /\ SavedRanges'
<1>1. CASE backup_to
  BY <1>1 DEF backup_to, hubRows, linkVars, hwVars, Ranges, SavedRanges
<1>2. CASE restore \/ rollback_volume
  <2>1. /\ backup # <<>> /\ backup' = <<>> /\ conn' = 0
        /\ opConn' = backup[2] /\ created' = backup[3] /\ hubSim' = backup[4]
        /\ UNCHANGED <<opStream, expected, due, connStream, stream, finished>>
    BY <1>2 DEF restore, rollback_volume, FromBackup, linkVars, hwVars
  <2> QED
    BY <2>1 DEF Ranges, SavedRanges, Ids
<1> QED
  BY <1>1, <1>2

(* Every step stays within the ranges.                                     *)
LEMMA NextRanges == IInv /\ Ranges /\ SavedRanges /\ [Next]_vars => Ranges' /\ SavedRanges'
<1> SUFFICES ASSUME IInv, Ranges, SavedRanges, [Next]_vars PROVE Ranges' /\ SavedRanges'
  OBVIOUS
<1> DEFINE Kept == UNCHANGED <<opConn, opStream, expected, created, hubSim, backup, due,
                               connStream, stream>>
<1>1. ASSUME NEW o \in Ops,
             submit_operation(o) \/ cancel_operation(o) \/ deadline(o) \/ claim_operation(o)
      PROVE  Ranges' /\ SavedRanges'
  BY <1>1, RowRanges
<1>2. ASSUME \/ expire_operations \/ dispatch_send \/ dispatch_failed \/ submit \/ link_lost
             \/ unregister \/ hub_restart \/ agent_stop \/ agent_crash \/ UNCHANGED vars
      PROVE  Ranges' /\ SavedRanges'
  <2>1. Kept /\ finished' = finished /\ conn' \in {conn, 0}
    BY <1>2 DEF expire_operations, dispatch_send, dispatch_failed, submit, link_lost, unregister,
                hub_restart, agent_stop, agent_crash, Unread, vars, hubVars, rowVars, linkVars,
                hwVars
  <2> QED
    BY <2>1 DEF Ranges, SavedRanges, Ids
<1>3. ASSUME NEW d \in Devices,
             \/ handle_repeated(d) \/ handle_started(d) \/ sim_swap(d) \/ _connect(d)
             \/ \E v \in {"cancelled", "failed"} : handle_refused(d, v)
      PROVE  Ranges' /\ SavedRanges'
  <2>1. Kept /\ finished' = finished /\ conn' = conn
    BY <1>3 DEF handle_repeated, handle_started, sim_swap, _connect, handle_refused, hubVars, rowVars,
                linkVars, hwVars
  <2> QED
    BY <2>1 DEF Ranges, SavedRanges
<1>4. ASSUME NEW d \in Devices, NEW v \in {"succeeded", "unknown"}, handle_finished(d, v)
      PROVE  Ranges' /\ SavedRanges'
  <2>1. d \in running /\ finished' \in {finished, finished \cup {Head(queues[d])}}
    BY <1>4 DEF handle_finished
  <2>2. Head(queues[d]) \in Ops
    BY <2>1, TakeFacts DEF IInv, Types
  <2>3. Kept /\ conn' = conn
    BY <1>4 DEF handle_finished, hubVars, rowVars, linkVars
  <2> QED
    BY <2>1, <2>2, <2>3 DEF Ranges, SavedRanges
<1>5. ASSUME apply_operation_result \/ register PROVE Ranges' /\ SavedRanges'
  BY <1>5, ApplyRanges, RegisterRanges
<1>6. ASSUME backup_to \/ restore \/ rollback_volume PROVE Ranges' /\ SavedRanges'
  BY <1>6, BackupRanges
<1>7. ASSUME rebuild_store PROVE Ranges' /\ SavedRanges'
  <2>1. /\ stream < MaxStream /\ stream' = stream + 1
        /\ UNCHANGED <<opConn, opStream, expected, created, hubSim, backup, due, conn,
                       connStream, finished>>
    BY <1>7 DEF rebuild_store, Unread, hubVars, rowVars
  <2> QED
    BY <2>1, OperationsAssumption DEF Ranges, SavedRanges
<1> QED
  BY <1>1, <1>2, <1>3, <1>4, <1>5, <1>6, <1>7 DEF Next

(* Ports are opened no more often than the bound allows.                   *)
OpensOK == opens \in 0..MaxOpen

(* No step opens a port more often than the bound allows.                  *)
LEMMA OpensRange == OpensOK /\ [Next]_vars => OpensOK'
<1> SUFFICES ASSUME opens \in 0..MaxOpen, [Next]_vars PROVE opens' \in 0..MaxOpen
  BY DEF OpensOK
<1>1. ASSUME NEW d \in Devices, _connect(d) PROVE opens' \in 0..MaxOpen
  BY <1>1, OperationsAssumption DEF _connect
<1>2. ASSUME NEW d \in Devices,
             \/ handle_repeated(d) \/ handle_started(d) \/ sim_swap(d)
             \/ \E v \in {"cancelled", "failed"} : handle_refused(d, v)
             \/ \E v \in {"succeeded", "unknown"} : handle_finished(d, v)
      PROVE  opens' = opens
  BY <1>2 DEF handle_repeated, handle_started, sim_swap, handle_refused, handle_finished, hwVars
<1>3. ASSUME NEW o \in Ops,
             submit_operation(o) \/ cancel_operation(o) \/ deadline(o) \/ claim_operation(o)
      PROVE  opens' = opens
  BY <1>3 DEF submit_operation, cancel_operation, deadline, claim_operation, hwVars
<1>4. ASSUME \/ expire_operations \/ dispatch_send \/ dispatch_failed \/ apply_operation_result
             \/ submit \/ register \/ link_lost \/ unregister \/ hub_restart
      PROVE  opens' = opens
  BY <1>4 DEF expire_operations, dispatch_send, dispatch_failed, apply_operation_result, submit,
              register, link_lost, unregister, hub_restart, hwVars
<1>5. ASSUME \/ agent_stop \/ agent_crash \/ rebuild_store \/ backup_to \/ restore
             \/ rollback_volume \/ UNCHANGED vars
      PROVE  opens' = opens
  BY <1>5 DEF agent_stop, agent_crash, rebuild_store, Unread, backup_to, restore,
              rollback_volume, FromBackup, vars, hwVars
<1> QED
  BY <1>1, <1>2, <1>3, <1>4, <1>5 DEF Next

(* The columns of command_operations, the agent's journal, its queues and  *)
(* the frames and events between the two hold what they can hold.          *)
THEOREM TypeCorrect == Spec => []TypeOK
<1>1. Spec => [](Ranges /\ SavedRanges)
  BY InitRanges, NextRanges, Invariance, PTL DEF Spec
<1>2. Init => OpensOK
  BY OperationsAssumption DEF Init, OpensOK
<1>3. Spec => []OpensOK
  BY <1>2, OpensRange, PTL DEF Spec
<1>4. IInv /\ Ranges /\ OpensOK => TypeOK
  BY DEF OpensOK, IInv, Types, Ranges, TypeOK, Statuses, Ids
<1> QED
  BY <1>1, <1>3, <1>4, Invariance, PTL
=============================================================================
