---------------------------- MODULE Tasks_proofs ----------------------------
(***************************************************************************)
(* Theorems about the synchronization of task lists, for every set of      *)
(* revisions and every number of edits, connections, frames, failures and  *)
(* lost stores, and about the specification that is made of it and of the  *)
(* scheduler (Parted).                                                     *)
(***************************************************************************)
EXTENDS Tasks_MC, Scheduler_proofs, SequenceTheorems

(* Facts about the queues a frame passes through.                          *)
LEMMA SeqGrows ==
    ASSUME NEW S, NEW T, S \subseteq T, NEW q \in Seq(S)
    PROVE  q \in Seq(T)
OBVIOUS

(* A sequence without its head.                                            *)
LEMMA TakeFacts ==
    ASSUME NEW S, NEW q \in Seq(S), q # <<>>
    PROVE  /\ Head(q) \in S /\ Tail(q) \in Seq(S)
           /\ Len(q) \in Nat /\ Len(q) >= 1 /\ Head(q) = q[1]
           /\ Len(Tail(q)) = Len(q) - 1
           /\ \A i \in 1..Len(Tail(q)) : Tail(q)[i] = q[i + 1]
OBVIOUS

(* A sequence with one more element.                                       *)
LEMMA PutFacts ==
    ASSUME NEW S, NEW q \in Seq(S), NEW e \in S
    PROVE  /\ Append(q, e) \in Seq(S) /\ Len(q) \in Nat
           /\ Len(Append(q, e)) = Len(q) + 1
           /\ \A i \in 1..Len(q) : Append(q, e)[i] = q[i]
           /\ Append(q, e)[Len(q) + 1] = e
OBVIOUS

Receipts == [rev : Revisions, sync : 1..(nextSync - 1), ok : BOOLEAN]
Pushes == [rev : Revisions, sync : 1..(nextSync - 1), conn : 1..MaxConn]

(* The elements of a sequence.                                             *)
LEMMA ElementFacts ==
    ASSUME NEW S, NEW q \in Seq(S)
    PROVE  Len(q) \in Nat /\ \A i \in 1..Len(q) : q[i] \in S
OBVIOUS

-----------------------------------------------------------------------------
(* Types *)

(* The first state is well typed.                                          *)
LEMMA InitType == Sync!Init => Sync!TypeOK
<1> SUFFICES ASSUME Sync!Init PROVE Sync!TypeOK
  OBVIOUS
<1>1. /\ tasks \in Revisions /\ rowRev \in Revisions /\ held \in Revisions
      /\ rowStatus = "none" /\ connected \in BOOLEAN
  BY TaskSyncAssumption DEF Sync!Init
<1>2. nextSync = 1 /\ rowSync = 0 /\ connSync = 0 /\ conn = 0 /\ accepted = 0
  BY DEF Sync!Init
<1>3. pushes = {} /\ down = <<>> /\ queue = <<>> /\ receipts = <<>>
  BY DEF Sync!Init
<1>4. 0 \in 0..MaxConn /\ 0 \in 0..(nextSync - 1) /\ nextSync \in Nat
  BY <1>2, TaskSyncAssumption
<1> QED
  BY <1>1, <1>2, <1>3, <1>4 DEF Sync!TypeOK

(* A new sync id makes room for more; everything that was typed stays so.  *)
LEMMA DrawType ==
    ASSUME Sync!TypeOK, Sync!begin_task_sync, connSync' \in {connSync, nextSync},
           pushes' \subseteq pushes \cup
               {[rev |-> tasks, sync |-> nextSync, conn |-> conn]},
           conn # 0 \/ pushes' = pushes,
           UNCHANGED <<tasks, conn, accepted, down, Sync!agentVars>>
    PROVE  Sync!TypeOK'
<1>1. nextSync \in Nat /\ nextSync' = nextSync + 1 /\ nextSync >= 1
  BY DEF Sync!begin_task_sync, Sync!TypeOK
<1>2. Sync!Frames \subseteq Sync!Frames'
  BY <1>1 DEF Sync!Frames
<1>3. Receipts \subseteq Receipts'
  BY <1>1 DEF Receipts
<1>4. Pushes \subseteq Pushes'
  BY <1>1 DEF Pushes
<1>5. down' \in Seq(Sync!Frames') /\ queue' \in Seq(Sync!Frames')
  BY <1>2, SeqGrows DEF Sync!TypeOK, Sync!agentVars
<1>6. receipts' \in Seq(Receipts')
  <2>1. receipts \in Seq(Receipts) /\ receipts' = receipts
    BY DEF Sync!TypeOK, Sync!agentVars, Receipts
  <2> QED
    BY <1>3, <2>1, SeqGrows
<1>7. pushes' \subseteq Pushes'
  <2>1. conn # 0 => [rev |-> tasks, sync |-> nextSync, conn |-> conn] \in Pushes'
    BY <1>1, TaskSyncAssumption DEF Sync!TypeOK, Pushes
  <2> QED
    BY <1>4, <2>1 DEF Sync!TypeOK, Pushes
<1>8. /\ rowRev' \in Revisions /\ rowStatus' \in {"none", "pending", "applied", "failed"}
      /\ rowSync' \in 0..(nextSync' - 1) /\ connSync' \in 0..(nextSync' - 1)
  BY <1>1 DEF Sync!TypeOK, Sync!begin_task_sync
<1>9. /\ tasks' \in Revisions /\ held' \in Revisions /\ nextSync' \in Nat
      /\ conn' \in 0..MaxConn /\ accepted' \in 0..MaxConn /\ connected' \in BOOLEAN
  BY <1>1 DEF Sync!TypeOK, Sync!agentVars
<1> QED
  BY <1>5, <1>6, <1>7, <1>8, <1>9 DEF Sync!TypeOK, Receipts, Pushes

(* Steps that draw no sync id: the sets stay, a few variables change.      *)
LEMMA KeepType ==
    ASSUME Sync!TypeOK, UNCHANGED <<nextSync, rowRev, rowSync>>,
           tasks' \in Revisions, held' \in Revisions, connected' \in BOOLEAN,
           rowStatus' \in {"none", "pending", "applied", "failed"},
           connSync' \in {connSync, 0}, conn' \in 0..MaxConn, accepted' \in 0..MaxConn,
           pushes' \subseteq Pushes, down' \in Seq(Sync!Frames), queue' \in Seq(Sync!Frames),
           receipts' \in Seq(Receipts)
    PROVE  Sync!TypeOK'
BY DEF Sync!TypeOK, Sync!Frames, Receipts, Pushes

(* A push gives the next synchronization number.                           *)
LEMMA PushType == ASSUME Sync!TypeOK, Sync!push_offline \/ Sync!push_tasks PROVE Sync!TypeOK'
<1>1. CASE Sync!push_offline
  BY <1>1, DrawType DEF Sync!push_offline
<1>2. CASE Sync!push_tasks /\ Sync!begin_task_sync /\ connSync' = nextSync
  BY <1>2, DrawType DEF Sync!push_tasks
<1>3. CASE Sync!push_tasks /\ rowSync = connSync /\ connSync # 0 /\ UNCHANGED <<Sync!rowVars, nextSync, connSync>>
  <2>1. pushes' = pushes \cup {[rev |-> tasks, sync |-> rowSync, conn |-> conn]}
    BY <1>3 DEF Sync!push_tasks, Sync!begin_task_sync, Sync!rowVars, Sync!TypeOK
  <2>2. [rev |-> tasks, sync |-> rowSync, conn |-> conn] \in Pushes
    BY <1>3, TaskSyncAssumption DEF Sync!TypeOK, Pushes, Sync!push_tasks
  <2>3. pushes' \subseteq Pushes
    BY <2>1, <2>2 DEF Sync!TypeOK, Pushes
  <2> QED
    BY <1>3, <2>3, KeepType
       DEF Sync!TypeOK, Receipts, Sync!push_tasks, Sync!rowVars, Sync!agentVars
<1> QED
  BY <1>1, <1>2, <1>3 DEF Sync!push_tasks

(* A push is written, fails or is dropped.                                 *)
LEMMA SendType ==
    ASSUME Sync!TypeOK, NEW p \in pushes, Sync!push_sent(p) \/ Sync!push_failed(p) \/ Sync!push_dropped(p)
    PROVE  Sync!TypeOK'
<1>1. p \in Pushes /\ pushes' \subseteq Pushes
  BY DEF Sync!TypeOK, Pushes, Sync!push_sent, Sync!push_failed, Sync!push_dropped
<1>2. Sync!Frame(p.rev, p.sync) \in Sync!Frames
  BY <1>1 DEF Pushes, Sync!Frame, Sync!Frames
<1>3. down' \in {down, Append(down, Sync!Frame(p.rev, p.sync))}
  BY DEF Sync!push_sent, Sync!push_failed, Sync!push_dropped
<1>4. down' \in Seq(Sync!Frames)
  <2>1. down \in Seq(Sync!Frames)
    BY DEF Sync!TypeOK
  <2>2. Append(down, Sync!Frame(p.rev, p.sync)) \in Seq(Sync!Frames)
    BY <1>2, <2>1, PutFacts
  <2> QED
    BY <1>3, <2>1, <2>2
<1>5. rowStatus' \in {"none", "pending", "applied", "failed"}
  BY DEF Sync!TypeOK, Sync!push_sent, Sync!push_failed, Sync!push_dropped,
         Sync!finish_task_sync, Sync!rowVars
<1>6. UNCHANGED <<nextSync, rowRev, rowSync, tasks, conn, accepted, connSync, Sync!agentVars>>
  BY DEF Sync!push_sent, Sync!push_failed, Sync!push_dropped, Sync!rowVars
<1> QED
  BY <1>1, <1>4, <1>5, <1>6, KeepType DEF Sync!TypeOK, Sync!agentVars, Receipts

(* A receipt is applied.                                                   *)
LEMMA ReceiptType == ASSUME Sync!TypeOK, Sync!apply_tasks_applied PROVE Sync!TypeOK'
<1>1. receipts \in Seq(Receipts) /\ receipts # <<>>
  BY DEF Sync!TypeOK, Receipts, Sync!apply_tasks_applied
<1>2. receipts' \in Seq(Receipts)
  BY <1>1, TakeFacts DEF Sync!apply_tasks_applied
<1>3. rowStatus' \in {"none", "pending", "applied", "failed"}
  BY DEF Sync!TypeOK, Sync!apply_tasks_applied, Sync!finish_task_sync
<1> QED
  BY <1>2, <1>3, KeepType DEF Sync!TypeOK, Sync!apply_tasks_applied, Pushes

(* The agent queues a frame and answers it.                                *)
LEMMA AgentType ==
    ASSUME Sync!TypeOK, Sync!submit \/ Sync!cmd_sync_tasks \/ Sync!cmd_sync_tasks_failed PROVE Sync!TypeOK'
<1>1. UNCHANGED <<tasks, Sync!hubVars, connected>>
  BY DEF Sync!submit, Sync!cmd_sync_tasks, Sync!cmd_sync_tasks_failed
<1>2. CASE Sync!submit
  <2>1. Head(down) \in Sync!Frames /\ Tail(down) \in Seq(Sync!Frames)
    BY <1>2, TakeFacts DEF Sync!TypeOK, Sync!submit
  <2>2. down' \in Seq(Sync!Frames) /\ queue' \in Seq(Sync!Frames)
    BY <1>2, <2>1, PutFacts DEF Sync!TypeOK, Sync!submit
  <2> QED
    BY <1>1, <1>2, <2>2, KeepType
       DEF Sync!TypeOK, Sync!submit, Sync!hubVars, Sync!rowVars, Receipts, Pushes
<1>3. CASE Sync!cmd_sync_tasks \/ Sync!cmd_sync_tasks_failed
  <2>1. Head(queue) \in Sync!Frames /\ Tail(queue) \in Seq(Sync!Frames)
    BY <1>3, TakeFacts DEF Sync!TypeOK, Sync!cmd_sync_tasks, Sync!cmd_sync_tasks_failed
  <2>2. \A ok \in BOOLEAN : Sync!Receipt(Head(queue), ok) \in Receipts
    BY <2>1 DEF Sync!Frames, Sync!Receipt, Receipts
  <2>3. PICK ok \in BOOLEAN : receipts' = Append(receipts, Sync!Receipt(Head(queue), ok))
    BY <1>3 DEF Sync!cmd_sync_tasks, Sync!cmd_sync_tasks_failed
  <2>4. receipts \in Seq(Receipts)
    BY DEF Sync!TypeOK, Receipts
  <2>5. receipts' \in Seq(Receipts)
    BY <2>2, <2>3, <2>4, PutFacts
  <2>6. /\ queue' \in Seq(Sync!Frames) /\ down' \in Seq(Sync!Frames) /\ held' \in Revisions
    BY <1>3, <2>1 DEF Sync!TypeOK, Sync!cmd_sync_tasks, Sync!cmd_sync_tasks_failed, Sync!Frames
  <2> QED
    BY <1>1, <2>5, <2>6, KeepType DEF Sync!TypeOK, Sync!hubVars, Sync!rowVars, Pushes
<1> QED
  BY <1>2, <1>3

(* Connections, restarts, a replaced store and edits of the list.          *)
LEMMA LinkType ==
    ASSUME Sync!TypeOK,
           \/ Sync!register \/ Sync!link_lost \/ Sync!unregister \/ Sync!hub_restart \/ Sync!rebuild_store
           \/ UNCHANGED Sync!vars \/ \E rev \in Revisions : Sync!edit(rev)
    PROVE  Sync!TypeOK'
<1>1. UNCHANGED <<nextSync, Sync!rowVars>>
  BY DEF Sync!register, Sync!link_lost, Sync!unregister, Sync!hub_restart, Sync!rebuild_store,
         Sync!edit, Sync!vars, Sync!hubVars
<1>2. tasks' \in Revisions /\ held' \in Revisions /\ connected' \in BOOLEAN
  BY TaskSyncAssumption
     DEF Sync!TypeOK, Sync!register, Sync!link_lost, Sync!unregister, Sync!hub_restart,
     Sync!rebuild_store, Sync!edit, Sync!vars, Sync!hubVars, Sync!agentVars
<1>3. connSync' \in {connSync, 0} /\ conn' \in 0..MaxConn /\ accepted' \in 0..MaxConn
  BY TaskSyncAssumption
     DEF Sync!TypeOK, Sync!register, Sync!link_lost, Sync!unregister, Sync!hub_restart,
     Sync!rebuild_store, Sync!edit, Sync!vars, Sync!hubVars
<1>4. pushes' \subseteq Pushes
  BY DEF Sync!TypeOK, Pushes, Sync!register, Sync!link_lost, Sync!unregister, Sync!hub_restart,
         Sync!rebuild_store, Sync!edit,
     Sync!vars, Sync!hubVars
<1>5. down' \in {down, <<>>} /\ queue' \in {queue, <<>>} /\ receipts' \in {receipts, <<>>}
  BY DEF Sync!register, Sync!link_lost, Sync!unregister, Sync!hub_restart, Sync!rebuild_store,
         Sync!edit, Sync!vars, Sync!agentVars
<1>6. down' \in Seq(Sync!Frames) /\ queue' \in Seq(Sync!Frames) /\ receipts' \in Seq(Receipts)
  <2>1. down \in Seq(Sync!Frames) /\ queue \in Seq(Sync!Frames) /\ receipts \in Seq(Receipts)
    BY DEF Sync!TypeOK, Receipts
  <2>2. <<>> \in Seq(Sync!Frames) /\ <<>> \in Seq(Receipts)
    OBVIOUS
  <2> QED
    BY <1>5, <2>1, <2>2
<1> QED
  BY <1>1, <1>2, <1>3, <1>4, <1>6, KeepType DEF Sync!TypeOK, Sync!rowVars

(* Every step keeps the types.                                             *)
LEMMA TypeStep == Sync!TypeOK /\ [Sync!Next]_(Sync!vars) => Sync!TypeOK'
BY PushType, SendType, ReceiptType, AgentType, LinkType DEF Sync!Next

(* The columns, frames and receipts of the synchronization keep their      *)
(* types, and no sync id is in use that was not drawn (db.py,              *)
(* begin_task_sync).                                                       *)
THEOREM SyncTypeCorrect == Sync!Spec => []Sync!TypeOK
BY InitType, TypeStep, PTL DEF Sync!Spec

-----------------------------------------------------------------------------
(* Why "applied" is true *)

(* The row holds the last sync id drawn, and the push under way on the     *)
(* open connection is for it.                                              *)
Current ==
    /\ rowSync = nextSync - 1 /\ losses \in Nat /\ conn <= accepted
    /\ \A p \in pushes :
          p.conn <= accepted /\ (p.conn = conn => p.sync = rowSync /\ p.rev = rowRev)

(* Whatever carries the row's sync id carries its revision.                *)
Meant ==
    /\ \A i \in 1..Len(down) : down[i].sync = rowSync => down[i].rev = rowRev
    /\ \A i \in 1..Len(queue) : queue[i].sync = rowSync => queue[i].rev = rowRev
    /\ \A i \in 1..Len(receipts) : receipts[i].sync = rowSync => receipts[i].rev = rowRev

(* Frames reach the agent in the order their sync ids were drawn.          *)
InTurn ==
    /\ \A i, j \in 1..Len(down) : i < j => down[i].sync <= down[j].sync
    /\ \A i, j \in 1..Len(queue) : i < j => queue[i].sync <= queue[j].sync
    /\ \A i \in 1..Len(queue), j \in 1..Len(down) : queue[i].sync <= down[j].sync

Answered ==
    \/ rowStatus = "applied"
    \/ \E i \in 1..Len(receipts) : receipts[i].ok /\ receipts[i].sync = rowSync

NoOlderFrame ==
    /\ \A i \in 1..Len(down) : down[i].sync = rowSync
    /\ \A i \in 1..Len(queue) : queue[i].sync = rowSync

(* Once the agent has answered the row's sync id, it holds the revision    *)
(* and no frame of an older one is left to change that.                    *)
Confirmed == Answered => (losses = 0 => held = rowRev) /\ NoOlderFrame

SyncIInv == Sync!TypeOK /\ Current /\ Meant /\ InTurn /\ Confirmed

(* Frames and receipts name sync ids up to the row's.                      *)
LEMMA Bounds ==
    ASSUME Sync!TypeOK, Current
    PROVE  /\ rowSync \in Nat /\ nextSync = rowSync + 1
           /\ Len(down) \in Nat /\ Len(queue) \in Nat /\ Len(receipts) \in Nat
           /\ \A i \in 1..Len(down) : down[i].sync \in 1..rowSync
           /\ \A i \in 1..Len(queue) : queue[i].sync \in 1..rowSync
           /\ \A i \in 1..Len(receipts) : receipts[i].sync \in 1..rowSync
<1>1. rowSync \in Nat /\ nextSync = rowSync + 1
  BY DEF Sync!TypeOK, Current
<1>2. Len(down) \in Nat /\ \A i \in 1..Len(down) : down[i] \in Sync!Frames
  BY ElementFacts DEF Sync!TypeOK
<1>3. Len(queue) \in Nat /\ \A i \in 1..Len(queue) : queue[i] \in Sync!Frames
  BY ElementFacts DEF Sync!TypeOK
<1>4. receipts \in Seq(Receipts)
  BY DEF Sync!TypeOK, Receipts
<1>5. Len(receipts) \in Nat /\ \A i \in 1..Len(receipts) : receipts[i] \in Receipts
  BY <1>4, ElementFacts
<1>6. \A f \in Sync!Frames : f.sync \in 1..rowSync
  BY <1>1 DEF Sync!Frames
<1>7. \A f \in Receipts : f.sync \in 1..rowSync
  BY <1>1 DEF Receipts
<1> QED
  BY <1>1, <1>2, <1>3, <1>5, <1>6, <1>7

(* The first state satisfies the inductive invariant.                      *)
LEMMA SyncInitIInv == Sync!Init => SyncIInv
<1> SUFFICES ASSUME Sync!Init PROVE SyncIInv
  OBVIOUS
<1>1. /\ rowSync = 0 /\ nextSync = 1 /\ losses = 0 /\ conn = 0 /\ accepted = 0
      /\ pushes = {} /\ rowStatus = "none" /\ rowRev = held
  BY DEF Sync!Init
<1>2. Len(down) = 0 /\ Len(queue) = 0 /\ Len(receipts) = 0
  BY DEF Sync!Init
<1>3. Current
  BY <1>1 DEF Current
<1>4. Meant /\ InTurn /\ Confirmed
  BY <1>1, <1>2 DEF Meant, InTurn, Confirmed, NoOlderFrame
<1> QED
  BY <1>3, <1>4, InitType DEF SyncIInv

(* A new sync id: nothing that travels carries it.                         *)
LEMMA DrawStep ==
    ASSUME SyncIInv, Sync!begin_task_sync, UNCHANGED <<down, queue, receipts, held, conn, accepted, losses>>,
           \/ conn = 0 /\ pushes' = pushes
           \/ /\ \A p \in pushes : p.conn # conn
              /\ pushes' = pushes \cup {[rev |-> tasks, sync |-> nextSync, conn |-> conn]}
    PROVE  Current' /\ Meant' /\ InTurn' /\ Confirmed'
<1>1. rowSync' = rowSync + 1 /\ nextSync' = rowSync' + 1 /\ rowRev' = tasks /\ rowStatus' = "pending"
  BY Bounds DEF SyncIInv, Sync!begin_task_sync
<1>2. rowSync \in Nat /\ nextSync = rowSync + 1
  BY Bounds DEF SyncIInv
<1>3. /\ \A i \in 1..Len(down) : down[i].sync # rowSync'
      /\ \A i \in 1..Len(queue) : queue[i].sync # rowSync'
      /\ \A i \in 1..Len(receipts) : receipts[i].sync # rowSync'
  BY <1>1, Bounds DEF SyncIInv
<1>4. Meant' /\ InTurn' /\ Confirmed'
  BY <1>1, <1>3 DEF SyncIInv, Meant, InTurn, Confirmed, Answered
<1>5. Current'
  <2>1. \A p \in pushes : p.conn \in 1..MaxConn
    BY DEF SyncIInv, Sync!TypeOK
  <2>2. conn = 0 => \A p \in pushes : p.conn # conn
    BY <2>1
  <2> QED
    BY <1>1, <1>2, <2>2 DEF SyncIInv, Current
<1> QED
  BY <1>4, <1>5

(* A push carries the list of the moment under a number of its own.        *)
LEMMA PushStep == ASSUME SyncIInv, Sync!push_offline \/ Sync!push_tasks PROVE SyncIInv'
<1>1. CASE Sync!push_offline
  BY <1>1, DrawStep, PushType DEF Sync!push_offline, Sync!agentVars, Sync!bounds, SyncIInv
<1>2. CASE Sync!push_tasks /\ Sync!begin_task_sync /\ connSync' = nextSync
  <2>1. pushes' = pushes \cup {[rev |-> tasks, sync |-> nextSync, conn |-> conn]}
    BY <1>2
       DEF Sync!push_tasks, Sync!begin_task_sync, Sync!rowVars, SyncIInv, Sync!TypeOK, Current
  <2> QED
    BY <1>2, <2>1, DrawStep, PushType DEF Sync!push_tasks, Sync!agentVars, Sync!bounds, SyncIInv
<1>3. CASE /\ Sync!push_tasks /\ tasks = rowRev /\ UNCHANGED <<Sync!rowVars, nextSync, connSync>>
           /\ pushes' = pushes \cup {[rev |-> tasks, sync |-> rowSync, conn |-> conn]}
  <2>1. UNCHANGED <<down, queue, receipts, held, conn, accepted, losses, Sync!rowVars, nextSync>>
    BY <1>3 DEF Sync!push_tasks, Sync!agentVars, Sync!bounds
  <2>2. Current'
    BY <1>3, <2>1 DEF SyncIInv, Current, Sync!rowVars
  <2>3. Meant' /\ InTurn' /\ Confirmed'
    BY <2>1 DEF SyncIInv, Meant, InTurn, Confirmed, Answered, NoOlderFrame, Sync!rowVars
  <2> QED
    BY <1>3, <2>2, <2>3, PushType DEF SyncIInv
<1> QED
  BY <1>1, <1>2, <1>3 DEF Sync!push_tasks

(* A frame of the row's sync id is written, or not.                        *)
LEMMA SendStep ==
    ASSUME SyncIInv, NEW p \in pushes, Sync!push_sent(p) \/ Sync!push_failed(p) \/ Sync!push_dropped(p)
    PROVE  SyncIInv'
<1>1. /\ UNCHANGED <<nextSync, rowRev, rowSync, conn, accepted, queue, receipts, held, losses>>
      /\ pushes' \subseteq pushes
  BY DEF Sync!push_sent, Sync!push_failed, Sync!push_dropped, Sync!rowVars, Sync!agentVars,
         Sync!bounds
<1>2. rowStatus' = "applied" => rowStatus = "applied"
  BY DEF Sync!push_sent, Sync!push_failed, Sync!push_dropped, Sync!finish_task_sync,
         Sync!rowVars
<1>3. Current'
  BY <1>1 DEF SyncIInv, Current
<1>4. Answered' => Answered
  BY <1>1, <1>2 DEF Answered
<1> DEFINE f == Sync!Frame(p.rev, p.sync)
<1>5. down' = down \/ (p.conn = conn /\ down' = Append(down, f))
  BY DEF Sync!push_sent, Sync!push_failed, Sync!push_dropped
<1>6. ASSUME down' = down PROVE Meant' /\ InTurn' /\ Confirmed'
  BY <1>1, <1>4, <1>6 DEF SyncIInv, Meant, InTurn, Confirmed, NoOlderFrame
<1>7. ASSUME p.conn = conn, down' = Append(down, f) PROVE Meant' /\ InTurn' /\ Confirmed'
  <2>1. f.sync = rowSync /\ f.rev = rowRev
    BY <1>7 DEF SyncIInv, Current, Sync!Frame
  <2>2. f \in Sync!Frames
    BY DEF SyncIInv, Sync!TypeOK, Sync!Frame, Sync!Frames
  <2> HIDE DEF f
  <2>3. /\ Len(down') = Len(down) + 1 /\ down'[Len(down) + 1] = f
        /\ \A i \in 1..Len(down) : down'[i] = down[i]
    <3>1. down \in Seq(Sync!Frames)
      BY DEF SyncIInv, Sync!TypeOK
    <3> QED
      BY <1>7, <2>2, <3>1, PutFacts
  <2>4. Len(down) \in Nat /\ \A i \in 1..Len(down') : i \in 1..Len(down) \/ i = Len(down) + 1
    BY <2>3, Bounds DEF SyncIInv
  <2>5. Meant'
    BY <1>1, <2>1, <2>3, <2>4 DEF SyncIInv, Meant
  <2>6. InTurn'
    <3>1. /\ rowSync \in Nat
          /\ \A i \in 1..Len(down) : down[i].sync \in 1..rowSync
          /\ \A i \in 1..Len(queue) : queue[i].sync \in 1..rowSync
      BY Bounds DEF SyncIInv
    <3>2. \A i, j \in 1..Len(down') : i < j => down'[i].sync <= down'[j].sync
      BY <2>1, <2>3, <2>4, <3>1 DEF SyncIInv, InTurn
    <3>3. \A i \in 1..Len(queue), j \in 1..Len(down') : queue[i].sync <= down'[j].sync
      BY <2>1, <2>3, <2>4, <3>1 DEF SyncIInv, InTurn
    <3> QED
      BY <1>1, <3>2, <3>3 DEF SyncIInv, InTurn
  <2>7. Confirmed'
    BY <1>1, <1>4, <2>1, <2>3, <2>4 DEF SyncIInv, Confirmed, NoOlderFrame
  <2> QED
    BY <2>5, <2>6, <2>7
<1>8. Meant' /\ InTurn' /\ Confirmed'
  BY <1>5, <1>6, <1>7
<1> QED
  BY <1>3, <1>8, SendType DEF SyncIInv

(* The receipt that settles the row is the answer that was waiting.        *)
LEMMA ReceiptStep == ASSUME SyncIInv, Sync!apply_tasks_applied PROVE SyncIInv'
<1>1. /\ UNCHANGED <<nextSync, rowRev, rowSync, conn, accepted, pushes, down, queue, held, losses>>
      /\ receipts # <<>> /\ receipts' = Tail(receipts)
      /\ Sync!finish_task_sync(Head(receipts).rev, Head(receipts).sync, Head(receipts).ok)
  BY DEF Sync!apply_tasks_applied, Sync!bounds
<1>2. receipts \in Seq(Receipts)
  BY DEF SyncIInv, Sync!TypeOK, Receipts
<1>3. /\ Head(receipts) = receipts[1] /\ Len(receipts) \in Nat /\ Len(receipts) >= 1
      /\ Len(receipts') = Len(receipts) - 1
      /\ \A i \in 1..Len(receipts') : receipts'[i] = receipts[i + 1]
  BY <1>1, <1>2, TakeFacts
<1>4. \A i \in 1..Len(receipts') : i + 1 \in 1..Len(receipts)
  BY <1>3
<1>5. rowStatus' = "applied" => Answered
  BY <1>1, <1>3 DEF Sync!finish_task_sync, Sync!Settles, Answered
<1>6. Answered' => Answered
  BY <1>1, <1>3, <1>4, <1>5 DEF Answered
<1>7. Current' /\ InTurn' /\ Confirmed'
  BY <1>1, <1>6 DEF SyncIInv, Current, InTurn, Confirmed, NoOlderFrame
<1>8. Meant'
  BY <1>1, <1>3, <1>4 DEF SyncIInv, Meant
<1> QED
  BY <1>7, <1>8, ReceiptType DEF SyncIInv

(* A frame goes from the wire into the queue.                              *)
LEMMA SubmitStep == ASSUME SyncIInv, Sync!submit PROVE SyncIInv'
<1>1. /\ UNCHANGED <<nextSync, rowRev, rowSync, rowStatus, conn, accepted, pushes, receipts,
                     held, losses>>
      /\ down # <<>> /\ queue' = Append(queue, Head(down)) /\ down' = Tail(down)
  BY DEF Sync!submit, Sync!hubVars, Sync!rowVars, Sync!bounds
<1>2. down \in Seq(Sync!Frames) /\ queue \in Seq(Sync!Frames)
  BY DEF SyncIInv, Sync!TypeOK
<1>3. /\ Head(down) \in Sync!Frames /\ Head(down) = down[1] /\ Len(down) \in Nat /\ Len(down) >= 1
      /\ Len(down') = Len(down) - 1
      /\ \A i \in 1..Len(down') : down'[i] = down[i + 1]
  BY <1>1, <1>2, TakeFacts
<1>4. /\ Len(queue) \in Nat /\ Len(queue') = Len(queue) + 1
      /\ queue'[Len(queue) + 1] = down[1]
      /\ \A i \in 1..Len(queue) : queue'[i] = queue[i]
  BY <1>1, <1>2, <1>3, PutFacts
<1>5. /\ \A i \in 1..Len(down') : i + 1 \in 1..Len(down) /\ 1 < i + 1
      /\ \A i \in 1..Len(queue') : i \in 1..Len(queue) \/ i = Len(queue) + 1
      /\ 1 \in 1..Len(down)
  BY <1>3, <1>4
<1>6. Current'
  BY <1>1 DEF SyncIInv, Current
<1>7. Meant'
  BY <1>1, <1>3, <1>4, <1>5 DEF SyncIInv, Meant
<1>8. InTurn'
  <2>1. \A i, j \in 1..Len(down') : i < j => down'[i].sync <= down'[j].sync
    BY <1>3, <1>5 DEF SyncIInv, InTurn
  <2>2. \A i, j \in 1..Len(queue') : i < j => queue'[i].sync <= queue'[j].sync
    BY <1>4, <1>5 DEF SyncIInv, InTurn
  <2>3. \A i \in 1..Len(queue'), j \in 1..Len(down') : queue'[i].sync <= down'[j].sync
    BY <1>3, <1>4, <1>5 DEF SyncIInv, InTurn
  <2> QED
    BY <2>1, <2>2, <2>3 DEF InTurn
<1>9. Confirmed'
  <2>1. Answered' => Answered
    BY <1>1 DEF Answered
  <2>2. NoOlderFrame => NoOlderFrame'
    BY <1>1, <1>3, <1>4, <1>5 DEF NoOlderFrame
  <2> QED
    BY <1>1, <2>1, <2>2 DEF SyncIInv, Confirmed
<1> QED
  BY <1>6, <1>7, <1>8, <1>9, AgentType DEF SyncIInv

(* The agent stores a list and answers: what is left behind the frame is   *)
(* not older than it.                                                      *)
LEMMA StoreStep == ASSUME SyncIInv, Sync!cmd_sync_tasks \/ Sync!cmd_sync_tasks_failed PROVE SyncIInv'
<1> DEFINE f == Head(queue)
<1>1. /\ UNCHANGED <<nextSync, rowRev, rowSync, rowStatus, conn, accepted, pushes, down, losses>>
      /\ queue # <<>> /\ queue' = Tail(queue)
  BY DEF Sync!cmd_sync_tasks, Sync!cmd_sync_tasks_failed, Sync!hubVars, Sync!rowVars,
         Sync!bounds
<1>2. PICK ok \in BOOLEAN :
        /\ receipts' = Append(receipts, Sync!Receipt(f, ok))
        /\ IF ok THEN held' = f.rev ELSE held' = held
  BY DEF Sync!cmd_sync_tasks, Sync!cmd_sync_tasks_failed
<1>3. /\ queue \in Seq(Sync!Frames) /\ receipts \in Seq(Receipts)
  BY DEF SyncIInv, Sync!TypeOK, Receipts
<1>4. /\ f \in Sync!Frames /\ f = queue[1] /\ Len(queue) \in Nat /\ Len(queue) >= 1
      /\ Len(queue') = Len(queue) - 1
      /\ \A i \in 1..Len(queue') : queue'[i] = queue[i + 1]
  BY <1>1, <1>3, TakeFacts
<1> HIDE DEF f
<1> DEFINE r == Sync!Receipt(f, ok)
<1>5. r \in Receipts /\ r.rev = f.rev /\ r.sync = f.sync /\ r.ok = ok
  BY <1>4 DEF Sync!Frames, Sync!Receipt, Receipts
<1> HIDE DEF r
<1>6. /\ Len(receipts) \in Nat /\ Len(receipts') = Len(receipts) + 1
      /\ receipts'[Len(receipts) + 1] = r
      /\ \A i \in 1..Len(receipts) : receipts'[i] = receipts[i]
  <2>1. receipts' = Append(receipts, r)
    BY <1>2 DEF r
  <2> QED
    BY <1>3, <1>5, <2>1, PutFacts
<1>7. /\ \A i \in 1..Len(queue') : i + 1 \in 1..Len(queue) /\ 1 < i + 1
      /\ \A i \in 1..Len(receipts') : i \in 1..Len(receipts) \/ i = Len(receipts) + 1
      /\ 1 \in 1..Len(queue)
  BY <1>4, <1>6
<1>8. f.sync = rowSync => f.rev = rowRev
  BY <1>4, <1>7 DEF SyncIInv, Meant
<1>9. Current' /\ InTurn'
  <2>1. Current'
    BY <1>1 DEF SyncIInv, Current
  <2>2. InTurn'
    BY <1>1, <1>4, <1>7 DEF SyncIInv, InTurn
  <2> QED
    BY <2>1, <2>2
<1>10. Meant'
  BY <1>1, <1>4, <1>5, <1>6, <1>7, <1>8 DEF SyncIInv, Meant
<1>11. Confirmed'
  <2>1. CASE Answered
    <3>1. (losses = 0 => held = rowRev) /\ NoOlderFrame
      BY <2>1 DEF SyncIInv, Confirmed
    <3>2. f.sync = rowSync
      BY <1>4, <1>7, <3>1 DEF NoOlderFrame
    <3>3. NoOlderFrame'
      BY <1>1, <1>4, <1>7, <3>1 DEF NoOlderFrame
    <3>4. losses' = 0 => held' = rowRev'
      BY <1>1, <1>2, <1>8, <3>1, <3>2
    <3> QED
      BY <3>3, <3>4 DEF Confirmed
  <2>2. CASE ~Answered /\ Answered'
    <3>1. ok /\ f.sync = rowSync
      BY <1>1, <1>5, <1>6, <1>7, <2>2 DEF Answered
    <3>2. \A i \in 1..Len(queue') : queue'[i].sync = rowSync
      <4> SUFFICES ASSUME NEW i \in 1..Len(queue') PROVE queue'[i].sync = rowSync
        OBVIOUS
      <4>1. queue'[i] = queue[i + 1] /\ i + 1 \in 1..Len(queue) /\ 1 < i + 1
        BY <1>4, <1>7
      <4>2. queue[1].sync <= queue[i + 1].sync
        BY <1>7, <4>1 DEF SyncIInv, InTurn
      <4>3. queue[i + 1].sync \in 1..rowSync /\ rowSync \in Nat
        BY <4>1, Bounds DEF SyncIInv
      <4> QED
        BY <1>4, <3>1, <4>1, <4>2, <4>3
    <3>3. \A i \in 1..Len(down') : down'[i].sync = rowSync
      <4> SUFFICES ASSUME NEW i \in 1..Len(down) PROVE down[i].sync = rowSync
        BY <1>1
      <4>1. queue[1].sync <= down[i].sync
        BY <1>7 DEF SyncIInv, InTurn
      <4>2. down[i].sync \in 1..rowSync /\ rowSync \in Nat
        BY Bounds DEF SyncIInv
      <4> QED
        BY <1>4, <3>1, <4>1, <4>2
    <3>4. NoOlderFrame'
      BY <1>1, <3>2, <3>3 DEF NoOlderFrame
    <3>5. held' = rowRev'
      BY <1>1, <1>2, <1>8, <3>1
    <3> QED
      BY <3>4, <3>5 DEF Confirmed
  <2> QED
    BY <2>1, <2>2 DEF Confirmed
<1> QED
  BY <1>9, <1>10, <1>11, AgentType DEF SyncIInv

(* Connections come and go; what has not been applied goes with them.      *)
LEMMA LinkStep ==
    ASSUME SyncIInv,
           \/ Sync!register \/ Sync!link_lost \/ Sync!unregister \/ Sync!hub_restart \/ Sync!rebuild_store
           \/ UNCHANGED Sync!vars \/ \E rev \in Revisions : Sync!edit(rev)
    PROVE  SyncIInv'
<1>1. UNCHANGED <<nextSync, rowRev, rowSync, rowStatus>> /\ pushes' \subseteq pushes
  BY DEF Sync!register, Sync!link_lost, Sync!unregister, Sync!hub_restart, Sync!rebuild_store,
         Sync!edit, Sync!vars, Sync!hubVars, Sync!rowVars
<1>2. down' = down \/ Len(down') = 0
  BY DEF Sync!register, Sync!link_lost, Sync!unregister, Sync!hub_restart, Sync!rebuild_store,
         Sync!edit, Sync!vars
<1>3. queue' = queue \/ Len(queue') = 0
  BY DEF Sync!register, Sync!link_lost, Sync!unregister, Sync!hub_restart, Sync!rebuild_store,
         Sync!edit, Sync!vars, Sync!agentVars
<1>4. \/ UNCHANGED <<receipts, held, losses>>
      \/ Len(receipts') = 0 /\ losses' = losses + 1
  BY DEF Sync!register, Sync!link_lost, Sync!unregister, Sync!hub_restart, Sync!rebuild_store,
         Sync!edit, Sync!vars, Sync!agentVars, Sync!bounds
<1>5. \/ conn' \in {conn, 0} /\ accepted' = accepted
      \/ conn' = accepted + 1 /\ accepted' = accepted + 1
  BY DEF Sync!register, Sync!link_lost, Sync!unregister, Sync!hub_restart, Sync!rebuild_store,
         Sync!edit, Sync!vars, Sync!hubVars
<1>6. Current'
  <2>1. /\ accepted \in Nat /\ conn \in Nat /\ losses \in Nat
        /\ \A p \in pushes : p.conn \in Nat /\ p.conn >= 1
    BY TaskSyncAssumption DEF SyncIInv, Sync!TypeOK, Current
  <2>2. losses' \in Nat
    BY <1>4, <2>1
  <2>3. conn' <= accepted' /\ accepted <= accepted'
    BY <1>5, <2>1 DEF SyncIInv, Current
  <2>4. ASSUME NEW p \in pushes'
        PROVE  p.conn <= accepted' /\ (p.conn = conn' => p.sync = rowSync' /\ p.rev = rowRev')
    BY <1>1, <1>5, <2>1, <2>3 DEF SyncIInv, Current
  <2> QED
    BY <1>1, <2>2, <2>3, <2>4 DEF SyncIInv, Current
<1>7. Meant' /\ InTurn'
  BY <1>1, <1>2, <1>3, <1>4 DEF SyncIInv, Meant, InTurn
<1>8. Confirmed'
  <2>1. Answered' => Answered
    BY <1>1, <1>4 DEF Answered
  <2>2. NoOlderFrame => NoOlderFrame'
    BY <1>1, <1>2, <1>3 DEF NoOlderFrame
  <2>3. losses' = 0 => held' = held /\ losses = 0
    BY <1>4 DEF SyncIInv, Current
  <2> QED
    BY <1>1, <2>1, <2>2, <2>3 DEF SyncIInv, Confirmed
<1> QED
  BY <1>6, <1>7, <1>8, LinkType DEF SyncIInv

(* Every step keeps the inductive invariant.                               *)
LEMMA SyncInductive == SyncIInv /\ [Sync!Next]_(Sync!vars) => SyncIInv'
BY PushStep, SendStep, ReceiptStep, SubmitStep, StoreStep, LinkStep DEF Sync!Next

(* The inductive invariant holds throughout.                               *)
LEMMA SyncInvariance == Sync!Spec => []SyncIInv
BY SyncInitIInv, SyncInductive, PTL DEF Sync!Spec

(* While the hub shows a revision as applied, the agent holds it, however  *)
(* many lists, connections and late receipts there were (gateway.py,       *)
(* _apply_tasks_applied; db.py, finish_task_sync).                         *)
THEOREM AppliedRevisionIsHeld == Sync!Spec => []AppliedIsTrue
<1>1. SyncIInv => AppliedIsTrue
  BY DEF SyncIInv, Confirmed, Answered, AppliedIsTrue, Sync!AppliedIsTrue
<1> QED
  BY <1>1, SyncInvariance, PTL

(* The confirmation of a sync id is never taken back, neither by a late    *)
(* failure nor by a send that timed out (db.py, finish_task_sync).         *)
THEOREM ConfirmationIsFinal == Sync!Spec => AppliedIsFinal
<1> DEFINE Kept == rowStatus = "applied" /\ rowSync' = rowSync => rowStatus' = "applied"
<1>1. Sync!TypeOK /\ [Sync!Next]_(Sync!vars) => [Kept]_(Sync!vars)
  <2> SUFFICES ASSUME Sync!TypeOK, [Sync!Next]_(Sync!vars), rowStatus = "applied", rowSync' = rowSync
               PROVE  rowStatus' = "applied"
    OBVIOUS
  <2>1. ASSUME Sync!push_offline \/ Sync!push_tasks PROVE rowStatus' = "applied"
    BY <2>1
       DEF Sync!TypeOK, Sync!push_offline, Sync!push_tasks, Sync!begin_task_sync, Sync!rowVars
  <2>2. ASSUME NEW p \in pushes, Sync!push_sent(p) \/ Sync!push_failed(p) \/ Sync!push_dropped(p)
        PROVE  rowStatus' = "applied"
    BY <2>2 DEF Sync!push_sent, Sync!push_failed, Sync!push_dropped, Sync!finish_task_sync,
                Sync!Settles, Sync!rowVars
  <2>3. ASSUME Sync!apply_tasks_applied PROVE rowStatus' = "applied"
    BY <2>3 DEF Sync!apply_tasks_applied, Sync!finish_task_sync, Sync!Settles
  <2>4. ASSUME Sync!submit \/ Sync!cmd_sync_tasks \/ Sync!cmd_sync_tasks_failed PROVE rowStatus' = "applied"
    BY <2>4 DEF Sync!submit, Sync!cmd_sync_tasks, Sync!cmd_sync_tasks_failed, Sync!hubVars,
                Sync!rowVars
  <2>5. ASSUME \/ Sync!register \/ Sync!link_lost \/ Sync!unregister \/ Sync!hub_restart \/ Sync!rebuild_store
               \/ UNCHANGED Sync!vars \/ \E rev \in Revisions : Sync!edit(rev)
        PROVE  rowStatus' = "applied"
    BY <2>5 DEF Sync!register, Sync!link_lost, Sync!unregister, Sync!hub_restart,
                Sync!rebuild_store, Sync!edit, Sync!vars,
       Sync!hubVars, Sync!rowVars
  <2> QED
    BY <2>1, <2>2, <2>3, <2>4, <2>5 DEF Sync!Next
<1> QED
  BY <1>1, SyncTypeCorrect, PTL DEF Sync!Spec, AppliedIsFinal, Sync!AppliedIsFinal

-----------------------------------------------------------------------------
(* Scheduler and synchronization share no state: a behaviour of the two is *)
(* one of each.                                                            *)
LEMMA Parted == TasksSpec => Spec /\ Sync!Spec
<1>1. TasksInit => Init /\ Sync!Init
  BY DEF TasksInit
<1>2. ASSUME [TasksNext]_<<part, vars, syncVars>>
      PROVE  [Next]_vars /\ [Sync!Next]_(Sync!vars)
  <2>1. UNCHANGED syncVars => UNCHANGED Sync!vars
    BY DEF syncVars, Sync!vars, Sync!rowVars, Sync!hubVars, Sync!agentVars, Sync!bounds
  <2> QED
    BY <1>2, <2>1 DEF TasksNext
<1> QED
  BY <1>1, <1>2, PTL DEF TasksSpec, Spec, Sync!Spec

(* scheduler.py, gateway.py, db.py: the task row and its coroutines, and   *)
(* the rows, frames and receipts of the synchronization keep their types.  *)
THEOREM TasksTypesKept == TasksSpec => []TasksTypeOK
<1>1. TypeOK /\ Sync!TypeOK => TasksTypeOK
  BY DEF TasksTypeOK
<1> QED
  BY <1>1, Parted, TypeCorrect, SyncTypeCorrect, PTL

(* scheduler.py, db.py finish_task_sync: what both parts promise holds of  *)
(* the specification that is made of them.                                 *)
THEOREM TasksAreSafe ==
    TasksSpec => [](NoOverlap /\ ManualNotRepeated /\ PlanSound /\ AppliedIsTrue)
BY Parted, RunsDoNotOverlap, ManualRunsOnce, PlansAreSound, AppliedRevisionIsHeld, PTL
=============================================================================
