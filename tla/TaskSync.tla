------------------------------ MODULE TaskSync ------------------------------
(***************************************************************************)
(* How the keep-alive tasks an administrator edits on the hub reach the    *)
(* agent: the versioned sync_tasks push and its retry (gateway.py), the    *)
(* agents row that records what was acknowledged (db.py), the agent's      *)
(* control queue (commands.py) and replace_tasks with its durable receipt  *)
(* (app.py, store.py).                                                     *)
(*                                                                         *)
(* A task list is its revision, the hash of its contents, so that editing  *)
(* back and forth meets an old revision again.  Receipts travel through    *)
(* the event path of module EventStream.                                   *)
(***************************************************************************)
EXTENDS Integers, FiniteSets, Sequences, TaskSyncConstants

VARIABLES
    tasks,      \* hub db: the tasks table of this agent
    rowRev,     \* hub db: agents.tasks_revision
    rowSync,    \* hub db: agents.tasks_sync_id
    rowStatus,  \* hub db: agents.tasks_sync_status
    nextSync,   \* the next random sync id, as a number
    conn,       \* gateway: number of the ready connection, 0 if there is none
    accepted,   \* bound: connections accepted so far
    connSync,   \* gateway: connection.tasks_sync_id, 0 for ""
    pushes,     \* gateway: push_tasks calls between prepare and the send
    connected,  \* agent: the link is up
    down,       \* wire: sync_tasks frames the agent has not read
    queue,      \* agent: frames in the control queue
    held,       \* agent db: the tasks table
    receipts,   \* agent db: tasks_applied events the hub has not applied
    edits, fails, losses

rowVars   == <<rowRev, rowSync, rowStatus>>
hubVars   == <<rowVars, nextSync, conn, accepted, connSync, pushes>>
agentVars == <<connected, queue, held, receipts>>
bounds    == <<edits, fails, losses>>
vars == <<tasks, hubVars, down, agentVars, bounds>>

Frame(rev, sync) == [rev |-> rev, sync |-> sync]

Init ==
    /\ tasks = Empty
    /\ rowRev = Empty /\ rowSync = 0 /\ rowStatus = "none" /\ nextSync = 1
    /\ conn = 0 /\ accepted = 0 /\ connSync = 0 /\ pushes = {}
    /\ connected = FALSE /\ down = <<>>
    /\ queue = <<>> /\ held = Empty /\ receipts = <<>>
    /\ edits = 0 /\ fails = 0 /\ losses = 0

-----------------------------------------------------------------------------
(* The hub *)

\* A task is created, changed or deleted.
edit(rev) ==
    /\ edits < MaxEdit
    /\ tasks' = rev
    /\ edits' = edits + 1
    /\ UNCHANGED <<hubVars, down, agentVars, fails, losses>>

\* begin_task_sync
begin_task_sync ==
    /\ rowRev' = tasks /\ rowSync' = nextSync /\ rowStatus' = "pending"
    /\ nextSync' = nextSync + 1

\* push_tasks for an agent that is away: remember that it owes a receipt.
push_offline ==
    /\ conn = 0 /\ tasks # rowRev
    /\ begin_task_sync
    /\ UNCHANGED <<tasks, conn, accepted, connSync, pushes, down, agentVars, bounds>>

\* Mutant: only what was never sent is sent.
Unconfirmed_pending == FALSE

\* The receipt of the current sync is still missing, or reports a failure.
Unconfirmed == rowStatus # "applied"

\* push_tasks up to the send, whoever calls it: registration, the edit, or
\* the periodic retry.  A new revision or a new connection gets a new sync
\* id; otherwise the same frame goes out again until it is acknowledged.
push_tasks ==
    /\ conn # 0 /\ Len(down) < MaxWire
    /\ \A p \in pushes : p.conn # conn
    /\ \/ /\ tasks # rowRev \/ connSync = 0 \/ connSync # rowSync
          /\ begin_task_sync
          /\ connSync' = nextSync
          /\ pushes' = pushes \cup {[rev |-> tasks, sync |-> nextSync, conn |-> conn]}
       \/ /\ tasks = rowRev /\ connSync # 0 /\ connSync = rowSync
          /\ Unconfirmed
          /\ pushes' = pushes \cup {[rev |-> tasks, sync |-> rowSync, conn |-> conn]}
          /\ UNCHANGED <<rowVars, nextSync, connSync>>
    /\ UNCHANGED <<tasks, conn, accepted, down, agentVars, bounds>>

\* The frame is written; what is written to a dead socket is lost.
push_sent(p) ==
    /\ p.conn = conn
    /\ pushes' = pushes \ {p}
    /\ down' = IF connected THEN Append(down, Frame(p.rev, p.sync)) ELSE down
    /\ UNCHANGED <<tasks, rowVars, nextSync, conn, accepted, connSync, agentVars, bounds>>

\* Mutants: any receipt of the revision counts; a late failure overrides a
\* success.
Settles_revision(rev, sync) == rowRev = rev /\ rowStatus # "applied"
Settles_again(rev, sync) == rowRev = rev /\ rowSync = sync

\* The WHERE clause of finish_task_sync.
Settles(rev, sync) == rowRev = rev /\ rowSync = sync /\ rowStatus # "applied"

\* finish_task_sync
finish_task_sync(rev, sync, ok) ==
    rowStatus' = IF ~Settles(rev, sync) THEN rowStatus
                 ELSE IF ok THEN "applied" ELSE "failed"

\* The write raised or timed out; in the second case the frame may be in the
\* socket's buffer all the same.
push_failed(p) ==
    /\ pushes' = pushes \ {p}
    /\ finish_task_sync(p.rev, p.sync, FALSE)
    /\ \/ UNCHANGED down
       \/ /\ p.conn = conn /\ connected /\ Len(down) < MaxWire
          /\ down' = Append(down, Frame(p.rev, p.sync))
    /\ UNCHANGED <<tasks, rowRev, rowSync, nextSync, conn, accepted, connSync,
                   agentVars, bounds>>

\* The connection was replaced before the write: nothing is recorded.
push_dropped(p) ==
    /\ p.conn # conn
    /\ pushes' = pushes \ {p}
    /\ UNCHANGED <<tasks, rowVars, nextSync, conn, accepted, connSync, down,
                   agentVars, bounds>>

\* A tasks_applied event is applied.  serve reads no event of a connection
\* before its first push has drawn a sync id.
apply_tasks_applied ==
    /\ conn # 0 /\ connected /\ receipts # <<>> /\ connSync # 0
    /\ LET r == Head(receipts) IN finish_task_sync(r.rev, r.sync, r.ok)
    /\ receipts' = Tail(receipts)
    /\ UNCHANGED <<tasks, rowRev, rowSync, nextSync, conn, accepted, connSync, pushes,
                   down, connected, queue, held, bounds>>

-----------------------------------------------------------------------------
(* The agent *)

\* The frame joins the control queue.
submit ==
    /\ connected /\ down # <<>> /\ Len(queue) < MaxWire
    /\ queue' = Append(queue, Head(down))
    /\ down' = Tail(down)
    /\ UNCHANGED <<tasks, hubVars, connected, held, receipts, bounds>>

Receipt(f, ok) == [rev |-> f.rev, sync |-> f.sync, ok |-> ok]

\* _cmd_sync_tasks: the table and the receipt change in one transaction.
cmd_sync_tasks ==
    /\ queue # <<>> /\ Len(receipts) < MaxWire
    /\ held' = Head(queue).rev
    /\ receipts' = Append(receipts, Receipt(Head(queue), TRUE))
    /\ queue' = Tail(queue)
    /\ UNCHANGED <<tasks, hubVars, down, connected, bounds>>

\* The transaction is rolled back and the failure is reported.
cmd_sync_tasks_failed ==
    /\ queue # <<>> /\ fails < MaxFail /\ Len(receipts) < MaxWire
    /\ receipts' = Append(receipts, Receipt(Head(queue), FALSE))
    /\ queue' = Tail(queue)
    /\ fails' = fails + 1
    /\ UNCHANGED <<tasks, hubVars, down, connected, held, edits, losses>>

-----------------------------------------------------------------------------
(* The connection *)

register ==
    /\ ~connected /\ conn = 0 /\ accepted < MaxConn
    /\ connected' = TRUE /\ down' = <<>>
    /\ conn' = accepted + 1 /\ accepted' = accepted + 1
    /\ connSync' = 0
    /\ UNCHANGED <<tasks, rowVars, nextSync, pushes, queue, held, receipts, bounds>>

\* The agent loses the link, or closes it because its queue is full, or is
\* restarted: frames that have not been applied are gone.
link_lost ==
    /\ connected
    /\ connected' = FALSE /\ down' = <<>> /\ queue' = <<>>
    /\ UNCHANGED <<tasks, hubVars, held, receipts, bounds>>

unregister ==
    /\ conn # 0
    /\ conn' = 0
    /\ UNCHANGED <<tasks, rowVars, nextSync, accepted, connSync, pushes, down,
                   agentVars, bounds>>

\* The hub process dies with its pushes.
hub_restart ==
    /\ conn # 0
    /\ conn' = 0 /\ pushes' = {}
    /\ UNCHANGED <<tasks, rowVars, nextSync, accepted, connSync, down, agentVars, bounds>>

\* The agent starts with an empty store.
rebuild_store ==
    /\ ~connected /\ losses < MaxLost
    /\ held' = Empty /\ receipts' = <<>>
    /\ losses' = losses + 1
    /\ UNCHANGED <<tasks, hubVars, down, connected, queue, edits, fails>>

Next ==
    \/ \E rev \in Revisions : edit(rev)
    \/ push_offline
    \/ push_tasks
    \/ \E p \in pushes : push_sent(p)
    \/ \E p \in pushes : push_failed(p)
    \/ \E p \in pushes : push_dropped(p)
    \/ apply_tasks_applied
    \/ submit
    \/ cmd_sync_tasks
    \/ cmd_sync_tasks_failed
    \/ register
    \/ link_lost
    \/ unregister
    \/ hub_restart
    \/ rebuild_store

Spec == Init /\ [][Next]_vars

\* The retry loop, the sends and the agent's event loop keep running, and a
\* write that is tried again and again succeeds at last.
Progress ==
    /\ WF_vars(push_tasks) /\ WF_vars(apply_tasks_applied)
    /\ WF_vars(\E p \in pushes : push_sent(p) \/ push_failed(p) \/ push_dropped(p))
    /\ SF_vars(\E p \in pushes : push_sent(p))
    /\ WF_vars(submit) /\ WF_vars(cmd_sync_tasks)

\* At last a connection stays up.
Calm == <>[](conn # 0 /\ connected)

FairSpec == Spec /\ Progress /\ Calm

-----------------------------------------------------------------------------
Frames == [rev : Revisions, sync : 1..(nextSync - 1)]

\* Every variable holds what the columns, fields and frames of the code can,
\* and every sync id in use was drawn before.
TypeOK ==
    /\ tasks \in Revisions /\ rowRev \in Revisions /\ held \in Revisions
    /\ rowStatus \in {"none", "pending", "applied", "failed"}
    /\ nextSync \in Nat /\ rowSync \in 0..(nextSync - 1) /\ connSync \in 0..(nextSync - 1)
    /\ conn \in 0..MaxConn /\ accepted \in 0..MaxConn /\ connected \in BOOLEAN
    /\ pushes \subseteq [rev : Revisions, sync : 1..(nextSync - 1), conn : 1..MaxConn]
    /\ down \in Seq(Frames) /\ queue \in Seq(Frames)
    /\ receipts \in Seq([rev : Revisions, sync : 1..(nextSync - 1), ok : BOOLEAN])

\* While the hub shows a revision as applied, that revision is what the agent
\* holds, however receipts of earlier pushes are delayed or frames repeated
\* (the agent's store being replaced aside).
AppliedIsTrue == rowStatus = "applied" /\ losses = 0 => held = rowRev

\* The confirmation of a sync is final: neither a late failure report nor a
\* send that timed out takes it back.
AppliedIsFinal ==
    [][rowStatus = "applied" /\ rowSync' = rowSync => rowStatus' = "applied"]_vars

\* The agent ends up with the tasks of the hub, and the hub knows.
Synced == <>[](held = tasks /\ rowRev = tasks /\ rowStatus = "applied")
=============================================================================
