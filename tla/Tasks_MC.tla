------------------------------ MODULE Tasks_MC ------------------------------
(***************************************************************************)
(* The keep-alive tasks in one run: the scheduler that runs a task on the  *)
(* agent, and the synchronization that brings the task list there.  The    *)
(* scheduler meets a synchronization as replace_tasks, so the two share no *)
(* state; the initial state says which of them moves.                      *)
(***************************************************************************)
EXTENDS Scheduler, TaskSyncConstants

CONSTANTS r0, r1    \* two task lists

VARIABLES part,
    (* TaskSync *)
    tasks, rowRev, rowSync, rowStatus, nextSync, conn, accepted, connSync, pushes,
    connected, down, queue, held, receipts, edits, fails, losses

Sync == INSTANCE TaskSync

syncVars == <<tasks, rowRev, rowSync, rowStatus, nextSync, conn, accepted, connSync,
              pushes, connected, down, queue, held, receipts, edits, fails, losses>>

TasksInit == part \in {"schedule", "sync"} /\ Init /\ Sync!Init

TasksNext ==
    \/ part = "schedule" /\ Next /\ UNCHANGED <<part, syncVars>>
    \/ part = "sync" /\ Sync!Next /\ UNCHANGED <<part, vars>>

(* The fairness of each part, as its module states and justifies it.       *)
ScheduleFair ==
    /\ WF_vars(part = "schedule" /\ tick_once)
    /\ WF_vars(part = "schedule" /\ \E r \in runs : perform(r))
    /\ WF_vars(part = "schedule" /\ \E r \in runs : Continues(r))

SyncFair == Sync!Progress /\ <>[](part = "sync" => conn # 0 /\ connected)

TasksSpec ==
    TasksInit /\ [][TasksNext]_<<part, vars, syncVars>> /\ ScheduleFair /\ SyncFair

-----------------------------------------------------------------------------
(* Both parts keep the types of their modules.                             *)
TasksTypeOK == TypeOK /\ Sync!TypeOK

(* gateway.py, db.py finish_task_sync: a revision the hub shows as applied *)
(* is the one the agent holds.                                             *)
AppliedIsTrue == Sync!AppliedIsTrue

(* db.py finish_task_sync: a confirmation is never taken back.             *)
AppliedIsFinal == Sync!AppliedIsFinal

(* gateway.py retry_task_sync: the agent ends up with the tasks of the hub *)
(* once a connection stays up.                                             *)
Synced == part = "sync" => Sync!Synced
=============================================================================
