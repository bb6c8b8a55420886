------------------------- MODULE TaskSyncConstants -------------------------
(* The parameters of module TaskSync and what is assumed of them. *)
EXTENDS Integers

CONSTANTS
    Revisions,  \* task lists an administrator can make
    Empty,      \* the task list a new hub and a new agent start with
    MaxEdit,    \* bound: edits
    MaxConn,    \* bound: connections the hub accepts
    MaxWire,    \* bound: frames in flight, frames queued and receipts waiting
    MaxFail,    \* bound: replace_tasks transactions that fail
    MaxLost     \* bound: times the agent's store is replaced

ASSUME TaskSyncAssumption ==
    /\ Empty \in Revisions
    /\ MaxEdit \in Nat /\ MaxConn \in Nat /\ MaxWire \in Nat
    /\ MaxFail \in Nat /\ MaxLost \in Nat
=============================================================================
