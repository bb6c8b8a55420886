------------------------------- MODULE Schema -------------------------------
(***************************************************************************)
(* Opening the hub's database file (db.py Database.__init__): a new file   *)
(* gets the current schema, an old one is copied aside, completed with the *)
(* tables it lacks and then migrated step by step, one transaction each.   *)
(* The process may be killed between any two statements, and a statement   *)
(* may fail; the next start begins again from what is on disk.             *)
(*                                                                         *)
(* A table is the set of the schema versions whose columns it has, with 0  *)
(* for the table itself: {} is a table that is not there.  The current     *)
(* schema of a table is what the steps add to it: SCHEMA and MIGRATIONS    *)
(* are taken to agree.                                                     *)
(***************************************************************************)
EXTENDS Naturals, Sequences

CONSTANT MaxFaults     \* failed statements and kills, together

VARIABLES file,        \* what is committed: version, tables, tables with their old rows
          txn,         \* what the open transaction sees
          pc,          \* where the start stands
          todo,        \* the statements left of the step under way
          preExisting, \* the file held a schema before this start
          snaps,       \* the <db>.v<N>.bak files, by N
          original,    \* the file as it was found at first
          faults

schemaVars == <<file, txn, pc, todo, preExisting, snaps, original, faults>>

SCHEMA_VERSION == 19

(* The tables in the order SCHEMA creates them.                            *)
SchemaOrder == <<"agents", "ingested", "sims", "devices", "messages", "calls",
                 "segments", "device_status", "outbox", "tasks", "task_logs",
                 "operations">>
Tables == {SchemaOrder[i] : i \in DOMAIN SchemaOrder}

(* A statement of a step: what it does, and to which table.                *)
Add(t) == <<"add", t>>
Create(t) == <<"create", t>>
Rewrite(t) == <<"rewrite", t>>     \* rows are updated, or an index is made

(* The steps, by the version they lead to: 1 is _reconcile_to_baseline.    *)
BaselineStep == <<Add("messages"), Add("devices")>>

(* v2 to v10.                                                              *)
EarlySteps ==
    <<BaselineStep,
      <<Add("messages")>>, <<Add("agents")>>, <<Create("segments")>>,
      <<Rewrite("messages")>>, <<Add("sims")>>, <<Rewrite("messages")>>,
      <<Add("devices")>>, <<Add("devices"), Add("device_status")>>,
      <<Add("messages")>> >>

(* Mutant: v11 to v15, the old table dropped before its rows are copied.   *)
LaterSteps_swapped ==
    << <<Create("calls")>>, <<Add("devices")>>, <<Add("devices")>>,
       <<Add("agents"), <<"swap", "ingested">>, <<"copy", "ingested">> >>,
       <<Add("tasks"), Rewrite("tasks")>> >>

(* v11 to v15: the primary key of ingested changes by building the table   *)
(* anew, and each task is pinned to a module row.                          *)
LaterSteps ==
    << <<Create("calls")>>, <<Add("devices")>>, <<Add("devices")>>,
       <<Add("agents"), <<"copy", "ingested">>, <<"swap", "ingested">> >>,
       <<Add("tasks"), Rewrite("tasks")>> >>

(* v16 to v19.                                                             *)
OutboxSteps ==
    << <<Create("outbox")>>, <<Add("agents")>>, <<Create("operations")>>,
       <<Add("task_logs")>> >>

MIGRATIONS == EarlySteps \o LaterSteps \o OutboxSteps

(* The versions that add columns to a table, and the tables that step k    *)
(* creates.                                                                *)
Adds(t) == {k \in 1..SCHEMA_VERSION :
              \E i \in DOMAIN MIGRATIONS[k] : MIGRATIONS[k][i] \in {Add(t), <<"swap", t>>}}
CreatedBy(k) == {t \in Tables : \E i \in DOMAIN MIGRATIONS[k] : MIGRATIONS[k][i] = Create(t)}

(* The current shape of a table, as SCHEMA makes it.                       *)
Full(t) == {0} \union Adds(t)

(* A database of version v as its own server left it; before version 1 the *)
(* columns of the baseline may be there or not.                            *)
Old(v, extra) ==
    [version |-> v,
     cols |-> [t \in Tables |->
                 IF \E k \in 1..SCHEMA_VERSION : k > v /\ t \in CreatedBy(k) THEN {}
                 ELSE {0} \union {k \in Adds(t) : k <= v}
                          \union (IF t \in extra THEN {1} ELSE {})],
     rows |-> {t \in Tables : \A k \in 1..SCHEMA_VERSION : k > v => t \notin CreatedBy(k)}]

NoFile == [version |-> 0, cols |-> [t \in Tables |-> {}], rows |-> {}]
NoSnapshot == [version |-> SCHEMA_VERSION + 1, cols |-> NoFile.cols, rows |-> {}]

Found == {NoFile} \union {Old(v, {}) : v \in 0..SCHEMA_VERSION + 1}
         \union {Old(0, x) : x \in {{"messages"}, {"devices"}, {"messages", "devices"}}}

Init ==
    /\ file \in Found
    /\ original = file
    /\ txn = NoFile /\ todo = <<>>
    /\ pc = "closed"
    /\ preExisting = FALSE
    /\ snaps = [v \in 0..SCHEMA_VERSION |-> NoSnapshot]
    /\ faults = 0

-----------------------------------------------------------------------------
(* _has_schema, then the version check of _prepare_schema.                 *)
start ==
    /\ pc = "closed"
    /\ preExisting' = (file.cols["devices"] # {})
    /\ pc' = IF file.version > SCHEMA_VERSION THEN "refused"
             ELSE IF preExisting' /\ file.version < SCHEMA_VERSION THEN "snapshot"
             ELSE "schema"
    /\ UNCHANGED <<file, txn, todo, snaps, original, faults>>

(* _snapshot_before_migration: one copy per version found.                 *)
_snapshot_before_migration ==
    /\ pc = "snapshot"
    /\ snaps' = [snaps EXCEPT ![file.version] = file]
    /\ pc' = "schema"
    /\ UNCHANGED <<file, txn, todo, preExisting, original, faults>>

Missing == {i \in DOMAIN SchemaOrder : file.cols[SchemaOrder[i]] = {}}

(* executescript(SCHEMA): every CREATE TABLE IF NOT EXISTS commits itself. *)
create_missing ==
    /\ pc = "schema" /\ Missing # {}
    /\ LET i == CHOOSE x \in Missing : \A y \in Missing : x <= y IN
         file' = [file EXCEPT !.cols[SchemaOrder[i]] = Full(SchemaOrder[i])]
    /\ UNCHANGED <<txn, pc, todo, preExisting, snaps, original, faults>>

(* Mutant: the file is stamped with one version too many.                  *)
_migrate_off_by_one ==
    /\ pc = "schema" /\ Missing = {}
    /\ file' = [file EXCEPT !.version = SCHEMA_VERSION + 1]
    /\ pc' = "open" /\ UNCHANGED <<txn, todo>>
    /\ UNCHANGED <<preExisting, snaps, original, faults>>

(* _migrate: nothing to do, a new file to stamp, or the first step.        *)
_migrate ==
    /\ pc = "schema" /\ Missing = {}
    /\ \/ /\ file.version = SCHEMA_VERSION
          /\ pc' = "open" /\ UNCHANGED <<file, txn, todo>>
       \/ /\ file.version < SCHEMA_VERSION /\ ~preExisting
          /\ file' = [file EXCEPT !.version = SCHEMA_VERSION]
          /\ pc' = "open" /\ UNCHANGED <<txn, todo>>
       \/ /\ file.version < SCHEMA_VERSION /\ preExisting
          /\ pc' = "step"
          /\ txn' = file /\ todo' = MIGRATIONS[file.version + 1]
          /\ UNCHANGED file
    /\ UNCHANGED <<preExisting, snaps, original, faults>>

(* _add_columns_if_missing: a column that is there is skipped.             *)
Skips(t, k) == k \in txn.cols[t]

(* What a statement of step k makes of the transaction.  The rows of       *)
(* ingested are copied, then the old table is dropped and the new one      *)
(* takes its name.                                                         *)
Run(st, k) ==
    LET t == st[2] IN
    CASE st[1] = "add" -> IF Skips(t, k) THEN txn ELSE [txn EXCEPT !.cols[t] = @ \union {k}]
      [] st[1] = "create" -> IF txn.cols[t] # {} THEN txn ELSE [txn EXCEPT !.cols[t] = Full(t)]
      [] st[1] = "copy" -> IF Skips(t, k) THEN txn ELSE [txn EXCEPT !.rows = @ \union {"copy"}]
      [] st[1] = "swap" ->
           IF Skips(t, k) THEN txn
           ELSE [txn EXCEPT !.cols[t] = @ \union {k},
                            !.rows = IF "copy" \in @ THEN @ \ {"copy"} ELSE @ \ {t}]
      [] st[1] = "rewrite" -> txn

_run_statement ==
    /\ pc = "step" /\ todo # <<>>
    /\ txn' = Run(Head(todo), file.version + 1)
    /\ todo' = Tail(todo)
    /\ UNCHANGED <<file, pc, preExisting, snaps, original, faults>>

(* _run_step commits the step and its version together, and the next one   *)
(* begins.                                                                 *)
_run_step ==
    /\ pc = "step" /\ todo = <<>>
    /\ file' = [txn EXCEPT !.version = file.version + 1]
    /\ IF file'.version = SCHEMA_VERSION
       THEN pc' = "open" /\ UNCHANGED <<txn, todo>>
       ELSE txn' = file' /\ todo' = MIGRATIONS[file'.version + 1] /\ UNCHANGED pc
    /\ UNCHANGED <<preExisting, snaps, original, faults>>

Closed == pc' = "closed" /\ txn' = NoFile /\ todo' = <<>>

(* Any statement fails (ROLLBACK, MigrationFailed, and the server does not *)
(* start), or the process is killed or stopped.                            *)
fault ==
    /\ pc \in {"snapshot", "schema", "step"} /\ faults < MaxFaults
    /\ faults' = faults + 1
    /\ Closed
    /\ UNCHANGED <<file, preExisting, snaps, original>>

Working == start \/ _snapshot_before_migration \/ create_missing \/ _migrate
           \/ _run_statement \/ _run_step

Next == Working \/ fault

Spec == Init /\ [][Next]_schemaVars

(* A start that is not interrupted goes on; the server is restarted.       *)
Fairness == WF_schemaVars(Working)

-----------------------------------------------------------------------------
(* Properties *)

(* Every variable has its type.                                            *)
TypeOK ==
    /\ file.version \in 0..SCHEMA_VERSION \/ file = original
    /\ \A t \in Tables : file.cols[t] \subseteq Full(t) /\ txn.cols[t] \subseteq Full(t)
    /\ file.rows \subseteq Tables
    /\ pc \in {"closed", "snapshot", "schema", "step", "open", "refused"}
    /\ preExisting \in BOOLEAN /\ faults \in 0..MaxFaults

(* db.py _migrate: whatever was found and however often the start was      *)
(* interrupted, a database that is open has every table in its current     *)
(* shape, so no handler meets a missing column.                            *)
OpenIsCurrent ==
    pc = "open" => file.version = SCHEMA_VERSION /\ \A t \in Tables : file.cols[t] = Full(t)

(* db.py _run_step ("a step that committed its DDL but not its version"):  *)
(* the version on disk is never ahead of the shape.                        *)
VersionIsTrue ==
    \A t \in Tables : \A k \in Adds(t) :
        k <= file.version /\ file.cols[t] # {} => k \in file.cols[t]

SameTables(s) == \A t \in original.rows : s.cols[t] = original.cols[t]

(* db.py _migration_event_stream_epoch and the steps around it: the rows a *)
(* table held are on disk after every committed step.                      *)
RowsKept == file.rows = original.rows

(* db.py _snapshot_before_migration ("would leave no way back"): once a    *)
(* table or the version of a database that held data has changed, a copy   *)
(* of it as it was found is still there.                                   *)
WayBack ==
    original.rows # {} /\ (~SameTables(file) \/ file.version # original.version)
    => \E v \in DOMAIN snaps :
         snaps[v].version = original.version /\ SameTables(snaps[v])

(* db.py _add_columns_if_missing: a start that is not interrupted for ever *)
(* ends with the database open, or refused as newer than the server.       *)
Opens == <>(pc \in {"open", "refused"})
=============================================================================
