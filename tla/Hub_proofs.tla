----------------------------- MODULE Hub_proofs -----------------------------
(***************************************************************************)
(* Theorems about the parts of the hub.                                    *)
(*                                                                         *)
(* The registry of agent sessions and the online restore, for every set of *)
(* agents, sockets, requests and events, every number of restores and of   *)
(* kills.  The inductive invariant says who owns what is queued for the    *)
(* writer thread, that the step of a restore is always the last entry of   *)
(* that queue, and that a session the gateway has not retired holds its    *)
(* agent's id from its hello to the end of its clean-up.                   *)
(*                                                                         *)
(* The SMS delivery reports, for every number of messages, segments and    *)
(* reports: a report that comes before its send waits in a row of its own, *)
(* and what such a row holds is what was reported of the message that is   *)
(* being sent.                                                             *)
(*                                                                         *)
(* The offline alerts, for any number of reports and restarts: tasks, jobs *)
(* and answers are one queue, in which no recovery stands behind the job a *)
(* timer waits for.                                                        *)
(*                                                                         *)
(* The opening of the database file, for any number of interruptions: the  *)
(* transaction holds what the statements run so far have done, a table is  *)
(* dropped only after it was copied, and a file that has changed was       *)
(* copied first.                                                           *)
(*                                                                         *)
(* And what the run of the four together checks, for all of these at once. *)
(***************************************************************************)
EXTENDS Hub_MC, SequenceTheorems, WellFoundedInduction, TLAPS

Rows == Items \union Requests
SessionRow == [at : SessionAt, agent : Agents \union {None},
               item : Items \union {None}, gw : Nat]
Database == [connected : SUBSET Agents, rows : SUBSET Rows, backup : Nat]
Copy == [connected : SUBSET Agents, rows : SUBSET Rows, backup : Nat,
         owed : SUBSET Rows, taken : BOOLEAN]
SessionWrites == {"register", "disconnect", "event"}
Entry == (SessionWrites \union {"row", "restore"}) \X (Sockets \union Requests \union DbSteps)

Types ==
    /\ sess \in [Sockets -> SessionRow]
    /\ conns \in [Agents -> Sockets \union {None}]
    /\ ready \subseteq Sockets
    /\ gw \in Nat
    /\ pending \in [Requests -> Sockets \union {None}]
    /\ req \in [Requests -> RequestAt]
    /\ writer \in Seq(Entry)
    /\ db \in Database
    /\ owed \subseteq Rows
    /\ step \in Steps
    /\ snapshot \in Copy

Flags ==
    /\ retiring \in BOOLEAN /\ maintenance \in BOOLEAN /\ active \in BOOLEAN
    /\ outcome \in {"none", "unchanged", "restored", "rolled_back", "manual_recovery"}
    /\ notifier \in {"running", "paused"}

(* The API is closed exactly while the gateway is retired and refuses      *)
(* registrations; a switch past the wait for the requests has none left.   *)
Control ==
    /\ active => retiring /\ maintenance
    /\ ~active => ~retiring /\ ~maintenance /\ notifier = "running"
    /\ ~active => step \in {"idle", "preparing"}
    /\ step = "preparing" => ~active
    /\ step \in DbSteps => \A r \in Requests : req[r] \in {"none", "done"}

(* The entry of the writer's queue is the one its owner waits for, and a   *)
(* session's comes from a later gateway than the one that was restored.    *)
Queued(e) ==
    /\ e[1] \in SessionWrites => e[2] \in Sockets /\ sess[e[2]].gw > db.backup
    /\ e[1] = "register" => sess[e[2]].at = "registering"
    /\ e[1] = "disconnect" => sess[e[2]].at = "leaving"
    /\ e[1] = "event" => sess[e[2]].at = "applying"
    /\ e[1] = "row" => e[2] \in Requests /\ req[e[2]] = "writing"
    /\ e[1] = "restore" => e[2] = step /\ step \in DbSteps

(* Nobody waits for two entries, and what follows the step of a restore is *)
(* queued after it has been executed.                                      *)
WriterOK ==
    /\ \A k \in 1..Len(writer) : Queued(writer[k])
    /\ \A j, k \in 1..Len(writer) : writer[j] = writer[k] => j = k
    /\ \A k \in 1..Len(writer) : writer[k][1] = "restore" => k = Len(writer)

Holding == {"registering", "persisted", "serving", "applying", "applied", "leaving", "left"}
Serving == {"serving", "applying", "applied"}

(* A session that is not retired holds the id of its agent; once it is     *)
(* registered the database shows the agent, and what it has applied is in  *)
(* the database.                                                           *)
SessionOK(s) ==
    /\ sess[s].gw <= gw
    /\ sess[s].at \in Holding => sess[s].agent \in Agents
    /\ sess[s].at \in {"applying", "applied"} => sess[s].item \in Items
    /\ s \in ready => sess[s].at \in Serving /\ ~Retired(s)
    /\ ~Retired(s) /\ sess[s].at \in Holding => conns[sess[s].agent] = s
    /\ ~Retired(s) /\ sess[s].at \in Serving \union {"persisted"} =>
           sess[s].agent \in db.connected
    /\ ~Retired(s) /\ sess[s].at = "applied" => sess[s].item \in db.rows

(* A call that waits is registered with the session it was sent on.        *)
CallOK(r) ==
    /\ pending[r] # None => pending[r] \in ready /\ req[r] = "calling"
    /\ req[r] = "written" => r \in db.rows

(* What was promised is in the database, and in the snapshot while it may  *)
(* be put back.                                                            *)
Promised ==
    /\ owed \subseteq db.rows
    /\ step \in {"replace", "reset", "verify", "rollback"} =>
           owed \subseteq snapshot.rows /\ snapshot.owed \subseteq snapshot.rows

(* A database is restored under a gateway that is retired.                 *)
Marked ==
    /\ db.backup <= gw /\ snapshot.backup <= gw
    /\ ~retiring => db.backup < gw

(* The inductive invariant.                                                *)
IInv ==
    /\ Types /\ Flags /\ Control /\ WriterOK
    /\ \A s \in Sockets : SessionOK(s)
    /\ \A r \in Requests : CallOK(r)
    /\ Promised /\ Marked

-----------------------------------------------------------------------------
(* The writer's queue *)

(* The queue stays sound when no entry loses its owner.                    *)
LEMMA QueueKept ==
    ASSUME Types, WriterOK, writer' = writer,
           \A e \in Entry : Queued(e) => Queued(e)'
    PROVE  WriterOK'
<1>1. \A k \in 1..Len(writer) : writer[k] \in Entry
  BY DEF Types
<1> QED
  BY <1>1 DEF WriterOK

(* A new entry joins the queue while no restore is at work on the          *)
(* database.                                                               *)
LEMMA QueueGrows ==
    ASSUME Types, WriterOK, NEW e \in Entry, writer' = Append(writer, e),
           ~Queued(e), Queued(e)', step \notin DbSteps,
           \A f \in Entry : Queued(f) => Queued(f)'
    PROVE  writer' \in Seq(Entry) /\ WriterOK'
<1> DEFINE n == Len(writer)
<1>1. /\ n \in Nat /\ writer' \in Seq(Entry) /\ Len(writer') = n + 1
      /\ writer'[n + 1] = e /\ \A k \in 1..n : writer'[k] = writer[k]
  BY DEF Types
<1>2. \A k \in 1..n : writer[k] \in Entry /\ Queued(writer[k]) /\ writer[k] # e
  BY DEF Types, WriterOK
<1>3. \A k \in 1..n : writer[k][1] # "restore"
  BY <1>2 DEF Queued
<1> HIDE DEF n
<1>4. \A k \in 1..Len(writer') : k \in 1..n \/ k = n + 1
  BY <1>1
<1>5. \A k \in 1..Len(writer') : Queued(writer[k])'
  BY <1>1, <1>2, <1>4
<1>6. \A j, k \in 1..Len(writer') : writer'[j] = writer'[k] => j = k
  BY <1>1, <1>2, <1>4 DEF WriterOK, n
<1>7. \A k \in 1..Len(writer') : writer'[k][1] = "restore" => k = Len(writer')
  BY <1>1, <1>3, <1>4
<1> QED
  BY <1>1, <1>5, <1>6, <1>7 DEF WriterOK

(* The writer has executed the first entry.                                *)
LEMMA QueueShrinks ==
    ASSUME Types, WriterOK, writer # <<>>, writer' = Tail(writer),
           \A f \in Entry : f # Head(writer) /\ Queued(f) => Queued(f)'
    PROVE  writer' \in Seq(Entry) /\ WriterOK'
<1> DEFINE n == Len(writer)
<1>1. /\ n \in Nat /\ n > 0 /\ writer' \in Seq(Entry) /\ Len(writer') = n - 1
      /\ \A k \in 1..(n - 1) : writer'[k] = writer[k + 1]
      /\ Head(writer) = writer[1]
  BY DEF Types
<1>2. \A k \in 1..n : writer[k] \in Entry /\ Queued(writer[k])
  BY DEF Types, WriterOK
<1>3. \A k \in 1..(n - 1) : k + 1 \in 1..n /\ k + 1 # 1
  BY <1>1
<1>4. \A k \in 1..(n - 1) : writer[k + 1] # Head(writer)
  <2> SUFFICES ASSUME NEW k \in 1..(n - 1), writer[k + 1] = writer[1] PROVE FALSE
    BY <1>1
  <2>1. 1 \in 1..n
    BY <1>1
  <2> QED
    BY <1>3, <2>1 DEF WriterOK
<1>5. \A k \in 1..Len(writer') : Queued(writer[k])'
  BY <1>1, <1>2, <1>3, <1>4
<1>6. \A j, k \in 1..Len(writer') : writer'[j] = writer'[k] => j = k
  <2> SUFFICES ASSUME NEW j \in 1..(n - 1), NEW k \in 1..(n - 1), writer'[j] = writer'[k]
               PROVE  j = k
    BY <1>1
  <2>1. j + 1 = k + 1
    BY <1>1, <1>3 DEF WriterOK
  <2> QED
    BY <2>1, <1>1
<1>7. \A k \in 1..Len(writer') : writer'[k][1] = "restore" => k = Len(writer')
  <2> SUFFICES ASSUME NEW k \in 1..(n - 1), writer'[k][1] = "restore" PROVE k = n - 1
    BY <1>1
  <2>1. k + 1 = n
    BY <1>1, <1>3 DEF WriterOK
  <2> QED
    BY <2>1, <1>1
<1> QED
  BY <1>1, <1>5, <1>6, <1>7 DEF WriterOK

(* The entry the writer takes, and its owner.                              *)
LEMMA FirstEntry ==
    ASSUME Types, WriterOK, NEW kind, NextWrite(kind)
    PROVE  /\ writer # <<>> /\ Head(writer) \in Entry /\ Queued(Head(writer))
           /\ Head(writer)[1] = kind /\ Head(writer)[2] = Writing
           /\ Head(writer) = <<kind, Writing>>
<1>1. writer # <<>> /\ Head(writer) \in Entry /\ Head(writer) = writer[1] /\ 1 \in 1..Len(writer)
  BY DEF NextWrite, Types
<1>2. Queued(Head(writer))
  BY <1>1 DEF WriterOK
<1> QED
  BY <1>1, <1>2 DEF NextWrite, Writing, Entry

-----------------------------------------------------------------------------
(* Sessions *)

(* A step of one session changes its own record.                           *)
LEMMA AtType ==
    ASSUME Types, NEW s \in Sockets, NEW place \in SessionAt, At(s, place)
    PROVE  /\ sess' \in [Sockets -> SessionRow]
           /\ sess'[s] = [sess[s] EXCEPT !.at = place]
           /\ sess'[s].at = place /\ sess'[s].agent = sess[s].agent
           /\ sess'[s].item = sess[s].item /\ sess'[s].gw = sess[s].gw
           /\ \A t \in Sockets \ {s} : sess'[t] = sess[t]
<1>1. sess[s] \in SessionRow
  BY DEF Types
<1>2. [sess[s] EXCEPT !.at = place] \in SessionRow
  BY <1>1 DEF SessionRow
<1>3. sess' = [sess EXCEPT ![s] = [sess[s] EXCEPT !.at = place]]
  BY DEF At
<1> QED
  BY <1>1, <1>2, <1>3 DEF Types, SessionRow

(* A session that is not touched stays sound.                              *)
LEMMA SessionKept ==
    ASSUME Types, NEW s \in Sockets, SessionOK(s), sess'[s] = sess[s], gw' = gw,
           retiring' = retiring, s \in ready' => s \in ready,
           ~Retired(s) /\ sess[s].at \in Holding => conns'[sess[s].agent] = conns[sess[s].agent],
           ~Retired(s) /\ sess[s].at \in Holding =>
               (sess[s].agent \in db.connected => sess[s].agent \in db'.connected),
           db.rows \subseteq db'.rows
    PROVE  SessionOK(s)'
BY DEF SessionOK, Retired, Holding, Serving

(* Flags and control when a step leaves the restore and the gateway alone. *)
LEMMA FlagsKept == ASSUME Flags, UNCHANGED <<gatewayVars, controlVars>> PROVE Flags'
BY DEF Flags, gatewayVars, controlVars

(* The same for the position of the restore.                               *)
LEMMA ControlKept ==
    ASSUME Control, UNCHANGED <<gatewayVars, controlVars>>,
           step \in DbSteps => \A r \in Requests : req'[r] \in {"none", "done"}
    PROVE  Control'
BY DEF Control, gatewayVars, controlVars

-----------------------------------------------------------------------------
(* Requests *)

(* While a request is in flight no step of a restore touches the database. *)
LEMMA InFlightNoStep ==
    ASSUME IInv, NEW r \in Requests, req[r] \notin {"none", "done"}
    PROVE  step \notin DbSteps
BY DEF IInv, Control

(* A step of a request that leaves sessions and database alone.            *)
LEMMA RequestFrame ==
    ASSUME IInv, NEW r \in Requests, NEW place \in RequestAt,
           req' = [req EXCEPT ![r] = place], req[r] # "writing", step \notin DbSteps,
           UNCHANGED <<sess, conns, ready, gatewayVars, controlVars, db>>
    PROVE  /\ Flags' /\ Control' /\ Marked'
           /\ \A s \in Sockets : SessionOK(s)'
           /\ \A e \in Entry : Queued(e) => Queued(e)'
           /\ req' \in [Requests -> RequestAt] /\ req'[r] = place
           /\ \A q \in Requests \ {r} : req'[q] = req[q]
<1>1. /\ req' \in [Requests -> RequestAt] /\ req'[r] = place
      /\ \A q \in Requests \ {r} : req'[q] = req[q]
  BY DEF IInv, Types
<1>2. Flags' /\ Control'
  BY FlagsKept, ControlKept DEF IInv
<1>3. \A s \in Sockets : SessionOK(s)'
  BY SessionKept DEF IInv, gatewayVars
<1>4. \A e \in Entry : Queued(e) => Queued(e)'
  BY <1>1 DEF Queued, controlVars
<1>5. Marked'
  BY DEF IInv, Marked, gatewayVars, controlVars
<1> QED
  BY <1>1, <1>2, <1>3, <1>4, <1>5

(* RestoreMiddleware lets a request in.                                    *)
LEMMA OpenRequestStep ==
    ASSUME IInv, NEW r \in Requests, open_request(r)
    PROVE  IInv'
<1>1. /\ req[r] = "none" /\ req' = [req EXCEPT ![r] = "running"] /\ ~active
      /\ UNCHANGED <<sess, conns, ready, gatewayVars, pending, writer, db, owed, controlVars>>
  BY DEF open_request, request
<1>2. step \notin DbSteps
  BY <1>1 DEF IInv, Control, DbSteps
<1>3. /\ Flags' /\ Control' /\ Marked'
      /\ \A s \in Sockets : SessionOK(s)'
      /\ \A e \in Entry : Queued(e) => Queued(e)'
      /\ req' \in [Requests -> RequestAt] /\ req'[r] = "running"
      /\ \A q \in Requests \ {r} : req'[q] = req[q]
  BY <1>1, <1>2, RequestFrame DEF RequestAt
<1>4. Types'
  BY <1>1, <1>3 DEF IInv, Types, gatewayVars, controlVars
<1>5. WriterOK'
  BY <1>1, <1>3, QueueKept DEF IInv
<1>6. \A q \in Requests : CallOK(q)'
  BY <1>1, <1>3 DEF IInv, CallOK
<1>7. Promised'
  BY <1>1 DEF IInv, Promised, controlVars
<1> QED
  BY <1>3, <1>4, <1>5, <1>6, <1>7 DEF IInv

(* A call goes out to the session that is registered and ready, or runs    *)
(* into its timeout.                                                       *)
LEMMA CallStep ==
    ASSUME IInv, NEW r \in Requests, UNCHANGED controlVars,
           (\E a \in Agents : call(r, a)) \/ call_timeout(r)
    PROVE  IInv'
<1>1. PICK place \in {"calling", "running"}, s \in Sockets \union {None} :
        /\ req' = [req EXCEPT ![r] = place] /\ pending' = [pending EXCEPT ![r] = s]
        /\ s # None => s \in ready /\ place = "calling"
        /\ req[r] \in {"running", "calling"}
  <2>1. CASE \E a \in Agents : call(r, a)
    <3>1. PICK a \in Agents : call(r, a)
      BY <2>1
    <3>2. conns[a] \in ready /\ conns[a] \in Sockets \union {None}
      BY <3>1 DEF call, IInv, Types
    <3> QED
      BY <3>1, <3>2 DEF call
  <2>2. CASE call_timeout(r)
    BY <2>2 DEF call_timeout
  <2> QED
    BY <2>1, <2>2
<1>2. UNCHANGED <<sess, conns, ready, gatewayVars, writer, db, owed, controlVars>>
  BY DEF call, call_timeout
<1>3. step \notin DbSteps
  BY <1>1, InFlightNoStep
<1>4. /\ Flags' /\ Control' /\ Marked'
      /\ \A t \in Sockets : SessionOK(t)'
      /\ \A e \in Entry : Queued(e) => Queued(e)'
      /\ req' \in [Requests -> RequestAt] /\ req'[r] = place
      /\ \A q \in Requests \ {r} : req'[q] = req[q]
  <2>1. place \in RequestAt /\ req[r] # "writing"
    BY <1>1 DEF RequestAt
  <2> QED
    BY <1>1, <1>2, <1>3, <2>1, RequestFrame
<1>5. /\ pending' \in [Requests -> Sockets \union {None}] /\ pending'[r] = s
      /\ \A q \in Requests \ {r} : pending'[q] = pending[q]
  BY <1>1 DEF IInv, Types
<1>6. Types'
  BY <1>2, <1>4, <1>5 DEF IInv, Types, gatewayVars, controlVars
<1>7. WriterOK'
  BY <1>2, <1>4, QueueKept DEF IInv
<1>8. \A q \in Requests : CallOK(q)'
  BY <1>1, <1>2, <1>4, <1>5 DEF IInv, CallOK
<1>9. Promised'
  BY <1>2 DEF IInv, Promised, controlVars
<1> QED
  BY <1>4, <1>6, <1>7, <1>8, <1>9 DEF IInv

(* A handler queues its row behind what is there.                          *)
LEMMA WriteStep ==
    ASSUME IInv, NEW r \in Requests, UNCHANGED controlVars, write(r)
    PROVE  IInv'
<1> DEFINE e == <<"row", r>>
<1>1. /\ req[r] = "running" /\ req' = [req EXCEPT ![r] = "writing"]
      /\ writer' = Append(writer, e)
      /\ UNCHANGED <<sess, conns, ready, gatewayVars, pending, db, owed, controlVars>>
  BY DEF write, Queue
<1>2. step \notin DbSteps
  BY <1>1, InFlightNoStep
<1>3. /\ Flags' /\ Control' /\ Marked'
      /\ \A s \in Sockets : SessionOK(s)'
      /\ \A f \in Entry : Queued(f) => Queued(f)'
      /\ req' \in [Requests -> RequestAt] /\ req'[r] = "writing"
      /\ \A q \in Requests \ {r} : req'[q] = req[q]
  BY <1>1, <1>2, RequestFrame DEF RequestAt
<1>4. e \in Entry /\ e[1] # "restore" /\ ~Queued(e) /\ Queued(e)'
  BY <1>1, <1>3 DEF Entry, Queued, SessionWrites
<1> HIDE DEF e
<1>5. writer' \in Seq(Entry) /\ WriterOK'
  BY <1>1, <1>2, <1>3, <1>4, QueueGrows DEF IInv
<1>6. Types'
  BY <1>1, <1>3, <1>5 DEF IInv, Types, gatewayVars, controlVars
<1>7. \A q \in Requests : CallOK(q)'
  BY <1>1, <1>3 DEF IInv, CallOK
<1>8. Promised'
  BY <1>1 DEF IInv, Promised, controlVars
<1> QED
  BY <1>3, <1>5, <1>6, <1>7, <1>8 DEF IInv

(* The answer promises what was written.                                   *)
LEMMA RespondStep ==
    ASSUME IInv, NEW r \in Requests, UNCHANGED controlVars, respond(r)
    PROVE  IInv'
<1>1. /\ req[r] \in {"running", "written"} /\ req' = [req EXCEPT ![r] = "done"]
      /\ owed' = (IF req[r] = "written" THEN owed \union {r} ELSE owed)
      /\ UNCHANGED <<sess, conns, ready, gatewayVars, pending, writer, db, controlVars>>
  BY DEF respond
<1>2. step \notin DbSteps
  BY <1>1, InFlightNoStep
<1>3. /\ Flags' /\ Control' /\ Marked'
      /\ \A s \in Sockets : SessionOK(s)'
      /\ \A e \in Entry : Queued(e) => Queued(e)'
      /\ req' \in [Requests -> RequestAt] /\ req'[r] = "done"
      /\ \A q \in Requests \ {r} : req'[q] = req[q]
  BY <1>1, <1>2, RequestFrame DEF RequestAt
<1>4. owed' \subseteq Rows /\ owed' \subseteq db.rows
  BY <1>1 DEF IInv, Types, Promised, CallOK, Rows
<1>5. Types'
  BY <1>1, <1>3, <1>4 DEF IInv, Types, gatewayVars, controlVars
<1>6. WriterOK'
  BY <1>1, <1>3, QueueKept DEF IInv
<1>7. \A q \in Requests : CallOK(q)'
  BY <1>1, <1>3 DEF IInv, CallOK
<1>8. Promised'
  BY <1>1, <1>2, <1>4 DEF Promised, controlVars, DbSteps
<1> QED
  BY <1>3, <1>5, <1>6, <1>7, <1>8 DEF IInv

-----------------------------------------------------------------------------
(* The writer thread *)

(* The rows and the connected agents of the database, and nothing else.    *)
LEMMA DbType ==
    ASSUME Types, NEW C \in SUBSET Agents, NEW R \in SUBSET Rows
    PROVE  /\ [db EXCEPT !.connected = C] \in Database
           /\ [db EXCEPT !.connected = C].connected = C
           /\ [db EXCEPT !.connected = C].rows = db.rows
           /\ [db EXCEPT !.connected = C].backup = db.backup
           /\ [db EXCEPT !.rows = R] \in Database
           /\ [db EXCEPT !.rows = R].connected = db.connected
           /\ [db EXCEPT !.rows = R].rows = R
           /\ [db EXCEPT !.rows = R].backup = db.backup
BY DEF Types, Database

(* An entry of the queue that is not the one of this session's write.      *)
LEMMA OtherEntry ==
    ASSUME NEW s, NEW kind \in SessionWrites, NEW f \in Entry, f # <<kind, s>>,
           Queued(f), f[2] = s, Queued(<<kind, s>>)
    PROVE  f[1] \notin SessionWrites
<1>1. f = <<f[1], f[2]>>
  BY DEF Entry
<1> QED
  BY <1>1 DEF Queued, SessionWrites

(* The parts of the invariant that a write of a session keeps whatever it  *)
(* makes of the sessions: nothing is taken from the rows.                  *)
LEMMA SessionWriteFrame ==
    ASSUME IInv, NEW kind \in SessionWrites, NEW place \in SessionAt, NEW s, s = Writing,
           NextWrite(kind), At(s, place), writer' = Tail(writer),
           db' \in Database, db.rows \subseteq db'.rows, db'.backup = db.backup,
           UNCHANGED <<conns, ready, gatewayVars, controlVars, pending, req, owed>>
    PROVE  /\ Types' /\ Flags' /\ Control' /\ Marked' /\ WriterOK' /\ Promised'
           /\ \A r \in Requests : CallOK(r)'
<1>1. /\ writer # <<>> /\ Head(writer) = <<kind, s>> /\ Queued(<<kind, s>>)
      /\ Head(writer) \in Entry
  BY FirstEntry DEF IInv
<1>2. s \in Sockets
  BY <1>1 DEF Queued
<1>3. /\ sess' \in [Sockets -> SessionRow] /\ sess'[s].gw = sess[s].gw
      /\ \A t \in Sockets \ {s} : sess'[t] = sess[t]
  BY <1>2, AtType DEF IInv
<1>4. ASSUME NEW f \in Entry, f # Head(writer), Queued(f) PROVE Queued(f)'
  <2>1. f[2] = s => f[1] \notin SessionWrites
    BY <1>1, <1>4, OtherEntry
  <2> QED
    BY <1>3, <1>4, <2>1 DEF Queued, SessionWrites, controlVars
<1>5. writer' \in Seq(Entry) /\ WriterOK'
  BY <1>1, <1>4, QueueShrinks DEF IInv
<1>6. Types'
  BY <1>3, <1>5 DEF IInv, Types, gatewayVars, controlVars
<1>7. Flags' /\ Control'
  BY FlagsKept, ControlKept DEF IInv, Control
<1>8. Marked'
  BY DEF IInv, Marked, gatewayVars, controlVars
<1>9. Promised'
  BY DEF IInv, Promised, controlVars
<1>10. \A r \in Requests : CallOK(r)'
  BY DEF IInv, CallOK
<1> QED
  BY <1>5, <1>6, <1>7, <1>8, <1>9, <1>10

(* _persist_registration: the database shows the agent of a session that   *)
(* was not retired meanwhile.                                              *)
LEMMA RegistrationStep ==
    ASSUME IInv, persist_registration, UNCHANGED controlVars
    PROVE  IInv'
<1>0. PICK s : s = Writing
  OBVIOUS
<1>1. /\ NextWrite("register") /\ At(s, "persisted") /\ writer' = Tail(writer)
      /\ db' = IF Retired(s) THEN db
               ELSE [db EXCEPT !.connected = db.connected \union {sess[s].agent}]
      /\ UNCHANGED <<conns, ready, gatewayVars, controlVars, pending, req, owed>>
  BY <1>0 DEF persist_registration
<1>2. s \in Sockets /\ sess[s].at = "registering"
  BY <1>0, <1>1, FirstEntry DEF IInv, Queued, SessionWrites
<1>3. SessionOK(s) /\ sess[s].agent \in Agents /\ s \notin ready
  BY <1>2 DEF IInv, SessionOK, Holding, Serving
<1>4. /\ db' \in Database /\ db'.rows = db.rows /\ db'.backup = db.backup
      /\ db.connected \subseteq db'.connected
      /\ ~Retired(s) => sess[s].agent \in db'.connected
  <2>1. db.connected \union {sess[s].agent} \in SUBSET Agents /\ db \in Database
    BY <1>3 DEF IInv, Types, Database
  <2>2. Rows \in SUBSET Rows
    OBVIOUS
  <2> QED
    BY <1>1, <2>1, <2>2, DbType DEF IInv
<1>5. /\ sess'[s].at = "persisted" /\ sess'[s].agent = sess[s].agent
      /\ sess'[s].item = sess[s].item /\ sess'[s].gw = sess[s].gw
      /\ \A t \in Sockets \ {s} : sess'[t] = sess[t]
  BY <1>1, <1>2, AtType DEF IInv, SessionAt
<1>6. SessionOK(s)'
  BY <1>1, <1>2, <1>3, <1>4, <1>5 DEF SessionOK, Retired, Holding, Serving, gatewayVars
<1>7. \A t \in Sockets \ {s} : SessionOK(t)'
  BY <1>1, <1>4, <1>5, SessionKept DEF IInv, gatewayVars
<1>8. /\ Types' /\ Flags' /\ Control' /\ Marked' /\ WriterOK' /\ Promised'
      /\ \A r \in Requests : CallOK(r)'
  BY <1>0, <1>1, <1>4, SessionWriteFrame DEF SessionWrites, SessionAt
<1> QED
  BY <1>6, <1>7, <1>8 DEF IInv

(* _persist_disconnect: the id is still held by this session, so no other  *)
(* session of the agent is shown as gone.                                  *)
LEMMA DisconnectStep ==
    ASSUME IInv, persist_disconnect, UNCHANGED controlVars
    PROVE  IInv'
<1>0. PICK s : s = Writing
  OBVIOUS
<1>1. /\ NextWrite("disconnect") /\ At(s, "left") /\ writer' = Tail(writer)
      /\ db' = IF Retired(s) THEN db
               ELSE [db EXCEPT !.connected = db.connected \ {sess[s].agent}]
      /\ UNCHANGED <<conns, ready, gatewayVars, controlVars, pending, req, owed>>
  BY <1>0 DEF persist_disconnect
<1>2. s \in Sockets /\ sess[s].at = "leaving"
  BY <1>0, <1>1, FirstEntry DEF IInv, Queued, SessionWrites
<1>3. SessionOK(s) /\ sess[s].agent \in Agents /\ s \notin ready
  BY <1>2 DEF IInv, SessionOK, Holding, Serving
<1>4. /\ db' \in Database /\ db'.rows = db.rows /\ db'.backup = db.backup
      /\ Retired(s) => db' = db
      /\ \A a \in db.connected : a # sess[s].agent => a \in db'.connected
  <2>1. db.connected \ {sess[s].agent} \in SUBSET Agents /\ db \in Database
    BY DEF IInv, Types, Database
  <2>2. Rows \in SUBSET Rows
    OBVIOUS
  <2> QED
    BY <1>1, <2>1, <2>2, DbType DEF IInv
<1>5. /\ sess'[s].at = "left" /\ sess'[s].agent = sess[s].agent
      /\ sess'[s].item = sess[s].item /\ sess'[s].gw = sess[s].gw
      /\ \A t \in Sockets \ {s} : sess'[t] = sess[t]
  BY <1>1, <1>2, AtType DEF IInv, SessionAt
<1>6. SessionOK(s)'
  BY <1>1, <1>2, <1>3, <1>5 DEF SessionOK, Retired, Holding, Serving, gatewayVars
<1>7. ASSUME NEW t \in Sockets \ {s} PROVE SessionOK(t)'
  <2>1. ASSUME ~Retired(t), sess[t].at \in Holding, ~Retired(s)
        PROVE  sess[t].agent # sess[s].agent
    BY <1>2, <2>1 DEF IInv, SessionOK, Holding
  <2> QED
    BY <1>1, <1>4, <1>5, <2>1, SessionKept DEF IInv, gatewayVars
<1>8. /\ Types' /\ Flags' /\ Control' /\ Marked' /\ WriterOK' /\ Promised'
      /\ \A r \in Requests : CallOK(r)'
  BY <1>0, <1>1, <1>4, SessionWriteFrame DEF SessionWrites, SessionAt
<1> QED
  BY <1>6, <1>7, <1>8 DEF IInv

(* apply_event: the row is in the database before the session goes on.     *)
LEMMA EventStep ==
    ASSUME IInv, apply_event, UNCHANGED controlVars
    PROVE  IInv'
<1>0. PICK s : s = Writing
  OBVIOUS
<1>1. /\ NextWrite("event") /\ At(s, "applied") /\ writer' = Tail(writer)
      /\ db' = [db EXCEPT !.rows = db.rows \union {sess[s].item}]
      /\ UNCHANGED <<conns, ready, gatewayVars, controlVars, pending, req, owed>>
  BY <1>0 DEF apply_event
<1>2. s \in Sockets /\ sess[s].at = "applying"
  BY <1>0, <1>1, FirstEntry DEF IInv, Queued, SessionWrites
<1>3. SessionOK(s) /\ sess[s].item \in Items
  BY <1>2 DEF IInv, SessionOK
<1>4. /\ db' \in Database /\ db'.rows = db.rows \union {sess[s].item}
      /\ db'.backup = db.backup /\ db'.connected = db.connected
  <2>1. db.rows \union {sess[s].item} \in SUBSET Rows
    BY <1>3 DEF IInv, Types, Database, Rows
  <2>2. Agents \in SUBSET Agents
    OBVIOUS
  <2> QED
    BY <1>1, <2>1, <2>2, DbType DEF IInv
<1>5. /\ sess'[s].at = "applied" /\ sess'[s].agent = sess[s].agent
      /\ sess'[s].item = sess[s].item /\ sess'[s].gw = sess[s].gw
      /\ \A t \in Sockets \ {s} : sess'[t] = sess[t]
  BY <1>1, <1>2, AtType DEF IInv, SessionAt
<1>6. SessionOK(s)'
  BY <1>1, <1>2, <1>3, <1>4, <1>5 DEF SessionOK, Retired, Holding, Serving, gatewayVars
<1>7. \A t \in Sockets \ {s} : SessionOK(t)'
  BY <1>1, <1>4, <1>5, SessionKept DEF IInv, gatewayVars
<1>8. /\ Types' /\ Flags' /\ Control' /\ Marked' /\ WriterOK' /\ Promised'
      /\ \A r \in Requests : CallOK(r)'
  BY <1>0, <1>1, <1>4, SessionWriteFrame DEF SessionWrites, SessionAt
<1> QED
  BY <1>6, <1>7, <1>8 DEF IInv

(* The row of a handler is committed.                                      *)
LEMMA RowStep ==
    ASSUME IInv, commit_row, UNCHANGED controlVars
    PROVE  IInv'
<1> DEFINE r == Writing
<1>1. /\ NextWrite("row") /\ req' = [req EXCEPT ![r] = "written"] /\ writer' = Tail(writer)
      /\ db' = [db EXCEPT !.rows = db.rows \union {r}]
      /\ UNCHANGED <<sess, conns, ready, gatewayVars, controlVars, pending, owed>>
  BY DEF commit_row
<1>2. /\ writer # <<>> /\ Head(writer) = <<"row", r>> /\ r \in Requests
      /\ req[r] = "writing"
  BY <1>1, FirstEntry DEF IInv, Queued
<1> HIDE DEF r
<1>3. step \notin DbSteps
  BY <1>2, InFlightNoStep
<1>4. /\ db' \in Database /\ db'.rows = db.rows \union {r}
      /\ db'.backup = db.backup /\ db'.connected = db.connected
  <2>1. db.rows \union {r} \in SUBSET Rows
    BY <1>2 DEF IInv, Types, Database, Rows
  <2>2. Agents \in SUBSET Agents
    OBVIOUS
  <2> QED
    BY <1>1, <2>1, <2>2, DbType DEF IInv
<1>5. /\ req' \in [Requests -> RequestAt] /\ req'[r] = "written"
      /\ \A q \in Requests \ {r} : req'[q] = req[q]
  BY <1>1, <1>2 DEF IInv, Types, RequestAt
<1>6. ASSUME NEW f \in Entry, f # Head(writer), Queued(f) PROVE Queued(f)'
  <2>1. f = <<f[1], f[2]>>
    BY DEF Entry
  <2>2. f[1] = "row" => f[2] # r
    BY <1>2, <1>6, <2>1
  <2> QED
    BY <1>1, <1>4, <1>5, <1>6, <2>2 DEF Queued, controlVars
<1>7. writer' \in Seq(Entry) /\ WriterOK'
  BY <1>1, <1>2, <1>6, QueueShrinks DEF IInv
<1>8. Types'
  BY <1>1, <1>4, <1>5, <1>7 DEF IInv, Types, gatewayVars, controlVars
<1>9. Flags' /\ Control'
  BY <1>1, <1>3, FlagsKept, ControlKept DEF IInv
<1>10. Marked'
  BY <1>1, <1>4 DEF IInv, Marked, gatewayVars, controlVars
<1>11. \A s \in Sockets : SessionOK(s)'
  BY <1>1, <1>4, SessionKept DEF IInv, gatewayVars
<1>12. \A q \in Requests : CallOK(q)'
  BY <1>1, <1>2, <1>4, <1>5 DEF IInv, CallOK
<1>13. Promised'
  BY <1>1, <1>4 DEF IInv, Promised, controlVars
<1> QED
  BY <1>7, <1>8, <1>9, <1>10, <1>11, <1>12, <1>13 DEF IInv

-----------------------------------------------------------------------------
(* The steps of a session *)

(* A session that is not retired runs while no restore has begun.          *)
LEMMA NotRetired ==
    ASSUME IInv, NEW s \in Sockets, ~Retired(s)
    PROVE  ~retiring /\ sess[s].gw = gw /\ step \notin DbSteps /\ sess[s].gw > db.backup
<1>1. ~retiring /\ sess[s].gw = gw
  BY DEF Retired
<1>2. step \notin DbSteps
  BY <1>1 DEF IInv, Control, DbSteps
<1>3. db \in Database /\ db.backup \in Nat /\ gw \in Nat
  BY DEF IInv, Types, Database
<1>4. sess[s].gw > db.backup
  BY <1>1, <1>3 DEF IInv, Marked
<1> QED
  BY <1>1, <1>2, <1>4

(* The calls of the sessions that are gone fail; the others wait on.       *)
LEMMA Abandon ==
    ASSUME IInv, NEW gone, None \notin gone, _abandon_pending(gone)
    PROVE  /\ pending' \in [Requests -> Sockets \union {None}]
           /\ req' \in [Requests -> RequestAt]
           /\ \A r \in Requests :
                /\ \/ req'[r] = req[r] /\ pending'[r] = pending[r] /\ pending[r] \notin gone
                   \/ req[r] = "calling" /\ req'[r] = "running" /\ pending'[r] = None
                /\ req[r] \in {"none", "done"} => req'[r] = req[r]
<1>1. /\ pending' = [r \in Requests |-> IF pending[r] \in gone THEN None ELSE pending[r]]
      /\ req' = [r \in Requests |-> IF pending[r] \in gone THEN "running" ELSE req[r]]
  BY DEF _abandon_pending
<1>2. "running" \in RequestAt
  BY DEF RequestAt
<1>3. pending' \in [Requests -> Sockets \union {None}] /\ req' \in [Requests -> RequestAt]
  BY <1>1, <1>2 DEF IInv, Types
<1>4. \A r \in Requests : pending[r] \in gone => req[r] = "calling"
  BY DEF IInv, CallOK
<1> QED
  BY <1>1, <1>3, <1>4

(* What a step of a session that has nothing queued leaves sound.          *)
LEMMA SessionStepFrame ==
    ASSUME IInv, NEW s \in Sockets, sess[s].at \notin {"registering", "leaving", "applying"},
           \A t \in Sockets \ {s} : sess'[t] = sess[t],
           UNCHANGED <<gatewayVars, controlVars, db>>,
           \A r \in Requests : \/ req'[r] = req[r]
                               \/ req[r] = "calling" /\ req'[r] = "running"
    PROVE  /\ Flags' /\ Control' /\ Marked'
           /\ \A e \in Entry : Queued(e) => Queued(e)'
<1>1. Flags'
  BY FlagsKept DEF IInv
<1>2. Control'
  BY ControlKept DEF IInv, Control
<1>3. Marked'
  BY DEF IInv, Marked, gatewayVars, controlVars
<1>4. ASSUME NEW e \in Entry, Queued(e) PROVE Queued(e)'
  <2>1. e[1] \in SessionWrites => e[2] \in Sockets \ {s}
    BY <1>4 DEF Queued, SessionWrites
  <2>2. e[1] = "row" => req'[e[2]] = "writing"
    BY <1>4 DEF Queued
  <2> QED
    BY <1>4, <2>1, <2>2 DEF Queued, SessionWrites, controlVars
<1> QED
  BY <1>1, <1>2, <1>3, <1>4

(* serve: a socket is accepted by the gateway that serves now.             *)
LEMMA OpenSocketStep ==
    ASSUME IInv, NEW s \in Sockets, open_socket(s)
    PROVE  IInv'
<1>1. /\ sess[s].at = "none"
      /\ sess' = [sess EXCEPT ![s] = [sess[s] EXCEPT !.at = "hello", !.gw = gw]]
      /\ UNCHANGED <<conns, ready, gatewayVars, pending, req, writer, db, owed, controlVars>>
  BY DEF open_socket, serve
<1>2. sess[s] \in SessionRow /\ gw \in Nat
  BY DEF IInv, Types
<1>3. /\ [sess[s] EXCEPT !.at = "hello", !.gw = gw] \in SessionRow
      /\ [sess[s] EXCEPT !.at = "hello", !.gw = gw].at = "hello"
      /\ [sess[s] EXCEPT !.at = "hello", !.gw = gw].gw = gw
  BY <1>2 DEF SessionRow, SessionAt
<1>4. /\ sess' \in [Sockets -> SessionRow] /\ sess'[s].at = "hello" /\ sess'[s].gw = gw
      /\ \A t \in Sockets \ {s} : sess'[t] = sess[t]
  BY <1>1, <1>3 DEF IInv, Types
<1>5. Flags' /\ Control' /\ Marked' /\ (\A e \in Entry : Queued(e) => Queued(e)')
  BY <1>1, <1>4, SessionStepFrame
<1>6. WriterOK'
  BY <1>1, <1>5, QueueKept DEF IInv
<1>7. Types'
  BY <1>1, <1>4 DEF IInv, Types, gatewayVars, controlVars
<1>8. SessionOK(s)'
  <2>1. s \notin ready
    BY <1>1 DEF IInv, SessionOK, Serving
  <2> QED
    BY <1>1, <1>2, <1>4, <2>1 DEF SessionOK, Holding, Serving, gatewayVars
<1>9. \A t \in Sockets \ {s} : SessionOK(t)'
  BY <1>1, <1>4, SessionKept DEF IInv, gatewayVars
<1>10. \A r \in Requests : CallOK(r)'
  BY <1>1 DEF IInv, CallOK
<1>11. Promised'
  BY <1>1 DEF IInv, Promised, controlVars
<1> QED
  BY <1>5, <1>6, <1>7, <1>8, <1>9, <1>10, <1>11 DEF IInv

(* A session ends without a write: nothing is queued for it and it is not  *)
(* ready.                                                                  *)
LEMMA GoneStep ==
    ASSUME IInv, NEW s \in Sockets, sess[s].at \in {"hello", "persisted", "serving", "left"},
           At(s, "gone"), ready' \subseteq ready, s \notin ready',
           conns' \in [Agents -> Sockets \union {None}],
           \A a \in Agents : conns[a] # s => conns'[a] = conns[a],
           UNCHANGED <<gatewayVars, controlVars, writer, db, owed>>,
           pending' \in [Requests -> Sockets \union {None}],
           req' \in [Requests -> RequestAt],
           \A r \in Requests :
              \/ req'[r] = req[r] /\ pending'[r] = pending[r] /\ (pending[r] \in ready => pending[r] \in ready')
              \/ req[r] = "calling" /\ req'[r] = "running" /\ pending'[r] = None
    PROVE  IInv'
<1>1. /\ sess' \in [Sockets -> SessionRow] /\ sess'[s].at = "gone"
      /\ sess'[s].gw = sess[s].gw
      /\ \A t \in Sockets \ {s} : sess'[t] = sess[t]
  BY AtType DEF IInv, SessionAt
<1>2. Flags' /\ Control' /\ Marked' /\ (\A e \in Entry : Queued(e) => Queued(e)')
  BY <1>1, SessionStepFrame
<1>3. WriterOK'
  BY <1>2, QueueKept DEF IInv
<1>4. Types'
  BY <1>1 DEF IInv, Types, gatewayVars, controlVars
<1>5. SessionOK(s)'
  BY <1>1 DEF IInv, SessionOK, Holding, Serving, gatewayVars
<1>6. ASSUME NEW t \in Sockets \ {s} PROVE SessionOK(t)'
  <2>1. ~Retired(t) /\ sess[t].at \in Holding => conns'[sess[t].agent] = conns[sess[t].agent]
    BY DEF IInv, SessionOK
  <2> QED
    BY <1>1, <2>1, SessionKept DEF IInv, gatewayVars
<1>7. \A r \in Requests : CallOK(r)'
  BY DEF IInv, CallOK
<1>8. Promised'
  BY DEF IInv, Promised, controlVars
<1> QED
  BY <1>2, <1>3, <1>4, <1>5, <1>6, <1>7, <1>8 DEF IInv

(* A session that is not retired queues a write and waits for it.          *)
LEMMA QueueingStep ==
    ASSUME IInv, NEW s \in Sockets, ~Retired(s), NEW kind \in SessionWrites,
           sess[s].at \notin {"registering", "leaving", "applying"},
           writer' = Append(writer, <<kind, s>>),
           sess' \in [Sockets -> SessionRow], sess'[s].gw = sess[s].gw,
           kind = "register" => sess'[s].at = "registering",
           kind = "disconnect" => sess'[s].at = "leaving",
           kind = "event" => sess'[s].at = "applying",
           \A t \in Sockets \ {s} : sess'[t] = sess[t],
           UNCHANGED <<gatewayVars, controlVars, db>>,
           \A r \in Requests : \/ req'[r] = req[r]
                               \/ req[r] = "calling" /\ req'[r] = "running"
    PROVE  Flags' /\ Control' /\ Marked' /\ writer' \in Seq(Entry) /\ WriterOK'
<1>1. Flags' /\ Control' /\ Marked' /\ (\A e \in Entry : Queued(e) => Queued(e)')
  BY SessionStepFrame
<1>2. step \notin DbSteps /\ sess[s].gw > db.backup
  BY NotRetired
<1> DEFINE e == <<kind, s>>
<1>3. e \in Entry /\ e[1] # "restore" /\ e[1] = kind /\ e[2] = s
  BY DEF Entry, SessionWrites
<1>4. ~Queued(e)
  BY DEF Queued, SessionWrites
<1>5. Queued(e)'
  BY <1>2 DEF Queued, SessionWrites
<1> HIDE DEF e
<1>6. writer' \in Seq(Entry) /\ WriterOK'
  <2>1. writer' = Append(writer, e)
    BY DEF e
  <2> QED
    BY <1>1, <1>2, <1>3, <1>4, <1>5, <2>1, QueueGrows DEF IInv
<1> QED
  BY <1>1, <1>6

(* hello: the id is reserved before the registration is queued, so a       *)
(* second hello of the agent is refused.                                   *)
LEMMA HelloStep ==
    ASSUME IInv, NEW s \in Sockets, NEW a \in Agents, hello(s, a), UNCHANGED controlVars
    PROVE  IInv'
<1>1. /\ sess[s].at = "hello"
      /\ UNCHANGED <<ready, gatewayVars, pending, req, db, owed, controlVars>>
  BY DEF hello
<1>2. s \notin ready
  BY <1>1 DEF IInv, SessionOK, Serving
<1>3. CASE ~(~Retired(s) /\ ~maintenance /\ MayHold(a))
  <2>1. At(s, "gone") /\ UNCHANGED <<conns, writer>>
    BY <1>3 DEF hello
  <2>2. /\ conns' \in [Agents -> Sockets \union {None}]
        /\ pending' \in [Requests -> Sockets \union {None}]
        /\ req' \in [Requests -> RequestAt]
    BY <1>1, <2>1 DEF IInv, Types
  <2> QED
    BY <1>1, <1>2, <2>1, <2>2, GoneStep
<1>4. CASE ~Retired(s) /\ ~maintenance /\ MayHold(a)
  <2> DEFINE new == [sess[s] EXCEPT !.at = "registering", !.agent = a]
  <2>1. /\ sess' = [sess EXCEPT ![s] = new] /\ conns' = [conns EXCEPT ![a] = s]
        /\ writer' = Append(writer, <<"register", s>>) /\ conns[a] = None
    BY <1>4 DEF hello, Queue, MayHold
  <2>2. /\ new \in SessionRow /\ new.at = "registering" /\ new.agent = a
        /\ new.gw = sess[s].gw
    <3>1. sess[s] \in SessionRow
      BY DEF IInv, Types
    <3> QED
      BY <3>1 DEF SessionRow, SessionAt
  <2> HIDE DEF new
  <2>3. /\ sess' \in [Sockets -> SessionRow] /\ sess'[s] = new
        /\ \A t \in Sockets \ {s} : sess'[t] = sess[t]
    BY <2>1, <2>2 DEF IInv, Types
  <2>4. /\ conns' \in [Agents -> Sockets \union {None}] /\ conns'[a] = s
        /\ \A b \in Agents \ {a} : conns'[b] = conns[b]
    BY <2>1 DEF IInv, Types
  <2>5. Flags' /\ Control' /\ Marked' /\ writer' \in Seq(Entry) /\ WriterOK'
    BY <1>1, <1>4, <2>1, <2>2, <2>3, QueueingStep DEF SessionWrites
  <2>6. Types'
    BY <1>1, <2>3, <2>4, <2>5 DEF IInv, Types, gatewayVars, controlVars
  <2>7. SessionOK(s)'
    BY <1>1, <1>2, <2>2, <2>3, <2>4 DEF IInv, SessionOK, Holding, Serving, gatewayVars
  <2>8. ASSUME NEW t \in Sockets \ {s} PROVE SessionOK(t)'
    <3>1. ~Retired(t) /\ sess[t].at \in Holding => conns'[sess[t].agent] = conns[sess[t].agent]
      BY <2>1, <2>4, RegistryAssumption DEF IInv, SessionOK
    <3> QED
      BY <1>1, <2>3, <3>1, SessionKept DEF IInv, gatewayVars
  <2>9. \A r \in Requests : CallOK(r)'
    BY <1>1 DEF IInv, CallOK
  <2>10. Promised'
    BY <1>1 DEF IInv, Promised, controlVars
  <2> QED
    BY <2>5, <2>6, <2>7, <2>8, <2>9, <2>10 DEF IInv
<1> QED
  BY <1>3, <1>4

(* _unregister: the calls of the session fail at once; the id stays        *)
(* reserved until the disconnect is written.                               *)
LEMMA UnregisterStep ==
    ASSUME IInv, NEW s \in Sockets, sess[s].at \in {"persisted", "serving"}, _unregister(s),
           UNCHANGED <<gatewayVars, db, owed, controlVars>>
    PROVE  IInv'
<1>1. ready' = ready \ {s} /\ _abandon_pending({s}) /\ None \notin {s}
  BY RegistryAssumption DEF _unregister
<1>2. /\ pending' \in [Requests -> Sockets \union {None}]
      /\ req' \in [Requests -> RequestAt]
      /\ \A r \in Requests :
           \/ req'[r] = req[r] /\ pending'[r] = pending[r] /\ pending[r] \notin {s}
           \/ req[r] = "calling" /\ req'[r] = "running" /\ pending'[r] = None
  BY <1>1, Abandon
<1>3. CASE Retired(s) \/ ~Holds(s)
  <2>1. At(s, "gone") /\ UNCHANGED <<conns, writer>>
    BY <1>3 DEF _unregister
  <2>2. conns' \in [Agents -> Sockets \union {None}]
    BY <2>1 DEF IInv, Types
  <2> QED
    BY <1>1, <1>2, <2>1, <2>2, GoneStep
<1>4. CASE ~(Retired(s) \/ ~Holds(s))
  <2>1. /\ At(s, "leaving") /\ writer' = Append(writer, <<"disconnect", s>>)
        /\ UNCHANGED conns /\ ~Retired(s)
    BY <1>4 DEF _unregister, Queue
  <2>2. /\ sess' \in [Sockets -> SessionRow] /\ sess'[s].at = "leaving"
        /\ sess'[s].gw = sess[s].gw /\ sess'[s].agent = sess[s].agent
        /\ \A t \in Sockets \ {s} : sess'[t] = sess[t]
    BY <2>1, AtType DEF IInv, SessionAt
  <2>3. Flags' /\ Control' /\ Marked' /\ writer' \in Seq(Entry) /\ WriterOK'
    BY <1>2, <2>1, <2>2, QueueingStep DEF SessionWrites
  <2>4. Types'
    BY <1>1, <1>2, <2>1, <2>2, <2>3 DEF IInv, Types, gatewayVars, controlVars
  <2>5. SessionOK(s)'
    BY <1>1, <2>1, <2>2 DEF IInv, SessionOK, Holding, Serving, Retired, gatewayVars
  <2>6. \A t \in Sockets \ {s} : SessionOK(t)'
    BY <1>1, <2>1, <2>2, SessionKept DEF IInv, gatewayVars
  <2>7. \A r \in Requests : CallOK(r)'
    BY <1>1, <1>2 DEF IInv, CallOK
  <2>8. Promised'
    BY DEF IInv, Promised, controlVars
  <2> QED
    BY <2>3, <2>4, <2>5, <2>6, <2>7, <2>8 DEF IInv
<1> QED
  BY <1>3, <1>4

(* _register after its write: the session is ready, or a restore began.    *)
LEMMA RegisteredStep ==
    ASSUME IInv, NEW s \in Sockets, registered(s), UNCHANGED controlVars
    PROVE  IInv'
<1>1. sess[s].at = "persisted" /\ UNCHANGED <<gatewayVars, db, owed, controlVars>>
  BY DEF registered
<1>2. CASE Retired(s)
  BY <1>1, <1>2, UnregisterStep DEF registered
<1>3. CASE ~Retired(s)
  <2>1. /\ At(s, "serving") /\ ready' = ready \union {s}
        /\ UNCHANGED <<conns, pending, req, writer>>
    BY <1>3 DEF registered
  <2>2. /\ sess' \in [Sockets -> SessionRow] /\ sess'[s].at = "serving"
        /\ sess'[s].gw = sess[s].gw /\ sess'[s].agent = sess[s].agent
        /\ \A t \in Sockets \ {s} : sess'[t] = sess[t]
    BY <2>1, AtType DEF IInv, SessionAt
  <2>3. Flags' /\ Control' /\ Marked' /\ (\A e \in Entry : Queued(e) => Queued(e)')
    BY <1>1, <2>1, <2>2, SessionStepFrame
  <2>4. WriterOK'
    BY <2>1, <2>3, QueueKept DEF IInv
  <2>5. Types'
    BY <1>1, <2>1, <2>2 DEF IInv, Types, gatewayVars, controlVars
  <2>6. SessionOK(s)'
    BY <1>1, <1>3, <2>1, <2>2 DEF IInv, SessionOK, Holding, Serving, Retired, gatewayVars
  <2>7. \A t \in Sockets \ {s} : SessionOK(t)'
    BY <1>1, <2>1, <2>2, SessionKept DEF IInv, gatewayVars
  <2>8. \A r \in Requests : CallOK(r)'
    BY <1>1, <2>1 DEF IInv, CallOK
  <2>9. Promised'
    BY <1>1 DEF IInv, Promised, controlVars
  <2> QED
    BY <2>3, <2>4, <2>5, <2>6, <2>7, <2>8, <2>9 DEF IInv
<1> QED
  BY <1>2, <1>3

(* The peer goes, before its hello or after it.                            *)
LEMMA EndsStep ==
    ASSUME IInv, NEW s \in Sockets, ends(s), UNCHANGED controlVars
    PROVE  IInv'
<1>1. CASE sess[s].at = "serving" /\ _unregister(s) /\ UNCHANGED <<gatewayVars, db, owed>>
  BY <1>1, UnregisterStep
<1>2. CASE /\ sess[s].at = "hello" /\ At(s, "gone")
           /\ UNCHANGED <<conns, ready, gatewayVars, pending, req, writer, db, owed>>
  <2>1. s \notin ready
    BY <1>2 DEF IInv, SessionOK, Serving
  <2>2. /\ conns' \in [Agents -> Sockets \union {None}]
        /\ pending' \in [Requests -> Sockets \union {None}]
        /\ req' \in [Requests -> RequestAt]
    BY <1>2 DEF IInv, Types
  <2> QED
    BY <1>2, <2>1, <2>2, GoneStep
<1> QED
  BY <1>1, <1>2 DEF ends

(* _unregister after its write: only its own reservation is given up.      *)
LEMMA ReleasedStep ==
    ASSUME IInv, NEW s \in Sockets, released(s), UNCHANGED controlVars
    PROVE  IInv'
<1>1. /\ sess[s].at = "left" /\ At(s, "gone")
      /\ conns' = IF Holds(s) THEN [conns EXCEPT ![sess[s].agent] = None] ELSE conns
      /\ UNCHANGED <<ready, gatewayVars, pending, req, writer, db, owed>>
  BY DEF released
<1>2. s \notin ready
  BY <1>1 DEF IInv, SessionOK, Serving
<1>3. /\ conns' \in [Agents -> Sockets \union {None}]
      /\ \A a \in Agents : conns[a] # s => conns'[a] = conns[a]
  BY <1>1 DEF IInv, Types, Holds
<1>4. /\ pending' \in [Requests -> Sockets \union {None}]
      /\ req' \in [Requests -> RequestAt]
  BY <1>1 DEF IInv, Types
<1> QED
  BY <1>1, <1>2, <1>3, <1>4, GoneStep

(* _ingest: an event of a ready session is queued for the writer.          *)
LEMMA IngestStep ==
    ASSUME IInv, NEW s \in Sockets, NEW i \in Items, _ingest(s, i), UNCHANGED controlVars
    PROVE  IInv'
<1> DEFINE new == [sess[s] EXCEPT !.at = "applying", !.item = i]
<1>1. /\ sess[s].at = "serving" /\ ~Retired(s) /\ s \in ready
      /\ sess' = [sess EXCEPT ![s] = new]
      /\ writer' = Append(writer, <<"event", s>>)
      /\ UNCHANGED <<conns, ready, gatewayVars, pending, req, db, owed, controlVars>>
  BY DEF _ingest, Accepts, Queue
<1>2. /\ new \in SessionRow /\ new.at = "applying" /\ new.item = i
      /\ new.gw = sess[s].gw /\ new.agent = sess[s].agent
  <2>1. sess[s] \in SessionRow
    BY DEF IInv, Types
  <2> QED
    BY <2>1 DEF SessionRow, SessionAt
<1> HIDE DEF new
<1>3. /\ sess' \in [Sockets -> SessionRow] /\ sess'[s] = new
      /\ \A t \in Sockets \ {s} : sess'[t] = sess[t]
  BY <1>1, <1>2 DEF IInv, Types
<1>4. Flags' /\ Control' /\ Marked' /\ writer' \in Seq(Entry) /\ WriterOK'
  BY <1>1, <1>2, <1>3, QueueingStep DEF SessionWrites
<1>5. Types'
  BY <1>1, <1>3, <1>4 DEF IInv, Types, gatewayVars, controlVars
<1>6. SessionOK(s)'
  BY <1>1, <1>2, <1>3 DEF IInv, SessionOK, Holding, Serving, Retired, gatewayVars
<1>7. \A t \in Sockets \ {s} : SessionOK(t)'
  BY <1>1, <1>3, SessionKept DEF IInv, gatewayVars
<1>8. \A r \in Requests : CallOK(r)'
  BY <1>1 DEF IInv, CallOK
<1>9. Promised'
  BY <1>1 DEF IInv, Promised, controlVars
<1> QED
  BY <1>4, <1>5, <1>6, <1>7, <1>8, <1>9 DEF IInv

(* _ingest after its write: the ack promises the row that was written.     *)
LEMMA AcknowledgeStep ==
    ASSUME IInv, NEW s \in Sockets, acknowledge(s), UNCHANGED controlVars
    PROVE  IInv'
<1>1. /\ sess[s].at = "applied" /\ At(s, "serving")
      /\ UNCHANGED <<conns, ready, gatewayVars, writer, db, controlVars>>
  BY DEF acknowledge
<1>2. /\ pending' \in [Requests -> Sockets \union {None}] /\ req' \in [Requests -> RequestAt]
      /\ \A r \in Requests :
           \/ req'[r] = req[r] /\ pending'[r] = pending[r]
           \/ req[r] = "calling" /\ req'[r] = "running" /\ pending'[r] = None
  <2>1. CASE UNCHANGED <<pending, req>>
    BY <2>1 DEF IInv, Types
  <2>2. CASE \E r \in Owes(s) : /\ pending' = [pending EXCEPT ![r] = None]
                                /\ req' = [req EXCEPT ![r] = "running"]
    <3>1. PICK r \in Owes(s) : /\ pending' = [pending EXCEPT ![r] = None]
                               /\ req' = [req EXCEPT ![r] = "running"]
      BY <2>2
    <3>2. r \in Requests /\ pending[r] # None /\ req[r] = "calling"
      BY RegistryAssumption DEF Owes, IInv, CallOK
    <3> QED
      BY <3>1, <3>2 DEF IInv, Types, RequestAt
  <2> QED
    BY <2>1, <2>2 DEF acknowledge
<1>3. /\ sess' \in [Sockets -> SessionRow] /\ sess'[s].at = "serving"
      /\ sess'[s].gw = sess[s].gw /\ sess'[s].agent = sess[s].agent
      /\ \A t \in Sockets \ {s} : sess'[t] = sess[t]
  BY <1>1, AtType DEF IInv, SessionAt
<1>4. Flags' /\ Control' /\ Marked' /\ (\A e \in Entry : Queued(e) => Queued(e)')
  BY <1>1, <1>2, <1>3, SessionStepFrame
<1>5. WriterOK'
  BY <1>1, <1>4, QueueKept DEF IInv
<1>6. owed' \subseteq Rows /\ owed' \subseteq db.rows /\ (step \in DbSteps => owed' = owed)
  <2>1. CASE ~Accepts(s)
    BY <2>1 DEF acknowledge, IInv, Types, Promised
  <2>2. CASE Accepts(s)
    <3>1. owed' = owed \union {sess[s].item}
      BY <2>2 DEF acknowledge
    <3>2. ~Retired(s) /\ step \notin DbSteps
      BY <2>2, NotRetired DEF Accepts
    <3>3. sess[s].item \in db.rows /\ sess[s].item \in Items
      BY <1>1, <3>2 DEF IInv, SessionOK
    <3> QED
      BY <3>1, <3>2, <3>3 DEF IInv, Types, Promised, Rows
  <2> QED
    BY <2>1, <2>2
<1>7. Types'
  BY <1>1, <1>2, <1>3, <1>6 DEF IInv, Types, gatewayVars, controlVars
<1>8. SessionOK(s)'
  BY <1>1, <1>3 DEF IInv, SessionOK, Holding, Serving, Retired, gatewayVars
<1>9. \A t \in Sockets \ {s} : SessionOK(t)'
  BY <1>1, <1>3, SessionKept DEF IInv, gatewayVars
<1>10. \A r \in Requests : CallOK(r)'
  BY <1>1, <1>2 DEF IInv, CallOK
<1>11. Promised'
  BY <1>1, <1>6 DEF IInv, Promised, controlVars, DbSteps
<1> QED
  BY <1>4, <1>5, <1>7, <1>8, <1>9, <1>10, <1>11 DEF IInv

-----------------------------------------------------------------------------
(* The restore *)

(* While the API is closed nobody is served and nobody waits for a call.   *)
LEMMA Silenced ==
    ASSUME IInv, active
    PROVE  retiring /\ ready = {} /\ \A r \in Requests : pending[r] = None
<1>1. retiring
  BY DEF IInv, Control
<1>2. ready = {}
  BY <1>1 DEF IInv, Types, SessionOK, Retired
<1> QED
  BY <1>1, <1>2 DEF IInv, CallOK

(* A session is sound under a gateway that is retired, or older than the   *)
(* one that serves, if nobody is ready.                                    *)
LEMMA RetiredSession ==
    ASSUME IInv, NEW s \in Sockets, sess'[s] = sess[s], ready' = {},
           (gw' = gw /\ retiring') \/ gw' = gw + 1
    PROVE  SessionOK(s)'
<1>1. sess[s] \in SessionRow /\ gw \in Nat /\ SessionOK(s)
  BY DEF IInv, Types
<1>2. sess[s].gw \in Nat /\ sess[s].gw <= gw
  BY <1>1 DEF SessionRow, SessionOK
<1>3. Retired(s)' /\ sess'[s].gw <= gw'
  BY <1>1, <1>2 DEF Retired
<1> QED
  BY <1>1, <1>3 DEF SessionOK

(* The upload begins, or fails; the wait for the requests times out.       *)
LEMMA PrepareStep ==
    ASSUME IInv, restore \/ upload_fails \/ drain_timeout
    PROVE  IInv'
<1>1. /\ UNCHANGED <<registryVars, active, notifier>>
      /\ step \notin DbSteps /\ step' \notin DbSteps /\ step' \in Steps
      /\ snapshot' \in {snapshot, NoSnapshot}
  BY DEF restore, upload_fails, drain_timeout, DbSteps, Steps
<1>2. outcome' \in {"none", "unchanged"}
  BY DEF restore, upload_fails, drain_timeout
<1>3. UNCHANGED <<sess, conns, ready, gw, retiring, maintenance, pending, req, writer, db, owed>>
  BY <1>1 DEF registryVars
<1>4. snapshot' \in Copy /\ snapshot'.backup <= gw
  <2>1. {} \in SUBSET Agents /\ {} \in SUBSET Rows /\ 0 \in Nat /\ FALSE \in BOOLEAN
    OBVIOUS
  <2>2. NoSnapshot \in Copy
    BY <2>1, Zenon DEF NoSnapshot, Copy
  <2>3. NoSnapshot.backup = 0 /\ gw \in Nat
    BY DEF NoSnapshot, IInv, Types
  <2> QED
    BY <1>1, <2>2, <2>3 DEF IInv, Types, Marked
<1>5. Types'
  BY <1>1, <1>3, <1>4 DEF IInv, Types
<1>6. Flags'
  BY <1>1, <1>2, <1>3 DEF IInv, Flags
<1>7. Control'
  <2>1. ~active => step' \in {"idle", "preparing"}
    BY DEF restore, upload_fails, drain_timeout, IInv, Control
  <2>2. step' = "preparing" => ~active
    BY DEF restore, upload_fails, drain_timeout
  <2> QED
    BY <1>1, <1>3, <2>1, <2>2 DEF IInv, Control
<1>8. WriterOK'
  <2>1. \A e \in Entry : Queued(e) => Queued(e)'
    BY <1>1, <1>3 DEF Queued
  <2> QED
    BY <1>3, <2>1, QueueKept DEF IInv
<1>9. \A s \in Sockets : SessionOK(s)'
  BY <1>3, SessionKept DEF IInv
<1>10. \A r \in Requests : CallOK(r)'
  BY <1>3 DEF IInv, CallOK
<1>11. Promised'
  BY <1>1, <1>3 DEF IInv, Promised, DbSteps
<1>12. Marked'
  BY <1>3, <1>4 DEF IInv, Marked
<1> QED
  BY <1>5, <1>6, <1>7, <1>8, <1>9, <1>10, <1>11, <1>12 DEF IInv

(* _switch: in one step of the loop every session is retired and every     *)
(* call is answered.                                                       *)
LEMMA SwitchStep == ASSUME IInv, _switch PROVE IInv'
<1> DEFINE gone == {conns[a] : a \in Agents} \ {None}
<1>1. /\ step = "preparing" /\ step' = "draining" /\ active' = TRUE
      /\ retiring' = TRUE /\ maintenance' = TRUE /\ ready' = {}
      /\ conns' = [a \in Agents |-> None] /\ _abandon_pending(gone)
      /\ UNCHANGED <<sess, gw, writer, db, owed, outcome, snapshot, notifier>>
  BY DEF _switch, retire_for_restore
<1>2. /\ pending' \in [Requests -> Sockets \union {None}] /\ req' \in [Requests -> RequestAt]
      /\ \A r \in Requests :
           \/ req'[r] = req[r] /\ pending'[r] = pending[r] /\ pending[r] \notin gone
           \/ req[r] = "calling" /\ req'[r] = "running" /\ pending'[r] = None
  BY <1>1, Abandon
<1>3. \A r \in Requests : pending[r] = None \/ pending[r] \in gone
  BY DEF IInv, CallOK, SessionOK, Holding, Serving, Types
<1> HIDE DEF gone
<1>4. step \notin DbSteps /\ step' \notin DbSteps /\ step' \in Steps
  BY <1>1 DEF DbSteps, Steps
<1>5. Types'
  BY <1>1, <1>2, <1>4 DEF IInv, Types
<1>6. Flags'
  BY <1>1 DEF IInv, Flags
<1>7. Control'
  BY <1>1, <1>4 DEF Control
<1>8. WriterOK'
  <2>1. \A e \in Entry : Queued(e) => Queued(e)'
    BY <1>1, <1>2, <1>4 DEF Queued
  <2> QED
    BY <1>1, <2>1, QueueKept DEF IInv
<1>9. \A s \in Sockets : SessionOK(s)'
  BY <1>1, RetiredSession
<1>10. \A r \in Requests : CallOK(r)'
  BY <1>1, <1>2, <1>3 DEF IInv, CallOK
<1>11. Promised'
  BY <1>1, <1>4 DEF IInv, Promised, DbSteps
<1>12. Marked'
  BY <1>1 DEF IInv, Marked
<1> QED
  BY <1>5, <1>6, <1>7, <1>8, <1>9, <1>10, <1>11, <1>12 DEF IInv

(* The last request has left: the first step on the database is queued     *)
(* behind all the writes there are.                                        *)
LEMMA DrainedStep == ASSUME IInv, drained PROVE IInv'
<1> DEFINE e == <<"restore", "clean">>
<1>1. /\ step = "draining" /\ step' = "clean" /\ notifier' = "paused"
      /\ writer' = Append(writer, e)
      /\ \A r \in Requests : req[r] \in {"none", "done"}
      /\ UNCHANGED <<sess, conns, ready, gatewayVars, pending, req, db, owed, active,
                     outcome, snapshot>>
  BY DEF drained, Queue, Idle, InFlight
<1>2. step \notin DbSteps /\ step' \in DbSteps /\ step' \in Steps /\ active
  BY <1>1 DEF DbSteps, Steps, IInv, Control
<1>3. e \in Entry /\ ~Queued(e) /\ Queued(e)'
  BY <1>1, <1>2 DEF Entry, Queued, SessionWrites, DbSteps
<1>4. \A f \in Entry : Queued(f) => Queued(f)'
  BY <1>1, <1>2 DEF Queued
<1> HIDE DEF e
<1>5. writer' \in Seq(Entry) /\ WriterOK'
  BY <1>1, <1>2, <1>3, <1>4, QueueGrows DEF IInv
<1>6. Types'
  BY <1>1, <1>2, <1>5 DEF IInv, Types, gatewayVars
<1>7. Flags'
  BY <1>1 DEF IInv, Flags, gatewayVars
<1>8. Control'
  BY <1>1, <1>2 DEF IInv, Control, gatewayVars
<1>9. \A s \in Sockets : SessionOK(s)'
  BY <1>1, SessionKept DEF IInv, gatewayVars
<1>10. \A r \in Requests : CallOK(r)'
  BY <1>1 DEF IInv, CallOK
<1>11. Promised'
  BY <1>1 DEF IInv, Promised
<1>12. Marked'
  BY <1>1 DEF IInv, Marked, gatewayVars
<1> QED
  BY <1>5, <1>6, <1>7, <1>8, <1>9, <1>10, <1>11, <1>12 DEF IInv

(* What a step on the database that succeeds makes of it, of the snapshot  *)
(* and of the promises.                                                    *)
LEMMA EffectSound ==
    ASSUME IInv, step \in DbSteps, Effect(step), step' = AfterDone[step]
    PROVE  /\ db' \in Database /\ snapshot' \in Copy /\ owed' \subseteq Rows
           /\ db'.backup <= gw /\ snapshot'.backup <= gw
           /\ Promised' /\ step' \in Steps \ {"idle", "preparing", "draining"}
<1>1. db \in Database /\ snapshot \in Copy /\ owed \subseteq Rows /\ gw \in Nat
  BY DEF IInv, Types
<1>2. db.backup <= gw /\ snapshot.backup <= gw /\ owed \subseteq db.rows
  BY DEF IInv, Marked, Promised
<1>3. CASE step = "clean"
  <2>1. db' = [db EXCEPT !.connected = {}] /\ UNCHANGED <<snapshot, owed>> /\ step' = "backup"
    BY <1>3 DEF Effect, AfterDone
  <2>2. db' \in Database /\ db'.rows = db.rows /\ db'.backup = db.backup
    BY <1>1, <2>1 DEF Database
  <2> QED
    BY <1>1, <1>2, <2>1, <2>2 DEF Promised, Steps, DbSteps
<1>4. CASE step = "backup"
  <2>1. /\ snapshot' = [connected |-> db.connected, rows |-> db.rows,
                        backup |-> db.backup, owed |-> owed, taken |-> TRUE]
        /\ UNCHANGED <<db, owed>> /\ step' = "replace"
    BY <1>4 DEF Effect, AfterDone
  <2>2. /\ snapshot' \in Copy /\ snapshot'.rows = db.rows /\ snapshot'.backup = db.backup
        /\ snapshot'.owed = owed
    BY <1>1, <2>1 DEF Database, Copy
  <2> QED
    BY <1>1, <1>2, <2>1, <2>2 DEF Promised, Steps, DbSteps
<1>5. CASE step = "replace"
  <2>1. db' = Backup /\ owed' = {} /\ UNCHANGED snapshot /\ step' = "reset"
    BY <1>5 DEF Effect, AfterDone
  <2>2. db' \in Database /\ db'.backup = gw
    BY <1>1, <2>1 DEF Database, Backup
  <2>3. snapshot.owed \subseteq snapshot.rows
    BY <1>5 DEF IInv, Promised
  <2> QED
    BY <1>1, <1>2, <2>1, <2>2, <2>3 DEF Promised, Steps, DbSteps
<1>6. CASE step = "reset"
  <2>1. db' = [db EXCEPT !.connected = {}] /\ UNCHANGED <<snapshot, owed>> /\ step' = "verify"
    BY <1>6 DEF Effect, AfterDone
  <2>2. db' \in Database /\ db'.rows = db.rows /\ db'.backup = db.backup
    BY <1>1, <2>1 DEF Database
  <2>3. owed \subseteq snapshot.rows /\ snapshot.owed \subseteq snapshot.rows
    BY <1>6 DEF IInv, Promised
  <2> QED
    BY <1>1, <1>2, <2>1, <2>2, <2>3 DEF Promised, Steps, DbSteps
<1>7. CASE step = "rollback"
  <2>1. /\ db' = [connected |-> snapshot.connected, rows |-> snapshot.rows,
                  backup |-> snapshot.backup]
        /\ owed' = owed \union snapshot.owed /\ UNCHANGED snapshot /\ step' = "verify_back"
    BY <1>7 DEF Effect, AfterDone
  <2>2. db' \in Database /\ db'.rows = snapshot.rows /\ db'.backup = snapshot.backup
    BY <1>1, <2>1 DEF Database, Copy
  <2>3. owed \subseteq snapshot.rows /\ snapshot.owed \subseteq snapshot.rows
    BY <1>7 DEF IInv, Promised
  <2>4. snapshot.owed \subseteq Rows
    BY <1>1 DEF Copy
  <2> QED
    BY <1>1, <1>2, <2>1, <2>2, <2>3, <2>4 DEF Promised, Steps, DbSteps
<1>8. CASE step \in {"verify", "verify_back"}
  <2>1. step' = "finish"
    BY <1>8 DEF AfterDone
  <2>2. UNCHANGED <<db, snapshot, owed>>
    <3>1. CASE step = "verify"
      BY <3>1 DEF Effect
    <3>2. CASE step = "verify_back"
      BY <3>2 DEF Effect
    <3> QED
      BY <1>8, <3>1, <3>2
  <2> QED
    BY <1>1, <1>2, <2>1, <2>2 DEF Promised, Steps
<1> QED
  BY <1>3, <1>4, <1>5, <1>6, <1>7, <1>8 DEF DbSteps

(* One that fails leaves everything as it is.                              *)
LEMMA FailureSound ==
    ASSUME IInv, step \in DbSteps, step' = AfterFailed[step],
           UNCHANGED <<db, snapshot, owed>>
    PROVE  /\ db' \in Database /\ snapshot' \in Copy /\ owed' \subseteq Rows
           /\ db'.backup <= gw /\ snapshot'.backup <= gw
           /\ Promised' /\ step' \in Steps \ {"idle", "preparing", "draining"}
<1>1. db \in Database /\ snapshot \in Copy /\ owed \subseteq Rows
  BY DEF IInv, Types
<1>2. db.backup <= gw /\ snapshot.backup <= gw /\ owed \subseteq db.rows
  BY DEF IInv, Marked, Promised
<1>3. /\ step \in {"replace", "reset", "verify"} => step' = "rollback"
      /\ step \notin {"replace", "reset", "verify"} => step' = "finish"
  BY DEF DbSteps, AfterFailed
<1>4. step' = "rollback" => owed \subseteq snapshot.rows /\ snapshot.owed \subseteq snapshot.rows
  BY <1>3 DEF IInv, Promised
<1>5. step' \in {"rollback", "finish"}
  BY <1>3
<1> QED
  BY <1>1, <1>2, <1>4, <1>5 DEF Promised, Steps, DbSteps

(* A step on the database is alone in the queue: all that was queued       *)
(* before it is written, and nothing is queued behind it.                  *)
LEMMA DbStepStep == ASSUME IInv, db_step PROVE IInv'
<1>1. /\ NextWrite("restore")
      /\ UNCHANGED <<sess, conns, ready, gatewayVars, pending, req, active, notifier>>
  BY DEF db_step
<1>2. step \in DbSteps /\ writer # <<>> /\ Head(writer)[1] = "restore"
  BY <1>1, FirstEntry DEF IInv, Queued
<1>3. Len(writer) = 1 /\ Tail(writer) = <<>>
  <2>1. writer \in Seq(Entry) /\ 1 \in 1..Len(writer) /\ writer[1][1] = "restore"
    BY <1>2 DEF IInv, Types
  <2>2. Len(writer) = 1
    BY <2>1 DEF IInv, WriterOK
  <2>3. Tail(writer) \in Seq(Entry) /\ Len(Tail(writer)) = 0
    BY <1>2, <2>1, <2>2
  <2> QED
    BY <2>2, <2>3, EmptySeq
<1>4. /\ db' \in Database /\ snapshot' \in Copy /\ owed' \subseteq Rows
      /\ db'.backup <= gw /\ snapshot'.backup <= gw
      /\ Promised' /\ step' \in Steps \ {"idle", "preparing", "draining"}
  BY <1>2, EffectSound, FailureSound DEF db_step, Proceed
<1>5. writer' = IF step' = "finish" THEN <<>> ELSE Append(<<>>, <<"restore", step'>>)
  BY <1>3 DEF db_step, Proceed
<1>6. outcome' \in {"none", "unchanged", "restored", "rolled_back", "manual_recovery"}
  <2>1. ASSUME step \in DOMAIN Outcome PROVE Outcome[step] \in {"restored", "rolled_back"}
    BY <2>1 DEF Outcome
  <2>2. ASSUME step \in DOMAIN FailedOutcome
        PROVE  FailedOutcome[step] \in {"unchanged", "manual_recovery"}
    BY <2>2 DEF FailedOutcome
  <2> QED
    BY <2>1, <2>2 DEF db_step, IInv, Flags
<1>7. writer' \in Seq(Entry) /\ WriterOK'
  <2>1. CASE step' = "finish"
    BY <1>5, <2>1 DEF WriterOK
  <2>2. CASE step' # "finish"
    <3>1. step' \in DbSteps
      BY <1>4, <2>2 DEF Steps
    <3>2. <<"restore", step'>> \in Entry
      BY <3>1 DEF Entry
    <3>3. /\ writer' \in Seq(Entry) /\ Len(writer') = 1 /\ writer'[1] = <<"restore", step'>>
      BY <1>5, <2>2, <3>2
    <3>4. \A k \in 1..Len(writer') : k = 1
      BY <3>3
    <3>5. Queued(writer[1])'
      BY <3>1, <3>3 DEF Queued, SessionWrites
    <3> QED
      BY <3>3, <3>4, <3>5 DEF WriterOK
  <2> QED
    BY <2>1, <2>2
<1>8. active /\ step' \notin {"idle", "preparing"}
  BY <1>2, <1>4 DEF IInv, Control, DbSteps
<1>9. retiring /\ ready = {} /\ \A r \in Requests : pending[r] = None
  BY <1>8, Silenced
<1>10. Types'
  BY <1>1, <1>4, <1>7 DEF IInv, Types, gatewayVars
<1>11. Flags'
  BY <1>1, <1>6 DEF IInv, Flags, gatewayVars
<1>12. Control'
  BY <1>1, <1>2, <1>8 DEF IInv, Control, gatewayVars
<1>13. \A s \in Sockets : SessionOK(s)'
  BY <1>1, <1>9, RetiredSession DEF gatewayVars
<1>14. \A r \in Requests : CallOK(r)'
  BY <1>1, <1>2, <1>9 DEF IInv, Control, CallOK
<1>15. Marked'
  BY <1>1, <1>4, <1>9 DEF Marked, gatewayVars
<1> QED
  BY <1>4, <1>7, <1>10, <1>11, <1>12, <1>13, <1>14, <1>15 DEF IInv

(* The services are rebuilt, or an operator is called.                     *)
LEMMA FinishStep == ASSUME IInv, finish PROVE IInv'
<1>1. /\ step = "finish" /\ step' = "idle"
      /\ UNCHANGED <<sess, conns, ready, pending, req, writer, db, owed, snapshot>>
  BY DEF finish
<1>2. step \notin DbSteps /\ step' \notin DbSteps /\ step' \in Steps /\ active
  BY <1>1 DEF DbSteps, Steps, IInv, Control
<1>3. retiring /\ ready = {} /\ \A r \in Requests : pending[r] = None
  BY <1>2, Silenced
<1>4. \/ /\ gw' = gw + 1 /\ retiring' = FALSE /\ maintenance' = FALSE /\ active' = FALSE
         /\ notifier' = "running" /\ outcome' = outcome
      \/ /\ outcome' = "manual_recovery"
         /\ UNCHANGED <<gw, retiring, maintenance, active, notifier>>
  BY DEF finish, rebuild, gatewayVars
<1>5. gw \in Nat /\ gw' \in Nat /\ db.backup \in Nat /\ snapshot.backup \in Nat
  BY <1>4 DEF IInv, Types, Database, Copy
<1>6. Types'
  BY <1>1, <1>2, <1>5 DEF IInv, Types
<1>7. Flags'
  BY <1>4 DEF IInv, Flags
<1>8. Control'
  BY <1>1, <1>2, <1>4 DEF IInv, Control
<1>9. WriterOK'
  <2>1. \A e \in Entry : Queued(e) => Queued(e)'
    BY <1>1, <1>2 DEF Queued
  <2> QED
    BY <1>1, <2>1, QueueKept DEF IInv
<1>10. \A s \in Sockets : SessionOK(s)'
  BY <1>1, <1>3, <1>4, RetiredSession
<1>11. \A r \in Requests : CallOK(r)'
  BY <1>1 DEF IInv, CallOK
<1>12. Promised'
  BY <1>1 DEF IInv, Promised
<1>13. Marked'
  <2>1. db.backup <= gw /\ snapshot.backup <= gw
    BY DEF IInv, Marked
  <2>2. gw' = gw + 1 \/ (gw' = gw /\ retiring')
    BY <1>3, <1>4
  <2>3. db.backup <= gw' /\ snapshot.backup <= gw' /\ (~retiring' => db.backup < gw')
    BY <1>5, <2>1, <2>2
  <2> QED
    BY <1>1, <2>3 DEF Marked
<1> QED
  BY <1>6, <1>7, <1>8, <1>9, <1>10, <1>11, <1>12, <1>13 DEF IInv

(* The process is killed and started on the database as it is.             *)
LEMMA RestartStep == ASSUME IInv, restart PROVE IInv'
<1>1. /\ sess' = [s \in Sockets |->
                    IF sess[s].at = "none" THEN sess[s] ELSE [sess[s] EXCEPT !.at = "gone"]]
      /\ conns' = [a \in Agents |-> None] /\ ready' = {}
      /\ gw' = gw + 1
      /\ pending' = [r \in Requests |-> None]
      /\ req' = [r \in Requests |-> IF req[r] = "none" THEN "none" ELSE "done"]
      /\ writer' = <<>>
      /\ db' = [db EXCEPT !.connected = {}]
      /\ step' = "idle" /\ outcome' = "none"
      /\ snapshot' = NoSnapshot /\ notifier' = "running" /\ owed' = owed
  BY DEF restart
<1>2. retiring' = FALSE /\ maintenance' = FALSE /\ active' = FALSE
  BY DEF restart
<1>3. db \in Database /\ gw \in Nat /\ db.backup \in Nat
  BY DEF IInv, Types, Database
<1>4. db' \in Database /\ db'.rows = db.rows /\ db'.backup = db.backup
  BY <1>1, <1>3 DEF Database
<1>5. NoSnapshot \in Copy /\ NoSnapshot.backup = 0
  <2>1. {} \in SUBSET Agents /\ {} \in SUBSET Rows /\ 0 \in Nat /\ FALSE \in BOOLEAN
    OBVIOUS
  <2>2. NoSnapshot \in Copy
    BY <2>1, Zenon DEF NoSnapshot, Copy
  <2> QED
    BY <2>2 DEF NoSnapshot
<1>6. ASSUME NEW s \in Sockets
      PROVE  sess'[s] \in SessionRow /\ sess'[s].at \in {"none", "gone"}
             /\ sess'[s].gw = sess[s].gw
  <2>1. sess[s] \in SessionRow
    BY DEF IInv, Types
  <2>2. "gone" \in SessionAt
    BY DEF SessionAt
  <2>3. [sess[s] EXCEPT !.at = "gone"] \in SessionRow
    BY <2>1, <2>2 DEF SessionRow
  <2> QED
    BY <1>1, <2>1, <2>3 DEF SessionRow
<1>7. sess' \in [Sockets -> SessionRow]
  BY <1>1, <1>6
<1>8. step' \notin DbSteps /\ step' \in Steps
  BY <1>1 DEF DbSteps, Steps
<1>9. Types'
  BY <1>1, <1>3, <1>4, <1>5, <1>7, <1>8 DEF IInv, Types, RequestAt
<1>10. Flags'
  BY <1>1, <1>2 DEF Flags
<1>11. Control'
  BY <1>1, <1>2, <1>8 DEF Control
<1>12. WriterOK'
  BY <1>1 DEF WriterOK
<1>13. ASSUME NEW s \in Sockets PROVE SessionOK(s)'
  <2>1. sess[s] \in SessionRow /\ sess[s].gw <= gw
    BY DEF IInv, Types, SessionOK
  <2>2. sess[s].gw \in Nat
    BY <2>1 DEF SessionRow
  <2>3. sess'[s].gw <= gw'
    BY <1>1, <1>3, <1>6, <2>1, <2>2
  <2> QED
    BY <1>1, <1>6, <2>3 DEF SessionOK, Holding, Serving
<1>14. \A r \in Requests : CallOK(r)'
  BY <1>1 DEF CallOK
<1>15. Promised'
  BY <1>1, <1>4 DEF IInv, Promised
<1>16. Marked'
  BY <1>1, <1>3, <1>4, <1>5 DEF IInv, Marked
<1> QED
  BY <1>9, <1>10, <1>11, <1>12, <1>13, <1>14, <1>15, <1>16 DEF IInv

-----------------------------------------------------------------------------
(* The invariant holds of a hub that has just been started ...             *)
LEMMA InitIInv == ASSUME InitRestore PROVE IInv
<1>1. /\ sess = [s \in Sockets |-> [at |-> "none", agent |-> None, item |-> None, gw |-> 0]]
      /\ conns = [a \in Agents |-> None] /\ ready = {} /\ gw = 1
      /\ pending = [r \in Requests |-> None] /\ req = [r \in Requests |-> "none"]
      /\ writer = <<>> /\ db = [connected |-> {}, rows |-> {}, backup |-> 0] /\ owed = {}
      /\ step = "idle" /\ outcome = "none" /\ snapshot = NoSnapshot /\ notifier = "running"
  BY DEF InitRestore, InitRegistry
<1>2. retiring = FALSE /\ maintenance = FALSE /\ active = FALSE
  BY DEF InitRestore, InitRegistry
<1>3. NoSnapshot \in Copy /\ NoSnapshot.backup = 0
  <2>1. {} \in SUBSET Agents /\ {} \in SUBSET Rows /\ 0 \in Nat /\ FALSE \in BOOLEAN
    OBVIOUS
  <2>2. NoSnapshot \in Copy
    BY <2>1, Zenon DEF NoSnapshot, Copy
  <2> QED
    BY <2>2 DEF NoSnapshot
<1>4. db \in Database /\ sess \in [Sockets -> SessionRow]
  BY <1>1 DEF Database, SessionRow, SessionAt
<1>5. step \notin DbSteps /\ step \in Steps
  BY <1>1 DEF DbSteps, Steps
<1>6. Types
  BY <1>1, <1>3, <1>4, <1>5 DEF Types, RequestAt
<1>7. Flags /\ Control
  BY <1>1, <1>2, <1>5 DEF Flags, Control
<1>8. WriterOK
  BY <1>1 DEF WriterOK
<1>9. \A s \in Sockets : SessionOK(s)
  BY <1>1 DEF SessionOK, Holding, Serving
<1>10. \A r \in Requests : CallOK(r)
  BY <1>1 DEF CallOK
<1>11. Promised /\ Marked
  BY <1>1, <1>3 DEF Promised, Marked
<1> QED
  BY <1>6, <1>7, <1>8, <1>9, <1>10, <1>11 DEF IInv

(* ... and every step keeps it.                                            *)
LEMMA NextIInv == IInv /\ [Next]_restoreVars => IInv'
<1> SUFFICES ASSUME IInv, [Next]_restoreVars PROVE IInv'
  OBVIOUS
<1>1. CASE WriterNext /\ UNCHANGED controlVars
  BY <1>1, RegistrationStep, DisconnectStep, EventStep, RowStep DEF WriterNext
<1>2. CASE SessionNext /\ UNCHANGED controlVars
  BY <1>2, HelloStep, RegisteredStep, EndsStep, ReleasedStep, AcknowledgeStep, IngestStep
     DEF SessionNext
<1>3. CASE RequestNext /\ UNCHANGED controlVars
  BY <1>3, CallStep, WriteStep, RespondStep DEF RequestNext
<1>4. CASE SwitchNext
  BY <1>4, SwitchStep, DrainedStep, PrepareStep, DbStepStep, FinishStep DEF SwitchNext
<1>5. CASE UNCHANGED restoreVars
  <2>1. UNCHANGED <<sess, conns, ready, gw, retiring, maintenance, pending, req, writer,
                    db, owed, step, active, outcome, snapshot, notifier>>
    BY <1>5 DEF restoreVars, registryVars, controlVars
  <2>2. \A e \in Entry : Queued(e) => Queued(e)'
    BY <2>1 DEF Queued
  <2>3. WriterOK'
    BY <2>1, <2>2, QueueKept DEF IInv
  <2>4. \A s \in Sockets : SessionOK(s)'
    BY <2>1, SessionKept DEF IInv
  <2>5. Types' /\ Promised' /\ Marked' /\ \A r \in Requests : CallOK(r)'
    BY <2>1 DEF IInv, Types, Promised, Marked, CallOK
  <2>6. Flags' /\ Control'
    BY <2>1 DEF IInv, Flags, Control
  <2> QED
    BY <2>3, <2>4, <2>5, <2>6 DEF IInv
<1> QED
  BY <1>1, <1>2, <1>3, <1>4, <1>5, OpenSocketStep, OpenRequestStep, PrepareStep,
     RestartStep DEF Next

(* The invariant of registry and restore holds in every reachable state.   *)
THEOREM Invariance == Spec => []IInv
<1>1. InitRestore => IInv
  BY InitIInv
<1> QED
  BY <1>1, NextIInv, PTL DEF Spec

(* Every variable of the registry and of the restore holds what its object *)
(* can hold (gateway.py, restore.py).                                      *)
THEOREM RegistryTypeCorrect == Spec => []TypeOK
<1>1. IInv => TypeOK
  <2> SUFFICES ASSUME IInv PROVE TypeOK
    OBVIOUS
  <2>1. \A k \in DOMAIN writer :
          writer[k][1] \in {"register", "disconnect", "event", "row", "restore"}
    BY DEF IInv, Types, Entry, SessionWrites
  <2>2. /\ sess \in [Sockets -> [at : SessionAt, agent : Agents \union {None},
                                 item : Items \union {None}, gw : Nat]]
        /\ conns \in [Agents -> Sockets \union {None}] /\ ready \subseteq Sockets
        /\ gw \in Nat /\ pending \in [Requests -> Sockets \union {None}]
        /\ req \in [Requests -> RequestAt] /\ step \in Steps
    BY DEF IInv, Types, SessionRow
  <2>3. /\ db.connected \subseteq Agents /\ db.rows \subseteq Items \union Requests
        /\ owed \subseteq Items \union Requests
    BY DEF IInv, Types, Database, Rows
  <2>4. /\ retiring \in BOOLEAN /\ maintenance \in BOOLEAN /\ active \in BOOLEAN
        /\ outcome \in {"none", "unchanged", "restored", "rolled_back", "manual_recovery"}
        /\ notifier \in {"running", "paused"}
    BY DEF IInv, Flags
  <2> QED
    BY <2>1, <2>2, <2>3, <2>4 DEF TypeOK
<1> QED
  BY <1>1, Invariance, PTL

(* A session that is served is the only one of its agent and shown as      *)
(* connected, a call waits only for a session that is served, what was     *)
(* acknowledged or answered is in the live database, and an open API has   *)
(* a gateway and a notifier behind it (gateway.py, _register, _unregister, *)
(* _abandon_pending; restore.py, _switch).                                 *)
THEOREM SessionsAreTrue == Spec => []SessionsTrue
<1>1. IInv => SessionsTrue
  <2> SUFFICES ASSUME IInv PROVE SessionsTrue
    OBVIOUS
  <2>1. \A s \in ready : /\ s \in Sockets /\ ~Retired(s) /\ sess[s].at \in Serving
                         /\ conns[sess[s].agent] = s /\ sess[s].agent \in db.connected
    BY DEF IInv, Types, SessionOK, Holding, Serving
  <2>2. LiveIsConnected /\ OneSession
    BY <2>1 DEF LiveIsConnected, OneSession
  <2>3. PendingHasOwner /\ PromisesKept
    BY DEF IInv, CallOK, Promised, PendingHasOwner, PromisesKept
  <2>4. OpenIsServing
    BY DEF IInv, Control, OpenIsServing
  <2> QED
    BY <2>2, <2>3, <2>4 DEF SessionsTrue
<1> QED
  BY <1>1, Invariance, PTL

(* What a session of a gateway that was retired for a restore still has to *)
(* write never reaches the restored database: neither an event nor its     *)
(* registration or its clean-up (gateway.py:246-248).                      *)
THEOREM RetiredSessionsAreSilent == Spec => NoStaleWrite
<1>1. ASSUME IInv, writer # <<>>, Head(writer)[1] \in {"register", "disconnect", "event"}
      PROVE  sess[Writing].gw > db.backup
  <2>1. NextWrite(Head(writer)[1])
    BY <1>1 DEF NextWrite
  <2>2. Queued(Head(writer)) /\ Head(writer)[2] = Writing
    BY <1>1, <2>1, FirstEntry DEF IInv
  <2> QED
    BY <1>1, <2>2 DEF Queued, SessionWrites
<1>2. IInv => [db' # db /\ writer # <<>> /\ Head(writer)[1] \in {"register", "disconnect", "event"}
                 /\ writer' = Tail(writer)
               => sess[Writing].gw > db.backup]_restoreVars
  BY <1>1
<1> QED
  BY <1>2, Invariance, PTL DEF NoStaleWrite

-----------------------------------------------------------------------------
(* SMS delivery reports, for every number of messages and segments and any *)
(* number of reports.                                                      *)

(* Messages and segments are counted from 1, and two messages that use the *)
(* same references are far enough apart for a service centre that stamps a *)
(* segment within a tick of its sending.                                   *)
Apart ==
    /\ \E k \in Nat : Messages = 1 .. k
    /\ SegmentCount \in Nat /\ Gap \in Nat /\ Gap > 2

Segments == Dlvr!Segments

SegmentRow == [msg : Messages \union {0}, ref : Segments, status : Dlvr!States, old : BOOLEAN]

DeliveryTypes ==
    /\ taken \in [Messages -> 0 .. SegmentCount]
    /\ sent \in [Messages -> {"none", "pending", "failed"}]
    /\ rows \subseteq SegmentRow
    /\ msgStatus \in [Messages -> {"none", "partial"} \cup Dlvr!States]
    /\ best \in [Dlvr!Keys -> Dlvr!States]
    /\ stray \in BOOLEAN

(* A segment has one row at most, and so has a reference without a match.  *)
OneRow == \A r, q \in rows : r.msg = q.msg /\ r.ref = q.ref => r = q

(* A message has its rows when its send was applied, not before; only rows *)
(* without a match grow old.                                               *)
Attached ==
    /\ \A r \in rows : r.msg # 0 => sent[r.msg] = "pending" /\ ~r.old
    /\ \A m \in Messages : sent[m] = "pending" =>
           \A n \in Segments : \E r \in rows : r.msg = m /\ r.ref = n

(* A message is shown as delivered when all its rows are.                  *)
Shown ==
    \A m \in Messages : msgStatus[m] = "delivered" =>
        sent[m] = "pending" /\ \A r \in rows : r.msg = m => r.status = "delivered"

(* Messages are sent one at a time, and nothing is reported that was not.  *)
OneByOne ==
    /\ \A m \in Messages : taken[m] > 0 => \A k \in Messages : k < m => sent[k] # "none"
    /\ \A m \in Messages, n \in Segments : n > taken[m] => best[<<m, n>>] = "pending"

(* A row without a match holds the reports of the message being sent.      *)
Awaiting ==
    ~stray =>
        /\ \A r \in rows : r.msg = 0 =>
               ~r.old /\ \E m \in Messages : sent[m] = "none" /\ r.ref <= taken[m]
                                             /\ r.status = best[<<m, r.ref>>]
        /\ \A m \in Messages, n \in Segments :
               sent[m] = "none" /\ (\A r \in rows : r.msg = 0 => r.ref # n) => best[<<m, n>>] = "pending"

DeliveryInv ==
    /\ DeliveryTypes /\ OneRow /\ Attached /\ Shown /\ OneByOne /\ Awaiting /\ Dlvr!ReportsKept

(* A set of numbers that is not empty has a least member.                  *)
LEMMA LeastNumber ==
    ASSUME NEW S, S \subseteq Nat, S # {}
    PROVE  \E x \in S : \A y \in S : x <= y
<1> DEFINE LT == {ss \in Nat \X Nat : ss[1] < ss[2]}
<1>1. \E x \in S : \A y \in S : ~(<<y, x>> \in OpToRel(<, Nat))
  BY NatLessThanWellFounded, WFMin
<1>2. OpToRel(<, Nat) = LT
  BY Zenon DEF OpToRel
<1>3. PICK x \in S : \A y \in S : <<y, x>> \notin LT
  BY <1>1, <1>2, Zenon
<1> HIDE DEF LT
<1>4. \A a, b \in Nat : a < b => <<a, b>> \in LT
  BY DEF LT
<1>5. ASSUME NEW y \in S PROVE x <= y
  <2>1. x \in Nat /\ y \in Nat /\ <<y, x>> \notin LT
    BY <1>3
  <2> QED
    BY <1>4, <2>1
<1> QED
  BY <1>5

(* Of some rows of messages there is one of the latest message.            *)
LEMMA LatestRow ==
    ASSUME Apart, DeliveryTypes, NEW S \in SUBSET rows, S # {}, \A r \in S : r.msg # 0
    PROVE  \E r \in S : \A q \in S : q.msg <= r.msg
<1>1. PICK k \in Nat : Messages = 1 .. k
  BY DEF Apart
<1>2. \A r \in S : r.msg \in 1 .. k
  BY <1>1 DEF DeliveryTypes, SegmentRow
<1> DEFINE T == {k - r.msg : r \in S}
<1>3. T \subseteq Nat /\ T # {}
  BY <1>2
<1>4. PICK x \in T : \A y \in T : x <= y
  <2> HIDE DEF T
  <2> QED
    BY <1>3, LeastNumber
<1>5. PICK r \in S : x = k - r.msg
  BY <1>4
<1>6. \A q \in S : k - r.msg <= k - q.msg
  BY <1>4, <1>5
<1>7. \A q \in S : q.msg <= r.msg
  BY <1>2, <1>6
<1> QED
  BY <1>5, <1>7

(* Two messages are at least three ticks apart.                            *)
LEMMA Spread ==
    ASSUME Apart
    PROVE  /\ \A m \in Nat : Gap * m \in Nat
           /\ \A m, k \in Nat : m < k => Gap * m + 3 <= Gap * k
<1>1. Gap \in Nat /\ Gap > 2
  BY DEF Apart
<1>2. \A m \in Nat : Gap * m \in Nat
  BY <1>1
<1>3. ASSUME NEW m \in Nat, NEW k \in Nat, m < k PROVE Gap * m + 3 <= Gap * k
  <2>1. PICK d \in Nat : k = m + 1 + d
    <3>1. k - m - 1 \in Nat /\ k = m + 1 + (k - m - 1)
      BY <1>3
    <3> QED
      BY <3>1
  <2>2. Gap * k = Gap * m + Gap + Gap * d
    BY <1>1, <2>1
  <2>3. Gap * d \in Nat /\ Gap * m \in Nat
    BY <1>2
  <2> QED
    BY <1>1, <2>2, <2>3
<1> QED
  BY <1>2, <1>3

(* The hub finds one of the rows it may choose from.                       *)
LEMMA MatchFound ==
    ASSUME Apart, DeliveryTypes, NEW S \in SUBSET rows, S # {}, \A r \in S : r.msg # 0,
           NEW ts \in Int
    PROVE  Dlvr!Match(S, ts) \in S
<1>1. CASE ts = -1
  BY <1>1, LatestRow DEF Dlvr!Match
<1>2. CASE ts # -1
  <2> DEFINE D == {Dlvr!Distance(r, ts) : r \in S}
  <2>1. \A r \in S : r.msg \in Nat
    BY DEF DeliveryTypes, SegmentRow, Apart
  <2>2. \A r \in S : Dlvr!Submitted(r.msg) \in Nat
    BY <2>1, Spread DEF Dlvr!Submitted
  <2>3. \A r \in S : Dlvr!Distance(r, ts) \in Nat
    BY <2>2 DEF Dlvr!Distance
  <2>4. PICK d \in D : \A e \in D : d <= e
    <3>1. D \subseteq Nat /\ D # {}
      BY <2>3
    <3> HIDE DEF D
    <3> QED
      BY <3>1, LeastNumber
  <2> DEFINE T == {r \in S : Dlvr!Distance(r, ts) = d}
  <2>5. T # {} /\ \A r \in T : r.msg # 0
    BY <2>4
  <2>6. PICK r \in T : \A q \in T : q.msg <= r.msg
    BY <2>5, LatestRow
  <2>7. ASSUME NEW q \in S
        PROVE  \/ Dlvr!Distance(r, ts) < Dlvr!Distance(q, ts)
               \/ Dlvr!Distance(r, ts) = Dlvr!Distance(q, ts) /\ q.msg <= r.msg
    <3>1. d <= Dlvr!Distance(q, ts)
      BY <2>4
    <3> QED
      BY <2>3, <2>6, <3>1
  <2>8. r \in S
    BY <2>6
  <2> HIDE DEF T, D
  <2>9. Dlvr!Match(S, ts) = CHOOSE x \in S : \A q \in S :
           \/ Dlvr!Distance(x, ts) < Dlvr!Distance(q, ts)
           \/ Dlvr!Distance(x, ts) = Dlvr!Distance(q, ts) /\ q.msg <= x.msg
    BY <1>2 DEF Dlvr!Match
  <2> QED
    BY <2>7, <2>8, <2>9
<1> QED
  BY <1>1, <1>2

(* A report with its time, or of the latest message, finds its own row.    *)
LEMMA MatchOwn ==
    ASSUME Apart, DeliveryTypes, NEW S \in SUBSET rows, \A r \in S : r.msg # 0,
           NEW own \in S, \A r \in S : r.msg = own.msg => r = own,
           NEW ts \in {-1, Gap * own.msg, Gap * own.msg + 1},
           ts = -1 => \A r \in S : r.msg <= own.msg
    PROVE  Dlvr!Match(S, ts) = own
<1>1. \A r \in S : r.msg \in Nat
  BY DEF DeliveryTypes, SegmentRow, Apart
<1>2. CASE ts = -1
  <2>1. Dlvr!Match(S, ts) = CHOOSE r \in S : \A q \in S : q.msg <= r.msg
    BY <1>2 DEF Dlvr!Match
  <2>2. \A r \in S : (\A q \in S : q.msg <= r.msg) => r = own
    BY <1>1, <1>2
  <2> QED
    BY <1>2, <2>1, <2>2
<1>3. CASE ts # -1
  <2>1. \A r \in S : Gap * r.msg \in Nat
    BY <1>1, Spread
  <2>2. ts \in {Gap * own.msg, Gap * own.msg + 1}
    BY <1>3
  <2>3. ASSUME NEW r \in S, r # own PROVE Dlvr!Distance(own, ts) < Dlvr!Distance(r, ts)
    <3>1. r.msg < own.msg \/ own.msg < r.msg
      BY <1>1, <2>3
    <3>2. Gap * r.msg + 3 <= Gap * own.msg \/ Gap * own.msg + 3 <= Gap * r.msg
      BY <1>1, <3>1, Spread
    <3> QED
      BY <2>1, <2>2, <3>2 DEF Dlvr!Distance, Dlvr!Submitted
  <2>4. \A r \in S : Dlvr!Distance(r, ts) \in Nat
    BY <2>1, <2>2 DEF Dlvr!Distance, Dlvr!Submitted
  <2>5. Dlvr!Match(S, ts) = CHOOSE x \in S : \A q \in S :
           \/ Dlvr!Distance(x, ts) < Dlvr!Distance(q, ts)
           \/ Dlvr!Distance(x, ts) = Dlvr!Distance(q, ts) /\ q.msg <= x.msg
    BY <1>3 DEF Dlvr!Match
  <2>6. \A q \in S : \/ Dlvr!Distance(own, ts) < Dlvr!Distance(q, ts)
                     \/ Dlvr!Distance(own, ts) = Dlvr!Distance(q, ts) /\ q.msg <= own.msg
    BY <1>1, <2>3
  <2>7. \A x \in S : (\/ Dlvr!Distance(x, ts) < Dlvr!Distance(own, ts)
                      \/ Dlvr!Distance(x, ts) = Dlvr!Distance(own, ts) /\ own.msg <= x.msg) => x = own
    BY <2>3, <2>4
  <2> QED
    BY <2>5, <2>6, <2>7
<1> QED
  BY <1>2, <1>3

(* A state is only replaced by a stronger one.                             *)
LEMMA Stronger ==
    ASSUME NEW a \in Dlvr!States, NEW b \in Dlvr!States
    PROVE  /\ Dlvr!_terminal_delivery_state(a, b) \in Dlvr!States
           /\ Dlvr!_terminal_delivery_state("pending", b) = b
           /\ a = "delivered" => Dlvr!_terminal_delivery_state(a, b) = "delivered"
           /\ Dlvr!_terminal_delivery_state(a, b) = Dlvr!Strongest(a, b)
<1>1. a \in {"pending", "failed", "delivered"} /\ b \in {"pending", "failed", "delivered"}
  BY DEF Dlvr!States
<1> QED
  BY <1>1 DEF Dlvr!_terminal_delivery_state, Dlvr!States, Dlvr!Strongest

(* A message counts as delivered when all its rows do.                     *)
LEMMA AggregateFacts ==
    ASSUME NEW own
    PROVE  /\ Dlvr!Aggregate(own) \in {"none", "partial"} \cup Dlvr!States
           /\ Dlvr!Aggregate(own) = "delivered" <=> \A r \in own : r.status = "delivered"
BY DEF Dlvr!Aggregate, Dlvr!States

(* One row changes its state and all the others stay.                      *)
LEMMA UpdatedFacts ==
    ASSUME DeliveryTypes, OneRow, NEW r \in rows, NEW x \in Dlvr!States,
           rows' = Dlvr!Updated(r, x)
    PROVE  /\ rows' \subseteq SegmentRow /\ OneRow'
           /\ \E u \in rows' :
                 /\ u.msg = r.msg /\ u.ref = r.ref /\ u.old = r.old
                 /\ u.status = Dlvr!_terminal_delivery_state(r.status, x)
                 /\ \A q \in rows' : q = u \/ (q \in rows /\ q # r)
                 /\ \A q \in rows : q # r => q \in rows'
<1> DEFINE y == Dlvr!_terminal_delivery_state(r.status, x)
           u == [r EXCEPT !.status = y]
<1>1. rows \subseteq SegmentRow /\ r \in SegmentRow
  BY DEF DeliveryTypes
<1>2. y \in Dlvr!States
  BY <1>1, Stronger DEF SegmentRow
<1> HIDE DEF y
<1>3. u \in SegmentRow /\ u.msg = r.msg /\ u.ref = r.ref /\ u.old = r.old /\ u.status = y
  BY <1>1, <1>2 DEF SegmentRow
<1>4. rows' = (rows \ {r}) \cup {u}
  BY DEF Dlvr!Updated, y
<1> HIDE DEF u
<1>5. OneRow'
  BY <1>3, <1>4 DEF OneRow
<1>6. rows' \subseteq SegmentRow
  BY <1>1, <1>3, <1>4
<1>7. u \in rows' /\ \A q \in rows' : q = u \/ (q \in rows /\ q # r)
  BY <1>4
<1>8. \A q \in rows : q # r => q \in rows'
  BY <1>4
<1> QED
  BY <1>3, <1>5, <1>6, <1>7, <1>8 DEF y

(* Two messages of which one segment was accepted are not both unreported. *)
LEMMA OneUnderway ==
    ASSUME Apart, DeliveryTypes, OneByOne, NEW m \in Messages, NEW k \in Messages,
           sent[m] = "none", sent[k] = "none", taken[m] > 0, taken[k] > 0
    PROVE  m = k
<1>1. m \in Nat /\ k \in Nat
  BY DEF Apart
<1>2. ~(k < m) /\ ~(m < k)
  BY DEF OneByOne
<1> QED
  BY <1>1, <1>2

(* The number of segments, and where the references lie.                   *)
LEMMA SegmentFacts ==
    ASSUME Apart
    PROVE  SegmentCount \in Nat /\ Segments = 1 .. SegmentCount
BY DEF Apart, Segments, Dlvr!Segments

(* The network accepts a segment.                                          *)
LEMMA SubmitStep ==
    ASSUME Apart, DeliveryInv, NEW m \in Messages, Dlvr!submit(m)
    PROVE  DeliveryInv'
<1>1. /\ taken[m] < SegmentCount /\ \A k \in Messages : k < m => sent[k] # "none"
      /\ taken' = [taken EXCEPT ![m] = @ + 1]
      /\ UNCHANGED <<sent, rows, msgStatus, best, stray>>
  BY DEF Dlvr!submit
<1>2. taken \in [Messages -> 0 .. SegmentCount] /\ SegmentCount \in Nat
  BY SegmentFacts DEF DeliveryInv, DeliveryTypes
<1>3. /\ taken' \in [Messages -> 0 .. SegmentCount]
      /\ \A k \in Messages : taken'[k] >= taken[k] /\ (k # m => taken'[k] = taken[k])
  BY <1>1, <1>2
<1>4. Segments \subseteq Nat
  BY SegmentFacts
<1>5. DeliveryTypes' /\ OneRow' /\ Attached' /\ Shown' /\ Dlvr!ReportsKept'
  BY <1>1, <1>3 DEF DeliveryInv, DeliveryTypes, OneRow, Attached, Shown, Dlvr!ReportsKept
<1>6. OneByOne'
  <2>1. ASSUME NEW k \in Messages, taken'[k] > 0, NEW j \in Messages, j < k PROVE sent'[j] # "none"
    <3>1. CASE k = m
      BY <1>1, <2>1, <3>1
    <3>2. CASE k # m
      BY <1>1, <1>3, <2>1, <3>2 DEF DeliveryInv, OneByOne
    <3> QED
      BY <3>1, <3>2
  <2>2. \A k \in Messages, n \in Segments : n > taken'[k] => n > taken[k]
    BY <1>2, <1>3, <1>4
  <2>3. \A k \in Messages, n \in Segments : n > taken'[k] => best'[<<k, n>>] = "pending"
    BY <1>1, <2>2 DEF DeliveryInv, OneByOne
  <2> QED
    BY <2>1, <2>3 DEF OneByOne
<1>7. Awaiting'
  <2> SUFFICES ASSUME ~stray PROVE Awaiting'
    BY <1>1 DEF Awaiting
  <2>1. \A r \in rows : r.ref \in Nat
    BY <1>4 DEF DeliveryInv, DeliveryTypes, SegmentRow
  <2>2. \A k \in Messages, n \in Nat : n <= taken[k] => n <= taken'[k]
    BY <1>2, <1>3
  <2> QED
    BY <1>1, <2>1, <2>2 DEF DeliveryInv, Awaiting
<1> QED
  BY <1>5, <1>6, <1>7 DEF DeliveryInv

(* A send that failed leaves no rows.                                      *)
LEMMA SendFailedStep ==
    ASSUME Apart, DeliveryInv, NEW m \in Messages, Dlvr!_apply_sms_out_failed(m)
    PROVE  DeliveryInv'
<1>1. /\ sent[m] = "none" /\ sent' = [sent EXCEPT ![m] = "failed"]
      /\ msgStatus' = [msgStatus EXCEPT ![m] = "failed"]
      /\ stray' = (stray \/ taken[m] > 0) /\ UNCHANGED <<taken, rows, best>>
  BY DEF Dlvr!_apply_sms_out_failed
<1>2. /\ sent'[m] = "failed" /\ msgStatus'[m] = "failed"
      /\ \A k \in Messages : k # m => sent'[k] = sent[k] /\ msgStatus'[k] = msgStatus[k]
  BY <1>1 DEF DeliveryInv, DeliveryTypes
<1>3. DeliveryTypes' /\ OneRow'
  BY <1>1 DEF DeliveryInv, DeliveryTypes, OneRow, Dlvr!States
<1>4. \A r \in rows : r.msg \in Messages \cup {0} /\ r.ref \in Segments
  BY DEF DeliveryInv, DeliveryTypes, SegmentRow
<1>5. Attached' /\ Shown' /\ OneByOne'
  BY <1>1, <1>2, <1>4 DEF DeliveryInv, Attached, Shown, OneByOne
<1>6. Awaiting' /\ Dlvr!ReportsKept'
  <2>1. ASSUME ~stray' PROVE Awaiting'
    <3>1. ~stray /\ ~(taken[m] > 0)
      BY <1>1, <2>1
    <3>2. \A k \in Segments : ~(k <= taken[m])
      BY <3>1, SegmentFacts DEF DeliveryInv, DeliveryTypes
    <3>3. \A k \in Messages, n \in Segments :
              sent[k] = "none" /\ n <= taken[k] => sent'[k] = "none" /\ n <= taken'[k]
      BY <1>1, <1>2, <3>2
    <3>4. \A k \in Messages : sent'[k] = "none" => sent[k] = "none"
      BY <1>2
    <3> QED
      BY <1>1, <1>4, <3>1, <3>3, <3>4 DEF DeliveryInv, Awaiting
  <2> QED
    BY <1>1, <2>1 DEF DeliveryInv, Awaiting, Dlvr!ReportsKept
<1> QED
  BY <1>3, <1>5, <1>6 DEF DeliveryInv

(* Ten minutes pass over a report without a match.                         *)
LEMMA GrowOldStep ==
    ASSUME Apart, DeliveryInv, NEW r \in rows, Dlvr!grow_old(r)
    PROVE  DeliveryInv'
<1> DEFINE u == [r EXCEPT !.old = TRUE]
<1>1. /\ r.msg = 0 /\ stray' = TRUE
      /\ rows' = (rows \ {q \in rows : q.msg = 0 /\ q.ref = r.ref}) \cup {u}
      /\ UNCHANGED <<taken, sent, msgStatus, best>>
  BY DEF Dlvr!grow_old, Dlvr!Unmatched
<1>2. rows \subseteq SegmentRow
  BY DEF DeliveryInv, DeliveryTypes
<1>3. u \in SegmentRow /\ u.msg = 0 /\ u.ref = r.ref
  BY <1>1, <1>2 DEF SegmentRow
<1> HIDE DEF u
<1>4. DeliveryTypes' /\ OneRow'
  BY <1>1, <1>2, <1>3 DEF DeliveryInv, DeliveryTypes, OneRow
<1>5. 0 \notin Messages
  BY DEF Apart
<1>6. \A q : q.msg # 0 => (q \in rows' <=> q \in rows)
  BY <1>1, <1>3
<1>7. Attached' /\ Shown' /\ OneByOne'
  BY <1>1, <1>5, <1>6 DEF DeliveryInv, Attached, Shown, OneByOne
<1>8. Awaiting' /\ Dlvr!ReportsKept'
  BY <1>1 DEF Awaiting, Dlvr!ReportsKept
<1> QED
  BY <1>4, <1>7, <1>8 DEF DeliveryInv

(* A send that went well takes the early reports over.                     *)
LEMMA SentStep ==
    ASSUME Apart, DeliveryInv, NEW m \in Messages, Dlvr!_apply_sms_out(m)
    PROVE  DeliveryInv'
<1> DEFINE T == {r \in rows : r.msg = 0 /\ ~r.old}
           F == {n \in Segments : \A r \in T : r.ref # n}
           own == {r \in rows' : r.msg = m}
           Moved(r) == [r EXCEPT !.msg = m]
           New(n) == [msg |-> m, ref |-> n, status |-> "pending", old |-> FALSE]
<1>1. /\ taken[m] = SegmentCount /\ sent[m] = "none"
      /\ sent' = [sent EXCEPT ![m] = "pending"]
      /\ rows' = Dlvr!attach_sms_segments(m) /\ Segments = Dlvr!Segments
      /\ msgStatus' = [msgStatus EXCEPT ![m] = Dlvr!Aggregate(own)]
      /\ UNCHANGED <<taken, best, stray>>
  BY DEF Dlvr!_apply_sms_out, Dlvr!_update_message_delivery_status, Segments
<1>2. rows \subseteq SegmentRow /\ 0 \notin Messages /\ m \in Nat
  BY DEF DeliveryInv, DeliveryTypes, Apart
<1>3. \A n : Dlvr!Early(n) = {r \in T : r.ref = n}
  BY DEF Dlvr!Early, Dlvr!Unmatched
<1>4. UNION {Dlvr!Early(n) : n \in Dlvr!Segments} = T
  BY <1>1, <1>2, <1>3 DEF SegmentRow
<1>5. {k \in Dlvr!Segments : Dlvr!Early(k) = {}} = F
  BY <1>1, <1>3
<1>6. rows' = (rows \ T) \cup {Moved(r) : r \in T} \cup {New(n) : n \in F}
  BY <1>1, <1>4, <1>5 DEF Dlvr!attach_sms_segments
<1>7. \A r \in T : /\ Moved(r) \in SegmentRow /\ Moved(r).msg = m /\ Moved(r).ref = r.ref
                   /\ Moved(r).old = FALSE /\ Moved(r).status = r.status
  BY <1>2 DEF SegmentRow
<1>8. \A n \in F : /\ New(n) \in SegmentRow /\ New(n).msg = m /\ New(n).ref = n
                   /\ New(n).old = FALSE /\ New(n).status = "pending"
  BY DEF SegmentRow, Dlvr!States
<1> HIDE DEF Moved, New
<1>9. \A q \in rows' : \/ q \in rows /\ q \notin T
                       \/ \E r \in T : q = Moved(r)
                       \/ \E n \in F : q = New(n)
  BY <1>6
<1>10. \A q \in rows : q \notin T => q \in rows'
  BY <1>6
<1>11. \A n \in Segments : \E q \in rows' : q.msg = m /\ q.ref = n
  <2> SUFFICES ASSUME NEW n \in Segments PROVE \E q \in rows' : q.msg = m /\ q.ref = n
    OBVIOUS
  <2>1. CASE n \in F
    <3>1. New(n) \in rows' /\ New(n).msg = m /\ New(n).ref = n
      BY <1>6, <1>8, <2>1
    <3> QED
      BY <3>1
  <2>2. CASE \E r \in T : r.ref = n
    <3>1. PICK r \in T : r.ref = n
      BY <2>2
    <3>2. Moved(r) \in rows'
      BY <1>6
    <3> QED
      BY <1>7, <3>1, <3>2
  <2> QED
    BY <2>1, <2>2
<1>12. \A r \in rows : r.msg # m
  BY <1>1, <1>2 DEF DeliveryInv, Attached
<1> HIDE DEF T, F
<1>13. \A q \in rows' : q.msg # m => q \in rows /\ q \notin T
  BY <1>7, <1>8, <1>9
<1>14. \A q \in rows' : q.msg = m =>
           /\ q.old = FALSE
           /\ \/ \E r \in T : q = Moved(r)
              \/ q = New(q.ref) /\ q.ref \in F
  BY <1>7, <1>8, <1>9, <1>12
<1> USE DEF T, F
<1>15. rows' \subseteq SegmentRow
  BY <1>2, <1>7, <1>8, <1>9
<1> HIDE DEF own
<1>16. DeliveryTypes'
  <2>1. msgStatus' \in [Messages -> {"none", "partial"} \cup Dlvr!States]
    BY <1>1, AggregateFacts DEF DeliveryInv, DeliveryTypes
  <2> QED
    BY <1>1, <1>15, <2>1 DEF DeliveryInv, DeliveryTypes
<1>17. OneRow'
  <2> SUFFICES ASSUME NEW q \in rows', NEW s \in rows', q.msg = s.msg, q.ref = s.ref PROVE q = s
    BY DEF OneRow
  <2>1. CASE q.msg # m
    BY <1>13, <2>1 DEF DeliveryInv, OneRow
  <2>2. CASE q.msg = m
    <3>1. \A r, t \in T : r.ref = t.ref => r = t
      BY DEF DeliveryInv, OneRow
    <3>2. \A r \in T : r.ref \notin F
      OBVIOUS
    <3> HIDE DEF T, F
    <3>3. (\E r \in T : q = Moved(r)) \/ (q = New(q.ref) /\ q.ref \in F)
      BY <1>14, <2>2
    <3>4. (\E r \in T : s = Moved(r)) \/ (s = New(s.ref) /\ s.ref \in F)
      BY <1>14, <2>2
    <3>5. CASE (\E r \in T : q = Moved(r)) /\ (\E r \in T : s = Moved(r))
      <4>1. PICK r \in T, t \in T : q = Moved(r) /\ s = Moved(t)
        BY <3>5
      <4> QED
        BY <1>7, <3>1, <4>1
    <3>6. CASE q.ref \in F \/ s.ref \in F
      BY <1>7, <3>2, <3>3, <3>4, <3>6
    <3> QED
      BY <3>3, <3>4, <3>5, <3>6
  <2> QED
    BY <2>1, <2>2
<1>18. /\ sent'[m] = "pending" /\ msgStatus'[m] = Dlvr!Aggregate(own)
       /\ \A k \in Messages : k # m => sent'[k] = sent[k] /\ msgStatus'[k] = msgStatus[k]
  BY <1>1 DEF DeliveryInv, DeliveryTypes
<1>19. Attached'
  <2>1. \A r \in rows' : r.msg # 0 => sent'[r.msg] = "pending" /\ ~r.old
    <3> SUFFICES ASSUME NEW r \in rows', r.msg # 0 PROVE sent'[r.msg] = "pending" /\ ~r.old
      OBVIOUS
    <3>1. CASE r.msg = m
      BY <1>14, <1>18, <3>1
    <3>2. CASE r.msg # m
      <4>1. r \in rows /\ r.msg \in Messages
        BY <1>2, <1>13, <3>2 DEF SegmentRow
      <4> QED
        BY <1>18, <3>2, <4>1 DEF DeliveryInv, Attached
    <3> QED
      BY <3>1, <3>2
  <2>2. ASSUME NEW k \in Messages, sent'[k] = "pending", NEW n \in Segments
        PROVE  \E r \in rows' : r.msg = k /\ r.ref = n
    <3>1. CASE k = m
      BY <1>11, <3>1
    <3>2. CASE k # m
      BY <1>2, <1>10, <1>18, <2>2, <3>2 DEF DeliveryInv, Attached
    <3> QED
      BY <3>1, <3>2
  <2> QED
    BY <2>1, <2>2 DEF Attached
<1>20. Shown'
  <2> SUFFICES ASSUME NEW k \in Messages, msgStatus'[k] = "delivered"
               PROVE  sent'[k] = "pending" /\ \A r \in rows' : r.msg = k => r.status = "delivered"
    BY DEF Shown
  <2>1. CASE k = m
    BY <1>18, <2>1, AggregateFacts DEF own
  <2>2. CASE k # m
    BY <1>13, <1>18, <2>2 DEF DeliveryInv, Shown
  <2> QED
    BY <2>1, <2>2
<1>21. OneByOne'
  BY <1>1, <1>18 DEF DeliveryInv, OneByOne
<1>22. \A n \in Segments : n > 0 /\ n <= taken[m] /\ taken[m] > 0
  BY <1>1, SegmentFacts
<1>23. Awaiting'
  <2> SUFFICES ASSUME ~stray PROVE Awaiting'
    BY <1>1 DEF Awaiting
  <2>1. \A r \in rows' : r.msg # 0
    BY <1>2, <1>13 DEF DeliveryInv, Awaiting
  <2>2. ASSUME NEW k \in Messages, NEW n \in Segments, sent'[k] = "none"
        PROVE  best'[<<k, n>>] = "pending"
    <3>1. k # m /\ sent[k] = "none"
      BY <1>18, <2>2
    <3>2. ~(taken[k] > 0)
      BY <1>1, <1>22, <3>1, OneUnderway DEF DeliveryInv
    <3>3. n > taken[k]
      BY <1>22, <3>2, SegmentFacts DEF DeliveryInv, DeliveryTypes
    <3> QED
      BY <1>1, <3>3 DEF DeliveryInv, OneByOne
  <2> QED
    BY <2>1, <2>2 DEF Awaiting
<1>24. Dlvr!ReportsKept'
  <2> SUFFICES ASSUME ~stray, NEW q \in rows', q.msg # 0 PROVE q.status = best[<<q.msg, q.ref>>]
    BY <1>1 DEF Dlvr!ReportsKept, Dlvr!Unmatched
  <2>1. CASE q.msg # m
    BY <1>13, <2>1 DEF DeliveryInv, Dlvr!ReportsKept, Dlvr!Unmatched
  <2>2. CASE \E r \in T : q = Moved(r)
    <3>1. PICK r \in T : q = Moved(r)
      BY <2>2
    <3>2. q.msg = m /\ q.ref = r.ref /\ q.status = r.status /\ r.ref \in Segments
      BY <1>2, <1>7, <3>1 DEF SegmentRow
    <3>3. PICK k \in Messages : sent[k] = "none" /\ r.ref <= taken[k] /\ r.status = best[<<k, r.ref>>]
      BY DEF DeliveryInv, Awaiting
    <3>4. taken[k] > 0
      BY <3>2, <3>3, SegmentFacts DEF DeliveryInv, DeliveryTypes
    <3>5. k = m
      BY <1>1, <1>22, <3>2, <3>3, <3>4, OneUnderway DEF DeliveryInv
    <3> QED
      BY <3>2, <3>3, <3>5
  <2>3. CASE q.msg = m /\ q = New(q.ref) /\ q.ref \in F
    <3>1. q.status = "pending" /\ q.ref \in Segments /\ \A r \in T : r.ref # q.ref
      BY <1>8, <2>3
    <3>2. \A r \in rows : r.msg = 0 => r \in T
      BY DEF DeliveryInv, Awaiting
    <3>3. best[<<m, q.ref>>] = "pending"
      BY <1>1, <3>1, <3>2 DEF DeliveryInv, Awaiting
    <3> QED
      BY <2>3, <3>1, <3>3
  <2> QED
    BY <1>14, <2>1, <2>2, <2>3
<1> QED
  BY <1>16, <1>17, <1>19, <1>20, <1>21, <1>23, <1>24 DEF DeliveryInv

(* A report that finds rows of sends: one of them takes it.                *)
LEMMA MatchedStep ==
    ASSUME Apart, DeliveryInv, NEW m \in Messages, NEW n \in Segments, NEW x \in Dlvr!States,
           NEW ts \in {-1, Gap * m, Gap * m + 1}, Dlvr!_apply_sms_delivery(m, n, x, ts),
           {r \in rows : r.msg # 0 /\ r.ref = n} # {}
    PROVE  /\ DeliveryInv'
           /\ \A k \in Messages : msgStatus[k] = "delivered" => msgStatus'[k] = "delivered"
<1> DEFINE S == {r \in rows : r.msg # 0 /\ r.ref = n}
<1>1. PICK r : r = Dlvr!Match(S, ts)
  OBVIOUS
<1> DEFINE own == {q \in rows' : q.msg = r.msg}
<1>2. /\ n <= taken[m] /\ rows' = Dlvr!Updated(r, x)
      /\ msgStatus' = [msgStatus EXCEPT ![r.msg] = Dlvr!Aggregate(own)]
      /\ best' = [best EXCEPT ![<<m, n>>] = Dlvr!Strongest(best[<<m, n>>], x)]
      /\ UNCHANGED <<taken, sent>>
  BY <1>1 DEF Dlvr!_apply_sms_delivery, Dlvr!record_sms_delivery, Dlvr!Unmatched,
              Dlvr!_update_message_delivery_status
<1>3. stray' = (\/ stray \/ sent[m] = "failed"
                \/ ~(\E q \in rows : q.msg = m /\ q.ref = n)
                   /\ (\E q \in rows : q.msg \notin {m, 0} /\ q.ref = n)
                \/ ts = -1 /\ (\E q \in rows : q.msg > m /\ q.ref = n))
  BY DEF Dlvr!_apply_sms_delivery, Dlvr!Unmatched
<1>4. m \in Nat /\ 0 \notin Messages /\ Gap * m \in Nat
  BY Spread DEF Apart
<1>5. r \in S
  <2>1. ts \in Int
    BY <1>4
  <2> QED
    BY <1>1, <2>1, MatchFound DEF DeliveryInv
<1>6. r \in rows /\ r.msg # 0 /\ r.ref = n /\ r.msg \in Messages /\ r.status \in Dlvr!States
  BY <1>5 DEF DeliveryInv, DeliveryTypes, SegmentRow
<1>7. rows' \subseteq SegmentRow /\ OneRow'
  BY <1>2, <1>6, UpdatedFacts DEF DeliveryInv
<1>8. PICK u \in rows' :
          /\ u.msg = r.msg /\ u.ref = r.ref /\ u.old = r.old
          /\ u.status = Dlvr!_terminal_delivery_state(r.status, x)
          /\ \A q \in rows' : q = u \/ (q \in rows /\ q # r)
          /\ \A q \in rows : q # r => q \in rows'
  BY <1>2, <1>6, UpdatedFacts DEF DeliveryInv
<1>9. /\ u.status = Dlvr!Strongest(r.status, x) /\ Dlvr!Strongest(best[<<m, n>>], x) \in Dlvr!States
      /\ r.status = "delivered" => u.status = "delivered"
  <2>1. <<m, n>> \in Dlvr!Keys
    BY DEF Dlvr!Keys, Segments
  <2>2. best[<<m, n>>] \in Dlvr!States
    BY <2>1 DEF DeliveryInv, DeliveryTypes
  <2> QED
    BY <1>6, <1>8, <2>2, Stronger
<1> HIDE DEF own
<1>10. DeliveryTypes'
  <2>1. msgStatus' \in [Messages -> {"none", "partial"} \cup Dlvr!States]
    BY <1>2, AggregateFacts DEF DeliveryInv, DeliveryTypes
  <2>2. best' \in [Dlvr!Keys -> Dlvr!States] /\ stray' \in BOOLEAN
    BY <1>2, <1>3, <1>9 DEF DeliveryInv, DeliveryTypes
  <2> QED
    BY <1>2, <1>7, <2>1, <2>2 DEF DeliveryInv, DeliveryTypes
<1>11. Attached'
  <2>1. \A q \in rows' : q.msg # 0 => sent'[q.msg] = "pending" /\ ~q.old
    BY <1>2, <1>6, <1>8 DEF DeliveryInv, Attached
  <2>2. ASSUME NEW k \in Messages, sent'[k] = "pending", NEW j \in Segments
        PROVE  \E q \in rows' : q.msg = k /\ q.ref = j
    <3>1. PICK q \in rows : q.msg = k /\ q.ref = j
      BY <1>2, <2>2 DEF DeliveryInv, Attached
    <3> QED
      BY <1>8, <3>1
  <2> QED
    BY <2>1, <2>2 DEF Attached
<1>12. /\ msgStatus'[r.msg] = Dlvr!Aggregate(own)
       /\ \A k \in Messages : k # r.msg => msgStatus'[k] = msgStatus[k]
  BY <1>2, <1>6 DEF DeliveryInv, DeliveryTypes
<1>13. Shown'
  <2> SUFFICES ASSUME NEW k \in Messages, msgStatus'[k] = "delivered"
               PROVE  sent'[k] = "pending" /\ \A q \in rows' : q.msg = k => q.status = "delivered"
    BY DEF Shown
  <2>1. CASE k = r.msg
    BY <1>2, <1>6, <1>12, <2>1, AggregateFacts DEF own, DeliveryInv, Attached
  <2>2. CASE k # r.msg
    BY <1>2, <1>8, <1>12, <2>2 DEF DeliveryInv, Shown
  <2> QED
    BY <2>1, <2>2
<1>14. \A k \in Messages : msgStatus[k] = "delivered" => msgStatus'[k] = "delivered"
  <2> SUFFICES ASSUME NEW k \in Messages, msgStatus[k] = "delivered"
               PROVE  msgStatus'[k] = "delivered"
    OBVIOUS
  <2>1. CASE k = r.msg
    <3>1. \A q \in own : q.status = "delivered"
      BY <1>6, <1>8, <1>9, <2>1 DEF own, DeliveryInv, Shown
    <3> QED
      BY <1>12, <2>1, <3>1, AggregateFacts
  <2>2. CASE k # r.msg
    BY <1>12, <2>2
  <2> QED
    BY <2>1, <2>2
<1>15. /\ \A k \in Messages, j \in Segments :
              k # m \/ j # n => best'[<<k, j>>] = best[<<k, j>>]
       /\ best'[<<m, n>>] = Dlvr!Strongest(best[<<m, n>>], x)
  <2>1. \A k \in Messages, j \in Segments : <<k, j>> \in Dlvr!Keys
    BY DEF Dlvr!Keys, Segments
  <2> QED
    BY <1>2, <2>1 DEF DeliveryInv, DeliveryTypes
<1>16. OneByOne'
  <2>1. ~(n > taken[m])
    BY <1>2, SegmentFacts DEF DeliveryInv, DeliveryTypes
  <2> QED
    BY <1>2, <1>15, <2>1 DEF DeliveryInv, OneByOne
<1>17. ASSUME ~stray' PROVE ~stray /\ r.msg = m
  <2>1. ~stray /\ ~(ts = -1 /\ \E q \in rows : q.msg > m /\ q.ref = n)
    BY <1>3, <1>17
  <2>2. PICK o \in rows : o.msg = m /\ o.ref = n
    BY <1>3, <1>6, <1>17
  <2>3. o \in S /\ \A q \in S : q.msg = o.msg => q = o
    BY <1>4, <2>2 DEF DeliveryInv, OneRow
  <2>4. ts = -1 => \A q \in S : q.msg <= o.msg
    <3>1. \A q \in S : q.msg \in Nat
      BY DEF DeliveryInv, DeliveryTypes, SegmentRow, Apart
    <3> QED
      BY <1>4, <2>1, <2>2, <3>1
  <2>5. r = o
    BY <1>1, <2>2, <2>3, <2>4, MatchOwn DEF DeliveryInv
  <2> QED
    BY <2>1, <2>2, <2>5
<1>18. Dlvr!ReportsKept'
  <2> SUFFICES ASSUME ~stray', NEW q \in rows', q.msg # 0 PROVE q.status = best'[<<q.msg, q.ref>>]
    BY DEF Dlvr!ReportsKept, Dlvr!Unmatched
  <2>1. ~stray /\ r.msg = m /\ r.status = best[<<m, n>>]
    BY <1>6, <1>17 DEF DeliveryInv, Dlvr!ReportsKept, Dlvr!Unmatched
  <2>2. CASE q = u
    BY <1>6, <1>8, <1>9, <1>15, <2>1, <2>2
  <2>3. CASE q # u
    <3>1. q \in rows /\ q # r /\ q.msg \in Messages /\ q.ref \in Segments
      BY <1>7, <1>8, <2>3 DEF SegmentRow
    <3>2. q.msg # m \/ q.ref # n
      BY <1>6, <2>1, <3>1 DEF DeliveryInv, OneRow
    <3> QED
      BY <1>15, <2>1, <3>1, <3>2 DEF DeliveryInv, Dlvr!ReportsKept, Dlvr!Unmatched
  <2> QED
    BY <2>2, <2>3
<1>19. Awaiting'
  <2> SUFFICES ASSUME ~stray' PROVE Awaiting'
    BY DEF Awaiting
  <2>1. ~stray /\ sent[m] = "pending"
    BY <1>6, <1>17 DEF DeliveryInv, Attached
  <2>2. \A q : q.msg = 0 => (q \in rows' <=> q \in rows)
    BY <1>6, <1>8
  <2>3. \A k \in Messages, j \in Segments : sent[k] = "none" => best'[<<k, j>>] = best[<<k, j>>]
    BY <1>15, <2>1
  <2>4. \A q \in rows : q.ref \in Segments
    BY DEF DeliveryInv, DeliveryTypes, SegmentRow
  <2>5. ASSUME NEW q \in rows', q.msg = 0
        PROVE  ~q.old /\ \E k \in Messages : sent'[k] = "none" /\ q.ref <= taken'[k]
                                              /\ q.status = best'[<<k, q.ref>>]
    <3>1. q \in rows
      BY <2>2, <2>5
    <3>2. ~q.old /\ \E k \in Messages : sent[k] = "none" /\ q.ref <= taken[k]
                                        /\ q.status = best[<<k, q.ref>>]
      BY <2>1, <2>5, <3>1 DEF DeliveryInv, Awaiting
    <3> QED
      BY <1>2, <2>3, <2>4, <3>1, <3>2
  <2>6. ASSUME NEW k \in Messages, NEW j \in Segments, sent'[k] = "none",
               \A q \in rows' : q.msg = 0 => q.ref # j
        PROVE  best'[<<k, j>>] = "pending"
    <3>1. sent[k] = "none" /\ \A q \in rows : q.msg = 0 => q.ref # j
      BY <1>2, <2>2, <2>6
    <3> QED
      BY <2>1, <2>3, <3>1 DEF DeliveryInv, Awaiting
  <2> QED
    BY <2>5, <2>6 DEF Awaiting
<1> QED
  BY <1>7, <1>10, <1>11, <1>13, <1>14, <1>16, <1>18, <1>19 DEF DeliveryInv

(* A report that comes before its send waits without a match.              *)
LEMMA EarlyStep ==
    ASSUME Apart, DeliveryInv, NEW m \in Messages, NEW n \in Segments, NEW x \in Dlvr!States,
           NEW ts, Dlvr!_apply_sms_delivery(m, n, x, ts),
           {r \in rows : r.msg # 0 /\ r.ref = n} = {}
    PROVE  DeliveryInv' /\ msgStatus' = msgStatus
<1> DEFINE W == {r \in rows : r.msg = 0 /\ r.ref = n}
           New == [msg |-> 0, ref |-> n, status |-> x, old |-> FALSE]
<1>1. /\ n <= taken[m]
      /\ rows' = IF W # {}
                 THEN Dlvr!Updated(CHOOSE r \in W : r.old => \A q \in W : q.old, x)
                 ELSE rows \cup {New}
      /\ best' = [best EXCEPT ![<<m, n>>] = Dlvr!Strongest(best[<<m, n>>], x)]
      /\ UNCHANGED <<taken, sent, msgStatus>>
  BY DEF Dlvr!_apply_sms_delivery, Dlvr!record_sms_delivery, Dlvr!Unmatched
<1>2. stray' \in BOOLEAN /\ (~stray' => ~stray /\ sent[m] # "failed")
  BY DEF Dlvr!_apply_sms_delivery, DeliveryInv, DeliveryTypes
<1>3. 0 \notin Messages /\ sent[m] # "pending"
  BY DEF Apart, DeliveryInv, Attached
<1>4. best[<<m, n>>] \in Dlvr!States
  <2>1. <<m, n>> \in Dlvr!Keys
    BY DEF Dlvr!Keys, Segments
  <2> QED
    BY <2>1 DEF DeliveryInv, DeliveryTypes
<1>5. /\ \A k \in Messages, j \in Segments :
             k # m \/ j # n => best'[<<k, j>>] = best[<<k, j>>]
      /\ best'[<<m, n>>] = Dlvr!Strongest(best[<<m, n>>], x)
      /\ best' \in [Dlvr!Keys -> Dlvr!States]
  <2>1. \A k \in Messages, j \in Segments : <<k, j>> \in Dlvr!Keys
    BY DEF Dlvr!Keys, Segments
  <2>2. Dlvr!Strongest(best[<<m, n>>], x) \in Dlvr!States
    BY <1>4, Stronger
  <2> QED
    BY <1>1, <2>1, <2>2 DEF DeliveryInv, DeliveryTypes
<1>6. n > 0 /\ taken[m] > 0
  BY <1>1, SegmentFacts DEF DeliveryInv, DeliveryTypes
<1>7. ASSUME ~stray' PROVE ~stray /\ sent[m] = "none"
  BY <1>2, <1>3, <1>7 DEF DeliveryInv, DeliveryTypes
(* Old and new rows, whether the reference waited already or not.          *)
<1>8. /\ rows' \subseteq SegmentRow /\ OneRow'
      /\ \A q \in rows' : q \in rows \/ (q.msg = 0 /\ q.ref = n)
      /\ \A q \in rows : q \in rows' \/ (q.msg = 0 /\ q.ref = n)
      /\ \E q \in rows' : q.msg = 0 /\ q.ref = n
      /\ ~stray' => \A q \in rows' : q.msg = 0 /\ q.ref = n =>
                        ~q.old /\ q.status = Dlvr!Strongest(best[<<m, n>>], x)
  <2>1. CASE W # {}
    <3>1. PICK r : r = CHOOSE w \in W : w.old => \A q \in W : q.old
      OBVIOUS
    <3>2. \A q, s \in W : q = s
      BY DEF DeliveryInv, OneRow
    <3>3. r \in W
      BY <2>1, <3>1, <3>2
    <3>4. r \in rows /\ r.msg = 0 /\ r.ref = n /\ r.status \in Dlvr!States
      BY <3>3 DEF DeliveryInv, DeliveryTypes, SegmentRow
    <3>5. rows' = Dlvr!Updated(r, x)
      BY <1>1, <2>1, <3>1
    <3>6. rows' \subseteq SegmentRow /\ OneRow'
      BY <3>4, <3>5, UpdatedFacts DEF DeliveryInv
    <3>7. PICK u \in rows' :
              /\ u.msg = r.msg /\ u.ref = r.ref /\ u.old = r.old
              /\ u.status = Dlvr!_terminal_delivery_state(r.status, x)
              /\ \A q \in rows' : q = u \/ (q \in rows /\ q # r)
              /\ \A q \in rows : q # r => q \in rows'
      BY <3>4, <3>5, UpdatedFacts DEF DeliveryInv
    <3>8. u.status = Dlvr!Strongest(r.status, x)
      BY <3>4, <3>7, Stronger
    <3>9. ASSUME ~stray' PROVE ~r.old /\ r.status = best[<<m, n>>]
      <4>1. PICK k \in Messages : sent[k] = "none" /\ n <= taken[k] /\ r.status = best[<<k, n>>]
        BY <1>7, <3>4, <3>9 DEF DeliveryInv, Awaiting
      <4>2. taken[k] > 0
        BY <4>1, SegmentFacts DEF DeliveryInv, DeliveryTypes
      <4>3. k = m
        BY <1>6, <1>7, <3>9, <4>1, <4>2, OneUnderway DEF DeliveryInv
      <4> QED
        BY <1>7, <3>4, <3>9, <4>1, <4>3 DEF DeliveryInv, Awaiting
    <3>10. \A q \in rows' : q.msg = 0 /\ q.ref = n => q = u
      BY <3>4, <3>6, <3>7 DEF OneRow
    <3> QED
      BY <3>4, <3>6, <3>7, <3>8, <3>9, <3>10
  <2>2. CASE W = {}
    <3>1. New \in SegmentRow /\ New.msg = 0 /\ New.ref = n /\ New.status = x /\ New.old = FALSE
      BY DEF SegmentRow
    <3>2. rows' = rows \cup {New}
      BY <1>1, <2>2
    <3> HIDE DEF New
    <3>3. rows' \subseteq SegmentRow /\ OneRow'
      BY <2>2, <3>1, <3>2 DEF DeliveryInv, DeliveryTypes, OneRow
    <3>4. ASSUME ~stray' PROVE x = Dlvr!Strongest(best[<<m, n>>], x)
      <4>1. best[<<m, n>>] = "pending"
        BY <1>7, <2>2, <3>4 DEF DeliveryInv, Awaiting
      <4> QED
        BY <1>4, <4>1, Stronger
    <3> QED
      BY <2>2, <3>1, <3>2, <3>3, <3>4
  <2> QED
    BY <2>1, <2>2
<1>9. DeliveryTypes' /\ OneRow'
  BY <1>1, <1>2, <1>5, <1>8 DEF DeliveryInv, DeliveryTypes
<1>10. \A q : q.msg # 0 => (q \in rows' <=> q \in rows)
  BY <1>8
<1>11. Attached' /\ Shown'
  BY <1>1, <1>3, <1>10 DEF DeliveryInv, Attached, Shown
<1>12. OneByOne'
  <2>1. ~(n > taken[m])
    BY <1>1, SegmentFacts DEF DeliveryInv, DeliveryTypes
  <2> QED
    BY <1>1, <1>5, <2>1 DEF DeliveryInv, OneByOne
<1>13. Dlvr!ReportsKept'
  <2> SUFFICES ASSUME ~stray', NEW q \in rows', q.msg # 0 PROVE q.status = best'[<<q.msg, q.ref>>]
    BY DEF Dlvr!ReportsKept, Dlvr!Unmatched
  <2>1. q \in rows /\ q.msg \in Messages /\ q.ref \in Segments /\ q.ref # n
    BY <1>8 DEF SegmentRow
  <2> QED
    BY <1>5, <1>7, <2>1 DEF DeliveryInv, Dlvr!ReportsKept, Dlvr!Unmatched
<1>14. Awaiting'
  <2> SUFFICES ASSUME ~stray' PROVE Awaiting'
    BY DEF Awaiting
  <2>1. ~stray /\ sent[m] = "none"
    BY <1>7
  <2>2. ASSUME NEW q \in rows', q.msg = 0
        PROVE  ~q.old /\ \E k \in Messages : sent'[k] = "none" /\ q.ref <= taken'[k]
                                              /\ q.status = best'[<<k, q.ref>>]
    <3>1. CASE q.ref = n
      BY <1>1, <1>5, <1>8, <2>1, <2>2, <3>1
    <3>2. CASE q.ref # n
      <4>1. q \in rows /\ q.ref \in Segments
        BY <1>8, <3>2 DEF SegmentRow
      <4>2. ~q.old /\ \E k \in Messages : sent[k] = "none" /\ q.ref <= taken[k]
                                          /\ q.status = best[<<k, q.ref>>]
        BY <2>1, <2>2, <4>1 DEF DeliveryInv, Awaiting
      <4> QED
        BY <1>1, <1>5, <3>2, <4>1, <4>2
    <3> QED
      BY <3>1, <3>2
  <2>3. ASSUME NEW k \in Messages, NEW j \in Segments, sent'[k] = "none",
               \A q \in rows' : q.msg = 0 => q.ref # j
        PROVE  best'[<<k, j>>] = "pending"
    <3>1. j # n
      BY <1>8, <2>3
    <3>2. \A q \in rows : q.msg = 0 => q.ref # j
      BY <1>8, <2>3, <3>1
    <3>3. best[<<k, j>>] = "pending"
      BY <1>1, <2>1, <2>3, <3>2 DEF DeliveryInv, Awaiting
    <3> QED
      BY <1>5, <3>1, <3>3
  <2> QED
    BY <2>2, <2>3 DEF Awaiting
<1> QED
  BY <1>1, <1>9, <1>11, <1>12, <1>13, <1>14 DEF DeliveryInv

(* Every step keeps the invariant, and none takes a delivery back.         *)
LEMMA DeliveryInductive ==
    ASSUME Apart, DeliveryInv, [Dlvr!Next]_(Dlvr!delVars)
    PROVE  /\ DeliveryInv'
           /\ \A k \in Messages : msgStatus[k] = "delivered" => msgStatus'[k] = "delivered"
<1>1. ASSUME NEW m \in Messages, Dlvr!submit(m)
      PROVE  DeliveryInv' /\ msgStatus' = msgStatus
  BY <1>1, SubmitStep DEF Dlvr!submit
<1>2. ASSUME NEW m \in Messages, Dlvr!_apply_sms_out(m) \/ Dlvr!_apply_sms_out_failed(m)
      PROVE  /\ DeliveryInv'
             /\ \A k \in Messages : msgStatus[k] = "delivered" => msgStatus'[k] = "delivered"
  <2>1. DeliveryInv'
    BY <1>2, SentStep, SendFailedStep
  <2>2. sent[m] = "none" /\ \E v : msgStatus' = [msgStatus EXCEPT ![m] = v]
    BY <1>2 DEF Dlvr!_apply_sms_out, Dlvr!_apply_sms_out_failed, Dlvr!_update_message_delivery_status
  <2>3. msgStatus[m] # "delivered"
    BY <2>2 DEF DeliveryInv, Shown
  <2> QED
    BY <2>1, <2>2, <2>3 DEF DeliveryInv, DeliveryTypes
<1>3. ASSUME NEW m \in Messages, NEW n \in Segments, NEW x \in Dlvr!States, NEW late \in {0, 1, -1},
             Dlvr!_apply_sms_delivery(m, n, x, IF late = -1 THEN -1 ELSE Dlvr!Submitted(m) + late)
      PROVE  /\ DeliveryInv'
             /\ \A k \in Messages : msgStatus[k] = "delivered" => msgStatus'[k] = "delivered"
  <2>1. PICK ts : ts = IF late = -1 THEN -1 ELSE Dlvr!Submitted(m) + late
    OBVIOUS
  <2>2. m \in Nat
    BY DEF Apart
  <2>3. ts \in {-1, Gap * m, Gap * m + 1}
    BY <2>1, <2>2, Spread DEF Dlvr!Submitted
  <2>4. Dlvr!_apply_sms_delivery(m, n, x, ts)
    BY <1>3, <2>1
  <2>5. CASE {r \in rows : r.msg # 0 /\ r.ref = n} = {}
    BY <2>4, <2>5, EarlyStep
  <2>6. CASE {r \in rows : r.msg # 0 /\ r.ref = n} # {}
    BY <2>3, <2>4, <2>6, MatchedStep
  <2> QED
    BY <2>5, <2>6
<1>4. ASSUME NEW r \in rows, Dlvr!grow_old(r) PROVE DeliveryInv' /\ msgStatus' = msgStatus
  BY <1>4, GrowOldStep DEF Dlvr!grow_old
<1>5. CASE UNCHANGED Dlvr!delVars
  <2>1. UNCHANGED <<taken, sent, rows, msgStatus, best, stray>>
    BY <1>5 DEF Dlvr!delVars
  <2>2. DeliveryTypes' /\ OneRow' /\ Attached' /\ Shown'
    BY <2>1 DEF DeliveryInv, DeliveryTypes, OneRow, Attached, Shown
  <2>3. OneByOne' /\ Awaiting' /\ Dlvr!ReportsKept'
    BY <2>1 DEF DeliveryInv, OneByOne, Awaiting, Dlvr!ReportsKept
  <2> QED
    BY <2>1, <2>2, <2>3 DEF DeliveryInv
<1> QED
  BY <1>1, <1>2, <1>3, <1>4, <1>5 DEF Dlvr!Next, Segments

(* No message is known at first.                                           *)
LEMMA DeliveryInit == ASSUME Apart, Dlvr!Init PROVE DeliveryInv
<1>1. /\ taken = [m \in Messages |-> 0] /\ sent = [m \in Messages |-> "none"]
      /\ rows = {} /\ msgStatus = [m \in Messages |-> "none"]
      /\ best = [k \in Dlvr!Keys |-> "pending"] /\ stray = FALSE
  BY DEF Dlvr!Init
<1>2. SegmentCount \in Nat /\ \A m \in Messages, n \in Segments : <<m, n>> \in Dlvr!Keys
  BY SegmentFacts DEF Dlvr!Keys, Segments
<1>3. DeliveryTypes
  <2>1. taken \in [Messages -> 0 .. SegmentCount]
    BY <1>1, <1>2
  <2>2. best \in [Dlvr!Keys -> Dlvr!States]
    BY <1>1 DEF Dlvr!States
  <2> QED
    BY <1>1, <2>1, <2>2 DEF DeliveryTypes
<1>4. OneRow /\ Attached /\ Shown /\ OneByOne /\ Awaiting /\ Dlvr!ReportsKept
  BY <1>1, <1>2 DEF OneRow, Attached, Shown, OneByOne, Awaiting, Dlvr!ReportsKept
<1> QED
  BY <1>3, <1>4 DEF DeliveryInv

(* db.py record_sms_delivery, attach_sms_segments: a segment has one row,  *)
(* a message its rows from the moment its send is applied, and a report    *)
(* that came first waits for the message that is being sent.               *)
THEOREM DeliveryInvariance == ASSUME Apart PROVE Dlvr!Spec => []DeliveryInv
<1>1. Dlvr!Init => DeliveryInv
  BY DeliveryInit
<1>2. DeliveryInv /\ [Dlvr!Next]_(Dlvr!delVars) => DeliveryInv'
  BY DeliveryInductive
<1> QED
  BY <1>1, <1>2, PTL DEF Dlvr!Spec

(* db.py: the rows and states of delivery reports keep their types, and no *)
(* two rows share message, reference and age.                              *)
THEOREM DeliveryTypeCorrect == ASSUME Apart PROVE Dlvr!Spec => []Dlvr!TypeOK
<1>1. DeliveryInv => Dlvr!TypeOK
  BY DEF DeliveryInv, DeliveryTypes, OneRow, SegmentRow, Dlvr!TypeOK, Segments, Dlvr!Unmatched
<1> QED
  BY <1>1, DeliveryInvariance, PTL

(* db.py record_sms_delivery: a segment stands as its strongest report     *)
(* says, and a message shown as delivered was reported so for every        *)
(* segment, unless a report went astray.                                   *)
THEOREM ReportsAreTrue == ASSUME Apart PROVE Dlvr!Spec => []ReportsTrue
<1>1. DeliveryInv => ReportsTrue
  <2> SUFFICES ASSUME DeliveryInv PROVE ReportsTrue
    OBVIOUS
  <2>1. Dlvr!ReportsKept
    BY DEF DeliveryInv
  <2>2. ASSUME ~stray, NEW m \in Messages, msgStatus[m] = "delivered", NEW n \in Segments
        PROVE  best[<<m, n>>] = "delivered"
    <3>1. PICK r \in rows : r.msg = m /\ r.ref = n
      BY <2>2 DEF DeliveryInv, Shown, Attached
    <3>2. r.status = "delivered" /\ r.msg # 0
      BY <2>2, <3>1 DEF DeliveryInv, Shown, Apart
    <3> QED
      BY <2>1, <2>2, <3>1, <3>2 DEF Dlvr!ReportsKept, Dlvr!Unmatched
  <2>3. Dlvr!DeliveredIsTrue
    BY <2>2 DEF Dlvr!DeliveredIsTrue, Segments
  <2> QED
    BY <2>1, <2>3 DEF ReportsTrue, Dlvr!ReportsTrue
<1> QED
  BY <1>1, DeliveryInvariance, PTL

(* db.py _terminal_delivery_state: once delivered, always delivered, stray *)
(* reports included.                                                       *)
THEOREM DeliveredStays == ASSUME Apart PROVE Dlvr!Spec => Dlvr!DeliveredIsFinal
<1> DEFINE Step == \A m \in Messages : msgStatus[m] = "delivered" => msgStatus'[m] = "delivered"
<1>1. DeliveryInv /\ [Dlvr!Next]_(Dlvr!delVars) => [Step]_(Dlvr!delVars)
  BY DeliveryInductive
<1> QED
  BY <1>1, DeliveryInvariance, PTL DEF Dlvr!Spec, Dlvr!DeliveredIsFinal

-----------------------------------------------------------------------------
(* The offline alerts, for any number of reports and restarts.             *)

Spawned == [kind : {"enabled", "resolve"}, flag : BOOLEAN]
Answered == [job : Alert!Jobs, answer : BOOLEAN]

AlertTypes ==
    /\ online \in BOOLEAN /\ incident \in BOOLEAN /\ enabled \in BOOLEAN
    /\ session \in {"none", "ready", "hello", "status", "disconnect"}
    /\ timer \in {"idle", "new", "asking", "sleeping", "recording"}
    /\ alerted \in BOOLEAN
    /\ fresh \in Seq(Spawned)
    /\ jobs \in Seq(Alert!Jobs)
    /\ done \in Seq(Answered)
    /\ noted \in {"nothing", "online", "offline"}
    /\ pages \in Seq({"online", "offline"})
    /\ sinceUp \in Nat /\ restarts \in Nat

(* What was asked of the database and has not resumed its coroutine, in    *)
(* the order it will.                                                      *)
Asked == [i \in 1 .. Len(done) + Len(jobs) |->
            IF i <= Len(done) THEN done[i].job ELSE jobs[i - Len(done)]]

(* A job whose answer the timer still waits for.                           *)
Awaited(job) == job.kind \in {"enabled", "record"} /\ job.flag

(* A timer that has not started is the last task spawned; while one runs,  *)
(* and after a page, no task waits for its turn.                           *)
TasksInOrder ==
    /\ timer = "new" => fresh # <<>>
    /\ \A i \in 1 .. Len(fresh) :
          (fresh[i].kind = "enabled") <=> (timer = "new" /\ i = Len(fresh))
    /\ \A i \in 1 .. Len(fresh) : fresh[i].kind = "enabled" => fresh[i].flag
    /\ timer \in {"asking", "sleeping", "recording"} \/ alerted => fresh = <<>>

(* The timer waits for one job at most, and is where its job says.         *)
OneAwaited ==
    /\ \A i \in 1 .. Len(Asked) : Awaited(Asked[i]) =>
          timer = IF Asked[i].kind = "enabled" THEN "asking" ELSE "recording"
    /\ \A i, j \in 1 .. Len(Asked) : Awaited(Asked[i]) /\ Awaited(Asked[j]) => i = j
    /\ timer \in {"asking", "recording"} => \E i \in 1 .. Len(Asked) : Awaited(Asked[i])

(* No recovery is under way behind a timer, nor after a page.              *)
NoRecoveryBehind ==
    /\ \A i, j \in 1 .. Len(Asked) : Awaited(Asked[i]) /\ i < j => Asked[j].kind # "resolve"
    /\ timer \in {"sleeping", "recording"} \/ alerted =>
          \A i \in 1 .. Len(Asked) : Asked[i].kind # "resolve"
    /\ alerted => timer = "idle"

(* A recovery that still has the all-clear to announce.                    *)
Announces(job) == job.kind = "resolve" /\ job.flag

OneAllClear ==
    /\ \A i, j \in 1 .. Len(Asked) : Announces(Asked[i]) /\ Announces(Asked[j]) => i = j
    /\ \A i, j \in 1 .. Len(fresh) : Announces(fresh[i]) /\ Announces(fresh[j]) => i = j
    /\ \A i \in 1 .. Len(Asked), j \in 1 .. Len(fresh) : ~(Announces(Asked[i]) /\ Announces(fresh[j]))

(* The module counts as down: it was paged, and the all-clear is not out.  *)
Down ==
    \/ alerted
    \/ \E i \in 1 .. Len(Asked) : Announces(Asked[i])
    \/ \E i \in 1 .. Len(fresh) : Announces(fresh[i])

PagesAlternate ==
    restarts = 0 =>
        /\ \A i \in 1 .. Len(pages) : pages[i] = IF i % 2 = 1 THEN "offline" ELSE "online"
        /\ Len(pages) % 2 = 1 <=> Down

PagesCounted == sinceUp <= restarts + (IF alerted THEN 1 ELSE 0)

(* A paged outage has its incident, from the record on.                    *)
PagedIsOpen ==
    /\ alerted => incident
    /\ \A i \in 1 .. Len(done) :
          Awaited(done[i].job) /\ done[i].job.kind = "record" /\ done[i].answer => incident

(* An incident of a module that is up again has its recovery coming.       *)
RecoveryComes ==
    incident /\ online =>
        \/ \E i \in 1 .. Len(done) : done[i].job.kind \in {"hello", "status"} /\ done[i].job.flag
        \/ \E i \in 1 .. Len(jobs) : jobs[i].kind = "resolve"
        \/ \E i \in 1 .. Len(fresh) : fresh[i].kind = "resolve"

AlertInv ==
    /\ AlertTypes /\ TasksInOrder /\ OneAwaited /\ NoRecoveryBehind /\ OneAllClear
    /\ PagesAlternate /\ PagesCounted /\ PagedIsOpen /\ RecoveryComes

(* The facts about the queue of jobs that the steps need.                  *)
LEMMA AskedType ==
  ASSUME AlertTypes
  PROVE  /\ Len(Asked) = Len(done) + Len(jobs) /\ Len(Asked) \in Nat
         /\ \A i \in 1 .. Len(Asked) : Asked[i] \in Alert!Jobs
         /\ \A i \in 1 .. Len(done) : i \in 1 .. Len(Asked) /\ Asked[i] = done[i].job
         /\ \A i \in 1 .. Len(jobs) : Len(done) + i \in 1 .. Len(Asked) /\ Asked[Len(done) + i] = jobs[i]
<1>1. Len(done) \in Nat /\ Len(jobs) \in Nat
  BY DEF AlertTypes
<1>2. Len(Asked) = Len(done) + Len(jobs)
  BY <1>1 DEF Asked
<1>3. ASSUME NEW i \in 1 .. Len(Asked)
      PROVE  Asked[i] \in Alert!Jobs
  <2>1. CASE i <= Len(done)
    <3>1. done[i] \in Answered
      BY <1>1, <2>1 DEF AlertTypes
    <3> QED
      BY <1>1, <1>2, <2>1, <3>1 DEF Asked, Answered
  <2>2. CASE ~(i <= Len(done))
    <3>1. jobs[i - Len(done)] \in Alert!Jobs
      BY <1>1, <1>2, <2>2 DEF AlertTypes
    <3> QED
      BY <1>1, <1>2, <2>2, <3>1 DEF Asked
  <2> QED
    BY <2>1, <2>2
<1>4. \A i \in 1 .. Len(done) : i \in 1 .. Len(Asked) /\ Asked[i] = done[i].job
  BY <1>1, <1>2 DEF Asked
<1>5. ASSUME NEW i \in 1 .. Len(jobs)
      PROVE  Len(done) + i \in 1 .. Len(Asked) /\ Asked[Len(done) + i] = jobs[i]
  <2>1. Len(done) + i \in 1 .. Len(Asked) /\ ~(Len(done) + i <= Len(done)) /\ (Len(done) + i) - Len(done) = i
    BY <1>1, <1>2
  <2> QED
    BY <1>1, <1>2, <2>1 DEF Asked
<1> QED
  BY <1>1, <1>2, <1>3, <1>4, <1>5

(* One more job, one job less, and one less after the timer was cancelled. *)
Grows(job) ==
    /\ Len(Asked') = Len(Asked) + 1 /\ Asked'[Len(Asked) + 1] = job
    /\ \A i \in 1 .. Len(Asked) : Asked'[i] = Asked[i]
Shrinks ==
    /\ Len(Asked) > 0 /\ Asked[1] = Head(done).job /\ Len(Asked') = Len(Asked) - 1
    /\ \A i \in 1 .. Len(Asked) - 1 : Asked'[i] = Asked[i + 1]
Orphaned ==
    /\ Len(Asked) > 0 /\ Asked[1] = Head(done).job /\ Len(Asked') = Len(Asked) - 1
    /\ \A i \in 1 .. Len(Asked) - 1 : Asked'[i] = Alert!Orphan(Asked[i + 1])

(* A job asked for is the last of the queue.                               *)
LEMMA AskedGrows ==
  ASSUME AlertTypes, NEW job \in Alert!Jobs, jobs' = Append(jobs, job), done' = done
  PROVE  Grows(job) /\ jobs' \in Seq(Alert!Jobs)
<1>1. /\ Len(done) \in Nat /\ Len(jobs) \in Nat /\ Len(jobs') = Len(jobs) + 1
      /\ jobs'[Len(jobs) + 1] = job /\ \A i \in 1 .. Len(jobs) : jobs'[i] = jobs[i]
      /\ jobs' \in Seq(Alert!Jobs)
  BY DEF AlertTypes
<1>2. Asked' = [i \in 1 .. Len(done) + Len(jobs) + 1 |->
                  IF i <= Len(done) THEN done[i].job ELSE jobs'[i - Len(done)]]
  BY <1>1 DEF Asked
<1>3. Len(Asked) = Len(done) + Len(jobs)
  BY AskedType
<1>4. Len(Asked') = Len(Asked) + 1
  BY <1>1, <1>2, <1>3
<1>5. Asked'[Len(Asked) + 1] = job
  <2>1. Len(Asked) + 1 - Len(done) = Len(jobs) + 1 /\ ~(Len(Asked) + 1 <= Len(done))
    BY <1>1, <1>3
  <2> QED
    BY <1>1, <1>2, <1>3, <2>1
<1>6. ASSUME NEW i \in 1 .. Len(Asked)
      PROVE  Asked'[i] = Asked[i]
  <2>1. ~(i <= Len(done)) => i - Len(done) \in 1 .. Len(jobs)
    BY <1>1, <1>3
  <2> QED
    BY <1>1, <1>2, <1>3, <2>1 DEF Asked
<1> QED
  BY <1>1, <1>4, <1>5, <1>6 DEF Grows

(* The worker executes a job: the queue is what it was.                    *)
LEMMA AskedStays ==
  ASSUME AlertTypes, jobs # <<>>, jobs' = Tail(jobs), NEW a,
         done' = Append(done, [job |-> Head(jobs), answer |-> a])
  PROVE  Asked' = Asked
<1>1. /\ Len(done) \in Nat /\ Len(jobs) \in Nat /\ Len(jobs) > 0 /\ Len(jobs') = Len(jobs) - 1
      /\ Len(done') = Len(done) + 1
      /\ \A i \in 1 .. Len(jobs) - 1 : jobs'[i] = jobs[i + 1]
      /\ \A i \in 1 .. Len(done) : done'[i] = done[i]
      /\ done'[Len(done) + 1].job = jobs[1]
  BY DEF AlertTypes
<1>2. Asked' = [i \in 1 .. Len(done) + Len(jobs) |->
                  IF i <= Len(done) + 1 THEN done'[i].job ELSE jobs'[i - (Len(done) + 1)]]
  <2>1. Len(done') + Len(jobs') = Len(done) + Len(jobs)
    BY <1>1
  <2> QED
    BY <1>1, <2>1 DEF Asked
<1>3. ASSUME NEW i \in 1 .. Len(done) + Len(jobs)
      PROVE  (IF i <= Len(done) + 1 THEN done'[i].job ELSE jobs'[i - (Len(done) + 1)])
             = (IF i <= Len(done) THEN done[i].job ELSE jobs[i - Len(done)])
  <2>1. CASE i <= Len(done)
    BY <1>1, <2>1
  <2>2. CASE i = Len(done) + 1
    <3>1. i - Len(done) = 1
      BY <1>1, <2>2
    <3> QED
      BY <1>1, <2>2, <3>1
  <2>3. CASE i > Len(done) + 1
    <3>1. /\ i - (Len(done) + 1) \in 1 .. Len(jobs) - 1
          /\ (i - (Len(done) + 1)) + 1 = i - Len(done)
          /\ ~(i <= Len(done)) /\ ~(i <= Len(done) + 1)
      BY <1>1, <2>3
    <3> QED
      BY <1>1, <3>1
  <2> QED
    BY <1>1, <2>1, <2>2, <2>3
<1> QED
  BY <1>2, <1>3 DEF Asked

(* A coroutine resumes with the answer to the oldest job.                  *)
LEMMA AskedShrinks ==
  ASSUME AlertTypes, done # <<>>, done' = Tail(done), jobs' = jobs
  PROVE  /\ Shrinks /\ done' \in Seq(Answered)
         /\ \A i \in 1 .. Len(done') : i + 1 \in 1 .. Len(done) /\ done'[i] = done[i + 1]
<1>1. /\ Len(done) \in Nat /\ Len(jobs) \in Nat /\ Len(done) > 0 /\ Len(done') = Len(done) - 1
      /\ \A i \in 1 .. Len(done) - 1 : done'[i] = done[i + 1]
      /\ Head(done) = done[1] /\ done' \in Seq(Answered)
  BY DEF AlertTypes
<1>2. Asked' = [i \in 1 .. (Len(done) - 1) + Len(jobs) |->
                  IF i <= Len(done) - 1 THEN done'[i].job ELSE jobs[i - (Len(done) - 1)]]
  BY <1>1 DEF Asked
<1>3. Len(Asked) = Len(done) + Len(jobs)
  BY AskedType
<1>4. Len(Asked') = Len(Asked) - 1
  BY <1>1, <1>2, <1>3
<1>5. ASSUME NEW i \in 1 .. Len(Asked) - 1
      PROVE  Asked'[i] = Asked[i + 1]
  <2>1. i \in 1 .. (Len(done) - 1) + Len(jobs) /\ i + 1 \in 1 .. Len(done) + Len(jobs)
    BY <1>1, <1>3
  <2>2. CASE i <= Len(done) - 1
    <3>1. i + 1 <= Len(done) /\ i \in 1 .. Len(done) - 1
      BY <1>1, <2>2
    <3> QED
      BY <1>1, <1>2, <2>1, <2>2, <3>1 DEF Asked
  <2>3. CASE ~(i <= Len(done) - 1)
    <3>1. ~(i + 1 <= Len(done)) /\ (i + 1) - Len(done) = i - (Len(done) - 1)
      BY <1>1, <2>3
    <3> QED
      BY <1>1, <1>2, <2>1, <2>3, <3>1 DEF Asked
  <2> QED
    BY <2>2, <2>3
<1>6. Asked[1] = Head(done).job
  BY <1>1, AskedType
<1> QED
  BY <1>1, <1>3, <1>4, <1>5, <1>6 DEF Shrinks

(* The module is up: the timer is cancelled wherever it stands.            *)
LEMMA AskedOrphaned ==
  ASSUME AlertTypes, done # <<>>, done' = Alert!OrphanedDone(Tail(done)), jobs' = Alert!OrphanedJobs
  PROVE  /\ Orphaned /\ done' \in Seq(Answered) /\ jobs' \in Seq(Alert!Jobs)
         /\ Len(done') = Len(done) - 1 /\ Len(jobs') = Len(jobs)
         /\ \A i \in 1 .. Len(done') :
               /\ i + 1 \in 1 .. Len(done) /\ done'[i].answer = done[i + 1].answer
               /\ done'[i].job = Alert!Orphan(done[i + 1].job)
         /\ \A i \in 1 .. Len(jobs') : jobs'[i] = Alert!Orphan(jobs[i])
<1>1. \A job \in Alert!Jobs : Alert!Orphan(job) \in Alert!Jobs
  BY DEF Alert!Orphan, Alert!Jobs
<1>2. /\ Len(done) \in Nat /\ Len(jobs) \in Nat /\ Len(done) > 0 /\ Len(Tail(done)) = Len(done) - 1
      /\ \A i \in 1 .. Len(done) - 1 : Tail(done)[i] = done[i + 1] /\ done[i + 1] \in Answered
      /\ Head(done) = done[1]
      /\ \A i \in 1 .. Len(jobs) : jobs[i] \in Alert!Jobs
  BY DEF AlertTypes
<1>3. /\ jobs' = [i \in 1 .. Len(jobs) |-> Alert!Orphan(jobs[i])]
      /\ jobs' \in Seq(Alert!Jobs) /\ Len(jobs') = Len(jobs)
      /\ \A i \in 1 .. Len(jobs) : jobs'[i] = Alert!Orphan(jobs[i])
  BY <1>1, <1>2 DEF Alert!OrphanedJobs
<1>4. done' = [i \in 1 .. Len(done) - 1 |-> [done[i + 1] EXCEPT !.job = Alert!Orphan(done[i + 1].job)]]
  BY <1>2 DEF Alert!OrphanedDone
<1>5. \A x \in Answered : /\ [x EXCEPT !.job = Alert!Orphan(x.job)] \in Answered
                          /\ [x EXCEPT !.job = Alert!Orphan(x.job)].job = Alert!Orphan(x.job)
                          /\ [x EXCEPT !.job = Alert!Orphan(x.job)].answer = x.answer
  BY <1>1 DEF Answered
<1>6. /\ Len(done') = Len(done) - 1 /\ done' \in Seq(Answered)
      /\ \A i \in 1 .. Len(done) - 1 : /\ done'[i].job = Alert!Orphan(done[i + 1].job)
                                       /\ done'[i].answer = done[i + 1].answer
  <2> DEFINE F(x) == [x EXCEPT !.job = Alert!Orphan(x.job)]
  <2>1. done' = [i \in 1 .. Len(done) - 1 |-> F(done[i + 1])]
    BY <1>4
  <2>2. \A x \in Answered : F(x) \in Answered /\ F(x).job = Alert!Orphan(x.job) /\ F(x).answer = x.answer
    BY <1>5
  <2> HIDE DEF F
  <2>3. \A i \in 1 .. Len(done) - 1 : done'[i] = F(done[i + 1]) /\ done[i + 1] \in Answered
    BY <1>2, <2>1
  <2>4. Len(done') = Len(done) - 1 /\ done' \in Seq(Answered)
    <3>1. Len(done) - 1 \in Nat /\ \A i \in 1 .. Len(done) - 1 : done'[i] \in Answered
      BY <1>2, <2>2, <2>3
    <3> QED
      BY <2>1, <3>1
  <2> QED
    BY <2>2, <2>3, <2>4
<1>7. Asked' = [i \in 1 .. (Len(done) - 1) + Len(jobs) |->
                  IF i <= Len(done) - 1 THEN done'[i].job ELSE jobs'[i - (Len(done) - 1)]]
  BY <1>3, <1>6 DEF Asked
<1>8. Len(Asked) = Len(done) + Len(jobs) /\ Asked[1] = Head(done).job
  BY <1>2, AskedType
<1>9. ASSUME NEW i \in 1 .. Len(Asked) - 1
      PROVE  Asked'[i] = Alert!Orphan(Asked[i + 1])
  <2>1. i \in 1 .. (Len(done) - 1) + Len(jobs) /\ i + 1 \in 1 .. Len(done) + Len(jobs)
    BY <1>2, <1>8
  <2>2. CASE i <= Len(done) - 1
    <3>1. i + 1 <= Len(done) /\ i \in 1 .. Len(done) - 1
      BY <1>2, <2>2
    <3> QED
      BY <1>6, <1>7, <2>1, <2>2, <3>1 DEF Asked
  <2>3. CASE ~(i <= Len(done) - 1)
    <3>1. ~(i + 1 <= Len(done)) /\ (i + 1) - Len(done) = i - (Len(done) - 1)
          /\ i - (Len(done) - 1) \in 1 .. Len(jobs)
      BY <1>2, <1>8, <2>1, <2>3
    <3> QED
      BY <1>3, <1>7, <2>1, <2>3, <3>1 DEF Asked
  <2> QED
    BY <2>2, <2>3
<1>10. Len(Asked') = Len(Asked) - 1 /\ Len(Asked) > 0
  BY <1>2, <1>7, <1>8
<1>11. Orphaned
  BY <1>8, <1>9, <1>10 DEF Orphaned
<1>12. \A i \in 1 .. Len(done') : i \in 1 .. Len(done) - 1 /\ i + 1 \in 1 .. Len(done)
  BY <1>2, <1>6
<1> QED
  BY <1>3, <1>6, <1>11, <1>12

(* Every job but the last was there before.                                *)
LEMMA GrowsByOne ==
  ASSUME NEW job, Grows(job), Len(Asked) \in Nat
  PROVE  /\ \A i \in 1 .. Len(Asked') :
              (i \in 1 .. Len(Asked) /\ Asked'[i] = Asked[i]) \/ (i = Len(Asked) + 1 /\ Asked'[i] = job)
         /\ \A i \in 1 .. Len(Asked) : i \in 1 .. Len(Asked') /\ Asked'[i] = Asked[i]
         /\ Len(Asked) + 1 \in 1 .. Len(Asked') /\ Asked'[Len(Asked) + 1] = job
<1>1. Len(Asked') = Len(Asked) + 1 /\ Asked'[Len(Asked) + 1] = job
  BY DEF Grows
<1>2. \A i \in 1 .. Len(Asked) : Asked'[i] = Asked[i]
  BY DEF Grows
<1>3. \A i \in 1 .. Len(Asked') : i \in 1 .. Len(Asked) \/ i = Len(Asked) + 1
  BY <1>1
<1>4. Len(Asked) + 1 \in 1 .. Len(Asked') /\ \A i \in 1 .. Len(Asked) : i \in 1 .. Len(Asked')
  BY <1>1
<1> QED
  BY <1>1, <1>2, <1>3, <1>4

(* Odd and even alternate.                                                 *)
LEMMA OddEven == \A n \in Nat : (n + 1) % 2 = 1 <=> ~(n % 2 = 1)
  BY Z3

(* A session asks the database to write what it was told.                  *)
LEMMA ReportKeeps ==
  ASSUME AlertInv, NEW from, NEW kind \in {"hello", "status", "disconnect"}, NEW on \in BOOLEAN,
         Alert!Report(from, kind, on)
  PROVE  AlertInv'
<1> DEFINE job == [kind |-> kind, flag |-> on]
<1>1. /\ AlertTypes /\ TasksInOrder /\ OneAwaited /\ NoRecoveryBehind /\ OneAllClear
      /\ PagesAlternate /\ PagesCounted /\ PagedIsOpen /\ RecoveryComes
  BY DEF AlertInv
<1>2. /\ session' = kind /\ jobs' = Append(jobs, job) /\ done' = done
      /\ UNCHANGED <<online, incident, enabled, timer, alerted, fresh, noted, pages, sinceUp, restarts>>
  BY DEF Alert!Report, Alert!dbVars, Alert!taskVars
<1>3. job \in Alert!Jobs /\ job.kind \notin {"enabled", "record", "resolve"}
  BY DEF Alert!Jobs
<1> HIDE DEF job
<1>4. Grows(job) /\ jobs' \in Seq(Alert!Jobs)
  BY <1>1, <1>2, <1>3, AskedGrows
<1>5. Len(Asked) \in Nat
  BY <1>1, AskedType
<1>6. AlertTypes'
  BY <1>1, <1>2, <1>4 DEF AlertTypes
<1>7. TasksInOrder'
  BY <1>1, <1>2 DEF TasksInOrder
<1>8. OneAwaited'
  <2>1. \A i \in 1 .. Len(Asked') : Awaited(Asked'[i]) => i \in 1 .. Len(Asked) /\ Awaited(Asked[i]) /\ Asked'[i] = Asked[i]
    BY <1>3, <1>4, <1>5 DEF Grows, Awaited
  <2>2. \A i \in 1 .. Len(Asked) : i \in 1 .. Len(Asked') /\ Asked'[i] = Asked[i]
    BY <1>4, <1>5 DEF Grows
  <2> QED
    BY <1>1, <1>2, <2>1, <2>2 DEF OneAwaited
<1>9. NoRecoveryBehind'
  <2>1. \A i \in 1 .. Len(Asked') : (i \in 1 .. Len(Asked) /\ Asked'[i] = Asked[i]) \/ Asked'[i] = job
    BY <1>4, <1>5 DEF Grows
  <2> QED
    BY <1>1, <1>2, <1>3, <2>1 DEF NoRecoveryBehind, Awaited
<1>10. OneAllClear' /\ (Down' <=> Down)
  <2>1. \A i \in 1 .. Len(Asked') : Announces(Asked'[i]) => i \in 1 .. Len(Asked) /\ Asked'[i] = Asked[i]
    BY <1>3, <1>4, <1>5 DEF Grows, Announces
  <2>2. \A i \in 1 .. Len(Asked) : i \in 1 .. Len(Asked') /\ Asked'[i] = Asked[i]
    BY <1>4, <1>5 DEF Grows
  <2>3. OneAllClear'
    BY <1>1, <1>2, <2>1 DEF OneAllClear
  <2>4. Down' <=> Down
    BY <1>2, <2>1, <2>2 DEF Down
  <2> QED
    BY <2>3, <2>4
<1>11. PagesAlternate' /\ PagesCounted' /\ PagedIsOpen'
  BY <1>1, <1>2, <1>10 DEF PagesAlternate, PagesCounted, PagedIsOpen
<1>12. RecoveryComes'
  <2>1. \A i \in 1 .. Len(jobs) : i \in 1 .. Len(jobs') /\ jobs'[i] = jobs[i]
    BY <1>1, <1>2 DEF AlertTypes
  <2> QED
    BY <1>1, <1>2, <2>1 DEF RecoveryComes
<1> QED
  BY <1>6, <1>7, <1>8, <1>9, <1>10, <1>11, <1>12 DEF AlertInv

(* Nothing but the setting changes, or nothing at all.                     *)
LEMMA SettingKeeps ==
  ASSUME AlertInv, enabled' \in BOOLEAN,
         UNCHANGED <<online, incident, session, timer, alerted, fresh, jobs, done, noted, pages, sinceUp, restarts>>
  PROVE  AlertInv'
<1>1. Asked' = Asked
  BY DEF Asked
<1>2. AlertTypes'
  BY DEF AlertInv, AlertTypes
<1>3. TasksInOrder' /\ OneAwaited' /\ NoRecoveryBehind' /\ OneAllClear'
  BY <1>1 DEF AlertInv, TasksInOrder, OneAwaited, NoRecoveryBehind, OneAllClear
<1>4. Down' <=> Down
  BY <1>1 DEF Down
<1>5. PagesAlternate' /\ PagesCounted' /\ PagedIsOpen' /\ RecoveryComes'
  BY <1>4 DEF AlertInv, PagesAlternate, PagesCounted, PagedIsOpen, RecoveryComes
<1> QED
  BY <1>2, <1>3, <1>5 DEF AlertInv

(* The worker executes the oldest job.                                     *)
LEMMA ExecuteKeeps ==
  ASSUME AlertInv, Alert!execute
  PROVE  AlertInv'
<1> DEFINE job == Head(jobs)
           answer == Alert!Answer(job)
<1>1. /\ AlertTypes /\ TasksInOrder /\ OneAwaited /\ NoRecoveryBehind /\ OneAllClear
      /\ PagesAlternate /\ PagesCounted /\ PagedIsOpen /\ RecoveryComes
  BY DEF AlertInv
<1>2. /\ jobs # <<>> /\ jobs' = Tail(jobs) /\ done' = Append(done, [job |-> job, answer |-> answer])
      /\ UNCHANGED <<enabled, session, timer, alerted, fresh, noted, pages, sinceUp, restarts>>
  BY DEF Alert!execute, Alert!taskVars, Alert!counters
<1>3. /\ job = jobs[1] /\ job \in Alert!Jobs /\ Len(jobs) \in Nat /\ Len(jobs) > 0
      /\ Len(done) \in Nat
  BY <1>1, <1>2 DEF AlertTypes
<1>4. answer \in BOOLEAN /\ (job.kind = "record" => answer = (enabled /\ ~online))
  BY <1>1, <1>3 DEF Alert!Answer, Alert!record_offline, Alert!Jobs, AlertTypes
<1>5. /\ job.kind \in {"hello", "status"} => online' = job.flag /\ incident' = incident
      /\ job.kind = "disconnect" => online' = FALSE /\ incident' = incident
      /\ job.kind = "record" => online' = online /\ incident' = (incident \/ (enabled /\ ~online))
      /\ job.kind = "resolve" => online' = online /\ incident' = FALSE
      /\ job.kind = "enabled" => online' = online /\ incident' = incident
  BY <1>3 DEF Alert!execute, Alert!record_offline, Alert!Jobs
<1> HIDE DEF job, answer
<1>6. Asked' = Asked
  BY <1>1, <1>2, AskedStays DEF job
<1>7. AlertTypes'
  <2>1. jobs' \in Seq(Alert!Jobs)
    BY <1>1, <1>2 DEF AlertTypes
  <2>2. [job |-> job, answer |-> answer] \in Answered
    BY <1>3, <1>4 DEF Answered
  <2>3. done' \in Seq(Answered)
    BY <1>1, <1>2, <2>2 DEF AlertTypes
  <2>4. online' \in BOOLEAN /\ incident' \in BOOLEAN
    BY <1>1, <1>3, <1>5 DEF Alert!Jobs, AlertTypes
  <2> QED
    BY <1>1, <1>2, <2>1, <2>3, <2>4 DEF AlertTypes
<1>8. TasksInOrder' /\ OneAwaited' /\ NoRecoveryBehind' /\ OneAllClear'
  BY <1>1, <1>2, <1>6 DEF TasksInOrder, OneAwaited, NoRecoveryBehind, OneAllClear
<1>9. Down' <=> Down
  BY <1>2, <1>6 DEF Down
<1>10. PagesAlternate' /\ PagesCounted'
  BY <1>1, <1>2, <1>9 DEF PagesAlternate, PagesCounted
<1>11. Len(done) + 1 \in 1 .. Len(Asked) /\ Asked[Len(done) + 1] = job
  BY <1>1, <1>3, AskedType
<1>12. /\ Len(done') = Len(done) + 1 /\ \A i \in 1 .. Len(done) : done'[i] = done[i]
       /\ done'[Len(done) + 1].job = job /\ done'[Len(done) + 1].answer = answer
  BY <1>1, <1>2, <1>3 DEF AlertTypes
<1>13. PagedIsOpen'
  <2>1. alerted => job.kind # "resolve"
    BY <1>1, <1>11 DEF NoRecoveryBehind
  <2>2. ASSUME NEW i \in 1 .. Len(done), Awaited(done[i].job), done[i].job.kind = "record"
        PROVE  job.kind # "resolve"
    <3>1. i \in 1 .. Len(Asked) /\ Asked[i] = done[i].job /\ i < Len(done) + 1
      BY <1>1, <1>3, AskedType
    <3> QED
      BY <1>1, <1>11, <2>2, <3>1 DEF NoRecoveryBehind
  <2>3. job.kind # "resolve" => (incident => incident')
    BY <1>3, <1>5 DEF Alert!Jobs
  <2>4. ASSUME NEW i \in 1 .. Len(done'), Awaited(done'[i].job), done'[i].job.kind = "record", done'[i].answer
        PROVE  incident'
    <3>1. CASE i \in 1 .. Len(done)
      BY <1>1, <1>12, <2>2, <2>3, <2>4, <3>1 DEF PagedIsOpen
    <3>2. CASE i = Len(done) + 1
      BY <1>4, <1>5, <1>12, <2>4, <3>2
    <3> QED
      BY <1>3, <1>12, <3>1, <3>2
  <2> QED
    BY <1>1, <1>2, <2>1, <2>3, <2>4 DEF PagedIsOpen
<1>14. RecoveryComes'
  <2> SUFFICES ASSUME incident', online'
               PROVE  \/ \E i \in 1 .. Len(done') : done'[i].job.kind \in {"hello", "status"} /\ done'[i].job.flag
                      \/ \E i \in 1 .. Len(jobs') : jobs'[i].kind = "resolve"
                      \/ \E i \in 1 .. Len(fresh') : fresh'[i].kind = "resolve"
    BY DEF RecoveryComes
  <2>1. CASE job.kind \in {"hello", "status"}
    <3>1. Len(done) + 1 \in 1 .. Len(done')
      BY <1>3, <1>12
    <3> QED
      BY <1>5, <1>12, <2>1, <3>1
  <2>2. CASE job.kind \notin {"hello", "status"}
    <3>1. incident /\ online /\ job.kind # "resolve"
      BY <1>1, <1>3, <1>5, <2>2 DEF Alert!Jobs, AlertTypes
    <3>2. CASE \E i \in 1 .. Len(done) : done[i].job.kind \in {"hello", "status"} /\ done[i].job.flag
      BY <1>3, <1>12, <3>2
    <3>3. CASE \E i \in 1 .. Len(jobs) : jobs[i].kind = "resolve"
      <4>1. PICK i \in 1 .. Len(jobs) : jobs[i].kind = "resolve"
        BY <3>3
      <4>2. i - 1 \in 1 .. Len(jobs') /\ jobs'[i - 1] = jobs[i]
        BY <1>1, <1>2, <1>3, <3>1, <4>1 DEF AlertTypes
      <4> QED
        BY <4>1, <4>2
    <3>4. CASE \E i \in 1 .. Len(fresh) : fresh[i].kind = "resolve"
      BY <1>2, <3>4
    <3> QED
      BY <1>1, <3>1, <3>2, <3>3, <3>4 DEF RecoveryComes
  <2> QED
    BY <2>1, <2>2
<1> QED
  BY <1>7, <1>8, <1>10, <1>13, <1>14 DEF AlertInv

(* A spawned task asks the database.                                       *)
LEMMA StartKeeps ==
  ASSUME AlertInv, Alert!start
  PROVE  AlertInv'
<1> DEFINE job == Head(fresh)
<1>1. /\ AlertTypes /\ TasksInOrder /\ OneAwaited /\ NoRecoveryBehind /\ OneAllClear
      /\ PagesAlternate /\ PagesCounted /\ PagedIsOpen /\ RecoveryComes
  BY DEF AlertInv
<1>2. /\ fresh # <<>> /\ jobs' = Append(jobs, job) /\ fresh' = Tail(fresh) /\ done' = done
      /\ timer' = (IF job.kind = "enabled" THEN "asking" ELSE timer)
      /\ UNCHANGED <<online, incident, enabled, session, alerted, noted, pages, sinceUp, restarts>>
  BY DEF Alert!start, Alert!dbVars, Alert!counters
<1>3. /\ job = fresh[1] /\ job \in Spawned /\ Len(fresh) \in Nat /\ Len(fresh) > 0
      /\ Len(fresh') = Len(fresh) - 1 /\ fresh' \in Seq(Spawned)
      /\ \A i \in 1 .. Len(fresh') : i + 1 \in 1 .. Len(fresh) /\ fresh'[i] = fresh[i + 1]
      /\ \A i \in 2 .. Len(fresh) : i - 1 \in 1 .. Len(fresh') /\ fresh'[i - 1] = fresh[i]
  BY <1>1, <1>2 DEF AlertTypes
<1>4. job \in Alert!Jobs
  BY <1>3 DEF Alert!Jobs, Spawned
<1>5. job.kind = "enabled" => job.flag /\ timer = "new" /\ Len(fresh) = 1
  BY <1>1, <1>3 DEF TasksInOrder
<1>6. job.kind # "enabled" => job.kind = "resolve"
  BY <1>3 DEF Spawned
<1>7. timer \in {"idle", "new"} /\ ~alerted
  BY <1>1, <1>2 DEF TasksInOrder, AlertTypes
<1> HIDE DEF job
<1>8. Grows(job) /\ jobs' \in Seq(Alert!Jobs)
  BY <1>1, <1>2, <1>4, AskedGrows
<1>9. Len(Asked) \in Nat
  BY <1>1, AskedType
<1>10. /\ \A i \in 1 .. Len(Asked') :
              (i \in 1 .. Len(Asked) /\ Asked'[i] = Asked[i]) \/ (i = Len(Asked) + 1 /\ Asked'[i] = job)
       /\ \A i \in 1 .. Len(Asked) : i \in 1 .. Len(Asked') /\ Asked'[i] = Asked[i]
       /\ Len(Asked) + 1 \in 1 .. Len(Asked') /\ Asked'[Len(Asked) + 1] = job
  BY <1>8, <1>9, GrowsByOne
<1>11. \A i \in 1 .. Len(Asked) : ~Awaited(Asked[i])
  BY <1>1, <1>7 DEF OneAwaited
<1>12. AlertTypes'
  BY <1>1, <1>2, <1>3, <1>8 DEF AlertTypes
<1>13. TasksInOrder'
  <2>1. CASE job.kind = "enabled"
    BY <1>2, <1>3, <1>5, <2>1 DEF TasksInOrder
  <2>2. CASE job.kind # "enabled"
    <3>1. timer = "new" => Len(fresh) > 1
      BY <1>1, <1>3, <2>2 DEF TasksInOrder
    <3>2. timer' = timer
      BY <1>2, <2>2
    <3>3. timer' = "new" => fresh' # <<>>
      BY <1>3, <3>1, <3>2
    <3>4. ASSUME NEW i \in 1 .. Len(fresh')
          PROVE  /\ (fresh'[i].kind = "enabled") <=> (timer' = "new" /\ i = Len(fresh'))
                 /\ fresh'[i].kind = "enabled" => fresh'[i].flag
      <4>1. i + 1 \in 1 .. Len(fresh) /\ fresh'[i] = fresh[i + 1] /\ (i = Len(fresh') <=> i + 1 = Len(fresh))
        BY <1>3
      <4> QED
        BY <1>1, <3>2, <4>1 DEF TasksInOrder
    <3> QED
      BY <1>2, <1>7, <3>2, <3>3, <3>4 DEF TasksInOrder
  <2> QED
    BY <2>1, <2>2
<1>14. OneAwaited'
  <2>1. CASE job.kind = "enabled"
    <3>1. Awaited(job) /\ timer' = "asking"
      BY <1>2, <1>5, <2>1 DEF Awaited
    <3>2. \A i \in 1 .. Len(Asked') : Awaited(Asked'[i]) => i = Len(Asked) + 1 /\ Asked'[i] = job
      BY <1>10, <1>11
    <3> QED
      BY <1>9, <1>10, <2>1, <3>1, <3>2 DEF OneAwaited
  <2>2. CASE job.kind # "enabled"
    <3>1. ~Awaited(job) /\ timer' = timer
      BY <1>2, <1>6, <2>2 DEF Awaited
    <3> QED
      BY <1>7, <1>10, <1>11, <3>1 DEF OneAwaited
  <2> QED
    BY <2>1, <2>2
<1>15. NoRecoveryBehind'
  <2>1. \A i \in 1 .. Len(Asked') : Awaited(Asked'[i]) => i = Len(Asked) + 1
    BY <1>10, <1>11
  <2>2. \A i, j \in 1 .. Len(Asked') : Awaited(Asked'[i]) /\ i < j => Asked'[j].kind # "resolve"
    BY <1>8, <1>9, <2>1 DEF Grows
  <2>3. timer' \in {"idle", "new", "asking"} /\ ~alerted'
    BY <1>2, <1>7
  <2> QED
    BY <2>2, <2>3 DEF NoRecoveryBehind
<1>16. OneAllClear' /\ (Down' <=> Down)
  <2>1. \A i \in 1 .. Len(fresh) : (i = 1 /\ fresh[i] = job) \/ i \in 2 .. Len(fresh)
    BY <1>3 DEF job
  <2>2. OneAllClear'
    <3>1. \A i, j \in 1 .. Len(Asked') : Announces(Asked'[i]) /\ Announces(Asked'[j]) => i = j
      BY <1>1, <1>3, <1>10 DEF OneAllClear
    <3>2. ASSUME NEW i \in 1 .. Len(fresh'), NEW j \in 1 .. Len(fresh'), Announces(fresh'[i]), Announces(fresh'[j])
          PROVE  i = j
      <4>1. i + 1 \in 1 .. Len(fresh) /\ j + 1 \in 1 .. Len(fresh) /\ Announces(fresh[i + 1]) /\ Announces(fresh[j + 1])
        BY <1>3, <3>2
      <4>2. i + 1 = j + 1
        BY <1>1, <4>1 DEF OneAllClear
      <4> QED
        BY <4>2
    <3>3. ASSUME NEW i \in 1 .. Len(Asked'), NEW j \in 1 .. Len(fresh'), Announces(Asked'[i]), Announces(fresh'[j])
          PROVE  FALSE
      <4>1. j + 1 \in 1 .. Len(fresh) /\ Announces(fresh[j + 1]) /\ 1 \in 1 .. Len(fresh) /\ j + 1 # 1
        BY <1>3, <3>3
      <4>2. CASE i \in 1 .. Len(Asked) /\ Asked'[i] = Asked[i]
        BY <1>1, <3>3, <4>1, <4>2 DEF OneAllClear
      <4>3. CASE Asked'[i] = job
        BY <1>1, <1>3, <3>3, <4>1, <4>3 DEF OneAllClear
      <4> QED
        BY <1>10, <4>2, <4>3
    <3> QED
      BY <3>1, <3>2, <3>3 DEF OneAllClear
  <2>3. Down' <=> Down
    <3>1. Down => Down'
      BY <1>2, <1>3, <1>10, <2>1 DEF Down
    <3>2. Down' => Down
      BY <1>2, <1>3, <1>10 DEF Down
    <3> QED
      BY <3>1, <3>2
  <2> QED
    BY <2>2, <2>3
<1>17. PagesAlternate' /\ PagesCounted' /\ PagedIsOpen'
  BY <1>1, <1>2, <1>16 DEF PagesAlternate, PagesCounted, PagedIsOpen
<1>18. RecoveryComes'
  <2>1. \A i \in 1 .. Len(jobs) : i \in 1 .. Len(jobs') /\ jobs'[i] = jobs[i]
    BY <1>1, <1>2 DEF AlertTypes
  <2>2. Len(jobs) + 1 \in 1 .. Len(jobs') /\ jobs'[Len(jobs) + 1] = job
    BY <1>1, <1>2 DEF AlertTypes
  <2>3. \A i \in 1 .. Len(fresh) : (i = 1 /\ fresh[i] = job) \/ i \in 2 .. Len(fresh)
    BY <1>3 DEF job
  <2>4. (\E i \in 1 .. Len(fresh) : fresh[i].kind = "resolve")
        => \/ \E i \in 1 .. Len(jobs') : jobs'[i].kind = "resolve"
           \/ \E i \in 1 .. Len(fresh') : fresh'[i].kind = "resolve"
    BY <1>3, <2>2, <2>3
  <2>5. (\E i \in 1 .. Len(jobs) : jobs[i].kind = "resolve") => \E i \in 1 .. Len(jobs') : jobs'[i].kind = "resolve"
    BY <2>1
  <2> QED
    BY <1>1, <1>2, <2>4, <2>5 DEF RecoveryComes
<1> QED
  BY <1>12, <1>13, <1>14, <1>15, <1>16, <1>17, <1>18 DEF AlertInv

(* The grace period is over: the timer asks for the record.                *)
LEMMA GraceKeeps ==
  ASSUME AlertInv, Alert!grace_over
  PROVE  AlertInv'
<1> DEFINE job == [kind |-> "record", flag |-> TRUE]
<1>1. /\ AlertTypes /\ TasksInOrder /\ OneAwaited /\ NoRecoveryBehind /\ OneAllClear
      /\ PagesAlternate /\ PagesCounted /\ PagedIsOpen /\ RecoveryComes
  BY DEF AlertInv
<1>2. /\ timer = "sleeping" /\ timer' = "recording" /\ jobs' = Append(jobs, job) /\ done' = done
      /\ UNCHANGED <<online, incident, enabled, session, alerted, fresh, noted, pages, sinceUp, restarts>>
  BY DEF Alert!grace_over, Alert!dbVars, Alert!counters
<1>3. job \in Alert!Jobs /\ job.kind = "record" /\ job.flag /\ Awaited(job) /\ ~Announces(job)
  BY DEF Alert!Jobs, Awaited, Announces
<1> HIDE DEF job
<1>4. Grows(job) /\ jobs' \in Seq(Alert!Jobs)
  BY <1>1, <1>2, <1>3, AskedGrows
<1>5. Len(Asked) \in Nat
  BY <1>1, AskedType
<1>6. /\ \A i \in 1 .. Len(Asked') :
              (i \in 1 .. Len(Asked) /\ Asked'[i] = Asked[i]) \/ (i = Len(Asked) + 1 /\ Asked'[i] = job)
      /\ \A i \in 1 .. Len(Asked) : i \in 1 .. Len(Asked') /\ Asked'[i] = Asked[i]
      /\ Len(Asked) + 1 \in 1 .. Len(Asked') /\ Asked'[Len(Asked) + 1] = job
  BY <1>4, <1>5, GrowsByOne
<1>7. \A i \in 1 .. Len(Asked) : ~Awaited(Asked[i]) /\ Asked[i].kind # "resolve"
  BY <1>1, <1>2 DEF OneAwaited, NoRecoveryBehind
<1>8. fresh = <<>> /\ ~alerted
  BY <1>1, <1>2 DEF TasksInOrder, NoRecoveryBehind
<1>9. AlertTypes'
  BY <1>1, <1>2, <1>4 DEF AlertTypes
<1>10. TasksInOrder'
  BY <1>2, <1>8 DEF TasksInOrder
<1>11. OneAwaited'
  BY <1>2, <1>3, <1>6, <1>7 DEF OneAwaited
<1>12. NoRecoveryBehind'
  BY <1>2, <1>3, <1>6, <1>7, <1>8 DEF NoRecoveryBehind
<1>13. OneAllClear' /\ (Down' <=> Down)
  <2>1. OneAllClear'
    BY <1>1, <1>2, <1>3, <1>6 DEF OneAllClear
  <2>2. Down' <=> Down
    BY <1>2, <1>3, <1>6 DEF Down
  <2> QED
    BY <2>1, <2>2
<1>14. PagesAlternate' /\ PagesCounted' /\ PagedIsOpen'
  BY <1>1, <1>2, <1>13 DEF PagesAlternate, PagesCounted, PagedIsOpen
<1>15. RecoveryComes'
  <2>1. \A i \in 1 .. Len(jobs) : i \in 1 .. Len(jobs') /\ jobs'[i] = jobs[i]
    BY <1>1, <1>2 DEF AlertTypes
  <2> QED
    BY <1>1, <1>2, <2>1 DEF RecoveryComes
<1> QED
  BY <1>9, <1>10, <1>11, <1>12, <1>13, <1>14, <1>15 DEF AlertInv

(* Every job but the first is still there, one place further ahead.        *)
LEMMA ShrinksByOne ==
  ASSUME Shrinks, Len(Asked) \in Nat
  PROVE  /\ \A i \in 1 .. Len(Asked') : i + 1 \in 1 .. Len(Asked) /\ Asked'[i] = Asked[i + 1]
         /\ \A i \in 1 .. Len(Asked) : i = 1 \/ (i - 1 \in 1 .. Len(Asked') /\ Asked'[i - 1] = Asked[i])
         /\ 1 \in 1 .. Len(Asked) /\ Asked[1] = Head(done).job
<1>1. Len(Asked) > 0 /\ Len(Asked') = Len(Asked) - 1 /\ Asked[1] = Head(done).job
  BY DEF Shrinks
<1>2. \A i \in 1 .. Len(Asked) - 1 : Asked'[i] = Asked[i + 1]
  BY DEF Shrinks
<1>3. \A i \in 1 .. Len(Asked') : i + 1 \in 1 .. Len(Asked) /\ i \in 1 .. Len(Asked) - 1
  BY <1>1
<1>4. \A i \in 1 .. Len(Asked) : i = 1 \/ (i - 1 \in 1 .. Len(Asked) - 1 /\ (i - 1) + 1 = i)
  BY <1>1
<1> QED
  BY <1>1, <1>2, <1>3, <1>4

(* The answers that resume a coroutine leave the other jobs in their       *)
(* order.                                                                  *)
LEMMA ShrinkKeeps ==
  ASSUME AlertTypes, OneAwaited, NoRecoveryBehind, OneAllClear, Shrinks, fresh' = fresh
  PROVE  /\ \A i, j \in 1 .. Len(Asked') : Awaited(Asked'[i]) /\ Awaited(Asked'[j]) => i = j
         /\ \A i, j \in 1 .. Len(Asked') : Awaited(Asked'[i]) /\ i < j => Asked'[j].kind # "resolve"
         /\ OneAllClear'
<1>1. /\ \A i \in 1 .. Len(Asked') : i + 1 \in 1 .. Len(Asked) /\ Asked'[i] = Asked[i + 1]
      /\ \A i \in 1 .. Len(Asked) : i = 1 \/ (i - 1 \in 1 .. Len(Asked') /\ Asked'[i - 1] = Asked[i])
  BY AskedType, ShrinksByOne
<1>2. ASSUME NEW i \in 1 .. Len(Asked'), NEW j \in 1 .. Len(Asked'), Awaited(Asked'[i]), Awaited(Asked'[j])
      PROVE  i = j
  <2>1. i + 1 = j + 1
    BY <1>1, <1>2 DEF OneAwaited
  <2> QED
    BY <2>1
<1>3. ASSUME NEW i \in 1 .. Len(Asked'), NEW j \in 1 .. Len(Asked'), Awaited(Asked'[i]), i < j
      PROVE  Asked'[j].kind # "resolve"
  <2>1. i + 1 < j + 1 /\ Awaited(Asked[i + 1]) /\ Asked'[j] = Asked[j + 1]
    BY <1>1, <1>3
  <2> QED
    BY <1>1, <2>1 DEF NoRecoveryBehind
<1>4. ASSUME NEW i \in 1 .. Len(Asked'), NEW j \in 1 .. Len(Asked'), Announces(Asked'[i]), Announces(Asked'[j])
      PROVE  i = j
  <2>1. i + 1 = j + 1
    BY <1>1, <1>4 DEF OneAllClear
  <2> QED
    BY <2>1
<1>5. OneAllClear'
  BY <1>1, <1>4 DEF OneAllClear
<1> QED
  BY <1>2, <1>3, <1>5

(* The same of the steps that leave the timer and its page as they are:    *)
(* who resumes is not the timer.                                           *)
LEMMA PassKeeps ==
  ASSUME AlertTypes, TasksInOrder, OneAwaited, NoRecoveryBehind, OneAllClear, Shrinks,
         ~Awaited(Head(done).job), UNCHANGED <<fresh, timer, alerted>>
  PROVE  TasksInOrder' /\ OneAwaited' /\ NoRecoveryBehind' /\ OneAllClear'
<1>1. /\ \A i \in 1 .. Len(Asked') : i + 1 \in 1 .. Len(Asked) /\ Asked'[i] = Asked[i + 1]
      /\ \A i \in 1 .. Len(Asked) : i = 1 \/ (i - 1 \in 1 .. Len(Asked') /\ Asked'[i - 1] = Asked[i])
      /\ Asked[1] = Head(done).job
  BY AskedType, ShrinksByOne
<1>2. /\ \A i, j \in 1 .. Len(Asked') : Awaited(Asked'[i]) /\ Awaited(Asked'[j]) => i = j
      /\ \A i, j \in 1 .. Len(Asked') : Awaited(Asked'[i]) /\ i < j => Asked'[j].kind # "resolve"
      /\ OneAllClear'
  BY ShrinkKeeps
<1>3. TasksInOrder'
  BY DEF TasksInOrder
<1>4. OneAwaited'
  <2>1. \A i \in 1 .. Len(Asked') : Awaited(Asked'[i]) =>
            timer' = IF Asked'[i].kind = "enabled" THEN "asking" ELSE "recording"
    BY <1>1 DEF OneAwaited
  <2>2. (\E i \in 1 .. Len(Asked) : Awaited(Asked[i])) => \E i \in 1 .. Len(Asked') : Awaited(Asked'[i])
    BY <1>1
  <2>3. timer' \in {"asking", "recording"} => \E i \in 1 .. Len(Asked') : Awaited(Asked'[i])
    BY <2>2 DEF OneAwaited
  <2> QED
    BY <1>2, <2>1, <2>3 DEF OneAwaited
<1>5. NoRecoveryBehind'
  BY <1>1, <1>2 DEF NoRecoveryBehind
<1> QED
  BY <1>2, <1>3, <1>4, <1>5

(* What was down stays so, unless the all-clear goes out.                  *)
LEMMA DownStays ==
  ASSUME AlertTypes, Shrinks, ~Announces(Head(done).job), alerted' = alerted, fresh' = fresh
  PROVE  Down' <=> Down
<1>1. /\ \A i \in 1 .. Len(Asked') : i + 1 \in 1 .. Len(Asked) /\ Asked'[i] = Asked[i + 1]
      /\ \A i \in 1 .. Len(Asked) : i = 1 \/ (i - 1 \in 1 .. Len(Asked') /\ Asked'[i - 1] = Asked[i])
      /\ Asked[1] = Head(done).job
  BY AskedType, ShrinksByOne
<1>2. (\E i \in 1 .. Len(Asked) : Announces(Asked[i])) <=> (\E i \in 1 .. Len(Asked') : Announces(Asked'[i]))
  BY <1>1
<1> QED
  BY <1>2 DEF Down

(* Of the answers only the oldest is gone, and it was no news of a module  *)
(* that is up.                                                             *)
LEMMA AnswersKeep ==
  ASSUME AlertTypes, PagedIsOpen, RecoveryComes, done # <<>>, done' = Tail(done), jobs' = jobs,
         UNCHANGED <<online, incident>>
  PROVE  /\ \A i \in 1 .. Len(done') :
                Awaited(done'[i].job) /\ done'[i].job.kind = "record" /\ done'[i].answer => incident'
         /\ ~(Head(done).job.kind \in {"hello", "status"} /\ Head(done).job.flag)
            /\ (\A i \in 1 .. Len(fresh) : i \in 1 .. Len(fresh') /\ fresh'[i] = fresh[i])
            => RecoveryComes'
<1>1. \A i \in 1 .. Len(done') : i + 1 \in 1 .. Len(done) /\ done'[i] = done[i + 1]
  BY AskedShrinks
<1>2. /\ Head(done) = done[1]
      /\ \A i \in 1 .. Len(done) : i = 1 \/ (i - 1 \in 1 .. Len(done') /\ done'[i - 1] = done[i])
  BY DEF AlertTypes
<1>3. \A i \in 1 .. Len(done') :
          Awaited(done'[i].job) /\ done'[i].job.kind = "record" /\ done'[i].answer => incident'
  BY <1>1 DEF PagedIsOpen
<1>4. ASSUME ~(Head(done).job.kind \in {"hello", "status"} /\ Head(done).job.flag),
             \A i \in 1 .. Len(fresh) : i \in 1 .. Len(fresh') /\ fresh'[i] = fresh[i]
      PROVE  RecoveryComes'
  <2>1. (\E i \in 1 .. Len(done) : done[i].job.kind \in {"hello", "status"} /\ done[i].job.flag)
        => \E i \in 1 .. Len(done') : done'[i].job.kind \in {"hello", "status"} /\ done'[i].job.flag
    BY <1>2, <1>4
  <2>2. (\E i \in 1 .. Len(fresh) : fresh[i].kind = "resolve") => \E i \in 1 .. Len(fresh') : fresh'[i].kind = "resolve"
    BY <1>4
  <2> QED
    BY <2>1, <2>2 DEF RecoveryComes
<1> QED
  BY <1>3, <1>4

(* A coroutine that was cancelled, or has nothing to say, resumes.         *)
LEMMA PassingKeeps ==
  ASSUME AlertInv, done # <<>>, done' = Tail(done), ~Awaited(Head(done).job), ~Announces(Head(done).job),
         ~(Head(done).job.kind \in {"hello", "status"} /\ Head(done).job.flag),
         session' \in {"none", "ready", "hello", "status", "disconnect"},
         noted' \in {"nothing", "online", "offline"},
         UNCHANGED <<online, incident, enabled, timer, alerted, fresh, jobs, pages, sinceUp, restarts>>
  PROVE  AlertInv'
<1>1. /\ AlertTypes /\ TasksInOrder /\ OneAwaited /\ NoRecoveryBehind /\ OneAllClear
      /\ PagesAlternate /\ PagesCounted /\ PagedIsOpen /\ RecoveryComes
  BY DEF AlertInv
<1>2. Shrinks /\ done' \in Seq(Answered)
  BY <1>1, AskedShrinks
<1>3. AlertTypes'
  BY <1>1, <1>2 DEF AlertTypes
<1>4. TasksInOrder' /\ OneAwaited' /\ NoRecoveryBehind' /\ OneAllClear'
  BY <1>1, <1>2, PassKeeps
<1>5. Down' <=> Down
  BY <1>1, <1>2, DownStays
<1>6. PagesAlternate' /\ PagesCounted'
  BY <1>1, <1>5 DEF PagesAlternate, PagesCounted
<1>7. PagedIsOpen' /\ RecoveryComes'
  BY <1>1, AnswersKeep DEF PagedIsOpen
<1> QED
  BY <1>3, <1>4, <1>6, <1>7 DEF AlertInv

(* A sequence without its last element.                                    *)
LEMMA AllButLast ==
  ASSUME NEW S, NEW s \in Seq(S), s # <<>>
  PROVE  /\ SubSeq(s, 1, Len(s) - 1) \in Seq(S)
         /\ Len(SubSeq(s, 1, Len(s) - 1)) = Len(s) - 1
         /\ \A i \in 1 .. Len(s) - 1 : SubSeq(s, 1, Len(s) - 1)[i] = s[i]
<1> DEFINE n == Len(s) - 1
           front == SubSeq(s, 1, n)
<1>1. n \in Nat /\ n \in Int /\ 1 \in Int /\ \A i \in 1 .. n : s[i] \in S
  OBVIOUS
<1> HIDE DEF n
<1>2. /\ front \in Seq(S) /\ Len(front) = IF 1 <= n THEN n - 1 + 1 ELSE 0
      /\ \A i \in 1 .. n - 1 + 1 : front[i] = s[1 + i - 1]
  BY <1>1, SubSeqProperties
<1>3. Len(front) = IF 1 <= n THEN n - 1 + 1 ELSE 0
  BY <1>2
<1> HIDE DEF front
<1>4. Len(front) = n
  BY <1>1, <1>3
<1>5. n - 1 + 1 = n /\ \A i \in 1 .. n : 1 + i - 1 = i
  BY <1>1
<1>6. \A i \in 1 .. n : front[i] = s[i]
  BY <1>2, <1>5
<1> QED
  BY <1>2, <1>4, <1>6 DEF n, front

(* The module is down and nothing was armed or paged: a timer is armed.    *)
LEMMA ArmKeeps ==
  ASSUME AlertInv, done # <<>>, done' = Tail(done), timer = "idle", ~alerted, timer' = "new",
         fresh' = Append(fresh, [kind |-> "enabled", flag |-> TRUE]),
         Head(done).job.kind \notin {"enabled", "record", "resolve"},
         ~(Head(done).job.kind \in {"hello", "status"} /\ Head(done).job.flag),
         session' \in {"none", "ready", "hello", "status", "disconnect"}, noted' = "offline",
         UNCHANGED <<online, incident, enabled, alerted, jobs, pages, sinceUp, restarts>>
  PROVE  AlertInv'
<1> DEFINE task == [kind |-> "enabled", flag |-> TRUE]
<1>1. /\ AlertTypes /\ TasksInOrder /\ OneAwaited /\ NoRecoveryBehind /\ OneAllClear
      /\ PagesAlternate /\ PagesCounted /\ PagedIsOpen /\ RecoveryComes
  BY DEF AlertInv
<1>2. Shrinks /\ done' \in Seq(Answered)
  BY <1>1, AskedShrinks
<1>3. task \in Spawned /\ task.kind = "enabled" /\ task.flag /\ ~Announces(task)
  BY DEF Spawned, Announces
<1>4. fresh' = Append(fresh, task)
  OBVIOUS
<1> HIDE DEF task
<1>5. /\ Len(fresh) \in Nat /\ Len(fresh') = Len(fresh) + 1 /\ fresh' \in Seq(Spawned)
      /\ \A i \in 1 .. Len(fresh) : i \in 1 .. Len(fresh') /\ fresh'[i] = fresh[i]
      /\ fresh'[Len(fresh) + 1] = task
  BY <1>1, <1>3, <1>4 DEF AlertTypes
<1>6. \A i \in 1 .. Len(fresh') : i \in 1 .. Len(fresh) \/ i = Len(fresh) + 1
  BY <1>5
<1>7. \A i \in 1 .. Len(Asked') : i + 1 \in 1 .. Len(Asked) /\ Asked'[i] = Asked[i + 1]
  BY <1>1, <1>2, AskedType, ShrinksByOne
<1>8. \A i \in 1 .. Len(Asked') : ~Awaited(Asked'[i])
  BY <1>1, <1>7 DEF OneAwaited
<1>9. AlertTypes'
  BY <1>1, <1>2, <1>5 DEF AlertTypes
<1>10. TasksInOrder'
  <2>1. \A i \in 1 .. Len(fresh) : fresh[i].kind # "enabled"
    BY <1>1 DEF TasksInOrder
  <2>2. ASSUME NEW i \in 1 .. Len(fresh')
        PROVE  /\ (fresh'[i].kind = "enabled") <=> i = Len(fresh')
               /\ fresh'[i].kind = "enabled" => fresh'[i].flag
    <3>1. CASE i \in 1 .. Len(fresh)
      BY <1>5, <2>1, <3>1
    <3>2. CASE i = Len(fresh) + 1
      BY <1>3, <1>5, <3>2
    <3> QED
      BY <1>6, <3>1, <3>2
  <2>3. fresh' # <<>>
    BY <1>5
  <2> QED
    BY <2>2, <2>3 DEF TasksInOrder
<1>11. OneAwaited' /\ NoRecoveryBehind'
  BY <1>8 DEF OneAwaited, NoRecoveryBehind
<1>12. OneAllClear'
  <2>1. ASSUME NEW i \in 1 .. Len(Asked'), NEW j \in 1 .. Len(Asked'), Announces(Asked'[i]), Announces(Asked'[j])
        PROVE  i = j
    <3>1. i + 1 = j + 1
      BY <1>1, <1>7, <2>1 DEF OneAllClear
    <3> QED
      BY <3>1
  <2>2. \A i \in 1 .. Len(fresh') : Announces(fresh'[i]) => i \in 1 .. Len(fresh) /\ fresh'[i] = fresh[i]
    BY <1>3, <1>5, <1>6
  <2>3. \A i, j \in 1 .. Len(fresh') : Announces(fresh'[i]) /\ Announces(fresh'[j]) => i = j
    BY <1>1, <2>2 DEF OneAllClear
  <2>4. \A i \in 1 .. Len(Asked'), j \in 1 .. Len(fresh') : ~(Announces(Asked'[i]) /\ Announces(fresh'[j]))
    BY <1>1, <1>7, <2>2 DEF OneAllClear
  <2> QED
    BY <2>1, <2>3, <2>4 DEF OneAllClear
<1>13. Down' <=> Down
  <2>1. \A i \in 1 .. Len(Asked) : i = 1 \/ (i - 1 \in 1 .. Len(Asked') /\ Asked'[i - 1] = Asked[i])
    BY <1>1, <1>2, AskedType, ShrinksByOne
  <2>2. ~Announces(Asked[1])
    BY <1>1, <1>2, AskedType, ShrinksByOne DEF Announces
  <2>3. (\E i \in 1 .. Len(Asked) : Announces(Asked[i])) <=> (\E i \in 1 .. Len(Asked') : Announces(Asked'[i]))
    BY <1>7, <2>1, <2>2
  <2>4. (\E i \in 1 .. Len(fresh) : Announces(fresh[i])) <=> (\E i \in 1 .. Len(fresh') : Announces(fresh'[i]))
    BY <1>3, <1>5, <1>6
  <2> QED
    BY <2>3, <2>4 DEF Down
<1>14. PagesAlternate' /\ PagesCounted'
  BY <1>1, <1>13 DEF PagesAlternate, PagesCounted
<1>15. PagedIsOpen' /\ RecoveryComes'
  BY <1>1, <1>5, AnswersKeep DEF PagedIsOpen
<1> QED
  BY <1>9, <1>10, <1>11, <1>12, <1>14, <1>15 DEF AlertInv

(* The module is up: the timer is cancelled and the recovery spawned.      *)
LEMMA NoteOnlineKeeps ==
  ASSUME AlertInv, done # <<>>, Alert!note_online(Tail(done)),
         Head(done).job.kind \in {"hello", "status"},
         session' \in {"none", "ready", "hello", "status", "disconnect"},
         UNCHANGED <<online, incident, enabled, pages, restarts>>
  PROVE  AlertInv'
<1> DEFINE task == [kind |-> "resolve", flag |-> alerted]
           rest == Alert!NotStarted
<1>1. /\ AlertTypes /\ TasksInOrder /\ OneAwaited /\ NoRecoveryBehind /\ OneAllClear
      /\ PagesAlternate /\ PagesCounted /\ PagedIsOpen /\ RecoveryComes
  BY DEF AlertInv
<1>2. /\ noted' = "online" /\ sinceUp' = 0 /\ timer' = "idle" /\ alerted' = FALSE
      /\ fresh' = Append(rest, task)
      /\ jobs' = Alert!OrphanedJobs /\ done' = Alert!OrphanedDone(Tail(done))
  BY DEF Alert!note_online
<1>3. task \in Spawned /\ task.kind = "resolve" /\ (Announces(task) <=> alerted)
  BY <1>1 DEF Spawned, Announces, AlertTypes
<1>4. /\ Len(rest) \in Nat /\ rest \in Seq(Spawned)
      /\ \A i \in 1 .. Len(rest) : /\ i \in 1 .. Len(fresh) /\ rest[i] = fresh[i]
                                   /\ fresh[i].kind = "resolve"
      /\ \A i \in 1 .. Len(fresh) : fresh[i].kind = "resolve" => i \in 1 .. Len(rest)
  <2>1. Len(fresh) \in Nat /\ \A i \in 1 .. Len(fresh) : fresh[i] \in Spawned
    BY <1>1 DEF AlertTypes
  <2>2. CASE timer = "new"
    <3>1. Len(fresh) > 0 /\ rest = SubSeq(fresh, 1, Len(fresh) - 1)
      BY <1>1, <2>1, <2>2 DEF TasksInOrder, AlertTypes, Alert!NotStarted
    <3>2. /\ Len(rest) = Len(fresh) - 1 /\ rest \in Seq(Spawned)
          /\ \A i \in 1 .. Len(fresh) - 1 : rest[i] = fresh[i]
      <4>1. fresh \in Seq(Spawned) /\ fresh # <<>>
        BY <1>1, <3>1 DEF AlertTypes
      <4> QED
        BY <3>1, <4>1, AllButLast
    <3>3. \A i \in 1 .. Len(fresh) : fresh[i].kind = "enabled" <=> i = Len(fresh)
      BY <1>1, <2>2 DEF TasksInOrder
    <3>4. \A i \in 1 .. Len(fresh) : fresh[i].kind = "resolve" <=> i \in 1 .. Len(fresh) - 1
      BY <2>1, <3>3 DEF Spawned
    <3> QED
      BY <2>1, <3>1, <3>2, <3>4
  <2>3. CASE timer # "new"
    <3>1. rest = fresh
      BY <2>3 DEF Alert!NotStarted
    <3>2. \A i \in 1 .. Len(fresh) : fresh[i].kind # "enabled"
      BY <1>1, <2>3 DEF TasksInOrder
    <3> QED
      BY <1>1, <2>1, <3>1, <3>2 DEF Spawned, AlertTypes
  <2> QED
    BY <2>2, <2>3
<1> HIDE DEF task, rest
<1>5. /\ Len(fresh') = Len(rest) + 1 /\ fresh' \in Seq(Spawned)
      /\ \A i \in 1 .. Len(rest) : i \in 1 .. Len(fresh') /\ fresh'[i] = rest[i]
      /\ fresh'[Len(rest) + 1] = task /\ Len(rest) + 1 \in 1 .. Len(fresh')
  BY <1>2, <1>3, <1>4
<1>6. \A i \in 1 .. Len(fresh') : i \in 1 .. Len(rest) \/ i = Len(rest) + 1
  BY <1>4, <1>5
<1>7. /\ Orphaned /\ done' \in Seq(Answered) /\ jobs' \in Seq(Alert!Jobs)
      /\ \A i \in 1 .. Len(done') : done'[i].job = Alert!Orphan(done[i + 1].job) /\ i + 1 \in 1 .. Len(done)
  BY <1>1, <1>2, AskedOrphaned
<1>8. Len(Asked) \in Nat /\ \A i \in 1 .. Len(Asked) : Asked[i] \in Alert!Jobs
  BY <1>1, AskedType
<1>9. \A job \in Alert!Jobs : /\ ~Awaited(Alert!Orphan(job)) /\ Alert!Orphan(job).kind = job.kind
                              /\ (job.kind = "resolve" => Alert!Orphan(job) = job)
                              /\ (Announces(Alert!Orphan(job)) <=> Announces(job))
  BY DEF Alert!Orphan, Alert!Jobs, Awaited, Announces
<1>10. /\ Asked[1] = Head(done).job
       /\ \A i \in 1 .. Len(Asked') : i + 1 \in 1 .. Len(Asked) /\ Asked'[i] = Alert!Orphan(Asked[i + 1])
       /\ \A i \in 1 .. Len(Asked) : i = 1 \/ (i - 1 \in 1 .. Len(Asked') /\ Asked'[i - 1] = Alert!Orphan(Asked[i]))
  <2>1. Len(Asked') = Len(Asked) - 1 /\ Len(Asked) > 0
    BY <1>7 DEF Orphaned
  <2>2. \A i \in 1 .. Len(Asked) - 1 : Asked'[i] = Alert!Orphan(Asked[i + 1])
    BY <1>7 DEF Orphaned
  <2>3. \A i \in 1 .. Len(Asked') : i \in 1 .. Len(Asked) - 1 /\ i + 1 \in 1 .. Len(Asked)
    BY <1>8, <2>1
  <2>4. \A i \in 1 .. Len(Asked) : i = 1 \/ (i - 1 \in 1 .. Len(Asked) - 1 /\ (i - 1) + 1 = i)
    BY <1>8, <2>1
  <2> QED
    BY <1>7, <2>1, <2>2, <2>3, <2>4 DEF Orphaned
<1>11. AlertTypes'
  BY <1>1, <1>2, <1>5, <1>7 DEF AlertTypes
<1>12. TasksInOrder'
  <2>1. \A i \in 1 .. Len(fresh') : fresh'[i].kind = "resolve"
    BY <1>3, <1>4, <1>5, <1>6
  <2> QED
    BY <1>2, <2>1 DEF TasksInOrder
<1>13. OneAwaited' /\ NoRecoveryBehind'
  <2>1. \A i \in 1 .. Len(Asked') : ~Awaited(Asked'[i])
    BY <1>8, <1>9, <1>10
  <2> QED
    BY <1>2, <2>1 DEF OneAwaited, NoRecoveryBehind
<1>14. /\ \A i \in 1 .. Len(Asked') : i + 1 \in 1 .. Len(Asked) /\ (Announces(Asked'[i]) <=> Announces(Asked[i + 1]))
       /\ \A i \in 1 .. Len(fresh') : \/ i \in 1 .. Len(fresh) /\ fresh'[i] = fresh[i]
                                      \/ i = Len(rest) + 1 /\ (Announces(fresh'[i]) <=> alerted)
       /\ \A i \in 1 .. Len(Asked) : Announces(Asked[i]) => i - 1 \in 1 .. Len(Asked') /\ Announces(Asked'[i - 1])
       /\ \A i \in 1 .. Len(fresh) : Announces(fresh[i]) => i \in 1 .. Len(fresh') /\ fresh'[i] = fresh[i]
  <2>1. \A i \in 1 .. Len(Asked') : i + 1 \in 1 .. Len(Asked) /\ (Announces(Asked'[i]) <=> Announces(Asked[i + 1]))
    BY <1>8, <1>9, <1>10
  <2>2. \A i \in 1 .. Len(fresh') : \/ i \in 1 .. Len(fresh) /\ fresh'[i] = fresh[i]
                                    \/ i = Len(rest) + 1 /\ (Announces(fresh'[i]) <=> alerted)
    BY <1>3, <1>4, <1>5, <1>6
  <2>3. \A i \in 1 .. Len(Asked) : Announces(Asked[i]) => i - 1 \in 1 .. Len(Asked') /\ Announces(Asked'[i - 1])
    BY <1>8, <1>9, <1>10 DEF Announces
  <2>4. \A i \in 1 .. Len(fresh) : Announces(fresh[i]) => i \in 1 .. Len(fresh') /\ fresh'[i] = fresh[i]
    BY <1>4, <1>5 DEF Announces
  <2> QED
    BY <2>1, <2>2, <2>3, <2>4
<1>15. alerted => /\ \A i \in 1 .. Len(Asked) : ~Announces(Asked[i])
                  /\ \A i \in 1 .. Len(fresh) : ~Announces(fresh[i])
  <2>1. alerted => fresh = <<>>
    BY <1>1 DEF TasksInOrder
  <2>2. alerted => \A i \in 1 .. Len(Asked) : ~Announces(Asked[i])
    BY <1>1 DEF NoRecoveryBehind, Announces
  <2> QED
    BY <2>1, <2>2
<1>16. OneAllClear'
  <2>1. ASSUME NEW i \in 1 .. Len(Asked'), NEW j \in 1 .. Len(Asked'), Announces(Asked'[i]), Announces(Asked'[j])
        PROVE  i = j
    <3>1. i + 1 = j + 1
      BY <1>1, <1>14, <2>1 DEF OneAllClear
    <3> QED
      BY <3>1
  <2>2. ASSUME NEW i \in 1 .. Len(fresh'), NEW j \in 1 .. Len(fresh'), Announces(fresh'[i]), Announces(fresh'[j])
        PROVE  i = j
    BY <1>1, <1>14, <1>15, <2>2 DEF OneAllClear
  <2>3. ASSUME NEW i \in 1 .. Len(Asked'), NEW j \in 1 .. Len(fresh'), Announces(Asked'[i]), Announces(fresh'[j])
        PROVE  FALSE
    BY <1>1, <1>14, <1>15, <2>3 DEF OneAllClear
  <2> QED
    BY <2>1, <2>2, <2>3 DEF OneAllClear
<1>17. Down' <=> Down
  <2>1. Down => Down'
    BY <1>3, <1>5, <1>14 DEF Down
  <2>2. Down' => Down
    BY <1>2, <1>14 DEF Down
  <2> QED
    BY <2>1, <2>2
<1>18. PagesAlternate' /\ PagesCounted'
  BY <1>1, <1>2, <1>17 DEF PagesAlternate, PagesCounted, AlertTypes
<1>19. PagedIsOpen'
  <2>1. \A i \in 1 .. Len(done') : ~Awaited(done'[i].job)
    <3>1. \A i \in 1 .. Len(done) : done[i].job \in Alert!Jobs
      <4>1. \A i \in 1 .. Len(done) : done[i] \in Answered
        BY <1>1 DEF AlertTypes
      <4> QED
        BY <4>1 DEF Answered
    <3> QED
      BY <1>7, <1>9, <3>1
  <2> QED
    BY <1>2, <2>1 DEF PagedIsOpen
<1>20. RecoveryComes'
  BY <1>3, <1>5 DEF RecoveryComes
<1> QED
  BY <1>11, <1>12, <1>13, <1>16, <1>18, <1>19, <1>20 DEF AlertInv

(* A session resumes and notes what it learnt.                             *)
LEMMA SessionKeeps ==
  ASSUME AlertInv, Alert!resume_session
  PROVE  AlertInv'
<1> DEFINE job == Head(done).job
<1>1. /\ done # <<>> /\ job.kind \in {"hello", "status", "disconnect"}
      /\ session' \in {"none", "ready", "hello", "status", "disconnect"}
      /\ UNCHANGED <<online, incident, enabled, pages, restarts>>
  BY DEF Alert!resume_session, Alert!dbVars, Alert!counters
<1>2. /\ ~Awaited(job) /\ ~Announces(job) /\ job.kind \notin {"enabled", "record", "resolve"}
  BY <1>1 DEF Awaited, Announces
<1>3. ASSUME Alert!note_offline(Tail(done)), ~(job.kind \in {"hello", "status"} /\ job.flag)
      PROVE  AlertInv'
  <2>1. /\ noted' = "offline" /\ done' = Tail(done) /\ UNCHANGED <<alerted, sinceUp, jobs>>
    BY <1>3 DEF Alert!note_offline
  <2>2. CASE timer # "idle" \/ alerted
    <3>1. UNCHANGED <<timer, fresh>>
      BY <1>3, <2>2 DEF Alert!note_offline
    <3> QED
      BY <1>1, <1>2, <1>3, <2>1, <3>1, PassingKeeps
  <2>3. CASE ~(timer # "idle" \/ alerted)
    <3>1. timer' = "new" /\ fresh' = Append(fresh, [kind |-> "enabled", flag |-> TRUE])
      BY <1>3, <2>3 DEF Alert!note_offline
    <3> QED
      BY <1>1, <1>2, <1>3, <2>1, <2>3, <3>1, ArmKeeps
  <2> QED
    BY <2>2, <2>3
<1>4. CASE job.kind = "disconnect" /\ Head(done).answer
  <2>1. Alert!note_offline(Tail(done))
    BY <1>4 DEF Alert!resume_session
  <2> QED
    BY <1>3, <1>4, <2>1
<1>5. CASE job.kind = "disconnect" /\ ~Head(done).answer
  <2>1. done' = Tail(done) /\ UNCHANGED <<noted, timer, alerted, fresh, sinceUp, jobs>>
    BY <1>5 DEF Alert!resume_session
  <2>2. noted' \in {"nothing", "online", "offline"}
    BY <2>1 DEF AlertInv, AlertTypes
  <2> QED
    BY <1>1, <1>2, <1>5, <2>1, <2>2, PassingKeeps
<1>6. CASE job.kind # "disconnect" /\ job.flag
  <2>1. Alert!note_online(Tail(done))
    BY <1>6 DEF Alert!resume_session
  <2> QED
    BY <1>1, <1>6, <2>1, NoteOnlineKeeps
<1>7. CASE job.kind # "disconnect" /\ ~job.flag
  <2>1. Alert!note_offline(Tail(done))
    BY <1>7 DEF Alert!resume_session
  <2> QED
    BY <1>3, <1>7, <2>1
<1> QED
  BY <1>4, <1>5, <1>6, <1>7

(* What a resumed timer has waited for is the only job it waits for, no    *)
(* recovery is behind it and no task waits for its turn.                   *)
LEMMA TimerResumes ==
  ASSUME AlertTypes, TasksInOrder, OneAwaited, NoRecoveryBehind, OneAllClear, Shrinks, Awaited(Head(done).job)
  PROVE  /\ timer = IF Head(done).job.kind = "enabled" THEN "asking" ELSE "recording"
         /\ fresh = <<>> /\ ~alerted
         /\ \A i \in 1 .. Len(Asked') : ~Awaited(Asked'[i]) /\ Asked'[i].kind # "resolve"
<1>1. /\ \A i \in 1 .. Len(Asked') : i + 1 \in 1 .. Len(Asked) /\ Asked'[i] = Asked[i + 1]
      /\ 1 \in 1 .. Len(Asked) /\ Asked[1] = Head(done).job
  BY AskedType, ShrinksByOne
<1>2. timer = IF Head(done).job.kind = "enabled" THEN "asking" ELSE "recording"
  BY <1>1 DEF OneAwaited
<1>3. fresh = <<>> /\ ~alerted
  BY <1>2 DEF TasksInOrder, NoRecoveryBehind
<1>4. ASSUME NEW i \in 1 .. Len(Asked')
      PROVE  ~Awaited(Asked'[i]) /\ Asked'[i].kind # "resolve"
  <2>1. 1 < i + 1 /\ i + 1 # 1 /\ i + 1 \in 1 .. Len(Asked) /\ Asked'[i] = Asked[i + 1]
    BY <1>1
  <2>2. Asked[i + 1].kind # "resolve"
    BY <1>1, <2>1 DEF NoRecoveryBehind
  <2>3. ~Awaited(Asked[i + 1])
    BY <1>1, <2>1 DEF OneAwaited
  <2> QED
    BY <2>1, <2>2, <2>3
<1> QED
  BY <1>2, <1>3, <1>4

(* The timer learns whether alerts are on.                                 *)
LEMMA EnabledKeeps ==
  ASSUME AlertInv, Alert!resume_enabled
  PROVE  AlertInv'
<1> DEFINE job == Head(done).job
<1>1. /\ AlertTypes /\ TasksInOrder /\ OneAwaited /\ NoRecoveryBehind /\ OneAllClear
      /\ PagesAlternate /\ PagesCounted /\ PagedIsOpen /\ RecoveryComes
  BY DEF AlertInv
<1>2. /\ done # <<>> /\ job.kind = "enabled" /\ done' = Tail(done)
      /\ timer' = (IF ~job.flag THEN timer ELSE IF Head(done).answer THEN "sleeping" ELSE "idle")
      /\ UNCHANGED <<online, incident, enabled, session, alerted, fresh, noted, pages, sinceUp, jobs, restarts>>
  BY DEF Alert!resume_enabled, Alert!dbVars, Alert!counters
<1>3. ~Announces(job) /\ (Awaited(job) <=> job.flag)
  BY <1>2 DEF Announces, Awaited
<1>4. CASE ~job.flag
  <2>1. noted' \in {"nothing", "online", "offline"} /\ session' \in {"none", "ready", "hello", "status", "disconnect"}
    BY <1>1, <1>2 DEF AlertTypes
  <2>2. timer' = timer
    BY <1>2, <1>4
  <2> QED
    BY <1>2, <1>3, <1>4, <2>1, <2>2, PassingKeeps
<1>5. CASE job.flag
  <2>1. Shrinks /\ done' \in Seq(Answered)
    BY <1>1, <1>2, AskedShrinks
  <2>2. /\ fresh = <<>> /\ ~alerted
        /\ \A i \in 1 .. Len(Asked') : ~Awaited(Asked'[i]) /\ Asked'[i].kind # "resolve"
    BY <1>1, <1>3, <1>5, <2>1, TimerResumes
  <2>3. timer' \in {"sleeping", "idle"}
    BY <1>2, <1>5
  <2>4. AlertTypes'
    BY <1>1, <1>2, <2>1, <2>3 DEF AlertTypes
  <2>5. TasksInOrder' /\ OneAwaited' /\ NoRecoveryBehind'
    BY <1>2, <2>2, <2>3 DEF TasksInOrder, OneAwaited, NoRecoveryBehind
  <2>6. OneAllClear'
    BY <1>1, <1>2, <2>1, ShrinkKeeps
  <2>7. Down' <=> Down
    BY <1>1, <1>2, <1>3, <2>1, DownStays
  <2>8. PagesAlternate' /\ PagesCounted'
    BY <1>1, <1>2, <2>7 DEF PagesAlternate, PagesCounted
  <2>9. PagedIsOpen' /\ RecoveryComes'
    BY <1>1, <1>2, AnswersKeep DEF PagedIsOpen
  <2> QED
    BY <2>4, <2>5, <2>6, <2>8, <2>9 DEF AlertInv
<1> QED
  BY <1>4, <1>5

(* The timer learns that the outage was recorded, and pages or ends.       *)
LEMMA RecordKeeps ==
  ASSUME AlertInv, Alert!resume_record
  PROVE  AlertInv'
<1> DEFINE job == Head(done).job
           pagesNow == job.flag /\ Head(done).answer
<1>1. /\ AlertTypes /\ TasksInOrder /\ OneAwaited /\ NoRecoveryBehind /\ OneAllClear
      /\ PagesAlternate /\ PagesCounted /\ PagedIsOpen /\ RecoveryComes
  BY DEF AlertInv
<1>2. /\ done # <<>> /\ job.kind = "record" /\ done' = Tail(done)
      /\ timer' = (IF job.flag THEN "idle" ELSE timer)
      /\ alerted' = (alerted \/ pagesNow)
      /\ pages' = (IF pagesNow THEN Append(pages, "offline") ELSE pages)
      /\ sinceUp' = (IF pagesNow THEN sinceUp + 1 ELSE sinceUp)
      /\ UNCHANGED <<online, incident, enabled, session, fresh, noted, jobs, restarts>>
  BY DEF Alert!resume_record, Alert!dbVars, Alert!counters
<1>3. ~Announces(job) /\ (Awaited(job) <=> job.flag)
  BY <1>2 DEF Announces, Awaited
<1>4. noted' \in {"nothing", "online", "offline"} /\ session' \in {"none", "ready", "hello", "status", "disconnect"}
  BY <1>1, <1>2 DEF AlertTypes
<1>5. CASE ~job.flag
  <2>1. UNCHANGED <<timer, alerted, pages, sinceUp>>
    BY <1>1, <1>2, <1>5 DEF AlertTypes
  <2> QED
    BY <1>2, <1>3, <1>4, <1>5, <2>1, PassingKeeps
<1>6. CASE job.flag
  <2>1. Shrinks /\ done' \in Seq(Answered)
    BY <1>1, <1>2, AskedShrinks
  <2>2. /\ fresh = <<>> /\ ~alerted /\ timer = "recording"
        /\ \A i \in 1 .. Len(Asked') : ~Awaited(Asked'[i]) /\ Asked'[i].kind # "resolve"
    BY <1>1, <1>2, <1>3, <1>6, <2>1, TimerResumes
  <2>3. timer' = "idle" /\ (alerted' <=> Head(done).answer) /\ alerted' \in BOOLEAN
    BY <1>2, <1>6, <2>2
  <2>4. Head(done) = done[1] /\ 1 \in 1 .. Len(done) /\ done[1] \in Answered
    BY <1>1, <1>2 DEF AlertTypes
  <2>5. AlertTypes'
    <3>1. pages' \in Seq({"online", "offline"})
      BY <1>1, <1>2 DEF AlertTypes
    <3>2. sinceUp' \in Nat
      BY <1>1, <1>2 DEF AlertTypes
    <3> QED
      BY <1>1, <1>2, <2>1, <2>3, <3>1, <3>2 DEF AlertTypes
  <2>6. TasksInOrder' /\ OneAwaited' /\ NoRecoveryBehind'
    BY <1>2, <2>2, <2>3 DEF TasksInOrder, OneAwaited, NoRecoveryBehind
  <2>7. OneAllClear'
    BY <1>1, <1>2, <2>1, ShrinkKeeps
  <2>8. ~Down /\ (Down' <=> alerted')
    <3>1. \A i \in 1 .. Len(Asked) : ~Announces(Asked[i])
      BY <1>1, <2>2 DEF NoRecoveryBehind, Announces
    <3>2. \A i \in 1 .. Len(Asked') : ~Announces(Asked'[i])
      BY <2>2 DEF Announces
    <3> QED
      BY <1>2, <2>2, <3>1, <3>2 DEF Down
  <2>9. PagesAlternate'
    <3>1. CASE Head(done).answer
      <4>1. pages' = Append(pages, "offline") /\ restarts' = restarts /\ Down'
        BY <1>2, <1>6, <2>3, <2>8, <3>1
      <4>2. /\ Len(pages) \in Nat /\ Len(pages') = Len(pages) + 1 /\ pages'[Len(pages) + 1] = "offline"
            /\ \A i \in 1 .. Len(pages) : pages'[i] = pages[i]
        BY <1>1, <4>1 DEF AlertTypes
      <4>3. restarts = 0 => (Len(pages) + 1) % 2 = 1
        BY <1>1, <2>8, <4>2, OddEven DEF PagesAlternate
      <4>4. \A i \in 1 .. Len(pages') : i \in 1 .. Len(pages) \/ i = Len(pages) + 1
        BY <4>2
      <4> QED
        BY <1>1, <4>1, <4>2, <4>3, <4>4 DEF PagesAlternate
    <3>2. CASE ~Head(done).answer
      <4>1. pages' = pages /\ restarts' = restarts /\ ~Down'
        BY <1>2, <2>3, <2>8, <3>2
      <4> QED
        BY <1>1, <2>8, <4>1 DEF PagesAlternate
    <3> QED
      BY <3>1, <3>2
  <2>10. PagesCounted'
    BY <1>1, <1>2, <1>6, <2>2, <2>3 DEF PagesCounted, AlertTypes
  <2>11. PagedIsOpen' /\ RecoveryComes'
    <3>1. alerted' => incident'
      BY <1>1, <1>2, <1>3, <1>6, <2>3, <2>4 DEF PagedIsOpen
    <3> QED
      BY <1>1, <1>2, <3>1, AnswersKeep DEF PagedIsOpen
  <2> QED
    BY <2>5, <2>6, <2>7, <2>9, <2>10, <2>11 DEF AlertInv
<1> QED
  BY <1>5, <1>6

(* The recovery goes on, and announces what was paged.                     *)
LEMMA RecoverKeeps ==
  ASSUME AlertInv, Alert!resume_recover
  PROVE  AlertInv'
<1> DEFINE job == Head(done).job
<1>1. /\ AlertTypes /\ TasksInOrder /\ OneAwaited /\ NoRecoveryBehind /\ OneAllClear
      /\ PagesAlternate /\ PagesCounted /\ PagedIsOpen /\ RecoveryComes
  BY DEF AlertInv
<1>2. /\ done # <<>> /\ job.kind = "resolve" /\ done' = Tail(done)
      /\ pages' = (IF job.flag THEN Append(pages, "online") ELSE pages)
      /\ UNCHANGED <<online, incident, enabled, session, timer, alerted, fresh, noted, sinceUp, jobs, restarts>>
  BY DEF Alert!resume_recover, Alert!dbVars, Alert!counters
<1>3. ~Awaited(job) /\ (Announces(job) <=> job.flag)
  BY <1>2 DEF Announces, Awaited
<1>4. Shrinks /\ done' \in Seq(Answered)
  BY <1>1, <1>2, AskedShrinks
<1>5. AlertTypes'
  <2>1. pages' \in Seq({"online", "offline"})
    BY <1>1, <1>2 DEF AlertTypes
  <2> QED
    BY <1>1, <1>2, <1>4, <2>1 DEF AlertTypes
<1>6. TasksInOrder' /\ OneAwaited' /\ NoRecoveryBehind' /\ OneAllClear'
  BY <1>1, <1>2, <1>3, <1>4, PassKeeps
<1>7. PagesAlternate'
  <2>1. CASE job.flag
    <3>1. 1 \in 1 .. Len(Asked) /\ Announces(Asked[1]) /\ Asked[1].kind = "resolve"
      BY <1>1, <1>2, <1>3, <1>4, <2>1, AskedType, ShrinksByOne
    <3>2. Down /\ ~alerted
      BY <1>1, <3>1 DEF Down, NoRecoveryBehind
    <3>3. ~Down'
      <4>1. ASSUME NEW i \in 1 .. Len(Asked'), Announces(Asked'[i])
            PROVE  FALSE
        <5>1. i + 1 \in 1 .. Len(Asked) /\ Asked'[i] = Asked[i + 1] /\ i + 1 # 1
          BY <1>1, <1>4, AskedType, ShrinksByOne
        <5> QED
          BY <1>1, <3>1, <4>1, <5>1 DEF OneAllClear
      <4>2. \A i \in 1 .. Len(fresh') : ~Announces(fresh'[i])
        BY <1>1, <1>2, <3>1 DEF OneAllClear
      <4> QED
        BY <1>2, <3>2, <4>1, <4>2 DEF Down
    <3>4. pages' = Append(pages, "online") /\ restarts' = restarts
      BY <1>2, <2>1
    <3>5. /\ Len(pages) \in Nat /\ Len(pages') = Len(pages) + 1 /\ pages'[Len(pages) + 1] = "online"
          /\ \A i \in 1 .. Len(pages) : pages'[i] = pages[i]
      BY <1>1, <3>4 DEF AlertTypes
    <3>6. restarts = 0 => ~((Len(pages) + 1) % 2 = 1)
      BY <1>1, <3>2, <3>5, OddEven DEF PagesAlternate
    <3>7. \A i \in 1 .. Len(pages') : i \in 1 .. Len(pages) \/ i = Len(pages) + 1
      BY <3>5
    <3> QED
      BY <1>1, <3>3, <3>4, <3>5, <3>6, <3>7 DEF PagesAlternate
  <2>2. CASE ~job.flag
    <3>1. Down' <=> Down
      BY <1>1, <1>2, <1>3, <1>4, <2>2, DownStays
    <3> QED
      BY <1>1, <1>2, <2>2, <3>1 DEF PagesAlternate
  <2> QED
    BY <2>1, <2>2
<1>8. PagesCounted'
  BY <1>1, <1>2 DEF PagesCounted
<1>9. PagedIsOpen' /\ RecoveryComes'
  BY <1>1, <1>2, AnswersKeep DEF PagedIsOpen
<1> QED
  BY <1>5, <1>6, <1>7, <1>8, <1>9 DEF AlertInv

(* The hub is killed and started, or has just been started for the first   *)
(* time: nothing is in memory.                                             *)
LEMMA RestartKeeps ==
  ASSUME AlertInv, Alert!restart
  PROVE  AlertInv'
<1>1. /\ restarts' = restarts + 1 /\ online' = FALSE /\ session' = "none" /\ timer' = "idle" /\ alerted' = FALSE
      /\ fresh' = <<>> /\ jobs' = <<>> /\ done' = <<>> /\ noted' = "nothing"
      /\ UNCHANGED <<incident, enabled, pages, sinceUp>>
  BY DEF Alert!restart
<1>2. Asked' = <<>> /\ Len(Asked') = 0 /\ Len(fresh') = 0 /\ Len(done') = 0
  BY <1>1 DEF Asked
<1>3. AlertTypes'
  <2>1. /\ fresh' \in Seq(Spawned) /\ jobs' \in Seq(Alert!Jobs) /\ done' \in Seq(Answered)
    BY <1>1
  <2>2. /\ incident' \in BOOLEAN /\ enabled' \in BOOLEAN /\ pages' \in Seq({"online", "offline"})
        /\ sinceUp' \in Nat /\ restarts' \in Nat
    BY <1>1 DEF AlertInv, AlertTypes
  <2> QED
    BY <1>1, <2>1, <2>2 DEF AlertTypes
<1>4. TasksInOrder' /\ OneAwaited' /\ NoRecoveryBehind' /\ OneAllClear'
  BY <1>1, <1>2 DEF TasksInOrder, OneAwaited, NoRecoveryBehind, OneAllClear
<1>5. restarts' # 0 /\ PagesCounted'
  BY <1>1 DEF AlertInv, AlertTypes, PagesCounted
<1>6. PagesAlternate' /\ PagedIsOpen' /\ RecoveryComes'
  BY <1>1, <1>2, <1>5 DEF PagesAlternate, PagedIsOpen, RecoveryComes
<1> QED
  BY <1>3, <1>4, <1>5, <1>6 DEF AlertInv

(* The invariant of the alerter holds from the start.                      *)
LEMMA AlertInit == Alert!Init => AlertInv
<1> SUFFICES ASSUME Alert!Init PROVE AlertInv
  OBVIOUS
<1>1. /\ restarts = 0 /\ online = FALSE /\ incident = FALSE /\ enabled = TRUE /\ session = "none" /\ timer = "idle"
      /\ alerted = FALSE /\ fresh = <<>> /\ jobs = <<>> /\ done = <<>> /\ noted = "nothing"
      /\ pages = <<>> /\ sinceUp = 0
  BY DEF Alert!Init
<1>2. Asked = <<>> /\ Len(Asked) = 0 /\ Len(fresh) = 0 /\ Len(done) = 0 /\ Len(pages) = 0
  BY <1>1 DEF Asked
<1>3. AlertTypes
  <2>1. /\ fresh \in Seq(Spawned) /\ jobs \in Seq(Alert!Jobs) /\ done \in Seq(Answered)
        /\ pages \in Seq({"online", "offline"})
    BY <1>1
  <2> QED
    BY <1>1, <2>1 DEF AlertTypes
<1>4. TasksInOrder /\ OneAwaited /\ NoRecoveryBehind /\ OneAllClear
  BY <1>1, <1>2 DEF TasksInOrder, OneAwaited, NoRecoveryBehind, OneAllClear
<1>5. PagesAlternate
  BY <1>1, <1>2 DEF PagesAlternate, Down
<1>6. PagesCounted /\ PagedIsOpen /\ RecoveryComes
  BY <1>1, <1>2 DEF PagesCounted, PagedIsOpen, RecoveryComes
<1> QED
  BY <1>3, <1>4, <1>5, <1>6 DEF AlertInv

(* Every step of the gateway, the worker thread and the alerter keeps it.  *)
THEOREM AlertInvariance == Alert!Spec => []AlertInv
<1>1. AlertInv /\ [Alert!Next]_(Alert!vars) => AlertInv'
  <2> SUFFICES ASSUME AlertInv, [Alert!Next]_(Alert!vars) PROVE AlertInv'
    OBVIOUS
  <2>1. ASSUME NEW on \in BOOLEAN, Alert!hello(on) PROVE AlertInv'
    BY <2>1, ReportKeeps DEF Alert!hello
  <2>2. ASSUME NEW on \in BOOLEAN, Alert!_apply_status(on) PROVE AlertInv'
    BY <2>2, ReportKeeps DEF Alert!_apply_status
  <2>3. CASE Alert!disconnect
    BY <2>3, ReportKeeps DEF Alert!disconnect
  <2>4. CASE Alert!put_settings
    <3>1. enabled' \in BOOLEAN
      BY <2>4 DEF AlertInv, AlertTypes, Alert!put_settings
    <3> QED
      BY <2>4, <3>1, SettingKeeps DEF Alert!put_settings, Alert!taskVars
  <2>5. CASE Alert!execute
    BY <2>5, ExecuteKeeps
  <2>6. CASE Alert!start
    BY <2>6, StartKeeps
  <2>7. CASE Alert!grace_over
    BY <2>7, GraceKeeps
  <2>8. CASE Alert!resume_session
    BY <2>8, SessionKeeps
  <2>9. CASE Alert!resume_enabled
    BY <2>9, EnabledKeeps
  <2>10. CASE Alert!resume_record
    BY <2>10, RecordKeeps
  <2>11. CASE Alert!resume_recover
    BY <2>11, RecoverKeeps
  <2>12. CASE Alert!restart
    BY <2>12, RestartKeeps
  <2>13. CASE UNCHANGED Alert!vars
    <3>1. enabled' \in BOOLEAN
      BY <2>13 DEF AlertInv, AlertTypes, Alert!vars, Alert!dbVars
    <3> QED
      BY <2>13, <3>1, SettingKeeps DEF Alert!vars, Alert!dbVars, Alert!taskVars, Alert!counters
  <2> QED
    BY <2>1, <2>2, <2>3, <2>4, <2>5, <2>6, <2>7, <2>8, <2>9, <2>10, <2>11, <2>12, <2>13 DEF Alert!Next
<1> QED
  BY <1>1, AlertInit, PTL DEF Alert!Spec

(* Every variable of the alerter has its type, and the state of the timer  *)
(* is the job it waits for.                                                *)
THEOREM AlertTypeCorrect == Alert!Spec => []Alert!TypeOK
<1>1. AlertInv => Alert!TypeOK
  <2> SUFFICES ASSUME AlertInv PROVE Alert!TypeOK
    OBVIOUS
  <2>1. AlertTypes /\ OneAwaited
    BY DEF AlertInv
  <2>2. /\ Len(Asked) = Len(done) + Len(jobs) /\ Len(Asked) \in Nat
        /\ \A i \in 1 .. Len(Asked) : Asked[i] \in Alert!Jobs
        /\ \A i \in 1 .. Len(done) : i \in 1 .. Len(Asked) /\ Asked[i] = done[i].job
        /\ \A i \in 1 .. Len(jobs) : Len(done) + i \in 1 .. Len(Asked) /\ Asked[Len(done) + i] = jobs[i]
    BY <2>1, AskedType
  <2>3. ASSUME NEW i \in 1 .. Len(Asked)
        PROVE  \/ \E j \in 1 .. Len(done) : Asked[i] = done[j].job
               \/ \E j \in 1 .. Len(jobs) : Asked[i] = jobs[j]
    <3>1. Len(done) \in Nat /\ Len(jobs) \in Nat
      BY <2>1 DEF AlertTypes
    <3>2. CASE i <= Len(done)
      BY <2>2, <3>1, <3>2
    <3>3. CASE ~(i <= Len(done))
      <4>1. i - Len(done) \in 1 .. Len(jobs) /\ Len(done) + (i - Len(done)) = i
        BY <2>2, <3>1, <3>3
      <4> QED
        BY <2>2, <4>1
    <3> QED
      BY <3>2, <3>3
  <2>4. ASSUME NEW kind \in {"enabled", "record"}
        PROVE  Alert!Wanted(kind) <=> \E i \in 1 .. Len(Asked) : Asked[i] = [kind |-> kind, flag |-> TRUE]
    <3> DEFINE job == [kind |-> kind, flag |-> TRUE]
    <3>1. Alert!Wanted(kind) <=> \/ \E i \in 1 .. Len(jobs) : jobs[i] = job
                                 \/ \E i \in 1 .. Len(done) : done[i].job = job
      BY DEF Alert!Wanted
    <3> HIDE DEF job
    <3>2. Alert!Wanted(kind) => \E i \in 1 .. Len(Asked) : Asked[i] = job
      BY <2>2, <3>1
    <3>3. (\E i \in 1 .. Len(Asked) : Asked[i] = job) => Alert!Wanted(kind)
      BY <2>3, <3>1
    <3> QED
      BY <3>2, <3>3 DEF job
  <2>5. \A i \in 1 .. Len(Asked) : Awaited(Asked[i]) <=> \/ Asked[i] = [kind |-> "enabled", flag |-> TRUE]
                                                         \/ Asked[i] = [kind |-> "record", flag |-> TRUE]
    BY <2>2 DEF Awaited, Alert!Jobs
  <2>6. (timer = "asking") <=> Alert!Wanted("enabled")
    BY <2>1, <2>4, <2>5 DEF OneAwaited
  <2>7. (timer = "recording") <=> Alert!Wanted("record")
    BY <2>1, <2>4, <2>5 DEF OneAwaited
  <2>8. Alert!Wanted("enabled") \in BOOLEAN /\ Alert!Wanted("record") \in BOOLEAN
    BY DEF Alert!Wanted
  <2> QED
    BY <2>1, <2>6, <2>7, <2>8 DEF AlertTypes, Alert!TypeOK, Spawned, Answered
<1> QED
  BY <1>1, AlertInvariance, PTL

(* alerts.py: one page for an outage and one all-clear for a page, in that *)
(* order, an outage paged once for each life of the hub, and once all is   *)
(* quiet an incident of a module that is down.                             *)
THEOREM AlertsAreTrue == Alert!Spec => []AlertsTrue
<1>1. AlertInv => AlertsTrue
  <2> SUFFICES ASSUME AlertInv PROVE AlertsTrue
    OBVIOUS
  <2>1. Alert!Alternates
    BY DEF AlertInv, PagesAlternate, Alert!Alternates
  <2>2. Alert!OnePage
    <3>1. sinceUp <= restarts + 1 /\ restarts + 1 = 1 + restarts
      BY DEF AlertInv, PagesCounted, AlertTypes
    <3> QED
      BY <3>1 DEF Alert!OnePage
  <2>3. Alert!IncidentMatches
    BY DEF AlertInv, PagedIsOpen, RecoveryComes, Alert!IncidentMatches, Alert!Quiet
  <2> QED
    BY <2>1, <2>2, <2>3 DEF AlertsTrue
<1> QED
  BY <1>1, AlertInvariance, PTL

-----------------------------------------------------------------------------
(* The opening of the database file                                        *)

(* The types of a file and of what a start keeps of it.                    *)
FileRow(tables) == [version : 0 .. 20, cols : [File!Tables -> SUBSET (0 .. 19)], rows : SUBSET tables]

FileTypes ==
    /\ file \in FileRow(File!Tables) /\ original \in FileRow(File!Tables)
    /\ txn \in FileRow(File!Tables \union {"copy"})
    /\ snaps \in [0 .. 19 -> FileRow(File!Tables)]
    /\ pc \in {"closed", "snapshot", "schema", "step", "open", "refused"}
    /\ preExisting \in BOOLEAN /\ faults \in 0 .. MaxFaults

(* A table that is there has its first columns, none but those of SCHEMA,  *)
(* and those of every version up to the file's; a table that held rows is  *)
(* there.                                                                  *)
Shaped ==
    /\ \A t \in File!Tables :
         /\ file.cols[t] \subseteq File!Full(t) /\ txn.cols[t] \subseteq File!Full(t)
         /\ file.cols[t] # {} => 0 \in file.cols[t]
    /\ File!VersionIsTrue
    /\ file.rows = original.rows
    /\ \A t \in original.rows : file.cols[t] # {}

(* Where the file is new, and where it is being opened.                    *)
Opening ==
    /\ file.version <= 19 \/ (file = original /\ pc \in {"closed", "refused"})
    /\ file.cols["devices"] = {} \/ (pc = "schema" /\ ~preExisting) =>
         /\ original.rows = {}
         /\ \A t \in File!Tables : file.cols[t] \in {{}, File!Full(t)}
    /\ pc = "open" => file.version = 19 /\ \A t \in File!Tables : file.cols[t] # {}
    /\ pc = "snapshot" => preExisting

(* The copy of the file as it was found.                                   *)
Copied == /\ original.version \in 0 .. 19 /\ snaps[original.version].version = original.version
          /\ File!SameTables(snaps[original.version])

Revocable ==
    /\ file.version >= original.version
    /\ original.rows # {} /\ file.version = original.version => File!SameTables(file)
    /\ original.rows # {} /\ file.version # original.version => Copied
    /\ original.rows # {} /\ pc \in {"schema", "step"} /\ file.version < 19 => Copied

(* A step under way: n of its statements have run.                         *)
StepNo == file.version + 1
Ran(n) ==
    LET stmts == File!MIGRATIONS[StepNo] IN
    /\ todo = SubSeq(stmts, n + 1, Len(stmts))
    /\ \A t \in File!Tables : file.cols[t] \subseteq txn.cols[t]
    /\ \A t \in File!Tables : \A i \in 1 .. n :
         stmts[i] \in {File!Add(t), <<"swap", t>>} => StepNo \in txn.cols[t]
    /\ \/ n >= 1 /\ stmts[n][1] = "copy" /\ StepNo \notin txn.cols[stmts[n][2]]
          /\ txn.rows = file.rows \union {"copy"}
       \/ /\ n >= 1 /\ stmts[n][1] = "copy" => StepNo \in txn.cols[stmts[n][2]]
          /\ txn.rows = file.rows

InStep ==
    pc = "step" =>
        /\ StepNo \in 1 .. 19
        /\ \A t \in File!Tables : file.cols[t] # {}
        /\ \E n \in 0 .. Len(File!MIGRATIONS[StepNo]) : Ran(n)

FileInv == FileTypes /\ Shaped /\ Opening /\ Revocable /\ InStep

Statements == {"add", "create", "copy", "swap", "rewrite"} \X File!Tables

(* A step of the migration: its statements are of the five kinds, a table  *)
(* is dropped right after it was copied, and devices is made by none.      *)
WellMade(stmts) ==
    /\ stmts \in Seq(Statements)
    /\ \A i \in 1 .. Len(stmts) :
         /\ stmts[i][1] = "copy" => i + 1 <= Len(stmts) /\ stmts[i + 1] = <<"swap", stmts[i][2]>>
         /\ stmts[i][1] = "swap" => i > 1 /\ stmts[i - 1] = <<"copy", stmts[i][2]>>
         /\ stmts[i] # File!Create("devices")

(* The tables SCHEMA makes.                                                *)
LEMMA TheTables ==
  File!Tables = {"agents", "ingested", "sims", "devices", "messages", "calls", "segments",
                 "device_status", "outbox", "tasks", "task_logs", "operations"}
<1> DEFINE o == File!SchemaOrder
<1>1. /\ DOMAIN o = 1 .. 12
      /\ o[1] = "agents" /\ o[2] = "ingested" /\ o[3] = "sims" /\ o[4] = "devices"
      /\ o[5] = "messages" /\ o[6] = "calls" /\ o[7] = "segments" /\ o[8] = "device_status"
      /\ o[9] = "outbox" /\ o[10] = "tasks" /\ o[11] = "task_logs" /\ o[12] = "operations"
  BY DEF File!SchemaOrder
<1> HIDE DEF o
<1>2. \A i \in 1 .. 12 : i = 1 \/ i = 2 \/ i = 3 \/ i = 4 \/ i = 5 \/ i = 6 \/ i = 7 \/ i = 8
                          \/ i = 9 \/ i = 10 \/ i = 11 \/ i = 12
  OBVIOUS
<1>3. File!Tables = {o[i] : i \in 1 .. 12}
  BY <1>1 DEF File!Tables, o
<1> QED
  BY <1>1, <1>2, <1>3

(* A step of one statement.                                                *)
LEMMA OneStatement ==
  ASSUME NEW st \in Statements, st[1] \in {"add", "create", "rewrite"}, st # File!Create("devices")
  PROVE  WellMade(<<st>>)
<1>1. <<st>> \in Seq(Statements) /\ Len(<<st>>) = 1 /\ <<st>>[1] = st
  OBVIOUS
<1>2. \A i \in 1 .. 1 : i = 1
  OBVIOUS
<1> QED
  BY <1>1, <1>2 DEF WellMade

(* A step of two.                                                          *)
LEMMA TwoStatements ==
  ASSUME NEW st \in Statements, st[1] \in {"add", "create", "rewrite"}, st # File!Create("devices"),
         NEW su \in Statements, su[1] \in {"add", "create", "rewrite"}, su # File!Create("devices")
  PROVE  WellMade(<<st, su>>)
<1>1. <<st, su>> \in Seq(Statements) /\ Len(<<st, su>>) = 2 /\ <<st, su>>[1] = st /\ <<st, su>>[2] = su
  OBVIOUS
<1>2. \A i \in 1 .. 2 : i = 1 \/ i = 2
  OBVIOUS
<1> QED
  BY <1>1, <1>2 DEF WellMade

(* Steps 1 to 10.                                                          *)
LEMMA EarlyMade ==
  /\ Len(File!EarlySteps) = 10 /\ File!EarlySteps \in Seq(Seq(Statements))
  /\ \A k \in 1 .. 10 : WellMade(File!EarlySteps[k])
  /\ File!EarlySteps[1] = <<File!Add("messages"), File!Add("devices")>>
<1> DEFINE e == File!EarlySteps
<1>1. /\ Len(e) = 10 /\ DOMAIN e = 1 .. 10
      /\ e[1] = <<File!Add("messages"), File!Add("devices")>>
      /\ e[2] = <<File!Add("messages")>> /\ e[3] = <<File!Add("agents")>>
      /\ e[4] = <<File!Create("segments")>> /\ e[5] = <<File!Rewrite("messages")>>
      /\ e[6] = <<File!Add("sims")>> /\ e[7] = <<File!Rewrite("messages")>>
      /\ e[8] = <<File!Add("devices")>> /\ e[9] = <<File!Add("devices"), File!Add("device_status")>>
      /\ e[10] = <<File!Add("messages")>>
      /\ e = [i \in 1 .. 10 |-> e[i]]
  BY DEF File!EarlySteps, File!BaselineStep
<1>2. \A t \in File!Tables :
        /\ File!Add(t) \in Statements /\ File!Add(t)[1] = "add" /\ File!Add(t) # File!Create("devices")
        /\ File!Rewrite(t) \in Statements /\ File!Rewrite(t)[1] = "rewrite" /\ File!Rewrite(t) # File!Create("devices")
        /\ File!Create(t) \in Statements /\ File!Create(t)[1] = "create"
        /\ t # "devices" => File!Create(t) # File!Create("devices")
  BY DEF Statements, File!Add, File!Create, File!Rewrite
<1> HIDE DEF e
<1>3. WellMade(e[1]) /\ WellMade(e[9])
  BY <1>1, <1>2, TwoStatements, TheTables
<1>4. WellMade(e[2]) /\ WellMade(e[3]) /\ WellMade(e[4]) /\ WellMade(e[5]) /\ WellMade(e[6])
      /\ WellMade(e[7]) /\ WellMade(e[8]) /\ WellMade(e[10])
  BY <1>1, <1>2, OneStatement, TheTables
<1>5. \A k \in 1 .. 10 : k = 1 \/ k = 2 \/ k = 3 \/ k = 4 \/ k = 5 \/ k = 6 \/ k = 7 \/ k = 8 \/ k = 9 \/ k = 10
  OBVIOUS
<1>6. \A k \in 1 .. 10 : WellMade(e[k])
  BY <1>3, <1>4, <1>5
<1>7. e \in Seq(Seq(Statements))
  BY <1>1, <1>6 DEF WellMade
<1> QED
  BY <1>1, <1>6, <1>7 DEF e

(* Steps 11 to 15; the fourth of them builds ingested anew.                *)
LEMMA LaterMade ==
  /\ Len(File!LaterSteps) = 5 /\ File!LaterSteps \in Seq(Seq(Statements))
  /\ \A k \in 1 .. 5 : WellMade(File!LaterSteps[k])
<1> DEFINE e == File!LaterSteps
<1>1. /\ Len(e) = 5 /\ DOMAIN e = 1 .. 5
      /\ e[1] = <<File!Create("calls")>> /\ e[2] = <<File!Add("devices")>> /\ e[3] = <<File!Add("devices")>>
      /\ e[4] = <<File!Add("agents"), <<"copy", "ingested">>, <<"swap", "ingested">> >>
      /\ e[5] = <<File!Add("tasks"), File!Rewrite("tasks")>>
      /\ e = [i \in 1 .. 5 |-> e[i]]
  BY DEF File!LaterSteps
<1>2. \A t \in File!Tables :
        /\ File!Add(t) \in Statements /\ File!Add(t)[1] = "add" /\ File!Add(t) # File!Create("devices")
        /\ File!Rewrite(t) \in Statements /\ File!Rewrite(t)[1] = "rewrite" /\ File!Rewrite(t) # File!Create("devices")
        /\ File!Create(t) \in Statements /\ File!Create(t)[1] = "create"
        /\ t # "devices" => File!Create(t) # File!Create("devices")
  BY DEF Statements, File!Add, File!Create, File!Rewrite
<1> HIDE DEF e
<1>3. WellMade(e[5])
  BY <1>1, <1>2, TwoStatements, TheTables
<1>4. WellMade(e[1]) /\ WellMade(e[2]) /\ WellMade(e[3])
  BY <1>1, <1>2, OneStatement, TheTables
<1>5. WellMade(e[4])
  <2>1. /\ Len(e[4]) = 3 /\ e[4][1] = File!Add("agents") /\ e[4][2] = <<"copy", "ingested">>
        /\ e[4][3] = <<"swap", "ingested">>
    BY <1>1
  <2>2. e[4][1] \in Statements /\ e[4][2] \in Statements /\ e[4][3] \in Statements
    BY <1>2, <2>1, TheTables DEF Statements
  <2>3. e[4] \in Seq(Statements)
    BY <1>1, <2>1, <2>2
  <2>4. \A i \in 1 .. 3 : i = 1 \/ i = 2 \/ i = 3
    OBVIOUS
  <2>5. <<"copy", "ingested">> # File!Create("devices") /\ <<"swap", "ingested">> # File!Create("devices")
        /\ File!Add("agents")[1] = "add" /\ File!Add("agents") # File!Create("devices")
    BY DEF File!Create, File!Add
  <2>6. /\ e[4][1] # File!Create("devices") /\ e[4][2] # File!Create("devices") /\ e[4][3] # File!Create("devices")
        /\ e[4][1][1] = "add" /\ e[4][2][1] = "copy" /\ e[4][3][1] = "swap"
        /\ e[4][2 + 1] = <<"swap", e[4][2][2]>> /\ e[4][3 - 1] = <<"copy", e[4][3][2]>>
    BY <2>1, <2>5
  <2>7. \A i \in 1 .. Len(e[4]) :
         /\ e[4][i][1] = "copy" => i + 1 <= Len(e[4]) /\ e[4][i + 1] = <<"swap", e[4][i][2]>>
         /\ e[4][i][1] = "swap" => i > 1 /\ e[4][i - 1] = <<"copy", e[4][i][2]>>
         /\ e[4][i] # File!Create("devices")
    <3> TAKE i \in 1 .. Len(e[4])
    <3>1. CASE i = 1
      BY ONLY <2>6, <3>1
    <3>2. CASE i = 2
      BY ONLY <2>1, <2>6, <3>2
    <3>3. CASE i = 3
      BY ONLY <2>1, <2>6, <3>3
    <3> QED
      BY ONLY <2>1, <2>4, <3>1, <3>2, <3>3
  <2> QED
    BY <2>3, <2>7 DEF WellMade
<1>6. \A k \in 1 .. 5 : k = 1 \/ k = 2 \/ k = 3 \/ k = 4 \/ k = 5
  OBVIOUS
<1>7. \A k \in 1 .. 5 : WellMade(e[k])
  BY <1>3, <1>4, <1>5, <1>6
<1>8. e \in Seq(Seq(Statements))
  BY <1>1, <1>7 DEF WellMade
<1> QED
  BY <1>1, <1>7, <1>8 DEF e

(* Steps 16 to 19.                                                         *)
LEMMA OutboxMade ==
  /\ Len(File!OutboxSteps) = 4 /\ File!OutboxSteps \in Seq(Seq(Statements))
  /\ \A k \in 1 .. 4 : WellMade(File!OutboxSteps[k])
<1> DEFINE e == File!OutboxSteps
<1>1. /\ Len(e) = 4 /\ DOMAIN e = 1 .. 4
      /\ e[1] = <<File!Create("outbox")>> /\ e[2] = <<File!Add("agents")>>
      /\ e[3] = <<File!Create("operations")>> /\ e[4] = <<File!Add("task_logs")>>
      /\ e = [i \in 1 .. 4 |-> e[i]]
  BY DEF File!OutboxSteps
<1>2. \A t \in File!Tables :
        /\ File!Add(t) \in Statements /\ File!Add(t)[1] = "add" /\ File!Add(t) # File!Create("devices")
        /\ File!Create(t) \in Statements /\ File!Create(t)[1] = "create"
        /\ t # "devices" => File!Create(t) # File!Create("devices")
  BY DEF Statements, File!Add, File!Create
<1> HIDE DEF e
<1>3. WellMade(e[1]) /\ WellMade(e[2]) /\ WellMade(e[3]) /\ WellMade(e[4])
  BY <1>1, <1>2, OneStatement, TheTables
<1>4. \A k \in 1 .. 4 : k = 1 \/ k = 2 \/ k = 3 \/ k = 4
  OBVIOUS
<1>5. \A k \in 1 .. 4 : WellMade(e[k])
  BY <1>3, <1>4
<1>6. e \in Seq(Seq(Statements))
  BY <1>1, <1>5 DEF WellMade
<1> QED
  BY <1>1, <1>5, <1>6 DEF e

(* Two lists of well-made steps, one after the other.                      *)
LEMMA JoinedMade ==
  ASSUME NEW a \in Seq(Seq(Statements)), NEW b \in Seq(Seq(Statements)), Len(a) > 0,
         \A k \in 1 .. Len(a) : WellMade(a[k]), \A k \in 1 .. Len(b) : WellMade(b[k])
  PROVE  /\ a \o b \in Seq(Seq(Statements)) /\ Len(a \o b) = Len(a) + Len(b) /\ (a \o b)[1] = a[1]
         /\ \A k \in 1 .. Len(a \o b) : WellMade((a \o b)[k])
<1>1. Len(a) \in Nat /\ Len(b) \in Nat
  OBVIOUS
<1>2. /\ a \o b \in Seq(Seq(Statements)) /\ Len(a \o b) = Len(a) + Len(b)
      /\ \A k \in 1 .. Len(a) + Len(b) : (a \o b)[k] = IF k <= Len(a) THEN a[k] ELSE b[k - Len(a)]
  BY ConcatProperties
<1>3. ASSUME NEW k \in 1 .. Len(a \o b)
      PROVE  WellMade((a \o b)[k])
  <2>1. CASE k <= Len(a)
    <3>1. (a \o b)[k] = a[k] /\ k \in 1 .. Len(a)
      BY <1>1, <1>2, <2>1
    <3> QED
      BY <3>1
  <2>2. CASE k > Len(a)
    <3>1. (a \o b)[k] = b[k - Len(a)] /\ k - Len(a) \in 1 .. Len(b)
      BY <1>1, <1>2, <2>2
    <3> QED
      BY <3>1
  <2> QED
    BY <1>1, <1>2, <2>1, <2>2
<1> QED
  BY <1>1, <1>2, <1>3

(* Every step of the list is well made, and the first completes the        *)
(* baseline.                                                               *)
LEMMA MigrationsMade ==
  /\ \A k \in 1 .. 19 : WellMade(File!MIGRATIONS[k])
  /\ File!MIGRATIONS[1] = <<File!Add("messages"), File!Add("devices")>>
<1> DEFINE el == File!EarlySteps \o File!LaterSteps
<1>1. /\ el \in Seq(Seq(Statements)) /\ Len(el) = 15 /\ el[1] = File!EarlySteps[1]
      /\ \A k \in 1 .. Len(el) : WellMade(el[k])
  <2>1. /\ File!EarlySteps \in Seq(Seq(Statements)) /\ Len(File!EarlySteps) = 10 /\ Len(File!EarlySteps) > 0
        /\ \A k \in 1 .. Len(File!EarlySteps) : WellMade(File!EarlySteps[k])
    BY EarlyMade
  <2>2. /\ File!LaterSteps \in Seq(Seq(Statements)) /\ Len(File!LaterSteps) = 5
        /\ \A k \in 1 .. Len(File!LaterSteps) : WellMade(File!LaterSteps[k])
    BY LaterMade
  <2>3. /\ el \in Seq(Seq(Statements)) /\ Len(el) = Len(File!EarlySteps) + Len(File!LaterSteps)
        /\ el[1] = File!EarlySteps[1] /\ \A k \in 1 .. Len(el) : WellMade(el[k])
    BY <2>1, <2>2, JoinedMade, Zenon
  <2>4. Len(File!EarlySteps) + Len(File!LaterSteps) = 15
    BY <2>1, <2>2
  <2> QED
    BY <2>3, <2>4, Zenon
<1> HIDE DEF el
<1>2. /\ Len(el \o File!OutboxSteps) = 19 /\ (el \o File!OutboxSteps)[1] = el[1]
      /\ \A k \in 1 .. Len(el \o File!OutboxSteps) : WellMade((el \o File!OutboxSteps)[k])
  <2>1. /\ File!OutboxSteps \in Seq(Seq(Statements)) /\ Len(File!OutboxSteps) = 4
        /\ \A k \in 1 .. Len(File!OutboxSteps) : WellMade(File!OutboxSteps[k])
    BY OutboxMade
  <2>2. Len(el) > 0
    BY <1>1
  <2>3. /\ Len(el \o File!OutboxSteps) = Len(el) + Len(File!OutboxSteps) /\ (el \o File!OutboxSteps)[1] = el[1]
        /\ \A k \in 1 .. Len(el \o File!OutboxSteps) : WellMade((el \o File!OutboxSteps)[k])
    BY <1>1, <2>1, <2>2, JoinedMade, Zenon
  <2>4. Len(el) + Len(File!OutboxSteps) = 19
    BY <1>1, <2>1
  <2> QED
    BY <2>3, <2>4, Zenon
<1>3. File!MIGRATIONS = el \o File!OutboxSteps
  BY DEF File!MIGRATIONS, el
<1> QED
  BY <1>1, <1>2, <1>3, EarlyMade

(* The columns of a table come with the steps that add them.               *)
LEMMA ColumnFacts ==
  /\ \A t \in File!Tables : /\ File!Full(t) \subseteq 0 .. 19 /\ 0 \in File!Full(t)
                            /\ File!Adds(t) \subseteq File!Full(t) /\ File!Adds(t) \subseteq 1 .. 19
                            /\ File!Full(t) = {0} \union File!Adds(t)
  /\ \A t \in File!Tables : \A k \in 1 .. 19 :
       k \in File!Adds(t) <=>
         \E i \in 1 .. Len(File!MIGRATIONS[k]) : File!MIGRATIONS[k][i] \in {File!Add(t), <<"swap", t>>}
  /\ {"devices", "messages"} \subseteq File!Tables
  /\ 1 \in File!Adds("messages") /\ 1 \in File!Adds("devices")
  /\ \A k \in 1 .. 19 : "devices" \notin File!CreatedBy(k)
  /\ "copy" \notin File!Tables
<1>1. \A k \in 1 .. 19 : DOMAIN File!MIGRATIONS[k] = 1 .. Len(File!MIGRATIONS[k])
  BY MigrationsMade DEF WellMade
<1>2. \A t \in File!Tables : \A k \in 1 .. 19 :
       k \in File!Adds(t) <=>
         \E i \in 1 .. Len(File!MIGRATIONS[k]) : File!MIGRATIONS[k][i] \in {File!Add(t), <<"swap", t>>}
  BY <1>1 DEF File!Adds, File!SCHEMA_VERSION
<1>3. \A t \in File!Tables : File!Adds(t) \subseteq 1 .. 19 /\ File!Full(t) = {0} \union File!Adds(t)
  BY DEF File!Adds, File!Full, File!SCHEMA_VERSION
<1>4. {"devices", "messages"} \subseteq File!Tables /\ "copy" \notin File!Tables
  BY TheTables
<1>5. 1 \in File!Adds("messages") /\ 1 \in File!Adds("devices")
  <2>1. /\ 1 \in 1 .. Len(File!MIGRATIONS[1]) /\ File!MIGRATIONS[1][1] = File!Add("messages")
        /\ 2 \in 1 .. Len(File!MIGRATIONS[1]) /\ File!MIGRATIONS[1][2] = File!Add("devices")
    BY MigrationsMade
  <2> QED
    BY <1>2, <1>4, <2>1
<1>6. \A k \in 1 .. 19 : "devices" \notin File!CreatedBy(k)
  BY <1>1, MigrationsMade DEF WellMade, File!CreatedBy
<1>7. \A t \in File!Tables : /\ File!Full(t) \subseteq 0 .. 19 /\ 0 \in File!Full(t)
                             /\ File!Adds(t) \subseteq File!Full(t)
  BY <1>3
<1> QED
  BY <1>2, <1>3, <1>4, <1>5, <1>6, <1>7

(* A file as a start may find it.                                          *)
Sound(f) ==
    /\ f \in FileRow(File!Tables)
    /\ \A t \in File!Tables : f.cols[t] \subseteq File!Full(t) /\ (f.cols[t] # {} => 0 \in f.cols[t])
    /\ \A t \in File!Tables : \A k \in File!Adds(t) : k <= f.version /\ f.cols[t] # {} => k \in f.cols[t]
    /\ \A t \in f.rows : f.cols[t] # {}
    /\ f.cols["devices"] = {} => f.rows = {} /\ \A t \in File!Tables : f.cols[t] = {}

(* What an older server left behind.                                       *)
LEMMA OldSound ==
  ASSUME NEW v \in 0 .. 20, NEW extra \in SUBSET {"messages", "devices"}
  PROVE  Sound(File!Old(v, extra))
<1> DEFINE f == File!Old(v, extra)
           gone(t) == \E k \in 1 .. 19 : k > v /\ t \in File!CreatedBy(k)
           has(t) == {0} \union {k \in File!Adds(t) : k <= v} \union (IF t \in extra THEN {1} ELSE {})
<1>1. /\ f.version = v
      /\ \A t \in File!Tables : f.cols[t] = IF gone(t) THEN {} ELSE has(t)
      /\ f.rows = {t \in File!Tables : \A k \in 1 .. 19 : k > v => t \notin File!CreatedBy(k)}
      /\ f = [version |-> f.version, cols |-> f.cols, rows |-> f.rows]
      /\ f.cols = [t \in File!Tables |-> f.cols[t]]
  BY DEF File!Old, File!SCHEMA_VERSION
<1>2. \A t \in File!Tables : /\ has(t) \subseteq File!Full(t) /\ 0 \in has(t)
                             /\ \A k \in File!Adds(t) : k <= v => k \in has(t)
  <2> TAKE t \in File!Tables
  <2>1. t \in extra => 1 \in File!Full(t)
    <3>1. t \in extra => t = "messages" \/ t = "devices"
      OBVIOUS
    <3> QED
      BY <3>1, ColumnFacts
  <2>2. File!Adds(t) \subseteq File!Full(t) /\ 0 \in File!Full(t)
    BY ColumnFacts
  <2> QED
    BY <2>1, <2>2
<1>3. \A t \in File!Tables : t \in f.rows <=> ~gone(t)
  BY <1>1
<1>4. "devices" \in f.rows
  BY <1>3, ColumnFacts
<1> HIDE DEF f, gone, has
<1>5. f \in FileRow(File!Tables)
  <2>1. \A t \in File!Tables : f.cols[t] \in SUBSET (0 .. 19)
    <3>1. \A t \in File!Tables : File!Full(t) \subseteq 0 .. 19
      BY ColumnFacts
    <3>2. \A t \in File!Tables : f.cols[t] = {} \/ f.cols[t] = has(t)
      BY ONLY <1>1
    <3> QED
      BY ONLY <1>2, <3>1, <3>2
  <2>2. f.cols \in [File!Tables -> SUBSET (0 .. 19)]
    BY <1>1, <2>1
  <2>3. f.rows \in SUBSET File!Tables
    BY <1>1
  <2> QED
    BY <1>1, <2>2, <2>3 DEF FileRow
<1>6. /\ \A t \in File!Tables : f.cols[t] \subseteq File!Full(t) /\ (f.cols[t] # {} => 0 \in f.cols[t])
      /\ \A t \in File!Tables : \A k \in File!Adds(t) : k <= f.version /\ f.cols[t] # {} => k \in f.cols[t]
      /\ \A t \in f.rows : f.cols[t] # {}
      /\ f.cols["devices"] # {}
  <2>1. \A t \in File!Tables : (f.cols[t] = {} \/ f.cols[t] = has(t)) /\ (t \in f.rows => f.cols[t] = has(t))
    BY <1>1, <1>3 DEF gone
  <2>2. \A t \in File!Tables : f.cols[t] \subseteq File!Full(t) /\ (f.cols[t] # {} => 0 \in f.cols[t])
    BY ONLY <1>2, <2>1
  <2>3. \A t \in File!Tables : \A k \in File!Adds(t) : k <= f.version /\ f.cols[t] # {} => k \in f.cols[t]
    BY ONLY <1>1, <1>2, <2>1
  <2>4. \A t \in f.rows : f.cols[t] # {}
    BY ONLY <1>1, <1>2, <2>1
  <2> QED
    BY ONLY <1>4, <2>2, <2>3, <2>4
<1> QED
  BY <1>5, <1>6 DEF Sound, f

(* A start finds a sound file.                                             *)
LEMMA FoundSound == ASSUME NEW f \in File!Found PROVE Sound(f)
<1>1. Sound(File!NoFile)
  BY ColumnFacts DEF Sound, File!NoFile, FileRow
<1>2. \A v \in 0 .. 20 : Sound(File!Old(v, {}))
  BY OldSound
<1>3. \A x \in {{"messages"}, {"devices"}, {"messages", "devices"}} : Sound(File!Old(0, x))
  BY OldSound
<1> QED
  BY <1>1, <1>2, <1>3 DEF File!Found, File!SCHEMA_VERSION

(* Before the first start.                                                 *)
LEMMA FileStart == File!Init => FileInv
<1> SUFFICES ASSUME File!Init PROVE FileInv
  OBVIOUS
<1>1. /\ Sound(file) /\ original = file /\ txn = File!NoFile /\ pc = "closed" /\ preExisting = FALSE
      /\ snaps = [v \in 0 .. 19 |-> File!NoSnapshot] /\ faults = 0
  BY FoundSound DEF File!Init, File!SCHEMA_VERSION
<1>2. /\ File!NoFile \in FileRow(File!Tables \union {"copy"}) /\ File!NoSnapshot \in FileRow(File!Tables)
      /\ \A t \in File!Tables : File!NoFile.cols[t] = {}
  BY DEF File!NoFile, File!NoSnapshot, FileRow, File!SCHEMA_VERSION
<1>3. FileTypes
  <2>1. snaps \in [0 .. 19 -> FileRow(File!Tables)]
    BY ONLY <1>1, <1>2
  <2>2. file \in FileRow(File!Tables) /\ original \in FileRow(File!Tables)
    BY ONLY <1>1 DEF Sound
  <2>3. faults \in 0 .. MaxFaults
    BY <1>1, FileAssumption
  <2> QED
    BY ONLY <1>1, <1>2, <2>1, <2>2, <2>3 DEF FileTypes
<1>4. Shaped
  BY <1>1, <1>2 DEF Shaped, Sound, File!VersionIsTrue
<1>5. Opening /\ InStep
  BY <1>1 DEF Opening, InStep, Sound
<1>6. Revocable
  <2>1. file.version \in 0 .. 20
    BY <1>1 DEF Sound, FileRow
  <2> QED
    BY <1>1, <2>1 DEF Revocable, File!SameTables
<1> QED
  BY <1>3, <1>4, <1>5, <1>6 DEF FileInv

(* The start looks at the file.                                            *)
LEMMA LookStep == ASSUME FileInv, File!start PROVE FileInv'
<1>1. FileTypes /\ Shaped /\ Opening /\ Revocable /\ InStep
  BY DEF FileInv
<1>2. /\ pc = "closed" /\ preExisting' = (file.cols["devices"] # {})
      /\ pc' = (IF file.version > 19 THEN "refused"
                ELSE IF preExisting' /\ file.version < 19 THEN "snapshot" ELSE "schema")
      /\ UNCHANGED <<file, txn, todo, snaps, original, faults>>
  BY DEF File!start, File!SCHEMA_VERSION
<1>3. file.version \in 0 .. 20
  BY <1>1 DEF FileTypes, FileRow
<1>4. preExisting' \in BOOLEAN /\ pc' \in {"refused", "snapshot", "schema"}
  BY <1>2
<1>5. FileTypes'
  BY <1>1, <1>2, <1>4 DEF FileTypes
<1>6. Shaped'
  BY <1>1, <1>2 DEF Shaped, File!VersionIsTrue
<1>7. Opening'
  <2>1. ~preExisting' => file.cols["devices"] = {}
    BY ONLY <1>2
  <2>2. pc' # "refused" => file.version <= 19
    BY ONLY <1>2, <1>3
  <2>3. pc' = "snapshot" => preExisting'
    BY ONLY <1>2, <1>4, Zenon
  <2> QED
    BY ONLY <1>1, <1>2, <1>4, <2>1, <2>2, <2>3 DEF Opening
<1>8. Revocable'
  <2>1. pc' = "schema" /\ file.version < 19 => original.rows = {}
    BY <1>1, <1>2, <1>3 DEF Opening
  <2>2. pc' # "step"
    BY <1>4
  <2> QED
    BY <1>1, <1>2, <2>1, <2>2 DEF Revocable, Copied, File!SameTables
<1>9. InStep'
  BY <1>4 DEF InStep
<1> QED
  BY <1>5, <1>6, <1>7, <1>8, <1>9 DEF FileInv

(* The copy is made.                                                       *)
LEMMA SnapshotStep == ASSUME FileInv, File!_snapshot_before_migration PROVE FileInv'
<1>1. FileTypes /\ Shaped /\ Opening /\ Revocable /\ InStep
  BY DEF FileInv
<1>2. /\ pc = "snapshot" /\ pc' = "schema" /\ snaps' = [snaps EXCEPT ![file.version] = file]
      /\ UNCHANGED <<file, txn, todo, preExisting, original, faults>>
  BY DEF File!_snapshot_before_migration
<1>3. file.version \in 0 .. 19 /\ original.version \in 0 .. 20 /\ preExisting
  BY <1>1, <1>2 DEF FileTypes, FileRow, Opening
<1>4. FileTypes'
  BY <1>1, <1>2 DEF FileTypes
<1>5. Shaped'
  BY <1>1, <1>2 DEF Shaped, File!VersionIsTrue
<1>6. Opening' /\ InStep'
  BY <1>1, <1>2, <1>3 DEF Opening, InStep
<1>7. original.rows # {} => Copied'
  <2> SUFFICES ASSUME original.rows # {} PROVE Copied'
    OBVIOUS
  <2>1. CASE file.version = original.version
    <3>1. snaps'[original.version] = file
      BY <1>1, <1>2, <1>3, <2>1 DEF FileTypes
    <3>2. File!SameTables(file)
      BY <1>1, <2>1 DEF Revocable
    <3> QED
      BY <1>2, <1>3, <2>1, <3>1, <3>2 DEF Copied, File!SameTables
  <2>2. CASE file.version # original.version
    <3>1. Copied
      BY <1>1, <2>2 DEF Revocable
    <3>2. snaps'[original.version] = snaps[original.version]
      BY <1>1, <1>2, <1>3, <2>2, <3>1 DEF FileTypes, Copied
    <3> QED
      BY <1>2, <3>1, <3>2 DEF Copied, File!SameTables
  <2> QED
    BY <2>1, <2>2
<1>8. Revocable'
  BY <1>1, <1>2, <1>7 DEF Revocable, File!SameTables
<1> QED
  BY <1>4, <1>5, <1>6, <1>7, <1>8 DEF FileInv

(* SCHEMA makes a table that is missing: none that held rows.              *)
LEMMA CreateStep == ASSUME FileInv, File!create_missing PROVE FileInv'
<1>1. FileTypes /\ Shaped /\ Opening /\ Revocable /\ InStep
  BY DEF FileInv
<1>2. PICK u \in File!Tables :
         /\ file.cols[u] = {} /\ file' = [file EXCEPT !.cols[u] = File!Full(u)]
  <2> DEFINE i == CHOOSE x \in File!Missing : \A y \in File!Missing : x <= y
  <2>1. File!Missing # {} /\ File!Missing \subseteq 1 .. 12
    BY DEF File!create_missing, File!Missing, File!SchemaOrder
  <2>2. i \in File!Missing
    <3>1. File!Missing \in SUBSET Nat
      BY <2>1
    <3>2. \E x \in File!Missing : \A y \in File!Missing : x <= y
      BY <2>1, <3>1, LeastNumber
    <3> QED
      BY <3>2
  <2>3. File!SchemaOrder[i] \in File!Tables /\ file.cols[File!SchemaOrder[i]] = {}
    BY <2>2 DEF File!Missing, File!Tables
  <2>4. file' = [file EXCEPT !.cols[File!SchemaOrder[i]] = File!Full(File!SchemaOrder[i])]
    BY DEF File!create_missing
  <2> HIDE DEF i
  <2> QED
    BY <2>3, <2>4
<1>3. pc = "schema" /\ UNCHANGED <<txn, pc, todo, preExisting, snaps, original, faults>>
  BY DEF File!create_missing
<1>4. /\ file'.version = file.version /\ file'.rows = file.rows
      /\ \A t \in File!Tables : file'.cols[t] = IF t = u THEN File!Full(u) ELSE file.cols[t]
      /\ file' \in FileRow(File!Tables)
  <2>1. File!Full(u) \in SUBSET (0 .. 19)
    BY ColumnFacts
  <2>2. file \in FileRow(File!Tables)
    BY <1>1 DEF FileTypes
  <2> QED
    BY <1>2, <2>1, <2>2 DEF FileRow
<1>5. 0 \in File!Full(u) /\ File!Adds(u) \subseteq File!Full(u) /\ "devices" \in File!Tables
  BY ColumnFacts
<1>6. FileTypes'
  BY <1>1, <1>3, <1>4 DEF FileTypes
<1>7. original.rows \subseteq File!Tables /\ u \notin original.rows
  BY <1>1, <1>2 DEF FileTypes, FileRow, Shaped
<1>8. Shaped'
  <2>1. File!VersionIsTrue'
    BY <1>1, <1>4, <1>5 DEF Shaped, File!VersionIsTrue
  <2>2. \A t \in File!Tables : file'.cols[t] \subseteq File!Full(t) /\ (file'.cols[t] # {} => 0 \in file'.cols[t])
    BY <1>1, <1>4, <1>5 DEF Shaped
  <2>3. \A t \in original.rows : file'.cols[t] # {}
    BY <1>1, <1>4, <1>7 DEF Shaped
  <2> QED
    BY <1>1, <1>3, <1>4, <2>1, <2>2, <2>3 DEF Shaped
<1>9. Opening'
  <2>1. file'.cols["devices"] = {} => file.cols["devices"] = {}
    BY <1>4, <1>5
  <2>2. \A t \in File!Tables : file.cols[t] \in {{}, File!Full(t)} => file'.cols[t] \in {{}, File!Full(t)}
    BY <1>4
  <2> QED
    BY <1>1, <1>3, <1>4, <2>1, <2>2 DEF Opening
<1>10. Revocable'
  <2>1. File!SameTables(file) => File!SameTables(file)'
    BY <1>3, <1>4, <1>7 DEF File!SameTables
  <2>2. Copied => Copied'
    BY <1>3 DEF Copied, File!SameTables
  <2> QED
    BY <1>1, <1>3, <1>4, <2>1, <2>2 DEF Revocable
<1>11. InStep'
  BY <1>3 DEF InStep
<1> QED
  BY <1>6, <1>8, <1>9, <1>10, <1>11 DEF FileInv

(* None of the statements of the next step has run.                        *)
LEMMA StepBegins ==
  ASSUME file'.version + 1 \in 1 .. 19, txn' = file', todo' = File!MIGRATIONS[file'.version + 1]
  PROVE  \E n \in 0 .. Len(File!MIGRATIONS[StepNo']) : Ran(n)'
<1> DEFINE stmts == File!MIGRATIONS[StepNo']
<1>1. stmts \in Seq(Statements) /\ Len(stmts) \in Nat /\ todo' = stmts
  <2>1. StepNo' = file'.version + 1
    BY DEF StepNo
  <2>2. WellMade(File!MIGRATIONS[file'.version + 1])
    BY MigrationsMade
  <2> QED
    BY <2>1, <2>2 DEF WellMade
<1>2. todo' = SubSeq(stmts, 0 + 1, Len(stmts))
  BY <1>1, SubSeqFull
<1>3. Ran(0)'
  BY <1>2 DEF Ran
<1> QED
  BY <1>1, <1>3

(* The first step begins, or the file is current or new.                   *)
LEMMA MigrateStep == ASSUME FileInv, File!_migrate PROVE FileInv'
<1>1. FileTypes /\ Shaped /\ Opening /\ Revocable /\ InStep
  BY DEF FileInv
<1>2. pc = "schema" /\ UNCHANGED <<preExisting, snaps, original, faults>> /\ file.version \in 0 .. 19
  BY <1>1 DEF File!_migrate, Opening, FileTypes, FileRow
<1>3. \A t \in File!Tables : file.cols[t] # {}
  <2>1. File!Missing = {}
    BY DEF File!_migrate
  <2> QED
    BY <2>1 DEF File!Missing, File!Tables
<1>4. Copied => Copied'
  BY <1>2 DEF Copied, File!SameTables
<1>5. CASE file.version = 19 /\ pc' = "open" /\ UNCHANGED <<file, txn, todo>>
  <2>1. FileTypes' /\ Shaped'
    BY <1>1, <1>2, <1>5 DEF FileTypes, Shaped, File!VersionIsTrue
  <2>2. Opening' /\ InStep'
    BY <1>1, <1>2, <1>3, <1>5 DEF Opening, InStep
  <2>3. Revocable'
    BY <1>1, <1>2, <1>4, <1>5 DEF Revocable, File!SameTables
  <2> QED
    BY <2>1, <2>2, <2>3 DEF FileInv
<1>6. CASE ~preExisting /\ file' = [file EXCEPT !.version = 19] /\ pc' = "open" /\ UNCHANGED <<txn, todo>>
  <2>1. original.rows = {} /\ \A t \in File!Tables : file.cols[t] = File!Full(t)
    BY <1>1, <1>2, <1>3, <1>6 DEF Opening
  <2>2. /\ file' \in FileRow(File!Tables) /\ file'.version = 19 /\ file'.cols = file.cols /\ file'.rows = file.rows
    <3>1. file \in FileRow(File!Tables)
      BY <1>1 DEF FileTypes
    <3>2. file' = [file EXCEPT !.version = 19]
      BY <1>6
    <3> QED
      BY ONLY <3>1, <3>2 DEF FileRow
  <2>3. FileTypes'
    BY <1>1, <1>2, <1>6, <2>2 DEF FileTypes
  <2>4. Shaped'
    <3>1. File!VersionIsTrue'
      BY <2>1, <2>2, ColumnFacts DEF File!VersionIsTrue
    <3> QED
      BY <1>1, <1>2, <1>6, <2>2, <3>1 DEF Shaped
  <2>5. Opening' /\ InStep'
    <3>1. file'.version <= 19 /\ pc' = "open" /\ file'.version = 19
      BY <1>6, <2>2
    <3>2. original' = original /\ \A t \in File!Tables : file'.cols[t] = File!Full(t) /\ file'.cols[t] # {}
      BY <1>2, <1>3, <2>1, <2>2
    <3> QED
      BY ONLY <2>1, <3>1, <3>2 DEF Opening, InStep
  <2>6. Revocable'
    <3>1. original.version \in 0 .. 20 /\ original.version <= file.version
      BY <1>1 DEF Revocable, FileTypes, FileRow
    <3>2. original'.rows = {} /\ file'.version >= original'.version
      BY <1>2, <2>1, <2>2, <3>1
    <3> QED
      BY ONLY <3>2 DEF Revocable
  <2> QED
    BY <2>3, <2>4, <2>5, <2>6 DEF FileInv
<1>7. CASE /\ file.version < 19 /\ preExisting /\ pc' = "step"
           /\ txn' = file /\ todo' = File!MIGRATIONS[file.version + 1] /\ UNCHANGED file
  <2>1. txn' \in FileRow(File!Tables \union {"copy"})
    BY <1>1, <1>7 DEF FileTypes, FileRow
  <2>2. FileTypes'
    BY <1>1, <1>2, <1>7, <2>1 DEF FileTypes
  <2>3. Shaped'
    BY <1>1, <1>2, <1>7 DEF Shaped, File!VersionIsTrue
  <2>4. Opening'
    BY <1>1, <1>2, <1>7 DEF Opening
  <2>5. Revocable'
    BY <1>1, <1>2, <1>4, <1>7 DEF Revocable, File!SameTables
  <2>6. InStep'
    BY <1>2, <1>3, <1>7, StepBegins DEF InStep, StepNo
  <2> QED
    BY <2>2, <2>3, <2>4, <2>5, <2>6 DEF FileInv
<1>8. \/ file.version = 19 /\ pc' = "open" /\ UNCHANGED <<file, txn, todo>>
      \/ ~preExisting /\ file' = [file EXCEPT !.version = 19] /\ pc' = "open" /\ UNCHANGED <<txn, todo>>
      \/ /\ file.version < 19 /\ preExisting /\ pc' = "step"
         /\ txn' = file /\ todo' = File!MIGRATIONS[file.version + 1] /\ UNCHANGED file
  BY DEF File!_migrate, File!SCHEMA_VERSION
<1> QED
  BY <1>5, <1>6, <1>7, <1>8

(* The start is given up: nothing but the transaction is lost.             *)
LEMMA ClosedStep ==
  ASSUME FileInv, File!Closed, pc \notin {"closed", "refused"}, UNCHANGED <<file, preExisting, snaps, original>>,
         faults' \in 0 .. MaxFaults
  PROVE  FileInv'
<1>1. FileTypes /\ Shaped /\ Opening /\ Revocable /\ InStep
  BY DEF FileInv
<1>2. pc' = "closed" /\ txn' = File!NoFile
  BY DEF File!Closed
<1>3. File!NoFile \in FileRow(File!Tables \union {"copy"}) /\ \A t \in File!Tables : File!NoFile.cols[t] = {}
  BY DEF File!NoFile, FileRow
<1>4. FileTypes'
  BY <1>1, <1>2, <1>3 DEF FileTypes
<1>5. Shaped'
  BY <1>1, <1>2, <1>3 DEF Shaped, File!VersionIsTrue
<1>6. Opening' /\ InStep'
  BY <1>1, <1>2 DEF Opening, InStep
<1>7. Copied => Copied'
  BY DEF Copied, File!SameTables
<1>8. Revocable'
  BY <1>1, <1>2, <1>7 DEF Revocable, File!SameTables
<1> QED
  BY <1>4, <1>5, <1>6, <1>8 DEF FileInv

(* What a statement does to the tables.                                    *)
LEMMA StatementFacts ==
  ASSUME FileTypes, NEW k \in 1 .. 19, NEW st \in Statements, txn' = File!Run(st, k),
         \A t \in File!Tables : txn.cols[t] \subseteq File!Full(t),
         \A t \in File!Tables : st \in {File!Add(t), <<"swap", t>>} => k \in File!Adds(t)
  PROVE  /\ txn' \in FileRow(File!Tables \union {"copy"})
         /\ \A t \in File!Tables : txn.cols[t] \subseteq txn'.cols[t]
         /\ \A t \in File!Tables : txn'.cols[t] \subseteq File!Full(t)
         /\ \A t \in File!Tables : st \in {File!Add(t), <<"swap", t>>} => k \in txn'.cols[t]
         /\ st[1] \notin {"copy", "swap"} => txn'.rows = txn.rows
         /\ st[1] \in {"copy", "swap"} /\ k \in txn.cols[st[2]] => txn' = txn
         /\ st[1] = "copy" /\ k \notin txn.cols[st[2]] =>
              txn'.rows = txn.rows \union {"copy"} /\ txn'.cols = txn.cols
         /\ st[1] = "swap" /\ k \notin txn.cols[st[2]] /\ "copy" \in txn.rows =>
              txn'.rows = txn.rows \ {"copy"}
         /\ st[1] = "create" /\ txn.cols[st[2]] # {} => txn' = txn
<1> DEFINE u == st[2]
           R == FileRow(File!Tables \union {"copy"})
<1>1. u \in File!Tables /\ st = <<st[1], u>> /\ st[1] \in {"add", "create", "copy", "swap", "rewrite"}
  BY DEF Statements
<1>2. txn \in R /\ txn.cols \in [File!Tables -> SUBSET (0 .. 19)] /\ txn.rows \in SUBSET (File!Tables \union {"copy"})
  BY DEF FileTypes, FileRow
<1>3. \A t \in File!Tables : st \in {File!Add(t), <<"swap", t>>} <=> t = u /\ st[1] \in {"add", "swap"}
  BY <1>1 DEF File!Add
<1>4. st[1] \in {"add", "swap"} => k \in File!Full(u)
  BY <1>1, <1>3, ColumnFacts
<1>5. File!Full(u) \in SUBSET (0 .. 19) /\ k \in 0 .. 19
  BY <1>1, ColumnFacts
<1> HIDE DEF u, R
<1>6. txn' = CASE st[1] = "add" -> (IF k \in txn.cols[u] THEN txn ELSE [txn EXCEPT !.cols[u] = @ \union {k}])
             [] st[1] = "create" -> (IF txn.cols[u] # {} THEN txn ELSE [txn EXCEPT !.cols[u] = File!Full(u)])
             [] st[1] = "copy" -> (IF k \in txn.cols[u] THEN txn ELSE [txn EXCEPT !.rows = @ \union {"copy"}])
             [] st[1] = "swap" ->
                  (IF k \in txn.cols[u] THEN txn
                   ELSE [txn EXCEPT !.cols[u] = @ \union {k},
                                    !.rows = IF "copy" \in @ THEN @ \ {"copy"} ELSE @ \ {u}])
             [] st[1] = "rewrite" -> txn
  BY DEF File!Run, File!Skips, u
<1>7. CASE txn' = txn /\ (st[1] \in {"add", "swap"} => k \in txn.cols[u])
           /\ (st[1] = "copy" => k \in txn.cols[u])
  BY <1>2, <1>3, <1>7 DEF u, R
<1>8. CASE st[1] = "add" /\ txn' = [txn EXCEPT !.cols[u] = @ \union {k}]
  <2>1. /\ \A t \in File!Tables : txn'.cols[t] = IF t = u THEN txn.cols[u] \union {k} ELSE txn.cols[t]
        /\ txn' \in R /\ txn'.rows = txn.rows
    BY ONLY <1>1, <1>2, <1>5, <1>8 DEF R, FileRow
  <2>2. \A t \in File!Tables : txn'.cols[t] \subseteq File!Full(t)
    BY <1>4, <1>8, <2>1
  <2> QED
    BY <1>3, <1>8, <2>1, <2>2 DEF R
<1>9. CASE st[1] = "create" /\ txn.cols[u] = {} /\ txn' = [txn EXCEPT !.cols[u] = File!Full(u)]
  <2>1. /\ \A t \in File!Tables : txn'.cols[t] = IF t = u THEN File!Full(u) ELSE txn.cols[t]
        /\ txn' \in R /\ txn'.rows = txn.rows
    BY ONLY <1>1, <1>2, <1>5, <1>9 DEF R, FileRow
  <2> QED
    BY <1>3, <1>9, <2>1 DEF R, u
<1>10. CASE st[1] = "copy" /\ k \notin txn.cols[u] /\ txn' = [txn EXCEPT !.rows = @ \union {"copy"}]
  <2>1. txn' \in R /\ txn'.rows = txn.rows \union {"copy"} /\ txn'.cols = txn.cols
    BY ONLY <1>2, <1>10 DEF R, FileRow
  <2> QED
    BY <1>3, <1>10, <2>1 DEF R, u
<1>11. CASE st[1] = "swap" /\ k \notin txn.cols[u]
            /\ txn' = [txn EXCEPT !.cols[u] = @ \union {k},
                                  !.rows = IF "copy" \in @ THEN @ \ {"copy"} ELSE @ \ {u}]
  <2>1. /\ \A t \in File!Tables : txn'.cols[t] = IF t = u THEN txn.cols[u] \union {k} ELSE txn.cols[t]
        /\ txn' \in R
        /\ "copy" \in txn.rows => txn'.rows = txn.rows \ {"copy"}
    BY ONLY <1>1, <1>2, <1>5, <1>11 DEF R, FileRow
  <2>2. \A t \in File!Tables : txn'.cols[t] \subseteq File!Full(t)
    BY <1>4, <1>11, <2>1
  <2> QED
    BY <1>3, <1>11, <2>1, <2>2 DEF R, u
<1>12. \/ txn' = txn /\ (st[1] \in {"add", "swap"} => k \in txn.cols[u]) /\ (st[1] = "copy" => k \in txn.cols[u])
       \/ st[1] = "add" /\ txn' = [txn EXCEPT !.cols[u] = @ \union {k}]
       \/ st[1] = "create" /\ txn.cols[u] = {} /\ txn' = [txn EXCEPT !.cols[u] = File!Full(u)]
       \/ st[1] = "copy" /\ k \notin txn.cols[u] /\ txn' = [txn EXCEPT !.rows = @ \union {"copy"}]
       \/ st[1] = "swap" /\ k \notin txn.cols[u]
          /\ txn' = [txn EXCEPT !.cols[u] = @ \union {k},
                                !.rows = IF "copy" \in @ THEN @ \ {"copy"} ELSE @ \ {u}]
  BY <1>1, <1>6
<1> QED
  BY <1>7, <1>8, <1>9, <1>10, <1>11, <1>12

(* A statement runs inside the transaction.                                *)
LEMMA RunStep == ASSUME FileInv, File!_run_statement PROVE FileInv'
<1>1. FileTypes /\ Shaped /\ Opening /\ Revocable /\ InStep
  BY DEF FileInv
<1>2. /\ pc = "step" /\ todo # <<>> /\ txn' = File!Run(Head(todo), StepNo) /\ todo' = Tail(todo)
      /\ UNCHANGED <<file, pc, preExisting, snaps, original, faults>>
  BY DEF File!_run_statement, StepNo
<1> DEFINE stmts == File!MIGRATIONS[StepNo]
<1>3. PICK n \in 0 .. Len(stmts) : Ran(n)
  BY <1>1, <1>2 DEF InStep
<1>4. StepNo \in 1 .. 19 /\ (\A t \in File!Tables : file.cols[t] # {}) /\ StepNo' = StepNo
  BY <1>1, <1>2 DEF InStep, StepNo
<1>5. WellMade(stmts) /\ stmts \in Seq(Statements) /\ Len(stmts) \in Nat
  <2>1. WellMade(stmts)
    BY <1>4, MigrationsMade
  <2> QED
    BY <2>1 DEF WellMade
<1>6. /\ todo = SubSeq(stmts, n + 1, Len(stmts))
      /\ \A t \in File!Tables : file.cols[t] \subseteq txn.cols[t]
      /\ \A t \in File!Tables : \A i \in 1 .. n :
           stmts[i] \in {File!Add(t), <<"swap", t>>} => StepNo \in txn.cols[t]
      /\ \/ n >= 1 /\ stmts[n][1] = "copy" /\ StepNo \notin txn.cols[stmts[n][2]]
            /\ txn.rows = file.rows \union {"copy"}
         \/ /\ n >= 1 /\ stmts[n][1] = "copy" => StepNo \in txn.cols[stmts[n][2]]
            /\ txn.rows = file.rows
  BY <1>3 DEF Ran
<1> HIDE DEF stmts
<1> DEFINE st == stmts[n + 1]
<1>8. /\ n + 1 \in 1 .. Len(stmts) /\ st \in Statements /\ Head(todo) = st
      /\ Tail(todo) = SubSeq(stmts, (n + 1) + 1, Len(stmts))
  <2>1. n < Len(stmts)
    BY <1>2, <1>5, <1>6
  <2>2. n + 1 \in 1 .. Len(stmts)
    BY <1>5, <2>1
  <2>3. st \in Statements
    BY ONLY <1>5, <2>2
  <2>4. Head(todo) = st /\ Tail(todo) = SubSeq(stmts, (n + 1) + 1, Len(stmts))
    <3>1. Len(stmts) \in n + 1 .. Len(stmts)
      BY ONLY <1>5, <2>2
    <3>2. /\ Head(SubSeq(stmts, n + 1, Len(stmts))) = stmts[n + 1]
          /\ Tail(SubSeq(stmts, n + 1, Len(stmts))) = SubSeq(stmts, (n + 1) + 1, Len(stmts))
      BY ONLY <1>5, <2>2, <3>1, HeadTailOfSubSeq, Zenon
    <3> QED
      BY ONLY <1>6, <3>2
  <2> QED
    BY ONLY <2>2, <2>3, <2>4
<1>9. \A t \in File!Tables : st \in {File!Add(t), <<"swap", t>>} => StepNo \in File!Adds(t)
  BY <1>4, <1>8, ColumnFacts DEF stmts
<1> HIDE DEF st
<1>10. txn' = File!Run(st, StepNo) /\ todo' = SubSeq(stmts, (n + 1) + 1, Len(stmts))
  BY <1>2, <1>8
<1>11. /\ txn' \in FileRow(File!Tables \union {"copy"})
       /\ \A t \in File!Tables : txn.cols[t] \subseteq txn'.cols[t]
       /\ \A t \in File!Tables : txn'.cols[t] \subseteq File!Full(t)
       /\ \A t \in File!Tables : st \in {File!Add(t), <<"swap", t>>} => StepNo \in txn'.cols[t]
       /\ st[1] \notin {"copy", "swap"} => txn'.rows = txn.rows
       /\ st[1] \in {"copy", "swap"} /\ StepNo \in txn.cols[st[2]] => txn' = txn
       /\ st[1] = "copy" /\ StepNo \notin txn.cols[st[2]] =>
            txn'.rows = txn.rows \union {"copy"} /\ txn'.cols = txn.cols
       /\ st[1] = "swap" /\ StepNo \notin txn.cols[st[2]] /\ "copy" \in txn.rows =>
            txn'.rows = txn.rows \ {"copy"}
  <2>1. \A t \in File!Tables : txn.cols[t] \subseteq File!Full(t)
    BY <1>1 DEF Shaped
  <2> QED
    BY ONLY <1>1, <1>4, <1>8, <1>9, <1>10, <2>1, StatementFacts
<1>12. /\ st[1] = "copy" \/ st[1] = "swap" \/ st[1] \notin {"copy", "swap"}
       /\ n >= 1 /\ stmts[n][1] = "copy" => st = <<"swap", stmts[n][2]>>
       /\ st[1] = "swap" => n >= 1 /\ stmts[n] = <<"copy", st[2]>>
  <2>1. n >= 1 => n \in 1 .. Len(stmts)
    BY <1>5
  <2>2. n >= 1 /\ stmts[n][1] = "copy" => st = <<"swap", stmts[n][2]>>
    BY <1>5, <2>1 DEF WellMade, st
  <2>3. st[1] = "swap" => n + 1 > 1 /\ stmts[(n + 1) - 1] = <<"copy", st[2]>>
    BY <1>5, <1>8 DEF WellMade, st
  <2>4. (n + 1) - 1 = n /\ (n + 1 > 1 => n >= 1)
    BY <1>5
  <2> QED
    BY <2>2, <2>3, <2>4
<1>13. "copy" \notin file.rows
  BY <1>1, ColumnFacts DEF FileTypes, FileRow
<1>14. \/ /\ st[1] = "copy" /\ StepNo \notin txn'.cols[st[2]] /\ txn'.rows = file.rows \union {"copy"}
       \/ /\ st[1] = "copy" => StepNo \in txn'.cols[st[2]]
          /\ txn'.rows = file.rows
  <2>1. CASE st[1] = "copy"
    <3>1. txn.rows = file.rows
      BY <1>6, <1>12, <2>1
    <3> QED
      BY <1>11, <2>1, <3>1
  <2>2. CASE st[1] = "swap"
    <3>1. n >= 1 /\ stmts[n][1] = "copy" /\ stmts[n][2] = st[2]
      BY <1>12, <2>2
    <3>2. CASE StepNo \in txn.cols[st[2]]
      BY <1>6, <1>11, <2>2, <3>1, <3>2
    <3>3. CASE StepNo \notin txn.cols[st[2]]
      <4>1. txn.rows = file.rows \union {"copy"}
        BY <1>6, <3>1, <3>3
      <4>2. txn'.rows = txn.rows \ {"copy"}
        BY <1>11, <2>2, <3>3, <4>1
      <4>3. txn'.rows = file.rows
        BY ONLY <1>13, <4>1, <4>2
      <4> QED
        BY <2>2, <4>3
    <3> QED
      BY <3>2, <3>3
  <2>3. CASE st[1] \notin {"copy", "swap"}
    <3>1. txn.rows = file.rows
      BY <1>6, <1>12, <2>3
    <3> QED
      BY <1>11, <2>3, <3>1
  <2> QED
    BY <1>12, <2>1, <2>2, <2>3
<1>15. \A t \in File!Tables : \A i \in 1 .. n + 1 :
         stmts[i] \in {File!Add(t), <<"swap", t>>} => StepNo \in txn'.cols[t]
  <2> TAKE t \in File!Tables
  <2> TAKE i \in 1 .. n + 1
  <2>1. CASE i = n + 1
    BY <1>11, <2>1 DEF st
  <2>2. CASE i \in 1 .. n
    BY <1>6, <1>11, <2>2
  <2> QED
    BY <2>1, <2>2
<1>16. Ran(n + 1)'
  <2>1. n + 1 >= 1 /\ st = stmts[n + 1]
    BY DEF st
  <2>2. \A t \in File!Tables : file.cols[t] \subseteq txn'.cols[t]
    BY <1>6, <1>11
  <2>3. stmts = File!MIGRATIONS[StepNo'] /\ file' = file
    BY <1>2, <1>4 DEF stmts
  <2> QED
    BY ONLY <1>4, <1>10, <1>14, <1>15, <2>1, <2>2, <2>3 DEF Ran
<1>17. FileTypes'
  BY ONLY <1>1, <1>2, <1>11 DEF FileTypes
<1>18. Shaped'
  BY ONLY <1>1, <1>2, <1>11 DEF Shaped, File!VersionIsTrue
<1>19. Opening'
  BY ONLY <1>1, <1>2 DEF Opening
<1>20. Revocable'
  BY ONLY <1>1, <1>2 DEF Revocable, Copied, File!SameTables
<1>21. InStep'
  <2>1. stmts = File!MIGRATIONS[StepNo'] /\ n + 1 \in 0 .. Len(stmts)
    BY <1>4, <1>8 DEF stmts
  <2> QED
    BY ONLY <1>2, <1>4, <1>16, <2>1 DEF InStep
<1> QED
  BY ONLY <1>17, <1>18, <1>19, <1>20, <1>21 DEF FileInv

(* A step is committed together with its version, and the next begins.     *)
LEMMA CommitStep == ASSUME FileInv, File!_run_step PROVE FileInv'
<1>1. FileTypes /\ Shaped /\ Opening /\ Revocable /\ InStep
  BY DEF FileInv
<1>2. /\ pc = "step" /\ todo = <<>> /\ file' = [txn EXCEPT !.version = StepNo]
      /\ \/ file'.version = 19 /\ pc' = "open" /\ UNCHANGED <<txn, todo>>
         \/ file'.version # 19 /\ txn' = file' /\ todo' = File!MIGRATIONS[file'.version + 1] /\ UNCHANGED pc
      /\ UNCHANGED <<preExisting, snaps, original, faults>>
  BY DEF File!_run_step, StepNo, File!SCHEMA_VERSION
<1> DEFINE stmts == File!MIGRATIONS[StepNo]
<1>3. PICK n \in 0 .. Len(stmts) : Ran(n)
  BY <1>1, <1>2 DEF InStep
<1>4. StepNo \in 1 .. 19 /\ StepNo = file.version + 1 /\ file.version \in 0 .. 18 /\ \A t \in File!Tables : file.cols[t] # {}
  <2>1. StepNo \in 1 .. 19 /\ StepNo = file.version + 1 /\ \A t \in File!Tables : file.cols[t] # {}
    BY <1>1, <1>2 DEF InStep, StepNo
  <2>2. file.version \in 0 .. 20
    BY <1>1 DEF FileTypes, FileRow
  <2>3. \A v \in 0 .. 20 : v + 1 \in 1 .. 19 => v \in 0 .. 18
    OBVIOUS
  <2>4. file.version \in 0 .. 18
    BY <2>1, <2>2, <2>3
  <2> QED
    BY <2>1, <2>4
<1>5. WellMade(stmts) /\ stmts \in Seq(Statements) /\ Len(stmts) \in Nat
  <2>1. WellMade(stmts)
    BY <1>4, MigrationsMade
  <2> QED
    BY <2>1 DEF WellMade
<1>6. /\ todo = SubSeq(stmts, n + 1, Len(stmts))
      /\ \A t \in File!Tables : file.cols[t] \subseteq txn.cols[t]
      /\ \A t \in File!Tables : \A i \in 1 .. n :
           stmts[i] \in {File!Add(t), <<"swap", t>>} => StepNo \in txn.cols[t]
      /\ \/ n >= 1 /\ stmts[n][1] = "copy" /\ StepNo \notin txn.cols[stmts[n][2]]
            /\ txn.rows = file.rows \union {"copy"}
         \/ txn.rows = file.rows
  BY <1>3 DEF Ran
<1>7. \A t \in File!Tables : StepNo \in File!Adds(t) =>
         \E i \in 1 .. Len(stmts) : stmts[i] \in {File!Add(t), <<"swap", t>>}
  BY <1>4, ColumnFacts
<1> HIDE DEF stmts
<1>8. n = Len(stmts)
  <2>1. n \in 0 .. Len(stmts)
    BY DEF stmts
  <2> SUFFICES ASSUME n < Len(stmts) PROVE FALSE
    BY <1>5, <2>1
  <2>2. Len(SubSeq(stmts, n + 1, Len(stmts))) = (Len(stmts) - (n + 1)) + 1
    BY ONLY <1>5, <2>1, n < Len(stmts)
  <2>3. Len(SubSeq(stmts, n + 1, Len(stmts))) = 0
    <3>1. SubSeq(stmts, n + 1, Len(stmts)) = <<>>
      BY <1>2, <1>6, Zenon
    <3> QED
      BY ONLY <3>1
  <2> QED
    BY ONLY <1>5, <2>1, <2>2, <2>3, n < Len(stmts)
<1>9. txn.rows = file.rows
  <2>1. n >= 1 => stmts[n][1] # "copy"
    BY <1>5, <1>8 DEF WellMade
  <2> QED
    BY <1>6, <2>1
<1>10. \A t \in File!Tables : StepNo \in File!Adds(t) => StepNo \in txn.cols[t]
  BY <1>6, <1>7, <1>8
<1>11. /\ file' \in FileRow(File!Tables) /\ file'.version = StepNo /\ file'.cols = txn.cols /\ file'.rows = file.rows
  <2>1. txn \in FileRow(File!Tables \union {"copy"}) /\ txn.rows \in SUBSET File!Tables
    BY <1>1, <1>9 DEF FileTypes, FileRow
  <2>2. file' = [txn EXCEPT !.version = StepNo] /\ StepNo \in 0 .. 20
    BY <1>2, <1>4
  <2> QED
    BY ONLY <1>9, <2>1, <2>2 DEF FileRow
<1>12. \A t \in File!Tables : file'.cols[t] # {} /\ 0 \in file'.cols[t] /\ file'.cols[t] \subseteq File!Full(t)
  BY <1>1, <1>4, <1>6, <1>11 DEF Shaped
<1>13. File!VersionIsTrue'
  <2>1. ASSUME NEW t \in File!Tables, NEW k \in File!Adds(t), k <= StepNo
        PROVE  k \in file'.cols[t]
    <3>1. k \in 1 .. 19
      BY ColumnFacts
    <3>2. CASE k = StepNo
      BY <1>10, <1>11, <3>2
    <3>3. CASE k <= file.version
      BY <1>1, <1>4, <1>6, <1>11, <3>3 DEF Shaped, File!VersionIsTrue
    <3>4. k = StepNo \/ k <= file.version
      <4>1. \A x \in 1 .. 19 : \A v \in 0 .. 18 : x <= v + 1 => x = v + 1 \/ x <= v
        OBVIOUS
      <4> QED
        BY <1>4, <2>1, <3>1, <4>1
    <3> QED
      BY ONLY <3>2, <3>3, <3>4
  <2> QED
    BY ONLY <1>11, <2>1 DEF File!VersionIsTrue
<1>14. pc' \in {"open", "step"} /\ txn' \in FileRow(File!Tables \union {"copy"}) /\ txn'.cols \in {file'.cols, txn.cols}
  <2>1. file' \in FileRow(File!Tables \union {"copy"})
    BY <1>11 DEF FileRow
  <2>2. txn \in FileRow(File!Tables \union {"copy"})
    BY <1>1 DEF FileTypes
  <2> QED
    BY <1>2, <2>1, <2>2
<1>15. FileTypes'
  BY ONLY <1>1, <1>2, <1>11, <1>14 DEF FileTypes
<1>16. Shaped'
  <2>1. \A t \in File!Tables : txn'.cols[t] \subseteq File!Full(t)
    BY <1>1, <1>12, <1>14 DEF Shaped
  <2>2. original' = original /\ file'.rows = original.rows /\ original.rows \subseteq File!Tables
    BY <1>1, <1>2, <1>11 DEF Shaped, FileTypes, FileRow
  <2> QED
    BY ONLY <1>12, <1>13, <2>1, <2>2 DEF Shaped
<1>17. Opening'
  <2>1. file'.version <= 19 /\ file'.cols["devices"] # {}
    <3>1. "devices" \in File!Tables
      BY ColumnFacts
    <3>2. file'.version <= 19
      <4>1. \A x \in 1 .. 19 : x <= 19
        OBVIOUS
      <4> QED
        BY <1>4, <1>11, <4>1
    <3> QED
      BY ONLY <1>12, <3>1, <3>2
  <2>2. pc' = "open" => file'.version = 19
    BY <1>2
  <2> QED
    BY ONLY <1>12, <1>14, <2>1, <2>2 DEF Opening
<1>18. Revocable'
  <2>1. original.rows # {} => Copied
    BY <1>1, <1>2, <1>4 DEF Revocable
  <2>2. Copied => Copied'
    BY <1>2 DEF Copied, File!SameTables
  <2>3. original.version \in 0 .. 20 /\ original.version <= file.version
    BY <1>1 DEF Revocable, FileTypes, FileRow
  <2>4. file'.version > original'.version
    <3>1. file'.version = file.version + 1 /\ original' = original
      BY <1>2, <1>4, <1>11
    <3> QED
      <4>1. \A x \in 0 .. 20 : \A v \in 0 .. 18 : x <= v => v + 1 > x
        OBVIOUS
      <4> QED
        BY <1>4, <2>3, <3>1, <4>1
  <2>5. original'.version \in 0 .. 20 /\ file'.version \in 0 .. 20 /\ original' = original
    BY <1>2, <1>4, <1>11, <2>3
  <2>6. file'.version >= original'.version /\ file'.version # original'.version
    <3>1. \A x, y \in 0 .. 20 : x > y => x >= y /\ x # y
      OBVIOUS
    <3> QED
      BY <2>4, <2>5, <3>1
  <2>7. original'.rows # {} => Copied'
    BY ONLY <2>1, <2>2, <2>5
  <2> QED
    BY ONLY <2>6, <2>7 DEF Revocable
<1>19. InStep'
  <2> SUFFICES ASSUME pc' = "step" PROVE InStep'
    BY DEF InStep
  <2>1. file'.version # 19 /\ txn' = file' /\ todo' = File!MIGRATIONS[file'.version + 1]
    BY <1>2
  <2>2. file'.version + 1 \in 1 .. 19 /\ StepNo' = file'.version + 1
    <3>1. \A x \in 1 .. 19 : x # 19 => x + 1 \in 1 .. 19
      OBVIOUS
    <3>2. file'.version + 1 \in 1 .. 19
      BY ONLY <1>4, <1>11, <2>1, <3>1
    <3> QED
      BY <3>2 DEF StepNo
  <2>3. \E m \in 0 .. Len(File!MIGRATIONS[StepNo']) : Ran(m)'
    BY ONLY <2>1, <2>2, StepBegins
  <2> QED
    BY ONLY <1>12, <2>2, <2>3 DEF InStep
<1> QED
  BY ONLY <1>15, <1>16, <1>17, <1>18, <1>19 DEF FileInv

(* Every step of a start keeps the invariant.                              *)
LEMMA FileStep == FileInv /\ [File!Next]_(File!schemaVars) => FileInv'
<1> SUFFICES ASSUME FileInv, [File!Next]_(File!schemaVars) PROVE FileInv'
  OBVIOUS
<1>1. FileTypes
  BY DEF FileInv
<1>2. CASE File!start
  BY <1>2, LookStep
<1>3. CASE File!_snapshot_before_migration
  BY <1>3, SnapshotStep
<1>4. CASE File!create_missing
  BY <1>4, CreateStep
<1>5. CASE File!_migrate
  BY <1>5, MigrateStep
<1>6. CASE File!_run_statement
  BY <1>6, RunStep
<1>7. CASE File!_run_step
  BY <1>7, CommitStep
<1>8. CASE File!fault
  <2>1. /\ pc \in {"snapshot", "schema", "step"} /\ faults < MaxFaults /\ faults' = faults + 1
        /\ File!Closed /\ UNCHANGED <<file, preExisting, snaps, original>>
    BY <1>8 DEF File!fault
  <2>2. faults' \in 0 .. MaxFaults
    BY <1>1, <2>1, FileAssumption DEF FileTypes
  <2> QED
    BY <2>1, <2>2, ClosedStep
<1>9. CASE UNCHANGED File!schemaVars
  <2>1. UNCHANGED <<file, txn, pc, todo, preExisting, snaps, original, faults>>
    BY <1>9 DEF File!schemaVars
  <2>2. FileTypes' /\ Shaped' /\ Opening' /\ Revocable'
    BY <2>1 DEF FileInv, FileTypes, Shaped, Opening, Revocable, Copied, File!SameTables, File!VersionIsTrue
  <2>3. StepNo' = StepNo /\ \A n : Ran(n)' <=> Ran(n)
    BY <2>1 DEF StepNo, Ran
  <2>4. InStep'
    BY <2>1, <2>3 DEF FileInv, InStep
  <2> QED
    BY <2>2, <2>4 DEF FileInv
<1> QED
  BY <1>2, <1>3, <1>4, <1>5, <1>6, <1>7, <1>8, <1>9 DEF File!Next, File!Working

(* db.py: the invariant of the opening, for any number of interruptions.   *)
THEOREM FileInvariance == File!Spec => []FileInv
<1>1. File!Init => FileInv
  BY FileStart
<1>2. FileInv /\ [File!Next]_(File!schemaVars) => FileInv'
  BY FileStep
<1> QED
  BY <1>1, <1>2, PTL DEF File!Spec

(* db.py Database.__init__: a table never gets a column SCHEMA does not    *)
(* know, and the version stays in its range.                               *)
THEOREM FileTypeCorrect == File!Spec => []File!TypeOK
<1>1. FileInv => File!TypeOK
  <2> SUFFICES ASSUME FileInv PROVE File!TypeOK
    OBVIOUS
  <2>1. FileTypes /\ Shaped /\ Opening /\ Revocable
    BY DEF FileInv
  <2>2. file.version \in 0 .. 19 \/ file = original
    <3>1. file.version \in 0 .. 20
      BY <2>1 DEF FileTypes, FileRow
    <3> QED
      BY <2>1, <3>1 DEF Opening
  <2>3. file.rows \subseteq File!Tables
    BY <2>1 DEF FileTypes, FileRow
  <2> QED
    BY <2>1, <2>2, <2>3 DEF File!TypeOK, FileTypes, Shaped, File!SCHEMA_VERSION
<1> QED
  BY <1>1, FileInvariance, PTL

(* db.py _migrate, _run_step, _snapshot_before_migration: however often    *)
(* the opening of a file of any version is interrupted, an open database   *)
(* has the current shape, the version is never ahead of the shape, no      *)
(* rows are lost, and a changed file can be taken back.                    *)
THEOREM FileIsSound ==
  File!Spec => [](File!OpenIsCurrent /\ File!VersionIsTrue /\ File!RowsKept /\ File!WayBack)
<1> DEFINE Kept == File!OpenIsCurrent /\ File!VersionIsTrue /\ File!RowsKept /\ File!WayBack
<1>1. FileInv => Kept
  <2> SUFFICES ASSUME FileInv PROVE Kept
    OBVIOUS
  <2>1. FileTypes /\ Shaped /\ Opening /\ Revocable
    BY DEF FileInv
  <2>2. File!VersionIsTrue /\ File!RowsKept
    BY <2>1 DEF Shaped, File!RowsKept
  <2>3. File!OpenIsCurrent
    <3> SUFFICES ASSUME pc = "open" PROVE file.version = 19 /\ \A t \in File!Tables : file.cols[t] = File!Full(t)
      BY DEF File!OpenIsCurrent, File!SCHEMA_VERSION
    <3>1. file.version = 19 /\ \A t \in File!Tables : file.cols[t] # {}
      BY <2>1 DEF Opening
    <3>2. ASSUME NEW t \in File!Tables PROVE file.cols[t] = File!Full(t)
      <4>1. file.cols[t] \subseteq File!Full(t) /\ 0 \in file.cols[t]
        BY <2>1, <3>1 DEF Shaped
      <4>2. File!Full(t) = {0} \union File!Adds(t) /\ \A k \in File!Adds(t) : k <= 19
        <5>1. File!Full(t) = {0} \union File!Adds(t) /\ File!Adds(t) \subseteq 1 .. 19
          BY ColumnFacts
        <5> QED
          BY ONLY <5>1
      <4>3. \A k \in File!Adds(t) : k \in file.cols[t]
        BY <2>2, <3>1, <4>2 DEF File!VersionIsTrue
      <4> QED
        BY <4>1, <4>2, <4>3
    <3> QED
      BY <3>1, <3>2
  <2>4. File!WayBack
    <3>1. original.rows # {} /\ (~File!SameTables(file) \/ file.version # original.version) => Copied
      BY <2>1 DEF Revocable
    <3>2. Copied => \E v \in DOMAIN snaps : snaps[v].version = original.version /\ File!SameTables(snaps[v])
      BY <2>1 DEF Copied, FileTypes
    <3> QED
      BY <3>1, <3>2 DEF File!WayBack
  <2> QED
    BY <2>2, <2>3, <2>4
<1> QED
  BY <1>1, FileInvariance, PTL

-----------------------------------------------------------------------------
(* The parts together                                                      *)

(* A behaviour of the four is one of each: only one of them moves, and     *)
(* the others stand still.                                                 *)
LEMMA Parted == HubSpec => Spec /\ Alert!Spec /\ File!Spec /\ Dlvr!Spec
<1>1. HubInit => InitRestore /\ Alert!Init /\ File!Init /\ Dlvr!Init
  BY DEF HubInit
<1>2. ASSUME [HubNext]_hubVars
      PROVE  /\ [Next]_restoreVars /\ [Alert!Next]_(Alert!vars)
             /\ [File!Next]_(File!schemaVars) /\ [Dlvr!Next]_(Dlvr!delVars)
  <2>1. /\ UNCHANGED alertVars => UNCHANGED Alert!vars
        /\ UNCHANGED fileVars => UNCHANGED File!schemaVars
        /\ UNCHANGED dlvrVars => UNCHANGED Dlvr!delVars
    BY DEF alertVars, fileVars, dlvrVars, Alert!vars, Alert!dbVars, Alert!taskVars, Alert!counters,
           File!schemaVars, Dlvr!delVars
  <2>2. UNCHANGED hubVars => UNCHANGED <<restoreVars, alertVars, fileVars, dlvrVars>>
    BY DEF hubVars
  <2> QED
    BY <1>2, <2>1, <2>2 DEF HubNext
<1> QED
  BY <1>1, <1>2, PTL DEF HubSpec, Spec, Alert!Spec, File!Spec, Dlvr!Spec

(* gateway.py, alerts.py, db.py: every part keeps its types, whichever of  *)
(* them moves.                                                             *)
THEOREM HubTypesKept == ASSUME Apart PROVE HubSpec => []HubTypeOK
<1>1. TypeOK /\ Alert!TypeOK /\ File!TypeOK /\ Dlvr!TypeOK => HubTypeOK
  BY DEF HubTypeOK
<1> QED
  BY <1>1, Parted, RegistryTypeCorrect, AlertTypeCorrect, FileTypeCorrect, DeliveryTypeCorrect, PTL

(* db.py _migrate, _run_step: the file is sound at every moment of every   *)
(* start, for any number of interruptions.                                 *)
THEOREM HubFileIsSound == HubSpec => []FileSound
<1>1. File!OpenIsCurrent /\ File!VersionIsTrue /\ File!RowsKept /\ File!WayBack => FileSound
  BY DEF FileSound
<1> QED
  BY <1>1, Parted, FileIsSound, PTL

(* alerts.py, gateway.py, restore.py, db.py: what the alerts, the registry *)
(* with the restore and the delivery reports promise holds of the hub that *)
(* is made of them.                                                        *)
THEOREM HubIsSafe == ASSUME Apart PROVE HubSpec => [](AlertsTrue /\ SessionsTrue /\ ReportsTrue)
BY Parted, AlertsAreTrue, SessionsAreTrue, ReportsAreTrue, PTL

(* gateway.py _ingest, db.py _terminal_delivery_state: neither a retired   *)
(* gateway nor a late report takes back what the database has.             *)
THEOREM HubNeverStepsBack == ASSUME Apart PROVE HubSpec => NoStepBack
BY Parted, RetiredSessionsAreSilent, DeliveredStays, PTL DEF NoStepBack
=============================================================================
