------------------------------ MODULE Registry ------------------------------
(***************************************************************************)
(* The hub's registry of agent sessions (gateway.py: serve, _register,     *)
(* _unregister, _ingest, call) with the database's single writer thread    *)
(* (db.py run).  A session reserves its agent id before it yields, and     *)
(* every write it makes is queued behind the writes of everybody else, so  *)
(* the loop goes on between a check and the write it was made for.         *)
(*                                                                         *)
(* A socket is one session: its number is the generation gateway.py hands  *)
(* out once and never reuses.  A browser request may write a row or call a *)
(* connected agent; its number stands for the cmd_id too.  Which gateway   *)
(* object serves is the pair (gw, retiring): Restore.tla retires and       *)
(* replaces it.                                                            *)
(***************************************************************************)
EXTENDS Naturals, Sequences, FiniteSets

CONSTANTS Agents,     \* agent ids
          Sockets,    \* agent sessions, each opened once
          Requests,   \* browser requests, each made once
          Items,      \* events of the agents' durable streams
          None

ASSUME RegistryAssumption == None \notin Sockets

VARIABLES sess,       \* socket -> where its serve() stands, its agent and event
          conns,      \* gateway.connections: agent -> socket
          ready,      \* the sockets whose AgentConnection.ready is set
          gw,         \* the number of the gateway object now serving
          retiring,   \* its retiring_for_restore
          maintenance,\* its maintenance
          pending,    \* gateway._pending: request -> the socket that owes it
          req,        \* request -> where its handler stands
          writer,     \* what is queued for the database's writer thread
          db,         \* agents.connected, and the rows written so far
          owed        \* what was acknowledged or answered: it must be kept

registryVars == <<sess, conns, ready, gw, retiring, maintenance, pending, req,
                  writer, db, owed>>

SessionAt == {"none", "hello", "registering", "persisted", "serving",
              "applying", "applied", "leaving", "left", "gone"}
RequestAt == {"none", "running", "calling", "writing", "written", "done"}

InitRegistry ==
    /\ sess = [s \in Sockets |-> [at |-> "none", agent |-> None, item |-> None, gw |-> 0]]
    /\ conns = [a \in Agents |-> None]
    /\ ready = {}
    /\ gw = 1 /\ retiring = FALSE /\ maintenance = FALSE
    /\ pending = [r \in Requests |-> None]
    /\ req = [r \in Requests |-> "none"]
    /\ writer = <<>>
    /\ db = [connected |-> {}, rows |-> {}, backup |-> 0]
    /\ owed = {}

gatewayVars == <<gw, retiring, maintenance>>

(* A session is bound to the gateway object that accepted it.              *)
Retired(s) == sess[s].gw # gw \/ retiring

Holds(s) == sess[s].gw = gw /\ conns[sess[s].agent] = s

At(s, place) == sess' = [sess EXCEPT ![s].at = place]

Queue(kind, x) == writer' = Append(writer, <<kind, x>>)

NextWrite(kind) == writer # <<>> /\ Head(writer)[1] = kind
Writing == Head(writer)[2]

-----------------------------------------------------------------------------
(* Sessions *)

(* serve: accepted and authenticated, waiting for the hello.               *)
serve(s) ==
    /\ sess[s].at = "none" /\ ~maintenance
    /\ sess' = [sess EXCEPT ![s].at = "hello", ![s].gw = gw]
    /\ UNCHANGED <<conns, ready, gatewayVars, pending, req, writer, db, owed>>

MayHold(a) == conns[a] = None

(* Mutant: a hello that lost the id cleans up by the id it asked for.      *)
hello_evicts(s, a) ==
    /\ sess[s].at = "hello"
    /\ conns' = [conns EXCEPT ![a] = s]
    /\ IF ~Retired(s) /\ ~maintenance /\ MayHold(a)
       THEN /\ sess' = [sess EXCEPT ![s].at = "registering", ![s].agent = a]
            /\ Queue("register", s)
       ELSE /\ sess' = [sess EXCEPT ![s].at = "leaving", ![s].agent = a]
            /\ Queue("disconnect", s)
    /\ UNCHANGED <<ready, gatewayVars, pending, req, db, owed>>

(* serve/_register: a hello for an id that is held, or that comes during a *)
(* restore, closes the session; otherwise the id is reserved at once and   *)
(* the registration is queued.                                             *)
hello(s, a) ==
    /\ sess[s].at = "hello"
    /\ IF ~Retired(s) /\ ~maintenance /\ MayHold(a)
       THEN /\ sess' = [sess EXCEPT ![s].at = "registering", ![s].agent = a]
            /\ conns' = [conns EXCEPT ![a] = s]
            /\ Queue("register", s)
       ELSE /\ At(s, "gone")
            /\ UNCHANGED <<conns, writer>>
    /\ UNCHANGED <<ready, gatewayVars, pending, req, db, owed>>

(* _persist_registration, on the writer thread.                            *)
persist_registration ==
    /\ NextWrite("register")
    /\ LET s == Writing IN
         /\ db' = IF Retired(s) THEN db
                  ELSE [db EXCEPT !.connected = @ \union {sess[s].agent}]
         /\ At(s, "persisted")
    /\ writer' = Tail(writer)
    /\ UNCHANGED <<conns, ready, gatewayVars, pending, req, owed>>

(* _abandon_pending: the calls of this session fail with an unknown result.*)
_abandon_pending(gone) ==
    /\ pending' = [r \in Requests |-> IF pending[r] \in gone THEN None ELSE pending[r]]
    /\ req' = [r \in Requests |->
                 IF pending[r] \in gone THEN "running" ELSE req[r]]

(* _unregister, up to its write: a retired gateway leaves the database     *)
(* alone; otherwise the reservation is kept until the write is done.       *)
_unregister(s) ==
    /\ ready' = ready \ {s}
    /\ _abandon_pending({s})
    /\ IF Retired(s) \/ ~Holds(s)
       THEN At(s, "gone") /\ UNCHANGED <<conns, writer>>
       ELSE At(s, "leaving") /\ Queue("disconnect", s) /\ UNCHANGED conns

(* _register after its write: a restore that began meanwhile refuses it.   *)
registered(s) ==
    /\ sess[s].at = "persisted"
    /\ IF Retired(s)
       THEN _unregister(s)
       ELSE At(s, "serving") /\ ready' = ready \union {s}
            /\ UNCHANGED <<conns, pending, req, writer>>
    /\ UNCHANGED <<gatewayVars, db, owed>>

(* serve: the peer goes, breaks the protocol, says hello twice, or the     *)
(* restore closed the socket.                                              *)
ends(s) ==
    \/ /\ sess[s].at = "hello" /\ At(s, "gone")
       /\ UNCHANGED <<conns, ready, gatewayVars, pending, req, writer, db, owed>>
    \/ /\ sess[s].at = "serving" /\ _unregister(s)
       /\ UNCHANGED <<gatewayVars, db, owed>>

(* _persist_disconnect, on the writer thread: check and write are one.     *)
persist_disconnect ==
    /\ NextWrite("disconnect")
    /\ LET s == Writing IN
         /\ db' = IF Retired(s) THEN db
                  ELSE [db EXCEPT !.connected = @ \ {sess[s].agent}]
         /\ At(s, "left")
    /\ writer' = Tail(writer)
    /\ UNCHANGED <<conns, ready, gatewayVars, pending, req, owed>>

(* _unregister after its write: the id is free again.                      *)
released(s) ==
    /\ sess[s].at = "left"
    /\ At(s, "gone")
    /\ conns' = IF Holds(s) THEN [conns EXCEPT ![sess[s].agent] = None] ELSE conns
    /\ UNCHANGED <<ready, gatewayVars, pending, req, writer, db, owed>>

(* Mutant: the retirement of the gateway is not looked at.                 *)
Accepts_any(s) == TRUE

(* _ingest: a frame of a session that is not (or no longer) ready is       *)
(* dropped.  The agent sends what was never acknowledged.                  *)
Accepts(s) == ~Retired(s) /\ s \in ready

_ingest(s, i) ==
    /\ sess[s].at = "serving" /\ Accepts(s)
    /\ i \notin owed
    /\ sess' = [sess EXCEPT ![s].at = "applying", ![s].item = i]
    /\ Queue("event", s)
    /\ UNCHANGED <<conns, ready, gatewayVars, pending, req, db, owed>>

(* apply_event, on the writer thread: the row is there once however often  *)
(* it comes.                                                               *)
apply_event ==
    /\ NextWrite("event")
    /\ db' = [db EXCEPT !.rows = @ \union {sess[Writing].item}]
    /\ At(Writing, "applied")
    /\ writer' = Tail(writer)
    /\ UNCHANGED <<conns, ready, gatewayVars, pending, req, owed>>

(* _resolve_command: only the session a command was sent on completes it.  *)
Owes(s) == {r \in Requests : pending[r] = s}

(* _ingest after its write: hooks, the waiting call, then the ack, none of *)
(* which happens when the gateway was retired meanwhile.                   *)
acknowledge(s) ==
    /\ sess[s].at = "applied"
    /\ At(s, "serving")
    /\ IF ~Accepts(s) THEN UNCHANGED <<pending, req, owed>>
       ELSE /\ owed' = owed \union {sess[s].item}
            /\ \/ UNCHANGED <<pending, req>>
               \/ \E r \in Owes(s) :
                    /\ pending' = [pending EXCEPT ![r] = None]
                    /\ req' = [req EXCEPT ![r] = "running"]
    /\ UNCHANGED <<conns, ready, gatewayVars, writer, db>>

-----------------------------------------------------------------------------
(* Browser requests *)

(* RestoreMiddleware lets it in, and counts it.                            *)
request(r) ==
    /\ req[r] = "none"
    /\ req' = [req EXCEPT ![r] = "running"]
    /\ UNCHANGED <<sess, conns, ready, gatewayVars, pending, writer, db, owed>>

(* call: the frame goes to the session registered now, if it is ready.     *)
call(r, a) ==
    /\ req[r] = "running" /\ ~maintenance
    /\ conns[a] \in ready
    /\ pending' = [pending EXCEPT ![r] = conns[a]]
    /\ req' = [req EXCEPT ![r] = "calling"]
    /\ UNCHANGED <<sess, conns, ready, gatewayVars, writer, db, owed>>

(* call: no answer within its timeout.                                     *)
call_timeout(r) ==
    /\ req[r] = "calling"
    /\ pending' = [pending EXCEPT ![r] = None]
    /\ req' = [req EXCEPT ![r] = "running"]
    /\ UNCHANGED <<sess, conns, ready, gatewayVars, writer, db, owed>>

(* A handler writes through the same writer thread.                        *)
write(r) ==
    /\ req[r] = "running"
    /\ req' = [req EXCEPT ![r] = "writing"]
    /\ Queue("row", r)
    /\ UNCHANGED <<sess, conns, ready, gatewayVars, pending, db, owed>>

commit_row ==
    /\ NextWrite("row")
    /\ db' = [db EXCEPT !.rows = @ \union {Writing}]
    /\ req' = [req EXCEPT ![Writing] = "written"]
    /\ writer' = Tail(writer)
    /\ UNCHANGED <<sess, conns, ready, gatewayVars, pending, owed>>

(* The response: what was written is promised to the browser.              *)
respond(r) ==
    /\ req[r] \in {"running", "written"}
    /\ req' = [req EXCEPT ![r] = "done"]
    /\ owed' = IF req[r] = "written" THEN owed \union {r} ELSE owed
    /\ UNCHANGED <<sess, conns, ready, gatewayVars, pending, writer, db>>

WriterNext == persist_registration \/ persist_disconnect \/ apply_event \/ commit_row

SessionNext ==
    \E s \in Sockets :
        \/ \E a \in Agents : hello(s, a)
        \/ registered(s) \/ ends(s) \/ released(s) \/ acknowledge(s)
        \/ \E i \in Items : _ingest(s, i)

RequestNext ==
    \E r \in Requests :
        \/ \E a \in Agents : call(r, a)
        \/ call_timeout(r) \/ write(r) \/ respond(r)
=============================================================================
