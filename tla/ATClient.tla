------------------------------ MODULE ATClient ------------------------------
(***************************************************************************)
(* The AT command client of one port (at/client.py): commands one at a     *)
(* time under a lock, response lines, unsolicited result codes (URCs) and  *)
(* the loss of the port.                                                   *)
(*                                                                         *)
(* The wire holds the lines the module has written and the client has not  *)
(* processed.  A line is one step of _handle_line; the coroutine that      *)
(* waits for a final line is resumed by the event loop in a step of its    *)
(* own, so that lines of the same read may be handled before it, as when   *)
(* several lines arrive in one chunk.  A line is known by its kind and by  *)
(* the command or URC it stems from; its text is left out.                 *)
(***************************************************************************)
EXTENDS Integers, Sequences

CONSTANTS
    Calls,      \* calls of execute, each with a command of its own
    Prompted,   \* calls with expect_prompt: AT+CMGS
    Shared,     \* calls whose response prefix is registered as a URC: AT+CEREG?
    Urcs,       \* one-line URCs: +CMTI
    Splits,     \* URCs with payload_lines = 1: +CDS, +CMT
    MaxTimeouts \* bound: commands the client stops waiting for

VARIABLES
    call,      \* where each coroutine stands
    waiting,   \* coroutines waiting for the lock, oldest first
    pending,   \* _pending: the call in flight and what it has got, or NoPending
    capture,   \* _urc_capture: the URC whose payload is expected, or NoUrc
    port,      \* open, lost (the transport died) or closed by the agent
    wire,      \* lines on their way to the client
    modem,     \* commands the module has read, each with what is left to write
    toReport,  \* URCs the module will still write
    got,       \* history: lines and final line each finished call was given
    dispatched,\* history: URCs handed to their handlers
    order,     \* history: calls in the order their commands were written
    timeouts   \* history: commands the client stopped waiting for too early

atVars == <<call, waiting, pending, capture, port, wire, modem, toReport, got,
            dispatched, order, timeouts>>

NoUrc == "no urc"
NoPending == [call |-> "none", lines |-> {}, prompt |-> FALSE, final |-> "none", of |-> "none"]
Line(kind, of) == [kind |-> kind, of |-> of]

\* What the module writes for a command; "body" stands for reading the body.
Script(c) == IF c \in Prompted THEN <<"prompt", "body", "info", "final">> ELSE <<"info", "final">>

TypeOK ==
    /\ call \in [Calls -> {"new", "lock", "prompt", "wait", "ok", "error", "timeout", "lost", "closed"}]
    /\ waiting \in Seq(Calls)
    /\ pending # NoPending => pending.call \in Calls /\ call[pending.call] \in {"prompt", "wait"}
    /\ \A c \in Calls : call[c] \in {"prompt", "wait"} => pending.call = c
    /\ \A c \in Calls : call[c] = "lock" <=> \E n \in DOMAIN waiting : waiting[n] = c
    /\ capture \in Splits \cup {NoUrc}
    /\ port \in {"open", "lost", "closed"}
    /\ timeouts \in 0 .. MaxTimeouts

Init ==
    /\ call = [c \in Calls |-> "new"] /\ waiting = <<>>
    /\ pending = NoPending /\ capture = NoUrc
    /\ port = "open"
    /\ wire = <<>> /\ modem = <<>> /\ toReport = Urcs \cup Splits \cup Shared
    /\ got = [c \in Calls |-> [lines |-> {}, of |-> "none"]]
    /\ dispatched = {} /\ order = <<>> /\ timeouts = 0

----------------------------------------------------------------------------
(* execute *)

execute(c) ==
    /\ call[c] = "new"
    /\ IF port # "open" THEN call' = [call EXCEPT ![c] = "closed"] /\ UNCHANGED waiting
       ELSE call' = [call EXCEPT ![c] = "lock"] /\ waiting' = Append(waiting, c)
    /\ UNCHANGED <<pending, capture, port, wire, modem, toReport, got, dispatched, order, timeouts>>

LockFree == pending = NoPending

Ends(c, how) ==
    /\ call' = [call EXCEPT ![c] = how]
    /\ got' = [got EXCEPT ![c] = [lines |-> pending.lines, of |-> pending.of]]
    /\ pending' = NoPending
    /\ capture' = NoUrc

\* The lock is taken, and the command is written or the write fails; the
\* closed flag is not read again.
start ==
    /\ waiting # <<>> /\ LockFree
    /\ LET c == Head(waiting)
       IN  /\ waiting' = Tail(waiting)
           /\ IF port = "open"
              THEN /\ call' = [call EXCEPT ![c] = IF c \in Prompted THEN "prompt" ELSE "wait"]
                   /\ order' = Append(order, c)
                   /\ pending' = [NoPending EXCEPT !.call = c]
                   /\ modem' = Append(modem, [call |-> c, left |-> Script(c)])
              ELSE /\ call' = [call EXCEPT ![c] = "closed"]
                   /\ UNCHANGED <<pending, modem, order>>
    /\ UNCHANGED <<capture, port, wire, toReport, got, dispatched, timeouts>>

\* The prompt was seen: the body is written, or the write fails.
write_payload ==
    /\ pending # NoPending /\ call[pending.call] = "prompt" /\ pending.prompt
    /\ \/ /\ port = "open"
          /\ call' = [call EXCEPT ![pending.call] = "wait"]
          /\ modem' = IF modem # <<>> /\ Head(Head(modem).left) = "body"
                      THEN <<[Head(modem) EXCEPT !.left = Tail(@)]>> \o Tail(modem)
                      ELSE modem
          /\ UNCHANGED <<pending, capture, got>>
       \/ port # "open" /\ Ends(pending.call, "closed") /\ UNCHANGED modem
    /\ UNCHANGED <<waiting, port, wire, toReport, dispatched, order, timeouts>>

\* The future has a result: the coroutine resumes and its finally clause runs.
resume ==
    /\ pending # NoPending /\ pending.final # "none"
    /\ call[pending.call] = "wait"
    /\ Ends(pending.call, pending.final)
    /\ UNCHANGED <<waiting, port, wire, modem, toReport, dispatched, order, timeouts>>

\* Nothing more will come: the port is gone, the module has answered, or it
\* takes whatever is written for a body.  Only the other timeouts, after which
\* an answer comes late, are bounded and counted.
Silent ==
    \/ port # "open"
    \/ wire = <<>> /\ (modem # <<>> => Head(Head(modem).left) = "body")

\* No prompt, or no final line, in time.  The module is not told, and a final
\* line or the loss of the port does not end the wait for a prompt.
timeout ==
    /\ pending # NoPending
    /\ timeouts < MaxTimeouts \/ Silent
    /\ \/ call[pending.call] = "wait" /\ pending.final = "none"
       \/ call[pending.call] = "prompt" /\ ~pending.prompt
    /\ timeouts' = IF Silent THEN timeouts ELSE timeouts + 1
    /\ Ends(pending.call, "timeout")
    /\ UNCHANGED <<waiting, port, wire, modem, toReport, dispatched, order>>

----------------------------------------------------------------------------
(* _feed and _handle_line *)

\* Mutant: a line with a registered prefix is a URC, whoever asked for it.
Owned_never(l) == FALSE

\* A command owns its response prefix, registered as a URC or not.
Owned(l) == pending # NoPending /\ l.kind \in {"info", "change"} /\ l.of = pending.call

\* A line with a registered prefix, of a URC without payload lines.
IsUrc(l) == l.kind = "urc" \/ (l.kind \in {"info", "change"} /\ l.of \in Shared)

\* The pending call with one more line; what its future has been given stays.
Add(l) ==
    IF pending = NoPending \/ pending.final # "none" THEN pending
    ELSE [pending EXCEPT !.lines = @ \cup {l}]

\* The first final line is the result, whichever command it answers.
Final(l) ==
    IF pending = NoPending \/ pending.final # "none" THEN pending
    ELSE [pending EXCEPT !.final = l.kind, !.of = l.of]

handle_line ==
    /\ wire # <<>>
    /\ wire' = Tail(wire)
    /\ LET l == Head(wire)
       IN \/ /\ capture # NoUrc
             /\ dispatched' = dispatched \cup {<<capture, l>>}
             /\ capture' = NoUrc
             /\ UNCHANGED <<pending>>
          \/ /\ capture = NoUrc /\ Owned(l)
             /\ pending' = Add(l)
             /\ UNCHANGED <<capture, dispatched>>
          \/ /\ capture = NoUrc /\ ~Owned(l) /\ IsUrc(l)
             /\ dispatched' = dispatched \cup {<<l>>}
             /\ UNCHANGED <<pending, capture>>
          \/ /\ capture = NoUrc /\ ~IsUrc(l) /\ l.kind = "head"
             /\ capture' = l.of
             /\ UNCHANGED <<pending, dispatched>>
          \/ /\ capture = NoUrc /\ ~Owned(l) /\ ~IsUrc(l) /\ l.kind # "head"
             /\ pending' = CASE l.kind = "prompt" /\ pending # NoPending -> [pending EXCEPT !.prompt = TRUE]
                             [] l.kind \in {"ok", "error"} -> Final(l)
                             [] OTHER -> Add(l)
             /\ UNCHANGED <<capture, dispatched>>
    /\ UNCHANGED <<call, waiting, port, modem, toReport, got, order, timeouts>>

----------------------------------------------------------------------------
(* The module, and the port *)

\* The module works on the oldest command it has read.
modem_writes ==
    /\ port = "open" /\ modem # <<>>
    /\ LET c == Head(modem).call
           step == Head(Head(modem).left)
       IN  /\ step # "body"
           /\ \E kind \in CASE step = "final" -> {"ok", "error"}
                           [] step = "prompt" -> {"prompt", "error"}
                           [] OTHER -> {step} :
                /\ wire' = Append(wire, Line(kind, c))
                /\ modem' = IF kind \in {"ok", "error"} THEN Tail(modem)
                            ELSE <<[Head(modem) EXCEPT !.left = Tail(@)]>> \o Tail(modem)
    /\ UNCHANGED <<call, waiting, pending, capture, port, toReport, got, dispatched, order, timeouts>>

\* A URC may cut in between any two lines; its own lines stay together.
modem_reports(u) ==
    /\ port = "open" /\ u \in toReport
    /\ toReport' = toReport \ {u}
    /\ wire' = wire \o (IF u \in Splits THEN <<Line("head", u), Line("payload", u)>>
                        ELSE <<Line(IF u \in Urcs THEN "urc" ELSE "change", u)>>)
    /\ UNCHANGED <<call, waiting, pending, capture, port, modem, got, dispatched, order, timeouts>>

FailPending ==
    IF pending # NoPending /\ pending.final = "none" THEN [pending EXCEPT !.final = "lost"] ELSE pending

\* The transport reports its end, or the agent closes the client.
port_lost(how) ==
    /\ port = "open"
    /\ port' = how
    /\ pending' = FailPending
    /\ wire' = <<>> /\ modem' = <<>>
    /\ UNCHANGED <<call, waiting, capture, toReport, got, dispatched, order, timeouts>>

----------------------------------------------------------------------------

Client == start \/ write_payload \/ resume \/ handle_line
Waits == timeout

Next ==
    \/ \E c \in Calls : execute(c)
    \/ Client \/ Waits \/ modem_writes
    \/ \E u \in Urcs \cup Splits \cup Shared : modem_reports(u)
    \/ \E how \in {"lost", "closed"} : port_lost(how)

Spec == Init /\ [][Next]_atVars

\* The event loop runs what is ready; a wait for a prompt or a final line ends
\* with its timeout at the latest.
Fairness == WF_atVars(Client) /\ WF_atVars(Waits) /\ WF_atVars(modem_writes)

----------------------------------------------------------------------------
(* Properties *)

Done(c) == call[c] \in {"ok", "error"}

\* While no command has timed out, a call that finished well was given its own
\* response.  Mixed in may be a change of the same name, and the payload of a
\* split URC whose header came with the final line before: the end of a call
\* forgets what was being captured.
OwnAnswer ==
    timeouts = 0 => \A c \in Calls : call[c] = "ok" =>
        /\ Line("info", c) \in got[c].lines
        /\ \A l \in got[c].lines : l.of = c \/ l.kind = "payload"

Place(c) == CHOOSE n \in DOMAIN order : order[n] = c

\* The late final line of a command that timed out is taken for the answer of
\* the next, but no call is given an answer older than by one command for each
\* timeout: without timeouts every final line is the call's own.
BoundedLag ==
    \A c \in Calls : Done(c) =>
        /\ got[c].of \in Calls
        /\ Place(got[c].of) \in (Place(c) - timeouts) .. Place(c)

\* Only URCs reach the handlers while nothing timed out: no line of a response
\* is taken for a change of state, and no payload is attached to another URC.
HandlersGetUrcs ==
    timeouts = 0 => \A d \in dispatched :
        IF Len(d) = 1 THEN d[1].kind \in {"urc", "change"}
        ELSE d[2] = Line("payload", d[1])

\* Every call comes to an end: an answer, an error, a timeout or a lost port.
CallsEnd == \A c \in Calls : call[c] = "lock" ~> call[c] \notin {"lock", "prompt", "wait"}
=============================================================================
