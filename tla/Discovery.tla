------------------------------ MODULE Discovery ------------------------------
(***************************************************************************)
(* Which worker gets which port (discovery.py, the autodetection of app.py *)
(* and the connect and teardown of worker.py): workers of the configuration*)
(* look for their module among the ports nobody has claimed, and a survey  *)
(* adopts the modules nobody is waiting for.  One lock is held for a whole *)
(* scan; every probe of a port is a step of its own, and modules may be    *)
(* plugged, unplugged and renumbered in between.                           *)
(***************************************************************************)
EXTENDS Integers, Sequences

CONSTANTS
    Ports,       \* the ports the glob can match: numbers, scanned in order
    Modules,     \* modules, each with an IMEI and a card
    Configured,  \* devices of the configuration, in its order: <<identifier, module>>
    MaxAdopted,  \* bound: modules adopted
    MaxPlugs,    \* bound: changes at the ports
    MaxUnread    \* bound: identity queries that a module does not answer

VARIABLES
    plugged,  \* port -> module, or Nothing
    workers,  \* configurations, first of the file, then _adopted
    status,   \* "seeking", "claimed", "up" or "lost", for each worker
    port,     \* _port of each worker, or Nothing
    claimed,  \* _claimed: port -> worker, or Nothing
    scan,     \* the holder of the lock, the ports left and what a survey found
    slipped,  \* history: ports replugged between a probe and the opening
    plugs, unread

discVars == <<plugged, workers, status, port, claimed, scan, slipped, plugs, unread>>

Nothing == 0
Survey == -1
Unlocked == [by |-> Nothing, todo |-> {}, found |-> <<>>]

\* What a block of the configuration, or an adopted device, asks for; for is
\* the module it was made for.
Device(imei, iccid, m) == [imei |-> imei, iccid |-> iccid, for |-> m]
Asked(c) == IF c[1] = "imei" THEN Device(c[2], Nothing, c[2]) ELSE Device(Nothing, c[2], c[2])

TypeOK ==
    /\ plugged \in [Ports -> Modules \cup {Nothing}]
    /\ Len(status) = Len(workers) /\ Len(port) = Len(workers)
    /\ \A w \in DOMAIN workers :
         /\ status[w] \in {"seeking", "claimed", "up", "lost"}
         /\ (status[w] = "seeking") = (port[w] = Nothing)
         /\ port[w] # Nothing => claimed[port[w]] = w
    /\ \A p \in Ports : claimed[p] # Nothing => port[claimed[p]] = p
    /\ scan.by \in {Nothing, Survey} \cup DOMAIN workers

Init ==
    /\ plugged = [p \in Ports |-> Nothing]
    /\ workers = [n \in DOMAIN Configured |-> Asked(Configured[n])]
    /\ status = [w \in DOMAIN workers |-> "seeking"] /\ port = [w \in DOMAIN workers |-> Nothing]
    /\ claimed = [p \in Ports |-> Nothing]
    /\ scan = Unlocked
    /\ slipped = {} /\ plugs = 0 /\ unread = 0

----------------------------------------------------------------------------
(* Scans *)

Candidates == {p \in Ports : plugged[p] # Nothing /\ claimed[p] = Nothing}

begin_scan(who) ==
    /\ scan.by = Nothing
    /\ scan' = [Unlocked EXCEPT !.by = who, !.todo = Candidates]
    /\ UNCHANGED <<plugged, workers, status, port, claimed, slipped, plugs, unread>>

acquire(w) == status[w] = "seeking" /\ begin_scan(w)
survey == begin_scan(Survey)

\* probe_port: the identity the module at the port gives, parts of which may
\* get no answer in time.
Answer(p, imei, iccid) ==
    [imei |-> IF imei THEN plugged[p] ELSE Nothing, iccid |-> IF iccid THEN plugged[p] ELSE Nothing,
     of |-> plugged[p]]

_matches(d, r) ==
    /\ d.imei \in {Nothing, r.imei} /\ d.iccid \in {Nothing, r.iccid}
    /\ d.imei # Nothing \/ d.iccid # Nothing

\* The IMEI if the module gave one, the card otherwise.
Identity(x) ==
    IF x.imei # Nothing THEN <<"imei", x.imei>>
    ELSE IF x.iccid # Nothing THEN <<"iccid", x.iccid>> ELSE <<"none">>

\* sole_device: one device is configured, so a worker without an identity may
\* take the port that answers.
Sole == Len(Configured) = 1

Named(d) == Identity(d) # <<"none">>

\* The scanning worker claims the port, refuses to guess, or goes on to the next
\* port.
acquire_probed(p, r) ==
    LET w == scan.by
    IN  IF IF Named(workers[w]) THEN _matches(workers[w], r) ELSE Sole
        THEN /\ scan' = Unlocked
             /\ status' = [status EXCEPT ![w] = "claimed"] /\ port' = [port EXCEPT ![w] = p]
             /\ claimed' = [claimed EXCEPT ![p] = w]
             /\ slipped' = slipped \ {p}
        ELSE /\ scan' = IF Named(workers[w]) THEN [scan EXCEPT !.todo = @ \ {p}] ELSE Unlocked
             /\ UNCHANGED <<status, port, claimed, slipped>>

survey_probed(p, r) ==
    /\ scan' = [scan EXCEPT !.todo = @ \ {p},
                            !.found = IF \/ \E w \in DOMAIN workers : _matches(workers[w], r)
                                         \/ \E n \in DOMAIN @ : Identity(@[n]) = Identity(r)
                                      THEN @ ELSE Append(@, r)]
    /\ UNCHANGED <<status, port, claimed, slipped>>

\* The ports of a scan are tried in their order.
First(ports) == CHOOSE p \in ports : \A q \in ports : p <= q

probe ==
    /\ scan.todo # {}
    /\ \E imei, iccid \in BOOLEAN :
         LET p == First(scan.todo)
             r == Answer(p, imei, iccid)
             missing == (IF imei THEN 0 ELSE 1) + (IF iccid THEN 0 ELSE 1)
         IN  /\ missing + unread <= MaxUnread /\ unread' = unread + missing
             /\ IF plugged[p] = Nothing
                THEN /\ scan' = [scan EXCEPT !.todo = @ \ {p}]
                     /\ UNCHANGED <<status, port, claimed, slipped>>
                ELSE IF scan.by = Survey THEN survey_probed(p, r) ELSE acquire_probed(p, r)
    /\ UNCHANGED <<plugged, workers, plugs>>

\* NoSuchDevice: the worker tries again later.
not_found ==
    /\ scan.by \notin {Nothing, Survey} /\ scan.todo = {}
    /\ scan' = Unlocked
    /\ UNCHANGED <<plugged, workers, status, port, claimed, slipped, plugs, unread>>

\* Mutant: the adopted device is not told which module it is for.
Adopted_nameless(r) == Device(Nothing, Nothing, r.of)

\* The IMEI is what an adopted device asks for from now on, the card is not.
Adopted(r) == Device(r.imei, Nothing, r.of)

\* What a survey found, one after the other, each checked against the workers
\* there are by then.
_adopt ==
    /\ scan.by = Survey /\ scan.todo = {}
    /\ IF scan.found = <<>> THEN scan' = Unlocked /\ UNCHANGED <<workers, status, port>>
       ELSE LET r == Head(scan.found)
                known == \E w \in DOMAIN workers : Identity(workers[w]) = Identity(r)
            IN  /\ scan' = [scan EXCEPT !.found = Tail(@)]
                /\ IF Identity(r) = <<"none">> \/ known
                      \/ Len(workers) >= Len(Configured) + MaxAdopted
                   THEN UNCHANGED <<workers, status, port>>
                   ELSE /\ workers' = Append(workers, Adopted(r))
                        /\ status' = Append(status, "seeking") /\ port' = Append(port, Nothing)
    /\ UNCHANGED <<plugged, claimed, slipped, plugs, unread>>

----------------------------------------------------------------------------
(* Workers, and what is plugged in *)

\* _connect after the claim: the port opens and answers.  Who answers is not
\* compared with the configuration.
connect(w) ==
    /\ status[w] = "claimed" /\ plugged[port[w]] # Nothing
    /\ status' = [status EXCEPT ![w] = "up"]
    /\ UNCHANGED <<plugged, workers, port, claimed, scan, slipped, plugs, unread>>

Released(w) == [claimed EXCEPT ![port[w]] = Nothing]

\* The port is gone, or never opened: _teardown gives it back.
_teardown(w) ==
    /\ status[w] = "lost" \/ (status[w] = "claimed" /\ plugged[port[w]] = Nothing)
    /\ claimed' = Released(w)
    /\ status' = [status EXCEPT ![w] = "seeking"] /\ port' = [port EXCEPT ![w] = Nothing]
    /\ UNCHANGED <<plugged, workers, scan, slipped, plugs, unread>>

\* A module appears at a port, or leaves it; an open port dies with it.
plug(p, m) ==
    /\ plugs < MaxPlugs /\ plugs' = plugs + 1
    /\ (plugged[p] = Nothing) = (m # Nothing)
    /\ plugged' = [plugged EXCEPT ![p] = m]
    /\ slipped' = slipped \cup {p}
    /\ status' = [w \in DOMAIN workers |-> IF port[w] = p /\ status[w] = "up" THEN "lost" ELSE status[w]]
    /\ UNCHANGED <<workers, port, claimed, scan, unread>>

----------------------------------------------------------------------------

Scans == probe \/ not_found \/ _adopt
Next ==
    \/ \E w \in DOMAIN workers : acquire(w) \/ connect(w) \/ _teardown(w)
    \/ survey \/ Scans
    \/ \E p \in Ports, m \in Modules \cup {Nothing} : plug(p, m)

Spec == Init /\ [][Next]_discVars

\* Configured workers retry for ever, the lock serves its waiters in turn,
\* probes and openings end.
Fairness ==
    /\ WF_discVars(Scans)
    /\ \A w \in 1 .. Len(Configured) : SF_discVars(acquire(w))
    /\ \A w \in 1 .. Len(Configured) + MaxAdopted :
         WF_discVars(w \in DOMAIN workers /\ (connect(w) \/ _teardown(w)))

----------------------------------------------------------------------------
(* Properties *)

\* A worker that is up talks to the module it was made for, unless the port
\* was replugged after the probe that claimed it, or the worker was adopted
\* from a card alone, asks for nothing and takes what it gets.
RightModule ==
    \A w \in DOMAIN workers :
        status[w] = "up" /\ Named(workers[w]) /\ port[w] \notin slipped =>
            plugged[port[w]] = workers[w].for

\* Every worker asks for something as long as every module gives its identity
\* in full.
NamedIfRead == unread = 0 => \A w \in DOMAIN workers : Named(workers[w])

\* An adopted worker is the only one for its module: none is adopted that a
\* configured device waits for, and none twice (discovery.py, survey: "a module
\* is only reported when every reserved block would reject it").
SpokenFor ==
    \A v, w \in DOMAIN workers :
        w > Len(Configured) /\ workers[v].for = workers[w].for => v = w

\* As long as every module gives its identity in full, that holds.
SpokenForIfRead == unread = 0 => SpokenFor

Served(m) ==
    \E w \in DOMAIN workers : status[w] = "up" /\ plugged[port[w]] = m /\ workers[w].for = m

\* Once the ports stay as they are, every module a device was configured for is
\* up under its worker, unless a module kept its identity back or a port was
\* replugged under a claim.
FoundInTheEnd ==
    <>[](\/ unread > 0 \/ \E w \in DOMAIN workers : port[w] \in slipped
         \/ \A n \in DOMAIN Configured :
              (\E p \in Ports : plugged[p] = Configured[n][2]) => Served(Configured[n][2]))
=============================================================================
