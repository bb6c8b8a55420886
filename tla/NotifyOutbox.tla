---------------------------- MODULE NotifyOutbox ----------------------------
(***************************************************************************)
(* The notification outbox of the hub (notify.py, db.py): an event's       *)
(* transaction stores the intent to notify, the worker expands it into one *)
(* delivery per channel, claims due deliveries under a lease, sends them   *)
(* through two semaphores and settles each attempt.                        *)
(*                                                                         *)
(* Clocks are flags: a row is due or not yet, its lease has run out or     *)
(* not, its intent is past its expiry or not; each flag is raised by an    *)
(* action of its own.  Texts, templates and addresses are left out.        *)
(***************************************************************************)
EXTENDS Integers, FiniteSets, FiniteSetsExt

CONSTANTS
    Messages,     \* events that store an SMS
    Notices,      \* task receipts and inbound calls
    Muted,        \* events nobody is told of: data SMS, outbound calls
    Channels,     \* rows of channels
    Rules,        \* rows of rules, numbered in ORDER BY priority DESC, id
    RuleChannel,  \* [Rules -> Channels]
    Retries,      \* settings.notify_retries
    ClaimBatch,   \* CLAIM_BATCH
    MaxSends,     \* MAX_CONCURRENT_SENDS
    MaxPerChannel,\* MAX_PER_CHANNEL
    MaxEvents,    \* bound: events the hub stores
    MaxFaults     \* bound: ends of the process, edits, deletions, manual retries

\* Row ids start at 1: 0 stands for the absent rule of every_enabled_channel.
ASSUME OutboxAssumption ==
    /\ {Retries, ClaimBatch, MaxSends, MaxPerChannel, MaxEvents, MaxFaults} \subseteq Nat
    /\ Rules \subseteq Nat \ {0}
    /\ RuleChannel \in [Rules -> Channels]

VARIABLES
    intent,     \* notify_outbox.status of each event; "none" without a row
    hasBody,    \* events whose intent holds a rendered text
    row,        \* notify_deliveries, keyed by its unique index
    stale,      \* events whose deliveries are past expires_at
    gone,       \* messages retention has deleted
    rules,      \* whether each rule is on, off or deleted
    channels,   \* whether each channel is on, off or deleted
    phase,      \* the process: down, run, drain (aclose), pause
    owner,      \* Notifier._owner: a number per process
    attempt,    \* where the coroutine of each claimed delivery stands
    taken,      \* the row each coroutine was given when it was claimed
    received,   \* history: whether the provider received each delivery once (1) or more (2)
    doubtful,   \* history: deliveries whose receipt the hub could not learn
    restarts,   \* history: times the process ended
    edits,      \* history: edits and deletions
    manual      \* history: retries an administrator asked for

vars == <<intent, hasBody, row, stale, gone, rules, channels, phase, owner,
          attempt, taken, received, doubtful, restarts, edits, manual>>

Events == Messages \cup Notices
NoRule == 0
Deliveries == Events \X Channels \X (Rules \cup {NoRule})
EventOf(d) == d[1]
ChannelOf(d) == d[2]

NoRow == [status |-> "none", attempts |-> 0, due |-> FALSE, lease |-> 0, lapsed |-> FALSE]
Statuses == {"none", "pending", "ok", "failed", "expired"}
Steps == {"none", "sends", "gate", "lookup", "payload", "send", "ok", "transient", "permanent"}
Counts == 0 .. Retries + 1 + MaxFaults

TypeOK ==
    /\ intent \in [Events -> {"none", "pending", "expanded", "skipped"}]
    /\ hasBody \subseteq Events /\ stale \subseteq Events /\ gone \subseteq Messages
    /\ row \in [Deliveries -> [status : Statuses, attempts : Counts, due : BOOLEAN,
                               lease : 0 .. MaxFaults + 1, lapsed : BOOLEAN]]
    /\ rules \in [Rules -> {"on", "off", "deleted"}] /\ channels \in [Channels -> {"on", "off", "deleted"}]
    /\ phase \in {"down", "run", "drain", "pause"}
    /\ owner \in 1 .. MaxFaults + 1
    /\ attempt \in [Deliveries -> Steps]
    /\ taken \in [Deliveries -> [attempts : Counts, owner : 0 .. MaxFaults + 1]]
    /\ received \in [Deliveries -> 0 .. 2] /\ doubtful \subseteq Deliveries
    /\ restarts \in 0 .. MaxFaults /\ edits \in 0 .. MaxFaults /\ manual \in 0 .. MaxFaults

Again(n) == Min({2, n + 1})
NotTaken == [attempts |-> 0, owner |-> 0]

Init ==
    /\ intent = [e \in Events |-> "none"] /\ hasBody = {} /\ stale = {} /\ gone = {}
    /\ row = [d \in Deliveries |-> NoRow]
    /\ rules = [r \in Rules |-> "on"] /\ channels = [c \in Channels |-> "on"]
    /\ phase = "run" /\ owner = 1
    /\ attempt = [d \in Deliveries |-> "none"]
    /\ taken = [d \in Deliveries |-> NotTaken]
    /\ received = [d \in Deliveries |-> 0] /\ doubtful = {}
    /\ restarts = 0 /\ edits = 0 /\ manual = 0

Budgeted == restarts + edits + manual < MaxFaults
config == <<rules, channels, gone, edits>>
world == <<received, doubtful>>
channelsOn == {c \in Channels : channels[c] = "on"}

----------------------------------------------------------------------------
(* Intents *)

\* _queue_notification stores the intent in the event's transaction; the hook
\* that follows COMMIT and a replay meet the unique event_key and add nothing.
enqueue_notification(e) ==
    /\ intent[e] = "none"
    /\ phase # "down"
    /\ Cardinality({x \in Events : intent[x] # "none"}) < MaxEvents
    /\ intent' = [intent EXCEPT ![e] = "pending"]
    /\ UNCHANGED <<hasBody, row, stale, config, phase, owner, attempt, taken, world,
                   restarts, manual>>

\* The first enabled rule of each enabled channel: at most one per channel.
match_rules ==
    LET on(c) == {r \in Rules : rules[r] = "on" /\ RuleChannel[r] = c}
    IN  {<<c, Min(on(c))>> : c \in {x \in channelsOn : on(x) # {}}}

every_enabled_channel == channelsOn \X {NoRule}

\* The (channel, rule) pairs an intent owes.
targets_for(e) ==
    IF e \in Muted \cup gone THEN {}
    ELSE IF e \in Messages THEN match_rules ELSE every_enabled_channel

\* INSERT OR IGNORE: an existing (intent, channel, rule) stays as it is.
add_deliveries(e, targets) ==
    [d \in Deliveries |->
        IF /\ d[1] = e /\ <<d[2], d[3]>> \in targets /\ row[d].status = "none"
        THEN [status |-> "pending", attempts |-> 0, due |-> TRUE, lease |-> 0, lapsed |-> FALSE]
        ELSE row[d]]

\* A pass starts only when every coroutine of the previous one has ended.
PassMayStart == phase \in {"run", "drain"} /\ \A d \in Deliveries : attempt[d] = "none"

\* One database job: the deliveries, then the intent with its text.
expand_intent(e) ==
    /\ PassMayStart
    /\ intent[e] = "pending"
    /\ row' = add_deliveries(e, targets_for(e))
    /\ intent' = [intent EXCEPT ![e] = IF targets_for(e) = {} THEN "skipped" ELSE "expanded"]
    /\ hasBody' = IF e \in Notices \ Muted THEN hasBody \cup {e} ELSE hasBody
    /\ UNCHANGED <<stale, config, phase, owner, attempt, taken, world, restarts, manual>>

Forgotten ==
    /\ attempt' = [d \in Deliveries |-> "none"]
    /\ taken' = [d \in Deliveries |-> NotTaken]

\* Its statements are committed one by one: the process can end between them.
expand_interrupted(e, targets) ==
    /\ PassMayStart
    /\ intent[e] = "pending"
    /\ Budgeted
    /\ row' = add_deliveries(e, targets)
    /\ phase' = "down"
    /\ restarts' = restarts + 1
    /\ Forgotten
    /\ UNCHANGED <<intent, hasBody, stale, config, owner, world, manual>>

----------------------------------------------------------------------------
(* Claims and attempts *)

\* Mutant: a row whose lease has run out is not taken again.
Claimable_unleased ==
    {d \in Deliveries : row[d].status = "pending" /\ row[d].due /\ row[d].lease = 0}

\* Pending, due, and nobody holds a lease that still counts.
Claimable ==
    {d \in Deliveries : /\ row[d].status = "pending" /\ row[d].due
                        /\ row[d].lease = 0 \/ row[d].lapsed}

\* A pass takes at most ClaimBatch of the due rows under one lease.
claim_deliveries(S) ==
    /\ PassMayStart
    /\ S # {}
    /\ Cardinality(S) = Min({ClaimBatch, Cardinality(Claimable)})
    /\ row' = [d \in Deliveries |->
                 IF d \in S THEN [row[d] EXCEPT !.lease = owner, !.lapsed = FALSE] ELSE row[d]]
    /\ attempt' = [d \in Deliveries |-> IF d \in S THEN "sends" ELSE attempt[d]]
    /\ taken' = [d \in Deliveries |->
                   IF d \in S THEN [attempts |-> row[d].attempts, owner |-> owner] ELSE taken[d]]
    /\ UNCHANGED <<intent, hasBody, stale, config, phase, owner, world, restarts, manual>>

At(steps) == {d \in Deliveries : attempt[d] \in steps}
InTheAir == Steps \ {"none", "sends", "gate"}
Holding == At(Steps \ {"none", "sends"})

Moved(d, step) ==
    /\ attempt' = [attempt EXCEPT ![d] = step]
    /\ UNCHANGED <<intent, hasBody, row, stale, config, phase, owner, taken, restarts, manual>>

\* async with self._sends ...
acquire_sends(d) ==
    /\ attempt[d] = "sends"
    /\ Cardinality(Holding) < MaxSends
    /\ Moved(d, "gate") /\ UNCHANGED world

\* ..., self._gate(channel_id): waited for while _sends is held.
acquire_gate(d) ==
    /\ attempt[d] = "gate"
    /\ Cardinality({x \in At(InTheAir) : ChannelOf(x) = ChannelOf(d)}) < MaxPerChannel
    /\ Moved(d, "lookup") /\ UNCHANGED world

\* UPDATE notify_deliveries ... WHERE id = ?: whoever asks, whatever the row holds,
\* and nothing when the row is gone.  The coroutine ends.
settle_delivery(d, status, attempts) ==
    /\ row' = IF row[d].status = "none" THEN row
              ELSE [row EXCEPT ![d] = [status |-> status, attempts |-> attempts,
                                       due |-> status # "pending", lease |-> 0, lapsed |-> FALSE]]
    /\ attempt' = [attempt EXCEPT ![d] = "none"]
    /\ taken' = [taken EXCEPT ![d] = NotTaken]
    /\ UNCHANGED <<intent, hasBody, stale, config, phase, owner, world, restarts, manual>>

\* Mutant: the attempt that was not made is taken off the count once more.
attempt_channel_uncounted(d) ==
    /\ attempt[d] = "lookup"
    /\ IF ChannelOf(d) \in channelsOn
       THEN Moved(d, "payload") /\ UNCHANGED world
       ELSE settle_delivery(d, "failed", taken[d].attempts - 1)

\* The channel is read; one that was turned off fails the push unsent.
attempt_channel(d) ==
    /\ attempt[d] = "lookup"
    /\ IF ChannelOf(d) \in channelsOn
       THEN Moved(d, "payload") /\ UNCHANGED world
       ELSE settle_delivery(d, "failed", taken[d].attempts)

\* What to send, unless the message, or the text of the notice, is missing.
payload_for(d) ==
    IF EventOf(d) \in Messages THEN EventOf(d) \notin gone ELSE EventOf(d) \in hasBody

\* Mutant: nothing to send counts as sent.
attempt_payload_ok(d) ==
    /\ attempt[d] = "payload"
    /\ IF payload_for(d)
       THEN Moved(d, "send") /\ UNCHANGED world
       ELSE settle_delivery(d, "ok", taken[d].attempts)

attempt_payload(d) ==
    /\ attempt[d] = "payload"
    /\ IF payload_for(d)
       THEN Moved(d, "send") /\ UNCHANGED world
       ELSE settle_delivery(d, "failed", taken[d].attempts)

\* The provider answers, or does not: an error may follow a push it received.
send_via_channel(d) ==
    /\ attempt[d] = "send"
    /\ \/ /\ Moved(d, "ok")
          /\ received' = [received EXCEPT ![d] = Again(@)] /\ UNCHANGED doubtful
       \/ \E step \in {"transient", "permanent"} : Moved(d, step) /\ UNCHANGED world
       \/ /\ Moved(d, "transient")
          /\ received' = [received EXCEPT ![d] = Again(@)]
          /\ doubtful' = doubtful \cup {d}

\* _finish_claimed of a push that went out.
attempt_succeeded(d) ==
    /\ attempt[d] = "ok"
    /\ settle_delivery(d, "ok", taken[d].attempts + 1)

\* A timeout, a 5xx or "busy", within the budget and before the expiry.
MayRetry(d) ==
    /\ attempt[d] = "transient"
    /\ taken[d].attempts + 1 < Retries + 1
    /\ EventOf(d) \notin stale

\* A failed attempt is put back for later, or given up.
attempt_failed(d) ==
    /\ attempt[d] \in {"transient", "permanent"}
    /\ settle_delivery(d, IF MayRetry(d) THEN "pending"
                          ELSE IF EventOf(d) \in stale THEN "expired" ELSE "failed",
                       taken[d].attempts + 1)

----------------------------------------------------------------------------
(* The process, the administrator and the clock *)

\* What a coroutine cut off in the middle of a send leaves behind: the provider
\* may have received the push.
Interrupted(S) ==
    /\ \E S1 \in SUBSET {d \in S : attempt[d] = "send"} :
         received' = [d \in Deliveries |-> IF d \in S1 THEN Again(received[d]) ELSE received[d]]
    /\ doubtful' = doubtful \cup {d \in S : attempt[d] \in {"send", "ok"}}

crash ==
    /\ phase # "down" /\ Budgeted
    /\ phase' = "down" /\ restarts' = restarts + 1
    /\ Interrupted(Deliveries) /\ Forgotten
    /\ UNCHANGED <<intent, hasBody, row, stale, config, owner, manual>>

\* aclose cancels the worker and its sends, then drains: passes go on.
aclose ==
    /\ phase = "run" /\ Budgeted
    /\ phase' = "drain"
    /\ Interrupted(Deliveries) /\ Forgotten
    /\ UNCHANGED <<intent, hasBody, row, stale, config, owner, restarts, manual>>

\* pause lets the sends of this pass end and starts no other pass ...
pause ==
    /\ phase = "run" /\ Budgeted
    /\ phase' = "pause"
    /\ UNCHANGED <<intent, hasBody, row, stale, config, owner, attempt, taken, world, restarts, manual>>

\* ... and cancels them when they take too long.
pause_timeout ==
    /\ phase = "pause"
    /\ At(Steps \ {"none"}) # {}
    /\ Interrupted(Deliveries) /\ Forgotten
    /\ UNCHANGED <<intent, hasBody, row, stale, config, phase, owner, restarts, manual>>

closed ==
    /\ phase \in {"drain", "pause"}
    /\ At(Steps \ {"none"}) = {}
    /\ phase' = "down" /\ restarts' = restarts + 1
    /\ UNCHANGED <<intent, hasBody, row, stale, config, owner, attempt, taken, world, manual>>

\* A new process, or the services rebuilt after a restore.
start ==
    /\ phase = "down"
    /\ phase' = "run" /\ owner' = owner + 1
    /\ UNCHANGED <<intent, hasBody, row, stale, config, attempt, taken, world, restarts, manual>>

\* Mutant: any row can be put back.
GivenUp_any(d) == row[d].status # "none"

GivenUp(d) == row[d].status \in {"failed", "expired"}

\* An administrator puts a given-up delivery back; attempts are kept.
retry_delivery(d) ==
    /\ phase # "down" /\ Budgeted
    /\ GivenUp(d)
    /\ row' = [row EXCEPT ![d].status = "pending", ![d].due = TRUE,
                          ![d].lease = 0, ![d].lapsed = FALSE]
    /\ manual' = manual + 1
    /\ UNCHANGED <<intent, hasBody, stale, config, phase, owner, attempt, taken, world, restarts>>

edit ==
    /\ phase # "down" /\ Budgeted
    /\ edits' = edits + 1
    /\ UNCHANGED <<intent, hasBody, stale, phase, owner, attempt, taken, world, restarts, manual>>

Toggled(state) == IF state = "on" THEN "off" ELSE "on"

toggle_rule(r) ==
    /\ edit
    /\ rules[r] # "deleted"
    /\ rules' = [rules EXCEPT ![r] = Toggled(@)]
    /\ UNCHANGED <<row, channels, gone>>

toggle_channel(c) ==
    /\ edit
    /\ channels[c] # "deleted"
    /\ channels' = [channels EXCEPT ![c] = Toggled(@)]
    /\ UNCHANGED <<row, rules, gone>>

\* ON DELETE CASCADE takes the deliveries of a rule along ...
delete_rule(r) ==
    /\ edit
    /\ rules[r] # "deleted"
    /\ rules' = [rules EXCEPT ![r] = "deleted"]
    /\ row' = [d \in Deliveries |-> IF d[3] = r THEN NoRow ELSE row[d]]
    /\ UNCHANGED <<channels, gone>>

\* ... and the rules and the deliveries of a channel.
delete_channel(c) ==
    /\ edit
    /\ channels[c] # "deleted"
    /\ channels' = [channels EXCEPT ![c] = "deleted"]
    /\ rules' = [r \in Rules |-> IF RuleChannel[r] = c THEN "deleted" ELSE rules[r]]
    /\ row' = [d \in Deliveries |-> IF ChannelOf(d) = c THEN NoRow ELSE row[d]]
    /\ UNCHANGED gone

\* Retention deletes the message, not what is owed for it.
purge_message(e) ==
    /\ edit
    /\ intent[e] # "none" /\ e \notin gone
    /\ gone' = gone \cup {e}
    /\ UNCHANGED <<row, rules, channels>>

come_due(d) ==
    /\ row[d].status = "pending" /\ ~row[d].due
    /\ row' = [row EXCEPT ![d].due = TRUE]
    /\ UNCHANGED <<intent, hasBody, stale, config, phase, owner, attempt, taken, world, restarts, manual>>

lease_lapses(d) ==
    /\ row[d].lease # 0 /\ ~row[d].lapsed
    /\ row' = [row EXCEPT ![d].lapsed = TRUE]
    /\ UNCHANGED <<intent, hasBody, stale, config, phase, owner, attempt, taken, world, restarts, manual>>

expire(e) ==
    /\ intent[e] # "none" /\ e \notin stale
    /\ stale' = stale \cup {e}
    /\ UNCHANGED <<intent, hasBody, row, config, phase, owner, attempt, taken, world, restarts, manual>>

----------------------------------------------------------------------------

Expand == \E e \in Events : expand_intent(e)
Claim == \E S \in SUBSET Claimable : claim_deliveries(S)

Attempts ==
    \E d \in Deliveries :
        \/ acquire_sends(d) \/ acquire_gate(d) \/ attempt_channel(d) \/ attempt_payload(d)
        \/ send_via_channel(d) \/ attempt_succeeded(d) \/ attempt_failed(d)

Clock == \E d \in Deliveries : come_due(d) \/ lease_lapses(d)

Next ==
    \/ \E e \in Events :
         \/ enqueue_notification(e) \/ expire(e)
         \/ \E targets \in SUBSET targets_for(e) : expand_interrupted(e, targets)
    \/ \E e \in Messages : purge_message(e)
    \/ Expand \/ Claim \/ Attempts \/ Clock
    \/ crash \/ aclose \/ pause \/ pause_timeout \/ closed \/ start
    \/ \E d \in Deliveries : retry_delivery(d)
    \/ \E r \in Rules : toggle_rule(r) \/ delete_rule(r)
    \/ \E c \in Channels : toggle_channel(c) \/ delete_channel(c)

Spec == Init /\ [][Next]_vars

\* The worker polls at least every POLL_SECONDS and its coroutines run to their
\* end (the provider call has a timeout), clocks advance, and a process that
\* ended is started again.
FairSpec ==
    /\ Spec
    /\ WF_vars(Expand) /\ WF_vars(Claim) /\ WF_vars(Attempts) /\ WF_vars(Clock)
    /\ WF_vars(start) /\ WF_vars(closed)

----------------------------------------------------------------------------
(* Properties *)

\* A coroutine at work on a delivery owns its row: the row is still pending
\* under the lease of this process and still has the attempts it was claimed
\* with, unless its rule was deleted.  Otherwise settle_delivery, which checks
\* nothing, would overwrite another's outcome.
LeaseHeld ==
    \A d \in At(Steps \ {"none"}) :
        row[d] = NoRow \/ /\ row[d].status = "pending"
                          /\ row[d].lease = taken[d].owner /\ taken[d].owner = owner
                          /\ row[d].attempts = taken[d].attempts

\* A push is received twice only where the hub could not know of the first
\* time: the process or the coroutine ended during the send, or the provider's
\* answer was lost.
NoNeedlessRepeat == \A d \in Deliveries : received[d] > 1 => d \in doubtful

\* A delivery shown as sent was received by the provider, and one given up
\* without a doubtful attempt never was.  The attempts shown stay in their
\* budget over restarts: one beyond it for each retry an administrator asked for.
StatusIsTrue ==
    \A d \in Deliveries :
        /\ row[d].status = "ok" => received[d] > 0
        /\ row[d].status \in {"failed", "expired"} /\ d \notin doubtful => received[d] = 0
        /\ row[d].attempts <= Retries + 1 + manual

\* A channel gets a second push of one event only when the rules changed: with
\* the rules it started with, repeating an interrupted expansion adds nothing.
OnePushPerChannel ==
    edits = 0 => \A d1, d2 \in Deliveries :
        /\ row[d1].status # "none" /\ row[d2].status # "none"
        /\ EventOf(d1) = EventOf(d2) /\ ChannelOf(d1) = ChannelOf(d2)
        => d1 = d2

\* notify.py pump, db.py claim_deliveries: no push is made twice that need not
\* be, be it by two owners of a row, two attempts or two rules.
PushedOnce == LeaseHeld /\ NoNeedlessRepeat /\ OnePushPerChannel

Owed(e) ==
    \/ intent[e] = "pending"
    \/ \E d \in Deliveries : EventOf(d) = e /\ row[d].status = "pending"

\* Whatever is owed is settled in the end: no intent stays unexpanded and no
\* delivery pending, over crashes, lapsed leases and retries.
Settled == \A e \in Events : Owed(e) ~> ~Owed(e)

\* One hanging provider cannot hold the whole budget of sends while a push for
\* another channel waits (the comment on MAX_PER_CHANNEL).
NotStarved ==
    \A c \in Channels :
        Cardinality({d \in Holding : ChannelOf(d) = c}) = MaxSends
            => \A d \in At({"sends"}) : ChannelOf(d) = c
=============================================================================
