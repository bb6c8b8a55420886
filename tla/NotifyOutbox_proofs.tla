------------------------- MODULE NotifyOutbox_proofs -------------------------
(***************************************************************************)
(* Theorems about NotifyOutbox for every set of events, rules and channels *)
(* and every budget of retries, sends and faults.  The argument: a         *)
(* coroutine works on its delivery under a lease no other pass can take    *)
(* (AtWork), so an outcome is written once; a push that was received       *)
(* without doubt is either still in its coroutine, shown as sent, or its   *)
(* delivery was deleted for good (Known), so nobody sends it again.        *)
(***************************************************************************)
EXTENDS NotifyOutbox, TLAPS, WellFoundedInduction

\* The delivery's rule or channel was deleted, which nothing takes back.
Dead(d) ==
    \/ channels[ChannelOf(d)] = "deleted"
    \/ d[3] \in Rules /\ rules[d[3]] = "deleted"

\* The process between its starts and ends.
ProcessSound ==
    /\ phase = "down" => \A d \in Deliveries : attempt[d] = "none"
    /\ owner <= restarts + 1
    /\ phase = "down" => owner <= restarts
    /\ phase \in {"drain", "pause"} => restarts < MaxFaults

\* What a row of notify_deliveries can hold.
RowSound(d) ==
    /\ row[d].status = "none" => row[d] = NoRow
    /\ Dead(d) => row[d] = NoRow
    /\ row[d].status # "none" => d[3] = NoRule \/ RuleChannel[d[3]] = ChannelOf(d)
    /\ row[d].attempts <= Retries + 1 + manual
    /\ row[d].status = "pending" => row[d].attempts <= Retries + manual

\* A coroutine's row is leased to this process, or deleted.
AtWork(d) ==
    attempt[d] # "none" =>
        \/ row[d] = NoRow /\ Dead(d)
        \/ /\ row[d].status = "pending"
           /\ row[d].lease = taken[d].owner /\ taken[d].owner = owner
           /\ row[d].attempts = taken[d].attempts

\* Where a push the provider received is accounted for.
Known(d) ==
    /\ received[d] > 0 /\ d \notin doubtful =>
         \/ attempt[d] = "ok"
         \/ row[d].status = "ok"
         \/ Dead(d) /\ attempt[d] = "none"
    /\ attempt[d] = "ok" => received[d] > 0
    /\ row[d].status = "ok" => received[d] > 0
    /\ received[d] > 1 => d \in doubtful

DeliverySound(d) == RowSound(d) /\ AtWork(d) /\ Known(d)

\* Before the first edit every row is one its intent owes.
Unedited ==
    edits = 0 =>
        \A d \in Deliveries :
            row[d].status # "none" => <<d[2], d[3]>> \in targets_for(EventOf(d))

\* The inductive invariant.
IInv ==
    /\ TypeOK
    /\ ProcessSound
    /\ \A d \in Deliveries : DeliverySound(d)
    /\ Unedited
-----------------------------------------------------------------------------
(* Helpers *)

\* ORDER BY ... LIMIT 1 over numbered rules finds one of them.
LEMMA MinOfNats ==
    ASSUME NEW S, S \subseteq Nat, S # {}
    PROVE  Min(S) \in S /\ \A t \in S : Min(S) <= t
<1> DEFINE LT == {ss \in Nat \X Nat : ss[1] < ss[2]}
<1>1. \E x \in S : \A y \in S : ~(<<y, x>> \in OpToRel(<, Nat))
  BY NatLessThanWellFounded, WFMin
<1>2. OpToRel(<, Nat) = LT
  BY Zenon DEF OpToRel
<1>3. PICK x \in S : \A y \in S : <<y, x>> \notin LT
  BY <1>1, <1>2, Zenon
<1>4. \A y \in S : x <= y
  <2> TAKE y \in S
  <2>1. x \in Nat /\ y \in Nat
    OBVIOUS
  <2>2. <<y, x>> \notin LT
    BY <1>3
  <2> HIDE DEF LT
  <2>3. \A a, b \in Nat : a < b => <<a, b>> \in LT
    BY DEF LT
  <2> QED BY <2>1, <2>2, <2>3
<1> QED BY <1>4 DEF Min

\* The history counter of a delivery tells none, one and more apart.
LEMMA AgainType ==
    ASSUME NEW n \in 0 .. 2
    PROVE  Again(n) \in 1 .. 2 /\ (n = 0 => Again(n) = 1)
<1>1. Again(n) \in {2, n + 1} /\ Again(n) <= 2 /\ Again(n) <= n + 1
  BY MinOfNats DEF Again
<1> QED BY <1>1

(* A delivery is its event, its channel and its rule.                      *)
LEMMA DeliveryParts ==
    ASSUME NEW d \in Deliveries
    PROVE  /\ d[1] \in Events /\ d[2] \in Channels /\ d[3] \in Rules \cup {NoRule}
           /\ d = <<d[1], d[2], d[3]>>
  BY DEF Deliveries

(* The fields of a row that does not exist.                                *)
LEMMA NoRowType ==
    /\ NoRow.status = "none" /\ NoRow.attempts = 0 /\ NoRow.lease = 0
    /\ NoRow.due = FALSE /\ NoRow.lapsed = FALSE
  BY DEF NoRow

\* What an intent owes depends on the rules, the channels and the messages only.
LEMMA TargetsFrame ==
    ASSUME UNCHANGED <<rules, channels, gone>>
    PROVE  \A e : targets_for(e)' = targets_for(e)
  BY DEF targets_for, match_rules, every_enabled_channel, channelsOn

\* An intent owes pushes to channels that are on, by rules that are on and theirs.
LEMMA TargetsAreOn ==
    ASSUME TypeOK, NEW e, NEW t \in targets_for(e)
    PROVE  /\ t[1] \in Channels /\ channels[t[1]] = "on"
           /\ \/ t[2] = NoRule
              \/ t[2] \in Rules /\ rules[t[2]] = "on" /\ RuleChannel[t[2]] = t[1]
<1>1. CASE t \in match_rules
  <2> DEFINE on(c) == {r \in Rules : rules[r] = "on" /\ RuleChannel[r] = c}
  <2>1. PICK c \in Channels : channels[c] = "on" /\ on(c) # {} /\ t = <<c, Min(on(c))>>
    BY <1>1 DEF match_rules, channelsOn
  <2>2. on(c) \subseteq Nat
    BY OutboxAssumption
  <2>3. Min(on(c)) \in on(c)
    BY <2>1, <2>2, MinOfNats
  <2> QED BY <2>1, <2>3
<1>2. CASE t \in every_enabled_channel
  BY <1>2 DEF every_enabled_channel, channelsOn
<1> QED BY <1>1, <1>2 DEF targets_for

\* Two pushes an intent owes to one channel are one.
LEMMA OneTargetPerChannel ==
    ASSUME NEW e, NEW t \in targets_for(e), NEW u \in targets_for(e), t[1] = u[1]
    PROVE  t[2] = u[2]
<1>1. CASE t \in match_rules /\ u \in match_rules
  <2> DEFINE on(c) == {r \in Rules : rules[r] = "on" /\ RuleChannel[r] = c}
  <2>1. PICK c \in Channels : t = <<c, Min(on(c))>>
    BY <1>1 DEF match_rules, channelsOn
  <2>2. PICK b \in Channels : u = <<b, Min(on(b))>>
    BY <1>1 DEF match_rules, channelsOn
  <2> HIDE DEF on
  <2>3. b = c
    BY <2>1, <2>2
  <2> QED BY <2>1, <2>2, <2>3
<1>2. CASE t \in every_enabled_channel /\ u \in every_enabled_channel
  BY <1>2 DEF every_enabled_channel
<1> QED BY <1>1, <1>2 DEF targets_for

\* The facts about the types that most steps need.
LEMMA RowType ==
    ASSUME TypeOK, NEW d \in Deliveries
    PROVE  /\ row[d].status \in Statuses /\ row[d].attempts \in Nat /\ row[d].lease \in Nat
           /\ row[d].due \in BOOLEAN /\ row[d].lapsed \in BOOLEAN
           /\ taken[d].attempts \in Nat /\ received[d] \in 0 .. 2 /\ attempt[d] \in Steps
           /\ restarts \in Nat /\ edits \in Nat /\ manual \in Nat /\ owner \in Nat
  BY OutboxAssumption DEF TypeOK, Counts

\* A delivery the step leaves alone.
LEMMA Untouched ==
    ASSUME TypeOK, NEW d \in Deliveries, DeliverySound(d),
           row'[d] = row[d], attempt'[d] = attempt[d], taken'[d] = taken[d],
           received'[d] = received[d], d \in doubtful' <=> d \in doubtful,
           UNCHANGED <<rules, channels, owner>>, manual' \in Nat, manual' >= manual
    PROVE  DeliverySound(d)'
<1>1. manual \in Nat /\ Retries \in Nat /\ row[d].attempts \in Nat
  BY RowType, OutboxAssumption
<1>2. Dead(d)' <=> Dead(d)
  BY DEF Dead
<1>3. RowSound(d)'
  BY <1>1, <1>2 DEF DeliverySound, RowSound
<1>4. AtWork(d)'
  BY <1>2 DEF DeliverySound, AtWork
<1>5. Known(d)'
  BY <1>2 DEF DeliverySound, Known
<1> QED BY <1>3, <1>4, <1>5 DEF DeliverySound

\* Rows that stay, or go, keep within what is owed.
LEMMA UneditedFrame ==
    ASSUME Unedited, UNCHANGED <<rules, channels, gone>>, edits' = edits,
           \A d \in Deliveries : row'[d].status # "none" => row[d].status # "none"
    PROVE  Unedited'
<1>1. \A e : targets_for(e)' = targets_for(e)
  BY TargetsFrame
<1> QED BY <1>1 DEF Unedited, EventOf

\* The first edit ends the promise about the rules the hub started with.
LEMMA EditEndsIt ==
    ASSUME TypeOK, edit
    PROVE  Unedited' /\ edits' \in 0 .. MaxFaults
  BY OutboxAssumption DEF TypeOK, edit, Unedited, Budgeted

-----------------------------------------------------------------------------
(* One lemma for each kind of step *)

\* enqueue_notification and expire touch no delivery.
LEMMA IntentStep ==
    ASSUME IInv, NEW e \in Events, enqueue_notification(e) \/ expire(e)
    PROVE  IInv'
<1>1. UNCHANGED <<row, rules, channels, gone, edits, phase, owner, attempt, taken,
                  received, doubtful, restarts, manual>>
  BY DEF enqueue_notification, expire, config, world
<1>2. TypeOK'
  BY <1>1 DEF IInv, TypeOK, enqueue_notification, expire
<1>3. ProcessSound'
  BY <1>1 DEF IInv, ProcessSound
<1>4. ASSUME NEW d \in Deliveries PROVE DeliverySound(d)'
  BY <1>1, Untouched, RowType DEF IInv
<1>5. Unedited'
  BY <1>1, UneditedFrame DEF IInv
<1> QED BY <1>2, <1>3, <1>4, <1>5 DEF IInv

\* New deliveries: the channel and the rule of each are on.
LEMMA AddedSound ==
    ASSUME IInv, PassMayStart, NEW e \in Events, NEW targets \in SUBSET targets_for(e),
           row' = add_deliveries(e, targets), attempt' = attempt,
           UNCHANGED <<rules, channels, gone, edits, owner, received, doubtful, manual>>
    PROVE  /\ row' \in [Deliveries -> [status : Statuses, attempts : Counts, due : BOOLEAN,
                                       lease : 0 .. MaxFaults + 1, lapsed : BOOLEAN]]
           /\ \A d \in Deliveries : attempt[d] = "none" /\ DeliverySound(d)'
           /\ Unedited'
<1> USE DEF IInv
<1> DEFINE New == [status |-> "pending", attempts |-> 0, due |-> TRUE, lease |-> 0, lapsed |-> FALSE]
           Adds(d) == d[1] = e /\ <<d[2], d[3]>> \in targets /\ row[d].status = "none"
           RowSet == [status : Statuses, attempts : Counts, due : BOOLEAN,
                      lease : 0 .. MaxFaults + 1, lapsed : BOOLEAN]
<1>1. New.status = "pending" /\ New.attempts = 0 /\ New \in RowSet
  BY OutboxAssumption DEF Statuses, Counts
<1>2. row' = [d \in Deliveries |-> IF Adds(d) THEN New ELSE row[d]]
  BY DEF add_deliveries
<1> HIDE DEF New, Adds
<1>3. row' \in [Deliveries -> RowSet]
  <2>1. row \in [Deliveries -> RowSet]
    BY DEF TypeOK
  <2> HIDE DEF RowSet
  <2> QED BY <1>1, <1>2, <2>1
<1>4. ASSUME NEW d \in Deliveries PROVE attempt[d] = "none"
  BY DEF PassMayStart
<1>5. ASSUME NEW d \in Deliveries, Adds(d)
      PROVE  ~Dead(d) /\ (d[3] = NoRule \/ RuleChannel[d[3]] = d[2])
  <2>1. <<d[2], d[3]>> \in targets_for(e)
    BY <1>5 DEF Adds
  <2>2. /\ channels[d[2]] = "on"
        /\ d[3] = NoRule \/ (rules[d[3]] = "on" /\ RuleChannel[d[3]] = d[2])
    BY <2>1, TargetsAreOn
  <2>3. d[3] = NoRule => d[3] \notin Rules
    BY OutboxAssumption DEF NoRule
  <2> QED BY <2>2, <2>3 DEF Dead, ChannelOf
<1>6. ASSUME NEW d \in Deliveries PROVE DeliverySound(d)'
  <2>1. CASE ~Adds(d)
    <3>1. row'[d] = row[d]
      BY <1>2, <2>1
    <3>2. AtWork(d)'
      BY <1>4 DEF AtWork
    <3>3. RowSound(d)'
      BY <3>1 DEF DeliverySound, RowSound, Dead
    <3>4. Known(d)'
      BY <3>1 DEF DeliverySound, Known, Dead
    <3> QED BY <3>2, <3>3, <3>4 DEF DeliverySound
  <2>2. CASE Adds(d)
    <3>1. row'[d] = New /\ row[d].status = "none"
      BY <1>2, <2>2 DEF Adds
    <3>2. ~Dead(d)'
      BY <1>5, <2>2 DEF Dead
    <3>3. RowSound(d)'
      <4>1. Retries \in Nat /\ manual \in Nat
        BY OutboxAssumption, RowType
      <4> QED BY <1>1, <1>5, <2>2, <3>1, <3>2, <4>1 DEF RowSound, ChannelOf
    <3>4. AtWork(d)'
      BY <1>4 DEF AtWork
    <3>5. Known(d)'
      BY <1>1, <1>4, <1>5, <2>2, <3>1, <3>2 DEF DeliverySound, Known
    <3> QED BY <3>3, <3>4, <3>5 DEF DeliverySound
  <2> QED BY <2>1, <2>2
<1>7. Unedited'
  <2>1. \A x : targets_for(x)' = targets_for(x)
    BY TargetsFrame
  <2>2. SUFFICES ASSUME edits = 0, NEW d \in Deliveries, row'[d].status # "none"
                 PROVE  <<d[2], d[3]>> \in targets_for(d[1])
    BY <2>1 DEF Unedited, EventOf
  <2>3. CASE Adds(d)
    BY <2>3 DEF Adds
  <2>4. CASE ~Adds(d)
    BY <1>2, <2>2, <2>4 DEF Unedited, EventOf
  <2> QED BY <2>3, <2>4
<1> QED BY <1>3, <1>4, <1>6, <1>7

\* expand_intent
LEMMA ExpandStep ==
    ASSUME IInv, NEW e \in Events, expand_intent(e)
    PROVE  IInv'
<1>1. /\ PassMayStart /\ row' = add_deliveries(e, targets_for(e)) /\ targets_for(e) \in SUBSET targets_for(e)
      /\ UNCHANGED <<stale, rules, channels, gone, edits, phase, owner, attempt, taken,
                      received, doubtful, restarts, manual>>
  BY DEF expand_intent, config, world
<1>2. /\ row' \in [Deliveries -> [status : Statuses, attempts : Counts, due : BOOLEAN,
                                  lease : 0 .. MaxFaults + 1, lapsed : BOOLEAN]]
      /\ \A d \in Deliveries : DeliverySound(d)'
      /\ Unedited'
  BY <1>1, AddedSound
<1>3. TypeOK'
  BY <1>1, <1>2 DEF IInv, TypeOK, expand_intent
<1>4. ProcessSound'
  BY <1>1 DEF IInv, ProcessSound
<1> QED BY <1>2, <1>3, <1>4 DEF IInv

\* expand_interrupted
LEMMA ExpandInterruptedStep ==
    ASSUME IInv, NEW e \in Events, NEW targets \in SUBSET targets_for(e),
           expand_interrupted(e, targets)
    PROVE  IInv'
<1> USE DEF IInv
<1>1. /\ PassMayStart /\ Budgeted /\ row' = add_deliveries(e, targets) /\ Forgotten
      /\ phase' = "down" /\ restarts' = restarts + 1
      /\ UNCHANGED <<intent, hasBody, stale, rules, channels, gone, edits, owner,
                      received, doubtful, manual>>
  BY DEF expand_interrupted, config, world
<1>2. attempt' = attempt /\ attempt' \in [Deliveries -> Steps]
  BY <1>1 DEF TypeOK, PassMayStart, Forgotten
<1>3. /\ row' \in [Deliveries -> [status : Statuses, attempts : Counts, due : BOOLEAN,
                                  lease : 0 .. MaxFaults + 1, lapsed : BOOLEAN]]
      /\ \A d \in Deliveries : attempt[d] = "none" /\ DeliverySound(d)'
      /\ Unedited'
  BY <1>1, <1>2, AddedSound
<1>4. restarts \in Nat /\ edits \in Nat /\ manual \in Nat /\ owner \in Nat /\ MaxFaults \in Nat
  BY OutboxAssumption DEF TypeOK
<1>5. restarts' \in 0 .. MaxFaults
  BY <1>1, <1>4 DEF Budgeted
<1>6. taken' \in [Deliveries -> [attempts : Counts, owner : 0 .. MaxFaults + 1]]
  BY <1>1, OutboxAssumption DEF Forgotten, NotTaken, Counts
<1>7. TypeOK'
  BY <1>1, <1>2, <1>3, <1>5, <1>6 DEF TypeOK
<1>8. ProcessSound'
  BY <1>1, <1>2, <1>3, <1>4 DEF ProcessSound
<1> QED BY <1>3, <1>7, <1>8

\* claim_deliveries: the rows it takes are pending and no coroutine is at work.
LEMMA ClaimStep ==
    ASSUME IInv, NEW S \in SUBSET Claimable, claim_deliveries(S)
    PROVE  IInv'
<1> USE DEF IInv
<1> DEFINE RowSet == [status : Statuses, attempts : Counts, due : BOOLEAN,
                      lease : 0 .. MaxFaults + 1, lapsed : BOOLEAN]
           Leased(d) == [row[d] EXCEPT !.lease = owner, !.lapsed = FALSE]
           Given(d) == [attempts |-> row[d].attempts, owner |-> owner]
<1>1. /\ PassMayStart
      /\ row' = [d \in Deliveries |-> IF d \in S THEN Leased(d) ELSE row[d]]
      /\ attempt' = [d \in Deliveries |-> IF d \in S THEN "sends" ELSE attempt[d]]
      /\ taken' = [d \in Deliveries |-> IF d \in S THEN Given(d) ELSE taken[d]]
      /\ UNCHANGED <<intent, hasBody, stale, rules, channels, gone, edits, phase, owner,
                      received, doubtful, restarts, manual>>
  BY DEF claim_deliveries, config, world
<1>2. ASSUME NEW d \in Deliveries
      PROVE  /\ Leased(d).status = row[d].status /\ Leased(d).attempts = row[d].attempts
             /\ Leased(d).lease = owner /\ Leased(d) \in RowSet
             /\ Given(d) \in [attempts : Counts, owner : 0 .. MaxFaults + 1]
             /\ Given(d).attempts = row[d].attempts /\ Given(d).owner = owner
  <2>1. row[d] \in RowSet /\ owner \in 0 .. MaxFaults + 1
    BY DEF TypeOK
  <2> QED BY <2>1
<1>3. S \subseteq Deliveries /\ \A d \in S : row[d].status = "pending"
  BY DEF Claimable
<1>4. \A d \in Deliveries : attempt[d] = "none"
  BY <1>1 DEF PassMayStart
<1> HIDE DEF Leased, Given
<1>5. TypeOK'
  <2>1. row' \in [Deliveries -> RowSet]
    <3>1. row \in [Deliveries -> RowSet]
      BY DEF TypeOK
    <3> HIDE DEF RowSet
    <3> QED BY <1>1, <1>2, <3>1
  <2>2. attempt' \in [Deliveries -> Steps]
    BY <1>1, <1>4 DEF Steps
  <2>3. taken' \in [Deliveries -> [attempts : Counts, owner : 0 .. MaxFaults + 1]]
    BY <1>1, <1>2 DEF TypeOK
  <2> QED BY <1>1, <2>1, <2>2, <2>3 DEF TypeOK
<1>6. ProcessSound'
  <2>1. phase # "down"
    BY <1>1 DEF PassMayStart
  <2> QED BY <1>1, <2>1 DEF ProcessSound
<1>7. ASSUME NEW d \in Deliveries PROVE DeliverySound(d)'
  <2>1. CASE d \notin S
    BY <1>1, <2>1, Untouched, RowType
  <2>2. CASE d \in S
    <3>1. /\ row'[d].status = "pending" /\ row'[d].attempts = row[d].attempts
          /\ row'[d].lease = owner
          /\ taken'[d].owner = owner /\ taken'[d].attempts = row[d].attempts
          /\ attempt'[d] = "sends" /\ row[d].status = "pending"
      BY <1>1, <1>2, <1>3, <2>2
    <3>2. ~Dead(d) /\ (Dead(d)' <=> Dead(d))
      BY <1>1, <3>1, NoRowType DEF DeliverySound, RowSound, Dead
    <3>3. RowSound(d)'
      BY <1>1, <3>1, <3>2 DEF DeliverySound, RowSound
    <3>4. AtWork(d)'
      BY <1>1, <3>1 DEF AtWork
    <3>5. Known(d)'
      BY <1>1, <1>4, <3>1, <3>2 DEF DeliverySound, Known
    <3> QED BY <3>3, <3>4, <3>5 DEF DeliverySound
  <2> QED BY <2>1, <2>2
<1>8. Unedited'
  <2>1. \A d \in Deliveries : row'[d].status = row[d].status
    BY <1>1, <1>2
  <2> QED BY <1>1, <2>1, UneditedFrame
<1> QED BY <1>5, <1>6, <1>7, <1>8

\* A coroutine goes on to its next await; nothing is sent or written.
LEMMA MovedStep ==
    ASSUME IInv, NEW d \in Deliveries, attempt[d] \notin {"none", "ok"},
           NEW step \in Steps \ {"none", "ok"}, Moved(d, step), UNCHANGED world
    PROVE  IInv'
<1> USE DEF IInv
<1>1. /\ attempt' = [attempt EXCEPT ![d] = step]
      /\ UNCHANGED <<intent, hasBody, row, stale, rules, channels, gone, edits, phase, owner,
                      taken, received, doubtful, restarts, manual>>
  BY DEF Moved, config, world
<1>2. attempt' \in [Deliveries -> Steps] /\ attempt'[d] = step
  BY <1>1 DEF TypeOK
<1>3. TypeOK'
  BY <1>1, <1>2 DEF TypeOK
<1>4. ProcessSound'
  BY <1>1 DEF ProcessSound
<1>5. ASSUME NEW x \in Deliveries PROVE DeliverySound(x)'
  <2>1. CASE x # d
    <3>1. attempt'[x] = attempt[x]
      BY <1>1, <2>1 DEF TypeOK
    <3> QED BY <1>1, <3>1, Untouched, RowType
  <2>2. CASE x = d
    <3>1. Dead(d)' <=> Dead(d)
      BY <1>1 DEF Dead
    <3>2. RowSound(d)'
      BY <1>1, <3>1 DEF DeliverySound, RowSound
    <3>3. AtWork(d)'
      BY <1>1, <3>1 DEF DeliverySound, AtWork
    <3>4. Known(d)'
      BY <1>1, <1>2, <3>1 DEF DeliverySound, Known
    <3> QED BY <2>2, <3>2, <3>3, <3>4 DEF DeliverySound
  <2> QED BY <2>1, <2>2
<1>6. Unedited'
  BY <1>1, UneditedFrame
<1> QED BY <1>3, <1>4, <1>5, <1>6

\* send_via_channel: a push goes out only while none is known to have arrived.
LEMMA SendStep ==
    ASSUME IInv, NEW d \in Deliveries, send_via_channel(d)
    PROVE  IInv'
<1> USE DEF IInv
<1>1. CASE \E step \in {"transient", "permanent"} : Moved(d, step) /\ UNCHANGED world
  BY <1>1, MovedStep DEF send_via_channel, Steps
<1>2. ASSUME NEW step \in {"ok", "transient"}, Moved(d, step),
             received' = [received EXCEPT ![d] = Again(@)],
             \/ step = "ok" /\ doubtful' = doubtful
             \/ step = "transient" /\ doubtful' = doubtful \cup {d}
      PROVE  IInv'
  <2>1. /\ attempt' = [attempt EXCEPT ![d] = step] /\ attempt[d] = "send"
        /\ UNCHANGED <<intent, hasBody, row, stale, rules, channels, gone, edits, phase, owner,
                        taken, restarts, manual>>
    BY <1>2 DEF Moved, config, send_via_channel
  <2>2. received[d] \in 0 .. 2 /\ Again(received[d]) \in 1 .. 2 /\ (received[d] = 0 => Again(received[d]) = 1)
    BY RowType, AgainType
  <2>3. attempt' \in [Deliveries -> Steps] /\ attempt'[d] = step
    BY <1>2, <2>1 DEF TypeOK, Steps
  <2>4. received' \in [Deliveries -> 0 .. 2] /\ received'[d] = Again(received[d])
    <3>1. received \in [Deliveries -> 0 .. 2] /\ Again(received[d]) \in 0 .. 2
      BY <2>2 DEF TypeOK
    <3> QED BY <1>2, <3>1
  <2>5. doubtful' \in SUBSET Deliveries
    BY <1>2 DEF TypeOK
  <2>6. TypeOK'
    BY <2>1, <2>3, <2>4, <2>5 DEF TypeOK
  <2>7. ProcessSound'
    BY <2>1 DEF ProcessSound
  <2>8. ASSUME NEW x \in Deliveries PROVE DeliverySound(x)'
    <3>1. CASE x # d
      <4>1. attempt'[x] = attempt[x] /\ received'[x] = received[x] /\ (x \in doubtful' <=> x \in doubtful)
        BY <1>2, <2>1, <3>1 DEF TypeOK
      <4> QED BY <2>1, <4>1, Untouched, RowType
    <3>2. CASE x = d
      <4>1. Dead(d)' <=> Dead(d)
        BY <2>1 DEF Dead
      <4>2. RowSound(d)'
        BY <2>1, <4>1 DEF DeliverySound, RowSound
      <4>3. AtWork(d)'
        BY <2>1, <4>1 DEF DeliverySound, AtWork
      <4>4. row[d].status # "ok"
        BY <2>1, NoRowType DEF DeliverySound, AtWork
      <4>5. received[d] > 0 => d \in doubtful
        BY <2>1, <4>4 DEF DeliverySound, Known
      <4>6. received'[d] > 0 /\ (received'[d] > 1 => d \in doubtful)
        BY <2>2, <2>4, <4>5
      <4>7. Known(d)'
        BY <1>2, <2>1, <2>3, <4>1, <4>6 DEF Known
      <4> QED BY <3>2, <4>2, <4>3, <4>7 DEF DeliverySound
    <3> QED BY <3>1, <3>2
  <2>9. Unedited'
    BY <2>1, UneditedFrame
  <2> QED BY <2>6, <2>7, <2>8, <2>9
<1> QED BY <1>1, <1>2 DEF send_via_channel

\* settle_delivery: the coroutine's outcome is written to the row it holds.
LEMMA SettleStep ==
    ASSUME IInv, NEW d \in Deliveries, attempt[d] # "none",
           NEW status \in Statuses \ {"none"}, NEW attempts,
           settle_delivery(d, status, attempts),
           attempts \in {taken[d].attempts, taken[d].attempts + 1},
           status = "pending" => attempts <= Retries,
           status = "ok" <=> attempt[d] = "ok"
    PROVE  IInv'
<1> USE DEF IInv
<1> DEFINE Outcome == [status |-> status, attempts |-> attempts, due |-> status # "pending",
                       lease |-> 0, lapsed |-> FALSE]
           RowSet == [status : Statuses, attempts : Counts, due : BOOLEAN,
                      lease : 0 .. MaxFaults + 1, lapsed : BOOLEAN]
<1>1. /\ row' = IF row[d].status = "none" THEN row ELSE [row EXCEPT ![d] = Outcome]
      /\ attempt' = [attempt EXCEPT ![d] = "none"]
      /\ taken' = [taken EXCEPT ![d] = NotTaken]
      /\ UNCHANGED <<intent, hasBody, stale, rules, channels, gone, edits, phase, owner,
                      received, doubtful, restarts, manual>>
  BY DEF settle_delivery, config, world
<1>2. Retries \in Nat /\ MaxFaults \in Nat /\ manual \in 0 .. MaxFaults /\ taken[d].attempts \in Nat
  BY OutboxAssumption, RowType DEF TypeOK
<1>3. row[d].status = "none" \/ (row[d].status = "pending" /\ row[d].attempts = taken[d].attempts)
  BY NoRowType DEF DeliverySound, AtWork
<1>4. ASSUME row[d].status # "none"
      PROVE  attempts \in Nat /\ attempts <= Retries + 1 + manual /\ attempts \in Counts
  <2>1. row[d].attempts <= Retries + manual /\ row[d].attempts = taken[d].attempts
    BY <1>3, <1>4 DEF DeliverySound, RowSound
  <2> QED BY <1>2, <2>1 DEF Counts
<1>5. row[d].status # "none" => Outcome \in RowSet
  BY <1>2, <1>4
<1>6. Outcome.status = status /\ Outcome.attempts = attempts
  OBVIOUS
<1> HIDE DEF Outcome
<1>7. TypeOK'
  <2>1. row' \in [Deliveries -> RowSet]
    <3>1. row \in [Deliveries -> RowSet]
      BY DEF TypeOK
    <3> HIDE DEF RowSet
    <3> QED BY <1>1, <1>5, <3>1
  <2>2. attempt' \in [Deliveries -> Steps]
    BY <1>1 DEF TypeOK, Steps
  <2>3. taken' \in [Deliveries -> [attempts : Counts, owner : 0 .. MaxFaults + 1]]
    <3>1. NotTaken \in [attempts : Counts, owner : 0 .. MaxFaults + 1]
      BY <1>2 DEF NotTaken, Counts
    <3> QED BY <1>1, <3>1 DEF TypeOK
  <2> QED BY <1>1, <2>1, <2>2, <2>3 DEF TypeOK
<1>8. ProcessSound'
  BY <1>1 DEF ProcessSound, TypeOK
<1>9. ASSUME NEW x \in Deliveries PROVE DeliverySound(x)'
  <2>1. CASE x # d
    <3>1. row'[x] = row[x] /\ attempt'[x] = attempt[x] /\ taken'[x] = taken[x]
      BY <1>1, <2>1 DEF TypeOK
    <3> QED BY <1>1, <3>1, Untouched, RowType
  <2>2. CASE x = d
    <3>1. attempt'[d] = "none"
      BY <1>1 DEF TypeOK
    <3>2. Dead(d)' <=> Dead(d)
      BY <1>1 DEF Dead
    <3>3. AtWork(d)'
      BY <3>1 DEF AtWork
    <3>4. CASE row[d].status = "none"
      <4>1. row'[d] = row[d] /\ Dead(d)
        BY <1>1, <3>4 DEF DeliverySound, AtWork
      <4>2. RowSound(d)'
        BY <1>1, <3>2, <4>1 DEF DeliverySound, RowSound
      <4>3. Known(d)'
        BY <1>1, <3>1, <3>2, <3>4, <4>1 DEF DeliverySound, Known
      <4> QED BY <2>2, <3>3, <4>2, <4>3 DEF DeliverySound
    <3>5. CASE row[d].status # "none"
      <4>1. row'[d] = Outcome
        BY <1>1, <3>5 DEF TypeOK
      <4>2. ~Dead(d) /\ row[d].status = "pending"
        BY <1>3, <3>5, NoRowType DEF DeliverySound, RowSound
      <4>3. RowSound(d)'
        <5>1. Retries <= Retries + manual
          BY <1>2
        <5>2. attempts <= Retries + 1 + manual
          BY <1>4, <3>5
        <5>3. status = "pending" => attempts <= Retries + manual
          BY <1>2, <1>4, <3>5
        <5> QED BY <1>1, <1>6, <3>2, <3>5, <4>1, <4>2, <5>2, <5>3 DEF DeliverySound, RowSound, Statuses
      <4>4. Known(d)'
        BY <1>1, <1>6, <3>1, <3>2, <4>1, <4>2 DEF DeliverySound, Known
      <4> QED BY <2>2, <3>3, <4>3, <4>4 DEF DeliverySound
    <3> QED BY <3>4, <3>5
  <2> QED BY <2>1, <2>2
<1>10. Unedited'
  <2>1. \A x \in Deliveries : row'[x].status # "none" => row[x].status # "none"
    BY <1>1 DEF TypeOK
  <2> QED BY <1>1, <2>1, UneditedFrame
<1> QED BY <1>7, <1>8, <1>9, <1>10

\* The coroutines that are cut off are exactly the ones whose receipt is in doubt.
LEMMA InterruptedSound ==
    ASSUME IInv, Interrupted(Deliveries), Forgotten,
           UNCHANGED <<row, rules, channels, gone, edits, owner, manual>>
    PROVE  /\ received' \in [Deliveries -> 0 .. 2] /\ doubtful' \in SUBSET Deliveries
           /\ attempt' \in [Deliveries -> Steps]
           /\ taken' \in [Deliveries -> [attempts : Counts, owner : 0 .. MaxFaults + 1]]
           /\ \A d \in Deliveries : attempt'[d] = "none" /\ DeliverySound(d)'
           /\ Unedited'
<1> USE DEF IInv
<1>1. PICK S1 \in SUBSET {d \in Deliveries : attempt[d] = "send"} :
        received' = [d \in Deliveries |-> IF d \in S1 THEN Again(received[d]) ELSE received[d]]
  BY DEF Interrupted
<1>2. \A d \in Deliveries : received[d] \in 0 .. 2 /\ Again(received[d]) \in 0 .. 2 /\ Again(received[d]) > 0
  BY RowType, AgainType
<1>3. received' \in [Deliveries -> 0 .. 2]
  BY <1>1, <1>2
<1>4. doubtful' = doubtful \cup {d \in Deliveries : attempt[d] \in {"send", "ok"}}
  BY DEF Interrupted
<1>5. attempt' \in [Deliveries -> Steps] /\ \A d \in Deliveries : attempt'[d] = "none"
  BY DEF Forgotten, Steps
<1>6. taken' \in [Deliveries -> [attempts : Counts, owner : 0 .. MaxFaults + 1]]
  BY OutboxAssumption DEF Forgotten, NotTaken, Counts
<1>7. ASSUME NEW d \in Deliveries PROVE DeliverySound(d)'
  <2>1. Dead(d)' <=> Dead(d)
    BY DEF Dead
  <2>2. RowSound(d)'
    BY <2>1 DEF DeliverySound, RowSound
  <2>3. AtWork(d)'
    BY <1>5 DEF AtWork
  <2>4. Known(d)'
    <3>1. CASE attempt[d] \in {"send", "ok"}
      <4>1. d \in doubtful'
        BY <1>4, <3>1
      <4>2. row[d].status # "ok"
        BY <3>1, NoRowType DEF DeliverySound, AtWork
      <4> QED BY <1>5, <4>1, <4>2 DEF Known
    <3>2. CASE attempt[d] \notin {"send", "ok"}
      <4>1. received'[d] = received[d] /\ (d \in doubtful' <=> d \in doubtful)
        BY <1>1, <1>4, <3>2
      <4>2. received[d] > 0 /\ d \notin doubtful => row[d].status = "ok" \/ Dead(d)
        BY <3>2 DEF DeliverySound, Known
      <4> QED BY <1>5, <2>1, <4>1, <4>2 DEF DeliverySound, Known
    <3> QED BY <3>1, <3>2
  <2> QED BY <2>2, <2>3, <2>4 DEF DeliverySound
<1>8. Unedited'
  BY UneditedFrame
<1> QED BY <1>3, <1>4, <1>5, <1>6, <1>7, <1>8 DEF TypeOK

\* crash, aclose and pause_timeout
LEMMA CutStep ==
    ASSUME IInv, crash \/ aclose \/ pause_timeout
    PROVE  IInv'
<1> USE DEF IInv
<1>1. /\ Interrupted(Deliveries) /\ Forgotten
      /\ UNCHANGED <<intent, hasBody, row, stale, rules, channels, gone, edits, owner, manual>>
  BY DEF crash, aclose, pause_timeout, config
<1>2. /\ received' \in [Deliveries -> 0 .. 2] /\ doubtful' \in SUBSET Deliveries
      /\ attempt' \in [Deliveries -> Steps]
      /\ taken' \in [Deliveries -> [attempts : Counts, owner : 0 .. MaxFaults + 1]]
      /\ \A d \in Deliveries : attempt'[d] = "none" /\ DeliverySound(d)'
      /\ Unedited'
  BY <1>1, InterruptedSound
<1>3. restarts \in Nat /\ edits \in Nat /\ manual \in Nat /\ owner \in Nat /\ MaxFaults \in Nat
  BY OutboxAssumption DEF TypeOK
<1>4. phase' \in {"down", "run", "drain", "pause"} /\ restarts' \in 0 .. MaxFaults
  BY <1>3 DEF TypeOK, crash, aclose, pause_timeout, Budgeted
<1>5. TypeOK'
  BY <1>1, <1>2, <1>4 DEF TypeOK
<1>6. ProcessSound'
  BY <1>1, <1>2, <1>3 DEF ProcessSound, crash, aclose, pause_timeout, Budgeted
<1> QED BY <1>2, <1>5, <1>6

\* pause and closed leave the deliveries alone.
LEMMA StopStep ==
    ASSUME IInv, pause \/ closed
    PROVE  IInv'
<1> USE DEF IInv
<1>1. UNCHANGED <<intent, hasBody, row, stale, rules, channels, gone, edits, owner, attempt,
                  taken, received, doubtful, manual>>
  BY DEF pause, closed, config, world
<1>2. restarts \in Nat /\ edits \in Nat /\ manual \in Nat /\ owner \in Nat /\ MaxFaults \in Nat
  BY OutboxAssumption DEF TypeOK
<1>3. phase' \in {"down", "run", "drain", "pause"} /\ restarts' \in 0 .. MaxFaults
  BY <1>2 DEF TypeOK, ProcessSound, pause, closed
<1>4. TypeOK'
  BY <1>1, <1>3 DEF TypeOK
<1>5. ProcessSound'
  <2>1. CASE pause
    BY <1>1, <1>2, <2>1 DEF ProcessSound, pause, Budgeted
  <2>2. CASE closed
    <3>1. \A d \in Deliveries : attempt[d] = "none"
      BY <2>2 DEF closed, At, TypeOK
    <3> QED BY <1>1, <1>2, <2>2, <3>1 DEF ProcessSound, closed
  <2> QED BY <2>1, <2>2
<1>6. ASSUME NEW d \in Deliveries PROVE DeliverySound(d)'
  BY <1>1, Untouched, RowType
<1>7. Unedited'
  BY <1>1, UneditedFrame
<1> QED BY <1>4, <1>5, <1>6, <1>7

\* start: the new owner finds no coroutine of the old one.
LEMMA StartStep ==
    ASSUME IInv, start
    PROVE  IInv'
<1> USE DEF IInv
<1>1. /\ phase = "down" /\ phase' = "run" /\ owner' = owner + 1
      /\ UNCHANGED <<intent, hasBody, row, stale, rules, channels, gone, edits, attempt,
                      taken, received, doubtful, restarts, manual>>
  BY DEF start, config, world
<1>2. restarts \in 0 .. MaxFaults /\ owner \in Nat /\ MaxFaults \in Nat /\ owner <= restarts
  BY <1>1, OutboxAssumption DEF TypeOK, ProcessSound
<1>3. TypeOK'
  <2>1. owner' \in 1 .. MaxFaults + 1
    BY <1>1, <1>2
  <2> QED BY <1>1, <2>1 DEF TypeOK
<1>4. ProcessSound'
  BY <1>1, <1>2 DEF ProcessSound
<1>5. ASSUME NEW d \in Deliveries PROVE DeliverySound(d)'
  <2>1. attempt'[d] = "none"
    BY <1>1 DEF ProcessSound
  <2> QED BY <1>1, <2>1 DEF DeliverySound, RowSound, AtWork, Known, Dead
<1>6. Unedited'
  BY <1>1, UneditedFrame
<1> QED BY <1>3, <1>4, <1>5, <1>6

\* retry_delivery: one attempt more for the delivery it puts back.
LEMMA RetryStep ==
    ASSUME IInv, NEW d \in Deliveries, retry_delivery(d)
    PROVE  IInv'
<1> USE DEF IInv
<1>1. /\ Budgeted /\ row[d].status \in {"failed", "expired"}
      /\ row' = [row EXCEPT ![d].status = "pending", ![d].due = TRUE,
                            ![d].lease = 0, ![d].lapsed = FALSE]
      /\ manual' = manual + 1
      /\ UNCHANGED <<intent, hasBody, stale, rules, channels, gone, edits, phase, owner, attempt,
                      taken, received, doubtful, restarts>>
  BY DEF retry_delivery, GivenUp, config, world
<1>2. /\ restarts \in Nat /\ edits \in Nat /\ manual \in Nat /\ MaxFaults \in Nat /\ Retries \in Nat
      /\ row[d].attempts \in Nat
  BY RowType, OutboxAssumption DEF TypeOK
<1>3. manual' \in 0 .. MaxFaults
  BY <1>1, <1>2 DEF Budgeted
<1>4. row' \in [Deliveries -> [status : Statuses, attempts : Counts, due : BOOLEAN,
                              lease : 0 .. MaxFaults + 1, lapsed : BOOLEAN]]
  <2> DEFINE Back == [row[d] EXCEPT !.status = "pending", !.due = TRUE, !.lease = 0, !.lapsed = FALSE]
             RowSet == [status : Statuses, attempts : Counts, due : BOOLEAN,
                        lease : 0 .. MaxFaults + 1, lapsed : BOOLEAN]
  <2>1. row' = [row EXCEPT ![d] = Back]
    BY <1>1
  <2>2. row \in [Deliveries -> RowSet] /\ row[d] \in RowSet
    BY DEF TypeOK
  <2>3. Back \in RowSet
    <3>1. "pending" \in Statuses /\ 0 \in 0 .. MaxFaults + 1
      BY <1>2 DEF Statuses
    <3>2. [row[d] EXCEPT !.status = "pending", !.lease = 0] \in RowSet
      BY <2>2, <3>1
    <3>3. Back = [[row[d] EXCEPT !.status = "pending", !.lease = 0] EXCEPT !.due = TRUE, !.lapsed = FALSE]
      BY <2>2
    <3> QED BY <3>2, <3>3
  <2> HIDE DEF Back, RowSet
  <2>4. row' \in [Deliveries -> RowSet]
    BY <2>1, <2>2, <2>3
  <2> QED BY <2>4 DEF RowSet
<1>5. /\ row'[d].status = "pending" /\ row'[d].attempts = row[d].attempts
      /\ \A x \in Deliveries \ {d} : row'[x] = row[x]
  BY <1>1 DEF TypeOK
<1>6. TypeOK'
  BY <1>1, <1>3, <1>4 DEF TypeOK
<1>7. ProcessSound'
  BY <1>1 DEF ProcessSound
<1>8. ASSUME NEW x \in Deliveries PROVE DeliverySound(x)'
  <2>1. CASE x # d
    <3>1. row'[x] = row[x]
      BY <1>5, <2>1
    <3>2. manual' \in Nat /\ manual' >= manual
      BY <1>1, <1>2
    <3> QED BY <1>1, <3>1, <3>2, Untouched
  <2>2. CASE x = d
    <3>1. ~Dead(d) /\ ~Dead(d)'
      BY <1>1, NoRowType DEF DeliverySound, RowSound, Dead
    <3>2. attempt[d] = "none"
      BY <1>1, NoRowType DEF DeliverySound, AtWork
    <3>3. RowSound(d)'
      BY <1>1, <1>2, <1>5, <3>1 DEF DeliverySound, RowSound
    <3>4. AtWork(d)'
      BY <1>1, <3>2 DEF AtWork
    <3>5. Known(d)'
      BY <1>1, <1>5, <3>1, <3>2 DEF DeliverySound, Known
    <3> QED BY <2>2, <3>3, <3>4, <3>5 DEF DeliverySound
  <2> QED BY <2>1, <2>2
<1>9. Unedited'
  <2>1. \A x \in Deliveries : row'[x].status # "none" => row[x].status # "none"
    BY <1>1, <1>5
  <2> QED BY <1>1, <2>1, UneditedFrame
<1> QED BY <1>6, <1>7, <1>8, <1>9

\* come_due and lease_lapses raise a flag of one row.
LEMMA ClockStep ==
    ASSUME IInv, NEW d \in Deliveries, come_due(d) \/ lease_lapses(d)
    PROVE  IInv'
<1> USE DEF IInv
<1>1. /\ row[d].status # "none"
      /\ UNCHANGED <<intent, hasBody, stale, rules, channels, gone, edits, phase, owner, attempt,
                      taken, received, doubtful, restarts, manual>>
  BY NoRowType DEF come_due, lease_lapses, config, world, DeliverySound, RowSound
<1>2. row' \in [Deliveries -> [status : Statuses, attempts : Counts, due : BOOLEAN,
                              lease : 0 .. MaxFaults + 1, lapsed : BOOLEAN]]
  <2> DEFINE Due == [row[d] EXCEPT !.due = TRUE]
             Lapsed == [row[d] EXCEPT !.lapsed = TRUE]
             RowSet == [status : Statuses, attempts : Counts, due : BOOLEAN,
                        lease : 0 .. MaxFaults + 1, lapsed : BOOLEAN]
  <2>1. row' = [row EXCEPT ![d] = Due] \/ row' = [row EXCEPT ![d] = Lapsed]
    BY DEF come_due, lease_lapses
  <2>2. row \in [Deliveries -> RowSet] /\ row[d] \in RowSet
    BY DEF TypeOK
  <2>3. Due \in RowSet
    BY <2>2
  <2>4. Lapsed \in RowSet
    BY <2>2
  <2> HIDE DEF Due, Lapsed, RowSet
  <2>5. row' \in [Deliveries -> RowSet]
    BY <2>1, <2>2, <2>3, <2>4
  <2> QED BY <2>5 DEF RowSet
<1>3. /\ row'[d].status = row[d].status /\ row'[d].attempts = row[d].attempts /\ row'[d].lease = row[d].lease
      /\ \A x \in Deliveries \ {d} : row'[x] = row[x]
  BY DEF TypeOK, come_due, lease_lapses
<1>4. TypeOK'
  BY <1>1, <1>2 DEF TypeOK
<1>5. ProcessSound'
  BY <1>1 DEF ProcessSound
<1>6. ASSUME NEW x \in Deliveries PROVE DeliverySound(x)'
  <2>1. CASE x # d
    BY <1>1, <1>3, <2>1, Untouched, RowType
  <2>2. CASE x = d
    <3>1. ~Dead(d) /\ ~Dead(d)'
      BY <1>1, NoRowType DEF DeliverySound, RowSound, Dead
    <3>2. RowSound(d)'
      BY <1>1, <1>3, <3>1 DEF DeliverySound, RowSound
    <3>3. AtWork(d)'
      BY <1>1, <1>3, <3>1 DEF DeliverySound, AtWork
    <3>4. Known(d)'
      BY <1>1, <1>3, <3>1 DEF DeliverySound, Known
    <3> QED BY <2>2, <3>2, <3>3, <3>4 DEF DeliverySound
  <2> QED BY <2>1, <2>2
<1>7. Unedited'
  <2>1. \A x \in Deliveries : row'[x].status # "none" => row[x].status # "none"
    BY <1>1, <1>3
  <2> QED BY <1>1, <2>1, UneditedFrame
<1> QED BY <1>4, <1>5, <1>6, <1>7

\* What edit, the common part of the administrator's actions, leaves alone.
LEMMA EditFrame ==
    ASSUME IInv, edit
    PROVE  /\ UNCHANGED <<intent, hasBody, stale, phase, owner, attempt, taken, received,
                          doubtful, restarts, manual>>
           /\ edits' \in 0 .. MaxFaults /\ Unedited' /\ ProcessSound'
<1>1. UNCHANGED <<intent, hasBody, stale, phase, owner, attempt, taken, received,
                  doubtful, restarts, manual>>
  BY DEF edit, world
<1>2. edits' \in 0 .. MaxFaults /\ Unedited'
  BY EditEndsIt DEF IInv
<1>3. ProcessSound'
  BY <1>1 DEF IInv, ProcessSound
<1> QED BY <1>1, <1>2, <1>3

\* toggle_rule, toggle_channel and purge_message take nothing back that was deleted.
LEMMA ToggleStep ==
    ASSUME IInv,
           \/ \E r \in Rules : toggle_rule(r)
           \/ \E c \in Channels : toggle_channel(c)
           \/ \E e \in Messages : purge_message(e)
    PROVE  IInv'
<1> USE DEF IInv
<1>1. edit /\ row' = row
  BY DEF toggle_rule, toggle_channel, purge_message
<1>2. /\ UNCHANGED <<intent, hasBody, stale, phase, owner, attempt, taken, received,
                      doubtful, restarts, manual>>
      /\ edits' \in 0 .. MaxFaults /\ Unedited' /\ ProcessSound'
  BY <1>1, EditFrame
<1>3. /\ rules' \in [Rules -> {"on", "off", "deleted"}]
      /\ channels' \in [Channels -> {"on", "off", "deleted"}]
      /\ gone' \in SUBSET Messages
  BY DEF TypeOK, toggle_rule, toggle_channel, purge_message, Toggled
<1>4. TypeOK'
  BY <1>1, <1>2, <1>3 DEF TypeOK
<1>5. ASSUME NEW d \in Deliveries PROVE DeliverySound(d)'
  <2>1. d[2] \in Channels
    BY DeliveryParts
  <2>2. channels'[d[2]] = "deleted" <=> channels[d[2]] = "deleted"
    BY <2>1 DEF TypeOK, toggle_rule, toggle_channel, purge_message, Toggled
  <2>3. ASSUME NEW r \in Rules
        PROVE  rules'[r] = "deleted" <=> rules[r] = "deleted"
    BY DEF TypeOK, toggle_rule, toggle_channel, purge_message, Toggled
  <2>4. Dead(d)' <=> Dead(d)
    BY <2>2, <2>3 DEF Dead, ChannelOf
  <2> QED BY <1>1, <1>2, <2>4 DEF DeliverySound, RowSound, AtWork, Known
<1> QED BY <1>2, <1>4, <1>5

\* delete_rule and delete_channel: the cascade takes exactly the deliveries that
\* can have no rule or no channel any more.
LEMMA DeleteStep ==
    ASSUME IInv, (\E r \in Rules : delete_rule(r)) \/ (\E c \in Channels : delete_channel(c))
    PROVE  IInv'
<1> USE DEF IInv
<1> DEFINE RowSet == [status : Statuses, attempts : Counts, due : BOOLEAN,
                      lease : 0 .. MaxFaults + 1, lapsed : BOOLEAN]
<1>1. edit /\ gone' = gone
  BY DEF delete_rule, delete_channel
<1>2. /\ UNCHANGED <<intent, hasBody, stale, phase, owner, attempt, taken, received,
                      doubtful, restarts, manual>>
      /\ edits' \in 0 .. MaxFaults /\ Unedited' /\ ProcessSound'
  BY <1>1, EditFrame
<1>3. /\ rules' \in [Rules -> {"on", "off", "deleted"}]
      /\ channels' \in [Channels -> {"on", "off", "deleted"}]
  BY DEF TypeOK, delete_rule, delete_channel
<1>4. row' \in [Deliveries -> RowSet] /\ \A d \in Deliveries : row'[d] = NoRow \/ row'[d] = row[d]
  <2>1. row \in [Deliveries -> RowSet]
    BY DEF TypeOK
  <2>2. NoRow \in RowSet
    BY OutboxAssumption DEF NoRow, Statuses, Counts
  <2> HIDE DEF RowSet
  <2> QED BY <2>1, <2>2 DEF delete_rule, delete_channel
<1>5. TypeOK'
  BY <1>1, <1>2, <1>3, <1>4 DEF TypeOK
<1>6. ASSUME NEW d \in Deliveries
      PROVE  /\ Dead(d) => Dead(d)'
             /\ row'[d] # row[d] => Dead(d)'
             /\ Dead(d)' => row'[d] = NoRow
  <2>1. d[2] \in Channels /\ d[3] \in Rules \cup {NoRule}
    BY DeliveryParts
  <2>2. ASSUME NEW r \in Rules, delete_rule(r)
        PROVE  /\ Dead(d) => Dead(d)'
               /\ row'[d] # row[d] => Dead(d)'
               /\ Dead(d)' => row'[d] = NoRow
    <3>1. /\ channels' = channels /\ rules' = [rules EXCEPT ![r] = "deleted"]
          /\ row'[d] = IF d[3] = r THEN NoRow ELSE row[d]
      BY <2>2 DEF delete_rule
    <3>2. Dead(d)' <=> Dead(d) \/ d[3] = r
      BY <2>1, <3>1 DEF TypeOK, Dead
    <3> QED BY <3>1, <3>2 DEF DeliverySound, RowSound
  <2>3. ASSUME NEW c \in Channels, delete_channel(c)
        PROVE  /\ Dead(d) => Dead(d)'
               /\ row'[d] # row[d] => Dead(d)'
               /\ Dead(d)' => row'[d] = NoRow
    <3>1. /\ channels' = [channels EXCEPT ![c] = "deleted"]
          /\ rules' = [r \in Rules |-> IF RuleChannel[r] = c THEN "deleted" ELSE rules[r]]
          /\ row'[d] = IF d[2] = c THEN NoRow ELSE row[d]
      BY <2>3 DEF delete_channel, ChannelOf
    <3>2. Dead(d)' <=> Dead(d) \/ d[2] = c \/ (d[3] \in Rules /\ RuleChannel[d[3]] = c)
      BY <2>1, <3>1 DEF TypeOK, Dead, ChannelOf
    <3>3. d[3] \in Rules => d[3] # NoRule
      BY OutboxAssumption DEF NoRule
    <3>4. d[3] \in Rules /\ RuleChannel[d[3]] = c /\ d[2] # c => row[d] = NoRow
      BY <3>3 DEF DeliverySound, RowSound, ChannelOf
    <3> QED BY <3>1, <3>2, <3>4 DEF DeliverySound, RowSound
  <2> QED BY <2>2, <2>3
<1>7. ASSUME NEW d \in Deliveries PROVE DeliverySound(d)'
  <2>1. row'[d] = NoRow \/ row'[d] = row[d]
    BY <1>4
  <2>2. Retries \in Nat /\ manual \in Nat
    BY RowType, OutboxAssumption
  <2>3. RowSound(d)'
    <3>1. CASE row'[d] = NoRow
      BY <1>2, <2>2, <3>1, NoRowType DEF RowSound
    <3>2. CASE row'[d] = row[d]
      BY <1>2, <1>6, <3>2 DEF DeliverySound, RowSound
    <3> QED BY <2>1, <3>1, <3>2
  <2>4. AtWork(d)'
    BY <1>2, <1>6, <2>1 DEF DeliverySound, AtWork
  <2>5. Known(d)'
    <3>1. row[d].status = "ok" => attempt[d] = "none"
      BY NoRowType DEF DeliverySound, AtWork
    <3>2. row'[d].status = "ok" => row[d].status = "ok"
      BY <2>1, NoRowType
    <3>3. row[d].status = "ok" => row'[d].status = "ok" \/ Dead(d)'
      BY <1>6, <2>1
    <3> QED BY <1>2, <1>6, <3>1, <3>2, <3>3 DEF DeliverySound, Known
  <2> QED BY <2>3, <2>4, <2>5 DEF DeliverySound
<1> QED BY <1>2, <1>5, <1>7

\* The steps of a coroutine, by what each does.
LEMMA AttemptStep ==
    ASSUME IInv, NEW d \in Deliveries,
           \/ acquire_sends(d) \/ acquire_gate(d) \/ attempt_channel(d) \/ attempt_payload(d)
           \/ send_via_channel(d) \/ attempt_succeeded(d) \/ attempt_failed(d)
    PROVE  IInv'
<1>1. CASE acquire_sends(d)
  BY <1>1, MovedStep DEF acquire_sends, Steps
<1>2. CASE acquire_gate(d)
  BY <1>2, MovedStep DEF acquire_gate, Steps
<1>3. CASE attempt_channel(d)
  <2>1. CASE Moved(d, "payload") /\ UNCHANGED world
    BY <1>3, <2>1, MovedStep DEF attempt_channel, Steps
  <2>2. CASE settle_delivery(d, "failed", taken[d].attempts)
    BY <1>3, <2>2, SettleStep DEF attempt_channel, Statuses
  <2> QED BY <1>3, <2>1, <2>2 DEF attempt_channel
<1>4. CASE attempt_payload(d)
  <2>1. CASE Moved(d, "send") /\ UNCHANGED world
    BY <1>4, <2>1, MovedStep DEF attempt_payload, Steps
  <2>2. CASE settle_delivery(d, "failed", taken[d].attempts)
    BY <1>4, <2>2, SettleStep DEF attempt_payload, Statuses
  <2> QED BY <1>4, <2>1, <2>2 DEF attempt_payload
<1>5. CASE send_via_channel(d)
  BY <1>5, SendStep
<1>6. CASE attempt_succeeded(d)
  BY <1>6, SettleStep DEF attempt_succeeded, Statuses
<1>7. CASE attempt_failed(d)
  <2> DEFINE outcome == IF MayRetry(d) THEN "pending"
                        ELSE IF EventOf(d) \in stale THEN "expired" ELSE "failed"
  <2>1. settle_delivery(d, outcome, taken[d].attempts + 1) /\ attempt[d] \in {"transient", "permanent"}
    BY <1>7 DEF attempt_failed
  <2>2. outcome \in Statuses \ {"none", "ok"}
    BY DEF Statuses
  <2>3. outcome = "pending" => taken[d].attempts + 1 <= Retries
    <3>1. taken[d].attempts \in Nat /\ Retries \in Nat
      BY RowType, OutboxAssumption DEF IInv
    <3> QED BY <3>1 DEF MayRetry
  <2> HIDE DEF outcome
  <2> QED BY <2>1, <2>2, <2>3, SettleStep
<1> QED BY <1>1, <1>2, <1>3, <1>4, <1>5, <1>6, <1>7

-----------------------------------------------------------------------------
(* The theorems *)

(* The empty outbox satisfies the inductive invariant.                     *)
LEMMA InitIInv == Init => IInv
<1> SUFFICES ASSUME Init PROVE IInv
  OBVIOUS
<1> USE OutboxAssumption DEF Init
<1>1. TypeOK
  BY DEF TypeOK, NoRow, Statuses, Steps, Counts, NotTaken
<1>2. ProcessSound
  BY DEF ProcessSound
<1>3. ASSUME NEW d \in Deliveries PROVE DeliverySound(d)
  <2>1. row[d] = NoRow /\ attempt[d] = "none" /\ received[d] = 0 /\ manual = 0
    OBVIOUS
  <2> QED BY <2>1, NoRowType DEF DeliverySound, RowSound, AtWork, Known
<1>4. Unedited
  BY NoRowType DEF Unedited
<1> QED BY <1>1, <1>2, <1>3, <1>4 DEF IInv

(* Every step of the hub keeps it.                                         *)
LEMMA NextIInv == IInv /\ [Next]_vars => IInv'
<1> SUFFICES ASSUME IInv, [Next]_vars PROVE IInv'
  OBVIOUS
<1>1. CASE \E e \in Events :
         \/ enqueue_notification(e) \/ expire(e)
         \/ \E targets \in SUBSET targets_for(e) : expand_interrupted(e, targets)
  BY <1>1, IntentStep, ExpandInterruptedStep
<1>2. CASE \/ \E r \in Rules : toggle_rule(r)
           \/ \E c \in Channels : toggle_channel(c)
           \/ \E e \in Messages : purge_message(e)
  BY <1>2, ToggleStep
<1>3. CASE (\E r \in Rules : delete_rule(r)) \/ (\E c \in Channels : delete_channel(c))
  BY <1>3, DeleteStep
<1>4. CASE Expand
  BY <1>4, ExpandStep DEF Expand
<1>5. CASE Claim
  BY <1>5, ClaimStep DEF Claim
<1>6. CASE Attempts
  BY <1>6, AttemptStep DEF Attempts
<1>7. CASE Clock
  BY <1>7, ClockStep DEF Clock
<1>8. CASE crash \/ aclose \/ pause_timeout
  BY <1>8, CutStep
<1>9. CASE pause \/ closed
  BY <1>9, StopStep
<1>10. CASE start
  BY <1>10, StartStep
<1>11. CASE \E d \in Deliveries : retry_delivery(d)
  BY <1>11, RetryStep
<1>12. CASE UNCHANGED vars
  <2>1. UNCHANGED <<intent, hasBody, row, stale, gone, rules, channels, phase, owner,
                    attempt, taken, received, doubtful, restarts, edits, manual>>
    BY <1>12 DEF vars
  <2>2. TypeOK' /\ ProcessSound'
    BY <2>1 DEF IInv, TypeOK, ProcessSound
  <2>3. ASSUME NEW d \in Deliveries PROVE DeliverySound(d)'
    BY <2>1, Untouched, RowType DEF IInv
  <2>4. Unedited'
    BY <2>1, UneditedFrame DEF IInv
  <2> QED BY <2>2, <2>3, <2>4 DEF IInv
<1> QED BY <1>1, <1>2, <1>3, <1>4, <1>5, <1>6, <1>7, <1>8, <1>9, <1>10, <1>11, <1>12 DEF Next

\* The inductive invariant holds in every state of the outbox.
THEOREM Invariance == Spec => []IInv
  BY InitIInv, NextIInv, PTL DEF Spec

\* Every column and every coroutine of the outbox keeps its type: attempts stay
\* in their budget and a lease names one of the processes there were.
THEOREM TypeCorrect == Spec => []TypeOK
<1>1. IInv => TypeOK
  BY DEF IInv
<1> QED BY <1>1, Invariance, PTL

\* notify.py pump, db.py claim_deliveries: over crashes, lapsed leases, repeated
\* expansions, deletions and manual retries a coroutine is the only one at work on
\* its row, a push arrives twice only in doubt, and a channel is owed one.
THEOREM OutboxPushesOnce == Spec => []PushedOnce
<1>1. IInv => PushedOnce
  <2> SUFFICES ASSUME IInv PROVE PushedOnce
    OBVIOUS
  <2> USE DEF IInv
  <2>1. LeaseHeld
    BY DEF LeaseHeld, At, DeliverySound, AtWork
  <2>2. NoNeedlessRepeat
    BY DEF NoNeedlessRepeat, DeliverySound, Known
  <2>3. OnePushPerChannel
    <3>1. SUFFICES ASSUME edits = 0, NEW d1 \in Deliveries, NEW d2 \in Deliveries,
                          row[d1].status # "none", row[d2].status # "none",
                          d1[1] = d2[1], d1[2] = d2[2]
                   PROVE  d1 = d2
      BY DEF OnePushPerChannel, EventOf, ChannelOf
    <3>2. /\ <<d1[2], d1[3]>> \in targets_for(d1[1])
          /\ <<d2[2], d2[3]>> \in targets_for(d1[1])
      BY <3>1 DEF Unedited, EventOf
    <3>3. d1[3] = d2[3]
      <4> DEFINE t == <<d1[2], d1[3]>>
                 u == <<d2[2], d2[3]>>
      <4>1. t[1] = u[1] /\ t[2] = d1[3] /\ u[2] = d2[3]
        BY <3>1
      <4>2. t \in targets_for(d1[1]) /\ u \in targets_for(d1[1])
        BY <3>2
      <4> HIDE DEF t, u
      <4>3. t[2] = u[2]
        BY <4>1, <4>2, OneTargetPerChannel
      <4> QED BY <4>1, <4>3
    <3> QED BY <3>1, <3>3, DeliveryParts
  <2> QED BY <2>1, <2>2, <2>3 DEF PushedOnce
<1> QED BY <1>1, Invariance, PTL

\* db.py settle_delivery, retry_delivery: what the notification log shows is true,
\* and the attempts of a delivery stay in their budget.
THEOREM OutboxStatusIsTrue == Spec => []StatusIsTrue
<1>1. IInv => StatusIsTrue
  <2> SUFFICES ASSUME IInv, NEW d \in Deliveries
               PROVE  /\ row[d].status = "ok" => received[d] > 0
                      /\ row[d].status \in {"failed", "expired"} /\ d \notin doubtful => received[d] = 0
                      /\ row[d].attempts <= Retries + 1 + manual
    BY DEF StatusIsTrue
  <2> USE DEF IInv
  <2>1. row[d].status = "ok" => received[d] > 0
    BY DEF DeliverySound, Known
  <2>2. ASSUME row[d].status \in {"failed", "expired"}, d \notin doubtful
        PROVE  received[d] = 0
    <3>1. ~Dead(d)
      BY <2>2, NoRowType DEF DeliverySound, RowSound
    <3>2. attempt[d] = "none"
      BY <2>2, NoRowType DEF DeliverySound, AtWork
    <3>3. ~(received[d] > 0)
      BY <2>2, <3>1, <3>2 DEF DeliverySound, Known
    <3>4. received[d] \in 0 .. 2
      BY RowType
    <3> QED BY <3>3, <3>4
  <2>3. row[d].attempts <= Retries + 1 + manual
    BY DEF DeliverySound, RowSound
  <2> QED BY <2>1, <2>2, <2>3
<1> QED BY <1>1, Invariance, PTL
=============================================================================
