---------------------------- MODULE Agent_proofs ----------------------------
(***************************************************************************)
(* Theorems about the agent: the SMS inbox of a module, for every set of   *)
(* message parts, however they are numbered and keyed, every number of     *)
(* slots and every number of failures; port discovery, for every set of    *)
(* ports and modules and every configuration; the AT client, for every set *)
(* of calls and URCs and every number of timeouts.                         *)
(*                                                                         *)
(* The inbox.  A part that was read once is in one place of the agent at a *)
(* time and not reported before it leaves it (Once), so it is reported     *)
(* once.  As long as no part was read twice and nothing failed, each       *)
(* coroutine finds in the slot it is about to empty what it has read there *)
(* (Undisturbed), so emptying it loses nothing.                            *)
(*                                                                         *)
(* Discovery.  The registry of claimed ports and the workers agree         *)
(* (Agreed), the ports a scan has left stay free while it holds the lock   *)
(* (Scanning), and an identity is a module's own (OwnIdentity): what a     *)
(* probe matches is the module of the device (RightClaim), and what a      *)
(* survey has found no worker is for (ReadInFull).                         *)
(*                                                                         *)
(* The AT client.  The module answers commands in the order in which they  *)
(* were written (InTurn), so the final lines that may still come are those *)
(* of the last commands, one more than timed out (Fresh), unless it waits  *)
(* for a body nobody will write (Stuck); without a timeout the response    *)
(* lines on the wire are the pending call's (Clean).                       *)
(*                                                                         *)
(* The packet-data policy keeps its types, and so does the agent made of   *)
(* these parts (Parted), which keeps what each of them promises.           *)
(***************************************************************************)
EXTENDS Agent_MC, FiniteSetTheorems, SequenceTheorems, WellFoundedInduction, TLAPS

Partial == [total : Nat, parts : SUBSET Parts, overdue : BOOLEAN]
Entry == [index : Slots, part : Parts]
FetchSteps == {"idle", "read", "diag", "delete", "discard"}
DrainSteps == {"idle", "list", "next", "delete", "discard"}

Types ==
    /\ coming \subseteq Parts
    /\ slots \in [Slots -> Parts \cup {Empty}]
    /\ online \in BOOLEAN
    /\ indexes \in Seq(Slots)
    /\ partials \in [Keys -> Partial]
    /\ fetch \in [step : FetchSteps, index : Slots \cup {0}, part : Parts \cup {Empty},
                  whole : SUBSET Parts]
    /\ drain \in [step : DrainSteps, todo : SUBSET Entry, collected : SUBSET Parts]
    /\ reports \in [Parts -> 0 .. 2]
    /\ reread \subseteq Parts /\ lost \subseteq Parts /\ stranded \subseteq Parts
    /\ downs \in Nat /\ errors \in Nat /\ downs + errors <= MaxInboxFaults

(* A partial message holds parts of its key and total, and not all.        *)
Assembled(k) ==
    /\ \A p \in partials[k].parts : KeyOf[p] = k /\ TotalOf[p] = partials[k].total
    /\ IsFiniteSet(partials[k].parts)
    /\ Cardinality(partials[k].parts) < partials[k].total \/ partials[k] = NoPartial

(* What the coroutines hold at each of their steps.                        *)
Placed ==
    /\ fetch.step # "idle" => fetch.index \in Slots
    /\ fetch.part # Empty <=> fetch.step = "diag"
    /\ fetch.whole # {} => fetch.step = "delete"
    /\ drain.step \in {"idle", "list"} => drain.todo = {} /\ drain.collected = {}
    /\ drain.step \in {"delete", "discard"} => drain.todo # {}
    /\ ~online => drain.step = "idle"

(* A part is in one slot, and a slot and a part are listed once.           *)
Single ==
    /\ \A i, j \in Slots : slots[i] = slots[j] /\ slots[i] # Empty => i = j
    /\ \A i \in Slots : slots[i] \notin coming
    /\ \A e, f \in drain.todo : e.index = f.index \/ e.part = f.part => e = f

Emptying == drain.step \in {"delete", "discard"}

(* The places a part can be in between its reading and its report.         *)
Fetched(p) == p = fetch.part
Merged(p) == p \in fetch.whole
Collected(p) == p \in drain.collected
Waits(p) == \E k \in Keys : p \in partials[k].parts
Awaited(p) == \E e \in drain.todo : e.part = p /\ ~(Emptying /\ e = Turn)

(* A part that was read once is in one place, and is not reported yet.     *)
Once(p) ==
    p \notin reread =>
        /\ Fetched(p) \/ Merged(p) \/ Collected(p) \/ Waits(p) \/ Awaited(p) => reports[p] = 0
        /\ reports[p] <= 1
        /\ Fetched(p) => ~Merged(p) /\ ~Collected(p) /\ ~Waits(p) /\ ~Awaited(p)
        /\ Merged(p) => ~Collected(p) /\ ~Waits(p) /\ ~Awaited(p)
        /\ Collected(p) => ~Waits(p) /\ ~Awaited(p)
        /\ Waits(p) => ~Awaited(p)

Known(p) == Held(p) \/ reports[p] > 0 \/ p \in lost

Calm == reread = {} /\ downs = 0 /\ errors = 0

(* The slot a coroutine is about to empty holds what it has read there.    *)
Undisturbed ==
    Calm =>
        /\ \A e \in drain.todo : slots[e.index] = e.part
        /\ Emptying => Known(Turn.part)
        /\ fetch.step = "diag" => slots[fetch.index] = fetch.part
        /\ fetch.step \in {"delete", "discard"} =>
               slots[fetch.index] \in Parts /\ Known(slots[fetch.index])
        /\ fetch.step \in {"diag", "delete", "discard"} =>
               \A e \in drain.todo : e.index # fetch.index

(* The inductive invariant.                                                *)
IInv ==
    /\ Types /\ Placed /\ Single
    /\ \A k \in Keys : Assembled(k)
    /\ \A p \in Parts : Once(p)
    /\ Undisturbed /\ Accounted /\ LostOnlyByRace

-----------------------------------------------------------------------------
(* The operators *)

(* A set of numbers that is not empty has a least member.                  *)
LEMMA LeastNumber ==
    ASSUME NEW S, S \subseteq Nat, S # {}
    PROVE  \E x \in S : \A y \in S : x <= y
<1> DEFINE LT == {ss \in Nat \X Nat : ss[1] < ss[2]}
<1>1. \E x \in S : \A y \in S : ~(<<y, x>> \in OpToRel(<, Nat))
  BY NatLessThanWellFounded, WFMin
<1>2. OpToRel(<, Nat) = LT
  BY Zenon DEF OpToRel
<1>3. PICK x \in S : \A y \in S : <<y, x>> \notin LT
  BY <1>1, <1>2, Zenon
<1> HIDE DEF LT
<1>4. \A a, b \in Nat : a < b => <<a, b>> \in LT
  BY DEF LT
<1>5. ASSUME NEW y \in S PROVE x <= y
  <2>1. x \in Nat /\ y \in Nat /\ <<y, x>> \notin LT
    BY <1>3
  <2> QED
    BY <1>4, <2>1
<1> QED
  BY <1>5

(* The sweep has a next slot as long as one is left.                       *)
LEMMA TurnFacts ==
    ASSUME Types, drain.todo # {}
    PROVE  Turn \in drain.todo /\ Turn.index \in Slots /\ Turn.part \in Parts
<1>1. drain.todo \subseteq Entry
  BY DEF Types
<1> DEFINE S == {e.index : e \in drain.todo}
<1>2. S \subseteq Nat /\ S # {}
  BY <1>1, InboxAssumption DEF Entry
<1>3. \E x \in S : \A y \in S : x <= y
  BY <1>2, LeastNumber
<1>4. \E e \in drain.todo : \A f \in drain.todo : e.index <= f.index
  BY <1>3
<1>5. Turn \in drain.todo
  BY <1>4 DEF Turn
<1> QED
  BY <1>1, <1>5 DEF Entry

(* A report counts what is reported, and nothing else.                     *)
LEMMA ReportedFacts ==
    ASSUME Types, NEW S \in SUBSET Parts
    PROVE  /\ Reported(S) \in [Parts -> 0 .. 2]
           /\ \A p \in Parts : /\ p \in S => Reported(S)[p] > 0
                               /\ p \in S /\ reports[p] = 0 => Reported(S)[p] = 1
                               /\ p \notin S => Reported(S)[p] = reports[p]
                               /\ reports[p] > 0 => Reported(S)[p] > 0
<1>1. \A p \in Parts : reports[p] \in 0 .. 2
  BY DEF Types
<1> QED
  BY <1>1 DEF Reported

(* The partial a part joins.                                               *)
LEMMA JoinedFacts ==
    ASSUME Types, \A k \in Keys : Assembled(k), NEW p \in Parts, TotalOf[p] > 1
    PROVE  /\ KeyOf[p] \in Keys /\ Joined(p) \in Partial /\ Joined(p).total = TotalOf[p]
           /\ IsFiniteSet(Joined(p).parts) /\ Cardinality(Joined(p).parts) < TotalOf[p]
           /\ \A q \in Joined(p).parts : KeyOf[q] = KeyOf[p] /\ TotalOf[q] = TotalOf[p]
           /\ Joined(p).parts \subseteq partials[KeyOf[p]].parts
           /\ \/ Joined(p).parts = partials[KeyOf[p]].parts
              \/ partials[KeyOf[p]].total # TotalOf[p]
<1> DEFINE k == KeyOf[p]
<1>1. k \in Keys
  BY DEF Keys
<1>2. partials[k] \in Partial /\ Assembled(k) /\ TotalOf[p] \in Nat
  BY <1>1, InboxAssumption DEF Types
<1>3. NoPartial \in Partial /\ NoPartial.parts = {} /\ NoPartial.total = 0
  BY DEF NoPartial, Partial
<1>4. CASE partials[k].total = TotalOf[p]
  <2>1. Joined(p) = partials[k]
    BY <1>4 DEF Joined
  <2>2. partials[k] # NoPartial
    BY <1>2, <1>3, <1>4
  <2> QED
    BY <1>1, <1>2, <1>4, <2>1, <2>2 DEF Assembled
<1>5. CASE partials[k].total # TotalOf[p]
  <2>1. Joined(p) = [NoPartial EXCEPT !.total = TotalOf[p]]
    BY <1>5 DEF Joined
  <2>2. Joined(p) \in Partial /\ Joined(p).parts = {} /\ Joined(p).total = TotalOf[p]
    BY <1>2, <2>1 DEF NoPartial, Partial
  <2>3. IsFiniteSet({}) /\ Cardinality({}) = 0
    BY FS_EmptySet
  <2> QED
    BY <1>1, <1>2, <1>5, <2>2, <2>3
<1> QED
  BY <1>4, <1>5

(* The parts of a message with one more.                                   *)
LEMMA WithFacts ==
    ASSUME Types, \A k \in Keys : Assembled(k), NEW p \in Parts, TotalOf[p] > 1
    PROVE  /\ PartsWith(p) \in SUBSET Parts /\ p \in PartsWith(p)
           /\ IsFiniteSet(PartsWith(p)) /\ Cardinality(PartsWith(p)) <= TotalOf[p]
           /\ \A q \in PartsWith(p) : KeyOf[q] = KeyOf[p] /\ TotalOf[q] = TotalOf[p]
           /\ PartsWith(p) \subseteq partials[KeyOf[p]].parts \cup {p}
<1> DEFINE J == Joined(p).parts
           R == {q \in J : PartNo[q] # PartNo[p]}
<1>1. /\ J \subseteq Parts /\ IsFiniteSet(J) /\ Cardinality(J) < TotalOf[p]
      /\ \A q \in J : KeyOf[q] = KeyOf[p] /\ TotalOf[q] = TotalOf[p]
      /\ J \subseteq partials[KeyOf[p]].parts
  BY JoinedFacts DEF Partial
<1>2. PartsWith(p) = R \cup {p}
  BY DEF PartsWith
<1> HIDE DEF J
<1>3. R \subseteq J
  OBVIOUS
<1> HIDE DEF R
<1>4. IsFiniteSet(R) /\ Cardinality(R) <= Cardinality(J)
  BY <1>1, <1>3, FS_Subset
<1>5. Cardinality(R) \in Nat /\ Cardinality(J) \in Nat /\ TotalOf[p] \in Nat
  BY <1>1, <1>4, FS_CardinalityType, InboxAssumption
<1>6. IsFiniteSet(R \cup {p}) /\ Cardinality(R \cup {p}) \in {Cardinality(R), Cardinality(R) + 1}
  BY <1>4, FS_AddElement
<1> QED
  BY <1>1, <1>2, <1>3, <1>4, <1>5, <1>6

StillWaits(p, q) == \E k \in Keys : q \in PartialsAfter(p)[k].parts

(* What becomes of a part that is pushed, and of those that waited.        *)
LEMMA PushFacts ==
    ASSUME Types, \A k \in Keys : Assembled(k), NEW p \in Parts
    PROVE  /\ push(p) \in SUBSET Parts /\ Dropped(p) \in SUBSET Parts
           /\ PartialsAfter(p) \in [Keys -> Partial]
           /\ \A q \in Parts : q \in push(p) \/ StillWaits(p, q) => q = p \/ Waits(q)
           /\ \A q \in Parts : q \in push(p) /\ (q = p => ~Waits(p)) => ~StillWaits(p, q)
           /\ \A q \in Parts : q = p \/ Waits(q) =>
                  q \in push(p) \/ StillWaits(p, q) \/ q \in Dropped(p)
<1>1. partials \in [Keys -> Partial] /\ KeyOf[p] \in Keys /\ TotalOf[p] \in Nat
  BY InboxAssumption DEF Types, Keys
<1>2. \A q \in Parts : \A k \in Keys : q \in partials[k].parts => k = KeyOf[q]
  BY DEF Assembled
<1>3. CASE TotalOf[p] <= 1
  <2>1. push(p) = {p} /\ PartialsAfter(p) = partials /\ Dropped(p) = {}
    BY <1>3 DEF push, PartialsAfter, Dropped
  <2> QED
    BY <1>1, <2>1 DEF StillWaits, Waits
<1>4. CASE TotalOf[p] > 1
  <2> DEFINE k == KeyOf[p]
             W == PartsWith(p)
             J == Joined(p)
  <2>1. /\ W \in SUBSET Parts /\ p \in W /\ W \subseteq partials[k].parts \cup {p}
        /\ \A q \in W : KeyOf[q] = k
    BY <1>4, WithFacts
  <2>2. J \in Partial
    BY <1>4, JoinedFacts
  <2>3. Dropped(p) = partials[k].parts \ W
    BY <1>1, <1>4 DEF Dropped
  <2>4. Dropped(p) \in SUBSET Parts
    BY <1>1, <2>3 DEF Partial
  <2>5. \A q \in Parts : Waits(q) => q \in partials[KeyOf[q]].parts /\ KeyOf[q] \in Keys
    BY <1>2 DEF Waits
  <2>6. CASE Cardinality(W) = TotalOf[p]
    <3>1. push(p) = W
      BY <1>1, <1>4, <2>6 DEF push
    <3>2. PartialsAfter(p) = [partials EXCEPT ![k] = NoPartial]
      <4>1. push(p) # {} /\ ~(TotalOf[p] <= 1)
        BY <1>1, <1>4, <2>1, <3>1
      <4> QED
        BY <4>1 DEF PartialsAfter
    <3>3. NoPartial \in Partial /\ NoPartial.parts = {}
      BY DEF NoPartial, Partial
    <3> HIDE DEF W, J
    <3>4. PartialsAfter(p) \in [Keys -> Partial]
      BY <1>1, <3>2, <3>3
    <3>5. \A q \in Parts : StillWaits(p, q) => Waits(q) /\ KeyOf[q] # k
      <4> SUFFICES ASSUME NEW q \in Parts, NEW j \in Keys, q \in PartialsAfter(p)[j].parts
                   PROVE  Waits(q) /\ KeyOf[q] # k
        BY DEF StillWaits
      <4>1. j # k /\ q \in partials[j].parts
        BY <1>1, <3>2, <3>3
      <4> QED
        BY <1>2, <4>1 DEF Waits
    <3>6. \A q \in Parts : Waits(q) /\ KeyOf[q] # k => StillWaits(p, q)
      <4> SUFFICES ASSUME NEW q \in Parts, Waits(q), KeyOf[q] # k PROVE StillWaits(p, q)
        OBVIOUS
      <4>1. PartialsAfter(p)[KeyOf[q]] = partials[KeyOf[q]]
        BY <1>1, <2>5, <3>2
      <4> QED
        BY <2>5, <4>1 DEF StillWaits
    <3>7. \A q \in W : q = p \/ Waits(q)
      BY <1>1, <2>1 DEF Waits
    <3>8. \A q \in Parts : q = p \/ Waits(q) => q \in W \/ StillWaits(p, q) \/ q \in Dropped(p)
      BY <2>1, <2>3, <2>5, <3>6
    <3> QED
      BY <2>1, <2>4, <3>1, <3>4, <3>5, <3>7, <3>8
  <2>7. CASE Cardinality(W) # TotalOf[p]
    <3>1. push(p) = {}
      BY <1>1, <1>4, <2>7 DEF push
    <3>2. PartialsAfter(p) = [partials EXCEPT ![k] = [J EXCEPT !.parts = W]]
      BY <1>1, <1>4, <3>1 DEF PartialsAfter
    <3> HIDE DEF W, J
    <3>3. [J EXCEPT !.parts = W] \in Partial /\ [J EXCEPT !.parts = W].parts = W
      BY <2>1, <2>2 DEF Partial
    <3>4. PartialsAfter(p) \in [Keys -> Partial] /\ PartialsAfter(p)[k].parts = W
      BY <1>1, <3>2, <3>3
    <3>5. \A j \in Keys : j # k => PartialsAfter(p)[j] = partials[j]
      BY <1>1, <3>2
    <3>6. \A q \in Parts : StillWaits(p, q) => q = p \/ Waits(q)
      <4> SUFFICES ASSUME NEW q \in Parts, NEW j \in Keys, q \in PartialsAfter(p)[j].parts
                   PROVE  q = p \/ Waits(q)
        BY DEF StillWaits
      <4>1. CASE j = k
        BY <1>1, <2>1, <3>4, <4>1 DEF Waits
      <4>2. CASE j # k
        BY <3>5, <4>2 DEF Waits
      <4> QED
        BY <4>1, <4>2
    <3>7. \A q \in Parts : q = p \/ Waits(q) => StillWaits(p, q) \/ q \in Dropped(p)
      <4> SUFFICES ASSUME NEW q \in Parts, q = p \/ Waits(q)
                   PROVE  StillWaits(p, q) \/ q \in Dropped(p)
        OBVIOUS
      <4>1. CASE q \in W
        BY <1>1, <3>4, <4>1 DEF StillWaits
      <4>2. CASE q \notin W /\ KeyOf[q] = k
        BY <2>1, <2>3, <2>5, <4>2
      <4>3. CASE KeyOf[q] # k
        BY <2>5, <3>5, <4>3 DEF StillWaits
      <4> QED
        BY <4>1, <4>2, <4>3
    <3> QED
      BY <2>4, <3>1, <3>4, <3>6, <3>7
  <2> QED
    BY <2>6, <2>7
<1> QED
  BY <1>1, <1>3, <1>4

(* A partial message stays one, or is complete and gone.                   *)
LEMMA PushAssembled ==
    ASSUME Types, \A k \in Keys : Assembled(k), NEW p \in Parts, partials' = PartialsAfter(p)
    PROVE  \A k \in Keys : Assembled(k)'
<1>1. partials \in [Keys -> Partial] /\ KeyOf[p] \in Keys /\ TotalOf[p] \in Nat
  BY InboxAssumption DEF Types, Keys
<1>2. CASE TotalOf[p] <= 1
  <2>1. partials' = partials
    BY <1>2 DEF PartialsAfter
  <2> QED
    BY <2>1 DEF Assembled
<1>3. CASE TotalOf[p] > 1
  <2> DEFINE k == KeyOf[p]
             W == PartsWith(p)
             J == Joined(p)
             n == IF push(p) # {} THEN NoPartial ELSE [J EXCEPT !.parts = W]
  <2>1. partials' = [partials EXCEPT ![k] = n]
    BY <1>1, <1>3 DEF PartialsAfter
  <2>2. \A j \in Keys : j # k => partials'[j] = partials[j]
    BY <1>1, <2>1
  <2>3. partials'[k] = n
    BY <1>1, <2>1
  <2>4. \A j \in Keys : j # k => Assembled(j)'
    BY <2>2 DEF Assembled
  <2>5. CASE push(p) # {}
    <3>1. partials'[k] = NoPartial /\ NoPartial.parts = {} /\ IsFiniteSet({})
      BY <2>3, <2>5, FS_EmptySet DEF NoPartial
    <3>2. Assembled(k)'
      BY <3>1 DEF Assembled
    <3> QED
      BY <2>4, <3>2
  <2>6. CASE push(p) = {}
    <3>1. /\ IsFiniteSet(W) /\ Cardinality(W) <= TotalOf[p] /\ p \in W
          /\ \A q \in W : KeyOf[q] = k /\ TotalOf[q] = TotalOf[p]
      BY <1>3, WithFacts
    <3>2. J \in Partial /\ J.total = TotalOf[p]
      BY <1>3, JoinedFacts
    <3>3. Cardinality(W) # TotalOf[p]
      <4>1. ~(TotalOf[p] <= 1)
        BY <1>1, <1>3
      <4> QED
        BY <2>6, <3>1, <4>1 DEF push
    <3>4. Cardinality(W) \in Nat
      BY <3>1, FS_CardinalityType
    <3> HIDE DEF W, J
    <3>5. partials'[k].parts = W /\ partials'[k].total = TotalOf[p]
      BY <2>3, <2>6, <3>2 DEF Partial
    <3>6. Assembled(k)'
      BY <1>1, <3>1, <3>3, <3>4, <3>5 DEF Assembled
    <3> QED
      BY <2>4, <3>6
  <2> QED
    BY <2>5, <2>6
<1> QED
  BY <1>1, <1>2, <1>3

(* A part that is dropped shares its key with one that differs in total or *)
(* has its number.                                                         *)
LEMMA DroppedFacts ==
    ASSUME Types, \A k \in Keys : Assembled(k), NEW p \in Parts, NEW q \in Dropped(p)
    PROVE  /\ Waits(q) /\ p \in Parts \ {q} /\ KeyOf[p] = KeyOf[q]
           /\ TotalOf[p] # TotalOf[q] \/ PartNo[p] = PartNo[q]
<1>1. KeyOf[p] \in Keys /\ TotalOf[p] \in Nat
  BY InboxAssumption DEF Keys
<1>2. TotalOf[p] > 1 /\ q \in partials[KeyOf[p]].parts /\ q \notin PartsWith(p)
  BY <1>1 DEF Dropped
<1>3. Assembled(KeyOf[p])
  BY <1>1
<1>4. KeyOf[q] = KeyOf[p] /\ TotalOf[q] = partials[KeyOf[p]].total
  BY <1>2, <1>3 DEF Assembled
<1>5. p \in PartsWith(p) /\ \A r \in Joined(p).parts : PartNo[r] # PartNo[p] => r \in PartsWith(p)
  BY DEF PartsWith
<1>6. Joined(p).parts = partials[KeyOf[p]].parts \/ partials[KeyOf[p]].total # TotalOf[p]
  BY <1>2, JoinedFacts
<1> QED
  BY <1>1, <1>2, <1>4, <1>5, <1>6 DEF Waits

(* Overdue partials leave the table with all their parts.                  *)
LEMMA FlushFacts ==
    ASSUME Types, \A k \in Keys : Assembled(k), partials' = Expired
    PROVE  /\ Flushed \in SUBSET Parts /\ partials' \in [Keys -> Partial]
           /\ \A k \in Keys : Assembled(k)'
           /\ \A q \in Parts : Waits(q)' => Waits(q) /\ q \notin Flushed
           /\ \A q \in Parts : Waits(q) => Waits(q)' \/ q \in Flushed
           /\ \A q \in Flushed : Waits(q)
<1>1. partials \in [Keys -> Partial]
  BY DEF Types
<1>2. NoPartial \in Partial /\ NoPartial.parts = {}
  BY DEF NoPartial, Partial
<1>3. \A k \in Keys : partials'[k] = IF k \in Overdue THEN NoPartial ELSE partials[k]
  BY DEF Expired
<1>4. partials' \in [Keys -> Partial]
  BY <1>1, <1>2 DEF Expired
<1>5. Overdue \subseteq Keys
  BY DEF Overdue
<1>6. \A q : q \in Flushed <=> \E k \in Overdue : q \in partials[k].parts
  BY DEF Flushed
<1>7. Flushed \in SUBSET Parts
  BY <1>1, <1>5, <1>6 DEF Partial
<1>8. \A k \in Keys : Assembled(k)'
  <2> SUFFICES ASSUME NEW k \in Keys PROVE Assembled(k)'
    OBVIOUS
  <2>1. IsFiniteSet({})
    BY FS_EmptySet
  <2> QED
    BY <1>2, <1>3, <2>1 DEF Assembled
<1>9. \A q \in Parts : Waits(q)' => Waits(q) /\ q \notin Flushed
  <2> SUFFICES ASSUME NEW q \in Parts, NEW k \in Keys, q \in partials'[k].parts
               PROVE  Waits(q) /\ q \notin Flushed
    BY DEF Waits
  <2>1. k \notin Overdue /\ q \in partials[k].parts
    BY <1>2, <1>3
  <2>2. \A j \in Keys : q \in partials[j].parts => j = k
    BY <2>1 DEF Assembled
  <2> QED
    BY <1>5, <1>6, <2>1, <2>2 DEF Waits
<1>10. \A q \in Parts : Waits(q) => Waits(q)' \/ q \in Flushed
  BY <1>3, <1>6 DEF Waits
<1>11. \A q \in Flushed : Waits(q)
  BY <1>5, <1>6 DEF Waits
<1> QED
  BY <1>4, <1>7, <1>8, <1>9, <1>10, <1>11

-----------------------------------------------------------------------------
(* What a step may leave as it was *)

(* The places a part can be held in.                                       *)
LEMMA HeldPlaces ==
    \A p : Held(p) <=> Fetched(p) \/ Merged(p) \/ Collected(p) \/ Waits(p)
BY DEF Held, Fetched, Merged, Collected, Waits

(* The idle coroutines and the empty partial.                              *)
LEMMA IdleFacts ==
    /\ NoFetch \in [step : FetchSteps, index : Slots \cup {0}, part : Parts \cup {Empty},
                    whole : SUBSET Parts]
    /\ NoFetch.step = "idle" /\ NoFetch.part = Empty /\ NoFetch.whole = {}
    /\ NoDrain \in [step : DrainSteps, todo : SUBSET Entry, collected : SUBSET Parts]
    /\ NoDrain.step = "idle" /\ NoDrain.todo = {} /\ NoDrain.collected = {}
    /\ NoPartial \in Partial /\ NoPartial.parts = {} /\ NoPartial.total = 0
BY DEF NoFetch, NoDrain, NoPartial, FetchSteps, DrainSteps, Partial

(* A part leaves its places and is not reported.                           *)
LEMMA OnceKept ==
    ASSUME NEW p \in Parts, Once(p), reports'[p] = reports[p], p \in reread => p \in reread',
           Fetched(p)' => Fetched(p), Merged(p)' => Merged(p), Collected(p)' => Collected(p),
           Waits(p)' => Waits(p), Awaited(p)' => Awaited(p)
    PROVE  Once(p)'
BY DEF Once

(* Nothing gets out of sight if what is known stays known or stored and    *)
(* what leaves a slot is known.                                            *)
LEMMA AccountedKept ==
    ASSUME Accounted, coming' = coming,
           \A q \in Parts : Stored(q) \/ Known(q) => Stored(q)' \/ Known(q)'
    PROVE  Accounted'
BY DEF Accounted, Known

(* A part that may be lost although nothing failed and nobody raced.       *)
Excused(p) ==
    \/ p \in Undecodable
    \/ \E q \in Parts \ {p} :
          KeyOf[q] = KeyOf[p] /\ (TotalOf[q] # TotalOf[p] \/ PartNo[q] = PartNo[p])

(* Only excused parts are lost while all is calm.                          *)
LEMMA LostKept ==
    ASSUME LostOnlyByRace, Calm' => Calm, Calm' => \A p \in lost' : p \in lost \/ Excused(p)
    PROVE  LostOnlyByRace'
<1>1. LostOnlyByRace <=> (Calm => \A p \in lost : Excused(p))
  BY DEF LostOnlyByRace, Calm, Excused
<1>2. LostOnlyByRace' <=> (Calm' => \A p \in lost' : Excused(p))
  BY DEF LostOnlyByRace, Calm, Excused
<1> QED
  BY <1>1, <1>2

(* The coroutines stand still and their slots are left alone.              *)
LEMMA UndisturbedKept ==
    ASSUME Types, Placed, Undisturbed, Calm' => Calm, UNCHANGED <<slots, fetch, drain>>,
           \A q \in Parts : Known(q) => Known(q)'
    PROVE  Undisturbed'
<1>1. Turn' = Turn /\ (Emptying' <=> Emptying)
  BY DEF Turn, Emptying
<1>2. Emptying => Turn.part \in Parts
  BY TurnFacts DEF Placed, Emptying
<1> QED
  BY <1>1, <1>2 DEF Undisturbed

-----------------------------------------------------------------------------
(* The module and the clock *)

(* A message lands in a free slot.                                         *)
LEMMA DeliverStep ==
    ASSUME IInv, NEW p \in Parts, NEW i \in Slots, deliver(p, i)
    PROVE  IInv'
<1>1. /\ p \in coming /\ slots[i] = Empty /\ coming' = coming \ {p}
      /\ slots' = [slots EXCEPT ![i] = p]
      /\ UNCHANGED <<online, partials, fetch, drain, reports, reread, lost, stranded, downs, errors>>
  BY DEF deliver
<1>2. indexes' \in Seq(Slots)
  BY DEF deliver, IInv, Types
<1>3. Types'
  BY <1>1, <1>2 DEF IInv, Types
<1>4. slots'[i] = p /\ \A j \in Slots \ {i} : slots'[j] = slots[j]
  BY <1>1 DEF IInv, Types
<1>5. Empty \notin Parts /\ p # Empty
  BY InboxAssumption
<1>6. Placed'
  BY <1>1 DEF IInv, Placed
<1>7. Single'
  <2>1. \A j \in Slots : slots[j] # p
    BY <1>1 DEF IInv, Single
  <2> QED
    BY <1>1, <1>4, <1>5, <2>1 DEF IInv, Single
<1>8. \A k \in Keys : Assembled(k)'
  BY <1>1 DEF IInv, Assembled
<1>9. Turn' = Turn /\ (Emptying' <=> Emptying)
  BY <1>1 DEF Turn, Emptying
<1>10. \A q \in Parts : Once(q)'
  BY <1>1, <1>9, OnceKept DEF IInv, Fetched, Merged, Collected, Waits, Awaited
<1>11. \A q \in Parts : Known(q)' <=> Known(q)
  BY <1>1 DEF Known, Held
<1>12. Undisturbed'
  <2> SUFFICES ASSUME Calm' PROVE Undisturbed'
    BY DEF Undisturbed
  <2>1. Calm
    BY <1>1 DEF Calm
  <2>2. \A e \in drain.todo : e.index \in Slots /\ e.part \in Parts
    BY DEF IInv, Types, Entry
  <2>3. \A e \in drain.todo : e.index # i /\ slots'[e.index] = e.part
    BY <1>1, <1>4, <1>5, <2>1, <2>2 DEF IInv, Undisturbed
  <2>4. Emptying => Turn.part \in Parts
    BY TurnFacts DEF IInv, Placed, Emptying
  <2>5. fetch.step \in {"diag", "delete", "discard"} =>
            fetch.index \in Slots /\ slots[fetch.index] # Empty
    BY <1>5, <2>1 DEF IInv, Placed, Undisturbed
  <2>6. fetch.step \in {"diag", "delete", "discard"} => slots'[fetch.index] = slots[fetch.index]
    BY <1>1, <1>4, <2>5
  <2> QED
    BY <1>1, <1>9, <1>11, <2>1, <2>3, <2>4, <2>6 DEF IInv, Undisturbed
<1>13. Accounted'
  <2> SUFFICES ASSUME NEW q \in Parts \ coming' PROVE Stored(q)' \/ Known(q)'
    BY DEF Accounted, Known
  <2>1. CASE q = p
    BY <1>4, <2>1 DEF Stored
  <2>2. CASE q # p
    <3>1. Stored(q) \/ Known(q)
      BY <1>1, <2>2 DEF IInv, Accounted, Known
    <3>2. Stored(q) => Stored(q)'
      BY <1>1, <1>4, <1>5 DEF Stored
    <3> QED
      BY <1>11, <3>1, <3>2
  <2> QED
    BY <2>1, <2>2
<1>14. LostOnlyByRace'
  BY <1>1 DEF IInv, LostOnlyByRace
<1> QED
  BY <1>3, <1>6, <1>7, <1>8, <1>10, <1>12, <1>13, <1>14 DEF IInv

(* A part has waited too long.                                             *)
LEMMA DeadlineStep ==
    ASSUME IInv, NEW k \in Keys, deadline(k)
    PROVE  IInv'
<1>1. /\ partials[k].parts # {} /\ partials' = [partials EXCEPT ![k].overdue = TRUE]
      /\ UNCHANGED <<coming, slots, online, indexes, fetch, drain, reports, reread, lost,
                     stranded, downs, errors>>
  BY DEF deadline
<1>2. partials \in [Keys -> Partial]
  BY DEF IInv, Types
<1>3. partials' \in [Keys -> Partial] /\ \A j \in Keys : partials'[j].parts = partials[j].parts
  BY <1>1, <1>2 DEF Partial
<1>4. \A j \in Keys : partials'[j].total = partials[j].total
  BY <1>1, <1>2 DEF Partial
<1>5. partials[k] # NoPartial /\ \A j \in Keys : j # k => partials'[j] = partials[j]
  BY <1>1, <1>2, IdleFacts
<1>6. Types' /\ Placed' /\ Single'
  BY <1>1, <1>3 DEF IInv, Types, Placed, Single
<1>7. \A j \in Keys : Assembled(j)'
  <2> SUFFICES ASSUME NEW j \in Keys PROVE Assembled(j)'
    OBVIOUS
  <2>1. Assembled(j)
    BY DEF IInv
  <2> QED
    BY <1>3, <1>4, <1>5, <2>1 DEF Assembled
<1>8. \A q \in Parts : Waits(q)' <=> Waits(q)
  BY <1>3 DEF Waits
<1>9. Turn' = Turn /\ (Emptying' <=> Emptying)
  BY <1>1 DEF Turn, Emptying
<1>10. \A q \in Parts : Once(q)'
  BY <1>1, <1>8, <1>9, OnceKept DEF IInv, Fetched, Merged, Collected, Awaited
<1>11. \A q \in Parts : (Known(q)' <=> Known(q)) /\ (Stored(q)' <=> Stored(q))
  BY <1>1, <1>3 DEF Known, Held, Stored
<1>12. Undisturbed' /\ Accounted' /\ LostOnlyByRace'
  <2>1. Calm' => Calm
    BY <1>1 DEF Calm
  <2> QED
    BY <1>1, <1>11, <2>1, UndisturbedKept, AccountedKept DEF IInv, LostOnlyByRace
<1> QED
  BY <1>6, <1>7, <1>10, <1>12 DEF IInv

(* What is overdue is reported.                                            *)
LEMMA FlushLoopStep ==
    ASSUME IInv, flush_loop
    PROVE  IInv'
<1>1. /\ partials' = Expired /\ reports' = Reported(Flushed)
      /\ UNCHANGED <<coming, slots, online, indexes, fetch, drain, reread, lost, stranded,
                     downs, errors>>
  BY DEF flush_loop
<1>2. /\ Flushed \in SUBSET Parts /\ partials' \in [Keys -> Partial]
      /\ \A k \in Keys : Assembled(k)'
      /\ \A q \in Parts : Waits(q)' => Waits(q) /\ q \notin Flushed
      /\ \A q \in Parts : Waits(q) => Waits(q)' \/ q \in Flushed
      /\ \A q \in Flushed : Waits(q)
  BY <1>1, FlushFacts DEF IInv
<1>3. /\ reports' \in [Parts -> 0 .. 2]
      /\ \A p \in Parts : /\ p \in Flushed => reports'[p] > 0
                          /\ p \in Flushed /\ reports[p] = 0 => reports'[p] = 1
                          /\ p \notin Flushed => reports'[p] = reports[p]
                          /\ reports[p] > 0 => reports'[p] > 0
  BY <1>1, <1>2, ReportedFacts DEF IInv
<1>4. Types' /\ Placed' /\ Single'
  BY <1>1, <1>2, <1>3 DEF IInv, Types, Placed, Single
<1>5. Turn' = Turn /\ (Emptying' <=> Emptying)
  BY <1>1 DEF Turn, Emptying
<1>6. \A q \in Parts : /\ Fetched(q)' <=> Fetched(q)
                       /\ Merged(q)' <=> Merged(q)
                       /\ Collected(q)' <=> Collected(q)
                       /\ Awaited(q)' <=> Awaited(q)
  BY <1>1, <1>5 DEF Fetched, Merged, Collected, Awaited
<1>7. \A q \in Parts : Once(q)'
  <2> SUFFICES ASSUME NEW q \in Parts PROVE Once(q)'
    OBVIOUS
  <2>1. Once(q)
    BY DEF IInv
  <2>2. CASE q \in Flushed
    BY <1>1, <1>2, <1>3, <1>6, <2>1, <2>2 DEF Once
  <2>3. CASE q \notin Flushed
    BY <1>1, <1>2, <1>3, <1>6, <2>1, <2>3, OnceKept
  <2> QED
    BY <2>2, <2>3
<1>8. \A q \in Parts : (Known(q) => Known(q)') /\ (Stored(q)' <=> Stored(q))
  <2> SUFFICES ASSUME NEW q \in Parts PROVE (Known(q) => Known(q)') /\ (Stored(q)' <=> Stored(q))
    OBVIOUS
  <2>1. Held(q) => Held(q)' \/ reports'[q] > 0
    BY <1>2, <1>3, <1>6 DEF Held, Fetched, Merged, Collected, Waits
  <2> QED
    BY <1>1, <1>3, <2>1 DEF Known, Stored
<1>9. Undisturbed' /\ Accounted' /\ LostOnlyByRace'
  <2>1. Calm' => Calm
    BY <1>1 DEF Calm
  <2> QED
    BY <1>1, <1>8, <2>1, UndisturbedKept, AccountedKept DEF IInv, LostOnlyByRace
<1> QED
  BY <1>2, <1>4, <1>7, <1>9 DEF IInv

-----------------------------------------------------------------------------
(* _index_loop *)

(* The coroutine takes the next index.                                     *)
LEMMA IndexLoopStep ==
    ASSUME IInv, index_loop
    PROVE  IInv'
<1>1. /\ fetch.step = "idle" /\ indexes # <<>>
      /\ fetch' = [NoFetch EXCEPT !.step = "read", !.index = Head(indexes)]
      /\ indexes' = Tail(indexes)
      /\ UNCHANGED <<coming, slots, online, partials, drain, reports, reread, lost, stranded,
                     downs, errors>>
  BY DEF index_loop
<1>2. Head(indexes) \in Slots /\ indexes' \in Seq(Slots)
  BY <1>1 DEF IInv, Types
<1>3. /\ fetch'.step = "read" /\ fetch'.part = Empty /\ fetch'.whole = {}
      /\ fetch'.index = Head(indexes)
      /\ fetch' \in [step : FetchSteps, index : Slots \cup {0}, part : Parts \cup {Empty},
                     whole : SUBSET Parts]
  BY <1>1, <1>2 DEF NoFetch, FetchSteps
<1>4. fetch.part = Empty /\ fetch.whole = {}
  BY <1>1 DEF IInv, Placed
<1>5. Types' /\ Placed' /\ Single'
  BY <1>1, <1>2, <1>3 DEF IInv, Types, Placed, Single
<1>6. \A k \in Keys : Assembled(k)'
  BY <1>1 DEF IInv, Assembled
<1>7. Turn' = Turn /\ (Emptying' <=> Emptying)
  BY <1>1 DEF Turn, Emptying
<1>8. \A q \in Parts : Once(q)'
  BY <1>1, <1>3, <1>4, <1>7, OnceKept DEF IInv, Fetched, Merged, Collected, Waits, Awaited
<1>9. \A q \in Parts : (Known(q)' <=> Known(q)) /\ (Stored(q)' <=> Stored(q))
  BY <1>1, <1>3, <1>4 DEF Known, Held, Stored
<1>10. Undisturbed'
  <2>1. Emptying => Turn.part \in Parts
    BY TurnFacts DEF IInv, Placed, Emptying
  <2>2. Calm' => Calm
    BY <1>1 DEF Calm
  <2> QED
    BY <1>1, <1>3, <1>7, <1>9, <2>1, <2>2 DEF IInv, Undisturbed
<1>11. Accounted' /\ LostOnlyByRace'
  BY <1>1, <1>9, AccountedKept DEF IInv, LostOnlyByRace
<1> QED
  BY <1>5, <1>6, <1>8, <1>10, <1>11 DEF IInv

(* The coroutine goes back to its queue empty-handed.                      *)
LEMMA EmptyHanded ==
    ASSUME IInv, fetch.step = "read", fetch' = NoFetch, downs' \in Nat, errors' \in Nat,
           downs' + errors' <= MaxInboxFaults, stranded' \subseteq Parts, Calm' => Calm,
           UNCHANGED <<coming, slots, online, indexes, partials, drain, reports, reread, lost>>
    PROVE  IInv'
<1>1. fetch.part = Empty /\ fetch.whole = {}
  BY DEF IInv, Placed
<1>2. Types' /\ Placed' /\ Single'
  BY IdleFacts DEF IInv, Types, Placed, Single
<1>3. \A k \in Keys : Assembled(k)'
  BY DEF IInv, Assembled
<1>4. Turn' = Turn /\ (Emptying' <=> Emptying)
  BY DEF Turn, Emptying
<1>5. \A q \in Parts : Once(q)'
  BY <1>1, <1>4, IdleFacts, OnceKept DEF IInv, Fetched, Merged, Collected, Waits, Awaited
<1>6. \A q \in Parts : (Known(q)' <=> Known(q)) /\ (Stored(q)' <=> Stored(q))
  BY <1>1, IdleFacts DEF Known, Held, Stored
<1>7. Undisturbed'
  <2>1. Emptying => Turn.part \in Parts
    BY TurnFacts DEF IInv, Placed, Emptying
  <2> QED
    BY <1>4, <1>6, <2>1, IdleFacts DEF IInv, Undisturbed
<1>8. Accounted' /\ LostOnlyByRace'
  BY <1>6, AccountedKept, LostKept DEF IInv
<1> QED
  BY <1>2, <1>3, <1>5, <1>7, <1>8 DEF IInv

(* AT+CMGR fails.                                                          *)
LEMMA ReadFailedStep ==
    ASSUME IInv, read_failed
    PROVE  IInv'
<1>1. /\ fetch.step = "read" /\ downs + errors < MaxInboxFaults /\ errors' = errors + 1
      /\ stranded' = stranded \cup {p \in Parts : p = slots[fetch.index]} /\ fetch' = NoFetch
      /\ UNCHANGED <<coming, slots, online, indexes, partials, drain, reports, reread, lost, downs>>
  BY DEF read_failed, MayFail
<1>2. downs \in Nat /\ errors \in Nat /\ stranded \subseteq Parts
  BY DEF IInv, Types
<1>3. downs' \in Nat /\ errors' \in Nat /\ downs' + errors' <= MaxInboxFaults /\ ~Calm'
  BY <1>1, <1>2, InboxAssumption DEF Calm
<1> QED
  BY <1>1, <1>2, <1>3, EmptyHanded

(* AT+CMGR reads the slot.                                                 *)
LEMMA ReadStoredStep ==
    ASSUME IInv, read_stored
    PROVE  IInv'
<1> DEFINE p == slots[fetch.index]
<1>1. /\ fetch.step = "read"
      /\ IF p = Empty THEN fetch' = NoFetch /\ reread' = reread
         ELSE /\ fetch' = [fetch EXCEPT !.step = "diag", !.part = p]
              /\ reread' = Seen({p})
      /\ UNCHANGED <<coming, slots, online, indexes, partials, drain, reports, lost, stranded,
                     downs, errors>>
  BY DEF read_stored
<1>2. CASE p = Empty
  <2>1. Calm' => Calm
    BY <1>1, <1>2 DEF Calm
  <2>2. downs' \in Nat /\ errors' \in Nat /\ downs' + errors' <= MaxInboxFaults /\ stranded' \subseteq Parts
    BY <1>1 DEF IInv, Types
  <2> QED
    BY <1>1, <1>2, <2>1, <2>2, EmptyHanded
<1>3. CASE p # Empty
  <2>1. /\ fetch' = [fetch EXCEPT !.step = "diag", !.part = p]
        /\ reread' = reread \cup {q \in {p} : Held(q) \/ q \in Listed \/ reports[q] > 0 \/ q \in lost}
    BY <1>1, <1>3 DEF Seen
  <2>2. fetch.index \in Slots /\ p \in Parts /\ fetch.part = Empty /\ fetch.whole = {}
    BY <1>1, <1>3 DEF IInv, Placed, Types
  <2> HIDE DEF p
  <2>3. /\ fetch'.step = "diag" /\ fetch'.part = p /\ fetch'.whole = {}
        /\ fetch'.index = fetch.index
        /\ fetch' \in [step : FetchSteps, index : Slots \cup {0}, part : Parts \cup {Empty},
                       whole : SUBSET Parts]
    BY <2>1, <2>2 DEF IInv, Types, FetchSteps
  <2>4. Types' /\ Placed' /\ Single'
    BY <1>1, <1>3, <2>1, <2>2, <2>3 DEF IInv, Types, Placed, Single
  <2>5. \A k \in Keys : Assembled(k)'
    BY <1>1 DEF IInv, Assembled
  <2>6. Turn' = Turn /\ (Emptying' <=> Emptying)
    BY <1>1 DEF Turn, Emptying
  <2>7. p \notin reread' => p \notin Listed /\ reports[p] = 0 /\ p \notin lost /\ ~Held(p)
    <3>1. reports[p] \in 0 .. 2
      BY <2>2 DEF IInv, Types
    <3> QED
      BY <2>1, <3>1
  <2>8. \A q \in Parts : Awaited(q) => q \in Listed
    BY DEF Awaited, Listed
  <2>9. \A q \in Parts : /\ Merged(q)' <=> Merged(q)
                         /\ Collected(q)' <=> Collected(q)
                         /\ Waits(q)' <=> Waits(q)
                         /\ Awaited(q)' <=> Awaited(q)
                         /\ Fetched(q)' <=> q = p
    BY <1>1, <2>2, <2>3, <2>6 DEF Merged, Collected, Waits, Awaited, Fetched
  <2>10. \A q \in Parts : Once(q)'
    <3> SUFFICES ASSUME NEW q \in Parts PROVE Once(q)'
      OBVIOUS
    <3>1. Once(q) /\ reread \subseteq reread' /\ reports' = reports
      BY <1>1, <2>1 DEF IInv
    <3>2. CASE q = p
      BY <2>7, <2>8, <2>9, <3>1, <3>2, HeldPlaces DEF Once
    <3>3. CASE q # p
      BY <2>9, <3>1, <3>3, OnceKept
    <3> QED
      BY <3>2, <3>3
  <2>11. \A q \in Parts : (Known(q) => Known(q)') /\ (Stored(q)' <=> Stored(q))
    <3>1. \A q \in Parts : Held(q) => Held(q)'
      BY <1>1, <2>2, <2>3, InboxAssumption DEF Held
    <3> QED
      BY <1>1, <3>1 DEF Known, Stored
  <2>12. Undisturbed'
    <3> SUFFICES ASSUME Calm' PROVE Undisturbed'
      BY DEF Undisturbed
    <3>1. Calm /\ p \notin Listed
      BY <1>1, <2>1, <2>7 DEF Calm
    <3>2. \A e \in drain.todo : slots[e.index] = e.part /\ e.part \in Listed
      BY <3>1 DEF IInv, Undisturbed, Listed
    <3>3. \A e \in drain.todo : e.index # fetch.index
      BY <3>1, <3>2 DEF p
    <3>4. Emptying => Turn.part \in Parts
      BY TurnFacts DEF IInv, Placed, Emptying
    <3>5. slots'[fetch'.index] = p
      BY <1>1, <2>3 DEF p
    <3> QED
      BY <1>1, <2>3, <2>6, <2>11, <3>1, <3>2, <3>3, <3>4, <3>5 DEF IInv, Undisturbed
  <2>13. Accounted' /\ LostOnlyByRace'
    <3>1. Calm' => Calm
      BY <1>1, <2>1 DEF Calm
    <3> QED
      BY <1>1, <2>11, <3>1, AccountedKept, LostKept DEF IInv
  <2> QED
    BY <2>4, <2>5, <2>10, <2>12, <2>13 DEF IInv
<1> QED
  BY <1>2, <1>3

(* The part read is decoded and joins its message.                         *)
LEMMA FetchPushStep ==
    ASSUME IInv, fetch_push
    PROVE  IInv'
<1>1. /\ fetch.step = "diag"
      /\ UNCHANGED <<coming, slots, online, indexes, drain, reports, reread, stranded, downs, errors>>
  BY DEF fetch_push
<1>2. PICK p \in Parts : p = fetch.part /\ fetch.whole = {} /\ fetch.index \in Slots
  BY <1>1 DEF IInv, Placed, Types
<1>3. Turn' = Turn /\ (Emptying' <=> Emptying)
  BY <1>1 DEF Turn, Emptying
<1>4. \A q \in Parts : /\ Collected(q)' <=> Collected(q)
                       /\ Awaited(q)' <=> Awaited(q)
                       /\ Stored(q)' <=> Stored(q)
  BY <1>1, <1>3 DEF Collected, Awaited, Stored
<1>5. Calm' <=> Calm
  BY <1>1 DEF Calm
<1>6. ASSUME /\ fetch'.step \in {"delete", "discard"} /\ fetch'.index = fetch.index
             /\ \A q \in Parts : Known(q) => Known(q)'
      PROVE  Undisturbed' /\ Accounted'
  <2>1. Known(p)'
    BY <1>2, <1>6 DEF Known, Held
  <2>2. Emptying => Turn.part \in Parts
    BY TurnFacts DEF IInv, Placed, Emptying
  <2>3. ASSUME Calm' PROVE Undisturbed'
    <3>1. Calm /\ slots[fetch.index] = p
      BY <1>1, <1>2, <1>5, <2>3 DEF IInv, Undisturbed
    <3>2. /\ slots' = slots /\ slots'[fetch'.index] = p
          /\ fetch'.index = fetch.index /\ fetch'.step # "diag"
      BY <1>1, <1>6, <3>1
    <3>3. \A e \in drain'.todo : slots'[e.index] = e.part /\ e.index # fetch'.index
      BY <1>1, <3>1, <3>2 DEF IInv, Undisturbed
    <3>4. Emptying' => Known(Turn.part)'
      BY <1>3, <1>6, <2>2, <3>1 DEF IInv, Undisturbed
    <3> QED
      BY <1>2, <2>1, <3>2, <3>3, <3>4 DEF Undisturbed
  <2> QED
    BY <1>1, <1>4, <1>6, <2>3, AccountedKept DEF IInv, Undisturbed
<1>7. CASE p \in Undecodable
  <2>1. /\ fetch' = [fetch EXCEPT !.step = "discard", !.part = Empty]
        /\ lost' = lost \cup {p} /\ partials' = partials
    BY <1>2, <1>7 DEF fetch_push
  <2>2. /\ fetch'.step = "discard" /\ fetch'.part = Empty /\ fetch'.whole = {}
        /\ fetch'.index = fetch.index
        /\ fetch' \in [step : FetchSteps, index : Slots \cup {0}, part : Parts \cup {Empty},
                       whole : SUBSET Parts]
    BY <1>2, <2>1 DEF IInv, Types, FetchSteps
  <2>3. Types' /\ Placed' /\ Single'
    BY <1>1, <1>2, <2>1, <2>2 DEF IInv, Types, Placed, Single
  <2>4. \A k \in Keys : Assembled(k)'
    BY <2>1 DEF IInv, Assembled
  <2>5. \A q \in Parts : ~Fetched(q)' /\ ~Merged(q)' /\ (Waits(q)' <=> Waits(q))
    BY <2>1, <2>2, InboxAssumption DEF Fetched, Merged, Waits
  <2>6. \A q \in Parts : Once(q)'
    BY <1>1, <1>4, <2>5, OnceKept DEF IInv
  <2>7. \A q \in Parts : Known(q) => Known(q)'
    BY <1>1, <1>2, <1>4, <2>1, <2>5, HeldPlaces DEF Known, Fetched, Merged, Held, Waits, Collected
  <2>8. Undisturbed' /\ Accounted'
    BY <1>6, <2>2, <2>7
  <2>9. LostOnlyByRace'
    BY <1>5, <1>7, <2>1, LostKept DEF IInv, Excused
  <2> QED
    BY <2>3, <2>4, <2>6, <2>8, <2>9 DEF IInv
<1>8. CASE p \notin Undecodable
  <2>1. /\ fetch' = [fetch EXCEPT !.step = "delete", !.part = Empty, !.whole = push(p)]
        /\ partials' = PartialsAfter(p) /\ lost' = lost \cup Dropped(p)
    BY <1>2, <1>8 DEF fetch_push
  <2>2. /\ push(p) \in SUBSET Parts /\ Dropped(p) \in SUBSET Parts
        /\ PartialsAfter(p) \in [Keys -> Partial]
        /\ \A q \in Parts : q \in push(p) \/ StillWaits(p, q) => q = p \/ Waits(q)
        /\ \A q \in Parts : q \in push(p) /\ (q = p => ~Waits(p)) => ~StillWaits(p, q)
        /\ \A q \in Parts : q = p \/ Waits(q) =>
               q \in push(p) \/ StillWaits(p, q) \/ q \in Dropped(p)
    BY <1>2, PushFacts DEF IInv
  <2>3. /\ fetch'.step = "delete" /\ fetch'.part = Empty /\ fetch'.whole = push(p)
        /\ fetch'.index = fetch.index
        /\ fetch' \in [step : FetchSteps, index : Slots \cup {0}, part : Parts \cup {Empty},
                       whole : SUBSET Parts]
    BY <1>2, <2>1, <2>2 DEF IInv, Types, FetchSteps
  <2>4. Types' /\ Placed' /\ Single'
    BY <1>1, <1>2, <2>1, <2>2, <2>3 DEF IInv, Types, Placed, Single
  <2>5. \A k \in Keys : Assembled(k)'
    BY <1>2, <2>1, PushAssembled DEF IInv
  <2>6. \A q \in Parts : /\ ~Fetched(q)'
                         /\ Merged(q)' <=> q \in push(p)
                         /\ Waits(q)' <=> StillWaits(p, q)
                         /\ Fetched(q) <=> q = p
                         /\ ~Merged(q)
    BY <1>2, <2>1, <2>3, InboxAssumption DEF Fetched, Merged, Waits, StillWaits
  <2>7. \A q \in Parts : Once(q)'
    <3> SUFFICES ASSUME NEW q \in Parts PROVE Once(q)'
      OBVIOUS
    <3>1. Once(q) /\ reread' = reread /\ reports' = reports
      BY <1>1 DEF IInv
    <3> QED
      BY <1>4, <2>2, <2>6, <3>1 DEF Once
  <2>8. \A q \in Parts : Known(q) => Known(q)'
    <3> SUFFICES ASSUME NEW q \in Parts, Known(q) PROVE Known(q)'
      OBVIOUS
    <3>1. Held(q) => Held(q)' \/ q \in lost'
      <4>1. Held(q) => Fetched(q) \/ Merged(q) \/ Collected(q) \/ Waits(q)
        BY HeldPlaces
      <4>2. Merged(q)' \/ Collected(q)' \/ Waits(q)' => Held(q)'
        BY DEF Held, Merged, Collected, Waits
      <4> QED
        BY <1>4, <2>1, <2>2, <2>6, <4>1, <4>2
    <3> QED
      BY <1>1, <2>1, <3>1 DEF Known
  <2>9. Undisturbed' /\ Accounted'
    BY <1>6, <2>3, <2>8
  <2>10. LostOnlyByRace'
    <3>1. \A q \in Dropped(p) : Excused(q)
      BY <1>2, DroppedFacts DEF IInv, Excused
    <3> QED
      BY <1>5, <2>1, <3>1, LostKept DEF IInv
  <2> QED
    BY <2>4, <2>5, <2>7, <2>9, <2>10 DEF IInv
<1> QED
  BY <1>7, <1>8

(* Emptying a slot: parts stay where they are, and what goes is known or   *)
(* counted as lost.                                                        *)
LEMMA DeletedFacts ==
    ASSUME Types, Single, NEW i \in Slots
    PROVE  /\ Deleted(i) \in [Slots -> Parts \cup {Empty}] /\ Deleted(i)[i] = Empty
           /\ \A j \in Slots \ {i} : Deleted(i)[j] = slots[j]
           /\ Overwritten(i) \subseteq Parts
           /\ \A q \in Overwritten(i) : q = slots[i] /\ (Known(q) => q \in lost)
           /\ \A q \in Parts : q = slots[i] => Known(q) \/ q \in Overwritten(i)
<1>1. \A q \in Parts : reports[q] \in 0 .. 2
  BY DEF Types
<1> QED
  BY <1>1 DEF Types, Deleted, Overwritten, Known

(* The slot is emptied and the message is reported.                        *)
LEMMA FetchDeleteStep ==
    ASSUME IInv, fetch_delete
    PROVE  IInv'
<1> DEFINE i == fetch.index
           W == fetch.whole
<1>1. /\ fetch.step \in {"delete", "discard"} /\ slots' = Deleted(i)
      /\ lost' = lost \cup Overwritten(i) /\ reports' = Reported(W) /\ fetch' = NoFetch
      /\ UNCHANGED <<coming, online, indexes, partials, drain, reread, stranded, downs, errors>>
  BY DEF fetch_delete
<1>2. i \in Slots /\ W \in SUBSET Parts /\ fetch.part = Empty
  BY <1>1 DEF IInv, Placed, Types
<1>3. /\ Deleted(i) \in [Slots -> Parts \cup {Empty}] /\ Deleted(i)[i] = Empty
      /\ \A j \in Slots \ {i} : Deleted(i)[j] = slots[j]
      /\ Overwritten(i) \subseteq Parts
      /\ \A q \in Overwritten(i) : q = slots[i] /\ (Known(q) => q \in lost)
      /\ \A q \in Parts : q = slots[i] => Known(q) \/ q \in Overwritten(i)
  BY <1>2, DeletedFacts DEF IInv
<1>4. /\ reports' \in [Parts -> 0 .. 2]
      /\ \A q \in Parts : /\ q \in W => reports'[q] > 0
                          /\ q \in W /\ reports[q] = 0 => reports'[q] = 1
                          /\ q \notin W => reports'[q] = reports[q]
                          /\ reports[q] > 0 => reports'[q] > 0
  BY <1>1, <1>2, ReportedFacts DEF IInv
<1>5. Types' /\ Placed'
  BY <1>1, <1>2, <1>3, <1>4, IdleFacts DEF IInv, Types, Placed
<1>6. Single'
  <2>1. \A j \in Slots : slots'[j] = slots[j] \/ slots'[j] = Empty
    BY <1>1, <1>3
  <2>2. Empty \notin coming
    BY InboxAssumption DEF IInv, Types
  <2> QED
    BY <1>1, <2>1, <2>2 DEF IInv, Single
<1>7. \A k \in Keys : Assembled(k)'
  BY <1>1 DEF IInv, Assembled
<1>8. Turn' = Turn /\ (Emptying' <=> Emptying)
  BY <1>1 DEF Turn, Emptying
<1>9. \A q \in Parts : /\ ~Fetched(q)' /\ ~Merged(q)'
                       /\ Collected(q)' <=> Collected(q)
                       /\ Waits(q)' <=> Waits(q)
                       /\ Awaited(q)' <=> Awaited(q)
                       /\ ~Fetched(q)
                       /\ Merged(q) <=> q \in W
  BY <1>1, <1>2, <1>8, IdleFacts, InboxAssumption DEF Fetched, Merged, Collected, Waits, Awaited
<1> HIDE DEF W
<1>10. \A q \in Parts : Once(q)'
  <2> SUFFICES ASSUME NEW q \in Parts PROVE Once(q)'
    OBVIOUS
  <2>1. Once(q) /\ reread' = reread
    BY <1>1 DEF IInv
  <2> QED
    BY <1>4, <1>9, <2>1 DEF Once
<1>11. \A q \in Parts : Known(q) => Known(q)'
  <2> SUFFICES ASSUME NEW q \in Parts, Known(q) PROVE Known(q)'
    OBVIOUS
  <2>1. Held(q) => Merged(q) \/ Collected(q) \/ Waits(q)
    BY <1>9, HeldPlaces
  <2>2. Collected(q)' \/ Waits(q)' => Held(q)'
    BY DEF Held, Collected, Waits
  <2> QED
    BY <1>1, <1>4, <1>9, <2>1, <2>2 DEF Known
<1>12. Undisturbed'
  <2> SUFFICES ASSUME Calm' PROVE Undisturbed'
    BY DEF Undisturbed
  <2>1. Calm
    BY <1>1 DEF Calm
  <2>2. \A e \in drain.todo : e.index \in Slots \ {i} /\ slots[e.index] = e.part
    BY <1>1, <2>1 DEF IInv, Undisturbed, Types, Entry
  <2>3. Emptying => Turn.part \in Parts
    BY TurnFacts DEF IInv, Placed, Emptying
  <2> QED
    BY <1>1, <1>3, <1>8, <1>11, <2>1, <2>2, <2>3, IdleFacts DEF IInv, Undisturbed
<1>13. Accounted'
  <2>1. \A q \in Parts : Stored(q) => Stored(q)' \/ Known(q)'
    <3> SUFFICES ASSUME NEW q \in Parts, NEW j \in Slots, slots[j] = q
                 PROVE  Stored(q)' \/ Known(q)'
      BY DEF Stored
    <3>1. CASE j = i
      BY <1>1, <1>3, <1>11, <3>1 DEF Known
    <3>2. CASE j # i
      BY <1>1, <1>3, <3>2 DEF Stored
    <3> QED
      BY <3>1, <3>2
  <2> QED
    BY <1>1, <1>11, <2>1, AccountedKept DEF IInv
<1>14. LostOnlyByRace'
  <2>1. Calm' => Calm
    BY <1>1 DEF Calm
  <2>2. Calm => slots[i] \in Parts /\ Known(slots[i])
    BY <1>1 DEF IInv, Undisturbed
  <2> QED
    BY <1>1, <1>3, <2>1, <2>2, LostKept DEF IInv
<1> QED
  BY <1>5, <1>6, <1>7, <1>10, <1>12, <1>13, <1>14 DEF IInv

(* AT+CMGD fails and the report is skipped.                                *)
LEMMA FetchDeleteFailedStep ==
    ASSUME IInv, fetch_delete_failed
    PROVE  IInv'
<1> DEFINE W == fetch.whole
<1>1. /\ fetch.step \in {"delete", "discard"} /\ downs + errors < MaxInboxFaults
      /\ errors' = errors + 1
      /\ lost' = lost \cup {p \in W : ~Stored(p)}
      /\ stranded' = stranded \cup {p \in W : Stored(p)} /\ fetch' = NoFetch
      /\ UNCHANGED <<coming, slots, online, indexes, partials, drain, reports, reread, downs>>
  BY DEF fetch_delete_failed, MayFail
<1>2. downs \in Nat /\ errors \in Nat /\ W \in SUBSET Parts /\ fetch.part = Empty
  BY <1>1 DEF IInv, Types, Placed
<1>3. downs' \in Nat /\ errors' \in Nat /\ downs' + errors' <= MaxInboxFaults /\ ~Calm'
  BY <1>1, <1>2, InboxAssumption DEF Calm
<1>4. Types' /\ Placed' /\ Single'
  <2>1. lost' \subseteq Parts /\ stranded' \subseteq Parts
    BY <1>1, <1>2 DEF IInv, Types
  <2> QED
    BY <1>1, <1>3, <2>1, IdleFacts DEF IInv, Types, Placed, Single
<1>5. \A k \in Keys : Assembled(k)'
  BY <1>1 DEF IInv, Assembled
<1>6. Turn' = Turn /\ (Emptying' <=> Emptying)
  BY <1>1 DEF Turn, Emptying
<1>7. \A q \in Parts : /\ ~Fetched(q)' /\ ~Merged(q)' /\ ~Fetched(q)
                       /\ Collected(q)' <=> Collected(q)
                       /\ Waits(q)' <=> Waits(q)
                       /\ Awaited(q)' <=> Awaited(q)
                       /\ Stored(q)' <=> Stored(q)
                       /\ Merged(q) <=> q \in W
  BY <1>1, <1>2, <1>6, IdleFacts, InboxAssumption
  DEF Fetched, Merged, Collected, Waits, Awaited, Stored
<1> HIDE DEF W
<1>8. \A q \in Parts : Once(q)'
  BY <1>1, <1>7, OnceKept DEF IInv
<1>9. Accounted'
  <2>1. ASSUME NEW q \in Parts, Known(q) PROVE Stored(q)' \/ Known(q)'
    <3>1. Held(q) => Merged(q) \/ Collected(q) \/ Waits(q)
      BY <1>7, HeldPlaces
    <3>2. Collected(q)' \/ Waits(q)' => Held(q)'
      BY DEF Held, Collected, Waits
    <3>3. q \in W => Stored(q) \/ q \in lost'
      BY <1>1
    <3> QED
      BY <1>1, <1>7, <2>1, <3>1, <3>2, <3>3 DEF Known
  <2> QED
    BY <1>1, <1>7, <2>1, AccountedKept DEF IInv
<1>10. Undisturbed' /\ LostOnlyByRace'
  BY <1>3, LostKept DEF IInv, Undisturbed
<1> QED
  BY <1>4, <1>5, <1>8, <1>9, <1>10 DEF IInv

-----------------------------------------------------------------------------
(* drain_inbox *)

(* A sweep begins, after connecting or because the store is nearly full.   *)
LEMMA SweepBegins ==
    ASSUME IInv, drain.step = "idle", drain' = [NoDrain EXCEPT !.step = "list"], online' = TRUE,
           UNCHANGED <<coming, slots, indexes, partials, fetch, reports, reread, lost, stranded,
                       downs, errors>>
    PROVE  IInv'
<1>1. drain.todo = {} /\ drain.collected = {}
  BY DEF IInv, Placed
<1>2. /\ drain'.step = "list" /\ drain'.todo = {} /\ drain'.collected = {}
      /\ drain' \in [step : DrainSteps, todo : SUBSET Entry, collected : SUBSET Parts]
  BY DEF NoDrain, DrainSteps
<1>3. Types' /\ Placed' /\ Single'
  BY <1>1, <1>2 DEF IInv, Types, Placed, Single
<1>4. \A k \in Keys : Assembled(k)'
  BY DEF IInv, Assembled
<1>5. \A q \in Parts : Once(q)'
  BY <1>1, <1>2, OnceKept DEF IInv, Fetched, Merged, Collected, Waits, Awaited
<1>6. \A q \in Parts : (Known(q)' <=> Known(q)) /\ (Stored(q)' <=> Stored(q))
  BY <1>1, <1>2 DEF Known, Held, Stored
<1>7. Undisturbed'
  <2>1. Calm' => Calm
    BY DEF Calm
  <2> QED
    BY <1>2, <1>6, <2>1 DEF IInv, Undisturbed, Emptying
<1>8. Accounted' /\ LostOnlyByRace'
  BY <1>6, AccountedKept DEF IInv, LostOnlyByRace
<1> QED
  BY <1>3, <1>4, <1>5, <1>7, <1>8 DEF IInv

(* The worker connects.                                                    *)
LEMMA ConnectStep ==
    ASSUME IInv, connect
    PROVE  IInv'
<1>1. drain.step = "idle"
  BY DEF IInv, Placed, connect
<1> QED
  BY <1>1, SweepBegins DEF connect

(* The store is nearly full.                                               *)
LEMMA SampleStatusStep ==
    ASSUME IInv, sample_status
    PROVE  IInv'
BY SweepBegins DEF sample_status

(* AT+CMGL lists the store.                                                *)
LEMMA ListStoredStep ==
    ASSUME IInv, list_stored
    PROVE  IInv'
<1> DEFINE L == {[index |-> i, part |-> slots[i]] : i \in Used}
           R == {slots[i] : i \in Used}
<1>1. /\ drain.step = "list"
      /\ drain' = [drain EXCEPT !.step = "next", !.todo = L]
      /\ reread' = reread \cup {p \in R : Held(p) \/ p \in Listed \/ reports[p] > 0 \/ p \in lost}
      /\ UNCHANGED <<coming, slots, online, indexes, partials, fetch, reports, lost, stranded,
                     downs, errors>>
  BY DEF list_stored, Seen
<1>2. drain.todo = {} /\ drain.collected = {}
  BY <1>1 DEF IInv, Placed
<1>3. \A i \in Used : i \in Slots /\ slots[i] \in Parts
  BY DEF IInv, Types, Used
<1>4. L \subseteq Entry /\ R \subseteq Parts
  BY <1>3 DEF Entry
<1>5. \A e \in L : e.index \in Slots /\ slots[e.index] = e.part /\ e.part \in R
  BY <1>3
<1>6. \A e, f \in L : e.index = f.index \/ e.part = f.part => e = f
  <2> SUFFICES ASSUME NEW i \in Used, NEW j \in Used, i = j \/ slots[i] = slots[j] PROVE i = j
    OBVIOUS
  <2> QED
    BY <1>3, InboxAssumption DEF IInv, Single
<1>7. \A q \in Parts : Stored(q) => q \in R
  <2> SUFFICES ASSUME NEW q \in Parts, NEW i \in Slots, slots[i] = q PROVE q \in R
    BY DEF Stored
  <2> QED
    BY InboxAssumption DEF Used
<1> HIDE DEF L, R
<1>8. /\ drain'.step = "next" /\ drain'.todo = L /\ drain'.collected = {}
      /\ drain' \in [step : DrainSteps, todo : SUBSET Entry, collected : SUBSET Parts]
  BY <1>1, <1>2, <1>4 DEF IInv, Types, DrainSteps
<1>9. Types' /\ Placed' /\ Single'
  <2>1. reread' \subseteq Parts
    BY <1>1, <1>4 DEF IInv, Types
  <2>2. online
    BY <1>1 DEF IInv, Placed, Types
  <2> QED
    BY <1>1, <1>6, <1>8, <2>1, <2>2 DEF IInv, Types, Placed, Single
<1>10. \A k \in Keys : Assembled(k)'
  BY <1>1 DEF IInv, Assembled
<1>11. \A q \in R : q \notin reread' => reports[q] = 0 /\ q \notin lost /\ ~Held(q)
  <2>1. \A q \in R : reports[q] \in 0 .. 2
    BY <1>4 DEF IInv, Types
  <2> QED
    BY <1>1, <2>1
<1>12. \A q \in Parts : /\ Fetched(q)' <=> Fetched(q)
                        /\ Merged(q)' <=> Merged(q)
                        /\ Waits(q)' <=> Waits(q)
                        /\ ~Collected(q)' /\ ~Awaited(q)
                        /\ Awaited(q)' => q \in R
  BY <1>1, <1>2, <1>5, <1>8 DEF Fetched, Merged, Waits, Collected, Awaited
<1>13. \A q \in Parts : Once(q)'
  <2> SUFFICES ASSUME NEW q \in Parts PROVE Once(q)'
    OBVIOUS
  <2>1. Once(q) /\ reread \subseteq reread' /\ reports' = reports
    BY <1>1 DEF IInv
  <2>2. CASE q \in R
    BY <1>11, <1>12, <2>1, <2>2, HeldPlaces DEF Once
  <2>3. CASE q \notin R
    BY <1>12, <2>1, <2>3, OnceKept
  <2> QED
    BY <2>2, <2>3
<1>14. \A q \in Parts : (Known(q)' <=> Known(q)) /\ (Stored(q)' <=> Stored(q))
  BY <1>1, <1>2, <1>8 DEF Known, Held, Stored
<1>15. Undisturbed'
  <2> SUFFICES ASSUME Calm' PROVE Undisturbed'
    BY DEF Undisturbed
  <2>1. Calm /\ \A q \in R : ~Known(q)
    BY <1>1, <1>4, <1>11 DEF Calm, Known
  <2>2. fetch.step \notin {"diag", "delete", "discard"}
    <3> SUFFICES ASSUME fetch.step \in {"diag", "delete", "discard"} PROVE FALSE
      OBVIOUS
    <3> DEFINE q == slots[fetch.index]
    <3>1. fetch.index \in Slots
      BY DEF IInv, Placed
    <3>2. q \in Parts /\ Known(q)
      BY <2>1 DEF IInv, Undisturbed, Known, Held, Types, Placed
    <3>3. q \in R
      BY <1>7, <3>1, <3>2 DEF Stored
    <3> QED
      BY <2>1, <3>2, <3>3
  <2> QED
    BY <1>1, <1>5, <1>8, <2>2 DEF Undisturbed, Emptying
<1>16. Accounted' /\ LostOnlyByRace'
  <2>1. Calm' => Calm
    BY <1>1 DEF Calm
  <2> QED
    BY <1>1, <1>14, <2>1, AccountedKept, LostKept DEF IInv
<1> QED
  BY <1>9, <1>10, <1>13, <1>15, <1>16 DEF IInv

(* The sweep decodes its next part, which joins its message.               *)
LEMMA DrainPushStep ==
    ASSUME IInv, drain_push
    PROVE  IInv'
<1>1. /\ drain.step = "next" /\ drain.todo # {}
      /\ UNCHANGED <<coming, slots, online, indexes, fetch, reports, reread, stranded, downs, errors>>
  BY DEF drain_push
<1>2. Turn \in drain.todo /\ Turn.index \in Slots /\ Turn.part \in Parts
  BY <1>1, TurnFacts DEF IInv
<1>3. PICK p \in Parts : p = Turn.part
  BY <1>2
<1>4. online
  BY <1>1 DEF IInv, Placed, Types
<1>5. \A q \in Parts : /\ Fetched(q)' <=> Fetched(q)
                       /\ Merged(q)' <=> Merged(q)
                       /\ Stored(q)' <=> Stored(q)
  BY <1>1 DEF Fetched, Merged, Stored
<1>6. Calm' <=> Calm
  BY <1>1 DEF Calm
<1>7. Awaited(p) /\ \A e \in drain.todo : e.part = p => e = Turn
  BY <1>1, <1>2, <1>3 DEF Awaited, Emptying, IInv, Single
<1>8. ASSUME drain'.step \in {"delete", "discard"}, drain'.todo = drain.todo
      PROVE  Turn' = Turn /\ \A q \in Parts : Awaited(q)' <=> Awaited(q) /\ q # p
  <2>1. Turn' = Turn /\ Emptying' /\ ~Emptying
    BY <1>1, <1>8 DEF Turn, Emptying
  <2> QED
    BY <1>3, <1>7, <1>8, <2>1 DEF Awaited
<1>9. ASSUME drain'.step \in {"delete", "discard"}, drain'.todo = drain.todo, Known(p)',
             \A q \in Parts : Known(q) => Known(q)'
      PROVE  Undisturbed' /\ Accounted'
  <2>1. Turn' = Turn
    BY <1>8, <1>9
  <2>2. Undisturbed'
    <3> SUFFICES ASSUME Calm' PROVE Undisturbed'
      BY DEF Undisturbed
    <3>1. Emptying' => Known(Turn.part)'
      BY <1>3, <1>9, <2>1
    <3> QED
      BY <1>1, <1>6, <1>9, <3>1 DEF IInv, Undisturbed
  <2> QED
    BY <1>1, <1>5, <1>9, <2>2, AccountedKept DEF IInv
<1>10. CASE p \in Undecodable
  <2>1. /\ drain' = [drain EXCEPT !.step = "discard"]
        /\ lost' = lost \cup {p} /\ partials' = partials
    BY <1>3, <1>10 DEF drain_push
  <2>2. /\ drain'.step = "discard" /\ drain'.todo = drain.todo
        /\ drain'.collected = drain.collected
        /\ drain' \in [step : DrainSteps, todo : SUBSET Entry, collected : SUBSET Parts]
    BY <2>1 DEF IInv, Types, DrainSteps
  <2>3. Types' /\ Placed' /\ Single'
    BY <1>1, <1>4, <2>1, <2>2 DEF IInv, Types, Placed, Single
  <2>4. \A k \in Keys : Assembled(k)'
    BY <2>1 DEF IInv, Assembled
  <2>5. \A q \in Parts : (Collected(q)' <=> Collected(q)) /\ (Waits(q)' <=> Waits(q))
    BY <2>1, <2>2 DEF Collected, Waits
  <2>6. \A q \in Parts : Once(q)'
    BY <1>1, <1>5, <1>8, <2>2, <2>5, OnceKept DEF IInv
  <2>7. \A q \in Parts : Known(q) => Known(q)'
    BY <1>1, <2>1, <2>2 DEF Known, Held
  <2>8. Undisturbed' /\ Accounted'
    BY <1>9, <2>1, <2>2, <2>7 DEF Known
  <2>9. LostOnlyByRace'
    BY <1>6, <1>10, <2>1, LostKept DEF IInv, Excused
  <2> QED
    BY <2>3, <2>4, <2>6, <2>8, <2>9 DEF IInv
<1>11. CASE p \notin Undecodable
  <2>1. /\ drain' = [drain EXCEPT !.step = "delete", !.collected = @ \cup push(p)]
        /\ partials' = PartialsAfter(p) /\ lost' = lost \cup Dropped(p)
    BY <1>3, <1>11 DEF drain_push
  <2>2. /\ push(p) \in SUBSET Parts /\ Dropped(p) \in SUBSET Parts
        /\ PartialsAfter(p) \in [Keys -> Partial]
        /\ \A q \in Parts : q \in push(p) \/ StillWaits(p, q) => q = p \/ Waits(q)
        /\ \A q \in Parts : q \in push(p) /\ (q = p => ~Waits(p)) => ~StillWaits(p, q)
        /\ \A q \in Parts : q = p \/ Waits(q) =>
               q \in push(p) \/ StillWaits(p, q) \/ q \in Dropped(p)
    BY PushFacts DEF IInv
  <2>3. /\ drain'.step = "delete" /\ drain'.todo = drain.todo
        /\ drain'.collected = drain.collected \cup push(p)
        /\ drain' \in [step : DrainSteps, todo : SUBSET Entry, collected : SUBSET Parts]
    BY <2>1, <2>2 DEF IInv, Types, DrainSteps
  <2>4. Types' /\ Placed' /\ Single'
    BY <1>1, <1>4, <2>1, <2>2, <2>3 DEF IInv, Types, Placed, Single
  <2>5. \A k \in Keys : Assembled(k)'
    BY <2>1, PushAssembled DEF IInv
  <2>6. \A q \in Parts : /\ Collected(q)' <=> Collected(q) \/ q \in push(p)
                         /\ Waits(q)' <=> StillWaits(p, q)
                         /\ Awaited(q)' <=> Awaited(q) /\ q # p
    BY <1>8, <2>1, <2>3 DEF Collected, Waits, StillWaits
  <2>7. \A q \in Parts : Once(q)'
    <3> SUFFICES ASSUME NEW q \in Parts PROVE Once(q)'
      OBVIOUS
    <3>1. Once(q) /\ reread' = reread /\ reports' = reports
      BY <1>1 DEF IInv
    <3> QED
      BY <1>5, <1>7, <2>2, <2>6, <3>1 DEF Once
  <2>8. \A q \in Parts : Known(q) \/ q = p => Known(q)'
    <3> SUFFICES ASSUME NEW q \in Parts, Known(q) \/ q = p PROVE Known(q)'
      OBVIOUS
    <3>1. Held(q) \/ q = p => Held(q)' \/ q \in lost'
      <4>1. Held(q) => Fetched(q) \/ Merged(q) \/ Collected(q) \/ Waits(q)
        BY HeldPlaces
      <4>2. Fetched(q)' \/ Merged(q)' \/ Collected(q)' \/ Waits(q)' => Held(q)'
        BY DEF Held, Fetched, Merged, Collected, Waits
      <4> QED
        BY <1>5, <2>1, <2>2, <2>6, <4>1, <4>2
    <3> QED
      BY <1>1, <2>1, <3>1 DEF Known
  <2>9. Undisturbed' /\ Accounted'
    BY <1>9, <2>3, <2>8
  <2>10. LostOnlyByRace'
    <3>1. \A q \in Dropped(p) : Excused(q)
      BY DroppedFacts DEF IInv, Excused
    <3> QED
      BY <1>6, <2>1, <3>1, LostKept DEF IInv
  <2> QED
    BY <2>4, <2>5, <2>7, <2>9, <2>10 DEF IInv
<1> QED
  BY <1>10, <1>11

(* The sweep empties the slot it has read.                                 *)
LEMMA DrainDeleteStep ==
    ASSUME IInv, drain_delete
    PROVE  IInv'
<1>1. /\ Emptying
      /\ slots' = Deleted(Turn.index) /\ lost' = lost \cup Overwritten(Turn.index)
      /\ drain' = [drain EXCEPT !.step = "next", !.todo = @ \ {Turn}]
      /\ UNCHANGED <<coming, online, indexes, partials, fetch, reports, reread, stranded, downs,
                     errors>>
  BY DEF drain_delete, Emptying
<1>2. drain.todo # {}
  BY <1>1 DEF IInv, Placed, Emptying
<1>3. Turn \in drain.todo /\ Turn.index \in Slots /\ Turn.part \in Parts
  BY <1>2, TurnFacts DEF IInv
<1>4. PICK t \in drain.todo : t = Turn
  BY <1>3
<1>5. PICK i \in Slots : i = t.index
  BY <1>3, <1>4
<1>6. /\ slots' = Deleted(i) /\ lost' = lost \cup Overwritten(i)
      /\ drain'.step = "next" /\ drain'.todo = drain.todo \ {t}
      /\ drain'.collected = drain.collected
      /\ drain' \in [step : DrainSteps, todo : SUBSET Entry, collected : SUBSET Parts]
  BY <1>1, <1>4, <1>5 DEF IInv, Types, DrainSteps
<1>7. /\ Deleted(i) \in [Slots -> Parts \cup {Empty}] /\ Deleted(i)[i] = Empty
      /\ \A j \in Slots \ {i} : Deleted(i)[j] = slots[j]
      /\ Overwritten(i) \subseteq Parts
      /\ \A q \in Overwritten(i) : q = slots[i] /\ (Known(q) => q \in lost)
      /\ \A q \in Parts : q = slots[i] => Known(q) \/ q \in Overwritten(i)
  BY DeletedFacts DEF IInv
<1>8. Types' /\ Placed'
  <2>1. online
    BY <1>1 DEF IInv, Placed, Types, Emptying
  <2> QED
    BY <1>1, <1>6, <1>7, <2>1 DEF IInv, Types, Placed
<1>9. Single'
  <2>1. \A j \in Slots : slots'[j] = slots[j] \/ slots'[j] = Empty
    BY <1>6, <1>7
  <2>2. Empty \notin coming
    BY InboxAssumption DEF IInv, Types
  <2> QED
    BY <1>1, <1>6, <2>1, <2>2 DEF IInv, Single
<1>10. \A k \in Keys : Assembled(k)'
  BY <1>1 DEF IInv, Assembled
<1>11. \A q \in Parts : /\ Fetched(q)' <=> Fetched(q)
                        /\ Merged(q)' <=> Merged(q)
                        /\ Collected(q)' <=> Collected(q)
                        /\ Waits(q)' <=> Waits(q)
                        /\ Awaited(q)' => Awaited(q)
  BY <1>1, <1>4, <1>6 DEF Fetched, Merged, Collected, Waits, Awaited
<1>12. \A q \in Parts : Once(q)'
  BY <1>1, <1>11, OnceKept DEF IInv
<1>13. \A q \in Parts : Known(q) => Known(q)'
  BY <1>1, <1>6 DEF Known, Held
<1>14. Undisturbed'
  <2> SUFFICES ASSUME Calm' PROVE Undisturbed'
    BY DEF Undisturbed
  <2>1. Calm
    BY <1>1 DEF Calm
  <2>2. \A e \in drain'.todo : e.index \in Slots \ {i}
    BY <1>5, <1>6 DEF IInv, Single, Types, Entry
  <2>3. \A e \in drain'.todo : slots'[e.index] = e.part
    BY <1>6, <1>7, <2>1, <2>2 DEF IInv, Undisturbed
  <2>4. fetch.step \in {"diag", "delete", "discard"} =>
            fetch.index \in Slots \ {i} /\ \A e \in drain'.todo : e.index # fetch.index
    BY <1>5, <1>6, <2>1 DEF IInv, Undisturbed, Placed
  <2>5. fetch.step \in {"diag", "delete", "discard"} => slots'[fetch.index] = slots[fetch.index]
    BY <1>6, <1>7, <2>4
  <2> QED
    BY <1>1, <1>6, <1>13, <2>1, <2>3, <2>4, <2>5 DEF IInv, Undisturbed, Emptying
<1>15. Accounted'
  <2>1. \A q \in Parts : Stored(q) => Stored(q)' \/ Known(q)'
    <3> SUFFICES ASSUME NEW q \in Parts, NEW j \in Slots, slots[j] = q
                 PROVE  Stored(q)' \/ Known(q)'
      BY DEF Stored
    <3>1. CASE j = i
      BY <1>6, <1>7, <1>13, <3>1 DEF Known
    <3>2. CASE j # i
      BY <1>6, <1>7, <3>2 DEF Stored
    <3> QED
      BY <3>1, <3>2
  <2> QED
    BY <1>1, <1>13, <2>1, AccountedKept DEF IInv
<1>16. LostOnlyByRace'
  <2>1. Calm' => Calm
    BY <1>1 DEF Calm
  <2>2. Calm => slots[i] = Turn.part /\ Known(Turn.part)
    BY <1>1, <1>4, <1>5 DEF IInv, Undisturbed
  <2>3. Calm => Known(slots[i])
    BY <2>2
  <2> QED
    BY <1>6, <1>7, <2>1, <2>3, LostKept DEF IInv
<1> QED
  BY <1>8, <1>9, <1>10, <1>12, <1>14, <1>15, <1>16 DEF IInv

(* The sweep ends and reports what it collected and what is overdue.       *)
LEMMA DrainEmitStep ==
    ASSUME IInv, drain_emit
    PROVE  IInv'
<1> DEFINE W == drain.collected \cup Flushed
<1>1. /\ drain.step = "next" /\ drain.todo = {} /\ reports' = Reported(W)
      /\ partials' = Expired /\ drain' = NoDrain
      /\ UNCHANGED <<coming, slots, online, indexes, fetch, reread, lost, stranded, downs, errors>>
  BY DEF drain_emit
<1>2. /\ Flushed \in SUBSET Parts /\ partials' \in [Keys -> Partial]
      /\ \A k \in Keys : Assembled(k)'
      /\ \A q \in Parts : Waits(q)' => Waits(q) /\ q \notin Flushed
      /\ \A q \in Parts : Waits(q) => Waits(q)' \/ q \in Flushed
      /\ \A q \in Flushed : Waits(q)
  BY <1>1, FlushFacts DEF IInv
<1>3. W \in SUBSET Parts
  BY <1>2 DEF IInv, Types
<1>4. \A q \in Parts : q \in W <=> Collected(q) \/ q \in Flushed
  BY DEF Collected
<1> HIDE DEF W
<1>5. /\ reports' \in [Parts -> 0 .. 2]
      /\ \A q \in Parts : /\ q \in W => reports'[q] > 0
                          /\ q \in W /\ reports[q] = 0 => reports'[q] = 1
                          /\ q \notin W => reports'[q] = reports[q]
                          /\ reports[q] > 0 => reports'[q] > 0
  BY <1>1, <1>3, ReportedFacts DEF IInv
<1>6. Types' /\ Placed' /\ Single'
  BY <1>1, <1>2, <1>5, IdleFacts DEF IInv, Types, Placed, Single
<1>7. \A q \in Parts : /\ Fetched(q)' <=> Fetched(q)
                       /\ Merged(q)' <=> Merged(q)
                       /\ ~Collected(q)' /\ ~Awaited(q)'
  BY <1>1, IdleFacts DEF Fetched, Merged, Collected, Awaited
<1>8. \A q \in Parts : Once(q)'
  <2> SUFFICES ASSUME NEW q \in Parts PROVE Once(q)'
    OBVIOUS
  <2>1. Once(q) /\ reread' = reread
    BY <1>1 DEF IInv
  <2>2. CASE q \in W
    BY <1>2, <1>4, <1>5, <1>7, <2>1, <2>2 DEF Once
  <2>3. CASE q \notin W
    BY <1>2, <1>5, <1>7, <2>1, <2>3, OnceKept
  <2> QED
    BY <2>2, <2>3
<1>9. \A q \in Parts : (Known(q) => Known(q)') /\ (Stored(q)' <=> Stored(q))
  <2> SUFFICES ASSUME NEW q \in Parts PROVE (Known(q) => Known(q)') /\ (Stored(q)' <=> Stored(q))
    OBVIOUS
  <2>1. Held(q) => Fetched(q) \/ Merged(q) \/ Collected(q) \/ Waits(q)
    BY HeldPlaces
  <2>2. Fetched(q)' \/ Merged(q)' \/ Waits(q)' => Held(q)'
    BY DEF Held, Fetched, Merged, Waits
  <2>3. Held(q) => Held(q)' \/ reports'[q] > 0
    BY <1>2, <1>4, <1>5, <1>7, <2>1, <2>2
  <2> QED
    BY <1>1, <1>5, <2>3 DEF Known, Stored
<1>10. Undisturbed' /\ Accounted' /\ LostOnlyByRace'
  <2>1. Calm' => Calm
    BY <1>1 DEF Calm
  <2>2. Undisturbed'
    BY <1>1, <1>9, <2>1, IdleFacts DEF IInv, Undisturbed, Emptying
  <2> QED
    BY <1>1, <1>9, <2>1, <2>2, AccountedKept, LostKept DEF IInv
<1> QED
  BY <1>2, <1>6, <1>8, <1>10 DEF IInv

-----------------------------------------------------------------------------
(* The port, and the theorems *)

(* Without partial messages nothing is overdue and nothing waits.          *)
LEMMA NoPartials ==
    ASSUME partials' = [k \in Keys |-> NoPartial]
    PROVE  partials' \in [Keys -> Partial] /\ \A k \in Keys : Assembled(k)'
<1>1. IsFiniteSet({})
  BY FS_EmptySet
<1> QED
  BY <1>1, IdleFacts DEF Assembled

(* The port is lost and the agent's hands are emptied.                     *)
LEMMA PortLostStep ==
    ASSUME IInv, port_lost
    PROVE  IInv'
<1>1. /\ downs + errors < MaxInboxFaults /\ downs' = downs + 1 /\ online' = FALSE
      /\ lost' = lost \cup {p \in InHand : reports[p] = 0 /\ ~Stored(p)}
      /\ fetch' = NoFetch /\ drain' = NoDrain /\ indexes' = <<>>
      /\ partials' = [k \in Keys |-> NoPartial]
      /\ UNCHANGED <<coming, slots, reports, reread, stranded, errors>>
  BY DEF port_lost, MayFail
<1>2. downs \in Nat /\ errors \in Nat
  BY DEF IInv, Types
<1>3. downs' \in Nat /\ errors' \in Nat /\ downs' + errors' <= MaxInboxFaults /\ ~Calm'
  BY <1>1, <1>2, InboxAssumption DEF Calm
<1>4. partials' \in [Keys -> Partial] /\ \A k \in Keys : Assembled(k)'
  BY <1>1, NoPartials
<1>5. InHand \subseteq Parts
  BY DEF InHand
<1>6. Types' /\ Placed' /\ Single'
  <2>1. indexes' \in Seq(Slots) /\ lost' \subseteq Parts
    BY <1>1, <1>5 DEF IInv, Types
  <2>2. Types'
    BY <1>1, <1>3, <1>4, <2>1, IdleFacts DEF IInv, Types
  <2> QED
    BY <1>1, <2>2, IdleFacts DEF IInv, Placed, Single
<1>7. \A q \in Parts : /\ ~Fetched(q)' /\ ~Merged(q)' /\ ~Collected(q)' /\ ~Waits(q)'
                       /\ ~Awaited(q)'
  BY <1>1, IdleFacts, InboxAssumption DEF Fetched, Merged, Collected, Waits, Awaited
<1>8. \A q \in Parts : Once(q)'
  BY <1>1, <1>7, OnceKept DEF IInv
<1>9. Accounted'
  <2>1. ASSUME NEW q \in Parts, Known(q) PROVE Stored(q) \/ Known(q)'
    <3>1. reports[q] \in 0 .. 2
      BY DEF IInv, Types
    <3> QED
      BY <1>1, <2>1, <3>1 DEF Known, InHand
  <2>2. \A q \in Parts : Stored(q)' <=> Stored(q)
    BY <1>1 DEF Stored
  <2> QED
    BY <1>1, <2>1, <2>2, AccountedKept DEF IInv
<1>10. Undisturbed' /\ LostOnlyByRace'
  BY <1>3, LostKept DEF IInv, Undisturbed
<1> QED
  BY <1>4, <1>6, <1>8, <1>9, <1>10 DEF IInv

(* The worker starts with empty hands.                                     *)
LEMMA InitIInv == Init => IInv
<1> SUFFICES ASSUME Init PROVE IInv
  OBVIOUS
<1>1. /\ partials = [k \in Keys |-> NoPartial] /\ fetch = NoFetch /\ drain = NoDrain
      /\ coming = Parts /\ slots = [i \in Slots |-> Empty] /\ online = FALSE /\ indexes = <<>>
      /\ reports = [p \in Parts |-> 0] /\ reread = {} /\ lost = {} /\ stranded = {}
      /\ downs = 0 /\ errors = 0
  BY DEF Init
<1>2. partials \in [Keys -> Partial] /\ \A k \in Keys : Assembled(k)
  <2>1. IsFiniteSet({})
    BY FS_EmptySet
  <2> QED
    BY <1>1, <2>1, IdleFacts DEF Assembled
<1>3. Types
  <2>1. indexes \in Seq(Slots) /\ slots \in [Slots -> Parts \cup {Empty}]
    BY <1>1
  <2>2. reports \in [Parts -> 0 .. 2] /\ downs + errors <= MaxInboxFaults
    BY <1>1, InboxAssumption
  <2> QED
    BY <1>1, <1>2, <2>1, <2>2, IdleFacts DEF Types
<1>4. Placed /\ Single
  BY <1>1, IdleFacts, InboxAssumption DEF Placed, Single
<1>5. \A p \in Parts : ~Fetched(p) /\ ~Merged(p) /\ ~Collected(p) /\ ~Waits(p) /\ ~Awaited(p)
  BY <1>1, IdleFacts, InboxAssumption DEF Fetched, Merged, Collected, Waits, Awaited
<1>6. \A p \in Parts : Once(p)
  BY <1>1, <1>5 DEF Once
<1>7. Undisturbed /\ Accounted /\ LostOnlyByRace
  BY <1>1, IdleFacts DEF Undisturbed, Accounted, LostOnlyByRace, Emptying
<1> QED
  BY <1>2, <1>3, <1>4, <1>6, <1>7 DEF IInv

(* A step that changes nothing.                                            *)
LEMMA StutterStep ==
    ASSUME IInv, UNCHANGED inboxVars
    PROVE  IInv'
<1> USE DEF inboxVars
<1>1. Types' /\ Placed' /\ Single'
  BY DEF IInv, Types, Placed, Single
<1>2. \A k \in Keys : Assembled(k)'
  BY DEF IInv, Assembled
<1>3. Turn' = Turn /\ (Emptying' <=> Emptying)
  BY DEF Turn, Emptying
<1>4. \A q \in Parts : Once(q)'
  BY <1>3, OnceKept DEF IInv, Fetched, Merged, Collected, Waits, Awaited
<1>5. \A q \in Parts : (Known(q)' <=> Known(q)) /\ (Stored(q)' <=> Stored(q))
  BY DEF Known, Held, Stored
<1>6. Undisturbed' /\ Accounted' /\ LostOnlyByRace'
  <2>1. Calm' => Calm
    BY DEF Calm
  <2> QED
    BY <1>5, <2>1, UndisturbedKept, AccountedKept, LostKept DEF IInv
<1> QED
  BY <1>1, <1>2, <1>4, <1>6 DEF IInv

(* Every step keeps the invariant.                                         *)
LEMMA Inductive == IInv /\ [Next]_inboxVars => IInv'
<1> SUFFICES ASSUME IInv, [Next]_inboxVars PROVE IInv'
  OBVIOUS
<1>1. CASE \E p \in Parts, i \in Slots : deliver(p, i)
  BY <1>1, DeliverStep
<1>2. CASE \E k \in Keys : deadline(k)
  BY <1>2, DeadlineStep
<1>3. CASE flush_loop
  BY <1>3, FlushLoopStep
<1>4. CASE Fetching
  BY <1>4, IndexLoopStep, ReadStoredStep, FetchPushStep, FetchDeleteStep DEF Fetching
<1>5. CASE Draining
  BY <1>5, ListStoredStep, DrainPushStep, DrainDeleteStep, DrainEmitStep DEF Draining
<1>6. CASE read_failed
  BY <1>6, ReadFailedStep
<1>7. CASE fetch_delete_failed
  BY <1>7, FetchDeleteFailedStep
<1>8. CASE connect
  BY <1>8, ConnectStep
<1>9. CASE sample_status
  BY <1>9, SampleStatusStep
<1>10. CASE port_lost
  BY <1>10, PortLostStep
<1>11. CASE UNCHANGED inboxVars
  BY <1>11, StutterStep
<1> QED
  BY <1>1, <1>2, <1>3, <1>4, <1>5, <1>6, <1>7, <1>8, <1>9, <1>10, <1>11 DEF Next

(* modem.py, concat.py: a part is in one place of the agent between its    *)
(* reading and its report, and while nothing failed and nothing was read   *)
(* twice a coroutine finds in its slot what it has read there.             *)
THEOREM Invariance == Spec => []IInv
BY InitIInv, Inductive, PTL DEF Spec

(* modem.py, concat.py: the store, the partial messages and both           *)
(* coroutines keep their shape; a partial message never holds all of its   *)
(* parts, nor one of another key or total.                                 *)
THEOREM TypeCorrect == Spec => []TypeOK
<1>1. IInv => TypeOK
  <2> SUFFICES ASSUME IInv PROVE TypeOK
    OBVIOUS
  <2>1. Types
    BY DEF IInv
  <2>2. downs \in 0 .. MaxInboxFaults /\ errors \in 0 .. MaxInboxFaults
    BY <2>1, InboxAssumption DEF Types
  <2>3. ASSUME NEW k \in Keys
        PROVE  /\ partials[k].total \in Nat /\ partials[k].overdue \in BOOLEAN
               /\ partials[k].parts \subseteq
                      {p \in Parts : KeyOf[p] = k /\ TotalOf[p] = partials[k].total}
               /\ Cardinality(partials[k].parts) < partials[k].total \/ partials[k] = NoPartial
    <3>1. partials[k] \in Partial /\ Assembled(k)
      BY <2>1 DEF IInv, Types
    <3> QED
      BY <3>1 DEF Partial, Assembled
  <2>4. fetch.step \in FetchSteps /\ drain.step \in DrainSteps
    BY <2>1 DEF Types
  <2> QED
    BY <2>1, <2>2, <2>3, <2>4 DEF TypeOK, Types, FetchSteps, DrainSteps
<1> QED
  BY <1>1, Invariance, PTL

(* modem.py, concat.py: no part of a message gets out of sight, one that   *)
(* was read once is reported at most once, and without a failure only the  *)
(* races named lose one.                                                   *)
THEOREM InboxIsSafe == Spec => []InboxSafe
<1>1. IInv => InboxSafe
  <2> SUFFICES ASSUME IInv PROVE InboxSafe
    OBVIOUS
  <2>1. \A p \in Parts : Once(p) /\ reports[p] \in 0 .. 2
    BY DEF IInv, Types
  <2>2. ReportedOnce
    BY <2>1 DEF ReportedOnce, Once
  <2> QED
    BY <2>2 DEF IInv, InboxSafe
<1> QED
  BY <1>1, Invariance, PTL

----------------------------------------------------------------------------
(* Port discovery *)

(* What a port holds, a device asks for and a probe reads: 0 is none.      *)
AnyModule == Modules \cup {0}
DeviceRow == [imei : AnyModule, iccid : AnyModule, for : Modules]
ProbeRow == [imei : AnyModule, iccid : AnyModule, of : Modules]

FindTypes ==
    /\ plugged \in [Ports -> AnyModule]
    /\ workers \in Seq(DeviceRow)
    /\ workerStatus \in Seq({"seeking", "claimed", "up", "lost"})
    /\ workerPort \in Seq(Ports \cup {0})
    /\ Len(workerStatus) = Len(workers) /\ Len(workerPort) = Len(workers)
    /\ claimed \in [Ports -> 0 .. Len(workers)]
    /\ scan \in [by : {0, -1} \cup (1 .. Len(workers)), todo : SUBSET Ports, found : Seq(ProbeRow)]
    /\ slipped \subseteq Ports /\ unread \in Nat

(* A claim is what the registry and the worker agree on.                   *)
Agreed ==
    /\ \A w \in 1 .. Len(workers) :
         /\ (workerStatus[w] = "seeking") <=> (workerPort[w] = 0)
         /\ workerPort[w] # 0 => claimed[workerPort[w]] = w
    /\ \A p \in Ports : claimed[p] # 0 => workerPort[claimed[p]] = p

(* While a scan holds the lock its ports stay free, and the worker it is   *)
(* for goes on looking.                                                    *)
Scanning ==
    /\ \A p \in scan.todo : claimed[p] = 0
    /\ scan.by \in 1 .. Len(workers) => workerStatus[scan.by] = "seeking"
    /\ scan.by = 0 => scan.todo = {}

(* What a device asks for and what a module answers is its own identity.   *)
OwnIdentity ==
    /\ \A w \in 1 .. Len(workers) :
         workers[w].imei \in {0, workers[w].for} /\ workers[w].iccid \in {0, workers[w].for}
    /\ \A n \in 1 .. Len(scan.found) :
         scan.found[n].imei \in {0, scan.found[n].of} /\ scan.found[n].iccid \in {0, scan.found[n].of}

(* The device names an IMEI or a card.                                     *)
Asks(d) == d.imei # 0 \/ d.iccid # 0

RightClaim ==
    \A w \in 1 .. Len(workers) :
        workerStatus[w] \in {"claimed", "up"} /\ workerPort[w] \notin slipped /\ Asks(workers[w])
        => plugged[workerPort[w]] = workers[w].for

(* As long as every identity was read in full: a survey has found what no  *)
(* worker is for, and each module once.                                    *)
ReadInFull ==
    unread = 0 =>
        /\ \A w \in 1 .. Len(workers) : workers[w].imei # 0 \/ workers[w].iccid # 0
        /\ \A n \in 1 .. Len(scan.found) : scan.found[n].imei = scan.found[n].of
        /\ \A n \in 1 .. Len(scan.found), w \in 1 .. Len(workers) : workers[w].for # scan.found[n].of
        /\ \A m, n \in 1 .. Len(scan.found) : scan.found[m].of = scan.found[n].of => m = n
        /\ \A v, w \in 1 .. Len(workers) :
             w > Len(Configured) /\ workers[v].for = workers[w].for => v = w

FindInv == FindTypes /\ Agreed /\ Scanning /\ OwnIdentity /\ RightClaim /\ ReadInFull

(* A device asks for a module or a card of its own, and 0 is none.         *)
LEMMA AskedRow ==
  ASSUME NEW n \in DOMAIN Configured
  PROVE  /\ Find!Asked(Configured[n]) \in DeviceRow
         /\ Find!Asked(Configured[n]).imei \in {0, Find!Asked(Configured[n]).for}
         /\ Find!Asked(Configured[n]).iccid \in {0, Find!Asked(Configured[n]).for}
         /\ Find!Asked(Configured[n]).imei # 0 \/ Find!Asked(Configured[n]).iccid # 0
<1>1. Configured[n] \in {"imei", "iccid"} \X Modules
  BY DiscoveryAssumption
<1>2. Configured[n][2] \in Modules /\ Configured[n][2] # 0
  BY <1>1, DiscoveryAssumption
<1>3. CASE Configured[n][1] = "imei"
  BY <1>2, <1>3 DEF Find!Asked, Find!Device, Find!Nothing, DeviceRow, AnyModule
<1>4. CASE Configured[n][1] # "imei"
  BY <1>2, <1>4 DEF Find!Asked, Find!Device, Find!Nothing, DeviceRow, AnyModule
<1> QED
  BY <1>3, <1>4

(* The configuration is what discovery starts from.                        *)
LEMMA FindInit == Find!Init => FindInv
<1> SUFFICES ASSUME Find!Init PROVE FindInv
  OBVIOUS
<1>1. /\ plugged = [p \in Ports |-> 0] /\ claimed = [p \in Ports |-> 0]
      /\ scan = [by |-> 0, todo |-> {}, found |-> <<>>] /\ slipped = {} /\ unread = 0
  BY DEF Find!Init, Find!Nothing, Find!Unlocked
<1>2. /\ workers = [n \in DOMAIN Configured |-> Find!Asked(Configured[n])]
      /\ workerStatus = [n \in DOMAIN workers |-> "seeking"]
      /\ workerPort = [n \in DOMAIN workers |-> 0]
  BY DEF Find!Init, Find!Nothing
<1>3. Len(Configured) \in Nat /\ DOMAIN Configured = 1 .. Len(Configured)
  BY DiscoveryAssumption
<1>4. workers \in Seq(DeviceRow) /\ Len(workers) = Len(Configured)
  BY <1>2, <1>3, AskedRow
<1>5. /\ workerStatus \in Seq({"seeking", "claimed", "up", "lost"}) /\ Len(workerStatus) = Len(workers)
      /\ workerPort \in Seq(Ports \cup {0}) /\ Len(workerPort) = Len(workers)
      /\ \A w \in 1 .. Len(workers) : workerStatus[w] = "seeking" /\ workerPort[w] = 0
  BY <1>2, <1>3, <1>4
<1>6. FindTypes
  <2>1. scan \in [by : {0, -1} \cup (1 .. Len(workers)), todo : SUBSET Ports, found : Seq(ProbeRow)]
    BY <1>1
  <2> QED
    BY <1>1, <1>3, <1>4, <1>5, <2>1 DEF FindTypes, AnyModule
<1>7. Agreed /\ Scanning /\ RightClaim
  BY <1>1, <1>5 DEF Agreed, Scanning, RightClaim
<1>8. \A w \in 1 .. Len(workers) : /\ workers[w].imei \in {0, workers[w].for}
                                   /\ workers[w].iccid \in {0, workers[w].for}
                                   /\ workers[w].imei # 0 \/ workers[w].iccid # 0
  BY <1>2, <1>3, <1>4, AskedRow
<1>9. OwnIdentity
  BY <1>1, <1>8 DEF OwnIdentity
<1>10. ReadInFull
  <2>1. Len(scan.found) = 0
    BY <1>1
  <2>2. \A w \in 1 .. Len(workers) : ~(w > Len(Configured))
    BY <1>3, <1>4
  <2> QED
    BY <1>8, <2>1, <2>2 DEF ReadInFull
<1> QED
  BY <1>6, <1>7, <1>9, <1>10 DEF FindInv

(* A scan begins, ends without a claim or leaves a port behind: nothing    *)
(* else changes.                                                           *)
LEMMA ScanKeeps ==
  ASSUME FindInv, scan'.todo \in SUBSET Ports, \A p \in scan'.todo : claimed[p] = 0,
         scan'.by \in {0, -1} \/ (scan'.by \in 1 .. Len(workers) /\ workerStatus[scan'.by] = "seeking"),
         scan' = [by |-> scan'.by, todo |-> scan'.todo, found |-> scan'.found],
         scan'.found \in {<<>>, scan.found}, scan'.by = 0 => scan'.todo = {}, unread' \in Nat, unread' = 0 => unread = 0,
         UNCHANGED <<plugged, workers, workerStatus, workerPort, claimed, slipped>>
  PROVE  FindInv'
<1>1. FindTypes /\ Agreed /\ Scanning /\ OwnIdentity /\ RightClaim /\ ReadInFull
  BY DEF FindInv
<1>2. FindTypes'
  <2>1. scan'.found \in Seq(ProbeRow) /\ scan'.by \in {0, -1} \cup (1 .. Len(workers))
    <3>1. scan.found \in Seq(ProbeRow) /\ <<>> \in Seq(ProbeRow)
      BY <1>1 DEF FindTypes
    <3> QED
      BY <3>1
  <2>2. scan' \in [by : {0, -1} \cup (1 .. Len(workers)), todo : SUBSET Ports, found : Seq(ProbeRow)]
    BY <2>1
  <2> QED
    BY <1>1, <2>2 DEF FindTypes
<1>3. Agreed' /\ RightClaim'
  BY <1>1 DEF Agreed, RightClaim
<1>4. Scanning'
  <2>1. scan'.by \in 1 .. Len(workers) => workerStatus[scan'.by] = "seeking"
    OBVIOUS
  <2> QED
    BY <2>1 DEF Scanning
<1>5. CASE scan'.found = <<>>
  <2>1. Len(scan'.found) = 0
    BY <1>5
  <2>2. OwnIdentity'
    BY <1>1, <2>1 DEF OwnIdentity
  <2>3. ReadInFull'
    BY <1>1, <2>1 DEF ReadInFull
  <2> QED
    BY <1>2, <1>3, <1>4, <2>2, <2>3 DEF FindInv
<1>6. CASE scan'.found = scan.found
  <2>1. OwnIdentity'
    BY <1>1, <1>6 DEF OwnIdentity
  <2>2. ReadInFull'
    BY <1>1, <1>6 DEF ReadInFull
  <2> QED
    BY <1>2, <1>3, <1>4, <2>1, <2>2 DEF FindInv
<1> QED
  BY <1>5, <1>6

(* The port a scan tries next is one of those it has left.                 *)
LEMMA NextPort ==
  ASSUME FindTypes, scan.todo # {}
  PROVE  Find!First(scan.todo) \in scan.todo
<1>1. scan.todo \subseteq Ports
  BY DEF FindTypes
<1>2. scan.todo \subseteq Nat
  BY <1>1, DiscoveryAssumption
<1>3. \E x \in scan.todo : \A y \in scan.todo : x <= y
  BY <1>2, LeastNumber
<1> QED
  BY <1>3 DEF Find!First

(* What a module answers for itself.                                       *)
LEMMA AnswerRow ==
  ASSUME FindTypes, NEW p \in Ports, plugged[p] # 0, NEW imei \in BOOLEAN, NEW iccid \in BOOLEAN
  PROVE  LET r == Find!Answer(p, imei, iccid) IN
         /\ r \in ProbeRow /\ r.of = plugged[p] /\ r.imei \in {0, r.of} /\ r.iccid \in {0, r.of}
         /\ imei => r.imei = r.of
         /\ iccid => r.iccid = r.of
<1>1. plugged[p] \in Modules
  BY DEF FindTypes, AnyModule
<1> QED
  BY <1>1 DEF Find!Answer, Find!Nothing, ProbeRow, AnyModule

(* A device matches no answer but that of its own module.                  *)
LEMMA MatchesOwn ==
  ASSUME NEW d \in DeviceRow, NEW r \in ProbeRow, Find!_matches(d, r),
         d.imei \in {0, d.for}, d.iccid \in {0, d.for}, r.imei \in {0, r.of}, r.iccid \in {0, r.of}
  PROVE  d.for = r.of
  BY DEF Find!_matches, Find!Nothing

(* A device that asks for something has an identity.                       *)
LEMMA NamedAsks == ASSUME NEW d PROVE Find!Named(d) <=> Asks(d)
<1>1. <<"imei", d.imei>> # <<"none">> /\ <<"iccid", d.iccid>> # <<"none">>
  <2>1. Len(<<"imei", d.imei>>) = 2 /\ Len(<<"iccid", d.iccid>>) = 2 /\ Len(<<"none">>) = 1
    OBVIOUS
  <2> QED
    BY <2>1
<1> QED
  BY <1>1 DEF Find!Named, Find!Identity, Find!Nothing, Asks

(* The worker that scans claims the port.                                  *)
LEMMA ClaimKeeps ==
  ASSUME FindInv, NEW w \in 1 .. Len(workers), NEW p \in scan.todo, scan.by = w,
         Asks(workers[w]) => plugged[p] = workers[w].for,
         scan' = [by |-> 0, todo |-> {}, found |-> <<>>],
         workerStatus' = [workerStatus EXCEPT ![w] = "claimed"],
         workerPort' = [workerPort EXCEPT ![w] = p],
         claimed' = [claimed EXCEPT ![p] = w],
         slipped' = slipped \ {p}, unread' \in Nat, unread' = 0 => unread = 0,
         UNCHANGED <<plugged, workers>>
  PROVE  FindInv'
<1>1. FindTypes /\ Agreed /\ Scanning /\ OwnIdentity /\ RightClaim /\ ReadInFull
  BY DEF FindInv
<1>2. p \in Ports /\ p # 0 /\ claimed[p] = 0 /\ workerStatus[w] = "seeking" /\ workerPort[w] = 0
  <2>1. p \in Ports
    BY <1>1 DEF FindTypes
  <2> QED
    BY <1>1, <2>1, DiscoveryAssumption DEF Scanning, Agreed
<1>3. /\ \A v \in 1 .. Len(workers) : workerStatus'[v] = IF v = w THEN "claimed" ELSE workerStatus[v]
      /\ \A v \in 1 .. Len(workers) : workerPort'[v] = IF v = w THEN p ELSE workerPort[v]
      /\ \A q \in Ports : claimed'[q] = IF q = p THEN w ELSE claimed[q]
  BY <1>1, <1>2 DEF FindTypes
<1>4. FindTypes'
  <2>1. scan' \in [by : {0, -1} \cup (1 .. Len(workers)), todo : SUBSET Ports, found : Seq(ProbeRow)]
    OBVIOUS
  <2>2. workerStatus' \in Seq({"seeking", "claimed", "up", "lost"}) /\ Len(workerStatus') = Len(workers)
    BY <1>1 DEF FindTypes
  <2>3. workerPort' \in Seq(Ports \cup {0}) /\ Len(workerPort') = Len(workers)
    BY <1>1, <1>2 DEF FindTypes
  <2>4. claimed' \in [Ports -> 0 .. Len(workers)]
    BY <1>1 DEF FindTypes
  <2> QED
    BY <1>1, <2>1, <2>2, <2>3, <2>4 DEF FindTypes
<1>5. Agreed'
  <2>1. \A v \in 1 .. Len(workers) : v # w => workerPort[v] # p
    BY <1>1, <1>2 DEF Agreed
  <2>2. \A v \in 1 .. Len(workers) : workerPort[v] \in Ports \cup {0}
    BY <1>1 DEF FindTypes
  <2>3. ASSUME NEW v \in 1 .. Len(workers)
        PROVE  /\ (workerStatus'[v] = "seeking") <=> (workerPort'[v] = 0)
               /\ workerPort'[v] # 0 => claimed'[workerPort'[v]] = v
    BY <1>1, <1>2, <1>3, <2>1, <2>2 DEF Agreed
  <2>4. ASSUME NEW q \in Ports, claimed'[q] # 0
        PROVE  workerPort'[claimed'[q]] = q
    <3>1. CASE q = p
      BY <1>3, <3>1
    <3>2. CASE q # p
      <4>1. claimed'[q] = claimed[q] /\ claimed[q] \in 1 .. Len(workers) /\ workerPort[claimed[q]] = q
        BY <1>1, <1>3, <2>4, <3>2 DEF Agreed, FindTypes
      <4>2. claimed[q] # w
        BY <1>2, <4>1, DiscoveryAssumption
      <4> QED
        BY <1>3, <4>1, <4>2
    <3> QED
      BY <3>1, <3>2
  <2> QED
    BY <2>3, <2>4 DEF Agreed
<1>6. Scanning'
  BY DEF Scanning
<1>7. Len(scan'.found) = 0
  OBVIOUS
<1>8. OwnIdentity' /\ ReadInFull'
  BY <1>1, <1>7 DEF OwnIdentity, ReadInFull
<1>9. RightClaim'
  <2>1. \A v \in 1 .. Len(workers) : v # w => workerPort[v] # p
    BY <1>1, <1>2 DEF Agreed
  <2> QED
    BY <1>1, <1>3, <2>1 DEF RightClaim
<1> QED
  BY <1>4, <1>5, <1>6, <1>8, <1>9 DEF FindInv

(* A survey has found a module that no worker is for.                      *)
LEMMA FoundKeeps ==
  ASSUME FindInv, NEW r \in ProbeRow, NEW p \in scan.todo, r.imei \in {0, r.of}, r.iccid \in {0, r.of},
         scan.by = -1, scan' = [by |-> -1, todo |-> scan.todo \ {p}, found |-> Append(scan.found, r)],
         unread' \in Nat, unread' = 0 => unread = 0 /\ r.imei = r.of /\ r.iccid = r.of,
         \A w \in 1 .. Len(workers) : ~Find!_matches(workers[w], r),
         \A n \in 1 .. Len(scan.found) : Find!Identity(scan.found[n]) # Find!Identity(r),
         UNCHANGED <<plugged, workers, workerStatus, workerPort, claimed, slipped>>
  PROVE  FindInv'
<1>1. FindTypes /\ Agreed /\ Scanning /\ OwnIdentity /\ RightClaim /\ ReadInFull
  BY DEF FindInv
<1>2. /\ scan.found \in Seq(ProbeRow) /\ Len(scan.found) \in Nat /\ scan.todo \subseteq Ports
      /\ scan'.found = Append(scan.found, r) /\ scan'.todo = scan.todo \ {p} /\ scan'.by = -1
  BY <1>1 DEF FindTypes
<1>3. /\ Len(scan'.found) = Len(scan.found) + 1 /\ scan'.found \in Seq(ProbeRow)
      /\ scan'.found[Len(scan.found) + 1] = r
      /\ \A n \in 1 .. Len(scan.found) : scan'.found[n] = scan.found[n]
  BY <1>2
<1>4. \A n \in 1 .. Len(scan'.found) : n \in 1 .. Len(scan.found) \/ n = Len(scan.found) + 1
  BY <1>2, <1>3
<1>5. FindTypes'
  <2>1. scan' \in [by : {0, -1} \cup (1 .. Len(workers)), todo : SUBSET Ports, found : Seq(ProbeRow)]
    BY <1>2, <1>3
  <2> QED
    BY <1>1, <2>1 DEF FindTypes
<1>6. Agreed' /\ RightClaim'
  BY <1>1 DEF Agreed, RightClaim
<1>7. Scanning'
  BY <1>1, <1>2 DEF Scanning
<1>8. OwnIdentity'
  BY <1>1, <1>3, <1>4 DEF OwnIdentity
<1>9. ReadInFull'
  <2> SUFFICES ASSUME unread' = 0
               PROVE  /\ \A w \in 1 .. Len(workers) : workers[w].imei # 0 \/ workers[w].iccid # 0
                      /\ \A n \in 1 .. Len(scan'.found) : scan'.found[n].imei = scan'.found[n].of
                      /\ \A n \in 1 .. Len(scan'.found), w \in 1 .. Len(workers) : workers[w].for # scan'.found[n].of
                      /\ \A m, n \in 1 .. Len(scan'.found) : scan'.found[m].of = scan'.found[n].of => m = n
                      /\ \A v, w \in 1 .. Len(workers) :
                           w > Len(Configured) /\ workers[v].for = workers[w].for => v = w
    BY DEF ReadInFull
  <2>1. /\ r.imei = r.of /\ r.iccid = r.of /\ r.of # 0
        /\ \A w \in 1 .. Len(workers) : workers[w].imei # 0 \/ workers[w].iccid # 0
        /\ \A n \in 1 .. Len(scan.found) : scan.found[n].imei = scan.found[n].of
        /\ \A n \in 1 .. Len(scan.found), w \in 1 .. Len(workers) : workers[w].for # scan.found[n].of
        /\ \A m, n \in 1 .. Len(scan.found) : scan.found[m].of = scan.found[n].of => m = n
        /\ \A v, w \in 1 .. Len(workers) :
             w > Len(Configured) /\ workers[v].for = workers[w].for => v = w
    <3>1. r.of # 0
      BY DiscoveryAssumption DEF ProbeRow
    <3> QED
      BY <1>1, <3>1 DEF ReadInFull
  <2>2. \A w \in 1 .. Len(workers) : workers[w].for # r.of
    BY <1>1, <2>1 DEF OwnIdentity, Find!_matches, Find!Nothing
  <2>3. ASSUME NEW n \in 1 .. Len(scan.found)
        PROVE  scan.found[n].of # r.of
    <3>1. scan.found[n].imei = scan.found[n].of /\ Find!Identity(scan.found[n]) # Find!Identity(r)
      BY <2>1
    <3> QED
      BY <2>1, <3>1 DEF Find!Identity, Find!Nothing
  <2>4. \A n \in 1 .. Len(scan'.found) : scan'.found[n].imei = scan'.found[n].of
    BY <1>3, <1>4, <2>1
  <2>5. \A n \in 1 .. Len(scan'.found), w \in 1 .. Len(workers) : workers[w].for # scan'.found[n].of
    BY <1>3, <1>4, <2>1, <2>2
  <2>6. \A m, n \in 1 .. Len(scan'.found) : scan'.found[m].of = scan'.found[n].of => m = n
    BY <1>3, <1>4, <2>1, <2>3
  <2> QED
    BY <2>1, <2>4, <2>5, <2>6
<1> QED
  BY <1>5, <1>6, <1>7, <1>8, <1>9 DEF FindInv

(* A port is probed: by a survey or by the worker that scans.              *)
LEMMA ProbeKeeps ==
  ASSUME FindInv, Find!probe
  PROVE  FindInv'
<1>1. FindTypes /\ Agreed /\ Scanning /\ OwnIdentity /\ RightClaim /\ ReadInFull
  BY DEF FindInv
<1>2. scan.todo # {} /\ UNCHANGED <<plugged, workers>>
  BY DEF Find!probe
<1> DEFINE p == Find!First(scan.todo)
<1>3. p \in scan.todo
  BY <1>1, <1>2, NextPort
<1>4. PICK imei, iccid \in BOOLEAN :
        LET r == Find!Answer(p, imei, iccid)
            missing == (IF imei THEN 0 ELSE 1) + (IF iccid THEN 0 ELSE 1)
        IN  /\ unread' = unread + missing
            /\ IF plugged[p] = 0
               THEN /\ scan' = [scan EXCEPT !.todo = @ \ {p}]
                    /\ UNCHANGED <<workerStatus, workerPort, claimed, slipped>>
               ELSE IF scan.by = -1 THEN Find!survey_probed(p, r) ELSE Find!acquire_probed(p, r)
  BY DEF Find!probe, Find!Nothing, Find!Survey
<1> DEFINE r == Find!Answer(p, imei, iccid)
<1>5. unread' \in Nat /\ (unread' = 0 => unread = 0 /\ imei /\ iccid)
  <2>1. unread \in Nat
    BY <1>1 DEF FindTypes
  <2>2. unread' = unread + ((IF imei THEN 0 ELSE 1) + (IF iccid THEN 0 ELSE 1))
    BY <1>4
  <2> QED
    BY <2>1, <2>2
<1>6. plugged[p] = 0 => scan' = [scan EXCEPT !.todo = @ \ {p}] /\ UNCHANGED <<workerStatus, workerPort, claimed, slipped>>
  BY <1>4
<1>7. plugged[p] # 0 => IF scan.by = -1 THEN Find!survey_probed(p, r) ELSE Find!acquire_probed(p, r)
  BY <1>4
<1> HIDE DEF p, r
<1>8. /\ p \in Ports /\ scan.by \in {0, -1} \cup (1 .. Len(workers)) /\ scan.found \in Seq(ProbeRow)
      /\ scan.todo \subseteq Ports /\ scan = [by |-> scan.by, todo |-> scan.todo, found |-> scan.found]
  BY <1>1, <1>3 DEF FindTypes
<1>9. ASSUME scan' = [scan EXCEPT !.todo = @ \ {p}], UNCHANGED <<workerStatus, workerPort, claimed, slipped>>
      PROVE  FindInv'
  <2>1. /\ scan'.todo = scan.todo \ {p} /\ scan'.by = scan.by /\ scan'.found = scan.found
        /\ scan' = [by |-> scan'.by, todo |-> scan'.todo, found |-> scan'.found]
    BY <1>8, <1>9
  <2>2. \A q \in scan'.todo : claimed[q] = 0
    BY <1>1, <2>1 DEF Scanning
  <2>3. /\ scan'.by \in {0, -1} \/ (scan'.by \in 1 .. Len(workers) /\ workerStatus[scan'.by] = "seeking")
        /\ scan'.by = 0 => scan'.todo = {}
    BY <1>1, <1>8, <2>1 DEF Scanning
  <2> QED
    BY <1>2, <1>5, <1>8, <1>9, <2>1, <2>2, <2>3, ScanKeeps
<1>10. ASSUME scan' = Find!Unlocked, UNCHANGED <<workerStatus, workerPort, claimed, slipped>>
       PROVE  FindInv'
  <2>1. /\ scan'.todo = {} /\ scan'.by = 0 /\ scan'.found = <<>>
        /\ scan' = [by |-> scan'.by, todo |-> scan'.todo, found |-> scan'.found]
    BY <1>10 DEF Find!Unlocked, Find!Nothing
  <2> QED
    BY <1>2, <1>5, <1>10, <2>1, ScanKeeps
<1>11. CASE plugged[p] = 0
  BY <1>6, <1>9, <1>11
<1>12. plugged[p] # 0 => /\ r \in ProbeRow /\ r.of = plugged[p] /\ r.imei \in {0, r.of} /\ r.iccid \in {0, r.of}
                         /\ imei => r.imei = r.of
                         /\ iccid => r.iccid = r.of
  BY <1>1, <1>8, AnswerRow DEF r
<1>13. CASE plugged[p] # 0 /\ scan.by = -1
  <2> DEFINE known == \/ \E w \in DOMAIN workers : Find!_matches(workers[w], r)
                      \/ \E n \in DOMAIN scan.found : Find!Identity(scan.found[n]) = Find!Identity(r)
  <2>1. /\ scan' = [scan EXCEPT !.todo = @ \ {p}, !.found = IF known THEN @ ELSE Append(@, r)]
        /\ UNCHANGED <<workerStatus, workerPort, claimed, slipped>>
    BY <1>7, <1>8, <1>13 DEF Find!survey_probed
  <2>2. CASE known
    <3>1. scan' = [scan EXCEPT !.todo = @ \ {p}]
      BY <1>8, <2>1, <2>2
    <3> QED
      BY <1>9, <2>1, <3>1
  <2>3. CASE ~known
    <3>1. scan' = [by |-> -1, todo |-> scan.todo \ {p}, found |-> Append(scan.found, r)]
      BY <1>8, <1>13, <2>1, <2>3
    <3>2. DOMAIN workers = 1 .. Len(workers) /\ DOMAIN scan.found = 1 .. Len(scan.found)
      BY <1>1, <1>8 DEF FindTypes
    <3> QED
      BY <1>2, <1>3, <1>5, <1>12, <1>13, <2>1, <2>3, <3>1, <3>2, FoundKeeps
  <2> QED
    BY <2>2, <2>3
<1>14. CASE plugged[p] # 0 /\ scan.by # -1
  <2> DEFINE w == scan.by
  <2>1. Find!acquire_probed(p, r)
    BY <1>7, <1>14
  <2> DEFINE takes == IF Find!Named(workers[w]) THEN Find!_matches(workers[w], r) ELSE Find!Sole
  <2>2. CASE ~takes /\ ~Find!Named(workers[w])
    <3>1. scan' = Find!Unlocked /\ UNCHANGED <<workerStatus, workerPort, claimed, slipped>>
      BY <2>1, <2>2 DEF Find!acquire_probed
    <3> QED
      BY <1>10, <3>1
  <2>3. CASE ~takes /\ Find!Named(workers[w])
    <3>1. scan' = [scan EXCEPT !.todo = @ \ {p}] /\ UNCHANGED <<workerStatus, workerPort, claimed, slipped>>
      BY <2>1, <2>3 DEF Find!acquire_probed
    <3> QED
      BY <1>9, <3>1
  <2>4. CASE takes
    <3>1. /\ scan' = Find!Unlocked
          /\ workerStatus' = [workerStatus EXCEPT ![w] = "claimed"] /\ workerPort' = [workerPort EXCEPT ![w] = p]
          /\ claimed' = [claimed EXCEPT ![p] = w] /\ slipped' = slipped \ {p}
      BY <2>1, <2>4 DEF Find!acquire_probed
    <3>2. scan' = [by |-> 0, todo |-> {}, found |-> <<>>]
      BY <3>1 DEF Find!Unlocked, Find!Nothing
    <3>3. w \in 1 .. Len(workers)
      BY <1>1, <1>2, <1>8, <1>14 DEF Scanning
    <3>4. workers[w] \in DeviceRow
      BY <1>1, <3>3 DEF FindTypes
    <3>5. ASSUME Asks(workers[w]) PROVE plugged[p] = workers[w].for
      <4>1. Find!Named(workers[w])
        BY <3>4, <3>5, NamedAsks
      <4>2. Find!_matches(workers[w], r)
        BY <2>4, <4>1
      <4> QED
        BY <1>1, <1>12, <1>14, <4>2, <3>3, <3>4, MatchesOwn DEF OwnIdentity
    <3> HIDE DEF w
    <3> QED
      BY <1>2, <1>3, <1>5, <3>1, <3>2, <3>3, <3>5, ClaimKeeps DEF w
  <2> QED
    BY <2>2, <2>3, <2>4
<1> QED
  BY <1>11, <1>13, <1>14

(* A worker or a survey takes the lock, over the ports that are free.      *)
LEMMA BeginKeeps ==
  ASSUME FindInv, NEW who, Find!begin_scan(who),
         who = -1 \/ (who \in 1 .. Len(workers) /\ workerStatus[who] = "seeking")
  PROVE  FindInv'
<1>1. scan' = [by |-> who, todo |-> Find!Candidates, found |-> <<>>]
  BY DEF Find!begin_scan, Find!Unlocked
<1>2. unread \in Nat /\ who # 0
  BY DEF FindInv, FindTypes
<1>3. /\ scan'.by = who /\ scan'.todo = Find!Candidates /\ scan'.found = <<>>
      /\ scan' = [by |-> scan'.by, todo |-> scan'.todo, found |-> scan'.found]
  BY <1>1
<1>4. scan'.todo \in SUBSET Ports /\ \A p \in scan'.todo : claimed[p] = 0
  BY <1>3 DEF Find!Candidates, Find!Nothing
<1>5. UNCHANGED <<plugged, workers, workerStatus, workerPort, claimed, slipped, unread>>
  BY DEF Find!begin_scan
<1> QED
  BY <1>2, <1>3, <1>4, <1>5, ScanKeeps

(* The lock is given back.                                                 *)
LEMMA UnlockKeeps ==
  ASSUME FindInv, scan' = Find!Unlocked, UNCHANGED <<plugged, workers, workerStatus, workerPort, claimed, slipped, unread>>
  PROVE  FindInv'
<1>1. /\ scan'.todo = {} /\ scan'.by = 0 /\ scan'.found = <<>>
      /\ scan' = [by |-> scan'.by, todo |-> scan'.todo, found |-> scan'.found]
  BY DEF Find!Unlocked, Find!Nothing
<1>2. unread \in Nat
  BY DEF FindInv, FindTypes
<1> QED
  BY <1>1, <1>2, ScanKeeps

(* The first of what a survey found is dropped.                            *)
LEMMA DropKeeps ==
  ASSUME FindInv, scan.found # <<>>, scan' = [scan EXCEPT !.found = Tail(@)],
         UNCHANGED <<plugged, workers, workerStatus, workerPort, claimed, slipped, unread>>
  PROVE  FindInv'
<1>1. FindTypes /\ Agreed /\ Scanning /\ OwnIdentity /\ RightClaim /\ ReadInFull
  BY DEF FindInv
<1>2. /\ scan.found \in Seq(ProbeRow) /\ scan' = [by |-> scan.by, todo |-> scan.todo, found |-> Tail(scan.found)]
      /\ scan.by \in {0, -1} \cup (1 .. Len(workers)) /\ scan.todo \subseteq Ports
  BY <1>1 DEF FindTypes
<1>3. /\ scan'.found \in Seq(ProbeRow) /\ Len(scan.found) \in Nat /\ Len(scan'.found) = Len(scan.found) - 1
      /\ \A n \in 1 .. Len(scan'.found) : n + 1 \in 1 .. Len(scan.found) /\ scan'.found[n] = scan.found[n + 1]
      /\ scan'.by = scan.by /\ scan'.todo = scan.todo
  BY <1>2
<1>4. FindTypes'
  <2>1. scan' \in [by : {0, -1} \cup (1 .. Len(workers)), todo : SUBSET Ports, found : Seq(ProbeRow)]
    BY <1>2, <1>3
  <2> QED
    BY <1>1, <2>1 DEF FindTypes
<1>5. Agreed' /\ RightClaim'
  BY <1>1 DEF Agreed, RightClaim
<1>6. Scanning'
  BY <1>1, <1>3 DEF Scanning
<1>7. OwnIdentity'
  BY <1>1, <1>3 DEF OwnIdentity
<1>8. ReadInFull'
  <2> SUFFICES ASSUME unread = 0
               PROVE  /\ \A n \in 1 .. Len(scan'.found) : scan'.found[n].imei = scan'.found[n].of
                      /\ \A n \in 1 .. Len(scan'.found), w \in 1 .. Len(workers) : workers[w].for # scan'.found[n].of
                      /\ \A m, n \in 1 .. Len(scan'.found) : scan'.found[m].of = scan'.found[n].of => m = n
    BY <1>1 DEF ReadInFull
  <2>1. /\ \A n \in 1 .. Len(scan.found) : scan.found[n].imei = scan.found[n].of
        /\ \A n \in 1 .. Len(scan.found), w \in 1 .. Len(workers) : workers[w].for # scan.found[n].of
        /\ \A m, n \in 1 .. Len(scan.found) : scan.found[m].of = scan.found[n].of => m = n
    BY <1>1 DEF ReadInFull
  <2>2. ASSUME NEW m \in 1 .. Len(scan'.found), NEW n \in 1 .. Len(scan'.found),
               scan'.found[m].of = scan'.found[n].of
        PROVE  m = n
    <3>1. m + 1 = n + 1
      BY <1>3, <2>1, <2>2
    <3> QED
      BY <3>1
  <2> QED
    BY <1>3, <2>1, <2>2
<1> QED
  BY <1>4, <1>5, <1>6, <1>7, <1>8 DEF FindInv

(* A worker is made for the module a survey found first.                   *)
LEMMA AdoptKeeps ==
  ASSUME FindInv, scan.found # <<>>, scan.by = -1, scan' = [scan EXCEPT !.found = Tail(@)],
         Find!Identity(Head(scan.found)) # <<"none">>,
         workers' = Append(workers, Find!Adopted(Head(scan.found))),
         workerStatus' = Append(workerStatus, "seeking"), workerPort' = Append(workerPort, 0),
         UNCHANGED <<plugged, claimed, slipped, unread>>
  PROVE  FindInv'
<1>1. FindTypes /\ Agreed /\ Scanning /\ OwnIdentity /\ RightClaim /\ ReadInFull
  BY DEF FindInv
<1> DEFINE r == Head(scan.found)
           d == Find!Adopted(r)
           L == Len(workers)
<1>2. /\ scan.found \in Seq(ProbeRow) /\ scan' = [by |-> -1, todo |-> scan.todo, found |-> Tail(scan.found)]
      /\ scan.todo \subseteq Ports /\ L \in Nat
  <2>1. workers \in Seq(DeviceRow)
    BY <1>1 DEF FindTypes
  <2>2. scan \in [by : {0, -1} \cup (1 .. L), todo : SUBSET Ports, found : Seq(ProbeRow)]
    BY <1>1 DEF FindTypes
  <2>3. scan.found \in Seq(ProbeRow) /\ scan.todo \subseteq Ports /\ L \in Nat
    BY <2>1, <2>2
  <2>4. scan' = [by |-> -1, todo |-> scan.todo, found |-> Tail(scan.found)]
    <3> HIDE DEF L
    <3> QED
      BY <2>2
  <2> QED
    BY <2>3, <2>4
<1>3. /\ scan'.found \in Seq(ProbeRow) /\ Len(scan.found) \in Nat /\ Len(scan'.found) = Len(scan.found) - 1
      /\ \A n \in 1 .. Len(scan'.found) : n + 1 \in 1 .. Len(scan.found) /\ scan'.found[n] = scan.found[n + 1]
      /\ scan'.by = -1 /\ scan'.todo = scan.todo
      /\ 1 \in 1 .. Len(scan.found) /\ r = scan.found[1] /\ r \in ProbeRow
  BY <1>2
<1>4. /\ d \in DeviceRow /\ d.imei \in {0, d.for} /\ d.iccid \in {0, d.for}
      /\ d.for = r.of /\ d.imei = r.imei
  <2>1. r.imei \in {0, r.of} /\ r.imei \in AnyModule /\ r.of \in Modules
    BY <1>1, <1>3 DEF OwnIdentity, ProbeRow
  <2> HIDE DEF r
  <2> QED
    BY <2>1 DEF Find!Adopted, Find!Device, Find!Nothing, DeviceRow, AnyModule
<1> HIDE DEF r, d
<1>5. /\ workers' \in Seq(DeviceRow) /\ Len(workers') = L + 1 /\ workers'[L + 1] = d
      /\ workerStatus' \in Seq({"seeking", "claimed", "up", "lost"}) /\ Len(workerStatus') = L + 1
      /\ workerStatus'[L + 1] = "seeking"
      /\ workerPort' \in Seq(Ports \cup {0}) /\ Len(workerPort') = L + 1 /\ workerPort'[L + 1] = 0
      /\ \A w \in 1 .. L : /\ workers'[w] = workers[w] /\ workerStatus'[w] = workerStatus[w]
                           /\ workerPort'[w] = workerPort[w]
      /\ \A w \in 1 .. Len(workers') : w \in 1 .. L \/ w = L + 1
  <2>1. workers' = Append(workers, d)
    BY DEF d, r
  <2>2. workers' \in Seq(DeviceRow) /\ Len(workers') = L + 1 /\ workers'[L + 1] = d
        /\ \A w \in 1 .. L : workers'[w] = workers[w]
    BY <1>1, <1>4, <2>1 DEF FindTypes
  <2>3. /\ workerStatus' \in Seq({"seeking", "claimed", "up", "lost"}) /\ Len(workerStatus') = L + 1
        /\ workerStatus'[L + 1] = "seeking" /\ \A w \in 1 .. L : workerStatus'[w] = workerStatus[w]
    BY <1>1 DEF FindTypes
  <2>4. /\ workerPort' \in Seq(Ports \cup {0}) /\ Len(workerPort') = L + 1
        /\ workerPort'[L + 1] = 0 /\ \A w \in 1 .. L : workerPort'[w] = workerPort[w]
    BY <1>1 DEF FindTypes
  <2>5. \A w \in 1 .. Len(workers') : w \in 1 .. L \/ w = L + 1
    BY <1>2, <2>2
  <2> QED
    BY <2>2, <2>3, <2>4, <2>5
<1>6. FindTypes'
  <2>1. scan' \in [by : {0, -1} \cup (1 .. Len(workers')), todo : SUBSET Ports, found : Seq(ProbeRow)]
    BY <1>2, <1>3
  <2>2. claimed' \in [Ports -> 0 .. Len(workers')]
    BY <1>1, <1>2, <1>5 DEF FindTypes
  <2> QED
    BY <1>1, <1>5, <2>1, <2>2 DEF FindTypes
<1>7. Agreed'
  <2>1. ASSUME NEW w \in 1 .. Len(workers')
        PROVE  /\ (workerStatus'[w] = "seeking") <=> (workerPort'[w] = 0)
               /\ workerPort'[w] # 0 => claimed'[workerPort'[w]] = w
    BY <1>1, <1>5 DEF Agreed
  <2>2. ASSUME NEW p \in Ports, claimed'[p] # 0 PROVE workerPort'[claimed'[p]] = p
    <3>1. claimed[p] \in 1 .. L /\ workerPort[claimed[p]] = p
      BY <1>1, <2>2 DEF Agreed, FindTypes
    <3> QED
      BY <1>5, <3>1
  <2> QED
    BY <2>1, <2>2 DEF Agreed
<1>8. Scanning'
  BY <1>1, <1>2, <1>3, <1>5 DEF Scanning
<1>9. OwnIdentity'
  BY <1>1, <1>3, <1>4, <1>5 DEF OwnIdentity
<1>10. RightClaim'
  BY <1>1, <1>5 DEF RightClaim
<1>11. ReadInFull'
  <2> SUFFICES ASSUME unread = 0
               PROVE  /\ \A w \in 1 .. Len(workers') : workers'[w].imei # 0 \/ workers'[w].iccid # 0
                      /\ \A n \in 1 .. Len(scan'.found) : scan'.found[n].imei = scan'.found[n].of
                      /\ \A n \in 1 .. Len(scan'.found), w \in 1 .. Len(workers') : workers'[w].for # scan'.found[n].of
                      /\ \A m, n \in 1 .. Len(scan'.found) : scan'.found[m].of = scan'.found[n].of => m = n
                      /\ \A v, w \in 1 .. Len(workers') :
                           w > Len(Configured) /\ workers'[v].for = workers'[w].for => v = w
    BY DEF ReadInFull
  <2>1. /\ \A w \in 1 .. L : workers[w].imei # 0 \/ workers[w].iccid # 0
        /\ \A n \in 1 .. Len(scan.found) : scan.found[n].imei = scan.found[n].of
        /\ \A n \in 1 .. Len(scan.found), w \in 1 .. L : workers[w].for # scan.found[n].of
        /\ \A m, n \in 1 .. Len(scan.found) : scan.found[m].of = scan.found[n].of => m = n
        /\ \A v, w \in 1 .. L : w > Len(Configured) /\ workers[v].for = workers[w].for => v = w
    BY <1>1 DEF ReadInFull
  <2>2. d.imei # 0 /\ d.for = scan.found[1].of /\ \A w \in 1 .. L : workers[w].for # d.for
    <3>1. r.of # 0
      BY <1>3, DiscoveryAssumption DEF ProbeRow
    <3>2. r.imei = r.of /\ \A w \in 1 .. L : workers[w].for # r.of
      BY <1>3, <2>1
    <3> HIDE DEF L
    <3> QED
      BY <1>3, <1>4, <3>1, <3>2
  <2>3. \A w \in 1 .. Len(workers') : workers'[w].imei # 0 \/ workers'[w].iccid # 0
    BY <1>5, <2>1, <2>2
  <2>4. \A n \in 1 .. Len(scan'.found) : scan'.found[n].imei = scan'.found[n].of
    BY <1>3, <2>1
  <2>5. ASSUME NEW n \in 1 .. Len(scan'.found), NEW w \in 1 .. Len(workers')
        PROVE  workers'[w].for # scan'.found[n].of
    <3>1. n + 1 \in 1 .. Len(scan.found) /\ n + 1 # 1 /\ scan'.found[n] = scan.found[n + 1]
      BY <1>3
    <3>2. d.for # scan.found[n + 1].of
      BY <1>3, <2>1, <2>2, <3>1
    <3> QED
      BY <1>5, <2>1, <3>1, <3>2
  <2>6. ASSUME NEW m \in 1 .. Len(scan'.found), NEW n \in 1 .. Len(scan'.found),
               scan'.found[m].of = scan'.found[n].of
        PROVE  m = n
    <3>1. m + 1 = n + 1
      BY <1>3, <2>1, <2>6
    <3> QED
      BY <3>1
  <2>7. \A v, w \in 1 .. Len(workers') : w > Len(Configured) /\ workers'[v].for = workers'[w].for => v = w
    BY <1>5, <2>1, <2>2
  <2> QED
    BY <2>3, <2>4, <2>5, <2>6, <2>7
<1> QED
  BY <1>6, <1>7, <1>8, <1>9, <1>10, <1>11 DEF FindInv

(* A survey's findings are adopted one after the other.                    *)
LEMMA AdoptionKeeps ==
  ASSUME FindInv, Find!_adopt
  PROVE  FindInv'
<1>1. scan.by = -1 /\ UNCHANGED <<plugged, claimed, slipped, unread>>
  BY DEF Find!_adopt, Find!Survey
<1>2. CASE scan.found = <<>>
  BY <1>1, <1>2, UnlockKeeps DEF Find!_adopt
<1>3. CASE scan.found # <<>>
  <2>1. scan' = [scan EXCEPT !.found = Tail(@)]
    BY <1>3 DEF Find!_adopt
  <2>2. CASE UNCHANGED <<workers, workerStatus, workerPort>>
    BY <1>1, <1>3, <2>1, <2>2, DropKeeps
  <2>3. CASE ~UNCHANGED <<workers, workerStatus, workerPort>>
    <3>1. /\ Find!Identity(Head(scan.found)) # <<"none">>
          /\ workers' = Append(workers, Find!Adopted(Head(scan.found)))
          /\ workerStatus' = Append(workerStatus, "seeking") /\ workerPort' = Append(workerPort, 0)
      BY <1>3, <2>3 DEF Find!_adopt, Find!Nothing
    <3> QED
      BY <1>1, <1>3, <2>1, <3>1, AdoptKeeps
  <2> QED
    BY <2>2, <2>3
<1> QED
  BY <1>2, <1>3

(* The port a worker claimed answers, or is given back; a module comes or  *)
(* goes.                                                                   *)
LEMMA ConnectKeeps ==
  ASSUME FindInv, NEW w \in 1 .. Len(workers), Find!connect(w)
  PROVE  FindInv'
<1>1. FindTypes /\ Agreed /\ Scanning /\ OwnIdentity /\ RightClaim /\ ReadInFull
  BY DEF FindInv
<1>2. /\ workerStatus[w] = "claimed" /\ workerStatus' = [workerStatus EXCEPT ![w] = "up"]
      /\ UNCHANGED <<plugged, workers, workerPort, claimed, scan, slipped, unread>>
  BY DEF Find!connect
<1>3. /\ workerStatus' \in Seq({"seeking", "claimed", "up", "lost"}) /\ Len(workerStatus') = Len(workers)
      /\ \A v \in 1 .. Len(workers) : workerStatus'[v] = IF v = w THEN "up" ELSE workerStatus[v]
  BY <1>1, <1>2 DEF FindTypes
<1>4. FindTypes'
  BY <1>1, <1>2, <1>3 DEF FindTypes
<1>5. Agreed' /\ Scanning'
  BY <1>1, <1>2, <1>3 DEF Agreed, Scanning
<1>6. RightClaim'
  BY <1>1, <1>2, <1>3 DEF RightClaim
<1>7. OwnIdentity' /\ ReadInFull'
  BY <1>1, <1>2 DEF OwnIdentity, ReadInFull
<1> QED
  BY <1>4, <1>5, <1>6, <1>7 DEF FindInv

(* A port that is gone is free again.                                      *)
LEMMA ReleaseKeeps ==
  ASSUME FindInv, NEW w \in 1 .. Len(workers), Find!_teardown(w)
  PROVE  FindInv'
<1>1. FindTypes /\ Agreed /\ Scanning /\ OwnIdentity /\ RightClaim /\ ReadInFull
  BY DEF FindInv
<1> DEFINE p == workerPort[w]
<1>2. /\ workerStatus[w] \in {"lost", "claimed"}
      /\ workerStatus' = [workerStatus EXCEPT ![w] = "seeking"]
      /\ workerPort' = [workerPort EXCEPT ![w] = 0]
      /\ claimed' = [claimed EXCEPT ![p] = 0]
      /\ UNCHANGED <<plugged, workers, scan, slipped, unread>>
  BY DEF Find!_teardown, Find!Released, Find!Nothing
<1>3. p \in Ports /\ p # 0 /\ claimed[p] = w
  <2>1. p \in Ports \cup {0} /\ workerStatus[w] # "seeking"
    BY <1>1, <1>2 DEF FindTypes
  <2> QED
    BY <1>1, <2>1 DEF Agreed
<1> HIDE DEF p
<1>4. /\ \A v \in 1 .. Len(workers) : workerStatus'[v] = IF v = w THEN "seeking" ELSE workerStatus[v]
      /\ \A v \in 1 .. Len(workers) : workerPort'[v] = IF v = w THEN 0 ELSE workerPort[v]
      /\ \A q \in Ports : claimed'[q] = IF q = p THEN 0 ELSE claimed[q]
  BY <1>1, <1>2, <1>3 DEF FindTypes
<1>5. FindTypes'
  <2>1. workerStatus' \in Seq({"seeking", "claimed", "up", "lost"}) /\ Len(workerStatus') = Len(workers)
    BY <1>1, <1>2 DEF FindTypes
  <2>2. workerPort' \in Seq(Ports \cup {0}) /\ Len(workerPort') = Len(workers)
    BY <1>1, <1>2 DEF FindTypes
  <2>3. claimed' \in [Ports -> 0 .. Len(workers)]
    <3>1. claimed \in [Ports -> 0 .. Len(workers)] /\ 0 \in 0 .. Len(workers)
      BY <1>1 DEF FindTypes
    <3> QED
      BY <1>2, <3>1
  <2> QED
    BY <1>1, <1>2, <2>1, <2>2, <2>3 DEF FindTypes
<1>6. Agreed'
  <2>1. \A v \in 1 .. Len(workers) : workerPort[v] \in Ports \cup {0}
    BY <1>1 DEF FindTypes
  <2>2. \A v \in 1 .. Len(workers) : v # w => workerPort[v] # p
    BY <1>1, <1>3 DEF Agreed
  <2>3. ASSUME NEW v \in 1 .. Len(workers)
        PROVE  /\ (workerStatus'[v] = "seeking") <=> (workerPort'[v] = 0)
               /\ workerPort'[v] # 0 => claimed'[workerPort'[v]] = v
    BY <1>1, <1>4, <2>1, <2>2 DEF Agreed
  <2>4. ASSUME NEW q \in Ports, claimed'[q] # 0 PROVE workerPort'[claimed'[q]] = q
    <3>1. q # p /\ claimed'[q] = claimed[q] /\ claimed[q] \in 1 .. Len(workers) /\ workerPort[claimed[q]] = q
      BY <1>1, <1>4, <2>4 DEF Agreed, FindTypes
    <3>2. claimed[q] # w
      BY <3>1 DEF p
    <3> QED
      BY <1>4, <3>1, <3>2
  <2> QED
    BY <1>2, <2>3, <2>4 DEF Agreed
<1>7. Scanning'
  <2>1. \A q \in scan.todo : q \in Ports
    BY <1>1 DEF FindTypes
  <2> QED
    BY <1>1, <1>2, <1>4, <2>1 DEF Scanning
<1>8. RightClaim'
  BY <1>1, <1>2, <1>4 DEF RightClaim
<1>9. OwnIdentity' /\ ReadInFull'
  BY <1>1, <1>2 DEF OwnIdentity, ReadInFull
<1> QED
  BY <1>5, <1>6, <1>7, <1>8, <1>9 DEF FindInv

(* A module comes or goes: the worker that had it up is lost, and one that *)
(* only claimed the port may meet another module there.                    *)
LEMMA PlugKeeps ==
  ASSUME FindInv, NEW p \in Ports, NEW m \in Modules \cup {0}, Find!plug(p, m)
  PROVE  FindInv'
<1>1. FindTypes /\ Agreed /\ Scanning /\ OwnIdentity /\ RightClaim /\ ReadInFull
  BY DEF FindInv
<1>2. /\ plugged' = [plugged EXCEPT ![p] = m] /\ slipped' = slipped \cup {p}
      /\ workerStatus' = [w \in DOMAIN workers |->
                            IF workerPort[w] = p /\ workerStatus[w] = "up" THEN "lost" ELSE workerStatus[w]]
      /\ UNCHANGED <<workers, workerPort, claimed, scan, unread>>
  BY DEF Find!plug
<1>3. DOMAIN workers = 1 .. Len(workers) /\ Len(workers) \in Nat
  BY <1>1 DEF FindTypes
<1>4. /\ \A w \in 1 .. Len(workers) :
           workerStatus'[w] = IF workerPort[w] = p /\ workerStatus[w] = "up" THEN "lost" ELSE workerStatus[w]
      /\ \A q \in Ports : plugged'[q] = IF q = p THEN m ELSE plugged[q]
  BY <1>1, <1>2, <1>3 DEF FindTypes
<1>5. FindTypes'
  <2>1. \A w \in 1 .. Len(workers) : workerStatus[w] \in {"seeking", "claimed", "up", "lost"}
    BY <1>1 DEF FindTypes
  <2>2. workerStatus' \in Seq({"seeking", "claimed", "up", "lost"}) /\ Len(workerStatus') = Len(workers)
    BY <1>2, <1>3, <2>1
  <2>3. plugged' \in [Ports -> AnyModule] /\ slipped' \subseteq Ports
    BY <1>1, <1>2 DEF FindTypes, AnyModule
  <2> QED
    BY <1>1, <1>2, <2>2, <2>3 DEF FindTypes
<1>6. Agreed' /\ Scanning'
  BY <1>1, <1>2, <1>4 DEF Agreed, Scanning
<1>7. RightClaim'
  <2> SUFFICES ASSUME NEW w \in 1 .. Len(workers), workerStatus'[w] \in {"claimed", "up"},
                      workerPort[w] \notin slipped', Asks(workers[w])
               PROVE  plugged'[workerPort[w]] = workers[w].for
    BY <1>2 DEF RightClaim, Asks
  <2>1. workerPort[w] # p /\ workerPort[w] \notin slipped /\ workerStatus[w] \in {"claimed", "up"}
    BY <1>2, <1>4
  <2>2. workerPort[w] \in Ports
    BY <1>1, <2>1 DEF FindTypes, Agreed
  <2> QED
    BY <1>1, <1>4, <2>1, <2>2 DEF RightClaim
<1>8. OwnIdentity' /\ ReadInFull'
  BY <1>1, <1>2 DEF OwnIdentity, ReadInFull
<1> QED
  BY <1>5, <1>6, <1>7, <1>8 DEF FindInv

(* discovery.py, app.py and worker.py: each of the steps keeps claims and  *)
(* workers in agreement.                                                   *)
LEMMA FindStep == FindInv /\ [Find!Next]_(Find!discVars) => FindInv'
<1> SUFFICES ASSUME FindInv, [Find!Next]_(Find!discVars) PROVE FindInv'
  OBVIOUS
<1>1. DOMAIN workers = 1 .. Len(workers)
  BY DEF FindInv, FindTypes
<1>2. CASE UNCHANGED Find!discVars
  <2>1. FindTypes /\ Agreed /\ Scanning /\ OwnIdentity /\ RightClaim /\ ReadInFull
    BY DEF FindInv
  <2>2. UNCHANGED <<plugged, workers, workerStatus, workerPort, claimed, scan, slipped, unread>>
    BY <1>2 DEF Find!discVars
  <2>3. FindTypes'
    BY <2>1, <2>2 DEF FindTypes
  <2>4. Agreed' /\ Scanning'
    BY <2>1, <2>2 DEF Agreed, Scanning
  <2>5. RightClaim' /\ OwnIdentity'
    BY <2>1, <2>2 DEF RightClaim, OwnIdentity
  <2>6. ReadInFull'
    BY <2>1, <2>2 DEF ReadInFull
  <2> QED
    BY <2>3, <2>4, <2>5, <2>6 DEF FindInv
<1>3. ASSUME NEW w \in 1 .. Len(workers), Find!acquire(w) PROVE FindInv'
  BY <1>3, BeginKeeps DEF Find!acquire
<1>4. CASE Find!survey
  BY <1>4, BeginKeeps DEF Find!survey, Find!Survey
<1>5. CASE Find!not_found
  BY <1>5, UnlockKeeps DEF Find!not_found
<1>6. CASE Find!probe
  BY <1>6, ProbeKeeps
<1>7. CASE Find!_adopt
  BY <1>7, AdoptionKeeps
<1>8. CASE Find!Next
  BY <1>1, <1>3, <1>4, <1>5, <1>6, <1>7, <1>8, ConnectKeeps, ReleaseKeeps, PlugKeeps
     DEF Find!Next, Find!Scans, Find!Nothing
<1> QED
  BY <1>2, <1>8

(* Port discovery: the registry of claimed ports and the workers agree in  *)
(* every reachable state, for any ports, modules and configuration.        *)
THEOREM FindInvariance == Find!Spec => []FindInv
<1>1. Find!Init => FindInv
  BY FindInit
<1>2. FindInv /\ [Find!Next]_(Find!discVars) => FindInv'
  BY FindStep
<1> QED
  BY <1>1, <1>2, PTL DEF Find!Spec

(* discovery.py and worker.py: the type invariant of port discovery; a     *)
(* port is claimed by the one worker that holds it.                        *)
THEOREM FindTypeCorrect == Find!Spec => []Find!TypeOK
<1>1. FindInv => Find!TypeOK
  <2> SUFFICES ASSUME FindInv PROVE Find!TypeOK
    OBVIOUS
  <2>1. FindTypes /\ Agreed
    BY DEF FindInv
  <2>2. DOMAIN workers = 1 .. Len(workers)
    BY <2>1 DEF FindTypes
  <2>3. /\ plugged \in [Ports -> Modules \cup {0}] /\ scan.by \in {0, -1} \cup (1 .. Len(workers))
        /\ Len(workerStatus) = Len(workers) /\ Len(workerPort) = Len(workers)
        /\ \A w \in 1 .. Len(workers) : workerStatus[w] \in {"seeking", "claimed", "up", "lost"}
    BY <2>1 DEF FindTypes, AnyModule
  <2> QED
    BY <2>1, <2>2, <2>3 DEF Agreed, Find!TypeOK, Find!Nothing, Find!Survey
<1> QED
  BY <1>1, FindInvariance, PTL

(* discovery.py: a worker that is up and asks for a module talks to that   *)
(* module, unless the port was replugged after the probe; as long as       *)
(* identities are read in full every worker asks for one, and an adopted   *)
(* worker is the only one for its module.                                  *)
THEOREM DiscoveryIsSafe == Find!Spec => []DiscoverySafe
<1>1. FindInv => DiscoverySafe
  <2> SUFFICES ASSUME FindInv PROVE DiscoverySafe
    OBVIOUS
  <2>1. FindTypes /\ RightClaim /\ ReadInFull
    BY DEF FindInv
  <2>2. DOMAIN workers = 1 .. Len(workers)
    BY <2>1 DEF FindTypes
  <2>3. Find!RightModule
    BY <2>1, <2>2, NamedAsks DEF RightClaim, Find!RightModule
  <2>5. Find!NamedIfRead
    BY <2>1, <2>2, NamedAsks DEF ReadInFull, Asks, Find!NamedIfRead
  <2>4. Find!SpokenForIfRead
    BY <2>1, <2>2 DEF ReadInFull, Find!SpokenForIfRead, Find!SpokenFor
  <2> QED
    BY <2>3, <2>4, <2>5 DEF DiscoverySafe
<1> QED
  BY <1>1, FindInvariance, PTL

----------------------------------------------------------------------------
(* The AT client *)

Kinds == {"prompt", "info", "ok", "error", "change", "urc", "head", "payload"}
Response == {"prompt", "info", "ok", "error"}
Finals == {"ok", "error"}
LineRow == [kind : Kinds, of : Calls \cup Urcs \cup Splits]
(* What the module may still have to write for a command.                  *)
Lefts == {<<"prompt", "body", "info", "final">>, <<"body", "info", "final">>, <<"info", "final">>, <<"final">>}
CallStates == {"new", "lock", "prompt", "wait", "ok", "error", "timeout", "lost", "closed"}

ATTypes ==
    /\ call \in [Calls -> CallStates]
    /\ waiting \in Seq(Calls) /\ order \in Seq(Calls)
    /\ pending \in [call : Calls \cup {"none"}, lines : SUBSET LineRow, prompt : BOOLEAN,
                    final : {"none", "ok", "error", "lost"}, of : Calls \cup {"none"}]
    /\ capture \in Splits \cup {AT!NoUrc}
    /\ port \in {"open", "lost", "closed"}
    /\ wire \in Seq(LineRow)
    /\ modem \in Seq([call : Calls, left : Lefts])
    /\ toReport \subseteq Urcs \cup Splits \cup Shared
    /\ got \in [Calls -> [lines : SUBSET LineRow, of : Calls \cup {"none"}]]
    /\ timeouts \in 0 .. MaxTimeouts
    /\ \A n \in 1 .. Len(wire) :
         /\ wire[n].kind \in Response => wire[n].of \in Calls
         /\ wire[n].kind = "change" => wire[n].of \in Shared
         /\ wire[n].kind = "head" => wire[n].of \in Splits

(* The lock: one call at a time is pending, it is the last whose command   *)
(* was written, and each command is written once.                          *)
OneCall ==
    /\ pending.call = "none" => pending = AT!NoPending
    /\ pending.call # "none" =>
         /\ call[pending.call] \in {"prompt", "wait"}
         /\ order # <<>> /\ order[Len(order)] = pending.call
    /\ \A c \in Calls : call[c] \in {"prompt", "wait"} => pending.call = c
    /\ \A c \in Calls : call[c] = "lock" <=> \E n \in 1 .. Len(waiting) : waiting[n] = c
    /\ \A m, n \in 1 .. Len(waiting) : waiting[m] = waiting[n] => m = n
    /\ \A m, n \in 1 .. Len(order) : order[m] = order[n] => m = n
    /\ \A n \in 1 .. Len(order) : call[order[n]] \notin {"new", "lock"}

(* The lines of a split URC follow each other, and what is captured is the *)
(* second of them.                                                         *)
Whole ==
    /\ \A n \in 1 .. Len(wire) : wire[n].kind = "head" =>
         n + 1 \in 1 .. Len(wire) /\ wire[n + 1] = AT!Line("payload", wire[n].of)
    /\ capture # AT!NoUrc /\ port = "open" =>
         wire # <<>> /\ wire[1] = AT!Line("payload", capture)
    /\ port # "open" => wire = <<>> /\ modem = <<>>

(* The module answers the commands in the order they were written: what it *)
(* still works on are the last, and the final lines on the wire are of     *)
(* earlier ones, in order.                                                 *)
InTurn ==
    /\ Len(modem) <= Len(order)
    /\ \A n \in 1 .. Len(modem) : modem[n].call = order[(Len(order) - Len(modem)) + n]
    /\ \A n \in 1 .. Len(wire) : wire[n].kind \in Finals =>
         \E k \in 1 .. (Len(order) - Len(modem)) : order[k] = wire[n].of
    /\ \A m, n \in 1 .. Len(wire) : m < n /\ wire[m].kind \in Finals /\ wire[n].kind \in Finals =>
         \A j, k \in 1 .. Len(order) : order[j] = wire[m].of /\ order[k] = wire[n].of => j < k

(* A module that waits for a body nobody will write: no prompt is on the   *)
(* wire and none was seen by a call that still waits for one.              *)
Stuck ==
    /\ modem # <<>> /\ Head(modem[1].left) = "body"
    /\ \A n \in 1 .. Len(wire) : wire[n].kind \notin {"prompt", "ok", "error"}
    /\ ~(pending.call # "none" /\ call[pending.call] = "prompt" /\ pending.prompt)

(* The oldest command whose final line may still come.                     *)
Oldest == (Len(order) - timeouts) + (IF pending.call # "none" /\ pending.final = "none" THEN 0 ELSE 1)

Fresh ==
    \/ Stuck
    \/ /\ (Len(order) - Len(modem)) + 1 >= Oldest
       /\ \A n \in 1 .. Len(wire) : wire[n].kind \in Finals =>
            \A k \in 1 .. Len(order) : order[k] = wire[n].of => k >= Oldest

(* What the pending call and the finished ones were given.                 *)
Given ==
    /\ pending.final \in Finals =>
         \E k \in 1 .. Len(order) : order[k] = pending.of /\ k >= Len(order) - timeouts
    /\ \A c \in Calls : call[c] \in Finals =>
         \E k, n \in 1 .. Len(order) :
            order[n] = c /\ order[k] = got[c].of /\ n - timeouts <= k /\ k <= n

(* While nothing timed out, the response lines on the wire are those of    *)
(* the pending call, up to its final line, and the module works on nothing *)
(* else.                                                                   *)
Info(c) == AT!Line("info", c)
Written(l) == \E n \in 1 .. Len(wire) : wire[n] = l
Clean ==
    /\ \A n \in 1 .. Len(wire) : wire[n].kind \in Response =>
         pending.call # "none" /\ pending.final = "none" /\ wire[n].of = pending.call
    /\ \A m, n \in 1 .. Len(wire) : m < n /\ wire[m].kind \in Finals => wire[n].kind \notin Response
    /\ \A n \in 1 .. Len(wire) : wire[n].kind = "ok" =>
         Info(pending.call) \in pending.lines \/ \E m \in 1 .. (n - 1) : wire[m] = Info(pending.call)
    /\ modem # <<>> =>
         /\ Len(modem) = 1 /\ pending.call # "none" /\ pending.final = "none"
         /\ \A n \in 1 .. Len(wire) : wire[n].kind \notin Finals
         /\ Head(modem[1].left) = "final" => Info(pending.call) \in pending.lines \/ Written(Info(pending.call))
         /\ Head(modem[1].left) = "prompt" =>
              /\ ~pending.prompt /\ call[pending.call] = "prompt"
              /\ \A n \in 1 .. Len(wire) : wire[n].kind # "prompt"
         /\ Head(modem[1].left) = "body" =>
              /\ call[pending.call] = "prompt"
              /\ pending.prompt \/ \E n \in 1 .. Len(wire) : wire[n].kind = "prompt"
    /\ pending.final = "ok" => Info(pending.call) \in pending.lines
    /\ \A l \in pending.lines : l.of = pending.call \/ l.kind = "payload"

Untimed == timeouts = 0 => Clean

ATInv == ATTypes /\ OneCall /\ Whole /\ InTurn /\ Fresh /\ Given /\ Untimed
         /\ AT!OwnAnswer /\ AT!HandlersGetUrcs

PendingRow == [call : Calls \cup {"none"}, lines : SUBSET LineRow, prompt : BOOLEAN,
               final : {"none", "ok", "error", "lost"}, of : Calls \cup {"none"}]

(* No call is pending exactly when none is named.                          *)
LEMMA NonePending ==
  ASSUME OneCall
  PROVE  (pending = AT!NoPending) <=> (pending.call = "none")
  BY DEF OneCall, AT!NoPending

(* Nobody has asked for anything.                                          *)
LEMMA ATStart == AT!Init => ATInv
<1> SUFFICES ASSUME AT!Init PROVE ATInv
  OBVIOUS
<1>1. /\ call = [c \in Calls |-> "new"] /\ waiting = <<>> /\ pending = AT!NoPending /\ capture = AT!NoUrc
      /\ port = "open" /\ wire = <<>> /\ modem = <<>> /\ toReport = Urcs \cup Splits \cup Shared
      /\ got = [c \in Calls |-> [lines |-> {}, of |-> "none"]]
      /\ dispatched = {} /\ order = <<>> /\ timeouts = 0
  BY DEF AT!Init
<1>2. Len(wire) = 0 /\ Len(order) = 0 /\ Len(modem) = 0 /\ Len(waiting) = 0
  BY <1>1
<1>3. /\ pending.call = "none" /\ pending.lines = {} /\ pending.prompt = FALSE
      /\ pending.final = "none" /\ pending.of = "none"
  BY <1>1 DEF AT!NoPending
<1>4. ATTypes
  <2>1. pending \in PendingRow
    BY <1>1 DEF PendingRow, AT!NoPending
  <2>2. got \in [Calls -> [lines : SUBSET LineRow, of : Calls \cup {"none"}]]
    BY <1>1
  <2>3. call \in [Calls -> CallStates] /\ timeouts \in 0 .. MaxTimeouts
    <3>1. MaxTimeouts \in Nat
      BY ATAssumption
    <3> QED
      BY <1>1, <3>1 DEF CallStates
  <2>4. /\ wire \in Seq(LineRow) /\ order \in Seq(Calls) /\ waiting \in Seq(Calls)
        /\ modem \in Seq([call : Calls, left : Lefts])
    BY <1>1
  <2> QED
    BY <1>1, <1>2, <2>1, <2>2, <2>3, <2>4 DEF ATTypes, PendingRow
<1>5. OneCall
  BY <1>1, <1>2, <1>3 DEF OneCall
<1>6. Whole /\ InTurn /\ Fresh
  BY <1>1, <1>2, <1>3 DEF Whole, InTurn, Fresh, Oldest
<1>7. Given /\ Untimed
  BY <1>1, <1>2, <1>3 DEF Given, Untimed, Clean, Finals
<1>8. AT!OwnAnswer /\ AT!HandlersGetUrcs
  BY <1>1 DEF AT!OwnAnswer, AT!HandlersGetUrcs
<1> QED
  BY <1>4, <1>5, <1>6, <1>7, <1>8 DEF ATInv

(* Only the wire, the module and the order of the commands matter to       *)
(* which answers come in turn.                                             *)
LEMMA InTurnStays ==
  ASSUME InTurn, UNCHANGED <<wire, modem, order>>
  PROVE  InTurn'
<1>1. Len(modem') <= Len(order') /\ \A n \in 1 .. Len(modem') : modem'[n].call = order'[(Len(order') - Len(modem')) + n]
  BY DEF InTurn
<1>2. \A n \in 1 .. Len(wire') : wire'[n].kind \in Finals =>
        \E k \in 1 .. (Len(order') - Len(modem')) : order'[k] = wire'[n].of
  BY DEF InTurn
<1>3. ASSUME NEW m \in 1 .. Len(wire'), NEW n \in 1 .. Len(wire'), m < n, wire'[m].kind \in Finals,
             wire'[n].kind \in Finals, NEW j \in 1 .. Len(order'), NEW k \in 1 .. Len(order'),
             order'[j] = wire'[m].of, order'[k] = wire'[n].of
      PROVE  j < k
  BY <1>3 DEF InTurn
<1> QED
  BY ONLY <1>1, <1>2, <1>3, Zenon DEF InTurn

(* Only the call that is not in flight moves: the wire, the module and     *)
(* what is pending stay as they are.                                       *)
LEMMA AsideKeeps ==
  ASSUME ATInv, NEW c \in Calls, NEW s \in CallStates \ {"prompt", "wait", "ok", "error"},
         call[c] \notin {"prompt", "wait"}, call' = [call EXCEPT ![c] = s],
         waiting' \in Seq(Calls), OneCall',
         UNCHANGED <<pending, capture, port, wire, modem, toReport, got, dispatched, order, timeouts>>
  PROVE  ATInv'
<1>1. ATTypes /\ OneCall /\ Whole /\ InTurn /\ Fresh /\ Given /\ Untimed /\ AT!OwnAnswer /\ AT!HandlersGetUrcs
  BY DEF ATInv
<1>2. \A d \in Calls : call'[d] = IF d = c THEN s ELSE call[d]
  BY <1>1 DEF ATTypes
<1>3. pending.call # "none" => call'[pending.call] = call[pending.call]
  BY <1>1, <1>2 DEF OneCall, ATTypes
<1>4. ATTypes'
  BY <1>1 DEF ATTypes
<1>5. Whole' /\ InTurn'
  <2>1. Whole'
    BY <1>1 DEF Whole
  <2> QED
    BY <1>1, <2>1, InTurnStays
<1>6. Fresh'
  BY <1>1, <1>3 DEF Fresh, Stuck, Oldest
<1>7. Given'
  BY <1>1, <1>2 DEF Given, Finals
<1>8. Untimed'
  BY <1>1, <1>3 DEF Untimed, Clean, Written, Info
<1>9. AT!OwnAnswer'
  BY <1>1, <1>2 DEF AT!OwnAnswer
<1>10. AT!HandlersGetUrcs'
  BY <1>1 DEF AT!HandlersGetUrcs
<1> QED
  BY <1>4, <1>5, <1>6, <1>7, <1>8, <1>9, <1>10 DEF ATInv

(* execute: the call waits for the lock, or the port is closed.            *)
LEMMA ExecuteKeeps ==
  ASSUME ATInv, NEW c \in Calls, AT!execute(c)
  PROVE  ATInv'
<1>1. ATTypes /\ OneCall
  BY DEF ATInv
<1>2. /\ call[c] = "new"
      /\ UNCHANGED <<pending, capture, port, wire, modem, toReport, got, dispatched, order, timeouts>>
  BY DEF AT!execute
<1>3. CASE port # "open"
  <2>1. call' = [call EXCEPT ![c] = "closed"] /\ waiting' = waiting
    BY <1>3 DEF AT!execute
  <2>2. \A d \in Calls : call'[d] = IF d = c THEN "closed" ELSE call[d]
    BY <1>1, <2>1 DEF ATTypes
  <2>3. OneCall'
    BY <1>1, <1>2, <2>1, <2>2 DEF OneCall, ATTypes
  <2> QED
    BY <1>1, <1>2, <2>1, <2>3, AsideKeeps DEF CallStates, ATTypes
<1>4. CASE port = "open"
  <2>1. call' = [call EXCEPT ![c] = "lock"] /\ waiting' = Append(waiting, c)
    BY <1>4 DEF AT!execute
  <2>2. \A d \in Calls : call'[d] = IF d = c THEN "lock" ELSE call[d]
    BY <1>1, <2>1 DEF ATTypes
  <2>3. /\ waiting' \in Seq(Calls) /\ Len(waiting) \in Nat /\ Len(waiting') = Len(waiting) + 1
        /\ waiting'[Len(waiting) + 1] = c
        /\ \A n \in 1 .. Len(waiting) : waiting'[n] = waiting[n] /\ waiting[n] \in Calls
    BY <1>1, <2>1 DEF ATTypes
  <2>4. \A n \in 1 .. Len(waiting') : n \in 1 .. Len(waiting) \/ n = Len(waiting) + 1
    BY <2>3
  <2>5. \A n \in 1 .. Len(waiting) : waiting[n] # c
    BY <1>1, <1>2 DEF OneCall
  <2>6. OneCall'
    <3>1. \A d \in Calls : call'[d] = "lock" <=> \E n \in 1 .. Len(waiting') : waiting'[n] = d
      <4>1. c = waiting'[Len(waiting) + 1] /\ Len(waiting) + 1 \in 1 .. Len(waiting')
        BY <2>3
      <4>2. ASSUME NEW d \in Calls, d # c
            PROVE  call'[d] = "lock" <=> \E n \in 1 .. Len(waiting') : waiting'[n] = d
        <5>1. call'[d] = "lock" <=> \E n \in 1 .. Len(waiting) : waiting[n] = d
          BY <1>1, <2>2, <4>2 DEF OneCall
        <5>2. \A n \in 1 .. Len(waiting) : n \in 1 .. Len(waiting')
          BY <2>3
        <5> QED
          BY <2>3, <2>4, <4>2, <5>1, <5>2
      <4> QED
        BY <2>2, <4>1, <4>2
    <3>2. \A m, n \in 1 .. Len(waiting') : waiting'[m] = waiting'[n] => m = n
      BY <1>1, <2>3, <2>4, <2>5 DEF OneCall
    <3>3. \A n \in 1 .. Len(order) : order[n] # c
      BY <1>1, <1>2 DEF OneCall
    <3>4. \A n \in 1 .. Len(order) : order[n] \in Calls
      BY <1>1 DEF ATTypes
    <3> QED
      BY <1>1, <1>2, <2>2, <3>1, <3>2, <3>3, <3>4 DEF OneCall, ATTypes
  <2> QED
    BY <1>2, <2>1, <2>3, <2>6, AsideKeeps DEF CallStates
<1> QED
  BY <1>3, <1>4

(* The end of a call that is given nothing: "timeout", "lost" or "closed", *)
(* or what its future was given.                                           *)
LEMMA EndsKeeps ==
  ASSUME ATInv, pending # AT!NoPending, NEW how \in {"ok", "error", "lost", "timeout", "closed"},
         AT!Ends(pending.call, how),
         how \in Finals => pending.final = how,
         timeouts' \in {timeouts, timeouts + 1}, timeouts' \in 0 .. MaxTimeouts,
         \/ timeouts' = timeouts + 1
         \/ wire = <<>> /\ modem = <<>>
         \/ wire = <<>> /\ Head(modem[1].left) = "body" /\ (call[pending.call] = "wait" \/ ~pending.prompt)
         \/ pending.final # "none",
         UNCHANGED <<waiting, port, wire, modem, toReport, dispatched, order>>
  PROVE  ATInv'
<1>1. ATTypes /\ OneCall /\ Whole /\ InTurn /\ Fresh /\ Given /\ Untimed /\ AT!OwnAnswer /\ AT!HandlersGetUrcs
  BY DEF ATInv
<1> DEFINE c == pending.call
<1>2. c # "none"
  BY <1>1, NonePending
<1>3. c \in Calls /\ call[c] \in {"prompt", "wait"} /\ order # <<>> /\ order[Len(order)] = c
  BY <1>1, <1>2 DEF ATTypes, OneCall
<1>4. /\ call' = [call EXCEPT ![c] = how]
      /\ got' = [got EXCEPT ![c] = [lines |-> pending.lines, of |-> pending.of]]
      /\ pending' = AT!NoPending /\ capture' = AT!NoUrc
  BY DEF AT!Ends
<1>5. /\ pending'.call = "none" /\ pending'.lines = {} /\ pending'.prompt = FALSE
      /\ pending'.final = "none" /\ pending'.of = "none" /\ pending' \in PendingRow
  BY <1>4 DEF AT!NoPending, PendingRow
<1> HIDE DEF c
<1>6. /\ \A d \in Calls : call'[d] = IF d = c THEN how ELSE call[d]
      /\ \A d \in Calls : got'[d] = IF d = c THEN [lines |-> pending.lines, of |-> pending.of] ELSE got[d]
  BY <1>1, <1>3, <1>4 DEF ATTypes
<1>7. Len(order) \in Nat /\ timeouts \in Nat /\ timeouts' \in Nat /\ Len(order) >= 1 /\ Len(modem) \in Nat
  <2>1. order \in Seq(Calls) /\ timeouts \in Nat /\ timeouts' \in Nat /\ Len(modem) \in Nat
    <3>1. MaxTimeouts \in Nat
      BY ATAssumption
    <3> QED
      BY <1>1, <3>1 DEF ATTypes
  <2> QED
    BY <1>3, <2>1
<1>8. ATTypes'
  <2>1. pending.lines \in SUBSET LineRow /\ pending.of \in Calls \cup {"none"}
    BY <1>1 DEF ATTypes
  <2>2. got' \in [Calls -> [lines : SUBSET LineRow, of : Calls \cup {"none"}]]
    BY <1>1, <1>4, <2>1 DEF ATTypes
  <2>3. call' \in [Calls -> CallStates]
    BY <1>1, <1>4 DEF ATTypes, CallStates
  <2> QED
    BY <1>1, <1>4, <1>5, <2>2, <2>3 DEF ATTypes, PendingRow
<1>9. OneCall'
  <2>1. \A d \in Calls : call'[d] \in {"prompt", "wait"} => pending'.call = d
    BY <1>1, <1>3, <1>6 DEF OneCall, c
  <2>2. \A d \in Calls : call'[d] = "lock" <=> call[d] = "lock"
    BY <1>3, <1>6
  <2>3. \A n \in 1 .. Len(order) : order[n] \in Calls
    BY <1>1 DEF ATTypes
  <2>4. \A n \in 1 .. Len(order) : call'[order[n]] \notin {"new", "lock"}
    BY <1>1, <1>6, <2>3 DEF OneCall
  <2> QED
    BY <1>1, <1>4, <1>5, <2>1, <2>2, <2>4 DEF OneCall
<1>10. Whole'
  BY <1>1, <1>4 DEF Whole
<1>11. InTurn'
  BY <1>1, InTurnStays
<1>12. Fresh'
  <2>1. Oldest' = (Len(order) - timeouts') + 1
    BY <1>5 DEF Oldest
  <2>2. CASE Stuck
    BY <1>5, <2>2 DEF Fresh, Stuck
  <2>3. CASE /\ (Len(order) - Len(modem)) + 1 >= Oldest /\ Oldest \in Int
             /\ \A n \in 1 .. Len(wire) : wire[n].kind \in Finals =>
                  \A k \in 1 .. Len(order) : order[k] = wire[n].of => k >= Oldest
    <3>1. CASE timeouts' = timeouts + 1 \/ pending.final # "none"
      <4>1. Oldest' <= Oldest
        BY <1>2, <1>7, <2>1, <3>1 DEF Oldest, c
      <4>2. Oldest' \in Int
        BY <1>7, <2>1
      <4>3. (Len(order) - Len(modem)) + 1 >= Oldest'
        BY <1>7, <2>3, <4>1, <4>2
      <4>4. \A n \in 1 .. Len(wire) : wire[n].kind \in Finals =>
              \A k \in 1 .. Len(order) : order[k] = wire[n].of => k >= Oldest'
        BY <2>3, <4>1, <4>2
      <4> QED
        BY <4>3, <4>4 DEF Fresh
    <3>2. CASE wire = <<>> /\ modem = <<>>
      <4>1. Len(wire) = 0 /\ Len(modem) = 0
        BY <3>2
      <4> QED
        BY <1>7, <2>1, <4>1 DEF Fresh
    <3>3. CASE modem # <<>> /\ wire = <<>> /\ Head(modem[1].left) = "body"
      <4>1. Len(wire) = 0
        BY <3>3
      <4> QED
        BY <1>5, <3>3, <4>1 DEF Fresh, Stuck
    <3> QED
      BY <3>1, <3>2, <3>3
  <2>4. Oldest \in Int
    BY <1>7 DEF Oldest
  <2> QED
    BY <1>1, <2>2, <2>3, <2>4 DEF Fresh
<1>13. Given'
  <2>1. ASSUME NEW d \in Calls, call'[d] \in Finals
        PROVE  \E k, n \in 1 .. Len(order) :
                 order[n] = d /\ order[k] = got'[d].of /\ n - timeouts' <= k /\ k <= n
    <3>1. CASE d = c
      <4>1. how \in Finals /\ pending.final \in Finals /\ got'[d].of = pending.of
        BY <1>6, <2>1, <3>1
      <4>2. PICK k \in 1 .. Len(order) : order[k] = pending.of /\ k >= Len(order) - timeouts
        BY <1>1, <4>1 DEF Given
      <4>3. Len(order) \in 1 .. Len(order) /\ Len(order) - timeouts' <= k /\ k <= Len(order)
        BY <1>7, <4>2
      <4> QED
        BY <1>3, <3>1, <4>1, <4>2, <4>3
    <3>2. CASE d # c
      <4>1. PICK k, n \in 1 .. Len(order) :
              order[n] = d /\ order[k] = got[d].of /\ n - timeouts <= k /\ k <= n
        BY <1>1, <1>6, <2>1, <3>2 DEF Given
      <4>2. n - timeouts' <= k
        BY <1>7, <4>1
      <4> QED
        BY <1>6, <3>2, <4>1, <4>2
    <3> QED
      BY <3>1, <3>2
  <2> QED
    BY <1>5, <2>1 DEF Given, Finals
<1>14. Untimed'
  <2> SUFFICES ASSUME timeouts' = 0 PROVE Clean'
    BY DEF Untimed
  <2>1. Clean /\ timeouts = 0
    BY <1>1, <1>7 DEF Untimed
  <2>2. modem = <<>> /\ \A n \in 1 .. Len(wire) : wire[n].kind \notin Response
    <3>1. CASE wire = <<>> /\ modem = <<>>
      <4>1. Len(wire) = 0
        BY <3>1
      <4> QED
        BY <3>1, <4>1
    <3>2. CASE pending.final # "none"
      BY <2>1, <3>2 DEF Clean
    <3>3. CASE modem # <<>> /\ wire = <<>> /\ Head(modem[1].left) = "body" /\ (call[c] = "wait" \/ ~pending.prompt)
      <4>1. Len(wire) = 0
        BY <3>3
      <4> QED
        BY <2>1, <3>3, <4>1 DEF Clean, c
    <3> QED
      BY <1>7, <2>1, <3>1, <3>2, <3>3 DEF c
  <2>3. Finals \subseteq Response /\ "ok" \in Response
    BY DEF Finals, Response
  <2> QED
    BY <1>5, <2>2, <2>3 DEF Clean
<1>15. AT!OwnAnswer'
  <2> SUFFICES ASSUME timeouts' = 0, NEW d \in Calls, call'[d] = "ok"
               PROVE  /\ Info(d) \in got'[d].lines
                      /\ \A l \in got'[d].lines : l.of = d \/ l.kind = "payload"
    BY DEF AT!OwnAnswer, Info
  <2>1. Clean /\ timeouts = 0
    BY <1>1, <1>7 DEF Untimed
  <2>2. CASE d = c
    <3>1. pending.final = "ok" /\ got'[d].lines = pending.lines
      BY <1>6, <2>2 DEF Finals
    <3> QED
      BY <2>1, <2>2, <3>1 DEF Clean, c
  <2>3. CASE d # c
    BY <1>1, <1>6, <2>1, <2>3 DEF AT!OwnAnswer, Info
  <2> QED
    BY <2>2, <2>3
<1>16. AT!HandlersGetUrcs'
  BY <1>1, <1>7 DEF AT!HandlersGetUrcs
<1> QED
  BY <1>8, <1>9, <1>10, <1>11, <1>12, <1>13, <1>14, <1>15, <1>16 DEF ATInv

(* A final line or its loss resumes the coroutine.                         *)
LEMMA ResumeKeeps ==
  ASSUME ATInv, AT!resume
  PROVE  ATInv'
<1>1. /\ pending # AT!NoPending /\ pending.final # "none" /\ AT!Ends(pending.call, pending.final)
      /\ UNCHANGED <<waiting, port, wire, modem, toReport, dispatched, order, timeouts>>
  BY DEF AT!resume
<1>2. pending.final \in {"ok", "error", "lost"} /\ timeouts \in 0 .. MaxTimeouts
  BY <1>1 DEF ATInv, ATTypes
<1> QED
  BY <1>1, <1>2, EndsKeeps

(* The client stops waiting.                                               *)
LEMMA TimeoutKeeps ==
  ASSUME ATInv, AT!timeout
  PROVE  ATInv'
<1>1. ATTypes /\ Whole
  BY DEF ATInv
<1>2. /\ pending # AT!NoPending /\ (timeouts < MaxTimeouts \/ AT!Silent)
      /\ call[pending.call] = "wait" \/ ~pending.prompt
      /\ timeouts' = IF AT!Silent THEN timeouts ELSE timeouts + 1
      /\ AT!Ends(pending.call, "timeout")
      /\ UNCHANGED <<waiting, port, wire, modem, toReport, dispatched, order>>
  BY DEF AT!timeout
<1>3. timeouts' \in {timeouts, timeouts + 1} /\ timeouts' \in 0 .. MaxTimeouts
  <2>1. timeouts \in 0 .. MaxTimeouts /\ MaxTimeouts \in Nat
    BY <1>1, ATAssumption DEF ATTypes
  <2> QED
    BY <1>2, <2>1
<1>4. CASE ~AT!Silent
  BY <1>2, <1>3, <1>4, EndsKeeps DEF Finals
<1>5. CASE AT!Silent
  <2>1. \/ wire = <<>> /\ modem = <<>>
        \/ wire = <<>> /\ Head(modem[1].left) = "body"
    <3>1. CASE port # "open"
      BY <1>1, <3>1 DEF Whole
    <3>2. CASE wire = <<>> /\ (modem # <<>> => Head(Head(modem).left) = "body")
      <4>1. modem # <<>> => Head(modem) = modem[1]
        BY <1>1 DEF ATTypes
      <4> QED
        BY <3>2, <4>1
    <3> QED
      BY <1>5, <3>1, <3>2 DEF AT!Silent
  <2> QED
    BY <1>2, <1>3, <2>1, EndsKeeps DEF Finals
<1> QED
  BY <1>4, <1>5

(* The write fails, the closed flag was read too early: the lock goes on.  *)
LEMMA RefusedKeeps ==
  ASSUME ATInv, waiting # <<>>, pending = AT!NoPending, waiting' = Tail(waiting),
         call' = [call EXCEPT ![Head(waiting)] = "closed"],
         UNCHANGED <<pending, capture, port, wire, modem, toReport, got, dispatched, order, timeouts>>
  PROVE  ATInv'
<1>1. ATTypes /\ OneCall
  BY DEF ATInv
<1> DEFINE c == Head(waiting)
<1>2. /\ waiting \in Seq(Calls) /\ c = waiting[1] /\ c \in Calls /\ 1 \in 1 .. Len(waiting)
      /\ waiting' \in Seq(Calls) /\ Len(waiting') = Len(waiting) - 1 /\ Len(waiting) \in Nat
      /\ \A n \in 1 .. Len(waiting') : n + 1 \in 1 .. Len(waiting) /\ waiting'[n] = waiting[n + 1]
  BY <1>1 DEF ATTypes
<1> HIDE DEF c
<1>3. call[c] = "lock"
  BY <1>1, <1>2 DEF OneCall
<1>4. \A d \in Calls : call'[d] = IF d = c THEN "closed" ELSE call[d]
  BY <1>1, <1>2 DEF ATTypes, c
<1>5. OneCall'
  <2>1. \A d \in Calls : call'[d] = "lock" <=> \E n \in 1 .. Len(waiting') : waiting'[n] = d
    <3>1. ASSUME NEW d \in Calls, call'[d] = "lock"
          PROVE  \E n \in 1 .. Len(waiting') : waiting'[n] = d
      <4>1. d # c /\ call[d] = "lock"
        BY <1>4, <3>1
      <4>2. PICK m \in 1 .. Len(waiting) : waiting[m] = d
        BY <1>1, <4>1 DEF OneCall
      <4>3. m - 1 \in 1 .. Len(waiting') /\ m = (m - 1) + 1
        BY <1>2, <4>1, <4>2
      <4> QED
        BY <1>2, <4>2, <4>3
    <3>2. ASSUME NEW d \in Calls, NEW n \in 1 .. Len(waiting'), waiting'[n] = d
          PROVE  call'[d] = "lock"
      <4>1. n + 1 \in 1 .. Len(waiting) /\ waiting[n + 1] = d /\ n + 1 # 1
        BY <1>2, <3>2
      <4>2. call[d] = "lock" /\ d # c
        BY <1>1, <1>2, <4>1 DEF OneCall
      <4> QED
        BY <1>4, <4>2
    <3> QED
      BY <3>1, <3>2
  <2>2. ASSUME NEW m \in 1 .. Len(waiting'), NEW n \in 1 .. Len(waiting'), waiting'[m] = waiting'[n]
        PROVE  m = n
    <3>1. m + 1 = n + 1
      BY <1>1, <1>2, <2>2 DEF OneCall
    <3> QED
      BY <3>1
  <2>3. \A d \in Calls : call'[d] \in {"prompt", "wait"} => pending.call = d
    BY <1>1, <1>4 DEF OneCall
  <2>4. \A n \in 1 .. Len(order) : order[n] \in Calls
    BY <1>1 DEF ATTypes
  <2>5. \A n \in 1 .. Len(order) : call'[order[n]] \notin {"new", "lock"}
    BY <1>1, <1>4, <2>4 DEF OneCall
  <2>6. pending.call = "none"
    BY DEF AT!NoPending
  <2> QED
    BY <1>1, <2>1, <2>2, <2>3, <2>5, <2>6 DEF OneCall
<1> QED
  BY <1>2, <1>3, <1>5, AsideKeeps DEF CallStates, c

(* The command is written: it is the last the module has read.             *)
LEMMA WrittenKeeps ==
  ASSUME ATInv, waiting # <<>>, pending = AT!NoPending, port = "open", waiting' = Tail(waiting),
         call' = [call EXCEPT ![Head(waiting)] = IF Head(waiting) \in Prompted THEN "prompt" ELSE "wait"],
         order' = Append(order, Head(waiting)),
         pending' = [AT!NoPending EXCEPT !.call = Head(waiting)],
         modem' = Append(modem, [call |-> Head(waiting), left |-> AT!Script(Head(waiting))]),
         UNCHANGED <<capture, port, wire, toReport, got, dispatched, timeouts>>
  PROVE  ATInv'
<1>1. ATTypes /\ OneCall /\ Whole /\ InTurn /\ Fresh /\ Given /\ Untimed /\ AT!OwnAnswer /\ AT!HandlersGetUrcs
  BY DEF ATInv
<1> DEFINE c == Head(waiting)
           s == IF c \in Prompted THEN "prompt" ELSE "wait"
<1>2. /\ waiting \in Seq(Calls) /\ c = waiting[1] /\ c \in Calls /\ 1 \in 1 .. Len(waiting)
      /\ waiting' \in Seq(Calls) /\ Len(waiting') = Len(waiting) - 1 /\ Len(waiting) \in Nat
      /\ \A n \in 1 .. Len(waiting') : n + 1 \in 1 .. Len(waiting) /\ waiting'[n] = waiting[n + 1]
  BY <1>1 DEF ATTypes
<1>3. call[c] = "lock"
  BY <1>1, <1>2 DEF OneCall
<1>4. c # "none" /\ pending.call = "none" /\ pending.final = "none" /\ pending.lines = {}
  BY <1>2, ATAssumption DEF AT!NoPending
<1>5. /\ pending' = [call |-> c, lines |-> {}, prompt |-> FALSE, final |-> "none", of |-> "none"]
      /\ pending'.call = c /\ pending'.lines = {} /\ pending'.prompt = FALSE
      /\ pending'.final = "none" /\ pending'.of = "none"
  BY DEF AT!NoPending
<1>6. AT!Script(c) \in Lefts
      /\ Head(AT!Script(c)) = (IF c \in Prompted THEN "prompt" ELSE "info")
  <2>1. CASE c \in Prompted
    <3>1. AT!Script(c) = <<"prompt", "body", "info", "final">>
      BY <2>1 DEF AT!Script
    <3> QED
      BY <2>1, <3>1 DEF Lefts
  <2>2. CASE c \notin Prompted
    <3>1. AT!Script(c) = <<"info", "final">>
      BY <2>2 DEF AT!Script
    <3> QED
      BY <2>2, <3>1 DEF Lefts
  <2> QED
    BY <2>1, <2>2
<1>7. /\ order' \in Seq(Calls) /\ Len(order) \in Nat /\ Len(order') = Len(order) + 1
      /\ order'[Len(order) + 1] = c
      /\ \A n \in 1 .. Len(order) : order'[n] = order[n] /\ order[n] \in Calls
  BY <1>1, <1>2 DEF ATTypes
<1>8. /\ modem' \in Seq([call : Calls, left : Lefts]) /\ Len(modem) \in Nat /\ Len(modem') = Len(modem) + 1
      /\ modem'[Len(modem) + 1] = [call |-> c, left |-> AT!Script(c)]
      /\ \A n \in 1 .. Len(modem) : modem'[n] = modem[n]
  <2>1. [call |-> c, left |-> AT!Script(c)] \in [call : Calls, left : Lefts]
    BY <1>2, <1>6
  <2>2. modem \in Seq([call : Calls, left : Lefts])
    BY <1>1 DEF ATTypes
  <2> HIDE DEF c
  <2> QED
    BY <2>1, <2>2 DEF c
<1> HIDE DEF c
<1>9. \A d \in Calls : call'[d] = IF d = c THEN s ELSE call[d]
  BY <1>1, <1>2 DEF ATTypes, c
<1>10. \A n \in 1 .. Len(order') : n \in 1 .. Len(order) \/ n = Len(order) + 1
  BY <1>7
<1>11. \A n \in 1 .. Len(order) : order[n] # c
  BY <1>1, <1>3 DEF OneCall
<1>12. s \in {"prompt", "wait"}
  OBVIOUS
<1> HIDE DEF s
<1>13. ATTypes'
  <2>1. call' \in [Calls -> CallStates]
    BY <1>1, <1>12 DEF ATTypes, CallStates, c, s
  <2>2. pending' \in PendingRow
    BY <1>2, <1>5 DEF PendingRow
  <2> QED
    BY <1>1, <1>2, <1>7, <1>8, <2>1, <2>2 DEF ATTypes, PendingRow
<1>14. OneCall'
  <2>1. \A d \in Calls : call'[d] = "lock" <=> \E n \in 1 .. Len(waiting') : waiting'[n] = d
    <3>1. ASSUME NEW d \in Calls, call'[d] = "lock"
          PROVE  \E n \in 1 .. Len(waiting') : waiting'[n] = d
      <4>1. d # c /\ call[d] = "lock"
        BY <1>9, <1>12, <3>1
      <4>2. PICK m \in 1 .. Len(waiting) : waiting[m] = d
        BY <1>1, <4>1 DEF OneCall
      <4>3. m - 1 \in 1 .. Len(waiting') /\ m = (m - 1) + 1
        BY <1>2, <4>1, <4>2
      <4> QED
        BY <1>2, <4>2, <4>3
    <3>2. ASSUME NEW d \in Calls, NEW n \in 1 .. Len(waiting'), waiting'[n] = d
          PROVE  call'[d] = "lock"
      <4>1. n + 1 \in 1 .. Len(waiting) /\ waiting[n + 1] = d /\ n + 1 # 1
        BY <1>2, <3>2
      <4>2. call[d] = "lock" /\ d # c
        BY <1>1, <1>2, <4>1 DEF OneCall
      <4> QED
        BY <1>9, <4>2
    <3> QED
      BY <3>1, <3>2
  <2>2. ASSUME NEW m \in 1 .. Len(waiting'), NEW n \in 1 .. Len(waiting'), waiting'[m] = waiting'[n]
        PROVE  m = n
    <3>1. m + 1 = n + 1
      BY <1>1, <1>2, <2>2 DEF OneCall
    <3> QED
      BY <3>1
  <2>3. \A d \in Calls : call'[d] \in {"prompt", "wait"} => pending'.call = d
    <3>1. \A d \in Calls : call[d] \notin {"prompt", "wait"}
      <4>1. \A d \in Calls : call[d] \in {"prompt", "wait"} => pending.call = d
        BY ONLY <1>1 DEF OneCall
      <4>2. pending.call \notin Calls
        BY ONLY <1>4, ATAssumption
      <4> QED
        BY ONLY <4>1, <4>2
    <3> QED
      BY <1>5, <1>9, <3>1
  <2>4. \A n \in 1 .. Len(order') : call'[order'[n]] \notin {"new", "lock"}
    BY <1>1, <1>2, <1>7, <1>9, <1>10, <1>12 DEF OneCall
  <2>5. \A m, n \in 1 .. Len(order') : order'[m] = order'[n] => m = n
    BY <1>1, <1>7, <1>10, <1>11 DEF OneCall
  <2>6. call'[c] \in {"prompt", "wait"} /\ order' # <<>> /\ order'[Len(order')] = c
    <3>1. Len(order') # 0 /\ order'[Len(order')] = c
      BY <1>7
    <3>2. order' # <<>>
      BY <3>1
    <3> QED
      BY <1>2, <1>9, <1>12, <3>1, <3>2
  <2> QED
    BY <1>4, <1>5, <2>1, <2>2, <2>3, <2>4, <2>5, <2>6 DEF OneCall
<1>15. Whole'
  BY <1>1 DEF Whole
<1>16. InTurn'
  <2>1. Len(order') - Len(modem') = Len(order) - Len(modem) /\ Len(modem') <= Len(order')
    BY <1>1, <1>7, <1>8 DEF InTurn
  <2>2. ASSUME NEW n \in 1 .. Len(modem')
        PROVE  modem'[n].call = order'[(Len(order') - Len(modem')) + n]
    <3>1. CASE n = Len(modem) + 1
      BY <1>7, <1>8, <2>1, <3>1
    <3>2. CASE n \in 1 .. Len(modem)
      <4>1. (Len(order) - Len(modem)) + n \in 1 .. Len(order)
        BY <1>1, <1>7, <1>8, <3>2 DEF InTurn
      <4> QED
        BY <1>1, <1>7, <1>8, <2>1, <3>2, <4>1 DEF InTurn
    <3>3. n \in 1 .. Len(modem) \/ n = Len(modem) + 1
      <4>1. Len(modem) \in Nat /\ Len(modem') = Len(modem) + 1
        BY <1>8
      <4> QED
        BY <4>1
    <3> QED
      BY <3>1, <3>2, <3>3
  <2>3. ASSUME NEW n \in 1 .. Len(wire), wire[n].kind \in Finals
        PROVE  \E k \in 1 .. (Len(order') - Len(modem')) : order'[k] = wire[n].of
    <3>1. PICK k \in 1 .. (Len(order) - Len(modem)) : order[k] = wire[n].of
      BY <1>1, <2>3 DEF InTurn
    <3>2. k \in 1 .. Len(order)
      BY <1>7, <1>8, <3>1
    <3> QED
      BY <1>7, <2>1, <3>1, <3>2
  <2>4. ASSUME NEW n \in 1 .. Len(wire), wire[n].kind \in Finals
        PROVE  wire[n].of # c
    <3>1. PICK k \in 1 .. (Len(order) - Len(modem)) : order[k] = wire[n].of
      BY <1>1, <2>4 DEF InTurn
    <3>2. k \in 1 .. Len(order)
      BY <1>7, <1>8, <3>1
    <3> QED
      BY <1>11, <3>1, <3>2
  <2>5. ASSUME NEW m \in 1 .. Len(wire), NEW n \in 1 .. Len(wire), m < n, wire[m].kind \in Finals,
               wire[n].kind \in Finals, NEW j \in 1 .. Len(order'), NEW k \in 1 .. Len(order'),
               order'[j] = wire[m].of, order'[k] = wire[n].of
        PROVE  j < k
    <3>1. j \in 1 .. Len(order) /\ k \in 1 .. Len(order)
      BY <1>7, <1>10, <2>4, <2>5
    <3> QED
      <4>1. \A a, b \in 1 .. Len(wire) : a < b /\ wire[a].kind \in Finals /\ wire[b].kind \in Finals =>
              \A j0, k0 \in 1 .. Len(order) : order[j0] = wire[a].of /\ order[k0] = wire[b].of => j0 < k0
        BY ONLY <1>1 DEF InTurn
      <4>2. order[j] = wire[m].of /\ order[k] = wire[n].of
        BY ONLY <1>7, <2>5, <3>1
      <4> QED
        BY ONLY <2>5, <3>1, <4>1, <4>2
  <2>6. wire' = wire
    OBVIOUS
  <2>7. \A n \in 1 .. Len(wire') : wire'[n].kind \in Finals =>
          \E k \in 1 .. (Len(order') - Len(modem')) : order'[k] = wire'[n].of
    BY ONLY <2>3, <2>6
  <2>8. \A m, n \in 1 .. Len(wire') : m < n /\ wire'[m].kind \in Finals /\ wire'[n].kind \in Finals =>
          \A j, k \in 1 .. Len(order') : order'[j] = wire'[m].of /\ order'[k] = wire'[n].of => j < k
    BY ONLY <2>5, <2>6
  <2> QED
    BY ONLY <2>1, <2>2, <2>7, <2>8, Zenon DEF InTurn
<1>17. Fresh'
  <2>1. timeouts \in Nat
    <3>1. MaxTimeouts \in Nat
      BY ATAssumption
    <3> QED
      BY <1>1, <3>1 DEF ATTypes
  <2>2. Oldest' = (Len(order) + 1) - timeouts /\ Oldest = (Len(order) - timeouts) + 1
    <3>1. Oldest' = (Len(order') - timeouts) + 0 /\ Oldest = (Len(order) - timeouts) + 1
      BY <1>4, <1>5 DEF Oldest
    <3> QED
      BY <1>7, <2>1, <3>1
  <2>3. Oldest' = Oldest /\ Oldest \in Int
    BY <1>7, <2>1, <2>2
  <2>4. CASE Stuck
    <3>1. modem # <<>> /\ modem' # <<>> /\ modem'[1] = modem[1]
      BY <1>1, <1>8, <2>4 DEF Stuck, ATTypes
    <3> QED
      BY <1>5, <2>4, <3>1 DEF Fresh, Stuck
  <2>5. CASE /\ (Len(order) - Len(modem)) + 1 >= Oldest
             /\ \A n \in 1 .. Len(wire) : wire[n].kind \in Finals =>
                  \A k \in 1 .. Len(order) : order[k] = wire[n].of => k >= Oldest
    <3>1. (Len(order') - Len(modem')) + 1 >= Oldest'
      BY <1>7, <1>8, <2>3, <2>5
    <3>2. ASSUME NEW n \in 1 .. Len(wire), wire[n].kind \in Finals,
                 NEW k \in 1 .. Len(order'), order'[k] = wire[n].of
          PROVE  k >= Oldest'
      <4>1. PICK j \in 1 .. (Len(order) - Len(modem)) : order[j] = wire[n].of
        BY <1>1, <3>2 DEF InTurn
      <4>2. k \in 1 .. Len(order)
        <5>1. j \in 1 .. Len(order)
          BY <1>7, <1>8, <4>1
        <5> QED
          BY <1>7, <1>10, <1>11, <3>2, <4>1, <5>1
      <4> QED
        BY <1>7, <2>3, <2>5, <3>2, <4>2
    <3> QED
      BY <3>1, <3>2 DEF Fresh
  <2> QED
    BY <1>1, <2>4, <2>5 DEF Fresh
<1>18. Given'
  <2>1. ASSUME NEW d \in Calls, call'[d] \in Finals
        PROVE  \E k, n \in 1 .. Len(order') :
                 order'[n] = d /\ order'[k] = got[d].of /\ n - timeouts <= k /\ k <= n
    <3>1. d # c /\ call[d] \in Finals
      BY <1>9, <1>12, <2>1 DEF Finals
    <3>2. PICK k, n \in 1 .. Len(order) :
            order[n] = d /\ order[k] = got[d].of /\ n - timeouts <= k /\ k <= n
      BY <1>1, <3>1 DEF Given
    <3>3. k \in 1 .. Len(order') /\ n \in 1 .. Len(order')
      BY <1>7
    <3> QED
      BY <1>7, <3>2, <3>3
  <2> QED
    BY <1>5, <2>1 DEF Given, Finals
<1>19. Untimed'
  <2> SUFFICES ASSUME timeouts = 0 PROVE Clean'
    BY DEF Untimed
  <2>1. Clean
    BY <1>1 DEF Untimed
  <2>2. modem = <<>> /\ \A n \in 1 .. Len(wire) : wire[n].kind \notin Response
    BY <1>4, <2>1 DEF Clean
  <2>3. Len(modem') = 1 /\ Head(modem'[1].left) = (IF c \in Prompted THEN "prompt" ELSE "info")
    <3>1. Len(modem) = 0
      BY <2>2
    <3> QED
      BY <1>6, <1>8, <3>1
  <2>4. c \in Prompted => call'[c] = "prompt"
    BY <1>2, <1>9 DEF s
  <2>5. Finals \subseteq Response /\ "ok" \in Response /\ "prompt" \in Response
    BY DEF Finals, Response
  <2>6. \A n \in 1 .. Len(wire) : wire[n].kind \notin Finals /\ wire[n].kind # "ok" /\ wire[n].kind # "prompt"
    BY <2>2, <2>5
  <2> QED
    BY <1>4, <1>5, <2>2, <2>3, <2>4, <2>6 DEF Clean
<1>20. AT!OwnAnswer'
  BY <1>1, <1>9, <1>12 DEF AT!OwnAnswer
<1>21. AT!HandlersGetUrcs'
  BY <1>1 DEF AT!HandlersGetUrcs
<1> QED
  BY <1>13, <1>14, <1>15, <1>16, <1>17, <1>18, <1>19, <1>20, <1>21 DEF ATInv

(* The lock is taken by the oldest that waits.                             *)
LEMMA StartKeeps ==
  ASSUME ATInv, AT!start
  PROVE  ATInv'
<1>1. /\ waiting # <<>> /\ pending = AT!NoPending /\ waiting' = Tail(waiting)
      /\ UNCHANGED <<capture, port, wire, toReport, got, dispatched, timeouts>>
  BY DEF AT!start, AT!LockFree
<1>2. CASE port = "open"
  BY <1>1, <1>2, WrittenKeeps DEF AT!start
<1>3. CASE port # "open"
  BY <1>1, <1>3, RefusedKeeps DEF AT!start
<1> QED
  BY <1>2, <1>3

(* Bounds of the counters.                                                 *)
LEMMA ATNumbers ==
  ASSUME ATTypes
  PROVE  /\ timeouts \in Nat /\ Len(order) \in Nat /\ Len(modem) \in Nat /\ Len(wire) \in Nat
         /\ Oldest \in Int /\ Oldest <= Len(order) + 1
<1>1. MaxTimeouts \in Nat
  BY ATAssumption
<1>2. timeouts \in Nat /\ Len(order) \in Nat /\ Len(modem) \in Nat /\ Len(wire) \in Nat
  BY <1>1 DEF ATTypes
<1> QED
  BY <1>2 DEF Oldest

(* The first of a sequence replaced.                                       *)
LEMMA ReplaceHead ==
  ASSUME NEW S, NEW q \in Seq(S), q # <<>>, NEW h \in S, NEW t, t = <<h>> \o Tail(q)
  PROVE  /\ t \in Seq(S) /\ Len(t) = Len(q) /\ t # <<>> /\ t[1] = h
         /\ \A n \in 2 .. Len(q) : t[n] = q[n]
<1>1. Len(q) \in Nat /\ Len(q) >= 1
  OBVIOUS
<1>2. /\ Tail(q) \in Seq(S) /\ Len(Tail(q)) = Len(q) - 1
      /\ \A n \in 1 .. (Len(q) - 1) : Tail(q)[n] = q[n + 1]
  BY <1>1
<1>3. <<h>> \in Seq(S) /\ Len(<<h>>) = 1 /\ <<h>>[1] = h
  OBVIOUS
<1>4. t \in Seq(S) /\ Len(t) = Len(q)
  BY <1>1, <1>2, <1>3
<1>5. t[1] = h
  BY <1>1, <1>2, <1>3
<1>6. ASSUME NEW n \in 2 .. Len(q) PROVE t[n] = q[n]
  <2>1. t[n] = Tail(q)[n - 1]
    BY <1>1, <1>2, <1>3
  <2>2. n - 1 \in 1 .. (Len(q) - 1) /\ (n - 1) + 1 = n
    BY <1>1
  <2> QED
    BY <1>2, <2>1, <2>2
<1>7. t # <<>>
  <2>1. Len(t) # 0
    BY <1>1, <1>4
  <2> QED
    BY <2>1
<1> QED
  BY <1>4, <1>5, <1>6, <1>7

(* What is left of a script after a step.                                  *)
LEMMA ScriptMoves ==
  ASSUME NEW s \in Lefts, Head(s) # "final"
  PROVE  /\ Tail(s) \in Lefts
         /\ Head(s) = "prompt" => Head(Tail(s)) = "body"
         /\ Head(s) = "body" => Head(Tail(s)) = "info"
         /\ Head(s) = "info" => Head(Tail(s)) = "final"
<1>1. CASE s = <<"prompt", "body", "info", "final">>
  <2>1. Tail(s) = <<"body", "info", "final">> /\ Head(s) = "prompt"
    BY <1>1
  <2>2. Tail(s) \in Lefts /\ Head(<<"body", "info", "final">>) = "body"
    BY <2>1 DEF Lefts
  <2> QED
    BY <2>1, <2>2
<1>2. CASE s = <<"body", "info", "final">>
  <2>1. Tail(s) = <<"info", "final">> /\ Head(s) = "body"
    BY <1>2
  <2>2. Tail(s) \in Lefts /\ Head(<<"info", "final">>) = "info"
    BY <2>1 DEF Lefts
  <2> QED
    BY <2>1, <2>2
<1>3. CASE s = <<"info", "final">>
  <2>1. Tail(s) = <<"final">> /\ Head(s) = "info"
    BY <1>3
  <2>2. Tail(s) \in Lefts /\ Head(<<"final">>) = "final"
    BY <2>1 DEF Lefts
  <2> QED
    BY <2>1, <2>2
<1>4. CASE s = <<"final">>
  BY <1>4
<1> QED
  BY <1>1, <1>2, <1>3, <1>4 DEF Lefts

(* The module has written one more line of its oldest command, or has read *)
(* the body for it.                                                        *)
LEMMA HeadMoves ==
  ASSUME ATTypes, modem # <<>>, Head(modem[1].left) # "final",
         modem' = <<[Head(modem) EXCEPT !.left = Tail(@)]>> \o Tail(modem)
  PROVE  /\ modem' \in Seq([call : Calls, left : Lefts]) /\ Len(modem') = Len(modem) /\ modem' # <<>>
         /\ \A n \in 1 .. Len(modem) : modem'[n].call = modem[n].call
         /\ Head(modem[1].left) = "prompt" => Head(modem'[1].left) = "body"
         /\ Head(modem[1].left) = "body" => Head(modem'[1].left) = "info"
         /\ Head(modem[1].left) = "info" => Head(modem'[1].left) = "final"
<1> DEFINE R == [call : Calls, left : Lefts]
           h == [modem[1] EXCEPT !.left = Tail(@)]
<1>1. modem \in Seq(R)
  BY DEF ATTypes
<1>2. Len(modem) \in Nat /\ 1 \in 1 .. Len(modem) /\ Head(modem) = modem[1] /\ modem[1] \in R
  <2> HIDE DEF R
  <2> QED
    BY <1>1
<1>3. modem[1].left \in Lefts /\ modem[1].call \in Calls
  BY <1>2
<1>4. Tail(modem[1].left) \in Lefts
  BY <1>3, ScriptMoves
<1>5. h \in R /\ h.call = modem[1].call /\ h.left = Tail(modem[1].left)
  BY <1>2, <1>3, <1>4
<1>6. modem' = <<h>> \o Tail(modem)
  BY <1>2
<1> HIDE DEF h, R
<1>7. /\ modem' \in Seq(R) /\ Len(modem') = Len(modem) /\ modem' # <<>> /\ modem'[1] = h
      /\ \A n \in 2 .. Len(modem) : modem'[n] = modem[n]
  <2>1. modem # <<>>
    OBVIOUS
  <2> QED
    BY ONLY <1>1, <1>5, <1>6, <2>1, ReplaceHead
<1>8. ASSUME NEW n \in 1 .. Len(modem) PROVE modem'[n].call = modem[n].call
  <2>1. n = 1 \/ n \in 2 .. Len(modem)
    BY <1>2
  <2> QED
    BY <1>5, <1>7, <2>1
<1>9. /\ Head(modem[1].left) = "prompt" => Head(modem'[1].left) = "body"
      /\ Head(modem[1].left) = "body" => Head(modem'[1].left) = "info"
      /\ Head(modem[1].left) = "info" => Head(modem'[1].left) = "final"
  BY <1>3, <1>5, <1>7, ScriptMoves
<1>10. modem' \in Seq([call : Calls, left : Lefts])
  BY <1>7 DEF R
<1> QED
  BY <1>7, <1>8, <1>9, <1>10

(* The body is written.                                                    *)
LEMMA BodyKeeps ==
  ASSUME ATInv, pending # AT!NoPending, call[pending.call] = "prompt", pending.prompt, port = "open",
         call' = [call EXCEPT ![pending.call] = "wait"],
         modem' = IF modem # <<>> /\ Head(Head(modem).left) = "body"
                  THEN <<[Head(modem) EXCEPT !.left = Tail(@)]>> \o Tail(modem) ELSE modem,
         UNCHANGED <<pending, capture, got, waiting, port, wire, toReport, dispatched, order, timeouts>>
  PROVE  ATInv'
<1>1. ATTypes /\ OneCall /\ Whole /\ InTurn /\ Fresh /\ Given /\ Untimed /\ AT!OwnAnswer /\ AT!HandlersGetUrcs
  BY DEF ATInv
<1> DEFINE c == pending.call
<1>2. c # "none" /\ c \in Calls
  BY <1>1, NonePending DEF ATTypes
<1>3. \A d \in Calls : call'[d] = IF d = c THEN "wait" ELSE call[d]
  BY <1>1, <1>2 DEF ATTypes
<1>4. modem # <<>> => Head(modem) = modem[1]
  BY <1>1 DEF ATTypes
<1>5. /\ modem' \in Seq([call : Calls, left : Lefts]) /\ Len(modem') = Len(modem)
      /\ (modem' # <<>>) <=> (modem # <<>>)
      /\ \A n \in 1 .. Len(modem) : modem'[n].call = modem[n].call
      /\ modem # <<>> /\ Head(modem[1].left) = "body" => Head(modem'[1].left) = "info"
      /\ modem # <<>> /\ Head(modem[1].left) # "body" => modem'[1] = modem[1]
  <2>1. CASE modem # <<>> /\ Head(modem[1].left) = "body"
    BY <1>1, <1>4, <2>1, HeadMoves
  <2>2. CASE ~(modem # <<>> /\ Head(modem[1].left) = "body")
    <3>1. modem' = modem
      BY <1>4, <2>2
    <3> QED
      BY <1>1, <2>2, <3>1 DEF ATTypes
  <2> QED
    BY <2>1, <2>2
<1> HIDE DEF c
<1>6. ATTypes'
  <2>1. call' \in [Calls -> CallStates]
    BY <1>1 DEF ATTypes, CallStates
  <2> QED
    BY <1>1, <1>5, <2>1 DEF ATTypes
<1>7. OneCall'
  <2>1. \A d \in Calls : /\ call'[d] \in {"prompt", "wait"} <=> call[d] \in {"prompt", "wait"}
                         /\ call'[d] = "lock" <=> call[d] = "lock"
                         /\ call'[d] \in {"new", "lock"} <=> call[d] \in {"new", "lock"}
    BY <1>3 DEF c
  <2>2. \A n \in 1 .. Len(order) : order[n] \in Calls
    BY <1>1 DEF ATTypes
  <2>3. call'[c] \in {"prompt", "wait"} /\ c = pending.call
    BY <1>2, <1>3 DEF c
  <2> QED
    BY <1>1, <1>2, <2>1, <2>2, <2>3 DEF OneCall
<1>8. Whole'
  BY <1>1 DEF Whole
<1>9. InTurn'
  <2>1. Len(modem') = Len(modem) /\ \A n \in 1 .. Len(modem) : modem'[n].call = modem[n].call
    BY <1>5
  <2> QED
    <3>0. order' = order /\ wire' = wire
      OBVIOUS
    <3>1. /\ Len(modem') <= Len(order')
          /\ \A n \in 1 .. Len(modem') : modem'[n].call = order'[(Len(order') - Len(modem')) + n]
      BY <1>1, <2>1, <3>0 DEF InTurn
    <3>2. \A n \in 1 .. Len(wire') : wire'[n].kind \in Finals =>
            \E k \in 1 .. (Len(order') - Len(modem')) : order'[k] = wire'[n].of
      BY <1>1, <2>1, <3>0 DEF InTurn
    <3>3. ASSUME NEW m \in 1 .. Len(wire'), NEW n \in 1 .. Len(wire'), m < n, wire'[m].kind \in Finals,
                 wire'[n].kind \in Finals, NEW j \in 1 .. Len(order'), NEW k \in 1 .. Len(order'),
                 order'[j] = wire'[m].of, order'[k] = wire'[n].of
          PROVE  j < k
      BY <1>1, <3>0, <3>3 DEF InTurn
    <3> QED
      BY ONLY <3>1, <3>2, <3>3, Zenon DEF InTurn
<1>10. Fresh'
  <2>1. ~Stuck
    BY <1>2 DEF Stuck, c
  <2>2. Oldest' = Oldest
    BY DEF Oldest
  <2> QED
    BY <1>1, <1>5, <2>1, <2>2 DEF Fresh
<1>11. Given'
  BY <1>1, <1>3 DEF Given, Finals
<1>12. Untimed'
  <2> SUFFICES ASSUME timeouts = 0 PROVE Clean'
    BY DEF Untimed
  <2>1. Clean
    BY <1>1 DEF Untimed
  <2>2. modem # <<>> => Head(modem[1].left) # "prompt"
    BY <2>1 DEF Clean
  <2>3. modem' # <<>> =>
         /\ Len(modem') = 1 /\ pending.call # "none" /\ pending.final = "none"
         /\ \A n \in 1 .. Len(wire) : wire[n].kind \notin Finals
         /\ Head(modem'[1].left) = "final" => Info(pending.call) \in pending.lines \/ Written(Info(pending.call))
         /\ Head(modem'[1].left) \notin {"prompt", "body"}
    BY <1>5, <2>1, <2>2 DEF Clean
  <2> QED
    BY <2>1, <2>3 DEF Clean, Written
<1>13. AT!OwnAnswer'
  BY <1>1, <1>3 DEF AT!OwnAnswer
<1>14. AT!HandlersGetUrcs'
  BY <1>1 DEF AT!HandlersGetUrcs
<1> QED
  BY <1>6, <1>7, <1>8, <1>9, <1>10, <1>11, <1>12, <1>13, <1>14 DEF ATInv

(* The prompt was seen: the body is written, or the port is gone.          *)
LEMMA PayloadKeeps ==
  ASSUME ATInv, AT!write_payload
  PROVE  ATInv'
<1>1. /\ pending # AT!NoPending /\ call[pending.call] = "prompt" /\ pending.prompt
      /\ UNCHANGED <<waiting, port, wire, toReport, dispatched, order, timeouts>>
  BY DEF AT!write_payload
<1>2. CASE port = "open"
  BY <1>1, <1>2, BodyKeeps DEF AT!write_payload
<1>3. CASE port # "open"
  <2>1. AT!Ends(pending.call, "closed") /\ UNCHANGED modem
    BY <1>3 DEF AT!write_payload
  <2>2. wire = <<>> /\ modem = <<>> /\ timeouts \in 0 .. MaxTimeouts
    BY <1>3 DEF ATInv, Whole, ATTypes
  <2> QED
    BY <1>1, <2>1, <2>2, EndsKeeps DEF Finals
<1> QED
  BY <1>2, <1>3

(* The port is gone, and with it what was on the wire and in the module.   *)
LEMMA PortKeeps ==
  ASSUME ATInv, NEW how \in {"lost", "closed"}, AT!port_lost(how)
  PROVE  ATInv'
<1>1. ATTypes /\ OneCall /\ Whole /\ InTurn /\ Fresh /\ Given /\ Untimed /\ AT!OwnAnswer /\ AT!HandlersGetUrcs
  BY DEF ATInv
<1>2. /\ port' = how /\ wire' = <<>> /\ modem' = <<>>
      /\ pending' = IF pending # AT!NoPending /\ pending.final = "none" THEN [pending EXCEPT !.final = "lost"] ELSE pending
      /\ UNCHANGED <<call, waiting, capture, toReport, got, dispatched, order, timeouts>>
  BY DEF AT!port_lost, AT!FailPending
<1>3. /\ pending' \in PendingRow /\ pending'.call = pending.call /\ pending'.lines = pending.lines
      /\ pending'.prompt = pending.prompt /\ pending'.of = pending.of
      /\ pending'.final \in {pending.final, "lost"}
      /\ pending.call = "none" => pending' = pending
  <2>1. pending \in PendingRow
    BY <1>1 DEF ATTypes, PendingRow
  <2>2. (pending = AT!NoPending) <=> (pending.call = "none")
    BY <1>1, NonePending
  <2> QED
    BY <1>2, <2>1, <2>2 DEF PendingRow
<1>4. Len(wire') = 0 /\ Len(modem') = 0
  BY <1>2
<1>5. ATTypes'
  <2>1. wire' \in Seq(LineRow) /\ modem' \in Seq([call : Calls, left : Lefts])
    BY <1>2
  <2> QED
    <3>1. port' \in {"open", "lost", "closed"}
      BY <1>2
    <3>2. pending' \in [call : Calls \cup {"none"}, lines : SUBSET LineRow, prompt : BOOLEAN,
                        final : {"none", "ok", "error", "lost"}, of : Calls \cup {"none"}]
      BY <1>3 DEF PendingRow
    <3>3. \A n \in 1 .. Len(wire') : FALSE
      BY <1>4
    <3> QED
      BY <1>1, <1>2, <2>1, <3>1, <3>2, <3>3 DEF ATTypes
<1>6. OneCall'
  BY <1>1, <1>2, <1>3 DEF OneCall
<1>7. Whole' /\ InTurn'
  <2>1. Len(order) \in Nat
    BY <1>1 DEF ATTypes
  <2> QED
    BY <1>2, <1>4, <2>1 DEF Whole, InTurn
<1>8. Fresh'
  <2>1. Oldest' \in Int /\ Oldest' <= Len(order') + 1 /\ Len(order') \in Nat
    <3>1. timeouts \in Nat /\ Len(order) \in Nat
      BY <1>1, ATNumbers
    <3> QED
      BY <1>2, <3>1 DEF Oldest
  <2> QED
    BY <1>4, <2>1 DEF Fresh
<1>9. Given'
  BY <1>1, <1>2, <1>3 DEF Given, Finals
<1>10. Untimed'
  BY <1>1, <1>2, <1>3, <1>4 DEF Untimed, Clean, Info
<1>11. AT!OwnAnswer' /\ AT!HandlersGetUrcs'
  BY <1>1, <1>2 DEF AT!OwnAnswer, AT!HandlersGetUrcs
<1> QED
  BY <1>5, <1>6, <1>7, <1>8, <1>9, <1>10, <1>11 DEF ATInv

(* A URC cuts in: its lines come last on the wire, and are no response.    *)
LEMMA UrcKeeps ==
  ASSUME ATInv, port = "open", toReport' \subseteq toReport,
         wire' \in Seq(LineRow), Len(wire') \in Nat, Len(wire') >= Len(wire),
         \A n \in 1 .. Len(wire) : wire'[n] = wire[n],
         \A n \in (Len(wire) + 1) .. Len(wire') :
            /\ wire'[n].kind \notin Response
            /\ wire'[n].kind = "change" => wire'[n].of \in Shared
            /\ wire'[n].kind = "head" =>
                 /\ wire'[n].of \in Splits /\ n + 1 \in 1 .. Len(wire')
                 /\ wire'[n + 1] = AT!Line("payload", wire'[n].of),
         UNCHANGED <<call, waiting, pending, capture, port, modem, got, dispatched, order, timeouts>>
  PROVE  ATInv'
<1>1. ATTypes /\ OneCall /\ Whole /\ InTurn /\ Fresh /\ Given /\ Untimed /\ AT!OwnAnswer /\ AT!HandlersGetUrcs
  BY DEF ATInv
<1>2. Len(wire) \in Nat /\ \A n \in 1 .. Len(wire) : n \in 1 .. Len(wire')
  BY <1>1, ATNumbers
<1>3. \A n \in 1 .. Len(wire') : n \in 1 .. Len(wire) \/ n \in (Len(wire) + 1) .. Len(wire')
  BY <1>2
<1>4. \A n \in 1 .. Len(wire') : wire'[n].kind \in Response => n \in 1 .. Len(wire) /\ wire'[n] = wire[n]
  BY <1>3
<1>5. Finals \subseteq Response /\ "ok" \in Finals /\ "prompt" \in Response
  BY DEF Finals, Response
<1>6. ATTypes'
  <2>1. \A n \in 1 .. Len(wire') :
         /\ wire'[n].kind \in Response => wire'[n].of \in Calls
         /\ wire'[n].kind = "change" => wire'[n].of \in Shared
         /\ wire'[n].kind = "head" => wire'[n].of \in Splits
    BY <1>1, <1>3, <1>4 DEF ATTypes
  <2> QED
    BY <1>1, <2>1 DEF ATTypes
<1>7. OneCall'
  BY <1>1 DEF OneCall
<1>8. Whole'
  <2>1. ASSUME NEW n \in 1 .. Len(wire'), wire'[n].kind = "head"
        PROVE  n + 1 \in 1 .. Len(wire') /\ wire'[n + 1] = AT!Line("payload", wire'[n].of)
    <3>1. CASE n \in 1 .. Len(wire)
      <4>1. n + 1 \in 1 .. Len(wire) /\ wire[n + 1] = AT!Line("payload", wire[n].of)
        BY <1>1, <2>1, <3>1 DEF Whole
      <4> QED
        BY <1>2, <3>1, <4>1
    <3>2. CASE n \in (Len(wire) + 1) .. Len(wire')
      BY <2>1, <3>2
    <3> QED
      BY <1>3, <3>1, <3>2
  <2>2. capture # AT!NoUrc => wire' # <<>> /\ wire'[1] = AT!Line("payload", capture)
    <3> SUFFICES ASSUME capture # AT!NoUrc
                 PROVE  wire' # <<>> /\ wire'[1] = AT!Line("payload", capture)
      OBVIOUS
    <3>1. wire # <<>> /\ wire[1] = AT!Line("payload", capture)
      BY <1>1 DEF Whole
    <3>2. 1 \in 1 .. Len(wire)
      BY <1>1, <3>1 DEF ATTypes
    <3>3. Len(wire') # 0
      BY <1>2, <3>2
    <3> QED
      BY <3>1, <3>2, <3>3
  <2> QED
    BY <2>1, <2>2 DEF Whole
<1>9. InTurn'
  <2>1. \A n \in 1 .. Len(wire') : wire'[n].kind \in Finals =>
         \E k \in 1 .. (Len(order) - Len(modem)) : order[k] = wire'[n].of
    BY <1>1, <1>4, <1>5 DEF InTurn
  <2>2. ASSUME NEW m \in 1 .. Len(wire'), NEW n \in 1 .. Len(wire'), m < n,
               wire'[m].kind \in Finals, wire'[n].kind \in Finals
        PROVE  \A j, k \in 1 .. Len(order) : order[j] = wire'[m].of /\ order[k] = wire'[n].of => j < k
    <3>1. m \in 1 .. Len(wire) /\ wire'[m] = wire[m] /\ n \in 1 .. Len(wire) /\ wire'[n] = wire[n]
      BY <1>4, <1>5, <2>2
    <3> QED
      BY <1>1, <2>2, <3>1 DEF InTurn
  <2>3. order' = order /\ modem' = modem
    OBVIOUS
  <2>4. Len(modem') <= Len(order') /\ \A n \in 1 .. Len(modem') : modem'[n].call = order'[(Len(order') - Len(modem')) + n]
    BY ONLY <1>1, <2>3 DEF InTurn
  <2>5. \A m, n \in 1 .. Len(wire') : m < n /\ wire'[m].kind \in Finals /\ wire'[n].kind \in Finals =>
          \A j, k \in 1 .. Len(order') : order'[j] = wire'[m].of /\ order'[k] = wire'[n].of => j < k
    BY ONLY <2>2, <2>3
  <2>6. \A n \in 1 .. Len(wire') : wire'[n].kind \in Finals =>
          \E k \in 1 .. (Len(order') - Len(modem')) : order'[k] = wire'[n].of
    BY ONLY <2>1, <2>3
  <2> QED
    BY ONLY <2>4, <2>5, <2>6, Zenon DEF InTurn
<1>10. Fresh'
  <2>1. Oldest' = Oldest
    BY DEF Oldest
  <2>2. CASE Stuck
    <3>1. \A n \in 1 .. Len(wire') : wire'[n].kind \notin {"prompt", "ok", "error"}
      BY <1>3, <2>2 DEF Stuck, Response
    <3> QED
      BY <2>2, <3>1 DEF Fresh, Stuck
  <2>3. CASE ~Stuck
    BY <1>1, <1>4, <1>5, <2>1, <2>3 DEF Fresh
  <2> QED
    BY <2>2, <2>3
<1>11. Given'
  BY <1>1 DEF Given
<1>12. Untimed'
  <2> SUFFICES ASSUME timeouts = 0 PROVE Clean'
    BY DEF Untimed
  <2>1. Clean
    BY <1>1 DEF Untimed
  <2>2. \A n \in 1 .. Len(wire') : wire'[n].kind \in Response =>
         pending.call # "none" /\ pending.final = "none" /\ wire'[n].of = pending.call
    BY <1>4, <2>1 DEF Clean
  <2>3. \A m, n \in 1 .. Len(wire') : m < n /\ wire'[m].kind \in Finals => wire'[n].kind \notin Response
    BY <1>4, <1>5, <2>1 DEF Clean
  <2>4. ASSUME NEW n \in 1 .. Len(wire'), wire'[n].kind = "ok"
        PROVE  Info(pending.call) \in pending.lines \/ \E m \in 1 .. (n - 1) : wire'[m] = Info(pending.call)
    <3>1. n \in 1 .. Len(wire) /\ wire[n].kind = "ok"
      BY <1>4, <1>5, <2>4
    <3>2. \A m \in 1 .. (n - 1) : m \in 1 .. Len(wire)
      BY <1>2, <3>1
    <3> QED
      BY <2>1, <3>1, <3>2 DEF Clean
  <2>5. \A l : (\E n \in 1 .. Len(wire) : wire[n] = l) => (\E n \in 1 .. Len(wire') : wire'[n] = l)
    BY <1>2
  <2>6. modem # <<>> =>
         /\ \A n \in 1 .. Len(wire') : wire'[n].kind \notin Finals
         /\ Head(modem[1].left) = "final" =>
              Info(pending.call) \in pending.lines \/ \E n \in 1 .. Len(wire') : wire'[n] = Info(pending.call)
         /\ Head(modem[1].left) = "prompt" => \A n \in 1 .. Len(wire') : wire'[n].kind # "prompt"
         /\ Head(modem[1].left) = "body" => pending.prompt \/ \E n \in 1 .. Len(wire') : wire'[n].kind = "prompt"
    BY <1>2, <1>4, <1>5, <2>1, <2>5 DEF Clean, Written
  <2> QED
    BY <2>1, <2>2, <2>3, <2>4, <2>6 DEF Clean, Written, Info
<1>13. AT!OwnAnswer' /\ AT!HandlersGetUrcs'
  BY <1>1 DEF AT!OwnAnswer, AT!HandlersGetUrcs
<1> QED
  BY <1>6, <1>7, <1>8, <1>9, <1>10, <1>11, <1>12, <1>13 DEF ATInv

(* The module reports a URC, whole.                                        *)
LEMMA ReportKeeps ==
  ASSUME ATInv, NEW u \in Urcs \cup Splits \cup Shared, AT!modem_reports(u)
  PROVE  ATInv'
<1>1. /\ port = "open" /\ toReport' = toReport \ {u}
      /\ wire' = wire \o (IF u \in Splits THEN <<AT!Line("head", u), AT!Line("payload", u)>>
                          ELSE <<AT!Line(IF u \in Urcs THEN "urc" ELSE "change", u)>>)
      /\ UNCHANGED <<call, waiting, pending, capture, port, modem, got, dispatched, order, timeouts>>
  BY DEF AT!modem_reports
<1>2. wire \in Seq(LineRow) /\ Len(wire) \in Nat
  BY DEF ATInv, ATTypes
<1>3. u \in Calls \cup Urcs \cup Splits
  BY ATAssumption
<1>4. CASE u \in Splits
  <2> DEFINE a == AT!Line("head", u)
             b == AT!Line("payload", u)
  <2>1. a \in LineRow /\ b \in LineRow /\ a.kind = "head" /\ a.of = u /\ b.kind = "payload" /\ b.of = u
    BY <1>3 DEF AT!Line, LineRow, Kinds
  <2>2. wire' = wire \o <<a, b>>
    BY <1>1, <1>4
  <2>3. b = AT!Line("payload", a.of)
    BY <2>1
  <2> HIDE DEF a, b
  <2>4. /\ wire' \in Seq(LineRow) /\ Len(wire') = Len(wire) + 2
        /\ \A n \in 1 .. Len(wire) : wire'[n] = wire[n]
        /\ wire'[Len(wire) + 1] = a /\ wire'[Len(wire) + 2] = b
    BY ONLY <1>2, <2>1, <2>2
  <2>5. ASSUME NEW n \in (Len(wire) + 1) .. Len(wire')
        PROVE  /\ wire'[n].kind \notin Response
               /\ wire'[n].kind = "change" => wire'[n].of \in Shared
               /\ wire'[n].kind = "head" =>
                    /\ wire'[n].of \in Splits /\ n + 1 \in 1 .. Len(wire')
                    /\ wire'[n + 1] = AT!Line("payload", wire'[n].of)
    <3>1. n = Len(wire) + 1 \/ n = Len(wire) + 2
      BY <1>2, <2>4
    <3>2. CASE n = Len(wire) + 1
      <4>1. n + 1 \in 1 .. Len(wire') /\ wire'[n] = a /\ wire'[n + 1] = b
        BY <1>2, <2>4, <3>2
      <4> QED
        BY <1>4, <2>1, <2>3, <4>1 DEF Response
    <3>3. CASE n = Len(wire) + 2
      BY <2>1, <2>4, <3>3 DEF Response
    <3> QED
      BY <3>1, <3>2, <3>3
  <2>6. Len(wire') \in Nat /\ Len(wire') >= Len(wire) /\ toReport' \subseteq toReport
    BY <1>1, <1>2, <2>4
  <2> QED
    BY <1>1, <2>4, <2>5, <2>6, UrcKeeps
<1>5. CASE u \notin Splits
  <2> DEFINE a == AT!Line(IF u \in Urcs THEN "urc" ELSE "change", u)
  <2>1. a \in LineRow /\ a.kind \in {"urc", "change"} /\ (a.kind = "change" => a.of \in Shared)
    BY <1>3, <1>5 DEF AT!Line, LineRow, Kinds
  <2>2. wire' = wire \o <<a>>
    BY <1>1, <1>5
  <2> HIDE DEF a
  <2>4. /\ wire' \in Seq(LineRow) /\ Len(wire') = Len(wire) + 1
        /\ \A n \in 1 .. Len(wire) : wire'[n] = wire[n]
        /\ wire'[Len(wire) + 1] = a
    BY ONLY <1>2, <2>1, <2>2
  <2>5. ASSUME NEW n \in (Len(wire) + 1) .. Len(wire')
        PROVE  /\ wire'[n].kind \notin Response /\ wire'[n].kind # "head"
               /\ wire'[n].kind = "change" => wire'[n].of \in Shared
    <3>1. n = Len(wire) + 1
      BY <1>2, <2>4
    <3> QED
      BY <2>1, <2>4, <3>1 DEF Response
  <2>6. Len(wire') \in Nat /\ Len(wire') >= Len(wire) /\ toReport' \subseteq toReport
    BY <1>1, <1>2, <2>4
  <2> QED
    BY <1>1, <2>4, <2>5, <2>6, UrcKeeps
<1> QED
  BY <1>4, <1>5

(* The oldest command the module has read.                                 *)
LEMMA ModemHead ==
  ASSUME ATTypes, modem # <<>>
  PROVE  /\ Head(modem) = modem[1] /\ 1 \in 1 .. Len(modem)
         /\ modem[1].call \in Calls /\ modem[1].left \in Lefts
<1> DEFINE R == [call : Calls, left : Lefts]
<1>1. modem \in Seq(R)
  BY DEF ATTypes
<1> HIDE DEF R
<1>2. Head(modem) = modem[1] /\ 1 \in 1 .. Len(modem) /\ modem[1] \in R
  BY <1>1
<1> QED
  BY <1>2 DEF R

(* A line written for the oldest command the module has read: what it says *)
(* about the wire.                                                         *)
LEMMA LineWritten ==
  ASSUME ATInv, port = "open", modem # <<>>, NEW kind \in Response, wire' = Append(wire, AT!Line(kind, modem[1].call))
  PROVE  /\ wire' \in Seq(LineRow) /\ Len(wire') = Len(wire) + 1 /\ Len(wire) \in Nat
         /\ \A n \in 1 .. Len(wire) : wire'[n] = wire[n] /\ n \in 1 .. Len(wire')
         /\ wire'[Len(wire')].kind = kind /\ wire'[Len(wire')].of = modem[1].call
         /\ wire'[Len(wire')] = AT!Line(kind, modem[1].call)
         /\ modem[1].call \in Calls /\ Head(modem) = modem[1] /\ 1 \in 1 .. Len(modem)
         /\ \A n \in 1 .. Len(wire') : n \in 1 .. Len(wire) \/ n = Len(wire')
         /\ \A n \in 1 .. Len(wire') :
              /\ wire'[n].kind \in Response => wire'[n].of \in Calls
              /\ wire'[n].kind = "change" => wire'[n].of \in Shared
              /\ wire'[n].kind = "head" => wire'[n].of \in Splits
         /\ \A n \in 1 .. Len(wire') : wire'[n].kind = "head" =>
              n + 1 \in 1 .. Len(wire') /\ wire'[n + 1] = AT!Line("payload", wire'[n].of)
         /\ capture # AT!NoUrc => wire' # <<>> /\ wire'[1] = AT!Line("payload", capture)
<1>1. ATTypes /\ Whole
  BY DEF ATInv
<1> DEFINE l == AT!Line(kind, modem[1].call)
<1>2. modem[1].call \in Calls /\ Head(modem) = modem[1] /\ 1 \in 1 .. Len(modem)
  BY <1>1, ModemHead
<1>3. l \in LineRow /\ l.kind = kind /\ l.of = modem[1].call
  BY <1>2 DEF AT!Line, LineRow, Kinds, Response
<1>4. wire' = Append(wire, l) /\ wire \in Seq(LineRow)
  BY <1>1 DEF ATTypes
<1> HIDE DEF l
<1>5. /\ wire' \in Seq(LineRow) /\ Len(wire') = Len(wire) + 1 /\ Len(wire) \in Nat
      /\ \A n \in 1 .. Len(wire) : wire'[n] = wire[n] /\ n \in 1 .. Len(wire')
      /\ wire'[Len(wire')] = l
  BY ONLY <1>3, <1>4
<1>6. \A n \in 1 .. Len(wire') : n \in 1 .. Len(wire) \/ n = Len(wire')
  BY <1>5
<1>7. \A n \in 1 .. Len(wire') :
        /\ wire'[n].kind \in Response => wire'[n].of \in Calls
        /\ wire'[n].kind = "change" => wire'[n].of \in Shared
        /\ wire'[n].kind = "head" => wire'[n].of \in Splits
  BY <1>1, <1>2, <1>3, <1>5, <1>6 DEF ATTypes, Response
<1>8. ASSUME NEW n \in 1 .. Len(wire'), wire'[n].kind = "head"
      PROVE  n + 1 \in 1 .. Len(wire') /\ wire'[n + 1] = AT!Line("payload", wire'[n].of)
  <2>1. n \in 1 .. Len(wire) /\ wire[n].kind = "head"
    BY <1>3, <1>5, <1>6, <1>8 DEF Response
  <2> QED
    BY <1>1, <1>5, <2>1 DEF Whole
<1>9. capture # AT!NoUrc => wire' # <<>> /\ wire'[1] = AT!Line("payload", capture)
  <2> SUFFICES ASSUME capture # AT!NoUrc PROVE wire' # <<>> /\ wire'[1] = AT!Line("payload", capture)
    OBVIOUS
  <2>1. wire # <<>> /\ wire[1] = AT!Line("payload", capture)
    BY <1>1 DEF Whole
  <2>2. 1 \in 1 .. Len(wire)
    BY <1>4, <2>1
  <2>3. Len(wire') # 0
    BY <1>5
  <2>4. wire' # <<>>
    BY ONLY <2>3
  <2> QED
    BY <1>5, <2>1, <2>2, <2>4
<1>10. l = AT!Line(kind, modem[1].call)
  BY DEF l
<1> QED
  BY <1>2, <1>3, <1>5, <1>6, <1>7, <1>8, <1>9, <1>10

(* While nothing timed out, the module works for the pending call.         *)
LEMMA WorksFor ==
  ASSUME ATInv, modem # <<>>, timeouts = 0
  PROVE  modem[1].call = pending.call /\ Len(modem) = 1 /\ pending.call # "none" /\ pending.final = "none"
<1>1. ATTypes /\ OneCall /\ InTurn /\ Clean
  BY DEF ATInv, Untimed
<1>2. Len(modem) = 1 /\ pending.call # "none" /\ pending.final = "none"
  BY <1>1 DEF Clean
<1>3. order[Len(order)] = pending.call /\ Len(order) \in Nat
  BY <1>1, <1>2 DEF OneCall, ATTypes
<1>4. modem[1].call = order[(Len(order) - 1) + 1]
  BY <1>1, <1>2 DEF InTurn
<1> QED
  BY <1>2, <1>3, <1>4

(* The prompt, or a line of the answer.                                    *)
LEMMA AnswerKeeps ==
  ASSUME ATInv, port = "open", modem # <<>>, NEW kind \in {"prompt", "info"}, Head(modem[1].left) = kind,
         wire' = Append(wire, AT!Line(kind, modem[1].call)),
         modem' = <<[Head(modem) EXCEPT !.left = Tail(@)]>> \o Tail(modem),
         UNCHANGED <<call, waiting, pending, capture, port, toReport, got, dispatched, order, timeouts>>
  PROVE  ATInv'
<1>1. ATTypes /\ OneCall /\ Whole /\ InTurn /\ Fresh /\ Given /\ Untimed /\ AT!OwnAnswer /\ AT!HandlersGetUrcs
  BY DEF ATInv
<1>2. kind \in Response /\ kind \notin Finals /\ Finals \subseteq Response /\ "ok" \in Finals /\ "prompt" \in Response
  BY DEF Response, Finals
<1>3. /\ wire' \in Seq(LineRow) /\ Len(wire') = Len(wire) + 1 /\ Len(wire) \in Nat
      /\ \A n \in 1 .. Len(wire) : wire'[n] = wire[n] /\ n \in 1 .. Len(wire')
      /\ wire'[Len(wire')].kind = kind /\ wire'[Len(wire')].of = modem[1].call
      /\ wire'[Len(wire')] = AT!Line(kind, modem[1].call)
      /\ \A n \in 1 .. Len(wire') : n \in 1 .. Len(wire) \/ n = Len(wire')
  BY <1>2, LineWritten
<1>4. /\ \A n \in 1 .. Len(wire') :
           /\ wire'[n].kind \in Response => wire'[n].of \in Calls
           /\ wire'[n].kind = "change" => wire'[n].of \in Shared
           /\ wire'[n].kind = "head" => wire'[n].of \in Splits
      /\ \A n \in 1 .. Len(wire') : wire'[n].kind = "head" =>
           n + 1 \in 1 .. Len(wire') /\ wire'[n + 1] = AT!Line("payload", wire'[n].of)
      /\ capture # AT!NoUrc => wire' # <<>> /\ wire'[1] = AT!Line("payload", capture)
  BY <1>2, LineWritten
<1>5. /\ modem' \in Seq([call : Calls, left : Lefts]) /\ Len(modem') = Len(modem) /\ modem' # <<>>
      /\ \A n \in 1 .. Len(modem) : modem'[n].call = modem[n].call
      /\ kind = "prompt" => Head(modem'[1].left) = "body"
      /\ kind = "info" => Head(modem'[1].left) = "final"
  BY <1>1, HeadMoves
<1>6. UNCHANGED <<call, waiting, pending, capture, port, toReport, got, dispatched, order, timeouts>>
  OBVIOUS
<1>7. \A n \in 1 .. Len(wire') : wire'[n].kind \in Finals => n \in 1 .. Len(wire) /\ wire'[n] = wire[n]
  BY <1>2, <1>3
<1>8. ATTypes'
  BY ONLY <1>1, <1>3, <1>4, <1>5, <1>6 DEF ATTypes
<1>9. OneCall' /\ Given' /\ AT!OwnAnswer' /\ AT!HandlersGetUrcs'
  BY ONLY <1>1, <1>6 DEF OneCall, Given, AT!OwnAnswer, AT!HandlersGetUrcs
<1>10. Whole'
  <2>1. port' = "open"
    OBVIOUS
  <2> QED
    BY ONLY <1>4, <1>6, <2>1 DEF Whole
<1>11. InTurn'
  <2>1. Len(modem') <= Len(order) /\ \A n \in 1 .. Len(modem') : modem'[n].call = order[(Len(order) - Len(modem')) + n]
    BY ONLY <1>1, <1>5 DEF InTurn
  <2>2. \A n \in 1 .. Len(wire') : wire'[n].kind \in Finals =>
          \E k \in 1 .. (Len(order) - Len(modem')) : order[k] = wire'[n].of
    BY ONLY <1>1, <1>5, <1>7 DEF InTurn
  <2>3. ASSUME NEW m \in 1 .. Len(wire'), NEW n \in 1 .. Len(wire'), m < n,
               wire'[m].kind \in Finals, wire'[n].kind \in Finals
        PROVE  \A j, k \in 1 .. Len(order) : order[j] = wire'[m].of /\ order[k] = wire'[n].of => j < k
    <3>1. \A a, b \in 1 .. Len(wire) : a < b /\ wire[a].kind \in Finals /\ wire[b].kind \in Finals =>
            \A j0, k0 \in 1 .. Len(order) : order[j0] = wire[a].of /\ order[k0] = wire[b].of => j0 < k0
      BY ONLY <1>1 DEF InTurn
    <3>2. m \in 1 .. Len(wire) /\ wire'[m] = wire[m] /\ n \in 1 .. Len(wire) /\ wire'[n] = wire[n]
      BY ONLY <1>7, <2>3
    <3> QED
      BY ONLY <2>3, <3>1, <3>2
  <2> QED
    BY ONLY <1>6, <2>1, <2>2, <2>3 DEF InTurn
<1>12. Fresh'
  <2>1. Oldest' = Oldest
    BY ONLY <1>6 DEF Oldest
  <2>2. ~Stuck
    BY DEF Stuck
  <2>3. /\ (Len(order) - Len(modem)) + 1 >= Oldest
        /\ \A n \in 1 .. Len(wire) : wire[n].kind \in Finals =>
             \A k \in 1 .. Len(order) : order[k] = wire[n].of => k >= Oldest
    BY ONLY <1>1, <2>2 DEF Fresh
  <2>4. (Len(order') - Len(modem')) + 1 >= Oldest'
    BY ONLY <1>5, <1>6, <2>1, <2>3
  <2>5. \A n \in 1 .. Len(wire') : wire'[n].kind \in Finals =>
             \A k \in 1 .. Len(order') : order'[k] = wire'[n].of => k >= Oldest'
    BY ONLY <1>6, <1>7, <2>1, <2>3
  <2> QED
    BY ONLY <2>4, <2>5 DEF Fresh
<1>13. Untimed'
  <2> SUFFICES ASSUME timeouts = 0 PROVE Clean'
    BY DEF Untimed
  <2>1. Clean /\ modem[1].call = pending.call /\ Len(modem) = 1 /\ pending.call # "none" /\ pending.final = "none"
    BY <1>1, WorksFor DEF Untimed
  <2>2. \A n \in 1 .. Len(wire) : wire[n].kind \notin Finals
    BY <2>1 DEF Clean
  <2>3. \A n \in 1 .. Len(wire') : wire'[n].kind \notin Finals
    BY ONLY <1>7, <2>2
  <2>4. \A n \in 1 .. Len(wire') : wire'[n].kind \in Response => wire'[n].of = pending.call
    BY ONLY <1>3, <2>1 DEF Clean
  <2>5. kind = "info" => \E n \in 1 .. Len(wire') : wire'[n] = Info(pending.call)
    <3>1. Len(wire') \in 1 .. Len(wire')
      BY ONLY <1>3
    <3> QED
      BY ONLY <1>3, <2>1, <3>1 DEF Info
  <2>6. kind = "prompt" => call[pending.call] = "prompt" /\ \E n \in 1 .. Len(wire') : wire'[n].kind = "prompt"
    <3>1. Len(wire') \in 1 .. Len(wire')
      BY ONLY <1>3
    <3>2. kind = "prompt" => call[pending.call] = "prompt"
      BY <2>1 DEF Clean
    <3> QED
      BY ONLY <1>3, <2>1, <3>1, <3>2
  <2>7. pending.final # "ok" /\ \A l \in pending.lines : l.of = pending.call \/ l.kind = "payload"
    BY ONLY <2>1 DEF Clean
  <2>8. Head(modem'[1].left) \in {"body", "final"} /\ (Head(modem'[1].left) = "body" <=> kind = "prompt")
    BY <1>5
  <2>9. kind \in {"prompt", "info"} /\ (\A n \in 1 .. Len(wire') : wire'[n].kind # "ok")
    BY <1>2, <2>3
  <2>10. Len(modem') = 1
    BY ONLY <1>5, <2>1
  <2> QED
    BY ONLY <1>6, <2>1, <2>3, <2>4, <2>5, <2>6, <2>7, <2>8, <2>9, <2>10 DEF Clean, Written, Info
<1> QED
  BY ONLY <1>8, <1>9, <1>10, <1>11, <1>12, <1>13 DEF ATInv

(* A final line: the module is done with the command.                      *)
LEMMA FinalKeeps ==
  ASSUME ATInv, port = "open", modem # <<>>, NEW kind \in Finals,
         Head(modem[1].left) # "body", kind = "ok" => Head(modem[1].left) = "final",
         wire' = Append(wire, AT!Line(kind, modem[1].call)), modem' = Tail(modem),
         UNCHANGED <<call, waiting, pending, capture, port, toReport, got, dispatched, order, timeouts>>
  PROVE  ATInv'
<1>1. ATTypes /\ OneCall /\ Whole /\ InTurn /\ Fresh /\ Given /\ Untimed /\ AT!OwnAnswer /\ AT!HandlersGetUrcs
  BY DEF ATInv
<1>2. kind \in Response
  BY DEF Response, Finals
<1>3. /\ wire' \in Seq(LineRow) /\ Len(wire') = Len(wire) + 1 /\ Len(wire) \in Nat
      /\ \A n \in 1 .. Len(wire) : wire'[n] = wire[n] /\ n \in 1 .. Len(wire')
      /\ wire'[Len(wire')].kind = kind /\ wire'[Len(wire')].of = modem[1].call
      /\ 1 \in 1 .. Len(modem)
      /\ \A n \in 1 .. Len(wire') : n \in 1 .. Len(wire) \/ n = Len(wire')
  BY <1>2, LineWritten
<1>4. /\ \A n \in 1 .. Len(wire') :
           /\ wire'[n].kind \in Response => wire'[n].of \in Calls
           /\ wire'[n].kind = "change" => wire'[n].of \in Shared
           /\ wire'[n].kind = "head" => wire'[n].of \in Splits
      /\ \A n \in 1 .. Len(wire') : wire'[n].kind = "head" =>
           n + 1 \in 1 .. Len(wire') /\ wire'[n + 1] = AT!Line("payload", wire'[n].of)
      /\ capture # AT!NoUrc => wire' # <<>> /\ wire'[1] = AT!Line("payload", capture)
  BY <1>2, LineWritten
<1>5. /\ modem' \in Seq([call : Calls, left : Lefts]) /\ Len(modem') = Len(modem) - 1 /\ Len(modem) \in Nat
      /\ \A n \in 1 .. Len(modem') : n + 1 \in 1 .. Len(modem) /\ modem'[n] = modem[n + 1]
  <2> DEFINE R == [call : Calls, left : Lefts]
  <2>1. modem \in Seq(R) /\ modem # <<>> /\ modem' = Tail(modem)
    BY <1>1 DEF ATTypes
  <2> HIDE DEF R
  <2>2. /\ modem' \in Seq(R) /\ Len(modem') = Len(modem) - 1 /\ Len(modem) \in Nat
        /\ \A n \in 1 .. Len(modem') : n + 1 \in 1 .. Len(modem) /\ modem'[n] = modem[n + 1]
    BY ONLY <2>1
  <2> QED
    BY ONLY <2>2 DEF R
<1>6. UNCHANGED <<call, waiting, pending, capture, port, toReport, got, dispatched, order, timeouts>>
  OBVIOUS
<1>7. Len(order) \in Nat /\ Oldest \in Int /\ Len(modem) <= Len(order)
  BY <1>1, ATNumbers DEF InTurn
<1> DEFINE k0 == (Len(order) - Len(modem)) + 1
<1>8. k0 \in 1 .. Len(order) /\ k0 = Len(order) - Len(modem') /\ order[k0] = modem[1].call
  <2>1. k0 \in 1 .. Len(order) /\ k0 = Len(order) - Len(modem')
    BY ONLY <1>3, <1>5, <1>7
  <2> QED
    BY ONLY <1>1, <1>3, <2>1 DEF InTurn
<1>9. \A j \in 1 .. Len(order) : order[j] = modem[1].call => j = k0
  BY ONLY <1>1, <1>8 DEF OneCall
<1>10. \A n \in 1 .. Len(wire) : wire[n].kind \in Finals =>
         \A j \in 1 .. Len(order) : order[j] = wire[n].of => j < k0
  <2> SUFFICES ASSUME NEW n \in 1 .. Len(wire), wire[n].kind \in Finals,
                      NEW j \in 1 .. Len(order), order[j] = wire[n].of
               PROVE  j < k0
    OBVIOUS
  <2>1. PICK k \in 1 .. (Len(order) - Len(modem)) : order[k] = wire[n].of
    BY <1>1 DEF InTurn
  <2>2. k \in 1 .. Len(order)
    BY ONLY <1>5, <1>7, <2>1
  <2>3. j = k
    BY <1>1, <2>1, <2>2 DEF OneCall
  <2> QED
    BY ONLY <1>5, <1>7, <2>1, <2>3
<1> HIDE DEF k0
<1>11. ATTypes'
  BY ONLY <1>1, <1>3, <1>4, <1>5, <1>6 DEF ATTypes
<1>12. OneCall' /\ Given' /\ AT!OwnAnswer' /\ AT!HandlersGetUrcs'
  BY ONLY <1>1, <1>6 DEF OneCall, Given, AT!OwnAnswer, AT!HandlersGetUrcs
<1>13. Whole'
  <2>1. port' = "open"
    OBVIOUS
  <2> QED
    BY ONLY <1>4, <1>6, <2>1 DEF Whole
<1>14. InTurn'
  <2>1. Len(modem') <= Len(order)
    BY ONLY <1>5, <1>7
  <2>2. ASSUME NEW n \in 1 .. Len(modem') PROVE modem'[n].call = order[(Len(order) - Len(modem')) + n]
    <3>1. modem'[n] = modem[n + 1] /\ modem[n + 1].call = order[(Len(order) - Len(modem)) + (n + 1)]
      BY ONLY <1>1, <1>5, <2>2 DEF InTurn
    <3>2. (Len(order) - Len(modem)) + (n + 1) = (Len(order) - Len(modem')) + n
      BY ONLY <1>5, <1>7, <2>2
    <3> QED
      BY ONLY <3>1, <3>2
  <2>3. ASSUME NEW n \in 1 .. Len(wire'), wire'[n].kind \in Finals
        PROVE  \E k \in 1 .. (Len(order) - Len(modem')) : order[k] = wire'[n].of
    <3>1. CASE n = Len(wire')
      <4>1. k0 \in 1 .. (Len(order) - Len(modem'))
        BY ONLY <1>7, <1>8
      <4> QED
        BY ONLY <1>3, <1>8, <3>1, <4>1
    <3>2. CASE n \in 1 .. Len(wire)
      <4>1. PICK k \in 1 .. (Len(order) - Len(modem)) : order[k] = wire'[n].of
        BY ONLY <1>1, <1>3, <2>3, <3>2 DEF InTurn
      <4>2. k \in 1 .. (Len(order) - Len(modem'))
        BY ONLY <1>5, <1>7, <4>1
      <4> QED
        BY ONLY <4>1, <4>2
    <3> QED
      BY ONLY <1>3, <2>3, <3>1, <3>2
  <2>4. ASSUME NEW m \in 1 .. Len(wire'), NEW n \in 1 .. Len(wire'), m < n,
               wire'[m].kind \in Finals, wire'[n].kind \in Finals,
               NEW j \in 1 .. Len(order), NEW k \in 1 .. Len(order), order[j] = wire'[m].of, order[k] = wire'[n].of
        PROVE  j < k
    <3>1. m \in 1 .. Len(wire) /\ wire'[m] = wire[m]
      BY ONLY <1>3, <2>4
    <3>2. CASE n = Len(wire')
      BY ONLY <1>3, <1>9, <1>10, <2>4, <3>1, <3>2
    <3>3. CASE n \in 1 .. Len(wire)
      <4>1. wire'[n] = wire[n]
        BY ONLY <1>3, <3>3
      <4>2. InTurn
        BY ONLY <1>1
      <4>3. wire[m].kind \in Finals /\ wire[n].kind \in Finals /\ order[j] = wire[m].of /\ order[k] = wire[n].of
        BY ONLY <2>4, <3>1, <4>1
      <4> QED
        BY ONLY <2>4, <3>1, <3>3, <4>2, <4>3 DEF InTurn
    <3> QED
      BY ONLY <1>3, <2>4, <3>2, <3>3
  <2> QED
    BY ONLY <1>6, <2>1, <2>2, <2>3, <2>4 DEF InTurn
<1>15. Fresh'
  <2>1. Oldest' = Oldest
    BY ONLY <1>6 DEF Oldest
  <2>2. ~Stuck
    BY DEF Stuck
  <2>3. /\ k0 >= Oldest
        /\ \A n \in 1 .. Len(wire) : wire[n].kind \in Finals =>
             \A k \in 1 .. Len(order) : order[k] = wire[n].of => k >= Oldest
    BY ONLY <1>1, <2>2 DEF Fresh, k0
  <2>4. (Len(order') - Len(modem')) + 1 >= Oldest'
    BY ONLY <1>5, <1>6, <1>7, <1>8, <2>1, <2>3
  <2>5. \A n \in 1 .. Len(wire') : wire'[n].kind \in Finals =>
             \A k \in 1 .. Len(order') : order'[k] = wire'[n].of => k >= Oldest'
    BY ONLY <1>3, <1>6, <1>9, <2>1, <2>3
  <2> QED
    BY ONLY <2>4, <2>5 DEF Fresh
<1>16. Untimed'
  <2> SUFFICES ASSUME timeouts = 0 PROVE Clean'
    BY DEF Untimed
  <2>1. Clean /\ modem[1].call = pending.call /\ Len(modem) = 1 /\ pending.call # "none" /\ pending.final = "none"
    BY <1>1, WorksFor DEF Untimed
  <2>2. \A n \in 1 .. Len(wire) : wire[n].kind \notin Finals
    BY <2>1 DEF Clean
  <2>3. modem' = <<>>
    <3>1. Len(modem') = 0
      BY ONLY <1>5, <2>1
    <3> QED
      BY ONLY <1>5, <3>1
  <2>4. \A n \in 1 .. Len(wire') : wire'[n].kind \in Response => wire'[n].of = pending.call
    BY ONLY <1>3, <2>1 DEF Clean
  <2>5. \A n \in 1 .. Len(wire') : wire'[n].kind \in Finals => n = Len(wire')
    BY ONLY <1>3, <2>2
  <2>6. \A m, n \in 1 .. Len(wire') : m < n /\ wire'[m].kind \in Finals => FALSE
    BY ONLY <1>3, <2>5
  <2>7. ASSUME NEW n \in 1 .. Len(wire'), wire'[n].kind = "ok"
        PROVE  Info(pending.call) \in pending.lines \/ \E m \in 1 .. (n - 1) : wire'[m] = Info(pending.call)
    <3>1. n = Len(wire') /\ kind = "ok"
      BY ONLY <1>3, <2>5, <2>7 DEF Finals
    <3>2. Info(pending.call) \in pending.lines \/ \E m \in 1 .. Len(wire) : wire[m] = Info(pending.call)
      BY <2>1, <3>1 DEF Clean, Written
    <3>3. n - 1 = Len(wire)
      BY ONLY <1>3, <3>1
    <3> QED
      BY ONLY <1>3, <3>2, <3>3
  <2>8. pending.final # "ok" /\ \A l \in pending.lines : l.of = pending.call \/ l.kind = "payload"
    BY ONLY <2>1 DEF Clean
  <2> QED
    BY ONLY <1>6, <2>1, <2>3, <2>4, <2>6, <2>7, <2>8 DEF Clean, Info
<1> QED
  BY ONLY <1>11, <1>12, <1>13, <1>14, <1>15, <1>16 DEF ATInv

(* The module works on the oldest command it has read.                     *)
LEMMA ModemKeeps ==
  ASSUME ATInv, AT!modem_writes
  PROVE  ATInv'
<1>1. /\ port = "open" /\ modem # <<>>
      /\ UNCHANGED <<call, waiting, pending, capture, port, toReport, got, dispatched, order, timeouts>>
  BY DEF AT!modem_writes
<1> DEFINE step == Head(modem[1].left)
<1>2. Head(modem) = modem[1] /\ modem[1].left \in Lefts
  BY <1>1, ModemHead DEF ATInv
<1>3. step \in {"prompt", "body", "info", "final"}
  BY <1>2 DEF Lefts
<1>4. /\ step # "body"
      /\ \E kind \in CASE step = "final" -> {"ok", "error"}
                      [] step = "prompt" -> {"prompt", "error"}
                      [] OTHER -> {step} :
           /\ wire' = Append(wire, AT!Line(kind, modem[1].call))
           /\ modem' = IF kind \in {"ok", "error"} THEN Tail(modem)
                       ELSE <<[Head(modem) EXCEPT !.left = Tail(@)]>> \o Tail(modem)
  BY <1>2 DEF AT!modem_writes
<1> HIDE DEF step
<1>5. PICK kind \in {"ok", "error", "prompt", "info"} :
        /\ kind = "ok" => step = "final"
        /\ kind \in {"prompt", "info"} => step = kind
        /\ wire' = Append(wire, AT!Line(kind, modem[1].call))
        /\ modem' = IF kind \in {"ok", "error"} THEN Tail(modem)
                    ELSE <<[Head(modem) EXCEPT !.left = Tail(@)]>> \o Tail(modem)
  <2>1. CASE step = "final"
    BY <1>4, <2>1
  <2>2. CASE step = "prompt"
    BY <1>4, <2>2
  <2>3. CASE step = "info"
    BY <1>4, <2>3
  <2> QED
    BY <1>3, <1>4, <2>1, <2>2, <2>3
<1>6. CASE kind \in {"ok", "error"}
  <2>1. modem' = Tail(modem)
    BY <1>5, <1>6
  <2> QED
    BY <1>1, <1>4, <1>5, <1>6, <2>1, FinalKeeps DEF Finals, step
<1>7. CASE kind \in {"prompt", "info"}
  <2>1. modem' = <<[Head(modem) EXCEPT !.left = Tail(@)]>> \o Tail(modem)
    BY <1>5, <1>7
  <2> QED
    BY <1>1, <1>5, <1>7, <2>1, AnswerKeeps DEF step
<1> QED
  BY <1>6, <1>7

(* What the wire is once its first line is handled.                        *)
LEMMA LineGone ==
  ASSUME ATInv, wire # <<>>, wire' = Tail(wire), UNCHANGED <<order, modem, port>>,
         capture' # AT!NoUrc => wire[1].kind = "head" /\ capture' = wire[1].of
  PROVE  /\ wire' \in Seq(LineRow) /\ Len(wire) \in Nat /\ Len(wire') = Len(wire) - 1
         /\ \A n \in 1 .. Len(wire') : n + 1 \in 1 .. Len(wire) /\ wire'[n] = wire[n + 1]
         /\ \A n \in 1 .. Len(wire) : n = 1 \/ (n - 1 \in 1 .. Len(wire') /\ wire'[n - 1] = wire[n])
         /\ 1 \in 1 .. Len(wire) /\ wire[1] \in LineRow /\ port = "open" /\ Head(wire) = wire[1]
         /\ \A n \in 1 .. Len(wire') :
              /\ wire'[n].kind \in Response => wire'[n].of \in Calls
              /\ wire'[n].kind = "change" => wire'[n].of \in Shared
              /\ wire'[n].kind = "head" => wire'[n].of \in Splits
         /\ Whole' /\ InTurn'
<1>1. ATTypes /\ Whole /\ InTurn
  BY DEF ATInv
<1>2. wire \in Seq(LineRow) /\ wire # <<>> /\ wire' = Tail(wire)
  BY <1>1 DEF ATTypes
<1>3. /\ wire' \in Seq(LineRow) /\ Len(wire) \in Nat /\ Len(wire') = Len(wire) - 1
      /\ \A n \in 1 .. Len(wire') : n + 1 \in 1 .. Len(wire) /\ wire'[n] = wire[n + 1]
      /\ 1 \in 1 .. Len(wire) /\ wire[1] \in LineRow /\ Head(wire) = wire[1]
  BY ONLY <1>2
<1>4. ASSUME NEW n \in 1 .. Len(wire), n # 1 PROVE n - 1 \in 1 .. Len(wire') /\ wire'[n - 1] = wire[n]
  <2>1. n - 1 \in 1 .. Len(wire') /\ (n - 1) + 1 = n
    BY ONLY <1>3, <1>4
  <2> QED
    BY ONLY <1>3, <2>1
<1>5. port = "open"
  BY <1>1 DEF Whole
<1>6. UNCHANGED <<order, modem, port>>
  OBVIOUS
<1>7. ASSUME NEW n \in 1 .. Len(wire')
      PROVE  /\ wire'[n].kind \in Response => wire'[n].of \in Calls
             /\ wire'[n].kind = "change" => wire'[n].of \in Shared
             /\ wire'[n].kind = "head" => wire'[n].of \in Splits
  <2>1. n + 1 \in 1 .. Len(wire) /\ wire'[n] = wire[n + 1]
    BY ONLY <1>3, <1>7
  <2> QED
    BY <1>1, <2>1 DEF ATTypes
<1>8. Whole'
  <2>1. ASSUME NEW n \in 1 .. Len(wire'), wire'[n].kind = "head"
        PROVE  n + 1 \in 1 .. Len(wire') /\ wire'[n + 1] = AT!Line("payload", wire'[n].of)
    <3>1. /\ n + 1 \in 1 .. Len(wire) /\ wire[n + 1] = wire'[n] /\ (n + 1) + 1 \in 1 .. Len(wire)
          /\ wire[(n + 1) + 1] = AT!Line("payload", wire'[n].of)
      BY ONLY <1>1, <1>3, <2>1 DEF Whole
    <3>2. n + 1 \in 1 .. Len(wire')
      BY ONLY <1>3, <2>1, <3>1
    <3> QED
      BY ONLY <1>3, <3>1, <3>2
  <2>2. capture' # AT!NoUrc => wire' # <<>> /\ wire'[1] = AT!Line("payload", capture')
    <3> SUFFICES ASSUME capture' # AT!NoUrc PROVE wire' # <<>> /\ wire'[1] = AT!Line("payload", capture')
      OBVIOUS
    <3>1. 1 + 1 \in 1 .. Len(wire) /\ wire[1 + 1] = AT!Line("payload", capture')
      <4>1. wire[1].kind = "head" /\ capture' = wire[1].of
        OBVIOUS
      <4> QED
        BY ONLY <1>1, <1>3, <4>1 DEF Whole
    <3>2. 1 \in 1 .. Len(wire')
      BY ONLY <1>3, <3>1
    <3>3. wire' # <<>>
      BY ONLY <3>2
    <3> QED
      BY ONLY <1>3, <3>1, <3>2, <3>3
  <2>3. port' = "open"
    BY <1>5
  <2> QED
    BY ONLY <2>1, <2>2, <2>3 DEF Whole
<1>9. InTurn'
  <2>1. ASSUME NEW n \in 1 .. Len(wire'), wire'[n].kind \in Finals
        PROVE  \E k \in 1 .. (Len(order) - Len(modem)) : order[k] = wire'[n].of
    <3>1. n + 1 \in 1 .. Len(wire) /\ wire'[n] = wire[n + 1] /\ InTurn
      BY ONLY <1>1, <1>3, <2>1
    <3>2. wire[n + 1].kind \in Finals
      BY ONLY <2>1, <3>1
    <3> QED
      BY ONLY <3>1, <3>2 DEF InTurn
  <2>2. ASSUME NEW m \in 1 .. Len(wire'), NEW n \in 1 .. Len(wire'), m < n,
               wire'[m].kind \in Finals, wire'[n].kind \in Finals
        PROVE  \A j, k \in 1 .. Len(order) : order[j] = wire'[m].of /\ order[k] = wire'[n].of => j < k
    <3>1. /\ m + 1 < n + 1 /\ m + 1 \in 1 .. Len(wire) /\ n + 1 \in 1 .. Len(wire)
          /\ wire'[m] = wire[m + 1] /\ wire'[n] = wire[n + 1] /\ InTurn
      BY ONLY <1>1, <1>3, <2>2
    <3>2. wire[m + 1].kind \in Finals /\ wire[n + 1].kind \in Finals
      BY ONLY <2>2, <3>1
    <3>3. \A j, k \in 1 .. Len(order) : order[j] = wire[m + 1].of /\ order[k] = wire[n + 1].of => j < k
      BY ONLY <3>1, <3>2 DEF InTurn
    <3> QED
      BY ONLY <3>1, <3>3
  <2> QED
    BY ONLY <1>1, <1>6, <2>1, <2>2 DEF InTurn
<1> QED
  BY ONLY <1>3, <1>4, <1>5, <1>7, <1>8, <1>9

(* A line that is no prompt and no final line the pending call waits for:  *)
(* it is dispatched, added to the lines of the call or dropped.            *)
LEMMA PlainLine ==
  ASSUME ATInv, wire # <<>>, wire' = Tail(wire),
         capture' \in Splits \cup {AT!NoUrc},
         capture' # AT!NoUrc => wire[1].kind = "head" /\ capture' = wire[1].of,
         AT!HandlersGetUrcs',
         pending'.lines \in {pending.lines, pending.lines \cup {wire[1]}},
         pending' = [pending EXCEPT !.lines = pending'.lines],
         pending.call = "none" => pending' = pending,
         pending.call # "none" /\ pending.final = "none" =>
            /\ wire[1].kind \notin Finals
            /\ wire[1] = Info(pending.call) => wire[1] \in pending'.lines,
         pending.call # "none" => wire[1].kind # "prompt",
         timeouts = 0 /\ pending'.lines # pending.lines => wire[1].of = pending.call \/ wire[1].kind = "payload",
         UNCHANGED <<call, waiting, port, modem, toReport, got, order, timeouts>>
  PROVE  ATInv'
<1>1. ATTypes /\ OneCall /\ Whole /\ InTurn /\ Fresh /\ Given /\ Untimed /\ AT!OwnAnswer
  BY DEF ATInv
<1>2. /\ wire' \in Seq(LineRow) /\ Len(wire) \in Nat /\ Len(wire') = Len(wire) - 1
      /\ \A n \in 1 .. Len(wire') : n + 1 \in 1 .. Len(wire) /\ wire'[n] = wire[n + 1]
      /\ \A n \in 1 .. Len(wire) : n = 1 \/ (n - 1 \in 1 .. Len(wire') /\ wire'[n - 1] = wire[n])
      /\ 1 \in 1 .. Len(wire) /\ wire[1] \in LineRow
  BY LineGone
<1>3. /\ \A n \in 1 .. Len(wire') :
           /\ wire'[n].kind \in Response => wire'[n].of \in Calls
           /\ wire'[n].kind = "change" => wire'[n].of \in Shared
           /\ wire'[n].kind = "head" => wire'[n].of \in Splits
      /\ Whole' /\ InTurn'
  BY LineGone
<1>4. /\ pending'.call = pending.call /\ pending'.prompt = pending.prompt /\ pending'.final = pending.final
      /\ pending'.of = pending.of /\ pending' \in PendingRow /\ pending.lines \subseteq pending'.lines
  <2>1. pending \in PendingRow
    BY <1>1 DEF ATTypes, PendingRow
  <2>2. pending'.lines \in SUBSET LineRow /\ pending.lines \subseteq pending'.lines
    BY <1>2, <2>1 DEF PendingRow
  <2>3. pending' = [pending EXCEPT !.lines = pending'.lines]
    OBVIOUS
  <2> QED
    BY ONLY <2>1, <2>2, <2>3 DEF PendingRow
<1>5. UNCHANGED <<call, waiting, port, modem, toReport, got, order, timeouts>>
  OBVIOUS
<1>6. capture' \in Splits \cup {AT!NoUrc} /\ (pending.call = "none" => pending' = pending)
  OBVIOUS
<1>7. ATTypes'
  <2>1. pending' \in [call : Calls \cup {"none"}, lines : SUBSET LineRow, prompt : BOOLEAN,
                      final : {"none", "ok", "error", "lost"}, of : Calls \cup {"none"}]
    BY ONLY <1>4 DEF PendingRow
  <2> QED
    BY ONLY <1>1, <1>2, <1>3, <1>5, <1>6, <2>1 DEF ATTypes
<1>8. OneCall'
  BY ONLY <1>1, <1>4, <1>5, <1>6 DEF OneCall
<1>9. Fresh'
  <2>1. Oldest' = Oldest
    BY ONLY <1>4, <1>5 DEF Oldest
  <2>2. CASE Stuck
    BY ONLY <1>2, <1>4, <1>5, <2>2 DEF Fresh, Stuck
  <2>3. CASE ~Stuck
    <3>1. /\ (Len(order) - Len(modem)) + 1 >= Oldest
          /\ \A n \in 1 .. Len(wire) : wire[n].kind \in Finals =>
               \A k \in 1 .. Len(order) : order[k] = wire[n].of => k >= Oldest
      BY ONLY <1>1, <2>3 DEF Fresh
    <3> QED
      BY ONLY <1>2, <1>5, <2>1, <3>1 DEF Fresh
  <2> QED
    BY ONLY <2>2, <2>3
<1>10. Given'
  BY ONLY <1>1, <1>4, <1>5 DEF Given
<1>11. Untimed'
  <2> SUFFICES ASSUME timeouts = 0 PROVE Clean'
    BY DEF Untimed
  <2>1. Clean
    BY <1>1 DEF Untimed
  <2>2. \A n \in 1 .. Len(wire') : wire'[n].kind \in Response =>
         pending.call # "none" /\ pending.final = "none" /\ wire'[n].of = pending.call
    BY ONLY <1>2, <2>1 DEF Clean
  <2>3. ASSUME NEW m \in 1 .. Len(wire'), NEW n \in 1 .. Len(wire'), m < n, wire'[m].kind \in Finals
        PROVE  wire'[n].kind \notin Response
    <3>1. m + 1 < n + 1
      BY ONLY <2>3
    <3> QED
      BY ONLY <1>2, <2>1, <2>3, <3>1 DEF Clean
  <2>4. /\ wire[1] = Info(pending.call) => wire[1] \in pending'.lines
        /\ wire[1].kind # "prompt"
    <3>1. wire[1].kind \in Response => pending.call # "none" /\ pending.final = "none"
      BY ONLY <1>2, <2>1 DEF Clean
    <3>2. wire[1] = Info(pending.call) => wire[1].kind = "info"
      BY DEF Info, AT!Line
    <3> QED
      BY <3>1, <3>2 DEF Response
  <2>5. ASSUME NEW n \in 1 .. Len(wire'), wire'[n].kind = "ok"
        PROVE  Info(pending.call) \in pending'.lines \/ \E m \in 1 .. (n - 1) : wire'[m] = Info(pending.call)
    <3>1. \/ Info(pending.call) \in pending.lines
          \/ \E m \in 1 .. ((n + 1) - 1) : wire[m] = Info(pending.call)
      BY ONLY <1>2, <2>1, <2>5 DEF Clean
    <3>2. CASE \E m \in 1 .. ((n + 1) - 1) : wire[m] = Info(pending.call)
      <4>1. PICK m \in 1 .. n : wire[m] = Info(pending.call)
        BY ONLY <2>5, <3>2
      <4>2. m = 1 \/ m - 1 \in 1 .. (n - 1)
        BY ONLY <2>5, <4>1
      <4>3. m \in 1 .. Len(wire)
        BY ONLY <1>2, <2>5, <4>1
      <4> QED
        BY ONLY <1>2, <2>4, <4>1, <4>2, <4>3
    <3> QED
      BY ONLY <1>4, <3>1, <3>2
  <2>6. modem # <<>> =>
         /\ Len(modem) = 1 /\ pending.call # "none" /\ pending.final = "none"
         /\ \A n \in 1 .. Len(wire') : wire'[n].kind \notin Finals
         /\ Head(modem[1].left) = "prompt" =>
              /\ ~pending.prompt /\ call[pending.call] = "prompt"
              /\ \A n \in 1 .. Len(wire') : wire'[n].kind # "prompt"
    BY ONLY <1>2, <2>1 DEF Clean
  <2>7. modem # <<>> /\ Head(modem[1].left) = "final" =>
          Info(pending.call) \in pending'.lines \/ \E n \in 1 .. Len(wire') : wire'[n] = Info(pending.call)
    <3> SUFFICES ASSUME modem # <<>>, Head(modem[1].left) = "final", Info(pending.call) \notin pending.lines
                 PROVE  Info(pending.call) \in pending'.lines \/ \E n \in 1 .. Len(wire') : wire'[n] = Info(pending.call)
      BY <1>4
    <3>1. PICK n \in 1 .. Len(wire) : wire[n] = Info(pending.call)
      BY <2>1 DEF Clean, Written
    <3> QED
      BY ONLY <1>2, <2>4, <3>1
  <2>8. modem # <<>> /\ Head(modem[1].left) = "body" =>
          /\ call[pending.call] = "prompt"
          /\ pending.prompt \/ \E n \in 1 .. Len(wire') : wire'[n].kind = "prompt"
    <3>1. modem # <<>> /\ Head(modem[1].left) = "body" =>
            call[pending.call] = "prompt" /\ (pending.prompt \/ \E n \in 1 .. Len(wire) : wire[n].kind = "prompt")
      BY ONLY <2>1 DEF Clean
    <3> QED
      BY ONLY <1>2, <2>4, <3>1
  <2>9. pending.final = "ok" => Info(pending.call) \in pending'.lines
    BY ONLY <1>4, <2>1 DEF Clean
  <2>10. \A l \in pending'.lines : l.of = pending.call \/ l.kind = "payload"
    <3>1. \A l \in pending.lines : l.of = pending.call \/ l.kind = "payload"
      BY ONLY <2>1 DEF Clean
    <3>2. CASE pending'.lines = pending.lines
      BY ONLY <3>1, <3>2
    <3>3. CASE pending'.lines # pending.lines
      <4>1. pending'.lines = pending.lines \cup {wire[1]} /\ (wire[1].of = pending.call \/ wire[1].kind = "payload")
        BY <3>3
      <4> QED
        BY ONLY <3>1, <4>1
    <3> QED
      BY <3>2, <3>3
  <2>11. pending'.call = pending.call /\ pending'.prompt = pending.prompt /\ pending'.final = pending.final
    BY ONLY <1>4
  <2> QED
    BY ONLY <1>5, <2>2, <2>3, <2>5, <2>6, <2>7, <2>8, <2>9, <2>10, <2>11 DEF Clean, Written, Info
<1>12. AT!OwnAnswer'
  BY ONLY <1>1, <1>5 DEF AT!OwnAnswer
<1>13. AT!HandlersGetUrcs'
  OBVIOUS
<1> QED
  BY ONLY <1>3, <1>7, <1>8, <1>9, <1>10, <1>11, <1>12, <1>13 DEF ATInv

(* The prompt the pending call may wait for.                               *)
LEMMA PromptLine ==
  ASSUME ATInv, wire # <<>>, wire' = Tail(wire), wire[1].kind = "prompt", pending.call # "none",
         capture' = AT!NoUrc, pending' = [pending EXCEPT !.prompt = TRUE],
         UNCHANGED <<call, waiting, port, modem, toReport, got, dispatched, order, timeouts>>
  PROVE  ATInv'
<1>1. ATTypes /\ OneCall /\ Whole /\ InTurn /\ Fresh /\ Given /\ Untimed /\ AT!OwnAnswer /\ AT!HandlersGetUrcs
  BY DEF ATInv
<1>2. /\ wire' \in Seq(LineRow) /\ Len(wire) \in Nat /\ Len(wire') = Len(wire) - 1
      /\ \A n \in 1 .. Len(wire') : n + 1 \in 1 .. Len(wire) /\ wire'[n] = wire[n + 1]
      /\ \A n \in 1 .. Len(wire) : n = 1 \/ (n - 1 \in 1 .. Len(wire') /\ wire'[n - 1] = wire[n])
      /\ 1 \in 1 .. Len(wire)
  BY LineGone
<1>3. /\ \A n \in 1 .. Len(wire') :
           /\ wire'[n].kind \in Response => wire'[n].of \in Calls
           /\ wire'[n].kind = "change" => wire'[n].of \in Shared
           /\ wire'[n].kind = "head" => wire'[n].of \in Splits
      /\ Whole' /\ InTurn'
  BY LineGone
<1>4. /\ pending'.call = pending.call /\ pending'.prompt = TRUE /\ pending'.final = pending.final
      /\ pending'.of = pending.of /\ pending'.lines = pending.lines /\ pending' \in PendingRow
  <2>1. pending \in PendingRow
    BY <1>1 DEF ATTypes, PendingRow
  <2>2. pending' = [pending EXCEPT !.prompt = TRUE]
    OBVIOUS
  <2> QED
    BY ONLY <2>1, <2>2 DEF PendingRow
<1>5. UNCHANGED <<call, waiting, port, modem, toReport, got, dispatched, order, timeouts>> /\ capture' = AT!NoUrc
  OBVIOUS
<1>6. wire[1].kind = "prompt" /\ pending.call # "none"
  OBVIOUS
<1>7. ATTypes'
  <2>1. pending' \in [call : Calls \cup {"none"}, lines : SUBSET LineRow, prompt : BOOLEAN,
                      final : {"none", "ok", "error", "lost"}, of : Calls \cup {"none"}]
    BY ONLY <1>4 DEF PendingRow
  <2> QED
    BY ONLY <1>1, <1>2, <1>3, <1>5, <2>1 DEF ATTypes
<1>8. OneCall'
  BY ONLY <1>1, <1>4, <1>5, <1>6 DEF OneCall
<1>9. Fresh'
  <2>1. Oldest' = Oldest
    BY ONLY <1>4, <1>5 DEF Oldest
  <2>2. ~Stuck
    BY ONLY <1>2, <1>6 DEF Stuck
  <2>3. /\ (Len(order) - Len(modem)) + 1 >= Oldest
        /\ \A n \in 1 .. Len(wire) : wire[n].kind \in Finals =>
             \A k \in 1 .. Len(order) : order[k] = wire[n].of => k >= Oldest
    BY ONLY <1>1, <2>2 DEF Fresh
  <2> QED
    BY ONLY <1>2, <1>5, <2>1, <2>3 DEF Fresh
<1>10. Given'
  BY ONLY <1>1, <1>4, <1>5 DEF Given
<1>11. Untimed'
  <2> SUFFICES ASSUME timeouts = 0 PROVE Clean'
    BY DEF Untimed
  <2>1. Clean
    BY <1>1 DEF Untimed
  <2>2. \A n \in 1 .. Len(wire') : wire'[n].kind \in Response =>
         pending.call # "none" /\ pending.final = "none" /\ wire'[n].of = pending.call
    BY ONLY <1>2, <2>1 DEF Clean
  <2>3. ASSUME NEW m \in 1 .. Len(wire'), NEW n \in 1 .. Len(wire'), m < n, wire'[m].kind \in Finals
        PROVE  wire'[n].kind \notin Response
    <3>1. m + 1 < n + 1
      BY ONLY <2>3
    <3> QED
      BY ONLY <1>2, <2>1, <2>3, <3>1 DEF Clean
  <2>4. wire[1] # Info(pending.call)
    BY ONLY <1>6 DEF Info, AT!Line
  <2>5. ASSUME NEW n \in 1 .. Len(wire'), wire'[n].kind = "ok"
        PROVE  Info(pending.call) \in pending.lines \/ \E m \in 1 .. (n - 1) : wire'[m] = Info(pending.call)
    <3>1. \/ Info(pending.call) \in pending.lines
          \/ \E m \in 1 .. ((n + 1) - 1) : wire[m] = Info(pending.call)
      BY ONLY <1>2, <2>1, <2>5 DEF Clean
    <3>2. CASE \E m \in 1 .. ((n + 1) - 1) : wire[m] = Info(pending.call)
      <4>1. PICK m \in 1 .. n : wire[m] = Info(pending.call)
        BY ONLY <2>5, <3>2
      <4>2. m = 1 \/ m - 1 \in 1 .. (n - 1)
        BY ONLY <2>5, <4>1
      <4>3. m \in 1 .. Len(wire)
        BY ONLY <1>2, <2>5, <4>1
      <4> QED
        BY ONLY <1>2, <2>4, <4>1, <4>2, <4>3
    <3> QED
      BY ONLY <3>1, <3>2
  <2>6. modem # <<>> =>
         /\ Len(modem) = 1 /\ pending.call # "none" /\ pending.final = "none"
         /\ \A n \in 1 .. Len(wire') : wire'[n].kind \notin Finals
         /\ Head(modem[1].left) # "prompt"
         /\ Head(modem[1].left) = "body" => call[pending.call] = "prompt"
    BY ONLY <1>2, <1>6, <2>1 DEF Clean
  <2>7. modem # <<>> /\ Head(modem[1].left) = "final" =>
          Info(pending.call) \in pending.lines \/ \E n \in 1 .. Len(wire') : wire'[n] = Info(pending.call)
    <3>1. modem # <<>> /\ Head(modem[1].left) = "final" =>
            Info(pending.call) \in pending.lines \/ \E n \in 1 .. Len(wire) : wire[n] = Info(pending.call)
      BY ONLY <2>1 DEF Clean, Written
    <3> QED
      BY ONLY <1>2, <2>4, <3>1
  <2>8. /\ pending.final = "ok" => Info(pending.call) \in pending.lines
        /\ \A l \in pending.lines : l.of = pending.call \/ l.kind = "payload"
    BY ONLY <2>1 DEF Clean
  <2>9. /\ pending'.call = pending.call /\ pending'.prompt = TRUE /\ pending'.final = pending.final
        /\ pending'.lines = pending.lines
    BY ONLY <1>4
  <2> QED
    BY ONLY <1>5, <2>2, <2>3, <2>5, <2>6, <2>7, <2>8, <2>9 DEF Clean, Written, Info
<1>12. AT!OwnAnswer' /\ AT!HandlersGetUrcs'
  BY ONLY <1>1, <1>5 DEF AT!OwnAnswer, AT!HandlersGetUrcs
<1> QED
  BY ONLY <1>3, <1>7, <1>8, <1>9, <1>10, <1>11, <1>12 DEF ATInv

(* The final line: it is given to the pending call, whichever command it   *)
(* answers, and what is left on the wire is of later ones.                 *)
LEMMA FinalLine ==
  ASSUME ATInv, wire # <<>>, wire' = Tail(wire), wire[1].kind \in Finals, pending.call # "none",
         pending.final = "none", capture' = AT!NoUrc,
         pending' = [pending EXCEPT !.final = wire[1].kind, !.of = wire[1].of],
         UNCHANGED <<call, waiting, port, modem, toReport, got, dispatched, order, timeouts>>
  PROVE  ATInv'
<1>1. ATTypes /\ OneCall /\ Whole /\ InTurn /\ Fresh /\ Given /\ Untimed /\ AT!OwnAnswer /\ AT!HandlersGetUrcs
  BY DEF ATInv
<1>2. /\ wire' \in Seq(LineRow) /\ Len(wire) \in Nat /\ Len(wire') = Len(wire) - 1
      /\ \A n \in 1 .. Len(wire') : n + 1 \in 1 .. Len(wire) /\ wire'[n] = wire[n + 1]
      /\ 1 \in 1 .. Len(wire)
  BY LineGone
<1>3. /\ \A n \in 1 .. Len(wire') :
           /\ wire'[n].kind \in Response => wire'[n].of \in Calls
           /\ wire'[n].kind = "change" => wire'[n].of \in Shared
           /\ wire'[n].kind = "head" => wire'[n].of \in Splits
      /\ Whole' /\ InTurn'
  BY LineGone
<1>4. wire[1].kind \in Finals /\ wire[1].of \in Calls /\ pending.call # "none" /\ pending.final = "none"
  BY <1>1, <1>2 DEF ATTypes, Finals, Response
<1>5. /\ pending'.call = pending.call /\ pending'.prompt = pending.prompt /\ pending'.final = wire[1].kind
      /\ pending'.of = wire[1].of /\ pending'.lines = pending.lines /\ pending' \in PendingRow
  <2>1. pending \in PendingRow
    BY <1>1 DEF ATTypes, PendingRow
  <2>2. pending' = [pending EXCEPT !.final = wire[1].kind, !.of = wire[1].of]
    OBVIOUS
  <2> QED
    BY ONLY <1>4, <2>1, <2>2 DEF PendingRow, Finals
<1>6. UNCHANGED <<call, waiting, port, modem, toReport, got, dispatched, order, timeouts>> /\ capture' = AT!NoUrc
  OBVIOUS
<1>7. ATTypes'
  <2>1. pending' \in [call : Calls \cup {"none"}, lines : SUBSET LineRow, prompt : BOOLEAN,
                      final : {"none", "ok", "error", "lost"}, of : Calls \cup {"none"}]
    BY ONLY <1>5 DEF PendingRow
  <2> QED
    BY ONLY <1>1, <1>2, <1>3, <1>6, <2>1 DEF ATTypes
<1>8. OneCall'
  BY ONLY <1>1, <1>4, <1>5, <1>6 DEF OneCall
<1>9. /\ timeouts \in Nat /\ Len(order) \in Nat /\ Len(modem) \in Nat /\ Len(modem) <= Len(order)
      /\ Oldest = (Len(order) - timeouts) + 0 /\ Oldest' = (Len(order) - timeouts) + 1
  <2>1. timeouts \in Nat /\ Len(order) \in Nat /\ Len(modem) \in Nat /\ Len(modem) <= Len(order)
    BY <1>1, ATNumbers DEF InTurn
  <2>2. Oldest = (Len(order) - timeouts) + 0
    BY ONLY <1>4 DEF Oldest
  <2>3. Oldest' = (Len(order) - timeouts) + 1
    BY ONLY <1>4, <1>5, <1>6 DEF Oldest, Finals
  <2> QED
    BY ONLY <2>1, <2>2, <2>3
<1>10. ~Stuck
  BY ONLY <1>2, <1>4 DEF Stuck, Finals
<1>11. /\ (Len(order) - Len(modem)) + 1 >= Oldest
       /\ \A n \in 1 .. Len(wire) : wire[n].kind \in Finals =>
            \A k \in 1 .. Len(order) : order[k] = wire[n].of => k >= Oldest
  BY ONLY <1>1, <1>10 DEF Fresh
<1>12. PICK j \in 1 .. (Len(order) - Len(modem)) : order[j] = wire[1].of
  BY ONLY <1>1, <1>2, <1>4 DEF InTurn
<1>13. j \in 1 .. Len(order) /\ j >= Oldest
  <2>1. j \in 1 .. Len(order)
    BY ONLY <1>9, <1>12
  <2> QED
    BY ONLY <1>2, <1>4, <1>11, <1>12, <2>1
<1>14. Fresh'
  <2>1. (Len(order) - Len(modem)) + 1 >= Oldest'
    BY ONLY <1>9, <1>12, <1>13
  <2>2. ASSUME NEW n \in 1 .. Len(wire'), wire'[n].kind \in Finals,
               NEW k \in 1 .. Len(order), order[k] = wire'[n].of
        PROVE  k >= Oldest'
    <3>1. n + 1 \in 1 .. Len(wire) /\ 1 < n + 1 /\ wire[n + 1] = wire'[n]
      BY ONLY <1>2, <2>2
    <3>2. InTurn /\ wire[n + 1].kind \in Finals /\ order[k] = wire[n + 1].of
      BY ONLY <1>1, <2>2, <3>1
    <3>3. j < k
      BY ONLY <1>2, <1>4, <1>12, <1>13, <2>2, <3>1, <3>2 DEF InTurn
    <3> QED
      BY ONLY <1>9, <1>13, <2>2, <3>3
  <2> QED
    BY ONLY <1>6, <2>1, <2>2 DEF Fresh
<1>15. Given'
  <2>1. \E k \in 1 .. Len(order) : order[k] = pending'.of /\ k >= Len(order) - timeouts
    BY ONLY <1>5, <1>9, <1>12, <1>13
  <2> QED
    BY ONLY <1>1, <1>6, <2>1 DEF Given
<1>16. Untimed'
  <2> SUFFICES ASSUME timeouts = 0 PROVE Clean'
    BY DEF Untimed
  <2>1. Clean
    BY <1>1 DEF Untimed
  <2>2. ASSUME NEW n \in 1 .. Len(wire') PROVE wire'[n].kind \notin Response
    <3>1. n + 1 \in 1 .. Len(wire) /\ 1 < n + 1 /\ wire[n + 1] = wire'[n]
      BY ONLY <1>2, <2>2
    <3> QED
      BY ONLY <1>2, <1>4, <2>1, <3>1 DEF Clean
  <2>3. \A n \in 1 .. Len(wire') : wire'[n].kind \notin Response /\ wire'[n].kind \notin Finals /\ wire'[n].kind # "ok"
    BY ONLY <2>2 DEF Response, Finals
  <2>4. modem = <<>>
    BY ONLY <1>2, <1>4, <2>1 DEF Clean
  <2>5. wire[1].kind = "ok" => Info(pending.call) \in pending.lines
    <3>1. \A m \in 1 .. (1 - 1) : FALSE
      OBVIOUS
    <3> QED
      BY ONLY <1>2, <2>1, <3>1 DEF Clean
  <2>6. \A l \in pending.lines : l.of = pending.call \/ l.kind = "payload"
    BY ONLY <2>1 DEF Clean
  <2> QED
    BY ONLY <1>5, <1>6, <2>3, <2>4, <2>5, <2>6 DEF Clean, Info
<1>17. AT!OwnAnswer' /\ AT!HandlersGetUrcs'
  BY ONLY <1>1, <1>6 DEF AT!OwnAnswer, AT!HandlersGetUrcs
<1> QED
  BY ONLY <1>3, <1>7, <1>8, <1>14, <1>15, <1>16, <1>17 DEF ATInv

(* A line that is dispatched leaves what the pending call has.             *)
LEMMA DispatchedLine ==
  ASSUME ATInv, wire # <<>>, wire' = Tail(wire),
         capture' \in Splits \cup {AT!NoUrc},
         capture' # AT!NoUrc => wire[1].kind = "head" /\ capture' = wire[1].of,
         AT!HandlersGetUrcs', wire[1].kind \notin {"prompt", "ok", "error"},
         wire[1].kind = "info" => wire[1].of # pending.call,
         UNCHANGED <<call, waiting, pending, port, modem, toReport, got, order, timeouts>>
  PROVE  ATInv'
<1>1. pending \in PendingRow
  BY DEF ATInv, ATTypes, PendingRow
<1>2. pending = [pending EXCEPT !.lines = pending.lines]
  BY <1>1 DEF PendingRow
<1>3. wire[1] # Info(pending.call)
  BY DEF Info, AT!Line
<1>4. wire[1].kind \notin Finals
  BY DEF Finals
<1> QED
  BY <1>2, <1>3, <1>4, PlainLine

(* _handle_line: the payload of a URC, a line the pending call owns, a URC,*)
(* or what the pending call is given.                                      *)
LEMMA LineKeeps ==
  ASSUME ATInv, AT!handle_line
  PROVE  ATInv'
<1>1. ATTypes /\ OneCall /\ Whole /\ Untimed /\ AT!HandlersGetUrcs
  BY DEF ATInv
<1>2. /\ wire # <<>> /\ wire' = Tail(wire)
      /\ UNCHANGED <<call, waiting, port, modem, toReport, got, order, timeouts>>
  BY DEF AT!handle_line
<1> DEFINE l == wire[1]
<1>3. /\ Head(wire) = l /\ 1 \in 1 .. Len(wire) /\ l \in LineRow /\ port = "open"
  <2>1. wire \in Seq(LineRow)
    BY <1>1 DEF ATTypes
  <2>2. Head(wire) = l /\ 1 \in 1 .. Len(wire) /\ l \in LineRow
    BY ONLY <1>2, <2>1
  <2> QED
    BY <1>1, <1>2, <2>2 DEF Whole
<1>4. /\ l.kind \in Response => l.of \in Calls
      /\ l.kind = "change" => l.of \in Shared
      /\ l.kind = "head" => l.of \in Splits
      /\ l.kind \in Kinds
  <2>1. l.kind \in Kinds
    BY <1>3 DEF LineRow
  <2> QED
    BY <1>1, <1>3, <2>1 DEF ATTypes
<1>5. timeouts = 0 /\ l.kind = "info" => pending.call # "none" /\ pending.final = "none" /\ l.of = pending.call
  BY <1>1, <1>3 DEF Untimed, Clean, Response
<1>6. (pending = AT!NoPending) <=> (pending.call = "none")
  BY <1>1, NonePending
<1>7. pending \in PendingRow
  BY <1>1 DEF ATTypes, PendingRow
<1>8. capture \in Splits \cup {AT!NoUrc}
  BY <1>1 DEF ATTypes
<1> HIDE DEF l
<1>9. CASE /\ capture # AT!NoUrc
           /\ dispatched' = dispatched \cup {<<capture, l>>}
           /\ capture' = AT!NoUrc /\ UNCHANGED pending
  <2>1. l = AT!Line("payload", capture) /\ l.kind = "payload"
    BY <1>1, <1>3, <1>9 DEF Whole, AT!Line, l
  <2>2. AT!HandlersGetUrcs'
    <3>1. Len(<<capture, l>>) = 2 /\ <<capture, l>>[2] = l /\ <<capture, l>>[1] = capture
      OBVIOUS
    <3> QED
      BY <1>1, <1>2, <1>9, <2>1, <3>1 DEF AT!HandlersGetUrcs
  <2> QED
    BY <1>2, <1>9, <2>1, <2>2, DispatchedLine DEF l
<1>10. CASE /\ capture = AT!NoUrc /\ AT!Owned(l)
            /\ pending' = AT!Add(l) /\ UNCHANGED <<capture, dispatched>>
  <2>1. pending.call # "none" /\ l.kind \in {"info", "change"} /\ l.of = pending.call
    BY <1>6, <1>10 DEF AT!Owned
  <2>2. AT!HandlersGetUrcs'
    BY <1>1, <1>2, <1>10 DEF AT!HandlersGetUrcs
  <2>3. /\ pending' = [pending EXCEPT !.lines = pending'.lines]
        /\ pending'.lines \in {pending.lines, pending.lines \cup {l}}
        /\ pending.final = "none" => l \in pending'.lines
    <3>1. CASE pending.final = "none"
      <4>1. pending' = [pending EXCEPT !.lines = @ \cup {l}]
        BY <1>6, <1>10, <2>1, <3>1 DEF AT!Add
      <4> QED
        BY <1>7, <4>1 DEF PendingRow
    <3>2. CASE pending.final # "none"
      <4>1. pending' = pending
        BY <1>10, <3>2 DEF AT!Add
      <4> QED
        BY <1>7, <3>2, <4>1 DEF PendingRow
    <3> QED
      BY <3>1, <3>2
  <2>4. l.kind \notin Finals /\ l.kind # "prompt"
    BY <2>1 DEF Finals
  <2> QED
    BY <1>2, <1>8, <1>10, <2>1, <2>2, <2>3, <2>4, PlainLine DEF l
<1>11. CASE /\ capture = AT!NoUrc /\ ~AT!Owned(l) /\ AT!IsUrc(l)
            /\ dispatched' = dispatched \cup {<<l>>} /\ UNCHANGED <<pending, capture>>
  <2>1. /\ l.kind \in {"urc", "info", "change"}
        /\ l.kind = "info" => pending.call = "none" \/ l.of # pending.call
    BY <1>6, <1>11 DEF AT!IsUrc, AT!Owned
  <2>2. l.kind = "info" => l.of # pending.call
    BY <1>4, <2>1, ATAssumption DEF Response
  <2>3. timeouts = 0 => l.kind \in {"urc", "change"}
    BY <1>5, <2>1, <2>2
  <2>4. AT!HandlersGetUrcs'
    <3>1. Len(<<l>>) = 1 /\ <<l>>[1] = l
      OBVIOUS
    <3> QED
      BY <1>1, <1>2, <1>11, <2>3, <3>1 DEF AT!HandlersGetUrcs
  <2> QED
    BY <1>2, <1>8, <1>11, <2>1, <2>2, <2>4, DispatchedLine DEF l
<1>12. CASE /\ capture = AT!NoUrc /\ l.kind = "head" /\ capture' = l.of /\ UNCHANGED <<pending, dispatched>>
  <2>1. AT!HandlersGetUrcs'
    BY <1>1, <1>2, <1>12 DEF AT!HandlersGetUrcs
  <2>2. capture' \in Splits
    BY <1>4, <1>12
  <2> QED
    BY <1>2, <1>12, <2>1, <2>2, DispatchedLine DEF l
<1>13. CASE /\ capture = AT!NoUrc /\ ~AT!Owned(l) /\ ~AT!IsUrc(l) /\ l.kind # "head"
            /\ pending' = CASE l.kind = "prompt" /\ pending # AT!NoPending -> [pending EXCEPT !.prompt = TRUE]
                            [] l.kind \in {"ok", "error"} -> AT!Final(l)
                            [] OTHER -> AT!Add(l)
            /\ UNCHANGED <<capture, dispatched>>
  <2>1. AT!HandlersGetUrcs'
    BY <1>1, <1>2, <1>13 DEF AT!HandlersGetUrcs
  <2>2. CASE l.kind = "prompt" /\ pending # AT!NoPending
    <3>1. pending' = [pending EXCEPT !.prompt = TRUE]
      BY <1>13, <2>2
    <3> QED
      BY <1>2, <1>6, <1>13, <2>2, <3>1, PromptLine DEF l
  <2>3. CASE l.kind \in {"ok", "error"} /\ pending # AT!NoPending /\ pending.final = "none"
    <3>1. pending' = [pending EXCEPT !.final = l.kind, !.of = l.of]
      BY <1>13, <2>3 DEF AT!Final
    <3> QED
      BY <1>2, <1>6, <1>13, <2>3, <3>1, FinalLine DEF l, Finals
  <2>4. ASSUME pending' = pending, pending = AT!NoPending \/ (pending.final # "none" /\ l.kind # "prompt")
        PROVE  ATInv'
    <3>1. /\ pending' = [pending EXCEPT !.lines = pending'.lines] /\ pending'.lines = pending.lines
      BY <1>7, <2>4 DEF PendingRow
    <3>2. pending.call # "none" => pending.final # "none" /\ l.kind # "prompt"
      BY <1>6, <2>4
    <3> QED
      BY <1>2, <1>8, <1>13, <2>1, <2>4, <3>1, <3>2, PlainLine DEF l
  <2>5. CASE l.kind \in {"ok", "error"} /\ ~(pending # AT!NoPending /\ pending.final = "none")
    <3>1. pending' = pending
      BY <1>13, <2>5 DEF AT!Final
    <3> QED
      BY <2>4, <2>5, <3>1
  <2>6. CASE l.kind = "prompt" /\ pending = AT!NoPending
    <3>1. pending' = pending
      BY <1>13, <2>6 DEF AT!Add
    <3> QED
      BY <2>4, <2>6, <3>1
  <2>7. CASE l.kind \notin {"prompt", "ok", "error"}
    <3>1. pending' = AT!Add(l)
      BY <1>13, <2>7
    <3>2. CASE pending = AT!NoPending \/ pending.final # "none"
      <4>1. pending' = pending
        BY <3>1, <3>2 DEF AT!Add
      <4> QED
        BY <2>4, <2>7, <3>2, <4>1
    <3>3. CASE pending # AT!NoPending /\ pending.final = "none"
      <4>1. pending' = [pending EXCEPT !.lines = @ \cup {l}]
        BY <3>1, <3>3 DEF AT!Add
      <4>2. /\ pending' = [pending EXCEPT !.lines = pending'.lines]
            /\ pending'.lines = pending.lines \cup {l}
        BY <1>7, <4>1 DEF PendingRow
      <4>3. timeouts = 0 => l.kind = "payload"
        BY <1>4, <1>5, <1>13, <2>7, <3>3 DEF Kinds, AT!IsUrc, AT!Owned
      <4>4. l.kind \notin Finals /\ l.kind # "prompt" /\ pending.call # "none"
        BY <1>6, <2>7, <3>3 DEF Finals
      <4> QED
        BY <1>2, <1>8, <1>13, <2>1, <4>2, <4>3, <4>4, PlainLine DEF l
    <3> QED
      BY <3>2, <3>3
  <2> QED
    BY <2>2, <2>3, <2>5, <2>6, <2>7
<1> QED
  BY <1>3, <1>9, <1>10, <1>11, <1>12, <1>13 DEF AT!handle_line

(* client.py: each of the steps keeps the answers in their order.          *)
LEMMA ATStep == ATInv /\ [AT!Next]_(AT!atVars) => ATInv'
<1> SUFFICES ASSUME ATInv, [AT!Next]_(AT!atVars) PROVE ATInv'
  OBVIOUS
<1>1. CASE UNCHANGED AT!atVars
  <2>1. UNCHANGED <<call, waiting, pending, capture, port, wire, modem, toReport, got, dispatched, order, timeouts>>
    BY <1>1 DEF AT!atVars
  <2>2. ATTypes /\ OneCall /\ Whole /\ InTurn /\ Fresh /\ Given /\ Untimed /\ AT!OwnAnswer /\ AT!HandlersGetUrcs
    BY DEF ATInv
  <2>3. ATTypes'
    BY ONLY <2>1, <2>2 DEF ATTypes
  <2>4. OneCall' /\ Whole' /\ InTurn'
    BY ONLY <2>1, <2>2 DEF OneCall, Whole, InTurn
  <2>5. Fresh' /\ Given'
    BY ONLY <2>1, <2>2 DEF Fresh, Given, Stuck, Oldest
  <2>6. Untimed'
    BY ONLY <2>1, <2>2 DEF Untimed, Clean, Written, Info
  <2>7. AT!OwnAnswer' /\ AT!HandlersGetUrcs'
    BY ONLY <2>1, <2>2 DEF AT!OwnAnswer, AT!HandlersGetUrcs
  <2> QED
    BY ONLY <2>3, <2>4, <2>5, <2>6, <2>7 DEF ATInv
<1>2. CASE AT!Next
  BY <1>2, ExecuteKeeps, StartKeeps, PayloadKeeps, ResumeKeeps, LineKeeps, TimeoutKeeps, ModemKeeps, ReportKeeps,
     PortKeeps DEF AT!Next, AT!Client, AT!Waits
<1> QED
  BY <1>1, <1>2

(* The AT client: final lines come in the order of the commands, and none  *)
(* is older than by one command for each timeout.                          *)
THEOREM ATInvariance == AT!Spec => []ATInv
<1>1. AT!Init => ATInv
  BY ATStart
<1>2. ATInv /\ [AT!Next]_(AT!atVars) => ATInv'
  BY ATStep
<1> QED
  BY <1>1, <1>2, PTL DEF AT!Spec

(* client.py: the type invariant of the AT client; the call in flight is   *)
(* the one that is pending, and a call waits for the lock when it is in    *)
(* the queue of its waiters.                                               *)
THEOREM ATTypeCorrect == AT!Spec => []AT!TypeOK
<1>1. ATInv => AT!TypeOK
  <2> SUFFICES ASSUME ATInv PROVE AT!TypeOK
    OBVIOUS
  <2>1. ATTypes /\ OneCall
    BY DEF ATInv
  <2>2. (pending = AT!NoPending) <=> (pending.call = "none")
    BY <2>1, NonePending
  <2>3. pending.call \in Calls \cup {"none"} /\ DOMAIN waiting = 1 .. Len(waiting)
    BY <2>1 DEF ATTypes
  <2>4. /\ call \in [Calls -> {"new", "lock", "prompt", "wait", "ok", "error", "timeout", "lost", "closed"}]
        /\ waiting \in Seq(Calls) /\ capture \in Splits \cup {AT!NoUrc} /\ port \in {"open", "lost", "closed"}
        /\ timeouts \in 0 .. MaxTimeouts
    BY <2>1 DEF ATTypes, CallStates
  <2> QED
    BY <2>1, <2>2, <2>3, <2>4 DEF OneCall, AT!TypeOK
<1> QED
  BY <1>1, ATInvariance, PTL

(* client.py: without a timeout a call is given its own answer and         *)
(* handlers get URCs only; each timeout shifts the final lines by one      *)
(* command at most.                                                        *)
THEOREM ATIsSafe == AT!Spec => []ATSafe
<1>1. ATInv => ATSafe
  <2> SUFFICES ASSUME ATInv PROVE ATSafe
    OBVIOUS
  <2>1. ATTypes /\ OneCall /\ Given
    BY DEF ATInv
  <2>2. DOMAIN order = 1 .. Len(order) /\ \A n \in 1 .. Len(order) : order[n] \in Calls
    BY <2>1 DEF ATTypes
  <2>3. ASSUME NEW n \in 1 .. Len(order) PROVE AT!Place(order[n]) = n
    <3>1. \A m \in 1 .. Len(order) : order[m] = order[n] => m = n
      BY <2>1 DEF OneCall
    <3> QED
      BY <2>2, <3>1 DEF AT!Place
  <2>4. AT!BoundedLag
    <3> SUFFICES ASSUME NEW c \in Calls, AT!Done(c)
                 PROVE  /\ got[c].of \in Calls
                        /\ AT!Place(got[c].of) \in (AT!Place(c) - timeouts) .. AT!Place(c)
      BY DEF AT!BoundedLag
    <3>1. PICK k, n \in 1 .. Len(order) :
            order[n] = c /\ order[k] = got[c].of /\ n - timeouts <= k /\ k <= n
      BY <2>1 DEF Given, Finals, AT!Done
    <3>2. AT!Place(c) = n /\ AT!Place(got[c].of) = k
      BY <2>3, <3>1
    <3>3. timeouts \in Nat
      BY <2>1, ATNumbers
    <3>4. k \in (n - timeouts) .. n
      BY <3>1, <3>3
    <3> QED
      BY <2>2, <3>1, <3>2, <3>4
  <2> QED
    BY <2>4 DEF ATInv, ATSafe
<1> QED
  BY <1>1, ATInvariance, PTL

-----------------------------------------------------------------------------
(* The packet-data policy                                                  *)

(* What the worker knows of the module is a record of three readings.      *)
DataTypes ==
    /\ allowed \in BOOLEAN /\ roamingOk \in BOOLEAN /\ attached \in BOOLEAN
    /\ pdp \in BOOLEAN /\ dataEnabled \in BOOLEAN
    /\ network \in {"home", "roaming", "none"}
    /\ state \in [net : {"home", "roaming", "none", "unknown"},
                  att : {"yes", "no", "unknown"}, pdp : {"yes", "no", "unknown"}]
    /\ at \in [Data!Coroutines -> Data!Places]
    /\ forced \in [Data!Coroutines -> BOOLEAN]

(* A coroutine moves on to one of its places.                              *)
LEMMA MovesOn ==
    ASSUME DataTypes, NEW p \in Data!Coroutines, NEW place \in Data!Places, Data!To(p, place)
    PROVE  at' \in [Data!Coroutines -> Data!Places]
BY DEF DataTypes, Data!To

(* A coroutine is called with or without force.                            *)
LEMMA Forced ==
    ASSUME DataTypes, NEW p \in Data!Coroutines, NEW b \in BOOLEAN
    PROVE  [forced EXCEPT ![p] = b] \in [Data!Coroutines -> BOOLEAN]
BY DEF DataTypes

(* Each step of a coroutine keeps the types.                               *)
LEMMA CoroutineTypes ==
    ASSUME DataTypes, NEW p \in Data!Coroutines, Data!Goes(p)
    PROVE  DataTypes'
<1>1. \A place \in Data!Places : Data!To(p, place) => at' \in [Data!Coroutines -> Data!Places]
  BY MovesOn
<1>2. {"idle", "registration", "status", "decide", "deactivate", "attach", "again", "confirm", "on"}
        = Data!Places
  BY DEF Data!Places
<1>3. Data!Read(TRUE) = "yes" /\ Data!Read(FALSE) = "no"
  BY DEF Data!Read
<1>4. CASE Data!read_registration(p)
  <2>1. PICK failed \in BOOLEAN : state' = [state EXCEPT !.net = Data!Registration(failed)]
    BY <1>4 DEF Data!read_registration
  <2>2. Data!Registration(failed) \in {"home", "roaming", "none", "unknown"}
    BY DEF DataTypes, Data!Registration
  <2>3. at' \in [Data!Coroutines -> Data!Places]
    BY <1>1, <1>2, <1>4 DEF Data!read_registration
  <2> QED
    BY <1>4, <2>1, <2>2, <2>3 DEF DataTypes, Data!read_registration, Data!truth
<1>5. CASE Data!read_data_status(p)
  <2>1. at' \in [Data!Coroutines -> Data!Places]
    BY <1>1, <1>2, <1>5 DEF Data!read_data_status
  <2>2. \/ state' = [state EXCEPT !.att = Data!Read(attached), !.pdp = Data!Read(pdp)]
        \/ state' = [state EXCEPT !.att = "unknown", !.pdp = "unknown"]
    BY <1>5 DEF Data!read_data_status
  <2> QED
    BY <1>3, <1>5, <2>1, <2>2 DEF DataTypes, Data!read_data_status, Data!truth
<1>6. CASE Data!_enforce_data_policy(p)
  <2>1. \E place \in Data!Places : Data!To(p, place)
    BY <1>2, <1>6 DEF Data!_enforce_data_policy
  <2>2. dataEnabled' \in BOOLEAN
    BY <1>6 DEF Data!_enforce_data_policy
  <2> QED
    BY <1>1, <1>6, <2>1, <2>2 DEF DataTypes, Data!_enforce_data_policy, Data!truth
<1>7. CASE Data!attach_allowed(p)
  <2>1. at' \in [Data!Coroutines -> Data!Places]
    BY <1>1, <1>2, <1>7 DEF Data!attach_allowed
  <2>2. attached' \in BOOLEAN /\ pdp' \in BOOLEAN /\ dataEnabled' \in BOOLEAN
    BY <1>7 DEF Data!attach_allowed, DataTypes
  <2>3. state' = [state EXCEPT !.att = Data!Read(attached'), !.pdp = Data!Read(pdp')]
    BY <1>7 DEF Data!attach_allowed
  <2> QED
    BY <1>3, <1>7, <2>1, <2>2, <2>3 DEF DataTypes, Data!attach_allowed
<1>8. CASE Data!deactivate(p)
  <2>1. \E place \in Data!Places : Data!To(p, place)
    BY <1>2, <1>8 DEF Data!deactivate
  <2>2. pdp' \in BOOLEAN
    BY <1>8 DEF Data!deactivate, DataTypes
  <2> QED
    BY <1>1, <1>8, <2>1, <2>2 DEF DataTypes, Data!deactivate
<1>9. CASE Data!reattach(p)
  <2>1. \E place \in Data!Places : Data!To(p, place)
    BY <1>2, <1>9 DEF Data!reattach
  <2>2. attached' \in BOOLEAN /\ pdp' \in BOOLEAN
    BY <1>9 DEF Data!reattach, DataTypes
  <2> QED
    BY <1>1, <1>9, <2>1, <2>2 DEF DataTypes, Data!reattach
<1>10. CASE Data!confirm(p)
  <2>1. \E place \in Data!Places : Data!To(p, place)
    BY <1>2, <1>10 DEF Data!confirm
  <2>2. forced' \in [Data!Coroutines -> BOOLEAN]
    BY <1>10 DEF Data!confirm, DataTypes
  <2>3. state' = [state EXCEPT !.att = Data!Read(attached), !.pdp = Data!Read(pdp)]
    BY <1>10 DEF Data!confirm
  <2> QED
    BY <1>1, <1>3, <1>10, <2>1, <2>2, <2>3 DEF DataTypes, Data!confirm, Data!truth
<1> QED
  BY <1>4, <1>5, <1>6, <1>7, <1>8, <1>9, <1>10 DEF Data!Goes

(* The types are inductive.                                                *)
LEMMA DataTypesKept == ASSUME DataTypes, [Data!Next]_(Data!dataVars) PROVE DataTypes'
<1>1. {"sample", "command"} = Data!Coroutines /\ "registration" \in Data!Places
  BY DEF Data!Coroutines, Data!Places
<1>2. CASE Data!_sample_status
  <2>1. at' \in [Data!Coroutines -> Data!Places]
    BY <1>1, <1>2, MovesOn DEF Data!_sample_status
  <2>2. forced' \in [Data!Coroutines -> BOOLEAN]
    BY <1>1, <1>2, Forced DEF Data!_sample_status
  <2> QED
    BY <1>2, <2>1, <2>2 DEF DataTypes, Data!_sample_status, Data!truth
<1>3. ASSUME NEW on \in BOOLEAN, Data!set_data_enabled(on) PROVE DataTypes'
  <2>1. at' \in [Data!Coroutines -> Data!Places]
    BY <1>1, <1>3, MovesOn DEF Data!set_data_enabled
  <2>2. forced' \in [Data!Coroutines -> BOOLEAN]
    BY <1>1, <1>3, Forced DEF Data!set_data_enabled
  <2> QED
    BY <1>3, <2>1, <2>2 DEF DataTypes, Data!set_data_enabled, Data!truth
<1>4. ASSUME NEW on \in BOOLEAN, Data!set_roaming_data_allowed(on) PROVE DataTypes'
  <2>1. at' \in [Data!Coroutines -> Data!Places]
    BY <1>1, <1>4, MovesOn DEF Data!set_roaming_data_allowed
  <2>2. forced' \in [Data!Coroutines -> BOOLEAN]
    BY <1>1, <1>4, Forced DEF Data!set_roaming_data_allowed
  <2> QED
    BY <1>4, <2>1, <2>2 DEF DataTypes, Data!set_roaming_data_allowed, Data!truth
<1>5. ASSUME NEW to \in {"home", "roaming", "none"}, Data!network_moves(to) PROVE DataTypes'
  BY <1>5 DEF DataTypes, Data!network_moves
<1>6. CASE Data!host_activates
  BY <1>6 DEF DataTypes, Data!host_activates
<1>7. CASE UNCHANGED Data!dataVars
  BY <1>7 DEF DataTypes, Data!dataVars
<1> QED
  BY <1>2, <1>3, <1>4, <1>5, <1>6, <1>7, CoroutineTypes DEF Data!Next

(* worker.py, modem.py: the worker's readings and the places of its        *)
(* coroutines stay what their types say.                                   *)
THEOREM DataTypeCorrect == Data!Spec => []Data!TypeOK
<1>1. Data!Init => DataTypes
  <2> SUFFICES ASSUME Data!Init PROVE DataTypes
    OBVIOUS
  <2>1. forced \in [Data!Coroutines -> BOOLEAN]
    <3>1. \A p \in Data!Coroutines : (p = "sample") \in BOOLEAN
      OBVIOUS
    <3> QED
      BY <3>1, Zenon DEF Data!Init
  <2>2. at \in [Data!Coroutines -> Data!Places]
    BY DEF Data!Init, Data!Places
  <2> QED
    BY <2>1, <2>2 DEF Data!Init, DataTypes
<1>2. DataTypes => Data!TypeOK
  BY DEF DataTypes, Data!TypeOK
<1> QED
  BY <1>1, <1>2, DataTypesKept, PTL DEF Data!Spec

-----------------------------------------------------------------------------
(* The parts together                                                      *)

(* A behaviour of the five is one of each: only one of them moves, and the *)
(* others stand still.                                                     *)
LEMMA Parted == AgentSpec => AT!Spec /\ Spec /\ Data!Spec /\ Find!Spec
<1>1. AgentInit => AT!Init /\ Init /\ Data!Init /\ Find!Init
  BY DEF AgentInit
<1>2. ASSUME [AgentNext]_agentVars
      PROVE  /\ [AT!Next]_(AT!atVars) /\ [Next]_inboxVars
             /\ [Data!Next]_(Data!dataVars) /\ [Find!Next]_(Find!discVars)
  <2>1. /\ UNCHANGED atVars => UNCHANGED AT!atVars
        /\ UNCHANGED dataVars => UNCHANGED Data!dataVars
        /\ UNCHANGED findVars => UNCHANGED Find!discVars
    BY DEF atVars, dataVars, findVars, AT!atVars, Data!dataVars, Find!discVars
  <2>2. UNCHANGED agentVars => UNCHANGED <<atVars, inboxVars, dataVars, findVars>>
    BY DEF agentVars
  <2> QED
    BY <1>2, <2>1, <2>2 DEF AgentNext
<1> QED
  BY <1>1, <1>2, PTL DEF AgentSpec, Spec, AT!Spec, Data!Spec, Find!Spec

(* client.py, modem.py, worker.py, discovery.py: every part of the agent   *)
(* keeps its types, whichever of them moves.                               *)
THEOREM AgentTypesKept == AgentSpec => []AgentTypeOK
<1>1. AT!TypeOK /\ TypeOK /\ Data!TypeOK /\ Find!TypeOK => AgentTypeOK
  BY DEF AgentTypeOK
<1> QED
  BY <1>1, Parted, ATTypeCorrect, TypeCorrect, DataTypeCorrect, FindTypeCorrect, PTL

(* client.py, discovery.py, modem.py: what each part promises holds of the *)
(* agent that is made of them.                                             *)
THEOREM AgentIsSafe == AgentSpec => [](ATSafe /\ DiscoverySafe /\ InboxSafe)
BY Parted, ATIsSafe, DiscoveryIsSafe, InboxIsSafe, PTL
=============================================================================
