------------------------- MODULE EventStream_proofs -------------------------
(***************************************************************************)
(* Theorems about EventStream for every batch size, queue bound, number of *)
(* events, store replacement and wire capacity.  The argument: an event    *)
(* leaves the queue only through a cumulative ack, an ack names an event   *)
(* the hub took off the wire, and whatever precedes an event on the wire   *)
(* was committed or travels before it (UpGap).  UpGap survives because the *)
(* sender's marker never passes an event that was not written (SenderGap). *)
(***************************************************************************)
EXTENDS EventStream, TLAPS, WellFoundedInduction, FiniteSetTheorems

\* A non-empty set of numbers has a least element and Least returns it.
LEMMA LeastOfNats ==
    ASSUME NEW S, S \subseteq Nat, S # {}
    PROVE  Least(S) \in S /\ \A t \in S : Least(S) <= t
<1> DEFINE LT == {ss \in Nat \X Nat : ss[1] < ss[2]}
<1>1. \E x \in S : \A y \in S : ~(<<y, x>> \in OpToRel(<, Nat))
  BY NatLessThanWellFounded, WFMin
<1>2. OpToRel(<, Nat) = LT
  BY Zenon DEF OpToRel
<1>3. PICK x \in S : \A y \in S : <<y, x>> \notin LT
  BY <1>1, <1>2, Zenon
<1>4. \A y \in S : x <= y
  <2> TAKE y \in S
  <2>1. x \in Nat /\ y \in Nat
    OBVIOUS
  <2>2. <<y, x>> \notin LT
    BY <1>3
  <2> HIDE DEF LT
  <2>3. \A a, b \in Nat : a < b => <<a, b>> \in LT
    BY DEF LT
  <2> QED BY <2>1, <2>2, <2>3
<1> QED BY <1>4 DEF Least

\* ORDER BY seq LIMIT n returns rows of the table.
LEMMA OldestIsSubset ==
    ASSUME NEW S, NEW n
    PROVE  Oldest(S, n) \subseteq S
  BY DEF Oldest

\* ORDER BY seq LIMIT n returns a prefix: a row smaller than a returned one
\* is returned too.
LEMMA OldestIsPrefix ==
    ASSUME NEW m \in Nat, NEW S \in SUBSET (1..m), NEW n \in Int,
           NEW s \in Oldest(S, n), NEW t \in S, t < s
    PROVE  t \in Oldest(S, n)
<1> DEFINE B(x) == {u \in S : u < x}
<1>1. IsFiniteSet(S)
  <2>1. IsFiniteSet(1..m)
    BY FS_Interval
  <2> QED BY <2>1, FS_Subset
<1>2. s \in S
  BY DEF Oldest
<1>3. B(t) \subseteq B(s) /\ B(s) \subseteq S
  <2>1. s \in Int /\ t \in Int /\ \A u \in S : u \in Int
    BY <1>2
  <2>2. \A u \in S : u < t => u < s
    BY <2>1
  <2> QED BY <2>2
<1>4. IsFiniteSet(B(s)) /\ IsFiniteSet(B(t))
  BY <1>1, <1>3, FS_Subset
<1>5. Cardinality(B(t)) <= Cardinality(B(s))
  BY <1>3, <1>4, FS_Subset
<1>6. Cardinality(B(t)) \in Nat /\ Cardinality(B(s)) \in Nat
  BY <1>4, FS_CardinalityType
<1>7. Cardinality(B(s)) < n
  BY DEF Oldest
<1> QED BY <1>5, <1>6, <1>7 DEF Oldest

-----------------------------------------------------------------------------
(* Type correctness *)

\* The part of a sender's turn that the type invariant speaks of.
LEMMA SenderQueryType ==
    ASSUME TypeOK, sender_query
    PROVE  TypeOK'
<1> USE EventStreamAssumption DEF TypeOK
<1> DEFINE events == {s \in Oldest(queue, Batch) : s > sentThrough}
<1>1. events \subseteq queue
  BY OldestIsSubset
<1> HIDE DEF events
<1>2. events \subseteq 1..MaxSeq /\ events \subseteq Nat
  BY <1>1 DEF TypeStore
<1>3. events # {} => Least(events) \in 1..MaxSeq
  BY <1>2, LeastOfNats
<1>4. TypeStore'
  BY DEF sender_query, storeVars, TypeStore
<1>5. TypeFlags'
  BY DEF sender_query, TypeFlags
<1>6. TypeSender'
  <2>1. batch' = events /\ sentThrough' = sentThrough
    BY DEF sender_query, events
  <2> QED BY <1>2, <2>1 DEF TypeSender
<1>7. TypeWire'
  <2>1. down' = down /\ (up' = up \/ (events # {} /\ up' = Append(up, Least(events))))
    BY DEF sender_query, events, Written
  <2>2. \A e \in 1..MaxSeq : Append(up, e) \in Seq(1..MaxSeq)
    BY DEF TypeWire
  <2> QED BY <1>3, <2>1, <2>2 DEF TypeWire
<1>8. TypeHub'
  BY DEF sender_query, hubVars, TypeHub
<1> QED BY <1>4, <1>5, <1>6, <1>7, <1>8

\* Every variable keeps its range under every step.
LEMMA TypeInductive ==
    ASSUME TypeOK, [Next]_vars
    PROVE  TypeOK'
<1> USE EventStreamAssumption DEF TypeOK, storeVars, senderVars, hubVars
<1>1. ASSUME NEW kind \in {"status", "sms"}, emit(kind) PROVE TypeOK'
  <2>1. TypeStore'
    <3>1. lastSeq' \in 0..MaxSeq /\ lastSeq + 1 \in 1..MaxSeq /\ stream' = stream
      BY <1>1 DEF emit, TypeStore
    <3>2. status' \subseteq status \cup {lastSeq + 1}
      BY <1>1 DEF emit
    <3>3. queue' \subseteq queue \cup {lastSeq + 1}
      BY <1>1 DEF emit
    <3> QED BY <3>1, <3>2, <3>3 DEF TypeStore
  <2>2. TypeFlags'
    BY <1>1 DEF emit, TypeFlags
  <2>3. TypeSender'
    BY <1>1 DEF emit, TypeSender
  <2>4. TypeWire'
    BY <1>1 DEF emit, TypeWire
  <2>5. TypeHub'
    BY <1>1 DEF emit, TypeHub
  <2> QED BY <2>1, <2>2, <2>3, <2>4, <2>5
<1>2. CASE append_receipt
  <2>1. TypeStore'
    BY <1>2 DEF append_receipt, TypeStore
  <2>2. TypeFlags'
    BY <1>2 DEF append_receipt, TypeFlags
  <2>3. TypeSender'
    BY <1>2 DEF append_receipt, TypeSender
  <2>4. TypeWire'
    BY <1>2 DEF append_receipt, TypeWire
  <2>5. TypeHub'
    BY <1>2 DEF append_receipt, TypeHub
  <2> QED BY <2>1, <2>2, <2>3, <2>4, <2>5
<1>3. CASE rebuild_store
  <2>1. TypeStore'
    BY <1>3 DEF rebuild_store, TypeStore
  <2>2. TypeFlags'
    BY <1>3 DEF rebuild_store, TypeFlags
  <2>3. TypeSender'
    BY <1>3 DEF rebuild_store, TypeSender
  <2>4. TypeWire'
    BY <1>3 DEF rebuild_store, TypeWire
  <2>5. TypeHub'
    BY <1>3 DEF rebuild_store, TypeHub
  <2> QED BY <2>1, <2>2, <2>3, <2>4, <2>5
<1>4. CASE connect_once
  <2>1. TypeStore'
    BY <1>4 DEF connect_once, TypeStore
  <2>2. TypeFlags'
    BY <1>4 DEF connect_once, TypeFlags
  <2>3. TypeSender'
    BY <1>4 DEF connect_once, TypeSender
  <2>4. TypeWire'
    BY <1>4 DEF connect_once, TypeWire
  <2>5. TypeHub'
    BY <1>4 DEF connect_once, TypeHub, TypeStore
  <2> QED BY <2>1, <2>2, <2>3, <2>4, <2>5
<1>5. CASE sender_turn
  BY <1>5, SenderQueryType DEF sender_turn
<1>6. CASE sender_timeout
  BY <1>6, SenderQueryType DEF sender_timeout
<1>7. CASE sender_next
  <2>6. Least(batch) \in 1..MaxSeq
    <3>1. batch \subseteq 1..MaxSeq /\ batch \subseteq Nat /\ batch # {}
      BY <1>7 DEF sender_next, TypeSender
    <3> QED BY <3>1, LeastOfNats
  <2>7. batch' \subseteq 1..MaxSeq /\ batch' \subseteq Nat
    <3>1. batch' \subseteq batch
      BY <1>7 DEF sender_next
    <3> QED BY <3>1 DEF TypeSender
  <2>8. batch' # {} => Least(batch') \in 1..MaxSeq
    BY <2>7, LeastOfNats
  <2>1. TypeStore'
    BY <1>7 DEF sender_next, TypeStore
  <2>2. TypeFlags'
    BY <1>7 DEF sender_next, TypeFlags
  <2>3. TypeSender'
    BY <1>7, <2>6, <2>7 DEF sender_next, TypeSender
  <2>4. TypeWire'
    <3>1. down' = down /\ (up' = up \/ (batch' # {} /\ up' = Append(up, Least(batch'))))
      BY <1>7 DEF sender_next, Written
    <3>2. \A e \in 1..MaxSeq : Append(up, e) \in Seq(1..MaxSeq)
      BY DEF TypeWire
    <3> QED BY <2>8, <3>1, <3>2 DEF TypeWire
  <2>5. TypeHub'
    BY <1>7 DEF sender_next, TypeHub
  <2> QED BY <2>1, <2>2, <2>3, <2>4, <2>5
<1>8. CASE handle_ack
  <2>1. TypeStore'
    BY <1>8 DEF handle_ack, TypeStore
  <2>2. TypeFlags'
    BY <1>8 DEF handle_ack, TypeFlags
  <2>3. TypeSender'
    BY <1>8 DEF handle_ack, TypeSender, TypeWire, Ack, Resend
  <2>4. TypeWire'
    BY <1>8 DEF handle_ack, TypeWire
  <2>5. TypeHub'
    BY <1>8 DEF handle_ack, TypeHub
  <2> QED BY <2>1, <2>2, <2>3, <2>4, <2>5
<1>9. CASE handle_resend
  <2>1. TypeStore'
    BY <1>9 DEF handle_resend, TypeStore
  <2>2. TypeFlags'
    BY <1>9 DEF handle_resend, TypeFlags
  <2>3. TypeSender'
    BY <1>9 DEF handle_resend, TypeSender, TypeWire, Ack, Resend
  <2>4. TypeWire'
    BY <1>9 DEF handle_resend, TypeWire
  <2>5. TypeHub'
    BY <1>9 DEF handle_resend, TypeHub
  <2> QED BY <2>1, <2>2, <2>3, <2>4, <2>5
<1>10. CASE link_lost
  <2>1. TypeStore'
    BY <1>10 DEF link_lost, TypeStore
  <2>2. TypeFlags'
    BY <1>10 DEF link_lost, TypeFlags
  <2>3. TypeSender'
    BY <1>10 DEF link_lost, TypeSender
  <2>4. TypeWire'
    BY <1>10 DEF link_lost, TypeWire
  <2>5. TypeHub'
    BY <1>10 DEF link_lost, TypeHub
  <2> QED BY <2>1, <2>2, <2>3, <2>4, <2>5
<1>11. CASE register
  <2>1. TypeStore'
    BY <1>11 DEF register, TypeStore
  <2>2. TypeFlags'
    BY <1>11 DEF register, TypeFlags
  <2>3. TypeSender'
    BY <1>11 DEF register, TypeSender
  <2>4. TypeWire'
    BY <1>11 DEF register, TypeWire
  <2>5. TypeHub'
    BY <1>11 DEF register, TypeHub
  <2> QED BY <2>1, <2>2, <2>3, <2>4, <2>5
<1>12. CASE apply_event
  <2>1. TypeStore'
    BY <1>12 DEF apply_event, TypeStore
  <2>2. TypeFlags'
    BY <1>12 DEF apply_event, TypeFlags
  <2>3. TypeSender'
    BY <1>12 DEF apply_event, TypeSender
  <2>4. TypeWire'
    BY <1>12 DEF apply_event, TypeWire
  <2>5. TypeHub'
    <3> DEFINE e == <<connStream, Head(up)>>
    <3>1. e \in (0..MaxStream) \X (1..MaxSeq) /\ Head(up) \in 1..MaxSeq
      BY <1>12 DEF apply_event, TypeHub, TypeWire
    <3>2. /\ ingested' = ingested \cup {e} /\ acking' = Head(up)
          /\ mirror' = mirror \/ mirror' = Append(mirror, e)
          /\ conn' = conn /\ connStream' = connStream
      BY <1>12 DEF apply_event
    <3> HIDE DEF e
    <3>3. ingested' \subseteq (0..MaxStream) \X (1..MaxSeq)
      BY <3>1, <3>2 DEF TypeHub
    <3>4. mirror' \in Seq((0..MaxStream) \X (1..MaxSeq))
      <4> DEFINE T == (0..MaxStream) \X (1..MaxSeq)
      <4>1. e \in T /\ mirror \in Seq(T)
        BY <3>1 DEF TypeHub
      <4> HIDE DEF T
      <4>2. Append(mirror, e) \in Seq(T)
        BY <4>1
      <4>3. mirror' \in Seq(T)
        BY <3>2, <4>1, <4>2, Zenon
      <4> QED BY <4>3 DEF T
    <3>5. acking' \in 0..MaxSeq
      BY <3>1, <3>2
    <3> QED BY <3>2, <3>3, <3>4, <3>5 DEF TypeHub
  <2> QED BY <2>1, <2>2, <2>3, <2>4, <2>5
<1>13. CASE send_ack
  <2>1. TypeStore'
    BY <1>13 DEF send_ack, TypeStore
  <2>2. TypeFlags'
    BY <1>13 DEF send_ack, TypeFlags
  <2>3. TypeSender'
    BY <1>13 DEF send_ack, TypeSender
  <2>4. TypeWire'
    <3>1. acking # 0 => [type |-> "ack", seq |-> acking] \in Ack \cup Resend
      BY DEF TypeHub, Ack
    <3> QED BY <1>13, <3>1 DEF send_ack, TypeWire
  <2>5. TypeHub'
    BY <1>13 DEF send_ack, TypeHub
  <2> QED BY <2>1, <2>2, <2>3, <2>4, <2>5
<1>14. CASE unregister
  <2>1. TypeStore'
    BY <1>14 DEF unregister, TypeStore
  <2>2. TypeFlags'
    BY <1>14 DEF unregister, TypeFlags
  <2>3. TypeSender'
    BY <1>14 DEF unregister, TypeSender
  <2>4. TypeWire'
    BY <1>14 DEF unregister, TypeWire
  <2>5. TypeHub'
    BY <1>14 DEF unregister, TypeHub
  <2> QED BY <2>1, <2>2, <2>3, <2>4, <2>5
<1>15. ASSUME NEW s \in 1..MaxSeq, request_resend(s) PROVE TypeOK'
  <2>1. TypeStore'
    BY <1>15 DEF request_resend, TypeStore
  <2>2. TypeFlags'
    BY <1>15 DEF request_resend, TypeFlags
  <2>3. TypeSender'
    BY <1>15 DEF request_resend, TypeSender
  <2>4. TypeWire'
    BY <1>15 DEF request_resend, TypeWire, Ack, Resend
  <2>5. TypeHub'
    BY <1>15 DEF request_resend, TypeHub
  <2> QED BY <2>1, <2>2, <2>3, <2>4, <2>5
<1>16. CASE UNCHANGED vars
  BY <1>16 DEF vars, TypeStore, TypeFlags, TypeSender, TypeWire, TypeHub
<1> QED BY <1>1, <1>2, <1>3, <1>4, <1>5, <1>6, <1>7, <1>8, <1>9, <1>10,
           <1>11, <1>12, <1>13, <1>14, <1>15, <1>16 DEF Next

\* The initial state is well typed.
LEMMA TypeInitial ==
    ASSUME Init
    PROVE  TypeOK
<1> USE EventStreamAssumption DEF Init
<1>1. TypeStore
  BY DEF TypeStore
<1>2. TypeFlags
  BY DEF TypeFlags
<1>3. TypeSender
  BY DEF TypeSender
<1>4. TypeWire
  BY DEF TypeWire
<1>5. TypeHub
  BY DEF TypeHub
<1> QED BY <1>1, <1>2, <1>3, <1>4, <1>5 DEF TypeOK

\* Every reachable state is well typed.
THEOREM TypeCorrect == Spec => []TypeOK
  BY TypeInitial, TypeInductive, PTL DEF Spec

-----------------------------------------------------------------------------
(***************************************************************************)
(* The inductive invariant.  One lemma per action shows that IInv survives *)
(* it; the frames the hub sends share DownStep, the agent's share WriteStep.*)
(***************************************************************************)

\* The elements of the sets and sequences are numbers.
LEMMA Numbers ==
    ASSUME TypeOK
    PROVE  /\ \A y \in queue : y \in 1..MaxSeq
           /\ \A y \in batch : y \in 1..MaxSeq
           /\ \A y \in status : y \in 1..MaxSeq
           /\ \A i \in 1..Len(up) : up[i] \in 1..MaxSeq
           /\ \A i \in 1..Len(down) : down[i].seq \in 1..MaxSeq
           /\ lastSeq \in 0..MaxSeq /\ sentThrough \in 0..MaxSeq /\ acking \in 0..MaxSeq
           /\ stream \in 0..MaxStream /\ connStream \in 0..MaxStream
           /\ Len(up) \in Nat /\ Len(down) \in Nat
<1>1. /\ \A y \in queue : y \in 1..MaxSeq
      /\ \A y \in status : y \in 1..MaxSeq
      /\ lastSeq \in 0..MaxSeq /\ stream \in 0..MaxStream
  BY DEF TypeOK, TypeStore
<1>2. (\A y \in batch : y \in 1..MaxSeq) /\ sentThrough \in 0..MaxSeq
  BY DEF TypeOK, TypeSender
<1>0. \A S : \A s \in Seq(S) : Len(s) \in Nat /\ \A i \in 1..Len(s) : s[i] \in S
  OBVIOUS
<1>3. Len(up) \in Nat /\ \A i \in 1..Len(up) : up[i] \in 1..MaxSeq
  BY <1>0, Zenon DEF TypeOK, TypeWire
<1>4. Len(down) \in Nat /\ \A i \in 1..Len(down) : down[i] \in Ack \cup Resend
  BY <1>0, Zenon DEF TypeOK, TypeWire
<1>5. \A i \in 1..Len(down) : down[i].seq \in 1..MaxSeq
  BY <1>4 DEF Ack, Resend
<1>6. acking \in 0..MaxSeq /\ connStream \in 0..MaxStream
  BY DEF TypeOK, TypeHub
<1> QED BY <1>1, <1>2, <1>3, <1>4, <1>5, <1>6

\* A step that appends one event to the log, trimming others or not.
LEMMA AppendStep ==
    ASSUME IInv, TypeOK',
           UNCHANGED <<stream, senderVars, up, down, hubVars>>,
           lastSeq' = lastSeq + 1,
           \A y \in queue' : y \in queue \/ y = lastSeq + 1,
           \A y \in status' : y \in status \/ y = lastSeq + 1
    PROVE  Gaps' /\ ExactlyOnce' /\ InOrder'
<1> USE EventStreamAssumption DEF senderVars, hubVars
<1>n. lastSeq \in Nat /\ lastSeq + 1 \in Nat /\ lastSeq < lastSeq + 1
  BY Numbers DEF IInv
<1>a. /\ \A st, y : Committed(st, y)' <=> Committed(st, y)
      /\ \A y : OnWire(y)' <=> OnWire(y)
      /\ \A y : Reached(y)' <=> Reached(y)
      /\ \A st, y : CanArrive(st, y)' => CanArrive(st, y) \/ (st = stream /\ y = lastSeq + 1)
  BY DEF Committed, OnWire, Reached, CanArrive
<1>1. Ends'
  BY DEF IInv, Gaps, Ends
<1>2. Issued'
  <2>1. TypeOK /\ Issued
    BY DEF IInv, Gaps
  <2>2. \A y \in Int : y <= lastSeq => y <= lastSeq'
    BY <1>n
  <2>3. \A y \in queue' : y <= lastSeq'
    <3> TAKE y \in queue'
    <3>1. CASE y \in queue
      BY <2>1, <2>2, <3>1, Numbers DEF Issued
    <3>2. CASE y = lastSeq + 1
      BY <1>n, <3>2
    <3> QED BY <3>1, <3>2
  <2>7. \A y \in batch' : y <= lastSeq'
    BY <1>n, <2>1, <2>2, Numbers DEF Issued
  <2>8. \A y \in status' : y <= lastSeq'
    <3> TAKE y \in status'
    <3>1. CASE y \in status
      BY <2>1, <2>2, <3>1, Numbers DEF Issued
    <3>2. CASE y = lastSeq + 1
      BY <1>n, <3>2
    <3> QED BY <3>1, <3>2
  <2>4. \A st \in 0..MaxStream, y \in 1..MaxSeq :
           Committed(st, y)' => st < stream' \/ (st = stream' /\ y <= lastSeq')
    BY <1>a, <2>1, <2>2 DEF Issued
  <2>5. /\ connected' => sentThrough' <= lastSeq'
        /\ connStream' = stream' => acking' <= lastSeq'
    BY <2>1, <2>2, Numbers DEF Issued
  <2>6. /\ connStream' = stream' => \A i \in 1..Len(up') : up'[i] <= lastSeq'
        /\ \A i \in 1..Len(down') : down'[i].seq <= lastSeq'
    BY <2>1, <2>2, Numbers DEF Issued
  <2> QED BY <2>3, <2>4, <2>5, <2>6, <2>7, <2>8 DEF Issued
<1>3. IngestPrefix'
  BY <1>a, <1>n, Numbers DEF IInv, Gaps, IngestPrefix, Issued
<1>4. UpGap'
  <2>1. UpGap /\ TypeOK /\ Issued
    BY DEF IInv, Gaps
  <2> SUFFICES ASSUME NEW i \in 1..Len(up), NEW y \in 1..MaxSeq,
                      CanArrive(connStream, y)', y < up[i]
               PROVE  Committed(connStream, y) \/ \E j \in 1..(i - 1) : up[j] = y
    BY <1>a DEF UpGap
  <2>2. up[i] \in Nat /\ (connStream = stream => up[i] <= lastSeq)
    BY <2>1, Numbers DEF Issued
  <2>3. CanArrive(connStream, y)
    BY <1>a, <1>n, <2>2
  <2> QED BY <2>1, <2>3 DEF UpGap
<1>5. SenderGap'
  BY <1>a, <1>n, Numbers DEF IInv, Gaps, SenderGap, Issued
<1>6. AckGap'
  BY <1>a, <1>n, Numbers DEF IInv, Gaps, AckGap, Issued
<1>7. DownGap'
  BY <1>a, <1>n, Numbers DEF IInv, Gaps, DownGap, Issued, Bound
<1>8. ExactlyOnce' /\ InOrder'
  BY DEF IInv, ExactlyOnce, InOrder
<1> QED BY <1>1, <1>2, <1>3, <1>4, <1>5, <1>6, <1>7, <1>8 DEF Gaps

\* What the agent commits it keeps, but for status samples.
LEMMA EmitStep ==
    ASSUME IInv, TypeOK', NEW kind \in {"status", "sms"}, emit(kind)
    PROVE  IInv'
<1> DEFINE rows == queue \cup {lastSeq + 1}
<1> DEFINE gone == trim_events(rows, status')
<1>1. gone \subseteq status'
  BY OldestIsSubset DEF trim_events
<1>2. queue' = rows \ gone
  BY DEF emit
<1> HIDE DEF gone
<1>3. lastSeq' = lastSeq + 1 /\ stream' = stream /\ ingested' = ingested
  BY DEF emit, hubVars
<1>4. \A y \in status' : y \in status \/ y = lastSeq + 1
  BY DEF emit
<1>5. status \subseteq status'
  BY DEF emit
<1>6. NoLoss'
  <2>1. \A y \in 1..lastSeq' : y \in 1..lastSeq \/ y = lastSeq + 1
    BY <1>3, Numbers, EventStreamAssumption DEF IInv
  <2>2. IngestedOf(stream)' = IngestedOf(stream)
    BY <1>3 DEF IngestedOf
  <2>3. \A y \in rows : y \notin status' => y \in queue'
    BY <1>1, <1>2
  <2>4. \A y \in 1..lastSeq : y \notin status => y \in queue \/ y \in IngestedOf(stream)
    BY DEF IInv, NoLoss
  <2> QED BY <1>5, <2>1, <2>2, <2>3, <2>4 DEF NoLoss
<1>7. Gaps' /\ ExactlyOnce' /\ InOrder'
  <2>1. UNCHANGED <<stream, senderVars, up, down, hubVars>>
    BY DEF emit
  <2>2. \A y \in queue' : y \in queue \/ y = lastSeq + 1
    BY <1>2
  <2> QED BY <1>3, <1>4, <2>1, <2>2, AppendStep
<1> QED BY <1>6, <1>7 DEF IInv

\* A receipt is kept.
LEMMA ReceiptStep ==
    ASSUME IInv, TypeOK', append_receipt
    PROVE  IInv'
<1>1. lastSeq' = lastSeq + 1 /\ stream' = stream /\ ingested' = ingested
      /\ status' = status /\ queue' = queue \cup {lastSeq + 1}
  BY DEF append_receipt, hubVars
<1>2. NoLoss'
  <2>1. \A y \in 1..lastSeq' : y \in 1..lastSeq \/ y = lastSeq + 1
    BY <1>1, Numbers, EventStreamAssumption DEF IInv
  <2>2. IngestedOf(stream)' = IngestedOf(stream)
    BY <1>1 DEF IngestedOf
  <2> QED BY <1>1, <2>1, <2>2 DEF IInv, NoLoss
<1>3. Gaps' /\ ExactlyOnce' /\ InOrder'
  <2>1. UNCHANGED <<stream, senderVars, up, down, hubVars>>
    BY DEF append_receipt
  <2> QED BY <1>1, <2>1, AppendStep
<1> QED BY <1>2, <1>3 DEF IInv

\* A new store starts a sequence the hub knows nothing of.
LEMMA RebuildStep ==
    ASSUME IInv, TypeOK', rebuild_store
    PROVE  IInv'
<1> USE EventStreamAssumption DEF senderVars, hubVars
<1>n. /\ stream \in Nat /\ connStream \in Nat /\ connStream <= stream
      /\ stream' = stream + 1 /\ connStream' = connStream
      /\ lastSeq' = 0 /\ queue' = {} /\ status' = {}
      /\ batch' = {} /\ down' = <<>> /\ ~connected' /\ up' = up /\ acking' = acking
  BY Numbers DEF rebuild_store, IInv, Gaps, Ends
<1>a. /\ \A st, y : Committed(st, y)' <=> Committed(st, y)
      /\ \A st, y : CanArrive(st, y)' => CanArrive(st, y) /\ st = connStream
  BY <1>n DEF Committed, OnWire, CanArrive, rebuild_store
<1>1. Ends'
  BY <1>n DEF IInv, Gaps, Ends, rebuild_store
<1>2. Issued'
  <2>1. \A st \in 0..MaxStream, y \in 1..MaxSeq : Committed(st, y)' => st < stream'
    BY <1>a, <1>n DEF IInv, Gaps, Issued
  <2> QED BY <1>n, <2>1 DEF Issued
<1>3. IngestPrefix'
  BY <1>a DEF IInv, Gaps, IngestPrefix
<1>4. UpGap'
  BY <1>a, <1>n DEF IInv, Gaps, UpGap
<1>5. SenderGap'
  BY <1>n DEF SenderGap
<1>6. AckGap'
  BY <1>a, <1>n DEF IInv, Gaps, AckGap
<1>7. DownGap'
  BY <1>n DEF DownGap
<1>8. NoLoss'
  BY <1>n DEF NoLoss
<1>9. ExactlyOnce' /\ InOrder'
  BY DEF IInv, ExactlyOnce, InOrder, rebuild_store
<1> QED BY <1>1, <1>2, <1>3, <1>4, <1>5, <1>6, <1>7, <1>8, <1>9 DEF Gaps, IInv

\* A new connection starts from the rows of the store, with empty wires.
LEMMA ConnectStep ==
    ASSUME IInv, TypeOK', connect_once
    PROVE  IInv'
<1> USE EventStreamAssumption DEF storeVars
<1>n. /\ stream' = stream /\ connStream' = stream /\ lastSeq' = lastSeq
      /\ queue' = queue /\ status' = status /\ batch' = {}
      /\ sentThrough' = 0 /\ acking' = 0 /\ up' = <<>> /\ down' = <<>>
      /\ conn' # "none" /\ connected' /\ ~waiting'
  BY DEF connect_once
<1>b. ingested' = ingested /\ mirror' = mirror
  BY DEF connect_once
<1>a. /\ \A st, y : Committed(st, y)' <=> Committed(st, y)
      /\ \A st, y : CanArrive(st, y)' => CanArrive(st, y)
  BY <1>n, <1>b DEF Committed, OnWire, CanArrive
<1>1. Ends'
  BY <1>n, Numbers DEF IInv, Ends
<1>2. Issued'
  BY <1>a, <1>n, Numbers DEF IInv, Gaps, Issued
<1>3. IngestPrefix'
  BY <1>a DEF IInv, Gaps, IngestPrefix
<1>4. UpGap'
  BY <1>n DEF UpGap
<1>5. SenderGap'
  BY <1>n DEF SenderGap
<1>6. AckGap'
  BY <1>n DEF AckGap
<1>7. DownGap'
  BY <1>n DEF DownGap
<1>8. NoLoss'
  BY <1>n, <1>b DEF IInv, NoLoss, IngestedOf
<1>9. ExactlyOnce' /\ InOrder'
  BY <1>b DEF IInv, ExactlyOnce, InOrder
<1> QED BY <1>1, <1>2, <1>3, <1>4, <1>5, <1>6, <1>7, <1>8, <1>9 DEF Gaps, IInv

\* The agent's end of the connection is gone; what it wrote may still arrive.
LEMMA LinkLostStep ==
    ASSUME IInv, TypeOK', link_lost
    PROVE  IInv'
<1> USE EventStreamAssumption DEF storeVars, hubVars
<1>n. /\ stream' = stream /\ connStream' = connStream /\ lastSeq' = lastSeq
      /\ queue' = queue /\ status' = status /\ batch' = {}
      /\ acking' = acking /\ up' = up /\ down' = <<>>
      /\ conn' = conn /\ ~connected' /\ ~waiting'
  BY DEF link_lost
<1>b. ingested' = ingested /\ mirror' = mirror
  BY DEF link_lost
<1>a. /\ \A st, y : Committed(st, y)' <=> Committed(st, y)
      /\ \A st, y : CanArrive(st, y)' => CanArrive(st, y)
  BY <1>n, <1>b DEF Committed, OnWire, CanArrive
<1>1. Ends'
  BY <1>n DEF IInv, Gaps, Ends
<1>2. Issued'
  BY <1>a, <1>n DEF IInv, Gaps, Issued
<1>3. IngestPrefix'
  BY <1>a DEF IInv, Gaps, IngestPrefix
<1>4. UpGap'
  BY <1>a, <1>n DEF IInv, Gaps, UpGap
<1>5. SenderGap'
  BY <1>n DEF SenderGap
<1>6. AckGap'
  BY <1>a, <1>n DEF IInv, Gaps, AckGap
<1>7. DownGap'
  BY <1>n DEF DownGap
<1>8. NoLoss'
  BY <1>n, <1>b DEF IInv, NoLoss, IngestedOf
<1>9. ExactlyOnce' /\ InOrder'
  BY <1>b DEF IInv, ExactlyOnce, InOrder
<1> QED BY <1>1, <1>2, <1>3, <1>4, <1>5, <1>6, <1>7, <1>8, <1>9 DEF Gaps, IInv

\* The hub's end is gone, with the frames it had not read.
LEMMA UnregisterStep ==
    ASSUME IInv, TypeOK', unregister
    PROVE  IInv'
<1> USE EventStreamAssumption DEF storeVars, senderVars
<1>n. /\ stream' = stream /\ connStream' = connStream /\ lastSeq' = lastSeq
      /\ queue' = queue /\ status' = status /\ batch' = batch
      /\ sentThrough' = sentThrough /\ acking' = 0 /\ up' = <<>> /\ down' = down
      /\ conn' = "none" /\ connected' = connected /\ waiting' = waiting
  BY DEF unregister
<1>b. ingested' = ingested /\ mirror' = mirror
  BY DEF unregister
<1>a. /\ \A st, y : Committed(st, y)' <=> Committed(st, y)
      /\ \A st, y : CanArrive(st, y)' => CanArrive(st, y)
  BY <1>n, <1>b DEF Committed, OnWire, CanArrive
<1>1. Ends'
  BY <1>n DEF IInv, Gaps, Ends
<1>2. Issued'
  BY <1>a, <1>n, Numbers DEF IInv, Gaps, Issued
<1>3. IngestPrefix'
  BY <1>a DEF IInv, Gaps, IngestPrefix
<1>4. UpGap'
  BY <1>n DEF UpGap
<1>5. SenderGap'
  BY <1>n DEF SenderGap
<1>6. AckGap'
  BY <1>n DEF AckGap
<1>7. DownGap'
  BY <1>a, <1>n DEF IInv, Gaps, DownGap, Bound
<1>8. NoLoss'
  BY <1>n, <1>b DEF IInv, NoLoss, IngestedOf
<1>9. ExactlyOnce' /\ InOrder'
  BY <1>b DEF IInv, ExactlyOnce, InOrder
<1> QED BY <1>1, <1>2, <1>3, <1>4, <1>5, <1>6, <1>7, <1>8, <1>9 DEF Gaps, IInv

\* Registration, and steps that change nothing.
LEMMA QuietStep ==
    ASSUME IInv, TypeOK', register \/ UNCHANGED vars
    PROVE  IInv'
<1> USE EventStreamAssumption DEF storeVars, senderVars, hubVars
<1>n. /\ stream' = stream /\ connStream' = connStream /\ lastSeq' = lastSeq
      /\ queue' = queue /\ status' = status /\ batch' = batch
      /\ sentThrough' = sentThrough /\ acking' = acking /\ up' = up /\ down' = down
      /\ (conn' = "none" <=> conn = "none") /\ connected' = connected /\ waiting' = waiting
      /\ ingested' = ingested /\ mirror' = mirror
  BY DEF register, vars
<1>a. /\ \A st, y : Committed(st, y)' <=> Committed(st, y)
      /\ \A st, y : CanArrive(st, y)' <=> CanArrive(st, y)
      /\ \A y : Reached(y)' <=> Reached(y)
  BY <1>n DEF Committed, OnWire, CanArrive, Reached
<1>1. Ends'
  BY <1>n DEF IInv, Gaps, Ends
<1>2. Issued'
  BY <1>a, <1>n DEF IInv, Gaps, Issued
<1>3. IngestPrefix'
  BY <1>a DEF IInv, Gaps, IngestPrefix
<1>4. UpGap'
  BY <1>a, <1>n DEF IInv, Gaps, UpGap
<1>5. SenderGap'
  BY <1>a, <1>n DEF IInv, Gaps, SenderGap
<1>6. AckGap'
  BY <1>a, <1>n DEF IInv, Gaps, AckGap
<1>7. DownGap'
  BY <1>a, <1>n DEF IInv, Gaps, DownGap, Bound
<1>8. NoLoss'
  BY <1>n DEF IInv, NoLoss, IngestedOf
<1>9. ExactlyOnce' /\ InOrder'
  BY <1>n DEF IInv, ExactlyOnce, InOrder
<1> QED BY <1>1, <1>2, <1>3, <1>4, <1>5, <1>6, <1>7, <1>8, <1>9 DEF Gaps, IInv

\* An ack takes only committed events out of the queue.
LEMMA AckStep ==
    ASSUME IInv, TypeOK', handle_ack
    PROVE  IInv'
<1> USE EventStreamAssumption DEF senderVars, hubVars
<1> DEFINE k == Head(down).seq
<1>n. /\ stream' = stream /\ connStream' = connStream /\ lastSeq' = lastSeq
      /\ status' = status /\ batch' = batch
      /\ sentThrough' = sentThrough /\ acking' = acking /\ up' = up
      /\ conn' = conn /\ connected' = connected /\ waiting' = waiting
      /\ ingested' = ingested /\ mirror' = mirror
  BY DEF handle_ack
<1>q. queue' = {s \in queue : s > k} /\ connected
  BY DEF handle_ack
<1>d. /\ down # <<>> /\ down' = Tail(down) /\ down[1].type = "ack" /\ k = down[1].seq
      /\ Len(down') = Len(down) - 1 /\ 1 \in 1..Len(down)
      /\ \A i \in 1..Len(down') : i + 1 \in 1..Len(down) /\ down'[i] = down[i + 1]
  BY DEF handle_ack, IInv, TypeOK, TypeWire
<1>a. /\ \A st, y : Committed(st, y)' <=> Committed(st, y)
      /\ \A st, y : CanArrive(st, y)' => CanArrive(st, y)
      /\ \A y : Reached(y)' <=> Reached(y)
  BY <1>n, <1>q DEF Committed, OnWire, CanArrive, Reached
<1> HIDE DEF k
<1>1. Ends'
  BY <1>n, <1>q DEF IInv, Gaps, Ends
<1>2. Issued'
  BY <1>a, <1>n, <1>q, <1>d DEF IInv, Gaps, Issued
<1>3. IngestPrefix'
  BY <1>a DEF IInv, Gaps, IngestPrefix
<1>4. UpGap'
  BY <1>a, <1>n DEF IInv, Gaps, UpGap
<1>5. SenderGap'
  BY <1>a, <1>n DEF IInv, Gaps, SenderGap
<1>6. AckGap'
  BY <1>a, <1>n DEF IInv, Gaps, AckGap
<1>7. DownGap'
  BY <1>a, <1>n, <1>d DEF IInv, Gaps, DownGap, Bound
<1>8. NoLoss'
  <2>1. k \in Int /\ \A y \in queue : y \in 1..MaxSeq /\ y \in Int
    BY <1>d, Numbers DEF IInv
  <2>2. \A y \in queue : y <= k => Committed(stream, y)
    <3>1. Bound(down[1]) = k + 1
      BY <1>d DEF Bound
    <3>2. \A y \in queue : y <= k => y < k + 1
      BY <2>1
    <3>3. \A y \in queue : CanArrive(stream, y)
      BY DEF CanArrive
    <3> QED BY <1>d, <2>1, <3>1, <3>2, <3>3 DEF IInv, Gaps, DownGap
  <2>3. \A y \in queue : y \in queue' \/ y \in IngestedOf(stream)
    BY <1>q, <2>1, <2>2 DEF IngestedOf, Committed
  <2> QED BY <1>n, <2>3 DEF IInv, NoLoss, IngestedOf
<1>9. ExactlyOnce' /\ InOrder'
  BY <1>n DEF IInv, ExactlyOnce, InOrder
<1> QED BY <1>1, <1>2, <1>3, <1>4, <1>5, <1>6, <1>7, <1>8, <1>9 DEF Gaps, IInv

\* A rewind only goes back to a point below which everything is committed.
LEMMA ResendStep ==
    ASSUME IInv, TypeOK', handle_resend
    PROVE  IInv'
<1> USE EventStreamAssumption DEF storeVars, hubVars
<1> DEFINE k == Head(down).seq
<1>n. /\ stream' = stream /\ connStream' = connStream /\ lastSeq' = lastSeq
      /\ queue' = queue /\ status' = status /\ batch' = batch
      /\ acking' = acking /\ up' = up
      /\ conn' = conn /\ connected' = connected /\ waiting' = waiting
      /\ ingested' = ingested /\ mirror' = mirror
  BY DEF handle_resend
<1>q. sentThrough' = k - 1 /\ connected
  BY DEF handle_resend
<1>d. /\ down # <<>> /\ down' = Tail(down) /\ down[1].type = "resend_from" /\ k = down[1].seq
      /\ Len(down') = Len(down) - 1 /\ 1 \in 1..Len(down)
      /\ \A i \in 1..Len(down') : i + 1 \in 1..Len(down) /\ down'[i] = down[i + 1]
  BY DEF handle_resend, IInv, TypeOK, TypeWire
<1>k. k \in 1..MaxSeq /\ k <= lastSeq
  BY <1>d, Numbers DEF IInv, Gaps, Issued
<1>a. /\ \A st, y : Committed(st, y)' <=> Committed(st, y)
      /\ \A st, y : CanArrive(st, y)' <=> CanArrive(st, y)
      /\ \A y : Reached(y)' <=> Reached(y)
  BY <1>n DEF Committed, OnWire, CanArrive, Reached
<1> HIDE DEF k
<1>1. Ends'
  BY <1>n, <1>q DEF IInv, Gaps, Ends
<1>2. Issued'
  <2>1. k - 1 <= lastSeq
    BY <1>k, Numbers DEF IInv
  <2>2. \A i \in 1..Len(down') : down'[i].seq <= lastSeq
    BY <1>d DEF IInv, Gaps, Issued
  <2> QED BY <1>a, <1>n, <1>q, <2>1, <2>2 DEF IInv, Gaps, Issued
<1>3. IngestPrefix'
  BY <1>a DEF IInv, Gaps, IngestPrefix
<1>4. UpGap'
  BY <1>a, <1>n DEF IInv, Gaps, UpGap
<1>5. SenderGap'
  <2>1. Bound(down[1]) = k
    BY <1>d DEF Bound
  <2>2. \A y \in 1..MaxSeq : y <= k - 1 => y < k
    BY <1>k
  <2>3. \A y \in 1..MaxSeq : CanArrive(stream, y) /\ y <= k - 1 => Reached(y)
    BY <1>d, <2>1, <2>2 DEF IInv, Gaps, DownGap, Reached
  <2> QED BY <1>a, <1>n, <1>q, <2>3 DEF IInv, Gaps, SenderGap
<1>6. AckGap'
  BY <1>a, <1>n DEF IInv, Gaps, AckGap
<1>7. DownGap'
  BY <1>a, <1>n, <1>d DEF IInv, Gaps, DownGap, Bound
<1>8. NoLoss'
  BY <1>n DEF IInv, NoLoss, IngestedOf
<1>9. ExactlyOnce' /\ InOrder'
  BY <1>n DEF IInv, ExactlyOnce, InOrder
<1> QED BY <1>1, <1>2, <1>3, <1>4, <1>5, <1>6, <1>7, <1>8, <1>9 DEF Gaps, IInv

\* A frame the agent has not read gets company: an ack of what was committed,
\* or a request to rewind to where the hub is complete.
LEMMA DownStep ==
    ASSUME IInv, TypeOK', NEW f \in Ack \cup Resend,
           down' \in {down, Append(down, f)}, down' # down => connected,
           f.seq <= lastSeq,
           \A y \in 1..MaxSeq : CanArrive(stream, y) /\ y < Bound(f) => Committed(stream, y),
           acking' \in {0, acking}, conn' = conn, connStream' = connStream,
           UNCHANGED <<storeVars, senderVars, up, ingested, mirror>>
    PROVE  IInv'
<1> USE EventStreamAssumption DEF storeVars, senderVars
<1>a. /\ \A st, y : Committed(st, y)' <=> Committed(st, y)
      /\ \A st, y : CanArrive(st, y)' <=> CanArrive(st, y)
      /\ \A y : Reached(y)' <=> Reached(y)
  BY DEF Committed, OnWire, CanArrive, Reached
<1>d. \A i \in 1..Len(down') : (i \in 1..Len(down) /\ down'[i] = down[i]) \/ down'[i] = f
  BY DEF IInv, TypeOK, TypeWire
<1>1. Ends'
  BY DEF IInv, Gaps, Ends
<1>2. Issued'
  <2>1. \A i \in 1..Len(down') : down'[i].seq <= lastSeq'
    BY <1>d DEF IInv, Gaps, Issued
  <2>2. connStream' = stream' => acking' <= lastSeq'
    BY Numbers DEF IInv, Gaps, Issued
  <2> QED BY <1>a, <2>1, <2>2 DEF IInv, Gaps, Issued
<1>3. IngestPrefix'
  BY <1>a DEF IInv, Gaps, IngestPrefix
<1>4. UpGap'
  BY <1>a DEF IInv, Gaps, UpGap
<1>5. SenderGap'
  BY <1>a DEF IInv, Gaps, SenderGap
<1>6. AckGap'
  BY <1>a DEF IInv, Gaps, AckGap
<1>7. DownGap'
  BY <1>a, <1>d DEF IInv, Gaps, DownGap, Bound
<1>8. NoLoss'
  BY DEF IInv, NoLoss, IngestedOf
<1>9. ExactlyOnce' /\ InOrder'
  BY DEF IInv, ExactlyOnce, InOrder
<1> QED BY <1>1, <1>2, <1>3, <1>4, <1>5, <1>6, <1>7, <1>8, <1>9 DEF Gaps, IInv

\* The ack of a committed event covers what the agent may forget.
LEMMA SendAckStep ==
    ASSUME IInv, TypeOK', send_ack
    PROVE  IInv'
<1> DEFINE f == [type |-> "ack", seq |-> acking]
<1>1. acking \in 1..MaxSeq /\ f \in Ack /\ Bound(f) = acking + 1 /\ f.seq = acking
  BY Numbers, EventStreamAssumption DEF send_ack, IInv, Ack, Bound
<1>2. conn # "none" /\ UNCHANGED <<storeVars, senderVars, up, ingested, mirror, conn, connStream>>
      /\ acking' = 0 /\ down' = IF connected THEN Append(down, f) ELSE down
  BY DEF send_ack
<1> HIDE DEF f
<1>3. CASE connected
  <2>1. connStream = stream
    BY <1>2, <1>3 DEF IInv, Gaps, Ends
  <2>2. f.seq <= lastSeq
    BY <1>1, <2>1 DEF IInv, Gaps, Issued
  <2>3. \A y \in 1..MaxSeq : y < acking + 1 => y <= acking
    BY <1>1
  <2>4. \A y \in 1..MaxSeq : CanArrive(stream, y) /\ y < Bound(f) => Committed(stream, y)
    BY <1>1, <2>1, <2>3 DEF IInv, Gaps, AckGap
  <2> QED BY <1>1, <1>2, <1>3, <2>2, <2>4, DownStep
<1>4. CASE ~connected
  <2> USE EventStreamAssumption DEF storeVars, senderVars
  <2>1. down' = down /\ acking' = 0
    BY <1>2, <1>4
  <2>a. /\ \A st, y : Committed(st, y)' <=> Committed(st, y)
        /\ \A st, y : CanArrive(st, y)' <=> CanArrive(st, y)
    BY <1>2 DEF Committed, OnWire, CanArrive
  <2>2. Ends'
    BY <1>2, <2>1 DEF IInv, Gaps, Ends
  <2>3. Issued'
    BY <1>2, <2>1, <2>a, Numbers DEF IInv, Gaps, Issued
  <2>4. IngestPrefix'
    BY <2>a DEF IInv, Gaps, IngestPrefix
  <2>5. UpGap'
    BY <1>2, <2>a DEF IInv, Gaps, UpGap
  <2>6. SenderGap'
    BY <1>2, <1>4 DEF SenderGap
  <2>7. AckGap'
    BY <2>1 DEF AckGap
  <2>8. DownGap'
    BY <1>2, <2>1, <2>a DEF IInv, Gaps, DownGap, Bound
  <2>9. NoLoss' /\ ExactlyOnce' /\ InOrder'
    BY <1>2 DEF IInv, NoLoss, IngestedOf, ExactlyOnce, InOrder
  <2> QED BY <2>2, <2>3, <2>4, <2>5, <2>6, <2>7, <2>8, <2>9 DEF Gaps, IInv
<1> QED BY <1>3, <1>4

\* Whoever asks for a rewind has everything below the point it names.
LEMMA RequestStep ==
    ASSUME IInv, TypeOK', NEW s \in 1..MaxSeq, request_resend(s)
    PROVE  IInv'
<1> DEFINE f == [type |-> "resend_from", seq |-> s]
<1>1. f \in Resend /\ Bound(f) = s /\ f.seq = s
  BY EventStreamAssumption DEF Resend, Bound
<1>2. /\ UNCHANGED <<storeVars, senderVars, up, hubVars>> /\ connected /\ conn # "none"
      /\ down' = Append(down, f) /\ s <= lastSeq
  BY DEF request_resend
<1> HIDE DEF f
<1>3. connStream = stream
  BY <1>2 DEF IInv, Gaps, Ends
<1>4. \A y \in 1..MaxSeq : CanArrive(stream, y) /\ y < Bound(f) => Committed(stream, y)
  <2> SUFFICES ASSUME NEW y \in 1..MaxSeq, CanArrive(stream, y), y < s
               PROVE  Committed(stream, y)
    BY <1>1
  <2>1. PICK x \in IngestedOf(connStream) \cup {0} : s <= x + 1
    BY DEF request_resend
  <2>2. x \in 1..MaxSeq /\ Committed(stream, x) /\ y <= x
    <3>1. (x \in 1..MaxSeq /\ Committed(stream, x)) \/ x = 0
      BY <1>3 DEF IngestedOf, Committed
    <3>2. x # 0 /\ y <= x
      BY <2>1, <3>1, EventStreamAssumption
    <3> QED BY <3>1, <3>2
  <2>3. y = x \/ y < x
    BY <2>2, EventStreamAssumption
  <2> QED BY <2>2, <2>3, Numbers DEF IInv, Gaps, IngestPrefix
<1> QED BY <1>1, <1>2, <1>4, DownStep DEF hubVars

\* Writing the least event m of the sender's batch: everything before it was
\* committed or is on the wire already.
LEMMA WriteStep ==
    ASSUME IInv, TypeOK', connected,
           NEW m, UNCHANGED <<storeVars, connected, down, hubVars>>,
           batch' \subseteq queue \cup batch,
           sentThrough' <= lastSeq,
           waiting' => batch' = {},
           \/ batch' = {} /\ up' = up
           \/ batch' # {} /\ m = Least(batch') /\ m \in batch'
                /\ up' = IF conn = "none" THEN up ELSE Append(up, m),
           conn # "none" =>
              /\ \A y \in 1..MaxSeq : CanArrive(stream, y) /\ y <= sentThrough' => Reached(y)
              /\ \A b \in batch' : \A y \in 1..MaxSeq :
                     CanArrive(stream, y) /\ y < b => Reached(y) \/ y \in batch'
    PROVE  IInv'
<1> USE EventStreamAssumption DEF storeVars, hubVars
<1>n. /\ \A y \in batch' : y \in 1..MaxSeq /\ y <= lastSeq /\ CanArrive(stream, y)
      /\ batch' # {} => m \in batch' /\ \A y \in batch' : m <= y
  <2>1. \A y \in batch' : y \in 1..MaxSeq /\ y <= lastSeq /\ CanArrive(stream, y)
    BY Numbers DEF IInv, Gaps, Issued, CanArrive
  <2>2. batch' \subseteq Nat
    BY <2>1
  <2>3. batch' # {} => Least(batch') \in batch' /\ \A y \in batch' : Least(batch') <= y
    BY <2>2, LeastOfNats
  <2> QED BY <2>1, <2>3
<1>u. CASE up' # up
  <2>1. /\ conn # "none" /\ up' = Append(up, m) /\ batch' # {} /\ m \in batch'
        /\ m = Least(batch') /\ connStream = stream
    BY <1>u DEF IInv, Gaps, Ends
  <2>2. /\ Len(up') = Len(up) + 1 /\ up'[Len(up) + 1] = m
        /\ \A i \in 1..Len(up) : i \in 1..Len(up') /\ up'[i] = up[i]
        /\ \A i \in 1..Len(up') : i \in 1..Len(up) \/ i = Len(up) + 1
        /\ Len(up) \in Nat
    BY <1>n, <2>1 DEF IInv, TypeOK, TypeWire
  <2>a. /\ \A st, y : Committed(st, y)' <=> Committed(st, y)
        /\ \A y : OnWire(y) => OnWire(y)'
        /\ \A y : OnWire(y)' => OnWire(y) \/ y = m
        /\ OnWire(m)'
    <3>1. \A y : OnWire(y)' => OnWire(y) \/ y = m
      BY <2>2 DEF OnWire
    <3>2. \A y : OnWire(y) => OnWire(y)'
      BY <2>2 DEF OnWire
    <3>3. OnWire(m)'
      <4>1. Len(up) + 1 \in 1..Len(up')
        BY <2>2
      <4> QED BY <2>2, <4>1 DEF OnWire
    <3> QED BY <3>1, <3>2, <3>3 DEF Committed
  <2>b. /\ \A st, y : CanArrive(st, y)' => CanArrive(st, y)
        /\ \A y : Reached(y) => Reached(y)'
        /\ Reached(m)'
    BY <1>n, <2>1, <2>a DEF CanArrive, Reached
  <2>3. Ends'
    BY <2>1 DEF IInv, Gaps, Ends
  <2>4. Issued'
    <3>1. \A i \in 1..Len(up') : up'[i] <= lastSeq'
      BY <1>n, <2>1, <2>2 DEF IInv, Gaps, Issued
    <3> QED BY <1>n, <2>a, <3>1 DEF IInv, Gaps, Issued
  <2>5. IngestPrefix'
    BY <2>a, <2>b DEF IInv, Gaps, IngestPrefix
  <2>6. UpGap'
    <3> SUFFICES ASSUME NEW i \in 1..Len(up'), NEW y \in 1..MaxSeq,
                        CanArrive(connStream, y), y < up'[i]
                 PROVE  \/ Committed(connStream, y)
                        \/ \E j \in 1..(i - 1) : up'[j] = y
      BY <2>a, <2>b DEF UpGap
    <3>1. CASE i \in 1..Len(up)
      <4>1. Committed(connStream, y) \/ \E j \in 1..(i - 1) : up[j] = y
        BY <2>2, <3>1 DEF IInv, Gaps, UpGap
      <4>2. \A j \in 1..(i - 1) : up'[j] = up[j]
        BY <2>2, <3>1
      <4> QED BY <4>1, <4>2
    <3>2. CASE i = Len(up) + 1
      <4>1. y < m /\ CanArrive(stream, y)
        BY <2>1, <2>2, <3>2
      <4>2. y \notin batch'
        BY <1>n, <2>1, <4>1
      <4>3. Reached(y)
        BY <2>1, <4>1, <4>2
      <4>4. Committed(stream, y) \/ \E j \in 1..Len(up) : up[j] = y
        BY <4>3 DEF Reached, OnWire
      <4>5. 1..(i - 1) = 1..Len(up)
        BY <2>2, <3>2
      <4> QED BY <2>1, <2>2, <4>4, <4>5
    <3> QED BY <2>2, <3>1, <3>2
  <2>7. SenderGap'
    BY <2>1, <2>b DEF SenderGap
  <2>8. AckGap'
    BY <2>a, <2>b DEF IInv, Gaps, AckGap
  <2>9. DownGap'
    BY <2>a, <2>b DEF IInv, Gaps, DownGap, Bound
  <2>10. NoLoss' /\ ExactlyOnce' /\ InOrder'
    BY DEF IInv, NoLoss, IngestedOf, ExactlyOnce, InOrder
  <2> QED BY <2>3, <2>4, <2>5, <2>6, <2>7, <2>8, <2>9, <2>10 DEF Gaps, IInv
<1>v. CASE up' = up
  <2>1. conn = "none" \/ batch' = {}
    <3>1. \A x \in 1..MaxSeq : Append(up, x) # up
      BY DEF IInv, TypeOK, TypeWire
    <3> QED BY <1>n, <1>v, <3>1
  <2>a. /\ \A st, y : Committed(st, y)' <=> Committed(st, y)
        /\ \A y : OnWire(y)' <=> OnWire(y)
        /\ \A y : Reached(y)' <=> Reached(y)
        /\ \A st, y : CanArrive(st, y)' => CanArrive(st, y)
    BY <1>v DEF Committed, OnWire, Reached, CanArrive
  <2>3. Ends'
    BY <1>v DEF IInv, Gaps, Ends
  <2>4. Issued'
    BY <1>n, <1>v, <2>a DEF IInv, Gaps, Issued
  <2>5. IngestPrefix'
    BY <2>a DEF IInv, Gaps, IngestPrefix
  <2>6. UpGap'
    BY <1>v, <2>a DEF IInv, Gaps, UpGap
  <2>7. SenderGap'
    BY <2>1, <2>a DEF SenderGap
  <2>8. AckGap'
    BY <2>a DEF IInv, Gaps, AckGap
  <2>9. DownGap'
    BY <2>a DEF IInv, Gaps, DownGap, Bound
  <2>10. NoLoss' /\ ExactlyOnce' /\ InOrder'
    BY DEF IInv, NoLoss, IngestedOf, ExactlyOnce, InOrder
  <2> QED BY <2>3, <2>4, <2>5, <2>6, <2>7, <2>8, <2>9, <2>10 DEF Gaps, IInv
<1> QED BY <1>u, <1>v

\* The sender reads its next batch: a prefix of the queue after its marker.
LEMMA QueryStep ==
    ASSUME IInv, TypeOK', connected, batch = {}, sender_query
    PROVE  IInv'
<1> USE EventStreamAssumption
<1> DEFINE events == {s \in Oldest(queue, Batch) : s > sentThrough}
<1>1. /\ batch' = events /\ (waiting' => batch' = {}) /\ sentThrough' = sentThrough
      /\ UNCHANGED <<storeVars, connected, down, hubVars>>
  BY DEF sender_query
<1>2. \/ batch' = {} /\ up' = up
      \/ batch' # {} /\ up' = IF conn = "none" THEN up ELSE Append(up, Least(batch'))
  BY DEF sender_query, Written
<1>3. events \subseteq queue
  BY OldestIsSubset
<1>4. \A y \in queue : \A b \in events : y > sentThrough /\ y < b => y \in events
  <2> SUFFICES ASSUME NEW y \in queue, NEW b \in events, y > sentThrough, y < b
               PROVE  y \in Oldest(queue, Batch)
    OBVIOUS
  <2>1. MaxSeq \in Nat /\ queue \in SUBSET (1..MaxSeq) /\ Batch \in Int
    BY Numbers DEF IInv
  <2>2. b \in Oldest(queue, Batch)
    OBVIOUS
  <2> HIDE DEF events
  <2> QED BY <2>1, <2>2, OldestIsPrefix
<1> HIDE DEF events
<1>5. sentThrough \in Nat /\ sentThrough <= lastSeq
  BY Numbers DEF IInv, Gaps, Issued
<1>6. batch' # {} => Least(batch') \in batch'
  <2>1. batch' \subseteq Nat
    BY <1>1, <1>3, Numbers DEF IInv
  <2> QED BY <2>1, LeastOfNats
<1>7. conn # "none" => \A y \in 1..MaxSeq : CanArrive(stream, y) /\ y <= sentThrough' => Reached(y)
  BY <1>1 DEF IInv, Gaps, SenderGap
<1>8. conn # "none" =>
          \A b \in batch' : \A y \in 1..MaxSeq :
              CanArrive(stream, y) /\ y < b => Reached(y) \/ y \in batch'
  <2> SUFFICES ASSUME conn # "none", NEW b \in batch', NEW y \in 1..MaxSeq,
                      CanArrive(stream, y), y < b
               PROVE  Reached(y) \/ y \in batch'
    OBVIOUS
  <2>1. CASE y <= sentThrough
    BY <1>1, <1>7, <2>1
  <2>2. CASE y > sentThrough /\ y \in queue
    BY <1>1, <1>4, <2>2
  <2>3. CASE OnWire(y)
    BY <2>3 DEF Reached
  <2> QED BY <1>5, <2>1, <2>2, <2>3 DEF CanArrive
<1>9. batch' \subseteq queue \cup batch
  BY <1>1, <1>3
<1>10. sentThrough' <= lastSeq
  BY <1>1, <1>5
<1> DEFINE m == Least(batch')
<1>11. \/ batch' = {} /\ up' = up
       \/ batch' # {} /\ m = Least(batch') /\ m \in batch'
            /\ up' = IF conn = "none" THEN up ELSE Append(up, m)
  BY <1>2, <1>6
<1> HIDE DEF m
<1> QED BY <1>1, <1>7, <1>8, <1>9, <1>10, <1>11, WriteStep

\* The write of the least event of the batch has returned.
LEMMA NextStep ==
    ASSUME IInv, TypeOK', sender_next
    PROVE  IInv'
<1> USE EventStreamAssumption
<1> DEFINE l == Least(batch)
<1>1. /\ connected /\ batch # {} /\ sentThrough' = l /\ batch' = batch \ {l}
      /\ waiting' = waiting /\ UNCHANGED <<storeVars, connected, down, hubVars>>
  BY DEF sender_next
<1>2. \/ batch' = {} /\ up' = up
      \/ batch' # {} /\ up' = IF conn = "none" THEN up ELSE Append(up, Least(batch'))
  BY DEF sender_next, Written
<1>3. batch \subseteq Nat /\ batch' \subseteq Nat /\ \A y \in batch : y \in 1..MaxSeq
  BY <1>1, Numbers DEF IInv
<1>4. l \in batch /\ \A y \in batch : l <= y
  BY <1>1, <1>3, LeastOfNats
<1>5. batch' # {} => Least(batch') \in batch'
  BY <1>3, LeastOfNats
<1>6. conn # "none" =>
          /\ \A b \in batch : \A y \in 1..MaxSeq :
                 CanArrive(stream, y) /\ y < b => Reached(y) \/ y \in batch
          /\ Reached(l)
  BY <1>1 DEF IInv, Gaps, SenderGap
<1> HIDE DEF l
<1>7. conn # "none" => \A y \in 1..MaxSeq : CanArrive(stream, y) /\ y <= sentThrough' => Reached(y)
  <2> SUFFICES ASSUME conn # "none", NEW y \in 1..MaxSeq, CanArrive(stream, y), y <= l
               PROVE  Reached(y)
    BY <1>1
  <2>1. y = l \/ (y < l /\ y \notin batch)
    BY <1>3, <1>4
  <2> QED BY <1>4, <1>6, <2>1
<1>8. conn # "none" =>
          \A b \in batch' : \A y \in 1..MaxSeq :
              CanArrive(stream, y) /\ y < b => Reached(y) \/ y \in batch'
  BY <1>1, <1>6
<1>9. batch' \subseteq queue \cup batch
  BY <1>1
<1>10. sentThrough' <= lastSeq
  BY <1>1, <1>4 DEF IInv, Gaps, Issued
<1>11. waiting' => batch' = {}
  BY <1>1 DEF IInv, Gaps, Ends
<1> DEFINE m == Least(batch')
<1>12. \/ batch' = {} /\ up' = up
       \/ batch' # {} /\ m = Least(batch') /\ m \in batch'
            /\ up' = IF conn = "none" THEN up ELSE Append(up, m)
  BY <1>2, <1>5
<1> HIDE DEF m
<1> QED BY <1>1, <1>7, <1>8, <1>9, <1>10, <1>11, <1>12, WriteStep

\* The hub commits the first frame of the wire: nothing before it is missing.
LEMMA ApplyStep ==
    ASSUME IInv, TypeOK', apply_event
    PROVE  IInv'
<1> USE EventStreamAssumption DEF storeVars, senderVars
<1> DEFINE h == Head(up)
<1> DEFINE e == <<connStream, h>>
<1>n. /\ conn # "none" /\ conn' = conn /\ connStream' = connStream /\ down' = down
      /\ UNCHANGED <<storeVars, senderVars>> /\ acking' = h
  BY DEF apply_event
<1>i. /\ ingested' = ingested \cup {e}
      /\ mirror' = IF e \in ingested THEN mirror ELSE Append(mirror, e)
  BY DEF apply_event, Duplicate
<1>u. /\ h = up[1] /\ 1 \in 1..Len(up) /\ Len(up') = Len(up) - 1 /\ Len(up) \in Nat
      /\ \A i \in 1..Len(up') : i + 1 \in 1..Len(up) /\ up'[i] = up[i + 1]
      /\ \A i \in 1..Len(up) : i = 1 \/ (i - 1 \in 1..Len(up') /\ up'[i - 1] = up[i])
  BY DEF apply_event, IInv, TypeOK, TypeWire
<1> HIDE DEF h
<1>h. h \in 1..MaxSeq /\ connStream \in 0..MaxStream
  BY <1>u, Numbers DEF IInv
<1>a. /\ \A st, y : Committed(st, y)' <=> Committed(st, y) \/ (st = connStream /\ y = h)
      /\ \A y : OnWire(y)' => OnWire(y)
      /\ \A y : OnWire(y) => OnWire(y)' \/ y = h
  <2>1. \A st, y : Committed(st, y)' <=> Committed(st, y) \/ (st = connStream /\ y = h)
    BY <1>i DEF Committed
  <2>2. \A y : OnWire(y)' => OnWire(y)
    BY <1>u DEF OnWire
  <2>3. \A y : OnWire(y) => OnWire(y)' \/ y = h
    BY <1>u DEF OnWire
  <2> QED BY <2>1, <2>2, <2>3
<1>b. /\ \A st, y : CanArrive(st, y)' => CanArrive(st, y)
      /\ CanArrive(connStream, h)
  BY <1>a, <1>n, <1>u DEF CanArrive, OnWire
<1>c. \A y \in 1..MaxSeq : CanArrive(connStream, y) /\ y < h => Committed(connStream, y)
  <2>1. \A j \in 1..(1 - 1) : FALSE
    OBVIOUS
  <2> QED BY <1>u, <2>1 DEF IInv, Gaps, UpGap
<1>1. Ends'
  BY <1>n DEF IInv, Gaps, Ends
<1>2. Issued'
  <2>1. connStream = stream => h <= lastSeq
    BY <1>u DEF IInv, Gaps, Issued
  <2>2. connStream < stream \/ connStream = stream
    BY Numbers DEF IInv, Gaps, Ends
  <2>3. connStream = stream => \A i \in 1..Len(up') : up'[i] <= lastSeq
    BY <1>u DEF IInv, Gaps, Issued
  <2>4. \A st \in 0..MaxStream, y \in 1..MaxSeq :
            Committed(st, y)' => st < stream \/ (st = stream /\ y <= lastSeq)
    BY <1>a, <2>1, <2>2 DEF IInv, Gaps, Issued
  <2> QED BY <1>n, <2>1, <2>3, <2>4 DEF IInv, Gaps, Issued
<1>3. IngestPrefix'
  BY <1>a, <1>b, <1>c DEF IInv, Gaps, IngestPrefix
<1>4. UpGap'
  <2> SUFFICES ASSUME NEW i \in 1..Len(up'), NEW y \in 1..MaxSeq,
                      CanArrive(connStream, y), y < up'[i]
               PROVE  \/ Committed(connStream, y)'
                      \/ \E j \in 1..(i - 1) : up'[j] = y
    BY <1>b, <1>n DEF UpGap
  <2>1. Committed(connStream, y) \/ \E j \in 1..((i + 1) - 1) : up[j] = y
    BY <1>u DEF IInv, Gaps, UpGap
  <2>2. CASE \E j \in 1..((i + 1) - 1) : up[j] = y
    <3>1. PICK j \in 1..((i + 1) - 1) : up[j] = y
      BY <2>2
    <3>2. j \in 1..Len(up) /\ (j = 1 \/ j - 1 \in 1..(i - 1))
      BY <1>u
    <3> QED BY <1>a, <1>n, <1>u, <3>1, <3>2
  <2> QED BY <1>a, <1>n, <2>1, <2>2
<1>5. SenderGap'
  <2>1. connected => connStream = stream
    BY <1>n DEF IInv, Gaps, Ends
  <2>2. \A y : connected /\ Reached(y) => Reached(y)'
    BY <1>a, <1>n, <2>1 DEF Reached
  <2> QED BY <1>b, <1>n, <2>2 DEF IInv, Gaps, SenderGap
<1>6. AckGap'
  <2>1. \A y \in 1..MaxSeq : y <= h => y < h \/ y = h
    BY <1>h
  <2> QED BY <1>a, <1>b, <1>c, <1>n, <2>1 DEF AckGap
<1>7. DownGap'
  BY <1>a, <1>b, <1>n DEF IInv, Gaps, DownGap, Bound
<1>8. NoLoss'
  <2>1. IngestedOf(stream) \subseteq IngestedOf(stream)'
    BY <1>i, <1>n DEF IngestedOf
  <2> QED BY <1>n, <2>1 DEF IInv, NoLoss
<1>9. CASE e \in ingested
  <2>1. ingested' = ingested /\ mirror' = mirror
    BY <1>i, <1>9
  <2>2. ExactlyOnce' /\ InOrder'
    BY <2>1 DEF IInv, ExactlyOnce, InOrder
  <2> QED BY <1>1, <1>2, <1>3, <1>4, <1>5, <1>6, <1>7, <1>8, <2>2 DEF Gaps, IInv
<1>10. CASE e \notin ingested
  <2>1. mirror' = Append(mirror, e)
    BY <1>i, <1>10
  <2>2. /\ Len(mirror) \in Nat /\ Len(mirror') = Len(mirror) + 1
        /\ mirror'[Len(mirror) + 1] = e
        /\ \A i \in 1..Len(mirror) : i \in 1..Len(mirror') /\ mirror'[i] = mirror[i]
        /\ \A i \in 1..Len(mirror') : i \in 1..Len(mirror) \/ i = Len(mirror) + 1
    <3> DEFINE P == (0..MaxStream) \X (1..MaxSeq)
    <3>1. mirror \in Seq(P)
      BY DEF IInv, TypeOK, TypeHub
    <3>2. e \in P
      BY <1>h
    <3> HIDE DEF P, e
    <3> QED BY <2>1, <3>1, <3>2
  <2>3. \A i \in 1..Len(mirror) : mirror[i] \in ingested /\ mirror[i] # e
    BY <1>10 DEF IInv, ExactlyOnce
  <2>4. ExactlyOnce'
    <3>1. ingested' = {mirror'[i] : i \in 1..Len(mirror')}
      <4> HIDE DEF e
      <4>1. ingested = {mirror[i] : i \in 1..Len(mirror)}
        BY DEF IInv, ExactlyOnce
      <4>2. Len(mirror) + 1 \in 1..Len(mirror')
        BY <2>2
      <4> QED BY <1>i, <2>2, <4>1, <4>2
    <3>2. \A i, j \in 1..Len(mirror) : mirror[i] = mirror[j] => i = j
      BY DEF IInv, ExactlyOnce
    <3> HIDE DEF e
    <3>3. \A i, j \in 1..Len(mirror') : mirror'[i] = mirror'[j] => i = j
      BY <2>2, <2>3, <3>2
    <3> QED BY <3>1, <3>3 DEF ExactlyOnce
  <2>5. \A i \in 1..Len(mirror) : mirror[i][1] = connStream => mirror[i][2] < h
    <3> SUFFICES ASSUME NEW i \in 1..Len(mirror), mirror[i][1] = connStream
                 PROVE  mirror[i][2] < h
      OBVIOUS
    <3>1. mirror[i] \in (0..MaxStream) \X (1..MaxSeq)
      BY DEF IInv, TypeOK, TypeHub
    <3>2. PICK z \in 1..MaxSeq : mirror[i] = <<connStream, z>>
      BY <3>1
    <3>3. Committed(connStream, z) /\ z # h
      BY <2>3, <3>2 DEF Committed
    <3>4. ~(h < z)
      BY <1>10, <1>b, <1>h, <3>3 DEF IInv, Gaps, IngestPrefix, Committed
    <3> QED BY <1>h, <3>2, <3>3, <3>4
  <2>6. InOrder'
    <3> SUFFICES ASSUME NEW i \in 1..Len(mirror'), NEW j \in 1..Len(mirror'),
                        i < j, mirror'[i][1] = mirror'[j][1]
                 PROVE  mirror'[i][2] < mirror'[j][2]
      BY DEF InOrder
    <3>1. i \in 1..Len(mirror)
      BY <2>2
    <3>2. CASE j \in 1..Len(mirror)
      BY <2>2, <3>1, <3>2 DEF IInv, InOrder
    <3>3. CASE j = Len(mirror) + 1
      BY <2>2, <2>5, <3>1, <3>3
    <3> QED BY <2>2, <3>2, <3>3
  <2> QED BY <1>1, <1>2, <1>3, <1>4, <1>5, <1>6, <1>7, <1>8, <2>4, <2>6 DEF Gaps, IInv
<1> QED BY <1>9, <1>10

\* The strengthened invariant is inductive.
LEMMA Inductive ==
    ASSUME IInv, [Next]_vars
    PROVE  IInv'
<1>1. TypeOK'
  BY TypeInductive DEF IInv
<1>2. ASSUME NEW kind \in {"status", "sms"}, emit(kind) PROVE IInv'
  BY <1>1, <1>2, EmitStep
<1>3. CASE append_receipt
  BY <1>1, <1>3, ReceiptStep
<1>4. CASE rebuild_store
  BY <1>1, <1>4, RebuildStep
<1>5. CASE connect_once
  BY <1>1, <1>5, ConnectStep
<1>6. CASE sender_turn
  BY <1>1, <1>6, QueryStep DEF sender_turn
<1>7. CASE sender_timeout
  <2>1. batch = {}
    BY <1>7 DEF sender_timeout, IInv, Gaps, Ends
  <2> QED BY <1>1, <1>7, <2>1, QueryStep DEF sender_timeout
<1>8. CASE sender_next
  BY <1>1, <1>8, NextStep
<1>9. CASE handle_ack
  BY <1>1, <1>9, AckStep
<1>10. CASE handle_resend
  BY <1>1, <1>10, ResendStep
<1>11. CASE link_lost
  BY <1>1, <1>11, LinkLostStep
<1>12. CASE register
  BY <1>1, <1>12, QuietStep
<1>13. CASE apply_event
  BY <1>1, <1>13, ApplyStep
<1>14. CASE send_ack
  BY <1>1, <1>14, SendAckStep
<1>15. CASE unregister
  BY <1>1, <1>15, UnregisterStep
<1>16. ASSUME NEW s \in 1..MaxSeq, request_resend(s) PROVE IInv'
  BY <1>1, <1>16, RequestStep
<1>17. CASE UNCHANGED vars
  BY <1>1, <1>17, QuietStep
<1> QED BY <1>2, <1>3, <1>4, <1>5, <1>6, <1>7, <1>8, <1>9, <1>10, <1>11,
           <1>12, <1>13, <1>14, <1>15, <1>16, <1>17 DEF Next

\* Nothing is issued, sent or committed at the start.
LEMMA Initially ==
    ASSUME Init
    PROVE  IInv
<1> USE EventStreamAssumption DEF Init
<1>1. TypeOK
  BY TypeInitial
<1>2. NoLoss /\ ExactlyOnce /\ InOrder
  BY DEF NoLoss, ExactlyOnce, InOrder
<1>3. Ends /\ Issued
  BY DEF Ends, Issued, Committed
<1>4. \A st, y : ~CanArrive(st, y)
  BY DEF CanArrive, OnWire
<1>5. IngestPrefix /\ UpGap /\ AckGap /\ DownGap
  BY <1>4 DEF IngestPrefix, UpGap, AckGap, DownGap
<1>6. SenderGap
  BY DEF SenderGap
<1> QED BY <1>1, <1>2, <1>3, <1>5, <1>6 DEF IInv, Gaps

\* The strengthened invariant holds in every reachable state.
THEOREM Invariance == Spec => []IInv
  BY Initially, Inductive, PTL DEF Spec

\* No event but a status sample leaves the agent's queue (ack deletes every row
\* up to the acked number) before the hub has committed it (insert_event).
THEOREM NothingLost == Spec => []NoLoss
<1>1. IInv => NoLoss
  BY DEF IInv
<1> QED BY <1>1, Invariance, PTL

\* The hub's ingest does the business writes of an event exactly when it makes
\* the event's dedupe row, however often the agent sends it again.
THEOREM AppliedOnce == Spec => []ExactlyOnce
<1>1. IInv => ExactlyOnce
  BY DEF IInv
<1> QED BY <1>1, Invariance, PTL

\* The hub's ingest applies the events of one agent store in the order of their
\* numbers, across reconnects and rewinds.
THEOREM AppliedInOrder == Spec => []InOrder
<1>1. IInv => InOrder
  BY DEF IInv
<1> QED BY <1>1, Invariance, PTL

\* What an ack on its way to the agent will delete there has been committed by
\* the hub.
THEOREM AcksAreCovered == Spec => []AckCovered
<1>1. IInv => AckCovered
  <2> SUFFICES ASSUME IInv, NEW i \in 1..Len(down), NEW s \in queue,
                      down[i].type = "ack", s <= down[i].seq
               PROVE  s \in IngestedOf(stream)
    BY DEF AckCovered
  <2>1. s \in 1..MaxSeq /\ down[i].seq \in 1..MaxSeq /\ CanArrive(stream, s)
    BY Numbers DEF IInv, CanArrive
  <2>2. s < Bound(down[i])
    BY <2>1, EventStreamAssumption DEF Bound
  <2> QED BY <2>1, <2>2 DEF IInv, Gaps, DownGap, Committed, IngestedOf
<1> QED BY <1>1, Invariance, PTL

-----------------------------------------------------------------------------
(* The event path implements EventMirror *)

\* Debts are numbers of the current store, and the hub has none of them.
LEMMA Owed ==
    ASSUME IInv, NEW t \in (1..lastSeq) \ (status \cup IngestedOf(stream))
    PROVE  t \in 1..MaxSeq /\ t \in queue /\ ~Committed(stream, t)
<1>1. t \in 1..MaxSeq
  BY Numbers, EventStreamAssumption DEF IInv
<1> QED BY <1>1 DEF IInv, NoLoss, IngestedOf, Committed

\* What the hub has of the current store was issued by it.
LEMMA MirrorIssued ==
    ASSUME IInv, NEW i \in 1..Len(mirror)
    PROVE  /\ mirror[i] \in (0..MaxStream) \X (1..MaxSeq)
           /\ mirror[i] \in ingested
           /\ mirror[i][1] <= stream
           /\ mirror[i][1] = stream => mirror[i][2] <= lastSeq
<1>1. mirror[i] \in (0..MaxStream) \X (1..MaxSeq)
  BY DEF IInv, TypeOK, TypeHub
<1>2. mirror[i] \in ingested
  BY DEF IInv, ExactlyOnce
<1>3. PICK st \in 0..MaxStream, y \in 1..MaxSeq : mirror[i] = <<st, y>>
  BY <1>1
<1>4. st < stream \/ (st = stream /\ y <= lastSeq)
  BY <1>2, <1>3 DEF IInv, Gaps, Issued, Committed
<1> QED BY <1>1, <1>2, <1>3, <1>4, Numbers, EventStreamAssumption DEF IInv

\* A new event that is not a status sample is a new debt.
LEMMA MapsCommit ==
    ASSUME IInv, lastSeq < MaxSeq, lastSeq' = lastSeq + 1, status' = status,
           UNCHANGED <<stream, hubVars>>
    PROVE  Mirror!Commit(lastSeq + 1)
<1> USE EventStreamAssumption DEF hubVars
<1> DEFINE n == lastSeq + 1
<1>1. lastSeq \in Nat /\ n \in 1..MaxSeq /\ n > lastSeq /\ stream \in 0..MaxStream
  BY Numbers DEF IInv
<1>2. n \notin status /\ ~Committed(stream, n)
  BY <1>1 DEF IInv, Gaps, Issued
<1>3. IngestedOf(stream)' = IngestedOf(stream) /\ n \notin IngestedOf(stream)
  BY <1>2 DEF IngestedOf, Committed
<1>4. 1..lastSeq' = (1..lastSeq) \cup {n}
  BY <1>1
<1>5. n \notin 1..lastSeq
  BY <1>1
<1>6. Mirror!Newer(<<stream, n>>)
  BY <1>1, MirrorIssued DEF Mirror!Newer
<1>7. (1..lastSeq' \ (status' \cup IngestedOf(stream)'))
        = ((1..lastSeq) \ (status \cup IngestedOf(stream))) \cup {n}
  BY <1>2, <1>3, <1>4, <1>5
<1> QED BY <1>3, <1>5, <1>6, <1>7 DEF Mirror!Commit

\* A commit of the hub pays the oldest debt, or what a replaced store left.
LEMMA MapsDeliver ==
    ASSUME IInv, IInv', apply_event
    PROVE  Mirror!Next \/ UNCHANGED Mirror!vars
<1> USE EventStreamAssumption DEF storeVars, senderVars
<1> DEFINE h == Head(up)
<1> DEFINE e == <<connStream, h>>
<1>1. /\ stream' = stream /\ lastSeq' = lastSeq /\ status' = status
      /\ ingested' = ingested \cup {e}
      /\ mirror' = IF e \in ingested THEN mirror ELSE Append(mirror, e)
  BY DEF apply_event, Duplicate
<1>2. h = up[1] /\ 1 \in 1..Len(up)
  BY DEF apply_event, IInv, TypeOK, TypeWire
<1> HIDE DEF h
<1>3. h \in 1..MaxSeq /\ connStream \in 0..MaxStream /\ stream \in 0..MaxStream
      /\ connStream <= stream
  BY <1>2, Numbers DEF IInv, Gaps, Ends
<1>4. CASE e \in ingested
  <2>1. ingested' = ingested /\ mirror' = mirror
    BY <1>1, <1>4
  <2> QED BY <1>1, <2>1 DEF Mirror!vars, IngestedOf
<1>5. CASE e \notin ingested
  <2>1. mirror' = Append(mirror, e)
    BY <1>1, <1>5
  <2>2. CanArrive(connStream, h)
    BY <1>2 DEF CanArrive, OnWire
  <2>3. Mirror!Newer(e)
    <3> SUFFICES ASSUME NEW i \in 1..Len(mirror), mirror[i][1] = connStream
                 PROVE  mirror[i][2] < h
      BY DEF Mirror!Newer
    <3>1. PICK z \in 1..MaxSeq : mirror[i] = <<connStream, z>>
      BY MirrorIssued
    <3>2. Committed(connStream, z) /\ z # h
      BY <1>5, <3>1, MirrorIssued DEF Committed
    <3>3. ~(h < z)
      BY <1>3, <1>5, <2>2, <3>2 DEF IInv, Gaps, IngestPrefix, Committed
    <3> QED BY <1>3, <3>1, <3>2, <3>3
  <2>4. CASE connStream = stream
    <3>1. \A t \in (1..lastSeq) \ (status \cup IngestedOf(stream)) : h <= t
      <4> SUFFICES ASSUME NEW t \in (1..lastSeq) \ (status \cup IngestedOf(stream))
                   PROVE  ~(t < h)
        BY <1>3, Owed
      <4>1. t \in 1..MaxSeq /\ CanArrive(connStream, t) /\ ~Committed(connStream, t)
        BY <2>4, Owed DEF CanArrive
      <4>2. \A j \in 1..(1 - 1) : FALSE
        OBVIOUS
      <4> QED BY <1>2, <4>1, <4>2 DEF IInv, Gaps, UpGap
    <3>2. IngestedOf(stream)' = IngestedOf(stream) \cup {h}
      BY <1>1, <1>3, <2>4 DEF IngestedOf
    <3>3. (1..lastSeq') \ (status' \cup IngestedOf(stream)')
            = ((1..lastSeq) \ (status \cup IngestedOf(stream))) \ {h}
      BY <1>1, <3>2
    <3>4. Mirror!Deliver(h)
      BY <1>1, <2>1, <2>3, <2>4, <3>1, <3>3 DEF Mirror!Deliver
    <3> QED BY <1>3, <3>4 DEF Mirror!Next
  <2>5. CASE connStream # stream
    <3>1. connStream < stream
      BY <1>3, <2>5
    <3>2. IngestedOf(stream)' = IngestedOf(stream)
      BY <1>1, <2>5 DEF IngestedOf
    <3>3. Mirror!DeliverStale(e)
      BY <1>1, <2>1, <2>3, <3>1, <3>2 DEF Mirror!DeliverStale
    <3>4. e \in (0..MaxStream) \X (1..MaxSeq)
      BY <1>3
    <3> QED BY <3>3, <3>4 DEF Mirror!Next
  <2> QED BY <2>4, <2>5
<1> QED BY <1>4, <1>5

\* Steps that neither issue nor commit an event leave the mirror alone.
LEMMA MapsStutter ==
    ASSUME UNCHANGED <<stream, lastSeq, status, ingested, mirror>>
    PROVE  UNCHANGED Mirror!vars
  BY DEF Mirror!vars, IngestedOf

\* Every step of the event path is a step of the mirror or leaves it alone.
LEMMA MapsStep ==
    ASSUME IInv, IInv', [Next]_vars
    PROVE  Mirror!Next \/ UNCHANGED Mirror!vars
<1> USE DEF storeVars, senderVars, hubVars
<1>1. ASSUME NEW kind \in {"status", "sms"}, emit(kind)
      PROVE  Mirror!Next \/ UNCHANGED Mirror!vars
  <2>1. lastSeq < MaxSeq /\ lastSeq' = lastSeq + 1 /\ UNCHANGED <<stream, hubVars>>
    BY <1>1 DEF emit
  <2>2. lastSeq + 1 \in 1..MaxSeq
    BY <2>1, Numbers, EventStreamAssumption DEF IInv
  <2>3. CASE kind = "sms"
    <3>1. status' = status
      BY <1>1, <2>3 DEF emit
    <3> QED BY <2>1, <2>2, <3>1, MapsCommit DEF Mirror!Next
  <2>4. CASE kind = "status"
    <3>1. status' = status \cup {lastSeq + 1}
      BY <1>1, <2>4 DEF emit
    <3>2. 1..lastSeq' = (1..lastSeq) \cup {lastSeq + 1} /\ lastSeq + 1 \notin 1..lastSeq
      BY <2>1, Numbers, EventStreamAssumption DEF IInv
    <3>3. IngestedOf(stream)' = IngestedOf(stream)
      BY <2>1 DEF IngestedOf
    <3>4. (1..lastSeq') \ (status' \cup IngestedOf(stream)')
            = (1..lastSeq) \ (status \cup IngestedOf(stream))
      BY <3>1, <3>2, <3>3
    <3> QED BY <2>1, <3>4 DEF Mirror!vars
  <2> QED BY <2>3, <2>4
<1>2. CASE append_receipt
  <2>1. lastSeq < MaxSeq /\ lastSeq' = lastSeq + 1 /\ status' = status
        /\ UNCHANGED <<stream, hubVars>>
    BY <1>2 DEF append_receipt
  <2>2. lastSeq + 1 \in 1..MaxSeq
    BY <2>1, Numbers, EventStreamAssumption DEF IInv
  <2> QED BY <2>1, <2>2, MapsCommit DEF Mirror!Next
<1>3. CASE rebuild_store
  <2>1. stream' = stream + 1 /\ mirror' = mirror /\ 1..lastSeq' = {}
    BY <1>3 DEF rebuild_store
  <2>2. (1..lastSeq') \ (status' \cup IngestedOf(stream)') = {}
    BY <2>1
  <2> QED BY <2>1, <2>2 DEF Mirror!Next, Mirror!Replace
<1>4. CASE apply_event
  BY <1>4, MapsDeliver
<1>5. CASE connect_once \/ sender_turn \/ sender_timeout \/ sender_next
           \/ handle_ack \/ handle_resend \/ link_lost
  BY <1>5, MapsStutter DEF connect_once, sender_turn, sender_timeout, sender_query,
           sender_next, handle_ack, handle_resend, link_lost
<1>6. CASE register \/ send_ack \/ unregister \/ UNCHANGED vars
  BY <1>6, MapsStutter DEF register, send_ack, unregister, vars
<1>7. ASSUME NEW s \in 1..MaxSeq, request_resend(s) PROVE UNCHANGED Mirror!vars
  BY <1>7, MapsStutter DEF request_resend
<1> QED BY <1>1, <1>2, <1>3, <1>4, <1>5, <1>6, <1>7 DEF Next

\* The agent's log and the hub's ingest together implement the mirror: what
\* the agent owes is paid once, in order, and forgotten only with the store.
THEOREM Refinement == Spec => ImplementsMirror
<1>1. Init => Mirror!Init
  BY DEF Init, Mirror!Init
<1>2. IInv /\ IInv' /\ [Next]_vars => [Mirror!Next]_(Mirror!vars)
  BY MapsStep
<1> QED BY <1>1, <1>2, Invariance, PTL DEF Spec, ImplementsMirror, Mirror!Spec

=============================================================================
