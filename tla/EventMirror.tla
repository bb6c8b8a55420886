---------------------------- MODULE EventMirror ----------------------------
(***************************************************************************)
(* What the agent/hub event path promises: the agent's store is the truth, *)
(* the hub is its mirror.  Every event that is not a status sample is owed *)
(* to the hub from the moment the agent has committed it, is paid exactly  *)
(* once, and is paid in sequence order.  The only way a debt disappears    *)
(* unpaid is that the agent's database file itself is replaced.            *)
(***************************************************************************)
EXTENDS Integers, Sequences

CONSTANTS
    Seqs,       \* sequence numbers an agent store can hand out
    Streams     \* labels a sequence-number space can have

VARIABLES
    stream,     \* label of the agent's current sequence-number space
    owed,       \* seqs of the current stream committed and not yet mirrored
    mirror      \* <<stream, seq>> of every event the hub has applied, in order

vars == <<stream, owed, mirror>>

\* The hub has applied nothing of e's stream with e's number or a later one.
Newer(e) == \A i \in 1..Len(mirror) : mirror[i][1] = e[1] => mirror[i][2] < e[2]

Init == stream = 0 /\ owed = {} /\ mirror = <<>>

\* The agent commits a new event that must reach the hub.
Commit(s) ==
    /\ s \notin owed
    /\ Newer(<<stream, s>>)
    /\ owed' = owed \cup {s}
    /\ UNCHANGED <<stream, mirror>>

\* The hub applies an event of the current stream: nothing older is owed.
Deliver(s) ==
    /\ Newer(<<stream, s>>)
    /\ \A t \in owed : s <= t
    /\ mirror' = Append(mirror, <<stream, s>>)
    /\ owed' = owed \ {s}
    /\ UNCHANGED stream

\* A frame of a replaced store was still in the hub's receive buffer.
DeliverStale(e) ==
    /\ e[1] < stream
    /\ Newer(e)
    /\ mirror' = Append(mirror, e)
    /\ UNCHANGED <<stream, owed>>

\* The agent's database file is replaced: its unsent events are gone.
Replace ==
    /\ stream' = stream + 1
    /\ owed' = {}
    /\ UNCHANGED mirror

Next ==
    \/ \E s \in Seqs : Commit(s) \/ Deliver(s)
    \/ \E e \in Streams \X Seqs : DeliverStale(e)
    \/ Replace

Spec == Init /\ [][Next]_vars
=============================================================================
