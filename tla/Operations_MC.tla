--------------------------- MODULE Operations_MC ---------------------------
(* Instances of Operations for TLC. *)
EXTENDS Operations

CONSTANTS o1, o2, d1

\* Both operations address the same module: the queues matter.
SameDevice == [o \in {o1, o2} |-> d1]

\* Bounds: SIMs are exchanged and ports opened where there is one operation,
\* one store and no backup; the store is replaced and a backup put back where
\* there is one operation and nobody has opened a port; a second operation is
\* submitted where none of this has happened.
OneOperation == status[o2] = "none"
SameModule == opens = 0 /\ sim = [d \in Devices |-> 0]
SameStores == stream = 0 /\ backup = <<>> /\ restores = 0

Apart ==
    \/ OneOperation /\ SameStores
    \/ OneOperation /\ SameModule
    \/ SameModule /\ SameStores

ApartNext == Next /\ Apart'

ApartSpec == Init /\ [][ApartNext]_vars /\ Progress /\ Calm
=============================================================================
