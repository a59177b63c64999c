------------------------------ MODULE Allocator ------------------------------
(***************************************************************************)
(* What memory/heap.h promises: an area of the size asked for, apart from  *)
(* every other area in use, until it is released; or NULL.                 *)
(***************************************************************************)
EXTENDS Integers

CONSTANTS
    Arena,      \* bytes
    Sizes

VARIABLE blocks

Disjoint(a, b) == a.at + a.size <= b.at \/ b.at + b.size <= a.at

Init == blocks = {}

Allocate(size) ==
    \E at \in 0 .. Arena - size :
        /\ \A b \in blocks : b.at # at /\ Disjoint(b, [at |-> at, size |-> size])
        /\ blocks' = blocks \cup {[at |-> at, size |-> size]}

Release == \E b \in blocks : blocks' = blocks \ {b}

Next == (\E size \in Sizes : Allocate(size)) \/ Release

Spec == Init /\ [][Next]_blocks
=============================================================================
