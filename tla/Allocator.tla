------------------------------ MODULE Allocator ------------------------------
(***************************************************************************)
(* What the users of a staging pool rely on: views of one block of memory   *)
(* that do not overlap while they are in use.  A request may be refused (it *)
(* is served from elsewhere then) only if no gap is larger than it.         *)
(***************************************************************************)
EXTENDS Integers

CONSTANTS Limit,   \* the size of the block
          Alignment,
          Request  \* the sizes that are asked for

VARIABLE inUse     \* the ranges handed out and not given back

Range == {r \in [offset : 0 .. Limit, size : 1 .. Limit] : r.offset + r.size <= Limit}
Apart(r, s) == r.offset + r.size <= s.offset \/ s.offset + s.size <= r.offset

Init == inUse = {}

Allocate(n) ==
    \E r \in inUse' \ inUse :
        /\ r \in Range /\ r.size >= n /\ r.offset % Alignment = 0 /\ \A s \in inUse : Apart(r, s)
        /\ inUse' = inUse \cup {r}

\* No step of its own: the user of a refused request sees nothing happen here.
MayRefuse(n) == ~\E r \in Range : r.size > n /\ \A s \in inUse : Apart(r, s)

Recycle == \E r \in inUse : inUse' = inUse \ {r}

Next == Recycle \/ \E n \in Request : Allocate(n)
Spec == Init /\ [][Next]_inUse
=============================================================================
