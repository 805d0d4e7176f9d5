--------------------------- MODULE HostBufferPool ---------------------------
(***************************************************************************)
(* The staging pools of CUDA and Metal over FirstFit (core/first_fit.cpp,   *)
(* cuda_host_buffer_pool, metal_host_buffer_pool).  The list of free nodes  *)
(* is the sequence free, in the order of the links.  Every operation holds  *)
(* the mutex of the pool, so it is one step.  A request of zero bytes is    *)
(* left out: the transfers that use the pools are not empty.                *)
(***************************************************************************)
EXTENDS Integers, Sequences, SequencesExt

CONSTANTS Limit,     \* _free_list._size
          Alignment, \* a power of two
          Request,
          MaxAdHoc   \* bound: views made outside the pool that are in use

ASSUME PoolAssumption ==
    /\ Limit \in Nat \ {0} /\ Alignment \in Nat \ {0} /\ MaxAdHoc \in Nat
    /\ Request \subseteq Nat \ {0}

VARIABLES free,     \* the free list
          inUse,    \* the nodes of the pooled views
          adHoc,    \* how many views come from elsewhere
          failed    \* free() did not find a place in the list

poolVars == <<free, inUse, adHoc, failed>>

Node(offset, size) == [offset |-> offset, size |-> size]
End(node) == node.offset + node.size

PoolInit ==
    /\ free = <<Node(0, Limit)>> /\ inUse = {}
    /\ adHoc = 0 /\ failed = FALSE

-----------------------------------------------------------------------------
\* Mutant: sizes are rounded down.
AlignedDown(n) == (n \div Alignment) * Alignment

Aligned(n) == ((n + Alignment - 1) \div Alignment) * Alignment

\* node->_size > size
Fits(node, n) == node.size > n

HasFit(n) == \E k \in DOMAIN free : Fits(free[k], n)
FirstFit(n) == CHOOSE k \in DOMAIN free :
                  Fits(free[k], n) /\ \A j \in 1 .. k - 1 : ~Fits(free[j], n)

Allocate(n) ==
    /\ HasFit(n)
    /\ LET k == FirstFit(n)
           node == free[k]
       IN \/ /\ node.size > Aligned(n)    \* split
             /\ inUse' = inUse \cup {Node(node.offset, Aligned(n))}
             /\ free' = [free EXCEPT ![k] = Node(node.offset + Aligned(n), node.size - Aligned(n))]
          \/ /\ node.size <= Aligned(n)   \* the whole node
             /\ inUse' = inUse \cup {node}
             /\ free' = RemoveAt(free, k)
    /\ UNCHANGED <<adHoc, failed>>

\* The pool falls back to memory of its own.
AllocateAdHoc(n) ==
    /\ ~HasFit(n) /\ adHoc < MaxAdHoc
    /\ adHoc' = adHoc + 1
    /\ UNCHANGED <<free, inUse, failed>>

RecycleAdHoc ==
    /\ adHoc > 0
    /\ adHoc' = adHoc - 1
    /\ UNCHANGED <<free, inUse, failed>>

\* The places of the list after which a node may be put back.
Places(node) ==
    {k \in DOMAIN free : /\ End(free[k]) <= node.offset
                         /\ k = Len(free) \/ End(node) <= free[k + 1].offset}

\* Mutant: the node behind is merged and stays in the list.
PutAfterKeepsNext(node, k) ==
    LET before == End(free[k]) = node.offset
        behind == k < Len(free) /\ End(node) = free[k + 1].offset
    IN IF before THEN [free EXCEPT ![k].size = @ + node.size + IF behind THEN free[k + 1].size ELSE 0]
       ELSE IF behind THEN [free EXCEPT ![k + 1] = Node(node.offset, node.size + @.size)]
       ELSE InsertAt(free, k + 1, node)

PutAfter(node, k) ==
    LET before == End(free[k]) = node.offset
        behind == k < Len(free) /\ End(node) = free[k + 1].offset
    IN CASE before /\ behind  -> RemoveAt([free EXCEPT ![k].size = @ + node.size + free[k + 1].size],
                                          k + 1)
         [] before /\ ~behind -> [free EXCEPT ![k].size = @ + node.size]
         [] ~before /\ behind -> [free EXCEPT ![k + 1] = Node(node.offset, node.size + @.size)]
         [] OTHER             -> InsertAt(free, k + 1, node)

PutFirst(node) ==
    IF free # <<>> /\ End(node) = free[1].offset
    THEN [free EXCEPT ![1] = Node(node.offset, node.size + @.size)]
    ELSE <<node>> \o free

GoesFirst(node) == free # <<>> => End(node) <= free[1].offset

Recycle(node) ==
    /\ inUse' = inUse \ {node}
    /\ \/ /\ GoesFirst(node)
          /\ free' = PutFirst(node)
          /\ UNCHANGED failed
       \/ /\ ~GoesFirst(node) /\ Places(node) # {}
          /\ free' = PutAfter(node, CHOOSE k \in Places(node) : \A j \in Places(node) : k <= j)
          /\ UNCHANGED failed
       \/ /\ ~GoesFirst(node) /\ Places(node) = {}   \* LUISA_ERROR: the program ends
          /\ failed' = TRUE
          /\ UNCHANGED free
    /\ UNCHANGED adHoc

PoolNext ==
    /\ ~failed
    /\ \/ \E n \in Request : Allocate(n) \/ AllocateAdHoc(n)
       \/ RecycleAdHoc
       \/ \E node \in inUse : Recycle(node)

PoolSpec == PoolInit /\ [][PoolNext]_poolVars

-----------------------------------------------------------------------------
\* Type invariant.
PoolTypeOK ==
    /\ \A k \in DOMAIN free : free[k] \in [offset : 0 .. Limit, size : 1 .. Limit]
    /\ inUse \subseteq [offset : 0 .. Limit, size : 1 .. Limit]
    /\ adHoc \in 0 .. MaxAdHoc /\ failed = FALSE

\* No byte is lost and none is there twice: the free nodes and the nodes in use
\* cover the block exactly, whatever order the views come back in.
EveryByteOnce ==
    \A b \in 0 .. Limit - 1 :
        LET holds(node) == node.offset <= b /\ b < End(node)
            frees == {k \in DOMAIN free : holds(free[k])}
            users == {node \in inUse : holds(node)}
        IN \/ users = {} /\ \E k \in frees : frees = {k}
           \/ frees = {} /\ \E node \in users : users = {node}

\* Free neighbours are merged: the list is in order and its nodes do not touch,
\* so that it is the single node it began with once every view is back.
FreeNodesApart == \A k \in 1 .. Len(free) - 1 : End(free[k]) < free[k + 1].offset

\* The free list describes the block exactly.
FreeListExact == EveryByteOnce /\ FreeNodesApart

\* No request is refused while a gap is larger than it.
Pool == INSTANCE Allocator
RefusedOnlyWhenFull ==
    [][\A n \in Request : AllocateAdHoc(n) => Pool!MayRefuse(n)]_poolVars

\* A view has the bytes that were asked for at an aligned place that no other
\* view has, which is what the copies into it rely on.
ImplementsAllocator == Pool!Spec /\ RefusedOnlyWhenFull
=============================================================================
