-------------------------- MODULE BindlessTracking --------------------------
(***************************************************************************)
(* What a bindless array of the CPU backends knows of the resources in its *)
(* slots (backends/llvm/llvm_bindless_array over runtime/resource_tracker).*)
(* is_resource_in_bindless_array answers from it, and the reordering of    *)
(* commands relies on the answer.  A place is one of the three entries of  *)
(* a slot: the buffer, the 2D texture, the 3D texture.                     *)
(***************************************************************************)
EXTENDS Integers, Sequences, FiniteSets

CONSTANTS
  Place, Resource, NoResource,
  MaxCalls     \* bound: calls made on the array

ASSUME TrackingAssumption ==
  NoResource \notin Resource /\ IsFiniteSet(Place) /\ MaxCalls \in Nat

VARIABLES
  slots,         \* _slots: what is in each place
  refCount,      \* _ref_count; 0 for a handle that is not in the map
  removeQueue,   \* _remove_queue
  updated,       \* history: no call since the last update
  madeCalls      \* history: the calls made

bindlessVars == <<slots, refCount, removeQueue, updated, madeCalls>>

BindlessInit ==
  /\ slots = [p \in Place |-> NoResource]
  /\ refCount = [r \in Resource |-> 0]
  /\ removeQueue = <<>>
  /\ updated = TRUE /\ madeCalls = 0

-----------------------------------------------------------------------------
CallMade == madeCalls < MaxCalls /\ madeCalls' = madeCalls + 1

\* Mutant: what is replaced is not released.
ReleasedNever(p) == <<>>

\* What remove releases: whatever is in the place.
Released(p) == IF slots[p] = NoResource THEN <<>> ELSE <<slots[p]>>

EmplaceIn(p, r) ==
  /\ CallMade
  /\ removeQueue' = removeQueue \o Released(p)
  /\ slots' = [slots EXCEPT ![p] = r]
  /\ refCount' = [refCount EXCEPT ![r] = @ + 1]
  /\ updated' = FALSE

RemoveFrom(p) ==
  /\ CallMade
  /\ removeQueue' = removeQueue \o Released(p)
  /\ slots' = [slots EXCEPT ![p] = NoResource]
  /\ updated' = FALSE
  /\ UNCHANGED refCount

\* commit: each handle of the queue takes one from its count, as long as the
\* map has it.  The queue is not emptied.
Commit(count, r) ==
  LET releases == Cardinality({i \in DOMAIN removeQueue : removeQueue[i] = r})
  IN IF count > releases THEN count - releases ELSE 0

\* update: the slots go to the device and the tracker commits.
Update ==
  /\ CallMade
  /\ refCount' = [r \in Resource |-> Commit(refCount[r], r)]
  /\ updated' = TRUE
  /\ UNCHANGED <<slots, removeQueue>>

BindlessNext ==
  \/ \E p \in Place : RemoveFrom(p) \/ \E r \in Resource : EmplaceIn(p, r)
  \/ Update

BindlessSpec == BindlessInit /\ [][BindlessNext]_bindlessVars

-----------------------------------------------------------------------------
\* uses_resource
Uses(r) == refCount[r] # 0

InSomePlace(r) == \E p \in Place : slots[p] = r

BindlessTypeOK ==
  /\ slots \in [Place -> Resource \cup {NoResource}]
  /\ refCount \in [Resource -> 0..MaxCalls]
  /\ removeQueue \in Seq(Resource)

\* No dependency is invented for ever: after an update the array no longer
\* claims a resource that was emplaced, moved or replaced and is in no place.
ForgetsWhatLeft == updated => \A r \in Resource : Uses(r) => InSomePlace(r)

\* Not kept by the code, which commits old releases again: a resource that a
\* kernel can reach through the array is known to be in it.
KnowsWhatIsThere == \A r \in Resource : InSomePlace(r) => Uses(r)

=============================================================================
