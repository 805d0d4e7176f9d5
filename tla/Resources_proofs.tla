-------------------------- MODULE Resources_proofs --------------------------
(***************************************************************************)
(* Proofs about the resources that hold others: the bindless arrays, what  *)
(* the front end tracks of them (BindlessTracking) and what the devices    *)
(* show (BindlessDevice); the acceleration structures with their instances *)
(* (AccelBackends); and the states of the resources of the DirectX backend *)
(* (DXStateTracker).                                                       *)
(***************************************************************************)
EXTENDS BindlessTracking, BindlessDevice, AccelBackends, DXStateTracker, FiniteSetTheorems,
        SequenceTheorems, TLAPS

(***************************************************************************)
(* Proofs about BindlessTracking, for any places, resources and number of  *)
(* calls.                                                                  *)
(*                                                                         *)
(* The count of a resource may be too small, since releases are committed  *)
(* again and again, but it is never larger than the places that hold the   *)
(* resource and the releases that wait in the queue together; a commit     *)
(* takes the latter away.                                                  *)
(***************************************************************************)

Residents(s, r) == {p \in Place : s[p] = r}
Releases(q, r) == {i \in DOMAIN q : q[i] = r}

\* 1 when a is b, 0 otherwise.
One(a, b) == IF a = b THEN 1 ELSE 0

TrackTyped ==
  /\ slots \in [Place -> Resource \cup {NoResource}]
  /\ refCount \in [Resource -> Nat]
  /\ removeQueue \in Seq(Resource)
  /\ madeCalls \in 0..MaxCalls
  /\ \A r \in Resource : refCount[r] <= madeCalls

Accounted ==
  \A r \in Resource :
    refCount[r] <= Cardinality(Residents(slots, r)) + Cardinality(Releases(removeQueue, r))

AccountedAfterUpdate ==
  updated => \A r \in Resource : refCount[r] <= Cardinality(Residents(slots, r))

\* The inductive invariant.
TrackInv == TrackTyped /\ Accounted /\ AccountedAfterUpdate

-----------------------------------------------------------------------------
LEMMA CountsAreNat ==
  ASSUME NEW s, NEW q \in Seq(Resource), NEW r
  PROVE  /\ IsFiniteSet(Residents(s, r)) /\ Cardinality(Residents(s, r)) \in Nat
         /\ IsFiniteSet(Releases(q, r)) /\ Cardinality(Releases(q, r)) \in Nat
<1>1. Residents(s, r) \in SUBSET Place
  BY DEF Residents
<1>2. Releases(q, r) \in SUBSET (1..Len(q)) /\ Len(q) \in Nat
  BY LenProperties DEF Releases
<1>3. IsFiniteSet(1..Len(q))
  BY <1>2, FS_Interval
<1> QED
  BY <1>1, <1>2, <1>3, TrackingAssumption, FS_Subset, FS_CardinalityType

\* What remove puts into the queue counts for what was in the place.
LEMMA ReleasesAfter ==
  ASSUME TrackTyped, NEW p \in Place, NEW r \in Resource
  PROVE  /\ removeQueue \o Released(p) \in Seq(Resource)
         /\ Cardinality(Releases(removeQueue \o Released(p), r)) =
              Cardinality(Releases(removeQueue, r)) + One(slots[p], r)
<1> DEFINE q == removeQueue
           n == Len(q)
<1>1. q \in Seq(Resource) /\ n \in Nat /\ DOMAIN q = 1..n
  BY LenProperties DEF TrackTyped
<1>2. CASE slots[p] = NoResource
  <2>1. q \o Released(p) = q
    BY <1>1, <1>2 DEF Released
  <2>2. slots[p] # r
    BY <1>2, TrackingAssumption
  <2> QED
    BY <1>1, <2>1, <2>2, CountsAreNat DEF One
<1>3. CASE slots[p] # NoResource
  <2>1. slots[p] \in Resource /\ Released(p) = <<slots[p]>>
    BY <1>3 DEF Released, TrackTyped
  <2>2. /\ q \o <<slots[p]>> \in Seq(Resource)
        /\ DOMAIN (q \o <<slots[p]>>) = 1..(n + 1)
        /\ \A i \in 1..n : (q \o <<slots[p]>>)[i] = q[i]
        /\ (q \o <<slots[p]>>)[n + 1] = slots[p]
    BY <1>1, <2>1
  <2>3. Releases(q \o <<slots[p]>>, r) =
          IF slots[p] = r THEN Releases(q, r) \cup {n + 1} ELSE Releases(q, r)
    BY <1>1, <2>2 DEF Releases
  <2>4. n + 1 \notin Releases(q, r)
    BY <1>1 DEF Releases
  <2>5. IsFiniteSet(Releases(q, r)) /\ Cardinality(Releases(q, r)) \in Nat
    BY <1>1, CountsAreNat
  <2>6. Cardinality(Releases(q, r) \cup {n + 1}) = Cardinality(Releases(q, r)) + 1
    BY <2>4, <2>5, FS_AddElement
  <2>7. Cardinality(Releases(q \o <<slots[p]>>, r)) =
          Cardinality(Releases(q, r)) + One(slots[p], r)
    BY <2>3, <2>5, <2>6 DEF One
  <2> QED
    BY <2>1, <2>2, <2>7
<1> QED
  BY <1>2, <1>3

\* Putting v into a place takes the place from what was in it and gives it to v.
LEMMA ResidentsAfter ==
  ASSUME TrackTyped, NEW p \in Place, NEW v, NEW r
  PROVE  Cardinality(Residents([slots EXCEPT ![p] = v], r)) =
           Cardinality(Residents(slots, r)) - One(slots[p], r) + One(v, r)
<1> DEFINE before == Residents(slots, r)
           rest == before \ {p}
<1>1. IsFiniteSet(before) /\ Cardinality(before) \in Nat
  BY TrackingAssumption, CountsAreNat DEF TrackTyped
<1>2. IsFiniteSet(rest) /\ Cardinality(rest) = Cardinality(before) - One(slots[p], r)
  <2>1. p \in before <=> slots[p] = r
    BY DEF Residents
  <2> HIDE DEF before
  <2> QED
    BY <1>1, <2>1, FS_RemoveElement DEF One
<1>3. Residents([slots EXCEPT ![p] = v], r) = IF v = r THEN rest \cup {p} ELSE rest
  BY DEF Residents, TrackTyped
<1>4. p \notin rest
  OBVIOUS
<1> HIDE DEF before, rest
<1>5. Cardinality(before) \in Nat /\ Cardinality(rest) \in Nat
  BY <1>1, <1>2, FS_CardinalityType
<1>6. Cardinality(rest \cup {p}) = Cardinality(rest) + 1
  BY <1>2, <1>4, FS_AddElement
<1>7. Cardinality(Residents([slots EXCEPT ![p] = v], r)) = Cardinality(rest) + One(v, r)
  BY <1>3, <1>5, <1>6 DEF One
<1>8. One(slots[p], r) \in Nat /\ One(v, r) \in Nat
  BY DEF One
<1> QED
  BY <1>2, <1>5, <1>7, <1>8 DEF before

\* Together: replacing what is in a place loses nothing from the sum.
LEMMA SumAfter ==
  ASSUME TrackTyped, NEW p \in Place, NEW v, NEW r \in Resource,
         slots' = [slots EXCEPT ![p] = v],
         removeQueue' = removeQueue \o Released(p)
  PROVE  Cardinality(Residents(slots', r)) + Cardinality(Releases(removeQueue', r)) =
           Cardinality(Residents(slots, r)) + Cardinality(Releases(removeQueue, r)) + One(v, r)
<1>1. /\ Cardinality(Residents(slots', r)) =
           Cardinality(Residents(slots, r)) - One(slots[p], r) + One(v, r)
      /\ Cardinality(Releases(removeQueue', r)) =
           Cardinality(Releases(removeQueue, r)) + One(slots[p], r)
  BY ResidentsAfter, ReleasesAfter
<1>2. /\ Cardinality(Residents(slots, r)) \in Nat
      /\ Cardinality(Releases(removeQueue, r)) \in Nat
      /\ One(slots[p], r) \in Nat /\ One(v, r) \in Nat
  BY CountsAreNat DEF TrackTyped, One
<1> QED
  BY <1>1, <1>2

LEMMA InitIInv == BindlessInit => TrackInv
<1> SUFFICES ASSUME BindlessInit PROVE TrackInv
  OBVIOUS
<1>1. TrackTyped
  BY TrackingAssumption DEF BindlessInit, TrackTyped
<1>2. Accounted /\ AccountedAfterUpdate
  <2> SUFFICES ASSUME NEW r \in Resource
               PROVE  /\ refCount[r] <= Cardinality(Residents(slots, r))
                      /\ refCount[r] <= Cardinality(Residents(slots, r))
                                          + Cardinality(Releases(removeQueue, r))
    BY DEF Accounted, AccountedAfterUpdate
  <2>1. refCount[r] = 0
    BY DEF BindlessInit
  <2> QED
    BY <1>1, <2>1, CountsAreNat DEF TrackTyped
<1> QED
  BY <1>1, <1>2 DEF TrackInv

LEMMA EmplaceIInv ==
  ASSUME TrackInv, NEW p \in Place, NEW x \in Resource, EmplaceIn(p, x)
  PROVE  TrackInv'
<1>1. TrackTyped /\ Accounted
  BY DEF TrackInv
<1>2. /\ slots' = [slots EXCEPT ![p] = x]
      /\ removeQueue' = removeQueue \o Released(p)
      /\ refCount' = [refCount EXCEPT ![x] = @ + 1]
      /\ madeCalls' = madeCalls + 1 /\ madeCalls < MaxCalls
      /\ updated' = FALSE
  BY DEF EmplaceIn, CallMade
<1>3. TrackTyped'
  <2>1. removeQueue' \in Seq(Resource)
    BY <1>1, <1>2, ReleasesAfter
  <2> QED
    BY <1>1, <1>2, <2>1, TrackingAssumption DEF TrackTyped
<1>4. Accounted'
  <2> SUFFICES ASSUME NEW r \in Resource
               PROVE  refCount'[r] <= Cardinality(Residents(slots', r))
                                        + Cardinality(Releases(removeQueue', r))
    BY DEF Accounted
  <2>1. refCount'[r] = refCount[r] + One(x, r) /\ refCount[r] \in Nat
    BY <1>1, <1>2 DEF TrackTyped, One
  <2>2. refCount[r] <= Cardinality(Residents(slots, r)) + Cardinality(Releases(removeQueue, r))
    BY <1>1 DEF Accounted
  <2>3. /\ Cardinality(Residents(slots, r)) \in Nat
        /\ Cardinality(Releases(removeQueue, r)) \in Nat /\ One(x, r) \in Nat
    BY <1>1, CountsAreNat DEF TrackTyped, One
  <2>4. Cardinality(Residents(slots', r)) + Cardinality(Releases(removeQueue', r)) =
          Cardinality(Residents(slots, r)) + Cardinality(Releases(removeQueue, r)) + One(x, r)
    BY <1>1, <1>2, SumAfter
  <2> QED
    BY <2>1, <2>2, <2>3, <2>4
<1> QED
  BY <1>2, <1>3, <1>4 DEF TrackInv, AccountedAfterUpdate

LEMMA RemoveIInv ==
  ASSUME TrackInv, NEW p \in Place, RemoveFrom(p)
  PROVE  TrackInv'
<1>1. TrackTyped /\ Accounted
  BY DEF TrackInv
<1>2. /\ slots' = [slots EXCEPT ![p] = NoResource]
      /\ removeQueue' = removeQueue \o Released(p)
      /\ refCount' = refCount
      /\ madeCalls' = madeCalls + 1 /\ madeCalls < MaxCalls
      /\ updated' = FALSE
  BY DEF RemoveFrom, CallMade
<1>3. TrackTyped'
  <2>1. removeQueue' \in Seq(Resource)
    <3>1. CASE Resource = {}
      BY <1>1, <1>2, <3>1 DEF TrackTyped, Released
    <3>2. CASE Resource # {}
      BY <1>1, <1>2, <3>2, ReleasesAfter
    <3> QED
      BY <3>1, <3>2
  <2> QED
    BY <1>1, <1>2, <2>1, TrackingAssumption DEF TrackTyped
<1>4. Accounted'
  <2> SUFFICES ASSUME NEW r \in Resource
               PROVE  refCount'[r] <= Cardinality(Residents(slots', r))
                                        + Cardinality(Releases(removeQueue', r))
    BY DEF Accounted
  <2>1. refCount'[r] = refCount[r] /\ refCount[r] \in Nat
    BY <1>1, <1>2 DEF TrackTyped
  <2>2. refCount[r] <= Cardinality(Residents(slots, r)) + Cardinality(Releases(removeQueue, r))
    BY <1>1 DEF Accounted
  <2>3. /\ Cardinality(Residents(slots, r)) \in Nat
        /\ Cardinality(Releases(removeQueue, r)) \in Nat
    BY <1>1, CountsAreNat DEF TrackTyped
  <2>4. Cardinality(Residents(slots', r)) + Cardinality(Releases(removeQueue', r)) =
          Cardinality(Residents(slots, r)) + Cardinality(Releases(removeQueue, r))
            + One(NoResource, r)
    BY <1>1, <1>2, SumAfter
  <2>5. One(NoResource, r) = 0
    BY TrackingAssumption DEF One
  <2> QED
    BY <2>1, <2>2, <2>3, <2>4, <2>5
<1> QED
  BY <1>2, <1>3, <1>4 DEF TrackInv, AccountedAfterUpdate

LEMMA UpdateIInv ==
  ASSUME TrackInv, Update
  PROVE  TrackInv'
<1>1. TrackTyped /\ Accounted
  BY DEF TrackInv
<1>2. /\ slots' = slots /\ removeQueue' = removeQueue
      /\ refCount' = [r \in Resource |-> Commit(refCount[r], r)]
      /\ madeCalls' = madeCalls + 1 /\ madeCalls < MaxCalls
  BY DEF Update, CallMade
<1>3. ASSUME NEW r \in Resource
      PROVE  /\ refCount'[r] \in Nat /\ refCount'[r] <= refCount[r]
             /\ refCount'[r] <= Cardinality(Residents(slots, r))
             /\ Cardinality(Residents(slots, r)) \in Nat
             /\ Cardinality(Releases(removeQueue, r)) \in Nat
  <2>1. refCount[r] \in Nat
        /\ refCount[r] <= Cardinality(Residents(slots, r)) + Cardinality(Releases(removeQueue, r))
    BY <1>1 DEF TrackTyped, Accounted
  <2>2. /\ Cardinality(Residents(slots, r)) \in Nat
        /\ Cardinality(Releases(removeQueue, r)) \in Nat
    BY <1>1, CountsAreNat DEF TrackTyped
  <2>3. refCount'[r] = IF refCount[r] > Cardinality(Releases(removeQueue, r))
                       THEN refCount[r] - Cardinality(Releases(removeQueue, r)) ELSE 0
    BY <1>2 DEF Commit, Releases
  <2> QED
    BY <2>1, <2>2, <2>3
<1>4. TrackTyped'
  <2>1. refCount' \in [Resource -> Nat] /\ \A r \in Resource : refCount'[r] <= refCount[r]
    BY <1>2, <1>3
  <2> QED
    BY <1>1, <1>2, <2>1, TrackingAssumption DEF TrackTyped
<1>5. Accounted' /\ AccountedAfterUpdate'
  BY <1>2, <1>3 DEF Accounted, AccountedAfterUpdate
<1> QED
  BY <1>4, <1>5 DEF TrackInv

LEMMA TrackStep == TrackInv /\ [BindlessNext]_bindlessVars => TrackInv'
<1> SUFFICES ASSUME TrackInv, [BindlessNext]_bindlessVars PROVE TrackInv'
  OBVIOUS
<1>1. CASE UNCHANGED bindlessVars
  BY <1>1 DEF bindlessVars, TrackInv, TrackTyped, Accounted, AccountedAfterUpdate
<1> QED
  BY <1>1, EmplaceIInv, RemoveIInv, UpdateIInv DEF BindlessNext

\* The count of a resource never exceeds the places that hold it and the
\* releases that wait for it, and after an update not the places alone.
THEOREM CountsBounded == BindlessSpec => []TrackInv
BY InitIInv, TrackStep, PTL DEF BindlessSpec

LEMMA TrackTypes == TrackInv => BindlessTypeOK
BY TrackingAssumption DEF TrackInv, TrackTyped, BindlessTypeOK

\* The counts stay natural numbers within the number of calls.
THEOREM TypeCorrect == BindlessSpec => []BindlessTypeOK
BY TrackTypes, CountsBounded, PTL

\* After an update, is_resource_in_bindless_array denies every resource that is
\* in no place any more, whatever was emplaced, moved and removed before.
THEOREM ForgetsWhatLeftAlways == BindlessSpec => []ForgetsWhatLeft
<1>1. TrackInv => ForgetsWhatLeft
  <2> SUFFICES ASSUME TrackInv, updated, NEW r \in Resource, Uses(r) PROVE InSomePlace(r)
    BY DEF ForgetsWhatLeft
  <2>1. refCount[r] \in Nat /\ refCount[r] # 0
        /\ refCount[r] <= Cardinality(Residents(slots, r))
    BY DEF TrackInv, TrackTyped, AccountedAfterUpdate, Uses
  <2>2. Cardinality(Residents(slots, r)) \in Nat
    BY CountsAreNat DEF TrackInv, TrackTyped
  <2>3. Residents(slots, r) # {}
    BY <2>1, <2>2, FS_EmptySet
  <2> QED
    BY <2>3 DEF Residents, InSomePlace
<1> QED
  BY <1>1, CountsBounded, PTL

-----------------------------------------------------------------------------
(***************************************************************************)
(* For any places and any history, an update shows what the program had put *)
(* into the array, on every backend.  A place is either within what will be *)
(* sent next, or what was sent last (or what the device has, when nothing   *)
(* is on its way) already shows it; and the same holds from each update on  *)
(* its way to the one before it.                                            *)
(***************************************************************************)

DirtyRange == [offset : Nat, size : Nat]
Content == [BindlessPlace -> Nat]
Changes == UNION {[S -> Content] : S \in SUBSET Nat}
UpdateRecord == [slots : Content, cuda : [Kinds -> DirtyRange],
           metal : [content : Content, dirty : DirtyRange],
           dx : [changed : Changes, crashed : BOOLEAN]]

ShowTyped ==
    /\ held \in Content
    /\ cudaDirty \in [Kinds -> DirtyRange]
    /\ metalArray \in [content : Content, dirty : DirtyRange]
    /\ dxArray \in [changed : Changes, crashed : BOOLEAN]
    /\ sent \in Seq(UpdateRecord)
    /\ shown \in [cpu : Content, cuda : Content, metal : Content, dx : Content]
    /\ arrayCalls \in Nat

\* What the device shows of a place when everything before update k is done.
Before(k, device) == IF k = 1 THEN device ELSE sent[k - 1].slots

\* What the program wants is shown by what changed, or by what was there before.
CUDAOK(want, dirty, before) ==
    \A p \in BindlessPlace : want[p] # 0 => Covers(dirty[p[1]], p[2]) \/ before[p] = want[p]
MetalOK(want, array, before) ==
    \A p \in BindlessPlace : want[p] # 0 =>
        array.content[p] = want[p] /\ (Covers(array.dirty, p[2]) \/ before[p] = want[p])
DXOK(want, array, before) ==
    ~array.crashed => \A p \in BindlessPlace : want[p] # 0 =>
        IF p[2] \in DOMAIN array.changed THEN array.changed[p[2]][p] = want[p]
        ELSE before[p] = want[p]

Chained(k, want, dirty, array, changes) ==
    /\ CUDAOK(want, dirty, Before(k, shown.cuda))
    /\ MetalOK(want, array, Before(k, shown.metal))
    /\ DXOK(want, changes, Before(k, shown.dx))
    /\ k # 1 /\ sent[k - 1].dx.crashed => changes.crashed

\* An update is chained to the one before it, and so is what the host has now.
ShowInv ==
    /\ ShowTyped
    /\ \A k \in 1 .. Len(sent) :
          Chained(k, sent[k].slots, sent[k].cuda, sent[k].metal, sent[k].dx)
    /\ Chained(Len(sent) + 1, held, cudaDirty, metalArray, dxArray)

-----------------------------------------------------------------------------
\* DirtyRange::mark returns a range that covers the index and all it covered.
LEMMA MarkedCovers ==
  ASSUME NEW range \in DirtyRange, NEW i \in Nat
  PROVE  /\ Marked(range, i) \in DirtyRange
         /\ Covers(Marked(range, i), i)
         /\ \A j \in Nat : Covers(range, j) => Covers(Marked(range, i), j)
<1>1. CASE range.size = 0
  BY <1>1 DEF DirtyRange, Marked, Covers
<1>2. CASE range.size # 0
  BY <1>2 DEF DirtyRange, Marked, Covers
<1> QED BY <1>1, <1>2

\* A clean range covers nothing.
LEMMA CleanCovers == Clean \in DirtyRange /\ \A j \in Nat : ~Covers(Clean, j)
BY DEF Clean, DirtyRange, Covers

\* A place is a kind and an index.
LEMMA PlaceFacts == \A p \in BindlessPlace : p[1] \in Kinds /\ p[2] \in Nat
BY BindlessDeviceAssumption DEF Kinds

\* No slot has changed in DirectX's empty map.
LEMMA NoChanges == [i \in {} |-> Nowhere] \in Changes /\ DOMAIN [i \in {} |-> Nowhere] = {}
<1>1. Nowhere \in Content
  BY DEF Nowhere, Content
<1>2. [i \in {} |-> Nowhere] \in [{} -> Content]
  BY <1>1
<1> QED BY <1>2 DEF Changes

-----------------------------------------------------------------------------
LEMMA InitHolds == BindlessDeviceInit => ShowInv
<1> SUFFICES ASSUME BindlessDeviceInit PROVE ShowInv
  OBVIOUS
<1> USE DEF BindlessDeviceInit
<1>1. Nowhere \in Content /\ \A p \in BindlessPlace : held[p] = 0
  BY DEF Nowhere, Content
<1>2. ShowTyped
  BY <1>1, CleanCovers, NoChanges DEF ShowTyped, UpdateRecord
<1>3. Len(sent) = 0
  OBVIOUS
<1>4. Chained(1, held, cudaDirty, metalArray, dxArray)
  BY <1>1 DEF Chained, CUDAOK, MetalOK, DXOK
<1> QED BY <1>2, <1>3, <1>4 DEF ShowInv

\* Emplacing marks the place in every backend's record of what changed, and
\* nothing that was marked is forgotten.
LEMMA EmplaceKeeps ==
  ASSUME ShowInv, NEW p \in BindlessPlace, EmplaceInSlot(p)
  PROVE  ShowInv'
<1> USE DEF EmplaceInSlot, ArrayCall
<1> DEFINE before(device) == Before(Len(sent) + 1, device)
<1>1. ShowTyped
  BY DEF ShowInv
<1>2. p[1] \in Kinds /\ p[2] \in Nat /\ \A q \in BindlessPlace : q[1] \in Kinds /\ q[2] \in Nat
  BY PlaceFacts
<1>3. arrayCalls' \in Nat /\ arrayCalls' # 0 /\ held' \in Content
  BY <1>1 DEF ShowTyped, Content
<1>4. /\ cudaDirty' \in [Kinds -> DirtyRange]
      /\ Covers(cudaDirty'[p[1]], p[2])
      /\ \A q \in BindlessPlace : Covers(cudaDirty[q[1]], q[2]) => Covers(cudaDirty'[q[1]], q[2])
  <2>1. cudaDirty[p[1]] \in DirtyRange /\ cudaDirty \in [Kinds -> DirtyRange]
    BY <1>1, <1>2 DEF ShowTyped
  <2>2. cudaDirty' = [cudaDirty EXCEPT ![p[1]] = Marked(cudaDirty[p[1]], p[2])]
    OBVIOUS
  <2> QED BY <2>1, <2>2, <1>2, MarkedCovers
<1>5. /\ metalArray'.content \in Content /\ metalArray'.dirty \in DirtyRange
      /\ metalArray' \in [content : Content, dirty : DirtyRange]
      /\ metalArray'.content = [metalArray.content EXCEPT ![p] = arrayCalls']
      /\ Covers(metalArray'.dirty, p[2])
      /\ \A q \in BindlessPlace : Covers(metalArray.dirty, q[2]) => Covers(metalArray'.dirty, q[2])
  BY <1>1, <1>2, <1>3, MarkedCovers DEF ShowTyped, Content
<1>6. dxArray' \in [changed : Changes, crashed : BOOLEAN]
  <2>1. dxArray.changed \in Changes /\ dxArray.crashed \in BOOLEAN
    BY <1>1 DEF ShowTyped
  <2>2. PICK S \in SUBSET Nat : dxArray.changed \in [S -> Content]
    BY <2>1 DEF Changes
  <2>3. DOMAIN dxArray.changed = S
    BY <2>2
  <2>4. dxArray'.changed \in [S \cup {p[2]} -> Content]
    BY <2>2, <2>3, <1>2, <1>3 DEF DXBound
  <2>5. dxArray'.changed \in Changes
    <3>1. S \cup {p[2]} \in SUBSET Nat
      BY <1>2
    <3> QED BY <3>1, <2>4 DEF Changes
  <2>6. dxArray'.crashed \in BOOLEAN
    BY <2>1 DEF DXBound, Taken
  <2> QED BY <2>5, <2>6 DEF DXBound
<1>7. ShowTyped'
  BY <1>1, <1>3, <1>4, <1>5, <1>6 DEF ShowTyped
<1>8. ASSUME NEW k \in 1 .. Len(sent)
      PROVE  Chained(k, sent[k].slots, sent[k].cuda, sent[k].metal, sent[k].dx)'
  BY DEF ShowInv, Chained, CUDAOK, MetalOK, DXOK, Before
<1>9. \A device : (Before(Len(sent) + 1, device))' = Before(Len(sent) + 1, device')
  BY DEF Before
<1>10. /\ CUDAOK(held, cudaDirty, before(shown.cuda))
       /\ MetalOK(held, metalArray, before(shown.metal))
       /\ DXOK(held, dxArray, before(shown.dx))
  BY DEF ShowInv, Chained
<1>11. held \in Content /\ held' = [held EXCEPT ![p] = arrayCalls']
  BY <1>1 DEF ShowTyped
<1>12. CUDAOK(held', cudaDirty', before(shown.cuda))
  BY <1>4, <1>10, <1>11 DEF CUDAOK, Content
<1>13. MetalOK(held', metalArray', before(shown.metal))
  BY <1>1, <1>5, <1>10, <1>11 DEF MetalOK, Content, ShowTyped
<1>14. DXOK(held', dxArray', before(shown.dx))
  <2> SUFFICES ASSUME ~dxArray'.crashed, NEW q \in BindlessPlace, held'[q] # 0
               PROVE  IF q[2] \in DOMAIN dxArray'.changed THEN dxArray'.changed[q[2]][q] = held'[q]
                      ELSE before(shown.dx)[q] = held'[q]
    BY DEF DXOK
  <2>1. ~dxArray.crashed /\ held[p] = 0
    BY DEF DXBound, Taken
  <2>2. /\ DOMAIN dxArray'.changed = DOMAIN dxArray.changed \cup {p[2]}
        /\ dxArray'.changed[p[2]] = held'
        /\ \A i \in DOMAIN dxArray.changed : i # p[2] => dxArray'.changed[i] = dxArray.changed[i]
    BY DEF DXBound
  <2>3. CASE q[2] = p[2]
    BY <2>2, <2>3
  <2>4. CASE q[2] # p[2]
    <3>1. held'[q] = held[q]
      BY <2>4, <1>11 DEF Content
    <3> QED BY <3>1, <2>1, <2>2, <2>4, <1>10 DEF DXOK
  <2> QED BY <2>3, <2>4
<1>15. dxArray.crashed => dxArray'.crashed
  BY DEF DXBound, Taken
<1>16. Chained(Len(sent) + 1, held, cudaDirty, metalArray, dxArray)'
  BY <1>15, <1>12, <1>13, <1>14 DEF ShowInv, Chained, CUDAOK, MetalOK, DXOK, Before
<1> QED BY <1>7, <1>8, <1>16 DEF ShowInv

\* Removing only makes the claim about the place void.
LEMMA RemoveKeeps ==
  ASSUME ShowInv, NEW p \in BindlessPlace, RemoveFromSlot(p)
  PROVE  ShowInv'
<1> USE DEF RemoveFromSlot, ArrayCall
<1>1. ShowTyped
  BY DEF ShowInv
<1>2. /\ held \in Content /\ held' \in Content
      /\ \A q \in BindlessPlace : held'[q] # 0 => held'[q] = held[q]
  BY <1>1 DEF ShowTyped, Content
<1>3. /\ dxArray' \in [changed : Changes, crashed : BOOLEAN]
      /\ dxArray'.changed = dxArray.changed /\ (dxArray.crashed => dxArray'.crashed)
  BY <1>1 DEF ShowTyped, Taken
<1>4. ShowTyped'
  BY <1>1, <1>2, <1>3 DEF ShowTyped
<1>5. ASSUME NEW k \in 1 .. Len(sent)
      PROVE  Chained(k, sent[k].slots, sent[k].cuda, sent[k].metal, sent[k].dx)'
  BY DEF ShowInv, Chained, CUDAOK, MetalOK, DXOK, Before
<1>6. Chained(Len(sent) + 1, held, cudaDirty, metalArray, dxArray)'
  BY <1>2, <1>3 DEF ShowInv, Chained, CUDAOK, MetalOK, DXOK, Before
<1> QED BY <1>4, <1>5, <1>6 DEF ShowInv

\* What the host has becomes the last update; after it the host has the same
\* slots and nothing changed.
LEMMA SendKeeps ==
  ASSUME ShowInv, SendUpdate
  PROVE  ShowInv'
<1> USE DEF SendUpdate, ArrayCall
<1> DEFINE update == [slots |-> held, cuda |-> cudaDirty, metal |-> metalArray, dx |-> dxArray]
<1>1. ShowTyped
  BY DEF ShowInv
<1>2. update \in UpdateRecord /\ sent \in Seq(UpdateRecord) /\ sent' = Append(sent, update)
  BY <1>1 DEF ShowTyped, UpdateRecord
<1>3. /\ sent' \in Seq(UpdateRecord) /\ Len(sent') = Len(sent) + 1
      /\ \A k \in 1 .. Len(sent) : sent'[k] = sent[k]
      /\ sent'[Len(sent) + 1] = update
  BY <1>2
<1>4. /\ metalArray' \in [content : Content, dirty : DirtyRange]
      /\ metalArray'.content = metalArray.content
      /\ dxArray' \in [changed : Changes, crashed : BOOLEAN]
      /\ dxArray'.crashed = dxArray.crashed /\ DOMAIN dxArray'.changed = {}
  BY <1>1, CleanCovers, NoChanges DEF ShowTyped
<1>5. ShowTyped'
  BY <1>1, <1>3, <1>4, CleanCovers DEF ShowTyped
<1>6. Len(sent) \in Nat
  BY <1>2
<1>7. ASSUME NEW k \in 1 .. Len(sent)
      PROVE  Chained(k, sent[k].slots, sent[k].cuda, sent[k].metal, sent[k].dx)'
  <2>1. Chained(k, sent[k].slots, sent[k].cuda, sent[k].metal, sent[k].dx)
    BY DEF ShowInv
  <2>2. k # 1 => sent'[k - 1] = sent[k - 1]
    BY <1>3, <1>6
  <2>3. sent'[k] = sent[k]
    BY <1>3
  <2> QED BY <2>1, <2>2, <2>3 DEF Chained, CUDAOK, MetalOK, DXOK, Before
<1>8. Chained(Len(sent) + 1, held, cudaDirty, metalArray, dxArray)
  BY DEF ShowInv
<1>9. ASSUME NEW k \in {Len(sent) + 1}
       PROVE  Chained(k, sent[k].slots, sent[k].cuda, sent[k].metal, sent[k].dx)'
  <2>1. k # 1 => sent'[k - 1] = sent[k - 1]
    BY <1>3, <1>6
  <2>2. /\ sent'[k].slots = held /\ sent'[k].cuda = cudaDirty
        /\ sent'[k].metal = metalArray /\ sent'[k].dx = dxArray
    BY <1>3
  <2>3. Chained(k, held, cudaDirty, metalArray, dxArray)
    BY <1>8
  <2> QED BY <2>1, <2>2, <2>3 DEF Chained, CUDAOK, MetalOK, DXOK, Before
<1>10. /\ Len(sent') + 1 # 1 /\ sent'[Len(sent') + 1 - 1].slots = held
       /\ sent'[Len(sent') + 1 - 1].dx = dxArray
  BY <1>3, <1>6
<1>11. Chained(Len(sent) + 1, held, cudaDirty, metalArray, dxArray)'
  <2>1. CUDAOK(held', cudaDirty', held) /\ DXOK(held', dxArray', held)
    BY <1>4 DEF CUDAOK, DXOK
  <2>2. MetalOK(held', metalArray', held)
    BY <1>4, <1>8 DEF Chained, MetalOK
  <2> QED BY <1>4, <1>10, <2>1, <2>2 DEF Chained, CUDAOK, MetalOK, DXOK, Before
<1>12. \A k \in 1 .. Len(sent') : k \in 1 .. Len(sent) \/ k \in {Len(sent) + 1}
  BY <1>3, <1>6
<1> QED BY <1>5, <1>7, <1>9, <1>11, <1>12 DEF ShowInv

-----------------------------------------------------------------------------
\* What the property says of one step.
Shows ==
    \A p \in BindlessPlace : LET put == sent[1].slots[p] IN put # 0 =>
        /\ shown'.cpu[p] = put /\ shown'.cuda[p] = put /\ shown'.metal[p] = put
        /\ ~sent[1].dx.crashed => shown'.dx[p] = put

LEMMA ExecuteShows ==
  ASSUME ShowInv, ExecuteUpdate
  PROVE  Shows
<1> USE DEF ExecuteUpdate
<1>1. ShowTyped
  BY DEF ShowInv
<1>2. Len(sent) \in Nat /\ 1 \in 1 .. Len(sent)
  BY <1>1 DEF ShowTyped
<1>3. Chained(1, sent[1].slots, sent[1].cuda, sent[1].metal, sent[1].dx)
  BY <1>2 DEF ShowInv
<1>4. /\ CUDAOK(sent[1].slots, sent[1].cuda, shown.cuda)
      /\ MetalOK(sent[1].slots, sent[1].metal, shown.metal)
      /\ DXOK(sent[1].slots, sent[1].dx, shown.dx)
  BY <1>3 DEF Chained, Before
<1> SUFFICES ASSUME NEW p \in BindlessPlace, sent[1].slots[p] # 0
             PROVE  /\ shown'.cpu[p] = sent[1].slots[p]
                    /\ shown'.cuda[p] = sent[1].slots[p]
                    /\ shown'.metal[p] = sent[1].slots[p]
                    /\ ~sent[1].dx.crashed => shown'.dx[p] = sent[1].slots[p]
  BY DEF Shows
<1>5. shown'.cpu[p] = sent[1].slots[p]
  BY DEF CPUItems, Over
<1>6. shown'.cuda[p] = sent[1].slots[p]
  BY <1>4 DEF CUDAUploaded, Over, CUDAOK
<1>7. shown'.metal[p] = sent[1].slots[p]
  BY <1>4 DEF MetalCopied, Over, MetalOK
<1>8. ~sent[1].dx.crashed => shown'.dx[p] = sent[1].slots[p]
  BY <1>4 DEF DXUploaded, DXOK
<1> QED BY <1>5, <1>6, <1>7, <1>8

\* The update that was chained to the executed one is chained to the device.
LEMMA ChainMoves ==
  ASSUME ShowTyped, ExecuteUpdate, Shows, NEW k \in 1 .. Len(sent),
         NEW want, NEW dirty, NEW array, NEW changes,
         Chained(k + 1, want, dirty, array, changes)
  PROVE  /\ CUDAOK(want, dirty, IF k = 1 THEN shown'.cuda ELSE sent'[k - 1].slots)
         /\ MetalOK(want, array, IF k = 1 THEN shown'.metal ELSE sent'[k - 1].slots)
         /\ DXOK(want, changes, IF k = 1 THEN shown'.dx ELSE sent'[k - 1].slots)
         /\ k # 1 /\ sent'[k - 1].dx.crashed => changes.crashed
<1>1. Len(sent) \in Nat /\ sent' = Tail(sent) /\ sent # <<>>
  BY DEF ShowTyped, ExecuteUpdate
<1>2. /\ CUDAOK(want, dirty, sent[k].slots)
      /\ MetalOK(want, array, sent[k].slots)
      /\ DXOK(want, changes, sent[k].slots)
      /\ sent[k].dx.crashed => changes.crashed
  <2>1. k + 1 # 1 /\ k + 1 - 1 = k
    OBVIOUS
  <2> QED BY <2>1 DEF Chained, Before
<1>3. CASE k # 1
  <2>1. sent'[k - 1] = sent[k]
    BY <1>1, <1>3 DEF ShowTyped
  <2> QED BY <1>2, <1>3, <2>1
<1>4. CASE k = 1
  <2>1. CUDAOK(want, dirty, shown'.cuda)
    BY <1>2, <1>4 DEF CUDAOK, Shows
  <2>2. MetalOK(want, array, shown'.metal)
    BY <1>2, <1>4 DEF MetalOK, Shows
  <2>3. DXOK(want, changes, shown'.dx)
    BY <1>2, <1>4 DEF DXOK, Shows
  <2> QED BY <1>4, <2>1, <2>2, <2>3
<1> QED BY <1>3, <1>4

LEMMA ExecuteUpdateKeeps ==
  ASSUME ShowInv, ExecuteUpdate
  PROVE  ShowInv'
<1>1. ShowTyped /\ Shows
  BY ExecuteShows DEF ShowInv
<1>2. /\ sent \in Seq(UpdateRecord) /\ sent # <<>> /\ sent' = Tail(sent)
      /\ Len(sent) \in Nat /\ Len(sent) # 0 /\ Len(sent') = Len(sent) - 1
      /\ sent' \in Seq(UpdateRecord) /\ \A k \in 1 .. Len(sent') : sent'[k] = sent[k + 1]
  BY <1>1 DEF ShowTyped, ExecuteUpdate
<1>3. shown' \in [cpu : Content, cuda : Content, metal : Content, dx : Content]
  <2>1. shown \in [cpu : Content, cuda : Content, metal : Content, dx : Content]
    BY <1>1 DEF ShowTyped
  <2>2. sent[1] \in UpdateRecord
    BY <1>2
  <2>3. CPUItems(sent[1]) \in Content /\ CUDAUploaded(sent[1]) \in Content
    BY <2>1, <2>2 DEF CPUItems, CUDAUploaded, Over, Content, UpdateRecord
  <2>4. MetalCopied(sent[1]) \in Content
    BY <2>1, <2>2 DEF MetalCopied, Over, Content, UpdateRecord
  <2>5. DXUploaded(sent[1]) \in Content
    <3>1. PICK S \in SUBSET Nat : sent[1].dx.changed \in [S -> Content]
      BY <2>2 DEF UpdateRecord, Changes
    <3>2. ASSUME NEW p \in BindlessPlace PROVE DXUploaded(sent[1])[p] \in Nat
      <4>1. CASE p[2] \in DOMAIN sent[1].dx.changed
        <5>1. sent[1].dx.changed[p[2]] \in Content
          BY <3>1, <4>1
        <5> QED BY <4>1, <5>1 DEF DXUploaded, Content
      <4>2. CASE p[2] \notin DOMAIN sent[1].dx.changed
        BY <2>1, <4>2 DEF DXUploaded, Content
      <4> QED BY <4>1, <4>2
    <3> QED BY <3>2 DEF DXUploaded, Content
  <2> QED BY <2>3, <2>4, <2>5 DEF ExecuteUpdate
<1>4. ShowTyped'
  BY <1>1, <1>2, <1>3 DEF ShowTyped, ExecuteUpdate
<1>5. ASSUME NEW k \in 1 .. Len(sent')
      PROVE  Chained(k, sent[k].slots, sent[k].cuda, sent[k].metal, sent[k].dx)'
  <2>1. k + 1 \in 1 .. Len(sent) /\ k \in 1 .. Len(sent)
    BY <1>2
  <2>2. Chained(k + 1, sent[k + 1].slots, sent[k + 1].cuda, sent[k + 1].metal, sent[k + 1].dx)
    BY <2>1 DEF ShowInv
  <2>3. sent'[k] = sent[k + 1]
    BY <1>2
  <2> QED BY <1>1, <2>1, <2>2, <2>3, ChainMoves DEF Chained, Before
<1>6. Chained(Len(sent) + 1, held, cudaDirty, metalArray, dxArray)'
  <2>1. Len(sent) \in 1 .. Len(sent) /\ Len(sent') + 1 = Len(sent)
    BY <1>2
  <2>2. Chained(Len(sent) + 1, held, cudaDirty, metalArray, dxArray)
    BY DEF ShowInv
  <2>3. held' = held /\ cudaDirty' = cudaDirty /\ metalArray' = metalArray /\ dxArray' = dxArray
    BY DEF ExecuteUpdate
  <2> QED BY <1>1, <2>1, <2>2, <2>3, ChainMoves DEF Chained, Before
<1> QED BY <1>4, <1>5, <1>6 DEF ShowInv

LEMMA StutterKeeps == ShowInv /\ UNCHANGED arrayVars => ShowInv'
BY DEF ShowInv, ShowTyped, Chained, CUDAOK, MetalOK, DXOK, Before, arrayVars

LEMMA ShowStep == ShowInv /\ [BindlessDeviceNext]_arrayVars => ShowInv'
BY EmplaceKeeps, RemoveKeeps, SendKeeps, ExecuteUpdateKeeps, StutterKeeps DEF BindlessDeviceNext

\* The inductive invariant: each update that is under way, and what the host has
\* now, differs from the one before it only where it says so.
THEOREM UpdatesChained == BindlessDeviceSpec => []ShowInv
BY InitHolds, ShowStep, PTL DEF BindlessDeviceSpec

\* When an update has executed, every place shows what the program had last put
\* there, on every backend and for any places and any history of calls.
THEOREM UpdatesShowTheArray == BindlessDeviceSpec => UpdateShowsTheArray
<1>1. ShowInv /\ [BindlessDeviceNext]_arrayVars =>
        [ExecuteUpdate =>
          \A p \in BindlessPlace : LET put == sent[1].slots[p] IN put # 0 =>
              /\ shown'.cpu[p] = put /\ shown'.cuda[p] = put /\ shown'.metal[p] = put
              /\ ~sent[1].dx.crashed => shown'.dx[p] = put]_arrayVars
  BY ExecuteShows DEF Shows
<1> QED BY <1>1, UpdatesChained, PTL DEF BindlessDeviceSpec, UpdateShowsTheArray

-----------------------------------------------------------------------------
\* What is in a place was put there by a call that was made, on the host, on
\* the way to a device and on it, and a range that is dirty begins and ends at a
\* slot of the array.
CallsMade(n, content) == \A p \in BindlessPlace : content[p] <= n
RangeOfSlots(range) ==
    range.size > 0 => range.offset \in Slots /\ range.offset + range.size - 1 \in Slots
UpdateMade(n, update) ==
    /\ CallsMade(n, update.slots) /\ CallsMade(n, update.metal.content)
    /\ \A i \in DOMAIN update.dx.changed : CallsMade(n, update.dx.changed[i])
ShownMade(n, devices) ==
    CallsMade(n, devices.cpu) /\ CallsMade(n, devices.cuda) /\ CallsMade(n, devices.metal)
    /\ CallsMade(n, devices.dx)
HostUpdate == [slots |-> held, cuda |-> cudaDirty, metal |-> metalArray, dx |-> dxArray]
ArrayMade ==
    /\ UpdateMade(arrayCalls, HostUpdate)
    /\ \A k \in 1 .. Len(sent) : UpdateMade(arrayCalls, sent[k])
    /\ ShownMade(arrayCalls, shown)
    /\ \A k \in Kinds : RangeOfSlots(cudaDirty[k])

\* A range that begins and ends at slots still does when a slot is marked.
LEMMA MarkedOfSlots ==
  ASSUME NEW range \in DirtyRange, NEW p \in BindlessPlace, RangeOfSlots(range)
  PROVE  RangeOfSlots(Marked(range, p[2]))
<1>1. p[2] \in Slots /\ p[2] \in Nat /\ range.offset \in Nat /\ range.size \in Nat
  BY PlaceFacts DEF Slots, DirtyRange
<1>2. CASE range.size = 0
  BY <1>1, <1>2 DEF Marked, RangeOfSlots
<1>3. CASE range.size # 0
  <2> DEFINE end == IF p[2] < range.offset + range.size THEN range.offset + range.size ELSE p[2] + 1
             first == IF p[2] < range.offset THEN p[2] ELSE range.offset
  <2>1. first \in Slots /\ first \in Nat /\ end \in Nat /\ end - 1 \in Slots
    BY <1>1, <1>3 DEF RangeOfSlots
  <2>2. Marked(range, p[2]) = [offset |-> first, size |-> end - first]
    BY <1>3 DEF Marked
  <2>3. first + (end - first) - 1 = end - 1
    BY <2>1
  <2> QED
    BY <2>1, <2>2, <2>3 DEF RangeOfSlots
<1> QED
  BY <1>2, <1>3

LEMMA UpdateContents ==
  ASSUME NEW update \in UpdateRecord
  PROVE  /\ update.slots \in Content /\ update.metal.content \in Content
         /\ \A i \in DOMAIN update.dx.changed : update.dx.changed[i] \in Content
<1>1. update.slots \in Content /\ update.metal.content \in Content /\ update.dx.changed \in Changes
  BY DEF UpdateRecord
<1>2. PICK S \in SUBSET Nat : update.dx.changed \in [S -> Content]
  BY <1>1 DEF Changes
<1> QED
  BY <1>1, <1>2

LEMMA StillMade ==
  ASSUME NEW n \in Nat, NEW m \in Nat, n <= m, NEW content \in Content, CallsMade(n, content)
  PROVE  CallsMade(m, content)
<1> SUFFICES ASSUME NEW p \in BindlessPlace PROVE content[p] <= m
  BY DEF CallsMade
<1>1. content[p] \in Nat /\ content[p] <= n
  BY DEF Content, CallsMade
<1> QED
  BY <1>1

LEMMA UpdateStillMade ==
  ASSUME NEW n \in Nat, NEW m \in Nat, n <= m, NEW update \in UpdateRecord, UpdateMade(n, update)
  PROVE  UpdateMade(m, update)
BY UpdateContents, StillMade DEF UpdateMade

LEMMA HostUpdateTyped == ShowTyped => HostUpdate \in UpdateRecord
BY DEF ShowTyped, HostUpdate, UpdateRecord

LEMMA ArrayMadeInit == BindlessDeviceInit => ArrayMade
<1> SUFFICES ASSUME BindlessDeviceInit PROVE ArrayMade
  OBVIOUS
<1>1. CallsMade(0, Nowhere) /\ arrayCalls = 0 /\ Len(sent) = 0
  BY DEF BindlessDeviceInit, CallsMade, Nowhere
<1>2. UpdateMade(arrayCalls, HostUpdate) /\ ShownMade(arrayCalls, shown)
  BY <1>1 DEF BindlessDeviceInit, UpdateMade, HostUpdate, ShownMade
<1>3. \A k \in Kinds : RangeOfSlots(cudaDirty[k])
  BY DEF BindlessDeviceInit, RangeOfSlots, Clean
<1> QED
  BY <1>1, <1>2, <1>3 DEF ArrayMade

\* What all calls leave as it was made, whatever a new one makes.
LEMMA MadeBefore ==
  ASSUME ShowTyped, ArrayMade, ArrayCall
  PROVE  /\ UpdateMade(arrayCalls', HostUpdate) /\ ShownMade(arrayCalls', shown)
         /\ \A k \in 1 .. Len(sent) : UpdateMade(arrayCalls', sent[k])
<1>1. arrayCalls \in Nat /\ arrayCalls' \in Nat /\ arrayCalls <= arrayCalls'
  BY DEF ShowTyped, ArrayCall
<1>2. HostUpdate \in UpdateRecord /\ \A k \in 1 .. Len(sent) : sent[k] \in UpdateRecord
  BY HostUpdateTyped DEF ShowTyped
<1>3. shown.cpu \in Content /\ shown.cuda \in Content /\ shown.metal \in Content /\ shown.dx \in Content
  BY DEF ShowTyped
<1> QED
  BY <1>1, <1>2, <1>3, UpdateStillMade, StillMade DEF ArrayMade, ShownMade

LEMMA EmplaceMakes ==
  ASSUME ShowTyped, ArrayMade, NEW p \in BindlessPlace, EmplaceInSlot(p)
  PROVE  ArrayMade'
<1>0. ArrayCall
  BY DEF EmplaceInSlot
<1>1. /\ UpdateMade(arrayCalls', HostUpdate) /\ ShownMade(arrayCalls', shown)
      /\ \A k \in 1 .. Len(sent) : UpdateMade(arrayCalls', sent[k])
  BY <1>0, MadeBefore
<1>2. /\ arrayCalls' \in Nat /\ held \in Content /\ metalArray.content \in Content
      /\ cudaDirty \in [Kinds -> DirtyRange]
  BY <1>0 DEF ShowTyped, ArrayCall
<1>3. CallsMade(arrayCalls', held')
  BY <1>1, <1>2 DEF EmplaceInSlot, CallsMade, UpdateMade, HostUpdate, Content
<1>4. CallsMade(arrayCalls', metalArray'.content)
  <2>1. metalArray'.content = [metalArray.content EXCEPT ![p] = arrayCalls']
    BY DEF EmplaceInSlot
  <2>2. CallsMade(arrayCalls', metalArray.content)
    BY <1>1 DEF UpdateMade, HostUpdate
  <2> QED
    BY <1>2, <2>1, <2>2 DEF CallsMade, Content
<1>5. ASSUME NEW i \in DOMAIN dxArray'.changed PROVE CallsMade(arrayCalls', dxArray'.changed[i])
  <2>1. /\ i \in DOMAIN dxArray.changed \cup {p[2]}
        /\ dxArray'.changed[i] = IF i = p[2] THEN held' ELSE dxArray.changed[i]
    BY <1>5 DEF EmplaceInSlot, DXBound
  <2>2. \A j \in DOMAIN dxArray.changed : CallsMade(arrayCalls', dxArray.changed[j])
    BY <1>1 DEF UpdateMade, HostUpdate
  <2> QED
    BY <1>3, <2>1, <2>2
<1>6. ASSUME NEW k \in Kinds PROVE RangeOfSlots(cudaDirty'[k])
  <2>1. cudaDirty'[k] = IF k = p[1] THEN Marked(cudaDirty[k], p[2]) ELSE cudaDirty[k]
    BY <1>2 DEF EmplaceInSlot
  <2> QED
    BY <1>2, <2>1, MarkedOfSlots DEF ArrayMade
<1>7. sent' = sent /\ shown' = shown
  BY DEF EmplaceInSlot
<1>8. UpdateMade(arrayCalls', HostUpdate')
  BY <1>3, <1>4, <1>5 DEF UpdateMade, HostUpdate
<1> QED
  BY <1>1, <1>6, <1>7, <1>8 DEF ArrayMade

LEMMA RemoveMakes ==
  ASSUME ShowTyped, ArrayMade, NEW p \in BindlessPlace, RemoveFromSlot(p)
  PROVE  ArrayMade'
<1>0. ArrayCall
  BY DEF RemoveFromSlot
<1>1. /\ UpdateMade(arrayCalls', HostUpdate) /\ ShownMade(arrayCalls', shown)
      /\ \A k \in 1 .. Len(sent) : UpdateMade(arrayCalls', sent[k])
  BY <1>0, MadeBefore
<1>2. arrayCalls' \in Nat /\ held \in Content
  BY <1>0 DEF ShowTyped, ArrayCall
<1>3. CallsMade(arrayCalls', held')
  BY <1>1, <1>2 DEF RemoveFromSlot, CallsMade, UpdateMade, HostUpdate, Content
<1>4. /\ sent' = sent /\ shown' = shown /\ cudaDirty' = cudaDirty /\ metalArray' = metalArray
      /\ dxArray'.changed = dxArray.changed
  BY DEF RemoveFromSlot, ShowTyped
<1>5. UpdateMade(arrayCalls', HostUpdate')
  BY <1>1, <1>3, <1>4 DEF UpdateMade, HostUpdate
<1> QED
  BY <1>1, <1>4, <1>5 DEF ArrayMade

LEMMA SendMakes ==
  ASSUME ShowTyped, ArrayMade, SendUpdate
  PROVE  ArrayMade'
<1>0. ArrayCall
  BY DEF SendUpdate
<1>1. /\ UpdateMade(arrayCalls', HostUpdate) /\ ShownMade(arrayCalls', shown)
      /\ \A k \in 1 .. Len(sent) : UpdateMade(arrayCalls', sent[k])
  BY <1>0, MadeBefore
<1>2. sent \in Seq(UpdateRecord) /\ sent' = Append(sent, HostUpdate)
  BY DEF ShowTyped, SendUpdate, HostUpdate
<1>3. \A k \in 1 .. Len(sent') : UpdateMade(arrayCalls', sent'[k])
  <2>1. \A k \in 1 .. Len(sent') : (k \in 1 .. Len(sent) /\ sent'[k] = sent[k]) \/ sent'[k] = HostUpdate
    BY <1>2
  <2> QED
    BY <1>1, <2>1
<1>4. /\ held' = held /\ shown' = shown /\ metalArray'.content = metalArray.content
      /\ DOMAIN dxArray'.changed = {}
  BY NoChanges DEF SendUpdate, ShowTyped
<1>5. UpdateMade(arrayCalls', HostUpdate')
  BY <1>1, <1>4 DEF UpdateMade, HostUpdate
<1>6. \A k \in Kinds : RangeOfSlots(cudaDirty'[k])
  BY DEF SendUpdate, RangeOfSlots, Clean
<1> QED
  BY <1>1, <1>3, <1>4, <1>5, <1>6 DEF ArrayMade

LEMMA ExecuteMakes ==
  ASSUME ShowTyped, ArrayMade, ExecuteUpdate
  PROVE  ArrayMade'
<1>1. sent \in Seq(UpdateRecord) /\ sent # <<>> /\ sent' = Tail(sent) /\ 1 \in 1 .. Len(sent)
  BY DEF ShowTyped, ExecuteUpdate
<1>2. \A k \in 1 .. Len(sent') : k + 1 \in 1 .. Len(sent) /\ sent'[k] = sent[k + 1]
  BY <1>1
<1>3. UpdateMade(arrayCalls, sent[1]) /\ ShownMade(arrayCalls, shown)
  BY <1>1 DEF ArrayMade
<1>4. CallsMade(arrayCalls, CPUItems(sent[1])) /\ CallsMade(arrayCalls, CUDAUploaded(sent[1]))
      /\ CallsMade(arrayCalls, MetalCopied(sent[1]))
  BY <1>3 DEF UpdateMade, ShownMade, CallsMade, CPUItems, CUDAUploaded, MetalCopied, Over
<1>5. CallsMade(arrayCalls, DXUploaded(sent[1]))
  BY <1>3 DEF UpdateMade, ShownMade, CallsMade, DXUploaded
<1>6. ShownMade(arrayCalls, shown')
  BY <1>4, <1>5 DEF ShownMade, ExecuteUpdate
<1>7. /\ arrayCalls' = arrayCalls /\ cudaDirty' = cudaDirty /\ HostUpdate' = HostUpdate
  BY DEF ExecuteUpdate, HostUpdate
<1> QED
  BY <1>2, <1>6, <1>7 DEF ArrayMade

LEMMA ArrayMadeStep == ShowInv /\ ArrayMade /\ [BindlessDeviceNext]_arrayVars => ArrayMade'
<1> SUFFICES ASSUME ShowTyped, ArrayMade, [BindlessDeviceNext]_arrayVars PROVE ArrayMade'
  BY DEF ShowInv
<1>1. CASE UNCHANGED arrayVars
  BY <1>1 DEF arrayVars, ArrayMade, HostUpdate
<1> QED
  BY <1>1, EmplaceMakes, RemoveMakes, SendMakes, ExecuteMakes DEF BindlessDeviceNext

LEMMA ArrayTypes == ShowInv /\ ArrayMade => BindlessDeviceTypeOK
<1> SUFFICES ASSUME ShowTyped, ArrayMade PROVE BindlessDeviceTypeOK
  BY DEF ShowInv
<1>1. ASSUME NEW content \in Content, CallsMade(arrayCalls, content)
      PROVE  content \in [BindlessPlace -> 0 .. arrayCalls]
  <2>1. arrayCalls \in Nat /\ content \in [BindlessPlace -> Nat]
    BY DEF ShowTyped, Content
  <2>2. \A p \in BindlessPlace : content[p] \in 0 .. arrayCalls
    BY <1>1, <2>1 DEF CallsMade
  <2> QED
    BY <2>1, <2>2
<1>2. held \in Content /\ CallsMade(arrayCalls, held)
  BY DEF ShowTyped, ArrayMade, UpdateMade, HostUpdate
<1>3. \A b \in DOMAIN shown : shown[b] \in Content /\ CallsMade(arrayCalls, shown[b])
  BY DEF ShowTyped, ArrayMade, ShownMade
<1> QED
  BY <1>1, <1>2, <1>3 DEF BindlessDeviceTypeOK, ArrayMade, RangeOfSlots

\* What a bindless array has in a place, on the host and on every device, was put
\* there by a call that was made, and what is sent begins and ends at its slots.
THEOREM ArrayTypeCorrect == BindlessDeviceSpec => []BindlessDeviceTypeOK
BY InitHolds, ShowStep, ArrayMadeInit, ArrayMadeStep, ArrayTypes, PTL DEF BindlessDeviceSpec

-----------------------------------------------------------------------------
(***************************************************************************)
(* Proofs about AccelBackends, for any meshes, instances and edits.        *)
(*                                                                         *)
(* The front end hands a backend what is pending and keeps no copy of what *)
(* the backend shows.  So the invariant splits every instance the program  *)
(* described in two: a field that is pending is the program's, and a field *)
(* that is not pending is what the backend shows.                          *)
(***************************************************************************)
\* A modification of the host, and an instance of the DirectX backend, which
\* names a mesh by its address.
Edited == [mesh : Mesh \cup {Unset}, transform : Transform \cup {Unset}, visible : Visibility \cup {Unset}]
PlacedInstance == [mesh : (Mesh \X Nat) \cup {Unset}, transform : Transform \cup {Unset},
           visible : Visibility \cup {Unset}]

AccelTyped ==
    /\ AccelTypeOK
    /\ dx \in [all : [Index -> PlacedInstance], map : [Mesh -> SUBSET Index], set : SUBSET Index,
               buffer : [Index -> PlacedInstance], count : Nat]

\* What the host keeps of an index: the instance of the program, and of it what
\* is pending.
HostRight(i) ==
    i <= size =>
      /\ scene[i].mesh \in Mesh /\ scene[i].transform \in Transform /\ scene[i].visible \in Visibility
      /\ meshHandles[i] = scene[i].mesh
      /\ modifications[i].mesh \in {Unset, scene[i].mesh}
      /\ modifications[i].transform \in {Unset, scene[i].transform}
      /\ modifications[i].visible \in {Unset, scene[i].visible}

\* The addresses a mesh has had.
PlacesOf(m) == {<<m, k>> : k \in 1 .. address[m]}

\* What is not pending is shown.
ShownRight(i) ==
    i <= size =>
      /\ modifications[i].transform = Unset =>
           /\ cpu[i].transform = scene[i].transform
           /\ metal.instances[i].transform = scene[i].transform
           /\ cuda.buffer[i].transform \in {scene[i].transform, Undefined}
      /\ modifications[i].visible = Unset =>
           /\ cpu[i].visible = scene[i].visible
           /\ metal.instances[i].visible = scene[i].visible
           /\ cuda.buffer[i].visible \in {scene[i].visible, Undefined}
      /\ modifications[i].mesh = Unset /\ i \notin lost =>
           /\ cpu[i].mesh = scene[i].mesh
           /\ metal.meshes[i] = scene[i].mesh
           /\ cuda.buffer[i].mesh \in PlacesOf(scene[i].mesh) \cup {Undefined}
      /\ ~Present(i) => i <= dx.count

\* On DirectX an address that is kept is the one of a mesh that knows of it, and
\* the buffer has it unless the set says otherwise.
DXRight(i) ==
    /\ i > dx.count => dx.all[i].mesh = Unset
    /\ dx.all[i].mesh = Unset \/ \E m \in Mesh : dx.all[i].mesh = Address(m) /\ i \in dx.map[m]
    /\ i <= dx.count /\ i \notin dx.set => dx.buffer[i].mesh = dx.all[i].mesh

AccelInv ==
    /\ AccelTyped /\ CommandsInRange
    /\ \A i \in Index : HostRight(i) /\ ShownRight(i) /\ DXRight(i)

-----------------------------------------------------------------------------
LEMMA AccelValues ==
  /\ Unset \notin Mesh /\ Unset \notin Transform /\ Unset \notin Visibility
  /\ Unset \notin Mesh \X Nat
BY AccelAssumption, BackendAssumption DEF Visibility

LEMMA AccelFacts ==
  ASSUME AccelTyped
  PROVE  /\ size \in Nat /\ size <= MaxInstances /\ MaxInstances \in Nat /\ lost \subseteq Index /\ calls \in Nat
         /\ meshHandles \in [Index -> Mesh \cup {Unset}]
         /\ modifications \in [Index -> Edited] /\ scene \in [Index -> Edited]
         /\ address \in [Mesh -> 1 .. MaxMoves + 1] /\ \A m \in Mesh : address[m] \in Nat \ {0}
         /\ cpu \in [Index -> Edited] /\ dx.set \subseteq 1 .. dx.count
         /\ dx.all \in [Index -> PlacedInstance] /\ dx.map \in [Mesh -> SUBSET Index]
         /\ dx.buffer \in [Index -> PlacedInstance] /\ dx.count \in Nat
         /\ \A i \in Index : i \in Nat /\ i >= 1 /\ i <= MaxInstances
BY AccelAssumption, BackendAssumption DEF AccelTyped, AccelTypeOK, FrontTypeOK, Edited, Index

LEMMA EditedFacts ==
  /\ \A x \in Edited : /\ x.mesh \in Mesh \cup {Unset} /\ x.transform \in Transform \cup {Unset}
                       /\ x.visible \in Visibility \cup {Unset}
                       /\ x = Instance(x.mesh, x.transform, x.visible)
  /\ \A m \in Mesh \cup {Unset}, t \in Transform \cup {Unset}, v \in Visibility \cup {Unset} :
       Instance(m, t, v) \in Edited
BY DEF Edited, Instance

LEMMA PlacedFacts ==
  /\ \A x \in PlacedInstance : /\ x.mesh \in (Mesh \X Nat) \cup {Unset} /\ x.transform \in Transform \cup {Unset}
                               /\ x.visible \in Visibility \cup {Unset}
  /\ \A m \in (Mesh \X Nat) \cup {Unset}, t \in Transform \cup {Unset}, v \in Visibility \cup {Unset} :
       Instance(m, t, v) \in PlacedInstance
BY DEF PlacedInstance, Instance

LEMMA InstanceFacts ==
  ASSUME NEW m, NEW t, NEW v
  PROVE  Instance(m, t, v).mesh = m /\ Instance(m, t, v).transform = t /\ Instance(m, t, v).visible = v
BY DEF Instance

\* An edit changes what the host keeps of one index at most.
LEMMA EditKept ==
  ASSUME AccelInv, UNCHANGED <<address, cpu, cuda, metal, dx>>, FrontTypeOK', NEW j \in Index,
         \A i \in Index : i # j =>
           /\ modifications'[i] = modifications[i] /\ scene'[i] = scene[i]
           /\ meshHandles'[i] = meshHandles[i] /\ (i \in lost' <=> i \in lost)
           /\ (i <= size' <=> i <= size),
         HostRight(j)', ShownRight(j)', j > size' => modifications'[j] = Nothing
  PROVE  AccelInv'
<1>1. AccelTyped /\ CommandsInRange /\ \A i \in Index : HostRight(i) /\ ShownRight(i) /\ DXRight(i)
  BY DEF AccelInv
<1>2. AccelTyped'
  BY <1>1 DEF AccelTyped, AccelTypeOK
<1>3. size \in Nat /\ size' \in Nat /\ \A i \in Index : i \in Nat
  BY <1>1, <1>2, AccelFacts, AccelAssumption DEF FrontTypeOK
<1>4. ASSUME NEW i \in Index
      PROVE  HostRight(i)' /\ ShownRight(i)' /\ (i > size' => modifications'[i] = Nothing)
  <2>1. CASE i = j
    BY <2>1 DEF HostRight, ShownRight, Present, PlacesOf
  <2>2. CASE i # j
    <3>1. HostRight(i)'
      BY <1>1, <2>2 DEF HostRight
    <3>2. ShownRight(i)'
      BY <1>1, <2>2 DEF ShownRight, Present, PlacesOf
    <3>3. i > size' => modifications'[i] = Nothing
      BY <1>1, <1>3, <2>2 DEF CommandsInRange
    <3> QED
      BY <3>1, <3>2, <3>3
  <2> QED
    BY <2>1, <2>2
<1>5. \A i \in Index : DXRight(i)'
  BY <1>1 DEF DXRight, Address
<1> QED
  BY <1>2, <1>4, <1>5 DEF AccelInv, CommandsInRange

LEMMA AccelHostFacts ==
  ASSUME AccelInv
  PROVE  /\ AccelTyped /\ CommandsInRange /\ FrontTypeOK
         /\ \A i \in Index : HostRight(i) /\ ShownRight(i) /\ DXRight(i)
         /\ size \in Nat /\ MaxInstances \in Nat /\ size <= MaxInstances /\ lost \subseteq Index
         /\ calls \in Nat /\ meshHandles \in [Index -> Mesh \cup {Unset}]
         /\ modifications \in [Index -> Edited] /\ scene \in [Index -> Edited]
         /\ \A i \in Index : i \in Nat /\ i >= 1 /\ i <= MaxInstances
         /\ Nothing \in Edited
  BY AccelFacts, EditedFacts DEF AccelInv, AccelTyped, AccelTypeOK, Nothing

\* A new modification with mesh, transform and visibility.
LEMMA FrontTyped ==
  ASSUME size' \in 0 .. MaxInstances, meshHandles' \in [Index -> Mesh \cup {Unset}],
         modifications' \in [Index -> Edited], scene' \in [Index -> Edited],
         lost' \subseteq Index, calls' \in Nat
  PROVE  FrontTypeOK'
BY DEF FrontTypeOK, Edited

LEMMA EmplaceBackKeeps ==
  ASSUME AccelInv, UNCHANGED <<address, cpu, cuda, metal, dx>>,
         NEW m \in Mesh, NEW t \in Transform, NEW v \in Visibility, EmplaceBack(m, t, v)
  PROVE  AccelInv'
<1>1. PICK j \in Index : j = size + 1
  BY AccelHostFacts DEF EmplaceBack, Index
<1>2. PICK x \in Edited : x = Instance(m, t, v) /\ x.mesh = m /\ x.transform = t /\ x.visible = v
  BY EditedFacts, InstanceFacts
<1>3. /\ size' = j /\ meshHandles' = [meshHandles EXCEPT ![j] = m]
      /\ modifications' = [modifications EXCEPT ![j] = x] /\ scene' = [scene EXCEPT ![j] = x]
      /\ lost' = lost \ {j} /\ calls' = calls + 1
  BY <1>1, <1>2 DEF EmplaceBack, Called
<1>4. /\ modifications' \in [Index -> Edited] /\ modifications'[j] = x
      /\ scene' \in [Index -> Edited] /\ scene'[j] = x
      /\ meshHandles' \in [Index -> Mesh \cup {Unset}] /\ meshHandles'[j] = m
      /\ \A i \in Index : i # j => /\ modifications'[i] = modifications[i] /\ scene'[i] = scene[i]
                                   /\ meshHandles'[i] = meshHandles[i]
  BY <1>3, AccelHostFacts
<1>5. FrontTypeOK'
  BY <1>1, <1>3, <1>4, AccelHostFacts, FrontTyped DEF Index
<1>6. \A i \in Index : i # j => (i <= size' <=> i <= size)
  BY <1>1, <1>3, AccelHostFacts
<1>7. HostRight(j)'
  BY <1>2, <1>4 DEF HostRight
<1>8. ShownRight(j)'
  BY <1>2, <1>4, AccelValues, InstanceFacts DEF ShownRight, Present, Nothing
<1>9. ~(j > size')
  BY <1>1, <1>3, AccelHostFacts
<1> QED
  BY <1>3, <1>4, <1>5, <1>6, <1>7, <1>8, <1>9, EditKept

LEMMA PopKeeps ==
  ASSUME AccelInv, UNCHANGED <<address, cpu, cuda, metal, dx>>, PopBack
  PROVE  AccelInv'
<1>1. PICK j \in Index : j = size
  BY AccelHostFacts DEF PopBack, Index
<1>2. /\ size' = j - 1 /\ meshHandles' = [meshHandles EXCEPT ![j] = Unset]
      /\ modifications' = [i \in Index |-> IF i = j THEN Nothing ELSE modifications[i]]
      /\ scene' = [scene EXCEPT ![j] = Nothing]
      /\ lost' = lost \ {j} /\ calls' = calls + 1
  BY <1>1 DEF PopBack, Called, Erased
<1>3. /\ modifications' \in [Index -> Edited] /\ modifications'[j] = Nothing
      /\ scene' \in [Index -> Edited]
      /\ meshHandles' \in [Index -> Mesh \cup {Unset}]
      /\ \A i \in Index : i # j => /\ modifications'[i] = modifications[i] /\ scene'[i] = scene[i]
                                   /\ meshHandles'[i] = meshHandles[i]
  BY <1>2, AccelHostFacts
<1>4. FrontTypeOK'
  BY <1>1, <1>2, <1>3, AccelHostFacts, FrontTyped
<1>5. \A i \in Index : i # j => (i <= size' <=> i <= size)
  BY <1>1, <1>2, AccelHostFacts
<1>6. ~(j <= size')
  BY <1>1, <1>2, AccelHostFacts
<1>7. HostRight(j)' /\ ShownRight(j)'
  BY <1>6 DEF HostRight, ShownRight
<1> QED
  BY <1>2, <1>3, <1>4, <1>5, <1>7, EditKept

LEMMA SetKeeps ==
  ASSUME AccelInv, UNCHANGED <<address, cpu, cuda, metal, dx>>, NEW j \in Index,
         NEW m \in Mesh, NEW t \in Transform, NEW v \in Visibility, Set(j, m, t, v)
  PROVE  AccelInv'
<1>1. PICK n \in Mesh \cup {Unset} : n = IF m = meshHandles[j] THEN Unset ELSE m
  OBVIOUS
<1>2. PICK x \in Edited : x = Instance(n, t, v) /\ x.mesh = n /\ x.transform = t /\ x.visible = v
  BY EditedFacts, InstanceFacts
<1>3. PICK y \in Edited : y = Instance(m, t, v) /\ y.mesh = m /\ y.transform = t /\ y.visible = v
  BY EditedFacts, InstanceFacts
<1>4. /\ size' = size /\ j <= size /\ meshHandles' = [meshHandles EXCEPT ![j] = m]
      /\ modifications' = [modifications EXCEPT ![j] = x] /\ scene' = [scene EXCEPT ![j] = y]
      /\ lost' = IF m # meshHandles[j] THEN lost \ {j}
                 ELSE IF modifications[j].mesh # Unset THEN lost \cup {j} ELSE lost
      /\ calls' = calls + 1
  BY <1>1, <1>2, <1>3 DEF Set, Called
<1>5. /\ modifications' \in [Index -> Edited] /\ modifications'[j] = x
      /\ scene' \in [Index -> Edited] /\ scene'[j] = y
      /\ meshHandles' \in [Index -> Mesh \cup {Unset}] /\ meshHandles'[j] = m
      /\ \A i \in Index : i # j => /\ modifications'[i] = modifications[i] /\ scene'[i] = scene[i]
                                   /\ meshHandles'[i] = meshHandles[i] /\ (i \in lost' <=> i \in lost)
  BY <1>4, AccelHostFacts
<1>6. lost' \subseteq Index
  BY <1>4, AccelHostFacts
<1>7. FrontTypeOK'
  BY <1>4, <1>5, <1>6, AccelHostFacts, FrontTyped
<1>8. HostRight(j) /\ ShownRight(j)
  BY AccelHostFacts
<1>9. HostRight(j)'
  BY <1>1, <1>2, <1>3, <1>5 DEF HostRight
<1>10. x # Nothing
  BY <1>2, AccelValues, InstanceFacts DEF Nothing
<1>11. ASSUME n = Unset, j \notin lost'
       PROVE  m = scene[j].mesh /\ modifications[j].mesh = Unset /\ j \notin lost
  <2>1. m = meshHandles[j]
    BY <1>1, <1>11, AccelValues
  <2> QED
    BY <1>4, <1>8, <1>11, <2>1 DEF HostRight
<1>12. ShownRight(j)'
  <2>1. t # Unset /\ v # Unset
    BY AccelValues
  <2>2. n = Unset /\ j \notin lost' =>
          /\ cpu[j].mesh = m /\ metal.meshes[j] = m /\ cuda.buffer[j].mesh \in PlacesOf(m) \cup {Undefined}
    BY <1>4, <1>8, <1>11 DEF ShownRight
  <2> QED
    BY <1>2, <1>3, <1>5, <1>10, <2>1, <2>2 DEF ShownRight, Present, PlacesOf
<1>13. ~(j > size')
  BY <1>4, AccelHostFacts
<1> QED
  BY <1>4, <1>5, <1>7, <1>9, <1>12, <1>13, EditKept

LEMMA SetTransformKeeps ==
  ASSUME AccelInv, UNCHANGED <<address, cpu, cuda, metal, dx>>, NEW j \in Index,
         NEW t \in Transform, SetTransform(j, t)
  PROVE  AccelInv'
<1>1. PICK x \in Edited, y \in Edited : x = modifications[j] /\ y = scene[j]
  BY AccelHostFacts
<1>2. PICK a \in Edited, b \in Edited : a = [x EXCEPT !.transform = t] /\ b = [y EXCEPT !.transform = t]
  BY DEF Edited
<1>3. /\ a.mesh = x.mesh /\ a.transform = t /\ a.visible = x.visible
      /\ b.mesh = y.mesh /\ b.transform = t /\ b.visible = y.visible
  BY <1>2 DEF Edited
<1>4. /\ modifications' = [modifications EXCEPT ![j] = a] /\ scene' = [scene EXCEPT ![j] = b]
      /\ j <= size /\ UNCHANGED <<size, meshHandles, lost>> /\ calls' = calls + 1
  BY <1>1, <1>2 DEF SetTransform, Called
<1>5. /\ modifications' \in [Index -> Edited] /\ modifications'[j] = a
      /\ scene' \in [Index -> Edited] /\ scene'[j] = b
      /\ \A i \in Index : i # j => modifications'[i] = modifications[i] /\ scene'[i] = scene[i]
  BY <1>4, AccelHostFacts
<1>6. FrontTypeOK'
  BY <1>4, <1>5, AccelHostFacts, FrontTyped
<1>7. HostRight(j) /\ ShownRight(j)
  BY AccelHostFacts
<1>8. HostRight(j)'
  BY <1>1, <1>3, <1>4, <1>5, <1>7 DEF HostRight
<1>9. t # Unset /\ a # Nothing
  BY <1>3, AccelValues, InstanceFacts DEF Nothing
<1>10. ShownRight(j)'
  BY <1>1, <1>3, <1>4, <1>5, <1>7, <1>9 DEF ShownRight, Present, PlacesOf
<1>11. ~(j > size')
  BY <1>4, AccelHostFacts
<1> QED
  BY <1>4, <1>5, <1>6, <1>8, <1>10, <1>11, EditKept

LEMMA SetVisibilityKeeps ==
  ASSUME AccelInv, UNCHANGED <<address, cpu, cuda, metal, dx>>, NEW j \in Index,
         NEW v \in Visibility, SetVisibility(j, v)
  PROVE  AccelInv'
<1>1. PICK x \in Edited, y \in Edited : x = modifications[j] /\ y = scene[j]
  BY AccelHostFacts
<1>2. PICK a \in Edited, b \in Edited : a = [x EXCEPT !.visible = v] /\ b = [y EXCEPT !.visible = v]
  BY DEF Edited
<1>3. /\ a.mesh = x.mesh /\ a.transform = x.transform /\ a.visible = v
      /\ b.mesh = y.mesh /\ b.transform = y.transform /\ b.visible = v
  BY <1>2 DEF Edited
<1>4. /\ modifications' = [modifications EXCEPT ![j] = a] /\ scene' = [scene EXCEPT ![j] = b]
      /\ j <= size /\ UNCHANGED <<size, meshHandles, lost>> /\ calls' = calls + 1
  BY <1>1, <1>2 DEF SetVisibility, Called
<1>5. /\ modifications' \in [Index -> Edited] /\ modifications'[j] = a
      /\ scene' \in [Index -> Edited] /\ scene'[j] = b
      /\ \A i \in Index : i # j => modifications'[i] = modifications[i] /\ scene'[i] = scene[i]
  BY <1>4, AccelHostFacts
<1>6. FrontTypeOK'
  BY <1>4, <1>5, AccelHostFacts, FrontTyped
<1>7. HostRight(j) /\ ShownRight(j)
  BY AccelHostFacts
<1>8. HostRight(j)'
  BY <1>1, <1>3, <1>4, <1>5, <1>7 DEF HostRight
<1>9. v # Unset /\ a # Nothing
  BY <1>3, AccelValues, InstanceFacts DEF Nothing
<1>10. ShownRight(j)'
  BY <1>1, <1>3, <1>4, <1>5, <1>7, <1>9 DEF ShownRight, Present, PlacesOf
<1>11. ~(j > size')
  BY <1>4, AccelHostFacts
<1> QED
  BY <1>4, <1>5, <1>6, <1>8, <1>10, <1>11, EditKept

LEMMA EditKeeps ==
  ASSUME AccelInv, Edit, UNCHANGED <<address, cpu, cuda, metal, dx>>
  PROVE  AccelInv'
BY EmplaceBackKeeps, PopKeeps, SetKeeps, SetTransformKeeps, SetVisibilityKeeps DEF Edit

\* What the backends make of the modification x of an index.
LEMMA AppliedFacts ==
  ASSUME NEW x, NEW old
  PROVE  /\ Apply(x, old).mesh = Or(x.mesh, old.mesh)
         /\ Apply(x, old).transform = Or(x.transform, old.transform)
         /\ Apply(x, old).visible = Or(x.visible, old.visible)
BY InstanceFacts DEF Apply

LEMMA ResolvedFacts ==
  ASSUME NEW x \in Edited, AccelTyped
  PROVE  /\ Resolved(x).mesh = IF x.mesh = Unset THEN Unset ELSE Address(x.mesh)
         /\ Resolved(x).transform = x.transform /\ Resolved(x).visible = x.visible
         /\ Resolved(x) \in PlacedInstance /\ (Resolved(x).mesh = Unset <=> x.mesh = Unset)
<1>1. /\ Resolved(x).mesh = IF x.mesh = Unset THEN Unset ELSE Address(x.mesh)
      /\ Resolved(x).transform = x.transform /\ Resolved(x).visible = x.visible
  BY DEF Resolved, Edited
<1>2. x.mesh # Unset => Address(x.mesh) \in Mesh \X Nat
  BY EditedFacts, AccelFacts DEF Address
<1>3. Resolved(x).mesh \in (Mesh \X Nat) \cup {Unset}
  BY <1>1, <1>2
<1>4. Resolved(x) \in PlacedInstance
  <2>1. PICK n \in (Mesh \X Nat) \cup {Unset} : n = IF x.mesh = Unset THEN Unset ELSE Address(x.mesh)
    BY <1>1, <1>3
  <2>2. Resolved(x) = [x EXCEPT !.mesh = n]
    BY <2>1 DEF Resolved
  <2>3. [x EXCEPT !.mesh = n] \in PlacedInstance
    BY DEF Edited, PlacedInstance
  <2> QED
    BY <2>2, <2>3
<1>5. Resolved(x).mesh = Unset <=> x.mesh = Unset
  BY <1>1, <1>2, AccelValues
<1> QED
  BY <1>1, <1>4, <1>5

LEMMA BuildShows ==
  ASSUME AccelInv, Build, NEW i \in Index
  PROVE  ShownRight(i)'
<1>1. /\ AccelTyped /\ HostRight(i) /\ ShownRight(i)
      /\ UNCHANGED <<size, scene, lost, address>> /\ size \in Nat /\ i \in Nat
  BY AccelHostFacts DEF Build, TakeModifications
<1>2. PICK x \in Edited, s \in Edited : x = modifications[i] /\ s = scene[i] /\ s = scene'[i]
  BY <1>1, AccelHostFacts
<1>3. SUFFICES ASSUME i <= size
               PROVE  ShownRight(i)'
  BY <1>1 DEF ShownRight
<1>4. /\ x.mesh \in {Unset, s.mesh} /\ x.transform \in {Unset, s.transform} /\ x.visible \in {Unset, s.visible}
      /\ s.mesh \in Mesh /\ s.transform \in Transform /\ s.visible \in Visibility
  BY <1>1, <1>2, <1>3 DEF HostRight
<1>5. /\ x.transform = Unset => /\ cpu[i].transform = s.transform
                                /\ metal.instances[i].transform = s.transform
                                /\ cuda.buffer[i].transform \in {s.transform, Undefined}
      /\ x.visible = Unset => /\ cpu[i].visible = s.visible
                              /\ metal.instances[i].visible = s.visible
                              /\ cuda.buffer[i].visible \in {s.visible, Undefined}
      /\ x.mesh = Unset /\ i \notin lost =>
           /\ cpu[i].mesh = s.mesh /\ metal.meshes[i] = s.mesh
           /\ cuda.buffer[i].mesh \in PlacesOf(s.mesh) \cup {Undefined}
  BY <1>1, <1>2, <1>3 DEF ShownRight
<1>6. /\ cpu'[i].transform = s.transform /\ cpu'[i].visible = s.visible
      /\ i \notin lost => cpu'[i].mesh = s.mesh
  <2>1. cpu'[i] = Apply(x, cpu[i])
    BY <1>1, <1>2, <1>3 DEF Build, CPUBuild, ApplyOnCPU
  <2> QED
    BY <1>4, <1>5, <2>1, AppliedFacts DEF Or
<1>7. /\ metal'.instances[i].transform = s.transform /\ metal'.instances[i].visible = s.visible
      /\ i \notin lost => metal'.meshes[i] = s.mesh
  <2>1. metal'.instances[i] = Apply(x, metal.instances[i]) /\ metal'.meshes[i] = Or(x.mesh, metal.meshes[i])
    BY <1>1, <1>2, <1>3 DEF Build, MetalBuild, MetalMeshes
  <2> QED
    BY <1>4, <1>5, <2>1, AppliedFacts DEF Or
<1>8. /\ cuda'.buffer[i].transform \in {s.transform, Undefined}
      /\ cuda'.buffer[i].visible \in {s.visible, Undefined}
      /\ i \notin lost => cuda'.buffer[i].mesh \in PlacesOf(s.mesh) \cup {Undefined}
  <2>1. PICK old : /\ old = IF Grows \/ i * InstanceSize > cuda.bytes THEN UndefinedInstance
                            ELSE cuda.buffer[i]
                   /\ cuda'.buffer[i] = Apply(Resolved(x), old)
    BY <1>2 DEF Build, CUDABuild, UpdateInstance
  <2>2. /\ x.transform = Unset => old.transform \in {s.transform, Undefined}
        /\ x.visible = Unset => old.visible \in {s.visible, Undefined}
        /\ x.mesh = Unset /\ i \notin lost => old.mesh \in PlacesOf(s.mesh) \cup {Undefined}
    <3>1. CASE old = UndefinedInstance
      BY <3>1, InstanceFacts DEF UndefinedInstance
    <3>2. CASE old = cuda.buffer[i]
      BY <1>5, <3>2
    <3> QED
      BY <2>1, <3>1, <3>2
  <2>3. Address(s.mesh) \in PlacesOf(s.mesh)
    BY <1>1, <1>4, AccelFacts DEF Address, PlacesOf
  <2>4. /\ cuda'.buffer[i].mesh = Or(Resolved(x).mesh, old.mesh)
        /\ cuda'.buffer[i].transform = Or(Resolved(x).transform, old.transform)
        /\ cuda'.buffer[i].visible = Or(Resolved(x).visible, old.visible)
    BY <2>1, AppliedFacts
  <2>5. cuda'.buffer[i].transform \in {s.transform, Undefined} /\ cuda'.buffer[i].visible \in {s.visible, Undefined}
    BY <1>1, <1>4, <2>2, <2>4, ResolvedFacts DEF Or
  <2>6. ASSUME i \notin lost
        PROVE  cuda'.buffer[i].mesh \in PlacesOf(s.mesh) \cup {Undefined}
    <3>1. CASE x.mesh = Unset
      BY <1>1, <2>2, <2>4, <2>6, <3>1, ResolvedFacts DEF Or
    <3>2. CASE x.mesh # Unset
      BY <1>1, <1>4, <2>3, <2>4, <3>2, ResolvedFacts DEF Or
    <3> QED
      BY <3>1, <3>2
  <2> QED
    BY <2>5, <2>6
<1>9. dx'.count = size
  BY DEF Build, DXBuild
<1>10. PlacesOf(s.mesh)' = PlacesOf(s.mesh)
  BY <1>1 DEF PlacesOf
<1>11. scene'[i] = s /\ (i \in lost' <=> i \in lost)
  BY <1>1, <1>2
<1> QED
  BY <1>1, <1>3, <1>6, <1>7, <1>8, <1>9, <1>11 DEF ShownRight, PlacesOf

LEMMA BuildDX ==
  ASSUME AccelInv, Build
  PROVE  /\ dx' \in [all : [Index -> PlacedInstance], map : [Mesh -> SUBSET Index], set : SUBSET Index,
                     buffer : [Index -> PlacedInstance], count : Nat]
         /\ dx'.set = {} /\ \A i \in Index : DXRight(i)'
<1>1. /\ AccelTyped /\ UNCHANGED <<size, address>> /\ size \in Nat
      /\ \A i \in Index : HostRight(i) /\ ShownRight(i) /\ DXRight(i) /\ i \in Nat /\ i >= 1
  BY AccelHostFacts DEF Build, TakeModifications
<1>2. /\ dx'.all = [i \in Index |-> AllInstance(i)]
      /\ dx'.map = [m \in Mesh |-> dx.map[m] \cup {i \in 1 .. size : modifications[i].mesh = m}]
      /\ dx'.set = {} /\ dx'.count = size
      /\ dx'.buffer = [i \in Index |-> IF i <= size /\ (Present(i) \/ i \in dx.set)
                                       THEN Written(AllInstance(i)) ELSE dx.buffer[i]]
      /\ DOMAIN dx' = {"all", "map", "set", "count", "buffer"}
      /\ dx' = [all |-> dx'.all, map |-> dx'.map, set |-> dx'.set, count |-> dx'.count,
                buffer |-> dx'.buffer]
  BY DEF Build, DXBuild
<1>3. ASSUME NEW i \in Index
      PROVE  AllInstance(i) \in PlacedInstance
  <2>1. CASE i > size
    <3>1. Nothing \in PlacedInstance
      BY PlacedFacts DEF Nothing
    <3> QED
      BY <2>1, <3>1 DEF AllInstance
  <2>2. CASE i <= size /\ ~Present(i)
    BY <1>1, <2>2, AccelFacts DEF AllInstance
  <2>3. CASE i <= size /\ Present(i)
    <3>1. PICK x \in Edited : x = modifications[i]
      BY <1>1, AccelFacts
    <3>2. PICK r \in PlacedInstance, o \in PlacedInstance : r = Resolved(x) /\ o = dx.all[i]
      BY <1>1, AccelFacts, ResolvedFacts
    <3>3. Or(r.mesh, o.mesh) \in (Mesh \X Nat) \cup {Unset}
      BY PlacedFacts DEF Or
    <3>4. [r EXCEPT !.mesh = Or(r.mesh, o.mesh)] \in PlacedInstance
      BY <3>3 DEF PlacedInstance
    <3>5. AllInstance(i) = [r EXCEPT !.mesh = Or(r.mesh, o.mesh)]
      BY <1>1, <2>3, <3>1, <3>2 DEF AllInstance
    <3> QED
      BY <3>4, <3>5
  <2> QED
    BY <1>1, <2>1, <2>2, <2>3
<1>4. \A y \in PlacedInstance : Written(y) \in PlacedInstance /\ Written(y).mesh = y.mesh
  BY DEF Written, PlacedInstance, Visibility
<1>5. dx'.all \in [Index -> PlacedInstance] /\ dx'.buffer \in [Index -> PlacedInstance]
  BY <1>1, <1>2, <1>3, <1>4, AccelFacts
<1>6. dx'.map \in [Mesh -> SUBSET Index]
  <2>1. \A k \in 1 .. size : k \in Index
    BY <1>1, AccelHostFacts DEF Index
  <2> QED
    BY <1>1, <1>2, <2>1, AccelFacts
<1>7. ASSUME NEW i \in Index
      PROVE  DXRight(i)'
  <2>1. PICK a \in PlacedInstance : a = AllInstance(i)
    BY <1>3
  <2>2. PICK x \in Edited, o \in PlacedInstance : x = modifications[i] /\ o = dx.all[i]
    BY <1>1, AccelFacts
  <2>3. CASE i > size
    <3>1. dx'.all[i].mesh = Unset
      BY <1>2, <2>3, InstanceFacts DEF AllInstance, Nothing
    <3>2. ~(i <= dx'.count)
      BY <1>1, <1>2, <2>3
    <3> QED
      BY <3>1, <3>2 DEF DXRight
  <2>4. CASE i <= size
    <3>1. dx'.all[i] = a
      BY <1>2, <2>1
    <3>2. dx'.buffer[i].mesh = a.mesh
      <4>1. CASE Present(i) \/ i \in dx.set
        BY <1>2, <1>4, <2>1, <2>4, <4>1
      <4>2. CASE ~Present(i) /\ i \notin dx.set
        <5>1. a = dx.all[i] /\ dx'.buffer[i] = dx.buffer[i]
          BY <1>1, <1>2, <2>1, <2>4, <4>2 DEF AllInstance
        <5>2. i <= dx.count
          BY <1>1, <2>4, <4>2 DEF ShownRight
        <5> QED
          BY <1>1, <4>2, <5>1, <5>2 DEF DXRight
      <4> QED
        BY <4>1, <4>2
    <3>3. \/ a.mesh = o.mesh
          \/ x.mesh \in Mesh /\ a.mesh = Address(x.mesh)
      <4>1. CASE ~Present(i)
        BY <1>1, <2>1, <2>2, <2>4, <4>1 DEF AllInstance
      <4>2. CASE Present(i)
        <5>1. PICK r \in PlacedInstance : r = Resolved(x)
          BY <1>1, ResolvedFacts
        <5>2. a = [r EXCEPT !.mesh = Or(r.mesh, o.mesh)]
          BY <1>1, <2>1, <2>2, <2>4, <4>2, <5>1 DEF AllInstance
        <5>3. a.mesh = Or(r.mesh, o.mesh)
          BY <5>2 DEF PlacedInstance
        <5>4. r.mesh = IF x.mesh = Unset THEN Unset ELSE Address(x.mesh)
          BY <1>1, <5>1, ResolvedFacts
        <5> QED
          BY <5>3, <5>4, EditedFacts DEF Or
      <4> QED
        BY <4>1, <4>2
    <3>4. a.mesh = Unset \/ \E m \in Mesh : a.mesh = Address(m) /\ i \in dx'.map[m]
      <4>1. CASE a.mesh = o.mesh
        BY <1>1, <1>2, <2>2, <4>1 DEF DXRight
      <4>2. CASE x.mesh \in Mesh /\ a.mesh = Address(x.mesh)
        <5>1. i \in 1 .. size
          BY <1>1, <2>4
        <5>2. i \in dx'.map[x.mesh]
          BY <1>2, <2>2, <4>2, <5>1
        <5> QED
          BY <4>2, <5>2
      <4> QED
        BY <3>3, <4>1, <4>2
    <3>5. \A m \in Mesh : Address(m)' = Address(m)
      BY <1>1 DEF Address
    <3>6. ~(i > dx'.count)
      BY <1>1, <1>2, <2>4
    <3> QED
      BY <1>1, <3>1, <3>2, <3>4, <3>6 DEF DXRight, Address
  <2> QED
    BY <1>1, <2>3, <2>4
<1>8. dx' \in [all : [Index -> PlacedInstance], map : [Mesh -> SUBSET Index], set : SUBSET Index,
               buffer : [Index -> PlacedInstance], count : Nat]
  BY <1>1, <1>2, <1>5, <1>6
<1> QED
  BY <1>2, <1>7, <1>8

LEMMA BuildKeeps ==
  ASSUME AccelInv, Build
  PROVE  AccelInv'
<1>1. /\ AccelTyped /\ CommandsInRange /\ FrontTypeOK /\ \A i \in Index : HostRight(i)
      /\ UNCHANGED <<size, meshHandles, scene, lost, address>> /\ calls' = calls + 1
      /\ modifications' = [i \in Index |-> Nothing] /\ size \in Nat
  BY AccelHostFacts DEF Build, TakeModifications, Called
<1>2. modifications' \in [Index -> Edited] /\ \A i \in Index : modifications'[i] = Nothing
  BY <1>1, AccelHostFacts
<1>3. FrontTypeOK'
  BY <1>1, <1>2, AccelHostFacts, FrontTyped
<1>4. cpu' \in [Index -> Edited]
  <2>1. ASSUME NEW i \in Index
        PROVE  ApplyOnCPU(modifications[i], cpu[i]) \in Edited
    <3>1. PICK x \in Edited, y \in Edited : x = modifications[i] /\ y = cpu[i]
      BY <1>1, AccelFacts
    <3>2. /\ Or(x.mesh, y.mesh) \in Mesh \cup {Unset}
          /\ Or(x.transform, y.transform) \in Transform \cup {Unset}
          /\ Or(x.visible, y.visible) \in Visibility \cup {Unset}
      BY EditedFacts DEF Or
    <3> QED
      BY <3>1, <3>2, EditedFacts DEF ApplyOnCPU, Apply
  <2>2. Nothing \in Edited
    BY AccelHostFacts
  <2> QED
    BY <2>1, <2>2 DEF Build, CPUBuild
<1>5. AccelTyped'
  <2>1. AccelTypeOK'
    BY <1>1, <1>3, <1>4, BuildDX DEF AccelTyped, AccelTypeOK, Edited
  <2> QED
    BY <2>1, BuildDX DEF AccelTyped
<1>6. CommandsInRange'
  BY <1>2 DEF CommandsInRange
<1>7. \A i \in Index : HostRight(i)'
  BY <1>1, <1>2, InstanceFacts DEF HostRight, Nothing
<1> QED
  BY <1>5, <1>6, <1>7, BuildShows, BuildDX DEF AccelInv

LEMMA MoveKeeps ==
  ASSUME AccelInv, NEW m \in Mesh, MoveMesh(m)
  PROVE  AccelInv'
<1>1. /\ AccelTyped /\ CommandsInRange /\ FrontTypeOK
      /\ \A i \in Index : HostRight(i) /\ ShownRight(i) /\ DXRight(i) /\ i \in Nat /\ i >= 1
      /\ UNCHANGED <<size, meshHandles, modifications, scene, lost, cpu, cuda, metal>>
      /\ calls' = calls + 1 /\ address[m] <= MaxMoves
      /\ address' = [address EXCEPT ![m] = address[m] + 1] /\ dx' = DXMove(m)
  BY AccelHostFacts DEF MoveMesh, Called, frontVars
<1>2. PICK k \in Nat \ {0} : k = address[m]
  BY <1>1, AccelFacts
<1>3. /\ address' \in [Mesh -> 1 .. MaxMoves + 1] /\ address'[m] = k + 1
      /\ \A n \in Mesh : n # m => address'[n] = address[n]
  <2>1. k + 1 \in 1 .. MaxMoves + 1
    BY <1>1, <1>2, BackendAssumption
  <2> QED
    BY <1>1, <1>2, <2>1, AccelFacts
<1>4. PICK told \in SUBSET Index : told = dx.map[m] \cap 1 .. dx.count
  BY <1>1, AccelFacts
<1>5. \A i \in Index : [dx.all[i] EXCEPT !.mesh = <<m, k + 1>>] \in PlacedInstance
  <2>1. \A y \in PlacedInstance : [y EXCEPT !.mesh = <<m, k + 1>>] \in PlacedInstance
    BY DEF PlacedInstance
  <2> QED
    BY <1>1, <2>1, AccelFacts
<1>6. /\ dx'.all = [i \in Index |-> IF i \in told THEN [dx.all[i] EXCEPT !.mesh = <<m, k + 1>>]
                                    ELSE dx.all[i]]
      /\ dx'.set = dx.set \cup told /\ dx'.map = dx.map /\ dx'.buffer = dx.buffer /\ dx'.count = dx.count
  BY <1>1, <1>2, <1>4 DEF DXMove, AccelTyped
<1>7. dx'.all \in [Index -> PlacedInstance] /\ dx'.set \in SUBSET Index
  BY <1>1, <1>5, <1>6, AccelFacts DEF AccelTyped
<1>8. dx' \in [all : [Index -> PlacedInstance], map : [Mesh -> SUBSET Index], set : SUBSET Index,
               buffer : [Index -> PlacedInstance], count : Nat]
  <2>1. dx' = [dx EXCEPT !.all = dx'.all, !.set = dx'.set]
    BY <1>1, <1>2, <1>4, <1>6 DEF DXMove, AccelTyped
  <2> QED
    BY <1>1, <1>7, <2>1 DEF AccelTyped
<1>9. FrontTypeOK'
  BY <1>1, AccelHostFacts, FrontTyped
<1>10. AccelTyped'
  <2>1. dx'.set \subseteq 1 .. dx'.count
    BY <1>1, <1>4, <1>6, AccelFacts
  <2> QED
    BY <1>1, <1>3, <1>8, <1>9, <2>1 DEF AccelTyped, AccelTypeOK
<1>11. CommandsInRange' /\ \A i \in Index : HostRight(i)'
  BY <1>1 DEF CommandsInRange, HostRight
<1>12. ASSUME NEW i \in Index
       PROVE  ShownRight(i)'
  <2>1. i <= size => PlacesOf(scene[i].mesh) \subseteq PlacesOf(scene[i].mesh)'
    <3>1. ASSUME NEW n \in Mesh
          PROVE  1 .. address[n] \subseteq 1 .. address'[n]
      BY <1>1, <1>2, <1>3, AccelFacts
    <3>2. i <= size => scene[i].mesh \in Mesh
      BY <1>1 DEF HostRight
    <3> QED
      BY <1>1, <3>1, <3>2 DEF PlacesOf
  <2>2. PICK old, new : /\ old = PlacesOf(scene[i].mesh)
                        /\ new = {<<scene[i].mesh, n>> : n \in 1 .. address'[scene[i].mesh]}
    OBVIOUS
  <2>3. i <= size => old \subseteq new
    BY <1>1, <2>1, <2>2 DEF PlacesOf
  <2>4. /\ ShownRight(i) /\ modifications' = modifications /\ scene' = scene /\ lost' = lost
        /\ cpu' = cpu /\ cuda' = cuda /\ metal' = metal /\ size' = size /\ dx'.count = dx.count
    BY <1>1, <1>6
  <2>5. i <= size /\ modifications[i].mesh = Unset /\ i \notin lost =>
          cuda.buffer[i].mesh \in new \cup {Undefined}
    BY <2>2, <2>3, <2>4 DEF ShownRight
  <2>6. (cuda.buffer[i].mesh \in new \cup {Undefined}) =>
          (cuda.buffer[i].mesh \in PlacesOf(scene[i].mesh) \cup {Undefined})'
    BY <2>2, <2>4 DEF PlacesOf
  <2> QED
    BY <2>4, <2>5, <2>6 DEF ShownRight, Present
<1>13. ASSUME NEW i \in Index
       PROVE  DXRight(i)'
  <2>1. DXRight(i)
    BY <1>1
  <2>2. CASE i \in told
    <3>1. PICK y \in PlacedInstance : y = dx.all[i]
      BY <1>1, AccelFacts
    <3>2. dx'.all[i] = [y EXCEPT !.mesh = <<m, k + 1>>]
      BY <1>6, <2>2, <3>1
    <3>3. dx'.all[i].mesh = <<m, k + 1>>
      BY <3>2 DEF PlacedInstance
    <3>4. dx'.all[i].mesh = <<m, address'[m]>> /\ i \in dx'.map[m]
      BY <1>3, <1>4, <1>6, <2>2, <3>3
    <3>5. ~(i > dx'.count) /\ i \in dx'.set
      BY <1>1, <1>4, <1>6, <2>2, AccelFacts
    <3> QED
      BY <3>4, <3>5 DEF DXRight, Address
  <2>3. CASE i \notin told
    <3>1. dx'.all[i] = dx.all[i] /\ dx'.map = dx.map /\ dx'.count = dx.count /\ dx'.buffer = dx.buffer
          /\ (i \in dx'.set <=> i \in dx.set)
      BY <1>6, <2>3
    <3>2. ASSUME dx.all[i].mesh # Unset
          PROVE  \E n \in Mesh : dx.all[i].mesh = <<n, address'[n]>> /\ i \in dx.map[n]
      <4>1. PICK n \in Mesh : dx.all[i].mesh = Address(n) /\ i \in dx.map[n]
        BY <2>1, <3>2 DEF DXRight
      <4>2. i \in 1 .. dx.count
        BY <1>1, <2>1, <3>2, AccelFacts DEF DXRight
      <4>3. n # m
        BY <1>4, <2>3, <4>1, <4>2
      <4> QED
        BY <1>3, <4>1, <4>3 DEF Address
    <3> QED
      BY <2>1, <3>1, <3>2 DEF DXRight, Address
  <2> QED
    BY <2>2, <2>3
<1> QED
  BY <1>10, <1>11, <1>12, <1>13 DEF AccelInv

LEMMA AccelStart == AccelInit => AccelInv
<1> SUFFICES ASSUME AccelInit
             PROVE  AccelInv
  OBVIOUS
<1>1. Nothing \in Edited /\ Nothing \in PlacedInstance /\ Nothing.mesh = Unset
  <2>1. Nothing \in Edited
    BY EditedFacts DEF Nothing
  <2>2. Nothing \in PlacedInstance
    BY PlacedFacts DEF Nothing
  <2> QED
    BY <2>1, <2>2, InstanceFacts DEF Nothing
<1>2. /\ FrontInit /\ address = [m \in Mesh |-> 1] /\ cpu = Blank
      /\ dx = [all |-> Blank, map |-> [m \in Mesh |-> {}], set |-> {}, buffer |-> Blank, count |-> 0]
  BY DEF AccelInit
<1>3. FrontTypeOK
  BY <1>1, <1>2, AccelAssumption DEF FrontInit, FrontTypeOK, Edited
<1>4. Blank \in [Index -> Edited] /\ Blank \in [Index -> PlacedInstance]
  BY <1>1 DEF Blank
<1>5. dx \in [all : [Index -> PlacedInstance], map : [Mesh -> SUBSET Index], set : SUBSET Index,
              buffer : [Index -> PlacedInstance], count : Nat]
  BY <1>2, <1>4
<1>6. AccelTyped
  <2>1. address \in [Mesh -> 1 .. MaxMoves + 1]
    BY <1>2, BackendAssumption
  <2>2. dx.set \subseteq 1 .. dx.count
    BY <1>2
  <2> QED
    BY <1>2, <1>3, <1>4, <1>5, <2>1, <2>2 DEF AccelTyped, AccelTypeOK, Edited
<1>7. CommandsInRange
  BY <1>2 DEF CommandsInRange, FrontInit
<1>8. \A i \in Index : ~(i <= size)
  BY <1>2 DEF FrontInit, Index
<1>9. \A i \in Index : HostRight(i) /\ ShownRight(i)
  BY <1>8 DEF HostRight, ShownRight
<1>10. \A i \in Index : DXRight(i)
  BY <1>1, <1>2 DEF DXRight, Blank, Index
<1> QED
  BY <1>6, <1>7, <1>9, <1>10 DEF AccelInv

LEMMA AccelStep == AccelInv /\ [AccelNext]_accelVars => AccelInv'
<1> SUFFICES ASSUME AccelInv, [AccelNext]_accelVars
             PROVE  AccelInv'
  OBVIOUS
<1>1. CASE Edit /\ UNCHANGED <<address, cpu, cuda, metal, dx>>
  BY <1>1, EditKeeps
<1>2. CASE Build
  BY <1>2, BuildKeeps
<1>3. CASE \E m \in Mesh : MoveMesh(m)
  BY <1>3, MoveKeeps
<1>4. CASE UNCHANGED accelVars
  BY <1>4 DEF accelVars, frontVars, AccelInv, AccelTyped, AccelTypeOK, FrontTypeOK, CommandsInRange,
              HostRight, ShownRight, DXRight, PlacesOf, Present, Address
<1> QED
  BY <1>1, <1>2, <1>3, <1>4 DEF AccelNext

\* Whatever a program edits, and whenever its meshes move, what is not pending is
\* shown by the backends, and the DirectX backend knows who has an address.
THEOREM AccelConsistent == AccelSpec => []AccelInv
BY AccelStart, AccelStep, PTL DEF AccelSpec

LEMMA AccelTypes == AccelInv => AccelTypeOK
BY DEF AccelInv, AccelTyped

\* The variables of the accel keep their types.
THEOREM AccelTypeCorrect == AccelSpec => []AccelTypeOK
BY AccelTypes, AccelConsistent, PTL

\* On the CPU a build shows the instances the program described, and a command
\* changes nothing behind its count, for any number of instances and edits.
THEOREM CPUShowsTheScene == AccelSpec => CPUBuildsTheScene
<1>1. AccelInv => CommandsInRange
  BY DEF AccelInv
<1>2. AccelInv =>
        (Build => \A i \in 1 .. size :
           SameButMesh(cpu'[i], i) /\ (i \notin lost => cpu'[i].mesh = scene[i].mesh))
  <2> SUFFICES ASSUME AccelInv, Build, NEW i \in 1 .. size
               PROVE  SameButMesh(cpu'[i], i) /\ (i \notin lost => cpu'[i].mesh = scene[i].mesh)
    OBVIOUS
  <2>1. i \in Index
    BY AccelHostFacts DEF Index
  <2>2. ShownRight(i)' /\ UNCHANGED <<size, scene, lost>> /\ modifications'[i] = Nothing /\ i <= size
    BY <2>1, BuildShows DEF Build, TakeModifications
  <2> QED
    BY <2>2, InstanceFacts DEF ShownRight, Nothing, SameButMesh
<1> QED
  BY <1>1, <1>2, AccelConsistent, PTL DEF CPUBuildsTheScene

\* CUDA shows no other mesh or transform than the program's, Metal shows the
\* scene with the meshes where they are, and nothing on DirectX dangles, for any
\* number of instances, edits and moves of meshes.
THEOREM GPUShowsTheScene == AccelSpec => GPUBuildsTheScene
<1>1. AccelInv =>
        (Build => \A i \in 1 .. size :
          /\ cuda'.buffer[i].transform \in {scene[i].transform, Undefined}
          /\ cuda'.buffer[i].visible \in {scene[i].visible, Undefined}
          /\ i \notin lost => cuda'.buffer[i].mesh \in
                {<<scene[i].mesh, k>> : k \in 1 .. address[scene[i].mesh]} \cup {Undefined})
  <2> SUFFICES ASSUME AccelInv, Build, NEW i \in 1 .. size
               PROVE  /\ cuda'.buffer[i].transform \in {scene[i].transform, Undefined}
                      /\ cuda'.buffer[i].visible \in {scene[i].visible, Undefined}
                      /\ i \notin lost => cuda'.buffer[i].mesh \in
                            {<<scene[i].mesh, k>> : k \in 1 .. address[scene[i].mesh]} \cup {Undefined}
    OBVIOUS
  <2>1. i \in Index
    BY AccelHostFacts DEF Index
  <2>2. /\ ShownRight(i)' /\ UNCHANGED <<size, scene, lost, address>>
        /\ modifications'[i] = Nothing /\ i <= size
    BY <2>1, BuildShows DEF Build, TakeModifications
  <2> QED
    BY <2>2, InstanceFacts DEF ShownRight, Nothing, PlacesOf
<1>2. AccelInv =>
        (Build /\ ~metal'.crashed => \A i \in 1 .. size :
          /\ SameButMesh(metal'.instances[i], i)
          /\ i \notin lost => metal'.handles[i] = Address(scene[i].mesh))
  <2> SUFFICES ASSUME AccelInv, Build, ~metal'.crashed, NEW i \in 1 .. size
               PROVE  /\ SameButMesh(metal'.instances[i], i)
                      /\ i \notin lost => metal'.handles[i] = Address(scene[i].mesh)
    OBVIOUS
  <2>1. i \in Index
    BY AccelHostFacts DEF Index
  <2>2. /\ ShownRight(i)' /\ UNCHANGED <<size, scene, lost, address>>
        /\ modifications'[i] = Nothing /\ i <= size
    BY <2>1, BuildShows DEF Build, TakeModifications
  <2>3. /\ SameButMesh(metal'.instances[i], i)
        /\ i \notin lost => metal'.meshes[i] = scene[i].mesh
    BY <2>2, InstanceFacts DEF ShownRight, Nothing, SameButMesh
  <2>4. metal'.handles[i] = Address(metal'.meshes[i])
    <3>1. metal' = MetalBuild /\ metal'.meshes = MetalMeshes
      BY DEF Build, MetalBuild
    <3>2. ~metal.crashed /\ ~(\E k \in 1 .. size : MetalMeshes[k] = Unset)
      BY <3>1 DEF MetalBuild
    <3>3. CASE RequiresBuild
      <4>1. metal'.handles = [k \in Index |-> IF k > size THEN Unset ELSE Address(MetalMeshes[k])]
        BY <3>1, <3>2, <3>3 DEF MetalBuild
      <4>2. ~(i > size)
        BY AccelHostFacts
      <4> QED
        BY <2>1, <3>1, <4>1, <4>2
    <3>4. CASE ~RequiresBuild
      <4>1. metal'.handles = metal.handles
        BY <3>1, <3>4 DEF MetalBuild
      <4>2. metal.handles[i] = Address(MetalMeshes[i])
        BY <3>4 DEF RequiresBuild
      <4> QED
        BY <3>1, <4>1, <4>2
    <3> QED
      BY <3>3, <3>4
  <2> QED
    BY <2>3, <2>4
<1>3. AccelInv =>
        (Build => \A i \in 1 .. size :
          dx'.buffer[i].mesh = Unset \/ \E m \in Mesh : dx'.buffer[i].mesh = Address(m))
  <2> SUFFICES ASSUME AccelInv, Build, NEW i \in 1 .. size
               PROVE  dx'.buffer[i].mesh = Unset \/ \E m \in Mesh : dx'.buffer[i].mesh = Address(m)
    OBVIOUS
  <2>1. i \in Index
    BY AccelHostFacts DEF Index
  <2>2. DXRight(i)' /\ dx'.set = {} /\ dx'.count = size /\ address' = address /\ i <= size
    BY <2>1, BuildDX DEF Build, DXBuild
  <2> QED
    BY <2>2 DEF DXRight, Address
<1>4. AccelSpec => CUDAShowsNoOther
  BY <1>1, AccelConsistent, PTL DEF CUDAShowsNoOther
<1>5. AccelSpec => MetalBuildsTheScene
  BY <1>2, AccelConsistent, PTL DEF MetalBuildsTheScene
<1>6. AccelSpec => DXNothingDangles
  BY <1>3, AccelConsistent, PTL DEF DXNothingDangles
<1> QED
  BY <1>4, <1>5, <1>6 DEF GPUBuildsTheScene

-----------------------------------------------------------------------------
(***************************************************************************)
(* Proofs about DXStateTracker, for any resources and any lists.           *)
(*                                                                         *)
(* The argument is about one resource at a time.  Before the barriers of a *)
(* list the entry of a resource that some command has asked for is in a    *)
(* state that a command of the list wants, and a barrier will follow the   *)
(* writes of earlier lists (Asked).  After them the resource is without    *)
(* such writes, and it is as the commands that are still to be encoded     *)
(* need it if the list agrees on it (Kept).  What a kernel writes stays    *)
(* locked in between.  Throughout the entry names the state of the         *)
(* resource (EntryKnown).  An instance buffer is readable, or was written  *)
(* by a kernel of an earlier list, or is asked for by one of this list.    *)
(***************************************************************************)

State == {"READ", "COPY_DEST", "UAV"}
StateEntry == [locked : BOOLEAN, last : State, cur : State, uav : BOOLEAN, present : BOOLEAN]

\* The command records before the barriers of its list that it needs r in the
\* state st.
HasNeed(c, r, st) ==
    /\ c.kind # "build"
    /\ \/ st = "READ" /\ (r \in c.reads \/ (c.bindless /\ r \in Reachable))
       \/ st = NeedOf(c) /\ r \in c.writes

\* A barrier will follow the unordered writes of the entry.
Moves(e) == e.uav \/ e.cur # e.last

\* RecordState and the barriers, for one resource.
RecordEntry(e, state, lock) ==
    IF Keeps(e, lock) THEN e
    ELSE [locked |-> lock \/ e.locked, last |-> e.last, cur |-> state, uav |-> NeedsBarrier(e, state),
          present |-> TRUE]
Emit(e) == [e EXCEPT !.last = e.cur, !.uav = FALSE]

\* The entry e of a resource that is in the state a; u: it has unsynchronized writes.
EntryKnown(e, a, u) ==
    /\ e \in StateEntry /\ a \in State
    /\ IF e.present THEN e.last = a ELSE e = NoEntry /\ a = "READ"
    /\ u => e.last = "UAV"

\* A command of the list l asks for the state st of r.
AskedFor(l, r, st) == \E j \in DOMAIN l : HasNeed(l[j], r, st)
HasBuild(l) == \E i \in DOMAIN l : Sets(l[i])

\* The barriers to come leave r in a state that is asked for, or readable for a
\* build that wants to write it, and none of the unordered writes S unsynchronized.
Answered(l, S, e, r) ==
    /\ r \in S => Moves(e)
    /\ AskedFor(l, r, e.cur) \/ (e.cur = "READ" /\ \E i \in DOMAIN l : Sets(l[i]) /\ r \in l[i].writes)

InstanceAsked(l, S, e, r, k) ==
    /\ e.cur # "COPY_DEST"
    /\ \/ \E j \in DOMAIN l : j <= k /\ HasNeed(l[j], r, "UAV")
       \/ ~e.uav /\ (e.cur = "READ" \/ (r \in S /\ e.cur = e.last))

\* The entry of r when the first k commands have recorded their needs.
Asked(l, S, e, r, k) ==
    /\ e.locked => r \notin InstanceBuffer /\ e.cur = "UAV" /\ Answered(l, S, e, r)
    /\ (\E j \in DOMAIN l : \E st : j <= k /\ HasNeed(l[j], r, st)) => Answered(l, S, e, r)
    /\ r \in InstanceBuffer => InstanceAsked(l, S, e, r, k)

\* What the kernels among the first k commands write is locked.
Locks(l, e, r, k) ==
    \A j \in DOMAIN l : j <= k /\ l[j].kind = "kernel" /\ r \in l[j].writes /\ r \notin InstanceBuffer => e.locked

EntryFits(e, r, k) == EntryKnown(e, actual[r], r \in unsynced) /\ Asked(list, unsynced, e, r, k)

InstanceKept(l, S, e, r) ==
    /\ e.cur = e.last /\ ~e.uav
    /\ e.last = "READ" \/ r \in S \/ (e.last = "UAV" /\ AskedFor(l, r, "UAV"))

\* The entry of r when the commands from k on are still to be encoded.
Kept(l, S, e, r, k) ==
    /\ e.locked => r \notin InstanceBuffer /\ e.last = "UAV" /\ e.cur = "UAV"
    /\ Locks(l, e, r, Len(l))
    /\ \A j \in DOMAIN l : \A st : HasNeed(l[j], r, st) =>
         /\ r \notin S
         /\ e.last = "READ" \/ AskedFor(l, r, e.last)
         /\ e.cur = "READ" \/ AskedFor(l, r, e.cur)
         /\ j >= k /\ Settled(l, r) => e.last = st /\ (HasBuild(l) => e.cur = st)
    /\ r \in InstanceBuffer => InstanceKept(l, S, e, r)

\* The entry of r between two lists.
Rests(S, e, r) ==
    /\ ~e.locked
    /\ r \in InstanceBuffer => e.cur = e.last /\ ~e.uav /\ (e.last = "READ" \/ r \in S)

TrackerTyped ==
    /\ list \in Seq(TrackedCommand)
    /\ pc \in {"idle", "pre", "run", "compact", "more"} /\ next \in Nat \ {0} /\ done \in 0 .. MaxLists
    /\ map \in [Tracked -> StateEntry] /\ actual \in [Tracked -> State] /\ unsynced \subseteq Tracked

TrackerInv ==
    /\ TrackerTyped
    /\ \A r \in Tracked :
         /\ EntryKnown(map[r], actual[r], r \in unsynced)
         /\ pc = "pre" => /\ Asked(list, unsynced, map[r], r, next - 1)
                          /\ Locks(list, map[r], r, next - 1)
         /\ pc = "run" => Kept(list, unsynced, map[r], r, next)
         /\ pc \notin {"pre", "run"} => Rests(unsynced, map[r], r)

-----------------------------------------------------------------------------
LEMMA CommandFacts ==
  ASSUME NEW c \in TrackedCommand
  PROVE  /\ c.kind \in {"copy", "kernel", "build", "mesh"} /\ c.bindless \in BOOLEAN
         /\ c.reads \subseteq Tracked /\ c.writes \subseteq Tracked
         /\ c.kind = "build" => /\ ~c.bindless /\ c.reads \subseteq InstanceBuffer
                                /\ c.writes \subseteq InstanceBuffer /\ (Sets(c) => c.reads = {})
         /\ ~Sets(c) /\ c.kind = "build" => c.writes = {}
         /\ c.kind = "build" => \A r, st : ~HasNeed(c, r, st)
         /\ \A r, st : HasNeed(c, r, st) => st \in State /\ r \in Tracked
         /\ \A r : r \in c.writes /\ c.kind # "build" => HasNeed(c, r, NeedOf(c))
         /\ \A r \in InstanceBuffer : \A st : HasNeed(c, r, st) => st # "COPY_DEST"
         /\ \A r : HasNeed(c, r, "UAV") => c.kind = "kernel" /\ r \in c.writes
         /\ c.kind = "kernel" => NeedOf(c) = "UAV"
<1>1. /\ c.kind \in {"copy", "kernel", "build", "mesh"} /\ c.bindless \in BOOLEAN
      /\ c.reads \subseteq Tracked /\ c.writes \subseteq Tracked
      /\ c.kind # "kernel" => ~c.bindless
      /\ c.kind = "mesh" => c.writes = {}
      /\ c.kind = "build" => c.reads \cup c.writes \subseteq InstanceBuffer /\ {} \in {c.reads, c.writes}
      /\ c.kind \in {"copy", "mesh"} => (c.reads \cup c.writes) \cap InstanceBuffer = {}
  BY DEF TrackedCommand
<1>2. c.kind = "build" => /\ c.reads \subseteq InstanceBuffer /\ c.writes \subseteq InstanceBuffer
                          /\ (Sets(c) => c.reads = {})
  BY <1>1 DEF Sets
<1>3. /\ ~Sets(c) /\ c.kind = "build" => c.writes = {}
      /\ c.kind = "build" => \A r, st : ~HasNeed(c, r, st)
      /\ c.kind = "kernel" => NeedOf(c) = "UAV"
  BY DEF Sets, HasNeed, NeedOf
<1>4. /\ \A r, st : HasNeed(c, r, st) => st \in State /\ r \in Tracked
      /\ \A r : r \in c.writes /\ c.kind # "build" => HasNeed(c, r, NeedOf(c))
  BY <1>1, TrackerAssumption DEF HasNeed, NeedOf, State
<1>5. \A r \in InstanceBuffer : \A st : HasNeed(c, r, st) => st # "COPY_DEST"
  BY <1>1 DEF HasNeed, NeedOf
<1>6. \A r : HasNeed(c, r, "UAV") => c.kind = "kernel" /\ r \in c.writes
  BY <1>1 DEF HasNeed, NeedOf
<1> QED
  BY <1>1, <1>2, <1>3, <1>4, <1>5, <1>6

\* The commands of a list that agree on a resource need it in one state, and no
\* build of the list writes it with them.
LEMMA NeedsAgree ==
  ASSUME NEW l \in Seq(TrackedCommand), NEW r, Settled(l, r), NEW j \in DOMAIN l, NEW t, HasNeed(l[j], r, t)
  PROVE  /\ \A i \in DOMAIN l : \A s : HasNeed(l[i], r, s) => s = t
         /\ \A i \in DOMAIN l : ~(Sets(l[i]) /\ r \in l[i].writes)
<1>1. \A i \in DOMAIN l : \A s : HasNeed(l[i], r, s) => Wanted(l, r, s) /\ s \in State
  <2> SUFFICES ASSUME NEW i \in DOMAIN l, NEW s, HasNeed(l[i], r, s)
               PROVE  Wanted(l, r, s) /\ s \in State
    OBVIOUS
  <2>1. <<r, s>> \in Needs(l[i])
    BY DEF HasNeed, Needs
  <2> QED
    BY <2>1, CommandFacts DEF Wanted
<1>2. \A s : Wanted(l, r, s) /\ s \in State => s = t
  BY <1>1 DEF Settled, State
<1>3. ASSUME NEW i \in DOMAIN l, Sets(l[i]), r \in l[i].writes
      PROVE  FALSE
  <2>1. <<r, "UAV">> \in Needs(l[i])
    BY <1>3 DEF Needs, NeedOf, Sets
  <2>2. t = "UAV"
    BY <1>2, <2>1 DEF Wanted, State
  <2>3. l[j].kind = "kernel" /\ r \in l[j].writes
    BY <2>2, CommandFacts
  <2>4. i = j
    BY <1>3, <2>3 DEF Settled
  <2> QED
    BY <1>3, <2>3, <2>4 DEF Sets
<1> QED
  BY <1>1, <1>2, <1>3

LEMMA EmitKnown ==
  ASSUME NEW e, NEW a, NEW u \in BOOLEAN, EntryKnown(e, a, u)
  PROVE  /\ EntryKnown(Emit(e), IF e.cur # e.last THEN e.cur ELSE a, u /\ ~Moves(e))
         /\ Emit(e).last = e.cur /\ Emit(e).cur = e.cur /\ Emit(e).locked = e.locked /\ ~Emit(e).uav
<1>1. e \in StateEntry /\ a \in State
  BY DEF EntryKnown
<1>2. PICK x : x = Emit(e)
  OBVIOUS
<1>3. /\ x \in StateEntry /\ x.last = e.cur /\ x.cur = e.cur /\ x.locked = e.locked
      /\ x.present = e.present /\ x.uav = FALSE
  BY <1>1, <1>2 DEF Emit, StateEntry
<1>4. CASE e.present
  BY <1>1, <1>2, <1>3, <1>4 DEF EntryKnown, StateEntry, Moves
<1>5. CASE ~e.present
  <2>1. e = NoEntry /\ a = "READ" /\ ~u
    BY <1>5 DEF EntryKnown, NoEntry
  <2>2. x = NoEntry /\ e.cur = e.last
    BY <1>2, <2>1 DEF Emit, NoEntry
  <2> QED
    BY <1>1, <1>2, <1>3, <1>5, <2>1, <2>2 DEF EntryKnown
<1> QED
  BY <1>4, <1>5

LEMMA RecordKnown ==
  ASSUME NEW e, NEW a, NEW u \in BOOLEAN, EntryKnown(e, a, u), NEW st \in State, NEW lock \in BOOLEAN
  PROVE  /\ EntryKnown(RecordEntry(e, st, lock), a, u) /\ RecordEntry(e, st, lock).last = e.last
         /\ RecordEntry(e, st, lock).locked <=> lock \/ e.locked
         /\ ~Keeps(e, lock) => /\ RecordEntry(e, st, lock).cur = st
                               /\ st = "READ" => ~RecordEntry(e, st, lock).uav
                               /\ u => Moves(RecordEntry(e, st, lock))
<1>1. PICK x : x = RecordEntry(e, st, lock)
  OBVIOUS
<1>2. e \in StateEntry /\ a \in State /\ (u => e.last = "UAV") /\ e.last = a
  BY DEF EntryKnown, NoEntry
<1>3. CASE Keeps(e, lock)
  <2>1. x = e /\ e.locked /\ ~lock
    BY <1>1, <1>3 DEF RecordEntry, Keeps
  <2> QED
    BY <1>1, <1>3, <2>1
<1>4. CASE ~Keeps(e, lock)
  <2>1. PICK b \in BOOLEAN : b = NeedsBarrier(e, st)
    BY DEF NeedsBarrier
  <2>2. x = [locked |-> lock \/ e.locked, last |-> e.last, cur |-> st, uav |-> b, present |-> TRUE]
    BY <1>1, <1>4, <2>1 DEF RecordEntry
  <2>3. PICK f \in BOOLEAN : f = (lock \/ e.locked)
    OBVIOUS
  <2>4. x = [locked |-> f, last |-> e.last, cur |-> st, uav |-> b, present |-> TRUE]
    BY <2>2, <2>3
  <2>5. /\ x \in StateEntry /\ x.locked = f /\ x.last = e.last /\ x.cur = st /\ x.uav = b
        /\ x.present = TRUE
    BY <1>2, <2>4 DEF StateEntry
  <2>6. EntryKnown(x, a, u)
    BY <1>2, <2>5 DEF EntryKnown
  <2>7. /\ st = "READ" => ~b
        /\ u => b \/ st # e.last
    BY <1>2, <2>1 DEF NeedsBarrier
  <2>8. u => Moves(x)
    BY <2>5, <2>7 DEF Moves
  <2> QED
    BY <1>1, <2>3, <2>5, <2>6, <2>7, <2>8
<1> QED
  BY <1>3, <1>4

LEMMA KnownBoolean ==
  ASSUME NEW e, NEW a, NEW r, NEW S, EntryKnown(e, a, r \in S)
  PROVE  \E u \in BOOLEAN : (u <=> r \in S) /\ EntryKnown(e, a, u)
<1>1. CASE r \in S
  BY <1>1 DEF EntryKnown
<1>2. CASE r \notin S
  BY <1>2 DEF EntryKnown
<1> QED
  BY <1>1, <1>2

\* RecordState with the set of what is unsynchronized.
LEMMA RecordStays ==
  ASSUME NEW e, NEW a, NEW r, NEW S, EntryKnown(e, a, r \in S), NEW st \in State, NEW lock \in BOOLEAN
  PROVE  /\ EntryKnown(RecordEntry(e, st, lock), a, r \in S) /\ RecordEntry(e, st, lock).last = e.last
         /\ RecordEntry(e, st, lock).locked <=> lock \/ e.locked
         /\ ~Keeps(e, lock) => /\ RecordEntry(e, st, lock).cur = st
                               /\ st = "READ" => ~RecordEntry(e, st, lock).uav
                               /\ r \in S => Moves(RecordEntry(e, st, lock))
<1>1. PICK u \in BOOLEAN : (u <=> r \in S) /\ EntryKnown(e, a, u)
  BY KnownBoolean
<1>2. PICK x : x = RecordEntry(e, st, lock)
  OBVIOUS
<1>3. /\ EntryKnown(x, a, u) /\ x.last = e.last /\ (x.locked <=> lock \/ e.locked)
      /\ ~Keeps(e, lock) => x.cur = st /\ (st = "READ" => ~x.uav) /\ (u => Moves(x))
  BY <1>1, <1>2, RecordKnown
<1>4. EntryKnown(x, a, r \in S)
  BY <1>1, <1>3 DEF EntryKnown
<1> QED
  BY <1>1, <1>2, <1>3, <1>4

\* A need of the next command is recorded.
LEMMA RecordFits ==
  ASSUME TrackerTyped, NEW r \in Tracked, NEW e, NEW k \in Nat, k + 1 \in DOMAIN list,
         EntryFits(e, r, k) \/ EntryFits(e, r, k + 1), NEW st, HasNeed(list[k + 1], r, st), NEW lock \in BOOLEAN,
         lock => r \notin InstanceBuffer /\ st = "UAV"
  PROVE  EntryFits(RecordEntry(e, st, lock), r, k + 1)
<1>1. list \in Seq(TrackedCommand)
  BY DEF TrackerTyped
<1>2. st \in State /\ (r \in InstanceBuffer => st # "COPY_DEST")
  BY <1>1, CommandFacts
<1>3. PICK x : x = RecordEntry(e, st, lock)
  OBVIOUS
<1>4. EntryKnown(e, actual[r], r \in unsynced)
  BY DEF EntryFits
<1>5. /\ EntryKnown(x, actual[r], r \in unsynced) /\ (x.locked <=> lock \/ e.locked)
      /\ ~Keeps(e, lock) => x.cur = st /\ (st = "READ" => ~x.uav) /\ (r \in unsynced => Moves(x))
  BY <1>2, <1>3, <1>4, RecordStays
<1>6. e.locked => r \notin InstanceBuffer /\ e.cur = "UAV" /\ Answered(list, unsynced, e, r)
  BY DEF EntryFits, Asked
<1>7. Answered(list, unsynced, x, r) /\ (x.locked => r \notin InstanceBuffer /\ x.cur = "UAV")
  <2>1. CASE Keeps(e, lock)
    <3>1. x = e /\ e.locked
      BY <1>3, <2>1 DEF RecordEntry, Keeps
    <3> QED
      BY <1>6, <3>1
  <2>2. CASE ~Keeps(e, lock)
    <3>1. Answered(list, unsynced, x, r)
      BY <1>5, <2>2 DEF Answered, AskedFor
    <3>2. x.locked => lock
      <4>1. e.present \/ ~e.locked
        BY <1>4 DEF EntryKnown, NoEntry
      <4> QED
        BY <1>5, <2>2, <4>1 DEF Keeps
    <3> QED
      BY <1>5, <2>2, <3>1, <3>2
  <2> QED
    BY <2>1, <2>2
<1>8. r \in InstanceBuffer => InstanceAsked(list, unsynced, x, r, k + 1)
  <2> SUFFICES ASSUME r \in InstanceBuffer
               PROVE  InstanceAsked(list, unsynced, x, r, k + 1)
    OBVIOUS
  <2>1. ~Keeps(e, lock)
    BY <1>6 DEF Keeps
  <2>2. x.cur = st /\ st # "COPY_DEST" /\ (st = "READ" => ~x.uav) /\ (st = "READ" \/ st = "UAV")
    BY <1>2, <1>5, <2>1 DEF State
  <2> QED
    BY <2>2 DEF InstanceAsked
<1>9. EntryFits(x, r, k + 1)
  BY <1>5, <1>7, <1>8 DEF EntryFits, Asked
<1> QED
  BY <1>3, <1>9

\* The next command needs nothing of r, or to read what is readable already.
LEMMA SkipFits ==
  ASSUME TrackerTyped, NEW r \in Tracked, NEW e, NEW k \in Nat, k + 1 \in DOMAIN list, EntryFits(e, r, k),
         \A st : HasNeed(list[k + 1], r, st) => st = "READ" /\ (e.present => e.cur = "READ")
  PROVE  EntryFits(e, r, k + 1)
<1>1. \A j \in DOMAIN list : j \in Nat
  BY DEF TrackerTyped
<1>2. \A st : HasNeed(list[k + 1], r, st) => Answered(list, unsynced, e, r)
  <2> SUFFICES ASSUME NEW st, HasNeed(list[k + 1], r, st)
               PROVE  Answered(list, unsynced, e, r)
    OBVIOUS
  <2>1. e.cur = "READ" /\ st = "READ"
    BY DEF EntryFits, EntryKnown, NoEntry
  <2>2. r \in unsynced => Moves(e)
    BY <2>1 DEF EntryFits, EntryKnown, Moves
  <2> QED
    BY <2>1, <2>2 DEF Answered, AskedFor
<1>3. \A j \in DOMAIN list : j <= k + 1 => j <= k \/ j = k + 1
  BY <1>1
<1>4. \A j \in DOMAIN list : j <= k => j <= k + 1
  BY <1>1
<1>5. (\E j \in DOMAIN list : \E st : j <= k + 1 /\ HasNeed(list[j], r, st)) => Answered(list, unsynced, e, r)
  BY <1>2, <1>3 DEF EntryFits, Asked
<1>6. r \in InstanceBuffer => InstanceAsked(list, unsynced, e, r, k + 1)
  BY <1>4 DEF EntryFits, Asked, InstanceAsked
<1> QED
  BY <1>5, <1>6 DEF EntryFits, Asked

\* The entries and the states after barriers are functions on the tracked resources.
LEMMA BarriersShape ==
  ASSUME NEW m, NEW a, NEW x, NEW y, x = AfterBarriers(m), y = Transitioned(m, a)
  PROVE  x = [r \in Tracked |-> x[r]] /\ y = [r \in Tracked |-> y[r]]
<1>1. x = [r \in Tracked |-> x[r]]
  BY DEF AfterBarriers
<1>2. y = [r \in Tracked |-> y[r]]
  BY DEF Transitioned
<1> QED
  BY <1>1, <1>2

\* What is recorded for some resources keeps the entries of the others.
LEMMA RecordedFacts ==
  ASSUME NEW m, NEW set, NEW need, NEW lock
  PROVE  /\ DOMAIN Recorded(m, set, need, lock) = Tracked
         /\ Recorded(m, set, need, lock) = [r \in Tracked |-> Recorded(m, set, need, lock)[r]]
         /\ \A r \in Tracked : r \notin set => Recorded(m, set, need, lock)[r] = m[r]
<1>1. /\ DOMAIN Recorded(m, set, need, lock) = Tracked
      /\ Recorded(m, set, need, lock) = [r \in Tracked |-> Recorded(m, set, need, lock)[r]]
  BY DEF Recorded
<1>2. \A r \in Tracked : r \notin set => Recorded(m, set, need, lock)[r] = m[r]
  BY DEF Recorded
<1> QED
  BY <1>1, <1>2

LEMMA PreProcessedFits ==
  ASSUME TrackerTyped, NEW r \in Tracked, NEW k \in Nat, k + 1 \in DOMAIN list, EntryFits(map[r], r, k)
  PROVE  EntryFits(PreProcessed(list[k + 1])[r], r, k + 1)
<1>1. PICK c \in TrackedCommand : c = list[k + 1]
  BY DEF TrackerTyped
<1>2. PICK e : e = map[r]
  OBVIOUS
<1>3. EntryFits(e, r, k)
  BY <1>2
<1>4. PICK m0 : m0 = IF c.bindless THEN Recorded(map, BindlessRestored(map), "READ", FALSE) ELSE map
  OBVIOUS
<1>5. m0[r] = IF c.bindless /\ r \in BindlessRestored(map) THEN RecordEntry(e, "READ", FALSE) ELSE e
  BY <1>2, <1>4 DEF Recorded, RecordEntry
<1>6. c.bindless /\ r \in BindlessRestored(map) => EntryFits(m0[r], r, k + 1)
  <2> SUFFICES ASSUME c.bindless, r \in BindlessRestored(map)
               PROVE  EntryFits(m0[r], r, k + 1)
    OBVIOUS
  <2>1. HasNeed(c, r, "READ")
    BY CommandFacts DEF HasNeed, BindlessRestored
  <2>2. EntryFits(RecordEntry(e, "READ", FALSE), r, k + 1)
    BY <1>1, <1>3, <2>1, RecordFits
  <2> QED
    BY <1>5, <2>2
<1>7. CASE c.kind = "build"
  <2>1. PreProcessed(c)[r] = e
    BY <1>1, <1>4, <1>5, <1>7, CommandFacts DEF PreProcessed
  <2>2. \A st : ~HasNeed(c, r, st)
    BY <1>7, CommandFacts
  <2>3. EntryFits(e, r, k + 1)
    BY <1>1, <1>3, <2>2, SkipFits
  <2> QED
    BY <1>1, <2>1, <2>3
<1>8. CASE c.kind # "build"
  <2>1. PICK m1, m2, m3 : /\ m1 = Recorded(m0, c.reads, "READ", FALSE)
                          /\ m2 = Recorded(m1, c.writes \ InstanceBuffer, NeedOf(c), c.kind = "kernel")
                          /\ m3 = Recorded(m2, c.writes \cap InstanceBuffer, NeedOf(c), FALSE)
    OBVIOUS
  <2>2. PreProcessed(c) = m3
    BY <1>4, <1>8, <2>1 DEF PreProcessed
  <2>3. r \in c.reads => EntryFits(m1[r], r, k + 1)
    <3> SUFFICES ASSUME r \in c.reads
                 PROVE  EntryFits(m1[r], r, k + 1)
      OBVIOUS
    <3>1. HasNeed(c, r, "READ")
      BY <1>8 DEF HasNeed
    <3>2. EntryFits(m0[r], r, k) \/ EntryFits(m0[r], r, k + 1)
      BY <1>3, <1>5, <1>6
    <3>3. EntryFits(RecordEntry(m0[r], "READ", FALSE), r, k + 1)
      BY <1>1, <3>1, <3>2, RecordFits
    <3> QED
      BY <2>1, <3>3 DEF Recorded, RecordEntry
  <2>4. r \notin c.reads => m1[r] = m0[r]
    BY <2>1 DEF Recorded
  <2>5. EntryFits(m1[r], r, k) \/ EntryFits(m1[r], r, k + 1)
    BY <1>3, <1>5, <1>6, <2>3, <2>4
  <2>6. r \in c.writes => HasNeed(c, r, NeedOf(c))
    BY <1>8, CommandFacts
  <2>7. PICK lock \in BOOLEAN : (lock <=> c.kind = "kernel") /\ lock = (c.kind = "kernel")
    OBVIOUS
  <2>8. r \in c.writes \ InstanceBuffer => EntryFits(m2[r], r, k + 1)
    <3> SUFFICES ASSUME r \in c.writes \ InstanceBuffer
                 PROVE  EntryFits(m2[r], r, k + 1)
      OBVIOUS
    <3>1. lock => NeedOf(c) = "UAV"
      BY <2>7, CommandFacts
    <3>2. EntryFits(RecordEntry(m1[r], NeedOf(c), lock), r, k + 1)
      BY <1>1, <2>5, <2>6, <3>1, RecordFits
    <3> QED
      BY <2>1, <2>7, <3>2 DEF Recorded, RecordEntry
  <2>9. r \notin c.writes \ InstanceBuffer => m2[r] = m1[r]
    <3>1. PICK set : set = c.writes \ InstanceBuffer
      OBVIOUS
    <3>2. m2 = Recorded(m1, set, NeedOf(c), c.kind = "kernel")
      BY <2>1, <3>1
    <3>3. r \notin set => m2[r] = m1[r]
      BY <3>2 DEF Recorded
    <3> QED
      BY <3>1, <3>3
  <2>10. r \in c.writes \cap InstanceBuffer => EntryFits(m3[r], r, k + 1)
    <3> SUFFICES ASSUME r \in c.writes \cap InstanceBuffer
                 PROVE  EntryFits(m3[r], r, k + 1)
      OBVIOUS
    <3>1. EntryFits(m2[r], r, k) \/ EntryFits(m2[r], r, k + 1)
      BY <2>5, <2>9
    <3>2. EntryFits(RecordEntry(m2[r], NeedOf(c), FALSE), r, k + 1)
      BY <1>1, <2>6, <3>1, RecordFits
    <3> QED
      BY <2>1, <3>2 DEF Recorded, RecordEntry
  <2>11. r \notin c.writes \cap InstanceBuffer => m3[r] = m2[r]
    BY <2>1 DEF Recorded
  <2>12. ASSUME r \notin c.writes, r \notin c.reads, ~(c.bindless /\ r \in BindlessRestored(map))
         PROVE  EntryFits(m3[r], r, k + 1)
    <3>1. m3[r] = e
      BY <1>5, <2>4, <2>9, <2>11, <2>12
    <3>2. \A st : HasNeed(c, r, st) => st = "READ" /\ (e.present => e.cur = "READ")
      BY <1>2, <2>12 DEF HasNeed, BindlessRestored, Writable
    <3>3. EntryFits(e, r, k + 1)
      BY <1>1, <1>3, <3>2, SkipFits
    <3> QED
      BY <3>1, <3>3
  <2>13. EntryFits(m3[r], r, k + 1)
    <3>1. CASE r \in c.writes
      BY <2>8, <2>10, <2>11, <3>1
    <3>2. CASE r \notin c.writes /\ r \in c.reads
      BY <2>3, <2>9, <2>11, <3>2
    <3>3. CASE r \notin c.writes /\ r \notin c.reads /\ c.bindless /\ r \in BindlessRestored(map)
      BY <1>6, <2>4, <2>9, <2>11, <3>3
    <3> QED
      BY <2>12, <3>1, <3>2, <3>3
  <2> QED
    BY <1>1, <2>2, <2>13
<1> QED
  BY <1>7, <1>8

\* RecordState does not give a lock up, and takes the one it is asked for.
LEMMA RecordedLocks ==
  ASSUME NEW m, NEW set, NEW st, NEW lock, NEW r \in Tracked
  PROVE  /\ m[r].locked => Recorded(m, set, st, lock)[r].locked
         /\ r \in set /\ lock => Recorded(m, set, st, lock)[r].locked
<1>1. PICK e : e = m[r]
  OBVIOUS
<1>2. Recorded(m, set, st, lock)[r] = IF r \notin set THEN e ELSE RecordEntry(e, st, lock)
  BY <1>1 DEF Recorded, RecordEntry
<1>3. (e.locked => RecordEntry(e, st, lock).locked) /\ (lock => RecordEntry(e, st, lock).locked)
  BY DEF RecordEntry, Keeps
<1> QED
  BY <1>1, <1>2, <1>3

LEMMA PreProcessedLocks ==
  ASSUME TrackerTyped, NEW r \in Tracked, NEW k \in Nat, k + 1 \in DOMAIN list, Locks(list, map[r], r, k)
  PROVE  Locks(list, PreProcessed(list[k + 1])[r], r, k + 1)
<1>1. PICK c \in TrackedCommand : c = list[k + 1]
  BY DEF TrackerTyped
<1>2. PICK m0, m1, m2, m3 :
        /\ m0 = IF c.bindless THEN Recorded(map, BindlessRestored(map), "READ", FALSE) ELSE map
        /\ m1 = Recorded(m0, c.reads, "READ", FALSE)
        /\ m2 = Recorded(m1, c.writes \ InstanceBuffer, NeedOf(c), c.kind = "kernel")
        /\ m3 = Recorded(m2, c.writes \cap InstanceBuffer, NeedOf(c), FALSE)
  OBVIOUS
<1>3. PreProcessed(c) = IF c.kind = "build" THEN m0 ELSE m3
  BY <1>2 DEF PreProcessed
<1>4. map[r].locked => m0[r].locked
  BY <1>2, RecordedLocks
<1>5. m0[r].locked => m1[r].locked
  BY <1>2, RecordedLocks
<1>6. /\ m1[r].locked => m2[r].locked
      /\ r \in c.writes \ InstanceBuffer /\ c.kind = "kernel" => m2[r].locked
  BY <1>2, RecordedLocks
<1>7. m2[r].locked => m3[r].locked
  BY <1>2, RecordedLocks
<1>8. PICK x : x = PreProcessed(c)[r]
  OBVIOUS
<1>9. map[r].locked => x.locked
  BY <1>3, <1>4, <1>5, <1>6, <1>7, <1>8
<1>10. c.kind = "kernel" /\ r \in c.writes /\ r \notin InstanceBuffer => x.locked
  BY <1>3, <1>6, <1>7, <1>8
<1>11. \A j \in DOMAIN list : j <= k + 1 => j <= k \/ j = k + 1
  BY DEF TrackerTyped
<1>12. Locks(list, x, r, k + 1)
  BY <1>1, <1>9, <1>10, <1>11 DEF Locks
<1> QED
  BY <1>1, <1>8, <1>12

\* The barriers for r, with the set of what stays unsynchronized.
LEMMA EmitFits ==
  ASSUME NEW e, NEW a, NEW r, NEW S, NEW T, EntryKnown(e, a, r \in S), (r \in T <=> r \in S /\ ~Moves(e))
  PROVE  /\ EntryKnown(Emit(e), IF e.cur # e.last THEN e.cur ELSE a, r \in T)
         /\ Emit(e).last = e.cur /\ Emit(e).cur = e.cur /\ Emit(e).locked = e.locked /\ ~Emit(e).uav
<1>1. PICK u \in BOOLEAN : (u <=> r \in S) /\ EntryKnown(e, a, u)
  BY KnownBoolean
<1>2. /\ EntryKnown(Emit(e), IF e.cur # e.last THEN e.cur ELSE a, u /\ ~Moves(e))
      /\ Emit(e).last = e.cur /\ Emit(e).cur = e.cur /\ Emit(e).locked = e.locked /\ ~Emit(e).uav
  BY <1>1, EmitKnown
<1>3. (u /\ ~Moves(e)) <=> r \in T
  BY <1>1
<1> QED
  BY <1>2, <1>3 DEF EntryKnown

LEMMA TrackerFacts ==
  ASSUME TrackerInv
  PROVE  /\ TrackerTyped /\ list \in Seq(TrackedCommand) /\ next \in Nat \ {0}
         /\ \A j \in DOMAIN list : j \in Nat /\ j >= 1 /\ list[j] \in TrackedCommand
         /\ Len(list) \in Nat /\ DOMAIN list = 1 .. Len(list)
         /\ \A r \in Tracked : /\ EntryKnown(map[r], actual[r], r \in unsynced) /\ map[r] \in StateEntry
                               /\ pc = "pre" => /\ Asked(list, unsynced, map[r], r, next - 1)
                                                /\ Locks(list, map[r], r, next - 1)
                                                /\ EntryFits(map[r], r, next - 1)
                               /\ pc = "run" => Kept(list, unsynced, map[r], r, next)
                               /\ pc \notin {"pre", "run"} => Rests(unsynced, map[r], r)
<1>1. TrackerTyped
  BY DEF TrackerInv
<1>2. list \in Seq(TrackedCommand)
  BY <1>1 DEF TrackerTyped
<1>3. /\ \A j \in DOMAIN list : j \in Nat /\ j >= 1 /\ list[j] \in TrackedCommand
      /\ Len(list) \in Nat /\ DOMAIN list = 1 .. Len(list)
  BY <1>2
<1> QED
  BY <1>1, <1>2, <1>3 DEF TrackerInv, TrackerTyped, EntryFits

LEMMA BeginKeepsStates ==
  ASSUME TrackerInv, Begin
  PROVE  TrackerInv'
<1>1. /\ list' \in Lists /\ pc' = "pre" /\ next' = 1 /\ UNCHANGED <<map, actual, unsynced>>
      /\ pc \notin {"pre", "run"} /\ done' \in 0 .. MaxLists
  BY TrackerAssumption, TrackerFacts DEF Begin, TrackerTyped
<1>2. PICK l : l = list' /\ l \in Seq(TrackedCommand)
  BY <1>1, ListsAssumption
<1>3. TrackerTyped'
  BY <1>1, <1>2, TrackerFacts DEF TrackerTyped
<1>4. ASSUME NEW r \in Tracked
      PROVE  Asked(l, unsynced, map[r], r, 0) /\ Locks(l, map[r], r, 0)
  <2>1. \A j \in DOMAIN l : ~(j <= 0)
    BY <1>2
  <2>2. PICK e : e = map[r] /\ EntryKnown(e, actual[r], r \in unsynced) /\ Rests(unsynced, e, r)
    BY <1>1, TrackerFacts
  <2>3. r \in InstanceBuffer => InstanceAsked(l, unsynced, e, r, 0)
    BY <2>2 DEF Rests, EntryKnown, InstanceAsked
  <2> QED
    BY <2>1, <2>2, <2>3 DEF Asked, Locks, Rests
<1>5. next' - 1 = 0
  BY <1>1
<1>6. ASSUME NEW r \in Tracked
      PROVE  (Asked(list, unsynced, map[r], r, next - 1) /\ Locks(list, map[r], r, next - 1))'
  BY <1>1, <1>2, <1>4, <1>5
<1> QED
  BY <1>1, <1>3, <1>6, TrackerFacts DEF TrackerInv

LEMMA PreProcessKeeps ==
  ASSUME TrackerInv, PreProcess
  PROVE  TrackerInv'
<1>1. PICK k \in Nat : next = k + 1 /\ k + 1 \in DOMAIN list
  <2>1. next - 1 \in Nat /\ next \in 1 .. Len(list)
    BY TrackerFacts DEF PreProcess
  <2> QED
    BY <2>1, TrackerFacts
<1>2. /\ pc = "pre" /\ next' = k + 2 /\ UNCHANGED <<list, pc, done, actual, unsynced>>
      /\ map' = PreProcessed(list[k + 1])
  BY <1>1 DEF PreProcess
<1>3. ASSUME NEW r \in Tracked
      PROVE  EntryFits(map'[r], r, k + 1) /\ Locks(list, map'[r], r, k + 1)
  <2>1. next - 1 = k
    BY <1>1
  <2>2. EntryFits(map[r], r, k) /\ Locks(list, map[r], r, k)
    BY <1>2, <2>1, TrackerFacts
  <2> QED
    BY <1>1, <1>2, <2>2, PreProcessedFits, PreProcessedLocks, TrackerFacts
<1>4. map' \in [Tracked -> StateEntry]
  <2>1. \A r \in Tracked : map'[r] \in StateEntry
    <3>1. \A r \in Tracked : EntryKnown(map'[r], actual[r], r \in unsynced)
      BY <1>3 DEF EntryFits
    <3> QED
      BY <3>1 DEF EntryKnown
  <2>2. map' = [r \in Tracked |-> map'[r]]
    <3>1. PICK c : c = list[k + 1]
      OBVIOUS
    <3>2. map = [r \in Tracked |-> map[r]]
      BY TrackerFacts DEF TrackerTyped
    <3>3. \/ map' = map
          \/ \E m, set, need, lock : map' = Recorded(m, set, need, lock)
      BY <1>2, <3>1 DEF PreProcessed
    <3> QED
      BY <3>2, <3>3, RecordedFacts
  <2> QED
    BY <2>1, <2>2
<1>5. TrackerTyped'
  BY <1>2, <1>4, TrackerFacts DEF TrackerTyped
<1>6. ASSUME NEW r \in Tracked
      PROVE  /\ EntryKnown(map[r], actual[r], r \in unsynced)'
             /\ (Asked(list, unsynced, map[r], r, next - 1) /\ Locks(list, map[r], r, next - 1))'
  <2>1. next' - 1 = k + 1
    BY <1>2
  <2>2. EntryKnown(map[r], actual[r], r \in unsynced)'
    BY <1>2, <1>3 DEF EntryFits, EntryKnown
  <2>3. (Asked(list, unsynced, map[r], r, next - 1) /\ Locks(list, map[r], r, next - 1))'
    BY <1>2, <1>3, <2>1 DEF EntryFits
  <2> QED
    BY <2>2, <2>3
<1> QED
  BY <1>2, <1>5, <1>6 DEF TrackerInv

LEMMA GrowKeeps ==
  ASSUME TrackerInv, GrowInstances
  PROVE  TrackerInv'
<1>1. PICK k \in Nat : next = k + 1 /\ k + 1 \in DOMAIN list /\ next - 1 = k
  <2>1. next - 1 \in Nat /\ next \in 1 .. Len(list)
    BY TrackerFacts DEF GrowInstances
  <2> QED
    BY <2>1, TrackerFacts
<1>2. PICK c \in TrackedCommand : c = list[k + 1]
  BY <1>1, TrackerFacts
<1>3. PICK before, T : before = BeforeGrowth(c) /\ T = unsynced'
  OBVIOUS
<1>4. /\ pc = "pre" /\ Sets(c) /\ c.kind = "build" /\ next' = k + 2 /\ UNCHANGED <<list, pc, done>>
      /\ map' = [r \in Tracked |-> IF r \in c.writes
                                   THEN [NoEntry EXCEPT !.last = "COPY_DEST", !.present = TRUE]
                                   ELSE AfterBarriers(before)[r]]
      /\ actual' = [r \in Tracked |-> IF r \in c.writes THEN "COPY_DEST"
                                     ELSE Transitioned(before, actual)[r]]
      /\ T = (unsynced \ Synced(before)) \ c.writes
  BY <1>1, <1>2, <1>3 DEF GrowInstances, Sets
<1>5. ASSUME NEW r \in Tracked
      PROVE  /\ EntryKnown(map'[r], actual'[r], r \in T)
             /\ Asked(list, T, map'[r], r, k + 1) /\ Locks(list, map'[r], r, k + 1)
  <2>1. CASE r \in c.writes
    <3>1. PICK x : x = [locked |-> FALSE, last |-> "COPY_DEST", cur |-> "READ", uav |-> FALSE, present |-> TRUE]
      OBVIOUS
    <3>2. map'[r] = x /\ actual'[r] = "COPY_DEST" /\ r \notin T
      BY <1>4, <2>1, <3>1 DEF NoEntry
    <3>3. EntryKnown(x, "COPY_DEST", r \in T)
      BY <3>1, <3>2 DEF EntryKnown, StateEntry, State
    <3>4. Answered(list, T, x, r)
      BY <1>1, <1>2, <1>4, <2>1, <3>1, <3>2 DEF Answered
    <3>5. r \in InstanceBuffer /\ InstanceAsked(list, T, x, r, k + 1)
      BY <1>4, <2>1, <3>1, CommandFacts DEF InstanceAsked
    <3>6. Asked(list, T, x, r, k + 1) /\ Locks(list, x, r, k + 1)
      BY <3>1, <3>4, <3>5 DEF Asked, Locks
    <3> QED
      BY <3>2, <3>3, <3>6
  <2>2. CASE r \notin c.writes
    <3>1. PICK e : e = map[r]
      OBVIOUS
    <3>2. before[r] = e
      BY <1>3, <2>2, <3>1 DEF BeforeGrowth, Recorded
    <3>3. /\ map'[r] = Emit(e) /\ actual'[r] = IF e.cur # e.last THEN e.cur ELSE actual[r]
          /\ r \in T <=> r \in unsynced /\ ~Moves(e)
      BY <1>4, <2>2, <3>2 DEF AfterBarriers, Emit, Transitioned, Synced, Moves
    <3>4. /\ EntryKnown(e, actual[r], r \in unsynced) /\ Asked(list, unsynced, e, r, k)
          /\ Locks(list, e, r, k)
      BY <1>1, <1>4, <3>1, TrackerFacts
    <3>5. PICK x : x = Emit(e)
      OBVIOUS
    <3>6. /\ EntryKnown(x, actual'[r], r \in T)
          /\ x.last = e.cur /\ x.cur = e.cur /\ x.locked = e.locked /\ ~x.uav
      BY <3>3, <3>4, <3>5, EmitFits
    <3>7. /\ \A st : ~HasNeed(list[k + 1], r, st)
          /\ list[k + 1].kind # "kernel"
      BY <1>2, <1>4, CommandFacts
    <3>8. \A j \in DOMAIN list : j <= k + 1 => j <= k \/ j = k + 1
      BY <1>1, TrackerFacts
    <3>9. \A j \in DOMAIN list : j <= k => j <= k + 1
      BY <1>1, TrackerFacts
    <3>10. Answered(list, unsynced, e, r) => Answered(list, T, x, r)
      BY <3>3, <3>6 DEF Answered
    <3>11. r \in InstanceBuffer => InstanceAsked(list, T, x, r, k + 1)
      <4>1. r \in InstanceBuffer => InstanceAsked(list, unsynced, e, r, k)
        BY <3>4 DEF Asked
      <4> QED
        BY <3>3, <3>6, <3>9, <4>1 DEF InstanceAsked, Moves
    <3>12. Asked(list, T, x, r, k + 1)
      BY <3>4, <3>6, <3>7, <3>8, <3>10, <3>11 DEF Asked
    <3>13. Locks(list, x, r, k + 1)
      BY <3>4, <3>6, <3>7, <3>8 DEF Locks
    <3> QED
      BY <3>3, <3>5, <3>6, <3>12, <3>13
  <2> QED
    BY <2>1, <2>2
<1>6. map' \in [Tracked -> StateEntry] /\ actual' \in [Tracked -> State]
  BY <1>4, <1>5 DEF EntryKnown
<1>7. TrackerTyped'
  BY <1>1, <1>3, <1>4, <1>6, TrackerFacts DEF TrackerTyped
<1>8. next' - 1 = k + 1
  BY <1>4
<1> QED
  BY <1>3, <1>4, <1>5, <1>7, <1>8 DEF TrackerInv

\* What has been asked for when every command has recorded its needs is kept by
\* the barriers.
LEMMA AskedKept ==
  ASSUME TrackerInv, pc = "pre", next > Len(list), NEW r \in Tracked, NEW T, NEW e, NEW x, e = map[r],
         (r \in T <=> r \in unsynced /\ ~Moves(e)), x.last = e.cur, x.cur = e.cur, x.locked = e.locked, ~x.uav
  PROVE  Kept(list, T, x, r, 1)
<1>1. /\ EntryKnown(e, actual[r], r \in unsynced) /\ Asked(list, unsynced, e, r, next - 1)
      /\ Locks(list, e, r, next - 1) /\ list \in Seq(TrackedCommand)
  BY TrackerFacts
<1>2. \A j \in DOMAIN list : j <= next - 1
  BY TrackerFacts
<1>3. Locks(list, x, r, Len(list))
  BY <1>1, <1>2 DEF Locks
<1>4. x.locked => r \notin InstanceBuffer /\ x.last = "UAV" /\ x.cur = "UAV"
  BY <1>1 DEF Asked
<1>5. ASSUME NEW j \in DOMAIN list, NEW st, HasNeed(list[j], r, st)
      PROVE  /\ r \notin T /\ (x.cur = "READ" \/ AskedFor(list, r, x.cur))
             /\ Settled(list, r) => x.cur = st
  <2>1. Answered(list, unsynced, e, r)
    BY <1>1, <1>2, <1>5 DEF Asked
  <2>2. Settled(list, r) => e.cur = st
    <3>1. Settled(list, r) => /\ \A i \in DOMAIN list : \A s : HasNeed(list[i], r, s) => s = st
                              /\ \A i \in DOMAIN list : ~(Sets(list[i]) /\ r \in list[i].writes)
      BY <1>1, <1>5, NeedsAgree
    <3> QED
      BY <2>1, <3>1 DEF Answered, AskedFor
  <2> QED
    BY <2>1, <2>2 DEF Answered
<1>6. r \in InstanceBuffer => InstanceKept(list, T, x, r)
  <2>1. r \in InstanceBuffer => InstanceAsked(list, unsynced, e, r, next - 1)
    BY <1>1 DEF Asked
  <2>2. e.cur \in State
    BY <1>1 DEF EntryKnown, StateEntry
  <2>3. CASE AskedFor(list, r, "UAV")
    BY <2>1, <2>2, <2>3 DEF InstanceAsked, InstanceKept, State
  <2>4. CASE ~AskedFor(list, r, "UAV")
    BY <2>1, <2>4 DEF InstanceAsked, InstanceKept, AskedFor, Moves
  <2> QED
    BY <2>3, <2>4
<1> QED
  BY <1>3, <1>4, <1>5, <1>6 DEF Kept

LEMMA UpdateKeeps ==
  ASSUME TrackerInv, UpdateState
  PROVE  TrackerInv'
<1>1. PICK T : T = unsynced'
  OBVIOUS
<1>2. /\ pc = "pre" /\ next > Len(list) /\ pc' = "run" /\ next' = 1 /\ UNCHANGED <<list, done>>
      /\ map' = AfterBarriers(map) /\ actual' = Transitioned(map, actual)
      /\ T = unsynced \ Synced(map)
  BY <1>1 DEF UpdateState
<1>3. ASSUME NEW r \in Tracked
      PROVE  EntryKnown(map'[r], actual'[r], r \in T) /\ Kept(list, T, map'[r], r, 1)
  <2>1. PICK e : e = map[r]
    OBVIOUS
  <2>2. /\ map'[r] = Emit(e) /\ actual'[r] = IF e.cur # e.last THEN e.cur ELSE actual[r]
        /\ r \in T <=> r \in unsynced /\ ~Moves(e)
    BY <1>2, <2>1 DEF AfterBarriers, Emit, Transitioned, Synced, Moves
  <2>3. EntryKnown(e, actual[r], r \in unsynced)
    BY <2>1, TrackerFacts
  <2>4. PICK x : x = Emit(e)
    OBVIOUS
  <2>5. /\ EntryKnown(x, actual'[r], r \in T)
        /\ x.last = e.cur /\ x.cur = e.cur /\ x.locked = e.locked /\ ~x.uav
    BY <2>2, <2>3, <2>4, EmitFits
  <2>6. Kept(list, T, x, r, 1)
    BY <1>2, <2>1, <2>2, <2>5, AskedKept
  <2> QED
    BY <2>2, <2>4, <2>5, <2>6
<1>4. map' \in [Tracked -> StateEntry] /\ actual' \in [Tracked -> State]
  BY <1>2, <1>3 DEF EntryKnown, AfterBarriers, Transitioned
<1>5. TrackerTyped'
  BY <1>1, <1>2, <1>4, TrackerFacts DEF TrackerTyped
<1> QED
  BY <1>1, <1>2, <1>3, <1>5 DEF TrackerInv

\* A copy leaves its resources readable, and no later command of a list that
\* has a build and agrees on them needs them.
LEMMA CopyLeaves ==
  ASSUME TrackerTyped, NEW k \in DOMAIN list, list[k].kind = "copy", NEW r \in list[k].writes, NEW S, NEW a,
         NEW e, EntryKnown(e, a, r \in S), Kept(list, S, e, r, k)
  PROVE  Kept(list, S, RecordEntry(e, "READ", FALSE), r, k + 1)
<1>1. /\ list \in Seq(TrackedCommand)
      /\ \A j \in DOMAIN list : j \in Nat /\ list[j] \in TrackedCommand
  BY DEF TrackerTyped
<1>2. HasNeed(list[k], r, "COPY_DEST") /\ r \notin InstanceBuffer
  BY <1>1, CommandFacts DEF HasNeed, NeedOf
<1>3. PICK x : x = RecordEntry(e, "READ", FALSE)
  OBVIOUS
<1>4. x.last = e.last /\ (x.locked <=> e.locked) /\ (~Keeps(e, FALSE) => x.cur = "READ")
  BY <1>3, RecordStays DEF State
<1>5. (x.cur = "READ" /\ ~e.locked) \/ x = e
  BY <1>3, <1>4 DEF RecordEntry, Keeps, EntryKnown, NoEntry
<1>6. \A j \in DOMAIN list : j >= k + 1 => j >= k /\ j # k
  BY <1>1
<1>7. ASSUME NEW j \in DOMAIN list, NEW st, HasNeed(list[j], r, st), j >= k + 1, Settled(list, r), HasBuild(list)
      PROVE  FALSE
  <2>1. st = "COPY_DEST"
    BY <1>1, <1>2, <1>7, NeedsAgree
  <2>2. r \in list[j].writes
    BY <1>7, <2>1 DEF HasNeed
  <2>3. j = k
    BY <1>7, <2>2 DEF Settled, HasBuild
  <2> QED
    BY <1>6, <1>7, <2>3
<1>8. Locks(list, x, r, Len(list))
  BY <1>4 DEF Kept, Locks
<1>9. x.locked => r \notin InstanceBuffer /\ x.last = "UAV" /\ x.cur = "UAV"
  BY <1>4, <1>5 DEF Kept
<1>10. ASSUME NEW j \in DOMAIN list, NEW st, HasNeed(list[j], r, st)
       PROVE  /\ r \notin S
              /\ x.last = "READ" \/ AskedFor(list, r, x.last)
              /\ x.cur = "READ" \/ AskedFor(list, r, x.cur)
              /\ j >= k + 1 /\ Settled(list, r) => x.last = st /\ (HasBuild(list) => x.cur = st)
  BY <1>4, <1>5, <1>6, <1>7, <1>10 DEF Kept
<1>11. Kept(list, S, x, r, k + 1)
  BY <1>2, <1>8, <1>9, <1>10 DEF Kept
<1> QED
  BY <1>3, <1>11

\* The entry of a resource whose barriers are emitted before and after a build.
BuiltEntry(e, instances) ==
    Emit(IF instances THEN RecordEntry(Emit(RecordEntry(e, "UAV", FALSE)), "READ", FALSE) ELSE Emit(e))

LEMMA BuildLeaves ==
  ASSUME TrackerTyped, NEW k \in DOMAIN list, Sets(list[k]), NEW r \in Tracked, NEW S, NEW T, T \subseteq S,
         NEW e \in StateEntry, Kept(list, S, e, r, k), NEW w \in BOOLEAN, (w <=> r \in list[k].writes),
         ~w /\ ~Moves(e) => (r \in T <=> r \in S)
  PROVE  Kept(list, T, BuiltEntry(e, w), r, k + 1)
<1>1. /\ list \in Seq(TrackedCommand)
      /\ \A j \in DOMAIN list : j \in Nat /\ list[j] \in TrackedCommand
  BY DEF TrackerTyped
<1>2. \A j \in DOMAIN list : j >= k + 1 => j >= k
  BY <1>1
<1>3. PICK x : x = BuiltEntry(e, w)
  OBVIOUS
<1>4. CASE r \in list[k].writes
  <2>1. r \in InstanceBuffer
    BY <1>1, <1>4, CommandFacts DEF Sets
  <2>2. ~e.locked
    BY <2>1 DEF Kept
  <2>3. ~x.locked /\ x.last = "READ" /\ x.cur = "READ" /\ ~x.uav
    <3>1. PICK x1, x2, x3 : /\ x1 = RecordEntry(e, "UAV", FALSE) /\ x2 = Emit(x1)
                            /\ x3 = RecordEntry(x2, "READ", FALSE)
      OBVIOUS
    <3>2. x1 \in StateEntry /\ ~x1.locked
      BY <2>2, <3>1 DEF RecordEntry, Keeps, NeedsBarrier, StateEntry, State
    <3>3. x2 \in StateEntry /\ ~x2.locked
      BY <3>1, <3>2 DEF Emit, StateEntry
    <3>4. x3 \in StateEntry /\ ~x3.locked /\ x3.cur = "READ"
      BY <3>1, <3>3 DEF RecordEntry, Keeps, NeedsBarrier, StateEntry, State
    <3>5. x = Emit(x3)
      BY <1>3, <1>4, <3>1 DEF BuiltEntry
    <3> QED
      BY <3>4, <3>5 DEF Emit, StateEntry
  <2>4. ~Settled(list, r) \/ \A j \in DOMAIN list : \A st : ~HasNeed(list[j], r, st)
    BY <1>1, <1>4, NeedsAgree
  <2>5. Locks(list, x, r, Len(list))
    BY <2>1 DEF Locks
  <2>6. Kept(list, T, x, r, k + 1)
    BY <2>1, <2>3, <2>4, <2>5 DEF Kept, InstanceKept
  <2> QED
    BY <1>3, <2>6
<1>5. CASE r \notin list[k].writes
  <2>1. x.last = e.cur /\ x.cur = e.cur /\ x.locked = e.locked /\ ~x.uav
    BY <1>3, <1>5 DEF BuiltEntry, Emit, StateEntry
  <2>2. HasBuild(list)
    BY DEF HasBuild
  <2>3. r \in InstanceBuffer => InstanceKept(list, T, x, r)
    BY <1>5, <2>1 DEF Kept, InstanceKept, Moves
  <2>4. Locks(list, x, r, Len(list))
    BY <2>1 DEF Kept, Locks
  <2>5. Kept(list, T, x, r, k + 1)
    BY <1>2, <2>1, <2>2, <2>3, <2>4 DEF Kept
  <2> QED
    BY <1>3, <2>5
<1> QED
  BY <1>4, <1>5

\* The state on the device after the barriers for an entry.
EmitState(e, a) == IF e.cur # e.last THEN e.cur ELSE a

LEMMA RunKnown ==
  ASSUME TrackerInv, Run, Sets(list[next]), NEW r \in Tracked, NEW w \in BOOLEAN,
         (w <=> r \in list[next].writes)
  PROVE  /\ map'[r] = BuiltEntry(map[r], w)
         /\ EntryKnown(map'[r], actual'[r], r \in unsynced')
         /\ ~w /\ ~Moves(map[r]) => (r \in unsynced' <=> r \in unsynced)
<1>1. PICK e : e = map[r]
  OBVIOUS
<1>2. PICK c : c = list[next]
  OBVIOUS
<1>3. PICK m1, m2, m3, a2, u2, T :
        /\ m1 = BeforeBuild(c) /\ m2 = AfterBarriers(m1) /\ m3 = Recorded(m2, c.writes, "READ", FALSE)
        /\ a2 = Transitioned(m1, actual) /\ u2 = unsynced \ Synced(m1) /\ T = unsynced'
  OBVIOUS
<1>4. /\ map' = AfterBarriers(m3) /\ actual' = Transitioned(m3, a2) /\ T = u2 \ Synced(m3)
  BY <1>2, <1>3 DEF Run, Leaves, MapFor, ActualFor, UnsyncedFor
<1>5. PICK e1, e2, e3, e4 :
        /\ e1 = IF w THEN RecordEntry(e, "UAV", FALSE) ELSE e
        /\ e2 = Emit(e1)
        /\ e3 = IF w THEN RecordEntry(e2, "READ", FALSE) ELSE e2
        /\ e4 = Emit(e3)
  OBVIOUS
<1>6. m1[r] = e1
  BY <1>1, <1>2, <1>3, <1>5 DEF BeforeBuild, Recorded, RecordEntry
<1>7. /\ m2[r] = e2 /\ a2[r] = EmitState(e1, actual[r])
      /\ r \in u2 <=> r \in unsynced /\ ~Moves(e1)
  BY <1>3, <1>5, <1>6 DEF AfterBarriers, Emit, Transitioned, EmitState, Synced, Moves
<1>8. m3[r] = e3
  BY <1>2, <1>3, <1>5, <1>7 DEF Recorded, RecordEntry
<1>9. /\ map'[r] = e4 /\ actual'[r] = EmitState(e3, a2[r])
      /\ r \in T <=> r \in u2 /\ ~Moves(e3)
  BY <1>4, <1>5, <1>8 DEF AfterBarriers, Emit, Transitioned, EmitState, Synced, Moves
<1>10. EntryKnown(e, actual[r], r \in unsynced)
  BY <1>1, TrackerFacts
<1>11. EntryKnown(e1, actual[r], r \in unsynced)
  BY <1>5, <1>10, RecordStays DEF State
<1>12. /\ EntryKnown(e2, a2[r], r \in u2) /\ e2.cur = e2.last /\ ~e2.uav
  <2>1. /\ EntryKnown(Emit(e1), IF e1.cur # e1.last THEN e1.cur ELSE actual[r], r \in u2)
        /\ Emit(e1).cur = Emit(e1).last /\ ~Emit(e1).uav
    BY <1>7, <1>11, EmitFits
  <2> QED
    BY <1>5, <1>7, <2>1 DEF EmitState
<1>13. EntryKnown(e3, a2[r], r \in u2)
  BY <1>5, <1>12, RecordStays DEF State
<1>14. EntryKnown(e4, actual'[r], r \in T)
  <2>1. EntryKnown(Emit(e3), IF e3.cur # e3.last THEN e3.cur ELSE a2[r], r \in T)
    BY <1>9, <1>13, EmitFits
  <2> QED
    BY <1>5, <1>9, <2>1 DEF EmitState
<1>15. e4 = BuiltEntry(e, w)
  BY <1>5 DEF BuiltEntry
<1>16. ~w /\ ~Moves(e) => (r \in T <=> r \in unsynced)
  BY <1>5, <1>7, <1>9, <1>12 DEF Moves
<1> QED
  BY <1>1, <1>3, <1>9, <1>14, <1>15, <1>16

LEMMA RunKeeps ==
  ASSUME TrackerInv, Run
  PROVE  TrackerInv'
<1>1. PICK k \in Nat : next = k /\ k \in DOMAIN list
  <2>1. next \in Nat /\ next \in 1 .. Len(list)
    BY TrackerFacts DEF Run
  <2> QED
    BY <2>1, TrackerFacts
<1>2. PICK c \in TrackedCommand : c = list[k]
  BY <1>1, TrackerFacts
<1>3. PICK T : T = unsynced'
  OBVIOUS
<1>4. pc = "run" /\ next' = k + 1 /\ UNCHANGED <<list, pc, done>>
  BY <1>1 DEF Run
<1>5. ASSUME NEW r \in Tracked
      PROVE  EntryKnown(map'[r], actual'[r], r \in T) /\ Kept(list, T, map'[r], r, k + 1)
  <2>1. PICK e \in StateEntry : /\ e = map[r] /\ EntryKnown(e, actual[r], r \in unsynced)
                                /\ Kept(list, unsynced, e, r, k)
    BY <1>1, <1>4, TrackerFacts
  <2>2. \A j \in DOMAIN list : j >= k + 1 => j >= k
    BY <1>1, TrackerFacts
  <2>3. Kept(list, unsynced, e, r, k + 1)
    BY <2>1, <2>2 DEF Kept
  <2>4. CASE Sets(c)
    <3>1. PICK w \in BOOLEAN : w <=> r \in c.writes
      OBVIOUS
    <3>2. /\ map'[r] = BuiltEntry(e, w)
          /\ EntryKnown(map'[r], actual'[r], r \in T)
          /\ ~w /\ ~Moves(e) => (r \in T <=> r \in unsynced)
      BY <1>1, <1>2, <1>3, <2>1, <2>4, <3>1, RunKnown
    <3>3. T \subseteq unsynced
      BY <1>1, <1>2, <1>3, <2>4 DEF Run, UnsyncedFor
    <3>4. Kept(list, T, BuiltEntry(e, w), r, k + 1)
      BY <1>1, <1>2, <2>1, <2>4, <3>1, <3>2, <3>3, BuildLeaves, TrackerFacts
    <3> QED
      BY <3>2, <3>4
  <2>5. CASE c.kind = "copy"
    <3>1. map' = Recorded(map, c.writes, "READ", FALSE) /\ actual' = actual /\ T = unsynced
      BY <1>1, <1>2, <1>3, <2>5 DEF Run, Leaves, MapFor, Sets
    <3>2. CASE r \in c.writes
      <4>1. PICK x : x = RecordEntry(e, "READ", FALSE)
        OBVIOUS
      <4>2. map'[r] = x
        BY <2>1, <3>1, <3>2, <4>1 DEF Recorded, RecordEntry
      <4>3. EntryKnown(x, actual[r], r \in unsynced)
        BY <2>1, <4>1, RecordStays DEF State
      <4>4. Kept(list, unsynced, x, r, k + 1)
        BY <1>1, <1>2, <2>1, <2>5, <3>2, <4>1, CopyLeaves, TrackerFacts
      <4> QED
        BY <3>1, <4>2, <4>3, <4>4
    <3>3. CASE r \notin c.writes
      <4>1. map'[r] = e
        BY <2>1, <3>1, <3>3 DEF Recorded
      <4> QED
        BY <2>1, <2>3, <3>1, <4>1
    <3> QED
      BY <3>2, <3>3
  <2>6. CASE ~Sets(c) /\ c.kind # "copy"
    <3>1. map' = map /\ actual' = actual /\ T = unsynced
      BY <1>1, <1>2, <1>3, <2>6 DEF Run, Leaves, MapFor
    <3> QED
      BY <2>1, <2>3, <3>1
  <2> QED
    BY <2>4, <2>5, <2>6
<1>6. map' \in [Tracked -> StateEntry] /\ actual' \in [Tracked -> State]
  <2>1. map' = [r \in Tracked |-> map'[r]] /\ actual' = [r \in Tracked |-> actual'[r]]
    <3>1. /\ map = [r \in Tracked |-> map[r]] /\ actual = [r \in Tracked |-> actual[r]]
      BY TrackerFacts DEF TrackerTyped
    <3>2. PICK left : left = Leaves(c)
      OBVIOUS
    <3>3. left = MapFor(c) \/ \E set : left = Recorded(MapFor(c), set, "READ", FALSE)
      BY <3>2 DEF Leaves
    <3>4. CASE Sets(c)
      <4>1. map' = AfterBarriers(left) /\ actual' = Transitioned(left, ActualFor(c))
        BY <1>1, <1>2, <3>2, <3>4 DEF Run
      <4> QED
        BY <4>1, BarriersShape
    <3>5. CASE ~Sets(c)
      <4>1. map' = left /\ actual' = actual /\ MapFor(c) = map
        BY <1>1, <1>2, <3>2, <3>5 DEF Run, MapFor
      <4>2. left = map \/ \E set : left = Recorded(map, set, "READ", FALSE)
        BY <3>3, <4>1
      <4>3. left = [r \in Tracked |-> left[r]]
        BY <3>1, <4>2 DEF Recorded
      <4> QED
        BY <3>1, <4>1, <4>3
    <3> QED
      BY <3>4, <3>5
  <2>2. \A r \in Tracked : map'[r] \in StateEntry /\ actual'[r] \in State
    BY <1>5 DEF EntryKnown
  <2> QED
    BY <2>1, <2>2
<1>7. T \subseteq unsynced
  BY <1>3 DEF Run, UnsyncedFor
<1>8. TrackerTyped'
  BY <1>1, <1>3, <1>4, <1>6, <1>7, TrackerFacts DEF TrackerTyped
<1> QED
  BY <1>3, <1>4, <1>5, <1>8 DEF TrackerInv

\* What the kernels of a list have written is in the state for it, and its
\* entry says so.
LEMMA WrittenFacts ==
  ASSUME TrackerInv, NEW r \in Tracked
  PROVE  /\ r \in WrittenByKernels => map[r].last = "UAV"
         /\ pc = "run" /\ r \in InstanceBuffer =>
              /\ map[r].cur = map[r].last /\ ~map[r].uav
              /\ map[r].last = "READ" \/ r \in unsynced \cup WrittenByKernels
<1>1. PICK e \in StateEntry : /\ e = map[r] /\ EntryKnown(e, actual[r], r \in unsynced)
                              /\ pc = "run" => Kept(list, unsynced, e, r, next)
  BY TrackerFacts
<1>2. e.last = actual[r]
  BY <1>1 DEF EntryKnown, NoEntry
<1>3. r \in WrittenByKernels => e.last = "UAV"
  BY <1>2 DEF WrittenByKernels
<1>4. AskedFor(list, r, "UAV") => \E i \in DOMAIN list : list[i].kind = "kernel" /\ r \in list[i].writes
  BY CommandFacts, TrackerFacts DEF AskedFor
<1>5. e.last = "UAV" /\ AskedFor(list, r, "UAV") => r \in WrittenByKernels
  BY <1>2, <1>4 DEF WrittenByKernels
<1>6. pc = "run" /\ r \in InstanceBuffer => InstanceKept(list, unsynced, e, r)
  BY <1>1 DEF Kept
<1> QED
  BY <1>1, <1>3, <1>5, <1>6 DEF InstanceKept

\* An entry whose lock is given up.
LEMMA Unlocked ==
  ASSUME NEW e, NEW x, x = [e EXCEPT !.locked = FALSE], NEW a, NEW r, NEW S, NEW T,
         EntryKnown(e, a, r \in S), r \in T => e.last = "UAV"
  PROVE  /\ EntryKnown(x, a, r \in T) /\ ~x.locked /\ x.last = e.last /\ x.cur = e.cur /\ x.uav = e.uav
<1>1. e \in StateEntry /\ a \in State
  BY DEF EntryKnown
<1>2. x = [locked |-> FALSE, last |-> e.last, cur |-> e.cur, uav |-> e.uav, present |-> e.present]
  BY <1>1 DEF StateEntry
<1>3. x \in StateEntry /\ ~x.locked /\ x.last = e.last /\ x.cur = e.cur /\ x.uav = e.uav
      /\ x.present = e.present
  BY <1>1, <1>2 DEF StateEntry
<1>4. ASSUME e = NoEntry
      PROVE  x = NoEntry
  <2>1. e.last = "READ" /\ e.cur = "READ" /\ e.uav = FALSE /\ e.present = FALSE
    BY <1>4 DEF NoEntry
  <2> QED
    BY <1>2, <2>1 DEF NoEntry
<1> QED
  BY <1>1, <1>3, <1>4 DEF EntryKnown

LEMMA EndListKeeps ==
  ASSUME TrackerInv, EndList
  PROVE  TrackerInv'
<1>1. PICK T : T = unsynced'
  OBVIOUS
<1>2. /\ pc = "run" /\ pc' = "more" /\ map' = ClearFence(map)
      /\ T = unsynced \cup WrittenByKernels /\ UNCHANGED <<list, next, done, actual>>
  BY <1>1 DEF EndList
<1>3. ASSUME NEW r \in Tracked
      PROVE  EntryKnown(map'[r], actual[r], r \in T) /\ Rests(T, map'[r], r)
  <2>1. PICK e : e = map[r] /\ EntryKnown(e, actual[r], r \in unsynced)
    BY TrackerFacts
  <2>2. PICK x : x = [e EXCEPT !.locked = FALSE]
    OBVIOUS
  <2>3. map'[r] = x
    BY <1>2, <2>1, <2>2 DEF ClearFence
  <2>4. r \in T => e.last = "UAV"
    BY <1>2, <2>1, WrittenFacts DEF EntryKnown
  <2>5. EntryKnown(x, actual[r], r \in T) /\ ~x.locked /\ x.last = e.last /\ x.cur = e.cur /\ x.uav = e.uav
    BY <2>1, <2>2, <2>4, Unlocked
  <2>6. Rests(T, x, r)
    BY <1>2, <2>1, <2>5, WrittenFacts DEF Rests
  <2> QED
    BY <2>3, <2>5, <2>6
<1>4. map' \in [Tracked -> StateEntry]
  BY <1>2, <1>3 DEF EntryKnown, ClearFence
<1>5. TrackerTyped'
  BY <1>1, <1>2, <1>4, TrackerFacts DEF TrackerTyped, WrittenByKernels
<1> QED
  BY <1>1, <1>2, <1>3, <1>5 DEF TrackerInv

LEMMA CopySizesKeeps ==
  ASSUME TrackerInv, CopySizes
  PROVE  TrackerInv'
<1>1. PICK T, m : T = unsynced' /\ m = AfterBarriers(map)
  OBVIOUS
<1>2. /\ pc = "run" /\ pc' = "compact" /\ map' = ClearFence(m) /\ actual' = Transitioned(map, actual)
      /\ T = (unsynced \cup WrittenByKernels) \ Synced(map) /\ UNCHANGED <<list, next, done>>
  BY <1>1 DEF CopySizes
<1>3. ASSUME NEW r \in Tracked
      PROVE  EntryKnown(map'[r], actual'[r], r \in T) /\ Rests(T, map'[r], r)
  <2>1. PICK e : e = map[r] /\ EntryKnown(e, actual[r], r \in unsynced)
    BY TrackerFacts
  <2>2. PICK U : U = unsynced \cup WrittenByKernels
    OBVIOUS
  <2>3. EntryKnown(e, actual[r], r \in U)
    BY <2>1, <2>2, WrittenFacts DEF EntryKnown
  <2>4. PICK y : y = Emit(e)
    OBVIOUS
  <2>5. /\ m[r] = y /\ actual'[r] = IF e.cur # e.last THEN e.cur ELSE actual[r]
        /\ r \in T <=> r \in U /\ ~Moves(e)
    BY <1>1, <1>2, <2>1, <2>2, <2>4 DEF AfterBarriers, Emit, Transitioned, Synced, Moves
  <2>6. EntryKnown(y, actual'[r], r \in T) /\ y.last = e.cur /\ y.cur = e.cur /\ ~y.uav
    BY <2>3, <2>4, <2>5, EmitFits
  <2>7. PICK x : x = [y EXCEPT !.locked = FALSE]
    OBVIOUS
  <2>8. map'[r] = x
    BY <1>2, <2>5, <2>7 DEF ClearFence
  <2>9. r \in T => y.last = "UAV"
    BY <2>6 DEF EntryKnown
  <2>10. /\ EntryKnown(x, actual'[r], r \in T) /\ ~x.locked /\ x.last = e.cur /\ x.cur = e.cur
         /\ ~x.uav
    BY <2>6, <2>7, <2>9, Unlocked
  <2>11. Rests(T, x, r)
    BY <1>2, <2>1, <2>2, <2>5, <2>10, WrittenFacts DEF Rests, Moves
  <2> QED
    BY <2>8, <2>10, <2>11
<1>4. map' \in [Tracked -> StateEntry] /\ actual' \in [Tracked -> State]
  BY <1>2, <1>3 DEF EntryKnown, ClearFence, Transitioned
<1>5. TrackerTyped'
  BY <1>1, <1>2, <1>4, TrackerFacts DEF TrackerTyped, WrittenByKernels
<1> QED
  BY <1>1, <1>2, <1>3, <1>5 DEF TrackerInv

LEMMA NothingKnown ==
  ASSUME NEW r, NEW S, r \notin S
  PROVE  EntryKnown(NoEntry, "READ", r \in S) /\ NoEntry \in StateEntry /\ Rests(S, NoEntry, r)
BY DEF EntryKnown, NoEntry, StateEntry, State, Rests

LEMMA RestoreKeeps ==
  ASSUME TrackerInv, Restore, list' \in Seq(TrackedCommand), next' \in Nat \ {0},
         done' \in 0 .. MaxLists, pc' \in {"idle", "more"}
  PROVE  TrackerInv'
<1>1. ASSUME NEW r \in Tracked
      PROVE  map'[r] = NoEntry /\ actual'[r] = "READ" /\ r \notin unsynced'
  <2>1. EntryKnown(map[r], actual[r], r \in unsynced)
    BY TrackerFacts
  <2>2. map'[r] = NoEntry
    BY DEF Restore
  <2>3. actual'[r] = "READ"
    BY <2>1 DEF Restore, Restored, EntryKnown
  <2>4. r \notin unsynced'
    BY <2>1 DEF Restore, EntryKnown, NoEntry
  <2> QED
    BY <2>2, <2>3, <2>4
<1>2. NoEntry \in StateEntry /\ "READ" \in State
  BY DEF NoEntry, StateEntry, State
<1>3. map' \in [Tracked -> StateEntry] /\ actual' \in [Tracked -> State] /\ unsynced' \subseteq Tracked
  BY <1>1, <1>2, TrackerFacts DEF Restore, Restored, TrackerTyped
<1>4. TrackerTyped'
  BY <1>3 DEF TrackerTyped
<1>5. PICK T : T = unsynced'
  OBVIOUS
<1>6. ASSUME NEW r \in Tracked
      PROVE  EntryKnown(map'[r], actual'[r], r \in T) /\ Rests(T, map'[r], r)
  BY <1>1, <1>5, NothingKnown
<1> QED
  BY <1>4, <1>5, <1>6 DEF TrackerInv

LEMMA TrackerInvInit == TrackerInit => TrackerInv
<1> SUFFICES ASSUME TrackerInit
             PROVE  TrackerInv
  OBVIOUS
<1>1. NoEntry \in StateEntry /\ "READ" \in State
  BY DEF NoEntry, StateEntry, State
<1>2. TrackerTyped
  BY <1>1, TrackerAssumption DEF TrackerInit, TrackerTyped
<1>3. ASSUME NEW r \in Tracked
      PROVE  EntryKnown(map[r], actual[r], r \in unsynced) /\ Rests(unsynced, map[r], r)
  <2>1. map[r] = NoEntry /\ actual[r] = "READ" /\ r \notin unsynced
    BY DEF TrackerInit
  <2> QED
    BY <2>1, NothingKnown
<1> QED
  BY <1>2, <1>3 DEF TrackerInit, TrackerInv

LEMMA TrackerInvNext ==
  ASSUME TrackerInv, [TrackerNext]_trackerVars
  PROVE  TrackerInv'
<1>1. CASE Begin
  BY <1>1, BeginKeepsStates
<1>2. CASE PreProcess
  BY <1>2, PreProcessKeeps
<1>3. CASE GrowInstances
  BY <1>3, GrowKeeps
<1>4. CASE UpdateState
  BY <1>4, UpdateKeeps
<1>5. CASE Run
  BY <1>5, RunKeeps
<1>6. CASE EndList
  BY <1>6, EndListKeeps
<1>7. CASE CopySizes
  BY <1>7, CopySizesKeeps
<1>8. CASE Compact
  BY <1>8, TrackerFacts, RestoreKeeps DEF Compact, TrackerTyped
<1>9. CASE EndExecute
  <2>1. list' = <<>> /\ next' = 1 /\ done' = 0 /\ pc' = "idle" /\ Restore
    BY <1>9 DEF EndExecute
  <2>2. list' \in Seq(TrackedCommand) /\ done' \in 0 .. MaxLists
    BY <2>1, TrackerAssumption
  <2> QED
    BY <2>1, <2>2, RestoreKeeps
<1>10. CASE UNCHANGED trackerVars
  <2>1. UNCHANGED <<list, pc, next, done, map, actual, unsynced>>
    BY <1>10 DEF trackerVars
  <2>2. TrackerTyped'
    BY <2>1, TrackerFacts DEF TrackerTyped
  <2>3. ASSUME NEW r \in Tracked
        PROVE  /\ EntryKnown(map[r], actual[r], r \in unsynced)'
               /\ (pc = "pre" => /\ Asked(list, unsynced, map[r], r, next - 1)
                                 /\ Locks(list, map[r], r, next - 1))'
               /\ (pc = "run" => Kept(list, unsynced, map[r], r, next))'
               /\ (pc \notin {"pre", "run"} => Rests(unsynced, map[r], r))'
    BY <2>1, TrackerFacts
  <2> QED
    BY <2>2, <2>3 DEF TrackerInv
<1> QED
  BY <1>1, <1>2, <1>3, <1>4, <1>5, <1>6, <1>7, <1>8, <1>9, <1>10 DEF TrackerNext

\* The tracker knows what every resource of the program is in, what has been
\* asked for it, and what it is kept in while a list is encoded, whatever the
\* lists are (ResourceStateTracker, LCCmdBuffer::Execute).
THEOREM TrackerConsistent == TrackerSpec => []TrackerInv
<1>1. TrackerInit => TrackerInv
  BY TrackerInvInit
<1>2. TrackerInv /\ [TrackerNext]_trackerVars => TrackerInv'
  BY TrackerInvNext
<1> QED
  BY <1>1, <1>2, PTL DEF TrackerSpec

LEMMA TrackerTypes == TrackerInv => TrackerTypeOK
BY DEF TrackerInv, TrackerTyped, TrackerTypeOK, StateEntry, State

\* The tracker and the device have their types.
THEOREM TrackerTypeCorrect == TrackerSpec => []TrackerTypeOK
BY TrackerTypes, TrackerConsistent, PTL

\* The entry of a resource a build writes, when a state is recorded for it
\* that is not locked.
LEMMA InstanceEntry ==
  ASSUME NEW e, NEW a, NEW r, NEW S, EntryKnown(e, a, r \in S), ~e.locked, NEW st \in State
  PROVE  /\ EmitState(RecordEntry(e, st, FALSE), a) = st
         /\ r \in S => Moves(RecordEntry(e, st, FALSE))
<1>1. PICK u \in BOOLEAN : (u <=> r \in S) /\ EntryKnown(e, a, u)
  BY KnownBoolean
<1>2. PICK x : x = RecordEntry(e, st, FALSE)
  OBVIOUS
<1>3. x.cur = st /\ x.last = e.last /\ ~Keeps(e, FALSE)
  BY <1>2 DEF RecordEntry, Keeps
<1>4. EmitState(x, a) = st
  <2>1. e.last = a
    BY DEF EntryKnown, NoEntry
  <2> QED
    BY <1>3, <2>1 DEF EmitState
<1>5. u => Moves(x)
  <2>1. u => e.last = "UAV"
    BY <1>1 DEF EntryKnown
  <2>2. x.uav = NeedsBarrier(e, st)
    BY <1>2 DEF RecordEntry, Keeps
  <2> QED
    BY <1>3, <2>1, <2>2 DEF Moves, NeedsBarrier
<1> QED
  BY <1>1, <1>2, <1>4, <1>5

LEMMA GrowthReads ==
  ASSUME TrackerInv, GrowInstances, NEW r \in list[next].writes
  PROVE  /\ Transitioned(BeforeGrowth(list[next]), actual)[r] = "READ"
         /\ r \notin unsynced \ Synced(BeforeGrowth(list[next]))
<1>1. pc = "pre" /\ next \in DOMAIN list
  BY TrackerFacts DEF GrowInstances
<1>2. PICK c \in TrackedCommand : c = list[next] /\ c.kind = "build"
  BY <1>1, TrackerFacts DEF GrowInstances, Sets
<1>3. r \in Tracked /\ r \in c.writes /\ r \in InstanceBuffer
  BY <1>2, CommandFacts
<1>4. PICK e : e = map[r]
  OBVIOUS
<1>5. EntryKnown(e, actual[r], r \in unsynced) /\ ~e.locked
  BY <1>1, <1>3, <1>4, TrackerFacts DEF Asked
<1>6. PICK x : x = RecordEntry(e, "READ", FALSE)
  OBVIOUS
<1>7. EmitState(x, actual[r]) = "READ" /\ (r \in unsynced => Moves(x))
  BY <1>5, <1>6, InstanceEntry DEF State
<1>8. BeforeGrowth(c)[r] = x
  BY <1>3, <1>4, <1>6 DEF BeforeGrowth, Recorded, RecordEntry
<1>9. Transitioned(BeforeGrowth(c), actual)[r] = "READ"
  BY <1>3, <1>7, <1>8 DEF Transitioned, EmitState
<1>10. r \notin unsynced \ Synced(BeforeGrowth(c))
  BY <1>3, <1>7, <1>8 DEF Synced, Moves
<1> QED
  BY <1>2, <1>9, <1>10

\* What a build that sets instances, a build that sets none, and any other
\* command find.
LEMMA SettingBuildRequires ==
  ASSUME TrackerInv, Run, Sets(list[next]), NEW need \in Needs(list[next])
  PROVE  /\ need[2] = "UAV" /\ ActualFor(list[next])[need[1]] = "UAV"
         /\ need[1] \notin UnsyncedFor(list[next])
<1>1. pc = "run" /\ next \in DOMAIN list
  BY TrackerFacts DEF Run
<1>2. PICK c \in TrackedCommand : c = list[next] /\ Sets(c) /\ c.kind = "build"
  BY <1>1, TrackerFacts DEF Sets
<1>3. PICK r : need = <<r, "UAV">> /\ r \in c.writes
  BY <1>2, CommandFacts DEF Needs, NeedOf
<1>4. r \in Tracked /\ r \in InstanceBuffer
  BY <1>2, <1>3, CommandFacts
<1>5. PICK e : e = map[r] /\ EntryKnown(e, actual[r], r \in unsynced) /\ ~e.locked
  BY <1>1, <1>4, TrackerFacts DEF Kept
<1>6. PICK x : x = RecordEntry(e, "UAV", FALSE)
  OBVIOUS
<1>7. EmitState(x, actual[r]) = "UAV" /\ (r \in unsynced => Moves(x))
  BY <1>5, <1>6, InstanceEntry DEF State
<1>8. BeforeBuild(c)[r] = x
  BY <1>3, <1>4, <1>5, <1>6 DEF BeforeBuild, Recorded, RecordEntry
<1>9. ActualFor(c)[r] = "UAV"
  BY <1>2, <1>4, <1>7, <1>8 DEF ActualFor, Transitioned, EmitState
<1>10. r \notin UnsyncedFor(c)
  BY <1>2, <1>4, <1>7, <1>8 DEF UnsyncedFor, Synced, Moves
<1> QED
  BY <1>2, <1>3, <1>9, <1>10

LEMMA IdleBuildRequires ==
  ASSUME TrackerInv, Run, list[next].kind = "build", ~Sets(list[next]), NEW need \in Needs(list[next]),
         Settled(list, need[1])
  PROVE  ActualFor(list[next])[need[1]] = "READ" \/ need[1] \in unsynced
<1>1. pc = "run" /\ next \in DOMAIN list
  BY TrackerFacts DEF Run
<1>2. PICK c \in TrackedCommand : c = list[next] /\ ~Sets(c) /\ c.kind = "build"
  BY <1>1, TrackerFacts
<1>3. PICK r : need = <<r, "READ">> /\ r \in c.reads
  BY <1>2, CommandFacts DEF Needs
<1>4. r \in Tracked /\ r \in InstanceBuffer
  BY <1>2, <1>3, CommandFacts
<1>5. PICK e : /\ e = map[r] /\ EntryKnown(e, actual[r], r \in unsynced)
               /\ InstanceKept(list, unsynced, e, r)
  BY <1>1, <1>4, TrackerFacts DEF Kept
<1>6. ~AskedFor(list, r, "UAV")
  <2> SUFFICES ASSUME NEW j \in DOMAIN list, HasNeed(list[j], r, "UAV")
               PROVE  FALSE
    BY DEF AskedFor
  <2>1. <<r, "UAV">> \in Needs(list[j])
    BY DEF HasNeed, Needs
  <2>2. Wanted(list, r, "UAV") /\ Wanted(list, r, "READ")
    BY <1>1, <1>2, <1>3, <2>1 DEF Wanted
  <2> QED
    BY <1>3, <2>2 DEF Settled
<1>7. actual[r] = "READ" \/ r \in unsynced
  BY <1>5, <1>6 DEF InstanceKept, EntryKnown, NoEntry
<1> QED
  BY <1>2, <1>3, <1>7 DEF ActualFor

LEMMA CommandRequires ==
  ASSUME TrackerInv, Run, list[next].kind # "build", NEW need \in Needs(list[next])
  PROVE  LET c == list[next]
             r == need[1]
             found == ActualFor(c)[r]
         IN /\ Settled(list, r) \/ Insists(c, r, need[2]) => found = need[2]
            /\ found = "READ" \/ Wanted(list, r, found)
            /\ r \notin UnsyncedFor(c)
<1>1. pc = "run" /\ next \in DOMAIN list /\ next <= Len(list) /\ next >= next
  BY TrackerFacts DEF Run
<1>2. PICK c \in TrackedCommand : c = list[next] /\ c.kind # "build" /\ ~Sets(c)
  BY <1>1, TrackerFacts DEF Sets
<1>3. PICK r, st : need = <<r, st>> /\ HasNeed(c, r, st)
  BY <1>2 DEF Needs, HasNeed
<1>4. r \in Tracked
  BY <1>3, CommandFacts
<1>5. PICK e : e = map[r] /\ EntryKnown(e, actual[r], r \in unsynced) /\ Kept(list, unsynced, e, r, next)
  BY <1>1, <1>4, TrackerFacts
<1>6. ActualFor(c)[r] = e.last /\ UnsyncedFor(c) = unsynced
  BY <1>2, <1>5 DEF ActualFor, UnsyncedFor, EntryKnown, NoEntry
<1>7. /\ r \notin unsynced /\ (e.last = "READ" \/ AskedFor(list, r, e.last))
      /\ Settled(list, r) => e.last = st
  BY <1>1, <1>2, <1>3, <1>5 DEF Kept
<1>8. Insists(c, r, st) => e.last = st
  <2> SUFFICES ASSUME Insists(c, r, st)
               PROVE  e.last = st
    OBVIOUS
  <2>1. c.kind = "kernel" /\ r \in c.writes /\ r \notin InstanceBuffer /\ st = "UAV"
    BY <1>2, CommandFacts DEF Insists
  <2>2. e.locked
    BY <1>1, <1>2, <1>5, <2>1 DEF Kept, Locks
  <2> QED
    BY <1>5, <2>1, <2>2 DEF Kept
<1>9. AskedFor(list, r, e.last) => Wanted(list, r, e.last)
  BY DEF AskedFor, HasNeed, Wanted, Needs
<1> QED
  BY <1>2, <1>3, <1>6, <1>7, <1>8, <1>9

\* The barriers suffice, for any lists: every one of them names the state its
\* resource is in; a command finds what it touches in the state it needs if its
\* list agrees on it or the command insists on it, and in no state of an earlier
\* list otherwise; and it finds the writes of earlier kernels visible
\* (LCCmdBuffer::Execute, TopAccel::PreProcess and Build).
THEOREM BarriersAreEnough == TrackerSpec => BarriersSuffice
<1>1. TrackerInv => StatesKnown
  BY TrackerFacts DEF StatesKnown, EntryKnown
<1>2. TrackerInv /\ [TrackerNext]_trackerVars =>
        [Run =>
          LET c == list[next]
          IN \A need \in Needs(c) :
               LET r == need[1]
                   found == ActualFor(c)[r]
               IN IF c.kind = "build" /\ ~Sets(c)
                  THEN Settled(list, r) => (found = "READ" \/ r \in unsynced)
                  ELSE /\ Settled(list, r) \/ Insists(c, r, need[2]) => found = need[2]
                       /\ found = "READ" \/ Wanted(list, r, found)]_trackerVars
  <2> SUFFICES ASSUME TrackerInv, Run, NEW need \in Needs(list[next])
               PROVE  LET c == list[next]
                          r == need[1]
                          found == ActualFor(c)[r]
                      IN IF c.kind = "build" /\ ~Sets(c)
                         THEN Settled(list, r) => (found = "READ" \/ r \in unsynced)
                         ELSE /\ Settled(list, r) \/ Insists(c, r, need[2]) => found = need[2]
                              /\ found = "READ" \/ Wanted(list, r, found)
    OBVIOUS
  <2>1. CASE Sets(list[next])
    <3>1. need[2] = "UAV" /\ ActualFor(list[next])[need[1]] = "UAV" /\ need = <<need[1], need[2]>>
      BY <2>1, SettingBuildRequires DEF Needs
    <3>2. Wanted(list, need[1], "UAV")
      BY <3>1, TrackerFacts DEF Wanted, Run
    <3> QED
      BY <2>1, <3>1, <3>2
  <2>2. CASE list[next].kind = "build" /\ ~Sets(list[next])
    BY <2>2, IdleBuildRequires
  <2>3. CASE list[next].kind # "build"
    BY <2>3, CommandRequires
  <2> QED
    BY <2>1, <2>2, <2>3
<1>3. TrackerInv /\ [TrackerNext]_trackerVars =>
        [Run => \A need \in Needs(list[next]) :
                  \/ list[next].kind = "build" /\ ~Sets(list[next])
                  \/ need[1] \notin UnsyncedFor(list[next])]_trackerVars
  BY SettingBuildRequires, CommandRequires
<1>4. TrackerInv /\ [TrackerNext]_trackerVars =>
        [GrowInstances => \A r \in list[next].writes :
           /\ Transitioned(BeforeGrowth(list[next]), actual)[r] = "READ"
           /\ r \notin unsynced \ Synced(BeforeGrowth(list[next]))]_trackerVars
  BY GrowthReads
<1> QED
  BY <1>1, <1>2, <1>3, <1>4, TrackerConsistent, PTL
  DEF TrackerSpec, BarriersSuffice, InRequiredState, WritesSynchronized, GrowthReadsInstances
=============================================================================
