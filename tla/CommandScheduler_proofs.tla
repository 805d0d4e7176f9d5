----------------------- MODULE CommandScheduler_proofs -----------------------
(***************************************************************************)
(* Proofs about CommandScheduler, for every set of commands, every         *)
(* dependency relation and every window size.                              *)
(*                                                                         *)
(* The heart of the argument: the count of a node is the number of pending *)
(* nodes that have an edge to it, and the free nodes are the pending ones  *)
(* without such an edge.  Both are broken in the middle of add and of      *)
(* _schedule_step and restored at their ends, so the invariant is stated   *)
(* about the values that add hands over to _schedule_step as well.         *)
(*                                                                         *)
(* Only the last theorem looks into the commands: it takes the dependency  *)
(* relation to be the one the visits compute.                              *)
(***************************************************************************)
EXTENDS HazardScheduler, FiniteSetTheorems, SequenceTheorems,
        WellFoundedInduction, TLAPS

\* The pending nodes that have an edge to node i.
Into(e, pnd, i) == {j \in pnd : i \in e[j]}

Typed(cs, e, cnt, pnd, f, l, ls, tot) ==
  /\ cs \in Seq(Command)
  /\ e \in [DOMAIN cs -> SUBSET DOMAIN cs]
  /\ cnt \in [DOMAIN cs -> Nat]
  /\ l \in [DOMAIN cs -> Int]
  /\ pnd \in SUBSET DOMAIN cs /\ f \in SUBSET DOMAIN cs
  /\ ls \in Nat /\ tot \in Nat

\* What is pending is what is in no list, and lists are numbered below ls.
Placement(cs, pnd, l, ls, tot) ==
  /\ pnd = {i \in DOMAIN cs : l[i] = Unplaced}
  /\ \A i \in DOMAIN cs : l[i] < ls
  /\ tot + Cardinality(pnd) = Len(cs)

\* Edges lead from a node to later ones, and from a pending node to pending
\* ones; every dependency on a pending node has its edge.
EdgesRight(cs, e, pnd) ==
  /\ \A i \in DOMAIN cs : \A j \in e[i] : i < j
  /\ \A i \in pnd : \A j \in e[i] : j \in pnd
  /\ \A i, j \in pnd : (i < j /\ <<cs[j], cs[i]>> \in Depends) => j \in e[i]

CountsRight(cs, e, cnt, pnd, f) ==
  /\ \A i \in DOMAIN cs : cnt[i] = Cardinality(Into(e, pnd, i))
  /\ f = {i \in pnd : Into(e, pnd, i) = {}}

Ordered(cs, l) ==
  \A i, j \in DOMAIN cs :
    (i < j /\ <<cs[j], cs[i]>> \in Depends /\ l[j] # Unplaced)
       => (l[i] # Unplaced /\ l[i] < l[j])

Consistent(cs, e, cnt, pnd, f, l, ls, tot) ==
  /\ Typed(cs, e, cnt, pnd, f, l, ls, tot)
  /\ Placement(cs, pnd, l, ls, tot)
  /\ EdgesRight(cs, e, pnd)
  /\ CountsRight(cs, e, cnt, pnd, f)
  /\ Ordered(cs, l)

\* The inductive invariant.
IInv ==
  /\ Consistent(commands, edges, count, pending, free, list, lists, total)
  /\ draining \in BOOLEAN

-----------------------------------------------------------------------------
\* A set of node numbers is finite, and so is what points into a node.
LEMMA NodesFinite ==
  ASSUME NEW cs \in Seq(Command), NEW S \in SUBSET DOMAIN cs
  PROVE  IsFiniteSet(S) /\ Cardinality(S) \in Nat
<1>1. DOMAIN cs = 1..Len(cs) /\ Len(cs) \in Nat
  BY LenProperties
<1>2. IsFiniteSet(DOMAIN cs)
  BY <1>1, FS_Interval
<1> QED
  BY <1>2, FS_Subset, FS_CardinalityType

\* Taking the free nodes out of the pending ones leaves of what points into a
\* node all but what was released.
LEMMA IntoAfterStep ==
  ASSUME NEW e, NEW pnd, NEW f \in SUBSET pnd, NEW i
  PROVE  /\ Into(e, pnd \ f, i) = Into(e, pnd, i) \ Released(e, f, i)
         /\ Released(e, f, i) \in SUBSET Into(e, pnd, i)
BY DEF Into, Released

\* _schedule_step keeps everything consistent.
LEMMA StepConsistent ==
  ASSUME NEW cs, NEW e, NEW cnt, NEW pnd, NEW f, NEW l, NEW ls, NEW tot,
         Consistent(cs, e, cnt, pnd, f, l, ls, tot),
         NEW cnt2, NEW f2, NEW l2,
         cnt2 = [i \in DOMAIN cnt |-> cnt[i] - Cardinality(Released(e, f, i))],
         f2 = {i \in DOMAIN cnt : Released(e, f, i) # {} /\ cnt2[i] = 0},
         l2 = [i \in DOMAIN l |-> IF i \in f THEN ls ELSE l[i]]
  PROVE  Consistent(cs, e, cnt2, pnd \ f, f2, l2, ls + 1, tot + Cardinality(f))
<1> DEFINE pnd2 == pnd \ f
<1>1. Typed(cs, e, cnt, pnd, f, l, ls, tot) /\ Placement(cs, pnd, l, ls, tot)
      /\ EdgesRight(cs, e, pnd) /\ CountsRight(cs, e, cnt, pnd, f) /\ Ordered(cs, l)
  BY DEF Consistent
<1>2. DOMAIN cnt = DOMAIN cs /\ DOMAIN l = DOMAIN cs /\ f \in SUBSET pnd
  BY <1>1 DEF Typed, CountsRight
<1>3. DOMAIN cs = 1..Len(cs) /\ Len(cs) \in Nat
  BY <1>1, LenProperties DEF Typed
<1>4. /\ IsFiniteSet(pnd) /\ Cardinality(pnd) \in Nat
      /\ IsFiniteSet(f) /\ Cardinality(f) \in Nat
      /\ Cardinality(pnd2) = Cardinality(pnd) - Cardinality(f)
  <2>1. IsFiniteSet(pnd) /\ Cardinality(pnd) \in Nat /\ IsFiniteSet(f) /\ Cardinality(f) \in Nat
    BY <1>1, NodesFinite DEF Typed
  <2>2. pnd \cap f = f
    BY <1>2
  <2> QED
    BY <2>1, <2>2, FS_Difference
<1>5. \A i \in DOMAIN cs : cnt2[i] = Cardinality(Into(e, pnd2, i)) /\ cnt2[i] \in Nat
  <2> SUFFICES ASSUME NEW i \in DOMAIN cs
               PROVE  cnt2[i] = Cardinality(Into(e, pnd2, i)) /\ cnt2[i] \in Nat
    OBVIOUS
  <2> DEFINE all == Into(e, pnd, i)
             gone == Released(e, f, i)
  <2>1. Into(e, pnd2, i) = all \ gone /\ gone \in SUBSET all
    BY <1>2, IntoAfterStep
  <2>2. all \in SUBSET DOMAIN cs /\ all \ gone \in SUBSET DOMAIN cs
    BY <1>1 DEF Into, Typed
  <2>3. IsFiniteSet(all) /\ Cardinality(all) \in Nat /\ Cardinality(all \ gone) \in Nat
    BY <1>1, <2>2, NodesFinite DEF Typed
  <2>4. Cardinality(all \ gone) = Cardinality(all) - Cardinality(gone)
    <3>1. all \cap gone = gone
      BY <2>1
    <3> QED
      BY <2>3, <3>1, FS_Difference
  <2>5. cnt[i] = Cardinality(all)
    BY <1>1 DEF CountsRight
  <2>6. cnt2[i] = cnt[i] - Cardinality(gone)
    BY <1>2
  <2> HIDE DEF all, gone, pnd2
  <2> QED
    BY <2>1, <2>3, <2>4, <2>5, <2>6
<1>6. f2 = {i \in pnd2 : Into(e, pnd2, i) = {}}
  <2>1. ASSUME NEW i \in f2 PROVE i \in pnd2 /\ Into(e, pnd2, i) = {}
    <3>1. i \in DOMAIN cs /\ Released(e, f, i) # {} /\ cnt2[i] = 0
      BY <1>2, <2>1
    <3>2. i \in pnd /\ i \notin f
      BY <1>1, <1>2, <3>1 DEF Released, EdgesRight, CountsRight, Into
    <3>3. Into(e, pnd2, i) \in SUBSET DOMAIN cs
      BY <1>1 DEF Into, Typed
    <3>4. Cardinality(Into(e, pnd2, i)) = 0
      BY <1>5, <3>1
    <3>5. IsFiniteSet(Into(e, pnd2, i))
      BY <1>1, <3>3, NodesFinite DEF Typed
    <3> QED
      BY <3>2, <3>4, <3>5, FS_EmptySet
  <2>2. ASSUME NEW i \in pnd2, Into(e, pnd2, i) = {} PROVE i \in f2
    <3>1. i \in DOMAIN cs /\ i \in pnd /\ i \notin f
      BY <1>1, <2>2 DEF Typed
    <3>2. Into(e, pnd, i) # {}
      BY <1>1, <3>1 DEF CountsRight
    <3>3. Released(e, f, i) # {}
      BY <1>2, <2>2, <3>2, IntoAfterStep
    <3>4. cnt2[i] = 0
      BY <1>5, <2>2, <3>1, FS_EmptySet
    <3> QED
      BY <1>2, <3>1, <3>3, <3>4
  <2> QED
    BY <2>1, <2>2
<1>7. Typed(cs, e, cnt2, pnd2, f2, l2, ls + 1, tot + Cardinality(f))
  BY <1>1, <1>2, <1>4, <1>5, <1>6 DEF Typed
<1>8. Placement(cs, pnd2, l2, ls + 1, tot + Cardinality(f))
  <2>1. \A i \in DOMAIN cs : l2[i] < ls + 1 /\ (i \in pnd2 <=> l2[i] = Unplaced)
    BY <1>1, <1>2 DEF Placement, Typed, Unplaced
  <2>2. tot + Cardinality(f) + Cardinality(pnd2) = Len(cs)
    BY <1>1, <1>3, <1>4 DEF Placement, Typed
  <2> QED
    BY <1>1, <2>1, <2>2 DEF Placement, Typed
<1>9. EdgesRight(cs, e, pnd2)
  <2>1. ASSUME NEW i \in pnd2, NEW j \in e[i] PROVE j \in pnd2
    BY <1>1, <2>1 DEF EdgesRight, CountsRight, Into
  <2> QED
    BY <1>1, <2>1 DEF EdgesRight
<1>10. CountsRight(cs, e, cnt2, pnd2, f2)
  BY <1>5, <1>6 DEF CountsRight
<1>11. Ordered(cs, l2)
  <2> SUFFICES ASSUME NEW i \in DOMAIN cs, NEW j \in DOMAIN cs, i < j,
                      <<cs[j], cs[i]>> \in Depends, l2[j] # Unplaced
               PROVE  l2[i] # Unplaced /\ l2[i] < l2[j]
    BY DEF Ordered
  <2>1. CASE j \in f
    <3>1. j \in pnd /\ Into(e, pnd, j) = {}
      BY <1>1, <2>1 DEF CountsRight
    <3>2. i \notin pnd
      BY <1>1, <3>1 DEF EdgesRight, Into
    <3>3. l2[i] = l[i] /\ l[i] # Unplaced /\ l[i] < ls /\ l2[j] = ls
      BY <1>1, <1>2, <2>1, <3>2 DEF Placement
    <3> QED
      BY <3>3
  <2>2. CASE j \notin f
    <3>1. l2[j] = l[j] /\ l[j] # Unplaced
      BY <1>2, <2>2
    <3>2. l[i] # Unplaced /\ l[i] < l[j]
      BY <1>1, <3>1 DEF Ordered
    <3>3. i \notin f
      BY <1>1, <1>2, <3>2 DEF Placement
    <3> QED
      BY <1>2, <3>1, <3>2, <3>3
  <2> QED
    BY <2>1, <2>2
<1> QED
  BY <1>7, <1>8, <1>9, <1>10, <1>11 DEF Consistent

-----------------------------------------------------------------------------
\* A scheduler without commands is consistent.
LEMMA EmptyConsistent == Consistent(<<>>, <<>>, <<>>, {}, {}, <<>>, 0, 0)
<1>1. DOMAIN <<>> = {} /\ Len(<<>>) = 0 /\ <<>> \in Seq(Command)
  BY EmptySeq, LenProperties
<1>2. Cardinality({}) = 0
  BY FS_EmptySet
<1>3. Typed(<<>>, <<>>, <<>>, {}, {}, <<>>, 0, 0)
  BY <1>1 DEF Typed
<1>4. Placement(<<>>, {}, <<>>, 0, 0)
  BY <1>1, <1>2 DEF Placement
<1>5. EdgesRight(<<>>, <<>>, {}) /\ Ordered(<<>>, <<>>)
  BY <1>1 DEF EdgesRight, Ordered
<1>6. CountsRight(<<>>, <<>>, <<>>, {}, {})
  BY <1>1 DEF CountsRight
<1> QED
  BY <1>3, <1>4, <1>5, <1>6 DEF Consistent

LEMMA InitConsistent == Init => IInv
BY EmptyConsistent DEF Init, IInv

\* add keeps everything consistent: the bookkeeping before the window is looked
\* at does, and so does the step when the window is full.
LEMMA AddConsistent ==
  ASSUME IInv, NEW c \in Command, Add(c)
  PROVE  IInv'
<1> DEFINE n    == Len(commands) + 1
           deps == {i \in pending : <<c, commands[i]>> \in Depends}
           e    == [i \in 1..n |-> IF i = n THEN {}
                                   ELSE IF i \in deps THEN edges[i] \cup {n} ELSE edges[i]]
           cnt  == [i \in 1..n |-> IF i = n THEN Cardinality(deps) ELSE count[i]]
           l    == [i \in 1..n |-> IF i = n THEN Unplaced ELSE list[i]]
           pnd  == pending \cup {n}
           f    == IF deps = {} THEN free \cup {n} ELSE free
           cs   == Append(commands, c)
           old  == 1..(n - 1)
<1>1. /\ Typed(commands, edges, count, pending, free, list, lists, total)
      /\ Placement(commands, pending, list, lists, total)
      /\ EdgesRight(commands, edges, pending) /\ Ordered(commands, list)
      /\ CountsRight(commands, edges, count, pending, free)
  BY DEF IInv, Consistent
<1>2. /\ n \in Nat \ {0} /\ Len(commands) = n - 1 /\ DOMAIN commands = old
      /\ n \notin old /\ 1..n = old \cup {n} /\ \A i \in old : i < n /\ i \in Nat
  BY <1>1, LenProperties DEF Typed
<1>3. /\ cs \in Seq(Command) /\ Len(cs) = n /\ DOMAIN cs = 1..n
      /\ cs[n] = c /\ \A i \in old : cs[i] = commands[i]
  <2>1. commands \in Seq(Command)
    BY <1>1 DEF Typed
  <2>2. cs \in Seq(Command) /\ Len(cs) = n /\ cs[n] = c
        /\ \A i \in 1..Len(commands) : cs[i] = commands[i]
    BY <2>1, AppendProperties
  <2>3. DOMAIN cs = 1..Len(cs)
    BY <2>2, LenProperties
  <2> HIDE DEF cs
  <2> QED
    BY <1>2, <2>2, <2>3
<1>4. /\ DOMAIN e = 1..n /\ e[n] = {}
      /\ \A i \in old : e[i] = IF i \in deps THEN edges[i] \cup {n} ELSE edges[i]
      /\ DOMAIN cnt = 1..n /\ cnt[n] = Cardinality(deps)
      /\ \A i \in old : cnt[i] = count[i]
      /\ DOMAIN l = 1..n /\ l[n] = Unplaced
      /\ \A i \in old : l[i] = list[i]
  BY <1>2
<1>a. e = [i \in 1..n |-> e[i]] /\ cnt = [i \in 1..n |-> cnt[i]] /\ l = [i \in 1..n |-> l[i]]
  BY <1>2
<1>b. /\ \A i \in old : edges[i] \subseteq old /\ count[i] \in Nat /\ list[i] \in Int
      /\ lists \in Nat /\ total \in Nat
  BY <1>1, <1>2 DEF Typed
<1>c. /\ \A i \in old : list[i] < lists /\ (i \in pending <=> list[i] = Unplaced)
      /\ total + Cardinality(pending) = n - 1
  <2> HIDE DEF n, old
  <2> QED
    BY <1>1, <1>2 DEF Placement
<1>5. /\ pending \subseteq old /\ deps \subseteq pending /\ free \subseteq pending
      /\ \A i \in pending : i \in deps <=> <<c, commands[i]>> \in Depends
  BY <1>1, <1>2 DEF Typed, CountsRight
<1> HIDE DEF n, deps, e, cnt, l, cs, old
<1>6. pnd \subseteq 1..n /\ f \subseteq pnd
  BY <1>2, <1>5
<1>7. /\ Cardinality(deps) \in Nat /\ Cardinality(pending) \in Nat
      /\ Cardinality(pnd) = Cardinality(pending) + 1
  <2>1. IsFiniteSet(pending) /\ Cardinality(pending) \in Nat
    BY <1>1, NodesFinite DEF Typed
  <2>2. IsFiniteSet(deps) /\ Cardinality(deps) \in Nat
    BY <1>5, <2>1, FS_Subset, FS_CardinalityType
  <2>3. n \notin pending
    BY <1>2, <1>5
  <2> QED
    BY <2>1, <2>2, <2>3, FS_AddElement
<1>8. \A i \in old : Into(e, pnd, i) = Into(edges, pending, i)
  <2> SUFFICES ASSUME NEW i \in old PROVE Into(e, pnd, i) = Into(edges, pending, i)
    OBVIOUS
  <2>1. i # n /\ i \notin e[n]
    BY <1>2, <1>4
  <2>2. \A j \in pending : i \in e[j] <=> i \in edges[j]
    BY <1>4, <1>5, <2>1
  <2> QED
    BY <2>1, <2>2 DEF Into
<1>9. Into(e, pnd, n) = deps
  <2>1. \A j \in pending : n \notin edges[j]
    BY <1>2, <1>5, <1>b
  <2>2. \A j \in pending : n \in e[j] <=> j \in deps
    BY <1>4, <1>5, <2>1
  <2> QED
    BY <1>4, <1>5, <2>2 DEF Into
<1>10. Typed(cs, e, cnt, pnd, f, l, lists, total)
  <2>1. \A i \in 1..n : e[i] \in SUBSET (1..n)
    <3> SUFFICES ASSUME NEW i \in 1..n PROVE e[i] \in SUBSET (1..n)
      OBVIOUS
    <3>1. i = n \/ i \in old
      BY <1>2
    <3>2. old \subseteq 1..n /\ n \in 1..n
      BY <1>2
    <3>3. i \in old => e[i] \subseteq edges[i] \cup {n}
      BY <1>4
    <3>4. i \in old => edges[i] \subseteq old
      BY <1>b
    <3>5. i = n => e[i] = {}
      BY <1>4
    <3> QED
      BY <3>1, <3>2, <3>3, <3>4, <3>5
  <2>2. \A i \in 1..n : cnt[i] \in Nat /\ l[i] \in Int
    <3>1. \A i \in old : cnt[i] \in Nat /\ l[i] \in Int
      BY <1>4, <1>b
    <3>2. cnt[n] \in Nat /\ l[n] \in Int
      BY <1>4, <1>7 DEF Unplaced
    <3> QED
      BY <1>2, <3>1, <3>2
  <2>3. e \in [1..n -> SUBSET (1..n)] /\ cnt \in [1..n -> Nat] /\ l \in [1..n -> Int]
    BY <1>a, <2>1, <2>2
  <2>4. pnd \in SUBSET (1..n) /\ f \in SUBSET (1..n)
    BY <1>6
  <2> HIDE DEF pnd, f
  <2> QED
    BY <1>1, <1>3, <2>3, <2>4 DEF Typed
<1>11. Placement(cs, pnd, l, lists, total)
  <2>1. \A i \in 1..n : l[i] < lists /\ (i \in pnd <=> l[i] = Unplaced)
    <3>1. \A i \in old : l[i] < lists /\ (i \in pnd <=> l[i] = Unplaced)
      BY <1>2, <1>4, <1>c
    <3>2. l[n] < lists /\ n \in pnd /\ l[n] = Unplaced
      BY <1>4, <1>b DEF Unplaced
    <3> QED
      BY <1>2, <3>1, <3>2
  <2>2. total + Cardinality(pnd) = Len(cs)
    <3>1. Len(cs) = n /\ n \in Nat /\ total \in Nat
      BY <1>2, <1>3, <1>b
    <3>2. Cardinality(pending) \in Nat /\ Cardinality(pnd) = Cardinality(pending) + 1
      BY <1>7
    <3>3. total + Cardinality(pending) = n - 1
      BY <1>c
    <3> HIDE DEF pnd
    <3> QED
      BY <3>1, <3>2, <3>3
  <2> HIDE DEF pnd
  <2> QED
    BY <1>3, <1>6, <2>1, <2>2 DEF Placement
<1>12. EdgesRight(cs, e, pnd)
  <2>1. ASSUME NEW i \in 1..n, NEW j \in e[i] PROVE i < j /\ (i \in pnd => j \in pnd)
    <3>1. i \in old
      BY <1>2, <1>4, <2>1
    <3>2. CASE j = n
      BY <1>2, <3>1, <3>2
    <3>3. CASE j # n
      <4>0. e[i] \subseteq edges[i] \cup {n}
        BY <1>4, <3>1
      <4>1. j \in edges[i] /\ i \in DOMAIN commands
        BY <1>2, <2>1, <3>1, <3>3, <4>0
      <4>2. i < j /\ (i \in pending => j \in pending)
        BY <1>1, <4>1 DEF EdgesRight
      <4>3. i # n
        BY <1>2, <3>1
      <4> QED
        BY <4>2, <4>3
    <3> QED
      BY <3>2, <3>3
  <2>2. ASSUME NEW i \in pnd, NEW j \in pnd, i < j, <<cs[j], cs[i]>> \in Depends
        PROVE  j \in e[i]
    <3>1. i \in pending /\ i \in old
      BY <1>2, <1>5, <2>2
    <3>2. CASE j = n
      BY <1>3, <1>4, <1>5, <2>2, <3>1, <3>2
    <3>3. CASE j # n
      BY <1>1, <1>3, <1>4, <1>5, <2>2, <3>1, <3>3 DEF EdgesRight
    <3> QED
      BY <3>2, <3>3
  <2> QED
    BY <1>3, <1>6, <2>1, <2>2 DEF EdgesRight
<1>13. CountsRight(cs, e, cnt, pnd, f)
  <2>1. \A i \in 1..n : cnt[i] = Cardinality(Into(e, pnd, i))
    BY <1>1, <1>2, <1>4, <1>8, <1>9 DEF CountsRight
  <2>2. f = {i \in pnd : Into(e, pnd, i) = {}}
    <3>1. \A i \in pending : i \in f <=> Into(e, pnd, i) = {}
      BY <1>1, <1>2, <1>5, <1>8 DEF CountsRight
    <3>2. n \in f <=> deps = {}
      BY <1>2, <1>5
    <3> QED
      BY <1>6, <1>9, <3>1, <3>2
  <2> QED
    BY <1>3, <2>1, <2>2 DEF CountsRight
<1>14. Ordered(cs, l)
  <2> SUFFICES ASSUME NEW i \in 1..n, NEW j \in 1..n, i < j,
                      <<cs[j], cs[i]>> \in Depends, l[j] # Unplaced
               PROVE  l[i] # Unplaced /\ l[i] < l[j]
    BY <1>3 DEF Ordered
  <2>1. i \in old /\ j \in old
    BY <1>2, <1>4
  <2> QED
    BY <1>1, <1>2, <1>3, <1>4, <2>1 DEF Ordered
<1>15. Consistent(cs, e, cnt, pnd, f, l, lists, total)
  BY <1>10, <1>11, <1>12, <1>13, <1>14 DEF Consistent
<1>16. commands' = cs /\ edges' = e /\ draining' \in BOOLEAN
  BY DEF Add, IInv, cs, e, n, deps
<1>17. CASE Cardinality(pnd) >= WindowSize
  <2>1. ScheduleStep(cnt, e, pnd, f, l)
    BY <1>17 DEF Add, n, deps, e, cnt, l
  <2> HIDE DEF pnd, f
  <2>2. Consistent(cs, e, count', pnd \ f, free', list', lists + 1, total + Cardinality(f))
    BY <1>15, <2>1, StepConsistent DEF ScheduleStep
  <2> QED
    BY <1>16, <2>1, <2>2 DEF IInv, ScheduleStep
<1>18. CASE ~(Cardinality(pnd) >= WindowSize)
  <2>1. /\ list' = l /\ pending' = pnd /\ count' = cnt /\ free' = f
        /\ lists' = lists /\ total' = total
    BY <1>18 DEF Add, n, deps, e, cnt, l
  <2> HIDE DEF pnd, f
  <2> QED
    BY <1>15, <1>16, <2>1 DEF IInv
<1> QED
  BY <1>17, <1>18

LEMMA DrainConsistent ==
  ASSUME IInv, DrainStep
  PROVE  IInv'
<1>1. Consistent(commands, edges, count', pending \ free, free', list', lists + 1,
                 total + Cardinality(free))
  BY StepConsistent DEF IInv, DrainStep, ScheduleStep
<1> QED
  BY <1>1 DEF IInv, DrainStep, ScheduleStep

LEMMA NextConsistent == IInv /\ [Next]_vars => IInv'
<1> SUFFICES ASSUME IInv, [Next]_vars PROVE IInv'
  OBVIOUS
<1>1. ASSUME NEW c \in Command, Add(c) PROVE IInv'
  BY <1>1, AddConsistent
<1>2. CASE Schedule
  BY <1>2 DEF Schedule, IInv
<1>3. CASE DrainStep
  BY <1>3, DrainConsistent
<1>4. CASE Return
  BY <1>4, EmptyConsistent DEF Return, IInv
<1>5. CASE UNCHANGED vars
  BY <1>5 DEF vars, IInv
<1> QED
  BY <1>1, <1>2, <1>3, <1>4, <1>5 DEF Next

\* In every reachable state the counts, the edges and the free nodes of the
\* scheduler agree, and what is placed is placed in order.
THEOREM Consistency == Spec => []IInv
<1> QED
  BY InitConsistent, NextConsistent, PTL DEF Spec

-----------------------------------------------------------------------------
\* Every variable keeps its type; in particular no dependency count of
\* _dependency_count ever goes below zero.
THEOREM TypeCorrect == Spec => []TypeOK
<1>1. IInv => TypeOK
  BY DEF IInv, Consistent, Typed, TypeOK, Node
<1> QED
  BY <1>1, Consistency, PTL

\* Two dependent commands end up in two lists, in the order they were added,
\* however the window steps and the drains fall between them.
THEOREM DependenciesKept == Spec => []DependenciesInOrder
<1>1. IInv => DependenciesInOrder
  BY DEF IInv, Consistent, Ordered, DependenciesInOrder, Node
<1> QED
  BY <1>1, Consistency, PTL

\* The assertion of schedule() holds: no command is lost and none is scheduled
\* twice.
THEOREM NoneLostOrRepeated == Spec => []CommandCountMatches
<1>1. IInv => CommandCountMatches
  <2> SUFFICES ASSUME IInv, pending = {} PROVE total = Len(commands)
    BY DEF CommandCountMatches
  <2>1. total + Cardinality(pending) = Len(commands) /\ total \in Nat
    BY DEF IInv, Consistent, Placement, Typed
  <2> QED
    BY <2>1, FS_EmptySet
<1> QED
  BY <1>1, Consistency, PTL

\* A nonempty set of natural numbers has a least element.
LEMMA LeastNode ==
  ASSUME NEW S \in SUBSET Nat, S # {}
  PROVE  \E x \in S : \A y \in S : ~(y < x)
<1>1. \E x \in S : \A y \in S : ~(<<y, x>> \in OpToRel(<, Nat))
  BY NatLessThanWellFounded, WFMin
<1> QED
  BY <1>1 DEF OpToRel

\* While commands are pending some of them are free, so every step of the loop
\* of schedule() makes a list that is not empty, and the loop cannot spin.
THEOREM DrainAdvances == Spec => []SomeFree
<1>1. IInv => SomeFree
  <2> SUFFICES ASSUME IInv, pending # {} PROVE free # {}
    BY DEF SomeFree
  <2>1. /\ Typed(commands, edges, count, pending, free, list, lists, total)
        /\ EdgesRight(commands, edges, pending)
        /\ CountsRight(commands, edges, count, pending, free)
    BY DEF IInv, Consistent
  <2>2. pending \in SUBSET Nat /\ pending \subseteq DOMAIN commands
    BY <2>1, LenProperties DEF Typed
  <2>3. PICK x \in pending : \A y \in pending : ~(y < x)
    BY <2>2, LeastNode
  <2>4. Into(edges, pending, x) = {}
    BY <2>1, <2>2, <2>3 DEF Into, EdgesRight
  <2> QED
    BY <2>1, <2>3, <2>4 DEF CountsRight
<1> QED
  BY <1>1, Consistency, PTL

-----------------------------------------------------------------------------
\* What the refinement needs of a consistent state.
LEMMA OrderOfConsistent ==
  ASSUME NEW cs, NEW e, NEW cnt, NEW pnd, NEW f, NEW l, NEW ls, NEW tot,
         Consistent(cs, e, cnt, pnd, f, l, ls, tot)
  PROVE  /\ Order!OrderKept(cs, l)
         /\ DOMAIN cs = 1..Len(cs) /\ Len(cs) \in Nat
         /\ DOMAIN l = DOMAIN cs
         /\ f \subseteq pnd
         /\ \A i \in DOMAIN cs : i \in pnd <=> ~Order!Placed(l, i)
<1>1. \A x, y : <<x, y>> \in {<<d[2], d[1]>> : d \in Depends} => <<y, x>> \in Depends
  BY CommandAssumption
<1>2. Ordered(cs, l)
  BY DEF Consistent
<1>3. Order!OrderKept(cs, l)
  BY <1>1, <1>2 DEF Ordered, Order!OrderKept, Order!Placed, Order!Unplaced, Unplaced
<1>4. DOMAIN cs = 1..Len(cs) /\ Len(cs) \in Nat
  BY LenProperties DEF Consistent, Typed
<1>5. DOMAIN l = DOMAIN cs /\ f \subseteq pnd
  BY DEF Consistent, Typed, CountsRight
<1>6. \A i \in DOMAIN cs : i \in pnd <=> ~Order!Placed(l, i)
  BY DEF Consistent, Placement, Order!Placed, Order!Unplaced, Unplaced
<1> QED
  BY <1>3, <1>4, <1>5, <1>6

\* The length of a function on 1..n is n.
LEMMA LengthOfList ==
  ASSUME NEW n \in Nat, NEW s, DOMAIN s = 1..n
  PROVE  Len(s) = n
OBVIOUS

\* The scheduler implements the abstract reorderer of commands: for every
\* dependency relation, what is placed stays placed, dependent commands are
\* placed in order, and nothing is handed over before everything is placed.
THEOREM ImplementsOrder == Spec => ImplementsCommandOrder
<1>1. Init => Order!Init
  BY DEF Init, Order!Init
<1>2. ASSUME IInv, IInv', [Next]_vars PROVE [Order!Next]_(Order!vars)
  <2> DEFINE placedKept == \A i \in DOMAIN list : Order!Placed(list, i) => list'[i] = list[i]
  <2>1. Order!OrderKept(commands', list') /\ Len(list') = Len(commands')
    <3>1. /\ Order!OrderKept(commands', list') /\ DOMAIN list' = 1..Len(commands')
          /\ Len(commands') \in Nat
      BY <1>2, OrderOfConsistent DEF IInv
    <3> QED
      BY <3>1, LengthOfList
  <2>2. DOMAIN list = DOMAIN commands /\ free \subseteq pending
        /\ \A i \in DOMAIN commands : i \in pending <=> ~Order!Placed(list, i)
    BY <1>2, OrderOfConsistent DEF IInv
  <2>3. ASSUME NEW c \in Command, Add(c) PROVE Order!Advance
    <3>1. commands' = Append(commands, c)
      BY <2>3 DEF Add
    <3>2. placedKept
      <4>1. DOMAIN commands = 1..Len(commands) /\ Len(commands) \in Nat
        BY <1>2, OrderOfConsistent DEF IInv
      <4> QED
        BY <2>2, <2>3, <4>1 DEF Add, ScheduleStep
    <3> QED
      BY <2>1, <3>1, <3>2 DEF Order!Advance
  <2>4. CASE Schedule
    BY <2>4 DEF Schedule, Order!vars
  <2>5. CASE DrainStep
    <3>1. commands' = commands
      BY <2>5 DEF DrainStep
    <3>2. placedKept
      BY <2>2, <2>5 DEF DrainStep, ScheduleStep
    <3> QED
      BY <2>1, <3>1, <3>2 DEF Order!Advance, Order!Next
  <2>6. CASE Return
    BY <2>2, <2>6 DEF Return, Order!HandOver, Order!Next
  <2>7. CASE UNCHANGED vars
    BY <2>7 DEF vars, Order!vars
  <2> QED
    BY <1>2, <2>3, <2>4, <2>5, <2>6, <2>7 DEF Next, Order!Next
<1> QED
  BY <1>1, <1>2, Consistency, PTL DEF Spec, ImplementsCommandOrder, Order!Spec

-----------------------------------------------------------------------------
\* A later access of what an earlier command writes finds that command: by the
\* read test of its type or by the write test.
LEMMA WriteThenFound ==
  ASSUME NEW c, NEW d, Carries(c), Carries(d), WriteThen(c, d)
  PROVE  DependsOn(d, c)
<1>1. PICK a \in Writes(c), b \in Reads(d) \cup Writes(d) : Overlap(a, b)
  BY DEF WriteThen
<1>2. /\ a \in c.args /\ b \in d.args /\ a.handle = b.handle /\ IsWrite(a)
      /\ b.usage = "READ" \/ IsWrite(b)
  BY <1>1 DEF Overlap, Reads, Writes, IsRead, IsWrite
<1>3. a \in Writes(c) /\ Overlap(b, a)
  BY <1>1 DEF Overlap, Collide
<1>4. CASE b.handle \in Buffers
  BY <1>2, <1>3, <1>4 DEF DependsOn, BufferDepends, CheckBufferRead, CheckBufferWrite
<1>5. CASE b.handle \in Textures
  <2>1. TextureDepends(b, c)
    BY <1>2, <1>3 DEF TextureDepends, CheckTextureRead, CheckTextureWrite
  <2> QED
    BY <1>2, <1>5, <2>1 DEF DependsOn
<1>6. CASE b.handle \in Meshes
  <2>1. c.tag = "MeshBuild"
    BY <1>2, <1>6 DEF Carries
  <2> QED
    BY <1>2, <1>3, <1>6, <2>1 DEF DependsOn, CheckMeshWrite
<1>7. CASE b.handle \in Accels
  <2>1. c.tag \in {"AccelBuild", "ShaderDispatch"}
    BY <1>2, <1>7 DEF Carries
  <2>2. AccelDepends(b, c)
    BY <1>2, <1>3, <1>7, <2>1 DEF AccelDepends, CheckAccelRead, CheckAccelWrite
  <2> QED
    BY <1>2, <1>7, <2>2 DEF DependsOn
<1>8. CASE b.handle \in BindlessArrays
  <2>1. c.tag = "BindlessArrayUpdate"
    BY <1>2, <1>8 DEF Carries, IsWrite
  <2>2. BindlessDepends(d, b, c)
    BY <1>2, <2>1 DEF BindlessDepends, CheckBindlessArrayRead, CheckBindlessArrayWrite
  <2> QED
    BY <1>2, <1>8, <2>2 DEF DependsOn
<1> QED
  BY <1>2, <1>4, <1>5, <1>6, <1>7, <1>8 DEF Carries, Resources

\* A later write of what an earlier command reads finds that command, unless
\* it is a texture copy.
LEMMA ReadThenWriteFound ==
  ASSUME NEW c, NEW d, Carries(c), Carries(d), ReadThenWrite(c, d),
         c.tag # "TextureCopy"
  PROVE  DependsOn(d, c)
<1>1. PICK a \in Reads(c), b \in Writes(d) : Overlap(a, b)
  BY DEF ReadThenWrite
<1>2. /\ a \in c.args /\ b \in d.args /\ a.handle = b.handle /\ IsRead(a) /\ IsWrite(b)
      /\ Overlap(b, a)
  BY <1>1 DEF Overlap, Collide, Reads, Writes
<1>3. CASE b.handle \in Buffers
  BY <1>2, <1>3 DEF DependsOn, BufferDepends, CheckBufferWrite
<1>4. CASE b.handle \in Textures
  <2>1. TextureDepends(b, c)
    BY <1>2 DEF TextureDepends, CheckTextureWrite
  <2> QED
    BY <1>2, <1>4, <2>1 DEF DependsOn
<1>5. b.handle \notin Meshes
  BY <1>2 DEF Carries, IsRead
<1>6. CASE b.handle \in Accels
  <2>1. c.tag \in {"AccelBuild", "ShaderDispatch"}
    BY <1>2, <1>6 DEF Carries
  <2>2. AccelDepends(b, c)
    BY <1>2, <1>6, <2>1 DEF AccelDepends, CheckAccelWrite
  <2> QED
    BY <1>2, <1>6, <2>2 DEF DependsOn
<1>7. CASE b.handle \in BindlessArrays
  <2>1. c.tag = "ShaderDispatch" /\ d.tag = "BindlessArrayUpdate"
    BY <1>2, <1>7 DEF Carries, IsRead, IsWrite
  <2>2. BindlessDepends(d, b, c)
    BY <1>2, <1>7, <2>1 DEF BindlessDepends, CheckBindlessArrayWrite
  <2> QED
    BY <1>2, <1>7, <2>2 DEF DependsOn
<1> QED
  BY <1>2, <1>3, <1>4, <1>5, <1>6, <1>7 DEF Carries, Resources

\* A resource that a kernel reads through a bindless array is found from both
\* sides: by its later write and by the later kernel.
LEMMA BindlessFound ==
  ASSUME NEW c, NEW d, Carries(c), Carries(d),
         BindlessReadThenWrite(c, d) \/ WriteThenBindlessRead(c, d)
  PROVE  DependsOn(d, c)
<1>1. CASE BindlessReadThenWrite(c, d)
  <2>1. PICK b \in Writes(d) : b.handle \in ReadsThrough(c)
    BY <1>1 DEF BindlessReadThenWrite
  <2>2. b \in d.args /\ IsWrite(b) /\ ReadsArray(c, b.handle)
    BY <2>1 DEF Writes, ReadsThrough, ReadsArray, Reads
  <2>3. b.handle \in Buffers \cup Textures
    BY <2>2, ResidentAssumption DEF ReadsArray
  <2> QED
    BY <2>2, <2>3 DEF DependsOn, BufferDepends, TextureDepends, CheckBufferWrite,
                      CheckTextureWrite
<1>2. CASE WriteThenBindlessRead(c, d)
  <2>1. PICK a \in Writes(c) : a.handle \in ReadsThrough(d)
    BY <1>2 DEF WriteThenBindlessRead
  <2>2. PICK b \in d.args : d.tag = "ShaderDispatch" /\ <<b.handle, a.handle>> \in Resident
    BY <2>1 DEF ReadsThrough, Reads
  <2>3. b.handle \in BindlessArrays
    BY <2>2, ResidentAssumption
  <2>4. BindlessDepends(d, b, c)
    BY <2>1, <2>2 DEF BindlessDepends, CheckBindlessArrayRead
  <2> QED
    BY <2>2, <2>3, <2>4 DEF DependsOn
<1> QED
  BY <1>1, <1>2

\* The build of an acceleration structure finds the earlier build of a mesh it
\* holds, and a mesh build the earlier build of a structure that holds it.
LEMMA MeshFound ==
  ASSUME NEW c, NEW d, Carries(c), Carries(d),
         MeshThenAccelBuild(c, d) \/ (AccelUseThenMesh(c, d) /\ c.tag # "ShaderDispatch")
  PROVE  DependsOn(d, c)
<1>1. CASE MeshThenAccelBuild(c, d)
  <2>1. PICK m \in Meshes, b \in d.args : <<b.handle, m>> \in Instances
    BY <1>1 DEF MeshThenAccelBuild, MeshesOf
  <2>2. b.handle \in Accels /\ c.tag = "MeshBuild" /\ d.tag = "AccelBuild"
    BY <1>1, <2>1, InstancesAssumption DEF MeshThenAccelBuild
  <2>3. AccelDepends(b, c)
    BY <2>1, <2>2 DEF Carries, AccelDepends, CheckAccelWrite, IsWrite
  <2> QED
    BY <2>1, <2>2, <2>3 DEF DependsOn
<1>2. CASE AccelUseThenMesh(c, d) /\ c.tag # "ShaderDispatch"
  <2>1. PICK b \in Writes(d) : b.handle \in MeshesOf(c)
    BY <1>2 DEF AccelUseThenMesh
  <2>2. PICK a \in c.args : <<a.handle, b.handle>> \in Instances
    BY <2>1 DEF MeshesOf
  <2>3. a.handle \in Accels /\ b.handle \in Meshes /\ b \in d.args
    BY <2>1, <2>2, InstancesAssumption DEF Writes
  <2>4. c.tag = "AccelBuild"
    BY <1>2, <2>2, <2>3 DEF Carries
  <2> QED
    BY <2>3, <2>4 DEF DependsOn, CheckMeshWrite
<1> QED
  BY <1>1, <1>2

\* The dependency tests find every hazard but the two named ones.
LEMMA HazardFound ==
  ASSUME NEW c \in Command, NEW d \in Command, KeptApart(c, d)
  PROVE  <<d, c>> \in Depends
<1>1. Carries(c) /\ Carries(d)
  BY CarriesAssumption
<1>2. Conflict(c, d) /\ ~TextureCopySource(c, d) /\ ~KernelThenMeshBuild(c, d)
  BY DEF KeptApart
<1>3. CASE WriteThen(c, d)
  BY <1>1, <1>3, WriteThenFound, DependsAssumption
<1>4. CASE ReadThenWrite(c, d)
  BY <1>1, <1>2, <1>4, ReadThenWriteFound, DependsAssumption DEF TextureCopySource
<1>5. CASE BindlessReadThenWrite(c, d) \/ WriteThenBindlessRead(c, d)
  BY <1>1, <1>5, BindlessFound, DependsAssumption
<1>6. CASE MeshThenAccelBuild(c, d) \/ AccelUseThenMesh(c, d)
  BY <1>1, <1>2, <1>6, MeshFound, DependsAssumption DEF KernelThenMeshBuild
<1> QED
  BY <1>2, <1>3, <1>4, <1>5, <1>6 DEF Conflict

\* Whatever the commands are, two of them that must not be exchanged are in two
\* lists in the order they were added, but for the two cases the tests leave out.
THEOREM HazardsKept == Spec => []HazardsInOrder
<1>1. IInv => HazardsInOrder
  <2> SUFFICES ASSUME IInv, NEW i \in Node, NEW j \in Node, i < j,
                      KeptApart(commands[i], commands[j]), list[j] # Unplaced
               PROVE  list[i] # Unplaced /\ list[i] < list[j]
    BY DEF HazardsInOrder
  <2>1. commands[i] \in Command /\ commands[j] \in Command
    BY LenProperties DEF IInv, Consistent, Typed, Node
  <2>2. <<commands[j], commands[i]>> \in Depends
    BY <2>1, HazardFound
  <2> QED
    BY <2>2 DEF IInv, Consistent, Ordered, Node
<1> QED
  BY <1>1, Consistency, PTL

=============================================================================
