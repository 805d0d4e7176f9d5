--------------------------- MODULE CUDAStream_proofs ---------------------------
(***************************************************************************)
(* The order of lists, host functions, events and staging buffers on the   *)
(* streams of the CUDA backend (backends/cuda/cuda_stream.cpp), for any    *)
(* number of streams, events, backing CUDA streams and calls.              *)
(***************************************************************************)
EXTENDS CUDAStream, FiniteSetTheorems, NaturalsInduction, WellFoundedInduction, TLAPS

Kind   == {"command", "wait", "function", "recycle"}
PointT == [worker : Worker, pos : Nat, lists : Nat]
ItemT  == [kind : Kind, list : Nat, point : PointT]

TypeInv ==
  /\ queue \in [Worker -> Seq(ItemT)] /\ done \in [Worker -> Nat]
  /\ \A w \in Worker : done[w] <= Len(queue[w])
  /\ event \in [Event -> PointT] /\ workerEvent \in [Worker -> PointT]
  /\ used \in [Stream -> SUBSET (1..(Backed - 1))] /\ round \in [Stream -> 0..(Backed - 1)]
  /\ current \in [Stream -> SUBSET PointT]
  /\ pc \in [Stream -> {"idle", "list", "between", "synchronize"}]
  /\ lists \in [Stream -> Nat]

\* The lists of a stream that barrier() has closed.
Complete(s) == IF pc[s] = "list" THEN lists[s] - 1 ELSE lists[s]

\* Up to pos, the CUDA stream w waits for position k of v, or beyond it.
Waited(w, pos, v, k) ==
  \E j \in 1..pos : /\ j \in DOMAIN queue[w] /\ queue[w][j].kind = "wait"
                    /\ queue[w][j].point.worker = v /\ queue[w][j].point.pos >= k

\* What is in the first CUDA stream up to pos is behind the first n lists: their
\* commands are before pos or are waited for before pos.
Covers(s, pos, n) ==
  \A i \in 0..(Backed - 1) : \A k \in DOMAIN queue[<<s, i>>] :
     CommandOf(<<s, i>>, k, n)
       => IF i = 0 THEN k <= pos ELSE Waited(First(s), pos, <<s, i>>, k)

\* Up to pos, another CUDA stream waits for a point of the first that is behind
\* the first n lists.
Gated(w, pos, n) ==
  \E j \in 1..pos : /\ j \in DOMAIN queue[w] /\ queue[w][j].kind = "wait"
                    /\ queue[w][j].point.worker = First(w[1])
                    /\ Covers(w[1], queue[w][j].point.pos, n)

\* Every item is behind the lists it has to be behind.
ItemBehind(w, k) ==
  LET x == queue[w][k]
  IN /\ x.kind = "command" =>
          /\ x.list <= lists[w[1]]
          /\ IF w[2] = 0 THEN Covers(w[1], k - 1, x.list - 1) ELSE Gated(w, k - 1, x.list - 1)
     /\ x.kind \in {"function", "recycle"} =>
          w[2] = 0 /\ x.list <= Complete(w[1]) /\ Covers(w[1], k - 1, x.list)
ItemsInv == \A w \in Worker : \A k \in DOMAIN queue[w] : ItemBehind(w, k)

\* So is what the host puts into the CUDA streams next.
HostInv(s) ==
  /\ Covers(s, Len(queue[First(s)]), Complete(s))
  /\ used[s] # {} => pc[s] = "list"
  /\ \A i \in used[s] : Gated(<<s, i>>, Len(queue[<<s, i>>]), Complete(s))
  /\ \A i \in 1..(Backed - 1) : \A k \in DOMAIN queue[<<s, i>>] :
       queue[<<s, i>>][k].kind = "command" /\ queue[<<s, i>>][k].list > Complete(s) => i \in used[s]
  /\ workerEvent[First(s)].worker = First(s)
  /\ Covers(s, workerEvent[First(s)].pos, Complete(s))
HostsInv == \A s \in Stream : HostInv(s)

EventInv(p) ==
  /\ p.worker = First(p.worker[1]) /\ p.lists <= Complete(p.worker[1])
  /\ Covers(p.worker[1], p.pos, p.lists)
EventsInv == \A e \in Event : EventInv(event[e])

\* A wait that is over has reached its point.
WaitsInv == \A w \in Worker : \A j \in 1..done[w] : queue[w][j].kind = "wait" => Reached(queue[w][j].point)

OrderInv == ItemsInv /\ HostsInv /\ EventsInv /\ WaitsInv

-----------------------------------------------------------------------------
\* The staging buffers that a recycle returns belong to commands of the lists it
\* is behind: Marks says where the recycles for the callback lists are.
StagingOf(p, s, n) ==
  /\ p \in PointT /\ p.worker[1] = s /\ p.pos \in DOMAIN queue[p.worker]
  /\ CommandOf(p.worker, p.pos, n)
Marks(s, f) ==
  /\ \A i \in DOMAIN callbackLists[s] : f[i] \in DOMAIN queue[First(s)]
  /\ \A i, j \in DOMAIN callbackLists[s] : i < j => f[i] < f[j]
  /\ \A i \in DOMAIN callbackLists[s] :
        /\ f[i] > done[First(s)] /\ queue[First(s)][f[i]].kind = "recycle"
        /\ \A p \in callbackLists[s][i] : StagingOf(p, s, queue[First(s)][f[i]].list)
  /\ \A k \in DOMAIN queue[First(s)] : k > done[First(s)] /\ queue[First(s)][k].kind = "recycle"
        => \E i \in DOMAIN callbackLists[s] : f[i] = k
StagingTypes ==
  callbackLists \in [Stream -> Seq(SUBSET PointT)] /\ recycled \in [Stream -> SUBSET PointT]
StagingInv ==
  /\ StagingTypes
  /\ \A s \in Stream :
       /\ \A p \in current[s] : StagingOf(p, s, lists[s])
       /\ \E f \in [DOMAIN callbackLists[s] -> DOMAIN queue[First(s)]] : Marks(s, f)
       /\ \A p \in recycled[s] : Reached(p)

-----------------------------------------------------------------------------
\* The CUDA streams of a stream.
LEMMA Workers ==
  /\ \A w \in Worker : w[1] \in Stream /\ w[2] \in 0..(Backed - 1) /\ w = <<w[1], w[2]>>
  /\ \A s \in Stream, i \in 0..(Backed - 1) : <<s, i>> \in Worker /\ <<s, i>>[1] = s /\ <<s, i>>[2] = i
  /\ \A s \in Stream : First(s) \in Worker /\ First(s)[1] = s /\ First(s)[2] = 0 /\ First(s) = <<s, 0>>
BY BackedAssumption DEF Worker, First

\* One item more in a CUDA stream.
OneMore(r, q, w, x) ==
  /\ r \in [Worker -> Seq(ItemT)]
  /\ \A v \in Worker \ {w} : r[v] = q[v]
  /\ Len(r[w]) = Len(q[w]) + 1 /\ r[w][Len(q[w]) + 1] = x
  /\ \A k \in 1..Len(q[w]) : r[w][k] = q[w][k]

LEMMA Appended ==
  \A q \in [Worker -> Seq(ItemT)], w \in Worker, x \in ItemT : OneMore(Append1(q, w, x), q, w, x)
<1> TAKE q \in [Worker -> Seq(ItemT)], w \in Worker, x \in ItemT
<1> DEFINE r == Append1(q, w, x)
<1>1. q[w] \in Seq(ItemT)
  OBVIOUS
<1>2. r[w] = Append(q[w], x)
  BY DEF Append1
<1> QED BY <1>1, <1>2 DEF Append1, OneMore

\* The waits of barrier() reach every CUDA stream that was used.
LEMMA AllJoined ==
  ASSUME NEW S, IsFiniteSet(S), S \subseteq Int, NEW order \in InOrder(S), NEW i \in S
  PROVE  \E j \in 1..Cardinality(S) : order[j] = i
<1>1. Cardinality(S) \in Nat
  BY FS_CardinalityType
<1>2. \A j, k \in 1..Cardinality(S) : order[j] = order[k] => j = k
  <2>1. order \in [1..Cardinality(S) -> S] /\ \A j, k \in 1..Cardinality(S) : j < k => order[j] < order[k]
    BY DEF InOrder
  <2>2. ASSUME NEW j \in 1..Cardinality(S), NEW k \in 1..Cardinality(S), order[j] = order[k] PROVE j = k
    <3>1. order[j] \in Int /\ order[k] \in Int
      BY <2>1
    <3>2. ~(j < k) /\ ~(k < j)
      BY <2>1, <2>2, <3>1
    <3> QED BY <1>1, <3>2
  <2> QED BY <2>2
<1>3. order \in Injection(1..Cardinality(S), S)
  BY <1>1, <1>2 DEF InOrder, Injection, IsInjective
<1>4. Cardinality(1..Cardinality(S)) = Cardinality(S)
  BY <1>1, FS_Interval
<1>5. order \in Surjection(1..Cardinality(S), S)
  BY <1>3, <1>4, FS_Injection
<1> QED BY <1>5 DEF Surjection

-----------------------------------------------------------------------------
LEMMA NewPoints ==
  ASSUME TypeInv
  PROVE  /\ \A w \in Worker : Here(w) \in PointT
         /\ \A s \in Stream : Nowhere(s) \in PointT
BY Workers DEF TypeInv, Here, Nowhere, Point, PointT

LEMMA NewItems ==
  ASSUME TypeInv, NEW s \in Stream, NEW kind \in Kind, NEW p \in PointT
  PROVE  /\ Item(s, kind, p) \in ItemT
         /\ Item(s, kind, p).kind = kind /\ Item(s, kind, p).list = lists[s] /\ Item(s, kind, p).point = p
BY DEF TypeInv, Item, ItemT

\* What the queues are after a command was put into them.
LEMMA VisitQueue ==
  ASSUME TypeInv, NEW s \in Stream, NEW upload \in BOOLEAN, Visit(s, upload), NEW w, w = <<s, round[s]>>
  PROVE  /\ w \in Worker /\ queue' \in [Worker -> Seq(ItemT)]
         /\ \A v \in Worker \ {w} : queue'[v] = queue[v]
         /\ Len(queue'[w]) = Len(queue[w]) + IF Fresh(s) THEN 2 ELSE 1
         /\ \A k \in 1..Len(queue[w]) : queue'[w][k] = queue[w][k]
         /\ queue'[w][Len(queue'[w])] = Item(s, "command", Nowhere(s))
         /\ Fresh(s) => queue'[w][Len(queue[w]) + 1] = Item(s, "wait", workerEvent[First(s)])
<1>1. w \in Worker
  BY Workers DEF TypeInv
<1>2. Item(s, "command", Nowhere(s)) \in ItemT
  BY NewItems, NewPoints DEF Kind
<1>3. workerEvent[First(s)] \in PointT
  BY Workers DEF TypeInv
<1>4. Item(s, "wait", workerEvent[First(s)]) \in ItemT
  BY <1>3, NewItems DEF Kind
<1>5. queue' = Append1(Opened(s), w, Item(s, "command", Nowhere(s)))
  BY DEF Visit
<1>6. queue \in [Worker -> Seq(ItemT)]
  BY DEF TypeInv
<1>7. CASE Fresh(s)
  <2> DEFINE q == Opened(s)
  <2>1. q = Append1(queue, w, Item(s, "wait", workerEvent[First(s)]))
    BY <1>7 DEF Opened
  <2> HIDE DEF q
  <2>2. /\ q \in [Worker -> Seq(ItemT)] /\ \A v \in Worker \ {w} : q[v] = queue[v]
        /\ Len(q[w]) = Len(queue[w]) + 1 /\ q[w][Len(queue[w]) + 1] = Item(s, "wait", workerEvent[First(s)])
        /\ \A k \in 1..Len(queue[w]) : q[w][k] = queue[w][k]
    <3>1. OneMore(q, queue, w, Item(s, "wait", workerEvent[First(s)]))
      BY <1>1, <1>4, <1>6, <2>1, Appended
    <3> QED BY <3>1 DEF OneMore
  <2>3. /\ queue' \in [Worker -> Seq(ItemT)] /\ \A v \in Worker \ {w} : queue'[v] = q[v]
        /\ Len(queue'[w]) = Len(q[w]) + 1 /\ queue'[w][Len(q[w]) + 1] = Item(s, "command", Nowhere(s))
        /\ \A k \in 1..Len(q[w]) : queue'[w][k] = q[w][k]
    <3>1. OneMore(queue', q, w, Item(s, "command", Nowhere(s)))
      BY <1>1, <1>2, <1>5, <2>2, Appended DEF q
    <3> QED BY <3>1 DEF OneMore
  <2>4. Len(queue[w]) \in Nat /\ Len(q[w]) \in Nat
    BY <1>1, <1>6, <2>2
  <2>5. Len(queue'[w]) = Len(queue[w]) + 2
    BY <2>2, <2>3, <2>4
  <2>6. queue'[w][Len(queue'[w])] = Item(s, "command", Nowhere(s))
    BY <2>2, <2>3, <2>4
  <2>7. /\ \A k \in 1..Len(queue[w]) : queue'[w][k] = queue[w][k]
        /\ queue'[w][Len(queue[w]) + 1] = Item(s, "wait", workerEvent[First(s)])
    <3>1. \A k \in 1..Len(queue[w]) + 1 : k \in 1..Len(q[w])
      BY <2>2, <2>4
    <3>2. \A k \in 1..Len(queue[w]) + 1 : queue'[w][k] = q[w][k]
      BY <2>3, <3>1
    <3>3. \A k \in 1..Len(queue[w]) : k \in 1..Len(queue[w]) + 1
      BY <2>4
    <3>4. Len(queue[w]) + 1 \in 1..Len(queue[w]) + 1
      BY <2>4
    <3> QED BY <2>2, <3>2, <3>3, <3>4
  <2> QED BY <1>1, <1>7, <2>2, <2>3, <2>5, <2>6, <2>7
<1>8. CASE ~Fresh(s)
  <2>1. queue' = Append1(queue, w, Item(s, "command", Nowhere(s)))
    BY <1>5, <1>8 DEF Opened
  <2>2. OneMore(queue', queue, w, Item(s, "command", Nowhere(s)))
    BY <1>1, <1>2, <1>6, <2>1, Appended
  <2>3. Len(queue[w]) \in Nat
    BY <1>1, <1>6
  <2> QED BY <1>1, <1>8, <2>2, <2>3 DEF OneMore
<1> QED BY <1>7, <1>8

\* What barrier() puts into the first CUDA stream.
LEMMA BarrierQueue ==
  ASSUME TypeInv, NEW s \in Stream, Barrier(s)
  PROVE  LET w == First(s) IN
         /\ queue' \in [Worker -> Seq(ItemT)] /\ \A v \in Worker \ {w} : queue'[v] = queue[v]
         /\ Len(queue'[w]) >= Len(queue[w])
         /\ \A k \in 1..Len(queue[w]) : queue'[w][k] = queue[w][k]
         /\ \A k \in DOMAIN queue'[w] : k > Len(queue[w]) => queue'[w][k].kind = "wait" /\ queue'[w][k] \in ItemT
         /\ \A i \in Others(s) : \E k \in DOMAIN queue'[w] :
               queue'[w][k].kind = "wait" /\ queue'[w][k].point = Here(<<s, i>>)
         /\ \A k \in DOMAIN queue'[w] : k > Len(queue[w]) => \E i \in Others(s) : queue'[w][k].point = Here(<<s, i>>)
<1> DEFINE w == First(s)
           S == Others(s)
<1>1. w \in Worker /\ queue \in [Worker -> Seq(ItemT)]
  BY Workers DEF TypeInv
<1>2. S \subseteq 1..(Backed - 1)
  BY DEF TypeInv, Others
<1>3. IsFiniteSet(S) /\ S \subseteq Int
  <2>1. Backed - 1 \in Int /\ 1 \in Int
    BY BackedAssumption
  <2>2. IsFiniteSet(1..(Backed - 1))
    BY <2>1, FS_Interval
  <2>3. IsFiniteSet(S)
    BY <1>2, <2>2, FS_Subset
  <2> QED BY <1>2, <2>1, <2>3
<1>4. Cardinality(S) \in Nat
  BY <1>3, FS_CardinalityType
<1>5. PICK order \in InOrder(S) :
        queue' = [queue EXCEPT ![w] = @ \o [j \in 1..Cardinality(S) |-> Item(s, "wait", Here(<<s, order[j]>>))]]
  BY DEF Barrier
<1>6. order \in [1..Cardinality(S) -> S]
  BY DEF InOrder
<1> DEFINE joined == [j \in 1..Cardinality(S) |-> Item(s, "wait", Here(<<s, order[j]>>))]
<1>7. \A j \in 1..Cardinality(S) : <<s, order[j]>> \in Worker
  BY <1>2, <1>6, Workers, BackedAssumption
<1>8. \A j \in 1..Cardinality(S) :
         /\ Item(s, "wait", Here(<<s, order[j]>>)) \in ItemT
         /\ Item(s, "wait", Here(<<s, order[j]>>)).kind = "wait"
         /\ Item(s, "wait", Here(<<s, order[j]>>)).point = Here(<<s, order[j]>>)
  <2>1. "wait" \in Kind
    BY DEF Kind
  <2> QED BY <1>7, <2>1, NewItems, NewPoints
<1>9. joined \in Seq(ItemT) /\ Len(joined) = Cardinality(S)
  <2>1. \A j \in 1..Cardinality(S) : joined[j] \in ItemT
    BY <1>8
  <2>2. joined \in [1..Cardinality(S) -> ItemT]
    BY <2>1
  <2> HIDE DEF joined
  <2> QED BY <1>4, <2>2
<1>10. /\ queue' = [queue EXCEPT ![w] = queue[w] \o joined]
  BY <1>5
<1> HIDE DEF joined
<1>11. queue[w] \o joined \in Seq(ItemT)
  BY <1>1, <1>9
<1>12. queue' \in [Worker -> Seq(ItemT)] /\ queue'[w] = queue[w] \o joined
  BY <1>1, <1>10, <1>11
<1>13. /\ Len(queue'[w]) = Len(queue[w]) + Cardinality(S)
       /\ \A k \in 1..Len(queue[w]) : queue'[w][k] = queue[w][k]
       /\ \A k \in 1..Cardinality(S) : queue'[w][Len(queue[w]) + k] = joined[k]
  <2>1. queue[w] \in Seq(ItemT)
    BY <1>1
  <2> HIDE DEF w, S
  <2> QED BY <1>4, <1>9, <1>12, <2>1
<1>14. Len(queue[w]) \in Nat /\ DOMAIN queue'[w] = 1..Len(queue'[w])
  BY <1>1, <1>12
<1>15. \A k \in DOMAIN queue'[w] : k > Len(queue[w]) => queue'[w][k].kind = "wait" /\ queue'[w][k] \in ItemT
  <2> TAKE k \in DOMAIN queue'[w]
  <2> HAVE k > Len(queue[w])
  <2> DEFINE j == k - Len(queue[w])
  <2>1. j \in 1..Cardinality(S) /\ k = Len(queue[w]) + j
    BY <1>4, <1>13, <1>14
  <2>2. queue'[w][k] = joined[j]
    BY <1>13, <2>1
  <2> QED BY <1>8, <2>1, <2>2 DEF joined
<1>16. \A i \in S : \E k \in DOMAIN queue'[w] :
          queue'[w][k].kind = "wait" /\ queue'[w][k].point = Here(<<s, i>>)
  <2> TAKE i \in S
  <2>1. PICK j \in 1..Cardinality(S) : order[j] = i
    BY <1>3, AllJoined
  <2>2. Len(queue[w]) + j \in DOMAIN queue'[w]
    BY <1>4, <1>13, <1>14
  <2>3. queue'[w][Len(queue[w]) + j] = Item(s, "wait", Here(<<s, i>>))
    BY <1>13, <2>1 DEF joined
  <2> QED BY <1>8, <2>1, <2>2, <2>3
<1>17. \A v \in Worker \ {w} : queue'[v] = queue[v]
  BY <1>10
<1>18. Len(queue'[w]) >= Len(queue[w])
  BY <1>4, <1>13, <1>14
<1>19. \A k \in DOMAIN queue'[w] : k > Len(queue[w]) => \E i \in S : queue'[w][k].point = Here(<<s, i>>)
  <2> TAKE k \in DOMAIN queue'[w]
  <2> HAVE k > Len(queue[w])
  <2> DEFINE j == k - Len(queue[w])
  <2>1. j \in 1..Cardinality(S) /\ k = Len(queue[w]) + j
    BY <1>4, <1>13, <1>14
  <2>2. queue'[w][k] = joined[j]
    BY <1>13, <2>1
  <2>3. joined[j] = Item(s, "wait", Here(<<s, order[j]>>)) /\ order[j] \in S
    BY <1>6, <2>1 DEF joined
  <2> QED BY <1>8, <2>1, <2>2, <2>3
<1> QED BY <1>12, <1>13, <1>15, <1>16, <1>17, <1>18, <1>19

-----------------------------------------------------------------------------
\* What every step does to the queues: it only adds to them, and commands only
\* to the list that is open.
Extends ==
  /\ queue' \in [Worker -> Seq(ItemT)]
  /\ \A w \in Worker : /\ Len(queue'[w]) >= Len(queue[w])
                       /\ \A k \in DOMAIN queue[w] : k \in DOMAIN queue'[w] /\ queue'[w][k] = queue[w][k]
                       /\ \A k \in DOMAIN queue'[w] : k > Len(queue[w]) /\ queue'[w][k].kind = "command"
                            => queue'[w][k].list > Complete(w[1])
  /\ lists' \in [Stream -> Nat]
  /\ \A s \in Stream : lists'[s] >= lists[s] /\ Complete(s)' >= Complete(s)

Lengths == \A w \in Worker : Len(queue[w]) \in Nat /\ DOMAIN queue[w] = 1..Len(queue[w])

LEMMA LengthsOf == TypeInv => Lengths
BY DEF TypeInv, Lengths

LEMMA QuietExtends ==
  ASSUME TypeInv, queue' = queue, lists' = lists, \A s \in Stream : Complete(s)' >= Complete(s)
  PROVE  Extends
<1>1. \A w \in Worker : Len(queue[w]) \in Nat /\ DOMAIN queue[w] = 1..Len(queue[w])
  BY LengthsOf DEF Lengths
<1> QED BY <1>1 DEF Extends, TypeInv

LEMMA AppendExtends ==
  ASSUME TypeInv, NEW w \in Worker, NEW x \in ItemT, queue' = Append1(queue, w, x), x.kind # "command",
         lists' = lists, \A s \in Stream : Complete(s)' >= Complete(s)
  PROVE  Extends /\ OneMore(queue', queue, w, x)
<1>1. OneMore(queue', queue, w, x)
  BY Appended DEF TypeInv
<1>2. Lengths /\ \A v \in Worker : Len(queue'[v]) \in Nat /\ DOMAIN queue'[v] = 1..Len(queue'[v])
  BY <1>1, LengthsOf DEF OneMore
<1>3. ASSUME NEW v \in Worker
      PROVE  /\ Len(queue'[v]) >= Len(queue[v])
             /\ \A k \in DOMAIN queue[v] : k \in DOMAIN queue'[v] /\ queue'[v][k] = queue[v][k]
             /\ \A k \in DOMAIN queue'[v] : k > Len(queue[v]) => queue'[v][k].kind # "command"
  <2>1. CASE v = w
    BY <1>1, <1>2, <2>1 DEF Lengths, OneMore
  <2>2. CASE v # w
    BY <1>1, <1>2, <2>2 DEF Lengths, OneMore
  <2> QED BY <2>1, <2>2
<1>4. \A s \in Stream : lists'[s] >= lists[s]
  BY DEF TypeInv
<1> QED BY <1>1, <1>3, <1>4 DEF Extends, TypeInv, OneMore

LEMMA VisitExtends ==
  ASSUME TypeInv, NEW s \in Stream, NEW upload \in BOOLEAN, Visit(s, upload)
  PROVE  Extends
<1> DEFINE w == <<s, round[s]>>
<1>0. w \in Worker /\ w[1] = s
  BY Workers DEF TypeInv
<1>1. /\ queue' \in [Worker -> Seq(ItemT)]
      /\ \A v \in Worker \ {w} : queue'[v] = queue[v]
      /\ Len(queue'[w]) = Len(queue[w]) + IF Fresh(s) THEN 2 ELSE 1
      /\ \A k \in 1..Len(queue[w]) : queue'[w][k] = queue[w][k]
      /\ queue'[w][Len(queue'[w])] = Item(s, "command", Nowhere(s))
      /\ Fresh(s) => queue'[w][Len(queue[w]) + 1] = Item(s, "wait", workerEvent[First(s)])
  BY VisitQueue
<1> HIDE DEF w
<1>2. Lengths /\ \A v \in Worker : Len(queue'[v]) \in Nat /\ DOMAIN queue'[v] = 1..Len(queue'[v])
  BY <1>1, LengthsOf
<1>3. /\ Fresh(s) => Len(queue'[w]) = Len(queue[w]) + 2
      /\ ~Fresh(s) => Len(queue'[w]) = Len(queue[w]) + 1
  BY <1>1
<1>4. pc[s] = "list" /\ pc' = pc /\ lists' = lists /\ lists[s] \in Nat
  BY DEF Visit, TypeInv
<1>5. Item(s, "command", Nowhere(s)).list = lists[s] /\ Item(s, "wait", workerEvent[First(s)]).kind = "wait"
  BY DEF Item
<1>6. Complete(s) = lists[s] - 1
  BY <1>4 DEF Complete
<1>7. ASSUME NEW k \in DOMAIN queue'[w], k > Len(queue[w]), queue'[w][k].kind = "command"
      PROVE  queue'[w][k].list > Complete(w[1])
  <2>0. Complete(w[1]) = lists[s] - 1
    BY <1>0, <1>6
  <2>1. CASE k = Len(queue'[w])
    <3>1. queue'[w][k].list = lists[s]
      BY <1>1, <1>5, <2>1
    <3> QED BY <1>4, <2>0, <3>1
  <2>2. CASE k # Len(queue'[w])
    <3>1. Fresh(s) /\ k = Len(queue[w]) + 1
      BY <1>0, <1>2, <1>7, <1>3, <2>2 DEF Lengths
    <3> QED BY <1>1, <1>5, <1>7, <3>1
  <2> QED BY <2>1, <2>2
<1>8. ASSUME NEW v \in Worker
      PROVE  /\ Len(queue'[v]) >= Len(queue[v])
             /\ \A k \in DOMAIN queue[v] : k \in DOMAIN queue'[v] /\ queue'[v][k] = queue[v][k]
             /\ \A k \in DOMAIN queue'[v] : k > Len(queue[v]) /\ queue'[v][k].kind = "command"
                            => queue'[v][k].list > Complete(v[1])
  <2>1. CASE v = w
    <3>1. Len(queue'[w]) >= Len(queue[w])
      BY <1>0, <1>2, <1>3 DEF Lengths
    <3>2. DOMAIN queue[w] = 1..Len(queue[w]) /\ DOMAIN queue[w] \subseteq DOMAIN queue'[w]
      BY <1>0, <1>2, <3>1 DEF Lengths
    <3>3. \A k \in DOMAIN queue[w] : k \in DOMAIN queue'[w] /\ queue'[w][k] = queue[w][k]
      BY <1>1, <3>2
    <3> QED BY <1>7, <2>1, <3>1, <3>3
  <2>2. CASE v # w
    BY <1>1, <1>2, <2>2 DEF Lengths
  <2> QED BY <2>1, <2>2
<1>9. \A r \in Stream : lists'[r] >= lists[r] /\ Complete(r)' >= Complete(r)
  BY <1>4 DEF Complete, TypeInv
<1> QED BY <1>1, <1>4, <1>8, <1>9 DEF Extends, TypeInv

LEMMA BarrierExtends == ASSUME TypeInv, NEW s \in Stream, Barrier(s) PROVE Extends
<1> DEFINE w == First(s)
<1>1. /\ queue' \in [Worker -> Seq(ItemT)] /\ \A v \in Worker \ {w} : queue'[v] = queue[v]
      /\ Len(queue'[w]) >= Len(queue[w])
      /\ \A k \in 1..Len(queue[w]) : queue'[w][k] = queue[w][k]
      /\ \A k \in DOMAIN queue'[w] : k > Len(queue[w]) => queue'[w][k].kind = "wait" /\ queue'[w][k] \in ItemT
  BY BarrierQueue
<1>2. Lengths /\ \A v \in Worker : Len(queue'[v]) \in Nat /\ DOMAIN queue'[v] = 1..Len(queue'[v])
  BY <1>1, LengthsOf
<1>3. lists' = lists /\ pc' = [pc EXCEPT ![s] = "between"]
  BY DEF Barrier, Goes
<1>4. \A r \in Stream : lists'[r] >= lists[r] /\ Complete(r)' >= Complete(r)
  BY <1>3 DEF Complete, TypeInv
<1>5. ASSUME NEW v \in Worker
      PROVE  /\ Len(queue'[v]) >= Len(queue[v])
             /\ \A k \in DOMAIN queue[v] : k \in DOMAIN queue'[v] /\ queue'[v][k] = queue[v][k]
             /\ \A k \in DOMAIN queue'[v] : k > Len(queue[v]) => queue'[v][k].kind # "command"
  <2>1. CASE v = w
    BY <1>1, <1>2, <2>1 DEF Lengths
  <2>2. CASE v # w
    BY <1>1, <1>2, <2>2 DEF Lengths
  <2> QED BY <2>1, <2>2
<1> QED BY <1>1, <1>3, <1>4, <1>5 DEF Extends, TypeInv

\* The calls that do not touch the queues.
LEMMA OtherExtends ==
  ASSUME TypeInv, NEW s \in Stream,
         BeginList(s) \/ Synchronize(s) \/ Synchronized(s) \/ \E e \in Event : SignalEvent(s, e)
  PROVE  Extends
<1>1. CASE BeginList(s)
  <2>1. /\ queue' = queue /\ lists' = [lists EXCEPT ![s] = @ + 1] /\ pc' = [pc EXCEPT ![s] = "list"]
        /\ pc[s] \in {"idle", "between"}
    BY <1>1 DEF BeginList, Goes, device
  <2>2. lists' \in [Stream -> Nat] /\ \A r \in Stream : lists'[r] >= lists[r] /\ Complete(r)' >= Complete(r)
    BY <2>1 DEF Complete, TypeInv
  <2>3. Lengths
    BY LengthsOf
  <2> QED BY <2>1, <2>2, <2>3 DEF Extends, TypeInv, Lengths
<1>2. CASE Synchronize(s) \/ Synchronized(s)
  <2>1. queue' = queue /\ lists' = lists
    BY <1>2 DEF Synchronize, Synchronized, device
  <2>2. \A r \in Stream : Complete(r)' >= Complete(r)
    BY <1>2 DEF Synchronize, Synchronized, Goes, Complete, TypeInv
  <2> QED BY <2>1, <2>2, QuietExtends
<1>3. ASSUME NEW e \in Event, SignalEvent(s, e) PROVE Extends
  <2>1. queue' = queue /\ lists' = lists /\ pc' = pc
    BY <1>3 DEF SignalEvent, device
  <2>2. \A r \in Stream : Complete(r)' >= Complete(r)
    BY <2>1 DEF Complete, TypeInv
  <2> QED BY <2>1, <2>2, QuietExtends
<1> QED BY <1>1, <1>2, <1>3

\* The calls that put one item into the first CUDA stream, and what it is.
Adds(s, x) ==
  /\ x \in ItemT /\ x.list = lists[s] /\ x.kind # "command"
  /\ pc[s] # "list" /\ x.kind \in {"wait", "function", "recycle"}
  /\ OneMore(queue', queue, First(s), x)

LEMMA AddExtends ==
  ASSUME TypeInv, NEW s \in Stream,
         NEW x \in ItemT, x.kind # "command", queue' = Append1(queue, First(s), x),
         lists' = lists, pc' = pc \/ (pc[s] # "list" /\ pc' = [pc EXCEPT ![s] = "idle"])
  PROVE  Extends /\ OneMore(queue', queue, First(s), x)
<1>1. First(s) \in Worker
  BY Workers
<1>2. \A r \in Stream : Complete(r)' >= Complete(r)
  BY DEF Complete, TypeInv
<1> QED BY <1>1, <1>2, AppendExtends

LEMMA FunctionAdds ==
  ASSUME TypeInv, NEW s \in Stream, DispatchFunction(s)
  PROVE  Extends /\ Adds(s, Item(s, "function", Nowhere(s)))
<1> DEFINE x == Item(s, "function", Nowhere(s))
<1>1. x \in ItemT /\ x.kind = "function" /\ x.list = lists[s]
  BY NewItems, NewPoints DEF Kind
<1> HIDE DEF x
<1>2. queue' = Append1(queue, First(s), x) /\ lists' = lists /\ pc' = pc /\ pc[s] = "idle"
  BY DEF DispatchFunction, x
<1>3. Extends /\ OneMore(queue', queue, First(s), x)
  BY <1>1, <1>2, AddExtends
<1>4. Adds(s, x)
  BY <1>1, <1>2, <1>3 DEF Adds
<1> QED BY <1>3, <1>4 DEF x

LEMMA WaitAdds ==
  ASSUME TypeInv, NEW s \in Stream, NEW e \in Event, WaitEvent(s, e)
  PROVE  Extends /\ Adds(s, Item(s, "wait", event[e]))
<1> DEFINE x == Item(s, "wait", event[e])
<1>1. x \in ItemT /\ x.kind = "wait" /\ x.list = lists[s]
  BY NewItems DEF Kind, TypeInv
<1> HIDE DEF x
<1>2. queue' = Append1(queue, First(s), x) /\ lists' = lists /\ pc' = pc /\ pc[s] = "idle"
  BY DEF WaitEvent, x
<1>3. Extends /\ OneMore(queue', queue, First(s), x)
  BY <1>1, <1>2, AddExtends
<1>4. Adds(s, x)
  BY <1>1, <1>2, <1>3 DEF Adds
<1> QED BY <1>3, <1>4 DEF x

LEMMA CallbacksAdd ==
  ASSUME TypeInv, NEW s \in Stream, DispatchCallbacks(s)
  PROVE  Extends /\ ((current[s] = {} /\ queue' = queue) \/ Adds(s, Item(s, "recycle", Nowhere(s))))
<1> DEFINE x == Item(s, "recycle", Nowhere(s))
<1>1. x \in ItemT /\ x.kind = "recycle" /\ x.list = lists[s]
  BY NewItems, NewPoints DEF Kind
<1> HIDE DEF x
<1>2. lists' = lists /\ pc' = [pc EXCEPT ![s] = "idle"] /\ pc[s] = "between"
  BY DEF DispatchCallbacks, Goes
<1>3. CASE current[s] = {}
  <2>1. queue' = queue
    BY <1>3 DEF DispatchCallbacks
  <2>2. \A r \in Stream : Complete(r)' >= Complete(r)
    BY <1>2 DEF Complete, TypeInv
  <2> QED BY <1>2, <1>3, <2>1, <2>2, QuietExtends
<1>4. CASE current[s] # {}
  <2>1. queue' = Append1(queue, First(s), x)
    BY <1>4 DEF DispatchCallbacks, Recycler, x
  <2>2. Extends /\ OneMore(queue', queue, First(s), x)
    BY <1>1, <1>2, <2>1, AddExtends
  <2>3. Adds(s, x)
    BY <1>1, <1>2, <2>2 DEF Adds
  <2> QED BY <2>2, <2>3 DEF x
<1> QED BY <1>3, <1>4

LEMMA ExecuteExtends == ASSUME TypeInv, NEW w \in Worker, Execute(w) PROVE Extends
<1>1. queue' = queue /\ lists' = lists /\ pc' = pc
  BY DEF Execute
<1>2. \A r \in Stream : Complete(r)' >= Complete(r)
  BY <1>1 DEF Complete, TypeInv
<1> QED BY <1>1, <1>2, QuietExtends

LEMMA StepExtends == ASSUME TypeInv, Next PROVE Extends
<1>1. ASSUME NEW s \in Stream, Call(s) \/ Continue(s) PROVE Extends
  BY <1>1, VisitExtends, BarrierExtends, OtherExtends, FunctionAdds, WaitAdds, CallbacksAdd DEF Call, Continue
<1> QED BY <1>1, ExecuteExtends DEF Next

-----------------------------------------------------------------------------
LEMMA Rounds ==
  ASSUME TypeInv, NEW s \in Stream
  PROVE  NextRound(s) \in 0..(Backed - 1) /\ 1 % Backed \in 0..(Backed - 1) /\ 0 \in 0..(Backed - 1)
BY BackedAssumption DEF TypeInv, NextRound

LEMMA CallTypes == ASSUME TypeInv, NEW s \in Stream, Call(s) \/ Continue(s) PROVE TypeInv'
<1>0. Extends
  BY StepExtends DEF Next
<1> DEFINE Queues == /\ queue' \in [Worker -> Seq(ItemT)] /\ lists' \in [Stream -> Nat]
                     /\ \A w \in Worker : done[w] <= Len(queue'[w])
<1>1. Queues
  <2>1. \A w \in Worker : Len(queue[w]) \in Nat /\ Len(queue'[w]) \in Nat
    BY <1>0, LengthsOf DEF Lengths, Extends
  <2> QED BY <1>0, <2>1 DEF Extends, TypeInv
<1> HIDE DEF Queues
<1>2. ASSUME NEW upload \in BOOLEAN, Visit(s, upload) PROVE TypeInv'
  <2> DEFINE w == <<s, round[s]>>
             p == Point(w, Len(queue'[w]), lists[s])
  <2>1. w \in Worker /\ round[s] \in 0..(Backed - 1)
    BY Workers DEF TypeInv
  <2>2. p \in PointT
    BY <1>1, <2>1 DEF Queues, Point, PointT, TypeInv
  <2> HIDE DEF w, p
  <2>3. current' = [current EXCEPT ![s] = IF upload THEN @ \cup {p} ELSE @]
    BY <1>2 DEF Visit, w, p
  <2>4. current' \in [Stream -> SUBSET PointT]
    BY <2>2, <2>3 DEF TypeInv
  <2>5. used' \in [Stream -> SUBSET (1..(Backed - 1))]
    <3>1. Fresh(s) => round[s] \in 1..(Backed - 1)
      BY <2>1, BackedAssumption DEF Fresh
    <3>2. used' = [used EXCEPT ![s] = IF Fresh(s) THEN @ \cup {round[s]} ELSE @]
      BY <1>2 DEF Visit
    <3> QED BY <3>1, <3>2 DEF TypeInv
  <2>6. round' \in [Stream -> 0..(Backed - 1)]
    BY <1>2, Rounds DEF Visit, TypeInv
  <2>7. UNCHANGED <<done, event, workerEvent, pc>>
    BY <1>2 DEF Visit, events
  <2> QED BY <1>1, <2>4, <2>5, <2>6, <2>7 DEF TypeInv, Queues
<1>3. CASE Barrier(s)
  <2>1. workerEvent' \in [Worker -> PointT]
    <3>1. \A w \in Worker : Here(w) \in PointT /\ Point(w, Len(queue'[w]), lists[s]) \in PointT
      <4>1. lists[s] \in Nat /\ \A w \in Worker : Len(queue'[w]) \in Nat
        BY <1>1 DEF Queues, TypeInv
      <4> QED BY <4>1, NewPoints DEF Point, PointT
    <3>2. workerEvent' = [w \in Worker |->
             IF w = First(s) THEN Point(w, Len(queue'[w]), lists[s])
             ELSE IF w[1] = s /\ w[2] \in Others(s) THEN Here(w) ELSE workerEvent[w]]
      BY <1>3 DEF Barrier
    <3>3. \A w \in Worker : workerEvent[w] \in PointT
      BY DEF TypeInv
    <3> QED BY <3>1, <3>2, <3>3
  <2>2. /\ used' = [used EXCEPT ![s] = {}] /\ round' = [round EXCEPT ![s] = 0]
        /\ pc' = [pc EXCEPT ![s] = "between"] /\ UNCHANGED <<done, event, current>>
    BY <1>3 DEF Barrier, Goes, calls
  <2>3. used' \in [Stream -> SUBSET (1..(Backed - 1))] /\ round' \in [Stream -> 0..(Backed - 1)]
    BY <2>2, Rounds DEF TypeInv
  <2> QED BY <1>1, <2>1, <2>2, <2>3 DEF TypeInv, Queues
<1>4. CASE BeginList(s) \/ DispatchCallbacks(s) \/ Synchronized(s)
  <2>1. UNCHANGED <<done, event, workerEvent, used, round>>
    BY <1>4 DEF BeginList, DispatchCallbacks, Synchronized, device, events, picks
  <2>2. current' \in [Stream -> SUBSET PointT]
    BY <1>4 DEF BeginList, DispatchCallbacks, Synchronized, calls, TypeInv
  <2>3. pc' \in [Stream -> {"idle", "list", "between", "synchronize"}]
    BY <1>4 DEF BeginList, DispatchCallbacks, Synchronized, Goes, TypeInv
  <2> QED BY <1>1, <2>1, <2>2, <2>3 DEF TypeInv, Queues
<1>5. CASE DispatchFunction(s) \/ Synchronize(s)
  <2>1. UNCHANGED <<done, event, workerEvent, current>>
    BY <1>5 DEF DispatchFunction, Synchronize, device, events, calls
  <2>2. used' = [used EXCEPT ![s] = {}] /\ round' = [round EXCEPT ![s] = 0]
    BY <1>5 DEF DispatchFunction, Synchronize
  <2>3. used' \in [Stream -> SUBSET (1..(Backed - 1))] /\ round' \in [Stream -> 0..(Backed - 1)]
    BY <2>2, Rounds DEF TypeInv
  <2>4. pc' \in [Stream -> {"idle", "list", "between", "synchronize"}]
    BY <1>5 DEF DispatchFunction, Synchronize, Goes, TypeInv
  <2> QED BY <1>1, <2>1, <2>3, <2>4 DEF TypeInv, Queues
<1>6. ASSUME NEW e \in Event, SignalEvent(s, e) \/ WaitEvent(s, e) PROVE TypeInv'
  <2>1. UNCHANGED <<done, workerEvent, used, current, pc>>
    BY <1>6 DEF SignalEvent, WaitEvent, device, events, calls
  <2>2. event' \in [Event -> PointT]
    <3>1. Here(First(s)) \in PointT
      BY Workers, NewPoints
    <3> QED BY <1>6, <3>1 DEF SignalEvent, WaitEvent, events, TypeInv
  <2>3. round' \in [Stream -> 0..(Backed - 1)]
    BY <1>6, Rounds DEF SignalEvent, WaitEvent, PickFirst, TypeInv
  <2> QED BY <1>1, <2>1, <2>2, <2>3 DEF TypeInv, Queues
<1> QED BY <1>2, <1>3, <1>4, <1>5, <1>6 DEF Call, Continue

LEMMA ExecuteTypes == ASSUME TypeInv, NEW w \in Worker, Execute(w) PROVE TypeInv'
<1>1. UNCHANGED <<queue, event, workerEvent, used, round, current, pc, lists>>
  BY DEF Execute, events, picks
<1>2. done' = [done EXCEPT ![w] = @ + 1] /\ done[w] < Len(queue[w])
  BY DEF Execute, HasNext
<1>3. \A v \in Worker : done'[v] <= Len(queue[v])
  BY <1>2, LengthsOf DEF TypeInv, Lengths
<1> QED BY <1>1, <1>2, <1>3 DEF TypeInv

LEMMA TypesKept == ASSUME TypeInv, [Next]_vars PROVE TypeInv'
<1>1. CASE vars' = vars
  BY <1>1 DEF vars, TypeInv, device, events, picks, calls
<1> QED BY <1>1, CallTypes, ExecuteTypes DEF Next

LEMMA TypesInit == Init => TypeInv
<1> HAVE Init
<1>1. \A s \in Stream : Nowhere(s) \in PointT
  BY Workers DEF Nowhere, Point, PointT
<1>2. \A w \in Worker : w[1] \in Stream
  BY Workers
<1>3. 0 \in 0..(Backed - 1)
  BY BackedAssumption
<1>4. queue \in [Worker -> Seq(ItemT)] /\ \A w \in Worker : Len(queue[w]) = 0 /\ done[w] = 0
  BY DEF Init
<1>5. event \in [Event -> PointT] /\ workerEvent \in [Worker -> PointT]
  BY <1>1, <1>2 DEF Init
<1> QED BY <1>3, <1>4, <1>5 DEF Init, TypeInv

-----------------------------------------------------------------------------
\* What is behind some lists stays behind them, and is also behind fewer lists
\* and when it comes later.
LEMMA Items ==
  ASSUME TypeInv
  PROVE  /\ \A w \in Worker, k \in Nat : k \in DOMAIN queue[w] => queue[w][k] \in ItemT
         /\ \A w \in Worker : \A k \in DOMAIN queue[w] :
              queue[w][k] \in ItemT /\ queue[w][k].list \in Nat /\ queue[w][k].point \in PointT
              /\ queue[w][k].point.pos \in Nat /\ k \in Nat
         /\ \A s \in Stream : Complete(s) \in Int /\ lists[s] \in Nat /\ Complete(s) <= lists[s]
                              /\ lists[s] - 1 <= Complete(s)
<1>1. ASSUME NEW w \in Worker, NEW k \in DOMAIN queue[w] PROVE queue[w][k] \in ItemT /\ k \in Nat
  <2>1. queue[w] \in Seq(ItemT)
    BY DEF TypeInv
  <2> QED BY <2>1
<1>2. \A x \in ItemT : x.list \in Nat /\ x.point \in PointT /\ x.point.pos \in Nat
  BY DEF ItemT, PointT
<1>3. \A s \in Stream : Complete(s) \in Int /\ lists[s] \in Nat /\ Complete(s) <= lists[s]
                         /\ lists[s] - 1 <= Complete(s)
  BY DEF TypeInv, Complete
<1> QED BY <1>1, <1>2, <1>3

LEMMA WaitedKept ==
  ASSUME TypeInv, Extends, NEW w \in Worker, NEW pos \in Nat, NEW v \in Worker, NEW k \in Nat,
         Waited(w, pos, v, k)
  PROVE  Waited(w, pos, v, k)'
BY DEF Waited, Extends

LEMMA CoversKept ==
  ASSUME TypeInv, Extends, NEW s \in Stream, NEW pos \in Nat, NEW n \in Int, n <= Complete(s), Covers(s, pos, n)
  PROVE  Covers(s, pos, n)'
<1> SUFFICES ASSUME NEW i \in 0..(Backed - 1), NEW k \in DOMAIN queue'[<<s, i>>], CommandOf(<<s, i>>, k, n)'
             PROVE  IF i = 0 THEN k <= pos ELSE Waited(First(s), pos, <<s, i>>, k)'
  BY DEF Covers, First
<1>0. <<s, i>> \in Worker /\ <<s, i>>[1] = s /\ First(s) \in Worker
  BY Workers
<1> DEFINE w == <<s, i>>
<1> HIDE DEF w
<1>1. queue'[w][k].kind = "command" /\ queue'[w][k].list <= n
  BY DEF CommandOf, w
<1>2. k \in Nat /\ queue'[w][k].list \in Nat /\ k \in DOMAIN queue'[w]
  <2>1. queue'[w] \in Seq(ItemT) /\ k \in DOMAIN queue'[w]
    BY <1>0 DEF w, Extends
  <2>2. k \in Nat /\ queue'[w][k] \in ItemT
    BY <2>1
  <2> QED BY <2>1, <2>2 DEF ItemT
<1>3. k \in DOMAIN queue[w] /\ queue'[w][k] = queue[w][k]
  <2>1. CASE k > Len(queue[w])
    <3>1. queue'[w][k].list > Complete(s)
      BY <1>0, <1>1, <1>2, <2>1 DEF Extends, w
    <3> QED BY <1>1, <1>2, <3>1, Items
  <2>2. CASE ~(k > Len(queue[w]))
    BY <1>0, <1>2, <2>2, LengthsOf DEF Extends, Lengths, w
  <2> QED BY <2>1, <2>2
<1>4. IF i = 0 THEN k <= pos ELSE Waited(First(s), pos, w, k)
  BY <1>1, <1>3 DEF Covers, CommandOf, w
<1>5. Waited(First(s), pos, w, k) => Waited(First(s), pos, w, k)'
  BY <1>0, <1>2, WaitedKept DEF w
<1> QED BY <1>4, <1>5 DEF w

LEMMA CoversMore ==
  ASSUME TypeInv, NEW s \in Stream, NEW pos \in Nat, NEW n \in Int, Covers(s, pos, n),
         NEW more \in Nat, more >= pos, NEW fewer \in Int, fewer <= n
  PROVE  Covers(s, more, fewer)
<1> SUFFICES ASSUME NEW i \in 0..(Backed - 1), NEW k \in DOMAIN queue[<<s, i>>], CommandOf(<<s, i>>, k, fewer)
             PROVE  IF i = 0 THEN k <= more ELSE Waited(First(s), more, <<s, i>>, k)
  BY DEF Covers
<1>1. <<s, i>> \in Worker
  BY Workers
<1>2. CommandOf(<<s, i>>, k, n) /\ k \in Nat
  BY <1>1, Items DEF CommandOf
<1>3. IF i = 0 THEN k <= pos ELSE Waited(First(s), pos, <<s, i>>, k)
  BY <1>2 DEF Covers
<1>4. 1..pos \subseteq 1..more
  OBVIOUS
<1> QED BY <1>2, <1>3, <1>4 DEF Waited

LEMMA GatedMore ==
  ASSUME TypeInv, NEW w \in Worker, NEW pos \in Nat, NEW n \in Int, Gated(w, pos, n),
         NEW more \in Nat, more >= pos, NEW fewer \in Int, fewer <= n
  PROVE  Gated(w, more, fewer)
<1>1. PICK j \in 1..pos : /\ j \in DOMAIN queue[w] /\ queue[w][j].kind = "wait"
                          /\ queue[w][j].point.worker = First(w[1])
                          /\ Covers(w[1], queue[w][j].point.pos, n)
  BY DEF Gated
<1>2. w[1] \in Stream /\ queue[w][j].point.pos \in Nat
  BY <1>1, Workers, Items
<1>3. Covers(w[1], queue[w][j].point.pos, fewer)
  BY <1>1, <1>2, CoversMore
<1>4. j \in 1..more
  OBVIOUS
<1> QED BY <1>1, <1>3, <1>4 DEF Gated

LEMMA GatedKept ==
  ASSUME TypeInv, Extends, NEW w \in Worker, NEW pos \in Nat, NEW n \in Int, n <= Complete(w[1]), Gated(w, pos, n)
  PROVE  Gated(w, pos, n)'
<1>1. PICK j \in 1..pos : /\ j \in DOMAIN queue[w] /\ queue[w][j].kind = "wait"
                          /\ queue[w][j].point.worker = First(w[1])
                          /\ Covers(w[1], queue[w][j].point.pos, n)
  BY DEF Gated
<1>2. w[1] \in Stream /\ queue[w][j].point.pos \in Nat
  BY <1>1, Workers, Items
<1>3. j \in DOMAIN queue'[w] /\ queue'[w][j] = queue[w][j]
  BY <1>1 DEF Extends
<1> DEFINE p == queue[w][j].point.pos
<1>4. Covers(w[1], p, n)
  BY <1>1
<1> HIDE DEF p
<1>5. \A q \in Nat : Covers(w[1], q, n) => Covers(w[1], q, n)'
  BY <1>2, CoversKept
<1>6. Covers(w[1], queue[w][j].point.pos, n)'
  BY <1>2, <1>3, <1>4, <1>5 DEF p
<1> QED BY <1>1, <1>3, <1>6 DEF Gated, First

-----------------------------------------------------------------------------
\* A step leaves what it finds in order in order.
LEMMA ItemsKept ==
  ASSUME TypeInv, Extends, ItemsInv, NEW w \in Worker, NEW k \in DOMAIN queue[w]
  PROVE  ItemBehind(w, k)'
<1> DEFINE x == queue[w][k]
<1>1. x \in ItemT /\ x.list \in Nat /\ k \in Nat /\ k - 1 \in Int /\ w[1] \in Stream
  BY Items, Workers
<1>2. queue'[w][k] = x
  BY DEF Extends
<1> HIDE DEF x
<1>3. /\ x.kind = "command" =>
          /\ x.list <= lists[w[1]]
          /\ IF w[2] = 0 THEN Covers(w[1], k - 1, x.list - 1) ELSE Gated(w, k - 1, x.list - 1)
      /\ x.kind \in {"function", "recycle"} =>
          w[2] = 0 /\ x.list <= Complete(w[1]) /\ Covers(w[1], k - 1, x.list)
  BY DEF ItemsInv, ItemBehind, x
<1>4. PICK n \in Nat : n = x.list
  BY <1>1
<1>5. k - 1 \in Nat
  BY <1>1, LengthsOf DEF Lengths
<1>6. /\ lists[w[1]] \in Nat /\ lists'[w[1]] \in Nat /\ lists'[w[1]] >= lists[w[1]]
      /\ Complete(w[1]) \in Int /\ Complete(w[1])' >= Complete(w[1]) /\ lists[w[1]] - 1 <= Complete(w[1])
  BY <1>1, Items DEF Extends
<1>7. Complete(w[1])' \in Int
  BY <1>6 DEF Complete
<1>8. ASSUME x.kind = "command"
      PROVE  /\ n <= lists'[w[1]]
             /\ IF w[2] = 0 THEN Covers(w[1], k - 1, n - 1)' ELSE Gated(w, k - 1, n - 1)'
  <2>1. n - 1 <= Complete(w[1]) /\ n - 1 \in Int /\ n <= lists'[w[1]]
    BY <1>3, <1>4, <1>6, <1>8
  <2>2. CASE w[2] = 0
    <3>1. Covers(w[1], k - 1, n - 1)
      BY <1>3, <1>4, <1>8, <2>2
    <3> QED BY <1>1, <1>5, <2>1, <2>2, <3>1, CoversKept
  <2>3. CASE w[2] # 0
    <3>1. Gated(w, k - 1, n - 1)
      BY <1>3, <1>4, <1>8, <2>3
    <3> QED BY <1>1, <1>5, <2>1, <2>3, <3>1, GatedKept
  <2> QED BY <2>2, <2>3
<1>9. ASSUME x.kind \in {"function", "recycle"}
      PROVE  w[2] = 0 /\ n <= Complete(w[1])' /\ Covers(w[1], k - 1, n)'
  <2>1. w[2] = 0 /\ n <= Complete(w[1]) /\ Covers(w[1], k - 1, n)
    BY <1>3, <1>4, <1>9
  <2>2. Covers(w[1], k - 1, n)'
    BY <1>1, <1>5, <2>1, CoversKept
  <2> QED BY <1>6, <1>7, <2>1, <2>2
<1>10. queue'[w][k].kind = x.kind /\ queue'[w][k].list = n
  BY <1>2, <1>4
<1> QED BY <1>8, <1>9, <1>10 DEF ItemBehind

LEMMA EventKept ==
  ASSUME TypeInv, Extends, NEW p \in PointT, EventInv(p)
  PROVE  EventInv(p)'
<1>1. p.worker[1] \in Stream /\ p.pos \in Nat /\ p.lists \in Nat
  BY Workers DEF PointT
<1>2. p.lists <= Complete(p.worker[1])'
  <2>1. Complete(p.worker[1]) \in Int /\ Complete(p.worker[1])' >= Complete(p.worker[1])
    BY <1>1, Items DEF Extends
  <2>2. Complete(p.worker[1])' \in Int
    BY <1>1 DEF Complete, Extends
  <2> QED BY <1>1, <2>1, <2>2 DEF EventInv
<1>3. Covers(p.worker[1], p.pos, p.lists)'
  BY <1>1, CoversKept DEF EventInv
<1> QED BY <1>2, <1>3 DEF EventInv, First

\* A stream whose order the step does not touch.
Untouched(s) ==
  /\ Complete(s)' = Complete(s) /\ used'[s] = used[s] /\ (used[s] # {} => pc'[s] = "list")
  /\ workerEvent'[First(s)] = workerEvent[First(s)]
  /\ \A i \in 1..(Backed - 1) : queue'[<<s, i>>] = queue[<<s, i>>]

LEMMA HostKept == ASSUME TypeInv, Extends, NEW s \in Stream, HostInv(s), Untouched(s) PROVE HostInv(s)'
<1>1. First(s) \in Worker /\ \A i \in 1..(Backed - 1) : <<s, i>> \in Worker /\ <<s, i>>[1] = s
  BY Workers, BackedAssumption
<1>2. PICK n \in Int : n = Complete(s)
  BY Items
<1>3. Complete(s)' = n
  BY <1>2 DEF Untouched
<1>4. /\ Len(queue[First(s)]) \in Nat /\ Len(queue'[First(s)]) \in Nat
      /\ Len(queue'[First(s)]) >= Len(queue[First(s)])
  BY <1>1, LengthsOf DEF Lengths, Extends
<1>5. ASSUME NEW m \in Nat, m >= Len(queue[First(s)]) PROVE Covers(s, m, n)'
  <2>1. Covers(s, m, n)
    BY <1>2, <1>4, <1>5, CoversMore DEF HostInv
  <2> QED BY <1>2, <2>1, CoversKept
<1>6. ASSUME NEW i \in used[s] PROVE Gated(<<s, i>>, Len(queue[<<s, i>>]), n)'
  <2>1. i \in 1..(Backed - 1)
    BY DEF TypeInv
  <2>2. <<s, i>> \in Worker /\ <<s, i>>[1] = s /\ queue'[<<s, i>>] = queue[<<s, i>>]
    BY <1>1, <2>1 DEF Untouched
  <2>3. PICK l \in Nat : l = Len(queue[<<s, i>>])
    BY <2>2, LengthsOf DEF Lengths
  <2>4. Gated(<<s, i>>, l, n)
    BY <1>2, <2>3 DEF HostInv
  <2>5. n <= Complete(<<s, i>>[1])
    BY <1>2, <2>2
  <2>6. Gated(<<s, i>>, l, n)'
    BY <2>2, <2>4, <2>5, GatedKept
  <2> QED BY <2>2, <2>3, <2>6
<1>7. PICK p \in PointT : p = workerEvent[First(s)]
  BY <1>1 DEF TypeInv
<1>8. Covers(s, p.pos, n)'
  <2>1. p.pos \in Nat
    BY DEF PointT
  <2>2. Covers(s, p.pos, n)
    BY <1>2, <1>7 DEF HostInv
  <2> QED BY <1>2, <2>1, <2>2, CoversKept
<1>9. used'[s] # {} => pc'[s] = "list"
  BY DEF Untouched
<1>10. \A i \in 1..(Backed - 1) : \A k \in DOMAIN queue'[<<s, i>>] :
          queue'[<<s, i>>][k].kind = "command" /\ queue'[<<s, i>>][k].list > n => i \in used'[s]
  BY <1>2 DEF HostInv, Untouched
<1>11. \A i \in used'[s] : Gated(<<s, i>>, Len(queue[<<s, i>>]), Complete(s))'
  BY <1>3, <1>6 DEF Untouched
<1>12. Covers(s, Len(queue[First(s)]), Complete(s))'
  BY <1>3, <1>4, <1>5 DEF First
<1>13. workerEvent'[First(s)].worker = First(s) /\ Covers(s, workerEvent[First(s)].pos, Complete(s))'
  BY <1>3, <1>7, <1>8 DEF HostInv, Untouched, First
<1> QED BY <1>2, <1>3, <1>9, <1>10, <1>11, <1>12, <1>13 DEF HostInv, First

\* A call of one stream leaves the order of the other streams alone.
Alone(s) == \A r \in Stream \ {s} : Untouched(r)

LEMMA Elsewhere ==
  ASSUME TypeInv, HostsInv, NEW s \in Stream, Call(s) \/ Continue(s)
  PROVE  Alone(s)
<1> SUFFICES ASSUME NEW r \in Stream \ {s} PROVE Untouched(r)
  BY DEF Alone
<1>1. \A i \in 0..(Backed - 1) : <<r, i>> \in Worker /\ <<r, i>> # First(s) /\ <<r, i>> # <<s, round[s]>>
  BY Workers DEF First
<1>2. First(r) \in Worker /\ First(r) # First(s) /\ First(r)[1] # s
  BY Workers DEF First
<1>3. used[r] # {} => pc[r] = "list"
  BY DEF HostsInv, HostInv
<1>4. pc'[r] = pc[r] /\ lists'[r] = lists[r] /\ used'[r] = used[r] /\ workerEvent'[First(r)] = workerEvent[First(r)]
  <2>1. CASE Barrier(s)
    <3>1. workerEvent' = [w \in Worker |->
             IF w = First(s) THEN Point(w, Len(queue'[w]), lists[s])
             ELSE IF w[1] = s /\ w[2] \in Others(s) THEN Here(w) ELSE workerEvent[w]]
      BY <2>1 DEF Barrier
    <3>2. workerEvent'[First(r)] = workerEvent[First(r)]
      BY <1>2, <3>1
    <3> QED BY <2>1, <3>2 DEF Barrier, Goes, TypeInv
  <2>2. ASSUME NEW upload \in BOOLEAN, Visit(s, upload)
        PROVE  pc' = pc /\ lists' = lists /\ used'[r] = used[r] /\ workerEvent' = workerEvent
    BY <2>2 DEF Visit, events, TypeInv
  <2>3. ASSUME NEW e \in Event, SignalEvent(s, e) \/ WaitEvent(s, e)
        PROVE  pc' = pc /\ lists' = lists /\ used' = used /\ workerEvent' = workerEvent
    BY <2>3 DEF SignalEvent, WaitEvent, events
  <2>4. CASE BeginList(s) \/ DispatchFunction(s) \/ Synchronize(s) \/ DispatchCallbacks(s) \/ Synchronized(s)
    BY <2>4 DEF BeginList, DispatchFunction, Synchronize, DispatchCallbacks, Synchronized, Goes, events, picks, TypeInv
  <2> QED BY <2>1, <2>2, <2>3, <2>4 DEF Call, Continue
<1>5. \A i \in 0..(Backed - 1) : queue'[<<r, i>>] = queue[<<r, i>>]
  <2>1. CASE Barrier(s)
    BY <1>1, <2>1, BarrierQueue
  <2>2. ASSUME NEW upload \in BOOLEAN, Visit(s, upload) PROVE \A i \in 0..(Backed - 1) : queue'[<<r, i>>] = queue[<<r, i>>]
    <3>1. \A v \in Worker : v # <<s, round[s]>> => queue'[v] = queue[v]
      <4> DEFINE w == <<s, round[s]>>
      <4>1. \A v \in Worker \ {w} : queue'[v] = queue[v]
        BY <2>2, VisitQueue
      <4> QED BY <4>1
    <3> QED BY <1>1, <3>1
  <2>3. ASSUME NEW x, Adds(s, x) PROVE \A i \in 0..(Backed - 1) : queue'[<<r, i>>] = queue[<<r, i>>]
    BY <1>1, <2>3 DEF Adds, OneMore
  <2>4. CASE \/ BeginList(s) \/ Synchronize(s) \/ Synchronized(s) \/ \E e \in Event : SignalEvent(s, e)
             \/ (DispatchCallbacks(s) /\ queue' = queue)
    BY <2>4 DEF BeginList, Synchronize, Synchronized, SignalEvent, device
  <2> QED BY <2>1, <2>2, <2>3, <2>4, FunctionAdds, WaitAdds, CallbacksAdd DEF Call, Continue
<1>6. \A i \in 1..(Backed - 1) : i \in 0..(Backed - 1)
  BY BackedAssumption
<1> QED BY <1>3, <1>4, <1>5, <1>6 DEF Untouched, Complete

\* A call that ends up with nothing new but in the first CUDA stream.
LEMMA Touches ==
  ASSUME TypeInv, HostsInv, NEW s \in Stream,
         \/ BeginList(s) \/ Synchronize(s) \/ Synchronized(s) \/ DispatchFunction(s) \/ DispatchCallbacks(s)
         \/ \E e \in Event : SignalEvent(s, e) \/ WaitEvent(s, e)
  PROVE  Untouched(s)
<1>1. pc[s] # "list"
  BY DEF BeginList, Synchronize, Synchronized, DispatchFunction, DispatchCallbacks, SignalEvent, WaitEvent
<1>2. used[s] = {}
  BY <1>1 DEF HostsInv, HostInv
<1>3. used'[s] = {} /\ workerEvent' = workerEvent
  BY <1>2 DEF BeginList, Synchronize, Synchronized, DispatchFunction, DispatchCallbacks, SignalEvent, WaitEvent,
              events, picks, TypeInv
<1>4. Complete(s)' = Complete(s)
  BY <1>1 DEF BeginList, Synchronize, Synchronized, DispatchFunction, DispatchCallbacks, SignalEvent, WaitEvent,
              Goes, Complete, TypeInv
<1>5. \A i \in 1..(Backed - 1) : <<s, i>> \in Worker /\ <<s, i>> # First(s)
  BY Workers, BackedAssumption DEF First
<1>6. \A i \in 1..(Backed - 1) : queue'[<<s, i>>] = queue[<<s, i>>]
  <2>1. ASSUME NEW x, Adds(s, x) PROVE \A i \in 1..(Backed - 1) : queue'[<<s, i>>] = queue[<<s, i>>]
    BY <1>5, <2>1 DEF Adds, OneMore
  <2>2. CASE \/ BeginList(s) \/ Synchronize(s) \/ Synchronized(s) \/ \E e \in Event : SignalEvent(s, e)
             \/ (DispatchCallbacks(s) /\ queue' = queue)
    BY <2>2 DEF BeginList, Synchronize, Synchronized, SignalEvent, device
  <2> QED BY <2>1, <2>2, FunctionAdds, WaitAdds, CallbacksAdd
<1> QED BY <1>2, <1>3, <1>4, <1>6 DEF Untouched

-----------------------------------------------------------------------------
\* A command that goes to a CUDA stream goes behind the lists before its own.
LEMMA VisitKept ==
  ASSUME TypeInv, ItemsInv, HostsInv, NEW s \in Stream, NEW upload \in BOOLEAN, Visit(s, upload)
  PROVE  ItemsInv' /\ HostInv(s)'
<1>0. PICK w \in Worker : w = <<s, round[s]>>
  BY Workers DEF TypeInv
<1>1. /\ w \in Worker /\ queue' \in [Worker -> Seq(ItemT)]
      /\ \A v \in Worker \ {w} : queue'[v] = queue[v]
      /\ Len(queue'[w]) = Len(queue[w]) + IF Fresh(s) THEN 2 ELSE 1
      /\ \A k \in 1..Len(queue[w]) : queue'[w][k] = queue[w][k]
      /\ queue'[w][Len(queue'[w])] = Item(s, "command", Nowhere(s))
      /\ Fresh(s) => queue'[w][Len(queue[w]) + 1] = Item(s, "wait", workerEvent[First(s)])
  BY <1>0, VisitQueue
<1>2. w[1] = s /\ w[2] = round[s] /\ round[s] \in 0..(Backed - 1) /\ w = <<s, round[s]>>
      /\ (round[s] = 0 => w = First(s)) /\ First(s) \in Worker
  BY <1>0, Workers DEF TypeInv, First
<1>3. Extends /\ Lengths /\ HostInv(s)
  BY VisitExtends, LengthsOf DEF HostsInv
<1>4. pc[s] = "list" /\ pc' = pc /\ lists' = lists /\ workerEvent' = workerEvent
      /\ used' = [used EXCEPT ![s] = IF Fresh(s) THEN @ \cup {round[s]} ELSE @]
  BY DEF Visit, events
<1>5. PICK n \in Nat : n = lists[s]
  BY DEF TypeInv
<1>6. Complete(s) = n - 1 /\ Complete(s)' = n - 1 /\ lists'[s] = n /\ n - 1 \in Int
  BY <1>4, <1>5 DEF Complete
<1>7. /\ Len(queue[w]) \in Nat /\ Len(queue'[w]) \in Nat
      /\ Fresh(s) => Len(queue'[w]) = Len(queue[w]) + 2
      /\ ~Fresh(s) => Len(queue'[w]) = Len(queue[w]) + 1
      /\ DOMAIN queue[w] = 1..Len(queue[w]) /\ DOMAIN queue'[w] = 1..Len(queue'[w])
  <2>1. Len(queue[w]) \in Nat /\ DOMAIN queue[w] = 1..Len(queue[w])
    BY <1>3 DEF Lengths
  <2>2. Len(queue'[w]) \in Nat /\ DOMAIN queue'[w] = 1..Len(queue'[w])
    <3>1. queue'[w] \in Seq(ItemT)
      BY <1>1
    <3> QED BY <3>1
  <2>3. /\ Fresh(s) => Len(queue'[w]) = Len(queue[w]) + 2
        /\ ~Fresh(s) => Len(queue'[w]) = Len(queue[w]) + 1
    BY <1>1
  <2> QED BY <2>1, <2>2, <2>3
<1>8. /\ Item(s, "command", Nowhere(s)).kind = "command" /\ Item(s, "command", Nowhere(s)).list = n
      /\ Item(s, "wait", workerEvent[First(s)]).kind = "wait"
      /\ Item(s, "wait", workerEvent[First(s)]).point = workerEvent[First(s)]
  BY <1>5 DEF Item
<1>9. PICK p \in PointT : p = workerEvent[First(s)] /\ p.worker = First(s) /\ Covers(s, p.pos, n - 1)
  BY <1>2, <1>3, <1>6 DEF TypeInv, HostInv
<1>10. Covers(s, p.pos, n - 1)'
  <2>1. p.pos \in Nat
    BY DEF PointT
  <2> QED BY <1>3, <1>6, <1>9, <2>1, CoversKept
<1>11. ASSUME NEW m \in Nat, m >= Len(queue[First(s)]) PROVE Covers(s, m, n - 1)'
  <2>1. Covers(s, Len(queue[First(s)]), n - 1) /\ Len(queue[First(s)]) \in Nat
    BY <1>2, <1>3, <1>6 DEF HostInv, Lengths
  <2>2. Covers(s, m, n - 1)
    BY <1>6, <1>11, <2>1, CoversMore
  <2> QED BY <1>3, <1>6, <2>2, CoversKept
<1>12. ASSUME NEW i \in used[s], NEW m \in Nat, m >= Len(queue[<<s, i>>]) PROVE Gated(<<s, i>>, m, n - 1)'
  <2>1. <<s, i>> \in Worker /\ <<s, i>>[1] = s
    BY Workers, BackedAssumption DEF TypeInv
  <2>2. Gated(<<s, i>>, Len(queue[<<s, i>>]), n - 1) /\ Len(queue[<<s, i>>]) \in Nat
    BY <1>3, <1>6, <2>1 DEF HostInv, Lengths
  <2>3. Gated(<<s, i>>, m, n - 1)
    BY <1>6, <1>12, <2>1, <2>2, GatedMore
  <2> QED BY <1>3, <1>6, <2>1, <2>3, GatedKept
<1>13. ASSUME round[s] # 0, NEW m \in Nat, m >= Len(queue'[w]) - 1 PROVE Gated(w, m, n - 1)'
  <2>1. CASE Fresh(s)
    <3>1. PICK j \in Nat : j = Len(queue[w]) + 1
      BY <1>7
    <3>2. j \in 1..m /\ j \in DOMAIN queue'[w]
      BY <1>7, <1>13, <2>1, <3>1
    <3>3. queue'[w][j].kind = "wait" /\ queue'[w][j].point = p
      BY <1>1, <1>8, <1>9, <2>1, <3>1
    <3>4. Covers(w[1], queue[w][j].point.pos, n - 1)'
      BY <1>2, <1>10, <3>3
    <3> QED BY <1>2, <1>9, <3>2, <3>3, <3>4 DEF Gated, First
  <2>2. CASE ~Fresh(s)
    <3>1. round[s] \in used[s]
      BY <1>13, <2>2 DEF Fresh
    <3>2. m >= Len(queue[w])
      BY <1>7, <1>13, <2>2
    <3> QED BY <1>2, <1>12, <3>1, <3>2
  <2> QED BY <2>1, <2>2
<1>14. ASSUME NEW v \in Worker, NEW k \in DOMAIN queue'[v] PROVE ItemBehind(v, k)'
  <2>1. CASE k \in DOMAIN queue[v]
    BY <1>3, <2>1, ItemsKept
  <2>2. CASE k \notin DOMAIN queue[v]
    <3>1. v = w
      BY <1>1, <1>14, <2>2
    <3>2. k \in Nat /\ k > Len(queue[w]) /\ k <= Len(queue'[w])
      BY <1>7, <1>14, <2>2, <3>1
    <3>3. CASE k = Len(queue'[w])
      <4>1. queue'[w][k].kind = "command" /\ queue'[w][k].list = n
        BY <1>1, <1>8, <3>3
      <4>2. round[s] = 0 => Covers(w[1], k - 1, n - 1)'
        <5> SUFFICES ASSUME round[s] = 0 PROVE Covers(s, k - 1, n - 1)'
          BY <1>2
        <5>1. k - 1 \in Nat /\ k - 1 >= Len(queue[First(s)])
          BY <1>2, <1>7, <3>3 DEF Fresh
        <5> QED BY <1>11, <5>1
      <4>3. round[s] # 0 => Gated(w, k - 1, n - 1)'
        <5>1. k - 1 \in Nat /\ k - 1 >= Len(queue'[w]) - 1
          BY <1>7, <3>2, <3>3
        <5> QED BY <1>13, <5>1
      <4> QED BY <1>2, <1>6, <3>1, <4>1, <4>2, <4>3 DEF ItemBehind
    <3>4. CASE k # Len(queue'[w])
      <4>1. Fresh(s) /\ k = Len(queue[w]) + 1
        BY <1>7, <3>2, <3>4
      <4>2. queue'[w][k].kind = "wait"
        BY <1>1, <1>8, <4>1
      <4> QED BY <3>1, <4>2 DEF ItemBehind
    <3> QED BY <3>3, <3>4
  <2> QED BY <2>1, <2>2
<1>15. HostInv(s)'
  <2>1. Covers(s, Len(queue[First(s)]), Complete(s))'
    <3>1. Len(queue'[First(s)]) \in Nat /\ Len(queue'[First(s)]) >= Len(queue[First(s)])
      BY <1>2, <1>3 DEF Extends, Lengths
    <3> QED BY <1>6, <1>11, <3>1 DEF First
  <2>2. used'[s] # {} => pc'[s] = "list"
    BY <1>4
  <2>3. used'[s] = IF Fresh(s) THEN used[s] \cup {round[s]} ELSE used[s]
    BY <1>4 DEF TypeInv
  <2>4. ASSUME NEW i \in used'[s] PROVE Gated(<<s, i>>, Len(queue[<<s, i>>]), Complete(s))'
    <3>1. CASE i \in used[s]
      <4>1. <<s, i>> \in Worker
        BY <3>1, Workers, BackedAssumption DEF TypeInv
      <4>2. Len(queue'[<<s, i>>]) \in Nat /\ Len(queue'[<<s, i>>]) >= Len(queue[<<s, i>>])
        BY <1>3, <4>1 DEF Extends, Lengths
      <4> QED BY <1>6, <1>12, <3>1, <4>2
    <3>2. CASE i \notin used[s]
      <4>1. i = round[s] /\ Fresh(s) /\ round[s] # 0
        BY <2>3, <2>4, <3>2 DEF Fresh
      <4>2. Gated(w, Len(queue[w]), Complete(s))'
        BY <1>6, <1>7, <1>13, <4>1
      <4> QED BY <1>2, <4>1, <4>2
    <3> QED BY <3>1, <3>2
  <2>5. ASSUME NEW i \in 1..(Backed - 1), NEW k \in DOMAIN queue'[<<s, i>>],
               queue'[<<s, i>>][k].kind = "command", queue'[<<s, i>>][k].list > n - 1
        PROVE  i \in used'[s]
    <3>0. <<s, i>> \in Worker
      BY Workers, BackedAssumption
    <3>1. CASE i = round[s]
      <4>1. round[s] # 0
        BY <3>1, BackedAssumption
      <4> QED BY <2>3, <3>1, <4>1 DEF Fresh
    <3>2. CASE i # round[s]
      <4>1. queue'[<<s, i>>] = queue[<<s, i>>]
        BY <1>1, <1>2, <3>0, <3>2
      <4>2. i \in used[s]
        BY <1>3, <1>6, <2>5, <4>1 DEF HostInv
      <4> QED BY <2>3, <4>2
    <3> QED BY <3>1, <3>2
  <2>6. workerEvent'[First(s)].worker = First(s) /\ Covers(s, workerEvent[First(s)].pos, Complete(s))'
    BY <1>4, <1>6, <1>9, <1>10 DEF First
  <2> QED BY <1>6, <2>1, <2>2, <2>4, <2>5, <2>6 DEF HostInv, First
<1> QED BY <1>14, <1>15 DEF ItemsInv

\* barrier() puts the first CUDA stream behind the list that it closes.
LEMMA BarrierKept ==
  ASSUME TypeInv, ItemsInv, HostsInv, NEW s \in Stream, Barrier(s)
  PROVE  ItemsInv' /\ HostInv(s)'
<1> DEFINE w == First(s)
<1>1. /\ queue' \in [Worker -> Seq(ItemT)] /\ \A v \in Worker \ {w} : queue'[v] = queue[v]
      /\ Len(queue'[w]) >= Len(queue[w])
      /\ \A k \in 1..Len(queue[w]) : queue'[w][k] = queue[w][k]
      /\ \A k \in DOMAIN queue'[w] : k > Len(queue[w]) => queue'[w][k].kind = "wait" /\ queue'[w][k] \in ItemT
      /\ \A i \in Others(s) : \E k \in DOMAIN queue'[w] :
            queue'[w][k].kind = "wait" /\ queue'[w][k].point = Here(<<s, i>>)
  BY BarrierQueue
<1>2. w \in Worker /\ w[1] = s /\ w[2] = 0 /\ w = <<s, 0>>
  BY Workers
<1>3. Extends /\ Lengths /\ HostInv(s)
  BY BarrierExtends, LengthsOf DEF HostsInv
<1>4. pc[s] = "list" /\ pc' = [pc EXCEPT ![s] = "between"] /\ lists' = lists
      /\ used' = [used EXCEPT ![s] = {}]
  BY DEF Barrier, Goes
<1>5. PICK n \in Nat : n = lists[s]
  BY DEF TypeInv
<1>6. Complete(s) = n - 1 /\ lists'[s] = n
  BY <1>4, <1>5 DEF Complete
<1>7. Complete(s)' = n /\ pc'[s] # "list"
  BY <1>4, <1>6 DEF Complete, TypeInv
<1>8. ASSUME NEW v \in Worker PROVE Len(queue'[v]) \in Nat /\ DOMAIN queue'[v] = 1..Len(queue'[v])
  <2>1. queue'[v] \in Seq(ItemT)
    BY <1>1
  <2> QED BY <2>1
<1>9. Len(queue[w]) \in Nat /\ DOMAIN queue[w] = 1..Len(queue[w])
  BY <1>2, <1>3 DEF Lengths
<1>10. ItemsInv'
  <2> SUFFICES ASSUME NEW v \in Worker, NEW k \in DOMAIN queue'[v] PROVE ItemBehind(v, k)'
    BY DEF ItemsInv
  <2>1. CASE k \in DOMAIN queue[v]
    BY <1>3, <2>1, ItemsKept
  <2>2. CASE k \notin DOMAIN queue[v]
    <3>1. v = w
      BY <1>1, <2>2
    <3>2. k \in DOMAIN queue'[w] /\ k \in 1..Len(queue'[w]) /\ k \notin 1..Len(queue[w])
      BY <1>2, <1>8, <1>9, <2>2, <3>1
    <3>3. k > Len(queue[w])
      BY <1>9, <3>2
    <3>4. queue'[v][k].kind = "wait"
      BY <1>1, <3>1, <3>2, <3>3
    <3> QED BY <3>4 DEF ItemBehind
  <2> QED BY <2>1, <2>2
<1>11. PICK m \in Nat : m = Len(queue[w])
  BY <1>9
<1>12. ASSUME NEW l \in Nat, l >= Len(queue'[w]), NEW i \in 0..(Backed - 1), NEW k \in DOMAIN queue'[<<s, i>>],
              CommandOf(<<s, i>>, k, n)'
       PROVE  IF i = 0 THEN k <= l ELSE Waited(w, l, <<s, i>>, k)'
  <2>1. CASE i = 0
    BY <1>2, <1>8, <1>12, <2>1
  <2>2. CASE i # 0
    <3>1. <<s, i>> \in Worker /\ <<s, i>> # w
      BY <1>2, <2>2, Workers
    <3>2. k \in DOMAIN queue[<<s, i>>] /\ queue'[<<s, i>>] = queue[<<s, i>>] /\ k \in Nat /\ k <= Len(queue[<<s, i>>])
      BY <1>1, <1>3, <1>12, <3>1 DEF Lengths
    <3>3. queue[<<s, i>>][k].kind = "command" /\ queue[<<s, i>>][k].list \in Nat
          /\ queue[<<s, i>>][k].list <= n
      BY <1>12, <3>1, <3>2, Items DEF CommandOf
    <3>4. CASE queue[<<s, i>>][k].list <= n - 1
      <4>1. CommandOf(<<s, i>>, k, n - 1) /\ Covers(s, m, n - 1)
        BY <1>3, <1>6, <1>11, <3>3, <3>4 DEF HostInv, CommandOf
      <4>2. Waited(w, m, <<s, i>>, k)
        BY <2>2, <3>2, <4>1 DEF Covers
      <4>3. Waited(w, m, <<s, i>>, k)'
        BY <1>2, <1>3, <3>1, <3>2, <4>2, WaitedKept
      <4>4. 1..m \subseteq 1..l
        BY <1>1, <1>2, <1>8, <1>11, <1>12
      <4> QED BY <2>2, <4>3, <4>4 DEF Waited
    <3>5. CASE ~(queue[<<s, i>>][k].list <= n - 1)
      <4>1. i \in 1..(Backed - 1)
        BY <2>2
      <4>2. i \in Others(s)
        <5>1. i \in used[s]
          BY <1>3, <1>6, <3>2, <3>3, <3>5, <4>1 DEF HostInv
        <5> QED BY <2>2, <5>1 DEF Others
      <4>3. PICK j \in DOMAIN queue'[w] : queue'[w][j].kind = "wait" /\ queue'[w][j].point = Here(<<s, i>>)
        BY <1>1, <4>2
      <4>4. j \in 1..l
        BY <1>2, <1>8, <1>12, <4>3
      <4>5. Here(<<s, i>>).worker = <<s, i>> /\ Here(<<s, i>>).pos >= k
        BY <3>2 DEF Here, Point
      <4> QED BY <2>2, <4>3, <4>4, <4>5 DEF Waited
    <3> QED BY <3>4, <3>5
  <2> QED BY <2>1, <2>2
<1>13. ASSUME NEW l \in Nat, l >= Len(queue'[w]) PROVE Covers(s, l, n)'
  BY <1>12, <1>13 DEF Covers, First
<1>14. HostInv(s)'
  <2>1. Covers(s, Len(queue[First(s)]), Complete(s))'
    <3>1. Covers(s, Len(queue[<<s, 0>>]), n)'
      BY <1>2, <1>8, <1>13
    <3> QED BY <1>7, <3>1 DEF First
  <2>2. used'[s] = {}
    BY <1>4 DEF TypeInv
  <2>3. ASSUME NEW i \in 1..(Backed - 1), NEW k \in DOMAIN queue'[<<s, i>>], queue'[<<s, i>>][k].kind = "command"
        PROVE  ~(queue'[<<s, i>>][k].list > n)
    <3>1. <<s, i>> \in Worker /\ <<s, i>>[1] = s
      BY Workers, BackedAssumption
    <3>2. queue'[<<s, i>>][k].list <= n
      BY <1>6, <1>10, <2>3, <3>1 DEF ItemsInv, ItemBehind
    <3>3. queue'[<<s, i>>] \in Seq(ItemT)
      BY <1>1, <3>1
    <3>4. queue'[<<s, i>>][k] \in ItemT
      BY <3>3
    <3> QED BY <3>2, <3>4 DEF ItemT
  <2>4. PICK p \in PointT : p = workerEvent'[w] /\ p.worker = w /\ p.pos = Len(queue'[w])
    <3>1. workerEvent' = [v \in Worker |->
             IF v = w THEN Point(v, Len(queue'[v]), lists[s])
             ELSE IF v[1] = s /\ v[2] \in Others(s) THEN Here(v) ELSE workerEvent[v]]
      BY DEF Barrier
    <3>2. workerEvent'[w] = Point(w, Len(queue'[w]), lists[s])
      BY <1>2, <3>1
    <3>3. Point(w, Len(queue'[w]), lists[s]) \in PointT
      BY <1>2, <1>5, <1>8 DEF Point, PointT
    <3> QED BY <3>2, <3>3 DEF Point
  <2>5. workerEvent'[First(s)].worker = First(s) /\ Covers(s, workerEvent[First(s)].pos, Complete(s))'
    <3>1. Len(queue'[w]) \in Nat /\ Len(queue'[w]) >= Len(queue'[w])
      BY <1>2, <1>8
    <3>2. Covers(s, Len(queue[<<s, 0>>]), n)'
      BY <1>2, <1>13, <3>1
    <3>3. Covers(s, workerEvent[First(s)].pos, Complete(s))'
      BY <1>2, <1>7, <2>4, <3>2 DEF First
    <3> QED BY <2>4, <3>3
  <2> QED BY <1>7, <2>1, <2>2, <2>3, <2>5 DEF HostInv, First
<1> QED BY <1>10, <1>14

-----------------------------------------------------------------------------
LEMMA WaitsKept ==
  ASSUME TypeInv, WaitsInv, Next
  PROVE  WaitsInv'
<1>1. Extends /\ Lengths
  BY StepExtends, LengthsOf
<1>2. \A v \in Worker : done[v] \in Nat /\ done[v] <= Len(queue[v])
  BY DEF TypeInv
<1>3. ASSUME NEW w \in Worker, NEW j \in 1..done[w]
      PROVE  queue'[w][j] = queue[w][j] /\ queue[w][j] \in ItemT
  <2>1. j \in DOMAIN queue[w]
    BY <1>1, <1>2, <1>3 DEF Lengths
  <2> QED BY <1>1, <2>1, Items DEF Extends
<1>4. ASSUME NEW s \in Stream, Call(s) \/ Continue(s) PROVE WaitsInv'
  <2>1. done' = done
    BY <1>4 DEF Call, Continue, BeginList, DispatchFunction, Synchronize, Visit, SignalEvent, WaitEvent, Barrier,
                DispatchCallbacks, Synchronized, device
  <2>2. \A w \in Worker : \A j \in 1..done[w] : queue'[w][j].kind = "wait" => Reached(queue'[w][j].point)
    BY <1>3 DEF WaitsInv
  <2> QED BY <2>1, <2>2 DEF WaitsInv, Reached
<1>5. ASSUME NEW w \in Worker, Execute(w) PROVE WaitsInv'
  <2>1. queue' = queue /\ done' = [done EXCEPT ![w] = @ + 1] /\ done[w] < Len(queue[w])
        /\ (NextItem(w).kind = "wait" => Reached(NextItem(w).point))
    BY <1>5 DEF Execute, HasNext
  <2>2. \A p \in PointT : Reached(p) => done'[p.worker] >= p.pos
    BY <1>2, <2>1 DEF Reached, PointT, TypeInv
  <2>3. ASSUME NEW v \in Worker, NEW j \in 1..done'[v], queue[v][j].kind = "wait"
        PROVE  done'[queue[v][j].point.worker] >= queue[v][j].point.pos
    <3>1. j \in DOMAIN queue[v] /\ (j \in 1..done[v] \/ (v = w /\ j = done[w] + 1))
      <4>1. done'[v] = IF v = w THEN done[v] + 1 ELSE done[v]
        BY <2>1 DEF TypeInv
      <4>2. done[v] \in Nat /\ done[v] <= Len(queue[v]) /\ Len(queue[v]) \in Nat
            /\ DOMAIN queue[v] = 1..Len(queue[v])
        BY <1>1, <1>2 DEF Lengths
      <4>3. j \in 1..done'[v]
        BY <2>3
      <4>4. done[w] < Len(queue[w])
        BY <2>1
      <4>5. CASE v = w
        BY <4>1, <4>2, <4>3, <4>4, <4>5
      <4>6. CASE v # w
        BY <4>1, <4>2, <4>3, <4>6
      <4> QED BY <4>5, <4>6
    <3>2. queue[v][j].point \in PointT
      BY <3>1, Items
    <3>3. Reached(queue[v][j].point)
      BY <2>1, <2>3, <3>1 DEF WaitsInv, NextItem
    <3> QED BY <2>2, <3>2, <3>3
  <2> QED BY <2>1, <2>3 DEF WaitsInv, Reached
<1> QED BY <1>4, <1>5 DEF Next

LEMMA QuietKept ==
  ASSUME TypeInv, OrderInv, UNCHANGED <<queue, event, workerEvent, used, pc, lists>>
  PROVE  ItemsInv' /\ HostsInv' /\ EventsInv'
<1>1. ItemsInv /\ HostsInv /\ EventsInv
  BY DEF OrderInv
<1>2. Extends
  <2>1. \A r \in Stream : Complete(r)' >= Complete(r)
    BY DEF Complete, TypeInv
  <2> QED BY <2>1, QuietExtends
<1>3. ItemsInv'
  <2> SUFFICES ASSUME NEW w \in Worker, NEW k \in DOMAIN queue'[w] PROVE ItemBehind(w, k)'
    BY DEF ItemsInv
  <2> QED BY <1>1, <1>2, ItemsKept
<1>4. HostsInv'
  <2>1. \A s \in Stream : Untouched(s)
    BY <1>1 DEF Untouched, Complete, HostsInv, HostInv
  <2> QED BY <1>1, <1>2, <2>1, HostKept DEF HostsInv
<1>5. EventsInv'
  <2> SUFFICES ASSUME NEW e \in Event PROVE EventInv(event[e])'
    BY DEF EventsInv
  <2>1. PICK p \in PointT : p = event[e]
    BY DEF TypeInv
  <2>2. EventInv(p)'
    BY <1>1, <1>2, <2>1, EventKept DEF EventsInv
  <2> QED BY <2>1, <2>2
<1> QED BY <1>3, <1>4, <1>5

LEMMA OrderKept == ASSUME TypeInv, OrderInv, [Next]_vars PROVE OrderInv'
<1>1. ItemsInv /\ HostsInv /\ EventsInv /\ WaitsInv
  BY DEF OrderInv
<1>2. CASE Next
  <2>1. Extends /\ WaitsInv'
    BY <1>1, <1>2, StepExtends, WaitsKept
  <2>2. ASSUME NEW w \in Worker, NEW k \in DOMAIN queue[w] PROVE ItemBehind(w, k)'
    BY <1>1, <2>1, ItemsKept
  <2>3. ASSUME NEW p \in PointT, EventInv(p) PROVE EventInv(p)'
    BY <2>1, <2>3, EventKept
  <2>4. ASSUME event' = event PROVE EventsInv'
    <3> SUFFICES ASSUME NEW e \in Event PROVE EventInv(event[e])'
      BY DEF EventsInv
    <3>1. PICK p \in PointT : p = event[e]
      BY DEF TypeInv
    <3>2. EventInv(p)'
      BY <1>1, <2>3, <3>1 DEF EventsInv
    <3> QED BY <2>4, <3>1, <3>2
  <2>5. ASSUME NEW s \in Stream, Alone(s), HostInv(s)' PROVE HostsInv'
    <3>1. ASSUME NEW r \in Stream \ {s} PROVE HostInv(r)'
      BY <1>1, <2>1, <2>5, HostKept DEF HostsInv, Alone
    <3> QED BY <2>5, <3>1 DEF HostsInv
  <2>6. ASSUME NEW s \in Stream, NEW upload \in BOOLEAN, Visit(s, upload) PROVE OrderInv'
    <3>1. ItemsInv' /\ HostsInv'
      BY <1>1, <2>5, <2>6, VisitKept, Elsewhere DEF Call
    <3>2. event' = event
      BY <2>6 DEF Visit, events
    <3> QED BY <2>1, <2>4, <3>1, <3>2 DEF OrderInv
  <2>7. ASSUME NEW s \in Stream, Barrier(s) PROVE OrderInv'
    <3>1. ItemsInv' /\ HostsInv'
      BY <1>1, <2>5, <2>7, BarrierKept, Elsewhere DEF Continue
    <3>2. event' = event
      BY <2>7 DEF Barrier
    <3> QED BY <2>1, <2>4, <3>1, <3>2 DEF OrderInv
  <2>8. ASSUME NEW s \in Stream,
               \/ BeginList(s) \/ Synchronize(s) \/ Synchronized(s) \/ DispatchFunction(s) \/ DispatchCallbacks(s)
               \/ \E e \in Event : SignalEvent(s, e) \/ WaitEvent(s, e)
        PROVE  OrderInv'
    <3>1. Untouched(s) /\ Alone(s)
      BY <1>1, <2>8, Touches, Elsewhere DEF Call, Continue
    <3>2. HostsInv'
      BY <1>1, <2>1, <2>5, <3>1, HostKept DEF HostsInv
    <3>3. pc[s] # "list"
      BY <2>8 DEF BeginList, Synchronize, Synchronized, DispatchFunction, DispatchCallbacks, SignalEvent, WaitEvent
    <3>4. Complete(s) = lists[s] /\ First(s) \in Worker /\ First(s)[1] = s
      BY <3>3, Workers DEF Complete
    <3>5. ASSUME queue' = queue PROVE ItemsInv'
      BY <2>2, <3>5 DEF ItemsInv
    <3>6. ASSUME NEW x, Adds(s, x) PROVE ItemsInv'
      <4>1. OneMore(queue', queue, First(s), x) /\ x.list = lists[s] /\ x.kind # "command" /\ x \in ItemT
        BY <3>6 DEF Adds
      <4> SUFFICES ASSUME NEW v \in Worker, NEW k \in DOMAIN queue'[v] PROVE ItemBehind(v, k)'
        BY DEF ItemsInv
      <4>2. CASE k \in DOMAIN queue[v]
        BY <2>2, <4>2
      <4>3. CASE k \notin DOMAIN queue[v]
        <5>1. v = First(s)
          BY <4>1, <4>3 DEF OneMore
        <5>2. k = Len(queue[v]) + 1 /\ k \in Nat /\ Len(queue[v]) \in Nat
          <6>1. queue'[v] \in Seq(ItemT) /\ queue[v] \in Seq(ItemT) /\ Len(queue'[v]) = Len(queue[v]) + 1
            BY <4>1, <5>1 DEF OneMore, TypeInv
          <6> HIDE <5>1
          <6> QED BY <4>3, <6>1
        <5>3. queue'[v][k] = x
          BY <4>1, <5>1, <5>2 DEF OneMore
        <5>4. PICK n \in Nat : n = lists[s]
          BY DEF TypeInv
        <5>5. Covers(s, k - 1, n)'
          <6>1. k - 1 \in Nat /\ Covers(s, k - 1, n) /\ n \in Int /\ n <= Complete(s)
            BY <1>1, <3>4, <5>1, <5>2, <5>4 DEF HostsInv, HostInv
          <6> QED BY <2>1, <6>1, CoversKept
        <5>6. v[2] = 0 /\ v[1] = s /\ n <= Complete(s)'
          BY <3>1, <3>4, <5>1, <5>4, Workers DEF Untouched
        <5> QED BY <4>1, <5>3, <5>4, <5>5, <5>6 DEF ItemBehind
      <4> QED BY <4>2, <4>3
    <3>7. ItemsInv'
      <4>1. CASE BeginList(s) \/ Synchronize(s) \/ Synchronized(s)
        BY <3>5, <4>1 DEF BeginList, Synchronize, Synchronized, device
      <4>2. CASE DispatchFunction(s)
        BY <3>6, <4>2, FunctionAdds
      <4>3. CASE DispatchCallbacks(s)
        BY <3>5, <3>6, <4>3, CallbacksAdd
      <4>4. ASSUME NEW e \in Event, SignalEvent(s, e) PROVE ItemsInv'
        BY <3>5, <4>4 DEF SignalEvent, device
      <4>5. ASSUME NEW e \in Event, WaitEvent(s, e) PROVE ItemsInv'
        BY <3>6, <4>5, WaitAdds
      <4> QED BY <2>8, <4>1, <4>2, <4>3, <4>4, <4>5
    <3>8. EventsInv'
      <4>1. ASSUME NEW e \in Event, SignalEvent(s, e) PROVE EventsInv'
        <5>1. PICK p \in PointT : p = Here(First(s))
          BY <3>4, NewPoints
        <5>2. EventInv(p)
          <6>1. p.worker = First(s) /\ p.pos = Len(queue[First(s)]) /\ p.lists = lists[s]
            BY <3>4, <5>1 DEF Here, Point
          <6>2. Complete(s) \in Int /\ lists[s] \in Nat
            BY Items
          <6> QED BY <1>1, <3>4, <6>1, <6>2 DEF EventInv, HostsInv, HostInv
        <5>3. event' = [event EXCEPT ![e] = p]
          BY <4>1, <5>1 DEF SignalEvent
        <5> SUFFICES ASSUME NEW d \in Event PROVE EventInv(event[d])'
          BY DEF EventsInv
        <5>4. PICK q \in PointT : q = IF d = e THEN p ELSE event[d]
          BY DEF TypeInv
        <5>5. EventInv(q)
          BY <1>1, <5>2, <5>4 DEF EventsInv
        <5>6. EventInv(q)'
          BY <2>3, <5>5
        <5>7. event'[d] = q
          BY <5>3, <5>4 DEF TypeInv
        <5> QED BY <5>6, <5>7
      <4>2. ASSUME ~ \E e \in Event : SignalEvent(s, e) PROVE event' = event
        BY <2>8, <4>2 DEF BeginList, Synchronize, Synchronized, DispatchFunction, DispatchCallbacks, WaitEvent, events
      <4> QED BY <2>4, <4>1, <4>2
    <3> QED BY <2>1, <3>2, <3>7, <3>8 DEF OrderInv
  <2>9. ASSUME NEW w \in Worker, Execute(w) PROVE OrderInv'
    <3>1. queue' = queue /\ event' = event /\ workerEvent' = workerEvent /\ used' = used /\ pc' = pc /\ lists' = lists
      BY <2>9 DEF Execute, events, picks
    <3> QED BY <2>1, <3>1, QuietKept DEF OrderInv
  <2> QED BY <1>2, <2>6, <2>7, <2>8, <2>9 DEF Next, Call, Continue
<1>3. CASE vars' = vars
  <2>1. UNCHANGED <<queue, done, event, workerEvent, used, pc, lists>>
    BY <1>3 DEF vars, device, events, picks
  <2>2. WaitsInv'
    BY <1>1, <2>1 DEF WaitsInv, Reached
  <2> QED BY <2>1, <2>2, QuietKept DEF OrderInv
<1> QED BY <1>2, <1>3

LEMMA OrderInit == ASSUME Init PROVE OrderInv
<1>1. TypeInv
  BY TypesInit
<1>2. \A w \in Worker : queue[w] = <<>> /\ done[w] = 0 /\ DOMAIN queue[w] = {} /\ w[1] \in Stream
  BY Workers DEF Init
<1>3. \A s \in Stream : \A pos, n : Covers(s, pos, n)
  BY <1>2, Workers DEF Covers
<1>4. \A s \in Stream : Nowhere(s) = Point(First(s), 0, 0) /\ Complete(s) = 0 /\ used[s] = {} /\ First(s) \in Worker
                        /\ First(s)[1] = s
  BY Workers DEF Nowhere, Init, Complete
<1>5. EventsInv
  BY <1>3, <1>4 DEF EventsInv, EventInv, Init, Point
<1>6. HostsInv
  BY <1>2, <1>3, <1>4, Workers, BackedAssumption DEF HostsInv, HostInv, Init, Point
<1>7. ItemsInv /\ WaitsInv
  BY <1>2 DEF ItemsInv, WaitsInv
<1> QED BY <1>5, <1>6, <1>7 DEF OrderInv

-----------------------------------------------------------------------------
\* What a point is behind has run when the point is reached.
LEMMA CoveredDone ==
  ASSUME TypeInv, WaitsInv, NEW s \in Stream, NEW pos \in Nat, NEW n \in Int,
         Covers(s, pos, n), done[First(s)] >= pos
  PROVE  ListsDone(s, n)
<1> SUFFICES ASSUME NEW i \in 0..(Backed - 1), NEW k \in DOMAIN queue[<<s, i>>], CommandOf(<<s, i>>, k, n)
             PROVE  done[<<s, i>>] >= k
  BY DEF ListsDone
<1>1. <<s, i>> \in Worker /\ First(s) \in Worker /\ First(s) = <<s, 0>>
  BY Workers
<1>2. k \in Nat /\ done[<<s, i>>] \in Nat /\ done[First(s)] \in Nat
  BY <1>1, Items DEF TypeInv
<1>3. CASE i = 0
  BY <1>1, <1>2, <1>3 DEF Covers
<1>4. CASE i # 0
  <2>1. PICK j \in 1..pos : /\ j \in DOMAIN queue[First(s)] /\ queue[First(s)][j].kind = "wait"
                            /\ queue[First(s)][j].point.worker = <<s, i>> /\ queue[First(s)][j].point.pos >= k
    BY <1>4 DEF Covers, Waited
  <2>2. Reached(queue[First(s)][j].point)
    BY <1>1, <1>2, <2>1 DEF WaitsInv
  <2>3. queue[First(s)][j].point.pos \in Nat
    BY <1>1, <2>1, Items
  <2> QED BY <1>2, <2>1, <2>2, <2>3 DEF Reached
<1> QED BY <1>3, <1>4

\* An item that a CUDA stream comes to: the lists it has to be behind have run.
LEMMA NextBehind ==
  ASSUME TypeInv, OrderInv, NEW w \in Worker, HasNext(w)
  PROVE  /\ NextItem(w).kind = "command" => ListsDone(w[1], NextItem(w).list - 1)
         /\ NextItem(w).kind \in {"function", "recycle"} => w[2] = 0 /\ ListsDone(w[1], NextItem(w).list)
<1>1. done[w] \in Nat /\ done[w] + 1 \in DOMAIN queue[w] /\ (done[w] + 1) - 1 = done[w]
  BY LengthsOf DEF Lengths, HasNext, TypeInv
<1> DEFINE x == queue[w][done[w] + 1]
<1>2. x = NextItem(w) /\ x.list \in Nat /\ ItemBehind(w, done[w] + 1) /\ w[1] \in Stream /\ WaitsInv
      /\ (w[2] = 0 => w = First(w[1]))
  BY <1>1, Items, Workers DEF NextItem, OrderInv, ItemsInv
<1> HIDE DEF x
<1>3. /\ x.kind = "command" =>
           IF w[2] = 0 THEN Covers(w[1], done[w], x.list - 1) ELSE Gated(w, done[w], x.list - 1)
      /\ x.kind \in {"function", "recycle"} => w[2] = 0 /\ Covers(w[1], done[w], x.list)
  BY <1>1, <1>2 DEF ItemBehind, x
<1>4. ASSUME x.kind = "command" PROVE ListsDone(w[1], x.list - 1)
  <2>1. x.list - 1 \in Int /\ done[w] >= done[w]
    BY <1>1, <1>2
  <2>2. CASE w[2] = 0
    <3>1. Covers(w[1], done[w], x.list - 1) /\ done[First(w[1])] >= done[w]
      BY <1>2, <1>3, <1>4, <2>1, <2>2
    <3> QED BY <1>1, <1>2, <2>1, <3>1, CoveredDone
  <2>3. CASE w[2] # 0
    <3>1. PICK j \in 1..done[w] : /\ j \in DOMAIN queue[w] /\ queue[w][j].kind = "wait"
                                  /\ queue[w][j].point.worker = First(w[1])
                                  /\ Covers(w[1], queue[w][j].point.pos, x.list - 1)
      BY <1>3, <1>4, <2>3 DEF Gated
    <3>2. queue[w][j].point.pos \in Nat
      BY <3>1, Items
    <3>3. done[First(w[1])] >= queue[w][j].point.pos
      BY <1>2, <3>1 DEF WaitsInv, Reached
    <3> QED BY <1>2, <2>1, <3>1, <3>2, <3>3, CoveredDone
  <2> QED BY <2>2, <2>3
<1>5. ASSUME x.kind \in {"function", "recycle"} PROVE w[2] = 0 /\ ListsDone(w[1], x.list)
  <2>1. w[2] = 0 /\ Covers(w[1], done[w], x.list) /\ done[First(w[1])] >= done[w] /\ x.list \in Int
    BY <1>1, <1>2, <1>3, <1>5
  <2> QED BY <1>1, <1>2, <2>1, CoveredDone
<1> QED BY <1>2, <1>4, <1>5

LEMMA OrderEnough == ASSUME TypeInv, OrderInv PROVE ListsInOrder
<1>1. CommandsAfterLists /\ FunctionsAfterLists
  BY NextBehind DEF CommandsAfterLists, FunctionsAfterLists
<1>2. EventsCoverLists
  <2> SUFFICES ASSUME NEW e \in Event, Reached(event[e]) PROVE ListsDone(event[e].worker[1], event[e].lists)
    BY DEF EventsCoverLists
  <2>1. PICK p \in PointT : p = event[e]
    BY DEF TypeInv
  <2>2. p.worker[1] \in Stream /\ p.pos \in Nat /\ p.lists \in Int
    BY Workers DEF PointT
  <2>3. p.worker = First(p.worker[1]) /\ Covers(p.worker[1], p.pos, p.lists) /\ WaitsInv
    BY <2>1 DEF OrderInv, EventsInv, EventInv
  <2>4. done[First(p.worker[1])] >= p.pos
    BY <2>1, <2>3 DEF Reached
  <2> QED BY <2>1, <2>2, <2>3, <2>4, CoveredDone
<1> QED BY <1>1, <1>2 DEF ListsInOrder

-----------------------------------------------------------------------------
\* Staging buffers.
LEMMA StagingKept ==
  ASSUME TypeInv, Extends, NEW s \in Stream, NEW p, NEW n \in Int, StagingOf(p, s, n), NEW m \in Int, n <= m
  PROVE  StagingOf(p, s, m)'
<1>1. p \in PointT /\ p.worker \in Worker /\ p.pos \in DOMAIN queue[p.worker] /\ CommandOf(p.worker, p.pos, n)
  BY DEF StagingOf, PointT
<1>2. p.pos \in DOMAIN queue'[p.worker] /\ queue'[p.worker][p.pos] = queue[p.worker][p.pos]
  BY <1>1 DEF Extends
<1>3. queue[p.worker][p.pos].list \in Nat
  BY <1>1, Items
<1> QED BY <1>1, <1>2, <1>3 DEF StagingOf, CommandOf

LEMMA ReachedKept ==
  ASSUME TypeInv, \/ done' = done
                  \/ \E w \in Worker : done' = [done EXCEPT ![w] = @ + 1],
         NEW p \in PointT, Reached(p)
  PROVE  Reached(p)'
<1>1. p.worker \in Worker /\ p.pos \in Nat /\ done[p.worker] \in Nat /\ done[p.worker] >= p.pos
  BY DEF Reached, PointT, TypeInv
<1>2. CASE done' = done
  BY <1>1, <1>2 DEF Reached
<1>3. ASSUME NEW w \in Worker, done' = [done EXCEPT ![w] = @ + 1] PROVE Reached(p)'
  <2>1. done'[p.worker] = done[p.worker] \/ done'[p.worker] = done[p.worker] + 1
    BY <1>1, <1>3 DEF TypeInv
  <2> QED BY <1>1, <2>1 DEF Reached
<1> QED BY <1>2, <1>3

\* A step after which the same callback lists wait for the same recycles.
LEMMA MarksKept ==
  ASSUME TypeInv, Extends, NEW s \in Stream, callbackLists'[s] = callbackLists[s],
         done'[First(s)] \in Nat, done'[First(s)] >= done[First(s)],
         \A k \in DOMAIN queue[First(s)] : k > done[First(s)] /\ queue[First(s)][k].kind = "recycle" => k > done'[First(s)],
         \A k \in DOMAIN queue'[First(s)] : queue'[First(s)][k].kind = "recycle" => k \in DOMAIN queue[First(s)],
         NEW f \in [DOMAIN callbackLists[s] -> DOMAIN queue[First(s)]], Marks(s, f)
  PROVE  Marks(s, f)' /\ f \in [DOMAIN callbackLists'[s] -> DOMAIN queue'[First(s)]]
<1> DEFINE w == First(s)
           L == DOMAIN callbackLists[s]
<1>1. w \in Worker /\ Lengths /\ w = <<s, 0>>
  BY Workers, LengthsOf
<1>2. /\ \A i \in L : f[i] \in DOMAIN queue[w]
      /\ \A i, j \in L : i < j => f[i] < f[j]
      /\ \A i \in L : /\ f[i] > done[w] /\ queue[w][f[i]].kind = "recycle"
                      /\ \A p \in callbackLists[s][i] : StagingOf(p, s, queue[w][f[i]].list)
      /\ \A k \in DOMAIN queue[w] : k > done[w] /\ queue[w][k].kind = "recycle" => \E i \in L : f[i] = k
  BY DEF Marks
<1>3. \A k \in DOMAIN queue[w] : k \in DOMAIN queue'[w] /\ queue'[w][k] = queue[w][k] /\ k \in Nat
                                 /\ queue[w][k].list \in Nat
  BY <1>1, Items DEF Extends
<1>4. \A i \in L : f[i] \in DOMAIN queue'[w] /\ queue'[w][f[i]] = queue[w][f[i]] /\ queue'[w][f[i]].kind = "recycle"
                   /\ f[i] > done'[w]
  BY <1>2, <1>3
<1>5. ASSUME NEW i \in L, NEW p \in callbackLists'[s][i] PROVE StagingOf(p, s, queue[w][f[i]].list)'
  <2>1. PICK n \in Nat : n = queue[w][f[i]].list
    BY <1>2, <1>3
  <2>2. StagingOf(p, s, n)'
    BY <1>2, <1>5, <2>1, StagingKept
  <2>3. queue'[w][f[i]].list = n
    BY <1>4, <2>1
  <2> QED BY <1>1, <2>2, <2>3
<1>6. ASSUME NEW k \in DOMAIN queue'[w], k > done'[w], queue'[w][k].kind = "recycle" PROVE \E i \in L : f[i] = k
  <2>1. k \in DOMAIN queue[w] /\ k \in Nat /\ done[w] \in Nat
    BY <1>1, <1>3, <1>6 DEF TypeInv
  <2>2. k > done[w]
    BY <1>6, <2>1
  <2> QED BY <1>2, <1>3, <1>6, <2>1, <2>2
<1>7. Marks(s, f)'
  BY <1>1, <1>2, <1>4, <1>5, <1>6 DEF Marks, First
<1> QED BY <1>4, <1>7

\* What the host did for the callbacks of other streams is left as it was.
StagingLocal(s) ==
  /\ \A p \in current[s] : StagingOf(p, s, lists[s])
  /\ \E f \in [DOMAIN callbackLists[s] -> DOMAIN queue[First(s)]] : Marks(s, f)
  /\ \A p \in recycled[s] : Reached(p)

\* A step that neither dispatches callbacks of s nor recycles some.
LEMMA QuietStaging ==
  ASSUME TypeInv, StagingInv, Extends, NEW s \in Stream,
         callbackLists'[s] = callbackLists[s], recycled'[s] = recycled[s],
         \/ done' = done
         \/ \E w \in Worker : /\ done' = [done EXCEPT ![w] = @ + 1]
                              /\ w = First(s) => NextItem(w).kind # "recycle",
         \A k \in DOMAIN queue'[First(s)] : queue'[First(s)][k].kind = "recycle" => k \in DOMAIN queue[First(s)],
         \A p \in current'[s] : p \in current[s] \/ StagingOf(p, s, lists[s])'
  PROVE  StagingLocal(s)'
<1>1. First(s) \in Worker /\ Lengths /\ StagingTypes /\ StagingLocal(s)
  BY Workers, LengthsOf DEF StagingInv, StagingLocal
<1>2. PICK f \in [DOMAIN callbackLists[s] -> DOMAIN queue[First(s)]] : Marks(s, f)
  BY <1>1 DEF StagingLocal
<1>3. done[First(s)] \in Nat /\ done'[First(s)] \in Nat /\ done'[First(s)] >= done[First(s)]
  BY <1>1 DEF TypeInv
<1>4. \A k \in DOMAIN queue[First(s)] :
         k > done[First(s)] /\ queue[First(s)][k].kind = "recycle" => k > done'[First(s)]
  <2> SUFFICES ASSUME NEW k \in DOMAIN queue[First(s)], k > done[First(s)], queue[First(s)][k].kind = "recycle"
               PROVE  k > done'[First(s)]
    OBVIOUS
  <2>1. k \in Nat
    BY <1>1, Items
  <2>2. CASE done'[First(s)] = done[First(s)]
    BY <2>2
  <2>3. CASE done'[First(s)] # done[First(s)]
    <3>1. NextItem(First(s)).kind # "recycle" /\ done'[First(s)] = done[First(s)] + 1
      BY <1>1, <2>3 DEF TypeInv
    <3>2. k # done[First(s)] + 1
      BY <3>1 DEF NextItem
    <3> QED BY <1>3, <2>1, <3>1, <3>2
  <2> QED BY <2>2, <2>3
<1>5. Marks(s, f)' /\ f \in [DOMAIN callbackLists'[s] -> DOMAIN queue'[First(s)]]
  BY <1>2, <1>3, <1>4, MarksKept
<1>6. ASSUME NEW p \in current'[s] PROVE StagingOf(p, s, lists[s])'
  <2>1. CASE p \in current[s]
    <3>1. PICK n \in Nat : n = lists[s]
      BY DEF TypeInv
    <3>2. StagingOf(p, s, n)
      BY <1>1, <2>1, <3>1 DEF StagingLocal
    <3>3. \A m \in Int : n <= m => StagingOf(p, s, m)'
      BY <3>2, StagingKept
    <3> QED BY <3>1, <3>3 DEF Extends
  <2> QED BY <1>6, <2>1
<1>7. ASSUME NEW p \in recycled'[s] PROVE Reached(p)'
  <2>1. p \in PointT /\ Reached(p)
    BY <1>1, <1>7 DEF StagingLocal, StagingTypes
  <2> QED BY <2>1, ReachedKept
<1> QED BY <1>5, <1>6, <1>7 DEF StagingLocal, First

LEMMA VisitStaging ==
  ASSUME TypeInv, StagingInv, NEW s \in Stream, NEW upload \in BOOLEAN, Visit(s, upload), NEW r \in Stream
  PROVE  StagingLocal(r)'
<1>0. PICK w \in Worker : w = <<s, round[s]>>
  BY Workers DEF TypeInv
<1>1. /\ queue' \in [Worker -> Seq(ItemT)]
      /\ \A v \in Worker \ {w} : queue'[v] = queue[v]
      /\ Len(queue'[w]) = Len(queue[w]) + IF Fresh(s) THEN 2 ELSE 1
      /\ queue'[w][Len(queue'[w])] = Item(s, "command", Nowhere(s))
      /\ Fresh(s) => queue'[w][Len(queue[w]) + 1] = Item(s, "wait", workerEvent[First(s)])
  BY <1>0, VisitQueue
<1>2. /\ Extends /\ Lengths /\ First(r) \in Worker /\ w[1] = s
  BY <1>0, VisitExtends, LengthsOf, Workers
<1>3. /\ callbackLists' = callbackLists /\ recycled' = recycled /\ done' = done /\ lists' = lists
      /\ current' = [current EXCEPT ![s] =
            IF upload THEN @ \cup {Point(w, Len(queue'[w]), lists[s])} ELSE @]
  BY <1>0 DEF Visit
<1>4. Len(queue'[w]) \in Nat /\ DOMAIN queue'[w] = 1..Len(queue'[w]) /\ Len(queue[w]) \in Nat
      /\ DOMAIN queue[w] = 1..Len(queue[w])
  <2>1. queue'[w] \in Seq(ItemT) /\ Len(queue[w]) \in Nat /\ DOMAIN queue[w] = 1..Len(queue[w])
    BY <1>1, <1>2 DEF Lengths
  <2> QED BY <2>1
<1>5. /\ Fresh(s) => Len(queue'[w]) = Len(queue[w]) + 2
      /\ ~Fresh(s) => Len(queue'[w]) = Len(queue[w]) + 1
  BY <1>1
<1>6. /\ Item(s, "command", Nowhere(s)).kind = "command" /\ Item(s, "command", Nowhere(s)).list = lists[s]
      /\ Item(s, "wait", workerEvent[First(s)]).kind = "wait"
  BY DEF Item
<1>7. \A k \in DOMAIN queue'[First(r)] :
         queue'[First(r)][k].kind = "recycle" => k \in DOMAIN queue[First(r)]
  <2>1. CASE First(r) = w
    <3> SUFFICES ASSUME NEW k \in DOMAIN queue'[w], k \notin DOMAIN queue[w] PROVE queue'[w][k].kind # "recycle"
      BY <2>1
    <3>1. k = Len(queue'[w]) \/ (Fresh(s) /\ k = Len(queue[w]) + 1)
      BY <1>4, <1>5
    <3> QED BY <1>1, <1>6, <3>1
  <2>2. CASE First(r) # w
    BY <1>1, <1>2, <2>2
  <2> QED BY <2>1, <2>2
<1>8. ASSUME NEW p \in current'[r] PROVE p \in current[r] \/ StagingOf(p, r, lists[r])'
  <2>1. CASE p \in current[r]
    BY <2>1
  <2>2. CASE p \notin current[r]
    <3>1. r = s /\ p = Point(w, Len(queue'[w]), lists[s])
      BY <1>3, <1>8, <2>2 DEF TypeInv
    <3>2. p \in PointT /\ p.worker = w /\ p.pos = Len(queue'[w])
      BY <1>4, <3>1 DEF Point, PointT, TypeInv
    <3>3. Len(queue'[w]) \in DOMAIN queue'[w]
      BY <1>4, <1>5
    <3>4. queue'[w][p.pos].kind = "command" /\ queue'[w][p.pos].list = lists'[s] /\ lists'[s] \in Nat
      BY <1>1, <1>3, <1>6, <3>2 DEF TypeInv
    <3> QED BY <1>2, <3>1, <3>2, <3>3, <3>4 DEF StagingOf, CommandOf
  <2> QED BY <2>1, <2>2
<1> QED BY <1>2, <1>3, <1>7, <1>8, QuietStaging

\* The other calls, but for the dispatch of callbacks.
LEMMA CallStaging ==
  ASSUME TypeInv, StagingInv, NEW s \in Stream, NEW r \in Stream,
         \/ BeginList(s) \/ Synchronize(s) \/ Synchronized(s) \/ DispatchFunction(s) \/ Barrier(s)
         \/ \E e \in Event : SignalEvent(s, e) \/ WaitEvent(s, e)
  PROVE  StagingLocal(r)'
<1>1. Extends /\ Lengths /\ First(r) \in Worker /\ First(s) \in Worker
  BY StepExtends, LengthsOf, Workers DEF Next, Call, Continue
<1>2. done' = done /\ current' = current /\ callbackLists' = callbackLists /\ recycled' = recycled
  BY DEF BeginList, Synchronize, Synchronized, DispatchFunction, Barrier, SignalEvent, WaitEvent, device, calls
<1> DEFINE NoRecycle == \A k \in DOMAIN queue'[First(r)] :
                           queue'[First(r)][k].kind = "recycle" => k \in DOMAIN queue[First(r)]
<1>3. ASSUME queue' = queue PROVE NoRecycle
  BY <1>3
<1>4. ASSUME NEW x, Adds(s, x), x.kind # "recycle" PROVE NoRecycle
  <2> SUFFICES ASSUME NEW k \in DOMAIN queue'[First(r)], k \notin DOMAIN queue[First(r)]
               PROVE  queue'[First(r)][k].kind # "recycle"
    OBVIOUS
  <2>1. OneMore(queue', queue, First(s), x)
    BY <1>4 DEF Adds
  <2>2. First(r) = First(s)
    BY <1>1, <2>1 DEF OneMore
  <2>3. queue'[First(s)] \in Seq(ItemT) /\ Len(queue'[First(s)]) = Len(queue[First(s)]) + 1
    BY <1>1, <2>1 DEF OneMore
  <2>4. Len(queue[First(s)]) \in Nat /\ DOMAIN queue[First(s)] = 1..Len(queue[First(s)])
        /\ DOMAIN queue'[First(s)] = 1..Len(queue'[First(s)])
    BY <1>1, <2>3 DEF Lengths
  <2>5. k = Len(queue[First(s)]) + 1
    BY <2>2, <2>3, <2>4
  <2> QED BY <1>4, <2>1, <2>2, <2>5 DEF OneMore
<1>5. ASSUME Barrier(s) PROVE NoRecycle
  <2> SUFFICES ASSUME NEW k \in DOMAIN queue'[First(r)], k \notin DOMAIN queue[First(r)]
               PROVE  queue'[First(r)][k].kind # "recycle"
    OBVIOUS
  <2>1. /\ \A v \in Worker \ {First(s)} : queue'[v] = queue[v]
        /\ queue' \in [Worker -> Seq(ItemT)]
        /\ \A j \in DOMAIN queue'[First(s)] : j > Len(queue[First(s)]) => queue'[First(s)][j].kind = "wait"
    BY <1>5, BarrierQueue
  <2>2. First(r) = First(s)
    BY <1>1, <2>1
  <2>3. k \in Nat /\ k >= 1
    BY <1>1, <2>1
  <2>4. k > Len(queue[First(s)])
    BY <1>1, <2>2, <2>3 DEF Lengths
  <2> QED BY <2>1, <2>2, <2>4
<1>6. ASSUME BeginList(s) \/ Synchronize(s) \/ Synchronized(s) \/ \E e \in Event : SignalEvent(s, e)
      PROVE  NoRecycle
  BY <1>3, <1>6 DEF BeginList, Synchronize, Synchronized, SignalEvent, device
<1>7. ASSUME DispatchFunction(s) PROVE NoRecycle
  BY <1>4, <1>7, FunctionAdds DEF Item
<1>8. ASSUME NEW e \in Event, WaitEvent(s, e) PROVE NoRecycle
  BY <1>4, <1>8, WaitAdds DEF Item
<1>9. NoRecycle
  BY <1>5, <1>6, <1>7, <1>8
<1> QED BY <1>1, <1>2, <1>9, QuietStaging

\* The dispatch of callbacks: the new recycle is for the list that is appended.
LEMMA CallbacksStaging ==
  ASSUME TypeInv, StagingInv, NEW s \in Stream, DispatchCallbacks(s), NEW r \in Stream
  PROVE  StagingLocal(r)' /\ StagingTypes'
<1> DEFINE w == First(s)
           x == Item(s, "recycle", Nowhere(s))
<1>1. /\ Extends /\ Lengths /\ First(r) \in Worker /\ w \in Worker /\ w = <<s, 0>> /\ (r # s => First(r) # w)
      /\ StagingTypes
  BY CallbacksAdd, LengthsOf, Workers DEF First, StagingInv
<1>2. done' = done /\ current' = [current EXCEPT ![s] = {}] /\ recycled' = recycled /\ lists' = lists
  BY DEF DispatchCallbacks
<1>3. CASE current[s] = {}
  <2>1. queue' = queue /\ callbackLists' = callbackLists
    BY <1>3 DEF DispatchCallbacks
  <2>2. \A p \in current'[r] : p \in current[r]
    BY <1>2 DEF TypeInv
  <2> QED BY <1>1, <1>2, <2>1, <2>2, QuietStaging DEF StagingTypes
<1>4. CASE current[s] # {}
  <2>1. callbackLists' = [callbackLists EXCEPT ![s] = Append(@, current[s])] /\ queue' = Append1(queue, w, x)
    BY <1>4 DEF DispatchCallbacks, Recycler
  <2>2. OneMore(queue', queue, w, x) /\ x.kind = "recycle" /\ x.list = lists[s] /\ lists[s] \in Nat
    <3>1. x \in ItemT /\ x.kind = "recycle" /\ x.list = lists[s]
      BY NewItems, NewPoints DEF Kind
    <3> HIDE DEF x
    <3>2. OneMore(queue', queue, w, x)
      BY <1>1, <2>1, <3>1, Appended DEF TypeInv
    <3> QED BY <3>1, <3>2 DEF TypeInv
  <2> HIDE DEF x
  <2>3. StagingTypes'
    <3>1. current[s] \in SUBSET PointT
      BY DEF TypeInv
    <3>2. Append(callbackLists[s], current[s]) \in Seq(SUBSET PointT)
      BY <1>1, <3>1 DEF StagingTypes
    <3> QED BY <1>1, <1>2, <2>1, <3>2 DEF StagingTypes
  <2>4. ASSUME r # s PROVE StagingLocal(r)'
    <3>1. callbackLists'[r] = callbackLists[r] /\ recycled'[r] = recycled[r] /\ current'[r] = current[r]
          /\ queue'[First(r)] = queue[First(r)]
      BY <1>1, <1>2, <2>1, <2>2, <2>4 DEF StagingTypes, TypeInv, OneMore
    <3> QED BY <1>1, <1>2, <3>1, QuietStaging
  <2>5. StagingLocal(s)'
    <3> DEFINE c == callbackLists[s]
               l == Len(c)
               q == Len(queue[w]) + 1
    <3>1. /\ c \in Seq(SUBSET PointT) /\ current[s] \in SUBSET PointT /\ l \in Nat /\ DOMAIN c = 1..l
          /\ callbackLists'[s] = Append(c, current[s])
      BY <1>1, <2>1 DEF StagingTypes, TypeInv
    <3>2. /\ DOMAIN callbackLists'[s] = 1..(l + 1)
          /\ \A i \in 1..l : callbackLists'[s][i] = c[i]
          /\ callbackLists'[s][l + 1] = current[s]
      BY <3>1
    <3>3. /\ Len(queue[w]) \in Nat /\ DOMAIN queue[w] = 1..Len(queue[w]) /\ DOMAIN queue'[w] = 1..q
          /\ queue'[w][q] = x /\ \A k \in DOMAIN queue[w] : queue'[w][k] = queue[w][k]
      <4>1. Len(queue[w]) \in Nat /\ DOMAIN queue[w] = 1..Len(queue[w]) /\ queue'[w] \in Seq(ItemT)
        BY <1>1, <2>2 DEF Lengths, OneMore
      <4> QED BY <2>2, <4>1 DEF OneMore
    <3>4. StagingLocal(s)
      BY DEF StagingInv, StagingLocal
    <3>5. PICK f \in [1..l -> DOMAIN queue[w]] : Marks(s, f)
      BY <3>1, <3>4 DEF StagingLocal
    <3>6. PICK g \in [1..(l + 1) -> 1..q] : g = [i \in 1..(l + 1) |-> IF i = l + 1 THEN q ELSE f[i]]
      <4> DEFINE h == [i \in 1..(l + 1) |-> IF i = l + 1 THEN q ELSE f[i]]
      <4>1. \A i \in 1..(l + 1) : (IF i = l + 1 THEN q ELSE f[i]) \in 1..q
        <5> TAKE i \in 1..(l + 1)
        <5>1. CASE i = l + 1
          BY <3>3, <5>1
        <5>2. CASE i # l + 1
          <6>1. i \in 1..l
            BY <3>1, <5>2
          <6>2. f[i] \in 1..Len(queue[w])
            BY <3>3, <3>5, <6>1
          <6> QED BY <3>3, <5>2, <6>2
        <5> QED BY <5>1, <5>2
      <4>2. h \in [1..(l + 1) -> 1..q]
        BY <4>1
      <4> QED BY <4>2
    <3>7. /\ g[l + 1] = q /\ \A i \in 1..l : g[i] = f[i]
      BY <3>1, <3>6
    <3> HIDE DEF c, l, q, w
    <3>8. Marks(s, g)'
      <4>0. /\ \A i \in 1..l : f[i] \in DOMAIN queue[w]
            /\ \A i, j \in 1..l : i < j => f[i] < f[j]
            /\ \A i \in 1..l : /\ f[i] > done[w] /\ queue[w][f[i]].kind = "recycle"
                               /\ \A p \in c[i] : StagingOf(p, s, queue[w][f[i]].list)
            /\ \A k \in DOMAIN queue[w] : k > done[w] /\ queue[w][k].kind = "recycle" => \E i \in 1..l : f[i] = k
        BY <3>1, <3>5 DEF Marks, c, w
      <4>1. \A i \in 1..(l + 1) : g[i] \in DOMAIN queue'[w]
        BY <3>3, <3>6
      <4>2. ASSUME NEW i \in 1..(l + 1), NEW j \in 1..(l + 1), i < j PROVE g[i] < g[j]
        <5>1. i \in 1..l
          BY <3>1, <4>2
        <5>2. f[i] \in 1..Len(queue[w]) /\ g[i] = f[i]
          BY <3>3, <3>7, <4>0, <5>1
        <5>3. CASE j = l + 1
          BY <3>3, <3>7, <5>2, <5>3 DEF q
        <5>4. CASE j # l + 1
          <6>1. j \in 1..l
            BY <3>1, <5>4
          <6> QED BY <3>7, <4>0, <4>2, <5>1, <5>2, <6>1
        <5> QED BY <5>3, <5>4
      <4>3. ASSUME NEW i \in 1..(l + 1) PROVE g[i] > done'[w] /\ queue'[w][g[i]].kind = "recycle"
        <5>1. CASE i = l + 1
          <6>1. done'[w] = done[w] /\ done[w] <= Len(queue[w]) /\ done[w] \in Nat
            BY <1>1, <1>2 DEF TypeInv, w
          <6> QED BY <2>2, <3>3, <3>7, <5>1, <6>1 DEF q
        <5>2. CASE i # l + 1
          <6>1. i \in 1..l
            BY <3>1, <5>2
          <6> QED BY <1>2, <3>3, <3>7, <4>0, <6>1
        <5> QED BY <5>1, <5>2
      <4>4. ASSUME NEW i \in 1..(l + 1), NEW p \in callbackLists'[s][i]
            PROVE  StagingOf(p, s, queue[w][g[i]].list)'
        <5>1. CASE i = l + 1
          <6>1. PICK n \in Nat : n = lists[s]
            BY <2>2
          <6>2. StagingOf(p, s, n)
            BY <3>2, <3>4, <4>4, <5>1, <6>1 DEF StagingLocal
          <6>3. StagingOf(p, s, n)'
            BY <1>1, <6>2, StagingKept
          <6>4. queue'[w][g[i]].list = n
            BY <2>2, <3>3, <3>7, <5>1, <6>1
          <6> QED BY <6>3, <6>4
        <5>2. CASE i # l + 1
          <6>1. i \in 1..l
            BY <3>1, <5>2
          <6>2. PICK n \in Nat : n = queue[w][f[i]].list
            BY <1>1, <4>0, <6>1, Items DEF w
          <6>3. StagingOf(p, s, n)'
            BY <1>1, <3>2, <4>0, <4>4, <6>1, <6>2, StagingKept
          <6>4. queue'[w][g[i]].list = n
            BY <3>3, <3>7, <4>0, <6>1, <6>2
          <6> QED BY <6>3, <6>4
        <5> QED BY <5>1, <5>2
      <4>5. ASSUME NEW k \in DOMAIN queue'[w], k > done'[w], queue'[w][k].kind = "recycle"
            PROVE  \E i \in 1..(l + 1) : g[i] = k
        <5>1. CASE k = q
          BY <3>1, <3>7, <5>1
        <5>2. CASE k # q
          <6>1. k \in DOMAIN queue[w]
            BY <3>3, <5>2 DEF q
          <6>2. PICK i \in 1..l : f[i] = k
            BY <1>2, <3>3, <4>0, <4>5, <6>1
          <6> QED BY <3>1, <3>7, <6>2
        <5> QED BY <5>1, <5>2
      <4>6. DOMAIN callbackLists'[s] = 1..(l + 1)
        BY <3>2
      <4> QED BY <4>1, <4>2, <4>3, <4>4, <4>5, <4>6 DEF Marks, First, w
    <3>9. current'[s] = {}
      BY <1>2 DEF TypeInv
    <3>10. \A p \in recycled'[s] : Reached(p)'
      BY <1>2, <3>4 DEF StagingLocal, Reached
    <3>11. g \in [DOMAIN callbackLists'[s] -> DOMAIN queue'[w]]
      BY <3>2, <3>3, <3>6 DEF q
    <3> QED BY <3>8, <3>9, <3>10, <3>11 DEF StagingLocal, First, w
  <2> QED BY <2>3, <2>4, <2>5
<1> QED BY <1>3, <1>4

\* A recycle runs: it is the first one marked, and the buffers of its list are
\* copied out of.
LEMMA ExecuteStaging ==
  ASSUME TypeInv, OrderInv, StagingInv, NEW v \in Worker, Execute(v), NEW r \in Stream
  PROVE  StagingLocal(r)' /\ StagingTypes'
<1>1. /\ queue' = queue /\ current' = current /\ lists' = lists /\ done' = [done EXCEPT ![v] = @ + 1] /\ HasNext(v)
  BY DEF Execute
<1>2. /\ Extends /\ Lengths /\ StagingTypes /\ First(r) \in Worker /\ v[1] \in Stream
  BY ExecuteExtends, LengthsOf, Workers DEF StagingInv
<1>3. CASE NextItem(v).kind # "recycle"
  <2>1. callbackLists' = callbackLists /\ recycled' = recycled
    BY <1>3 DEF Execute
  <2>2. \E w \in Worker : /\ done' = [done EXCEPT ![w] = @ + 1]
                          /\ w = First(r) => NextItem(w).kind # "recycle"
    BY <1>1, <1>3
  <2> QED BY <1>1, <1>2, <2>1, <2>2, QuietStaging DEF StagingTypes
<1>4. CASE NextItem(v).kind = "recycle"
  <2>1. PICK s \in Stream : s = v[1]
    BY <1>2
  <2>2. v[2] = 0 /\ ListsDone(s, NextItem(v).list)
    BY <1>1, <1>4, <2>1, NextBehind
  <2>3. v = First(s) /\ v = <<s, 0>>
    BY <2>1, <2>2, Workers
  <2>4. /\ recycled' = [recycled EXCEPT ![s] = @ \cup Head(callbackLists[s])]
        /\ callbackLists' = [callbackLists EXCEPT ![s] = Tail(@)]
    BY <1>4, <2>1 DEF Execute
  <2> DEFINE c == callbackLists[s]
             l == Len(c)
             d == done[v] + 1
  <2>5. c \in Seq(SUBSET PointT) /\ l \in Nat /\ DOMAIN c = 1..l
    <3>1. c \in Seq(SUBSET PointT)
      BY <1>2 DEF StagingTypes
    <3> HIDE DEF c
    <3> QED BY <3>1
  <2>6. /\ d \in DOMAIN queue[v] /\ queue[v][d] = NextItem(v) /\ d \in Nat /\ done[v] \in Nat
        /\ queue[v][d] \in ItemT /\ done'[v] = d
    <3>1. d \in DOMAIN queue[v] /\ d \in Nat /\ done[v] \in Nat
      <4>1. done[v] \in Nat
        BY DEF TypeInv
      <4> QED BY <1>1, <1>2, <4>1 DEF Lengths, HasNext
    <3>2. done'[v] = d
      BY <1>1 DEF TypeInv
    <3>3. queue[v][d] \in ItemT
      BY <3>1, Items
    <3> QED BY <3>1, <3>2, <3>3 DEF NextItem
  <2>7. PICK f \in [1..l -> DOMAIN queue[v]] : Marks(s, f)
    BY <2>3, <2>5 DEF StagingInv
  <2> HIDE DEF d
  <2>8. /\ \A i \in 1..l : f[i] \in DOMAIN queue[v]
        /\ \A i, j \in 1..l : i < j => f[i] < f[j]
        /\ \A i \in 1..l : /\ f[i] > done[v] /\ queue[v][f[i]].kind = "recycle"
                           /\ \A p \in c[i] : StagingOf(p, s, queue[v][f[i]].list)
        /\ \A k \in DOMAIN queue[v] : k > done[v] /\ queue[v][k].kind = "recycle" => \E i \in 1..l : f[i] = k
    <3> HIDE DEF l, c
    <3>1. First(s) = v /\ callbackLists[s] = c /\ DOMAIN c = 1..l
      BY <2>3, <2>5 DEF c
    <3> QED
      BY <2>7, <3>1 DEF Marks
  <2>9. l >= 1 /\ f[1] = d
    <3>1. d > done[v]
      BY <2>6 DEF d
    <3>2. PICK i \in 1..l : f[i] = d
      BY <1>4, <2>6, <2>8, <3>1
    <3>3. 1 \in 1..l /\ l >= 1
      BY <2>5
    <3>4. f[1] \in Nat /\ f[1] > done[v]
      BY <1>2, <2>8, <3>3 DEF Lengths
    <3>5. ~(1 < i)
      <4>1. f[1] >= d
        BY <2>6, <3>4 DEF d
      <4> QED BY <2>6, <2>8, <3>2, <3>3, <3>4, <4>1
    <3>6. i = 1
      BY <3>5
    <3> QED BY <3>2, <3>3, <3>6
  <2>10. /\ Head(c) = c[1] /\ Tail(c) \in Seq(SUBSET PointT) /\ DOMAIN Tail(c) = 1..(l - 1)
         /\ \A i \in 1..(l - 1) : Tail(c)[i] = c[i + 1]
    <3>1. c # <<>>
      BY <2>5, <2>9
    <3> HIDE DEF c
    <3> QED BY <2>5, <3>1
  <2>11. Head(c) \in SUBSET PointT
    BY <2>5, <2>9, <2>10
  <2>12. StagingTypes'
    BY <1>2, <2>4, <2>10, <2>11 DEF StagingTypes
  <2>13. ASSUME NEW p \in PointT, Reached(p) PROVE Reached(p)'
    BY <1>1, <2>13, ReachedKept
  <2>14. ASSUME r # s PROVE StagingLocal(r)'
    <3>1. callbackLists'[r] = callbackLists[r] /\ recycled'[r] = recycled[r] /\ First(r) # v
      BY <1>2, <2>3, <2>4, <2>14 DEF StagingTypes, First
    <3>2. \E w \in Worker : /\ done' = [done EXCEPT ![w] = @ + 1]
                            /\ w = First(r) => NextItem(w).kind # "recycle"
      BY <1>1, <3>1
    <3> QED BY <1>1, <1>2, <3>1, <3>2, QuietStaging
  <2>15. StagingLocal(s)'
    <3>1. ASSUME NEW p \in recycled'[s] PROVE Reached(p)'
      <4>1. recycled'[s] = recycled[s] \cup Head(c) /\ recycled[s] \in SUBSET PointT
        BY <1>2, <2>4 DEF StagingTypes
      <4>2. CASE p \in recycled[s]
        BY <2>13, <4>1, <4>2 DEF StagingInv
      <4>3. CASE p \in Head(c)
        <5>1. StagingOf(p, s, NextItem(v).list) /\ p \in PointT
          BY <2>6, <2>8, <2>9, <2>10, <2>11, <4>3
        <5>2. p.worker \in Worker /\ p.worker[1] = s /\ p.worker = <<s, p.worker[2]>> /\ p.worker[2] \in 0..(Backed - 1)
              /\ p.pos \in DOMAIN queue[p.worker] /\ CommandOf(p.worker, p.pos, NextItem(v).list)
          BY <5>1, Workers DEF StagingOf, PointT
        <5>3. done[p.worker] >= p.pos
          BY <2>2, <5>2 DEF ListsDone
        <5> QED BY <2>13, <5>1, <5>3 DEF Reached
      <4> QED BY <3>1, <4>1, <4>2, <4>3
    <3>2. ASSUME NEW p \in current'[s] PROVE StagingOf(p, s, lists[s])'
      BY <1>1, <3>2 DEF StagingInv, StagingOf, CommandOf
    <3>3. PICK g \in [1..(l - 1) -> DOMAIN queue[v]] : g = [i \in 1..(l - 1) |-> f[i + 1]]
      <4>1. \A i \in 1..(l - 1) : i + 1 \in 1..l
        BY <2>5
      <4> QED BY <2>8, <4>1
    <3> HIDE DEF c, l
    <3>4. \A i \in 1..(l - 1) : i + 1 \in 1..l /\ g[i] = f[i + 1]
      BY <2>5, <3>3 DEF l
    <3>5. Marks(s, g)'
      <4>0. l \in Nat /\ l >= 1
        BY <2>5, <2>9 DEF l
      <4>1. \A i \in 1..(l - 1) : g[i] \in DOMAIN queue'[v]
        BY <1>1, <3>3
      <4>2. \A i, j \in 1..(l - 1) : i < j => g[i] < g[j]
        <5> TAKE i, j \in 1..(l - 1)
        <5> HAVE i < j
        <5>1. i + 1 < j + 1 /\ i + 1 \in 1..l /\ j + 1 \in 1..l
          BY <3>4
        <5> QED BY <2>8, <3>4, <5>1
      <4>3. ASSUME NEW i \in 1..(l - 1) PROVE g[i] > done'[v] /\ queue'[v][g[i]].kind = "recycle"
        <5>1. i + 1 \in 1..l /\ 1 \in 1..l /\ 1 < i + 1
          BY <3>4, <4>0
        <5>2. f[1] < f[i + 1]
          BY <2>8, <5>1
        <5>3. f[i + 1] \in Nat
          BY <1>2, <2>8, <5>1 DEF Lengths
        <5> QED BY <1>1, <2>6, <2>8, <2>9, <3>4, <5>1, <5>2, <5>3
      <4>4. ASSUME NEW i \in 1..(l - 1), NEW p \in callbackLists'[s][i]
            PROVE  StagingOf(p, s, queue[v][g[i]].list)'
        <5>1. callbackLists'[s][i] = c[i + 1] /\ i + 1 \in 1..l
          BY <1>2, <2>4, <2>10, <3>4 DEF StagingTypes, c
        <5>2. PICK n \in Nat : n = queue[v][g[i]].list
          BY <1>2, <3>3, Items
        <5>3. StagingOf(p, s, n)
          BY <2>8, <3>4, <4>4, <5>1, <5>2
        <5>4. StagingOf(p, s, n)'
          BY <1>2, <5>3, StagingKept
        <5>5. queue'[v][g[i]].list = n
          BY <1>1, <5>2
        <5> QED BY <5>4, <5>5
      <4>5. ASSUME NEW k \in DOMAIN queue'[v], k > done'[v], queue'[v][k].kind = "recycle"
            PROVE  \E i \in 1..(l - 1) : g[i] = k
        <5>1. k \in DOMAIN queue[v] /\ k \in Nat /\ k > done[v] /\ k # d
          BY <1>1, <1>2, <2>6, <4>5 DEF Lengths, d
        <5>2. PICK i \in 1..l : f[i] = k
          BY <1>1, <2>8, <4>5, <5>1
        <5>3. i # 1
          BY <2>9, <5>1, <5>2
        <5>4. i - 1 \in 1..(l - 1) /\ (i - 1) + 1 = i
          BY <4>0, <5>3
        <5> QED BY <3>4, <5>2, <5>4
      <4>6. DOMAIN callbackLists'[s] = 1..(l - 1)
        BY <1>2, <2>4, <2>10 DEF StagingTypes, c
      <4> QED BY <2>3, <4>1, <4>2, <4>3, <4>4, <4>5, <4>6 DEF Marks, First
    <3>6. g \in [DOMAIN callbackLists'[s] -> DOMAIN queue'[v]]
      BY <1>1, <1>2, <2>4, <2>10, <3>3 DEF StagingTypes, c
    <3> QED BY <2>3, <3>1, <3>2, <3>5, <3>6 DEF StagingLocal, First
  <2> QED BY <2>12, <2>14, <2>15
<1> QED BY <1>3, <1>4

LEMMA StagingStep == ASSUME TypeInv, OrderInv, StagingInv, [Next]_vars PROVE StagingInv'
<1>1. StagingInv' <=> StagingTypes' /\ \A r \in Stream : StagingLocal(r)'
  BY DEF StagingInv, StagingLocal
<1>2. StagingTypes /\ \A r \in Stream : StagingLocal(r)
  BY DEF StagingInv, StagingLocal
<1>3. CASE vars' = vars
  <2>1. UNCHANGED <<queue, done, current, callbackLists, recycled, pc, lists>>
    BY <1>3 DEF vars, device, calls
  <2>2. Extends
    <3>1. \A r \in Stream : Complete(r)' >= Complete(r)
      BY <2>1 DEF Complete, TypeInv
    <3> QED BY <2>1, <3>1, QuietExtends
  <2>3. \A r \in Stream : StagingLocal(r)'
    BY <2>1, <2>2, QuietStaging
  <2> QED BY <1>1, <1>2, <2>1, <2>3 DEF StagingTypes
<1>4. ASSUME NEW s \in Stream, DispatchCallbacks(s) PROVE StagingInv'
  BY <1>1, <1>4, CallbacksStaging
<1>5. ASSUME NEW v \in Worker, Execute(v) PROVE StagingInv'
  <2>1. \E r \in Stream : TRUE
    BY Workers
  <2> QED BY <1>1, <1>5, <2>1, ExecuteStaging
<1>6. ASSUME NEW s \in Stream, NEW upload \in BOOLEAN, Visit(s, upload) PROVE StagingInv'
  <2>1. callbackLists' = callbackLists /\ recycled' = recycled
    BY <1>6 DEF Visit
  <2> QED BY <1>1, <1>2, <1>6, <2>1, VisitStaging DEF StagingTypes
<1>7. ASSUME NEW s \in Stream,
             \/ BeginList(s) \/ Synchronize(s) \/ Synchronized(s) \/ DispatchFunction(s) \/ Barrier(s)
             \/ \E e \in Event : SignalEvent(s, e) \/ WaitEvent(s, e)
      PROVE  StagingInv'
  <2>1. callbackLists' = callbackLists /\ recycled' = recycled
    BY <1>7 DEF BeginList, Synchronize, Synchronized, DispatchFunction, Barrier, SignalEvent, WaitEvent, calls
  <2>2. StagingTypes'
    BY <1>2, <2>1 DEF StagingTypes
  <2>3. \A r \in Stream : StagingLocal(r)'
    BY <1>7, CallStaging
  <2> QED BY <1>1, <2>2, <2>3
<1> QED BY <1>3, <1>4, <1>5, <1>6, <1>7 DEF Next, Call, Continue

LEMMA StagingInit == ASSUME Init PROVE StagingInv
<1>1. StagingTypes
  BY DEF Init, StagingTypes
<1>2. ASSUME NEW s \in Stream PROVE \E f \in [DOMAIN callbackLists[s] -> DOMAIN queue[First(s)]] : Marks(s, f)
  <2>1. callbackLists[s] = <<>> /\ queue[First(s)] = <<>>
    BY Workers DEF Init
  <2>2. DOMAIN callbackLists[s] = {} /\ DOMAIN queue[First(s)] = {}
    BY <2>1
  <2>3. [i \in DOMAIN callbackLists[s] |-> 0] \in [DOMAIN callbackLists[s] -> DOMAIN queue[First(s)]]
    BY <2>2
  <2>4. \A f : Marks(s, f)
    BY <2>2 DEF Marks
  <2> QED BY <2>3, <2>4
<1>3. \A s \in Stream : current[s] = {} /\ recycled[s] = {}
  BY DEF Init
<1> QED BY <1>1, <1>2, <1>3 DEF StagingInv

-----------------------------------------------------------------------------
IInv == TypeInv /\ OrderInv /\ StagingInv

\* The inductive invariant: the order on the CUDA streams and the marks of the
\* recycles hold after every step.
THEOREM IInvAlways == Spec => []IInv
<1>1. Init => IInv
  BY TypesInit, OrderInit, StagingInit DEF IInv
<1>2. IInv /\ [Next]_vars => IInv'
  BY TypesKept, OrderKept, StagingStep DEF IInv
<1> QED BY <1>1, <1>2, PTL DEF Spec

\* The CUDA streams hold what they should: no more of them has run than was put
\* into them, every event stands for a point, the bits of _used_streams and
\* _round name CUDA streams that exist (cuda_stream.cpp, cuda_event.cpp).
THEOREM TypeCorrect == Spec => []TypeOK
<1>1. IInv => TypeOK
  <2> SUFFICES ASSUME TypeInv PROVE TypeOK
    BY DEF IInv
  <2>1. \A p \in PointT : IsPoint(p)
    BY DEF PointT, IsPoint
  <2>2. \A w \in Worker : done[w] \in 0..Len(queue[w])
    BY LengthsOf DEF Lengths, TypeInv
  <2> QED BY <2>1, <2>2 DEF TypeInv, TypeOK
<1> QED BY <1>1, IInvAlways, PTL

\* Whatever CUDA streams the commands of the lists are spread over, a command
\* begins after the lists before its own, a host function after the lists before
\* it, and an event stands for the lists before the signal (barrier, handle).
THEOREM ListsRunInOrder == Spec => []ListsInOrder
<1>1. IInv => ListsInOrder
  BY OrderEnough DEF IInv
<1> QED BY <1>1, IInvAlways, PTL

\* A host function returns a staging buffer to the pool only when the copy out of
\* it is done (dispatch_callbacks and the callback it gives to the driver).
THEOREM StagingSafe == Spec => []StagingOutlivesCopy
<1>1. IInv => StagingOutlivesCopy
  BY DEF IInv, StagingInv, StagingOutlivesCopy
<1> QED BY <1>1, IInvAlways, PTL

\* synchronize() returns after everything dispatched before it has run.
THEOREM SynchronizeWaits == Spec => SynchronizeCovers
<1> DEFINE A == \A s \in Stream : (pc[s] = "synchronize" /\ pc'[s] = "idle") => ListsDone(s, lists[s])
<1>1. IInv /\ [Next]_vars => [A]_vars
  <2> SUFFICES ASSUME TypeInv, OrderInv, Next PROVE A
    BY DEF IInv
  <2> SUFFICES ASSUME NEW s \in Stream, pc[s] = "synchronize", pc'[s] = "idle" PROVE ListsDone(s, lists[s])
    OBVIOUS
  <2>1. Synchronized(s)
    <3>1. ASSUME NEW r \in Stream, BeginList(r) \/ DispatchFunction(r) \/ Synchronize(r) PROVE FALSE
      BY <3>1 DEF BeginList, DispatchFunction, Synchronize, Goes, TypeInv
    <3>2. ASSUME NEW r \in Stream, NEW upload \in BOOLEAN, Visit(r, upload) PROVE FALSE
      BY <3>2 DEF Visit
    <3>3. ASSUME NEW r \in Stream, NEW e \in Event, SignalEvent(r, e) \/ WaitEvent(r, e) PROVE FALSE
      BY <3>3 DEF SignalEvent, WaitEvent
    <3>4. ASSUME NEW r \in Stream, Barrier(r) \/ DispatchCallbacks(r) PROVE FALSE
      BY <3>4 DEF Barrier, DispatchCallbacks, Goes, TypeInv
    <3>5. ASSUME NEW w \in Worker, Execute(w) PROVE FALSE
      BY <3>5 DEF Execute
    <3>6. PICK r \in Stream : Synchronized(r)
      BY <3>1, <3>2, <3>3, <3>4, <3>5 DEF Next, Call, Continue
    <3>7. r = s
      BY <3>6 DEF Synchronized, Goes, TypeInv
    <3> QED BY <3>6, <3>7
  <2>2. First(s) \in Worker /\ Len(queue[First(s)]) \in Nat
    BY Workers, LengthsOf DEF Lengths
  <2>3. done[First(s)] >= Len(queue[First(s)])
    BY <2>1 DEF Synchronized, Reached, Here, Point
  <2>4. Covers(s, Len(queue[First(s)]), lists[s]) /\ lists[s] \in Int /\ WaitsInv
    BY Items DEF OrderInv, HostsInv, HostInv, Complete
  <2> QED BY <2>2, <2>3, <2>4, CoveredDone
<1> QED BY <1>1, IInvAlways, PTL DEF Spec, SynchronizeCovers

-----------------------------------------------------------------------------
(***************************************************************************)
(* No circular waits: a wait is for a point of the past, in whatever       *)
(* order the streams signal and wait (cuEventRecord, cuStreamWaitEvent).   *)
(***************************************************************************)
MayRun(w) == HasNext(w) /\ (NextItem(w).kind = "wait" => Reached(NextItem(w).point))

\* When no CUDA stream can go on, all have run what was put into them, nobody is
\* left in synchronize() and no staging buffer waits to be recycled.
NeverStuck ==
  (\A w \in Worker : ~MayRun(w)) =>
     /\ \A w \in Worker : ~HasNext(w)
     /\ \A s \in Stream : pc[s] = "synchronize" => Reached(Here(First(s)))
     /\ \A s \in Stream : callbackLists[s] = <<>>

Past(p) == p.pos <= Len(queue[p.worker])
PointsPast == (\A e \in Event : Past(event[e])) /\ (\A w \in Worker : Past(workerEvent[w]))

\* f numbers the items, below n, in the order in which they were put in.
NumberedBy(f, n) ==
  \A w \in Worker : \A k \in DOMAIN queue[w] :
    /\ f[<<w, k>>] < n
    /\ \A j \in DOMAIN queue[w] : j < k => f[<<w, j>>] < f[<<w, k>>]
    /\ queue[w][k].kind = "wait" =>
         LET p == queue[w][k].point
         IN Past(p) /\ (p.pos > 0 => f[<<p.worker, p.pos>>] < f[<<w, k>>])
ItemsNumbered == \E f \in [Worker \X Nat -> Nat], n \in Nat : NumberedBy(f, n)

\* A step that puts items into w, and waits only for what is there.
Puts(w) ==
  /\ queue' \in [Worker -> Seq(ItemT)] /\ \A v \in Worker \ {w} : queue'[v] = queue[v]
  /\ Len(queue'[w]) >= Len(queue[w])
  /\ \A k \in 1..Len(queue[w]) : queue'[w][k] = queue[w][k]
  /\ \A k \in DOMAIN queue'[w] : k > Len(queue[w]) /\ queue'[w][k].kind = "wait" => Past(queue'[w][k].point)

LEMMA PointTypes ==
  ASSUME TypeInv
  PROVE  /\ \A w \in Worker : Len(queue[w]) \in Nat /\ DOMAIN queue[w] = 1..Len(queue[w])
         /\ \A w \in Worker : \A k \in DOMAIN queue[w] :
              /\ k \in Nat /\ k >= 1
              /\ queue[w][k] \in ItemT /\ queue[w][k].point.worker \in Worker /\ queue[w][k].point.pos \in Nat
         /\ \A e \in Event : event[e] \in PointT /\ event[e].worker \in Worker /\ event[e].pos \in Nat
         /\ \A w \in Worker : /\ workerEvent[w] \in PointT
                              /\ workerEvent[w].worker \in Worker /\ workerEvent[w].pos \in Nat
<1>1. \A p \in PointT : p.worker \in Worker /\ p.pos \in Nat
  BY DEF PointT
<1>2. \A w \in Worker : Len(queue[w]) \in Nat /\ DOMAIN queue[w] = 1..Len(queue[w])
  BY LengthsOf DEF Lengths
<1>3. \A w \in Worker : \A k \in DOMAIN queue[w] : k \in Nat /\ k >= 1
  BY <1>2
<1>4. \A w \in Worker : \A k \in DOMAIN queue[w] :
        queue[w][k] \in ItemT /\ queue[w][k].point.worker \in Worker /\ queue[w][k].point.pos \in Nat
  BY <1>1, Items
<1>5. \A e \in Event : event[e] \in PointT
  BY DEF TypeInv
<1>6. \A w \in Worker : workerEvent[w] \in PointT
  BY DEF TypeInv
<1> QED BY <1>1, <1>2, <1>3, <1>4, <1>5, <1>6

LEMMA PutsNumbers ==
  ASSUME TypeInv, TypeInv', ItemsNumbered, NEW w \in Worker, Puts(w)
  PROVE  ItemsNumbered'
<1>1. PICK f \in [Worker \X Nat -> Nat], n \in Nat : NumberedBy(f, n)
  BY DEF ItemsNumbered
<1>2. PICK l \in Nat, l2 \in Nat : l = Len(queue[w]) /\ l2 = Len(queue'[w])
  BY PointTypes, LengthsOf DEF Lengths, Puts
<1>3. /\ \A v \in Worker : DOMAIN queue[v] = 1..Len(queue[v]) /\ Len(queue[v]) \in Nat
      /\ DOMAIN queue'[w] = 1..l2 /\ l <= l2
  BY <1>2, LengthsOf DEF Lengths, Puts
<1> DEFINE g == [x \in Worker \X Nat |-> IF x[1] = w /\ x[2] > l THEN n + x[2] ELSE f[x]]
           m == n + l2 + 1
<1>4. \A v \in Worker, k \in Nat :
        /\ f[<<v, k>>] \in Nat /\ g[<<v, k>>] \in Nat
        /\ g[<<v, k>>] = IF v = w /\ k > l THEN n + k ELSE f[<<v, k>>]
  <2>1. ASSUME NEW v \in Worker, NEW k \in Nat
        PROVE  /\ f[<<v, k>>] \in Nat
               /\ g[<<v, k>>] = IF v = w /\ k > l THEN n + k ELSE f[<<v, k>>]
    <3>1. <<v, k>> \in Worker \X Nat /\ <<v, k>>[1] = v /\ <<v, k>>[2] = k
      OBVIOUS
    <3> QED BY <3>1
  <2>2. ASSUME NEW v \in Worker, NEW k \in Nat PROVE g[<<v, k>>] \in Nat
    <3>1. n + k \in Nat
      OBVIOUS
    <3> HIDE DEF g
    <3> QED BY <2>1, <3>1
  <2> HIDE DEF g
  <2> QED BY <2>1, <2>2
<1>5. g \in [Worker \X Nat -> Nat]
  <2>1. ASSUME NEW x \in Worker \X Nat
        PROVE  (IF x[1] = w /\ x[2] > l THEN n + x[2] ELSE f[x]) \in Nat
    <3>1. x[2] \in Nat /\ f[x] \in Nat
      OBVIOUS
    <3> QED BY <3>1
  <2> QED BY <2>1
<1>6. m \in Nat
  OBVIOUS
<1> HIDE DEF g, m
\* The items that were there keep their numbers.
<1>7. ASSUME NEW v \in Worker, NEW k \in DOMAIN queue[v]
      PROVE  /\ k \in Nat /\ g[<<v, k>>] = f[<<v, k>>] /\ g[<<v, k>>] < n /\ queue'[v][k] = queue[v][k]
             /\ v = w => k <= l
  <2>1. k \in Nat /\ f[<<v, k>>] < n
    BY <1>1, PointTypes DEF NumberedBy
  <2>2. v = w => k <= l
    BY <1>2, <1>3, <2>1
  <2>3. g[<<v, k>>] = f[<<v, k>>]
    BY <1>4, <2>1, <2>2
  <2>4. queue'[v][k] = queue[v][k]
    BY <1>3 DEF Puts
  <2> QED BY <2>1, <2>2, <2>3, <2>4
<1>8. ASSUME NEW p, p.worker \in Worker, p.pos \in Nat, Past(p)
      PROVE  p.pos <= Len(queue'[p.worker]) /\ (p.pos > 0 => p.pos \in DOMAIN queue[p.worker])
  <2>1. Len(queue[p.worker]) \in Nat /\ DOMAIN queue[p.worker] = 1..Len(queue[p.worker])
    BY <1>3, <1>8
  <2>2. p.pos <= Len(queue[p.worker])
    BY <1>8 DEF Past
  <2>3. p.pos <= Len(queue'[p.worker])
    <3>1. CASE p.worker = w
      BY <1>2, <1>3, <1>8, <2>2, <3>1
    <3>2. CASE p.worker # w
      BY <1>8, <2>2, <3>2 DEF Puts
    <3> QED BY <3>1, <3>2
  <2> QED BY <1>8, <2>1, <2>2, <2>3
<1>9. ASSUME NEW v \in Worker, NEW k \in DOMAIN queue'[v]
      PROVE  k \in DOMAIN queue[v] \/ (v = w /\ k \in Nat /\ k > l /\ k <= l2 /\ g[<<v, k>>] = n + k)
  <2>1. CASE v = w
    <3>1. k \in Nat /\ k >= 1 /\ k <= l2
      BY <1>3, <2>1
    <3>2. CASE k <= l
      BY <1>2, <1>3, <2>1, <3>1, <3>2
    <3>3. CASE k > l
      BY <1>4, <2>1, <3>1, <3>3
    <3> QED BY <3>1, <3>2, <3>3
  <2>2. CASE v # w
    BY <2>2 DEF Puts
  <2> QED BY <2>1, <2>2
<1>10. ASSUME NEW v \in Worker, NEW k \in DOMAIN queue'[v]
       PROVE  /\ g[<<v, k>>] < m
              /\ \A j \in DOMAIN queue'[v] : j < k => g[<<v, j>>] < g[<<v, k>>]
              /\ queue'[v][k].kind = "wait" =>
                   LET p == queue'[v][k].point
                   IN p.pos <= Len(queue'[p.worker]) /\ (p.pos > 0 => g[<<p.worker, p.pos>>] < g[<<v, k>>])
  <2>1. CASE k \in DOMAIN queue[v]
    <3>1. g[<<v, k>>] < m
      <4>1. g[<<v, k>>] \in Nat /\ g[<<v, k>>] < n
        BY <1>4, <1>7, <2>1
      <4> QED BY <4>1 DEF m
    <3>2. ASSUME NEW j \in DOMAIN queue'[v], j < k PROVE g[<<v, j>>] < g[<<v, k>>]
      <4>1. j \in DOMAIN queue[v]
        <5>1. v = w => k <= l
          BY <1>7, <2>1
        <5>2. k \in Nat
          BY <1>7, <2>1
        <5>3. j \in DOMAIN queue[v] \/ (v = w /\ j \in Nat /\ j > l)
          BY <1>9
        <5> QED BY <3>2, <5>1, <5>2, <5>3
      <4> QED BY <1>1, <1>7, <2>1, <3>2, <4>1 DEF NumberedBy
    <3>3. ASSUME queue'[v][k].kind = "wait", NEW p, p = queue'[v][k].point
          PROVE  p.pos <= Len(queue'[p.worker]) /\ (p.pos > 0 => g[<<p.worker, p.pos>>] < g[<<v, k>>])
      <4>1. p = queue[v][k].point /\ queue[v][k].kind = "wait" /\ p.worker \in Worker /\ p.pos \in Nat
        BY <1>7, <2>1, <3>3, PointTypes
      <4>2. Past(p) /\ (p.pos > 0 => f[<<p.worker, p.pos>>] < f[<<v, k>>])
        BY <1>1, <2>1, <4>1 DEF NumberedBy
      <4>3. /\ p.pos <= Len(queue'[p.worker])
            /\ p.pos > 0 => p.pos \in DOMAIN queue[p.worker]
        BY <1>8, <4>1, <4>2
      <4>4. g[<<v, k>>] = f[<<v, k>>]
        BY <1>7, <2>1
      <4>5. ASSUME p.pos > 0 PROVE g[<<p.worker, p.pos>>] < g[<<v, k>>]
        <5>1. g[<<p.worker, p.pos>>] = f[<<p.worker, p.pos>>]
          BY <1>7, <4>1, <4>3, <4>5
        <5> QED BY <4>2, <4>4, <4>5, <5>1
      <4> QED BY <4>3, <4>5
    <3> QED BY <3>1, <3>2, <3>3
  <2>2. CASE v = w /\ k \in Nat /\ k > l /\ k <= l2 /\ g[<<v, k>>] = n + k
    <3>1. g[<<v, k>>] < m
      BY <2>2 DEF m
    <3>2. ASSUME NEW j \in DOMAIN queue'[v], j < k PROVE g[<<v, j>>] < g[<<v, k>>]
      <4>1. CASE j \in DOMAIN queue[v]
        <5>1. g[<<v, j>>] < n /\ g[<<v, j>>] \in Nat
          BY <1>4, <1>7, <4>1
        <5> QED BY <2>2, <5>1
      <4>2. CASE j \in Nat /\ g[<<v, j>>] = n + j
        BY <2>2, <3>2, <4>2
      <4> QED BY <1>9, <4>1, <4>2
    <3>3. ASSUME queue'[v][k].kind = "wait", NEW p, p = queue'[v][k].point
          PROVE  p.pos <= Len(queue'[p.worker]) /\ (p.pos > 0 => g[<<p.worker, p.pos>>] < g[<<v, k>>])
      <4>1. Past(p)
        BY <1>2, <2>2, <3>3 DEF Puts
      <4>2. p.worker \in Worker /\ p.pos \in Nat
        <5>1. queue'[w] \in Seq(ItemT) /\ queue'[w][k] \in ItemT
          BY <2>2 DEF Puts
        <5>2. queue'[w][k].point \in PointT
          BY <5>1 DEF ItemT
        <5> QED BY <2>2, <3>3, <5>2 DEF PointT
      <4>3. ASSUME p.pos > 0 PROVE g[<<p.worker, p.pos>>] < g[<<v, k>>]
        <5>1. p.pos \in DOMAIN queue[p.worker]
          BY <1>8, <4>1, <4>2, <4>3
        <5>2. g[<<p.worker, p.pos>>] < n /\ g[<<p.worker, p.pos>>] \in Nat
          BY <1>4, <1>7, <4>2, <5>1
        <5> QED BY <2>2, <5>2
      <4>4. p.pos <= Len(queue'[p.worker])
        BY <1>8, <4>1, <4>2
      <4> QED BY <4>3, <4>4
    <3> QED BY <3>1, <3>2, <3>3
  <2> QED BY <1>9, <2>1, <2>2
<1>11. NumberedBy(g, m)'
  BY <1>10 DEF NumberedBy, Past
<1> QED BY <1>5, <1>6, <1>11 DEF ItemsNumbered

\* A point of the past stays one: the queues only grow.
LEMMA PastKept ==
  ASSUME TypeInv, Extends, NEW p \in PointT, Past(p)
  PROVE  p.pos <= Len(queue'[p.worker])
<1>1. p.worker \in Worker /\ p.pos \in Nat
  BY DEF PointT
<1>2. Len(queue[p.worker]) \in Nat /\ Len(queue'[p.worker]) \in Nat
      /\ Len(queue'[p.worker]) >= Len(queue[p.worker])
  BY <1>1, LengthsOf DEF Lengths, Extends
<1> QED BY <1>1, <1>2 DEF Past

LEMMA AddsPuts ==
  ASSUME TypeInv, NEW s \in Stream, NEW x, Adds(s, x), x.kind = "wait" => Past(x.point)
  PROVE  Puts(First(s))
<1>1. First(s) \in Worker /\ queue[First(s)] \in Seq(ItemT)
  BY Workers DEF TypeInv
<1>2. /\ queue' \in [Worker -> Seq(ItemT)] /\ \A v \in Worker \ {First(s)} : queue'[v] = queue[v]
      /\ Len(queue'[First(s)]) = Len(queue[First(s)]) + 1
      /\ queue'[First(s)][Len(queue[First(s)]) + 1] = x
      /\ \A k \in 1..Len(queue[First(s)]) : queue'[First(s)][k] = queue[First(s)][k]
  BY DEF Adds, OneMore
<1>3. Len(queue[First(s)]) \in Nat /\ DOMAIN queue'[First(s)] = 1..Len(queue'[First(s)])
  BY <1>1, <1>2
<1>4. \A k \in DOMAIN queue'[First(s)] : k > Len(queue[First(s)]) => k = Len(queue[First(s)]) + 1
  BY <1>2, <1>3
<1> QED BY <1>2, <1>3, <1>4 DEF Puts

LEMMA VisitPuts ==
  ASSUME TypeInv, PointsPast, NEW s \in Stream, NEW upload \in BOOLEAN, Visit(s, upload)
  PROVE  \E w \in Worker : Puts(w)
<1>1. PICK w : w = <<s, round[s]>>
  OBVIOUS
<1>2. /\ w \in Worker /\ queue' \in [Worker -> Seq(ItemT)]
      /\ \A v \in Worker \ {w} : queue'[v] = queue[v]
      /\ Len(queue'[w]) = Len(queue[w]) + IF Fresh(s) THEN 2 ELSE 1
      /\ \A k \in 1..Len(queue[w]) : queue'[w][k] = queue[w][k]
      /\ queue'[w][Len(queue'[w])] = Item(s, "command", Nowhere(s))
      /\ Fresh(s) => queue'[w][Len(queue[w]) + 1] = Item(s, "wait", workerEvent[First(s)])
  BY <1>1, VisitQueue
<1>3. PICK l \in Nat, l2 \in Nat : l = Len(queue[w]) /\ l2 = Len(queue'[w]) /\ DOMAIN queue'[w] = 1..l2
  <2>1. Len(queue[w]) \in Nat
    BY <1>2, LengthsOf DEF Lengths
  <2>2. queue'[w] \in Seq(ItemT)
    BY <1>2
  <2>3. Len(queue'[w]) \in Nat /\ DOMAIN queue'[w] = 1..Len(queue'[w])
    BY <2>2
  <2> QED BY <2>1, <2>3
<1>4. l2 = l + IF Fresh(s) THEN 2 ELSE 1
  BY <1>2, <1>3
<1>5. Item(s, "command", Nowhere(s)).kind = "command"
      /\ Item(s, "wait", workerEvent[First(s)]).point = workerEvent[First(s)]
  BY DEF Item
<1>6. Past(workerEvent[First(s)])
  BY Workers DEF PointsPast
<1>7. ASSUME NEW k \in DOMAIN queue'[w], k > l, queue'[w][k].kind = "wait"
      PROVE  Past(queue'[w][k].point)
  <2>1. k \in Nat /\ k <= l2 /\ k # l2
    <3>1. k \in Nat /\ k <= l2
      BY <1>3
    <3>2. queue'[w][l2].kind = "command"
      BY <1>2, <1>3, <1>5
    <3> QED BY <1>7, <3>1, <3>2
  <2>2. Fresh(s) /\ k = l + 1
    BY <1>4, <1>7, <2>1
  <2> QED BY <1>2, <1>3, <1>5, <1>6, <2>2
<1>8. l2 >= l
  BY <1>4
<1> QED BY <1>2, <1>3, <1>7, <1>8 DEF Puts

LEMMA BarrierPuts ==
  ASSUME TypeInv, NEW s \in Stream, Barrier(s)
  PROVE  Puts(First(s))
<1> DEFINE w == First(s)
<1>1. /\ queue' \in [Worker -> Seq(ItemT)] /\ \A v \in Worker \ {w} : queue'[v] = queue[v]
      /\ Len(queue'[w]) >= Len(queue[w])
      /\ \A k \in 1..Len(queue[w]) : queue'[w][k] = queue[w][k]
      /\ \A k \in DOMAIN queue'[w] : k > Len(queue[w]) =>
           \E i \in Others(s) : queue'[w][k].point = Here(<<s, i>>)
  BY BarrierQueue
<1>2. \A i \in Others(s) : Past(Here(<<s, i>>))
  <2>1. \A i \in Others(s) : <<s, i>> \in Worker /\ Len(queue[<<s, i>>]) \in Nat
    <3>1. \A i \in Others(s) : i \in 0..(Backed - 1)
      BY BackedAssumption DEF TypeInv, Others
    <3>2. \A i \in Others(s) : <<s, i>> \in Worker
      BY <3>1, Workers
    <3> QED BY <3>2, LengthsOf DEF Lengths
  <2> QED BY <2>1 DEF Past, Here, Point
<1> QED BY <1>1, <1>2 DEF Puts

\* Every step puts items into one CUDA stream or into none.
LEMMA StepPuts ==
  ASSUME TypeInv, PointsPast, Next
  PROVE  queue' = queue \/ \E w \in Worker : Puts(w)
<1>1. ASSUME NEW s \in Stream, NEW x, Adds(s, x), x.kind # "wait"
      PROVE  \E w \in Worker : Puts(w)
  BY <1>1, AddsPuts, Workers
<1>2. ASSUME NEW s \in Stream, NEW e \in Event, WaitEvent(s, e)
      PROVE  \E w \in Worker : Puts(w)
  <2>1. Past(event[e]) /\ Item(s, "wait", event[e]).point = event[e]
    BY DEF PointsPast, Item
  <2> QED BY <1>2, <2>1, WaitAdds, AddsPuts, Workers
<1>3. ASSUME NEW s \in Stream, DispatchFunction(s) \/ DispatchCallbacks(s)
      PROVE  queue' = queue \/ \E w \in Worker : Puts(w)
  <2>1. Item(s, "function", Nowhere(s)).kind # "wait" /\ Item(s, "recycle", Nowhere(s)).kind # "wait"
    BY DEF Item
  <2> QED BY <1>1, <1>3, <2>1, FunctionAdds, CallbacksAdd
<1>4. ASSUME NEW s \in Stream, BeginList(s) \/ Synchronize(s) \/ Synchronized(s) \/ \E e \in Event : SignalEvent(s, e)
      PROVE  queue' = queue
  BY <1>4 DEF BeginList, Synchronize, Synchronized, SignalEvent, device
<1>5. ASSUME NEW w \in Worker, Execute(w) PROVE queue' = queue
  BY <1>5 DEF Execute
<1>6. ASSUME NEW s \in Stream, Barrier(s) PROVE \E w \in Worker : Puts(w)
  BY <1>6, BarrierPuts, Workers
<1> QED BY <1>2, <1>3, <1>4, <1>5, <1>6, VisitPuts DEF Next, Call, Continue

LEMMA PointsKept ==
  ASSUME TypeInv, PointsPast, [Next]_vars
  PROVE  PointsPast'
<1>1. \A w \in Worker : Here(w) \in PointT /\ Past(Here(w))
  <2>1. \A w \in Worker : Len(queue[w]) \in Nat
    BY LengthsOf DEF Lengths
  <2> QED BY <2>1, NewPoints DEF Past, Here, Point
<1>2. CASE UNCHANGED vars
  BY <1>2 DEF vars, device, events, PointsPast, Past
<1>3. CASE Next
  <2>1. Extends
    BY <1>3, StepExtends
  <2>2. ASSUME NEW e \in Event PROVE event'[e].pos <= Len(queue'[event'[e].worker])
    <3>1. event'[e] = event[e] \/ \E w \in Worker : event'[e] = Here(w)
      <4>1. ASSUME NEW s \in Stream, NEW d \in Event, SignalEvent(s, d)
            PROVE  event'[e] = event[e] \/ \E w \in Worker : event'[e] = Here(w)
        BY <4>1, Workers DEF SignalEvent, TypeInv
      <4>2. CASE \A s \in Stream, d \in Event : ~SignalEvent(s, d)
        <5>1. event' = event
          BY <1>3, <4>2 DEF Next, Call, Continue, BeginList, DispatchFunction, Synchronize, Visit, WaitEvent,
                            Barrier, DispatchCallbacks, Synchronized, Execute, events
        <5> QED BY <5>1
      <4> QED BY <4>1, <4>2
    <3>2. PICK p \in PointT : p = event'[e] /\ Past(p)
      BY <1>1, <3>1, PointTypes DEF PointsPast
    <3> QED BY <2>1, <3>2, PastKept
  <2>3. ASSUME NEW w \in Worker PROVE workerEvent'[w].pos <= Len(queue'[workerEvent'[w].worker])
    <3>1. \/ workerEvent'[w] = workerEvent[w] \/ \E v \in Worker : workerEvent'[w] = Here(v)
          \/ workerEvent'[w] = Point(w, Len(queue'[w]), lists[w[1]])
      <4>1. ASSUME NEW s \in Stream, Barrier(s)
            PROVE  \/ workerEvent'[w] = workerEvent[w] \/ \E v \in Worker : workerEvent'[w] = Here(v)
                   \/ workerEvent'[w] = Point(w, Len(queue'[w]), lists[w[1]])
        BY <4>1, Workers DEF Barrier
      <4>2. CASE \A s \in Stream : ~Barrier(s)
        <5>1. workerEvent' = workerEvent
          BY <1>3, <4>2 DEF Next, Call, Continue, BeginList, DispatchFunction, Synchronize, Visit, WaitEvent,
                            SignalEvent, DispatchCallbacks, Synchronized, Execute, events
        <5> QED BY <5>1
      <4> QED BY <4>1, <4>2
    <3>2. CASE workerEvent'[w] = Point(w, Len(queue'[w]), lists[w[1]])
      <4>1. Len(queue'[w]) \in Nat
        BY <2>1 DEF Extends
      <4> QED BY <3>2, <4>1 DEF Point
    <3>3. CASE workerEvent'[w] = workerEvent[w] \/ \E v \in Worker : workerEvent'[w] = Here(v)
      <4>1. PICK p \in PointT : p = workerEvent'[w] /\ Past(p)
        BY <1>1, <3>3, PointTypes DEF PointsPast
      <4> QED BY <2>1, <4>1, PastKept
    <3> QED BY <3>1, <3>2, <3>3
  <2> QED BY <2>2, <2>3 DEF PointsPast, Past
<1> QED BY <1>2, <1>3

PutInOrder == PointsPast /\ ItemsNumbered

LEMMA PutInOrderInit == Init => PutInOrder
<1> SUFFICES ASSUME Init PROVE PutInOrder
  OBVIOUS
<1>1. \A w \in Worker : queue[w] = <<>>
  BY DEF Init
<1>2. PICK f : f = [x \in Worker \X Nat |-> 0]
  OBVIOUS
<1>3. f \in [Worker \X Nat -> Nat] /\ 0 \in Nat
  BY <1>2
<1>4. NumberedBy(f, 0)
  BY <1>1 DEF NumberedBy
<1>5. \A s \in Stream : Past(Nowhere(s))
  BY <1>1, Workers DEF Past, Nowhere, Point
<1>6. PointsPast
  BY <1>5, Workers DEF PointsPast, Init
<1> QED BY <1>3, <1>4, <1>6 DEF PutInOrder, ItemsNumbered

LEMMA PutInOrderStep ==
  ASSUME TypeInv, PutInOrder, [Next]_vars
  PROVE  PutInOrder'
<1>1. PointsPast'
  BY PointsKept DEF PutInOrder
<1>2. TypeInv'
  BY TypesKept
<1>3. queue' = queue \/ \E w \in Worker : Puts(w)
  BY StepPuts DEF PutInOrder, vars, device
<1>4. CASE queue' = queue
  <2>1. PICK f \in [Worker \X Nat -> Nat], n \in Nat : NumberedBy(f, n)
    BY DEF PutInOrder, ItemsNumbered
  <2>2. NumberedBy(f, n)'
    BY <1>4, <2>1, Zenon DEF NumberedBy, Past
  <2> QED BY <1>1, <2>2 DEF PutInOrder, ItemsNumbered
<1>5. CASE \E w \in Worker : Puts(w)
  BY <1>1, <1>2, <1>5, PutsNumbers DEF PutInOrder
<1> QED BY <1>3, <1>4, <1>5

\* Of the CUDA streams that wait, one waits for an item that was put in before
\* those the others have come to.
LEMMA SomeMayRun ==
  ASSUME TypeInv, ItemsNumbered, \A w \in Worker : ~MayRun(w)
  PROVE  \A w \in Worker : ~HasNext(w)
<1>1. PICK f \in [Worker \X Nat -> Nat], n \in Nat : NumberedBy(f, n)
  BY DEF ItemsNumbered
<1>2. \A w \in Worker, k \in Nat : f[<<w, k>>] \in Nat
  <2>1. \A w \in Worker, k \in Nat : <<w, k>> \in Worker \X Nat
    OBVIOUS
  <2> QED BY <2>1
<1>3. \A w \in Worker : done[w] \in Nat /\ done[w] + 1 \in Nat /\ Len(queue[w]) \in Nat /\ done[w] <= Len(queue[w])
  BY PointTypes DEF TypeInv
<1> DEFINE Stuck == {w \in Worker : HasNext(w)}
           Heads == {f[<<w, done[w] + 1>>] : w \in Stuck}
<1>4. SUFFICES ASSUME Stuck # {} PROVE FALSE
  OBVIOUS
<1>5. Heads \in SUBSET Nat /\ Heads # {}
  BY <1>2, <1>3, <1>4
<1>6. PICK m \in Heads : \A k \in Heads : ~(<<k, m>> \in OpToRel(<, Nat))
  BY <1>5, NatLessThanWellFounded, WFMin
<1>7. PICK w \in Stuck : m = f[<<w, done[w] + 1>>]
  OBVIOUS
<1>8. \A v \in Stuck : ~(f[<<v, done[v] + 1>>] < m)
  BY <1>5, <1>6 DEF OpToRel
<1>9. PICK k \in Nat : k = done[w] + 1
  BY <1>3
<1>10. w \in Worker /\ k \in DOMAIN queue[w]
  <2>1. w \in Worker /\ done[w] < Len(queue[w])
    BY DEF HasNext
  <2> QED BY <1>3, <1>9, <2>1, PointTypes
<1>11. PICK p \in PointT : p = queue[w][k].point /\ queue[w][k].kind = "wait" /\ ~Reached(p)
  <2>1. HasNext(w) /\ ~MayRun(w)
    BY <1>10
  <2>2. queue[w][k].kind = "wait" /\ ~Reached(queue[w][k].point)
    BY <1>9, <2>1 DEF MayRun, NextItem
  <2> QED BY <1>10, <2>2, Items
<1>12. PICK v \in Worker, i \in Nat : v = p.worker /\ i = p.pos
  BY DEF PointT
<1>13. i <= Len(queue[v]) /\ (i > 0 => f[<<v, i>>] < f[<<w, k>>])
  BY <1>1, <1>10, <1>11, <1>12 DEF NumberedBy, Past
<1>14. ~(done[v] >= i)
  BY <1>11, <1>12 DEF Reached
<1>15. i > 0 /\ done[v] < Len(queue[v])
  BY <1>3, <1>13, <1>14
<1>16. v \in Stuck
  BY <1>15 DEF HasNext
<1>17. PICK d \in Nat : d = done[v] + 1
  BY <1>3
<1>18. d <= i /\ d \in DOMAIN queue[v] /\ i \in DOMAIN queue[v]
  <2>1. d <= i /\ d >= 1 /\ d <= Len(queue[v])
    BY <1>3, <1>13, <1>14, <1>15, <1>17
  <2> QED BY <1>13, <1>15, <2>1, PointTypes
<1>19. f[<<v, d>>] <= f[<<v, i>>]
  <2>1. CASE d = i
    BY <1>2, <2>1
  <2>2. CASE d < i
    <3>1. f[<<v, d>>] < f[<<v, i>>]
      BY <1>1, <1>18, <2>2 DEF NumberedBy
    <3> QED BY <1>2, <3>1
  <2> QED BY <1>18, <2>1, <2>2
<1>20. f[<<v, d>>] < f[<<w, k>>]
  BY <1>2, <1>10, <1>13, <1>15, <1>19
<1> QED BY <1>7, <1>8, <1>9, <1>16, <1>17, <1>20

\* Streams that signal and wait for each other in any order never block one
\* another for ever: the device can go on until all has run, then synchronize()
\* can return and every list of callbacks has been taken.
THEOREM DeviceGoesOn == Spec => []NeverStuck
<1>1. TypeInv /\ StagingInv /\ PutInOrder => NeverStuck
  <2> SUFFICES ASSUME TypeInv, StagingInv, PutInOrder, \A w \in Worker : ~MayRun(w)
               PROVE  /\ \A w \in Worker : ~HasNext(w)
                      /\ \A s \in Stream : pc[s] = "synchronize" => Reached(Here(First(s)))
                      /\ \A s \in Stream : callbackLists[s] = <<>>
    BY DEF NeverStuck
  <2>1. \A w \in Worker : ~HasNext(w)
    BY SomeMayRun DEF PutInOrder
  <2>2. ASSUME NEW s \in Stream PROVE done[First(s)] = Len(queue[First(s)])
    <3>1. First(s) \in Worker /\ ~HasNext(First(s))
      BY <2>1, Workers
    <3>2. /\ done[First(s)] \in Nat /\ Len(queue[First(s)]) \in Nat /\ done[First(s)] <= Len(queue[First(s)])
      BY <3>1, PointTypes DEF TypeInv
    <3> QED BY <3>1, <3>2 DEF HasNext
  <2>3. \A s \in Stream : Reached(Here(First(s)))
    <3>1. \A s \in Stream : Len(queue[First(s)]) \in Nat
      BY Workers, PointTypes
    <3> QED BY <2>2, <3>1 DEF Reached, Here, Point
  <2>4. ASSUME NEW s \in Stream PROVE callbackLists[s] = <<>>
    <3>1. PICK f \in [DOMAIN callbackLists[s] -> DOMAIN queue[First(s)]] : Marks(s, f)
      BY DEF StagingInv
    <3>2. \A i \in DOMAIN callbackLists[s] : f[i] \in DOMAIN queue[First(s)] /\ f[i] > done[First(s)]
      BY <3>1 DEF Marks
    <3>3. DOMAIN queue[First(s)] = 1..Len(queue[First(s)]) /\ Len(queue[First(s)]) \in Nat
      BY Workers, PointTypes
    <3>4. \A i \in DOMAIN callbackLists[s] : FALSE
      BY <2>2, <3>2, <3>3
    <3>5. callbackLists[s] \in Seq(SUBSET PointT)
      BY DEF StagingInv, StagingTypes
    <3> QED BY <3>4, <3>5
  <2> QED BY <2>1, <2>3, <2>4
<1>2. IInv /\ PutInOrder /\ [Next]_vars => PutInOrder'
  BY PutInOrderStep DEF IInv
<1>3. IInv /\ PutInOrder => NeverStuck
  BY <1>1 DEF IInv
<1> QED BY <1>2, <1>3, PutInOrderInit, IInvAlways, PTL DEF Spec

=============================================================================
