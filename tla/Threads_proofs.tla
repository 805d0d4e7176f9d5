--------------------------- MODULE Threads_proofs ---------------------------
(***************************************************************************)
(* Proofs about ThreadPool, for any number of workers and hosts, and about *)
(* the PoolBarrier under it, for any number of threads.                    *)
(*                                                                         *)
(* ThreadPool.  CallInv says what has become of each operation: where its  *)
(* copies are, which of its calls have begun and ended and which worker is *)
(* at each, and that the count is that of the operations counted and not   *)
(* uncounted.  The queue is first in, first out, so that a copy in a       *)
(* worker's hands was not pushed after one in the queue.                   *)
(*                                                                         *)
(* FenceInv adds the barriers.  While a fence is open its copies in the    *)
(* queue and the workers held at it are N together; so a worker that is    *)
(* past it, or the last one to come to the barrier, finds no call of an    *)
(* older operation left.  This needs that one host at a time is in         *)
(* synchronize() (OneSynchronizer): _synchronize_barrier is made for the   *)
(* workers and one thread.                                                 *)
(*                                                                         *)
(* PoolBarrier.  As long as the phase does not wrap around it is the       *)
(* number of rounds that are over.  Every thread has come to all of them,  *)
(* and perhaps to the round at hand; the counter is the number of threads  *)
(* that have yet to come to it.  A thread that is not back from the last   *)
(* round has been woken.                                                   *)
(***************************************************************************)
EXTENDS MCThreads, FiniteSetTheorems, TLAPS

-----------------------------------------------------------------------------
(***************************************************************************)
(* ThreadPool: the calls of the operations                                 *)
(***************************************************************************)
\* The copies of operation k that are in the queue, the workers at the calls of
\* k, and the calls of k that are not f(i) for an i below n.
Places(s, k) == {i \in 1..Len(s) : s[i] = k}
CopiesOf(k) == Places(tasks, k)
DrawersOf(k) == {w \in Worker : wpc[w] \in {"draw", "calling"} /\ cur[w] = k}
Extra(k) == IF drawn[k] > ops[k].n THEN drawn[k] - ops[k].n ELSE 0

Pushing == {h \in Host : hpc[h] = "push"}
Outstanding == {k \in OpId : Counted(ops[k]) /\ ~Uncounted(k)}

Typed ==
  /\ ops \in Seq(Operation) /\ tasks \in Seq(OpId) /\ stop \in BOOLEAN
  /\ taskCount \in 0..(CountSize - 1)
  /\ drawn \in [OpId -> 0..(CountSize - 1)]
  /\ begun \in [OpId -> SUBSET Nat] /\ ended \in [OpId -> SUBSET Nat]
  /\ arrivals \in [Barriers -> [counter : Int, phase : Nat]]
  /\ \A b \in Barriers : arrivals[b].counter \in 1..Expected(b)
  /\ phaseOf \in [Worker \cup Host -> Nat]
  /\ wpc \in [Worker -> {"loop", "blocked", "calling", "draw", "uncount", "arrive", "held",
                         "exited"}]
  /\ cur \in [Worker -> 0..Len(ops)] /\ idx \in [Worker -> 0..(CountSize - 1)]
  /\ hpc \in [Host -> {"idle", "push", "notify", "arrive", "held", "stop", "join",
                       "destroyed"}]
  /\ hop \in [Host -> Operation] /\ mark \in [Host -> 0..Len(ops)]
  /\ IsFiniteSet(Pushing) /\ Len(ops) + Pending <= MaxOps

\* Where the threads stand fits the operations they are at.
Placed ==
  /\ \A w \in Worker :
       /\ wpc[w] \in {"calling", "draw", "uncount", "arrive", "held"} => cur[w] \in OpId
       /\ wpc[w] = "draw" => ops[cur[w]].kind = "parallel"
       /\ wpc[w] \in {"calling", "uncount"} => Counted(ops[cur[w]])
       /\ wpc[w] \in {"arrive", "held"} => ops[cur[w]].kind \in Barriers
  /\ \A h \in Host :
       /\ hpc[h] = "push" => Counted(hop[h])
       /\ hpc[h] \in {"notify", "arrive", "held"} => mark[h] \in OpId
       /\ hpc[h] \in {"arrive", "held"} => ops[mark[h]].kind = "synchronize"
       /\ hpc[h] = "notify" /\ ops[mark[h]].kind = "synchronize" => h \in SyncHost
       /\ hpc[h] \in {"arrive", "held"} => h \in SyncHost

\* The queue is first in, first out: what is taken was not pushed after what is
\* still in it.
Fifo ==
  /\ \A i, j \in 1..Len(tasks) : i <= j => tasks[i] <= tasks[j]
  /\ \A w \in Worker, i \in 1..Len(tasks) : cur[w] <= tasks[i]

\* What the calls of operation k have come to.
Begun(k) ==
  /\ ops[k].kind = "parallel" => begun[k] = {i \in Indices(k) : i < drawn[k]}
  /\ ops[k].kind = "async" => begun[k] \subseteq {0} /\ (begun[k] = {} <=> CopiesOf(k) # {})
  /\ ops[k].kind \in Barriers => begun[k] = {}
  /\ ended[k] \subseteq begun[k]

\* A task of an async is not in the queue twice.
OnlyCopy ==
  \A i, j \in 1..Len(tasks) : tasks[i] = tasks[j] /\ ops[tasks[i]].kind = "async" => i = j

\* A call that has begun and not ended is that of one worker.
Calls ==
  /\ \A w \in Worker : wpc[w] = "calling" => idx[w] \in begun[cur[w]] \ ended[cur[w]]
  /\ \A v, w \in Worker :
       wpc[v] = "calling" /\ wpc[w] = "calling" /\ cur[v] = cur[w] /\ idx[v] = idx[w] => v = w
  /\ \A k \in OpId : \A i \in begun[k] \ ended[k] :
       \E w \in Worker : wpc[w] = "calling" /\ cur[w] = k /\ idx[w] = i

\* While indices are left there is a copy to draw them; each copy draws one
\* index too many at most, and the counter does not wrap around.
Draws ==
  \A k \in OpId :
    ops[k].kind = "parallel" =>
      /\ drawn[k] < ops[k].n => CopiesOf(k) # {} \/ DrawersOf(k) # {}
      /\ Cardinality(CopiesOf(k)) + Cardinality(DrawersOf(k)) + Extra(k) <= N

\* Who is about to lower the count is the only one, and has reason to.
Uncounts ==
  /\ \A w \in Worker : wpc[w] = "uncount" =>
       IF ops[cur[w]].kind = "async" THEN Done(cur[w]) ELSE drawn[cur[w]] > ops[cur[w]].n
  /\ \A v, w \in Worker : wpc[v] = "uncount" /\ wpc[w] = "uncount" /\ cur[v] = cur[w] => v = w

\* The destructor waits for the queue.
Stopping ==
  /\ stop => \A h \in Host : hpc[h] \in {"idle", "stop", "join", "destroyed"}
  /\ \A w \in Worker : wpc[w] = "exited" => stop /\ tasks = <<>>
  /\ \A h \in Host : hpc[h] \in {"stop", "join", "destroyed"} => stop
  /\ \A h \in Host : hpc[h] = "destroyed" => \A w \in Worker : wpc[w] = "exited"

CallsRight ==
  /\ Fifo /\ \A k \in OpId : Begun(k)
  /\ OnlyCopy /\ Calls /\ Draws /\ Uncounts
  /\ taskCount = Pending + Cardinality(Outstanding)

CallInv == Typed /\ Placed /\ CallsRight /\ Stopping

-----------------------------------------------------------------------------
LEMMA WorkersCounted == N \in Nat \ {0}
<1>1. N \in Nat /\ (N = 0 <=> Worker = {})
  BY WorkerAssumption, FS_CardinalityType, FS_EmptySet DEF N
<1> QED
  BY <1>1, WorkerAssumption

LEMMA NoWraparound ==
  ASSUME NEW m \in Nat, NEW n \in Nat, m < n
  PROVE  m % n = m
OBVIOUS

\* A set of workers that loses or gains one.
LEMMA WorkerCount ==
  ASSUME NEW S \in SUBSET Worker
  PROVE  /\ IsFiniteSet(S) /\ Cardinality(S) \in Nat /\ Cardinality(S) <= N
         /\ Cardinality(S) = N => S = Worker
         /\ Cardinality(S) = 0 <=> S = {}
<1>1. IsFiniteSet(S) /\ Cardinality(S) \in Nat /\ Cardinality(S) <= N
  BY WorkerAssumption, FS_Subset, FS_CardinalityType DEF N
<1>2. Cardinality(S) = N => S = Worker
  BY WorkerAssumption, FS_Subset DEF N
<1>3. Cardinality(S) = 0 <=> S = {}
  BY <1>1, FS_EmptySet
<1> QED
  BY <1>1, <1>2, <1>3

LEMMA PlacesFinite ==
  ASSUME NEW T, NEW s \in Seq(T), NEW k
  PROVE  /\ IsFiniteSet(Places(s, k)) /\ Cardinality(Places(s, k)) \in Nat
         /\ Cardinality(Places(s, k)) = 0 <=> Places(s, k) = {}
<1>1. Len(s) \in Nat
  OBVIOUS
<1>2. 1 \in Int /\ Len(s) \in Int
  BY <1>1
<1>3. IsFiniteSet(1..Len(s))
  BY <1>2, FS_Interval, Zenon
<1>4. Places(s, k) \in SUBSET (1..Len(s))
  BY DEF Places
<1>5. IsFiniteSet(Places(s, k))
  BY <1>3, <1>4, FS_Subset
<1> QED
  BY <1>5, FS_CardinalityType, FS_EmptySet

\* The first element of a sequence is taken out.
LEMMA PlacesInTail ==
  ASSUME NEW T, NEW s \in Seq(T), s # <<>>, NEW k
  PROVE  Cardinality(Places(Tail(s), k)) =
           IF s[1] = k THEN Cardinality(Places(s, k)) - 1 ELSE Cardinality(Places(s, k))
<1> DEFINE A == Places(Tail(s), k)
           B == Places(s, k) \ {1}
           f == [i \in A |-> i + 1]
<1>1. /\ Tail(s) \in Seq(T) /\ Len(s) \in Nat \ {0} /\ Len(Tail(s)) = Len(s) - 1
      /\ \A i \in 1..Len(Tail(s)) : Tail(s)[i] = s[i + 1]
  OBVIOUS
<1>2. A \subseteq Nat /\ \A i \in A : i + 1 \in B
  BY <1>1 DEF Places
<1>3. \A j \in B : j - 1 \in A /\ (j - 1) + 1 = j
  BY <1>1 DEF Places
<1>4. f \in [A -> B]
  BY <1>2
<1>5. ASSUME NEW i \in A, NEW j \in A, f[i] = f[j]
      PROVE  i = j
  BY <1>5, <1>2
<1>6. ASSUME NEW j \in B
      PROVE  \E i \in A : f[i] = j
  <2>1. j - 1 \in A /\ (j - 1) + 1 = j
    BY <1>3
  <2>2. f[j - 1] = j
    BY <2>1
  <2> QED
    BY <2>1, <2>2
<1> HIDE DEF A, B, f
<1>7. f \in Bijection(A, B)
  BY <1>4, <1>5, <1>6 DEF Bijection, Injection, IsInjective, Surjection
<1>8. ExistsBijection(A, B)
  BY <1>7 DEF ExistsBijection
<1>9. IsFiniteSet(A)
  BY <1>1, PlacesFinite DEF A
<1>10. Cardinality(B) = Cardinality(A)
  BY <1>8, <1>9, FS_Bijection
<1>11. IsFiniteSet(Places(s, k))
  BY PlacesFinite
<1>12. 1 \in Places(s, k) <=> s[1] = k
  BY <1>1 DEF Places
<1>13. Cardinality(B) = IF 1 \in Places(s, k) THEN Cardinality(Places(s, k)) - 1
                        ELSE Cardinality(Places(s, k))
  BY <1>11, FS_RemoveElement DEF B
<1> QED
  BY <1>10, <1>12, <1>13 DEF A

\* A sequence is extended: without k, or, when k was not in it, with k alone.
LEMMA PlacesExtended ==
  ASSUME NEW s, NEW t, NEW k, Len(s) \in Nat, Len(t) \in Nat, Len(s) <= Len(t),
         \A i \in 1..Len(s) : t[i] = s[i]
  PROVE  /\ (\A i \in 1..Len(t) : i > Len(s) => t[i] # k) => Places(t, k) = Places(s, k)
         /\ (\A i \in 1..Len(t) : i > Len(s) => t[i] = k) /\ Places(s, k) = {}
              => Cardinality(Places(t, k)) = Len(t) - Len(s)
<1>4. ASSUME \A i \in 1..Len(t) : i > Len(s) => t[i] # k
      PROVE  Places(t, k) = Places(s, k)
  BY <1>4 DEF Places
<1>5. ASSUME \A i \in 1..Len(t) : i > Len(s) => t[i] = k, Places(s, k) = {}
      PROVE  Cardinality(Places(t, k)) = Len(t) - Len(s)
  <2>1. Places(t, k) = (Len(s) + 1)..Len(t)
    BY <1>5 DEF Places
  <2>2. Len(s) + 1 \in Int /\ Len(t) \in Int
    OBVIOUS
  <2>3. Cardinality((Len(s) + 1)..Len(t)) =
          IF Len(s) + 1 > Len(t) THEN 0 ELSE Len(t) - (Len(s) + 1) + 1
    BY <2>2, FS_Interval, Zenon
  <2> QED
    BY <2>1, <2>3
<1> QED
  BY <1>4, <1>5

-----------------------------------------------------------------------------
LEMMA OperationFacts ==
  /\ Operation # {}
  /\ \A op \in Operation :
       /\ op.kind \in {"async", "parallel"} \cup Barriers
       /\ op.n \in Nat
       /\ op.kind = "async" => op.n = 1
       /\ op.kind = "parallel" => op.n \in Nat \ {0} /\ op.n + N < CountSize
       /\ op.kind \in Barriers => op.n = 0
       /\ Copies(op) \in Nat \ {0} /\ Copies(op) <= N
       /\ op.kind = "async" => Copies(op) = 1
       /\ op.kind \in Barriers => Copies(op) = N
  /\ \A b \in Barriers : Op(b, 0) \in Operation /\ Op(b, 0).kind = b
  /\ NoOp \in Operation
<1>1. \A b \in Barriers : Op(b, 0) \in Operation /\ Op(b, 0).kind = b
  BY DEF Operation, Op, Barriers
<1>2. NoOp \in Operation
  BY <1>1 DEF NoOp, Barriers
<1>3. ASSUME NEW op \in Operation
      PROVE  /\ op.kind \in {"async", "parallel"} \cup Barriers
             /\ op.n \in Nat
             /\ op.kind = "async" => op.n = 1
             /\ op.kind = "parallel" => op.n \in Nat \ {0} /\ op.n + N < CountSize
             /\ op.kind \in Barriers => op.n = 0
  <2>1. \A n \in Sizes : n \in Nat \ {0} /\ n + N < CountSize
    BY SizeAssumption DEF N
  <2>2. \/ op.kind = "async" /\ op.n = 1
        \/ op.kind = "parallel" /\ op.n \in Sizes
        \/ op.kind \in Barriers /\ op.n = 0
    BY DEF Operation
  <2>3. "async" \notin Barriers /\ "parallel" \notin Barriers
    BY DEF Barriers
  <2> QED
    BY <2>1, <2>2, <2>3
<1>4. ASSUME NEW op \in Operation
      PROVE  /\ Copies(op) \in Nat \ {0} /\ Copies(op) <= N
             /\ op.kind = "async" => Copies(op) = 1
             /\ op.kind \in Barriers => Copies(op) = N
  BY <1>3, WorkersCounted DEF Copies, Smaller, Barriers
<1> QED
  BY <1>1, <1>2, <1>3, <1>4

LEMMA KindsApart ==
  /\ "async" \notin Barriers /\ "parallel" \notin Barriers /\ "async" # "parallel"
  /\ "barrier" \in Barriers /\ "synchronize" \in Barriers
  /\ "barrier" # "synchronize" /\ "async" # "barrier" /\ "async" # "synchronize"
  /\ \A op : Counted(op) <=> op.kind = "async" \/ op.kind = "parallel"
  /\ \A b \in Barriers : b = "barrier" \/ b = "synchronize"
BY DEF Barriers, Counted

\* The calls under way, when one host goes from one place to another.
LEMMA PendingCount ==
  ASSUME hpc \in [Host -> {"idle", "push", "notify", "arrive", "held", "stop", "join",
                           "destroyed"}],
         IsFiniteSet(Pushing), NEW h \in Host, NEW to, hpc' = [hpc EXCEPT ![h] = to]
  PROVE  /\ IsFiniteSet(Pushing')
         /\ Pending \in Nat /\ Pending' \in Nat
         /\ hpc[h] # "push" /\ to = "push" => Pending' = Pending + 1
         /\ hpc[h] = "push" /\ to # "push" => Pending' = Pending - 1
         /\ hpc[h] # "push" /\ to # "push" => Pending' = Pending
<1>1. Pending = Cardinality(Pushing) /\ Pending' = Cardinality(Pushing')
  BY DEF Pending, Pushing
<1>2. Cardinality(Pushing) \in Nat
  BY FS_CardinalityType
<1>3. h \in Pushing <=> hpc[h] = "push"
  BY DEF Pushing
<1>4. CASE to = "push"
  <2>1. Pushing' = Pushing \cup {h}
    BY <1>4 DEF Pushing
  <2>2. IsFiniteSet(Pushing') /\ Cardinality(Pushing')
           = IF h \in Pushing THEN Cardinality(Pushing) ELSE Cardinality(Pushing) + 1
    BY <2>1, FS_AddElement
  <2> QED
    BY <1>1, <1>2, <1>3, <1>4, <2>2
<1>5. CASE to # "push"
  <2>1. Pushing' = Pushing \ {h}
    BY <1>5 DEF Pushing
  <2>2. IsFiniteSet(Pushing') /\ Cardinality(Pushing')
           = IF h \in Pushing THEN Cardinality(Pushing) - 1 ELSE Cardinality(Pushing)
    BY <2>1, FS_RemoveElement
  <2>3. Cardinality(Pushing') \in Nat
    BY <2>2, FS_CardinalityType
  <2> QED
    BY <1>1, <1>2, <1>3, <1>5, <2>2, <2>3
<1> QED
  BY <1>4, <1>5

LEMMA ArriveTyped ==
  ASSUME Typed, NEW p \in Worker \cup Host, NEW b \in Barriers, Arrive(p, b)
  PROVE  /\ phaseOf' \in [Worker \cup Host -> Nat]
         /\ phaseOf' = [phaseOf EXCEPT ![p] = arrivals[b].phase]
         /\ arrivals' \in [Barriers -> [counter : Int, phase : Nat]]
         /\ \A c \in Barriers : arrivals'[c].counter \in 1..Expected(c)
         /\ \A c \in Barriers \ {b} : arrivals'[c] = arrivals[c]
         /\ arrivals[b].counter = 1 =>
              arrivals'[b] = [counter |-> Expected(b), phase |-> arrivals[b].phase + 1]
         /\ arrivals[b].counter # 1 =>
              arrivals'[b] = [counter |-> arrivals[b].counter - 1, phase |-> arrivals[b].phase]
<1>1. /\ phaseOf \in [Worker \cup Host -> Nat]
      /\ arrivals \in [Barriers -> [counter : Int, phase : Nat]]
      /\ \A c \in Barriers : arrivals[c].counter \in 1..Expected(c)
  BY DEF Typed
<1>2. \A c \in Barriers : Expected(c) \in Nat \ {0}
  BY WorkersCounted DEF Expected
<1>3. /\ arrivals[b].counter \in Int /\ arrivals[b].phase \in Nat
      /\ arrivals[b].counter \in 1..Expected(b)
  BY <1>1
<1>4. /\ phaseOf' = [phaseOf EXCEPT ![p] = arrivals[b].phase]
      /\ arrivals' = [arrivals EXCEPT ![b] =
           IF arrivals[b].counter = 1
           THEN [counter |-> Expected(b), phase |-> arrivals[b].phase + 1]
           ELSE [counter |-> arrivals[b].counter - 1, phase |-> arrivals[b].phase]]
  BY DEF Arrive
<1>5. phaseOf' \in [Worker \cup Host -> Nat]
  BY <1>1, <1>3, <1>4
<1>6. \A c \in Barriers \ {b} : arrivals'[c] = arrivals[c]
  BY <1>1, <1>4
<1>7. CASE arrivals[b].counter = 1
  <2>1. arrivals'[b] = [counter |-> Expected(b), phase |-> arrivals[b].phase + 1]
    BY <1>1, <1>4, <1>7
  <2>2. arrivals' \in [Barriers -> [counter : Int, phase : Nat]]
    BY <1>1, <1>2, <1>3, <1>4, <1>7
  <2>3. \A c \in Barriers : arrivals'[c].counter \in 1..Expected(c)
    BY <1>1, <1>2, <1>6, <2>1
  <2> QED
    BY <1>4, <1>5, <1>6, <1>7, <2>1, <2>2, <2>3
<1>8. CASE arrivals[b].counter # 1
  <2>1. arrivals'[b] = [counter |-> arrivals[b].counter - 1, phase |-> arrivals[b].phase]
    BY <1>1, <1>4, <1>8
  <2>2. arrivals' \in [Barriers -> [counter : Int, phase : Nat]]
    BY <1>1, <1>2, <1>3, <1>4, <1>8
  <2>3. \A c \in Barriers : arrivals'[c].counter \in 1..Expected(c)
    BY <1>1, <1>2, <1>3, <1>6, <1>8, <2>1
  <2> QED
    BY <1>4, <1>5, <1>6, <1>8, <2>1, <2>2, <2>3
<1> QED
  BY <1>7, <1>8

LEMMA OpIdFacts ==
  ASSUME Typed
  PROVE  /\ Len(ops) \in Nat /\ OpId = 1..Len(ops) /\ Len(ops) + 1 \notin OpId
         /\ Len(tasks) \in Nat
         /\ \A k \in OpId : ops[k] \in Operation
         /\ \A i \in 1..Len(tasks) : tasks[i] \in OpId
BY DEF Typed, OpId

\* A function on the operations, with a value for one more.
LEMMA AppendValue ==
  ASSUME NEW S, NEW n \in Nat, NEW f, NEW x, f \in [1..n -> S], x \in S
  PROVE  /\ Append(f, x) \in [1..(n + 1) -> S]
         /\ Append(f, x)[n + 1] = x /\ \A k \in 1..n : Append(f, x)[k] = f[k]
<1> DEFINE g == Append(f, x)
<1>1. f \in Seq(S) /\ Len(f) = n
  OBVIOUS
<1>2. g \in Seq(S) /\ Len(g) = n + 1
  BY <1>1
<1>3. g[n + 1] = x /\ \A k \in 1..n : g[k] = f[k]
  BY <1>1
<1>4. \A s \in Seq(S) : s \in [1..Len(s) -> S]
  OBVIOUS
<1>5. g \in [1..Len(g) -> S]
  BY <1>2, <1>4
<1> QED
  BY <1>2, <1>3, <1>5

LEMMA PushEffect ==
  ASSUME Typed, NEW h \in Host, NEW op \in Operation, PushOp(h, op)
  PROVE  LET m == Len(ops) + 1
         IN /\ ops' \in Seq(Operation) /\ Len(ops') = m
            /\ OpId' = 1..m /\ m \in Nat \ {0}
            /\ ops'[m] = op /\ \A k \in OpId : ops'[k] = ops[k]
            /\ tasks' \in Seq(1..m) /\ Len(tasks') = Len(tasks) + Copies(op)
            /\ \A i \in 1..Len(tasks) : tasks'[i] = tasks[i]
            /\ \A i \in 1..Len(tasks') : i > Len(tasks) => tasks'[i] = m
            /\ drawn' \in [1..m -> 0..(CountSize - 1)] /\ drawn'[m] = 0
            /\ \A k \in OpId : drawn'[k] = drawn[k]
            /\ begun' \in [1..m -> SUBSET Nat] /\ begun'[m] = {}
            /\ \A k \in OpId : begun'[k] = begun[k]
            /\ ended' \in [1..m -> SUBSET Nat] /\ ended'[m] = {}
            /\ \A k \in OpId : ended'[k] = ended[k]
<1> DEFINE m == Len(ops) + 1
           c == Copies(op)
           u == [i \in 1..c |-> m]
<1>1. /\ Len(ops) \in Nat /\ OpId = 1..Len(ops) /\ ops \in Seq(Operation)
      /\ tasks \in Seq(OpId) /\ c \in Nat \ {0}
  BY OpIdFacts, OperationFacts DEF Typed
<1>2. /\ ops' = Append(ops, op)
      /\ tasks' = tasks \o u
      /\ drawn' = Append(drawn, 0) /\ begun' = Append(begun, {}) /\ ended' = Append(ended, {})
  BY DEF PushOp
<1>3. /\ ops' \in Seq(Operation) /\ Len(ops') = m /\ OpId' = 1..m /\ m \in Nat \ {0}
      /\ ops'[m] = op /\ \A k \in OpId : ops'[k] = ops[k]
  BY <1>1, <1>2 DEF OpId
<1>4. u \in Seq(1..m) /\ Len(u) = c /\ \A i \in 1..c : u[i] = m
  BY <1>1
<1>5. tasks \in Seq(1..m)
  BY <1>1
<1> HIDE DEF u, c
<1>6. tasks' \in Seq(1..m) /\ Len(tasks') = Len(tasks) + c /\ Len(tasks) \in Nat
  <2>1. ASSUME NEW T, NEW s \in Seq(T), NEW t \in Seq(T)
        PROVE  s \o t \in Seq(T) /\ Len(s \o t) = Len(s) + Len(t) /\ Len(s) \in Nat
    OBVIOUS
  <2> HIDE DEF m
  <2> QED
    BY <1>2, <1>4, <1>5, <2>1
<1>7. \A i \in 1..Len(tasks) : tasks'[i] = tasks[i]
  BY <1>2, <1>4, <1>5
<1>8. ASSUME NEW i \in 1..Len(tasks'), i > Len(tasks)
      PROVE  tasks'[i] = m
  <2>1. tasks'[i] = u[i - Len(tasks)]
    BY <1>2, <1>4, <1>5, <1>6, <1>8
  <2>2. i - Len(tasks) \in 1..c
    BY <1>1, <1>6, <1>8
  <2> QED
    BY <2>1, <2>2, <1>4
<1>9. /\ drawn' \in [1..m -> 0..(CountSize - 1)] /\ drawn'[m] = 0
      /\ \A k \in OpId : drawn'[k] = drawn[k]
  <2>1. drawn \in [1..Len(ops) -> 0..(CountSize - 1)] /\ 0 \in 0..(CountSize - 1)
    BY <1>1, SizeAssumption DEF Typed
  <2>2. Len(ops) \in Nat
    BY <1>1
  <2>3. drawn' = Append(drawn, 0)
    BY <1>2
  <2>4. drawn' \in [1..(Len(ops) + 1) -> 0..(CountSize - 1)]
    BY <2>1, <2>2, <2>3, AppendValue
  <2>5. drawn'[Len(ops) + 1] = 0
    BY <2>1, <2>2, <2>3, AppendValue
  <2>6. \A k \in 1..Len(ops) : drawn'[k] = drawn[k]
    BY <2>1, <2>2, <2>3, AppendValue
  <2> QED
    BY <1>1, <2>4, <2>5, <2>6
<1>10. /\ begun' \in [1..m -> SUBSET Nat] /\ begun'[m] = {}
       /\ \A k \in OpId : begun'[k] = begun[k]
  <2>1. begun \in [1..Len(ops) -> SUBSET Nat] /\ {} \in SUBSET Nat
    BY <1>1 DEF Typed
  <2>2. Len(ops) \in Nat
    BY <1>1
  <2>3. begun' = Append(begun, {})
    BY <1>2
  <2>4. begun' \in [1..(Len(ops) + 1) -> SUBSET Nat]
    BY <2>1, <2>2, <2>3, AppendValue
  <2>5. begun'[Len(ops) + 1] = {}
    BY <2>1, <2>2, <2>3, AppendValue
  <2>6. \A k \in 1..Len(ops) : begun'[k] = begun[k]
    BY <2>1, <2>2, <2>3, AppendValue
  <2> QED
    BY <1>1, <2>4, <2>5, <2>6
<1>11. /\ ended' \in [1..m -> SUBSET Nat] /\ ended'[m] = {}
       /\ \A k \in OpId : ended'[k] = ended[k]
  <2>1. ended \in [1..Len(ops) -> SUBSET Nat] /\ {} \in SUBSET Nat
    BY <1>1 DEF Typed
  <2>2. Len(ops) \in Nat
    BY <1>1
  <2>3. ended' = Append(ended, {})
    BY <1>2
  <2>4. ended' \in [1..(Len(ops) + 1) -> SUBSET Nat]
    BY <2>1, <2>2, <2>3, AppendValue
  <2>5. ended'[Len(ops) + 1] = {}
    BY <2>1, <2>2, <2>3, AppendValue
  <2>6. \A k \in 1..Len(ops) : ended'[k] = ended[k]
    BY <2>1, <2>2, <2>3, AppendValue
  <2> QED
    BY <1>1, <2>4, <2>5, <2>6
<1> QED
  BY <1>3, <1>6, <1>7, <1>8, <1>9, <1>10, <1>11 DEF c

\* The new operation has its copies; the others keep theirs.
LEMMA PushCopies ==
  ASSUME Typed, NEW h \in Host, NEW op \in Operation, PushOp(h, op),
         NEW m, m = Len(ops) + 1
  PROVE  /\ \A k \in OpId : CopiesOf(k)' = CopiesOf(k)
         /\ Cardinality(CopiesOf(m)') = Copies(op)
         /\ CopiesOf(m)' # {}
<1>1. /\ Len(ops) \in Nat /\ OpId = 1..Len(ops) /\ tasks \in Seq(OpId)
      /\ Copies(op) \in Nat \ {0}
      /\ \A i \in 1..Len(tasks) : tasks[i] \in OpId
  BY OpIdFacts, OperationFacts DEF Typed
<1>2. /\ Len(tasks) \in Nat /\ Len(tasks') = Len(tasks) + Copies(op)
      /\ \A i \in 1..Len(tasks) : tasks'[i] = tasks[i]
      /\ \A i \in 1..Len(tasks') : i > Len(tasks) => tasks'[i] = m
  BY PushEffect, OpIdFacts
<1>3. Copies(op) \in Nat
  BY <1>1
<1>4. Places(tasks, m) = {}
  BY <1>1 DEF Places
<1>5. ASSUME NEW k, k # m
      PROVE  Places(tasks', k) = Places(tasks, k)
  <2>1. Len(tasks') \in Nat /\ Len(tasks) <= Len(tasks')
    BY <1>2, <1>3
  <2>2. \A i \in 1..Len(tasks') : i > Len(tasks) => tasks'[i] # k
    BY <1>2, <1>5
  <2> QED
    BY <1>2, <2>1, <2>2, PlacesExtended
<1>9. Cardinality(Places(tasks', m)) = Copies(op)
  <2>1. Len(tasks') \in Nat /\ Len(tasks) <= Len(tasks')
    BY <1>2, <1>3
  <2>2. Cardinality(Places(tasks', m)) = Len(tasks') - Len(tasks)
    BY <1>2, <1>4, <2>1, PlacesExtended
  <2> QED
    BY <1>2, <1>3, <2>2
<1>6. \A k \in OpId : CopiesOf(k)' = CopiesOf(k)
  BY <1>1, <1>5 DEF CopiesOf
<1>7. Cardinality(CopiesOf(m)') = Copies(op)
  BY <1>9 DEF CopiesOf
<1>8. CopiesOf(m)' # {}
  BY <1>1, <1>7, FS_EmptySet
<1> QED
  BY <1>6, <1>7, <1>8

\* The first task is taken out.
LEMMA TakeEffect ==
  ASSUME Typed, NEW w \in Worker, Take(w)
  PROVE  /\ Len(tasks) \in Nat \ {0} /\ Head(tasks) = tasks[1] /\ tasks[1] \in OpId
         /\ tasks' \in Seq(OpId) /\ Len(tasks') = Len(tasks) - 1
         /\ \A i \in 1..Len(tasks') : tasks'[i] = tasks[i + 1]
         /\ \A k : Cardinality(CopiesOf(k)') =
                     IF k = tasks[1] THEN Cardinality(CopiesOf(k)) - 1
                     ELSE Cardinality(CopiesOf(k))
<1>1. tasks \in Seq(OpId) /\ tasks # <<>> /\ tasks' = Tail(tasks)
  BY DEF Typed, Take
<1>2. /\ Len(tasks) \in Nat \ {0} /\ Head(tasks) = tasks[1] /\ tasks[1] \in OpId
      /\ tasks' \in Seq(OpId) /\ Len(tasks') = Len(tasks) - 1
      /\ \A i \in 1..Len(tasks') : tasks'[i] = tasks[i + 1]
  BY <1>1
<1>3. ASSUME NEW k
      PROVE  Cardinality(CopiesOf(k)') = IF k = tasks[1] THEN Cardinality(CopiesOf(k)) - 1
                                         ELSE Cardinality(CopiesOf(k))
  BY <1>1, PlacesInTail DEF CopiesOf
<1> QED
  BY <1>2, <1>3

LEMMA CopiesFacts ==
  ASSUME Typed, NEW k
  PROVE  /\ Cardinality(CopiesOf(k)) \in Nat
         /\ Cardinality(CopiesOf(k)) = 0 <=> CopiesOf(k) = {}
BY PlacesFinite DEF Typed, CopiesOf

-----------------------------------------------------------------------------
WorkerPlaces == {"loop", "blocked", "calling", "draw", "uncount", "arrive", "held", "exited"}
HostPlaces == {"idle", "push", "notify", "arrive", "held", "stop", "join", "destroyed"}

\* Nothing but the places of the threads changes.
LEMMA WokenTyped ==
  ASSUME Typed, NEW S \in SUBSET Worker
  PROVE  Woken(S) \in [Worker -> WorkerPlaces]
BY DEF Typed, Woken, WorkerPlaces

LEMMA TypedAgain ==
  ASSUME Typed, UNCHANGED <<ops, tasks, stop, drawn, begun, ended, cur, idx, hop, mark>>,
         taskCount' \in 0..(CountSize - 1),
         UNCHANGED arrivals \/ \A b \in Barriers : arrivals'[b].counter \in 1..Expected(b),
         arrivals' \in [Barriers -> [counter : Int, phase : Nat]],
         phaseOf' \in [Worker \cup Host -> Nat],
         wpc' \in [Worker -> WorkerPlaces], hpc' \in [Host -> HostPlaces],
         IsFiniteSet(Pushing'), Pending' <= Pending, Pending' \in Nat, Pending \in Nat
  PROVE  Typed'
<1>1. Len(ops) + Pending' <= MaxOps
  BY OpIdFacts, SizeAssumption DEF Typed
<1>2. \A b \in Barriers : arrivals'[b].counter \in 1..Expected(b)
  BY DEF Typed
<1> QED
  BY <1>1, <1>2 DEF Typed, OpId, WorkerPlaces, HostPlaces

LEMMA PendingFacts ==
  ASSUME Typed
  PROVE  /\ IsFiniteSet(Pushing) /\ Pending = Cardinality(Pushing) /\ Pending \in Nat
         /\ hpc \in [Host -> HostPlaces] /\ wpc \in [Worker -> WorkerPlaces]
         /\ UNCHANGED hpc => Pushing' = Pushing /\ Pending' = Pending
<1>1. Pending = Cardinality(Pushing)
  BY DEF Pending, Pushing
<1> QED
  BY <1>1, FS_CardinalityType DEF Typed, Pushing, Pending, HostPlaces, WorkerPlaces

\* The steps of a host that is not pushing.
LEMMA HostTyped ==
  ASSUME Typed, Placed, NEW h \in Host
  PROVE  /\ Destroy(h) => Typed'
         /\ NotifyOne(h) \/ NotifyAll(h) \/ HostLeave(h) \/ NotifyStop(h) \/ Join(h) => Typed'
         /\ HostArrive(h) => Typed'
<1>1. /\ hpc \in [Host -> HostPlaces] /\ wpc \in [Worker -> WorkerPlaces]
      /\ taskCount \in 0..(CountSize - 1) /\ phaseOf \in [Worker \cup Host -> Nat]
      /\ arrivals \in [Barriers -> [counter : Int, phase : Nat]]
  BY PendingFacts DEF Typed
<1>2. ASSUME NEW to \in HostPlaces \ {"push"}, hpc[h] # "push", hpc' = [hpc EXCEPT ![h] = to]
      PROVE  /\ hpc' \in [Host -> HostPlaces]
             /\ IsFiniteSet(Pushing') /\ Pending \in Nat /\ Pending' = Pending
  <2>1. hpc' \in [Host -> HostPlaces]
    BY <1>1, <1>2
  <2>2. IsFiniteSet(Pushing') /\ Pending \in Nat /\ Pending' = Pending
    BY <1>1, <1>2, PendingCount, PendingFacts DEF HostPlaces
  <2> QED
    BY <2>1, <2>2
<1>3. ASSUME Destroy(h)
      PROVE  Typed'
  <2>1. hpc[h] # "push" /\ hpc' = [hpc EXCEPT ![h] = "stop"] /\ "stop" \in HostPlaces \ {"push"}
    BY <1>3 DEF Destroy, HostPlaces
  <2>2. /\ hpc' \in [Host -> HostPlaces]
        /\ IsFiniteSet(Pushing') /\ Pending \in Nat /\ Pending' = Pending
    BY <1>2, <2>1
  <2>3. UNCHANGED <<ops, tasks, taskCount, work, syncs, workers, hop, mark>> /\ stop' \in BOOLEAN
    BY <1>3 DEF Destroy
  <2> QED
    BY <2>2, <2>3 DEF Typed, OpId, work, syncs, workers, HostPlaces
<1>4. ASSUME NotifyOne(h) \/ NotifyAll(h) \/ HostLeave(h) \/ NotifyStop(h) \/ Join(h)
      PROVE  Typed'
  <2>1. PICK to \in HostPlaces \ {"push"} : hpc[h] # "push" /\ hpc' = [hpc EXCEPT ![h] = to]
    BY <1>4 DEF NotifyOne, NotifyAll, AfterNotify, HostLeave, NotifyStop, Join, HostPlaces
  <2>2. /\ hpc' \in [Host -> HostPlaces]
        /\ IsFiniteSet(Pushing') /\ Pending \in Nat /\ Pending' = Pending
    BY <1>2, <2>1
  <2>3. \E S \in SUBSET Worker : wpc' = wpc \/ wpc' = Woken(S)
    BY <1>4 DEF NotifyOne, NotifyAll, HostLeave, NotifyStop, Join, Blocked, workers
  <2>4. wpc' \in [Worker -> WorkerPlaces]
    BY <1>1, <2>3, WokenTyped
  <2>5. UNCHANGED <<queue, taskCount, work, syncs, cur, idx, hop, mark>>
    BY <1>4 DEF NotifyOne, NotifyAll, HostLeave, NotifyStop, Join, workers
  <2> QED
    BY <1>1, <2>2, <2>4, <2>5, TypedAgain DEF queue, work, syncs
<1>5. ASSUME HostArrive(h)
      PROVE  Typed'
  <2>1. hpc[h] # "push" /\ hpc' = [hpc EXCEPT ![h] = "held"] /\ "held" \in HostPlaces \ {"push"}
    BY <1>5 DEF HostArrive, HostPlaces
  <2>2. /\ hpc' \in [Host -> HostPlaces]
        /\ IsFiniteSet(Pushing') /\ Pending \in Nat /\ Pending' = Pending
    BY <1>2, <2>1
  <2>3. Arrive(h, "synchronize") /\ h \in Worker \cup Host /\ "synchronize" \in Barriers
    BY <1>5, KindsApart DEF HostArrive
  <2>4. /\ phaseOf' \in [Worker \cup Host -> Nat]
        /\ arrivals' \in [Barriers -> [counter : Int, phase : Nat]]
        /\ \A c \in Barriers : arrivals'[c].counter \in 1..Expected(c)
    BY <2>3, ArriveTyped
  <2>5. UNCHANGED <<queue, taskCount, work, workers, hop, mark>>
    BY <1>5 DEF HostArrive
  <2> QED
    BY <1>1, <2>2, <2>4, <2>5, TypedAgain DEF queue, work, workers
<1> QED
  BY <1>3, <1>4, <1>5

LEMMA CallTyped ==
  ASSUME Typed, Placed, NEW h \in Host
  PROVE  /\ \A op \in Operation : Count(h, op) => Typed'
         /\ Push(h) => Typed'
         /\ \A b \in Barriers : PushBarrier(h, b) => Typed'
<1>1. /\ hpc \in [Host -> HostPlaces] /\ hop \in [Host -> Operation]
      /\ taskCount \in 0..(CountSize - 1) /\ Len(ops) \in Nat
      /\ IsFiniteSet(Pushing) /\ Pending \in Nat /\ MaxOps \in Nat /\ CountSize \in Nat \ {0}
      /\ Len(ops) + Pending <= MaxOps
  BY PendingFacts, OpIdFacts, SizeAssumption DEF Typed
<1>2. ASSUME NEW op \in Operation, Count(h, op)
      PROVE  Typed'
  <2>1. hpc[h] = "idle" /\ Len(ops) + Pending < MaxOps /\ hpc' = [hpc EXCEPT ![h] = "push"]
    BY <1>2 DEF Count, MayCall
  <2>2. IsFiniteSet(Pushing') /\ Pending' = Pending + 1
    BY <1>1, <2>1, PendingCount DEF HostPlaces
  <2>3. Len(ops) + Pending' <= MaxOps
    BY <1>1, <2>1, <2>2
  <2>4. taskCount' \in 0..(CountSize - 1)
    BY <1>1, <1>2 DEF Count
  <2>5. hop' \in [Host -> Operation] /\ hpc' \in [Host -> HostPlaces]
    BY <1>1, <1>2, <2>1 DEF Count, HostPlaces
  <2>6. UNCHANGED <<queue, work, syncs, workers, mark>>
    BY <1>2 DEF Count
  <2> QED
    BY <2>2, <2>3, <2>4, <2>5, <2>6 DEF Typed, OpId, HostPlaces, queue, work, syncs, workers
<1>3. ASSUME NEW op \in Operation, PushOp(h, op), hpc[h] = "push" \/ Len(ops) + Pending < MaxOps
      PROVE  Typed'
  <2>1. hpc' = [hpc EXCEPT ![h] = "notify"] /\ hpc' \in [Host -> HostPlaces]
    BY <1>1, <1>3 DEF PushOp, HostPlaces
  <2>2. IsFiniteSet(Pushing') /\ Pending' \in Nat
    BY <1>1, <2>1, PendingCount DEF HostPlaces
  <2>3. Len(ops) + 1 + Pending' <= MaxOps
    <3>1. hpc[h] = "push" => Pending' = Pending - 1
      BY <1>1, <2>1, PendingCount DEF HostPlaces
    <3>2. hpc[h] # "push" => Pending' = Pending
      BY <1>1, <2>1, PendingCount DEF HostPlaces
    <3> QED
      BY <1>1, <1>3, <3>1, <3>2, <2>2
  <2>4. /\ ops' \in Seq(Operation) /\ Len(ops') = Len(ops) + 1 /\ OpId' = 1..(Len(ops) + 1)
        /\ tasks' \in Seq(1..(Len(ops) + 1))
        /\ drawn' \in [1..(Len(ops) + 1) -> 0..(CountSize - 1)]
        /\ begun' \in [1..(Len(ops) + 1) -> SUBSET Nat]
        /\ ended' \in [1..(Len(ops) + 1) -> SUBSET Nat]
    BY <1>3, PushEffect
  <2>5. cur' \in [Worker -> 0..(Len(ops) + 1)] /\ mark' \in [Host -> 0..(Len(ops) + 1)]
    <3>1. cur' = cur /\ mark' = [mark EXCEPT ![h] = Len(ops) + 1]
      BY <1>3 DEF PushOp, workers
    <3>2. Len(ops) \in Nat /\ cur \in [Worker -> 0..Len(ops)] /\ mark \in [Host -> 0..Len(ops)]
      BY <1>1 DEF Typed
    <3>3. Len(ops) + 1 \in 0..(Len(ops) + 1) /\ \A k \in 0..Len(ops) : k \in 0..(Len(ops) + 1)
      BY <3>2
    <3> QED
      BY <3>1, <3>2, <3>3
  <2>6. UNCHANGED <<stop, taskCount, syncs, workers, hop>>
    BY <1>3 DEF PushOp
  <2> QED
    BY <2>1, <2>2, <2>3, <2>4, <2>5, <2>6 DEF Typed, HostPlaces, syncs, workers
<1>4. ASSUME Push(h)
      PROVE  Typed'
  <2>1. hop[h] \in Operation /\ PushOp(h, hop[h]) /\ hpc[h] = "push"
    BY <1>1, <1>4 DEF Push
  <2> QED
    BY <1>3, <2>1
<1>5. ASSUME NEW b \in Barriers, PushBarrier(h, b)
      PROVE  Typed'
  <2>1. Op(b, 0) \in Operation /\ PushOp(h, Op(b, 0)) /\ Len(ops) + Pending < MaxOps
    BY <1>5, OperationFacts DEF PushBarrier, MayCall
  <2> QED
    BY <1>3, <2>1
<1> QED
  BY <1>2, <1>4, <1>5

LEMMA WorkerTyped ==
  ASSUME Typed, Placed, NEW w \in Worker
  PROVE  /\ Sleep(w) \/ Exit(w) \/ WorkerLeave(w) \/ WorkerSpuriousWakeup(w) => Typed'
         /\ Uncount(w) => Typed'
         /\ WorkerArrive(w) => Typed'
         /\ Take(w) => Typed'
         /\ Draw(w) => Typed'
         /\ EndCall(w) => Typed'
<1>1. /\ hpc \in [Host -> HostPlaces] /\ wpc \in [Worker -> WorkerPlaces]
      /\ taskCount \in 0..(CountSize - 1) /\ phaseOf \in [Worker \cup Host -> Nat]
      /\ arrivals \in [Barriers -> [counter : Int, phase : Nat]]
      /\ IsFiniteSet(Pushing) /\ Pending \in Nat /\ MaxOps \in Nat /\ CountSize \in Nat \ {0}
  BY PendingFacts, SizeAssumption DEF Typed
<1>2. UNCHANGED hpc => Pending' = Pending /\ IsFiniteSet(Pushing')
  BY PendingFacts
<1>3. ASSUME Sleep(w) \/ Exit(w) \/ WorkerLeave(w) \/ WorkerSpuriousWakeup(w)
      PROVE  Typed'
  <2>1. UNCHANGED <<queue, taskCount, work, syncs, cur, idx, hosts>>
    BY <1>3 DEF Sleep, Exit, WorkerLeave, WorkerSpuriousWakeup
  <2>2. wpc' \in [Worker -> WorkerPlaces]
    BY <1>1, <1>3 DEF Sleep, Exit, WorkerLeave, WorkerSpuriousWakeup, Goes, WorkerPlaces
  <2> QED
    BY <1>1, <1>2, <2>1, <2>2, TypedAgain DEF queue, work, syncs, hosts
<1>4. ASSUME Uncount(w)
      PROVE  Typed'
  <2>1. UNCHANGED <<queue, work, syncs, cur, idx, hosts>>
    BY <1>4 DEF Uncount
  <2>2. wpc' \in [Worker -> WorkerPlaces] /\ taskCount' \in 0..(CountSize - 1)
    BY <1>1, <1>4 DEF Uncount, Goes, WorkerPlaces
  <2> QED
    BY <1>1, <1>2, <2>1, <2>2, TypedAgain DEF queue, work, syncs, hosts
<1>5. ASSUME WorkerArrive(w)
      PROVE  Typed'
  <2>1. UNCHANGED <<queue, taskCount, work, cur, idx, hosts>>
    BY <1>5 DEF WorkerArrive
  <2>2. wpc' \in [Worker -> WorkerPlaces]
    BY <1>1, <1>5 DEF WorkerArrive, Goes, WorkerPlaces
  <2>3. Arrive(w, ops[cur[w]].kind) /\ w \in Worker \cup Host /\ ops[cur[w]].kind \in Barriers
    BY <1>5 DEF WorkerArrive, Placed
  <2>4. /\ phaseOf' \in [Worker \cup Host -> Nat]
        /\ arrivals' \in [Barriers -> [counter : Int, phase : Nat]]
        /\ \A c \in Barriers : arrivals'[c].counter \in 1..Expected(c)
    BY <2>3, ArriveTyped
  <2> QED
    BY <1>1, <1>2, <2>1, <2>2, <2>4, TypedAgain DEF queue, work, hosts
<1>6. ASSUME Take(w)
      PROVE  Typed'
  <2>1. UNCHANGED <<ops, stop, taskCount, drawn, ended, syncs, hosts>>
    BY <1>6 DEF Take
  <2>2. tasks' \in Seq(OpId) /\ Head(tasks) \in OpId
    BY <1>6, TakeEffect
  <2>3. wpc' \in [Worker -> WorkerPlaces]
    BY <1>1, <1>6 DEF Take, Goes, StartOf, WorkerPlaces
  <2>4. cur' \in [Worker -> 0..Len(ops)] /\ idx' \in [Worker -> 0..(CountSize - 1)]
    <3>1. cur' = [cur EXCEPT ![w] = Head(tasks)] /\ idx' = [idx EXCEPT ![w] = 0]
      BY <1>6 DEF Take
    <3>2. Head(tasks) \in 0..Len(ops) /\ 0 \in 0..(CountSize - 1)
      BY <1>1, <2>2, OpIdFacts
    <3> QED
      BY <3>1, <3>2 DEF Typed
  <2>5. begun' \in [OpId -> SUBSET Nat]
    BY <1>6, <2>2 DEF Take, Typed
  <2>6. UNCHANGED hpc
    BY <2>1 DEF hosts
  <2> QED
    BY <1>2, <2>1, <2>2, <2>3, <2>4, <2>5, <2>6 DEF Typed, OpId, WorkerPlaces, syncs, hosts
<1>7. ASSUME Draw(w)
      PROVE  Typed'
  <2>1. UNCHANGED <<queue, taskCount, ended, syncs, cur, hosts>>
    BY <1>7 DEF Draw
  <2>2. cur[w] \in OpId /\ drawn[cur[w]] \in 0..(CountSize - 1)
    BY <1>7 DEF Draw, Placed, Typed
  <2>3. wpc' \in [Worker -> WorkerPlaces]
    BY <1>1, <1>7 DEF Draw, Goes, WorkerPlaces
  <2>4. idx' \in [Worker -> 0..(CountSize - 1)]
    BY <1>7, <2>2 DEF Draw, Typed
  <2>5. drawn' \in [OpId -> 0..(CountSize - 1)]
    <3>1. (drawn[cur[w]] + 1) % CountSize \in 0..(CountSize - 1)
      BY <1>1, <2>2
    <3> QED
      BY <1>7, <2>2, <3>1 DEF Draw, Typed
  <2>6. begun' \in [OpId -> SUBSET Nat]
    BY <1>7, <2>2 DEF Draw, Typed
  <2>7. UNCHANGED hpc
    BY <2>1 DEF hosts
  <2> QED
    BY <1>2, <2>1, <2>3, <2>4, <2>5, <2>6, <2>7 DEF Typed, OpId, WorkerPlaces, queue, syncs, hosts
<1>8. ASSUME EndCall(w)
      PROVE  Typed'
  <2>1. UNCHANGED <<queue, taskCount, drawn, begun, syncs, cur, idx, hosts>>
    BY <1>8 DEF EndCall
  <2>2. cur[w] \in OpId /\ idx[w] \in Nat
    BY <1>8 DEF EndCall, Placed, Typed
  <2>3. wpc' \in [Worker -> WorkerPlaces]
    BY <1>1, <1>8 DEF EndCall, Goes, WorkerPlaces
  <2>4. ended' \in [OpId -> SUBSET Nat]
    BY <1>8, <2>2 DEF EndCall, Typed
  <2>5. UNCHANGED hpc
    BY <2>1 DEF hosts
  <2> QED
    BY <1>2, <2>1, <2>3, <2>4, <2>5 DEF Typed, OpId, WorkerPlaces, queue, syncs, hosts
<1> QED
  BY <1>3, <1>4, <1>5, <1>6, <1>7, <1>8

\* Woken workers were blocked; nobody else moves.
LEMMA WokenPlaces ==
  ASSUME Typed, NEW S \in SUBSET Blocked, wpc' = Woken(S)
  PROVE  \A w \in Worker :
           \/ wpc'[w] = wpc[w]
           \/ wpc[w] = "blocked" /\ wpc'[w] = "loop"
BY DEF Woken, Blocked, Typed

\* What a host does to the workers, and what it leaves alone.
LEMMA HostQuiet ==
  ASSUME Typed, NEW h \in Host,
         \/ Destroy(h) \/ NotifyOne(h) \/ NotifyAll(h) \/ HostArrive(h) \/ HostLeave(h)
         \/ NotifyStop(h) \/ Join(h)
  PROVE  /\ UNCHANGED <<ops, tasks, taskCount, work, cur, idx, hop, mark>>
         /\ \A w \in Worker : wpc'[w] = wpc[w] \/ (wpc[w] = "blocked" /\ wpc'[w] = "loop")
         /\ hpc[h] # "push"
         /\ \E to \in HostPlaces \ {"push"} : hpc' = [hpc EXCEPT ![h] = to]
<1>1. CASE Destroy(h)
  BY <1>1 DEF Destroy, workers, HostPlaces
<1>2. CASE NotifyOne(h)
  <2>1. UNCHANGED <<ops, tasks, taskCount, work, cur, idx, hop, mark>> /\ hpc[h] # "push"
    BY <1>2 DEF NotifyOne, queue
  <2>2. wpc' = wpc \/ \E S \in SUBSET Blocked : wpc' = Woken(S)
    BY <1>2 DEF NotifyOne
  <2>3. \E to \in HostPlaces \ {"push"} : hpc' = [hpc EXCEPT ![h] = to]
    BY <1>2 DEF NotifyOne, AfterNotify, HostPlaces
  <2> QED
    BY <2>1, <2>2, <2>3, WokenPlaces
<1>3. CASE NotifyAll(h)
  <2>1. UNCHANGED <<ops, tasks, taskCount, work, cur, idx, hop, mark>> /\ hpc[h] # "push"
    BY <1>3 DEF NotifyAll, queue
  <2>2. Blocked \in SUBSET Blocked /\ wpc' = Woken(Blocked)
    BY <1>3 DEF NotifyAll
  <2>3. \E to \in HostPlaces \ {"push"} : hpc' = [hpc EXCEPT ![h] = to]
    BY <1>3 DEF NotifyAll, AfterNotify, HostPlaces
  <2> QED
    BY <2>1, <2>2, <2>3, WokenPlaces
<1>4. CASE NotifyStop(h)
  <2>1. UNCHANGED <<ops, tasks, taskCount, work, cur, idx, hop, mark>> /\ hpc[h] # "push"
    BY <1>4 DEF NotifyStop, queue
  <2>2. Blocked \in SUBSET Blocked /\ wpc' = Woken(Blocked)
    BY <1>4 DEF NotifyStop
  <2>3. \E to \in HostPlaces \ {"push"} : hpc' = [hpc EXCEPT ![h] = to]
    BY <1>4 DEF NotifyStop, HostPlaces
  <2> QED
    BY <2>1, <2>2, <2>3, WokenPlaces
<1>5. CASE HostArrive(h) \/ HostLeave(h) \/ Join(h)
  BY <1>5 DEF HostArrive, HostLeave, Join, queue, workers, HostPlaces
<1> QED
  BY <1>1, <1>2, <1>3, <1>4, <1>5

LEMMA HostPlaced ==
  ASSUME Typed, Placed, NEW h \in Host
  PROVE  /\ \A op \in Operation : Count(h, op) => Placed'
         /\ Push(h) => Placed'
         /\ \A b \in Barriers : PushBarrier(h, b) => Placed'
         /\ \/ Destroy(h) \/ NotifyOne(h) \/ NotifyAll(h) \/ HostArrive(h) \/ HostLeave(h)
            \/ NotifyStop(h) \/ Join(h)
            => Placed'
<1>1. /\ hpc \in [Host -> HostPlaces] /\ hop \in [Host -> Operation]
      /\ mark \in [Host -> 0..Len(ops)] /\ OpId = 1..Len(ops) /\ Len(ops) \in Nat
  BY PendingFacts, OpIdFacts DEF Typed
<1>2. ASSUME NEW op \in Operation, Count(h, op)
      PROVE  Placed'
  BY <1>1, <1>2 DEF Count, MayCall, Placed, OpId, queue, workers, Counted
<1>3. ASSUME NEW op \in Operation, PushOp(h, op), op.kind = "synchronize" => h \in SyncHost
      PROVE  Placed'
  <2>1. /\ OpId' = 1..(Len(ops) + 1) /\ ops'[Len(ops) + 1] = op
        /\ \A k \in OpId : ops'[k] = ops[k]
    BY <1>3, PushEffect
  <2>2. /\ hpc' = [hpc EXCEPT ![h] = "notify"] /\ mark' = [mark EXCEPT ![h] = Len(ops) + 1]
        /\ UNCHANGED <<wpc, cur, hop>>
    BY <1>3 DEF PushOp, workers
  <2>3. \A w \in Worker :
          /\ wpc'[w] \in {"calling", "draw", "uncount", "arrive", "held"} => cur'[w] \in OpId'
          /\ wpc'[w] = "draw" => ops'[cur'[w]].kind = "parallel"
          /\ wpc'[w] \in {"calling", "uncount"} => Counted(ops'[cur'[w]])
          /\ wpc'[w] \in {"arrive", "held"} => ops'[cur'[w]].kind \in Barriers
    BY <1>1, <2>1, <2>2 DEF Placed
  <2>4. ASSUME NEW g \in Host, g # h
        PROVE  /\ hpc'[g] = hpc[g] /\ mark'[g] = mark[g]
               /\ mark[g] \in OpId => mark[g] \in OpId' /\ ops'[mark[g]] = ops[mark[g]]
    BY <1>1, <2>1, <2>2, <2>4
  <2>5. /\ hpc'[h] = "notify" /\ mark'[h] = Len(ops) + 1 /\ mark'[h] \in OpId'
        /\ ops'[mark'[h]] = op
    BY <1>1, <2>1, <2>2
  <2>6. \A g \in Host :
          /\ hpc'[g] = "push" => Counted(hop'[g])
          /\ hpc'[g] \in {"notify", "arrive", "held"} => mark'[g] \in OpId'
          /\ hpc'[g] \in {"arrive", "held"} => ops'[mark'[g]].kind = "synchronize"
          /\ hpc'[g] = "notify" /\ ops'[mark'[g]].kind = "synchronize" => g \in SyncHost
          /\ hpc'[g] \in {"arrive", "held"} => g \in SyncHost
    BY <1>3, <2>2, <2>4, <2>5 DEF Placed
  <2> QED
    BY <2>3, <2>6 DEF Placed, Counted
<1>4. ASSUME Push(h)
      PROVE  Placed'
  <2>1. hop[h] \in Operation /\ PushOp(h, hop[h]) /\ Counted(hop[h])
    BY <1>1, <1>4 DEF Push, Placed
  <2> QED
    BY <1>3, <2>1 DEF Counted
<1>5. ASSUME NEW b \in Barriers, PushBarrier(h, b)
      PROVE  Placed'
  <2>1. Op(b, 0) \in Operation /\ PushOp(h, Op(b, 0)) /\ Op(b, 0).kind = b
    BY <1>5, OperationFacts DEF PushBarrier
  <2>2. b = "synchronize" => h \in SyncHost
    BY <1>5 DEF PushBarrier
  <2> QED
    BY <1>3, <2>1, <2>2
<1>6. ASSUME \/ Destroy(h) \/ NotifyOne(h) \/ NotifyAll(h) \/ HostArrive(h) \/ HostLeave(h)
             \/ NotifyStop(h) \/ Join(h)
      PROVE  Placed'
  <2>1. /\ UNCHANGED <<ops, cur, hop, mark>>
        /\ \A w \in Worker : wpc'[w] = wpc[w] \/ (wpc[w] = "blocked" /\ wpc'[w] = "loop")
    BY <1>6, HostQuiet
  <2>2. \A w \in Worker :
          /\ wpc'[w] \in {"calling", "draw", "uncount", "arrive", "held"} => cur'[w] \in OpId'
          /\ wpc'[w] = "draw" => ops'[cur'[w]].kind = "parallel"
          /\ wpc'[w] \in {"calling", "uncount"} => Counted(ops'[cur'[w]])
          /\ wpc'[w] \in {"arrive", "held"} => ops'[cur'[w]].kind \in Barriers
    BY <2>1 DEF Placed, OpId
  <2>3. \A g \in Host \ {h} : hpc'[g] = hpc[g]
    BY <1>1, <1>6, HostQuiet
  <2>4. /\ hpc'[h] \notin {"push", "notify"}
        /\ hpc'[h] = "arrive" => hpc[h] = "notify" /\ ops[mark[h]].kind = "synchronize"
        /\ hpc'[h] = "held" => hpc[h] = "arrive"
    BY <1>1, <1>6 DEF Destroy, NotifyOne, NotifyAll, HostArrive, HostLeave, NotifyStop, Join,
                      AfterNotify
  <2>5. \A g \in Host :
          /\ hpc'[g] = "push" => Counted(hop'[g])
          /\ hpc'[g] \in {"notify", "arrive", "held"} => mark'[g] \in OpId'
          /\ hpc'[g] \in {"arrive", "held"} => ops'[mark'[g]].kind = "synchronize"
          /\ hpc'[g] = "notify" /\ ops'[mark'[g]].kind = "synchronize" => g \in SyncHost
          /\ hpc'[g] \in {"arrive", "held"} => g \in SyncHost
    BY <2>1, <2>3, <2>4 DEF Placed, OpId
  <2> QED
    BY <2>2, <2>5 DEF Placed, Counted
<1> QED
  BY <1>2, <1>4, <1>5, <1>6

LEMMA WorkerPlaced ==
  ASSUME Typed, Placed, NEW w \in Worker, WorkerStep(w) \/ WorkerSpuriousWakeup(w)
  PROVE  Placed'
<1>1. /\ wpc \in [Worker -> WorkerPlaces] /\ cur \in [Worker -> 0..Len(ops)]
      /\ \A k \in OpId : ops[k] \in Operation
  BY PendingFacts, OpIdFacts DEF Typed
<1>2. UNCHANGED <<ops, hpc, hop, mark>>
  BY DEF WorkerStep, WorkerSpuriousWakeup, Take, Sleep, Exit, Draw, EndCall, Uncount, WorkerArrive,
         WorkerLeave, queue, hosts
<1>3. \A v \in Worker \ {w} : wpc'[v] = wpc[v] /\ cur'[v] = cur[v]
  BY <1>1 DEF WorkerStep, WorkerSpuriousWakeup, Take, Sleep, Exit, Draw, EndCall, Uncount,
              WorkerArrive, WorkerLeave, Goes
<1>4. /\ wpc'[w] \in {"calling", "draw", "uncount", "arrive", "held"} => cur'[w] \in OpId
      /\ wpc'[w] = "draw" => ops[cur'[w]].kind = "parallel"
      /\ wpc'[w] \in {"calling", "uncount"} => Counted(ops[cur'[w]])
      /\ wpc'[w] \in {"arrive", "held"} => ops[cur'[w]].kind \in Barriers
  <2>1. CASE Take(w)
    <3>1. Head(tasks) \in OpId /\ cur'[w] = Head(tasks) /\ wpc'[w] = StartOf(ops[Head(tasks)])
      BY <1>1, <2>1, TakeEffect DEF Take, Goes
    <3>2. ops[Head(tasks)].kind \in {"async", "parallel"} \cup Barriers
      BY <1>1, <3>1, OperationFacts
    <3> QED
      BY <3>1, <3>2, KindsApart DEF StartOf
  <2>2. CASE Draw(w)
    BY <1>1, <2>2, KindsApart DEF Draw, Goes, Placed
  <2>3. CASE EndCall(w)
    BY <1>1, <2>3, KindsApart DEF EndCall, Goes, Placed
  <2>4. CASE WorkerArrive(w)
    BY <1>1, <2>4 DEF WorkerArrive, Goes, Placed
  <2>5. CASE Sleep(w) \/ Exit(w) \/ Uncount(w) \/ WorkerLeave(w) \/ WorkerSpuriousWakeup(w)
    BY <1>1, <2>5 DEF Sleep, Exit, Uncount, WorkerLeave, WorkerSpuriousWakeup, Goes
  <2> QED
    BY <2>1, <2>2, <2>3, <2>4, <2>5 DEF WorkerStep
<1>5. ASSUME NEW v \in Worker
      PROVE  /\ wpc'[v] \in {"calling", "draw", "uncount", "arrive", "held"} => cur'[v] \in OpId
             /\ wpc'[v] = "draw" => ops[cur'[v]].kind = "parallel"
             /\ wpc'[v] \in {"calling", "uncount"} => Counted(ops[cur'[v]])
             /\ wpc'[v] \in {"arrive", "held"} => ops[cur'[v]].kind \in Barriers
  BY <1>3, <1>4 DEF Placed
<1>6. OpId' = OpId
  BY <1>2 DEF OpId
<1> QED
  BY <1>2, <1>5, <1>6 DEF Placed, Counted

-----------------------------------------------------------------------------
\* The places at which a worker has nothing to do with the calls.
Aside == {"loop", "blocked", "exited", "arrive", "held"}

\* A step that does nothing for the calls.
LEMMA QuietKeeps ==
  ASSUME CallInv, UNCHANGED <<ops, tasks, taskCount, work, cur, idx>>, Pending' = Pending,
         \A w \in Worker : wpc'[w] = wpc[w] \/ (wpc[w] \in Aside /\ wpc'[w] \in Aside)
  PROVE  CallsRight'
<1>1. /\ UNCHANGED <<ops, tasks, taskCount, drawn, begun, ended, cur, idx>>
      /\ OpId' = OpId
      /\ \A k : Places(tasks, k)' = Places(tasks, k)
      /\ \A k : Indices(k)' = Indices(k)
  BY DEF work, OpId, Places, Indices
<1>2. \A w \in Worker :
        /\ wpc'[w] = "calling" <=> wpc[w] = "calling"
        /\ wpc'[w] = "draw" <=> wpc[w] = "draw"
        /\ wpc'[w] = "uncount" <=> wpc[w] = "uncount"
  BY DEF Aside
<1>3. Fifo'
  BY <1>1 DEF CallInv, CallsRight, Fifo
<1>4. \A k \in OpId' : Begun(k)'
  BY <1>1 DEF CallInv, CallsRight, Begun, CopiesOf
<1>5. OnlyCopy'
  BY <1>1 DEF CallInv, CallsRight, OnlyCopy
<1>6. Calls'
  <2>1. \A w \in Worker : wpc'[w] = "calling" => idx'[w] \in begun'[cur'[w]] \ ended'[cur'[w]]
    BY <1>1, <1>2 DEF CallInv, CallsRight, Calls
  <2>2. \A v, w \in Worker :
          wpc'[v] = "calling" /\ wpc'[w] = "calling" /\ cur'[v] = cur'[w] /\ idx'[v] = idx'[w]
            => v = w
    BY <1>1, <1>2 DEF CallInv, CallsRight, Calls
  <2>3. \A k \in OpId' : \A i \in begun'[k] \ ended'[k] :
          \E w \in Worker : wpc'[w] = "calling" /\ cur'[w] = k /\ idx'[w] = i
    BY <1>1, <1>2 DEF CallInv, CallsRight, Calls
  <2> QED
    BY <2>1, <2>2, <2>3 DEF Calls
<1>7. Draws'
  <2>1. \A k : DrawersOf(k)' = DrawersOf(k)
    BY <1>1, <1>2 DEF DrawersOf
  <2>2. \A k : CopiesOf(k)' = CopiesOf(k) /\ Extra(k)' = Extra(k)
    BY <1>1 DEF CopiesOf, Extra
  <2> QED
    BY <1>1, <2>1, <2>2 DEF CallInv, CallsRight, Draws
<1>8. Uncounts'
  <2>1. \A k : Done(k)' <=> Done(k)
    BY <1>1 DEF Done, Counted
  <2> QED
    BY <1>1, <1>2, <2>1 DEF CallInv, CallsRight, Uncounts
<1>9. Outstanding' = Outstanding
  <2>1. \A k \in OpId : Uncounted(k)' <=> Uncounted(k)
    BY <1>1, <1>2 DEF Uncounted, Done, Counted
  <2> QED
    BY <1>1, <2>1 DEF Outstanding, Counted
<1> QED
  BY <1>1, <1>3, <1>4, <1>5, <1>6, <1>7, <1>8, <1>9 DEF CallInv, CallsRight

LEMMA OutstandingFinite ==
  ASSUME Typed
  PROVE  IsFiniteSet(Outstanding) /\ Cardinality(Outstanding) \in Nat
         /\ Cardinality(Outstanding) <= Len(ops)
<1>1. Outstanding \in SUBSET (1..Len(ops)) /\ Len(ops) \in Nat
  BY OpIdFacts DEF Outstanding
<1>2. 1 \in Int /\ Len(ops) \in Int
  BY <1>1
<1>3. IsFiniteSet(1..Len(ops)) /\ Cardinality(1..Len(ops))
         = IF 1 > Len(ops) THEN 0 ELSE Len(ops) - 1 + 1
  BY <1>2, FS_Interval, Zenon
<1>4. IsFiniteSet(Outstanding) /\ Cardinality(Outstanding) <= Cardinality(1..Len(ops))
  BY <1>1, <1>3, FS_Subset
<1> QED
  BY <1>1, <1>3, <1>4, FS_CardinalityType

LEMMA CountKeeps ==
  ASSUME CallInv, NEW h \in Host, NEW op \in Operation, Count(h, op)
  PROVE  CallsRight'
<1>1. /\ UNCHANGED <<ops, tasks, drawn, begun, ended, cur, idx, wpc>>
      /\ hpc[h] = "idle" /\ Len(ops) + Pending < MaxOps /\ hpc' = [hpc EXCEPT ![h] = "push"]
      /\ taskCount' = (taskCount + 1) % CountSize
  BY DEF Count, MayCall, queue, work, workers
<1>2. Typed /\ Pending \in Nat /\ taskCount = Pending + Cardinality(Outstanding)
  BY PendingFacts DEF CallInv, CallsRight
<1>3. Pending' = Pending + 1
  BY <1>1, <1>2, PendingCount DEF Typed
<1>4. taskCount + 1 < CountSize /\ taskCount \in Nat /\ CountSize \in Nat
  <2>1. PICK n \in Nat, l \in Nat, p \in Nat : n = Cardinality(Outstanding) /\ l = Len(ops) /\ p = Pending
    BY <1>2, OutstandingFinite, OpIdFacts
  <2>2. n <= l /\ l + p < MaxOps /\ taskCount = p + n
    BY <1>1, <1>2, <2>1, OutstandingFinite
  <2> QED
    BY <2>2, SizeAssumption
<1>5. taskCount' = taskCount + 1
  BY <1>1, <1>4, NoWraparound
<1>6. Outstanding' = Outstanding
  BY <1>1 DEF Outstanding, OpId, Uncounted, Done, Counted, Indices
<1>7. taskCount' = Pending' + Cardinality(Outstanding')
  BY <1>2, <1>3, <1>5, <1>6, OutstandingFinite
<1>8. Fifo' /\ OnlyCopy' /\ \A k \in OpId' : Begun(k)'
  <2>1. Fifo'
    BY <1>1 DEF CallInv, CallsRight, Fifo
  <2>2. OnlyCopy'
    BY <1>1 DEF CallInv, CallsRight, OnlyCopy
  <2>3. \A k \in OpId' : Begun(k)'
    BY <1>1 DEF CallInv, CallsRight, Begun, OpId, CopiesOf, Places, Indices
  <2> QED
    BY <2>1, <2>2, <2>3
<1>9. Calls'
  BY <1>1 DEF CallInv, CallsRight, Calls, OpId
<1>10. Draws'
  BY <1>1 DEF CallInv, CallsRight, Draws, OpId, CopiesOf, Places, DrawersOf, Extra
<1>11. Uncounts'
  BY <1>1 DEF CallInv, CallsRight, Uncounts, Done, Counted, Indices
<1> QED
  BY <1>7, <1>8, <1>9, <1>10, <1>11 DEF CallsRight

\* A new operation: its copies, and no calls yet.
LEMMA PushKeeps ==
  ASSUME CallInv, NEW h \in Host, NEW op \in Operation, PushOp(h, op),
         IF Counted(op) THEN hpc[h] = "push" ELSE hpc[h] # "push"
  PROVE  CallsRight'
<1>0. PICK m : m = Len(ops) + 1
  OBVIOUS
<1>1. /\ Typed /\ Placed /\ CallsRight
      /\ Len(ops) \in Nat /\ OpId = 1..Len(ops) /\ m \notin OpId /\ Len(tasks) \in Nat
      /\ \A i \in 1..Len(tasks) : tasks[i] \in OpId
      /\ \A w \in Worker : cur[w] \in 0..Len(ops)
      /\ Copies(op) \in Nat \ {0} /\ Copies(op) <= N /\ (op.kind = "async" => Copies(op) = 1)
      /\ op.kind = "parallel" => op.n \in Nat \ {0}
      /\ op.kind = "async" => op.n = 1
  BY <1>0, OpIdFacts, OperationFacts DEF CallInv, Typed
<1>2. /\ OpId' = 1..m /\ m \in Nat \ {0}
      /\ ops'[m] = op /\ \A k \in OpId : ops'[k] = ops[k]
      /\ Len(tasks') = Len(tasks) + Copies(op)
      /\ \A i \in 1..Len(tasks) : tasks'[i] = tasks[i]
      /\ \A i \in 1..Len(tasks') : i > Len(tasks) => tasks'[i] = m
      /\ drawn'[m] = 0 /\ \A k \in OpId : drawn'[k] = drawn[k]
      /\ begun'[m] = {} /\ \A k \in OpId : begun'[k] = begun[k]
      /\ ended'[m] = {} /\ \A k \in OpId : ended'[k] = ended[k]
  BY <1>0, <1>1, PushEffect
<1>3. /\ \A k \in OpId : CopiesOf(k)' = CopiesOf(k)
      /\ Cardinality(CopiesOf(m)') = Copies(op) /\ CopiesOf(m)' # {}
  BY <1>0, <1>1, PushCopies
<1>4. UNCHANGED <<wpc, cur, idx, taskCount>> /\ hpc' = [hpc EXCEPT ![h] = "notify"]
  BY DEF PushOp, workers
<1>5. \A k \in OpId' : k \in OpId \/ k = m
  BY <1>0, <1>1, <1>2
<1>6. OpId \subseteq OpId'
  BY <1>0, <1>1, <1>2
<1>7. Fifo'
  <2>1. ASSUME NEW i \in 1..Len(tasks'), NEW j \in 1..Len(tasks'), i <= j
        PROVE  tasks'[i] <= tasks'[j]
    <3>1. CASE j \in 1..Len(tasks)
      <4>1. i \in 1..Len(tasks)
        BY <1>1, <2>1, <3>1
      <4>2. tasks[i] <= tasks[j]
        BY <1>1, <2>1, <3>1, <4>1 DEF CallsRight, Fifo
      <4> QED
        BY <1>2, <3>1, <4>1, <4>2
    <3>2. CASE j > Len(tasks) /\ i > Len(tasks)
      BY <1>2, <3>2
    <3>3. CASE j > Len(tasks) /\ i \in 1..Len(tasks)
      BY <1>0, <1>1, <1>2, <3>3
    <3> QED
      BY <3>1, <3>2, <3>3, <1>1, <1>2
  <2>2. ASSUME NEW w \in Worker, NEW i \in 1..Len(tasks')
        PROVE  cur'[w] <= tasks'[i]
    <3>1. CASE i \in 1..Len(tasks)
      BY <1>1, <1>2, <1>4, <3>1 DEF CallsRight, Fifo
    <3>2. CASE i > Len(tasks)
      BY <1>0, <1>1, <1>2, <1>4, <3>2
    <3> QED
      BY <3>1, <3>2, <1>1, <1>2
  <2> QED
    BY <2>1, <2>2 DEF Fifo
<1>8. ASSUME NEW k \in OpId'
      PROVE  Begun(k)'
  <2>1. CASE k \in OpId
    <3>1. Begun(k) /\ Indices(k)' = Indices(k) /\ CopiesOf(k)' = CopiesOf(k)
      BY <1>1, <1>2, <1>3, <2>1 DEF CallsRight, Indices
    <3>2. /\ ops'[k] = ops[k] /\ drawn'[k] = drawn[k] /\ begun'[k] = begun[k]
          /\ ended'[k] = ended[k]
      BY <1>2, <2>1
    <3> QED
      BY <3>1, <3>2 DEF Begun
  <2>2. CASE k = m
    <3>1. ops'[k] = op /\ drawn'[k] = 0 /\ begun'[k] = {} /\ ended'[k] = {} /\ CopiesOf(k)' # {}
      BY <1>2, <1>3, <2>2
    <3>2. {i \in Indices(k)' : i < 0} = {}
      <4>1. op.kind \in Barriers \/ op.n \in Nat
        BY OperationFacts
      <4>2. Indices(k)' = 0..(op.n - 1)
        BY <3>1 DEF Indices
      <4>3. op.n \in Nat
        BY OperationFacts
      <4> QED
        BY <4>2, <4>3
    <3> QED
      BY <3>1, <3>2 DEF Begun
  <2> QED
    BY <1>5, <2>1, <2>2
<1>9. OnlyCopy'
  <2>1. ASSUME NEW i \in 1..Len(tasks'), NEW j \in 1..Len(tasks'), tasks'[i] = tasks'[j],
               ops'[tasks'[i]].kind = "async"
        PROVE  i = j
    <3>1. CASE i \in 1..Len(tasks) /\ j \in 1..Len(tasks)
      <4>1. tasks'[i] = tasks[i] /\ tasks'[j] = tasks[j] /\ tasks[i] \in OpId
        BY <1>1, <1>2, <3>1
      <4>2. ops'[tasks[i]] = ops[tasks[i]]
        BY <1>2, <4>1
      <4> QED
        BY <1>1, <2>1, <3>1, <4>1, <4>2 DEF CallsRight, OnlyCopy
    <3>2. CASE i > Len(tasks) /\ j > Len(tasks)
      <4>1. ops'[tasks'[i]] = op
        BY <1>2, <3>2
      <4>2. Copies(op) = 1
        BY <1>1, <2>1, <4>1
      <4> QED
        BY <1>1, <1>2, <3>2, <4>2
    <3>3. CASE i > Len(tasks) /\ j \in 1..Len(tasks)
      <4>1. tasks'[i] = m /\ tasks'[j] \in OpId
        BY <1>1, <1>2, <2>1, <3>3
      <4> QED
        BY <1>1, <2>1, <4>1
    <3>4. CASE i \in 1..Len(tasks) /\ j > Len(tasks)
      <4>1. tasks'[j] = m /\ tasks'[i] \in OpId
        BY <1>1, <1>2, <2>1, <3>4
      <4> QED
        BY <1>1, <2>1, <4>1
    <3>5. \A k \in 1..Len(tasks') : k \in 1..Len(tasks) \/ k > Len(tasks)
      BY <1>1, <1>2
    <3> QED
      BY <3>1, <3>2, <3>3, <3>4, <3>5
  <2> QED
    BY <2>1 DEF OnlyCopy
<1>10. \A w \in Worker : wpc[w] \in {"calling", "draw", "uncount"} => cur[w] \in OpId
  BY <1>1 DEF Placed
<1>11. Calls'
  <2>1. \A w \in Worker : wpc'[w] = "calling" => idx'[w] \in begun'[cur'[w]] \ ended'[cur'[w]]
    BY <1>1, <1>2, <1>4, <1>10 DEF CallsRight, Calls
  <2>2. \A v, w \in Worker :
          wpc'[v] = "calling" /\ wpc'[w] = "calling" /\ cur'[v] = cur'[w] /\ idx'[v] = idx'[w]
            => v = w
    BY <1>1, <1>4 DEF CallsRight, Calls
  <2>3. ASSUME NEW k \in OpId', NEW i \in begun'[k] \ ended'[k]
        PROVE  \E w \in Worker : wpc'[w] = "calling" /\ cur'[w] = k /\ idx'[w] = i
    <3>1. k \in OpId /\ i \in begun[k] \ ended[k]
      BY <1>2, <1>5
    <3> QED
      BY <1>1, <1>4, <3>1 DEF CallsRight, Calls
  <2> QED
    BY <2>1, <2>2, <2>3 DEF Calls
<1>12. \A k : DrawersOf(k)' = DrawersOf(k)
  BY <1>4 DEF DrawersOf
<1>13. ASSUME NEW k \in OpId', ops'[k].kind = "parallel"
       PROVE  /\ drawn'[k] < ops'[k].n => CopiesOf(k)' # {} \/ DrawersOf(k)' # {}
              /\ Cardinality(CopiesOf(k)') + Cardinality(DrawersOf(k)') + Extra(k)' <= N
  <2>1. CASE k \in OpId
    <3>1. ops'[k] = ops[k] /\ drawn'[k] = drawn[k] /\ Extra(k)' = Extra(k)
      BY <1>2, <2>1 DEF Extra
    <3> QED
      BY <1>1, <1>3, <1>12, <1>13, <2>1, <3>1 DEF CallsRight, Draws
  <2>2. CASE k = m
    <3>1. DrawersOf(k) = {}
      BY <1>1, <1>10, <2>2 DEF DrawersOf
    <3>2. Cardinality(DrawersOf(k)') = 0
      BY <1>12, <3>1, FS_EmptySet
    <3>3. ops'[k] = op /\ drawn'[k] = 0 /\ op.n \in Nat \ {0}
      BY <1>1, <1>2, <1>13, <2>2
    <3>4. Extra(k)' = 0
      BY <3>3 DEF Extra
    <3>5. Cardinality(CopiesOf(k)') = Copies(op) /\ CopiesOf(k)' # {}
      BY <1>3, <2>2
    <3> QED
      BY <1>1, <3>2, <3>4, <3>5
  <2> QED
    BY <1>5, <2>1, <2>2
<1>14. Draws'
  BY <1>13 DEF Draws
<1>15. \A k \in OpId : (Done(k)' <=> Done(k)) /\ (Uncounted(k)' <=> Uncounted(k))
  <2>1. ASSUME NEW k \in OpId
        PROVE  Done(k)' <=> Done(k)
    BY <1>2 DEF Done, Indices, Counted
  <2> QED
    BY <1>2, <1>4, <2>1 DEF Uncounted
<1>16. Uncounts'
  <2>1. \A w \in Worker : wpc'[w] = "uncount" =>
          IF ops'[cur'[w]].kind = "async" THEN Done(cur[w])'
          ELSE drawn'[cur'[w]] > ops'[cur'[w]].n
    BY <1>1, <1>2, <1>4, <1>10, <1>15 DEF CallsRight, Uncounts
  <2>2. \A v, w \in Worker :
          wpc'[v] = "uncount" /\ wpc'[w] = "uncount" /\ cur'[v] = cur'[w] => v = w
    BY <1>1, <1>4 DEF CallsRight, Uncounts
  <2> QED
    BY <1>4, <2>1, <2>2 DEF Uncounts
<1>17. taskCount' = Pending' + Cardinality(Outstanding')
  <2>1. /\ hpc \in [Host -> HostPlaces] /\ IsFiniteSet(Pushing) /\ Pending \in Nat
        /\ taskCount = Pending + Cardinality(Outstanding)
    BY <1>1, PendingFacts DEF CallsRight
  <2>2. IsFiniteSet(Outstanding) /\ Cardinality(Outstanding) \in Nat /\ m \notin Outstanding
    BY <1>1, OutstandingFinite DEF Outstanding
  <2>3. \A k \in OpId : k \in Outstanding' <=> k \in Outstanding
    BY <1>2, <1>6, <1>15 DEF Outstanding, Counted
  <2>4. CASE Counted(op)
    <3>1. Pending' = Pending - 1
      <4>1. hpc' = [hpc EXCEPT ![h] = "notify"] /\ hpc[h] = "push" /\ "notify" # "push"
        BY <1>4, <2>4
      <4> QED
        BY <2>1, <4>1, PendingCount DEF HostPlaces
    <3>2. ~Uncounted(m)'
      <4>1. CASE op.kind = "async"
        <5>1. ops'[m] = op /\ ended'[m] = {} /\ Indices(m)' = 0..0
          BY <1>1, <1>2, <4>1 DEF Indices
        <5>2. 0 \in 0..0
          OBVIOUS
        <5>3. ~Done(m)'
          BY <2>4, <5>1, <5>2 DEF Done, Counted
        <5> QED
          BY <4>1, <5>1, <5>3 DEF Uncounted
      <4>2. CASE op.kind = "parallel"
        <5>1. ops'[m] = op /\ drawn'[m] = 0 /\ op.n \in Nat \ {0}
          BY <1>1, <1>2, <4>2
        <5> QED
          BY <4>2, <5>1 DEF Uncounted
      <4> QED
        BY <2>4, <4>1, <4>2 DEF Counted
    <3>3. m \in Outstanding'
      BY <1>2, <2>4, <3>2 DEF Outstanding, Counted
    <3>5. Outstanding \subseteq OpId /\ Outstanding' \subseteq OpId'
      BY DEF Outstanding
    <3>6. Outstanding' = Outstanding \cup {m}
      BY <1>5, <2>3, <3>3, <3>5
    <3>4. Cardinality(Outstanding') = Cardinality(Outstanding) + 1
      BY <2>2, <3>6, FS_AddElement
    <3> QED
      BY <1>4, <2>1, <2>2, <3>1, <3>4
  <2>5. CASE ~Counted(op)
    <3>1. Pending' = Pending
      <4>1. hpc' = [hpc EXCEPT ![h] = "notify"] /\ hpc[h] # "push" /\ "notify" # "push"
        BY <1>4, <2>5
      <4> QED
        BY <2>1, <4>1, PendingCount DEF HostPlaces
    <3>2. Outstanding' = Outstanding
      BY <1>2, <1>5, <2>2, <2>3, <2>5 DEF Outstanding, Counted
    <3> QED
      BY <1>4, <2>1, <3>1, <3>2
  <2> QED
    BY <2>4, <2>5
<1> QED
  BY <1>7, <1>8, <1>9, <1>11, <1>14, <1>16, <1>17 DEF CallsRight

LEMMA DrawnFacts ==
  ASSUME Typed, NEW k \in OpId
  PROVE  /\ drawn[k] \in Nat /\ drawn[k] < CountSize /\ ops[k].n \in Nat /\ Extra(k) \in Nat
         /\ ops[k] \in Operation
<1>1. ops[k] \in Operation
  BY OpIdFacts
<1>2. ops[k].n \in Nat
  BY <1>1, OperationFacts
<1>3. drawn[k] \in Nat /\ drawn[k] < CountSize
  <2>1. drawn[k] \in 0..(CountSize - 1) /\ CountSize \in Nat \ {0}
    BY SizeAssumption DEF Typed
  <2> QED
    BY <2>1
<1> QED
  BY <1>1, <1>2, <1>3 DEF Extra

\* A worker takes the first task: the call of an async begins with it.
LEMMA TakeKeeps ==
  ASSUME CallInv, NEW w \in Worker, Take(w)
  PROVE  CallsRight'
<1>0. PICK k : k = tasks[1]
  OBVIOUS
<1>1. /\ Typed /\ Placed /\ CallsRight /\ k \in OpId /\ ops[k] \in Operation
      /\ Len(tasks) \in Nat \ {0} /\ tasks[1] = k /\ Len(tasks') = Len(tasks) - 1
      /\ \A i \in 1..Len(tasks') : tasks'[i] = tasks[i + 1] /\ i + 1 \in 1..Len(tasks)
      /\ \A i \in 1..Len(tasks) : tasks[i] \in OpId
      /\ OpId = 1..Len(ops) /\ Len(ops) \in Nat /\ \A v \in Worker : cur[v] \in Nat
  <2>1. Typed /\ Placed /\ CallsRight
    BY DEF CallInv
  <2>2. /\ Len(tasks) \in Nat \ {0} /\ tasks[1] \in OpId /\ Len(tasks') = Len(tasks) - 1
        /\ \A i \in 1..Len(tasks') : tasks'[i] = tasks[i + 1]
    BY <2>1, TakeEffect
  <2>3. \A i \in 1..Len(tasks') : i + 1 \in 1..Len(tasks)
    BY <2>2
  <2>4. \A v \in Worker : cur[v] \in Nat
    BY <2>1 DEF Typed
  <2> QED
    BY <1>0, <2>1, <2>2, <2>3, <2>4, OpIdFacts
<1>2. /\ UNCHANGED <<ops, stop, taskCount, drawn, ended, hpc, hop, mark>>
      /\ cur' = [cur EXCEPT ![w] = k] /\ idx' = [idx EXCEPT ![w] = 0]
      /\ wpc' = [wpc EXCEPT ![w] = StartOf(ops[k])] /\ wpc[w] = "loop"
      /\ begun' = IF ops[k].kind = "async" THEN [begun EXCEPT ![k] = @ \cup {0}] ELSE begun
  BY <1>0, <1>1, TakeEffect DEF Take, Goes, hosts
<1>3. /\ OpId' = OpId /\ \A j : Indices(j)' = Indices(j) /\ (Done(j)' <=> Done(j))
  BY <1>2 DEF OpId, Indices, Done, Counted
<1>4. /\ cur'[w] = k /\ idx'[w] = 0 /\ wpc'[w] = StartOf(ops[k])
      /\ wpc'[w] \in {"calling", "draw", "arrive"}
      /\ wpc'[w] = "calling" <=> ops[k].kind = "async"
      /\ wpc'[w] = "draw" <=> ops[k].kind = "parallel"
      /\ \A v \in Worker \ {w} : cur'[v] = cur[v] /\ idx'[v] = idx[v] /\ wpc'[v] = wpc[v]
  BY <1>1, <1>2 DEF Typed, StartOf
<1>5. /\ \A j \in OpId \ {k} : begun'[j] = begun[j]
      /\ ops[k].kind # "async" => begun'[k] = begun[k]
      /\ ops[k].kind = "async" => begun'[k] = begun[k] \cup {0}
  BY <1>1, <1>2 DEF Typed
<1>6. \A j : /\ j = k => Cardinality(CopiesOf(j)') = Cardinality(CopiesOf(j)) - 1
             /\ j # k => Cardinality(CopiesOf(j)') = Cardinality(CopiesOf(j))
  BY <1>0, TakeEffect DEF CallInv
<1>7. 1 \in CopiesOf(k)
  BY <1>1 DEF CopiesOf, Places
<1>8. Typed'
  BY WorkerTyped DEF CallInv
<1>9. \A j : j # k => (CopiesOf(j)' = {} <=> CopiesOf(j) = {})
  <2>1. ASSUME NEW j
        PROVE  Cardinality(CopiesOf(j)') = 0 <=> CopiesOf(j)' = {}
    BY <1>8, PlacesFinite DEF Typed, CopiesOf
  <2> QED
    BY <1>1, <1>6, <2>1, CopiesFacts
<1>10. ops[k].kind = "async" => begun[k] = {} /\ ended[k] = {} /\ CopiesOf(k)' = {}
  <2>1. ASSUME ops[k].kind = "async"
        PROVE  begun[k] = {} /\ ended[k] = {}
    BY <1>1, <1>7, <2>1 DEF CallsRight, Begun
  <2>2. ASSUME ops[k].kind = "async", NEW i \in 1..Len(tasks'), tasks'[i] = k
        PROVE  FALSE
    <3>1. tasks[i + 1] = k /\ i + 1 \in 1..Len(tasks) /\ 1 \in 1..Len(tasks)
      BY <1>1, <2>2
    <3>2. i + 1 = 1
      BY <1>1, <2>2, <3>1 DEF CallsRight, OnlyCopy
    <3> QED
      BY <1>1, <3>2
  <2> QED
    BY <2>1, <2>2 DEF CopiesOf, Places
<1>11. Fifo'
  <2>1. \A i, j \in 1..Len(tasks') : i <= j => tasks'[i] <= tasks'[j]
    BY <1>1 DEF CallsRight, Fifo
  <2>2. ASSUME NEW v \in Worker, NEW i \in 1..Len(tasks')
        PROVE  cur'[v] <= tasks'[i]
    <3>1. CASE v # w
      <4>1. cur'[v] = cur[v] /\ tasks'[i] = tasks[i + 1] /\ i + 1 \in 1..Len(tasks)
        BY <1>1, <1>4, <3>1
      <4> QED
        BY <1>1, <4>1 DEF CallsRight, Fifo
    <3>2. CASE v = w
      <4>1. tasks[1] <= tasks[i + 1]
        BY <1>1 DEF CallsRight, Fifo
      <4> QED
        BY <1>1, <1>4, <3>2, <4>1
    <3> QED
      BY <3>1, <3>2
  <2> QED
    BY <2>1, <2>2 DEF Fifo
<1>12. ASSUME NEW j \in OpId'
       PROVE  Begun(j)'
  <2>1. /\ j \in OpId /\ Begun(j) /\ ops'[j] = ops[j] /\ Indices(j)' = Indices(j)
        /\ drawn'[j] = drawn[j] /\ ended'[j] = ended[j]
    BY <1>1, <1>2, <1>3 DEF CallsRight
  <2>2. CASE j # k
    <3>1. begun'[j] = begun[j] /\ (CopiesOf(j)' = {} <=> CopiesOf(j) = {})
      BY <1>5, <1>9, <2>1, <2>2
    <3> QED
      BY <2>1, <3>1 DEF Begun
  <2>3. CASE j = k /\ ops[k].kind = "async"
    <3>1. begun'[j] = {0} /\ ended'[j] = {} /\ CopiesOf(j)' = {} /\ ops'[j].kind = "async"
      BY <1>5, <1>10, <2>1, <2>3
    <3> QED
      BY <3>1, KindsApart DEF Begun
  <2>4. CASE j = k /\ ops[k].kind # "async"
    <3>1. begun'[j] = begun[j] /\ ops'[j].kind # "async"
      BY <1>5, <2>1, <2>4
    <3> QED
      BY <2>1, <3>1 DEF Begun
  <2> QED
    BY <2>2, <2>3, <2>4
<1>13. OnlyCopy'
  <2>1. ASSUME NEW i \in 1..Len(tasks'), NEW j \in 1..Len(tasks'), tasks'[i] = tasks'[j],
               ops'[tasks'[i]].kind = "async"
        PROVE  i = j
    <3>1. /\ i + 1 \in 1..Len(tasks) /\ j + 1 \in 1..Len(tasks) /\ tasks[i + 1] = tasks[j + 1]
          /\ ops[tasks[i + 1]].kind = "async"
      BY <1>1, <1>2, <2>1
    <3>2. i + 1 = j + 1
      BY <1>1, <3>1 DEF CallsRight, OnlyCopy
    <3> QED
      BY <1>1, <3>2
  <2> QED
    BY <2>1 DEF OnlyCopy
<1>14. Calls'
  <2>1. ASSUME NEW v \in Worker, wpc'[v] = "calling"
        PROVE  idx'[v] \in begun'[cur'[v]] \ ended'[cur'[v]]
    <3>1. CASE v = w
      BY <1>2, <1>4, <1>5, <1>10, <2>1, <3>1
    <3>2. CASE v # w
      <4>1. wpc[v] = "calling" /\ cur'[v] = cur[v] /\ idx'[v] = idx[v] /\ cur[v] \in OpId
        BY <1>1, <1>4, <2>1, <3>2 DEF Placed
      <4>2. idx[v] \in begun[cur[v]] \ ended[cur[v]]
        BY <1>1, <4>1 DEF CallsRight, Calls
      <4>3. begun[cur[v]] \subseteq begun'[cur[v]]
        BY <1>5, <4>1
      <4> QED
        BY <1>2, <4>1, <4>2, <4>3
    <3> QED
      BY <3>1, <3>2
  <2>2. ASSUME NEW v \in Worker, v # w, wpc'[v] = "calling", cur'[v] = k, wpc'[w] = "calling"
        PROVE  FALSE
    <3>1. wpc[v] = "calling" /\ cur[v] = k /\ begun[k] = {}
      BY <1>4, <1>10, <2>2
    <3> QED
      BY <1>1, <3>1 DEF CallsRight, Calls
  <2>3. ASSUME NEW u \in Worker, NEW v \in Worker, wpc'[u] = "calling", wpc'[v] = "calling",
               cur'[u] = cur'[v], idx'[u] = idx'[v]
        PROVE  u = v
    <3>1. CASE u # w /\ v # w
      BY <1>1, <1>4, <2>3, <3>1 DEF CallsRight, Calls
    <3>2. CASE u = w \/ v = w
      BY <1>4, <2>2, <2>3, <3>2
    <3> QED
      BY <3>1, <3>2
  <2>4. ASSUME NEW j \in OpId', NEW i \in begun'[j] \ ended'[j]
        PROVE  \E v \in Worker : wpc'[v] = "calling" /\ cur'[v] = j /\ idx'[v] = i
    <3>1. CASE j = k /\ ops[k].kind = "async"
      BY <1>4, <1>5, <1>10, <2>4, <3>1
    <3>2. CASE ~(j = k /\ ops[k].kind = "async")
      <4>1. j \in OpId /\ i \in begun[j] \ ended[j]
        BY <1>2, <1>3, <1>5, <2>4, <3>2
      <4>2. PICK v \in Worker : wpc[v] = "calling" /\ cur[v] = j /\ idx[v] = i
        BY <1>1, <4>1 DEF CallsRight, Calls
      <4> QED
        BY <1>2, <1>4, <4>2
    <3> QED
      BY <3>1, <3>2
  <2> QED
    BY <2>1, <2>3, <2>4 DEF Calls
<1>15. Draws'
  <2>1. ASSUME NEW j \in OpId', ops'[j].kind = "parallel"
        PROVE  /\ drawn'[j] < ops'[j].n => CopiesOf(j)' # {} \/ DrawersOf(j)' # {}
               /\ Cardinality(CopiesOf(j)') + Cardinality(DrawersOf(j)') + Extra(j)' <= N
    <3>1. /\ j \in OpId /\ ops'[j] = ops[j] /\ drawn'[j] = drawn[j] /\ Extra(j)' = Extra(j)
          /\ drawn[j] < ops[j].n => CopiesOf(j) # {} \/ DrawersOf(j) # {}
          /\ Cardinality(CopiesOf(j)) + Cardinality(DrawersOf(j)) + Extra(j) <= N
      BY <1>1, <1>2, <1>3, <2>1 DEF CallsRight, Draws, Extra
    <3>2. CASE j # k
      <4>1. DrawersOf(j)' = DrawersOf(j)
        BY <1>2, <1>4, <3>2 DEF DrawersOf
      <4> QED
        BY <1>6, <1>9, <3>1, <3>2, <4>1
    <3>3. CASE j = k
      <4>1. wpc'[w] = "draw"
        BY <1>2, <1>4, <2>1, <3>3
      <4>2. DrawersOf(j)' = DrawersOf(j) \cup {w} /\ w \notin DrawersOf(j)
        BY <1>2, <1>4, <3>3, <4>1 DEF DrawersOf
      <4>3. DrawersOf(j) \in SUBSET Worker
        BY DEF DrawersOf
      <4>4. Cardinality(DrawersOf(j)') = Cardinality(DrawersOf(j)) + 1
        BY <4>2, <4>3, WorkerCount, FS_AddElement
      <4>5. /\ Cardinality(CopiesOf(j)') = Cardinality(CopiesOf(j)) - 1
            /\ Cardinality(CopiesOf(j)) \in Nat /\ Cardinality(DrawersOf(j)) \in Nat
        BY <1>1, <1>6, <3>3, <4>3, CopiesFacts, WorkerCount
      <4>6. Extra(j) \in Nat
        BY <1>1, <3>3, DrawnFacts
      <4>7. N \in Nat
        BY WorkersCounted
      <4> QED
        BY <3>1, <4>2, <4>4, <4>5, <4>6, <4>7
    <3> QED
      BY <3>2, <3>3
  <2> QED
    BY <2>1 DEF Draws
<1>16. \A v \in Worker : wpc'[v] = "uncount" <=> (wpc[v] = "uncount" /\ v # w)
  BY <1>2, <1>4
<1>17. Uncounts'
  <2>1. \A v \in Worker : wpc'[v] = "uncount" => wpc[v] = "uncount" /\ cur'[v] = cur[v]
    BY <1>4, <1>16
  <2> QED
    BY <1>1, <1>2, <1>3, <2>1 DEF CallsRight, Uncounts
<1>18. Outstanding' = Outstanding
  <2>1. ASSUME NEW j \in OpId
        PROVE  Uncounted(j)' <=> Uncounted(j)
    <3>1. \A v \in Worker : (wpc'[v] = "uncount" /\ cur'[v] = j) <=> (wpc[v] = "uncount" /\ cur[v] = j)
      BY <1>2, <1>4, <1>16
    <3>2. (\A v \in Worker : wpc'[v] = "uncount" => cur'[v] # j)
             <=> (\A v \in Worker : wpc[v] = "uncount" => cur[v] # j)
      BY <3>1
    <3>3. ops'[j] = ops[j] /\ drawn'[j] = drawn[j] /\ (Done(j)' <=> Done(j))
      BY <1>2, <1>3
    <3> QED
      BY <3>2, <3>3 DEF Uncounted
  <2> QED
    BY <1>2, <1>3, <2>1 DEF Outstanding, Counted
<1>19. taskCount' = Pending' + Cardinality(Outstanding')
  BY <1>1, <1>2, <1>18, PendingFacts DEF CallsRight
<1> QED
  BY <1>11, <1>12, <1>13, <1>14, <1>15, <1>17, <1>19 DEF CallsRight

\* A copy of a parallel draws an index: a call, the end of the count, or nothing.
LEMMA DrawKeeps ==
  ASSUME CallInv, NEW w \in Worker, Draw(w)
  PROVE  CallsRight'
<1>0. PICK k, i, n : k = cur[w] /\ i = drawn[cur[w]] /\ n = ops[cur[w]].n
  OBVIOUS
<1>1. /\ Typed /\ Placed /\ CallsRight /\ k \in OpId /\ ops[k] \in Operation
      /\ ops[k].kind = "parallel" /\ i \in Nat /\ n \in Nat \ {0} /\ ops[k].n = n /\ drawn[k] = i
      /\ wpc[w] = "draw" /\ cur[w] = k
  BY <1>0, OperationFacts, DrawnFacts DEF CallInv, Placed, Draw
<1>2. w \in DrawersOf(k) /\ DrawersOf(k) \in SUBSET Worker
  BY <1>1 DEF DrawersOf
<1>3. /\ Cardinality(DrawersOf(k)) \in Nat \ {0} /\ Cardinality(CopiesOf(k)) \in Nat
      /\ Cardinality(CopiesOf(k)) + Cardinality(DrawersOf(k)) + Extra(k) <= N
      /\ N \in Nat /\ Extra(k) \in Nat
  BY <1>1, <1>2, WorkerCount, WorkersCounted, CopiesFacts, DrawnFacts DEF CallsRight, Draws
<1>4. i + 1 < CountSize
  <2>1. n + N < CountSize /\ CountSize \in Nat
    BY <1>1, OperationFacts, SizeAssumption
  <2>2. i <= n + Extra(k)
    BY <1>1 DEF Extra
  <2>3. Extra(k) + 1 <= N
    BY <1>3
  <2> QED
    BY <1>1, <1>3, <2>1, <2>2, <2>3
<1>5. /\ UNCHANGED <<ops, tasks, stop, taskCount, ended, cur, hpc, hop, mark>>
      /\ drawn' = [drawn EXCEPT ![k] = i + 1] /\ idx' = [idx EXCEPT ![w] = i]
      /\ begun' = IF i < n THEN [begun EXCEPT ![k] = @ \cup {i}] ELSE begun
      /\ wpc' = [wpc EXCEPT ![w] = IF i < n THEN "calling" ELSE IF i = n THEN "uncount" ELSE "loop"]
  <2>1. (i + 1) % CountSize = i + 1
    BY <1>1, <1>4, NoWraparound, SizeAssumption
  <2> QED
    BY <1>0, <2>1 DEF Draw, Goes, queue, hosts
<1>6. /\ OpId' = OpId
      /\ \A j : Indices(j)' = Indices(j) /\ CopiesOf(j)' = CopiesOf(j) /\ (Done(j)' <=> Done(j))
  BY <1>5 DEF OpId, Indices, Done, Counted, CopiesOf, Places
<1>7. /\ idx'[w] = i /\ cur'[w] = k
      /\ i < n => wpc'[w] = "calling"
      /\ i = n => wpc'[w] = "uncount"
      /\ i > n => wpc'[w] = "loop"
      /\ \A v \in Worker \ {w} : cur'[v] = cur[v] /\ idx'[v] = idx[v] /\ wpc'[v] = wpc[v]
  BY <1>1, <1>5 DEF Typed
<1>8. /\ drawn'[k] = i + 1 /\ \A j \in OpId \ {k} : drawn'[j] = drawn[j]
      /\ \A j \in OpId \ {k} : begun'[j] = begun[j]
      /\ i < n => begun'[k] = begun[k] \cup {i}
      /\ i >= n => begun'[k] = begun[k]
  BY <1>1, <1>5 DEF Typed
<1>9. /\ begun[k] = {x \in Indices(k) : x < i} /\ ended[k] \subseteq begun[k]
      /\ Indices(k) = 0..(n - 1) /\ i \notin begun[k]
  BY <1>1 DEF CallsRight, Begun, Indices
<1>10. Fifo' /\ OnlyCopy'
  BY <1>1, <1>5 DEF CallsRight, Fifo, OnlyCopy
<1>11. ASSUME NEW j \in OpId'
       PROVE  Begun(j)'
  <2>1. CASE j # k
    <3>1. /\ Begun(j) /\ drawn'[j] = drawn[j] /\ begun'[j] = begun[j] /\ ended'[j] = ended[j]
          /\ ops'[j] = ops[j] /\ Indices(j)' = Indices(j) /\ CopiesOf(j)' = CopiesOf(j)
      BY <1>1, <1>5, <1>6, <1>8, <2>1 DEF CallsRight
    <3> QED
      BY <3>1 DEF Begun
  <2>2. CASE j = k
    <3>1. begun'[k] = {x \in Indices(k)' : x < drawn'[k]}
      <4>1. Indices(k)' = 0..(n - 1) /\ drawn'[k] = i + 1
        BY <1>6, <1>8, <1>9
      <4>2. CASE i < n
        BY <1>1, <1>8, <1>9, <4>1, <4>2
      <4>3. CASE i >= n
        BY <1>1, <1>8, <1>9, <4>1, <4>3
      <4> QED
        BY <1>1, <4>2, <4>3
    <3>2. ended'[k] \subseteq begun'[k] /\ ops'[k].kind = "parallel"
      BY <1>1, <1>5, <1>8, <1>9
    <3> QED
      BY <2>2, <3>1, <3>2, KindsApart DEF Begun
  <2> QED
    BY <2>1, <2>2
<1>12. \A j \in OpId : begun[j] \subseteq begun'[j]
  BY <1>1, <1>8
<1>13. Calls'
  <2>1. ASSUME NEW v \in Worker, wpc'[v] = "calling"
        PROVE  idx'[v] \in begun'[cur'[v]] \ ended'[cur'[v]]
    <3>1. CASE v = w
      <4>1. i < n
        BY <1>1, <1>7, <2>1, <3>1
      <4> QED
        BY <1>5, <1>7, <1>8, <1>9, <3>1, <4>1
    <3>2. CASE v # w
      <4>1. wpc[v] = "calling" /\ cur'[v] = cur[v] /\ idx'[v] = idx[v] /\ cur[v] \in OpId
        BY <1>1, <1>7, <2>1, <3>2 DEF Placed
      <4>2. idx[v] \in begun[cur[v]] \ ended[cur[v]]
        BY <1>1, <4>1 DEF CallsRight, Calls
      <4> QED
        BY <1>5, <1>12, <4>1, <4>2
    <3> QED
      BY <3>1, <3>2
  <2>2. ASSUME NEW v \in Worker, v # w, wpc'[v] = "calling", cur'[v] = k, idx'[v] = i
        PROVE  FALSE
    <3>1. wpc[v] = "calling" /\ cur[v] = k /\ idx[v] = i
      BY <1>7, <2>2
    <3> QED
      BY <1>1, <1>9, <3>1 DEF CallsRight, Calls
  <2>3. ASSUME NEW u \in Worker, NEW v \in Worker, wpc'[u] = "calling", wpc'[v] = "calling",
               cur'[u] = cur'[v], idx'[u] = idx'[v]
        PROVE  u = v
    <3>1. CASE u # w /\ v # w
      BY <1>1, <1>7, <2>3, <3>1 DEF CallsRight, Calls
    <3>2. CASE u = w \/ v = w
      BY <1>7, <2>2, <2>3, <3>2
    <3> QED
      BY <3>1, <3>2
  <2>4. ASSUME NEW j \in OpId', NEW x \in begun'[j] \ ended'[j]
        PROVE  \E v \in Worker : wpc'[v] = "calling" /\ cur'[v] = j /\ idx'[v] = x
    <3>1. CASE x \in begun[j]
      <4>1. j \in OpId /\ x \in begun[j] \ ended[j]
        BY <1>5, <1>6, <2>4, <3>1
      <4>2. PICK v \in Worker : wpc[v] = "calling" /\ cur[v] = j /\ idx[v] = x
        BY <1>1, <4>1 DEF CallsRight, Calls
      <4> QED
        BY <1>1, <1>7, <4>2
    <3>2. CASE x \notin begun[j]
      <4>1. j = k /\ i < n /\ x = i
        BY <1>1, <1>6, <1>8, <2>4, <3>2
      <4> QED
        BY <1>7, <4>1
    <3> QED
      BY <3>1, <3>2
  <2> QED
    BY <2>1, <2>3, <2>4 DEF Calls
<1>14. Draws'
  <2>1. ASSUME NEW j \in OpId', ops'[j].kind = "parallel"
        PROVE  /\ drawn'[j] < ops'[j].n => CopiesOf(j)' # {} \/ DrawersOf(j)' # {}
               /\ Cardinality(CopiesOf(j)') + Cardinality(DrawersOf(j)') + Extra(j)' <= N
    <3>1. /\ j \in OpId /\ ops'[j] = ops[j] /\ CopiesOf(j)' = CopiesOf(j)
          /\ drawn[j] < ops[j].n => CopiesOf(j) # {} \/ DrawersOf(j) # {}
          /\ Cardinality(CopiesOf(j)) + Cardinality(DrawersOf(j)) + Extra(j) <= N
      BY <1>1, <1>5, <1>6, <2>1 DEF CallsRight, Draws
    <3>2. CASE j # k
      <4>1. DrawersOf(j)' = DrawersOf(j)
        BY <1>1, <1>7, <3>2 DEF DrawersOf
      <4>2. drawn'[j] = drawn[j] /\ Extra(j)' = Extra(j)
        BY <1>8, <3>1, <3>2 DEF Extra
      <4> QED
        BY <3>1, <4>1, <4>2
    <3>3. CASE j = k /\ i < n
      <4>1. DrawersOf(j)' = DrawersOf(j) /\ w \in DrawersOf(j)
        BY <1>1, <1>7, <3>3 DEF DrawersOf
      <4>2. Extra(j)' = 0 /\ Extra(j) = 0
        <5>1. drawn'[j] = i + 1 /\ ops'[j].n = n /\ drawn[j] = i /\ ops[j].n = n
          BY <1>1, <1>8, <3>1, <3>3
        <5> QED
          BY <1>1, <3>3, <5>1 DEF Extra
      <4> QED
        BY <3>1, <4>1, <4>2
    <3>4. CASE j = k /\ i >= n
      <4>1. DrawersOf(j)' = DrawersOf(j) \ {w}
        BY <1>1, <1>7, <3>4 DEF DrawersOf
      <4>2. Cardinality(DrawersOf(j)') = Cardinality(DrawersOf(j)) - 1
        BY <1>2, <3>4, <4>1, WorkerCount, FS_RemoveElement
      <4>3. drawn'[j] = i + 1 /\ ops'[j].n = n /\ drawn[j] = i /\ ops[j].n = n
        BY <1>1, <1>8, <3>1, <3>4
      <4>4. Extra(j)' = Extra(j) + 1
        BY <1>1, <3>4, <4>3 DEF Extra
      <4> QED
        BY <1>1, <1>3, <3>1, <3>4, <4>2, <4>3, <4>4
    <3> QED
      BY <1>1, <3>2, <3>3, <3>4
  <2> QED
    BY <2>1 DEF Draws
<1>15. \A j \in OpId : drawn[j] \in Nat /\ drawn[j] <= drawn'[j] /\ ops[j].n \in Nat
  BY <1>1, <1>8, DrawnFacts
<1>16. \A v \in Worker : v # w => (wpc'[v] = "uncount" <=> wpc[v] = "uncount")
  BY <1>7
<1>17. \A v \in Worker : wpc[v] = "uncount" => v # w /\ cur[v] \in OpId /\ (cur[v] = k => i > n)
  BY <1>1 DEF Placed, CallsRight, Uncounts
<1>18. Uncounts'
  <2>1. ASSUME NEW v \in Worker, wpc'[v] = "uncount"
        PROVE  IF ops'[cur'[v]].kind = "async" THEN Done(cur[v])'
               ELSE drawn'[cur'[v]] > ops'[cur'[v]].n
    <3>1. CASE v = w
      <4>1. i = n
        BY <1>1, <1>7, <2>1, <3>1
      <4> QED
        BY <1>1, <1>5, <1>8, <3>1, <4>1
    <3>2. CASE v # w
      <4>1. wpc[v] = "uncount" /\ cur[v] \in OpId /\ cur'[v] = cur[v]
        BY <1>7, <1>17, <2>1, <3>2
      <4>2. IF ops[cur[v]].kind = "async" THEN Done(cur[v]) ELSE drawn[cur[v]] > ops[cur[v]].n
        BY <1>1, <4>1 DEF CallsRight, Uncounts
      <4>3. PICK x \in OpId : x = cur[v] /\ cur'[v] = x
        BY <4>1
      <4>4. CASE ops[x].kind = "async"
        <5>1. Done(x)'
          BY <1>6, <4>2, <4>3, <4>4
        <5> QED
          BY <1>5, <4>3, <4>4, <5>1
      <4>5. CASE ops[x].kind # "async"
        <5>1. drawn[x] > ops[x].n
          BY <4>2, <4>3, <4>5
        <5>2. drawn'[x] > ops[x].n
          BY <1>8, <1>1, <1>15, <4>3, <5>1
        <5> QED
          BY <1>5, <4>3, <4>5, <5>2
      <4> QED
        BY <4>4, <4>5
    <3> QED
      BY <3>1, <3>2
  <2>2. ASSUME NEW u \in Worker, NEW v \in Worker, wpc'[u] = "uncount", wpc'[v] = "uncount",
               cur'[u] = cur'[v]
        PROVE  u = v
    <3>1. CASE u # w /\ v # w
      BY <1>1, <1>7, <2>2, <3>1 DEF CallsRight, Uncounts
    <3>2. CASE u = w /\ v # w
      BY <1>1, <1>7, <1>17, <2>2, <3>2
    <3>3. CASE v = w /\ u # w
      BY <1>1, <1>7, <1>17, <2>2, <3>3
    <3> QED
      BY <3>1, <3>2, <3>3
  <2> QED
    BY <1>5, <2>1, <2>2 DEF Uncounts
<1>19. Outstanding' = Outstanding
  <2>1. ASSUME NEW j \in OpId, Counted(ops[j])
        PROVE  Uncounted(j)' <=> Uncounted(j)
    <3>1. CASE j # k
      <4>1. \A v \in Worker : (wpc'[v] = "uncount" /\ cur'[v] = j)
                                 <=> (wpc[v] = "uncount" /\ cur[v] = j)
        BY <1>1, <1>7, <1>16, <1>17, <3>1
      <4>2. (\A v \in Worker : wpc'[v] = "uncount" => cur'[v] # j)
               <=> (\A v \in Worker : wpc[v] = "uncount" => cur[v] # j)
        BY <4>1
      <4>3. ops'[j] = ops[j] /\ drawn'[j] = drawn[j] /\ (Done(j)' <=> Done(j))
        BY <1>5, <1>6, <1>8, <3>1
      <4> QED
        BY <4>2, <4>3 DEF Uncounted
    <3>2. CASE j = k /\ i < n
      <4>1. ~(drawn[j] > ops[j].n) /\ ~(drawn'[j] > ops'[j].n)
        BY <1>1, <1>5, <1>8, <3>2
      <4> QED
        BY <1>1, <1>5, <3>2, <4>1 DEF Uncounted
    <3>3. CASE j = k /\ i = n
      <4>1. ~Uncounted(j)
        BY <1>1, <3>3 DEF Uncounted
      <4>2. ~Uncounted(j)'
        BY <1>7, <3>3 DEF Uncounted
      <4> QED
        BY <4>1, <4>2
    <3>4. CASE j = k /\ i > n
      <4>1. \A v \in Worker : (wpc'[v] = "uncount" /\ cur'[v] = j)
                                 <=> (wpc[v] = "uncount" /\ cur[v] = j)
        BY <1>1, <1>7, <3>4
      <4>2. (\A v \in Worker : wpc'[v] = "uncount" => cur'[v] # j)
               <=> (\A v \in Worker : wpc[v] = "uncount" => cur[v] # j)
        BY <4>1
      <4>3. drawn[j] > ops[j].n /\ drawn'[j] > ops'[j].n
        BY <1>1, <1>5, <1>8, <3>4
      <4> QED
        BY <1>1, <1>5, <3>4, <4>2, <4>3 DEF Uncounted
    <3> QED
      BY <1>1, <3>1, <3>2, <3>3, <3>4
  <2> QED
    BY <1>5, <1>6, <2>1 DEF Outstanding
<1>20. taskCount' = Pending' + Cardinality(Outstanding')
  BY <1>1, <1>5, <1>19, PendingFacts DEF CallsRight
<1> QED
  BY <1>10, <1>11, <1>13, <1>14, <1>18, <1>20 DEF CallsRight

\* A call ends; that of an async is the only one.
LEMMA EndCallKeeps ==
  ASSUME CallInv, NEW w \in Worker, EndCall(w)
  PROVE  CallsRight'
<1>0. PICK k, i : k = cur[w] /\ i = idx[w]
  OBVIOUS
<1>1. /\ Typed /\ Placed /\ CallsRight /\ k \in OpId /\ Counted(ops[k]) /\ i \in Nat
      /\ ops[k] \in Operation /\ i \in begun[k] \ ended[k]
      /\ wpc[w] = "calling" /\ cur[w] = k /\ idx[w] = i
  <2>1. Typed /\ Placed /\ CallsRight /\ wpc[w] = "calling"
    BY DEF CallInv, EndCall
  <2>2. k \in OpId /\ Counted(ops[k])
    BY <1>0, <2>1 DEF Placed
  <2>3. i \in Nat
    BY <1>0, <2>1, SizeAssumption DEF Typed
  <2>4. i \in begun[k] \ ended[k]
    BY <1>0, <2>1 DEF CallsRight, Calls
  <2> QED
    BY <1>0, <2>1, <2>2, <2>3, <2>4, OpIdFacts
<1>2. /\ UNCHANGED <<ops, tasks, stop, taskCount, drawn, begun, cur, idx, hpc, hop, mark>>
      /\ ended' = [ended EXCEPT ![k] = @ \cup {i}]
      /\ wpc' = [wpc EXCEPT ![w] = IF ops[k].kind = "async" THEN "uncount" ELSE "draw"]
  BY <1>0 DEF EndCall, Goes, queue, hosts
<1>3. /\ OpId' = OpId
      /\ \A j : Indices(j)' = Indices(j) /\ CopiesOf(j)' = CopiesOf(j) /\ Extra(j)' = Extra(j)
  BY <1>2 DEF OpId, Indices, CopiesOf, Places, Extra
<1>4. /\ \A v \in Worker \ {w} : wpc'[v] = wpc[v]
      /\ ops[k].kind = "async" => wpc'[w] = "uncount"
      /\ ops[k].kind # "async" => wpc'[w] = "draw" /\ ops[k].kind = "parallel"
      /\ ended'[k] = ended[k] \cup {i} /\ \A j \in OpId \ {k} : ended'[j] = ended[j]
  BY <1>1, <1>2, KindsApart DEF Typed
<1>5. Fifo' /\ OnlyCopy'
  BY <1>2 DEF CallInv, CallsRight, Fifo, OnlyCopy
<1>6. ASSUME NEW j \in OpId'
      PROVE  Begun(j)'
  <2>1. /\ Begun(j) /\ drawn'[j] = drawn[j] /\ begun'[j] = begun[j] /\ ops'[j] = ops[j]
        /\ Indices(j)' = Indices(j) /\ CopiesOf(j)' = CopiesOf(j)
    BY <1>1, <1>2, <1>3 DEF CallsRight
  <2>2. ended'[j] \subseteq begun'[j]
    BY <1>1, <1>3, <1>4, <2>1 DEF Begun
  <2> QED
    BY <2>1, <2>2 DEF Begun
<1>7. Calls'
  <2>1. ASSUME NEW v \in Worker, wpc'[v] = "calling"
        PROVE  idx'[v] \in begun'[cur'[v]] \ ended'[cur'[v]]
    <3>1. v # w /\ wpc[v] = "calling" /\ cur[v] \in OpId
      BY <1>1, <1>4, <2>1 DEF Placed
    <3>2. idx[v] \in begun[cur[v]] \ ended[cur[v]]
      BY <1>1, <3>1 DEF CallsRight, Calls
    <3>3. cur[v] = k => idx[v] # i
      BY <1>1, <3>1 DEF CallsRight, Calls
    <3> QED
      BY <1>2, <1>4, <3>1, <3>2, <3>3
  <2>2. \A u, v \in Worker :
          wpc'[u] = "calling" /\ wpc'[v] = "calling" /\ cur'[u] = cur'[v] /\ idx'[u] = idx'[v]
            => u = v
    BY <1>1, <1>2, <1>4 DEF CallsRight, Calls
  <2>3. ASSUME NEW j \in OpId', NEW x \in begun'[j] \ ended'[j]
        PROVE  \E v \in Worker : wpc'[v] = "calling" /\ cur'[v] = j /\ idx'[v] = x
    <3>1. j \in OpId /\ x \in begun[j] \ ended[j] /\ ~(j = k /\ x = i)
      BY <1>2, <1>3, <1>4, <2>3
    <3>2. PICK v \in Worker : wpc[v] = "calling" /\ cur[v] = j /\ idx[v] = x
      BY <1>1, <3>1 DEF CallsRight, Calls
    <3>3. v # w
      BY <1>1, <3>1, <3>2
    <3> QED
      BY <1>2, <1>4, <3>2, <3>3
  <2> QED
    BY <2>1, <2>2, <2>3 DEF Calls
<1>8. Draws'
  <2>1. ASSUME NEW j \in OpId, ops[j].kind = "parallel"
        PROVE  DrawersOf(j)' = DrawersOf(j)
    BY <1>1, <1>2, <1>4, <2>1 DEF DrawersOf
  <2> QED
    BY <1>1, <1>2, <1>3, <2>1 DEF CallsRight, Draws
<1>9. ops[k].kind = "async" => /\ i = 0 /\ begun[k] = {0} /\ ended[k] = {} /\ ended'[k] = {0}
                               /\ Indices(k) = {0}
  <2>1. ASSUME ops[k].kind = "async"
        PROVE  begun[k] \subseteq {0} /\ ended[k] \subseteq begun[k] /\ Indices(k) = {0}
    <3>1. Indices(k) = 0..0
      BY <1>1, <2>1, OperationFacts DEF Indices
    <3> QED
      BY <1>1, <2>1, <3>1 DEF CallsRight, Begun
  <2> QED
    BY <1>1, <1>4, <2>1
<1>10. \A j \in OpId \ {k} : Done(j)' <=> Done(j)
  BY <1>2, <1>3, <1>4 DEF Done, Counted
<1>11. ops[k].kind = "async" => ~Done(k) /\ Done(k)'
  BY <1>1, <1>2, <1>3, <1>9 DEF Done, Counted
<1>12. \A v \in Worker : wpc[v] = "uncount" =>
         /\ v # w /\ cur[v] \in OpId
         /\ IF ops[cur[v]].kind = "async" THEN Done(cur[v]) ELSE drawn[cur[v]] > ops[cur[v]].n
  BY <1>1 DEF Placed, CallsRight, Uncounts
<1>13. ASSUME NEW v \in Worker, wpc[v] = "uncount", ops[cur[v]].kind = "async"
       PROVE  cur[v] # k
  BY <1>11, <1>12, <1>13
<1>14. Uncounts'
  <2>1. ASSUME NEW v \in Worker, wpc'[v] = "uncount"
        PROVE  IF ops'[cur'[v]].kind = "async" THEN Done(cur[v])'
               ELSE drawn'[cur'[v]] > ops'[cur'[v]].n
    <3>1. CASE v = w
      <4>1. ops[k].kind = "async" /\ cur'[v] = k /\ Done(k)'
        BY <1>1, <1>2, <1>4, <1>11, <2>1, <3>1
      <4> QED
        BY <1>2, <4>1
    <3>2. CASE v # w
      <4>1. wpc[v] = "uncount" /\ cur'[v] = cur[v] /\ cur[v] \in OpId
        BY <1>2, <1>4, <1>12, <2>1, <3>2
      <4>2. PICK x \in OpId : x = cur[v] /\ cur'[v] = x
        BY <4>1
      <4>3. IF ops[x].kind = "async" THEN Done(x) ELSE drawn[x] > ops[x].n
        BY <1>12, <4>1, <4>2
      <4>4. CASE ops[x].kind = "async"
        <5>1. x # k
          BY <1>13, <4>1, <4>2, <4>4
        <5>2. Done(x)'
          BY <1>10, <4>2, <4>3, <4>4, <5>1
        <5> QED
          BY <1>2, <4>2, <4>4, <5>2
      <4>5. CASE ops[x].kind # "async"
        BY <1>2, <4>2, <4>3, <4>5
      <4> QED
        BY <4>4, <4>5
    <3> QED
      BY <3>1, <3>2
  <2>2. ASSUME NEW u \in Worker, NEW v \in Worker, wpc'[u] = "uncount", wpc'[v] = "uncount",
               cur'[u] = cur'[v]
        PROVE  u = v
    <3>1. CASE u # w /\ v # w
      BY <1>1, <1>2, <1>4, <2>2, <3>1 DEF CallsRight, Uncounts
    <3>2. CASE u = w /\ v # w
      <4>1. wpc[v] = "uncount" /\ cur[v] = k /\ ops[k].kind = "async"
        BY <1>1, <1>2, <1>4, <2>2, <3>2
      <4> QED
        BY <1>13, <4>1
    <3>3. CASE v = w /\ u # w
      <4>1. wpc[u] = "uncount" /\ cur[u] = k /\ ops[k].kind = "async"
        BY <1>1, <1>2, <1>4, <2>2, <3>3
      <4> QED
        BY <1>13, <4>1
    <3> QED
      BY <3>1, <3>2, <3>3
  <2> QED
    BY <1>2, <2>1, <2>2 DEF Uncounts
<1>15. Outstanding' = Outstanding
  <2>1. ASSUME NEW j \in OpId, Counted(ops[j])
        PROVE  Uncounted(j)' <=> Uncounted(j)
    <3>1. CASE j = k /\ ops[k].kind = "async"
      <4>1. ~Uncounted(j)
        BY <1>11, <3>1 DEF Uncounted
      <4>2. ~Uncounted(j)'
        BY <1>1, <1>2, <1>4, <3>1 DEF Uncounted
      <4> QED
        BY <4>1, <4>2
    <3>2. CASE ~(j = k /\ ops[k].kind = "async")
      <4>1. \A v \in Worker : (wpc'[v] = "uncount" /\ cur'[v] = j)
                                 <=> (wpc[v] = "uncount" /\ cur[v] = j)
        BY <1>1, <1>2, <1>4, <3>2
      <4>2. (\A v \in Worker : wpc'[v] = "uncount" => cur'[v] # j)
               <=> (\A v \in Worker : wpc[v] = "uncount" => cur[v] # j)
        BY <4>1
      <4>3. ops'[j] = ops[j] /\ drawn'[j] = drawn[j]
            /\ (ops[j].kind = "async" => (Done(j)' <=> Done(j)))
        BY <1>2, <1>10, <3>2
      <4> QED
        BY <4>2, <4>3 DEF Uncounted
    <3> QED
      BY <3>1, <3>2
  <2> QED
    BY <1>2, <1>3, <2>1 DEF Outstanding
<1>16. taskCount' = Pending' + Cardinality(Outstanding')
  BY <1>1, <1>2, <1>15, PendingFacts DEF CallsRight
<1> QED
  BY <1>5, <1>6, <1>7, <1>8, <1>14, <1>16 DEF CallsRight

\* The count is lowered by the only worker that is to lower it for the operation.
LEMMA UncountKeeps ==
  ASSUME CallInv, NEW w \in Worker, Uncount(w)
  PROVE  CallsRight'
<1>0. PICK k : k = cur[w]
  OBVIOUS
<1>1. /\ Typed /\ Placed /\ CallsRight /\ k \in OpId /\ Counted(ops[k])
      /\ wpc[w] = "uncount" /\ cur[w] = k
      /\ IF ops[k].kind = "async" THEN Done(k) ELSE drawn[k] > ops[k].n
      /\ \A v \in Worker : v # w /\ wpc[v] = "uncount" => cur[v] # k
  BY <1>0 DEF CallInv, Placed, Uncount, CallsRight, Uncounts
<1>2. /\ UNCHANGED <<ops, tasks, stop, drawn, begun, ended, cur, idx, hpc, hop, mark>>
      /\ wpc' = [wpc EXCEPT ![w] = "loop"] /\ taskCount' = (taskCount - 1) % CountSize
  BY DEF Uncount, Goes, queue, work, hosts
<1>3. /\ OpId' = OpId
      /\ \A j : Indices(j)' = Indices(j) /\ CopiesOf(j)' = CopiesOf(j) /\ Extra(j)' = Extra(j)
  BY <1>2 DEF OpId, Indices, CopiesOf, Places, Extra
<1>4. /\ \A v \in Worker \ {w} : wpc'[v] = wpc[v]
      /\ wpc'[w] = "loop"
  BY <1>1, <1>2 DEF Typed
<1>5. Fifo' /\ OnlyCopy'
  BY <1>2 DEF CallInv, CallsRight, Fifo, OnlyCopy
<1>6. \A j \in OpId' : Begun(j)'
  BY <1>2, <1>3 DEF CallInv, CallsRight, Begun
<1>7. \A j : (Done(j)' <=> Done(j)) /\ DrawersOf(j)' = DrawersOf(j)
  <2>1. \A j : Done(j)' <=> Done(j)
    BY <1>2, <1>3 DEF Done, Counted
  <2>2. \A j : DrawersOf(j)' = DrawersOf(j)
    BY <1>1, <1>2, <1>4 DEF DrawersOf
  <2> QED
    BY <2>1, <2>2
<1>8. \A v \in Worker : wpc'[v] = "calling" <=> wpc[v] = "calling"
  BY <1>1, <1>4
<1>9. Calls'
  <2>1. \A v \in Worker : wpc'[v] = "calling" => idx'[v] \in begun'[cur'[v]] \ ended'[cur'[v]]
    BY <1>1, <1>2, <1>8 DEF CallsRight, Calls
  <2>2. \A u, v \in Worker :
          wpc'[u] = "calling" /\ wpc'[v] = "calling" /\ cur'[u] = cur'[v] /\ idx'[u] = idx'[v]
            => u = v
    BY <1>1, <1>2, <1>8 DEF CallsRight, Calls
  <2>3. \A j \in OpId' : \A i \in begun'[j] \ ended'[j] :
          \E v \in Worker : wpc'[v] = "calling" /\ cur'[v] = j /\ idx'[v] = i
    BY <1>1, <1>2, <1>3, <1>8 DEF CallsRight, Calls
  <2> QED
    BY <2>1, <2>2, <2>3 DEF Calls
<1>10. Draws'
  BY <1>1, <1>2, <1>3, <1>7 DEF CallsRight, Draws
<1>11. \A v \in Worker : wpc'[v] = "uncount" => v # w /\ wpc[v] = "uncount"
  BY <1>4
<1>12. Uncounts'
  BY <1>1, <1>2, <1>7, <1>11 DEF CallsRight, Uncounts
<1>13. Outstanding' = Outstanding \ {k} /\ k \in Outstanding
  <2>1. k \in Outstanding
    BY <1>1 DEF Outstanding, Uncounted
  <2>2. Uncounted(k)'
    BY <1>1, <1>2, <1>7, <1>11 DEF Uncounted
  <2>3. ASSUME NEW j \in OpId, j # k
        PROVE  Uncounted(j)' <=> Uncounted(j)
    <3>1. \A v \in Worker : (wpc'[v] = "uncount" /\ cur'[v] = j)
                               <=> (wpc[v] = "uncount" /\ cur[v] = j)
      BY <1>1, <1>2, <1>4, <2>3
    <3>2. (\A v \in Worker : wpc'[v] = "uncount" => cur'[v] # j)
             <=> (\A v \in Worker : wpc[v] = "uncount" => cur[v] # j)
      BY <3>1
    <3> QED
      BY <1>2, <1>7, <3>2 DEF Uncounted
  <2> QED
    BY <1>2, <1>3, <2>1, <2>2, <2>3 DEF Outstanding
<1>14. taskCount' = Pending' + Cardinality(Outstanding')
  <2>1. /\ IsFiniteSet(Outstanding) /\ Cardinality(Outstanding) \in Nat
        /\ Pending \in Nat /\ Pending' = Pending
        /\ taskCount = Pending + Cardinality(Outstanding) /\ taskCount \in 0..(CountSize - 1)
    BY <1>1, <1>2, OutstandingFinite, PendingFacts DEF CallsRight, Typed
  <2>2. Cardinality(Outstanding') = Cardinality(Outstanding) - 1
    BY <1>13, <2>1, FS_RemoveElement
  <2>3. Cardinality(Outstanding) # 0
    BY <1>13, <2>1, FS_EmptySet
  <2>4. taskCount - 1 \in Nat /\ taskCount - 1 < CountSize /\ CountSize \in Nat
    BY <2>1, <2>3, SizeAssumption
  <2>5. taskCount' = taskCount - 1
    BY <1>2, <2>4, NoWraparound
  <2> QED
    BY <2>1, <2>2, <2>5
<1> QED
  BY <1>5, <1>6, <1>9, <1>10, <1>12, <1>14 DEF CallsRight

-----------------------------------------------------------------------------
\* The destructor waits: nothing is pushed after the flag is set.
LEMMA HostStopping ==
  ASSUME Typed, Placed, Stopping, NEW h \in Host, HostCall(h) \/ Continue(h)
  PROVE  Stopping'
<1>1. /\ hpc \in [Host -> HostPlaces] /\ wpc \in [Worker -> WorkerPlaces]
      /\ stop => hpc[h] \in {"idle", "stop", "join", "destroyed"}
      /\ \A w \in Worker : wpc[w] = "exited" => stop /\ tasks = <<>>
  BY PendingFacts DEF Stopping
<1>2. CASE \/ \E op \in Operation : Count(h, op)
           \/ Push(h)
           \/ \E b \in Barriers : PushBarrier(h, b)
  <2>1. /\ ~stop /\ UNCHANGED <<stop, wpc>>
        /\ \E to \in {"push", "notify"} : hpc' = [hpc EXCEPT ![h] = to]
    BY <1>1, <1>2 DEF Count, MayCall, Push, PushBarrier, PushOp, queue, workers
  <2>2. \A w \in Worker : wpc'[w] # "exited"
    BY <1>1, <2>1
  <2>3. \A g \in Host : hpc'[g] \notin {"stop", "join", "destroyed"}
    BY <1>1, <2>1 DEF Stopping
  <2> QED
    BY <2>1, <2>2, <2>3 DEF Stopping
<1>3. CASE Destroy(h)
  <2>1. /\ ~stop /\ stop' = TRUE /\ UNCHANGED <<wpc, tasks>>
        /\ \A g \in Host : hpc[g] = "idle"
        /\ hpc' = [hpc EXCEPT ![h] = "stop"]
    BY <1>3 DEF Destroy, workers
  <2>2. \A w \in Worker : wpc'[w] # "exited"
    BY <1>1, <2>1
  <2>3. \A g \in Host : hpc'[g] \in {"idle", "stop"}
    BY <1>1, <2>1
  <2> QED
    BY <2>1, <2>2, <2>3 DEF Stopping
<1>4. CASE NotifyOne(h) \/ NotifyAll(h) \/ HostArrive(h) \/ HostLeave(h)
  <2>1. /\ ~stop
        /\ \E to \in {"idle", "arrive", "held"} : hpc' = [hpc EXCEPT ![h] = to]
    BY <1>1, <1>4 DEF NotifyOne, NotifyAll, HostArrive, HostLeave, AfterNotify
  <2>2. UNCHANGED <<stop, tasks>>
    BY <1>4 DEF NotifyOne, NotifyAll, HostArrive, HostLeave, queue
  <2>3. \A w \in Worker : wpc'[w] = wpc[w] \/ (wpc[w] = "blocked" /\ wpc'[w] = "loop")
    BY <1>4, HostQuiet
  <2>4. \A w \in Worker : wpc'[w] # "exited"
    BY <1>1, <2>1, <2>3
  <2>5. \A g \in Host : hpc'[g] \notin {"stop", "join", "destroyed"}
    BY <1>1, <2>1 DEF Stopping
  <2> QED
    BY <2>1, <2>2, <2>4, <2>5 DEF Stopping
<1>5. CASE NotifyStop(h)
  <2>1. /\ hpc[h] = "stop" /\ hpc' = [hpc EXCEPT ![h] = "join"] /\ UNCHANGED <<stop, tasks>>
    BY <1>5 DEF NotifyStop, queue
  <2>2. \A w \in Worker : wpc'[w] = wpc[w] \/ (wpc[w] = "blocked" /\ wpc'[w] = "loop")
    BY <1>5, HostQuiet
  <2>3. stop
    BY <2>1 DEF Stopping
  <2>4. \A g \in Host : hpc'[g] \in {"idle", "stop", "join", "destroyed"}
    BY <1>1, <2>1, <2>3 DEF Stopping
  <2>5. \A w \in Worker : wpc'[w] = "exited" <=> wpc[w] = "exited"
    BY <2>2
  <2>6. \A g \in Host : hpc'[g] = "destroyed" => hpc[g] = "destroyed"
    BY <1>1, <2>1
  <2> QED
    BY <2>1, <2>3, <2>4, <2>5, <2>6 DEF Stopping
<1>6. CASE Join(h)
  <2>1. /\ hpc[h] = "join" /\ hpc' = [hpc EXCEPT ![h] = "destroyed"]
        /\ UNCHANGED <<stop, tasks, wpc>> /\ \A w \in Worker : wpc[w] = "exited"
    BY <1>6 DEF Join, queue, workers
  <2>2. stop
    BY <2>1 DEF Stopping
  <2>3. \A g \in Host : hpc'[g] \in {"idle", "stop", "join", "destroyed"}
    BY <1>1, <2>1, <2>2 DEF Stopping
  <2> QED
    BY <2>1, <2>2, <2>3 DEF Stopping
<1> QED
  BY <1>2, <1>3, <1>4, <1>5, <1>6 DEF HostCall, Continue

LEMMA WorkerStopping ==
  ASSUME Typed, Stopping, NEW w \in Worker, WorkerStep(w) \/ WorkerSpuriousWakeup(w)
  PROVE  Stopping'
<1>1. /\ wpc \in [Worker -> WorkerPlaces]
      /\ \A v \in Worker : wpc[v] = "exited" => stop /\ tasks = <<>>
      /\ \A g \in Host : hpc[g] = "destroyed" => \A v \in Worker : wpc[v] = "exited"
  BY PendingFacts DEF Stopping
<1>2. /\ UNCHANGED <<stop, hpc>>
      /\ wpc[w] # "exited"
      /\ \A v \in Worker \ {w} : wpc'[v] = wpc[v]
      /\ wpc'[w] = "exited" => stop /\ tasks = <<>> /\ tasks' = tasks
      /\ tasks = <<>> => tasks' = tasks
  <2>1. CASE Take(w)
    BY <1>1, <2>1 DEF Take, Goes, StartOf, hosts
  <2>2. CASE Sleep(w)
    BY <1>1, <2>2 DEF Sleep, Goes, queue, hosts
  <2>3. CASE Exit(w)
    BY <1>1, <2>3 DEF Exit, Goes, queue, hosts
  <2>4. CASE Draw(w)
    BY <1>1, <2>4 DEF Draw, Goes, queue, hosts
  <2>5. CASE EndCall(w)
    BY <1>1, <2>5 DEF EndCall, Goes, queue, hosts
  <2>6. CASE Uncount(w) \/ WorkerArrive(w) \/ WorkerLeave(w) \/ WorkerSpuriousWakeup(w)
    BY <1>1, <2>6 DEF Uncount, WorkerArrive, WorkerLeave, WorkerSpuriousWakeup, Goes, queue, hosts
  <2> QED
    BY <2>1, <2>2, <2>3, <2>4, <2>5, <2>6 DEF WorkerStep
<1> QED
  BY <1>1, <1>2 DEF Stopping

LEMMA InitCallInv == Init => CallInv
<1> SUFFICES ASSUME Init
             PROVE  CallInv
  OBVIOUS
<1>1. /\ ops = <<>> /\ tasks = <<>> /\ Len(ops) = 0 /\ Len(tasks) = 0
      /\ OpId = {} /\ stop = FALSE /\ taskCount = 0
  BY DEF Init, OpId
<1>2. Pushing = {} /\ Outstanding = {}
  BY <1>1 DEF Pushing, Outstanding, Init
<1>3. IsFiniteSet(Pushing) /\ Pending = 0 /\ Cardinality(Outstanding) = 0
  <2>1. Pending = Cardinality(Pushing)
    BY DEF Pending, Pushing
  <2> QED
    BY <1>2, <2>1, FS_EmptySet
<1>4. Typed
  <2>1. ops \in Seq(Operation) /\ tasks \in Seq(OpId) /\ stop \in BOOLEAN
    <3>1. \A S : <<>> \in Seq(S)
      OBVIOUS
    <3>2. stop \in BOOLEAN
      BY <1>1
    <3> QED
      BY <1>1, <3>1, <3>2, Zenon
  <2>2. \A b \in Barriers : Expected(b) \in Nat \ {0}
    BY WorkersCounted DEF Expected
  <2>3. /\ arrivals \in [Barriers -> [counter : Int, phase : Nat]]
        /\ \A b \in Barriers : arrivals[b].counter \in 1..Expected(b)
    BY <2>2 DEF Init
  <2>4. /\ drawn \in [OpId -> 0..(CountSize - 1)]
        /\ begun \in [OpId -> SUBSET Nat] /\ ended \in [OpId -> SUBSET Nat]
    BY <1>1 DEF Init
  <2>5. taskCount \in 0..(CountSize - 1) /\ 0 \in 0..(CountSize - 1)
        /\ Len(ops) + Pending <= MaxOps
    BY <1>1, <1>3, SizeAssumption
  <2>6. /\ phaseOf \in [Worker \cup Host -> Nat]
        /\ wpc \in [Worker -> WorkerPlaces] /\ hpc \in [Host -> HostPlaces]
        /\ hop \in [Host -> Operation]
    BY OperationFacts DEF Init, WorkerPlaces, HostPlaces
  <2>7. cur \in [Worker -> 0..Len(ops)] /\ idx \in [Worker -> 0..(CountSize - 1)]
        /\ mark \in [Host -> 0..Len(ops)]
    BY <1>1, <2>5 DEF Init
  <2> QED
    BY <1>3, <2>1, <2>3, <2>4, <2>5, <2>6, <2>7 DEF Typed, WorkerPlaces, HostPlaces
<1>5. Placed
  BY DEF Init, Placed
<1>6. CallsRight
  <2>1. Fifo /\ OnlyCopy
    BY <1>1 DEF Fifo, OnlyCopy
  <2>2. Calls /\ Draws /\ Uncounts
    BY <1>1 DEF Init, Calls, Draws, Uncounts
  <2> QED
    BY <1>1, <1>3, <2>1, <2>2 DEF CallsRight
<1>7. Stopping
  BY <1>1 DEF Init, Stopping
<1> QED
  BY <1>4, <1>5, <1>6, <1>7 DEF CallInv

LEMMA NextCallInv == CallInv /\ [Next]_vars => CallInv'
<1> SUFFICES ASSUME CallInv, [Next]_vars
             PROVE  CallInv'
  OBVIOUS
<1>1. Typed /\ Placed /\ CallsRight /\ Stopping
  BY DEF CallInv
<1>2. ASSUME NEW h \in Host, HostCall(h) \/ Continue(h)
      PROVE  CallInv'
  <2>1. Typed'
    BY <1>1, <1>2, HostTyped, CallTyped DEF HostCall, Continue
  <2>2. Placed'
    BY <1>1, <1>2, HostPlaced DEF HostCall, Continue
  <2>3. Stopping'
    BY <1>1, <1>2, HostStopping
  <2>4. CallsRight'
    <3>1. CASE \E op \in Operation : Count(h, op)
      BY <3>1, CountKeeps
    <3>2. CASE Push(h)
      <4>1. hop[h] \in Operation /\ PushOp(h, hop[h]) /\ Counted(hop[h]) /\ hpc[h] = "push"
        BY <1>1, <3>2 DEF Typed, Placed, Push
      <4> QED
        BY <4>1, PushKeeps
    <3>3. CASE \E b \in Barriers : PushBarrier(h, b)
      <4>1. PICK b \in Barriers : PushBarrier(h, b)
        BY <3>3
      <4>2. Op(b, 0) \in Operation /\ PushOp(h, Op(b, 0)) /\ hpc[h] # "push"
        BY <4>1, OperationFacts DEF PushBarrier, MayCall
      <4>3. ~Counted(Op(b, 0))
        BY OperationFacts, KindsApart
      <4> QED
        BY <4>2, <4>3, PushKeeps
    <3>4. CASE \/ Destroy(h) \/ NotifyOne(h) \/ NotifyAll(h) \/ HostArrive(h) \/ HostLeave(h)
               \/ NotifyStop(h) \/ Join(h)
      <4>1. /\ UNCHANGED <<ops, tasks, taskCount, work, cur, idx, hop, mark>>
            /\ \A w \in Worker : wpc'[w] = wpc[w] \/ (wpc[w] = "blocked" /\ wpc'[w] = "loop")
            /\ hpc[h] # "push"
            /\ \E to \in HostPlaces \ {"push"} : hpc' = [hpc EXCEPT ![h] = to]
        BY <1>1, <3>4, HostQuiet
      <4>2. Pending' = Pending
        <5>1. PICK to : to # "push" /\ hpc' = [hpc EXCEPT ![h] = to]
          BY <4>1
        <5>2. hpc \in [Host -> HostPlaces] /\ IsFiniteSet(Pushing)
          BY <1>1, PendingFacts
        <5> QED
          BY <4>1, <5>1, <5>2, PendingCount DEF HostPlaces
      <4>3. \A w \in Worker : wpc'[w] = wpc[w] \/ (wpc[w] \in Aside /\ wpc'[w] \in Aside)
        BY <4>1 DEF Aside
      <4> QED
        BY <4>1, <4>2, <4>3, QuietKeeps
    <3> QED
      BY <1>2, <3>1, <3>2, <3>3, <3>4 DEF HostCall, Continue
  <2> QED
    BY <2>1, <2>2, <2>3, <2>4 DEF CallInv
<1>3. ASSUME NEW w \in Worker, WorkerStep(w) \/ WorkerSpuriousWakeup(w)
      PROVE  CallInv'
  <2>1. Typed'
    BY <1>1, <1>3, WorkerTyped DEF WorkerStep
  <2>2. Placed'
    BY <1>1, <1>3, WorkerPlaced
  <2>3. Stopping'
    BY <1>1, <1>3, WorkerStopping
  <2>4. CallsRight'
    <3>1. CASE Take(w)
      BY <3>1, TakeKeeps
    <3>2. CASE Draw(w)
      BY <3>2, DrawKeeps
    <3>3. CASE EndCall(w)
      BY <3>3, EndCallKeeps
    <3>4. CASE Uncount(w)
      BY <3>4, UncountKeeps
    <3>5. CASE \/ Sleep(w) \/ Exit(w) \/ WorkerArrive(w) \/ WorkerLeave(w)
               \/ WorkerSpuriousWakeup(w)
      <4>1. /\ UNCHANGED <<ops, tasks, taskCount, work, cur, idx, hpc>>
            /\ wpc[w] \in Aside
            /\ \E to \in Aside : wpc' = [wpc EXCEPT ![w] = to]
        BY <3>5 DEF Sleep, Exit, WorkerArrive, WorkerLeave, WorkerSpuriousWakeup, Goes, Aside, queue,
                    hosts
      <4>2. \A v \in Worker : wpc'[v] = wpc[v] \/ (wpc[v] \in Aside /\ wpc'[v] \in Aside)
        BY <1>1, <4>1, PendingFacts
      <4>3. Pending' = Pending
        BY <1>1, <4>1, PendingFacts
      <4> QED
        BY <4>1, <4>2, <4>3, QuietKeeps
    <3> QED
      BY <1>3, <3>1, <3>2, <3>3, <3>4, <3>5 DEF WorkerStep
  <2> QED
    BY <2>1, <2>2, <2>3, <2>4 DEF CallInv
<1>4. ASSUME UNCHANGED vars
      PROVE  CallInv'
  <2>1. /\ UNCHANGED <<ops, tasks, stop, taskCount, work, cur, idx, wpc, hpc, hop, mark, syncs>>
    BY <1>4 DEF vars, queue, workers, hosts
  <2>2. Pushing' = Pushing /\ Pending' = Pending
    BY <1>1, <2>1, PendingFacts
  <2>3. CallsRight'
    BY <2>1, <2>2, QuietKeeps
  <2>4. Typed'
    BY <1>1, <2>1, <2>2 DEF Typed, OpId, work, syncs
  <2>5. Placed' /\ Stopping'
    BY <1>1, <2>1 DEF Placed, Stopping, OpId
  <2> QED
    BY <2>3, <2>4, <2>5 DEF CallInv
<1> QED
  BY <1>2, <1>3, <1>4 DEF Next, Gone

\* In every reachable state the counters, the queue and the calls under way agree.
THEOREM CallsConsistent == Spec => []CallInv
<1>1. Init => CallInv
  BY InitCallInv
<1>2. CallInv /\ [Next]_vars => CallInv'
  BY NextCallInv
<1> QED
  BY <1>1, <1>2, PTL DEF Spec

LEMMA CallInvTypes == CallInv => TypeOK
<1>1. CallInv => TypeOK
  <2> SUFFICES ASSUME CallInv
               PROVE  TypeOK
    OBVIOUS
  <2>1. Typed /\ CallsRight /\ Len(ops) \in Nat
    BY OpIdFacts DEF CallInv
  <2>2. Len(ops) <= MaxOps /\ MaxOps \in Nat
    BY <2>1, PendingFacts, SizeAssumption DEF Typed
  <2>3. ASSUME NEW k \in OpId
        PROVE  ended[k] \subseteq begun[k] /\ begun[k] \subseteq Indices(k)
    <3>1. Begun(k) /\ ops[k] \in Operation
      BY <2>1, OpIdFacts DEF CallsRight
    <3>2. CASE ops[k].kind = "async"
      <4>1. Indices(k) = 0..0
        BY <3>1, <3>2, OperationFacts DEF Indices
      <4> QED
        BY <3>1, <3>2, <4>1 DEF Begun
    <3>3. CASE ops[k].kind = "parallel" \/ ops[k].kind \in Barriers
      BY <3>1, <3>3 DEF Begun
    <3> QED
      BY <3>1, <3>2, <3>3, OperationFacts
  <2>4. /\ cur \in [Worker -> 0..MaxOps] /\ mark \in [Host -> 0..MaxOps]
    <3>1. 0..Len(ops) \subseteq 0..MaxOps
      BY <2>1, <2>2
    <3>2. cur \in [Worker -> 0..Len(ops)] /\ mark \in [Host -> 0..Len(ops)]
      BY <2>1 DEF Typed
    <3> QED
      BY <3>1, <3>2
  <2> QED
    BY <2>1, <2>2, <2>3, <2>4 DEF Typed, TypeOK
<1> QED
  BY <1>1

\* The variables keep their types: what has ended has begun, within the indices of
\* its operation, and no atomic counter of the pool leaves its width.
THEOREM ThreadPoolTypeCorrect == Spec => []TypeOK
  BY CallInvTypes, CallsConsistent, PTL

\* task_count() is the number of operations that are counted and not uncounted:
\* no interleaving of calls, copies and workers makes it leak or wrap below zero.
THEOREM TaskCountRight == Spec => []TaskCountExact
<1>1. CallInv => TaskCountExact
  BY DEF CallInv, CallsRight, TaskCountExact, Outstanding
<1> QED
  BY <1>1, CallsConsistent, PTL

\* No index of an operation is given to a second call.
THEOREM IndicesCalledOnce == Spec => CalledOnce
<1> DEFINE Once == \A w \in Worker :
       (wpc'[w] = "calling" /\ wpc[w] # "calling") =>
          (cur'[w] \in OpId /\ idx'[w] \notin begun[cur'[w]])
<1>1. ASSUME CallInv, [Next]_vars, NEW w \in Worker, wpc'[w] = "calling", wpc[w] # "calling"
      PROVE  cur'[w] \in OpId /\ idx'[w] \notin begun[cur'[w]]
  <2>1. Typed /\ Placed /\ CallsRight
    BY <1>1 DEF CallInv
  <2>2. CASE Take(w)
    <3>1. PICK k \in OpId : k = tasks[1] /\ Head(tasks) = k /\ 1 \in 1..Len(tasks)
      BY <2>1, <2>2, TakeEffect
    <3>2. ops[k] \in Operation /\ cur'[w] = k /\ idx'[w] = 0 /\ wpc'[w] = StartOf(ops[k])
      BY <2>1, <2>2, <3>1, OpIdFacts DEF Take, Goes, Typed
    <3>3. ops[k].kind = "async"
      BY <1>1, <3>2 DEF StartOf
    <3>4. 1 \in CopiesOf(k)
      BY <3>1 DEF CopiesOf, Places
    <3>5. begun[k] = {}
      BY <2>1, <3>3, <3>4 DEF CallsRight, Begun
    <3> QED
      BY <3>2, <3>5
  <2>3. CASE Draw(w)
    <3>1. PICK k \in OpId : k = cur[w] /\ ops[k].kind = "parallel"
      BY <2>1, <2>3 DEF Placed, Draw
    <3>2. cur'[w] = k /\ idx'[w] = drawn[k]
      BY <2>1, <2>3, <3>1 DEF Draw, Typed
    <3>3. begun[k] = {x \in Indices(k) : x < drawn[k]} /\ drawn[k] \in Nat
      BY <2>1, <3>1, DrawnFacts DEF CallsRight, Begun
    <3> QED
      BY <3>2, <3>3
  <2>4. CASE ~Take(w) /\ ~Draw(w)
    <3>1. ASSUME NEW h \in Host, HostCall(h) \/ Continue(h)
          PROVE  FALSE
      <4>1. CASE \/ \E op \in Operation : Count(h, op)
                 \/ Push(h) \/ \E b \in Barriers : PushBarrier(h, b)
        BY <1>1, <4>1 DEF Count, Push, PushBarrier, PushOp, workers
      <4>2. CASE \/ Destroy(h) \/ NotifyOne(h) \/ NotifyAll(h) \/ HostArrive(h) \/ HostLeave(h)
                 \/ NotifyStop(h) \/ Join(h)
        <5>1. wpc'[w] = wpc[w] \/ wpc'[w] = "loop"
          BY <2>1, <4>2, HostQuiet
        <5> QED
          BY <1>1, <5>1
      <4> QED
        BY <3>1, <4>1, <4>2 DEF HostCall, Continue
    <3>2. ASSUME NEW v \in Worker, WorkerStep(v) \/ WorkerSpuriousWakeup(v)
          PROVE  FALSE
      <4>1. v # w => wpc'[w] = wpc[w]
        BY <2>1, <3>2 DEF WorkerStep, WorkerSpuriousWakeup, Take, Sleep, Exit, Draw, EndCall, Uncount,
               WorkerArrive, WorkerLeave, Goes, Typed
      <4>2. v = w => wpc'[w] # "calling"
        BY <2>1, <2>4, <3>2 DEF WorkerStep, WorkerSpuriousWakeup, Sleep, Exit, EndCall, Uncount,
               WorkerArrive, WorkerLeave, Goes, Typed
      <4> QED
        BY <1>1, <4>1, <4>2
    <3> QED
      BY <1>1, <3>1, <3>2 DEF Next, Gone, vars, workers
  <2> QED
    BY <2>2, <2>3, <2>4
<1>2. CallInv /\ [Next]_vars => [Once]_vars
  BY <1>1
<1> HIDE DEF Once
<1>3. CallInv /\ [Next]_vars => [Once]_vars
  BY <1>2
<1>4. Spec => [][Once]_vars
  BY <1>3, CallsConsistent, PTL DEF Spec
<1> QED
  BY <1>4 DEF CalledOnce, Once

\* What is left of an operation is in the queue or with a worker.
LEMMA LeftOver ==
  ASSUME CallInv, NEW k \in OpId, ~Done(k)
  PROVE  CopiesOf(k) # {} \/ DrawersOf(k) # {}
<1>1. /\ Typed /\ CallsRight /\ Begun(k) /\ ops[k] \in Operation /\ drawn[k] \in Nat
      /\ Counted(ops[k]) /\ ended[k] # Indices(k)
  BY OpIdFacts, DrawnFacts DEF CallInv, CallsRight, Done
<1>2. ASSUME NEW i \in begun[k] \ ended[k]
      PROVE  DrawersOf(k) # {}
  BY <1>1 DEF CallsRight, Calls, DrawersOf
<1>3. CASE ops[k].kind = "async"
  <2>1. Indices(k) = {0}
    <3>1. Indices(k) = 0..0
      BY <1>1, <1>3, OperationFacts DEF Indices
    <3> QED
      BY <3>1
  <2>2. CASE begun[k] = {}
    BY <1>1, <1>3, <2>2 DEF Begun
  <2>3. CASE begun[k] # {}
    <3>1. begun[k] = {0} /\ ended[k] \subseteq {0} /\ ended[k] # {0}
      BY <1>1, <1>3, <2>1, <2>3 DEF Begun
    <3>2. 0 \in begun[k] \ ended[k]
      BY <3>1
    <3> QED
      BY <1>2, <3>2
  <2> QED
    BY <2>2, <2>3
<1>4. CASE ops[k].kind = "parallel"
  <2>1. ops[k].n \in Nat /\ begun[k] = {i \in Indices(k) : i < drawn[k]} /\ ended[k] \subseteq begun[k]
    BY <1>1, <1>4, OperationFacts DEF Begun
  <2>2. CASE drawn[k] < ops[k].n
    BY <1>1, <1>4, <2>2 DEF CallsRight, Draws
  <2>3. CASE ~(drawn[k] < ops[k].n)
    <3>1. begun[k] = Indices(k)
      BY <1>1, <2>1, <2>3 DEF Indices
    <3>2. \E i : i \in begun[k] \ ended[k]
      BY <1>1, <2>1, <3>1
    <3> QED
      BY <1>2, <3>2
  <2> QED
    BY <2>2, <2>3
<1> QED
  BY <1>1, <1>3, <1>4 DEF Counted

\* The destructor drops no task.
THEOREM DestructorWaits == Spec => []DestroyedWhenDone
<1>1. CallInv => DestroyedWhenDone
  <2> SUFFICES ASSUME CallInv, NEW h \in Host, hpc[h] = "destroyed"
               PROVE  tasks = <<>> /\ \A k \in OpId : Done(k)
    BY DEF DestroyedWhenDone
  <2>1. \A w \in Worker : wpc[w] = "exited"
    BY DEF CallInv, Stopping
  <2>2. tasks = <<>>
    BY <2>1, WorkerAssumption DEF CallInv, Stopping
  <2>3. ASSUME NEW k \in OpId
        PROVE  Done(k)
    <3>1. DrawersOf(k) = {}
      BY <2>1 DEF DrawersOf
    <3>2. CopiesOf(k) = {}
      BY <2>2 DEF CopiesOf, Places
    <3> QED
      BY <3>1, <3>2, LeftOver
  <2> QED
    BY <2>2, <2>3
<1> QED
  BY <1>1, CallsConsistent, PTL

-----------------------------------------------------------------------------
(***************************************************************************)
(* ThreadPool: the fences                                                  *)
(***************************************************************************)
\* A worker that its fence holds: it has a copy and may not go on.
AtFence(w) ==
  wpc[w] = "arrive" \/ (wpc[w] = "held" /\ ~MayLeave(w, ops[cur[w]].kind))
At(k) == {w \in Worker : AtFence(w) /\ cur[w] = k}

\* A fence that is not over: copies of it are left, or workers are held at it.
Open(k) == CopiesOf(k) # {} \/ At(k) # {}
Fence(k) == ops[k].kind \in Barriers

\* The threads that have come to the present round of a barrier.
WorkersWaiting(b) ==
  {w \in Worker : wpc[w] = "held" /\ ops[cur[w]].kind = b /\ ~MayLeave(w, b)}
HostsWaiting(b) ==
  {h \in SyncHost : b = "synchronize" /\ hpc[h] = "held" /\ ~MayLeave(h, b)}
Waiting(b) == WorkersWaiting(b) \cup HostsWaiting(b)

\* A host in synchronize() that its fence holds.
Synchronizing(h) ==
  \/ hpc[h] = "notify" /\ ops[mark[h]].kind = "synchronize"
  \/ hpc[h] = "arrive"
  \/ hpc[h] = "held" /\ ~MayLeave(h, "synchronize")

\* The barriers count who waits at them.
Counters ==
  /\ \A w \in Worker : wpc[w] = "held" => phaseOf[w] <= arrivals[ops[cur[w]].kind].phase
  /\ \A h \in Host : hpc[h] = "held" => phaseOf[h] <= arrivals["synchronize"].phase
  /\ \A b \in Barriers : arrivals[b].counter = Expected(b) - Cardinality(Waiting(b))

\* While a fence is open every worker has its copy to take or is held at it;
\* when it is over, what was pushed before it has ended.
Fences ==
  \A k \in OpId : Fence(k) =>
    IF Open(k) THEN Cardinality(CopiesOf(k)) + Cardinality(At(k)) = N
    ELSE \A j \in 1..(k - 1) : Done(j)

\* The fence of a synchronize() is open as long as its host is held.
Synchronized ==
  /\ \A k \in OpId : ops[k].kind = "synchronize" /\ Open(k) =>
       \E h \in SyncHost : Synchronizing(h) /\ mark[h] = k
  /\ \A h \in SyncHost : Synchronizing(h) => Open(mark[h])
  /\ \A h \in SyncHost : hpc[h] = "held" /\ MayLeave(h, "synchronize") => ~Open(mark[h])

FenceInv == Counters /\ Fences /\ Synchronized

\* _synchronize_barrier is made for the workers and one host.
OneSynchronizer == \A g, h \in SyncHost : g = h

\* Workers are held at one fence at a time.
LEMMA OneFence ==
  ASSUME CallInv, FenceInv, NEW j \in OpId, NEW k \in OpId, Fence(j), Fence(k),
         NEW u \in At(j), NEW v \in At(k)
  PROVE  j = k
<1>1. ASSUME NEW a \in OpId, NEW b \in OpId, Fence(a), NEW x \in At(a), NEW y \in At(b), a < b
      PROVE  FALSE
  <2>1. /\ Typed /\ Fifo /\ y \in Worker /\ cur[y] = b /\ OpId = 1..Len(ops) /\ Len(ops) \in Nat
        /\ \A i \in 1..Len(tasks) : tasks[i] \in OpId
    BY <1>1, OpIdFacts DEF CallInv, CallsRight, At
  <2>2. \A i \in 1..Len(tasks) : b <= tasks[i]
    BY <2>1 DEF Fifo
  <2>3. CopiesOf(a) = {}
    BY <1>1, <2>1, <2>2 DEF CopiesOf, Places
  <2>4. Cardinality(CopiesOf(a)) = 0
    BY <2>3, FS_EmptySet
  <2>5. Cardinality(CopiesOf(a)) + Cardinality(At(a)) = N
    BY <1>1 DEF FenceInv, Fences, Open
  <2>6. At(a) \in SUBSET Worker
    BY DEF At
  <2>7. Cardinality(At(a)) = N
    BY <2>4, <2>5, <2>6, WorkerCount
  <2>8. At(a) = Worker
    BY <2>6, <2>7, WorkerCount
  <2>9. cur[y] = a
    BY <2>1, <2>8 DEF At
  <2> QED
    BY <1>1, <2>1, <2>9
<1>2. OpId = 1..Len(ops)
  BY OpIdFacts DEF CallInv
<1>3. ~(j < k) /\ ~(k < j)
  BY <1>1
<1> QED
  BY <1>2, <1>3

\* When all workers are held at a fence, what was pushed before it has ended.
LEMMA AllHeld ==
  ASSUME CallInv, NEW k \in OpId, At(k) = Worker
  PROVE  \A j \in 1..(k - 1) : j \in OpId /\ Done(j)
<1>1. /\ Typed /\ Fifo /\ OpId = 1..Len(ops) /\ Len(ops) \in Nat /\ k \in Nat
      /\ \A i \in 1..Len(tasks) : tasks[i] \in OpId
  BY OpIdFacts DEF CallInv, CallsRight
<1>2. PICK w : w \in Worker
  BY WorkerAssumption
<1>3. ASSUME NEW j \in 1..(k - 1)
      PROVE  j \in OpId /\ Done(j)
  <2>1. j \in OpId /\ j < k
    BY <1>1
  <2>2. \A i \in 1..Len(tasks) : k <= tasks[i]
    BY <1>1, <1>2 DEF Fifo, At
  <2>3. CopiesOf(j) = {}
    BY <1>1, <2>1, <2>2 DEF CopiesOf, Places
  <2>4. DrawersOf(j) = {}
    BY DEF DrawersOf, At, AtFence
  <2> QED
    BY <2>1, <2>3, <2>4, LeftOver
<1> QED
  BY <1>3

\* A step that does nothing for the fences.
LEMMA GentleKeeps ==
  ASSUME Typed, FenceInv,
         UNCHANGED <<ops, tasks, cur, mark, arrivals, phaseOf>>,
         \A k \in OpId : Done(k) => Done(k)',
         \A w \in Worker : wpc'[w] = "held" => wpc[w] = "held",
         \A w \in Worker : wpc'[w] = wpc[w] \/ (~AtFence(w) /\ ~AtFence(w)'),
         \A h \in Host : hpc'[h] = "held" => hpc[h] = "held",
         \A h \in SyncHost : Synchronizing(h)' <=> Synchronizing(h),
         \A h \in SyncHost : hpc[h] = "held" /\ ~MayLeave(h, "synchronize") => hpc'[h] = "held"
  PROVE  FenceInv'
<1>1. /\ OpId' = OpId /\ \A k \in OpId : k \in OpId'
      /\ \A k : CopiesOf(k)' = CopiesOf(k) /\ (Fence(k)' <=> Fence(k))
      /\ \A p, b : MayLeave(p, b)' <=> MayLeave(p, b)
  BY DEF OpId, CopiesOf, Places, Fence, MayLeave
<1>2. \A w \in Worker : AtFence(w)' <=> AtFence(w)
  BY <1>1 DEF AtFence
<1>3. \A k : At(k)' = At(k)
  BY <1>2 DEF At
<1>4. \A k : Open(k)' <=> Open(k)
  BY <1>1, <1>3 DEF Open
<1>5. ASSUME NEW b
      PROVE  Waiting(b)' = Waiting(b)
  <2>1. ASSUME NEW w \in Worker
        PROVE  w \in WorkersWaiting(b)' <=> w \in WorkersWaiting(b)
    BY <1>1 DEF WorkersWaiting, AtFence
  <2>2. \A h \in SyncHost : h \in HostsWaiting(b)' <=> h \in HostsWaiting(b)
    BY <1>1, HostAssumption DEF HostsWaiting
  <2>3. WorkersWaiting(b)' = WorkersWaiting(b)
    BY <2>1 DEF WorkersWaiting
  <2>4. HostsWaiting(b)' = HostsWaiting(b)
    BY <2>2 DEF HostsWaiting
  <2> QED
    BY <2>3, <2>4 DEF Waiting
<1>6. Counters'
  <2>1. \A w \in Worker : wpc'[w] = "held" => phaseOf'[w] <= arrivals'[ops'[cur'[w]].kind].phase
    BY DEF FenceInv, Counters
  <2>2. \A h \in Host : hpc'[h] = "held" => phaseOf'[h] <= arrivals'["synchronize"].phase
    BY DEF FenceInv, Counters
  <2>3. \A b \in Barriers : arrivals'[b].counter = Expected(b) - Cardinality(Waiting(b)')
    BY <1>5 DEF FenceInv, Counters
  <2> QED
    BY <2>1, <2>2, <2>3 DEF Counters
<1>7. Fences'
  <2>1. ASSUME NEW k \in OpId, Fence(k)
        PROVE  IF Open(k)' THEN Cardinality(CopiesOf(k)') + Cardinality(At(k)') = N
               ELSE \A j \in 1..(k - 1) : Done(j)'
    <3>1. CASE Open(k)
      BY <1>1, <1>3, <1>4, <2>1, <3>1 DEF FenceInv, Fences
    <3>2. CASE ~Open(k)
      <4>1. \A j \in 1..(k - 1) : Done(j)
        BY <2>1, <3>2 DEF FenceInv, Fences
      <4>2. \A j \in 1..(k - 1) : j \in OpId
        BY OpIdFacts
      <4> QED
        BY <1>4, <3>2, <4>1, <4>2
    <3> QED
      BY <3>1, <3>2
  <2> QED
    BY <1>1, <2>1 DEF Fences
<1>8. Synchronized'
  <2>1. \A k \in OpId' : ops'[k].kind = "synchronize" /\ Open(k)' =>
          \E h \in SyncHost : Synchronizing(h)' /\ mark'[h] = k
    BY <1>1, <1>4 DEF FenceInv, Synchronized
  <2>2. ASSUME NEW h \in SyncHost
        PROVE  /\ Synchronizing(h)' => Open(mark[h])'
               /\ hpc'[h] = "held" /\ MayLeave(h, "synchronize")' => ~Open(mark[h])'
    <3>1. PICK k : k = mark[h] /\ mark'[h] = k
      OBVIOUS
    <3>2. /\ Synchronizing(h) => Open(k)
          /\ hpc[h] = "held" /\ MayLeave(h, "synchronize") => ~Open(k)
      BY <3>1 DEF FenceInv, Synchronized
    <3>3. h \in Host
      BY HostAssumption
    <3>4. Synchronizing(h)' => Open(k)'
      BY <1>4, <3>2
    <3>5. hpc'[h] = "held" /\ MayLeave(h, "synchronize")' => ~Open(k)'
      BY <1>1, <1>4, <3>2, <3>3
    <3> QED
      BY <3>1, <3>4, <3>5
  <2> QED
    BY <2>1, <2>2 DEF Synchronized
<1> QED
  BY <1>6, <1>7, <1>8 DEF FenceInv

\* A call that has ended stays ended.
LEMMA DoneStays ==
  ASSUME CallInv, CallInv', NEW k \in OpId, Done(k), k \in OpId',
         ops'[k] = ops[k], ended[k] \subseteq ended'[k]
  PROVE  Done(k)'
<1>1. Counted(ops[k]) => ended[k] = Indices(k)
  BY DEF Done
<1>2. Indices(k)' = Indices(k)
  BY DEF Indices
<1>3. Begun(k)' /\ Begun(k) /\ Typed'
  BY DEF CallInv, CallsRight
<1>4. ASSUME Counted(ops[k])
      PROVE  begun'[k] \subseteq Indices(k)
  <2>1. CASE ops[k].kind = "async"
    <3>1. Indices(k) = 0..0
      BY <2>1, OpIdFacts, OperationFacts DEF Indices, CallInv
    <3> QED
      BY <1>3, <2>1, <3>1 DEF Begun
  <2>2. CASE ops[k].kind = "parallel"
    BY <1>2, <1>3, <2>2 DEF Begun
  <2> QED
    BY <1>4, <2>1, <2>2 DEF Counted
<1>5. ended'[k] \subseteq begun'[k]
  BY <1>3 DEF Begun
<1> QED
  BY <1>1, <1>2, <1>4, <1>5 DEF Done

LEMMA EndedGrows ==
  ASSUME CallInv, [Next]_vars, NEW k \in OpId
  PROVE  ended[k] \subseteq ended'[k] /\ ops'[k] = ops[k] /\ k \in OpId'
<1>1. Typed
  BY DEF CallInv
<1>2. ASSUME NEW h \in Host, HostCall(h) \/ Continue(h)
      PROVE  ended[k] \subseteq ended'[k] /\ ops'[k] = ops[k] /\ k \in OpId'
  <2>1. CASE \E op \in Operation : PushOp(h, op)
    <3>1. ended'[k] = ended[k] /\ ops'[k] = ops[k] /\ OpId' = 1..(Len(ops) + 1)
      BY <1>1, <2>1, PushEffect
    <3> QED
      BY <1>1, <3>1, OpIdFacts
  <2>2. CASE UNCHANGED <<ops, ended>>
    BY <2>2 DEF OpId
  <2>3. CASE Push(h)
    <3>1. hop[h] \in Operation /\ PushOp(h, hop[h])
      BY <1>1, <2>3 DEF Typed, Push
    <3> QED
      BY <2>1, <3>1
  <2>4. CASE \E b \in Barriers : PushBarrier(h, b)
    <3>1. PICK b \in Barriers : PushBarrier(h, b)
      BY <2>4
    <3>2. Op(b, 0) \in Operation /\ PushOp(h, Op(b, 0))
      BY <3>1, OperationFacts DEF PushBarrier
    <3> QED
      BY <2>1, <3>2
  <2>5. CASE \E op \in Operation : Count(h, op)
    BY <2>2, <2>5 DEF Count, queue, work
  <2>6. CASE \/ Destroy(h) \/ NotifyOne(h) \/ NotifyAll(h) \/ HostArrive(h) \/ HostLeave(h)
             \/ NotifyStop(h) \/ Join(h)
    BY <1>1, <2>2, <2>6, HostQuiet DEF work
  <2> QED
    BY <1>2, <2>3, <2>4, <2>5, <2>6 DEF HostCall, Continue
<1>3. ASSUME NEW w \in Worker, WorkerStep(w) \/ WorkerSpuriousWakeup(w)
      PROVE  ended[k] \subseteq ended'[k] /\ ops'[k] = ops[k] /\ k \in OpId'
  <2>1. UNCHANGED ops
    BY <1>3 DEF WorkerStep, WorkerSpuriousWakeup, Take, Sleep, Exit, Draw, EndCall, Uncount,
           WorkerArrive, WorkerLeave, queue
  <2>2. UNCHANGED ended \/ ended' = [ended EXCEPT ![cur[w]] = @ \cup {idx[w]}]
    BY <1>3 DEF WorkerStep, WorkerSpuriousWakeup, Take, Sleep, Exit, Draw, EndCall, Uncount,
           WorkerArrive, WorkerLeave, work
  <2>3. ended[k] \subseteq ended'[k]
    BY <1>1, <2>2 DEF Typed
  <2> QED
    BY <2>1, <2>3 DEF OpId
<1>4. CASE UNCHANGED vars
  BY <1>4 DEF vars, queue, work, OpId
<1> QED
  BY <1>2, <1>3, <1>4 DEF Next, Gone

\* A fence is pushed: a copy for every worker; only an idle host pushes one.
LEMMA PushFences ==
  ASSUME CallInv, CallInv', FenceInv, NEW h \in Host, NEW op \in Operation,
         PushOp(h, op), hpc[h] \in {"idle", "push"}, op.kind = "synchronize" => h \in SyncHost,
         \A k \in OpId : Done(k) => Done(k)'
  PROVE  FenceInv'
<1>0. PICK m : m = Len(ops) + 1
  OBVIOUS
<1>1. /\ Typed /\ Placed /\ Len(ops) \in Nat /\ OpId = 1..Len(ops) /\ m \notin OpId
      /\ \A w \in Worker : cur[w] \in 0..Len(ops)
      /\ hpc \in [Host -> HostPlaces] /\ mark \in [Host -> 0..Len(ops)]
      /\ op.kind \in Barriers => Copies(op) = N
  BY <1>0, OpIdFacts, PendingFacts, OperationFacts DEF CallInv, Typed
<1>2. OpId' = 1..m /\ ops'[m] = op /\ \A k \in OpId : ops'[k] = ops[k]
  BY <1>0, <1>1, PushEffect
<1>3. /\ \A k \in OpId : CopiesOf(k)' = CopiesOf(k)
      /\ Cardinality(CopiesOf(m)') = Copies(op) /\ CopiesOf(m)' # {}
  BY <1>0, <1>1, PushCopies
<1>4. /\ UNCHANGED <<wpc, cur, arrivals, phaseOf>>
      /\ hpc' = [hpc EXCEPT ![h] = "notify"] /\ mark' = [mark EXCEPT ![h] = m]
  BY <1>0 DEF PushOp, workers, syncs
<1>5. /\ hpc'[h] = "notify" /\ mark'[h] = m
      /\ \A g \in Host \ {h} : hpc'[g] = hpc[g] /\ mark'[g] = mark[g]
  BY <1>1, <1>4
<1>6. \A w \in Worker : AtFence(w) \/ wpc[w] = "held" => cur[w] \in OpId /\ ops'[cur[w]] = ops[cur[w]]
  BY <1>1, <1>2 DEF Placed, AtFence
<1>7. \A p, b : MayLeave(p, b)' <=> MayLeave(p, b)
  BY <1>4 DEF MayLeave
<1>8. \A w \in Worker : wpc[w] = "held" => cur[w] \in OpId /\ ops'[cur[w]] = ops[cur[w]]
  BY <1>6
<1>9. \A w \in Worker : AtFence(w)' <=> AtFence(w)
  BY <1>4, <1>7, <1>8 DEF AtFence
<1>10. \A k : At(k)' = At(k)
  BY <1>4, <1>9 DEF At
<1>11. At(m) = {}
  BY <1>1, <1>6 DEF At
<1>12. /\ \A k \in OpId : Open(k)' <=> Open(k)
       /\ Open(m)'
  BY <1>3, <1>10 DEF Open
<1>13. \A k \in OpId' : k \in OpId \/ k = m
  BY <1>0, <1>1, <1>2
<1>14. Fences'
  <2>1. ASSUME NEW k \in OpId, Fence(k)
        PROVE  IF Open(k)' THEN Cardinality(CopiesOf(k)') + Cardinality(At(k)') = N
               ELSE \A j \in 1..(k - 1) : Done(j)'
    <3>1. CASE Open(k)
      BY <1>3, <1>10, <1>12, <2>1, <3>1 DEF FenceInv, Fences
    <3>2. CASE ~Open(k)
      <4>1. \A j \in 1..(k - 1) : Done(j)
        BY <2>1, <3>2 DEF FenceInv, Fences
      <4>2. \A j \in 1..(k - 1) : j \in OpId
        BY <1>1
      <4> QED
        BY <1>12, <3>2, <4>1, <4>2
    <3> QED
      BY <3>1, <3>2
  <2>2. ASSUME Fence(m)'
        PROVE  Cardinality(CopiesOf(m)') + Cardinality(At(m)') = N
    <3>1. Copies(op) = N
      BY <1>1, <1>2, <2>2 DEF Fence
    <3>2. Cardinality(At(m)') = 0
      BY <1>10, <1>11, FS_EmptySet
    <3>3. N \in Nat
      BY WorkersCounted
    <3> QED
      BY <1>3, <3>1, <3>2, <3>3
  <2>3. \A k \in OpId : Fence(k)' <=> Fence(k)
    BY <1>2 DEF Fence
  <2> QED
    BY <1>12, <1>13, <2>1, <2>2, <2>3 DEF Fences
<1>15. \A b : Waiting(b)' = Waiting(b)
  <2>1. \A b : WorkersWaiting(b)' = WorkersWaiting(b)
    BY <1>4, <1>7, <1>8 DEF WorkersWaiting
  <2>2. ASSUME NEW b, NEW g \in SyncHost
        PROVE  g \in HostsWaiting(b)' <=> g \in HostsWaiting(b)
    BY <1>5, <1>7, HostAssumption DEF HostsWaiting
  <2>3. \A b : HostsWaiting(b)' = HostsWaiting(b)
    BY <2>2 DEF HostsWaiting
  <2> QED
    BY <2>1, <2>3 DEF Waiting
<1>16. Counters'
  <2>1. \A w \in Worker : wpc'[w] = "held" => phaseOf'[w] <= arrivals'[ops'[cur'[w]].kind].phase
    BY <1>4, <1>8 DEF FenceInv, Counters
  <2>2. \A g \in Host : hpc'[g] = "held" => phaseOf'[g] <= arrivals'["synchronize"].phase
    BY <1>4, <1>5 DEF FenceInv, Counters
  <2>3. \A b \in Barriers : arrivals'[b].counter = Expected(b) - Cardinality(Waiting(b)')
    BY <1>4, <1>15 DEF FenceInv, Counters
  <2> QED
    BY <2>1, <2>2, <2>3 DEF Counters
<1>17. ASSUME NEW g \in SyncHost, g # h
       PROVE  /\ g \in Host /\ hpc'[g] = hpc[g] /\ mark'[g] = mark[g]
              /\ hpc[g] \in {"notify", "arrive", "held"} => mark[g] \in OpId
              /\ Synchronizing(g)' <=> Synchronizing(g)
  <2>1. g \in Host /\ hpc'[g] = hpc[g] /\ mark'[g] = mark[g]
    BY <1>5, <1>17, HostAssumption
  <2>2. hpc[g] \in {"notify", "arrive", "held"} => mark[g] \in OpId
    BY <1>1, <2>1 DEF Placed
  <2> QED
    BY <1>2, <1>7, <2>1, <2>2 DEF Synchronizing
<1>18. Synchronized'
  <2>1. ASSUME NEW k \in OpId', ops'[k].kind = "synchronize", Open(k)'
        PROVE  \E g \in SyncHost : Synchronizing(g)' /\ mark'[g] = k
    <3>1. CASE k = m
      <4>1. h \in SyncHost /\ Synchronizing(h)'
        BY <1>2, <1>5, <2>1, <3>1 DEF Synchronizing
      <4> QED
        BY <1>5, <3>1, <4>1
    <3>2. CASE k \in OpId
      <4>1. PICK g \in SyncHost : Synchronizing(g) /\ mark[g] = k
        BY <1>2, <1>12, <2>1, <3>2 DEF FenceInv, Synchronized
      <4>2. g # h
        BY <4>1 DEF Synchronizing
      <4> QED
        BY <1>17, <4>1, <4>2
    <3> QED
      BY <1>13, <3>1, <3>2
  <2>2. ASSUME NEW g \in SyncHost
        PROVE  /\ Synchronizing(g)' => Open(mark[g])'
               /\ hpc'[g] = "held" /\ MayLeave(g, "synchronize")' => ~Open(mark[g])'
    <3>1. CASE g = h
      <4>1. mark'[g] = m /\ hpc'[g] = "notify"
        BY <1>5, <3>1
      <4> QED
        BY <1>12, <4>1
    <3>2. CASE g # h
      <4>1. PICK k : k = mark[g]
        OBVIOUS
      <4>2. mark'[g] = k /\ (Synchronizing(g)' <=> Synchronizing(g)) /\ hpc'[g] = hpc[g]
            /\ (hpc[g] \in {"notify", "arrive", "held"} => k \in OpId)
        BY <1>17, <3>2, <4>1
      <4>3. Synchronizing(g) => Open(k)' /\ k \in OpId
        BY <1>12, <4>1, <4>2 DEF FenceInv, Synchronized, Synchronizing
      <4>4. hpc[g] = "held" /\ MayLeave(g, "synchronize") => ~Open(k)'
        BY <1>12, <4>1, <4>2 DEF FenceInv, Synchronized
      <4> QED
        BY <1>7, <4>2, <4>3, <4>4
    <3> QED
      BY <3>1, <3>2
  <2> QED
    BY <2>1, <2>2 DEF Synchronized
<1> QED
  BY <1>14, <1>16, <1>18 DEF FenceInv

\* A copy of a fence goes from the queue to a worker.
LEMMA TakeFences ==
  ASSUME CallInv, CallInv', FenceInv, NEW w \in Worker, Take(w),
         \A k \in OpId : Done(k) => Done(k)'
  PROVE  FenceInv'
<1>0. PICK k : k = tasks[1]
  OBVIOUS
<1>1. /\ Typed /\ Typed' /\ Placed /\ k \in OpId /\ OpId = 1..Len(ops) /\ Len(ops) \in Nat
      /\ \A j : /\ j = k => Cardinality(CopiesOf(j)') = Cardinality(CopiesOf(j)) - 1
                /\ j # k => Cardinality(CopiesOf(j)') = Cardinality(CopiesOf(j))
  BY <1>0, TakeEffect, OpIdFacts DEF CallInv
<1>2. /\ UNCHANGED <<ops, arrivals, phaseOf, hpc, mark>>
      /\ cur' = [cur EXCEPT ![w] = k]
      /\ wpc' = [wpc EXCEPT ![w] = StartOf(ops[k])] /\ wpc[w] = "loop"
  BY <1>0, <1>1, TakeEffect DEF Take, Goes, hosts, syncs
<1>3. /\ cur'[w] = k /\ wpc'[w] = StartOf(ops[k])
      /\ \A v \in Worker \ {w} : cur'[v] = cur[v] /\ wpc'[v] = wpc[v]
  BY <1>1, <1>2 DEF Typed
<1>4. /\ wpc'[w] # "held"
      /\ wpc'[w] = "arrive" <=> Fence(k)
  BY <1>1, <1>3, OpIdFacts, OperationFacts, KindsApart DEF StartOf, Fence
<1>5. /\ OpId' = OpId /\ \A j : Fence(j)' <=> Fence(j)
      /\ \A p, b : MayLeave(p, b)' <=> MayLeave(p, b)
  BY <1>2 DEF OpId, Fence, MayLeave
<1>6. /\ ~AtFence(w) /\ (AtFence(w)' <=> Fence(k))
      /\ \A v \in Worker \ {w} : AtFence(v)' <=> AtFence(v)
  BY <1>2, <1>3, <1>4, <1>5 DEF AtFence
<1>7. /\ \A j : j # k => At(j)' = At(j)
      /\ Fence(k) => At(k)' = At(k) \cup {w} /\ w \notin At(k)
  BY <1>3, <1>6 DEF At
<1>8. \A j : At(j) \in SUBSET Worker
  BY DEF At
<1>9. Fence(k) => Cardinality(At(k)') = Cardinality(At(k)) + 1
  BY <1>7, <1>8, WorkerCount, FS_AddElement
<1>10. ASSUME NEW j
       PROVE  /\ Cardinality(CopiesOf(j)) \in Nat /\ Cardinality(CopiesOf(j)') \in Nat
              /\ Cardinality(CopiesOf(j)) = 0 <=> CopiesOf(j) = {}
              /\ Cardinality(CopiesOf(j)') = 0 <=> CopiesOf(j)' = {}
  BY <1>1, PlacesFinite DEF Typed, CopiesOf
<1>11. ASSUME NEW j \in OpId, Fence(j)
       PROVE  Open(j)' <=> Open(j)
  <2>1. CASE j # k
    <3>1. CopiesOf(j)' = {} <=> CopiesOf(j) = {}
      BY <1>1, <1>10, <2>1
    <3> QED
      BY <1>7, <2>1, <3>1 DEF Open
  <2>2. CASE j = k
    <3>1. Cardinality(CopiesOf(j)) # 0
      BY <1>1, <1>10, <2>2
    <3> QED
      BY <1>7, <1>10, <1>11, <2>2, <3>1 DEF Open
  <2> QED
    BY <2>1, <2>2
<1>12. ASSUME NEW j \in OpId, Fence(j)
       PROVE  Cardinality(CopiesOf(j)') + Cardinality(At(j)')
                = Cardinality(CopiesOf(j)) + Cardinality(At(j))
  <2>1. CASE j # k
    BY <1>1, <1>7, <2>1
  <2>2. CASE j = k
    <3>1. Cardinality(At(j)) \in Nat
      BY <1>8, WorkerCount
    <3> QED
      BY <1>1, <1>9, <1>10, <1>12, <2>2, <3>1
  <2> QED
    BY <2>1, <2>2
<1>13. Fences'
  <2>1. ASSUME NEW j \in OpId, Fence(j)
        PROVE  IF Open(j)' THEN Cardinality(CopiesOf(j)') + Cardinality(At(j)') = N
               ELSE \A i \in 1..(j - 1) : Done(i)'
    <3>1. CASE Open(j)
      BY <1>11, <1>12, <2>1, <3>1 DEF FenceInv, Fences
    <3>2. CASE ~Open(j)
      <4>1. \A i \in 1..(j - 1) : Done(i)
        BY <2>1, <3>2 DEF FenceInv, Fences
      <4>2. \A i \in 1..(j - 1) : i \in OpId
        BY <1>1
      <4> QED
        BY <1>11, <2>1, <3>2, <4>1, <4>2
    <3> QED
      BY <3>1, <3>2
  <2> QED
    BY <1>5, <2>1 DEF Fences
<1>14. \A b : Waiting(b)' = Waiting(b)
  <2>1. ASSUME NEW b, NEW v \in Worker
        PROVE  v \in WorkersWaiting(b)' <=> v \in WorkersWaiting(b)
    BY <1>2, <1>3, <1>4, <1>5 DEF WorkersWaiting
  <2>2. \A b : WorkersWaiting(b)' = WorkersWaiting(b)
    BY <2>1 DEF WorkersWaiting
  <2>3. \A b : HostsWaiting(b)' = HostsWaiting(b)
    BY <1>2, <1>5 DEF HostsWaiting
  <2> QED
    BY <2>2, <2>3 DEF Waiting
<1>15. Counters'
  <2>1. \A v \in Worker : wpc'[v] = "held" => phaseOf'[v] <= arrivals'[ops'[cur'[v]].kind].phase
    BY <1>2, <1>3, <1>4 DEF FenceInv, Counters
  <2>2. \A g \in Host : hpc'[g] = "held" => phaseOf'[g] <= arrivals'["synchronize"].phase
    BY <1>2 DEF FenceInv, Counters
  <2>3. \A b \in Barriers : arrivals'[b].counter = Expected(b) - Cardinality(Waiting(b)')
    BY <1>2, <1>14 DEF FenceInv, Counters
  <2> QED
    BY <2>1, <2>2, <2>3 DEF Counters
<1>16. Synchronized'
  <2>1. \A g \in SyncHost : Synchronizing(g)' <=> Synchronizing(g)
    BY <1>2, <1>5 DEF Synchronizing
  <2>2. \A j \in OpId : ops[j].kind = "synchronize" => (Open(j)' <=> Open(j))
    BY <1>11, KindsApart DEF Fence
  <2>3. \A j \in OpId' : ops'[j].kind = "synchronize" /\ Open(j)' =>
          \E g \in SyncHost : Synchronizing(g)' /\ mark'[g] = j
    BY <1>2, <1>5, <2>1, <2>2 DEF FenceInv, Synchronized
  <2>4. ASSUME NEW g \in SyncHost
        PROVE  /\ Synchronizing(g)' => Open(mark[g])'
               /\ hpc'[g] = "held" /\ MayLeave(g, "synchronize")' => ~Open(mark[g])'
    <3>1. PICK j : j = mark[g] /\ mark'[g] = j
      BY <1>2
    <3>2. g \in Host
      BY HostAssumption
    <3>3. Synchronizing(g) \/ hpc[g] = "held" => j \in OpId /\ ops[j].kind = "synchronize"
      BY <1>1, <3>1, <3>2 DEF Placed, Synchronizing
    <3>4. Synchronizing(g) => Open(j)
      BY <3>1 DEF FenceInv, Synchronized
    <3>5. hpc[g] = "held" /\ MayLeave(g, "synchronize") => ~Open(j)
      BY <3>1 DEF FenceInv, Synchronized
    <3>6. Synchronizing(g)' => Open(j)'
      BY <2>1, <2>2, <3>3, <3>4
    <3>7. hpc'[g] = "held" /\ MayLeave(g, "synchronize")' => ~Open(j)'
      BY <1>2, <1>5, <2>2, <3>3, <3>5
    <3> QED
      BY <3>1, <3>6, <3>7
  <2> QED
    BY <2>3, <2>4 DEF Synchronized
<1> QED
  BY <1>13, <1>15, <1>16 DEF FenceInv

\* A thread comes to the barrier b: a worker with its copy of a fence, or the
\* host of a synchronize().
Comes(p, b) ==
  /\ Arrive(p, b)
  /\ UNCHANGED <<ops, tasks, cur, mark>>
  /\ \/ /\ p \in Worker /\ wpc[p] = "arrive" /\ ops[cur[p]].kind = b
        /\ wpc' = [wpc EXCEPT ![p] = "held"] /\ UNCHANGED hpc
     \/ /\ p \in SyncHost /\ b = "synchronize" /\ hpc[p] = "arrive"
        /\ hpc' = [hpc EXCEPT ![p] = "held"] /\ UNCHANGED wpc

LEMMA ComesEffect ==
  ASSUME Typed, NEW p \in Worker \cup SyncHost, NEW b \in Barriers, Comes(p, b)
  PROVE  /\ p \in Worker \cup Host
         /\ OpId' = OpId
         /\ \A k : CopiesOf(k)' = CopiesOf(k) /\ (Fence(k)' <=> Fence(k))
         /\ \A w \in Worker : \/ w # p /\ wpc'[w] = wpc[w]
                              \/ w = p /\ wpc[w] = "arrive" /\ wpc'[w] = "held" /\ ops[cur[w]].kind = b
         /\ \A h \in Host : \/ h # p /\ hpc'[h] = hpc[h]
                            \/ /\ h = p /\ hpc[h] = "arrive" /\ hpc'[h] = "held"
                               /\ b = "synchronize" /\ h \in SyncHost
         /\ phaseOf'[p] = arrivals[b].phase
         /\ \A q \in Worker \cup Host : q # p => phaseOf'[q] = phaseOf[q]
         /\ \A c \in Barriers \ {b} : arrivals'[c] = arrivals[c]
<1>1. p \in Worker \cup Host
  BY HostAssumption
<1>2. Arrive(p, b) /\ UNCHANGED <<ops, tasks, cur, mark>>
  BY DEF Comes
<1>3. /\ phaseOf' = [phaseOf EXCEPT ![p] = arrivals[b].phase]
      /\ \A c \in Barriers \ {b} : arrivals'[c] = arrivals[c]
  BY <1>1, <1>2, ArriveTyped
<1>4. phaseOf \in [Worker \cup Host -> Nat]
  BY DEF Typed
<1>5. /\ phaseOf'[p] = arrivals[b].phase
      /\ \A q \in Worker \cup Host : q # p => phaseOf'[q] = phaseOf[q]
  BY <1>1, <1>3, <1>4
<1>6. /\ OpId' = OpId
      /\ \A k : CopiesOf(k)' = CopiesOf(k) /\ (Fence(k)' <=> Fence(k))
  BY <1>2 DEF OpId, CopiesOf, Places, Fence
<1>7. wpc \in [Worker -> WorkerPlaces] /\ hpc \in [Host -> HostPlaces]
  BY PendingFacts
<1>8. ASSUME NEW w \in Worker
      PROVE  \/ w # p /\ wpc'[w] = wpc[w]
             \/ w = p /\ wpc[w] = "arrive" /\ wpc'[w] = "held" /\ ops[cur[w]].kind = b
  BY <1>7, HostAssumption DEF Comes
<1>9. ASSUME NEW h \in Host
      PROVE  \/ h # p /\ hpc'[h] = hpc[h]
             \/ /\ h = p /\ hpc[h] = "arrive" /\ hpc'[h] = "held"
                /\ b = "synchronize" /\ h \in SyncHost
  BY <1>7, HostAssumption DEF Comes
<1> QED
  BY <1>1, <1>3, <1>5, <1>6, <1>8, <1>9

\* Who waits: some of the workers, and at most one host.
LEMMA WaitingCount ==
  ASSUME OneSynchronizer, NEW b
  PROVE  /\ IsFiniteSet(Waiting(b)) /\ Cardinality(Waiting(b)) \in Nat
         /\ Cardinality(WorkersWaiting(b)) \in Nat
         /\ WorkersWaiting(b) \in SUBSET Worker
         /\ HostsWaiting(b) = {} => Cardinality(Waiting(b)) = Cardinality(WorkersWaiting(b))
         /\ Cardinality(Waiting(b)) <= Cardinality(WorkersWaiting(b)) + 1
<1>1. WorkersWaiting(b) \in SUBSET Worker /\ HostsWaiting(b) \subseteq SyncHost
  BY DEF WorkersWaiting, HostsWaiting
<1>2. IsFiniteSet(WorkersWaiting(b)) /\ Cardinality(WorkersWaiting(b)) \in Nat
  BY <1>1, WorkerCount
<1>3. CASE HostsWaiting(b) = {}
  <2>1. Waiting(b) = WorkersWaiting(b)
    BY <1>3 DEF Waiting
  <2> QED
    BY <1>1, <1>2, <2>1
<1>4. CASE HostsWaiting(b) # {}
  <2>1. PICK h : h \in HostsWaiting(b)
    BY <1>4
  <2>2. Waiting(b) = WorkersWaiting(b) \cup {h}
    BY <1>1, <2>1 DEF Waiting, OneSynchronizer
  <2>3. /\ IsFiniteSet(Waiting(b))
        /\ Cardinality(Waiting(b)) = IF h \in WorkersWaiting(b) THEN Cardinality(WorkersWaiting(b))
                                     ELSE Cardinality(WorkersWaiting(b)) + 1
    BY <1>2, <2>2, FS_AddElement
  <2> QED
    BY <1>1, <1>2, <1>4, <2>3
<1> QED
  BY <1>3, <1>4

\* The fences are the same when their copies and the workers at them are.
LEMMA FencesStay ==
  ASSUME Typed, Fences, UNCHANGED ops, \A k : CopiesOf(k)' = CopiesOf(k),
         \A k : At(k)' = At(k), \A k \in OpId : Done(k) => Done(k)'
  PROVE  /\ Fences'
         /\ \A k : Open(k)' <=> Open(k)
<1>1. OpId' = OpId /\ \A k : Fence(k)' <=> Fence(k)
  BY DEF OpId, Fence
<1>2. \A k : Open(k)' <=> Open(k)
  BY DEF Open
<1>3. ASSUME NEW k \in OpId, Fence(k)
      PROVE  IF Open(k)' THEN Cardinality(CopiesOf(k)') + Cardinality(At(k)') = N
             ELSE \A j \in 1..(k - 1) : Done(j)'
  <2>1. CASE Open(k)
    BY <1>2, <1>3, <2>1 DEF Fences
  <2>2. CASE ~Open(k)
    <3>1. \A j \in 1..(k - 1) : Done(j)
      BY <1>3, <2>2 DEF Fences
    <3>2. \A j \in 1..(k - 1) : j \in OpId
      BY OpIdFacts
    <3> QED
      BY <1>2, <2>2, <3>1, <3>2
  <2> QED
    BY <2>1, <2>2
<1> QED
  BY <1>1, <1>2, <1>3 DEF Fences

\* Not the last one: the thread waits.
LEMMA EarlyKeeps ==
  ASSUME CallInv, FenceInv, OneSynchronizer, NEW p \in Worker \cup SyncHost, NEW b \in Barriers,
         Comes(p, b), arrivals[b].counter # 1, \A k \in OpId : Done(k) => Done(k)'
  PROVE  FenceInv'
<1>1. /\ Typed /\ Placed /\ p \in Worker \cup Host
      /\ phaseOf \in [Worker \cup Host -> Nat]
      /\ arrivals \in [Barriers -> [counter : Int, phase : Nat]]
      /\ UNCHANGED <<ops, tasks, cur, mark>> /\ Arrive(p, b)
  BY HostAssumption DEF CallInv, Typed, Comes
<1>2. /\ OpId' = OpId
      /\ \A k : CopiesOf(k)' = CopiesOf(k) /\ (Fence(k)' <=> Fence(k))
      /\ phaseOf'[p] = arrivals[b].phase
      /\ \A q \in Worker \cup Host : q # p => phaseOf'[q] = phaseOf[q]
      /\ \A c \in Barriers \ {b} : arrivals'[c] = arrivals[c]
  BY <1>1, ComesEffect
<1>3. /\ \A w \in Worker : \/ w # p /\ wpc'[w] = wpc[w]
                           \/ w = p /\ wpc[w] = "arrive" /\ wpc'[w] = "held" /\ ops[cur[w]].kind = b
      /\ \A h \in Host : \/ h # p /\ hpc'[h] = hpc[h]
                         \/ /\ h = p /\ hpc[h] = "arrive" /\ hpc'[h] = "held"
                            /\ b = "synchronize" /\ h \in SyncHost
  BY <1>1, ComesEffect
<1>4. arrivals'[b] = [counter |-> arrivals[b].counter - 1, phase |-> arrivals[b].phase]
  BY <1>1, ArriveTyped
<1>5. /\ arrivals'[b].phase = arrivals[b].phase /\ arrivals'[b].counter = arrivals[b].counter - 1
      /\ \A c \in Barriers : arrivals'[c].phase = arrivals[c].phase /\ arrivals[c].phase \in Nat
  BY <1>1, <1>2, <1>4
<1>6. /\ ~MayLeave(p, b)'
      /\ \A q \in Worker \cup Host, c \in Barriers : q # p => (MayLeave(q, c)' <=> MayLeave(q, c))
  BY <1>2, <1>5 DEF MayLeave
<1>7. \A w \in Worker : wpc[w] \in {"arrive", "held"} => ops[cur[w]].kind \in Barriers
  BY <1>1 DEF Placed
<1>8. ASSUME NEW w \in Worker
      PROVE  AtFence(w)' <=> AtFence(w)
  <2>1. CASE w # p
    BY <1>1, <1>3, <1>6, <1>7, <2>1 DEF AtFence
  <2>2. CASE w = p
    BY <1>1, <1>3, <1>6, <2>2 DEF AtFence
  <2> QED
    BY <2>1, <2>2
<1>9. \A k : At(k)' = At(k)
  BY <1>1, <1>8 DEF At
<1>10. Fences' /\ \A k : Open(k)' <=> Open(k)
  BY <1>1, <1>2, <1>9, FencesStay DEF FenceInv
<1>11. ASSUME NEW c \in Barriers
       PROVE  Waiting(c)' = IF c = b THEN Waiting(c) \cup {p} ELSE Waiting(c)
  <2>1. ASSUME NEW w \in Worker
        PROVE  w \in WorkersWaiting(c)' <=> w \in WorkersWaiting(c) \/ (c = b /\ w = p)
    BY <1>1, <1>3, <1>6 DEF WorkersWaiting
  <2>2. ASSUME NEW h \in SyncHost
        PROVE  h \in HostsWaiting(c)' <=> h \in HostsWaiting(c) \/ (c = b /\ h = p)
    <3>1. h \in Host
      BY HostAssumption
    <3>2. CASE h # p
      BY <1>3, <1>6, <3>1, <3>2 DEF HostsWaiting
    <3>3. CASE h = p
      BY <1>3, <1>6, <3>1, <3>3 DEF HostsWaiting
    <3> QED
      BY <3>2, <3>3
  <2>3. /\ WorkersWaiting(c) \subseteq Worker /\ WorkersWaiting(c)' \subseteq Worker
        /\ HostsWaiting(c) \subseteq SyncHost /\ HostsWaiting(c)' \subseteq SyncHost
    BY DEF WorkersWaiting, HostsWaiting
  <2> QED
    BY <2>1, <2>2, <2>3 DEF Waiting
<1>12. p \notin Waiting(b)
  BY <1>3, HostAssumption DEF Waiting, WorkersWaiting, HostsWaiting
<1>13. Counters'
  <2>1. ASSUME NEW w \in Worker, wpc'[w] = "held"
        PROVE  phaseOf'[w] <= arrivals'[ops'[cur'[w]].kind].phase
    <3>1. CASE w # p
      <4>1. wpc[w] = "held"
        BY <1>3, <2>1, <3>1
      <4>2. ops[cur[w]].kind \in Barriers /\ phaseOf[w] <= arrivals[ops[cur[w]].kind].phase
        BY <1>7, <4>1 DEF FenceInv, Counters
      <4> QED
        BY <1>1, <1>2, <1>5, <3>1, <4>2
    <3>2. CASE w = p
      BY <1>1, <1>2, <1>3, <1>5, <3>2
    <3> QED
      BY <3>1, <3>2
  <2>2. ASSUME NEW h \in Host, hpc'[h] = "held"
        PROVE  phaseOf'[h] <= arrivals'["synchronize"].phase
    <3>1. "synchronize" \in Barriers
      BY KindsApart
    <3>2. CASE h # p
      <4>1. phaseOf[h] <= arrivals["synchronize"].phase
        BY <1>3, <2>2, <3>2 DEF FenceInv, Counters
      <4> QED
        BY <1>2, <1>5, <3>1, <3>2, <4>1
    <3>3. CASE h = p
      BY <1>2, <1>3, <1>5, <3>3
    <3> QED
      BY <3>2, <3>3
  <2>3. ASSUME NEW c \in Barriers
        PROVE  arrivals'[c].counter = Expected(c) - Cardinality(Waiting(c)')
    <3>1. arrivals[c].counter = Expected(c) - Cardinality(Waiting(c))
      BY DEF FenceInv, Counters
    <3>2. CASE c # b
      BY <1>2, <1>11, <3>1, <3>2
    <3>3. CASE c = b
      <4>1. IsFiniteSet(Waiting(b)) /\ Cardinality(Waiting(b)) \in Nat
        BY WaitingCount
      <4>2. Cardinality(Waiting(b)') = Cardinality(Waiting(b)) + 1
        BY <1>11, <1>12, <4>1, FS_AddElement
      <4>3. Expected(b) \in Nat
        BY WorkersCounted DEF Expected
      <4> QED
        BY <1>5, <3>1, <3>3, <4>1, <4>2, <4>3
    <3> QED
      BY <3>2, <3>3
  <2> QED
    BY <2>1, <2>2, <2>3 DEF Counters
<1>14. Synchronized'
  <2>1. ASSUME NEW g \in SyncHost
        PROVE  Synchronizing(g)' <=> Synchronizing(g)
    <3>1. g \in Host /\ "synchronize" \in Barriers
      BY HostAssumption, KindsApart
    <3>2. CASE g # p
      BY <1>1, <1>3, <1>6, <3>1, <3>2 DEF Synchronizing
    <3>3. CASE g = p
      BY <1>1, <1>3, <1>6, <3>1, <3>3, HostAssumption DEF Synchronizing
    <3> QED
      BY <3>2, <3>3
  <2>2. \A k \in OpId' : ops'[k].kind = "synchronize" /\ Open(k)' =>
          \E g \in SyncHost : Synchronizing(g)' /\ mark'[g] = k
    BY <1>1, <1>2, <1>10, <2>1 DEF FenceInv, Synchronized
  <2>3. ASSUME NEW g \in SyncHost
        PROVE  /\ Synchronizing(g)' => Open(mark[g])'
               /\ hpc'[g] = "held" /\ MayLeave(g, "synchronize")' => ~Open(mark[g])'
    <3>1. PICK j : j = mark[g] /\ mark'[g] = j
      BY <1>1
    <3>2. g \in Host /\ "synchronize" \in Barriers
      BY HostAssumption, KindsApart
    <3>3. Synchronizing(g)' => Open(j)'
      BY <1>10, <2>1, <3>1 DEF FenceInv, Synchronized
    <3>4. ASSUME hpc'[g] = "held", MayLeave(g, "synchronize")'
          PROVE  ~Open(j)'
      <4>1. g # p
        BY <1>3, <1>6, <3>2, <3>4
      <4>2. hpc[g] = "held" /\ MayLeave(g, "synchronize")
        BY <1>3, <1>6, <3>2, <3>4, <4>1
      <4> QED
        BY <1>10, <3>1, <4>2 DEF FenceInv, Synchronized
    <3> QED
      BY <3>1, <3>3, <3>4
  <2> QED
    BY <2>2, <2>3 DEF Synchronized
<1> QED
  BY <1>10, <1>13, <1>14 DEF FenceInv

\* Whoever comes last finds every worker at one fence, and its host there.
LEMMA LastComer ==
  ASSUME CallInv, FenceInv, OneSynchronizer, NEW p \in Worker \cup SyncHost, NEW b \in Barriers,
         Comes(p, b), arrivals[b].counter = 1
  PROVE  \E k \in OpId :
           /\ ops[k].kind = b /\ CopiesOf(k) = {} /\ At(k) = Worker
           /\ \A w \in Worker : cur[w] = k /\ (w = p \/ wpc[w] = "held")
           /\ b = "synchronize" => \E g \in SyncHost : mark[g] = k /\ (g = p \/ hpc[g] = "held")
<1>1. /\ Typed /\ Placed /\ N \in Nat \ {0}
      /\ \A w \in Worker : \/ w # p
                           \/ w = p /\ wpc[w] = "arrive" /\ ops[cur[w]].kind = b
      /\ \A h \in Host : \/ h # p
                         \/ h = p /\ hpc[h] = "arrive" /\ b = "synchronize"
  BY ComesEffect, WorkersCounted DEF CallInv
<1>2. /\ Cardinality(Waiting(b)) \in Nat /\ Cardinality(WorkersWaiting(b)) \in Nat
      /\ WorkersWaiting(b) \in SUBSET Worker
      /\ HostsWaiting(b) = {} => Cardinality(Waiting(b)) = Cardinality(WorkersWaiting(b))
      /\ Cardinality(Waiting(b)) <= Cardinality(WorkersWaiting(b)) + 1
  BY WaitingCount
<1>3. arrivals[b].counter = Expected(b) - Cardinality(Waiting(b))
  BY DEF FenceInv, Counters
<1>4. Cardinality(Waiting(b)) = Expected(b) - 1 /\ Expected(b) \in Nat
  <2>1. Expected(b) \in Nat
    BY <1>1 DEF Expected
  <2> QED
    BY <1>2, <1>3, <2>1
<1>5. p \in Worker => p \notin WorkersWaiting(b)
  BY <1>1 DEF WorkersWaiting
<1>6. p \in SyncHost => HostsWaiting(b) = {}
  <2>1. p \in SyncHost => p \in Host /\ hpc[p] = "arrive"
    BY <1>1, HostAssumption
  <2>2. ASSUME p \in SyncHost, NEW h \in HostsWaiting(b)
        PROVE  FALSE
    <3>1. h = p /\ hpc[h] = "held"
      BY <2>2 DEF HostsWaiting, OneSynchronizer
    <3> QED
      BY <2>1, <2>2, <3>1
  <2> QED
    BY <2>2
<1>7. \A w \in Worker : w = p \/ w \in WorkersWaiting(b)
  <2>1. ASSUME p \in Worker
        PROVE  Cardinality(WorkersWaiting(b)) = N - 1
    <3>1. Cardinality(WorkersWaiting(b) \cup {p}) = Cardinality(WorkersWaiting(b)) + 1
      BY <1>2, <1>5, WorkerCount, FS_AddElement
    <3>2. Cardinality(WorkersWaiting(b) \cup {p}) <= N
      <4>1. WorkersWaiting(b) \cup {p} \in SUBSET Worker
        BY <1>2, <2>1
      <4> QED
        BY <4>1, WorkerCount
    <3>3. CASE b = "barrier"
      <4>1. HostsWaiting(b) = {}
        BY <3>3, KindsApart DEF HostsWaiting
      <4> QED
        BY <1>1, <1>2, <1>4, <3>3, <4>1 DEF Expected
    <3>4. CASE b = "synchronize"
      <4>1. Expected(b) = N + 1
        BY <3>4, KindsApart DEF Expected
      <4> QED
        BY <1>1, <1>2, <1>4, <3>1, <3>2, <4>1
    <3> QED
      BY <3>3, <3>4, KindsApart
  <2>2. CASE p \in Worker
    <3>1. Cardinality(WorkersWaiting(b) \cup {p}) = Cardinality(WorkersWaiting(b)) + 1
      BY <1>2, <1>5, WorkerCount, FS_AddElement
    <3>2. WorkersWaiting(b) \cup {p} \in SUBSET Worker
      BY <1>2, <2>2
    <3>3. Cardinality(WorkersWaiting(b) \cup {p}) = N
      BY <1>1, <2>1, <2>2, <3>1
    <3>4. WorkersWaiting(b) \cup {p} = Worker
      BY <3>2, <3>3, WorkerCount
    <3> QED
      BY <3>4
  <2>3. CASE p \in SyncHost
    <3>1. b = "synchronize"
      BY <1>1, <2>3, HostAssumption
    <3>2. Cardinality(WorkersWaiting(b)) = N
      <4>1. Expected(b) = N + 1
        BY <3>1, KindsApart DEF Expected
      <4> QED
        BY <1>1, <1>2, <1>4, <1>6, <2>3, <4>1
    <3>3. WorkersWaiting(b) = Worker
      BY <1>2, <3>2, WorkerCount
    <3> QED
      BY <3>3
  <2> QED
    BY <2>2, <2>3
<1>8. ASSUME NEW w \in Worker
      PROVE  /\ AtFence(w) /\ ops[cur[w]].kind = b /\ cur[w] \in OpId
             /\ w = p \/ wpc[w] = "held"
             /\ w \in At(cur[w]) /\ Fence(cur[w])
  <2>1. w = p \/ (wpc[w] = "held" /\ ops[cur[w]].kind = b /\ ~MayLeave(w, b))
    BY <1>7 DEF WorkersWaiting
  <2>2. /\ AtFence(w) /\ ops[cur[w]].kind = b /\ (w = p \/ wpc[w] = "held")
        /\ wpc[w] \in {"arrive", "held"}
    BY <1>1, <2>1 DEF AtFence
  <2>3. cur[w] \in OpId
    BY <1>1, <2>2 DEF Placed
  <2> QED
    BY <2>2, <2>3 DEF At, Fence
<1>9. PICK v : v \in Worker
  BY WorkerAssumption
<1>10. PICK k \in OpId : k = cur[v]
  BY <1>8, <1>9
<1>11. Fence(k) /\ ops[k].kind = b /\ v \in At(k)
  BY <1>8, <1>9, <1>10
<1>12. ASSUME NEW w \in Worker
       PROVE  cur[w] = k
  BY <1>8, <1>11, <1>12, OneFence
<1>13. At(k) = Worker
  BY <1>8, <1>12 DEF At
<1>14. Open(k)
  BY <1>11 DEF Open
<1>15. CopiesOf(k) = {}
  <2>1. Cardinality(CopiesOf(k)) + Cardinality(Worker) = N
    BY <1>11, <1>13, <1>14 DEF FenceInv, Fences
  <2>2. Cardinality(CopiesOf(k)) = 0
    BY <1>1, <2>1, CopiesFacts DEF N
  <2> QED
    BY <1>1, <2>2, CopiesFacts
<1>16. ASSUME b = "synchronize"
       PROVE  \E g \in SyncHost : mark[g] = k /\ (g = p \/ hpc[g] = "held")
  <2>1. PICK g \in SyncHost : Synchronizing(g) /\ mark[g] = k
    BY <1>11, <1>14, <1>16 DEF FenceInv, Synchronized
  <2>2. CASE p \in SyncHost
    BY <2>1, <2>2 DEF OneSynchronizer
  <2>3. CASE p \in Worker
    <3>1. HostsWaiting(b) # {}
      <4>1. Cardinality(WorkersWaiting(b) \cup {p}) = Cardinality(WorkersWaiting(b)) + 1
        BY <1>2, <1>5, <2>3, WorkerCount, FS_AddElement
      <4>2. Cardinality(WorkersWaiting(b) \cup {p}) <= N
        <5>1. WorkersWaiting(b) \cup {p} \in SUBSET Worker
          BY <1>2, <2>3
        <5> QED
          BY <5>1, WorkerCount
      <4>3. Expected(b) = N + 1
        BY <1>16, KindsApart DEF Expected
      <4> QED
        BY <1>1, <1>2, <1>4, <4>1, <4>2, <4>3
    <3>2. PICK h \in SyncHost : hpc[h] = "held"
      BY <3>1 DEF HostsWaiting
    <3>3. g = h
      BY DEF OneSynchronizer
    <3> QED
      BY <2>1, <3>2, <3>3
  <2> QED
    BY <2>2, <2>3
<1> QED
  BY <1>8, <1>11, <1>12, <1>13, <1>15, <1>16

\* The last one: the fence is over, and everybody may go on.
LEMMA LateKeeps ==
  ASSUME CallInv, FenceInv, OneSynchronizer, NEW p \in Worker \cup SyncHost, NEW b \in Barriers,
         Comes(p, b), arrivals[b].counter = 1, \A k \in OpId : Done(k) => Done(k)'
  PROVE  FenceInv'
<1>1. /\ Typed /\ Placed /\ p \in Worker \cup Host
      /\ phaseOf \in [Worker \cup Host -> Nat]
      /\ arrivals \in [Barriers -> [counter : Int, phase : Nat]]
      /\ UNCHANGED <<ops, tasks, cur, mark>> /\ Arrive(p, b)
  BY HostAssumption DEF CallInv, Typed, Comes
<1>2. /\ OpId' = OpId
      /\ \A k : CopiesOf(k)' = CopiesOf(k) /\ (Fence(k)' <=> Fence(k))
      /\ phaseOf'[p] = arrivals[b].phase
      /\ \A q \in Worker \cup Host : q # p => phaseOf'[q] = phaseOf[q]
      /\ \A c \in Barriers \ {b} : arrivals'[c] = arrivals[c]
  BY <1>1, ComesEffect
<1>3. /\ \A w \in Worker : \/ w # p /\ wpc'[w] = wpc[w]
                           \/ w = p /\ wpc[w] = "arrive" /\ wpc'[w] = "held" /\ ops[cur[w]].kind = b
      /\ \A h \in Host : \/ h # p /\ hpc'[h] = hpc[h]
                         \/ /\ h = p /\ hpc[h] = "arrive" /\ hpc'[h] = "held"
                            /\ b = "synchronize" /\ h \in SyncHost
  BY <1>1, ComesEffect
<1>4. arrivals'[b] = [counter |-> Expected(b), phase |-> arrivals[b].phase + 1]
  BY <1>1, ArriveTyped
<1>5. /\ arrivals'[b].phase = arrivals[b].phase + 1 /\ arrivals'[b].counter = Expected(b)
      /\ \A c \in Barriers : arrivals[c].phase \in Nat
      /\ \A c \in Barriers \ {b} : arrivals'[c].phase = arrivals[c].phase
      /\ \A q \in Worker \cup Host : phaseOf[q] \in Nat
  BY <1>1, <1>2, <1>4
<1>6. PICK k \in OpId :
           /\ ops[k].kind = b /\ CopiesOf(k) = {} /\ At(k) = Worker
           /\ \A w \in Worker : cur[w] = k /\ (w = p \/ wpc[w] = "held")
           /\ b = "synchronize" => \E g \in SyncHost : mark[g] = k /\ (g = p \/ hpc[g] = "held")
  BY LastComer
<1>7. ASSUME NEW w \in Worker
      PROVE  wpc'[w] = "held" /\ phaseOf'[w] <= arrivals[b].phase /\ MayLeave(w, b)'
  <2>1. wpc'[w] = "held"
    BY <1>3, <1>6
  <2>2. phaseOf'[w] <= arrivals[b].phase
    <3>1. CASE w = p
      BY <1>2, <1>5, <3>1
    <3>2. CASE w # p
      <4>1. phaseOf[w] <= arrivals[ops[cur[w]].kind].phase
        BY <1>6, <3>2 DEF FenceInv, Counters
      <4> QED
        BY <1>2, <1>6, <3>2, <4>1
    <3> QED
      BY <3>1, <3>2
  <2>3. phaseOf'[w] \in Nat
    BY <1>2, <1>5
  <2>4. MayLeave(w, b)'
    BY <1>5, <2>2, <2>3 DEF MayLeave
  <2> QED
    BY <2>1, <2>2, <2>4
<1>8. ASSUME NEW w \in Worker
      PROVE  ~AtFence(w)' /\ ops'[cur'[w]].kind = b
  BY <1>1, <1>6, <1>7 DEF AtFence
<1>9. \A j : At(j)' = {}
  BY <1>8 DEF At
<1>10. WorkerAssumption /\ \E v : v \in Worker
  BY WorkerAssumption
<1>11. \A j : j # k => At(j) = {}
  BY <1>6 DEF At
<1>12. /\ ~Open(k)' /\ Open(k)
       /\ \A j : j # k => (Open(j)' <=> Open(j))
  BY <1>2, <1>6, <1>9, <1>10, <1>11 DEF Open
<1>13. Fences'
  <2>1. ASSUME NEW j \in OpId, Fence(j)
        PROVE  IF Open(j)' THEN Cardinality(CopiesOf(j)') + Cardinality(At(j)') = N
               ELSE \A i \in 1..(j - 1) : Done(i)'
    <3>1. CASE j = k
      <4>1. \A i \in 1..(k - 1) : i \in OpId /\ Done(i)
        BY <1>6, AllHeld
      <4> QED
        BY <1>12, <3>1, <4>1
    <3>2. CASE j # k /\ Open(j)
      BY <1>2, <1>9, <1>11, <1>12, <2>1, <3>2 DEF FenceInv, Fences
    <3>3. CASE j # k /\ ~Open(j)
      <4>1. \A i \in 1..(j - 1) : Done(i)
        BY <2>1, <3>3 DEF FenceInv, Fences
      <4>2. \A i \in 1..(j - 1) : i \in OpId
        BY <1>1, OpIdFacts
      <4> QED
        BY <1>12, <3>3, <4>1, <4>2
    <3> QED
      BY <3>1, <3>2, <3>3
  <2> QED
    BY <1>2, <2>1 DEF Fences
<1>14. ASSUME NEW g \in SyncHost
       PROVE  /\ g \in Host /\ g \notin Worker /\ "synchronize" \in Barriers
              /\ b # "synchronize" => /\ hpc'[g] = hpc[g] /\ (Synchronizing(g)' <=> Synchronizing(g))
                                      /\ MayLeave(g, "synchronize")' <=> MayLeave(g, "synchronize")
              /\ b = "synchronize" => /\ mark[g] = k /\ hpc'[g] = "held"
                                      /\ MayLeave(g, "synchronize")' /\ ~Synchronizing(g)'
  <2>1. g \in Host /\ g \notin Worker /\ "synchronize" \in Barriers
    BY HostAssumption, KindsApart
  <2>2. ASSUME b # "synchronize"
        PROVE  /\ hpc'[g] = hpc[g] /\ (Synchronizing(g)' <=> Synchronizing(g))
               /\ MayLeave(g, "synchronize")' <=> MayLeave(g, "synchronize")
    <3>1. g # p /\ hpc'[g] = hpc[g]
      BY <1>3, <2>1, <2>2
    <3>2. MayLeave(g, "synchronize")' <=> MayLeave(g, "synchronize")
      BY <1>2, <2>1, <2>2, <3>1 DEF MayLeave
    <3> QED
      BY <1>1, <3>1, <3>2 DEF Synchronizing
  <2>3. ASSUME b = "synchronize"
        PROVE  /\ mark[g] = k /\ hpc'[g] = "held"
               /\ MayLeave(g, "synchronize")' /\ ~Synchronizing(g)'
    <3>1. mark[g] = k /\ (g = p \/ hpc[g] = "held")
      BY <1>6, <2>3 DEF OneSynchronizer
    <3>2. hpc'[g] = "held"
      BY <1>3, <2>1, <3>1
    <3>3. phaseOf'[g] <= arrivals[b].phase /\ phaseOf'[g] \in Nat
      <4>1. CASE g = p
        BY <1>2, <1>5, <4>1
      <4>2. CASE g # p
        <5>1. phaseOf[g] <= arrivals["synchronize"].phase
          BY <2>1, <3>1, <4>2 DEF FenceInv, Counters
        <5> QED
          BY <1>2, <1>5, <2>1, <2>3, <4>2, <5>1
      <4> QED
        BY <4>1, <4>2
    <3>4. MayLeave(g, "synchronize")'
      BY <1>5, <2>3, <3>3 DEF MayLeave
    <3> QED
      BY <3>1, <3>2, <3>4 DEF Synchronizing
  <2> QED
    BY <2>1, <2>2, <2>3
<1>15. Counters'
  <2>1. ASSUME NEW w \in Worker
        PROVE  phaseOf'[w] <= arrivals'[ops'[cur'[w]].kind].phase
    <3>1. phaseOf'[w] <= arrivals[b].phase /\ phaseOf'[w] \in Nat /\ ops'[cur'[w]].kind = b
      BY <1>2, <1>5, <1>7, <1>8
    <3> QED
      BY <1>5, <3>1
  <2>2. ASSUME NEW h \in Host, hpc'[h] = "held"
        PROVE  phaseOf'[h] <= arrivals'["synchronize"].phase
    <3>1. "synchronize" \in Barriers
      BY KindsApart
    <3>2. CASE h # p
      <4>1. phaseOf[h] <= arrivals["synchronize"].phase
        BY <1>3, <2>2, <3>2 DEF FenceInv, Counters
      <4>2. arrivals["synchronize"].phase <= arrivals'["synchronize"].phase
        BY <1>5, <3>1
      <4>3. phaseOf'[h] = phaseOf[h]
        BY <1>2, <3>2
      <4>4. arrivals["synchronize"].phase \in Nat /\ arrivals'["synchronize"].phase \in Nat
            /\ phaseOf[h] \in Nat
        BY <1>5, <3>1
      <4> QED
        BY <4>1, <4>2, <4>3, <4>4
    <3>3. CASE h = p
      BY <1>2, <1>3, <1>5, <3>3
    <3> QED
      BY <3>2, <3>3
  <2>3. ASSUME NEW c \in Barriers
        PROVE  arrivals'[c].counter = Expected(c) - Cardinality(Waiting(c)')
    <3>1. CASE c = b
      <4>1. WorkersWaiting(b)' = {}
        BY <1>7 DEF WorkersWaiting
      <4>2. HostsWaiting(b)' = {}
        BY <1>14 DEF HostsWaiting
      <4>3. Cardinality(Waiting(b)') = 0
        BY <4>1, <4>2, FS_EmptySet DEF Waiting
      <4>4. Expected(b) \in Nat
        BY WorkersCounted DEF Expected
      <4> QED
        BY <1>5, <3>1, <4>3, <4>4
    <3>2. CASE c # b
      <4>1. WorkersWaiting(c)' = {} /\ WorkersWaiting(c) = {}
        <5>1. WorkersWaiting(c)' = {}
          BY <1>8, <3>2 DEF WorkersWaiting
        <5>2. WorkersWaiting(c) = {}
          BY <1>6, <3>2 DEF WorkersWaiting
        <5> QED
          BY <5>1, <5>2
      <4>2. HostsWaiting(c)' = HostsWaiting(c)
        <5>1. CASE c = "synchronize"
          BY <1>14, <3>2, <5>1 DEF HostsWaiting
        <5>2. CASE c # "synchronize"
          BY <5>2 DEF HostsWaiting
        <5> QED
          BY <5>1, <5>2
      <4>3. Waiting(c)' = Waiting(c)
        BY <4>1, <4>2 DEF Waiting
      <4> QED
        BY <1>2, <3>2, <4>3 DEF FenceInv, Counters
    <3> QED
      BY <3>1, <3>2
  <2> QED
    BY <2>1, <2>2, <2>3 DEF Counters
<1>16. Synchronized'
  <2>1. ASSUME NEW j \in OpId', ops'[j].kind = "synchronize", Open(j)'
        PROVE  \E g \in SyncHost : Synchronizing(g)' /\ mark'[g] = j
    <3>1. j # k /\ Open(j) /\ j \in OpId
      BY <1>2, <1>12, <2>1
    <3>2. PICK g \in SyncHost : Synchronizing(g) /\ mark[g] = j
      BY <1>1, <2>1, <3>1 DEF FenceInv, Synchronized
    <3>3. b # "synchronize"
      BY <1>14, <3>1, <3>2
    <3> QED
      BY <1>1, <1>14, <3>2, <3>3
  <2>2. ASSUME NEW g \in SyncHost
        PROVE  /\ Synchronizing(g)' => Open(mark[g])'
               /\ hpc'[g] = "held" /\ MayLeave(g, "synchronize")' => ~Open(mark[g])'
    <3>1. PICK j : j = mark[g] /\ mark'[g] = j
      BY <1>1
    <3>2. CASE b = "synchronize"
      <4>1. j = k
        BY <1>14, <3>1, <3>2
      <4> QED
        BY <1>12, <1>14, <3>1, <3>2, <4>1
    <3>3. CASE b # "synchronize"
      <4>1. ASSUME Synchronizing(g)'
            PROVE  Open(j)'
        <5>1. Synchronizing(g) /\ Open(j)
          BY <1>14, <3>1, <3>3, <4>1 DEF FenceInv, Synchronized
        <5>2. ops[j].kind = "synchronize"
          BY <1>1, <1>14, <3>1, <5>1 DEF Placed, Synchronizing
        <5> QED
          BY <1>6, <1>12, <3>3, <5>1, <5>2
      <4>2. ASSUME hpc'[g] = "held", MayLeave(g, "synchronize")'
            PROVE  ~Open(j)'
        <5>1. ~Open(j)
          BY <1>14, <3>1, <3>3, <4>2 DEF FenceInv, Synchronized
        <5> QED
          BY <1>12, <5>1
      <4> QED
        BY <3>1, <4>1, <4>2
    <3> QED
      BY <3>2, <3>3
  <2> QED
    BY <2>1, <2>2 DEF Synchronized
<1> QED
  BY <1>13, <1>15, <1>16 DEF FenceInv

LEMMA InitFenceInv == Init => FenceInv
<1> SUFFICES ASSUME Init
             PROVE  FenceInv
  OBVIOUS
<1>1. OpId = {}
  BY DEF Init, OpId
<1>2. ASSUME NEW b \in Barriers
      PROVE  arrivals[b].counter = Expected(b) - Cardinality(Waiting(b))
  <2>1. WorkersWaiting(b) = {}
    BY DEF Init, WorkersWaiting
  <2>2. HostsWaiting(b) = {}
    BY HostAssumption DEF Init, HostsWaiting
  <2>3. Cardinality(Waiting(b)) = 0
    BY <2>1, <2>2, FS_EmptySet DEF Waiting
  <2>4. Expected(b) \in Nat
    BY WorkersCounted DEF Expected
  <2>5. arrivals[b].counter = Expected(b)
    BY DEF Init
  <2> QED
    BY <2>3, <2>4, <2>5
<1>3. Counters
  BY <1>2 DEF Init, Counters
<1>4. Fences
  BY <1>1 DEF Fences
<1>5. Synchronized
  BY <1>1, HostAssumption DEF Init, Synchronized, Synchronizing
<1> QED
  BY <1>3, <1>4, <1>5 DEF FenceInv

LEMMA HostFences ==
  ASSUME CallInv, CallInv', FenceInv, OneSynchronizer, NEW h \in Host, HostCall(h) \/ Continue(h),
         \A k \in OpId : Done(k) => Done(k)'
  PROVE  FenceInv'
<1>1. Typed /\ Placed /\ hpc \in [Host -> HostPlaces]
  BY PendingFacts DEF CallInv
<1>2. ASSUME NEW to, hpc' = [hpc EXCEPT ![h] = to], to # "held",
             UNCHANGED <<ops, tasks, cur, mark, arrivals, phaseOf>>,
             \A w \in Worker : wpc'[w] = wpc[w] \/ (wpc[w] = "blocked" /\ wpc'[w] = "loop"),
             hpc[h] = "held" => MayLeave(h, "synchronize"),
             \/ hpc[h] = "notify" /\ ops[mark[h]].kind = "synchronize" /\ to = "arrive"
             \/ /\ to \notin {"notify", "arrive"} /\ hpc[h] # "arrive"
                /\ hpc[h] = "notify" => ops[mark[h]].kind # "synchronize"
      PROVE  FenceInv'
  <2>1. \A g \in Host : g # h => hpc'[g] = hpc[g]
    BY <1>1, <1>2
  <2>2. hpc'[h] = to
    BY <1>1, <1>2
  <2>3. \A w \in Worker : /\ wpc'[w] = "held" => wpc[w] = "held"
                          /\ wpc'[w] = wpc[w] \/ (~AtFence(w) /\ ~AtFence(w)')
    BY <1>2 DEF AtFence
  <2>4. \A g \in Host : hpc'[g] = "held" => hpc[g] = "held"
    BY <1>2, <2>1, <2>2
  <2>5. \A g : MayLeave(g, "synchronize")' <=> MayLeave(g, "synchronize")
    BY <1>2 DEF MayLeave
  <2>6. ASSUME NEW g \in SyncHost
        PROVE  /\ Synchronizing(g)' <=> Synchronizing(g)
               /\ hpc[g] = "held" /\ ~MayLeave(g, "synchronize") => hpc'[g] = "held"
    <3>1. g \in Host
      BY HostAssumption
    <3>2. CASE g # h
      BY <1>2, <2>1, <2>5, <3>1, <3>2 DEF Synchronizing
    <3>3. CASE g = h
      BY <1>2, <2>2, <2>5, <3>1, <3>3 DEF Synchronizing
    <3> QED
      BY <3>2, <3>3
  <2> QED
    BY <1>1, <1>2, <2>3, <2>4, <2>6, GentleKeeps
<1>3. CASE \E op \in Operation : Count(h, op)
  <2>1. PICK op \in Operation : Count(h, op)
    BY <1>3
  <2>2. /\ hpc' = [hpc EXCEPT ![h] = "push"] /\ hpc[h] = "idle"
        /\ UNCHANGED <<ops, tasks, wpc, cur, mark, arrivals, phaseOf>>
    BY <2>1 DEF Count, MayCall, queue, syncs, workers
  <2> QED
    BY <1>2, <2>2
<1>4. CASE Push(h)
  <2>1. /\ hpc[h] = "push" /\ hop[h] \in Operation /\ PushOp(h, hop[h]) /\ Counted(hop[h])
    BY <1>1, <1>4 DEF Push, Typed, Placed
  <2>2. hop[h].kind # "synchronize"
    BY <2>1 DEF Counted
  <2> QED
    BY <2>1, <2>2, PushFences
<1>5. CASE \E b \in Barriers : PushBarrier(h, b)
  <2>1. PICK b \in Barriers : PushBarrier(h, b)
    BY <1>5
  <2>2. /\ hpc[h] = "idle" /\ Op(b, 0) \in Operation /\ PushOp(h, Op(b, 0))
        /\ Op(b, 0).kind = "synchronize" => h \in SyncHost
    BY <2>1, OperationFacts DEF PushBarrier, MayCall
  <2> QED
    BY <2>2, PushFences
<1>6. CASE HostArrive(h)
  <2>1. h \in SyncHost /\ "synchronize" \in Barriers
    BY <1>1, <1>6, KindsApart DEF HostArrive, Placed
  <2>2. Comes(h, "synchronize")
    BY <1>6, <2>1 DEF HostArrive, Comes, queue, workers
  <2> QED
    BY <2>1, <2>2, EarlyKeeps, LateKeeps
<1>7. CASE Destroy(h)
  BY <1>2, <1>7 DEF Destroy, syncs, workers
<1>8. CASE NotifyOne(h) \/ NotifyAll(h) \/ NotifyStop(h)
  <2>1. /\ UNCHANGED <<ops, tasks, cur, mark, arrivals, phaseOf>>
        /\ \A w \in Worker : wpc'[w] = wpc[w] \/ (wpc[w] = "blocked" /\ wpc'[w] = "loop")
    <3>1. UNCHANGED <<arrivals, phaseOf>>
      BY <1>8 DEF NotifyOne, NotifyAll, NotifyStop, syncs
    <3> QED
      BY <1>1, <1>8, <3>1, HostQuiet
  <2>2. CASE NotifyOne(h) \/ NotifyAll(h)
    <3>1. hpc[h] = "notify" /\ hpc' = [hpc EXCEPT ![h] = AfterNotify(h)]
      BY <2>2 DEF NotifyOne, NotifyAll
    <3>2. CASE ops[mark[h]].kind = "synchronize"
      BY <1>2, <2>1, <3>1, <3>2 DEF AfterNotify
    <3>3. CASE ops[mark[h]].kind # "synchronize"
      BY <1>2, <2>1, <3>1, <3>3 DEF AfterNotify
    <3> QED
      BY <3>2, <3>3
  <2>3. CASE NotifyStop(h)
    BY <1>2, <2>1, <2>3 DEF NotifyStop
  <2> QED
    BY <1>8, <2>2, <2>3
<1>9. CASE HostLeave(h) \/ Join(h)
  BY <1>2, <1>9 DEF HostLeave, Join, queue, syncs, workers
<1> QED
  BY <1>3, <1>4, <1>5, <1>6, <1>7, <1>8, <1>9 DEF HostCall, Continue

LEMMA WorkerFences ==
  ASSUME CallInv, CallInv', FenceInv, OneSynchronizer, NEW w \in Worker,
         WorkerStep(w) \/ WorkerSpuriousWakeup(w),
         \A k \in OpId : Done(k) => Done(k)'
  PROVE  FenceInv'
<1>1. Typed /\ Placed /\ wpc \in [Worker -> WorkerPlaces]
  BY PendingFacts DEF CallInv
<1>2. CASE Take(w)
  BY <1>2, TakeFences
<1>3. CASE WorkerArrive(w)
  <2>1. PICK b \in Barriers : ops[cur[w]].kind = b
    BY <1>1, <1>3 DEF WorkerArrive, Placed
  <2>2. Comes(w, b)
    BY <1>3, <2>1 DEF WorkerArrive, Comes, Goes, queue, hosts
  <2> QED
    BY <2>2, EarlyKeeps, LateKeeps
<1>4. CASE \/ Sleep(w) \/ Exit(w) \/ Draw(w) \/ EndCall(w) \/ Uncount(w) \/ WorkerLeave(w)
           \/ WorkerSpuriousWakeup(w)
  <2>1. UNCHANGED <<ops, tasks, cur, mark, arrivals, phaseOf, hpc>>
    BY <1>4 DEF Sleep, Exit, Draw, EndCall, Uncount, WorkerLeave, WorkerSpuriousWakeup, queue,
           syncs, hosts
  <2>2. PICK to : wpc' = [wpc EXCEPT ![w] = to] /\ to \notin {"arrive", "held"}
    BY <1>4 DEF Sleep, Exit, Draw, EndCall, Uncount, WorkerLeave, WorkerSpuriousWakeup, Goes
  <2>3. wpc[w] # "arrive" /\ (wpc[w] = "held" => MayLeave(w, ops[cur[w]].kind))
    BY <1>4 DEF Sleep, Exit, Draw, EndCall, Uncount, WorkerLeave, WorkerSpuriousWakeup
  <2>4. wpc'[w] = to /\ \A v \in Worker : v # w => wpc'[v] = wpc[v]
    BY <1>1, <2>2
  <2>5. \A v \in Worker : /\ wpc'[v] = "held" => wpc[v] = "held"
                          /\ wpc'[v] = wpc[v] \/ (~AtFence(v) /\ ~AtFence(v)')
    BY <2>2, <2>3, <2>4 DEF AtFence
  <2>6. \A g \in SyncHost : Synchronizing(g)' <=> Synchronizing(g)
    BY <2>1 DEF Synchronizing, MayLeave
  <2> QED
    BY <1>1, <2>1, <2>5, <2>6, GentleKeeps
<1> QED
  BY <1>2, <1>3, <1>4 DEF WorkerStep, WorkerSpuriousWakeup

LEMMA NextFenceInv ==
  ASSUME OneSynchronizer, CallInv, CallInv', FenceInv, [Next]_vars
  PROVE  FenceInv'
<1>1. \A k \in OpId : Done(k) => Done(k)'
  BY EndedGrows, DoneStays
<1>2. CASE UNCHANGED vars
  <2>1. /\ UNCHANGED <<ops, tasks, cur, mark, arrivals, phaseOf, wpc, hpc>>
    BY <1>2 DEF vars, queue, syncs, workers, hosts
  <2>2. \A g \in SyncHost : Synchronizing(g)' <=> Synchronizing(g)
    BY <2>1 DEF Synchronizing, MayLeave
  <2> QED
    BY <1>1, <2>1, <2>2, GentleKeeps DEF CallInv
<1> QED
  BY <1>1, <1>2, HostFences, WorkerFences DEF Next, Gone

\* At the fences everybody is counted: while one is open every worker has its
\* copy to take or is held there, and it is over only when what was pushed
\* before it has ended; the host of a synchronize() is held with its fence.
THEOREM FencesHold ==
  ASSUME OneSynchronizer
  PROVE  Spec => [](CallInv /\ FenceInv)
<1>1. Init => FenceInv
  BY InitFenceInv
<1>2. CallInv /\ CallInv' /\ FenceInv /\ [Next]_vars => FenceInv'
  BY NextFenceInv
<1> QED
  BY <1>1, <1>2, CallsConsistent, PTL DEF Spec

\* synchronize() returns only when everything pushed before it has ended.
THEOREM SynchronizeWaits ==
  ASSUME OneSynchronizer
  PROVE  Spec => SynchronizeCovers
<1> DEFINE Covers == \A h \in Host :
       (hpc[h] = "held" /\ hpc'[h] = "idle") => \A k \in 1..mark[h] : Done(k)
<1>1. ASSUME CallInv, FenceInv, [Next]_vars, NEW h \in Host, hpc[h] = "held", hpc'[h] = "idle"
      PROVE  \A k \in 1..mark[h] : Done(k)
  <2>1. /\ Typed /\ Placed /\ hpc \in [Host -> HostPlaces]
        /\ h \in SyncHost /\ mark[h] \in OpId /\ ops[mark[h]].kind = "synchronize"
    BY <1>1, PendingFacts DEF CallInv, Placed
  <2>2. HostLeave(h)
    <3>1. ASSUME NEW g \in Host, HostCall(g) \/ Continue(g)
          PROVE  HostLeave(h)
      <4>1. CASE g = h
        BY <1>1, <2>1, <3>1, <4>1 DEF HostCall, Continue, Count, PushBarrier, MayCall, Destroy, Push,
               NotifyOne, NotifyAll, HostArrive, NotifyStop, Join
      <4>2. CASE g # h
        <5>1. hpc'[h] = hpc[h]
          BY <1>1, <2>1, <3>1, <4>2 DEF HostCall, Continue, Count, PushBarrier, PushOp, Destroy, Push,
                 NotifyOne, NotifyAll, HostArrive, HostLeave, NotifyStop, Join
        <5> QED
          BY <1>1, <5>1
      <4> QED
        BY <4>1, <4>2
    <3>2. ASSUME NEW w \in Worker, WorkerStep(w) \/ WorkerSpuriousWakeup(w)
          PROVE  FALSE
      <4>1. UNCHANGED hpc
        BY <3>2 DEF WorkerStep, WorkerSpuriousWakeup, Take, Sleep, Exit, Draw, EndCall, Uncount,
               WorkerArrive, WorkerLeave, hosts
      <4> QED
        BY <1>1, <4>1
    <3> QED
      BY <1>1, <3>1, <3>2 DEF Next, Gone, vars, hosts
  <2>3. ~Open(mark[h])
    BY <1>1, <2>1, <2>2 DEF HostLeave, FenceInv, Synchronized
  <2>4. PICK m \in OpId : m = mark[h]
    BY <2>1
  <2>5. Fence(m) /\ ~Open(m) /\ ~Counted(ops[m])
    BY <2>1, <2>3, <2>4, KindsApart DEF Fence
  <2>6. \A j \in 1..(m - 1) : Done(j)
    BY <1>1, <2>5 DEF FenceInv, Fences
  <2>7. Done(m)
    BY <2>5 DEF Done
  <2>8. m \in Nat
    BY <2>1, OpIdFacts
  <2>9. \A k \in 1..m : k \in 1..(m - 1) \/ k = m
    BY <2>8
  <2>10. \A k \in 1..m : Done(k)
    BY <2>6, <2>7, <2>9
  <2> QED
    BY <2>4, <2>10
<1>2. CallInv /\ FenceInv /\ [Next]_vars => [Covers]_vars
  BY <1>1
<1> HIDE DEF Covers
<1>3. CallInv /\ FenceInv /\ [Next]_vars => [Covers]_vars
  BY <1>2
<1>4. Spec => [][Covers]_vars
  BY <1>3, FencesHold, PTL DEF Spec
<1> QED
  BY <1>4 DEF SynchronizeCovers, Covers

-----------------------------------------------------------------------------
\* A worker that is on its way past a fence finds it over.
LEMMA FenceOver ==
  ASSUME CallInv, FenceInv, NEW w \in Worker, ~AtFence(w), NEW k \in OpId, NEW f \in OpId,
         Fence(f), f < k, \A i \in 1..Len(tasks) : k <= tasks[i]
  PROVE  \A j \in 1..(f - 1) : Done(j)
<1>1. Typed /\ OpId = 1..Len(ops) /\ Len(ops) \in Nat
      /\ \A i \in 1..Len(tasks) : tasks[i] \in OpId
  BY OpIdFacts DEF CallInv
<1>2. CopiesOf(f) = {}
  BY <1>1 DEF CopiesOf, Places
<1>3. At(f) \in SUBSET Worker /\ w \notin At(f)
  BY DEF At
<1>4. ~Open(f)
  <2>1. ASSUME Open(f)
        PROVE  FALSE
    <3>1. Cardinality(CopiesOf(f)) + Cardinality(At(f)) = N
      BY <2>1 DEF FenceInv, Fences
    <3>2. Cardinality(CopiesOf(f)) = 0
      BY <1>2, FS_EmptySet
    <3>3. Cardinality(At(f)) = N
      BY <1>3, <3>1, <3>2, WorkerCount
    <3>4. At(f) = Worker
      BY <1>3, <3>3, WorkerCount
    <3> QED
      BY <1>3, <3>4
  <2> QED
    BY <2>1
<1> QED
  BY <1>4 DEF FenceInv, Fences

\* The operations as the executor knows them.
Log == [k \in OpId |-> IF Counted(ops[k]) THEN "work" ELSE "fence"]
BegunWork == {k \in OpId : begun[k] # {}}
EndedWork == {k \in OpId : Counted(ops[k]) /\ Done(k)}

LEMMA ExecutorView ==
  /\ Order!Init <=> Log = <<>> /\ BegunWork = {} /\ EndedWork = {}
  /\ \A kind : Order!Submit(kind) <=> Log' = Append(Log, kind) /\ UNCHANGED <<BegunWork, EndedWork>>
  /\ \A j : Order!Begin(j) <=>
       /\ Log[j] = "work" /\ j \notin BegunWork
       /\ \A i \in DOMAIN Log : Log[i] = "work" /\ Order!Fenced(Log, i, j) => i \in EndedWork
       /\ BegunWork' = BegunWork \cup {j} /\ UNCHANGED <<Log, EndedWork>>
  /\ \A j : Order!End(j) <=>
       j \in BegunWork \ EndedWork /\ EndedWork' = EndedWork \cup {j} /\ UNCHANGED <<Log, BegunWork>>
  /\ Order!vars = <<Log, BegunWork, EndedWork>>
<1>1. Order!Init <=> Log = <<>> /\ BegunWork = {} /\ EndedWork = {}
  BY DEF Order!Init, Log, BegunWork, EndedWork
<1>2. \A kind : Order!Submit(kind) <=> Log' = Append(Log, kind) /\ UNCHANGED <<BegunWork, EndedWork>>
  BY DEF Order!Submit, Log, BegunWork, EndedWork
<1>3. \A j : Order!Begin(j) <=>
       /\ Log[j] = "work" /\ j \notin BegunWork
       /\ \A i \in DOMAIN Log : Log[i] = "work" /\ Order!Fenced(Log, i, j) => i \in EndedWork
       /\ BegunWork' = BegunWork \cup {j} /\ UNCHANGED <<Log, EndedWork>>
  BY DEF Order!Begin, Order!MayBegin, Log, BegunWork, EndedWork
<1>4. \A j : Order!End(j) <=>
       j \in BegunWork \ EndedWork /\ EndedWork' = EndedWork \cup {j} /\ UNCHANGED <<Log, BegunWork>>
  BY DEF Order!End, Log, BegunWork, EndedWork
<1>5. Order!vars = <<Log, BegunWork, EndedWork>>
  BY DEF Order!vars, Log, BegunWork, EndedWork
<1> QED
  BY <1>1, <1>2, <1>3, <1>4, <1>5

\* The view does not change.
LEMMA SameView ==
  ASSUME UNCHANGED <<Log, BegunWork, EndedWork>>
  PROVE  UNCHANGED Order!vars
BY DEF Order!vars, Log, BegunWork, EndedWork

LEMMA SameFunction ==
  ASSUME NEW D, NEW S, NEW f \in [D -> S], NEW g \in [D -> S], \A x \in D : f[x] = g[x]
  PROVE  f = g
OBVIOUS

LEMMA PushSubmits ==
  ASSUME CallInv, NEW h \in Host, NEW op \in Operation, PushOp(h, op)
  PROVE  Order!Next
<1>0. PICK n, m, kind : /\ n = Len(ops) /\ m = n + 1
                        /\ kind = IF Counted(op) THEN "work" ELSE "fence"
  OBVIOUS
<1>1. /\ n \in Nat /\ OpId = 1..n /\ OpId' = 1..m
      /\ ops'[m] = op /\ \A k \in OpId : ops'[k] = ops[k]
      /\ begun'[m] = {} /\ \A k \in OpId : begun'[k] = begun[k]
      /\ ended'[m] = {} /\ \A k \in OpId : ended'[k] = ended[k]
  BY <1>0, PushEffect, OpIdFacts DEF CallInv
<1>2. Log \in [1..n -> {"work", "fence"}] /\ kind \in {"work", "fence"}
  BY <1>0, <1>1 DEF Log
<1>3. /\ Append(Log, kind) \in [1..m -> {"work", "fence"}]
      /\ Append(Log, kind)[m] = kind
      /\ \A k \in 1..n : Append(Log, kind)[k] = Log[k]
  <2>1. Append(Log, kind) \in [1..(n + 1) -> {"work", "fence"}]
    BY <1>1, <1>2, AppendValue
  <2>2. Append(Log, kind)[n + 1] = kind
    BY <1>1, <1>2, AppendValue
  <2>3. \A k \in 1..n : Append(Log, kind)[k] = Log[k]
    BY <1>1, <1>2, AppendValue
  <2> QED
    BY <1>0, <2>1, <2>2, <2>3
<1>4. /\ Log' \in [1..m -> {"work", "fence"}]
      /\ Log'[m] = kind /\ \A k \in 1..n : Log'[k] = Log[k]
  BY <1>0, <1>1 DEF Log
<1>5. \A k \in 1..m : k \in 1..n \/ k = m
  BY <1>0, <1>1
<1>6. Log' = Append(Log, kind)
  <2>1. \A k \in 1..m : Log'[k] = Append(Log, kind)[k]
    BY <1>3, <1>4, <1>5
  <2>2. PICK D, S : D = 1..m /\ S = {"work", "fence"}
    OBVIOUS
  <2>3. Log' \in [D -> S] /\ Append(Log, kind) \in [D -> S]
    BY <1>3, <1>4, <2>2
  <2>4. \A k \in D : Log'[k] = Append(Log, kind)[k]
    BY <2>1, <2>2
  <2> QED
    BY <2>3, <2>4, SameFunction
<1>7. BegunWork' = BegunWork
  BY <1>0, <1>1, <1>5 DEF BegunWork
<1>8. Counted(op) => ~Done(m)'
  <2>1. ASSUME Counted(op)
        PROVE  op.n \in Nat \ {0}
    BY <2>1, OperationFacts DEF Counted
  <2>2. ASSUME Counted(op)
        PROVE  0 \in Indices(m)'
    <3>1. Indices(m)' = 0..(op.n - 1)
      BY <1>1 DEF Indices
    <3> QED
      BY <2>1, <2>2, <3>1
  <2>3. ended'[m] = {} /\ ops'[m] = op
    BY <1>1
  <2> QED
    BY <2>2, <2>3 DEF Done
<1>9. \A k \in OpId : Done(k)' <=> Done(k)
  BY <1>1 DEF Done, Indices
<1>10. EndedWork' = EndedWork
  <2>1. \A k \in OpId : k \in EndedWork' <=> k \in EndedWork
    BY <1>0, <1>1, <1>9 DEF EndedWork
  <2>2. m \notin EndedWork'
    BY <1>1, <1>8 DEF EndedWork
  <2>3. EndedWork \subseteq OpId /\ EndedWork' \subseteq OpId \cup {m}
    BY <1>1, <1>5 DEF EndedWork
  <2> QED
    BY <2>1, <2>2, <2>3
<1>11. Order!Submit(kind)
  BY <1>6, <1>7, <1>10, ExecutorView
<1> QED
  BY <1>2, <1>11 DEF Order!Next

\* The first call of an operation begins: what is on the other side of a fence
\* has ended.
LEMMA BeginsInOrder ==
  ASSUME CallInv, FenceInv, NEW w \in Worker, ~AtFence(w), NEW k \in OpId,
         Counted(ops[k]), begun[k] = {}, \A i \in 1..Len(tasks) : k <= tasks[i],
         UNCHANGED <<ops, ended>>, BegunWork' = BegunWork \cup {k}
  PROVE  Order!Next
<1>1. OpId = 1..Len(ops) /\ Len(ops) \in Nat
  BY OpIdFacts DEF CallInv
<1>2. Log' = Log /\ EndedWork' = EndedWork
  BY DEF Log, EndedWork, Done, Indices, OpId
<1>3. Log[k] = "work" /\ k \notin BegunWork /\ DOMAIN Log = OpId
  BY DEF Log, BegunWork
<1>4. ASSUME NEW i \in OpId, Log[i] = "work", Order!Fenced(Log, i, k)
      PROVE  i \in EndedWork
  <2>1. PICK f \in (i + 1)..(k - 1) : Log[f] = "fence"
    BY <1>4 DEF Order!Fenced
  <2>2. f \in OpId /\ f < k /\ i \in 1..(f - 1)
    BY <1>1, <1>4, <2>1
  <2>3. Counted(ops[i]) /\ ~Counted(ops[f])
    BY <1>4, <2>1, <2>2 DEF Log
  <2>4. Fence(f)
    BY <2>2, <2>3, OpIdFacts, OperationFacts DEF Fence, Counted, CallInv
  <2>5. Done(i)
    BY <2>2, <2>4, FenceOver
  <2> QED
    BY <2>3, <2>5 DEF EndedWork
<1>5. Order!Begin(k)
  BY <1>2, <1>3, <1>4, ExecutorView
<1> QED
  BY <1>3, <1>5 DEF Order!Next, Log

LEMMA TakeBegins ==
  ASSUME CallInv, FenceInv, NEW w \in Worker, Take(w)
  PROVE  [Order!Next]_(Order!vars)
<1>1. PICK k \in OpId : k = tasks[1] /\ Head(tasks) = k /\ 1 \in 1..Len(tasks) /\ Len(tasks) \in Nat
  BY TakeEffect DEF CallInv
<1>2. UNCHANGED <<ops, ended>> /\ wpc[w] = "loop"
  BY DEF Take
<1>3. CASE ops[k].kind = "async"
  <2>1. begun' = [begun EXCEPT ![k] = begun[k] \cup {0}]
    BY <1>1, <1>3 DEF Take
  <2>2. 1 \in CopiesOf(k)
    BY <1>1 DEF CopiesOf, Places
  <2>3. begun[k] = {}
    BY <1>3, <2>2 DEF CallInv, CallsRight, Begun
  <2>4. \A i \in 1..Len(tasks) : k <= tasks[i]
    BY <1>1 DEF CallInv, CallsRight, Fifo
  <2>5. BegunWork' = BegunWork \cup {k}
    BY <1>2, <2>1 DEF CallInv, Typed, BegunWork, OpId
  <2>6. ~AtFence(w) /\ Counted(ops[k])
    BY <1>2, <1>3 DEF AtFence, Counted
  <2> QED
    BY <1>2, <2>3, <2>4, <2>5, <2>6, BeginsInOrder
<1>4. CASE ops[k].kind # "async"
  <2>1. begun' = begun
    BY <1>1, <1>4 DEF Take
  <2>2. Log' = Log /\ BegunWork' = BegunWork /\ EndedWork' = EndedWork
    BY <1>2, <2>1 DEF Log, BegunWork, EndedWork, Done, Indices, OpId
  <2> QED
    BY <2>2, SameView
<1> QED
  BY <1>3, <1>4

LEMMA DrawBegins ==
  ASSUME CallInv, FenceInv, NEW w \in Worker, Draw(w)
  PROVE  [Order!Next]_(Order!vars)
<1>1. PICK k \in OpId : k = cur[w] /\ ops[k].kind = "parallel"
  BY DEF CallInv, Placed, Draw
<1>2. UNCHANGED <<ops, ended>> /\ wpc[w] = "draw"
  BY DEF Draw, queue
<1>3. Log' = Log /\ EndedWork' = EndedWork
  BY <1>2 DEF Log, EndedWork, Done, Indices, OpId
<1>4. CASE UNCHANGED begun
  <2>1. BegunWork' = BegunWork
    BY <1>2, <1>4 DEF BegunWork, OpId
  <2> QED
    BY <1>3, <2>1, SameView
<1>5. CASE begun' = [begun EXCEPT ![k] = begun[k] \cup {drawn[k]}]
  <2>1. begun'[k] # {} /\ \A j \in OpId : j # k => begun'[j] = begun[j]
    BY <1>5 DEF CallInv, Typed
  <2>2. CASE begun[k] # {}
    <3>1. BegunWork' = BegunWork
      BY <1>2, <2>1, <2>2 DEF BegunWork, OpId
    <3> QED
      BY <1>3, <3>1, SameView
  <2>3. CASE begun[k] = {}
    <3>1. BegunWork' = BegunWork \cup {k}
      BY <1>2, <2>1 DEF BegunWork, OpId
    <3>2. \A i \in 1..Len(tasks) : k <= tasks[i]
      BY <1>1 DEF CallInv, CallsRight, Fifo
    <3>3. ~AtFence(w) /\ Counted(ops[k])
      BY <1>1, <1>2 DEF AtFence, Counted
    <3> QED
      BY <1>2, <2>3, <3>1, <3>2, <3>3, BeginsInOrder
  <2> QED
    BY <2>2, <2>3
<1> QED
  BY <1>1, <1>4, <1>5 DEF Draw

LEMMA EndCallEnds ==
  ASSUME CallInv, NEW w \in Worker, EndCall(w)
  PROVE  [Order!Next]_(Order!vars)
<1>1. PICK k \in OpId : k = cur[w] /\ Counted(ops[k])
  BY DEF CallInv, Placed, EndCall
<1>2. PICK i : i = idx[w] /\ i \in begun[k] \ ended[k]
  BY <1>1 DEF CallInv, CallsRight, Calls, EndCall
<1>3. UNCHANGED <<ops, begun>> /\ ended' = [ended EXCEPT ![k] = ended[k] \cup {i}]
  BY <1>1, <1>2 DEF EndCall, queue
<1>4. Log' = Log /\ BegunWork' = BegunWork /\ k \in BegunWork /\ DOMAIN Log = OpId
  BY <1>2, <1>3 DEF Log, BegunWork, OpId
<1>5. \A j \in OpId : j # k => (Done(j)' <=> Done(j))
  BY <1>3 DEF Done, Indices, CallInv, Typed
<1>6. ended'[k] = ended[k] \cup {i}
  BY <1>3 DEF CallInv, Typed
<1>7. i \in Indices(k)
  <2>1. Begun(k) /\ ops[k] \in Operation
    BY OpIdFacts DEF CallInv, CallsRight
  <2>2. CASE ops[k].kind = "async"
    <3>1. Indices(k) = 0..0
      BY <2>1, <2>2, OperationFacts DEF Indices
    <3> QED
      BY <1>2, <2>1, <2>2, <3>1 DEF Begun
  <2>3. CASE ops[k].kind = "parallel"
    BY <1>2, <2>1, <2>3 DEF Begun
  <2> QED
    BY <1>1, <2>2, <2>3 DEF Counted
<1>8. ~Done(k)
  BY <1>1, <1>2, <1>7 DEF Done
<1>9. CASE Done(k)'
  <2>1. EndedWork' = EndedWork \cup {k} /\ k \notin EndedWork
    BY <1>1, <1>3, <1>5, <1>8, <1>9 DEF EndedWork, OpId
  <2>2. Order!End(k)
    BY <1>4, <2>1, ExecutorView
  <2> QED
    BY <1>4, <2>2 DEF Order!Next, Log
<1>10. CASE ~Done(k)'
  <2>1. EndedWork' = EndedWork
    BY <1>3, <1>5, <1>8, <1>10 DEF EndedWork, OpId
  <2> QED
    BY <1>4, <2>1, SameView
<1> QED
  BY <1>9, <1>10

\* The pool is an executor: what was submitted before a barrier() or a
\* synchronize() has ended before what was submitted after it begins, for any
\* number of workers and whichever of them take the copies.
THEOREM PoolImplementsExecutor ==
  ASSUME OneSynchronizer
  PROVE  Spec => ImplementsExecutor
<1>1. Init => Order!Init
  <2> SUFFICES ASSUME Init
               PROVE  Order!Init
    OBVIOUS
  <2>1. OpId = {}
    BY DEF Init, OpId
  <2>2. BegunWork = {} /\ EndedWork = {}
    BY <2>1 DEF BegunWork, EndedWork
  <2>3. Log = <<>>
    <3>1. ops = <<>> /\ OpId = 1..0
      BY <2>1 DEF Init
    <3> QED
      BY <3>1 DEF Log
  <2> QED
    BY <2>2, <2>3, ExecutorView
<1>2. ASSUME CallInv, FenceInv, [Next]_vars
      PROVE  [Order!Next]_(Order!vars)
  <2>1. ASSUME UNCHANGED <<ops, begun, ended>>
        PROVE  [Order!Next]_(Order!vars)
    <3>1. Log' = Log /\ BegunWork' = BegunWork /\ EndedWork' = EndedWork
      BY <2>1 DEF Log, BegunWork, EndedWork, Done, Indices, OpId
    <3> QED
      BY <3>1, SameView
  <2>2. ASSUME NEW h \in Host, HostCall(h) \/ Continue(h)
        PROVE  [Order!Next]_(Order!vars)
    <3>1. CASE Push(h)
      <4>1. hop[h] \in Operation /\ PushOp(h, hop[h])
        BY <1>2, <3>1 DEF CallInv, Typed, Push
      <4> QED
        BY <1>2, <4>1, PushSubmits
    <3>2. CASE \E b \in Barriers : PushBarrier(h, b)
      <4>1. PICK b \in Barriers : PushBarrier(h, b)
        BY <3>2
      <4>2. Op(b, 0) \in Operation /\ PushOp(h, Op(b, 0))
        BY <4>1, OperationFacts DEF PushBarrier
      <4> QED
        BY <1>2, <4>2, PushSubmits
    <3>3. CASE \E op \in Operation : Count(h, op)
      BY <2>1, <3>3 DEF Count, queue, work
    <3>4. CASE \/ Destroy(h) \/ NotifyOne(h) \/ NotifyAll(h) \/ HostArrive(h) \/ HostLeave(h)
               \/ NotifyStop(h) \/ Join(h)
      BY <1>2, <2>1, <3>4, HostQuiet DEF CallInv, work
    <3> QED
      BY <2>2, <3>1, <3>2, <3>3, <3>4 DEF HostCall, Continue
  <2>3. ASSUME NEW w \in Worker, WorkerStep(w) \/ WorkerSpuriousWakeup(w)
        PROVE  [Order!Next]_(Order!vars)
    <3>1. CASE Take(w) \/ Draw(w) \/ EndCall(w)
      BY <1>2, <3>1, TakeBegins, DrawBegins, EndCallEnds
    <3>2. CASE \/ Sleep(w) \/ Exit(w) \/ Uncount(w) \/ WorkerArrive(w) \/ WorkerLeave(w)
               \/ WorkerSpuriousWakeup(w)
      BY <2>1, <3>2 DEF Sleep, Exit, Uncount, WorkerArrive, WorkerLeave, WorkerSpuriousWakeup,
             queue, work
    <3> QED
      BY <2>3, <3>1, <3>2 DEF WorkerStep
  <2> QED
    BY <1>2, <2>1, <2>2, <2>3 DEF Next, Gone, vars, queue, work
<1> QED
  BY <1>1, <1>2, FencesHold, PTL DEF Spec, ImplementsExecutor, Order!Spec

-----------------------------------------------------------------------------
(***************************************************************************)
(* ThreadPool: no wakeup is lost and nobody is held for ever               *)
(***************************************************************************)
\* Workers that sleep while tasks are queued, or while the destructor waits for
\* them, are about to be notified: of a task for each of them by the host that
\* pushed it, of any other unless a worker is awake.
Notified ==
  /\ tasks # <<>> => \/ \E w \in Worker : wpc[w] # "blocked"
                     \/ \E h \in Host : hpc[h] = "notify"
  /\ Blocked # {} => \A i \in 1..Len(tasks) :
       ops[tasks[i]].kind # "async" => \E h \in Host : hpc[h] = "notify" /\ mark[h] = tasks[i]
  /\ stop /\ Blocked # {} => \E h \in Host : hpc[h] = "stop"

\* What has no step to take (Continue, WorkerStep) unless another thread does
\* something first.
WorkerWaits(w) ==
  \/ wpc[w] \in {"blocked", "exited"}
  \/ wpc[w] = "held" /\ ~MayLeave(w, ops[cur[w]].kind)
HostWaits(h) ==
  \/ hpc[h] \in {"idle", "destroyed"}
  \/ hpc[h] = "held" /\ ~MayLeave(h, "synchronize")
  \/ hpc[h] = "join" /\ \E w \in Worker : wpc[w] # "exited"

\* When every thread waits, all that was pushed has ended, the queue is empty, no
\* worker is held at a barrier, and no host is in synchronize() or the destructor.
PoolNeverStuck ==
  (\A w \in Worker : WorkerWaits(w)) /\ (\A h \in Host : HostWaits(h)) =>
     /\ tasks = <<>> /\ \A k \in OpId : Done(k)
     /\ \A w \in Worker : wpc[w] \in {"blocked", "exited"}
     /\ \A h \in Host : hpc[h] \in {"idle", "destroyed"}

LEMMA InitNotified == Init => Notified
<1> SUFFICES ASSUME Init PROVE Notified
  OBVIOUS
<1>1. tasks = <<>> /\ Len(tasks) = 0 /\ stop = FALSE
  BY DEF Init
<1> QED
  BY <1>1 DEF Notified

LEMMA PushNotified ==
  ASSUME Typed, Placed, Stopping, Notified, NEW h \in Host, NEW op \in Operation, PushOp(h, op),
         hpc[h] \in {"push", "idle"}, ~stop
  PROVE  Notified'
<1>1. /\ hpc' = [hpc EXCEPT ![h] = "notify"] /\ hpc'[h] = "notify"
      /\ mark' = [mark EXCEPT ![h] = Len(ops) + 1] /\ mark'[h] = Len(ops) + 1
      /\ UNCHANGED <<stop, wpc>>
  BY DEF PushOp, Typed, workers
<1>2. Blocked' = Blocked
  BY <1>1 DEF Blocked
<1>3. \A g \in Host : hpc[g] = "notify" => hpc'[g] = "notify" /\ mark'[g] = mark[g]
  BY <1>1 DEF Typed
<1>4. ASSUME Blocked # {}, NEW i \in 1..Len(tasks'), ops'[tasks'[i]].kind # "async"
      PROVE  \E g \in Host : hpc'[g] = "notify" /\ mark'[g] = tasks'[i]
  <2>1. CASE i > Len(tasks)
    <3>1. tasks'[i] = Len(ops) + 1
      BY <2>1, PushEffect
    <3> QED
      BY <1>1, <3>1
  <2>2. CASE ~(i > Len(tasks))
    <3>1. i \in 1..Len(tasks) /\ tasks'[i] = tasks[i] /\ tasks[i] \in OpId
      BY <2>2, PushEffect, OpIdFacts
    <3>2. ops'[tasks'[i]] = ops[tasks[i]]
      BY <3>1, PushEffect
    <3>3. \E g \in Host : hpc[g] = "notify" /\ mark[g] = tasks[i]
      BY <1>4, <3>1, <3>2 DEF Notified
    <3> QED
      BY <1>3, <3>1, <3>3
  <2> QED
    BY <2>1, <2>2
<1> QED
  BY <1>1, <1>2, <1>4 DEF Notified

\* The steps of a host that pushes nothing.
LEMMA HostNotified ==
  ASSUME Typed, Placed, Stopping, Notified, NEW h \in Host,
         \/ Destroy(h) \/ NotifyOne(h) \/ NotifyAll(h) \/ HostArrive(h) \/ HostLeave(h)
         \/ NotifyStop(h) \/ Join(h)
  PROVE  Notified'
<1>1. /\ UNCHANGED <<ops, tasks, mark>> /\ Blocked' \subseteq Blocked
      /\ \A w \in Worker : wpc[w] # "blocked" => wpc'[w] # "blocked"
  BY HostQuiet DEF Blocked
<1>2. PICK a : a \in Worker
  BY WorkerAssumption
<1>3. CASE Destroy(h)
  <2>1. UNCHANGED wpc /\ hpc[h] = "idle" /\ hpc'[h] = "stop"
        /\ \A g \in Host : hpc[g] = "notify" => hpc'[g] = "notify"
    BY <1>3 DEF Destroy, workers, Typed
  <2> QED
    BY <1>1, <2>1 DEF Notified
<1>4. CASE NotifyOne(h)
  <2>1. /\ ops[mark[h]].kind = "async" /\ UNCHANGED stop
        /\ \A g \in Host \ {h} : hpc'[g] = hpc[g]
        /\ hpc[h] = "notify"
    BY <1>4 DEF NotifyOne, Typed, queue
  <2>2. \E w \in Worker : wpc'[w] # "blocked"
    <3>1. CASE Blocked = {}
      BY <1>1, <1>2, <3>1 DEF Blocked
    <3>2. CASE Blocked # {}
      <4>1. PICK w \in Blocked : wpc' = Woken({w})
        BY <1>4, <3>2 DEF NotifyOne
      <4> QED
        BY <4>1 DEF Woken, Blocked
    <3> QED
      BY <3>1, <3>2
  <2>3. ASSUME Blocked' # {}, NEW i \in 1..Len(tasks), ops[tasks[i]].kind # "async"
        PROVE  \E g \in Host : hpc'[g] = "notify" /\ mark[g] = tasks[i]
    <3>1. PICK g \in Host : hpc[g] = "notify" /\ mark[g] = tasks[i]
      BY <1>1, <2>3 DEF Notified
    <3>2. g # h
      BY <2>1, <2>3, <3>1
    <3> QED
      BY <2>1, <3>1, <3>2
  <2>4. stop /\ Blocked' # {} => \E g \in Host : hpc'[g] = "stop"
    <3>1. hpc[h] # "stop"
      BY <2>1
    <3> QED
      BY <1>1, <2>1, <3>1 DEF Notified
  <2> QED
    BY <1>1, <2>1, <2>2, <2>3, <2>4 DEF Notified
<1>5. CASE NotifyAll(h) \/ NotifyStop(h)
  <2>1. Blocked' = {}
    <3>1. \A w \in Worker : wpc'[w] # "blocked"
      BY <1>5 DEF NotifyAll, NotifyStop, Woken, Blocked
    <3> QED
      BY <3>1 DEF Blocked
  <2>2. wpc'[a] # "blocked"
    BY <1>2, <2>1 DEF Blocked
  <2> QED
    BY <1>2, <2>1, <2>2 DEF Notified
<1>6. CASE HostArrive(h) \/ HostLeave(h) \/ Join(h)
  <2>1. /\ UNCHANGED <<wpc, stop>> /\ hpc[h] \notin {"notify", "stop"}
        /\ \A g \in Host \ {h} : hpc'[g] = hpc[g]
    BY <1>6 DEF HostArrive, HostLeave, Join, Typed, queue, workers
  <2>2. \A g \in Host : hpc[g] \in {"notify", "stop"} => hpc'[g] = hpc[g]
    BY <2>1
  <2> QED
    BY <1>1, <2>1, <2>2 DEF Notified
<1> QED
  BY <1>3, <1>4, <1>5, <1>6

LEMMA WorkerNotified ==
  ASSUME Typed, Placed, Stopping, Notified, NEW w \in Worker, WorkerStep(w) \/ WorkerSpuriousWakeup(w)
  PROVE  Notified'
<1>1. /\ UNCHANGED <<ops, hpc, mark, stop>>
      /\ \A v \in Worker \ {w} : wpc'[v] = wpc[v]
      /\ wpc'[w] # wpc[w] => wpc'[w] \in WorkerPlaces
  BY DEF WorkerStep, WorkerSpuriousWakeup, Take, Sleep, Exit, Draw, EndCall, Uncount, WorkerArrive,
         WorkerLeave, Goes, StartOf, Typed, queue, hosts, WorkerPlaces
<1>2. CASE Sleep(w)
  <2>1. tasks' = <<>> /\ Len(tasks') = 0 /\ stop' = FALSE
    BY <1>2 DEF Sleep, queue, Typed
  <2> QED
    BY <2>1 DEF Notified
<1>3. CASE ~Sleep(w)
  <2>1. wpc'[w] # "blocked"
    BY <1>3 DEF WorkerStep, WorkerSpuriousWakeup, Take, Exit, Draw, EndCall, Uncount, WorkerArrive,
         WorkerLeave, Goes, StartOf, Typed
  <2>2. Blocked' \subseteq Blocked
    BY <1>1, <2>1 DEF Blocked
  <2>3. \A i \in 1..Len(tasks') : \E j \in 1..Len(tasks) : tasks'[i] = tasks[j]
    <3>1. CASE Take(w)
      <4>1. \A i \in 1..Len(tasks') : i + 1 \in 1..Len(tasks) /\ tasks'[i] = tasks[i + 1]
        BY <3>1, TakeEffect
      <4> QED
        BY <4>1
    <3>2. CASE UNCHANGED tasks
      BY <3>2
    <3> QED
      BY <1>3, <3>1, <3>2 DEF WorkerStep, WorkerSpuriousWakeup, Exit, Draw, EndCall, Uncount,
         WorkerArrive, WorkerLeave, queue
  <2> QED
    BY <1>1, <2>1, <2>2, <2>3 DEF Notified
<1> QED
  BY <1>2, <1>3

LEMMA NextNotified ==
  ASSUME CallInv, Notified, [Next]_vars
  PROVE  Notified'
<1>1. Typed /\ Placed /\ Stopping
  BY DEF CallInv
<1>2. CASE UNCHANGED vars
  <2>1. UNCHANGED <<ops, tasks, stop, wpc, hpc, mark>>
    BY <1>2 DEF vars, queue, workers, hosts
  <2> QED
    BY <2>1 DEF Notified, Blocked
<1>3. ASSUME NEW h \in Host, HostCall(h) \/ Continue(h)
      PROVE  Notified'
  <2>1. CASE \E op \in Operation : Count(h, op)
    <3>1. /\ UNCHANGED <<ops, tasks, stop, wpc, mark>>
          /\ \A g \in Host : hpc[g] \in {"notify", "stop"} => hpc'[g] = hpc[g]
      BY <1>1, <2>1 DEF Count, MayCall, queue, workers, Typed
    <3> QED
      BY <3>1 DEF Notified, Blocked
  <2>2. CASE Push(h)
    <3>1. hop[h] \in Operation /\ ~stop
      BY <1>1, <2>2 DEF Push, Typed, Stopping
    <3> QED
      BY <1>1, <2>2, <3>1, PushNotified DEF Push
  <2>3. CASE \E b \in Barriers : PushBarrier(h, b)
    <3>1. PICK b \in Barriers : PushBarrier(h, b)
      BY <2>3
    <3>2. Op(b, 0) \in Operation
      BY DEF Op, Operation
    <3> QED
      BY <1>1, <3>1, <3>2, PushNotified DEF PushBarrier, MayCall
  <2> QED
    BY <1>1, <1>3, <2>1, <2>2, <2>3, HostNotified DEF HostCall, Continue
<1> QED
  BY <1>1, <1>2, <1>3, WorkerNotified DEF Next, Gone

\* When everybody waits, nobody waits at a fence.
LEMMA NoneHeld ==
  ASSUME OneSynchronizer, CallInv, FenceInv, Notified,
         \A w \in Worker : WorkerWaits(w), \A h \in Host : HostWaits(h)
  PROVE  \A w \in Worker : wpc[w] # "held"
<1> SUFFICES ASSUME NEW w \in Worker, wpc[w] = "held" PROVE FALSE
  OBVIOUS
<1>1. /\ Typed /\ Placed /\ Stopping
      /\ \A v \in Worker : wpc[v] = "held" => cur[v] \in OpId /\ ops[cur[v]].kind \in Barriers
  BY DEF CallInv, Placed
<1>2. PICK k \in OpId : k = cur[w]
  BY <1>1
<1>3. ASSUME NEW v \in Worker, wpc[v] = "held"
      PROVE  v \in At(k) /\ v \in WorkersWaiting(ops[k].kind)
  <2>1. \A u \in Worker : wpc[u] = "held" => ~MayLeave(u, ops[cur[u]].kind)
    BY DEF WorkerWaits
  <2>2. v \in At(cur[v]) /\ w \in At(k) /\ Fence(cur[v]) /\ Fence(k)
    BY <1>1, <1>2, <1>3, <2>1 DEF At, AtFence, Fence
  <2>3. cur[v] = k
    BY <1>1, <1>3, <2>2, OneFence
  <2> QED
    BY <1>3, <2>1, <2>2, <2>3 DEF WorkersWaiting
<1>4. Fence(k) /\ Open(k) /\ At(k) \in SUBSET Worker
  BY <1>1, <1>2, <1>3 DEF Fence, Open, At
<1>5. Cardinality(CopiesOf(k)) + Cardinality(At(k)) = N
  BY <1>4 DEF FenceInv, Fences
<1>6. \A h \in Host : hpc[h] \notin {"notify", "arrive"}
  BY DEF HostWaits
<1>7. At(k) = Worker
  <2>1. CASE CopiesOf(k) = {}
    BY <1>1, <1>4, <1>5, <2>1, CopiesFacts, WorkerCount
  <2>2. CASE CopiesOf(k) # {}
    <3>1. PICK i \in 1..Len(tasks) : tasks[i] = k
      BY <2>2 DEF CopiesOf, Places
    <3>2. ops[tasks[i]].kind # "async"
      BY <1>4, <3>1 DEF Fence, Barriers
    <3>3. Blocked = {}
      BY <1>6, <3>1, <3>2 DEF Notified
    <3>4. tasks # <<>>
      BY <3>1
    <3>5. \A v \in Worker : wpc[v] = "held"
      BY <1>1, <3>3, <3>4 DEF Blocked, Stopping, WorkerWaits
    <3> QED
      BY <1>3, <1>4, <3>5
  <2> QED
    BY <2>1, <2>2
<1>8. WorkersWaiting(ops[k].kind) = Worker
  <2>1. \A v \in Worker : wpc[v] = "held"
    BY <1>7 DEF At, AtFence, WorkerWaits
  <2> QED
    BY <1>3, <2>1 DEF WorkersWaiting
<1>9. PICK b \in Barriers : b = ops[k].kind
  BY <1>4 DEF Fence
<1>10. /\ arrivals[b].counter = Expected(b) - Cardinality(Waiting(b))
       /\ arrivals[b].counter \in 1..Expected(b)
  BY <1>1 DEF FenceInv, Counters, Typed
<1>11. N \in Nat /\ Cardinality(Worker) = N /\ IsFiniteSet(Worker)
  BY WorkersCounted, WorkerAssumption DEF N
<1>12. Cardinality(Waiting(b)) = Expected(b)
  <2>1. CASE b = "barrier"
    <3>1. HostsWaiting(b) = {}
      BY <2>1 DEF HostsWaiting
    <3> QED
      BY <1>8, <1>9, <1>11, <2>1, <3>1, WaitingCount DEF Expected
  <2>2. CASE b = "synchronize"
    <3>1. PICK h \in SyncHost : Synchronizing(h) /\ mark[h] = k
      BY <1>4, <1>9, <2>2 DEF FenceInv, Synchronized
    <3>2. h \in HostsWaiting(b) /\ h \notin Worker
      BY <1>6, <2>2, <3>1, HostAssumption DEF Synchronizing, HostsWaiting
    <3>3. Waiting(b) = Worker \cup {h}
      <4>1. HostsWaiting(b) \subseteq SyncHost
        BY DEF HostsWaiting
      <4>2. HostsWaiting(b) = {h}
        BY <3>1, <3>2, <4>1 DEF OneSynchronizer
      <4> QED
        BY <1>8, <1>9, <4>2 DEF Waiting
    <3>4. Cardinality(Waiting(b)) = N + 1
      BY <1>11, <3>2, <3>3, FS_AddElement
    <3> QED
      BY <2>2, <3>4 DEF Expected
  <2> QED
    BY <1>9, <2>1, <2>2 DEF Barriers
<1>13. Expected(b) \in Nat
  BY <1>11 DEF Expected
<1> QED
  BY <1>10, <1>12, <1>13

\* No notification comes too early or is left out, no barrier keeps a thread that
\* all others have come to, and the destructor's flag reaches every worker: the
\* pool goes on until everything has ended and every call has returned.
THEOREM PoolGoesOn ==
  ASSUME OneSynchronizer
  PROVE  Spec => []PoolNeverStuck
<1>1. ASSUME CallInv, FenceInv, Notified PROVE PoolNeverStuck
  <2> SUFFICES ASSUME \A w \in Worker : WorkerWaits(w), \A h \in Host : HostWaits(h)
               PROVE  /\ tasks = <<>> /\ \A k \in OpId : Done(k)
                      /\ \A w \in Worker : wpc[w] \in {"blocked", "exited"}
                      /\ \A h \in Host : hpc[h] \in {"idle", "destroyed"}
    BY DEF PoolNeverStuck
  <2>1. Typed /\ Placed /\ Stopping
    BY <1>1 DEF CallInv
  <2>2. \A w \in Worker : wpc[w] \in {"blocked", "exited"}
    BY <1>1, NoneHeld DEF WorkerWaits
  <2>3. tasks = <<>>
    <3>1. \A h \in Host : hpc[h] # "notify"
      BY DEF HostWaits
    <3> QED
      BY <1>1, <2>1, <2>2, <3>1 DEF Notified, Stopping
  <2>4. \A k : CopiesOf(k) = {} /\ DrawersOf(k) = {} /\ At(k) = {}
    BY <2>2, <2>3 DEF CopiesOf, Places, DrawersOf, At, AtFence
  <2>5. \A k \in OpId : Done(k)
    BY <1>1, <2>4, LeftOver
  <2>6. ASSUME NEW h \in Host PROVE hpc[h] \in {"idle", "destroyed"}
    <3>1. CASE hpc[h] = "held" /\ ~MayLeave(h, "synchronize")
      <4>1. h \in SyncHost /\ Synchronizing(h)
        BY <2>1, <3>1 DEF Placed, Synchronizing
      <4>2. Open(mark[h])
        BY <1>1, <4>1 DEF FenceInv, Synchronized
      <4> QED
        BY <2>4, <4>2 DEF Open
    <3>2. CASE hpc[h] = "join" /\ \E w \in Worker : wpc[w] # "exited"
      <4>1. stop /\ Blocked # {}
        BY <2>1, <2>2, <3>2 DEF Stopping, Blocked
      <4>2. PICK g \in Host : hpc[g] = "stop"
        BY <1>1, <4>1 DEF Notified
      <4> QED
        BY <4>2 DEF HostWaits
    <3> QED
      BY <3>1, <3>2 DEF HostWaits
  <2> QED
    BY <2>2, <2>3, <2>5, <2>6
<1>2. Init => Notified
  BY InitNotified
<1>3. CallInv /\ Notified /\ [Next]_vars => Notified'
  BY NextNotified
<1>4. CallInv /\ FenceInv /\ Notified => PoolNeverStuck
  BY <1>1
<1> QED
  BY <1>2, <1>3, <1>4, FencesHold, PTL DEF Spec

-----------------------------------------------------------------------------
(***************************************************************************)
(* PoolBarrier                                                             *)
(***************************************************************************)
\* The threads that have not come to the round at hand.
Missing == {t \in Thread : started[t] = phase}

\* Where a thread may stand: out, on its way out of the last round, or held in
\* the round at hand.
Outside(t) == pc[t] = "out" /\ started[t] = phase /\ returned[t] = phase

Leaving(t) ==
  /\ pc[t] = "woken"
  /\ started[t] = phase /\ returned[t] = phase - 1 /\ arrivePhase[t] = phase - 1

Held(t) ==
  /\ pc[t] \in {"blocked", "woken"}
  /\ started[t] = phase + 1 /\ returned[t] = phase /\ arrivePhase[t] = phase

\* The inductive invariant.
IInv ==
  /\ BarrierTypeOK
  /\ \A t \in Thread : Outside(t) \/ Leaving(t) \/ Held(t)
  /\ counter = Cardinality(Missing)

-----------------------------------------------------------------------------
LEMMA PartiesPositive == Parties \in Nat \ {0}
<1>1. Parties \in Nat /\ (Parties = 0 <=> Thread = {})
  BY ThreadAssumption, FS_CardinalityType, FS_EmptySet DEF Parties
<1> QED
  BY <1>1, ThreadAssumption

\* The phase counts rounds without a wrap.
LEMMA NoWrap ==
  ASSUME NEW m \in Nat, NEW n \in Nat, m < n
  PROVE  m % n = m
OBVIOUS

\* One missing thread less is a counter that is one less; a thread that is the
\* only one missing finds everybody else in the round.
LEMMA MissingCount ==
  ASSUME NEW S \in SUBSET Thread, NEW t \in S
  PROVE  /\ Cardinality(S) \in Nat /\ Cardinality(S) <= Parties
         /\ Cardinality(S \ {t}) = Cardinality(S) - 1
         /\ Cardinality(S) = 1 => S = {t}
<1>1. /\ IsFiniteSet(S) /\ Cardinality(S) \in Nat /\ Cardinality(S) <= Parties
  BY ThreadAssumption, FS_Subset, FS_CardinalityType DEF Parties
<1>2. Cardinality(S) = 1 => S = {t}
  BY <1>1, FS_Singleton
<1>3. Cardinality(S \ {t}) = Cardinality(S) - 1
  BY <1>1, FS_RemoveElement
<1> QED
  BY <1>1, <1>2, <1>3

LEMMA InitIInv == BarrierInit => IInv
<1> SUFFICES ASSUME BarrierInit PROVE IInv
  OBVIOUS
<1>1. BarrierTypeOK
  BY PartiesPositive, PhaseAssumption DEF BarrierInit, BarrierTypeOK
<1>2. Missing = Thread
  BY DEF BarrierInit, Missing
<1>3. counter = Cardinality(Missing)
  BY <1>2 DEF BarrierInit, Parties
<1>4. \A t \in Thread : Outside(t)
  BY DEF BarrierInit, Outside
<1> QED
  BY <1>1, <1>3, <1>4 DEF IInv

\* A thread that comes is one of the missing ones.
LEMMA CallerMissing ==
  ASSUME IInv, NEW t \in Thread, Call(t)
  PROVE  /\ Outside(t) /\ t \in Missing
         /\ phase \in Nat /\ phase < MaxRounds
<1>1. Outside(t)
  BY DEF IInv, Call, Outside, Leaving, Held
<1> QED
  BY <1>1 DEF IInv, BarrierTypeOK, Call, Outside, Missing

LEMMA ArriveEarlyIInv ==
  ASSUME IInv, NEW t \in Thread, ArriveEarly(t)
  PROVE  IInv'
<1>1. Call(t) /\ counter # 1 /\ counter' = counter - 1 /\ phase' = phase
      /\ returned' = returned /\ pc' = [pc EXCEPT ![t] = "blocked"]
      /\ started' = [started EXCEPT ![t] = @ + 1]
      /\ arrivePhase' = [arrivePhase EXCEPT ![t] = phase]
  BY DEF ArriveEarly, Call
<1>2. Outside(t) /\ t \in Missing /\ phase \in Nat /\ phase < MaxRounds
  BY <1>1, CallerMissing
<1>3. BarrierTypeOK'
  <2>1. counter' \in 1..Parties
    BY <1>1, PartiesPositive DEF IInv, BarrierTypeOK
  <2>2. started' \in [Thread -> 0..MaxRounds]
    BY <1>1, <1>2, PhaseAssumption DEF IInv, BarrierTypeOK, Outside
  <2>3. /\ phase' \in 0..(PhaseSize - 1) /\ returned' \in [Thread -> 0..MaxRounds]
        /\ arrivePhase' \in [Thread -> 0..(PhaseSize - 1)]
        /\ pc' \in [Thread -> {"out", "blocked", "woken"}]
    BY <1>1 DEF IInv, BarrierTypeOK
  <2> QED
    BY <2>1, <2>2, <2>3 DEF BarrierTypeOK, Parties
<1>4. counter' = Cardinality(Missing')
  <2>1. Missing' = Missing \ {t}
    BY <1>1, <1>2 DEF IInv, BarrierTypeOK, Missing
  <2>2. Missing \in SUBSET Thread
    BY DEF Missing
  <2> QED
    BY <1>1, <1>2, <2>1, <2>2, MissingCount DEF IInv
<1>5. ASSUME NEW u \in Thread PROVE (Outside(u) \/ Leaving(u) \/ Held(u))'
  <2>1. CASE u = t
    BY <1>1, <1>2, <2>1 DEF IInv, BarrierTypeOK, Outside, Held
  <2>2. CASE u # t
    BY <1>1, <2>2 DEF IInv, BarrierTypeOK, Outside, Leaving, Held
  <2> QED
    BY <2>1, <2>2
<1> QED
  BY <1>3, <1>4, <1>5 DEF IInv

\* What the last thread of a round does: the round is over, and it leaves.
LEMMA LastEffect ==
  ASSUME MaxRounds < PhaseSize, IInv, NEW t \in Thread, ArriveLast(t)
  PROVE  /\ Outside(t) /\ Missing = {t}
         /\ phase \in Nat /\ phase < MaxRounds /\ phase' = phase + 1
         /\ counter' = Parties
         /\ started' = [started EXCEPT ![t] = @ + 1]
         /\ returned' = [returned EXCEPT ![t] = @ + 1]
         /\ arrivePhase' = [arrivePhase EXCEPT ![t] = phase]
         /\ pc' = [u \in Thread |-> IF u = t THEN "out"
                                   ELSE IF pc[u] = "blocked" THEN "woken" ELSE pc[u]]
<1>1. /\ Call(t) /\ counter = 1 /\ counter' = Parties
      /\ phase' = (phase + 1) % PhaseSize
      /\ started' = [started EXCEPT ![t] = @ + 1]
      /\ arrivePhase' = [arrivePhase EXCEPT ![t] = phase]
  BY DEF ArriveLast, Call
<1>2. Outside(t) /\ t \in Missing /\ phase \in Nat /\ phase < MaxRounds
  BY <1>1, CallerMissing
<1>3. phase' = phase + 1
  BY <1>1, <1>2, NoWrap, PhaseAssumption
<1>4. Missing = {t}
  <2>1. Missing \in SUBSET Thread
    BY DEF Missing
  <2> QED
    BY <1>1, <1>2, <2>1, MissingCount DEF IInv
<1>5. ~MustWait(phase', phase)
  BY <1>2, <1>3 DEF MustWait
<1>6. /\ returned' = [returned EXCEPT ![t] = @ + 1]
      /\ pc' = [u \in Thread |-> IF u = t THEN "out"
                                ELSE IF pc[u] = "blocked" THEN "woken" ELSE pc[u]]
  BY <1>5 DEF ArriveLast
<1> QED
  BY <1>1, <1>2, <1>3, <1>4, <1>6

\* When only t is missing, everybody else is held in the round.
LEMMA OthersHeld ==
  ASSUME IInv, NEW t \in Thread, Missing = {t}, NEW u \in Thread, u # t
  PROVE  Held(u)
<1>1. started[u] # phase
  BY DEF Missing
<1> QED
  BY <1>1 DEF IInv, Outside, Leaving

LEMMA ArriveLastIInv ==
  ASSUME MaxRounds < PhaseSize, IInv, NEW t \in Thread, ArriveLast(t)
  PROVE  IInv'
<1>1. \A u \in Thread \ {t} : Held(u)
  BY LastEffect, OthersHeld
<1>2. BarrierTypeOK'
  <2>1. counter' \in 1..Parties
    BY LastEffect, PartiesPositive
  <2>2. phase' \in 0..(PhaseSize - 1)
    BY LastEffect, PhaseAssumption
  <2>3. pc' \in [Thread -> {"out", "blocked", "woken"}]
    BY LastEffect DEF IInv, BarrierTypeOK
  <2>4. started' \in [Thread -> 0..MaxRounds] /\ returned' \in [Thread -> 0..MaxRounds]
    BY LastEffect, PhaseAssumption DEF IInv, BarrierTypeOK, Outside
  <2>5. arrivePhase' \in [Thread -> 0..(PhaseSize - 1)]
    BY LastEffect DEF IInv, BarrierTypeOK
  <2> QED
    BY <2>1, <2>2, <2>3, <2>4, <2>5 DEF BarrierTypeOK, Parties
<1>3. Missing' = Thread
  BY <1>1, LastEffect DEF IInv, BarrierTypeOK, Missing, Outside, Held
<1>4. counter' = Cardinality(Missing')
  BY <1>3, LastEffect DEF Parties
<1>5. ASSUME NEW u \in Thread PROVE (Outside(u) \/ Leaving(u) \/ Held(u))'
  <2>1. CASE u = t
    BY <2>1, LastEffect DEF IInv, BarrierTypeOK, Outside
  <2>2. CASE u # t
    BY <1>1, <2>2, LastEffect DEF IInv, BarrierTypeOK, Held, Leaving
  <2> QED
    BY <2>1, <2>2
<1> QED
  BY <1>2, <1>4, <1>5 DEF IInv

\* A thread that returns was leaving the last round.
LEMMA ReturnerLeaving ==
  ASSUME IInv, NEW t \in Thread, Return(t)
  PROVE  Leaving(t) /\ phase \in Nat /\ phase - 1 \in Nat /\ phase - 1 < MaxRounds
<1>1. pc[t] = "woken" /\ ~(phase <= arrivePhase[t])
  BY DEF Return, MustWait
<1>2. phase \in Nat
  BY PhaseAssumption DEF IInv, BarrierTypeOK
<1>3. Leaving(t)
  BY <1>1, <1>2 DEF IInv, Outside, Held
<1>4. phase \in 0..MaxRounds /\ phase - 1 \in 0..MaxRounds
  BY <1>3 DEF IInv, BarrierTypeOK, Leaving
<1> QED
  BY <1>2, <1>3, <1>4, PhaseAssumption

LEMMA NextIInv ==
  ASSUME MaxRounds < PhaseSize, IInv, [BarrierNext]_barrierVars
  PROVE  IInv'
<1>1. ASSUME NEW t \in Thread, BlockAgain(t) PROVE IInv'
  <2>1. Held(t)
    BY <1>1, PhaseAssumption DEF BlockAgain, MustWait, IInv, BarrierTypeOK, Outside, Leaving
  <2>2. BarrierTypeOK' /\ Missing' = Missing
    BY <1>1 DEF BlockAgain, IInv, BarrierTypeOK, Missing, Parties
  <2>3. ASSUME NEW u \in Thread PROVE (Outside(u) \/ Leaving(u) \/ Held(u))'
    BY <1>1, <2>1 DEF BlockAgain, IInv, BarrierTypeOK, Outside, Leaving, Held
  <2> QED
    BY <1>1, <2>2, <2>3 DEF BlockAgain, IInv
<1>2. ASSUME NEW t \in Thread, Return(t) PROVE IInv'
  <2>1. Leaving(t) /\ phase \in Nat /\ phase - 1 \in Nat /\ phase - 1 < MaxRounds
    BY <1>2, ReturnerLeaving
  <2>2. BarrierTypeOK' /\ Missing' = Missing
    BY <1>2, <2>1, PhaseAssumption DEF Return, Leaving, IInv, BarrierTypeOK, Missing, Parties
  <2>3. ASSUME NEW u \in Thread PROVE (Outside(u) \/ Leaving(u) \/ Held(u))'
    BY <1>2, <2>1 DEF Return, IInv, BarrierTypeOK, Outside, Leaving, Held
  <2> QED
    BY <1>2, <2>2, <2>3 DEF Return, IInv
<1>3. ASSUME NEW t \in Thread, SpuriousWakeup(t) PROVE IInv'
  <2>1. Held(t)
    BY <1>3 DEF SpuriousWakeup, IInv, Outside, Leaving
  <2>2. BarrierTypeOK' /\ Missing' = Missing
    BY <1>3 DEF SpuriousWakeup, IInv, BarrierTypeOK, Missing, Parties
  <2>3. ASSUME NEW u \in Thread PROVE (Outside(u) \/ Leaving(u) \/ Held(u))'
    BY <1>3, <2>1 DEF SpuriousWakeup, IInv, BarrierTypeOK, Outside, Leaving, Held
  <2> QED
    BY <1>3, <2>2, <2>3 DEF SpuriousWakeup, IInv
<1>4. CASE UNCHANGED barrierVars
  BY <1>4 DEF barrierVars, IInv, BarrierTypeOK, Missing, Outside, Leaving, Held, Parties
<1> QED
  BY <1>1, <1>2, <1>3, <1>4, ArriveEarlyIInv, ArriveLastIInv DEF BarrierNext, Finished

\* As long as the phase does not wrap around, the counter of the barrier is the
\* number of threads that have yet to come to the round at hand, and everybody
\* is in that round, out, or woken from the round before.
THEOREM RoundsAgree ==
  ASSUME MaxRounds < PhaseSize
  PROVE  BarrierSpec => []IInv
<1>1. IInv /\ [BarrierNext]_barrierVars => IInv'
  BY NextIInv
<1> QED
  BY <1>1, InitIInv, PTL DEF BarrierSpec

\* The variables keep their types; the counter is never zero between two calls
\* of arrive_and_wait.
THEOREM TypeCorrect ==
  ASSUME MaxRounds < PhaseSize
  PROVE  BarrierSpec => []BarrierTypeOK
<1>1. IInv => BarrierTypeOK
  BY DEF IInv
<1> QED
  BY <1>1, RoundsAgree, PTL

\* No thread is left behind: with none on its way out of arrive_and_wait, a round
\* that all have come to is one that all have returned from.
NobodyLeftBehind ==
  (\A t \in Thread : pc[t] # "woken") =>
     \A k \in 1..MaxRounds :
       (\A t \in Thread : started[t] >= k) => \A t \in Thread : returned[t] >= k

\* Whoever comes last wakes all the others (the safety part of EveryoneLeaves).
THEOREM BarrierLetsGo ==
  ASSUME MaxRounds < PhaseSize
  PROVE  BarrierSpec => []NobodyLeftBehind
<1>1. ASSUME IInv PROVE NobodyLeftBehind
  <2> SUFFICES ASSUME \A t \in Thread : pc[t] # "woken",
                      NEW k \in 1..MaxRounds, \A t \in Thread : started[t] >= k,
                      NEW u \in Thread
               PROVE  returned[u] >= k
    BY DEF NobodyLeftBehind
  <2>1. BarrierTypeOK /\ phase \in Nat /\ MaxRounds \in Nat /\ k \in Nat
    BY <1>1, PhaseAssumption DEF IInv, BarrierTypeOK
  <2>2. Missing # {}
    <3>1. Cardinality(Missing) \in 1..Parties
      BY <1>1, <2>1 DEF IInv, BarrierTypeOK
    <3> QED
      BY <3>1, FS_EmptySet
  <2>3. k <= phase
    BY <2>1, <2>2 DEF Missing
  <2>4. returned[u] = phase
    BY <1>1 DEF IInv, Outside, Leaving, Held
  <2> QED
    BY <2>3, <2>4
<1>2. IInv => NobodyLeftBehind
  BY <1>1
<1> QED
  BY <1>2, RoundsAgree, PTL

\* The barrier of the thread pool implements Lockstep for any number of threads:
\* nobody returns from a round that not everybody has come to.
THEOREM BarrierImplementsLockstep ==
  ASSUME MaxRounds < PhaseSize
  PROVE  BarrierSpec => ImplementsLockstep
<1>1. BarrierInit => Round!Init
  BY DEF BarrierInit, Round!Init
<1>2. ASSUME IInv, [BarrierNext]_barrierVars PROVE [Round!Next]_(Round!vars)
  <2>1. ASSUME NEW t \in Thread, ArriveEarly(t) PROVE Round!Come(t)
    <3>1. Outside(t)
      BY <1>2, <2>1, CallerMissing DEF ArriveEarly
    <3> QED
      BY <2>1, <3>1 DEF ArriveEarly, Call, Outside, Round!Come
  <2>2. ASSUME NEW t \in Thread, ArriveLast(t) PROVE Round!Pass(t)
    <3>1. Outside(t) /\ phase \in Nat
          /\ started' = [started EXCEPT ![t] = @ + 1]
          /\ returned' = [returned EXCEPT ![t] = @ + 1]
      BY <1>2, <2>2, LastEffect
    <3>2. \A u \in Thread \ {t} : Held(u)
      BY <1>2, <2>2, LastEffect, OthersHeld
    <3> QED
      BY <3>1, <3>2 DEF Outside, Held, Round!Pass
  <2>3. ASSUME NEW t \in Thread, Return(t) PROVE Round!Leave(t)
    <3>1. Leaving(t) /\ phase \in Nat
      BY <1>2, <2>3, ReturnerLeaving
    <3>2. \A u \in Thread : phase <= started[u]
      BY <1>2, <3>1 DEF IInv, Outside, Leaving, Held
    <3>3. /\ returned' = [returned EXCEPT ![t] = @ + 1] /\ started' = started
          /\ returned[t] = phase - 1
      BY <2>3, <3>1 DEF Return, Leaving
    <3>4. \A u \in Thread : returned[t] < started[u]
      BY <1>2, <3>1, <3>2, <3>3 DEF IInv, BarrierTypeOK
    <3> QED
      BY <3>3, <3>4 DEF Round!Leave
  <2>4. ASSUME NEW t \in Thread, BlockAgain(t) \/ SpuriousWakeup(t)
        PROVE  UNCHANGED Round!vars
    BY <2>4 DEF BlockAgain, SpuriousWakeup, Round!vars
  <2>5. CASE UNCHANGED barrierVars
    BY <2>5 DEF barrierVars, Round!vars
  <2> QED
    BY <1>2, <2>1, <2>2, <2>3, <2>4, <2>5 DEF BarrierNext, Finished, Round!Next
<1> QED
  BY <1>1, <1>2, RoundsAgree, PTL DEF BarrierSpec, ImplementsLockstep, Round!Spec

-----------------------------------------------------------------------------
(***************************************************************************)
(* MCThreads: both parts in one run                                        *)
(***************************************************************************)
\* A step of the run is a step of one part, and leaves the other alone.
LEMMA PartSteps == [ThreadsNext]_threadsVars => [Next]_vars /\ [BarrierNext]_barrierVars
<1> SUFFICES ASSUME [ThreadsNext]_threadsVars PROVE [Next]_vars /\ [BarrierNext]_barrierVars
  OBVIOUS
<1>1. CASE UNCHANGED threadsVars
  BY <1>1 DEF threadsVars
<1>2. CASE InPool /\ \/ \E h \in Host : HostCall(h) \/ Continue(h)
                     \/ \E w \in Worker : WorkerStep(w) \/ WorkerSpuriousWakeup(w)
                     \/ Gone
  BY <1>2 DEF InPool, Next
<1>3. CASE InBarrier /\ BarrierNext
  BY <1>3 DEF InBarrier
<1> QED
  BY <1>1, <1>2, <1>3 DEF ThreadsNext, BarrierNext, Continue, WorkerStep

\* The run that checks pool and barrier together is a behaviour of both, and every
\* variable keeps its type: the count of tasks, the calls of each operation, and
\* the counter and the rounds of the barrier.
THEOREM BothTypeCorrect ==
  ASSUME MaxRounds < PhaseSize
  PROVE  ThreadsSpec => []ThreadsTypeOK
<1>1. ThreadsInit => CallInv /\ IInv
  BY InitCallInv, InitIInv DEF ThreadsInit
<1>2. CallInv /\ IInv /\ [ThreadsNext]_threadsVars => CallInv' /\ IInv'
  BY PartSteps, NextCallInv, NextIInv
<1>3. CallInv /\ IInv => ThreadsTypeOK
  BY CallInvTypes DEF IInv, ThreadsTypeOK
<1> QED
  BY <1>1, <1>2, <1>3, PTL DEF ThreadsSpec

=============================================================================
