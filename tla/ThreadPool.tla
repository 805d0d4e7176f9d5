----------------------------- MODULE ThreadPool -----------------------------
(***************************************************************************)
(* ThreadPool (core/thread_pool.{h,cpp}): host threads push tasks into a   *)
(* queue, worker threads take them out.  async pushes one task, parallel   *)
(* one copy for each worker that can help, barrier and synchronize one     *)
(* copy for every worker.                                                  *)
(*                                                                         *)
(* A critical section of _mutex is one step.  What happens between two of  *)
(* them (the notification after the push, the atomic counters, the calls   *)
(* of the user's function) are steps of their own.  The two barriers are   *)
(* those of PoolBarrier: arriving is one step, and a thread that waits may *)
(* go on once the phase is past the one in which it arrived.               *)
(***************************************************************************)
EXTENDS Integers, Sequences, FiniteSets

CONSTANTS
  Worker,      \* _threads
  Host,        \* the threads that use the pool
  SyncHost,    \* those that call synchronize()
  Sizes,       \* the n of parallel(n, f)
  CountSize,   \* 2^w for the width w of the atomic counters
  MaxOps       \* bound: calls of the pool's operations

ASSUME WorkerAssumption == IsFiniteSet(Worker) /\ Worker # {}
ASSUME HostAssumption == Host \cap Worker = {} /\ SyncHost \subseteq Host
\* The counters hold the number of calls, and what the copies of a call draw.
ASSUME SizeAssumption ==
  /\ Sizes \subseteq Nat \ {0} /\ CountSize \in Nat \ {0}
  /\ MaxOps \in Nat /\ MaxOps < CountSize
  /\ \A n \in Sizes : n + Cardinality(Worker) < CountSize

VARIABLES
  ops,         \* history: the operations in the order of their push
  tasks,       \* _tasks: each the number of the operation it is a copy of
  stop,        \* _should_stop
  taskCount,   \* _task_count
  drawn,       \* drawn[k]: the counter shared by the copies of parallel k
  arrivals,    \* per barrier [counter, phase]
  phaseOf, \* arrive_phase of each thread
  wpc, cur, idx,        \* per worker: control, operation, index
  hpc, hop, mark,       \* per host: control, operation to push, number pushed
  begun, ended          \* history: the calls f(i) of each operation

queue   == <<ops, tasks, stop>>
work    == <<drawn, begun, ended>>
syncs   == <<arrivals, phaseOf>>
workers == <<wpc, cur, idx>>
hosts   == <<hpc, hop, mark>>
vars    == <<queue, taskCount, work, syncs, workers, hosts>>

N == Cardinality(Worker)
Smaller(m, n) == IF m < n THEN m ELSE n

Barriers == {"barrier", "synchronize"}
Op(kind, n) == [kind |-> kind, n |-> n]
Operation == [kind : {"async"}, n : {1}] \cup [kind : {"parallel"}, n : Sizes]
               \cup [kind : Barriers, n : {0}]
NoOp == Op("barrier", 0)

Counted(op) == op.kind \in {"async", "parallel"}

\* Mutant: async uses _dispatch_all as well.
CopiesAsyncToAll(op) ==
  CASE op.kind = "async"    -> N
    [] op.kind = "parallel" -> Smaller(N, op.n)
    [] OTHER                -> N

\* _dispatch: one task; _dispatch_all: one per worker, at most n of them.
Copies(op) ==
  CASE op.kind = "async"    -> 1
    [] op.kind = "parallel" -> Smaller(N, op.n)
    [] OTHER                -> N

\* Mutant: _synchronize_barrier is made for the workers alone.
ExpectedWorkers(b) == N

\* The constructor: the barriers of the workers and of the workers with the
\* thread that synchronizes.
Expected(b) == IF b = "barrier" THEN N ELSE N + 1

Init ==
  /\ ops = <<>> /\ tasks = <<>> /\ stop = FALSE
  /\ taskCount = 0
  /\ drawn = <<>> /\ begun = <<>> /\ ended = <<>>
  /\ arrivals = [b \in Barriers |-> [counter |-> Expected(b), phase |-> 0]]
  /\ phaseOf = [p \in Worker \cup Host |-> 0]
  /\ wpc = [w \in Worker |-> "loop"]
  /\ cur = [w \in Worker |-> 0] /\ idx = [w \in Worker |-> 0]
  /\ hpc = [h \in Host |-> "idle"]
  /\ hop = [h \in Host |-> NoOp] /\ mark = [h \in Host |-> 0]

-----------------------------------------------------------------------------
(***************************************************************************)
(* The barriers                                                            *)
(***************************************************************************)
Arrive(p, b) ==
  /\ phaseOf' = [phaseOf EXCEPT ![p] = arrivals[b].phase]
  /\ arrivals' = [arrivals EXCEPT ![b] =
       IF @.counter = 1 THEN [counter |-> Expected(b), phase |-> @.phase + 1]
                        ELSE [counter |-> @.counter - 1, phase |-> @.phase]]

\* Mutant: while (_phase < arrive_phase).
MayLeaveSamePhase(p, b) == arrivals[b].phase >= phaseOf[p]

MayLeave(p, b) == arrivals[b].phase > phaseOf[p]

-----------------------------------------------------------------------------
(***************************************************************************)
(* The host threads                                                        *)
(***************************************************************************)
Pending == Cardinality({h \in Host : hpc[h] = "push"})

MayCall(h) == hpc[h] = "idle" /\ ~stop /\ Len(ops) + Pending < MaxOps

\* async, parallel: _task_count is raised before the tasks are pushed.
Count(h, op) ==
  /\ MayCall(h) /\ Counted(op)
  /\ taskCount' = (taskCount + 1) % CountSize
  /\ hop' = [hop EXCEPT ![h] = op]
  /\ hpc' = [hpc EXCEPT ![h] = "push"]
  /\ UNCHANGED <<queue, work, syncs, workers, mark>>

PushOp(h, op) ==
  /\ ops' = Append(ops, op)
  /\ tasks' = tasks \o [c \in 1..Copies(op) |-> Len(ops) + 1]
  /\ drawn' = Append(drawn, 0)
  /\ begun' = Append(begun, {}) /\ ended' = Append(ended, {})
  /\ mark' = [mark EXCEPT ![h] = Len(ops) + 1]
  /\ hpc' = [hpc EXCEPT ![h] = "notify"]
  /\ UNCHANGED <<stop, taskCount, syncs, workers, hop>>

Push(h) == hpc[h] = "push" /\ PushOp(h, hop[h])

\* barrier, synchronize: nothing is counted.
PushBarrier(h, b) ==
  /\ MayCall(h)
  /\ b = "synchronize" => h \in SyncHost
  /\ PushOp(h, Op(b, 0))

Woken(S) == [w \in Worker |-> IF w \in S THEN "loop" ELSE wpc[w]]
Blocked == {w \in Worker : wpc[w] = "blocked"}

\* Only a host in synchronize() has something left to do.
AfterNotify(h) == IF ops[mark[h]].kind = "synchronize" THEN "arrive" ELSE "idle"

\* Mutant: async does not notify.
NotifyOneDropped(h) ==
  /\ hpc[h] = "notify" /\ ops[mark[h]].kind = "async"
  /\ hpc' = [hpc EXCEPT ![h] = AfterNotify(h)]
  /\ UNCHANGED <<queue, taskCount, work, syncs, workers, hop, mark>>

NotifyOne(h) ==
  /\ hpc[h] = "notify" /\ ops[mark[h]].kind = "async"
  /\ IF Blocked = {} THEN UNCHANGED wpc ELSE \E w \in Blocked : wpc' = Woken({w})
  /\ hpc' = [hpc EXCEPT ![h] = AfterNotify(h)]
  /\ UNCHANGED <<queue, taskCount, work, syncs, cur, idx, hop, mark>>

NotifyAll(h) ==
  /\ hpc[h] = "notify" /\ ops[mark[h]].kind # "async"
  /\ wpc' = Woken(Blocked)
  /\ hpc' = [hpc EXCEPT ![h] = AfterNotify(h)]
  /\ UNCHANGED <<queue, taskCount, work, syncs, cur, idx, hop, mark>>

HostArrive(h) ==
  /\ hpc[h] = "arrive"
  /\ Arrive(h, "synchronize")
  /\ hpc' = [hpc EXCEPT ![h] = "held"]
  /\ UNCHANGED <<queue, taskCount, work, workers, hop, mark>>

HostLeave(h) ==
  /\ hpc[h] = "held" /\ MayLeave(h, "synchronize")
  /\ hpc' = [hpc EXCEPT ![h] = "idle"]
  /\ UNCHANGED <<queue, taskCount, work, syncs, workers, hop, mark>>

\* ~ThreadPool, called when nobody is in a call: set the flag, notify, join.
Destroy(h) ==
  /\ \A g \in Host : hpc[g] = "idle"
  /\ ~stop
  /\ stop' = TRUE
  /\ hpc' = [hpc EXCEPT ![h] = "stop"]
  /\ UNCHANGED <<ops, tasks, taskCount, work, syncs, workers, hop, mark>>

NotifyStop(h) ==
  /\ hpc[h] = "stop"
  /\ wpc' = Woken(Blocked)
  /\ hpc' = [hpc EXCEPT ![h] = "join"]
  /\ UNCHANGED <<queue, taskCount, work, syncs, cur, idx, hop, mark>>

Join(h) ==
  /\ hpc[h] = "join" /\ \A w \in Worker : wpc[w] = "exited"
  /\ hpc' = [hpc EXCEPT ![h] = "destroyed"]
  /\ UNCHANGED <<queue, taskCount, work, syncs, workers, hop, mark>>

-----------------------------------------------------------------------------
(***************************************************************************)
(* The worker threads                                                      *)
(***************************************************************************)
Goes(w, to) == wpc' = [wpc EXCEPT ![w] = to]

StartOf(op) ==
  CASE op.kind = "async" -> "calling" [] op.kind = "parallel" -> "draw" [] OTHER -> "arrive"

Take(w) ==
  /\ wpc[w] = "loop" /\ tasks # <<>>
  /\ LET k == Head(tasks)
     IN /\ tasks' = Tail(tasks)
        /\ cur' = [cur EXCEPT ![w] = k]
        /\ idx' = [idx EXCEPT ![w] = 0]
        /\ Goes(w, StartOf(ops[k]))
        /\ begun' = IF ops[k].kind = "async" THEN [begun EXCEPT ![k] = @ \cup {0}] ELSE begun
  /\ UNCHANGED <<ops, stop, taskCount, drawn, ended, syncs, hosts>>

Sleep(w) ==
  /\ wpc[w] = "loop" /\ tasks = <<>> /\ ~stop
  /\ Goes(w, "blocked")
  /\ UNCHANGED <<queue, taskCount, work, syncs, cur, idx, hosts>>

Exit(w) ==
  /\ wpc[w] = "loop" /\ stop /\ tasks = <<>>
  /\ Goes(w, "exited")
  /\ UNCHANGED <<queue, taskCount, work, syncs, cur, idx, hosts>>

WorkerSpuriousWakeup(w) ==
  /\ wpc[w] = "blocked"
  /\ Goes(w, "loop")
  /\ UNCHANGED <<queue, taskCount, work, syncs, cur, idx, hosts>>

\* Mutant: while ((i = counter->fetch_add(1)) <= n).
DrawOneMore(w) ==
  /\ wpc[w] = "draw"
  /\ LET k == cur[w]
         i == drawn[k]
     IN /\ drawn' = [drawn EXCEPT ![k] = (i + 1) % CountSize]
        /\ idx' = [idx EXCEPT ![w] = i]
        /\ begun' = IF i <= ops[k].n THEN [begun EXCEPT ![k] = @ \cup {i}] ELSE begun
        /\ Goes(w, IF i <= ops[k].n THEN "calling" ELSE "loop")
  /\ UNCHANGED <<queue, taskCount, ended, syncs, cur, hosts>>

\* Mutant: every copy that finds the counter exhausted lowers _task_count.
DrawAllUncount(w) ==
  /\ wpc[w] = "draw"
  /\ LET k == cur[w]
         i == drawn[k]
     IN /\ drawn' = [drawn EXCEPT ![k] = (i + 1) % CountSize]
        /\ idx' = [idx EXCEPT ![w] = i]
        /\ begun' = IF i < ops[k].n THEN [begun EXCEPT ![k] = @ \cup {i}] ELSE begun
        /\ Goes(w, IF i < ops[k].n THEN "calling" ELSE "uncount")
  /\ UNCHANGED <<queue, taskCount, ended, syncs, cur, hosts>>

\* counter->fetch_add(1): the copy that draws n itself lowers _task_count.
Draw(w) ==
  /\ wpc[w] = "draw"
  /\ LET k == cur[w]
         i == drawn[k]
     IN /\ drawn' = [drawn EXCEPT ![k] = (i + 1) % CountSize]
        /\ idx' = [idx EXCEPT ![w] = i]
        /\ begun' = IF i < ops[k].n THEN [begun EXCEPT ![k] = @ \cup {i}] ELSE begun
        /\ Goes(w, IF i < ops[k].n THEN "calling" ELSE IF i = ops[k].n THEN "uncount"
                   ELSE "loop")
  /\ UNCHANGED <<queue, taskCount, ended, syncs, cur, hosts>>

\* f(i) returns; the promise of an async is fulfilled.
EndCall(w) ==
  /\ wpc[w] = "calling"
  /\ ended' = [ended EXCEPT ![cur[w]] = @ \cup {idx[w]}]
  /\ Goes(w, IF ops[cur[w]].kind = "async" THEN "uncount" ELSE "draw")
  /\ UNCHANGED <<queue, taskCount, drawn, begun, syncs, cur, idx, hosts>>

Uncount(w) ==
  /\ wpc[w] = "uncount"
  /\ taskCount' = (taskCount - 1) % CountSize
  /\ Goes(w, "loop")
  /\ UNCHANGED <<queue, work, syncs, cur, idx, hosts>>

WorkerArrive(w) ==
  /\ wpc[w] = "arrive"
  /\ Arrive(w, ops[cur[w]].kind)
  /\ Goes(w, "held")
  /\ UNCHANGED <<queue, taskCount, work, cur, idx, hosts>>

WorkerLeave(w) ==
  /\ wpc[w] = "held" /\ MayLeave(w, ops[cur[w]].kind)
  /\ Goes(w, "loop")
  /\ UNCHANGED <<queue, taskCount, work, syncs, cur, idx, hosts>>

-----------------------------------------------------------------------------
HostCall(h) ==
  \/ \E op \in Operation : Count(h, op)
  \/ \E b \in Barriers : PushBarrier(h, b)
  \/ Destroy(h)

Continue(h) ==
  \/ Push(h) \/ NotifyOne(h) \/ NotifyAll(h) \/ HostArrive(h) \/ HostLeave(h)
  \/ NotifyStop(h) \/ Join(h)

WorkerStep(w) ==
  \/ Take(w) \/ Sleep(w) \/ Exit(w) \/ Draw(w) \/ EndCall(w) \/ Uncount(w)
  \/ WorkerArrive(w) \/ WorkerLeave(w)

\* The pool is gone.
Gone == (\E h \in Host : hpc[h] = "destroyed") /\ UNCHANGED vars

Next ==
  \/ \E h \in Host : HostCall(h) \/ Continue(h)
  \/ \E w \in Worker : WorkerStep(w) \/ WorkerSpuriousWakeup(w)
  \/ Gone

\* The threads run: a host finishes the call it is in, a worker takes its next
\* step and the functions it calls return.  Nobody has to call anything.
Spec ==
  /\ Init /\ [][Next]_vars
  /\ \A h \in Host : WF_vars(Continue(h))
  /\ \A w \in Worker : WF_vars(WorkerStep(w))

-----------------------------------------------------------------------------
(***************************************************************************)
(* Properties                                                              *)
(***************************************************************************)
OpId == DOMAIN ops
Indices(k) == 0..(ops[k].n - 1)
Done(k) == Counted(ops[k]) => ended[k] = Indices(k)

TypeOK ==
  /\ ops \in Seq(Operation) /\ Len(ops) <= MaxOps
  /\ tasks \in Seq(OpId) /\ stop \in BOOLEAN
  /\ taskCount \in 0..(CountSize - 1)
  /\ drawn \in [OpId -> 0..(CountSize - 1)]
  /\ \A k \in OpId : ended[k] \subseteq begun[k] /\ begun[k] \subseteq Indices(k)
  /\ \A b \in Barriers : arrivals[b].counter \in 1..Expected(b)
  /\ wpc \in [Worker -> {"loop", "blocked", "calling", "draw", "uncount", "arrive", "held",
                         "exited"}]
  /\ cur \in [Worker -> 0..MaxOps] /\ idx \in [Worker -> 0..(CountSize - 1)]
  /\ hpc \in [Host -> {"idle", "push", "notify", "arrive", "held", "stop", "join",
                       "destroyed"}]
  /\ hop \in [Host -> Operation] /\ mark \in [Host -> 0..MaxOps]

\* What was submitted before a barrier() or a synchronize() has ended before
\* what was submitted after it begins, whichever workers take the copies.
Order == INSTANCE Executor
           WITH log <- [k \in OpId |-> IF Counted(ops[k]) THEN "work" ELSE "fence"],
                running <- {k \in OpId : begun[k] # {}},
                finished <- {k \in OpId : Counted(ops[k]) /\ Done(k)}

ImplementsExecutor == Order!Spec

\* f(i) is called for no index twice: neither the copies of parallel nor the
\* copy that lowers the counter repeat one.
CalledOnce ==
  [][\A w \in Worker :
       (wpc'[w] = "calling" /\ wpc[w] # "calling") =>
          (cur'[w] \in OpId /\ idx'[w] \notin begun[cur'[w]])]_vars

\* synchronize() returns only when everything pushed before it has ended.
SynchronizeCovers ==
  [][\A h \in Host :
       (hpc[h] = "held" /\ hpc'[h] = "idle") => \A k \in 1..mark[h] : Done(k)]_vars

\* task_count() is the number of operations that are counted and have not been
\* uncounted: it neither leaks nor wraps below zero, whatever the interleaving.
Uncounted(k) ==
  /\ IF ops[k].kind = "async" THEN Done(k) ELSE drawn[k] > ops[k].n
  /\ \A w \in Worker : wpc[w] = "uncount" => cur[w] # k

TaskCountExact ==
  taskCount = Pending + Cardinality({k \in OpId : Counted(ops[k]) /\ ~Uncounted(k)})

\* The destructor drops no task: when it returns, everything has ended.
DestroyedWhenDone ==
  (\E h \in Host : hpc[h] = "destroyed") => tasks = <<>> /\ \A k \in OpId : Done(k)

\* Everything that was pushed is eventually done.
TasksEnd == \A k \in 1..MaxOps : (k \in OpId) ~> (k \in OpId /\ Done(k))

\* synchronize() and the destructor return.
SynchronizeReturns == \A h \in Host : (hpc[h] = "arrive") ~> (hpc[h] = "idle")
DestructorReturns == stop ~> (\E h \in Host : hpc[h] = "destroyed")

\* No wakeup is lost, no barrier is left by fewer threads than came to it, and
\* the destructor waits for what was pushed: all tasks end, the calls that wait
\* for them return, and the destructor not before they have ended.
EverythingEnds ==
  TasksEnd /\ SynchronizeReturns /\ DestructorReturns /\ []DestroyedWhenDone

=============================================================================
