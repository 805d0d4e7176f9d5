-------------------------- MODULE CPUStream_proofs --------------------------
(***************************************************************************)
(* Proofs about CPUStream, for any number of streams, events and tasks.    *)
(*                                                                         *)
(* A command, a callback and a wait are followed by a fence before         *)
(* anything but a command of the same list comes.  A task that runs has    *)
(* therefore seen the end of everything guarded in that way before it: a   *)
(* signal that is done has all earlier commands behind it, and what runs   *)
(* after a wait has the wait behind it, which ended when the future it     *)
(* captured was ready.                                                     *)
(***************************************************************************)
EXTENDS CPUStream, SequenceTheorems, FiniteSetTheorems, NaturalsInduction, WellFoundedInduction,
        TLAPS

Futures == {NoFuture} \cup (Stream \X Nat)
TaskRecord == [kind : TaskKind, future : Futures, events : SUBSET Event]
Control == {"idle", "dispatch", "barrier", "store", "wait", "block"}

\* The tasks that a fence has to follow.
Guarded == {"command", "callback", "wait"}

\* A fence of s after position i and up to position j.
FenceIn(s, i, j) == \E f \in (i + 1)..j : task[s][f].kind = "fence"

\* A future stands for a signal that was pushed.
Valid(fut) ==
  fut # NoFuture =>
    fut[1] \in Stream /\ fut[2] \in DOMAIN task[fut[1]] /\ task[fut[1]][fut[2]].kind = "signal"

-----------------------------------------------------------------------------
Typed ==
  /\ task \in [Stream -> Seq(TaskRecord)]
  /\ running \in [Stream -> SUBSET Nat] /\ finished \in [Stream -> SUBSET Nat]
  /\ future \in [Event -> Futures]
  /\ pc \in [Stream -> Control]
  /\ held \in [Stream -> [events : SUBSET Event, future : Futures]]

TasksRun ==
  \A s \in Stream :
    /\ finished[s] \subseteq running[s] /\ running[s] \subseteq DOMAIN task[s]
    /\ \A j \in running[s] : task[s][j].kind # "fence"

TaskFuturesValid == \A s \in Stream : \A j \in DOMAIN task[s] : Valid(task[s][j].future)

FuturesValid ==
  /\ \A e \in Event : Valid(future[e])
  /\ \A s \in Stream : Valid(held[s].future)

\* The task whose future is about to be stored is a signal.
StoresSignal ==
  \A s \in Stream : pc[s] = "store" =>
    Len(task[s]) # 0 /\ task[s][Len(task[s])].kind = "signal"

\* Between a guarded task and a later task lies a fence, unless the two are
\* commands (of the same list).
Sealed ==
  \A s \in Stream : \A i, j \in DOMAIN task[s] :
    (/\ i < j /\ task[s][i].kind \in Guarded /\ task[s][j].kind # "fence"
     /\ ~(task[s][i].kind = "command" /\ task[s][j].kind = "command"))
       => FenceIn(s, i, j - 1)

\* The tasks of s that no fence follows yet: none, but for the list that is
\* being dispatched and for the task whose barrier comes next.
SealedEnd ==
  \A s \in Stream : \A i \in DOMAIN task[s] :
    (/\ task[s][i].kind \in Guarded /\ pc[s] # "barrier"
     /\ ~(task[s][i].kind = "command" /\ pc[s] = "dispatch"))
       => FenceIn(s, i, Len(task[s]))

\* A task runs only when everything on the other side of a fence has ended.
RunOrder ==
  \A s \in Stream : \A i \in DOMAIN task[s] : \A j \in running[s] :
    (i < j /\ task[s][i].kind # "fence" /\ FenceIn(s, i, j - 1)) => i \in finished[s]

\* A wait ends when the future it captured is ready.
WaitsDone ==
  \A s \in Stream : \A w \in finished[s] :
    (task[s][w].kind = "wait" /\ task[s][w].future # NoFuture) => Ready(task[s][w].future)

\* What concerns the pools alone.
Pools == Typed /\ TasksRun /\ TaskFuturesValid /\ Sealed /\ RunOrder /\ WaitsDone

\* The inductive invariant.
IInv == Pools /\ FuturesValid /\ StoresSignal /\ SealedEnd

-----------------------------------------------------------------------------
LEMMA TaskDomain ==
  ASSUME Typed, NEW s \in Stream
  PROVE  Len(task[s]) \in Nat /\ DOMAIN task[s] = 1..Len(task[s])
BY LenProperties DEF Typed

LEMMA InitIInv == Init => IInv
<1> SUFFICES ASSUME Init PROVE IInv
  OBVIOUS
<1>1. \A s \in Stream : task[s] = <<>> /\ DOMAIN task[s] = {} /\ running[s] = {}
        /\ finished[s] = {} /\ pc[s] = "idle" /\ held[s].future = NoFuture
  BY DEF Init, Nothing
<1>2. Typed
  BY DEF Init, Typed, Nothing, Futures, Control
<1>3. \A e \in Event : future[e] = NoFuture
  BY DEF Init
<1> QED
  BY <1>1, <1>2, <1>3 DEF IInv, Pools, TasksRun, TaskFuturesValid, FuturesValid, StoresSignal,
     Sealed, SealedEnd, RunOrder, WaitsDone, Valid

\* What pushing a task does to the logs: one more position in one of them.
LEMMA PushEffect ==
  ASSUME Typed, NEW s \in Stream, NEW t \in TaskRecord, PushTask(s, t)
  PROVE  /\ task' \in [Stream -> Seq(TaskRecord)]
         /\ running' = running /\ finished' = finished
         /\ Len(task'[s]) = Len(task[s]) + 1
         /\ DOMAIN task'[s] = 1..(Len(task[s]) + 1)
         /\ task'[s][Len(task[s]) + 1] = t
         /\ \A r \in Stream : r # s => task'[r] = task[r]
         /\ \A r \in Stream : \A i \in DOMAIN task[r] :
              i \in DOMAIN task'[r] /\ task'[r][i] = task[r][i]
<1>1. /\ task' = [task EXCEPT ![s] = Append(@, t)]
      /\ running' = running /\ finished' = finished
  BY DEF PushTask
<1>2. task[s] \in Seq(TaskRecord) /\ task'[s] = Append(task[s], t)
  BY <1>1 DEF Typed
<1>3. /\ Append(task[s], t) \in Seq(TaskRecord)
      /\ Len(Append(task[s], t)) = Len(task[s]) + 1
      /\ DOMAIN Append(task[s], t) = 1..(Len(task[s]) + 1)
      /\ Append(task[s], t)[Len(task[s]) + 1] = t
      /\ \A i \in 1..Len(task[s]) : Append(task[s], t)[i] = task[s][i]
  BY <1>2, AppendProperties, LenProperties
<1>4. Len(task[s]) \in Nat /\ DOMAIN task[s] = 1..Len(task[s])
  BY TaskDomain
<1>5. task' \in [Stream -> Seq(TaskRecord)]
  BY <1>1, <1>3 DEF Typed
<1>6. \A r \in Stream : r # s => task'[r] = task[r]
  BY <1>1 DEF Typed
<1>7. \A r \in Stream : \A i \in DOMAIN task[r] :
        i \in DOMAIN task'[r] /\ task'[r][i] = task[r][i]
  BY <1>2, <1>3, <1>4, <1>6
<1> QED
  BY <1>1, <1>2, <1>3, <1>5, <1>6, <1>7

\* Fences among the positions a log already has stay where they are.
LEMMA FencesStay ==
  ASSUME Typed, NEW s \in Stream, NEW t \in TaskRecord, PushTask(s, t),
         NEW r \in Stream, NEW i \in DOMAIN task[r], NEW j \in 0..Len(task[r])
  PROVE  FenceIn(r, i, j) <=> FenceIn(r, i, j)'
<1>1. Len(task[r]) \in Nat /\ DOMAIN task[r] = 1..Len(task[r])
  BY TaskDomain
<1>2. \A f \in (i + 1)..j : f \in DOMAIN task[r]
  BY <1>1
<1>3. \A f \in (i + 1)..j : task'[r][f] = task[r][f]
  BY <1>2, PushEffect
<1> QED
  BY <1>3 DEF FenceIn

\* Pushing a task keeps the pools in order if the guarded tasks before it are
\* sealed from it.
LEMMA PushPools ==
  ASSUME Pools, NEW s \in Stream, NEW t \in TaskRecord, PushTask(s, t),
         Valid(t.future),
         future' \in [Event -> Futures], pc' \in [Stream -> Control],
         held' \in [Stream -> [events : SUBSET Event, future : Futures]],
         t.kind # "fence" =>
           \A i \in DOMAIN task[s] :
             (/\ task[s][i].kind \in Guarded
              /\ ~(task[s][i].kind = "command" /\ t.kind = "command"))
                => FenceIn(s, i, Len(task[s]))
  PROVE  Pools'
<1> DEFINE n == Len(task[s])
<1>1. Typed
  BY DEF Pools
<1>2. n \in Nat /\ DOMAIN task[s] = 1..n
  BY <1>1, TaskDomain
<1>3. Typed'
  BY <1>1, PushEffect DEF Typed
<1>4. TasksRun'
  BY <1>1, PushEffect DEF Pools, TasksRun
<1>5. TaskFuturesValid'
  <2> SUFFICES ASSUME NEW r \in Stream, NEW j \in DOMAIN task'[r]
               PROVE  Valid(task[r][j].future)'
    BY DEF TaskFuturesValid
  <2>1. CASE j \in DOMAIN task[r]
    <3>1. PICK fut : fut = task[r][j].future
      OBVIOUS
    <3>2. task'[r][j].future = fut /\ Valid(fut)
      BY <1>1, <2>1, <3>1, PushEffect DEF Pools, TaskFuturesValid
    <3>3. Valid(fut)'
      BY <1>1, <3>2, PushEffect DEF Valid
    <3> QED
      BY <3>2, <3>3
  <2>2. CASE j \notin DOMAIN task[r]
    <3>1. r = s /\ j = n + 1 /\ task'[r][j] = t
      BY <1>1, <1>2, <2>2, PushEffect
    <3> QED
      BY <1>1, <3>1, PushEffect DEF Valid
  <2> QED
    BY <2>1, <2>2
<1>6. Sealed'
  <2> SUFFICES ASSUME NEW r \in Stream, NEW i \in DOMAIN task'[r], NEW j \in DOMAIN task'[r],
                      i < j, task'[r][i].kind \in Guarded, task'[r][j].kind # "fence",
                      ~(task'[r][i].kind = "command" /\ task'[r][j].kind = "command")
               PROVE  FenceIn(r, i, j - 1)'
    BY DEF Sealed
  <2>1. CASE j \in DOMAIN task[r]
    <3>1. Len(task[r]) \in Nat /\ DOMAIN task[r] = 1..Len(task[r])
          /\ Len(task'[r]) \in Nat /\ DOMAIN task'[r] = 1..Len(task'[r])
      BY <1>1, <1>3, PushEffect, LenProperties DEF Typed
    <3>2. i \in DOMAIN task[r] /\ j - 1 \in 0..Len(task[r])
      BY <2>1, <3>1
    <3>3. task'[r][i] = task[r][i] /\ task'[r][j] = task[r][j]
      BY <1>1, <2>1, <3>2, PushEffect
    <3>4. FenceIn(r, i, j - 1)
      BY <2>1, <3>2, <3>3 DEF Pools, Sealed
    <3> QED
      BY <1>1, <3>2, <3>4, FencesStay
  <2>2. CASE j \notin DOMAIN task[r]
    <3>1. r = s /\ j = n + 1 /\ task'[r][j] = t
      BY <1>1, <1>2, <2>2, PushEffect
    <3>2. i \in DOMAIN task[s] /\ j - 1 = n /\ n \in 0..n
      BY <1>1, <1>2, <3>1, PushEffect
    <3>3. task'[s][i] = task[s][i]
      BY <1>1, <3>2, PushEffect
    <3>4. FenceIn(s, i, n)
      BY <3>1, <3>2, <3>3
    <3> QED
      BY <1>1, <3>1, <3>2, <3>4, FencesStay
  <2> QED
    BY <2>1, <2>2
<1>7. RunOrder'
  <2> SUFFICES ASSUME NEW r \in Stream, NEW i \in DOMAIN task'[r], NEW j \in running'[r],
                      i < j, task'[r][i].kind # "fence", FenceIn(r, i, j - 1)'
               PROVE  i \in finished'[r]
    BY DEF RunOrder
  <2>1. Len(task[r]) \in Nat /\ DOMAIN task[r] = 1..Len(task[r])
        /\ Len(task'[r]) \in Nat /\ DOMAIN task'[r] = 1..Len(task'[r])
    BY <1>1, <1>3, PushEffect, LenProperties DEF Typed
  <2>2. j \in running[r] /\ j \in DOMAIN task[r] /\ finished' = finished
    BY <1>1, PushEffect DEF Pools, TasksRun
  <2>3. i \in DOMAIN task[r] /\ j - 1 \in 0..Len(task[r])
    BY <2>1, <2>2
  <2>4. task'[r][i] = task[r][i] /\ FenceIn(r, i, j - 1)
    BY <1>1, <2>3, PushEffect, FencesStay
  <2> QED
    BY <2>2, <2>3, <2>4 DEF Pools, RunOrder
<1>8. WaitsDone'
  <2> SUFFICES ASSUME NEW r \in Stream, NEW w \in finished'[r],
                      task'[r][w].kind = "wait", task'[r][w].future # NoFuture
               PROVE  Ready(task[r][w].future)'
    BY DEF WaitsDone
  <2>1. w \in finished[r] /\ w \in DOMAIN task[r] /\ finished' = finished
    BY <1>1, PushEffect DEF Pools, TasksRun
  <2>2. task'[r][w] = task[r][w]
    BY <1>1, <2>1, PushEffect
  <2>3. Ready(task[r][w].future)
    BY <2>1, <2>2 DEF Pools, WaitsDone
  <2> QED
    BY <2>1, <2>2, <2>3 DEF Ready
<1> QED
  BY <1>3, <1>4, <1>5, <1>6, <1>7, <1>8 DEF Pools

-----------------------------------------------------------------------------
(***************************************************************************)
(* The hosts                                                               *)
(***************************************************************************)
\* A call of the host of s leaves alone what concerns the other hosts.
LEMMA PushOthers ==
  ASSUME IInv, NEW s \in Stream, NEW t \in TaskRecord, PushTask(s, t), Pools',
         NEW to \in Control, Goes(s, to),
         NEW h \in [events : SUBSET Event, future : Futures],
         held' = [held EXCEPT ![s] = h] \/ held' = held,
         Valid(h.future), future' = future,
         to = "store" => t.kind = "signal",
         \A i \in DOMAIN task'[s] :
           (/\ task'[s][i].kind \in Guarded /\ to # "barrier"
            /\ ~(task'[s][i].kind = "command" /\ to = "dispatch"))
              => FenceIn(s, i, Len(task[s]))'
  PROVE  IInv'
<1>1. Typed /\ FuturesValid /\ StoresSignal /\ SealedEnd
  BY DEF IInv, Pools
<1>2. pc' = [pc EXCEPT ![s] = to]
  BY DEF Goes
<1>3. FuturesValid'
  <2>1. \A e \in Event : Valid(future[e])'
    <3> SUFFICES ASSUME NEW e \in Event PROVE Valid(future[e])'
      OBVIOUS
    <3>1. Valid(future[e])
      BY <1>1 DEF FuturesValid
    <3> QED
      BY <1>1, <3>1, PushEffect DEF Valid
  <2>2. \A r \in Stream : Valid(held[r].future)'
    <3> SUFFICES ASSUME NEW r \in Stream PROVE Valid(held[r].future)'
      OBVIOUS
    <3>1. held'[r] = held[r] \/ held'[r] = h
      BY <1>1 DEF Typed
    <3>2. Valid(held[r].future) /\ Valid(h.future)
      BY <1>1 DEF FuturesValid
    <3>3. CASE held'[r] = held[r]
      BY <1>1, <3>2, <3>3, PushEffect DEF Valid
    <3>4. CASE held'[r] = h
      BY <1>1, <3>2, <3>4, PushEffect DEF Valid
    <3> QED
      BY <3>1, <3>3, <3>4
  <2> QED
    BY <2>1, <2>2 DEF FuturesValid
<1>4. StoresSignal'
  <2> SUFFICES ASSUME NEW r \in Stream, pc'[r] = "store"
               PROVE  Len(task'[r]) # 0 /\ task'[r][Len(task'[r])].kind = "signal"
    BY DEF StoresSignal
  <2>1. CASE r = s
    <3>1. t.kind = "signal" /\ Len(task[s]) \in Nat
      BY <1>1, <1>2, <2>1, TaskDomain DEF Typed
    <3> QED
      BY <1>1, <2>1, <3>1, PushEffect
  <2>2. CASE r # s
    <3>1. pc[r] = "store" /\ task'[r] = task[r]
      BY <1>1, <1>2, <2>2, PushEffect DEF Typed
    <3> QED
      BY <1>1, <3>1 DEF StoresSignal
  <2> QED
    BY <2>1, <2>2
<1>5. SealedEnd'
  <2> SUFFICES ASSUME NEW r \in Stream, NEW i \in DOMAIN task'[r],
                      task'[r][i].kind \in Guarded, pc'[r] # "barrier",
                      ~(task'[r][i].kind = "command" /\ pc'[r] = "dispatch")
               PROVE  FenceIn(r, i, Len(task[r]))'
    BY DEF SealedEnd
  <2>1. CASE r = s
    BY <1>1, <1>2, <2>1 DEF Typed
  <2>2. CASE r # s
    <3>1. pc'[r] = pc[r] /\ task'[r] = task[r]
      BY <1>1, <1>2, <2>2, PushEffect DEF Typed
    <3>2. FenceIn(r, i, Len(task[r]))
      BY <1>1, <3>1 DEF SealedEnd
    <3> QED
      BY <3>1, <3>2 DEF FenceIn
  <2> QED
    BY <2>1, <2>2
<1> QED
  BY <1>3, <1>4, <1>5 DEF IInv

\* In a state without an open list every guarded task is followed by a fence.
LEMMA AllSealed ==
  ASSUME IInv, NEW s \in Stream, pc[s] \notin {"dispatch", "barrier"},
         NEW i \in DOMAIN task[s], task[s][i].kind \in Guarded
  PROVE  FenceIn(s, i, Len(task[s]))
BY DEF IInv, SealedEnd

\* A host goes on without touching the pools.
LEMMA PlainHost ==
  ASSUME IInv, UNCHANGED pools, NEW s \in Stream, pc[s] \notin {"dispatch", "barrier"},
         NEW to \in Control, to # "store", Goes(s, to),
         future' \in [Event -> Futures], \A e \in Event : Valid(future'[e]),
         NEW h \in [events : SUBSET Event, future : Futures],
         held' = [held EXCEPT ![s] = h] \/ held' = held, Valid(h.future)
  PROVE  IInv'
<1>1. /\ task' = task /\ running' = running /\ finished' = finished
      /\ pc' = [pc EXCEPT ![s] = to]
  BY DEF pools, Goes
<1>2. Typed /\ FuturesValid /\ StoresSignal /\ SealedEnd /\ Pools
  BY DEF IInv, Pools
<1>3. Typed'
  <2>1. pc' \in [Stream -> Control]
    BY <1>1, <1>2 DEF Typed
  <2>2. held' \in [Stream -> [events : SUBSET Event, future : Futures]]
    BY <1>2 DEF Typed
  <2> QED
    BY <1>1, <1>2, <2>1, <2>2 DEF Typed
<1>4. Pools'
  <2>1. TasksRun' /\ Sealed' /\ RunOrder'
    BY <1>1, <1>2 DEF Pools, TasksRun, Sealed, RunOrder, FenceIn
  <2>2. TaskFuturesValid'
    <3>1. \A fut : Valid(fut)' <=> Valid(fut)
      BY <1>1 DEF Valid
    <3> QED
      BY <1>1, <1>2, <3>1 DEF Pools, TaskFuturesValid
  <2>3. WaitsDone'
    BY <1>1, <1>2 DEF Pools, WaitsDone, Ready
  <2> QED
    BY <1>3, <2>1, <2>2, <2>3 DEF Pools
<1>5. FuturesValid'
  <2>1. \A r \in Stream : held'[r] = held[r] \/ held'[r] = h
    BY <1>2 DEF Typed
  <2>2. \A r \in Stream : Valid(held'[r].future)
    BY <1>2, <2>1 DEF FuturesValid
  <2> QED
    BY <1>1, <2>2 DEF FuturesValid, Valid
<1>6. StoresSignal'
  BY <1>1, <1>2 DEF Typed, StoresSignal
<1>7. SealedEnd'
  BY <1>1, <1>2 DEF Typed, SealedEnd, FenceIn
<1> QED
  BY <1>4, <1>5, <1>6, <1>7 DEF IInv

LEMMA NothingIsHeld ==
  /\ Nothing \in [events : SUBSET Event, future : Futures]
  /\ Nothing.future = NoFuture
  /\ \A e \in Event, fut \in Futures :
       Hold(e, fut) \in [events : SUBSET Event, future : Futures] /\ Hold(e, fut).future = fut
  /\ NoFuture \in Futures /\ Valid(NoFuture)
BY DEF Nothing, Hold, Futures, Valid

\* The tasks that the hosts push.
LEMMA TaskIsRecord ==
  ASSUME NEW kind \in TaskKind, NEW fut \in Futures, NEW about \in SUBSET Event
  PROVE  /\ Task(kind, fut, about) \in TaskRecord
         /\ Task(kind, fut, about).kind = kind /\ Task(kind, fut, about).future = fut
BY DEF Task, TaskRecord

LEMMA VisitCommandIInv ==
  ASSUME IInv, NEW s \in Stream, VisitCommand(s)
  PROVE  IInv'
<1> DEFINE t == Task("command", NoFuture, {})
           n == Len(task[s])
<1>1. t \in TaskRecord /\ t.kind = "command" /\ t.future = NoFuture
  BY TaskIsRecord, NothingIsHeld DEF TaskKind
<1>2. Typed /\ Pools /\ pc[s] = "dispatch" /\ PushTask(s, t)
      /\ future' = future /\ held' = held
  BY DEF IInv, Pools, VisitCommand
<1>3. PICK to \in {"barrier", "dispatch"} : Goes(s, to)
  BY DEF VisitCommand
<1> HIDE DEF t
<1>4. n \in Nat /\ DOMAIN task[s] = 1..n
  BY <1>2, TaskDomain
<1>5. \A i \in DOMAIN task[s] :
        (task[s][i].kind \in Guarded /\ task[s][i].kind # "command") => FenceIn(s, i, n)
  BY <1>2 DEF IInv, SealedEnd
<1>6. Pools'
  <2>1. pc' \in [Stream -> Control] /\ future' \in [Event -> Futures]
        /\ held' \in [Stream -> [events : SUBSET Event, future : Futures]]
    BY <1>2, <1>3 DEF Typed, Goes, Control
  <2>2. Valid(t.future)
    BY <1>1, NothingIsHeld
  <2> QED
    BY <1>1, <1>2, <1>5, <2>1, <2>2, PushPools
<1>7. ASSUME NEW i \in DOMAIN task'[s], task'[s][i].kind \in Guarded,
             task'[s][i].kind # "command"
      PROVE  FenceIn(s, i, Len(task[s]))'
  <2>1. i \in DOMAIN task[s] /\ task'[s][i] = task[s][i]
    BY <1>1, <1>2, <1>4, <1>7, PushEffect
  <2>2. PICK f \in (i + 1)..n : task[s][f].kind = "fence"
    BY <1>5, <1>7, <2>1 DEF FenceIn
  <2>3. f \in (i + 1)..(n + 1) /\ task'[s][f].kind = "fence" /\ Len(task'[s]) = n + 1
    BY <1>1, <1>2, <1>4, <2>1, <2>2, PushEffect
  <2> QED
    BY <2>3 DEF FenceIn
<1>8. to \in Control
  BY DEF Control
<1>9. Valid(Nothing.future) /\ Nothing \in [events : SUBSET Event, future : Futures]
  BY NothingIsHeld
<1> QED
  BY <1>1, <1>2, <1>3, <1>6, <1>7, <1>8, <1>9, PushOthers

\* A task that is pushed in a state without an open list.
LEMMA SealedPush ==
  ASSUME IInv, NEW s \in Stream, pc[s] \notin {"dispatch", "barrier"},
         NEW t \in TaskRecord, PushTask(s, t), Valid(t.future),
         NEW to \in {"barrier", "store"}, Goes(s, to), to = "store" <=> t.kind = "signal",
         NEW h \in [events : SUBSET Event, future : Futures], Valid(h.future),
         held' = [held EXCEPT ![s] = h] \/ held' = held, future' = future
  PROVE  IInv'
<1> DEFINE n == Len(task[s])
<1>1. Typed /\ Pools
  BY DEF IInv, Pools
<1>2. n \in Nat /\ DOMAIN task[s] = 1..n
  BY <1>1, TaskDomain
<1>3. Pools'
  <2>1. pc' \in [Stream -> Control] /\ future' \in [Event -> Futures]
    BY <1>1 DEF Typed, Goes, Control
  <2>2. held' \in [Stream -> [events : SUBSET Event, future : Futures]]
    BY <1>1 DEF Typed
  <2> QED
    BY <1>1, <2>1, <2>2, AllSealed, PushPools
<1>4. ASSUME NEW i \in DOMAIN task'[s], task'[s][i].kind \in Guarded, to # "barrier"
      PROVE  FenceIn(s, i, Len(task[s]))'
  <2>1. i \in DOMAIN task[s] /\ task'[s][i] = task[s][i]
    <3>1. t.kind = "signal"
      BY <1>4
    <3> QED
      BY <1>1, <1>2, <1>4, <3>1, PushEffect DEF Guarded
  <2>2. PICK f \in (i + 1)..n : task[s][f].kind = "fence"
    BY <1>4, <2>1, AllSealed DEF FenceIn
  <2>3. f \in (i + 1)..(n + 1) /\ task'[s][f].kind = "fence" /\ Len(task'[s]) = n + 1
    BY <1>1, <1>2, <2>1, <2>2, PushEffect
  <2> QED
    BY <2>3 DEF FenceIn
<1>5. to \in Control
  BY DEF Control
<1> QED
  BY <1>1, <1>3, <1>4, <1>5, PushOthers

LEMMA BarrierIInv ==
  ASSUME IInv, NEW s \in Stream, Barrier(s)
  PROVE  IInv'
<1> DEFINE t == Task("fence", NoFuture, {})
           n == Len(task[s])
<1>1. t \in TaskRecord /\ t.kind = "fence" /\ t.future = NoFuture
  BY TaskIsRecord, NothingIsHeld DEF TaskKind
<1>2. Typed /\ Pools /\ PushTask(s, t) /\ Goes(s, "idle") /\ future' = future /\ held' = held
  BY DEF IInv, Pools, Barrier
<1> HIDE DEF t
<1>3. n \in Nat /\ DOMAIN task[s] = 1..n
  BY <1>2, TaskDomain
<1>4. Pools'
  <2>1. pc' \in [Stream -> Control] /\ future' \in [Event -> Futures]
        /\ held' \in [Stream -> [events : SUBSET Event, future : Futures]]
    BY <1>2 DEF Typed, Goes, Control
  <2>2. Valid(t.future)
    BY <1>1, NothingIsHeld
  <2> QED
    BY <1>1, <1>2, <2>1, <2>2, PushPools
<1>5. ASSUME NEW i \in DOMAIN task'[s], task'[s][i].kind \in Guarded
      PROVE  FenceIn(s, i, Len(task[s]))'
  <2>1. i \in 1..n
    BY <1>1, <1>2, <1>3, <1>5, PushEffect DEF Guarded
  <2>2. n + 1 \in (i + 1)..(n + 1) /\ task'[s][n + 1].kind = "fence" /\ Len(task'[s]) = n + 1
    BY <1>1, <1>2, <1>3, <2>1, PushEffect
  <2> QED
    BY <2>2 DEF FenceIn
<1>6. Valid(Nothing.future) /\ Nothing \in [events : SUBSET Event, future : Futures]
  BY NothingIsHeld
<1>7. "idle" \in Control
  BY DEF Control
<1> QED
  BY <1>1, <1>2, <1>4, <1>5, <1>6, <1>7, PushOthers

LEMMA HostIInv ==
  ASSUME IInv, NEW s \in Stream, Call(s) \/ Continue(s)
  PROVE  IInv'
<1>1. Typed /\ FuturesValid
  BY DEF IInv, Pools
<1>2. /\ held[s] \in [events : SUBSET Event, future : Futures]
      /\ held[s].future \in Futures /\ held[s].events \in SUBSET Event /\ Valid(held[s].future)
  BY <1>1 DEF Typed, FuturesValid
<1>3. \A e \in Event : future[e] \in Futures /\ Valid(future[e])
  BY <1>1 DEF Typed, FuturesValid
<1>4. ASSUME NEW n \in ListSizes, Dispatch(s, n) PROVE IInv'
  <2>1. /\ pc[s] = "idle" /\ Goes(s, "dispatch") /\ UNCHANGED pools
        /\ future' = future /\ held' = held /\ "dispatch" \in Control
    BY <1>4 DEF Dispatch, CanCall, Control
  <2> QED
    BY <1>1, <1>3, <2>1, NothingIsHeld, PlainHost DEF Typed
<1>5. CASE DispatchCallback(s)
  <2>1. /\ pc[s] = "idle" /\ PushTask(s, Task("callback", NoFuture, {})) /\ Goes(s, "barrier")
        /\ future' = future /\ held' = held
    BY <1>5 DEF DispatchCallback, CanCall
  <2>2. /\ Task("callback", NoFuture, {}) \in TaskRecord
        /\ Task("callback", NoFuture, {}).kind = "callback"
        /\ Valid(Task("callback", NoFuture, {}).future)
    BY TaskIsRecord, NothingIsHeld DEF TaskKind
  <2> QED
    BY <2>1, <2>2, NothingIsHeld, SealedPush
<1>6. ASSUME NEW e \in Event, Signal(s, e) PROVE IInv'
  <2>1. /\ pc[s] = "idle" /\ PushTask(s, Task("signal", NoFuture, {e})) /\ Goes(s, "store")
        /\ future' = future /\ held' = [held EXCEPT ![s] = Hold(e, NoFuture)]
    BY <1>6 DEF Signal, CanCall
  <2>2. /\ Task("signal", NoFuture, {e}) \in TaskRecord
        /\ Task("signal", NoFuture, {e}).kind = "signal"
        /\ Valid(Task("signal", NoFuture, {e}).future)
    BY TaskIsRecord, NothingIsHeld DEF TaskKind
  <2>3. /\ Hold(e, NoFuture) \in [events : SUBSET Event, future : Futures]
        /\ Valid(Hold(e, NoFuture).future)
    BY NothingIsHeld
  <2> QED
    BY <2>1, <2>2, <2>3, SealedPush
<1>7. ASSUME NEW e \in Event, Wait(s, e) \/ SynchronizeEvent(s, e) PROVE IInv'
  <2>1. PICK to \in {"wait", "block"} :
          /\ pc[s] = "idle" /\ Goes(s, to) /\ UNCHANGED pools
          /\ future' = future /\ held' = [held EXCEPT ![s] = Hold(e, future[e])]
    BY <1>7 DEF Wait, SynchronizeEvent, CanCall
  <2>2. /\ Hold(e, future[e]) \in [events : SUBSET Event, future : Futures]
        /\ Valid(Hold(e, future[e]).future) /\ to \in Control
    BY <1>3, NothingIsHeld DEF Control
  <2> QED
    BY <1>1, <1>3, <2>1, <2>2, PlainHost DEF Typed
<1>8. CASE StoreFuture(s)
  <2>1. /\ pc[s] = "store" /\ Goes(s, "idle") /\ UNCHANGED pools
        /\ held' = [held EXCEPT ![s] = Nothing] /\ "idle" \in Control
        /\ future' = [e \in Event |-> IF e \in held[s].events THEN <<s, Len(task[s])>>
                                                               ELSE future[e]]
    BY <1>8 DEF StoreFuture, Control
  <2>2. Len(task[s]) \in Nat /\ Len(task[s]) \in DOMAIN task[s]
        /\ task[s][Len(task[s])].kind = "signal"
    BY <1>1, <2>1, TaskDomain DEF IInv, StoresSignal
  <2>3. <<s, Len(task[s])>> \in Futures /\ Valid(<<s, Len(task[s])>>)
    BY <2>2 DEF Futures, Valid
  <2>4. future' \in [Event -> Futures] /\ \A e \in Event : Valid(future'[e])
    BY <1>3, <2>1, <2>3
  <2> QED
    BY <2>1, <2>4, NothingIsHeld, PlainHost
<1>9. CASE EventDone(s)
  <2>1. /\ pc[s] = "block" /\ Goes(s, "idle") /\ UNCHANGED pools
        /\ held' = [held EXCEPT ![s] = Nothing] /\ "idle" \in Control /\ future' = future
    BY <1>9 DEF EventDone, Control
  <2> QED
    BY <1>1, <1>3, <2>1, NothingIsHeld, PlainHost DEF Typed
<1>10. CASE PushWait(s)
  <2> DEFINE t == Task("wait", held[s].future, held[s].events)
  <2>1. /\ pc[s] = "wait" /\ PushTask(s, t) /\ Goes(s, "barrier")
        /\ future' = future /\ held' = [held EXCEPT ![s] = Nothing]
    BY <1>10 DEF PushWait
  <2>2. t \in TaskRecord /\ t.kind = "wait" /\ t.future = held[s].future
    BY <1>2, TaskIsRecord DEF TaskKind
  <2> HIDE DEF t
  <2>3. Valid(t.future)
    BY <1>2, <2>2
  <2> QED
    BY <2>1, <2>2, <2>3, NothingIsHeld, SealedPush
<1> QED
  BY <1>4, <1>5, <1>6, <1>7, <1>8, <1>9, <1>10, VisitCommandIInv, BarrierIInv
  DEF Call, Continue

-----------------------------------------------------------------------------
(***************************************************************************)
(* The workers                                                             *)
(***************************************************************************)
\* What MayBegin of the pool says of the tasks: a fence in between means that
\* the earlier task has ended.
LEMMA BegunIsFenced ==
  ASSUME Typed, NEW s \in Stream, NEW j \in DOMAIN task[s], BeginTask(s, j),
         NEW i \in DOMAIN task[s], i < j, task[s][i].kind # "fence", FenceIn(s, i, j - 1)
  PROVE  i \in finished[s]
<1>1. Len(task[s]) \in Nat /\ DOMAIN task[s] = 1..Len(task[s])
  BY TaskDomain
<1>2. PICK f \in (i + 1)..(j - 1) : task[s][f].kind = "fence"
  BY DEF FenceIn
<1>3. f \in DOMAIN task[s]
  BY <1>1, <1>2
<1>4. Kinds(s)[f] = "fence" /\ Kinds(s)[i] = "work" /\ i \in DOMAIN Kinds(s)
  BY <1>2, <1>3 DEF Kinds
<1>5. Pool(s)!Fenced(Kinds(s), i, j)
  BY <1>2, <1>4 DEF Pool!Fenced
<1>6. Pool(s)!MayBegin(Kinds(s), finished[s], j)
  BY DEF BeginTask
<1> QED
  BY <1>4, <1>5, <1>6 DEF Pool!MayBegin

\* A step of a worker: tasks of one stream begin or end, nothing else changes.
LEMMA WorkerIInv ==
  ASSUME IInv, NEW s \in Stream, NEW j \in 1..MaxTasks, Run(s, j)
  PROVE  IInv'
<1>1. Typed /\ Pools /\ FuturesValid /\ StoresSignal /\ SealedEnd
  BY DEF IInv, Pools
<1>2. /\ j \in DOMAIN task[s] /\ j \in Nat
      /\ task' = task /\ future' = future /\ pc' = pc /\ held' = held
  BY DEF Run, BeginTask, EndTask, WaitOnNothing, hosts
<1>3. TaskFuturesValid' /\ FuturesValid' /\ StoresSignal' /\ SealedEnd' /\ Sealed'
  <2>1. TaskFuturesValid' /\ FuturesValid'
    BY <1>1, <1>2 DEF Pools, TaskFuturesValid, FuturesValid, Valid
  <2>2. StoresSignal'
    BY <1>1, <1>2 DEF StoresSignal
  <2>3. SealedEnd' /\ Sealed'
    BY <1>1, <1>2 DEF Pools, SealedEnd, Sealed, FenceIn
  <2> QED
    BY <2>1, <2>2, <2>3
<1>4. CASE BeginTask(s, j)
  <2>1. /\ task[s][j].kind # "fence" /\ finished' = finished
        /\ running' = [running EXCEPT ![s] = @ \cup {j}]
    BY <1>4 DEF BeginTask
  <2>2. Typed' /\ TasksRun'
    BY <1>1, <1>2, <2>1 DEF Pools, Typed, TasksRun
  <2>3. WaitsDone'
    BY <1>1, <1>2, <2>1 DEF Pools, WaitsDone, Ready
  <2>4. RunOrder'
    <3> SUFFICES ASSUME NEW r \in Stream, NEW i \in DOMAIN task[r], NEW k \in running'[r],
                        i < k, task[r][i].kind # "fence", FenceIn(r, i, k - 1)
                 PROVE  i \in finished[r]
      BY <1>2, <2>1 DEF RunOrder, FenceIn
    <3>1. k \in running[r] \/ (r = s /\ k = j)
      BY <1>1, <2>1 DEF Typed
    <3>2. CASE k \in running[r]
      BY <1>1, <3>2 DEF Pools, RunOrder
    <3>3. CASE r = s /\ k = j
      BY <1>1, <1>2, <1>4, <3>3, BegunIsFenced
    <3> QED
      BY <3>1, <3>2, <3>3
  <2> QED
    BY <1>3, <2>2, <2>3, <2>4 DEF IInv, Pools
<1>5. CASE EndTask(s, j) \/ WaitOnNothing(s, j)
  <2>1. /\ j \in running[s] /\ running' = running
        /\ finished' = [finished EXCEPT ![s] = @ \cup {j}] \/ finished' = finished
    BY <1>5 DEF EndTask, WaitOnNothing
  <2>2. (task[s][j].kind = "wait" /\ task[s][j].future # NoFuture) => Ready(task[s][j].future)
    BY <1>5 DEF EndTask, WaitOnNothing
  <2>3. Typed'
    <3>1. finished \in [Stream -> SUBSET Nat] /\ finished[s] \cup {j} \in SUBSET Nat
      BY <1>1, <1>2 DEF Typed
    <3>2. [finished EXCEPT ![s] = @ \cup {j}] \in [Stream -> SUBSET Nat]
      BY <3>1
    <3>3. finished' \in [Stream -> SUBSET Nat]
      BY <2>1, <3>1, <3>2
    <3> QED
      BY <1>1, <1>2, <2>1, <3>3 DEF Typed
  <2>4. \A r \in Stream : finished[r] \subseteq finished'[r]
          /\ \A w \in finished'[r] : w \in finished[r] \/ (r = s /\ w = j)
    BY <1>1, <2>1 DEF Typed
  <2>5. TasksRun'
    BY <1>1, <1>2, <2>1, <2>4 DEF Pools, TasksRun
  <2>6. RunOrder'
    BY <1>1, <1>2, <2>1, <2>4 DEF Pools, RunOrder, FenceIn
  <2>7. WaitsDone'
    <3> SUFFICES ASSUME NEW r \in Stream, NEW w \in finished'[r],
                        task[r][w].kind = "wait", task[r][w].future # NoFuture
                 PROVE  Ready(task[r][w].future)'
      BY <1>2 DEF WaitsDone, Ready
    <3>1. Ready(task[r][w].future)
      BY <1>1, <2>2, <2>4 DEF Pools, WaitsDone
    <3>2. w \in DOMAIN task[r]
      BY <1>1, <1>2, <2>4 DEF Pools, TasksRun
    <3>3. task[r][w].future[1] \in Stream
      BY <1>1, <3>2 DEF Pools, TaskFuturesValid, Valid
    <3> QED
      BY <1>2, <2>4, <3>1, <3>3 DEF Ready
  <2> QED
    BY <1>3, <2>3, <2>5, <2>6, <2>7 DEF IInv, Pools
<1> QED
  BY <1>4, <1>5 DEF Run

-----------------------------------------------------------------------------
LEMMA NextIInv ==
  ASSUME IInv, [Next]_vars
  PROVE  IInv'
<1>1. CASE UNCHANGED vars
  <2>1. /\ task' = task /\ running' = running /\ finished' = finished
        /\ future' = future /\ pc' = pc /\ held' = held
    BY <1>1 DEF vars, pools, hosts
  <2>2. Typed' /\ TasksRun' /\ Sealed' /\ SealedEnd' /\ RunOrder'
    BY <2>1 DEF IInv, Pools, Typed, TasksRun, Sealed, SealedEnd, RunOrder, FenceIn
  <2>3. TaskFuturesValid' /\ FuturesValid' /\ StoresSignal'
    BY <2>1 DEF IInv, Pools, TaskFuturesValid, FuturesValid, StoresSignal, Valid
  <2>4. WaitsDone'
    BY <2>1 DEF IInv, Pools, WaitsDone, Ready
  <2> QED
    BY <2>2, <2>3, <2>4 DEF IInv, Pools
<1>2. CASE ~lost /\ \E s \in Stream : Call(s) \/ Continue(s) \/ \E j \in 1..MaxTasks : Run(s, j)
  BY <1>2, HostIInv, WorkerIInv
<1> QED
  BY <1>1, <1>2 DEF Next, Over

\* The streams are consistent in every reachable state: the inductive
\* invariant of dispatch, signal, wait and the workers of llvm_stream.
THEOREM StreamsConsistent == Spec => []IInv
BY InitIInv, NextIInv, PTL DEF Spec

\* A signal that is done has everything before it in its stream behind it.
LEMMA ReadyCovers ==
  ASSUME IInv, NEW fut, fut # NoFuture, Valid(fut), Ready(fut)
  PROVE  EndedBefore(fut)
<1> DEFINE q == fut[1]
           k == fut[2]
<1>1. Typed /\ Pools
  BY DEF IInv, Pools
<1>2. q \in Stream /\ k \in DOMAIN task[q] /\ task[q][k].kind = "signal"
  BY DEF Valid
<1>3. Len(task[q]) \in Nat /\ DOMAIN task[q] = 1..Len(task[q])
  BY <1>1, <1>2, TaskDomain
<1>4. k \in running[q]
  BY <1>1, <1>2 DEF Ready, Pools, TasksRun
<1>5. ASSUME NEW i \in 1..k, task[q][i].kind \in {"command", "callback", "wait"}
      PROVE  i \in finished[q]
  <2>1. i \in DOMAIN task[q] /\ i < k
    BY <1>2, <1>3, <1>5
  <2>2. FenceIn(q, i, k - 1)
    BY <1>1, <1>2, <1>5, <2>1 DEF Pools, Sealed, Guarded
  <2> QED
    BY <1>1, <1>2, <1>4, <1>5, <2>1, <2>2 DEF Pools, RunOrder
<1> QED
  BY <1>5 DEF EndedBefore

\* What runs after a wait has everything before the captured signal behind it:
\* the barrier that LLVMStream::wait pushes separates the wait from it.
THEOREM WaitsOrderStreams == Spec => []WaitOrdersStreams
<1>1. ASSUME IInv PROVE WaitOrdersStreams
  <2> SUFFICES ASSUME NEW s \in Stream, NEW w \in DOMAIN task[s], NEW j \in DOMAIN task[s],
                      task[s][w].kind = "wait", task[s][w].future # NoFuture,
                      w < j, j \in running[s]
               PROVE  EndedBefore(task[s][w].future)
    BY DEF WaitOrdersStreams
  <2>1. Pools
    BY <1>1 DEF IInv
  <2>2. task[s][j].kind # "fence"
    BY <2>1 DEF Pools, TasksRun
  <2>3. FenceIn(s, w, j - 1)
    BY <2>1, <2>2 DEF Pools, Sealed, Guarded
  <2>4. w \in finished[s]
    BY <2>1, <2>3 DEF Pools, RunOrder
  <2>5. Ready(task[s][w].future) /\ Valid(task[s][w].future)
    BY <2>1, <2>4 DEF Pools, WaitsDone, TaskFuturesValid
  <2> QED
    BY <1>1, <2>5, ReadyCovers
<1> QED
  BY <1>1, StreamsConsistent, PTL

\* event.synchronize() returns only when everything before the signal has
\* ended: LLVMEvent::wait returns on the future it took.
THEOREM EventsCoverCommands == Spec => EventCoversCommands
<1> DEFINE Covered == \A s \in Stream :
             (pc[s] = "block" /\ pc'[s] = "idle") => EndedBefore(held[s].future)
<1>1. ASSUME IInv, [Next]_vars PROVE [Covered]_vars
  <2> SUFFICES ASSUME NEW s \in Stream, pc[s] = "block", pc'[s] = "idle"
               PROVE  EndedBefore(held[s].future)
    OBVIOUS
  <2>1. pc \in [Stream -> Control]
    BY <1>1 DEF IInv, Pools, Typed
  <2>2. ~UNCHANGED vars
    BY DEF vars, hosts
  <2>3. PICK r \in Stream : Call(r) \/ Continue(r) \/ \E j \in 1..MaxTasks : Run(r, j)
    BY <1>1, <2>2 DEF Next, Over
  <2>4. ~(\E j \in 1..MaxTasks : Run(r, j))
    BY DEF Run, BeginTask, EndTask, WaitOnNothing, hosts
  <2>5. r = s /\ EventDone(s)
    <3>1. pc' = pc \/ \E to \in Control : Goes(r, to)
      BY <2>3, <2>4 DEF Call, Continue, Dispatch, DispatchCallback, Signal, Wait,
         SynchronizeEvent, VisitCommand, Barrier, StoreFuture, PushWait, EventDone, Control
    <3>2. r = s
      BY <2>1, <3>1 DEF Goes
    <3> QED
      BY <2>3, <2>4, <3>2 DEF Call, Continue, CanCall, Dispatch, DispatchCallback, Signal, Wait,
         SynchronizeEvent, VisitCommand, Barrier, StoreFuture, PushWait
  <2>6. Ready(held[s].future) /\ Valid(held[s].future) /\ held[s].future # NoFuture
    BY <1>1, <2>5 DEF EventDone, Ready, IInv, FuturesValid
  <2> QED
    BY <1>1, <2>6, ReadyCovers
<1> QED
  BY <1>1, StreamsConsistent, PTL DEF Spec, EventCoversCommands


-----------------------------------------------------------------------------
(***************************************************************************)
(* Types: a call begins only when there is room for all that it pushes.    *)
(***************************************************************************)
\* What the host of s has yet to push in the call it is in.
Owed(s) ==
  IF pc[s] = "dispatch" THEN left[s] + 1
  ELSE IF pc[s] = "wait" THEN 2 ELSE IF pc[s] = "barrier" THEN 1 ELSE 0

Room ==
  /\ left \in [Stream -> 0..MaxTasks] /\ lost \in BOOLEAN
  /\ \A s \in Stream : Len(task[s]) + Owed(s) <= MaxTasks
  /\ \A s \in Stream : pc[s] = "dispatch" => left[s] # 0

\* A step of the host of s that keeps what it owes.
Paid(s) ==
  /\ \A r \in Stream : r # s => task'[r] = task[r] /\ pc'[r] = pc[r]
  /\ \/ task'[s] = task[s] /\ (Owed(s)' = 0 \/ Len(task[s]) + Owed(s)' <= MaxTasks)
     \/ Len(task'[s]) = Len(task[s]) + 1 /\ 1 + Owed(s)' <= Owed(s)
     \/ Len(task'[s]) = Len(task[s]) + 1 /\ Len(task[s]) + 1 + Owed(s)' <= MaxTasks

LEMMA RoomKept ==
  ASSUME Typed, Room, Next
  PROVE  Room'
<1>0. /\ task \in [Stream -> Seq(TaskRecord)] /\ pc \in [Stream -> Control]
      /\ left \in [Stream -> 0..MaxTasks] /\ lost \in BOOLEAN /\ MaxTasks \in Nat
      /\ \A r \in Stream : Len(task[r]) \in Nat
  BY SizesAssumption, TaskDomain DEF Typed, Room
<1>1. ASSUME NEW s \in Stream, Paid(s), left' \in [Stream -> 0..MaxTasks], lost' = lost,
             \A r \in Stream : r # s => left'[r] = left[r],
             pc'[s] = "dispatch" => left'[s] # 0
      PROVE  Room'
  <2>1. ASSUME NEW r \in Stream, r # s
        PROVE  Len(task'[r]) + Owed(r)' <= MaxTasks /\ (pc'[r] = "dispatch" => left'[r] # 0)
    BY <1>1, <2>1 DEF Room, Paid, Owed
  <2>2. Owed(s) \in Nat /\ Owed(s)' \in Nat /\ Len(task[s]) + Owed(s) <= MaxTasks
    BY <1>0, <1>1 DEF Owed, Room
  <2>3. Len(task'[s]) + Owed(s)' <= MaxTasks
    BY <1>0, <1>1, <2>2 DEF Paid
  <2> QED
    BY <1>0, <1>1, <2>1, <2>3 DEF Room
<1>2. ASSUME NEW s \in Stream, NEW n \in ListSizes, Dispatch(s, n) PROVE Room'
  <2>1. n \in Nat \ {0} /\ Len(task[s]) + (n + 1) <= MaxTasks /\ lost' = lost /\ task' = task
    BY <1>2, SizesAssumption DEF Dispatch, CanCall, pools
  <2>2. n \in 0..MaxTasks
    BY <1>0, <2>1
  <2>3. /\ left' \in [Stream -> 0..MaxTasks] /\ left'[s] = n /\ pc'[s] = "dispatch"
        /\ \A r \in Stream : r # s => left'[r] = left[r] /\ pc'[r] = pc[r]
    BY <1>0, <1>2, <2>2 DEF Dispatch, Goes
  <2>4. Paid(s)
    BY <2>1, <2>3 DEF Paid, Owed
  <2> QED
    BY <1>1, <2>1, <2>3, <2>4
<1>3. ASSUME NEW s \in Stream, NEW t, PushTask(s, t)
      PROVE  /\ lost' = lost /\ Len(task'[s]) = Len(task[s]) + 1
             /\ \A r \in Stream : r # s => task'[r] = task[r]
  BY <1>0, <1>3 DEF PushTask
<1>4. ASSUME NEW s \in Stream, VisitCommand(s) PROVE Room'
  <2>1. /\ lost' = lost /\ Len(task'[s]) = Len(task[s]) + 1 /\ pc[s] = "dispatch" /\ left[s] > 0
        /\ \A r \in Stream : r # s => task'[r] = task[r]
    BY <1>3, <1>4 DEF VisitCommand
  <2>2. /\ left' \in [Stream -> 0..MaxTasks] /\ left'[s] = left[s] - 1
        /\ pc'[s] = (IF left[s] = 1 THEN "barrier" ELSE "dispatch")
        /\ \A r \in Stream : r # s => left'[r] = left[r] /\ pc'[r] = pc[r]
    BY <1>0, <1>4, <2>1 DEF VisitCommand, Goes
  <2>3. Paid(s)
    BY <1>0, <2>1, <2>2 DEF Paid, Owed
  <2>4. pc'[s] = "dispatch" => left'[s] # 0
    BY <1>0, <2>1, <2>2
  <2> QED
    BY <1>1, <2>1, <2>2, <2>3, <2>4
<1>5. ASSUME NEW s \in Stream,
             \/ DispatchCallback(s) \/ Barrier(s) \/ PushWait(s) \/ StoreFuture(s) \/ EventDone(s)
             \/ \E e \in Event : Signal(s, e) \/ Wait(s, e) \/ SynchronizeEvent(s, e)
      PROVE  Room'
  <2>1. left' = left /\ lost' = lost
    BY <1>5 DEF DispatchCallback, Barrier, PushWait, StoreFuture, EventDone, Signal, Wait,
       SynchronizeEvent, PushTask
  <2>2. pc'[s] # "dispatch" /\ \A r \in Stream : r # s => pc'[r] = pc[r]
    BY <1>0, <1>5 DEF DispatchCallback, Barrier, PushWait, StoreFuture, EventDone, Signal, Wait,
       SynchronizeEvent, Goes
  <2>3. CASE DispatchCallback(s)
    <3>1. /\ pc'[s] = "barrier" /\ Len(task[s]) + 2 <= MaxTasks
      BY <1>0, <2>3 DEF DispatchCallback, CanCall, Goes
    <3>2. Len(task'[s]) = Len(task[s]) + 1 /\ \A r \in Stream : r # s => task'[r] = task[r]
      BY <1>3, <2>3 DEF DispatchCallback
    <3>3. Paid(s)
      BY <1>0, <2>2, <3>1, <3>2 DEF Paid, Owed
    <3> QED
      BY <1>0, <1>1, <2>1, <2>2, <3>3
  <2>4. CASE Barrier(s)
    <3>1. pc[s] = "barrier" /\ pc'[s] = "idle"
      BY <1>0, <2>4 DEF Barrier, Goes
    <3>2. Len(task'[s]) = Len(task[s]) + 1 /\ \A r \in Stream : r # s => task'[r] = task[r]
      BY <1>3, <2>4 DEF Barrier
    <3>3. Paid(s)
      BY <1>0, <2>2, <3>1, <3>2 DEF Paid, Owed
    <3> QED
      BY <1>0, <1>1, <2>1, <2>2, <3>3
  <2>5. CASE PushWait(s)
    <3>1. pc[s] = "wait" /\ pc'[s] = "barrier"
      BY <1>0, <2>5 DEF PushWait, Goes
    <3>2. Len(task'[s]) = Len(task[s]) + 1 /\ \A r \in Stream : r # s => task'[r] = task[r]
      BY <1>3, <2>5 DEF PushWait
    <3>3. Paid(s)
      BY <1>0, <2>2, <3>1, <3>2 DEF Paid, Owed
    <3> QED
      BY <1>0, <1>1, <2>1, <2>2, <3>3
  <2>6. CASE StoreFuture(s) \/ EventDone(s) \/ \E e \in Event : SynchronizeEvent(s, e)
    <3>1. pc'[s] \in {"idle", "block"} /\ task' = task
      BY <1>0, <2>6 DEF StoreFuture, EventDone, SynchronizeEvent, Goes, pools
    <3>2. Paid(s)
      BY <2>2, <3>1 DEF Paid, Owed
    <3> QED
      BY <1>0, <1>1, <2>1, <2>2, <3>2
  <2>7. ASSUME NEW e \in Event, Signal(s, e) PROVE Room'
    <3>1. /\ pc'[s] = "store" /\ Len(task[s]) + 1 <= MaxTasks
      BY <1>0, <2>7 DEF Signal, CanCall, Goes
    <3>2. Len(task'[s]) = Len(task[s]) + 1 /\ \A r \in Stream : r # s => task'[r] = task[r]
      BY <1>3, <2>7 DEF Signal
    <3>3. Paid(s)
      BY <1>0, <2>2, <3>1, <3>2 DEF Paid, Owed
    <3> QED
      BY <1>0, <1>1, <2>1, <2>2, <3>3
  <2>8. ASSUME NEW e \in Event, Wait(s, e) PROVE Room'
    <3>1. /\ pc'[s] = "wait" /\ Len(task[s]) + 2 <= MaxTasks /\ task' = task
      BY <1>0, <2>8 DEF Wait, CanCall, Goes, pools
    <3>2. Paid(s)
      BY <2>2, <3>1 DEF Paid, Owed
    <3> QED
      BY <1>0, <1>1, <2>1, <2>2, <3>2
  <2> QED
    BY <1>5, <2>3, <2>4, <2>5, <2>6, <2>7, <2>8
<1>6. ASSUME NEW s \in Stream, NEW j, BeginTask(s, j) \/ EndTask(s, j) \/ WaitOnNothing(s, j) PROVE Room'
  <2>1. task' = task /\ pc' = pc /\ left' = left /\ lost' \in {lost, TRUE}
    BY <1>6 DEF BeginTask, EndTask, WaitOnNothing, hosts
  <2> QED
    BY <2>1 DEF Room, Owed
<1>7. CASE Over
  BY <1>7 DEF Over, vars, pools, hosts, Room, Owed
<1> QED
  BY <1>2, <1>4, <1>5, <1>6, <1>7 DEF Next, Call, Continue, Run

LEMMA RoomAlways == Spec => []Room
<1>1. Init => Room
  <2> SUFFICES ASSUME Init PROVE Room
    OBVIOUS
  <2>1. \A s \in Stream : pc[s] = "idle" /\ Len(task[s]) = 0
    BY DEF Init
  <2>2. left \in [Stream -> 0..MaxTasks]
    <3>1. 0 \in 0..MaxTasks /\ left = [s \in Stream |-> 0]
      BY SizesAssumption DEF Init
    <3> QED
      BY <3>1
  <2>3. lost \in BOOLEAN
    BY Zenon DEF Init
  <2> QED
    BY <2>1, <2>2, <2>3, SizesAssumption DEF Room, Owed
<1>2. IInv /\ Room /\ [Next]_vars => Room'
  <2>1. CASE UNCHANGED vars
    BY <2>1 DEF vars, pools, hosts, Room, Owed
  <2> QED
    BY <2>1, RoomKept DEF IInv, Pools
<1> QED
  BY StreamsConsistent, <1>1, <1>2, PTL DEF Spec

\* Every variable stays in its type: the futures that events, hosts and tasks hold
\* name tasks that were pushed, and no call pushes more than there is room for.
THEOREM TypeCorrect == Spec => []TypeOK
<1>1. IInv /\ Room => TypeOK
  <2> SUFFICES ASSUME IInv, Room PROVE TypeOK
    OBVIOUS
  <2>1. Typed /\ TasksRun /\ TaskFuturesValid /\ FuturesValid
    BY DEF IInv, Pools
  <2>2. ASSUME NEW fut \in Futures, Valid(fut) PROVE fut \in Future
    <3>1. CASE fut = NoFuture
      BY <3>1 DEF Future
    <3>2. CASE fut # NoFuture
      <4>1. fut[1] \in Stream /\ fut[2] \in DOMAIN task[fut[1]]
        BY <2>2, <3>2 DEF Valid
      <4>2. Len(task[fut[1]]) \in Nat /\ Len(task[fut[1]]) <= MaxTasks /\ DOMAIN task[fut[1]] = 1..Len(task[fut[1]])
        <5>1. Owed(fut[1]) \in Nat
          BY <4>1 DEF Owed, Room
        <5> QED
          BY <2>1, <4>1, <5>1, TaskDomain, SizesAssumption DEF Room
      <4>3. fut[2] \in 1..MaxTasks
        BY <4>1, <4>2, SizesAssumption
      <4> QED
        BY <2>2, <3>2, <4>1, <4>3 DEF Futures, Future
    <3> QED
      BY <3>1, <3>2
  <2>3. \A s \in Stream : \A j \in DOMAIN task[s] :
          task[s][j] \in TaskRecord /\ task[s][j].kind \in TaskKind /\ task[s][j].future \in Future
    <3>1. \A s \in Stream : \A j \in DOMAIN task[s] : task[s][j] \in TaskRecord
      BY <2>1 DEF Typed
    <3> QED
      BY <2>1, <2>2, <3>1 DEF TaskRecord, TaskFuturesValid
  <2>4. future \in [Event -> Future]
    BY <2>1, <2>2 DEF Typed, FuturesValid
  <2> QED
    BY <2>1, <2>3, <2>4 DEF TypeOK, TasksRun, Typed, Control, Room
<1> QED
  BY StreamsConsistent, RoomAlways, <1>1, PTL

-----------------------------------------------------------------------------
(***************************************************************************)
(* No circular waits: a future stands for a task of the past, in whatever  *)
(* order the streams signal and wait.                                      *)
(***************************************************************************)
TaskMayBegin(s, j) ==
  /\ task[s][j].kind # "fence" /\ j \notin running[s]
  /\ Pool(s)!MayBegin(Kinds(s), finished[s], j)

TaskMayEnd(s, j) ==
  /\ j \in running[s] \ finished[s]
  /\ task[s][j].kind = "wait" => task[s][j].future = NoFuture \/ Ready(task[s][j].future)

HostMayGoOn(s) ==
  \/ pc[s] = "dispatch" /\ left[s] > 0 /\ TaskCount(s) < Limit
  \/ pc[s] \in {"barrier", "store", "wait"}
  \/ pc[s] = "block" /\ Ready(held[s].future)

\* When no pool can go on, every task has ended and no host is held back: not by
\* the limit on the tasks, nor by an event it waits for.
NeverStuck ==
  (\A s \in Stream : \A j \in DOMAIN task[s] : ~TaskMayBegin(s, j) /\ ~TaskMayEnd(s, j)) =>
     \A s \in Stream :
       /\ \A j \in DOMAIN task[s] : task[s][j].kind # "fence" => j \in finished[s]
       /\ pc[s] = "idle" \/ HostMayGoOn(s)

\* f numbers the tasks, below n, in the order in which the hosts pushed them.
NumberedBy(f, n) ==
  \A s \in Stream : \A j \in DOMAIN task[s] :
    /\ f[<<s, j>>] < n
    /\ \A i \in DOMAIN task[s] : i < j => f[<<s, i>>] < f[<<s, j>>]
    /\ task[s][j].future # NoFuture => f[task[s][j].future] < f[<<s, j>>]
TasksNumbered == \E f \in [Stream \X Nat -> Nat], n \in Nat : NumberedBy(f, n)

BlockedOnTask == \A s \in Stream : pc[s] = "block" => held[s].future # NoFuture

\* A future that stands for a signal is a stream and a place in it.
LEMMA FuturePlace ==
  ASSUME Typed, NEW fut \in Futures, fut # NoFuture, Valid(fut)
  PROVE  /\ fut \in Stream \X Nat /\ fut = <<fut[1], fut[2]>>
         /\ fut[1] \in Stream /\ fut[2] \in DOMAIN task[fut[1]] /\ fut[2] \in Nat
         /\ task[fut[1]][fut[2]].kind = "signal"
BY DEF Futures, Valid

LEMMA PushNumbers ==
  ASSUME IInv, TasksNumbered, NEW s \in Stream, NEW t \in TaskRecord, PushTask(s, t), Valid(t.future)
  PROVE  TasksNumbered'
<1>1. Typed /\ TaskFuturesValid
  BY DEF IInv, Pools
<1>2. PICK f \in [Stream \X Nat -> Nat], n \in Nat : NumberedBy(f, n)
  BY DEF TasksNumbered
<1>3. PICK p \in Nat : p = Len(task[s]) + 1
  BY <1>1, TaskDomain
<1>4. /\ DOMAIN task'[s] = 1..p /\ task'[s][p] = t
      /\ \A r \in Stream : r # s => task'[r] = task[r]
      /\ \A r \in Stream : \A i \in DOMAIN task[r] : i \in DOMAIN task'[r] /\ task'[r][i] = task[r][i]
  BY <1>1, <1>3, PushEffect
<1>5. \A r \in Stream : DOMAIN task[r] = 1..Len(task[r]) /\ Len(task[r]) \in Nat
  BY <1>1, TaskDomain
<1> DEFINE g == [f EXCEPT ![<<s, p>>] = n]
<1>6. /\ g \in [Stream \X Nat -> Nat] /\ g[<<s, p>>] = n
      /\ \A r \in Stream, i \in Nat : <<r, i>> # <<s, p>> => g[<<r, i>>] = f[<<r, i>>]
      /\ \A r \in Stream, i \in Nat : f[<<r, i>>] \in Nat /\ g[<<r, i>>] \in Nat
  <2>1. \A r \in Stream, i \in Nat : <<r, i>> \in Stream \X Nat
    OBVIOUS
  <2> QED
    BY <2>1
<1> HIDE DEF g
<1>7. ASSUME NEW r \in Stream, NEW i \in DOMAIN task[r]
      PROVE  /\ i \in Nat /\ g[<<r, i>>] = f[<<r, i>>] /\ g[<<r, i>>] < n
             /\ g[<<r, i>>] \in Nat /\ (r = s => i < p)
  <2>1. i \in Nat /\ (r = s => i < p)
    BY <1>3, <1>5
  <2>2. g[<<r, i>>] = f[<<r, i>>] /\ g[<<r, i>>] \in Nat
    BY <1>6, <2>1
  <2>3. f[<<r, i>>] < n
    BY <1>2 DEF NumberedBy
  <2> QED
    BY <2>1, <2>2, <2>3
<1>8. ASSUME NEW r \in Stream, NEW i \in DOMAIN task'[r]
      PROVE  i \in DOMAIN task[r] \/ (r = s /\ i = p)
  <2>1. CASE r = s
    BY <1>3, <1>4, <1>5, <2>1
  <2>2. CASE r # s
    BY <1>4, <2>2
  <2> QED
    BY <2>1, <2>2
<1>9. ASSUME NEW fut \in Futures, fut # NoFuture, Valid(fut)
      PROVE  g[fut] = f[fut] /\ g[fut] < n /\ g[fut] \in Nat
  <2>1. PICK q \in Stream, k \in Nat : k \in DOMAIN task[q] /\ fut = <<q, k>>
    BY <1>1, <1>9, FuturePlace
  <2> QED
    BY <1>7, <2>1
<1>10. ASSUME NEW r \in Stream, NEW j \in DOMAIN task'[r]
       PROVE  /\ g[<<r, j>>] < n + 1
              /\ \A i \in DOMAIN task'[r] : i < j => g[<<r, i>>] < g[<<r, j>>]
              /\ task'[r][j].future # NoFuture => g[task'[r][j].future] < g[<<r, j>>]
  <2>1. CASE j \in DOMAIN task[r]
    <3>1. g[<<r, j>>] < n + 1
      BY <1>7, <2>1
    <3>2. ASSUME NEW i \in DOMAIN task'[r], i < j
          PROVE  g[<<r, i>>] < g[<<r, j>>]
      <4>1. i \in DOMAIN task[r]
        <5>1. j \in Nat /\ (r = s => j < p)
          BY <1>7, <2>1
        <5>2. i \in DOMAIN task[r] \/ (r = s /\ i = p)
          BY <1>8
        <5> QED
          BY <3>2, <5>1, <5>2
      <4>2. f[<<r, i>>] < f[<<r, j>>]
        BY <1>2, <2>1, <3>2, <4>1 DEF NumberedBy
      <4> QED
        BY <1>7, <2>1, <4>1, <4>2
    <3>3. ASSUME task'[r][j].future # NoFuture
          PROVE  g[task'[r][j].future] < g[<<r, j>>]
      <4>1. PICK fut \in Futures : fut = task[r][j].future
        <5>1. task[r][j] \in TaskRecord
          BY <1>1, <2>1 DEF Typed
        <5> QED
          BY <5>1 DEF TaskRecord
      <4>2. fut = task'[r][j].future /\ Valid(fut)
        BY <1>1, <1>4, <2>1, <4>1 DEF TaskFuturesValid
      <4>3. f[fut] < f[<<r, j>>]
        BY <1>2, <2>1, <3>3, <4>1, <4>2 DEF NumberedBy
      <4> QED
        BY <1>7, <1>9, <2>1, <3>3, <4>2, <4>3
    <3> QED
      BY <3>1, <3>2, <3>3
  <2>2. CASE r = s /\ j = p
    <3>1. g[<<r, j>>] = n
      BY <1>6, <2>2
    <3>2. ASSUME NEW i \in DOMAIN task'[r], i < j
          PROVE  g[<<r, i>>] < n
      BY <1>7, <1>8, <2>2, <3>2
    <3>3. task'[r][j] = t /\ t.future \in Futures
      BY <1>4, <2>2 DEF TaskRecord
    <3>4. t.future # NoFuture => g[t.future] < n
      BY <1>9, <3>3
    <3> QED
      BY <3>1, <3>2, <3>3, <3>4
  <2> QED
    BY <1>8, <2>1, <2>2
<1>11. PICK m \in Nat : m = n + 1
  OBVIOUS
<1>12. NumberedBy(g, m)'
  BY <1>10, <1>11 DEF NumberedBy
<1> QED
  BY <1>6, <1>12 DEF TasksNumbered

\* Every step pushes one task, whose future is that of a task pushed before, or
\* none.
LEMMA StepPushes ==
  ASSUME IInv, [Next]_vars
  PROVE  task' = task \/ \E s \in Stream : \E t \in TaskRecord : PushTask(s, t) /\ Valid(t.future)
<1>1. Typed /\ FuturesValid
  BY DEF IInv, Pools
<1>2. ASSUME NEW s \in Stream, NEW kind \in TaskKind, NEW fut \in Futures, NEW about \in SUBSET Event,
             PushTask(s, Task(kind, fut, about)), Valid(fut)
      PROVE  \E t \in TaskRecord : PushTask(s, t) /\ Valid(t.future)
  BY <1>2, TaskIsRecord
<1>3. ASSUME NEW s \in Stream, VisitCommand(s) \/ DispatchCallback(s) \/ Barrier(s)
      PROVE  \E t \in TaskRecord : PushTask(s, t) /\ Valid(t.future)
  <2>1. \E kind \in TaskKind : PushTask(s, Task(kind, NoFuture, {}))
    BY <1>3 DEF VisitCommand, DispatchCallback, Barrier, TaskKind
  <2> QED
    BY <1>2, <2>1, NothingIsHeld
<1>4. ASSUME NEW s \in Stream, NEW e \in Event, Signal(s, e)
      PROVE  \E t \in TaskRecord : PushTask(s, t) /\ Valid(t.future)
  <2>1. PushTask(s, Task("signal", NoFuture, {e})) /\ "signal" \in TaskKind
    BY <1>4 DEF Signal, TaskKind
  <2> QED
    BY <1>2, <2>1, NothingIsHeld
<1>5. ASSUME NEW s \in Stream, PushWait(s)
      PROVE  \E t \in TaskRecord : PushTask(s, t) /\ Valid(t.future)
  <2>1. PushTask(s, Task("wait", held[s].future, held[s].events)) /\ "wait" \in TaskKind
    BY <1>5 DEF PushWait, TaskKind
  <2>2. held[s].future \in Futures /\ held[s].events \in SUBSET Event /\ Valid(held[s].future)
    BY <1>1 DEF Typed, FuturesValid
  <2> QED
    BY <1>2, <2>1, <2>2
<1>6. ASSUME NEW s \in Stream,
             \/ \E n \in ListSizes : Dispatch(s, n)
             \/ \E e \in Event : Wait(s, e) \/ SynchronizeEvent(s, e)
             \/ StoreFuture(s) \/ EventDone(s)
             \/ \E j \in 1..MaxTasks : Run(s, j)
      PROVE  task' = task
  BY <1>6 DEF Dispatch, Wait, SynchronizeEvent, StoreFuture, EventDone, Run, BeginTask, EndTask,
              WaitOnNothing, pools
<1>7. CASE UNCHANGED vars
  BY <1>7 DEF vars, pools
<1> QED
  BY <1>3, <1>4, <1>5, <1>6, <1>7 DEF Next, Over, Call, Continue

LEMMA BlockedKept ==
  ASSUME IInv, BlockedOnTask, [Next]_vars
  PROVE  BlockedOnTask'
<1>1. pc \in [Stream -> Control] /\ held \in [Stream -> [events : SUBSET Event, future : Futures]]
      /\ future \in [Event -> Futures]
  BY DEF IInv, Pools, Typed
<1>2. ASSUME NEW s \in Stream, NEW e \in Event, SynchronizeEvent(s, e)
      PROVE  BlockedOnTask'
  <2>1. Hold(e, future[e]).future # NoFuture
    BY <1>2 DEF SynchronizeEvent, Hold
  <2>2. held'[s] = Hold(e, future[e]) /\ \A r \in Stream : r # s => held'[r] = held[r] /\ pc'[r] = pc[r]
    BY <1>1, <1>2 DEF SynchronizeEvent, Goes
  <2> QED
    BY <2>1, <2>2 DEF BlockedOnTask
<1>3. ASSUME NEW s \in Stream, NEW to \in Control \ {"block"}, Goes(s, to),
             \A r \in Stream : r # s => held'[r] = held[r]
      PROVE  BlockedOnTask'
  BY <1>1, <1>3 DEF Goes, BlockedOnTask
<1>4. ASSUME NEW s \in Stream,
             \/ Call(s) /\ ~(\E e \in Event : SynchronizeEvent(s, e))
             \/ Continue(s)
      PROVE  BlockedOnTask'
  <2>1. \E to \in Control \ {"block"} : Goes(s, to)
    BY <1>4 DEF Call, Continue, Dispatch, DispatchCallback, Signal, Wait, VisitCommand, Barrier,
                StoreFuture, PushWait, EventDone, Control
  <2>2. \A r \in Stream : r # s => held'[r] = held[r]
    BY <1>1, <1>4 DEF Call, Continue, Dispatch, DispatchCallback, Signal, Wait, VisitCommand, Barrier,
                StoreFuture, PushWait, EventDone
  <2> QED
    BY <1>3, <2>1, <2>2
<1>5. ASSUME NEW s \in Stream, NEW j, Run(s, j) PROVE BlockedOnTask'
  BY <1>5 DEF Run, BeginTask, EndTask, WaitOnNothing, hosts, BlockedOnTask
<1>6. CASE UNCHANGED vars
  BY <1>6 DEF vars, hosts, BlockedOnTask
<1> QED
  BY <1>2, <1>4, <1>5, <1>6 DEF Next, Over, Call

PushedInOrder == TasksNumbered /\ BlockedOnTask

LEMMA PushedInOrderInit == Init => PushedInOrder
<1> SUFFICES ASSUME Init PROVE PushedInOrder
  OBVIOUS
<1>1. \A s \in Stream : task[s] = <<>> /\ pc[s] = "idle"
  BY DEF Init
<1>2. PICK f : f = [x \in Stream \X Nat |-> 0]
  OBVIOUS
<1>3. f \in [Stream \X Nat -> Nat] /\ 0 \in Nat
  BY <1>2
<1>4. NumberedBy(f, 0)
  BY <1>1 DEF NumberedBy
<1> QED
  BY <1>1, <1>3, <1>4 DEF PushedInOrder, TasksNumbered, BlockedOnTask

LEMMA PushedInOrderStep ==
  ASSUME IInv, PushedInOrder, [Next]_vars
  PROVE  PushedInOrder'
<1>1. BlockedOnTask'
  BY BlockedKept DEF PushedInOrder
<1>2. CASE task' = task
  <2>1. PICK f \in [Stream \X Nat -> Nat], n \in Nat : NumberedBy(f, n)
    BY DEF PushedInOrder, TasksNumbered
  <2>2. NumberedBy(f, n)'
    BY <1>2, <2>1, Zenon DEF NumberedBy
  <2> QED
    BY <1>1, <2>1, <2>2 DEF PushedInOrder, TasksNumbered
<1>3. CASE \E s \in Stream : \E t \in TaskRecord : PushTask(s, t) /\ Valid(t.future)
  BY <1>1, <1>3, PushNumbers DEF PushedInOrder
<1> QED
  BY <1>2, <1>3, StepPushes

\* A task may begin when all tasks before it have ended.
LEMMA BeginsAfterAll ==
  ASSUME NEW r \in Stream, NEW i,
         \A k \in DOMAIN task[r] : k < i /\ task[r][k].kind # "fence" => k \in finished[r]
  PROVE  Pool(r)!MayBegin(Kinds(r), finished[r], i)
<1> SUFFICES ASSUME NEW k \in DOMAIN Kinds(r), Kinds(r)[k] = "work", Pool(r)!Fenced(Kinds(r), k, i)
             PROVE  k \in finished[r]
  BY DEF Pool!MayBegin
<1>1. k < i
  BY DEF Pool!Fenced
<1>2. k \in DOMAIN task[r] /\ task[r][k].kind # "fence"
  BY DEF Kinds
<1> QED
  BY <1>1, <1>2

Waiting(r, i) == i \in DOMAIN task[r] /\ task[r][i].kind # "fence" /\ i \notin finished[r]

\* Of the tasks that have not ended, the one that was pushed first can go on.
LEMMA SomeTaskGoesOn ==
  ASSUME IInv, TasksNumbered,
         \A s \in Stream : \A j \in DOMAIN task[s] : ~TaskMayBegin(s, j) /\ ~TaskMayEnd(s, j),
         NEW s \in Stream, NEW j \in DOMAIN task[s], task[s][j].kind # "fence"
  PROVE  j \in finished[s]
<1>1. Typed /\ TasksRun /\ TaskFuturesValid
  BY DEF IInv, Pools
<1>2. PICK f \in [Stream \X Nat -> Nat], n \in Nat : NumberedBy(f, n)
  BY DEF TasksNumbered
<1>3. \A r \in Stream : \A i \in DOMAIN task[r] : i \in Nat /\ f[<<r, i>>] \in Nat
  <2>1. \A r \in Stream, i \in Nat : <<r, i>> \in Stream \X Nat
    OBVIOUS
  <2>2. \A r \in Stream : \A i \in DOMAIN task[r] : i \in Nat
    BY <1>1, TaskDomain
  <2> QED
    BY <1>2, <2>1, <2>2
<1> DEFINE Numbers == {k \in Nat : \E r \in Stream : \E i \in DOMAIN task[r] : Waiting(r, i) /\ k = f[<<r, i>>]}
<1>4. SUFFICES ASSUME j \notin finished[s] PROVE FALSE
  OBVIOUS
<1>5. Numbers \in SUBSET Nat /\ Numbers # {}
  <2>1. Waiting(s, j) /\ f[<<s, j>>] \in Nat
    BY <1>3, <1>4 DEF Waiting
  <2>2. \E r \in Stream : \E i \in DOMAIN task[r] : Waiting(r, i) /\ f[<<s, j>>] = f[<<r, i>>]
    BY <2>1
  <2>3. f[<<s, j>>] \in Numbers
    BY <2>1, <2>2, Zenon
  <2> QED
    BY <2>3
<1>6. PICK m \in Numbers : \A k \in Numbers : ~(<<k, m>> \in OpToRel(<, Nat))
  BY <1>5, NatLessThanWellFounded, WFMin
<1>7. PICK r \in Stream, i \in Nat : i \in DOMAIN task[r] /\ Waiting(r, i) /\ m = f[<<r, i>>]
  BY <1>3, <1>6
<1>8. \A q \in Stream : \A k \in DOMAIN task[q] : Waiting(q, k) => ~(f[<<q, k>>] < f[<<r, i>>])
  <2>1. ASSUME NEW q \in Stream, NEW k \in DOMAIN task[q], Waiting(q, k)
        PROVE  f[<<q, k>>] \in Numbers
    <3>1. f[<<q, k>>] \in Nat
      BY <1>3
    <3>2. \E p \in Stream : \E l \in DOMAIN task[p] : Waiting(p, l) /\ f[<<q, k>>] = f[<<p, l>>]
      BY <2>1
    <3> QED
      BY <3>1, <3>2, Zenon
  <2>2. ASSUME NEW k \in Numbers PROVE ~(k < m)
    <3>1. k \in Nat /\ m \in Nat /\ ~(<<k, m>> \in OpToRel(<, Nat))
      BY <1>5, <1>6
    <3> HIDE DEF Numbers
    <3> QED
      BY <3>1 DEF OpToRel
  <2> HIDE DEF Numbers
  <2> QED
    BY <1>7, <2>1, <2>2
<1> HIDE DEF Numbers
<1>9. \A k \in DOMAIN task[r] : k < i /\ task[r][k].kind # "fence" => k \in finished[r]
  <2>1. ASSUME NEW k \in DOMAIN task[r], k < i, task[r][k].kind # "fence", k \notin finished[r]
        PROVE  FALSE
    <3>1. Waiting(r, k)
      BY <2>1 DEF Waiting
    <3>2. f[<<r, k>>] < f[<<r, i>>]
      BY <1>2, <1>7, <2>1 DEF NumberedBy
    <3> QED
      BY <1>8, <3>1, <3>2
  <2> QED
    BY <2>1
<1>10. Pool(r)!MayBegin(Kinds(r), finished[r], i)
  BY <1>9, BeginsAfterAll
<1>11. i \in running[r] \ finished[r]
  BY <1>7, <1>10 DEF TaskMayBegin, Waiting
<1>12. task[r][i].kind = "wait" /\ task[r][i].future # NoFuture /\ ~Ready(task[r][i].future)
  BY <1>7, <1>11 DEF TaskMayEnd
<1>13. PICK fut \in Futures : fut = task[r][i].future /\ Valid(fut)
  <2>1. task[r][i] \in TaskRecord
    BY <1>1, <1>7 DEF Typed
  <2> QED
    BY <1>1, <1>7, <2>1 DEF TaskRecord, TaskFuturesValid
<1>14. PICK q \in Stream, k \in Nat : k \in DOMAIN task[q] /\ fut = <<q, k>> /\ task[q][k].kind = "signal"
  BY <1>1, <1>12, <1>13, FuturePlace
<1>15. k \notin finished[q]
  BY <1>12, <1>13, <1>14 DEF Ready
<1>16. f[<<q, k>>] < f[<<r, i>>]
  BY <1>2, <1>7, <1>12, <1>13, <1>14 DEF NumberedBy
<1>17. Waiting(q, k)
  BY <1>14, <1>15 DEF Waiting
<1> QED
  BY <1>8, <1>14, <1>16, <1>17

\* Streams that signal and wait for each other's events in any order never wait in
\* a circle, the hosts that the limit holds back or that wait for an event included.
THEOREM StreamsGoOn == Spec => []NeverStuck
<1>1. IInv /\ Room /\ PushedInOrder => NeverStuck
  <2> SUFFICES ASSUME IInv, Room, PushedInOrder,
                      \A s \in Stream : \A j \in DOMAIN task[s] : ~TaskMayBegin(s, j) /\ ~TaskMayEnd(s, j),
                      NEW s \in Stream
               PROVE  /\ \A j \in DOMAIN task[s] : task[s][j].kind # "fence" => j \in finished[s]
                      /\ pc[s] = "idle" \/ HostMayGoOn(s)
    BY DEF NeverStuck
  <2>1. \A r \in Stream : \A j \in DOMAIN task[r] : task[r][j].kind # "fence" => j \in finished[r]
    BY SomeTaskGoesOn DEF PushedInOrder
  <2>2. Typed /\ FuturesValid
    BY DEF IInv, Pools
  <2>3. TaskCount(s) < Limit
    <3>1. {j \in DOMAIN task[s] : task[s][j].kind # "fence"} \ finished[s] = {}
      BY <2>1
    <3>2. TaskCount(s) = 0
      BY <3>1, FS_EmptySet DEF TaskCount
    <3> QED
      BY <3>2, LimitAssumption
  <2>4. pc[s] = "dispatch" => left[s] > 0
    BY SizesAssumption DEF Room
  <2>5. pc[s] = "block" => Ready(held[s].future)
    <3> SUFFICES ASSUME pc[s] = "block" PROVE Ready(held[s].future)
      OBVIOUS
    <3>1. held[s].future \in Futures /\ held[s].future # NoFuture /\ Valid(held[s].future)
      BY <2>2 DEF Typed, FuturesValid, PushedInOrder, BlockedOnTask
    <3>2. PICK q \in Stream, k \in Nat : k \in DOMAIN task[q] /\ held[s].future = <<q, k>> /\ task[q][k].kind = "signal"
      BY <2>2, <3>1, FuturePlace
    <3> QED
      BY <2>1, <3>1, <3>2 DEF Ready
  <2>6. pc[s] \in Control
    BY <2>2 DEF Typed
  <2> QED
    BY <2>1, <2>3, <2>4, <2>5, <2>6 DEF HostMayGoOn, Control
<1>2. IInv /\ PushedInOrder /\ [Next]_vars => PushedInOrder'
  BY PushedInOrderStep
<1> QED
  BY <1>1, <1>2, PushedInOrderInit, StreamsConsistent, RoomAlways, PTL DEF Spec

=============================================================================
