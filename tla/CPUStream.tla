------------------------------ MODULE CPUStream ------------------------------
(***************************************************************************)
(* The streams and events of the CPU backends (backends/llvm/llvm_stream,  *)
(* llvm_event; the ispc backend repeats them).  A stream owns a ThreadPool *)
(* that executes what Executor promises; a command list is one task per    *)
(* command followed by a barrier.  An event is a shared future of the      *)
(* empty task that its last signal pushed.                                 *)
(*                                                                         *)
(* Every stream is fed by a host thread of its own.                        *)
(***************************************************************************)
EXTENDS Integers, Sequences, FiniteSets

CONSTANTS
  Stream, Event,
  ListSizes,      \* the sizes of command lists
  Limit,          \* _pool.size() * 4: dispatch waits at so many tasks
  WaitUnsignalled,\* TRUE: a wait may come before the first signal of its event
  MaxTasks        \* bound: tasks and fences pushed to one pool

ASSUME SizesAssumption == ListSizes \subseteq Nat \ {0} /\ MaxTasks \in Nat
ASSUME LimitAssumption == Limit \in Nat \ {0} /\ WaitUnsignalled \in BOOLEAN

VARIABLES
  task,       \* task[s]: the tasks and fences pushed to the pool of s, in order
  running,    \* running[s]: the tasks that have begun
  finished,   \* finished[s]: those that have ended
  future,     \* LLVMEvent::_future of each event
  pc, left,   \* host of s: control, commands left to visit
  held,       \* host of s: the event and the future in hand
  lost        \* std::terminate: a task waited on a future without a state

pools == <<task, running, finished>>
hosts == <<pc, left, held>>
vars  == <<pools, future, hosts, lost>>

\* A default-constructed shared_future; other futures name a stream and a task.
NoFuture == <<>>

\* events: the event that a signal or a wait is about.
Task(kind, fut, about) == [kind |-> kind, future |-> fut, events |-> about]
Kinds(s) == [j \in DOMAIN task[s] |-> IF task[s][j].kind = "fence" THEN "fence" ELSE "work"]

Pool(s) == INSTANCE Executor
             WITH log <- Kinds(s), running <- running[s], finished <- finished[s]

Ready(fut) == fut # NoFuture /\ fut[2] \in finished[fut[1]]

Hold(e, fut) == [events |-> {e}, future |-> fut]
Nothing == [events |-> {}, future |-> NoFuture]

\* task_count() of the pool of s.
TaskCount(s) ==
  Cardinality({j \in DOMAIN task[s] : task[s][j].kind # "fence"} \ finished[s])

Init ==
  /\ task = [s \in Stream |-> <<>>]
  /\ running = [s \in Stream |-> {}] /\ finished = [s \in Stream |-> {}]
  /\ future = [e \in Event |-> NoFuture]
  /\ pc = [s \in Stream |-> "idle"] /\ left = [s \in Stream |-> 0]
  /\ held = [s \in Stream |-> Nothing]
  /\ lost = FALSE

-----------------------------------------------------------------------------
(***************************************************************************)
(* The hosts                                                               *)
(***************************************************************************)
\* Room for what the call will push.
CanCall(s, n) == pc[s] = "idle" /\ Len(task[s]) + n <= MaxTasks

PushTask(s, t) ==
  /\ task' = [task EXCEPT ![s] = Append(@, t)]
  /\ UNCHANGED <<running, finished, lost>>

Goes(s, to) == pc' = [pc EXCEPT ![s] = to]

\* dispatch(cmd_list): before each command the host sleeps while the pool has
\* too many tasks; the barrier follows the last command.
Dispatch(s, n) ==
  /\ CanCall(s, n + 1)
  /\ Goes(s, "dispatch") /\ left' = [left EXCEPT ![s] = n]
  /\ UNCHANGED <<pools, future, held, lost>>

\* Mutant: no barrier after the last command of a list.
VisitCommandNoBarrier(s) ==
  /\ pc[s] = "dispatch" /\ left[s] > 0
  /\ TaskCount(s) < Limit
  /\ PushTask(s, Task("command", NoFuture, {}))
  /\ left' = [left EXCEPT ![s] = @ - 1]
  /\ Goes(s, IF left[s] = 1 THEN "idle" ELSE "dispatch")
  /\ UNCHANGED <<future, held>>

VisitCommand(s) ==
  /\ pc[s] = "dispatch" /\ left[s] > 0
  /\ TaskCount(s) < Limit
  /\ PushTask(s, Task("command", NoFuture, {}))
  /\ left' = [left EXCEPT ![s] = @ - 1]
  /\ Goes(s, IF left[s] = 1 THEN "barrier" ELSE "dispatch")
  /\ UNCHANGED <<future, held>>

\* dispatch(f): the callback is a task followed by a barrier, not throttled.
DispatchCallback(s) ==
  /\ CanCall(s, 2)
  /\ PushTask(s, Task("callback", NoFuture, {})) /\ Goes(s, "barrier")
  /\ UNCHANGED <<future, left, held>>

Barrier(s) ==
  /\ pc[s] = "barrier"
  /\ PushTask(s, Task("fence", NoFuture, {})) /\ Goes(s, "idle")
  /\ UNCHANGED <<future, left, held>>

\* signal: the empty task is pushed, then its future becomes that of the event.
Signal(s, e) ==
  /\ CanCall(s, 1)
  /\ PushTask(s, Task("signal", NoFuture, {e}))
  /\ held' = [held EXCEPT ![s] = Hold(e, NoFuture)] /\ Goes(s, "store")
  /\ UNCHANGED <<future, left>>

\* Mutant: the future of the task after the one that was pushed.
StoreFutureOffByOne(s) ==
  /\ pc[s] = "store"
  /\ future' = [e \in Event |-> IF e \in held[s].events THEN <<s, Len(task[s]) + 1>> ELSE future[e]]
  /\ held' = [held EXCEPT ![s] = Nothing] /\ Goes(s, "idle")
  /\ UNCHANGED <<pools, left, lost>>

StoreFuture(s) ==
  /\ pc[s] = "store"
  /\ future' = [e \in Event |-> IF e \in held[s].events THEN <<s, Len(task[s])>> ELSE future[e]]
  /\ held' = [held EXCEPT ![s] = Nothing] /\ Goes(s, "idle")
  /\ UNCHANGED <<pools, left, lost>>

\* wait: the future the event has now is captured by the task that waits.
Wait(s, e) ==
  /\ CanCall(s, 2)
  /\ WaitUnsignalled \/ future[e] # NoFuture
  /\ held' = [held EXCEPT ![s] = Hold(e, future[e])] /\ Goes(s, "wait")
  /\ UNCHANGED <<pools, future, left, lost>>

\* Mutant: no barrier after the task that waits.
PushWaitNoBarrier(s) ==
  /\ pc[s] = "wait"
  /\ PushTask(s, Task("wait", held[s].future, held[s].events))
  /\ held' = [held EXCEPT ![s] = Nothing] /\ Goes(s, "idle")
  /\ UNCHANGED <<future, left>>

PushWait(s) ==
  /\ pc[s] = "wait"
  /\ PushTask(s, Task("wait", held[s].future, held[s].events))
  /\ held' = [held EXCEPT ![s] = Nothing] /\ Goes(s, "barrier")
  /\ UNCHANGED <<future, left>>

\* synchronize_event: LLVMEvent::wait on the future the event has now.
SynchronizeEvent(s, e) ==
  /\ CanCall(s, 0) /\ future[e] # NoFuture
  /\ held' = [held EXCEPT ![s] = Hold(e, future[e])] /\ Goes(s, "block")
  /\ UNCHANGED <<pools, future, left, lost>>

EventDone(s) ==
  /\ pc[s] = "block" /\ Ready(held[s].future)
  /\ held' = [held EXCEPT ![s] = Nothing] /\ Goes(s, "idle")
  /\ UNCHANGED <<pools, future, left, lost>>

-----------------------------------------------------------------------------
(***************************************************************************)
(* The workers of the pools                                                *)
(***************************************************************************)
BeginTask(s, j) ==
  /\ task[s][j].kind # "fence" /\ j \notin running[s]
  /\ Pool(s)!MayBegin(Kinds(s), finished[s], j)
  /\ running' = [running EXCEPT ![s] = @ \cup {j}]
  /\ UNCHANGED <<task, finished, future, hosts, lost>>

\* Mutant: the task waits on the future the event has when it runs.
EndTaskCurrentFuture(s, j) ==
  /\ j \in running[s] \ finished[s]
  /\ task[s][j].kind = "wait" => \A e \in task[s][j].events : Ready(future[e])
  /\ finished' = [finished EXCEPT ![s] = @ \cup {j}]
  /\ UNCHANGED <<task, running, future, hosts, lost>>

\* A task ends; one that waits ends when the future it captured is ready.
EndTask(s, j) ==
  /\ j \in running[s] \ finished[s]
  /\ task[s][j].kind = "wait" => Ready(task[s][j].future)
  /\ finished' = [finished EXCEPT ![s] = @ \cup {j}]
  /\ UNCHANGED <<task, running, future, hosts, lost>>

\* wait() on a future without a state is undefined: it may return at once or
\* throw through a noexcept function.
WaitOnNothing(s, j) ==
  /\ j \in running[s] \ finished[s]
  /\ task[s][j].kind = "wait" /\ task[s][j].future = NoFuture
  /\ \/ finished' = [finished EXCEPT ![s] = @ \cup {j}] /\ UNCHANGED lost
     \/ lost' = TRUE /\ UNCHANGED finished
  /\ UNCHANGED <<task, running, future, hosts>>

-----------------------------------------------------------------------------
Call(s) ==
  \/ \E n \in ListSizes : Dispatch(s, n)
  \/ DispatchCallback(s)
  \/ \E e \in Event : Signal(s, e) \/ Wait(s, e) \/ SynchronizeEvent(s, e)

Continue(s) ==
  VisitCommand(s) \/ Barrier(s) \/ StoreFuture(s) \/ PushWait(s) \/ EventDone(s)

Run(s, j) == j \in DOMAIN task[s] /\ (BeginTask(s, j) \/ EndTask(s, j) \/ WaitOnNothing(s, j))

\* The process was terminated, or everything that was asked for is done.
Over ==
  /\ lost \/ \A s \in Stream : pc[s] = "idle" /\ TaskCount(s) = 0
  /\ UNCHANGED vars

Next ==
  \/ ~lost /\ \E s \in Stream : Call(s) \/ Continue(s) \/ \E j \in 1..MaxTasks : Run(s, j)
  \/ Over

\* Hosts finish the calls they are in and the pools run their tasks
\* (EverythingEnds of ThreadPool); nobody has to call anything.
Spec ==
  /\ Init /\ [][Next]_vars
  /\ \A s \in Stream : /\ WF_vars(Continue(s))
                       /\ \A j \in 1..MaxTasks : WF_vars(Run(s, j))

-----------------------------------------------------------------------------
TaskKind == {"command", "callback", "signal", "wait", "fence"}
Future == {NoFuture} \cup (Stream \X (1..MaxTasks))

TypeOK ==
  /\ \A s \in Stream : \A j \in DOMAIN task[s] :
        task[s][j].kind \in TaskKind /\ task[s][j].future \in Future
  /\ \A s \in Stream : finished[s] \subseteq running[s] /\ running[s] \subseteq DOMAIN task[s]
  /\ future \in [Event -> Future]
  /\ pc \in [Stream -> {"idle", "dispatch", "barrier", "store", "wait", "block"}]
  /\ left \in [Stream -> 0..MaxTasks]
  /\ lost \in BOOLEAN

\* The work before the signal that a future stands for has ended, and so have the
\* waits before it, with what they waited for.
EndedBefore(fut) ==
  \A i \in 1..fut[2] :
    task[fut[1]][i].kind \in {"command", "callback", "wait"} => i \in finished[fut[1]]

\* What a stream runs after a wait begins only when everything that preceded
\* the signal in the other stream has ended: lists, callbacks and waits of the
\* other stream included, and however often the event was signalled since.  (Not
\* after a wait for a future without a state, WaitUnsignalled.)
WaitOrdersStreams ==
  \A s \in Stream : \A w, j \in DOMAIN task[s] :
    (task[s][w].kind = "wait" /\ task[s][w].future # NoFuture /\ w < j /\ j \in running[s])
       => EndedBefore(task[s][w].future)

\* event.synchronize() returns when everything before the signal has ended, the
\* waits of its stream included.
EventCoversCommands ==
  [][\A s \in Stream : (pc[s] = "block" /\ pc'[s] = "idle") => EndedBefore(held[s].future)]_vars

\* Every task that was pushed ends, and every call of a host returns.
TasksEnd ==
  \A s \in Stream : \A j \in 1..MaxTasks :
    (j \in DOMAIN task[s] /\ task[s][j].kind # "fence") ~> (j \in finished[s])
CallsReturn == \A s \in Stream : (pc[s] # "idle") ~> (pc[s] = "idle")

\* Streams that wait for each other's events never wait in a circle, the hosts
\* that the task limit holds back included.
EverythingEnds == TasksEnd /\ CallsReturn

=============================================================================
