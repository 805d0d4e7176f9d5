------------------------------ MODULE DXQueue ------------------------------
(***************************************************************************)
(* The streams and events of the DirectX backend                           *)
(* (backends/dx/DXRuntime/CommandQueue, Api/LCEvent, Api/LCCmdBuffer).      *)
(* Every stream has a host that submits, a D3D12 queue that executes, and  *)
(* an execution thread that waits for fences, runs the callbacks of a list *)
(* that is done and gives its allocator back to the pool.                  *)
(***************************************************************************)
EXTENDS Naturals, Sequences, FiniteSets

CONSTANTS Streams, Events,
          Signals,       \* the pairs <<stream, event>> a program signals
          MaxAllocators, \* maxAllocatorCount of the device
          Workloads      \* bound: how many calls a program makes on each stream

ASSUME DXQueueAssumption ==
    /\ Streams # {} /\ Signals \subseteq Streams \X Events
    /\ MaxAllocators \in Nat \ {0} /\ Workloads \subseteq [Streams -> Nat]

VARIABLES
    host,      \* what the host is doing with a stream
    todo,      \* executedAllocators: what the execution thread has to finish
    thread,    \* what the execution thread is doing
    pool,      \* allocatorPool
    made,      \* allocators created so far
    enabled,
    lastFrame, executedFrame, lastFence,
    gpu,       \* what the D3D12 queue has to execute
    cmdFence,  \* completed value of the fence of a queue
    fence,     \* completed value of the fence of an event
    fenceIndex, finishedEvent,
    left,      \* calls still to be made on each stream
    submitted, \* history: lists and functions submitted to a stream
    ran,       \* history: those of them whose callbacks have run
    signal     \* history: the last signal of an event: its stream and what was submitted before it

hostVars   == <<host, lastFrame, lastFence, submitted, left>>
threadVars == <<thread, executedFrame, pool, ran, finishedEvent>>
gpuVars    == <<gpu, cmdFence, fence>>
queueVars == <<hostVars, threadVars, gpuVars, todo, made, enabled, fenceIndex, signal>>

Ready == [at |-> "ready"]
NoSignal == [stream |-> CHOOSE s \in Streams : TRUE, frame |-> 0, ticket |-> 0]

QueueInit ==
    /\ host = [s \in Streams |-> Ready]
    /\ todo = [s \in Streams |-> <<>>]
    /\ thread = [s \in Streams |-> [at |-> "pop"]]
    /\ pool = [s \in Streams |-> <<>>]
    /\ made = [s \in Streams |-> 0]
    /\ enabled = [s \in Streams |-> TRUE]
    /\ lastFrame = [s \in Streams |-> 0]
    /\ executedFrame = [s \in Streams |-> 0]
    /\ lastFence = [s \in Streams |-> 0]
    /\ gpu = [s \in Streams |-> <<>>]
    /\ cmdFence = [s \in Streams |-> 0]
    /\ fence = [e \in Events |-> 0]
    /\ fenceIndex = [e \in Events |-> 1]
    /\ finishedEvent = [e \in Events |-> 1]
    /\ left \in Workloads
    /\ submitted = [s \in Streams |-> 0]
    /\ ran = [s \in Streams |-> {}]
    /\ signal = [e \in Events |-> NoSignal]

-----------------------------------------------------------------------------
\* The host. Every push to the execution thread is followed by an empty
\* critical section and notify_one (the step Notify).

Push(s, entry) == todo' = [todo EXCEPT ![s] = Append(@, entry)]
Queue(s, item) == gpu' = [gpu EXCEPT ![s] = Append(@, item)]
Goto(s, to)    == host' = [host EXCEPT ![s] = to]

Call(s) ==
    /\ host[s] = Ready /\ left[s] > 0
    /\ left' = [left EXCEPT ![s] = @ - 1]

MustThrottle(s) == lastFrame[s] - executedFrame[s] > MaxAllocators

BeginExecute(s) ==
    /\ Call(s)
    /\ Goto(s, [at |-> "create"])
    /\ UNCHANGED <<threadVars, gpuVars, todo, made, enabled, lastFrame, lastFence,
                   submitted, fenceIndex, signal>>

CreateAllocator(s) ==
    /\ host[s].at = "create" /\ ~MustThrottle(s)
    /\ \/ /\ pool[s] # <<>>
          /\ Goto(s, [at |-> "encode", alloc |-> Head(pool[s])])
          /\ pool' = [pool EXCEPT ![s] = Tail(@)]
          /\ UNCHANGED made
       \/ /\ pool[s] = <<>>
          /\ made' = [made EXCEPT ![s] = @ + 1]
          /\ Goto(s, [at |-> "encode", alloc |-> made'[s]])
          /\ UNCHANGED pool
    /\ UNCHANGED <<thread, executedFrame, ran, finishedEvent, gpuVars, todo, enabled,
                   lastFrame, lastFence, submitted, left, fenceIndex, signal>>

NewFrame(s) ==
    /\ lastFrame' = [lastFrame EXCEPT ![s] = @ + 1]
    /\ submitted' = [submitted EXCEPT ![s] = @ + 1]
    /\ Queue(s, [op |-> "list", frame |-> lastFrame[s] + 1, alloc |-> host[s].alloc,
                 ticket |-> submitted[s] + 1])

Execute(s) ==
    /\ host[s].at = "encode"
    /\ NewFrame(s)
    /\ Push(s, [kind |-> "list", frame |-> lastFrame[s] + 1, alloc |-> host[s].alloc,
                ticket |-> submitted[s] + 1])
    /\ lastFence' = [lastFence EXCEPT ![s] = lastFrame[s] + 1]
    /\ Goto(s, [at |-> "notify"])
    /\ UNCHANGED <<threadVars, made, enabled, cmdFence, fence, left, fenceIndex, signal>>

\* Mutant: the list is forced without Complete().
ThreadMayLag(s) == TRUE

\* Complete() without a fence: the queue to the thread is empty.
ThreadHasAll(s) == todo[s] = <<>>

\* The compaction of meshes interrupts Execute: Complete() waits for the queue
\* to the thread to be empty, then the list is executed and waited for here.
ForceSync(s) ==
    /\ host[s].at = "encode" /\ left[s] > 0
    /\ ThreadHasAll(s)
    /\ NewFrame(s)
    /\ left' = [left EXCEPT ![s] = @ - 1]
    /\ Goto(s, [at |-> "force", alloc |-> host[s].alloc])
    /\ UNCHANGED <<threadVars, todo, made, enabled, lastFence, cmdFence, fence,
                   fenceIndex, signal>>

\* Mutant: the thread does not wait for the fence of the queue.
FrameDoneAlways(s, frame) == TRUE

\* WaitFence
FrameDone(s, frame) == cmdFence[s] >= frame

EndForceSync(s) ==
    /\ host[s].at = "force" /\ FrameDone(s, lastFrame[s])
    /\ ran' = [ran EXCEPT ![s] = @ \cup {submitted[s]}]
    /\ executedFrame' = [executedFrame EXCEPT ![s] = lastFrame[s]]
    /\ Goto(s, [at |-> "encode", alloc |-> host[s].alloc])
    /\ UNCHANGED <<thread, pool, finishedEvent, gpuVars, todo, made, enabled, lastFrame,
                   lastFence, submitted, left, fenceIndex, signal>>

Callback(s) ==
    /\ Call(s)
    /\ submitted' = [submitted EXCEPT ![s] = @ + 1]
    /\ Push(s, [kind |-> "function", ticket |-> submitted[s] + 1])
    /\ Goto(s, [at |-> "notify"])
    /\ UNCHANGED <<threadVars, gpuVars, made, enabled, lastFrame, lastFence, fenceIndex, signal>>

Signal(s, e) ==
    /\ Call(s)
    /\ fenceIndex' = [fenceIndex EXCEPT ![e] = @ + 1]
    /\ Queue(s, [op |-> "signal", event |-> e, value |-> fenceIndex[e] + 1])
    /\ Push(s, [kind |-> "event", event |-> e, value |-> fenceIndex[e] + 1])
    /\ signal' = [signal EXCEPT ![e] = [stream |-> s, frame |-> lastFrame[s],
                                         ticket |-> submitted[s]]]
    /\ Goto(s, [at |-> "notify"])
    /\ UNCHANGED <<threadVars, made, enabled, lastFrame, lastFence, submitted, cmdFence,
                   fence>>

\* A wait is for the last signal that a host has made when it is queued.
WaitedValue(e) == fenceIndex[e]

Wait(s, e) ==
    /\ Call(s)
    /\ Queue(s, [op |-> "wait", event |-> e, value |-> WaitedValue(e), after |-> signal[e]])
    /\ UNCHANGED <<host, threadVars, todo, made, enabled, lastFrame, lastFence, submitted,
                   cmdFence, fence, fenceIndex, signal>>

\* Mutant: the critical section before notify_one is left out.
MutexFreeAlways(s) == TRUE

\* mtx is free: the thread is not between its test of the queue and its sleep.
MutexFree(s) == thread[s].at # "tosleep"

Woken(s) == IF thread[s].at = "asleep" THEN [thread EXCEPT ![s] = [at |-> "check"]] ELSE thread

Notify(s) ==
    /\ host[s].at = "notify" /\ MutexFree(s)
    /\ thread' = Woken(s)
    /\ Goto(s, Ready)
    /\ UNCHANGED <<executedFrame, pool, ran, finishedEvent, gpuVars, todo, made, enabled,
                   lastFrame, lastFence, submitted, left, fenceIndex, signal>>

\* LCCmdBuffer::Sync and LCEvent::Sync: both poll, so no wakeup can be lost.
BeginSync(s) ==
    /\ Call(s)
    /\ \/ Goto(s, [at |-> "sync"])
       \/ \E e \in Events : Goto(s, [at |-> "event", event |-> e])
    /\ UNCHANGED <<threadVars, gpuVars, todo, made, enabled, lastFrame, lastFence, submitted,
                   fenceIndex, signal>>

\* Mutant: an event is waited for up to the signal before the last.
ReachedBefore(s) ==
    \/ host[s].at = "sync" /\ executedFrame[s] >= lastFence[s]
    \/ host[s].at = "event" /\ finishedEvent[host[s].event] + 1 >= fenceIndex[host[s].event]

Reached(s) ==
    \/ host[s].at = "sync" /\ executedFrame[s] >= lastFence[s]
    \/ host[s].at = "event" /\ finishedEvent[host[s].event] >= fenceIndex[host[s].event]

EndSync(s) ==
    /\ Reached(s)
    /\ Goto(s, Ready)
    /\ UNCHANGED <<threadVars, gpuVars, todo, made, enabled, lastFrame, lastFence, submitted,
                   left, fenceIndex, signal>>

\* ~CommandQueue. What is still in the queue to the thread may be dropped.
Destroy(s) ==
    /\ Call(s) /\ MutexFree(s)
    /\ enabled' = [enabled EXCEPT ![s] = FALSE]
    /\ Goto(s, [at |-> "stop"])
    /\ UNCHANGED <<threadVars, gpuVars, todo, made, lastFrame, lastFence, submitted,
                   fenceIndex, signal>>

NotifyStop(s) ==
    /\ host[s].at = "stop"
    /\ thread' = Woken(s)
    /\ Goto(s, [at |-> "join"])
    /\ UNCHANGED <<executedFrame, pool, ran, finishedEvent, gpuVars, todo, made, enabled,
                   lastFrame, lastFence, submitted, left, fenceIndex, signal>>

Join(s) ==
    /\ host[s].at = "join" /\ thread[s].at = "gone"
    /\ Goto(s, [at |-> "gone"])
    /\ UNCHANGED <<threadVars, gpuVars, todo, made, enabled, lastFrame, lastFence, submitted,
                   left, fenceIndex, signal>>

-----------------------------------------------------------------------------
\* The execution thread.

Pop(s) ==
    /\ thread[s].at = "pop" /\ todo[s] # <<>>
    /\ todo' = [todo EXCEPT ![s] = Tail(@)]
    /\ thread' = [thread EXCEPT ![s] = [at |-> "visit", entry |-> Head(todo[s])]]
    /\ UNCHANGED <<executedFrame, pool, ran, finishedEvent, hostVars, gpuVars, made, enabled,
                   fenceIndex, signal>>

\* Wait for the fence, run the callbacks, reset the allocator and pool it.
CompleteList(s) ==
    /\ thread[s].at = "visit" /\ thread[s].entry.kind = "list"
    /\ FrameDone(s, thread[s].entry.frame)
    /\ ran' = [ran EXCEPT ![s] = @ \cup {thread[s].entry.ticket}]
    /\ pool' = [pool EXCEPT ![s] = Append(@, thread[s].entry.alloc)]
    /\ thread' = [thread EXCEPT ![s] = [at |-> "publish", frame |-> thread[s].entry.frame]]
    /\ UNCHANGED <<executedFrame, finishedEvent, hostVars, gpuVars, todo, made, enabled,
                   fenceIndex, signal>>

Publish(s) ==
    /\ thread[s].at = "publish"
    /\ executedFrame' = [executedFrame EXCEPT ![s] = thread[s].frame]
    /\ thread' = [thread EXCEPT ![s] = [at |-> "pop"]]
    /\ UNCHANGED <<pool, ran, finishedEvent, hostVars, gpuVars, todo, made, enabled,
                   fenceIndex, signal>>

RunFunction(s) ==
    /\ thread[s].at = "visit" /\ thread[s].entry.kind = "function"
    /\ ran' = [ran EXCEPT ![s] = @ \cup {thread[s].entry.ticket}]
    /\ thread' = [thread EXCEPT ![s] = [at |-> "pop"]]
    /\ UNCHANGED <<executedFrame, pool, finishedEvent, hostVars, gpuVars, todo, made, enabled,
                   fenceIndex, signal>>

ExecuteEvent(s) ==
    /\ thread[s].at = "visit" /\ thread[s].entry.kind = "event"
    /\ LET e == thread[s].entry.event IN
         /\ fence[e] >= thread[s].entry.value
         /\ finishedEvent' = [finishedEvent EXCEPT ![e] = thread[s].entry.value]
    /\ thread' = [thread EXCEPT ![s] = [at |-> "pop"]]
    /\ UNCHANGED <<executedFrame, pool, ran, hostVars, gpuVars, todo, made, enabled,
                   fenceIndex, signal>>

\* The queue is drained: sleep, go on or leave. The test and the sleep hold mtx.
Drained(s) ==
    /\ \/ thread[s].at = "pop" /\ todo[s] = <<>>
       \/ thread[s].at = "check"
    /\ thread' = [thread EXCEPT ![s] =
                    IF enabled[s] /\ todo[s] = <<>> THEN [at |-> "tosleep"]
                    ELSE IF enabled[s] THEN [at |-> "pop"] ELSE [at |-> "gone"]]
    /\ UNCHANGED <<executedFrame, pool, ran, finishedEvent, hostVars, gpuVars, todo, made,
                   enabled, fenceIndex, signal>>

FallAsleep(s) ==
    /\ thread[s].at = "tosleep"
    /\ thread' = [thread EXCEPT ![s] = [at |-> "asleep"]]
    /\ UNCHANGED <<executedFrame, pool, ran, finishedEvent, hostVars, gpuVars, todo, made,
                   enabled, fenceIndex, signal>>

-----------------------------------------------------------------------------
\* The D3D12 queue executes in order. A signal sets the fence to its value.

MayPass(s) == gpu[s][1].op = "wait" => fence[gpu[s][1].event] >= gpu[s][1].value

Gpu(s) ==
    /\ gpu[s] # <<>> /\ MayPass(s)
    /\ gpu' = [gpu EXCEPT ![s] = Tail(@)]
    /\ LET item == Head(gpu[s]) IN
         /\ cmdFence' = IF item.op = "list" THEN [cmdFence EXCEPT ![s] = item.frame] ELSE cmdFence
         /\ fence' = IF item.op = "signal" THEN [fence EXCEPT ![item.event] = item.value] ELSE fence
    /\ UNCHANGED <<hostVars, threadVars, todo, made, enabled, fenceIndex, signal>>

-----------------------------------------------------------------------------
HostCall(s) ==
    \/ BeginExecute(s) \/ Callback(s) \/ BeginSync(s) \/ Destroy(s)
    \/ \E e \in Events : (<<s, e>> \in Signals /\ Signal(s, e)) \/ Wait(s, e)
HostStep(s) ==
    \/ CreateAllocator(s) \/ Execute(s) \/ EndForceSync(s) \/ Notify(s)
    \/ EndSync(s) \/ NotifyStop(s) \/ Join(s)
ThreadStep(s) ==
    \/ Pop(s) \/ CompleteList(s) \/ Publish(s) \/ RunFunction(s) \/ ExecuteEvent(s)
    \/ Drained(s) \/ FallAsleep(s)

QueueNext == \E s \in Streams : HostCall(s) \/ ForceSync(s) \/ HostStep(s) \/ ThreadStep(s) \/ Gpu(s)

\* A call that has begun goes on, the thread runs, and the device executes.
QueueFairness == \A s \in Streams :
    /\ WF_queueVars(HostStep(s)) /\ WF_queueVars(ThreadStep(s)) /\ WF_queueVars(Gpu(s))

QueueSpec == QueueInit /\ [][QueueNext]_queueVars
QueueFairSpec == QueueSpec /\ QueueFairness

-----------------------------------------------------------------------------
Entry == [kind : {"list"}, frame : Nat, alloc : Nat, ticket : Nat]
         \cup [kind : {"function"}, ticket : Nat]
         \cup [kind : {"event"}, event : Events, value : Nat]

\* Type invariant: no frame is reported done that was not begun.
QueueTypeOK ==
    /\ \A s \in Streams :
         /\ host[s].at \in {"ready", "create", "encode", "force", "notify", "sync", "event",
                            "stop", "join", "gone"}
         /\ thread[s].at \in {"pop", "visit", "publish", "check", "tosleep", "asleep", "gone"}
         /\ \A i \in DOMAIN todo[s] : todo[s][i] \in Entry
         /\ executedFrame[s] \in 0 .. lastFrame[s] /\ cmdFence[s] \in 0 .. lastFrame[s]
         /\ lastFence[s] \in 0 .. lastFrame[s] /\ ran[s] \subseteq 1 .. submitted[s]
    /\ \A e \in Events : finishedEvent[e] \in 1 .. fenceIndex[e] /\ fence[e] \in 0 .. fenceIndex[e]

\* The throttle of CreateAllocator bounds the command allocators a stream ever
\* has, although ForceSync may report a frame done before an earlier one.
AllocatorsBounded == \A s \in Streams : made[s] <= MaxAllocators + 2

\* An allocator in the pool is there once, and no list it recorded is still to
\* be executed: its memory is reset and handed to the next list.
PooledAllocatorsIdle ==
    \A s \in Streams : \A i \in DOMAIN pool[s] :
        /\ \A j \in DOMAIN pool[s] : pool[s][j] = pool[s][i] => j = i
        /\ \A j \in DOMAIN gpu[s] : gpu[s][j].op = "list" => gpu[s][j].alloc # pool[s][i]

\* The callbacks of a stream run in the order of submission but for one: a list
\* that ForceSync completes may overtake the one entry the thread has in hand.
OnlyOneOvertaken ==
    \A s \in Streams : \A t \in ran[s] : Cardinality(1 .. t - 1 \ ran[s]) <= 1

\* The command allocators of a stream are bounded and are not reused while the
\* device may still execute what was recorded in them.
AllocatorsReused == AllocatorsBounded /\ PooledAllocatorsIdle

\* Functions that wait in the queue to the thread, or are about to be called.
PendingFunctions(s) ==
    {todo[s][i].ticket : i \in {j \in DOMAIN todo[s] : todo[s][j].kind = "function"}}
    \cup (IF thread[s].at = "visit" /\ thread[s].entry.kind = "function"
          THEN {thread[s].entry.ticket} ELSE {})

\* When Sync returns, the callbacks of every list of the stream have run (its
\* downloads are in host memory); host functions after the last list may not.
SyncCoversLists ==
    [][\A s \in Streams : host[s].at = "sync" /\ host'[s] = Ready
         => 1 .. submitted[s] \subseteq ran[s] \cup PendingFunctions(s)]_queueVars

\* When the Sync of an event returns, every callback and host function that the
\* last signal followed has run.
EventSyncCovers ==
    [][\A s \in Streams : host[s].at = "event" /\ host'[s] = Ready
         => LET last == signal[host[s].event]
            IN  1 .. last.ticket \subseteq ran[last.stream]]_queueVars

\* What follows a wait on a D3D12 queue executes after what the signal that the
\* wait captured followed (with one signalling stream for each event).
WaitsOrderLists ==
    [][\A s \in Streams : Gpu(s) /\ gpu[s][1].op = "wait"
         => cmdFence[gpu[s][1].after.stream] >= gpu[s][1].after.frame]_queueVars

\* What a program may rely on after it has synchronized with a stream or an
\* event, and in a stream after a wait.
DXOrdersWork == SyncCoversLists /\ EventSyncCovers /\ WaitsOrderLists

\* The thread sleeps with something to do, or with the queue being destroyed,
\* only while the host is on its way to wake it.
NoLostWakeup ==
    \A s \in Streams : thread[s].at = "asleep"
        => /\ todo[s] # <<>> => host[s].at = "notify"
           /\ ~enabled[s] => host[s].at = "stop"

\* A wait made before the first signal of an event holds its stream back until
\* a signal comes from elsewhere, and whoever waits for that stream.
WaitsForFirstSignal ==
    \E s \in Streams : gpu[s] # <<>> /\ gpu[s][1].op = "wait"
                       /\ gpu[s][1].value = 1 /\ fence[gpu[s][1].event] = 0
Excused == WaitsForFirstSignal \/ \E s \in Streams : ~enabled[s]

\* The example of the documentation: after one stream has signalled an event and
\* another has waited for it and signalled it again, synchronize() returns.
EventSyncReturns ==
    \A s \in Streams : (host[s].at = "event") ~> (host[s].at = "ready" \/ Excused)
=============================================================================
