--------------------------- MODULE DXQueue_proofs ---------------------------
(***************************************************************************)
(* The streams and events of the DirectX backend (backends/dx/DXRuntime/   *)
(* CommandQueue.cpp), for any number of them: their types, the sleep of    *)
(* the execution threads, the order that synchronizing and waiting give,   *)
(* the order of the callbacks, and the reuse of the command allocators.    *)
(***************************************************************************)
EXTENDS DXQueue, FiniteSetTheorems, TLAPS

HostState == [at : {"ready", "create", "notify", "sync", "stop", "join", "gone"}]
             \cup [at : {"encode", "force"}, alloc : Nat] \cup [at : {"event"}, event : Events]
ThreadState == [at : {"pop", "check", "tosleep", "asleep", "gone"}]
               \cup [at : {"visit"}, entry : Entry] \cup [at : {"publish"}, frame : Nat]
Point == [stream : Streams, frame : Nat, ticket : Nat]
Item == [op : {"list"}, frame : Nat, alloc : Nat, ticket : Nat]
        \cup [op : {"signal"}, event : Events, value : Nat]
        \cup [op : {"wait"}, event : Events, value : Nat,
              after : Point]

HostTypes ==
    /\ host \in [Streams -> HostState] /\ left \in [Streams -> Nat]
    /\ lastFrame \in [Streams -> Nat] /\ lastFence \in [Streams -> Nat]
    /\ submitted \in [Streams -> Nat] /\ made \in [Streams -> Nat]
    /\ enabled \in [Streams -> BOOLEAN]
    /\ fenceIndex \in [Events -> Nat]
    /\ signal \in [Events -> Point]
ThreadTypes ==
    /\ thread \in [Streams -> ThreadState] /\ todo \in [Streams -> Seq(Entry)]
    /\ pool \in [Streams -> Seq(Nat)] /\ executedFrame \in [Streams -> Nat]
    /\ ran \in [Streams -> SUBSET Nat] /\ finishedEvent \in [Events -> Nat]
GpuTypes ==
    /\ gpu \in [Streams -> Seq(Item)]
    /\ cmdFence \in [Streams -> Nat] /\ fence \in [Events -> Nat]
TypeInv == HostTypes /\ ThreadTypes /\ GpuTypes

\* The variables the argument is about are functions of the streams.
OfStreams(f) == f = [s \in Streams |-> f[s]]
Shapes ==
    /\ OfStreams(host) /\ OfStreams(thread) /\ OfStreams(todo) /\ OfStreams(enabled) /\ OfStreams(ran)
    /\ OfStreams(lastFrame) /\ OfStreams(lastFence) /\ OfStreams(executedFrame) /\ OfStreams(submitted)
    /\ OfStreams(gpu) /\ OfStreams(cmdFence)

\* NoLostWakeup, strengthened: it holds from the test of the queue on, which is
\* made under the mutex, and nothing stops a queue but its destruction.
SleepInv(s) ==
    /\ thread[s].at \in {"tosleep", "asleep"} /\ todo[s] # <<>> => host[s].at = "notify"
    /\ thread[s].at = "asleep" /\ ~enabled[s] => host[s].at = "stop"
    /\ thread[s].at = "tosleep" => enabled[s]
    /\ enabled[s] => host[s].at # "stop"
WakeupInv == \A s \in Streams : SleepInv(s)

\* A step of a stream: of its host, its thread or its D3D12 queue.
StreamStep(s) == HostCall(s) \/ ForceSync(s) \/ HostStep(s) \/ ThreadStep(s) \/ Gpu(s)

\* What a step of one stream leaves alone, and what it changes.
SameAt(r) ==
    /\ host'[r] = host[r] /\ thread'[r] = thread[r] /\ todo'[r] = todo[r]
    /\ enabled'[r] = enabled[r] /\ ran'[r] = ran[r] /\ submitted'[r] = submitted[r]
    /\ lastFrame'[r] = lastFrame[r] /\ lastFence'[r] = lastFence[r] /\ executedFrame'[r] = executedFrame[r]
    /\ gpu'[r] = gpu[r] /\ cmdFence'[r] = cmdFence[r]

-----------------------------------------------------------------------------
LEMMA TypesInit == QueueInit => TypeInv
<1> SUFFICES ASSUME QueueInit PROVE TypeInv
  OBVIOUS
<1>1. NoSignal \in Point
  BY DXQueueAssumption DEF NoSignal, Point
<1>2. HostTypes
  BY <1>1, DXQueueAssumption DEF QueueInit, HostTypes, HostState, Ready
<1>3. ThreadTypes
  BY DEF QueueInit, ThreadTypes, ThreadState
<1>4. GpuTypes
  BY DEF QueueInit, GpuTypes
<1> QED BY <1>2, <1>3, <1>4 DEF TypeInv

LEMMA HostNames ==
  \A a \in {"ready", "create", "notify", "sync", "stop", "join", "gone"} : [at |-> a] \in HostState
BY DEF HostState

LEMMA HostEncodes ==
  \A n \in Nat : [at |-> "encode", alloc |-> n] \in HostState /\ [at |-> "force", alloc |-> n] \in HostState
BY DEF HostState

LEMMA HostEvents == \A e \in Events : [at |-> "event", event |-> e] \in HostState
BY DEF HostState

LEMMA HostAlloc ==
  ASSUME TypeInv, NEW s \in Streams, host[s].at \in {"encode", "force"} PROVE host[s].alloc \in Nat
<1>1. host[s] \in HostState
  BY DEF TypeInv, HostTypes
<1> QED BY <1>1 DEF HostState

LEMMA ThreadNames ==
  \A a \in {"pop", "check", "tosleep", "asleep", "gone"} : [at |-> a] \in ThreadState
BY DEF ThreadState

LEMMA ThreadVisits == \A x \in Entry : [at |-> "visit", entry |-> x] \in ThreadState
BY DEF ThreadState

LEMMA ThreadPublishes == \A f \in Nat : [at |-> "publish", frame |-> f] \in ThreadState
BY DEF ThreadState

LEMMA Visiting ==
  ASSUME TypeInv, NEW s \in Streams, thread[s].at = "visit" PROVE thread[s].entry \in Entry
<1>1. thread[s] \in ThreadState
  BY DEF TypeInv, ThreadTypes
<1> QED BY <1>1 DEF ThreadState

LEMMA Publishing ==
  ASSUME TypeInv, NEW s \in Streams, thread[s].at = "publish" PROVE thread[s].frame \in Nat
<1>1. thread[s] \in ThreadState
  BY DEF TypeInv, ThreadTypes
<1> QED BY <1>1 DEF ThreadState

LEMMA ListEntry ==
  ASSUME NEW x \in Entry, x.kind = "list"
  PROVE  x.frame \in Nat /\ x.alloc \in Nat /\ x.ticket \in Nat
BY DEF Entry

LEMMA FunctionEntry == ASSUME NEW x \in Entry, x.kind = "function" PROVE x.ticket \in Nat
BY DEF Entry

LEMMA EventEntry ==
  ASSUME NEW x \in Entry, x.kind = "event" PROVE x.event \in Events /\ x.value \in Nat
BY DEF Entry

LEMMA NewList ==
  \A f, a, t \in Nat : [kind |-> "list", frame |-> f, alloc |-> a, ticket |-> t] \in Entry
BY DEF Entry

LEMMA NewFunction == \A t \in Nat : [kind |-> "function", ticket |-> t] \in Entry
BY DEF Entry

LEMMA NewEvent == \A e \in Events, v \in Nat : [kind |-> "event", event |-> e, value |-> v] \in Entry
BY DEF Entry

LEMMA ListItem == \A f, a, t \in Nat : [op |-> "list", frame |-> f, alloc |-> a, ticket |-> t] \in Item
BY DEF Item

LEMMA SignalItem == \A e \in Events, v \in Nat : [op |-> "signal", event |-> e, value |-> v] \in Item
BY DEF Item

LEMMA WaitItem ==
  \A e \in Events, v \in Nat, p \in Point : [op |-> "wait", event |-> e, value |-> v, after |-> p] \in Item
BY DEF Item

LEMMA ItemFields ==
  ASSUME NEW x \in Item
  PROVE  /\ x.op = "list" => x.frame \in Nat
         /\ x.op = "signal" => x.event \in Events /\ x.value \in Nat
         /\ x.op = "wait" => x.event \in Events /\ x.value \in Nat /\ x.after \in Point
BY DEF Item

LEMMA HostTypesKept ==
  ASSUME TypeInv, [QueueNext]_queueVars
  PROVE  HostTypes'
<1>0. HostTypes /\ ThreadTypes /\ GpuTypes
  BY DEF TypeInv
<1>1. CASE UNCHANGED queueVars
  BY <1>0, <1>1 DEF HostTypes, queueVars, hostVars, threadVars, gpuVars
<1>2. ASSUME NEW s \in Streams, BeginExecute(s) PROVE HostTypes'
  BY <1>0, <1>2, HostNames DEF HostTypes, BeginExecute, Call, Goto
<1>3. ASSUME NEW s \in Streams, Callback(s) PROVE HostTypes'
  BY <1>0, <1>3, HostNames DEF HostTypes, Callback, Call, Goto
<1>4. ASSUME NEW s \in Streams, BeginSync(s) PROVE HostTypes'
  BY <1>0, <1>4, HostNames, HostEvents DEF HostTypes, BeginSync, Call, Goto
<1>5. ASSUME NEW s \in Streams, Destroy(s) PROVE HostTypes'
  BY <1>0, <1>5, HostNames DEF HostTypes, Destroy, Call, Goto
<1>6. ASSUME NEW s \in Streams, NEW e \in Events, Signal(s, e) PROVE HostTypes'
  <2>1. [stream |-> s, frame |-> lastFrame[s], ticket |-> submitted[s]] \in Point
    BY <1>0, <1>6 DEF HostTypes, Point
  <2> QED BY <1>0, <1>6, <2>1, HostNames DEF HostTypes, Signal, Call, Goto
<1>7. ASSUME NEW s \in Streams, NEW e \in Events, Wait(s, e) PROVE HostTypes'
  BY <1>0, <1>7 DEF HostTypes, Wait, Call
<1>8. ASSUME NEW s \in Streams, CreateAllocator(s) PROVE HostTypes'
  <2>1. pool[s] # <<>> => Head(pool[s]) \in Nat
    BY <1>0, <1>8 DEF ThreadTypes
  <2>2. made[s] + 1 \in Nat
    BY <1>0, <1>8 DEF HostTypes
  <2>3. PICK n \in Nat : host' = [host EXCEPT ![s] = [at |-> "encode", alloc |-> n]]
    BY <1>0, <1>8, <2>1, <2>2 DEF HostTypes, CreateAllocator, Goto
  <2>4. host' \in [Streams -> HostState]
    BY <1>0, <2>3, HostEncodes DEF HostTypes
  <2>5. made' \in [Streams -> Nat]
    BY <1>0, <1>8, <2>2 DEF HostTypes, CreateAllocator
  <2> QED BY <1>0, <1>8, <2>4, <2>5 DEF HostTypes, CreateAllocator
<1>9. ASSUME NEW s \in Streams, Execute(s) PROVE HostTypes'
  BY <1>0, <1>9, HostNames DEF HostTypes, Execute, NewFrame, Goto
<1>10. ASSUME NEW s \in Streams, ForceSync(s) PROVE HostTypes'
  <2>1. host[s].alloc \in Nat
    BY <1>0, <1>10, HostAlloc DEF ForceSync
  <2>2. host' \in [Streams -> HostState]
    BY <1>0, <1>10, <2>1, HostEncodes DEF HostTypes, ForceSync, Goto
  <2>3. left' \in [Streams -> Nat]
    BY <1>0, <1>10 DEF HostTypes, ForceSync
  <2> QED BY <1>0, <1>10, <2>2, <2>3 DEF HostTypes, ForceSync, NewFrame
<1>11. ASSUME NEW s \in Streams, EndForceSync(s) PROVE HostTypes'
  <2>1. host[s].alloc \in Nat
    BY <1>0, <1>11, HostAlloc DEF EndForceSync
  <2> QED BY <1>0, <1>11, <2>1, HostEncodes DEF HostTypes, EndForceSync, Goto
<1>12. ASSUME NEW s \in Streams, Notify(s) PROVE HostTypes'
  BY <1>0, <1>12, HostNames DEF HostTypes, Notify, Goto, Ready
<1>13. ASSUME NEW s \in Streams, EndSync(s) PROVE HostTypes'
  BY <1>0, <1>13, HostNames DEF HostTypes, EndSync, Goto, Ready
<1>14. ASSUME NEW s \in Streams, NotifyStop(s) PROVE HostTypes'
  BY <1>0, <1>14, HostNames DEF HostTypes, NotifyStop, Goto
<1>15. ASSUME NEW s \in Streams, Join(s) PROVE HostTypes'
  BY <1>0, <1>15, HostNames DEF HostTypes, Join, Goto
<1>16. ASSUME NEW s \in Streams,
              Pop(s) \/ CompleteList(s) \/ Publish(s) \/ RunFunction(s) \/ ExecuteEvent(s) \/ Drained(s)
              \/ FallAsleep(s) \/ Gpu(s)
       PROVE HostTypes'
  BY <1>0, <1>16 DEF HostTypes, Pop, CompleteList, Publish, RunFunction, ExecuteEvent, Drained, FallAsleep,
     Gpu, hostVars
<1> QED BY <1>1, <1>2, <1>3, <1>4, <1>5, <1>6, <1>7, <1>8, <1>9, <1>10, <1>11, <1>12, <1>13, <1>14, <1>15, <1>16
        DEF QueueNext, HostCall, HostStep, ThreadStep

LEMMA ThreadTypesKept ==
  ASSUME TypeInv, [QueueNext]_queueVars
  PROVE  ThreadTypes'
<1>0. HostTypes /\ ThreadTypes /\ GpuTypes
  BY DEF TypeInv
<1>1. CASE UNCHANGED queueVars
  BY <1>0, <1>1 DEF ThreadTypes, queueVars, hostVars, threadVars, gpuVars
<1>2. ASSUME NEW s \in Streams,
             BeginExecute(s) \/ BeginSync(s) \/ Destroy(s) \/ ForceSync(s) \/ EndSync(s) \/ Join(s)
             \/ Gpu(s)
      PROVE ThreadTypes'
  BY <1>0, <1>2 DEF ThreadTypes, BeginExecute, BeginSync, Destroy, ForceSync, EndSync, Join, Gpu, threadVars
<1>3. ASSUME NEW s \in Streams, Callback(s) PROVE ThreadTypes'
  <2>1. [kind |-> "function", ticket |-> submitted[s] + 1] \in Entry
    BY <1>0, <1>3, NewFunction DEF HostTypes
  <2> QED BY <1>0, <1>3, <2>1 DEF ThreadTypes, Callback, Push, threadVars
<1>4. ASSUME NEW s \in Streams, NEW e \in Events, Signal(s, e) PROVE ThreadTypes'
  <2>1. [kind |-> "event", event |-> e, value |-> fenceIndex[e] + 1] \in Entry
    BY <1>0, <1>4, NewEvent DEF HostTypes
  <2> QED BY <1>0, <1>4, <2>1 DEF ThreadTypes, Signal, Push, threadVars
<1>5. ASSUME NEW s \in Streams, NEW e \in Events, Wait(s, e) PROVE ThreadTypes'
  BY <1>0, <1>5 DEF ThreadTypes, Wait, threadVars
<1>6. ASSUME NEW s \in Streams, CreateAllocator(s) PROVE ThreadTypes'
  <2>1. pool[s] # <<>> => Tail(pool[s]) \in Seq(Nat)
    BY <1>0, <1>6 DEF ThreadTypes
  <2> QED BY <1>0, <1>6, <2>1 DEF ThreadTypes, CreateAllocator
<1>7. ASSUME NEW s \in Streams, Execute(s) PROVE ThreadTypes'
  <2>1. host[s].alloc \in Nat
    BY <1>0, <1>7, HostAlloc DEF Execute
  <2>2. [kind |-> "list", frame |-> lastFrame[s] + 1, alloc |-> host[s].alloc, ticket |-> submitted[s] + 1] \in Entry
    BY <1>0, <1>7, <2>1, NewList DEF HostTypes
  <2> QED BY <1>0, <1>7, <2>1, <2>2 DEF ThreadTypes, Execute, Push, threadVars
<1>8. ASSUME NEW s \in Streams, EndForceSync(s) PROVE ThreadTypes'
  <2>1. submitted[s] \in Nat /\ lastFrame[s] \in Nat
    BY <1>0, <1>8 DEF HostTypes
  <2> QED BY <1>0, <1>8, <2>1 DEF ThreadTypes, EndForceSync
<1>9. ASSUME NEW s \in Streams, Notify(s) \/ NotifyStop(s) PROVE ThreadTypes'
  BY <1>0, <1>9, ThreadNames DEF ThreadTypes, Notify, NotifyStop, Woken
<1>10. ASSUME NEW s \in Streams, Pop(s) PROVE ThreadTypes'
  <2>1. todo[s] \in Seq(Entry) /\ Head(todo[s]) \in Entry /\ Tail(todo[s]) \in Seq(Entry)
    BY <1>0, <1>10 DEF ThreadTypes, Pop
  <2> QED BY <1>0, <1>10, <2>1, ThreadVisits DEF ThreadTypes, Pop
<1>11. ASSUME NEW s \in Streams, CompleteList(s) PROVE ThreadTypes'
  <2>1. thread[s].entry \in Entry
    BY <1>0, <1>11, Visiting DEF CompleteList
  <2>2. thread[s].entry.ticket \in Nat /\ thread[s].entry.alloc \in Nat /\ thread[s].entry.frame \in Nat
    BY <1>0, <1>11, <2>1, ListEntry DEF CompleteList
  <2> QED BY <1>0, <1>11, <2>1, <2>2, ThreadPublishes DEF ThreadTypes, CompleteList
<1>12. ASSUME NEW s \in Streams, Publish(s) PROVE ThreadTypes'
  <2>1. thread[s].frame \in Nat
    BY <1>0, <1>12, Publishing DEF Publish
  <2> QED BY <1>0, <1>12, <2>1, ThreadNames DEF ThreadTypes, Publish
<1>13. ASSUME NEW s \in Streams, RunFunction(s) PROVE ThreadTypes'
  <2>1. thread[s].entry \in Entry
    BY <1>0, <1>13, Visiting DEF RunFunction
  <2>2. thread[s].entry.ticket \in Nat
    BY <1>0, <1>13, <2>1, FunctionEntry DEF RunFunction
  <2> QED BY <1>0, <1>13, <2>1, <2>2, ThreadNames DEF ThreadTypes, RunFunction
<1>14. ASSUME NEW s \in Streams, ExecuteEvent(s) PROVE ThreadTypes'
  <2>1. thread[s].entry \in Entry
    BY <1>0, <1>14, Visiting DEF ExecuteEvent
  <2>2. thread[s].entry.event \in Events /\ thread[s].entry.value \in Nat
    BY <1>0, <1>14, <2>1, EventEntry DEF ExecuteEvent
  <2> QED BY <1>0, <1>14, <2>1, <2>2, ThreadNames DEF ThreadTypes, ExecuteEvent
<1>15. ASSUME NEW s \in Streams, Drained(s) \/ FallAsleep(s) PROVE ThreadTypes'
  BY <1>0, <1>15, ThreadNames DEF ThreadTypes, Drained, FallAsleep
<1> QED BY <1>1, <1>2, <1>3, <1>4, <1>5, <1>6, <1>7, <1>8, <1>9, <1>10, <1>11, <1>12, <1>13, <1>14, <1>15
        DEF QueueNext, HostCall, HostStep, ThreadStep

LEMMA GpuTypesKept ==
  ASSUME TypeInv, [QueueNext]_queueVars
  PROVE  GpuTypes'
<1>0. HostTypes /\ ThreadTypes /\ GpuTypes
  BY DEF TypeInv
<1>1. CASE UNCHANGED queueVars
  BY <1>0, <1>1 DEF GpuTypes, queueVars, hostVars, threadVars, gpuVars
<1>2. ASSUME NEW s \in Streams,
             BeginExecute(s) \/ BeginSync(s) \/ Destroy(s) \/ Callback(s) \/ EndSync(s) \/ Join(s)
             \/ CreateAllocator(s) \/ EndForceSync(s) \/ Notify(s) \/ NotifyStop(s)
      PROVE GpuTypes'
  BY <1>0, <1>2 DEF GpuTypes, BeginExecute, BeginSync, Destroy, Callback, EndSync, Join, CreateAllocator,
     EndForceSync, Notify, NotifyStop, gpuVars
<1>3. ASSUME NEW s \in Streams,
             Pop(s) \/ CompleteList(s) \/ Publish(s) \/ RunFunction(s) \/ ExecuteEvent(s) \/ Drained(s)
             \/ FallAsleep(s)
      PROVE GpuTypes'
  BY <1>0, <1>3 DEF GpuTypes, Pop, CompleteList, Publish, RunFunction, ExecuteEvent, Drained, FallAsleep,
     gpuVars
<1>4. ASSUME NEW s \in Streams, Execute(s) PROVE GpuTypes'
  <2>1. host[s].alloc \in Nat
    BY <1>0, <1>4, HostAlloc DEF Execute
  <2>2. [op |-> "list", frame |-> lastFrame[s] + 1, alloc |-> host[s].alloc, ticket |-> submitted[s] + 1] \in Item
    BY <1>0, <1>4, <2>1, ListItem DEF HostTypes
  <2> QED BY <1>0, <1>4, <2>1, <2>2 DEF GpuTypes, Execute, NewFrame, Queue
<1>5. ASSUME NEW s \in Streams, ForceSync(s) PROVE GpuTypes'
  <2>1. host[s].alloc \in Nat
    BY <1>0, <1>5, HostAlloc DEF ForceSync
  <2>2. [op |-> "list", frame |-> lastFrame[s] + 1, alloc |-> host[s].alloc, ticket |-> submitted[s] + 1] \in Item
    BY <1>0, <1>5, <2>1, ListItem DEF HostTypes
  <2> QED BY <1>0, <1>5, <2>1, <2>2 DEF GpuTypes, ForceSync, NewFrame, Queue
<1>6. ASSUME NEW s \in Streams, NEW e \in Events, Signal(s, e) PROVE GpuTypes'
  <2>1. [op |-> "signal", event |-> e, value |-> fenceIndex[e] + 1] \in Item
    BY <1>0, <1>6, SignalItem DEF HostTypes
  <2> QED BY <1>0, <1>6, <2>1 DEF GpuTypes, Signal, Queue
<1>7. ASSUME NEW s \in Streams, NEW e \in Events, Wait(s, e) PROVE GpuTypes'
  <2>1. [op |-> "wait", event |-> e, value |-> fenceIndex[e], after |-> signal[e]] \in Item
    BY <1>0, <1>7, WaitItem DEF HostTypes
  <2> QED BY <1>0, <1>7, <2>1 DEF GpuTypes, Wait, Queue, WaitedValue
<1>8. ASSUME NEW s \in Streams, Gpu(s) PROVE GpuTypes'
  <2>1. gpu[s] \in Seq(Item) /\ Head(gpu[s]) \in Item /\ Tail(gpu[s]) \in Seq(Item)
    BY <1>0, <1>8 DEF GpuTypes, Gpu
  <2>2. /\ Head(gpu[s]).op = "list" => Head(gpu[s]).frame \in Nat
        /\ Head(gpu[s]).op = "signal" => Head(gpu[s]).event \in Events /\ Head(gpu[s]).value \in Nat
    BY <1>0, <1>8, <2>1, ItemFields
  <2>3. gpu' \in [Streams -> Seq(Item)]
    BY <1>0, <1>8, <2>1 DEF GpuTypes, Gpu
  <2>4. cmdFence' \in [Streams -> Nat]
    BY <1>0, <1>8, <2>2 DEF GpuTypes, Gpu
  <2>5. fence' \in [Events -> Nat]
    BY <1>0, <1>8, <2>2 DEF GpuTypes, Gpu
  <2> QED BY <2>3, <2>4, <2>5 DEF GpuTypes
<1> QED BY <1>1, <1>2, <1>3, <1>4, <1>5, <1>6, <1>7, <1>8
        DEF QueueNext, HostCall, HostStep, ThreadStep

LEMMA TypesKept == TypeInv /\ [QueueNext]_queueVars => TypeInv'
BY HostTypesKept, ThreadTypesKept, GpuTypesKept DEF TypeInv

LEMMA TypesAlways == QueueSpec => []TypeInv
BY TypesInit, TypesKept, PTL DEF QueueSpec

LEMMA StreamFunctions == TypeInv => Shapes
BY DEF TypeInv, HostTypes, ThreadTypes, GpuTypes, Shapes, OfStreams

-----------------------------------------------------------------------------
LEMMA SleepKept ==
  ASSUME NEW r \in Streams, SleepInv(r), SameAt(r) PROVE SleepInv(r)'
BY DEF SleepInv, SameAt

\* A step of a stream is seen by no other.
LEMMA OthersKept ==
  ASSUME Shapes, NEW s \in Streams, NEW r \in Streams, r # s, StreamStep(s)
  PROVE  SameAt(r)
<1>1. CASE BeginExecute(s) \/ Callback(s) \/ BeginSync(s) \/ Destroy(s)
  BY <1>1 DEF Shapes, OfStreams, SameAt, BeginExecute, Callback, BeginSync, Destroy, Call, Goto, Push,
     threadVars, gpuVars
<1>2. ASSUME NEW e \in Events, Signal(s, e) \/ Wait(s, e) PROVE SameAt(r)
  BY <1>2 DEF Shapes, OfStreams, SameAt, Signal, Wait, Goto, Push, Queue, threadVars
<1>3. CASE ForceSync(s) \/ EndForceSync(s) \/ Execute(s)
  BY <1>3 DEF Shapes, OfStreams, SameAt, ForceSync, EndForceSync, Execute, NewFrame, Goto, Push, Queue,
     threadVars, gpuVars
<1>4. CASE CreateAllocator(s) \/ Notify(s) \/ EndSync(s) \/ NotifyStop(s) \/ Join(s)
  BY <1>4 DEF Shapes, OfStreams, SameAt, CreateAllocator, Notify, EndSync, NotifyStop, Join, Goto, Woken,
     threadVars, gpuVars
<1>5. CASE ThreadStep(s)
  BY <1>5 DEF Shapes, OfStreams, SameAt, ThreadStep, Pop, CompleteList, Publish, RunFunction,
     ExecuteEvent, Drained, FallAsleep, hostVars, gpuVars
<1>6. CASE Gpu(s)
  BY <1>6 DEF Shapes, OfStreams, SameAt, Gpu, hostVars, threadVars
<1> QED BY <1>1, <1>2, <1>3, <1>4, <1>5, <1>6 DEF StreamStep, HostCall, HostStep

\* The host of the stream: what it pushes, it is about to notify of.
LEMMA HostKeepsSleep ==
  ASSUME TypeInv, WakeupInv, NEW s \in Streams, HostCall(s) \/ ForceSync(s) \/ HostStep(s)
  PROVE  SleepInv(s)'
<1>0. Shapes /\ SleepInv(s)
  BY StreamFunctions DEF WakeupInv
<1>1. CASE BeginExecute(s)
  BY <1>0, <1>1 DEF Shapes, OfStreams, SleepInv, BeginExecute, Call, Goto, Ready, threadVars
<1>2. CASE Callback(s)
  BY <1>0, <1>2 DEF Shapes, OfStreams, SleepInv, Callback, Call, Goto, Push, Ready, threadVars
<1>3. CASE BeginSync(s)
  BY <1>0, <1>3 DEF Shapes, OfStreams, SleepInv, BeginSync, Call, Goto, Ready, threadVars
<1>4. CASE Destroy(s)
  BY <1>0, <1>4 DEF Shapes, OfStreams, SleepInv, Destroy, MutexFree, Call, Goto, Ready, threadVars
<1>5. ASSUME NEW e \in Events, Signal(s, e) \/ Wait(s, e) PROVE SleepInv(s)'
  BY <1>0, <1>5 DEF Shapes, OfStreams, SleepInv, Signal, Wait, Call, Goto, Push, Ready, threadVars
<1>6. CASE ForceSync(s) \/ EndForceSync(s)
  BY <1>0, <1>6 DEF Shapes, OfStreams, SleepInv, ForceSync, EndForceSync, Goto, threadVars
<1>7. CASE CreateAllocator(s)
  BY <1>0, <1>7 DEF Shapes, OfStreams, SleepInv, CreateAllocator, Goto
<1>8. CASE Execute(s)
  BY <1>0, <1>8 DEF Shapes, OfStreams, SleepInv, Execute, Goto, Push, threadVars
<1>9. CASE Notify(s)
  BY <1>0, <1>9 DEF Shapes, OfStreams, SleepInv, Notify, MutexFree, Woken, Goto, Ready
<1>10. CASE EndSync(s)
  BY <1>0, <1>10 DEF Shapes, OfStreams, SleepInv, EndSync, Reached, Goto, Ready, threadVars
<1>11. CASE NotifyStop(s)
  BY <1>0, <1>11 DEF Shapes, OfStreams, SleepInv, NotifyStop, Woken, Goto
<1>12. CASE Join(s)
  BY <1>0, <1>12 DEF Shapes, OfStreams, SleepInv, Join, Goto, threadVars
<1> QED BY <1>1, <1>2, <1>3, <1>4, <1>5, <1>6, <1>7, <1>8, <1>9, <1>10, <1>11, <1>12
        DEF HostCall, HostStep

\* The execution thread: it decides to sleep on an empty queue that is enabled.
LEMMA ThreadKeepsSleep ==
  ASSUME TypeInv, WakeupInv, NEW s \in Streams, ThreadStep(s) PROVE SleepInv(s)'
<1>0. Shapes /\ SleepInv(s)
  BY StreamFunctions DEF WakeupInv
<1>1. CASE Pop(s)
  BY <1>0, <1>1 DEF Shapes, OfStreams, SleepInv, Pop, hostVars
<1>2. CASE CompleteList(s) \/ Publish(s) \/ RunFunction(s) \/ ExecuteEvent(s)
  BY <1>0, <1>2 DEF Shapes, OfStreams, SleepInv, CompleteList, Publish, RunFunction, ExecuteEvent, hostVars
<1>3. CASE Drained(s)
  BY <1>0, <1>3 DEF Shapes, OfStreams, SleepInv, Drained, hostVars
<1>4. CASE FallAsleep(s)
  BY <1>0, <1>4 DEF Shapes, OfStreams, SleepInv, FallAsleep, hostVars
<1> QED BY <1>1, <1>2, <1>3, <1>4 DEF ThreadStep

-----------------------------------------------------------------------------
LEMMA WakeupInit == QueueInit => WakeupInv
BY DEF QueueInit, WakeupInv, SleepInv, Ready

LEMMA WakeupStep == TypeInv /\ WakeupInv /\ [QueueNext]_queueVars => WakeupInv'
<1> SUFFICES ASSUME TypeInv, WakeupInv, [QueueNext]_queueVars PROVE WakeupInv'
  OBVIOUS
<1>1. CASE UNCHANGED queueVars
  BY <1>1 DEF WakeupInv, SleepInv, queueVars, hostVars, threadVars
<1>2. ASSUME NEW s \in Streams, StreamStep(s)
      PROVE  WakeupInv'
  <2>3. SleepInv(s)'
    <3>1. CASE Gpu(s)
      BY <3>1 DEF WakeupInv, SleepInv, Gpu, hostVars, threadVars
    <3> QED BY <1>2, <3>1, HostKeepsSleep, ThreadKeepsSleep DEF StreamStep
  <2>4. ASSUME NEW r \in Streams, r # s PROVE SleepInv(r)'
    <3>1. SameAt(r)
      BY <1>2, <2>4, StreamFunctions, OthersKept
    <3>2. SleepInv(r)
      BY DEF WakeupInv
    <3> QED BY <3>1, <3>2, SleepKept
  <2>5. \A r \in Streams : SleepInv(r)'
    BY <2>3, <2>4
  <2> QED BY <2>5 DEF WakeupInv
<1> QED BY <1>1, <1>2 DEF QueueNext, StreamStep

\* The execution thread of a stream never sleeps with something in its queue, or
\* with the queue being destroyed, unless the host is on its way to notify it:
\* the empty critical section before notify_one is enough.
THEOREM NoWakeupIsLost == QueueSpec => []NoLostWakeup
<1>1. WakeupInv => NoLostWakeup
  BY DEF WakeupInv, SleepInv, NoLostWakeup
<1> QED BY TypesAlways, WakeupInit, WakeupStep, <1>1, PTL DEF QueueSpec

-----------------------------------------------------------------------------
(***************************************************************************)
(* What a program may rely on after it has synchronized with a stream or   *)
(* an event of the DirectX backend, and in a stream after a wait, for any  *)
(* number of streams, events and calls (backends/dx/DXRuntime/             *)
(* CommandQueue.cpp, Api/LCEvent.cpp).                                     *)
(***************************************************************************)

\* A ticket is in the hand of the thread, or in the queue before place n.
InHand(s, t) == thread[s].at = "visit" /\ thread[s].entry.kind # "event" /\ thread[s].entry.ticket = t
Queued(s, n, t) ==
    \E i \in DOMAIN todo[s] : i < n /\ todo[s][i].kind # "event" /\ todo[s][i].ticket = t
Known(s, n, t) == t \in ran[s] \/ InHand(s, t) \/ Queued(s, n, t)

\* Nothing that is submitted is forgotten.
TicketsKnown(s) ==
    \A t \in 1 .. submitted[s] :
        Known(s, Len(todo[s]) + 1, t) \/ (host[s].at = "force" /\ t = submitted[s])

\* What a step of stream s does to its queue, its thread and what has run.
Quiet(s) ==
    /\ todo'[s] = todo[s] /\ ran[s] \subseteq ran'[s]
    /\ thread'[s] = thread[s] \/ (thread[s].at # "visit" /\ thread'[s].at # "visit")
PushedEntry(s, x) == todo'[s] = Append(todo[s], x) /\ thread'[s] = thread[s] /\ ran'[s] = ran[s]
NewEventEntry(e) == [kind |-> "event", event |-> e, value |-> fenceIndex[e] + 1]
Pushed(s) == \E x \in Entry :
    /\ PushedEntry(s, x)
    /\ x.kind = "event" => \E e \in Events : Signal(s, e) /\ x = NewEventEntry(e)
Popped(s) ==
    /\ todo[s] # <<>> /\ todo'[s] = Tail(todo[s]) /\ ran'[s] = ran[s]
    /\ thread[s].at = "pop" /\ thread'[s] = [at |-> "visit", entry |-> Head(todo[s])]
Finished(s) ==
    /\ todo'[s] = todo[s] /\ ran[s] \subseteq ran'[s]
    /\ thread[s].at = "visit" /\ thread'[s].at # "visit"
    /\ thread[s].entry.kind # "event" => thread[s].entry.ticket \in ran'[s]

\* What it does to the count of what has been submitted.
NoneSubmitted(s) == submitted'[s] = submitted[s] /\ (host[s].at = "force" => host'[s].at = "force")
Forced(s) == submitted'[s] = submitted[s] + 1 /\ host[s].at # "force" /\ host'[s].at = "force"
PushedTicket(s) ==
    /\ submitted'[s] = submitted[s] + 1 /\ host[s].at # "force"
    /\ \E x \in Entry : PushedEntry(s, x) /\ x.kind # "event" /\ x.ticket = submitted[s] + 1
ForceEnded(s) == submitted'[s] = submitted[s] /\ host[s].at = "force" /\ submitted[s] \in ran'[s]

-----------------------------------------------------------------------------
LEMMA HostEffect ==
  ASSUME TypeInv, NEW s \in Streams, HostCall(s) \/ ForceSync(s) \/ HostStep(s)
  PROVE  Quiet(s) \/ Pushed(s)
<1>0. Shapes
  BY StreamFunctions
<1>1. CASE BeginExecute(s) \/ BeginSync(s) \/ Destroy(s) \/ ForceSync(s) \/ EndSync(s) \/ Join(s)
  BY <1>1 DEF Quiet, BeginExecute, BeginSync, Destroy, ForceSync, EndSync, Join, threadVars
<1>2. CASE Callback(s)
  <2>1. [kind |-> "function", ticket |-> submitted[s] + 1] \in Entry
    BY NewFunction DEF TypeInv, HostTypes
  <2> QED BY <1>0, <1>2, <2>1 DEF Pushed, PushedEntry, Callback, Push, threadVars, Shapes, OfStreams
<1>3. ASSUME NEW e \in Events, Signal(s, e) \/ Wait(s, e) PROVE Quiet(s) \/ Pushed(s)
  <2>1. NewEventEntry(e) \in Entry
    BY NewEvent DEF TypeInv, HostTypes, NewEventEntry
  <2>2. CASE Signal(s, e)
    <3>1. PushedEntry(s, NewEventEntry(e))
      BY <1>0, <2>2 DEF PushedEntry, NewEventEntry, Signal, Push, threadVars, Shapes, OfStreams
    <3> QED BY <2>1, <2>2, <3>1 DEF Pushed
  <2> QED BY <1>3, <2>2 DEF Quiet, Wait, threadVars
<1>4. CASE CreateAllocator(s)
  BY <1>4 DEF Quiet, CreateAllocator
<1>5. CASE Execute(s)
  <2>1. host[s].alloc \in Nat
    BY <1>5, HostAlloc DEF Execute
  <2>2. [kind |-> "list", frame |-> lastFrame[s] + 1, alloc |-> host[s].alloc, ticket |-> submitted[s] + 1] \in Entry
    BY <2>1, NewList DEF TypeInv, HostTypes
  <2> QED BY <1>0, <1>5, <2>2 DEF Pushed, PushedEntry, Execute, Push, threadVars, Shapes, OfStreams
<1>6. CASE EndForceSync(s)
  BY <1>0, <1>6 DEF Quiet, EndForceSync, Shapes, OfStreams
<1>7. CASE Notify(s) \/ NotifyStop(s)
  BY <1>0, <1>7 DEF Quiet, Notify, NotifyStop, Woken, Shapes, OfStreams
<1> QED BY <1>1, <1>2, <1>3, <1>4, <1>5, <1>6, <1>7 DEF HostCall, HostStep

LEMMA ThreadEffect ==
  ASSUME TypeInv, NEW s \in Streams, ThreadStep(s)
  PROVE  Quiet(s) \/ Popped(s) \/ Finished(s)
<1>0. Shapes
  BY StreamFunctions
<1>1. CASE Pop(s)
  BY <1>0, <1>1 DEF Popped, Pop, Shapes, OfStreams
<1>2. CASE CompleteList(s)
  BY <1>0, <1>2 DEF Finished, CompleteList, Shapes, OfStreams
<1>3. CASE RunFunction(s)
  BY <1>0, <1>3 DEF Finished, RunFunction, Shapes, OfStreams
<1>4. CASE ExecuteEvent(s)
  BY <1>0, <1>4 DEF Finished, ExecuteEvent, Shapes, OfStreams
<1>5. CASE Publish(s) \/ Drained(s) \/ FallAsleep(s)
  BY <1>0, <1>5 DEF Quiet, Publish, Drained, FallAsleep, Shapes, OfStreams
<1> QED BY <1>1, <1>2, <1>3, <1>4, <1>5 DEF ThreadStep

LEMMA StepEffect ==
  ASSUME TypeInv, NEW s \in Streams, StreamStep(s)
  PROVE  Quiet(s) \/ Pushed(s) \/ Popped(s) \/ Finished(s)
<1>1. CASE Gpu(s)
  BY <1>1 DEF Quiet, Gpu, threadVars
<1> QED BY <1>1, HostEffect, ThreadEffect DEF StreamStep

LEMMA SubmittedEffect ==
  ASSUME TypeInv, NEW s \in Streams, StreamStep(s)
  PROVE  NoneSubmitted(s) \/ Forced(s) \/ PushedTicket(s) \/ ForceEnded(s)
<1>0. Shapes /\ HostTypes
  BY StreamFunctions DEF TypeInv
<1>1. CASE BeginExecute(s) \/ BeginSync(s) \/ Destroy(s) \/ EndSync(s) \/ Join(s) \/ CreateAllocator(s) \/
           Notify(s) \/ NotifyStop(s)
  BY <1>0, <1>1 DEF NoneSubmitted, BeginExecute, BeginSync, Destroy, EndSync, Reached, Join,
     CreateAllocator, Notify, NotifyStop, Call, Ready
<1>2. CASE Callback(s)
  <2>1. [kind |-> "function", ticket |-> submitted[s] + 1] \in Entry
    BY NewFunction DEF TypeInv, HostTypes
  <2>2. PushedEntry(s, [kind |-> "function", ticket |-> submitted[s] + 1])
    BY <1>0, <1>2 DEF PushedEntry, Callback, Push, threadVars, Shapes, OfStreams
  <2>3. submitted'[s] = submitted[s] + 1 /\ host[s].at # "force"
    BY <1>0, <1>2 DEF Callback, Call, Ready, HostTypes
  <2> QED BY <2>1, <2>2, <2>3 DEF PushedTicket
<1>3. ASSUME NEW e \in Events, Signal(s, e) \/ Wait(s, e) PROVE NoneSubmitted(s)
  BY <1>0, <1>3 DEF NoneSubmitted, Signal, Wait, Call, Ready
<1>4. CASE ForceSync(s)
  BY <1>0, <1>4 DEF Forced, ForceSync, NewFrame, Goto, Shapes, OfStreams, HostTypes
<1>5. CASE Execute(s)
  <2>1. host[s].alloc \in Nat
    BY <1>5, HostAlloc DEF Execute
  <2>2. [kind |-> "list", frame |-> lastFrame[s] + 1, alloc |-> host[s].alloc, ticket |-> submitted[s] + 1] \in Entry
    BY <2>1, NewList DEF TypeInv, HostTypes
  <2> QED BY <1>0, <1>5, <2>2 DEF PushedTicket, PushedEntry, Execute, NewFrame, Push, threadVars, Shapes, OfStreams, HostTypes
<1>6. CASE EndForceSync(s)
  BY <1>0, <1>6 DEF ForceEnded, EndForceSync, Shapes, OfStreams
<1>7. CASE ThreadStep(s)
  BY <1>7 DEF NoneSubmitted, ThreadStep, Pop, CompleteList, Publish, RunFunction, ExecuteEvent, Drained,
     FallAsleep, hostVars
<1>8. CASE Gpu(s)
  BY <1>8 DEF NoneSubmitted, Gpu, hostVars
<1> QED BY <1>1, <1>2, <1>3, <1>4, <1>5, <1>6, <1>7, <1>8 DEF StreamStep, HostCall, HostStep

-----------------------------------------------------------------------------
\* What is known stays known.
LEMMA KnownKept ==
  ASSUME TypeInv, NEW s \in Streams, NEW n \in Nat, NEW t, Known(s, n, t),
         Quiet(s) \/ Pushed(s) \/ Finished(s)
  PROVE  Known(s, n, t)'
<1>1. todo[s] \in Seq(Entry)
  BY DEF TypeInv, ThreadTypes
<1>2. CASE Quiet(s)
  BY <1>2 DEF Quiet, Known, InHand, Queued
<1>3. CASE Pushed(s)
  <2>1. PICK x \in Entry : PushedEntry(s, x)
    BY <1>3 DEF Pushed
  <2>2. ASSUME Queued(s, n, t) PROVE Queued(s, n, t)'
    BY <1>1, <2>1, <2>2 DEF PushedEntry, Queued
  <2> QED BY <2>1, <2>2 DEF PushedEntry, Known, InHand
<1>4. CASE Finished(s)
  BY <1>4 DEF Finished, Known, InHand, Queued
<1> QED BY <1>2, <1>3, <1>4

LEMMA KnownPopped ==
  ASSUME TypeInv, NEW s \in Streams, NEW n \in Nat, NEW t, Known(s, n + 1, t), Popped(s)
  PROVE  Known(s, n, t)'
<1>1. todo[s] \in Seq(Entry)
  BY DEF TypeInv, ThreadTypes
<1>2. CASE t \in ran[s]
  BY <1>2 DEF Popped, Known
<1>3. ASSUME NEW i \in DOMAIN todo[s], i < n + 1, todo[s][i].kind # "event", todo[s][i].ticket = t
      PROVE  Known(s, n, t)'
  <2>1. CASE i = 1
    BY <1>3, <2>1 DEF Popped, Known, InHand
  <2>2. CASE i # 1
    <3>1. i - 1 \in DOMAIN todo'[s] /\ todo'[s][i - 1] = todo[s][i]
      BY <1>1, <1>3, <2>2 DEF Popped
    <3>2. i - 1 < n
      BY <1>1, <1>3, <2>2
    <3> QED BY <1>3, <3>1, <3>2 DEF Known, Queued
  <2> QED BY <2>1, <2>2
<1> QED BY <1>2, <1>3 DEF Known, InHand, Queued, Popped

LEMMA TicketsKept ==
  ASSUME TypeInv, NEW s \in Streams, TicketsKnown(s), StreamStep(s)
  PROVE  TicketsKnown(s)'
<1>0. todo[s] \in Seq(Entry) /\ submitted[s] \in Nat
  BY DEF TypeInv, ThreadTypes, HostTypes
<1>1. ASSUME NEW t \in 1 .. submitted[s], Known(s, Len(todo[s]) + 1, t)
      PROVE  Known(s, Len(todo[s]) + 1, t)'
  <2>1. CASE Quiet(s) \/ Finished(s)
    <3>1. todo'[s] = todo[s]
      BY <2>1 DEF Quiet, Finished
    <3>2. Known(s, Len(todo[s]) + 1, t) => \A n \in Nat : n = Len(todo[s]) + 1 => Known(s, n, t)'
      BY <2>1, KnownKept
    <3> QED BY <1>0, <1>1, <3>1, <3>2
  <2>2. CASE Pushed(s)
    <3>1. PICK x \in Entry : PushedEntry(s, x)
      BY <2>2 DEF Pushed
    <3>2. /\ \A i \in DOMAIN todo[s] : i \in DOMAIN todo'[s] /\ todo'[s][i] = todo[s][i]
          /\ Len(todo'[s]) = Len(todo[s]) + 1 /\ thread'[s] = thread[s] /\ ran'[s] = ran[s]
      BY <1>0, <3>1 DEF PushedEntry
    <3>3. \A i \in DOMAIN todo[s] : i < Len(todo'[s]) + 1
      BY <1>0, <3>2
    <3>4. Queued(s, Len(todo[s]) + 1, t) => Queued(s, Len(todo[s]) + 1, t)'
      BY <3>2, <3>3 DEF Queued
    <3> QED BY <1>1, <3>2, <3>4 DEF Known, InHand
  <2>3. CASE Popped(s)
    <3>1. Len(todo'[s]) + 1 = Len(todo[s]) /\ Len(todo[s]) \in Nat
      BY <1>0, <2>3 DEF Popped
    <3>2. \A n \in Nat : n + 1 = Len(todo[s]) + 1 => Known(s, n, t)'
      BY <1>1, <2>3, KnownPopped
    <3> QED BY <1>0, <3>1, <3>2
  <2> QED BY <2>1, <2>2, <2>3, StepEffect
<1>2. CASE NoneSubmitted(s)
  BY <1>1, <1>2 DEF TicketsKnown, NoneSubmitted
<1>3. CASE Forced(s)
  BY <1>0, <1>1, <1>3 DEF TicketsKnown, Forced
<1>4. CASE PushedTicket(s)
  <2>1. PICK x \in Entry : PushedEntry(s, x) /\ x.kind # "event" /\ x.ticket = submitted[s] + 1
    BY <1>4 DEF PushedTicket
  <2>2. /\ Len(todo[s]) + 1 \in DOMAIN todo'[s] /\ todo'[s][Len(todo[s]) + 1] = x
        /\ Len(todo[s]) + 1 < Len(todo'[s]) + 1
    BY <1>0, <2>1 DEF PushedEntry
  <2>3. Known(s, Len(todo[s]) + 1, submitted[s])'
    BY <1>4, <2>1, <2>2 DEF PushedTicket, Known, Queued
  <2>4. submitted'[s] = submitted[s] + 1 /\ host[s].at # "force"
    BY <1>4 DEF PushedTicket
  <2> QED BY <1>0, <1>1, <2>3, <2>4 DEF TicketsKnown
<1>5. CASE ForceEnded(s)
  BY <1>1, <1>5 DEF TicketsKnown, ForceEnded, Known
<1> QED BY <1>2, <1>3, <1>4, <1>5, SubmittedEffect

-----------------------------------------------------------------------------
\* The numbers of one stream: the frames in its queue increase behind the one the
\* thread has in hand, and once executedFrame has reached the last of them no
\* list is left. (ForceSync runs ahead of the queue, so only outside of a call.)
HandFrame(s) ==
    IF thread[s].at = "publish" THEN thread[s].frame
    ELSE IF thread[s].at = "visit" /\ thread[s].entry.kind = "list" THEN thread[s].entry.frame ELSE 0
HandList(s) == thread[s].at = "visit" /\ thread[s].entry.kind = "list"
QueuedList(s, i) == i \in DOMAIN todo[s] /\ todo[s][i].kind = "list"

FrameBounds(s) ==
    /\ executedFrame[s] <= lastFrame[s] /\ lastFence[s] <= lastFrame[s] /\ HandFrame(s) <= lastFence[s]
    /\ \A i \in DOMAIN todo[s] : QueuedList(s, i) =>
         HandFrame(s) < todo[s][i].frame /\ todo[s][i].frame <= lastFence[s]
FrameOrder(s) ==
    \A i, j \in DOMAIN todo[s] :
        j < i /\ QueuedList(s, i) /\ QueuedList(s, j) => todo[s][j].frame < todo[s][i].frame
NoList(s) == ~HandList(s) /\ \A i \in DOMAIN todo[s] : ~QueuedList(s, i)
FrameDrained(s) ==
    host[s].at \notin {"encode", "force"} /\ executedFrame[s] >= lastFence[s] => NoList(s)
FrameInv(s) == FrameBounds(s) /\ FrameOrder(s) /\ FrameDrained(s)

\* What a step does to the numbers of its stream.
NumbersSame(s) ==
    /\ lastFrame'[s] = lastFrame[s] /\ lastFence'[s] = lastFence[s] /\ executedFrame'[s] = executedFrame[s]
    /\ host'[s].at \notin {"encode", "force"} => host[s].at \notin {"encode", "force"}
ThreadSame(s) ==
    \/ thread'[s] = thread[s]
    \/ ~HandList(s) /\ thread[s].at # "publish" /\ ~HandList(s)' /\ thread'[s].at # "publish"
PushedOther(s) == \E x \in Entry : x.kind # "list" /\ PushedEntry(s, x)

LEMMA HandTypes == ASSUME TypeInv, NEW s \in Streams PROVE HandFrame(s) \in Nat
BY Publishing, Visiting, ListEntry DEF HandFrame

\* Most steps change neither the lists of a queue nor the numbers.
LEMMA FrameKept ==
  ASSUME TypeInv, NEW s \in Streams, FrameInv(s), NumbersSame(s), ThreadSame(s),
         todo'[s] = todo[s] \/ PushedOther(s)
  PROVE  FrameInv(s)'
<1>0. todo[s] \in Seq(Entry)
  BY DEF TypeInv, ThreadTypes
<1>1. HandFrame(s)' = HandFrame(s) /\ HandList(s)' = HandList(s)
  BY DEF ThreadSame, HandFrame, HandList
<1>2. \A i \in DOMAIN todo'[s] : QueuedList(s, i)'
         => i \in DOMAIN todo[s] /\ QueuedList(s, i) /\ todo'[s][i] = todo[s][i]
  <2>1. CASE todo'[s] = todo[s]
    BY <2>1 DEF QueuedList
  <2>2. CASE PushedOther(s)
    BY <1>0, <2>2 DEF PushedOther, PushedEntry, QueuedList
  <2> QED BY <2>1, <2>2
<1>3. FrameBounds(s)'
  BY <1>1, <1>2 DEF FrameInv, FrameBounds, NumbersSame
<1>4. FrameOrder(s)'
  BY <1>2 DEF FrameInv, FrameOrder, QueuedList
<1>5. FrameDrained(s)'
  BY <1>1, <1>2 DEF FrameInv, FrameDrained, NoList, NumbersSame
<1> QED BY <1>3, <1>4, <1>5 DEF FrameInv

LEMMA OtherSteps ==
  ASSUME TypeInv, NEW s \in Streams, StreamStep(s)
  PROVE  \/ NumbersSame(s) /\ ThreadSame(s) /\ (todo'[s] = todo[s] \/ PushedOther(s))
         \/ Execute(s) \/ ForceSync(s) \/ EndForceSync(s)
         \/ Pop(s) \/ CompleteList(s) \/ Publish(s)
<1> DEFINE Other == NumbersSame(s) /\ ThreadSame(s) /\ (todo'[s] = todo[s] \/ PushedOther(s))
<1>0. Shapes /\ HostTypes
  BY StreamFunctions DEF TypeInv
<1>1. CASE BeginExecute(s) \/ BeginSync(s) \/ Destroy(s) \/ EndSync(s) \/ Join(s)
  BY <1>0, <1>1 DEF NumbersSame, ThreadSame, BeginExecute, BeginSync, Destroy, EndSync, Reached, Join, Call,
     Ready,
     threadVars, Goto, Shapes, OfStreams
<1>2. CASE Callback(s)
  <2>1. [kind |-> "function", ticket |-> submitted[s] + 1] \in Entry
    BY <1>0, NewFunction DEF HostTypes
  <2>2. PushedOther(s)
    BY <1>0, <1>2, <2>1 DEF PushedOther, PushedEntry, Callback, Push, threadVars, Shapes, OfStreams
  <2> QED BY <1>0, <1>2, <2>2 DEF NumbersSame, ThreadSame, Callback, Call, Ready, threadVars
<1>3. ASSUME NEW e \in Events, Signal(s, e) PROVE Other
  <2>1. [kind |-> "event", event |-> e, value |-> fenceIndex[e] + 1] \in Entry
    BY <1>0, NewEvent DEF HostTypes
  <2>2. PushedOther(s)
    BY <1>0, <1>3, <2>1 DEF PushedOther, PushedEntry, Signal, Push, threadVars, Shapes, OfStreams
  <2> QED BY <1>0, <1>3, <2>2 DEF NumbersSame, ThreadSame, Signal, Call, Ready, threadVars
<1>4. ASSUME NEW e \in Events, Wait(s, e) PROVE Other
  BY <1>4 DEF NumbersSame, ThreadSame, Wait, threadVars
<1>5. CASE CreateAllocator(s)
  BY <1>5 DEF NumbersSame, ThreadSame, CreateAllocator
<1>6. CASE Notify(s) \/ NotifyStop(s)
  BY <1>0, <1>6 DEF NumbersSame, ThreadSame, HandList, Notify, NotifyStop, Woken, Shapes, OfStreams
<1>7. CASE RunFunction(s) \/ ExecuteEvent(s) \/ Drained(s) \/ FallAsleep(s)
  BY <1>0, <1>7 DEF NumbersSame, ThreadSame, HandList, RunFunction, ExecuteEvent, Drained, FallAsleep,
     hostVars, Shapes, OfStreams
<1>8. CASE Gpu(s)
  BY <1>8 DEF NumbersSame, ThreadSame, Gpu, hostVars, threadVars
<1> QED BY <1>1, <1>2, <1>3, <1>4, <1>5, <1>6, <1>7, <1>8
        DEF StreamStep, HostCall, HostStep, ThreadStep

LEMMA ExecuteFrames ==
  ASSUME TypeInv, NEW s \in Streams, FrameInv(s), Execute(s) PROVE FrameInv(s)'
<1>0. /\ todo[s] \in Seq(Entry) /\ lastFrame[s] \in Nat /\ lastFence[s] \in Nat /\ executedFrame[s] \in Nat
      /\ HandFrame(s) \in Nat
  BY HandTypes DEF TypeInv, ThreadTypes, HostTypes
<1>1. PICK x : x.kind = "list" /\ x.frame = lastFrame[s] + 1 /\ todo'[s] = Append(todo[s], x)
  BY StreamFunctions DEF Execute, Push, Shapes, OfStreams
<1>2. /\ lastFrame'[s] = lastFrame[s] + 1 /\ lastFence'[s] = lastFrame[s] + 1
      /\ executedFrame'[s] = executedFrame[s] /\ HandFrame(s)' = HandFrame(s)
  BY DEF Execute, NewFrame, threadVars, HandFrame, TypeInv, HostTypes
<1>3. \A i \in DOMAIN todo'[s] :
        \/ i \in DOMAIN todo[s] /\ todo'[s][i] = todo[s][i]
        \/ i = Len(todo[s]) + 1 /\ todo'[s][i] = x
  BY <1>0, <1>1
<1>4. \A i \in DOMAIN todo[s] : QueuedList(s, i) => todo[s][i].frame \in Nat
  BY <1>0, ListEntry DEF QueuedList
<1>5. FrameBounds(s)'
  <2>1. FrameBounds(s)
    BY DEF FrameInv
  <2>2. executedFrame'[s] <= lastFrame'[s] /\ lastFence'[s] <= lastFrame'[s] /\ HandFrame(s)' <= lastFence'[s]
    BY <1>0, <1>2, <2>1 DEF FrameBounds
  <2>3. ASSUME NEW i \in DOMAIN todo'[s], QueuedList(s, i)'
        PROVE  HandFrame(s)' < todo'[s][i].frame /\ todo'[s][i].frame <= lastFence'[s]
    <3>1. CASE i \in DOMAIN todo[s] /\ todo'[s][i] = todo[s][i]
      <4>1. QueuedList(s, i)
        BY <2>3, <3>1 DEF QueuedList
      <4>2. HandFrame(s) < todo[s][i].frame /\ todo[s][i].frame <= lastFence[s] /\ todo[s][i].frame \in Nat
        BY <1>4, <2>1, <3>1, <4>1 DEF FrameBounds
      <4> QED BY <1>0, <1>2, <2>1, <3>1, <4>2 DEF FrameBounds
    <3>2. CASE todo'[s][i] = x
      BY <1>0, <1>1, <1>2, <2>1, <3>2 DEF FrameBounds
    <3> QED BY <1>3, <3>1, <3>2
  <2> QED BY <2>2, <2>3 DEF FrameBounds
<1>6. FrameOrder(s)'
  <2> SUFFICES ASSUME NEW i \in DOMAIN todo'[s], NEW j \in DOMAIN todo'[s], j < i, QueuedList(s, i)',
                      QueuedList(s, j)'
               PROVE  todo'[s][j].frame < todo'[s][i].frame
    BY DEF FrameOrder
  <2>1. j \in DOMAIN todo[s] /\ QueuedList(s, j) /\ todo'[s][j] = todo[s][j]
    BY <1>0, <1>1, <1>3 DEF QueuedList
  <2>2. CASE i \in DOMAIN todo[s] /\ todo'[s][i] = todo[s][i]
    BY <2>1, <2>2 DEF FrameInv, FrameOrder, QueuedList
  <2>3. CASE todo'[s][i] = x
    BY <1>0, <1>1, <1>4, <2>1, <2>3 DEF FrameInv, FrameBounds
  <2> QED
    BY <1>3, <2>2, <2>3
<1>7. FrameDrained(s)'
  BY <1>0, <1>2 DEF FrameInv, FrameBounds, FrameDrained
<1> QED BY <1>5, <1>6, <1>7 DEF FrameInv

LEMMA ForceFrames ==
  ASSUME TypeInv, NEW s \in Streams, FrameInv(s), ForceSync(s) \/ EndForceSync(s) PROVE FrameInv(s)'
<1>0. lastFrame[s] \in Nat /\ lastFence[s] \in Nat /\ executedFrame[s] \in Nat
  BY DEF TypeInv, ThreadTypes, HostTypes
<1>1. /\ lastFrame'[s] \in {lastFrame[s], lastFrame[s] + 1} /\ lastFence'[s] = lastFence[s]
      /\ executedFrame'[s] \in {executedFrame[s], lastFrame[s]} /\ HandFrame(s)' = HandFrame(s)
      /\ todo'[s] = todo[s]
  BY DEF ForceSync, EndForceSync, NewFrame, threadVars, HandFrame, TypeInv, HostTypes, ThreadTypes
<1>2. host'[s].at \in {"encode", "force"}
  BY StreamFunctions DEF ForceSync, EndForceSync, Goto, Shapes, OfStreams
<1>3. FrameBounds(s)'
  BY <1>0, <1>1 DEF FrameInv, FrameBounds, QueuedList
<1>4. FrameOrder(s)'
  BY <1>1 DEF FrameInv, FrameOrder, QueuedList
<1> QED BY <1>2, <1>3, <1>4 DEF FrameInv, FrameDrained

LEMMA PopFrames ==
  ASSUME TypeInv, NEW s \in Streams, FrameInv(s), Pop(s) PROVE FrameInv(s)'
<1>0. todo[s] \in Seq(Entry) /\ lastFence[s] \in Nat
  BY DEF TypeInv, ThreadTypes, HostTypes
<1>1. /\ todo[s] # <<>> /\ todo'[s] = Tail(todo[s])
      /\ thread'[s] = [at |-> "visit", entry |-> Head(todo[s])]
      /\ NumbersSame(s) /\ host'[s] = host[s]
  BY StreamFunctions DEF Pop, hostVars, NumbersSame, Shapes, OfStreams
<1>2. \A i \in DOMAIN todo'[s] : i + 1 \in DOMAIN todo[s] /\ todo'[s][i] = todo[s][i + 1]
  BY <1>0, <1>1
<1>3. 1 \in DOMAIN todo[s] /\ Head(todo[s]) = todo[s][1] /\ \A i \in DOMAIN todo'[s] : 1 < i + 1
  BY <1>0, <1>1
<1>4. HandFrame(s)' = IF QueuedList(s, 1) THEN todo[s][1].frame ELSE 0
  BY <1>1, <1>3 DEF HandFrame, QueuedList
<1>5. \A i \in DOMAIN todo[s] : QueuedList(s, i) => todo[s][i].frame \in Nat
  BY <1>0, ListEntry DEF QueuedList
<1>6. FrameBounds(s)'
  <2>1. HandFrame(s)' <= lastFence[s]
    BY <1>0, <1>3, <1>4 DEF FrameInv, FrameBounds
  <2>2. ASSUME NEW i \in DOMAIN todo'[s], QueuedList(s, i)'
        PROVE  HandFrame(s)' < todo'[s][i].frame /\ todo'[s][i].frame <= lastFence[s]
    <3>1. QueuedList(s, i + 1) /\ todo'[s][i] = todo[s][i + 1] /\ i + 1 \in DOMAIN todo[s]
      BY <1>2, <2>2 DEF QueuedList
    <3>2. todo[s][i + 1].frame \in Nat /\ todo[s][i + 1].frame > HandFrame(s) /\ todo[s][i + 1].frame <= lastFence[s]
      BY <1>5, <3>1 DEF FrameInv, FrameBounds
    <3>3. QueuedList(s, 1) => todo[s][1].frame < todo[s][i + 1].frame
      BY <1>3, <2>2, <3>1 DEF FrameInv, FrameOrder
    <3>4. HandFrame(s) \in Nat
      BY HandTypes
    <3> QED BY <1>4, <3>1, <3>2, <3>3, <3>4
  <2> QED BY <1>1, <2>1, <2>2 DEF NumbersSame, FrameBounds, FrameInv
<1>7. FrameOrder(s)'
  <2> SUFFICES ASSUME NEW i \in DOMAIN todo'[s], NEW j \in DOMAIN todo'[s], j < i, QueuedList(s, i)', QueuedList(s, j)'
               PROVE  todo'[s][j].frame < todo'[s][i].frame
    BY DEF FrameOrder
  <2>1. j + 1 < i + 1 /\ QueuedList(s, i + 1) /\ QueuedList(s, j + 1)
    BY <1>0, <1>1, <1>2 DEF QueuedList
  <2> QED BY <1>2, <2>1 DEF FrameInv, FrameOrder
<1>8. FrameDrained(s)'
  <2>1. NoList(s) => NoList(s)'
    BY <1>1, <1>2, <1>3 DEF NoList, QueuedList, HandList
  <2> QED BY <1>1, <2>1 DEF FrameInv, FrameDrained, NumbersSame
<1> QED BY <1>6, <1>7, <1>8 DEF FrameInv

LEMMA CompleteFrames ==
  ASSUME TypeInv, NEW s \in Streams, FrameInv(s), CompleteList(s) PROVE FrameInv(s)'
<1>1. /\ todo'[s] = todo[s] /\ HandFrame(s)' = HandFrame(s) /\ ~HandList(s)' /\ NumbersSame(s)
  BY StreamFunctions DEF CompleteList, hostVars, HandFrame, HandList, NumbersSame, Shapes, OfStreams
<1> QED BY <1>1 DEF FrameInv, FrameBounds, FrameOrder, FrameDrained, NoList, QueuedList, NumbersSame

LEMMA PublishFrames ==
  ASSUME TypeInv, NEW s \in Streams, FrameInv(s), Publish(s) PROVE FrameInv(s)'
<1>0. todo[s] \in Seq(Entry) /\ lastFence[s] \in Nat /\ lastFrame[s] \in Nat /\ HandFrame(s) \in Nat
  BY HandTypes DEF TypeInv, ThreadTypes, HostTypes
<1>1. /\ todo'[s] = todo[s] /\ HandFrame(s)' = 0 /\ ~HandList(s)' /\ executedFrame'[s] = HandFrame(s)
      /\ lastFrame'[s] = lastFrame[s] /\ lastFence'[s] = lastFence[s]
  BY StreamFunctions DEF Publish, hostVars, HandFrame, HandList, Shapes, OfStreams, TypeInv, ThreadTypes
<1>2. \A i \in DOMAIN todo[s] : QueuedList(s, i) => todo[s][i].frame \in Nat
  BY <1>0, ListEntry DEF QueuedList
<1>3. FrameBounds(s)'
  BY <1>0, <1>1, <1>2 DEF FrameInv, FrameBounds, QueuedList
<1>4. FrameOrder(s)'
  BY <1>1 DEF FrameInv, FrameOrder, QueuedList
<1>5. FrameDrained(s)'
  BY <1>0, <1>1, <1>2 DEF FrameInv, FrameBounds, FrameDrained, NoList, QueuedList
<1> QED BY <1>3, <1>4, <1>5 DEF FrameInv

LEMMA FramesKept ==
  ASSUME TypeInv, NEW s \in Streams, FrameInv(s), StreamStep(s) PROVE FrameInv(s)'
BY OtherSteps, FrameKept, ExecuteFrames, ForceFrames, PopFrames, CompleteFrames, PublishFrames

-----------------------------------------------------------------------------
\* The entry of the last signal of an event is behind all that the signal followed.
Behind(s, n, x) ==
    x.kind = "event" =>
        /\ x.value <= fenceIndex[x.event]
        /\ x.value = fenceIndex[x.event]
             => signal[x.event].stream = s /\ \A t \in 1 .. signal[x.event].ticket : Known(s, n, t)
EventsBehind(s) ==
    /\ \A i \in DOMAIN todo[s] : Behind(s, i, todo[s][i])
    /\ thread[s].at = "visit" => Behind(s, 0, thread[s].entry)

\* Once it has reached the host, all that has run.
EventCovered(e) ==
    /\ finishedEvent[e] <= fenceIndex[e]
    /\ finishedEvent[e] = fenceIndex[e] => 1 .. signal[e].ticket \subseteq ran[signal[e].stream]

LEMMA IndexEffect ==
  ASSUME TypeInv, NEW s \in Streams, StreamStep(s)
  PROVE  (fenceIndex' = fenceIndex /\ signal' = signal) \/ \E e \in Events : Signal(s, e)
BY DEF StreamStep, HostCall, BeginExecute, Callback, BeginSync, Destroy, Wait, ForceSync, HostStep,
   CreateAllocator,
   Execute, EndForceSync, Notify, EndSync, NotifyStop, Join, ThreadStep, Pop, CompleteList, Publish, RunFunction,
   ExecuteEvent, Drained, FallAsleep, Gpu

\* A new signal of an event leaves the entries of the earlier ones behind.
LEMMA BehindKept ==
  ASSUME TypeInv, NEW s \in Streams, StreamStep(s), NEW r \in Streams, NEW n, NEW m, NEW x \in Entry,
         Behind(r, n, x), \A t : Known(r, n, t) => Known(r, m, t)'
  PROVE  Behind(r, m, x)'
<1>1. CASE fenceIndex' = fenceIndex /\ signal' = signal
  BY <1>1 DEF Behind
<1>2. ASSUME NEW e \in Events, Signal(s, e) PROVE Behind(r, m, x)'
  <2>1. fenceIndex \in [Events -> Nat] /\ signal \in [Events -> Point]
    BY DEF TypeInv, HostTypes
  <2>2. /\ fenceIndex' = [fenceIndex EXCEPT ![e] = @ + 1]
        /\ \A v \in Events : v # e => signal'[v] = signal[v]
    BY <1>2, <2>1 DEF Signal
  <2>3. x.kind = "event" => x.event \in Events /\ x.value \in Nat
    BY EventEntry
  <2>4. CASE x.event = e
    BY <2>1, <2>2, <2>3, <2>4 DEF Behind
  <2>5. CASE x.event # e
    BY <2>1, <2>2, <2>3, <2>5 DEF Behind
  <2> QED BY <2>4, <2>5
<1> QED BY <1>1, <1>2, IndexEffect

LEMMA EventsKeptHere ==
  ASSUME TypeInv, NEW s \in Streams, StreamStep(s), TicketsKnown(s), EventsBehind(s)
  PROVE  EventsBehind(s)'
<1>0. todo[s] \in Seq(Entry) /\ DOMAIN todo[s] \subseteq Nat
  BY DEF TypeInv, ThreadTypes
<1>1. thread[s].at = "visit" => thread[s].entry \in Entry
  BY Visiting
<1>2. \A n, m : \A x \in Entry :
        Behind(s, n, x) /\ (\A t : Known(s, n, t) => Known(s, m, t)') => Behind(s, m, x)'
  BY BehindKept
<1>3. CASE Quiet(s) \/ Finished(s)
  <2>1. \A n \in Nat : \A t : Known(s, n, t) => Known(s, n, t)'
    BY <1>3, KnownKept
  <2>2. todo'[s] = todo[s] /\ (thread'[s] = thread[s] \/ thread'[s].at # "visit")
    BY <1>3 DEF Quiet, Finished
  <2>3. ASSUME NEW i \in DOMAIN todo[s] PROVE Behind(s, i, todo[s][i])'
    <3>1. Behind(s, i, todo[s][i]) /\ todo[s][i] \in Entry /\ i \in Nat
      BY <1>0 DEF EventsBehind
    <3>2. \A x : x = todo[s][i] => Behind(s, i, x)'
      BY <1>2, <2>1, <3>1
    <3> QED BY <2>2, <3>2
  <2>4. ASSUME thread'[s].at = "visit" PROVE Behind(s, 0, thread[s].entry)'
    <3>1. \A x : x = thread[s].entry => Behind(s, 0, x)'
      BY <1>1, <1>2, <2>1, <2>2, <2>4 DEF EventsBehind
    <3> QED BY <2>2, <2>4, <3>1
  <2> QED BY <2>2, <2>3, <2>4 DEF EventsBehind
<1>4. CASE Pushed(s)
  <2>1. PICK x \in Entry :
           /\ PushedEntry(s, x)
           /\ x.kind = "event" => \E e \in Events : Signal(s, e) /\ x = NewEventEntry(e)
    BY <1>4 DEF Pushed
  <2>2. \A n \in Nat : \A t : Known(s, n, t) => Known(s, n, t)'
    BY <1>4, KnownKept
  <2>3. thread'[s] = thread[s] /\ todo'[s] = Append(todo[s], x)
    BY <2>1 DEF PushedEntry
  <2>4. ASSUME NEW i \in DOMAIN todo[s] PROVE Behind(s, i, todo[s][i])'
    <3>1. Behind(s, i, todo[s][i]) /\ todo[s][i] \in Entry /\ i \in Nat
      BY <1>0 DEF EventsBehind
    <3>2. \A y : y = todo[s][i] => Behind(s, i, y)'
      BY <1>2, <2>2, <3>1
    <3>3. todo'[s][i] = todo[s][i]
      BY <1>0, <2>3
    <3> QED BY <3>2, <3>3
  <2>5. ASSUME NEW k \in Nat, k = Len(todo[s]) + 1 PROVE Behind(s, k, x)'
    <3> SUFFICES ASSUME x.kind = "event" PROVE Behind(s, k, x)'
      BY DEF Behind
    <3>1. PICK e \in Events : Signal(s, e) /\ x = NewEventEntry(e)
      BY <2>1
    <3>2. /\ signal' = [signal EXCEPT ![e] = [stream |-> s, frame |-> lastFrame[s], ticket |-> submitted[s]]]
          /\ fenceIndex' = [fenceIndex EXCEPT ![e] = @ + 1] /\ host[s].at # "force"
      BY <3>1 DEF Signal, Call, Ready
    <3>3. signal \in [Events -> Point] /\ fenceIndex \in [Events -> Nat] /\ submitted[s] \in Nat
      BY DEF TypeInv, HostTypes
    <3>4. signal'[e].stream = s /\ signal'[e].ticket = submitted[s]
      BY <3>2, <3>3
    <3>5. x.event = e /\ x.value = fenceIndex'[e] /\ x.value \in Nat
      BY <3>1, <3>2, <3>3 DEF NewEventEntry
    <3>6. \A t \in 1 .. submitted[s] : Known(s, k, t)'
      BY <2>2, <2>5, <3>2, <3>3 DEF TicketsKnown
    <3> QED BY <3>3, <3>4, <3>5, <3>6 DEF Behind
  <2>6. ASSUME NEW i \in DOMAIN todo'[s] PROVE Behind(s, i, todo[s][i])'
    <3>1. CASE i \in DOMAIN todo[s]
      BY <2>4, <3>1
    <3>2. CASE i = Len(todo[s]) + 1
      <4>1. todo'[s][i] = x /\ i \in Nat
        BY <1>0, <2>3, <3>2
      <4> QED BY <2>5, <3>2, <4>1
    <3> QED BY <1>0, <2>3, <3>1, <3>2
  <2>7. ASSUME thread'[s].at = "visit" PROVE Behind(s, 0, thread[s].entry)'
    <3>1. \A y : y = thread[s].entry => Behind(s, 0, y)'
      BY <1>1, <1>2, <2>2, <2>3, <2>7 DEF EventsBehind
    <3> QED BY <2>3, <3>1
  <2> QED BY <2>6, <2>7 DEF EventsBehind
<1>5. CASE Popped(s)
  <2>1. \A n \in Nat : \A t : Known(s, n + 1, t) => Known(s, n, t)'
    BY <1>5, KnownPopped
  <2>2. /\ todo[s] # <<>> /\ todo'[s] = Tail(todo[s])
        /\ thread'[s] = [at |-> "visit", entry |-> Head(todo[s])]
    BY <1>5 DEF Popped
  <2>3. ASSUME NEW i \in DOMAIN todo'[s] PROVE Behind(s, i, todo[s][i])'
    <3>1. i + 1 \in DOMAIN todo[s] /\ todo'[s][i] = todo[s][i + 1] /\ i \in Nat
      BY <1>0, <2>2
    <3>2. Behind(s, i + 1, todo[s][i + 1]) /\ todo[s][i + 1] \in Entry
      BY <1>0, <3>1 DEF EventsBehind
    <3>3. \A y : y = todo[s][i + 1] => Behind(s, i, y)'
      BY <1>2, <2>1, <3>1, <3>2
    <3> QED BY <3>1, <3>3
  <2>4. Behind(s, 0, thread[s].entry)'
    <3>1. 1 \in DOMAIN todo[s] /\ Head(todo[s]) = todo[s][1] /\ todo[s][1] \in Entry
      BY <1>0, <2>2
    <3>2. Behind(s, 0 + 1, todo[s][1])
      BY <3>1 DEF EventsBehind
    <3>3. \A y : y = todo[s][1] => Behind(s, 0, y)'
      BY <1>2, <2>1, <3>1, <3>2
    <3> QED BY <2>2, <3>1, <3>3
  <2> QED BY <2>3, <2>4 DEF EventsBehind
<1> QED BY <1>3, <1>4, <1>5, StepEffect

LEMMA EventsKeptElsewhere ==
  ASSUME TypeInv, NEW s \in Streams, StreamStep(s), NEW r \in Streams, r # s, EventsBehind(r)
  PROVE  EventsBehind(r)'
<1>1. SameAt(r)
  BY StreamFunctions, OthersKept
<1>2. todo[r] \in Seq(Entry) /\ (thread[r].at = "visit" => thread[r].entry \in Entry)
  BY Visiting DEF TypeInv, ThreadTypes
<1>3. \A n : \A t : Known(r, n, t) => Known(r, n, t)'
  BY <1>1 DEF SameAt, Known, InHand, Queued
<1>4. \A n : \A x \in Entry : Behind(r, n, x) => Behind(r, n, x)'
  BY <1>3, BehindKept
<1>5. ASSUME NEW i \in DOMAIN todo[r] PROVE Behind(r, i, todo[r][i])'
  <2>1. \A x : x = todo[r][i] => Behind(r, i, x)'
    BY <1>2, <1>4 DEF EventsBehind
  <2> QED BY <1>1, <2>1 DEF SameAt
<1>6. ASSUME thread[r].at = "visit" PROVE Behind(r, 0, thread[r].entry)'
  <2>1. \A x : x = thread[r].entry => Behind(r, 0, x)'
    BY <1>2, <1>4, <1>6 DEF EventsBehind
  <2> QED BY <1>1, <2>1 DEF SameAt
<1> QED BY <1>1, <1>5, <1>6 DEF SameAt, EventsBehind

\* What has run stays so.
LEMMA RanKept ==
  ASSUME TypeInv, NEW s \in Streams, StreamStep(s), NEW r \in Streams
  PROVE  ran[r] \subseteq ran'[r]
<1>1. CASE r = s
  BY <1>1, StepEffect DEF Quiet, Pushed, PushedEntry, Popped, Finished
<1>2. CASE r # s
  BY <1>2, StreamFunctions, OthersKept DEF SameAt
<1> QED BY <1>1, <1>2

LEMMA FinishedEffect ==
  ASSUME TypeInv, NEW s \in Streams, StreamStep(s)
  PROVE  finishedEvent' = finishedEvent \/ ExecuteEvent(s)
BY DEF StreamStep, HostCall, BeginExecute, Callback, BeginSync, Destroy, Signal, Wait, ForceSync, HostStep,
   CreateAllocator, Execute, EndForceSync, Notify, EndSync, NotifyStop, Join, ThreadStep, Pop, CompleteList,
   Publish, RunFunction, Drained, FallAsleep, Gpu, threadVars

LEMMA CoveredKept ==
  ASSUME TypeInv, NEW s \in Streams, StreamStep(s), EventsBehind(s), NEW e \in Events, EventCovered(e)
  PROVE  EventCovered(e)'
<1>0. /\ fenceIndex \in [Events -> Nat] /\ finishedEvent \in [Events -> Nat]
      /\ signal \in [Events -> Point] /\ signal[e].stream \in Streams /\ DOMAIN todo[s] \subseteq Nat \ {0}
  <2>1. todo[s] \in Seq(Entry) /\ finishedEvent \in [Events -> Nat]
    BY DEF TypeInv, ThreadTypes
  <2>2. fenceIndex \in [Events -> Nat] /\ signal \in [Events -> Point]
    BY DEF TypeInv, HostTypes
  <2> QED BY <2>1, <2>2 DEF Point
<1>1. ran[signal[e].stream] \subseteq ran'[signal[e].stream]
  BY <1>0, RanKept
<1>2. CASE fenceIndex' = fenceIndex /\ signal' = signal /\ finishedEvent' = finishedEvent
  BY <1>1, <1>2 DEF EventCovered
<1>3. ASSUME NEW v \in Events, Signal(s, v) PROVE EventCovered(e)'
  <2>1. /\ fenceIndex' = [fenceIndex EXCEPT ![v] = @ + 1] /\ finishedEvent' = finishedEvent
        /\ v # e => signal'[e] = signal[e]
    BY <1>0, <1>3 DEF Signal, threadVars
  <2> QED BY <1>0, <1>1, <2>1 DEF EventCovered
<1>4. CASE ExecuteEvent(s)
  <2>1. thread[s].at = "visit" /\ thread[s].entry.kind = "event"
    BY <1>4 DEF ExecuteEvent
  <2>2. thread[s].entry.event \in Events /\ thread[s].entry.value \in Nat
    BY <2>1, Visiting, EventEntry
  <2>3. /\ finishedEvent' = [finishedEvent EXCEPT ![thread[s].entry.event] = thread[s].entry.value]
        /\ fenceIndex' = fenceIndex /\ signal' = signal /\ ran' = ran
    BY <1>4 DEF ExecuteEvent
  <2>4. CASE thread[s].entry.event = e
    <3>1. finishedEvent'[e] = thread[s].entry.value
      BY <1>0, <2>3, <2>4
    <3>2. Behind(s, 0, thread[s].entry)
      BY <2>1 DEF EventsBehind
    <3>3. \A t : Known(s, 0, t) => t \in ran[s]
      BY <1>0, <2>1 DEF Known, InHand, Queued
    <3> QED BY <2>1, <2>3, <2>4, <3>1, <3>2, <3>3 DEF Behind, EventCovered
  <2>5. CASE thread[s].entry.event # e
    BY <1>0, <2>2, <2>3, <2>5 DEF EventCovered
  <2> QED BY <2>4, <2>5
<1>5. ExecuteEvent(s) => fenceIndex' = fenceIndex
  BY DEF ExecuteEvent
<1>6. \A v \in Events : Signal(s, v) => finishedEvent' = finishedEvent
  BY DEF Signal, threadVars
<1> QED BY <1>2, <1>3, <1>4, FinishedEffect, IndexEffect

-----------------------------------------------------------------------------
\* What the D3D12 queue of stream r has done when it comes to its item n.
DoneBefore(r, f, n) ==
    \/ f <= cmdFence[r]
    \/ \E j \in DOMAIN gpu[r] : j < n /\ gpu[r][j].op = "list" /\ gpu[r][j].frame >= f

\* The lists of a D3D12 queue are in the order of their frames, up to the last.
GpuBounds(r) ==
    /\ cmdFence[r] <= lastFrame[r]
    /\ \A i \in DOMAIN gpu[r] : gpu[r][i].op = "list" => gpu[r][i].frame \in cmdFence[r] + 1 .. lastFrame[r]
GpuSorted(r) ==
    \A i, j \in DOMAIN gpu[r] :
        j < i /\ gpu[r][i].op = "list" /\ gpu[r][j].op = "list" => gpu[r][j].frame < gpu[r][i].frame
GpuOrder(r) == GpuBounds(r) /\ GpuSorted(r) /\ DoneBefore(r, lastFrame[r], Len(gpu[r]) + 1)

\* What a step of stream s does to the items of its D3D12 queue.
Appended(s, x) == gpu'[s] = Append(gpu[s], x) /\ cmdFence' = cmdFence /\ fence' = fence
Framed(s) ==
    /\ lastFrame'[s] = lastFrame[s] + 1 /\ fenceIndex' = fenceIndex /\ signal' = signal
    /\ \E x \in Item : Appended(s, x) /\ x.op = "list" /\ x.frame = lastFrame[s] + 1
Signalled(s) == \E e \in Events :
    /\ <<s, e>> \in Signals /\ Signal(s, e) /\ lastFrame'[s] = lastFrame[s]
    /\ Appended(s, [op |-> "signal", event |-> e, value |-> fenceIndex[e] + 1])
Waited(s) == \E e \in Events :
    /\ lastFrame'[s] = lastFrame[s] /\ fenceIndex' = fenceIndex /\ signal' = signal
    /\ Appended(s, [op |-> "wait", event |-> e, value |-> fenceIndex[e], after |-> signal[e]])
GpuIdle(s) ==
    /\ gpu'[s] = gpu[s] /\ cmdFence' = cmdFence /\ fence' = fence /\ lastFrame'[s] = lastFrame[s]
    /\ fenceIndex' = fenceIndex /\ signal' = signal

LEMMA GpuEffect ==
  ASSUME TypeInv, NEW s \in Streams, StreamStep(s)
  PROVE  GpuIdle(s) \/ Framed(s) \/ Signalled(s) \/ Waited(s) \/ Gpu(s)
<1>0. Shapes /\ HostTypes
  BY StreamFunctions DEF TypeInv
<1>1. CASE BeginExecute(s) \/ Callback(s) \/ BeginSync(s) \/ Destroy(s) \/ CreateAllocator(s) \/
           EndForceSync(s)
           \/ Notify(s) \/ EndSync(s) \/ NotifyStop(s) \/ Join(s)
  BY <1>1 DEF GpuIdle, BeginExecute, Callback, BeginSync, Destroy, CreateAllocator, EndForceSync, Notify,
     EndSync,
     NotifyStop, Join, gpuVars
<1>2. CASE ThreadStep(s)
  BY <1>2 DEF GpuIdle, ThreadStep, Pop, CompleteList, Publish, RunFunction, ExecuteEvent, Drained, FallAsleep,
     gpuVars, hostVars
<1>3. CASE Execute(s) \/ ForceSync(s)
  <2> DEFINE x == [op |-> "list", frame |-> lastFrame[s] + 1, alloc |-> host[s].alloc, ticket |-> submitted[s] + 1]
  <2>1. host[s].alloc \in Nat
    BY <1>3, HostAlloc DEF Execute, ForceSync
  <2>2. x \in Item
    BY <1>0, <2>1, ListItem DEF HostTypes
  <2>3. Appended(s, x)
    BY <1>0, <1>3 DEF Appended, Execute, ForceSync, NewFrame, Queue, Shapes, OfStreams
  <2>4. lastFrame'[s] = lastFrame[s] + 1 /\ fenceIndex' = fenceIndex /\ signal' = signal
    BY <1>0, <1>3 DEF Execute, ForceSync, NewFrame, HostTypes
  <2> QED BY <2>2, <2>3, <2>4 DEF Framed
<1>4. ASSUME NEW e \in Events, <<s, e>> \in Signals, Signal(s, e) PROVE Signalled(s)
  <2>1. Appended(s, [op |-> "signal", event |-> e, value |-> fenceIndex[e] + 1])
    BY <1>0, <1>4 DEF Appended, Signal, Queue, Shapes, OfStreams
  <2>2. lastFrame' = lastFrame
    BY <1>4 DEF Signal
  <2> QED BY <1>4, <2>1, <2>2 DEF Signalled
<1>5. ASSUME NEW e \in Events, Wait(s, e) PROVE Waited(s)
  BY <1>0, <1>5 DEF Waited, Appended, Wait, WaitedValue, Queue, Shapes, OfStreams
<1> QED BY <1>1, <1>2, <1>3, <1>4, <1>5 DEF StreamStep, HostCall, HostStep

LEMMA GpuTyped ==
  ASSUME TypeInv, NEW r \in Streams
  PROVE  /\ gpu[r] \in Seq(Item) /\ Len(gpu[r]) \in Nat /\ DOMAIN gpu[r] = 1 .. Len(gpu[r])
         /\ cmdFence[r] \in Nat /\ lastFrame[r] \in Nat
         /\ \A i \in DOMAIN gpu[r] : gpu[r][i] \in Item /\ (gpu[r][i].op = "list" => gpu[r][i].frame \in Nat)
<1>1. gpu[r] \in Seq(Item) /\ cmdFence[r] \in Nat
  BY DEF TypeInv, GpuTypes
<1>2. lastFrame[r] \in Nat
  BY DEF TypeInv, HostTypes
<1> QED BY <1>1, <1>2, ItemFields

LEMMA GpuTakes ==
  ASSUME TypeInv, NEW s \in Streams, GpuOrder(s), Gpu(s)
  PROVE  /\ gpu[s] # <<>> /\ 1 \in DOMAIN gpu[s] /\ Head(gpu[s]) = gpu[s][1] /\ gpu'[s] = Tail(gpu[s])
         /\ \A i \in DOMAIN gpu'[s] : i + 1 \in DOMAIN gpu[s] /\ gpu'[s][i] = gpu[s][i + 1]
         /\ lastFrame' = lastFrame /\ fenceIndex' = fenceIndex /\ signal' = signal
         /\ cmdFence'[s] = IF gpu[s][1].op = "list" THEN gpu[s][1].frame ELSE cmdFence[s]
         /\ cmdFence'[s] \in Nat /\ cmdFence[s] <= cmdFence'[s]
<1>1. gpu[s] # <<>> /\ gpu'[s] = Tail(gpu[s])
  BY StreamFunctions DEF Gpu, Shapes, OfStreams
<1>2. 1 \in DOMAIN gpu[s] /\ Head(gpu[s]) = gpu[s][1]
  BY <1>1, GpuTyped
<1>3. \A i \in DOMAIN gpu'[s] : i + 1 \in DOMAIN gpu[s] /\ gpu'[s][i] = gpu[s][i + 1]
  BY <1>1, GpuTyped
<1>4. cmdFence'[s] = IF gpu[s][1].op = "list" THEN gpu[s][1].frame ELSE cmdFence[s]
  BY <1>2, StreamFunctions DEF Gpu, Shapes, OfStreams
<1>5. cmdFence'[s] \in Nat /\ cmdFence[s] <= cmdFence'[s]
  BY <1>2, <1>4, GpuTyped DEF GpuOrder, GpuBounds
<1>6. lastFrame' = lastFrame /\ fenceIndex' = fenceIndex /\ signal' = signal
  BY DEF Gpu, hostVars
<1> QED BY <1>1, <1>2, <1>3, <1>4, <1>5, <1>6

\* An item of the queue was there before the step, at the place it has or one
\* later, and all that was done before it still is.
WasThere(r, i) ==
    \E k \in DOMAIN gpu[r] :
        /\ gpu'[r][i] = gpu[r][k]
        /\ \A f \in Nat : DoneBefore(r, f, k) => DoneBefore(r, f, i)'

LEMMA DoneKept ==
  ASSUME TypeInv, NEW r \in Streams, NEW x, Appended(r, x)
  PROVE  \A n \in Nat, f \in Nat : DoneBefore(r, f, n) => DoneBefore(r, f, n)'
<1> SUFFICES ASSUME NEW n \in Nat, NEW f \in Nat, DoneBefore(r, f, n) PROVE DoneBefore(r, f, n)'
  OBVIOUS
<1>1. \A j \in DOMAIN gpu[r] : j \in DOMAIN gpu'[r] /\ gpu'[r][j] = gpu[r][j]
  BY GpuTyped DEF Appended
<1> QED BY <1>1 DEF DoneBefore, Appended

LEMMA DoneTaken ==
  ASSUME TypeInv, NEW s \in Streams, GpuOrder(s), Gpu(s)
  PROVE  \A n \in Nat, f \in Nat : DoneBefore(s, f, n + 1) => DoneBefore(s, f, n)'
<1> SUFFICES ASSUME NEW n \in Nat, NEW f \in Nat, DoneBefore(s, f, n + 1) PROVE DoneBefore(s, f, n)'
  OBVIOUS
<1>1. CASE f <= cmdFence[s]
  BY <1>1, GpuTakes, GpuTyped DEF DoneBefore
<1>2. ASSUME NEW j \in DOMAIN gpu[s], j < n + 1, gpu[s][j].op = "list", gpu[s][j].frame >= f
      PROVE  DoneBefore(s, f, n)'
  <2>1. CASE j = 1
    BY <1>2, <2>1, GpuTakes DEF DoneBefore
  <2>2. CASE j # 1
    <3>1. gpu[s] \in Seq(Item) /\ gpu'[s] = Tail(gpu[s]) /\ gpu[s] # <<>>
      BY GpuTyped, GpuTakes
    <3>2. j - 1 \in DOMAIN gpu'[s] /\ gpu'[s][j - 1] = gpu[s][j] /\ j - 1 < n
      BY <1>2, <2>2, <3>1
    <3> QED BY <1>2, <3>2 DEF DoneBefore
  <2> QED BY <2>1, <2>2
<1> QED BY <1>1, <1>2 DEF DoneBefore

LEMMA Earlier ==
  ASSUME TypeInv, NEW s \in Streams, StreamStep(s), NEW r \in Streams, GpuOrder(s), NEW i \in DOMAIN gpu'[r]
  PROVE  WasThere(r, i) \/ (r = s /\ i = Len(gpu[s]) + 1 /\ Appended(s, gpu'[s][i]))
<1>0. gpu[r] \in Seq(Item)
  BY GpuTyped
<1>1. CASE gpu'[r] = gpu[r] /\ cmdFence'[r] = cmdFence[r]
  BY <1>1 DEF WasThere, DoneBefore
<1>2. ASSUME NEW x, Appended(s, x), r = s
      PROVE  WasThere(r, i) \/ (i = Len(gpu[s]) + 1 /\ Appended(s, gpu'[s][i]))
  <2>1. CASE i \in DOMAIN gpu[s]
    <3>1. gpu'[s][i] = gpu[s][i] /\ i \in Nat
      BY <1>0, <1>2, <2>1 DEF Appended
    <3> QED BY <1>2, <2>1, <3>1, DoneKept DEF WasThere
  <2>2. CASE i \notin DOMAIN gpu[s]
    <3>1. i = Len(gpu[s]) + 1 /\ gpu'[s][i] = x
      BY <1>0, <1>2, <2>2 DEF Appended
    <3> QED BY <1>2, <3>1
  <2> QED BY <2>1, <2>2
<1>3. CASE Gpu(s) /\ r = s
  <2>1. i + 1 \in DOMAIN gpu[s] /\ gpu'[s][i] = gpu[s][i + 1]
    BY <1>3, GpuTakes
  <2>2. i \in Nat
    <3>1. gpu[s] \in Seq(Item) /\ gpu[s] # <<>> /\ gpu'[s] = Tail(gpu[s])
      BY <1>0, <1>3, GpuTakes
    <3> QED BY <1>3, <3>1
  <2> QED BY <1>3, <2>1, <2>2, DoneTaken DEF WasThere
<1>4. CASE r # s
  BY <1>1, <1>4, StreamFunctions, OthersKept DEF SameAt
<1> QED BY <1>1, <1>2, <1>3, <1>4, GpuEffect DEF GpuIdle, Framed, Signalled, Waited

LEMMA GpuOrderAppended ==
  ASSUME TypeInv, NEW s \in Streams, NEW x, Appended(s, x), GpuOrder(s),
         \/ x.op # "list" /\ lastFrame'[s] = lastFrame[s]
         \/ x.op = "list" /\ lastFrame'[s] = lastFrame[s] + 1 /\ x.frame = lastFrame[s] + 1
  PROVE  GpuOrder(s)'
<1>0. gpu[s] \in Seq(Item) /\ Len(gpu[s]) \in Nat /\ cmdFence[s] \in Nat /\ lastFrame[s] \in Nat
  BY GpuTyped
<1>1. /\ cmdFence'[s] = cmdFence[s] /\ Len(gpu'[s]) = Len(gpu[s]) + 1 /\ Len(gpu[s]) + 1 \in DOMAIN gpu'[s]
      /\ gpu'[s][Len(gpu[s]) + 1] = x
  BY <1>0 DEF Appended
<1>2. \A i \in DOMAIN gpu'[s] :
        \/ i \in DOMAIN gpu[s] /\ gpu'[s][i] = gpu[s][i] /\ i < Len(gpu[s]) + 1
        \/ i = Len(gpu[s]) + 1 /\ gpu'[s][i] = x
  BY <1>0 DEF Appended
<1>3. \A i \in DOMAIN gpu[s] : gpu[s][i].op = "list" =>
        gpu[s][i].frame \in Nat /\ gpu[s][i].frame \in cmdFence[s] + 1 .. lastFrame[s]
  BY GpuTyped DEF GpuOrder, GpuBounds
<1>4. GpuBounds(s)'
  <2>1. cmdFence[s] <= lastFrame[s] /\ lastFrame'[s] \in {lastFrame[s], lastFrame[s] + 1}
    BY DEF GpuOrder, GpuBounds
  <2>2. ASSUME NEW i \in DOMAIN gpu'[s], gpu'[s][i].op = "list"
        PROVE  gpu'[s][i].frame \in cmdFence[s] + 1 .. lastFrame'[s]
    BY <1>0, <1>2, <1>3, <2>1, <2>2
  <2> QED BY <1>0, <1>1, <2>1, <2>2 DEF GpuBounds
<1>5. GpuSorted(s)'
  <2>1. ASSUME NEW i \in DOMAIN gpu'[s], NEW j \in DOMAIN gpu'[s], j < i,
               gpu'[s][i].op = "list", gpu'[s][j].op = "list"
        PROVE  gpu'[s][j].frame < gpu'[s][i].frame
    <3>1. j \in DOMAIN gpu[s] /\ gpu'[s][j] = gpu[s][j]
      BY <1>0, <1>2, <2>1
    <3>2. CASE i \in DOMAIN gpu[s] /\ gpu'[s][i] = gpu[s][i]
      BY <2>1, <3>1, <3>2 DEF GpuOrder, GpuSorted
    <3>3. CASE gpu'[s][i] = x
      BY <1>0, <1>3, <2>1, <3>1, <3>3
    <3> QED BY <1>2, <3>2, <3>3
  <2> QED BY <2>1 DEF GpuSorted
<1>6. DoneBefore(s, lastFrame[s], Len(gpu[s]) + 1)'
  <2>1. CASE x.op = "list"
    BY <1>0, <1>1, <2>1 DEF DoneBefore
  <2>2. CASE x.op # "list"
    <3>1. lastFrame'[s] = lastFrame[s]
      BY <2>2
    <3>2. CASE lastFrame[s] <= cmdFence[s]
      BY <1>1, <3>1, <3>2 DEF DoneBefore
    <3>3. ASSUME NEW j \in DOMAIN gpu[s], gpu[s][j].op = "list", gpu[s][j].frame >= lastFrame[s]
          PROVE  DoneBefore(s, lastFrame[s], Len(gpu[s]) + 1)'
      <4>1. j \in DOMAIN gpu'[s] /\ gpu'[s][j] = gpu[s][j] /\ j < Len(gpu'[s]) + 1
        BY <1>0 DEF Appended
      <4> QED BY <3>1, <3>3, <4>1 DEF DoneBefore
    <3> QED BY <3>2, <3>3 DEF GpuOrder, DoneBefore
  <2> QED BY <2>1, <2>2
<1> QED BY <1>4, <1>5, <1>6 DEF GpuOrder

LEMMA GpuOrderTaken ==
  ASSUME TypeInv, NEW s \in Streams, Gpu(s), GpuOrder(s) PROVE GpuOrder(s)'
<1>0. gpu[s] \in Seq(Item) /\ Len(gpu[s]) \in Nat /\ cmdFence[s] \in Nat /\ lastFrame[s] \in Nat
  BY GpuTyped
<1>1. /\ 1 \in DOMAIN gpu[s] /\ gpu[s] # <<>> /\ gpu'[s] = Tail(gpu[s]) /\ lastFrame'[s] = lastFrame[s]
      /\ \A i \in DOMAIN gpu'[s] : i + 1 \in DOMAIN gpu[s] /\ gpu'[s][i] = gpu[s][i + 1]
      /\ cmdFence'[s] = IF gpu[s][1].op = "list" THEN gpu[s][1].frame ELSE cmdFence[s]
      /\ cmdFence'[s] \in Nat
  BY GpuTakes
<1>2. \A i \in DOMAIN gpu'[s] : i \in Nat /\ 1 < i + 1
  BY <1>0, <1>1
<1>3. \A i \in DOMAIN gpu[s] : gpu[s][i].op = "list" =>
        gpu[s][i].frame \in Nat /\ gpu[s][i].frame \in cmdFence[s] + 1 .. lastFrame[s]
  BY GpuTyped DEF GpuOrder, GpuBounds
<1>4. GpuBounds(s)'
  <2>1. cmdFence'[s] <= lastFrame[s]
    BY <1>0, <1>1, <1>3 DEF GpuOrder, GpuBounds
  <2>2. ASSUME NEW i \in DOMAIN gpu'[s], gpu'[s][i].op = "list"
        PROVE  gpu'[s][i].frame \in cmdFence'[s] + 1 .. lastFrame[s]
    <3>1. i + 1 \in DOMAIN gpu[s] /\ gpu'[s][i] = gpu[s][i + 1] /\ 1 < i + 1
      BY <1>1, <1>2
    <3>2. gpu[s][i + 1].frame \in Nat /\ gpu[s][i + 1].frame \in cmdFence[s] + 1 .. lastFrame[s]
      BY <1>3, <2>2, <3>1
    <3>3. gpu[s][1].op = "list" => gpu[s][1].frame < gpu[s][i + 1].frame /\ gpu[s][1].frame \in Nat
      BY <1>1, <1>3, <2>2, <3>1 DEF GpuOrder, GpuSorted
    <3> QED BY <1>0, <1>1, <3>1, <3>2, <3>3
  <2> QED BY <1>1, <2>1, <2>2 DEF GpuBounds
<1>5. GpuSorted(s)'
  <2> SUFFICES ASSUME NEW i \in DOMAIN gpu'[s], NEW j \in DOMAIN gpu'[s], j < i,
                      gpu'[s][i].op = "list", gpu'[s][j].op = "list"
               PROVE  gpu'[s][j].frame < gpu'[s][i].frame
    BY DEF GpuSorted
  <2>1. j + 1 < i + 1
    BY <1>2
  <2> QED BY <1>1, <2>1 DEF GpuOrder, GpuSorted
<1>6. DoneBefore(s, lastFrame[s], Len(gpu[s]) + 1)'
  <2>1. Len(gpu'[s]) + 1 = Len(gpu[s])
    BY <1>0, <1>1
  <2>2. \A n \in Nat : n = Len(gpu[s]) => DoneBefore(s, lastFrame[s], n + 1)
    BY DEF GpuOrder
  <2>3. \A n, f \in Nat : n = Len(gpu[s]) /\ f = lastFrame[s] => DoneBefore(s, f, n)'
    BY <1>0, <2>2, DoneTaken
  <2> QED BY <1>0, <1>1, <2>1, <2>3
<1> QED BY <1>4, <1>5, <1>6 DEF GpuOrder

LEMMA GpuOrderKept ==
  ASSUME TypeInv, NEW s \in Streams, StreamStep(s), GpuOrder(s) PROVE GpuOrder(s)'
<1>1. CASE GpuIdle(s)
  BY <1>1 DEF GpuIdle, GpuOrder, GpuBounds, GpuSorted, DoneBefore
<1>2. CASE Framed(s) \/ Signalled(s) \/ Waited(s)
  BY <1>2, GpuOrderAppended DEF Framed, Signalled, Waited
<1> QED BY <1>1, <1>2, GpuOrderTaken, GpuEffect

-----------------------------------------------------------------------------
\* Each event is signalled by one stream.
OneSignaller == \A e \in Events : \A r, s \in Streams : <<r, e>> \in Signals /\ <<s, e>> \in Signals => r = s

SignalAt(r, i, e) == i \in DOMAIN gpu[r] /\ gpu[r][i].op = "signal" /\ gpu[r][i].event = e
SignalsKnown(e) ==
    /\ fence[e] <= fenceIndex[e]
    /\ \A r \in Streams : \A i \in DOMAIN gpu[r] : SignalAt(r, i, e)
         => <<r, e>> \in Signals /\ gpu[r][i].value <= fenceIndex[e]

\* A wait for value v of event e, made when its last signal was p: if the value
\* is reached, the device has done what the signal followed; and where a signal
\* that reaches it is still to be executed, that is done before.
WaitCovered(e, v, p) ==
    /\ v <= fenceIndex[e] /\ p.frame <= lastFrame[p.stream]
    /\ p.frame > 0 => <<p.stream, e>> \in Signals
    /\ fence[e] >= v => p.frame <= cmdFence[p.stream]
    /\ \A r \in Streams : \A i \in DOMAIN gpu[r] : SignalAt(r, i, e) /\ gpu[r][i].value >= v
         => p.frame = 0 \/ (p.stream = r /\ DoneBefore(r, p.frame, i))
LastSignalCovered(e) == WaitCovered(e, fenceIndex[e], signal[e])
WaitItemCovered(x) == x.op = "wait" => WaitCovered(x.event, x.value, x.after)

GpuInv ==
    /\ \A r \in Streams : GpuOrder(r)
    /\ \A e \in Events : SignalsKnown(e) /\ LastSignalCovered(e)
    /\ \A r \in Streams : \A i \in DOMAIN gpu[r] : WaitItemCovered(gpu[r][i])

\* A signal in the queue was there before, or is made by the step.
LEMMA SignalWas ==
  ASSUME TypeInv, GpuInv, NEW s \in Streams, StreamStep(s), NEW e \in Events,
         NEW r \in Streams, NEW i \in DOMAIN gpu'[r], SignalAt(r, i, e)'
  PROVE  \/ \E k \in DOMAIN gpu[r] :
              /\ SignalAt(r, k, e) /\ gpu'[r][i] = gpu[r][k]
              /\ \A f \in Nat : DoneBefore(r, f, k) => DoneBefore(r, f, i)'
         \/ /\ r = s /\ <<s, e>> \in Signals /\ Signal(s, e) /\ i = Len(gpu[s]) + 1
            /\ lastFrame'[s] = lastFrame[s] /\ gpu'[s][i].value = fenceIndex[e] + 1
            /\ Appended(s, gpu'[s][i])
<1>1. gpu'[r][i].op = "signal" /\ gpu'[r][i].event = e
  BY DEF SignalAt
<1>2. WasThere(r, i) \/ (r = s /\ i = Len(gpu[s]) + 1 /\ Appended(s, gpu'[s][i]))
  BY Earlier DEF GpuInv
<1>3. CASE WasThere(r, i)
  BY <1>1, <1>3 DEF WasThere, SignalAt
<1>4. CASE r = s /\ i = Len(gpu[s]) + 1 /\ Appended(s, gpu'[s][i])
  <2>0. gpu[s] \in Seq(Item) /\ Len(gpu'[s]) = Len(gpu[s]) + 1
    BY <1>4, GpuTyped DEF Appended
  <2>1. \A x : Appended(s, x) => gpu'[s][i] = x
    BY <1>4, <2>0 DEF Appended
  <2>2. ~GpuIdle(s)
    BY <2>0 DEF GpuIdle
  <2>3. ~Gpu(s)
    <3>1. Gpu(s) => \A k \in DOMAIN gpu'[s] : k + 1 \in DOMAIN gpu[s]
      BY GpuTakes DEF GpuInv
    <3>2. i + 1 \notin DOMAIN gpu[s]
      BY <1>4, <2>0
    <3> QED BY <1>4, <3>1, <3>2
  <2>4. ~Framed(s)
    BY <1>1, <1>4, <2>1 DEF Framed
  <2>5. ~Waited(s)
    <3> SUFFICES ASSUME NEW v \in Events,
                        Appended(s, [op |-> "wait", event |-> v, value |-> fenceIndex[v], after |-> signal[v]])
                 PROVE  FALSE
      BY DEF Waited
    <3> QED BY <1>1, <1>4, <2>1
  <2>6. Signalled(s)
    BY <2>2, <2>3, <2>4, <2>5, GpuEffect
  <2>7. PICK v \in Events : /\ <<s, v>> \in Signals /\ Signal(s, v) /\ lastFrame'[s] = lastFrame[s]
                            /\ Appended(s, [op |-> "signal", event |-> v, value |-> fenceIndex[v] + 1])
    BY <2>6 DEF Signalled
  <2>8. v = e /\ gpu'[s][i].value = fenceIndex[v] + 1
    BY <1>1, <1>4, <2>1, <2>7
  <2> QED BY <1>4, <2>7, <2>8
<1> QED BY <1>2, <1>3, <1>4

\* Fences, frames and fence indices do not decrease, and a fence of an event is
\* set by the signal that the queue comes to.
LEMMA Progress ==
  ASSUME TypeInv, GpuInv, NEW s \in Streams, StreamStep(s)
  PROVE  /\ \A r \in Streams : cmdFence[r] <= cmdFence'[r] /\ lastFrame[r] <= lastFrame'[r]
         /\ \A e \in Events : fenceIndex'[e] \in {fenceIndex[e], fenceIndex[e] + 1}
<1>0. \A r \in Streams : cmdFence[r] \in Nat /\ lastFrame[r] \in Nat
  BY GpuTyped
<1>1. \A r \in Streams : r # s => cmdFence'[r] = cmdFence[r] /\ lastFrame'[r] = lastFrame[r]
  BY StreamFunctions, OthersKept DEF SameAt
<1>2. cmdFence[s] <= cmdFence'[s] /\ lastFrame[s] <= lastFrame'[s]
  <2>1. CASE Gpu(s)
    BY <1>0, <2>1, GpuTakes DEF GpuInv
  <2>2. CASE Framed(s)
    BY <1>0, <2>2 DEF Framed, Appended
  <2>3. CASE GpuIdle(s) \/ Signalled(s) \/ Waited(s)
    <3>1. cmdFence' = cmdFence /\ lastFrame'[s] = lastFrame[s]
      BY <2>3 DEF GpuIdle, Signalled, Waited, Appended
    <3> QED BY <1>0, <3>1
  <2> QED BY <2>1, <2>2, <2>3, GpuEffect
<1>3. \A e \in Events : fenceIndex'[e] \in {fenceIndex[e], fenceIndex[e] + 1}
  <2>1. fenceIndex \in [Events -> Nat]
    BY DEF TypeInv, HostTypes
  <2>2. \A v \in Events : Signal(s, v) => fenceIndex' = [fenceIndex EXCEPT ![v] = @ + 1]
    BY DEF Signal
  <2> QED BY <2>1, <2>2, IndexEffect
<1> QED BY <1>0, <1>1, <1>2, <1>3

LEMMA FenceEffect ==
  ASSUME TypeInv, GpuInv, NEW s \in Streams, StreamStep(s), NEW e \in Events
  PROVE  \/ fence'[e] = fence[e]
         \/ 1 \in DOMAIN gpu[s] /\ SignalAt(s, 1, e) /\ fence'[e] = gpu[s][1].value
<1>0. fence \in [Events -> Nat]
  BY DEF TypeInv, GpuTypes
<1>1. CASE Gpu(s)
  <2>1. Head(gpu[s]) = gpu[s][1] /\ 1 \in DOMAIN gpu[s]
    BY <1>1, GpuTakes DEF GpuInv
  <2>2. fence' = IF gpu[s][1].op = "signal" THEN [fence EXCEPT ![gpu[s][1].event] = gpu[s][1].value] ELSE fence
    BY <1>1, <2>1 DEF Gpu
  <2> QED BY <1>0, <2>1, <2>2 DEF SignalAt
<1> QED BY <1>1, GpuEffect DEF GpuIdle, Framed, Signalled, Waited, Appended

LEMMA SignalsKept ==
  ASSUME TypeInv, GpuInv, NEW s \in Streams, StreamStep(s), NEW e \in Events
  PROVE  SignalsKnown(e)'
<1>0. fenceIndex \in [Events -> Nat] /\ fence \in [Events -> Nat] /\ SignalsKnown(e)
  BY DEF TypeInv, HostTypes, GpuTypes, GpuInv
<1>1. fenceIndex'[e] \in {fenceIndex[e], fenceIndex[e] + 1}
  BY Progress
<1>2. fence'[e] \in Nat /\ fence'[e] <= fenceIndex[e]
  <2>1. CASE fence'[e] = fence[e]
    BY <1>0, <2>1 DEF SignalsKnown
  <2>2. CASE 1 \in DOMAIN gpu[s] /\ SignalAt(s, 1, e) /\ fence'[e] = gpu[s][1].value
    BY <1>0, <2>2, GpuTyped, ItemFields DEF SignalsKnown, SignalAt
  <2> QED BY <2>1, <2>2, FenceEffect
<1>3. ASSUME NEW r \in Streams, NEW i \in DOMAIN gpu'[r], SignalAt(r, i, e)'
      PROVE  <<r, e>> \in Signals /\ gpu'[r][i].value <= fenceIndex'[e]
  <2>1. ASSUME NEW k \in DOMAIN gpu[r], SignalAt(r, k, e), gpu'[r][i] = gpu[r][k]
        PROVE  <<r, e>> \in Signals /\ gpu'[r][i].value <= fenceIndex'[e]
    <3>1. gpu[r][k].value \in Nat
      BY <2>1, GpuTyped, ItemFields DEF SignalAt
    <3> QED BY <1>0, <1>1, <2>1, <3>1 DEF SignalsKnown
  <2>2. CASE r = s /\ <<s, e>> \in Signals /\ Signal(s, e) /\ gpu'[s][i].value = fenceIndex[e] + 1
    <3>1. fenceIndex' = [fenceIndex EXCEPT ![e] = @ + 1]
      BY <2>2 DEF Signal
    <3> QED BY <1>0, <2>2, <3>1
  <2> QED BY <1>3, <2>1, <2>2, SignalWas
<1> QED BY <1>0, <1>1, <1>2, <1>3 DEF SignalsKnown

LEMMA WaitKept ==
  ASSUME OneSignaller, TypeInv, GpuInv, NEW s \in Streams, StreamStep(s), NEW e \in Events,
         NEW v \in Nat, NEW p \in Point, WaitCovered(e, v, p)
  PROVE  WaitCovered(e, v, p)'
<1>0. p.stream \in Streams /\ p.frame \in Nat
  BY DEF Point
<1>1. fenceIndex[e] \in Nat /\ fence[e] \in Nat
  BY DEF TypeInv, HostTypes, GpuTypes
<1>2. v <= fenceIndex'[e]
  BY <1>1, Progress DEF WaitCovered
<1>3. cmdFence'[p.stream] \in Nat /\ lastFrame'[p.stream] \in Nat
  <2>1. GpuTypes' /\ HostTypes'
    <3>1. [QueueNext]_queueVars
      BY DEF StreamStep, QueueNext
    <3> QED BY <3>1, HostTypesKept, GpuTypesKept
  <2> QED BY <1>0, <2>1 DEF GpuTypes, HostTypes
<1>4. p.frame <= lastFrame'[p.stream]
  BY <1>0, <1>3, Progress, GpuTyped DEF WaitCovered
<1>5. p.frame <= cmdFence[p.stream] => p.frame <= cmdFence'[p.stream]
  BY <1>0, <1>3, Progress, GpuTyped
<1>6. fence'[e] >= v => p.frame <= cmdFence'[p.stream]
  <2>1. CASE fence'[e] = fence[e]
    BY <1>5, <2>1 DEF WaitCovered
  <2>2. CASE 1 \in DOMAIN gpu[s] /\ SignalAt(s, 1, e) /\ fence'[e] = gpu[s][1].value
    <3>1. ~\E j \in DOMAIN gpu[s] : j < 1
      BY GpuTyped
    <3>2. cmdFence[p.stream] \in Nat
      BY <1>0, GpuTyped
    <3>3. fence'[e] >= v => p.frame <= cmdFence[p.stream]
      BY <1>0, <2>2, <3>1, <3>2 DEF WaitCovered, DoneBefore
    <3> QED BY <1>5, <3>3
  <2> QED BY <2>1, <2>2, FenceEffect
<1>7. ASSUME NEW r \in Streams, NEW i \in DOMAIN gpu'[r], SignalAt(r, i, e)', gpu'[r][i].value >= v
      PROVE  p.frame = 0 \/ (p.stream = r /\ DoneBefore(r, p.frame, i)')
  <2>1. ASSUME NEW k \in DOMAIN gpu[r], SignalAt(r, k, e), gpu'[r][i] = gpu[r][k],
               \A f \in Nat : DoneBefore(r, f, k) => DoneBefore(r, f, i)'
        PROVE  p.frame = 0 \/ (p.stream = r /\ DoneBefore(r, p.frame, i)')
    <3>1. p.frame = 0 \/ (p.stream = r /\ DoneBefore(r, p.frame, k))
      BY <1>7, <2>1 DEF WaitCovered
    <3> QED BY <1>0, <2>1, <3>1
  <2>2. ASSUME r = s, <<s, e>> \in Signals, i = Len(gpu[s]) + 1, Appended(s, gpu'[s][i]), p.frame # 0
        PROVE  p.stream = r /\ DoneBefore(r, p.frame, i)'
    <3>1. p.stream = s
      BY <1>0, <2>2 DEF OneSignaller, WaitCovered
    <3>2. DoneBefore(s, lastFrame[s], i) /\ lastFrame[s] \in Nat /\ cmdFence[s] \in Nat /\ i \in Nat
      BY <2>2, GpuTyped DEF GpuInv, GpuOrder
    <3>3. DoneBefore(s, p.frame, i)
      BY <1>0, <3>1, <3>2, GpuTyped DEF DoneBefore, WaitCovered
    <3> QED BY <1>0, <2>2, <3>1, <3>2, <3>3, DoneKept
  <2> QED BY <1>7, <2>1, <2>2, SignalWas
<1>8. p.frame > 0 => <<p.stream, e>> \in Signals
  BY DEF WaitCovered
<1> QED BY <1>2, <1>4, <1>6, <1>7, <1>8 DEF WaitCovered

LEMMA LastSignalKept ==
  ASSUME OneSignaller, TypeInv, GpuInv, NEW s \in Streams, StreamStep(s), NEW e \in Events
  PROVE  LastSignalCovered(e)'
<1>0. fenceIndex \in [Events -> Nat] /\ signal \in [Events -> Point] /\ fence \in [Events -> Nat]
  BY DEF TypeInv, HostTypes, GpuTypes
<1>1. LastSignalCovered(e)
  BY DEF GpuInv
<1>2. CASE fenceIndex'[e] = fenceIndex[e] /\ signal'[e] = signal[e]
  <2>1. \A v \in Nat, p \in Point : v = fenceIndex[e] /\ p = signal[e] => WaitCovered(e, v, p)'
    BY <1>1, WaitKept DEF LastSignalCovered
  <2> QED BY <1>0, <1>2, <2>1 DEF LastSignalCovered
<1>3. ASSUME <<s, e>> \in Signals, Signal(s, e), lastFrame'[s] = lastFrame[s], fence' = fence
      PROVE  LastSignalCovered(e)'
  <2>1. /\ fenceIndex' = [fenceIndex EXCEPT ![e] = @ + 1]
        /\ signal' = [signal EXCEPT ![e] = [stream |-> s, frame |-> lastFrame[s], ticket |-> submitted[s]]]
    BY <1>3 DEF Signal
  <2>2. /\ fenceIndex'[e] = fenceIndex[e] + 1 /\ signal'[e].stream = s /\ signal'[e].frame = lastFrame[s]
        /\ fenceIndex[e] \in Nat
    BY <1>0, <2>1
  <2>3. lastFrame'[s] = lastFrame[s] /\ fence' = fence /\ lastFrame[s] \in Nat
    BY <1>3, GpuTyped
  <2>4. fence'[e] < fenceIndex'[e]
    BY <1>0, <2>2, <2>3 DEF GpuInv, SignalsKnown
  <2>5. ASSUME NEW r \in Streams, NEW i \in DOMAIN gpu'[r], SignalAt(r, i, e)', gpu'[r][i].value >= fenceIndex'[e]
        PROVE  r = s /\ <<s, e>> \in Signals /\ i = Len(gpu[s]) + 1 /\ Appended(s, gpu'[s][i])
    <3>1. ASSUME NEW k \in DOMAIN gpu[r], SignalAt(r, k, e), gpu'[r][i] = gpu[r][k] PROVE FALSE
      <4>1. gpu[r][k].value \in Nat /\ gpu[r][k].value <= fenceIndex[e]
        BY <3>1, GpuTyped, ItemFields DEF SignalAt, GpuInv, SignalsKnown
      <4> QED BY <2>2, <2>5, <3>1, <4>1
    <3> QED BY <2>5, <3>1, SignalWas
  <2>6. ASSUME NEW i \in DOMAIN gpu'[s], i = Len(gpu[s]) + 1, Appended(s, gpu'[s][i])
        PROVE  DoneBefore(s, lastFrame[s], i)'
    <3>1. DoneBefore(s, lastFrame[s], i) /\ i \in Nat
      BY <2>6, GpuTyped DEF GpuInv, GpuOrder
    <3>2. \A f \in Nat : f = lastFrame[s] => DoneBefore(s, f, i)'
      BY <2>6, <3>1, DoneKept
    <3> QED BY <2>3, <3>2
  <2>7. ASSUME NEW r \in Streams, NEW i \in DOMAIN gpu'[r], SignalAt(r, i, e)', gpu'[r][i].value >= fenceIndex'[e]
        PROVE  signal'[e].stream = r /\ DoneBefore(r, signal[e].frame, i)'
    <3>1. r = s /\ i = Len(gpu[s]) + 1 /\ Appended(s, gpu'[s][i])
      BY <2>5, <2>7
    <3>2. DoneBefore(s, lastFrame[s], i)'
      BY <2>6, <2>7, <3>1
    <3>3. signal'[e].frame = lastFrame'[s]
      BY <2>2, <2>3
    <3> QED BY <2>2, <3>1, <3>2, <3>3
  <2>8. /\ fenceIndex'[e] <= fenceIndex'[e] /\ signal'[e].frame <= lastFrame'[signal'[e].stream]
        /\ <<signal'[e].stream, e>> \in Signals /\ ~(fence'[e] >= fenceIndex'[e])
    BY <1>0, <1>3, <2>2, <2>3, <2>4
  <2> QED BY <2>7, <2>8 DEF LastSignalCovered, WaitCovered
<1>4. ASSUME NEW v \in Events,
             Signal(s, v), v # e
      PROVE fenceIndex'[e] = fenceIndex[e] /\ signal'[e] = signal[e]
  BY <1>0, <1>4 DEF Signal
<1>5. CASE Signalled(s)
  BY <1>2, <1>3, <1>4, <1>5 DEF Signalled, Appended
<1>6. CASE GpuIdle(s) \/ Framed(s) \/ Waited(s) \/ Gpu(s)
  <2>1. fenceIndex' = fenceIndex /\ signal' = signal
    BY <1>6, GpuTakes DEF GpuIdle, Framed, Waited, GpuInv
  <2> QED BY <1>2, <2>1
<1> QED BY <1>5, <1>6, GpuEffect

LEMMA WaitItemsKept ==
  ASSUME OneSignaller, TypeInv, GpuInv, NEW s \in Streams, StreamStep(s),
         NEW r \in Streams, NEW i \in DOMAIN gpu'[r]
  PROVE  WaitItemCovered(gpu[r][i])'
<1>0. fenceIndex \in [Events -> Nat] /\ signal \in [Events -> Point]
  BY DEF TypeInv, HostTypes
<1>1. ASSUME NEW x \in Item, WaitItemCovered(x) PROVE WaitItemCovered(x)'
  <2>1. x.op = "wait" => x.event \in Events /\ x.value \in Nat /\ x.after \in Point
    BY ItemFields
  <2> QED BY <1>1, <2>1, WaitKept DEF WaitItemCovered
<1>2. CASE WasThere(r, i)
  <2>1. PICK k \in DOMAIN gpu[r] : gpu'[r][i] = gpu[r][k]
    BY <1>2 DEF WasThere
  <2>2. \A x : x = gpu[r][k] => WaitItemCovered(x)'
    BY <1>1, GpuTyped DEF GpuInv
  <2> QED BY <2>1, <2>2
<1>3. CASE i = Len(gpu[s]) + 1 /\ Appended(s, gpu'[s][i]) /\ r = s /\ Waited(s)
  <2>1. gpu[s] \in Seq(Item)
    BY GpuTyped
  <2>2. PICK e \in Events :
          Appended(s, [op |-> "wait", event |-> e, value |-> fenceIndex[e], after |-> signal[e]])
    BY <1>3 DEF Waited
  <2>3. gpu'[s][i] = [op |-> "wait", event |-> e, value |-> fenceIndex[e], after |-> signal[e]]
    BY <1>3, <2>1, <2>2 DEF Appended
  <2>4. [op |-> "wait", event |-> e, value |-> fenceIndex[e], after |-> signal[e]] \in Item
    BY <1>0, WaitItem
  <2>5. WaitItemCovered([op |-> "wait", event |-> e, value |-> fenceIndex[e], after |-> signal[e]])
    BY DEF GpuInv, LastSignalCovered, WaitItemCovered
  <2>6. \A x : x = gpu'[s][i] => WaitItemCovered(x)'
    BY <1>1, <2>3, <2>4, <2>5
  <2> QED BY <1>3, <2>6
<1>4. CASE i = Len(gpu[s]) + 1 /\ Appended(s, gpu'[s][i]) /\ r = s /\ ~Waited(s)
  <2>1. gpu[s] \in Seq(Item)
    BY GpuTyped
  <2>2. \A x : Appended(s, x) => gpu'[s][i] = x
    BY <1>4, <2>1 DEF Appended
  <2>3. Len(gpu'[s]) = Len(gpu[s]) + 1
    BY <1>4, <2>1 DEF Appended
  <2>4. ~GpuIdle(s)
    BY <2>1, <2>3 DEF GpuIdle
  <2>5. ~Gpu(s)
    <3>1. Gpu(s) => \A k \in DOMAIN gpu'[s] : k + 1 \in DOMAIN gpu[s]
      BY GpuTakes DEF GpuInv
    <3> QED BY <1>4, <2>1, <3>1
  <2>6. Framed(s) \/ Signalled(s)
    BY <1>4, <2>4, <2>5, GpuEffect
  <2>7. gpu'[s][i].op # "wait"
    <3>1. CASE Framed(s)
      BY <2>2, <3>1 DEF Framed
    <3>2. CASE Signalled(s)
      <4>1. PICK e \in Events : Appended(s, [op |-> "signal", event |-> e, value |-> fenceIndex[e] + 1])
        BY <3>2 DEF Signalled
      <4> QED BY <2>2, <4>1
    <3> QED BY <2>6, <3>1, <3>2
  <2> QED BY <1>4, <2>7 DEF WaitItemCovered
<1> QED BY <1>2, <1>3, <1>4, Earlier DEF GpuInv

-----------------------------------------------------------------------------
StreamInv(s) == TicketsKnown(s) /\ FrameInv(s) /\ EventsBehind(s)
OrderInv == (\A s \in Streams : StreamInv(s)) /\ (\A e \in Events : EventCovered(e)) /\ GpuInv

LEMMA OrderInit == QueueInit => OrderInv
<1> SUFFICES ASSUME QueueInit PROVE OrderInv
  OBVIOUS
<1>0. NoSignal.stream \in Streams /\ NoSignal.frame = 0 /\ NoSignal.ticket = 0
  BY DXQueueAssumption DEF NoSignal
<1>1. ASSUME NEW s \in Streams PROVE StreamInv(s)
  <2>1. thread[s].at = "pop" /\ todo[s] = <<>> /\ submitted[s] = 0
    BY DEF QueueInit
  <2>2. lastFrame[s] = 0 /\ lastFence[s] = 0 /\ executedFrame[s] = 0
    BY DEF QueueInit
  <2>3. FrameInv(s)
    BY <2>1, <2>2 DEF FrameInv, FrameBounds, FrameOrder, FrameDrained, NoList, HandFrame, HandList, QueuedList
  <2> QED BY <2>1, <2>3 DEF StreamInv, TicketsKnown, EventsBehind
<1>2. ASSUME NEW e \in Events PROVE EventCovered(e)
  BY <1>0 DEF QueueInit, EventCovered
<1>3. ASSUME NEW r \in Streams PROVE gpu[r] = <<>> /\ cmdFence[r] = 0 /\ lastFrame[r] = 0
  BY DEF QueueInit
<1>4. ASSUME NEW r \in Streams PROVE GpuOrder(r)
  BY <1>3 DEF GpuOrder, GpuBounds, GpuSorted, DoneBefore
<1>5. ASSUME NEW e \in Events PROVE SignalsKnown(e) /\ LastSignalCovered(e)
  <2>1. fence[e] = 0 /\ fenceIndex[e] = 1 /\ signal[e] = NoSignal
    BY DEF QueueInit
  <2> QED BY <1>0, <1>3, <2>1 DEF SignalsKnown, LastSignalCovered, WaitCovered
<1> QED BY <1>1, <1>2, <1>3, <1>4, <1>5 DEF OrderInv, GpuInv

LEMMA OrderStep == OneSignaller /\ TypeInv /\ OrderInv /\ [QueueNext]_queueVars => OrderInv'
<1> SUFFICES ASSUME OneSignaller, TypeInv, OrderInv, [QueueNext]_queueVars PROVE OrderInv'
  OBVIOUS
<1>1. CASE UNCHANGED queueVars
  <2>1. /\ todo' = todo /\ thread' = thread /\ ran' = ran /\ host' = host /\ submitted' = submitted
        /\ lastFrame' = lastFrame /\ lastFence' = lastFence /\ executedFrame' = executedFrame
        /\ fenceIndex' = fenceIndex /\ signal' = signal /\ finishedEvent' = finishedEvent
        /\ gpu' = gpu /\ cmdFence' = cmdFence /\ fence' = fence
    BY <1>1 DEF queueVars, hostVars, threadVars, gpuVars
  <2>2. ASSUME NEW s \in Streams PROVE TicketsKnown(s)' /\ FrameInv(s)'
    BY <2>1 DEF OrderInv, StreamInv, TicketsKnown, Known, InHand, Queued, FrameInv, FrameBounds, FrameOrder,
       FrameDrained, NoList, HandFrame, HandList, QueuedList
  <2>3. ASSUME NEW s \in Streams PROVE EventsBehind(s)'
    BY <2>1 DEF OrderInv, StreamInv, EventsBehind, Behind, Known, InHand, Queued
  <2>4. ASSUME NEW e \in Events PROVE EventCovered(e)'
    BY <2>1 DEF OrderInv, EventCovered
  <2>5. ASSUME NEW r \in Streams PROVE GpuOrder(r)'
    BY <2>1 DEF OrderInv, GpuInv, GpuOrder, GpuBounds, GpuSorted, DoneBefore
  <2>a. ASSUME NEW e, NEW v, NEW q, WaitCovered(e, v, q) PROVE WaitCovered(e, v, q)'
    BY <2>1, <2>a DEF WaitCovered, SignalAt, DoneBefore
  <2>6. ASSUME NEW e \in Events PROVE SignalsKnown(e)' /\ LastSignalCovered(e)'
    <3>1. SignalsKnown(e) /\ WaitCovered(e, fenceIndex[e], signal[e])
      BY DEF OrderInv, GpuInv, LastSignalCovered
    <3>2. PICK v, q : v = fenceIndex[e] /\ q = signal[e]
      OBVIOUS
    <3>3. WaitCovered(e, v, q)'
      BY <2>a, <3>1, <3>2
    <3>4. LastSignalCovered(e)'
      BY <2>1, <3>2, <3>3 DEF LastSignalCovered, WaitCovered
    <3>5. SignalsKnown(e)'
      BY <2>1, <3>1 DEF SignalsKnown, SignalAt
    <3> QED BY <3>4, <3>5
  <2>7. ASSUME NEW r \in Streams, NEW i \in DOMAIN gpu[r] PROVE WaitItemCovered(gpu[r][i])'
    <3>1. PICK x : x = gpu[r][i]
      OBVIOUS
    <3>2. x.op = "wait" => WaitCovered(x.event, x.value, x.after)
      BY <3>1 DEF OrderInv, GpuInv, WaitItemCovered
    <3>3. x.op = "wait" => WaitCovered(x.event, x.value, x.after)'
      BY <2>a, <3>2
    <3> QED BY <2>1, <3>1, <3>3 DEF WaitItemCovered, WaitCovered
  <2> QED BY <2>1, <2>2, <2>3, <2>4, <2>5, <2>6, <2>7 DEF OrderInv, StreamInv, GpuInv
<1>2. ASSUME NEW s \in Streams, StreamStep(s) PROVE OrderInv'
  <2>0. GpuInv /\ StreamInv(s)
    BY DEF OrderInv
  <2>1. StreamInv(s)'
    BY <1>2, <2>0, TicketsKept, FramesKept, EventsKeptHere DEF StreamInv
  <2>2. ASSUME NEW r \in Streams, r # s PROVE StreamInv(r)'
    <3>1. SameAt(r) /\ StreamInv(r)
      BY <1>2, <2>2, StreamFunctions, OthersKept DEF OrderInv
    <3>2. TicketsKnown(r)'
      BY <3>1 DEF SameAt, StreamInv, TicketsKnown, Known, InHand, Queued
    <3>3. FrameInv(r)'
      BY <3>1 DEF SameAt, StreamInv, FrameInv, FrameBounds, FrameOrder, FrameDrained, NoList, HandFrame,
         HandList, QueuedList
    <3>4. EventsBehind(r)'
      BY <1>2, <2>2, <3>1, EventsKeptElsewhere DEF StreamInv
    <3> QED BY <3>2, <3>3, <3>4 DEF StreamInv
  <2>3. ASSUME NEW e \in Events PROVE EventCovered(e)'
    BY <1>2, <2>0, CoveredKept DEF OrderInv, StreamInv
  <2>4. ASSUME NEW r \in Streams PROVE GpuOrder(r)'
    <3>1. CASE r = s
      BY <1>2, <2>0, <3>1, GpuOrderKept DEF GpuInv
    <3>2. CASE r # s
      <4>1. SameAt(r) /\ GpuOrder(r)
        BY <1>2, <2>0, <3>2, StreamFunctions, OthersKept DEF GpuInv
      <4> QED BY <4>1 DEF SameAt, GpuOrder, GpuBounds, GpuSorted, DoneBefore
    <3> QED BY <3>1, <3>2
  <2>5. GpuInv'
    BY <1>2, <2>0, <2>4, SignalsKept, LastSignalKept, WaitItemsKept DEF GpuInv
  <2>6. \A r \in Streams : StreamInv(r)'
    BY <2>1, <2>2
  <2> QED BY <2>3, <2>5, <2>6 DEF OrderInv
<1> QED BY <1>1, <1>2 DEF QueueNext, StreamStep

-----------------------------------------------------------------------------
\* Only the end of a synchronization takes the host out of it.
LEMMA SyncEnds ==
  ASSUME TypeInv, [QueueNext]_queueVars, NEW s \in Streams, host[s].at \in {"sync", "event"}, host'[s] = Ready
  PROVE  Reached(s)
<1>1. host' # host
  BY DEF Ready
<1>2. PICK r \in Streams : StreamStep(r)
  BY <1>1 DEF QueueNext, StreamStep, queueVars, hostVars
<1>3. r = s
  <2>1. host'[s] # host[s]
    BY DEF Ready
  <2> QED BY <1>2, <2>1, StreamFunctions, OthersKept DEF SameAt
<1>4. EndSync(s) \/ host'[s] = host[s]
  BY <1>2, <1>3 DEF StreamStep, HostCall, BeginExecute, Callback, BeginSync, Destroy, Signal, Wait, Call,
     Ready,
     ForceSync, HostStep, CreateAllocator, Execute, EndForceSync, Notify, NotifyStop, Join, ThreadStep, Pop,
     CompleteList, Publish, RunFunction, ExecuteEvent, Drained, FallAsleep, Gpu, hostVars
<1> QED BY <1>4 DEF EndSync, Ready

LEMMA SyncCovers ==
  ASSUME TypeInv, OrderInv, [QueueNext]_queueVars, NEW s \in Streams, host[s].at = "sync", host'[s] = Ready
  PROVE  1 .. submitted[s] \subseteq ran[s] \cup PendingFunctions(s)
<1>0. todo[s] \in Seq(Entry) /\ (thread[s].at = "visit" => thread[s].entry \in Entry)
  BY Visiting DEF TypeInv, ThreadTypes
<1>1. NoList(s)
  BY SyncEnds DEF Reached, OrderInv, StreamInv, FrameInv, FrameDrained
<1>2. \A x \in Entry : x.kind # "event" /\ x.kind # "list" => x.kind = "function"
  BY DEF Entry
<1> SUFFICES ASSUME NEW t \in 1 .. submitted[s], t \notin ran[s] PROVE t \in PendingFunctions(s)
  OBVIOUS
<1>3. InHand(s, t) \/ Queued(s, Len(todo[s]) + 1, t)
  BY DEF OrderInv, StreamInv, TicketsKnown, Known
<1>4. CASE InHand(s, t)
  BY <1>0, <1>1, <1>2, <1>4 DEF InHand, NoList, HandList, PendingFunctions
<1>5. ASSUME NEW i \in DOMAIN todo[s], todo[s][i].kind # "event", todo[s][i].ticket = t
      PROVE  t \in PendingFunctions(s)
  <2>1. todo[s][i].kind = "function"
    BY <1>0, <1>1, <1>2, <1>5 DEF NoList, QueuedList
  <2> QED BY <1>5, <2>1 DEF PendingFunctions
<1> QED BY <1>3, <1>4, <1>5 DEF Queued

LEMMA EventSyncEnds ==
  ASSUME TypeInv, OrderInv, [QueueNext]_queueVars, NEW s \in Streams, host[s].at = "event", host'[s] = Ready
  PROVE  1 .. signal[host[s].event].ticket \subseteq ran[signal[host[s].event].stream]
<1>1. host[s].event \in Events
  <2>1. host[s] \in HostState
    BY DEF TypeInv, HostTypes
  <2> QED BY <2>1 DEF HostState
<1>2. finishedEvent[host[s].event] >= fenceIndex[host[s].event]
  BY SyncEnds DEF Reached
<1>3. finishedEvent[host[s].event] \in Nat /\ fenceIndex[host[s].event] \in Nat
  BY <1>1 DEF TypeInv, HostTypes, ThreadTypes
<1> QED BY <1>1, <1>2, <1>3 DEF OrderInv, EventCovered

LEMMA WaitEnds ==
  ASSUME TypeInv, OrderInv, NEW s \in Streams, Gpu(s), gpu[s][1].op = "wait"
  PROVE  cmdFence[gpu[s][1].after.stream] >= gpu[s][1].after.frame
<1>1. 1 \in DOMAIN gpu[s]
  BY GpuTakes DEF OrderInv, GpuInv
<1>2. gpu[s][1].event \in Events /\ gpu[s][1].value \in Nat /\ gpu[s][1].after \in Point
  BY <1>1, GpuTyped, ItemFields
<1>3. WaitCovered(gpu[s][1].event, gpu[s][1].value, gpu[s][1].after)
  BY <1>1 DEF OrderInv, GpuInv, WaitItemCovered
<1>4. fence[gpu[s][1].event] >= gpu[s][1].value
  BY DEF Gpu, MayPass
<1> QED BY <1>2, <1>3, <1>4, GpuTyped DEF WaitCovered, Point

\* If each event is signalled by one stream: when the synchronization with a
\* stream returns, the callbacks of all its lists have run; when that with an
\* event returns, all that its last signal followed; and what follows a wait on
\* a D3D12 queue executes after what the signal followed.
THEOREM DXOrders == ASSUME OneSignaller PROVE QueueSpec => DXOrdersWork
<1>1. QueueSpec => [](TypeInv /\ OrderInv)
  BY TypesInit, TypesKept, OrderInit, OrderStep, PTL DEF QueueSpec
<1>2. TypeInv /\ OrderInv /\ [QueueNext]_queueVars =>
        /\ [\A s \in Streams : host[s].at = "sync" /\ host'[s] = Ready
              => 1 .. submitted[s] \subseteq ran[s] \cup PendingFunctions(s)]_queueVars
        /\ [\A s \in Streams : host[s].at = "event" /\ host'[s] = Ready
              => LET last == signal[host[s].event]
                 IN  1 .. last.ticket \subseteq ran[last.stream]]_queueVars
        /\ [\A s \in Streams : Gpu(s) /\ gpu[s][1].op = "wait"
              => cmdFence[gpu[s][1].after.stream] >= gpu[s][1].after.frame]_queueVars
  BY SyncCovers, EventSyncEnds, WaitEnds
<1> QED BY <1>1, <1>2, PTL DEF QueueSpec, DXOrdersWork, SyncCoversLists, EventSyncCovers, WaitsOrderLists

-----------------------------------------------------------------------------
(***************************************************************************)
(* The order in which the callbacks of a stream run, and the allocators    *)
(* their lists are recorded in (CommandQueue.cpp: Execute, ForceSync,      *)
(* Complete, CreateAllocator, ExecuteThread).                              *)
(***************************************************************************)

\* A callback that waits in the queue of the thread is later than all that has
\* run or that the thread has in hand, and than those queued before it; while
\* ForceSync waits the queue is empty.
Ticketed(s, i) == i \in DOMAIN todo[s] /\ todo[s][i].kind # "event"
TicketsInOrder(s) ==
    /\ \A i \in DOMAIN todo[s] : Ticketed(s, i) =>
         /\ todo[s][i].ticket <= submitted[s]
         /\ \A t \in ran[s] : t < todo[s][i].ticket
         /\ \A t \in Nat : InHand(s, t) => t < todo[s][i].ticket
    /\ \A i, j \in DOMAIN todo[s] :
         j < i /\ Ticketed(s, i) /\ Ticketed(s, j) => todo[s][j].ticket < todo[s][i].ticket
    /\ host[s].at = "force" => todo[s] = <<>> /\ submitted[s] >= 1
    /\ ran[s] \subseteq 1 .. submitted[s]
    /\ \A t \in Nat : InHand(s, t) => t \in 1 .. submitted[s]
    /\ \A i \in DOMAIN todo[s] : Ticketed(s, i) => todo[s][i].ticket >= 1

\* What a step of stream s does to its callbacks.
NoTicket(s) ==
    /\ todo'[s] = todo[s] \/ \E x \in Entry : x.kind = "event" /\ todo'[s] = Append(todo[s], x)
    /\ ran'[s] = ran[s] /\ submitted'[s] = submitted[s]
    /\ thread'[s] = thread[s] \/ (thread[s].at # "visit" /\ thread'[s].at # "visit")
    /\ host'[s].at = "force" => host[s].at = "force" /\ todo'[s] = todo[s]
NewTicket(s) ==
    /\ \E x \in Entry : x.kind # "event" /\ x.ticket = submitted[s] + 1 /\ todo'[s] = Append(todo[s], x)
    /\ ran'[s] = ran[s] /\ submitted'[s] = submitted[s] + 1 /\ thread'[s] = thread[s]
    /\ host'[s].at # "force"
ForceBegins(s) ==
    /\ todo[s] = <<>> /\ todo'[s] = <<>> /\ ran'[s] = ran[s] /\ thread'[s] = thread[s]
    /\ submitted'[s] = submitted[s] + 1 /\ host[s].at # "force"
ForceEnds(s) ==
    /\ host[s].at = "force" /\ todo'[s] = todo[s] /\ thread'[s] = thread[s]
    /\ ran'[s] = ran[s] \cup {submitted[s]} /\ submitted'[s] = submitted[s] /\ host'[s].at # "force"
TakesUp(s) == Popped(s) /\ submitted'[s] = submitted[s] /\ host'[s] = host[s]
LaysDown(s) ==
    /\ thread[s].at = "visit" /\ thread'[s].at # "visit" /\ todo'[s] = todo[s]
    /\ submitted'[s] = submitted[s] /\ host'[s] = host[s]
    /\ ran'[s] = IF thread[s].entry.kind = "event" THEN ran[s] ELSE ran[s] \cup {thread[s].entry.ticket}

LEMMA TicketEffect ==
  ASSUME TypeInv, NEW s \in Streams, StreamStep(s), TicketsInOrder(s)
  PROVE  NoTicket(s) \/ NewTicket(s) \/ ForceBegins(s) \/ ForceEnds(s) \/ TakesUp(s) \/ LaysDown(s)
<1>0. Shapes /\ HostTypes
  BY StreamFunctions DEF TypeInv
<1>1. CASE BeginExecute(s) \/ BeginSync(s) \/ Destroy(s) \/ EndSync(s) \/ Join(s)
  BY <1>0, <1>1 DEF NoTicket, BeginExecute, BeginSync, Destroy, EndSync, Join, Goto, Ready, threadVars,
     Shapes, OfStreams
<1>2. CASE CreateAllocator(s) \/ Notify(s) \/ NotifyStop(s)
  BY <1>0, <1>2 DEF NoTicket, CreateAllocator, Notify, NotifyStop, Woken, Goto, Ready, Shapes, OfStreams
<1>3. CASE Callback(s)
  <2>1. [kind |-> "function", ticket |-> submitted[s] + 1] \in Entry
    BY <1>0, NewFunction DEF HostTypes
  <2> QED
    BY <1>0, <1>3, <2>1 DEF NewTicket, Callback, Push, Goto, threadVars, Shapes, OfStreams, HostTypes
<1>4. ASSUME NEW e \in Events, Signal(s, e) PROVE NoTicket(s)
  <2>1. [kind |-> "event", event |-> e, value |-> fenceIndex[e] + 1] \in Entry
    BY <1>0, NewEvent DEF HostTypes
  <2> QED
    BY <1>0, <1>4, <2>1 DEF NoTicket, Signal, Push, Goto, threadVars, Shapes, OfStreams
<1>5. ASSUME NEW e \in Events, Wait(s, e) PROVE NoTicket(s)
  BY <1>5 DEF NoTicket, Wait, threadVars
<1>6. CASE Execute(s)
  <2>1. host[s].alloc \in Nat
    BY <1>6, HostAlloc DEF Execute
  <2>2. [kind |-> "list", frame |-> lastFrame[s] + 1, alloc |-> host[s].alloc, ticket |-> submitted[s] + 1] \in Entry
    BY <1>0, <2>1, NewList DEF HostTypes
  <2> QED
    BY <1>0, <1>6, <2>2 DEF NewTicket, Execute, NewFrame, Push, Goto, threadVars, Shapes, OfStreams, HostTypes
<1>7. CASE ForceSync(s)
  BY <1>0, <1>7 DEF ForceBegins, ForceSync, NewFrame, ThreadHasAll, threadVars, HostTypes
<1>8. CASE EndForceSync(s)
  BY <1>0, <1>8 DEF ForceEnds, EndForceSync, TicketsInOrder, Goto, Shapes, OfStreams
<1>9. CASE Pop(s)
  BY <1>0, <1>9 DEF TakesUp, Popped, Pop, hostVars, Shapes, OfStreams
<1>10. CASE CompleteList(s) \/ RunFunction(s) \/ ExecuteEvent(s)
  <2>1. CASE CompleteList(s)
    BY <1>0, <2>1 DEF LaysDown, CompleteList, hostVars, Shapes, OfStreams
  <2>2. CASE RunFunction(s)
    BY <1>0, <2>2 DEF LaysDown, RunFunction, hostVars, Shapes, OfStreams
  <2>3. CASE ExecuteEvent(s)
    BY <1>0, <2>3 DEF LaysDown, ExecuteEvent, hostVars, Shapes, OfStreams
  <2> QED
    BY <1>10, <2>1, <2>2, <2>3
<1>11. CASE Publish(s) \/ Drained(s) \/ FallAsleep(s)
  BY <1>0, <1>11 DEF NoTicket, Publish, Drained, FallAsleep, hostVars, Shapes, OfStreams
<1>12. CASE Gpu(s)
  BY <1>12 DEF NoTicket, Gpu, hostVars, threadVars
<1> QED
  BY <1>1, <1>2, <1>3, <1>4, <1>5, <1>6, <1>7, <1>8, <1>9, <1>10, <1>11, <1>12
  DEF StreamStep, HostCall, HostStep, ThreadStep

\* A queue that has grown by one entry or none.
LEMMA GrownQueue ==
  ASSUME TypeInv, NEW s \in Streams, NEW x, todo'[s] = Append(todo[s], x)
  PROVE  \A i \in DOMAIN todo'[s] :
            \/ i \in DOMAIN todo[s] /\ i \in Nat /\ todo'[s][i] = todo[s][i] /\ i < Len(todo[s]) + 1
            \/ i = Len(todo[s]) + 1 /\ todo'[s][i] = x
<1>1. todo[s] \in Seq(Entry)
  BY DEF TypeInv, ThreadTypes
<1> QED
  BY <1>1

LEMMA TicketTyped ==
  ASSUME TypeInv, NEW s \in Streams
  PROVE  /\ todo[s] \in Seq(Entry) /\ submitted[s] \in Nat /\ ran[s] \subseteq Nat
         /\ \A i \in DOMAIN todo[s] : i \in Nat /\ (Ticketed(s, i) => todo[s][i].ticket \in Nat)
         /\ thread[s].at = "visit" /\ thread[s].entry.kind # "event" => thread[s].entry.ticket \in Nat
<1>1. todo[s] \in Seq(Entry) /\ submitted[s] \in Nat /\ ran[s] \subseteq Nat
  BY DEF TypeInv, ThreadTypes, HostTypes
<1>2. \A x \in Entry : x.kind # "event" => x.ticket \in Nat
  BY DEF Entry
<1> QED
  BY <1>1, <1>2, Visiting DEF Ticketed

LEMMA OrderKept ==
  ASSUME TypeInv, TypeInv', NEW s \in Streams, TicketsInOrder(s), StreamStep(s)
  PROVE  TicketsInOrder(s)'
<1>0. /\ todo[s] \in Seq(Entry) /\ submitted[s] \in Nat /\ ran[s] \subseteq Nat
      /\ \A i \in DOMAIN todo[s] : i \in Nat /\ (Ticketed(s, i) => todo[s][i].ticket \in Nat)
  BY TicketTyped
<1>1. CASE NoTicket(s)
  <2>1. \A t : InHand(s, t)' <=> InHand(s, t)
    BY <1>1 DEF NoTicket, InHand
  <2>2. \A i \in DOMAIN todo'[s] : Ticketed(s, i)' =>
          i \in DOMAIN todo[s] /\ Ticketed(s, i) /\ todo'[s][i] = todo[s][i]
    <3>1. CASE todo'[s] = todo[s]
      BY <3>1 DEF Ticketed
    <3>2. ASSUME NEW x \in Entry, x.kind = "event", todo'[s] = Append(todo[s], x)
          PROVE  \A i \in DOMAIN todo'[s] : Ticketed(s, i)' =>
                    i \in DOMAIN todo[s] /\ Ticketed(s, i) /\ todo'[s][i] = todo[s][i]
      BY <3>2, GrownQueue DEF Ticketed
    <3> QED
      BY <1>1, <3>1, <3>2 DEF NoTicket
  <2>3. ran'[s] = ran[s] /\ submitted'[s] = submitted[s]
    BY <1>1 DEF NoTicket
  <2>4. host'[s].at = "force" => todo'[s] = <<>> /\ submitted[s] >= 1
    BY <1>1 DEF NoTicket, TicketsInOrder
  <2> QED
    BY <2>1, <2>2, <2>3, <2>4 DEF TicketsInOrder
<1>2. CASE NewTicket(s)
  <2>1. PICK x \in Entry : x.kind # "event" /\ x.ticket = submitted[s] + 1 /\ todo'[s] = Append(todo[s], x)
    BY <1>2 DEF NewTicket
  <2>2. /\ \A t : InHand(s, t)' <=> InHand(s, t)
        /\ ran'[s] = ran[s] /\ submitted'[s] = submitted[s] + 1 /\ host'[s].at # "force"
    BY <1>2 DEF NewTicket, InHand
  <2>3. \A i \in DOMAIN todo'[s] :
           \/ /\ i \in DOMAIN todo[s] /\ i \in Nat /\ todo'[s][i] = todo[s][i] /\ i < Len(todo[s]) + 1
              /\ Ticketed(s, i)' <=> Ticketed(s, i)
           \/ i = Len(todo[s]) + 1 /\ todo'[s][i] = x
    BY <2>1, GrownQueue DEF Ticketed
  <2>4. /\ \A t \in ran[s] : t \in Nat /\ t >= 1 /\ t < submitted[s] + 1
        /\ \A t \in Nat : InHand(s, t) => t >= 1 /\ t < submitted[s] + 1
        /\ \A i \in DOMAIN todo[s] : Ticketed(s, i) => todo[s][i].ticket < submitted[s] + 1
    BY <1>0 DEF TicketsInOrder
  <2>5. ASSUME NEW i \in DOMAIN todo'[s], Ticketed(s, i)'
        PROVE  /\ todo'[s][i].ticket <= submitted[s] + 1 /\ todo'[s][i].ticket >= 1
               /\ \A t \in ran[s] : t < todo'[s][i].ticket
               /\ \A t \in Nat : InHand(s, t) => t < todo'[s][i].ticket
    BY <1>0, <2>1, <2>3, <2>4, <2>5 DEF TicketsInOrder
  <2>6. \A i, j \in DOMAIN todo'[s] :
         j < i /\ Ticketed(s, i)' /\ Ticketed(s, j)' => todo'[s][j].ticket < todo'[s][i].ticket
    <3>1. Len(todo[s]) \in Nat
      BY <1>0
    <3> QED
      BY <1>0, <2>1, <2>3, <2>4, <3>1 DEF TicketsInOrder
  <2>7. ran[s] \subseteq 1 .. submitted[s] + 1 /\ \A t \in Nat : InHand(s, t) => t \in 1 .. submitted[s] + 1
    BY <1>0, <2>4
  <2> QED
    BY <2>2, <2>5, <2>6, <2>7 DEF TicketsInOrder
<1>3. CASE ForceBegins(s)
  <2>1. /\ \A t : InHand(s, t)' <=> InHand(s, t)
        /\ todo'[s] = <<>> /\ ran'[s] = ran[s] /\ submitted'[s] = submitted[s] + 1
    BY <1>3 DEF ForceBegins, InHand
  <2>2. ran[s] \subseteq 1 .. submitted[s] + 1 /\ \A t \in Nat : InHand(s, t) => t \in 1 .. submitted[s] + 1
    BY <1>0 DEF TicketsInOrder
  <2> QED
    BY <1>0, <2>1, <2>2 DEF TicketsInOrder, Ticketed
<1>4. CASE ForceEnds(s)
  <2>1. /\ \A t : InHand(s, t)' <=> InHand(s, t)
        /\ todo[s] = <<>> /\ todo'[s] = <<>> /\ submitted[s] \in 1 .. submitted[s]
        /\ ran'[s] = ran[s] \cup {submitted[s]} /\ submitted'[s] = submitted[s] /\ host'[s].at # "force"
    BY <1>0, <1>4 DEF ForceEnds, InHand, TicketsInOrder
  <2> QED
    BY <2>1 DEF TicketsInOrder, Ticketed
<1>5. CASE TakesUp(s)
  <2>1. /\ todo[s] # <<>> /\ todo'[s] = Tail(todo[s]) /\ ran'[s] = ran[s] /\ submitted'[s] = submitted[s]
        /\ thread'[s] = [at |-> "visit", entry |-> Head(todo[s])] /\ host'[s] = host[s]
    BY <1>5 DEF TakesUp, Popped
  <2>2. /\ 1 \in DOMAIN todo[s] /\ Head(todo[s]) = todo[s][1]
        /\ \A i \in DOMAIN todo'[s] : /\ i \in Nat /\ 1 < i + 1 /\ i + 1 \in DOMAIN todo[s]
                                      /\ todo'[s][i] = todo[s][i + 1]
    BY <1>0, <2>1
  <2>3. \A i \in DOMAIN todo'[s] : Ticketed(s, i)' <=> Ticketed(s, i + 1)
    BY <2>2 DEF Ticketed
  <2>4. \A t : InHand(s, t)' <=> Ticketed(s, 1) /\ t = todo[s][1].ticket
    BY <2>1, <2>2 DEF InHand, Ticketed
  <2>5. \A i \in DOMAIN todo'[s] : \A j \in DOMAIN todo'[s] : j < i => j + 1 < i + 1
    BY <2>2
  <2>6. host'[s].at # "force"
    BY <2>1 DEF TicketsInOrder
  <2>7. ASSUME NEW i \in DOMAIN todo'[s], Ticketed(s, i)'
        PROVE  /\ todo'[s][i].ticket <= submitted[s] /\ todo'[s][i].ticket >= 1
               /\ \A t \in ran[s] : t < todo'[s][i].ticket
               /\ \A t \in Nat : InHand(s, t)' => t < todo'[s][i].ticket
    <3>1. Ticketed(s, i + 1) /\ i + 1 \in DOMAIN todo[s] /\ todo'[s][i] = todo[s][i + 1] /\ 1 < i + 1
      BY <2>2, <2>3, <2>7
    <3> QED
      BY <2>2, <2>4, <3>1 DEF TicketsInOrder
  <2>8. \A i, j \in DOMAIN todo'[s] :
         j < i /\ Ticketed(s, i)' /\ Ticketed(s, j)' => todo'[s][j].ticket < todo'[s][i].ticket
    BY <2>2, <2>3, <2>5 DEF TicketsInOrder
  <2>9. \A t \in Nat : InHand(s, t)' => t \in 1 .. submitted[s]
    BY <1>0, <2>2, <2>4 DEF TicketsInOrder
  <2>10. ran[s] \subseteq 1 .. submitted[s]
    BY DEF TicketsInOrder
  <2> QED
    BY <2>1, <2>6, <2>7, <2>8, <2>9, <2>10 DEF TicketsInOrder
<1>6. CASE LaysDown(s)
  <2>1. /\ todo'[s] = todo[s] /\ submitted'[s] = submitted[s] /\ host'[s] = host[s]
        /\ \A i : Ticketed(s, i)' <=> Ticketed(s, i)
        /\ \A t : ~InHand(s, t)'
    BY <1>6 DEF LaysDown, InHand, Ticketed
  <2>2. \A t \in ran'[s] : t \in ran[s] \/ (InHand(s, t) /\ t \in Nat)
    BY <1>6, TicketTyped DEF LaysDown, InHand
  <2> QED
    BY <2>1, <2>2 DEF TicketsInOrder
<1> QED
  BY <1>1, <1>2, <1>3, <1>4, <1>5, <1>6, TicketEffect

\* Only the callback in the hand of the thread can be overtaken.
LEMMA OvertakesInHand ==
  ASSUME TypeInv, NEW s \in Streams, TicketsKnown(s), TicketsInOrder(s), NEW t \in ran[s]
  PROVE  Cardinality(1 .. t - 1 \ ran[s]) <= 1
<1> DEFINE S == 1 .. t - 1 \ ran[s]
<1>1. submitted[s] \in Nat /\ t \in 1 .. submitted[s]
  BY TicketTyped DEF TicketsInOrder
<1>2. \A u \in S : u = thread[s].entry.ticket
  <2> SUFFICES ASSUME NEW u \in S PROVE u = thread[s].entry.ticket
    OBVIOUS
  <2>1. u \in 1 .. submitted[s] /\ u < t /\ u # submitted[s] /\ u \notin ran[s]
    BY <1>1
  <2>2. Known(s, Len(todo[s]) + 1, u)
    BY <2>1 DEF TicketsKnown
  <2>3. ~Queued(s, Len(todo[s]) + 1, u)
    <3>1. ASSUME NEW i \in DOMAIN todo[s], Ticketed(s, i), todo[s][i].ticket = u PROVE FALSE
      <4>1. t < u
        BY <3>1 DEF TicketsInOrder
      <4> QED
        BY <1>1, <2>1, <4>1
    <3> QED
      BY <3>1 DEF Queued, Ticketed
  <2> QED
    BY <2>1, <2>2, <2>3 DEF Known, InHand
<1>3. S \in SUBSET {thread[s].entry.ticket}
  BY <1>2
<1>4. IsFiniteSet({thread[s].entry.ticket}) /\ Cardinality({thread[s].entry.ticket}) = 1
  BY FS_Singleton
<1> HIDE DEF S
<1>5. Cardinality(S) <= Cardinality({thread[s].entry.ticket})
  BY <1>3, <1>4, FS_Subset
<1> QED
  BY <1>4, <1>5 DEF S

CallbackInv == \A s \in Streams : TicketsKnown(s) /\ TicketsInOrder(s)

\* The callbacks of a stream run in the order of submission but for one: a list
\* that ForceSync completes may overtake the one that the thread has in hand.
THEOREM CallbacksInOrder == QueueSpec => []OnlyOneOvertaken
<1>1. QueueInit => CallbackInv
  BY DEF QueueInit, CallbackInv, TicketsKnown, TicketsInOrder, Ticketed, InHand, Ready
<1>2. TypeInv /\ TypeInv' /\ CallbackInv /\ [QueueNext]_queueVars => CallbackInv'
  <2> SUFFICES ASSUME TypeInv, TypeInv', CallbackInv, [QueueNext]_queueVars, NEW r \in Streams
               PROVE  TicketsKnown(r)' /\ TicketsInOrder(r)'
    BY DEF CallbackInv
  <2>1. ASSUME host'[r] = host[r], thread'[r] = thread[r], todo'[r] = todo[r],
               ran'[r] = ran[r], submitted'[r] = submitted[r]
        PROVE  TicketsKnown(r)' /\ TicketsInOrder(r)'
    BY <2>1 DEF CallbackInv, TicketsKnown, Known, InHand, Queued, TicketsInOrder, Ticketed
  <2>2. CASE UNCHANGED queueVars
    BY <2>1, <2>2 DEF queueVars, hostVars, threadVars
  <2>3. ASSUME NEW s \in Streams, StreamStep(s), r # s PROVE TicketsKnown(r)' /\ TicketsInOrder(r)'
    BY <2>1, <2>3, StreamFunctions, OthersKept DEF SameAt
  <2>4. ASSUME StreamStep(r) PROVE TicketsKnown(r)' /\ TicketsInOrder(r)'
    BY <2>4, TicketsKept, OrderKept DEF CallbackInv
  <2> QED
    BY <2>2, <2>3, <2>4 DEF QueueNext, StreamStep
<1>3. TypeInv /\ CallbackInv => OnlyOneOvertaken
  BY OvertakesInHand DEF CallbackInv, OnlyOneOvertaken
<1> QED
  BY TypesAlways, <1>1, <1>2, <1>3, PTL DEF QueueSpec

-----------------------------------------------------------------------------
\* Where the allocators of a stream are: with the host that encodes a list, in
\* the list that the thread has in hand or one in its queue, or in the pool.
HostAt(s, a) == host[s].at \in {"encode", "force"} /\ host[s].alloc = a
HandAt(s, a) == HandList(s) /\ thread[s].entry.alloc = a
ListAt(s, i, a) == QueuedList(s, i) /\ todo[s][i].alloc = a
PoolAt(s, i, a) == i \in DOMAIN pool[s] /\ pool[s][i] = a

\* Each is in one place.
PoolApart(s) ==
    /\ \A a, i, j \in Nat : PoolAt(s, i, a) /\ PoolAt(s, j, a) => i = j
    /\ \A a, i \in Nat : PoolAt(s, i, a) => ~HostAt(s, a)
    /\ \A a, i \in Nat : PoolAt(s, i, a) => ~HandAt(s, a)
    /\ \A a, i, j \in Nat : PoolAt(s, i, a) => ~ListAt(s, j, a)
ListsApart(s) ==
    /\ \A a, i, j \in Nat : ListAt(s, i, a) /\ ListAt(s, j, a) => i = j
    /\ \A a, i \in Nat : ListAt(s, i, a) => ~HandAt(s, a)
    /\ \A a, i \in Nat : ListAt(s, i, a) => ~HostAt(s, a)
HandApart(s) == \A a \in Nat : HandAt(s, a) => ~HostAt(s, a)
Within(s) ==
    /\ \A a \in Nat : HostAt(s, a) => a \in 1 .. made[s]
    /\ \A a \in Nat : HandAt(s, a) => a \in 1 .. made[s]
    /\ \A a, i \in Nat : ListAt(s, i, a) => a \in 1 .. made[s]
    /\ \A a, i \in Nat : PoolAt(s, i, a) => a \in 1 .. made[s]
Somewhere(s, a) ==
    \/ HostAt(s, a) \/ HandAt(s, a)
    \/ \E i \in Nat : PoolAt(s, i, a)
    \/ \E i \in Nat : ListAt(s, i, a)
Placed(s) ==
    /\ PoolApart(s) /\ ListsApart(s) /\ HandApart(s) /\ Within(s)
    /\ \A a \in 1 .. made[s] : Somewhere(s, a)

\* What a step of stream s does to the places.
HostSame(s) == \A a \in Nat : HostAt(s, a)' <=> HostAt(s, a)
HandSame(s) == \A a \in Nat : HandAt(s, a)' <=> HandAt(s, a)
ListsSame(s) == \A a, i \in Nat : ListAt(s, i, a)' <=> ListAt(s, i, a)
PoolSame(s) == \A a, i \in Nat : PoolAt(s, i, a)' <=> PoolAt(s, i, a)

SamePlaces(s) == HostSame(s) /\ HandSame(s) /\ ListsSame(s) /\ PoolSame(s) /\ made'[s] = made[s]
ListTaken(s) ==
    /\ HostSame(s) /\ PoolSame(s) /\ made'[s] = made[s]
    /\ \A a \in Nat : ~HandAt(s, a) /\ (HandAt(s, a)' <=> ListAt(s, 1, a))
    /\ \A a, i \in Nat : ListAt(s, i, a)' <=> (i >= 1 /\ ListAt(s, i + 1, a))
ListDone(s) ==
    /\ HostSame(s) /\ ListsSame(s) /\ made'[s] = made[s]
    /\ \A a \in Nat : ~HandAt(s, a)'
    /\ \A a, i \in Nat : PoolAt(s, i, a) => i < Len(pool[s]) + 1
    /\ \A a, i \in Nat : PoolAt(s, i, a)' <=>
         (PoolAt(s, i, a) \/ (i = Len(pool[s]) + 1 /\ HandAt(s, a)))
ListQueued(s) ==
    /\ HandSame(s) /\ PoolSame(s) /\ made'[s] = made[s]
    /\ \A a \in Nat : ~HostAt(s, a)'
    /\ \A a, i \in Nat : ListAt(s, i, a) => i < Len(todo[s]) + 1
    /\ \A a, i \in Nat : ListAt(s, i, a)' <=>
         (ListAt(s, i, a) \/ (i = Len(todo[s]) + 1 /\ HostAt(s, a)))
AllocTaken(s) ==
    /\ HandSame(s) /\ ListsSame(s) /\ made'[s] = made[s]
    /\ \A a \in Nat : ~HostAt(s, a) /\ (HostAt(s, a)' <=> PoolAt(s, 1, a))
    /\ \A a, i \in Nat : PoolAt(s, i, a)' <=> (i >= 1 /\ PoolAt(s, i + 1, a))
AllocMade(s) ==
    /\ HandSame(s) /\ ListsSame(s) /\ made'[s] = made[s] + 1
    /\ \A a \in Nat : ~HostAt(s, a) /\ (HostAt(s, a)' <=> a = made[s] + 1)
    /\ \A a, i \in Nat : ~PoolAt(s, i, a) /\ ~PoolAt(s, i, a)'

LEMMA PlacedKept ==
  ASSUME NEW s \in Streams, Placed(s), made[s] \in Nat, todo[s] \in Seq(Entry), pool[s] \in Seq(Nat),
         \/ SamePlaces(s) \/ ListTaken(s) \/ ListDone(s) \/ ListQueued(s) \/ AllocTaken(s) \/ AllocMade(s)
  PROVE  Placed(s)'
<1>1. CASE SamePlaces(s)
  <2>1. PoolApart(s)'
    <3>1. \A a, i, j \in Nat : PoolAt(s, i, a)' /\ PoolAt(s, j, a)' => i = j
      BY <1>1 DEF SamePlaces, HostSame, HandSame, ListsSame, PoolSame, Placed, PoolApart
    <3>2. \A a, i \in Nat : PoolAt(s, i, a)' => ~HostAt(s, a)'
      BY <1>1 DEF SamePlaces, HostSame, HandSame, ListsSame, PoolSame, Placed, PoolApart
    <3>3. \A a, i \in Nat : PoolAt(s, i, a)' => ~HandAt(s, a)'
      BY <1>1 DEF SamePlaces, HostSame, HandSame, ListsSame, PoolSame, Placed, PoolApart
    <3>4. \A a, i, j \in Nat : PoolAt(s, i, a)' => ~ListAt(s, j, a)'
      BY <1>1 DEF SamePlaces, HostSame, HandSame, ListsSame, PoolSame, Placed, PoolApart
    <3> QED
      BY <3>1, <3>2, <3>3, <3>4 DEF PoolApart
  <2>2. ListsApart(s)'
    BY <1>1 DEF SamePlaces, HostSame, HandSame, ListsSame, PoolSame, Placed, PoolApart, ListsApart, HandApart
  <2>3. HandApart(s)'
    BY <1>1 DEF SamePlaces, HostSame, HandSame, ListsSame, PoolSame, Placed, PoolApart, ListsApart, HandApart
  <2>4. Within(s)'
    BY <1>1 DEF SamePlaces, HostSame, HandSame, ListsSame, PoolSame, Placed, Within
  <2>5. \A a \in 1 .. made'[s] : Somewhere(s, a)'
    BY <1>1 DEF SamePlaces, HostSame, HandSame, ListsSame, PoolSame, Placed, Somewhere
  <2> QED
    BY <2>1, <2>2, <2>3, <2>4, <2>5 DEF Placed
<1>2. CASE ListTaken(s)
  <2>1. PoolApart(s)'
    <3>1. \A a, i, j \in Nat : PoolAt(s, i, a)' /\ PoolAt(s, j, a)' => i = j
      BY <1>2 DEF ListTaken, HostSame, HandSame, ListsSame, PoolSame, Placed, PoolApart, ListsApart, HandApart
    <3>2. \A a, i \in Nat : PoolAt(s, i, a)' => ~HostAt(s, a)'
      BY <1>2 DEF ListTaken, HostSame, HandSame, ListsSame, PoolSame, Placed, PoolApart, ListsApart, HandApart
    <3>3. \A a, i \in Nat : PoolAt(s, i, a)' => ~HandAt(s, a)'
      BY <1>2 DEF ListTaken, HostSame, HandSame, ListsSame, PoolSame, Placed, PoolApart, ListsApart, HandApart
    <3>4. \A a, i, j \in Nat : PoolAt(s, i, a)' => ~ListAt(s, j, a)'
      BY <1>2 DEF ListTaken, HostSame, HandSame, ListsSame, PoolSame, Placed, PoolApart, ListsApart, HandApart
    <3> QED
      BY <3>1, <3>2, <3>3, <3>4 DEF PoolApart
  <2>2. ListsApart(s)'
    BY <1>2 DEF ListTaken, HostSame, HandSame, ListsSame, PoolSame, Placed, PoolApart, ListsApart, HandApart
  <2>3. HandApart(s)'
    BY <1>2 DEF ListTaken, HostSame, HandSame, ListsSame, PoolSame, Placed, PoolApart, ListsApart, HandApart
  <2>4. Within(s)'
    BY <1>2 DEF ListTaken, HostSame, HandSame, ListsSame, PoolSame, Placed, Within
  <2>5. \A a \in 1 .. made'[s] : Somewhere(s, a)'
    <3> SUFFICES ASSUME NEW a \in 1 .. made[s] PROVE Somewhere(s, a)'
      BY <1>2 DEF ListTaken
    <3>1. a \in Nat /\ Somewhere(s, a)
      BY DEF Placed
    <3>2. ASSUME NEW i \in Nat, ListAt(s, i, a) PROVE Somewhere(s, a)'
      <4>1. CASE i = 1
        BY <1>2, <3>1, <3>2, <4>1 DEF ListTaken, Somewhere
      <4>2. CASE i # 1
        <5>1. i >= 1
          BY <3>2 DEF ListAt, QueuedList
        <5>2. i - 1 \in Nat /\ i - 1 >= 1 /\ i - 1 + 1 = i
          BY <4>2, <5>1
        <5>3. ListAt(s, i - 1, a)' <=> (i - 1 >= 1 /\ ListAt(s, i - 1 + 1, a))
          BY <1>2, <3>1, <5>2 DEF ListTaken
        <5> QED
          BY <3>2, <5>2, <5>3 DEF Somewhere
      <4> QED
        BY <4>1, <4>2
    <3> QED
      BY <1>2, <3>1, <3>2 DEF ListTaken, HostSame, HandSame, ListsSame, PoolSame, Somewhere
  <2> QED
    BY <2>1, <2>2, <2>3, <2>4, <2>5 DEF Placed
<1>3. CASE ListDone(s)
  <2>1. PoolApart(s)'
    <3>1. \A a, i, j \in Nat : PoolAt(s, i, a)' /\ PoolAt(s, j, a)' => i = j
      BY <1>3 DEF ListDone, Placed, PoolApart
    <3>2. \A a, i \in Nat : PoolAt(s, i, a)' => ~HostAt(s, a)'
      BY <1>3 DEF ListDone, HostSame, Placed, PoolApart, HandApart
    <3>3. \A a, i \in Nat : PoolAt(s, i, a)' => ~HandAt(s, a)'
      BY <1>3 DEF ListDone
    <3>4. \A a, i, j \in Nat : PoolAt(s, i, a)' => ~ListAt(s, j, a)'
      BY <1>3 DEF ListDone, ListsSame, Placed, PoolApart, ListsApart
    <3> QED
      BY <3>1, <3>2, <3>3, <3>4 DEF PoolApart
  <2>2. ListsApart(s)'
    BY <1>3 DEF ListDone, HostSame, HandSame, ListsSame, PoolSame, Placed, PoolApart, ListsApart, HandApart
  <2>3. HandApart(s)'
    BY <1>3 DEF ListDone, HostSame, HandSame, ListsSame, PoolSame, Placed, PoolApart, ListsApart, HandApart
  <2>4. Within(s)'
    BY <1>3 DEF ListDone, HostSame, HandSame, ListsSame, PoolSame, Placed, Within
  <2>5. \A a \in 1 .. made'[s] : Somewhere(s, a)'
    BY <1>3 DEF ListDone, HostSame, HandSame, ListsSame, PoolSame, Placed, Somewhere
  <2> QED
    BY <2>1, <2>2, <2>3, <2>4, <2>5 DEF Placed
<1>4. CASE ListQueued(s)
  <2>1. PoolApart(s)'
    <3>1. \A a, i, j \in Nat : PoolAt(s, i, a)' /\ PoolAt(s, j, a)' => i = j
      BY <1>4 DEF ListQueued, HostSame, HandSame, ListsSame, PoolSame, Placed, PoolApart, ListsApart, HandApart
    <3>2. \A a, i \in Nat : PoolAt(s, i, a)' => ~HostAt(s, a)'
      BY <1>4 DEF ListQueued, HostSame, HandSame, ListsSame, PoolSame, Placed, PoolApart, ListsApart, HandApart
    <3>3. \A a, i \in Nat : PoolAt(s, i, a)' => ~HandAt(s, a)'
      BY <1>4 DEF ListQueued, HostSame, HandSame, ListsSame, PoolSame, Placed, PoolApart, ListsApart, HandApart
    <3>4. \A a, i, j \in Nat : PoolAt(s, i, a)' => ~ListAt(s, j, a)'
      BY <1>4 DEF ListQueued, HostSame, HandSame, ListsSame, PoolSame, Placed, PoolApart, ListsApart, HandApart
    <3> QED
      BY <3>1, <3>2, <3>3, <3>4 DEF PoolApart
  <2>2. ListsApart(s)'
    BY <1>4 DEF ListQueued, HostSame, HandSame, ListsSame, PoolSame, Placed, PoolApart, ListsApart, HandApart
  <2>3. HandApart(s)'
    BY <1>4 DEF ListQueued, HostSame, HandSame, ListsSame, PoolSame, Placed, PoolApart, ListsApart, HandApart
  <2>4. Within(s)'
    BY <1>4 DEF ListQueued, HostSame, HandSame, ListsSame, PoolSame, Placed, Within
  <2>5. \A a \in 1 .. made'[s] : Somewhere(s, a)'
    <3> SUFFICES ASSUME NEW a \in 1 .. made[s] PROVE Somewhere(s, a)'
      BY <1>4 DEF ListQueued
    <3>1. a \in Nat /\ Somewhere(s, a)
      BY DEF Placed
    <3>2. CASE HostAt(s, a)
      <4>1. PICK n : n = Len(todo[s]) + 1 /\ n \in Nat
        OBVIOUS
      <4>2. ListAt(s, n, a)'
        BY <1>4, <3>1, <3>2, <4>1 DEF ListQueued
      <4> QED
        BY <4>1, <4>2 DEF Somewhere
    <3>3. CASE HandAt(s, a) \/ \E i \in Nat : PoolAt(s, i, a) \/ ListAt(s, i, a)
      BY <1>4, <3>1, <3>3 DEF ListQueued, HandSame, PoolSame, Somewhere
    <3> QED
      BY <3>1, <3>2, <3>3 DEF Somewhere
  <2> QED
    BY <2>1, <2>2, <2>3, <2>4, <2>5 DEF Placed
<1>5. CASE AllocTaken(s)
  <2>1. PoolApart(s)'
    <3>1. ASSUME NEW a \in Nat, NEW i \in Nat, NEW j \in Nat, PoolAt(s, i, a)', PoolAt(s, j, a)'
          PROVE  i = j
      <4>1. PoolAt(s, i + 1, a) /\ PoolAt(s, j + 1, a)
        BY <1>5, <3>1 DEF AllocTaken
      <4>2. i + 1 = j + 1
        BY <4>1 DEF Placed, PoolApart
      <4> QED
        BY <4>2
    <3>2. \A a, i \in Nat : PoolAt(s, i, a)' => ~HostAt(s, a)'
      BY <1>5 DEF AllocTaken, HostSame, HandSame, ListsSame, PoolSame, Placed, PoolApart, ListsApart, HandApart
    <3>3. \A a, i \in Nat : PoolAt(s, i, a)' => ~HandAt(s, a)'
      BY <1>5 DEF AllocTaken, HostSame, HandSame, ListsSame, PoolSame, Placed, PoolApart, ListsApart, HandApart
    <3>4. \A a, i, j \in Nat : PoolAt(s, i, a)' => ~ListAt(s, j, a)'
      BY <1>5 DEF AllocTaken, HostSame, HandSame, ListsSame, PoolSame, Placed, PoolApart, ListsApart, HandApart
    <3> QED
      BY <3>1, <3>2, <3>3, <3>4 DEF PoolApart
  <2>2. ListsApart(s)'
    BY <1>5 DEF AllocTaken, HostSame, HandSame, ListsSame, PoolSame, Placed, PoolApart, ListsApart, HandApart
  <2>3. HandApart(s)'
    BY <1>5 DEF AllocTaken, HostSame, HandSame, ListsSame, PoolSame, Placed, PoolApart, ListsApart, HandApart
  <2>4. Within(s)'
    <3>1. \A a \in Nat : HostAt(s, a)' => a \in 1 .. made'[s]
      BY <1>5 DEF AllocTaken, HostSame, HandSame, ListsSame, PoolSame, Placed, Within
    <3>2. \A a \in Nat : HandAt(s, a)' => a \in 1 .. made'[s]
      BY <1>5 DEF AllocTaken, HostSame, HandSame, ListsSame, PoolSame, Placed, Within
    <3>3. \A a, i \in Nat : ListAt(s, i, a)' => a \in 1 .. made'[s]
      BY <1>5 DEF AllocTaken, HostSame, HandSame, ListsSame, PoolSame, Placed, Within
    <3>4. \A a, i \in Nat : PoolAt(s, i, a)' => a \in 1 .. made'[s]
      BY <1>5 DEF AllocTaken, HostSame, HandSame, ListsSame, PoolSame, Placed, Within
    <3> QED
      BY <3>1, <3>2, <3>3, <3>4 DEF Within
  <2>5. \A a \in 1 .. made'[s] : Somewhere(s, a)'
    <3> SUFFICES ASSUME NEW a \in 1 .. made[s] PROVE Somewhere(s, a)'
      BY <1>5 DEF AllocTaken
    <3>1. a \in Nat /\ Somewhere(s, a)
      BY DEF Placed
    <3>2. ASSUME NEW i \in Nat, PoolAt(s, i, a) PROVE Somewhere(s, a)'
      <4>1. CASE i = 1
        BY <1>5, <3>1, <3>2, <4>1 DEF AllocTaken, Somewhere
      <4>2. CASE i # 1
        <5>1. i >= 1
          BY <3>2 DEF PoolAt
        <5>2. i - 1 \in Nat /\ i - 1 >= 1 /\ i - 1 + 1 = i
          BY <4>2, <5>1
        <5>3. PoolAt(s, i - 1, a)' <=> (i - 1 >= 1 /\ PoolAt(s, i - 1 + 1, a))
          BY <1>5, <3>1, <5>2 DEF AllocTaken
        <5> QED
          BY <3>2, <5>2, <5>3 DEF Somewhere
      <4> QED
        BY <4>1, <4>2
    <3> QED
      BY <1>5, <3>1, <3>2 DEF AllocTaken, HostSame, HandSame, ListsSame, PoolSame, Somewhere
  <2> QED
    BY <2>1, <2>2, <2>3, <2>4, <2>5 DEF Placed
<1>6. CASE AllocMade(s)
  <2>1. PoolApart(s)'
    BY <1>6 DEF AllocMade, HostSame, HandSame, ListsSame, PoolSame, Placed, PoolApart, ListsApart, HandApart
  <2>2. ListsApart(s)'
    <3>1. \A a, i, j \in Nat : ListAt(s, i, a)' /\ ListAt(s, j, a)' => i = j
      BY <1>6 DEF AllocMade, HostSame, HandSame, ListsSame, PoolSame, Placed, PoolApart, ListsApart, HandApart, Within
    <3>2. \A a, i \in Nat : ListAt(s, i, a)' => ~HandAt(s, a)'
      BY <1>6 DEF AllocMade, HostSame, HandSame, ListsSame, PoolSame, Placed, PoolApart, ListsApart, HandApart, Within
    <3>3. \A a, i \in Nat : ListAt(s, i, a)' => ~HostAt(s, a)'
      BY <1>6 DEF AllocMade, HostSame, HandSame, ListsSame, PoolSame, Placed, PoolApart, ListsApart, HandApart, Within
    <3> QED
      BY <3>1, <3>2, <3>3 DEF ListsApart
  <2>3. HandApart(s)'
    BY <1>6 DEF AllocMade, HostSame, HandSame, ListsSame, PoolSame, Placed, PoolApart, ListsApart, HandApart, Within
  <2>4. Within(s)'
    <3>1. \A a \in Nat : HostAt(s, a)' => a \in 1 .. made'[s]
      BY <1>6 DEF AllocMade, HostSame, HandSame, ListsSame, PoolSame, Placed, Within
    <3>2. \A a \in Nat : HandAt(s, a)' => a \in 1 .. made'[s]
      BY <1>6 DEF AllocMade, HostSame, HandSame, ListsSame, PoolSame, Placed, Within
    <3>3. \A a, i \in Nat : ListAt(s, i, a)' => a \in 1 .. made'[s]
      BY <1>6 DEF AllocMade, HostSame, HandSame, ListsSame, PoolSame, Placed, Within
    <3>4. \A a, i \in Nat : PoolAt(s, i, a)' => a \in 1 .. made'[s]
      BY <1>6 DEF AllocMade, HostSame, HandSame, ListsSame, PoolSame, Placed, Within
    <3> QED
      BY <3>1, <3>2, <3>3, <3>4 DEF Within
  <2>5. \A a \in 1 .. made'[s] : Somewhere(s, a)'
    BY <1>6 DEF AllocMade, HostSame, HandSame, ListsSame, PoolSame, Placed, Somewhere
  <2> QED
    BY <2>1, <2>2, <2>3, <2>4, <2>5 DEF Placed
<1> QED
  BY <1>1, <1>2, <1>3, <1>4, <1>5, <1>6

HostKeepsAllocator(s) ==
    \/ host'[s] = host[s]
    \/ host'[s].at \notin {"encode", "force"} /\ host[s].at \notin {"encode", "force"}
    \/ {host'[s].at, host[s].at} \subseteq {"encode", "force"} /\ host'[s].alloc = host[s].alloc

LEMMA StillPlaces ==
  ASSUME TypeInv, NEW s \in Streams, HostKeepsAllocator(s), ThreadSame(s),
         todo'[s] = todo[s] \/ PushedOther(s), pool'[s] = pool[s], made'[s] = made[s]
  PROVE  SamePlaces(s)
<1>0. todo[s] \in Seq(Entry)
  BY DEF TypeInv, ThreadTypes
<1>1. HostSame(s) /\ PoolSame(s)
  BY DEF HostKeepsAllocator, HostSame, HostAt, PoolSame, PoolAt
<1>2. HandSame(s)
  BY DEF ThreadSame, HandList, HandSame, HandAt
<1>3. ListsSame(s)
  <2>1. CASE todo'[s] = todo[s]
    BY <2>1 DEF ListsSame, ListAt, QueuedList
  <2>2. CASE PushedOther(s)
    BY <1>0, <2>2 DEF PushedOther, PushedEntry, ListsSame, ListAt, QueuedList
  <2> QED
    BY <2>1, <2>2
<1> QED
  BY <1>1, <1>2, <1>3 DEF SamePlaces

LEMMA PlacesOfOthers ==
  ASSUME TypeInv, NEW s \in Streams, StreamStep(s), NEW r \in Streams, r # s
  PROVE  pool'[r] = pool[r] /\ made'[r] = made[r]
<1>0. pool \in [Streams -> Seq(Nat)] /\ made \in [Streams -> Nat]
  BY DEF TypeInv, ThreadTypes, HostTypes
<1>1. CASE CreateAllocator(s)
  BY <1>0, <1>1 DEF CreateAllocator
<1>2. CASE HostCall(s) \/ ForceSync(s)
  BY <1>2 DEF HostCall, ForceSync, BeginExecute, Callback, BeginSync, Destroy, Signal, Wait, threadVars
<1>3. CASE Execute(s) \/ EndForceSync(s) \/ Notify(s) \/ EndSync(s) \/ NotifyStop(s) \/ Join(s)
  BY <1>3 DEF Execute, EndForceSync, Notify, EndSync, NotifyStop, Join, threadVars
<1>4. CASE CompleteList(s)
  BY <1>0, <1>4 DEF CompleteList
<1>5. CASE Pop(s) \/ Publish(s) \/ RunFunction(s) \/ ExecuteEvent(s) \/ Drained(s) \/ FallAsleep(s)
  BY <1>5 DEF Pop, Publish, RunFunction, ExecuteEvent, Drained, FallAsleep
<1>6. CASE Gpu(s)
  BY <1>6 DEF Gpu, threadVars
<1> QED
  BY <1>1, <1>2, <1>3, <1>4, <1>5, <1>6 DEF StreamStep, HostStep, ThreadStep

\* The steps that move no allocator.
LEMMA OtherKeepsPlaces ==
  ASSUME TypeInv, NEW s \in Streams, StreamStep(s)
  PROVE  \/ HostKeepsAllocator(s) /\ pool'[s] = pool[s] /\ made'[s] = made[s]
         \/ CreateAllocator(s) \/ Execute(s) \/ CompleteList(s)
<1>0. Shapes
  BY StreamFunctions
<1>1. CASE HostCall(s)
  <2>1. CASE BeginExecute(s) \/ BeginSync(s) \/ Destroy(s)
    BY <1>0, <2>1 DEF BeginExecute, BeginSync, Destroy, Call, Ready, Goto, HostKeepsAllocator, threadVars,
       Shapes, OfStreams
  <2>2. CASE Callback(s)
    BY <1>0, <2>2 DEF Callback, Call, Ready, Goto, HostKeepsAllocator, threadVars, Shapes, OfStreams
  <2>3. ASSUME NEW e \in Events, Signal(s, e)
        PROVE  HostKeepsAllocator(s) /\ pool'[s] = pool[s] /\ made'[s] = made[s]
    BY <1>0, <2>3 DEF Signal, Call, Ready, Goto, HostKeepsAllocator, threadVars, Shapes, OfStreams
  <2>4. ASSUME NEW e \in Events, Wait(s, e)
        PROVE  HostKeepsAllocator(s) /\ pool'[s] = pool[s] /\ made'[s] = made[s]
    BY <2>4 DEF Wait, HostKeepsAllocator, threadVars
  <2> QED
    BY <1>1, <2>1, <2>2, <2>3, <2>4 DEF HostCall
<1>2. CASE ForceSync(s) \/ EndForceSync(s)
  BY <1>0, <1>2 DEF ForceSync, EndForceSync, Goto, HostKeepsAllocator, threadVars, Shapes, OfStreams
<1>3. CASE Notify(s) \/ EndSync(s) \/ NotifyStop(s) \/ Join(s)
  BY <1>0, <1>3 DEF Notify, EndSync, Reached, NotifyStop, Join, Ready, Goto, HostKeepsAllocator, threadVars,
     Shapes, OfStreams
<1>4. CASE Pop(s) \/ Publish(s) \/ RunFunction(s) \/ ExecuteEvent(s) \/ Drained(s) \/ FallAsleep(s)
  BY <1>4 DEF Pop, Publish, RunFunction, ExecuteEvent, Drained, FallAsleep, hostVars, HostKeepsAllocator
<1>5. CASE Gpu(s)
  BY <1>5 DEF Gpu, hostVars, threadVars, HostKeepsAllocator
<1> QED
  BY <1>1, <1>2, <1>3, <1>4, <1>5 DEF StreamStep, HostStep, ThreadStep

LEMMA PlacesMoved ==
  ASSUME TypeInv, NEW s \in Streams, StreamStep(s)
  PROVE  SamePlaces(s) \/ ListTaken(s) \/ ListDone(s) \/ ListQueued(s) \/ AllocTaken(s) \/ AllocMade(s)
<1>0. /\ Shapes /\ todo[s] \in Seq(Entry) /\ pool[s] \in Seq(Nat) /\ made[s] \in Nat
      /\ pool \in [Streams -> Seq(Nat)] /\ made \in [Streams -> Nat]
  BY StreamFunctions DEF TypeInv, ThreadTypes, HostTypes
<1>1. CASE CreateAllocator(s)
  <2>1. HandSame(s) /\ ListsSame(s) /\ \A a : ~HostAt(s, a)
    BY <1>1 DEF CreateAllocator, HandSame, HandAt, HandList, ListsSame, ListAt, QueuedList, HostAt
  <2>2. CASE /\ pool[s] # <<>> /\ Goto(s, [at |-> "encode", alloc |-> Head(pool[s])])
             /\ pool' = [pool EXCEPT ![s] = Tail(@)] /\ UNCHANGED made
    <3>1. /\ 1 \in DOMAIN pool[s] /\ Head(pool[s]) = pool[s][1] /\ pool'[s] = Tail(pool[s])
          /\ host'[s] = [at |-> "encode", alloc |-> Head(pool[s])]
      BY <1>0, <2>2 DEF Goto, Shapes, OfStreams
    <3>2. \A a \in Nat : HostAt(s, a)' <=> PoolAt(s, 1, a)
      BY <3>1 DEF HostAt, PoolAt
    <3>3. \A a, i \in Nat : PoolAt(s, i, a)' <=> (i >= 1 /\ PoolAt(s, i + 1, a))
      BY <1>0, <2>2, <3>1 DEF PoolAt
    <3> QED
      BY <2>1, <2>2, <3>2, <3>3 DEF AllocTaken
  <2>3. CASE /\ pool[s] = <<>> /\ made' = [made EXCEPT ![s] = @ + 1]
             /\ Goto(s, [at |-> "encode", alloc |-> made'[s]]) /\ UNCHANGED pool
    <3>1. made'[s] = made[s] + 1 /\ host'[s] = [at |-> "encode", alloc |-> made[s] + 1]
      BY <1>0, <2>3 DEF Goto, Shapes, OfStreams
    <3>2. \A a \in Nat : HostAt(s, a)' <=> a = made[s] + 1
      BY <3>1 DEF HostAt
    <3>3. \A a, i \in Nat : ~PoolAt(s, i, a) /\ ~PoolAt(s, i, a)'
      BY <2>3 DEF PoolAt
    <3> QED
      BY <2>1, <3>1, <3>2, <3>3 DEF AllocMade
  <2> QED
    BY <1>1, <2>2, <2>3 DEF CreateAllocator
<1>2. CASE Execute(s)
  <2> DEFINE x == [kind |-> "list", frame |-> lastFrame[s] + 1, alloc |-> host[s].alloc,
                   ticket |-> submitted[s] + 1]
  <2>1. /\ todo'[s] = Append(todo[s], x) /\ host'[s].at = "notify" /\ host[s].at = "encode"
        /\ HandSame(s) /\ PoolSame(s) /\ made'[s] = made[s]
    BY <1>0, <1>2 DEF Execute, Push, Goto, threadVars, HandSame, HandAt, HandList, PoolSame, PoolAt, Shapes,
       OfStreams
  <2>2. x.kind = "list" /\ x.alloc = host[s].alloc
    OBVIOUS
  <2> HIDE DEF x
  <2>3. \A a \in Nat : ~HostAt(s, a)'
    BY <2>1 DEF HostAt
  <2>4. \A a, i \in Nat : ListAt(s, i, a) => i < Len(todo[s]) + 1
    BY <1>0 DEF ListAt, QueuedList
  <2>5. \A a, i \in Nat : ListAt(s, i, a)' <=> (ListAt(s, i, a) \/ (i = Len(todo[s]) + 1 /\ HostAt(s, a)))
    BY <1>0, <2>1, <2>2 DEF ListAt, QueuedList, HostAt
  <2> QED
    BY <2>1, <2>3, <2>4, <2>5 DEF ListQueued
<1>3. CASE CompleteList(s)
  <2>1. /\ pool'[s] = Append(pool[s], thread[s].entry.alloc) /\ thread'[s].at = "publish"
        /\ thread[s].at = "visit" /\ thread[s].entry.kind = "list"
        /\ HostSame(s) /\ ListsSame(s) /\ made'[s] = made[s]
    BY <1>0, <1>3 DEF CompleteList, hostVars, HostSame, HostAt, ListsSame, ListAt, QueuedList, Shapes,
       OfStreams
  <2>2. \A a \in Nat : ~HandAt(s, a)'
    BY <2>1 DEF HandAt, HandList
  <2>3. \A a, i \in Nat : PoolAt(s, i, a) => i < Len(pool[s]) + 1
    BY <1>0 DEF PoolAt
  <2>4. \A a, i \in Nat : PoolAt(s, i, a)' <=> (PoolAt(s, i, a) \/ (i = Len(pool[s]) + 1 /\ HandAt(s, a)))
    BY <1>0, <2>1 DEF PoolAt, HandAt, HandList
  <2> QED
    BY <2>1, <2>2, <2>3, <2>4 DEF ListDone
<1>4. CASE Pop(s)
  <2>1. /\ todo[s] # <<>> /\ todo'[s] = Tail(todo[s])
        /\ thread[s].at = "pop" /\ thread'[s] = [at |-> "visit", entry |-> Head(todo[s])]
        /\ HostSame(s) /\ PoolSame(s) /\ made'[s] = made[s]
    BY <1>0, <1>4 DEF Pop, hostVars, HostSame, HostAt, PoolSame, PoolAt, Shapes, OfStreams
  <2>2. 1 \in DOMAIN todo[s] /\ Head(todo[s]) = todo[s][1]
    BY <1>0, <2>1
  <2>3. \A a \in Nat : ~HandAt(s, a) /\ (HandAt(s, a)' <=> ListAt(s, 1, a))
    BY <2>1, <2>2 DEF HandAt, HandList, ListAt, QueuedList
  <2>4. \A a, i \in Nat : ListAt(s, i, a)' <=> (i >= 1 /\ ListAt(s, i + 1, a))
    BY <1>0, <2>1 DEF ListAt, QueuedList
  <2> QED
    BY <2>1, <2>3, <2>4 DEF ListTaken
<1>5. CASE ForceSync(s) \/ EndForceSync(s) \/ Publish(s)
  <2>1. ThreadSame(s) \/ (~HandList(s) /\ ~HandList(s)')
    BY <1>0, <1>5 DEF ForceSync, EndForceSync, Publish, threadVars, ThreadSame, HandList, Shapes, OfStreams
  <2>2. todo'[s] = todo[s]
    BY <1>5 DEF ForceSync, EndForceSync, Publish
  <2>3. HostKeepsAllocator(s) /\ pool'[s] = pool[s] /\ made'[s] = made[s]
    BY <1>0, <1>5 DEF ForceSync, EndForceSync, Publish, Goto, HostKeepsAllocator, threadVars, hostVars, Shapes,
       OfStreams
  <2>4. HandSame(s) /\ ListsSame(s)
    BY <2>1, <2>2 DEF ThreadSame, HandSame, HandAt, HandList, ListsSame, ListAt, QueuedList
  <2>5. HostSame(s) /\ PoolSame(s)
    BY <2>3 DEF HostKeepsAllocator, HostSame, HostAt, PoolSame, PoolAt
  <2> QED
    BY <2>3, <2>4, <2>5 DEF SamePlaces
<1>6. CASE /\ NumbersSame(s) /\ ThreadSame(s) /\ (todo'[s] = todo[s] \/ PushedOther(s))
           /\ HostKeepsAllocator(s) /\ pool'[s] = pool[s] /\ made'[s] = made[s]
  BY <1>6, StillPlaces
<1> QED
  BY <1>1, <1>2, <1>3, <1>4, <1>5, <1>6, OtherSteps, OtherKeepsPlaces

-----------------------------------------------------------------------------
\* The lists that wait for the thread are of frames not reported done: ForceSync,
\* which runs ahead, waits for their queue to be empty.
Ahead(s) == \A i \in DOMAIN todo[s] : QueuedList(s, i) => executedFrame[s] < todo[s][i].frame

LEMMA AheadKept ==
  ASSUME TypeInv, NEW s \in Streams, FrameInv(s), TicketsInOrder(s), Ahead(s), StreamStep(s)
  PROVE  Ahead(s)'
<1>0. /\ todo[s] \in Seq(Entry) /\ lastFrame[s] \in Nat /\ executedFrame[s] \in Nat
      /\ \A i \in DOMAIN todo[s] : QueuedList(s, i) => todo[s][i].frame \in Nat
  BY ListEntry DEF TypeInv, ThreadTypes, HostTypes, QueuedList
<1>1. CASE NumbersSame(s) /\ ThreadSame(s) /\ (todo'[s] = todo[s] \/ PushedOther(s))
  <2>1. \A i \in DOMAIN todo'[s] : QueuedList(s, i)'
         => i \in DOMAIN todo[s] /\ QueuedList(s, i) /\ todo'[s][i] = todo[s][i]
    <3>1. CASE todo'[s] = todo[s]
      BY <3>1 DEF QueuedList
    <3>2. CASE PushedOther(s)
      BY <1>0, <3>2 DEF PushedOther, PushedEntry, QueuedList
    <3> QED
      BY <1>1, <3>1, <3>2
  <2> QED
    BY <1>1, <2>1 DEF Ahead, NumbersSame
<1>2. CASE Execute(s)
  <2>1. PICK x : x.frame = lastFrame[s] + 1 /\ todo'[s] = Append(todo[s], x)
    BY <1>2, StreamFunctions DEF Execute, Push, Shapes, OfStreams
  <2>2. executedFrame'[s] = executedFrame[s]
    BY <1>2 DEF Execute, threadVars
  <2>3. \A i \in DOMAIN todo'[s] :
           (i \in DOMAIN todo[s] /\ todo'[s][i] = todo[s][i]) \/ todo'[s][i] = x
    BY <1>0, <2>1
  <2> QED
    BY <1>0, <2>1, <2>2, <2>3 DEF Ahead, QueuedList, FrameInv, FrameBounds
<1>3. CASE ForceSync(s) \/ CompleteList(s)
  BY <1>3 DEF ForceSync, CompleteList, threadVars, Ahead, QueuedList
<1>4. CASE EndForceSync(s)
  BY <1>4 DEF EndForceSync, TicketsInOrder, Ahead
<1>5. CASE Pop(s)
  <2>1. executedFrame'[s] = executedFrame[s] /\ todo[s] # <<>> /\ todo'[s] = Tail(todo[s])
    BY <1>5, StreamFunctions DEF Pop, Shapes, OfStreams
  <2>2. \A i \in DOMAIN todo'[s] : i + 1 \in DOMAIN todo[s] /\ todo'[s][i] = todo[s][i + 1]
    BY <1>0, <2>1
  <2> QED
    BY <2>1, <2>2 DEF Ahead, QueuedList
<1>6. CASE Publish(s)
  <2>1. todo'[s] = todo[s] /\ executedFrame'[s] = HandFrame(s)
    BY <1>0, <1>6, StreamFunctions DEF Publish, HandFrame, Shapes, OfStreams
  <2> QED
    BY <2>1 DEF Ahead, QueuedList, FrameInv, FrameBounds
<1> QED
  BY <1>1, <1>2, <1>3, <1>4, <1>5, <1>6, OtherSteps

\* A list that the device has yet to execute is still to be completed by the
\* thread, or is the one that ForceSync waits for: its allocator is not pooled.
HeldBy(s, a, f) ==
    \/ HandList(s) /\ thread[s].entry.alloc = a /\ thread[s].entry.frame = f
    \/ \E i \in DOMAIN todo[s] : QueuedList(s, i) /\ todo[s][i].alloc = a /\ todo[s][i].frame = f
    \/ host[s].at = "force" /\ host[s].alloc = a /\ lastFrame[s] = f
GpuHeld(s) ==
    \A j \in DOMAIN gpu[s] : gpu[s][j].op = "list" => HeldBy(s, gpu[s][j].alloc, gpu[s][j].frame)

LEMMA ForceStays ==
  ASSUME NEW s \in Streams, StreamStep(s), host[s].at = "force"
  PROVE  EndForceSync(s) \/ (host'[s] = host[s] /\ lastFrame'[s] = lastFrame[s])
<1>1. ~HostCall(s) /\ ~ForceSync(s)
  <2>1. ~Call(s)
    BY DEF Call, Ready
  <2> QED
    BY <2>1 DEF HostCall, BeginExecute, Callback, BeginSync, Destroy, Signal, Wait, ForceSync
<1>2. CASE HostStep(s)
  BY <1>2 DEF HostStep, CreateAllocator, Execute, Notify, EndSync, Reached, NotifyStop, Join
<1>3. CASE ThreadStep(s) \/ Gpu(s)
  BY <1>3 DEF ThreadStep, Pop, CompleteList, Publish, RunFunction, ExecuteEvent, Drained, FallAsleep, Gpu,
     hostVars
<1> QED
  BY <1>1, <1>2, <1>3 DEF StreamStep

LEMMA HoldersKept ==
  ASSUME TypeInv, NEW s \in Streams, StreamStep(s), NEW a, NEW f \in Nat, f > cmdFence[s], HeldBy(s, a, f)
  PROVE  HeldBy(s, a, f)'
<1>0. todo[s] \in Seq(Entry) /\ lastFrame[s] \in Nat /\ cmdFence[s] \in Nat
  BY DEF TypeInv, ThreadTypes, HostTypes, GpuTypes
<1>1. CASE host[s].at = "force" /\ host[s].alloc = a /\ lastFrame[s] = f
  <2>1. ~EndForceSync(s)
    BY <1>0, <1>1 DEF EndForceSync, FrameDone
  <2> QED
    BY <1>1, <2>1, ForceStays DEF HeldBy
<1>2. CASE HandList(s) /\ thread[s].entry.alloc = a /\ thread[s].entry.frame = f
  <2>1. ~CompleteList(s) /\ ~Pop(s) /\ ~Publish(s)
    BY <1>0, <1>2 DEF CompleteList, FrameDone, Pop, Publish, HandList
  <2>2. Execute(s) \/ ForceSync(s) \/ EndForceSync(s) => thread'[s] = thread[s]
    BY DEF Execute, ForceSync, EndForceSync, threadVars
  <2>3. thread'[s] = thread[s]
    BY <1>2, <2>1, <2>2, OtherSteps DEF ThreadSame
  <2> QED
    BY <1>2, <2>3 DEF HeldBy, HandList
<1>3. ASSUME NEW i \in DOMAIN todo[s], QueuedList(s, i), todo[s][i].alloc = a, todo[s][i].frame = f
      PROVE  HeldBy(s, a, f)'
  <2>1. CASE Pop(s)
    <3>1. /\ todo[s] # <<>> /\ todo'[s] = Tail(todo[s])
          /\ thread'[s] = [at |-> "visit", entry |-> Head(todo[s])]
      BY <2>1, StreamFunctions DEF Pop, Shapes, OfStreams
    <3>2. CASE i = 1
      BY <1>0, <1>3, <3>1, <3>2 DEF HeldBy, HandList, QueuedList
    <3>3. CASE i # 1
      <4>1. i - 1 \in DOMAIN todo'[s] /\ todo'[s][i - 1] = todo[s][i]
        BY <1>0, <3>1, <3>3
      <4> QED
        BY <1>3, <4>1 DEF HeldBy, QueuedList
    <3> QED
      BY <3>2, <3>3
  <2>2. CASE ~Pop(s)
    <3>1. todo'[s] = todo[s] \/ \E x : todo'[s] = Append(todo[s], x)
      <4>1. Execute(s) => \E x : todo'[s] = Append(todo[s], x)
        BY StreamFunctions DEF Execute, Push, Shapes, OfStreams
      <4>2. ForceSync(s) \/ EndForceSync(s) \/ CompleteList(s) \/ Publish(s) => todo'[s] = todo[s]
        BY DEF ForceSync, EndForceSync, CompleteList, Publish
      <4> QED
        BY <2>2, <4>1, <4>2, OtherSteps DEF PushedOther, PushedEntry
    <3>2. i \in DOMAIN todo'[s] /\ todo'[s][i] = todo[s][i]
      BY <1>0, <3>1
    <3> QED
      BY <1>3, <3>2 DEF HeldBy, QueuedList
  <2> QED
    BY <2>1, <2>2
<1> QED
  BY <1>1, <1>2, <1>3 DEF HeldBy

LEMMA GpuHeldKept ==
  ASSUME TypeInv, NEW s \in Streams, GpuOrder(s), GpuHeld(s), StreamStep(s)
  PROVE  GpuHeld(s)'
<1>0. gpu[s] \in Seq(Item) /\ cmdFence[s] \in Nat /\ lastFrame[s] \in Nat /\ todo[s] \in Seq(Entry)
  BY GpuTyped DEF TypeInv, ThreadTypes
<1> SUFFICES ASSUME NEW j \in DOMAIN gpu'[s], gpu'[s][j].op = "list"
             PROVE  HeldBy(s, gpu[s][j].alloc, gpu[s][j].frame)'
  BY DEF GpuHeld
<1>1. CASE WasThere(s, j)
  <2>1. PICK k \in DOMAIN gpu[s] : gpu'[s][j] = gpu[s][k]
    BY <1>1 DEF WasThere
  <2>2. /\ gpu[s][k].frame \in Nat /\ gpu[s][k].frame > cmdFence[s]
        /\ HeldBy(s, gpu[s][k].alloc, gpu[s][k].frame)
    BY <1>0, <2>1, GpuTyped DEF GpuOrder, GpuBounds, GpuHeld
  <2>3. \A a, f : a = gpu[s][k].alloc /\ f = gpu[s][k].frame => HeldBy(s, a, f)'
    BY <2>2, HoldersKept
  <2> QED
    BY <2>1, <2>3
<1>2. CASE j = Len(gpu[s]) + 1 /\ Appended(s, gpu'[s][j])
  <2>1. ~GpuIdle(s)
    BY <1>0, <1>2 DEF GpuIdle, Appended
  <2>2. ~Gpu(s)
    <3>1. Gpu(s) => \A k \in DOMAIN gpu'[s] : k + 1 \in DOMAIN gpu[s]
      BY GpuTakes
    <3> QED
      BY <1>0, <1>2, <3>1
  <2>3. \A x : Appended(s, x) => gpu'[s][j] = x
    BY <1>0, <1>2 DEF Appended
  <2>4. ~Signalled(s) /\ ~Waited(s)
    <3>1. \A e \in Events : ~Appended(s, [op |-> "signal", event |-> e, value |-> fenceIndex[e] + 1])
      BY <2>3
    <3>2. \A e \in Events : ~Appended(s, [op |-> "wait", event |-> e, value |-> fenceIndex[e], after |-> signal[e]])
      BY <2>3
    <3> QED
      BY <3>1, <3>2 DEF Signalled, Waited
  <2>5. lastFrame'[s] = lastFrame[s] + 1
    BY <2>1, <2>2, <2>4, GpuEffect DEF Framed
  <2>6. Execute(s) \/ ForceSync(s)
    <3>1. lastFrame'[s] # lastFrame[s]
      BY <1>0, <2>5
    <3> QED
      BY <3>1, OtherSteps DEF NumbersSame, EndForceSync, Pop, CompleteList, Publish, hostVars
  <2>7. gpu'[s][j] = [op |-> "list", frame |-> lastFrame[s] + 1, alloc |-> host[s].alloc,
                      ticket |-> submitted[s] + 1]
    BY <1>0, <1>2, <2>6, StreamFunctions DEF Execute, ForceSync, NewFrame, Queue, Shapes, OfStreams
  <2>8. CASE Execute(s)
    <3> DEFINE x == [kind |-> "list", frame |-> lastFrame[s] + 1, alloc |-> host[s].alloc,
                     ticket |-> submitted[s] + 1]
    <3>1. todo'[s] = Append(todo[s], x)
      BY <2>8, StreamFunctions DEF Execute, Push, Shapes, OfStreams
    <3>2. x.kind = "list" /\ x.frame = lastFrame[s] + 1 /\ x.alloc = host[s].alloc
      OBVIOUS
    <3> HIDE DEF x
    <3>3. Len(todo[s]) + 1 \in DOMAIN todo'[s] /\ todo'[s][Len(todo[s]) + 1] = x
      BY <1>0, <3>1
    <3>4. \A a, f : a = x.alloc /\ f = x.frame => HeldBy(s, a, f)'
      BY <3>2, <3>3 DEF HeldBy, QueuedList
    <3> QED
      BY <2>7, <3>2, <3>4
  <2>9. CASE ForceSync(s)
    <3>1. host'[s] = [at |-> "force", alloc |-> host[s].alloc]
      BY <2>9, StreamFunctions DEF ForceSync, Goto, Shapes, OfStreams
    <3>2. \A a, f : a = host[s].alloc /\ f = lastFrame[s] + 1 => HeldBy(s, a, f)'
      BY <2>5, <3>1 DEF HeldBy
    <3> QED
      BY <2>7, <3>2
  <2> QED
    BY <2>6, <2>8, <2>9
<1> QED
  BY <1>1, <1>2, Earlier


\* An allocator in the pool is held by nobody else, so by no list of the device.
LEMMA PooledIdle ==
  ASSUME TypeInv, NEW s \in Streams, PoolApart(s), GpuHeld(s), NEW i \in DOMAIN pool[s]
  PROVE  /\ \A j \in DOMAIN pool[s] : pool[s][j] = pool[s][i] => j = i
         /\ \A j \in DOMAIN gpu[s] : gpu[s][j].op = "list" => gpu[s][j].alloc # pool[s][i]
<1>0. pool[s] \in Seq(Nat) /\ todo[s] \in Seq(Entry) /\ i \in Nat /\ pool[s][i] \in Nat
  BY DEF TypeInv, ThreadTypes
<1>1. PoolAt(s, i, pool[s][i])
  BY DEF PoolAt
<1>2. ASSUME NEW j \in DOMAIN pool[s], pool[s][j] = pool[s][i] PROVE j = i
  <2>1. j \in Nat /\ PoolAt(s, j, pool[s][i])
    BY <1>0, <1>2 DEF PoolAt
  <2> QED
    BY <1>0, <1>1, <2>1 DEF PoolApart
<1>3. ASSUME NEW j \in DOMAIN gpu[s], gpu[s][j].op = "list", gpu[s][j].alloc = pool[s][i] PROVE FALSE
  <2>1. HeldBy(s, pool[s][i], gpu[s][j].frame)
    BY <1>3 DEF GpuHeld
  <2>2. ~HostAt(s, pool[s][i]) /\ ~HandAt(s, pool[s][i]) /\ \A k \in Nat : ~ListAt(s, k, pool[s][i])
    BY <1>0, <1>1 DEF PoolApart
  <2>3. \A k \in DOMAIN todo[s] : k \in Nat
    BY <1>0
  <2> QED
    BY <2>1, <2>2, <2>3 DEF HeldBy, HostAt, HandAt, ListAt
<1> QED
  BY <1>2, <1>3

\* When the pool is empty every allocator is with the thread: the one in its hand
\* and one for each list of the frames that the throttle lets through.
LEMMA FewAllocators ==
  ASSUME TypeInv, NEW s \in Streams, Placed(s), FrameInv(s), Ahead(s),
         host[s].at = "create", pool[s] = <<>>, ~MustThrottle(s)
  PROVE  made[s] <= MaxAllocators + 1
<1> DEFINE T == executedFrame[s] + 1 .. lastFrame[s]
           A == {a \in 1 .. made[s] : \E i \in Nat : ListAt(s, i, a)}
           place(a) == CHOOSE i \in Nat : ListAt(s, i, a)
           f == [a \in A |-> todo[s][place(a)].frame]
           hand == thread[s].entry.alloc
<1>0. /\ todo[s] \in Seq(Entry) /\ lastFrame[s] \in Nat /\ executedFrame[s] \in Nat /\ made[s] \in Nat
      /\ lastFence[s] \in Nat /\ MaxAllocators \in Nat
      /\ \A i \in DOMAIN todo[s] : QueuedList(s, i) => todo[s][i].frame \in Nat
  <2>1. /\ todo[s] \in Seq(Entry) /\ lastFrame[s] \in Nat /\ executedFrame[s] \in Nat /\ made[s] \in Nat
        /\ lastFence[s] \in Nat /\ MaxAllocators \in Nat
    BY DXQueueAssumption DEF TypeInv, ThreadTypes, HostTypes
  <2> QED
    BY <2>1, ListEntry DEF QueuedList
<1>1. \A a \in A : place(a) \in Nat /\ ListAt(s, place(a), a)
  OBVIOUS
<1> HIDE DEF place
<1>2. \A a \in A : place(a) \in DOMAIN todo[s] /\ QueuedList(s, place(a)) /\ todo[s][place(a)].alloc = a
  BY <1>1 DEF ListAt, QueuedList
<1>3. \A i \in DOMAIN todo[s] : QueuedList(s, i) => todo[s][i].frame \in T
  BY <1>0 DEF Ahead, FrameInv, FrameBounds
<1>4. f \in Injection(A, T)
  <2>1. f \in [A -> T]
    BY <1>2, <1>3
  <2>2. ASSUME NEW a \in A, NEW b \in A, f[a] = f[b] PROVE a = b
    <3>1. place(a) = place(b)
      <4>1. ~(place(a) < place(b)) /\ ~(place(b) < place(a))
        <5>1. /\ \A i, j \in DOMAIN todo[s] : j < i /\ QueuedList(s, i) /\ QueuedList(s, j) =>
                   todo[s][j].frame < todo[s][i].frame
              /\ todo[s][place(a)].frame = todo[s][place(b)].frame
          BY <2>2 DEF FrameInv, FrameOrder
        <5>2. todo[s][place(a)].frame \in Nat
          BY <1>0, <1>2
        <5> QED
          BY <1>2, <5>1, <5>2
      <4> QED
        BY <1>1, <4>1
    <3> QED
      BY <1>2, <3>1
  <2> QED
    BY <2>1, <2>2 DEF Injection, IsInjective
<1>5. IsFiniteSet(T) /\ Cardinality(T) <= MaxAllocators
  <2>1. IsFiniteSet(T) /\ Cardinality(T) =
          IF executedFrame[s] + 1 > lastFrame[s] THEN 0 ELSE lastFrame[s] - (executedFrame[s] + 1) + 1
    <3>1. executedFrame[s] + 1 \in Int /\ lastFrame[s] \in Int
      BY <1>0
    <3> QED
      BY <3>1, FS_Interval, Zenon
  <2>2. lastFrame[s] - executedFrame[s] <= MaxAllocators
    BY <1>0 DEF MustThrottle
  <2> HIDE DEF T
  <2> QED
    BY <1>0, <2>1, <2>2
<1> HIDE DEF T, f
<1>6. IsFiniteSet(A) /\ Cardinality(A) <= Cardinality(T)
  BY <1>4, <1>5, FS_Injection
<1>7. 1 .. made[s] \subseteq A \cup {hand}
  <2>1. \A a \in 1 .. made[s] : a \in Nat /\ Somewhere(s, a)
    BY <1>0 DEF Placed
  <2> QED
    BY <2>1 DEF Somewhere, HostAt, HandAt, PoolAt
<1> HIDE DEF A, hand
<1>8. /\ IsFiniteSet(A \cup {hand})
      /\ Cardinality(A \cup {hand}) = IF hand \in A THEN Cardinality(A) ELSE Cardinality(A) + 1
  BY <1>6, FS_AddElement
<1>9. Cardinality(1 .. made[s]) <= Cardinality(A \cup {hand})
  BY <1>7, <1>8, FS_Subset
<1>10. Cardinality(1 .. made[s]) = made[s]
  BY <1>0, FS_Interval
<1>11. Cardinality(A) \in Nat /\ Cardinality(T) \in Nat
  BY <1>5, <1>6, FS_CardinalityType
<1> QED
  BY <1>0, <1>5, <1>6, <1>8, <1>9, <1>10, <1>11

LEMMA FewKept ==
  ASSUME TypeInv, NEW s \in Streams, Placed(s), FrameInv(s), Ahead(s), StreamStep(s),
         made[s] <= MaxAllocators + 2
  PROVE  made'[s] <= MaxAllocators + 2
<1>0. made \in [Streams -> Nat] /\ MaxAllocators \in Nat
  BY DXQueueAssumption DEF TypeInv, HostTypes
<1>1. CASE CreateAllocator(s)
  <2>1. CASE made' = made
    BY <2>1
  <2>2. CASE pool[s] = <<>> /\ made' = [made EXCEPT ![s] = @ + 1]
    <3>1. made[s] <= MaxAllocators + 1
      BY <1>1, <2>2, FewAllocators DEF CreateAllocator
    <3> QED
      BY <1>0, <2>2, <3>1
  <2> QED
    BY <1>1, <2>1, <2>2 DEF CreateAllocator
<1>2. Execute(s) \/ CompleteList(s) => made' = made
  BY DEF Execute, CompleteList
<1> QED
  BY <1>1, <1>2, OtherKeepsPlaces

AllocatorInv == \A s \in Streams :
    /\ FrameInv(s) /\ TicketsInOrder(s) /\ Placed(s) /\ Ahead(s)
    /\ GpuOrder(s) /\ GpuHeld(s)
    /\ made[s] <= MaxAllocators + 2

LEMMA AllocatorInit == QueueInit => AllocatorInv
<1> SUFFICES ASSUME QueueInit, NEW s \in Streams
             PROVE  /\ FrameInv(s) /\ TicketsInOrder(s) /\ Placed(s) /\ Ahead(s) /\ GpuOrder(s) /\ GpuHeld(s)
                    /\ made[s] <= MaxAllocators + 2
  BY DEF AllocatorInv
<1>1. /\ host[s].at = "ready" /\ thread[s].at = "pop" /\ todo[s] = <<>> /\ pool[s] = <<>> /\ gpu[s] = <<>>
      /\ made[s] = 0 /\ lastFrame[s] = 0 /\ executedFrame[s] = 0 /\ lastFence[s] = 0 /\ cmdFence[s] = 0
      /\ submitted[s] = 0 /\ ran[s] = {}
  BY DEF QueueInit, Ready
<1>2. FrameInv(s)
  BY <1>1 DEF FrameInv, FrameBounds, FrameOrder, FrameDrained, NoList, HandFrame, HandList, QueuedList
<1>3. TicketsInOrder(s)
  BY <1>1 DEF TicketsInOrder, Ticketed, InHand
<1>4. Placed(s)
  <2>1. \A a, i : ~HostAt(s, a) /\ ~HandAt(s, a) /\ ~ListAt(s, i, a) /\ ~PoolAt(s, i, a)
    BY <1>1 DEF HostAt, HandAt, HandList, ListAt, QueuedList, PoolAt
  <2>2. 1 .. made[s] = {}
    BY <1>1
  <2> QED
    BY <2>1, <2>2 DEF Placed, PoolApart, ListsApart, HandApart, Within
<1>5. Ahead(s) /\ GpuOrder(s) /\ GpuHeld(s)
  BY <1>1 DEF Ahead, GpuOrder, GpuBounds, GpuSorted, DoneBefore, GpuHeld
<1>6. made[s] <= MaxAllocators + 2
  BY <1>1, DXQueueAssumption
<1> QED
  BY <1>2, <1>3, <1>4, <1>5, <1>6

LEMMA AllocatorStep == TypeInv /\ TypeInv' /\ AllocatorInv /\ [QueueNext]_queueVars => AllocatorInv'
<1> SUFFICES ASSUME TypeInv, TypeInv', AllocatorInv, [QueueNext]_queueVars, NEW r \in Streams
             PROVE  /\ FrameInv(r)' /\ TicketsInOrder(r)' /\ Placed(r)' /\ Ahead(r)' /\ GpuOrder(r)' /\ GpuHeld(r)'
                    /\ made'[r] <= MaxAllocators + 2
  BY DEF AllocatorInv
<1> DEFINE Kept == /\ FrameInv(r)' /\ TicketsInOrder(r)' /\ Placed(r)' /\ Ahead(r)' /\ GpuOrder(r)' /\ GpuHeld(r)'
                   /\ made'[r] <= MaxAllocators + 2
<1>0. /\ FrameInv(r) /\ TicketsInOrder(r) /\ Placed(r) /\ Ahead(r) /\ GpuOrder(r) /\ GpuHeld(r)
      /\ made[r] <= MaxAllocators + 2
      /\ made[r] \in Nat /\ todo[r] \in Seq(Entry) /\ pool[r] \in Seq(Nat)
  BY DEF AllocatorInv, TypeInv, HostTypes, ThreadTypes
<1>1. ASSUME SameAt(r), pool'[r] = pool[r], made'[r] = made[r] PROVE Kept
  <2>1. FrameInv(r)' /\ Ahead(r)'
    BY <1>0, <1>1 DEF SameAt, FrameInv, FrameBounds, FrameOrder, FrameDrained, NoList, HandFrame, HandList,
       QueuedList, Ahead
  <2>2. TicketsInOrder(r)'
    BY <1>0, <1>1 DEF SameAt, TicketsInOrder, Ticketed, InHand
  <2>3. SamePlaces(r)
    BY <1>1 DEF SameAt, SamePlaces, HostSame, HostAt, HandSame, HandAt, HandList, ListsSame, ListAt, QueuedList,
       PoolSame, PoolAt
  <2>4. Placed(r)'
    BY <1>0, <2>3, PlacedKept
  <2>5. GpuOrder(r)'
    BY <1>0, <1>1 DEF SameAt, GpuOrder, GpuBounds, GpuSorted, DoneBefore
  <2>6. GpuHeld(r)'
    BY <1>0, <1>1 DEF SameAt, GpuHeld, HeldBy, HandList, QueuedList
  <2> QED
    BY <1>0, <1>1, <2>1, <2>2, <2>4, <2>5, <2>6
<1>2. CASE UNCHANGED queueVars
  BY <1>1, <1>2 DEF SameAt, queueVars, hostVars, threadVars, gpuVars
<1>3. ASSUME NEW s \in Streams, StreamStep(s), r # s PROVE Kept
  BY <1>1, <1>3, StreamFunctions, OthersKept, PlacesOfOthers
<1>4. ASSUME StreamStep(r) PROVE Kept
  <2>1. FrameInv(r)' /\ TicketsInOrder(r)' /\ Ahead(r)'
    BY <1>0, <1>4, FramesKept, OrderKept, AheadKept
  <2>2. Placed(r)'
    BY <1>0, <1>4, PlacesMoved, PlacedKept
  <2>3. GpuOrder(r)' /\ GpuHeld(r)'
    BY <1>0, <1>4, GpuOrderKept, GpuHeldKept
  <2>4. made'[r] <= MaxAllocators + 2
    BY <1>0, <1>4, FewKept
  <2> QED
    BY <2>1, <2>2, <2>3, <2>4
<1> QED
  BY <1>2, <1>3, <1>4 DEF QueueNext, StreamStep

\* The command allocators of a stream are bounded by the throttle, and one that is
\* reset and pooled is there once and has no list that the device may still execute.
THEOREM AllocatorsSafe == QueueSpec => []AllocatorsReused
<1>1. TypeInv /\ AllocatorInv => AllocatorsReused
  BY PooledIdle DEF AllocatorInv, Placed, AllocatorsReused, AllocatorsBounded, PooledAllocatorsIdle
<1> QED
  BY TypesAlways, AllocatorInit, AllocatorStep, <1>1, PTL DEF QueueSpec

-----------------------------------------------------------------------------
\* The numbers of the events, whichever streams signal them: none that is to be
\* shown or reported is greater than that of the last signal made.
EntryNumbered(last, x) == x.kind = "event" => x.value \in 1 .. last[x.event]
ItemNumbered(last, x) == x.op = "signal" => x.value <= last[x.event]
EventNumbered(e) == finishedEvent[e] \in 1 .. fenceIndex[e] /\ fence[e] <= fenceIndex[e]
StreamNumbered(s) ==
    /\ \A i \in DOMAIN todo[s] : EntryNumbered(fenceIndex, todo[s][i])
    /\ thread[s].at = "visit" => EntryNumbered(fenceIndex, thread[s].entry)
    /\ \A i \in DOMAIN gpu[s] : ItemNumbered(fenceIndex, gpu[s][i])
EventNumbers == (\A e \in Events : EventNumbered(e)) /\ (\A s \in Streams : StreamNumbered(s))

QueueInv == AllocatorInv /\ EventNumbers

LEMMA EventNumbersInit == QueueInit => EventNumbers
BY DEF QueueInit, EventNumbers, EventNumbered, StreamNumbered

\* The count of the signals of an event never falls.
LEMMA IndexGrows ==
  ASSUME TypeInv, NEW s \in Streams, StreamStep(s), NEW e \in Events
  PROVE  fenceIndex[e] \in Nat /\ fenceIndex'[e] \in Nat /\ fenceIndex[e] <= fenceIndex'[e]
<1>1. fenceIndex \in [Events -> Nat]
  BY DEF TypeInv, HostTypes
<1>2. ASSUME NEW v \in Events, Signal(s, v) PROVE fenceIndex'[e] \in Nat /\ fenceIndex[e] <= fenceIndex'[e]
  BY <1>1, <1>2 DEF Signal
<1> QED
  BY <1>1, <1>2, IndexEffect

LEMMA EntryStaysNumbered ==
  ASSUME TypeInv, NEW s \in Streams, StreamStep(s), NEW x \in Entry, EntryNumbered(fenceIndex, x)
  PROVE  EntryNumbered(fenceIndex', x)
<1> SUFFICES ASSUME x.kind = "event" PROVE x.value \in 1 .. fenceIndex'[x.event]
  BY DEF EntryNumbered
<1>1. x.event \in Events /\ x.value \in Nat
  BY EventEntry
<1> QED
  BY <1>1, IndexGrows DEF EntryNumbered

LEMMA ItemStaysNumbered ==
  ASSUME TypeInv, NEW s \in Streams, StreamStep(s), NEW x \in Item, ItemNumbered(fenceIndex, x)
  PROVE  ItemNumbered(fenceIndex', x)
<1> SUFFICES ASSUME x.op = "signal" PROVE x.value <= fenceIndex'[x.event]
  BY DEF ItemNumbered
<1>1. x.event \in Events /\ x.value \in Nat
  BY ItemFields
<1> QED
  BY <1>1, IndexGrows DEF ItemNumbered

\* The entry and the item of a new signal have the number the event gets.
LEMMA SignalNumbered ==
  ASSUME TypeInv, NEW s \in Streams, NEW e \in Events, Signal(s, e)
  PROVE  /\ EntryNumbered(fenceIndex', NewEventEntry(e))
         /\ ItemNumbered(fenceIndex', [op |-> "signal", event |-> e, value |-> fenceIndex[e] + 1])
<1>1. fenceIndex[e] \in Nat /\ fenceIndex'[e] = fenceIndex[e] + 1
  BY DEF TypeInv, HostTypes, Signal
<1> QED
  BY <1>1 DEF EntryNumbered, ItemNumbered, NewEventEntry

LEMMA EntriesKept ==
  ASSUME TypeInv, TypeInv', NEW s \in Streams, StreamNumbered(s), StreamStep(s)
  PROVE  /\ \A i \in DOMAIN todo'[s] : EntryNumbered(fenceIndex', todo'[s][i])
         /\ thread'[s].at = "visit" => EntryNumbered(fenceIndex', thread'[s].entry)
<1>0. /\ todo[s] \in Seq(Entry) /\ todo'[s] \in Seq(Entry)
      /\ \A i \in DOMAIN todo[s] : todo[s][i] \in Entry
      /\ thread[s].at = "visit" => thread[s].entry \in Entry
  BY Visiting DEF TypeInv, ThreadTypes
<1>1. /\ \A i \in DOMAIN todo[s] : EntryNumbered(fenceIndex', todo[s][i])
      /\ thread[s].at = "visit" => EntryNumbered(fenceIndex', thread[s].entry)
  BY <1>0, EntryStaysNumbered DEF StreamNumbered
<1>2. CASE Quiet(s) \/ Finished(s)
  BY <1>1, <1>2 DEF Quiet, Finished
<1>3. CASE Pushed(s)
  <2>1. PICK x \in Entry : /\ PushedEntry(s, x)
                           /\ x.kind = "event" => \E e \in Events : Signal(s, e) /\ x = NewEventEntry(e)
    BY <1>3 DEF Pushed
  <2>2. EntryNumbered(fenceIndex', x)
    <3>1. CASE x.kind = "event"
      BY <2>1, <3>1, SignalNumbered
    <3> QED
      BY <3>1 DEF EntryNumbered
  <2>3. todo'[s] = Append(todo[s], x) /\ thread'[s] = thread[s]
    BY <2>1 DEF PushedEntry
  <2> QED
    BY <1>1, <2>2, <2>3, GrownQueue
<1>4. CASE Popped(s)
  <2>1. todo[s] # <<>> /\ todo'[s] = Tail(todo[s]) /\ thread'[s] = [at |-> "visit", entry |-> Head(todo[s])]
    BY <1>4 DEF Popped
  <2>2. \A i \in DOMAIN todo'[s] : i + 1 \in DOMAIN todo[s] /\ todo'[s][i] = todo[s][i + 1]
    BY <1>0, <2>1
  <2>3. 1 \in DOMAIN todo[s] /\ Head(todo[s]) = todo[s][1]
    BY <1>0, <2>1
  <2> QED
    BY <1>1, <2>1, <2>2, <2>3
<1> QED
  BY <1>2, <1>3, <1>4, StepEffect

LEMMA ItemsKept ==
  ASSUME TypeInv, TypeInv', NEW s \in Streams, StreamNumbered(s), GpuOrder(s), StreamStep(s)
  PROVE  \A i \in DOMAIN gpu'[s] : ItemNumbered(fenceIndex', gpu'[s][i])
<1>0. gpu[s] \in Seq(Item) /\ \A i \in DOMAIN gpu[s] : gpu[s][i] \in Item
  BY GpuTyped
<1>1. \A i \in DOMAIN gpu[s] : ItemNumbered(fenceIndex', gpu[s][i])
  BY <1>0, ItemStaysNumbered DEF StreamNumbered
<1>2. ASSUME NEW x, gpu'[s] = Append(gpu[s], x), ItemNumbered(fenceIndex', x)
      PROVE  \A i \in DOMAIN gpu'[s] : ItemNumbered(fenceIndex', gpu'[s][i])
  <2>1. \A i \in DOMAIN gpu'[s] : (i \in DOMAIN gpu[s] /\ gpu'[s][i] = gpu[s][i]) \/ gpu'[s][i] = x
    BY <1>0, <1>2
  <2> QED
    BY <1>1, <1>2, <2>1
<1>3. CASE GpuIdle(s)
  BY <1>1, <1>3 DEF GpuIdle
<1>4. CASE Framed(s) \/ Waited(s)
  <2>1. ASSUME NEW x, gpu'[s] = Append(gpu[s], x), x.op # "signal"
        PROVE  \A i \in DOMAIN gpu'[s] : ItemNumbered(fenceIndex', gpu'[s][i])
    BY <1>2, <2>1 DEF ItemNumbered
  <2>2. CASE Framed(s)
    <3>1. PICK x \in Item : gpu'[s] = Append(gpu[s], x) /\ x.op = "list"
      BY <2>2 DEF Framed, Appended
    <3> QED
      BY <2>1, <3>1
  <2>3. CASE Waited(s)
    <3>1. PICK e \in Events :
            gpu'[s] = Append(gpu[s], [op |-> "wait", event |-> e, value |-> fenceIndex[e], after |-> signal[e]])
      BY <2>3 DEF Waited, Appended
    <3> QED
      BY <2>1, <3>1
  <2> QED
    BY <1>4, <2>2, <2>3
<1>5. CASE Signalled(s)
  BY <1>2, <1>5, SignalNumbered DEF Signalled, Appended
<1>6. CASE Gpu(s)
  BY <1>1, <1>6, GpuTakes
<1> QED
  BY <1>3, <1>4, <1>5, <1>6, GpuEffect

\* What an event shows and what its waiters have been told are numbers that a
\* signal item or an entry had.
LEMMA EventStaysNumbered ==
  ASSUME TypeInv, TypeInv', NEW s \in Streams, StreamNumbered(s), GpuOrder(s), StreamStep(s),
         NEW e \in Events, EventNumbered(e)
  PROVE  EventNumbered(e)'
<1>0. /\ fenceIndex[e] \in Nat /\ fenceIndex'[e] \in Nat /\ fenceIndex[e] <= fenceIndex'[e]
      /\ finishedEvent \in [Events -> Nat] /\ fence \in [Events -> Nat]
  BY IndexGrows DEF TypeInv, ThreadTypes, GpuTypes
<1>1. finishedEvent'[e] \in 1 .. fenceIndex'[e]
  <2>1. CASE ExecuteEvent(s)
    <3>1. thread[s].at = "visit" /\ thread[s].entry \in Entry /\ thread[s].entry.kind = "event"
      BY <2>1, Visiting DEF ExecuteEvent
    <3>2. thread[s].entry.event \in Events /\ thread[s].entry.value \in 1 .. fenceIndex[thread[s].entry.event]
      BY <3>1, EventEntry DEF StreamNumbered, EntryNumbered
    <3>3. finishedEvent'[e] = IF e = thread[s].entry.event THEN thread[s].entry.value ELSE finishedEvent[e]
      BY <1>0, <2>1 DEF ExecuteEvent
    <3> QED
      BY <1>0, <3>2, <3>3 DEF EventNumbered
  <2> QED
    BY <1>0, <2>1, FinishedEffect DEF EventNumbered
<1>2. fence'[e] <= fenceIndex'[e]
  <2>1. CASE Gpu(s)
    <3>1. /\ 1 \in DOMAIN gpu[s] /\ Head(gpu[s]) = gpu[s][1] /\ gpu[s][1] \in Item
          /\ fenceIndex' = fenceIndex
      BY <2>1, GpuTakes, GpuTyped
    <3>2. gpu[s][1].op = "signal" => gpu[s][1].value <= fenceIndex[gpu[s][1].event]
      BY <3>1 DEF StreamNumbered, ItemNumbered
    <3>3. fence' = IF gpu[s][1].op = "signal" THEN [fence EXCEPT ![gpu[s][1].event] = gpu[s][1].value] ELSE fence
      BY <2>1, <3>1 DEF Gpu
    <3> QED
      BY <1>0, <3>1, <3>2, <3>3 DEF EventNumbered
  <2>2. CASE fence' = fence
    <3>1. fence[e] \in Nat
      BY <1>0
    <3> QED
      BY <1>0, <2>2, <3>1 DEF EventNumbered
  <2> QED
    BY <2>1, <2>2, GpuEffect DEF GpuIdle, Framed, Signalled, Waited, Appended
<1> QED
  BY <1>1, <1>2 DEF EventNumbered

LEMMA EventNumbersStep ==
  TypeInv /\ TypeInv' /\ AllocatorInv /\ EventNumbers /\ [QueueNext]_queueVars => EventNumbers'
<1> SUFFICES ASSUME TypeInv, TypeInv', AllocatorInv, EventNumbers, [QueueNext]_queueVars
             PROVE  EventNumbers'
  OBVIOUS
<1>1. CASE UNCHANGED queueVars
  BY <1>1 DEF EventNumbers, EventNumbered, StreamNumbered, EntryNumbered, ItemNumbered, queueVars, hostVars,
     threadVars, gpuVars
<1>2. ASSUME NEW s \in Streams, StreamStep(s) PROVE EventNumbers'
  <2>1. GpuOrder(s) /\ StreamNumbered(s)
    BY DEF AllocatorInv, EventNumbers
  <2>2. \A e \in Events : EventNumbered(e)'
    BY <1>2, <2>1, EventStaysNumbered DEF EventNumbers
  <2>3. StreamNumbered(s)'
    BY <1>2, <2>1, EntriesKept, ItemsKept DEF StreamNumbered
  <2>4. ASSUME NEW r \in Streams, r # s PROVE StreamNumbered(r)'
    <3>1. todo'[r] = todo[r] /\ thread'[r] = thread[r] /\ gpu'[r] = gpu[r]
      BY <1>2, <2>4, StreamFunctions, OthersKept DEF SameAt
    <3>2. StreamNumbered(r)
      BY DEF EventNumbers
    <3>3. \A i \in DOMAIN todo[r] : EntryNumbered(fenceIndex', todo[r][i])
      <4>1. \A i \in DOMAIN todo[r] : todo[r][i] \in Entry
        BY DEF TypeInv, ThreadTypes
      <4> QED
        BY <1>2, <3>2, <4>1, EntryStaysNumbered DEF StreamNumbered
    <3>4. thread[r].at = "visit" => EntryNumbered(fenceIndex', thread[r].entry)
      BY <1>2, <3>2, Visiting, EntryStaysNumbered DEF StreamNumbered
    <3>5. \A i \in DOMAIN gpu[r] : ItemNumbered(fenceIndex', gpu[r][i])
      BY <1>2, <3>2, GpuTyped, ItemStaysNumbered DEF StreamNumbered
    <3> QED
      BY <3>1, <3>3, <3>4, <3>5 DEF StreamNumbered
  <2> QED
    BY <2>2, <2>3, <2>4 DEF EventNumbers
<1> QED
  BY <1>1, <1>2 DEF QueueNext, StreamStep

LEMMA QueueStart == QueueInit => TypeInv /\ QueueInv
BY TypesInit, AllocatorInit, EventNumbersInit DEF QueueInv

LEMMA QueueStep == TypeInv /\ QueueInv /\ [QueueNext]_queueVars => (TypeInv /\ QueueInv)'
BY TypesKept, AllocatorStep, EventNumbersStep DEF QueueInv

LEMMA QueueTyped == TypeInv /\ QueueInv => QueueTypeOK
<1> SUFFICES ASSUME TypeInv, QueueInv PROVE QueueTypeOK
  OBVIOUS
<1>1. ASSUME NEW s \in Streams
      PROVE  /\ host[s].at \in {"ready", "create", "encode", "force", "notify", "sync", "event",
                                "stop", "join", "gone"}
             /\ thread[s].at \in {"pop", "visit", "publish", "check", "tosleep", "asleep", "gone"}
             /\ \A i \in DOMAIN todo[s] : todo[s][i] \in Entry
             /\ executedFrame[s] \in 0 .. lastFrame[s] /\ cmdFence[s] \in 0 .. lastFrame[s]
             /\ lastFence[s] \in 0 .. lastFrame[s] /\ ran[s] \subseteq 1 .. submitted[s]
  <2>1. host[s] \in HostState /\ thread[s] \in ThreadState /\ todo[s] \in Seq(Entry)
    BY DEF TypeInv, HostTypes, ThreadTypes
  <2>2. /\ executedFrame[s] \in Nat /\ lastFrame[s] \in Nat /\ cmdFence[s] \in Nat /\ lastFence[s] \in Nat
    BY DEF TypeInv, HostTypes, ThreadTypes, GpuTypes
  <2>3. FrameInv(s) /\ TicketsInOrder(s) /\ GpuOrder(s)
    BY DEF QueueInv, AllocatorInv
  <2>4. host[s].at \in {"ready", "create", "encode", "force", "notify", "sync", "event", "stop", "join", "gone"}
    BY <2>1 DEF HostState
  <2>5. thread[s].at \in {"pop", "visit", "publish", "check", "tosleep", "asleep", "gone"}
    BY <2>1 DEF ThreadState
  <2>6. executedFrame[s] \in 0 .. lastFrame[s] /\ cmdFence[s] \in 0 .. lastFrame[s]
        /\ lastFence[s] \in 0 .. lastFrame[s]
    BY <2>2, <2>3 DEF FrameInv, FrameBounds, GpuOrder, GpuBounds
  <2>7. ran[s] \subseteq 1 .. submitted[s]
    BY <2>3 DEF TicketsInOrder
  <2> QED
    BY <2>1, <2>4, <2>5, <2>6, <2>7
<1>2. ASSUME NEW e \in Events
      PROVE  finishedEvent[e] \in 1 .. fenceIndex[e] /\ fence[e] \in 0 .. fenceIndex[e]
  <2>1. fence[e] \in Nat /\ fenceIndex[e] \in Nat
    BY DEF TypeInv, HostTypes, GpuTypes
  <2> QED
    BY <2>1 DEF QueueInv, EventNumbers, EventNumbered
<1> QED
  BY <1>1, <1>2 DEF QueueTypeOK

=============================================================================
