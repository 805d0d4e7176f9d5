------------------------------ MODULE MCHostSide ------------------------------
(***************************************************************************)
(* One model-checking instance for the parts of LuisaCompute that share     *)
(* nothing with each other: part is chosen in the initial state, the steps  *)
(* are those of that part alone, and the other parts stay as they began.    *)
(* TLC thus checks every part on its own, in one run.                       *)
(***************************************************************************)
EXTENDS MCCommandReorder, BindlessTracking, HostBufferPool, AccelBackends,
        BindlessDevice, DXQueue, DXStateTracker, MetalStream, KernelBlock, UsageMarks,
        StreamFrontEnd

CONSTANTS A, B, event,     \* two streams and an event; two meshes
          buf, tex, inst   \* a buffer, a texture and the instance buffer of an accel

-----------------------------------------------------------------------------
\* Both streams wait, the first one signals.
MCStreams == {A, B}
MCMesh == {A, B}
MCSignals == {<<A, event>>}
MCWorkloads == {[s \in {A, B} |-> IF s = A THEN w[1] ELSE w[2]] : w \in {<<4, 0>>, <<2, 1>>, <<1, 2>>}}

\* Slots 0 to 2 for buffers; a texture in the middle one.
MCBindlessPlace == {<<"buffer", 0>>, <<"buffer", 1>>, <<"buffer", 2>>, <<"tex2d", 1>>}

Encoded(kind, from, to, bindless) ==
    [kind |-> kind, reads |-> from, writes |-> to, bindless |-> bindless]
TrackedCommands ==
    {Encoded("copy", {}, {buf}, FALSE), Encoded("copy", {buf}, {tex}, FALSE),
     Encoded("copy", {tex}, {buf}, FALSE), Encoded("kernel", {}, {buf}, FALSE),
     Encoded("kernel", {buf}, {tex}, FALSE), Encoded("kernel", {inst}, {}, TRUE),
     Encoded("kernel", {}, {tex, inst}, FALSE), Encoded("build", {}, {inst}, FALSE),
     Encoded("build", {inst}, {}, FALSE), Encoded("mesh", {buf}, {}, FALSE)}
MCLists ==
    {<<c>> : c \in TrackedCommands} \cup {<<c, d>> : c, d \in TrackedCommands}
    \cup {<<c, Encoded("build", {}, {inst}, FALSE), d>> : c, d \in TrackedCommands}

\* A kernel without synchronize_block(), and kernels whose three threads, of
\* which the first two are a block, synchronize equally often or do not.
Shape(coroutine, syncs) == [coroutine |-> coroutine, syncs |-> [k \in 0 .. 2 |-> syncs[k + 1]]]
MCKernelShapes ==
    {Shape(FALSE, <<0, 0, 0>>)} \cup
    {Shape(TRUE, s) : s \in {<<1, 1, 1>>, <<2, 2, 2>>, <<2, 2, 1>>, <<1, 1, 0>>, <<2, 1, 1>>,
                             <<1, 2, 1>>, <<0, 0, 0>>}}

-----------------------------------------------------------------------------
Parts == {"reorder", "bindless", "array", "pool", "accel", "queue", "tracker", "metal",
          "kernel", "usage", "front"}

VARIABLE part

\* The parts that begin in several ways begin in one of them where they rest.
HostSideInit ==
    /\ part \in Parts
    /\ Init /\ BindlessInit /\ BindlessDeviceInit /\ PoolInit /\ AccelInit /\ QueueInit /\ TrackerInit
    /\ MetalInit /\ KernelInit /\ UsageInit /\ FrontEndInit
    /\ part # "queue" => left = CHOOSE w \in Workloads : TRUE
    /\ part # "kernel" => kernel = CHOOSE k \in KernelShapes : TRUE

Only(p) ==
    /\ part = p /\ UNCHANGED part
    /\ p # "reorder"  => UNCHANGED vars
    /\ p # "bindless" => UNCHANGED bindlessVars
    /\ p # "array"    => UNCHANGED arrayVars
    /\ p # "pool"     => UNCHANGED poolVars
    /\ p # "accel"    => UNCHANGED accelVars
    /\ p # "queue"    => UNCHANGED queueVars
    /\ p # "tracker"  => UNCHANGED trackerVars
    /\ p # "metal"    => UNCHANGED metalVars
    /\ p # "kernel"   => UNCHANGED kernelVars
    /\ p # "usage"    => UNCHANGED usageVars
    /\ p # "front"    => UNCHANGED frontEndVars

-----------------------------------------------------------------------------
\* The next-state relations, spread out into their actions.
ReorderSteps ==
    \/ Only("reorder") /\ Clear
    \/ \E c \in Command : Only("reorder") /\ Visit(c)

BindlessSteps ==
    \E p \in Place :
        \/ Only("bindless") /\ RemoveFrom(p)
        \/ Only("bindless") /\ \E r \in Resource : EmplaceIn(p, r)
        \/ Only("bindless") /\ Update

ArraySteps ==
    \/ \E p \in BindlessPlace :
          \/ Only("array") /\ EmplaceInSlot(p)
          \/ Only("array") /\ RemoveFromSlot(p)
    \/ Only("array") /\ SendUpdate
    \/ Only("array") /\ ExecuteUpdate

PoolSteps ==
    \/ \E n \in Request : Only("pool") /\ ~failed /\ Allocate(n)
    \/ \E n \in Request : Only("pool") /\ ~failed /\ AllocateAdHoc(n)
    \/ Only("pool") /\ ~failed /\ RecycleAdHoc
    \/ \E node \in inUse : Only("pool") /\ ~failed /\ Recycle(node)

AccelSteps ==
    \/ Only("accel") /\ Edit /\ UNCHANGED <<address, cpu, cuda, metal, dx>>
    \/ Only("accel") /\ Build
    \/ \E m \in Mesh : Only("accel") /\ MoveMesh(m)

QueueHostSteps ==
    \E s \in Streams :
        \/ Only("queue") /\ BeginExecute(s)
        \/ Only("queue") /\ CreateAllocator(s)
        \/ Only("queue") /\ Execute(s)
        \/ Only("queue") /\ ForceSync(s)
        \/ Only("queue") /\ EndForceSync(s)
        \/ Only("queue") /\ Callback(s)
        \/ \E v \in Events : Only("queue") /\ <<s, v>> \in Signals /\ Signal(s, v)
        \/ \E v \in Events : Only("queue") /\ Wait(s, v)
        \/ Only("queue") /\ Notify(s)
        \/ Only("queue") /\ BeginSync(s)
        \/ Only("queue") /\ EndSync(s)
        \/ Only("queue") /\ Destroy(s)
        \/ Only("queue") /\ NotifyStop(s)
        \/ Only("queue") /\ Join(s)

QueueThreadSteps ==
    \E s \in Streams :
        \/ Only("queue") /\ Pop(s)
        \/ Only("queue") /\ CompleteList(s)
        \/ Only("queue") /\ Publish(s)
        \/ Only("queue") /\ RunFunction(s)
        \/ Only("queue") /\ ExecuteEvent(s)
        \/ Only("queue") /\ Drained(s)
        \/ Only("queue") /\ FallAsleep(s)
        \/ Only("queue") /\ Gpu(s)

TrackerSteps ==
    \/ Only("tracker") /\ Begin
    \/ Only("tracker") /\ PreProcess
    \/ Only("tracker") /\ GrowInstances
    \/ Only("tracker") /\ UpdateState
    \/ Only("tracker") /\ Run
    \/ Only("tracker") /\ EndList
    \/ Only("tracker") /\ CopySizes
    \/ Only("tracker") /\ Compact
    \/ Only("tracker") /\ EndExecute

MetalSteps ==
    \/ \E s \in MetalQueue :
          \/ Only("metal") /\ BeginDispatch(s)
          \/ Only("metal") /\ BeginSynchronize(s)
          \/ Only("metal") /\ ExecuteBuffer(s)
          \/ Only("metal") /\ CompleteBuffer(s)
    \/ \E v \in MetalEvent : Only("metal") /\ BeginSynchronizeEvent(v)
    \/ Only("metal") /\ EncodeBuffer
    \/ Only("metal") /\ CommitBuffer
    \/ Only("metal") /\ Compacted
    \/ Only("metal") /\ EndSynchronize
    \/ Only("metal") /\ EndSynchronizeEvent

KernelSteps ==
    \E r \in Runner :
        \/ Only("kernel") /\ fault = "none" /\ DrawBlock(r)
        \/ \E l \in Lane :
              \/ Only("kernel") /\ fault = "none" /\ SkipLane(r, l)
              \/ Only("kernel") /\ fault = "none" /\ CallKernel(r, l)
              \/ Only("kernel") /\ fault = "none" /\ ResumeKernel(r, l)
              \/ Only("kernel") /\ fault = "none" /\ ResumeEnded(r, l)

\* The nodes that a step may use, none when this part rests or is at its bound.
Usable == {n \in DOMAIN nodes : part = "usage" /\ steps < MaxSteps}

UsageSteps ==
    \/ \E n \in Usable :
          \/ Only("usage") /\ Member(n)
          \/ Only("usage") /\ Evaluate(n)
          \/ \E k \in Usable :
                \/ Only("usage") /\ Accessed(n, k)
                \/ Only("usage") /\ Operation(n, k)
                \/ Only("usage") /\ Assign(n, k)
                \/ Only("usage") /\ For(n, k)
    \/ \E args \in [Argument -> Usable] : Only("usage") /\ CallCallable(args)
    \/ Only("usage") /\ BeginKernel

FrontSteps ==
    \/ \E r \in Recorder :
          \/ Only("front") /\ ~aborted /\ BeginDelegate(r)
          \/ Only("front") /\ ~aborted /\ CreateCommandBuffer(r)
          \/ Only("front") /\ ~aborted /\ Record(r)
          \/ Only("front") /\ ~aborted /\ CommitList(r)
          \/ Only("front") /\ ~aborted /\ SubmitMark(r)
          \/ Only("front") /\ ~aborted /\ DestroyRecorder(r)
          \/ \E q \in Recorder : Only("front") /\ ~aborted /\ MoveTo(r, q)
    \/ Only("front") /\ ~aborted /\ MarkStream

HostSideNext ==
    \/ ReorderSteps \/ BindlessSteps \/ ArraySteps \/ PoolSteps \/ AccelSteps
    \/ QueueHostSteps \/ QueueThreadSteps \/ TrackerSteps \/ MetalSteps
    \/ KernelSteps \/ UsageSteps \/ FrontSteps

HostSideSpec == HostSideInit /\ [][HostSideNext]_<<part, vars, bindlessVars, arrayVars, poolVars, accelVars,
                    queueVars, trackerVars, metalVars, kernelVars, usageVars, frontEndVars>>

-----------------------------------------------------------------------------
\* The type invariants of the parts.
PartsTypeOK ==
    CASE part = "reorder"  -> TypeOK
      [] part = "bindless" -> BindlessTypeOK
      [] part = "array"    -> BindlessDeviceTypeOK
      [] part = "pool"     -> PoolTypeOK
      [] part = "accel"    -> AccelTypeOK
      [] part = "queue"    -> QueueTypeOK
      [] part = "tracker"  -> TrackerTypeOK
      [] part = "metal"    -> MetalTypeOK
      [] part = "kernel"   -> KernelTypeOK
      [] OTHER             -> TRUE
=============================================================================
