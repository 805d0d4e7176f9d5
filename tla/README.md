# LuisaCompute: models, checks and proofs

LuisaCompute is a runtime for data-parallel kernels.  A program records commands
(transfers, kernels, builds of acceleration structures) into *streams*; the runtime works
out which of them may run at the same time, and a backend (CPU threads, CUDA, DirectX,
Metal) runs them.  What is hard in it is order: the runtime gives up the order the program
wrote, keeps only the part of it that matters, and then has to get that part through
threads, queues and driver streams.  This directory models that path, from the marks that
say what a kernel reads and writes, over the recorded command and the two schedulers, to
the threads, queues, staging memory and scene structures of the four backends.

File and line references are to the repository, mostly below its `src/` directory;
`PROJECT.json` maps every definition that models code to the lines it stands for.

## 1. Inventory

| Component | State it keeps | Operations | Modelled by |
|---|---|---|---|
| Usage marks of kernels (`ast/expression`, `statement`, `function_builder`) | a mark on each expression, a usage for each variable | member, access, operation, assignment, loop, call | `UsageMarks` |
| Commands (`runtime/command.h`) | handles, ranges and usages of one command | construction, `accept` of a visitor | `Commands` |
| Stream front end (`runtime/stream`, `command_buffer`, `command_list`) | commands collected by a delegate or a buffer | `<<`, commit, marks, moves, destructors | `StreamFrontEnd` |
| Command reordering (`runtime/command_reorder_visitor`) | per resource and range the last layer that read and wrote it; four level counters; the lists | twelve `visit`s, `command_lists`, `clear` | `CommandReorder` |
| Command scheduler (`runtime/command_scheduler`) | nodes with edges and dependency counts, pending and free nodes, a window | `add`, `schedule`, `_schedule_step`, `_check_*` | `CommandScheduler`, `CommandDependency` |
| Host thread pool (`core/thread_pool`) | task queue, mutex, condition variable, stop flag, task count, two barriers | `async`, `parallel`, `barrier`, `synchronize`, destructor, worker loop | `PoolBarrier`, `ThreadPool` |
| CPU streams and events (`backends/llvm`, `backends/ispc`) | a pool per stream, a shared future per event | dispatch of lists and functions, signal, wait, synchronize | `CPUStream` |
| LLVM kernel entry (`llvm_codegen_func`, `llvm_stream`) | coroutines of the lanes of a block, shared memory | blocks drawn by threads, rounds over the lanes | `KernelBlock` |
| CUDA streams and events (`backends/cuda`) | a few CUDA streams and events per stream, used-stream bits, a round-robin position, callback lists | dispatch, barrier, callbacks, signal, wait, synchronize | `CUDAStream` |
| Metal streams and events (`backends/metal`) | a semaphore and the last command buffer of a stream; counter and signallers of an event | dispatch, compaction, signal, wait, synchronize | `MetalStream` |
| DirectX command queue (`backends/dx/DXRuntime/CommandQueue`, `Api/LCEvent`, `Api/LCCmdBuffer`) | a queue to an execution thread, frame counters, an allocator pool, fences | execute, force-sync, callback, signal, wait, sync, destructor, thread loop | `DXQueue` |
| DirectX resource states (`DXRuntime/ResourceStateTracker`, `Api/LCCmdBuffer`) | the state of each resource, pending barriers, what was written | record, update, restore, compaction | `DXStateTracker` |
| Bindless arrays (`resource_tracker`, four backends, `core/dirty_range`) | slots, reference counts, dirty ranges, a map of changed slots | `emplace_*`, `remove_*`, `update`, `uses` | `BindlessTracking`, `BindlessDevice` |
| Acceleration structures (`rtx/accel`, four backends) | pending modifications, mesh handles; instances of each backend | edits, `build`, a mesh that moves | `AccelFrontEnd`, `AccelBackends` |
| First-fit allocator, staging pools (`core/first_fit`, `*_host_buffer_pool`) | a free list | allocate, recycle | `HostBufferPool` |
| vstl, observers, LRU cache, object pool | | | no: see section 6 |
| DSL, code generators, platform services, GUI, Python and C interfaces, tests, vendored code | | | no: see section 6 |

How they interact.  A kernel's usage marks go into its commands.  A delegate or a command
buffer collects commands and commits them before anything that is not a command.
`Stream::_dispatch` runs the `CommandReorderVisitor` over a batch and gives the lists to the
device, which gives them to its stream.  While it visits, the visitor asks the device
`is_resource_in_bindless_array` (answered from the reference counts of
`BindlessTracking`) and what an acceleration structure holds.  A CPU stream turns every
command into tasks of its `ThreadPool` with a barrier at the end of each list, and an event
into the future of an empty task; the tasks of a kernel run `KernelBlock`.  A CUDA stream
spreads a list over several CUDA streams and joins them with CUDA events; DirectX encodes
a list with the barriers of its state tracker and hands it to a queue and to an execution
thread; Metal puts it into a command buffer.  CUDA and Metal take staging memory from a
`HostBufferPool`.  `CommandScheduler` is an alternative to the visitor that a stream can
hold; in the repository only `tests/test_command_schedule.cpp` drives it.

What is hard: the *interleaving* of host threads, workers, execution threads and driver
queues; *ordering* that is derived from marks (a mark that is too low lets a command pass
another); *liveness* of hand-written synchronization; *stale state* (marks left over from a
batch, a future captured before it is replaced, a counter that goes back, handles of
meshes that moved, releases committed twice); *limits* (semaphores, throttles, phases that
wrap).  `PROJECT.json` lists each hazard at its line with the properties that watch it.
Nothing is persisted and no message is lost, so there is no crash recovery and no retry.

What makes each component correct:

- usage marks: whatever a kernel writes or reads, through members, elements, callables and
  captures, is marked; what it only reads is not marked as written;
- front end: every command reaches the backend once, in its line's order, before the marks
  that follow it, and is recycled once;
- reordering: two commands that touch the same data, one of them writing, go into
  different lists in their recorded order; every command is in one list; no list is empty;
- scheduler: the same, with respect to its dependency tests; it drains;
- pool: what is before a barrier ends before what is after it begins; every index of a
  `parallel` is called exactly once; the task count neither leaks nor underflows;
  `synchronize` and the destructor return, and not too early;
- CPU streams: what follows a wait runs after what preceded the signal it captured;
  streams that wait for each other do not block for ever;
- kernel blocks: `synchronize_block()` is a barrier for the lanes of a block;
- CUDA, DirectX and Metal streams: lists, events, host functions and `synchronize` cover
  what came before, whatever queues and threads they go through; allocators and staging
  memory are not reused early; no wakeup is lost and no host is stuck;
- resource states: every command finds its resources in the state it needs, and no write
  is read before a barrier;
- bindless arrays: the array claims exactly the resources in its slots, and the device
  sees what was put there;
- acceleration structures: a build shows the scene the program described;
- staging pools: views do not overlap, and no byte of the block is lost.

## 2. The modules

    CommandOrder <--implements-- CommandReorder --extends--> Commands
         ^                            ^
         |                      MCCommandReorder <--extends-- MCHostSide
         +------implements------ CommandScheduler     CommandDependency --extends--> Commands
                                      ^                      ^
                                      '--- HazardScheduler --'
                                                  ^--- MCCommandScheduler
    Lockstep <--implements-- PoolBarrier <---extends---.
    Executor <--implements-- ThreadPool  <---extends--- MCThreads
        ^------instantiated by-- CPUStream
    Allocator <--implements-- HostBufferPool
    AccelFrontEnd <--extends-- AccelBackends
    MCHostSide extends HostBufferPool, AccelBackends, BindlessTracking, BindlessDevice,
        UsageMarks, StreamFrontEnd, KernelBlock, DXQueue, DXStateTracker, MetalStream
    MCDXEvent extends DXQueue
    CUDAStream

The proofs are in modules of their own:

| Module | extends and proves about |
|---|---|
| `FrontEnd_proofs` | `UsageMarks`, `StreamFrontEnd`, `CommandReorder` |
| `CommandScheduler_proofs` | `HazardScheduler`, and with it `CommandScheduler` and `CommandDependency` |
| `Threads_proofs` | `MCThreads`, and with it `PoolBarrier` and `ThreadPool` |
| `CPUStream_proofs` | `CPUStream` |
| `CUDAStream_proofs` | `CUDAStream` |
| `DXQueue_proofs` | `DXQueue` |
| `HostSide_proofs` | `HostBufferPool`, `KernelBlock`, `MetalStream` |
| `Resources_proofs` | `BindlessTracking`, `BindlessDevice`, `AccelBackends`, `DXStateTracker` |

Four modules are abstract specifications and no translation of code:

- `CommandOrder`: commands are recorded, placed into numbered lists, handed over; a pair of
  `MustPrecede` never shares a list and is never exchanged; what is placed is not moved.
- `Lockstep`: nobody returns from a round of a barrier that not everybody has come to.
- `Executor`: a log of work and fences; work begins only when all the work on the other
  side of a fence has ended.
- `Allocator`: aligned views of a block that do not overlap; a request is refused only when
  no gap is larger.

**Commands.**  A command is a tag and a set of accesses (handle, interval, usage).  The
payload, sizes and uniforms are left out because no dependency is derived from them.
`Conflict` is the reference definition of a hazard: what a careful reader would call one,
bindless reads and meshes below acceleration structures included.

**UsageMarks.**  Expressions are nodes that refer to earlier ones, so that several can share
a node; making one marks its operands, and a mark is passed on until it meets a node that
has it (`Knows`).  `reads` and `writes` record what the function really does.  A callable is
built first; the kernel then calls it and may capture the same resource.  What a call marks is
`FlagsOf`: the callable's own usage of references, buffers, textures and accels; values and
bindless arrays, captured ones included, only as read (`expression.cpp:45-51`), and nothing
writes a bindless array.

**StreamFrontEnd.**  Each command and mark of the program has a number and a line (the
recorder it came through, wherever that was moved).  `backend` is the log of device calls.
Destroying a command buffer that still holds commands aborts, as in the code.

**CommandReorder.**  One action per kind of visit, plus `Clear`.  `views` and `unranged`
are the three maps of the visitor; a handle that is absent is the default view `-1, -1`.
`RangedLastWrite` and its siblings are the `GetLastLayer...` functions;
`BindlessGate` keeps the comparison of a signed counter with an unsigned layer.  A transfer
*assigns* the read mark (`AssignRead`), a kernel *raises* it (`RaiseRead`), as in the code.
`layer` records the list of each command of the batch.

**CommandScheduler** is the window scheduler for any dependency relation `Depends`.
Both `add` and a turn of the loop in `schedule` end in the operator `ScheduleStep`, which
takes the state that its caller has just computed, so that the step that `add` makes in
the same call is part of the action.  The order inside a list means nothing, so the free
nodes are a set.  **CommandDependency** translates the `_check_*` functions into the
predicate `DependsOn`; **HazardScheduler** is the scheduler with that relation as its
`Depends`, and says which hazards it keeps in order.

**PoolBarrier** is the class `Barrier` of `core/thread_pool.cpp` that replaces
`std::barrier` where that is missing.  Everything between two waits is under the mutex and
is one step; blocked threads are woken by `notify_all` or spuriously and test the phase
again.  `PhaseSize` is 2^w for the width of `_phase`.

**ThreadPool** makes every critical section of the pool's mutex one step, and everything
between two of them (the notification after a push, the draw from the atomic counter,
the call of the function, the decrement of the count) a step of its own.  `parallel` pushes
one copy for each worker that can help; the copies share `drawn[k]`.  The barriers are
abstracted to arriving and leaving, which `PoolBarrier` justifies.  Host threads
are explicit; only those of `SyncHost` call `synchronize`.

**CPUStream** puts each task and fence into the log of an `Executor`, one per stream, and
lets a task begin when `Executor` does.  The steps of a host call that another thread can
see in between (push the task, then store its future; read the future, then push the wait)
are separate.  A wait on an event that was never signalled is in the model with both
outcomes of the undefined `shared_future::wait`: it returns, or the process ends (`lost`).

**KernelBlock.**  Threads draw blocks; a lane is not started, suspended in a coroutine, at
its final suspension, or gone.  A round over the lanes calls or resumes each.  A step
writes the lane's element of a row of shared memory and reads the row before; an element
remembers the block that wrote it.  A resumption of a coroutine that has ended is a `fault`.

**CUDAStream** models the driver (external) as queues whose items run in order, events
that stand for a point of a queue, and waits for such a point.  The host side is
`CUDAStream::handle`, `barrier`, `dispatch`, `dispatch_callbacks` and the event calls of
`CUDADevice`.  A host call only appends, so each is one step; visiting a command is a step
as well, and the device runs between any two.

**MetalStream.**  One host thread makes calls; a call that has to wait (the semaphore, a
command buffer of the queue, a compaction, `synchronize`) is several steps.  The queue
executes buffers in order, and the completion handlers of a buffer run some time after it.

**DXQueue.**  The host of a stream, its execution thread and its D3D12 queue are three
actors.  The push to the thread is not under the mutex that guards the thread's test and
sleep; the empty critical section and `notify_one` after it are the step `Notify`.
`ForceSync` interrupts an `Execute` for the compaction of meshes.

**DXStateTracker.**  A command list goes through the two passes of `LCCmdBuffer::Execute`:
the states of its commands are recorded and their barriers emitted, then the commands are
encoded.  `actual` and `unsynced` are the device's side: the real state of each resource,
and what was written without a barrier since.  A list may end with the compaction of its
meshes and accels (`CopySizes`, then `Compact`).  An accel build that has instances to set
changes the state of the instance buffer in the middle of a list; one with nothing to set
records nothing (`TopAccel.cpp:199`).  `Lists` are any lists of commands.

**BindlessTracking** is `ResourceTracker` under the `emplace`/`remove`/`update` of an
array; a place is one of the three entries of a slot.  **BindlessDevice** is the other half
of the same calls: what each backend believes has changed (three dirty ranges on CUDA, one
on Metal, a map of slots on DirectX, everything on the CPU), what an update carries, and the
array in device memory after the device has executed it.

**AccelFrontEnd** has the edits of `rtx/accel` and the modification they leave for each
index; **AccelBackends** runs the four backends side by side on the same builds.  An address
of a mesh is `<<mesh, k>>` for its `k`-th allocation, so that a stale one can be told.

**HostBufferPool.**  The free list is a sequence in the order of its links, and each
operation is one step because the pool's mutex is held.

**MCHostSide** and **MCThreads** check parts that share no state in one run: the variable
`part` is chosen in the initial state and only the actions of that part are taken.  The
reachable states are the disjoint union of those of the parts, and each property speaks of
the variables of one of them.

Operators whose comment begins with `Mutant:` are wrong variants of the definition below
them (a dropped guard, a missing reset).  They are used by no specification; each shows
that a property fails when the code is changed in that way.

## 3. The runs

| Run | Bounds | Distinct states | What it shows |
|---|---|---|---|
| `host_side` | see below | 654,000 | eleven parts, each with its properties |
| `reorder_transfer_reads` (violation) | as reordering below | | what a transfer reads may be overwritten in its own list or before |
| `reorder_bindless_sees_writes` (violation) | the same | | a kernel may share a list with the write of what it reads through a bindless array |
| `scheduler` | 15 commands, window 3, 4 between two drains | 174,000 | no command lost or repeated, dependencies and hazards kept, the drain returns; implements `CommandOrder` |
| `threads` | barrier: 3 threads, 3 rounds, phases modulo 8; pool: 2 workers, 1 host, 3 operations, sizes 1 and 3 | 115,000 | implements `Lockstep` and `Executor`; each index once, exact task count, everything ends and returns |
| `cpu_stream` | 2 streams, 1 event, lists of 2, 4 tasks per stream | 3,728,000 | waits order streams; `synchronize` of an event covers what preceded its signal |
| `cpu_stream_progress` | 2 streams, 1 event, limit of 1 task, 3 tasks per stream | 179,000 | no circle of streams, workers and throttled hosts |
| `cuda_stream` | 1 stream over 3 CUDA streams, 2 lists, 5 items | 1,247,000 | lists in order; functions, events and `synchronize` cover earlier lists; staging memory is recycled, and not early |
| `cuda_stream_after_wait` (violation) | 2 streams, 4 items each | | a command after `wait` does not wait |
| `bindless_tracking_over_release` (violation) | 2 places, 2 resources, 6 calls | | a second update forgets a resource that is there |
| `dx_event` (violation) | 2 streams that both signal one event, 2 calls each | | `synchronize` of the event polls for ever |
| `dx_accel` (violation) | 2 instances, 5 edits | | a visible instance is hidden when it moves |

The parts of `host_side`:

| Part | Bounds | Properties |
|---|---|---|
| `reorder` | 17 commands over 2 buffers, a texture, a mesh, an accel, a bindless array; batches of 4 | `ImplementsCommandOrder` (hazards between writes, kernel reads, bindless reads and builds; no list is empty) |
| `bindless` | 2 places, 2 resources, 6 calls | `ForgetsWhatLeft` |
| `array` | 3 slots for buffers, one of them with a texture; 5 calls | `UpdateShowsTheArray` |
| `pool` | 27 bytes, alignment 4, requests of 1, 4 and 6 bytes | `FreeListExact`, `ImplementsAllocator` |
| `accel` | 2 meshes, 2 transforms, 2 instances, 5 edits, each mesh moves once | `CPUBuildsTheScene`, `GPUBuildsTheScene` |
| `queue` | 2 DirectX streams, one event; 4 calls on one stream, or 3 on two | `AllocatorsReused`, `OnlyOneOvertaken`, `NoLostWakeup`, `DXOrdersWork` |
| `tracker` | a buffer, a texture, an instance buffer; lists of 1 or 2 of 10 commands, or of 3 with an accel build that sets instances in the middle, whether the commands agree on a state or not; 3 lists in a row | `BarriersSuffice` |
| `metal` | 2 streams, one event, 2 command buffers, 4 calls | `MetalNeverStuck`, `MetalOrdersWork` |
| `kernel` | 2 threads, 3 lanes in blocks of 2, 8 kernels with at most 2 synchronizations | `SyncIsABarrier`, `SharedFromOverlapping` |
| `usage` | a reference, a value, a captured buffer and a captured bindless array, which the kernel also passes as arguments; 2 steps in each of two functions | `UsageMarked` |
| `front` | a delegate and a command buffer that may be moved, 4 commands and marks | `ReachesBackendInOrder` |

The type invariant of all parts is `PartsTypeOK`, by cases of `part`.

Why the bounds are enough for what they ask.

- *Batches of four* (`MaxBatch`, `MaxCommands`).  A hazard is about two commands; a third
  can lower or raise a mark between them and a fourth can lift the first into a later
  layer, which is what the failures of the visitor need.  `Extent` only has to contain
  every range.  The commands cover each visit, both usages, whole and disjoint halves of
  a buffer, two levels of a texture.  A window of 3 with 4 commands makes steps both in the
  middle of adding and in the drain.
- *Three threads, three rounds* (`MaxRounds`).  A fast thread is in round two while one has
  not left round one; a third round reuses everything.  `PhaseSize` is above `MaxRounds`:
  see section 6 for the wrap.
- *Two workers, three operations* (`MaxOps`).  Work, fence, work is the shortest log with
  something to separate; a `parallel` over 3 indices by 2 workers makes one draw more than
  the other and leaves one to draw past the end.  `CountSize` only has to exceed
  the largest size plus the workers (`SizeAssumption`).
- *Four tasks per stream* (`MaxTasks`).  Wait, fence, and a callback with its fence after
  it; or a list of two with its fence and a signal before it.  With a limit of one task and
  3 tasks a host is throttled while its stream waits for the other.
- *Five items, two lists* (`MaxItems`, `MaxLists` of `CUDAStream`).  The second list opens
  CUDA streams that the first left open or not, and items of a third CUDA stream fit.  The
  bound is tested before a visit or a call; the join that a list ends with is never cut off.
- *Six and five calls* (`MaxCalls`, `MaxArrayCalls`): fill a place, replace it, update twice
  and still change another place; two marks on either side of a third with an update
  before and after.
- *27 bytes* (`Limit`): six aligned nodes with an end that is not aligned, so that a request
  fits before it is aligned and not after; a node is given back between two free ones.
  `MaxAdHoc` is one: a buffer outside the block has no effect on it.
- *Five edits, two moves* (`MaxEdits`, `MaxMoves`): build, edit twice, move a mesh, build.
- *The DirectX workloads* (`Workloads`).  With one allocator allowed (`MaxAllocators`) four
  calls reach the throttle with a forced list in between; two streams with an event need
  signal, wait and one more.
- *Three lists* (`MaxLists` of `DXStateTracker`): what a list leaves, what the next makes of
  it, and the one after a compaction or an `Execute` in between.
- *Two command buffers, four calls* (`MaxCommandBuffers`, `MaxDispatches`): the queue is
  full while one stream waits for the other.
- *Two synchronizations* (`MaxSyncs`): the second is where a lane that left early is resumed.

`CHECK_DEADLOCK FALSE` is in the runs of `MCHostSide`, `MCDXEvent`, `AccelBackends`,
`CUDAStream` and `BindlessTracking`: their bounds end the calls, and a program may simply
stop calling.  Everywhere else deadlock is checked, with an explicit stuttering action for
the state where the program is over (`Finished`, `Gone`, `Over`).  `MetalNeverStuck` says
for Metal what the absence of deadlock would.

### Fairness

Nobody is ever obliged to call an operation.  What is fair is what runs by itself:

- `CommandScheduler`: weak fairness of the loop of `schedule` once it was called (one
  thread runs it).
- `PoolBarrier`: a woken thread gets the mutex.  Spurious wakeups are possible and not
  fair, so no property relies on them.
- `ThreadPool`: a host finishes the call it is in; a worker takes its next step, and the
  functions it calls return.  Weak fairness is enough: a step that stays enabled is taken
  by a running thread.
- `CPUStream`: the same for hosts, and a pool runs the tasks it may begin, which
  is `EverythingEnds` of `ThreadPool`.
- `CUDAStream`: a host finishes its call and the device executes the next item of
  each queue that is not waiting.
- `DXQueue` (`QueueFairSpec`, for the run `dx_event`): hosts finish their calls, execution
  threads run, the device executes.  The polling that never ends is a fair behaviour.

## 4. What is proved

`PROJECT.json` lists the theorems.  Each holds for every value of the constants that meets
the `ASSUME`s of its module, which only say what the code's types say (a size is a natural
number, a handle has one kind); where a theorem needs more, it says so in an `ASSUME` of its
own and below.  The bounds of the models (`MaxOps`, `MaxItems`, ...) are constants as well,
so a theorem speaks of any number of operations.

The arguments have one form: the property is not inductive, an invariant with the missing
links is, and its proof has a lemma for each action.  Where a method calls another that
changes state, the invariant is stated as a predicate about values, so that one lemma is
about the caller's part and one about the callee's.

### Usage marks (`FrontEnd_proofs`)

`UsageConsistent` (`UsageInv`) and `UsageIsMarked` (the invariant `UsageMarked`), from
`UsageAssumption`: finitely many variables, each with one tag.  A mark is passed on until it
meets a node that has it already, so that what is behind that node is not visited: the proof
has to show that it need not be.

- `Linked`: the flags of a member or an access are flags of the object behind it, those of a
  reference flags of its variable.  Hence the flags of any node are those of the variable at
  the end of its path (`LinkedToRoot`), and `MarkExtends` shows that a mark that stops early
  leaves the same as one that does not.
- `Operands`: an access or an operation has marked its operands as read.  With `Linked`, a
  node that is marked as read has all that its value reads marked (`ValueIsMarked`).
- `UsageRecorded`: a function writes exactly what it is marked as writing, and no bindless
  array, which a call marks as read whatever the callable does with it.  For a call this takes
  the marks of the callable, which are those of its own invariant, to the arguments one by
  one (`CallMarksAll`); that arguments are not captured resources is used here.

`Path`, `ValueReads` and the marks of a call are recursive functions.  `RecursionExists`
proves that such a function exists for any number of nodes, by taking the least length at
which it would not; what they compute is then proved by least counterexample.

### The stream front end (`FrontEnd_proofs`)

`FrontEndConsistent` (`FrontEndInv`) and `CommandsReachBackend` (`ReachesBackendInOrder`),
for any recorders and any number of items.  `Consistent` has a part for each link from a
recorder to the device: a line belongs to one live recorder (`Lines`), a list holds commands
of its recorder's line in order (`ListsRight`), a command is in one list or in one call and
not in both (`Located`), and calls carry the items of a line in order (`CallsInOrder`).

### Reordering (`FrontEnd_proofs`)

`ReorderConsistent` (`ReorderInv`), `ReorderTypeCorrect` and `ReorderImplementsOrder`: for
every set of commands the visitor implements `CommandOrder` with `MustPrecede`, from
`BoundsAssumption`, `HandlesAssumption` and `CommandsAssumption` (`WellFormed`: each tag has
the accesses its constructor gives it, of nonempty ranges).

- `Remembered`: the marks that a command of the batch has left are not below its list: a
  write mark for every access it writes; for a kernel also a read mark for each range it
  reads, `_bindlessMaxLayer` and `_maxAccelReadLevel`; `_maxMeshLevel` for a mesh build and
  `_maxAccelWriteLevel` for a build of an acceleration structure.
- `LayersOrdered` is the order itself.  A later command that conflicts with one of the batch
  looks at one of the marks the latter left, and goes behind everything it finds (`Follows`).
- `MarksInUse`, `NoEmptyList`: a mark is the number of a list in use, so a new command goes
  to a list in use or to the next one (`Fresh`), and no list is skipped.
- A transfer assigns the read mark of what it reads and may lower it (section 5).  What a
  transfer reads is therefore not in `Remembered`, and not among the hazards of
  `MustPrecede`; the proof shows that nothing else depends on what is lowered.

### The scheduler (`CommandScheduler_proofs`)

For every set of commands, every dependency relation and every window size, from
`CommandAssumption` (`Depends` relates commands) and `WindowAssumption` (both bounds are
natural numbers):

- `Consistency`: `Spec => []IInv`;
- `TypeCorrect`, `DependenciesKept`, `NoneLostOrRepeated`, `DrainAdvances`: the invariants
  `TypeOK`, `DependenciesInOrder`, `CommandCountMatches` and `SomeFree`;
- `ImplementsOrder`: the scheduler implements `CommandOrder` for its own dependencies;
- `HazardsKept`: with the dependency tests of `CommandDependency` (`HazardScheduler`), the
  invariant `HazardsInOrder`.

`IInv` (`Consistent`) says what holds the data structure together: the pending nodes are
those in no list, and together with the sizes of the lists they add up to the commands
added; edges lead forward, from pending nodes to pending ones, and there is one for each
dependency between pending nodes; *the count of a node is the number of pending nodes with
an edge to it, and the free nodes are the pending nodes with none*; dependent commands are
placed in order.  It breaks in the middle of `add` and of `_schedule_step` and is restored at
their end.  `DrainAdvances` takes the smallest pending node: every edge into it comes from a
smaller pending one, so it has none and is free.  `ImplementsOrder` shows that `Add` and
`DrainStep` are steps of `Advance`, `Return` is `HandOver` (all is placed because nothing is
pending), and `Schedule` stutters.  `HazardsKept` needs nothing about the data structure but
`DependenciesKept`: it shows that `DependsOn` finds every hazard between two well-formed
commands except the two that are named (section 6).

### The barrier and the thread pool (`Threads_proofs`)

*Barrier*: `RoundsAgree` (its `IInv`), `TypeCorrect` and `BarrierImplementsLockstep` for any
finite set of threads and any number of rounds below the number of phases
(`MaxRounds < PhaseSize`, an assumption of each theorem; section 6 says what happens without
it).  The counter is the number of threads that have not come to the round at hand, and every
thread is outside, held in this round, or woken from the last one and not yet gone.
`BarrierLetsGo` (`NobodyLeftBehind`) is the safety part of `EveryoneLeaves`: when no thread
is on its way out, a round that all have come to is one that all have returned from.

*Calls*: `CallsConsistent` (`CallInv`), `ThreadPoolTypeCorrect`, `TaskCountRight`
(`TaskCountExact`), `IndicesCalledOnce` (`CalledOnce`), `DestructorWaits`.  `CallInv` follows
each operation: its copies are in the hand of the host that pushes them, in the queue or with
a worker; the shared counter of a `parallel` is behind every index that was drawn; the calls
begun and not ended are those of the workers that are at them; and `task_count` is the
number of operations that were counted and not uncounted.  The atomic counters do not wrap
because each copy draws at most once past the end (`SizeAssumption`).

*Fences*: `FencesHold` (`FenceInv`), `SynchronizeWaits` (`SynchronizeCovers`) and
`PoolImplementsExecutor`.  While a fence is open its copies in the queue and the workers held
at it are together all the workers; as the queue is first in, first out, a worker that is
held, or that takes a copy of a later operation, has left all older ones, so when the last
one comes nothing older is under way, and no two fences are open at a time.  These three
assume `OneSynchronizer`: at most one host calls `synchronize`, whose barrier the constructor
makes for the workers and one more thread (`thread_pool.cpp:73-80`).

*No thread waits for ever*: `PoolGoesOn` (`PoolNeverStuck`) is the safety part of
`EverythingEnds`, for any number of workers and hosts and with the same assumption: when no
thread has a step to take but a spurious wakeup or a new call, everything that was pushed
has ended, no worker is held at a barrier, and `synchronize` and the destructor have
returned.  It needs one more invariant, `Notified`: workers asleep while tasks are queued are
about to be notified by the host that pushed them, or, for a task of an `async`, others are
awake; and workers asleep while the destructor runs are about to be notified by it.  With
`FenceInv` a thread held at a fence then implies that all are, and the counter of the barrier
would be zero, which it never is between two steps.

`BothTypeCorrect` carries the type invariants over to `MCThreads`, whose steps are those of
one part or the other.

### The CPU streams (`CPUStream_proofs`)

For any number of streams, events and tasks and any sizes of command lists:
`StreamsConsistent` (`Spec => []IInv`), `TypeCorrect`, `WaitsOrderStreams` (the invariant
`WaitOrdersStreams`) and `EventsCoverCommands` (the action property `EventCoversCommands`).
What a stream runs now is fine because of what hosts of two streams did long ago; `IInv` has
the missing links:

- `Sealed`: between a command, callback or wait and any later task lies a fence, unless both
  are commands of one list; `SealedEnd` says what is not sealed yet and which step of the
  host will do it;
- `RunOrder`: a task that runs has everything on the other side of a fence behind it (what
  `MayBegin` of `Executor` gives when it begins stays true as tasks end);
- `TaskFuturesValid`, `FuturesValid`: every future, in an event, in a task or in the hand of
  a host, stands for a signal that was pushed; `StoresSignal` carries this over the gap
  between the push and the assignment of the future;
- `WaitsDone`: a wait that ended found the future it captured ready.

What runs after a wait is then sealed off from it, so the wait has ended, so its future was
ready, so the signal ran, and it is sealed off from the work and the waits before it (`ReadyCovers`).
Without the fence after a wait (`PushWaitNoBarrier`) the first link breaks.  `TypeCorrect`
adds `Room` and `Owed`: what a host in the middle of a call will still push fits below
`MaxTasks`.

`StreamsGoOn` (`NeverStuck`) is the safety part of `EverythingEnds`, for any streams that
signal and wait for each other's events in any order: when no pool can begin or end a task,
all tasks have ended and every host that is in a call can go on, one held back by the limit
or blocked in `synchronize_event` included.  A future is captured after its signal was pushed and before the wait
is, so the tasks can be numbered in the order in which they were pushed
(`PushedInOrder`).  The first that has not ended then has no unfinished task before it
in its own stream and, if it waits, waits for an earlier one.

### Kernel blocks (`HostSide_proofs`)

`KernelConsistent` (`KernelInv`), `BlockSynchronizes` (`SyncIsABarrier`) and
`SharedIsOfTheBlocksAlongside` (`SharedFromOverlapping`), for any kernels, block and dispatch
sizes and any number of threads.  In a round over the lanes of a block those before the
present one have run `k + 1` parts of the kernel and the others `k` (`RoundsRight`), and the
state of each coroutine says which; blocks that were not drawn have run nothing and those
that ended all (`NotDrawnYet`, `EndedWhole`); no two threads have the same block
(`BlocksApart`).  A fault implies that some lanes of a block synchronize more often than
others (`FaultRight`).  `RowsRight`: what a running block has written to shared memory still
holds what that block or one that runs beside it wrote.

`KernelTypeCorrect` (`DrawsCounted`): the counter that the threads draw blocks from passes
the number of blocks by at most one for each thread that has left, so it stays a number of
the dispatch's size as long as the threads are finitely many, which `KernelAssumption` says.

### CUDA streams (`CUDAStream_proofs`)

`IInvAlways`, `TypeCorrect`, `ListsRunInOrder` (`ListsInOrder`), `StagingSafe`
(`StagingOutlivesCopy`) and `SynchronizeWaits` (`SynchronizeCovers`), for any number of
streams, CUDA streams behind each, lists and commands.

- `Covers(s, p, n)`: when the first `p` items of the first CUDA stream have run, all commands
  of the lists up to `n` have, whatever CUDA streams they are in.  Every barrier, event and
  callback comes with the number it covers (`EventInv`, `HostInv`).
- `Gated`: a CUDA stream that a list uses begins with a wait for a point of the first one
  that covers all earlier lists.  `used` has exactly the CUDA streams with commands of the
  open list, so that the join at its end misses none.
- `ItemBehind` attaches both to the items in the queues; `WaitsInv` says that a wait that is
  over has reached its point.
- `StagingInv` ties each callback list to the recycle item that was put in for it (`Marks`):
  the staging buffers it returns belong to lists that the item is behind.

`DeviceGoesOn` (`NeverStuck`) is the safety part of `StagingRecycled`, for several streams as
well, of which the passing run has one: when no CUDA stream can run its next item, all have
run what was put into them, `synchronize()` can return and no callback list is left.  Every
wait is for a point of the past (`PointsPast`), so the items can be numbered in the order in
which they were put in, over all queues (`PutInOrder`); of the items that have not run, the
first in this order can.

### Metal streams (`HostSide_proofs`)

`MetalConsistent` (`MetalWorkRight`), `MetalTypeCorrect`, `MetalGoesOn`
(`MetalNeverStuck`) and `MetalWorkOrdered` (`MetalOrdersWork`); all assume that
one stream signals each event (`OneMetalSignaller`).  The semaphore counts the buffers under way; the
signals of an event are numbered in the order of its stream's queue and the event shows the
number of the last one executed (`SignalsRight`), a wait names a signal that was committed
where the wait says (`WaitsRight`), and `_signalers` holds the buffer of the last signal until
it has completed (`LastSignalRight`).  For `MetalNeverStuck` number the
buffers as they were committed (`CommitsNumbered`): of the heads of queues that cannot go on,
the one committed first waits for a signal in a buffer committed before it, which is behind
such a head, so there is none.

### The DirectX queues (`DXQueue_proofs`)

The types of `DXQueue` (`TypesAlways`), `NoWakeupIsLost` (`NoLostWakeup`), `DXOrders` (`SyncCoversLists`,
`EventSyncCovers` and `WaitsOrderLists`, together `DXOrdersWork`), `CallbacksInOrder`
(`OnlyOneOvertaken`) and `AllocatorsSafe` (`AllocatorsReused`), from `DXQueueAssumption`, for
any number of streams, events and calls.  `DXOrders` assumes that each event is signalled by
one stream (`OneSignaller`), which its third part, about waits, needs.

- `SleepInv` strengthens `NoLostWakeup` to hold from the thread's test of its queue on: once
  it has decided to sleep, whatever is pushed finds a host that has still to pass the mutex.
- `TicketsKnown`: all that was submitted has run, is in the thread's hand, is in its queue,
  or is the list that `ForceSync` waits for.  `CallbackInv` adds that queue and hand are in
  the order of submission (`TicketsInOrder`): the forced list can overtake only what is in hand.
- `FrameInv`: the frames in the queue of the thread increase behind the one it has in hand,
  up to `lastFence`.  `ForceSync` raises `executedFrame` ahead of the thread and a late
  `Publish` lowers it again; still, outside of an `Execute`, `executedFrame >= lastFence`
  means that no list is left (`FrameDrained`), which is what `Sync` polls for.
- `EventsBehind`: the entry of the last signal of an event is behind all that the signal
  followed, so that when it is executed all of that has run (`EventCovered`).
- `GpuInv`: the lists of a D3D12 queue are in the order of their frames, and wherever a
  signal that would satisfy a wait is still to be executed, the frame the wait is for is
  before it in the same queue.  With two signalling streams a later signal elsewhere
  satisfies the wait, and the invariant breaks.
- `AllocatorInv`: each allocator is in exactly one place: the pool, the hand of the host,
  that of the thread, or one list in the thread's queue (`Placed`).  Queued lists have frames
  above `executedFrame` (`Ahead`), so there are no more of them than frames from there to
  `lastFrame`.  The host makes a new allocator only when the throttle let it through, so
  there are never more than `MaxAllocators + 2` although `ForceSync` runs ahead of the
  thread; and a list that the device has still to execute keeps its allocator out of the
  pool (`GpuHeld`).
- `EventNumbers`: whatever an event shows, and whatever number is on the way to it in a queue
  of the device, of a thread or in a thread's hand, is at most that of its last signal.  It
  needs no assumption about who signals: `finishedEvent` may go back, but never past the
  count.

### Resource states (`Resources_proofs`)

`TrackerConsistent` (`TrackerInv`), `TrackerTypeCorrect` and `BarriersAreEnough`
(`BarriersSuffice`), for any resources and any lists of commands, the ones that ask for
different states of one resource included: `ListsAssumption` says only that a list is a
sequence of commands.  What a command is promised depends on its list.  If the commands that
ask for a resource agree on its state (`Settled`) each of them finds it in that state.  What a
command insists on (`Insists`: a kernel locks what it writes, and an accel build changes the
state itself) it gets whatever the others ask for.  Otherwise it finds the resource readable
or in a state that a command of the same list asks for, never in one an earlier list left.
And in each of these cases a write by a kernel of an earlier list is visible to it.

Each resource is looked at alone.  `EntryKnown`: its entry names its actual state, and a
write without a barrier is remembered.  `Asked`: during the first pass a resource that was
asked for is headed for a state that somebody asked for, and a barrier will follow the writes
of earlier lists.  `Kept`: while commands are encoded no such write is left, what a kernel
writes is still locked, and the entry of a resource the list agrees on is what the rest of
the list needs.  A setting build emits the barriers of everything that was recorded before
it, a transfer's way back to a readable state included; `Kept` says which entries it cannot
disturb.  Instance buffers are never locked and never left in a copy state (`InstanceAsked`,
`InstanceKept`), which is what the copy of a growing one needs.

### Bindless arrays (`Resources_proofs`)

`CountsBounded` (`TrackInv`), `TypeCorrect` and `ForgetsWhatLeftAlways`, from
`TrackingAssumption` (finitely many places).  A reference count is at most the places that
hold the resource plus the releases of it in the queue, and after an update at most the
places.  It is an inequality because references are released more than once (section 5); it
still gives that nothing is claimed that has left.

`UpdatesChained` (`ShowInv`) and `UpdatesShowTheArray` (the action property
`UpdateShowsTheArray`), from `BindlessDeviceAssumption`, for any places, any number of calls
and of updates under way.  What an update shows depends on the updates before it, since it
carries changes only; the invariant makes a chain of them.  In the first update under way
every place that holds something is either covered by the update's record of changes or shown
by the device already; in each later one, covered or the same in the update before; and the
same holds between the last update and what the host has now.  An `emplace` extends a record
and forgets nothing that was in it (`MarkedCovers`), `remove` only makes the claim about the
place void, an update moves the host's record to the end of the chain, and executing the head
makes the device show it, which is the link the next one needs.

`ArrayTypeCorrect` (`ArrayMade`): the calls that fill the slots, in the host's record, in
each update under way and on each device, are calls that were made, and the ranges of changed
slots of Metal, CUDA and DirectX begin and end at slots of the array.

### Acceleration structures (`Resources_proofs`)

`AccelConsistent` (`AccelInv`), `AccelTypeCorrect`, `CPUShowsTheScene` (`CPUBuildsTheScene`)
and `GPUShowsTheScene` (`GPUBuildsTheScene`), for any meshes, transforms, instances, edits
and moves.  For each field of each instance: what the pending modification names is what the
program set (`HostRight`), and what it does not name is shown by each backend already
(`ShownRight`), with the exceptions of section 6.  `DXRight`: an address that the DirectX
backend keeps for an instance is one that its map knows the mesh of, so that a mesh that
moves is found.

### Staging pools (`HostSide_proofs`)

`PoolConsistent`, `PoolTypeCorrect`, `FreeListDescribesBlock` (`FreeListExact`) and
`PoolImplementsAllocator` (the refinement of `Allocator`), for any size of the block, any
alignment and any requests.  `Exact`: the free nodes are in the order of the block with gaps
between them (`FreeInOrder`), views do not overlap (`UsersApart`) nor touch the free nodes
(`FreeUnused`), each byte is in one of them (`Covered`), and views begin at multiples of the
alignment (`AtMultiples`).  All that the pool does to its list is to replace some
neighbouring nodes by others; the lemmas about `Spliced` say what that keeps.

### The parts together (`HostSide_proofs`)

`PartsTypeCorrect` (the invariant `PartsTypeOK` of `MCHostSide`).  Eleven parts that share no
variables are checked side by side in one run: a behaviour chooses one and takes its steps.
`PartsTypeOK` is about the nine of them that have a type invariant of their own (all but
`usage` and `front`).  `PartsInv` says of these that the invariant of
its theorems holds while it is the one chosen.  A step of a part is a step of that module (the
lemmas `...Moves`), so the step lemmas of the parts carry over.  For Metal this needs
`OneMetalSignaller`, which the run's workload meets.  `HostSide_proofs` therefore extends the
run's module and three other modules of proofs.

### Only model-checked

- Liveness: `ScheduleReturns`, `EveryoneLeaves`, `EverythingEnds`, `StagingRecycled`.
  Fairness and `ENABLED` are beyond the prover.  Their safety parts are proved:
  `DrainAdvances`, `BarrierLetsGo`, `PoolGoesOn`, `StreamsGoOn` and `DeviceGoesOn`;
  `NoWakeupIsLost` and `MetalGoesOn` are those of two queues that no run checks for liveness.
- The counterexamples of section 5, which are finite behaviours.

## 5. Where code and documentation disagree

Each is the counterexample of a violation run.

- **A transfer lowers a read mark** (`runtime/command_reorder_visitor.cpp:128`).  `SetRead`
  and `SetRW` assign the layer to a view that exists.  Upload B; copy A to B; download A;
  upload A: the copy is in list 1, the download sets A's mark back to 0, and the upload of
  A goes to list 1, beside the copy that reads it.
- **A bindless read does not wait for writes** (`runtime/command_reorder_visitor.cpp:98`).
  The layer of a bindless argument comes from the updates of the array only; an upload of a
  buffer and a kernel that reads it through the array share list 0.
- **A CUDA wait holds back one CUDA stream** (`backends/cuda/cuda_stream.cpp:78`).  The wait
  is put into the first CUDA stream; the next command goes to the second, which is gated by
  the end of the last list.  The README of the repository (line 588) promises that it "will
  be executed after the event signals".
- **A bindless array releases twice** (`runtime/resource_tracker.cpp:26`).  `commit` does
  not empty the release queue, so each update takes the same references again.
- **An event of two DirectX streams goes back** (`DXRuntime/CommandQueue.cpp:76`).
  `ExecuteEvent` stores the value of its own signal into `finishedEvent`.  When the execution
  thread of the first stream does so after that of the second, `LCEvent::Sync` polls for the
  newer value for ever.  The README's own example (lines 580-590) signals from two streams
  and synchronizes.
- **Moving an instance hides it on DirectX** (`Codegen/ShaderHeader.cpp:41`).  The mask is
  computed from the flags of the newest modification alone; `set_transform_on_update`
  without a visibility writes a mask of zero.

## 6. What the models leave out of their properties, and what is not modelled

The properties state what the code does keep.  Where it keeps less than one would expect,
the exception is a named operator or part of the property, so that it can be seen:

- `WritesAccel` (`command_reorder_visitor.cpp:515`): every accel argument is recorded as a
  read, so a kernel that sets instance transforms is not ordered with later users.
- `TextureCopySource` (`command_scheduler.cpp:244`) and `KernelThenMeshBuild`
  (`command_scheduler.cpp:257`): the two pairs that the scheduler's tests do not compare.
- `PhaseSize > MaxRounds`: `while (_phase <= arrive_phase)` (`thread_pool.cpp:66`) stays
  true for ever in the round in which the unsigned phase wraps.  With `PhaseSize = 2`
  `EveryoneLeaves` fails; in the program it takes 2^32 rounds.
- `SyncHost` has one host: `_synchronize_barrier` is made for the workers and *one* host
  (`thread_pool.cpp:73-80`).  With two that synchronize at once, one can return in a round
  that is made up of the other's arrivals, and `SynchronizeCovers` fails.
- `EndedBefore` of `CPUStream` covers commands, callbacks and waits: all that a stream does
  before a signal.  `WaitOrdersStreams` speaks of waits that captured a future: a wait before the first
  signal of its event captures none (`llvm_stream.cpp:36`).
- A host function of a CUDA stream is ordered after the lists before it
  (`FunctionsAfterLists` of `CUDAStream`) and not
  before the lists after it (`cuda_stream.cpp:58`).
- The passing run of `CUDAStream` has one stream.  What two could add are circular waits,
  which `DeviceGoesOn` excludes, and the wait of section 5.
- `SharedFromOverlapping`: the shared memory of an LLVM kernel belongs to the dispatch and
  not to the block (`llvm_stream.cpp:107`), so a block may read what a concurrent block
  wrote; what the code does keep is that it never reads what an earlier one left.
- `SyncIsABarrier` excuses kernels whose lanes do not synchronize equally often, for which a
  coroutine that has ended is resumed (a trap, or a use of a freed frame).
- `lost` of `AccelFrontEnd` (`rtx/accel.cpp:113`): `set()` with the mesh that a pending edit
  already named makes a modification without a mesh in place of one with it.
- `CUDAShowsNoOther` admits instances that became undefined when the instance buffer grew
  (`cuda_accel.cpp:54`: nothing is copied into the new one) and handles a mesh had before it
  was rebuilt (`cuda_accel.cpp:94`).
- `DXNothingDangles` rather than equality: `meshMap` of `TopAccel` only grows.
- `EventSyncCovers` and `WaitsOrderLists` of `DXQueue`, and `MetalOrdersWork`, are checked
  with one signalling stream for each event; section 5 says what happens with two.
- `WaitsForFirstSignal`: a wait before the first signal of a DirectX event waits for a value
  that only a signal from another stream will reach.
- The destructor of the DirectX `CommandQueue` may drop what is still in the queue to its
  thread (the thread leaves when `enabled` is false); the properties about callbacks speak of
  streams that are synchronized first.
- `Settled` of `DXStateTracker`: the tracker knows one state per resource and list.  The
  reordering separates conflicting accesses, but commands that use disjoint ranges of one
  buffer in different ways may share a list and ask for different states of it.  All but what
  `Insists` names may then find it in the state another command of the list asked for.
- A kernel that writes the instances of an accel does not lock them, and counts as a reader of
  the accel (`WritesAccel` above); a list may therefore write them in a readable state.  Such
  a write is not one to `WrittenByKernels`, which are writes in the state for them.
- An accel build with nothing to set records nothing (`TopAccel.cpp:199-202`): after a kernel
  of an earlier list wrote the instances it finds them in the state for writing, with no
  barrier since.  `InRequiredState` and `WritesSynchronized` name it as an exception.
- `UpdateShowsTheArray` says nothing of a place that was emptied: a removal marks nothing, so
  the device keeps what was there.  For DirectX it holds until something is taken out of a
  place: `TryReturnIndex` (`Resource/BindlessArray.cpp:41`) resets the index of the map
  before it counts down through it.  On Metal the handles of the slots are never stored, so
  that `remove_*` does nothing at all; the array's contents do not depend on them.
- `MetalStream` is used by one host thread, because `MetalEvent` has no lock, and a wait on
  an event that was never signalled is left out.
- `HostBufferPool` leaves out a request of zero bytes; the move constructor of `FirstFit`
  (`core/first_fit.cpp`), which nothing calls; and the memory of buffers outside the block.
- `AccelBackends` has builds that prefer updates; a build that is forced goes the way of the
  first one.

Not modelled, and why:

- the ISPC backend has the control of the LLVM one, and its arrays the same code;
- drivers, Embree, OptiX, Direct3D and Metal are external, modelled by how they are used:
  queues execute in order, an event stands for a point of a queue, a completed fence value
  does not go back but by a signal;
- of the code generators only the entry of an LLVM kernel: the rest turns trees into text,
  or into the IR of LLVM, where a state machine says nothing; the same goes for the DSL and
  for the construction of types and statements in the AST;
- `vstl` is a container library; its `ThreadPool` and task graph, like `core/observer`, are
  used by nothing in the repository; `core/lru_cache` is used by one thread; `core/pool` is a
  free list under a spin mutex;
- the vendored allocator of D3D12 memory, descriptor heaps, swap chains, shader caches,
  platform services, GUI and bindings: input and output, or third-party code;
- of resources the handles that are created and destroyed by thin wrappers; the texture
  objects of CUDA's bindless arrays, which are destroyed beside the slots at once, are left
  to the caller, who has to keep the array unchanged while kernels that use it are running.

## 7. Plan

Done, in the order of importance: reordering and its abstract specification; the scheduler,
its dependency tests and its proofs; the barrier and the pool; CPU streams and events; CUDA
streams; bindless tracking; the DirectX queue and resource states; the front end of a
stream; the staging pools; Metal streams; acceleration structures on four backends; kernel
blocks; usage marks; the device's side of bindless arrays; the proofs of section 4.

Next:

1. Compositions: `CommandReorder` feeding `CUDAStream` and `DXStateTracker`, in place of
   assumed lists; `UsageMarks` feeding `Commands`; `MetalStream` with several host threads.
2. Proofs about them.  The lists of the reordering need not be `Settled`: disjoint ranges of
   one buffer, and the reads of a transfer, may share a list and ask for different states.
   Which resources of a list are is what a composition would have to say.
3. The build requests of acceleration structures other than updates.

## 8. Running

    tlc -workers 2 -config MCHostSide.cfg MCHostSide
    tlapm CommandScheduler_proofs.tla       (and the other *_proofs modules)
