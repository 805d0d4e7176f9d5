SPECIFICATION HostSideSpec
CONSTANTS
  b1 = b1
  b2 = b2
  t1 = t1
  m1 = m1
  a1 = a1
  h1 = h1
  Buffers <- MCBuffers
  Textures <- MCTextures
  Meshes <- MCMeshes
  Accels <- MCAccels
  BindlessArrays <- MCBindlessArrays
  Resident <- MCResident
  Instances <- MCInstances
  Command <- MCCommand
  MaxBatch = 4
  Extent = 4
  Place = {p1, p2}
  Resource = {A, B}
  NoResource = NoResource
  MaxCalls = 6
  BindlessPlace <- MCBindlessPlace
  MaxArrayCalls = 5
  Limit = 27
  Alignment = 4
  Request = {1, 4, 6}
  MaxAdHoc = 1
  Mesh <- MCMesh
  Transform = {t0, t1}
  Unset = Unset
  Undefined = Undefined
  InstanceSize = 80
  MaxInstances = 2
  MaxEdits = 5
  MaxMoves = 1
  A = A
  B = B
  event = event
  Streams <- MCStreams
  Events = {event}
  Signals <- MCSignals
  MaxAllocators = 1
  Workloads <- MCWorkloads
  MetalQueue <- MCStreams
  MetalEvent = {event}
  Signallers <- MCSignals
  MaxCommandBuffers = 2
  MaxDispatches = 4
  buf = buf
  tex = tex
  inst = inst
  Tracked = {buf, tex, inst}
  Reachable = {buf, tex}
  InstanceBuffer = {inst}
  Lists <- MCLists
  MaxLists = 3
  Runner = {r1, r2}
  BlockSize = 2
  DispatchSize = 3
  MaxSyncs = 2
  KernelShapes <- MCKernelShapes
  ByReference = {p}
  ByValue = {q}
  Captured = {B, A}
  Arrays = {A}
  Local = {}
  MaxSteps = 2
  Recorder = {d, c}
  MaxItems = 4
CHECK_DEADLOCK FALSE
INVARIANTS
  PartsTypeOK
  ForgetsWhatLeft
  FreeListExact
  AllocatorsReused
  OnlyOneOvertaken
  NoLostWakeup
  SyncIsABarrier
  UsageMarked
  ReachesBackendInOrder
  MetalNeverStuck
PROPERTIES
  ImplementsCommandOrder
  ImplementsAllocator
  CPUBuildsTheScene
  GPUBuildsTheScene
  BarriersSuffice
  UpdateShowsTheArray
  DXOrdersWork
  MetalOrdersWork
  SharedFromOverlapping
