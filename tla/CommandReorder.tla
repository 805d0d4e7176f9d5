--------------------------- MODULE CommandReorder ---------------------------
(***************************************************************************)
(* CommandReorderVisitor (runtime/command_reorder_visitor.{h,cpp}): the    *)
(* visitor that Stream::_dispatch runs over a batch of commands.  For every *)
(* resource it remembers the last layer that read it and the last layer    *)
(* that wrote it, and puts each command in the first layer after those it  *)
(* finds itself to depend on.                                              *)
(*                                                                         *)
(* A handle that is in none of the visitor's maps has the view             *)
(* [read |-> -1, write |-> -1], the default of ResourceView, so the maps   *)
(* are total functions here.  layer[i] is the command list that command i  *)
(* of the batch was appended to.                                           *)
(***************************************************************************)
EXTENDS Commands, Sequences, FiniteSets, FiniteSetsExt

CONSTANTS
  Command,    \* the commands a host may record
  MaxBatch,   \* bound: commands recorded before the batch is dispatched
  Extent      \* bound: every range lies in -Extent .. Extent

VARIABLES
  views,               \* RangeHandle::views of buffers and textures
  unranged,            \* NoRangeHandle::view and BindlessHandle::view
  bindlessMaxLayer, maxMeshLevel, maxAccelReadLevel, maxAccelWriteLevel,
  batch,               \* the commands visited since the last clear
  layer                \* the list of each of them

levels == <<bindlessMaxLayer, maxMeshLevel, maxAccelReadLevel, maxAccelWriteLevel>>
vars == <<views, unranged, levels, batch, layer>>

NoView == [read |-> -1, write |-> -1]

\* Range(): collides with every range.
FullRange == [min |-> -Extent, max |-> Extent]

Ranged   == Buffers \cup Textures
Unranged == Meshes \cup Accels \cup BindlessArrays

\* The ranges that key a view: those of the kernel arguments and Range().
RangeKey ==
  {FullRange} \cup
  {a.range : a \in UNION {c.args : c \in {d \in Command : d.tag = "ShaderDispatch"}}}

\* What the constructors of the commands make: a transfer reads one part of a
\* buffer or a texture or writes one, or both; a build writes one thing; and an
\* access is to some part of its resource.
WellFormed(c) ==
  /\ Carries(c)
  /\ \A a \in c.args : /\ a.range \in [min : 0 .. Extent, max : 0 .. Extent]
                       /\ a.range.min < a.range.max
  /\ c.tag \in {"BufferUpload", "TextureUpload", "AccelBuild", "BindlessArrayUpdate"} => Reads(c) = {}
  /\ c.tag \in {"BufferDownload", "TextureDownload"} => Writes(c) = {}
  /\ c.tag # "ShaderDispatch" => \A a, b \in Writes(c) : a = b
  /\ c.tag \in TransferTag => \A a, b \in Reads(c) : a = b
  /\ \A a \in Writes(c) :
       /\ c.tag = "MeshBuild" => a.handle \in Meshes
       /\ c.tag = "AccelBuild" => a.handle \in Accels
       /\ c.tag = "BindlessArrayUpdate" => a.handle \in BindlessArrays

ASSUME BoundsAssumption == MaxBatch \in Nat /\ Extent \in Nat \ {0}
ASSUME HandlesAssumption ==
  /\ Ranged \cap Unranged = {} /\ Meshes \cap Accels = {}
  /\ BindlessArrays \cap (Meshes \cup Accels) = {}
  /\ Resident \subseteq BindlessArrays \X Ranged /\ Instances \subseteq Accels \X Meshes
ASSUME CommandsAssumption == \A c \in Command : WellFormed(c)

ArrayHolding(h) == {A \in BindlessArrays : <<A, h>> \in Resident}

-----------------------------------------------------------------------------
(***************************************************************************)
(* The first layer in which a read, or a write, of a resource may run.     *)
(***************************************************************************)
Bigger(m, n) == IF m > n THEN m ELSE n

\* bindlessMaxLayer >= layer compares an int64_t with a size_t: -1 is the
\* largest number there.
BindlessGate(l) == bindlessMaxLayer = -1 \/ bindlessMaxLayer >= l

\* Mutant: a write looks at earlier writes only.
RangedLastWriteAfterWrites(h, range) ==
  LET hit  == {views[h][r] : r \in {k \in RangeKey : Collide(k, range)}}
      last == Max({0} \cup {v.write + 1 : v \in hit})
  IN IF BindlessGate(last)
     THEN Max({last} \cup {unranged[A].read + 1 : A \in ArrayHolding(h)})
     ELSE last

RangedLastWrite(h, range) ==
  LET hit  == {views[h][r] : r \in {k \in RangeKey : Collide(k, range)}}
      last == Max({0} \cup {Bigger(v.read, v.write) + 1 : v \in hit})
  IN IF BindlessGate(last)
     THEN Max({last} \cup {unranged[A].read + 1 : A \in ArrayHolding(h)})
     ELSE last

RangedLastRead(h, range) ==
  Max({0} \cup {views[h][r].write + 1 : r \in {k \in RangeKey : Collide(k, range)}})

MaxAccelLevel == Bigger(maxAccelReadLevel, maxAccelWriteLevel)

UnrangedLastWrite(h) ==
  LET own == Bigger(unranged[h].read, unranged[h].write) + 1
  IN CASE h \in Meshes -> Bigger(own, MaxAccelLevel + 1)
       [] h \in Accels -> Bigger(own, Bigger(MaxAccelLevel, maxMeshLevel) + 1)
       [] OTHER        -> own

UnrangedLastRead(h) ==
  IF h \in Accels THEN Bigger(unranged[h].write, maxAccelWriteLevel) + 1
                  ELSE unranged[h].write + 1

GetLastLayerWrite(h, range) ==
  IF h \in Ranged THEN RangedLastWrite(h, range) ELSE UnrangedLastWrite(h)

GetLastLayerRead(h, range) ==
  IF h \in Ranged THEN RangedLastRead(h, range) ELSE UnrangedLastRead(h)

-----------------------------------------------------------------------------
(***************************************************************************)
(* The marks a command leaves on the views of the resources it touches.    *)
(***************************************************************************)

\* The read mark of a transfer: SetRead and SetRW assign the layer to a view
\* that is already there, whatever its value.
AssignRead(v, l) == [v EXCEPT !.read = l]

\* The read mark of a kernel, a mesh build and an unranged resource.
RaiseRead(v, l) == [v EXCEPT !.read = Bigger(l, @)]

SetWriteMark(v, l) == [v EXCEPT !.write = l]

AddCommand(c, l) ==
  /\ batch' = Append(batch, c)
  /\ layer' = Append(layer, l)

CanVisit(c, tags) == c.tag \in tags /\ Len(batch) < MaxBatch

-----------------------------------------------------------------------------
(***************************************************************************)
(* One action per kind of visit.                                           *)
(***************************************************************************)
VisitUpload(c) ==
  /\ CanVisit(c, {"BufferUpload", "TextureUpload"})
  /\ \E dst \in Writes(c) :
       LET l == GetLastLayerWrite(dst.handle, FullRange)
       IN /\ views' = [views EXCEPT ![dst.handle][FullRange] = SetWriteMark(@, l)]
          /\ AddCommand(c, l)
  /\ UNCHANGED <<unranged, levels>>

VisitDownload(c) ==
  /\ CanVisit(c, {"BufferDownload", "TextureDownload"})
  /\ \E src \in Reads(c) :
       LET l == GetLastLayerRead(src.handle, FullRange)
       IN /\ views' = [views EXCEPT ![src.handle][FullRange] = AssignRead(@, l)]
          /\ AddCommand(c, l)
  /\ UNCHANGED <<unranged, levels>>

\* SetRW: the read mark is set after the layer took the write into account.
VisitCopy(c) ==
  /\ CanVisit(c, {"BufferCopy", "TextureCopy", "BufferToTextureCopy", "TextureToBufferCopy"})
  /\ \E src \in Reads(c), dst \in Writes(c) :
       LET l == Bigger(GetLastLayerRead(src.handle, FullRange),
                       GetLastLayerWrite(dst.handle, FullRange))
           written == [views EXCEPT ![dst.handle][FullRange] = SetWriteMark(@, l)]
       IN /\ views' = [written EXCEPT ![src.handle][FullRange] = AssignRead(@, l)]
          /\ AddCommand(c, l)
  /\ UNCHANGED <<unranged, levels>>

\* A kernel argument is a write when it is a buffer or a texture and its
\* usage has the WRITE bit; bindless arrays and accels always count as read.
DispatchWrites(c) == {a \in c.args : a.handle \in Ranged /\ IsWrite(a)}
DispatchReads(c)  == c.args \ DispatchWrites(c)

VisitShaderDispatch(c) ==
  /\ CanVisit(c, {"ShaderDispatch"})
  /\ LET l == Max({0} \cup {GetLastLayerWrite(a.handle, a.range) : a \in DispatchWrites(c)}
                      \cup {GetLastLayerRead(a.handle, a.range) : a \in DispatchReads(c)})
         ReadsHere(h, r)  == \E a \in DispatchReads(c) : a.handle = h /\ a.range = r
         WritesHere(h, r) == \E a \in DispatchWrites(c) : a.handle = h /\ a.range = r
         Marked(h, r) ==
           LET v == IF ReadsHere(h, r) THEN RaiseRead(views[h][r], l) ELSE views[h][r]
           IN IF WritesHere(h, r) THEN SetWriteMark(v, l) ELSE v
         uses(S) == \E a \in c.args : a.handle \in S
     IN /\ views' = [h \in Ranged |-> [r \in RangeKey |-> Marked(h, r)]]
        /\ unranged' = [h \in Unranged |->
             IF uses({h}) THEN RaiseRead(unranged[h], l) ELSE unranged[h]]
        /\ AddCommand(c, l)
        /\ bindlessMaxLayer' = IF uses(BindlessArrays) THEN Bigger(bindlessMaxLayer, l)
                                                       ELSE bindlessMaxLayer
        /\ maxAccelReadLevel' = IF uses(Accels) THEN Bigger(maxAccelReadLevel, l)
                                                ELSE maxAccelReadLevel
  /\ UNCHANGED <<maxMeshLevel, maxAccelWriteLevel>>

VisitBindlessArrayUpdate(c) ==
  /\ CanVisit(c, {"BindlessArrayUpdate"})
  /\ \E dst \in Writes(c) :
       LET l == GetLastLayerWrite(dst.handle, FullRange)
       IN /\ unranged' = [unranged EXCEPT ![dst.handle] = SetWriteMark(@, l)]
          /\ AddCommand(c, l)
  /\ UNCHANGED <<views, levels>>

VisitAccelBuild(c) ==
  /\ CanVisit(c, {"AccelBuild"})
  /\ \E dst \in Writes(c) :
       LET l == GetLastLayerWrite(dst.handle, FullRange)
       IN /\ unranged' = [unranged EXCEPT ![dst.handle] = SetWriteMark(@, l)]
          /\ maxAccelWriteLevel' = Bigger(maxAccelWriteLevel, l)
          /\ AddCommand(c, l)
  /\ UNCHANGED <<views, bindlessMaxLayer, maxMeshLevel, maxAccelReadLevel>>

\* SetMesh: the vertex and the index buffer are read, the mesh is written.
\* The two buffers are marked with the same layer because the later one is
\* marked after both were consulted.
VisitMeshBuild(c) ==
  /\ CanVisit(c, {"MeshBuild"})
  /\ \E mesh \in Writes(c) :
       LET l == Max({GetLastLayerRead(a.handle, FullRange) : a \in Reads(c)}
                      \cup {GetLastLayerWrite(mesh.handle, FullRange)})
           read == {a.handle : a \in Reads(c)}
       IN /\ views' = [h \in Ranged |->
               IF h \in read THEN [views[h] EXCEPT ![FullRange] = RaiseRead(@, l)]
                             ELSE views[h]]
          /\ unranged' = [unranged EXCEPT ![mesh.handle] = SetWriteMark(@, l)]
          /\ maxMeshLevel' = Bigger(maxMeshLevel, l)
          /\ AddCommand(c, l)
  /\ UNCHANGED <<bindlessMaxLayer, maxAccelReadLevel, maxAccelWriteLevel>>

Init ==
  /\ views = [h \in Ranged |-> [r \in RangeKey |-> NoView]]
  /\ unranged = [h \in Unranged |-> NoView]
  /\ bindlessMaxLayer = -1 /\ maxMeshLevel = -1
  /\ maxAccelReadLevel = -1 /\ maxAccelWriteLevel = -1
  /\ batch = <<>> /\ layer = <<>>

\* Stream::_dispatch hands command_lists() to the device and clears the visitor.
Clear ==
  /\ batch # <<>>
  /\ views' = [h \in Ranged |-> [r \in RangeKey |-> NoView]]
  /\ unranged' = [h \in Unranged |-> NoView]
  /\ bindlessMaxLayer' = -1 /\ maxMeshLevel' = -1
  /\ maxAccelReadLevel' = -1 /\ maxAccelWriteLevel' = -1
  /\ batch' = <<>> /\ layer' = <<>>

Visit(c) ==
  \/ VisitUpload(c)
  \/ VisitDownload(c)
  \/ VisitCopy(c)
  \/ VisitShaderDispatch(c)
  \/ VisitBindlessArrayUpdate(c)
  \/ VisitAccelBuild(c)
  \/ VisitMeshBuild(c)

Next == Clear \/ \E c \in Command : Visit(c)

Spec == Init /\ [][Next]_vars

-----------------------------------------------------------------------------
(***************************************************************************)
(* Properties                                                              *)
(***************************************************************************)
TypeOK ==
  /\ views \in [Ranged -> [RangeKey -> [read : -1..MaxBatch, write : -1..MaxBatch]]]
  /\ unranged \in [Unranged -> [read : -1..MaxBatch, write : -1..MaxBatch]]
  /\ \A m \in {bindlessMaxLayer, maxMeshLevel, maxAccelReadLevel, maxAccelWriteLevel} :
        m \in -1..MaxBatch
  /\ batch \in Seq(Command)
  /\ layer \in [DOMAIN batch -> 0..MaxBatch]

\* A kernel that writes an acceleration structure (set_instance_transform).  The
\* visitor records every accel argument as a read, so it does not order such a
\* kernel with the other uses of the accel, and the properties set it apart.
WritesAccel(c) == c.tag = "ShaderDispatch" /\ \E a \in Writes(c) : a.handle \in Accels

InOrder(Related(_, _)) ==
  \A i, j \in DOMAIN batch :
     (i < j /\ Related(batch[i], batch[j])) => layer[i] < layer[j]

\* Read after write and write after write: no lost update and no stale input,
\* whatever the two commands are and however their ranges overlap.  Kernel writes
\* to an accel are set apart.
WriteHazard(first, second) ==
  /\ WriteThen(first, second)
  /\ ~WritesAccel(first) /\ ~WritesAccel(second)

\* Write after read for what a kernel reads through its own arguments.
KernelReadHazard(first, second) ==
  /\ first.tag = "ShaderDispatch" /\ ~WritesAccel(second)
  /\ ReadThenWrite(first, second)

\* A mesh is built before the accels over it and not while one is in use.
AccelHazard(first, second) ==
  MeshThenAccelBuild(first, second) \/ AccelUseThenMesh(first, second)

\* With the writes of what a kernel may read through a bindless array, although
\* it is not an argument of the kernel.
Hazard(first, second) ==
  \/ WriteHazard(first, second) \/ KernelReadHazard(first, second)
  \/ BindlessReadThenWrite(first, second) \/ AccelHazard(first, second)
Hazards == {pair \in Command \X Command : Hazard(pair[1], pair[2])}

\* The device is handed no empty list: the layers in use are 0 .. n - 1.
NoEmptyList ==
  \A i \in DOMAIN batch : \A l \in 0..layer[i] : \E j \in DOMAIN batch : layer[j] = l

Order == INSTANCE CommandOrder WITH MustPrecede <- Hazards, list <- layer

\* The visitor implements the reorderer of CommandOrder for these hazards: of two
\* commands that must not be exchanged the second is in a later list, at every
\* moment of a batch and across clear(); and it leaves no list empty.
ImplementsCommandOrder == Order!Spec /\ []NoEmptyList

\* Not kept by the code: what a transfer or a mesh build reads is not
\* overwritten before it ran.
TransferReadsInOrder ==
  InOrder(LAMBDA first, second : ReadThenWrite(first, second) /\ ~WritesAccel(second))

\* Not kept by the code: a kernel sees, through a bindless array, what the
\* commands before it wrote.
BindlessSeesWrites == InOrder(WriteThenBindlessRead)

=============================================================================
