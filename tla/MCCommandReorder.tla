-------------------------- MODULE MCCommandReorder --------------------------
(***************************************************************************)
(* A small device: two buffers of two units, a texture, a mesh over b1, an *)
(* accel that holds the mesh and a bindless array that holds b1 and t1.    *)
(***************************************************************************)
EXTENDS CommandReorder

CONSTANTS b1, b2, t1, m1, a1, h1

MCBuffers == {b1, b2}
MCTextures == {t1}
MCMeshes == {m1}
MCAccels == {a1}
MCBindlessArrays == {h1}
MCResident == {<<h1, b1>>, <<h1, t1>>}
MCInstances == {<<a1, m1>>}

Whole == Interval(0, 2)
Left == Interval(0, 1)
Right == Interval(1, 1)

R(h, range) == Access(h, range, "READ")
W(h, range) == Access(h, range, "WRITE")
RW(h, range) == Access(h, range, "READ_WRITE")

Transfers ==
  {Cmd("BufferUpload", {W(b1, Left)}),
   Cmd("BufferDownload", {R(b1, Right)}),
   Cmd("BufferCopy", {R(b1, Whole), W(b2, Whole)}),
   Cmd("BufferCopy", {R(b2, Whole), W(b1, Whole)}),
   Cmd("TextureUpload", {W(t1, Level(0))}),
   Cmd("BufferToTextureCopy", {R(b2, Whole), W(t1, Level(0))}),
   Cmd("TextureToBufferCopy", {R(t1, Level(0)), W(b1, Right)}),
   Cmd("TextureCopy", {R(t1, Level(0)), W(t1, Level(1))}),
   Cmd("TextureDownload", {R(t1, Level(1))})}

Kernels ==
  {Cmd("ShaderDispatch", {R(b1, Left), W(b1, Right)}),
   Cmd("ShaderDispatch", {RW(b1, Whole)}),
   Cmd("ShaderDispatch", {R(h1, Level(0)), W(b2, Left)}),
   Cmd("ShaderDispatch", {R(a1, Level(0)), R(b2, Whole)})}

Builds ==
  {Cmd("MeshBuild", {R(b1, Whole), R(b2, Whole), W(m1, Level(0))}),
   Cmd("AccelBuild", {W(a1, Level(0))}),
   Cmd("BindlessArrayUpdate", {W(h1, Level(0))})}

MoveInstances == {Cmd("ShaderDispatch", {W(a1, Level(0))})}

MCCommand == Transfers \cup Kernels \cup Builds \cup MoveInstances

=============================================================================
