------------------------------ MODULE Commands ------------------------------
(***************************************************************************)
(* The commands a stream records (runtime/command.h) and the hazards       *)
(* between two of them.                                                    *)
(*                                                                         *)
(* A command is its tag and the set of resource accesses it carries.  An   *)
(* access names a resource, the part of it that is touched and the usage.  *)
(* A buffer range is a half-open interval of bytes, a texture level is an  *)
(* interval of length one.  The data, the sizes of texels and the uniform  *)
(* arguments are left out: no dependency is ever derived from them.        *)
(***************************************************************************)
EXTENDS Integers

CONSTANTS
  Buffers, Textures, Meshes, Accels, BindlessArrays,  \* resource handles
  Resident,    \* <<array, resource>>: the resource is in the bindless array
  Instances    \* <<accel, mesh>>: the acceleration structure holds the mesh

Resources == Buffers \cup Textures \cup Meshes \cup Accels \cup BindlessArrays

Usage == {"NONE", "READ", "WRITE", "READ_WRITE"}

TransferTag == {"BufferUpload", "BufferDownload", "BufferCopy",
                "BufferToTextureCopy", "TextureToBufferCopy",
                "TextureUpload", "TextureDownload", "TextureCopy"}

Tag == TransferTag \cup
       {"ShaderDispatch", "MeshBuild", "AccelBuild", "BindlessArrayUpdate"}

-----------------------------------------------------------------------------

Interval(offset, size) == [min |-> offset, max |-> offset + size]
Level(n) == Interval(n, 1)

Collide(r, s) == r.min < s.max /\ s.min < r.max

Access(handle, range, usage) ==
  [handle |-> handle, range |-> range, usage |-> usage]

Cmd(tag, args) == [tag |-> tag, args |-> args]

IsRead(a)  == a.usage \in {"READ", "READ_WRITE"}
IsWrite(a) == a.usage \in {"WRITE", "READ_WRITE"}

Reads(c)  == {a \in c.args : IsRead(a)}
Writes(c) == {a \in c.args : IsWrite(a)}

Overlap(a, b) == a.handle = b.handle /\ Collide(a.range, b.range)

\* The accesses a command may carry.  Only the commands that build or update a
\* mesh, an acceleration structure or a bindless array write it, except that a
\* kernel may write an acceleration structure; a mesh is never a kernel argument.
Carries(c) ==
  /\ c.tag \in Tag
  /\ \A a \in c.args :
       /\ a.handle \in Resources /\ a.usage \in Usage
       /\ a.handle \in Meshes => c.tag = "MeshBuild" /\ a.usage = "WRITE"
       /\ a.handle \in Accels => \/ c.tag = "AccelBuild" /\ a.usage = "WRITE"
                                 \/ c.tag = "ShaderDispatch"
       /\ a.handle \in BindlessArrays =>
            \/ c.tag = "BindlessArrayUpdate" /\ a.usage = "WRITE"
            \/ c.tag = "ShaderDispatch" /\ a.usage \in {"NONE", "READ"}

-----------------------------------------------------------------------------
(***************************************************************************)
(* The hazards.  first was recorded before second; each predicate says     *)
(* that running the two at the same time may change what either of them    *)
(* observes.                                                               *)
(***************************************************************************)
WriteThen(first, second) ==
  \E a \in Writes(first), b \in Reads(second) \cup Writes(second) : Overlap(a, b)

ReadThenWrite(first, second) ==
  \E a \in Reads(first), b \in Writes(second) : Overlap(a, b)

\* A kernel that takes a bindless array may read every resource in it.
ReadsThrough(c) ==
  {r \in Resources : \E a \in Reads(c) :
      c.tag = "ShaderDispatch" /\ <<a.handle, r>> \in Resident}

BindlessReadThenWrite(first, second) ==
  \E a \in Writes(second) : a.handle \in ReadsThrough(first)

WriteThenBindlessRead(first, second) ==
  \E a \in Writes(first) : a.handle \in ReadsThrough(second)

\* Tracing rays through, or building, an acceleration structure reads the
\* meshes it holds.
MeshesOf(c) ==
  {m \in Meshes : \E a \in c.args : <<a.handle, m>> \in Instances}

MeshThenAccelBuild(first, second) ==
  /\ first.tag = "MeshBuild" /\ second.tag = "AccelBuild"
  /\ \E a \in Writes(first) : a.handle \in MeshesOf(second)

AccelUseThenMesh(first, second) ==
  /\ second.tag = "MeshBuild"
  /\ \E a \in Writes(second) : a.handle \in MeshesOf(first)

Conflict(first, second) ==
  \/ WriteThen(first, second)
  \/ ReadThenWrite(first, second)
  \/ BindlessReadThenWrite(first, second)
  \/ WriteThenBindlessRead(first, second)
  \/ MeshThenAccelBuild(first, second)
  \/ AccelUseThenMesh(first, second)

=============================================================================
