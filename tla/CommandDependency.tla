------------------------- MODULE CommandDependency --------------------------
(***************************************************************************)
(* The dependency tests of CommandScheduler (runtime/command_scheduler.cpp)*)
(* as a predicate on two commands: DependsOn(new, old) holds when visiting *)
(* new adds an edge from the pending command old.                          *)
(*                                                                         *)
(* The switch over the other command's tag is a choice of which of its     *)
(* accesses to compare with; the tags a switch leaves out carry no access  *)
(* of that type.                                                           *)
(***************************************************************************)
EXTENDS Commands

ReadsArray(c, resource) ==
  /\ c.tag = "ShaderDispatch"
  /\ \E a \in c.args : <<a.handle, resource>> \in Resident

\* A read conflicts with what the other command writes.
CheckBufferRead(a, other)  == \E b \in Writes(other) : Overlap(a, b)
CheckTextureRead(a, other) == \E b \in Writes(other) : Overlap(a, b)

\* Mutant: a write conflicts only with what the other command writes.
CheckBufferWriteAgainstWrites(a, other) ==
  \/ \E b \in Writes(other) : Overlap(a, b)
  \/ ReadsArray(other, a.handle)

\* A write conflicts with every access of the other command, the resources a
\* kernel reaches through a bindless array included.
CheckBufferWrite(a, other) ==
  \/ \E b \in other.args : Overlap(a, b)
  \/ ReadsArray(other, a.handle)

\* Of a texture copy only the destination is compared.
CheckTextureWrite(a, other) ==
  \/ \E b \in (IF other.tag = "TextureCopy" THEN Writes(other) ELSE other.args) :
        Overlap(a, b)
  \/ ReadsArray(other, a.handle)

CheckMeshWrite(a, other) ==
  \/ other.tag = "AccelBuild"
  \/ other.tag = "MeshBuild" /\ \E b \in Writes(other) : b.handle = a.handle

CheckAccelRead(a, other) ==
  /\ other.tag \in {"AccelBuild", "ShaderDispatch"}
  /\ \E b \in Writes(other) : b.handle = a.handle

CheckAccelWrite(a, other) ==
  \/ other.tag = "AccelBuild" /\ \E b \in other.args : b.handle = a.handle
  \/ other.tag = "MeshBuild"
  \/ other.tag = "ShaderDispatch" /\ \E b \in other.args : b.handle \in Accels

CheckBindlessArrayRead(a, other) ==
  \/ \E b \in Writes(other) : <<a.handle, b.handle>> \in Resident
  \/ other.tag = "BindlessArrayUpdate" /\ \E b \in other.args : b.handle = a.handle

CheckBindlessArrayWrite(a, other) ==
  \/ other.tag = "BindlessArrayUpdate" /\ \E b \in other.args : b.handle = a.handle
  \/ other.tag = "ShaderDispatch" /\ \E b \in other.args : b.handle \in BindlessArrays

-----------------------------------------------------------------------------
(***************************************************************************)
(* The visits: each of the new command's accesses is tested by its type    *)
(* and usage.  A kernel argument of usage NONE is not tested, a bindless   *)
(* array argument is tested whatever its usage.                            *)
(***************************************************************************)
BufferDepends(a, old) ==
  \/ a.usage = "READ" /\ CheckBufferRead(a, old)
  \/ IsWrite(a) /\ CheckBufferWrite(a, old)

TextureDepends(a, old) ==
  \/ a.usage = "READ" /\ CheckTextureRead(a, old)
  \/ IsWrite(a) /\ CheckTextureWrite(a, old)

AccelDepends(a, old) ==
  \/ a.usage = "READ" /\ CheckAccelRead(a, old)
  \/ IsWrite(a) /\ CheckAccelWrite(a, old)

BindlessDepends(new, a, old) ==
  IF new.tag = "BindlessArrayUpdate" THEN CheckBindlessArrayWrite(a, old)
                                     ELSE CheckBindlessArrayRead(a, old)

DependsOn(new, old) ==
  \E a \in new.args :
    \/ a.handle \in Buffers /\ BufferDepends(a, old)
    \/ a.handle \in Textures /\ TextureDepends(a, old)
    \/ a.handle \in Meshes /\ CheckMeshWrite(a, old)
    \/ a.handle \in Accels /\ AccelDepends(a, old)
    \/ a.handle \in BindlessArrays /\ BindlessDepends(new, a, old)

=============================================================================
