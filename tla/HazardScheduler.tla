-------------------------- MODULE HazardScheduler ---------------------------
(***************************************************************************)
(* The scheduler with its own dependency tests: Depends is the relation    *)
(* that the visits of CommandDependency find between the commands, and the *)
(* hazards of Commands say what it has to keep in order.                   *)
(***************************************************************************)
EXTENDS CommandScheduler, CommandDependency

ASSUME CarriesAssumption == \A c \in Command : Carries(c)
ASSUME DependsAssumption ==
  \A c, d \in Command : <<c, d>> \in Depends <=> DependsOn(c, d)
ASSUME ResidentAssumption == Resident \subseteq BindlessArrays \X (Buffers \cup Textures)
ASSUME InstancesAssumption == Instances \subseteq Accels \X Meshes

-----------------------------------------------------------------------------
\* Two cases that the dependency tests leave out.
\* What a texture copy reads, against a later write of that texture level:
\* CheckTextureWrite compares the destination of a copy only.
TextureCopySource(first, second) ==
  first.tag = "TextureCopy" /\ ReadThenWrite(first, second)

\* A kernel that uses an accel, against the rebuild of a mesh it holds:
\* CheckMeshWrite looks at builds only.
KernelThenMeshBuild(first, second) ==
  first.tag = "ShaderDispatch" /\ AccelUseThenMesh(first, second)

KeptApart(first, second) ==
  /\ Conflict(first, second)
  /\ ~TextureCopySource(first, second)
  /\ ~KernelThenMeshBuild(first, second)

\* Any two commands that must not be exchanged are in two lists, in the order
\* they were added, except for the two cases above.
HazardsInOrder ==
  \A i, j \in Node :
    (i < j /\ KeptApart(commands[i], commands[j]) /\ list[j] # Unplaced)
       => (list[i] # Unplaced /\ list[i] < list[j])

=============================================================================
