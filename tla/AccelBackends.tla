---------------------------- MODULE AccelBackends ----------------------------
(***************************************************************************)
(* What the backends make of the modifications: the instances each of them  *)
(* gives to Embree (LLVM and ISPC), OptiX, Metal and D3D12.  They run side   *)
(* by side here and get the same commands.  address[m] counts how often the  *)
(* memory of mesh m was allocated anew by a build of the mesh: <<m, k>> is   *)
(* the k-th address, and what refers to an earlier one dangles.              *)
(***************************************************************************)
EXTENDS AccelFrontEnd

CONSTANTS Undefined,    \* what memory that nothing was written to holds
          InstanceSize, \* sizeof(OptixInstance)
          MaxMoves      \* bound: how often a mesh moves

ASSUME BackendAssumption ==
    /\ InstanceSize \in Nat \ {0} /\ MaxMoves \in Nat
    /\ Undefined \notin Mesh \cup Transform \cup Visibility \cup {Unset}
    /\ Unset \notin Mesh \X Nat \* no mesh is at the null address

VARIABLES address, cpu, cuda, metal, dx

accelVars == <<frontVars, calls, address, cpu, cuda, metal, dx>>

Address(m) == <<m, address[m]>>
Blank == [i \in Index |-> Nothing]

AccelInit ==
    /\ FrontInit
    /\ address = [m \in Mesh |-> 1]
    /\ cpu = Blank
    /\ cuda = [bytes |-> 0, buffer |-> Blank, meshes |-> [i \in Index |-> Unset], crashed |-> FALSE]
    /\ metal = [instances |-> Blank, meshes |-> [i \in Index |-> Unset], count |-> 0,
                handles |-> [i \in Index |-> Unset], crashed |-> FALSE]
    /\ dx = [all |-> Blank, map |-> [m \in Mesh |-> {}], set |-> {}, buffer |-> Blank, count |-> 0]

Present(i) == modifications[i] # Nothing
Or(new, old) == IF new = Unset THEN old ELSE new
Apply(mod, old) == Instance(Or(mod.mesh, old.mesh), Or(mod.transform, old.transform),
                            Or(mod.visible, old.visible))

-----------------------------------------------------------------------------
\* Mutant: the visibility is set only when the transform is.
ApplyVisibleWithTransform(mod, old) ==
    Instance(Or(mod.mesh, old.mesh), Or(mod.transform, old.transform),
             IF mod.transform = Unset THEN old.visible ELSE Or(mod.visible, old.visible))

\* LLVM and ISPC: fresh geometries, then the fields with a flag.
ApplyOnCPU(mod, old) == Apply(mod, old)

CPUBuild == [i \in Index |-> IF i > size THEN Nothing ELSE ApplyOnCPU(modifications[i], cpu[i])]

-----------------------------------------------------------------------------
\* CUDA: the instance buffer grows to a power of two of bytes, without its
\* contents.  The addresses of meshes are resolved when the command is built.
NextPow2(n) == CHOOSE p \in {2 ^ k : k \in 0 .. 16} : p >= n /\ (p = 1 \/ p < 2 * n)

Resolved(mod) == [mod EXCEPT !.mesh = IF mod.mesh = Unset THEN Unset ELSE Address(mod.mesh)]
UndefinedInstance == Instance(Undefined, Undefined, Undefined)

\* Mutant: a visibility of off does not clear the mask.
UpdateOnlyOn(mod, old) ==
    [Apply(Resolved(mod), old) EXCEPT !.visible = IF mod.visible = "on" THEN "on" ELSE old.visible]

\* update_instances: the fields with a flag.
UpdateInstance(mod, old) == Apply(Resolved(mod), old)

Grows == cuda.bytes < size * InstanceSize

CUDABuild ==
    LET old == [i \in Index |-> IF Grows \/ i * InstanceSize > cuda.bytes THEN UndefinedInstance
                                ELSE cuda.buffer[i]]
        meshes == [i \in Index |-> IF i > size THEN Unset
                                   ELSE Or(modifications[i].mesh, cuda.meshes[i])]
    IN [bytes |-> IF Grows THEN NextPow2(size * InstanceSize) ELSE cuda.bytes,
        buffer |-> [i \in Index |-> UpdateInstance(modifications[i], old[i])],
        meshes |-> meshes,
        crashed |-> cuda.crashed \/ \E i \in 1 .. size : meshes[i] = Unset] \* _meshes[i]->handle()

-----------------------------------------------------------------------------
\* Metal: the buffer of transforms and masks keeps its contents when it grows;
\* the list of meshes is made again when a mesh, or the handle of one, changed.
MetalMeshes == [i \in Index |-> IF i > size THEN Unset ELSE Or(modifications[i].mesh, metal.meshes[i])]

RequiresBuild ==
    \/ metal.count # size
    \/ \E i \in 1 .. size :
          modifications[i].mesh # Unset \/ metal.handles[i] # Address(MetalMeshes[i])

MetalBuild ==
    LET crash == \E i \in 1 .. size : MetalMeshes[i] = Unset
    IN [instances |-> [i \in Index |-> Apply(modifications[i], metal.instances[i])],
        meshes |-> MetalMeshes, count |-> size,
        handles |-> IF metal.crashed \/ crash \/ ~RequiresBuild THEN metal.handles
                    ELSE [i \in Index |-> IF i > size THEN Unset ELSE Address(MetalMeshes[i])],
        crashed |-> metal.crashed \/ crash]

-----------------------------------------------------------------------------
\* DirectX: allInstance keeps the last modification of every index, with the
\* address of its mesh.  RemoveMesh is called with that address for a mesh and
\* finds nothing, so meshMap only grows.  The kernel writes all fields.
AllInstance(i) ==
    IF i > size THEN Nothing
    ELSE IF ~Present(i) THEN dx.all[i]
    ELSE [Resolved(modifications[i]) EXCEPT !.mesh = Or(@, dx.all[i].mesh)]

Written(entry) == [entry EXCEPT !.visible = IF @ = "on" THEN "on" ELSE "off"]

DXBuild ==
    LET all == [i \in Index |-> AllInstance(i)]
    IN [all |-> all,
        map |-> [m \in Mesh |-> dx.map[m] \cup {i \in 1 .. size : modifications[i].mesh = m}],
        set |-> {},
        count |-> size,
        buffer |-> [i \in Index |-> IF i <= size /\ (Present(i) \/ i \in dx.set)
                                    THEN Written(all[i]) ELSE dx.buffer[i]]]

\* SyncTopAccel and UpdateMesh.  An index that is no longer in allInstance is
\* written behind its end, in memory the vector keeps and nobody reads.
DXMove(m) ==
    LET told == dx.map[m] \cap 1 .. dx.count
    IN [dx EXCEPT !.all = [i \in Index |-> IF i \in told
                                           THEN [dx.all[i] EXCEPT !.mesh = <<m, address[m] + 1>>]
                                           ELSE dx.all[i]],
                  !.set = @ \cup told]

-----------------------------------------------------------------------------
Build ==
    /\ TakeModifications
    /\ cpu' = CPUBuild /\ cuda' = CUDABuild /\ metal' = MetalBuild /\ dx' = DXBuild
    /\ UNCHANGED address

\* A build of a mesh that needs more memory than the mesh has (CUDA, DirectX) or
\* makes a new structure (Metal).  The scenes of Embree stay where they are.
MoveMesh(m) ==
    /\ Called /\ address[m] <= MaxMoves
    /\ address' = [address EXCEPT ![m] = @ + 1]
    /\ dx' = DXMove(m)
    /\ UNCHANGED <<frontVars, cpu, cuda, metal>>

AccelNext ==
    \/ Edit /\ UNCHANGED <<address, cpu, cuda, metal, dx>>
    \/ Build
    \/ \E m \in Mesh : MoveMesh(m)

AccelSpec == AccelInit /\ [][AccelNext]_accelVars

-----------------------------------------------------------------------------
\* Type invariant, for the host and for what the properties read.
AccelTypeOK ==
    /\ FrontTypeOK
    /\ address \in [Mesh -> 1 .. MaxMoves + 1]
    /\ cpu \in [Index -> [mesh : Mesh \cup {Unset}, transform : Transform \cup {Unset},
                          visible : Visibility \cup {Unset}]]
    /\ dx.set \subseteq 1 .. dx.count

\* A command changes no instance behind its count, whatever was emplaced, set
\* and popped before it: the backends index their arrays with it unchecked.
CommandsInRange == \A i \in Index : i > size => modifications[i] = Nothing

SameButMesh(shown, i) ==
    shown.transform = scene[i].transform /\ shown.visible = scene[i].visible

\* On the CPU a build shows the scene the program described since it made the
\* accel, but for meshes the host dropped (set() with the mesh of a pending edit);
\* and the instances it indexes are there.
CPUBuildsTheScene ==
    /\ []CommandsInRange
    /\ [][Build => \A i \in 1 .. size :
            SameButMesh(cpu'[i], i) /\ (i \notin lost => cpu'[i].mesh = scene[i].mesh)]_accelVars

\* On CUDA an instance is never shown with another mesh or transform than the
\* program's: what is wrong is undefined (lost when the buffer grew) or dangles.
CUDAShowsNoOther ==
    [][Build => \A i \in 1 .. size :
          /\ cuda'.buffer[i].transform \in {scene[i].transform, Undefined}
          /\ cuda'.buffer[i].visible \in {scene[i].visible, Undefined}
          /\ i \notin lost => cuda'.buffer[i].mesh \in
                {<<scene[i].mesh, k>> : k \in 1 .. address[scene[i].mesh]} \cup {Undefined}]_accelVars

\* On Metal a build shows the scene, with the meshes where they are now.
MetalBuildsTheScene ==
    [][Build /\ ~metal'.crashed => \A i \in 1 .. size :
          /\ SameButMesh(metal'.instances[i], i)
          /\ i \notin lost => metal'.handles[i] = Address(scene[i].mesh)]_accelVars

\* On DirectX no instance that is built refers to memory a mesh has left, although
\* the map of the meshes' instances is never cleaned.
DXNothingDangles ==
    [][Build => \A i \in 1 .. size :
          dx'.buffer[i].mesh = Unset \/ \E m \in Mesh : dx'.buffer[i].mesh = Address(m)]_accelVars

\* What the three GPU backends keep of the scene.
GPUBuildsTheScene == CUDAShowsNoOther /\ MetalBuildsTheScene /\ DXNothingDangles

\* Not kept by the code: on DirectX an instance the program left visible is.  (A
\* modification that sets the transform alone writes a mask of zero.)
DXShowsTheVisible ==
    [][Build => \A i \in 1 .. size : dx'.buffer[i].visible = scene[i].visible]_accelVars
=============================================================================
