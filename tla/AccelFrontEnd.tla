---------------------------- MODULE AccelFrontEnd ----------------------------
(***************************************************************************)
(* The host side of an acceleration structure (rtx/accel.cpp).  The program *)
(* edits a list of instances; the edits are collected as one modification   *)
(* for each index and handed to the backend by build().  A modification     *)
(* says which of mesh, transform and visibility it sets (its flags): the    *)
(* others are Unset, and an index with nothing pending has all three Unset. *)
(* Indices start at 1.                                                      *)
(***************************************************************************)
EXTENDS Naturals

CONSTANTS Mesh, Transform, Unset,
          MaxInstances, \* bound: instances of the accel
          MaxEdits      \* bound: calls a program makes

ASSUME AccelAssumption ==
    /\ Unset \notin Mesh \cup Transform \cup {"on", "off"}
    /\ MaxInstances \in Nat /\ MaxEdits \in Nat

VARIABLES
    size, meshHandles, \* _mesh_handles: its length and entries
    modifications,     \* _modifications
    scene,             \* history: the instances the program described
    lost,              \* history: instances whose mesh was taken out of the pending modification
    calls              \* history: calls made

frontVars == <<size, meshHandles, modifications, scene, lost>>

Index == 1 .. MaxInstances
Visibility == {"on", "off"}

Instance(mesh, transform, visible) ==
    [mesh |-> mesh, transform |-> transform, visible |-> visible]
Nothing == Instance(Unset, Unset, Unset)

FrontInit ==
    /\ size = 0 /\ meshHandles = [i \in Index |-> Unset]
    /\ modifications = [i \in Index |-> Nothing]
    /\ scene = [i \in Index |-> Nothing]
    /\ lost = {} /\ calls = 0

Called == calls < MaxEdits /\ calls' = calls + 1

EmplaceBack(mesh, transform, visible) ==
    /\ Called /\ size < MaxInstances
    /\ size' = size + 1
    /\ meshHandles' = [meshHandles EXCEPT ![size + 1] = mesh]
    /\ modifications' = [modifications EXCEPT ![size + 1] = Instance(mesh, transform, visible)]
    /\ scene' = [scene EXCEPT ![size + 1] = Instance(mesh, transform, visible)]
    /\ lost' = lost \ {size + 1}

\* _modifications.erase(n - 1)
Erased == size

PopBack ==
    /\ Called /\ size > 0
    /\ size' = size - 1
    /\ meshHandles' = [meshHandles EXCEPT ![size] = Unset]
    /\ modifications' = [i \in Index |-> IF i = Erased THEN Nothing ELSE modifications[i]]
    /\ scene' = [scene EXCEPT ![size] = Nothing]
    /\ lost' = lost \ {size}

\* set: a new modification takes the place of the pending one.  The mesh is not
\* in it when the handle is the one the host knows, sent or not.
Set(i, mesh, transform, visible) ==
    /\ Called /\ i <= size
    /\ LET known == mesh = meshHandles[i]
       IN /\ modifications' = [modifications EXCEPT ![i] =
                                 Instance(IF known THEN Unset ELSE mesh, transform, visible)]
          /\ lost' = IF ~known THEN lost \ {i}
                     ELSE IF modifications[i].mesh # Unset THEN lost \cup {i} ELSE lost
    /\ meshHandles' = [meshHandles EXCEPT ![i] = mesh]
    /\ scene' = [scene EXCEPT ![i] = Instance(mesh, transform, visible)]
    /\ UNCHANGED size

\* set_transform_on_update and set_visibility_on_update add to what is pending.
SetTransform(i, transform) ==
    /\ Called /\ i <= size
    /\ modifications' = [modifications EXCEPT ![i].transform = transform]
    /\ scene' = [scene EXCEPT ![i].transform = transform]
    /\ UNCHANGED <<size, meshHandles, lost>>

SetVisibility(i, visible) ==
    /\ Called /\ i <= size
    /\ modifications' = [modifications EXCEPT ![i].visible = visible]
    /\ scene' = [scene EXCEPT ![i].visible = visible]
    /\ UNCHANGED <<size, meshHandles, lost>>

\* build: the command holds the size and what is pending, which is cleared.
TakeModifications ==
    /\ Called /\ size > 0
    /\ modifications' = [i \in Index |-> Nothing]
    /\ UNCHANGED <<size, meshHandles, scene, lost>>

Edit ==
    \/ \E m \in Mesh, t \in Transform, v \in Visibility :
          EmplaceBack(m, t, v) \/ \E i \in Index : Set(i, m, t, v)
    \/ PopBack
    \/ \E i \in Index : \/ \E t \in Transform : SetTransform(i, t)
                        \/ \E v \in Visibility : SetVisibility(i, v)

FrontTypeOK ==
    LET Edited == [mesh : Mesh \cup {Unset}, transform : Transform \cup {Unset},
                      visible : Visibility \cup {Unset}]
    IN /\ size \in 0 .. MaxInstances
       /\ meshHandles \in [Index -> Mesh \cup {Unset}]
       /\ modifications \in [Index -> Edited] /\ scene \in [Index -> Edited]
       /\ lost \subseteq Index /\ calls \in Nat
=============================================================================
