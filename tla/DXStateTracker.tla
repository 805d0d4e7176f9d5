--------------------------- MODULE DXStateTracker ---------------------------
(***************************************************************************)
(* The states of D3D12 resources (DXRuntime/ResourceStateTracker) under the *)
(* two passes of LCCmdBuffer::Execute: for every list the commands first    *)
(* record the states they need, then the barriers are emitted, then the     *)
(* commands are encoded and record what they leave.  After the last list    *)
(* every resource goes back to its initial state, which is a readable one   *)
(* for the buffers and textures of a program.                               *)
(*                                                                          *)
(* A command is its kind and the resources it reads and writes: "copy"      *)
(* writes by the copy engine, "kernel" through unordered access, "mesh" is  *)
(* a mesh build, and "build" an accel build: what it has to set is written  *)
(* to the instance buffer by a kernel of its own, and with nothing to set   *)
(* it only reads it.  bindless: it also reads what is in the array.         *)
(***************************************************************************)
EXTENDS Naturals, Sequences

CONSTANTS Tracked,   \* the resources of a program
          Reachable, \* the resources in the bindless array
          InstanceBuffer, \* those of them that hold the instances of an accel
          Lists,     \* the lists of commands a program submits
          MaxLists   \* bound: lists of one Execute

ASSUME TrackerAssumption == Reachable \cup InstanceBuffer \subseteq Tracked /\ MaxLists \in Nat \ {0}

VARIABLES
    list, pc, next, \* the list that is encoded, the pass, and the command that comes next
    done,           \* lists of this Execute so far
    map,            \* stateMap
    actual,         \* the state of a resource on the device
    unsynced        \* written in the state for it by kernels of earlier lists, no barrier since

trackerVars == <<list, pc, next, done, map, actual, unsynced>>

NoEntry == [locked |-> FALSE, last |-> "READ", cur |-> "READ", uav |-> FALSE, present |-> FALSE]

TrackerInit ==
    /\ list = <<>> /\ pc = "idle" /\ next = 1 /\ done = 0
    /\ map = [r \in Tracked |-> NoEntry]
    /\ actual = [r \in Tracked |-> "READ"]
    /\ unsynced = {}

-----------------------------------------------------------------------------
\* st.fence >= fenceCount: a write by a kernel of this list is not given up for
\* a weaker request.
Keeps(entry, lock) == entry.present /\ entry.locked /\ ~lock

\* Mutant: two kernels that write one after the other need no barrier.
NeedsBarrierNever(entry, state) == FALSE

NeedsBarrier(entry, state) == state = "UAV" /\ entry.last = "UAV"

\* RecordState for each resource of a set.
Recorded(m, set, state, lock) ==
    [r \in Tracked |->
        IF r \notin set \/ Keeps(m[r], lock) THEN m[r]
        ELSE [locked |-> lock \/ m[r].locked, last |-> m[r].last, cur |-> state,
              uav |-> NeedsBarrier(m[r], state), present |-> TRUE]]

\* writeStateMap
Writable(m) == {r \in Tracked : m[r].present /\ m[r].cur # "READ"}

\* ExecuteStateMap: the barriers that are emitted, and what is recorded then.
\* A resource whose barrier synchronises earlier unordered writes is Synced.
Synced(m) == {r \in Tracked : m[r].uav \/ m[r].cur # m[r].last}
AfterBarriers(m) == [r \in Tracked |-> [m[r] EXCEPT !.last = m[r].cur, !.uav = FALSE]]
Transitioned(m, a) == [r \in Tracked |-> IF m[r].cur # m[r].last THEN m[r].cur ELSE a[r]]

ClearFence(m) == [r \in Tracked |-> [m[r] EXCEPT !.locked = FALSE]]

-----------------------------------------------------------------------------

\* The resources of the array that are in a state for writing are put back.
BindlessRestored(m) == Writable(m) \cap Reachable

NeedOf(c) == IF c.kind = "copy" THEN "COPY_DEST" ELSE "UAV"

\* A build that has instances to set.
Sets(c) == c.kind = "build" /\ c.writes # {}

\* LCPreProcessVisitor.  What a kernel writes is locked, but for instance buffers.
PreProcessed(c) ==
    LET base == IF c.bindless THEN Recorded(map, BindlessRestored(map), "READ", FALSE) ELSE map
        reads == Recorded(base, c.reads, "READ", FALSE)
        writes == Recorded(reads, c.writes \ InstanceBuffer, NeedOf(c), c.kind = "kernel")
    IN IF c.kind = "build" THEN base
       ELSE Recorded(writes, c.writes \cap InstanceBuffer, NeedOf(c), FALSE)

Begin ==
    /\ pc = "idle" \/ (pc = "more" /\ done < MaxLists)
    /\ list' \in Lists
    /\ pc' = "pre" /\ next' = 1 /\ done' = (IF pc = "idle" THEN 0 ELSE done) + 1
    /\ UNCHANGED <<map, actual, unsynced>>

PreProcess ==
    /\ pc = "pre" /\ next <= Len(list)
    /\ map' = PreProcessed(list[next])
    /\ next' = next + 1
    /\ UNCHANGED <<list, pc, done, actual, unsynced>>

BeforeGrowth(c) == Recorded(map, c.writes, "READ", FALSE)

\* TopAccel::PreProcess with more instances than there is room for: the old
\* instance buffer is copied into a new one, which takes its place.  The barriers
\* of what the list has recorded so far are emitted with those of the copy.
GrowInstances ==
    /\ pc = "pre" /\ next <= Len(list) /\ Sets(list[next])
    /\ LET c == list[next]
           before == BeforeGrowth(c)
       IN /\ map' = [r \in Tracked |->
                        IF r \in c.writes THEN [NoEntry EXCEPT !.last = "COPY_DEST", !.present = TRUE]
                        ELSE AfterBarriers(before)[r]]
          /\ actual' = [r \in Tracked |-> IF r \in c.writes THEN "COPY_DEST"
                                         ELSE Transitioned(before, actual)[r]]
          /\ unsynced' = (unsynced \ Synced(before)) \ c.writes
    /\ next' = next + 1
    /\ UNCHANGED <<list, pc, done>>

UpdateState ==
    /\ pc = "pre" /\ next > Len(list)
    /\ map' = AfterBarriers(map)
    /\ actual' = Transitioned(map, actual)
    /\ unsynced' = unsynced \ Synced(map)
    /\ pc' = "run" /\ next' = 1
    /\ UNCHANGED <<list, done>>

\* TopAccel::Build changes the state of the instance buffer around its kernel,
\* which emits the barriers of everything recorded before it as well.  With
\* nothing to set it records and emits nothing.
BeforeBuild(c) == Recorded(map, c.writes, "UAV", FALSE)
MapFor(c)    == IF Sets(c) THEN AfterBarriers(BeforeBuild(c)) ELSE map
ActualFor(c) == IF Sets(c) THEN Transitioned(BeforeBuild(c), actual) ELSE actual
UnsyncedFor(c) == IF Sets(c) THEN unsynced \ Synced(BeforeBuild(c)) ELSE unsynced

\* What the command records when it is encoded.
Leaves(c) == IF c.kind = "copy" \/ Sets(c) THEN Recorded(MapFor(c), c.writes, "READ", FALSE)
             ELSE MapFor(c)

\* LCCmdVisitor
Run ==
    /\ pc = "run" /\ next <= Len(list)
    /\ LET c == list[next]
           left == Leaves(c)
       IN IF Sets(c)
          THEN /\ map' = AfterBarriers(left)
               /\ actual' = Transitioned(left, ActualFor(c))
               /\ unsynced' = UnsyncedFor(c) \ Synced(left)
          ELSE map' = left /\ UNCHANGED <<actual, unsynced>>
    /\ next' = next + 1
    /\ UNCHANGED <<list, pc, done>>

\* RestoreStateMap
Restored == [r \in Tracked |-> IF map[r].present /\ map[r].last # "READ" THEN "READ" ELSE actual[r]]

Restore ==
    /\ actual' = Restored
    /\ unsynced' = unsynced \ {r \in Tracked : map[r].present /\ map[r].last # "READ"}
    /\ map' = [r \in Tracked |-> NoEntry]

WrittenByKernels ==
    {r \in Tracked : /\ actual[r] = "UAV"
                     /\ \E i \in DOMAIN list : list[i].kind = "kernel" /\ r \in list[i].writes}

\* The end of a list: the next one finds the states as they are.
EndList ==
    /\ pc = "run" /\ next > Len(list)
    /\ unsynced' = unsynced \cup WrittenByKernels
    /\ map' = ClearFence(map)
    /\ pc' = "more"
    /\ UNCHANGED <<list, next, done, actual>>

\* The end of a list with meshes or accels to compact, which is up to their hints
\* and to whether they were built or updated: their sizes are copied after the
\* barriers of what the list has left.
CopySizes ==
    /\ pc = "run" /\ next > Len(list)
    /\ \E i \in DOMAIN list : list[i].kind \in {"mesh", "build"}
    /\ unsynced' = (unsynced \cup WrittenByKernels) \ Synced(map)
    /\ actual' = Transitioned(map, actual)
    /\ map' = ClearFence(AfterBarriers(map))
    /\ pc' = "compact"
    /\ UNCHANGED <<list, next, done>>

\* The builds are waited for with all states restored, and compacted.
Compact ==
    /\ pc = "compact"
    /\ Restore
    /\ pc' = "more"
    /\ UNCHANGED <<list, next, done>>

EndExecute ==
    /\ pc = "more"
    /\ Restore
    /\ pc' = "idle" /\ done' = 0 /\ list' = <<>> /\ next' = 1

TrackerNext == \/ Begin \/ PreProcess \/ GrowInstances \/ UpdateState \/ Run
               \/ EndList \/ CopySizes \/ Compact \/ EndExecute

TrackerSpec == TrackerInit /\ [][TrackerNext]_trackerVars

-----------------------------------------------------------------------------
\* A build writes its instance buffer or only reads it, and nothing else; the
\* other commands that are no kernels have no instance buffer.  The lists of a
\* program are any lists of commands.
TrackedCommand ==
    {c \in [kind : {"copy", "kernel", "build", "mesh"}, reads : SUBSET Tracked,
            writes : SUBSET Tracked, bindless : BOOLEAN] :
       /\ c.kind # "kernel" => ~c.bindless
       /\ c.kind = "mesh" => c.writes = {}
       /\ c.kind = "build" => c.reads \cup c.writes \subseteq InstanceBuffer /\ {} \in {c.reads, c.writes}
       /\ c.kind \in {"copy", "mesh"} => (c.reads \cup c.writes) \cap InstanceBuffer = {}}

ASSUME ListsAssumption == \A l \in Lists : l \in Seq(TrackedCommand)

\* Type invariant.
TrackerTypeOK ==
    /\ pc \in {"idle", "pre", "run", "compact", "more"} /\ done \in 0 .. MaxLists
    /\ map \in [Tracked -> [locked : BOOLEAN, last : {"READ", "COPY_DEST", "UAV"},
                             cur : {"READ", "COPY_DEST", "UAV"}, uav : BOOLEAN, present : BOOLEAN]]
    /\ actual \in [Tracked -> {"READ", "COPY_DEST", "UAV"}]

\* Every barrier names the state the resource is in, and a resource the tracker
\* does not know is in its initial state, as the next Execute, or the queue of
\* another stream, takes for granted.
StatesKnown ==
    \A r \in Tracked : IF map[r].present THEN map[r].last = actual[r] ELSE actual[r] = "READ"

Needs(c) == {<<r, "READ">> : r \in c.reads \cup (IF c.bindless THEN Reachable ELSE {})}
            \cup {<<r, NeedOf(c)>> : r \in c.writes}

\* Some command of the list asks for the state.
Wanted(l, r, state) == \E i \in DOMAIN l : <<r, state>> \in Needs(l[i])

\* The commands of the list agree on the state of r; and if one of them emits
\* barriers between the others, which ends a copy, only one of them writes r.
Settled(l, r) ==
    /\ \A s, t \in {"READ", "COPY_DEST", "UAV"} : Wanted(l, r, s) /\ Wanted(l, r, t) => s = t
    /\ (\E i \in DOMAIN l : Sets(l[i]))
         => \A i, j \in DOMAIN l : r \in l[i].writes \cap l[j].writes => i = j

\* What a command may insist on, whatever the rest of the list does: what a
\* kernel writes is locked, and a build changes the state itself.
Insists(c, r, state) ==
    r \in c.writes /\ state = NeedOf(c) /\ (Sets(c) \/ (c.kind = "kernel" /\ r \notin InstanceBuffer))

\* A command is executed with each of its resources, what it may read through the
\* bindless array included, in the state it needs if the list agrees on it or the
\* command insists on it, and otherwise in no state of an earlier list.
\* A build that sets nothing asks for nothing: it finds its instances readable
\* but for a write by a kernel of an earlier list.
InRequiredState ==
    [][Run =>
        LET c == list[next]
        IN \A need \in Needs(c) :
             LET r == need[1]
                 found == ActualFor(c)[r]
             IN IF c.kind = "build" /\ ~Sets(c)
                THEN Settled(list, r) => (found = "READ" \/ r \in unsynced)
                ELSE /\ Settled(list, r) \/ Insists(c, r, need[2]) => found = need[2]
                     /\ found = "READ" \/ Wanted(list, r, found)]_trackerVars

\* No command of a later list touches what a kernel wrote before a barrier has
\* made the writes visible, but for a build that sets nothing.
WritesSynchronized ==
    [][Run => \A need \in Needs(list[next]) :
          \/ list[next].kind = "build" /\ ~Sets(list[next])
          \/ need[1] \notin UnsyncedFor(list[next])]_trackerVars

\* The copy of the instances finds them readable, and written.
GrowthReadsInstances ==
    [][GrowInstances => \A r \in list[next].writes :
          /\ Transitioned(BeforeGrowth(list[next]), actual)[r] = "READ"
          /\ r \notin unsynced \ Synced(BeforeGrowth(list[next]))]_trackerVars

\* The barriers that are emitted suffice: the tracker knows the states of the
\* device, and every command finds its resources as it needs them.
BarriersSuffice ==
    []StatesKnown /\ InRequiredState /\ WritesSynchronized /\ GrowthReadsInstances
=============================================================================
