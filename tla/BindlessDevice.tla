--------------------------- MODULE BindlessDevice ---------------------------
(***************************************************************************)
(* What the device sees of a bindless array.  The host emplaces and removes *)
(* resources; an update sends to the device what the backend believes has   *)
(* changed: the dirty ranges of core/dirty_range on CUDA and Metal, a map   *)
(* of slots on DirectX, everything that is there on the CPU.  A place is    *)
(* one of the three entries of a slot, <<kind, index>>; what is in it is    *)
(* named by the call that put it there (a resource with its offset or       *)
(* sampler), 0 for nothing.  The same calls are made on all backends.       *)
(***************************************************************************)
EXTENDS Integers, Sequences, FiniteSets

CONSTANTS
    BindlessPlace,   \* the places a program uses
    MaxArrayCalls    \* bound: calls of the program

ASSUME BindlessDeviceAssumption ==
    BindlessPlace \subseteq {"buffer", "tex2d", "tex3d"} \X Nat /\ MaxArrayCalls \in Nat

VARIABLES
    held,        \* _slots of the CPU and CUDA backends, binded of DirectX
    cudaDirty,   \* _buffer_dirty_range, _tex2d_dirty_range, _tex3d_dirty_range
    metalArray,  \* _host_buffer, and _dirty_range
    dxArray,     \* updateMap, and whether the host has crashed
    sent,        \* updates on their way to the device, in order
    shown,       \* the array in the memory of each device
    arrayCalls   \* calls made

arrayVars == <<held, cudaDirty, metalArray, dxArray, sent, shown, arrayCalls>>

Kinds == {p[1] : p \in BindlessPlace}
Slots == {p[2] : p \in BindlessPlace}
Nowhere == [p \in BindlessPlace |-> 0]

-----------------------------------------------------------------------------
\* DirtyRange.
Clean == [offset |-> 0, size |-> 0]

\* Mutant: a range ends at the index that was marked last.
MarkedLast(range, i) ==
    IF range.size = 0 \/ i < range.offset THEN [offset |-> i, size |-> 1]
    ELSE [range EXCEPT !.size = i + 1 - range.offset]

\* Mutant: the last index is counted twice.
MarkedPastEnd(range, i) ==
    IF range.size = 0 THEN [offset |-> i, size |-> 1]
    ELSE LET end   == IF i < range.offset + range.size THEN range.offset + range.size ELSE i + 1
             first == IF i < range.offset THEN i ELSE range.offset
         IN [offset |-> first, size |-> end - first + 1]

Marked(range, i) ==
    IF range.size = 0 THEN [offset |-> i, size |-> 1]
    ELSE LET end   == IF i < range.offset + range.size THEN range.offset + range.size ELSE i + 1
             first == IF i < range.offset THEN i ELSE range.offset
         IN [offset |-> first, size |-> end - first]

Covers(range, i) == i \in range.offset .. range.offset + range.size - 1

-----------------------------------------------------------------------------
BindlessDeviceInit ==
    /\ held = Nowhere
    /\ cudaDirty = [k \in Kinds |-> Clean]
    /\ metalArray = [content |-> Nowhere, dirty |-> Clean]
    /\ dxArray = [changed |-> [i \in {} |-> Nowhere], crashed |-> FALSE]
    /\ sent = <<>>
    /\ shown = [cpu |-> Nowhere, cuda |-> Nowhere, metal |-> Nowhere, dx |-> Nowhere]
    /\ arrayCalls = 0

ArrayCall == arrayCalls < MaxArrayCalls /\ arrayCalls' = arrayCalls + 1

\* TryReturnIndex of DirectX resets the index of the map before it counts down
\* through it: to take something out of a place is to write through null.
Taken(p) == dxArray.crashed \/ held[p] # 0

\* Bind notes the slot as a whole, with the other kinds as they are.
DXBound(p, new) ==
    [changed |-> [i \in DOMAIN dxArray.changed \cup {p[2]} |->
                     IF i = p[2] THEN new ELSE dxArray.changed[i]],
     crashed |-> Taken(p)]

EmplaceInSlot(p) ==
    /\ ArrayCall
    /\ held' = [held EXCEPT ![p] = arrayCalls']
    /\ cudaDirty' = [cudaDirty EXCEPT ![p[1]] = Marked(@, p[2])]
    /\ metalArray' = [content |-> [metalArray.content EXCEPT ![p] = arrayCalls'],
                      dirty |-> Marked(metalArray.dirty, p[2])]
    /\ dxArray' = DXBound(p, held')
    /\ UNCHANGED <<sent, shown>>

\* Nothing is marked: the device keeps what was there.  (On Metal the handles of
\* the slots are never stored, and nothing happens at all.)
RemoveFromSlot(p) ==
    /\ ArrayCall
    /\ held' = [held EXCEPT ![p] = 0]
    /\ dxArray' = [dxArray EXCEPT !.crashed = Taken(p)]
    /\ UNCHANGED <<cudaDirty, metalArray, sent, shown>>

\* The content is copied out of the host's memory when an update is encoded.
SendUpdate ==
    /\ ArrayCall
    /\ sent' = Append(sent, [slots |-> held, cuda |-> cudaDirty, metal |-> metalArray, dx |-> dxArray])
    /\ cudaDirty' = [k \in Kinds |-> Clean]
    /\ metalArray' = [metalArray EXCEPT !.dirty = Clean]
    /\ dxArray' = [dxArray EXCEPT !.changed = [i \in {} |-> Nowhere]]
    /\ UNCHANGED <<held, shown>>

Over(old, new, written) == [p \in BindlessPlace |-> IF p \in written THEN new[p] ELSE old[p]]

\* What the device has after an update: the task of the pool skips empty places,
\* CUDA copies a range for each kind, Metal one of whole slots, DirectX each slot.
CPUItems(update)     == Over(shown.cpu, update.slots, {p \in BindlessPlace : update.slots[p] # 0})
CUDAUploaded(update) == Over(shown.cuda, update.slots,
                             {p \in BindlessPlace : Covers(update.cuda[p[1]], p[2])})
MetalCopied(update)  == Over(shown.metal, update.metal.content,
                             {p \in BindlessPlace : Covers(update.metal.dirty, p[2])})
DXUploaded(update)   == [p \in BindlessPlace |-> IF p[2] \in DOMAIN update.dx.changed
                                                 THEN update.dx.changed[p[2]][p] ELSE shown.dx[p]]

ExecuteUpdate ==
    /\ sent # <<>>
    /\ shown' = [cpu   |-> CPUItems(sent[1]),    cuda |-> CUDAUploaded(sent[1]),
                 metal |-> MetalCopied(sent[1]), dx   |-> DXUploaded(sent[1])]
    /\ sent' = Tail(sent)
    /\ UNCHANGED <<held, cudaDirty, metalArray, dxArray, arrayCalls>>

BindlessDeviceNext ==
    \/ \E p \in BindlessPlace : EmplaceInSlot(p) \/ RemoveFromSlot(p)
    \/ SendUpdate \/ ExecuteUpdate

BindlessDeviceSpec == BindlessDeviceInit /\ [][BindlessDeviceNext]_arrayVars

-----------------------------------------------------------------------------
BindlessDeviceTypeOK ==
    /\ held \in [BindlessPlace -> 0 .. arrayCalls]
    /\ \A b \in DOMAIN shown : shown[b] \in [BindlessPlace -> 0 .. arrayCalls]
    /\ \A k \in Kinds : cudaDirty[k].size > 0 =>
          cudaDirty[k].offset \in Slots /\ cudaDirty[k].offset + cudaDirty[k].size - 1 \in Slots

\* When an update has executed, a kernel finds in every place what the program
\* had last put there before the update, whichever places were changed in
\* between, in whichever order, and whatever the program has changed since.  (On
\* DirectX as long as nothing was ever taken out of a place.)
UpdateShowsTheArray ==
    [][ExecuteUpdate =>
          \A p \in BindlessPlace : LET put == sent[1].slots[p] IN put # 0 =>
              /\ shown'.cpu[p] = put /\ shown'.cuda[p] = put /\ shown'.metal[p] = put
              /\ ~sent[1].dx.crashed => shown'.dx[p] = put]_arrayVars
=============================================================================
