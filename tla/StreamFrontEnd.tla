---------------------------- MODULE StreamFrontEnd ----------------------------
(***************************************************************************)
(* How commands get from a program to the backend (runtime/stream,          *)
(* command_buffer, command_list).  A delegate (the temporary that           *)
(* "stream << command" makes) and a command buffer collect commands; what   *)
(* is not a command (a signal, a wait, a host function, a present, a        *)
(* synchronize) commits what was collected and goes to the backend itself.  *)
(* The lists of one dispatch are a set here: module CommandReorder orders   *)
(* them.                                                                    *)
(***************************************************************************)
EXTENDS Naturals, Sequences, SequencesExt

CONSTANTS Recorder,  \* the delegates and command buffers of a program
          MaxItems   \* bound: commands and marks a program submits

ASSUME FrontEndAssumption == MaxItems \in Nat

VARIABLES
    recorder,  \* of each: its kind, its _command_list, and (history) the first item it got
    items,     \* history: the commands and marks so far, each with the line it belongs to
    backend,   \* history: the calls to the device interface
    recycled,  \* history: how often a command was given back to its pool
    aborted    \* a command buffer was destroyed with commands in it

frontEndVars == <<recorder, items, backend, recycled, aborted>>

Absent == [kind |-> "none"]

FrontEndInit ==
    /\ recorder = [r \in Recorder |-> Absent]
    /\ items = <<>> /\ backend = <<>>
    /\ recycled = [i \in 1 .. MaxItems |-> 0]
    /\ aborted = FALSE

-----------------------------------------------------------------------------
HasRoom == Len(items) < MaxItems
Ticket == Len(items) + 1
LineOf(r) == IF recorder[r].line = 0 THEN Ticket ELSE recorder[r].line
Submit(line, kind) == items' = Append(items, [line |-> line, kind |-> kind])

\* Stream::_dispatch: with a list of several commands and a backend that asks
\* for it the visitor sorts them, and lets go of them before they are recycled;
\* otherwise the destructor of the list recycles them.
Dispatched(list) == IF list = <<>> THEN <<>> ELSE << [kind |-> "commands", set |-> ToSet(list)] >>
RecycleList(list) ==
    recycled' = [i \in 1 .. MaxItems |-> recycled[i] + IF i \in ToSet(list) THEN 1 ELSE 0]

BeginDelegate(r) ==
    /\ HasRoom /\ recorder[r] = Absent
    /\ recorder' = [recorder EXCEPT ![r] = [kind |-> "delegate", line |-> Ticket, list |-> <<Ticket>>]]
    /\ Submit(Ticket, "command")
    /\ UNCHANGED <<backend, recycled, aborted>>

CreateCommandBuffer(r) ==
    /\ recorder[r] = Absent
    /\ recorder' = [recorder EXCEPT ![r] = [kind |-> "buffer", line |-> 0, list |-> <<>>]]
    /\ UNCHANGED <<items, backend, recycled, aborted>>

Records(r) == recorder[r].kind \in {"delegate", "buffer"}

Record(r) ==
    /\ HasRoom /\ Records(r)
    /\ recorder' = [recorder EXCEPT ![r].list = Append(@, Ticket), ![r].line = LineOf(r)]
    /\ Submit(LineOf(r), "command")
    /\ UNCHANGED <<backend, recycled, aborted>>

\* Mutant: commands stay in a list that was dispatched.
EmptiedNot(r) == [recorder EXCEPT ![r].line = LineOf(r)]

\* _commit: the list is moved to the stream.
Emptied(r) == [recorder EXCEPT ![r].list = <<>>, ![r].line = LineOf(r)]

CommitList(r) ==
    /\ Records(r) /\ recorder[r].list # <<>>
    /\ backend' = backend \o Dispatched(recorder[r].list)
    /\ RecycleList(recorder[r].list)
    /\ recorder' = Emptied(r)
    /\ UNCHANGED <<items, aborted>>

CommitAndMark(r) ==
    /\ backend' = Append(backend \o Dispatched(recorder[r].list), [kind |-> "mark", set |-> {Ticket}])
    /\ RecycleList(recorder[r].list)
    /\ recorder' = Emptied(r)

SubmitMark(r) ==
    /\ HasRoom /\ Records(r)
    /\ CommitAndMark(r)
    /\ Submit(LineOf(r), "mark")
    /\ UNCHANGED aborted

\* Directly on the stream.
MarkStream ==
    /\ HasRoom
    /\ backend' = Append(backend, [kind |-> "mark", set |-> {Ticket}])
    /\ Submit(0, "mark")
    /\ UNCHANGED <<recorder, recycled, aborted>>

\* The move constructors.  What is left behind may only be destroyed.
MoveTo(r, q) ==
    /\ Records(r) /\ recorder[q] = Absent
    /\ recorder' = [recorder EXCEPT ![q] = recorder[r],
                                    ![r] = [recorder[r] EXCEPT !.kind = "moved", !.list = <<>>]]
    /\ UNCHANGED <<items, backend, recycled, aborted>>

\* The destructors: a delegate commits, a command buffer has to be empty.
DestroyRecorder(r) ==
    /\ recorder[r].kind # "none"
    /\ recorder' = [recorder EXCEPT ![r] = Absent]
    /\ \/ /\ recorder[r].kind = "buffer" /\ recorder[r].list # <<>>
          /\ aborted' = TRUE
          /\ UNCHANGED <<backend, recycled>>
       \/ /\ recorder[r].kind # "buffer" \/ recorder[r].list = <<>>
          /\ backend' = backend \o Dispatched(recorder[r].list)
          /\ RecycleList(recorder[r].list)
          /\ UNCHANGED aborted
    /\ UNCHANGED items

FrontEndNext ==
    /\ ~aborted
    /\ \/ \E r \in Recorder :
             \/ BeginDelegate(r) \/ CreateCommandBuffer(r) \/ Record(r) \/ CommitList(r)
             \/ SubmitMark(r) \/ DestroyRecorder(r)
             \/ \E q \in Recorder : MoveTo(r, q)
       \/ MarkStream

FrontEndSpec == FrontEndInit /\ [][FrontEndNext]_frontEndVars

-----------------------------------------------------------------------------
\* Where a command is: in the lists of recorders, and in calls to the backend.
Holders(i) == {r \in Recorder : recorder[r].kind # "none" /\ \E k \in DOMAIN recorder[r].list : recorder[r].list[k] = i}
Calls(i) == {k \in DOMAIN backend : i \in backend[k].set}

\* Every command is in one recorder or has reached the backend, once, and has
\* been recycled once if and only if it has; and what came through one recorder,
\* wherever that was moved, reaches the backend in the order of the program,
\* commands of one dispatch apart, so that a signal covers what preceded it.
ReachesBackendInOrder ==
    ~aborted =>
    /\ \A i \in DOMAIN items :
         \/ \E r \in Recorder : Holders(i) = {r} /\ Calls(i) = {} /\ recycled[i] = 0
         \/ \E k \in DOMAIN backend :
               Holders(i) = {} /\ Calls(i) = {k} /\ recycled[i] = (IF items[i].kind = "mark" THEN 0 ELSE 1)
    /\ \A i, j \in DOMAIN items :
         i < j /\ items[i].line = items[j].line /\ Calls(j) # {}
            => \E k \in Calls(i) : \A n \in Calls(j) :
                  k < n \/ (k = n /\ items[i].kind = "command" /\ items[j].kind = "command")
=============================================================================
