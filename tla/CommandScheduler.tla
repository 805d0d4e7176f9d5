-------------------------- MODULE CommandScheduler --------------------------
(***************************************************************************)
(* CommandScheduler (runtime/command_scheduler.{h,cpp}): commands are added *)
(* one at a time; each gets an edge from every pending command it depends  *)
(* on, and once the window is full the commands without dependency become  *)
(* the next list.  schedule() drains what is left.                         *)
(*                                                                         *)
(* Nodes are numbered from 1.  The order within _free_nodes is the order   *)
(* within a list, whose commands may run concurrently: free is a set.      *)
(***************************************************************************)
EXTENDS Integers, Sequences, FiniteSets

CONSTANTS
  Command,      \* the commands that may be added
  Depends,      \* <<new, old>>: the visit of new finds that it depends on old
  WindowSize,   \* _window_size
  MaxCommands   \* bound: commands added between two calls of schedule()

ASSUME CommandAssumption == Depends \subseteq Command \X Command
ASSUME WindowAssumption == WindowSize \in Nat /\ MaxCommands \in Nat

VARIABLES
  commands,   \* _commands
  edges,      \* edges[i]: the nodes that depend on node i
  count,      \* _dependency_count
  pending,    \* _pending_nodes
  free,       \* _free_nodes
  list,       \* list[i]: the number of the command list of node i
  lists,      \* the number of command lists made so far
  total,      \* the sum of their sizes
  draining    \* schedule() is running

vars == <<commands, edges, count, pending, free, list, lists, total, draining>>

Unplaced == -1
Node == DOMAIN commands

Init ==
  /\ commands = <<>> /\ edges = <<>> /\ count = <<>> /\ list = <<>>
  /\ pending = {} /\ free = {} /\ lists = 0 /\ total = 0
  /\ draining = FALSE

\* The edges into node i from the free nodes f.
Released(e, f, i) == {j \in f : i \in e[j]}

\* Mutant: the swapped-out nodes are not cleared and are scheduled again.
ScheduleStepUncleared(cnt, e, pnd, f, l) ==
  LET left == [i \in DOMAIN cnt |-> cnt[i] - Cardinality(Released(e, f, i))]
  IN /\ list' = [i \in DOMAIN l |-> IF i \in f THEN lists ELSE l[i]]
     /\ pending' = pnd \ f
     /\ count' = left
     /\ free' = f \cup {i \in DOMAIN cnt : Released(e, f, i) # {} /\ left[i] = 0}
     /\ lists' = lists + 1
     /\ total' = total + Cardinality(f)

\* Mutant: a node is released by the first of its dependencies to go.
ScheduleStepEager(cnt, e, pnd, f, l) ==
  LET left == [i \in DOMAIN cnt |-> cnt[i] - Cardinality(Released(e, f, i))]
  IN /\ list' = [i \in DOMAIN l |-> IF i \in f THEN lists ELSE l[i]]
     /\ pending' = pnd \ f
     /\ count' = left
     /\ free' = {i \in DOMAIN cnt : Released(e, f, i) # {}}
     /\ lists' = lists + 1
     /\ total' = total + Cardinality(f)

\* _schedule_step on the counts, edges, pending and free nodes it finds: the
\* free nodes form a list, and a node becomes free when the last of the
\* dependencies counted for it goes.
ScheduleStep(cnt, e, pnd, f, l) ==
  LET left == [i \in DOMAIN cnt |-> cnt[i] - Cardinality(Released(e, f, i))]
  IN /\ list' = [i \in DOMAIN l |-> IF i \in f THEN lists ELSE l[i]]
     /\ pending' = pnd \ f
     /\ count' = left
     /\ free' = {i \in DOMAIN cnt : Released(e, f, i) # {} /\ left[i] = 0}
     /\ lists' = lists + 1
     /\ total' = total + Cardinality(f)

\* add: the dependencies on the pending commands, the new node, and one step
\* when the window is full.
Add(c) ==
  /\ ~draining
  /\ Len(commands) < MaxCommands
  /\ LET n    == Len(commands) + 1
         deps == {i \in pending : <<c, commands[i]>> \in Depends}
         e    == [i \in 1..n |-> IF i = n THEN {}
                                 ELSE IF i \in deps THEN edges[i] \cup {n} ELSE edges[i]]
         cnt  == [i \in 1..n |-> IF i = n THEN Cardinality(deps) ELSE count[i]]
         l    == [i \in 1..n |-> IF i = n THEN Unplaced ELSE list[i]]
         pnd  == pending \cup {n}
         f    == IF deps = {} THEN free \cup {n} ELSE free
     IN /\ commands' = Append(commands, c)
        /\ edges' = e
        /\ IF Cardinality(pnd) >= WindowSize
           THEN ScheduleStep(cnt, e, pnd, f, l)
           ELSE /\ list' = l /\ pending' = pnd /\ count' = cnt /\ free' = f
                /\ UNCHANGED <<lists, total>>
  /\ UNCHANGED draining

\* schedule: called, looping, returning.
Schedule ==
  /\ ~draining
  /\ draining' = TRUE
  /\ UNCHANGED <<commands, edges, count, pending, free, list, lists, total>>

\* Mutant: the drain stops as soon as the window is no longer full.
DrainStepFullWindow ==
  /\ draining /\ Cardinality(pending) >= WindowSize
  /\ ScheduleStep(count, edges, pending, free, list)
  /\ UNCHANGED <<commands, edges, draining>>

DrainStep ==
  /\ draining /\ pending # {}
  /\ ScheduleStep(count, edges, pending, free, list)
  /\ UNCHANGED <<commands, edges, draining>>

Return ==
  /\ draining /\ pending = {}
  /\ commands' = <<>> /\ edges' = <<>> /\ count' = <<>> /\ list' = <<>>
  /\ pending' = {} /\ free' = {} /\ lists' = 0 /\ total' = 0
  /\ draining' = FALSE

Next == (\E c \in Command : Add(c)) \/ Schedule \/ DrainStep \/ Return

\* schedule() runs to its end once called; nobody has to add or to call it.
Spec == Init /\ [][Next]_vars /\ WF_vars(DrainStep \/ Return)

-----------------------------------------------------------------------------
TypeOK ==
  /\ commands \in Seq(Command)
  /\ edges \in [Node -> SUBSET Node]
  /\ count \in [Node -> Nat]
  /\ list \in [Node -> Int]
  /\ pending \in SUBSET Node /\ free \in SUBSET Node
  /\ lists \in Nat /\ total \in Nat
  /\ draining \in BOOLEAN

\* The assertion of schedule(): when every node is scheduled, the lists hold
\* as many commands as were added (none twice, none lost).
CommandCountMatches == (draining /\ pending = {}) => total = Len(commands)

\* A step of the window or of the drain always makes a list of at least one
\* command, so the loop of schedule() cannot spin: among the pending commands
\* some are free.
SomeFree == pending # {} => free # {}

\* Two dependent commands are in two lists, in the order they were added.
DependenciesInOrder ==
  \A i, j \in Node :
    (i < j /\ <<commands[j], commands[i]>> \in Depends /\ list[j] # Unplaced)
       => (list[i] # Unplaced /\ list[i] < list[j])

\* The scheduler implements the reorderer of CommandOrder for its own
\* dependency relation.
Order == INSTANCE CommandOrder
           WITH batch <- commands,
                MustPrecede <- {<<d[2], d[1]>> : d \in Depends}

ImplementsCommandOrder == Order!Spec

\* Every call of schedule() returns.
ScheduleReturns == draining ~> ~draining

=============================================================================
