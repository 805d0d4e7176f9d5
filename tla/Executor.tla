------------------------------ MODULE Executor ------------------------------
(***************************************************************************)
(* What a pool of worker threads promises: work is submitted in an order   *)
(* that means nothing by itself, and a fence separates what was submitted  *)
(* before it from what is submitted after it.                              *)
(***************************************************************************)
EXTENDS Naturals, Sequences

VARIABLES
  log,        \* what was submitted: "work" or "fence", in order
  running,    \* the work that has begun
  finished    \* the work that has ended

vars == <<log, running, finished>>

Fenced(l, i, j) == i < j /\ \E f \in (i + 1)..(j - 1) : l[f] = "fence"

\* Work j may begin: all work on the other side of a fence has ended.
MayBegin(l, done, j) ==
  \A i \in DOMAIN l : l[i] = "work" /\ Fenced(l, i, j) => i \in done

Init == log = <<>> /\ running = {} /\ finished = {}

Submit(kind) == log' = Append(log, kind) /\ UNCHANGED <<running, finished>>

Begin(j) ==
  /\ log[j] = "work" /\ j \notin running
  /\ MayBegin(log, finished, j)
  /\ running' = running \cup {j}
  /\ UNCHANGED <<log, finished>>

End(j) ==
  /\ j \in running \ finished
  /\ finished' = finished \cup {j}
  /\ UNCHANGED <<log, running>>

Next ==
  \/ \E kind \in {"work", "fence"} : Submit(kind)
  \/ \E j \in DOMAIN log : Begin(j) \/ End(j)

Spec == Init /\ [][Next]_vars

=============================================================================
