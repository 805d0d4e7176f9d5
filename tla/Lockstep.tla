------------------------------ MODULE Lockstep ------------------------------
(***************************************************************************)
(* What a reusable barrier promises to the threads that share it: nobody   *)
(* returns from a round that not everybody has come to.                    *)
(***************************************************************************)
EXTENDS Naturals

CONSTANT Thread

VARIABLES
  started,    \* started[t]: the calls thread t has made
  returned    \* returned[t]: those that have returned

vars == <<started, returned>>

Init == started = [t \in Thread |-> 0] /\ returned = [t \in Thread |-> 0]

Come(t) ==
  /\ started[t] = returned[t]
  /\ started' = [started EXCEPT ![t] = @ + 1]
  /\ UNCHANGED returned

Leave(t) ==
  /\ returned[t] < started[t]
  /\ \A u \in Thread : returned[t] < started[u]
  /\ returned' = [returned EXCEPT ![t] = @ + 1]
  /\ UNCHANGED started

\* The last thread of a round comes and leaves in one step.
Pass(t) ==
  /\ started[t] = returned[t]
  /\ \A u \in Thread \ {t} : returned[t] < started[u]
  /\ started' = [started EXCEPT ![t] = @ + 1]
  /\ returned' = [returned EXCEPT ![t] = @ + 1]

Next == \E t \in Thread : Come(t) \/ Leave(t) \/ Pass(t)

Spec == Init /\ [][Next]_vars

=============================================================================
