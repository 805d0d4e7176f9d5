---------------------------- MODULE CommandOrder ----------------------------
(***************************************************************************)
(* What a reorderer of commands promises: the commands recorded into a     *)
(* stream are handed to the device as a sequence of lists, the commands of *)
(* one list may run concurrently, and two commands that must not be        *)
(* exchanged are in two lists, in the order in which they were recorded.   *)
(*                                                                         *)
(* batch is the sequence of commands recorded and not yet handed over,     *)
(* list[i] the number of the list that command i was placed in, counted    *)
(* from 0, or Unplaced.                                                    *)
(***************************************************************************)
EXTENDS Integers, Sequences

CONSTANTS
  Command,      \* the commands that may be recorded
  MustPrecede   \* <<first, second>>: recorded in this order, run in this order

VARIABLES batch, list

vars == <<batch, list>>

\* The list number of a command that is in no list yet.
Unplaced == -1

Placed(l, i) == l[i] # Unplaced

\* l is a placement of b in which no pair of MustPrecede is exchanged or
\* shares a list, and no command is placed before one it must follow.
OrderKept(b, l) ==
  \A i, j \in DOMAIN b :
     (i < j /\ <<b[i], b[j]>> \in MustPrecede /\ Placed(l, j)) =>
        (Placed(l, i) /\ l[i] < l[j])

Init == batch = <<>> /\ list = <<>>

\* One more command is recorded, or none, and some commands are placed; what
\* has been placed is never moved.
Advance ==
  /\ batch' = batch \/ \E c \in Command : batch' = Append(batch, c)
  /\ Len(list') = Len(batch')
  /\ \A i \in DOMAIN list : Placed(list, i) => list'[i] = list[i]
  /\ OrderKept(batch', list')

\* The lists go to the device: every recorded command must be in one.
HandOver ==
  /\ \A i \in DOMAIN batch : Placed(list, i)
  /\ batch' = <<>> /\ list' = <<>>

Next == Advance \/ HandOver

Spec == Init /\ [][Next]_vars

=============================================================================
