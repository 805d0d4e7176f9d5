----------------------------- MODULE PoolBarrier -----------------------------
(***************************************************************************)
(* The Barrier of core/thread_pool.cpp (the class that stands in for       *)
(* std::barrier): a counter, a phase, a mutex and a condition variable.    *)
(*                                                                         *)
(* Everything between two waits of arrive_and_wait happens under the       *)
(* mutex, so it is one step here.  cv.wait releases the mutex and blocks   *)
(* in one step; a blocked thread is woken by notify_all, or spuriously,    *)
(* and then has to take the mutex again and to test the phase again.       *)
(***************************************************************************)
EXTENDS Integers, FiniteSets

CONSTANTS
  Thread,      \* the threads that share the barrier, _n of them
  PhaseSize,   \* 2^w for the width w of _phase
  MaxRounds    \* bound: calls per thread

ASSUME ThreadAssumption == IsFiniteSet(Thread) /\ Thread # {}
ASSUME PhaseAssumption == PhaseSize \in Nat \ {0} /\ MaxRounds \in Nat

VARIABLES
  counter,       \* _counter
  phase,         \* _phase
  arrivePhase,   \* arrive_phase of the call a thread is in
  pc,            \* "out", "blocked" in cv.wait, or "woken"
  started, returned   \* history: the calls made and returned from

barrierVars == <<counter, phase, arrivePhase, pc, started, returned>>

Parties == Cardinality(Thread)

BarrierInit ==
  /\ counter = Parties /\ phase = 0
  /\ arrivePhase = [t \in Thread |-> 0]
  /\ pc = [t \in Thread |-> "out"]
  /\ started = [t \in Thread |-> 0] /\ returned = [t \in Thread |-> 0]

\* Mutant: while (_phase < arrive_phase).
MustWaitLess(now, arrived) == now < arrived

\* while (_phase <= arrive_phase): the test under which a thread keeps waiting.
MustWait(now, arrived) == now <= arrived

Call(t) ==
  /\ pc[t] = "out" /\ started[t] < MaxRounds
  /\ started' = [started EXCEPT ![t] = @ + 1]
  /\ arrivePhase' = [arrivePhase EXCEPT ![t] = phase]

\* --_counter leaves more to come: the caller blocks.
ArriveEarly(t) ==
  /\ Call(t)
  /\ counter # 1
  /\ counter' = counter - 1
  /\ pc' = [pc EXCEPT ![t] = "blocked"]
  /\ UNCHANGED <<phase, returned>>

\* Mutant: notify_one instead of notify_all.
ArriveLastNotifyOne(t) ==
  /\ Call(t)
  /\ counter = 1
  /\ counter' = Parties
  /\ phase' = (phase + 1) % PhaseSize
  /\ \E one \in Thread \ {t} :
        pc' = [u \in Thread |-> IF u = t THEN "out"
                               ELSE IF u = one /\ pc[u] = "blocked" THEN "woken" ELSE pc[u]]
  /\ returned' = [returned EXCEPT ![t] = @ + 1]

\* --_counter reaches 0: the next phase begins, everyone blocked is woken, and
\* the caller tests the phase like everyone else.
ArriveLast(t) ==
  /\ Call(t)
  /\ counter = 1
  /\ counter' = Parties
  /\ phase' = (phase + 1) % PhaseSize
  /\ LET stays == MustWait(phase', phase)
     IN /\ pc' = [u \in Thread |-> IF u = t THEN IF stays THEN "blocked" ELSE "out"
                                   ELSE IF pc[u] = "blocked" THEN "woken" ELSE pc[u]]
        /\ returned' = IF stays THEN returned ELSE [returned EXCEPT ![t] = @ + 1]

\* A woken thread has the mutex again: it blocks once more or returns.
BlockAgain(t) ==
  /\ pc[t] = "woken" /\ MustWait(phase, arrivePhase[t])
  /\ pc' = [pc EXCEPT ![t] = "blocked"]
  /\ UNCHANGED <<counter, phase, arrivePhase, started, returned>>

Return(t) ==
  /\ pc[t] = "woken" /\ ~MustWait(phase, arrivePhase[t])
  /\ pc' = [pc EXCEPT ![t] = "out"]
  /\ returned' = [returned EXCEPT ![t] = @ + 1]
  /\ UNCHANGED <<counter, phase, arrivePhase, started>>

SpuriousWakeup(t) ==
  /\ pc[t] = "blocked"
  /\ pc' = [pc EXCEPT ![t] = "woken"]
  /\ UNCHANGED <<counter, phase, arrivePhase, started, returned>>

\* Everybody has made its MaxRounds calls and is out of the last one.
Finished ==
  /\ \A t \in Thread : pc[t] = "out" /\ started[t] = MaxRounds
  /\ UNCHANGED barrierVars

BarrierNext ==
  \/ \E t \in Thread : \/ ArriveEarly(t) \/ ArriveLast(t)
                       \/ BlockAgain(t) \/ Return(t) \/ SpuriousWakeup(t)
  \/ Finished

\* A thread that holds the mutex runs on; nobody has to call, and nothing has
\* to wake up by accident.
BarrierSpec ==
  /\ BarrierInit /\ [][BarrierNext]_barrierVars
  /\ \A t \in Thread : WF_barrierVars(BlockAgain(t) \/ Return(t))

-----------------------------------------------------------------------------
BarrierTypeOK ==
  /\ counter \in 1..Parties
  /\ phase \in 0..(PhaseSize - 1)
  /\ arrivePhase \in [Thread -> 0..(PhaseSize - 1)]
  /\ pc \in [Thread -> {"out", "blocked", "woken"}]
  /\ started \in [Thread -> 0..MaxRounds]
  /\ returned \in [Thread -> 0..MaxRounds]

\* Nobody returns from a round that not everybody has come to.
Round == INSTANCE Lockstep
ImplementsLockstep == Round!Spec

\* No wakeup is lost: a round that everybody has come to is left by everybody,
\* although the threads that were quick may be in the next one already.
EveryoneLeaves ==
  \A k \in 1..MaxRounds :
    (\A t \in Thread : started[t] >= k) ~> (\A t \in Thread : returned[t] >= k)

=============================================================================
