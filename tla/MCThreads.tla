------------------------------ MODULE MCThreads ------------------------------
(***************************************************************************)
(* One model-checking instance for the barrier on its own and for the       *)
(* thread pool: part is chosen in the initial state, and the other part     *)
(* stays as it began.                                                       *)
(***************************************************************************)
EXTENDS ThreadPool, PoolBarrier

VARIABLE part

ThreadsInit == part \in {"pool", "barrier"} /\ Init /\ BarrierInit

InPool    == part = "pool" /\ UNCHANGED <<part, barrierVars>>
InBarrier == part = "barrier" /\ UNCHANGED <<part, vars>>

ThreadsNext ==
    \/ \E h \in Host :
          \/ InPool /\ HostCall(h)
          \/ InPool /\ Push(h)
          \/ InPool /\ NotifyOne(h)
          \/ InPool /\ NotifyAll(h)
          \/ InPool /\ HostArrive(h)
          \/ InPool /\ HostLeave(h)
          \/ InPool /\ NotifyStop(h)
          \/ InPool /\ Join(h)
    \/ \E w \in Worker :
          \/ InPool /\ Take(w)
          \/ InPool /\ Sleep(w)
          \/ InPool /\ Exit(w)
          \/ InPool /\ Draw(w)
          \/ InPool /\ EndCall(w)
          \/ InPool /\ Uncount(w)
          \/ InPool /\ WorkerArrive(w)
          \/ InPool /\ WorkerLeave(w)
          \/ InPool /\ WorkerSpuriousWakeup(w)
    \/ InPool /\ Gone
    \/ \E t \in Thread :
          \/ InBarrier /\ ArriveEarly(t)
          \/ InBarrier /\ ArriveLast(t)
          \/ InBarrier /\ BlockAgain(t)
          \/ InBarrier /\ Return(t)
          \/ InBarrier /\ SpuriousWakeup(t)
    \/ InBarrier /\ Finished

threadsVars == <<part, vars, barrierVars>>

\* The fairness of both parts.
ThreadsSpec ==
    /\ ThreadsInit /\ [][ThreadsNext]_threadsVars
    /\ \A h \in Host : WF_threadsVars(InPool /\ Continue(h))
    /\ \A w \in Worker : WF_threadsVars(InPool /\ WorkerStep(w))
    /\ \A t \in Thread : WF_threadsVars(InBarrier /\ (BlockAgain(t) \/ Return(t)))

-----------------------------------------------------------------------------
\* The type invariants of the parts.
ThreadsTypeOK == TypeOK /\ BarrierTypeOK
=============================================================================
