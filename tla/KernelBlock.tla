----------------------------- MODULE KernelBlock -----------------------------
(***************************************************************************)
(* A dispatch on the CPU backend (backends/llvm): the threads of the pool   *)
(* draw blocks from a counter and call the entry of the kernel for each,    *)
(* which runs the lanes of the block one after the other.  A kernel that    *)
(* calls synchronize_block() is compiled to a coroutine: it suspends there  *)
(* and goes on in the next round over the lanes.  Between two calls of      *)
(* synchronize_block() a lane writes its element of the shared memory, a    *)
(* row for each such part of the kernel, and may read the rows before.      *)
(***************************************************************************)
EXTENDS Naturals, FiniteSets

CONSTANTS Runner,       \* the threads of the pool
          BlockSize, DispatchSize,
          KernelShapes,      \* for each: is it a coroutine, and how often does each thread synchronize?
          MaxSyncs      \* bound: how often a thread synchronizes

ASSUME KernelAssumption ==
    /\ BlockSize \in Nat \ {0} /\ DispatchSize \in Nat \ {0} /\ MaxSyncs \in Nat
    /\ IsFiniteSet(Runner)
    /\ KernelShapes \subseteq [coroutine : BOOLEAN, syncs : [0 .. DispatchSize - 1 -> 0 .. MaxSyncs]]
    /\ \A k \in KernelShapes : k.coroutine \/ \A i \in DOMAIN k.syncs : k.syncs[i] = 0

VARIABLES
    kernel,
    counter,   \* the next block to be drawn
    runner,    \* what a thread is doing
    parts,     \* history: how many parts of the kernel a lane of a block has run
    shared,    \* the shared memory: the block that wrote an element of a row last
    alongside, \* history: the blocks that ran while a block ran
    fault      \* "trap" or "undefined" when a coroutine is resumed that has ended

kernelVars == <<kernel, counter, runner, parts, shared, alongside, fault>>

Lane == 0 .. BlockSize - 1
GridSize == (DispatchSize + BlockSize - 1) \div BlockSize
Block == 0 .. GridSize - 1

DispatchId(b, l) == b * BlockSize + l
ValidThread(b, l) == DispatchId(b, l) < DispatchSize
Lanes(b) == {l \in Lane : ValidThread(b, l)}
Syncs(b, l) == kernel.syncs[DispatchId(b, l)]

KernelInit ==
    /\ kernel \in KernelShapes /\ counter = 0
    /\ runner = [r \in Runner |-> [at |-> "draw"]]
    /\ parts = [b \in Block |-> [l \in Lane |-> 0]]
    /\ shared = [l \in Lane |-> [k \in 0 .. MaxSyncs |-> GridSize]]
    /\ alongside = [b \in Block |-> {}]
    /\ fault = "none"

-----------------------------------------------------------------------------
Running == {runner[r].block : r \in {q \in Runner : runner[q].at = "run"}}

DrawBlock(r) ==
    /\ runner[r].at = "draw"
    /\ counter' = counter + 1
    /\ \/ /\ counter < GridSize
          /\ runner' = [runner EXCEPT ![r] = [at |-> "run", block |-> counter, lane |-> 0,
                            allDone |-> TRUE, states |-> [l \in Lane |-> "null"]]]
          /\ alongside' = [b \in Block |-> alongside[b] \cup (IF b = counter THEN Running
                                             ELSE IF b \in Running THEN {counter} ELSE {})]
       \/ /\ counter >= GridSize
          /\ runner' = [runner EXCEPT ![r] = [at |-> "gone"]]
          /\ UNCHANGED alongside
    /\ UNCHANGED <<kernel, parts, shared, fault>>

At(r, l) == runner[r].at = "run" /\ runner[r].lane = l

\* Mutant: a lane that is not done is taken up again at once.
NextRoundAtOnce(here, l) ==
    IF here.states[l] = "suspended" THEN here
    ELSE IF l + 1 < BlockSize THEN [here EXCEPT !.lane = l + 1, !.allDone = TRUE]
    ELSE [at |-> "draw"]

\* loop.update and loop.out: the next lane, the next round, or the end.
NextLane(here, l) ==
    IF l + 1 < BlockSize THEN [here EXCEPT !.lane = l + 1]
    ELSE IF kernel.coroutine /\ ~here.allDone THEN [here EXCEPT !.lane = 0, !.allDone = TRUE]
    ELSE [at |-> "draw"]

SkipLane(r, l) ==
    /\ At(r, l) /\ ~ValidThread(runner[r].block, l)
    /\ runner' = [runner EXCEPT ![r] = NextLane(@, l)]
    /\ UNCHANGED <<kernel, counter, parts, shared, alongside, fault>>

\* The next part of the kernel: it writes its element of the part's row.
RunPart(b, l) ==
    /\ parts' = [parts EXCEPT ![b][l] = @ + 1]
    /\ shared' = [shared EXCEPT ![l][parts[b][l]] = b]

IsDone(b, l) == parts[b][l] = Syncs(b, l) \* after the part that runs now

AfterCall(here, l, state) == [here EXCEPT !.states[l] = state, !.allDone = FALSE]

CallKernel(r, l) ==
    /\ At(r, l) /\ ValidThread(runner[r].block, l) /\ runner[r].states[l] = "null"
    /\ LET b == runner[r].block
           state == IF ~kernel.coroutine THEN "null"
                    ELSE IF IsDone(b, l) THEN "final" ELSE "suspended"
       IN /\ RunPart(b, l)
          /\ runner' = [runner EXCEPT ![r] = NextLane(AfterCall(@, l, state), l)]
    /\ UNCHANGED <<kernel, counter, alongside, fault>>

AfterResume(here, l, done) ==
    [here EXCEPT !.states[l] = IF done THEN "destroyed" ELSE "suspended",
                 !.allDone = here.allDone /\ done]

\* coro.resume, coro.done, and coro.destroy when it is.
ResumeKernel(r, l) ==
    /\ At(r, l) /\ ValidThread(runner[r].block, l) /\ runner[r].states[l] = "suspended"
    /\ LET b == runner[r].block
           done == IsDone(b, l)
       IN /\ RunPart(b, l)
          /\ runner' = [runner EXCEPT ![r] = NextLane(AfterResume(@, l, done), l)]
    /\ UNCHANGED <<kernel, counter, alongside, fault>>

\* The coroutine is at its final suspension (coro.trap), or its frame is freed.
ResumeEnded(r, l) ==
    /\ At(r, l) /\ ValidThread(runner[r].block, l)
    /\ runner[r].states[l] \in {"final", "destroyed"}
    /\ fault' = IF runner[r].states[l] = "final" THEN "trap" ELSE "undefined"
    /\ UNCHANGED <<kernel, counter, runner, parts, shared, alongside>>

KernelNext ==
    /\ fault = "none"
    /\ \E r \in Runner :
          \/ DrawBlock(r)
          \/ \E l \in Lane : \/ SkipLane(r, l) \/ CallKernel(r, l)
                             \/ ResumeKernel(r, l) \/ ResumeEnded(r, l)

KernelSpec == KernelInit /\ [][KernelNext]_kernelVars

-----------------------------------------------------------------------------
KernelTypeOK ==
    /\ kernel \in KernelShapes /\ counter \in 0 .. GridSize + Cardinality(Runner) /\ fault \in {"none", "trap", "undefined"}
    /\ \A r \in Runner : runner[r].at = "run" =>
         /\ runner[r].block \in Block /\ runner[r].lane \in Lane
         /\ \A l \in Lane : runner[r].states[l] \in {"null", "suspended", "final", "destroyed"}

\* The lanes of a block all synchronize, and equally often.
InStep(b) == \A l, m \in Lanes(b) : Syncs(b, l) = Syncs(b, m) /\ Syncs(b, l) > 0

Passed(b, l)   == IF parts[b][l] = 0 THEN 0 ELSE parts[b][l] - 1
Arrived(b, l)  == IF parts[b][l] <= Syncs(b, l) THEN parts[b][l] ELSE Syncs(b, l)

\* synchronize_block() is a barrier: no lane is past it before all lanes of the
\* block have arrived, and coroutines that end together are not resumed again.
\* A kernel faults only if the lanes of a block do not synchronize equally
\* often, a kernel whose one synchronize_block() no lane reaches included; and
\* no lane of a block that has ended is left in a coroutine.
SyncIsABarrier ==
    /\ \A b \in Block : InStep(b) => \A l, m \in Lanes(b) : Passed(b, l) <= Arrived(b, m)
    /\ fault # "none" => \E b \in Block : parts[b][0] > 0 /\ ~InStep(b)
    /\ \A b \in Block : b < counter /\ b \notin Running
          => \A l \in Lanes(b) : parts[b][l] = Syncs(b, l) + 1

\* A part of the kernel reads in the row before it what its own block wrote, or
\* a block that ran at the same time: all blocks of a dispatch have the same
\* shared memory.
SharedFromOverlapping ==
    [][\A r \in Runner, l \in Lane : ResumeKernel(r, l) =>
          LET b == runner[r].block
          IN InStep(b) => \A m \in Lanes(b) : shared[m][parts[b][l] - 1] \in {b} \cup alongside[b]]_kernelVars
=============================================================================
