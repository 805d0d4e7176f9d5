---------------------------- MODULE MetalStream ----------------------------
(***************************************************************************)
(* The streams and events of the Metal backend (backends/metal/metal_stream, *)
(* metal_event, metal_mesh, metal_device).  A call puts its work into command *)
(* buffers of the stream's queue; a semaphore and the queue itself bound how  *)
(* many are under way, and completion handlers copy downloads out, run host   *)
(* functions and release the semaphore.  Events have no lock: one host thread *)
(* makes all calls.                                                           *)
(***************************************************************************)
EXTENDS Naturals, Sequences

CONSTANTS MetalQueue,        \* the streams
          MetalEvent,
          Signallers,        \* the pairs <<stream, event>> a program signals
          MaxCommandBuffers, \* of a queue
          MaxDispatches      \* bound: calls a program makes

ASSUME MetalAssumption ==
    /\ MetalQueue # {} /\ Signallers \subseteq MetalQueue \X MetalEvent
    /\ MaxCommandBuffers \in Nat \ {0} /\ MaxDispatches \in Nat

VARIABLES
    caller,       \* what the host thread is doing
    committed,    \* the command buffers of a stream, in order of their commit
    executed, completed, \* how many of them are executed, and have had their handlers run
    semaphore, last,     \* _sem and _last of a stream (0 for nullptr)
    eventCounter, signalers, \* _counter and _signalers of an event
    eventValue,   \* what the device last set the event to
    lastSignal,   \* history: the last command buffer that signals an event
    dispatches    \* history: calls made

metalVars == <<caller, committed, executed, completed, semaphore, last, eventCounter, signalers,
               eventValue, lastSignal, dispatches>>

Idle == [at |-> "idle"]
NoBuffer == [queue |-> CHOOSE s \in MetalQueue : TRUE, place |-> 0]

MetalInit ==
    /\ caller = Idle
    /\ committed = [s \in MetalQueue |-> <<>>]
    /\ executed = [s \in MetalQueue |-> 0] /\ completed = [s \in MetalQueue |-> 0]
    /\ semaphore = [s \in MetalQueue |-> MaxCommandBuffers]
    /\ last = [s \in MetalQueue |-> 0]
    /\ eventCounter = [v \in MetalEvent |-> 0] /\ signalers = [v \in MetalEvent |-> {}]
    /\ eventValue = [v \in MetalEvent |-> 0] /\ lastSignal = [v \in MetalEvent |-> NoBuffer]
    /\ dispatches = 0

-----------------------------------------------------------------------------
Made(call) ==
    /\ caller = Idle /\ dispatches < MaxDispatches
    /\ dispatches' = dispatches + 1
    /\ caller' = call

\* MetalDevice::dispatch, signal_event and wait_event.  The build of a mesh that
\* is compacted ends one command buffer, waits for it and goes on in another.
BeginDispatch(s) ==
    /\ \/ \E op \in {"list", "build", "function"} : Made([at |-> "create", queue |-> s, op |-> op])
       \/ \E v \in MetalEvent : Made([at |-> "create", queue |-> s, op |-> "wait", event |-> v])
       \/ \E v \in MetalEvent : /\ <<s, v>> \in Signallers
                                /\ Made([at |-> "create", queue |-> s, op |-> "signal", event |-> v])
    /\ UNCHANGED <<committed, executed, completed, semaphore, last, eventCounter, signalers,
                   eventValue, lastSignal>>

\* synchronize takes _last; there may be none.
BeginSynchronize(s) ==
    /\ Made([at |-> "synchronize", queue |-> s, place |-> last[s]])
    /\ last' = [last EXCEPT ![s] = 0]
    /\ UNCHANGED <<committed, executed, completed, semaphore, eventCounter, signalers, eventValue,
                   lastSignal>>

BeginSynchronizeEvent(v) ==
    /\ Made([at |-> "event", event |-> v])
    /\ UNCHANGED <<committed, executed, completed, semaphore, last, eventCounter, signalers,
                   eventValue, lastSignal>>

\* The queue hands out a command buffer when fewer than its maximum are under way.
QueueHasRoom(s) == Len(committed[s]) - executed[s] < MaxCommandBuffers

\* Mutant: a wait is encoded for the signal to come.
CounterNext(v) == eventCounter[v] + 1

\* Mutant: a wait is encoded for the signal before the last.
CounterBefore(v) == eventCounter[v] - 1

CounterNow(v) == eventCounter[v]

HasCompleted(buffer) == completed[buffer.queue] >= buffer.place

\* [_handle commandBuffer] and what is encoded in it.  A wait on an event that
\* was never signalled is left out.
EncodeBuffer ==
    /\ caller.at = "create" /\ QueueHasRoom(caller.queue)
    /\ \/ /\ caller.op = "signal"
          /\ eventCounter' = [eventCounter EXCEPT ![caller.event] = @ + 1]
          /\ LET here == [queue |-> caller.queue, place |-> Len(committed[caller.queue]) + 1]
             IN /\ signalers' = [signalers EXCEPT ![caller.event] = {b \in @ : ~HasCompleted(b)} \cup {here}]
                /\ lastSignal' = [lastSignal EXCEPT ![caller.event] = here]
          /\ caller' = [at |-> "commit", queue |-> caller.queue,
                        buffer |-> [op |-> "signal", event |-> caller.event,
                                    value |-> eventCounter[caller.event] + 1]]
       \/ /\ caller.op = "wait" /\ eventCounter[caller.event] # 0
          /\ caller' = [at |-> "commit", queue |-> caller.queue,
                        buffer |-> [op |-> "wait", event |-> caller.event,
                                    value |-> CounterNow(caller.event),
                                    after |-> lastSignal[caller.event]]]
          /\ UNCHANGED <<eventCounter, signalers, lastSignal>>
       \/ /\ caller.op = "wait" => eventCounter[caller.event] = 0
          /\ caller.op # "signal"
          /\ caller' = [at |-> "commit", queue |-> caller.queue,
                        buffer |-> [op |-> IF caller.op = "wait" THEN "nothing" ELSE caller.op]]
          /\ UNCHANGED <<eventCounter, signalers, lastSignal>>
    /\ UNCHANGED <<committed, executed, completed, semaphore, last, eventValue, dispatches>>

\* MetalStream::dispatch: take the semaphore, remember the buffer, commit it.
CommitBuffer ==
    /\ caller.at = "commit" /\ semaphore[caller.queue] > 0
    /\ LET s == caller.queue
           place == Len(committed[s]) + 1
       IN /\ semaphore' = [semaphore EXCEPT ![s] = @ - 1]
          /\ last' = [last EXCEPT ![s] = place]
          /\ committed' = [committed EXCEPT ![s] = Append(@, caller.buffer)]
          /\ caller' = IF caller.buffer.op = "build"
                       THEN [at |-> "compact", queue |-> s, place |-> place] ELSE Idle
    /\ UNCHANGED <<executed, completed, eventCounter, signalers, eventValue, lastSignal, dispatches>>

\* waitUntilCompleted, and the rest of the list with the compaction.
Compacted ==
    /\ caller.at = "compact" /\ HasCompleted(caller)
    /\ caller' = [at |-> "create", queue |-> caller.queue, op |-> "list"]
    /\ UNCHANGED <<committed, executed, completed, semaphore, last, eventCounter, signalers,
                   eventValue, lastSignal, dispatches>>

EndSynchronize ==
    /\ caller.at = "synchronize" /\ HasCompleted(caller)
    /\ caller' = Idle
    /\ UNCHANGED <<committed, executed, completed, semaphore, last, eventCounter, signalers,
                   eventValue, lastSignal, dispatches>>

Signaled(v) == \A b \in signalers[v] : HasCompleted(b)

EndSynchronizeEvent ==
    /\ caller.at = "event" /\ Signaled(caller.event)
    /\ signalers' = [signalers EXCEPT ![caller.event] = {}]
    /\ caller' = Idle
    /\ UNCHANGED <<committed, executed, completed, semaphore, last, eventCounter, eventValue,
                   lastSignal, dispatches>>

-----------------------------------------------------------------------------
\* Metal executes the buffers of a queue in order.
MayExecute(s) ==
    /\ executed[s] < Len(committed[s])
    /\ LET buffer == committed[s][executed[s] + 1]
       IN buffer.op = "wait" => eventValue[buffer.event] >= buffer.value

ExecuteBuffer(s) ==
    /\ MayExecute(s)
    /\ executed' = [executed EXCEPT ![s] = @ + 1]
    /\ LET buffer == committed[s][executed[s] + 1]
       IN eventValue' = IF buffer.op = "signal" THEN [eventValue EXCEPT ![buffer.event] = buffer.value]
                        ELSE eventValue
    /\ UNCHANGED <<caller, committed, completed, semaphore, last, eventCounter, signalers, lastSignal,
                   dispatches>>

\* The completion handlers of a buffer, that of the stream among them.
CompleteBuffer(s) ==
    /\ completed[s] < executed[s]
    /\ completed' = [completed EXCEPT ![s] = @ + 1]
    /\ semaphore' = [semaphore EXCEPT ![s] = @ + 1]
    /\ UNCHANGED <<caller, committed, executed, last, eventCounter, signalers, eventValue, lastSignal,
                   dispatches>>

MetalNext ==
    \/ \E s \in MetalQueue : \/ BeginDispatch(s) \/ BeginSynchronize(s)
                             \/ ExecuteBuffer(s) \/ CompleteBuffer(s)
    \/ \E v \in MetalEvent : BeginSynchronizeEvent(v)
    \/ EncodeBuffer \/ CommitBuffer \/ Compacted \/ EndSynchronize \/ EndSynchronizeEvent

MetalSpec == MetalInit /\ [][MetalNext]_metalVars

-----------------------------------------------------------------------------
\* Type invariant.
MetalTypeOK ==
    /\ caller.at \in {"idle", "create", "commit", "compact", "synchronize", "event"}
    /\ \A s \in MetalQueue :
         /\ semaphore[s] \in 0 .. MaxCommandBuffers /\ last[s] \in 0 .. Len(committed[s])
         /\ executed[s] \in 0 .. Len(committed[s]) /\ completed[s] \in 0 .. executed[s]
    /\ \A v \in MetalEvent : eventValue[v] \in 0 .. eventCounter[v]

\* When synchronize() of a stream returns, the handlers of all its command
\* buffers have run, although _last is taken by every synchronize and replaced
\* in the middle of a list; when that of an event returns, so have those of the
\* last signal's buffer and of all before it.  What follows a wait executes after
\* the signal that was the last at the time of the call (with one signalling
\* stream for each event).
MetalOrdersWork ==
    /\ [][EndSynchronize => completed[caller.queue] = Len(committed[caller.queue])]_metalVars
    /\ [][EndSynchronizeEvent => HasCompleted(lastSignal[caller.event])]_metalVars
    /\ [][\A s \in MetalQueue :
            LET buffer == committed[s][executed[s] + 1]
            IN ExecuteBuffer(s) /\ buffer.op = "wait"
                 => executed[buffer.after.queue] >= buffer.after.place]_metalVars

\* The host is never stuck in a call: with full queues, with the semaphore at
\* zero, or in the middle of a list while its stream waits for another, the host
\* can go on or the device has something to do that will let it.
HostCanGoOn ==
    \/ caller.at = "create" /\ QueueHasRoom(caller.queue)
    \/ caller.at = "commit" /\ semaphore[caller.queue] > 0
    \/ caller.at \in {"compact", "synchronize"} /\ HasCompleted(caller)
    \/ caller.at = "event" /\ Signaled(caller.event)

MetalNeverStuck ==
    caller # Idle => HostCanGoOn \/ \E s \in MetalQueue : MayExecute(s) \/ completed[s] < executed[s]
=============================================================================
