----------------------------- MODULE CUDAStream -----------------------------
(***************************************************************************)
(* The streams and events of the CUDA backend (backends/cuda/cuda_stream,  *)
(* cuda_device).  A stream spreads the commands of a list over a few CUDA  *)
(* streams; the first of them is the one that joins the others at the end  *)
(* of a list, signals, waits and runs host functions.                      *)
(*                                                                         *)
(* The driver is external: a CUDA stream is a queue whose items run one    *)
(* after the other; cuEventRecord makes an event stand for everything that *)
(* is in a CUDA stream at that moment, and cuStreamWaitEvent makes what is *)
(* put into a CUDA stream later wait for what the event stands for then.   *)
(* A host call only appends to the queues, so each is one step.            *)
(***************************************************************************)
EXTENDS Integers, Sequences, FiniteSets

CONSTANTS
  Stream, Event,
  Backed,     \* backed_cuda_stream_count
  MaxItems,   \* bound: items put into the CUDA streams of one stream
  MaxLists    \* bound: lists dispatched to one stream

ASSUME BackedAssumption ==
  Backed \in Nat \ {0} /\ MaxItems \in Nat /\ MaxLists \in Nat

VARIABLES
  queue,      \* queue[w]: the items put into the CUDA stream w, in order
  done,       \* done[w]: how many of them have run
  event,      \* what each event stands for
  workerEvent,\* _worker_events: what they stand for
  used, round,          \* _used_streams, _round
  current,              \* _current_callbacks
  callbackLists,        \* _callback_lists
  recycled,             \* history: the upload buffers recycled
  pc, lists             \* per stream: where in dispatch, the lists begun so far

device == <<queue, done>>
events == <<event, workerEvent>>
picks  == <<used, round>>
calls  == <<current, callbackLists, recycled>>
vars   == <<device, events, picks, calls, pc, lists>>

Worker == Stream \X (0..(Backed - 1))
First(s) == <<s, 0>>

\* A point in a CUDA stream: everything up to position pos of w; lists is the
\* number of lists of the stream before that point.
Point(w, pos, n) == [worker |-> w, pos |-> pos, lists |-> n]
Here(w) == Point(w, Len(queue[w]), lists[w[1]])
Nowhere(s) == Point(First(s), 0, 0)

Reached(p) == done[p.worker] >= p.pos

\* An item: its kind, the number of its list (of the lists before it, for what
\* is no command), and for a wait the point that is waited for.
Item(s, kind, p) == [kind |-> kind, list |-> lists[s], point |-> p]

Init ==
  /\ queue = [w \in Worker |-> <<>>] /\ done = [w \in Worker |-> 0]
  /\ event \in [Event -> {Nowhere(s) : s \in Stream}]
  /\ workerEvent = [w \in Worker |-> Nowhere(w[1])]
  /\ used = [s \in Stream |-> {}] /\ round = [s \in Stream |-> 0]
  /\ current = [s \in Stream |-> {}] /\ callbackLists = [s \in Stream |-> <<>>]
  /\ recycled = [s \in Stream |-> {}]
  /\ pc = [s \in Stream |-> "idle"] /\ lists = [s \in Stream |-> 0]

-----------------------------------------------------------------------------
Append1(q, w, item) == [q EXCEPT ![w] = Append(@, item)]

Room(s) == Cardinality({p \in (0..(Backed - 1)) \X (1..MaxItems) :
                          p[2] \in DOMAIN queue[<<s, p[1]>>]}) < MaxItems

Goes(s, to) == pc' = [pc EXCEPT ![s] = to]

\* handle(true)
PickFirst(s) == round' = [round EXCEPT ![s] = IF @ = 0 THEN 1 % Backed ELSE @]

\* handle(): the next CUDA stream in turn.  The first use of one other than the
\* first since the last barrier waits for that barrier.
Fresh(s) == round[s] # 0 /\ round[s] \notin used[s]

\* Mutant: a CUDA stream does not wait for the barrier before its first use.
OpenedUngated(s) == queue

Opened(s) ==
  IF Fresh(s)
  THEN Append1(queue, <<s, round[s]>>, Item(s, "wait", workerEvent[First(s)]))
  ELSE queue

\* Mutant: the turn does not wrap around.
NextRoundUnwrapped(s) == round[s] + 1

NextRound(s) == (round[s] + 1) % Backed

Visit(s, upload) ==
  LET w == <<s, round[s]>>
  IN /\ pc[s] = "list" /\ Room(s)
     /\ queue' = Append1(Opened(s), w, Item(s, "command", Nowhere(s)))
     /\ used' = [used EXCEPT ![s] = IF Fresh(s) THEN @ \cup {round[s]} ELSE @]
     /\ round' = [round EXCEPT ![s] = NextRound(s)]
     /\ current' = [current EXCEPT ![s] =
          IF upload THEN @ \cup {Point(w, Len(queue'[w]), lists[s])} ELSE @]
     /\ UNCHANGED <<done, events, callbackLists, recycled, pc, lists>>

\* dispatch(lists): the commands of a list, then barrier().
BeginList(s) ==
  /\ pc[s] \in {"idle", "between"} /\ lists[s] < MaxLists
  /\ Goes(s, "list") /\ lists' = [lists EXCEPT ![s] = @ + 1]
  /\ UNCHANGED <<device, events, picks, calls>>

\* Mutant: the wrong bit is cleared, stream 1 is not joined.
OthersOffByOne(s) == used[s] \ {1}

Others(s) == used[s] \ {0}

\* From the lowest number to the highest.
InOrder(S) == {f \in [1..Cardinality(S) -> S] : \A j, k \in DOMAIN f : j < k => f[j] < f[k]}

\* barrier(): the first CUDA stream waits for the others that were used, and
\* its event stands for the end of the list.
Barrier(s) ==
  /\ pc[s] = "list"
  /\ \E order \in InOrder(Others(s)) :
        queue' = [queue EXCEPT ![First(s)] =
                    @ \o [j \in 1..Cardinality(Others(s)) |-> Item(s, "wait", Here(<<s, order[j]>>))]]
  /\ workerEvent' = [w \in Worker |->
       IF w = First(s) THEN Point(w, Len(queue'[w]), lists[s])
       ELSE IF w[1] = s /\ w[2] \in Others(s) THEN Here(w) ELSE workerEvent[w]]
  /\ used' = [used EXCEPT ![s] = {}] /\ round' = [round EXCEPT ![s] = 0]
  /\ Goes(s, "between")
  /\ UNCHANGED <<done, event, calls, lists>>

\* Mutant: no host function when one is already on its way.
DispatchCallbacksOnce(s) ==
  /\ pc[s] = "between"
  /\ callbackLists' = IF current[s] = {} THEN callbackLists
                      ELSE [callbackLists EXCEPT ![s] = Append(@, current[s])]
  /\ queue' = IF current[s] = {} \/ callbackLists[s] # <<>> THEN queue
              ELSE Append1(queue, First(s), Item(s, "recycle", Nowhere(s)))
  /\ current' = [current EXCEPT ![s] = {}]
  /\ Goes(s, "idle")
  /\ UNCHANGED <<done, events, picks, recycled, lists>>

\* Mutant: the host function goes to the last CUDA stream.
RecyclerLast(s) == <<s, Backed - 1>>

Recycler(s) == First(s)

\* dispatch_callbacks(), at the end of dispatch.
DispatchCallbacks(s) ==
  /\ pc[s] = "between"
  /\ IF current[s] = {} THEN UNCHANGED <<queue, callbackLists>>
     ELSE /\ callbackLists' = [callbackLists EXCEPT ![s] = Append(@, current[s])]
          /\ queue' = Append1(queue, Recycler(s), Item(s, "recycle", Nowhere(s)))
  /\ current' = [current EXCEPT ![s] = {}]
  /\ Goes(s, "idle")
  /\ UNCHANGED <<done, events, picks, recycled, lists>>

\* dispatch(f): the host function goes to the first CUDA stream.
DispatchFunction(s) ==
  /\ pc[s] = "idle" /\ Room(s)
  /\ queue' = Append1(queue, First(s), Item(s, "function", Nowhere(s)))
  /\ used' = [used EXCEPT ![s] = {}] /\ round' = [round EXCEPT ![s] = 0]
  /\ UNCHANGED <<done, events, calls, pc, lists>>

SignalEvent(s, e) ==
  /\ pc[s] = "idle"
  /\ event' = [event EXCEPT ![e] = Here(First(s))]
  /\ PickFirst(s)
  /\ UNCHANGED <<device, workerEvent, used, calls, pc, lists>>

WaitEvent(s, e) ==
  /\ pc[s] = "idle" /\ Room(s)
  /\ queue' = Append1(queue, First(s), Item(s, "wait", event[e]))
  /\ PickFirst(s)
  /\ UNCHANGED <<done, events, used, calls, pc, lists>>

\* synchronize(): cuStreamSynchronize of the first CUDA stream.
Synchronize(s) ==
  /\ pc[s] = "idle"
  /\ used' = [used EXCEPT ![s] = {}] /\ round' = [round EXCEPT ![s] = 0]
  /\ Goes(s, "synchronize")
  /\ UNCHANGED <<device, events, calls, lists>>

Synchronized(s) ==
  /\ pc[s] = "synchronize" /\ Reached(Here(First(s)))
  /\ Goes(s, "idle")
  /\ UNCHANGED <<device, events, picks, calls, lists>>

-----------------------------------------------------------------------------
\* The item that a CUDA stream comes to next; a command there may be running.
HasNext(w) == done[w] < Len(queue[w])
NextItem(w) == queue[w][done[w] + 1]

\* The next item of a CUDA stream is done: a wait once its point is reached; a
\* recycle takes the oldest list of callbacks.
Execute(w) ==
  /\ HasNext(w)
  /\ NextItem(w).kind = "wait" => Reached(NextItem(w).point)
  /\ done' = [done EXCEPT ![w] = @ + 1]
  /\ IF NextItem(w).kind = "recycle"
     THEN /\ recycled' = [recycled EXCEPT ![w[1]] = @ \cup Head(callbackLists[w[1]])]
          /\ callbackLists' = [callbackLists EXCEPT ![w[1]] = Tail(@)]
     ELSE UNCHANGED <<recycled, callbackLists>>
  /\ UNCHANGED <<queue, events, picks, current, pc, lists>>

Continue(s) == Barrier(s) \/ DispatchCallbacks(s) \/ Synchronized(s)

Call(s) ==
  \/ BeginList(s) \/ DispatchFunction(s) \/ Synchronize(s)
  \/ \E upload \in BOOLEAN : Visit(s, upload)
  \/ \E e \in Event : SignalEvent(s, e) \/ WaitEvent(s, e)

Next ==
  \/ \E s \in Stream : Call(s) \/ Continue(s)
  \/ \E w \in Worker : Execute(w)

\* The device runs what it was given and a host finishes the call it is in.
Spec ==
  /\ Init /\ [][Next]_vars
  /\ \A s \in Stream : WF_vars(Continue(s))
  /\ \A w \in Worker : WF_vars(Execute(w))

-----------------------------------------------------------------------------
IsPoint(p) == p.worker \in Worker /\ p.pos \in Nat /\ p.lists \in Nat

TypeOK ==
  /\ \A w \in Worker : done[w] \in 0..Len(queue[w])
  /\ \A e \in Event : IsPoint(event[e])
  /\ \A w \in Worker : IsPoint(workerEvent[w])
  /\ \A s \in Stream : used[s] \subseteq 1..(Backed - 1) /\ round[s] \in 0..(Backed - 1)
  /\ pc \in [Stream -> {"idle", "list", "between", "synchronize"}]

\* Position j of w is a command of one of the first n lists.
CommandOf(w, j, n) == queue[w][j].kind = "command" /\ queue[w][j].list <= n

\* The first n lists of stream s have run.
ListsDone(s, n) ==
  \A i \in 0..(Backed - 1) : \A j \in DOMAIN queue[<<s, i>>] :
     CommandOf(<<s, i>>, j, n) => done[<<s, i>>] >= j

\* A command does not begin before the lists before its own have run, whatever
\* CUDA streams they were spread over and whatever calls came in between.
CommandsAfterLists ==
  \A w \in Worker :
    (HasNext(w) /\ NextItem(w).kind = "command") => ListsDone(w[1], NextItem(w).list - 1)

\* A host function runs after the lists before it.
FunctionsAfterLists ==
  \A w \in Worker :
    (HasNext(w) /\ NextItem(w).kind = "function") => ListsDone(w[1], NextItem(w).list)

\* What an event stands for includes the lists before the signal.
EventsCoverLists ==
  \A e \in Event : Reached(event[e]) => ListsDone(event[e].worker[1], event[e].lists)

\* Whatever runs or is waited for, the lists before it have run.
ListsInOrder == CommandsAfterLists /\ FunctionsAfterLists /\ EventsCoverLists

\* A staging buffer goes back to the pool only when the copy out of it is done.
StagingOutlivesCopy == \A s \in Stream : \A p \in recycled[s] : Reached(p)

\* synchronize() returns when everything before it has run.
SynchronizeCovers ==
  [][\A s \in Stream : (pc[s] = "synchronize" /\ pc'[s] = "idle") => ListsDone(s, lists[s])]_vars

\* Every staging buffer that a finished dispatch used is recycled.
StagingRecycled ==
  \A s \in Stream : (pc[s] = "idle" /\ callbackLists[s] # <<>>) ~> (callbackLists[s] = <<>>)

\* Not kept by the code: a command after wait(e) begins after what e stood for.
CommandsAfterWait ==
  \A s \in Stream : \A w \in {v \in Worker : v[1] = s} : \A j \in DOMAIN queue[First(s)] :
    LET gate == queue[First(s)][j]
    IN (/\ gate.kind = "wait" /\ gate.point.worker[1] # s
        /\ HasNext(w) /\ NextItem(w).kind = "command" /\ NextItem(w).list > gate.list)
          => Reached(gate.point)

=============================================================================
