--------------------------- MODULE FrontEnd_proofs ---------------------------
(***************************************************************************)
(* Proofs about the path of commands to the backend: the stream front end  *)
(* (StreamFrontEnd), for any number of delegates, command buffers and      *)
(* submissions, the visitor that reorders a batch (CommandReorder), for    *)
(* any set of commands, and the usage marks of functions (UsageMarks) that *)
(* say what a command reads and writes.                                    *)
(*                                                                         *)
(* In the front end a command is in one list or in one call, and all that  *)
(* a list holds belongs to the line of its recorder, which no other live   *)
(* recorder has.  Several operations commit a list and then do something   *)
(* else, so the invariant is stated about the values that the first part   *)
(* hands to the second as well.                                            *)
(***************************************************************************)
EXTENDS StreamFrontEnd, CommandReorder, UsageMarks, NaturalsInduction, WellFoundedInduction,
        FiniteSetTheorems, SequenceTheorems, TLAPS

Kind == {"command", "mark"}
ItemRecord == [line : Nat, kind : Kind]
BackendCall == [kind : {"commands", "mark"}, set : SUBSET Nat]
PresentRecorder == [kind : {"delegate", "buffer", "moved"}, line : Nat, list : Seq(Nat)]

\* The recorders that hold item i, and the calls that carry it.
HoldersIn(rec, i) ==
    {r \in Recorder : rec[r].kind # "none" /\ \E k \in DOMAIN rec[r].list : rec[r].list[k] = i}
CallsIn(bk, i) == {k \in DOMAIN bk : i \in bk[k].set}

Typed(rec, its, bk, rcy) ==
    /\ \A r \in Recorder : rec[r] = Absent \/ rec[r] \in PresentRecorder
    /\ DOMAIN rec = Recorder
    /\ its \in Seq(ItemRecord) /\ Len(its) <= MaxItems
    /\ bk \in Seq(BackendCall)
    /\ rcy \in [1 .. MaxItems -> Nat]

\* A line belongs to one recorder that can still record, and was begun by an
\* item; line 0 is that of the marks put on the stream itself.
Lines(rec, its) ==
    /\ \A r \in Recorder : rec[r].kind # "none" => rec[r].line <= Len(its)
    /\ \A i \in DOMAIN its : its[i].line <= Len(its)
    /\ \A r, q \in Recorder :
         (/\ r # q /\ rec[r].kind \in {"delegate", "buffer"}
          /\ rec[q].kind \in {"delegate", "buffer"} /\ rec[r].line = rec[q].line)
            => rec[r].line = 0

\* What is in a list are commands of the line of its recorder.
ListsRight(rec, its) ==
    \A r \in Recorder : rec[r].kind # "none" =>
        /\ rec[r].kind = "moved" => rec[r].list = <<>>
        /\ \A k \in DOMAIN rec[r].list :
             /\ rec[r].list[k] \in DOMAIN its
             /\ its[rec[r].list[k]].kind = "command"
             /\ its[rec[r].list[k]].line = rec[r].line
             /\ rec[r].line # 0

\* Calls carry, and recycling counts, only what was submitted.
Submitted(its, bk, rcy) ==
    /\ \A k \in DOMAIN bk : \A i \in bk[k].set : i \in DOMAIN its
    /\ \A i \in 1 .. MaxItems : i \notin DOMAIN its => rcy[i] = 0

Held(rec, bk, rcy, i) ==
    /\ \E r \in Recorder : HoldersIn(rec, i) = {r}
    /\ CallsIn(bk, i) = {} /\ rcy[i] = 0
Delivered(rec, its, bk, rcy, i) ==
    /\ HoldersIn(rec, i) = {}
    /\ \E k \in DOMAIN bk : CallsIn(bk, i) = {k}
    /\ rcy[i] = (IF its[i].kind = "mark" THEN 0 ELSE 1)
Located(rec, its, bk, rcy) ==
    \A i \in DOMAIN its : Held(rec, bk, rcy, i) \/ Delivered(rec, its, bk, rcy, i)

CallsInOrder(its, bk) ==
    \A i, j \in DOMAIN its : \A n \in CallsIn(bk, j) :
        i < j /\ its[i].line = its[j].line =>
            \E k \in CallsIn(bk, i) :
                k < n \/ (k = n /\ its[i].kind = "command" /\ its[j].kind = "command")

Consistent(rec, its, bk, rcy) ==
    /\ Typed(rec, its, bk, rcy) /\ Lines(rec, its) /\ ListsRight(rec, its)
    /\ Submitted(its, bk, rcy) /\ Located(rec, its, bk, rcy) /\ CallsInOrder(its, bk)

\* The inductive invariant: until a command buffer is destroyed with commands
\* in it everything is consistent.
FrontEndInv == ~aborted => Consistent(recorder, items, backend, recycled)

-----------------------------------------------------------------------------
LEMMA LengthsNat ==
  ASSUME NEW S, NEW s \in Seq(S)
  PROVE  Len(s) \in Nat /\ DOMAIN s = 1 .. Len(s) /\ \A k \in DOMAIN s : s[k] \in S
BY LenProperties, ElementOfSeq

\* What an added call does to the calls that carry an item.
LEMMA AddedCall ==
  ASSUME NEW bk \in Seq(BackendCall), NEW call \in BackendCall, NEW i
  PROVE  /\ Append(bk, call) \in Seq(BackendCall)
         /\ Len(bk) \in Nat /\ DOMAIN bk = 1 .. Len(bk)
         /\ DOMAIN Append(bk, call) = 1 .. Len(bk) + 1
         /\ \A k \in DOMAIN bk : Append(bk, call)[k] = bk[k]
         /\ Append(bk, call)[Len(bk) + 1] = call
         /\ CallsIn(Append(bk, call), i) =
              CallsIn(bk, i) \cup (IF i \in call.set THEN {Len(bk) + 1} ELSE {})
         /\ Len(bk) + 1 \notin CallsIn(bk, i)
<1> DEFINE bk2 == Append(bk, call)
<1>1. bk2 \in Seq(BackendCall) /\ Len(bk2) = Len(bk) + 1 /\ bk2[Len(bk) + 1] = call
      /\ \A k \in 1 .. Len(bk) : bk2[k] = bk[k]
  BY AppendProperties
<1>2. DOMAIN bk = 1 .. Len(bk) /\ Len(bk) \in Nat /\ DOMAIN bk2 = 1 .. Len(bk2)
  BY <1>1, LenProperties
<1> HIDE DEF bk2
<1>3. CallsIn(bk2, i) = CallsIn(bk, i) \cup (IF i \in call.set THEN {Len(bk) + 1} ELSE {})
  BY <1>1, <1>2 DEF CallsIn
<1>4. Len(bk) + 1 \notin CallsIn(bk, i)
  BY <1>2 DEF CallsIn
<1> QED
  BY <1>1, <1>2, <1>3, <1>4 DEF bk2

\* What becomes of the recorders and of the counts when r commits its list.
ListMoved(rec, r) == [rec EXCEPT ![r].list = <<>>]
Counted(rcy, list) ==
    [i \in 1 .. MaxItems |-> rcy[i] + IF i \in ToSet(list) THEN 1 ELSE 0]

\* The list of a recorder is moved to the stream: everything stays consistent.
LEMMA CommitConsistent ==
  ASSUME NEW rec, NEW its, NEW bk, NEW rcy, Consistent(rec, its, bk, rcy),
         NEW r \in Recorder, rec[r].kind # "none",
         NEW rec2, rec2 = ListMoved(rec, r),
         NEW bk2, bk2 = bk \o Dispatched(rec[r].list),
         NEW rcy2, rcy2 = Counted(rcy, rec[r].list)
  PROVE  Consistent(rec2, its, bk2, rcy2)
<1> DEFINE S == ToSet(rec[r].list)
           new == Len(bk) + 1
<1>1. /\ Typed(rec, its, bk, rcy) /\ Lines(rec, its) /\ ListsRight(rec, its)
      /\ Submitted(its, bk, rcy) /\ Located(rec, its, bk, rcy) /\ CallsInOrder(its, bk)
  BY DEF Consistent
<1>2. /\ rec[r] \in PresentRecorder /\ rec[r].list \in Seq(Nat)
      /\ bk \in Seq(BackendCall) /\ its \in Seq(ItemRecord) /\ rcy \in [1 .. MaxItems -> Nat]
      /\ \A q \in Recorder : rec[q] = Absent \/ rec[q] \in PresentRecorder
      /\ DOMAIN rec = Recorder /\ Len(its) <= MaxItems
  <2>1. rec[r] \in PresentRecorder
    BY <1>1 DEF Typed, Absent
  <2>2. rec[r].list \in Seq(Nat)
    BY <2>1 DEF PresentRecorder
  <2> QED
    BY <1>1, <2>1, <2>2 DEF Typed
<1>3. /\ DOMAIN rec2 = Recorder /\ \A q \in Recorder : q # r => rec2[q] = rec[q]
      /\ rec2[r] \in PresentRecorder /\ rec2[r].list = <<>> /\ DOMAIN rec2[r].list = {}
      /\ rec2[r].kind = rec[r].kind /\ rec2[r].line = rec[r].line
  <2>1. /\ rec2[r] = [rec[r] EXCEPT !.list = <<>>]
        /\ DOMAIN rec2 = Recorder /\ \A q \in Recorder : q # r => rec2[q] = rec[q]
    BY <1>2 DEF ListMoved
  <2>2. <<>> \in Seq(Nat) /\ DOMAIN <<>> = {}
    OBVIOUS
  <2> QED
    BY <1>2, <2>1, <2>2 DEF PresentRecorder
<1>4. /\ \A i : i \in S <=> \E k \in DOMAIN rec[r].list : rec[r].list[k] = i
      /\ \A i : i \in S <=> r \in HoldersIn(rec, i)
      /\ \A i \in S : /\ i \in DOMAIN its /\ its[i].kind = "command"
                      /\ its[i].line = rec[r].line /\ rec[r].line # 0
                      /\ rec[r].kind # "moved"
  <2>1. \A i : i \in S <=> \E k \in DOMAIN rec[r].list : rec[r].list[k] = i
    BY DEF ToSet
  <2>2. \A i : i \in S <=> r \in HoldersIn(rec, i)
    BY <2>1 DEF HoldersIn
  <2>3. DOMAIN <<>> = {}
    OBVIOUS
  <2> QED
    BY <1>1, <2>1, <2>2, <2>3 DEF ListsRight
<1>5. \A i : HoldersIn(rec2, i) = HoldersIn(rec, i) \ {r}
  BY <1>3 DEF HoldersIn
<1> HIDE DEF S
<1>6. /\ bk2 \in Seq(BackendCall) /\ DOMAIN bk \subseteq DOMAIN bk2 /\ new \in Nat
      /\ DOMAIN bk = 1 .. Len(bk) /\ Len(bk) \in Nat
      /\ \A i : CallsIn(bk2, i) = CallsIn(bk, i) \cup (IF i \in S THEN {new} ELSE {})
      /\ \A k \in DOMAIN bk2 : (k \in DOMAIN bk /\ bk2[k] = bk[k]) \/ bk2[k].set = S
      /\ S # {} => new \in DOMAIN bk2
  <2>1. CASE rec[r].list = <<>>
    <3>1. S = {}
      BY <1>4, <2>1
    <3>2. bk2 = bk
      BY <1>2, <2>1, ConcatEmptySeq DEF Dispatched
    <3> QED
      BY <1>2, <3>1, <3>2, LengthsNat
  <2>2. CASE rec[r].list # <<>>
    <3> DEFINE call == [kind |-> "commands", set |-> S]
    <3>1. call \in BackendCall
      <4>1. \A i \in S : i \in Nat
        BY <1>2, <1>4, LengthsNat
      <4> QED
        BY <4>1 DEF BackendCall
    <3>2. bk2 = bk \o <<call>>
      BY <2>2 DEF Dispatched, S
    <3>3. bk2 = Append(bk, call)
      BY <1>2, <3>1, <3>2, AppendIsConcat
    <3>4. call.set = S
      OBVIOUS
    <3> HIDE DEF call
    <3> QED
      BY <1>2, <3>1, <3>3, <3>4, AddedCall
  <2> QED
    BY <2>1, <2>2
<1>7. /\ DOMAIN its = 1 .. Len(its) /\ Len(its) \in Nat
      /\ \A i \in DOMAIN its : i \in 1 .. MaxItems
      /\ \A i \in 1 .. MaxItems : /\ i \in S => rcy2[i] = rcy[i] + 1
                                  /\ i \notin S => rcy2[i] = rcy[i]
  <2>1. DOMAIN its = 1 .. Len(its) /\ Len(its) \in Nat
    BY <1>2, LengthsNat
  <2>2. MaxItems \in Nat
    BY FrontEndAssumption
  <2>3. \A i \in 1 .. MaxItems : /\ i \in S => rcy2[i] = rcy[i] + 1
                                 /\ i \notin S => rcy2[i] = rcy[i]
    <3>1. \A i \in 1 .. MaxItems : rcy2[i] = rcy[i] + IF i \in S THEN 1 ELSE 0
      BY DEF S, Counted
    <3>2. \A i \in 1 .. MaxItems : rcy[i] \in Nat
      BY <1>2
    <3> QED
      BY <3>1, <3>2
  <2> QED
    BY <1>2, <2>1, <2>2, <2>3
<1>8. Typed(rec2, its, bk2, rcy2)
  <2>1. rcy2 \in [1 .. MaxItems -> Nat]
    BY <1>2 DEF Counted
  <2> QED
    BY <1>2, <1>3, <1>6, <2>1 DEF Typed
<1>9. Lines(rec2, its)
  <2>1. \A q \in Recorder : rec2[q].kind = rec[q].kind /\ rec2[q].line = rec[q].line
    BY <1>3
  <2> QED
    BY <1>1, <2>1 DEF Lines
<1>10. ListsRight(rec2, its)
  BY <1>1, <1>3 DEF ListsRight
<1>11. Submitted(its, bk2, rcy2)
  <2>1. \A i \in 1 .. MaxItems : i \notin DOMAIN its => rcy2[i] = 0
    <3>1. \A i \in 1 .. MaxItems : i \notin DOMAIN its => i \notin S /\ rcy[i] = 0
      BY <1>1, <1>4 DEF Submitted
    <3> QED
      BY <1>7, <3>1
  <2> QED
    BY <1>1, <1>4, <1>6, <2>1 DEF Submitted
<1>12. Located(rec2, its, bk2, rcy2)
  <2> SUFFICES ASSUME NEW i \in DOMAIN its
               PROVE  Held(rec2, bk2, rcy2, i) \/ Delivered(rec2, its, bk2, rcy2, i)
    BY DEF Located
  <2>1. CASE i \in S
    <3>1. r \in HoldersIn(rec, i)
      BY <1>4, <2>1
    <3>2. Held(rec, bk, rcy, i)
      BY <1>1, <3>1 DEF Located, Delivered
    <3>3. HoldersIn(rec2, i) = {} /\ CallsIn(bk2, i) = {new} /\ new \in DOMAIN bk2
      BY <1>5, <1>6, <2>1, <3>1, <3>2 DEF Held
    <3>4. rcy2[i] = 1 /\ its[i].kind = "command"
      BY <1>4, <1>7, <2>1, <3>2 DEF Held
    <3> QED
      BY <3>3, <3>4 DEF Delivered
  <2>2. CASE i \notin S
    <3>1. HoldersIn(rec2, i) = HoldersIn(rec, i) /\ CallsIn(bk2, i) = CallsIn(bk, i)
      <4>1. r \notin HoldersIn(rec, i) /\ HoldersIn(rec2, i) = HoldersIn(rec, i) \ {r}
        BY <1>4, <1>5, <2>2
      <4>2. CallsIn(bk2, i) = CallsIn(bk, i) \cup {}
        BY <1>6, <2>2
      <4> QED
        BY <4>1, <4>2
    <3>2. rcy2[i] = rcy[i]
      BY <1>7, <2>2
    <3> QED
      BY <1>1, <1>6, <3>1, <3>2 DEF Located, Held, Delivered
  <2> QED
    BY <2>1, <2>2
<1>13. CallsInOrder(its, bk2)
  <2> SUFFICES ASSUME NEW i \in DOMAIN its, NEW j \in DOMAIN its, NEW n \in CallsIn(bk2, j),
                      i < j, its[i].line = its[j].line
               PROVE  \E k \in CallsIn(bk2, i) :
                        k < n \/ (k = n /\ its[i].kind = "command" /\ its[j].kind = "command")
    BY DEF CallsInOrder
  <2>1. CASE n \in CallsIn(bk, j)
    BY <1>1, <1>6, <2>1 DEF CallsInOrder
  <2>2. CASE n \notin CallsIn(bk, j)
    <3>1. j \in S /\ n = new
      BY <1>6, <2>2
    <3>2. CASE Held(rec, bk, rcy, i)
      <4>1. PICK q \in Recorder : q \in HoldersIn(rec, i)
        BY <3>2 DEF Held
      <4>2. rec[q].line = its[i].line /\ rec[q].kind \notin {"none", "moved"}
        <5>1. DOMAIN <<>> = {}
          OBVIOUS
        <5> QED
          BY <1>1, <4>1, <5>1 DEF HoldersIn, ListsRight
      <4>3. rec[q].kind \in {"delegate", "buffer"} /\ rec[r].kind \in {"delegate", "buffer"}
        BY <1>2, <1>4, <3>1, <4>2 DEF PresentRecorder, Absent
      <4>4. q = r
        BY <1>1, <1>4, <3>1, <4>2, <4>3 DEF Lines
      <4> QED
        BY <1>4, <1>6, <3>1, <4>1, <4>4
    <3>3. CASE Delivered(rec, its, bk, rcy, i)
      <4>1. PICK k \in DOMAIN bk : k \in CallsIn(bk, i)
        BY <3>3 DEF Delivered
      <4> QED
        BY <1>6, <3>1, <4>1
    <3> QED
      BY <1>1, <3>2, <3>3 DEF Located
  <2> QED
    BY <2>1, <2>2
<1> QED
  BY <1>8, <1>9, <1>10, <1>11, <1>12, <1>13 DEF Consistent

\* The items after one more.
More(its, line, kind) == Append(its, [line |-> line, kind |-> kind])

LEMMA AddedItem ==
  ASSUME NEW its \in Seq(ItemRecord), NEW item \in ItemRecord
  PROVE  /\ Append(its, item) \in Seq(ItemRecord)
         /\ Len(its) \in Nat /\ Len(Append(its, item)) = Len(its) + 1
         /\ DOMAIN its = 1 .. Len(its) /\ DOMAIN Append(its, item) = 1 .. Len(its) + 1
         /\ \A i \in DOMAIN its : Append(its, item)[i] = its[i]
         /\ Append(its, item)[Len(its) + 1] = item
<1>1. /\ Append(its, item) \in Seq(ItemRecord) /\ Len(Append(its, item)) = Len(its) + 1
      /\ Append(its, item)[Len(its) + 1] = item
      /\ \A i \in 1 .. Len(its) : Append(its, item)[i] = its[i]
  BY AppendProperties
<1>2. /\ Len(its) \in Nat /\ DOMAIN its = 1 .. Len(its)
      /\ DOMAIN Append(its, item) = 1 .. Len(Append(its, item))
  BY <1>1, LenProperties
<1> QED
  BY <1>1, <1>2

LEMMA MoreShape ==
  ASSUME NEW its \in Seq(ItemRecord), NEW line \in Nat, NEW kind \in Kind
  PROVE  /\ More(its, line, kind) \in Seq(ItemRecord)
         /\ Len(its) \in Nat /\ Len(More(its, line, kind)) = Len(its) + 1
         /\ DOMAIN its = 1 .. Len(its) /\ DOMAIN More(its, line, kind) = 1 .. Len(its) + 1
         /\ \A i \in DOMAIN its : More(its, line, kind)[i] = its[i]
<1>1. PICK item : item = [line |-> line, kind |-> kind]
  OBVIOUS
<1>2. item \in ItemRecord
  BY <1>1 DEF ItemRecord
<1>3. More(its, line, kind) = Append(its, item)
  BY <1>1 DEF More
<1> QED
  BY <1>2, <1>3, AddedItem

LEMMA LastItem ==
  ASSUME NEW its \in Seq(ItemRecord), NEW line \in Nat, NEW kind \in Kind
  PROVE  /\ More(its, line, kind)[Len(its) + 1].line = line
         /\ More(its, line, kind)[Len(its) + 1].kind = kind
<1> DEFINE last == More(its, line, kind)[Len(its) + 1]
<1>1. last = [line |-> line, kind |-> kind]
  <2>1. PICK item : item = [line |-> line, kind |-> kind]
    OBVIOUS
  <2>2. item \in ItemRecord
    BY <2>1 DEF ItemRecord
  <2> QED
    BY <2>1, <2>2, AddedItem DEF More
<1> HIDE DEF last
<1>2. last.line = line /\ last.kind = kind
  BY <1>1
<1> QED
  BY <1>2 DEF last

\* A recorder r that goes on with its line, or begins one with this item.
GoesOn(rec, its, r, line) ==
    /\ line \in Nat \ {0}
    /\ line = Len(its) + 1 \/ (rec[r].kind \in {"delegate", "buffer"} /\ rec[r].line = line)

\* Then it still is the only one of that line.
LEMMA LineGiven ==
  ASSUME NEW rec, NEW its \in Seq(ItemRecord), Lines(rec, its),
         \A q \in Recorder : rec[q] = Absent \/ rec[q] \in PresentRecorder,
         NEW r \in Recorder, NEW line, GoesOn(rec, its, r, line), NEW kind \in Kind,
         NEW rec2, \A q \in Recorder : q # r => rec2[q] = rec[q],
         rec2[r].line = line
  PROVE  Lines(rec2, More(its, line, kind)) /\ line <= Len(its) + 1
<1> DEFINE its2 == More(its, line, kind)
<1>1. line \in Nat \ {0} /\ line <= Len(its) + 1
  <2>1. Len(its) \in Nat
    BY LengthsNat
  <2>2. rec[r].kind \in {"delegate", "buffer"} => rec[r].line <= Len(its) /\ rec[r].line \in Nat
    BY DEF Lines, PresentRecorder, Absent
  <2> QED
    BY <2>1, <2>2 DEF GoesOn
<1>2. /\ Len(its) \in Nat /\ Len(its2) = Len(its) + 1
      /\ DOMAIN its = 1 .. Len(its) /\ DOMAIN its2 = 1 .. Len(its) + 1
      /\ \A i \in DOMAIN its : its2[i] = its[i] /\ its[i].line \in Nat
  <2>1. \A i \in DOMAIN its : its[i] \in ItemRecord
    BY LengthsNat
  <2>2. \A i \in DOMAIN its : its[i].line \in Nat
    BY <2>1 DEF ItemRecord
  <2>3. line \in Nat
    BY <1>1
  <2>4. /\ Len(its) \in Nat /\ Len(its2) = Len(its) + 1
        /\ DOMAIN its = 1 .. Len(its) /\ DOMAIN its2 = 1 .. Len(its) + 1
        /\ \A i \in DOMAIN its : its2[i] = its[i]
    BY <2>3, MoreShape
  <2> HIDE DEF its2
  <2> QED
    BY <2>2, <2>4
<1>a. its2[Len(its) + 1].line = line
  BY <1>1, LastItem
<1> HIDE DEF its2
<1>3. \A q \in Recorder : rec2[q].kind # "none" => rec2[q].line <= Len(its2)
  <2>1. \A q \in Recorder : q # r /\ rec2[q].kind # "none" =>
          rec[q].line <= Len(its) /\ rec[q].line \in Nat /\ rec2[q].line = rec[q].line
    BY DEF Lines, PresentRecorder, Absent
  <2> QED
    BY <1>1, <1>2, <2>1
<1>4. \A i \in DOMAIN its2 : its2[i].line <= Len(its2)
  <2>1. \A i \in DOMAIN its : its2[i].line <= Len(its2)
    BY <1>2 DEF Lines
  <2> QED
    BY <1>1, <1>2, <1>a, <2>1
<1>5. ASSUME NEW p \in Recorder, NEW q \in Recorder, p # q,
             rec2[p].kind \in {"delegate", "buffer"}, rec2[q].kind \in {"delegate", "buffer"},
             rec2[p].line = rec2[q].line
      PROVE  rec2[p].line = 0
  <2>1. \A x \in Recorder : x # r /\ rec2[x].kind \in {"delegate", "buffer"} => rec2[x].line # line
    <3> SUFFICES ASSUME NEW x \in Recorder, x # r, rec[x].kind \in {"delegate", "buffer"}
                 PROVE  rec[x].line # line
      OBVIOUS
    <3>1. rec[x].line <= Len(its) /\ rec[x].line \in Nat
      BY DEF Lines, PresentRecorder, Absent
    <3>2. rec[r].kind \in {"delegate", "buffer"} /\ rec[r].line = line => rec[x].line # line
      BY <1>1 DEF Lines
    <3> QED
      BY <1>2, <3>1, <3>2 DEF GoesOn
  <2>2. p # r /\ q # r
    BY <1>5, <2>1
  <2> QED
    BY <1>5, <2>2 DEF Lines
<1> QED
  BY <1>1, <1>3, <1>4, <1>5 DEF Lines, its2

\* What becomes of the recorders when r takes a command after those in old.
CommandTaken(rec, its, r, line, old, rec2) ==
    /\ rec[r].kind # "moved" /\ old \in Seq(Nat)
    /\ rec[r].kind = "none" => old = <<>>
    /\ rec[r].kind # "none" => old = rec[r].list /\ (old # <<>> => rec[r].line = line)
    /\ DOMAIN rec2 = Recorder /\ \A q \in Recorder : q # r => rec2[q] = rec[q]
    /\ rec2[r] \in PresentRecorder /\ rec2[r].kind # "moved" /\ rec2[r].line = line
    /\ rec2[r].list = Append(old, Len(its) + 1)

\* A command that a recorder takes, as its first one or after others.
LEMMA RecordConsistent ==
  ASSUME NEW rec, NEW its, NEW bk, NEW rcy, Consistent(rec, its, bk, rcy),
         Len(its) < MaxItems, NEW r \in Recorder,
         NEW line, GoesOn(rec, its, r, line),
         NEW rec2, NEW old, CommandTaken(rec, its, r, line, old, rec2)
  PROVE  Consistent(rec2, More(its, line, "command"), bk, rcy)
<1> DEFINE its2 == More(its, line, "command")
           t    == Len(its) + 1
<1>1. /\ Typed(rec, its, bk, rcy) /\ Lines(rec, its) /\ ListsRight(rec, its)
      /\ Submitted(its, bk, rcy) /\ Located(rec, its, bk, rcy) /\ CallsInOrder(its, bk)
  BY DEF Consistent
<1>2. /\ its \in Seq(ItemRecord) /\ bk \in Seq(BackendCall) /\ rcy \in [1 .. MaxItems -> Nat]
      /\ \A q \in Recorder : rec[q] = Absent \/ rec[q] \in PresentRecorder
  BY <1>1 DEF Typed
<1>3. "command" \in Kind /\ line \in Nat /\ line # 0
  BY DEF Kind, GoesOn
<1>4. Lines(rec2, its2) /\ line <= t
  <2>1. /\ \A q \in Recorder : q # r => rec2[q] = rec[q]
        /\ rec2[r].line = line
    BY DEF CommandTaken
  <2>2. PICK kind \in Kind : kind = "command"
    BY <1>3
  <2>3. Lines(rec2, More(its, line, kind)) /\ line <= Len(its) + 1
    BY <1>1, <1>2, <2>1, LineGiven
  <2> QED
    BY <2>2, <2>3
<1>5. /\ its2 \in Seq(ItemRecord) /\ Len(its) \in Nat /\ Len(its2) = t
      /\ DOMAIN its = 1 .. Len(its) /\ DOMAIN its2 = 1 .. t
      /\ \A i \in DOMAIN its : its2[i] = its[i]
  <2> DEFINE kind == "command"
  <2>1. its \in Seq(ItemRecord) /\ line \in Nat /\ kind \in Kind
    BY <1>2, <1>3
  <2> HIDE DEF kind
  <2>2. /\ More(its, line, kind) \in Seq(ItemRecord) /\ Len(its) \in Nat
        /\ Len(More(its, line, kind)) = Len(its) + 1
        /\ DOMAIN its = 1 .. Len(its) /\ DOMAIN More(its, line, kind) = 1 .. Len(its) + 1
        /\ \A i \in DOMAIN its : More(its, line, kind)[i] = its[i]
    BY <2>1, MoreShape
  <2> QED
    BY <2>2 DEF kind
<1>b. its2[t].line = line /\ its2[t].kind = "command"
  BY <1>2, <1>3, LastItem
<1>6. /\ t \notin DOMAIN its /\ t \in 1 .. MaxItems
      /\ DOMAIN its2 = DOMAIN its \cup {t}
  <2>1. t \notin 1 .. Len(its) /\ t \in 1 .. MaxItems /\ 1 .. t = 1 .. Len(its) \cup {t}
    BY <1>5, FrontEndAssumption
  <2> HIDE DEF its2, t
  <2> QED
    BY <1>5, <2>1
<1>7. /\ DOMAIN old = 1 .. Len(old) /\ Len(old) \in Nat
      /\ DOMAIN rec2[r].list = 1 .. Len(old) + 1
      /\ \A k \in 1 .. Len(old) : rec2[r].list[k] = old[k]
      /\ rec2[r].list[Len(old) + 1] = t
  <2>1. t \in Nat /\ old \in Seq(Nat) /\ rec2[r].list = Append(old, t)
    BY <1>5 DEF CommandTaken
  <2>2. /\ Append(old, t) \in Seq(Nat) /\ Len(Append(old, t)) = Len(old) + 1
        /\ \A k \in 1 .. Len(old) : Append(old, t)[k] = old[k]
        /\ Append(old, t)[Len(old) + 1] = t
    BY <2>1, AppendProperties
  <2>3. DOMAIN old = 1 .. Len(old) /\ Len(old) \in Nat
    BY <2>1, LenProperties
  <2>4. DOMAIN Append(old, t) = 1 .. Len(old) + 1
    BY <2>2, LenProperties
  <2> HIDE DEF t
  <2> QED
    BY <2>1, <2>2, <2>3, <2>4
<1> HIDE DEF its2, t
<1>8. /\ rec2[r].kind # "none" /\ rec2[r].kind \in {"delegate", "buffer"}
      /\ \A k \in DOMAIN old : /\ old[k] \in DOMAIN its /\ its[old[k]].kind = "command"
                               /\ its[old[k]].line = line
      /\ rec[r].kind # "none" => rec[r].list = old
  <2>1. rec2[r].kind \in {"delegate", "buffer"}
    BY DEF PresentRecorder, CommandTaken
  <2>2. CASE rec[r].kind = "none"
    <3>1. DOMAIN old = {}
      BY <2>2 DEF CommandTaken
    <3> QED
      BY <2>1, <2>2, <3>1
  <2>3. CASE rec[r].kind # "none"
    <3>1. \A k \in DOMAIN old : rec[r].line = line
      <4>1. DOMAIN <<>> = {}
        OBVIOUS
      <4> QED
        BY <2>3, <4>1 DEF CommandTaken
    <3> QED
      BY <1>1, <2>1, <2>3, <3>1 DEF ListsRight, CommandTaken
  <2> QED
    BY <2>2, <2>3
<1>9. /\ \A i : i # t => HoldersIn(rec2, i) = HoldersIn(rec, i)
      /\ HoldersIn(rec2, t) = {r}
  <2>1. ASSUME NEW i, i # t PROVE HoldersIn(rec2, i) = HoldersIn(rec, i)
    <3>1. r \in HoldersIn(rec2, i) <=> \E k \in DOMAIN old : old[k] = i
      <4>1. \A k \in 1 .. Len(old) + 1 : k \in 1 .. Len(old) \/ k = Len(old) + 1
        BY <1>7
      <4>2. \A k \in 1 .. Len(old) : k \in 1 .. Len(old) + 1
        BY <1>7
      <4> QED
        BY <1>7, <1>8, <2>1, <4>1, <4>2 DEF HoldersIn
    <3>2. r \in HoldersIn(rec, i) <=> \E k \in DOMAIN old : old[k] = i
      <4>1. rec[r].kind = "none" => DOMAIN old = {}
        BY DEF CommandTaken
      <4> QED
        BY <1>8, <4>1 DEF HoldersIn
    <3>3. \A q \in Recorder : q # r => (q \in HoldersIn(rec2, i) <=> q \in HoldersIn(rec, i))
      BY DEF HoldersIn, CommandTaken
    <3>4. HoldersIn(rec2, i) \subseteq Recorder /\ HoldersIn(rec, i) \subseteq Recorder
      BY DEF HoldersIn
    <3> QED
      BY <3>1, <3>2, <3>3, <3>4
  <2>2. r \in HoldersIn(rec2, t)
    BY <1>7, <1>8 DEF HoldersIn
  <2>3. \A q \in Recorder : q # r => q \notin HoldersIn(rec2, t)
    BY <1>1, <1>6 DEF HoldersIn, ListsRight, CommandTaken
  <2>4. HoldersIn(rec2, t) \subseteq Recorder
    BY DEF HoldersIn
  <2> QED
    BY <2>1, <2>2, <2>3, <2>4
<1>10. CallsIn(bk, t) = {} /\ rcy[t] = 0
  BY <1>1, <1>6 DEF Submitted, CallsIn
<1>11. Typed(rec2, its2, bk, rcy)
  <2>1. Len(its2) <= MaxItems
    BY <1>5, <1>6
  <2> QED
    BY <1>2, <1>5, <2>1 DEF Typed, CommandTaken
<1>12. ListsRight(rec2, its2)
  <2> SUFFICES ASSUME NEW q \in Recorder, rec2[q].kind # "none"
               PROVE  /\ rec2[q].kind = "moved" => rec2[q].list = <<>>
                      /\ \A k \in DOMAIN rec2[q].list :
                           /\ rec2[q].list[k] \in DOMAIN its2
                           /\ its2[rec2[q].list[k]].kind = "command"
                           /\ its2[rec2[q].list[k]].line = rec2[q].line
                           /\ rec2[q].line # 0
    BY DEF ListsRight
  <2>1. CASE q # r
    BY <1>1, <1>5, <1>6, <2>1 DEF ListsRight, CommandTaken
  <2>2. CASE q = r
    <3>1. \A k \in DOMAIN rec2[r].list : rec2[r].list[k] = t \/
                                         (k \in DOMAIN old /\ rec2[r].list[k] = old[k])
      BY <1>7
    <3>2. \A i \in DOMAIN its : its2[i] = its[i] /\ i \in DOMAIN its2
      BY <1>5, <1>6
    <3>3. \A k \in DOMAIN rec2[r].list :
            /\ rec2[r].list[k] \in DOMAIN its2
            /\ its2[rec2[r].list[k]].kind = "command"
            /\ its2[rec2[r].list[k]].line = line
      BY <1>6, <1>8, <1>b, <3>1, <3>2
    <3> QED
      BY <1>3, <2>2, <3>3 DEF CommandTaken
  <2> QED
    BY <2>1, <2>2
<1>13. Submitted(its2, bk, rcy)
  BY <1>1, <1>6 DEF Submitted
<1>14. Located(rec2, its2, bk, rcy)
  <2> SUFFICES ASSUME NEW i \in DOMAIN its2
               PROVE  Held(rec2, bk, rcy, i) \/ Delivered(rec2, its2, bk, rcy, i)
    BY DEF Located
  <2>1. CASE i = t
    BY <1>9, <1>10, <2>1 DEF Held
  <2>2. CASE i # t
    <3>1. i \in DOMAIN its
      BY <1>6, <2>2
    <3> QED
      BY <1>1, <1>5, <1>9, <2>2, <3>1 DEF Located, Held, Delivered
  <2> QED
    BY <2>1, <2>2
<1>15. CallsInOrder(its2, bk)
  <2> SUFFICES ASSUME NEW i \in DOMAIN its2, NEW j \in DOMAIN its2, NEW n \in CallsIn(bk, j),
                      i < j, its2[i].line = its2[j].line
               PROVE  \E k \in CallsIn(bk, i) :
                        k < n \/ (k = n /\ its2[i].kind = "command" /\ its2[j].kind = "command")
    BY DEF CallsInOrder
  <2>1. j \in DOMAIN its
    BY <1>6, <1>10
  <2>2. i \in DOMAIN its
    BY <1>5, <2>1
  <2> QED
    BY <1>1, <1>5, <2>1, <2>2 DEF CallsInOrder
<1> QED
  BY <1>4, <1>11, <1>12, <1>13, <1>14, <1>15 DEF Consistent, its2

\* No recorder holds a command of the line.
HandedOver(rec, its, line) ==
    \A r \in Recorder : rec[r].kind # "none" =>
        \A k \in DOMAIN rec[r].list : its[rec[r].list[k]].line # line

\* The recorders are as before, but for the line of one with nothing in its list.
SameLists(rec, rec2) ==
    \A r \in Recorder : /\ rec2[r].kind = rec[r].kind
                        /\ rec[r].kind # "none" =>
                             /\ rec2[r].list = rec[r].list
                             /\ rec2[r].list # <<>> => rec2[r].line = rec[r].line

\* A mark: what comes before it in its line has been handed over.
LEMMA MarkConsistent ==
  ASSUME NEW rec, NEW its, NEW bk, NEW rcy, Consistent(rec, its, bk, rcy),
         Len(its) < MaxItems,
         NEW line \in Nat,
         HandedOver(rec, its, line),
         NEW rec2, Typed(rec2, its, bk, rcy), SameLists(rec, rec2),
         Lines(rec2, More(its, line, "mark"))
  PROVE  Consistent(rec2, More(its, line, "mark"),
                    Append(bk, [kind |-> "mark", set |-> {Len(its) + 1}]), rcy)
<1> DEFINE kind == "mark"
           its2 == More(its, line, kind)
           t    == Len(its) + 1
           call == [kind |-> "mark", set |-> {t}]
           bk2  == Append(bk, call)
           new  == Len(bk) + 1
<1>1. /\ Typed(rec, its, bk, rcy) /\ Lines(rec, its) /\ ListsRight(rec, its)
      /\ Submitted(its, bk, rcy) /\ Located(rec, its, bk, rcy) /\ CallsInOrder(its, bk)
  BY DEF Consistent
<1>2. /\ its \in Seq(ItemRecord) /\ bk \in Seq(BackendCall) /\ rcy \in [1 .. MaxItems -> Nat]
  BY <1>1 DEF Typed
<1>3. kind \in Kind
  BY DEF Kind
<1> HIDE DEF kind
<1>4. /\ its2 \in Seq(ItemRecord) /\ Len(its) \in Nat /\ Len(its2) = t
      /\ DOMAIN its = 1 .. Len(its) /\ DOMAIN its2 = 1 .. t
      /\ \A i \in DOMAIN its : its2[i] = its[i]
  BY <1>2, <1>3, MoreShape
<1>5. its2[t].line = line /\ its2[t].kind = "mark"
  BY <1>2, <1>3, LastItem DEF kind
<1>6. /\ t \notin DOMAIN its /\ t \in 1 .. MaxItems
      /\ DOMAIN its2 = DOMAIN its \cup {t}
  <2>1. t \notin 1 .. Len(its) /\ t \in 1 .. MaxItems /\ 1 .. t = 1 .. Len(its) \cup {t}
    BY <1>4, FrontEndAssumption
  <2> HIDE DEF its2, t
  <2> QED
    BY <1>4, <2>1
<1>7. call \in BackendCall /\ call.set = {t}
  BY <1>4 DEF BackendCall
<1> HIDE DEF its2, call
<1>8. /\ bk2 \in Seq(BackendCall) /\ Len(bk) \in Nat /\ DOMAIN bk = 1 .. Len(bk)
      /\ DOMAIN bk2 = 1 .. Len(bk) + 1 /\ \A k \in DOMAIN bk : bk2[k] = bk[k]
      /\ bk2[new] = call
  BY <1>2, <1>7, AddedCall
<1>9. \A i : /\ i # t => CallsIn(bk2, i) = CallsIn(bk, i)
             /\ i = t => CallsIn(bk2, i) = CallsIn(bk, i) \cup {new}
  <2> SUFFICES ASSUME NEW i PROVE /\ i # t => CallsIn(bk2, i) = CallsIn(bk, i)
                                  /\ i = t => CallsIn(bk2, i) = CallsIn(bk, i) \cup {new}
    OBVIOUS
  <2>1. CallsIn(bk2, i) = CallsIn(bk, i) \cup (IF i \in call.set THEN {new} ELSE {})
    BY <1>2, <1>7, AddedCall
  <2> QED
    BY <1>7, <2>1
<1> HIDE DEF t, bk2
<1>10. \A i : HoldersIn(rec2, i) = HoldersIn(rec, i)
  BY DEF HoldersIn, SameLists
<1>11. CallsIn(bk, t) = {} /\ rcy[t] = 0 /\ HoldersIn(rec, t) = {}
  BY <1>1, <1>6 DEF Submitted, CallsIn, HoldersIn, ListsRight
<1>12. Typed(rec2, its2, bk2, rcy)
  <2>1. Len(its2) <= MaxItems
    BY <1>4, <1>6
  <2> QED
    BY <1>4, <1>8, <2>1 DEF Typed
<1>13. ListsRight(rec2, its2)
  <2> SUFFICES ASSUME NEW q \in Recorder, rec[q].kind # "none"
               PROVE  /\ rec[q].kind = "moved" => rec2[q].list = <<>>
                      /\ \A k \in DOMAIN rec2[q].list :
                           /\ rec2[q].list[k] \in DOMAIN its2
                           /\ its2[rec2[q].list[k]].kind = "command"
                           /\ its2[rec2[q].list[k]].line = rec2[q].line
                           /\ rec2[q].line # 0
    BY DEF ListsRight, SameLists
  <2>1. \A k \in DOMAIN rec2[q].list : rec2[q].line = rec[q].line
    <3>1. DOMAIN <<>> = {}
      OBVIOUS
    <3> QED
      BY <3>1 DEF SameLists
  <2>2. rec2[q].list = rec[q].list
    BY DEF SameLists
  <2> QED
    BY <1>1, <1>4, <1>6, <2>1, <2>2 DEF ListsRight
<1>14. Submitted(its2, bk2, rcy)
  <2>1. \A k \in DOMAIN bk2 : k \in DOMAIN bk \/ k = new
    BY <1>8
  <2> QED
    BY <1>1, <1>6, <1>7, <1>8, <2>1 DEF Submitted
<1>15. Located(rec2, its2, bk2, rcy)
  <2> SUFFICES ASSUME NEW i \in DOMAIN its2
               PROVE  Held(rec2, bk2, rcy, i) \/ Delivered(rec2, its2, bk2, rcy, i)
    BY DEF Located
  <2>1. CASE i = t
    <3>1. HoldersIn(rec2, t) = {} /\ CallsIn(bk2, t) = {new} /\ rcy[t] = 0
      BY <1>9, <1>10, <1>11
    <3>2. new \in DOMAIN bk2
      BY <1>8
    <3> QED
      BY <1>5, <2>1, <3>1, <3>2 DEF Delivered
  <2>2. CASE i # t
    <3>1. i \in DOMAIN its /\ its2[i] = its[i]
      BY <1>4, <1>6, <2>2
    <3>2. HoldersIn(rec2, i) = HoldersIn(rec, i) /\ CallsIn(bk2, i) = CallsIn(bk, i)
      BY <1>9, <1>10, <2>2
    <3>3. DOMAIN bk \subseteq DOMAIN bk2
      BY <1>8
    <3> QED
      BY <1>1, <3>1, <3>2, <3>3 DEF Located, Held, Delivered
  <2> QED
    BY <2>1, <2>2
<1>16. CallsInOrder(its2, bk2)
  <2> SUFFICES ASSUME NEW i \in DOMAIN its2, NEW j \in DOMAIN its2, NEW n \in CallsIn(bk2, j),
                      i < j, its2[i].line = its2[j].line
               PROVE  \E k \in CallsIn(bk2, i) :
                        k < n \/ (k = n /\ its2[i].kind = "command" /\ its2[j].kind = "command")
    BY DEF CallsInOrder
  <2>1. i \in DOMAIN its /\ i # t /\ CallsIn(bk2, i) = CallsIn(bk, i) /\ its2[i] = its[i]
    <3>1. i # t
      BY <1>4 DEF t
    <3> QED
      BY <1>4, <1>6, <1>9, <3>1
  <2>2. CASE j = t
    <3>1. n = new /\ its[i].line = line
      BY <1>5, <1>9, <1>11, <2>1, <2>2
    <3>2. ~Held(rec, bk, rcy, i)
      BY <2>1, <3>1 DEF Held, HoldersIn, HandedOver
    <3>3. PICK k \in DOMAIN bk : k \in CallsIn(bk, i)
      BY <1>1, <2>1, <3>2 DEF Located, Delivered
    <3> QED
      BY <1>8, <2>1, <3>1, <3>3
  <2>3. CASE j # t
    <3>1. j \in DOMAIN its /\ its2[j] = its[j] /\ n \in CallsIn(bk, j)
      BY <1>4, <1>6, <1>9, <2>3
    <3> QED
      BY <1>1, <2>1, <3>1 DEF CallsInOrder
  <2> QED
    BY <2>2, <2>3
<1> QED
  BY <1>12, <1>13, <1>14, <1>15, <1>16 DEF Consistent, its2, bk2, call, t, kind

\* A change of the recorders alone, that leaves every command where it is or
\* moves it from one recorder to another.
LEMMA RecordersConsistent ==
  ASSUME NEW rec, NEW its, NEW bk, NEW rcy, Consistent(rec, its, bk, rcy),
         NEW rec2, Typed(rec2, its, bk, rcy), Lines(rec2, its), ListsRight(rec2, its),
         \A i \in DOMAIN its :
            /\ HoldersIn(rec, i) = {} => HoldersIn(rec2, i) = {}
            /\ (\E r \in Recorder : HoldersIn(rec, i) = {r})
                 => \E r \in Recorder : HoldersIn(rec2, i) = {r}
  PROVE  Consistent(rec2, its, bk, rcy)
<1>1. Located(rec2, its, bk, rcy)
  BY DEF Consistent, Located, Held, Delivered
<1> QED
  BY <1>1 DEF Consistent

-----------------------------------------------------------------------------
(***************************************************************************)
(* The operations                                                          *)
(***************************************************************************)
LEMMA InitFrontEndInv == FrontEndInit => FrontEndInv
<1> SUFFICES ASSUME FrontEndInit PROVE Consistent(recorder, items, backend, recycled)
  BY DEF FrontEndInv
<1>1. /\ \A r \in Recorder : recorder[r] = Absent /\ recorder[r].kind = "none"
      /\ DOMAIN recorder = Recorder
      /\ items = <<>> /\ backend = <<>> /\ DOMAIN items = {} /\ DOMAIN backend = {}
      /\ recycled \in [1 .. MaxItems -> Nat] /\ \A i \in 1 .. MaxItems : recycled[i] = 0
  BY DEF FrontEndInit, Absent
<1>2. Typed(recorder, items, backend, recycled)
  <2>1. items \in Seq(ItemRecord) /\ backend \in Seq(BackendCall) /\ Len(items) = 0
    BY <1>1
  <2> QED
    BY <1>1, <2>1, FrontEndAssumption DEF Typed
<1>3. Lines(recorder, items) /\ ListsRight(recorder, items)
  BY <1>1 DEF Lines, ListsRight
<1>4. Submitted(items, backend, recycled) /\ Located(recorder, items, backend, recycled)
      /\ CallsInOrder(items, backend)
  BY <1>1 DEF Submitted, Located, CallsInOrder
<1> QED
  BY <1>2, <1>3, <1>4 DEF Consistent

\* What the operations read off a consistent state.
LEMMA RecorderRead ==
  ASSUME NEW rec, NEW its, NEW bk, NEW rcy, Consistent(rec, its, bk, rcy),
         NEW r \in Recorder
  PROVE  /\ rec[r] = Absent \/ rec[r] \in PresentRecorder
         /\ rec[r].kind = "none" => rec[r] = Absent
         /\ rec[r].kind # "none" => /\ rec[r] \in PresentRecorder /\ rec[r].line <= Len(its)
                                    /\ rec[r].line \in Nat /\ rec[r].list \in Seq(Nat)
         /\ (rec[r].kind # "none" /\ rec[r].list # <<>>) =>
              rec[r].line # 0 /\ rec[r].kind # "moved"
         /\ its \in Seq(ItemRecord) /\ Len(its) \in Nat /\ DOMAIN rec = Recorder
<1>1. Typed(rec, its, bk, rcy) /\ Lines(rec, its) /\ ListsRight(rec, its)
  BY DEF Consistent
<1>2. rec[r] = Absent \/ rec[r] \in PresentRecorder
  BY <1>1 DEF Typed
<1>3. rec[r].kind = "none" => rec[r] = Absent
  BY <1>2 DEF PresentRecorder
<1>4. rec[r].kind # "none" => /\ rec[r] \in PresentRecorder /\ rec[r].line <= Len(its)
                              /\ rec[r].line \in Nat /\ rec[r].list \in Seq(Nat)
  BY <1>1, <1>2 DEF Absent, PresentRecorder, Lines
<1>5. ASSUME rec[r].kind # "none", rec[r].list # <<>>
      PROVE  rec[r].line # 0 /\ rec[r].kind # "moved"
  <2>1. DOMAIN rec[r].list = 1 .. Len(rec[r].list) /\ Len(rec[r].list) \in Nat
    BY <1>4, <1>5, LenProperties
  <2>2. Len(rec[r].list) # 0
    BY <1>4, <1>5, EmptySeq
  <2>3. 1 \in DOMAIN rec[r].list
    BY <2>1, <2>2
  <2> QED
    BY <1>1, <1>5, <2>3 DEF ListsRight
<1>6. its \in Seq(ItemRecord) /\ Len(its) \in Nat /\ DOMAIN rec = Recorder
  BY <1>1, LengthsNat DEF Typed
<1> QED
  BY <1>2, <1>3, <1>4, <1>5, <1>6

\* What is left behind by a move still is a recorder.
LEMMA LeftBehind ==
  ASSUME NEW x \in PresentRecorder, NEW list \in Seq(Nat)
  PROVE  /\ [x EXCEPT !.kind = "moved", !.list = list] \in PresentRecorder
         /\ [x EXCEPT !.kind = "moved", !.list = list].kind = "moved"
         /\ [x EXCEPT !.kind = "moved", !.list = list].line = x.line
         /\ [x EXCEPT !.kind = "moved", !.list = list].list = list
BY DEF PresentRecorder

LEMMA BeginDelegateKeeps ==
  ASSUME Consistent(recorder, items, backend, recycled), NEW r \in Recorder, BeginDelegate(r)
  PROVE  Consistent(recorder, items, backend, recycled)'
<1> DEFINE t == Len(items) + 1
           to == [kind |-> "delegate", line |-> t, list |-> <<t>>]
<1>1. DOMAIN recorder = Recorder /\ Len(items) \in Nat /\ t \in Nat \ {0}
  BY RecorderRead
<1>2. /\ Len(items) < MaxItems /\ recorder[r].kind = "none" /\ recorder[r].kind # "moved"
      /\ recorder' = [recorder EXCEPT ![r] = to]
      /\ items' = More(items, t, "command") /\ backend' = backend /\ recycled' = recycled
  BY DEF BeginDelegate, HasRoom, Ticket, Submit, More, Absent
<1>3. to \in PresentRecorder /\ to.kind = "delegate" /\ to.line = t /\ to.list = Append(<<>>, t)
  <2>1. <<t>> \in Seq(Nat) /\ <<t>> = Append(<<>>, t)
    BY <1>1
  <2> QED
    BY <1>1, <2>1 DEF PresentRecorder
<1> HIDE DEF to
<1>4. CommandTaken(recorder, items, r, t, <<>>, recorder')
  BY <1>1, <1>2, <1>3 DEF CommandTaken
<1>5. GoesOn(recorder, items, r, t)
  BY <1>1 DEF GoesOn
<1> HIDE DEF t
<1>6. Consistent(recorder', More(items, t, "command"), backend, recycled)
  BY <1>2, <1>4, <1>5, RecordConsistent
<1> QED
  BY <1>2, <1>6

LEMMA RecordKeeps ==
  ASSUME Consistent(recorder, items, backend, recycled), NEW r \in Recorder, Record(r)
  PROVE  Consistent(recorder, items, backend, recycled)'
<1> DEFINE t == Len(items) + 1
           line == LineOf(r)
           old == recorder[r].list
<1>1. /\ DOMAIN recorder = Recorder /\ Len(items) \in Nat /\ t \in Nat
      /\ recorder[r].kind \in {"delegate", "buffer"} /\ recorder[r].kind \notin {"none", "moved"}
      /\ recorder[r] \in PresentRecorder /\ old \in Seq(Nat) /\ recorder[r].line \in Nat
      /\ old # <<>> => recorder[r].line # 0
  BY RecorderRead DEF Record, Records
<1>2. /\ Len(items) < MaxItems
      /\ recorder' = [recorder EXCEPT ![r].list = Append(@, t), ![r].line = line]
      /\ items' = More(items, line, "command") /\ backend' = backend /\ recycled' = recycled
  BY DEF Record, HasRoom, Ticket, Submit, More
<1>3. /\ line \in Nat \ {0} /\ (line = t \/ recorder[r].line = line)
      /\ recorder[r].line # 0 => recorder[r].line = line
  BY <1>1 DEF LineOf, Ticket
<1> HIDE DEF line
<1>4. /\ recorder'[r] = [recorder[r] EXCEPT !.list = Append(old, t), !.line = line]
      /\ DOMAIN recorder' = Recorder /\ \A q \in Recorder : q # r => recorder'[q] = recorder[q]
  BY <1>1, <1>2
<1>5. Append(old, t) \in Seq(Nat)
  BY <1>1, AppendProperties
<1>6. /\ recorder'[r] \in PresentRecorder /\ recorder'[r].kind = recorder[r].kind
      /\ recorder'[r].line = line /\ recorder'[r].list = Append(old, t)
  <2>1. line \in Nat
    BY <1>3
  <2> HIDE DEF old, t
  <2> QED
    BY <1>1, <1>4, <1>5, <2>1 DEF PresentRecorder
<1>7. CommandTaken(recorder, items, r, line, old, recorder')
  BY <1>1, <1>3, <1>4, <1>6 DEF CommandTaken
<1>8. GoesOn(recorder, items, r, line)
  BY <1>1, <1>3 DEF GoesOn
<1> HIDE DEF old
<1>9. Consistent(recorder', More(items, line, "command"), backend, recycled)
  BY <1>2, <1>7, <1>8, RecordConsistent
<1> QED
  BY <1>2, <1>9

LEMMA CreateKeeps ==
  ASSUME Consistent(recorder, items, backend, recycled), NEW r \in Recorder,
         CreateCommandBuffer(r)
  PROVE  Consistent(recorder, items, backend, recycled)'
<1> DEFINE to == [kind |-> "buffer", line |-> 0, list |-> <<>>]
<1>1. /\ Typed(recorder, items, backend, recycled) /\ Lines(recorder, items)
      /\ ListsRight(recorder, items) /\ DOMAIN recorder = Recorder /\ Len(items) \in Nat
  BY RecorderRead DEF Consistent
<1>2. /\ recorder' = [recorder EXCEPT ![r] = to] /\ recorder[r].kind = "none"
      /\ items' = items /\ backend' = backend /\ recycled' = recycled
  BY DEF CreateCommandBuffer, Absent
<1>3. /\ to \in PresentRecorder /\ to.kind = "buffer" /\ to.line = 0 /\ to.list = <<>>
      /\ DOMAIN to.list = {}
  BY DEF PresentRecorder
<1> HIDE DEF to
<1>4. /\ recorder'[r] = to /\ DOMAIN recorder' = Recorder
      /\ \A q \in Recorder : q # r => recorder'[q] = recorder[q]
  BY <1>1, <1>2
<1>5. Typed(recorder', items, backend, recycled)
  BY <1>1, <1>3, <1>4 DEF Typed
<1>6. Lines(recorder', items)
  BY <1>1, <1>3, <1>4 DEF Lines
<1>7. ListsRight(recorder', items)
  BY <1>1, <1>3, <1>4 DEF ListsRight
<1>8. \A i : HoldersIn(recorder', i) = HoldersIn(recorder, i)
  BY <1>2, <1>3, <1>4 DEF HoldersIn
<1>9. Consistent(recorder', items, backend, recycled)
  BY <1>5, <1>6, <1>7, <1>8, RecordersConsistent
<1> QED
  BY <1>2, <1>9

\* A recorder with an empty list is destroyed.
LEMMA EmptyRemoved ==
  ASSUME NEW rec, NEW its, NEW bk, NEW rcy, Consistent(rec, its, bk, rcy),
         NEW r \in Recorder, rec[r].kind # "none" => rec[r].list = <<>>,
         NEW rec2, rec2 = [rec EXCEPT ![r] = Absent]
  PROVE  Consistent(rec2, its, bk, rcy)
<1>1. /\ Typed(rec, its, bk, rcy) /\ Lines(rec, its)
      /\ ListsRight(rec, its) /\ DOMAIN rec = Recorder
  BY RecorderRead DEF Consistent
<1>2. /\ rec2[r] = Absent /\ DOMAIN rec2 = Recorder /\ Absent.kind = "none"
      /\ \A q \in Recorder : q # r => rec2[q] = rec[q]
  BY <1>1 DEF Absent
<1>3. Typed(rec2, its, bk, rcy)
  BY <1>1, <1>2 DEF Typed
<1>4. Lines(rec2, its) /\ ListsRight(rec2, its)
  BY <1>1, <1>2 DEF Lines, ListsRight
<1>5. \A i : HoldersIn(rec2, i) = HoldersIn(rec, i)
  <2>1. DOMAIN <<>> = {}
    OBVIOUS
  <2> QED
    BY <1>2, <2>1 DEF HoldersIn
<1> QED
  BY <1>3, <1>4, <1>5, RecordersConsistent

LEMMA MoveToKeeps ==
  ASSUME Consistent(recorder, items, backend, recycled), NEW r \in Recorder, NEW q \in Recorder,
         MoveTo(r, q)
  PROVE  Consistent(recorder, items, backend, recycled)'
<1> DEFINE left == [recorder[r] EXCEPT !.kind = "moved", !.list = <<>>]
<1>1. /\ Typed(recorder, items, backend, recycled) /\ Lines(recorder, items)
      /\ ListsRight(recorder, items) /\ DOMAIN recorder = Recorder
  BY RecorderRead DEF Consistent
<1>2. /\ recorder[r].kind \in {"delegate", "buffer"} /\ recorder[r].kind \notin {"none", "moved"}
      /\ recorder[q].kind = "none" /\ r # q
      /\ recorder' = [recorder EXCEPT ![q] = recorder[r], ![r] = left]
      /\ items' = items /\ backend' = backend /\ recycled' = recycled
  BY DEF MoveTo, Records, Absent
<1>3. recorder[r] \in PresentRecorder
  BY <1>2, RecorderRead
<1>4. /\ left \in PresentRecorder /\ left.kind = "moved" /\ left.line = recorder[r].line
      /\ left.list = <<>> /\ DOMAIN left.list = {}
  <2>1. <<>> \in Seq(Nat) /\ DOMAIN <<>> = {}
    OBVIOUS
  <2>2. /\ left \in PresentRecorder /\ left.kind = "moved" /\ left.line = recorder[r].line
        /\ left.list = <<>>
    BY <1>3, <2>1, LeftBehind
  <2> HIDE DEF left
  <2> QED
    BY <2>1, <2>2
<1> HIDE DEF left
<1>5. /\ recorder'[r] = left /\ recorder'[q] = recorder[r] /\ DOMAIN recorder' = Recorder
      /\ \A p \in Recorder : p \notin {q, r} => recorder'[p] = recorder[p]
  BY <1>1, <1>2
<1>6. Typed(recorder', items, backend, recycled)
  <2>1. \A p \in Recorder : recorder'[p] = Absent \/ recorder'[p] \in PresentRecorder
    BY <1>1, <1>3, <1>4, <1>5 DEF Typed
  <2> QED
    BY <1>1, <1>5, <2>1 DEF Typed
<1>7. Lines(recorder', items)
  <2>1. \A p \in Recorder : recorder'[p].kind # "none" => recorder'[p].line <= Len(items)
    BY <1>1, <1>2, <1>4, <1>5 DEF Lines
  <2>2. ASSUME NEW x \in Recorder, NEW y \in Recorder, x # y,
               recorder'[x].kind \in {"delegate", "buffer"},
               recorder'[y].kind \in {"delegate", "buffer"},
               recorder'[x].line = recorder'[y].line
        PROVE  recorder'[x].line = 0
    <3>1. x # r /\ y # r
      BY <1>4, <1>5, <2>2
    <3>2. CASE x = q
      BY <1>1, <1>2, <1>5, <2>2, <3>1, <3>2 DEF Lines
    <3>3. CASE y = q
      BY <1>1, <1>2, <1>5, <2>2, <3>1, <3>3 DEF Lines
    <3>4. CASE x # q /\ y # q
      BY <1>1, <1>5, <2>2, <3>1, <3>4 DEF Lines
    <3> QED
      BY <3>2, <3>3, <3>4
  <2> QED
    BY <1>1, <2>1, <2>2 DEF Lines
<1>8. ListsRight(recorder', items)
  <2> SUFFICES ASSUME NEW p \in Recorder, recorder'[p].kind # "none"
               PROVE  /\ recorder'[p].kind = "moved" => recorder'[p].list = <<>>
                      /\ \A k \in DOMAIN recorder'[p].list :
                           /\ recorder'[p].list[k] \in DOMAIN items
                           /\ items[recorder'[p].list[k]].kind = "command"
                           /\ items[recorder'[p].list[k]].line = recorder'[p].line
                           /\ recorder'[p].line # 0
    BY DEF ListsRight
  <2>1. CASE p = r
    BY <1>4, <1>5, <2>1
  <2>2. CASE p = q
    BY <1>1, <1>2, <1>5, <2>2 DEF ListsRight
  <2>3. CASE p \notin {q, r}
    BY <1>1, <1>5, <2>3 DEF ListsRight
  <2> QED
    BY <2>1, <2>2, <2>3
<1>9. ASSUME NEW i
      PROVE  /\ r \in HoldersIn(recorder, i) <=> q \in HoldersIn(recorder', i)
             /\ r \notin HoldersIn(recorder', i) /\ q \notin HoldersIn(recorder, i)
             /\ \A p \in Recorder : p \notin {q, r} =>
                  (p \in HoldersIn(recorder, i) <=> p \in HoldersIn(recorder', i))
             /\ HoldersIn(recorder, i) \subseteq Recorder
             /\ HoldersIn(recorder', i) \subseteq Recorder
  BY <1>2, <1>4, <1>5 DEF HoldersIn
<1>10. \A i \in DOMAIN items :
         /\ HoldersIn(recorder, i) = {} => HoldersIn(recorder', i) = {}
         /\ (\E p \in Recorder : HoldersIn(recorder, i) = {p})
              => \E p \in Recorder : HoldersIn(recorder', i) = {p}
  <2> SUFFICES ASSUME NEW i \in DOMAIN items
               PROVE  /\ HoldersIn(recorder, i) = {} => HoldersIn(recorder', i) = {}
                      /\ (\E p \in Recorder : HoldersIn(recorder, i) = {p})
                           => \E p \in Recorder : HoldersIn(recorder', i) = {p}
    OBVIOUS
  <2>1. HoldersIn(recorder, i) = {} => HoldersIn(recorder', i) = {}
    BY <1>9
  <2>2. ASSUME NEW p \in Recorder, HoldersIn(recorder, i) = {p}
        PROVE  \E x \in Recorder : HoldersIn(recorder', i) = {x}
    <3>1. CASE p = r
      <4>1. HoldersIn(recorder', i) = {q}
        BY <1>9, <2>2, <3>1
      <4> QED
        BY <4>1
    <3>2. CASE p # r
      <4>1. HoldersIn(recorder', i) = {p}
        BY <1>9, <2>2, <3>2
      <4> QED
        BY <4>1
    <3> QED
      BY <3>1, <3>2
  <2> QED
    BY <2>1, <2>2
<1>11. Consistent(recorder', items, backend, recycled)
  BY <1>6, <1>7, <1>8, <1>10, RecordersConsistent
<1> QED
  BY <1>2, <1>11

\* Emptied only changes the list of a recorder that had commands in it.
LEMMA EmptiedIsTaken ==
  ASSUME Consistent(recorder, items, backend, recycled), NEW r \in Recorder, Records(r)
  PROVE  /\ DOMAIN Emptied(r) = Recorder
         /\ \A q \in Recorder : q # r => Emptied(r)[q] = ListMoved(recorder, r)[q]
         /\ Emptied(r)[r] = [recorder[r] EXCEPT !.list = <<>>, !.line = LineOf(r)]
         /\ ListMoved(recorder, r)[r] = [recorder[r] EXCEPT !.list = <<>>]
         /\ recorder[r] \in PresentRecorder /\ Emptied(r)[r] \in PresentRecorder
         /\ Emptied(r)[r].kind = recorder[r].kind /\ Emptied(r)[r].list = <<>>
         /\ Emptied(r)[r].line = LineOf(r)
         /\ GoesOn(recorder, items, r, LineOf(r))
         /\ recorder[r].list # <<>> => Emptied(r) = ListMoved(recorder, r)
<1>1. /\ DOMAIN recorder = Recorder /\ Len(items) \in Nat /\ recorder[r] \in PresentRecorder
      /\ recorder[r].line \in Nat
      /\ recorder[r].list # <<>> => recorder[r].line # 0
      /\ recorder[r].kind \in {"delegate", "buffer"}
  BY RecorderRead DEF Records
<1>2. /\ LineOf(r) \in Nat \ {0} /\ (LineOf(r) = Len(items) + 1 \/ recorder[r].line = LineOf(r))
      /\ recorder[r].line # 0 => LineOf(r) = recorder[r].line
  BY <1>1 DEF LineOf, Ticket
<1>3. GoesOn(recorder, items, r, LineOf(r))
  BY <1>1, <1>2 DEF GoesOn
<1>4. /\ DOMAIN Emptied(r) = Recorder /\ DOMAIN ListMoved(recorder, r) = Recorder
      /\ \A q \in Recorder : q # r => Emptied(r)[q] = ListMoved(recorder, r)[q]
      /\ Emptied(r)[r] = [recorder[r] EXCEPT !.list = <<>>, !.line = LineOf(r)]
      /\ ListMoved(recorder, r)[r] = [recorder[r] EXCEPT !.list = <<>>]
  BY <1>1 DEF Emptied, ListMoved
<1>5. /\ Emptied(r)[r] \in PresentRecorder /\ Emptied(r)[r].kind = recorder[r].kind
      /\ Emptied(r)[r].list = <<>> /\ Emptied(r)[r].line = LineOf(r)
  <2> DEFINE line == LineOf(r)
             none == <<>>
             from == recorder[r]
  <2>1. line \in Nat /\ none \in Seq(Nat) /\ from \in PresentRecorder
    BY <1>1, <1>2
  <2> HIDE DEF line, none, from
  <2>2. /\ [from EXCEPT !.list = none, !.line = line] \in PresentRecorder
        /\ [from EXCEPT !.list = none, !.line = line].kind = from.kind
        /\ [from EXCEPT !.list = none, !.line = line].line = line
        /\ [from EXCEPT !.list = none, !.line = line].list = none
    BY <2>1 DEF PresentRecorder
  <2> QED
    BY <1>4, <2>2 DEF line, none, from
<1>6. ASSUME recorder[r].list # <<>> PROVE Emptied(r) = ListMoved(recorder, r)
  <2>1. Emptied(r)[r] = ListMoved(recorder, r)[r]
    <3>1. PICK from : from = recorder[r]
      OBVIOUS
    <3>2. LineOf(r) = from.line
      BY <1>1, <1>2, <1>6, <3>1
    <3>3. PICK none : none = <<>>
      OBVIOUS
    <3>4. from \in PresentRecorder
      BY <1>1, <3>1
    <3>5. [from EXCEPT !.list = none, !.line = from.line] = [from EXCEPT !.list = none]
      BY <3>4 DEF PresentRecorder
    <3> QED
      BY <1>4, <3>1, <3>2, <3>3, <3>5
  <2>2. \A q \in Recorder : Emptied(r)[q] = ListMoved(recorder, r)[q]
    BY <1>4, <2>1
  <2>3. /\ Emptied(r) = [q \in Recorder |-> Emptied(r)[q]]
        /\ ListMoved(recorder, r) = [q \in Recorder |-> ListMoved(recorder, r)[q]]
    BY <1>1 DEF Emptied, ListMoved
  <2> QED
    BY <2>2, <2>3
<1> QED
  BY <1>1, <1>3, <1>4, <1>5, <1>6

LEMMA CommitListKeeps ==
  ASSUME Consistent(recorder, items, backend, recycled), NEW r \in Recorder, CommitList(r)
  PROVE  Consistent(recorder, items, backend, recycled)'
<1>1. /\ Records(r) /\ recorder[r].kind # "none" /\ recorder[r].list # <<>>
      /\ recorder' = Emptied(r) /\ backend' = backend \o Dispatched(recorder[r].list)
      /\ recycled' = Counted(recycled, recorder[r].list) /\ items' = items
  BY DEF CommitList, Records, RecycleList, Counted
<1>2. recorder' = ListMoved(recorder, r)
  BY <1>1, EmptiedIsTaken
<1>3. Consistent(recorder', items, backend', recycled')
  BY <1>1, <1>2, CommitConsistent
<1> QED
  BY <1>1, <1>3

\* What the list held is handed over before the mark is made.
LEMMA TakenIsHandedOver ==
  ASSUME NEW rec, NEW its, NEW bk, NEW rcy, Consistent(rec, its, bk, rcy),
         NEW r \in Recorder, rec[r].list = <<>>,
         NEW line, GoesOn(rec, its, r, line)
  PROVE  HandedOver(rec, its, line)
<1> SUFFICES ASSUME NEW q \in Recorder, rec[q].kind # "none", NEW k \in DOMAIN rec[q].list,
                    its[rec[q].list[k]].line = line
             PROVE  FALSE
  BY DEF HandedOver
<1>1. Typed(rec, its, bk, rcy) /\ Lines(rec, its) /\ ListsRight(rec, its)
  BY DEF Consistent
<1>2. DOMAIN <<>> = {}
  OBVIOUS
<1>3. q # r /\ rec[q].list # <<>> /\ rec[q].line = line /\ rec[q].line # 0
  BY <1>1, <1>2 DEF ListsRight
<1>4. /\ rec[q] \in PresentRecorder /\ rec[q].line <= Len(its) /\ rec[q].line \in Nat
      /\ rec[q].kind # "moved" /\ Len(its) \in Nat
  BY <1>3, RecorderRead
<1>5. rec[q].kind \in {"delegate", "buffer"}
  BY <1>4 DEF PresentRecorder
<1>6. rec[r].kind \in {"delegate", "buffer"} /\ rec[r].line = line
  BY <1>3, <1>4 DEF GoesOn
<1> QED
  BY <1>1, <1>3, <1>5, <1>6 DEF Lines

LEMMA MarkKeeps ==
  ASSUME Consistent(recorder, items, backend, recycled), NEW r \in Recorder, SubmitMark(r)
  PROVE  Consistent(recorder, items, backend, recycled)'
<1> DEFINE line == LineOf(r)
           taken == ListMoved(recorder, r)
           sent == backend \o Dispatched(recorder[r].list)
           t == Len(items) + 1
<1>1. /\ Records(r) /\ recorder[r].kind # "none" /\ recorder[r].kind \in {"delegate", "buffer"}
      /\ Len(items) < MaxItems
      /\ recorder' = Emptied(r)
      /\ backend' = Append(sent, [kind |-> "mark", set |-> {t}])
      /\ recycled' = Counted(recycled, recorder[r].list)
      /\ items' = More(items, line, "mark")
  BY DEF SubmitMark, CommitAndMark, Records, RecycleList, Counted, HasRoom, Ticket, Submit, More
<1>2. Consistent(taken, items, sent, recycled')
  BY <1>1, CommitConsistent
<1>3. /\ DOMAIN recorder' = Recorder /\ recorder[r] \in PresentRecorder
      /\ \A q \in Recorder : q # r => recorder'[q] = taken[q]
      /\ taken[r] = [recorder[r] EXCEPT !.list = <<>>]
      /\ recorder'[r] \in PresentRecorder /\ recorder'[r].kind = recorder[r].kind
      /\ recorder'[r].list = <<>> /\ recorder'[r].line = line
      /\ GoesOn(recorder, items, r, line)
  BY <1>1, EmptiedIsTaken
<1>4. taken[r].kind = recorder[r].kind /\ taken[r].line = recorder[r].line /\ taken[r].list = <<>>
  BY <1>3 DEF PresentRecorder
<1>5. /\ Typed(taken, items, sent, recycled') /\ Lines(taken, items) /\ items \in Seq(ItemRecord)
      /\ \A q \in Recorder : taken[q] = Absent \/ taken[q] \in PresentRecorder
  BY <1>2 DEF Consistent, Typed
<1> HIDE DEF taken, sent, line
<1>6. GoesOn(taken, items, r, line) /\ line \in Nat
  BY <1>3, <1>4 DEF GoesOn
<1>7. HandedOver(taken, items, line)
  BY <1>2, <1>4, <1>6, TakenIsHandedOver
<1>8. Typed(recorder', items, sent, recycled')
  BY <1>3, <1>5 DEF Typed
<1>9. SameLists(taken, recorder')
  BY <1>3, <1>4 DEF SameLists
<1>10. Lines(recorder', More(items, line, "mark"))
  <2>1. "mark" \in Kind
    BY DEF Kind
  <2> QED
    BY <1>3, <1>5, <1>6, <2>1, LineGiven
<1>11. Consistent(recorder', More(items, line, "mark"),
                  Append(sent, [kind |-> "mark", set |-> {t}]), recycled')
  BY <1>1, <1>2, <1>6, <1>7, <1>8, <1>9, <1>10, MarkConsistent
<1> QED
  BY <1>1, <1>11

LEMMA MarkStreamKeeps ==
  ASSUME Consistent(recorder, items, backend, recycled), MarkStream
  PROVE  Consistent(recorder, items, backend, recycled)'
<1> DEFINE t == Len(items) + 1
           zero == 0
           its2 == More(items, zero, "mark")
<1>1. /\ Len(items) < MaxItems /\ recorder' = recorder /\ recycled' = recycled
      /\ backend' = Append(backend, [kind |-> "mark", set |-> {t}])
      /\ items' = its2
  BY DEF MarkStream, HasRoom, Ticket, Submit, More
<1>2. /\ Typed(recorder, items, backend, recycled) /\ Lines(recorder, items)
      /\ ListsRight(recorder, items) /\ items \in Seq(ItemRecord)
  BY DEF Consistent, Typed
<1>3. zero \in Nat /\ HandedOver(recorder, items, zero)
  BY <1>2 DEF HandedOver, ListsRight
<1>4. SameLists(recorder, recorder)
  BY DEF SameLists
<1>5. Lines(recorder, its2)
  <2>1. "mark" \in Kind
    BY DEF Kind
  <2>2. zero = 0
    OBVIOUS
  <2>3. zero \in Nat
    BY <1>3
  <2> HIDE DEF zero
  <2>4. /\ Len(items) \in Nat /\ Len(its2) = Len(items) + 1
        /\ DOMAIN items = 1 .. Len(items) /\ DOMAIN its2 = 1 .. Len(items) + 1
        /\ \A i \in DOMAIN items : its2[i] = items[i]
    BY <1>2, <2>1, <2>3, MoreShape
  <2>5. its2[Len(items) + 1].line = zero
    <3>1. PICK kind \in Kind : kind = "mark"
      BY <2>1
    <3>2. More(items, zero, kind)[Len(items) + 1].line = zero
      BY <1>2, <2>3, LastItem
    <3> QED
      BY <3>1, <3>2
  <2>6. \A i \in DOMAIN items : items[i].line \in Nat
    <3>1. \A i \in DOMAIN items : items[i] \in ItemRecord
      BY <1>2, LengthsNat
    <3> QED
      BY <3>1 DEF ItemRecord
  <2>7. \A q \in Recorder : recorder[q].kind # "none" => recorder[q].line \in Nat
    BY RecorderRead
  <2> HIDE DEF its2
  <2>8. \A i \in DOMAIN its2 : its2[i].line <= Len(its2)
    <3>1. \A i \in DOMAIN items : its2[i].line <= Len(its2)
      BY <1>2, <2>4, <2>6 DEF Lines
    <3> QED
      BY <2>2, <2>4, <2>5, <3>1
  <2>9. \A q \in Recorder : recorder[q].kind # "none" => recorder[q].line <= Len(its2)
    BY <1>2, <2>4, <2>7 DEF Lines
  <2> QED
    BY <1>2, <2>8, <2>9 DEF Lines
<1> HIDE DEF zero
<1>6. Consistent(recorder, its2, Append(backend, [kind |-> "mark", set |-> {t}]), recycled)
  BY <1>1, <1>2, <1>3, <1>4, <1>5, MarkConsistent
<1> QED
  BY <1>1, <1>6

LEMMA DestroyKeeps ==
  ASSUME Consistent(recorder, items, backend, recycled), NEW r \in Recorder,
         DestroyRecorder(r), ~aborted'
  PROVE  Consistent(recorder, items, backend, recycled)'
<1> DEFINE taken == ListMoved(recorder, r)
<1>1. ~aborted' => UNCHANGED aborted
  BY DEF DestroyRecorder
<1>2. /\ recorder[r].kind # "none" /\ recorder' = [recorder EXCEPT ![r] = Absent]
      /\ backend' = backend \o Dispatched(recorder[r].list)
      /\ recycled' = Counted(recycled, recorder[r].list) /\ items' = items
  BY DEF DestroyRecorder, RecycleList, Counted
<1>3. Consistent(taken, items, backend', recycled')
  BY <1>2, CommitConsistent
<1>4. DOMAIN recorder = Recorder /\ recorder[r] \in PresentRecorder
  BY <1>2, RecorderRead
<1>5. taken[r].list = <<>> /\ recorder' = [taken EXCEPT ![r] = Absent]
  BY <1>2, <1>4 DEF ListMoved, PresentRecorder
<1> HIDE DEF taken
<1>6. Consistent(recorder', items, backend', recycled')
  BY <1>3, <1>5, EmptyRemoved
<1> QED
  BY <1>2, <1>6

LEMMA NextKeeps == FrontEndInv /\ [FrontEndNext]_frontEndVars => FrontEndInv'
<1> SUFFICES ASSUME FrontEndInv, [FrontEndNext]_frontEndVars, ~aborted'
             PROVE  Consistent(recorder, items, backend, recycled)'
  BY DEF FrontEndInv
<1>1. CASE UNCHANGED frontEndVars
  BY <1>1 DEF FrontEndInv, frontEndVars
<1>2. CASE FrontEndNext
  <2>1. Consistent(recorder, items, backend, recycled)
    BY <1>2 DEF FrontEndNext, FrontEndInv
  <2>2. ASSUME NEW r \in Recorder, BeginDelegate(r)
        PROVE  Consistent(recorder, items, backend, recycled)'
    BY <2>1, <2>2, BeginDelegateKeeps
  <2>3. ASSUME NEW r \in Recorder, CreateCommandBuffer(r)
        PROVE  Consistent(recorder, items, backend, recycled)'
    BY <2>1, <2>3, CreateKeeps
  <2>4. ASSUME NEW r \in Recorder, Record(r)
        PROVE  Consistent(recorder, items, backend, recycled)'
    BY <2>1, <2>4, RecordKeeps
  <2>5. ASSUME NEW r \in Recorder, CommitList(r)
        PROVE  Consistent(recorder, items, backend, recycled)'
    BY <2>1, <2>5, CommitListKeeps
  <2>6. ASSUME NEW r \in Recorder, SubmitMark(r)
        PROVE  Consistent(recorder, items, backend, recycled)'
    BY <2>1, <2>6, MarkKeeps
  <2>7. ASSUME NEW r \in Recorder, DestroyRecorder(r)
        PROVE  Consistent(recorder, items, backend, recycled)'
    BY <2>1, <2>7, DestroyKeeps
  <2>8. ASSUME NEW r \in Recorder, NEW q \in Recorder, MoveTo(r, q)
        PROVE  Consistent(recorder, items, backend, recycled)'
    BY <2>1, <2>8, MoveToKeeps
  <2>9. ASSUME MarkStream PROVE Consistent(recorder, items, backend, recycled)'
    BY <2>1, <2>9, MarkStreamKeeps
  <2> QED
    BY <1>2, <2>2, <2>3, <2>4, <2>5, <2>6, <2>7, <2>8, <2>9 DEF FrontEndNext
<1> QED
  BY <1>1, <1>2

-----------------------------------------------------------------------------
\* Until a command buffer is destroyed with commands in it, a list holds only
\* commands of its recorder's line, and every item is in one list or one call.
THEOREM FrontEndConsistent == FrontEndSpec => []FrontEndInv
<1> QED
  BY InitFrontEndInv, NextKeeps, PTL DEF FrontEndSpec

LEMMA InOrderFollows ==
  ASSUME Consistent(recorder, items, backend, recycled)
  PROVE  ReachesBackendInOrder
<1>1. /\ Located(recorder, items, backend, recycled) /\ CallsInOrder(items, backend)
  BY DEF Consistent
<1>2. \A i : Holders(i) = HoldersIn(recorder, i) /\ Calls(i) = CallsIn(backend, i)
  BY DEF Holders, HoldersIn, Calls, CallsIn
<1>3. ASSUME NEW i \in DOMAIN items
      PROVE  \/ \E r \in Recorder : Holders(i) = {r} /\ Calls(i) = {} /\ recycled[i] = 0
             \/ \E k \in DOMAIN backend :
                   /\ Holders(i) = {} /\ Calls(i) = {k}
                   /\ recycled[i] = (IF items[i].kind = "mark" THEN 0 ELSE 1)
  BY <1>1, <1>2, <1>3 DEF Located, Held, Delivered
<1>4. ASSUME NEW i \in DOMAIN items, NEW j \in DOMAIN items,
             i < j, items[i].line = items[j].line, Calls(j) # {}
      PROVE  \E k \in Calls(i) : \A n \in Calls(j) :
                k < n \/ (k = n /\ items[i].kind = "command" /\ items[j].kind = "command")
  <2>1. PICK n : Calls(j) = {n}
    BY <1>3, <1>4
  <2>2. \E k \in Calls(i) : k < n \/ (k = n /\ items[i].kind = "command" /\ items[j].kind = "command")
    BY <1>1, <1>2, <1>4, <2>1 DEF CallsInOrder
  <2> QED
    BY <2>1, <2>2
<1> QED
  BY <1>3, <1>4 DEF ReachesBackendInOrder

\* Every command is in one recorder or has reached the backend, once, and what
\* came through one recorder reaches it in the order of the program.
THEOREM CommandsReachBackend == FrontEndSpec => []ReachesBackendInOrder
<1>1. FrontEndInv => ReachesBackendInOrder
  <2>1. CASE aborted
    BY <2>1 DEF ReachesBackendInOrder
  <2>2. CASE ~aborted
    BY <2>2, InOrderFollows DEF FrontEndInv
  <2> QED
    BY <2>1, <2>2
<1> QED
  BY <1>1, FrontEndConsistent, PTL

-----------------------------------------------------------------------------
(***************************************************************************)
(* The visitor of CommandReorder.                                          *)
(*                                                                         *)
(* It keeps no commands, only the last list that read and that wrote each  *)
(* range of each resource, so the proof says what those marks remember of  *)
(* a command that has been put into a list: every mark that a later        *)
(* command consults because of it is at least its list (Remembered).  Only  *)
(* the marks that the hazards speak of are in it: SetRead and SetRW assign *)
(* the read mark of a transfer and may take an earlier one back.           *)
(* A visit puts its command after everything it finds (Follows), into a    *)
(* list next to one in use (Fresh).                                        *)
(***************************************************************************)

\* What the visitor looks up, and marks, for an access.
KeyOf(c, a) == IF c.tag = "ShaderDispatch" THEN a.range ELSE FullRange
WriteArgs(c) == IF c.tag = "ShaderDispatch" THEN DispatchWrites(c) ELSE Writes(c)
ReadArgs(c) == IF c.tag = "ShaderDispatch" THEN DispatchReads(c) ELSE Reads(c)

\* The marks are of lists that are in use, and l is a list after one of them.
InUse(m) == m = -1 \/ \E j \in DOMAIN layer : layer[j] = m
Fresh(l) == l \in 0 .. Len(batch) /\ (l = 0 \/ \E j \in DOMAIN layer : layer[j] = l - 1)

\* l is after all that command c is found to depend on.
Follows(c, l) ==
    /\ \A a \in WriteArgs(c) : l >= GetLastLayerWrite(a.handle, KeyOf(c, a))
    /\ \A a \in ReadArgs(c) : l >= GetLastLayerRead(a.handle, KeyOf(c, a))

\* The marks of a command in list l have not gone below l.
Remembered(c, l) ==
    /\ \A a \in WriteArgs(c) :
         IF a.handle \in Ranged THEN views[a.handle][KeyOf(c, a)].write >= l
                                ELSE unranged[a.handle].write >= l
    /\ c.tag = "ShaderDispatch" => \A a \in DispatchReads(c) :
         /\ IF a.handle \in Ranged THEN views[a.handle][a.range].read >= l
                                   ELSE unranged[a.handle].read >= l
         /\ a.handle \in BindlessArrays => bindlessMaxLayer >= l
         /\ a.handle \in Accels => maxAccelReadLevel >= l
    /\ c.tag = "MeshBuild" => maxMeshLevel >= l
    /\ c.tag = "AccelBuild" => maxAccelWriteLevel >= l

View == [read : Int, write : Int]

ReorderTyped ==
    /\ batch \in Seq(Command) /\ layer \in Seq(Nat) /\ Len(layer) = Len(batch) /\ Len(batch) <= MaxBatch
    /\ \A i \in DOMAIN layer : layer[i] < Len(batch)
    /\ views \in [Ranged -> [RangeKey -> View]] /\ unranged \in [Unranged -> View]
    /\ bindlessMaxLayer \in Int /\ maxMeshLevel \in Int
    /\ maxAccelReadLevel \in Int /\ maxAccelWriteLevel \in Int

MarksInUse ==
    /\ \A h \in Ranged : \A r \in RangeKey : InUse(views[h][r].read) /\ InUse(views[h][r].write)
    /\ \A h \in Unranged : InUse(unranged[h].read) /\ InUse(unranged[h].write)
    /\ InUse(bindlessMaxLayer) /\ InUse(maxMeshLevel)
    /\ InUse(maxAccelReadLevel) /\ InUse(maxAccelWriteLevel)

\* Commands that must not be exchanged are in the order of their lists.
LayersOrdered ==
    \A i, j \in DOMAIN batch : (i < j /\ Hazard(batch[i], batch[j])) => layer[i] < layer[j]

ReorderInv ==
    /\ ReorderTyped /\ MarksInUse /\ NoEmptyList /\ LayersOrdered
    /\ \A i \in DOMAIN batch : Remembered(batch[i], layer[i])

-----------------------------------------------------------------------------
LEMMA LeastOf ==
  ASSUME NEW S \in SUBSET Nat, S # {}
  PROVE  \E x \in S : \A y \in S : x <= y
<1>1. \E x \in S : \A y \in S : ~(<<y, x>> \in OpToRel(<, Nat))
  BY NatLessThanWellFounded, WFMin
<1>2. \E x \in S : \A y \in S : ~(y < x)
  BY <1>1 DEF OpToRel
<1> QED
  BY <1>2

LEMMA LargestNumber ==
  ASSUME NEW n \in Nat, NEW S \in SUBSET (0 .. n), S # {}
  PROVE  Max(S) \in S /\ \A y \in S : Max(S) >= y
<1>1. PICK T : T = {n - x : x \in S} /\ T \in SUBSET Nat
  <2>1. {n - x : x \in S} \in SUBSET Nat
    OBVIOUS
  <2> QED
    BY <2>1
<1>2. T # {}
  BY <1>1
<1>4. PICK x \in T : \A y \in T : x <= y
  BY <1>1, <1>2, LeastOf
<1>5. PICK m \in S : x = n - m
  BY <1>1, <1>4
<1>6. \A y \in S : m >= y
  <2>1. \A y \in S : n - y \in T
    BY <1>1
  <2> QED
    BY <1>4, <1>5, <2>1
<1> QED
  BY <1>6 DEF Max

\* The first list after those that are in use as marks.
LEMMA FreshMax ==
  ASSUME ReorderTyped, NEW S, S # {}, \A x \in S : Fresh(x)
  PROVE  Fresh(Max(S)) /\ \A y \in S : Max(S) >= y
<1>1. Len(batch) \in Nat /\ S \in SUBSET (0 .. Len(batch))
  BY DEF ReorderTyped, Fresh
<1>2. Max(S) \in S /\ \A y \in S : Max(S) >= y
  BY <1>1, LargestNumber
<1> QED
  BY <1>2

LEMMA FreshAfter ==
  ASSUME ReorderTyped, NEW m, InUse(m)
  PROVE  m \in Int /\ Fresh(m + 1) /\ Fresh(0)
BY DEF ReorderTyped, InUse, Fresh

LEMMA FreshZero ==
  ASSUME ReorderTyped
  PROVE  Fresh(0)
BY DEF ReorderTyped, Fresh

LEMMA InUseBigger ==
  ASSUME NEW m, NEW n, InUse(m), InUse(n)
  PROVE  InUse(Bigger(m, n))
BY DEF Bigger

\* What the constructors make of a command.
LEMMA CommandShape ==
  ASSUME NEW c \in Command
  PROVE  /\ Carries(c) /\ c.tag \in Tag
         /\ \A a \in c.args : /\ a.handle \in Ranged \cup Unranged
                              /\ a.range.min \in Int /\ a.range.max \in Int
                              /\ 0 <= a.range.min /\ a.range.min < a.range.max /\ a.range.max <= Extent
         /\ \A a \in c.args : KeyOf(c, a) \in RangeKey
         /\ WriteArgs(c) \subseteq c.args /\ ReadArgs(c) \subseteq c.args
<1>1. WellFormed(c)
  BY CommandsAssumption
<1>2. \A a \in c.args : /\ a.handle \in Ranged \cup Unranged
                        /\ a.range.min \in Int /\ a.range.max \in Int
                        /\ 0 <= a.range.min /\ a.range.min < a.range.max /\ a.range.max <= Extent
  BY <1>1, BoundsAssumption DEF WellFormed, Carries, Resources, Ranged, Unranged
<1>3. \A a \in c.args : KeyOf(c, a) \in RangeKey
  BY DEF KeyOf, RangeKey
<1> QED
  BY <1>1, <1>2, <1>3 DEF WellFormed, Carries, WriteArgs, ReadArgs, DispatchWrites, DispatchReads, Reads, Writes

\* Ranges of keys.
LEMMA KeyFacts ==
  /\ \A r \in RangeKey : /\ r.min \in Int /\ r.max \in Int /\ r.min < r.max
                         /\ r.min < Extent /\ -Extent < r.max
                         /\ Collide(r, r) /\ Collide(FullRange, r) /\ Collide(r, FullRange)
  /\ FullRange \in RangeKey
<1>1. FullRange.min = -Extent /\ FullRange.max = Extent /\ FullRange \in RangeKey
  BY DEF FullRange, RangeKey
<1>2. ASSUME NEW r \in RangeKey
      PROVE  r.min \in Int /\ r.max \in Int /\ r.min < r.max /\ r.min < Extent /\ -Extent < r.max
  <2>1. CASE r = FullRange
    BY <1>1, <2>1, BoundsAssumption
  <2>2. CASE r # FullRange
    <3>1. PICK c \in Command : \E a \in c.args : r = a.range
      BY <2>2 DEF RangeKey
    <3> QED
      BY <3>1, CommandShape, BoundsAssumption
  <2> QED
    BY <2>1, <2>2
<1> QED
  BY <1>1, <1>2, BoundsAssumption DEF Collide

\* What a query of a buffer or a texture bounds.
LEMMA RangedWriteBounds ==
  ASSUME ReorderTyped, MarksInUse, NEW h \in Ranged, NEW q
  PROVE  /\ Fresh(GetLastLayerWrite(h, q))
         /\ \A r \in RangeKey : Collide(r, q) => /\ GetLastLayerWrite(h, q) > views[h][r].read
                                                 /\ GetLastLayerWrite(h, q) > views[h][r].write
         /\ \A A \in ArrayHolding(h) : \/ GetLastLayerWrite(h, q) > unranged[A].read
                                       \/ GetLastLayerWrite(h, q) > bindlessMaxLayer
<1>1. PICK hit : hit = {views[h][r] : r \in {k \in RangeKey : Collide(k, q)}}
  OBVIOUS
<1>2. PICK S : S = {0} \cup {Bigger(v.read, v.write) + 1 : v \in hit}
  OBVIOUS
<1>3. \A r \in RangeKey : /\ views[h][r].read \in Int /\ views[h][r].write \in Int
                          /\ InUse(views[h][r].read) /\ InUse(views[h][r].write)
  BY DEF ReorderTyped, View, MarksInUse
<1>4. \A v \in hit : Fresh(Bigger(v.read, v.write) + 1)
  BY <1>1, <1>3, InUseBigger, FreshAfter
<1>5. Fresh(Max(S)) /\ \A y \in S : Max(S) >= y
  <2>1. \A x \in S : Fresh(x)
    BY <1>2, <1>4, FreshZero
  <2> QED
    BY <1>2, <2>1, FreshMax
<1>6. PICK last : last = Max(S) /\ last \in Nat
  BY <1>5 DEF Fresh
<1>7. \A r \in RangeKey : Collide(r, q) => last > views[h][r].read /\ last > views[h][r].write
  <2>1. ASSUME NEW r \in RangeKey, Collide(r, q)
        PROVE  last > views[h][r].read /\ last > views[h][r].write
    <3>1. Bigger(views[h][r].read, views[h][r].write) + 1 \in S
      BY <1>1, <1>2, <2>1
    <3> QED
      BY <1>3, <1>5, <1>6, <3>1 DEF Bigger
  <2> QED
    BY <2>1
<1>8. PICK T : T = {last} \cup {unranged[A].read + 1 : A \in ArrayHolding(h)}
  OBVIOUS
<1>9. \A A \in ArrayHolding(h) : unranged[A].read \in Int /\ InUse(unranged[A].read)
  BY DEF ArrayHolding, Unranged, MarksInUse, ReorderTyped, View
<1>10. Fresh(Max(T)) /\ \A y \in T : Max(T) >= y
  <2>1. \A x \in T : Fresh(x)
    BY <1>5, <1>6, <1>8, <1>9, FreshAfter
  <2> QED
    BY <1>8, <2>1, FreshMax
<1>11. PICK top : top = Max(T) /\ top \in Nat /\ top >= last /\ \A A \in ArrayHolding(h) : top > unranged[A].read
  <2>1. Max(T) \in Nat /\ Max(T) >= last
    BY <1>8, <1>10 DEF Fresh
  <2>2. ASSUME NEW A \in ArrayHolding(h)
        PROVE  Max(T) > unranged[A].read
    <3>1. unranged[A].read + 1 \in T
      BY <1>8
    <3> QED
      BY <1>9, <1>10, <2>1, <3>1
  <2> QED
    BY <2>1, <2>2
<1>12. GetLastLayerWrite(h, q) = IF BindlessGate(last) THEN top ELSE last
  BY <1>1, <1>2, <1>6, <1>8, <1>11 DEF GetLastLayerWrite, RangedLastWrite
<1>13. bindlessMaxLayer \in Int
  BY DEF ReorderTyped
<1> QED
  <2>1. CASE BindlessGate(last)
    <3>1. GetLastLayerWrite(h, q) = top
      BY <1>12, <2>1
    <3>2. \A r \in RangeKey : Collide(r, q) => top > views[h][r].read /\ top > views[h][r].write
      BY <1>3, <1>6, <1>7, <1>11
    <3> QED
      BY <1>10, <1>11, <3>1, <3>2
  <2>2. CASE ~BindlessGate(last)
    <3>1. GetLastLayerWrite(h, q) = last /\ last > bindlessMaxLayer
      BY <1>6, <1>12, <1>13, <2>2 DEF BindlessGate
    <3> QED
      BY <1>5, <1>6, <1>7, <3>1
  <2> QED
    BY <2>1, <2>2

LEMMA RangedReadBounds ==
  ASSUME ReorderTyped, MarksInUse, NEW h \in Ranged, NEW q
  PROVE  /\ Fresh(GetLastLayerRead(h, q))
         /\ \A r \in RangeKey : Collide(r, q) => GetLastLayerRead(h, q) > views[h][r].write
<1>1. PICK S : S = {0} \cup {views[h][r].write + 1 : r \in {k \in RangeKey : Collide(k, q)}}
  OBVIOUS
<1>2. \A r \in RangeKey : views[h][r].write \in Int /\ InUse(views[h][r].write)
  BY DEF ReorderTyped, View, MarksInUse
<1>3. Fresh(Max(S)) /\ \A y \in S : Max(S) >= y
  <2>1. \A x \in S : Fresh(x)
    BY <1>1, <1>2, FreshAfter, FreshZero
  <2> QED
    BY <1>1, <2>1, FreshMax
<1>4. GetLastLayerRead(h, q) = Max(S)
  BY <1>1 DEF GetLastLayerRead, RangedLastRead
<1>5. Max(S) \in Nat
  BY <1>3 DEF Fresh
<1>6. ASSUME NEW r \in RangeKey, Collide(r, q)
      PROVE  Max(S) > views[h][r].write
  <2>1. views[h][r].write + 1 \in S
    BY <1>1, <1>6
  <2> QED
    BY <1>2, <1>3, <1>5, <2>1
<1> QED
  BY <1>3, <1>4, <1>6

\* What a query of a mesh, an acceleration structure or a bindless array bounds.
LEMMA UnrangedBounds ==
  ASSUME ReorderTyped, MarksInUse, NEW h \in Unranged, NEW q
  PROVE  /\ Fresh(GetLastLayerWrite(h, q)) /\ Fresh(GetLastLayerRead(h, q))
         /\ GetLastLayerWrite(h, q) > unranged[h].read /\ GetLastLayerWrite(h, q) > unranged[h].write
         /\ GetLastLayerRead(h, q) > unranged[h].write
         /\ h \in Meshes \cup Accels => /\ GetLastLayerWrite(h, q) > maxAccelReadLevel
                                        /\ GetLastLayerWrite(h, q) > maxAccelWriteLevel
         /\ h \in Accels => GetLastLayerWrite(h, q) > maxMeshLevel
<1>1. PICK v, w, a, b, m : /\ v = unranged[h].read /\ w = unranged[h].write
                           /\ a = maxAccelReadLevel /\ b = maxAccelWriteLevel /\ m = maxMeshLevel
  OBVIOUS
<1>2. /\ v \in Int /\ w \in Int /\ a \in Int /\ b \in Int /\ m \in Int
      /\ InUse(v) /\ InUse(w) /\ InUse(a) /\ InUse(b) /\ InUse(m)
  BY <1>1 DEF ReorderTyped, View, MarksInUse
<1>3. h \notin Ranged
  BY HandlesAssumption
<1>4. PICK x, y : x = GetLastLayerWrite(h, q) /\ y = GetLastLayerRead(h, q)
  OBVIOUS
<1>5. /\ x = UnrangedLastWrite(h) /\ y = UnrangedLastRead(h)
  BY <1>3, <1>4 DEF GetLastLayerWrite, GetLastLayerRead
<1>6. InUse(x - 1) /\ x \in Int /\ x > v /\ x > w /\ (h \in Meshes \cup Accels => x > a /\ x > b)
      /\ (h \in Accels => x > m)
  <2>1. CASE h \in Meshes
    <3>1. x = Bigger(Bigger(v, w) + 1, Bigger(a, b) + 1) /\ h \notin Accels
      BY <1>1, <1>5, <2>1, HandlesAssumption DEF UnrangedLastWrite, MaxAccelLevel
    <3> QED
      BY <1>2, <2>1, <3>1 DEF Bigger
  <2>2. CASE h \in Accels
    <3>1. x = Bigger(Bigger(v, w) + 1, Bigger(Bigger(a, b), m) + 1)
      BY <1>1, <1>5, <2>2, HandlesAssumption DEF UnrangedLastWrite, MaxAccelLevel
    <3> QED
      BY <1>2, <2>2, <3>1 DEF Bigger
  <2>3. CASE h \notin Meshes \cup Accels
    <3>1. x = Bigger(v, w) + 1
      BY <1>1, <1>5, <2>3 DEF UnrangedLastWrite
    <3> QED
      BY <1>2, <2>3, <3>1 DEF Bigger
  <2> QED
    BY <2>1, <2>2, <2>3
<1>7. InUse(y - 1) /\ y \in Int /\ y > w
  <2>1. y = IF h \in Accels THEN Bigger(w, b) + 1 ELSE w + 1
    BY <1>1, <1>5 DEF UnrangedLastRead
  <2> QED
    BY <1>2, <2>1 DEF Bigger
<1>8. Fresh(x) /\ Fresh(y)
  <2>1. Fresh((x - 1) + 1) /\ Fresh((y - 1) + 1)
    BY <1>6, <1>7, FreshAfter
  <2>2. (x - 1) + 1 = x /\ (y - 1) + 1 = y
    BY <1>6, <1>7
  <2> QED
    BY <2>1, <2>2
<1> QED
  BY <1>1, <1>4, <1>6, <1>7, <1>8

-----------------------------------------------------------------------------
\* A mark stays or becomes l, and does not go back.
Raised(x, y, l) == y \in {x, l} /\ y >= x

\* What a visit that puts c into list l does.
Effect(c, l) ==
    /\ batch' = Append(batch, c) /\ layer' = Append(layer, l)
    /\ views' \in [Ranged -> [RangeKey -> View]] /\ unranged' \in [Unranged -> View]
    /\ \A h \in Ranged : \A r \in RangeKey :
         /\ Raised(views[h][r].write, views'[h][r].write, l)
         /\ views'[h][r].read \in {views[h][r].read, l}
         /\ r # FullRange => Raised(views[h][r].read, views'[h][r].read, l)
    /\ \A h \in Unranged : /\ Raised(unranged[h].read, unranged'[h].read, l)
                           /\ Raised(unranged[h].write, unranged'[h].write, l)
    /\ Raised(bindlessMaxLayer, bindlessMaxLayer', l) /\ Raised(maxMeshLevel, maxMeshLevel', l)
    /\ Raised(maxAccelReadLevel, maxAccelReadLevel', l) /\ Raised(maxAccelWriteLevel, maxAccelWriteLevel', l)

Visited(c, l) == Fresh(l) /\ Follows(c, l) /\ Effect(c, l) /\ Remembered(c, l)' /\ Len(batch) < MaxBatch

LEMMA MarkFacts ==
  ASSUME NEW v \in View, NEW l \in Int
  PROVE  /\ SetWriteMark(v, l) \in View /\ SetWriteMark(v, l).write = l /\ SetWriteMark(v, l).read = v.read
         /\ AssignRead(v, l) \in View /\ AssignRead(v, l).write = v.write /\ AssignRead(v, l).read = l
         /\ RaiseRead(v, l) \in View /\ RaiseRead(v, l).write = v.write
         /\ RaiseRead(v, l).read = IF l > v.read THEN l ELSE v.read
<1>1. SetWriteMark(v, l) \in View /\ SetWriteMark(v, l).write = l /\ SetWriteMark(v, l).read = v.read
  BY DEF SetWriteMark, View
<1>2. AssignRead(v, l) \in View /\ AssignRead(v, l).write = v.write /\ AssignRead(v, l).read = l
  BY DEF AssignRead, View
<1>3. RaiseRead(v, l) = [v EXCEPT !.read = Bigger(l, v.read)]
  BY DEF RaiseRead
<1>4. Bigger(l, v.read) \in Int /\ Bigger(l, v.read) = IF l > v.read THEN l ELSE v.read
  BY DEF Bigger, View
<1>5. /\ RaiseRead(v, l) \in View /\ RaiseRead(v, l).write = v.write
      /\ RaiseRead(v, l).read = IF l > v.read THEN l ELSE v.read
  BY <1>3, <1>4 DEF View
<1> QED
  BY <1>1, <1>2, <1>5

LEMMA TransferHandles ==
  ASSUME NEW c \in Command, c.tag \in TransferTag
  PROVE  \A a \in c.args : a.handle \in Ranged
BY CommandShape DEF Carries, TransferTag, Unranged

LEMMA FreshNumber ==
  ASSUME ReorderTyped, NEW l, Fresh(l)
  PROVE  l \in Nat /\ l <= Len(batch)
BY DEF Fresh, ReorderTyped

\* The views of a visit that changes nothing else.
LEMMA StayTyped ==
  ASSUME ReorderTyped
  PROVE  /\ views \in [Ranged -> [RangeKey -> View]] /\ unranged \in [Unranged -> View]
         /\ \A h \in Ranged : \A r \in RangeKey :
              views[h][r] \in View /\ views[h][r].read \in Int /\ views[h][r].write \in Int
         /\ \A h \in Unranged :
              unranged[h] \in View /\ unranged[h].read \in Int /\ unranged[h].write \in Int
         /\ bindlessMaxLayer \in Int /\ maxMeshLevel \in Int
         /\ maxAccelReadLevel \in Int /\ maxAccelWriteLevel \in Int
BY DEF ReorderTyped, View

LEMMA UploadVisited ==
  ASSUME ReorderInv, NEW c \in Command, VisitUpload(c)
  PROVE  \E l \in Nat : Visited(c, l)
<1>1. c.tag \in {"BufferUpload", "TextureUpload"} /\ Len(batch) < MaxBatch /\ UNCHANGED <<unranged, levels>>
  BY DEF VisitUpload, CanVisit
<1>2. PICK dst \in Writes(c) :
        LET l == GetLastLayerWrite(dst.handle, FullRange)
        IN /\ views' = [views EXCEPT ![dst.handle][FullRange] = SetWriteMark(@, l)]
           /\ AddCommand(c, l)
  BY DEF VisitUpload
<1>3. PICK h, l : h = dst.handle /\ l = GetLastLayerWrite(h, FullRange)
  OBVIOUS
<1>4. /\ ReorderTyped /\ MarksInUse /\ WellFormed(c) /\ c.tag \in TransferTag
      /\ FullRange \in RangeKey /\ \A r \in RangeKey : Collide(r, FullRange)
  BY <1>1, CommandsAssumption, KeyFacts DEF ReorderInv, TransferTag
<1>5. h \in Ranged
  BY <1>3, <1>4, TransferHandles DEF Writes
<1>6. /\ Fresh(l) /\ l \in Nat
      /\ \A r \in RangeKey : l > views[h][r].read /\ l > views[h][r].write
  BY <1>3, <1>4, <1>5, RangedWriteBounds, FreshNumber
<1>7. PICK v : v = SetWriteMark(views[h][FullRange], l)
  OBVIOUS
<1>8. v \in View /\ v.write = l /\ v.read = views[h][FullRange].read
  <2>1. views[h][FullRange] \in View /\ l \in Int
    BY <1>4, <1>5, <1>6, StayTyped
  <2> QED
    BY <1>7, <2>1, MarkFacts
<1>9. views' = [views EXCEPT ![h][FullRange] = v]
  BY <1>2, <1>3, <1>7
<1>10. WriteArgs(c) = {dst} /\ ReadArgs(c) = {} /\ KeyOf(c, dst) = FullRange
  BY <1>1, <1>2, <1>4 DEF WellFormed, WriteArgs, ReadArgs, KeyOf
<1>11. Follows(c, l)
  BY <1>3, <1>6, <1>10 DEF Follows
<1>12. /\ views' \in [Ranged -> [RangeKey -> View]]
       /\ \A g \in Ranged : \A r \in RangeKey :
            views'[g][r] = IF g = h /\ r = FullRange THEN v ELSE views[g][r]
  BY <1>4, <1>5, <1>8, <1>9, StayTyped
<1>13. Effect(c, l)
  <2>1. ASSUME NEW g \in Ranged, NEW r \in RangeKey
        PROVE  /\ Raised(views[g][r].write, views'[g][r].write, l)
               /\ views'[g][r].read = views[g][r].read
    BY <1>4, <1>6, <1>8, <1>12, StayTyped DEF Raised
  <2>2. /\ bindlessMaxLayer' = bindlessMaxLayer /\ maxMeshLevel' = maxMeshLevel /\ unranged' = unranged
        /\ maxAccelReadLevel' = maxAccelReadLevel /\ maxAccelWriteLevel' = maxAccelWriteLevel
    BY <1>1 DEF levels
  <2>3. batch' = Append(batch, c) /\ layer' = Append(layer, l)
    BY <1>2, <1>3 DEF AddCommand
  <2> QED
    BY <1>4, <1>6, <1>12, <2>1, <2>2, <2>3, StayTyped DEF Effect, Raised
<1>14. Remembered(c, l)'
  BY <1>1, <1>3, <1>4, <1>5, <1>6, <1>8, <1>10, <1>12 DEF Remembered
<1> QED
  BY <1>1, <1>6, <1>11, <1>13, <1>14 DEF Visited

LEMMA DownloadVisited ==
  ASSUME ReorderInv, NEW c \in Command, VisitDownload(c)
  PROVE  \E l \in Nat : Visited(c, l)
<1>1. c.tag \in {"BufferDownload", "TextureDownload"} /\ Len(batch) < MaxBatch /\ UNCHANGED <<unranged, levels>>
  BY DEF VisitDownload, CanVisit
<1>2. PICK src \in Reads(c) :
        LET l == GetLastLayerRead(src.handle, FullRange)
        IN /\ views' = [views EXCEPT ![src.handle][FullRange] = AssignRead(@, l)]
           /\ AddCommand(c, l)
  BY DEF VisitDownload
<1>3. PICK h, l : h = src.handle /\ l = GetLastLayerRead(h, FullRange)
  OBVIOUS
<1>4. /\ ReorderTyped /\ MarksInUse /\ WellFormed(c) /\ c.tag \in TransferTag
      /\ FullRange \in RangeKey
  BY <1>1, CommandsAssumption, KeyFacts DEF ReorderInv, TransferTag
<1>5. h \in Ranged
  BY <1>3, <1>4, TransferHandles DEF Reads
<1>6. Fresh(l) /\ l \in Nat
  BY <1>3, <1>4, <1>5, RangedReadBounds, FreshNumber
<1>7. PICK v : v = AssignRead(views[h][FullRange], l)
  OBVIOUS
<1>8. v \in View /\ v.read = l /\ v.write = views[h][FullRange].write
  <2>1. views[h][FullRange] \in View /\ l \in Int
    BY <1>4, <1>5, <1>6, StayTyped
  <2> QED
    BY <1>7, <2>1, MarkFacts
<1>9. views' = [views EXCEPT ![h][FullRange] = v]
  BY <1>2, <1>3, <1>7
<1>10. WriteArgs(c) = {} /\ ReadArgs(c) = {src} /\ KeyOf(c, src) = FullRange
  BY <1>1, <1>2, <1>4 DEF WellFormed, WriteArgs, ReadArgs, KeyOf
<1>11. Follows(c, l)
  BY <1>3, <1>6, <1>10 DEF Follows
<1>12. /\ views' \in [Ranged -> [RangeKey -> View]]
       /\ \A g \in Ranged : \A r \in RangeKey :
            views'[g][r] = IF g = h /\ r = FullRange THEN v ELSE views[g][r]
  BY <1>4, <1>5, <1>8, <1>9, StayTyped
<1>13. Effect(c, l)
  <2>1. ASSUME NEW g \in Ranged, NEW r \in RangeKey
        PROVE  /\ views'[g][r].write = views[g][r].write
               /\ views'[g][r].read \in {views[g][r].read, l}
               /\ r # FullRange => views'[g][r].read = views[g][r].read
    BY <1>4, <1>6, <1>8, <1>12
  <2>2. /\ bindlessMaxLayer' = bindlessMaxLayer /\ maxMeshLevel' = maxMeshLevel /\ unranged' = unranged
        /\ maxAccelReadLevel' = maxAccelReadLevel /\ maxAccelWriteLevel' = maxAccelWriteLevel
    BY <1>1 DEF levels
  <2>3. batch' = Append(batch, c) /\ layer' = Append(layer, l)
    BY <1>2, <1>3 DEF AddCommand
  <2> QED
    BY <1>4, <1>6, <1>12, <2>1, <2>2, <2>3, StayTyped DEF Effect, Raised
<1>14. Remembered(c, l)'
  BY <1>1, <1>10 DEF Remembered
<1> QED
  BY <1>1, <1>6, <1>11, <1>13, <1>14 DEF Visited

LEMMA CopyVisited ==
  ASSUME ReorderInv, NEW c \in Command, VisitCopy(c)
  PROVE  \E l \in Nat : Visited(c, l)
<1>1. /\ c.tag \in {"BufferCopy", "TextureCopy", "BufferToTextureCopy", "TextureToBufferCopy"}
      /\ Len(batch) < MaxBatch /\ UNCHANGED <<unranged, levels>>
  BY DEF VisitCopy, CanVisit
<1>2. PICK src \in Reads(c), dst \in Writes(c) :
       LET l == Bigger(GetLastLayerRead(src.handle, FullRange),
                       GetLastLayerWrite(dst.handle, FullRange))
           written == [views EXCEPT ![dst.handle][FullRange] = SetWriteMark(@, l)]
       IN /\ views' = [written EXCEPT ![src.handle][FullRange] = AssignRead(@, l)]
          /\ AddCommand(c, l)
  BY DEF VisitCopy
<1>3. PICK f, h, x, y, l : /\ f = src.handle /\ h = dst.handle
                           /\ x = GetLastLayerRead(f, FullRange) /\ y = GetLastLayerWrite(h, FullRange)
                           /\ l = Bigger(x, y)
  OBVIOUS
<1>4. /\ ReorderTyped /\ MarksInUse /\ WellFormed(c) /\ c.tag \in TransferTag
      /\ FullRange \in RangeKey /\ \A r \in RangeKey : Collide(r, FullRange)
  BY <1>1, CommandsAssumption, KeyFacts DEF ReorderInv, TransferTag
<1>5. f \in Ranged /\ h \in Ranged
  BY <1>3, <1>4, TransferHandles DEF Reads, Writes
<1>6. /\ Fresh(l) /\ l \in Nat /\ l >= x /\ l >= y /\ l > views[h][FullRange].write
  <2>1. Fresh(x) /\ x \in Nat
    BY <1>3, <1>4, <1>5, RangedReadBounds, FreshNumber
  <2>2. Fresh(y) /\ y \in Nat /\ y > views[h][FullRange].write
    BY <1>3, <1>4, <1>5, RangedWriteBounds, FreshNumber
  <2>3. views[h][FullRange].write \in Int
    BY <1>4, <1>5, StayTyped
  <2> QED
    BY <1>3, <2>1, <2>2, <2>3 DEF Bigger
<1>7. PICK v, written : /\ v = SetWriteMark(views[h][FullRange], l)
                        /\ written = [views EXCEPT ![h][FullRange] = v]
  OBVIOUS
<1>8. v \in View /\ v.write = l /\ v.read = views[h][FullRange].read
  <2>1. views[h][FullRange] \in View /\ l \in Int
    BY <1>4, <1>5, <1>6, StayTyped
  <2> QED
    BY <1>7, <2>1, MarkFacts
<1>9. /\ written \in [Ranged -> [RangeKey -> View]]
      /\ \A g \in Ranged : \A r \in RangeKey :
           written[g][r] = IF g = h /\ r = FullRange THEN v ELSE views[g][r]
  BY <1>4, <1>5, <1>7, <1>8, StayTyped
<1>10. PICK w : w = AssignRead(written[f][FullRange], l)
  OBVIOUS
<1>11. w \in View /\ w.read = l /\ w.write = written[f][FullRange].write
  <2>1. written[f][FullRange] \in View /\ l \in Int
    BY <1>4, <1>5, <1>6, <1>9
  <2> QED
    BY <1>10, <2>1, MarkFacts
<1>12. views' = [written EXCEPT ![f][FullRange] = w]
  BY <1>2, <1>3, <1>7, <1>10
<1>13. /\ views' \in [Ranged -> [RangeKey -> View]]
       /\ \A g \in Ranged : \A r \in RangeKey :
            views'[g][r] = IF g = f /\ r = FullRange THEN w ELSE written[g][r]
  BY <1>4, <1>5, <1>9, <1>11, <1>12
<1>14. WriteArgs(c) = {dst} /\ ReadArgs(c) = {src} /\ KeyOf(c, dst) = FullRange /\ KeyOf(c, src) = FullRange
  BY <1>1, <1>2, <1>4 DEF WellFormed, WriteArgs, ReadArgs, KeyOf
<1>15. Follows(c, l)
  BY <1>3, <1>6, <1>14 DEF Follows
<1>16. ASSUME NEW g \in Ranged, NEW r \in RangeKey
       PROVE  /\ views'[g][r].write = IF g = h /\ r = FullRange THEN l ELSE views[g][r].write
              /\ views'[g][r].read \in {views[g][r].read, l}
              /\ r # FullRange => views'[g][r].read = views[g][r].read
  BY <1>4, <1>5, <1>8, <1>9, <1>11, <1>13
<1>17. Effect(c, l)
  <2>1. ASSUME NEW g \in Ranged, NEW r \in RangeKey
        PROVE  Raised(views[g][r].write, views'[g][r].write, l)
    BY <1>4, <1>6, <1>16, StayTyped DEF Raised
  <2>2. /\ bindlessMaxLayer' = bindlessMaxLayer /\ maxMeshLevel' = maxMeshLevel /\ unranged' = unranged
        /\ maxAccelReadLevel' = maxAccelReadLevel /\ maxAccelWriteLevel' = maxAccelWriteLevel
    BY <1>1 DEF levels
  <2>3. batch' = Append(batch, c) /\ layer' = Append(layer, l)
    BY <1>2, <1>3 DEF AddCommand
  <2>4. /\ \A g \in Ranged : \A r \in RangeKey : views[g][r].read \in Int
        /\ \A g \in Unranged : unranged[g].read \in Int /\ unranged[g].write \in Int
    BY <1>4, StayTyped
  <2> QED
    BY <1>4, <1>6, <1>13, <1>16, <2>1, <2>2, <2>3, <2>4, StayTyped DEF Effect, Raised
<1>18. Remembered(c, l)'
  <2>1. views'[h][FullRange].write = l
    BY <1>4, <1>5, <1>16
  <2> QED
    BY <1>1, <1>3, <1>5, <1>6, <1>14, <2>1 DEF Remembered
<1> QED
  BY <1>1, <1>6, <1>15, <1>17, <1>18 DEF Visited

\* The updates of an array and the builds of an acceleration structure.
LEMMA UpdateVisited ==
  ASSUME ReorderInv, NEW c \in Command, VisitBindlessArrayUpdate(c) \/ VisitAccelBuild(c)
  PROVE  \E l \in Nat : Visited(c, l)
<1>1. /\ c.tag \in {"BindlessArrayUpdate", "AccelBuild"} /\ Len(batch) < MaxBatch
      /\ UNCHANGED <<views, bindlessMaxLayer, maxMeshLevel, maxAccelReadLevel>>
  BY DEF VisitBindlessArrayUpdate, VisitAccelBuild, CanVisit, levels
<1>2. PICK dst \in Writes(c) :
        LET l == GetLastLayerWrite(dst.handle, FullRange)
        IN /\ unranged' = [unranged EXCEPT ![dst.handle] = SetWriteMark(@, l)]
           /\ AddCommand(c, l)
           /\ maxAccelWriteLevel' = IF c.tag = "AccelBuild" THEN Bigger(maxAccelWriteLevel, l)
                                                           ELSE maxAccelWriteLevel
  BY DEF VisitBindlessArrayUpdate, VisitAccelBuild, CanVisit, levels
<1>3. PICK h, l : h = dst.handle /\ l = GetLastLayerWrite(h, FullRange)
  OBVIOUS
<1>4. ReorderTyped /\ MarksInUse /\ WellFormed(c)
  BY CommandsAssumption DEF ReorderInv
<1>5. h \in Unranged /\ h \notin Ranged
  BY <1>1, <1>3, <1>4, HandlesAssumption DEF WellFormed, Unranged
<1>6. Fresh(l) /\ l \in Nat /\ l > unranged[h].write
  BY <1>3, <1>4, <1>5, UnrangedBounds, FreshNumber
<1>7. PICK v : v = SetWriteMark(unranged[h], l)
  OBVIOUS
<1>8. v \in View /\ v.write = l /\ v.read = unranged[h].read
  <2>1. unranged[h] \in View /\ l \in Int
    BY <1>4, <1>5, <1>6, StayTyped
  <2> QED
    BY <1>7, <2>1, MarkFacts
<1>9. unranged' = [unranged EXCEPT ![h] = v]
  BY <1>2, <1>3, <1>7
<1>10. WriteArgs(c) = {dst} /\ ReadArgs(c) = {} /\ KeyOf(c, dst) = FullRange
  BY <1>1, <1>2, <1>4 DEF WellFormed, WriteArgs, ReadArgs, KeyOf
<1>11. Follows(c, l)
  BY <1>3, <1>6, <1>10 DEF Follows
<1>12. /\ unranged' \in [Unranged -> View]
       /\ \A g \in Unranged : unranged'[g] = IF g = h THEN v ELSE unranged[g]
  BY <1>4, <1>5, <1>8, <1>9, StayTyped
<1>13. Raised(maxAccelWriteLevel, maxAccelWriteLevel', l) /\ (c.tag = "AccelBuild" => maxAccelWriteLevel' >= l)
  <2>1. maxAccelWriteLevel \in Int
    BY <1>4, StayTyped
  <2> QED
    BY <1>2, <1>3, <1>6, <2>1 DEF Raised, Bigger
<1>14. Effect(c, l)
  <2>1. ASSUME NEW g \in Unranged
        PROVE  /\ Raised(unranged[g].write, unranged'[g].write, l)
               /\ Raised(unranged[g].read, unranged'[g].read, l)
    BY <1>4, <1>6, <1>8, <1>12, StayTyped DEF Raised
  <2>2. batch' = Append(batch, c) /\ layer' = Append(layer, l)
    BY <1>2, <1>3 DEF AddCommand
  <2>3. \A g \in Ranged : \A r \in RangeKey : views[g][r].read \in Int /\ views[g][r].write \in Int
    BY <1>4, StayTyped
  <2> QED
    BY <1>1, <1>4, <1>6, <1>12, <1>13, <2>1, <2>2, <2>3, StayTyped DEF Effect, Raised
<1>15. Remembered(c, l)'
  <2>1. unranged'[h].write = l
    BY <1>5, <1>8, <1>12
  <2> QED
    BY <1>1, <1>3, <1>5, <1>6, <1>10, <1>13, <2>1 DEF Remembered
<1> QED
  BY <1>1, <1>6, <1>11, <1>14, <1>15 DEF Visited

\* Every query of a command is for a list after those in use.
LEMMA QueriesFresh ==
  ASSUME ReorderTyped, MarksInUse, NEW h \in Ranged \cup Unranged, NEW q
  PROVE  Fresh(GetLastLayerWrite(h, q)) /\ Fresh(GetLastLayerRead(h, q))
<1>1. CASE h \in Ranged
  BY <1>1, RangedWriteBounds, RangedReadBounds
<1>2. CASE h \in Unranged
  BY <1>2, UnrangedBounds
<1> QED
  BY <1>1, <1>2

LEMMA DispatchVisited ==
  ASSUME ReorderInv, NEW c \in Command, VisitShaderDispatch(c)
  PROVE  \E l \in Nat : Visited(c, l)
<1>1. /\ c.tag = "ShaderDispatch" /\ Len(batch) < MaxBatch
      /\ UNCHANGED <<maxMeshLevel, maxAccelWriteLevel>>
  BY DEF VisitShaderDispatch, CanVisit
<1>2. PICK S, l : /\ S = {0} \cup {GetLastLayerWrite(a.handle, a.range) : a \in DispatchWrites(c)}
                            \cup {GetLastLayerRead(a.handle, a.range) : a \in DispatchReads(c)}
                  /\ l = Max(S)
  OBVIOUS
<1>3. /\ AddCommand(c, l)
      /\ views' = [h \in Ranged |-> [r \in RangeKey |->
           LET v == IF \E a \in DispatchReads(c) : a.handle = h /\ a.range = r
                    THEN RaiseRead(views[h][r], l) ELSE views[h][r]
           IN IF \E a \in DispatchWrites(c) : a.handle = h /\ a.range = r
              THEN SetWriteMark(v, l) ELSE v]]
      /\ unranged' = [h \in Unranged |->
           IF \E a \in c.args : a.handle \in {h} THEN RaiseRead(unranged[h], l) ELSE unranged[h]]
      /\ bindlessMaxLayer' = IF \E a \in c.args : a.handle \in BindlessArrays
                             THEN Bigger(bindlessMaxLayer, l) ELSE bindlessMaxLayer
      /\ maxAccelReadLevel' = IF \E a \in c.args : a.handle \in Accels
                              THEN Bigger(maxAccelReadLevel, l) ELSE maxAccelReadLevel
  BY <1>2 DEF VisitShaderDispatch
<1>4. ReorderTyped /\ MarksInUse
  BY DEF ReorderInv
<1>5. /\ DispatchWrites(c) \subseteq c.args /\ DispatchReads(c) \subseteq c.args
      /\ \A a \in c.args : a.handle \in Ranged \cup Unranged /\ a.range \in RangeKey
      /\ \A a \in DispatchWrites(c) : a.handle \in Ranged
      /\ \A a \in c.args : a.handle \notin Ranged => a \in DispatchReads(c)
      /\ c.args \subseteq DispatchWrites(c) \cup DispatchReads(c)
  <2>1. \A a \in c.args : a.handle \in Ranged \cup Unranged /\ KeyOf(c, a) \in RangeKey
    BY CommandShape
  <2> QED
    BY <1>1, <2>1 DEF DispatchWrites, DispatchReads, KeyOf
<1>6. Fresh(l) /\ l \in Nat /\ \A y \in S : l >= y
  <2>1. \A x \in S : Fresh(x)
    <3>1. Fresh(0)
      BY <1>4, FreshZero
    <3>2. \A a \in c.args : Fresh(GetLastLayerWrite(a.handle, a.range)) /\ Fresh(GetLastLayerRead(a.handle, a.range))
      BY <1>4, <1>5, QueriesFresh
    <3> QED
      BY <1>2, <1>5, <3>1, <3>2
  <2>2. Fresh(Max(S)) /\ \A y \in S : Max(S) >= y
    BY <1>2, <1>4, <2>1, FreshMax
  <2> QED
    BY <1>2, <1>4, <2>2, FreshNumber
<1>7. /\ \A a \in DispatchWrites(c) : l >= GetLastLayerWrite(a.handle, a.range)
      /\ \A a \in DispatchReads(c) : l >= GetLastLayerRead(a.handle, a.range)
  BY <1>2, <1>6
<1>8. Follows(c, l)
  BY <1>1, <1>7 DEF Follows, WriteArgs, ReadArgs, KeyOf
<1>9. ASSUME NEW h \in Ranged, NEW r \in RangeKey
      PROVE  /\ views'[h][r] \in View
             /\ Raised(views[h][r].write, views'[h][r].write, l)
             /\ Raised(views[h][r].read, views'[h][r].read, l)
             /\ (\E a \in DispatchReads(c) : a.handle = h /\ a.range = r) => views'[h][r].read >= l
             /\ (\E a \in DispatchWrites(c) : a.handle = h /\ a.range = r) => views'[h][r].write >= l
  <2>1. PICK x, v, y : /\ x = views[h][r]
                       /\ v = IF \E a \in DispatchReads(c) : a.handle = h /\ a.range = r
                              THEN RaiseRead(x, l) ELSE x
                       /\ y = IF \E a \in DispatchWrites(c) : a.handle = h /\ a.range = r
                              THEN SetWriteMark(v, l) ELSE v
    OBVIOUS
  <2>2. views'[h][r] = y
    BY <1>3, <2>1
  <2>3. x \in View /\ x.read \in Int /\ x.write \in Int /\ l \in Int
    BY <1>4, <1>6, <2>1, StayTyped
  <2>4. /\ v \in View /\ v.write = x.write /\ Raised(x.read, v.read, l)
        /\ (\E a \in DispatchReads(c) : a.handle = h /\ a.range = r) => v.read >= l
    <3>1. /\ RaiseRead(x, l) \in View /\ RaiseRead(x, l).write = x.write
          /\ RaiseRead(x, l).read = IF l > x.read THEN l ELSE x.read
      BY <2>3, MarkFacts
    <3> QED
      BY <2>1, <2>3, <3>1 DEF Raised
  <2>5. (\E a \in DispatchWrites(c) : a.handle = h /\ a.range = r) => l > x.write
    <3>1. ASSUME NEW a \in DispatchWrites(c), a.handle = h, a.range = r
          PROVE  l > x.write
      <4>1. Collide(r, r)
        BY KeyFacts
      <4>2. GetLastLayerWrite(h, r) > views[h][r].write /\ GetLastLayerWrite(h, r) \in Nat
        BY <1>4, <4>1, RangedWriteBounds, FreshNumber
      <4> QED
        BY <1>6, <1>7, <2>1, <2>3, <3>1, <4>2
    <3> QED
      BY <3>1
  <2>6. /\ SetWriteMark(v, l) \in View /\ SetWriteMark(v, l).write = l /\ SetWriteMark(v, l).read = v.read
    BY <2>3, <2>4, MarkFacts
  <2> QED
    BY <1>6, <2>1, <2>2, <2>3, <2>4, <2>5, <2>6 DEF Raised
<1>10. ASSUME NEW h \in Unranged
       PROVE  /\ unranged'[h] \in View /\ unranged'[h].write = unranged[h].write
              /\ Raised(unranged[h].read, unranged'[h].read, l)
              /\ (\E a \in c.args : a.handle = h) => unranged'[h].read >= l
  <2>1. PICK x, y : /\ x = unranged[h]
                    /\ y = IF \E a \in c.args : a.handle \in {h} THEN RaiseRead(x, l) ELSE x
    OBVIOUS
  <2>2. unranged'[h] = y
    BY <1>3, <2>1
  <2>3. x \in View /\ x.read \in Int /\ x.write \in Int /\ l \in Int
    BY <1>4, <1>6, <2>1, StayTyped
  <2>4. /\ RaiseRead(x, l) \in View /\ RaiseRead(x, l).write = x.write
        /\ RaiseRead(x, l).read = IF l > x.read THEN l ELSE x.read
    BY <2>3, MarkFacts
  <2> QED
    BY <2>1, <2>2, <2>3, <2>4 DEF Raised
<1>11. /\ Raised(bindlessMaxLayer, bindlessMaxLayer', l) /\ Raised(maxAccelReadLevel, maxAccelReadLevel', l)
       /\ (\E a \in c.args : a.handle \in BindlessArrays) => bindlessMaxLayer' >= l
       /\ (\E a \in c.args : a.handle \in Accels) => maxAccelReadLevel' >= l
  <2>1. bindlessMaxLayer \in Int /\ maxAccelReadLevel \in Int
    BY <1>4, StayTyped
  <2> QED
    BY <1>3, <1>6, <2>1 DEF Raised, Bigger
<1>12. Effect(c, l)
  <2>1. views' \in [Ranged -> [RangeKey -> View]] /\ unranged' \in [Unranged -> View]
    <3>1. /\ views' = [h \in Ranged |-> [r \in RangeKey |-> views'[h][r]]]
          /\ unranged' = [h \in Unranged |-> unranged'[h]]
      BY <1>3
    <3> QED
      BY <1>9, <1>10, <3>1
  <2>2. batch' = Append(batch, c) /\ layer' = Append(layer, l)
    BY <1>3 DEF AddCommand
  <2>3. /\ Raised(maxMeshLevel, maxMeshLevel', l) /\ Raised(maxAccelWriteLevel, maxAccelWriteLevel', l)
        /\ \A h \in Unranged : Raised(unranged[h].write, unranged'[h].write, l)
    BY <1>1, <1>4, <1>10, StayTyped DEF Raised
  <2>4. \A h \in Ranged : \A r \in RangeKey : views'[h][r].read \in {views[h][r].read, l}
    BY <1>9 DEF Raised
  <2> QED
    BY <1>9, <1>10, <1>11, <2>1, <2>2, <2>3, <2>4 DEF Effect
<1>13. Remembered(c, l)'
  <2>1. ASSUME NEW a \in DispatchWrites(c)
        PROVE  a.handle \in Ranged /\ views'[a.handle][a.range].write >= l
    BY <1>5, <1>9
  <2>2. ASSUME NEW a \in DispatchReads(c)
        PROVE  /\ IF a.handle \in Ranged THEN views'[a.handle][a.range].read >= l
                                         ELSE unranged'[a.handle].read >= l
               /\ a.handle \in BindlessArrays => bindlessMaxLayer' >= l
               /\ a.handle \in Accels => maxAccelReadLevel' >= l
    BY <1>5, <1>9, <1>10, <1>11
  <2> QED
    BY <1>1, <2>1, <2>2 DEF Remembered, WriteArgs, KeyOf
<1> QED
  BY <1>1, <1>6, <1>8, <1>12, <1>13 DEF Visited

LEMMA MeshVisited ==
  ASSUME ReorderInv, NEW c \in Command, VisitMeshBuild(c)
  PROVE  \E l \in Nat : Visited(c, l)
<1>1. /\ c.tag = "MeshBuild" /\ Len(batch) < MaxBatch
      /\ UNCHANGED <<bindlessMaxLayer, maxAccelReadLevel, maxAccelWriteLevel>>
  BY DEF VisitMeshBuild, CanVisit
<1>2. PICK mesh \in Writes(c) :
       LET l == Max({GetLastLayerRead(a.handle, FullRange) : a \in Reads(c)}
                      \cup {GetLastLayerWrite(mesh.handle, FullRange)})
           read == {a.handle : a \in Reads(c)}
       IN /\ views' = [h \in Ranged |->
               IF h \in read THEN [views[h] EXCEPT ![FullRange] = RaiseRead(@, l)]
                             ELSE views[h]]
          /\ unranged' = [unranged EXCEPT ![mesh.handle] = SetWriteMark(@, l)]
          /\ maxMeshLevel' = Bigger(maxMeshLevel, l)
          /\ AddCommand(c, l)
  BY DEF VisitMeshBuild
<1>3. PICK S, m, l : /\ S = {GetLastLayerRead(a.handle, FullRange) : a \in Reads(c)}
                            \cup {GetLastLayerWrite(mesh.handle, FullRange)}
                     /\ m = mesh.handle /\ l = Max(S)
  OBVIOUS
<1>4. ReorderTyped /\ MarksInUse /\ WellFormed(c) /\ FullRange \in RangeKey
  BY CommandsAssumption, KeyFacts DEF ReorderInv
<1>5. m \in Unranged /\ m \notin Ranged
  BY <1>1, <1>3, <1>4, HandlesAssumption DEF WellFormed, Unranged
<1>6. Fresh(l) /\ l \in Nat /\ \A y \in S : l >= y
  <2>1. \A x \in S : Fresh(x)
    <3>1. \A a \in c.args : Fresh(GetLastLayerWrite(a.handle, FullRange)) /\ Fresh(GetLastLayerRead(a.handle, FullRange))
      BY <1>4, CommandShape, QueriesFresh
    <3> QED
      BY <1>3, <3>1 DEF Reads, Writes
  <2>2. Fresh(Max(S)) /\ \A y \in S : Max(S) >= y
    BY <1>3, <1>4, <2>1, FreshMax
  <2> QED
    BY <1>3, <1>4, <2>2, FreshNumber
<1>7. l > unranged[m].write
  <2>1. GetLastLayerWrite(m, FullRange) \in S
    BY <1>3
  <2>2. GetLastLayerWrite(m, FullRange) > unranged[m].write /\ GetLastLayerWrite(m, FullRange) \in Nat
    BY <1>4, <1>5, UnrangedBounds, FreshNumber
  <2>3. unranged[m].write \in Int
    BY <1>4, <1>5, StayTyped
  <2> QED
    BY <1>6, <2>1, <2>2, <2>3
<1>8. /\ WriteArgs(c) = {mesh} /\ ReadArgs(c) = Reads(c) /\ \A a \in c.args : KeyOf(c, a) = FullRange
  BY <1>1, <1>2, <1>4 DEF WellFormed, WriteArgs, ReadArgs, KeyOf
<1>9. Follows(c, l)
  <2>1. \A a \in Reads(c) : KeyOf(c, a) = FullRange /\ l >= GetLastLayerRead(a.handle, FullRange)
    BY <1>3, <1>6, <1>8 DEF Reads
  <2>2. KeyOf(c, mesh) = FullRange /\ l >= GetLastLayerWrite(mesh.handle, FullRange)
    BY <1>3, <1>6, <1>8 DEF Writes
  <2> QED
    BY <1>8, <2>1, <2>2 DEF Follows
<1>10. ASSUME NEW h \in Ranged
       PROVE  /\ views'[h] \in [RangeKey -> View]
              /\ \A r \in RangeKey : /\ Raised(views[h][r].write, views'[h][r].write, l)
                                     /\ Raised(views[h][r].read, views'[h][r].read, l)
  <2>1. PICK x : x = RaiseRead(views[h][FullRange], l)
    OBVIOUS
  <2>2. views'[h] = views[h] \/ views'[h] = [views[h] EXCEPT ![FullRange] = x]
    BY <1>2, <1>3, <2>1
  <2>3. /\ views[h] \in [RangeKey -> View] /\ l \in Int
        /\ \A r \in RangeKey : views[h][r] \in View /\ views[h][r].read \in Int /\ views[h][r].write \in Int
    BY <1>4, <1>6, StayTyped
  <2>4. /\ x \in View /\ x.write = views[h][FullRange].write
        /\ x.read = IF l > views[h][FullRange].read THEN l ELSE views[h][FullRange].read
    BY <1>4, <2>1, <2>3, MarkFacts
  <2>5. CASE views'[h] = views[h]
    BY <2>3, <2>5 DEF Raised
  <2>6. CASE views'[h] = [views[h] EXCEPT ![FullRange] = x]
    <3>1. \A r \in RangeKey : views'[h][r] = IF r = FullRange THEN x ELSE views[h][r]
      BY <2>3, <2>6
    <3>2. views'[h] \in [RangeKey -> View]
      BY <2>3, <2>4, <2>6
    <3> QED
      BY <1>4, <2>3, <2>4, <3>1, <3>2 DEF Raised
  <2> QED
    BY <2>2, <2>5, <2>6
<1>11. PICK v : v = SetWriteMark(unranged[m], l)
  OBVIOUS
<1>12. v \in View /\ v.write = l /\ v.read = unranged[m].read
  <2>1. unranged[m] \in View /\ l \in Int
    BY <1>4, <1>5, <1>6, StayTyped
  <2> QED
    BY <1>11, <2>1, MarkFacts
<1>13. unranged' = [unranged EXCEPT ![m] = v]
  BY <1>2, <1>3, <1>11
<1>14. /\ unranged' \in [Unranged -> View]
       /\ \A g \in Unranged : unranged'[g] = IF g = m THEN v ELSE unranged[g]
  BY <1>4, <1>5, <1>12, <1>13, StayTyped
<1>15. Raised(maxMeshLevel, maxMeshLevel', l) /\ maxMeshLevel' >= l
  <2>1. maxMeshLevel \in Int
    BY <1>4, StayTyped
  <2> QED
    BY <1>2, <1>3, <1>6, <2>1 DEF Raised, Bigger
<1>16. Effect(c, l)
  <2>1. views' \in [Ranged -> [RangeKey -> View]]
    <3>1. views' = [h \in Ranged |-> views'[h]]
      BY <1>2
    <3> QED
      BY <1>10, <3>1
  <2>2. batch' = Append(batch, c) /\ layer' = Append(layer, l)
    BY <1>2, <1>3 DEF AddCommand
  <2>3. ASSUME NEW g \in Unranged
        PROVE  /\ Raised(unranged[g].write, unranged'[g].write, l)
               /\ Raised(unranged[g].read, unranged'[g].read, l)
    BY <1>4, <1>6, <1>7, <1>12, <1>14, StayTyped DEF Raised
  <2>4. /\ Raised(bindlessMaxLayer, bindlessMaxLayer', l)
        /\ Raised(maxAccelReadLevel, maxAccelReadLevel', l) /\ Raised(maxAccelWriteLevel, maxAccelWriteLevel', l)
    BY <1>1, <1>4, StayTyped DEF Raised
  <2>5. \A h \in Ranged : \A r \in RangeKey : views'[h][r].read \in {views[h][r].read, l}
    BY <1>10 DEF Raised
  <2> QED
    BY <1>10, <1>14, <1>15, <2>1, <2>2, <2>3, <2>4, <2>5 DEF Effect
<1>17. Remembered(c, l)'
  <2>1. unranged'[m].write = l
    BY <1>5, <1>12, <1>14
  <2> QED
    BY <1>1, <1>3, <1>5, <1>6, <1>8, <1>15, <2>1 DEF Remembered
<1> QED
  BY <1>1, <1>6, <1>9, <1>16, <1>17 DEF Visited

-----------------------------------------------------------------------------
\* A later visit lowers no mark the hazards speak of: the read marks that a
\* transfer assigns are under a key that no kernel has.
LEMMA StillRemembered ==
  ASSUME ReorderTyped, NEW c, NEW l \in Nat, Effect(c, l), NEW d \in Command, NEW m \in Nat, Remembered(d, m)
  PROVE  Remembered(d, m)'
<1>1. \A a \in d.args : a.handle \in Ranged \cup Unranged /\ KeyOf(d, a) \in RangeKey
  BY CommandShape
<1>2. /\ WriteArgs(d) \subseteq d.args
      /\ d.tag = "ShaderDispatch" => DispatchReads(d) \subseteq d.args
  BY CommandShape DEF ReadArgs
<1>3. \A a \in d.args : a.range # FullRange
  BY CommandShape, BoundsAssumption DEF FullRange
<1>4. ASSUME NEW a \in WriteArgs(d)
      PROVE  IF a.handle \in Ranged THEN views'[a.handle][KeyOf(d, a)].write >= m
                                    ELSE unranged'[a.handle].write >= m
  <2>1. CASE a.handle \in Ranged
    <3>1. PICK x, y : /\ x = views[a.handle][KeyOf(d, a)].write /\ y = views'[a.handle][KeyOf(d, a)].write
      OBVIOUS
    <3>2. x \in Int /\ x >= m /\ Raised(x, y, l)
      BY <1>1, <1>2, <2>1, <3>1, StayTyped DEF Effect, Remembered
    <3> QED
      BY <2>1, <3>1, <3>2 DEF Raised
  <2>2. CASE a.handle \notin Ranged
    <3>1. PICK x, y : /\ x = unranged[a.handle].write /\ y = unranged'[a.handle].write
      OBVIOUS
    <3>2. x \in Int /\ x >= m /\ Raised(x, y, l)
      BY <1>1, <1>2, <2>2, <3>1, StayTyped DEF Effect, Remembered
    <3> QED
      BY <2>2, <3>1, <3>2 DEF Raised
  <2> QED
    BY <2>1, <2>2
<1>5. ASSUME d.tag = "ShaderDispatch", NEW a \in DispatchReads(d)
      PROVE  IF a.handle \in Ranged THEN views'[a.handle][a.range].read >= m
                                    ELSE unranged'[a.handle].read >= m
  <2>1. CASE a.handle \in Ranged
    <3>1. PICK x, y : /\ x = views[a.handle][a.range].read /\ y = views'[a.handle][a.range].read
      OBVIOUS
    <3>2. a.range \in RangeKey /\ a.range # FullRange
      BY <1>1, <1>2, <1>3, <1>5 DEF KeyOf
    <3>3. x \in Int /\ x >= m /\ Raised(x, y, l)
      BY <1>5, <2>1, <3>1, <3>2, StayTyped DEF Effect, Remembered
    <3> QED
      BY <2>1, <3>1, <3>3 DEF Raised
  <2>2. CASE a.handle \notin Ranged
    <3>1. PICK x, y : /\ x = unranged[a.handle].read /\ y = unranged'[a.handle].read
      OBVIOUS
    <3>2. x \in Int /\ x >= m /\ Raised(x, y, l)
      BY <1>1, <1>2, <1>5, <2>2, <3>1, StayTyped DEF Effect, Remembered
    <3> QED
      BY <2>2, <3>1, <3>2 DEF Raised
  <2> QED
    BY <2>1, <2>2
<1>6. /\ bindlessMaxLayer >= m => bindlessMaxLayer' >= m
      /\ maxAccelReadLevel >= m => maxAccelReadLevel' >= m
      /\ maxAccelWriteLevel >= m => maxAccelWriteLevel' >= m
      /\ maxMeshLevel >= m => maxMeshLevel' >= m
  BY StayTyped DEF Effect, Raised
<1>7. WriteArgs(d)' = WriteArgs(d)
  BY DEF WriteArgs, DispatchWrites
<1> QED
  BY <1>4, <1>5, <1>6 DEF Remembered

\* What a command writes is looked up, and marked, as a write; and so for reads.
LEMMA AccessesLookedUp ==
  ASSUME NEW c \in Command, ~WritesAccel(c)
  PROVE  /\ \A a \in Writes(c) : a \in WriteArgs(c)
         /\ \A a \in Reads(c) : a \in WriteArgs(c) \/ a \in ReadArgs(c)
<1>1. CASE c.tag = "ShaderDispatch"
  <2>1. \A a \in Writes(c) : a.handle \in Ranged
    <3>1. \A a \in Writes(c) : a \in c.args /\ IsWrite(a) /\ a.handle \notin Accels
      BY <1>1 DEF Writes, WritesAccel
    <3>2. \A a \in Writes(c) : a.handle \notin Meshes /\ a.handle \notin BindlessArrays
      BY <1>1, <3>1, CommandShape DEF Carries, IsWrite
    <3> QED
      BY <3>1, <3>2, CommandShape DEF Unranged
  <2> QED
    BY <1>1, <2>1 DEF WriteArgs, ReadArgs, DispatchWrites, DispatchReads, Writes, Reads
<1>2. CASE c.tag # "ShaderDispatch"
  BY <1>2 DEF WriteArgs, ReadArgs
<1> QED
  BY <1>1, <1>2

LEMMA KeysCollide ==
  ASSUME NEW c \in Command, NEW d \in Command, NEW a \in c.args, NEW b \in d.args, Overlap(a, b)
  PROVE  /\ a.handle = b.handle /\ KeyOf(c, a) \in RangeKey /\ KeyOf(d, b) \in RangeKey
         /\ Collide(KeyOf(c, a), KeyOf(d, b))
<1>1. a.handle = b.handle /\ Collide(a.range, b.range)
  BY DEF Overlap
<1>2. KeyOf(c, a) \in RangeKey /\ KeyOf(d, b) \in RangeKey
  BY CommandShape
<1>3. KeyOf(c, a) \in {a.range, FullRange} /\ KeyOf(d, b) \in {b.range, FullRange}
  BY DEF KeyOf
<1> QED
  BY <1>1, <1>2, <1>3, KeyFacts

\* The command that follows is put after a marked write of the same part.
LEMMA AfterWrite ==
  ASSUME ReorderTyped, MarksInUse, NEW d \in Command, NEW c \in Command, NEW m \in Nat, NEW l \in Nat,
         Remembered(d, m), Follows(c, l),
         NEW a \in WriteArgs(d), NEW b \in WriteArgs(c) \cup ReadArgs(c), Overlap(a, b)
  PROVE  m < l
<1>1. a \in d.args /\ b \in c.args
  BY CommandShape
<1>2. PICK h, k, q : h = a.handle /\ k = KeyOf(d, a) /\ q = KeyOf(c, b)
  OBVIOUS
<1>3. h = b.handle /\ k \in RangeKey /\ q \in RangeKey /\ Collide(k, q) /\ h \in Ranged \cup Unranged
  BY <1>1, <1>2, KeysCollide, CommandShape
<1>4. \E x \in Nat : (x = GetLastLayerWrite(h, q) \/ x = GetLastLayerRead(h, q)) /\ l >= x
  <2>1. l >= GetLastLayerWrite(h, q) \/ l >= GetLastLayerRead(h, q)
    BY <1>2, <1>3 DEF Follows
  <2>2. GetLastLayerWrite(h, q) \in Nat /\ GetLastLayerRead(h, q) \in Nat
    BY <1>3, QueriesFresh, FreshNumber
  <2> QED
    BY <2>1, <2>2
<1>5. PICK x \in Nat : (x = GetLastLayerWrite(h, q) \/ x = GetLastLayerRead(h, q)) /\ l >= x
  BY <1>4
<1>6. CASE h \in Ranged
  <2>1. PICK w \in Int : w = views[h][k].write
    BY <1>3, <1>6, StayTyped
  <2>2. w >= m
    BY <1>2, <1>6, <2>1 DEF Remembered
  <2>3. x > w
    BY <1>3, <1>5, <1>6, <2>1, RangedWriteBounds, RangedReadBounds
  <2> QED
    BY <1>5, <2>1, <2>2, <2>3
<1>7. CASE h \notin Ranged
  <2>1. PICK w \in Int : w = unranged[h].write
    BY <1>3, <1>7, StayTyped
  <2>2. w >= m
    BY <1>2, <1>7, <2>1 DEF Remembered
  <2>3. x > w
    BY <1>3, <1>5, <1>7, <2>1, UnrangedBounds
  <2> QED
    BY <1>5, <2>1, <2>2, <2>3
<1> QED
  BY <1>6, <1>7

\* And after a marked read of a kernel, when it writes.
LEMMA AfterRead ==
  ASSUME ReorderTyped, MarksInUse, NEW d \in Command, NEW c \in Command, NEW m \in Nat, NEW l \in Nat,
         Remembered(d, m), Follows(c, l), d.tag = "ShaderDispatch",
         NEW a \in DispatchReads(d), NEW b \in WriteArgs(c), Overlap(a, b)
  PROVE  m < l
<1>1. a \in d.args /\ b \in c.args
  BY CommandShape DEF DispatchReads
<1>2. PICK h, k, q : h = a.handle /\ k = a.range /\ q = KeyOf(c, b)
  OBVIOUS
<1>3. h = b.handle /\ k \in RangeKey /\ q \in RangeKey /\ Collide(k, q) /\ h \in Ranged \cup Unranged
  <2>1. k = KeyOf(d, a)
    BY <1>2 DEF KeyOf
  <2> QED
    BY <1>1, <1>2, <2>1, KeysCollide, CommandShape
<1>4. PICK x \in Nat : x = GetLastLayerWrite(h, q) /\ l >= x
  <2>1. l >= GetLastLayerWrite(h, q)
    BY <1>2, <1>3 DEF Follows
  <2>2. GetLastLayerWrite(h, q) \in Nat
    BY <1>3, QueriesFresh, FreshNumber
  <2> QED
    BY <2>1, <2>2
<1>5. CASE h \in Ranged
  <2>1. PICK w \in Int : w = views[h][k].read
    BY <1>3, <1>5, StayTyped
  <2>2. w >= m
    BY <1>2, <1>5, <2>1 DEF Remembered
  <2>3. x > w
    BY <1>3, <1>4, <1>5, <2>1, RangedWriteBounds
  <2> QED
    BY <1>4, <2>1, <2>2, <2>3
<1>6. CASE h \notin Ranged
  <2>1. PICK w \in Int : w = unranged[h].read
    BY <1>3, <1>6, StayTyped
  <2>2. w >= m
    BY <1>2, <1>6, <2>1 DEF Remembered
  <2>3. x > w
    BY <1>3, <1>4, <1>6, <2>1, UnrangedBounds
  <2> QED
    BY <1>4, <2>1, <2>2, <2>3
<1> QED
  BY <1>5, <1>6

LEMMA AfterBindlessRead ==
  ASSUME ReorderTyped, MarksInUse, NEW d \in Command, NEW c \in Command, NEW m \in Nat, NEW l \in Nat,
         Remembered(d, m), Follows(c, l), BindlessReadThenWrite(d, c)
  PROVE  m < l
<1>1. PICK b \in Writes(c) : b.handle \in ReadsThrough(d)
  BY DEF BindlessReadThenWrite
<1>2. PICK a \in Reads(d) : d.tag = "ShaderDispatch" /\ <<a.handle, b.handle>> \in Resident
  BY <1>1 DEF ReadsThrough
<1>3. a.handle \in BindlessArrays /\ b.handle \in Ranged
  BY <1>2, HandlesAssumption
<1>4. a.handle \in Unranged /\ a.handle \notin Ranged /\ a \in DispatchReads(d)
  BY <1>3, HandlesAssumption DEF Unranged, DispatchReads, DispatchWrites, Reads
<1>5. b \in WriteArgs(c) /\ b \in c.args
  BY <1>1, <1>3 DEF WriteArgs, DispatchWrites, Writes
<1>6. PICK A, h, q : A = a.handle /\ h = b.handle /\ q = KeyOf(c, b)
  OBVIOUS
<1>7. PICK x \in Nat : x = GetLastLayerWrite(h, q) /\ l >= x
  <2>1. l >= GetLastLayerWrite(h, q)
    BY <1>5, <1>6 DEF Follows
  <2>2. GetLastLayerWrite(h, q) \in Nat
    BY <1>3, <1>6, QueriesFresh, FreshNumber
  <2> QED
    BY <2>1, <2>2
<1>8. PICK r \in Int, n \in Int : r = unranged[A].read /\ n = bindlessMaxLayer
  BY <1>4, <1>6, StayTyped
<1>9. r >= m /\ n >= m
  BY <1>2, <1>3, <1>4, <1>6, <1>8 DEF Remembered
<1>10. A \in ArrayHolding(h)
  BY <1>2, <1>3, <1>6 DEF ArrayHolding
<1>11. x > r \/ x > n
  BY <1>3, <1>6, <1>7, <1>8, <1>10, RangedWriteBounds
<1> QED
  BY <1>7, <1>9, <1>11

LEMMA AfterAccel ==
  ASSUME ReorderTyped, MarksInUse, NEW d \in Command, NEW c \in Command, NEW m \in Nat, NEW l \in Nat,
         Remembered(d, m), Follows(c, l), AccelHazard(d, c)
  PROVE  m < l
<1>1. CASE MeshThenAccelBuild(d, c)
  <2>1. d.tag = "MeshBuild" /\ c.tag = "AccelBuild"
    BY <1>1 DEF MeshThenAccelBuild
  <2>2. PICK b \in c.args : b.handle \in Accels
    BY <1>1, HandlesAssumption DEF MeshThenAccelBuild, MeshesOf
  <2>3. b \in WriteArgs(c)
    BY <2>1, <2>2, CommandShape DEF Carries, WriteArgs, Writes, IsWrite
  <2>4. PICK h, q : h = b.handle /\ q = KeyOf(c, b)
    OBVIOUS
  <2>5. h \in Unranged
    BY <2>2, <2>4 DEF Unranged
  <2>6. PICK x \in Nat : x = GetLastLayerWrite(h, q) /\ l >= x
    BY <2>3, <2>4, <2>5, QueriesFresh, FreshNumber DEF Follows
  <2>7. x > maxMeshLevel /\ maxMeshLevel >= m /\ maxMeshLevel \in Int
    BY <2>1, <2>2, <2>4, <2>5, <2>6, UnrangedBounds, StayTyped DEF Remembered
  <2> QED
    BY <2>6, <2>7
<1>2. CASE AccelUseThenMesh(d, c)
  <2>1. c.tag = "MeshBuild"
    BY <1>2 DEF AccelUseThenMesh
  <2>2. PICK b \in Writes(c) : b.handle \in MeshesOf(d)
    BY <1>2 DEF AccelUseThenMesh
  <2>3. PICK a \in d.args : a.handle \in Accels
    BY <2>2, HandlesAssumption DEF MeshesOf
  <2>4. b \in WriteArgs(c) /\ b.handle \in Meshes
    BY <2>1, <2>2 DEF WriteArgs, MeshesOf
  <2>5. PICK h, q : h = b.handle /\ q = KeyOf(c, b)
    OBVIOUS
  <2>6. h \in Unranged
    BY <2>4, <2>5 DEF Unranged
  <2>7. PICK x \in Nat : x = GetLastLayerWrite(h, q) /\ l >= x
    BY <2>4, <2>5, <2>6, QueriesFresh, FreshNumber DEF Follows
  <2>8. /\ x > maxAccelReadLevel /\ x > maxAccelWriteLevel
        /\ maxAccelReadLevel \in Int /\ maxAccelWriteLevel \in Int
    BY <2>4, <2>5, <2>6, <2>7, UnrangedBounds, StayTyped
  <2>9. d.tag = "AccelBuild" \/ d.tag = "ShaderDispatch"
    BY <2>3, CommandShape DEF Carries
  <2>10. maxAccelReadLevel >= m \/ maxAccelWriteLevel >= m
    <3>1. a.handle \notin Ranged
      BY <2>3, HandlesAssumption DEF Unranged
    <3>2. d.tag = "ShaderDispatch" => a \in DispatchReads(d)
      BY <3>1 DEF DispatchReads, DispatchWrites
    <3> QED
      BY <2>3, <2>9, <3>2 DEF Remembered
  <2> QED
    BY <2>7, <2>8, <2>10
<1> QED
  BY <1>1, <1>2 DEF AccelHazard

\* Of two commands that must not be exchanged the second is put after the first.
LEMMA HazardOrdered ==
  ASSUME ReorderTyped, MarksInUse, NEW d \in Command, NEW c \in Command, NEW m \in Nat, NEW l \in Nat,
         Remembered(d, m), Follows(c, l), Hazard(d, c)
  PROVE  m < l
<1>1. CASE WriteHazard(d, c)
  <2>1. PICK a \in Writes(d), b \in Reads(c) \cup Writes(c) : Overlap(a, b)
    BY <1>1 DEF WriteHazard, WriteThen
  <2>2. a \in WriteArgs(d) /\ b \in WriteArgs(c) \cup ReadArgs(c)
    BY <1>1, <2>1, AccessesLookedUp DEF WriteHazard
  <2> QED
    BY <2>1, <2>2, AfterWrite
<1>2. CASE KernelReadHazard(d, c)
  <2>1. d.tag = "ShaderDispatch" /\ ~WritesAccel(c)
    BY <1>2 DEF KernelReadHazard
  <2>2. PICK a \in Reads(d), b \in Writes(c) : Overlap(a, b)
    BY <1>2 DEF KernelReadHazard, ReadThenWrite
  <2>3. b \in WriteArgs(c)
    BY <2>1, <2>2, AccessesLookedUp
  <2>4. a \in WriteArgs(d) \/ a \in DispatchReads(d)
    BY <2>1, <2>2 DEF WriteArgs, DispatchReads, Reads
  <2> QED
    BY <2>1, <2>2, <2>3, <2>4, AfterWrite, AfterRead
<1>3. CASE BindlessReadThenWrite(d, c)
  BY <1>3, AfterBindlessRead
<1>4. CASE AccelHazard(d, c)
  BY <1>4, AfterAccel
<1> QED
  BY <1>1, <1>2, <1>3, <1>4 DEF Hazard

-----------------------------------------------------------------------------
LEMMA VisitedTyped ==
  ASSUME ReorderInv, NEW c \in Command, NEW l \in Nat, Visited(c, l)
  PROVE  /\ ReorderTyped'
         /\ DOMAIN batch' = 1 .. (Len(batch) + 1) /\ DOMAIN batch = 1 .. Len(batch) /\ Len(batch) \in Nat
         /\ \A i \in DOMAIN batch : batch'[i] = batch[i] /\ layer'[i] = layer[i] /\ layer[i] \in Nat
                                    /\ batch[i] \in Command
         /\ batch'[Len(batch) + 1] = c /\ layer'[Len(batch) + 1] = l
         /\ DOMAIN layer = DOMAIN batch /\ DOMAIN layer' = DOMAIN batch'
<1>1. /\ ReorderTyped /\ Fresh(l) /\ Effect(c, l) /\ Len(batch) < MaxBatch
  BY DEF ReorderInv, Visited
<1>2. /\ batch \in Seq(Command) /\ layer \in Seq(Nat) /\ Len(layer) = Len(batch) /\ Len(batch) \in Nat
      /\ batch' = Append(batch, c) /\ layer' = Append(layer, l)
      /\ \A i \in DOMAIN layer : layer[i] < Len(batch)
  BY <1>1 DEF ReorderTyped, Effect
<1>3. /\ batch' \in Seq(Command) /\ layer' \in Seq(Nat)
      /\ Len(batch') = Len(batch) + 1 /\ Len(layer') = Len(batch) + 1
      /\ DOMAIN batch = 1 .. Len(batch) /\ DOMAIN layer = 1 .. Len(batch)
      /\ DOMAIN batch' = 1 .. (Len(batch) + 1) /\ DOMAIN layer' = 1 .. (Len(batch) + 1)
  BY <1>2
<1>4. /\ \A i \in DOMAIN batch : batch'[i] = batch[i] /\ layer'[i] = layer[i] /\ layer[i] \in Nat
                                 /\ batch[i] \in Command
      /\ batch'[Len(batch) + 1] = c /\ layer'[Len(batch) + 1] = l
  BY <1>2, <1>3
<1>5. \A i \in DOMAIN layer' : layer'[i] < Len(batch')
  <2>1. l < Len(batch')
    BY <1>1, <1>3, FreshNumber, <1>2
  <2> QED
    BY <1>2, <1>3, <1>4, <2>1
<1>6. /\ bindlessMaxLayer' \in Int /\ maxMeshLevel' \in Int
      /\ maxAccelReadLevel' \in Int /\ maxAccelWriteLevel' \in Int
  BY <1>1, StayTyped DEF Effect, Raised
<1>7. Len(batch') <= MaxBatch
  BY <1>1, <1>2, <1>3, BoundsAssumption
<1>8. ReorderTyped'
  BY <1>1, <1>3, <1>5, <1>6, <1>7 DEF ReorderTyped, Effect
<1> QED
  BY <1>2, <1>3, <1>4, <1>8

\* Marks go to the list of the visited command or stay.
LEMMA VisitedMarks ==
  ASSUME ReorderInv, NEW c \in Command, NEW l \in Nat, Visited(c, l)
  PROVE  MarksInUse'
<1>1. Effect(c, l) /\ MarksInUse
  BY DEF ReorderInv, Visited
<1>2. ASSUME NEW x, NEW y, InUse(x), y \in {x, l}
      PROVE  y = -1 \/ \E j \in DOMAIN layer' : layer'[j] = y
  <2>1. CASE y = l
    <3>1. Len(batch) + 1 \in DOMAIN layer' /\ layer'[Len(batch) + 1] = l
      BY VisitedTyped
    <3> QED
      BY <2>1, <3>1
  <2>2. CASE y = x /\ x # -1
    <3>1. PICK j \in DOMAIN layer : layer[j] = x
      BY <1>2, <2>2 DEF InUse
    <3>2. j \in DOMAIN layer' /\ layer'[j] = x
      BY <3>1, VisitedTyped
    <3> QED
      BY <2>2, <3>2
  <2> QED
    BY <1>2, <2>1, <2>2
<1>3. \A h \in Ranged : \A r \in RangeKey : InUse(views[h][r].read)' /\ InUse(views[h][r].write)'
  <2>1. ASSUME NEW h \in Ranged, NEW r \in RangeKey
        PROVE  InUse(views[h][r].read)' /\ InUse(views[h][r].write)'
    <3>1. /\ InUse(views[h][r].read) /\ InUse(views[h][r].write)
          /\ views'[h][r].read \in {views[h][r].read, l} /\ views'[h][r].write \in {views[h][r].write, l}
      BY <1>1 DEF MarksInUse, Effect, Raised
    <3> QED
      BY <1>2, <3>1 DEF InUse
  <2> QED
    BY <2>1
<1>4. \A h \in Unranged : InUse(unranged[h].read)' /\ InUse(unranged[h].write)'
  <2>1. ASSUME NEW h \in Unranged
        PROVE  InUse(unranged[h].read)' /\ InUse(unranged[h].write)'
    <3>1. /\ InUse(unranged[h].read) /\ InUse(unranged[h].write)
          /\ unranged'[h].read \in {unranged[h].read, l} /\ unranged'[h].write \in {unranged[h].write, l}
      BY <1>1 DEF MarksInUse, Effect, Raised
    <3> QED
      BY <1>2, <3>1 DEF InUse
  <2> QED
    BY <2>1
<1>5. /\ InUse(bindlessMaxLayer)' /\ InUse(maxMeshLevel)'
      /\ InUse(maxAccelReadLevel)' /\ InUse(maxAccelWriteLevel)'
  <2>1. /\ InUse(bindlessMaxLayer) /\ InUse(maxMeshLevel) /\ InUse(maxAccelReadLevel) /\ InUse(maxAccelWriteLevel)
        /\ bindlessMaxLayer' \in {bindlessMaxLayer, l} /\ maxMeshLevel' \in {maxMeshLevel, l}
        /\ maxAccelReadLevel' \in {maxAccelReadLevel, l} /\ maxAccelWriteLevel' \in {maxAccelWriteLevel, l}
    BY <1>1 DEF MarksInUse, Effect, Raised
  <2> QED
    BY <1>2, <2>1 DEF InUse
<1> QED
  BY <1>3, <1>4, <1>5 DEF MarksInUse

\* No list below that of the visited command is empty: the one just below it has
\* a command, and what is below that one has been filled before.
LEMMA VisitedFills ==
  ASSUME ReorderInv, NEW c \in Command, NEW l \in Nat, Visited(c, l)
  PROVE  NoEmptyList'
<1>1. NoEmptyList /\ Fresh(l)
  BY DEF ReorderInv, Visited
<1>2. ASSUME NEW i \in DOMAIN batch', NEW k \in 0 .. layer'[i]
      PROVE  \E j \in DOMAIN batch' : layer'[j] = k
  <2>1. CASE i \in DOMAIN batch
    <3>1. PICK j \in DOMAIN batch : layer[j] = k
      BY <1>1, <1>2, <2>1, VisitedTyped DEF NoEmptyList
    <3> QED
      BY <3>1, VisitedTyped
  <2>2. CASE i \notin DOMAIN batch
    <3>1. i = Len(batch) + 1 /\ layer'[i] = l
      BY <1>2, <2>2, VisitedTyped
    <3>2. CASE k = l
      BY <1>2, <3>1, <3>2
    <3>3. CASE k # l
      <4>1. l # 0 /\ k \in 0 .. (l - 1)
        BY <1>2, <3>1, <3>3
      <4>2. PICK j \in DOMAIN layer : layer[j] = l - 1
        BY <1>1, <4>1 DEF Fresh
      <4>3. j \in DOMAIN batch /\ k \in 0 .. layer[j]
        BY <4>1, <4>2, VisitedTyped
      <4>4. PICK n \in DOMAIN batch : layer[n] = k
        BY <1>1, <4>3 DEF NoEmptyList
      <4> QED
        BY <4>4, VisitedTyped
    <3> QED
      BY <3>2, <3>3
  <2> QED
    BY <2>1, <2>2
<1> QED
  BY <1>2 DEF NoEmptyList

LEMMA VisitedKeeps ==
  ASSUME ReorderInv, NEW c \in Command, NEW l \in Nat, Visited(c, l)
  PROVE  ReorderInv'
<1>1. /\ ReorderTyped /\ MarksInUse /\ LayersOrdered /\ \A i \in DOMAIN batch : Remembered(batch[i], layer[i])
      /\ Follows(c, l) /\ Effect(c, l) /\ Remembered(c, l)'
  BY DEF ReorderInv, Visited
<1>2. ReorderTyped' /\ MarksInUse' /\ NoEmptyList'
  BY VisitedTyped, VisitedMarks, VisitedFills
<1>3. \A i \in DOMAIN batch' : i \in DOMAIN batch \/ i = Len(batch) + 1
  BY VisitedTyped
<1>4. LayersOrdered'
  <2>1. ASSUME NEW i \in DOMAIN batch', NEW j \in DOMAIN batch', i < j, Hazard(batch'[i], batch'[j])
        PROVE  layer'[i] < layer'[j]
    <3>1. i \in DOMAIN batch
      BY <1>3, <2>1, VisitedTyped
    <3>2. CASE j \in DOMAIN batch
      <4>1. Hazard(batch[i], batch[j])
        BY <2>1, <3>1, <3>2, VisitedTyped
      <4> QED
        BY <1>1, <2>1, <3>1, <3>2, <4>1, VisitedTyped DEF LayersOrdered
    <3>3. CASE j = Len(batch) + 1
      <4>1. /\ batch[i] \in Command /\ layer[i] \in Nat /\ batch'[i] = batch[i] /\ layer'[i] = layer[i]
            /\ batch'[j] = c /\ layer'[j] = l
        BY <3>1, <3>3, VisitedTyped
      <4>2. Hazard(batch[i], c) /\ Remembered(batch[i], layer[i])
        BY <1>1, <2>1, <3>1, <4>1
      <4> QED
        BY <1>1, <4>1, <4>2, HazardOrdered
    <3> QED
      BY <1>3, <3>2, <3>3
  <2> QED
    BY <2>1 DEF LayersOrdered
<1>5. ASSUME NEW i \in DOMAIN batch'
      PROVE  Remembered(batch[i], layer[i])'
  <2>1. CASE i \in DOMAIN batch
    <3>1. PICK d, m : d = batch[i] /\ m = layer[i]
      OBVIOUS
    <3>2. /\ d \in Command /\ m \in Nat /\ batch'[i] = d /\ layer'[i] = m /\ Remembered(d, m)
      BY <1>1, <2>1, <3>1, VisitedTyped
    <3>3. Remembered(d, m)'
      BY <1>1, <3>2, StillRemembered
    <3> QED
      BY <3>2, <3>3 DEF Remembered, WriteArgs, DispatchReads, DispatchWrites, KeyOf
  <2>2. CASE i = Len(batch) + 1
    <3>1. batch'[i] = c /\ layer'[i] = l
      BY <2>2, VisitedTyped
    <3> QED
      BY <1>1, <3>1 DEF Remembered, WriteArgs, DispatchReads, DispatchWrites, KeyOf
  <2> QED
    BY <1>3, <1>5, <2>1, <2>2
<1> QED
  BY <1>2, <1>4, <1>5 DEF ReorderInv

-----------------------------------------------------------------------------
\* What the visitor starts from, and what clear() leaves.
LEMMA ClearHolds ==
  /\ Init => ReorderInv
  /\ Clear => ReorderInv'
<1>1. NoView \in View /\ NoView.read = -1 /\ NoView.write = -1
  BY DEF NoView, View
<1>2. ASSUME Init PROVE ReorderInv
  <2>1. batch = <<>> /\ layer = <<>> /\ DOMAIN batch = {} /\ DOMAIN layer = {}
    BY <1>2 DEF Init
  <2>2. batch \in Seq(Command) /\ layer \in Seq(Nat) /\ Len(batch) = 0 /\ Len(layer) = 0
    BY <2>1
  <2>3. views = [h \in Ranged |-> [r \in RangeKey |-> NoView]] /\ unranged = [h \in Unranged |-> NoView]
    BY <1>2 DEF Init
  <2>4. /\ views \in [Ranged -> [RangeKey -> View]] /\ unranged \in [Unranged -> View]
        /\ \A h \in Ranged : \A r \in RangeKey : views[h][r] = NoView
        /\ \A h \in Unranged : unranged[h] = NoView
    BY <1>1, <2>3
  <2>5. ReorderTyped
    BY <1>2, <2>1, <2>2, <2>4, BoundsAssumption DEF ReorderTyped, Init
  <2>6. MarksInUse
    BY <1>1, <1>2, <2>4 DEF MarksInUse, InUse, Init
  <2> QED
    BY <2>1, <2>5, <2>6 DEF ReorderInv, NoEmptyList, LayersOrdered
<1>3. ASSUME Clear PROVE ReorderInv'
  <2>1. batch' = <<>> /\ layer' = <<>> /\ DOMAIN batch' = {} /\ DOMAIN layer' = {}
    BY <1>3 DEF Clear
  <2>2. batch' \in Seq(Command) /\ layer' \in Seq(Nat) /\ Len(batch') = 0 /\ Len(layer') = 0
    BY <2>1
  <2>3. views' = [h \in Ranged |-> [r \in RangeKey |-> NoView]] /\ unranged' = [h \in Unranged |-> NoView]
    BY <1>3 DEF Clear
  <2>4. /\ views' \in [Ranged -> [RangeKey -> View]] /\ unranged' \in [Unranged -> View]
        /\ \A h \in Ranged : \A r \in RangeKey : views'[h][r] = NoView
        /\ \A h \in Unranged : unranged'[h] = NoView
    BY <1>1, <2>3
  <2>5. ReorderTyped'
    BY <1>3, <2>1, <2>2, <2>4, BoundsAssumption DEF ReorderTyped, Clear
  <2>6. MarksInUse'
    BY <1>1, <1>3, <2>4 DEF MarksInUse, InUse, Clear
  <2> QED
    BY <2>1, <2>5, <2>6 DEF ReorderInv, NoEmptyList, LayersOrdered
<1> QED
  BY <1>2, <1>3

\* Every visit puts its command into the first list that it may run in.
LEMMA VisitIsVisited ==
  ASSUME ReorderInv, NEW c \in Command, Visit(c)
  PROVE  \E l \in Nat : Visited(c, l)
BY UploadVisited, DownloadVisited, CopyVisited, DispatchVisited, UpdateVisited, MeshVisited DEF Visit

LEMMA NothingKeeps == ReorderInv /\ UNCHANGED vars => ReorderInv'
<1> SUFFICES ASSUME ReorderInv, UNCHANGED vars PROVE ReorderInv'
  OBVIOUS
<1>1. /\ views' = views /\ unranged' = unranged /\ batch' = batch /\ layer' = layer
      /\ bindlessMaxLayer' = bindlessMaxLayer /\ maxMeshLevel' = maxMeshLevel
      /\ maxAccelReadLevel' = maxAccelReadLevel /\ maxAccelWriteLevel' = maxAccelWriteLevel
  BY DEF vars, levels
<1>2. ReorderTyped' /\ MarksInUse' /\ NoEmptyList' /\ LayersOrdered'
  BY <1>1 DEF ReorderInv, ReorderTyped, MarksInUse, InUse, NoEmptyList, LayersOrdered, Hazard, WriteHazard,
              KernelReadHazard, BindlessReadThenWrite, AccelHazard, WriteThen, WritesAccel, ReadThenWrite,
              MeshThenAccelBuild, AccelUseThenMesh
<1>3. ASSUME NEW i \in DOMAIN batch' PROVE Remembered(batch[i], layer[i])'
  <2>1. Remembered(batch[i], layer[i])
    BY <1>1, <1>3 DEF ReorderInv
  <2> QED
    BY <1>1, <2>1 DEF Remembered, WriteArgs, DispatchReads, DispatchWrites, KeyOf
<1> QED
  BY <1>2, <1>3 DEF ReorderInv

LEMMA ReorderStart == Init => ReorderInv
BY ClearHolds

LEMMA ReorderStep == ReorderInv /\ [Next]_vars => ReorderInv'
BY ClearHolds, VisitIsVisited, VisitedKeeps, NothingKeeps DEF Next

\* The visitor's marks say enough of what is in the lists: every mark is of a list
\* in use, no list is empty, and the marks of a command are never taken back below
\* its list where a later command looks for them.
THEOREM ReorderConsistent == Spec => []ReorderInv
BY ReorderStart, ReorderStep, PTL DEF Spec

LEMMA ReorderTypes == ReorderInv => TypeOK
<1> SUFFICES ASSUME ReorderInv PROVE TypeOK
  OBVIOUS
<1>1. ReorderTyped /\ MarksInUse
  BY DEF ReorderInv
<1>2. /\ batch \in Seq(Command) /\ layer \in Seq(Nat) /\ Len(layer) = Len(batch) /\ Len(batch) <= MaxBatch
      /\ Len(batch) \in Nat /\ MaxBatch \in Nat
      /\ DOMAIN layer = 1 .. Len(batch) /\ DOMAIN batch = 1 .. Len(batch)
      /\ \A i \in DOMAIN layer : layer[i] \in Nat /\ layer[i] < Len(batch)
  BY <1>1, BoundsAssumption DEF ReorderTyped
<1>3. layer \in [DOMAIN batch -> 0 .. MaxBatch]
  <2>1. \A i \in DOMAIN layer : layer[i] \in 0 .. MaxBatch
    BY <1>2
  <2>2. layer = [i \in DOMAIN batch |-> layer[i]]
    BY <1>2
  <2> QED
    BY <1>2, <2>1, <2>2
<1>4. ASSUME NEW m, InUse(m) PROVE m \in -1 .. MaxBatch
  BY <1>2, <1>4 DEF InUse
<1> DEFINE KernelMark == -1 .. MaxBatch
<1> DEFINE KernelMarks == [read : KernelMark, write : KernelMark]
<1>5. ASSUME NEW v \in View, InUse(v.read), InUse(v.write) PROVE v \in KernelMarks
  <2>1. v.read \in KernelMark /\ v.write \in KernelMark
    BY <1>4, <1>5
  <2>2. v = [read |-> v.read, write |-> v.write]
    BY <1>5 DEF View
  <2> HIDE DEF KernelMark
  <2> QED
    BY <2>1, <2>2
<1> HIDE DEF KernelMarks
<1>6. views \in [Ranged -> [RangeKey -> KernelMarks]]
  <2>1. \A h \in Ranged : \A r \in RangeKey : views[h][r] \in KernelMarks
    BY <1>1, <1>5, StayTyped DEF MarksInUse
  <2> QED
    BY <1>1, <2>1, StayTyped
<1>7. unranged \in [Unranged -> KernelMarks]
  <2>1. \A h \in Unranged : unranged[h] \in KernelMarks
    BY <1>1, <1>5, StayTyped DEF MarksInUse
  <2> QED
    BY <1>1, <2>1, StayTyped
<1>8. \A m \in {bindlessMaxLayer, maxMeshLevel, maxAccelReadLevel, maxAccelWriteLevel} : m \in -1 .. MaxBatch
  BY <1>1, <1>4 DEF MarksInUse
<1> QED
  BY <1>2, <1>3, <1>6, <1>7, <1>8 DEF TypeOK, KernelMarks

\* The visitor's marks and its lists have their types: with n commands visited,
\* no mark reaches n.
THEOREM ReorderTypeCorrect == Spec => []TypeOK
BY ReorderTypes, ReorderConsistent, PTL

\* What ordered lists say in the terms of the abstract reorderer.
LEMMA OrderOfLayers ==
  ASSUME NEW b \in Seq(Command), NEW l \in Seq(Nat), Len(l) = Len(b),
         \A i, j \in DOMAIN b : (i < j /\ Hazard(b[i], b[j])) => l[i] < l[j]
  PROVE  /\ Order!OrderKept(b, l) /\ \A i \in DOMAIN b : Order!Placed(l, i)
<1>1. \A i \in DOMAIN b : l[i] \in Nat
  OBVIOUS
<1>2. \A i \in DOMAIN b : Order!Placed(l, i)
  BY <1>1 DEF Order!Placed, Order!Unplaced
<1>3. \A i, j \in DOMAIN b : <<b[i], b[j]>> \in Hazards => Hazard(b[i], b[j])
  BY DEF Hazards
<1> QED
  BY <1>2, <1>3 DEF Order!OrderKept

\* For every set of commands the visitor implements the abstract reorderer: of two
\* commands that must not be exchanged the second is in a later list, what is in a
\* list stays there, and no list handed to the device is empty.
THEOREM ReorderImplementsOrder == Spec => ImplementsCommandOrder
<1>1. Init => Order!Init
  BY DEF Init, Order!Init
<1>2. ASSUME ReorderInv, ReorderInv', [Next]_vars PROVE [Order!Next]_(Order!vars)
  <2>1. ASSUME NEW c \in Command, Visit(c) PROVE Order!Advance
    <3>1. PICK l \in Nat : Visited(c, l)
      BY <1>2, <2>1, VisitIsVisited
    <3>2. batch' = Append(batch, c)
      BY <3>1 DEF Visited, Effect
    <3>3. \A i \in DOMAIN layer : Order!Placed(layer, i) => layer'[i] = layer[i]
      BY <1>2, <3>1, VisitedTyped
    <3>4. Order!OrderKept(batch', layer') /\ Len(layer') = Len(batch')
      <4>1. /\ batch' \in Seq(Command) /\ layer' \in Seq(Nat) /\ Len(layer') = Len(batch')
            /\ \A i, j \in DOMAIN batch' : (i < j /\ Hazard(batch'[i], batch'[j])) => layer'[i] < layer'[j]
        BY <1>2 DEF ReorderInv, ReorderTyped, LayersOrdered
      <4> QED
        BY <4>1, OrderOfLayers
    <3> QED
      BY <3>2, <3>3, <3>4 DEF Order!Advance
  <2>2. CASE Clear
    <3>1. batch' = <<>> /\ layer' = <<>>
      BY <2>2 DEF Clear
    <3>2. /\ batch \in Seq(Command) /\ layer \in Seq(Nat) /\ Len(layer) = Len(batch)
          /\ \A i, j \in DOMAIN batch : (i < j /\ Hazard(batch[i], batch[j])) => layer[i] < layer[j]
      BY <1>2 DEF ReorderInv, ReorderTyped, LayersOrdered
    <3>3. \A i \in DOMAIN batch : Order!Placed(layer, i)
      BY <3>2, OrderOfLayers
    <3> QED
      BY <3>1, <3>3 DEF Order!HandOver, Order!Next
  <2>3. CASE UNCHANGED vars
    BY <2>3 DEF vars, Order!vars
  <2> QED
    BY <1>2, <2>1, <2>2, <2>3 DEF Next, Order!Next
<1>3. ReorderInv => NoEmptyList
  BY DEF ReorderInv
<1> QED
  BY <1>1, <1>2, <1>3, ReorderConsistent, PTL DEF Spec, ImplementsCommandOrder, Order!Spec

-----------------------------------------------------------------------------
(***************************************************************************)
(* The usage marks of a function.                                           *)
(***************************************************************************)
\* F[i][f] is what a recursion makes at i of the function f; it looks at the
\* values below i only.
Recursion(n, V, F) ==
    /\ n \in Nat /\ V # {} /\ F \in [1 .. n -> [[1 .. n -> V] -> V]]
    /\ \A i \in 1 .. n : \A g, h \in [1 .. n -> V] :
         (\A j \in 1 .. n : j < i => g[j] = h[j]) => F[i][g] = F[i][h]

LEMMA RecursionExists ==
  ASSUME NEW n, NEW V, NEW F, Recursion(n, V, F)
  PROVE  \E f \in [1 .. n -> V] : \A i \in 1 .. n : f[i] = F[i][f]
<1> USE DEF Recursion
<1>1. PICK Fails : Fails = {k \in 0 .. n : ~ \E f \in [1 .. n -> V] : \A i \in 1 .. k : f[i] = F[i][f]}
  OBVIOUS
<1>2. SUFFICES ASSUME Fails # {} PROVE FALSE
  <2>1. n \in 0 .. n
    OBVIOUS
  <2> QED
    BY <1>1, <2>1
<1>3. PICK k \in Fails : \A y \in Fails : k <= y
  <2>1. Fails \in SUBSET Nat
    BY <1>1
  <2> QED
    BY <1>2, <2>1, LeastOf
<1>4. k \in 0 .. n /\ ~ \E f \in [1 .. n -> V] : \A i \in 1 .. k : f[i] = F[i][f]
  BY <1>1, <1>3
<1>5. k # 0
  <2>1. PICK v : v \in V
    OBVIOUS
  <2>2. [i \in 1 .. n |-> v] \in [1 .. n -> V]
    BY <2>1
  <2>3. k = 0 => \A i \in 1 .. k : [j \in 1 .. n |-> v][i] = F[i][[j \in 1 .. n |-> v]]
    OBVIOUS
  <2> QED
    BY <1>4, <2>2, <2>3
<1>6. PICK f \in [1 .. n -> V] : \A i \in 1 .. k - 1 : f[i] = F[i][f]
  <2>1. k - 1 \in 0 .. n /\ k - 1 \notin Fails
    BY <1>3, <1>4, <1>5
  <2> QED
    BY <1>1, <2>1
<1>7. PICK x : x = F[k][f] /\ x \in V
  BY <1>4, <1>5, <1>6
<1>8. PICK g \in [1 .. n -> V] : \A j \in 1 .. n : g[j] = IF j = k THEN x ELSE f[j]
  <2>1. [j \in 1 .. n |-> IF j = k THEN x ELSE f[j]] \in [1 .. n -> V]
    BY <1>6, <1>7
  <2> QED
    BY <2>1
<1>9. \A i \in 1 .. k : g[i] = F[i][g]
  <2>1. ASSUME NEW i \in 1 .. k PROVE g[i] = F[i][g]
    <3>1. i \in 1 .. n /\ \A j \in 1 .. n : j < i => f[j] = g[j]
      BY <1>4, <1>8, <2>1
    <3>2. F[i][f] = F[i][g]
      BY <1>6, <1>8, <3>1
    <3>3. g[i] = F[i][f]
      <4>1. CASE i = k
        BY <1>4, <1>7, <1>8, <4>1, <3>1
      <4>2. CASE i # k
        BY <1>4, <1>6, <1>8, <3>1, <4>2
      <4> QED
        BY <4>1, <4>2
    <3> QED
      BY <3>2, <3>3
  <2> QED
    BY <2>1
<1> QED
  BY <1>4, <1>8, <1>9

-----------------------------------------------------------------------------
Flag == {"READ", "WRITE"}
NodeRecord == [kind : {"ref", "member", "access", "operation"}, var : AnyVariable \cup {"none"}, args : Seq(Nat)]

\* The object of a member or an access is its first operand.
Passes(ns, i) == ns[i].kind \in {"member", "access"}
Operates(ns, i) == ns[i].kind \in {"access", "operation"}

NodesRight(ns, f) ==
    /\ ns \in Seq(NodeRecord)
    /\ \A i \in DOMAIN ns :
         /\ ns[i].kind = "ref" => ns[i].var \in Variables(f) /\ ns[i].args = <<>>
         /\ ns[i].kind = "member" => Len(ns[i].args) = 1
         /\ Operates(ns, i) => Len(ns[i].args) = 2
         /\ \A k \in DOMAIN ns[i].args : ns[i].args[k] \in 1 .. i - 1

LEMMA NodeFacts ==
  ASSUME NEW ns, NEW f, NodesRight(ns, f)
  PROVE  /\ Len(ns) \in Nat /\ DOMAIN ns = 1 .. Len(ns)
         /\ \A i \in DOMAIN ns :
              /\ i \in Nat /\ ns[i] \in NodeRecord
              /\ ns[i].kind \in {"ref", "member", "access", "operation"}
              /\ Passes(ns, i) => ns[i].args[1] \in 1 .. i - 1 /\ ns[i].args[1] \in DOMAIN ns
              /\ Operates(ns, i) => /\ ns[i].args[2] \in 1 .. i - 1 /\ ns[i].args[2] \in DOMAIN ns
                                    /\ ns[i].args[1] \in 1 .. i - 1 /\ ns[i].args[1] \in DOMAIN ns
                                    /\ DOMAIN ns[i].args = {1, 2}
              /\ ns[i].kind = "member" => DOMAIN ns[i].args = {1}
<1>1. Len(ns) \in Nat /\ DOMAIN ns = 1 .. Len(ns) /\ \A i \in DOMAIN ns : i \in Nat /\ ns[i] \in NodeRecord
  BY DEF NodesRight
<1>2. ASSUME NEW i \in DOMAIN ns
      PROVE  /\ ns[i].kind \in {"ref", "member", "access", "operation"}
             /\ Passes(ns, i) => ns[i].args[1] \in 1 .. i - 1 /\ ns[i].args[1] \in DOMAIN ns
             /\ Operates(ns, i) => /\ ns[i].args[2] \in 1 .. i - 1 /\ ns[i].args[2] \in DOMAIN ns
                                   /\ ns[i].args[1] \in 1 .. i - 1 /\ ns[i].args[1] \in DOMAIN ns
                                   /\ DOMAIN ns[i].args = {1, 2}
             /\ ns[i].kind = "member" => DOMAIN ns[i].args = {1}
  <2>1. ns[i].args \in Seq(Nat) /\ ns[i].kind \in {"ref", "member", "access", "operation"}
    BY <1>1 DEF NodeRecord
  <2>2. DOMAIN ns[i].args = 1 .. Len(ns[i].args)
    BY <2>1
  <2>3. /\ ns[i].kind = "member" => Len(ns[i].args) = 1
        /\ Operates(ns, i) => Len(ns[i].args) = 2
        /\ \A k \in DOMAIN ns[i].args : ns[i].args[k] \in 1 .. i - 1
    BY DEF NodesRight
  <2>4. \A k \in DOMAIN ns[i].args : ns[i].args[k] \in DOMAIN ns
    BY <1>1, <2>3
  <2>5. /\ ns[i].kind = "member" => DOMAIN ns[i].args = {1}
        /\ Operates(ns, i) => DOMAIN ns[i].args = {1, 2}
    <3>1. 1 .. 1 = {1} /\ 1 .. 2 = {1, 2}
      OBVIOUS
    <3> QED
      BY <2>2, <2>3, <3>1
  <2>6. Passes(ns, i) => 1 \in DOMAIN ns[i].args
    BY <2>5 DEF Passes, Operates
  <2> QED
    BY <2>1, <2>3, <2>4, <2>5, <2>6
<1> QED
  BY <1>1, <1>2

\* The paths along which marks are passed on.
LEMMA PathStep ==
  ASSUME NodesRight(nodes, function)
  PROVE  \A i \in DOMAIN nodes :
           Path[i] = IF Passes(nodes, i) THEN <<i>> \o Path[nodes[i].args[1]] ELSE <<i>>
<1>1. PICK n : n = Len(nodes) /\ n \in Nat /\ DOMAIN nodes = 1 .. n
  BY NodeFacts
<1>2. PICK F : F = [i \in 1 .. n |-> [g \in [1 .. n -> Seq(Nat)] |->
                      IF Passes(nodes, i) THEN <<i>> \o g[nodes[i].args[1]] ELSE <<i>>]]
  OBVIOUS
<1>3. \A i \in 1 .. n : \A g \in [1 .. n -> Seq(Nat)] :
         /\ F[i][g] = IF Passes(nodes, i) THEN <<i>> \o g[nodes[i].args[1]] ELSE <<i>>
         /\ F[i][g] \in Seq(Nat)
  <2>1. ASSUME NEW i \in 1 .. n, NEW g \in [1 .. n -> Seq(Nat)]
        PROVE  /\ F[i][g] = IF Passes(nodes, i) THEN <<i>> \o g[nodes[i].args[1]] ELSE <<i>>
               /\ F[i][g] \in Seq(Nat)
    <3>1. F[i][g] = IF Passes(nodes, i) THEN <<i>> \o g[nodes[i].args[1]] ELSE <<i>>
      BY <1>2
    <3>2. <<i>> \in Seq(Nat)
      OBVIOUS
    <3>3. Passes(nodes, i) => g[nodes[i].args[1]] \in Seq(Nat)
      BY <1>1, NodeFacts
    <3> QED
      BY <3>1, <3>2, <3>3
  <2> QED
    BY <2>1
<1>4. F \in [1 .. n -> [[1 .. n -> Seq(Nat)] -> Seq(Nat)]]
  BY <1>2, <1>3
<1>5. \A i \in 1 .. n : \A g, h \in [1 .. n -> Seq(Nat)] :
         (\A j \in 1 .. n : j < i => g[j] = h[j]) => F[i][g] = F[i][h]
  <2>1. ASSUME NEW i \in 1 .. n, NEW g \in [1 .. n -> Seq(Nat)], NEW h \in [1 .. n -> Seq(Nat)],
               \A j \in 1 .. n : j < i => g[j] = h[j]
        PROVE  F[i][g] = F[i][h]
    <3>1. Passes(nodes, i) => g[nodes[i].args[1]] = h[nodes[i].args[1]]
      <4>1. Passes(nodes, i) => nodes[i].args[1] \in 1 .. n /\ nodes[i].args[1] < i
        BY <1>1, NodeFacts
      <4> QED
        BY <2>1, <4>1
    <3> QED
      BY <1>3, <3>1
  <2> QED
    BY <2>1
<1>6. PICK f \in [1 .. n -> Seq(Nat)] : \A i \in 1 .. n : f[i] = F[i][f]
  <2>1. Seq(Nat) # {}
    <3>1. <<>> \in Seq(Nat)
      OBVIOUS
    <3> QED
      BY <3>1
  <2>2. Recursion(n, Seq(Nat), F)
    BY <1>1, <1>4, <1>5, <2>1 DEF Recursion
  <2> QED
    BY <2>2, RecursionExists
<1>7. f = [i \in DOMAIN nodes |->
              IF nodes[i].kind \in {"member", "access"} THEN <<i>> \o f[nodes[i].args[1]]
              ELSE <<i>>]
  BY <1>1, <1>3, <1>6 DEF Passes
<1>8. Path = [i \in DOMAIN nodes |->
              IF nodes[i].kind \in {"member", "access"} THEN <<i>> \o Path[nodes[i].args[1]]
              ELSE <<i>>]
  BY <1>7, Zenon DEF Path
<1> QED
  BY <1>8 DEF Passes

\* A path begins with its node and goes from an object to its object, to a node
\* that has none.
Descends(ns, p, i) ==
    /\ p \in Seq(DOMAIN ns) /\ Len(p) > 0 /\ p[1] = i
    /\ \A k \in 1 .. Len(p) - 1 : Passes(ns, p[k]) /\ p[k + 1] = ns[p[k]].args[1]
    /\ ~Passes(ns, p[Len(p)])

LEMMA PathFacts ==
  ASSUME NodesRight(nodes, function)
  PROVE  \A i \in DOMAIN nodes : Descends(nodes, Path[i], i)
<1>1. PICK Bad : Bad = {i \in DOMAIN nodes : ~Descends(nodes, Path[i], i)}
  OBVIOUS
<1>2. SUFFICES ASSUME Bad # {} PROVE FALSE
  BY <1>1
<1>3. PICK i \in Bad : \A y \in Bad : i <= y
  <2>1. Bad \in SUBSET Nat
    BY <1>1, NodeFacts
  <2> QED
    BY <1>2, <2>1, LeastOf
<1>4. i \in DOMAIN nodes /\ i \in Nat /\ ~Descends(nodes, Path[i], i)
  BY <1>1, <1>3, NodeFacts
<1>5. CASE ~Passes(nodes, i)
  <2>1. Path[i] = <<i>>
    BY <1>4, <1>5, PathStep
  <2> QED
    BY <1>4, <1>5, <2>1 DEF Descends
<1>6. CASE Passes(nodes, i)
  <2>1. PICK j, p : j = nodes[i].args[1] /\ p = Path[j]
    OBVIOUS
  <2>2. j \in DOMAIN nodes /\ j < i
    BY <1>4, <1>6, <2>1, NodeFacts
  <2>3. Descends(nodes, p, j)
    <3>1. j \notin Bad
      BY <1>3, <1>4, <2>2, NodeFacts
    <3> QED
      BY <1>1, <2>1, <2>2, <3>1
  <2>4. PICK q : q = <<i>> \o p
    OBVIOUS
  <2>5. Path[i] = q
    BY <1>4, <1>6, <2>1, <2>4, PathStep
  <2>6. /\ p \in Seq(DOMAIN nodes) /\ Len(p) \in Nat /\ Len(p) > 0 /\ p[1] = j
        /\ \A k \in 1 .. Len(p) - 1 : Passes(nodes, p[k]) /\ p[k + 1] = nodes[p[k]].args[1]
        /\ ~Passes(nodes, p[Len(p)])
    BY <2>3 DEF Descends
  <2>7. /\ q \in Seq(DOMAIN nodes) /\ Len(q) = Len(p) + 1 /\ q[1] = i
        /\ \A k \in 1 .. Len(p) : q[k + 1] = p[k]
    BY <1>4, <2>4, <2>6
  <2>8. ASSUME NEW k \in 1 .. Len(q) - 1
        PROVE  Passes(nodes, q[k]) /\ q[k + 1] = nodes[q[k]].args[1]
    <3>1. CASE k = 1
      <4>1. q[k] = i /\ q[k + 1] = p[1]
        BY <2>6, <2>7, <3>1
      <4> QED
        BY <1>6, <2>1, <2>6, <4>1
    <3>2. CASE k # 1
      <4>1. PICK m : m = k - 1 /\ m \in 1 .. Len(p) - 1 /\ k = m + 1
        BY <2>6, <2>7, <2>8, <3>2
      <4>2. q[k] = p[m] /\ q[k + 1] = p[m + 1]
        BY <2>6, <2>7, <4>1
      <4> QED
        BY <2>6, <4>1, <4>2
    <3> QED
      BY <3>1, <3>2, Zenon
  <2>9. Descends(nodes, q, i)
    BY <2>6, <2>7, <2>8 DEF Descends
  <2> QED
    BY <1>4, <2>5, <2>9
<1> QED
  BY <1>5, <1>6


-----------------------------------------------------------------------------
\* The end of a path, step by step.
LEMMA RootStep ==
  ASSUME NodesRight(nodes, function), NEW i \in DOMAIN nodes
  PROVE  /\ Passes(nodes, i) => Root(i) = Root(nodes[i].args[1])
         /\ ~Passes(nodes, i) => Root(i) = nodes[i]
         /\ Root(i).kind = "ref" => Root(i).var \in Variables(function) /\ Root(i).var \in AnyVariable
<1>1. ASSUME Passes(nodes, i) PROVE Root(i) = Root(nodes[i].args[1])
  <2>1. PICK j, p : j = nodes[i].args[1] /\ p = Path[j]
    OBVIOUS
  <2>2. j \in DOMAIN nodes
    BY <1>1, <2>1, NodeFacts
  <2>3. p \in Seq(DOMAIN nodes) /\ Len(p) \in Nat /\ Len(p) > 0
    BY <2>1, <2>2, PathFacts DEF Descends
  <2>4. Path[i] = <<i>> \o p
    BY <1>1, <2>1, PathStep
  <2>5. Len(<<i>> \o p) = Len(p) + 1 /\ (<<i>> \o p)[Len(p) + 1] = p[Len(p)]
    BY <2>3
  <2>6. PICK q : q = Path[i] /\ q = <<i>> \o p
    BY <2>4
  <2>7. q[Len(q)] = p[Len(p)]
    BY <2>5, <2>6
  <2>8. Root(i) = nodes[q[Len(q)]] /\ Root(j) = nodes[p[Len(p)]]
    BY <2>1, <2>6, Zenon DEF Root, Last
  <2> QED
    BY <1>1, <2>1, <2>7, <2>8
<1>2. ASSUME ~Passes(nodes, i) PROVE Root(i) = nodes[i]
  <2>1. Path[i] = <<i>>
    BY <1>2, PathStep
  <2>2. Len(<<i>>) = 1 /\ <<i>>[1] = i
    OBVIOUS
  <2>3. Root(i) = nodes[<<i>>[Len(<<i>>)]]
    BY <2>1, Zenon DEF Root, Last
  <2> QED
    BY <1>2, <2>2, <2>3
<1>3. ASSUME Root(i).kind = "ref"
      PROVE  Root(i).var \in Variables(function) /\ Root(i).var \in AnyVariable
  <2>1. PICK p, r : p = Path[i] /\ r = p[Len(p)]
    OBVIOUS
  <2>2. p \in Seq(DOMAIN nodes) /\ Len(p) \in Nat /\ Len(p) > 0
    BY <2>1, PathFacts DEF Descends
  <2>3. r \in DOMAIN nodes /\ Root(i) = nodes[r]
    BY <2>1, <2>2 DEF Root, Last
  <2>4. Root(i).var \in Variables(function)
    BY <1>3, <2>3 DEF NodesRight
  <2> QED
    BY <2>4 DEF Variables, AnyVariable
<1> QED
  BY <1>1, <1>2, <1>3

LEMMA RootOfPath ==
  ASSUME NodesRight(nodes, function), NEW i \in DOMAIN nodes, NEW k \in DOMAIN Path[i]
  PROVE  Path[i][k] \in DOMAIN nodes /\ Root(Path[i][k]) = Root(i)
<1>1. PICK p : p = Path[i]
  OBVIOUS
<1>2. /\ p \in Seq(DOMAIN nodes) /\ Len(p) \in Nat /\ DOMAIN p = 1 .. Len(p) /\ p[1] = i
      /\ \A j \in 1 .. Len(p) - 1 : Passes(nodes, p[j]) /\ p[j + 1] = nodes[p[j]].args[1]
      /\ \A j \in DOMAIN p : p[j] \in DOMAIN nodes
  <2>1. Descends(nodes, p, i)
    BY <1>1, PathFacts
  <2> QED
    BY <2>1 DEF Descends
<1>3. PICK Bad : Bad = {j \in DOMAIN p : Root(p[j]) # Root(i)}
  OBVIOUS
<1>4. ASSUME Bad # {} PROVE FALSE
  <2>1. PICK j \in Bad : \A y \in Bad : j <= y
    <3>1. Bad \in SUBSET Nat
      BY <1>2, <1>3
    <3> QED
      BY <1>4, <3>1, LeastOf
  <2>2. j \in 1 .. Len(p) /\ Root(p[j]) # Root(i) /\ j # 1
    BY <1>2, <1>3, <2>1
  <2>3. PICK n : n = j - 1 /\ n \in 1 .. Len(p) - 1 /\ j = n + 1 /\ n \in DOMAIN p
    BY <1>2, <2>2
  <2>4. Root(p[n]) = Root(i)
    BY <1>3, <2>1, <2>3
  <2>5. Root(p[n]) = Root(p[j])
    BY <1>2, <2>3, RootStep
  <2> QED
    BY <2>2, <2>4, <2>5
<1> QED
  BY <1>1, <1>2, <1>3, <1>4

-----------------------------------------------------------------------------
Marking == [nodes : [DOMAIN nodes -> SUBSET Flag], vars : [AnyVariable -> SUBSET Flag]]

\* What marks a node marks its object, and a reference its variable.
Linked(ns, m) ==
    \A i \in DOMAIN ns : /\ Passes(ns, i) => m.nodes[i] \subseteq m.nodes[ns[i].args[1]]
                         /\ ns[i].kind = "ref" => m.nodes[i] \subseteq m.vars[ns[i].var]

\* So it marks the variable at the end of its path.
LEMMA LinkedToRoot ==
  ASSUME NodesRight(nodes, function), NEW m, Linked(nodes, m)
  PROVE  \A i \in DOMAIN nodes : Root(i).kind = "ref" => m.nodes[i] \subseteq m.vars[Root(i).var]
<1>1. PICK Bad : Bad = {i \in DOMAIN nodes : Root(i).kind = "ref" /\ ~(m.nodes[i] \subseteq m.vars[Root(i).var])}
  OBVIOUS
<1>2. SUFFICES ASSUME Bad # {} PROVE FALSE
  BY <1>1
<1>3. PICK i \in Bad : \A y \in Bad : i <= y
  <2>1. Bad \in SUBSET Nat
    BY <1>1, NodeFacts
  <2> QED
    BY <1>2, <2>1, LeastOf
<1>4. i \in DOMAIN nodes /\ i \in Nat /\ Root(i).kind = "ref" /\ ~(m.nodes[i] \subseteq m.vars[Root(i).var])
  BY <1>1, <1>3, NodeFacts
<1>5. Passes(nodes, i)
  <2>1. CASE ~Passes(nodes, i)
    BY <1>4, <2>1, RootStep DEF Linked
  <2> QED
    BY <2>1
<1>6. PICK j : j = nodes[i].args[1] /\ j \in DOMAIN nodes /\ j \in Nat /\ j < i
  BY <1>4, <1>5, NodeFacts
<1>7. Root(i) = Root(j) /\ j \notin Bad
  BY <1>3, <1>4, <1>5, <1>6, RootStep
<1>8. m.nodes[j] \subseteq m.vars[Root(j).var]
  BY <1>1, <1>4, <1>6, <1>7
<1> QED
  BY <1>4, <1>5, <1>6, <1>7, <1>8 DEF Linked

\* What marking node i does.
Extends(m, i, flags, r) ==
    /\ r \in Marking /\ Linked(nodes, r)
    /\ \A n \in DOMAIN nodes : m.nodes[n] \subseteq r.nodes[n]
    /\ flags \subseteq r.nodes[i]
    /\ \A v \in AnyVariable : m.vars[v] \subseteq r.vars[v] /\ r.vars[v] \subseteq m.vars[v] \cup flags
    /\ \A v \in AnyVariable : r.vars[v] # m.vars[v] => Root(i).kind = "ref" /\ v = Root(i).var
    /\ Root(i).kind = "ref" => flags \subseteq r.vars[Root(i).var]

\* A mark stops at a node that has it already; what is behind that node has been
\* marked before.
LEMMA MarkExtends ==
  ASSUME NodesRight(nodes, function), NEW m \in Marking, Linked(nodes, m),
         NEW i \in DOMAIN nodes, NEW flags \in SUBSET Flag
  PROVE  Extends(m, i, flags, Mark(m, i, flags))
<1>1. PICK p, stops, reached :
        /\ p = Path[i] /\ stops = {k \in DOMAIN p : flags \subseteq m.nodes[p[k]]}
        /\ reached = {p[k] : k \in {j \in DOMAIN p : \A s \in stops : j < s}}
  OBVIOUS
<1>2. PICK r : r = [nodes |-> [n \in DOMAIN m.nodes |-> IF n \in reached THEN m.nodes[n] \cup flags ELSE m.nodes[n]],
                    vars |-> IF stops = {} /\ Root(i).kind = "ref"
                             THEN [m.vars EXCEPT ![Root(i).var] = m.vars[Root(i).var] \cup flags] ELSE m.vars]
  OBVIOUS
<1>3. Mark(m, i, flags) = r
  BY <1>1, <1>2 DEF Mark, Knows
<1>4. /\ m.nodes \in [DOMAIN nodes -> SUBSET Flag] /\ m.vars \in [AnyVariable -> SUBSET Flag]
      /\ DOMAIN m.nodes = DOMAIN nodes
  BY DEF Marking
<1>5. /\ r.nodes \in [DOMAIN nodes -> SUBSET Flag]
      /\ \A n \in DOMAIN nodes : r.nodes[n] = IF n \in reached THEN m.nodes[n] \cup flags ELSE m.nodes[n]
  BY <1>2, <1>4
<1>6. /\ r.vars \in [AnyVariable -> SUBSET Flag]
      /\ \A v \in AnyVariable :
           r.vars[v] = IF stops = {} /\ Root(i).kind = "ref" /\ v = Root(i).var THEN m.vars[v] \cup flags ELSE m.vars[v]
  BY <1>2, <1>4, RootStep
<1>7. r \in Marking
  BY <1>2, <1>5, <1>6 DEF Marking
<1>8. /\ p \in Seq(DOMAIN nodes) /\ Len(p) \in Nat /\ Len(p) > 0 /\ DOMAIN p = 1 .. Len(p) /\ p[1] = i
      /\ \A j \in 1 .. Len(p) - 1 : Passes(nodes, p[j]) /\ p[j + 1] = nodes[p[j]].args[1]
      /\ ~Passes(nodes, p[Len(p)])
      /\ \A j \in DOMAIN p : p[j] \in DOMAIN nodes /\ Root(p[j]) = Root(i)
  BY <1>1, PathFacts, RootOfPath DEF Descends
<1>9. flags \subseteq r.nodes[i]
  <2>1. CASE 1 \in stops
    BY <1>1, <1>5, <1>8, <2>1
  <2>2. CASE 1 \notin stops
    <3>1. \A s \in stops : 1 < s
      BY <1>1, <1>8, <2>2
    <3>2. i \in reached
      BY <1>1, <1>8, <3>1
    <3> QED
      BY <1>5, <3>2
  <2> QED
    BY <2>1, <2>2
<1>10. Root(i).kind = "ref" => flags \subseteq r.vars[Root(i).var]
  <2>1. ASSUME Root(i).kind = "ref", NEW s \in stops
        PROVE  flags \subseteq r.vars[Root(i).var]
    <3>1. flags \subseteq m.nodes[p[s]] /\ p[s] \in DOMAIN nodes /\ Root(p[s]) = Root(i)
      BY <1>1, <1>8
    <3>2. m.nodes[p[s]] \subseteq m.vars[Root(i).var]
      BY <2>1, <3>1, LinkedToRoot
    <3> QED
      BY <1>6, <2>1, <3>1, <3>2, RootStep
  <2>2. ASSUME Root(i).kind = "ref", stops = {}
        PROVE  flags \subseteq r.vars[Root(i).var]
    BY <1>6, <2>2, RootStep
  <2> QED
    BY <2>1, <2>2
<1>11. ASSUME NEW n \in DOMAIN nodes
       PROVE  /\ Passes(nodes, n) => r.nodes[n] \subseteq r.nodes[nodes[n].args[1]]
              /\ nodes[n].kind = "ref" => r.nodes[n] \subseteq r.vars[nodes[n].var]
  <2>1. CASE n \notin reached
    <3>1. Passes(nodes, n) => nodes[n].args[1] \in DOMAIN nodes
      BY NodeFacts
    <3>2. nodes[n].kind = "ref" => nodes[n].var \in AnyVariable
      BY DEF NodesRight, Variables, AnyVariable
    <3> QED
      BY <1>5, <1>6, <2>1, <3>1, <3>2 DEF Linked
  <2>2. CASE n \in reached
    <3>1. PICK k \in DOMAIN p : n = p[k] /\ \A s \in stops : k < s
      BY <1>1, <2>2
    <3>2. ASSUME Passes(nodes, n) PROVE r.nodes[n] \subseteq r.nodes[nodes[n].args[1]]
      <4>1. k + 1 \in DOMAIN p /\ p[k + 1] = nodes[n].args[1] /\ p[k + 1] \in DOMAIN nodes
        BY <1>8, <3>1, <3>2
      <4>2. r.nodes[n] = m.nodes[n] \cup flags /\ m.nodes[n] \subseteq m.nodes[p[k + 1]]
        BY <1>5, <2>2, <3>2, <4>1 DEF Linked
      <4>3. flags \subseteq r.nodes[p[k + 1]]
        <5>1. CASE k + 1 \in stops
          BY <1>1, <1>5, <4>1, <5>1
        <5>2. CASE k + 1 \notin stops
          <6>1. \A s \in stops : k + 1 < s
            BY <1>1, <1>8, <3>1, <5>2
          <6>2. p[k + 1] \in reached
            BY <1>1, <4>1, <6>1
          <6> QED
            BY <1>5, <4>1, <6>2
        <5> QED
          BY <5>1, <5>2
      <4>4. m.nodes[p[k + 1]] \subseteq r.nodes[p[k + 1]]
        BY <1>5, <4>1
      <4>5. r.nodes[n] \subseteq r.nodes[p[k + 1]]
        BY <4>2, <4>3, <4>4
      <4> QED
        BY <4>1, <4>5
    <3>3. ASSUME nodes[n].kind = "ref" PROVE r.nodes[n] \subseteq r.vars[nodes[n].var]
      <4>1. ~Passes(nodes, n)
        BY <3>3 DEF Passes
      <4>2. Root(n) = nodes[n] /\ Root(n) = Root(i)
        BY <1>8, <3>1, <4>1, RootStep
      <4>3. r.nodes[n] = m.nodes[n] \cup flags /\ m.nodes[n] \subseteq m.vars[nodes[n].var]
        BY <1>5, <2>2, <3>3 DEF Linked
      <4>4. nodes[n].var \in AnyVariable
        BY <3>3, <4>2, RootStep
      <4> QED
        BY <1>6, <1>10, <3>3, <4>2, <4>3, <4>4
    <3> QED
      BY <3>2, <3>3
  <2> QED
    BY <2>1, <2>2
<1>12. Linked(nodes, r)
  BY <1>11 DEF Linked
<1>13. /\ \A n \in DOMAIN nodes : m.nodes[n] \subseteq r.nodes[n]
       /\ \A v \in AnyVariable : m.vars[v] \subseteq r.vars[v] /\ r.vars[v] \subseteq m.vars[v] \cup flags
       /\ \A v \in AnyVariable : r.vars[v] # m.vars[v] => Root(i).kind = "ref" /\ v = Root(i).var
  BY <1>5, <1>6
<1>14. Extends(m, i, flags, r)
  BY <1>7, <1>9, <1>10, <1>12, <1>13 DEF Extends
<1> QED
  BY <1>3, <1>14

-----------------------------------------------------------------------------
\* An access or an operation has marked its operands as read.
Operands(ns, m) == \A i \in DOMAIN ns : Operates(ns, i) => /\ "READ" \in m.nodes[ns[i].args[1]]
                                                           /\ "READ" \in m.nodes[ns[i].args[2]]

LEMMA ValueStep ==
  ASSUME NodesRight(nodes, function)
  PROVE  \A i \in DOMAIN nodes :
           /\ ValueReads[i] = IF nodes[i].kind = "ref" THEN {nodes[i].var}
                              ELSE UNION {ValueReads[nodes[i].args[k]] : k \in DOMAIN nodes[i].args}
           /\ ValueReads[i] \in SUBSET AnyVariable
<1>1. PICK n : n = Len(nodes) /\ n \in Nat /\ DOMAIN nodes = 1 .. n
  BY NodeFacts
<1>2. PICK V : V = SUBSET AnyVariable
  OBVIOUS
<1>3. PICK F : F = [i \in 1 .. n |-> [g \in [1 .. n -> V] |->
                      IF nodes[i].kind = "ref" THEN {nodes[i].var}
                      ELSE UNION {g[nodes[i].args[k]] : k \in DOMAIN nodes[i].args}]]
  OBVIOUS
<1>4. \A i \in 1 .. n : /\ nodes[i].kind = "ref" => nodes[i].var \in AnyVariable
                        /\ \A k \in DOMAIN nodes[i].args : nodes[i].args[k] \in 1 .. n /\ nodes[i].args[k] < i
  <2>1. ASSUME NEW i \in 1 .. n
        PROVE  /\ nodes[i].kind = "ref" => nodes[i].var \in AnyVariable
               /\ \A k \in DOMAIN nodes[i].args : nodes[i].args[k] \in 1 .. n /\ nodes[i].args[k] < i
    <3>1. /\ nodes[i].kind = "ref" => nodes[i].var \in Variables(function)
          /\ \A k \in DOMAIN nodes[i].args : nodes[i].args[k] \in 1 .. i - 1
      BY <1>1 DEF NodesRight
    <3>2. \A j \in 1 .. i - 1 : j \in 1 .. n /\ j < i
      BY <1>1
    <3> QED
      BY <3>1, <3>2 DEF Variables, AnyVariable
  <2> QED
    BY <2>1
<1>5. \A i \in 1 .. n : \A g \in [1 .. n -> V] :
         /\ F[i][g] = IF nodes[i].kind = "ref" THEN {nodes[i].var}
                      ELSE UNION {g[nodes[i].args[k]] : k \in DOMAIN nodes[i].args}
         /\ F[i][g] \in V
  <2>1. ASSUME NEW i \in 1 .. n, NEW g \in [1 .. n -> V]
        PROVE  /\ F[i][g] = IF nodes[i].kind = "ref" THEN {nodes[i].var}
                            ELSE UNION {g[nodes[i].args[k]] : k \in DOMAIN nodes[i].args}
               /\ F[i][g] \in V
    <3>1. F[i][g] = IF nodes[i].kind = "ref" THEN {nodes[i].var}
                    ELSE UNION {g[nodes[i].args[k]] : k \in DOMAIN nodes[i].args}
      BY <1>3
    <3>2. UNION {g[nodes[i].args[k]] : k \in DOMAIN nodes[i].args} \in V
      BY <1>2, <1>4
    <3>3. nodes[i].kind = "ref" => {nodes[i].var} \in V
      BY <1>2, <1>4
    <3> QED
      BY <3>1, <3>2, <3>3
  <2> QED
    BY <2>1
<1>6. F \in [1 .. n -> [[1 .. n -> V] -> V]]
  BY <1>3, <1>5
<1>7. \A i \in 1 .. n : \A g, h \in [1 .. n -> V] :
         (\A j \in 1 .. n : j < i => g[j] = h[j]) => F[i][g] = F[i][h]
  <2>1. ASSUME NEW i \in 1 .. n, NEW g \in [1 .. n -> V], NEW h \in [1 .. n -> V],
               \A j \in 1 .. n : j < i => g[j] = h[j]
        PROVE  F[i][g] = F[i][h]
    <3>1. \A k \in DOMAIN nodes[i].args : g[nodes[i].args[k]] = h[nodes[i].args[k]]
      BY <1>4, <2>1
    <3>2. UNION {g[nodes[i].args[k]] : k \in DOMAIN nodes[i].args} = UNION {h[nodes[i].args[k]] : k \in DOMAIN nodes[i].args}
      BY <3>1
    <3> QED
      BY <1>5, <3>2
  <2> QED
    BY <2>1
<1>8. PICK f \in [1 .. n -> V] : \A i \in 1 .. n : f[i] = F[i][f]
  <2>1. V # {}
    BY <1>2
  <2>2. Recursion(n, V, F)
    BY <1>1, <1>6, <1>7, <2>1 DEF Recursion
  <2> QED
    BY <2>2, RecursionExists
<1>9. f = [i \in DOMAIN nodes |->
              IF nodes[i].kind = "ref" THEN {nodes[i].var}
              ELSE UNION {f[nodes[i].args[k]] : k \in DOMAIN nodes[i].args}]
  <2>1. \A i \in 1 .. n : f[i] = IF nodes[i].kind = "ref" THEN {nodes[i].var}
                               ELSE UNION {f[nodes[i].args[k]] : k \in DOMAIN nodes[i].args}
    BY <1>5, <1>8
  <2>2. f = [i \in DOMAIN nodes |-> f[i]]
    BY <1>1, <1>8
  <2>3. \A i \in DOMAIN nodes : f[i] = IF nodes[i].kind = "ref" THEN {nodes[i].var}
                                     ELSE UNION {f[nodes[i].args[k]] : k \in DOMAIN nodes[i].args}
    BY <1>1, <2>1, Zenon
  <2>4. PICK E : E = [i \in DOMAIN nodes |->
              IF nodes[i].kind = "ref" THEN {nodes[i].var}
              ELSE UNION {f[nodes[i].args[k]] : k \in DOMAIN nodes[i].args}]
    OBVIOUS
  <2>5. DOMAIN E = DOMAIN nodes /\ \A i \in DOMAIN nodes : E[i] = f[i]
    BY <2>3, <2>4, Zenon
  <2>6. E = [i \in DOMAIN nodes |-> E[i]]
    BY <2>4
  <2>7. E = f
    BY <2>2, <2>5, <2>6
  <2> QED
    BY <2>4, <2>7, Zenon
<1>10. ValueReads = [i \in DOMAIN nodes |->
              IF nodes[i].kind = "ref" THEN {nodes[i].var}
              ELSE UNION {ValueReads[nodes[i].args[k]] : k \in DOMAIN nodes[i].args}]
  BY <1>9, Zenon DEF ValueReads
<1>11. \A i \in DOMAIN nodes :
          ValueReads[i] = IF nodes[i].kind = "ref" THEN {nodes[i].var}
                          ELSE UNION {ValueReads[nodes[i].args[k]] : k \in DOMAIN nodes[i].args}
  BY <1>10
<1>12. PICK Bad : Bad = {i \in DOMAIN nodes : ValueReads[i] \notin SUBSET AnyVariable}
  OBVIOUS
<1>13. ASSUME Bad # {} PROVE FALSE
  <2>1. PICK i \in Bad : \A y \in Bad : i <= y
    <3>1. Bad \in SUBSET Nat
      BY <1>1, <1>12
    <3> QED
      BY <1>13, <3>1, LeastOf
  <2>2. i \in 1 .. n /\ ValueReads[i] \notin SUBSET AnyVariable
    BY <1>1, <1>12, <2>1
  <2>3. \A k \in DOMAIN nodes[i].args : ValueReads[nodes[i].args[k]] \in SUBSET AnyVariable
    <3>1. ASSUME NEW k \in DOMAIN nodes[i].args
          PROVE  ValueReads[nodes[i].args[k]] \in SUBSET AnyVariable
      <4>1. PICK j : j = nodes[i].args[k] /\ j \in 1 .. n /\ j < i
        BY <1>4, <2>2
      <4>2. j \notin Bad
        BY <2>1, <2>2, <4>1
      <4> QED
        BY <1>1, <1>12, <4>1, <4>2
    <3> QED
      BY <3>1
  <2>4. UNION {ValueReads[nodes[i].args[k]] : k \in DOMAIN nodes[i].args} \in SUBSET AnyVariable
    BY <2>3
  <2>5. nodes[i].kind = "ref" => {nodes[i].var} \in SUBSET AnyVariable
    BY <1>4, <2>2
  <2> QED
    BY <1>1, <1>11, <2>2, <2>4, <2>5
<1> QED
  BY <1>11, <1>12, <1>13

\* What the value of a node that is marked as read reads is marked as read.
LEMMA ValueIsMarked ==
  ASSUME NodesRight(nodes, function), NEW m \in Marking, Linked(nodes, m), Operands(nodes, m)
  PROVE  \A i \in DOMAIN nodes : "READ" \in m.nodes[i] => \A v \in ValueReads[i] : "READ" \in m.vars[v]
<1>1. PICK Bad : Bad = {i \in DOMAIN nodes : "READ" \in m.nodes[i] /\ \E v \in ValueReads[i] : "READ" \notin m.vars[v]}
  OBVIOUS
<1>2. SUFFICES ASSUME Bad # {} PROVE FALSE
  BY <1>1
<1>3. PICK i \in Bad : \A y \in Bad : i <= y
  <2>1. Bad \in SUBSET Nat
    BY <1>1, NodeFacts
  <2> QED
    BY <1>2, <2>1, LeastOf
<1>4. i \in DOMAIN nodes /\ i \in Nat /\ "READ" \in m.nodes[i]
  BY <1>1, <1>3, NodeFacts
<1>5. PICK v \in ValueReads[i] : "READ" \notin m.vars[v]
  BY <1>1, <1>3
<1>6. CASE nodes[i].kind = "ref"
  <2>1. ValueReads[i] = {nodes[i].var}
    BY <1>4, <1>6, ValueStep
  <2> QED
    BY <1>4, <1>5, <1>6, <2>1 DEF Linked
<1>7. CASE nodes[i].kind # "ref"
  <2>1. PICK k \in DOMAIN nodes[i].args : v \in ValueReads[nodes[i].args[k]]
    <3>1. ValueReads[i] = UNION {ValueReads[nodes[i].args[k]] : k \in DOMAIN nodes[i].args}
      BY <1>4, <1>7, ValueStep
    <3> QED
      BY <1>5, <3>1
  <2>2. PICK j : j = nodes[i].args[k]
    OBVIOUS
  <2>3. "READ" \in m.nodes[j] /\ j \in DOMAIN nodes /\ j \in Nat /\ j < i
    <3>1. CASE Operates(nodes, i)
      <4>1. k \in {1, 2}
        BY <1>4, <2>1, <3>1, NodeFacts
      <4> QED
        BY <1>4, <2>2, <3>1, <4>1, NodeFacts DEF Operands
    <3>2. CASE ~Operates(nodes, i)
      <4>1. nodes[i].kind = "member"
        BY <1>4, <1>7, <3>2, NodeFacts DEF Operates
      <4>2. k = 1 /\ Passes(nodes, i)
        BY <1>4, <2>1, <4>1, NodeFacts DEF Passes
      <4> QED
        BY <1>4, <2>2, <4>2, NodeFacts DEF Linked
    <3> QED
      BY <3>1, <3>2
  <2>4. j \notin Bad
    BY <1>3, <1>4, <2>3
  <2> QED
    BY <1>1, <1>5, <2>1, <2>2, <2>3, <2>4
<1> QED
  BY <1>6, <1>7

\* So is what an assignment to it reads, whether the node is marked or not.
LEMMA PlaceIsMarked ==
  ASSUME NodesRight(nodes, function), NEW m \in Marking, Linked(nodes, m), Operands(nodes, m), NEW i \in DOMAIN nodes
  PROVE  PlaceReads(i) \in SUBSET AnyVariable /\ \A v \in PlaceReads(i) : "READ" \in m.vars[v]
<1>1. SUFFICES ASSUME NEW v \in PlaceReads(i) PROVE v \in AnyVariable /\ "READ" \in m.vars[v]
  OBVIOUS
<1>2. PICK k \in DOMAIN Path[i] : nodes[Path[i][k]].kind = "access" /\ v \in ValueReads[nodes[Path[i][k]].args[2]]
  BY DEF PlaceReads
<1>3. PICK n : n = Path[i][k] /\ n \in DOMAIN nodes
  BY RootOfPath
<1>4. Operates(nodes, n)
  BY <1>2, <1>3 DEF Operates
<1>5. nodes[n].args[2] \in DOMAIN nodes /\ "READ" \in m.nodes[nodes[n].args[2]]
  BY <1>3, <1>4, NodeFacts DEF Operands
<1> QED
  BY <1>2, <1>3, <1>5, ValueIsMarked, ValueStep

-----------------------------------------------------------------------------
LEMMA SetToSeqFacts ==
  ASSUME NEW S, IsFiniteSet(S)
  PROVE  /\ SetToSeq(S) \in [1 .. Cardinality(S) -> S] /\ Cardinality(S) \in Nat
         /\ SetToSeq(S) \in Seq(S) /\ Len(SetToSeq(S)) = Cardinality(S)
         /\ \A v \in S : \E k \in 1 .. Cardinality(S) : SetToSeq(S)[k] = v
<1>1. PICK n : n = Cardinality(S) /\ n \in Nat
  BY FS_CardinalityType
<1>2. IsFiniteSet(1 .. n) /\ Cardinality(1 .. n) = n
  BY <1>1, FS_Interval
<1>3. \E f \in [1 .. n -> S] : IsInjective(f)
  <2>1. ExistsBijection(1 .. n, S)
    BY <1>1, <1>2, FS_SameCardinalityBij
  <2> QED
    BY <2>1 DEF ExistsBijection, Bijection, Injection
<1>4. PICK s : s = SetToSeq(S) /\ s \in [1 .. n -> S] /\ IsInjective(s)
  BY <1>1, <1>3, Zenon DEF SetToSeq
<1>5. ASSUME NEW v \in S, \A k \in 1 .. n : s[k] # v PROVE FALSE
  <2>1. s \in [1 .. n -> S \ {v}]
    BY <1>4, <1>5
  <2>2. IsFiniteSet(S \ {v}) /\ Cardinality(S \ {v}) = n - 1
    BY <1>1, FS_RemoveElement
  <2>3. \E x, y \in 1 .. n : x # y /\ s[x] = s[y]
    <3>1. Cardinality(S \ {v}) < Cardinality(1 .. n)
      BY <1>1, <1>2, <2>2
    <3> QED
      BY <1>2, <2>1, <2>2, <3>1, FS_PigeonHole
  <2> QED
    BY <1>4, <2>3 DEF IsInjective
<1>6. s \in Seq(S) /\ Len(s) = n
  BY <1>1, <1>4
<1> QED
  BY <1>1, <1>4, <1>5, <1>6

-----------------------------------------------------------------------------
\* What a function writes is what it is marked as writing, and it is marked as
\* reading all that it reads.
UsageRecorded(used, rs, ws) ==
    \A f \in Function : \A v \in AnyVariable : /\ v \in ws[f] => "WRITE" \in used[f][v]
                                               /\ "WRITE" \in used[f][v] => v \in ws[f]
                                               /\ v \in rs[f] => "READ" \in used[f][v]
                                               /\ v \in ws[f] => v \notin Arrays

UsageInv ==
    /\ function \in Function /\ NodesRight(nodes, function)
    /\ usage \in [Function -> [AnyVariable -> SUBSET Flag]]
    /\ marked \in [DOMAIN nodes -> SUBSET Flag]
    /\ reads \in [Function -> SUBSET AnyVariable] /\ writes \in [Function -> SUBSET AnyVariable]
    /\ Linked(nodes, Marks) /\ Operands(nodes, Marks)
    /\ UsageRecorded(usage, reads, writes)

\* What a step may make of the marks: r, of which the function reads and writes
\* these variables.
MarksEffect(r, reading, writing) ==
    /\ r \in Marking /\ Linked(nodes, r) /\ Operands(nodes, r)
    /\ \A v \in AnyVariable : usage[function][v] \subseteq r.vars[v]
    /\ reading \in SUBSET AnyVariable /\ writing \in SUBSET AnyVariable
    /\ \A v \in reading : "READ" \in r.vars[v]
    /\ \A v \in writing : "WRITE" \in r.vars[v] /\ v \notin Arrays
    /\ \A v \in AnyVariable : "WRITE" \in r.vars[v] => "WRITE" \in usage[function][v] \/ v \in writing

LEMMA MarksFacts ==
  ASSUME UsageInv
  PROVE  /\ Marks \in Marking /\ Marks.nodes = marked /\ Marks.vars = usage[function]
         /\ MarksEffect(Marks, {}, {})
<1>1. Marks \in Marking /\ Marks.nodes = marked /\ Marks.vars = usage[function]
  BY DEF UsageInv, Marks, Marking
<1> QED
  BY <1>1 DEF UsageInv, MarksEffect

LEMMA DoneKeeps ==
  ASSUME UsageInv, NEW r, NEW reading, NEW writing, MarksEffect(r, reading, writing), Done(r, reading, writing)
  PROVE  /\ usage' \in [Function -> [AnyVariable -> SUBSET Flag]] /\ usage'[function] = r.vars
         /\ reads' \in [Function -> SUBSET AnyVariable] /\ writes' \in [Function -> SUBSET AnyVariable]
         /\ UsageRecorded(usage', reads', writes')
<1>1. /\ function \in Function
      /\ usage \in [Function -> [AnyVariable -> SUBSET Flag]]
      /\ reads \in [Function -> SUBSET AnyVariable] /\ writes \in [Function -> SUBSET AnyVariable]
      /\ UsageRecorded(usage, reads, writes)
  BY DEF UsageInv
<1>2. /\ r.vars \in [AnyVariable -> SUBSET Flag]
      /\ reading \in SUBSET AnyVariable /\ writing \in SUBSET AnyVariable
  BY DEF MarksEffect, Marking
<1>3. /\ usage' = [usage EXCEPT ![function] = r.vars]
      /\ reads' = [reads EXCEPT ![function] = reads[function] \cup reading]
      /\ writes' = [writes EXCEPT ![function] = writes[function] \cup writing]
  BY DEF Done
<1>4. /\ usage' \in [Function -> [AnyVariable -> SUBSET Flag]] /\ usage'[function] = r.vars
      /\ reads' \in [Function -> SUBSET AnyVariable] /\ writes' \in [Function -> SUBSET AnyVariable]
  BY <1>1, <1>2, <1>3
<1>5. ASSUME NEW f \in Function, NEW v \in AnyVariable
      PROVE  /\ v \in writes'[f] => "WRITE" \in usage'[f][v]
             /\ "WRITE" \in usage'[f][v] => v \in writes'[f]
             /\ v \in reads'[f] => "READ" \in usage'[f][v]
             /\ v \in writes'[f] => v \notin Arrays
  <2>1. /\ v \in writes[f] => "WRITE" \in usage[f][v]
        /\ "WRITE" \in usage[f][v] => v \in writes[f]
        /\ v \in reads[f] => "READ" \in usage[f][v]
        /\ v \in writes[f] => v \notin Arrays
    BY <1>1 DEF UsageRecorded
  <2>2. CASE f = function
    <3>1. usage'[f] = r.vars /\ reads'[f] = reads[f] \cup reading /\ writes'[f] = writes[f] \cup writing
      BY <1>1, <1>3, <2>2
    <3>2. /\ usage[f][v] \subseteq r.vars[v]
          /\ v \in reading => "READ" \in r.vars[v]
          /\ v \in writing => "WRITE" \in r.vars[v] /\ v \notin Arrays
          /\ "WRITE" \in r.vars[v] => "WRITE" \in usage[f][v] \/ v \in writing
      BY <2>2 DEF MarksEffect
    <3> QED
      BY <2>1, <3>1, <3>2
  <2>3. CASE f # function
    BY <1>1, <1>3, <2>1, <2>3
  <2> QED
    BY <2>2, <2>3
<1>6. UsageRecorded(usage', reads', writes')
  BY <1>5 DEF UsageRecorded
<1> QED
  BY <1>4, <1>6

LEMMA StatementKeeps ==
  ASSUME UsageInv, NEW r, NEW reading, NEW writing, MarksEffect(r, reading, writing), Statement(r, reading, writing)
  PROVE  UsageInv'
<1>1. /\ function' = function /\ nodes' = nodes /\ marked' = r.nodes
      /\ usage' \in [Function -> [AnyVariable -> SUBSET Flag]] /\ usage'[function] = r.vars
      /\ reads' \in [Function -> SUBSET AnyVariable] /\ writes' \in [Function -> SUBSET AnyVariable]
      /\ UsageRecorded(usage', reads', writes')
  BY DoneKeeps DEF Statement, Step
<1>2. Marks' = [nodes |-> r.nodes, vars |-> r.vars]
  BY <1>1 DEF Marks
<1>3. r.nodes \in [DOMAIN nodes -> SUBSET Flag] /\ Linked(nodes, r) /\ Operands(nodes, r)
  BY DEF MarksEffect, Marking
<1>4. Linked(nodes', Marks')
  BY <1>1, <1>2, <1>3 DEF Linked
<1>5. Operands(nodes', Marks')
  BY <1>1, <1>2, <1>3 DEF Operands
<1> QED
  BY <1>1, <1>3, <1>4, <1>5 DEF UsageInv

\* The operands of a new node.
NewRight(kind, args, r) ==
    /\ args \in Seq(DOMAIN nodes)
    /\ \/ kind = "member" /\ Len(args) = 1
       \/ /\ kind \in {"access", "operation"} /\ Len(args) = 2
          /\ "READ" \in r.nodes[args[1]] /\ "READ" \in r.nodes[args[2]]

LEMMA NewNodeKeeps ==
  ASSUME UsageInv, NEW r, NEW kind, NEW args, MarksEffect(r, {}, {}), NewRight(kind, args, r), NewNode(kind, args, r)
  PROVE  UsageInv'
<1>1. PICK new : new = [kind |-> kind, var |-> "none", args |-> args]
  OBVIOUS
<1>2. /\ function' = function /\ nodes' = Append(nodes, new) /\ marked' = Append(r.nodes, {})
      /\ usage' \in [Function -> [AnyVariable -> SUBSET Flag]] /\ usage'[function] = r.vars
      /\ reads' \in [Function -> SUBSET AnyVariable] /\ writes' \in [Function -> SUBSET AnyVariable]
      /\ UsageRecorded(usage', reads', writes')
  BY <1>1, DoneKeeps DEF NewNode, Step
<1>3. PICK n : n = Len(nodes) /\ n \in Nat /\ DOMAIN nodes = 1 .. n
  BY NodeFacts DEF UsageInv
<1>4. /\ nodes \in Seq(NodeRecord) /\ function \in Function
      /\ \A i \in DOMAIN nodes :
           /\ nodes[i].kind = "ref" => nodes[i].var \in Variables(function) /\ nodes[i].args = <<>>
           /\ nodes[i].kind = "member" => Len(nodes[i].args) = 1
           /\ Operates(nodes, i) => Len(nodes[i].args) = 2
           /\ \A k \in DOMAIN nodes[i].args : nodes[i].args[k] \in 1 .. i - 1
  BY DEF UsageInv, NodesRight
<1>5. r.nodes \in [1 .. n -> SUBSET Flag] /\ r.nodes \in Seq(SUBSET Flag) /\ Len(r.nodes) = n
  BY <1>3 DEF MarksEffect, Marking
<1>6. /\ new.kind = kind /\ new.args = args /\ new.var = "none" /\ new.kind # "ref"
      /\ args \in Seq(Nat) /\ new.kind \in {"member", "access", "operation"}
      /\ \A k \in DOMAIN args : args[k] \in 1 .. n
  <2>1. args \in Seq(DOMAIN nodes) /\ kind \in {"member", "access", "operation"}
    BY DEF NewRight
  <2>2. \A k \in DOMAIN args : args[k] \in DOMAIN nodes
    BY <2>1
  <2>3. \A j \in DOMAIN nodes : j \in Nat
    BY <1>3
  <2>4. args \in Seq(Nat)
    BY <2>1, <2>2, <2>3
  <2> QED
    BY <1>1, <1>3, <2>1, <2>2, <2>4
<1>7. new \in NodeRecord
  BY <1>1, <1>6 DEF NodeRecord
<1>8. PICK ns : ns = Append(nodes, new)
  OBVIOUS
<1>9. /\ ns \in Seq(NodeRecord) /\ DOMAIN ns = 1 .. n + 1 /\ ns[n + 1] = new /\ \A i \in 1 .. n : ns[i] = nodes[i]
  BY <1>3, <1>4, <1>7, <1>8
<1>10. PICK marks : marks = Append(r.nodes, {})
  OBVIOUS
<1>11. /\ marks \in [1 .. n + 1 -> SUBSET Flag] /\ marks[n + 1] = {} /\ \A i \in 1 .. n : marks[i] = r.nodes[i]
  <2>1. PICK q : q = r.nodes /\ q \in Seq(SUBSET Flag) /\ Len(q) = n /\ marks = Append(q, {})
    BY <1>5, <1>10
  <2>2. marks \in Seq(SUBSET Flag) /\ Len(marks) = n + 1
    BY <1>3, <2>1
  <2>3. marks[n + 1] = {} /\ \A i \in 1 .. n : marks[i] = q[i]
    BY <1>3, <2>1
  <2>4. marks \in [1 .. n + 1 -> SUBSET Flag]
    BY <1>3, <2>2
  <2>5. \A i \in 1 .. n : marks[i] = r.nodes[i]
    BY <2>1, <2>3
  <2> QED
    BY <2>3, <2>4, <2>5
<1>12. ASSUME NEW i \in 1 .. n + 1
       PROVE  /\ ns[i].kind = "ref" => ns[i].var \in Variables(function) /\ ns[i].args = <<>>
              /\ ns[i].kind = "member" => Len(ns[i].args) = 1
              /\ Operates(ns, i) => Len(ns[i].args) = 2
              /\ \A k \in DOMAIN ns[i].args : ns[i].args[k] \in 1 .. i - 1
  <2>1. CASE i = n + 1
    <3>1. /\ ns[i].kind = "member" => Len(ns[i].args) = 1
          /\ Operates(ns, i) => Len(ns[i].args) = 2
      BY <1>6, <1>9, <2>1 DEF NewRight, Operates
    <3> QED
      BY <1>3, <1>6, <1>9, <2>1, <3>1
  <2>2. CASE i # n + 1
    <3>1. i \in 1 .. n /\ i \in DOMAIN nodes /\ ns[i] = nodes[i]
      BY <1>3, <1>9, <2>2
    <3>2. Operates(ns, i) => Operates(nodes, i)
      BY <3>1 DEF Operates
    <3> QED
      BY <1>4, <3>1, <3>2
  <2> QED
    BY <2>1, <2>2
<1>13. NodesRight(ns, function)
  BY <1>9, <1>12 DEF NodesRight
<1>14. PICK m : m = [nodes |-> marks, vars |-> r.vars]
  OBVIOUS
<1>15. Linked(ns, m)
  <2>1. ASSUME NEW i \in DOMAIN ns
        PROVE  /\ Passes(ns, i) => m.nodes[i] \subseteq m.nodes[ns[i].args[1]]
               /\ ns[i].kind = "ref" => m.nodes[i] \subseteq m.vars[ns[i].var]
    <3>1. CASE i = n + 1
      BY <1>11, <1>14, <3>1
    <3>2. CASE i # n + 1
      <4>1. i \in 1 .. n /\ i \in DOMAIN nodes /\ ns[i] = nodes[i]
        BY <1>3, <1>9, <3>2
      <4>2. /\ Passes(ns, i) => Passes(nodes, i) /\ nodes[i].args[1] \in 1 .. n
        BY <1>3, <4>1, NodeFacts DEF Passes, UsageInv
      <4>3. /\ Passes(nodes, i) => r.nodes[i] \subseteq r.nodes[nodes[i].args[1]]
            /\ nodes[i].kind = "ref" => r.nodes[i] \subseteq r.vars[nodes[i].var]
        BY <4>1 DEF MarksEffect, Linked
      <4> QED
        BY <1>11, <1>14, <4>1, <4>2, <4>3
    <3> QED
      BY <3>1, <3>2
  <2> QED
    BY <2>1 DEF Linked
<1>16. Operands(ns, m)
  <2>1. ASSUME NEW i \in DOMAIN ns, Operates(ns, i)
        PROVE  "READ" \in m.nodes[ns[i].args[1]] /\ "READ" \in m.nodes[ns[i].args[2]]
    <3>1. CASE i = n + 1
      <4>1. /\ Len(args) = 2 /\ "READ" \in r.nodes[args[1]] /\ "READ" \in r.nodes[args[2]]
        BY <1>6, <1>9, <2>1, <3>1 DEF NewRight, Operates
      <4>2. args[1] \in 1 .. n /\ args[2] \in 1 .. n
        BY <1>6, <4>1
      <4> QED
        BY <1>6, <1>9, <1>11, <1>14, <3>1, <4>1, <4>2
    <3>2. CASE i # n + 1
      <4>1. i \in 1 .. n /\ i \in DOMAIN nodes /\ ns[i] = nodes[i]
        BY <1>3, <1>9, <3>2
      <4>2. Operates(nodes, i)
        BY <2>1, <4>1 DEF Operates
      <4>3. nodes[i].args[1] \in 1 .. n /\ nodes[i].args[2] \in 1 .. n
        BY <1>3, <4>1, <4>2, NodeFacts DEF UsageInv
      <4>4. "READ" \in r.nodes[nodes[i].args[1]] /\ "READ" \in r.nodes[nodes[i].args[2]]
        BY <4>1, <4>2 DEF MarksEffect, Operands
      <4> QED
        BY <1>11, <1>14, <4>1, <4>3, <4>4
    <3> QED
      BY <3>1, <3>2
  <2> QED
    BY <2>1 DEF Operands
<1>17. /\ nodes' = ns /\ Marks' = m /\ marked' \in [DOMAIN nodes' -> SUBSET Flag]
  BY <1>2, <1>8, <1>9, <1>10, <1>11, <1>14 DEF Marks
<1> QED
  BY <1>2, <1>4, <1>13, <1>15, <1>16, <1>17 DEF UsageInv

-----------------------------------------------------------------------------
\* A mark, and two marks in a row.
MarkedTwice(m, i, flags, j, r) ==
    /\ r \in Marking /\ Linked(nodes, r) /\ Operands(nodes, r)
    /\ flags \subseteq r.nodes[i] /\ "READ" \in r.nodes[j]
    /\ Root(i).kind = "ref" => flags \subseteq r.vars[Root(i).var]
    /\ \A v \in AnyVariable :
         /\ m.vars[v] \subseteq r.vars[v]
         /\ "WRITE" \in r.vars[v] => \/ "WRITE" \in m.vars[v]
                                     \/ "WRITE" \in flags /\ Root(i).kind = "ref" /\ v = Root(i).var

LEMMA MarkTwice ==
  ASSUME NodesRight(nodes, function), NEW m \in Marking, Linked(nodes, m), Operands(nodes, m),
         NEW i \in DOMAIN nodes, NEW j \in DOMAIN nodes, NEW flags \in SUBSET Flag
  PROVE  MarkedTwice(m, i, flags, j, Mark(Mark(m, i, flags), j, Read))
<1>1. PICK s : s = Mark(m, i, flags)
  OBVIOUS
<1>2. s \in Marking /\ Linked(nodes, s) /\ Extends(m, i, flags, s)
  BY <1>1, MarkExtends DEF Extends
<1>3. PICK r : r = Mark(s, j, Read)
  OBVIOUS
<1>4. Read = {"READ"} /\ Read \in SUBSET Flag
  BY DEF Read, Flag
<1>5. Extends(s, j, Read, r)
  BY <1>2, <1>3, <1>4, MarkExtends
<1>6. /\ r \in Marking /\ Linked(nodes, r)
      /\ \A n \in DOMAIN nodes : m.nodes[n] \subseteq r.nodes[n]
      /\ flags \subseteq r.nodes[i] /\ "READ" \in r.nodes[j]
  BY <1>2, <1>4, <1>5 DEF Extends
<1>7. Operands(nodes, r)
  BY <1>6, NodeFacts DEF Operands
<1>8. Root(i).kind = "ref" => flags \subseteq r.vars[Root(i).var]
  BY <1>2, <1>5, RootStep DEF Extends
<1>9. \A v \in AnyVariable :
        /\ m.vars[v] \subseteq r.vars[v]
        /\ "WRITE" \in r.vars[v] => \/ "WRITE" \in m.vars[v]
                                    \/ "WRITE" \in flags /\ Root(i).kind = "ref" /\ v = Root(i).var
  <2>1. ASSUME NEW v \in AnyVariable
        PROVE  /\ m.vars[v] \subseteq r.vars[v]
               /\ "WRITE" \in r.vars[v] => \/ "WRITE" \in m.vars[v]
                                           \/ "WRITE" \in flags /\ Root(i).kind = "ref" /\ v = Root(i).var
    <3>1. /\ m.vars[v] \subseteq s.vars[v] /\ s.vars[v] \subseteq m.vars[v] \cup flags
          /\ s.vars[v] # m.vars[v] => Root(i).kind = "ref" /\ v = Root(i).var
      BY <1>2 DEF Extends
    <3>2. s.vars[v] \subseteq r.vars[v] /\ r.vars[v] \subseteq s.vars[v] \cup {"READ"}
      BY <1>4, <1>5 DEF Extends
    <3> QED
      BY <3>1, <3>2
  <2> QED
    BY <2>1
<1>10. MarkedTwice(m, i, flags, j, r)
  BY <1>6, <1>7, <1>8, <1>9 DEF MarkedTwice
<1> QED
  BY <1>1, <1>3, <1>10

LEMMA FlagFacts ==
  /\ Read = {"READ"} /\ Write = {"WRITE"} /\ Read \in SUBSET Flag /\ Write \in SUBSET Flag /\ Read \cup Write \in SUBSET Flag
  /\ "WRITE" \notin Read
BY DEF Read, Write, Flag

LEMMA MemberKeeps ==
  ASSUME UsageInv, NEW i \in DOMAIN nodes, Member(i)
  PROVE  UsageInv'
<1>1. MarksEffect(Marks, {}, {}) /\ NewNode("member", <<i>>, Marks)
  BY MarksFacts DEF Member
<1>2. NewRight("member", <<i>>, Marks)
  BY DEF NewRight
<1> QED
  BY <1>1, <1>2, NewNodeKeeps

LEMMA OperandsKeep ==
  ASSUME UsageInv, NEW i \in DOMAIN nodes, NEW j \in DOMAIN nodes, Accessed(i, j) \/ Operation(i, j)
  PROVE  UsageInv'
<1>1. PICK r : r = Mark(Mark(Marks, i, Read), j, Read)
  OBVIOUS
<1>2. MarkedTwice(Marks, i, Read, j, r)
  BY <1>1, MarkTwice, MarksFacts, FlagFacts DEF UsageInv
<1>3. MarksEffect(r, {}, {})
  BY <1>2, MarksFacts, FlagFacts DEF MarksEffect, MarkedTwice
<1>4. "READ" \in r.nodes[i] /\ "READ" \in r.nodes[j]
  BY <1>2, FlagFacts DEF MarkedTwice
<1>5. NewRight("access", <<i, j>>, r) /\ NewRight("operation", <<i, j>>, r)
  BY <1>4 DEF NewRight
<1>6. NewNode("access", <<i, j>>, r) \/ NewNode("operation", <<i, j>>, r)
  BY <1>1 DEF Accessed, Operation
<1> QED
  BY <1>3, <1>5, <1>6, NewNodeKeeps

LEMMA EvaluateKeeps ==
  ASSUME UsageInv, NEW i \in DOMAIN nodes, Evaluate(i)
  PROVE  UsageInv'
<1>1. PICK r : r = Mark(Marks, i, Read)
  OBVIOUS
<1>2. NodesRight(nodes, function) /\ Marks \in Marking /\ Linked(nodes, Marks) /\ Operands(nodes, Marks)
  BY MarksFacts DEF UsageInv
<1>3. Extends(Marks, i, Read, r)
  BY <1>1, <1>2, MarkExtends, FlagFacts
<1>4. /\ r \in Marking /\ Linked(nodes, r) /\ "READ" \in r.nodes[i]
      /\ \A n \in DOMAIN nodes : Marks.nodes[n] \subseteq r.nodes[n]
  BY <1>3, FlagFacts DEF Extends
<1>5. Operands(nodes, r)
  BY <1>2, <1>4, NodeFacts DEF Operands
<1>6. ValueReads[i] \in SUBSET AnyVariable /\ \A v \in ValueReads[i] : "READ" \in r.vars[v]
  BY <1>2, <1>4, <1>5, ValueIsMarked, ValueStep
<1>7. \A v \in AnyVariable : /\ usage[function][v] \subseteq r.vars[v]
                             /\ "WRITE" \in r.vars[v] => "WRITE" \in usage[function][v]
  BY <1>3, MarksFacts, FlagFacts DEF Extends
<1>8. MarksEffect(r, ValueReads[i], {})
  BY <1>4, <1>5, <1>6, <1>7 DEF MarksEffect
<1> QED
  BY <1>1, <1>8, StatementKeeps DEF Evaluate

\* A statement that writes a place and evaluates a value.
LEMMA AssignmentEffect ==
  ASSUME UsageInv, NEW i \in DOMAIN nodes, NEW j \in DOMAIN nodes, IsPlace(i), NEW flags \in SUBSET Flag, "WRITE" \in flags,
         NEW reading \in SUBSET {Root(i).var}, reading # {} => "READ" \in flags
  PROVE  MarksEffect(Mark(Mark(Marks, i, flags), j, Read), PlaceReads(i) \cup ValueReads[j] \cup reading, {Root(i).var})
<1>1. PICK r : r = Mark(Mark(Marks, i, flags), j, Read)
  OBVIOUS
<1>2. NodesRight(nodes, function) /\ Marks \in Marking /\ Linked(nodes, Marks) /\ Operands(nodes, Marks)
  BY MarksFacts DEF UsageInv
<1>3. MarkedTwice(Marks, i, flags, j, r)
  BY <1>1, <1>2, MarkTwice
<1>4. r \in Marking /\ Linked(nodes, r) /\ Operands(nodes, r) /\ "READ" \in r.nodes[j]
  BY <1>3 DEF MarkedTwice
<1>5. /\ Root(i).kind = "ref" /\ Root(i).var \in AnyVariable \ Arrays
      /\ flags \subseteq r.vars[Root(i).var]
  BY <1>2, <1>3, RootStep DEF IsPlace, MarkedTwice
<1>6. PlaceReads(i) \in SUBSET AnyVariable /\ \A v \in PlaceReads(i) : "READ" \in r.vars[v]
  BY <1>2, <1>4, PlaceIsMarked
<1>7. ValueReads[j] \in SUBSET AnyVariable /\ \A v \in ValueReads[j] : "READ" \in r.vars[v]
  BY <1>2, <1>4, ValueIsMarked, ValueStep
<1>8. \A v \in AnyVariable : /\ usage[function][v] \subseteq r.vars[v]
                             /\ "WRITE" \in r.vars[v] => "WRITE" \in usage[function][v] \/ v \in {Root(i).var}
  BY <1>3, MarksFacts DEF MarkedTwice
<1>9. MarksEffect(r, PlaceReads(i) \cup ValueReads[j] \cup reading, {Root(i).var})
  BY <1>4, <1>5, <1>6, <1>7, <1>8 DEF MarksEffect
<1> QED
  BY <1>1, <1>9

LEMMA AssignKeeps ==
  ASSUME UsageInv, NEW i \in DOMAIN nodes, NEW j \in DOMAIN nodes, Assign(i, j)
  PROVE  UsageInv'
<1>1. MarksEffect(AssignMarks(i, j), PlaceReads(i) \cup ValueReads[j] \cup {}, {Root(i).var})
  BY AssignmentEffect, FlagFacts DEF AssignMarks, Assign
<1>2. PlaceReads(i) \cup ValueReads[j] \cup {} = PlaceReads(i) \cup ValueReads[j]
  OBVIOUS
<1>3. Statement(AssignMarks(i, j), PlaceReads(i) \cup ValueReads[j], {Root(i).var})
  BY DEF Assign
<1> QED
  BY <1>1, <1>2, <1>3, StatementKeeps

LEMMA ForKeeps ==
  ASSUME UsageInv, NEW i \in DOMAIN nodes, NEW j \in DOMAIN nodes, For(i, j)
  PROVE  UsageInv'
<1>1. MarksEffect(Mark(Mark(Marks, i, Read \cup Write), j, Read), PlaceReads(i) \cup ValueReads[j] \cup {Root(i).var}, {Root(i).var})
  BY AssignmentEffect, FlagFacts DEF For
<1> QED
  BY <1>1, StatementKeeps DEF For

-----------------------------------------------------------------------------
LEMMA ArgumentFacts ==
  /\ IsFiniteSet(Argument) /\ \A f \in Function : IsFiniteSet(Variables(f))
  /\ Argument \in SUBSET AnyVariable /\ Captured \in SUBSET AnyVariable
<1>1. /\ IsFiniteSet(ByReference) /\ IsFiniteSet(ByValue) /\ IsFiniteSet(Captured) /\ IsFiniteSet(Local)
  BY UsageAssumption
<1>2. IsFiniteSet(Argument)
  BY <1>1, FS_Union DEF Argument
<1>3. \A f : IsFiniteSet(Variables(f))
  <2>1. ASSUME NEW f PROVE IsFiniteSet(Variables(f))
    <3>1. IsFiniteSet(Captured \cup Argument) /\ IsFiniteSet(Captured \cup Local)
      BY <1>1, <1>2, FS_Union
    <3>2. CASE f = "callable"
      BY <3>1, <3>2 DEF Variables
    <3>3. CASE f # "callable"
      BY <3>1, <3>3 DEF Variables
    <3> QED
      BY <3>2, <3>3
  <2> QED
    BY <2>1
<1> QED
  BY <1>2, <1>3 DEF AnyVariable

\* What the builder begins with: the references to the variables.
LEMMA RefsRight ==
  ASSUME NEW f \in Function
  PROVE  /\ NodesRight(Refs(f), f)
         /\ \A i \in DOMAIN Refs(f) : Refs(f)[i].kind = "ref"
<1>1. PICK s : s = SetToSeq(Variables(f))
  OBVIOUS
<1>2. s \in Seq(Variables(f))
  BY <1>1, ArgumentFacts, SetToSeqFacts
<1>3. PICK ns : ns = [i \in DOMAIN s |-> RefNode(s[i])]
  OBVIOUS
<1>4. Refs(f) = ns
  BY <1>1, <1>3, Zenon DEF Refs
<1>5. \A i \in DOMAIN s : s[i] \in Variables(f) /\ s[i] \in AnyVariable
  BY <1>2 DEF Variables, AnyVariable
<1>6. DOMAIN s = 1 .. Len(s) /\ Len(s) \in Nat
  BY <1>2
<1>7. \A i \in DOMAIN s : /\ ns[i] = [kind |-> "ref", var |-> s[i], args |-> <<>>]
                          /\ ns[i] \in NodeRecord
  <2>1. <<>> \in Seq(Nat)
    OBVIOUS
  <2> QED
    BY <1>3, <1>5, <2>1 DEF RefNode, NodeRecord
<1>8. DOMAIN ns = DOMAIN s
  BY <1>3
<1>9. ns \in Seq(NodeRecord)
  BY <1>3, <1>6, <1>7, <1>8
<1>10. \A i \in DOMAIN ns : /\ ns[i].kind = "ref" /\ ns[i].var \in Variables(f) /\ ns[i].args = <<>> /\ ~Operates(ns, i)
  BY <1>5, <1>7, <1>8 DEF Operates
<1>11. DOMAIN <<>> = {}
  OBVIOUS
<1>12. NodesRight(ns, f)
  BY <1>9, <1>10, <1>11 DEF NodesRight
<1> QED
  BY <1>4, <1>10, <1>12

\* No node is marked yet.
LEMMA FreshMarks ==
  ASSUME NEW f \in Function, NEW used
  PROVE  /\ Linked(Refs(f), [nodes |-> [i \in DOMAIN Refs(f) |-> {}], vars |-> used])
         /\ Operands(Refs(f), [nodes |-> [i \in DOMAIN Refs(f) |-> {}], vars |-> used])
  BY RefsRight DEF Linked, Operands, Operates, Passes

LEMMA UsageStarts == UsageInit => UsageInv
<1> SUFFICES ASSUME UsageInit PROVE UsageInv
  OBVIOUS
<1>1. function = "callable" /\ function \in Function /\ nodes = Refs(function)
  BY DEF UsageInit, Function
<1>2. NodesRight(nodes, function)
  BY <1>1, RefsRight
<1>3. marked = [i \in DOMAIN Refs(function) |-> {}] /\ marked \in [DOMAIN nodes -> SUBSET Flag]
  BY <1>1 DEF UsageInit
<1>4. /\ usage \in [Function -> [AnyVariable -> SUBSET Flag]]
      /\ reads \in [Function -> SUBSET AnyVariable] /\ writes \in [Function -> SUBSET AnyVariable]
      /\ UsageRecorded(usage, reads, writes)
  BY DEF UsageInit, UsageRecorded
<1>5. Marks = [nodes |-> [i \in DOMAIN Refs(function) |-> {}], vars |-> usage[function]]
  BY <1>3 DEF Marks
<1>6. Linked(nodes, Marks) /\ Operands(nodes, Marks)
  BY <1>1, <1>5, FreshMarks
<1> QED
  BY <1>1, <1>2, <1>3, <1>4, <1>6 DEF UsageInv

LEMMA KernelBegins ==
  ASSUME UsageInv, BeginKernel
  PROVE  UsageInv'
<1>1. /\ function' = "kernel" /\ function' \in Function /\ nodes' = Refs(function')
      /\ UNCHANGED <<usage, reads, writes>> /\ marked' = [i \in DOMAIN Refs(function') |-> {}]
  BY DEF BeginKernel, Function
<1>2. NodesRight(nodes', function')
  BY <1>1, RefsRight
<1>3. marked' \in [DOMAIN nodes' -> SUBSET Flag]
  BY <1>1
<1>4. Marks' = [nodes |-> [i \in DOMAIN Refs(function') |-> {}], vars |-> usage'[function']]
  BY <1>1 DEF Marks
<1>5. Linked(nodes', Marks') /\ Operands(nodes', Marks')
  BY <1>1, <1>4, FreshMarks
<1>6. /\ usage' \in [Function -> [AnyVariable -> SUBSET Flag]]
      /\ reads' \in [Function -> SUBSET AnyVariable] /\ writes' \in [Function -> SUBSET AnyVariable]
      /\ UsageRecorded(usage', reads', writes')
  BY <1>1 DEF UsageInv
<1> QED
  BY <1>1, <1>2, <1>3, <1>5, <1>6 DEF UsageInv

-----------------------------------------------------------------------------
\* The marks of a call before its arguments.
Captives == [nodes |-> marked,
             vars |-> [v \in AnyVariable |-> Marks.vars[v] \cup IF v \in Captured THEN FlagsOf(v) ELSE {}]]

LEMMA FlagsFacts ==
  ASSUME UsageInv
  PROVE  \A v \in AnyVariable : /\ FlagsOf(v) \in SUBSET Flag
                                /\ v \in ByReference \cup (Captured \ Arrays) => FlagsOf(v) = usage["callable"][v]
                                /\ v \notin ByReference \cup (Captured \ Arrays) => FlagsOf(v) = {"READ"}
  BY FlagFacts DEF FlagsOf, UsageInv, Function

\* The marking of the arguments of a call, one by one.
CallMarking(args, listed, n, f) ==
    /\ n \in Nat /\ listed \in [1 .. n -> Argument] /\ \A v \in Argument : \E k \in 1 .. n : listed[k] = v
    /\ f[0] = Captives /\ \A k \in 0 .. n : f[k] \in Marking /\ Linked(nodes, f[k])
    /\ \A k \in 1 .. n : Extends(f[k - 1], args[listed[k]], FlagsOf(listed[k]), f[k])

LEMMA CaptivesRight ==
  ASSUME UsageInv
  PROVE  Captives \in Marking /\ Linked(nodes, Captives)
<1>1. /\ marked \in [DOMAIN nodes -> SUBSET Flag] /\ usage[function] \in [AnyVariable -> SUBSET Flag]
      /\ Linked(nodes, Marks) /\ Marks.nodes = marked /\ Marks.vars = usage[function]
      /\ NodesRight(nodes, function)
  BY MarksFacts DEF UsageInv
<1>2. \A v \in AnyVariable : Marks.vars[v] \cup (IF v \in Captured THEN FlagsOf(v) ELSE {}) \in SUBSET Flag
  BY <1>1, FlagsFacts
<1>3. Captives \in Marking
  BY <1>1, <1>2 DEF Captives, Marking
<1>4. /\ Captives.nodes = marked
      /\ \A v \in AnyVariable : Marks.vars[v] \subseteq Captives.vars[v]
  BY DEF Captives
<1>5. \A i \in DOMAIN nodes : nodes[i].kind = "ref" => nodes[i].var \in AnyVariable
  BY <1>1 DEF NodesRight, Variables, AnyVariable
<1>6. Linked(nodes, Captives)
  BY <1>1, <1>4, <1>5 DEF Linked
<1> QED
  BY <1>3, <1>6

LEMMA CallExists ==
  ASSUME UsageInv, NEW args \in [Argument -> DOMAIN nodes]
  PROVE  \E n, listed, f : CallMarking(args, listed, n, f) /\ CallMarks(args) = f[n]
<1>1. PICK n, listed : /\ n = Cardinality(Argument) /\ n \in Nat /\ listed = SetToSeq(Argument)
                     /\ listed \in [1 .. n -> Argument] /\ Len(listed) = n
                     /\ \A v \in Argument : \E k \in 1 .. n : listed[k] = v
  BY ArgumentFacts, SetToSeqFacts
<1>2. PICK V : V = {m \in Marking : Linked(nodes, m)}
  OBVIOUS
<1>3. Captives \in V
  BY <1>2, CaptivesRight
<1>4. PICK F : F = [k \in 1 .. n |-> [g \in [1 .. n -> V] |->
                      Mark(IF k = 1 THEN Captives ELSE g[k - 1], args[listed[k]], FlagsOf(listed[k]))]]
  OBVIOUS
<1>5. \A k \in 1 .. n : args[listed[k]] \in DOMAIN nodes /\ FlagsOf(listed[k]) \in SUBSET Flag
  BY <1>1, FlagsFacts, ArgumentFacts
<1>6. \A k \in 1 .. n : \A m \in V : /\ Extends(m, args[listed[k]], FlagsOf(listed[k]), Mark(m, args[listed[k]], FlagsOf(listed[k])))
                                     /\ Mark(m, args[listed[k]], FlagsOf(listed[k])) \in V
  <2>1. ASSUME NEW k \in 1 .. n, NEW m \in V
        PROVE  /\ Extends(m, args[listed[k]], FlagsOf(listed[k]), Mark(m, args[listed[k]], FlagsOf(listed[k])))
               /\ Mark(m, args[listed[k]], FlagsOf(listed[k])) \in V
    <3>1. m \in Marking /\ Linked(nodes, m) /\ NodesRight(nodes, function)
      BY <1>2 DEF UsageInv
    <3>2. PICK j, fl : j = args[listed[k]] /\ fl = FlagsOf(listed[k])
      OBVIOUS
    <3>3. Extends(m, j, fl, Mark(m, j, fl))
      BY <1>5, <3>1, <3>2, MarkExtends
    <3>4. Mark(m, j, fl) \in V
      BY <1>2, <3>3 DEF Extends
    <3> QED
      BY <3>2, <3>3, <3>4
  <2> QED
    BY <2>1
<1>7. \A k \in 1 .. n : \A g \in [1 .. n -> V] :
        /\ F[k][g] = Mark(IF k = 1 THEN Captives ELSE g[k - 1], args[listed[k]], FlagsOf(listed[k]))
        /\ (IF k = 1 THEN Captives ELSE g[k - 1]) \in V
        /\ F[k][g] \in V
  <2>1. ASSUME NEW k \in 1 .. n, NEW g \in [1 .. n -> V]
        PROVE  /\ F[k][g] = Mark(IF k = 1 THEN Captives ELSE g[k - 1], args[listed[k]], FlagsOf(listed[k]))
               /\ (IF k = 1 THEN Captives ELSE g[k - 1]) \in V
               /\ F[k][g] \in V
    <3>1. F[k][g] = Mark(IF k = 1 THEN Captives ELSE g[k - 1], args[listed[k]], FlagsOf(listed[k]))
      BY <1>4
    <3>2. (IF k = 1 THEN Captives ELSE g[k - 1]) \in V
      <4>1. k # 1 => k - 1 \in 1 .. n
        BY <1>1
      <4> QED
        BY <1>3, <4>1
    <3> QED
      BY <1>6, <3>1, <3>2
  <2> QED
    BY <2>1
<1>8. PICK h \in [1 .. n -> V] : \A k \in 1 .. n : h[k] = F[k][h]
  <2>1. F \in [1 .. n -> [[1 .. n -> V] -> V]]
    BY <1>4, <1>7
  <2>2. \A k \in 1 .. n : \A g1, g2 \in [1 .. n -> V] :
           (\A j \in 1 .. n : j < k => g1[j] = g2[j]) => F[k][g1] = F[k][g2]
    <3>1. ASSUME NEW k \in 1 .. n, NEW g1 \in [1 .. n -> V], NEW g2 \in [1 .. n -> V],
                 \A j \in 1 .. n : j < k => g1[j] = g2[j]
          PROVE  F[k][g1] = F[k][g2]
      <4>1. k # 1 => k - 1 \in 1 .. n /\ k - 1 < k
        BY <1>1
      <4>2. (IF k = 1 THEN Captives ELSE g1[k - 1]) = (IF k = 1 THEN Captives ELSE g2[k - 1])
        BY <3>1, <4>1
      <4>3. PICK m : m = IF k = 1 THEN Captives ELSE g1[k - 1]
        OBVIOUS
      <4>4. F[k][g1] = Mark(m, args[listed[k]], FlagsOf(listed[k]))
        BY <1>7, <4>3
      <4>5. F[k][g2] = Mark(m, args[listed[k]], FlagsOf(listed[k]))
        BY <1>7, <4>2, <4>3
      <4> QED
        BY <4>4, <4>5
    <3> QED
      BY <3>1
  <2>3. Recursion(n, V, F)
    BY <1>1, <1>3, <2>1, <2>2 DEF Recursion
  <2> QED
    BY <2>3, RecursionExists
<1>9. PICK f : f = [k \in 0 .. n |-> IF k = 0 THEN Captives ELSE h[k]]
  OBVIOUS
<1>10. \A k \in 0 .. n : f[k] = IF k = 0 THEN Captives ELSE Mark(f[k - 1], args[listed[k]], FlagsOf(listed[k]))
  <2>1. ASSUME NEW k \in 0 .. n, k # 0
        PROVE  f[k] = Mark(f[k - 1], args[listed[k]], FlagsOf(listed[k]))
    <3>1. k \in 1 .. n /\ k - 1 \in 0 .. n
      BY <1>1, <2>1
    <3>2. f[k - 1] = IF k = 1 THEN Captives ELSE h[k - 1]
      BY <1>9, <3>1
    <3>3. f[k] = h[k] /\ h[k] = F[k][h]
      BY <1>8, <1>9, <3>1
    <3> QED
      BY <1>7, <1>8, <3>1, <3>2, <3>3
  <2>2. f[0] = Captives /\ 0 \in 0 .. n
    BY <1>1, <1>9
  <2> QED
    BY <2>1, <2>2
<1>11. f = [k \in 0 .. Len(listed) |-> IF k = 0 THEN Captives ELSE Mark(f[k - 1], args[listed[k]], FlagsOf(listed[k]))]
  <2>1. f = [k \in 0 .. n |-> f[k]]
    BY <1>9
  <2> QED
    BY <1>1, <1>10, <2>1, Zenon
<1>12. PICK g : /\ g = [k \in 0 .. Len(listed) |-> IF k = 0 THEN Captives ELSE Mark(g[k - 1], args[listed[k]], FlagsOf(listed[k]))]
                /\ CallMarks(args) = g[Len(listed)]
  <2>1. f = [k \in 0 .. Len(SetToSeq(Argument)) |->
               IF k = 0 THEN Captives ELSE Mark(f[k - 1], args[SetToSeq(Argument)[k]], FlagsOf(SetToSeq(Argument)[k]))]
    BY <1>1, <1>11, Zenon
  <2>2. \E g : /\ g = [k \in 0 .. Len(SetToSeq(Argument)) |->
                         IF k = 0 THEN Captives ELSE Mark(g[k - 1], args[SetToSeq(Argument)[k]], FlagsOf(SetToSeq(Argument)[k]))]
              /\ CallMarks(args) = g[Len(SetToSeq(Argument))]
    BY <2>1, Zenon DEF CallMarks, Captives
  <2> QED
    BY <1>1, <2>2, Zenon
<1>13. g[0] = Captives /\ \A k \in 1 .. n : g[k] = Mark(g[k - 1], args[listed[k]], FlagsOf(listed[k]))
  <2>1. \A k \in 0 .. n : g[k] = IF k = 0 THEN Captives ELSE Mark(g[k - 1], args[listed[k]], FlagsOf(listed[k]))
    BY <1>1, <1>12, Zenon
  <2>2. 0 \in 0 .. n /\ \A k \in 1 .. n : k \in 0 .. n /\ k # 0
    BY <1>1
  <2> QED
    BY <2>1, <2>2, Zenon
<1>14. PICK Bad : Bad = {k \in 0 .. n : g[k] \notin V}
  OBVIOUS
<1>15. ASSUME Bad # {} PROVE FALSE
  <2>1. PICK k \in Bad : \A y \in Bad : k <= y
    <3>1. Bad \in SUBSET Nat
      BY <1>1, <1>14
    <3> QED
      BY <1>15, <3>1, LeastOf
  <2>2. k \in 0 .. n /\ g[k] \notin V /\ k # 0
    BY <1>3, <1>13, <1>14, <2>1
  <2>3. k \in 1 .. n /\ k - 1 \in 0 .. n /\ k - 1 \notin Bad
    BY <1>1, <2>1, <2>2
  <2>4. g[k - 1] \in V
    BY <1>14, <2>3
  <2> QED
    BY <1>6, <1>13, <2>2, <2>3, <2>4
<1>16. \A k \in 0 .. n : g[k] \in V
  BY <1>14, <1>15
<1>17. \A k \in 1 .. n : Extends(g[k - 1], args[listed[k]], FlagsOf(listed[k]), g[k])
  <2>1. ASSUME NEW k \in 1 .. n PROVE Extends(g[k - 1], args[listed[k]], FlagsOf(listed[k]), g[k])
    <3>1. k - 1 \in 0 .. n
      BY <1>1
    <3> QED
      BY <1>6, <1>13, <1>16, <3>1
  <2> QED
    BY <2>1
<1>18. CallMarking(args, listed, n, g)
  BY <1>1, <1>2, <1>13, <1>16, <1>17 DEF CallMarking
<1> QED
  BY <1>1, <1>12, <1>18


\* What the first k arguments have marked.
MarkedUpTo(args, listed, k, r) ==
    /\ \A i \in DOMAIN nodes : marked[i] \subseteq r.nodes[i]
    /\ \A j \in 1 .. k :
         /\ FlagsOf(listed[j]) \subseteq r.nodes[args[listed[j]]]
         /\ Root(args[listed[j]]).kind = "ref" => FlagsOf(listed[j]) \subseteq r.vars[Root(args[listed[j]]).var]
    /\ \A v \in AnyVariable :
         /\ Captives.vars[v] \subseteq r.vars[v]
         /\ "WRITE" \in r.vars[v] =>
              \/ "WRITE" \in Captives.vars[v]
              \/ \E j \in 1 .. k : /\ "WRITE" \in FlagsOf(listed[j])
                                   /\ Root(args[listed[j]]).kind = "ref" /\ v = Root(args[listed[j]]).var

LEMMA CallMarksAll ==
  ASSUME UsageInv, NEW args \in [Argument -> DOMAIN nodes], NEW n, NEW listed, NEW f, CallMarking(args, listed, n, f)
  PROVE  MarkedUpTo(args, listed, n, f[n])
<1>1. /\ n \in Nat /\ listed \in [1 .. n -> Argument] /\ f[0] = Captives
      /\ \A k \in 1 .. n : Extends(f[k - 1], args[listed[k]], FlagsOf(listed[k]), f[k])
  BY DEF CallMarking
<1>2. \A k \in 1 .. n : listed[k] \in Argument /\ args[listed[k]] \in DOMAIN nodes
  BY <1>1
<1>3. PICK Bad : Bad = {k \in 0 .. n : ~MarkedUpTo(args, listed, k, f[k])}
  OBVIOUS
<1>4. ASSUME Bad # {} PROVE FALSE
  <2>1. PICK k \in Bad : \A y \in Bad : k <= y
    <3>1. Bad \in SUBSET Nat
      BY <1>1, <1>3
    <3> QED
      BY <1>4, <3>1, LeastOf
  <2>2. k \in 0 .. n /\ ~MarkedUpTo(args, listed, k, f[k])
    BY <1>3, <2>1
  <2>3. CASE k = 0
    <3>1. Captives.nodes = marked
      BY DEF Captives
    <3>2. 1 .. 0 = {}
      OBVIOUS
    <3>3. MarkedUpTo(args, listed, 0, Captives)
      BY <3>1, <3>2 DEF MarkedUpTo
    <3> QED
      BY <1>1, <2>2, <2>3, <3>3
  <2>4. CASE k # 0
    <3>1. PICK h : h = k - 1 /\ h \in 0 .. n /\ k = h + 1 /\ k \in 1 .. n /\ h \notin Bad
      BY <1>1, <2>1, <2>2, <2>4
    <3>2. PICK s, r : s = f[h] /\ r = f[k]
      OBVIOUS
    <3>3. MarkedUpTo(args, listed, h, s)
      BY <1>3, <3>1, <3>2
    <3>4. Extends(s, args[listed[k]], FlagsOf(listed[k]), r)
      BY <1>1, <3>1, <3>2
    <3>5. \A i \in DOMAIN nodes : marked[i] \subseteq r.nodes[i]
      BY <3>3, <3>4 DEF MarkedUpTo, Extends
    <3>6. ASSUME NEW j \in 1 .. k
          PROVE  /\ FlagsOf(listed[j]) \subseteq r.nodes[args[listed[j]]]
                 /\ Root(args[listed[j]]).kind = "ref" => FlagsOf(listed[j]) \subseteq r.vars[Root(args[listed[j]]).var]
      <4>1. CASE j = k
        BY <3>4, <4>1 DEF Extends
      <4>2. CASE j # k
        <5>1. j \in 1 .. h /\ j \in 1 .. n
          BY <1>1, <3>1, <4>2
        <5>2. /\ FlagsOf(listed[j]) \subseteq s.nodes[args[listed[j]]]
              /\ Root(args[listed[j]]).kind = "ref" => FlagsOf(listed[j]) \subseteq s.vars[Root(args[listed[j]]).var]
          BY <3>3, <5>1 DEF MarkedUpTo
        <5>3. args[listed[j]] \in DOMAIN nodes
          BY <1>2, <5>1
        <5>4. Root(args[listed[j]]).kind = "ref" => Root(args[listed[j]]).var \in AnyVariable
          BY <5>3, RootStep DEF UsageInv
        <5> QED
          BY <3>4, <5>2, <5>3, <5>4 DEF Extends
      <4> QED
        BY <4>1, <4>2
    <3>7. ASSUME NEW v \in AnyVariable
          PROVE  /\ Captives.vars[v] \subseteq r.vars[v]
                 /\ "WRITE" \in r.vars[v] =>
                      \/ "WRITE" \in Captives.vars[v]
                      \/ \E j \in 1 .. k : /\ "WRITE" \in FlagsOf(listed[j])
                                           /\ Root(args[listed[j]]).kind = "ref" /\ v = Root(args[listed[j]]).var
      <4>1. /\ Captives.vars[v] \subseteq s.vars[v]
            /\ "WRITE" \in s.vars[v] =>
                 \/ "WRITE" \in Captives.vars[v]
                 \/ \E j \in 1 .. h : /\ "WRITE" \in FlagsOf(listed[j])
                                      /\ Root(args[listed[j]]).kind = "ref" /\ v = Root(args[listed[j]]).var
        BY <3>3 DEF MarkedUpTo
      <4>2. /\ s.vars[v] \subseteq r.vars[v] /\ r.vars[v] \subseteq s.vars[v] \cup FlagsOf(listed[k])
            /\ r.vars[v] # s.vars[v] => Root(args[listed[k]]).kind = "ref" /\ v = Root(args[listed[k]]).var
        BY <3>4 DEF Extends
      <4>3. k \in 1 .. k /\ \A j \in 1 .. h : j \in 1 .. k
        BY <3>1
      <4>4. CASE "WRITE" \in s.vars[v]
        BY <4>1, <4>2, <4>3, <4>4
      <4>5. CASE "WRITE" \notin s.vars[v]
        BY <4>1, <4>2, <4>3, <4>5
      <4> QED
        BY <4>4, <4>5
    <3>8. MarkedUpTo(args, listed, k, r)
      BY <3>5, <3>6, <3>7 DEF MarkedUpTo
    <3> QED
      BY <2>2, <3>2, <3>8
  <2> QED
    BY <2>3, <2>4
<1>5. n \in 0 .. n
  BY <1>1
<1> QED
  BY <1>3, <1>4, <1>5

LEMMA CallableKeeps ==
  ASSUME UsageInv, NEW args \in [Argument -> DOMAIN nodes], CallCallable(args)
  PROVE  UsageInv'
<1>1. PICK n, listed, f : CallMarking(args, listed, n, f) /\ CallMarks(args) = f[n]
  BY CallExists
<1>2. PICK r : r = f[n]
  OBVIOUS
<1>3. MarkedUpTo(args, listed, n, r)
  BY <1>1, <1>2, CallMarksAll
<1>4. /\ n \in Nat /\ listed \in [1 .. n -> Argument] /\ \A v \in Argument : \E k \in 1 .. n : listed[k] = v
      /\ r \in Marking /\ Linked(nodes, r)
  BY <1>1, <1>2 DEF CallMarking
<1>5. /\ function = "kernel" /\ NodesRight(nodes, function) /\ Operands(nodes, Marks)
      /\ \A v \in ByReference : Root(args[v]).kind = "ref" /\ Root(args[v]).var \notin Arrays
      /\ \A v \in AnyVariable : /\ v \in writes["callable"] => "WRITE" \in usage["callable"][v]
                                /\ v \in writes["callable"] => v \notin Arrays
                                /\ "WRITE" \in usage["callable"][v] => v \in writes["callable"]
                                /\ v \in reads["callable"] => "READ" \in usage["callable"][v]
      /\ reads["callable"] \in SUBSET AnyVariable /\ writes["callable"] \in SUBSET AnyVariable
  BY DEF UsageInv, CallCallable, IsPlace, UsageRecorded, Function
<1>6. Operands(nodes, r)
  BY <1>3, <1>5, MarksFacts, NodeFacts DEF Operands, MarkedUpTo
<1>7. \A v \in Argument : /\ args[v] \in DOMAIN nodes /\ FlagsOf(v) \subseteq r.nodes[args[v]]
                          /\ Root(args[v]).kind = "ref" => FlagsOf(v) \subseteq r.vars[Root(args[v]).var]
  BY <1>3, <1>4 DEF MarkedUpTo
<1>8. /\ ByReference \in SUBSET Argument /\ ByValue \in SUBSET Argument /\ Argument \in SUBSET AnyVariable /\ Captured \in SUBSET AnyVariable
      /\ ByReference \cap ByValue = {} /\ ByValue \cap Captured = {} /\ Argument \cap Captured = {}
  BY UsageAssumption DEF Argument, AnyVariable
<1>9. \A v \in Captured : FlagsOf(v) \subseteq r.vars[v]
  <2>1. ASSUME NEW v \in Captured PROVE FlagsOf(v) \subseteq r.vars[v]
    <3>1. FlagsOf(v) \subseteq Captives.vars[v]
      BY <1>8 DEF Captives
    <3>2. Captives.vars[v] \subseteq r.vars[v]
      BY <1>3, <1>8 DEF MarkedUpTo
    <3> QED
      BY <3>1, <3>2
  <2> QED
    BY <2>1
<1>10. PICK reading, writing :
         /\ reading = (UNION {PlaceReads(args[v]) : v \in ByReference})
                        \cup (UNION {ValueReads[args[v]] : v \in ByValue})
                        \cup PassedOn(reads["callable"], args)
         /\ writing = PassedOn(writes["callable"], args)
  OBVIOUS
<1>11. \A v \in ByReference : Root(args[v]).var \in AnyVariable
  BY <1>5, <1>7, <1>8, RootStep
<1>12. \A v \in writing : v \in AnyVariable \ Arrays /\ "WRITE" \in r.vars[v]
  <2>1. ASSUME NEW w \in writes["callable"] \cap ByReference
        PROVE  Root(args[w]).var \in AnyVariable \ Arrays /\ "WRITE" \in r.vars[Root(args[w]).var]
    BY <1>5, <1>7, <1>8, <1>11, FlagsFacts
  <2>2. ASSUME NEW w \in writes["callable"] \cap Captured
        PROVE  w \in AnyVariable \ Arrays /\ "WRITE" \in r.vars[w]
    BY <1>5, <1>8, <1>9, FlagsFacts
  <2> QED
    BY <1>10, <2>1, <2>2 DEF PassedOn
<1>13. \A v \in PassedOn(reads["callable"], args) : v \in AnyVariable /\ "READ" \in r.vars[v]
  <2>1. ASSUME NEW w \in reads["callable"] \cap ByReference
        PROVE  Root(args[w]).var \in AnyVariable /\ "READ" \in r.vars[Root(args[w]).var]
    BY <1>5, <1>7, <1>8, <1>11, FlagsFacts
  <2>2. ASSUME NEW w \in reads["callable"] \cap Captured
        PROVE  w \in AnyVariable /\ "READ" \in r.vars[w]
    BY <1>5, <1>8, <1>9, FlagsFacts
  <2> QED
    BY <2>1, <2>2 DEF PassedOn
<1>14. \A v \in reading : v \in AnyVariable /\ "READ" \in r.vars[v]
  <2>1. ASSUME NEW w \in ByReference, NEW v \in PlaceReads(args[w])
        PROVE  v \in AnyVariable /\ "READ" \in r.vars[v]
    <3>1. args[w] \in DOMAIN nodes
      BY <1>7, <1>8
    <3> QED
      BY <1>4, <1>5, <1>6, <3>1, PlaceIsMarked
  <2>2. ASSUME NEW w \in ByValue, NEW v \in ValueReads[args[w]]
        PROVE  v \in AnyVariable /\ "READ" \in r.vars[v]
    <3>1. args[w] \in DOMAIN nodes /\ "READ" \in r.nodes[args[w]]
      BY <1>7, <1>8, FlagsFacts
    <3> QED
      BY <1>4, <1>5, <1>6, <3>1, ValueIsMarked, ValueStep
  <2>3. \A x \in UNION {PlaceReads(args[v]) : v \in ByReference} : x \in AnyVariable /\ "READ" \in r.vars[x]
    BY <2>1
  <2>4. \A x \in UNION {ValueReads[args[v]] : v \in ByValue} : x \in AnyVariable /\ "READ" \in r.vars[x]
    BY <2>2
  <2> QED
    BY <1>10, <1>13, <2>3, <2>4
<1>15. \A v \in AnyVariable : /\ usage[function][v] \subseteq r.vars[v]
                              /\ "WRITE" \in r.vars[v] => "WRITE" \in usage[function][v] \/ v \in writing
  <2>1. ASSUME NEW v \in AnyVariable
        PROVE  /\ usage[function][v] \subseteq r.vars[v]
               /\ "WRITE" \in r.vars[v] => "WRITE" \in usage[function][v] \/ v \in writing
    <3>1. Captives.vars[v] = usage[function][v] \cup IF v \in Captured THEN FlagsOf(v) ELSE {}
      BY MarksFacts DEF Captives
    <3>2. /\ Captives.vars[v] \subseteq r.vars[v]
          /\ "WRITE" \in r.vars[v] =>
               \/ "WRITE" \in Captives.vars[v]
               \/ \E j \in 1 .. n : /\ "WRITE" \in FlagsOf(listed[j])
                                    /\ Root(args[listed[j]]).kind = "ref" /\ v = Root(args[listed[j]]).var
      BY <1>3 DEF MarkedUpTo
    <3>3. ASSUME v \in Captured, "WRITE" \in FlagsOf(v) PROVE v \in writing
      <4>1. v \in writes["callable"]
        BY <1>5, <3>3, FlagsFacts
      <4> QED
        BY <1>10, <3>3, <4>1 DEF PassedOn
    <3>4. ASSUME NEW j \in 1 .. n, "WRITE" \in FlagsOf(listed[j]), v = Root(args[listed[j]]).var PROVE v \in writing
      <4>1. PICK w : w = listed[j] /\ w \in Argument /\ w \in AnyVariable /\ w \notin Captured
        BY <1>4, <1>8
      <4>2. w \in ByReference /\ FlagsOf(w) = usage["callable"][w]
        BY <3>4, <4>1, FlagsFacts
      <4>3. w \in writes["callable"]
        BY <1>5, <3>4, <4>1, <4>2
      <4> QED
        BY <1>10, <3>4, <4>1, <4>2, <4>3 DEF PassedOn
    <3> QED
      BY <3>1, <3>2, <3>3, <3>4
  <2> QED
    BY <2>1
<1>16. MarksEffect(r, reading, writing)
  BY <1>4, <1>6, <1>12, <1>14, <1>15 DEF MarksEffect
<1>17. Statement(r, reading, writing)
  BY <1>1, <1>2, <1>10 DEF CallCallable
<1> QED
  BY <1>16, <1>17, StatementKeeps

-----------------------------------------------------------------------------
LEMMA UsageStep == UsageInv /\ [UsageNext]_usageVars => UsageInv'
<1> SUFFICES ASSUME UsageInv, [UsageNext]_usageVars PROVE UsageInv'
  OBVIOUS
<1>1. CASE \E i \in DOMAIN nodes : Member(i) \/ Evaluate(i)
  BY <1>1, MemberKeeps, EvaluateKeeps
<1>2. CASE \E i, j \in DOMAIN nodes : Accessed(i, j) \/ Operation(i, j)
  BY <1>2, OperandsKeep
<1>3. CASE \E i, j \in DOMAIN nodes : Assign(i, j) \/ For(i, j)
  BY <1>3, AssignKeeps, ForKeeps
<1>4. CASE \E args \in [Argument -> DOMAIN nodes] : CallCallable(args)
  BY <1>4, CallableKeeps
<1>5. CASE BeginKernel
  BY <1>5, KernelBegins
<1>6. CASE UNCHANGED usageVars
  <2>1. UNCHANGED <<function, nodes, marked, usage, reads, writes>>
    BY <1>6 DEF usageVars
  <2>2. Marks' = Marks
    BY <2>1 DEF Marks
  <2> QED
    BY <2>1, <2>2 DEF UsageInv, Linked, Operands, Passes, Operates, UsageRecorded
<1> QED
  BY <1>1, <1>2, <1>3, <1>4, <1>5, <1>6 DEF UsageNext

\* What a function writes is exactly what it is marked as writing, through
\* members, elements, callables and captures, and what it reads is marked: the
\* mark of an expression stops early only where everything behind it is marked.
THEOREM UsageConsistent == UsageSpec => []UsageInv
  BY UsageStarts, UsageStep, PTL DEF UsageSpec

\* The marks cover every read and write of both functions, and no captured
\* resource that the kernel only reads is marked as written.
THEOREM UsageIsMarked == UsageSpec => []UsageMarked
<1>1. UsageInv => UsageMarked
  <2> SUFFICES ASSUME UsageInv PROVE UsageMarked
    OBVIOUS
  <2>1. \A f \in Function : Variables(f) \in SUBSET AnyVariable
    BY DEF Variables, AnyVariable
  <2>2. "kernel" \in Function /\ Captured \in SUBSET AnyVariable
    BY DEF Function, AnyVariable
  <2> QED
    BY <2>1, <2>2 DEF UsageInv, UsageMarked, UsageRecorded
<1> QED
  BY <1>1, UsageConsistent, PTL
=============================================================================
