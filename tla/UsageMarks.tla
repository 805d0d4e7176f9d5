----------------------------- MODULE UsageMarks -----------------------------
(***************************************************************************)
(* How the builder of a function finds out which variables it reads and     *)
(* writes (ast/expression, ast/statement, ast/function_builder).  A         *)
(* callable is built first, then a kernel that calls it; an expression      *)
(* marks its operands when it is made, and the marks of the kernel are what *)
(* the runtime orders commands by.  An expression is a node that refers to  *)
(* earlier ones; of a statement only its effect is kept.                    *)
(***************************************************************************)
EXTENDS Naturals, Sequences, SequencesExt

CONSTANTS ByReference, \* arguments of the callable: references, buffers, textures and accels
          ByValue,     \* its other arguments
          Captured,    \* resources that a function refers to by their handle
          Arrays,      \* the bindless arrays among them, which nothing writes
          Local,       \* local variables of the kernel
          MaxSteps     \* bound: expressions and statements of a function

\* A variable has one tag (ast/variable.h).
ASSUME UsageAssumption ==
    /\ MaxSteps \in Nat
    /\ \A S \in {ByReference, ByValue, Captured, Local} : IsFiniteSet(S)
    /\ Arrays \subseteq Captured
    /\ ByReference \cap ByValue = {} /\ Captured \cap (ByReference \cup ByValue \cup Local) = {}

VARIABLES function, \* the function that is built
          steps, nodes,
          marked,   \* _usage of the nodes
          usage,    \* _variable_usages of both functions
          reads, writes \* history: what the functions read and write

usageVars == <<function, steps, nodes, marked, usage, reads, writes>>

Function == {"callable", "kernel"}
Argument == ByReference \cup ByValue
Variables(f) == Captured \cup IF f = "callable" THEN Argument ELSE Local
AnyVariable == Captured \cup Argument \cup Local

RefNode(v) == [kind |-> "ref", var |-> v, args |-> <<>>]
Refs(f) == [i \in DOMAIN SetToSeq(Variables(f)) |-> RefNode(SetToSeq(Variables(f))[i])]

UsageInit ==
    /\ function = "callable" /\ steps = 0
    /\ nodes = Refs("callable")
    /\ marked = [i \in DOMAIN nodes |-> {}]
    /\ usage = [f \in Function |-> [v \in AnyVariable |-> {}]]
    /\ reads = [f \in Function |-> {}] /\ writes = [f \in Function |-> {}]

-----------------------------------------------------------------------------
\* The nodes a mark is passed on to: the object of a member, the range of an access.
Path == LET path[i \in DOMAIN nodes] ==
              IF nodes[i].kind \in {"member", "access"} THEN <<i>> \o path[nodes[i].args[1]]
              ELSE <<i>>
        IN path
Root(i) == nodes[Last(Path[i])]

\* Mutant: a node is marked once only.
KnowsOnce(known, new) == known # {}

\* a == u: the mark says nothing new, and goes no further.
Knows(known, new) == new \subseteq known

\* Expression::mark and _mark, for a node and a set of flags: m is what is
\* marked so far, the nodes and the variables.
Mark(m, i, flags) ==
    LET path == Path[i]
        stops == {k \in DOMAIN path : Knows(m.nodes[path[k]], flags)}
        reached == {path[k] : k \in {j \in DOMAIN path : \A s \in stops : j < s}}
    IN [nodes |-> [n \in DOMAIN m.nodes |-> IF n \in reached THEN m.nodes[n] \cup flags ELSE m.nodes[n]],
        vars |-> IF stops = {} /\ Root(i).kind = "ref"
                 THEN [m.vars EXCEPT ![Root(i).var] = @ \cup flags] ELSE m.vars]

Marks == [nodes |-> marked, vars |-> usage[function]]
Read == {"READ"}
Write == {"WRITE"}

\* What the value of a node reads, and what an assignment to it reads.
ValueReads == LET value[i \in DOMAIN nodes] ==
                    IF nodes[i].kind = "ref" THEN {nodes[i].var}
                    ELSE UNION {value[nodes[i].args[k]] : k \in DOMAIN nodes[i].args}
              IN value
PlaceReads(i) == UNION {ValueReads[nodes[n].args[2]] :
                           n \in {Path[i][k] : k \in {j \in DOMAIN Path[i] : nodes[Path[i][j]].kind = "access"}}}

-----------------------------------------------------------------------------
Step == steps < MaxSteps /\ steps' = steps + 1 /\ UNCHANGED function

Done(m, reading, writing) ==
    /\ usage' = [usage EXCEPT ![function] = m.vars]
    /\ reads' = [reads EXCEPT ![function] = @ \cup reading]
    /\ writes' = [writes EXCEPT ![function] = @ \cup writing]

NewNode(kind, args, m) ==
    /\ Step
    /\ nodes' = Append(nodes, [kind |-> kind, var |-> "none", args |-> args])
    /\ marked' = Append(m.nodes, {})
    /\ Done(m, {}, {})

Statement(m, reading, writing) ==
    /\ Step
    /\ marked' = m.nodes
    /\ UNCHANGED nodes
    /\ Done(m, reading, writing)

Member(i) == NewNode("member", <<i>>, Marks)
Accessed(i, j) == NewNode("access", <<i, j>>, Mark(Mark(Marks, i, Read), j, Read))
\* Unary, binary and cast expressions.
Operation(i, j) == NewNode("operation", <<i, j>>, Mark(Mark(Marks, i, Read), j, Read))

\* The condition of an if, a switch, a value that is returned, a call that only reads.
Evaluate(i) == Statement(Mark(Marks, i, Read), ValueReads[i], {})

IsPlace(i) == Root(i).kind = "ref" /\ Root(i).var \notin Arrays

AssignMarks(i, j) == Mark(Mark(Marks, i, Write), j, Read)

\* An assignment; a call that writes its first argument, an atomic one included.
Assign(i, j) ==
    /\ IsPlace(i)
    /\ Statement(AssignMarks(i, j), PlaceReads(i) \cup ValueReads[j], {Root(i).var})

For(i, j) ==
    /\ IsPlace(i)
    /\ Statement(Mark(Mark(Marks, i, Read \cup Write), j, Read),
                 PlaceReads(i) \cup ValueReads[j] \cup {Root(i).var}, {Root(i).var})

\* What a call marks its arguments and its bindings with: variable_usage of the
\* callable, but for values and bindless arrays, which it can only read.
FlagsOf(v) == IF v \in ByReference \cup (Captured \ Arrays) THEN usage["callable"][v] ELSE Read

\* The call of the callable: its arguments, and the bindings it has captured.
CallMarks(args) ==
    LET captured == [nodes |-> marked,
                     vars |-> [v \in AnyVariable |-> Marks.vars[v] \cup
                                  IF v \in Captured THEN FlagsOf(v) ELSE {}]]
        vars == SetToSeq(Argument)
        marks[k \in 0 .. Len(vars)] == IF k = 0 THEN captured
                                       ELSE Mark(marks[k - 1], args[vars[k]], FlagsOf(vars[k]))
    IN marks[Len(vars)]

PassedOn(set, args) == {Root(args[v]).var : v \in set \cap ByReference} \cup (set \cap Captured)

CallCallable(args) ==
    /\ function = "kernel"
    /\ \A v \in ByReference : IsPlace(args[v])
    /\ Statement(CallMarks(args),
                 (UNION {PlaceReads(args[v]) : v \in ByReference})
                     \cup (UNION {ValueReads[args[v]] : v \in ByValue})
                     \cup PassedOn(reads["callable"], args),
                 PassedOn(writes["callable"], args))

\* FunctionBuilder::pop, and push of the kernel.
BeginKernel ==
    /\ function = "callable"
    /\ function' = "kernel" /\ steps' = 0
    /\ nodes' = Refs("kernel")
    /\ marked' = [i \in DOMAIN Refs("kernel") |-> {}]
    /\ UNCHANGED <<usage, reads, writes>>

UsageNext ==
    \/ \E i \in DOMAIN nodes :
          \/ Member(i) \/ Evaluate(i)
          \/ \E j \in DOMAIN nodes : Accessed(i, j) \/ Operation(i, j) \/ Assign(i, j) \/ For(i, j)
    \/ \E args \in [Argument -> DOMAIN nodes] : CallCallable(args)
    \/ BeginKernel

UsageSpec == UsageInit /\ [][UsageNext]_usageVars

-----------------------------------------------------------------------------
\* A function is marked as writing, or reading, every variable that it writes or
\* reads, through members, elements, callables and what callables capture: the
\* runtime orders kernels by nothing else.  And a resource that the kernel only
\* reads is not marked as written: kernels that read it stay unordered.
UsageMarked ==
    /\ \A f \in Function :
         /\ \A v \in writes[f] \cap Variables(f) : "WRITE" \in usage[f][v]
         /\ \A v \in reads[f] \cap Variables(f) : "READ" \in usage[f][v]
    /\ \A v \in Captured : "WRITE" \in usage["kernel"][v] => v \in writes["kernel"]
=============================================================================
