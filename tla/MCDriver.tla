------------------------------- MODULE MCDriver -------------------------------
(***************************************************************************)
(* Programs for model checking the driver.  Thread 0 is main.              *)
(***************************************************************************)
EXTENDS Semantics

Instr(op, x, v) ==
    [op |-> op, loc |-> x, val |-> v, exp |-> 0, need |-> AnyValue, ann |-> AnyValue,
     blk |-> FALSE, child |-> 0]

R(x) == Instr("load", x, 0)
W(x, v) == Instr("store", x, v)
Fai(x) == Instr("fai", x, 1)
Cas(x, v) == Instr("cas", x, v)
Create(t) == [Instr("create", "x", 0) EXCEPT !.child = t]
Join(t) == [Instr("join", "x", 0) EXCEPT !.child = t]
If(v, ins) == [ins EXCEPT !.need = v]
Ann(v, ins) == [ins EXCEPT !.ann = v]
Assume(v, ins) == [ins EXCEPT !.need = v, !.blk = TRUE]

Prog2(p0, p1) == 0 :> p0 @@ 1 :> p1
Prog3(p0, p1, p2) == 0 :> p0 @@ 1 :> p1 @@ 2 :> p2

\* Litmus tests.
SB == Prog2(<<Create(1), W("x", 1), R("y")>>, <<W("y", 1), R("x")>>)
MP == Prog2(<<Create(1), W("x", 1), W("y", 1)>>, <<R("y"), If(1, R("x"))>>)
LB == Prog2(<<Create(1), R("x"), W("y", 1)>>, <<R("y"), W("x", 1)>>)
WW == Prog2(<<Create(1), W("x", 1), W("y", 1)>>, <<W("y", 2), W("x", 2)>>)
Corr == Prog2(<<Create(1), W("x", 1), W("x", 2)>>, <<R("x"), R("x")>>)
FaiFai == Prog2(<<Create(1), Fai("x"), Fai("x")>>, <<Fai("x"), R("x")>>)
CasCas == Prog2(<<Create(1), Cas("x", 1), R("x")>>, <<Cas("x", 2), W("x", 0)>>)
AssumeFlag == Prog2(<<Create(1), W("x", 1), W("y", 1)>>, <<R("y"), Assume(1, R("x"))>>)
JoinChild == Prog2(<<Create(1), W("x", 1), Join(1), R("x")>>, <<R("x"), W("x", 2)>>)

Litmus == {SB, MP, LB, WW, Corr, FaiFai, CasCas, AssumeFlag, JoinChild}

Fai3 == Prog3(<<Create(1), Create(2), Fai("x")>>, <<Fai("x")>>, <<Fai("x")>>)
Cas3 == Prog3(<<Create(1), Create(2), Cas("x", 1)>>, <<Cas("x", 2)>>, <<Cas("x", 3), R("x")>>)
IRIW == Prog3(<<Create(1), Create(2), W("x", 1), R("y")>>, <<W("y", 1), R("x")>>, <<R("x"), R("y")>>)
FaiCas == Prog3(<<Create(1), Create(2), Fai("x"), R("y")>>, <<Cas("x", 1), W("y", 1)>>, <<Fai("x"), W("x", 0)>>)
WWR == Prog3(<<Create(1), Create(2), R("x"), R("x")>>, <<W("x", 1), W("x", 2)>>, <<W("x", 3)>>)
WRC == Prog3(<<Create(1), Create(2), W("x", 1)>>, <<R("x"), If(1, W("y", 1))>>, <<R("y"), If(1, R("x"))>>)
Lock == Prog3(<<Create(1), Create(2), Join(1), Join(2), R("y")>>,
              <<Cas("x", 1), Assume(0, Fai("y")), W("x", 0)>>,
              <<Cas("x", 1), Assume(0, Fai("y")), W("x", 0)>>)
Late == Prog3(<<Create(1), R("x"), Create(2), R("y")>>, <<W("x", 1), W("y", 1)>>, <<W("y", 2), W("x", 2)>>)
Workers == Prog3(<<Create(1), Create(2)>>, <<R("x"), W("x", 1)>>, <<R("x"), W("x", 2)>>)

Litmus3 == {Workers, Fai3, Cas3, IRIW, FaiCas, WWR, WRC, Lock, Late}

\* Threads that wait for a value: annotated loads and CASes.
Await(x, v, ins) == <<Ann(v, R(x)), Assume(v, ins)>>
Critical == <<Ann(0, Cas("x", 1)), Assume(0, Fai("y")), W("x", 0)>>

Handoff == Prog3(<<Create(1), Create(2), W("x", 1)>> \o Await("y", 1, R("x")),
                 Await("x", 1, W("y", 1)), <<R("y"), R("x")>>)
Counter == Prog3(<<Create(1), Create(2)>> \o Await("x", 2, R("y")),
                 <<Fai("x"), W("y", 1)>>, <<Fai("x"), R("y")>>)
Counter2 == Prog3(<<Create(1), Create(2), Fai("x")>>, Await("x", 2, Fai("x")), <<Fai("x")>>)
TwoWait == Prog3(<<Create(1), Create(2), R("x"), W("y", 1)>>,
                 Await("y", 1, Fai("x")), Await("y", 1, Fai("x")))
Mutex == Prog3(<<Create(1), Create(2)>> \o Critical, Critical, <<R("y")>>)
MutexJoin == Prog3(<<Create(1), Create(2), Join(1), Join(2), R("y")>>, Critical, Critical)
MutexHeld == Prog3(<<W("x", 1), Create(1), Create(2), W("x", 0)>>, <<Ann(0, Cas("x", 1)), Assume(0, R("y"))>>,
                   <<W("y", 1), R("x")>>)
Held == <<Ann(0, Cas("x", 1)), Assume(0, Fai("y"))>>
NeverReleased == Prog3(<<Create(1), Create(2), R("y")>>, Held, Held)
Racy == Prog3(<<Create(1), Create(2), W("x", 1)>>, <<W("x", 2)>>, Await("x", 1, R("y")))

Undo == 0 :> <<Create(1), Create(2), Create(3)>> @@ 1 :> <<R("y")>> \o Await("x", 1, R("x"))
        @@ 2 :> <<W("x", 1)>> @@ 3 :> <<W("y", 1)>>

Waiting == {Undo, Handoff, Counter, Counter2, TwoWait, Mutex, MutexJoin, MutexHeld, NeverReleased, Racy}

\* Two threads with two accesses each, all combinations; one thread may also
\* access a location of its own.
Access == {R("x"), W("x", 1), Fai("x"), Cas("x", 1)}
Blocks(A) == {<<a, b>> : a \in A, b \in A}
Pairs == {Prog2(<<Create(1)>> \o p, q) : p \in Blocks(Access \cup {W("y", 1)}), q \in Blocks(Access)}

-----------------------------------------------------------------------------
(* What the runs explore.  Under SC: the litmus tests by drivers of a pool, *)
(* stores first; the three-thread programs with stores first, otherwise any *)
(* thread; all pairs with the lowest thread first.  Under RA: the litmus    *)
(* tests in any order, the other programs with two policies each.           *)
SCPrograms == Litmus \cup Litmus3 \cup Pairs
SCPolicies(p) == IF p \in Litmus THEN {"wf"} ELSE IF p \in Litmus3 THEN {"wfr"} ELSE {"ltr"}
RAPrograms == Litmus \cup Litmus3 \cup Waiting
RAPolicies(p) == IF p \in Litmus THEN {"arbitrary"} ELSE {"ltr", "wfr"}

\* Bounds.  Under these two the driver does not do what Enumerates says, for
\* reasons the README gives.
Context(n) == [type |-> "context", n |-> n]
Round(n) == [type |-> "round", n |-> n]
Disputed == {<<FaiCas, Context(1)>>, <<Late, Round(1)>>}
SCLimits(p) ==
    {NoBound}
    \cup (IF p \in Litmus THEN {Context(0), Context(1), Context(2), Round(0), Round(1)} ELSE {})
    \cup (IF p \in Litmus3 THEN {b \in {Context(0), Context(1), Round(1)} : <<p, b>> \notin Disputed} ELSE {})
Unbounded(p) == {NoBound}
==============================================================================
