-------------------------------- MODULE Bounds --------------------------------
(***************************************************************************)
(* The bound deciders (src/genmc-tool/src/Verification/Consistency):       *)
(* whether an execution graph has an interleaving with at most so many     *)
(* preemptive context switches, or one that takes at most so many rounds   *)
(* of a round-robin scheduler (the first round is not counted).            *)
(*                                                                         *)
(* Here a view is what it is in the code, the largest index seen of every  *)
(* thread; begin labels have index 0 and are in every view.                *)
(***************************************************************************)
EXTENDS ExecGraph, SequencesExt

BoundViews == [Threads -> Nat]

FullView(g) == [t \in Threads |-> IF t \in LiveThreads(g) THEN ThreadSize(g, t) - 1 ELSE 0]

contains(v, e) == e[2] <= v[e[1]]

shrinkViewByOne(v, t) == [v EXCEPT ![t] = @ - 1]

NextInView(v, t) == <<t, v[t] + 1>>

isJoin(g, e) == containsPos(g, e) /\ Lab(g, e).kind = "join"

----------------------------------------------------------------------------
\* Context bound.

canBlock(g, v, t) == isJoin(g, NextInView(v, t))

\* Thread t can go on after v.
isEnabled(g, v, t) ==
    /\ containsPos(g, NextInView(v, t))
    /\ isJoin(g, NextInView(v, t)) =>
         contains(v, LastEvent(g, Lab(g, NextInView(v, t)).ins.child))

\* The event of t that v ends with comes before no other event of v.
isSCMaximal(g, v, t) ==
    LET e == <<t, v[t]>>
        lab == Lab(g, e)
        overwritten(w) == LET after == CoPrefix(g, Addr(g, e), w) + 1
                          IN  after <= Len(g.co[Addr(g, e)]) /\ contains(v, g.co[Addr(g, e)][after])
    IN  CASE lab.kind = "finish" ->
               \A j \in Events(g) : isJoin(g, j) /\ Lab(g, j).ins.child = t => ~ contains(v, j)
          [] lab.kind = "create" -> v[lab.ins.child] = 0
          [] lab.kind = "W" ->
               /\ \A r \in Readers(g, e, Addr(g, e)) : ~ contains(v, r)
               /\ ~ overwritten(e)
          [] lab.kind = "R" -> ~ overwritten(lab.rf)
          [] OTHER -> TRUE

\* v without the last events of t that could run without a switch.
unfoldPrefix(g, v, t) ==
    LET ends(i) == LET u == [v EXCEPT ![t] = i] IN isSCMaximal(g, u, t) /\ ~ canBlock(g, u, t)
    IN  [v EXCEPT ![t] = Min({n \in 0 .. @ : \A i \in n + 1 .. @ : ends(i)})]

\* Contrary to its name: whether v can be run before a step of t with at most
\* bound preemptions.
doesPrefixExceedBound(g, view, thread, limit) ==
    LET fits[v \in BoundViews, t \in Threads, bound \in Nat] ==
          LET u == unfoldPrefix(g, v, t)
          IN  \/ \A p \in Threads : u[p] = 0
              \/ \E p \in Threads :
                   /\ u[p] > 0 /\ isSCMaximal(g, u, p)
                   /\ IF p # t /\ isEnabled(g, u, p)
                      THEN bound > 0 /\ fits[shrinkViewByOne(u, p), p, bound - 1]
                      ELSE fits[shrinkViewByOne(u, p), p, bound]
    IN  fits[view, thread, limit]

ContextExceeds(g, bound) ==
    LET v == FullView(g)
    IN  ~ \E t \in Threads :
            /\ v[t] > 0 /\ isSCMaximal(g, v, t)
            /\ doesPrefixExceedBound(g, shrinkViewByOne(v, t), t, bound)

\* Mutant: partial graphs are held to the bound itself.
NoSlack(g) == 0

\* How much a graph may exceed the bound while it may still grow into one
\* that does not: a thread counts as long as its labels may change.
isStable(lab) == ~ lab.rev \/ (lab.kind \in {"R", "W"} /\ ~ lab.max)

getSlack(g) ==
    LET nonEmpty == {t \in LiveThreads(g) : ThreadSize(g, t) > 1}
        unstable == {e[1] : e \in {q \in Events(g) : ~ isStable(Lab(g, q))}}
    IN  Min({Max({0, Cardinality(unstable) - 1}), Max({0, Cardinality(nonEmpty) - 2})})

----------------------------------------------------------------------------
\* Round bound.

\* What comes directly before e is in v.  The case of a begin label in the code
\* is left out: it is never asked about, since views start at index 0.
areSCPredsInView(g, v, e) ==
    LET lab == Lab(g, e)
    IN  CASE lab.kind = "join" -> contains(v, LastEvent(g, lab.ins.child))
          [] lab.kind = "R" -> contains(v, lab.rf)
          [] lab.kind = "W" ->
               /\ contains(v, co_imm_pred(g, e))
               /\ \A r \in Readers(g, co_imm_pred(g, e), Addr(g, e)) : contains(v, r)
          [] OTHER -> TRUE

\* Thread t runs as far as it can.
RunThread(g, v, t) ==
    LET can(i) == areSCPredsInView(g, [v EXCEPT ![t] = i - 1], <<t, i>>)
    IN  [v EXCEPT ![t] = Max({n \in @ .. FullView(g)[t] : \A i \in @ + 1 .. n : can(i)})]

RunRound(g, v) ==
    FoldLeft(LAMBDA u, t : RunThread(g, u, t), v, [k \in 1 .. NumThreads |-> k - 1])

RoundExceeds(g, bound) ==
    LET after[k \in 0 .. bound + 1] ==
            IF k = 0 THEN [t \in Threads |-> 0] ELSE RunRound(g, after[k - 1])
    IN  after[bound + 1] # FullView(g)

----------------------------------------------------------------------------
\* BoundDecider.  A bound is a record; the type "none" stands for no bound.

NoBound == [type |-> "none", n |-> 0]

doesExecutionExceedBound(g, b, slacked) ==
    CASE b.type = "context" -> ContextExceeds(g, b.n + (IF slacked THEN getSlack(g) ELSE 0))
      [] b.type = "round"   -> RoundExceeds(g, b.n)
      [] OTHER -> FALSE

=============================================================================
