----------------------------- MODULE Consistency -----------------------------
(***************************************************************************)
(* The consistency checkers as the driver uses them                        *)
(* (src/genmc-tool/src/Verification/Consistency): the stores a load may    *)
(* read, the places a store may take in coherence, the loads a store may   *)
(* revisit, and the check of a label.  SCChecker and RAChecker share the   *)
(* first three, word for word; they differ in isConsistent.  Every access  *)
(* is acquire/release or stronger, so that happens-before is (po U rf)+    *)
(* under both models: the view every label stores.                         *)
(***************************************************************************)
EXTENDS ExecGraph

CONSTANT Model

ASSUME ModelAssumption == Model \in {"SC", "RA"}

----------------------------------------------------------------------------
\* Store a, or a load that reads a, is in the view of b.
isWriteRfBefore(g, a, b) ==
    LET before == Lab(g, b).view
    IN  \/ InView(before, a)
        \/ \E r \in Readers(g, a, Addr(g, a)) : InView(before, r)

\* The length of the prefix of coherence that e already knows of.
splitLocMOBefore(g, x, e) ==
    Max({0} \cup {k \in DOMAIN g.co[x] : isWriteRfBefore(g, g.co[x][k], e)})

\* Mutant: any store can be read.
AnyStore(g, x, r) == <<InitEvent>> \o g.co[x]

\* The stores a load may read from, oldest first; the last is tried first.
getCoherentStores(g, x, r) ==
    LET m == co_max(g, x)
        k == splitLocMOBefore(g, x, r)
    IN  IF m[1] = r[1] /\ m[2] < r[2] THEN <<m>>
        ELSE <<IF k = 0 THEN InitEvent ELSE g.co[x][k]>> \o SubSeq(g.co[x], k + 1, Len(g.co[x]))

\* The stores that the new store w may follow; never between an update and
\* the store it reads.  The last is the coherence-latest one.
getCoherentPlacings(g, x, w, rmw) ==
    LET k == splitLocMOBefore(g, x, w)
        plain == {s \in Range(g.co[x]) : ~ isRMW(g, s)}
        free == Among(SubSeq(g.co[x], k + 1, Len(g.co[x])), plain)
    IN  IF rmw THEN <<Lab(g, prev(w)).rf>>
        ELSE [j \in DOMAIN free |-> co_imm_pred(g, free[j])] \o <<co_max(g, x)>>

\* Stores coherence-after w, and the loads that read them.
getMOOptRfAfter(g, w) ==
    LET after == co_succs(g, Addr(g, w), w)
    IN  after \cup UNION {Readers(g, s, Addr(g, w)) : s \in after}

\* The coherence-latest store other than w.
PrevCoMax(g, w) ==
    LET stores == g.co[Addr(g, w)]
        rest == Among(stores, Range(stores) \ {w})
    IN  IF rest = <<>> THEN InitEvent ELSE rest[Len(rest)]

getRevisitableFrom(g, w, before, s) ==
    NotAfterPending(g, w, {r \in Readers(g, s, Addr(g, w)) :
                             ~ InView(before, r) /\ isRevisitableLoad(g, w, r)})

\* Of these loads, those that know of no store after w.
NotAfterStore(g, w, loads) ==
    IF w = co_max(g, Addr(g, w)) THEN loads
    ELSE {r \in loads : \A s \in getMOOptRfAfter(g, w) : ~ InView(Lab(g, r).view, s)}

\* The loads that may be made to read w.
getCoherentRevisits(g, w, before) ==
    LET p == PrevCoMax(g, w)
    IN  NotAfterStore(g, w,
          IF p # InitEvent /\ InView(before, p)
          THEN getRevisitableFrom(g, w, before, p) ELSE getRevisitable(g, w, before))

----------------------------------------------------------------------------
\* The successors followed by visitConsAcyclic1: po, rf, co, fr, and thread
\* creation and join.
ScSuccs(g, e) ==
    LET lab == Lab(g, e)
        x == lab.ins.loc
    IN  {q \in {next(e)} : containsPos(g, q)}
        \cup (CASE lab.kind = "W" -> Readers(g, e, x) \cup co_succs(g, x, e)
                [] lab.kind = "R" -> IF lab.rf = Bottom THEN {} ELSE co_succs(g, x, lab.rf)
                [] lab.kind = "create" ->
                     {q \in {<<lab.ins.child, 0>>} : containsPos(g, q)}
                [] lab.kind = "finish" ->
                     {j \in Events(g) : Lab(g, j).kind = "join" /\ Lab(g, j).ins.child = e[1]}
                [] OTHER -> {})

\* No cycle can be reached from e: drop the labels without successors until
\* nothing is left to drop.
AcyclicFrom(g, e) ==
    LET n == Cardinality(Events(g))
        reach[k \in 0 .. n] == IF k = 0 THEN {e}
                               ELSE LET R == reach[k - 1]
                                    IN  R \cup UNION {ScSuccs(g, q) : q \in R}
        all == reach[n]
        succs == [q \in all |-> ScSuccs(g, q)]
        left[k \in 0 .. n] == IF k = 0 THEN all
                              ELSE LET S == left[k - 1]
                                   IN  {q \in S : succs[q] \cap S # {}}
    IN  left[n] = {}

isConsistent(g, e) == Model = "RA" \/ AcyclicFrom(g, e)

=============================================================================
