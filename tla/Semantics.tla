------------------------------ MODULE Semantics ------------------------------
(***************************************************************************)
(* What the driver promises: the executions of a program under a memory    *)
(* model, by definition.  They are built one label at a time, in every     *)
(* order, a load reading from any store and a store taking any place in    *)
(* coherence, and kept when they satisfy the axioms of the model.  Nothing *)
(* of the search is used: no stamps, no views, no revisits.                *)
(*                                                                         *)
(* The properties of the driver are stated here against that definition.   *)
(***************************************************************************)
EXTENDS Driver

----------------------------------------------------------------------------
\* Axioms.

\* Program order, reads-from, thread creation and join.
HbPairs(g) ==
    LET E == Events(g)
    IN  {<<prev(e), e>> : e \in {q \in E : q[2] > 0}}
        \cup UNION {{<<q, e>> : q \in SyncPreds(g, e)} : e \in E}

\* The pairs of a relation have no cycle: drop the labels without successors
\* until nothing is left to drop.
Acyclic(labels, pairs) ==
    LET left[k \in 0 .. Cardinality(labels)] ==
            IF k = 0 THEN labels
            ELSE LET S == left[k - 1]
                 IN  {p[1] : p \in {q \in pairs : q[1] \in S /\ q[2] \in S}}
    IN  left[Cardinality(labels)] = {}

\* Stores and loads of one location in coherence order: a load comes between
\* the store it reads and the next one.
Rank(g, e) ==
    IF isWrite(g, e) THEN 2 * CoPrefix(g, Addr(g, e), e)
    ELSE 2 * CoPrefix(g, Addr(g, e), Lab(g, e).rf) + 1

CohPairs(g, locs) ==
    LET acc == {e \in Events(g) : isAccess(g, e) /\ Addr(g, e) \in locs}
    IN  {p \in acc \X acc : Addr(g, p[1]) = Addr(g, p[2]) /\ Rank(g, p[1]) < Rank(g, p[2])}

Atomic(g) ==
    \A w \in Events(g) :
        (isWrite(g, w) /\ isRMW(g, w)) => co_imm_pred(g, w) = Lab(g, prev(w)).rf

\* No label happens before one that comes earlier in its coherence order.
Coherent(g) == \A x \in Locs : Acyclic(Events(g), HbPairs(g) \cup CohPairs(g, {x}))

\* Happens-before and all coherence orders together have no cycle.
SequentiallyConsistent(g) == Acyclic(Events(g), HbPairs(g) \cup CohPairs(g, Locs))

\* Two updates that read one store are allowed while the search runs: one of
\* them is revisited before the execution counts.
ConsistentPending(g) == IF Model = "SC" THEN SequentiallyConsistent(g) ELSE Coherent(g)

Consistent(g) == Atomic(g) /\ ConsistentPending(g)

----------------------------------------------------------------------------
\* All executions.

\* A label at the end of thread t; stamps and views stay at their defaults.
Plain(g, t, lab) ==
    [g EXCEPT !.lab = [q \in Events(g) \cup {<<t, ThreadSize(g, t)>>} |->
                         IF q \in Events(g) THEN g.lab[q] ELSE lab]]

StoresTo(g, x) == {InitEvent} \cup {g.co[x][k] : k \in DOMAIN g.co[x]}

AddLoad(g, t, ins) ==
    {Plain(g, t, [NewLabel("R", NextPc(g, t), ins) EXCEPT !.rf = w]) : w \in StoresTo(g, ins.loc)}

AddStore(g, t, pc, ins, val) ==
    LET h == Plain(g, t, [NewLabel("W", pc, ins) EXCEPT !.val = val])
    IN  {addStoreToCOAfter(h, LastEvent(h, t), w) : w \in StoresTo(g, ins.loc)}

AddRMW(g, t, ins) ==
    UNION {LET val == getReadValue(h, LastEvent(h, t))
           IN  IF valueMakesRMWSucceed(ins, val)
               THEN AddStore(h, t, LastLab(h, t).pc, ins, RMWResult(ins, val)) ELSE {h}
           : h \in AddLoad(g, t, ins)}

AddNext(p, g, t) ==
    LET op == NextOp(p, g, t)
        ins == p[t][NextPc(g, t)]
        lab(kind) == NewLabel(kind, NextPc(g, t), ins)
    IN  CASE op = "load"   -> AddLoad(g, t, ins)
          [] op = "store"  -> AddStore(g, t, NextPc(g, t), ins, ins.val)
          [] op \in {"fai", "cas"} -> AddRMW(g, t, ins)
          [] op = "create" ->
               LET h == Plain(g, t, lab("create"))
               IN  {Plain(h, ins.child, [NewLabel("start", 0, NoInstr) EXCEPT !.par = LastEvent(h, t)])}
          [] op = "join"   ->
               IF LastLab(g, ins.child).kind = "finish" THEN {Plain(g, t, lab("join"))} ELSE {}
          [] op = "finish" -> {Plain(g, t, NewLabel("finish", NextPc(g, t), NoInstr))}
          [] op = "block"  -> {}

Extensions(p, g) ==
    LET ready == {t \in LiveThreads(g) : ~ isTerminator(LastLab(g, t))}
        local == {t \in ready : NextOp(p, g, t) \in {"create", "finish"}}
        chosen == IF local = {} THEN ready ELSE {Min(local)}
    IN  IF ready = {} THEN {g}
        ELSE {h \in UNION {AddNext(p, g, t) : t \in chosen} : Consistent(h)}

\* No program of the models has more labels to add than this.
MaxLabels == 14

ExecutionGraphs ==
    [p \in Programs |->
        LET level[n \in 0 .. MaxLabels] ==
                IF n = 0 THEN {EmptyGraph} ELSE UNION {Extensions(p, g) : g \in level[n - 1]}
        IN  level[MaxLabels]]

----------------------------------------------------------------------------
\* Bounds, by definition.

\* Every interleaving of an execution respects this order; a begin label comes
\* with the creation of its thread.
Order(g) == HbPairs(g) \cup CohPairs(g, Locs)

Before(g, e) == {p[1] : p \in {q \in Order(g) : q[2] \in {e, <<e[1], 0>>} /\ q[1][2] > 0}}

\* The labels of an execution are run one by one.  A run is known by how far
\* the threads are, the thread that ran last and the preemptions so far:
\* switches from a thread that has labels left and does not wait for another
\* one to finish.
CanRun(g, v) == {t \in Threads : v[t] < FullView(g)[t] /\ \A e \in Before(g, <<t, v[t] + 1>>) : e[2] <= v[e[1]]}

Preempts(g, v, t, u) ==
    /\ t # u /\ v[t] < FullView(g)[t]
    /\ LET lab == Lab(g, <<t, v[t] + 1>>)
       IN  lab.kind = "join" => LET c == lab.ins.child IN v[c] = FullView(g)[c]

\* Some run has at most so many preemptions.
HasRunWithin(g, max) ==
    LET size == Cardinality({e \in Events(g) : e[2] > 0})
        step(r, u) == <<[r[1] EXCEPT ![u] = @ + 1], u, r[3] + (IF Preempts(g, r[1], r[2], u) THEN 1 ELSE 0)>>
        runs[n \in 0 .. size] ==
            IF n = 0 THEN {<<[t \in Threads |-> 0], 0, 0>>}
            ELSE {r \in UNION {{step(r, u) : u \in CanRun(g, r[1])} : r \in runs[n - 1]} : r[3] <= max}
    IN  runs[size] # {}

\* Threads run in the order of their numbers within a round.  A label is past
\* round n when its order says so: it comes after one of a thread with a larger
\* number that is past round n - 1, or after one that is past round n.
PastRound(g, max) ==
    LET pairs == Order(g)
        after(S) == {p[2] : p \in {q \in pairs : q[1] \in S}}
        closed(S) ==
            LET more[k \in 0 .. Cardinality(Events(g))] ==
                    IF k = 0 THEN S ELSE LET T == more[k - 1] IN T \cup after(T)
            IN  more[Cardinality(Events(g))]
        past[n \in 0 .. max + 1] ==
            IF n = 0 THEN Events(g)
            ELSE LET S == past[n - 1]
                 IN  closed({p[2] : p \in {q \in pairs : q[1] \in S /\ q[1][1] > q[2][1]}})
    IN  past[max + 1]

WithinBound(g, b) ==
    CASE b.type = "context" -> HasRunWithin(g, b.n)
      [] b.type = "round"   -> PastRound(g, b.n) = {}
      [] OTHER -> TRUE

\* What the driver has to visit, and may visit.
Executions ==
    [p \in Programs |-> [b \in Limits(p) \cup {NoBound} |->
        {GraphKey(g) : g \in {h \in ExecutionGraphs[p] : WithinBound(h, b)}}]]

----------------------------------------------------------------------------
\* Properties of the driver.

Graphs == {stack[k].g : k \in DOMAIN stack} \cup {tasks[k] : k \in DOMAIN tasks}

\* Every location's coherence order lists the stores to it, once each; every
\* load reads a store to its own location (none dangles after a revisit), and
\* the store half of an update is there whenever its load half succeeds.
GraphOK(g) ==
    /\ \A x \in Locs :
         /\ \A j, k \in DOMAIN g.co[x] : g.co[x][j] = g.co[x][k] => j = k
         /\ {g.co[x][k] : k \in DOMAIN g.co[x]}
              = {e \in Events(g) : isWrite(g, e) /\ Addr(g, e) = x}
    /\ \A r \in Events(g) : isRead(g, r) =>
         /\ Lab(g, r).rf \in StoresTo(g, Addr(g, r))
         /\ valueMakesRMWSucceed(Lab(g, r).ins, getReadValue(g, r)) => isRMW(g, r)

TypeOK ==
    /\ phase \in {"run", "next", "idle"}
    /\ moot \in BOOLEAN
    /\ result.explored \in Nat /\ result.blocked \in Nat
    /\ ~ error => \A g \in Graphs : GraphOK(g)

\* The stamps of a graph are distinct, below the next stamp, and follow
\* program order.
StampsOrdered ==
    \A g \in Graphs : \A e \in Events(g) :
        /\ Lab(g, e).stamp < g.ts
        /\ \A q \in Events(g) : q # e => Lab(g, q).stamp # Lab(g, e).stamp
        /\ e[2] > 0 => Lab(g, prev(e)).stamp < Lab(g, e).stamp

\* The view stored with a label is what happens before it, also after the
\* loads before it were made to read other stores.
ViewsExact ==
    \A g \in Graphs :
        \A e \in Events(g) : Lab(g, e).kind # "block" => Lab(g, e).view = ViewBefore(g, e)

\* An alternative waiting in a worklist still refers to the labels it was
\* computed for, although the graph was cut and grew again since.
WorklistsValid ==
    \A k \in DOMAIN stack : \A j \in DOMAIN stack[k].wl :
        LET g == stack[k].g
            item == stack[k].wl[j]
        IN  /\ containsPos(g, item.pos)
            /\ containsPos(g, item.rev)
            /\ Lab(g, IF item.kind = "back" THEN item.rev ELSE item.pos).stamp = item.stamp
            /\ isRead(g, item.pos) <=> item.kind # "write"
            /\ item.rev \in StoresTo(g, Addr(g, item.pos))

\* findConsistentRf and findConsistentCo add the newest choice without a
\* check ("maximal extensibility guarantees consistency"): every graph that
\* is being extended is consistent.
Extensible == (phase = "run" /\ ~ moot) => Consistent(Top.g)

\* A load in the saved prefix of a backward revisit reads the same store as
\* long as it exists, in its graph and in the copies made of that graph.
FrozenReads ==
    [][\A k \in DOMAIN stack' :
         LET old == stack[Min({k, Len(stack)})].g
             new == stack'[k].g
         IN  (stack # <<>> /\ k <= Len(stack) + 1) =>
               \A r \in Events(old) \cap Events(new) :
                 (isRead(old, r) /\ ~ Lab(old, r).rev) =>
                    Lab(new, r).kind = "R" /\ Lab(new, r).rf = Lab(old, r).rf]_vars

\* No BUG_ON of the driver fires: a backward revisit never leaves a graph that
\* violates atomicity, a thread that is created anew has only its begin label
\* left, and a thread that is joined has labels.
NoBug == ~ bug

Enum == INSTANCE Enumerator
          WITH all <- Executions[prog][NoBound], wanted <- Executions[prog][bound], visited <- seen,
               count <- result.explored - result.boundExceeding, extra <- result.boundExceeding,
               done <- Done /\ ~ error

\* The search visits every consistent execution of the program, or every one
\* within the bound, each of them once, and nothing else, whatever the order
\* threads are scheduled in; and it counts those beyond the bound apart.
Enumerates == Enum!Spec

\* The search ends.
Termination == <>Done

=============================================================================
