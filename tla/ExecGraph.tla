------------------------------ MODULE ExecGraph ------------------------------
(***************************************************************************)
(* Execution graphs (src/genmc-tool/src/ExecutionGraph): the labels of     *)
(* every thread, reads-from, the coherence order of every location, and    *)
(* the stamps that record in which order the labels were added.            *)
(*                                                                         *)
(* A graph is a record: lab maps every event, the position <<thread, index>>*)
(* of a label counted from 0, to its label; co[x] lists the stores to      *)
(* location x in coherence order; ts is the next stamp.                    *)
(* The readers list of a write is the inverse of rf, and insertionOrder is *)
(* the order of the stamps: neither is kept separately.  The graphs are    *)
(* those of the models without dependency tracking (class ExecutionGraph). *)
(***************************************************************************)
EXTENDS Integers, Sequences, FiniteSets, FiniteSetsExt

CONSTANTS NumThreads, Locs

ASSUME GraphAssumption == NumThreads \in Nat \ {0}

Threads == 0 .. NumThreads - 1

\* Event::getInit() and Event::getBottom().
InitEvent == <<0, 0>>
Bottom == <<-1, -1>>

next(e) == <<e[1], e[2] + 1>>
prev(e) == <<e[1], e[2] - 1>>

\* The elements of s that are in S, in the order of s.
Among(s, S) ==
    LET upTo[n \in 0 .. Len(s)] ==
            IF n = 0 THEN <<>>
            ELSE IF s[n] \in S THEN Append(upTo[n - 1], s[n]) ELSE upTo[n - 1]
    IN  upTo[Len(s)]

----------------------------------------------------------------------------
\* Views.  The code keeps the largest index seen in each thread; here a view
\* is the set of events it contains.  Begin labels are always contained.

EmptyView == {<<t, 0>> : t \in Threads}

InView(v, e) == e \in v

updateIdx(v, e) == v \cup {<<e[1], i>> : i \in 0 .. e[2]}

update(v, u) == v \cup u

----------------------------------------------------------------------------
\* Labels.  ins is the instruction the label comes from, pc its place in the
\* thread; par is the create event of a begin label.

NoInstr == [op |-> "none"]

NewLabel(kind, pc, ins) ==
    [kind |-> kind, pc |-> pc, ins |-> ins, val |-> 0, par |-> Bottom, rf |-> Bottom,
     stamp |-> 0, max |-> TRUE, rev |-> TRUE, ipr |-> FALSE, racy |-> FALSE,
     view |-> EmptyView]

Events(g) == DOMAIN g.lab

containsPos(g, e) == e \in Events(g)

Lab(g, e) == g.lab[e]

SetLab(g, e, lab) == [g EXCEPT !.lab[e] = lab]

ThreadSize(g, t) == Cardinality({e \in Events(g) : e[1] = t})

LiveThreads(g) == {e[1] : e \in Events(g)}

LastEvent(g, t) == <<t, ThreadSize(g, t) - 1>>

LastLab(g, t) == Lab(g, LastEvent(g, t))

isRead(g, e) == Lab(g, e).kind = "R"
isWrite(g, e) == Lab(g, e).kind = "W"
isAccess(g, e) == Lab(g, e).kind \in {"R", "W"}
Addr(g, e) == Lab(g, e).ins.loc

isTerminator(lab) == lab.kind \in {"finish", "block"}

\* The store half of an update is an RMW; the load half is one only once its
\* store follows it in the graph.
isRMW(g, e) ==
    /\ isAccess(g, e)
    /\ Lab(g, e).ins.op \in {"fai", "cas"}
    /\ isRead(g, e) => /\ containsPos(g, next(e))
                       /\ isWrite(g, next(e))
                       /\ Lab(g, next(e)).ins.op \in {"fai", "cas"}
                       /\ Addr(g, next(e)) = Addr(g, e)

getWriteValue(g, w) == IF w = InitEvent THEN 0 ELSE Lab(g, w).val
getReadValue(g, r) == getWriteValue(g, Lab(g, r).rf)

AnyValue == -1

isAnnotated(ins) == ins.ann # AnyValue

valueMakesAssumeSucceed(ins, val) == isAnnotated(ins) /\ val = ins.ann

valueMakesRMWSucceed(ins, val) == ins.op = "fai" \/ (ins.op = "cas" /\ val = ins.exp)

\* The loads that read x from w (w may be the initialiser).
Readers(g, w, x) == {r \in Events(g) : isRead(g, r) /\ Lab(g, r).rf = w /\ Addr(g, r) = x}

ReadsAt(g, x) == {r \in Events(g) : isRead(g, r) /\ Addr(g, r) = x}

setRf(g, r, w) == SetLab(g, r, [Lab(g, r) EXCEPT !.rf = w])
setAddedMax(g, e, b) == SetLab(g, e, [Lab(g, e) EXCEPT !.max = b])

----------------------------------------------------------------------------
\* The views a label gets when it is added: what is before its predecessor,
\* and what its predecessor synchronises with (rf, thread creation, join).

prefixView(g, e) == updateIdx(Lab(g, e).view, e)

SyncPreds(g, e) ==
    LET lab == Lab(g, e)
    IN  CASE lab.kind = "R"     -> IF lab.rf = Bottom THEN {} ELSE {lab.rf}
          [] lab.kind = "start" -> {lab.par}
          [] lab.kind = "join"  -> {q \in Events(g) : /\ q = LastEvent(g, lab.ins.child)
                                                     /\ Lab(g, q).kind = "finish"}
          [] OTHER              -> {}

ViewBefore(g, e) ==
    IF e[2] = 0 THEN EmptyView
    ELSE UNION {prefixView(g, q) : q \in {prev(e)} \cup SyncPreds(g, prev(e))}

\* The label lab of event e, with the next stamp.
InsertLabel(g, e, lab) ==
    [g EXCEPT !.lab = [q \in Events(g) \cup {e} |->
                         IF q = e THEN [lab EXCEPT !.stamp = g.ts] ELSE g.lab[q]],
              !.ts = @ + 1]

\* addLabelToGraph at the end of thread t, with the views of updateMMViews.
addLabelToGraph(g, t, lab) ==
    LET e == <<t, ThreadSize(g, t)>>
    IN  InsertLabel(g, e, [lab EXCEPT !.view = ViewBefore(g, e)])

RemoveLabels(g, S) == [g EXCEPT !.lab = [e \in Events(g) \ S |-> g.lab[e]]]

removeLast(g, t) == RemoveLabels(g, {LastEvent(g, t)})

EmptyGraph ==
    [lab |-> [e \in {InitEvent} |-> NewLabel("init", 0, NoInstr)],
     co  |-> [x \in Locs |-> <<>>],
     ts  |-> 1]

----------------------------------------------------------------------------
\* Coherence.

CoIndex(g, w) == CHOOSE k \in DOMAIN g.co[Addr(g, w)] : g.co[Addr(g, w)][k] = w

co_max(g, x) == IF g.co[x] = <<>> THEN InitEvent ELSE g.co[x][Len(g.co[x])]

CoPrefix(g, x, w) == IF w = InitEvent THEN 0 ELSE CoIndex(g, w)

co_imm_pred(g, w) ==
    LET k == CoIndex(g, w) IN IF k = 1 THEN InitEvent ELSE g.co[Addr(g, w)][k - 1]

\* The stores to x after w, which may be the initialiser.
co_succs(g, x, w) ==
    {g.co[x][k] : k \in CoPrefix(g, x, w) + 1 .. Len(g.co[x])}

addStoreToCOAfter(g, w, pred) ==
    LET x == Addr(g, w)
        k == CoPrefix(g, x, pred)
    IN  [g EXCEPT !.co[x] = SubSeq(@, 1, k) \o <<w>> \o SubSeq(@, k + 1, Len(@))]

removeStoreFromCO(g, w) == [g EXCEPT !.co[Addr(g, w)] = Among(@, Range(@) \ {w})]

moveStoreCOAfter(g, w, pred) == addStoreToCOAfter(removeStoreFromCO(g, w), w, pred)

----------------------------------------------------------------------------
\* Pending updates and revisitable loads.

\* The other updates that read what the load half of w reads.
RivalRMWs(g, w) ==
    LET r == prev(w)
    IN  {q \in Readers(g, Lab(g, r).rf, Addr(g, r)) : q # r /\ isRMW(g, q)}

\* The labels of S, latest first.
LatestFirst(g, S) ==
    LET stamps == Among([k \in 1 .. g.ts |-> g.ts - k], {Lab(g, e).stamp : e \in S})
    IN  [i \in DOMAIN stamps |-> CHOOSE e \in S : Lab(g, e).stamp = stamps[i]]

getMinimumStampEvent(g, S) ==
    IF S = {} THEN InitEvent
    ELSE CHOOSE q \in S : \A p \in S : Lab(g, q).stamp <= Lab(g, p).stamp

getPendingRMW(g, w) ==
    getMinimumStampEvent(g, IF isRMW(g, w) THEN RivalRMWs(g, w) ELSE {})

violatesAtomicity(g, w) == isRMW(g, w) /\ getPendingRMW(g, w) # InitEvent

\* A pending update may only be revisited itself, or through an older load.
NotAfter(g, conf, loads) ==
    {r \in loads : conf # InitEvent => Lab(g, r).stamp <= Lab(g, conf).stamp}

NotAfterPending(g, w, loads) == NotAfter(g, getPendingRMW(g, w), loads)

\* Mutant: the loads of a saved prefix are revisited too.
LoadAnyStatus(g, w, r) == isRead(g, r) /\ Addr(g, r) = Addr(g, w) /\ Lab(g, r).max

isRevisitableLoad(g, w, r) ==
    isRead(g, r) /\ Addr(g, r) = Addr(g, w) /\ Lab(g, r).rev /\ Lab(g, r).max

getRevisitable(g, w, before) ==
    NotAfterPending(g, w, {r \in Events(g) : ~ InView(before, r) /\ isRevisitableLoad(g, w, r)})

----------------------------------------------------------------------------
\* Cutting and copying.

\* Up to the last label of each thread that has a stamp <= st.
getViewFromStamp(g, st) ==
    UNION {updateIdx(EmptyView, e) : e \in {q \in Events(g) : Lab(g, q).stamp <= st}}

\* Mutant: coherence is not restricted.
KeepCoherence(g, v) == [g EXCEPT !.lab = [e \in Events(g) \cap v |-> g.lab[e]]]

\* Keep the labels of v (and every begin label); a read from a label that
\* goes away is left dangling, coherence loses the stores that go away.
KeepOnly(g, v) ==
    LET dangles(lab) == lab.kind = "R" /\ lab.rf # Bottom /\ ~ InView(v, lab.rf)
    IN  [g EXCEPT
           !.lab = [e \in Events(g) \cap v |->
                      IF dangles(g.lab[e]) THEN [g.lab[e] EXCEPT !.rf = Bottom] ELSE g.lab[e]],
           !.co  = [x \in Locs |-> Among(g.co[x], v)]]

cutToStamp(g, st) == KeepOnly(g, getViewFromStamp(g, st))

getCopyUpTo(g, v) == KeepOnly(g, v)

\* Mutant: the next stamp forgets the labels that were kept.
StampsForgetKept(g, st) == [g EXCEPT !.ts = st + 1]

\* Renumber the stamps after st without gaps, in insertion order.
compressStampsAfter(g, st) ==
    LET late == {Lab(g, e).stamp : e \in Events(g)} \ (0 .. st)
        new(s) == IF s <= st THEN s ELSE st + Cardinality({q \in late : q <= s})
    IN  [g EXCEPT !.lab = [e \in Events(g) |-> [g.lab[e] EXCEPT !.stamp = new(@)]],
                  !.ts  = st + 1 + Cardinality(late)]

\* A dangling read at the end of its thread reads the coherence-latest store.
repairRead(g, r) ==
    LET w == co_max(g, Addr(g, r))
    IN  [Lab(g, r) EXCEPT !.rf = w, !.max = TRUE, !.ipr = Lab(g, w).stamp > Lab(g, r).stamp]

repairDanglingReads(g) ==
    LET dangling == {e \in Events(g) : /\ isRead(g, e)
                                       /\ Lab(g, e).rf = Bottom
                                       /\ e = LastEvent(g, e[1])}
    IN  [g EXCEPT !.lab = [e \in Events(g) |->
            IF e \in dangling THEN repairRead(g, e) ELSE g.lab[e]]]

----------------------------------------------------------------------------
\* What std::hash<ExecutionGraph> combines: the thread sizes, the rf of every
\* read, the immediate coherence predecessor of every write.
GraphKey(g) ==
    [e \in Events(g) |->
        CASE isRead(g, e)  -> Lab(g, e).rf
          [] isWrite(g, e) -> co_imm_pred(g, e)
          [] OTHER -> Bottom]

=============================================================================
