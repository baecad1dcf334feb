-------------------------------- MODULE Driver --------------------------------
(***************************************************************************)
(* GenMCDriver in verification mode (src/genmc-tool/src/Verification/      *)
(* GenMCDriver.cpp): the search that visits every consistent execution     *)
(* graph of a program.  A run extends the graph on top of the execution    *)
(* stack until no thread can be scheduled.  Every alternative met on the   *)
(* way (another store to read, another place in coherence, an older load   *)
(* that could read the new store) becomes an item of the worklist of that  *)
(* graph, under the stamp of the label that raised it.  Between two runs   *)
(* the item with the largest stamp is taken, the graph is cut back to that *)
(* stamp, and the alternative is applied: in place (forward revisit) or to *)
(* a copy of the graph pushed on the stack (backward revisit).             *)
(*                                                                         *)
(* The program under test is a parameter: for every thread a sequence of   *)
(* instructions.  An instruction whose need differs from the last value    *)
(* its thread read ends the thread, or blocks it when it is an assume().   *)
(* A load or CAS whose value goes to an assume() is annotated with the     *)
(* value that lets the thread go on (ann).  The interpreter is replaced by *)
(* NextPc: re-running a thread through its labels changes nothing, so only *)
(* new labels are steps of this model.                                     *)
(*                                                                         *)
(* Not in this model: symmetry reduction, barriers, helping, dynamic       *)
(* memory, data races of non-atomic accesses, and the estimation mode.     *)
(* Module Bounds has the bound deciders; module Fuzzer extends this one    *)
(* with the fuzzing mode.                                                  *)
(***************************************************************************)
EXTENDS Consistency, Bounds

CONSTANTS
    Programs,   \* the programs explored
    Policies(_), \* the scheduling policies a program is run under
    Limits(_),  \* --bound and --bound-type, NoBound for neither
    Parallel,   \* the programs explored by a driver of a thread pool
    Ipr         \* whether in-place revisiting is on (the default)

ASSUME DriverAssumption ==
    /\ \A p \in Programs : Policies(p) \subseteq {"ltr", "wf", "wfr", "arbitrary"}
    /\ \A p \in Programs : Limits(p) # {NoBound} => Model = "SC"
    /\ Parallel \subseteq Programs /\ Ipr \in BOOLEAN

(* Thread 0 is main and created by none.  An access is to a location.  Only *)
(* a CAS or a load whose value goes to the assume() after it is annotated   *)
(* (LoadAnnotationPass).                                                    *)
isProgram(p) ==
    /\ 0 \in DOMAIN p /\ DOMAIN p \subseteq Threads
    /\ \A t \in DOMAIN p :
        /\ Len(p[t]) \in Nat /\ DOMAIN p[t] = 1 .. Len(p[t])
        /\ \A k \in DOMAIN p[t] :
            LET ins == p[t][k]
            IN  /\ ins.op \in {"load", "store", "fai", "cas", "create", "join"}
                /\ ins.op \in {"load", "store", "fai", "cas"} => ins.loc \in Locs
                /\ ins.op = "create" => ins.child \in DOMAIN p \ {0}
                /\ isAnnotated(ins) /\ ins.op \in {"load", "fai"} =>
                     /\ ins.op = "load" /\ k < Len(p[t])
                     /\ p[t][k + 1].blk /\ p[t][k + 1].need = ins.ann

ASSUME ProgramsAssumption == \A p \in Programs : isProgram(p)

VARIABLES
    prog, policy, bound,   \* fixed at the start
    stack,          \* execStack: graphs with their worklists
    moot,           \* isMoot()
    prio,           \* threadPrios: the load revisited in place last
    resched,        \* readToReschedule
    phase,          \* "run" the program, take the "next" item, or "idle"
    tasks,          \* graphs submitted to the pool and not taken up yet
    result,         \* explored, exploredBlocked and boundExceeding
    seen,           \* history: keys of the complete executions counted
    error,          \* an unordered store on an annotated location was reported
    bug             \* a BUG_ON of the driver fired

vars == <<prog, policy, bound, stack, moot, prio, resched, phase, tasks, result, seen, error, bug>>

----------------------------------------------------------------------------
\* Bounds.  With a bound, in-place revisiting is off.

bounding == bound # NoBound

ipr == Ipr /\ ~ bounding

partialExecutionExceedsBound(g) == doesExecutionExceedBound(g, bound, TRUE)

fullExecutionExceedsBound(g) == doesExecutionExceedBound(g, bound, FALSE)

isExecutionValid(g, e) == isConsistent(g, e) /\ ~ partialExecutionExceedsBound(g)

----------------------------------------------------------------------------
\* The program: what a thread does next, given its labels.

NextPc(g, t) == LastLab(g, t).pc + 1

LastRead(g, t) ==
    LET reads == {e[2] : e \in {q \in Events(g) : q[1] = t /\ isRead(g, q)}}
    IN  IF reads = {} THEN 0 ELSE getReadValue(g, <<t, Max(reads)>>)

Enabled(g, t, ins) == ins.need \in {AnyValue, LastRead(g, t)}

AtEnd(p, g, t) ==
    \/ NextPc(g, t) > Len(p[t])
    \/ LET ins == p[t][NextPc(g, t)] IN ~ Enabled(g, t, ins) /\ ~ ins.blk

AtAssume(p, g, t) ==
    /\ ~ AtEnd(p, g, t)
    /\ ~ Enabled(g, t, p[t][NextPc(g, t)])

NextOp(p, g, t) ==
    CASE AtEnd(p, g, t)    -> "finish"
      [] AtAssume(p, g, t) -> "block"
      [] OTHER             -> p[t][NextPc(g, t)].op

\* A thread exists once its create label is in the graph.
isStarted(g, t) ==
    /\ t \in LiveThreads(g)
    /\ LET par == Lab(g, <<t, 0>>).par
       IN  t # 0 => containsPos(g, par) /\ Lab(g, par).kind = "create"

isSchedulable(g, t) == isStarted(g, t) /\ ~ isTerminator(LastLab(g, t))

isNextThreadInstLoad(g, t) == NextOp(prog, g, t) \in {"load", "fai", "cas"}

StoresFirst(g, ready) ==
    LET stores == {t \in ready : ~ isNextThreadInstLoad(g, t)}
    IN  IF stores = {} THEN ready ELSE stores

\* The threads that the scheduling policy may pick.
scheduleNext(g) ==
    LET ready == {t \in Threads : isSchedulable(g, t)}
    IN  IF moot \/ ready = {} THEN {}
        ELSE IF prio[1] \in ready THEN {prio[1]}
        ELSE CASE policy = "ltr"       -> {Min(ready)}
               [] policy = "wf"        -> {Min(StoresFirst(g, ready))}
               [] policy = "wfr"       -> StoresFirst(g, ready)
               [] policy = "arbitrary" -> ready

----------------------------------------------------------------------------
\* Revisits.  Handlers work on a record x of the graph, its worklist and the
\* flags of the run.

Item(kind, stamp, pos, rev) == [kind |-> kind, stamp |-> stamp, pos |-> pos, rev |-> rev]

addToWorklist(x, items) == [x EXCEPT !.wl = @ \o items]

\* What stays in the graph when load r is made to read w.
getRevisitView(g, r, w) == update(getViewFromStamp(g, Lab(g, r).stamp), prefixView(g, w))

coherenceSuccRemainInGraph(g, w, v) ==
    LET k == CoIndex(g, w)
        x == Addr(g, w)
    IN  isRMW(g, w) \/ k = Len(g.co[x]) \/ InView(v, g.co[x][k + 1])

isCoBeforeSavedPrefix(g, w, v, e) ==
    LET s == IF isRead(g, e) THEN Lab(g, e).rf ELSE e
    IN  \E q \in co_succs(g, Addr(g, e), s) : InView(v, q) /\ q # w

\* Mutant: a load revisited by a deleted store may be revisited again.
NeverRevisited(g, v, e) == FALSE

hasBeenRevisitedByDeleted(g, v, e) ==
    LET rf == Lab(g, e).rf
    IN  /\ isRead(g, e)
        /\ ~ Lab(g, e).ipr
        /\ ~ InView(v, rf)
        /\ Lab(g, rf).stamp > Lab(g, e).stamp

\* The revisit of r by w is taken only where everything it deletes was added
\* maximally: each graph is then reached by one sequence of revisits.
isMaximalExtension(g, r, w) ==
    LET v == getRevisitView(g, r, w)
    IN  /\ coherenceSuccRemainInGraph(g, w, v)
        /\ \A e \in Events(g) :
             (isAccess(g, e) /\ (e = r \/ ~ InView(v, e))) =>
                 /\ Lab(g, e).max
                 /\ ~ isCoBeforeSavedPrefix(g, w, v, e)
                 /\ ~ hasBeenRevisitedByDeleted(g, v, e)

\* The blocked loads, each of a thread of its own, read the new store in this
\* graph: their threads go on.
revisitInPlace(g, loads, w) ==
    LET h == RemoveLabels(g, {LastEvent(g, r[1]) : r \in {q \in loads : containsPos(g, next(q))}})
    IN  [h EXCEPT !.lab = [e \in Events(h) |->
            IF e \in loads THEN [h.lab[e] EXCEPT !.rf = w, !.max = TRUE, !.ipr = TRUE] ELSE h.lab[e]]]

isBlockedLoad(g, r) ==
    LET ins == Lab(g, r).ins
    IN  /\ ipr
        /\ ins.op # "cas"
        /\ isAnnotated(ins)
        /\ ~ valueMakesAssumeSucceed(ins, getReadValue(g, r))

\* While an update is pending, a load revisited by a store that would be
\* deleted is not revisited.
StaysRevisited(g, r, w) ==
    LET rf == Lab(g, r).rf
    IN  /\ ipr
        /\ getPendingRMW(g, w) # InitEvent
        /\ isAnnotated(Lab(g, r).ins)
        /\ Lab(g, rf).stamp > Lab(g, r).stamp
        /\ ~ InView(prefixView(g, w), rf)

getRevisitableApproximation(g, w) == LatestFirst(g, getCoherentRevisits(g, w, prefixView(g, w)))

\* The loads before the first one that may not be revisited.
MaximalRevisits(g, w, loads) ==
    SubSeq(loads, 1, Max({n \in 0 .. Len(loads) :
                            \A i \in 1 .. n : isMaximalExtension(g, loads[i], w)}))

BackItems(g, w, loads) ==
    [i \in DOMAIN loads |-> Item("back", Lab(g, w).stamp, loads[i], w)]

\* Blocked loads are revisited in place.
tryOptimizeIPRs(x, w, loads) ==
    LET inPlace == Among(loads, {r \in Range(loads) : isBlockedLoad(x.g, r)})
    IN  [x EXCEPT !.g = revisitInPlace(@, Range(inPlace), w),
                  !.prio = IF inPlace = <<>> THEN @ ELSE Last(inPlace)]

\* Of the other loads, latest first, the first one that is not maximal ends
\* the search.
addBackRevisits(x, w, loads) ==
    LET regular == {r \in Range(loads) : ~ StaysRevisited(x.g, r, w)}
        items == BackItems(x.g, w, MaximalRevisits(x.g, w, Among(loads, regular)))
    IN  [addToWorklist(x, items) EXCEPT !.moot = @ \/ violatesAtomicity(x.g, w)]

revisitLoads(x, w, loads) ==
    LET free == {r \in Range(loads) : ~ isBlockedLoad(x.g, r)}
    IN  addBackRevisits(tryOptimizeIPRs(x, w, loads), w, Among(loads, free))

calcRevisits(x, w) == revisitLoads(x, w, getRevisitableApproximation(x.g, w))

----------------------------------------------------------------------------
\* Handlers of the instructions.

\* Mutant: the oldest store is tried first.
RfsOldestLast(g, r) == Reverse(getCoherentStores(g, Lab(g, r).ins.loc, r))

\* The stores an update may read: not those that an update which can no
\* longer be revisited, or is already in the prefix, has read.
getRfsApproximation(g, r) ==
    LET ins == Lab(g, r).ins
        settled(q) == isRMW(g, q) /\ (~ Lab(g, q).rev \/ InView(prefixView(g, r), q))
        fine(s) == ~ /\ valueMakesRMWSucceed(ins, getWriteValue(g, s))
                     /\ \E q \in Readers(g, s, ins.loc) : settled(q)
        stores == getCoherentStores(g, ins.loc, r)
    IN  Among(stores, {s \in Range(stores) : fine(s)})

\* SAVER: an annotated load does not read values that block its thread,
\* except for the newest store.
filterValuesFromAnnotSAVER(g, ins, stores) ==
    LET keep(s) == \/ ~ isAnnotated(ins)
                   \/ s \in {stores[Len(stores)], co_max(g, ins.loc)}
                   \/ valueMakesAssumeSucceed(ins, getWriteValue(g, s))
    IN  Among(stores, {s \in Range(stores) : keep(s)})

\* In-place revisiting assumes that the stores to annotated locations are
\* ordered: an annotated load that meets an unordered store is an error.
checkIPRValidity(g, ins) ==
    ipr /\ isAnnotated(ins) => \A k \in DOMAIN g.co[ins.loc] : ~ Lab(g, g.co[ins.loc][k]).racy

\* Block labels are not given views.
blockThread(g, t, lab) == InsertLabel(g, <<t, ThreadSize(g, t)>>, lab)

\* An annotated CAS that would block its thread is taken out of the graph.
CASBlocks(g, ins, w) ==
    /\ ipr /\ ins.op = "cas" /\ isAnnotated(ins)
    /\ ~ valueMakesAssumeSucceed(ins, getWriteValue(g, w))

removeCASRead(g, r) ==
    blockThread(removeLast(g, r[1]), r[1], NewLabel("block", Lab(g, r).pc - 1, Lab(g, r).ins))

isReadOptBlock(lab) == lab.kind = "block" /\ lab.ins.op = "cas"

\* A store to its location gives every CAS taken out another chance.
checkReconsiderReadOpts(g, x) ==
    LET lasts == {LastEvent(g, t) : t \in LiveThreads(g)}
    IN  RemoveLabels(g, {e \in lasts : isReadOptBlock(Lab(g, e)) /\ Addr(g, e) = x})

\* The choices, oldest first, up to the newest of the valid ones (given by their
\* places); without a bound the newest one is, and none is looked at.
dropInvalid(choices, valid) ==
    SubSeq(choices, 1, IF bounding THEN Max({0} \cup valid) ELSE Len(choices))

findConsistentRf(g, r, stores) ==
    dropInvalid(stores, {k \in DOMAIN stores : isExecutionValid(setRf(g, r, stores[k]), r)})

findConsistentCo(g, w, places) ==
    dropInvalid(places,
                {k \in DOMAIN places : isExecutionValid(addStoreToCOAfter(g, w, places[k]), w)})

\* The newest of the stores is read; the others wait in the worklist.  If
\* none is left the run is abandoned with the oldest store read.
readNewest(x, r, stores) ==
    LET left == findConsistentRf(x.g, r, stores)
        items == [i \in 1 .. Len(left) - 1 |-> Item("read", Lab(x.g, r).stamp, r, left[i])]
    IN  [addToWorklist(x, items) EXCEPT
           !.g = setRf(@, r, IF left = <<>> THEN Head(stores) ELSE Last(left)),
           !.moot = @ \/ left = <<>>,
           !.bug = @ \/ stores = <<>>,
           !.resched = IF @ = r THEN InitEvent ELSE @]

loadAdded(x, r, ins) ==
    IF ~ checkIPRValidity(x.g, ins) THEN [x EXCEPT !.error = TRUE]
    ELSE IF CASBlocks(x.g, ins, co_max(x.g, ins.loc)) /\ x.resched # r
    THEN [x EXCEPT !.g = removeCASRead(@, r)]
    ELSE readNewest(x, r, filterValuesFromAnnotSAVER(x.g, ins, getRfsApproximation(x.g, r)))

handleLoad(x, t, ins) ==
    LET g == addLabelToGraph(x.g, t, NewLabel("R", NextPc(x.g, t), ins))
    IN  loadAdded([x EXCEPT !.g = g], LastEvent(g, t), ins)

\* A store that could go to several places is marked; it is an error when a
\* load of its location is annotated.
reportWarningOnce(x, w) ==
    [x EXCEPT !.g = SetLab(@, w, [Lab(@, w) EXCEPT !.racy = TRUE]),
              !.error = ipr /\ \E r \in ReadsAt(x.g, Addr(x.g, w)) : isAnnotated(Lab(x.g, r).ins)]

\* The store goes to the last of the places; the others wait in the worklist.
\* With a bound the run may be abandoned, but the revisits are computed.
placeStore(x, w, places) ==
    LET marked == IF Len(places) > 1 THEN reportWarningOnce(x, w) ELSE x
        left == findConsistentCo(x.g, w, places)
        items == [i \in 1 .. Len(left) - 1 |-> Item("write", Lab(x.g, w).stamp, w, left[i])]
    IN  calcRevisits([addToWorklist(marked, items) EXCEPT
                        !.g = addStoreToCOAfter(@, w, IF left = <<>> THEN Head(places) ELSE Last(left)),
                        !.bug = @ \/ (violatesAtomicity(x.g, w) /\ ~ bounding),
                        !.moot = @ \/ left = <<>> \/ violatesAtomicity(x.g, w)], w)

storeAdded(x, w, loc) == placeStore(x, w, getCoherentPlacings(x.g, loc, w, isRMW(x.g, w)))

handleStore(x, t, pc, ins, val) ==
    LET g == addLabelToGraph(x.g, t, [NewLabel("W", pc, ins) EXCEPT !.val = val])
    IN  storeAdded([x EXCEPT !.g = checkReconsiderReadOpts(g, ins.loc)], LastEvent(g, t), ins.loc)

\* executeAtomicRMWOperation, and the swap of a CAS.
RMWResult(ins, val) == IF ins.op = "fai" THEN val + ins.val ELSE ins.val

\* The store half, if the value read makes it happen.
finishRMW(x, t, ins) ==
    LET val == getReadValue(x.g, LastEvent(x.g, t))
        added == ~ x.error /\ ~ x.moot /\ LastLab(x.g, t).kind = "R"
    IN  IF added /\ valueMakesRMWSucceed(ins, val)
        THEN handleStore(x, t, LastLab(x.g, t).pc, ins, RMWResult(ins, val)) ELSE x

handleRMW(x, t, ins) == finishRMW(handleLoad(x, t, ins), t, ins)

\* The begin label of the child is made anew if an earlier one was kept.
handleThreadCreate(x, t, ins) ==
    LET g == addLabelToGraph(x.g, t, NewLabel("create", NextPc(x.g, t), ins))
        begin == [NewLabel("start", 0, NoInstr) EXCEPT !.par = LastEvent(g, t)]
        h == IF ins.child \in LiveThreads(g) THEN removeLast(g, ins.child) ELSE g
    IN  [x EXCEPT !.g = addLabelToGraph(h, ins.child, begin),
                  !.bug = @ \/ ThreadSize(g, ins.child) > 1]

\* The last label of a thread that has none is read from outside the graph.
handleThreadJoin(x, t, ins) ==
    IF ins.child \notin LiveThreads(x.g) THEN [x EXCEPT !.bug = TRUE]
    ELSE IF LastLab(x.g, ins.child).kind = "finish"
    THEN LET g == addLabelToGraph(x.g, t, NewLabel("join", NextPc(x.g, t), ins))
         IN  [x EXCEPT !.g = g, !.moot = @ \/ partialExecutionExceedsBound(g)]
    ELSE [x EXCEPT !.g = blockThread(@, t, NewLabel("block", NextPc(@, t) - 1, ins))]

\* A finishing thread unblocks the threads that wait to join it.
handleThreadFinish(x, t) ==
    LET g == addLabelToGraph(x.g, t, NewLabel("finish", NextPc(x.g, t), NoInstr))
        waiting == {u \in LiveThreads(g) : /\ LastLab(g, u).kind = "block"
                                           /\ LastLab(g, u).ins.op = "join"
                                           /\ LastLab(g, u).ins.child = t}
        h == RemoveLabels(g, {LastEvent(g, u) : u \in waiting})
    IN  [x EXCEPT !.g = h, !.moot = @ \/ partialExecutionExceedsBound(h)]

\* A blocked thread whose last access is a read that no store will revisit
\* stays blocked: the execution is dropped.
FullyBlocked(g, t) ==
    LET acc == {e[2] : e \in {q \in Events(g) : q[1] = t /\ isAccess(g, q)}}
        last == Lab(g, <<t, Max(acc)>>)
    IN  acc # {} /\ last.kind = "R" /\ (~ last.rev \/ ~ last.max)

\* The label is added twice, so that it takes the second of two stamps.
handleBlock(x, t) ==
    LET g == [x.g EXCEPT !.ts = @ + 1]
    IN  [x EXCEPT !.g = blockThread(g, t, NewLabel("block", NextPc(g, t) - 1, NoInstr)),
                  !.moot = @ \/ FullyBlocked(g, t)]

----------------------------------------------------------------------------
\* Actions of a run.

Top == stack[Len(stack)]

Cur == [g |-> Top.g, wl |-> Top.wl, moot |-> moot, prio |-> prio, resched |-> resched,
        error |-> error, bug |-> bug]

\* An error halts the driver and its pool.
Commit(x) ==
    /\ stack' = [stack EXCEPT ![Len(stack)] = [g |-> x.g, wl |-> x.wl]]
    /\ moot' = x.moot /\ prio' = x.prio /\ resched' = x.resched
    /\ error' = x.error /\ bug' = x.bug
    /\ phase' = IF x.error THEN "idle" ELSE phase
    /\ tasks' = IF x.error THEN <<>> ELSE tasks
    /\ UNCHANGED <<prog, policy, bound, result, seen>>

Scheduled(t, op) == phase = "run" /\ t \in scheduleNext(Top.g) /\ NextOp(prog, Top.g, t) = op

NextInstr(t) == prog[t][NextPc(Top.g, t)]

Load(t) ==
    /\ Scheduled(t, "load")
    /\ Commit(handleLoad(Cur, t, NextInstr(t)))

Store(t) ==
    /\ Scheduled(t, "store")
    /\ Commit(handleStore(Cur, t, NextPc(Top.g, t), NextInstr(t), NextInstr(t).val))

FetchAndAdd(t) ==
    /\ Scheduled(t, "fai")
    /\ Commit(handleRMW(Cur, t, NextInstr(t)))

CompareAndSwap(t) ==
    /\ Scheduled(t, "cas")
    /\ Commit(handleRMW(Cur, t, NextInstr(t)))

ThreadCreate(t) ==
    /\ Scheduled(t, "create")
    /\ Commit(handleThreadCreate(Cur, t, NextInstr(t)))

ThreadJoin(t) ==
    /\ Scheduled(t, "join")
    /\ Commit(handleThreadJoin(Cur, t, NextInstr(t)))

ThreadFinish(t) ==
    /\ Scheduled(t, "finish")
    /\ Commit(handleThreadFinish(Cur, t))

Block(t) ==
    /\ Scheduled(t, "block")
    /\ Commit(handleBlock(Cur, t))

\* Threads with a CAS that was taken out.
Removed(g) == {t \in LiveThreads(g) : isReadOptBlock(LastLab(g, t))}

\* Nothing else can run: the CAS is added after all.
rescheduleReads ==
    /\ phase = "run" /\ ~ moot
    /\ scheduleNext(Top.g) = {}
    /\ Removed(Top.g) # {}
    /\ LET t == Min(Removed(Top.g))
       IN  Commit([Cur EXCEPT !.g = removeLast(@, t), !.resched = LastEvent(Top.g, t)])

isExecutionBlocked(g) == \E t \in LiveThreads(g) : LastLab(g, t).kind = "block"

counted(res, g) ==
    CASE moot -> res
      [] ~ moot /\ isExecutionBlocked(g) -> [res EXCEPT !.blocked = @ + 1]
      [] OTHER -> [res EXCEPT !.explored = @ + 1,
                              !.boundExceeding = @ + (IF fullExecutionExceedsBound(g) THEN 1 ELSE 0)]

\* No thread can run, or the run was abandoned: count the execution.
ExecutionEnd ==
    /\ phase = "run"
    /\ scheduleNext(Top.g) = {}
    /\ moot \/ Removed(Top.g) = {}
    /\ phase' = "next"
    /\ result' = counted(result, Top.g)
    /\ seen' = IF moot \/ isExecutionBlocked(Top.g) THEN seen ELSE seen \cup {GraphKey(Top.g)}
    /\ UNCHANGED <<prog, policy, bound, stack, moot, prio, resched, tasks, error, bug>>

----------------------------------------------------------------------------
\* Between runs.

\* Execution::restrict: worklists of larger stamps are empty by then.
restrict(x, stamp) ==
    [x EXCEPT !.g = repairDanglingReads(compressStampsAfter(cutToStamp(@, stamp), stamp))]

\* Mutant: the new store takes over the view of its load.
CompleteWithOldView(g, r) ==
    LET ins == Lab(g, r).ins
        lab == [NewLabel("W", Lab(g, r).pc, ins) EXCEPT
                  !.val = RMWResult(ins, getReadValue(g, r)), !.view = Lab(g, r).view]
    IN  addStoreToCOAfter(InsertLabel(g, next(r), lab), next(r), Lab(g, r).rf)

\* The store half of an update that the revisited load now performs.
completeRevisitedRMW(g, r) ==
    LET ins == Lab(g, r).ins
        lab == [NewLabel("W", Lab(g, r).pc, ins) EXCEPT !.val = RMWResult(ins, getReadValue(g, r))]
        h == addLabelToGraph(g, r[1], lab)
    IN  addStoreToCOAfter(h, next(r), Lab(g, r).rf)

readRevisited(x, r, ins) ==
    IF CASBlocks(x.g, ins, Lab(x.g, r).rf) THEN [x EXCEPT !.g = removeCASRead(@, r)]
    ELSE IF valueMakesRMWSucceed(ins, getReadValue(x.g, r))
    THEN calcRevisits([x EXCEPT !.g = completeRevisitedRMW(@, r)], next(r))
    ELSE x

revisitRead(x, r, w, maximal) ==
    LET lab == [Lab(x.g, r) EXCEPT !.rf = w, !.max = maximal, !.ipr = FALSE]
    IN  readRevisited([x EXCEPT !.g = SetLab(@, r, lab)], r, lab.ins)

revisitWrite(x, w, pred) ==
    calcRevisits([x EXCEPT !.g = setAddedMax(moveStoreCOAfter(x.g, w, pred), w, FALSE)], w)

forwardRevisit(x, item) ==
    IF item.kind = "read" THEN revisitRead(x, item.pos, item.rev, FALSE)
    ELSE revisitWrite(x, item.pos, item.rev)

\* The copy keeps the events older than the load and the prefix of the
\* store; what is in that prefix may not be revisited again.
copyGraph(g, r, w) ==
    LET v == getRevisitView(g, r, w)
        h == compressStampsAfter(getCopyUpTo(g, v), Lab(g, r).stamp)
        prefix == prefixView(g, w)
    IN  [h EXCEPT !.lab = [e \in Events(h) |->
            IF InView(prefix, e) THEN [h.lab[e] EXCEPT !.rev = FALSE] ELSE h.lab[e]]]

backwardRevisit(x, r, w) ==
    LET h == repairDanglingReads(copyGraph(x.g, r, w))
    IN  revisitRead([x EXCEPT !.g = h, !.wl = <<>>], r, w, w = co_max(h, Addr(h, r)))

\* Mutant: revisited graphs are not checked.
AlwaysValid(g, e) == TRUE

isRevisitValid(g, e) ==
    isAccess(g, e) =>
    /\ isExecutionValid(g, e)
    /\ (isRead(g, e) /\ isRMW(g, e)) => isExecutionValid(g, next(e))

\* Mutant: oldest item first.
OldestItem(wl) == CHOOSE k \in DOMAIN wl : \A j \in DOMAIN wl : wl[k].stamp <= wl[j].stamp

\* getNextItem: largest stamp, and among those the one added last.
NextItem(wl) ==
    CHOOSE k \in DOMAIN wl :
        \A j \in DOMAIN wl : wl[j].stamp < wl[k].stamp \/ (wl[j].stamp = wl[k].stamp /\ j <= k)

SetTop(x) == [stack EXCEPT ![Len(stack)] = [g |-> x.g, wl |-> x.wl]]

\* resetExplorationOptions, and the graph cut to the stamp of its kth item.
Restricted(k) ==
    restrict([Cur EXCEPT !.wl = RemoveAt(@, k), !.moot = FALSE, !.prio = Bottom,
                         !.resched = InitEvent], Top.wl[k].stamp)

Flags(y) == moot' = y.moot /\ prio' = y.prio /\ resched' = y.resched

\* The search goes on with the revisited graph if it is valid.
continueWith(y, pos) ==
    /\ stack' = SetTop(y)
    /\ Flags(y)
    /\ phase' = IF ~ y.moot /\ isRevisitValid(y.g, pos) THEN "run" ELSE "next"

ForwardRevisit ==
    /\ phase = "next" /\ stack # <<>> /\ Top.wl # <<>>
    /\ LET k == NextItem(Top.wl)
           item == Top.wl[k]
       IN  /\ item.kind # "back"
           /\ continueWith(forwardRevisit(Restricted(k), item), item.pos)
    /\ UNCHANGED <<prog, policy, bound, tasks, result, seen, error, bug>>

\* When the pool has idle workers a clone of the graph is submitted instead
\* of being run here.
submitOrRun(g, valid) ==
    \E hungry \in {FALSE, (prog \in Parallel)} :
        /\ tasks' = IF hungry /\ valid THEN Append(tasks, g) ELSE tasks
        /\ phase' = IF ~ hungry /\ valid THEN "run" ELSE "next"

\* The revisited copy y goes on top of x, the graph it was made from.
pushExecution(x, y, pos) ==
    /\ stack' = Append(SetTop(x), [g |-> y.g, wl |-> y.wl])
    /\ Flags(y)
    /\ bug' = (bug \/ y.moot)
    /\ submitOrRun(y.g, isRevisitValid(y.g, pos))

pushRevisited(x, item) == pushExecution(x, backwardRevisit(x, item.pos, item.rev), item.pos)

BackwardRevisit ==
    /\ phase = "next" /\ stack # <<>> /\ Top.wl # <<>>
    /\ LET k == NextItem(Top.wl)
       IN  /\ Top.wl[k].kind = "back"
           /\ pushRevisited(Restricted(k), Top.wl[k])
    /\ UNCHANGED <<prog, policy, bound, result, seen, error>>

\* Mutant: when the last execution is popped it is run again, abandoned.
RerunLast ==
    /\ phase = "next" /\ stack # <<>> /\ Top.wl = <<>>
    /\ stack' = IF Len(stack) = 1 THEN stack ELSE SubSeq(stack, 1, Len(stack) - 1)
    /\ moot' = (Len(stack) = 1) /\ prio' = Bottom /\ resched' = InitEvent
    /\ phase' = IF Len(stack) = 1 THEN "run" ELSE "next"
    /\ UNCHANGED <<prog, policy, bound, tasks, result, seen, error, bug>>

\* Nothing is left to do for this graph: popExecution().
PopExecution ==
    /\ phase = "next" /\ stack # <<>> /\ Top.wl = <<>>
    /\ stack' = SubSeq(stack, 1, Len(stack) - 1)
    /\ moot' = FALSE /\ prio' = Bottom /\ resched' = InitEvent
    /\ phase' = IF Len(stack) = 1 THEN "idle" ELSE "next"
    /\ UNCHANGED <<prog, policy, bound, tasks, result, seen, error, bug>>

\* A worker of the pool takes the task submitted last: initFromState().
TakeTask ==
    /\ phase = "idle" /\ tasks # <<>>
    /\ stack' = <<[g |-> Last(tasks), wl |-> <<>>]>>
    /\ tasks' = Front(tasks)
    /\ moot' = FALSE /\ prio' = Bottom /\ resched' = InitEvent
    /\ phase' = "run"
    /\ UNCHANGED <<prog, policy, bound, result, seen, error, bug>>

Done == phase = "idle" /\ tasks = <<>>

Finished ==
    /\ Done
    /\ UNCHANGED vars

----------------------------------------------------------------------------
Init ==
    /\ prog \in Programs
    /\ bound \in Limits(prog)
    /\ policy \in IF bounding THEN {"ltr"} ELSE Policies(prog)
    /\ stack = <<[g |-> EmptyGraph, wl |-> <<>>]>>
    /\ moot = FALSE /\ prio = Bottom /\ resched = InitEvent
    /\ phase = "run"
    /\ tasks = <<>>
    /\ result = [explored |-> 0, blocked |-> 0, boundExceeding |-> 0]
    /\ seen = {}
    /\ error = FALSE
    /\ bug = FALSE

Run(t) ==
    \/ Load(t) \/ Store(t) \/ FetchAndAdd(t) \/ CompareAndSwap(t)
    \/ ThreadCreate(t) \/ ThreadJoin(t) \/ ThreadFinish(t) \/ Block(t)

Explore == rescheduleReads \/ ExecutionEnd \/ ForwardRevisit \/ BackwardRevisit \/ PopExecution \/ TakeTask

Next == (\E t \in Threads : Run(t)) \/ Explore \/ Finished

Spec == Init /\ [][Next]_vars

\* The driver and its pool keep taking steps until nothing is left: weak
\* fairness of Next, whose steps are always possible before Done.
FairSpec == Spec /\ ([]<>Done \/ []<><<Next>>_vars)

=============================================================================
