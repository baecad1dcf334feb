-------------------------------- MODULE Fuzzer --------------------------------
(***************************************************************************)
(* GenMCDriver in fuzzing mode (src/genmc-tool/src/Verification/           *)
(* GenMCDriver.cpp, --fuzz): instead of visiting every execution, each run *)
(* makes random choices, and records for every load the other stores it    *)
(* could have read.  Interesting executions are kept in a corpus; between  *)
(* two runs a graph of the corpus is mutated, which means that one of its  *)
(* loads is made to read another of its recorded stores, and the mutated   *)
(* graphs are queued to be run again from there.                           *)
(*                                                                         *)
(* An execution of the stack has a third field, cm, the choice map: pairs  *)
(* of the stamp of a load and a store.  The choices recorded for stores    *)
(* are left out, no mutation uses them, and the weights of choices are     *)
(* kept only as far as a weight of zero excludes a choice.  The worklist   *)
(* has only items that run the program again after a cut.                  *)
(*                                                                         *)
(* Modelled: mutation by RevisitCut, new graphs are interesting, random    *)
(* reads-from and coherence (add-max "never").  --num-mutation is at least *)
(* the number of loads a store can revisit, so that no trial is skipped.   *)
(***************************************************************************)
EXTENDS Semantics

CONSTANTS
    FuzzMax,        \* --fuzz-max: executions to run
    CorpusSize,     \* --fuzz-corpus
    MutationBound,  \* --num-mutation: mutated graphs made from one
    RandomPeriod,   \* --insert-rand
    UseQueue        \* --use-queue

ASSUME FuzzerAssumption ==
    /\ FuzzMax \in Nat \ {0} /\ CorpusSize \in Nat /\ RandomPeriod \in Nat \ {0}
    /\ MutationBound \in Nat /\ UseQueue \in BOOLEAN

VARIABLES
    corpus,     \* fuzzSeeds: graphs with their choices
    seed,       \* the graph that is being mutated, with its choices
    options,    \* what can still be drawn for it
    left        \* how many more graphs are to be made of it

fuzzVars == <<vars, corpus, seed, options, left>>

NoSeed == [g |-> EmptyGraph, cm |-> {}]

----------------------------------------------------------------------------
\* Choices.

Stamp(g, e) == Lab(g, e).stamp

choicesOf(g, cm, r) == {c[2] : c \in {d \in cm : d[1] = Stamp(g, r)}}

\* Mutant: choices of stores that were not copied are kept.
DeletedStores(g, cm, h) ==
    UNION {{<<Stamp(h, r), s>> : s \in choicesOf(g, cm, r)}
           : r \in {e \in Events(g) \cap Events(h) : isRead(g, e)}}

\* The choices of a copy h of graph g, under the new stamps of the loads.
createChoiceMapForCopy(g, cm, h) ==
    UNION {{<<Stamp(h, r), s>> : s \in choicesOf(g, cm, r) \cap Events(h)}
           : r \in {e \in Events(g) \cap Events(h) : isRead(g, e)}}

recordStores(x, r, stores) ==
    [x EXCEPT !.cm = {c \in @ : c[1] # Stamp(x.g, r)} \cup {<<Stamp(x.g, r), s>> : s \in ToSet(stores)}]

recordRevisits(x, loads, w) == [x EXCEPT !.cm = @ \cup {<<Stamp(x.g, r), w>> : r \in loads}]

----------------------------------------------------------------------------
\* Revisits in fuzzing mode: every revisit is tried on a copy, and recorded
\* when it gives a valid graph.

\* The copy on which the revisit of r by w is tried.
revisitCut(g, r, w) ==
    repairDanglingReads(compressStampsAfter(getCopyUpTo(g, getRevisitView(g, r, w)), Stamp(g, r)))

rereads(g, r, w, maximal) ==
    SetLab(g, r, [Lab(g, r) EXCEPT !.rf = w, !.max = maximal, !.ipr = FALSE])

\* Load r of g, which is the last of its thread, has just been made to read
\* another store: an update gets its store, a CAS that blocks is taken out.
afterRevisit(g, r, ins) ==
    CASE CASBlocks(g, ins, Lab(g, r).rf) -> removeCASRead(g, r)
      [] valueMakesRMWSucceed(ins, getReadValue(g, r)) /\ ~ CASBlocks(g, ins, Lab(g, r).rf) ->
           completeRevisitedRMW(g, r)
      [] OTHER -> g

completed(g, r) == containsPos(g, next(r))

breaksAtomicity(g, r) == completed(g, r) /\ violatesAtomicity(g, next(r))

\* The graph of a trial.  The loads that the store of an update completed
\* there could revisit are tried too, without lasting effect: a store just
\* added is read by no other update.
trialIn(h, r, w) ==
    afterRevisit(rereads(h, r, w, w = co_max(h, Addr(h, r))), r, Lab(h, r).ins)

trial(g, r, w) == trialIn(revisitCut(g, r, w), r, w)

\* Loads are tried latest first, and the flag of an abandoned run stays set
\* for the trials that follow.
mootDuring(x, trials, r) ==
    x.moot \/ \E q \in DOMAIN trials : Stamp(x.g, q) >= Stamp(x.g, r) /\ breaksAtomicity(trials[q], q)

succeeds(x, trials, r) ==
    /\ completed(trials[r], r) => ~ mootDuring(x, trials, r)
    /\ isRevisitValid(trials[r], r)

\* Mutant: the store is kept although another update has read the same store.
recordUnchecked(x, w, trials) ==
    recordRevisits(x, {r \in DOMAIN trials : succeeds(x, trials, r)}, w)

recordTrials(x, w, trials) ==
    [recordRevisits(x, {r \in DOMAIN trials : succeeds(x, trials, r)}, w) EXCEPT
       !.moot = \/ @
                \/ \E q \in DOMAIN trials : breaksAtomicity(trials[q], q)
                \/ violatesAtomicity(x.g, w)]

fuzzRevisits(x, w) ==
    recordTrials(x, w, [r \in ToSet(getRevisitableApproximation(x.g, w)) |-> trial(x.g, r, w)])

\* calcRevisits for the store of an update completed by a revisit.
revisitAgain(x, r) == IF completed(x.g, r) THEN fuzzRevisits(x, next(r)) ELSE x

fuzzRevisitRead(x, r, w, maximal) ==
    revisitAgain([x EXCEPT !.g = afterRevisit(rereads(@, r, w, maximal), r, Lab(@, r).ins)], r)

----------------------------------------------------------------------------
\* Loads and stores.

\* An update does not read what another update has read.
filterAtomicityViolations(g, ins, stores) ==
    LET free(s) == ~ /\ valueMakesRMWSucceed(ins, getWriteValue(g, s))
                     /\ \E q \in Readers(g, s, ins.loc) : isRMW(g, q)
    IN  SelectSeq(stores, free)

\* pickRf: the consistent stores.
readable(g, r, stores) == {s \in ToSet(stores) : isConsistent(setRf(g, r, s), r)}

\* pickCo: the consistent places.
placeable(g, w, places) ==
    {p \in ToSet(places) : isConsistent(addStoreToCOAfter(g, w, p), w)}

RerunAt(stamp) == Item("rerun", stamp, InitEvent, InitEvent)

\* The runs of the store handler, one for each place that may be picked; with
\* no place left the run is abandoned and the program run again.
inPlaces(x, w, places, free) ==
    {fuzzRevisits(y, w) : y \in
        IF free = {}
        THEN {[addToWorklist(x, <<RerunAt(0)>>) EXCEPT
                 !.g = addStoreToCOAfter(@, w, Last(places)), !.moot = TRUE]}
        ELSE {[x EXCEPT !.g = addStoreToCOAfter(@, w, p)] : p \in free}}

storePicked(x, w, places) ==
    inPlaces(IF Len(places) > 1 THEN reportWarningOnce(x, w) ELSE x, w, places,
             placeable(x.g, w, places))

storePlaced(x, w, loc) == storePicked(x, w, getCoherentPlacings(x.g, loc, w, isRMW(x.g, w)))

storeInserted(x, g, w, loc) ==
    storePlaced([x EXCEPT !.g = checkReconsiderReadOpts(g, loc)], w, loc)

fuzzStore(x, t, pc, ins, val) ==
    storeInserted(x, addLabelToGraph(x.g, t, [NewLabel("W", pc, ins) EXCEPT !.val = val]),
                  <<t, ThreadSize(x.g, t)>>, ins.loc)

\* An update whose load is in the graph without its store.
Pending(g, t) ==
    LET r == LastEvent(g, t)
    IN  isRead(g, r) /\ valueMakesRMWSucceed(Lab(g, r).ins, getReadValue(g, r))

pendingThreads(g) == {t \in LiveThreads(g) : isStarted(g, t) /\ Pending(g, t)}

\* The store of an update follows at once.
fuzzFinishRMW(x, r, ins) ==
    IF Pending(x.g, r[1])
    THEN fuzzStore(x, r[1], Lab(x.g, r).pc, ins, RMWResult(ins, getReadValue(x.g, r))) ELSE {x}

\* No store to pick from is an error of the program.
loadPicked(x, r, ins, picks) ==
    IF picks = {} THEN {[x EXCEPT !.bug = TRUE]}
    ELSE UNION {fuzzFinishRMW(y, r, ins) :
                  y \in {[x EXCEPT !.g = setRf(@, r, s), !.resched = InitEvent] : s \in picks}}

\* All stores but those filtered for their values are recorded; the one read
\* is drawn from the consistent ones among those an update may read.
loadRecorded(x, r, ins, stores) ==
    loadPicked(recordStores(x, r, stores), r, ins,
               readable(x.g, r, filterAtomicityViolations(x.g, ins, stores)))

loadInserted(x, r, ins) ==
    CASE ~ checkIPRValidity(x.g, ins) -> {[x EXCEPT !.error = TRUE]}
      [] CASBlocks(x.g, ins, co_max(x.g, ins.loc)) /\ x.resched # r ->
           {[x EXCEPT !.g = removeCASRead(@, r)]}
      [] OTHER ->
           loadRecorded(x, r, ins, filterValuesFromAnnotSAVER(x.g, ins, getRfsApproximation(x.g, r)))

fuzzLoad(x, t, ins) ==
    loadInserted([x EXCEPT !.g = addLabelToGraph(@, t, NewLabel("R", NextPc(@, t), ins))],
                 <<t, ThreadSize(x.g, t)>>, ins)

----------------------------------------------------------------------------
\* A run.

FuzzCur == [g |-> Top.g, wl |-> Top.wl, cm |-> Top.cm, moot |-> moot, prio |-> prio,
            resched |-> resched, error |-> error, bug |-> bug]

FuzzSetTop(x) == [stack EXCEPT ![Len(stack)] = [g |-> x.g, wl |-> x.wl, cm |-> x.cm]]

\* An error and a failed assertion end everything.
FuzzCommit(x) ==
    /\ stack' = FuzzSetTop(x)
    /\ Flags(x)
    /\ error' = x.error /\ bug' = x.bug
    /\ phase' = IF x.error \/ x.bug THEN "idle" ELSE phase
    /\ UNCHANGED <<prog, policy, bound, tasks, result, seen, corpus, seed, options, left>>

FuzzScheduled(t, ops) ==
    /\ phase = "run"
    /\ pendingThreads(Top.g) = {}
    /\ t \in scheduleNext(Top.g)
    /\ NextOp(prog, Top.g, t) \in ops

FuzzLoad(t) ==
    /\ FuzzScheduled(t, {"load", "fai", "cas"})
    /\ \E x \in fuzzLoad(FuzzCur, t, NextInstr(t)) : FuzzCommit(x)

FuzzStore(t) ==
    /\ FuzzScheduled(t, {"store"})
    /\ \E x \in fuzzStore(FuzzCur, t, NextPc(Top.g, t), NextInstr(t), NextInstr(t).val) : FuzzCommit(x)

\* scheduleNextWFR first runs the threads through the labels they have, in
\* order: where the graph was cut after the load of an update, its store is
\* added before anything else.
FuzzFinishRMW(t) ==
    /\ phase = "run" /\ ~ moot
    /\ pendingThreads(Top.g) # {} /\ t = Min(pendingThreads(Top.g))
    /\ \E x \in fuzzFinishRMW(FuzzCur, LastEvent(Top.g, t), LastLab(Top.g, t).ins) : FuzzCommit(x)

FuzzOther(t) ==
    \/ FuzzScheduled(t, {"create"}) /\ FuzzCommit(handleThreadCreate(FuzzCur, t, NextInstr(t)))
    \/ FuzzScheduled(t, {"join"}) /\ FuzzCommit(handleThreadJoin(FuzzCur, t, NextInstr(t)))
    \/ FuzzScheduled(t, {"finish"}) /\ FuzzCommit(handleThreadFinish(FuzzCur, t))
    \/ FuzzScheduled(t, {"block"}) /\ FuzzCommit(handleBlock(FuzzCur, t))

----------------------------------------------------------------------------
\* Between runs.

totalExplored(res) == res.explored + res.blocked

\* --fuzz-value-noblock: a choice that would block its thread has no weight.
Weightless(g, r, s) ==
    isAnnotated(Lab(g, r).ins) /\ ~ valueMakesAssumeSucceed(Lab(g, r).ins, getWriteValue(g, s))

calcMutationOptions(e) ==
    {o \in Events(e.g) \X Events(e.g) :
        /\ isRead(e.g, o[1])
        /\ o[2] \in choicesOf(e.g, e.cm, o[1])
        /\ o[2] # Lab(e.g, o[1]).rf
        /\ ~ Weightless(e.g, o[1], o[2])}

isInteresting == GraphKey(Top.g) \notin seen

shouldSkipFuzzing(total) == total % RandomPeriod = 0 \/ total < CorpusSize

Current == [g |-> Top.g, cm |-> createChoiceMapForCopy(Top.g, Top.cm, Top.g)]

\* cacheCurrentExecution: a corpus that is too large loses any of its graphs.
Cached(total) ==
    IF CorpusSize > 0 /\ (isInteresting \/ total < CorpusSize)
    THEN LET more == Append(corpus, Current)
         IN  IF Len(more) > CorpusSize THEN {RemoveAt(more, k) : k \in DOMAIN more} ELSE {more}
    ELSE {corpus}

\* A graph of the corpus is taken out to be mutated.
PickSeed(seeds) ==
    \E k \in DOMAIN seeds :
        /\ seed' = seeds[k]
        /\ corpus' = RemoveAt(seeds, k)
        /\ options' = calcMutationOptions(seeds[k])
        /\ left' = Min({MutationBound, Cardinality(calcMutationOptions(seeds[k]))})
        /\ phase' = "mutate"
        /\ UNCHANGED stack

RunEnds == phase = "run" /\ scheduleNext(Top.g) = {} /\ (moot \/ Removed(Top.g) = {})

FuzzEnd ==
    /\ RunEnds
    /\ result' = counted(result, Top.g)
    /\ seen' = seen \cup {GraphKey(Top.g)}
    /\ LET total == totalExplored(counted(result, Top.g))
       IN  IF total >= FuzzMax
           THEN phase' = "idle" /\ UNCHANGED <<stack, corpus, seed, options, left>>
           ELSE \E seeds \in Cached(total) :
                  \/ /\ shouldSkipFuzzing(total)
                     /\ stack' = FuzzSetTop(addToWorklist(FuzzCur, <<RerunAt(0)>>))
                     /\ corpus' = seeds
                     /\ phase' = "next"
                     /\ UNCHANGED <<seed, options, left>>
                  \/ /\ ~ shouldSkipFuzzing(total) /\ seeds # <<>>
                     /\ PickSeed(seeds)
                  \/ /\ ~ shouldSkipFuzzing(total) /\ seeds = <<>>
                     /\ phase' = "next"
                     /\ UNCHANGED <<stack, corpus, seed, options, left>>
    /\ UNCHANGED <<prog, policy, bound, moot, prio, resched, tasks, error, bug>>

\* mutate(): the graph is cut to what the load knew when it was added, or to
\* what a revisit of the load keeps.
isForward(g, r, w) == Stamp(g, r) > Stamp(g, w)

mutationView(g, r, w) ==
    IF isForward(g, r, w) THEN getViewFromStamp(g, Stamp(g, r)) ELSE getRevisitView(g, r, w)

Copied(e, h) == [FuzzCur EXCEPT !.g = repairDanglingReads(h), !.wl = <<>>,
                                !.cm = createChoiceMapForCopy(e.g, e.cm, h)]

\* Mutant: the flag of a run that was abandoned stays set.
KeepFlag(e, h) == Copied(e, h)

freshCopy(e, h) == [Copied(e, h) EXCEPT !.moot = FALSE]

mutateCopy(h, e, r, w) ==
    fuzzRevisitRead(freshCopy(e, h), r, w, isForward(e.g, r, w) \/ w = co_max(h, Addr(h, r)))

mutate(e, r, w) ==
    mutateCopy(compressStampsAfter(getCopyUpTo(e.g, mutationView(e.g, r, w)), Stamp(e.g, r)), e, r, w)

\* The mutated graph breaks atomicity: the other update that reads the same
\* store is made to read the new one.
revisitConflict(y, h, conf, w) ==
    fuzzRevisitRead([y EXCEPT !.g = repairDanglingReads(h), !.moot = FALSE,
                              !.cm = createChoiceMapForCopy(y.g, y.cm, h)],
                    conf, w, w = co_max(h, Addr(h, conf)))

restoreAtomicity(y, conf, w) == revisitConflict(y, copyGraph(y.g, conf, w), conf, w)

\* The mutated graph after which a new random run starts.
Flagged == IF UseQueue THEN left = 1
           ELSE left = Min({MutationBound, Cardinality(calcMutationOptions(seed))})

Queue(x, wl) ==
    LET e == [g |-> x.g, wl |-> wl, cm |-> x.cm]
    IN  stack' = IF UseQueue THEN <<e>> \o stack ELSE Append(stack, e)

\* Mutant: the graph is run again from its load.
RerunAtLoad(g, r, w) == <<RerunAt(Stamp(g, r))>>

\* It is run again from the newer of its load and the store.
RerunMutated(g, r, w) == <<RerunAt(Max({Stamp(g, r), Stamp(g, w)}))>>

\* A graph that had to be repaired gets no item to run it again, so that it
\* is dropped.
QueueRepaired(y, wl) ==
    /\ Queue(y, wl)
    /\ moot' = y.moot /\ bug' = y.moot
    /\ phase' = IF y.moot THEN "idle" ELSE phase

AssertionFails == bug' = TRUE /\ phase' = "idle" /\ UNCHANGED <<stack, moot>>

QueueMutated(y, r, w, flag) ==
    \/ /\ ~ y.moot
       /\ Queue(y, flag \o RerunMutated(y.g, r, w))
       /\ moot' = FALSE
       /\ UNCHANGED <<bug, phase>>
    \/ /\ y.moot
       /\ IF breaksAtomicity(y.g, r)
          THEN QueueRepaired(restoreAtomicity(y, getPendingRMW(y.g, next(r)), next(r)), flag)
          ELSE AssertionFails

Mutate ==
    /\ phase = "mutate" /\ left > 0
    /\ \E o \in options :
         /\ options' = options \ {o}
         /\ QueueMutated(mutate(seed, o[1], o[2]), o[1], o[2], IF Flagged THEN <<RerunAt(0)>> ELSE <<>>)
    /\ left' = left - 1
    /\ UNCHANGED <<prog, policy, bound, prio, resched, tasks, result, seen, error, corpus, seed>>

EndMutation ==
    /\ phase = "mutate" /\ left = 0
    /\ phase' = "next"
    /\ seed' = NoSeed /\ options' = {}
    /\ UNCHANGED <<prog, policy, bound, stack, moot, prio, resched, tasks, result, seen, error, bug, corpus, left>>

\* Execution::restrict, for the choices too.
fuzzRestrict(x, stamp) == [restrict(x, stamp) EXCEPT !.cm = {c \in @ : c[1] <= stamp}]

\* The program is run again after a cut.
Rerun ==
    /\ phase = "next" /\ stack # <<>> /\ Top.wl # <<>>
    /\ LET k == NextItem(Top.wl)
       IN  stack' = FuzzSetTop(fuzzRestrict([FuzzCur EXCEPT !.wl = RemoveAt(@, k)], Top.wl[k].stamp))
    /\ moot' = FALSE /\ prio' = Bottom /\ resched' = InitEvent
    /\ phase' = "run"
    /\ UNCHANGED <<prog, policy, bound, tasks, result, seen, error, bug, corpus, seed, options, left>>

\* An execution without items is dropped; after the last one the next run
\* starts from an empty graph.
Drop ==
    /\ phase = "next" /\ stack # <<>> /\ Top.wl = <<>>
    /\ stack' = IF Len(stack) = 1 THEN <<[g |-> EmptyGraph, wl |-> <<RerunAt(0)>>, cm |-> {}]>>
                ELSE Front(stack)
    /\ moot' = FALSE /\ prio' = Bottom /\ resched' = InitEvent
    /\ UNCHANGED <<prog, policy, bound, phase, tasks, result, seen, error, bug, corpus, seed, options, left>>

FuzzDone ==
    /\ phase = "idle"
    /\ UNCHANGED fuzzVars

----------------------------------------------------------------------------
FuzzInit ==
    /\ prog \in Programs
    /\ bound = NoBound
    /\ policy \in Policies(prog)
    /\ stack = <<[g |-> EmptyGraph, wl |-> <<>>, cm |-> {}]>>
    /\ moot = FALSE /\ prio = Bottom /\ resched = InitEvent
    /\ phase = "run"
    /\ tasks = <<>>
    /\ result = [explored |-> 0, blocked |-> 0, boundExceeding |-> 0]
    /\ seen = {}
    /\ error = FALSE /\ bug = FALSE
    /\ corpus = <<>> /\ seed = NoSeed /\ options = {} /\ left = 0

FuzzRun(t) == FuzzLoad(t) \/ FuzzStore(t) \/ FuzzFinishRMW(t) \/ FuzzOther(t)

FuzzNext ==
    \/ \E t \in Threads : FuzzRun(t)
    \/ FuzzEnd \/ Mutate \/ EndMutation \/ Rerun \/ Drop \/ FuzzDone

FuzzSpec == FuzzInit /\ [][FuzzNext]_fuzzVars

----------------------------------------------------------------------------
\* Properties.

\* explore() visits executions of the memory model: one that is counted is
\* consistent by the axioms of Semantics, and nothing in it dangles, whatever
\* mutations, cuts and repairs it went through.
OnlyExecutions ==
    (RunEnds /\ ~ moot /\ ~ isExecutionBlocked(Top.g)) => Consistent(Top.g) /\ GraphOK(Top.g)

\* The choices a run leaves behind can be used: each is a store to the
\* location of its load and is in the graph, although graphs were cut, copied
\* and renumbered since the choice was recorded.
ChoicesFit ==
    RunEnds =>
        \A r \in Events(Top.g) : isRead(Top.g, r) =>
            choicesOf(Top.g, Top.cm, r) \subseteq StoresTo(Top.g, Addr(Top.g, r))

\* A mutated graph still has its mutation when its turn comes: the cut before
\* the new run takes away no store that one of its loads reads.
MutationSurvives ==
    \A k \in DOMAIN stack : \A j \in DOMAIN stack[k].wl :
        LET g == stack[k].g
            h == cutToStamp(g, stack[k].wl[j].stamp)
        IN  stack[k].wl[j].stamp > 0 =>
              \A r \in Events(h) : isRead(h, r) => Lab(h, r).rf = Lab(g, r).rf

=============================================================================
