# Formal models of GenMC / WeaZer and of the PCTWM baseline

TLA+ models of the two testers in this repository. `src/genmc-tool` is GenMC, a stateless model checker
that visits every consistent execution of a concurrent program, extended with a fuzzing mode (WeaZer).
`src/pctwm` is the baseline it is compared with: C11Tester with the PCT scheduler for weak memory, a
runtime that is linked into the program under test and decides which thread runs and which store a load
reads. TLC checks the models on small programs; TLAPS proves, for every number of threads and every program, the main
invariants of the pool of drivers and those of the PCTWM runtime: who runs, who waits, that each wake-up and notification arrives, what is
reported as a deadlock, and that the runtime implements the monitors a program expects.

## 1. The system

| part | code | state | operations | models |
|---|---|---|---|---|
| Exploration driver | `Verification/GenMCDriver.*`, `Revisit.hpp`, `WorkSet.hpp` | execution stack (graph, worklist, choice map), moot flag, thread priorities, read to reschedule, result | one handler per kind of instruction, schedulers, forward / backward / in-place revisits, `explore()` | `Driver`, `Semantics`, `Enumerator` |
| Fuzzing mode | the `--fuzz` half of `explore()`, `recordChoices`, `calcMutationOptions`, `mutate` | corpus of graphs, choice maps, queue of mutated graphs | random runs, record choices, mutate a graph, rerun | `Fuzzer` |
| Bound deciders | `Consistency/*BoundDecider.*` | none | bound of a graph, slack of a partial graph | `Bounds` |
| Execution graph | `ExecutionGraph/*` | labels per thread, reads-from, coherence lists, stamps | add, remove last, cut to a stamp, copy up to a view, renumber stamps | `ExecGraph` |
| Consistency checkers | `Verification/Consistency/{SC,RA}Checker.cpp` | none (queries on a graph) | stores a load may read, places for a store, revisitable loads, `isConsistent`, views | `Consistency` |
| Views | `ADT/View.*`, `VectorClock.hpp` | an index per thread | contains, updateIdx, update | in `ExecGraph` |
| Thread pool | `Support/ThreadPool.*`, `GenMCDriver::verify` | task queue, `remainingTasks_`, `shouldHalt_`, a mutex and a condition variable | submit, popTask, addWorker, waitForTasks, halt, destructor | `ThreadPool` and its two proof modules |
| Interpreter | `Runtime/*` | stacks and memory of the program | runs LLVM code, calls the handlers | only as the programs and `NextOp` in `Driver` |
| PCTWM scheduler and runtime | `src/pctwm/{schedule,model,threads,pthread}.cc`, `mutex.cc`, `execution.cc` | priority vectors, enabled array, change points, per-thread pending operation, mutexes and wait sets, instruction count | switch to a thread, select the next, execute its operation, wake, finish an execution | `PctScheduler`, `PctRuntime`, `Monitor` and the proof modules `Pct...` |
| PCTWM memory model | `execution.cc`, `cyclegraph.cc`, `clockvector.cc`, `action.cc` | trace, clock vectors, modification-order graph | store, load, read-modify-write, fence, join | `CycleGraph`, `C11Model` |
| Estimation; symmetry; barriers, locks, helping CAS; addresses; ADTs; TSO, RC11, IMM; passes, options; PCTWM race detector, snapshots, wrappers | see section 6 | | | no |
| compiler of the baseline | `src/pctwm/llvm` | | vendored third-party code | no |

**How the parts interact.** `verify()` starts one driver, or a pool of drivers. A driver asks the
interpreter to run the program; every shared-memory instruction calls a handler, which adds a label to the
graph on top of the execution stack, asks the consistency checker for the alternatives, takes one and puts
the others in the worklist of that graph. When no thread can go on, the execution is counted, and
`explore()` takes an alternative, cuts the graph back and runs the program again. A backward revisit makes a copy of
the graph, which is run by the same driver or submitted to the pool. The pool shares only its queue, its
counter and its halt flag between drivers. With a bound, the driver also asks a decider whether a graph
exceeds it. In fuzzing mode the same handlers choose at random, `explore()` keeps the graphs of
interesting runs and mutates them, and the worklist only says from where to run again.

In PCTWM one context runs at a time: user threads run up to their next atomic or pthread operation, the model checker's
loop asks the scheduler for a thread, and `take_step` executes its operation, for which `execution.cc` consults
the modification-order graph.

**What is hard here.** The driver is sequential, yet what it does is decided by long series of cuts, copies
and revisits: every step relies on facts about a graph that were true when an alternative was stored, many steps
earlier. Soundness (each execution visited is consistent), completeness (each consistent one is visited) and
optimality (once) are global. The fuzzer reuses the handlers of the search without the guarantees that the search rests on. The pool has the usual hazards of a condition variable and of counters read
without their lock. The PCTWM runtime has a hidden protocol between the enabled array, the pending operations and two flags that
make one thread go next (`chosen_thread`, `read_external_flag`), and its memory model answers questions about
orders from vectors that must be kept up to date. Nothing is persisted, so there is no crash recovery.
`PROJECT.json` lists the hazards with their lines.

**What makes each part correct.**
* Driver: it implements `Enumerator`, i.e. visits every consistent execution exactly once whatever the scheduler
  does, then stops; in a pool the drivers together do; with a bound, every execution within it.
* Fuzzer: what it counts are consistent executions; a mutation is still there when its graph is run.
* Graph: stamps unique, below the next stamp, ordered along threads; coherence lists exactly the stores of each
  location; no read left without a store.
* Consistency: the stores offered to a load, and the places offered to a store, are enough for completeness; the
  newest choice needs no check.
* Views: the view stored with a label is what happens before it now, not what happened before it when it was added.
* Pool: the task counter is exact, each task is run once, errors survive halting, and `verify()` returns.
* PCTWM runtime: mutexes and condition variables behave as monitors, no wake-up is lost, deadlocks are
  reported exactly when they are there, the thread of highest priority runs, each run ends.
* PCTWM memory model: clock vectors are happens-before, the modification order stays acyclic, the rules of C++ coherence and of
  `seq_cst` hold, and a load always finds a store.

## 2. Plan

Done, in this order: the pool and its proofs; graph, checkers and driver against `Semantics` and `Enumerator`;
the PCTWM runtime, with the proof that priorities stay whole; the PCTWM memory model; the fuzzing mode; the bounds; the remaining safety
properties of the pool as theorems; then the PCTWM runtime as theorems: types, schedule, blocking, wake-ups, deadlock reports, notifications, the
refinement of `Monitor`, read-modify-writes, reported cycles and the absence of crashes; that the clock vectors of the PCTWM memory model are happens-before; and the invariant of the driver's search, with
the order of stamps, the exactness of views and the validity of worklists.

Open: barriers, locks and helping CAS as further handlers of `Driver`; symmetry reduction, which needs a reference
definition up to the renaming of threads; the race detector of PCTWM; and, as theorems about the driver, `FrozenReads`, `NoBug` and the pairing of updates in `TypeOK`.

## 3. Modules

`MC...` modules hold the programs and values of the runs only. What extends what:

    ThreadPool <- ThreadPoolProofs        MCThreadPool
    ExecGraph <- Consistency, Bounds <- Driver <- Semantics (INSTANCE Enumerator) <- MCDriver, Fuzzer <- MCFuzzer
    Semantics <- DriverInvariants <- DriverGraphs <- DriverProofs
    PctScheduler <- PctRuntime <- PctProperties (INSTANCE Monitor) <- PctProofs        MCPctRuntime
    PctProofs <- PctChoices <- PctWakeups <- PctMonitor
    CycleGraph <- C11Model <- C11Properties <- C11Proofs        MCC11

### ThreadPool
One thread calls `verify()` (variable `main`), `NumWorkers` workers run the loop of `addWorker()` (`pc`).
`stateMtx_` is the explicit lock `mtx`; `submit()` is three steps because its effects are visible to `popTask()` and
`waitForTasks()`, which read the queue and the counter without that lock. What a driver explores is abstracted to a tree
of items, so the module says which driver runs what, and `Driver` what is run. A waiting worker may wake up
spuriously. Between `AddWorker` and the end of the constructor `workers_.size()` is read while it changes: that race is a
free choice of the value read (`racy` counts the submissions it let through).

### ExecGraph
A graph is a record: `lab` maps events `<<thread, index>>` to labels, `co` lists the stores of each location, `ts` is the next
stamp. Readers lists and the insertion order are derived (inverse of `rf`, order of stamps). A view, an index per
thread in the code, is the downward closed set of events it stands for. `KeepOnly` is what `copyGraphUpTo` and
`cutToStamp` have in common: labels inside a view survive, reads lose a store that goes, coherence loses what
goes. `Among(s, S)` is what remains of a sequence when `remove_if` drops the elements outside `S`, and `LatestFirst` the sort by stamps of
`getRevisitableApproximation`.

### Consistency
The three queries that `SCChecker` and `RAChecker` share, and their `isConsistent` (a search for a cycle for SC, `true` for RA). Accesses
have one strength, so happens-before is the transitive closure of program order, reads-from, creation and join.

### Bounds
The two deciders and the slack that partial graphs are given. A context bound limits the preemptive switches of an interleaving of
the graph, a round bound the rounds of a round-robin scheduler. Views are index vectors here, as in the code, and the recursions of the
deciders are recursive functions on them. What the driver does with the answer (`partialExecutionExceedsBound` at every new label, `fullExecutionExceedsBound`
at the end, and the search for a choice that is valid, which without a bound is never made) is in `Driver`. Options decide what goes together: a bound
means SC, the `ltr` policy and no in-place revisiting (`Config.cpp:430`, `:438`).

### Driver
The variables are those of `GenMCDriver`. One action per kind of instruction (`Load`, `Store`, `FetchAndAdd`,
`CompareAndSwap`, `ThreadCreate`, `ThreadJoin`, `ThreadFinish`, `Block`), each the whole handler with every call it
makes; `rescheduleReads`; `ExecutionEnd` (`handleExecutionEnd`); and the inner loop of `explore()`:
`ForwardRevisit`, `BackwardRevisit`, `PopExecution`; `TakeTask` is a worker that starts from a submitted state. Handlers are operators
from a record `x` (graph, worklist, flags) to the next one and bear the code's names.

The program is a constant: for each thread a sequence of instructions, where an instruction may depend on the last value
read (`need`) and may be the condition of an `assume()` (`blk`, `ann`); `ProgramsAssumption` says what such a sequence may be (in particular, an annotated load is
followed by the `assume()` it is annotated for, as `LoadAnnotationPass` arranges). Running a thread again through labels that are
already in the graph changes nothing, so only new labels are steps. The scheduling policies are `ltr`, `wf`, `wfr` and
`arbitrary`; the last two are a free choice at each step.

With `Parallel`, any backward revisit may be submitted (the test on `getRemainingTasks()` can go either way), and tasks
are run one after the other: drivers share no graphs, so their interleaving is the business of `ThreadPool`.

### Semantics and Enumerator
`Semantics` defines the consistent executions of a program from the axioms of the memory model, by adding labels in all orders
with all choices, with no stamps, views or revisits. For a bound it counts preemptions, or rounds, along all the interleavings of a complete
execution. `Enumerator` is the abstract specification: visit elements of a set, each once, those that are wanted without exception, count them
apart from the others, then be done. `Enumerates == Enum!Spec` is the refinement: the set is the executions of the program,
wanted are those within the bound, what was visited are the keys of the complete executions counted, and the counters are
`result.explored` and `result.boundExceeding`. A second visit of an execution, a visit of an inconsistent one, one counted on the wrong side, or an end with something
missing, are steps that `Enumerator` lacks.

### Fuzzer
`Fuzzer` extends `Semantics` and gives the driver the actions of fuzzing mode: `FuzzLoad` and `FuzzStore` choose at random and
record choices, `FuzzStore` tries every revisit of the new store on a copy, and `FuzzFinishRMW` completes an update; `FuzzEnd` is the end of a run, with the corpus; `Mutate` and
`EndMutation` are the mutation loop; `Rerun` and `Drop` the inner loop of `explore()`. An execution of the stack has a third field, the choice map `cm`.
The options are those of `genmc-tool/luan/flags.sh`: no in-place revisiting, the stack used as a queue or not, mutation by revisiting a recorded choice,
new graphs are interesting. Every random draw is a free choice.

### PctScheduler and PctRuntime
`PctScheduler` is the class `Scheduler`: the enabled array and the two priority vectors, and how they change when a thread is
created, is demoted at a change point, or is asked for. `PctRuntime` is the loop of `ModelChecker` and what `ModelExecution` does
for everything that blocks. The scan over the threads runs each one without a pending operation up to its next (`RunThread`), puts to sleep those that cannot go on (`BlockThread`) and frees the completed ones (`FreeThread`);
`TakeStep` selects a thread and executes its operation with everything that follows from it; `FinishExecution` ends an execution and starts the next. The record `ex` is what a snapshot restores between executions. A program gives each thread a
sequence of operations (`ProgramsOK` says of what kind, that the operations a failed trylock skips are there, and that there is room for the threads created); a list of waiters is a bag, how often each thread is in it, since
the code only ever takes a random or every element; the value of an atomic is any value the memory model might give (that is `C11Model`'s business). Change points, the place of a new
thread and the draws of a suspected livelock are free choices.

### PctProperties and Monitor
`Monitor` is what a user may expect of mutexes and condition variables, with waits that may end at any time; `IsMonitor` says that
`PctRuntime` implements it, the owner being `ex.locked` and a waiter a thread that is in a wait and was not woken.

### CycleGraph and C11Model
`CycleGraph` is the modification-order graph: edges, chains of read-modify-writes, and the clock vector of each node from which
`checkReachable` answers. `C11Model` executes the atomic operations of a test one at a time in any order: `MayReadFrom` and the prior sets (`PriorSet`) give the stores a load may
take, and it may take any of them (`Readable`). The lists the code keeps per thread and location are read off the trace.

### C11Properties
States with relations what the code keeps in vectors: happens-before, modification order by paths, coherence, the rules for `seq_cst`.

## 4. Runs

| run | instance | shows |
|---|---|---|
| `pool_clean` | 2 workers, 7 items, 6 backward revisits | `ExploredOnce`, `CompleteAtEnd`: the pool runs what one driver runs; `BacklogBound`: the unlocked limit overshoots by at most one task per worker; `Termination` |
| `pool_error` | 3 workers, 2 items in error | `TasksCounted`, `ErrorSurvives` |
| `pool_sleep` | 2 workers | **violation**: a worker may go to sleep while a task is queued |
| `driver_sc` | SC; 9 litmus tests (`wf`, handed to the pool), 9 programs of three threads (`wfr`), all 400 programs of 2 threads with 2 accesses (`ltr`); the litmus tests and the programs of three threads also with bounds | `Enumerates`; unchecked choices stay consistent (`Extensible`); `StampsOrdered`, `ViewsExact`, `WorklistsValid`; saved prefixes are final (`FrozenReads`); `Termination` |
| `driver_ra` | RA; the litmus tests with the scheduler free, the programs of three threads and 10 that wait, up to 4 threads | `Enumerates` with in-place revisits, their undoing and rescheduling; no assertion fires (`NoBug`) |
| `fuzz` | RA; 9 programs, 4 executions each, corpus of 1 | counted executions are consistent (`OnlyExecutions`), choices fit their graph, mutations survive, no assertion fires |
| `fuzz_sc` | SC; store buffering, 3 executions | **violation** of `OnlyExecutions` |
| `pct_run` | 648 programs of 3 threads, 2 change points | monitors, wake-ups, deadlock reports, priorities, whole updates |
| `pct_spin` | 4 programs that spin or fail an assertion, 2 executions | `Ends` |
| `pct_late_store` | one program | **violation**: a lock is executed without having been checked |
| `c11` | 1069 litmus tests, up to 4 threads, 2 locations | happens-before, modification order, coherence and `seq_cst` |
| `c11_rmw` | one program of 4 threads | **violation**: a store comes between a read-modify-write and what it read |

**Bounds of the driver's runs.** Two locations and two to four threads with up to five instructions, chosen so that each
mechanism is exercised: a revisit that deletes a revisited load needs three threads; an in-place revisit that is
undone needs a fourth (`Undo`); pending updates need three updates of a location (`Fai3`, `Cas3`). Each property has a
mutant of the model that the same run refutes, so the case it is about does happen. `MaxLabels` in `Semantics`
bounds the reference enumeration; no program reaches it. Context bounds are 0 to 2 and round bounds 0 and 1; with two threads and five
instructions a larger bound excludes nothing.

**Bounds of the other runs.** `TaskFactor` is 1 where the code has 8, to reach the limit of the backlog with few tasks.
`FuzzMax` 4 lets a graph be kept, mutated three ways and rerun while other mutations wait, `RandomPeriod` 2 inserts a random run in between. In `pct_run`, `MaxInstr` 3
puts change points on the first, second or third counted instruction and makes the draws of a suspected livelock start at the sixth; `InstrCap` caps the counter above the last
value at which anything depends on it. The tests of `c11` have at most four operations in a thread; those of
coherence are also run with `params->history` 1, so that the pruning of the stores a load looks back over happens.

**Errors.** In-place revisiting assumes that stores to annotated locations are ordered. A program that breaks this (`Racy`) is
reported and halts the search; `Enumerates` then only asks that nothing wrong or double was visited. After a failed assertion, the next
execution of PCTWM may be handed a thread that does not exist yet (`model.cc:532`); `Ends` counts that crash as an end.

**Fairness.** `ThreadPool!FairSpec`: weak fairness of each thread, that is, the operating system runs threads that can
run, and no fairness of spurious wakeups. `Driver!FairSpec`: the driver keeps taking steps until it is done. A
single sequential loop justifies that; it is weak fairness of `Next`, written without ENABLED. `PctProperties!Fairness`: the runtime takes
steps until it exits; the random draws among enabled threads, made again and again beyond the limit on instructions, reach every thread; and
a spinning thread, which reads at random beyond a higher limit, some time reads the newest value. Both are strong fairness of a random choice that is made
infinitely often.

**Findings.**
* `pool_sleep`: `popTask()` looks at the queue, and only then takes `stateMtx_` and waits without looking again, so a task submitted in
  between does not wake it, while `ThreadPool.hpp:238` says that the condition variable tells of new tasks. `pool_clean` shows that nothing
  is lost: the submitting driver pops the task later. The cost is parallelism.
* `fuzz_sc`: in fuzzing mode every coherent store is recorded as a choice before the inconsistent ones are dropped
  (`GenMCDriver.cpp:2779`), and a mutated graph is not validated. Under SC the fuzzer counts an execution of
  store buffering with both loads reading the initial value. Under RA every coherent store is consistent, and `fuzz` finds nothing.
* `pct_late_store`: a counted store put back at a change point leaves `read_external_flag` set, its own thread is chosen
  again, and its next operation, a lock, is executed on a mutex that another thread holds, while `execution.cc:928` says that it
  has been checked.
* `c11_rmw`: an edge into a read-modify-write is not put before the store that it read, so `checkReachable` does not know that the new
  store precedes that one; a thread that has read the replaced store may later read the new one, and the graph gets a cycle. The comment of
  `addRMWEdge` says that no write can occur in between (`cyclegraph.cc:102`).

**Seen without a run.** These came up while modelling and are written here for the reader of the code:
* Context bounds. The slack of a partial graph is the number of threads with labels minus two, one of the two being a main thread that only
  creates others. When main works too, executions within the bound are lost: with main `create; read x; write x`, the other thread `read x; write x` and bound 1, the slack is 0; the only
  graph from which main's read could be revisited needs two preemptions and is dropped, and one execution is missed. `FaiCas` with bound 1 is another case. Where main only creates
  (`Workers`), the slack is enough, and without it an execution is lost.
* Round bounds. A view starts with index 0, the begin label, so the case of a begin label in `RoundBoundDecider.cpp:29` is never reached, and labels of a thread that is
  created late may be put in a round before its creation: `Late` with bound 1 has an execution beyond the bound that is counted as within. Both pairs are in `MCDriver!Disputed` and excluded from the run.
* `cyclegraph.cc:80`: when main replaces, by a read-modify-write, the value it initialised a location with, `ReachExact` fails (`MCC11!InitReplaced`).
* `GenMCDriver.cpp:737`: `sStamp > sStamp` is always false, so `--prio-back-rev` has no effect. Mutated graphs that needed repair (`:1427`) get no rerun item and are dropped. The
  default size of the corpus is 0, with which nothing is ever mutated.
* `params->history` is 20 in `model.cc:78` but 2 in `main.cc:32`.
* In PCTWM: `pthread.cc:190` and `threads.cc:560` are listed as hazards without a property, since no program of the runs reaches them. `schedule.cc:697`, a waiter that is
  woken when nothing else can run and stays in its list, is reached in `pct_run` by the futex program only: main sleeps, the waiter is forced awake, and its next wait is
  on a new condition variable, so that no notification is lost there. A program that waits again on the same one could lose one; `PctNotifies` shows that nothing else can.
* In PCTWM: a read-modify-write put back at a change point keeps its mark, `read_external_flag`. If it is executed when more than `2 * maxinstr` instructions (of `execution.cc`, `CountLimit` here) are counted, the branch
  that resets the mark (`execution.cc:1466`) is not taken, `action_select_next_thread` returns the highest thread rather than the one that just read, and another thread can run before the store, although the comment there is "Do not split atomic RMW" (`execution.cc:2465`).
  TLC finds it with `MaxInstr` 1, `BugDepth` 1 and the program `<<Main(<<>>), <<Do("rmwr")>>, 12 reads>>`; the programs of `pct_run` count fewer operations. `PctRmwUnsplit` shows that below the limit, and with the provisos of section 5, it does not happen.
* Smaller ones in PCTWM, not listed: the futex map entry (`futex.cc:51`), `assert_user_bug` (`model.cc:249`), a spinning trylock (`execution.cc:1429`), the old capacity
  in `schedule.cc:236`, the local vectors (`execution.cc:803`).

## 5. Proofs

**Pool** (`ThreadPoolProofs`), for every number of workers, every limit and every set of items:

* `PoolTypes`: `Spec => []TypeOK`; among others, the unsigned `remainingTasks_` never goes below zero;
* `PoolCountsTasks`: `Spec => []TasksCounted`;
* `PoolBacklog`: `Spec => []BacklogBound`;
* `PoolErrors`: `Spec => []ErrorSurvives`;
* `PoolComplete`: `Spec => []CompleteAtEnd`;
* `PoolExploresOnce`: `Spec => []ExploredOnce`.

They assume `PoolAssumption` on the constants; `PoolExploresOnce` also `TreeAssumption`, that one driver alone finds no item twice, which is what
`Driver` checks of itself (`Enumerates`).

The inductive invariant of the first is `PoolInv`, the conjunction of `TypeOK`, `StartOrder` (workers are started in order) and `TasksCounted`.
The three need each other: the decrement in `FinishTask` stays in `Nat` only because the finishing worker is counted; the counter is exact only if no worker is in
its loop before it was started. `BacklogBound` is then inductive relative to `PoolInv`: only a worker that passes the test raises its left
side, and it passes only below the limit or by a racy read. `ErrorInv` says that an error found is recorded unless its driver is still reporting it, that a halted pool has one, and that `verify()` leaves `waitForTasks()`
without one only when no task is left. `OnceInv` says that no item is in two places (with two drivers, with one and in the queue, run and still pending) and that each was found by an item that ran, or is the root. For
completeness `SoundInv` says that only items one driver would run are anywhere, and `LossInv` that a revisit of an item that was run is run or pending, and that
a driver without a task has nothing left; when the counter is zero nothing is pending.

**PCT priorities** (`PctProofs`): `PctOnePriority`, `Spec => []OnePriority`, for every program and number of threads, change points and instructions,
from `PctParams`. The inductive invariant `PrioInv` says that change points are what was drawn, that threads that do not exist are disabled, that each thread is in one
slot of the two vectors, and that the slots of change points still to come are empty. The last part is the reason why demotion is safe: the thread
that meets a change point goes to a slot nobody holds, since each change point is met once.

**PCTWM runtime** (`PctProofs`, `PctChoices`, `PctWakeups`, `PctMonitor`), for every number of threads, objects, change points and
instructions and every set of programs, from `PctParams` and `ProgramsOK`:

| theorem | states | proviso |
|---|---|---|
| `PctTypes` | `Spec => []TypeOK` | |
| `PctHighest` | `HighestRuns`: the PCT schedule is kept | |
| `PctCyclesAreReal` | `[]CyclesAreReal`: a reported cycle is one | |
| `PctLocksChecked` | `LocksChecked`: a lock executed is one that can be taken | `ChosenCanGo` |
| `PctJoinsWait` | `JoinsWait`: a join returns after its thread has finished | `ChosenCanGo` |
| `PctNoLostWakeup` | `[]NoLostWakeup` | `ChosenCanGo`, `OwnersRelease` |
| `PctDeadlockReports` | `[]DeadlockReports` | and `NobodyJoinsMain` |
| `PctIsMonitor` | `IsMonitor`: the runtime implements `Monitor` | `ChosenCanGo`, `OwnersRelease` |
| `PctNotifies` | `NotifyReaches`: no notification is spent on nobody | `ChosenCanGo`, `NeverForced` |
| `PctRmwUnsplit` | `[]RmwUnsplit` | `ChosenCanGo`, `NeverForced`, `[]WithinLimit` |
| `PctNoCrash` | `[]NoCrash` | `ChosenCanGo`, `NeverForced`, `NeverStopsChosen` |

*The provisos.* The first three need none. The others fail without theirs, and TLC has the counterexamples; each proviso says what a behaviour does, not what the theorem claims.
* `ChosenCanGo`: a thread that the runtime has already chosen for the next turn (for the mark `read_external_flag` or a change point) and that comes to its next operation comes to
  one that can be executed. The code takes this for granted: `getNextThread` puts the thread to sleep if not, but `chosen_thread` is given the step. It holds in every behaviour of `pct_run`; the programs of
  `pct_spin` break it with joins and the one of `pct_late_store` with a lock, which is the finding of that run. `PctLocksChecked` therefore says that the late store is the only way to it.
* `OwnersRelease`: threads unlock, and wait with, only mutexes they hold, as POSIX requires of programs. It is stated of behaviours because whether a program obeys depends on its schedule; it holds in
  every behaviour of `pct_run` and `pct_spin`. The code does not check it (`process_mutex` sets the owner to nobody).
* `NobodyJoinsMain`, on programs: when main ends, the execution is over and nobody who joins main is woken, so such a thread would be reported as deadlocked.
* `NeverForced`: no waiter is woken because nothing else can run (`schedule.cc:697`), since such a waiter stays in the list of its condition variable. It holds in `pct_spin`; in `pct_run` the futex
  program breaks it, and there TLC checks `NotifyReaches`, `RmwUnsplit` and `NoCrash` all the same.
* `[]WithinLimit`: the execution counts no more than `CountLimit` operations. It holds in `pct_run`. Beyond the limit a load is executed without clearing its mark, and then read-modify-writes can be split (section 4,
  "Seen without a run").
* `NeverStopsChosen`: no execution is stopped, by a failed assertion or a reported cycle, while a thread is chosen. `chosen_thread` is not part of the snapshot, so such a choice is taken into the next
  execution, where the thread may not exist yet. It holds in `pct_run`; the failing assertion of `pct_spin` breaks it and leads to a crash.

*The argument.* Every invariant is a statement about one thread, so that a step has to be followed only for the thread that takes it and for those it wakes; lemmas such as
`RestKept` and `ListKept` carry the others.
* `TypeInv` adds to the types where each thread is in its program (`AtPlace`): what is left of it is a suffix of its code, and its pending operation is the one before. Hence a program that has not finished
  always has a next operation, and `create` meets each of the threads counted in `ProgramsOK` once, which is why there is always room.
* `ChoiceInv` says of the chosen thread that it is the highest one or in one of the cases `HighestRuns` leaves out (an early operation, the second part of an update).
* `LookInv` is what the scan has established: every thread it has passed has an operation or is over, and is disabled if its operation cannot be executed; a completed thread stays completed; a
  sleeping thread waits and is not marked. When a thread is chosen the scan has passed all of them, so it can go on.
* `RestInv` describes a thread between scans: blocked means disabled with an operation, a thread between two operations or marked woken is enabled, and one that waits is in its
  list. `WaitInv` says that whoever is disabled waits for what has not happened; the release of a mutex and the end of a thread are the steps that could break it, and they wake everybody concerned.
  `OverInv` says that nothing is scheduled after the end of an execution.
* For `IsMonitor`, each step that executes an operation is `Acquire`, `Release`, `Wait`, `Wake` or `Restart` of `Monitor`, and all others leave owners and waits as they are or end waits.
* `ListInv` says that a list holds each thread at most once and only while it waits there. So a notification that takes any element of a list wakes somebody.
* `MarkInv` says that a thread marked woken was in a wait or a sleep and is enabled, and that a thread is completed once its last operation is executed. It needs `ListInv`: only a thread that waits is in a list, so no notification
  marks the thread that executes it or one that has ended.
* `RmwInv` says that a thread between the load and the store of a read-modify-write is the chosen one. Executing the load below the limit clears its mark, so `action_select_next_thread` returns the same thread; a
  store that is pending is not new, so it is never put back; and by `MarkInv` the thread is not marked, so it is not resumed in place of its store.
* `GoesInv` says that a chosen thread exists and is enabled, and that none is chosen when an execution ends. By `LookInv` and `MarkInv` an enabled thread has an operation to execute, so
  `take_step` is never given nobody.

* `CycleInv` says that a reported cycle is a ring of threads, each waiting for the next, and that completed threads have nothing to execute. The walk of `is_waiting_on` follows the pending operations, so it repeats itself after at most as
  many steps as there are threads (least counterexamples instead of induction over its length), and when it is back at its start those it passed are a ring (`CycleOf`). After a report no operation is executed any more,
  so the ring stays until the execution is reset.

**PCTWM memory model** (`C11Proofs`), for every number of threads and locations, every program and whatever the loads read: `C11HbExact`, `Spec => []HbExact`. The only assumption is `C11Assumption`: there is a
main thread and at least one location, and locations are finitely many. Programs may be anything; even the modification-order graph plays no part, since whichever stores it lets a load take, the vectors are exact.
* The inductive invariant `Ready` has two parts. `TraceInv` is about the trace: loads read earlier actions, every clock vector counts its own action and none that comes later (`OwnCounted`), and it covers exactly what is directly before its action and what the
  vectors of those cover (`StepByStep`). `AcqInv` says that `acq_fence_cv` of a thread stands for the release operations (with all before them) of the stores its loads have read.
* `StandsFor(A, c, S)`, the vector `c` covers the actions of `S`, those before them and nothing else, is what every lemma is about: for the last action of a thread (`ParentStands`, which needs that the actions of one thread are
  before each other), for a vector with one action more (`FreshStands`), for `get_hb_from_write` (`HbStandsForSide`, an induction along release sequences, in which read-modify-writes hand on what they read), and for a `merge` of two (`StandsForBoth`).
* `TraceGrows` then says that a new action keeps `TraceInv` if its vector stands for what is directly before it, whatever the kind of action; the actions of the model differ in what they merge (`PlainStep`, `ReadStep`, `MergeStep`).
* `HbBefore` and the release sequences are recursive functions along the trace. They are unique because each refers to earlier actions only (least counterexamples, lemma `Least`), and `StepByStep` says that the vectors are one such function.

**Exploration driver** (`DriverInvariants` defines, `DriverGraphs` and `DriverProofs` prove), for every set of programs, every policy, bound and either memory model, with revisits handed to the pool or not, from
`ProgramsAssumption`, `DriverAssumption` and the assumptions on the constants of the other modules:

* `DriverInvariant`: `Spec => []GoodOrBug`, the inductive invariant;
* `StampsStayOrdered`: `Spec => [](NoBug => StampsOrdered)`;
* `ViewsStayExact`: `Spec => [](NoBug => ViewsExact)`;
* `WorklistsStayValid`: `Spec => [](NoBug => WorklistsValid)`.

*Why `NoBug`.* A failed `BUG_ON` aborts the program, so nothing can be said of what comes after one; in the model `bug` is set and the search goes on (the join of a thread without labels, where the code would read past the
end of a list, counts as one too). That none fails is what `NoBug` says, which TLC checks.

*The argument.* `GoodOrBug` is `bug \/ DriverInv`, where `DriverInv` says of every graph on the stack or in the pool `GraphInv`, of every worklist item `ItemOK`, and of the fields that nothing runs after an error.
TLC has checked it on the programs of `driver_ra` and `driver_sc` before the proof.
* The order of stamps alone is not inductive. A cut removes the labels after a stamp, which leaves gaps in a thread unless stamps follow program order; a copy for a backward revisit keeps the labels before a stamp and the
  prefix of a store, which may be a hole in a thread unless views are closed under program order (`ViewShape`); and a kept load that lost the store it reads would dangle for ever unless it is the last label of its thread, because a view
  that holds a load also holds its store (`ViewPast`) and a blocked label comes after the store its load reads (`Blocked`).
* That views are exact (`Exact`, a part of `Synced`) means that nothing a view was made from changes while the label with the view stays: what its predecessor reads, begins from or joins. A load that is made to read another store has no
  successor (`FollowedRead`). The end of a joined thread stays its end, since nothing comes after it (`BeginEnd`), and whatever keeps a join keeps that end as well: it is older, for a cut to a stamp, and in every view that has the join, for
  a copy (`Joined`). A begin label synchronises with the create label it names. `ViewBeforeSame` puts this together for reworked graphs, `InsertSynced` for new labels.
* `Reworked(g, h)` is what cuts, copies, renumbering, removed blocks and repaired reads have in common: `h` has some of the labels of `g`, with new stamps in the old order, and only loads at the end of their threads read something else.
  `ReworkedInv`: it keeps `GraphInv`. `InsertInv` does the same for a new label, given that it and its view fit (`LabelFits`, `ViewFits`; `ViewBeforeFits` for `updateMMViews`). Each handler is then a chain of these.
* For worklists, `KeptUpTo(g, h, st)` says that the loads and stores with stamps up to `st` keep their labels and stamps and stay in coherence. Handlers keep them all (`Keeps`); the cut before an item is taken keeps those up to its stamp, which is
  the largest in the worklist (`NextItemFacts`), so the other items survive it (`RestrictKeeps`, `ItemKept`).
* `Among` is defined by recursion along a sequence; `AmongEmbeds` describes its result (what is in the set, in order, each once) by least counterexamples instead of induction.
* A handler that reports an error may leave a load that reads nothing (`checkIPRValidity` stops before the choice is made), so `FrameOK` asks for `NoneDangles` only without an error.

**Only model-checked**: liveness (`Termination`, `Ends`), which rests on fairness and ENABLED; the refinement of `Enumerator`, whose right-hand side is an enumeration by induction over executions; of the driver also
`Extensible`, `NoBug` and `TypeOK`, which need that the graph stays consistent through the revisits and that updates stay paired, hence the argument for the maximality of extensions; `FrozenReads`, which follows a load through all later
revisits; the properties of fuzzing mode, whose steps `DriverProofs` does not treat; and of the PCTWM memory model all but `HbExact`. `MoConsistent`, `ReachExact` and with them `Coherent` are not true of every program (section 4: `c11_rmw` and `InitReplaced`), so TLC checks them on
the tests where the graph stays right; `ScRules` and `NeverStuck` rest on the graph as well.

## 6. What is left out

* In the driver: barriers, LAPOR locks, helping, allocation and free, fences, persistency, spinloop detection, symmetry, data races of non-atomic accesses,
  replay of errors, and the cases of the bound deciders for locks and barriers. Those handlers are not taken by the programs modelled.
* Dependency-tracking models (`DepExecutionGraph`, `DepView`) and the checkers generated for TSO, RC11 and IMM. The bit vector of file descriptors and its
  resizing (`GenMCDriver.cpp:246`).
* Fuzzing: the trie of value sequences, weights of choices other than zero, interestingness other than new graphs, the policies of `--add-max` other than never, trials
  skipped for `--num-mutation`, and the choices recorded for stores, which no mutation uses. Estimation mode is floating-point statistics.
* The interpreter, static passes, output and options; the debugging histogram of bounds.
* PCTWM: the version without PCT, epoll, pipes and thread-local storage, the race detector, the snapshots, and the local vectors and bags of the
  local-read heuristic, which only narrow the stores a load may take.
* `src/pctwm/llvm` is vendored: a copy of LLVM of more than two million lines, and nearly all of the repository. The models cover the testers' own code, so as a share of the whole
  repository they cover little.
