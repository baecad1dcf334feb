------------------------------ MODULE ThreadPool ------------------------------
(***************************************************************************)
(* The pool of exploration drivers used when GenMC runs with --nthreads    *)
(* greater than one (Support/ThreadPool.{hpp,cpp}, GenMCDriver::verify and *)
(* the part of GenMCDriver::explore/backwardRevisit that talks to it).     *)
(*                                                                         *)
(* What one driver explores is abstracted to a tree of items: Revisits[x]  *)
(* is what the exploration of x adds to the driver's worklists.  A         *)
(* backward revisit may be handed to the pool instead of being explored by *)
(* the driver that found it.                                               *)
(*                                                                         *)
(* stateMtx_ is an explicit lock.  A critical section is one step when no  *)
(* other thread can tell its steps apart, and several steps in submit(),   *)
(* whose effects are visible through remainingTasks_ and the queue, which  *)
(* are read without stateMtx_.                                             *)
(***************************************************************************)
EXTENDS Naturals, Sequences, FiniteSets

CONSTANTS
    NumWorkers,  \* conf->threads
    TaskFactor,  \* submission stops at TaskFactor * size() tasks (8 in the code)
    Items,       \* everything a sequential run would take from its worklists
    Root,        \* the empty graph the first driver submits
    Revisits,    \* Revisits[x]: the items added while exploring x
    Backward,    \* the items that are backward revisits
    Valid,       \* the items for which isRevisitValid() holds
    Buggy        \* the items whose execution reports an error that halts

ASSUME PoolAssumption ==
    /\ NumWorkers \in Nat \ {0}
    /\ TaskFactor \in Nat \ {0}
    /\ Root \in Items
    /\ Revisits \in [Items -> SUBSET Items]
    /\ Backward \subseteq Items
    /\ Valid \subseteq Items
    /\ Buggy \subseteq Items
    /\ Root \in Valid

\* The exploration is a tree: no item is found twice.
ASSUME TreeAssumption ==
    /\ \A x \in Items : Root \notin Revisits[x]
    /\ \A x, y \in Items : x # y => Revisits[x] \cap Revisits[y] = {}

Workers == 0 .. NumWorkers - 1

\* The owner of stateMtx_ when nobody holds it (workers are numbered from 0).
Free == NumWorkers

VARIABLES
    main,       \* where the thread that called GenMCDriver::verify() is
    started,    \* number of threads the constructor has put in workers_
    pc,         \* where each worker is
    mtx,        \* owner of stateMtx_, or Free
    queue,      \* queue_, last element popped first
    remaining,  \* remainingTasks_
    halted,     \* shouldHalt_ of the pool
    todo,       \* worklists of each driver
    cur,        \* the item each driver works on
    explored,   \* the items each driver has run (its Result)
    failed,     \* drivers with an error status (shouldHalt of the driver)
    racy        \* submissions admitted by a read of workers_.size() that raced

vars == <<main, started, pc, mtx, queue, remaining, halted, todo, cur,
          explored, failed, racy>>

WorkerPC == {"unborn", "pop", "sawEmpty", "waiting", "woken", "run", "error",
             "halt", "next", "submit", "push", "notify", "finish", "exited"}

TypeOK ==
    /\ main \in {"construct", "await", "destroy", "join", "done"}
    /\ started \in 0 .. NumWorkers
    /\ pc \in [Workers -> WorkerPC]
    /\ mtx \in Workers \cup {Free}
    /\ queue \in Seq(Items)
    /\ remaining \in Nat
    /\ halted \in BOOLEAN
    /\ todo \in [Workers -> SUBSET Items]
    /\ cur \in [Workers -> Items]
    /\ explored \in [Workers -> SUBSET Items]
    /\ failed \in SUBSET Workers
    /\ racy \in Nat

-----------------------------------------------------------------------------
(* The thread that runs GenMCDriver::verify()                              *)

\* The constructor has created the first driver and submitted the state
\* extracted from it; no worker thread exists yet.
Init ==
    /\ main = "construct"
    /\ started = 0
    /\ pc = [w \in Workers |-> "unborn"]
    /\ mtx = Free
    /\ queue = <<Root>>
    /\ remaining = 1
    /\ halted = FALSE
    /\ todo = [w \in Workers |-> {}]
    /\ cur = [w \in Workers |-> Root]
    /\ explored = [w \in Workers |-> {}]
    /\ failed = {}
    /\ racy = 0

AddWorker ==
    /\ main = "construct"
    /\ pc' = [pc EXCEPT ![started] = "pop"]
    /\ started' = started + 1
    /\ main' = IF started + 1 = NumWorkers THEN "await" ELSE "construct"
    /\ UNCHANGED <<mtx, queue, remaining, halted, todo, cur, explored, failed, racy>>

\* Defect: waitForTasks() returns at once.
DoNotWait ==
    /\ main = "await"
    /\ main' = "destroy"
    /\ UNCHANGED <<started, pc, mtx, queue, remaining, halted, todo, cur, explored,
                   failed, racy>>

\* waitForTasks() polls two atomics without the lock.
WaitForTasks ==
    /\ main = "await"
    /\ halted \/ remaining = 0
    /\ main' = "destroy"
    /\ UNCHANGED <<started, pc, mtx, queue, remaining, halted, todo, cur, explored,
                   failed, racy>>

WakeAll == [w \in Workers |-> IF pc[w] = "waiting" THEN "woken" ELSE pc[w]]

\* ~ThreadPool() calls halt(); the joiner's destructor runs afterwards.
DestroyPool ==
    /\ main = "destroy"
    /\ mtx = Free
    /\ halted' = TRUE
    /\ pc' = WakeAll
    /\ main' = "join"
    /\ UNCHANGED <<started, mtx, queue, remaining, todo, cur, explored, failed, racy>>

JoinWorkers ==
    /\ main = "join"
    /\ \A w \in Workers : pc[w] = "exited"
    /\ main' = "done"
    /\ UNCHANGED <<started, pc, mtx, queue, remaining, halted, todo, cur, explored,
                   failed, racy>>

-----------------------------------------------------------------------------
(* popTask()                                                               *)

\* Defect: tryPop() forgets pop_back().
PeekTask(w) ==
    /\ pc[w] = "pop"
    /\ queue # <<>>
    /\ cur' = [cur EXCEPT ![w] = queue[Len(queue)]]
    /\ todo' = [todo EXCEPT ![w] = {}]
    /\ pc' = [pc EXCEPT ![w] = "run"]
    /\ UNCHANGED <<main, started, mtx, queue, remaining, halted, explored, failed, racy>>

\* initFromState() drops the driver's old stack and starts from the task.
PopTask(w) ==
    /\ pc[w] = "pop"
    /\ queue # <<>>
    /\ cur' = [cur EXCEPT ![w] = queue[Len(queue)]]
    /\ queue' = SubSeq(queue, 1, Len(queue) - 1)
    /\ todo' = [todo EXCEPT ![w] = {}]
    /\ pc' = [pc EXCEPT ![w] = "run"]
    /\ UNCHANGED <<main, started, mtx, remaining, halted, explored, failed, racy>>

PopEmpty(w) ==
    /\ pc[w] = "pop"
    /\ queue = <<>>
    /\ pc' = [pc EXCEPT ![w] = "sawEmpty"]
    /\ UNCHANGED <<main, started, mtx, queue, remaining, halted, todo, cur, explored,
                   failed, racy>>

\* The queue was read under its own mutex; stateMtx_ is only taken now.
GiveUpOrWait(w) ==
    /\ pc[w] = "sawEmpty"
    /\ mtx = Free
    /\ pc' = [pc EXCEPT ![w] = IF halted \/ remaining = 0 THEN "exited" ELSE "waiting"]
    /\ UNCHANGED <<main, started, mtx, queue, remaining, halted, todo, cur, explored,
                   failed, racy>>

\* stateCV_.wait() has no predicate: it may also return without a notification.
SpuriousWakeup(w) ==
    /\ pc[w] = "waiting"
    /\ pc' = [pc EXCEPT ![w] = "woken"]
    /\ UNCHANGED <<main, started, mtx, queue, remaining, halted, todo, cur, explored,
                   failed, racy>>

Reacquire(w) ==
    /\ pc[w] = "woken"
    /\ mtx = Free
    /\ pc' = [pc EXCEPT ![w] = "pop"]
    /\ UNCHANGED <<main, started, mtx, queue, remaining, halted, todo, cur, explored,
                   failed, racy>>

-----------------------------------------------------------------------------
(* GenMCDriver::run() as the pool sees it                                  *)

isHalting(w) == halted \/ w \in failed

RunExecution(w) ==
    /\ pc[w] = "run"
    /\ ~isHalting(w)
    /\ explored' = [explored EXCEPT ![w] = @ \cup {cur[w]}]
    /\ todo' = [todo EXCEPT ![w] = @ \cup Revisits[cur[w]]]
    /\ pc' = [pc EXCEPT ![w] = IF cur[w] \in Buggy THEN "error" ELSE "next"]
    /\ UNCHANGED <<main, started, mtx, queue, remaining, halted, cur, failed, racy>>

\* Defect: a halted worker takes the next task without decRemainingTasks().
StopWithoutFinish(w) ==
    /\ pc[w] = "run"
    /\ isHalting(w)
    /\ pc' = [pc EXCEPT ![w] = "pop"]
    /\ UNCHANGED <<main, started, mtx, queue, remaining, halted, todo, cur, explored,
                   failed, racy>>

\* explore() tests isHalting() before every execution.
StopRunning(w) ==
    /\ pc[w] = "run"
    /\ isHalting(w)
    /\ pc' = [pc EXCEPT ![w] = "finish"]
    /\ UNCHANGED <<main, started, mtx, queue, remaining, halted, todo, cur, explored,
                   failed, racy>>

\* Defect: the error halts the pool but is not stored in the result.
HaltWithoutStatus(w) ==
    /\ pc[w] = "error"
    /\ pc' = [pc EXCEPT ![w] = IF isHalting(w) THEN "next" ELSE "halt"]
    /\ UNCHANGED <<main, started, mtx, queue, remaining, halted, todo, cur, explored,
                   failed, racy>>

\* reportError() stays silent if the pool has been halted meanwhile.
ReportError(w) ==
    /\ pc[w] = "error"
    /\ IF isHalting(w)
         THEN /\ pc' = [pc EXCEPT ![w] = "next"]
              /\ UNCHANGED failed
         ELSE /\ pc' = [pc EXCEPT ![w] = "halt"]
              /\ failed' = failed \cup {w}
    /\ UNCHANGED <<main, started, mtx, queue, remaining, halted, todo, cur, explored, racy>>

HaltPool(w) ==
    /\ pc[w] = "halt"
    /\ mtx = Free
    /\ halted' = TRUE
    /\ pc' = [WakeAll EXCEPT ![w] = "next"]
    /\ UNCHANGED <<main, started, mtx, queue, remaining, todo, cur, explored, failed, racy>>

\* The worklists and the execution stack are empty: run() returns.
NothingLeft(w) ==
    /\ pc[w] = "next"
    /\ todo[w] = {}
    /\ pc' = [pc EXCEPT ![w] = "finish"]
    /\ UNCHANGED <<main, started, mtx, queue, remaining, halted, todo, cur, explored,
                   failed, racy>>

\* Defect: <= instead of <.
HungryAtLimit(answer) ==
    main # "construct" => answer = (remaining <= TaskFactor * NumWorkers)

\* The test in backwardRevisit().  size() reads workers_ without a lock, so
\* while the constructor still appends to it the test may go either way.
PoolIsHungry(answer) ==
    main # "construct" => answer = (remaining < TaskFactor * NumWorkers)

\* An item is explored by the driver that found it.
TakeItem(w, x) ==
    /\ pc[w] = "next"
    /\ x \in todo[w]
    /\ x \in Backward => PoolIsHungry(FALSE)
    /\ todo' = [todo EXCEPT ![w] = @ \ {x}]
    /\ IF x \in Valid
         THEN /\ cur' = [cur EXCEPT ![w] = x]
              /\ pc' = [pc EXCEPT ![w] = "run"]
         ELSE UNCHANGED <<cur, pc>>
    /\ UNCHANGED <<main, started, mtx, queue, remaining, halted, explored, failed, racy>>

\* A backward revisit is given away if it is valid, and dropped otherwise.
OfferItem(w, x) ==
    /\ pc[w] = "next"
    /\ x \in todo[w] \cap Backward
    /\ PoolIsHungry(TRUE)
    /\ todo' = [todo EXCEPT ![w] = @ \ {x}]
    /\ IF x \in Valid
         THEN /\ cur' = [cur EXCEPT ![w] = x]
              /\ pc' = [pc EXCEPT ![w] = "submit"]
              /\ racy' = IF main = "construct" THEN racy + 1 ELSE racy
         ELSE UNCHANGED <<cur, pc, racy>>
    /\ UNCHANGED <<main, started, mtx, queue, remaining, halted, explored, failed>>

\* Defect: submit() forgets incRemainingTasks().
SubmitUncounted(w) ==
    /\ pc[w] = "submit"
    /\ mtx = Free
    /\ mtx' = w
    /\ pc' = [pc EXCEPT ![w] = "push"]
    /\ UNCHANGED <<main, started, queue, remaining, halted, todo, cur, explored, failed, racy>>

\* submit(): lock, count the task, queue it, wake one worker, unlock.
SubmitCount(w) ==
    /\ pc[w] = "submit"
    /\ mtx = Free
    /\ mtx' = w
    /\ remaining' = remaining + 1
    /\ pc' = [pc EXCEPT ![w] = "push"]
    /\ UNCHANGED <<main, started, queue, halted, todo, cur, explored, failed, racy>>

SubmitPush(w) ==
    /\ pc[w] = "push"
    /\ queue' = Append(queue, cur[w])
    /\ pc' = [pc EXCEPT ![w] = "notify"]
    /\ UNCHANGED <<main, started, mtx, remaining, halted, todo, cur, explored, failed, racy>>

SubmitNotify(w) ==
    /\ pc[w] = "notify"
    /\ mtx' = Free
    /\ \/ \E v \in Workers :
            /\ pc[v] = "waiting"
            /\ pc' = [pc EXCEPT ![v] = "woken", ![w] = "next"]
       \/ /\ \A v \in Workers : pc[v] # "waiting"
          /\ pc' = [pc EXCEPT ![w] = "next"]
    /\ UNCHANGED <<main, started, queue, remaining, halted, todo, cur, explored, failed, racy>>

\* Defect: a completed task is never subtracted.
FinishUncounted(w) ==
    /\ pc[w] = "finish"
    /\ mtx = Free
    /\ pc' = [pc EXCEPT ![w] = "pop"]
    /\ UNCHANGED <<main, started, mtx, queue, remaining, halted, todo, cur, explored,
                   failed, racy>>

\* The end of the loop in addWorker().
FinishTask(w) ==
    /\ pc[w] = "finish"
    /\ mtx = Free
    /\ remaining' = remaining - 1
    /\ pc' = IF remaining' = 0 THEN [WakeAll EXCEPT ![w] = "exited"]
                               ELSE [pc EXCEPT ![w] = "pop"]
    /\ UNCHANGED <<main, started, mtx, queue, halted, todo, cur, explored, failed, racy>>

-----------------------------------------------------------------------------

Main == AddWorker \/ WaitForTasks \/ DestroyPool \/ JoinWorkers

Worker(w) ==
    \/ PopTask(w) \/ PopEmpty(w) \/ GiveUpOrWait(w) \/ Reacquire(w)
    \/ RunExecution(w) \/ StopRunning(w) \/ ReportError(w) \/ HaltPool(w)
    \/ NothingLeft(w) \/ (\E x \in Items : TakeItem(w, x) \/ OfferItem(w, x))
    \/ SubmitCount(w) \/ SubmitPush(w) \/ SubmitNotify(w) \/ FinishTask(w)

\* verify() has returned.
Terminated == main = "done" /\ UNCHANGED vars

Next ==
    \/ Main
    \/ \E w \in Workers : Worker(w) \/ SpuriousWakeup(w)
    \/ Terminated

Spec == Init /\ [][Next]_vars

\* The operating system runs every thread that can run; nothing makes a
\* waiting thread wake up by itself.
FairSpec == Spec /\ WF_vars(Main) /\ \A w \in Workers : WF_vars(Worker(w))
-----------------------------------------------------------------------------
(* Properties                                                              *)

\* The workers that hold a task they have popped and not yet accounted for.
Busy == {w \in Workers : pc[w] \in {"run", "error", "halt", "next", "submit",
                                    "push", "notify", "finish"}}

\* The workers between ++remainingTasks_ and queue_.push() in submit().
Pushing == {w \in Workers : pc[w] = "push"}

\* remainingTasks_ counts the tasks that are queued, being pushed or being
\* run, at every point where the code reads it without the lock: popTask()
\* and waitForTasks() give up at zero, so a task it missed would be lost.
TasksCounted == remaining = Len(queue) + Cardinality(Busy) + Cardinality(Pushing)

\* Workers that passed the test in backwardRevisit() and have not yet counted.
Admitted == {w \in Workers : pc[w] = "submit"}

\* The test "getRemainingTasks() < 8 * size()" and the increment in submit()
\* are not atomic.  The backlog still cannot outgrow the limit by more than
\* one task per worker, apart from the submissions admitted while the
\* constructor was still filling workers_.
BacklogBound ==
    remaining + Cardinality(Admitted) <= TaskFactor * NumWorkers + NumWorkers - 1 + racy

\* Two drivers never run the same item, and no item that has been run is
\* queued, so the sum of the drivers' counters counts no execution twice.
ExploredOnce ==
    /\ \A v, w \in Workers : v # w => explored[v] \cap explored[w] = {}
    /\ \A i \in DOMAIN queue : \A w \in Workers : queue[i] \notin explored[w]
    /\ \A i, j \in DOMAIN queue : i # j => queue[i] # queue[j]

\* The items a single driver explores: the least set that holds Root and the
\* valid revisits of its members.
SequentialRun ==
    LET Closed(S) == Root \in S /\ \A x \in S : Revisits[x] \cap Valid \subseteq S
    IN  {x \in Items : \A S \in SUBSET Items : Closed(S) => x \in S}

\* When verify() merges the results and no driver has reported an error, the
\* drivers together have run what one driver alone would have run.
CompleteAtEnd ==
    main = "done" /\ failed = {} => UNION {explored[w] : w \in Workers} = SequentialRun

\* An error found by a driver is never masked by the halting of the pool:
\* when verify() merges the results at least one of them carries an error.
ErrorSurvives ==
    main = "done" /\ (\E w \in Workers : explored[w] \cap Buggy # {}) => failed # {}

\* verify() returns: no worker waits for ever on stateCV_, although popTask()
\* looks at the queue before it takes stateMtx_.
Termination == <>(main = "done")

\* A worker goes to sleep on stateCV_ only when no submitted task is queued
\* (the purpose the comment on stateCV_ states).
SleepOnlyWhenQueueEmpty ==
    [][\A w \in Workers : pc[w] = "sawEmpty" /\ pc'[w] = "waiting" => queue = <<>>]_vars
===============================================================================
