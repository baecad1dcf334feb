--------------------------- MODULE ThreadPoolProofs ---------------------------
(***************************************************************************)
(* Proofs about ThreadPool for every number of workers, every limit on the *)
(* backlog and every tree of items: its tasks are counted, no error is     *)
(* lost, and the drivers together explore everything and nothing twice.    *)
(***************************************************************************)
EXTENDS ThreadPool, TLAPS, FiniteSetTheorems, SequenceTheorems

\* The constructor starts the workers in order: a worker that has not been
\* started is nowhere in its loop.
StartOrder ==
    /\ main = "construct" <=> started < NumWorkers
    /\ \A w \in Workers : w >= started => pc[w] = "unborn"

\* The inductive invariant: without TasksCounted the decrement of remaining
\* could not be shown to stay in Nat.
PoolInv == TypeOK /\ StartOrder /\ TasksCounted

\* Subsets of the workers are finite, so their cardinalities can be compared.
LEMMA WorkerSets ==
  ASSUME NEW S, S \subseteq Workers
  PROVE  IsFiniteSet(S) /\ Cardinality(S) \in Nat
  <1>1. IsFiniteSet(Workers)
    BY PoolAssumption, FS_Interval DEF Workers
  <1> QED BY <1>1, FS_Subset, FS_CardinalityType

\* One worker more, one worker less.
LEMMA WorkerSetPlus ==
  ASSUME NEW S, S \subseteq Workers, NEW w \in Workers, w \notin S
  PROVE  Cardinality(S \cup {w}) = Cardinality(S) + 1
  BY WorkerSets, FS_AddElement

\* A worker that leaves a set makes it smaller by one.
LEMMA WorkerSetMinus ==
  ASSUME NEW S, S \subseteq Workers, NEW w \in S
  PROVE  Cardinality(S \ {w}) = Cardinality(S) - 1
  BY WorkerSets, FS_RemoveElement

\* notify_all() moves no worker into or out of a task.
LEMMA WakeAllFacts ==
  ASSUME TypeOK
  PROVE  /\ WakeAll \in [Workers -> WorkerPC]
         /\ \A w \in Workers : WakeAll[w] = IF pc[w] = "waiting" THEN "woken" ELSE pc[w]
  BY DEF TypeOK, WakeAll, WorkerPC

\* Type correctness and the start order hold initially.
LEMMA PoolInvInit == Init => PoolInv
  <1> SUFFICES ASSUME Init PROVE PoolInv
    OBVIOUS
  <1>1. TypeOK
    <2>1. halted \in BOOLEAN
      BY DEF Init
    <2>2. queue \in Seq(Items)
      BY PoolAssumption DEF Init
    <2>3. pc \in [Workers -> WorkerPC] /\ mtx \in Workers \cup {Free}
      BY DEF Init, WorkerPC
    <2>4. cur \in [Workers -> Items]
      BY PoolAssumption DEF Init
    <2>5. started \in 0 .. NumWorkers /\ remaining \in Nat /\ racy \in Nat
      BY PoolAssumption DEF Init
    <2> QED BY <2>1, <2>2, <2>3, <2>4, <2>5 DEF Init, TypeOK
  <1>2. StartOrder
    BY PoolAssumption DEF Init, StartOrder, Workers
  <1>3. Busy = {} /\ Pushing = {}
    BY DEF Init, Busy, Pushing
  <1>4. TasksCounted
    BY <1>3, FS_EmptySet DEF TasksCounted, Init
  <1> QED BY <1>1, <1>2, <1>4 DEF PoolInv

\* pop_back() removes one element.
LEMMA FrontLength ==
  ASSUME NEW s \in Seq(Items), s # <<>>
  PROVE  Len(SubSeq(s, 1, Len(s) - 1)) = Len(s) - 1
  <1> DEFINE n == Len(s)
  <1>1. n \in Nat /\ n # 0
    OBVIOUS
  <1>2. \A i \in 1 .. n - 1 : s[i] \in Items
    BY <1>1
  <1>3. 1 \in Int /\ n - 1 \in Int
    BY <1>1
  <1>4. Len(SubSeq(s, 1, n - 1)) = IF 1 <= n - 1 THEN (n - 1) - 1 + 1 ELSE 0
    BY <1>2, <1>3, SubSeqProperties
  <1> HIDE DEF n
  <1>5. (IF 1 <= n - 1 THEN (n - 1) - 1 + 1 ELSE 0) = n - 1
    <2>1. CASE n = 1
      BY <2>1
    <2>2. CASE n > 1
      BY <1>1, <2>2
    <2> QED BY <1>1, <2>1, <2>2
  <1> DEFINE front == SubSeq(s, 1, n - 1)
             got   == IF 1 <= n - 1 THEN (n - 1) - 1 + 1 ELSE 0
  <1>6. Len(front) = got /\ got = n - 1
    BY <1>4, <1>5
  <1> HIDE DEF front, got
  <1>7. Len(front) = n - 1
    BY <1>6
  <1> QED BY <1>7 DEF n, front

\* A worker that decrements remaining is busy, so remaining is positive.
LEMMA FinishPositive ==
  ASSUME PoolInv, NEW w \in Workers, pc[w] = "finish"
  PROVE  remaining \in Nat \ {0}
  <1>1. w \in Busy /\ Busy \subseteq Workers /\ Pushing \subseteq Workers
    BY DEF Busy, Pushing
  <1>2. Cardinality(Busy) # 0
    BY <1>1, WorkerSets, FS_EmptySet
  <1>3. Cardinality(Busy) \in Nat /\ Cardinality(Pushing) \in Nat /\ Len(queue) \in Nat
    BY <1>1, WorkerSets DEF PoolInv, TypeOK
  <1> QED BY <1>2, <1>3 DEF PoolInv, TasksCounted

\* shouldHalt_ is only ever set.
LEMMA HaltedStep == [Next]_vars => halted' = halted \/ halted' = TRUE
  BY DEF Next, Main, Worker, Terminated, vars,
         PopTask, PopEmpty, GiveUpOrWait, Reacquire, RunExecution, StopRunning, ReportError, HaltPool, NothingLeft, SubmitCount, SubmitPush, SubmitNotify, FinishTask, SpuriousWakeup, AddWorker, WaitForTasks, DestroyPool, JoinWorkers, TakeItem, OfferItem

\* Every step keeps the types.
LEMMA TypeStep == ASSUME PoolInv, [Next]_vars PROVE TypeOK'
  <1> USE PoolAssumption
  <1>0. TypeOK /\ StartOrder /\ halted' \in BOOLEAN
    BY HaltedStep DEF PoolInv, TypeOK
  <1>w. /\ WakeAll \in [Workers -> WorkerPC]
    BY <1>0, WakeAllFacts
  <1>1. CASE AddWorker
    <2>1. started \in Workers /\ started + 1 \in 0 .. NumWorkers
      BY <1>0, <1>1 DEF AddWorker, TypeOK, StartOrder, Workers
    <2>2. pc' \in [Workers -> WorkerPC]
      BY <1>0, <1>1, <2>1 DEF AddWorker, TypeOK, WorkerPC
    <2> QED BY <1>0, <1>1, <2>1, <2>2 DEF AddWorker, TypeOK
  <1>2. CASE WaitForTasks
    BY <1>0, <1>2 DEF WaitForTasks, TypeOK
  <1>3. CASE DestroyPool
    BY <1>0, <1>3, <1>w DEF DestroyPool, TypeOK
  <1>4. CASE JoinWorkers
    BY <1>0, <1>4 DEF JoinWorkers, TypeOK
  <1>5. ASSUME NEW w \in Workers, PopTask(w) PROVE TypeOK'
    <2>1. Len(queue) \in Nat \ {0} /\ queue[Len(queue)] \in Items
      BY <1>0, <1>5 DEF PopTask, TypeOK
    <2>2. SubSeq(queue, 1, Len(queue) - 1) \in Seq(Items)
      BY <1>0, <2>1 DEF TypeOK
    <2>3. pc' \in [Workers -> WorkerPC]
      BY <1>0, <1>5 DEF PopTask, TypeOK, WorkerPC
    <2> QED BY <1>0, <1>5, <2>1, <2>2, <2>3 DEF PopTask, TypeOK
  <1>6. ASSUME NEW w \in Workers, PopEmpty(w) PROVE TypeOK'
    <2>1. pc' \in [Workers -> WorkerPC]
      BY <1>0, <1>6 DEF PopEmpty, TypeOK, WorkerPC
    <2> QED BY <1>0, <1>6, <2>1 DEF PopEmpty, TypeOK
  <1>7. ASSUME NEW w \in Workers, GiveUpOrWait(w) PROVE TypeOK'
    <2>1. pc' \in [Workers -> WorkerPC]
      BY <1>0, <1>7 DEF GiveUpOrWait, TypeOK, WorkerPC
    <2> QED BY <1>0, <1>7, <2>1 DEF GiveUpOrWait, TypeOK
  <1>8. ASSUME NEW w \in Workers, Reacquire(w) PROVE TypeOK'
    <2>1. pc' \in [Workers -> WorkerPC]
      BY <1>0, <1>8 DEF Reacquire, TypeOK, WorkerPC
    <2> QED BY <1>0, <1>8, <2>1 DEF Reacquire, TypeOK
  <1>9. ASSUME NEW w \in Workers, RunExecution(w) PROVE TypeOK'
    <2>1. pc' \in [Workers -> WorkerPC]
      BY <1>0, <1>9 DEF RunExecution, TypeOK, WorkerPC
    <2> QED BY <1>0, <1>9, <2>1 DEF RunExecution, TypeOK
  <1>10. ASSUME NEW w \in Workers, StopRunning(w) PROVE TypeOK'
    <2>1. pc' \in [Workers -> WorkerPC]
      BY <1>0, <1>10 DEF StopRunning, TypeOK, WorkerPC
    <2> QED BY <1>0, <1>10, <2>1 DEF StopRunning, TypeOK
  <1>11. ASSUME NEW w \in Workers, ReportError(w) PROVE TypeOK'
    <2>1. pc' \in [Workers -> WorkerPC]
      BY <1>0, <1>11 DEF ReportError, TypeOK, WorkerPC
    <2> QED BY <1>0, <1>11, <2>1 DEF ReportError, TypeOK
  <1>12. ASSUME NEW w \in Workers, HaltPool(w) PROVE TypeOK'
    <2>1. pc' \in [Workers -> WorkerPC]
      BY <1>0, <1>w, <1>12 DEF HaltPool, TypeOK, WorkerPC
    <2>2. remaining' \in Nat
      BY <1>0, <1>12 DEF HaltPool, TypeOK
    <2> QED BY <1>0, <1>12, <2>1, <2>2 DEF HaltPool, TypeOK
  <1>13. ASSUME NEW w \in Workers, NothingLeft(w) PROVE TypeOK'
    <2>1. pc' \in [Workers -> WorkerPC]
      BY <1>0, <1>13 DEF NothingLeft, TypeOK, WorkerPC
    <2> QED BY <1>0, <1>13, <2>1 DEF NothingLeft, TypeOK
  <1>14. ASSUME NEW w \in Workers, SubmitCount(w) PROVE TypeOK'
    <2>1. pc' \in [Workers -> WorkerPC]
      BY <1>0, <1>14 DEF SubmitCount, TypeOK, WorkerPC
    <2> QED BY <1>0, <1>14, <2>1 DEF SubmitCount, TypeOK
  <1>15. ASSUME NEW w \in Workers, SubmitPush(w) PROVE TypeOK'
    <2>1. pc' \in [Workers -> WorkerPC]
      BY <1>0, <1>15 DEF SubmitPush, TypeOK, WorkerPC
    <2> QED BY <1>0, <1>15, <2>1 DEF SubmitPush, TypeOK
  <1>16. ASSUME NEW w \in Workers, SubmitNotify(w) PROVE TypeOK'
    <2>1. pc' \in [Workers -> WorkerPC]
      BY <1>0, <1>16 DEF SubmitNotify, TypeOK, WorkerPC
    <2> QED BY <1>0, <1>16, <2>1 DEF SubmitNotify, TypeOK
  <1>17. ASSUME NEW w \in Workers, FinishTask(w) PROVE TypeOK'
    <2>1. pc' \in [Workers -> WorkerPC]
      BY <1>0, <1>w, <1>17 DEF FinishTask, TypeOK, WorkerPC
    <2>2. remaining' \in Nat
      BY <1>0, <1>17, FinishPositive DEF FinishTask, TypeOK
    <2> QED BY <1>0, <1>17, <2>1, <2>2 DEF FinishTask, TypeOK
  <1>18. ASSUME NEW w \in Workers, SpuriousWakeup(w) PROVE TypeOK'
    <2>1. pc' \in [Workers -> WorkerPC]
      BY <1>0, <1>18 DEF SpuriousWakeup, TypeOK, WorkerPC
    <2> QED BY <1>0, <1>18, <2>1 DEF SpuriousWakeup, TypeOK
  <1>19. ASSUME NEW w \in Workers, NEW x \in Items, TakeItem(w, x) PROVE TypeOK'
    <2>1. pc' \in [Workers -> WorkerPC]
      BY <1>0, <1>19 DEF TakeItem, TypeOK, WorkerPC
    <2>2. cur' \in [Workers -> Items] /\ racy' \in Nat
      BY <1>0, <1>19 DEF TakeItem, TypeOK
    <2> QED BY <1>0, <1>19, <2>1, <2>2 DEF TakeItem, TypeOK
  <1>20. ASSUME NEW w \in Workers, NEW x \in Items, OfferItem(w, x) PROVE TypeOK'
    <2>1. pc' \in [Workers -> WorkerPC]
      BY <1>0, <1>20 DEF OfferItem, TypeOK, WorkerPC
    <2>2. cur' \in [Workers -> Items] /\ racy' \in Nat
      BY <1>0, <1>20 DEF OfferItem, TypeOK
    <2> QED BY <1>0, <1>20, <2>1, <2>2 DEF OfferItem, TypeOK
  <1>21. CASE UNCHANGED vars
    BY <1>0, <1>21 DEF TypeOK, vars
  <1> QED BY <1>1, <1>2, <1>3, <1>4, <1>5, <1>6, <1>7, <1>8, <1>9, <1>10, <1>11, <1>12, <1>13, <1>14, <1>15, <1>16, <1>17, <1>18, <1>19, <1>20, <1>21 DEF Next, Main, Worker, Terminated

\* A worker that has not been started takes no step, and only the
\* constructor starts workers.
LEMMA StartStep == ASSUME PoolInv, [Next]_vars PROVE StartOrder'
  <1> USE PoolAssumption
  <1>0. TypeOK /\ StartOrder
    BY DEF PoolInv
  <1>w. \A v \in Workers : pc[v] = "unborn" => WakeAll[v] = "unborn"
    BY <1>0, WakeAllFacts
  <1>u. ASSUME main' = main, started' = started, NEW w \in Workers, pc[w] # "unborn",
               \A v \in Workers : v # w /\ pc[v] = "unborn" => pc'[v] = "unborn"
        PROVE  StartOrder'
    BY <1>0, <1>u DEF StartOrder
  <1>1. CASE AddWorker
    <2>1. started \in Workers
      BY <1>0, <1>1 DEF AddWorker, TypeOK, StartOrder, Workers
    <2>2. ASSUME NEW v \in Workers, v >= started + 1 PROVE pc'[v] = "unborn"
      <3>1. v # started /\ v >= started
        BY <2>1, <2>2 DEF Workers
      <3> QED BY <1>0, <1>1, <2>1, <3>1 DEF AddWorker, TypeOK, StartOrder
    <2>3. main' = "construct" <=> started' < NumWorkers
      BY <1>0, <1>1, <2>1 DEF AddWorker, TypeOK, StartOrder, Workers
    <2> QED BY <1>1, <2>2, <2>3 DEF AddWorker, StartOrder
  <1>2. CASE WaitForTasks
    BY <1>0, <1>2 DEF WaitForTasks, StartOrder, TypeOK
  <1>3. CASE DestroyPool
    BY <1>0, <1>3, <1>w DEF DestroyPool, StartOrder, TypeOK
  <1>4. CASE JoinWorkers
    BY <1>0, <1>4 DEF JoinWorkers, StartOrder, TypeOK
  <1>5. ASSUME NEW w \in Workers, PopTask(w) PROVE StartOrder'
    BY <1>0, <1>5, <1>u DEF PopTask, TypeOK
  <1>6. ASSUME NEW w \in Workers, PopEmpty(w) PROVE StartOrder'
    BY <1>0, <1>6, <1>u DEF PopEmpty, TypeOK
  <1>7. ASSUME NEW w \in Workers, GiveUpOrWait(w) PROVE StartOrder'
    BY <1>0, <1>7, <1>u DEF GiveUpOrWait, TypeOK
  <1>8. ASSUME NEW w \in Workers, Reacquire(w) PROVE StartOrder'
    BY <1>0, <1>8, <1>u DEF Reacquire, TypeOK
  <1>9. ASSUME NEW w \in Workers, RunExecution(w) PROVE StartOrder'
    BY <1>0, <1>9, <1>u DEF RunExecution, TypeOK
  <1>10. ASSUME NEW w \in Workers, StopRunning(w) PROVE StartOrder'
    BY <1>0, <1>10, <1>u DEF StopRunning, TypeOK
  <1>11. ASSUME NEW w \in Workers, ReportError(w) PROVE StartOrder'
    BY <1>0, <1>11, <1>u DEF ReportError, TypeOK
  <1>12. ASSUME NEW w \in Workers, HaltPool(w) PROVE StartOrder'
    BY <1>0, <1>12, <1>u, <1>w, WakeAllFacts DEF HaltPool, TypeOK
  <1>13. ASSUME NEW w \in Workers, NothingLeft(w) PROVE StartOrder'
    BY <1>0, <1>13, <1>u DEF NothingLeft, TypeOK
  <1>14. ASSUME NEW w \in Workers, SubmitCount(w) PROVE StartOrder'
    BY <1>0, <1>14, <1>u DEF SubmitCount, TypeOK
  <1>15. ASSUME NEW w \in Workers, SubmitPush(w) PROVE StartOrder'
    BY <1>0, <1>15, <1>u DEF SubmitPush, TypeOK
  <1>16. ASSUME NEW w \in Workers, SubmitNotify(w) PROVE StartOrder'
    BY <1>0, <1>16, <1>u DEF SubmitNotify, TypeOK
  <1>17. ASSUME NEW w \in Workers, FinishTask(w) PROVE StartOrder'
    BY <1>0, <1>17, <1>u, <1>w, WakeAllFacts DEF FinishTask, TypeOK
  <1>18. ASSUME NEW w \in Workers, SpuriousWakeup(w) PROVE StartOrder'
    BY <1>0, <1>18, <1>u DEF SpuriousWakeup, TypeOK
  <1>19. ASSUME NEW w \in Workers, NEW x \in Items, TakeItem(w, x) PROVE StartOrder'
    BY <1>0, <1>19, <1>u DEF TakeItem, TypeOK
  <1>20. ASSUME NEW w \in Workers, NEW x \in Items, OfferItem(w, x) PROVE StartOrder'
    BY <1>0, <1>20, <1>u DEF OfferItem, TypeOK
  <1>21. CASE UNCHANGED vars
    BY <1>0, <1>21 DEF StartOrder, vars
  <1> QED BY <1>1, <1>2, <1>3, <1>4, <1>5, <1>6, <1>7, <1>8, <1>9, <1>10, <1>11, <1>12, <1>13, <1>14, <1>15, <1>16, <1>17, <1>18, <1>19, <1>20, <1>21 DEF Next, Main, Worker, Terminated

\* A step that moves no task leaves the count alone.
LEMMA CountSame ==
  ASSUME TasksCounted, Busy' = Busy, Pushing' = Pushing, queue' = queue,
         remaining' = remaining
  PROVE  TasksCounted'
  BY DEF TasksCounted

\* The count follows every task through the queue, submit() and the workers.
LEMMA CountStep == ASSUME PoolInv, [Next]_vars PROVE TasksCounted'
  <1> USE PoolAssumption
  <1>0. TypeOK /\ StartOrder /\ TasksCounted
    BY DEF PoolInv
  <1>s. /\ Busy \subseteq Workers /\ Pushing \subseteq Workers
        /\ Cardinality(Busy) \in Nat /\ Cardinality(Pushing) \in Nat
        /\ Len(queue) \in Nat
    BY <1>0, WorkerSets DEF Busy, Pushing, TypeOK
  <1>w. ASSUME pc' = WakeAll PROVE Busy' = Busy /\ Pushing' = Pushing
    BY <1>0, <1>w, WakeAllFacts DEF Busy, Pushing, TypeOK
  <1>1. CASE AddWorker
    <2>1. started \in Workers /\ pc[started] = "unborn"
      BY <1>0, <1>1 DEF AddWorker, TypeOK, StartOrder, Workers
    <2>2. Busy' = Busy /\ Pushing' = Pushing
      BY <1>0, <1>1, <2>1 DEF AddWorker, TypeOK, Busy, Pushing
    <2> QED BY <1>0, <1>1, <2>2, CountSame DEF AddWorker
  <1>2. CASE WaitForTasks \/ JoinWorkers \/ UNCHANGED vars
    <2>1. Busy' = Busy /\ Pushing' = Pushing
      BY <1>2 DEF WaitForTasks, JoinWorkers, vars, Busy, Pushing
    <2> QED BY <1>0, <1>2, <2>1, CountSame DEF WaitForTasks, JoinWorkers, vars
  <1>3. CASE DestroyPool
    <2>1. Busy' = Busy /\ Pushing' = Pushing
      BY <1>3, <1>w DEF DestroyPool
    <2> QED BY <1>0, <1>3, <2>1, CountSame DEF DestroyPool
  <1>4. ASSUME NEW w \in Workers, PopTask(w) PROVE TasksCounted'
    <2>1. w \notin Busy /\ Busy' = Busy \cup {w} /\ Pushing' = Pushing
      BY <1>0, <1>4 DEF PopTask, TypeOK, Busy, Pushing
    <2>2. Cardinality(Busy') = Cardinality(Busy) + 1
      BY <1>s, <2>1, WorkerSetPlus
    <2>3. Len(queue') = Len(queue) - 1
      <3>1. queue \in Seq(Items) /\ queue # <<>>
        BY <1>0, <1>4 DEF PopTask, TypeOK
      <3> QED BY <1>4, <3>1, FrontLength, Zenon DEF PopTask
    <2> QED BY <1>0, <1>4, <1>s, <2>1, <2>2, <2>3 DEF PopTask, TasksCounted
  <1>5. ASSUME NEW w \in Workers, PopEmpty(w) PROVE TasksCounted'
    <2>1. Busy' = Busy /\ Pushing' = Pushing
      BY <1>0, <1>5 DEF PopEmpty, TypeOK, Busy, Pushing
    <2> QED BY <1>0, <1>5, <2>1, CountSame DEF PopEmpty
  <1>6. ASSUME NEW w \in Workers, GiveUpOrWait(w) PROVE TasksCounted'
    <2>1. Busy' = Busy /\ Pushing' = Pushing
      BY <1>0, <1>6 DEF GiveUpOrWait, TypeOK, Busy, Pushing
    <2> QED BY <1>0, <1>6, <2>1, CountSame DEF GiveUpOrWait
  <1>7. ASSUME NEW w \in Workers, Reacquire(w) PROVE TasksCounted'
    <2>1. Busy' = Busy /\ Pushing' = Pushing
      BY <1>0, <1>7 DEF Reacquire, TypeOK, Busy, Pushing
    <2> QED BY <1>0, <1>7, <2>1, CountSame DEF Reacquire
  <1>8. ASSUME NEW w \in Workers, SpuriousWakeup(w) PROVE TasksCounted'
    <2>1. Busy' = Busy /\ Pushing' = Pushing
      BY <1>0, <1>8 DEF SpuriousWakeup, TypeOK, Busy, Pushing
    <2> QED BY <1>0, <1>8, <2>1, CountSame DEF SpuriousWakeup
  <1>9. ASSUME NEW w \in Workers, RunExecution(w) PROVE TasksCounted'
    <2>1. Busy' = Busy /\ Pushing' = Pushing
      BY <1>0, <1>9 DEF RunExecution, TypeOK, Busy, Pushing
    <2> QED BY <1>0, <1>9, <2>1, CountSame DEF RunExecution
  <1>10. ASSUME NEW w \in Workers, StopRunning(w) PROVE TasksCounted'
    <2>1. Busy' = Busy /\ Pushing' = Pushing
      BY <1>0, <1>10 DEF StopRunning, TypeOK, Busy, Pushing
    <2> QED BY <1>0, <1>10, <2>1, CountSame DEF StopRunning
  <1>11. ASSUME NEW w \in Workers, ReportError(w) PROVE TasksCounted'
    <2>1. Busy' = Busy /\ Pushing' = Pushing
      BY <1>0, <1>11 DEF ReportError, TypeOK, Busy, Pushing
    <2> QED BY <1>0, <1>11, <2>1, CountSame DEF ReportError
  <1>12. ASSUME NEW w \in Workers, NothingLeft(w) PROVE TasksCounted'
    <2>1. Busy' = Busy /\ Pushing' = Pushing
      BY <1>0, <1>12 DEF NothingLeft, TypeOK, Busy, Pushing
    <2> QED BY <1>0, <1>12, <2>1, CountSame DEF NothingLeft
  <1>13. ASSUME NEW w \in Workers, HaltPool(w) PROVE TasksCounted'
    <2>1. Busy' = Busy /\ Pushing' = Pushing
      BY <1>0, <1>13, WakeAllFacts DEF HaltPool, TypeOK, Busy, Pushing
    <2> QED BY <1>0, <1>13, <2>1, CountSame DEF HaltPool
  <1>14. ASSUME NEW w \in Workers, NEW x \in Items, TakeItem(w, x) PROVE TasksCounted'
    <2>1. Busy' = Busy /\ Pushing' = Pushing
      BY <1>0, <1>14 DEF TakeItem, TypeOK, Busy, Pushing
    <2> QED BY <1>0, <1>14, <2>1, CountSame DEF TakeItem
  <1>15. ASSUME NEW w \in Workers, NEW x \in Items, OfferItem(w, x) PROVE TasksCounted'
    <2>1. Busy' = Busy /\ Pushing' = Pushing
      BY <1>0, <1>15 DEF OfferItem, TypeOK, Busy, Pushing
    <2> QED BY <1>0, <1>15, <2>1, CountSame DEF OfferItem
  <1>16. ASSUME NEW w \in Workers, SubmitCount(w) PROVE TasksCounted'
    <2>1. w \notin Pushing /\ Pushing' = Pushing \cup {w} /\ Busy' = Busy
      BY <1>0, <1>16 DEF SubmitCount, TypeOK, Busy, Pushing
    <2>2. Cardinality(Pushing') = Cardinality(Pushing) + 1
      BY <1>s, <2>1, WorkerSetPlus
    <2> QED BY <1>0, <1>16, <1>s, <2>1, <2>2 DEF SubmitCount, TasksCounted
  <1>17. ASSUME NEW w \in Workers, SubmitPush(w) PROVE TasksCounted'
    <2>1. w \in Pushing /\ Pushing' = Pushing \ {w} /\ Busy' = Busy
      BY <1>0, <1>17 DEF SubmitPush, TypeOK, Busy, Pushing
    <2>2. Cardinality(Pushing') = Cardinality(Pushing) - 1
      BY <1>s, <2>1, WorkerSetMinus
    <2>3. Len(queue') = Len(queue) + 1
      BY <1>0, <1>17 DEF SubmitPush, TypeOK
    <2> QED BY <1>0, <1>17, <1>s, <2>1, <2>2, <2>3 DEF SubmitPush, TasksCounted
  <1>18. ASSUME NEW w \in Workers, SubmitNotify(w) PROVE TasksCounted'
    <2>1. Busy' = Busy /\ Pushing' = Pushing
      BY <1>0, <1>18 DEF SubmitNotify, TypeOK, Busy, Pushing
    <2> QED BY <1>0, <1>18, <2>1, CountSame DEF SubmitNotify
  <1>19. ASSUME NEW w \in Workers, FinishTask(w) PROVE TasksCounted'
    <2>1. w \in Busy /\ Busy' = Busy \ {w} /\ Pushing' = Pushing
      BY <1>0, <1>19, WakeAllFacts DEF FinishTask, TypeOK, Busy, Pushing
    <2>2. Cardinality(Busy') = Cardinality(Busy) - 1
      BY <1>s, <2>1, WorkerSetMinus
    <2> QED BY <1>0, <1>19, <1>s, <2>1, <2>2 DEF FinishTask, TasksCounted, TypeOK
  <1> QED BY <1>1, <1>2, <1>3, <1>4, <1>5, <1>6, <1>7, <1>8, <1>9, <1>10, <1>11, <1>12, <1>13, <1>14, <1>15, <1>16, <1>17, <1>18, <1>19 DEF Next, Main, Worker, Terminated

\* The invariant of the pool.
THEOREM PoolInvariant == Spec => []PoolInv
  <1>1. PoolInv /\ [Next]_vars => PoolInv'
    BY TypeStep, StartStep, CountStep DEF PoolInv
  <1> QED BY PoolInvInit, <1>1, PTL DEF Spec

\* Every variable keeps its type; in particular the unsigned counter of
\* remaining tasks never wraps below zero.
THEOREM PoolTypes == Spec => []TypeOK
  BY PoolInvariant, PTL DEF PoolInv

\* remainingTasks_ is exact for any number of workers.
THEOREM PoolCountsTasks == Spec => []TasksCounted
  BY PoolInvariant, PTL DEF PoolInv

\* The bound on the backlog survives every step: the only steps that raise
\* its left side are OfferItem, which has just seen fewer than TaskFactor *
\* NumWorkers tasks or raises racy, and SubmitCount, which turns an admitted
\* worker into a task.
LEMMA BacklogStep == ASSUME PoolInv, BacklogBound, [Next]_vars PROVE BacklogBound'
  <1> USE PoolAssumption
  <1>0. TypeOK /\ StartOrder
    BY DEF PoolInv
  <1>s. /\ Admitted \subseteq Workers /\ Cardinality(Admitted) \in Nat
        /\ remaining \in Nat /\ racy \in Nat /\ TaskFactor * NumWorkers \in Nat
    BY <1>0, WorkerSets DEF Admitted, TypeOK
  <1>c. ASSUME Admitted' = Admitted, remaining' = remaining, racy' = racy
        PROVE  BacklogBound'
    BY <1>c DEF BacklogBound
  <1>1. CASE AddWorker
    <2>1. started \in Workers /\ pc[started] = "unborn"
      BY <1>0, <1>1 DEF AddWorker, TypeOK, StartOrder, Workers
    <2>2. Admitted' = Admitted
      BY <1>0, <1>1, <2>1 DEF AddWorker, TypeOK, Admitted
    <2> QED BY <1>1, <1>c, <2>2 DEF AddWorker
  <1>2. CASE WaitForTasks \/ JoinWorkers \/ UNCHANGED vars
    <2>1. Admitted' = Admitted
      BY <1>2 DEF WaitForTasks, JoinWorkers, vars, Admitted
    <2> QED BY <1>2, <1>c, <2>1 DEF WaitForTasks, JoinWorkers, vars
  <1>3. CASE DestroyPool
    <2>1. Admitted' = Admitted
      BY <1>0, <1>3, WakeAllFacts DEF DestroyPool, Admitted, TypeOK
    <2> QED BY <1>3, <1>c, <2>1 DEF DestroyPool
  <1>4. ASSUME NEW w \in Workers, PopTask(w) PROVE BacklogBound'
    <2>1. Admitted' = Admitted
      BY <1>0, <1>4 DEF PopTask, TypeOK, Admitted
    <2> QED BY <1>4, <1>c, <2>1 DEF PopTask
  <1>5. ASSUME NEW w \in Workers, PopEmpty(w) PROVE BacklogBound'
    <2>1. Admitted' = Admitted
      BY <1>0, <1>5 DEF PopEmpty, TypeOK, Admitted
    <2> QED BY <1>5, <1>c, <2>1 DEF PopEmpty
  <1>6. ASSUME NEW w \in Workers, GiveUpOrWait(w) PROVE BacklogBound'
    <2>1. Admitted' = Admitted
      BY <1>0, <1>6 DEF GiveUpOrWait, TypeOK, Admitted
    <2> QED BY <1>6, <1>c, <2>1 DEF GiveUpOrWait
  <1>7. ASSUME NEW w \in Workers, Reacquire(w) PROVE BacklogBound'
    <2>1. Admitted' = Admitted
      BY <1>0, <1>7 DEF Reacquire, TypeOK, Admitted
    <2> QED BY <1>7, <1>c, <2>1 DEF Reacquire
  <1>8. ASSUME NEW w \in Workers, SpuriousWakeup(w) PROVE BacklogBound'
    <2>1. Admitted' = Admitted
      BY <1>0, <1>8 DEF SpuriousWakeup, TypeOK, Admitted
    <2> QED BY <1>8, <1>c, <2>1 DEF SpuriousWakeup
  <1>9. ASSUME NEW w \in Workers, RunExecution(w) PROVE BacklogBound'
    <2>1. Admitted' = Admitted
      BY <1>0, <1>9 DEF RunExecution, TypeOK, Admitted
    <2> QED BY <1>9, <1>c, <2>1 DEF RunExecution
  <1>10. ASSUME NEW w \in Workers, StopRunning(w) PROVE BacklogBound'
    <2>1. Admitted' = Admitted
      BY <1>0, <1>10 DEF StopRunning, TypeOK, Admitted
    <2> QED BY <1>10, <1>c, <2>1 DEF StopRunning
  <1>11. ASSUME NEW w \in Workers, ReportError(w) PROVE BacklogBound'
    <2>1. Admitted' = Admitted
      BY <1>0, <1>11 DEF ReportError, TypeOK, Admitted
    <2> QED BY <1>11, <1>c, <2>1 DEF ReportError
  <1>12. ASSUME NEW w \in Workers, NothingLeft(w) PROVE BacklogBound'
    <2>1. Admitted' = Admitted
      BY <1>0, <1>12 DEF NothingLeft, TypeOK, Admitted
    <2> QED BY <1>12, <1>c, <2>1 DEF NothingLeft
  <1>13. ASSUME NEW w \in Workers, HaltPool(w) PROVE BacklogBound'
    <2>1. Admitted' = Admitted
      BY <1>0, <1>13, WakeAllFacts DEF HaltPool, TypeOK, Admitted
    <2> QED BY <1>13, <1>c, <2>1 DEF HaltPool
  <1>14. ASSUME NEW w \in Workers, SubmitPush(w) PROVE BacklogBound'
    <2>1. Admitted' = Admitted
      BY <1>0, <1>14 DEF SubmitPush, TypeOK, Admitted
    <2> QED BY <1>14, <1>c, <2>1 DEF SubmitPush
  <1>15. ASSUME NEW w \in Workers, SubmitNotify(w) PROVE BacklogBound'
    <2>1. Admitted' = Admitted
      BY <1>0, <1>15 DEF SubmitNotify, TypeOK, Admitted
    <2> QED BY <1>15, <1>c, <2>1 DEF SubmitNotify
  <1>16. ASSUME NEW w \in Workers, NEW x \in Items, TakeItem(w, x) PROVE BacklogBound'
    <2>1. Admitted' = Admitted
      BY <1>0, <1>16 DEF TakeItem, TypeOK, Admitted
    <2> QED BY <1>16, <1>c, <2>1 DEF TakeItem
  <1>17. ASSUME NEW w \in Workers, NEW x \in Items, OfferItem(w, x) PROVE BacklogBound'
    <2>1. CASE x \notin Valid
      <3>1. Admitted' = Admitted
        BY <1>17, <2>1 DEF OfferItem, Admitted
      <3> QED BY <1>17, <1>c, <2>1, <3>1 DEF OfferItem
    <2>2. CASE x \in Valid
      <3>1. w \notin Admitted /\ Admitted' = Admitted \cup {w}
        BY <1>0, <1>17, <2>2 DEF OfferItem, TypeOK, Admitted
      <3>2. Cardinality(Admitted') = Cardinality(Admitted) + 1
        BY <1>s, <3>1, WorkerSetPlus
      <3>3. CASE main = "construct"
        <4>1. remaining' = remaining /\ racy' = racy + 1
          BY <1>17, <2>2, <3>3 DEF OfferItem
        <4> QED BY <1>s, <3>2, <4>1 DEF BacklogBound
      <3>4. CASE main # "construct"
        <4>1. remaining' = remaining /\ racy' = racy /\ remaining < TaskFactor * NumWorkers
          BY <1>17, <2>2, <3>4 DEF OfferItem, PoolIsHungry
        <4>2. Cardinality(Admitted') <= NumWorkers
          <5>1. Admitted' \subseteq Workers
            BY DEF Admitted
          <5>2. Cardinality(Workers) = NumWorkers
            BY FS_Interval DEF Workers
          <5>3. IsFiniteSet(Workers)
            BY WorkerSets
          <5> QED BY <5>1, <5>2, <5>3, FS_Subset
        <4> QED BY <1>s, <3>2, <4>1, <4>2 DEF BacklogBound
      <3> QED BY <3>3, <3>4
    <2> QED BY <2>1, <2>2
  <1>18. ASSUME NEW w \in Workers, SubmitCount(w) PROVE BacklogBound'
    <2>1. w \in Admitted /\ Admitted' = Admitted \ {w}
      BY <1>0, <1>18 DEF SubmitCount, TypeOK, Admitted
    <2>2. Cardinality(Admitted') = Cardinality(Admitted) - 1
      BY <1>s, <2>1, WorkerSetMinus
    <2> QED BY <1>18, <1>s, <2>2 DEF SubmitCount, BacklogBound
  <1>19. ASSUME NEW w \in Workers, FinishTask(w) PROVE BacklogBound'
    <2>1. Admitted' = Admitted
      BY <1>0, <1>19, WakeAllFacts DEF FinishTask, TypeOK, Admitted
    <2>2. remaining' = remaining - 1 /\ racy' = racy
      BY <1>19 DEF FinishTask
    <2> QED BY <1>s, <2>1, <2>2 DEF BacklogBound
  <1> QED BY <1>1, <1>2, <1>3, <1>4, <1>5, <1>6, <1>7, <1>8, <1>9, <1>10, <1>11, <1>12, <1>13, <1>14, <1>15, <1>16, <1>17, <1>18, <1>19 DEF Next, Main, Worker, Terminated

\* The backlog bound of backwardRevisit()'s unlocked test, for any number of
\* workers and any limit.
THEOREM PoolBacklog == Spec => []BacklogBound
  <1>1. Init => BacklogBound
    <2> SUFFICES ASSUME Init PROVE BacklogBound
      OBVIOUS
    <2>1. Admitted = {}
      BY DEF Init, Admitted
    <2>2. Cardinality(Admitted) = 0
      BY <2>1, FS_EmptySet
    <2>3. TaskFactor * NumWorkers \in Nat \ {0}
      BY PoolAssumption
    <2> QED BY PoolAssumption, <2>2, <2>3 DEF Init, BacklogBound
  <1>2. PoolInv /\ BacklogBound /\ [Next]_vars => BacklogBound'
    BY BacklogStep
  <1> QED BY <1>1, <1>2, PoolInvariant, PTL DEF Spec

-----------------------------------------------------------------------------
(* What the drivers of a pool explore together.                            *)

\* Where an item is: with a worker, that ran it, has it in its worklists or
\* is about to run it or to give it away, or in the queue.
Holding == {"run", "submit", "push"}
Live(w) == IF pc[w] \in Holding THEN {cur[w]} ELSE {}
Has(w) == explored[w] \cup todo[w] \cup Live(w)
Queued == {queue[i] : i \in DOMAIN queue}
Explored == UNION {explored[w] : w \in Workers}
Pending == Queued \cup UNION {todo[w] \cup Live(w) : w \in Workers}

-----------------------------------------------------------------------------
(* No error is lost.                                                       *)

Over == {"destroy", "join", "done"}

\* A worker that halts the pool has its error recorded, and verify() leaves
\* waitForTasks() without an error only when no task is left.
ErrorInv ==
    /\ \A w \in Workers : pc[w] = "halt" => w \in failed
    /\ halted /\ main \notin Over => failed # {}
    /\ main \in Over /\ failed = {} => remaining = 0
    /\ \A w \in Workers : explored[w] \cap Buggy # {} /\ pc[w] # "error" => failed # {}

\* When no task is left, no worker is busy and none is queued.
LEMMA NoTask ==
  ASSUME PoolInv, remaining = 0
  PROVE  Busy = {} /\ queue = <<>>
  <1>1. Busy \subseteq Workers /\ Pushing \subseteq Workers
    BY DEF Busy, Pushing
  <1>2. Cardinality(Busy) \in Nat /\ Cardinality(Pushing) \in Nat /\ Len(queue) \in Nat
    BY <1>1, WorkerSets DEF PoolInv, TypeOK
  <1>3. Cardinality(Busy) = 0 /\ Len(queue) = 0
    BY <1>2 DEF PoolInv, TasksCounted
  <1>4. Busy = {}
    BY <1>1, <1>3, WorkerSets, FS_EmptySet
  <1>5. queue = <<>>
    <2>1. queue \in Seq(Items)
      BY DEF PoolInv, TypeOK
    <2> QED BY <1>3, <2>1
  <1> QED BY <1>4, <1>5

\* As long as no error is recorded, a busy worker has not been halted.
LEMMA NotHalted ==
  ASSUME PoolInv, ErrorInv, failed = {}, NEW w \in Busy
  PROVE  ~ isHalting(w)
  <1>1. remaining # 0
    BY NoTask
  <1> QED BY <1>1 DEF ErrorInv, isHalting

\* No error has been found at the start.
LEMMA ErrorInit == Init => ErrorInv
  BY DEF Init, ErrorInv, Over

\* A step of a worker that records nothing new.
LEMMA ErrorStep == ASSUME PoolInv, ErrorInv, [Next]_vars PROVE ErrorInv'
  <1> USE PoolAssumption
  <1>0. TypeOK /\ StartOrder
    BY DEF PoolInv
  <1>q. ASSUME main' = main, halted' = halted, remaining' = remaining, failed' = failed,
               explored' = explored, NEW w \in Workers, pc[w] # "error", pc'[w] # "halt",
               \A v \in Workers : v # w => pc'[v] = pc[v] \/ (pc[v] = "waiting" /\ pc'[v] = "woken")
        PROVE  ErrorInv'
    BY <1>0, <1>q DEF ErrorInv, TypeOK
  <1>1. CASE AddWorker
    <2>1. started \in Workers /\ pc[started] = "unborn"
      BY <1>0, <1>1 DEF AddWorker, TypeOK, StartOrder, Workers
    <2>2. \A v \in Workers : v # started => pc'[v] = pc[v]
      BY <1>0, <1>1 DEF AddWorker, TypeOK
    <2>3. pc'[started] = "pop"
      BY <1>0, <1>1, <2>1 DEF AddWorker, TypeOK
    <2> QED BY <1>0, <1>1, <2>1, <2>2, <2>3 DEF AddWorker, ErrorInv, Over
  <1>2. CASE WaitForTasks
    BY <1>2 DEF WaitForTasks, ErrorInv, Over
  <1>3. CASE DestroyPool
    BY <1>0, <1>3, WakeAllFacts DEF DestroyPool, ErrorInv, Over
  <1>4. CASE JoinWorkers
    BY <1>4 DEF JoinWorkers, ErrorInv, Over
  <1>5. ASSUME NEW w \in Workers, PopTask(w) PROVE ErrorInv'
    BY <1>0, <1>5, <1>q DEF PopTask, TypeOK
  <1>6. ASSUME NEW w \in Workers, PopEmpty(w) PROVE ErrorInv'
    BY <1>0, <1>6, <1>q DEF PopEmpty, TypeOK
  <1>7. ASSUME NEW w \in Workers, GiveUpOrWait(w) PROVE ErrorInv'
    BY <1>0, <1>7, <1>q DEF GiveUpOrWait, TypeOK
  <1>8. ASSUME NEW w \in Workers, Reacquire(w) PROVE ErrorInv'
    BY <1>0, <1>8, <1>q DEF Reacquire, TypeOK
  <1>9. ASSUME NEW w \in Workers, SpuriousWakeup(w) PROVE ErrorInv'
    BY <1>0, <1>9, <1>q DEF SpuriousWakeup, TypeOK
  <1>10. ASSUME NEW w \in Workers, RunExecution(w) PROVE ErrorInv'
    <2>1. \A v \in Workers : v # w => pc'[v] = pc[v] /\ explored'[v] = explored[v]
      BY <1>0, <1>10 DEF RunExecution, TypeOK
    <2>2. /\ pc[w] = "run"
          /\ pc'[w] = IF cur[w] \in Buggy THEN "error" ELSE "next"
          /\ explored'[w] = explored[w] \cup {cur[w]}
      BY <1>0, <1>10 DEF RunExecution, TypeOK
    <2> QED BY <1>10, <2>1, <2>2 DEF RunExecution, ErrorInv
  <1>11. ASSUME NEW w \in Workers, StopRunning(w) PROVE ErrorInv'
    BY <1>0, <1>11, <1>q DEF StopRunning, TypeOK
  <1>12. ASSUME NEW w \in Workers, ReportError(w) PROVE ErrorInv'
    <2>1. \A v \in Workers : v # w => pc'[v] = pc[v]
      BY <1>0, <1>12 DEF ReportError, TypeOK
    <2>2. CASE isHalting(w)
      <3>1. w \in Busy
        BY <1>12 DEF ReportError, Busy
      <3>2. failed # {}
        BY <2>2, <3>1, NotHalted
      <3>3. pc'[w] = "next" /\ failed' = failed
        BY <1>0, <1>12, <2>2 DEF ReportError, TypeOK
      <3> QED BY <1>12, <2>1, <3>2, <3>3 DEF ReportError, ErrorInv
    <2>3. CASE ~ isHalting(w)
      BY <1>0, <1>12, <2>1, <2>3 DEF ReportError, ErrorInv, TypeOK
    <2> QED BY <2>2, <2>3
  <1>13. ASSUME NEW w \in Workers, HaltPool(w) PROVE ErrorInv'
    <2>1. w \in failed /\ failed' = failed
      BY <1>13 DEF HaltPool, ErrorInv
    <2>2. \A v \in Workers : pc'[v] = "halt" => pc[v] = "halt"
      BY <1>0, <1>13, WakeAllFacts DEF HaltPool, TypeOK
    <2> QED BY <2>1, <2>2 DEF ErrorInv
  <1>14. ASSUME NEW w \in Workers, NothingLeft(w) PROVE ErrorInv'
    BY <1>0, <1>14, <1>q DEF NothingLeft, TypeOK
  <1>15. ASSUME NEW w \in Workers, NEW x \in Items, TakeItem(w, x) PROVE ErrorInv'
    BY <1>0, <1>15, <1>q DEF TakeItem, TypeOK
  <1>16. ASSUME NEW w \in Workers, NEW x \in Items, OfferItem(w, x) PROVE ErrorInv'
    BY <1>0, <1>16, <1>q DEF OfferItem, TypeOK
  <1>17. ASSUME NEW w \in Workers, SubmitCount(w) PROVE ErrorInv'
    <2>1. w \in Busy
      BY <1>17 DEF SubmitCount, Busy
    <2>2. remaining # 0
      BY <2>1, NoTask
    <2>3. \A v \in Workers : pc'[v] = pc[v] \/ pc'[v] = "push"
      BY <1>0, <1>17 DEF SubmitCount, TypeOK
    <2>4. \A v \in Workers : pc'[v] # "error" => pc[v] # "error"
      BY <1>0, <1>17 DEF SubmitCount, TypeOK
    <2> QED BY <1>17, <2>2, <2>3, <2>4 DEF SubmitCount, ErrorInv
  <1>18. ASSUME NEW w \in Workers, SubmitPush(w) PROVE ErrorInv'
    BY <1>0, <1>18, <1>q DEF SubmitPush, TypeOK
  <1>19. ASSUME NEW w \in Workers, SubmitNotify(w) PROVE ErrorInv'
    <2>1. pc[w] = "notify" /\ pc'[w] = "next"
      BY <1>0, <1>19 DEF SubmitNotify, TypeOK
    <2>2. \A v \in Workers : v # w => pc'[v] = pc[v] \/ (pc[v] = "waiting" /\ pc'[v] = "woken")
      BY <1>0, <1>19 DEF SubmitNotify, TypeOK
    <2> QED BY <1>19, <1>q, <2>1, <2>2 DEF SubmitNotify
  <1>20. ASSUME NEW w \in Workers, FinishTask(w) PROVE ErrorInv'
    <2>1. w \in Busy
      BY <1>20 DEF FinishTask, Busy
    <2>2. remaining # 0
      BY <2>1, NoTask
    <2>3. \A v \in Workers : pc'[v] # "halt" \/ pc[v] = "halt"
      BY <1>0, <1>20, WakeAllFacts DEF FinishTask, TypeOK
    <2>4. \A v \in Workers : pc'[v] # "error" => pc[v] # "error"
      BY <1>0, <1>20, WakeAllFacts DEF FinishTask, TypeOK
    <2> QED BY <1>20, <2>2, <2>3, <2>4 DEF FinishTask, ErrorInv
  <1>21. CASE UNCHANGED vars
    BY <1>21 DEF vars, ErrorInv
  <1> QED BY <1>1, <1>2, <1>3, <1>4, <1>5, <1>6, <1>7, <1>8, <1>9, <1>10, <1>11, <1>12, <1>13, <1>14, <1>15, <1>16, <1>17, <1>18, <1>19, <1>20, <1>21 DEF Next, Main, Worker, Terminated

\* With an error unrecorded, its driver would still be busy when verify()
\* returns, although no task is left.
LEMMA ErrorKept == ASSUME PoolInv, ErrorInv PROVE ErrorSurvives
  <1> SUFFICES ASSUME main = "done", NEW w \in Workers, explored[w] \cap Buggy # {}, failed = {}
               PROVE  FALSE
    BY DEF ErrorSurvives
  <1>1. pc[w] = "error" /\ remaining = 0
    BY DEF ErrorInv, Over
  <1>2. w \in Busy
    BY <1>1 DEF Busy
  <1> QED BY <1>1, <1>2, NoTask

\* An error found by any driver is in the merged result, whoever halts the
\* pool, and however late the others notice.
THEOREM PoolErrors == Spec => []ErrorSurvives
  <1>1. PoolInv /\ ErrorInv /\ [Next]_vars => ErrorInv'
    BY ErrorStep
  <1>2. PoolInv /\ ErrorInv => ErrorSurvives
    BY ErrorKept
  <1> QED BY <1>1, <1>2, ErrorInit, PoolInvariant, PTL DEF Spec

----------------------------------------------------------------------------
(* Nothing is explored twice.                                              *)

\* Each item is in one place, and is Root or was found by an item that ran.
Found(x) == x = Root \/ \E v \in Workers : \E y \in explored[v] : x \in Revisits[y]

OnceInv ==
    /\ \A v, w \in Workers : v # w => Has(v) \cap Has(w) = {}
    /\ \A w \in Workers : Has(w) \cap Queued = {}
    /\ \A w \in Workers : /\ explored[w] \cap (todo[w] \cup Live(w)) = {}
                          /\ todo[w] \cap Live(w) = {}
    /\ \A i, j \in DOMAIN queue : i # j => queue[i] # queue[j]
    /\ \A w \in Workers : \A x \in Has(w) : Found(x)
    /\ \A x \in Queued : Found(x)

\* Before the exploration, the queue holds Root and no driver has anything.
LEMMA OnceInit == Init => OnceInv
  BY PoolAssumption DEF Init, OnceInv, Found, Has, Live, Holding, Queued

\* A step that runs and queues nothing, and in which each driver only moves
\* what it has from its worklists to its hands, or drops it.
LEMMA OnceKept ==
  ASSUME OnceInv, explored' = explored, queue' = queue,
         \A w \in Workers : /\ todo'[w] \cup Live(w)' \subseteq todo[w] \cup Live(w)
                            /\ todo'[w] \cap Live(w)' = {}
  PROVE  OnceInv'
  <1>1. \A w \in Workers : Has(w)' \subseteq Has(w)
    BY DEF Has
  <1>2. Queued' = Queued /\ \A x : Found(x)' <=> Found(x)
    BY DEF Queued, Found
  <1>3. \A v, w \in Workers : v # w => Has(v)' \cap Has(w)' = {}
    BY <1>1 DEF OnceInv
  <1>4. \A w \in Workers : Has(w)' \cap Queued' = {}
    BY <1>1, <1>2 DEF OnceInv
  <1>5. \A w \in Workers : explored'[w] \cap (todo'[w] \cup Live(w)') = {}
    BY DEF OnceInv
  <1>6. \A w \in Workers : \A x \in Has(w)' : Found(x)'
    BY <1>1, <1>2 DEF OnceInv
  <1>7. \A y \in Queued' : Found(y)'
    BY <1>2 DEF OnceInv
  <1> QED BY <1>3, <1>4, <1>5, <1>6, <1>7 DEF OnceInv

\* In particular a step in which no driver takes anything in hand.
LEMMA OnceIdle ==
  ASSUME OnceInv, explored' = explored, queue' = queue, todo' = todo, cur' = cur,
         \A w \in Workers : pc'[w] \in Holding => pc[w] \in Holding
  PROVE  OnceInv'
  <1>1. \A w \in Workers : Live(w)' \subseteq Live(w)
    BY DEF Live
  <1> QED BY <1>1, OnceKept DEF OnceInv

\* The popped task is no longer queued.
LEMMA OncePop ==
  ASSUME PoolInv, OnceInv, NEW w \in Workers, PopTask(w)
  PROVE  OnceInv'
  <1> DEFINE x == queue[Len(queue)]
  <1>0. TypeOK
    BY DEF PoolInv
  <1>1. /\ queue # <<>> /\ queue \in Seq(Items)
        /\ queue' = SubSeq(queue, 1, Len(queue) - 1)
        /\ explored' = explored
    BY <1>0, <1>0 DEF PopTask, TypeOK
  <1>2. Len(queue) \in Nat \ {0} /\ DOMAIN queue = 1 .. Len(queue)
    BY <1>1
  <1>3. /\ DOMAIN queue' = 1 .. Len(queue) - 1
        /\ \A i \in 1 .. Len(queue) - 1 : queue'[i] = queue[i]
    BY <1>1, <1>2
  <1>4. /\ Queued' \subseteq Queued
        /\ x \in Queued
        /\ x \notin Queued'
        /\ Found(x)
    BY <1>2, <1>3 DEF OnceInv, Queued
  <1>5. /\ Has(w)' = explored[w] \cup {x}
        /\ todo'[w] = {}
        /\ Live(w)' = {x}
    BY <1>0 DEF PopTask, TypeOK, Has, Live, Holding
  <1>6. \A v \in Workers : v # w => /\ Has(v)' = Has(v)
                                    /\ todo'[v] = todo[v]
                                    /\ Live(v)' = Live(v)
    BY <1>0 DEF PopTask, TypeOK, Has, Live, Holding
  <1>7. explored[w] \subseteq Has(w)
    BY DEF Has
  <1>8. \A v \in Workers : x \notin Has(v)
    BY <1>4 DEF OnceInv
  <1>9. \A y : Found(y)' <=> Found(y)
    BY <1>1 DEF Found
  <1>10. \A u, v \in Workers : u # v => Has(u)' \cap Has(v)' = {}
    BY <1>5, <1>6, <1>7, <1>8 DEF OnceInv
  <1>11. \A v \in Workers : Has(v)' \cap Queued' = {}
    BY <1>4, <1>5, <1>6, <1>7 DEF OnceInv
  <1>12. \A v \in Workers : /\ explored'[v] \cap (todo'[v] \cup Live(v)') = {}
                            /\ todo'[v] \cap Live(v)' = {}
    BY <1>1, <1>5, <1>6, <1>7, <1>8 DEF OnceInv
  <1>13. \A i, j \in DOMAIN queue' : i # j => queue'[i] # queue'[j]
    BY <1>2, <1>3 DEF OnceInv
  <1>14. \A v \in Workers : \A y \in Has(v)' : Found(y)'
    BY <1>4, <1>5, <1>6, <1>7, <1>9 DEF OnceInv
  <1>15. \A y \in Queued' : Found(y)'
    BY <1>4, <1>9 DEF OnceInv
  <1> QED BY <1>10, <1>11, <1>12, <1>13, <1>14, <1>15 DEF OnceInv

\* What an item adds has not been found by any other item that ran.
LEMMA OnceRun ==
  ASSUME PoolInv, OnceInv, NEW w \in Workers, RunExecution(w)
  PROVE  OnceInv'
  <1> DEFINE x == cur[w]
             New == Revisits[x]
  <1>0. TypeOK
    BY DEF PoolInv
  <1>1. /\ pc[w] = "run" /\ x \in Items
        /\ queue' = queue /\ Queued' = Queued
        /\ explored'[w] = explored[w] \cup {x}
        /\ todo'[w] = todo[w] \cup New
        /\ Live(w)' = {}
        /\ Live(w) = {x}
    BY <1>0 DEF RunExecution, TypeOK, Live, Holding, Queued
  <1>2. \A v \in Workers : v # w => /\ explored'[v] = explored[v]
                                    /\ todo'[v] = todo[v]
                                    /\ Live(v)' = Live(v)
                                    /\ Has(v)' = Has(v)
    BY <1>0 DEF RunExecution, TypeOK, Has, Live, Holding
  <1>3. Has(w)' = Has(w) \cup New
    BY <1>1 DEF Has
  <1>4. \A v \in Workers : x \notin explored[v]
    BY <1>1 DEF OnceInv, Has
  <1>5. \A v \in Workers : explored[v] \subseteq Items
    BY <1>0 DEF TypeOK
  <1>6. \A y \in New : ~ Found(y)
    BY <1>1, <1>4, <1>5, TreeAssumption DEF Found
  <1>7. \A v \in Workers : New \cap Has(v) = {}
    BY <1>6 DEF OnceInv
  <1>8. New \cap Queued = {}
    BY <1>6 DEF OnceInv
  <1>9. x \in Has(w) /\ explored[w] \subseteq Has(w) /\ todo[w] \subseteq Has(w)
    BY <1>1 DEF Has
  <1>10. \A y : Found(y) => Found(y)'
    BY <1>0, <1>1, <1>2 DEF Found
  <1>11. \A y \in New : Found(y)'
    BY <1>1 DEF Found
  <1>12. \A u, v \in Workers : u # v => Has(u)' \cap Has(v)' = {}
    BY <1>2, <1>3, <1>7 DEF OnceInv
  <1>13. \A v \in Workers : Has(v)' \cap Queued' = {}
    BY <1>1, <1>2, <1>3, <1>8 DEF OnceInv
  <1>14. \A v \in Workers : /\ explored'[v] \cap (todo'[v] \cup Live(v)') = {}
                            /\ todo'[v] \cap Live(v)' = {}
    BY <1>1, <1>2, <1>7, <1>9 DEF OnceInv
  <1>15. \A v \in Workers : \A y \in Has(v)' : Found(y)'
    BY <1>2, <1>3, <1>10, <1>11 DEF OnceInv
  <1>16. \A y \in Queued' : Found(y)'
    BY <1>1, <1>10 DEF OnceInv
  <1> QED BY <1>1, <1>12, <1>13, <1>14, <1>15, <1>16 DEF OnceInv

\* The submitted item leaves the hands of its driver.
LEMMA OncePush ==
  ASSUME PoolInv, OnceInv, NEW w \in Workers, SubmitPush(w)
  PROVE  OnceInv'
  <1> DEFINE x == cur[w]
  <1>0. TypeOK
    BY DEF PoolInv
  <1>1. /\ pc[w] = "push" /\ x \in Items /\ queue \in Seq(Items)
        /\ queue' = Append(queue, x)
        /\ explored' = explored /\ todo' = todo
        /\ Live(w)' = {} /\ Live(w) = {x}
    BY <1>0 DEF SubmitPush, TypeOK, Live, Holding
  <1>2. \A v \in Workers : v # w => Live(v)' = Live(v)
    BY <1>0 DEF SubmitPush, TypeOK, Live, Holding
  <1>3. /\ DOMAIN queue = 1 .. Len(queue) /\ Len(queue) \in Nat
        /\ DOMAIN queue' = 1 .. Len(queue) + 1
        /\ \A i \in 1 .. Len(queue) : queue'[i] = queue[i]
        /\ queue'[Len(queue) + 1] = x
    BY <1>1
  <1>4. Queued' = Queued \cup {x}
    <2>1. \A i \in DOMAIN queue' : i \in DOMAIN queue \/ i = Len(queue) + 1
      BY <1>3
    <2>2. DOMAIN queue \subseteq DOMAIN queue' /\ Len(queue) + 1 \in DOMAIN queue'
      BY <1>3
    <2> QED BY <1>3, <2>1, <2>2 DEF Queued
  <1>5. x \in Has(w) /\ Found(x) /\ x \notin Queued
    BY <1>1 DEF OnceInv, Has
  <1>6. \A v \in Workers : Has(v)' \subseteq Has(v)
    BY <1>1, <1>2 DEF Has
  <1>7. \A v \in Workers : x \notin Has(v)'
    <2>1. \A v \in Workers : v # w => x \notin Has(v)
      BY <1>5 DEF OnceInv
    <2>2. x \notin Has(w)'
      BY <1>1 DEF OnceInv, Has
    <2> QED BY <1>6, <2>1, <2>2
  <1>8. \A y : Found(y)' <=> Found(y)
    BY <1>1 DEF Found
  <1>9. \A u, v \in Workers : u # v => Has(u)' \cap Has(v)' = {}
    BY <1>6 DEF OnceInv
  <1>10. \A v \in Workers : Has(v)' \cap Queued' = {}
    BY <1>4, <1>6, <1>7 DEF OnceInv
  <1>11. \A v \in Workers : /\ explored'[v] \cap (todo'[v] \cup Live(v)') = {}
                            /\ todo'[v] \cap Live(v)' = {}
    BY <1>1, <1>2 DEF OnceInv
  <1>12. \A i \in DOMAIN queue : queue[i] # x
    BY <1>5 DEF Queued
  <1>13. \A i, j \in DOMAIN queue' : i # j => queue'[i] # queue'[j]
    BY <1>3, <1>12 DEF OnceInv
  <1>14. \A v \in Workers : \A y \in Has(v)' : Found(y)'
    BY <1>6, <1>8 DEF OnceInv
  <1>15. \A y \in Queued' : Found(y)'
    BY <1>4, <1>5, <1>8 DEF OnceInv
  <1> QED BY <1>9, <1>10, <1>11, <1>13, <1>14, <1>15 DEF OnceInv

\* Every step keeps each item in one place.
LEMMA OnceStep == ASSUME PoolInv, OnceInv, [Next]_vars PROVE OnceInv'
  <1> USE PoolAssumption
  <1>0. TypeOK /\ StartOrder
    BY DEF PoolInv
  <1>1. CASE AddWorker
    BY <1>0, <1>1, OnceIdle DEF AddWorker, TypeOK, Holding
  <1>2. CASE WaitForTasks
    BY <1>2, OnceIdle DEF WaitForTasks
  <1>3. CASE DestroyPool
    BY <1>0, <1>3, WakeAllFacts, OnceIdle DEF DestroyPool, Holding
  <1>4. CASE JoinWorkers
    BY <1>4, OnceIdle DEF JoinWorkers
  <1>5. ASSUME NEW w \in Workers, PopTask(w) PROVE OnceInv'
    BY <1>5, OncePop
  <1>6. ASSUME NEW w \in Workers, PopEmpty(w) PROVE OnceInv'
    BY <1>0, <1>6, OnceIdle DEF PopEmpty, TypeOK, Holding
  <1>7. ASSUME NEW w \in Workers, GiveUpOrWait(w) PROVE OnceInv'
    BY <1>0, <1>7, OnceIdle DEF GiveUpOrWait, TypeOK, Holding
  <1>8. ASSUME NEW w \in Workers, Reacquire(w) PROVE OnceInv'
    BY <1>0, <1>8, OnceIdle DEF Reacquire, TypeOK, Holding
  <1>9. ASSUME NEW w \in Workers, SpuriousWakeup(w) PROVE OnceInv'
    BY <1>0, <1>9, OnceIdle DEF SpuriousWakeup, TypeOK, Holding
  <1>10. ASSUME NEW w \in Workers, RunExecution(w) PROVE OnceInv'
    BY <1>10, OnceRun
  <1>11. ASSUME NEW w \in Workers, StopRunning(w) PROVE OnceInv'
    BY <1>0, <1>11, OnceIdle DEF StopRunning, TypeOK, Holding
  <1>12. ASSUME NEW w \in Workers, ReportError(w) PROVE OnceInv'
    BY <1>0, <1>12, OnceIdle DEF ReportError, TypeOK, Holding
  <1>13. ASSUME NEW w \in Workers, HaltPool(w) PROVE OnceInv'
    BY <1>0, <1>13, WakeAllFacts, OnceIdle DEF HaltPool, TypeOK, Holding
  <1>14. ASSUME NEW w \in Workers, NothingLeft(w) PROVE OnceInv'
    BY <1>0, <1>14, OnceIdle DEF NothingLeft, TypeOK, Holding
  <1>15. ASSUME NEW w \in Workers, NEW x \in Items, TakeItem(w, x) PROVE OnceInv'
    <2>1. \A v \in Workers : v # w => todo'[v] = todo[v] /\ Live(v)' = Live(v)
      BY <1>0, <1>15 DEF TakeItem, TypeOK, Live, Holding
    <2>2. x \in todo[w] /\ todo'[w] = todo[w] \ {x} /\ Live(w)' \subseteq {x}
      BY <1>0, <1>15 DEF TakeItem, TypeOK, Live, Holding
    <2> QED BY <1>15, <2>1, <2>2, OnceKept DEF TakeItem, OnceInv
  <1>16. ASSUME NEW w \in Workers, NEW x \in Items, OfferItem(w, x) PROVE OnceInv'
    <2>1. \A v \in Workers : v # w => todo'[v] = todo[v] /\ Live(v)' = Live(v)
      BY <1>0, <1>16 DEF OfferItem, TypeOK, Live, Holding
    <2>2. x \in todo[w] /\ todo'[w] = todo[w] \ {x} /\ Live(w)' \subseteq {x}
      BY <1>0, <1>16 DEF OfferItem, TypeOK, Live, Holding
    <2> QED BY <1>16, <2>1, <2>2, OnceKept DEF OfferItem, OnceInv
  <1>17. ASSUME NEW w \in Workers, SubmitCount(w) PROVE OnceInv'
    BY <1>0, <1>17, OnceIdle DEF SubmitCount, TypeOK, Holding
  <1>18. ASSUME NEW w \in Workers, SubmitPush(w) PROVE OnceInv'
    BY <1>18, OncePush
  <1>19. ASSUME NEW w \in Workers, SubmitNotify(w) PROVE OnceInv'
    BY <1>0, <1>19, OnceIdle DEF SubmitNotify, TypeOK, Holding
  <1>20. ASSUME NEW w \in Workers, FinishTask(w) PROVE OnceInv'
    BY <1>0, <1>20, WakeAllFacts, OnceIdle DEF FinishTask, TypeOK, Holding
  <1>21. CASE UNCHANGED vars
    BY <1>21, OnceIdle DEF vars
  <1> QED BY <1>1, <1>2, <1>3, <1>4, <1>5, <1>6, <1>7, <1>8, <1>9, <1>10, <1>11, <1>12, <1>13, <1>14, <1>15, <1>16, <1>17, <1>18, <1>19, <1>20, <1>21 DEF Next, Main, Worker, Terminated

\* An explored item is with its driver, so no other driver has run it and it
\* is not queued.
LEMMA OnceExplored == ASSUME OnceInv PROVE ExploredOnce
  <1>1. \A w \in Workers : explored[w] \subseteq Has(w)
    BY DEF Has
  <1> QED BY <1>1 DEF OnceInv, ExploredOnce, Queued

\* In a tree of items, however its nodes are shared out, no item is run by two
\* drivers: the drivers' counters, added up in verify(), count none twice.
THEOREM PoolExploresOnce == Spec => []ExploredOnce
  <1>1. PoolInv /\ OnceInv /\ [Next]_vars => OnceInv'
    BY OnceStep
  <1>2. OnceInv => ExploredOnce
    BY OnceExplored
  <1> QED BY <1>1, <1>2, OnceInit, PoolInvariant, PTL DEF Spec

----------------------------------------------------------------------------
(* Everything is explored.                                                 *)

\* Only valid items that a sequential run reaches are explored or pending.
SoundInv ==
    /\ \A w \in Workers : /\ explored[w] \subseteq SequentialRun
                          /\ cur[w] \in SequentialRun
                          /\ todo[w] \cap Valid \subseteq SequentialRun
    /\ \A i \in DOMAIN queue : queue[i] \in SequentialRun

\* Unless an error was found, no item is lost: what was found but not run is
\* pending, and an idle driver has nothing in its worklists.
Idle == {"unborn", "pop", "sawEmpty", "waiting", "woken", "finish", "exited"}

LossInv ==
    failed = {} =>
      /\ Root \in Explored \cup Pending
      /\ \A x \in Explored : Revisits[x] \cap Valid \subseteq Explored \cup Pending
      /\ \A w \in Workers : pc[w] \in Idle => todo[w] = {}

\* SequentialRun is the least set that a driver alone would run.
LEMMA SequentialFacts ==
  /\ Root \in SequentialRun
  /\ SequentialRun \subseteq Items
  /\ \A x \in SequentialRun : Revisits[x] \cap Valid \subseteq SequentialRun
  /\ \A S \in SUBSET Items :
        Root \in S /\ (\A x \in S : Revisits[x] \cap Valid \subseteq S) => SequentialRun \subseteq S
  <1>1. Root \in SequentialRun
    BY PoolAssumption DEF SequentialRun
  <1>2. SequentialRun \subseteq Items
    BY DEF SequentialRun
  <1>3. ASSUME NEW x \in SequentialRun, NEW y \in Revisits[x] \cap Valid
        PROVE  y \in SequentialRun
    <2>1. y \in Items
      BY <1>2, PoolAssumption
    <2> QED BY <2>1 DEF SequentialRun
  <1>4. ASSUME NEW S \in SUBSET Items, Root \in S,
               \A x \in S : Revisits[x] \cap Valid \subseteq S
        PROVE  SequentialRun \subseteq S
    BY <1>4 DEF SequentialRun
  <1> QED BY <1>1, <1>2, <1>3, <1>4

\* Before the exploration, Root alone is pending.
LEMMA SoundInit == Init => SoundInv /\ LossInv
  <1> SUFFICES ASSUME Init PROVE SoundInv /\ LossInv
    OBVIOUS
  <1>1. queue = <<Root>> /\ queue[1] = Root /\ DOMAIN queue = {1}
    BY DEF Init
  <1>2. Root \in Queued
    BY <1>1 DEF Queued
  <1>3. Explored = {}
    BY DEF Init, Explored
  <1> QED BY <1>1, <1>2, <1>3, SequentialFacts DEF Init, SoundInv, LossInv, Pending

\* A step that runs nothing and only drops items or moves valid ones.
LEMMA SoundKept ==
  ASSUME SoundInv, explored' = explored, queue' = queue,
         \A w \in Workers : /\ todo'[w] \subseteq todo[w]
                            /\ cur'[w] = cur[w] \/ cur'[w] \in todo[w] \cap Valid
  PROVE  SoundInv'
  BY DEF SoundInv

\* Every step runs and queues only what a sequential run would run.
LEMMA SoundStep == ASSUME PoolInv, SoundInv, [Next]_vars PROVE SoundInv'
  <1>0. TypeOK
    BY DEF PoolInv
  <1>1. CASE AddWorker
    BY <1>1, SoundKept DEF AddWorker
  <1>2. CASE WaitForTasks
    BY <1>2, SoundKept DEF WaitForTasks
  <1>3. CASE DestroyPool
    BY <1>3, SoundKept DEF DestroyPool
  <1>4. CASE JoinWorkers
    BY <1>4, SoundKept DEF JoinWorkers
  <1>5. ASSUME NEW w \in Workers, PopTask(w) PROVE SoundInv'
    <2>1. Len(queue) \in DOMAIN queue
      BY <1>0, <1>5 DEF PopTask, TypeOK
    <2>2. \A i \in DOMAIN queue' : i \in DOMAIN queue /\ queue'[i] = queue[i]
      BY <1>0, <1>5 DEF PopTask, TypeOK
    <2>3. cur'[w] = queue[Len(queue)] /\ todo'[w] = {}
      BY <1>0, <1>5 DEF PopTask, TypeOK
    <2>4. \A v \in Workers : v # w => cur'[v] = cur[v] /\ todo'[v] = todo[v]
      BY <1>0, <1>5 DEF PopTask, TypeOK
    <2> QED BY <1>5, <2>1, <2>2, <2>3, <2>4 DEF PopTask, SoundInv
  <1>6. ASSUME NEW w \in Workers, RunExecution(w) PROVE SoundInv'
    <2>1. /\ explored'[w] = explored[w] \cup {cur[w]}
          /\ todo'[w] = todo[w] \cup Revisits[cur[w]]
      BY <1>0, <1>6 DEF RunExecution, TypeOK
    <2>2. \A v \in Workers : v # w => explored'[v] = explored[v] /\ todo'[v] = todo[v]
      BY <1>0, <1>6 DEF RunExecution, TypeOK
    <2>3. cur[w] \in SequentialRun /\ Revisits[cur[w]] \cap Valid \subseteq SequentialRun
      BY SequentialFacts DEF SoundInv
    <2> QED BY <1>6, <2>1, <2>2, <2>3 DEF RunExecution, SoundInv
  <1>7. ASSUME NEW w \in Workers, SubmitPush(w) PROVE SoundInv'
    <2>1. \A i \in DOMAIN queue' : \/ i \in DOMAIN queue /\ queue'[i] = queue[i]
                                   \/ queue'[i] = cur[w]
      BY <1>0, <1>7 DEF SubmitPush, TypeOK
    <2> QED BY <1>7, <2>1 DEF SubmitPush, SoundInv
  <1>8. ASSUME NEW w \in Workers, NEW x \in Items, TakeItem(w, x) PROVE SoundInv'
    <2>1. \A v \in Workers : /\ todo'[v] \subseteq todo[v]
                             /\ cur'[v] = cur[v] \/ cur'[v] \in todo[v] \cap Valid
      BY <1>0, <1>8 DEF TakeItem, TypeOK
    <2> QED BY <1>8, <2>1, SoundKept DEF TakeItem
  <1>9. ASSUME NEW w \in Workers, NEW x \in Items, OfferItem(w, x) PROVE SoundInv'
    <2>1. \A v \in Workers : /\ todo'[v] \subseteq todo[v]
                             /\ cur'[v] = cur[v] \/ cur'[v] \in todo[v] \cap Valid
      BY <1>0, <1>9 DEF OfferItem, TypeOK
    <2> QED BY <1>9, <2>1, SoundKept DEF OfferItem
  <1>10. ASSUME NEW w \in Workers,
                \/ PopEmpty(w) \/ GiveUpOrWait(w) \/ Reacquire(w) \/ SpuriousWakeup(w)
                \/ StopRunning(w) \/ ReportError(w) \/ HaltPool(w) \/ NothingLeft(w)
                \/ SubmitCount(w) \/ SubmitNotify(w) \/ FinishTask(w)
         PROVE  SoundInv'
    BY <1>10, SoundKept DEF PopEmpty, GiveUpOrWait, Reacquire, SpuriousWakeup, StopRunning,
       ReportError, HaltPool, NothingLeft, SubmitCount, SubmitNotify, FinishTask
  <1>11. CASE UNCHANGED vars
    BY <1>11, SoundKept DEF vars
  <1> QED BY <1>1, <1>2, <1>3, <1>4, <1>5, <1>6, <1>7, <1>8, <1>9, <1>10, <1>11 DEF Next, Main, Worker, Terminated

\* A step that runs nothing, keeps every valid item and leaves no driver idle
\* with work in its worklists.
LEMMA LossKept ==
  ASSUME LossInv, failed = {}, explored' = explored, Pending \cap Valid \subseteq Pending',
         \A w \in Workers : pc'[w] \in Idle => todo'[w] = {}
  PROVE  LossInv'
  <1>1. Explored' = Explored
    BY DEF Explored
  <1>2. Root \in Valid
    BY PoolAssumption
  <1> QED BY <1>1, <1>2 DEF LossInv

\* In particular a step in which every driver keeps what it has in hand.
LEMMA LossIdle ==
  ASSUME LossInv, failed = {}, explored' = explored, queue' = queue, todo' = todo, cur' = cur,
         \A w \in Workers : /\ pc[w] \in Holding => pc'[w] \in Holding
                            /\ pc'[w] \in Idle => pc[w] \in Idle \/ todo[w] = {}
  PROVE  LossInv'
  <1>1. \A w \in Workers : Live(w) \subseteq Live(w)'
    BY DEF Live
  <1>2. Pending \subseteq Pending'
    BY <1>1 DEF Pending, Queued
  <1>3. \A w \in Workers : pc'[w] \in Idle => todo'[w] = {}
    BY DEF LossInv
  <1> QED BY <1>2, <1>3, LossKept

\* A driver takes the item it pops in hand; its worklists were empty.
LEMMA LossPop ==
  ASSUME PoolInv, LossInv, failed = {}, NEW w \in Workers, PopTask(w)
  PROVE  LossInv'
  <1> DEFINE x == queue[Len(queue)]
  <1>0. TypeOK
    BY DEF PoolInv
  <1>1. /\ queue \in Seq(Items) /\ queue # <<>>
        /\ queue' = SubSeq(queue, 1, Len(queue) - 1)
        /\ pc[w] = "pop" /\ pc'[w] = "run" /\ todo'[w] = {} /\ explored' = explored
        /\ Live(w)' = {x} /\ Live(w) = {}
    BY <1>0 DEF PopTask, TypeOK, Live, Holding
  <1>2. \A v \in Workers : v # w => todo'[v] = todo[v] /\ Live(v)' = Live(v) /\ pc'[v] = pc[v]
    BY <1>0 DEF PopTask, TypeOK, Live, Holding
  <1>3. todo[w] = {}
    BY <1>1 DEF LossInv, Idle
  <1>4. Queued \subseteq Queued' \cup {x}
    <2>1. \A i \in DOMAIN queue : i = Len(queue) \/ (i \in DOMAIN queue' /\ queue'[i] = queue[i])
      BY <1>1
    <2> QED BY <2>1 DEF Queued
  <1>5. Pending \subseteq Pending'
    BY <1>1, <1>2, <1>3, <1>4 DEF Pending
  <1>6. \A v \in Workers : pc'[v] \in Idle => todo'[v] = {}
    BY <1>1, <1>2 DEF LossInv, Idle
  <1> QED BY <1>1, <1>5, <1>6, LossKept

\* A driver that runs an item has what it adds in its worklists.
LEMMA LossRun ==
  ASSUME PoolInv, LossInv, failed = {}, NEW w \in Workers, RunExecution(w)
  PROVE  LossInv'
  <1> DEFINE x == cur[w]
  <1>0. TypeOK
    BY DEF PoolInv
  <1>1. /\ queue' = queue /\ Queued' = Queued
        /\ explored'[w] = explored[w] \cup {x}
        /\ todo'[w] = todo[w] \cup Revisits[x]
        /\ Live(w) = {x}
        /\ pc'[w] \in {"error", "next"}
    BY <1>0 DEF RunExecution, TypeOK, Live, Holding, Queued
  <1>2. \A v \in Workers : v # w => /\ explored'[v] = explored[v] /\ todo'[v] = todo[v]
                                    /\ Live(v)' = Live(v) /\ pc'[v] = pc[v]
    BY <1>0 DEF RunExecution, TypeOK, Live, Holding
  <1>3. Explored' = Explored \cup {x}
    <2>1. \A v \in Workers : explored[v] \subseteq explored'[v]
      BY <1>1, <1>2
    <2>2. \A v \in Workers : explored'[v] \subseteq explored[v] \cup {x}
      BY <1>1, <1>2
    <2>3. x \in Explored'
      BY <1>1 DEF Explored
    <2> QED BY <2>1, <2>2, <2>3 DEF Explored
  <1>4. Explored \cup Pending \subseteq Explored' \cup Pending'
    <2>1. \A v \in Workers : todo[v] \cup Live(v) \subseteq todo'[v] \cup Live(v)' \cup {x}
      BY <1>1, <1>2
    <2> QED BY <1>1, <1>3, <2>1 DEF Pending
  <1>5. Revisits[x] \subseteq Pending'
    BY <1>1 DEF Pending
  <1>6. \A v \in Workers : pc'[v] \in Idle => todo'[v] = {}
    BY <1>1, <1>2 DEF LossInv, Idle
  <1> QED BY <1>3, <1>4, <1>5, <1>6 DEF LossInv

\* A driver that takes an item out of its worklists has it in hand, unless the
\* item is not valid.
LEMMA LossTake ==
  ASSUME PoolInv, LossInv, failed = {}, NEW w \in Workers, NEW x \in Items,
         TakeItem(w, x) \/ OfferItem(w, x)
  PROVE  LossInv'
  <1>0. TypeOK
    BY DEF PoolInv
  <1>1. /\ queue' = queue /\ explored' = explored
        /\ todo'[w] = todo[w] \ {x}
        /\ pc[w] = "next" /\ pc'[w] \in {"next", "run", "submit"}
        /\ Live(w) = {}
        /\ x \in Valid => Live(w)' = {x}
    BY <1>0 DEF TakeItem, OfferItem, TypeOK, Live, Holding
  <1>2. \A v \in Workers : v # w => todo'[v] = todo[v] /\ Live(v)' = Live(v) /\ pc'[v] = pc[v]
    BY <1>0 DEF TakeItem, OfferItem, TypeOK, Live, Holding
  <1>3. \A v \in Workers : (todo[v] \cup Live(v)) \cap Valid \subseteq todo'[v] \cup Live(v)'
    BY <1>1, <1>2
  <1>4. Pending \cap Valid \subseteq Pending'
    BY <1>1, <1>3 DEF Pending, Queued
  <1>5. \A v \in Workers : pc'[v] \in Idle => todo'[v] = {}
    BY <1>1, <1>2 DEF LossInv, Idle
  <1> QED BY <1>1, <1>4, <1>5, LossKept

\* A submitted item goes from the hands of its driver into the queue.
LEMMA LossPush ==
  ASSUME PoolInv, LossInv, failed = {}, NEW w \in Workers, SubmitPush(w)
  PROVE  LossInv'
  <1>0. TypeOK
    BY DEF PoolInv
  <1>1. /\ queue \in Seq(Items) /\ cur[w] \in Items /\ queue' = Append(queue, cur[w])
        /\ explored' = explored /\ todo' = todo
        /\ pc'[w] = "notify" /\ Live(w) = {cur[w]}
    BY <1>0 DEF SubmitPush, TypeOK, Live, Holding
  <1>2. \A v \in Workers : v # w => Live(v)' = Live(v) /\ pc'[v] = pc[v]
    BY <1>0 DEF SubmitPush, TypeOK, Live, Holding
  <1>3. Queued \cup {cur[w]} \subseteq Queued'
    <2>1. \A i \in DOMAIN queue : i \in DOMAIN queue' /\ queue'[i] = queue[i]
      BY <1>1
    <2>2. Len(queue) + 1 \in DOMAIN queue' /\ queue'[Len(queue) + 1] = cur[w]
      BY <1>1
    <2> QED BY <2>1, <2>2 DEF Queued
  <1>4. Pending \subseteq Pending'
    BY <1>1, <1>2, <1>3 DEF Pending
  <1>5. \A v \in Workers : pc'[v] \in Idle => todo'[v] = {}
    BY <1>1, <1>2 DEF LossInv, Idle
  <1> QED BY <1>1, <1>4, <1>5, LossKept

\* As long as no error is recorded, every step keeps every item.
LEMMA LossStep == ASSUME PoolInv, ErrorInv, LossInv, [Next]_vars PROVE LossInv'
  <1> USE PoolAssumption
  <1>0. TypeOK /\ StartOrder
    BY DEF PoolInv
  <1> SUFFICES ASSUME failed' = {} PROVE LossInv'
    BY DEF LossInv
  <1>a. failed = {}
    BY DEF Next, Main, Worker, Terminated, vars, AddWorker, WaitForTasks, DestroyPool,
       JoinWorkers, PopTask, PopEmpty, GiveUpOrWait, Reacquire, SpuriousWakeup, RunExecution,
       StopRunning, ReportError, HaltPool, NothingLeft, TakeItem, OfferItem, SubmitCount,
       SubmitPush, SubmitNotify, FinishTask
  <1>b. \A w \in Busy : ~ isHalting(w)
    BY <1>a, NotHalted
  <1>1. CASE AddWorker
    <2>1. started \in Workers /\ pc[started] = "unborn"
      BY <1>0, <1>1 DEF AddWorker, TypeOK, StartOrder, Workers
    <2> QED BY <1>0, <1>a, <1>1, <2>1, LossIdle DEF AddWorker, TypeOK, Holding, Idle
  <1>2. CASE WaitForTasks
    BY <1>a, <1>2, LossIdle DEF WaitForTasks
  <1>3. CASE DestroyPool
    BY <1>0, <1>a, <1>3, WakeAllFacts, LossIdle DEF DestroyPool, Holding, Idle
  <1>4. CASE JoinWorkers
    BY <1>a, <1>4, LossIdle DEF JoinWorkers
  <1>5. ASSUME NEW w \in Workers, PopTask(w) PROVE LossInv'
    BY <1>a, <1>5, LossPop
  <1>6. ASSUME NEW w \in Workers, PopEmpty(w) PROVE LossInv'
    BY <1>0, <1>a, <1>6, LossIdle DEF PopEmpty, TypeOK, Holding, Idle
  <1>7. ASSUME NEW w \in Workers, GiveUpOrWait(w) PROVE LossInv'
    BY <1>0, <1>a, <1>7, LossIdle DEF GiveUpOrWait, TypeOK, Holding, Idle
  <1>8. ASSUME NEW w \in Workers, Reacquire(w) PROVE LossInv'
    BY <1>0, <1>a, <1>8, LossIdle DEF Reacquire, TypeOK, Holding, Idle
  <1>9. ASSUME NEW w \in Workers, SpuriousWakeup(w) PROVE LossInv'
    BY <1>0, <1>a, <1>9, LossIdle DEF SpuriousWakeup, TypeOK, Holding, Idle
  <1>10. ASSUME NEW w \in Workers, RunExecution(w) PROVE LossInv'
    BY <1>a, <1>10, LossRun
  <1>11. ASSUME NEW w \in Workers, StopRunning(w) PROVE LossInv'
    BY <1>b, <1>11 DEF StopRunning, Busy
  <1>12. ASSUME NEW w \in Workers, ReportError(w) PROVE LossInv'
    BY <1>b, <1>12 DEF ReportError, Busy
  <1>13. ASSUME NEW w \in Workers, HaltPool(w) PROVE LossInv'
    BY <1>a, <1>13 DEF HaltPool, ErrorInv
  <1>14. ASSUME NEW w \in Workers, NothingLeft(w) PROVE LossInv'
    BY <1>0, <1>a, <1>14, LossIdle DEF NothingLeft, TypeOK, Holding, Idle
  <1>15. ASSUME NEW w \in Workers, NEW x \in Items, TakeItem(w, x) \/ OfferItem(w, x)
         PROVE LossInv'
    BY <1>a, <1>15, LossTake
  <1>16. ASSUME NEW w \in Workers, SubmitCount(w) PROVE LossInv'
    BY <1>0, <1>a, <1>16, LossIdle DEF SubmitCount, TypeOK, Holding, Idle
  <1>17. ASSUME NEW w \in Workers, SubmitPush(w) PROVE LossInv'
    BY <1>a, <1>17, LossPush
  <1>18. ASSUME NEW w \in Workers, SubmitNotify(w) PROVE LossInv'
    BY <1>0, <1>a, <1>18, LossIdle DEF SubmitNotify, TypeOK, Holding, Idle
  <1>19. ASSUME NEW w \in Workers, FinishTask(w) PROVE LossInv'
    BY <1>0, <1>a, <1>19, WakeAllFacts, LossIdle DEF FinishTask, TypeOK, Holding, Idle
  <1>20. CASE UNCHANGED vars
    BY <1>a, <1>20, LossIdle DEF vars
  <1> QED BY <1>1, <1>2, <1>3, <1>4, <1>5, <1>6, <1>7, <1>8, <1>9, <1>10, <1>11, <1>12, <1>13, <1>14, <1>15, <1>16, <1>17, <1>18, <1>19, <1>20 DEF Next, Main, Worker, Terminated

\* When verify() returns without an error nothing is pending, so what was run
\* is closed under revisits.
LEMMA LossAtEnd == ASSUME PoolInv, ErrorInv, SoundInv, LossInv PROVE CompleteAtEnd
  <1> SUFFICES ASSUME main = "done", failed = {} PROVE Explored = SequentialRun
    BY DEF CompleteAtEnd, Explored
  <1>0. TypeOK
    BY DEF PoolInv
  <1>1. Busy = {} /\ queue = <<>>
    BY NoTask DEF ErrorInv, Over
  <1>2. \A w \in Workers : pc[w] \in Idle
    BY <1>0, <1>1 DEF Busy, TypeOK, WorkerPC, Idle
  <1>3. \A w \in Workers : todo[w] = {} /\ Live(w) = {}
    BY <1>2 DEF LossInv, Live, Holding, Idle
  <1>4. Queued = {}
    BY <1>1 DEF Queued
  <1>5. Pending = {}
    BY <1>3, <1>4 DEF Pending
  <1>6. Root \in Explored /\ \A x \in Explored : Revisits[x] \cap Valid \subseteq Explored
    BY <1>5 DEF LossInv
  <1>7. Explored \subseteq Items
    BY <1>0 DEF Explored, TypeOK
  <1>8. Explored \subseteq SequentialRun
    BY DEF SoundInv, Explored
  <1> QED BY <1>6, <1>7, <1>8, SequentialFacts

\* The drivers of a pool that reports no error have together run exactly what
\* one driver runs, for every number of workers and every schedule.
THEOREM PoolComplete == Spec => []CompleteAtEnd
  <1>1. PoolInv /\ ErrorInv /\ [Next]_vars => ErrorInv'
    BY ErrorStep
  <1>2. PoolInv /\ SoundInv /\ [Next]_vars => SoundInv'
    BY SoundStep
  <1>3. PoolInv /\ ErrorInv /\ LossInv /\ [Next]_vars => LossInv'
    BY LossStep
  <1>4. PoolInv /\ ErrorInv /\ SoundInv /\ LossInv => CompleteAtEnd
    BY LossAtEnd
  <1> QED BY <1>1, <1>2, <1>3, <1>4, ErrorInit, SoundInit, PoolInvariant, PTL DEF Spec

=============================================================================
