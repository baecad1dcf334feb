----------------------------- MODULE PctRuntime -----------------------------
(***************************************************************************)
(* One pctwm process: the loop of ModelChecker (model.cc) that lets user   *)
(* threads run up to their next operation, picks the thread that goes on   *)
(* and executes its operation, with what ModelExecution does for mutexes,  *)
(* condition variables, sleeps, thread creation and joins (execution.cc).  *)
(* Exactly one context runs at any time: what interleaves is the user's    *)
(* threads, one operation at a time, in the order the runtime decides.     *)
(*                                                                         *)
(* ex is everything the snapshot restores between two executions; chosen,  *)
(* scan and nexec belong to ModelChecker, which lives outside it.          *)
(*                                                                         *)
(* A user program is a sequence of operations per thread, see Op.  The     *)
(* flag is its one plain variable; condition waits and spins repeat until  *)
(* it is set.  Values of atomics are left to the memory model: a load      *)
(* returns anything the program may have written so far.                   *)
(***************************************************************************)
EXTENDS PctScheduler, SequencesExt

CONSTANTS
  Programs,    \* the user programs: what each thread does from start to finish
  Objects,     \* the mutexes and condition variables of the program
  Recursive,   \* the mutexes of type PTHREAD_MUTEX_RECURSIVE
  MaxExecs     \* params.maxexecutions

(* A futex wait makes its own mutex and condition variable: the object     *)
(* with the number of the thread.                                          *)
ASSUME RuntimeParams ==
  /\ Objects \cap Threads = {} /\ Objects \subseteq Nat \ {0}
  /\ Recursive \subseteq Objects
  /\ MaxExecs \in Nat \ {0}

(* The operations of a program.  It creates no more threads than the bound  *)
(* on them, and what it skips when a trylock fails lies before its end.     *)
UserKinds == {"exit", "create", "join", "lock", "unlock", "trylock", "wait", "timedwait",
              "notify_one", "notify_all", "futexwait", "futexwake", "sleep", "yield", "store",
              "relstore", "scstore", "fence", "read", "spin", "rmwr", "assert"}
UserOps == [k : UserKinds, x : Nat, y : Nat, n : Nat, sets : BOOLEAN, ext : {FALSE}]
FitsObjects(o) ==
  /\ o.k \in {"lock", "unlock", "trylock", "notify_one", "notify_all"} => o.x \in Objects
  /\ o.k \in {"wait", "timedwait"} => o.x \in Objects /\ o.y \in Objects
  /\ o.k = "lock" => o.y = 0
  /\ o.k = "join" => o.x \in Threads
Creates(code) ==
  {c \in UNION {{t} \X DOMAIN code[t] : t \in Threads} : code[c[1]][c[2]].k = "create"}
ASSUME ProgramsOK ==
  \A code \in Programs :
    /\ code \in [Threads -> Seq(UserOps)]
    /\ \A t \in Threads : \A i \in DOMAIN code[t] :
         /\ FitsObjects(code[t][i])
         /\ code[t][i].k = "trylock" => i + code[t][i].n <= Len(code[t])
    /\ Cardinality(Creates(code)) < MaxThreads

VARIABLES
  ex,      \* the execution
  chosen,  \* chosen_thread, 0 for NULL
  scan,    \* curr_thread_num
  old,     \* the thread on whose stack the runtime runs
  mode,    \* where it is: "scan", "choose", "finish", or over: "exit", "hang", "crash"
  nexec,   \* execution_number
  chg,     \* chg_pts
  prog     \* the user program

vars == <<ex, chosen, scan, old, mode, nexec, chg, prog>>

(* x: object, or thread created or joined; y: the mutex of a wait, the      *)
(* condition variable of the lock that follows one; n: operations to skip   *)
(* when a trylock fails, 0 to retry it; sets: the flag is set afterwards;   *)
(* ext: read_external_flag.                                                 *)
Op(k, x, y) == [k |-> k, x |-> x, y |-> y, n |-> 0, sets |-> FALSE, ext |-> FALSE]
None   == Op("none", 0, 0)
Start  == Op("start", 0, 0)
Finish == Op("finish", 0, 0)

(* The waiters of a condition variable are a list; the order in it never     *)
(* matters, so it is how often each thread is in the list.  A thread woken  *)
(* by select_next_thread stays in it.                                       *)
Nobody == [t \in Threads |-> 0]
Listed(w) == {t \in Threads : w[t] > 0}
Enlisted(w, t) == [w EXCEPT ![t] = @ + 1]
Delisted(w, t) == [w EXCEPT ![t] = @ - 1]

Initial(p, code) ==
  [num     |-> 1,
   todo    |-> [t \in Threads |-> <<Start>> \o code[t] \o <<Finish>>],
   last    |-> [t \in Threads |-> None],
   pend    |-> [t \in Threads |-> None],
   st      |-> [t \in Threads |-> "created"],
   wake    |-> [t \in Threads |-> FALSE],
   ret     |-> [t \in Threads |-> "none"],
   en      |-> [t \in Threads |-> IF t = 1 THEN Enabled ELSE Disabled],
   p       |-> p,
   extjob  |-> [t \in Threads |-> FALSE],
   instr   |-> 0,
   locked  |-> [m \in Objects \cup Threads |-> 0],
   waiters |-> [c \in Objects \cup Threads |-> Nobody],
   futex   |-> 0,
   flag    |-> FALSE,
   bug     |-> "none",
   over    |-> FALSE]

MainSlot == HighAddThread([high |-> <<>>, low |-> InitLow], 1, 1)

Live == 1 .. ex.num
HasPending(e, t) == e.pend[t].k # "none"
IsComplete(e, t) == e.st[t] \in {"completed", "freed"}
IsWait(o)   == o.k \in {"wait", "timedwait"}
IsRead(o)   == o.k \in {"read", "spin", "rmwr", "rmw"}
InCount(o)  == IsRead(o) \/ o.k \in {"relstore", "scstore", "fence"}

(* The operations getNextThread lets go first: relaxed and release stores,  *)
(* thread creation, start and finish.                                       *)
IsEarly(o) == o.k \in {"store", "relstore", "create", "start", "finish"}

-----------------------------------------------------------------------------
(* User code: what a thread does from the return of one operation to the    *)
(* next call of switch_thread.                                              *)

(* What is left to do once the last operation has returned. *)
Rest(e, t) ==
  LET o == e.last[t]
      s == e.todo[t]
  IN CASE o.k = "wait"                              -> <<Op("lock", o.y, o.x)>> \o s
       [] o.k = "timedwait" /\ e.ret[t] # "timeout" -> <<Op("lock", o.y, 0)>> \o s
       [] o.k = "lock" /\ o.y \in Objects /\ ~e.flag -> <<Op("wait", o.y, o.x)>> \o s
       [] o.k = "lock" /\ o.y \in Threads /\ ~e.flag -> <<Op("futexwait", 0, 0)>> \o s
       [] o.k = "trylock" /\ e.ret[t] = "no"        -> IF o.n = 0 THEN <<o>> \o s
                                                       ELSE SubSeq(s, o.n + 1, Len(s))
       [] o.k = "spin" /\ e.ret[t] = "no"           -> <<[o EXCEPT !.ext = FALSE]>> \o s
       [] o.k = "rmwr"                              -> <<[o EXCEPT !.k = "rmw"]>> \o s
       [] OTHER                                     -> s

(* A wait whose condition already holds and a futex wake that finds no      *)
(* condition variable do not enter the runtime.                             *)
Skips(e, o) ==
  \/ o.k \in {"wait", "timedwait", "futexwait"} /\ e.flag
  \/ o.k = "futexwake" /\ e.futex = 0

(* _M_futex_wait_until puts a new condition variable and a new mutex in the *)
(* maps; _M_futex_notify_all takes the variable it finds there.             *)
Resolve(e, t, o) ==
  CASE o.k = "futexwait" -> Op("wait", t, t)
    [] o.k = "futexwake" -> [o EXCEPT !.k = "notify_all", !.x = e.futex]
    [] OTHER -> o

FutexEntry(e, t, o) ==
  IF o.k = "futexwait"
    THEN [e EXCEPT !.futex = t, !.locked[t] = 0, !.waiters[t] = Nobody]
    ELSE e

(* Thread::waiting_on *)
WaitingOn(e, t) ==
  CASE e.pend[t].k = "join" -> e.pend[t].x
    [] e.pend[t].k = "lock" -> e.locked[e.pend[t].x]
    [] OTHER -> 0

(* The chain of threads is_waiting_on walks, up to one more hop than there  *)
(* are threads.                                                             *)
WaitChain(e, t) ==
  LET hop[n \in Nat] == IF n = 0 THEN WaitingOn(e, t)
                        ELSE IF hop[n - 1] = 0 THEN 0 ELSE WaitingOn(e, hop[n - 1])
  IN [n \in 0 .. MaxThreads |-> hop[n]]

RelocksOwn(e, t) == e.pend[t].k = "lock" /\ e.pend[t].x \in Recursive /\ WaitingOn(e, t) = t

\* A mutant: any chain of two waits counts.
WaitsForWaiter(e, t) == ~RelocksOwn(e, t) /\ WaitChain(e, t)[1] # 0

IsWaitingOnItself(e, t) == ~RelocksOwn(e, t) /\ t \in {WaitChain(e, t)[n] : n \in 0 .. MaxThreads}
ChainNeverEnds(e, t) ==
  ~RelocksOwn(e, t) /\ ~IsWaitingOnItself(e, t) /\ WaitChain(e, t)[MaxThreads] # 0

\* A mutant: the assertion is left as the pending operation.
StashAny(e, t, o, s) ==
  [e EXCEPT !.todo[t] = s, !.last[t] = o, !.pend[t] = o, !.st[t] = "ready"]

(* switch_thread(act) up to its call of getNextThread.  A failing assertion *)
(* records a bug and calls it with no action.                               *)
Stash(e, t, o, s) ==
  IF o.k = "assert"
    THEN [e EXCEPT !.todo[t] = s, !.last[t] = o, !.st[t] = "ready", !.bug = "assert"]
    ELSE LET f == [FutexEntry(e, t, o) EXCEPT !.todo[t] = s, !.last[t] = Resolve(e, t, o),
                                              !.pend[t] = Resolve(e, t, o), !.st[t] = "ready"]
         IN IF IsWaitingOnItself(f, t) THEN [f EXCEPT !.bug = "cycle"] ELSE f

(* The first operation of s that is not skipped. *)
Issue(e, t, s) ==
  LET i == CHOOSE i \in DOMAIN s : ~Skips(e, s[i]) /\ \A j \in 1 .. i - 1 : Skips(e, s[j])
  IN Stash(e, t, s[i], SubSeq(s, i + 1, Len(s)))

UserRuns(e, t) ==
  LET f == [e EXCEPT !.flag = @ \/ e.last[t].sets] IN Issue(f, t, Rest(f, t))

-----------------------------------------------------------------------------
(* ModelExecution *)

\* Mutants: a lock, and a join, are taken to be always executable.
LocksEnabled(e, t) == e.pend[t].k = "join" => IsComplete(e, e.pend[t].x)
JoinsEnabled(e, t) == e.pend[t].k = "lock" => e.locked[e.pend[t].x] = 0

(* check_action_enabled *)
CheckActionEnabled(e, t) ==
  LET o == e.pend[t] IN
  CASE o.k = "lock" -> e.locked[o.x] = 0 \/ (e.locked[o.x] = t /\ o.x \in Recursive)
    [] o.k = "join" -> IsComplete(e, o.x)
    [] OTHER -> TRUE

(* Scheduler::wake and Scheduler::sleep, for a set of threads and for one *)
WakeThreads(e, W) ==
  [e EXCEPT !.en = [t \in Threads |-> IF t \in W THEN Enabled ELSE @[t]],
            !.st = [t \in Threads |-> IF t \in W THEN "ready" ELSE @[t]]]
SleepThread(e, t) == [e EXCEPT !.en[t] = Disabled, !.st[t] = "blocked"]

\* A mutant: the mutex is freed before its waiters are looked up.
FreedFirst(e, t, m) ==
  LET f == [e EXCEPT !.locked[m] = 0]
  IN WakeThreads(f, {u \in 1 .. e.num : e.pend[u].k = "lock" /\ WaitingOn(f, u) = t})

(* An unlock, and a wait, wake every thread with a pending lock whose mutex *)
(* t holds, on whichever mutex, and then free m whoever holds it.           *)
Unlocked(e, t, m) ==
  LET W == {u \in 1 .. e.num : e.pend[u].k = "lock" /\ WaitingOn(e, u) = t}
  IN [WakeThreads(e, W) EXCEPT !.locked[m] = 0]

Waiting(e, t, o) ==
  [Unlocked(e, t, o.y) EXCEPT !.waiters[o.x] = Enlisted(@, t), !.pend[t] = o]

Locked(e, t, m) == [e EXCEPT !.locked[m] = t]

\* A mutant: the thread is marked woken but not enabled.
MarkedOnly(e, W) == [e EXCEPT !.wake = [t \in Threads |-> t \in W \/ @[t]]]

(* notify: the threads of W leave the wait, a completed one stays disabled. *)
Notified(e, W) ==
  [WakeThreads(e, {t \in 1 .. e.num : t \in W /\ e.st[t] # "completed"}) EXCEPT
     !.wake = [t \in Threads |-> t \in W \/ @[t]]]

(* process_mutex, process_thread_action and the values loads return: the    *)
(* states t's operation o may lead to.                                      *)
Executed(e, t, o) ==
  CASE o.k = "create" ->
         {[e EXCEPT !.num = @ + 1, !.en[e.num + 1] = Enabled,
                    !.p = HighAddThread(@, pos, e.num + 1)] : pos \in 1 .. Len(e.p.high) + 1}
    [] o.k = "lock"    -> {Locked(e, t, o.x)}
    [] o.k = "trylock" -> {IF e.locked[o.x] # 0 THEN [e EXCEPT !.ret[t] = "no"]
                           ELSE [Locked(e, t, o.x) EXCEPT !.ret[t] = "yes"]}
    [] o.k = "unlock"  -> {Unlocked(e, t, o.x)}
    [] o.k = "wait"    -> {SleepThread(Waiting(e, t, o), t),
                           [Waiting(e, t, o) EXCEPT !.en[t] = SleepSet]}
    [] o.k = "timedwait" -> {[e EXCEPT !.ret[t] = "timeout"],
                             [Waiting(e, t, o) EXCEPT !.en[t] = SleepSet]}
    [] o.k = "notify_all" -> {[Notified(e, Listed(e.waiters[o.x])) EXCEPT !.waiters[o.x] = Nobody]}
    [] o.k = "notify_one" /\ Listed(e.waiters[o.x]) # {} ->
         {[Notified(e, {u}) EXCEPT !.waiters[o.x] = Delisted(@, u)] : u \in Listed(e.waiters[o.x])}
    [] o.k = "sleep"   -> {[e EXCEPT !.pend[t] = o, !.en[t] = SleepSet]}
    [] o.k = "finish" /\ t = 1 -> {[e EXCEPT !.st[t] = "completed", !.over = TRUE]}
    [] o.k = "exit" \/ (o.k = "finish" /\ t # 1) ->
         {[WakeThreads(e, {u \in 1 .. e.num : e.pend[u].k = "join" /\ WaitingOn(e, u) = t})
             EXCEPT !.st[t] = "completed"]}
    [] o.k = "spin"    -> {[e EXCEPT !.ret[t] = v] : v \in IF e.flag THEN {"yes", "no"} ELSE {"no"}}
    [] OTHER -> {e}

(* What is left of the waiters w of c when the threads of W leave it, each  *)
(* taken off the list once.                                                 *)
StillWaiting(e, W, c, w) ==
  LET leaving == {t \in W : IsWait(e.pend[t]) /\ e.pend[t].x = c}
  IN [t \in Threads |-> IF t \in leaving /\ w[t] > 0 THEN w[t] - 1 ELSE w[t]]

(* wake_up_sleeping_actions: the sleeping threads of W have waited long     *)
(* enough; those that wait leave the list of waiters.                       *)
WakeSleepers(e, W) ==
  [e EXCEPT
     !.en   = [t \in Threads |-> IF t \in W THEN Enabled ELSE @[t]],
     !.wake = [t \in Threads |-> t \in W \/ @[t]],
     !.ret  = [t \in Threads |-> IF t \in W /\ e.pend[t].k = "timedwait" THEN "timeout" ELSE @[t]],
     !.waiters = [c \in DOMAIN @ |-> StillWaiting(e, W, c, @[c])]]

(* The first half of check_current_action: count t's operation, and at a    *)
(* change point move the highest thread to lowvec and mark the operation.   *)
IsNew(o) == o.k # "rmw"
Counted(e, t, o) ==
  IF InCount(o) /\ IsNew(o) THEN [e EXCEPT !.instr = IF @ < InstrCap THEN @ + 1 ELSE @] ELSE e
ChangePoint(e, o) == IF InCount(o) /\ IsNew(o) THEN FindChgIdx(chg, e.instr) ELSE 0
Demoted(e, t, o, idx) ==
  IF idx = 0 THEN e
  ELSE [e EXCEPT !.p = MoveThread(@, idx, HighestThread(@, e.en)),
                 !.extjob[t] = @ \/ IsRead(o)]

(* The second half.  At a change point that leaves another thread highest   *)
(* the operation is put back.  A load below the limit consumes the mark and *)
(* the external-read job; nothing else consumes the mark.  last keeps the   *)
(* mark of a read-modify-write for its second part.                         *)
PutBack(e, t, o, idx) == idx # 0 /\ HighestThread(e.p, e.en) # t /\ e.instr <= CountLimit
LoadsBelowLimit(e, o) == IsRead(o) /\ IsNew(o) /\ e.instr <= CountLimit
Unmarked(e, o) == IF LoadsBelowLimit(e, o) THEN [o EXCEPT !.ext = FALSE] ELSE o
Processed(e, t, o) ==
  {[f EXCEPT !.extjob[t] = @ /\ ~LoadsBelowLimit(e, o),
             !.last[t].ext = Unmarked(e, o).ext] : f \in Executed(e, t, o)}

(* remove_thread at the end of take_step *)
Settled(e, t) ==
  IF e.st[t] = "blocked" \/ IsComplete(e, t) THEN [e EXCEPT !.en[t] = Disabled] ELSE e

\* A mutant: the scheduler may split a read-modify-write.
SelectsAny(e, t, o) == IF o.k = "create" THEN e.num ELSE 0

\* A mutant: the thread after the created one is selected.
SelectsAfter(e, t, o) == IF o.k = "create" THEN e.num + 1 ELSE 0

(* action_select_next_thread *)
SelectsNext(e, t, o) ==
  CASE InCount(o) /\ o.ext -> LET h == HighestThread(e.p, e.en) IN IF h = NoThread THEN 0 ELSE h
    [] ~(InCount(o) /\ o.ext) /\ o.k = "rmwr" -> t
    [] o.k = "create" -> e.num
    [] OTHER -> 0

-----------------------------------------------------------------------------
(* ModelChecker *)

Init ==
  /\ chg \in ChangePoints
  /\ prog \in Programs
  /\ ex = Initial(MainSlot, prog)
  /\ chosen = 0 /\ scan = 1 /\ old = 1 /\ nexec = 1
  /\ mode = "scan"

Scanning == mode = "scan" /\ scan <= ex.num

(* getNextThread finds a thread with no pending operation and switches to   *)
(* it.  A completed thread that was woken has no context to go on in.       *)
RunThread ==
  /\ Scanning
  /\ ~IsComplete(ex, scan) /\ ~HasPending(ex, scan)
  /\ old' = scan
  /\ IF ex.last[scan].k \in {"finish", "exit"}
       THEN mode' = "crash" /\ UNCHANGED ex
       ELSE /\ ex' = UserRuns(ex, scan)
            /\ mode' = IF ChainNeverEnds(ex', scan) THEN "hang" ELSE mode
  /\ UNCHANGED <<chosen, scan, nexec, chg, prog>>

(* freeResources *)
FreeThread ==
  /\ Scanning
  /\ IsComplete(ex, scan)
  /\ ex' = IF scan # old THEN [ex EXCEPT !.st[scan] = "freed"] ELSE ex
  /\ scan' = scan + 1
  /\ UNCHANGED <<chosen, old, mode, nexec, chg, prog>>

(* A pending operation that cannot be executed puts its thread to sleep.    *)
BlockThread ==
  /\ Scanning
  /\ HasPending(ex, scan) /\ ex.en[scan] # Disabled
  /\ ~CheckActionEnabled(ex, scan)
  /\ ex' = SleepThread(ex, scan)
  /\ scan' = scan + 1
  /\ UNCHANGED <<chosen, old, mode, nexec, chg, prog>>

PassThread ==
  /\ Scanning
  /\ HasPending(ex, scan)
  /\ ex.en[scan] # Disabled => CheckActionEnabled(ex, scan)
  /\ chosen' = IF chosen = 0 /\ ex.en[scan] # Disabled /\ IsEarly(ex.pend[scan]) THEN scan ELSE chosen
  /\ scan' = scan + 1
  /\ UNCHANGED <<ex, old, mode, nexec, chg, prog>>

EndScan ==
  /\ mode = "scan" /\ scan > ex.num
  /\ mode' = "choose" /\ scan' = 1
  /\ UNCHANGED <<ex, chosen, old, nexec, chg, prog>>

\* A mutant: a completed thread hides the deadlock of the others.
AllPending(e) == \A t \in 1 .. e.num : e.en[t] = Disabled /\ HasPending(e, t)

(* is_deadlocked, and what finish_execution reports *)
IsDeadlocked(e) ==
  /\ \A t \in 1 .. e.num : e.en[t] = Disabled
  /\ \E t \in 1 .. e.num : HasPending(e, t)
Reported(e) ==
  IF e.bug = "none" /\ IsDeadlocked(e) THEN [e EXCEPT !.bug = "deadlock"] ELSE e

(* handleChosenThread: an execution with a recorded bug is over.            *)
StopAsserted ==
  /\ mode = "choose" /\ ex.bug # "none"
  /\ mode' = "finish"
  /\ UNCHANGED <<ex, chosen, scan, old, nexec, chg, prog>>

(* select_next_thread, as the threads it may return and the execution then. *)
Selections(e) ==
  LET avail == EnabledSet(e.en)
      asleep == SleepingSet(e.en)
  IN IF avail = {} THEN {<<t, [e EXCEPT !.en[t] = Enabled, !.wake[t] = TRUE]>> : t \in asleep}
     ELSE IF DrawAtRandom(e.instr) THEN {<<t, e>> : t \in avail}
     ELSE {<<FindHighest(e.p, avail), e>>}

Picks == IF chosen # 0 THEN {<<chosen, ex>>} ELSE Selections(ex)

NothingToRun ==
  /\ mode = "choose" /\ ex.bug = "none" /\ Picks = {}
  /\ mode' = "finish" /\ ex' = Reported(ex)
  /\ UNCHANGED <<chosen, scan, old, nexec, chg, prog>>

(* A thread that was just woken up drops its operation and goes on in user  *)
(* code.                                                                    *)
ResumeWoken(t) ==
  /\ mode = "choose" /\ ex.bug = "none"
  /\ \E pick \in Picks :
       /\ pick[1] = t /\ pick[2].wake[t]
       /\ ex' = [pick[2] EXCEPT !.wake[t] = FALSE, !.pend[t] = None]
  /\ chosen' = 0 /\ mode' = "scan"
  /\ UNCHANGED <<scan, old, nexec, chg, prog>>

(* take_step.  chosen may point to a thread that does not exist yet, or has *)
(* nothing to execute: take_step(NULL).                                     *)
TakeStep(t) ==
  /\ mode = "choose" /\ ex.bug = "none"
  /\ \E pick \in Picks :
       /\ pick[1] = t /\ ~pick[2].wake[t]
       /\ t <= ex.num /\ HasPending(ex, t)
       /\ \E W \in SUBSET SleepingSet(ex.en) :
            LET o  == ex.pend[t]
                e1 == Counted(WakeSleepers([pick[2] EXCEPT !.pend[t] = None], W), t, o)
            IN \E idx \in {ChangePoint(e1, o)} :
               \E e2 \in {Demoted(e1, t, o, idx)} :
               \E marked \in {[o EXCEPT !.ext = @ \/ idx # 0]} :
                 IF PutBack(e2, t, o, idx)
                   THEN /\ ex' = [e2 EXCEPT !.pend[t] = marked]
                        /\ chosen' = SelectsNext(e2, t, marked)
                   ELSE \E e3 \in Processed(e2, t, marked) :
                          /\ ex' = IF e3.over THEN Reported(Settled(e3, t)) ELSE Settled(e3, t)
                          /\ chosen' = SelectsNext(ex', t, Unmarked(e2, marked))
  /\ mode' = IF ex'.over THEN "finish" ELSE "scan"
  /\ UNCHANGED <<scan, old, nexec, chg, prog>>

StepOfNobody ==
  /\ mode = "choose" /\ ex.bug = "none"
  /\ \E pick \in Picks :
       pick[1] \in Live => ~pick[2].wake[pick[1]] /\ ~HasPending(ex, pick[1])
  /\ mode' = "crash"
  /\ UNCHANGED <<ex, chosen, scan, old, nexec, chg, prog>>

(* finish_execution: the next execution from the snapshot, or the end.      *)
FinishExecution ==
  /\ mode = "finish"
  /\ scan' = 1
  /\ IF nexec < MaxExecs
       THEN /\ ex' = Initial(MainSlot, prog) /\ mode' = "scan" /\ old' = 1 /\ nexec' = nexec + 1
       ELSE mode' = "exit" /\ UNCHANGED <<ex, old, nexec>>
  /\ UNCHANGED <<chosen, chg, prog>>

Over == mode \in {"exit", "hang", "crash"} /\ UNCHANGED vars

Next ==
  \/ RunThread \/ FreeThread \/ BlockThread \/ PassThread \/ EndScan
  \/ StopAsserted \/ NothingToRun
  \/ \E t \in Threads : ResumeWoken(t) \/ TakeStep(t)
  \/ StepOfNobody
  \/ FinishExecution
  \/ Over

Spec == Init /\ [][Next]_vars
=============================================================================
