--------------------------- MODULE PctProperties ---------------------------
(***************************************************************************)
(* What the pctwm runtime promises the user program and the tester.        *)
(***************************************************************************)
EXTENDS PctRuntime

Kinds == {"none", "start", "finish", "exit", "create", "join", "lock", "unlock", "trylock",
          "wait", "timedwait", "notify_one", "notify_all", "futexwait", "futexwake", "sleep",
          "yield", "store", "relstore", "scstore", "fence", "read", "spin", "rmwr", "rmw", "assert"}

(* The shape of the state. *)
TypeOK ==
  /\ ex.num \in Threads
  /\ \A t \in Threads :
       /\ ex.pend[t].k \in Kinds \ {"assert", "futexwait", "futexwake"}
       /\ ex.st[t] \in {"created", "ready", "blocked", "completed", "freed"}
       /\ ex.en[t] \in {Disabled, Enabled, SleepSet}
       /\ ex.ret[t] \in {"none", "yes", "no", "timeout"}
  /\ ex.instr \in 0 .. InstrCap
  /\ \A o \in Objects \cup Threads :
       ex.locked[o] \in Live \cup {0} /\ Listed(ex.waiters[o]) \subseteq Live
  /\ chosen \in 0 .. MaxThreads /\ scan \in 1 .. MaxThreads + 1
  /\ mode \in {"scan", "choose", "finish", "exit", "hang", "crash"}

(* Every thread of the execution stays in exactly one slot of the priority  *)
(* vectors through insertions (highvec_addthread) and demotions             *)
(* (movethread): a thread in no slot is never selected while it is enabled, *)
(* one in two slots keeps its old priority after a change point.            *)
OnePriority == \A t \in Live : Cardinality(Slots(ex.p, t)) = 1

(* Why a thread that is not enabled cannot go on. *)
Blocked(e, t) ==
  LET o == e.pend[t] IN
  CASE o.k = "lock" -> ~CheckActionEnabled(e, t)
    [] o.k = "join" -> ~IsComplete(e, o.x)
    [] IsWait(o)    -> t \in Listed(e.waiters[o.x]) /\ ~e.wake[t]
    [] OTHER        -> FALSE

(* No wake-up is lost: when the runtime is about to select a thread, each   *)
(* disabled thread with an operation to execute waits for something that    *)
(* has not happened yet (process_mutex and process_thread_action wake every *)
(* thread that waits for the mutex or the thread they release).             *)
NoLostWakeup ==
  mode = "choose" /\ ex.bug = "none" =>
    \A t \in Live : HasPending(ex, t) /\ ex.en[t] = Disabled => Blocked(ex, t)

(* finish_execution reports a deadlock exactly when one is there: a report  *)
(* comes with blocked threads only, and an execution that main did not end  *)
(* and nothing is reported of has completed all its threads.                *)
DeadlockReports ==
  mode \in {"finish", "exit"} =>
    /\ ex.bug = "deadlock" =>
         \A t \in Live : IsComplete(ex, t) \/ (HasPending(ex, t) /\ Blocked(ex, t))
    /\ ex.bug = "none" => ex.over \/ \A t \in Live : IsComplete(ex, t)

(* The cycle switch_thread reports is there: each of its threads waits for  *)
(* the next, by a lock or a join.                                           *)
CyclesAreReal ==
  ex.bug = "cycle" =>
    \E t \in Live : \E n \in 1 .. MaxThreads :
      \E s \in [0 .. n -> Live] :
        /\ s[0] = t /\ s[n] = t
        /\ \A i \in 0 .. n - 1 : WaitingOn(ex, s[i]) = s[i + 1] /\ ~CheckActionEnabled(ex, s[i])

(* The operation t executes in this step, if it completes one. *)
Completes(t) ==
  /\ mode = "choose" /\ HasPending(ex, t) /\ ~HasPending(ex', t)
  /\ ~ex.wake[t] /\ ex.en[t] # SleepSet

(* pthread_join returns only after the thread it waits for has finished.    *)
JoinsWait ==
  [][\A t \in Threads : Completes(t) /\ ex.pend[t].k = "join" => IsComplete(ex, ex.pend[t].x)]_vars

(* Between the load and the store of a read-modify-write no other thread    *)
(* takes a step ("Do not split atomic RMW", action_select_next_thread).     *)
RmwUnsplit ==
  mode = "choose" /\ ex.bug = "none" =>
    \A t \in Live : ex.pend[t].k = "rmw" => chosen = t

(* The PCT schedule: but for the operations getNextThread lets go first and *)
(* the random draws of a suspected livelock, a counted operation is         *)
(* executed by the enabled thread of highest priority.                      *)
HighestRuns ==
  [][\A t \in Threads :
       Completes(t) /\ InCount(ex.pend[t]) /\ ~IsEarly(ex.pend[t]) /\ ex.pend[t].k # "rmw"
         /\ ~DrawAtRandom(ex.instr)
       => t = HighestThread(ex.p, ex.en)]_vars

(* A thread whose context is gone is never switched to, and take_step is    *)
(* always given an operation.                                               *)
NoCrash == mode # "crash"

(* Threads that wait on condition variable cv and have not been woken. *)
WaitersOf(e, cv) == {t \in 1 .. e.num : IsWait(e.pend[t]) /\ e.pend[t].x = cv /\ e.en[t] # Enabled}

(* A notification is never spent on nobody: when threads wait on the        *)
(* condition variable, notify_one ends the wait of at least one of them and *)
(* notify_all of all of them.                                               *)
NotifyReaches ==
  [][\A t \in Threads :
       /\ Completes(t) /\ ex.pend[t].k = "notify_one" /\ WaitersOf(ex, ex.pend[t].x) # {}
            => ~(WaitersOf(ex, ex.pend[t].x) \subseteq WaitersOf(ex', ex.pend[t].x))
       /\ Completes(t) /\ ex.pend[t].k = "notify_all" => WaitersOf(ex', ex.pend[t].x) = {}]_vars

(* Mutexes and condition variables behave as Monitor says.                  *)
Mon == INSTANCE Monitor WITH
  Thread <- Threads, Object <- Objects, Reentrant <- Recursive,
  owner <- [o \in Objects |-> ex.locked[o]],
  waiting <- [o \in Objects |-> WaitersOf(ex, o)]
IsMonitor == Mon!Spec

-----------------------------------------------------------------------------
(* A statement of the source that the code does not keep in every case.     *)

(* "The lock operation has already been checked that it is enabled, so it   *)
(* just grabs the lock".                                                    *)
LocksChecked ==
  [][\A t \in Threads : Completes(t) /\ ex.pend[t].k = "lock" => CheckActionEnabled(ex, t)]_vars

-----------------------------------------------------------------------------
(* Every run of the tester ends: no execution goes on for ever and none     *)
(* hangs inside the runtime.  (After a failed assertion the next execution  *)
(* may be given a thread that does not exist yet: a crash is an end too.)   *)
Ends == <>(mode \in {"exit", "crash"})

(* The runtime runs until it exits.  Random draws are fair, so under them   *)
(* every enabled thread is drawn, and a spinning thread, which reads at     *)
(* random beyond the limit, sees the flag some time.                        *)
Fairness ==
  /\ WF_vars(Next)
  /\ \A t \in Threads : SF_vars(DrawAtRandom(ex.instr) /\ chosen = 0 /\ TakeStep(t))
  /\ \A t \in Threads : SF_vars(TakeStep(t) /\ ex'.ret[t] = "yes" /\ ex.instr > CountLimit)
FairSpec == Spec /\ Fairness
=============================================================================
