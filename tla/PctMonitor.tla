----------------------------- MODULE PctMonitor -----------------------------
(***************************************************************************)
(* The runtime's mutexes and condition variables implement Monitor, for    *)
(* every number of threads and every program: each step of the runtime is  *)
(* a step of the monitor or changes nothing that a program can see of it.  *)
(* Notifications reach those that wait; and, from what is known of the     *)
(* lists of waiters, of woken, completed and chosen threads: no            *)
(* read-modify-write is split, and the runtime never crashes.              *)
(***************************************************************************)
EXTENDS PctWakeups

----------------------------------------------------------------------------
(* The steps of the monitor.                                               *)

\* A lock taken: the mutex was free, or the thread held it and it is recursive.
LEMMA IsAcquire ==
  ASSUME NEW t \in Threads, NEW m \in Objects,
         ex.locked[m] = 0 \/ (ex.locked[m] = t /\ m \in Recursive),
         \A o \in Objects : ex'.locked[o] = IF o = m THEN t ELSE ex.locked[o],
         \A c \in Objects : WaitersOf(ex', c) \subseteq WaitersOf(ex, c)
  PROVE  Mon!Next
  <1>1. Mon!Acquire(t, m)
    BY DEF Mon!Acquire, Mon!WaitsEnd, WaitersOf
  <1> QED BY <1>1 DEF Mon!Next

\* A mutex given up by its owner.
LEMMA IsRelease ==
  ASSUME NEW t \in Threads, NEW m \in Objects, ex.locked[m] = t,
         \A o \in Objects : ex'.locked[o] = IF o = m THEN 0 ELSE ex.locked[o],
         \A c \in Objects : WaitersOf(ex', c) \subseteq WaitersOf(ex, c)
  PROVE  Mon!Next
  <1>1. Mon!Release(t, m)
    BY DEF Mon!Release, Mon!WaitsEnd, WaitersOf
  <1> QED BY <1>1 DEF Mon!Next

\* A wait: the owner gives the mutex up and joins the waiters in one step.
LEMMA IsMonitorWait ==
  ASSUME NEW t \in Threads, NEW c \in Objects, NEW m \in Objects, ex.locked[m] = t,
         \A o \in Objects : ex'.locked[o] = IF o = m THEN 0 ELSE ex.locked[o],
         t \in WaitersOf(ex', c),
         \A d \in Objects : WaitersOf(ex', d) \subseteq WaitersOf(ex, d) \cup {u \in {t} : d = c}
  PROVE  Mon!Next
  <1>1. \A d \in Objects : [o \in Objects |-> WaitersOf(ex, o)]'[d] = WaitersOf(ex', d)
    BY DEF WaitersOf
  <1>2. Mon!Wait(t, c, m)
    BY <1>1 DEF Mon!Wait
  <1> QED BY <1>2 DEF Mon!Next

\* Waits end, and nothing else changes.
LEMMA IsWake ==
  ASSUME \A o \in Objects : ex'.locked[o] = ex.locked[o],
         \A c \in Objects : WaitersOf(ex', c) \subseteq WaitersOf(ex, c)
  PROVE  Mon!Next
  <1>1. Mon!Wake
    BY DEF Mon!Wake, Mon!WaitsEnd, WaitersOf
  <1> QED BY <1>1 DEF Mon!Next

\* The next execution starts with free mutexes and nobody waiting.
LEMMA IsRestart ==
  ASSUME ex' = Initial(MainSlot, prog)
  PROVE  Mon!Next
  <1>1. /\ ex'.locked = [m \in Objects \cup Threads |-> 0] /\ ex'.num = 1
        /\ ex'.pend = [t \in Threads |-> None]
    BY DEF Initial
  <1>2. \A t \in 1 .. ex'.num : ~IsWait(ex'.pend[t])
    BY <1>1, PctParams DEF IsWait, None, Op, Threads
  <1>3. Mon!Restart
    BY <1>1, <1>2 DEF Mon!Restart, WaitersOf
  <1> QED BY <1>3 DEF Mon!Next

----------------------------------------------------------------------------
(* Who waits on the condition variables of the program.                    *)

\* The threads of S that wait on cv.
WaitersIn(S, e, cv) == {u \in S : IsWait(e.pend[u]) /\ e.pend[u].x = cv /\ e.en[u] # Enabled}

\* Nobody but threads of S begins to wait when the others keep their operations
\* and none of them that is enabled is disabled.
LEMMA WaitersFewer ==
  ASSUME NEW e, IsState(e), e.num \in Nat, NEW f, 1 .. f.num \subseteq Threads, NEW S,
         \A u \in Threads \ S : IsWait(f.pend[u]) /\ f.en[u] # Enabled
                                  => f.pend[u] = e.pend[u] /\ e.en[u] # Enabled
  PROVE  \A c : WaitersOf(f, c) \subseteq WaitersOf(e, c) \cup WaitersIn(S, f, c)
  <1> TAKE c
  <1>1. ASSUME NEW u \in WaitersOf(f, c), u \notin S PROVE u \in WaitersOf(e, c)
    <2>1. u \in Threads /\ IsWait(f.pend[u]) /\ f.pend[u].x = c /\ f.en[u] # Enabled
      BY DEF WaitersOf
    <2>2. f.pend[u] = e.pend[u] /\ e.en[u] # Enabled
      BY <1>1, <2>1
    <2>3. HasPending(e, u)
      BY <2>1, <2>2 DEF IsWait, HasPending
    <2>4. u <= e.num
      BY <2>1, <2>3, PendingPlace DEF Threads
    <2> QED BY <2>1, <2>2, <2>4 DEF WaitersOf, Threads
  <1>2. ASSUME NEW u \in WaitersOf(f, c), u \in S PROVE u \in WaitersIn(S, f, c)
    BY <1>2 DEF WaitersOf, WaitersIn
  <1> QED BY <1>1, <1>2

\* Every step but a thread's own operation, and the next execution, leaves the
\* mutexes of the program alone, and nobody begins to wait.
LEMMA SteadyStep ==
  ASSUME TypeInv, LookInv, RestInv,
         \/ RunThread \/ FreeThread \/ BlockThread \/ PassThread \/ EndScan \/ StopAsserted
         \/ NothingToRun \/ StepOfNobody \/ Over \/ UNCHANGED vars
         \/ \E t \in Threads : ResumeWoken(t)
  PROVE  /\ \A o \in Objects : ex'.locked[o] = ex.locked[o]
         /\ \A c \in Objects : WaitersOf(ex', c) \subseteq WaitersOf(ex, c)
  <1>1. /\ IsState(ex) /\ Good(ex) /\ DOMAIN ex = Fields /\ DOMAIN ex.en = Threads
        /\ ex.locked \in [Places -> 0 .. ex.num] /\ ex.pend \in [Threads -> Ops]
        /\ prog \in Programs /\ 1 .. ex.num \subseteq Threads /\ ex.num \in Nat
    BY LiveThreads DEF TypeInv, PrioInv, IsState, Good, Live
  <1>2. ASSUME ex'.num = ex.num,
               \A u \in Threads : IsWait(ex'.pend[u]) /\ ex'.en[u] # Enabled
                                    => ex'.pend[u] = ex.pend[u] /\ ex.en[u] # Enabled
        PROVE  \A c \in Objects : WaitersOf(ex', c) \subseteq WaitersOf(ex, c)
    <2>1. \A c : WaitersOf(ex', c) \subseteq WaitersOf(ex, c) \cup WaitersIn({}, ex', c)
      BY <1>1, <1>2, WaitersFewer
    <2> QED BY <2>1 DEF WaitersIn
  <1>3. CASE RunThread
    <2>1. /\ scan \in Threads /\ scan \in Live /\ ~IsComplete(ex, scan) /\ ~HasPending(ex, scan)
          /\ \/ ex' = ex
             \/ ex.last[scan].k \notin {"finish", "exit"} /\ ex' = UserRuns(ex, scan)
      BY <1>3, ScanExists DEF RunThread
    <2>2. CASE ex' = ex
      BY <1>2, <2>2
    <2>3. CASE ex.last[scan].k \notin {"finish", "exit"} /\ ex' = UserRuns(ex, scan)
      <3>1. PICK o, r : UserStep(ex, ex', scan, o, r)
        BY <1>1, <2>1, <2>3, UserIs
      <3>2. /\ \A u \in Threads \ {scan} : ex'.pend[u] = ex.pend[u]
            /\ ex'.en = ex.en /\ ex'.num = ex.num
        BY <1>1, <2>1, <3>1, UserChanges
      <3>3. ex.en[scan] = Enabled
        BY <2>1, <1>1 DEF RestInv, RestIsOf, Live, Good
      <3>4. ex'.locked \in {ex.locked, [ex.locked EXCEPT ![scan] = 0]}
        BY <3>1 DEF UserStep
      <3>5. scan \notin Objects
        BY <2>1, RuntimeParams
      <3>6. \A m \in Objects : ex'.locked[m] = ex.locked[m]
        BY <1>1, <3>4, <3>5 DEF Places
      <3>7. \A u \in Threads : IsWait(ex'.pend[u]) /\ ex'.en[u] # Enabled
                                 => ex'.pend[u] = ex.pend[u] /\ ex.en[u] # Enabled
        BY <3>2, <3>3
      <3> QED BY <1>2, <3>2, <3>6, <3>7
    <2> QED BY <2>1, <2>2, <2>3
  <1>4. CASE FreeThread
    <2>1. ex' \in {ex, [ex EXCEPT !.st[scan] = "freed"]}
      BY <1>4 DEF FreeThread
    <2>2. ex'.pend = ex.pend /\ ex'.en = ex.en /\ ex'.num = ex.num /\ ex'.locked = ex.locked
      BY <1>1, <2>1 DEF Fields
    <2> QED BY <1>2, <2>2
  <1>5. CASE BlockThread
    <2>1. scan \in Threads /\ ~CheckActionEnabled(ex, scan) /\ ex' = SleepThread(ex, scan)
      BY <1>5, ScanExists DEF BlockThread
    <2>2. /\ ex'.pend = ex.pend /\ ex'.num = ex.num /\ ex'.locked = ex.locked
          /\ ex'.en = [ex.en EXCEPT ![scan] = Disabled]
      BY <1>1, <2>1 DEF SleepThread, Fields
    <2>3. ~IsWait(ex.pend[scan])
      BY <2>1 DEF CheckActionEnabled, IsWait
    <2>4. \A u \in Threads \ {scan} : ex'.en[u] = ex.en[u]
      BY <2>2
    <2> QED BY <1>2, <2>2, <2>3, <2>4
  <1>6. CASE PassThread \/ EndScan \/ StopAsserted \/ StepOfNobody \/ Over \/ UNCHANGED vars
    <2>1. ex' = ex
      BY <1>6 DEF PassThread, EndScan, StopAsserted, StepOfNobody, Over, vars
    <2> QED BY <1>2, <2>1
  <1>7. CASE NothingToRun
    <2>1. ex' = ex \/ ex' = [ex EXCEPT !.bug = "deadlock"]
      BY <1>7 DEF NothingToRun, Reported
    <2>2. ex'.pend = ex.pend /\ ex'.en = ex.en /\ ex'.num = ex.num /\ ex'.locked = ex.locked
      BY <1>1, <2>1 DEF Fields
    <2> QED BY <1>2, <2>2
  <1>8. CASE \E t \in Threads : ResumeWoken(t)
    <2>1. PICK t \in Threads, pick \in Picks :
            pick[1] = t /\ ex' = [pick[2] EXCEPT !.wake[t] = FALSE, !.pend[t] = None]
      BY <1>8 DEF ResumeWoken
    <2>2. pick[2] = ex \/ pick[2] = [ex EXCEPT !.en[t] = Enabled, !.wake[t] = TRUE]
      BY <2>1, PickFrom
    <2>3. /\ DOMAIN pick[2] = Fields /\ pick[2].pend = ex.pend /\ pick[2].num = ex.num
          /\ pick[2].locked = ex.locked
          /\ pick[2].en = ex.en \/ pick[2].en = [ex.en EXCEPT ![t] = Enabled]
      BY <1>1, <2>2 DEF Fields
    <2>4. /\ ex'.pend = [ex.pend EXCEPT ![t] = None] /\ ex'.num = ex.num
          /\ ex'.locked = ex.locked /\ ex'.en = pick[2].en
      BY <2>1, <2>3 DEF Fields
    <2>5. ~IsWait(ex'.pend[t]) /\ \A u \in Threads \ {t} : ex'.pend[u] = ex.pend[u] /\ ex'.en[u] = ex.en[u]
      BY <1>1, <2>1, <2>3, <2>4 DEF IsWait, None, Op
    <2> QED BY <1>2, <2>4, <2>5
  <1> QED BY <1>3, <1>4, <1>5, <1>6, <1>7, <1>8

----------------------------------------------------------------------------
(* take_step.                                                              *)

\* What the operation of t does to a thread that waits: nobody else begins to.
LEMMA EffectFewer ==
  ASSUME NEW e, IsState(e), Good(e), NEW t \in Threads, NEW o, NEW f, Effect(e, t, o, f),
         o.k = "unlock" => e.locked[o.x] = t,
         o.k \in {"wait", "timedwait"} => o.y = t \/ e.locked[o.y] = t,
         NEW u \in Threads \ {t}, f.en[u] \in {Disabled, Enabled, SleepSet}, f.en[u] # Enabled
  PROVE  f.pend[u] = e.pend[u] /\ e.en[u] # Enabled
  <1>1. WaitsOn(e, u, f)
    BY EffectWaits
  <1>2. f.en[u] = SleepSet => e.en[u] = SleepSet
    BY EffectSleeps
  <1> QED BY <1>1, <1>2 DEF WaitsOn, Disabled, Enabled, SleepSet

\* What the operation of t may do to the mutexes.
LocksAfter(e, t, o, f) ==
  \/ f.locked = e.locked /\ (o.k \in {"wait", "timedwait"} => f.pend = e.pend)
  \/ o.k = "lock" /\ f.locked = [e.locked EXCEPT ![o.x] = t]
  \/ o.k = "trylock" /\ e.locked[o.x] = 0 /\ f.locked = [e.locked EXCEPT ![o.x] = t]
  \/ o.k = "unlock" /\ f.locked = [e.locked EXCEPT ![o.x] = 0]
  \/ /\ o.k \in {"wait", "timedwait"} /\ f.locked = [e.locked EXCEPT ![o.y] = 0]
     /\ f.pend[t] = o /\ f.num = e.num

\* And that is all it does to them.
LEMMA EffectLocks ==
  ASSUME NEW e, IsState(e), NEW t \in Threads, NEW o, NEW f, Effect(e, t, o, f)
  PROVE  LocksAfter(e, t, o, f)
  <1>1. ASSUME NEW F, Same(e, f, F), "locked" \notin F PROVE f.locked = e.locked
    BY <1>1, SameFields
  <1>2. CASE o.k \in {"lock", "trylock", "unlock"}
    BY <1>2 DEF Effect, LocksAfter
  <1>3. CASE o.k \in {"wait", "timedwait"}
    <2>1. CASE Same(e, f, {"ret"})
      <3>1. f.locked = e.locked /\ f.pend = e.pend
        BY <2>1, SameFields
      <3> QED BY <3>1 DEF LocksAfter
    <2>2. CASE Same(e, f, {"en", "st", "locked", "waiters", "pend"}) /\ WaitEffect(e, t, o, f)
      <3>1. Same(e, f, {"en", "st", "locked", "waiters", "pend"})
        BY <2>2
      <3>2. f.num = e.num
        BY <3>1, SameFields
      <3>3. f.pend[t] = o
        BY <2>2 DEF WaitEffect, IsState
      <3> QED BY <1>3, <2>2, <3>2, <3>3 DEF WaitEffect, LocksAfter
    <2> QED BY <1>3, <2>1, <2>2 DEF Effect
  <1>4. CASE o.k \notin {"lock", "trylock", "unlock", "wait", "timedwait"}
    <2>1. \/ Same(e, f, {"num", "en", "p"}) \/ Same(e, f, {"en", "st", "wake", "waiters"})
          \/ Same(e, f, {"pend", "en"}) \/ Same(e, f, {"st", "over"}) \/ Same(e, f, {"en", "st"})
          \/ Same(e, f, {"ret"}) \/ Same(e, f, {})
      BY <1>4 DEF Effect
    <2>2. f.locked = e.locked
      BY <1>1, <2>1
    <2> QED BY <1>4, <2>2 DEF LocksAfter
  <1> QED BY <1>2, <1>3, <1>4

\* An operation is one of the monitor's, or changes nothing of it.
LEMMA TakeMonitor ==
  ASSUME TypeInv, LookInv, RestInv, NEW t \in Threads, TakeStep(t), [Next]_vars,
         GivesUp(t) \in Objects => ex.locked[GivesUp(t)] = t
  PROVE  Mon!Next
  <1>1. /\ prog \in Programs /\ IsState(ex) /\ PrioInv /\ Good(ex)
        /\ DOMAIN ex.locked = Places /\ ex.num \in Nat
    BY DEF TypeInv, PrioInv, IsState, Good
  <1>2. PICK W, d, m : Stepped(t, W, d, m) /\ Good(d) /\ IsState(d)
    BY <1>1, StepIs
  <1>3. /\ Picked(t) /\ Prepared(t, W, d)
        /\ \/ Same(d, ex', {"pend"}) /\ ex'.pend = [d.pend EXCEPT ![t] = m]
           \/ \E f : Effect(d, t, m, f) /\ Ended(t, m, d, f, ex')
    BY <1>2 DEF Stepped
  <1>4. /\ t \notin W
        /\ d.en[t] = Enabled /\ d.pend[t] = None /\ d.st[t] # "blocked" /\ ~IsComplete(d, t)
        /\ t <= d.num /\ ~d.wake[t]
        /\ m.k = ex.pend[t].k /\ m.x = ex.pend[t].x /\ m.y = ex.pend[t].y
        /\ m.k \in {"wait", "timedwait", "notify_one", "notify_all"} => m.x \in Places
    BY <1>2, TakeIs
  <1>5. /\ d.locked = ex.locked /\ d.num = ex.num
        /\ \A u \in Threads \ {t} : d.pend[u] = ex.pend[u]
        /\ \A u \in Threads : d.en[u] = IF u \in W THEN Enabled ELSE ex.en[u]
    BY <1>1, <1>3, PreparedFacts
  <1>6. /\ IsState(ex') /\ Good(ex') /\ ex'.en \in [Threads -> {Disabled, Enabled, SleepSet}]
        /\ 1 .. ex'.num \subseteq Threads
    <2>1. IsState(ex')
      BY <1>1, StepKeeps
    <2>2. Good(ex') /\ prog' = prog
      BY <1>1, <1>2, StepGood DEF PrioInv, Stepped
    <2>3. 1 .. ex'.num \subseteq Threads
      BY <1>1, <2>1, <2>2, StateThreads
    <2> QED BY <2>1, <2>2, <2>3 DEF Good
  <1>7. /\ m.k = "unlock" => d.locked[m.x] = t /\ m.x \in Objects
        /\ m.k \in {"wait", "timedwait"} => /\ m.y = t \/ d.locked[m.y] = t
                                            /\ \/ m.x \in Objects /\ m.y \in Objects
                                               \/ m.x = t /\ m.y = t
        /\ m.k = "lock" => m.x \in Objects \cup {t}
        /\ m.k = "trylock" => m.x \in Objects
    BY <1>1, <1>4, <1>5, OwnerIs, PendingPlace DEF IsWait
  <1>8. t \notin Objects
    BY RuntimeParams
  <1>9. CASE Same(d, ex', {"pend"}) /\ ex'.pend = [d.pend EXCEPT ![t] = m]
    <2>1. Same(d, ex', {"pend"})
      BY <1>9
    <2>2. ex'.en = d.en /\ ex'.locked = d.locked
      BY <2>1, SameFields
    <2>3. \A u \in Threads \ {t} : ex'.pend[u] = d.pend[u]
      BY <1>9
    <2>4. \A u \in Threads \ {} : IsWait(ex'.pend[u]) /\ ex'.en[u] # Enabled
                                    => ex'.pend[u] = ex.pend[u] /\ ex.en[u] # Enabled
      BY <1>4, <1>5, <2>2, <2>3
    <2>5. \A c : WaitersOf(ex', c) \subseteq WaitersOf(ex, c) \cup WaitersIn({}, ex', c)
      BY <1>1, <1>6, <2>4, WaitersFewer
    <2> QED BY <1>5, <2>2, <2>5, IsWake DEF WaitersIn
  <1>10. ASSUME NEW f, Effect(d, t, m, f), Ended(t, m, d, f, ex') PROVE Mon!Next
    <2>1. /\ ex'.pend = f.pend /\ ex'.locked = f.locked /\ ex'.num = f.num
          /\ \A u \in Threads \ {t} : ex'.en[u] = f.en[u]
          /\ ex'.en[t] = IF f.st[t] = "blocked" \/ IsComplete(f, t) THEN Disabled ELSE f.en[t]
      BY <1>6, <1>10, EndedFacts
    <2>2. ASSUME NEW u \in Threads \ {t}, ex'.en[u] # Enabled
          PROVE  ex'.pend[u] = ex.pend[u] /\ ex.en[u] # Enabled
      <3>1. f.en[u] \in {Disabled, Enabled, SleepSet} /\ f.en[u] # Enabled
        BY <1>6, <2>1, <2>2
      <3>2. f.pend[u] = d.pend[u] /\ d.en[u] # Enabled
        BY <1>2, <1>7, <1>10, <3>1, EffectFewer
      <3> QED BY <1>5, <2>1, <3>2
    <2>3. \A c : WaitersOf(ex', c) \subseteq WaitersOf(ex, c) \cup WaitersIn({t}, ex', c)
      BY <1>1, <1>6, <2>2, WaitersFewer
    <2>4. \/ ex'.pend[t] = None
          \/ /\ m.k \in {"wait", "timedwait"} /\ ex'.pend[t] = m /\ ex'.en[t] # Enabled
          \/ m.k = "sleep" /\ ex'.pend[t] = m
      <3>1. \/ f.en[t] = Enabled /\ f.st[t] # "blocked" /\ ~IsComplete(f, t) /\ f.pend[t] = None
            \/ /\ m.k \in {"wait", "timedwait"} /\ f.pend[t] = m
               /\ \/ f.en[t] = Disabled /\ f.st[t] = "blocked"
                  \/ f.en[t] = SleepSet /\ f.st[t] # "blocked"
               /\ ~IsComplete(f, t)
            \/ m.k = "sleep" /\ f.pend[t] = m
            \/ f.pend[t] = None
        BY <1>2, <1>4, <1>10, EffectOwn
      <3> QED BY <2>1, <3>1 DEF Disabled, Enabled, SleepSet
    <2>5. \A c \in Objects : WaitersIn({t}, ex', c) # {} =>
            /\ IsWait(ex'.pend[t]) /\ m.k \in {"wait", "timedwait"} /\ ex'.pend[t] = m /\ m.x = c
      BY <2>4 DEF WaitersIn, IsWait, None, Op
    <2>6. \/ ex'.locked = ex.locked /\ (m.k \in {"wait", "timedwait"} => ex'.pend[t] = None)
          \/ m.k = "lock" /\ ex'.locked = [ex.locked EXCEPT ![m.x] = t]
          \/ m.k = "trylock" /\ ex.locked[m.x] = 0 /\ ex'.locked = [ex.locked EXCEPT ![m.x] = t]
          \/ m.k = "unlock" /\ ex'.locked = [ex.locked EXCEPT ![m.x] = 0]
          \/ /\ m.k \in {"wait", "timedwait"} /\ ex'.locked = [ex.locked EXCEPT ![m.y] = 0]
             /\ ex'.pend[t] = m /\ ex'.num = ex.num
      <3>1. LocksAfter(d, t, m, f)
        BY <1>2, <1>10, EffectLocks
      <3>2. /\ d.locked = ex.locked /\ d.num = ex.num /\ d.pend[t] = None
            /\ ex'.locked = f.locked /\ ex'.pend = f.pend /\ ex'.num = f.num
        BY <1>4, <1>5, <2>1
      <3> QED BY ONLY <3>1, <3>2 DEF LocksAfter
    <2>7. ASSUME NEW c \in Objects, m.k \notin {"wait", "timedwait"} \/ m.x # c \/ ~IsWait(ex'.pend[t])
          PROVE  WaitersOf(ex', c) \subseteq WaitersOf(ex, c)
      <3>1. WaitersIn({t}, ex', c) = {}
        BY <2>5, <2>7
      <3> QED BY <2>3, <3>1
    <2>8. CASE ex'.locked = ex.locked /\ (m.k \in {"wait", "timedwait"} => ex'.pend[t] = None)
      <3>1. m.k \notin {"wait", "timedwait"} \/ ~IsWait(ex'.pend[t])
        BY <2>8 DEF IsWait, None, Op
      <3>2. \A c \in Objects : WaitersOf(ex', c) \subseteq WaitersOf(ex, c)
        BY <2>7, <3>1
      <3> QED BY <2>8, <3>2, IsWake
    <2>9. CASE m.k = "lock" /\ ex'.locked = [ex.locked EXCEPT ![m.x] = t]
      <3>1. \A c \in Objects : WaitersOf(ex', c) \subseteq WaitersOf(ex, c)
        BY <2>7, <2>9
      <3>2. CASE m.x = t
        BY <1>1, <1>8, <2>9, <3>1, <3>2, IsWake DEF Places
      <3>3. CASE m.x \in Objects
        <4>1. HasPending(ex, t) /\ ~ex.wake[t] /\ ex.en[t] = Enabled /\ mode = "choose"
          BY <1>3, PickedEnabled DEF Picked
        <4>2. Completes(t)
          BY <2>4, <2>9, <4>1 DEF Completes, HasPending, None, Op, Enabled, SleepSet
        <4>3. CheckActionEnabled(ex, t)
          BY <1>4, <2>9, <4>2, LookedAtFirst DEF Blocking
        <4>4. ex.locked[m.x] = 0 \/ (ex.locked[m.x] = t /\ m.x \in Recursive)
          BY <1>4, <2>9, <4>3, BlockedIs
        <4>5. \A o \in Objects : ex'.locked[o] = IF o = m.x THEN t ELSE ex.locked[o]
          BY <1>1, <2>9 DEF Places
        <4> QED BY <3>1, <3>3, <4>4, <4>5, IsAcquire
      <3> QED BY <1>7, <2>9, <3>2, <3>3
    <2>10. CASE m.k = "trylock" /\ ex.locked[m.x] = 0 /\ ex'.locked = [ex.locked EXCEPT ![m.x] = t]
      <3>1. \A o \in Objects : ex'.locked[o] = IF o = m.x THEN t ELSE ex.locked[o]
        BY <1>1, <2>10 DEF Places
      <3>2. \A c \in Objects : WaitersOf(ex', c) \subseteq WaitersOf(ex, c)
        BY <2>7, <2>10
      <3> QED BY <1>7, <2>10, <3>1, <3>2, IsAcquire
    <2>11. CASE m.k = "unlock" /\ ex'.locked = [ex.locked EXCEPT ![m.x] = 0]
      <3>1. \A o \in Objects : ex'.locked[o] = IF o = m.x THEN 0 ELSE ex.locked[o]
        BY <1>1, <2>11 DEF Places
      <3>2. \A c \in Objects : WaitersOf(ex', c) \subseteq WaitersOf(ex, c)
        BY <2>7, <2>11
      <3> QED BY <1>5, <1>7, <2>11, <3>1, <3>2, IsRelease
    <2>12. CASE /\ m.k \in {"wait", "timedwait"} /\ ex'.locked = [ex.locked EXCEPT ![m.y] = 0]
                /\ ex'.pend[t] = m /\ ex'.num = ex.num
      <3>1. CASE m.x = t /\ m.y = t
        <4>1. \A o \in Objects : ex'.locked[o] = ex.locked[o]
          BY <1>1, <1>8, <2>12, <3>1 DEF Places
        <4>2. \A c \in Objects : WaitersOf(ex', c) \subseteq WaitersOf(ex, c)
          BY <1>8, <2>7, <3>1
        <4> QED BY <4>1, <4>2, IsWake
      <3>2. CASE m.x \in Objects /\ m.y \in Objects
        <4>1. ex.locked[m.y] = t
          BY <1>5, <1>7, <1>8, <2>12, <3>2
        <4>2. \A o \in Objects : ex'.locked[o] = IF o = m.y THEN 0 ELSE ex.locked[o]
          BY <1>1, <2>12, <3>2 DEF Places
        <4>3. IsWait(m) /\ m # None
          BY <2>12 DEF IsWait, None, Op
        <4>4. ex'.en[t] # Enabled
          BY <2>4, <2>12, <4>3
        <4>5. t \in 1 .. ex'.num
          BY <1>1, <1>4, <1>5, <2>12 DEF Threads
        <4>6. t \in WaitersOf(ex', m.x)
          BY <2>12, <4>3, <4>4, <4>5 DEF WaitersOf
        <4>7. ASSUME NEW c \in Objects
              PROVE  WaitersOf(ex', c) \subseteq WaitersOf(ex, c) \cup {u \in {t} : c = m.x}
          <5>1. CASE c = m.x
            <6>1. WaitersIn({t}, ex', c) \subseteq {u \in {t} : c = m.x}
              BY <5>1 DEF WaitersIn
            <6> QED BY <2>3, <6>1
          <5>2. CASE c # m.x
            BY <2>7, <5>2
          <5> QED BY <5>1, <5>2
        <4> QED BY <3>2, <4>1, <4>2, <4>6, <4>7, IsMonitorWait
      <3> QED BY <1>7, <2>12, <3>1, <3>2
    <2> QED BY <2>6, <2>8, <2>9, <2>10, <2>11, <2>12
  <1> QED BY <1>3, <1>9, <1>10

----------------------------------------------------------------------------

\* At the start nobody holds a mutex or waits.
LEMMA MonitorInit == ASSUME Init PROVE Mon!Init
  <1>1. /\ ex.locked = [m \in Objects \cup Threads |-> 0] /\ ex.num = 1
        /\ ex.pend = [t \in Threads |-> None]
    BY DEF Init, Initial
  <1>2. \A t \in 1 .. ex.num : ~IsWait(ex.pend[t])
    BY <1>1, PctParams DEF IsWait, None, Op, Threads
  <1> QED BY <1>1, <1>2 DEF Mon!Init, WaitersOf

\* Every step of the runtime is one of the monitor's.
LEMMA MonitorStep ==
  ASSUME TypeInv, LookInv, RestInv, [Next]_vars,
         \A t \in Threads : TakeStep(t) /\ GivesUp(t) \in Objects => ex.locked[GivesUp(t)] = t
  PROVE  Mon!Next
  <1>1. CASE \E t \in Threads : TakeStep(t)
    BY <1>1, TakeMonitor
  <1>2. CASE FinishExecution
    <2>1. ex' = ex \/ ex' = Initial(MainSlot, prog)
      BY <1>2 DEF FinishExecution
    <2>2. CASE ex' = ex
      BY <2>2, IsWake
    <2>3. CASE ex' = Initial(MainSlot, prog)
      BY <2>3, IsRestart
    <2> QED BY <2>1, <2>2, <2>3
  <1>3. CASE \/ RunThread \/ FreeThread \/ BlockThread \/ PassThread \/ EndScan \/ StopAsserted
             \/ NothingToRun \/ StepOfNobody \/ Over \/ UNCHANGED vars
             \/ \E t \in Threads : ResumeWoken(t)
    BY <1>3, SteadyStep, IsWake
  <1> QED BY <1>1, <1>2, <1>3 DEF Next

\* Mutexes and condition variables behave as Monitor says (process_mutex and the
\* waits of process_thread_action): a mutex goes from owner to owner only when it
\* is free, only its owner gives it up, and a wait releases it in the same step,
\* provided threads release the mutexes they own only and what a thread that is
\* chosen already comes to can be executed.
THEOREM PctIsMonitor == Spec /\ ChosenCanGo /\ OwnersRelease => IsMonitor
  <1>1. Init => Invs /\ Mon!Init
    BY InvsInit, MonitorInit
  <1>2. UNCHANGED vars => ChosenComes /\ OwnersGive
    BY Steady
  <1>3. Invs /\ [Next]_vars /\ [ChosenComes]_vars /\ [OwnersGive]_vars => Invs'
    BY <1>2, InvsStep
  <1>4. Invs /\ [Next]_vars /\ [ChosenComes]_vars /\ [OwnersGive]_vars => [Mon!Next]_(Mon!vars)
    BY <1>2, MonitorStep DEF Invs, OwnersGive
  <1> QED BY <1>1, <1>3, <1>4, PTL DEF Spec, ChosenCanGo, OwnersRelease, IsMonitor, Mon!Spec

----------------------------------------------------------------------------
(* Notifications.                                                          *)

\* No waiter is woken because nothing else can run: select_next_thread leaves
\* such a one in the list of its condition variable.
NoneForced == \A t \in Threads : ResumeWoken(t) /\ IsWait(ex.pend[t]) => ex.en[t] = Enabled
NeverForced == [][NoneForced]_vars

\* A thread is in the list of a condition variable only while it waits on it,
\* and once.
ListIs(e, t) ==
  \A c \in Places : e.waiters[c][t] # 0 =>
    e.waiters[c][t] = 1 /\ IsWait(e.pend[t]) /\ e.pend[t].x = c /\ e.en[t] # Enabled
ListInv == \A t \in Threads : ListIs(ex, t)

\* So it stays while the thread keeps its operation and is not woken.
LEMMA ListKept ==
  ASSUME NEW e, NEW f, NEW u \in Threads, ListIs(e, u), f.pend[u] = e.pend[u],
         f.en[u] = Enabled => e.en[u] = Enabled,
         \A c \in Places : f.waiters[c][u] \in {0, e.waiters[c][u]}
  PROVE  ListIs(f, u)
  BY DEF ListIs

\* A thread that does not wait is in no list.
LEMMA ListNone ==
  ASSUME NEW e, NEW u \in Threads, ListIs(e, u), ~IsWait(e.pend[u]) \/ e.en[u] = Enabled
  PROVE  \A c \in Places : e.waiters[c][u] = 0
  BY DEF ListIs

\* The sleepers that wake up leave the lists.
LEMMA PreparedLists ==
  ASSUME IsState(ex), Good(ex), NEW t \in Threads, NEW W, NEW d, Prepared(t, W, d), ListInv,
         ex.en[t] = Enabled
  PROVE  /\ \A u \in Threads : ListIs(d, u)
         /\ \A c \in Places : d.waiters[c][t] = 0
  <1>1. /\ d.pend[t] = None /\ \A u \in Threads \ {t} : d.pend[u] = ex.pend[u]
        /\ \A u \in W : u \in Threads /\ ex.en[u] = SleepSet
        /\ \A u \in Threads : d.en[u] = IF u \in W THEN Enabled ELSE ex.en[u]
    BY PreparedFacts
  <1>2. \A c \in Places, u \in Threads :
          /\ d.waiters[c][u] <= ex.waiters[c][u]
          /\ ~(u \in W /\ IsWait(d.pend[u]) /\ d.pend[u].x = c) => d.waiters[c][u] = ex.waiters[c][u]
          /\ u \in W /\ IsWait(d.pend[u]) /\ d.pend[u].x = c => d.waiters[c][u] \in {0, ex.waiters[c][u] - 1}
    BY DEF Prepared, WaitersAfter
  <1>3. t \notin W
    BY <1>1 DEF Enabled, SleepSet
  <1>4. \A c \in Places : d.waiters[c][t] = 0
    <2>1. \A c \in Places : ex.waiters[c][t] = 0
      BY ListNone DEF ListInv
    <2> QED BY <1>2, <1>3, <2>1
  <1>5. ASSUME NEW u \in Threads PROVE ListIs(d, u)
    <2>1. ListIs(ex, u)
      BY DEF ListInv
    <2>2. CASE u = t
      BY <1>4, <2>2 DEF ListIs
    <2>3. CASE u # t /\ u \notin W
      <3>1. d.pend[u] = ex.pend[u] /\ d.en[u] = ex.en[u]
        BY <1>1, <2>3
      <3>2. \A c \in Places : d.waiters[c][u] = ex.waiters[c][u]
        BY <1>2, <2>3
      <3> QED BY <2>1, <3>1, <3>2, ListKept
    <2>4. CASE u # t /\ u \in W
      <3>1. ASSUME NEW c \in Places PROVE d.waiters[c][u] = 0
        <4>1. d.pend[u] = ex.pend[u]
          BY <1>1, <2>4
        <4>2. ex.waiters[c][u] # 0 => ex.waiters[c][u] = 1 /\ IsWait(ex.pend[u]) /\ ex.pend[u].x = c
          BY <2>1 DEF ListIs
        <4>3. ex.waiters[c][u] = 0 => d.waiters[c][u] = 0 \/ (IsWait(ex.pend[u]) /\ ex.pend[u].x = c)
          BY <1>2, <4>1
        <4>4. CASE IsWait(ex.pend[u]) /\ ex.pend[u].x = c
          <5>1. d.waiters[c][u] \in {0, ex.waiters[c][u] - 1} /\ d.waiters[c][u] <= ex.waiters[c][u]
            BY <1>2, <2>4, <4>1, <4>4
          <5>2. ex.waiters[c][u] \in {0, 1} /\ d.waiters[c][u] \in Nat
            BY <4>2 DEF Prepared
          <5> QED BY <5>1, <5>2
        <4>5. CASE ~(IsWait(ex.pend[u]) /\ ex.pend[u].x = c)
          BY <4>2, <4>3, <4>5
        <4> QED BY <4>4, <4>5
      <3> QED BY <3>1 DEF ListIs
    <2> QED BY <2>2, <2>3, <2>4
  <1> QED BY <1>4, <1>5

\* An operation enlists its own thread only, and whom a notification wakes is
\* in no list afterwards.
LEMMA EffectLists ==
  ASSUME NEW e, IsState(e), Good(e), NEW t \in Threads, NEW o, NEW f, Effect(e, t, o, f),
         o.k \in {"wait", "timedwait", "notify_one", "notify_all"} => o.x \in Places,
         \A c \in Places : e.waiters[c][t] = 0, e.pend[t] = None,
         NEW u \in Threads, ListIs(e, u)
  PROVE  ListIs(f, u)
  <1>0. /\ e.en \in [Threads -> {Disabled, Enabled, SleepSet}] /\ e.pend \in [Threads -> Ops]
        /\ e.waiters \in [Places -> [Threads -> Nat]] /\ e.num \in Nat
        /\ \A c \in Places : Listed(e.waiters[c]) \subseteq 1 .. e.num
    BY DEF IsState, Good
  <1>1. ASSUME \A c \in Places : e.waiters[c][u] = 0, f.waiters = e.waiters PROVE ListIs(f, u)
    BY <1>1 DEF ListIs
  <1>2. ASSUME NEW F, Same(e, f, F), {"en", "pend", "waiters"} \cap F = {} PROVE ListIs(f, u)
    <2>1. f.en = e.en /\ f.pend = e.pend /\ f.waiters = e.waiters
      BY <1>2, SameFields
    <2> QED BY <2>1, ListKept
  <1>3. ASSUME NEW F, Same(e, f, F), {"pend", "waiters"} \cap F = {}, NEW V,
               f.en[u] = (IF u \in V THEN Enabled ELSE e.en[u]), u \in V => ~IsWait(e.pend[u])
        PROVE  ListIs(f, u)
    <2>1. f.pend = e.pend /\ f.waiters = e.waiters
      BY <1>3, SameFields
    <2>2. CASE u \in V
      <3>1. \A c \in Places : e.waiters[c][u] = 0
        BY <1>3, <2>2, ListNone
      <3> QED BY <1>1, <2>1, <3>1
    <2>3. CASE u \notin V
      BY <1>3, <2>1, <2>3, ListKept
    <2> QED BY <2>2, <2>3
  <1>4. CASE o.k = "create" /\ Same(e, f, {"num", "en", "p"}) /\ f.en = [e.en EXCEPT ![e.num + 1] = Enabled]
    <2>1. Same(e, f, {"num", "en", "p"})
      BY <1>4
    <2>2. f.en[u] = (IF u \in {e.num + 1} THEN Enabled ELSE e.en[u])
      BY <1>0, <1>4
    <2>3. u \in {e.num + 1} => ~HasPending(e, u)
      BY <1>0, PendingPlace
    <2>4. ~HasPending(e, u) => ~IsWait(e.pend[u])
      BY DEF HasPending, IsWait
    <2> QED BY <1>3, <2>1, <2>2, <2>3, <2>4
  <1>5. CASE o.k = "unlock" /\ Same(e, f, {"en", "st", "locked"}) /\ f.en = Set(e.en, LockWaiters(e, t), Enabled)
    <2>1. Same(e, f, {"en", "st", "locked"})
      BY <1>5
    <2>2. f.en[u] = (IF u \in LockWaiters(e, t) THEN Enabled ELSE e.en[u])
      BY <1>5 DEF Set
    <2>3. u \in LockWaiters(e, t) => ~IsWait(e.pend[u])
      BY DEF LockWaiters, IsWait
    <2> QED BY <1>3, <2>1, <2>2, <2>3
  <1>6. CASE /\ o.k \in {"exit", "finish"} /\ Same(e, f, {"en", "st"})
             /\ f.en = Set(e.en, JoinWaiters(e, t), Enabled)
    <2>1. Same(e, f, {"en", "st"})
      BY <1>6
    <2>2. f.en[u] = (IF u \in JoinWaiters(e, t) THEN Enabled ELSE e.en[u])
      BY <1>6 DEF Set
    <2>3. u \in JoinWaiters(e, t) => ~IsWait(e.pend[u])
      BY DEF JoinWaiters, IsWait
    <2> QED BY <1>3, <2>1, <2>2, <2>3
  <1>7. CASE /\ o.k \in {"wait", "timedwait"} /\ Same(e, f, {"en", "st", "locked", "waiters", "pend"})
             /\ WaitEffect(e, t, o, f)
             /\ \/ f.en = [Set(e.en, LockWaiters(e, t), Enabled) EXCEPT ![t] = Disabled]
                \/ f.en = [Set(e.en, LockWaiters(e, t), Enabled) EXCEPT ![t] = SleepSet]
    <2>1. f.pend = [e.pend EXCEPT ![t] = o] /\ f.waiters = [e.waiters EXCEPT ![o.x] = Enlisted(@, t)]
      BY <1>7 DEF WaitEffect
    <2>2. CASE u = t
      <3>1. f.pend[u] = o /\ f.en[u] # Enabled
        BY <1>0, <1>7, <2>1, <2>2 DEF Set, Disabled, Enabled, SleepSet
      <3>2. \A c \in Places : f.waiters[c] = IF c = o.x THEN [e.waiters[c] EXCEPT ![t] = @ + 1] ELSE e.waiters[c]
        BY <1>0, <2>1 DEF Enlisted
      <3>3. ASSUME NEW c \in Places PROVE f.waiters[c][u] = IF c = o.x THEN 1 ELSE 0
        <4>1. e.waiters[c] \in [Threads -> Nat] /\ e.waiters[c][u] = 0
          BY <1>0, <2>2
        <4>2. [e.waiters[c] EXCEPT ![t] = @ + 1][u] = 1
          BY <2>2, <4>1
        <4> QED BY <3>2, <4>1, <4>2
      <3> QED BY <1>7, <3>1, <3>3 DEF ListIs, IsWait
    <2>3. CASE u # t
      <3>1. f.pend[u] = e.pend[u]
        BY <1>0, <2>1, <2>3
      <3>2. \A c \in Places : f.waiters[c][u] = e.waiters[c][u]
        BY <1>0, <2>1, <2>3 DEF Enlisted
      <3>3. f.en[u] = IF u \in LockWaiters(e, t) THEN Enabled ELSE e.en[u]
        BY <1>7, <2>3 DEF Set
      <3>4. CASE u \in LockWaiters(e, t)
        <4>1. ~IsWait(e.pend[u])
          BY <3>4 DEF LockWaiters, IsWait
        <4>2. \A c \in Places : e.waiters[c][u] = 0
          BY <4>1, ListNone
        <4> QED BY <3>2, <4>2 DEF ListIs
      <3>5. CASE u \notin LockWaiters(e, t)
        BY <3>1, <3>2, <3>3, <3>5, ListKept
      <3> QED BY <3>4, <3>5
    <2> QED BY <2>2, <2>3
  <1>8. ASSUME o.x \in Places, NEW W, Same(e, f, {"en", "st", "wake", "waiters"}), NotifyEffect(e, W, f),
               \A c \in Places \ {o.x} : f.waiters[c] = e.waiters[c],
               u \in W => f.waiters[o.x][u] \in {0, e.waiters[o.x][u] - 1} /\ e.waiters[o.x][u] # 0,
               u \notin W => f.waiters[o.x][u] = e.waiters[o.x][u]
        PROVE  ListIs(f, u)
    <2>1. f.pend = e.pend
      BY <1>8, SameFields
    <2>2. CASE u \in W
      <3>1. e.waiters[o.x][u] = 1 /\ e.pend[u].x = o.x
        BY <1>8, <2>2 DEF ListIs
      <3>2. f.waiters[o.x][u] = 0
        BY <1>8, <2>2, <3>1
      <3>3. \A c \in Places \ {o.x} : e.waiters[c][u] = 0
        BY <3>1 DEF ListIs
      <3> QED BY <1>8, <3>2, <3>3 DEF ListIs
    <2>3. CASE u \notin W
      <3>1. f.en[u] = e.en[u]
        BY <1>8, <2>3 DEF NotifyEffect, Set
      <3>2. \A c \in Places : f.waiters[c][u] = e.waiters[c][u]
        BY <1>8, <2>3
      <3> QED BY <2>1, <3>1, <3>2, ListKept
    <2> QED BY <2>2, <2>3
  <1>9. CASE /\ o.k = "notify_all" /\ Same(e, f, {"en", "st", "wake", "waiters"})
             /\ NotifyEffect(e, Listed(e.waiters[o.x]), f)
             /\ f.waiters = [e.waiters EXCEPT ![o.x] = Nobody]
    <2>1. \A c \in Places \ {o.x} : f.waiters[c] = e.waiters[c]
      BY <1>0, <1>9
    <2>2. f.waiters[o.x][u] = 0
      BY <1>0, <1>9 DEF Nobody
    <2>3. u \in Listed(e.waiters[o.x]) <=> e.waiters[o.x][u] # 0
      BY <1>0, <1>9 DEF Listed
    <2> QED BY <1>8, <1>9, <2>1, <2>2, <2>3
  <1>10. ASSUME NEW v \in Listed(e.waiters[o.x]), o.k = "notify_one",
                Same(e, f, {"en", "st", "wake", "waiters"}), NotifyEffect(e, {v}, f),
                f.waiters = [e.waiters EXCEPT ![o.x] = Delisted(@, v)]
         PROVE  ListIs(f, u)
    <2>1. \A c \in Places \ {o.x} : f.waiters[c] = e.waiters[c]
      BY <1>0, <1>10
    <2>2. f.waiters[o.x] = [e.waiters[o.x] EXCEPT ![v] = @ - 1]
      BY <1>0, <1>10 DEF Delisted
    <2>3. v \in Threads /\ e.waiters[o.x][v] # 0
      BY <1>10 DEF Listed
    <2>4. f.waiters[o.x][u] = IF u = v THEN e.waiters[o.x][u] - 1 ELSE e.waiters[o.x][u]
      BY <1>0, <1>10, <2>2
    <2> QED BY <1>8, <1>10, <2>1, <2>3, <2>4
  <1>11. CASE o.k = "sleep" /\ f.pend = [e.pend EXCEPT ![t] = o] /\ f.en = [e.en EXCEPT ![t] = SleepSet]
              /\ Same(e, f, {"pend", "en"})
    <2>1. Same(e, f, {"pend", "en"})
      BY <1>11
    <2>2. f.waiters = e.waiters
      BY <2>1, SameFields
    <2>3. CASE u = t
      BY <1>1, <2>2, <2>3
    <2>4. CASE u # t
      <3>1. f.pend[u] = e.pend[u] /\ f.en[u] = e.en[u]
        BY <1>0, <1>11, <2>4
      <3> QED BY <2>2, <3>1, ListKept
    <2> QED BY <2>3, <2>4
  <1>12. CASE Same(e, f, {"locked"}) \/ Same(e, f, {"locked", "ret"}) \/ Same(e, f, {"ret"})
              \/ Same(e, f, {"st", "over"}) \/ Same(e, f, {})
    BY <1>2, <1>12
  <1> QED BY <1>4, <1>5, <1>6, <1>7, <1>9, <1>10, <1>11, <1>12 DEF Effect

\* The step of a thread keeps the lists.
LEMMA ListTake ==
  ASSUME TypeInv, LookInv, RestInv, ListInv, NEW t \in Threads, TakeStep(t)
  PROVE  ListInv'
  <1>1. prog \in Programs /\ IsState(ex) /\ PrioInv /\ Good(ex)
    BY DEF TypeInv, PrioInv
  <1>2. PICK W, d, m : Stepped(t, W, d, m) /\ Good(d) /\ IsState(d)
    BY <1>1, StepIs
  <1>3. /\ Picked(t) /\ Prepared(t, W, d)
        /\ \/ Same(d, ex', {"pend"}) /\ ex'.pend = [d.pend EXCEPT ![t] = m]
           \/ \E f : Effect(d, t, m, f) /\ Ended(t, m, d, f, ex')
    BY <1>2 DEF Stepped
  <1>4. /\ d.pend[t] = None
        /\ m.k \in {"wait", "timedwait", "notify_one", "notify_all"} => m.x \in Places
    BY <1>2, TakeIs
  <1>5. /\ \A u \in Threads : ListIs(d, u)
        /\ \A c \in Places : d.waiters[c][t] = 0
    BY <1>1, <1>3, PickedEnabled, PreparedLists
  <1>6. DOMAIN ex'.en = Threads
    <2>1. Good(ex')
      BY <1>1, StepGood DEF PrioInv
    <2> QED BY <2>1 DEF Good
  <1>7. ASSUME NEW u \in Threads PROVE ListIs(ex', u)
    <2>1. CASE Same(d, ex', {"pend"}) /\ ex'.pend = [d.pend EXCEPT ![t] = m]
      <3>1. Same(d, ex', {"pend"})
        BY <2>1
      <3>2. ex'.en = d.en /\ ex'.waiters = d.waiters
        BY <3>1, SameFields
      <3>3. u # t => ex'.pend[u] = d.pend[u]
        BY <1>2, <2>1 DEF IsState
      <3> QED BY <1>5, <3>2, <3>3, ListKept DEF ListIs
    <2>2. ASSUME NEW f, Effect(d, t, m, f), Ended(t, m, d, f, ex') PROVE ListIs(ex', u)
      <3>1. ListIs(f, u)
        BY <1>2, <1>4, <1>5, <2>2, EffectLists
      <3>2. /\ ex'.pend = f.pend /\ ex'.waiters = f.waiters
            /\ u # t => ex'.en[u] = f.en[u]
            /\ ex'.en[t] = IF f.st[t] = "blocked" \/ IsComplete(f, t) THEN Disabled ELSE f.en[t]
        BY <1>6, <2>2, EndedFacts
      <3>3. ex'.en[u] = Enabled => f.en[u] = Enabled
        BY <3>2 DEF Disabled, Enabled
      <3> QED BY <3>1, <3>2, <3>3, ListKept
    <2> QED BY <1>3, <2>1, <2>2
  <1> QED BY <1>7 DEF ListInv

\* So does every other step, if no waiter is forced awake.
LEMMA ListStep ==
  ASSUME TypeInv, LookInv, RestInv, ListInv, [Next]_vars, NoneForced
  PROVE  ListInv'
  <1>1. /\ IsState(ex) /\ DOMAIN ex = Fields /\ DOMAIN ex.en = Threads
        /\ ex.waiters \in [Places -> [Threads -> Nat]] /\ ex.pend \in [Threads -> Ops]
        /\ prog \in Programs
    BY DEF TypeInv, PrioInv, IsState, Good
  <1>2. \A u \in Threads : ListIs(ex, u)
    BY DEF ListInv
  <1>3. ASSUME ex'.waiters = ex.waiters, ex'.pend = ex.pend,
               \A u \in Threads : ex'.en[u] = Enabled => ex.en[u] = Enabled
        PROVE  ListInv'
    <2>1. ASSUME NEW u \in Threads PROVE ListIs(ex', u)
      BY <1>2, <1>3, ListKept
    <2> QED BY <2>1 DEF ListInv
  <1>4. CASE RunThread
    <2>1. /\ scan \in Threads /\ ~IsComplete(ex, scan) /\ ~HasPending(ex, scan)
          /\ \/ ex' = ex
             \/ ex.last[scan].k \notin {"finish", "exit"} /\ ex' = UserRuns(ex, scan)
      BY <1>4, ScanExists DEF RunThread
    <2>2. CASE ex' = ex
      BY <1>3, <2>2
    <2>3. CASE ex.last[scan].k \notin {"finish", "exit"} /\ ex' = UserRuns(ex, scan)
      <3>1. PICK o, r : UserStep(ex, ex', scan, o, r)
        BY <1>1, <2>1, <2>3, UserIs
      <3>2. /\ \A u \in Threads \ {scan} : ex'.pend[u] = ex.pend[u]
            /\ ex'.en = ex.en
        BY <1>1, <2>1, <3>1, UserChanges
      <3>3. ex'.waiters \in {ex.waiters, [ex.waiters EXCEPT ![scan] = Nobody]}
        BY <3>1 DEF UserStep
      <3>4. \A u \in Threads, c \in Places : ex'.waiters[c][u] \in {0, ex.waiters[c][u]}
        BY <1>1, <3>3 DEF Nobody
      <3>5. ~IsWait(ex.pend[scan])
        BY <2>1 DEF IsWait, HasPending
      <3>6. \A c \in Places : ex.waiters[c][scan] = 0
        BY <1>2, <2>1, <3>5, ListNone
      <3>7. ASSUME NEW u \in Threads PROVE ListIs(ex', u)
        <4>1. CASE u = scan
          BY <3>4, <3>6, <4>1 DEF ListIs
        <4>2. CASE u # scan
          <5>1. ex'.pend[u] = ex.pend[u]
            BY <3>2, <4>2
          <5> QED BY <1>2, <3>2, <3>4, <5>1, ListKept
        <4> QED BY <4>1, <4>2
      <3> QED BY <3>7 DEF ListInv
    <2> QED BY <2>1, <2>2, <2>3
  <1>5. CASE FreeThread
    <2>1. ex' \in {ex, [ex EXCEPT !.st[scan] = "freed"]}
      BY <1>5 DEF FreeThread
    <2>2. ex'.pend = ex.pend /\ ex'.en = ex.en /\ ex'.waiters = ex.waiters
      BY <1>1, <2>1 DEF Fields
    <2> QED BY <1>3, <2>2
  <1>6. CASE BlockThread
    <2>1. ex' = SleepThread(ex, scan) /\ scan \in Threads
      BY <1>6, ScanExists DEF BlockThread
    <2>2. ex'.pend = ex.pend /\ ex'.waiters = ex.waiters /\ ex'.en = [ex.en EXCEPT ![scan] = Disabled]
      BY <1>1, <2>1 DEF SleepThread, Fields
    <2>3. \A u \in Threads : ex'.en[u] = Enabled => ex.en[u] = Enabled
      BY <1>1, <2>2 DEF Disabled, Enabled
    <2> QED BY <1>3, <2>2, <2>3
  <1>7. CASE PassThread \/ EndScan \/ StopAsserted \/ StepOfNobody \/ Over \/ UNCHANGED vars
    <2>1. ex' = ex
      BY <1>7 DEF PassThread, EndScan, StopAsserted, StepOfNobody, Over, vars
    <2> QED BY <1>3, <2>1
  <1>8. CASE NothingToRun
    <2>1. ex' = ex \/ ex' = [ex EXCEPT !.bug = "deadlock"]
      BY <1>8 DEF NothingToRun, Reported
    <2>2. ex'.pend = ex.pend /\ ex'.en = ex.en /\ ex'.waiters = ex.waiters
      BY <1>1, <2>1 DEF Fields
    <2> QED BY <1>3, <2>2
  <1>9. ASSUME NEW t \in Threads, ResumeWoken(t) PROVE ListInv'
    <2>1. PICK pick \in Picks : pick[1] = t /\ ex' = [pick[2] EXCEPT !.wake[t] = FALSE, !.pend[t] = None]
      BY <1>9 DEF ResumeWoken
    <2>2. pick[2] = ex \/ pick[2] = [ex EXCEPT !.en[t] = Enabled, !.wake[t] = TRUE]
      BY <2>1, PickFrom
    <2>3. /\ DOMAIN pick[2] = Fields /\ pick[2].pend = ex.pend /\ pick[2].waiters = ex.waiters
          /\ pick[2].en = ex.en \/ pick[2].en = [ex.en EXCEPT ![t] = Enabled]
      BY <1>1, <2>2 DEF Fields
    <2>4. /\ ex'.pend = [ex.pend EXCEPT ![t] = None]
          /\ ex'.waiters = ex.waiters /\ ex'.en = pick[2].en
      BY <2>1, <2>3 DEF Fields
    <2>5. ~IsWait(ex.pend[t]) \/ ex.en[t] = Enabled
      BY <1>9 DEF NoneForced
    <2>6. \A c \in Places : ex.waiters[c][t] = 0
      BY <1>2, <2>5, ListNone
    <2>7. ASSUME NEW u \in Threads PROVE ListIs(ex', u)
      <3>1. CASE u = t
        BY <2>4, <2>6, <3>1 DEF ListIs
      <3>2. CASE u # t
        <4>1. ex'.pend[u] = ex.pend[u] /\ ex'.en[u] = ex.en[u]
          BY <1>1, <2>3, <2>4, <3>2
        <4> QED BY <1>2, <2>4, <4>1, ListKept
      <3> QED BY <3>1, <3>2
    <2> QED BY <2>7 DEF ListInv
  <1>10. CASE FinishExecution
    <2>1. ex' = ex \/ ex' = Initial(MainSlot, prog)
      BY <1>10 DEF FinishExecution
    <2>2. CASE ex' = Initial(MainSlot, prog)
      <3>1. \A c \in Places, u \in Threads : ex'.waiters[c][u] = 0
        BY <2>2 DEF Initial, Nobody, Places
      <3> QED BY <3>1 DEF ListInv, ListIs
    <2> QED BY <1>3, <2>1, <2>2
  <1> QED BY <1>4, <1>5, <1>6, <1>7, <1>8, <1>9, <1>10, ListTake DEF Next

\* Nobody is in a list at the start.
LEMMA ListInit == ASSUME Init PROVE ListInv
  <1>1. ex = Initial(MainSlot, prog)
    BY DEF Init
  <1>2. \A c \in Places, u \in Threads : ex.waiters[c][u] = 0
    BY <1>1 DEF Initial, Nobody, Places
  <1> QED BY <1>2 DEF ListInv, ListIs

\* What NotifyReaches says of the operation of t.
Reaches(t) ==
  /\ ex.pend[t].k = "notify_one" /\ WaitersOf(ex, ex.pend[t].x) # {}
       => ~(WaitersOf(ex, ex.pend[t].x) \subseteq WaitersOf(ex', ex.pend[t].x))
  /\ ex.pend[t].k = "notify_all" => WaitersOf(ex', ex.pend[t].x) = {}

\* A notification ends the wait of the threads it takes off the list.
LEMMA NotifiedEnd ==
  ASSUME NEW e, NEW W, NEW f, NotifyEffect(e, W, f), NEW u \in W, u \in 1 .. e.num, u \in Threads,
         IsWait(e.pend[u]), IsComplete(e, u) => ~HasPending(e, u)
  PROVE  f.en[u] = Enabled
  <1>1. HasPending(e, u)
    BY DEF HasPending, IsWait
  <1>2. e.st[u] # "completed"
    BY <1>1 DEF IsComplete
  <1> QED BY <1>2 DEF NotifyEffect, Set

\* When a thread executes a notification, those that wait are in the list.
LEMMA NotifyStep ==
  ASSUME TypeInv, LookInv, RestInv, ListInv, [Next]_vars, NEW t \in Threads, Completes(t)
  PROVE  Reaches(t)
  <1> DEFINE x == ex.pend[t].x
  <1>1. prog \in Programs /\ IsState(ex) /\ PrioInv /\ Good(ex) /\ TakeStep(t)
    BY CompletesIs DEF TypeInv, PrioInv
  <1>2. PICK W, d, m : Stepped(t, W, d, m) /\ Good(d) /\ IsState(d)
    BY <1>1, StepIs
  <1>3. /\ Picked(t) /\ Prepared(t, W, d)
        /\ \/ ex'.pend = [d.pend EXCEPT ![t] = m]
           \/ \E f : Effect(d, t, m, f) /\ Ended(t, m, d, f, ex')
    BY <1>2 DEF Stepped
  <1>4. /\ t \notin W /\ d.en[t] = Enabled /\ d.pend[t] = None
        /\ m.k = ex.pend[t].k /\ m.x = x
        /\ m.k \in {"wait", "timedwait", "notify_one", "notify_all"} => m.x \in Places
        /\ \A u \in Threads : IsComplete(d, u) => ~HasPending(d, u)
    BY <1>2, TakeIs
  <1>5. /\ d.num = ex.num
        /\ \A u \in Threads \ {t} : d.pend[u] = ex.pend[u]
        /\ \A u \in Threads : d.en[u] = IF u \in W THEN Enabled ELSE ex.en[u]
    BY <1>1, <1>3, PreparedFacts
  <1>6. DOMAIN ex'.en = Threads /\ 1 .. ex'.num \subseteq Threads /\ 1 .. ex.num \subseteq Threads
    <2>1. Good(ex') /\ prog' = prog /\ IsState(ex')
      BY <1>1, <1>2, StepGood, StepKeeps DEF PrioInv, Stepped
    <2> QED BY <1>1, <2>1, StateThreads DEF Good
  <1>7. \A u \in Threads : ListIs(d, u)
    BY <1>1, <1>3, PickedEnabled, PreparedLists
  <1>8. \A u \in Threads \ {t} : RestIsOf(d, u)
    BY <1>1, <1>2, <1>3, PreparedRests DEF RestInv
  <1>9. PICK f : Effect(d, t, m, f) /\ Ended(t, m, d, f, ex')
    <2>1. d.pend \in [Threads -> Ops] /\ m.k # "none" /\ ~HasPending(ex', t)
      BY <1>2, <1>4 DEF IsState, Completes, HasPending
    <2>2. ex'.pend # [d.pend EXCEPT ![t] = m]
      BY <2>1 DEF HasPending
    <2> QED BY <1>3, <2>2
  <1>10. /\ ex'.num = f.num /\ ex'.pend = f.pend
         /\ \A u \in Threads \ {t} : ex'.en[u] = f.en[u]
    BY <1>6, <1>9, EndedFacts
  <1> HIDE DEF x
  <1>11. ASSUME NEW u, u \in WaitersOf(d, x), x \in Places
         PROVE  u \in Threads \ {t} /\ u \in 1 .. d.num /\ IsWait(d.pend[u]) /\ u \in Listed(d.waiters[x])
    <2>1. u \in 1 .. d.num /\ IsWait(d.pend[u]) /\ d.pend[u].x = x /\ d.en[u] # Enabled
      BY <1>11 DEF WaitersOf
    <2>2. u \in Threads \ {t}
      BY <1>4, <1>5, <1>6, <2>1
    <2> QED BY <1>8, <2>1, <2>2 DEF RestIsOf
  <1>12. CASE m.k = "notify_all"
    <2>1. NotifyEffect(d, Listed(d.waiters[x]), f) /\ Same(d, f, {"en", "st", "wake", "waiters"})
      BY <1>4, <1>9, <1>12 DEF Effect
    <2>2. f.pend = d.pend /\ f.num = d.num
      BY <2>1, SameFields
    <2>3. ASSUME NEW u, u \in WaitersOf(ex', x) PROVE FALSE
      <3>1. u \in 1 .. d.num /\ IsWait(d.pend[u]) /\ d.pend[u].x = x /\ ex'.en[u] # Enabled
        BY <1>10, <2>2, <2>3 DEF WaitersOf
      <3>2. u \in Threads \ {t}
        BY <1>4, <1>5, <1>6, <3>1 DEF IsWait, None, Op
      <3>3. f.en[u] # Enabled
        BY <1>10, <3>1, <3>2
      <3>4. d.en[u] # Enabled
        BY <2>1, <3>2, <3>3 DEF NotifyEffect, Set
      <3>5. u \in Listed(d.waiters[x])
        BY <1>4, <1>11, <1>12, <3>1, <3>4 DEF WaitersOf
      <3> QED BY <1>4, <2>1, <3>1, <3>2, <3>3, <3>5, NotifiedEnd
    <2> QED BY <1>4, <1>12, <2>3 DEF Reaches, x
  <1>13. CASE m.k = "notify_one"
    <2> SUFFICES ASSUME NEW w, w \in WaitersOf(ex, x)
                 PROVE  \E v \in WaitersOf(ex, x) : v \in Threads \ {t} /\ ex'.en[v] = Enabled
      BY <1>4, <1>13 DEF Reaches, WaitersOf, x
    <2>1. w \in 1 .. ex.num /\ IsWait(ex.pend[w]) /\ ex.pend[w].x = x /\ ex.en[w] # Enabled
      BY DEF WaitersOf
    <2>2. w \in Threads \ {t}
      BY <1>4, <1>6, <1>13, <2>1 DEF IsWait
    <2>3. x \in Places
      BY <1>4, <1>13
    <2>4. CASE w \in W
      <3>1. Effect(d, t, m, f) => f.en[w] = Enabled
        <4>1. d.en[w] = Enabled
          BY <1>5, <2>2, <2>4
        <4>2. CASE Same(d, f, {})
          BY <4>1, <4>2, SameFields
        <4>3. ASSUME NEW u, NotifyEffect(d, {u}, f) PROVE f.en[w] = Enabled
          BY <2>2, <4>1, <4>3 DEF NotifyEffect, Set
        <4> QED BY <1>9, <1>13, <4>2, <4>3 DEF Effect
      <3> QED BY <1>9, <1>10, <2>2, <3>1
    <2>5. CASE w \notin W
      <3>1. w \in WaitersOf(d, x)
        BY <1>5, <2>1, <2>2, <2>5 DEF WaitersOf
      <3>2. w \in Listed(d.waiters[x])
        BY <1>11, <2>3, <3>1
      <3>3. PICK v \in Listed(d.waiters[x]) : NotifyEffect(d, {v}, f)
        BY <1>4, <1>9, <1>13, <3>2 DEF Effect
      <3>4. v \in Threads /\ v \in 1 .. d.num /\ d.waiters[x][v] # 0
        BY <1>2, <2>3, <3>3 DEF Listed, Good, IsState
      <3>5. IsWait(d.pend[v]) /\ d.pend[v].x = x /\ d.en[v] # Enabled
        BY <1>7, <2>3, <3>4 DEF ListIs
      <3>6. v # t
        BY <1>4, <3>5
      <3>7. f.en[v] = Enabled
        BY <1>4, <3>3, <3>4, <3>5, NotifiedEnd
      <3>8. ex.en[v] # Enabled /\ ex.pend[v] = d.pend[v]
        BY <1>5, <3>4, <3>5, <3>6
      <3>9. v \in WaitersOf(ex, x)
        BY <1>5, <3>4, <3>5, <3>8 DEF WaitersOf
      <3> QED BY <1>10, <3>4, <3>6, <3>7, <3>9
    <2> QED BY <2>4, <2>5
  <1> QED BY <1>4, <1>12, <1>13 DEF Reaches

\* Nothing is forced in a step that changes nothing.
LEMMA SteadyLists == ASSUME UNCHANGED vars PROVE NoneForced
  <1>1. \A t \in Threads : ~ResumeWoken(t)
    <2>1. ASSUME NEW t \in Threads, ResumeWoken(t) PROVE FALSE
      BY <2>1 DEF ResumeWoken, vars
    <2> QED BY <2>1
  <1> QED BY <1>1 DEF NoneForced

\* A notification is never spent on nobody (notify_one and notify_all of
\* process_thread_action), provided no waiter is forced awake: the lists hold
\* threads that wait, each once, and every thread that waits.
THEOREM PctNotifies == Spec /\ ChosenCanGo /\ NeverForced => NotifyReaches
  <1> DEFINE I == TypeInv /\ LookInv /\ RestInv /\ ListInv
             Reach == \A t \in Threads :
               /\ Completes(t) /\ ex.pend[t].k = "notify_one" /\ WaitersOf(ex, ex.pend[t].x) # {}
                    => ~(WaitersOf(ex, ex.pend[t].x) \subseteq WaitersOf(ex', ex.pend[t].x))
               /\ Completes(t) /\ ex.pend[t].k = "notify_all" => WaitersOf(ex', ex.pend[t].x) = {}
  <1>1. Init => I
    BY InitialTypes, LookInit, RestInit, ListInit
  <1>2. I /\ [Next]_vars /\ [ChosenComes]_vars /\ [NoneForced]_vars => I'
    <2>1. UNCHANGED vars => ChosenComes /\ NoneForced
      BY Steady, SteadyLists
    <2>2. ASSUME I, [Next]_vars, ChosenComes, NoneForced PROVE I'
      BY <2>2, TypesStep, LookStep, RestStep, ListStep
    <2> QED BY <2>1, <2>2
  <1>3. I /\ [Next]_vars => [Reach]_vars
    BY NotifyStep DEF Reaches
  <1> QED BY <1>1, <1>2, <1>3, PTL DEF Spec, ChosenCanGo, NeverForced, NotifyReaches

----------------------------------------------------------------------------
(* Marks: what a woken and what a completed thread is.                     *)

\* wakeup_state is set of threads that were in a wait or asleep, and are enabled.
WokenIs(e, t) == e.wake[t] => e.pend[t].k \in {"wait", "timedwait", "sleep"} /\ e.en[t] = Enabled

\* A thread whose last operation is executed is completed, and not enabled any more.
EndIs(e, t) ==
  /\ e.last[t].k \in {"finish", "exit"} /\ ~HasPending(e, t) => IsComplete(e, t)
  /\ IsComplete(e, t) => e.en[t] = Disabled
MarkInv == \A t \in Threads : WokenIs(ex, t) /\ EndIs(ex, t)

\* t keeps what its marks are about, or is made ready to run.
Unmoved(e, t, f) ==
  /\ f.en[t] = e.en[t] /\ f.wake[t] = e.wake[t]
  /\ IsComplete(f, t) <=> IsComplete(e, t)
Readied(e, t, f) ==
  /\ f.en[t] = Enabled /\ ~IsComplete(e, t) /\ ~IsComplete(f, t)
  /\ f.wake[t] => e.wake[t] \/ IsWait(e.pend[t])

\* Either way the marks stay true.
LEMMA MarksKept ==
  ASSUME NEW e, NEW f, NEW u \in Threads, WokenIs(e, u), EndIs(e, u),
         f.pend[u] = e.pend[u], f.last[u].k = e.last[u].k, Unmoved(e, u, f) \/ Readied(e, u, f)
  PROVE  WokenIs(f, u) /\ EndIs(f, u)
  <1>1. CASE Unmoved(e, u, f)
    BY <1>1 DEF Unmoved, WokenIs, EndIs, HasPending
  <1>2. CASE Readied(e, u, f)
    BY <1>2 DEF Readied, WokenIs, EndIs, HasPending, IsWait
  <1> QED BY <1>1, <1>2

\* What t's operation does to the marks of another thread.
LEMMA EffectMoves ==
  ASSUME NEW e, IsState(e), Good(e), NEW t \in Threads, NEW o, NEW f, Effect(e, t, o, f),
         o.k \in {"wait", "timedwait", "notify_one", "notify_all"} => o.x \in Places,
         NEW u \in Threads \ {t}, ListIs(e, u), CompleteIs(e, u)
  PROVE  Unmoved(e, u, f) \/ Readied(e, u, f)
  <1>1. ASSUME f.en[u] = e.en[u], f.wake[u] = e.wake[u], f.st[u] = e.st[u] PROVE Unmoved(e, u, f)
    BY <1>1 DEF Unmoved, IsComplete
  <1>2. ASSUME HasPending(e, u), f.en[u] = Enabled, f.st[u] = "ready",
               f.wake[u] => e.wake[u] \/ IsWait(e.pend[u])
        PROVE  Readied(e, u, f)
    BY <1>2 DEF Readied, IsComplete, CompleteIs
  <1>3. DOMAIN e.en = Threads /\ DOMAIN e.st = Threads /\ e.num \in Nat
    BY DEF Good, IsState
  <1>4. CASE Same(e, f, {"num", "en", "p"}) /\ f.en = [e.en EXCEPT ![e.num + 1] = Enabled]
    <2>1. Same(e, f, {"num", "en", "p"})
      BY <1>4
    <2>2. f.wake = e.wake /\ f.st = e.st
      BY <2>1, SameFields
    <2>3. CASE u = e.num + 1
      <3>1. e.last[u].k = "none"
        <4>1. AtPlace(e, u)
          BY DEF IsState
        <4>2. u > e.num
          BY <1>3, <2>3
        <4> QED BY <4>1, <4>2 DEF AtPlace
      <3>2. ~IsComplete(e, u)
        BY <3>1 DEF CompleteIs
      <3>3. f.en[u] = Enabled
        BY <1>3, <1>4, <2>3
      <3> QED BY <2>2, <3>2, <3>3 DEF Readied, IsComplete
    <2>4. CASE u # e.num + 1
      <3>1. f.en[u] = e.en[u]
        BY <1>3, <1>4, <2>4
      <3> QED BY <1>1, <2>2, <3>1
    <2> QED BY <2>3, <2>4
  <1>5. ASSUME NEW W, \A v \in W : HasPending(e, v),
               f.wake = e.wake, f.en[u] = Set(e.en, W, Enabled)[u], f.st[u] = Set(e.st, W, "ready")[u]
        PROVE  Unmoved(e, u, f) \/ Readied(e, u, f)
    <2>1. CASE u \in W
      <3>1. HasPending(e, u) /\ f.en[u] = Enabled /\ f.st[u] = "ready"
        BY <1>5, <2>1 DEF Set
      <3> QED BY <1>2, <1>5, <3>1
    <2>2. CASE u \notin W
      <3>1. f.en[u] = e.en[u] /\ f.st[u] = e.st[u]
        BY <1>5, <2>2 DEF Set
      <3> QED BY <1>1, <1>5, <3>1
    <2> QED BY <2>1, <2>2
  <1>6. /\ \A v \in LockWaiters(e, t) : HasPending(e, v)
        /\ \A v \in JoinWaiters(e, t) : HasPending(e, v)
    BY DEF LockWaiters, JoinWaiters, HasPending
  <1>7. CASE /\ Same(e, f, {"en", "st", "locked"})
             /\ f.en = Set(e.en, LockWaiters(e, t), Enabled) /\ f.st = Set(e.st, LockWaiters(e, t), "ready")
    <2>1. Same(e, f, {"en", "st", "locked"})
      BY <1>7
    <2>2. f.wake = e.wake
      BY <2>1, SameFields
    <2> QED BY <1>5, <1>6, <1>7, <2>2
  <1>8. CASE /\ Same(e, f, {"en", "st", "locked", "waiters", "pend"})
             /\ \/ /\ f.en = [Set(e.en, LockWaiters(e, t), Enabled) EXCEPT ![t] = Disabled]
                   /\ f.st = [Set(e.st, LockWaiters(e, t), "ready") EXCEPT ![t] = "blocked"]
                \/ /\ f.en = [Set(e.en, LockWaiters(e, t), Enabled) EXCEPT ![t] = SleepSet]
                   /\ f.st = Set(e.st, LockWaiters(e, t), "ready")
    <2>1. Same(e, f, {"en", "st", "locked", "waiters", "pend"})
      BY <1>8
    <2>2. f.wake = e.wake
      BY <2>1, SameFields
    <2>3. /\ f.en[u] = Set(e.en, LockWaiters(e, t), Enabled)[u]
          /\ f.st[u] = Set(e.st, LockWaiters(e, t), "ready")[u]
      BY <1>8 DEF Set
    <2> QED BY <1>5, <1>6, <2>2, <2>3
  <1>9. ASSUME NEW W, NotifyEffect(e, W, f), \A v \in W : v \in 1 .. e.num, u \in W => IsWait(e.pend[u])
        PROVE  Unmoved(e, u, f) \/ Readied(e, u, f)
    <2>1. CASE u \in W
      <3>1. HasPending(e, u)
        BY <1>9, <2>1 DEF HasPending, IsWait
      <3>2. e.st[u] # "completed"
        BY <3>1 DEF CompleteIs, IsComplete
      <3>3. f.en[u] = Enabled /\ f.st[u] = "ready"
        BY <1>9, <2>1, <3>2 DEF NotifyEffect, Set
      <3> QED BY <1>2, <1>9, <2>1, <3>1, <3>3
    <2>2. CASE u \notin W
      <3>1. f.en[u] = e.en[u] /\ f.st[u] = e.st[u] /\ f.wake[u] = e.wake[u]
        <4>1. e.wake[u] \in BOOLEAN
          BY DEF IsState
        <4> QED BY <1>9, <2>2, <4>1 DEF NotifyEffect, Set
      <3> QED BY <1>1, <3>1
    <2> QED BY <2>1, <2>2
  <1>10. \A c \in Places : /\ \A v \in Listed(e.waiters[c]) : v \in 1 .. e.num
                           /\ u \in Listed(e.waiters[c]) => IsWait(e.pend[u])
    <2>1. \A c \in Places : Listed(e.waiters[c]) \subseteq 1 .. e.num /\ e.waiters[c] \in [Threads -> Nat]
      BY DEF IsState
    <2>2. \A c \in Places : u \in Listed(e.waiters[c]) => e.waiters[c][u] # 0
      BY <2>1 DEF Listed
    <2> QED BY <2>1, <2>2 DEF ListIs
  <1>11. CASE o.k \in {"notify_one", "notify_all"}
    <2>1. CASE Same(e, f, {})
      <3>1. f.en = e.en /\ f.wake = e.wake /\ f.st = e.st
        BY <2>1, SameFields
      <3> QED BY <1>1, <3>1
    <2>2. CASE NotifyEffect(e, Listed(e.waiters[o.x]), f)
      BY <1>9, <1>10, <1>11, <2>2
    <2>3. ASSUME NEW v \in Listed(e.waiters[o.x]), NotifyEffect(e, {v}, f)
          PROVE  Unmoved(e, u, f) \/ Readied(e, u, f)
      BY <1>9, <1>10, <1>11, <2>3
    <2> QED BY <1>11, <2>1, <2>2, <2>3 DEF Effect
  <1>12. CASE /\ Same(e, f, {"en", "st"}) /\ f.en = Set(e.en, JoinWaiters(e, t), Enabled)
              /\ f.st = [Set(e.st, JoinWaiters(e, t), "ready") EXCEPT ![t] = "completed"]
    <2>1. Same(e, f, {"en", "st"})
      BY <1>12
    <2>2. f.wake = e.wake
      BY <2>1, SameFields
    <2>3. f.st[u] = Set(e.st, JoinWaiters(e, t), "ready")[u]
      BY <1>12 DEF Set
    <2> QED BY <1>5, <1>6, <1>12, <2>2, <2>3
  <1>13. CASE /\ Same(e, f, {"pend", "en"}) /\ f.en = [e.en EXCEPT ![t] = SleepSet]
    <2>1. Same(e, f, {"pend", "en"})
      BY <1>13
    <2>2. f.wake = e.wake /\ f.st = e.st
      BY <2>1, SameFields
    <2>3. f.en[u] = e.en[u]
      BY <1>13
    <2> QED BY <1>1, <2>2, <2>3
  <1>14. CASE Same(e, f, {"st", "over"}) /\ f.st = [e.st EXCEPT ![t] = "completed"]
    <2>1. Same(e, f, {"st", "over"})
      BY <1>14
    <2>2. f.wake = e.wake /\ f.en = e.en
      BY <2>1, SameFields
    <2>3. f.st[u] = e.st[u]
      BY <1>14
    <2> QED BY <1>1, <2>2, <2>3
  <1>15. CASE Same(e, f, {"locked"}) \/ Same(e, f, {"locked", "ret"}) \/ Same(e, f, {"ret"}) \/ Same(e, f, {})
    <2>1. ASSUME NEW F, Same(e, f, F), F \cap {"en", "wake", "st"} = {}
          PROVE  Unmoved(e, u, f)
      <3>1. f.en = e.en /\ f.wake = e.wake /\ f.st = e.st
        BY <2>1, SameFields
      <3> QED BY <1>1, <3>1
    <2> QED BY <1>15, <2>1
  <1> QED BY <1>4, <1>7, <1>8, <1>11, <1>12, <1>13, <1>14, <1>15 DEF Effect

\* What t's operation does to its own marks, when t waits nowhere.
LEMMA EffectEnds ==
  ASSUME NEW e, IsState(e), NEW t \in Threads, NEW o, NEW f, Effect(e, t, o, f),
         o.k \in {"wait", "timedwait", "notify_one", "notify_all"} => o.x \in Places,
         \A c \in Places : e.waiters[c][t] = 0, ~e.wake[t]
  PROVE  /\ ~f.wake[t]
         /\ o.k \in {"finish", "exit"} => f.st[t] = "completed"
         /\ f.instr = e.instr
  <1>1. ASSUME NEW F, Same(e, f, F), "wake" \notin F PROVE f.wake = e.wake
    BY <1>1, SameFields
  <1>2. ASSUME o.k \in {"notify_one", "notify_all"} PROVE f.wake[t] = e.wake[t]
    <2>1. t \notin Listed(e.waiters[o.x])
      BY <1>2 DEF Listed
    <2>2. ASSUME NEW W, t \notin W, NotifyEffect(e, W, f) PROVE f.wake[t] = e.wake[t]
      <3>1. e.wake[t] \in BOOLEAN
        BY DEF IsState
      <3> QED BY <2>2, <3>1 DEF NotifyEffect
    <2>3. CASE NotifyEffect(e, Listed(e.waiters[o.x]), f)
      BY <2>1, <2>2, <2>3
    <2>4. ASSUME NEW v \in Listed(e.waiters[o.x]), NotifyEffect(e, {v}, f) PROVE f.wake[t] = e.wake[t]
      <3>1. t \notin {v}
        BY <2>1
      <3> QED BY <2>2, <2>4, <3>1
    <2>5. CASE Same(e, f, {})
      BY <1>1, <2>5
    <2> QED BY <1>2, <2>3, <2>4, <2>5 DEF Effect
  <1>3. ASSUME o.k \notin {"notify_one", "notify_all"} PROVE f.wake = e.wake
    <2> DEFINE A(F) == Same(e, f, F) /\ "wake" \notin F
    <2>1. \/ A({"num", "en", "p"}) \/ A({"locked"}) \/ A({"locked", "ret"})
          \/ A({"en", "st", "locked"}) \/ A({"en", "st", "locked", "waiters", "pend"})
          \/ A({"ret"}) \/ A({"pend", "en"}) \/ A({"st", "over"}) \/ A({"en", "st"}) \/ A({})
      BY <1>3 DEF Effect
    <2>2. \E F : A(F)
      BY <2>1
    <2> QED BY <1>1, <2>2
  <1>4. ASSUME o.k \in {"finish", "exit"} PROVE f.st[t] = "completed"
    <2>1. \/ f.st = [e.st EXCEPT ![t] = "completed"]
          \/ f.st = [Set(e.st, JoinWaiters(e, t), "ready") EXCEPT ![t] = "completed"]
      BY <1>4 DEF Effect
    <2>2. DOMAIN e.st = Threads
      BY DEF IsState
    <2> QED BY <2>1, <2>2 DEF Set
  <1>5. f.instr = e.instr
    <2> DEFINE A(F) == Same(e, f, F) /\ "instr" \notin F
    <2>1. \/ A({"num", "en", "p"}) \/ A({"locked"}) \/ A({"locked", "ret"})
          \/ A({"en", "st", "locked"}) \/ A({"en", "st", "locked", "waiters", "pend"})
          \/ A({"ret"}) \/ A({"pend", "en"}) \/ A({"st", "over"})
          \/ A({"en", "st", "wake", "waiters"}) \/ A({"en", "st"}) \/ A({})
      BY DEF Effect
    <2>2. \E F : A(F)
      BY <2>1
    <2>3. PICK F : Same(e, f, F) /\ "instr" \notin F
      BY <2>2
    <2> QED BY <2>3, SameFields
  <1> QED BY <1>2, <1>3, <1>4, <1>5

\* The sleepers that are let go are marked, and the others keep their marks.
LEMMA PreparedMarks ==
  ASSUME LookInv, MarkInv, IsState(ex), Good(ex), NEW t \in Threads, NEW W, NEW d, Prepared(t, W, d),
         NEW u \in Threads \ {t}
  PROVE  WokenIs(d, u) /\ EndIs(d, u) /\ CompleteIs(d, u)
  <1>1. /\ WokenIs(ex, u) /\ EndIs(ex, u) /\ CompleteIs(ex, u) /\ SleepIs(ex, u)
    BY DEF LookInv, MarkInv
  <1>2. /\ d.last = ex.last /\ d.st = ex.st /\ d.pend[u] = ex.pend[u]
        /\ u \in W => ex.en[u] = SleepSet
        /\ d.en[u] = IF u \in W THEN Enabled ELSE ex.en[u]
        /\ d.wake[u] <=> u \in W \/ ex.wake[u]
    BY PreparedFacts
  <1>3. CompleteIs(d, u)
    BY <1>1, <1>2 DEF CompleteIs, IsComplete, HasPending
  <1>4. WokenIs(d, u)
    BY <1>1, <1>2 DEF WokenIs, SleepIs
  <1>5. EndIs(d, u)
    BY <1>1, <1>2 DEF EndIs, IsComplete, HasPending, SleepSet, Disabled
  <1> QED BY <1>3, <1>4, <1>5

\* The step of a thread keeps the marks.
LEMMA MarkTake ==
  ASSUME TypeInv, LookInv, RestInv, ListInv, MarkInv, NEW t \in Threads, TakeStep(t)
  PROVE  MarkInv'
  <1>1. prog \in Programs /\ IsState(ex) /\ PrioInv /\ Good(ex)
    BY DEF TypeInv, PrioInv
  <1>2. PICK W, d, m : Stepped(t, W, d, m) /\ Good(d) /\ IsState(d)
    BY <1>1, StepIs
  <1>3. /\ Picked(t) /\ Prepared(t, W, d)
        /\ \/ Same(d, ex', {"pend"}) /\ ex'.pend = [d.pend EXCEPT ![t] = m]
           \/ \E f : Effect(d, t, m, f) /\ Ended(t, m, d, f, ex')
    BY <1>2 DEF Stepped
  <1>4. /\ d.en[t] = Enabled /\ d.pend[t] = None /\ d.st[t] # "blocked" /\ ~IsComplete(d, t)
        /\ t <= d.num /\ ~d.wake[t]
        /\ m.k = ex.pend[t].k
        /\ m.k \in {"wait", "timedwait", "notify_one", "notify_all"} => m.x \in Places
    BY <1>2, TakeIs
  <1>5. /\ \A u \in Threads : ListIs(d, u)
        /\ \A c \in Places : d.waiters[c][t] = 0
    BY <1>1, <1>3, PickedEnabled, PreparedLists
  <1>6. \A u \in Threads \ {t} : WokenIs(d, u) /\ EndIs(d, u) /\ CompleteIs(d, u)
    BY <1>1, <1>3, PreparedMarks
  <1>7. DOMAIN ex'.en = Threads
    <2>1. Good(ex')
      BY <1>1, StepGood DEF PrioInv
    <2> QED BY <2>1 DEF Good
  <1>8. /\ \A u \in Threads \ {t} : ex'.pend[u] = ex.pend[u] /\ ex'.last[u] = ex.last[u]
        /\ ex'.last[t].k = ex.last[t].k
    BY <1>1, <1>2, StepOthers
  <1>9. d.last = ex.last /\ \A u \in Threads \ {t} : d.pend[u] = ex.pend[u]
    BY <1>1, <1>3, PreparedFacts
  <1>10. ex.last[t].k = m.k /\ m.k # "none"
    <2>1. HasPending(ex, t) /\ AtPlace(ex, t)
      BY <1>1, <1>3 DEF Picked, IsState
    <2> QED BY <1>4, <2>1 DEF AtPlace, HasPending
  <1>11. CASE Same(d, ex', {"pend"}) /\ ex'.pend = [d.pend EXCEPT ![t] = m]
    <2>1. Same(d, ex', {"pend"})
      BY <1>11
    <2>2. ex'.en = d.en /\ ex'.wake = d.wake /\ ex'.st = d.st
      BY <2>1, SameFields
    <2>3. HasPending(ex', t)
      <3>1. ex'.pend[t] = m
        BY <1>2, <1>11 DEF IsState
      <3> QED BY <1>10, <3>1 DEF HasPending
    <2>4. WokenIs(ex', t) /\ EndIs(ex', t)
      BY <1>4, <2>2, <2>3 DEF WokenIs, EndIs, IsComplete
    <2>5. ASSUME NEW u \in Threads \ {t} PROVE WokenIs(ex', u) /\ EndIs(ex', u)
      <3>1. Unmoved(d, u, ex')
        BY <2>2 DEF Unmoved, IsComplete
      <3> QED BY <1>6, <1>8, <1>9, <3>1, MarksKept
    <2> QED BY <2>4, <2>5 DEF MarkInv
  <1>12. ASSUME NEW f, Effect(d, t, m, f), Ended(t, m, d, f, ex') PROVE MarkInv'
    <2>1. /\ ex'.pend = f.pend /\ ex'.st = f.st /\ ex'.wake = f.wake
          /\ \A u \in Threads \ {t} : ex'.en[u] = f.en[u]
          /\ ex'.en[t] = IF f.st[t] = "blocked" \/ IsComplete(f, t) THEN Disabled ELSE f.en[t]
      BY <1>7, <1>12, EndedFacts
    <2>2. ~f.wake[t] /\ (m.k \in {"finish", "exit"} => f.st[t] = "completed")
      BY <1>2, <1>4, <1>5, <1>12, EffectEnds
    <2>3. WokenIs(ex', t)
      BY <2>1, <2>2 DEF WokenIs
    <2>4. EndIs(ex', t)
      BY <1>8, <1>10, <2>1, <2>2 DEF EndIs, IsComplete
    <2>5. ASSUME NEW u \in Threads \ {t} PROVE WokenIs(ex', u) /\ EndIs(ex', u)
      <3>1. Unmoved(d, u, f) \/ Readied(d, u, f)
        BY <1>2, <1>4, <1>5, <1>6, <1>12, EffectMoves
      <3>2. Unmoved(d, u, ex') \/ Readied(d, u, ex')
        BY <2>1, <3>1 DEF Unmoved, Readied, IsComplete
      <3> QED BY <1>6, <1>8, <1>9, <3>2, MarksKept
    <2> QED BY <2>3, <2>4, <2>5 DEF MarkInv
  <1> QED BY <1>3, <1>11, <1>12

\* User code leaves no thread marked or completed.
LEMMA MarkRun ==
  ASSUME TypeInv, LookInv, RestInv, MarkInv, RunThread
  PROVE  MarkInv'
  <1>1. /\ scan \in Threads /\ scan \in Live /\ ~IsComplete(ex, scan) /\ ~HasPending(ex, scan)
        /\ \/ ex' = ex
           \/ ex.last[scan].k \notin {"finish", "exit"} /\ ex' = UserRuns(ex, scan)
        /\ prog \in Programs /\ IsState(ex)
    BY ScanExists DEF RunThread, TypeInv
  <1>2. CASE ex' = ex
    BY <1>2 DEF MarkInv, WokenIs, EndIs, IsComplete, HasPending
  <1>3. CASE ex.last[scan].k \notin {"finish", "exit"} /\ ex' = UserRuns(ex, scan)
    <2>1. PICK o, r : UserStep(ex, ex', scan, o, r)
      BY <1>1, <1>3, UserIs
    <2>2. /\ \A u \in Threads \ {scan} :
               ex'.pend[u] = ex.pend[u] /\ ex'.last[u] = ex.last[u] /\ ex'.st[u] = ex.st[u]
          /\ ex'.en = ex.en /\ ex'.wake = ex.wake /\ ex'.st[scan] = "ready"
          /\ ex'.last[scan] = Resolve(ex, scan, o)
          /\ o.k # "assert" => ex'.pend[scan] = Resolve(ex, scan, o)
      BY <1>1, <2>1, UserChanges
    <2>3. ASSUME NEW u \in Threads \ {scan} PROVE WokenIs(ex', u) /\ EndIs(ex', u)
      <3>1. Unmoved(ex, u, ex')
        BY <2>2 DEF Unmoved, IsComplete
      <3> QED BY <2>2, <3>1, MarksKept DEF MarkInv
    <2>4. ~ex'.wake[scan] /\ ~IsComplete(ex', scan)
      <3>1. ~ex.wake[scan]
        BY <1>1 DEF MarkInv, WokenIs, HasPending
      <3> QED BY <2>2, <3>1 DEF IsComplete
    <2>5. ex'.last[scan].k \in {"finish", "exit"} => HasPending(ex', scan)
      <3>1. CASE o.k = "assert"
        BY <2>2, <3>1 DEF Resolve
      <3>2. CASE o.k # "assert"
        BY <2>2, <3>2 DEF HasPending
      <3> QED BY <3>1, <3>2
    <2>6. WokenIs(ex', scan) /\ EndIs(ex', scan)
      BY <2>4, <2>5 DEF WokenIs, EndIs
    <2> QED BY <2>3, <2>6 DEF MarkInv
  <1> QED BY <1>1, <1>2, <1>3

\* So do the steps of the runtime.
LEMMA MarkStep ==
  ASSUME TypeInv, LookInv, RestInv, ListInv, MarkInv, [Next]_vars
  PROVE  MarkInv'
  <1>1. /\ IsState(ex) /\ DOMAIN ex = Fields /\ DOMAIN ex.en = Threads /\ DOMAIN ex.st = Threads
        /\ DOMAIN ex.wake = Threads /\ ex.pend \in [Threads -> Ops]
        /\ prog \in Programs
    BY DEF TypeInv, PrioInv, IsState, Good
  <1>2. \A u \in Threads : WokenIs(ex, u) /\ EndIs(ex, u) /\ CompleteIs(ex, u) /\ SleepIs(ex, u)
    BY DEF MarkInv, LookInv
  <1>3. ASSUME ex'.pend = ex.pend, ex'.last = ex.last, \A u \in Threads : Unmoved(ex, u, ex')
        PROVE  MarkInv'
    <2>1. ASSUME NEW u \in Threads PROVE WokenIs(ex', u) /\ EndIs(ex', u)
      BY <1>2, <1>3, MarksKept
    <2> QED BY <2>1 DEF MarkInv
  <1>4. CASE PassThread \/ EndScan \/ StopAsserted \/ StepOfNobody \/ Over \/ UNCHANGED vars
    <2>1. ex' = ex
      BY <1>4 DEF PassThread, EndScan, StopAsserted, StepOfNobody, Over, vars
    <2> QED BY <1>3, <2>1 DEF Unmoved
  <1>5. CASE FreeThread
    <2>1. ex' \in {ex, [ex EXCEPT !.st[scan] = "freed"]} /\ IsComplete(ex, scan)
      BY <1>5 DEF FreeThread
    <2>2. /\ ex'.pend = ex.pend /\ ex'.en = ex.en /\ ex'.last = ex.last /\ ex'.wake = ex.wake
          /\ ex'.st = ex.st \/ ex'.st = [ex.st EXCEPT ![scan] = "freed"]
      BY <1>1, <2>1 DEF Fields
    <2>3. ASSUME NEW u \in Threads PROVE Unmoved(ex, u, ex')
      <3>1. IsComplete(ex', u) <=> IsComplete(ex, u)
        BY <1>1, <2>1, <2>2 DEF IsComplete
      <3> QED BY <2>2, <3>1 DEF Unmoved
    <2> QED BY <1>3, <2>2, <2>3
  <1>6. CASE BlockThread
    <2>1. ex' = SleepThread(ex, scan) /\ scan \in Threads /\ HasPending(ex, scan) /\ ~CheckActionEnabled(ex, scan)
      BY <1>6, ScanExists DEF BlockThread
    <2>2. /\ ex'.pend = ex.pend /\ ex'.last = ex.last /\ ex'.wake = ex.wake
          /\ ex'.en = [ex.en EXCEPT ![scan] = Disabled] /\ ex'.st = [ex.st EXCEPT ![scan] = "blocked"]
      BY <1>1, <2>1 DEF SleepThread, Fields
    <2>3. ex.pend[scan].k \in {"lock", "join"}
      BY <2>1 DEF CheckActionEnabled
    <2>4. ~ex.wake[scan]
      BY <1>2, <2>1, <2>3 DEF WokenIs
    <2>5. WokenIs(ex', scan) /\ EndIs(ex', scan)
      <3>1. ex'.en[scan] = Disabled /\ HasPending(ex', scan) /\ ~ex'.wake[scan]
        BY <1>1, <2>1, <2>2, <2>4 DEF HasPending
      <3> QED BY <3>1 DEF WokenIs, EndIs
    <2>6. ASSUME NEW u \in Threads \ {scan} PROVE WokenIs(ex', u) /\ EndIs(ex', u)
      <3>1. ex'.en[u] = ex.en[u] /\ ex'.st[u] = ex.st[u]
        BY <2>2
      <3>2. Unmoved(ex, u, ex')
        BY <2>2, <3>1 DEF Unmoved, IsComplete
      <3> QED BY <1>2, <2>2, <3>2, MarksKept
    <2> QED BY <2>5, <2>6 DEF MarkInv
  <1>7. CASE NothingToRun
    <2>1. ex' = ex \/ ex' = [ex EXCEPT !.bug = "deadlock"]
      BY <1>7 DEF NothingToRun, Reported
    <2>2. ex'.pend = ex.pend /\ ex'.en = ex.en /\ ex'.last = ex.last /\ ex'.wake = ex.wake /\ ex'.st = ex.st
      BY <1>1, <2>1 DEF Fields
    <2> QED BY <1>3, <2>2 DEF Unmoved, IsComplete
  <1>8. ASSUME NEW t \in Threads, ResumeWoken(t) PROVE MarkInv'
    <2>1. PICK pick \in Picks : /\ pick[1] = t /\ pick[2].wake[t]
                                /\ ex' = [pick[2] EXCEPT !.wake[t] = FALSE, !.pend[t] = None]
      BY <1>8 DEF ResumeWoken
    <2>2. \/ pick[2] = ex
          \/ ex.en[t] = SleepSet /\ pick[2] = [ex EXCEPT !.en[t] = Enabled, !.wake[t] = TRUE]
      BY <2>1, PickFrom DEF SleepingSet
    <2>3. ex.pend[t].k \in {"wait", "timedwait", "sleep"}
      <3>1. ex.wake[t] \/ ex.en[t] = SleepSet
        BY <2>1, <2>2
      <3> QED BY <1>2, <3>1 DEF WokenIs, SleepIs
    <2>4. /\ DOMAIN pick[2] = Fields /\ pick[2].pend = ex.pend /\ pick[2].last = ex.last /\ pick[2].st = ex.st
          /\ pick[2].en = ex.en \/ pick[2].en = [ex.en EXCEPT ![t] = Enabled]
          /\ pick[2].wake = ex.wake \/ pick[2].wake = [ex.wake EXCEPT ![t] = TRUE]
      BY <1>1, <2>2 DEF Fields
    <2>5. /\ ex'.pend = [ex.pend EXCEPT ![t] = None] /\ ex'.last = ex.last /\ ex'.st = ex.st
          /\ ex'.en = pick[2].en /\ ex'.wake = [pick[2].wake EXCEPT ![t] = FALSE]
      BY <2>1, <2>4 DEF Fields
    <2>6. HasPending(ex, t) /\ ex.last[t].k = ex.pend[t].k
      <3>1. HasPending(ex, t) /\ AtPlace(ex, t)
        BY <1>1, <2>3 DEF HasPending, IsState
      <3> QED BY <3>1 DEF AtPlace
    <2>7. ~IsComplete(ex', t) /\ ~ex'.wake[t] /\ ex'.last[t].k \notin {"finish", "exit"}
      <3>1. DOMAIN pick[2].wake = Threads
        BY <1>1, <2>4
      <3>2. ~ex'.wake[t]
        BY <2>5, <3>1
      <3>3. ~IsComplete(ex, t)
        BY <1>2, <2>6 DEF CompleteIs
      <3> QED BY <2>3, <2>5, <2>6, <3>2, <3>3 DEF IsComplete
    <2>8. WokenIs(ex', t) /\ EndIs(ex', t)
      BY <2>7 DEF WokenIs, EndIs
    <2>9. ASSUME NEW u \in Threads \ {t} PROVE WokenIs(ex', u) /\ EndIs(ex', u)
      <3>1. ex'.pend[u] = ex.pend[u] /\ ex'.en[u] = ex.en[u] /\ ex'.wake[u] = ex.wake[u]
        <4>1. pick[2].en[u] = ex.en[u]
          BY <1>1, <2>4
        <4>2. pick[2].wake[u] = ex.wake[u]
          BY <1>1, <2>4
        <4>3. ex'.wake[u] = pick[2].wake[u]
          BY <1>1, <2>4, <2>5
        <4> QED BY <2>5, <4>1, <4>2, <4>3
      <3>2. Unmoved(ex, u, ex')
        BY <2>5, <3>1 DEF Unmoved, IsComplete
      <3> QED BY <1>2, <2>5, <3>1, <3>2, MarksKept
    <2> QED BY <2>8, <2>9 DEF MarkInv
  <1>9. CASE FinishExecution
    <2>1. ex' = ex \/ ex' = Initial(MainSlot, prog)
      BY <1>9 DEF FinishExecution
    <2>2. CASE ex' = Initial(MainSlot, prog)
      <3>1. \A u \in Threads : ~ex'.wake[u] /\ ex'.st[u] = "created" /\ ex'.last[u] = None
        BY <2>2 DEF Initial
      <3> QED BY <3>1 DEF MarkInv, WokenIs, EndIs, IsComplete, None, Op
    <2>3. CASE ex' = ex
      BY <1>3, <2>3 DEF Unmoved
    <2> QED BY <2>1, <2>2, <2>3
  <1> QED BY <1>4, <1>5, <1>6, <1>7, <1>8, <1>9, MarkRun, MarkTake DEF Next

\* Nobody is woken or completed at the start.
LEMMA MarkInit == ASSUME Init PROVE MarkInv
  <1>1. ex = Initial(MainSlot, prog)
    BY DEF Init
  <1>2. \A u \in Threads : ~ex.wake[u] /\ ex.st[u] = "created" /\ ex.last[u] = None
    BY <1>1 DEF Initial
  <1> QED BY <1>2 DEF MarkInv, WokenIs, EndIs, IsComplete, None, Op

----------------------------------------------------------------------------
(* Read-modify-writes.                                                     *)

\* The execution has not yet counted so many operations that loads go straight
\* to the store buffer and keep their marks.
WithinLimit == ex.instr <= CountLimit

\* The load of a read-modify-write of t is executed and its store is not.
InRmw(e, t) == e.pend[t].k = "rmw" \/ (e.last[t].k = "rmwr" /\ ~HasPending(e, t))

\* The thread in between the two is the one that goes on.
RmwInv == mode \in {"scan", "choose"} => \A t \in Threads : InRmw(ex, t) => chosen = t

\* The step of a thread leaves nobody but itself in between, and chooses it.
LEMMA RmwTake ==
  ASSUME TypeInv, LookInv, RestInv, RmwInv, NEW t \in Threads, TakeStep(t), WithinLimit'
  PROVE  RmwInv'
  <1>1. prog \in Programs /\ IsState(ex) /\ PrioInv /\ Good(ex)
    BY DEF TypeInv, PrioInv
  <1>2. PICK W, d, m : Stepped(t, W, d, m) /\ Good(d) /\ IsState(d)
    BY <1>1, StepIs
  <1>3. /\ Picked(t) /\ Marked(ex.pend[t], m)
        /\ \/ /\ InCount(m) /\ IsNew(m)
              /\ Same(d, ex', {"pend"}) /\ ex'.pend = [d.pend EXCEPT ![t] = m]
           \/ /\ \E f : Effect(d, t, m, f) /\ Ended(t, m, d, f, ex')
              /\ chosen' = SelectsNext(ex', t, Unmarked(d, m))
    BY <1>2 DEF Stepped
  <1>4. /\ d.en[t] = Enabled /\ d.pend[t] = None /\ d.st[t] # "blocked" /\ ~IsComplete(d, t)
        /\ t <= d.num /\ ~d.wake[t]
        /\ m.k = ex.pend[t].k
        /\ m.k \in {"wait", "timedwait", "notify_one", "notify_all"} => m.x \in Places
    BY <1>2, TakeIs
  <1>5. /\ \A u \in Threads \ {t} : ex'.pend[u] = ex.pend[u] /\ ex'.last[u] = ex.last[u]
        /\ ex'.last[t].k = ex.last[t].k
    BY <1>1, <1>2, StepOthers
  <1>6. ex.last[t].k = m.k /\ m.k # "none"
    <2>1. HasPending(ex, t) /\ AtPlace(ex, t)
      BY <1>1, <1>3 DEF Picked, IsState
    <2> QED BY <1>4, <2>1 DEF AtPlace, HasPending
  <1>7. ASSUME NEW u \in Threads \ {t}, InRmw(ex', u) PROVE FALSE
    <2>1. InRmw(ex, u)
      BY <1>5, <1>7 DEF InRmw, HasPending
    <2>2. chosen = u /\ chosen \in {0, t}
      BY <1>3, <2>1 DEF RmwInv, Picked
    <2> QED BY <2>2 DEF Threads
  <1>8. ASSUME InRmw(ex', t) PROVE chosen' = t
    <2>1. CASE InCount(m) /\ IsNew(m) /\ ex'.pend = [d.pend EXCEPT ![t] = m]
      <3>1. ex'.pend[t] = m
        BY <1>2, <2>1 DEF IsState
      <3> QED BY <1>6, <1>8, <2>1, <3>1 DEF InRmw, HasPending, IsNew
    <2>2. ASSUME NEW f, Effect(d, t, m, f), Ended(t, m, d, f, ex'), chosen' = SelectsNext(ex', t, Unmarked(d, m))
          PROVE  chosen' = t
      <3>1. f.pend[t] = None \/ (f.pend[t] = m /\ m.k \in {"wait", "timedwait", "sleep"})
        BY <1>2, <1>4, <2>2, EffectOwn
      <3>2. Same(f, ex', {"extjob", "last", "en", "bug"})
        BY <2>2 DEF Ended
      <3>3. ex'.pend = f.pend /\ ex'.instr = f.instr
        BY <3>2, SameFields
      <3>4. m.k = "rmwr"
        BY <1>5, <1>6, <1>8, <3>1, <3>3 DEF InRmw, HasPending, None, Op
      <3>5. f.instr = d.instr
        <4>1. Same(d, f, {})
          BY <2>2, <3>4 DEF Effect
        <4> QED BY <4>1, SameFields
      <3>6. LoadsBelowLimit(d, m)
        BY <3>3, <3>4, <3>5 DEF LoadsBelowLimit, IsRead, IsNew, WithinLimit
      <3>7. Unmarked(d, m).k = "rmwr" /\ ~Unmarked(d, m).ext
        <4>1. m \in Ops
          BY <1>3 DEF Marked
        <4>2. Unmarked(d, m) = [m EXCEPT !.ext = FALSE]
          BY <3>6 DEF Unmarked
        <4> QED BY <3>4, <4>1, <4>2 DEF Ops
      <3> HIDE DEF Unmarked
      <3>8. SelectsNext(ex', t, Unmarked(d, m)) = t
        BY <3>7 DEF SelectsNext
      <3> QED BY <2>2, <3>8
    <2> QED BY <1>3, <2>1, <2>2
  <1>9. \A u \in Threads : InRmw(ex', u) => chosen' = u
    BY <1>7, <1>8
  <1> QED BY <1>9 DEF RmwInv, InRmw, HasPending

\* So does user code: the store follows the load.
LEMMA RmwRun ==
  ASSUME TypeInv, LookInv, RestInv, RmwInv, RunThread
  PROVE  RmwInv'
  <1>1. /\ scan \in Threads /\ ~IsComplete(ex, scan) /\ ~HasPending(ex, scan) /\ mode = "scan"
        /\ \/ ex' = ex
           \/ ex.last[scan].k \notin {"finish", "exit"} /\ ex' = UserRuns(ex, scan)
        /\ prog \in Programs /\ IsState(ex) /\ chosen' = chosen
    BY ScanExists DEF RunThread, TypeInv
  <1> SUFFICES ASSUME NEW u \in Threads, InRmw(ex', u) PROVE InRmw(ex, u)
    BY <1>1 DEF RmwInv, InRmw, HasPending
  <1>2. CASE ex' = ex
    BY <1>2 DEF InRmw, HasPending
  <1>3. CASE ex.last[scan].k \notin {"finish", "exit"} /\ ex' = UserRuns(ex, scan)
    <2>1. PICK o, r : UserStep(ex, ex', scan, o, r)
      BY <1>1, <1>3, UserIs
    <2>2. /\ u # scan => ex'.pend[u] = ex.pend[u] /\ ex'.last[u] = ex.last[u]
          /\ ex'.last[scan] = Resolve(ex, scan, o)
          /\ o.k # "assert" => ex'.pend[scan] = Resolve(ex, scan, o)
      BY <1>1, <2>1, UserChanges
    <2>3. CASE u # scan
      BY <2>2, <2>3 DEF InRmw, HasPending
    <2>4. CASE u = scan
      <3>1. (o.k = "rmw" <=> ex.last[scan].k = "rmwr") /\ o.k # "none"
        BY <2>1 DEF UserStep, MayIssue
      <3>2. /\ Resolve(ex, scan, o).k # "none"
            /\ Resolve(ex, scan, o).k = "rmw" => o.k = "rmw"
            /\ Resolve(ex, scan, o).k = "rmwr" => o.k = "rmwr"
        <4>1. CASE o.k = "futexwait"
          BY <4>1 DEF Resolve, Op
        <4>2. CASE o.k = "futexwake"
          <5>1. o \in Ops
            BY <2>1 DEF UserStep, MayIssue
          <5>2. Resolve(ex, scan, o).k = "notify_all"
            BY <4>2, <5>1 DEF Resolve, Ops
          <5> QED BY <5>2
        <4>3. CASE o.k \notin {"futexwait", "futexwake"}
          BY <3>1, <4>3 DEF Resolve
        <4> QED BY <4>1, <4>2, <4>3
      <3>3. CASE o.k = "assert"
        <4>1. ex'.pend = ex.pend
          BY <2>1, <3>3 DEF UserStep
        <4> QED BY <1>1, <2>2, <2>4, <3>2, <3>3, <4>1 DEF InRmw, HasPending
      <3>4. CASE o.k # "assert"
        <4>1. HasPending(ex', scan)
          BY <2>2, <3>2, <3>4 DEF HasPending
        <4>2. o.k = "rmw"
          BY <2>2, <2>4, <3>2, <3>4, <4>1 DEF InRmw
        <4> QED BY <1>1, <2>4, <3>1, <4>2 DEF InRmw
      <3> QED BY <3>3, <3>4
    <2> QED BY <2>3, <2>4
  <1> QED BY <1>1, <1>2, <1>3

\* And the rest of the runtime.
LEMMA RmwStep ==
  ASSUME TypeInv, LookInv, RestInv, MarkInv, RmwInv, [Next]_vars, WithinLimit'
  PROVE  RmwInv'
  <1>1. /\ IsState(ex) /\ DOMAIN ex = Fields /\ ex.pend \in [Threads -> Ops]
        /\ prog \in Programs
    BY DEF TypeInv, IsState
  <1>2. ASSUME mode \in {"scan", "choose"}, ex'.pend = ex.pend, ex'.last = ex.last,
               chosen # 0 => chosen' = chosen
        PROVE  RmwInv'
    <2>1. \A u \in Threads : InRmw(ex', u) => InRmw(ex, u)
      BY <1>2 DEF InRmw, HasPending
    <2> QED BY <1>2, <2>1 DEF RmwInv, Threads, InRmw, HasPending
  <1>3. CASE UNCHANGED vars \/ Over
    <2>1. mode' = mode /\ ex' = ex /\ chosen' = chosen
      BY <1>3 DEF vars, Over
    <2> QED BY <2>1 DEF RmwInv, InRmw, HasPending
  <1>4. CASE PassThread \/ EndScan \/ StopAsserted \/ StepOfNobody
    <2>1. mode \in {"scan", "choose"} /\ ex' = ex /\ (chosen # 0 => chosen' = chosen)
      BY <1>4 DEF PassThread, EndScan, StopAsserted, StepOfNobody, Scanning
    <2> QED BY <1>2, <2>1
  <1>5. CASE FreeThread
    <2>1. ex' \in {ex, [ex EXCEPT !.st[scan] = "freed"]} /\ mode = "scan" /\ chosen' = chosen
      BY <1>5 DEF FreeThread, Scanning
    <2>2. ex'.pend = ex.pend /\ ex'.last = ex.last
      BY <1>1, <2>1 DEF Fields
    <2> QED BY <1>2, <2>1, <2>2
  <1>6. CASE BlockThread
    <2>1. ex' = SleepThread(ex, scan) /\ mode = "scan" /\ chosen' = chosen
      BY <1>6 DEF BlockThread, Scanning
    <2>2. ex'.pend = ex.pend /\ ex'.last = ex.last
      BY <1>1, <2>1 DEF SleepThread, Fields
    <2> QED BY <1>2, <2>1, <2>2
  <1>7. CASE NothingToRun
    <2>1. mode' = "finish"
      BY <1>7 DEF NothingToRun
    <2> QED BY <2>1 DEF RmwInv
  <1>8. ASSUME NEW t \in Threads, ResumeWoken(t) PROVE RmwInv'
    <2>1. PICK pick \in Picks : /\ pick[1] = t /\ pick[2].wake[t]
                                /\ ex' = [pick[2] EXCEPT !.wake[t] = FALSE, !.pend[t] = None]
      BY <1>8 DEF ResumeWoken
    <2>2. \/ pick[2] = ex
          \/ ex.en[t] = SleepSet /\ pick[2] = [ex EXCEPT !.en[t] = Enabled, !.wake[t] = TRUE]
      BY <2>1, PickFrom DEF SleepingSet
    <2>3. ex.pend[t].k \in {"wait", "timedwait", "sleep"}
      <3>1. ex.wake[t] \/ ex.en[t] = SleepSet
        BY <2>1, <2>2
      <3> QED BY <3>1 DEF MarkInv, WokenIs, LookInv, SleepIs
    <2>4. DOMAIN pick[2] = Fields /\ pick[2].pend = ex.pend /\ pick[2].last = ex.last
      BY <1>1, <2>2 DEF Fields
    <2>5. ex'.pend = [ex.pend EXCEPT ![t] = None] /\ ex'.last = ex.last
      BY <2>1, <2>4 DEF Fields
    <2>6. ~InRmw(ex', t)
      <3>1. ex'.pend[t].k # "rmw"
        BY <1>1, <2>5 DEF None, Op
      <3>2. HasPending(ex, t) /\ AtPlace(ex, t)
        BY <1>1, <2>3 DEF HasPending, IsState
      <3>3. ex.last[t].k = ex.pend[t].k
        BY <3>2 DEF AtPlace
      <3> QED BY <2>3, <2>5, <3>1, <3>3 DEF InRmw
    <2>7. ASSUME NEW u \in Threads \ {t}, InRmw(ex', u) PROVE FALSE
      <3>1. InRmw(ex, u)
        BY <2>5, <2>7 DEF InRmw, HasPending
      <3>2. chosen = u /\ chosen # 0
        BY <1>8, <3>1 DEF RmwInv, ResumeWoken, Threads
      <3> QED BY <2>1, <3>2 DEF Picks
    <2>8. \A u \in Threads : ~InRmw(ex', u)
      BY <2>6, <2>7
    <2> QED BY <2>8 DEF RmwInv, InRmw, HasPending
  <1>9. CASE FinishExecution
    <2>1. ex' = Initial(MainSlot, prog) \/ mode' = "exit"
      BY <1>9 DEF FinishExecution
    <2>2. CASE ex' = Initial(MainSlot, prog)
      <3>1. \A u \in Threads : ex'.pend[u] = None /\ ex'.last[u] = None
        BY <2>2 DEF Initial
      <3> QED BY <3>1 DEF RmwInv, InRmw, None, Op
    <2>3. CASE mode' = "exit"
      BY <2>3 DEF RmwInv
    <2> QED BY <2>1, <2>2, <2>3
  <1> QED BY <1>3, <1>4, <1>5, <1>6, <1>7, <1>8, <1>9, RmwRun, RmwTake DEF Next

\* Nobody is in between at the start.
LEMMA RmwInit == ASSUME Init PROVE RmwInv
  <1>1. ex = Initial(MainSlot, prog)
    BY DEF Init
  <1>2. \A u \in Threads : ex.pend[u] = None /\ ex.last[u] = None
    BY <1>1 DEF Initial
  <1> QED BY <1>2 DEF RmwInv, InRmw, None, Op

\* Read-modify-writes are not split ("Do not split atomic RMW", the test of
\* action_select_next_thread), in executions below the limit beyond which loads
\* keep their marks.
THEOREM PctRmwUnsplit == Spec /\ ChosenCanGo /\ NeverForced /\ []WithinLimit => []RmwUnsplit
  <1> DEFINE I == TypeInv /\ LookInv /\ RestInv /\ ListInv /\ MarkInv /\ RmwInv
  <1>1. Init => I
    BY InitialTypes, LookInit, RestInit, ListInit, MarkInit, RmwInit
  <1>2. I /\ [Next]_vars /\ [ChosenComes]_vars /\ [NoneForced]_vars /\ WithinLimit' => I'
    <2>1. UNCHANGED vars => ChosenComes /\ NoneForced
      BY Steady, SteadyLists
    <2>2. ASSUME I, [Next]_vars, ChosenComes, NoneForced, WithinLimit' PROVE I'
      BY <2>2, TypesStep, LookStep, RestStep, ListStep, MarkStep, RmwStep
    <2> QED BY <2>1, <2>2
  <1>3. I => RmwUnsplit
    <2>1. ASSUME I, NEW t \in Live, mode = "choose", ex.pend[t].k = "rmw" PROVE chosen = t
      BY <2>1, LiveThreads DEF RmwInv, InRmw
    <2> QED BY <2>1 DEF RmwUnsplit
  <1> QED BY <1>1, <1>2, <1>3, PTL DEF Spec, ChosenCanGo, NeverForced

----------------------------------------------------------------------------
(* The chosen thread exists and can run.                                   *)

\* An execution is not stopped by a failed assertion, or a cycle reported,
\* while a thread is chosen: the choice would be taken into the next execution.
StopsUnchosen == StopAsserted => chosen = 0
NeverStopsChosen == [][StopsUnchosen]_vars

\* A chosen thread is enabled; none is chosen when an execution ends.
GoesInv ==
  /\ mode \in {"scan", "choose"} /\ chosen # 0 => chosen \in Live /\ ex.en[chosen] = Enabled
  /\ mode = "finish" => chosen = 0

\* The thread of highest priority among some enabled ones is one of them.
LEMMA FoundExists ==
  ASSUME NEW num \in Nat, NEW p, IsVectors(p, num), NEW S, S \subseteq 1 .. num, S # {}
  PROVE  FindHighest(p, S) \in S
  <1>1. PICK n \in Nat : DOMAIN p.high = 1 .. n
    BY SlotNumbers
  <1>2. PICK k \in Nat : DOMAIN p.low = 1 .. k
    BY SlotNumbers
  <1>3. PICK t \in S : (\E i \in 1 .. n : p.high[i] = t) \/ (\E i \in 1 .. k : p.low[i] = t)
    <2>1. PICK t : t \in S
      OBVIOUS
    <2>2. Once(p.high, t) \/ Once(p.low, t)
      BY <2>1 DEF IsVectors
    <2> QED BY <1>1, <1>2, <2>1, <2>2 DEF Once
  <1>4. CASE \E i \in 1 .. n : p.high[i] \in S
    <2>1. FirstOf(p.high, S, FirstOf(p.low, S, 0)) \in S
      BY <1>1, <1>4, FirstIs
    <2> QED BY <2>1 DEF FindHighest
  <1>5. CASE \A i \in 1 .. n : p.high[i] \notin S
    <2>1. FirstOf(p.high, S, FirstOf(p.low, S, 0)) = FirstOf(p.low, S, 0)
      BY <1>1, <1>5, FirstIs
    <2>2. \E i \in 1 .. k : p.low[i] \in S
      BY <1>3, <1>5
    <2>3. FirstOf(p.low, S, 0) \in S
      BY <1>2, <2>2, FirstIs
    <2> QED BY <2>1, <2>3 DEF FindHighest
  <1> QED BY <1>4, <1>5

\* A thread that is not disabled when the runtime looks for one to run has an operation to execute.
LEMMA AwakePending ==
  ASSUME TypeInv, LookInv, MarkInv, mode = "choose", NEW u \in Live, ex.en[u] # Disabled
  PROVE  HasPending(ex, u)
  <1>1. LookedAt(ex, u) /\ EndIs(ex, u)
    BY LiveThreads DEF LookInv, MarkInv
  <1> QED BY <1>1 DEF LookedAt, EndIs

\* There is always a thread to give to take_step or to resume.
LEMMA SomebodySteps ==
  ASSUME TypeInv, LookInv, MarkInv, GoesInv
  PROVE  ~StepOfNobody
  <1> SUFFICES ASSUME StepOfNobody PROVE FALSE
    OBVIOUS
  <1>1. mode = "choose"
    BY DEF StepOfNobody
  <1>2. PICK pick \in Picks : pick[1] \in Live => ~HasPending(ex, pick[1])
    BY DEF StepOfNobody
  <1>3. \A u \in Threads : ex.en[u] # Disabled => u \in Live
    BY DEF TypeInv, PrioInv, Good, Live, Threads
  <1>4. Good(ex) /\ DOMAIN ex.en = Threads /\ IsVectors(ex.p, ex.num) /\ ex.num \in Nat
    BY DEF TypeInv, PrioInv, Good
  <1>5. EnabledSet(ex.en) \subseteq Live /\ SleepingSet(ex.en) \subseteq Live
    BY <1>3, <1>4 DEF EnabledSet, SleepingSet, Enabled, Disabled, SleepSet
  <1>6. pick[1] \in Live /\ ex.en[pick[1]] # Disabled
    <2>1. CASE chosen # 0 /\ pick[1] = chosen
      BY <1>1, <2>1 DEF GoesInv, Enabled, Disabled
    <2>2. CASE pick[1] \in EnabledSet(ex.en)
      BY <1>5, <2>2 DEF EnabledSet, Enabled, Disabled
    <2>3. CASE EnabledSet(ex.en) # {} /\ pick[1] = FindHighest(ex.p, EnabledSet(ex.en))
      <3>1. pick[1] \in EnabledSet(ex.en)
        BY <1>4, <1>5, <2>3, FoundExists DEF Live
      <3> QED BY <1>5, <3>1 DEF EnabledSet, Enabled, Disabled
    <2>4. CASE pick[1] \in SleepingSet(ex.en)
      BY <1>5, <2>4 DEF SleepingSet, SleepSet, Disabled
    <2> QED BY <2>1, <2>2, <2>3, <2>4, PickFrom
  <1> QED BY <1>1, <1>2, <1>6, AwakePending

\* No thread that has ended is run again.
LEMMA EndedNotRun ==
  ASSUME TypeInv, MarkInv, RunThread
  PROVE  ex.last[scan].k \notin {"finish", "exit"} /\ mode' # "crash"
  <1>1. scan \in Threads /\ ~IsComplete(ex, scan) /\ ~HasPending(ex, scan) /\ mode = "scan"
    BY ScanExists DEF RunThread
  <1>2. ex.last[scan].k \notin {"finish", "exit"}
    BY <1>1 DEF MarkInv, EndIs
  <1> QED BY <1>1, <1>2 DEF RunThread

\* Only the end of the main thread ends the execution.
LEMMA OnlyFinishEnds ==
  ASSUME NEW e, NEW t, NEW o, NEW f, Effect(e, t, o, f), ~e.over, f.over
  PROVE  o.k = "finish"
  <1> SUFFICES ASSUME o.k # "finish" PROVE FALSE
    OBVIOUS
  <1> DEFINE A(F) == Same(e, f, F) /\ "over" \notin F
  <1>1. \/ A({"num", "en", "p"}) \/ A({"locked"}) \/ A({"locked", "ret"}) \/ A({"en", "st", "locked"})
        \/ A({"en", "st", "locked", "waiters", "pend"})
        \/ A({"ret"}) \/ A({"en", "st", "wake", "waiters"}) \/ A({"pend", "en"})
        \/ A({"en", "st"}) \/ A({})
    BY DEF Effect
  <1>2. \E F : A(F)
    BY <1>1
  <1>3. PICK F : Same(e, f, F) /\ "over" \notin F
    BY <1>2
  <1>4. f.over = e.over
    BY <1>3, SameFields
  <1> QED BY <1>4

\* The thread take_step chooses for the next step.
LEMMA GoesTake ==
  ASSUME TypeInv, LookInv, RestInv, OverInv, NEW t \in Threads, TakeStep(t)
  PROVE  GoesInv'
  <1>1. prog \in Programs /\ IsState(ex) /\ PrioInv /\ Good(ex)
    BY DEF TypeInv, PrioInv
  <1>2. PICK W, d, m : Stepped(t, W, d, m) /\ Good(d) /\ IsState(d)
    BY <1>1, StepIs
  <1>3. /\ Picked(t) /\ Prepared(t, W, d)
        /\ \/ /\ InCount(m) /\ Same(d, ex', {"pend"})
              /\ chosen' = SelectsNext(ex', t, m)
           \/ /\ \E f : Effect(d, t, m, f) /\ Ended(t, m, d, f, ex')
              /\ chosen' = SelectsNext(ex', t, Unmarked(d, m))
        /\ mode' = IF ex'.over THEN "finish" ELSE "scan"
    BY <1>2 DEF Stepped
  <1>4. /\ d.en[t] = Enabled /\ d.pend[t] = None /\ d.st[t] # "blocked" /\ ~IsComplete(d, t)
        /\ t <= d.num /\ ~d.wake[t]
        /\ m.k = ex.pend[t].k
        /\ m.k \in {"wait", "timedwait", "notify_one", "notify_all"} => m.x \in Places
    BY <1>2, TakeIs
  <1>5. d.num = ex.num /\ d.over = ex.over /\ ex.num \in Nat
    BY <1>1, <1>3, PreparedFacts DEF Good
  <1>6. ~ex.over
    BY <1>3 DEF OverInv, Picked
  <1>7. Good(ex') /\ DOMAIN ex'.en = Threads /\ ex'.num \in Nat
    BY <1>1, StepGood DEF PrioInv, Good
  <1>8. \A u \in Threads : ex'.en[u] = Enabled => u \in 1 .. ex'.num
    BY <1>7 DEF Good, Enabled, Disabled, Threads
  <1>9. chosen' \in Threads \cup {0}
    BY <1>1, StepKeeps DEF Threads
  <1>10. ASSUME chosen' \in Threads PROVE ex'.en[chosen'] = Enabled
    <2>1. CASE chosen' = HighestThread(ex'.p, ex'.en)
      <3>1. HighestThread(ex'.p, ex'.en) \in EnabledSet(ex'.en) \cup {NoThread}
        BY <1>7, HighestIs DEF Good
      <3>2. chosen' # NoThread
        BY <1>10 DEF Threads, NoThread
      <3> QED BY <2>1, <3>1, <3>2 DEF EnabledSet
    <2>2. ASSUME m.k = "rmwr", chosen' = t, NEW f, Effect(d, t, m, f), Ended(t, m, d, f, ex')
          PROVE  ex'.en[chosen'] = Enabled
      <3>1. f.en[t] = Enabled /\ f.st[t] # "blocked" /\ ~IsComplete(f, t)
        BY <1>2, <1>4, <2>2, EffectOwn
      <3>2. ex'.en[t] = IF f.st[t] = "blocked" \/ IsComplete(f, t) THEN Disabled ELSE f.en[t]
        BY <1>7, <2>2, EndedFacts
      <3> QED BY <2>2, <3>1, <3>2
    <2>3. ASSUME m.k = "create", chosen' = ex.num + 1, chosen' # t, NEW f, Effect(d, t, m, f), Ended(t, m, d, f, ex')
          PROVE  ex'.en[chosen'] = Enabled
      <3>1. f.en = [d.en EXCEPT ![d.num + 1] = Enabled]
        BY <2>3 DEF Effect
      <3>2. f.en[chosen'] = Enabled
        BY <1>2, <1>5, <1>10, <2>3, <3>1 DEF Good
      <3>3. ex'.en[chosen'] = f.en[chosen']
        BY <1>7, <1>10, <2>3, EndedFacts
      <3> QED BY <3>2, <3>3
    <2> QED BY <1>1, <1>2, <1>10, <2>1, <2>2, <2>3, NextChosen
  <1>11. ASSUME ex'.over PROVE chosen' = 0
    <2>1. CASE Same(d, ex', {"pend"})
      <3>1. ex'.over = d.over
        BY <2>1, SameFields
      <3> QED BY <1>5, <1>6, <1>11, <3>1
    <2>2. ASSUME NEW f, Effect(d, t, m, f), Ended(t, m, d, f, ex'), chosen' = SelectsNext(ex', t, Unmarked(d, m))
          PROVE  chosen' = 0
      <3>1. f.over
        BY <1>7, <1>11, <2>2, EndedFacts
      <3>2. m.k = "finish"
        BY <1>5, <1>6, <2>2, <3>1, OnlyFinishEnds
      <3>3. Unmarked(d, m) = m
        BY <3>2 DEF Unmarked, LoadsBelowLimit, IsRead
      <3> QED BY <2>2, <3>2, <3>3 DEF SelectsNext, InCount, IsRead
    <2> QED BY <1>3, <2>1, <2>2
  <1> QED BY <1>3, <1>8, <1>9, <1>10, <1>11 DEF GoesInv, Live

\* The rest of the runtime keeps the choice.
LEMMA GoesStep ==
  ASSUME TypeInv, LookInv, RestInv, OverInv, MarkInv, GoesInv, [Next]_vars, StopsUnchosen
  PROVE  GoesInv'
  <1>1. /\ IsState(ex) /\ DOMAIN ex = Fields /\ DOMAIN ex.en = Threads /\ prog \in Programs
        /\ chosen \in Threads \cup {0}
    BY DEF TypeInv, PrioInv, IsState, Good, Threads
  <1>2. ASSUME mode \in {"scan", "choose"}, mode' # "finish", ex'.num = ex.num, chosen' = chosen,
               chosen # 0 => ex'.en[chosen] = ex.en[chosen]
        PROVE  GoesInv'
    BY <1>2 DEF GoesInv, Live
  <1>3. CASE UNCHANGED vars \/ Over
    <2>1. mode' = mode /\ ex' = ex /\ chosen' = chosen
      BY <1>3 DEF vars, Over
    <2> QED BY <2>1 DEF GoesInv, Live
  <1>4. CASE EndScan
    <2>1. mode = "scan" /\ mode' = "choose" /\ ex' = ex /\ chosen' = chosen
      BY <1>4 DEF EndScan
    <2> QED BY <1>2, <2>1
  <1>5. CASE PassThread
    <2>1. /\ mode = "scan" /\ mode' = mode /\ ex' = ex /\ scan \in Live /\ scan \in Threads
          /\ chosen' = IF chosen = 0 /\ ex.en[scan] # Disabled /\ IsEarly(ex.pend[scan]) THEN scan ELSE chosen
      BY <1>5, ScanExists DEF PassThread, Scanning
    <2>2. CASE chosen' = chosen
      BY <1>2, <2>1, <2>2
    <2>3. CASE chosen' = scan /\ ex.en[scan] # Disabled /\ IsEarly(ex.pend[scan])
      <3>1. ex.en[scan] # SleepSet
        BY <2>1, <2>3 DEF LookInv, SleepIs, IsEarly
      <3>2. ex.en[scan] \in {Disabled, Enabled, SleepSet}
        BY <2>1 DEF TypeInv, PrioInv, Good
      <3> QED BY <2>1, <2>3, <3>1, <3>2 DEF GoesInv, Live
    <2> QED BY <2>1, <2>2, <2>3
  <1>6. CASE RunThread
    <2>1. /\ scan \in Threads /\ ~IsComplete(ex, scan) /\ ~HasPending(ex, scan) /\ mode = "scan"
          /\ chosen' = chosen /\ mode' # "finish"
          /\ \/ ex' = ex
             \/ ex.last[scan].k \notin {"finish", "exit"} /\ ex' = UserRuns(ex, scan)
      BY <1>6, ScanExists DEF RunThread
    <2>2. CASE ex' = ex
      BY <1>2, <2>1, <2>2
    <2>3. CASE ex.last[scan].k \notin {"finish", "exit"} /\ ex' = UserRuns(ex, scan)
      <3>1. PICK o, r : UserStep(ex, ex', scan, o, r)
        BY <1>1, <2>1, <2>3, UserIs
      <3>2. ex'.en = ex.en /\ ex'.num = ex.num
        BY <1>1, <2>1, <3>1, UserChanges
      <3> QED BY <1>2, <2>1, <3>2
    <2> QED BY <2>1, <2>2, <2>3
  <1>7. CASE FreeThread
    <2>1. /\ ex' \in {ex, [ex EXCEPT !.st[scan] = "freed"]}
          /\ mode = "scan" /\ mode' = mode /\ chosen' = chosen
      BY <1>7 DEF FreeThread, Scanning
    <2>2. ex'.en = ex.en /\ ex'.num = ex.num
      BY <1>1, <2>1 DEF Fields
    <2> QED BY <1>2, <2>1, <2>2
  <1>8. CASE BlockThread
    <2>1. /\ ex' = SleepThread(ex, scan) /\ ~CheckActionEnabled(ex, scan)
          /\ mode = "scan" /\ mode' = mode /\ chosen' = chosen
      BY <1>8 DEF BlockThread, Scanning
    <2>2. ex'.en = [ex.en EXCEPT ![scan] = Disabled] /\ ex'.num = ex.num
      BY <1>1, <2>1 DEF SleepThread, Fields
    <2>3. chosen # 0 => chosen # scan
      BY <1>1, <2>1 DEF LookInv, ChosenIs
    <2>4. chosen # 0 => ex'.en[chosen] = ex.en[chosen]
      BY <1>1, <2>2, <2>3
    <2> QED BY <1>2, <2>1, <2>2, <2>4
  <1>9. CASE NothingToRun
    <2>1. mode' = "finish" /\ chosen' = chosen /\ Picks = {}
      BY <1>9 DEF NothingToRun
    <2>2. chosen = 0
      BY <2>1 DEF Picks
    <2> QED BY <2>1, <2>2 DEF GoesInv
  <1>10. CASE StopAsserted
    <2>1. mode' = "finish" /\ chosen' = chosen /\ chosen = 0
      BY <1>10 DEF StopAsserted, StopsUnchosen
    <2> QED BY <2>1 DEF GoesInv
  <1>11. ASSUME NEW t \in Threads, ResumeWoken(t) PROVE GoesInv'
    BY <1>11 DEF ResumeWoken, GoesInv
  <1>12. CASE FinishExecution
    <2>1. mode = "finish" /\ chosen' = chosen
      BY <1>12 DEF FinishExecution
    <2> QED BY <2>1 DEF GoesInv
  <1>13. ~StepOfNobody
    BY SomebodySteps
  <1> QED BY <1>3, <1>4, <1>5, <1>6, <1>7, <1>8, <1>9, <1>10, <1>11, <1>12, <1>13, GoesTake DEF Next

\* The runtime never crashes.
LEMMA CrashStep ==
  ASSUME TypeInv, LookInv, MarkInv, GoesInv, NoCrash, [Next]_vars
  PROVE  NoCrash'
  <1>1. ~StepOfNobody
    BY SomebodySteps
  <1>2. CASE RunThread
    BY <1>2, EndedNotRun DEF NoCrash
  <1>3. ASSUME NEW t \in Threads, ResumeWoken(t) \/ TakeStep(t) PROVE NoCrash'
    <2>1. mode' \in {"scan", "finish"}
      BY <1>3 DEF ResumeWoken, TakeStep
    <2> QED BY <2>1 DEF NoCrash
  <1>4. CASE UNCHANGED vars \/ Over \/ FreeThread \/ BlockThread \/ PassThread
    <2>1. mode' = mode
      BY <1>4 DEF vars, Over, FreeThread, BlockThread, PassThread
    <2> QED BY <2>1 DEF NoCrash
  <1>5. CASE EndScan \/ StopAsserted \/ NothingToRun \/ FinishExecution
    <2>1. mode' \in {"scan", "choose", "finish", "exit"}
      BY <1>5 DEF EndScan, StopAsserted, NothingToRun, FinishExecution
    <2> QED BY <2>1 DEF NoCrash
  <1> QED BY <1>1, <1>2, <1>3, <1>4, <1>5 DEF Next

\* Nobody is chosen at the start.
LEMMA GoesInit == ASSUME Init PROVE GoesInv /\ OverInv /\ NoCrash
  <1>1. chosen = 0 /\ mode = "scan"
    BY DEF Init
  <1>2. OverInv
    BY InvsInit DEF Invs
  <1> QED BY <1>1, <1>2 DEF GoesInv, NoCrash

\* No execution is stopped in a step that changes nothing.
LEMMA SteadyStops == ASSUME UNCHANGED vars PROVE StopsUnchosen
  <1>1. ASSUME StopAsserted PROVE FALSE
    <2>1. mode = "choose" /\ mode' = "finish" /\ mode' = mode
      BY <1>1 DEF StopAsserted, vars
    <2> QED BY <2>1
  <1> QED BY <1>1 DEF StopsUnchosen

\* The runtime never switches to a thread whose context is gone (getNextThread)
\* and always has an operation to give to take_step, as long as no execution is
\* stopped while a thread is chosen.
THEOREM PctNoCrash == Spec /\ ChosenCanGo /\ NeverForced /\ NeverStopsChosen => []NoCrash
  <1> DEFINE I == TypeInv /\ LookInv /\ RestInv /\ ListInv /\ OverInv /\ MarkInv /\ GoesInv
  <1>1. Init => I /\ NoCrash
    BY InitialTypes, LookInit, RestInit, ListInit, MarkInit, GoesInit
  <1>2. I /\ [Next]_vars /\ [ChosenComes]_vars /\ [NoneForced]_vars /\ [StopsUnchosen]_vars => I'
    <2>1. UNCHANGED vars => ChosenComes /\ NoneForced /\ StopsUnchosen
      BY Steady, SteadyLists, SteadyStops
    <2>2. ASSUME I, [Next]_vars, ChosenComes, NoneForced, StopsUnchosen PROVE I'
      BY <2>2, TypesStep, LookStep, RestStep, ListStep, OverStep, MarkStep, GoesStep
    <2> QED BY <2>1, <2>2
  <1>3. I /\ NoCrash /\ [Next]_vars => NoCrash'
    BY CrashStep
  <1> QED BY <1>1, <1>2, <1>3, PTL DEF Spec, ChosenCanGo, NeverForced, NeverStopsChosen
=============================================================================
