------------------------------ MODULE PctWakeups ------------------------------
(***************************************************************************)
(* Threads that cannot go on: why each of them waits, who wakes it, and    *)
(* which deadlocks and cycles are reported, for every number of threads    *)
(* and every program.                                                      *)
(***************************************************************************)
EXTENDS PctChoices

\* The mutex that t's operation gives up, 0 for none.
GivesUp(t) ==
  LET o == ex.pend[t] IN
  CASE o.k = "unlock" -> o.x
    [] IsWait(o) -> o.y
    [] OTHER -> 0

\* Threads unlock, and wait with, mutexes they hold only.
OwnersGive == \A t \in Threads : TakeStep(t) /\ GivesUp(t) \in Objects => ex.locked[GivesUp(t)] = t
OwnersRelease == [][OwnersGive]_vars

\* No thread joins main.
NobodyJoinsMain ==
  \A code \in Programs, t \in Threads : \A i \in DOMAIN code[t] :
    code[t][i].k = "join" => code[t][i].x # 1

\* A blocked thread has an operation and is disabled; a thread between two
\* operations, and one that is marked woken, can go on; a thread that waits is
\* in the list of its condition variable.
RestIsOf(e, t) ==
  /\ e.st[t] = "blocked" => HasPending(e, t) /\ e.en[t] = Disabled
  /\ t <= e.num /\ ~HasPending(e, t) /\ ~IsComplete(e, t) => e.en[t] = Enabled
  /\ HasPending(e, t) /\ e.wake[t] /\ e.pend[t].k \notin Blocking => e.en[t] = Enabled
  /\ IsWait(e.pend[t]) /\ e.en[t] # Enabled => t \in Listed(e.waiters[e.pend[t].x])
RestInv ==
  /\ \A t \in Threads : RestIsOf(ex, t)
  /\ mode \in {"scan", "choose"} /\ chosen \in Threads /\ HasPending(ex, chosen) => ex.en[chosen] = Enabled

\* Each disabled thread with an operation waits for something that has not
\* happened; the end of main wakes nobody.
WaitsFor(e, t) ==
  HasPending(e, t) /\ e.en[t] = Disabled =>
    Blocked(e, t) \/ (e.over /\ e.pend[t].k = "join" /\ e.pend[t].x = 1)
WaitInv == \A t \in Threads : WaitsFor(ex, t)
OverInv ==
  /\ mode \in {"scan", "choose", "hang", "crash"} => ~ex.over
  /\ ex.bug = "deadlock" => mode \in {"finish", "exit"}

----------------------------------------------------------------------------
(* Threads at rest.                                                        *)

\* A thread is where it was when nothing is done to it, or it is woken.
LEMMA RestKept ==
  ASSUME NEW e, NEW f, NEW u \in Threads, RestIsOf(e, u),
         f.pend[u] = e.pend[u], f.st[u] = e.st[u], f.en[u] = e.en[u], f.wake[u] = e.wake[u],
         u <= f.num => u <= e.num,
         IsWait(e.pend[u]) /\ u \in Listed(e.waiters[e.pend[u].x]) => u \in Listed(f.waiters[e.pend[u].x])
  PROVE  RestIsOf(f, u)
  BY DEF RestIsOf, IsComplete, HasPending

\* An enabled thread that is not blocked is at rest.
LEMMA RestEnabled ==
  ASSUME NEW f, NEW u \in Threads, f.en[u] = Enabled, f.st[u] # "blocked"
  PROVE  RestIsOf(f, u)
  BY DEF RestIsOf

\* A stretch of user code of s leaves the mutexes and the condition variables
\* of others alone.
LEMMA UserPlaces ==
  ASSUME IsState(ex), NEW s \in Threads, ~IsComplete(ex, s), NEW o, NEW r, NEW f, UserStep(ex, f, s, o, r),
         NEW u \in Threads \ {s}
  PROVE  /\ IsWait(ex.pend[u]) => f.waiters[ex.pend[u].x] = ex.waiters[ex.pend[u].x]
         /\ ex.pend[u].k = "lock" => f.locked[ex.pend[u].x] = ex.locked[ex.pend[u].x]
         /\ \A v \in Threads : IsComplete(f, v) <=> IsComplete(ex, v)
         /\ f.over = ex.over
  <1>1. /\ DOMAIN ex.waiters = Places /\ DOMAIN ex.locked = Places /\ DOMAIN ex.st = Threads
        /\ AtPlace(ex, u)
    BY DEF IsState
  <1>2. /\ Same(ex, f, {"todo", "last", "pend", "st", "bug", "futex", "locked", "waiters", "flag"})
        /\ f.waiters \in {ex.waiters, [ex.waiters EXCEPT ![s] = Nobody]}
        /\ f.locked \in {ex.locked, [ex.locked EXCEPT ![s] = 0]}
        /\ f.st = [ex.st EXCEPT ![s] = "ready"]
    BY DEF UserStep
  <1>3. Same(ex, f, {"todo", "last", "pend", "st", "bug", "futex", "locked", "waiters", "flag"})
    BY <1>2
  <1>4. f.over = ex.over
    BY <1>3, SameFields
  <1>5. \A v \in Threads : IsComplete(f, v) <=> IsComplete(ex, v)
    BY <1>1, <1>2 DEF IsComplete
  <1>6. IsWait(ex.pend[u]) \/ ex.pend[u].k = "lock" => ex.pend[u].x \in Places /\ ex.pend[u].x # s
    <2>1. ASSUME IsWait(ex.pend[u]) \/ ex.pend[u].k = "lock" PROVE ex.pend[u].x \in Objects \cup {u}
      <3>1. ex.pend[u].k = ex.last[u].k /\ ex.pend[u].x = ex.last[u].x /\ FitsThread(u, ex.last[u])
        BY <1>1, <2>1 DEF AtPlace, HasPending, IsWait
      <3> QED BY <2>1, <3>1 DEF FitsThread, IsWait
    <2>2. s \notin Objects
      BY RuntimeParams
    <2> QED BY <2>1, <2>2 DEF Places
  <1> QED BY <1>1, <1>2, <1>4, <1>5, <1>6

\* A thread that runs to its next operation is at rest there.
LEMMA RestRun ==
  ASSUME TypeInv, LookInv, RestInv, RunThread
  PROVE  RestInv'
  <1>1. /\ IsState(ex) /\ prog \in Programs /\ scan \in Threads /\ scan \in Live /\ mode = "scan"
        /\ ex.num \in Nat
    BY ScanExists DEF TypeInv, RunThread, PrioInv, Good
  <1>2. /\ ~IsComplete(ex, scan) /\ ~HasPending(ex, scan)
        /\ UNCHANGED <<chosen, scan>>
        /\ \/ mode' = "crash" /\ ex' = ex
           \/ /\ mode' \in {"hang", "scan"} /\ ex.last[scan].k \notin {"finish", "exit"}
              /\ ex' = UserRuns(ex, scan)
    BY <1>1 DEF RunThread
  <1>3. CASE mode' = "crash" /\ ex' = ex
    BY <1>3 DEF RestInv
  <1>4. CASE /\ mode' \in {"hang", "scan"} /\ ex.last[scan].k \notin {"finish", "exit"}
             /\ ex' = UserRuns(ex, scan)
    <2>1. PICK o, r : UserStep(ex, ex', scan, o, r)
      BY <1>1, <1>4, UserIs
    <2>2. /\ \A u \in Threads \ {scan} : ex'.pend[u] = ex.pend[u] /\ ex'.st[u] = ex.st[u]
          /\ ex'.en = ex.en /\ ex'.wake = ex.wake /\ ex'.num = ex.num /\ ex'.st[scan] = "ready"
      BY <1>1, <1>2, <2>1, UserChanges
    <2>3. ex.en[scan] = Enabled
      BY <1>1, <1>2 DEF RestInv, RestIsOf, Live, Threads
    <2>4. ASSUME NEW u \in Threads PROVE RestIsOf(ex', u)
      <3>1. CASE u = scan
        BY <2>2, <2>3, <3>1, RestEnabled
      <3>2. CASE u # scan
        <4>1. IsWait(ex.pend[u]) => ex'.waiters[ex.pend[u].x] = ex.waiters[ex.pend[u].x]
          BY <1>1, <1>2, <2>1, <3>2, UserPlaces
        <4>2. RestIsOf(ex, u)
          BY DEF RestInv
        <4> QED BY <1>1, <2>2, <3>2, <4>1, <4>2, RestKept
      <3> QED BY <3>1, <3>2
    <2>5. ASSUME chosen \in Threads, HasPending(ex', chosen) PROVE ex'.en[chosen] = Enabled
      <3>1. chosen # scan => HasPending(ex, chosen)
        BY <2>2, <2>5 DEF HasPending
      <3> QED BY <1>1, <2>2, <2>3, <2>5, <3>1 DEF RestInv
    <2> QED BY <1>2, <2>4, <2>5 DEF RestInv
  <1> QED BY <1>2, <1>3, <1>4

\* getNextThread leaves a thread at rest when it frees, blocks or passes it.
LEMMA RestScan ==
  ASSUME TypeInv, LookInv, RestInv, FreeThread \/ BlockThread \/ PassThread \/ EndScan
  PROVE  RestInv'
  <1>1. /\ IsState(ex) /\ mode = "scan" /\ DOMAIN ex = Fields /\ ex.num \in Nat
        /\ ex.st \in [Threads -> {"created", "ready", "blocked", "completed", "freed"}]
        /\ ex.en \in [Threads -> {Disabled, Enabled, SleepSet}]
    <2>1. IsState(ex) /\ Good(ex)
      BY DEF TypeInv, PrioInv
    <2>2. mode = "scan"
      BY DEF FreeThread, BlockThread, PassThread, EndScan, Scanning
    <2> QED BY <2>1, <2>2 DEF IsState, Good
  <1>2. /\ \A u \in Threads : CompleteIs(ex, u) /\ SleepIs(ex, u) /\ RestIsOf(ex, u)
        /\ chosen \in Threads => ChosenIs(ex, chosen)
        /\ chosen \in Threads /\ HasPending(ex, chosen) => ex.en[chosen] = Enabled
    BY <1>1 DEF LookInv, RestInv
  <1>3. ASSUME Scanning PROVE scan \in Threads /\ scan \in Live
    BY <1>3, ScanExists
  <1>4. CASE FreeThread
    <2>1. /\ Scanning /\ IsComplete(ex, scan) /\ ex' \in {ex, [ex EXCEPT !.st[scan] = "freed"]}
          /\ chosen' = chosen /\ mode' = mode
      BY <1>4 DEF FreeThread
    <2>2. /\ ex'.pend = ex.pend /\ ex'.en = ex.en /\ ex'.wake = ex.wake
          /\ ex'.waiters = ex.waiters /\ ex'.num = ex.num
          /\ \A v \in Threads : IsComplete(ex, v) <=> IsComplete(ex', v)
          /\ \A v \in Threads : ex'.st[v] = "blocked" => ex.st[v] = "blocked"
      BY <1>1, <2>1 DEF Fields, IsComplete
    <2>3. ASSUME NEW u \in Threads PROVE RestIsOf(ex', u)
      <3>1. RestIsOf(ex, u)
        BY <1>2
      <3> QED BY <2>2, <3>1 DEF RestIsOf, HasPending
    <2> QED BY <1>2, <2>1, <2>2, <2>3 DEF RestInv, HasPending
  <1>5. CASE BlockThread
    <2>1. /\ Scanning /\ HasPending(ex, scan) /\ ex' = SleepThread(ex, scan) /\ ~CheckActionEnabled(ex, scan)
          /\ chosen' = chosen /\ mode' = mode
      BY <1>5 DEF BlockThread
    <2>2. ex.pend[scan].k \in Blocking /\ chosen # scan
      <3>1. ex.pend[scan].k \in Blocking
        BY <2>1 DEF CheckActionEnabled, Blocking
      <3> QED BY <1>2, <1>3, <2>1, <3>1 DEF ChosenIs
    <2>3. /\ ex'.pend = ex.pend /\ ex'.wake = ex.wake /\ ex'.waiters = ex.waiters /\ ex'.num = ex.num
          /\ ex'.en = [ex.en EXCEPT ![scan] = Disabled] /\ ex'.st = [ex.st EXCEPT ![scan] = "blocked"]
      BY <1>1, <2>1 DEF SleepThread, Fields
    <2>4. ASSUME NEW u \in Threads PROVE RestIsOf(ex', u)
      <3>1. CASE u = scan
        <4>1. ex'.en[u] = Disabled /\ ex'.st[u] = "blocked" /\ ~IsWait(ex.pend[u])
          BY <1>1, <2>2, <2>3, <3>1 DEF IsWait, Blocking
        <4> QED BY <2>1, <2>2, <2>3, <3>1, <4>1 DEF RestIsOf, HasPending
      <3>2. CASE u # scan
        <4>1. ex'.en[u] = ex.en[u] /\ ex'.st[u] = ex.st[u]
          BY <2>3, <3>2
        <4> QED BY <1>1, <1>2, <2>3, <4>1, RestKept
      <3> QED BY <3>1, <3>2
    <2>5. \A u \in Threads \ {scan} : ex'.en[u] = ex.en[u]
      BY <2>3
    <2> QED BY <1>2, <2>1, <2>2, <2>3, <2>4, <2>5 DEF RestInv, HasPending
  <1>6. CASE PassThread
    <2>1. /\ Scanning /\ HasPending(ex, scan)
          /\ chosen' = chosen \/ (chosen' = scan /\ IsEarly(ex.pend[scan]) /\ ex.en[scan] # Disabled)
          /\ ex' = ex /\ mode' = mode
      BY <1>6 DEF PassThread
    <2>2. CASE chosen' = chosen
      BY <1>1, <1>2, <2>1, <2>2 DEF RestInv
    <2>3. CASE chosen' = scan /\ IsEarly(ex.pend[scan]) /\ ex.en[scan] # Disabled
      <3>1. ex.en[scan] # SleepSet
        BY <1>2, <1>3, <2>1, <2>3 DEF SleepIs, IsEarly
      <3>2. ex.en[scan] = Enabled
        BY <1>1, <1>3, <2>1, <2>3, <3>1
      <3> QED BY <1>2, <2>1, <2>3, <3>2 DEF RestInv
    <2> QED BY <2>1, <2>2, <2>3
  <1>7. CASE EndScan
    <2>1. mode' = "choose" /\ ex' = ex /\ chosen' = chosen
      BY <1>7 DEF EndScan
    <2> QED BY <1>2, <2>1 DEF RestInv
  <1> QED BY <1>4, <1>5, <1>6, <1>7

\* The objects of a pending operation.
LEMMA PendingPlace ==
  ASSUME NEW e, IsState(e), NEW u \in Threads
  PROVE  /\ IsWait(e.pend[u]) \/ e.pend[u].k = "lock" => e.pend[u].x \in Objects \cup {u}
         /\ IsWait(e.pend[u]) => \/ e.pend[u].x \in Objects /\ e.pend[u].y \in Objects
                                 \/ e.pend[u].x = u /\ e.pend[u].y = u
         /\ e.pend[u].k \in {"unlock", "trylock"} => e.pend[u].x \in Objects
         /\ e.pend[u].k \in {"notify_one", "notify_all"} => e.pend[u].x \in Places
         /\ e.pend[u].k = "join" => e.pend[u].x \in Threads
         /\ u > e.num => ~HasPending(e, u)
  <1>1. AtPlace(e, u)
    BY DEF IsState
  <1>2. HasPending(e, u) => /\ e.pend[u].k = e.last[u].k /\ e.pend[u].x = e.last[u].x
                            /\ e.pend[u].y = e.last[u].y /\ FitsThread(u, e.last[u])
    BY <1>1 DEF AtPlace
  <1>3. CASE ~HasPending(e, u)
    BY <1>3 DEF HasPending, IsWait
  <1>4. CASE HasPending(e, u)
    BY <1>1, <1>2, <1>4 DEF FitsThread, IsWait, AtPlace, HasPending
  <1> QED BY <1>3, <1>4

\* Sleepers that are woken are enabled.
LEMMA PreparedRests ==
  ASSUME IsState(ex), Good(ex), NEW t \in Threads, NEW W, NEW d, Prepared(t, W, d), IsState(d),
         NEW u \in Threads \ {t}, RestIsOf(ex, u)
  PROVE  RestIsOf(d, u)
  <1>1. /\ d.num = ex.num /\ d.st = ex.st /\ d.pend[u] = ex.pend[u]
        /\ u \in W => ex.en[u] = SleepSet
        /\ d.en[u] = IF u \in W THEN Enabled ELSE ex.en[u]
        /\ d.wake[u] <=> u \in W \/ ex.wake[u]
    BY PreparedFacts
  <1>2. CASE u \in W
    <2>1. ex.st[u] # "blocked"
      BY <1>1, <1>2 DEF RestIsOf, Disabled, SleepSet
    <2> QED BY <1>1, <1>2, <2>1, RestEnabled
  <1>3. CASE u \notin W
    <2>1. \A c \in Places : d.waiters[c][u] = ex.waiters[c][u]
      BY <1>3 DEF Prepared, WaitersAfter
    <2>2. IsWait(ex.pend[u]) => ex.pend[u].x \in Places
      BY PendingPlace DEF Places
    <2>3. IsWait(ex.pend[u]) /\ u \in Listed(ex.waiters[ex.pend[u].x]) => u \in Listed(d.waiters[ex.pend[u].x])
      BY <2>1, <2>2 DEF Listed
    <2>4. ex.wake[u] \in BOOLEAN /\ d.wake[u] \in BOOLEAN
      BY DEF IsState
    <2>5. d.wake[u] = ex.wake[u]
      BY <1>1, <1>3, <2>4
    <2> QED BY <1>1, <1>3, <2>3, <2>5, RestKept
  <1> QED BY <1>2, <1>3

\* An operation of t leaves other threads at rest.
LEMMA EffectRests ==
  ASSUME NEW e, IsState(e), Good(e), NEW t \in Threads, NEW o, NEW f, Effect(e, t, o, f),
         o.k \in {"wait", "timedwait", "notify_one", "notify_all"} => o.x \in Places,
         NEW u \in Threads \ {t}, RestIsOf(e, u), IsComplete(e, u) => ~HasPending(e, u)
  PROVE  RestIsOf(f, u)
  <1>0. /\ e.en \in [Threads -> {Disabled, Enabled, SleepSet}] /\ e.wake \in [Threads -> BOOLEAN]
        /\ e.st \in [Threads -> {"created", "ready", "blocked", "completed", "freed"}]
        /\ e.pend \in [Threads -> Ops] /\ e.waiters \in [Places -> [Threads -> Nat]]
        /\ \A c \in Places : Listed(e.waiters[c]) \subseteq 1 .. e.num
        /\ e.num \in Nat
    BY DEF IsState, Good
  <1>1. ASSUME NEW F, Same(e, f, F), {"num", "en", "wake", "st", "pend", "waiters"} \cap F = {}
        PROVE  RestIsOf(f, u)
    <2>1. /\ f.num = e.num /\ f.en = e.en /\ f.wake = e.wake /\ f.st = e.st /\ f.pend = e.pend
          /\ f.waiters = e.waiters
      BY <1>1, SameFields
    <2> QED BY <2>1, RestKept
  <1>2. CASE o.k = "create" /\ Same(e, f, {"num", "en", "p"})
             /\ f.num = e.num + 1 /\ f.en = [e.en EXCEPT ![e.num + 1] = Enabled]
    <2>1. Same(e, f, {"num", "en", "p"})
      BY <1>2
    <2>2. f.wake = e.wake /\ f.st = e.st /\ f.pend = e.pend /\ f.waiters = e.waiters
      BY <2>1, SameFields
    <2>3. CASE u = e.num + 1
      <3>1. ~HasPending(e, u)
        BY <1>0, <2>3, PendingPlace
      <3>2. f.en[u] = Enabled /\ f.st[u] # "blocked"
        BY <1>0, <1>2, <2>2, <2>3, <3>1 DEF RestIsOf
      <3> QED BY <3>2, RestEnabled
    <2>4. CASE u # e.num + 1
      <3>1. f.en[u] = e.en[u] /\ (u <= f.num => u <= e.num)
        BY <1>0, <1>2, <2>4 DEF Threads
      <3> QED BY <2>2, <3>1, RestKept
    <2> QED BY <2>3, <2>4
  <1>3. ASSUME NEW V, NEW F, Same(e, f, F), "num" \notin F, "wake" \notin F,
               f.en[u] = (IF u \in V THEN Enabled ELSE e.en[u]),
               f.st[u] = (IF u \in V THEN "ready" ELSE e.st[u]),
               f.pend[u] = e.pend[u],
               IsWait(e.pend[u]) /\ u \in Listed(e.waiters[e.pend[u].x]) => u \in Listed(f.waiters[e.pend[u].x])
        PROVE  RestIsOf(f, u)
    <2>1. f.num = e.num /\ f.wake = e.wake
      BY <1>3, SameFields
    <2>2. CASE u \in V
      BY <1>3, <2>2, RestEnabled
    <2>3. CASE u \notin V
      BY <1>3, <2>1, <2>3, RestKept
    <2> QED BY <2>2, <2>3
  <1>4. CASE /\ Same(e, f, {"en", "st", "locked"})
             /\ f.en = Set(e.en, LockWaiters(e, t), Enabled) /\ f.st = Set(e.st, LockWaiters(e, t), "ready")
    <2>1. Same(e, f, {"en", "st", "locked"})
      BY <1>4
    <2>2. f.pend = e.pend /\ f.waiters = e.waiters
      BY <2>1, SameFields
    <2>3. /\ f.en[u] = (IF u \in LockWaiters(e, t) THEN Enabled ELSE e.en[u])
          /\ f.st[u] = (IF u \in LockWaiters(e, t) THEN "ready" ELSE e.st[u])
      BY <1>4 DEF Set
    <2> QED BY <1>3, <2>1, <2>2, <2>3
  <1>5. CASE /\ o.k \in {"wait", "timedwait"} /\ Same(e, f, {"en", "st", "locked", "waiters", "pend"})
             /\ f.pend = [e.pend EXCEPT ![t] = o]
             /\ f.waiters = [e.waiters EXCEPT ![o.x] = Enlisted(@, t)]
             /\ \/ /\ f.en = [Set(e.en, LockWaiters(e, t), Enabled) EXCEPT ![t] = Disabled]
                   /\ f.st = [Set(e.st, LockWaiters(e, t), "ready") EXCEPT ![t] = "blocked"]
                \/ /\ f.en = [Set(e.en, LockWaiters(e, t), Enabled) EXCEPT ![t] = SleepSet]
                   /\ f.st = Set(e.st, LockWaiters(e, t), "ready")
    <2>1. Same(e, f, {"en", "st", "locked", "waiters", "pend"})
      BY <1>5
    <2>2. f.pend[u] = e.pend[u]
      BY <1>5, <1>0
    <2>3. /\ f.en[u] = (IF u \in LockWaiters(e, t) THEN Enabled ELSE e.en[u])
          /\ f.st[u] = (IF u \in LockWaiters(e, t) THEN "ready" ELSE e.st[u])
      BY <1>5 DEF Set
    <2>4. \A c \in Places : f.waiters[c][u] = e.waiters[c][u]
      BY <1>0, <1>5 DEF Enlisted
    <2>5. IsWait(e.pend[u]) => e.pend[u].x \in Places
      BY PendingPlace DEF Places
    <2>6. IsWait(e.pend[u]) /\ u \in Listed(e.waiters[e.pend[u].x]) => u \in Listed(f.waiters[e.pend[u].x])
      BY <2>4, <2>5 DEF Listed
    <2> QED BY <1>3, <2>1, <2>2, <2>3, <2>6
  <1>6. ASSUME Same(e, f, {"en", "st", "wake", "waiters"}), NEW W, W \subseteq 1 .. e.num, NotifyEffect(e, W, f),
               u \notin W /\ IsWait(e.pend[u]) /\ u \in Listed(e.waiters[e.pend[u].x])
                 => u \in Listed(f.waiters[e.pend[u].x])
        PROVE  RestIsOf(f, u)
    <2> DEFINE V == {v \in 1 .. e.num : v \in W /\ e.st[v] # "completed"}
    <2>1. /\ f.en = Set(e.en, V, Enabled) /\ f.st = Set(e.st, V, "ready")
          /\ f.wake = [v \in Threads |-> v \in W \/ e.wake[v]]
      BY <1>6 DEF NotifyEffect
    <2>2. f.num = e.num /\ f.pend = e.pend
      BY <1>6, SameFields
    <2>3. u \in V <=> u \in W /\ e.st[u] # "completed"
      BY <1>6
    <2> HIDE DEF V
    <2>4. CASE u \in V
      <3>1. f.en[u] = Enabled /\ f.st[u] = "ready"
        BY <2>1, <2>4 DEF Set
      <3> QED BY <3>1, RestEnabled
    <2>5. CASE u \notin V /\ u \in W
      <3>1. f.st[u] = "completed" /\ ~HasPending(e, u)
        BY <2>1, <2>3, <2>5 DEF Set, IsComplete
      <3> QED BY <2>2, <3>1 DEF RestIsOf, IsComplete, HasPending, IsWait
    <2>6. CASE u \notin V /\ u \notin W
      <3>1. f.en[u] = e.en[u] /\ f.st[u] = e.st[u] /\ f.wake[u] = e.wake[u]
        BY <1>0, <2>1, <2>6 DEF Set
      <3> QED BY <1>6, <2>2, <2>6, <3>1, RestKept
    <2> QED BY <2>4, <2>5, <2>6
  <1>7. CASE o.k = "sleep" /\ Same(e, f, {"pend", "en"}) /\ f.pend = [e.pend EXCEPT ![t] = o]
             /\ f.en = [e.en EXCEPT ![t] = SleepSet]
    <2>1. Same(e, f, {"pend", "en"})
      BY <1>7
    <2>2. f.num = e.num /\ f.wake = e.wake /\ f.st = e.st /\ f.waiters = e.waiters
      BY <2>1, SameFields
    <2>3. f.pend[u] = e.pend[u] /\ f.en[u] = e.en[u]
      BY <1>0, <1>7
    <2> QED BY <2>2, <2>3, RestKept
  <1>8. CASE Same(e, f, {"st", "over"}) /\ f.st = [e.st EXCEPT ![t] = "completed"]
    <2>1. Same(e, f, {"st", "over"})
      BY <1>8
    <2>2. f.num = e.num /\ f.wake = e.wake /\ f.en = e.en /\ f.waiters = e.waiters /\ f.pend = e.pend
      BY <2>1, SameFields
    <2>3. f.st[u] = e.st[u]
      BY <1>0, <1>8
    <2> QED BY <2>2, <2>3, RestKept
  <1>9. CASE /\ Same(e, f, {"en", "st"})
             /\ f.en = Set(e.en, JoinWaiters(e, t), Enabled)
             /\ f.st = [Set(e.st, JoinWaiters(e, t), "ready") EXCEPT ![t] = "completed"]
    <2>1. Same(e, f, {"en", "st"})
      BY <1>9
    <2>2. f.pend = e.pend /\ f.waiters = e.waiters
      BY <2>1, SameFields
    <2>3. /\ f.en[u] = (IF u \in JoinWaiters(e, t) THEN Enabled ELSE e.en[u])
          /\ f.st[u] = (IF u \in JoinWaiters(e, t) THEN "ready" ELSE e.st[u])
      BY <1>9 DEF Set
    <2> QED BY <1>3, <2>1, <2>2, <2>3
  <1>10. Same(e, f, {"locked"}) \/ Same(e, f, {"locked", "ret"}) \/ Same(e, f, {"ret"}) \/ Same(e, f, {})
           => RestIsOf(f, u)
    BY <1>1
  <1>11. CASE o.k = "create"
    BY <1>2, <1>11 DEF Effect
  <1>12. CASE o.k \in {"lock", "trylock"}
    <2>1. Same(e, f, {"locked"}) \/ Same(e, f, {"locked", "ret"})
      BY <1>12 DEF Effect
    <2> QED BY <1>10, <2>1
  <1>13. CASE o.k = "unlock"
    BY <1>4, <1>13 DEF Effect
  <1>14. CASE o.k \in {"wait", "timedwait"}
    <2>1. \/ Same(e, f, {"ret"})
          \/ /\ Same(e, f, {"en", "st", "locked", "waiters", "pend"})
             /\ f.pend = [e.pend EXCEPT ![t] = o]
             /\ f.waiters = [e.waiters EXCEPT ![o.x] = Enlisted(@, t)]
             /\ \/ /\ f.en = [Set(e.en, LockWaiters(e, t), Enabled) EXCEPT ![t] = Disabled]
                   /\ f.st = [Set(e.st, LockWaiters(e, t), "ready") EXCEPT ![t] = "blocked"]
                \/ /\ f.en = [Set(e.en, LockWaiters(e, t), Enabled) EXCEPT ![t] = SleepSet]
                   /\ f.st = Set(e.st, LockWaiters(e, t), "ready")
      BY <1>14 DEF Effect, WaitEffect
    <2> QED BY <1>5, <1>10, <1>14, <2>1
  <1>15. CASE o.k = "notify_all"
    <2>1. /\ Same(e, f, {"en", "st", "wake", "waiters"}) /\ NotifyEffect(e, Listed(e.waiters[o.x]), f)
          /\ f.waiters = [e.waiters EXCEPT ![o.x] = Nobody]
      BY <1>15 DEF Effect
    <2>2. o.x \in Places /\ Listed(e.waiters[o.x]) \subseteq 1 .. e.num
      BY <1>0, <1>15
    <2>3. u \notin Listed(e.waiters[o.x]) /\ IsWait(e.pend[u]) /\ u \in Listed(e.waiters[e.pend[u].x])
            => u \in Listed(f.waiters[e.pend[u].x])
      BY <1>0, <2>1
    <2> QED BY <1>6, <2>1, <2>2, <2>3
  <1>16. CASE o.k = "notify_one"
    <2>1. CASE Same(e, f, {})
      BY <1>10, <2>1
    <2>2. ASSUME NEW v \in Listed(e.waiters[o.x]), Same(e, f, {"en", "st", "wake", "waiters"}),
                 NotifyEffect(e, {v}, f), f.waiters = [e.waiters EXCEPT ![o.x] = Delisted(@, v)]
          PROVE  RestIsOf(f, u)
      <3>1. {v} \subseteq 1 .. e.num
        BY <1>0, <1>16
      <3>2. u \notin {v} => \A c \in Places : f.waiters[c][u] = e.waiters[c][u]
        BY <1>0, <2>2 DEF Delisted
      <3>3. IsWait(e.pend[u]) => e.pend[u].x \in Places
        BY PendingPlace DEF Places
      <3>4. u \notin {v} /\ IsWait(e.pend[u]) /\ u \in Listed(e.waiters[e.pend[u].x])
              => u \in Listed(f.waiters[e.pend[u].x])
        BY <3>2, <3>3 DEF Listed
      <3> QED BY <1>6, <2>2, <3>1, <3>4
    <2> QED BY <1>16, <2>1, <2>2 DEF Effect
  <1>17. CASE o.k = "sleep"
    BY <1>7, <1>17 DEF Effect
  <1>18. CASE o.k \in {"finish", "exit"}
    BY <1>8, <1>9, <1>18 DEF Effect
  <1>19. CASE o.k \notin {"create", "lock", "trylock", "unlock", "wait", "timedwait", "notify_all",
                         "notify_one", "sleep", "finish", "exit"}
    <2>1. Same(e, f, {"ret"}) \/ Same(e, f, {})
      BY <1>19 DEF Effect
    <2> QED BY <1>10, <2>1
  <1> QED BY <1>11, <1>12, <1>13, <1>14, <1>15, <1>16, <1>17, <1>18, <1>19

\* A thread that has executed its operation goes on, waits, sleeps or is over.
LEMMA EffectOwn ==
  ASSUME NEW e, IsState(e), Good(e), NEW t \in Threads, NEW o, NEW f, Effect(e, t, o, f),
         o.k \in {"wait", "timedwait"} => o.x \in Places,
         e.en[t] = Enabled, e.pend[t] = None, e.st[t] # "blocked", ~IsComplete(e, t), t <= e.num,
         ~e.wake[t]
  PROVE  \/ f.en[t] = Enabled /\ f.st[t] # "blocked" /\ ~IsComplete(f, t) /\ f.pend[t] = None
         \/ /\ o.k \in {"wait", "timedwait"} /\ f.pend[t] = o /\ ~f.wake[t]
            /\ t \in Listed(f.waiters[o.x]) /\ ~IsComplete(f, t)
            /\ \/ f.en[t] = Disabled /\ f.st[t] = "blocked"
               \/ f.en[t] = SleepSet /\ f.st[t] # "blocked"
         \/ /\ o.k = "sleep" /\ f.pend[t] = o /\ ~f.wake[t] /\ f.en[t] = SleepSet
            /\ f.st[t] # "blocked" /\ ~IsComplete(f, t)
         \/ o.k \in {"finish", "exit"} /\ f.st[t] = "completed" /\ f.pend[t] = None
  <1>0. /\ e.en \in [Threads -> {Disabled, Enabled, SleepSet}] /\ e.wake \in [Threads -> BOOLEAN]
        /\ e.st \in [Threads -> {"created", "ready", "blocked", "completed", "freed"}]
        /\ e.pend \in [Threads -> Ops] /\ e.waiters \in [Places -> [Threads -> Nat]]
        /\ e.num \in Nat
    BY DEF IsState, Good
  <1> DEFINE Goes == f.en[t] = Enabled /\ f.st[t] # "blocked" /\ ~IsComplete(f, t) /\ f.pend[t] = None
  <1>1. ASSUME NEW F, Same(e, f, F), {"en", "st", "pend"} \cap F = {}
        PROVE  Goes
    <2>1. f.en = e.en /\ f.st = e.st /\ f.pend = e.pend
      BY <1>1, SameFields
    <2> QED BY <2>1 DEF IsComplete
  <1>2. ASSUME NEW V, NEW F, Same(e, f, F), "pend" \notin F,
               f.en = Set(e.en, V, Enabled), f.st = Set(e.st, V, "ready")
        PROVE  Goes
    <2>1. f.pend = e.pend
      BY <1>2, SameFields
    <2>2. f.en[t] = Enabled /\ f.st[t] \in {e.st[t], "ready"}
      BY <1>2 DEF Set
    <2> QED BY <2>1, <2>2 DEF IsComplete
  <1>3. CASE o.k = "create"
    <2>1. /\ Same(e, f, {"num", "en", "p"})
          /\ f.en = [e.en EXCEPT ![e.num + 1] = Enabled]
      BY <1>3 DEF Effect
    <2>2. Same(e, f, {"num", "en", "p"})
      BY <2>1
    <2>3. f.st = e.st /\ f.pend = e.pend
      BY <2>2, SameFields
    <2>4. f.en[t] = Enabled
      BY <1>0, <2>1
    <2> QED BY <2>3, <2>4 DEF IsComplete
  <1>4. CASE o.k \in {"lock", "trylock"}
    <2>1. Same(e, f, {"locked"}) \/ Same(e, f, {"locked", "ret"})
      BY <1>4 DEF Effect
    <2> QED BY <1>1, <2>1
  <1>5. CASE o.k = "unlock"
    <2>1. /\ Same(e, f, {"en", "st", "locked"})
          /\ f.en = Set(e.en, LockWaiters(e, t), Enabled) /\ f.st = Set(e.st, LockWaiters(e, t), "ready")
      BY <1>5 DEF Effect
    <2> QED BY <1>2, <2>1
  <1>6. CASE o.k \in {"wait", "timedwait"}
    <2>1. \/ Same(e, f, {"ret"})
          \/ /\ Same(e, f, {"en", "st", "locked", "waiters", "pend"})
             /\ f.pend = [e.pend EXCEPT ![t] = o]
             /\ f.waiters = [e.waiters EXCEPT ![o.x] = Enlisted(@, t)]
             /\ \/ /\ f.en = [Set(e.en, LockWaiters(e, t), Enabled) EXCEPT ![t] = Disabled]
                   /\ f.st = [Set(e.st, LockWaiters(e, t), "ready") EXCEPT ![t] = "blocked"]
                \/ /\ f.en = [Set(e.en, LockWaiters(e, t), Enabled) EXCEPT ![t] = SleepSet]
                   /\ f.st = Set(e.st, LockWaiters(e, t), "ready")
      BY <1>6 DEF Effect, WaitEffect
    <2>2. CASE Same(e, f, {"ret"})
      BY <1>1, <2>2
    <2>3. CASE /\ Same(e, f, {"en", "st", "locked", "waiters", "pend"})
               /\ f.pend = [e.pend EXCEPT ![t] = o]
               /\ f.waiters = [e.waiters EXCEPT ![o.x] = Enlisted(@, t)]
               /\ \/ /\ f.en = [Set(e.en, LockWaiters(e, t), Enabled) EXCEPT ![t] = Disabled]
                     /\ f.st = [Set(e.st, LockWaiters(e, t), "ready") EXCEPT ![t] = "blocked"]
                  \/ /\ f.en = [Set(e.en, LockWaiters(e, t), Enabled) EXCEPT ![t] = SleepSet]
                     /\ f.st = Set(e.st, LockWaiters(e, t), "ready")
      <3>1. Same(e, f, {"en", "st", "locked", "waiters", "pend"})
        BY <2>3
      <3>2. f.wake = e.wake /\ f.pend[t] = o
        BY <1>0, <2>3, <3>1, SameFields, SMTT(30)
      <3>3. f.waiters[o.x][t] = e.waiters[o.x][t] + 1 /\ e.waiters[o.x][t] \in Nat
        BY <1>0, <1>6, <2>3 DEF Enlisted
      <3>4. t \in Listed(f.waiters[o.x])
        BY <3>3 DEF Listed
      <3>5. \/ f.en[t] = Disabled /\ f.st[t] = "blocked"
            \/ f.en[t] = SleepSet /\ f.st[t] \in {e.st[t], "ready"}
        BY <2>3 DEF Set
      <3> QED BY <1>6, <3>2, <3>4, <3>5 DEF IsComplete
    <2> QED BY <2>1, <2>2, <2>3
  <1>7. CASE o.k \in {"notify_all", "notify_one"}
    <2>1. \/ Same(e, f, {})
          \/ /\ Same(e, f, {"en", "st", "wake", "waiters"})
             /\ \E V : f.en = Set(e.en, V, Enabled) /\ f.st = Set(e.st, V, "ready")
      BY <1>7 DEF Effect, NotifyEffect
    <2> QED BY <1>1, <1>2, <2>1
  <1>8. CASE o.k = "sleep"
    <2>1. /\ Same(e, f, {"pend", "en"})
          /\ f.pend = [e.pend EXCEPT ![t] = o] /\ f.en = [e.en EXCEPT ![t] = SleepSet]
      BY <1>8 DEF Effect
    <2>2. Same(e, f, {"pend", "en"})
      BY <2>1
    <2>3. f.st = e.st /\ f.wake = e.wake
      BY <2>2, SameFields
    <2>4. f.pend[t] = o /\ f.en[t] = SleepSet
      BY <1>0, <2>1
    <2> QED BY <1>8, <2>3, <2>4 DEF IsComplete
  <1>9. CASE o.k \in {"finish", "exit"}
    <2>1. \/ Same(e, f, {"st", "over"}) /\ f.st = [e.st EXCEPT ![t] = "completed"]
          \/ /\ Same(e, f, {"en", "st"})
             /\ f.st = [Set(e.st, JoinWaiters(e, t), "ready") EXCEPT ![t] = "completed"]
      BY <1>9 DEF Effect
    <2>2. f.st[t] = "completed"
      BY <1>0, <2>1 DEF Set
    <2>3. Same(e, f, {"st", "over"}) \/ Same(e, f, {"en", "st"})
      BY <2>1
    <2>4. f.pend = e.pend
      BY <2>3, SameFields
    <2> QED BY <1>9, <2>2, <2>4
  <1>10. CASE o.k \notin {"create", "lock", "trylock", "unlock", "wait", "timedwait", "notify_all",
                         "notify_one", "sleep", "finish", "exit"}
    <2>1. Same(e, f, {"ret"}) \/ Same(e, f, {})
      BY <1>10 DEF Effect
    <2> QED BY <1>1, <2>1
  <1> QED BY <1>3, <1>4, <1>5, <1>6, <1>7, <1>8, <1>9, <1>10

\* And so it rests.
LEMMA EndRests ==
  ASSUME NEW e, IsState(e), Good(e), NEW t \in Threads, NEW o, NEW f, Effect(e, t, o, f),
         o.k \in {"wait", "timedwait"} => o.x \in Places,
         e.en[t] = Enabled, e.pend[t] = None, e.st[t] # "blocked", ~IsComplete(e, t), t <= e.num,
         ~e.wake[t], NEW d, NEW g, Ended(t, o, d, f, g), DOMAIN g.en = Threads
  PROVE  RestIsOf(g, t)
  <1>1. /\ g.pend = f.pend /\ g.st = f.st /\ g.wake = f.wake /\ g.waiters = f.waiters
        /\ g.en[t] = IF f.st[t] = "blocked" \/ IsComplete(f, t) THEN Disabled ELSE f.en[t]
    BY EndedFacts
  <1>2. CASE f.en[t] = Enabled /\ f.st[t] # "blocked" /\ ~IsComplete(f, t) /\ f.pend[t] = None
    BY <1>1, <1>2, RestEnabled
  <1>3. CASE /\ o.k \in {"wait", "timedwait"} /\ f.pend[t] = o /\ ~f.wake[t]
             /\ t \in Listed(f.waiters[o.x]) /\ ~IsComplete(f, t)
             /\ \/ f.en[t] = Disabled /\ f.st[t] = "blocked"
                \/ f.en[t] = SleepSet /\ f.st[t] # "blocked"
    BY <1>1, <1>3 DEF RestIsOf, HasPending, Disabled, SleepSet, Enabled
  <1>4. CASE /\ o.k = "sleep" /\ f.pend[t] = o /\ ~f.wake[t] /\ f.en[t] = SleepSet
             /\ f.st[t] # "blocked" /\ ~IsComplete(f, t)
    BY <1>1, <1>4 DEF RestIsOf, HasPending, IsWait
  <1>5. CASE f.st[t] = "completed" /\ f.pend[t] = None
    BY <1>1, <1>5 DEF RestIsOf, HasPending, IsWait, IsComplete, None, Op
  <1> QED BY <1>2, <1>3, <1>4, <1>5, EffectOwn

\* The thread that takes a step is enabled and not woken.
LEMMA PickedEnabled ==
  ASSUME TypeInv, LookInv, RestInv, NEW t \in Threads, Picked(t)
  PROVE  /\ ex.en[t] = Enabled /\ ex.st[t] # "blocked" /\ ~IsComplete(ex, t) /\ t \in Live
         /\ ~ex.wake[t] /\ HasPending(ex, t)
  <1>1. ~ex.wake[t] /\ HasPending(ex, t) /\ t <= ex.num /\ mode = "choose"
    BY DEF Picked
  <1>2. ex.en[t] = Enabled
    BY <1>1 DEF Picked, RestInv
  <1>3. RestIsOf(ex, t) /\ CompleteIs(ex, t)
    BY DEF RestInv, LookInv
  <1>4. t \in Live
    BY <1>1 DEF Live, Threads, TypeInv, PrioInv, Good
  <1> QED BY <1>1, <1>2, <1>3, <1>4 DEF RestIsOf, CompleteIs, Enabled, Disabled

\* take_step, for the thread that takes it.
LEMMA TakeIs ==
  ASSUME TypeInv, LookInv, RestInv, NEW t \in Threads, NEW W, NEW d, NEW m, Stepped(t, W, d, m), IsState(d)
  PROVE  /\ t \notin W
         /\ d.en[t] = Enabled /\ d.pend[t] = None /\ d.st[t] # "blocked" /\ ~IsComplete(d, t)
         /\ t <= d.num /\ ~d.wake[t]
         /\ m.k = ex.pend[t].k /\ m.x = ex.pend[t].x /\ m.y = ex.pend[t].y
         /\ m.k \in {"wait", "timedwait", "notify_one", "notify_all"} => m.x \in Places
         /\ \A u \in Threads : IsComplete(d, u) => ~HasPending(d, u)
  <1>1. IsState(ex) /\ Good(ex) /\ Picked(t) /\ Prepared(t, W, d)
    BY DEF TypeInv, PrioInv, Stepped
  <1>2. /\ ex.en[t] = Enabled /\ ex.st[t] # "blocked" /\ ~IsComplete(ex, t) /\ t \in Live
        /\ ~ex.wake[t] /\ HasPending(ex, t)
    BY <1>1, PickedEnabled
  <1>3. /\ d.num = ex.num /\ d.st = ex.st
        /\ d.pend[t] = None /\ \A u \in Threads \ {t} : d.pend[u] = ex.pend[u]
        /\ \A u \in W : u \in Threads /\ ex.en[u] = SleepSet
        /\ \A u \in Threads : /\ d.en[u] = IF u \in W THEN Enabled ELSE ex.en[u]
                              /\ d.wake[u] <=> u \in W \/ ex.wake[u]
    BY <1>1, PreparedFacts
  <1>4. t \notin W
    BY <1>2, <1>3 DEF Enabled, SleepSet
  <1>5. d.en[t] = Enabled /\ d.st[t] # "blocked" /\ ~IsComplete(d, t) /\ t <= d.num /\ ~d.wake[t]
    BY <1>2, <1>3, <1>4 DEF IsComplete, Live
  <1>6. m.k = ex.pend[t].k /\ m.x = ex.pend[t].x /\ m.y = ex.pend[t].y
    BY <1>1, StepOthers
  <1>7. m.k \in {"wait", "timedwait", "notify_one", "notify_all"} => m.x \in Places
    BY <1>1, <1>6, PendingPlace DEF Places, IsWait
  <1>8. ASSUME NEW u \in Threads, IsComplete(d, u) PROVE ~HasPending(d, u)
    <2>1. u # t /\ IsComplete(ex, u) /\ CompleteIs(ex, u)
      BY <1>3, <1>5, <1>8 DEF LookInv, IsComplete
    <2> QED BY <1>3, <2>1 DEF CompleteIs, HasPending
  <1> QED BY <1>3, <1>4, <1>5, <1>6, <1>7, <1>8

\* The step of a thread leaves it, and every thread it wakes, at rest.
LEMMA RestTake ==
  ASSUME TypeInv, LookInv, RestInv, NEW t \in Threads, TakeStep(t)
  PROVE  RestInv'
  <1>1. prog \in Programs /\ IsState(ex) /\ PrioInv /\ Good(ex)
    BY DEF TypeInv, PrioInv
  <1>2. PICK W, d, m : Stepped(t, W, d, m) /\ Good(d) /\ IsState(d)
    BY <1>1, StepIs
  <1>3. /\ Picked(t) /\ Prepared(t, W, d)
        /\ \/ Same(d, ex', {"pend"}) /\ ex'.pend = [d.pend EXCEPT ![t] = m]
           \/ \E f : Effect(d, t, m, f) /\ Ended(t, m, d, f, ex')
    BY <1>2 DEF Stepped
  <1>4. /\ t \notin W
        /\ d.en[t] = Enabled /\ d.pend[t] = None /\ d.st[t] # "blocked" /\ ~IsComplete(d, t)
        /\ t <= d.num /\ ~d.wake[t]
        /\ m.k \in {"wait", "timedwait", "notify_one", "notify_all"} => m.x \in Places
        /\ \A u \in Threads : IsComplete(d, u) => ~HasPending(d, u)
    BY <1>2, TakeIs
  <1>5. IsState(ex') /\ Good(ex') /\ DOMAIN ex'.en = Threads
    <2>1. IsState(ex')
      BY <1>1, StepKeeps
    <2>2. Good(ex')
      BY <1>1, StepGood DEF PrioInv
    <2> QED BY <2>1, <2>2 DEF Good
  <1>6. ASSUME NEW u \in Threads \ {t} PROVE RestIsOf(d, u)
    BY <1>1, <1>2, <1>3, PreparedRests DEF RestInv
  <1>7. ASSUME NEW u \in Threads PROVE RestIsOf(ex', u)
    <2>1. CASE Same(d, ex', {"pend"}) /\ ex'.pend = [d.pend EXCEPT ![t] = m]
      <3>1. Same(d, ex', {"pend"})
        BY <2>1
      <3>2. ex'.num = d.num /\ ex'.en = d.en /\ ex'.st = d.st /\ ex'.wake = d.wake /\ ex'.waiters = d.waiters
        BY <3>1, SameFields
      <3>3. CASE u = t
        BY <1>4, <3>2, <3>3, RestEnabled
      <3>4. CASE u # t
        <4>1. ex'.pend[u] = d.pend[u] /\ RestIsOf(d, u)
          BY <1>2, <1>6, <2>1, <3>4 DEF IsState
        <4> QED BY <3>2, <4>1, RestKept
      <3> QED BY <3>3, <3>4
    <2>2. ASSUME NEW f, Effect(d, t, m, f), Ended(t, m, d, f, ex') PROVE RestIsOf(ex', u)
      <3>1. CASE u = t
        BY <1>2, <1>4, <1>5, <2>2, <3>1, EndRests
      <3>2. CASE u # t
        <4>1. RestIsOf(f, u)
          BY <1>2, <1>4, <1>6, <2>2, <3>2, EffectRests
        <4>2. /\ ex'.num = f.num /\ ex'.pend = f.pend /\ ex'.st = f.st /\ ex'.wake = f.wake
              /\ ex'.waiters = f.waiters /\ ex'.en[u] = f.en[u]
          BY <1>5, <2>2, <3>2, EndedFacts
        <4> QED BY <4>1, <4>2, RestKept
      <3> QED BY <3>1, <3>2
    <2> QED BY <1>3, <2>1, <2>2
  <1>8. ASSUME chosen' \in Threads, HasPending(ex', chosen') PROVE ex'.en[chosen'] = Enabled
    <2>1. chosen' = HighestThread(ex'.p, ex'.en)
      <3>1. \/ chosen' = HighestThread(ex'.p, ex'.en)
            \/ chosen' = t /\ ex'.pend[t] = None
            \/ ~HasPending(ex', chosen')
        BY <1>1, <1>2, <1>8, NextChosen
      <3> QED BY <1>8, <3>1 DEF HasPending, None, Op
    <2>2. IsVectors(ex'.p, ex'.num) /\ ex'.num \in Nat
      BY <1>5 DEF Good
    <2>3. chosen' \in EnabledSet(ex'.en) \cup {NoThread}
      BY <1>5, <2>1, <2>2, HighestIs
    <2>4. chosen' # NoThread
      BY <1>8, PctParams DEF Threads, NoThread
    <2>5. chosen' \in EnabledSet(ex'.en)
      BY ONLY <2>3, <2>4
    <2>6. \A en, c : c \in EnabledSet(en) => en[c] = Enabled
      BY DEF EnabledSet
    <2> QED BY <2>5, <2>6
  <1> QED BY <1>7, <1>8 DEF RestInv

\* What select_next_thread gives a woken thread is enabled.
LEMMA RestResume ==
  ASSUME TypeInv, LookInv, RestInv, NEW t \in Threads, ResumeWoken(t)
  PROVE  RestInv'
  <1>1. /\ IsState(ex) /\ Good(ex) /\ DOMAIN ex = Fields /\ mode = "choose"
        /\ ex.pend \in [Threads -> Ops] /\ ex.wake \in [Threads -> BOOLEAN]
        /\ ex.en \in [Threads -> {Disabled, Enabled, SleepSet}] /\ ex.num \in Nat
        /\ \A u \in Threads : u > ex.num => ex.en[u] = Disabled
    BY DEF TypeInv, PrioInv, IsState, Good, ResumeWoken
  <1>2. chosen' = 0 /\ mode' = "scan"
    BY DEF ResumeWoken
  <1>3. PICK pick \in Picks : /\ pick[1] = t /\ pick[2].wake[t]
                              /\ ex' = [pick[2] EXCEPT !.wake[t] = FALSE, !.pend[t] = None]
    BY DEF ResumeWoken
  <1>4. /\ \/ pick[2] = ex
           \/ pick[2] = [ex EXCEPT !.en[t] = Enabled, !.wake[t] = TRUE]
        /\ \/ pick[2].en[t] = Enabled /\ ex.st[t] # "blocked"
           \/ pick[2] = ex /\ ~HasPending(ex, t)
    <2>1. \/ /\ pick[2] = ex
             /\ \/ chosen # 0 /\ t = chosen
                \/ chosen = 0 /\ t \in EnabledSet(ex.en)
                \/ /\ chosen = 0 /\ EnabledSet(ex.en) # {}
                   /\ t = FindHighest(ex.p, EnabledSet(ex.en))
          \/ /\ chosen = 0 /\ EnabledSet(ex.en) = {} /\ t \in SleepingSet(ex.en)
             /\ pick[2] = [ex EXCEPT !.en[t] = Enabled, !.wake[t] = TRUE]
      BY <1>3, PickFrom
    <2>2. RestIsOf(ex, t) /\ CompleteIs(ex, t)
      BY DEF RestInv, LookInv
    <2>3. CASE pick[2] = ex /\ t = chosen
      <3>1. HasPending(ex, t) => ex.en[t] = Enabled
        BY <1>1, <2>3 DEF RestInv
      <3> QED BY <2>2, <2>3, <3>1 DEF RestIsOf, Disabled, Enabled
    <2>4. CASE pick[2] = ex /\ t \in EnabledSet(ex.en)
      BY <2>2, <2>4 DEF EnabledSet, RestIsOf, Enabled, Disabled
    <2>5. CASE pick[2] = ex /\ t = FindHighest(ex.p, EnabledSet(ex.en))
      <3> DEFINE avail == EnabledSet(ex.en)
      <3>1. FindHighest(ex.p, avail) \in avail \cup {0}
        <4> HIDE DEF avail
        <4>1. IsVectors(ex.p, ex.num)
          BY <1>1 DEF Good
        <4>2. FirstOf(ex.p.low, avail, 0) \in avail \cup {0}
          BY <4>1, SlotNumbers, FirstIsOne
        <4>3. FirstOf(ex.p.high, avail, FirstOf(ex.p.low, avail, 0)) \in avail \cup {FirstOf(ex.p.low, avail, 0)}
          BY <4>1, SlotNumbers, FirstIsOne
        <4> QED BY <4>2, <4>3 DEF FindHighest
      <3>2. t # 0
        BY DEF Threads
      <3>3. t \in EnabledSet(ex.en)
        BY <2>5, <3>1, <3>2
      <3> QED BY <2>4, <2>5, <3>3
    <2>6. CASE t \in SleepingSet(ex.en) /\ pick[2] = [ex EXCEPT !.en[t] = Enabled, !.wake[t] = TRUE]
      <3>1. ex.en[t] = SleepSet
        BY <2>6 DEF SleepingSet
      <3>2. pick[2].en[t] = Enabled
        BY <1>1, <2>6 DEF Fields
      <3> QED BY <2>2, <2>6, <3>1, <3>2 DEF RestIsOf, SleepSet, Disabled
    <2> QED BY <2>1, <2>3, <2>4, <2>5, <2>6
  <1>5. /\ DOMAIN pick[2] = Fields
        /\ pick[2].pend = ex.pend /\ pick[2].st = ex.st
        /\ pick[2].num = ex.num /\ pick[2].waiters = ex.waiters
        /\ \/ pick[2].en = ex.en /\ pick[2].wake = ex.wake
           \/ pick[2].en = [ex.en EXCEPT ![t] = Enabled] /\ pick[2].wake = [ex.wake EXCEPT ![t] = TRUE]
    BY <1>1, <1>4 DEF Fields
  <1>6. /\ ex'.pend = [ex.pend EXCEPT ![t] = None] /\ ex'.st = ex.st
        /\ ex'.num = ex.num /\ ex'.waiters = ex.waiters
        /\ ex'.wake = [pick[2].wake EXCEPT ![t] = FALSE] /\ ex'.en = pick[2].en
    BY <1>3, <1>5 DEF Fields
  <1>7. ASSUME NEW u \in Threads PROVE RestIsOf(ex', u)
    <2>1. CASE u = t
      <3>1. CASE pick[2].en[t] = Enabled /\ ex.st[t] # "blocked"
        BY <1>6, <2>1, <3>1, RestEnabled
      <3>2. CASE pick[2] = ex /\ ~HasPending(ex, t)
        <4>1. RestIsOf(ex, t) /\ ex'.en = ex.en /\ ex'.pend[t] = None
          BY <1>1, <1>6, <3>2 DEF RestInv
        <4> QED BY <1>6, <2>1, <3>2, <4>1 DEF RestIsOf, HasPending, IsComplete, IsWait, None, Op
      <3> QED BY <1>4, <3>1, <3>2
    <2>2. CASE u # t
      <3>1. ex'.pend[u] = ex.pend[u] /\ ex'.en[u] = ex.en[u] /\ ex'.wake[u] = ex.wake[u]
        BY <1>1, <1>5, <1>6, <2>2
      <3>2. RestIsOf(ex, u)
        BY DEF RestInv
      <3> QED BY <1>6, <3>1, <3>2, RestKept
    <2> QED BY <2>1, <2>2
  <1> QED BY <1>2, <1>7 DEF RestInv, Threads

\* A new execution.
LEMMA RestAnew ==
  ASSUME NEW e, NEW p, e = Initial(p, prog), NEW u \in Threads
  PROVE  RestIsOf(e, u) /\ ~HasPending(e, u)
  <1>1. /\ e.num = 1 /\ e.st[u] = "created" /\ e.pend[u] = None
        /\ e.en[u] = IF u = 1 THEN Enabled ELSE Disabled
    BY DEF Initial
  <1>2. u <= 1 => u = 1
    BY DEF Threads
  <1> QED BY <1>1, <1>2 DEF RestIsOf, HasPending, IsWait, None, Op

\* Every step keeps the threads at rest.
LEMMA RestStep ==
  ASSUME TypeInv, LookInv, RestInv, [Next]_vars
  PROVE  RestInv'
  <1>1. DOMAIN ex = Fields
    BY DEF TypeInv, IsState
  <1>2. CASE RunThread
    BY <1>2, RestRun
  <1>3. CASE FreeThread \/ BlockThread \/ PassThread \/ EndScan
    BY <1>3, RestScan
  <1>4. CASE StopAsserted \/ StepOfNobody
    BY <1>4 DEF StopAsserted, StepOfNobody, RestInv
  <1>5. CASE NothingToRun
    <2>1. mode' = "finish" /\ (ex' = ex \/ ex' = [ex EXCEPT !.bug = "deadlock"])
      BY <1>5 DEF NothingToRun, Reported
    <2>2. /\ ex'.pend = ex.pend /\ ex'.en = ex.en /\ ex'.wake = ex.wake /\ ex'.st = ex.st
          /\ ex'.num = ex.num /\ ex'.waiters = ex.waiters
      BY <1>1, <2>1 DEF Fields
    <2>3. ASSUME NEW u \in Threads PROVE RestIsOf(ex', u)
      BY <2>2, RestKept DEF RestInv
    <2> QED BY <2>1, <2>3 DEF RestInv
  <1>6. CASE \E t \in Threads : ResumeWoken(t)
    BY <1>6, RestResume
  <1>7. CASE \E t \in Threads : TakeStep(t)
    BY <1>7, RestTake
  <1>8. CASE FinishExecution
    <2>1. \/ mode' = "exit" /\ ex' = ex
          \/ mode' = "scan" /\ ex' = Initial(MainSlot, prog)
      BY <1>8 DEF FinishExecution
    <2>2. CASE mode' = "exit" /\ ex' = ex
      BY <2>2 DEF RestInv
    <2>3. CASE mode' = "scan" /\ ex' = Initial(MainSlot, prog)
      BY <2>3, RestAnew DEF RestInv
    <2> QED BY <2>1, <2>2, <2>3
  <1>9. CASE Over \/ UNCHANGED vars
    <2>1. ex' = ex /\ mode' = mode /\ chosen' = chosen
      BY <1>9 DEF Over, vars
    <2> QED BY <2>1 DEF RestInv
  <1> QED BY <1>2, <1>3, <1>4, <1>5, <1>6, <1>7, <1>8, <1>9 DEF Next

\* They are at rest in the first state.
LEMMA RestInit == ASSUME Init PROVE RestInv
  <1>1. ex = Initial(MainSlot, prog)
    BY DEF Init
  <1>2. \A u \in Threads : RestIsOf(ex, u) /\ ~HasPending(ex, u)
    BY <1>1, RestAnew
  <1> QED BY <1>2 DEF RestInv

----------------------------------------------------------------------------
(* What disabled threads wait for.                                         *)

\* What a blocked thread waits for.
LEMMA BlockedIs ==
  ASSUME NEW e, NEW u
  PROVE  /\ e.pend[u].k = "lock" =>
              /\ Blocked(e, u) <=> ~CheckActionEnabled(e, u)
              /\ CheckActionEnabled(e, u) <=>
                   e.locked[e.pend[u].x] = 0 \/ (e.locked[e.pend[u].x] = u /\ e.pend[u].x \in Recursive)
         /\ e.pend[u].k = "join" =>
              /\ Blocked(e, u) <=> ~IsComplete(e, e.pend[u].x)
              /\ CheckActionEnabled(e, u) <=> IsComplete(e, e.pend[u].x)
         /\ IsWait(e.pend[u]) => (Blocked(e, u) <=> u \in Listed(e.waiters[e.pend[u].x]) /\ ~e.wake[u])
         /\ e.pend[u].k \notin {"lock", "join"} /\ ~IsWait(e.pend[u]) => ~Blocked(e, u)
  <1>1. CASE e.pend[u].k = "lock"
    BY <1>1 DEF Blocked, CheckActionEnabled, IsWait
  <1>2. CASE e.pend[u].k = "join"
    BY <1>2 DEF Blocked, CheckActionEnabled, IsWait, IsComplete
  <1>3. CASE IsWait(e.pend[u])
    BY <1>3 DEF Blocked, IsWait
  <1>4. CASE e.pend[u].k \notin {"lock", "join"} /\ ~IsWait(e.pend[u])
    BY <1>4 DEF Blocked
  <1> QED BY <1>1, <1>2, <1>3, <1>4

\* A thread waits as long as nothing that it waits for happens.
LEMMA WaitKept ==
  ASSUME NEW e, NEW f, NEW u \in Threads, WaitsFor(e, u), RestIsOf(f, u), f.pend[u] = e.pend[u],
         f.en[u] = Disabled => e.en[u] = Disabled,
         e.pend[u].k = "lock" /\ f.en[u] = Disabled
           => f.locked[e.pend[u].x] = e.locked[e.pend[u].x] \/ f.locked[e.pend[u].x] \in Threads \ {u},
         e.pend[u].k = "join" /\ f.en[u] = Disabled /\ IsComplete(f, e.pend[u].x)
           => IsComplete(e, e.pend[u].x) \/ (f.over /\ e.pend[u].x = 1),
         e.over => f.over
  PROVE  WaitsFor(f, u)
  <1> SUFFICES ASSUME HasPending(f, u), f.en[u] = Disabled
               PROVE  Blocked(f, u) \/ (f.over /\ f.pend[u].k = "join" /\ f.pend[u].x = 1)
    BY DEF WaitsFor
  <1>1. Blocked(e, u) \/ (e.over /\ e.pend[u].k = "join" /\ e.pend[u].x = 1)
    BY DEF WaitsFor, HasPending
  <1>2. CASE e.pend[u].k = "lock"
    <2>1. /\ e.locked[e.pend[u].x] # 0
          /\ ~(e.locked[e.pend[u].x] = u /\ e.pend[u].x \in Recursive)
      BY <1>1, <1>2, BlockedIs
    <2>2. /\ f.locked[e.pend[u].x] # 0
          /\ ~(f.locked[e.pend[u].x] = u /\ e.pend[u].x \in Recursive)
      BY <1>2, <2>1 DEF Threads
    <2> QED BY <1>2, <2>2, BlockedIs
  <1>3. CASE e.pend[u].k = "join"
    <2>1. ~IsComplete(f, e.pend[u].x) \/ (f.over /\ e.pend[u].x = 1)
      BY <1>1, <1>3, BlockedIs
    <2> QED BY <1>3, <2>1, BlockedIs
  <1>4. CASE IsWait(e.pend[u])
    <2>1. u \in Listed(f.waiters[f.pend[u].x]) /\ ~f.wake[u]
      BY <1>4 DEF RestIsOf, IsWait, Blocking, Enabled, Disabled
    <2> QED BY <1>4, <2>1, BlockedIs
  <1>5. CASE e.pend[u].k \notin {"lock", "join"} /\ ~IsWait(e.pend[u])
    BY <1>1, <1>5, BlockedIs
  <1> QED BY <1>2, <1>3, <1>4, <1>5

\* A thread that can go on waits for nothing.
LEMMA WaitEnabled ==
  ASSUME NEW f, NEW u \in Threads, f.en[u] # Disabled \/ ~HasPending(f, u)
  PROVE  WaitsFor(f, u)
  BY DEF WaitsFor

\* A thread that runs to its next operation disables nobody.
LEMMA WaitRun ==
  ASSUME TypeInv, LookInv, RestInv, RestInv', WaitInv, RunThread
  PROVE  WaitInv'
  <1>1. /\ IsState(ex) /\ prog \in Programs /\ scan \in Threads /\ scan \in Live /\ mode = "scan"
        /\ ex.num \in Nat
    BY ScanExists DEF TypeInv, RunThread, PrioInv, Good
  <1>2. /\ ~IsComplete(ex, scan) /\ ~HasPending(ex, scan)
        /\ \/ ex' = ex
           \/ ex.last[scan].k \notin {"finish", "exit"} /\ ex' = UserRuns(ex, scan)
    BY <1>1 DEF RunThread
  <1>3. CASE ex' = ex
    BY <1>3 DEF WaitInv
  <1>4. CASE ex.last[scan].k \notin {"finish", "exit"} /\ ex' = UserRuns(ex, scan)
    <2>1. PICK o, r : UserStep(ex, ex', scan, o, r)
      BY <1>1, <1>4, UserIs
    <2>2. /\ \A u \in Threads \ {scan} : ex'.pend[u] = ex.pend[u]
          /\ ex'.en = ex.en
      BY <1>1, <1>2, <2>1, UserChanges
    <2>3. ex.en[scan] = Enabled
      BY <1>1, <1>2 DEF RestInv, RestIsOf, Live, Threads
    <2>4. ASSUME NEW u \in Threads PROVE WaitsFor(ex', u)
      <3>1. CASE u = scan
        BY <2>2, <2>3, <3>1, WaitEnabled DEF Enabled, Disabled
      <3>2. CASE u # scan
        <4>1. /\ ex.pend[u].k = "lock" => ex'.locked[ex.pend[u].x] = ex.locked[ex.pend[u].x]
              /\ \A v \in Threads : IsComplete(ex', v) <=> IsComplete(ex, v)
              /\ ex'.over = ex.over
          BY <1>1, <1>2, <2>1, <3>2, UserPlaces
        <4>2. WaitsFor(ex, u) /\ RestIsOf(ex', u) /\ (ex.pend[u].k = "join" => ex.pend[u].x \in Threads)
          BY <1>1, PendingPlace DEF WaitInv, RestInv
        <4> QED BY <2>2, <3>2, <4>1, <4>2, WaitKept
      <3> QED BY <3>1, <3>2
    <2> QED BY <2>4 DEF WaitInv
  <1> QED BY <1>2, <1>3, <1>4

\* What getNextThread disables waits for a lock or a thread.
LEMMA WaitScan ==
  ASSUME TypeInv, LookInv, RestInv, RestInv', WaitInv, FreeThread \/ BlockThread \/ PassThread \/ EndScan
  PROVE  WaitInv'
  <1>1. /\ IsState(ex) /\ mode = "scan" /\ DOMAIN ex = Fields
        /\ ex.st \in [Threads -> {"created", "ready", "blocked", "completed", "freed"}]
        /\ ex.en \in [Threads -> {Disabled, Enabled, SleepSet}]
    <2>1. IsState(ex) /\ Good(ex)
      BY DEF TypeInv, PrioInv
    <2>2. mode = "scan"
      BY DEF FreeThread, BlockThread, PassThread, EndScan, Scanning
    <2> QED BY <2>1, <2>2 DEF IsState, Good
  <1>2. ASSUME NEW u \in Threads PROVE WaitsFor(ex, u) /\ (ex.pend[u].k = "join" => ex.pend[u].x \in Threads)
    BY <1>1, PendingPlace DEF WaitInv
  <1>3. ASSUME Scanning PROVE scan \in Threads
    BY <1>3, ScanExists
  <1>4. CASE FreeThread
    <2>1. Scanning /\ IsComplete(ex, scan) /\ ex' \in {ex, [ex EXCEPT !.st[scan] = "freed"]}
      BY <1>4 DEF FreeThread
    <2>2. /\ ex'.pend = ex.pend /\ ex'.en = ex.en /\ ex'.locked = ex.locked /\ ex'.over = ex.over
          /\ \A v \in Threads : IsComplete(ex, v) <=> IsComplete(ex', v)
      BY <1>1, <2>1 DEF Fields, IsComplete
    <2>3. ASSUME NEW u \in Threads PROVE WaitsFor(ex', u)
      <3>1. RestIsOf(ex', u)
        BY DEF RestInv
      <3> QED BY <1>2, <2>2, <3>1, WaitKept
    <2> QED BY <2>3 DEF WaitInv
  <1>5. CASE BlockThread
    <2>1. /\ Scanning /\ HasPending(ex, scan) /\ ex' = SleepThread(ex, scan) /\ ~CheckActionEnabled(ex, scan)
      BY <1>5 DEF BlockThread
    <2>2. ~IsComplete(ex, scan)
      BY <1>3, <2>1 DEF LookInv, CompleteIs
    <2>3. /\ ex'.pend = ex.pend /\ ex'.locked = ex.locked /\ ex'.over = ex.over
          /\ ex'.en = [ex.en EXCEPT ![scan] = Disabled] /\ ex'.st = [ex.st EXCEPT ![scan] = "blocked"]
      BY <1>1, <2>1 DEF SleepThread, Fields
    <2>4. \A v \in Threads : IsComplete(ex', v) <=> IsComplete(ex, v)
      BY <1>1, <1>3, <2>1, <2>2, <2>3 DEF IsComplete
    <2>5. ASSUME NEW u \in Threads PROVE WaitsFor(ex', u)
      <3>1. CASE u = scan
        <4>1. ex.pend[u].k \in Blocking
          BY <2>1, <3>1 DEF CheckActionEnabled, Blocking
        <4>2. Blocked(ex, u)
          BY <2>1, <3>1, <4>1, BlockedIs DEF Blocking
        <4>3. Blocked(ex', u)
          BY <1>2, <2>3, <2>4, <4>1, <4>2, BlockedIs DEF Blocking
        <4> QED BY <4>3 DEF WaitsFor
      <3>2. CASE u # scan
        <4>1. RestIsOf(ex', u)
          BY DEF RestInv
        <4>2. ex'.en[u] = ex.en[u]
          BY <2>3, <3>2
        <4> QED BY <1>2, <2>3, <2>4, <4>1, <4>2, WaitKept
      <3> QED BY <3>1, <3>2
    <2> QED BY <2>5 DEF WaitInv
  <1>6. CASE PassThread \/ EndScan
    <2>1. ex' = ex
      BY <1>6 DEF PassThread, EndScan
    <2> QED BY <2>1 DEF WaitInv
  <1> QED BY <1>4, <1>5, <1>6

\* What another thread waits for when t executes an operation: the mutex it is
\* disabled for is not freed, the thread it joins does not end unless it is
\* main.
WaitsOn(e, u, f) ==
  /\ f.pend[u] = e.pend[u]
  /\ f.en[u] = Disabled => e.en[u] = Disabled
  /\ e.pend[u].k = "lock" /\ f.en[u] = Disabled
       => f.locked[e.pend[u].x] = e.locked[e.pend[u].x] \/ f.locked[e.pend[u].x] \in Threads \ {u}
  /\ e.pend[u].k = "join" /\ f.en[u] = Disabled /\ IsComplete(f, e.pend[u].x)
       => IsComplete(e, e.pend[u].x) \/ (f.over /\ e.pend[u].x = 1)
  /\ e.over => f.over

\* What an operation of t does to what another thread waits for.
LEMMA EffectWaits ==
  ASSUME NEW e, IsState(e), Good(e), NEW t \in Threads, NEW o, NEW f, Effect(e, t, o, f),
         o.k = "unlock" => e.locked[o.x] = t,
         o.k \in {"wait", "timedwait"} => o.y = t \/ e.locked[o.y] = t,
         NEW u \in Threads \ {t}
  PROVE  WaitsOn(e, u, f)
  <1>0. /\ e.en \in [Threads -> {Disabled, Enabled, SleepSet}] /\ e.wake \in [Threads -> BOOLEAN]
        /\ e.st \in [Threads -> {"created", "ready", "blocked", "completed", "freed"}]
        /\ e.pend \in [Threads -> Ops] /\ e.locked \in [Places -> 0 .. e.num]
        /\ e.num \in Nat
    BY DEF IsState, Good
  <1>1. /\ e.pend[u].k = "join" => e.pend[u].x \in Threads
        /\ e.pend[u].k = "lock" => e.pend[u].x \in Objects \cup {u} /\ e.pend[u].x \in Places
        /\ e.pend[u].k \in {"lock", "join"} => u \in 1 .. e.num
    BY <1>0, PendingPlace DEF Places, HasPending, Threads
  <1>2. ASSUME NEW F, Same(e, f, F), {"pend", "en", "locked", "st", "over"} \cap F = {}
        PROVE  WaitsOn(e, u, f)
    <2>1. f.pend = e.pend /\ f.en = e.en /\ f.locked = e.locked /\ f.st = e.st /\ f.over = e.over
      BY <1>2, SameFields
    <2> QED BY <2>1 DEF WaitsOn, IsComplete
  <1>3. CASE o.k = "create"
    <2>1. Same(e, f, {"num", "en", "p"}) /\ f.en = [e.en EXCEPT ![e.num + 1] = Enabled]
      BY <1>3 DEF Effect
    <2>2. Same(e, f, {"num", "en", "p"})
      BY <2>1
    <2>3. f.pend = e.pend /\ f.locked = e.locked /\ f.st = e.st /\ f.over = e.over
      BY <2>2, SameFields
    <2>4. f.en[u] = Disabled => e.en[u] = Disabled
      BY <1>0, <2>1 DEF Enabled, Disabled
    <2> QED BY <2>3, <2>4 DEF WaitsOn, IsComplete
  <1>4. CASE o.k \in {"lock", "trylock"}
    <2>1. /\ Same(e, f, {"locked"}) \/ Same(e, f, {"locked", "ret"})
          /\ f.locked \in {e.locked, [e.locked EXCEPT ![o.x] = t]}
      BY <1>4 DEF Effect
    <2>2. Same(e, f, {"locked"}) \/ Same(e, f, {"locked", "ret"})
      BY <2>1
    <2>3. f.pend = e.pend /\ f.en = e.en /\ f.st = e.st /\ f.over = e.over
      BY <2>2, SameFields
    <2>4. e.pend[u].k = "lock" => f.locked[e.pend[u].x] \in {e.locked[e.pend[u].x], t}
      BY <1>0, <1>1, <2>1
    <2> QED BY <2>3, <2>4 DEF WaitsOn, IsComplete
  <1>5. ASSUME NEW m, NEW F, Same(e, f, F), "over" \notin F, f.pend[u] = e.pend[u],
               f.en[u] = (IF u \in LockWaiters(e, t) THEN Enabled ELSE e.en[u]),
               \A v \in Threads : IsComplete(f, v) => IsComplete(e, v),
               f.locked = [e.locked EXCEPT ![m] = 0], m = t \/ e.locked[m] = t
        PROVE  WaitsOn(e, u, f)
    <2>1. f.over = e.over
      BY <1>5, SameFields
    <2>2. ASSUME e.pend[u].k = "lock", f.en[u] = Disabled
          PROVE  f.locked[e.pend[u].x] = e.locked[e.pend[u].x]
      <3>1. u \notin LockWaiters(e, t)
        BY <1>5, <2>2 DEF Enabled, Disabled
      <3>2. e.locked[e.pend[u].x] # t
        BY <1>1, <2>2, <3>1 DEF LockWaiters, WaitingOn
      <3>3. e.pend[u].x # t
        BY <1>1, <2>2, RuntimeParams
      <3> QED BY <1>0, <1>1, <1>5, <2>2, <3>2, <3>3
    <2>3. f.en[u] = Disabled => e.en[u] = Disabled
      BY <1>5 DEF Enabled, Disabled
    <2> QED BY <1>1, <1>5, <2>1, <2>2, <2>3 DEF WaitsOn
  <1>6. ASSUME NEW V, f.st = Set(e.st, V, "ready")
        PROVE  \A v \in Threads : IsComplete(f, v) => IsComplete(e, v)
    BY <1>0, <1>6 DEF Set, IsComplete
  <1>7. CASE o.k = "unlock"
    <2>1. /\ Same(e, f, {"en", "st", "locked"})
          /\ f.en = Set(e.en, LockWaiters(e, t), Enabled) /\ f.st = Set(e.st, LockWaiters(e, t), "ready")
          /\ f.locked = [e.locked EXCEPT ![o.x] = 0]
      BY <1>7 DEF Effect
    <2>2. Same(e, f, {"en", "st", "locked"})
      BY <2>1
    <2>3. f.pend = e.pend
      BY <2>2, SameFields
    <2>4. f.en[u] = (IF u \in LockWaiters(e, t) THEN Enabled ELSE e.en[u])
      BY <2>1 DEF Set
    <2> QED BY <1>5, <1>6, <1>7, <2>1, <2>2, <2>3, <2>4
  <1>8. CASE o.k \in {"wait", "timedwait"}
    <2>1. \/ Same(e, f, {"ret"})
          \/ /\ Same(e, f, {"en", "st", "locked", "waiters", "pend"})
             /\ f.pend = [e.pend EXCEPT ![t] = o]
             /\ f.locked = [e.locked EXCEPT ![o.y] = 0]
             /\ \/ /\ f.en = [Set(e.en, LockWaiters(e, t), Enabled) EXCEPT ![t] = Disabled]
                   /\ f.st = [Set(e.st, LockWaiters(e, t), "ready") EXCEPT ![t] = "blocked"]
                \/ /\ f.en = [Set(e.en, LockWaiters(e, t), Enabled) EXCEPT ![t] = SleepSet]
                   /\ f.st = Set(e.st, LockWaiters(e, t), "ready")
      BY <1>8 DEF Effect, WaitEffect
    <2>2. CASE Same(e, f, {"ret"})
      BY <1>2, <2>2
    <2>3. CASE /\ Same(e, f, {"en", "st", "locked", "waiters", "pend"})
               /\ f.pend = [e.pend EXCEPT ![t] = o]
               /\ f.locked = [e.locked EXCEPT ![o.y] = 0]
               /\ \/ /\ f.en = [Set(e.en, LockWaiters(e, t), Enabled) EXCEPT ![t] = Disabled]
                     /\ f.st = [Set(e.st, LockWaiters(e, t), "ready") EXCEPT ![t] = "blocked"]
                  \/ /\ f.en = [Set(e.en, LockWaiters(e, t), Enabled) EXCEPT ![t] = SleepSet]
                     /\ f.st = Set(e.st, LockWaiters(e, t), "ready")
      <3>1. Same(e, f, {"en", "st", "locked", "waiters", "pend"})
        BY <2>3
      <3>2. f.pend[u] = e.pend[u] /\ f.en[u] = (IF u \in LockWaiters(e, t) THEN Enabled ELSE e.en[u])
        BY <1>0, <2>3 DEF Set
      <3>3. \A v \in Threads : IsComplete(f, v) => IsComplete(e, v)
        BY <1>0, <2>3 DEF Set, IsComplete
      <3> QED BY <1>5, <1>8, <2>3, <3>1, <3>2, <3>3
    <2> QED BY <2>1, <2>2, <2>3
  <1>9. ASSUME NEW V, NEW F, Same(e, f, F), {"pend", "locked", "over"} \cap F = {},
               f.en = Set(e.en, V, Enabled), f.st = Set(e.st, V, "ready")
        PROVE  WaitsOn(e, u, f)
    <2>1. f.pend = e.pend /\ f.locked = e.locked /\ f.over = e.over
      BY <1>9, SameFields
    <2>2. f.en[u] = Disabled => e.en[u] = Disabled
      BY <1>9 DEF Set, Enabled, Disabled
    <2> QED BY <1>1, <1>6, <1>9, <2>1, <2>2 DEF WaitsOn
  <1>10. CASE o.k \in {"notify_all", "notify_one"}
    <2>1. \/ Same(e, f, {})
          \/ /\ Same(e, f, {"en", "st", "wake", "waiters"})
             /\ \E V : f.en = Set(e.en, V, Enabled) /\ f.st = Set(e.st, V, "ready")
      BY <1>10 DEF Effect, NotifyEffect
    <2> QED BY <1>2, <1>9, <2>1
  <1>11. CASE o.k = "sleep"
    <2>1. /\ Same(e, f, {"pend", "en"})
          /\ f.pend = [e.pend EXCEPT ![t] = o] /\ f.en = [e.en EXCEPT ![t] = SleepSet]
      BY <1>11 DEF Effect
    <2>2. Same(e, f, {"pend", "en"})
      BY <2>1
    <2>3. f.st = e.st /\ f.locked = e.locked /\ f.over = e.over
      BY <2>2, SameFields
    <2>4. f.pend[u] = e.pend[u] /\ f.en[u] = e.en[u]
      BY <1>0, <2>1
    <2> QED BY <2>3, <2>4 DEF WaitsOn, IsComplete
  <1>12. CASE o.k \in {"finish", "exit"}
    <2>1. \/ /\ Same(e, f, {"st", "over"}) /\ t = 1
             /\ f.st = [e.st EXCEPT ![t] = "completed"] /\ f.over
          \/ /\ Same(e, f, {"en", "st"})
             /\ f.en = Set(e.en, JoinWaiters(e, t), Enabled)
             /\ f.st = [Set(e.st, JoinWaiters(e, t), "ready") EXCEPT ![t] = "completed"]
      BY <1>12 DEF Effect
    <2>2. CASE /\ Same(e, f, {"st", "over"}) /\ t = 1
               /\ f.st = [e.st EXCEPT ![t] = "completed"] /\ f.over
      <3>1. Same(e, f, {"st", "over"})
        BY <2>2
      <3>2. f.pend = e.pend /\ f.en = e.en /\ f.locked = e.locked
        BY <3>1, SameFields
      <3>3. \A v \in Threads \ {t} : IsComplete(f, v) => IsComplete(e, v)
        BY <1>0, <2>2 DEF IsComplete
      <3> QED BY <1>1, <2>2, <3>2, <3>3 DEF WaitsOn
    <2>3. CASE /\ Same(e, f, {"en", "st"})
               /\ f.en = Set(e.en, JoinWaiters(e, t), Enabled)
               /\ f.st = [Set(e.st, JoinWaiters(e, t), "ready") EXCEPT ![t] = "completed"]
      <3>1. Same(e, f, {"en", "st"})
        BY <2>3
      <3>2. f.pend = e.pend /\ f.locked = e.locked /\ f.over = e.over
        BY <3>1, SameFields
      <3>3. f.en[u] = (IF u \in JoinWaiters(e, t) THEN Enabled ELSE e.en[u])
        BY <2>3 DEF Set
      <3>4. \A v \in Threads \ {t} : IsComplete(f, v) => IsComplete(e, v)
        BY <1>0, <2>3 DEF Set, IsComplete
      <3>5. e.pend[u].k = "join" /\ f.en[u] = Disabled => e.pend[u].x # t
        BY <1>1, <3>3 DEF JoinWaiters, WaitingOn, Enabled, Disabled
      <3>6. f.en[u] = Disabled => e.en[u] = Disabled
        BY <3>3 DEF Enabled, Disabled
      <3> QED BY <1>1, <3>2, <3>4, <3>5, <3>6 DEF WaitsOn
    <2> QED BY <2>1, <2>2, <2>3
  <1>13. CASE o.k \notin {"create", "lock", "trylock", "unlock", "wait", "timedwait", "notify_all",
                         "notify_one", "sleep", "finish", "exit"}
    <2>1. Same(e, f, {"ret"}) \/ Same(e, f, {})
      BY <1>13 DEF Effect
    <2> QED BY <1>2, <2>1
  <1> QED BY <1>3, <1>4, <1>7, <1>8, <1>10, <1>11, <1>12, <1>13

\* The operation that gives up a mutex, in terms of the step.
LEMMA OwnerIs ==
  ASSUME IsState(ex), NEW t \in Threads, GivesUp(t) \in Objects => ex.locked[GivesUp(t)] = t
  PROVE  /\ ex.pend[t].k = "unlock" => ex.locked[ex.pend[t].x] = t
         /\ ex.pend[t].k \in {"wait", "timedwait"} => ex.pend[t].y = t \/ ex.locked[ex.pend[t].y] = t
  <1>1. /\ IsWait(ex.pend[t]) => ex.pend[t].y \in Objects \/ ex.pend[t].y = t
        /\ ex.pend[t].k = "unlock" => ex.pend[t].x \in Objects
    BY PendingPlace
  <1>2. CASE ex.pend[t].k = "unlock"
    BY <1>1, <1>2 DEF GivesUp, IsWait
  <1>3. CASE ex.pend[t].k \in {"wait", "timedwait"}
    <2>1. GivesUp(t) = ex.pend[t].y
      BY <1>3 DEF GivesUp, IsWait
    <2> QED BY <1>1, <1>3, <2>1 DEF IsWait
  <1> QED BY <1>2, <1>3

\* The step of a thread wakes whoever waits for what it gives up.
LEMMA WaitTake ==
  ASSUME TypeInv, LookInv, RestInv, RestInv', WaitInv, NEW t \in Threads, TakeStep(t),
         GivesUp(t) \in Objects => ex.locked[GivesUp(t)] = t
  PROVE  WaitInv'
  <1>1. prog \in Programs /\ IsState(ex) /\ PrioInv /\ Good(ex)
    BY DEF TypeInv, PrioInv
  <1>2. PICK W, d, m : Stepped(t, W, d, m) /\ Good(d) /\ IsState(d)
    BY <1>1, StepIs
  <1>3. /\ Picked(t) /\ Prepared(t, W, d)
        /\ \/ Same(d, ex', {"pend"}) /\ ex'.pend = [d.pend EXCEPT ![t] = m]
           \/ \E f : Effect(d, t, m, f) /\ Ended(t, m, d, f, ex')
    BY <1>2 DEF Stepped
  <1>4. /\ t \notin W
        /\ d.en[t] = Enabled /\ d.pend[t] = None /\ d.st[t] # "blocked" /\ ~IsComplete(d, t)
        /\ t <= d.num /\ ~d.wake[t]
        /\ m.k = ex.pend[t].k /\ m.x = ex.pend[t].x /\ m.y = ex.pend[t].y
        /\ m.k \in {"wait", "timedwait", "notify_one", "notify_all"} => m.x \in Places
        /\ \A u \in Threads : IsComplete(d, u) => ~HasPending(d, u)
    BY <1>2, TakeIs
  <1>5. /\ d.locked = ex.locked /\ d.st = ex.st /\ d.over = ex.over
        /\ \A u \in Threads \ {t} : d.pend[u] = ex.pend[u]
        /\ \A u \in Threads : d.en[u] = IF u \in W THEN Enabled ELSE ex.en[u]
    BY <1>1, <1>3, PreparedFacts
  <1>6. DOMAIN ex'.en = Threads
    BY <1>1, StepGood DEF PrioInv, Good
  <1>7. /\ m.k = "unlock" => d.locked[m.x] = t
        /\ m.k \in {"wait", "timedwait"} => m.y = t \/ d.locked[m.y] = t
    BY <1>1, <1>4, <1>5, OwnerIs
  <1>8. ASSUME NEW u \in Threads \ {t} PROVE WaitsFor(d, u)
    <2>1. RestIsOf(d, u)
      BY <1>1, <1>2, <1>3, PreparedRests DEF RestInv
    <2>2. d.en[u] = Disabled => ex.en[u] = Disabled
      BY <1>5 DEF Enabled, Disabled
    <2>3. WaitsFor(ex, u)
      BY DEF WaitInv
    <2> QED BY <1>5, <2>1, <2>2, <2>3, WaitKept DEF IsComplete
  <1>9. ASSUME NEW u \in Threads PROVE WaitsFor(ex', u)
    <2>0. RestIsOf(ex', u)
      BY DEF RestInv
    <2>1. CASE Same(d, ex', {"pend"}) /\ ex'.pend = [d.pend EXCEPT ![t] = m]
      <3>1. Same(d, ex', {"pend"})
        BY <2>1
      <3>2. ex'.en = d.en /\ ex'.st = d.st /\ ex'.locked = d.locked /\ ex'.over = d.over
        BY <3>1, SameFields
      <3>3. CASE u = t
        BY <1>4, <3>2, <3>3, WaitEnabled DEF Enabled, Disabled
      <3>4. CASE u # t
        <4>1. ex'.pend[u] = d.pend[u] /\ WaitsFor(d, u)
          BY <1>2, <1>8, <2>1, <3>4 DEF IsState
        <4> QED BY <2>0, <3>2, <4>1, WaitKept DEF IsComplete
      <3> QED BY <3>3, <3>4
    <2>2. ASSUME NEW f, Effect(d, t, m, f), Ended(t, m, d, f, ex') PROVE WaitsFor(ex', u)
      <3>0. /\ ex'.pend = f.pend /\ ex'.st = f.st /\ ex'.locked = f.locked /\ ex'.over = f.over
            /\ \A v \in Threads \ {t} : ex'.en[v] = f.en[v]
            /\ ex'.en[t] = IF f.st[t] = "blocked" \/ IsComplete(f, t) THEN Disabled ELSE f.en[t]
        BY <1>6, <2>2, EndedFacts
      <3>1. CASE u = t
        <4>1. \/ f.en[t] = Enabled /\ f.st[t] # "blocked" /\ ~IsComplete(f, t) /\ f.pend[t] = None
              \/ m.k \in {"wait", "timedwait"} /\ f.pend[t] = m
              \/ /\ m.k = "sleep" /\ f.pend[t] = m /\ f.en[t] = SleepSet
                 /\ f.st[t] # "blocked" /\ ~IsComplete(f, t)
              \/ f.pend[t] = None
          BY <1>2, <1>4, <2>2, EffectOwn
        <4>2. CASE m.k \in {"wait", "timedwait"} /\ f.pend[t] = m
          <5>1. /\ IsWait(ex'.pend[t])
                /\ ex'.en[t] = Disabled =>
                     t \in Listed(ex'.waiters[ex'.pend[t].x]) /\ ~ex'.wake[t]
            BY <2>0, <3>0, <3>1, <4>2 DEF RestIsOf, IsWait, HasPending, Blocking, Enabled, Disabled
          <5> QED BY <3>1, <5>1, BlockedIs DEF WaitsFor
        <4>3. CASE /\ m.k = "sleep" /\ f.pend[t] = m /\ f.en[t] = SleepSet
                   /\ f.st[t] # "blocked" /\ ~IsComplete(f, t)
          BY <3>0, <3>1, <4>3, WaitEnabled DEF SleepSet, Disabled
        <4>4. CASE f.pend[t] = None
          BY <3>0, <3>1, <4>4, WaitEnabled DEF HasPending, None, Op
        <4> QED BY <4>1, <4>2, <4>3, <4>4
      <3>2. CASE u # t
        <4>1. WaitsOn(d, u, f)
          BY <1>2, <1>7, <2>2, <3>2, EffectWaits
        <4>2. WaitsOn(d, u, ex')
          BY <3>0, <3>2, <4>1 DEF WaitsOn, IsComplete
        <4>3. WaitsFor(d, u)
          BY <1>8, <3>2
        <4> QED BY <2>0, <4>2, <4>3, WaitKept DEF WaitsOn
      <3> QED BY <3>1, <3>2
    <2> QED BY <1>3, <2>1, <2>2
  <1> QED BY <1>9 DEF WaitInv

\* A woken thread that ends its wait releases nothing.
LEMMA WaitResume ==
  ASSUME TypeInv, RestInv', WaitInv, NEW t \in Threads, ResumeWoken(t)
  PROVE  WaitInv'
  <1>1. /\ IsState(ex) /\ DOMAIN ex = Fields
        /\ ex.pend \in [Threads -> Ops] /\ DOMAIN ex.en = Threads
    BY DEF TypeInv, PrioInv, IsState, Good
  <1>2. PICK pick \in Picks : /\ pick[1] = t
                              /\ ex' = [pick[2] EXCEPT !.wake[t] = FALSE, !.pend[t] = None]
    BY DEF ResumeWoken
  <1>3. \/ pick[2] = ex
        \/ pick[2] = [ex EXCEPT !.en[t] = Enabled, !.wake[t] = TRUE]
    BY <1>2, PickFrom
  <1>4. /\ DOMAIN pick[2] = Fields
        /\ pick[2].pend = ex.pend /\ pick[2].st = ex.st /\ pick[2].locked = ex.locked /\ pick[2].over = ex.over
        /\ pick[2].en = ex.en \/ pick[2].en = [ex.en EXCEPT ![t] = Enabled]
    BY <1>1, <1>3 DEF Fields
  <1>5. /\ ex'.pend = [ex.pend EXCEPT ![t] = None] /\ ex'.st = ex.st
        /\ ex'.locked = ex.locked /\ ex'.over = ex.over /\ ex'.en = pick[2].en
    BY <1>2, <1>4 DEF Fields
  <1>6. ASSUME NEW u \in Threads PROVE WaitsFor(ex', u)
    <2>1. CASE u = t
      <3>1. ~HasPending(ex', u)
        BY <1>1, <1>5, <2>1 DEF HasPending, None, Op
      <3> QED BY <3>1, WaitEnabled
    <2>2. CASE u # t
      <3>1. ex'.pend[u] = ex.pend[u] /\ ex'.en[u] = ex.en[u]
        BY <1>1, <1>4, <1>5, <2>2
      <3>2. WaitsFor(ex, u) /\ RestIsOf(ex', u)
        BY DEF WaitInv, RestInv
      <3> QED BY <1>5, <3>1, <3>2, WaitKept DEF IsComplete
    <2> QED BY <2>1, <2>2
  <1> QED BY <1>6 DEF WaitInv

\* Every step keeps the reason of every disabled thread, if threads release
\* only mutexes they hold.
LEMMA WaitStep ==
  ASSUME TypeInv, LookInv, RestInv, RestInv', WaitInv, [Next]_vars,
         \A t \in Threads : TakeStep(t) /\ GivesUp(t) \in Objects => ex.locked[GivesUp(t)] = t
  PROVE  WaitInv'
  <1>1. DOMAIN ex = Fields
    BY DEF TypeInv, IsState
  <1>2. CASE RunThread
    BY <1>2, WaitRun
  <1>3. CASE FreeThread \/ BlockThread \/ PassThread \/ EndScan
    BY <1>3, WaitScan
  <1>4. CASE StopAsserted \/ StepOfNobody
    BY <1>4 DEF StopAsserted, StepOfNobody, WaitInv
  <1>5. CASE NothingToRun
    <2>1. ex' = ex \/ ex' = [ex EXCEPT !.bug = "deadlock"]
      BY <1>5 DEF NothingToRun, Reported
    <2>2. /\ ex'.pend = ex.pend /\ ex'.en = ex.en /\ ex'.st = ex.st /\ ex'.locked = ex.locked
          /\ ex'.over = ex.over
      BY <1>1, <2>1 DEF Fields
    <2>3. ASSUME NEW u \in Threads PROVE WaitsFor(ex', u)
      <3>1. WaitsFor(ex, u) /\ RestIsOf(ex', u)
        BY DEF WaitInv, RestInv
      <3> QED BY <2>2, <3>1, WaitKept DEF IsComplete
    <2> QED BY <2>3 DEF WaitInv
  <1>6. CASE \E t \in Threads : ResumeWoken(t)
    BY <1>6, WaitResume
  <1>7. CASE \E t \in Threads : TakeStep(t)
    BY <1>7, WaitTake
  <1>8. CASE FinishExecution
    <2>1. ex' = ex \/ ex' = Initial(MainSlot, prog)
      BY <1>8 DEF FinishExecution
    <2>2. CASE ex' = Initial(MainSlot, prog)
      BY <2>2, RestAnew, WaitEnabled DEF WaitInv
    <2> QED BY <2>1, <2>2 DEF WaitInv
  <1>9. CASE Over \/ UNCHANGED vars
    BY <1>9 DEF Over, vars, WaitInv
  <1> QED BY <1>2, <1>3, <1>4, <1>5, <1>6, <1>7, <1>8, <1>9 DEF Next

----------------------------------------------------------------------------
(* The end of an execution.                                                *)

\* No operation records a bug, and only main's end ends the execution.
LEMMA EffectOver ==
  ASSUME NEW e, NEW t, NEW o, NEW f, Effect(e, t, o, f)
  PROVE  f.bug = e.bug
  <1> DEFINE A(F) == Same(e, f, F) /\ "bug" \notin F
  <1>1. \/ A({"num", "en", "p"}) \/ A({"locked"}) \/ A({"locked", "ret"}) \/ A({"en", "st", "locked"})
        \/ A({"en", "st", "locked", "waiters", "pend"})
        \/ A({"ret"}) \/ A({"en", "st", "wake", "waiters"}) \/ A({"pend", "en"}) \/ A({"st", "over"})
        \/ A({"en", "st"}) \/ A({})
    BY DEF Effect
  <1>2. \E F : A(F)
    BY <1>1
  <1>3. PICK F : Same(e, f, F) /\ "bug" \notin F
    BY <1>2
  <1> QED BY <1>3, SameFields

\* How a step ends the execution.
LEMMA TakeEnds ==
  ASSUME TypeInv, LookInv, RestInv, OverInv, NEW t \in Threads, TakeStep(t)
  PROVE  \/ mode' = "scan" /\ ~ex'.over /\ ex'.bug # "deadlock"
         \/ /\ mode' = "finish" /\ ex'.over
            /\ ex'.bug # "none" => IsDeadlocked(ex')
  <1>1. prog \in Programs /\ IsState(ex) /\ PrioInv /\ Good(ex)
    BY DEF TypeInv, PrioInv
  <1>2. PICK W, d, m : Stepped(t, W, d, m) /\ Good(d) /\ IsState(d)
    BY <1>1, StepIs
  <1>3. /\ Picked(t) /\ Prepared(t, W, d) /\ mode = "choose" /\ ex.bug = "none"
        /\ \/ Same(d, ex', {"pend"}) /\ ex'.pend = [d.pend EXCEPT ![t] = m]
           \/ \E f : Effect(d, t, m, f) /\ Ended(t, m, d, f, ex')
        /\ mode' = IF ex'.over THEN "finish" ELSE "scan"
    BY <1>2 DEF Stepped, Picked
  <1>4. d.bug = "none" /\ ~d.over
    BY <1>1, <1>3, PreparedFacts DEF OverInv
  <1>5. CASE Same(d, ex', {"pend"})
    <2>1. ex'.bug = d.bug /\ ex'.over = d.over
      BY <1>5, SameFields
    <2> QED BY <1>3, <1>4, <2>1
  <1>6. ASSUME NEW f, Effect(d, t, m, f), Ended(t, m, d, f, ex')
        PROVE  ex'.bug # "none" => ex'.bug = "deadlock" /\ IsDeadlocked(ex') /\ ex'.over
    <2>1. f.bug = "none"
      BY <1>4, <1>6, EffectOver
    <2>2. Same(f, ex', {"extjob", "last", "en", "bug"})
      BY <1>6 DEF Ended
    <2>3. ex'.over = f.over
      BY <2>2, SameFields
    <2> QED BY <1>6, <2>1, <2>3 DEF Ended
  <1> QED BY <1>3, <1>5, <1>6

\* When there is nothing to run no thread is enabled or asleep.
LEMMA NothingEnabled ==
  ASSUME TypeInv, Picks = {}
  PROVE  \A t \in Threads : ex.en[t] = Disabled
  <1>1. chosen = 0 /\ Selections(ex) = {}
    BY DEF Picks
  <1>2. CASE EnabledSet(ex.en) # {}
    <2>1. PICK t : t \in EnabledSet(ex.en)
      BY <1>2
    <2>2. \/ <<t, ex>> \in Selections(ex)
          \/ <<FindHighest(ex.p, EnabledSet(ex.en)), ex>> \in Selections(ex)
      BY <1>2, <2>1 DEF Selections
    <2> QED BY <1>1, <2>2
  <1>3. CASE EnabledSet(ex.en) = {}
    <2>1. ASSUME NEW t \in SleepingSet(ex.en) PROVE FALSE
      <3> DEFINE Awake(u) == [ex EXCEPT !.en[u] = Enabled, !.wake[u] = TRUE]
      <3>1. Selections(ex) = {<<u, Awake(u)>> : u \in SleepingSet(ex.en)}
        BY <1>3 DEF Selections
      <3> HIDE DEF Awake
      <3>2. <<t, Awake(t)>> \in Selections(ex)
        BY <3>1
      <3> QED BY <1>1, <3>2
    <2>2. ex.en \in [Threads -> {Disabled, Enabled, SleepSet}]
      BY DEF TypeInv, PrioInv, Good
    <2> QED BY <1>3, <2>1, <2>2 DEF EnabledSet, SleepingSet
  <1> QED BY <1>2, <1>3

\* The end of main ends the execution.
LEMMA OverStep ==
  ASSUME TypeInv, LookInv, RestInv, OverInv, [Next]_vars
  PROVE  OverInv'
  <1>1. DOMAIN ex = Fields /\ prog \in Programs /\ IsState(ex)
    BY DEF TypeInv, IsState
  <1>2. CASE RunThread
    <2>1. scan \in Threads /\ mode = "scan"
      BY <1>2, ScanExists DEF RunThread
    <2>2. \/ ex' = ex
          \/ ex.last[scan].k \notin {"finish", "exit"} /\ ex' = UserRuns(ex, scan)
      BY <1>2 DEF RunThread
    <2>3. CASE ex' = ex
      BY <2>1, <2>3 DEF OverInv
    <2>4. CASE ex.last[scan].k \notin {"finish", "exit"} /\ ex' = UserRuns(ex, scan)
      <3>1. PICK o, r : UserStep(ex, ex', scan, o, r)
        BY <1>1, <2>1, <2>4, UserIs
      <3>2. /\ Same(ex, ex', {"todo", "last", "pend", "st", "bug", "futex", "locked", "waiters", "flag"})
            /\ ex'.bug \in {ex.bug, "assert", "cycle"}
        BY <3>1 DEF UserStep
      <3>3. Same(ex, ex', {"todo", "last", "pend", "st", "bug", "futex", "locked", "waiters", "flag"})
        BY <3>2
      <3>4. ex'.over = ex.over
        BY <3>3, SameFields
      <3> QED BY <2>1, <3>2, <3>4 DEF OverInv
    <2> QED BY <2>2, <2>3, <2>4
  <1>3. CASE FreeThread \/ BlockThread \/ PassThread \/ EndScan
    <2>1. mode = "scan" /\ mode' \in {"scan", "choose"}
      BY <1>3 DEF FreeThread, BlockThread, PassThread, EndScan, Scanning
    <2>2. ex'.over = ex.over /\ ex'.bug = ex.bug
      BY <1>1, <1>3 DEF FreeThread, BlockThread, PassThread, EndScan, SleepThread, Fields
    <2> QED BY <2>1, <2>2 DEF OverInv
  <1>4. CASE StopAsserted \/ StepOfNobody
    BY <1>4 DEF StopAsserted, StepOfNobody, OverInv
  <1>5. CASE NothingToRun
    BY <1>5 DEF NothingToRun, OverInv
  <1>6. CASE \E t \in Threads : ResumeWoken(t)
    <2>1. PICK t \in Threads : ResumeWoken(t)
      BY <1>6
    <2>2. PICK pick \in Picks : ex' = [pick[2] EXCEPT !.wake[t] = FALSE, !.pend[t] = None] /\ pick[1] = t
      BY <2>1 DEF ResumeWoken
    <2>3. pick[2] = ex \/ pick[2] = [ex EXCEPT !.en[t] = Enabled, !.wake[t] = TRUE]
      BY <2>2, PickFrom
    <2>4. DOMAIN pick[2] = Fields /\ pick[2].over = ex.over /\ pick[2].bug = ex.bug
      BY <1>1, <2>3 DEF Fields
    <2>5. ex'.over = ex.over /\ ex'.bug = ex.bug
      BY <2>2, <2>4 DEF Fields
    <2> QED BY <2>1, <2>5 DEF ResumeWoken, OverInv
  <1>7. CASE \E t \in Threads : TakeStep(t)
    BY <1>7, TakeEnds DEF OverInv
  <1>8. CASE FinishExecution
    BY <1>8 DEF FinishExecution, Initial, OverInv
  <1>9. CASE Over \/ UNCHANGED vars
    BY <1>9 DEF Over, vars, OverInv
  <1> QED BY <1>2, <1>3, <1>4, <1>5, <1>6, <1>7, <1>8, <1>9 DEF Next

\* The joins of a program wait for other threads than main.
LEMMA JoinsOther ==
  ASSUME NobodyJoinsMain, prog \in Programs, NEW e, IsState(e), NEW u \in Threads, e.pend[u].k = "join"
  PROVE  e.pend[u].x # 1
  <1>1. AtPlace(e, u) /\ HasPending(e, u)
    BY DEF IsState, HasPending
  <1>2. e.pend[u].x \in Joined(u)
    BY <1>1 DEF AtPlace, FitsThread
  <1> QED BY <1>2 DEF Joined, NobodyJoinsMain

\* There are no more threads than the bound on them.
LEMMA StateThreads ==
  ASSUME prog \in Programs, NEW e, IsState(e), Good(e)
  PROVE  1 .. e.num \subseteq Threads
  <1>1. e.num \in Nat \ {0} /\ e.num + Cardinality(Coming(e)) <= MaxThreads
    BY DEF Good, IsState
  <1>2. Cardinality(Coming(e)) \in Nat
    BY ComingFinite
  <1> QED BY <1>1, <1>2, PctParams DEF Threads

\* In a deadlock every thread is over or blocked.
LEMMA DeadlockIs ==
  ASSUME NobodyJoinsMain, prog \in Programs, NEW e, IsState(e), Good(e),
         \A u \in Threads : RestIsOf(e, u) /\ WaitsFor(e, u),
         \A u \in 1 .. e.num : e.en[u] = Disabled
  PROVE  \A u \in 1 .. e.num : IsComplete(e, u) \/ (HasPending(e, u) /\ Blocked(e, u))
  <1>1. 1 .. e.num \subseteq Threads
    BY StateThreads
  <1> TAKE u \in 1 .. e.num
  <1>2. u \in Threads /\ u <= e.num /\ e.en[u] = Disabled
    BY <1>1 DEF Good
  <1>3. RestIsOf(e, u) /\ WaitsFor(e, u)
    BY <1>2
  <1>4. CASE HasPending(e, u)
    BY <1>2, <1>3, <1>4, JoinsOther DEF WaitsFor
  <1>5. CASE ~HasPending(e, u)
    BY <1>2, <1>3, <1>5 DEF RestIsOf, Enabled, Disabled
  <1> QED BY <1>4, <1>5

\* finish_execution reports a deadlock when one is there.
LEMMA ReportStep ==
  ASSUME NobodyJoinsMain, TypeInv, LookInv, RestInv, OverInv, RestInv', WaitInv', DeadlockReports, [Next]_vars
  PROVE  DeadlockReports'
  <1>1. /\ DOMAIN ex = Fields /\ prog \in Programs /\ IsState(ex) /\ PrioInv /\ Good(ex)
        /\ ex.num \in Nat
    BY DEF TypeInv, PrioInv, IsState, Good
  <1>2. \A u \in Threads : RestIsOf(ex', u) /\ WaitsFor(ex', u)
    BY DEF RestInv, WaitInv
  <1>3. CASE mode' \notin {"finish", "exit"}
    BY <1>3 DEF DeadlockReports
  <1>4. CASE StopAsserted
    BY <1>4 DEF StopAsserted, OverInv, DeadlockReports
  <1>5. CASE NothingToRun
    <2>1. /\ mode = "choose" /\ ex.bug = "none" /\ Picks = {} /\ ex' = Reported(ex)
      BY <1>5 DEF NothingToRun
    <2>2. ~ex.over /\ \A u \in Threads : ex.en[u] = Disabled
      BY <2>1, NothingEnabled DEF OverInv
    <2>3. Live \subseteq Threads
      BY LiveThreads
    <2>4. ex' = IF IsDeadlocked(ex) THEN [ex EXCEPT !.bug = "deadlock"] ELSE ex
      BY <2>1 DEF Reported
    <2>5. /\ ex'.num = ex.num /\ ex'.en = ex.en /\ ex'.st = ex.st /\ ex'.pend = ex.pend
          /\ ex'.over = ex.over /\ ex'.last = ex.last /\ ex'.todo = ex.todo
      BY <1>1, <2>4 DEF Fields
    <2>6. ASSUME NEW u \in Live
          PROVE  IsComplete(ex', u) \/ (HasPending(ex', u) /\ Blocked(ex', u))
      <3>1. u \in Threads /\ u <= ex'.num /\ ex'.en[u] = Disabled /\ ~ex'.over
        BY <1>1, <2>2, <2>3, <2>5, <2>6 DEF Live
      <3>2. RestIsOf(ex', u) /\ WaitsFor(ex', u)
        BY <1>2, <3>1
      <3> QED BY <3>1, <3>2 DEF RestIsOf, WaitsFor, Enabled, Disabled
    <2>7. CASE IsDeadlocked(ex)
      <3>1. ex'.bug = "deadlock"
        BY <1>1, <2>4, <2>7 DEF Fields
      <3>2. \A u \in 1 .. ex'.num : IsComplete(ex', u) \/ (HasPending(ex', u) /\ Blocked(ex', u))
        BY <2>5, <2>6 DEF Live
      <3> QED BY <3>1, <3>2 DEF DeadlockReports, Live
    <2>8. CASE ~IsDeadlocked(ex)
      <3>1. \A u \in 1 .. ex.num : ex.en[u] = Disabled
        BY <2>2, <2>3 DEF Live
      <3>2. ex' = ex /\ \A u \in 1 .. ex.num : ~HasPending(ex, u)
        BY <2>4, <2>8, <3>1 DEF IsDeadlocked
      <3>3. \A u \in 1 .. ex'.num : IsComplete(ex', u)
        BY <2>6, <3>2 DEF Live
      <3> QED BY <2>1, <3>2, <3>3 DEF DeadlockReports, Live
    <2> QED BY <2>7, <2>8
  <1>6. CASE \E t \in Threads : TakeStep(t)
    <2>1. PICK t \in Threads : TakeStep(t)
      BY <1>6
    <2>2. \/ mode' = "scan"
          \/ /\ mode' = "finish" /\ ex'.over
             /\ ex'.bug # "none" => IsDeadlocked(ex')
      BY <2>1, TakeEnds
    <2>3. IsState(ex') /\ Good(ex')
      BY <1>1, <2>1, StepKeeps, StepGood DEF PrioInv
    <2>4. IsDeadlocked(ex') => \A u \in 1 .. ex'.num : IsComplete(ex', u) \/ (HasPending(ex', u) /\ Blocked(ex', u))
      BY <1>1, <1>2, <2>3, DeadlockIs DEF IsDeadlocked
    <2> QED BY <1>3, <2>2, <2>4 DEF DeadlockReports, Live
  <1>7. CASE FinishExecution \/ Over \/ UNCHANGED vars
    <2>1. \/ mode' = "scan"
          \/ mode = "finish" /\ mode' = "exit" /\ ex' = ex
          \/ mode' = mode /\ ex' = ex
      BY <1>7 DEF FinishExecution, Over, vars
    <2> QED BY <1>3, <2>1 DEF DeadlockReports, Live
  <1>8. CASE \/ RunThread \/ FreeThread \/ BlockThread \/ PassThread \/ EndScan \/ StepOfNobody
             \/ \E t \in Threads : ResumeWoken(t)
    <2>1. mode' \notin {"finish", "exit"}
      BY <1>8 DEF RunThread, FreeThread, BlockThread, PassThread, EndScan, StepOfNobody, ResumeWoken, Scanning
    <2> QED BY <1>3, <2>1
  <1> QED BY <1>4, <1>5, <1>6, <1>7, <1>8 DEF Next

\* All invariants so far, at the start and from step to step.
Invs == TypeInv /\ LookInv /\ RestInv /\ WaitInv /\ OverInv

\* The invariants hold at the start.
LEMMA InvsInit == ASSUME Init PROVE Invs /\ DeadlockReports
  <1>1. ex = Initial(MainSlot, prog) /\ mode = "scan"
    BY DEF Init
  <1>2. \A u \in Threads : WaitsFor(ex, u)
    BY <1>1, RestAnew, WaitEnabled
  <1>3. ~ex.over /\ ex.bug = "none"
    BY <1>1 DEF Initial
  <1> QED BY <1>1, <1>2, <1>3, InitialTypes, LookInit, RestInit DEF Invs, WaitInv, OverInv, DeadlockReports

\* Every step keeps the invariants.
LEMMA InvsStep ==
  ASSUME Invs, [Next]_vars, ChosenComes, OwnersGive
  PROVE  Invs'
  <1>1. TypeInv' /\ LookInv' /\ RestInv' /\ OverInv'
    BY TypesStep, LookStep, RestStep, OverStep DEF Invs
  <1>2. WaitInv'
    BY <1>1, WaitStep DEF Invs, OwnersGive
  <1> QED BY <1>1, <1>2 DEF Invs

\* Nothing happens to a thread in a step that changes nothing.
LEMMA Steady == UNCHANGED vars => ChosenComes /\ OwnersGive
  <1>1. UNCHANGED vars => ChosenComes
    BY DEF vars, ChosenComes, RunThread, HasPending, CheckActionEnabled
  <1>2. UNCHANGED vars => OwnersGive
    BY DEF vars, OwnersGive, TakeStep
  <1> QED BY <1>1, <1>2

\* No wake-up is lost: process_mutex wakes every thread that waits for the mutex
\* that is released, process_thread_action every thread that waits for the one
\* that ends, and no thread is disabled for anything else, provided threads
\* release the mutexes they own only and what a thread that is chosen already
\* comes to can be executed.
THEOREM PctNoLostWakeup == Spec /\ ChosenCanGo /\ OwnersRelease => []NoLostWakeup
  <1>1. Init => Invs
    BY InvsInit
  <1>2. Invs /\ [Next]_vars /\ [ChosenComes]_vars /\ [OwnersGive]_vars => Invs'
    <2>1. UNCHANGED vars => ChosenComes /\ OwnersGive
      BY Steady
    <2> QED BY <2>1, InvsStep
  <1>3. Invs => NoLostWakeup
    <2>1. ASSUME Invs, mode = "choose", ex.bug = "none", NEW t \in Live, HasPending(ex, t), ex.en[t] = Disabled
          PROVE  Blocked(ex, t)
      <3>1. t \in Threads
        BY <2>1, LiveThreads DEF Invs
      <3> QED BY <2>1, <3>1 DEF Invs, WaitInv, WaitsFor, OverInv
    <2> QED BY <2>1 DEF NoLostWakeup
  <1> QED BY <1>1, <1>2, <1>3, PTL DEF Spec, ChosenCanGo, OwnersRelease

\* finish_execution reports a deadlock exactly when one is there, under the same
\* conditions, when no thread joins main: main's end completes nobody's join.
THEOREM PctDeadlockReports ==
  ASSUME NobodyJoinsMain
  PROVE  Spec /\ ChosenCanGo /\ OwnersRelease => []DeadlockReports
  <1> DEFINE I == Invs /\ DeadlockReports
  <1>1. Init => I
    BY InvsInit
  <1>2. I /\ [Next]_vars /\ [ChosenComes]_vars /\ [OwnersGive]_vars => I'
    <2>1. UNCHANGED vars => ChosenComes /\ OwnersGive
      BY Steady
    <2>2. ASSUME I, [Next]_vars, ChosenComes, OwnersGive PROVE I'
      <3>1. Invs'
        BY <2>2, InvsStep
      <3>2. DeadlockReports'
        BY <2>2, <3>1, ReportStep DEF Invs
      <3> QED BY <3>1, <3>2
    <2> QED BY <2>1, <2>2
  <1> QED BY <1>1, <1>2, PTL DEF Spec, ChosenCanGo, OwnersRelease

----------------------------------------------------------------------------
(* The cycle of waiting threads that switch_thread reports.                *)

\* g goes n times from an element to the next one, starting at a.
Walks(D, next, a, n, g) ==
  g \in [0 .. n -> D] /\ g[0] = a /\ \A i \in 0 .. n - 1 : g[i + 1] = next[g[i]]

LEMMA WalkOn ==
  ASSUME NEW D, NEW a \in D, NEW next \in [D -> D], NEW m \in Nat \ {0}, NEW g, Walks(D, next, a, m - 1, g)
  PROVE  \E f : Walks(D, next, a, m, f)
  <1> DEFINE f == [i \in 0 .. m |-> IF i = m THEN next[g[m - 1]] ELSE g[i]]
  <1>1. /\ g \in [0 .. m - 1 -> D] /\ g[0] = a
        /\ \A i \in 0 .. (m - 1) - 1 : g[i + 1] = next[g[i]]
    BY DEF Walks
  <1>2. f \in [0 .. m -> D]
    <2>1. g[m - 1] \in D /\ \A i \in 0 .. m : i # m => g[i] \in D
      BY <1>1
    <2> QED BY <2>1
  <1>3. f[0] = a
    BY <1>1
  <1>4. ASSUME NEW i \in 0 .. m - 1 PROVE f[i + 1] = next[f[i]]
    <2>1. CASE i = m - 1
      BY <2>1
    <2>2. CASE i # m - 1
      <3>1. i \in 0 .. (m - 1) - 1 /\ i + 1 # m /\ i # m /\ i \in 0 .. m /\ i + 1 \in 0 .. m
        BY <2>2
      <3> QED BY <1>1, <3>1
    <2> QED BY <2>1, <2>2
  <1>5. Walks(D, next, a, m, f)
    BY <1>2, <1>3, <1>4 DEF Walks
  <1> QED BY <1>5

LEMMA WalkExists ==
  ASSUME NEW D, NEW a \in D, NEW next \in [D -> D], NEW n \in Nat
  PROVE  \E g : Walks(D, next, a, n, g)
  <1> DEFINE T == {k \in Nat : ~ \E g : Walks(D, next, a, k, g)}
  <1>1. SUFFICES ASSUME T # {} PROVE FALSE
    OBVIOUS
  <1>2. \E m \in T : \A k \in T : m <= k
    <2>1. T \subseteq Nat
      OBVIOUS
    <2> HIDE DEF T
    <2> QED BY <1>1, <2>1, Least
  <1>3. PICK m \in T : \A k \in T : m <= k
    BY <1>2
  <1>4. CASE m = 0
    <2>1. Walks(D, next, a, 0, [i \in 0 .. 0 |-> a])
      BY DEF Walks
    <2> QED BY <1>4, <2>1
  <1>5. CASE m # 0
    <2>1. m \in Nat \ {0} /\ m - 1 \in Nat /\ ~(m <= m - 1)
      BY <1>5
    <2>2. m - 1 \notin T
      <3> HIDE DEF T
      <3> QED BY <1>3, <2>1
    <2> QED BY <2>1, <2>2, WalkOn
  <1> QED BY <1>4, <1>5

LEMMA WalksAgree ==
  ASSUME NEW D, NEW a, NEW next, NEW n \in Nat, NEW g, Walks(D, next, a, n, g),
         NEW f, Walks(D, next, a, n + 1, f)
  PROVE  f[n] = g[n]
  <1> DEFINE T == {i \in 0 .. n : f[i] # g[i]}
  <1>1. SUFFICES ASSUME T # {} PROVE FALSE
    OBVIOUS
  <1>2. \E m \in T : \A k \in T : m <= k
    <2>1. T \subseteq Nat
      OBVIOUS
    <2> HIDE DEF T
    <2> QED BY <1>1, <2>1, Least
  <1>3. PICK m \in T : \A k \in T : m <= k
    BY <1>2
  <1>4. /\ f[0] = g[0]
        /\ \A i \in 0 .. n - 1 : f[i + 1] = next[f[i]] /\ g[i + 1] = next[g[i]]
    BY DEF Walks
  <1>5. m # 0
    BY <1>3, <1>4
  <1>6. m - 1 \in 0 .. n - 1 /\ m - 1 \in 0 .. n /\ (m - 1) + 1 = m /\ ~(m <= m - 1)
    BY <1>5
  <1>7. f[m - 1] = g[m - 1]
    BY <1>3, <1>6
  <1>8. f[m] = next[f[m - 1]] /\ g[m] = next[g[m - 1]]
    BY <1>4, <1>6
  <1> QED BY <1>3, <1>7, <1>8

\* What is reached from a by going on and on.
GoesOn(D, next, a, h) == h \in [Nat -> D] /\ h[0] = a /\ \A n \in Nat : h[n + 1] = next[h[n]]

LEMMA Iterates ==
  ASSUME NEW D, NEW a \in D, NEW next \in [D -> D]
  PROVE  \E h : GoesOn(D, next, a, h)
  <1> DEFINE W(n, g) == Walks(D, next, a, n, g)
             c == [n \in Nat |-> CHOOSE g : W(n, g)]
             h == [n \in Nat |-> c[n][n]]
  <1>1. \A n \in Nat : W(n, c[n])
    <2>1. \A n \in Nat : \E g : W(n, g)
      BY WalkExists
    <2> HIDE DEF W
    <2> QED BY <2>1
  <1> HIDE DEF c
  <1>2. \A n \in Nat : c[n][n] \in D
    BY <1>1 DEF Walks
  <1>3. h \in [Nat -> D] /\ h[0] = a
    BY <1>1, <1>2 DEF Walks
  <1>4. ASSUME NEW n \in Nat PROVE h[n + 1] = next[h[n]]
    <2>1. W(n, c[n]) /\ W(n + 1, c[n + 1])
      BY <1>1
    <2>2. c[n + 1][n] = c[n][n]
      BY <2>1, WalksAgree
    <2>3. c[n + 1][n + 1] = next[c[n + 1][n]]
      BY <2>1 DEF Walks
    <2> QED BY <2>2, <2>3
  <1>5. GoesOn(D, next, a, h)
    BY <1>3, <1>4 DEF GoesOn
  <1> QED BY <1>5

\* The thread each thread waits for, 0 for none.
NextOf(e) == [u \in Threads \cup {0} |-> IF u = 0 THEN 0 ELSE WaitingOn(e, u)]

\* h is what is_waiting_on walks, from t on, one thread after the other.
Follows(e, t, h) ==
  /\ GoesOn(Threads \cup {0}, NextOf(e), NextOf(e)[t], h)
  /\ WaitChain(e, t) = [n \in 0 .. MaxThreads |-> h[n]]

LEMMA ChainIs ==
  ASSUME NEW e, NEW t \in Threads, \A u \in Threads : WaitingOn(e, u) \in Threads \cup {0}
  PROVE  \E h : Follows(e, t, h)
  <1> DEFINE next == NextOf(e)
             D == Threads \cup {0}
             Hop(f) == [n \in Nat |-> IF n = 0 THEN WaitingOn(e, t)
                                      ELSE IF f[n - 1] = 0 THEN 0 ELSE WaitingOn(e, f[n - 1])]
             hop == CHOOSE f : f = Hop(f)
  <1>1. next \in [D -> D] /\ next[t] \in D /\ next[t] = WaitingOn(e, t)
    BY DEF Threads, NextOf
  <1>2. PICK h : GoesOn(D, next, next[t], h)
    <2> HIDE DEF D
    <2> QED BY <1>1, Iterates
  <1>3. h \in [Nat -> D] /\ h[0] = next[t] /\ \A n \in Nat : h[n + 1] = next[h[n]]
    BY <1>2 DEF GoesOn
  <1>4. ASSUME NEW n \in Nat, n # 0 PROVE h[n] = IF h[n - 1] = 0 THEN 0 ELSE WaitingOn(e, h[n - 1])
    <2>1. n - 1 \in Nat /\ (n - 1) + 1 = n
      BY <1>4
    <2>2. h[n] = next[h[n - 1]] /\ h[n - 1] \in D
      BY <1>3, <2>1
    <2> QED BY <2>2 DEF NextOf
  <1>5. h = Hop(h)
    BY <1>3, <1>1, <1>4
  <1>6. hop = Hop(hop)
    <2> HIDE DEF Hop
    <2> QED BY <1>5
  <1> HIDE DEF hop
  <1>7. \A n \in Nat : hop[n] = h[n]
    <2> DEFINE T == {n \in Nat : hop[n] # h[n]}
    <2>1. SUFFICES ASSUME T # {} PROVE FALSE
      OBVIOUS
    <2>2. \E m \in T : \A k \in T : m <= k
      <3>1. T \subseteq Nat
        OBVIOUS
      <3> HIDE DEF T
      <3> QED BY <2>1, <3>1, Least
    <2>3. PICK m \in T : \A k \in T : m <= k
      BY <2>2
    <2>4. \A f : Hop(f)[0] = WaitingOn(e, t)
      OBVIOUS
    <2>5. \A f : m # 0 => Hop(f)[m] = IF f[m - 1] = 0 THEN 0 ELSE WaitingOn(e, f[m - 1])
      OBVIOUS
    <2> HIDE DEF Hop
    <2>6. m # 0
      BY <1>5, <1>6, <2>3, <2>4
    <2>7. m - 1 \in Nat /\ m - 1 \notin T
      <3>1. m \in Nat /\ ~(m <= m - 1) /\ m - 1 \in Nat
        BY <2>6
      <3> HIDE DEF T
      <3> QED BY <2>3, <3>1
    <2>8. hop[m] = h[m]
      BY <1>5, <1>6, <2>5, <2>6, <2>7
    <2> QED BY <2>8
  <1>8. WaitChain(e, t) = [n \in 0 .. MaxThreads |-> hop[n]]
    BY DEF WaitChain, hop
  <1>9. WaitChain(e, t) = [n \in 0 .. MaxThreads |-> h[n]]
    BY <1>7, <1>8
  <1> QED BY <1>2, <1>9 DEF Follows

\* Who comes back to where it started has gone through no element twice, and
\* through no more elements than there are.
ComesBack(D, next, t, n, s) ==
  /\ s \in [0 .. n -> D] /\ s[0] = t /\ s[n] = t
  /\ \A i \in 0 .. n - 1 : s[i + 1] = next[s[i]] /\ (s[i + 1] = s[i] => s[i] = t)

LEMMA CycleOf ==
  ASSUME NEW D, IsFiniteSet(D), 0 \notin D, NEW next \in [D \cup {0} -> D \cup {0}], next[0] = 0,
         NEW t \in D, NEW h, GoesOn(D \cup {0}, next, next[t], h), NEW last \in Nat, h[last] = t
  PROVE  \E n \in 1 .. Cardinality(D) : \E s : ComesBack(D, next, t, n, s)
  <1> USE DEF GoesOn
  <1>1. ASSUME NEW i \in Nat, NEW j \in Nat, h[i] = h[j], NEW k \in Nat PROVE h[i + k] = h[j + k]
    <2> DEFINE T == {l \in Nat : h[i + l] # h[j + l]}
    <2>1. SUFFICES ASSUME T # {} PROVE FALSE
      OBVIOUS
    <2>2. \E m \in T : \A l \in T : m <= l
      <3>1. T \subseteq Nat
        OBVIOUS
      <3> HIDE DEF T
      <3> QED BY <2>1, <3>1, Least
    <2>3. PICK m \in T : \A l \in T : m <= l
      BY <2>2
    <2>4. m # 0
      BY <1>1, <2>3
    <2>5. m - 1 \in Nat /\ m - 1 \notin T
      <3>1. m \in Nat /\ ~(m <= m - 1) /\ m - 1 \in Nat
        BY <2>4
      <3> HIDE DEF T
      <3> QED BY <2>3, <3>1
    <2> DEFINE a == i + (m - 1)
               b == j + (m - 1)
    <2>6. a \in Nat /\ b \in Nat /\ a + 1 = i + m /\ b + 1 = j + m
      BY <2>5
    <2>7. h[a] = h[b]
      BY <2>5
    <2> HIDE DEF a, b
    <2>8. h[i + m] = h[j + m]
      BY <2>6, <2>7
    <2> QED BY <2>8
  <1>2. ASSUME NEW i \in Nat, h[i] = 0, NEW k \in Nat PROVE h[i + k] = 0
    <2> DEFINE T == {l \in Nat : h[i + l] # 0}
    <2>1. SUFFICES ASSUME T # {} PROVE FALSE
      OBVIOUS
    <2>2. \E m \in T : \A l \in T : m <= l
      <3>1. T \subseteq Nat
        OBVIOUS
      <3> HIDE DEF T
      <3> QED BY <2>1, <3>1, Least
    <2>3. PICK m \in T : \A l \in T : m <= l
      BY <2>2
    <2>4. m # 0
      BY <1>2, <2>3
    <2>5. m - 1 \in Nat /\ m - 1 \notin T
      <3>1. m \in Nat /\ ~(m <= m - 1) /\ m - 1 \in Nat
        BY <2>4
      <3> HIDE DEF T
      <3> QED BY <2>3, <3>1
    <2> DEFINE a == i + (m - 1)
    <2>6. a \in Nat /\ a + 1 = i + m /\ h[a] = 0
      BY <2>5
    <2> HIDE DEF a
    <2>7. h[i + m] = 0
      BY <2>6
    <2> QED BY <2>7
  <1>3. \E m \in {l \in Nat : h[l] = t} : \A l \in {l \in Nat : h[l] = t} : m <= l
    <2> DEFINE T == {l \in Nat : h[l] = t}
    <2>1. T \subseteq Nat /\ T # {}
      OBVIOUS
    <2> HIDE DEF T
    <2>2. \E m \in T : \A l \in T : m <= l
      BY <2>1, Least
    <2> QED BY <2>2 DEF T
  <1>4. PICK m \in Nat : h[m] = t /\ \A l \in Nat : h[l] = t => m <= l
    BY <1>3
  <1>5. ASSUME NEW i \in 0 .. m PROVE h[i] \in D
    <2>1. i \in Nat /\ m - i \in Nat /\ i + (m - i) = m
      OBVIOUS
    <2>2. h[i] # 0
      BY <1>2, <1>4, <2>1
    <2> QED BY <2>1, <2>2
  <1>6. ASSUME NEW i \in 0 .. m, NEW j \in 0 .. m, i < j PROVE h[i] # h[j]
    <2> DEFINE k == m - j
    <2>1. i \in Nat /\ j \in Nat /\ k \in Nat /\ j + k = m /\ i + k < m /\ i + k \in Nat
      BY <1>6
    <2> HIDE DEF k
    <2>2. h[i] = h[j] => h[i + k] = t
      <3>1. h[i] = h[j] => h[i + k] = h[j + k]
        BY <1>1, <2>1
      <3> QED BY <1>4, <2>1, <3>1
    <2> QED BY <1>4, <2>1, <2>2
  <1>7. \A i, j \in 0 .. m : h[i] = h[j] => i = j
    BY <1>6
  <1>8. m + 1 <= Cardinality(D) /\ Cardinality(D) \in Nat
    <2> DEFINE g == [i \in 0 .. m |-> h[i]]
    <2>1. g \in Injection(0 .. m, D)
      BY <1>5, <1>7 DEF Injection, IsInjective
    <2>2. IsFiniteSet(0 .. m) /\ Cardinality(0 .. m) = m + 1
      BY FS_Interval
    <2>3. Cardinality(0 .. m) <= Cardinality(D)
      BY <2>1, FS_Injection
    <2> QED BY <2>2, <2>3, FS_CardinalityType
  <1> DEFINE n == m + 1
             s == [i \in 0 .. n |-> IF i = 0 THEN t ELSE h[i - 1]]
  <1>9. n \in 1 .. Cardinality(D)
    BY <1>8
  <1>10. s \in [0 .. n -> D] /\ s[0] = t /\ s[n] = t
    <2>1. \A i \in 0 .. n : i # 0 => i - 1 \in 0 .. m
      OBVIOUS
    <2>2. \A i \in 0 .. n : s[i] \in D
      BY <1>5, <2>1
    <2>3. s[0] = t /\ s[n] = h[m] /\ DOMAIN s = 0 .. n
      OBVIOUS
    <2> QED BY <1>4, <2>2, <2>3
  <1>11. ASSUME NEW i \in 0 .. n - 1 PROVE s[i + 1] = next[s[i]] /\ (s[i + 1] = s[i] => s[i] = t)
    <2>1. i \in Nat /\ i + 1 \in 0 .. n /\ i \in 0 .. n /\ s[i + 1] = h[i]
      OBVIOUS
    <2>2. CASE i = 0
      BY <2>1, <2>2
    <2>3. CASE i # 0
      <3>1. i - 1 \in Nat /\ (i - 1) + 1 = i /\ i - 1 \in 0 .. m /\ i \in 0 .. m /\ i - 1 < i
        BY <2>1, <2>3
      <3>2. s[i] = h[i - 1] /\ h[i] = next[h[i - 1]]
        BY <2>1, <2>3, <3>1
      <3>3. h[i - 1] # h[i]
        BY <1>6, <3>1
      <3> QED BY <2>1, <3>2, <3>3
    <2> QED BY <2>2, <2>3
  <1>12. ComesBack(D, next, t, n, s)
    BY <1>10, <1>11 DEF ComesBack
  <1> QED BY <1>9, <1>12

\* A thread waits for a thread of the execution, or for none.
LEMMA WaitsForOne ==
  ASSUME NEW e, IsState(e), e.num \in Threads, NEW u \in Threads
  PROVE  WaitingOn(e, u) \in Threads \cup {0} /\ (WaitingOn(e, u) # 0 => HasPending(e, u))
  <1>1. e.locked \in [Places -> 0 .. e.num] /\ 0 .. e.num \subseteq Threads \cup {0}
    <2>1. e.locked \in [Places -> 0 .. e.num]
      BY DEF IsState
    <2>2. 0 .. e.num \subseteq Threads \cup {0}
      BY PctParams DEF Threads
    <2> QED BY <2>1, <2>2
  <1>2. /\ e.pend[u].k = "lock" => e.pend[u].x \in Objects \cup {u}
        /\ e.pend[u].k = "join" => e.pend[u].x \in Threads
    BY PendingPlace
  <1> QED BY <1>1, <1>2 DEF WaitingOn, HasPending, Places

\* Each thread of the cycle waits for the next, by a lock or a join.
IsRing(e, n, s) ==
  /\ s \in [0 .. n -> 1 .. e.num] /\ s[0] = s[n]
  /\ \A i \in 0 .. n - 1 : WaitingOn(e, s[i]) = s[i + 1] /\ ~CheckActionEnabled(e, s[i])
CycleIn(e) == \E n \in 1 .. MaxThreads : \E s : IsRing(e, n, s)

\* A completed thread has nothing to execute.
Idle(e, t) == IsComplete(e, t) => ~HasPending(e, t)

\* What is_waiting_on finds is a cycle (g and e differ in the bug at most).
LEMMA CycleFound ==
  ASSUME NEW e, IsState(e), e.num \in Threads, \A u \in Threads : Idle(e, u), NEW t \in Threads,
         NEW g, g.pend = e.pend, g.locked = e.locked, IsWaitingOnItself(g, t)
  PROVE  CycleIn(e)
  <1> DEFINE next == NextOf(g)
  <1>1. /\ \A u : WaitingOn(g, u) = WaitingOn(e, u)
        /\ ~RelocksOwn(e, t)
    BY DEF WaitingOn, RelocksOwn, IsWaitingOnItself
  <1>2. \A u \in Threads : WaitingOn(e, u) \in Threads \cup {0} /\ (WaitingOn(e, u) # 0 => HasPending(e, u))
    BY WaitsForOne
  <1>3. /\ MaxThreads \in Nat /\ IsFiniteSet(Threads) /\ Cardinality(Threads) = MaxThreads /\ 0 \notin Threads
    BY PctParams, FS_Interval DEF Threads
  <1>4. /\ next \in [Threads \cup {0} -> Threads \cup {0}] /\ next[0] = 0
        /\ \A u \in Threads : next[u] = WaitingOn(e, u)
    BY <1>1, <1>2, <1>3 DEF NextOf
  <1>5. PICK h : Follows(g, t, h)
    BY <1>1, <1>2, ChainIs
  <1>6. PICK last \in 0 .. MaxThreads : h[last] = t
    BY <1>5 DEF IsWaitingOnItself, Follows
  <1>7. PICK n \in 1 .. MaxThreads : \E s : ComesBack(Threads, next, t, n, s)
    <2> HIDE DEF next
    <2>1. last \in Nat
      BY <1>3, <1>6
    <2>2. GoesOn(Threads \cup {0}, next, next[t], h)
      BY <1>5 DEF Follows, next
    <2> QED BY <1>3, <1>4, <1>6, <2>1, <2>2, CycleOf
  <1> HIDE DEF next
  <1>8. PICK s : ComesBack(Threads, next, t, n, s)
    BY <1>7
  <1>9. /\ s \in [0 .. n -> Threads] /\ s[0] = t /\ s[n] = t
        /\ \A i \in 0 .. n - 1 : s[i + 1] = next[s[i]] /\ (s[i + 1] = s[i] => s[i] = t)
    BY <1>8 DEF ComesBack
  <1>10. ASSUME NEW i \in 0 .. n - 1
        PROVE  /\ s[i] \in Threads /\ s[i + 1] \in Threads /\ WaitingOn(e, s[i]) = s[i + 1]
               /\ HasPending(e, s[i])
               /\ s[i + 1] = s[i] => s[i] = t
    <2>1. i \in 0 .. n /\ i + 1 \in 0 .. n
      OBVIOUS
    <2>2. s[i] \in Threads /\ s[i + 1] \in Threads
      BY <1>9, <2>1
    <2> QED BY <1>2, <1>3, <1>4, <1>9, <2>2
  <1>11. ASSUME NEW i \in 0 .. n PROVE HasPending(e, s[i])
    <2>1. CASE i = n
      BY <1>9, <1>10, <2>1
    <2>2. CASE i # n
      BY <1>10, <2>2
    <2> QED BY <2>1, <2>2
  <1>12. ASSUME NEW i \in 0 .. n - 1 PROVE ~CheckActionEnabled(e, s[i])
    <2> DEFINE o == e.pend[s[i]]
    <2>1. WaitingOn(e, s[i]) = s[i + 1] /\ s[i + 1] # 0 /\ HasPending(e, s[i + 1])
      BY <1>3, <1>10, <1>11
    <2>2. CASE o.k = "lock"
      <3>1. e.locked[o.x] = s[i + 1]
        BY <2>1, <2>2 DEF WaitingOn
      <3>2. ~(e.locked[o.x] = s[i] /\ o.x \in Recursive)
        <4>1. ASSUME e.locked[o.x] = s[i], o.x \in Recursive PROVE FALSE
          <5>1. s[i] = t
            BY <1>10, <3>1, <4>1
          <5> QED BY <1>1, <2>1, <2>2, <3>1, <4>1, <5>1 DEF RelocksOwn
        <4> QED BY <4>1
      <3> QED BY <2>1, <2>2, <3>1, <3>2 DEF CheckActionEnabled
    <2>3. CASE o.k = "join"
      <3>1. o.x = s[i + 1] /\ ~IsComplete(e, s[i + 1])
        BY <1>10, <2>1, <2>3 DEF WaitingOn, Idle
      <3> QED BY <2>3, <3>1 DEF CheckActionEnabled
    <2>4. CASE o.k \notin {"lock", "join"}
      BY <2>1, <2>4 DEF WaitingOn
    <2> QED BY <2>2, <2>3, <2>4
  <1>13. ASSUME NEW i \in 0 .. n PROVE s[i] \in 1 .. e.num
    <2>1. s[i] \in Threads /\ HasPending(e, s[i])
      BY <1>9, <1>11
    <2>2. ~(s[i] > e.num)
      BY <2>1, PendingPlace
    <2> QED BY <2>1, <2>2 DEF Threads
  <1>14. s \in [0 .. n -> 1 .. e.num] /\ t \in 1 .. e.num
    BY <1>9, <1>13
  <1>15. IsRing(e, n, s)
    BY <1>9, <1>10, <1>12, <1>14 DEF IsRing
  <1> QED BY <1>15 DEF CycleIn

\* A cycle stays as long as its threads keep what they wait for.
LEMMA CycleKept ==
  ASSUME NEW e, NEW f, CycleIn(e), f.num = e.num, e.num \in Nat,
         \A u \in 1 .. e.num : e.pend[u].k \in Blocking =>
           /\ f.pend[u] = e.pend[u]
           /\ e.pend[u].k = "lock" => f.locked[e.pend[u].x] = e.locked[e.pend[u].x]
           /\ e.pend[u].k = "join" => (IsComplete(f, e.pend[u].x) <=> IsComplete(e, e.pend[u].x))
  PROVE  CycleIn(f)
  <1>1. PICK n \in 1 .. MaxThreads : \E s : IsRing(e, n, s)
    BY DEF CycleIn
  <1>2. PICK s : IsRing(e, n, s)
    BY <1>1
  <1>3. ASSUME NEW i \in 0 .. n - 1 PROVE WaitingOn(f, s[i]) = s[i + 1] /\ ~CheckActionEnabled(f, s[i])
    <2>1. s[i] \in 1 .. e.num /\ WaitingOn(e, s[i]) = s[i + 1] /\ ~CheckActionEnabled(e, s[i])
      BY <1>2 DEF IsRing
    <2>2. e.pend[s[i]].k \in Blocking
      BY <2>1 DEF CheckActionEnabled, Blocking
    <2> QED BY <2>1, <2>2 DEF CheckActionEnabled, WaitingOn, Blocking
  <1>4. IsRing(f, n, s)
    BY <1>2, <1>3 DEF IsRing
  <1> QED BY <1>4 DEF CycleIn

\* switch_thread reports a cycle when is_waiting_on finds one.
LEMMA UserReports ==
  ASSUME prog \in Programs, NEW e, IsState(e), NEW t \in Threads,
         e.last[t].k \notin {"finish", "exit"}, NEW f, f = UserRuns(e, t),
         f.bug = "cycle", e.bug # "cycle"
  PROVE  \E g : g.pend = f.pend /\ g.locked = f.locked /\ IsWaitingOnItself(g, t)
  <1> DEFINE d == [e EXCEPT !.flag = @ \/ e.last[t].sets]
  <1>1. DOMAIN e = Fields
    BY DEF IsState
  <1>2. DOMAIN d = Fields /\ \A x \in Fields \ {"flag"} : d[x] = e[x]
    BY <1>1 DEF Fields
  <1>3. /\ d.last = e.last /\ d.todo = e.todo /\ d.futex = e.futex /\ d.num = e.num /\ d.pend = e.pend
        /\ d.st = e.st /\ d.wake = e.wake /\ d.ret = e.ret /\ d.locked = e.locked /\ d.waiters = e.waiters
        /\ d.bug = e.bug
    BY <1>2 DEF Fields
  <1> HIDE DEF d
  <1>4. IsState(d)
    <2>1. \A u \in Threads : AtPlace(d, u)
      BY <1>3, PlaceKept DEF IsState
    <2>2. Coming(d) = Coming(e)
      BY <1>3 DEF Coming
    <2> QED BY <1>2, <1>3, <2>1, <2>2 DEF IsState
  <1>5. PICK o, r : Issue(d, t, Rest(d, t)) = Stash(d, t, o, r)
    BY <1>3, <1>4, Issues
  <1>6. f = Stash(d, t, o, r)
    BY <1>5 DEF UserRuns, d
  <1>7. o.k # "assert"
    <2>1. CASE o.k = "assert"
      <3>1. f = [d EXCEPT !.todo[t] = r, !.last[t] = o, !.st[t] = "ready", !.bug = "assert"]
        BY <1>6, <2>1 DEF Stash
      <3> QED BY <1>2, <3>1 DEF Fields
    <2> QED BY <2>1
  <1> DEFINE w == FutexEntry(d, t, o)
             g == [w EXCEPT !.todo[t] = r, !.last[t] = Resolve(d, t, o),
                            !.pend[t] = Resolve(d, t, o), !.st[t] = "ready"]
  <1>8. f = IF IsWaitingOnItself(g, t) THEN [g EXCEPT !.bug = "cycle"] ELSE g
    BY <1>6, <1>7 DEF Stash
  <1>9. DOMAIN w = Fields /\ w.bug = e.bug
    BY <1>2, <1>3 DEF FutexEntry, Fields
  <1> HIDE DEF w
  <1>10. DOMAIN g = Fields /\ g.bug = e.bug
    BY <1>9 DEF Fields
  <1> HIDE DEF g
  <1>11. IsWaitingOnItself(g, t)
    BY <1>8, <1>10
  <1>12. g.pend = f.pend /\ g.locked = f.locked
    BY <1>8, <1>10, <1>11 DEF Fields
  <1> QED BY <1>11, <1>12

\* An operation completes no thread but its own, which it leaves with nothing to execute.
LEMMA EffectIdle ==
  ASSUME NEW e, IsState(e), NEW t \in Threads, NEW o, NEW f, Effect(e, t, o, f),
         e.pend[t] = None, ~IsComplete(e, t), \A u \in Threads : Idle(e, u)
  PROVE  \A u \in Threads : Idle(f, u)
  <1>1. DOMAIN e.st = Threads
    BY DEF IsState
  <1>2. \A u \in Threads \ {t} : f.pend[u] = e.pend[u]
    BY EffectOthers
  <1>3. \A u \in Threads \ {t} : f.st[u] \in {e.st[u], "ready"}
    <2>1. CASE \E F : Same(e, f, F) /\ "st" \notin F
      BY <2>1, SameFields
    <2>2. CASE \E W : f.st = Set(e.st, W, "ready")
      BY <2>2 DEF Set
    <2>3. CASE \E W, x : f.st = [Set(e.st, W, "ready") EXCEPT ![t] = x]
      BY <2>3 DEF Set
    <2>4. CASE \E x : f.st = [e.st EXCEPT ![t] = x]
      BY <1>1, <2>4
    <2> DEFINE A(F) == Same(e, f, F) /\ "st" \notin F
               B == \E W : f.st = Set(e.st, W, "ready")
               C == \E W, x : f.st = [Set(e.st, W, "ready") EXCEPT ![t] = x]
               D == \E x : f.st = [e.st EXCEPT ![t] = x]
    <2>5. \/ A({"num", "en", "p"}) \/ A({"locked"}) \/ A({"locked", "ret"})
          \/ A({"ret"}) \/ A({"pend", "en"}) \/ A({})
          \/ B \/ C \/ D
      BY DEF Effect, NotifyEffect
    <2>6. (\E F : A(F)) \/ B \/ C \/ D
      <3> HIDE DEF A, B, C, D
      <3> QED BY <2>5
    <2> QED BY <2>1, <2>2, <2>3, <2>4, <2>6
  <1>4. ASSUME NEW u \in Threads \ {t} PROVE Idle(f, u)
    BY <1>2, <1>3 DEF Idle, IsComplete, HasPending
  <1>5. Idle(f, t)
    <2>1. CASE o.k \in {"wait", "timedwait", "sleep"}
      <3>1. CASE Same(e, f, {"ret"}) \/ Same(e, f, {"pend", "en"})
        <4>1. f.st = e.st
          BY <3>1, SameFields
        <4> QED BY <4>1 DEF Idle, IsComplete
      <3>2. CASE \/ f.st = [Set(e.st, LockWaiters(e, t), "ready") EXCEPT ![t] = "blocked"]
                 \/ f.st = Set(e.st, LockWaiters(e, t), "ready")
        <4>1. f.st[t] \in {"blocked", "ready", e.st[t]}
          BY <3>2 DEF Set
        <4> QED BY <4>1 DEF Idle, IsComplete
      <3> QED BY <2>1, <3>1, <3>2 DEF Effect
    <2>2. CASE o.k \notin {"wait", "timedwait", "sleep"}
      <3>1. f.pend = e.pend
        BY <2>2, EffectOthers
      <3> QED BY <3>1 DEF Idle, HasPending, None, Op
    <2> QED BY <2>1, <2>2
  <1> QED BY <1>4, <1>5

CycleInv == /\ ex.bug = "cycle" => CycleIn(ex)
            /\ \A t \in Threads : Idle(ex, t)

\* A thread that runs to its next operation closes a cycle or leaves the one there is.
LEMMA CycleRun ==
  ASSUME TypeInv, TypeInv', CycleInv, RunThread
  PROVE  CycleInv'
  <1>1. /\ IsState(ex) /\ prog \in Programs /\ scan \in Threads /\ ex.num \in Threads
    BY ScanExists, LiveThreads DEF TypeInv, RunThread
  <1>2. /\ ~IsComplete(ex, scan) /\ ~HasPending(ex, scan)
        /\ \/ ex' = ex
           \/ ex.last[scan].k \notin {"finish", "exit"} /\ ex' = UserRuns(ex, scan)
    BY DEF RunThread
  <1>3. CASE ex' = ex
    BY <1>3 DEF CycleInv
  <1>4. CASE ex.last[scan].k \notin {"finish", "exit"} /\ ex' = UserRuns(ex, scan)
    <2>1. PICK o, r : UserStep(ex, ex', scan, o, r)
      BY <1>1, <1>4, UserIs
    <2>2. /\ \A u \in Threads \ {scan} : ex'.pend[u] = ex.pend[u] /\ ex'.st[u] = ex.st[u]
          /\ ex'.num = ex.num /\ ex'.st[scan] = "ready"
      BY <1>1, <1>2, <2>1, UserChanges
    <2>3. ASSUME NEW u \in Threads PROVE Idle(ex', u)
      <3>1. CASE u = scan
        BY <2>2, <3>1 DEF Idle, IsComplete
      <3>2. CASE u # scan
        BY <2>2, <3>2 DEF Idle, IsComplete, HasPending, CycleInv
      <3> QED BY <3>1, <3>2
    <2>4. ASSUME ex'.bug = "cycle", ex.bug # "cycle" PROVE CycleIn(ex')
      <3>1. PICK g : g.pend = ex'.pend /\ g.locked = ex'.locked /\ IsWaitingOnItself(g, scan)
        BY <1>1, <1>4, <2>4, UserReports
      <3>2. IsState(UserRuns(ex, scan))
        <4>1. Good(ex) /\ scan <= ex.num
          BY DEF TypeInv, PrioInv, RunThread, Scanning
        <4> QED BY <1>1, <1>2, <1>4, <4>1, UserKeeps
      <3> QED BY <1>1, <1>4, <2>2, <2>3, <3>1, <3>2, CycleFound
    <2>5. ASSUME ex.bug = "cycle" PROVE CycleIn(ex')
      <3>1. ASSUME NEW u \in 1 .. ex.num, ex.pend[u].k \in Blocking
            PROVE  /\ ex'.pend[u] = ex.pend[u]
                   /\ ex.pend[u].k = "lock" => ex'.locked[ex.pend[u].x] = ex.locked[ex.pend[u].x]
                   /\ ex.pend[u].k = "join" =>
                        (IsComplete(ex', ex.pend[u].x) <=> IsComplete(ex, ex.pend[u].x))
        <4>1. u \in Threads /\ u # scan
          BY <1>1, <1>2, <3>1, LiveThreads DEF HasPending, Blocking, Live
        <4>2. /\ ex.pend[u].k = "lock" => ex'.locked[ex.pend[u].x] = ex.locked[ex.pend[u].x]
              /\ \A v \in Threads : IsComplete(ex', v) <=> IsComplete(ex, v)
          BY <1>1, <1>2, <2>1, <4>1, UserPlaces
        <4>3. ex.pend[u].k = "join" => ex.pend[u].x \in Threads
          BY <1>1, <4>1, PendingPlace
        <4> QED BY <2>2, <4>1, <4>2, <4>3
      <3>2. CycleIn(ex) /\ ex.num \in Nat
        BY <1>1, <2>5 DEF CycleInv, Threads
      <3> QED BY <2>2, <3>1, <3>2, CycleKept
    <2> QED BY <2>3, <2>4, <2>5 DEF CycleInv
  <1> QED BY <1>2, <1>3, <1>4

\* The step of a thread is taken when no bug is recorded, and records none but a deadlock.
LEMMA CycleTake ==
  ASSUME TypeInv, CycleInv, NEW t \in Threads, TakeStep(t)
  PROVE  CycleInv'
  <1>1. prog \in Programs /\ IsState(ex) /\ PrioInv /\ Good(ex)
    BY DEF TypeInv, PrioInv
  <1>2. PICK W, d, m : Stepped(t, W, d, m) /\ Good(d) /\ IsState(d)
    BY <1>1, StepIs
  <1>3. /\ Picked(t) /\ Prepared(t, W, d)
        /\ \/ Same(d, ex', {"pend"}) /\ ex'.pend = [d.pend EXCEPT ![t] = m]
           \/ \E f : Effect(d, t, m, f) /\ Ended(t, m, d, f, ex')
    BY <1>2 DEF Stepped
  <1>4. /\ d.st = ex.st /\ d.bug = ex.bug /\ d.pend[t] = None
        /\ \A u \in Threads \ {t} : d.pend[u] = ex.pend[u]
    BY <1>1, <1>3, PreparedFacts
  <1>5. ~IsComplete(d, t) /\ d.bug = "none"
    BY <1>3, <1>4 DEF Picked, CycleInv, Idle, IsComplete
  <1>6. ASSUME NEW u \in Threads PROVE Idle(d, u)
    BY <1>4, <1>5 DEF CycleInv, Idle, IsComplete, HasPending
  <1>7. CASE Same(d, ex', {"pend"}) /\ ex'.pend = [d.pend EXCEPT ![t] = m]
    <2>1. Same(d, ex', {"pend"})
      BY <1>7
    <2>2. ex'.st = d.st /\ ex'.bug = d.bug
      BY <2>1, SameFields
    <2>3. \A u \in Threads \ {t} : ex'.pend[u] = d.pend[u]
      BY <1>2, <1>7 DEF IsState
    <2> QED BY <1>5, <1>6, <2>2, <2>3 DEF CycleInv, Idle, IsComplete, HasPending
  <1>8. ASSUME NEW f, Effect(d, t, m, f), Ended(t, m, d, f, ex') PROVE CycleInv'
    <2>1. \A u \in Threads : Idle(f, u)
      BY <1>2, <1>4, <1>5, <1>6, <1>8, EffectIdle
    <2>2. Same(f, ex', {"extjob", "last", "en", "bug"})
      BY <1>8 DEF Ended
    <2>3. ex'.st = f.st /\ ex'.pend = f.pend
      BY <2>2, SameFields
    <2>4. f.bug = "none"
      <3> DEFINE A(F) == Same(d, f, F) /\ "bug" \notin F
      <3>1. \/ A({"num", "en", "p"}) \/ A({"locked"}) \/ A({"locked", "ret"})
            \/ A({"en", "st", "locked"}) \/ A({"en", "st", "locked", "waiters", "pend"})
            \/ A({"ret"}) \/ A({"pend", "en"}) \/ A({"st", "over"})
            \/ A({"en", "st", "wake", "waiters"}) \/ A({"en", "st"}) \/ A({})
        BY <1>8 DEF Effect
      <3>2. \E F : A(F)
        BY <3>1
      <3>3. PICK F : Same(d, f, F) /\ "bug" \notin F
        BY <3>2
      <3> QED BY <1>5, <3>3, SameFields
    <2>5. ex'.bug # "cycle"
      BY <1>8, <2>4 DEF Ended
    <2> QED BY <2>1, <2>3, <2>5 DEF CycleInv, Idle, IsComplete, HasPending
  <1> QED BY <1>3, <1>7, <1>8

\* No step of the runtime breaks the cycle before the execution ends.
LEMMA CycleStep ==
  ASSUME TypeInv, TypeInv', CycleInv, [Next]_vars
  PROVE  CycleInv'
  <1>1. /\ IsState(ex) /\ DOMAIN ex = Fields /\ DOMAIN ex.st = Threads
        /\ ex.pend \in [Threads -> Ops] /\ ex.num \in Nat /\ ex.num \in Threads /\ Live \subseteq Threads
        /\ prog \in Programs
    <2>1. IsState(ex) /\ prog \in Programs
      BY DEF TypeInv
    <2>2. DOMAIN ex = Fields /\ DOMAIN ex.st = Threads /\ ex.pend \in [Threads -> Ops]
      BY <2>1 DEF IsState
    <2>3. Live \subseteq Threads /\ ex.num \in Threads
      BY LiveThreads
    <2>4. ex.num \in Nat
      BY <2>3 DEF Threads
    <2> QED BY <2>1, <2>2, <2>3, <2>4
  <1>2. ASSUME ex'.pend = ex.pend, ex'.locked = ex.locked, ex'.num = ex.num,
               \A v \in Threads : IsComplete(ex', v) <=> IsComplete(ex, v),
               ex'.bug = "cycle" => ex.bug = "cycle"
        PROVE  CycleInv'
    <2>1. \A u \in Threads : Idle(ex', u)
      BY <1>2 DEF CycleInv, Idle, HasPending
    <2>2. ASSUME ex'.bug = "cycle" PROVE CycleIn(ex')
      <3>1. \A u \in 1 .. ex.num : ex.pend[u].k = "join" => ex.pend[u].x \in Threads
        BY <1>1, PendingPlace DEF Live
      <3>2. CycleIn(ex)
        BY <1>2, <2>2 DEF CycleInv
      <3> QED BY <1>1, <1>2, <3>1, <3>2, CycleKept
    <2> QED BY <2>1, <2>2 DEF CycleInv
  <1>3. CASE PassThread \/ EndScan \/ StopAsserted \/ StepOfNobody \/ Over \/ UNCHANGED vars
    <2>1. ex' = ex
      BY <1>3 DEF PassThread, EndScan, StopAsserted, StepOfNobody, Over, vars
    <2> QED BY <1>2, <2>1
  <1>4. CASE FreeThread
    <2>1. ex' \in {ex, [ex EXCEPT !.st[scan] = "freed"]} /\ IsComplete(ex, scan)
      BY <1>4 DEF FreeThread
    <2>2. /\ ex'.pend = ex.pend /\ ex'.locked = ex.locked /\ ex'.num = ex.num /\ ex'.bug = ex.bug
          /\ ex'.st = ex.st \/ ex'.st = [ex.st EXCEPT ![scan] = "freed"]
      BY <1>1, <2>1 DEF Fields
    <2>3. \A u \in Threads : IsComplete(ex', u) <=> IsComplete(ex, u)
      BY <1>1, <2>1, <2>2 DEF IsComplete
    <2> QED BY <1>2, <2>2, <2>3
  <1>5. CASE BlockThread
    <2>1. ex' = SleepThread(ex, scan) /\ scan \in Threads /\ HasPending(ex, scan)
      BY <1>5, ScanExists DEF BlockThread
    <2>2. /\ ex'.pend = ex.pend /\ ex'.locked = ex.locked /\ ex'.num = ex.num /\ ex'.bug = ex.bug
          /\ ex'.st = [ex.st EXCEPT ![scan] = "blocked"]
      BY <1>1, <2>1 DEF SleepThread, Fields
    <2>3. ~IsComplete(ex, scan)
      BY <2>1 DEF CycleInv, Idle
    <2>4. \A u \in Threads : IsComplete(ex', u) <=> IsComplete(ex, u)
      BY <1>1, <2>1, <2>2, <2>3 DEF IsComplete
    <2> QED BY <1>2, <2>2, <2>4
  <1>6. CASE NothingToRun
    <2>1. ex' = ex \/ ex' = [ex EXCEPT !.bug = "deadlock"]
      BY <1>6 DEF NothingToRun, Reported
    <2>2. /\ ex'.pend = ex.pend /\ ex'.locked = ex.locked /\ ex'.num = ex.num /\ ex'.st = ex.st
          /\ ex'.bug = "cycle" => ex.bug = "cycle"
      BY <1>1, <2>1 DEF Fields
    <2> QED BY <1>2, <2>2 DEF IsComplete
  <1>7. ASSUME NEW t \in Threads, ResumeWoken(t) PROVE CycleInv'
    <2>1. PICK pick \in Picks : /\ pick[1] = t /\ pick[2].wake[t]
                                /\ ex' = [pick[2] EXCEPT !.wake[t] = FALSE, !.pend[t] = None]
      BY <1>7 DEF ResumeWoken
    <2>2. \/ pick[2] = ex
          \/ ex.en[t] = SleepSet /\ pick[2] = [ex EXCEPT !.en[t] = Enabled, !.wake[t] = TRUE]
      BY <2>1, PickFrom DEF SleepingSet
    <2>3. DOMAIN pick[2] = Fields /\ pick[2].pend = ex.pend /\ pick[2].st = ex.st /\ pick[2].bug = ex.bug
      BY <1>1, <2>2 DEF Fields
    <2>4. ex'.pend = [ex.pend EXCEPT ![t] = None] /\ ex'.st = ex.st /\ ex'.bug = ex.bug
      BY <2>1, <2>3 DEF Fields
    <2>5. \A u \in Threads : ex'.pend[u] \in {ex.pend[u], None}
      BY <1>1, <2>4
    <2>6. ex'.bug # "cycle"
      BY <1>7, <2>4 DEF ResumeWoken
    <2> QED BY <2>4, <2>5, <2>6 DEF CycleInv, Idle, IsComplete, HasPending, None, Op
  <1>8. CASE FinishExecution
    <2>1. ex' = ex \/ ex' = Initial(MainSlot, prog)
      BY <1>8 DEF FinishExecution
    <2>2. CASE ex' = Initial(MainSlot, prog)
      <3>1. ex'.bug = "none" /\ \A u \in Threads : ex'.st[u] = "created"
        BY <2>2 DEF Initial
      <3> QED BY <3>1 DEF CycleInv, Idle, IsComplete
    <2> QED BY <1>2, <2>1, <2>2
  <1> QED BY <1>3, <1>4, <1>5, <1>6, <1>7, <1>8, CycleRun, CycleTake DEF Next

\* The cycle of waiting threads that switch_thread reports is there, and stays
\* there as long as the execution: whatever is_waiting_on follows back to the
\* thread it starts from is a cycle of no more threads than there are.
THEOREM PctCyclesAreReal == Spec => []CyclesAreReal
  <1>1. Init => CycleInv
    <2>1. ASSUME Init PROVE CycleInv
      <3>1. ex = Initial(MainSlot, prog)
        BY <2>1 DEF Init
      <3>2. ex.bug = "none" /\ \A u \in Threads : ex.st[u] = "created"
        BY <3>1 DEF Initial
      <3> QED BY <3>2 DEF CycleInv, Idle, IsComplete
    <2> QED BY <2>1
  <1>2. Init => TypeInv
    BY InitialTypes
  <1>3. TypeInv /\ [Next]_vars => TypeInv'
    BY TypesStep
  <1>4. TypeInv /\ TypeInv' /\ CycleInv /\ [Next]_vars => CycleInv'
    BY CycleStep
  <1>5. TypeInv /\ CycleInv => CyclesAreReal
    <2>1. ASSUME TypeInv, CycleInv, ex.bug = "cycle"
          PROVE  \E t \in Live : \E n \in 1 .. MaxThreads : \E s \in [0 .. n -> Live] :
                   /\ s[0] = t /\ s[n] = t
                   /\ \A i \in 0 .. n - 1 : WaitingOn(ex, s[i]) = s[i + 1] /\ ~CheckActionEnabled(ex, s[i])
      <3>1. PICK n \in 1 .. MaxThreads : \E s : IsRing(ex, n, s)
        BY <2>1 DEF CycleInv, CycleIn
      <3>2. PICK s : IsRing(ex, n, s)
        BY <3>1
      <3>3. /\ s \in [0 .. n -> Live] /\ s[0] = s[n] /\ s[0] \in Live
            /\ \A i \in 0 .. n - 1 : WaitingOn(ex, s[i]) = s[i + 1] /\ ~CheckActionEnabled(ex, s[i])
        BY <3>2 DEF IsRing, Live
      <3> DEFINE Q(m, z) == \A i \in 0 .. m - 1 : WaitingOn(ex, z[i]) = z[i + 1] /\ ~CheckActionEnabled(ex, z[i])
      <3>4. Q(n, s)
        BY <3>3
      <3> HIDE DEF Q
      <3>5. \E t \in Live : \E m \in 1 .. MaxThreads : \E z \in [0 .. m -> Live] :
              z[0] = t /\ z[m] = t /\ Q(m, z)
        BY <3>3, <3>4
      <3> QED BY <3>5 DEF Q
    <2> QED BY <2>1 DEF CyclesAreReal
  <1> QED BY <1>1, <1>2, <1>3, <1>4, <1>5, PTL DEF Spec
=============================================================================
