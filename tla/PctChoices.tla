------------------------------ MODULE PctChoices ------------------------------
(***************************************************************************)
(* Which thread goes on, for every number of threads and every program:    *)
(* the PCT schedule, and what holds of the thread ModelChecker has chosen  *)
(* when its operation is executed without another look at it.  Then which  *)
(* operations are executed and which threads are blocked.                  *)
(***************************************************************************)
EXTENDS PctProofs

----------------------------------------------------------------------------
(* The highest thread.                                                     *)

\* FirstOf looks for the first entry it may take.
LEMMA FirstIs ==
  ASSUME NEW n \in Nat, NEW v, DOMAIN v = 1 .. n, NEW avail, NEW none
  PROVE  \/ /\ \A i \in 1 .. n : v[i] \notin avail
            /\ FirstOf(v, avail, none) = none
         \/ \E i \in 1 .. n : /\ v[i] \in avail /\ FirstOf(v, avail, none) = v[i]
                              /\ \A j \in 1 .. n : v[j] \in avail => i <= j
  <1>1. CASE \E i \in 1 .. n : v[i] \in avail
    <2> DEFINE T == {i \in 1 .. n : v[i] \in avail}
               First(i) == v[i] \in avail /\ \A j \in DOMAIN v : v[j] \in avail => i <= j
    <2>1. T \subseteq Nat /\ T # {}
      BY <1>1
    <2>2. PICK m \in T : \A k \in T : m <= k
      BY <2>1, Least
    <2>3. m \in DOMAIN v /\ First(m)
      BY <2>2
    <2> DEFINE c == CHOOSE i \in DOMAIN v : First(i)
    <2>4. c \in DOMAIN v /\ First(c)
      BY <2>3
    <2>5. FirstOf(v, avail, none) = v[c]
      BY <1>1 DEF FirstOf
    <2> QED BY <2>4, <2>5
  <1>2. CASE ~ \E i \in 1 .. n : v[i] \in avail
    BY <1>2 DEF FirstOf
  <1> QED BY <1>1, <1>2

\* It finds the same entry among fewer.
LEMMA FirstAmongFewer ==
  ASSUME NEW n \in Nat, NEW v, DOMAIN v = 1 .. n, NEW S, NEW T, T \subseteq S,
         NEW none, NEW other, NEW t \in T
  PROVE  /\ (\E i \in 1 .. n : v[i] \in S) /\ FirstOf(v, S, none) = t => FirstOf(v, T, other) = t
         /\ (\A i \in 1 .. n : v[i] \notin S) => FirstOf(v, T, other) = other
  <1>1. ASSUME \E i \in 1 .. n : v[i] \in S, FirstOf(v, S, none) = t PROVE FirstOf(v, T, other) = t
    <2>1. PICK i \in 1 .. n : v[i] = t /\ \A j \in 1 .. n : v[j] \in S => i <= j
      BY <1>1, FirstIs
    <2>2. PICK k \in 1 .. n : /\ v[k] \in T /\ FirstOf(v, T, other) = v[k]
                              /\ \A j \in 1 .. n : v[j] \in T => k <= j
      BY <2>1, FirstIs
    <2>3. i <= k /\ k <= i
      BY <2>1, <2>2
    <2> QED BY <2>1, <2>2, <2>3
  <1>2. ASSUME \A i \in 1 .. n : v[i] \notin S PROVE FirstOf(v, T, other) = other
    BY <1>2, FirstIs
  <1> QED BY <1>1, <1>2

\* get_highest_thread and find_highest look at both vectors in turn.
LEMMA FirstOfBoth ==
  ASSUME NEW num, NEW p, IsVectors(p, num), NEW S, NEW T, T \subseteq S,
         NEW none, none \notin S, NEW other, NEW t \in T,
         FirstOf(p.high, S, FirstOf(p.low, S, none)) = t
  PROVE  FirstOf(p.high, T, FirstOf(p.low, T, other)) = t
  <1>1. /\ Len(p.high) \in Nat /\ DOMAIN p.high = 1 .. Len(p.high)
        /\ \E n \in Nat : DOMAIN p.low = 1 .. n
    BY SlotNumbers
  <1>2. PICK n \in Nat : DOMAIN p.low = 1 .. n
    BY <1>1
  <1>3. CASE \E i \in 1 .. Len(p.high) : p.high[i] \in S
    BY <1>1, <1>3, FirstAmongFewer
  <1>4. CASE \A i \in 1 .. Len(p.high) : p.high[i] \notin S
    <2>1. FirstOf(p.low, S, none) = t
      BY <1>1, <1>4, FirstIs
    <2>2. \E i \in 1 .. n : p.low[i] \in S
      BY <1>2, <2>1, FirstIs
    <2>3. FirstOf(p.low, T, other) = t
      BY <1>2, <2>1, <2>2, FirstAmongFewer
    <2>4. \A r : FirstOf(p.high, T, r) = r
      <3> SUFFICES ASSUME NEW r PROVE FirstOf(p.high, T, r) = r
        OBVIOUS
      <3>1. \A i \in 1 .. Len(p.high) : p.high[i] \notin T
        BY <1>4
      <3> QED BY <1>1, <3>1, FirstIs
    <2> QED BY <2>3, <2>4
  <1> QED BY <1>3, <1>4

\* The highest thread is enabled.
LEMMA HighestIs ==
  ASSUME NEW num \in Nat, NEW p, IsVectors(p, num), NEW en, DOMAIN en = Threads
  PROVE  /\ IsFiniteSet(EnabledSet(en)) /\ NoThread \notin EnabledSet(en) /\ 0 \notin EnabledSet(en)
         /\ HighestThread(p, en) \in EnabledSet(en) \cup {NoThread}
  <1> DEFINE S == EnabledSet(en)
  <1>1. S \subseteq 1 .. MaxThreads
    BY DEF EnabledSet, Threads
  <1>2. IsFiniteSet(S)
    <2>1. IsFiniteSet(1 .. MaxThreads)
      BY FS_Interval, PctParams
    <2> QED BY <1>1, <2>1, FS_Subset
  <1>3. NoThread \notin S /\ 0 \notin S
    BY <1>1, PctParams DEF NoThread
  <1>4. CASE Cardinality(S) = 1
    <2>1. PICK x : S = {x}
      BY <1>2, <1>4, FS_Singleton
    <2> QED BY <1>2, <1>3, <1>4, <2>1 DEF HighestThread
  <1>5. CASE Cardinality(S) # 1
    <2>1. /\ Len(p.high) \in Nat /\ DOMAIN p.high = 1 .. Len(p.high)
          /\ \E n \in Nat : DOMAIN p.low = 1 .. n
      BY SlotNumbers
    <2>2. FirstOf(p.low, S, NoThread) \in S \cup {NoThread}
      BY <2>1, FirstIsOne
    <2>3. FirstOf(p.high, S, FirstOf(p.low, S, NoThread)) \in S \cup {FirstOf(p.low, S, NoThread)}
      BY <2>1, FirstIsOne
    <2>4. HighestThread(p, en) = FirstOf(p.high, S, FirstOf(p.low, S, NoThread))
      BY <1>5 DEF HighestThread
    <2> HIDE DEF S
    <2> QED BY <1>2, <1>3, <2>2, <2>3, <2>4 DEF S
  <1> QED BY <1>4, <1>5

\* The highest thread stays so as long as it is enabled and no other becomes so.
LEMMA HighestStays ==
  ASSUME NEW num \in Nat, NEW p, IsVectors(p, num), NEW en, DOMAIN en = Threads,
         NEW f, DOMAIN f = Threads, NEW t \in EnabledSet(f),
         HighestThread(p, en) = t, EnabledSet(f) \subseteq EnabledSet(en)
  PROVE  HighestThread(p, f) = t
  <1> DEFINE S == EnabledSet(en)
             T == EnabledSet(f)
  <1>1. IsFiniteSet(S) /\ IsFiniteSet(T) /\ NoThread \notin S
    BY HighestIs
  <1>2. CASE Cardinality(T) = 1
    <2>1. PICK x : T = {x}
      BY <1>1, <1>2, FS_Singleton
    <2> QED BY <1>2, <2>1 DEF HighestThread
  <1>3. CASE Cardinality(T) # 1
    <2>1. Cardinality(S) # 1
      <3>1. SUFFICES ASSUME Cardinality(S) = 1 PROVE FALSE
        OBVIOUS
      <3>2. PICK x : S = {x}
        BY <1>1, <3>1, FS_Singleton
      <3>3. T = {t}
        BY <3>2
      <3>4. Cardinality({t}) = 1
        BY FS_Singleton
      <3> QED BY <1>3, <3>3, <3>4
    <2>2. FirstOf(p.high, S, FirstOf(p.low, S, NoThread)) = t
      BY <2>1 DEF HighestThread
    <2> HIDE DEF S, T
    <2>3. T \subseteq S /\ t \in T
      BY DEF S, T
    <2>4. NoThread \notin S /\ IsVectors(p, num)
      BY <1>1
    <2>5. FirstOf(p.high, T, FirstOf(p.low, T, NoThread)) = t
      BY ONLY <2>2, <2>3, <2>4, FirstOfBoth
    <2>6. Cardinality(T) # 1
      BY <1>3 DEF T
    <2> QED BY <2>5, <2>6 DEF HighestThread, T
  <1> QED BY <1>2, <1>3

\* The thread select_next_thread finds by the priorities is the one
\* get_highest_thread finds.
LEMMA FoundIsHighest ==
  ASSUME NEW num \in Nat, NEW p, IsVectors(p, num), NEW en, DOMAIN en = Threads,
         NEW t \in EnabledSet(en), t = FindHighest(p, EnabledSet(en))
  PROVE  t = HighestThread(p, en)
  <1> DEFINE S == EnabledSet(en)
  <1>1. IsFiniteSet(S) /\ 0 \notin S
    BY HighestIs
  <1>2. CASE Cardinality(S) = 1
    <2>1. PICK x : S = {x}
      BY <1>1, <1>2, FS_Singleton
    <2> QED BY <1>2, <2>1 DEF HighestThread
  <1>3. CASE Cardinality(S) # 1
    <2>1. FirstOf(p.high, S, FirstOf(p.low, S, 0)) = t
      BY DEF FindHighest
    <2> HIDE DEF S
    <2>2. t \in S /\ S \subseteq S
      BY DEF S
    <2>3. FirstOf(p.high, S, FirstOf(p.low, S, NoThread)) = t
      BY <1>1, <2>1, <2>2, FirstOfBoth
    <2> QED BY <1>3, <2>3 DEF HighestThread, S
  <1> QED BY <1>2, <1>3

----------------------------------------------------------------------------
(* The thread chosen for the next turn.                                    *)

\* Where the choice for the next turn comes from, as long as it stands: the
\* thread is the highest, or is about to come to an operation that no priority
\* decides on: its start, the second part of its read-modify-write, or an
\* operation it has come to that goes first or is not counted.
Settles(e, t) ==
  \/ t = HighestThread(e.p, e.en)
  \/ ~HasPending(e, t) /\ e.last[t].k \in {"none", "rmwr"}
  \/ /\ HasPending(e, t)
     /\ IsEarly(e.pend[t]) \/ ~InCount(e.pend[t]) \/ e.pend[t].k = "rmw"

ChoiceInv == mode \in {"scan", "choose"} /\ chosen \in Threads => Settles(ex, chosen)

\* What the runtime picks: the execution as it is, or one in which it wakes a
\* sleeper because no thread is enabled.
LEMMA PickFrom ==
  ASSUME NEW pick \in Picks
  PROVE  \/ /\ pick[2] = ex
            /\ \/ chosen # 0 /\ pick[1] = chosen
               \/ chosen = 0 /\ pick[1] \in EnabledSet(ex.en)
               \/ /\ chosen = 0 /\ EnabledSet(ex.en) # {}
                  /\ pick[1] = FindHighest(ex.p, EnabledSet(ex.en))
         \/ /\ chosen = 0 /\ EnabledSet(ex.en) = {} /\ pick[1] \in SleepingSet(ex.en)
            /\ pick[2] = [ex EXCEPT !.en[pick[1]] = Enabled, !.wake[pick[1]] = TRUE]
  <1>1. CASE chosen # 0
    <2>1. pick = <<chosen, ex>>
      BY <1>1 DEF Picks
    <2> QED BY <1>1, <2>1
  <1>2. CASE chosen = 0 /\ EnabledSet(ex.en) = {}
    <2> DEFINE Woken(u) == [ex EXCEPT !.en[u] = Enabled, !.wake[u] = TRUE]
    <2>1. pick \in {<<u, Woken(u)>> : u \in SleepingSet(ex.en)}
      BY <1>2 DEF Picks, Selections
    <2> HIDE DEF Woken
    <2>2. PICK u \in SleepingSet(ex.en) : pick = <<u, Woken(u)>>
      BY <2>1
    <2>3. pick[1] \in SleepingSet(ex.en) /\ pick[2] = Woken(pick[1])
      BY <2>2
    <2> QED BY <1>2, <2>3 DEF Woken
  <1>3. CASE chosen = 0 /\ EnabledSet(ex.en) # {} /\ DrawAtRandom(ex.instr)
    <2>1. pick \in {<<u, ex>> : u \in EnabledSet(ex.en)}
      BY <1>3 DEF Picks, Selections
    <2>2. PICK u \in EnabledSet(ex.en) : pick = <<u, ex>>
      BY <2>1
    <2> QED BY <1>3, <2>2
  <1>4. CASE chosen = 0 /\ EnabledSet(ex.en) # {} /\ ~DrawAtRandom(ex.instr)
    <2> DEFINE h == FindHighest(ex.p, EnabledSet(ex.en))
    <2>1. pick \in {<<h, ex>>}
      BY <1>4 DEF Picks, Selections
    <2> HIDE DEF h
    <2>2. pick[1] = h /\ pick[2] = ex
      BY <2>1
    <2> QED BY <1>4, <2>2 DEF h
  <1> QED BY <1>1, <1>2, <1>3, <1>4

\* An operation touches what its own thread did and has pending, no other's.
LEMMA EffectOthers ==
  ASSUME NEW e, IsState(e), NEW t \in Threads, NEW o, NEW f, Effect(e, t, o, f)
  PROVE  /\ f.todo = e.todo /\ f.last = e.last
         /\ \A u \in Threads \ {t} : f.pend[u] = e.pend[u]
         /\ o.k \notin {"wait", "timedwait", "sleep"} => f.pend = e.pend
         /\ DOMAIN f = Fields
  <1>1. CASE \E F : Same(e, f, F) /\ {"todo", "last", "pend"} \cap F = {}
    <2>1. PICK F : Same(e, f, F) /\ {"todo", "last", "pend"} \cap F = {}
      BY <1>1
    <2>2. Same(e, f, F) /\ DOMAIN f = Fields
      BY <2>1 DEF Same
    <2>3. f.todo = e.todo /\ f.last = e.last /\ f.pend = e.pend
      BY <2>1, <2>2, SameFields
    <2> QED BY <2>2, <2>3
  <1>2. CASE /\ o.k \in {"wait", "timedwait", "sleep"} /\ f.pend = [e.pend EXCEPT ![t] = o]
             /\ \E F : Same(e, f, F) /\ {"todo", "last"} \cap F = {}
    <2>1. PICK F : Same(e, f, F) /\ {"todo", "last"} \cap F = {}
      BY <1>2
    <2>2. Same(e, f, F) /\ DOMAIN f = Fields
      BY <2>1 DEF Same
    <2>3. f.todo = e.todo /\ f.last = e.last
      BY <2>1, <2>2, SameFields
    <2>4. \A u \in Threads \ {t} : f.pend[u] = e.pend[u]
      BY <1>2 DEF IsState
    <2> QED BY <1>2, <2>2, <2>3, <2>4
  <1>3. (\E F : Same(e, f, F) /\ {"todo", "last", "pend"} \cap F = {})
        \/ (/\ o.k \in {"wait", "timedwait", "sleep"} /\ f.pend = [e.pend EXCEPT ![t] = o]
            /\ \E F : Same(e, f, F) /\ {"todo", "last"} \cap F = {})
    <2> DEFINE A(F) == Same(e, f, F) /\ {"todo", "last", "pend"} \cap F = {}
               B(F) == Same(e, f, F) /\ {"todo", "last"} \cap F = {}
    <2>1. \/ A({"num", "en", "p"}) \/ A({"locked"}) \/ A({"locked", "ret"}) \/ A({"en", "st", "locked"})
          \/ A({"ret"}) \/ A({"en", "st", "wake", "waiters"}) \/ A({"st", "over"})
          \/ A({"en", "st"}) \/ A({})
          \/ /\ o.k \in {"wait", "timedwait", "sleep"} /\ f.pend = [e.pend EXCEPT ![t] = o]
             /\ B({"en", "st", "locked", "waiters", "pend"}) \/ B({"pend", "en"})
      BY DEF Effect, WaitEffect
    <2> QED BY <2>1
  <1> QED BY <1>1, <1>2, <1>3

\* The same of a step as a whole.
LEMMA StepOthers ==
  ASSUME IsState(ex), NEW t \in Threads, NEW W, NEW d, IsState(d), NEW m, Stepped(t, W, d, m)
  PROVE  /\ \A u \in Threads \ {t} : ex'.pend[u] = ex.pend[u] /\ ex'.last[u] = ex.last[u]
         /\ ex'.last[t].k = ex.last[t].k
         /\ ex'.todo = ex.todo
         /\ m.k = ex.pend[t].k /\ m.x = ex.pend[t].x /\ m.y = ex.pend[t].y
         /\ m \in Ops
  <1>1. /\ Prepared(t, W, d) /\ Marked(ex.pend[t], m)
        /\ \/ Same(d, ex', {"pend"}) /\ ex'.pend = [d.pend EXCEPT ![t] = m]
           \/ \E f : Effect(d, t, m, f) /\ Ended(t, m, d, f, ex')
    BY DEF Stepped
  <1>2. ex.pend \in [Threads -> Ops] /\ ex.last \in [Threads -> Ops]
    BY DEF IsState
  <1>3. m \in Ops /\ m.k = ex.pend[t].k /\ m.x = ex.pend[t].x /\ m.y = ex.pend[t].y
    BY <1>1, <1>2 DEF Marked, Ops
  <1>4. Same(ex, d, {"pend", "en", "wake", "ret", "waiters", "instr", "p", "extjob"})
    BY <1>1 DEF Prepared
  <1>5. d.todo = ex.todo /\ d.last = ex.last
    BY <1>4, SameFields
  <1>6. \A u \in Threads \ {t} : d.pend[u] = ex.pend[u]
    BY <1>1, <1>2 DEF Prepared
  <1>7. CASE Same(d, ex', {"pend"}) /\ ex'.pend = [d.pend EXCEPT ![t] = m]
    <2>1. Same(d, ex', {"pend"})
      BY <1>7
    <2>2. ex'.todo = d.todo /\ ex'.last = d.last
      BY <2>1, SameFields
    <2>3. \A u \in Threads \ {t} : ex'.pend[u] = d.pend[u]
      BY <1>7 DEF IsState
    <2> QED BY <1>3, <1>5, <1>6, <2>2, <2>3
  <1>8. ASSUME NEW f, Effect(d, t, m, f), Ended(t, m, d, f, ex')
        PROVE  /\ \A u \in Threads \ {t} : ex'.pend[u] = ex.pend[u] /\ ex'.last[u] = ex.last[u]
               /\ ex'.last[t].k = ex.last[t].k
               /\ ex'.todo = ex.todo
    <2>1. f.todo = d.todo /\ f.last = d.last /\ \A u \in Threads \ {t} : f.pend[u] = d.pend[u]
      BY <1>8, EffectOthers
    <2>2. Same(f, ex', {"extjob", "last", "en", "bug"})
      BY <1>8 DEF Ended
    <2>3. ex'.todo = f.todo /\ ex'.pend = f.pend
      BY <2>2, SameFields
    <2>4. ex'.last = [f.last EXCEPT ![t] = [f.last[t] EXCEPT !.ext = Unmarked(d, m).ext]]
      BY <1>8 DEF Ended
    <2>5. /\ \A u \in Threads \ {t} : ex'.last[u] = ex.last[u]
          /\ ex'.last[t] = [ex.last[t] EXCEPT !.ext = Unmarked(d, m).ext]
      BY <1>2, <1>5, <2>1, <2>4
    <2>6. ex.last[t] \in Ops
      BY <1>2
    <2>7. ex'.last[t].k = ex.last[t].k
      BY <2>5, <2>6 DEF Ops
    <2> QED BY <1>5, <1>6, <2>1, <2>3, <2>5, <2>7
  <1> QED BY <1>1, <1>3, <1>7, <1>8

\* Only a thread's own step completes an operation of it.
LEMMA CompletesIs ==
  ASSUME TypeInv, [Next]_vars, NEW t \in Threads, Completes(t)
  PROVE  TakeStep(t)
  <1>1. /\ IsState(ex) /\ Good(ex) /\ prog \in Programs /\ PrioInv
        /\ ex.pend \in [Threads -> Ops] /\ DOMAIN ex = Fields
        /\ ex.en \in [Threads -> {Disabled, Enabled, SleepSet}] /\ ex.wake \in [Threads -> BOOLEAN]
    BY DEF TypeInv, PrioInv, IsState, Good
  <1>2. /\ mode = "choose" /\ HasPending(ex, t) /\ ~HasPending(ex', t) /\ ~ex.wake[t] /\ ex.en[t] # SleepSet
    BY DEF Completes
  <1>3. ex'.pend[t] # ex.pend[t]
    BY <1>2 DEF HasPending
  <1>4. CASE NothingToRun
    <2>1. ex' = ex \/ ex' = [ex EXCEPT !.bug = "deadlock"]
      BY <1>4 DEF NothingToRun, Reported
    <2>2. ex'.pend = ex.pend
      BY <1>1, <2>1 DEF Fields
    <2> QED BY <1>3, <2>2
  <1>5. ASSUME NEW u \in Threads, ResumeWoken(u) PROVE FALSE
    <2>1. PICK pick \in Picks : /\ pick[1] = u /\ pick[2].wake[u]
                                /\ ex' = [pick[2] EXCEPT !.wake[u] = FALSE, !.pend[u] = None]
      BY <1>5 DEF ResumeWoken
    <2>2. \/ pick[2] = ex
          \/ ex.en[u] = SleepSet /\ pick[2] = [ex EXCEPT !.en[u] = Enabled, !.wake[u] = TRUE]
      <3>1. pick[1] \in SleepingSet(ex.en) => ex.en[u] = SleepSet
        BY <2>1 DEF SleepingSet
      <3>2. \/ pick[2] = ex
            \/ /\ pick[1] \in SleepingSet(ex.en)
               /\ pick[2] = [ex EXCEPT !.en[pick[1]] = Enabled, !.wake[pick[1]] = TRUE]
        BY PickFrom
      <3> QED BY <2>1, <3>1, <3>2
    <2>3. pick[2].pend = ex.pend /\ DOMAIN pick[2] = Fields
      BY <1>1, <2>2 DEF Fields
    <2>4. ex'.pend = [ex.pend EXCEPT ![u] = None]
      BY <2>1, <2>3 DEF Fields
    <2>5. u = t
      BY <1>1, <1>3, <2>4
    <2> QED BY <1>2, <2>1, <2>2, <2>5
  <1>6. ASSUME NEW u \in Threads, u # t, TakeStep(u) PROVE FALSE
    <2>1. PICK W, d, m : Stepped(u, W, d, m) /\ IsState(d)
      BY <1>1, <1>6, StepIs
    <2> QED BY <1>1, <1>3, <1>6, <2>1, StepOthers
  <1>7. ASSUME StopAsserted \/ StepOfNobody \/ Over \/ UNCHANGED vars PROVE FALSE
    <2>1. ex' = ex
      BY <1>7 DEF StopAsserted, StepOfNobody, Over, vars
    <2> QED BY <1>3, <2>1
  <1>8. ASSUME RunThread \/ FreeThread \/ BlockThread \/ PassThread \/ EndScan \/ FinishExecution PROVE FALSE
    BY <1>2, <1>8 DEF RunThread, FreeThread, BlockThread, PassThread, EndScan, FinishExecution, Scanning
  <1> QED BY <1>3, <1>4, <1>5, <1>6, <1>7, <1>8 DEF Next

\* getNextThread looks at threads of the execution.
LEMMA ScanExists == ASSUME TypeInv, Scanning PROVE scan \in Threads /\ scan \in Live /\ mode = "scan"
  <1>1. /\ scan \in 1 .. MaxThreads + 1 /\ prog \in Programs
        /\ ex.num \in Nat \ {0} /\ ex.num + Cardinality(Coming(ex)) <= MaxThreads
    BY DEF TypeInv, PrioInv, Good, IsState
  <1>2. Cardinality(Coming(ex)) \in Nat
    BY <1>1, ComingFinite
  <1>3. scan <= ex.num /\ mode = "scan"
    BY DEF Scanning
  <1> QED BY <1>1, <1>2, <1>3, PctParams DEF Threads, Live

\* Where a choice comes from depends on the priorities, on which threads are
\* enabled, and on what the thread did and has pending.
LEMMA SettlesKept ==
  ASSUME NEW e, NEW f, NEW t, Settles(e, t), f.p = e.p, f.en = e.en,
         f.pend[t] = e.pend[t], f.last[t].k = e.last[t].k
  PROVE  Settles(f, t)
  BY DEF Settles, HasPending

\* A thread that runs up to its next operation stays a good choice.
LEMMA RunSettles ==
  ASSUME prog \in Programs, IsState(ex), NEW s \in Threads, ~HasPending(ex, s),
         ex.last[s].k \notin {"finish", "exit"}, NEW f, f = UserRuns(ex, s),
         NEW t \in Threads, Settles(ex, t)
  PROVE  Settles(f, t)
  <1>1. PICK o, r : UserStep(ex, f, s, o, r)
    BY UserIs
  <1>2. /\ MayIssue(s, o, ex.todo[s], r)
        /\ o.k = "rmw" <=> ex.last[s].k = "rmwr"
        /\ ex.last[s].k = "none" => o = Start
        /\ Same(ex, f, {"todo", "last", "pend", "st", "bug", "futex", "locked", "waiters", "flag"})
        /\ f.last = [ex.last EXCEPT ![s] = Resolve(ex, s, o)]
        /\ f.pend = IF o.k = "assert" THEN ex.pend ELSE [ex.pend EXCEPT ![s] = Resolve(ex, s, o)]
    BY <1>1 DEF UserStep
  <1>3. Same(ex, f, {"todo", "last", "pend", "st", "bug", "futex", "locked", "waiters", "flag"})
    BY <1>2
  <1>4. f.p = ex.p /\ f.en = ex.en
    BY <1>3, SameFields
  <1>5. ex.pend \in [Threads -> Ops] /\ ex.last \in [Threads -> Ops]
    BY DEF IsState
  <1>6. CASE t # s
    <2>1. f.pend[t] = ex.pend[t] /\ f.last[t] = ex.last[t]
      BY <1>2, <1>5, <1>6
    <2> QED BY <1>4, <2>1, SettlesKept
  <1>7. CASE t = s /\ t = HighestThread(ex.p, ex.en)
    BY <1>4, <1>7 DEF Settles
  <1>8. CASE t = s /\ ex.last[s].k \in {"none", "rmwr"}
    <2>1. o.k \in {"start", "rmw"}
      BY <1>2, <1>8 DEF Start, Op
    <2>2. f.pend[t] = o
      BY <1>2, <1>5, <1>8, <2>1 DEF Resolve
    <2> QED BY <2>1, <2>2 DEF Settles, HasPending, IsEarly
  <1> QED BY <1>6, <1>7, <1>8 DEF Settles

\* Putting a thread to sleep leaves the choice of another one alone.
LEMMA SleepSettles ==
  ASSUME IsState(ex), Good(ex), NEW s \in Threads, HasPending(ex, s), ~CheckActionEnabled(ex, s),
         NEW f, f = SleepThread(ex, s), NEW t \in Threads, Settles(ex, t)
  PROVE  Settles(f, t)
  <1>1. /\ f.p = ex.p /\ f.pend = ex.pend /\ f.last = ex.last /\ f.en = [ex.en EXCEPT ![s] = Disabled]
    BY DEF SleepThread, IsState, Fields
  <1>2. /\ IsVectors(ex.p, ex.num) /\ ex.en \in [Threads -> {Disabled, Enabled, SleepSet}] /\ ex.num \in Nat
    BY DEF Good
  <1>3. CASE t # HighestThread(ex.p, ex.en)
    BY <1>1, <1>3 DEF Settles, HasPending
  <1>4. CASE t = s
    <2>1. ex.pend[t].k \in {"lock", "join"}
      BY <1>4 DEF CheckActionEnabled
    <2> QED BY <1>1, <2>1 DEF Settles, HasPending, InCount, IsRead
  <1>5. CASE t # s /\ t = HighestThread(ex.p, ex.en)
    <2>1. DOMAIN ex.en = Threads /\ DOMAIN f.en = Threads
      BY <1>1, <1>2
    <2>2. t \in EnabledSet(ex.en)
      <3>1. t # NoThread
        BY PctParams DEF Threads, NoThread
      <3> QED BY <1>2, <1>5, <2>1, <3>1, HighestIs
    <2>3. EnabledSet(f.en) \subseteq EnabledSet(ex.en) /\ t \in EnabledSet(f.en)
      BY <1>1, <1>2, <1>5, <2>2 DEF EnabledSet, Enabled, Disabled
    <2>4. HighestThread(ex.p, f.en) = t
      BY <1>2, <1>5, <2>1, <2>3, HighestStays
    <2> QED BY <1>1, <2>4 DEF Settles
  <1> QED BY <1>3, <1>4, <1>5

\* What action_select_next_thread chooses.
LEMMA StepSettles ==
  ASSUME prog \in Programs, IsState(ex), PrioInv, NEW t \in Threads, TakeStep(t), chosen' \in Threads
  PROVE  Settles(ex', chosen')
  <1>1. PICK W, d, m : Stepped(t, W, d, m) /\ Good(d) /\ IsState(d)
    BY StepIs
  <1>2. /\ Picked(t) /\ Prepared(t, W, d)
        /\ \/ m.ext /\ InCount(m) /\ chosen' = SelectsNext(ex', t, m)
           \/ /\ \E f : Effect(d, t, m, f) /\ Ended(t, m, d, f, ex')
              /\ chosen' = SelectsNext(ex', t, Unmarked(d, m))
    BY <1>1 DEF Stepped
  <1>3. /\ m \in Ops /\ m.k = ex.pend[t].k /\ ex'.last[t].k = ex.last[t].k
        /\ \A u \in Threads \ {t} : ex'.pend[u] = ex.pend[u] /\ ex'.last[u] = ex.last[u]
    BY <1>1, StepOthers
  <1>4. /\ HasPending(ex, t) /\ t <= ex.num /\ AtPlace(ex, t) /\ ex.num \in Nat \ {0}
        /\ IsState(ex') /\ ex.pend[t].k = ex.last[t].k
    <2>1. HasPending(ex, t) /\ t <= ex.num /\ AtPlace(ex, t) /\ ex.num \in Nat \ {0}
      BY <1>2 DEF Picked, PrioInv, Good, IsState
    <2> QED BY <2>1, StepKeeps DEF AtPlace
  <1>5. PICK o \in Ops :
          /\ o.k = m.k /\ chosen' = SelectsNext(ex', t, o)
          /\ \/ InCount(o) /\ o.ext
             \/ \E f : Effect(d, t, m, f) /\ Ended(t, m, d, f, ex')
    <2>1. Unmarked(d, m) \in Ops /\ Unmarked(d, m).k = m.k
      BY <1>3 DEF Unmarked, Ops
    <2> QED BY <1>2, <1>3, <2>1
  <1>6. CASE InCount(o) /\ o.ext
    <2> DEFINE h == HighestThread(ex'.p, ex'.en)
    <2>1. chosen' = IF h = NoThread THEN 0 ELSE h
      <3>1. o.k # "create"
        BY <1>6 DEF InCount, IsRead
      <3> QED BY <1>5, <1>6, <3>1 DEF SelectsNext
    <2>2. chosen' = h
      BY <2>1, PctParams DEF Threads
    <2> QED BY <2>2 DEF Settles
  <1>7. CASE ~(InCount(o) /\ o.ext) /\ o.k = "rmwr"
    <2>1. chosen' = t
      BY <1>5, <1>7 DEF SelectsNext
    <2>2. PICK f : Effect(d, t, m, f) /\ Ended(t, m, d, f, ex')
      BY <1>5, <1>7
    <2>3. f.pend = d.pend
      <3>1. m.k \notin {"wait", "timedwait", "sleep"} /\ IsState(d)
        BY <1>1, <1>5, <1>7
      <3> QED BY <2>2, <3>1, EffectOthers
    <2>4. Same(f, ex', {"extjob", "last", "en", "bug"})
      BY <2>2 DEF Ended
    <2>5. ex'.pend = d.pend
      BY <2>3, <2>4, SameFields
    <2>6. ex'.pend[t] = None
      BY <1>2, <2>5 DEF Prepared, IsState
    <2>7. ex'.last[t].k = "rmwr"
      BY <1>3, <1>4, <1>5, <1>7
    <2> QED BY <2>1, <2>6, <2>7 DEF Settles, HasPending, None, Op
  <1>8. CASE ~(InCount(o) /\ o.ext) /\ o.k = "create"
    <2>1. chosen' = ex'.num
      BY <1>5, <1>8 DEF SelectsNext
    <2>2. PICK f : Effect(d, t, m, f) /\ Ended(t, m, d, f, ex')
      BY <1>5, <1>8
    <2>3. f.num = d.num + 1
      BY <1>5, <1>8, <2>2 DEF Effect
    <2>4. Same(f, ex', {"extjob", "last", "en", "bug"})
      BY <2>2 DEF Ended
    <2>5. Same(ex, d, {"pend", "en", "wake", "ret", "waiters", "instr", "p", "extjob"})
      BY <1>2 DEF Prepared
    <2>6. ex'.num = f.num
      BY <2>4, SameFields
    <2>7. d.num = ex.num
      BY <2>5, SameFields
    <2>8. chosen' # t /\ chosen' > ex.num
      BY <1>4, <2>1, <2>3, <2>6, <2>7 DEF Threads
    <2>9. AtPlace(ex, chosen')
      BY DEF IsState
    <2>10. ex.last[chosen'].k = "none" /\ ex.pend[chosen'].k = "none"
      BY <2>8, <2>9 DEF AtPlace, HasPending
    <2>11. ex'.last[chosen'].k = "none" /\ ex'.pend[chosen'].k = "none"
      BY <1>3, <2>8, <2>10
    <2> QED BY <2>11 DEF Settles, HasPending
  <1>9. CASE ~(InCount(o) /\ o.ext) /\ o.k \notin {"rmwr", "create"}
    <2>1. chosen' = 0
      BY <1>5, <1>9 DEF SelectsNext
    <2> QED BY <2>1 DEF Threads
  <1> QED BY <1>6, <1>7, <1>8, <1>9

\* Every step of the runtime keeps the choice a good one.
LEMMA ChoiceStep == ASSUME TypeInv, ChoiceInv, [Next]_vars PROVE ChoiceInv'
  <1>0. /\ PrioInv /\ Good(ex) /\ prog \in Programs /\ IsState(ex) /\ DOMAIN ex = Fields
        /\ ex.pend \in [Threads -> Ops] /\ ex.last \in [Threads -> Ops]
    BY DEF TypeInv, PrioInv, IsState
  <1>1. SUFFICES ASSUME mode' \in {"scan", "choose"}, chosen' \in Threads PROVE Settles(ex', chosen')
    BY DEF ChoiceInv, Settles, HasPending
  <1>2. ASSUME mode \in {"scan", "choose"}, chosen' = chosen, ex'.p = ex.p, ex'.en = ex.en,
               ex'.pend = ex.pend, ex'.last = ex.last
        PROVE  Settles(ex', chosen')
    <2>1. Settles(ex, chosen)
      BY <1>1, <1>2 DEF ChoiceInv
    <2> QED BY <1>2, <2>1, SettlesKept
  <1>3. ASSUME Scanning PROVE scan \in Threads
    BY <1>0, <1>3, ScanExists
  <1>4. CASE RunThread
    <2>1. /\ Scanning /\ chosen' = chosen /\ mode = "scan" /\ ~HasPending(ex, scan)
          /\ \/ mode' = "crash"
             \/ ex.last[scan].k \notin {"finish", "exit"} /\ ex' = UserRuns(ex, scan)
      BY <1>4 DEF RunThread, Scanning
    <2>2. Settles(ex, chosen)
      BY <1>1, <2>1 DEF ChoiceInv
    <2> QED BY <1>0, <1>1, <1>3, <2>1, <2>2, RunSettles
  <1>5. CASE FreeThread
    <2>1. mode = "scan" /\ chosen' = chosen /\ ex' \in {ex, [ex EXCEPT !.st[scan] = "freed"]}
      BY <1>5 DEF FreeThread, Scanning
    <2>2. ex'.p = ex.p /\ ex'.en = ex.en /\ ex'.pend = ex.pend /\ ex'.last = ex.last
      BY <1>0, <2>1 DEF Fields
    <2> QED BY <1>2, <2>1, <2>2
  <1>6. CASE BlockThread
    <2>1. /\ Scanning /\ mode = "scan" /\ chosen' = chosen /\ HasPending(ex, scan)
          /\ ~CheckActionEnabled(ex, scan) /\ ex' = SleepThread(ex, scan)
      BY <1>6 DEF BlockThread, Scanning
    <2>2. Settles(ex, chosen)
      BY <1>1, <2>1 DEF ChoiceInv
    <2> QED BY <1>0, <1>1, <1>3, <2>1, <2>2, SleepSettles
  <1>7. CASE PassThread
    <2>1. /\ mode = "scan" /\ ex' = ex /\ HasPending(ex, scan)
          /\ chosen' = chosen \/ (chosen' = scan /\ IsEarly(ex.pend[scan]))
      BY <1>7 DEF PassThread, Scanning
    <2>2. CASE chosen' = chosen
      BY <1>2, <2>1, <2>2
    <2>3. CASE chosen' = scan /\ IsEarly(ex.pend[scan])
      BY <2>1, <2>3 DEF Settles
    <2> QED BY <2>1, <2>2, <2>3
  <1>8. CASE EndScan
    <2>1. mode = "scan" /\ ex' = ex /\ chosen' = chosen
      BY <1>8 DEF EndScan
    <2> QED BY <1>2, <2>1
  <1>9. CASE StopAsserted \/ NothingToRun \/ StepOfNobody
    BY <1>1, <1>9 DEF StopAsserted, NothingToRun, StepOfNobody
  <1>10. ASSUME NEW t \in Threads, ResumeWoken(t) PROVE FALSE
    <2>1. chosen' = 0
      BY <1>10 DEF ResumeWoken
    <2> QED BY <1>1, <2>1 DEF Threads
  <1>11. ASSUME NEW t \in Threads, TakeStep(t) PROVE Settles(ex', chosen')
    BY <1>0, <1>1, <1>11, StepSettles
  <1>12. CASE FinishExecution
    <2>1. ex' = Initial(MainSlot, prog)
      BY <1>1, <1>12 DEF FinishExecution
    <2>2. ex'.last = [u \in Threads |-> None] /\ ex'.pend = [u \in Threads |-> None]
      BY <2>1 DEF Initial
    <2>3. ex'.last[chosen'].k = "none" /\ ex'.pend[chosen'].k = "none"
      BY <1>1, <2>2 DEF None, Op
    <2> QED BY <2>3 DEF Settles, HasPending
  <1>13. CASE Over \/ UNCHANGED vars
    <2>1. ex' = ex /\ mode' = mode /\ chosen' = chosen
      BY <1>13 DEF Over, vars
    <2> QED BY <1>1, <1>2, <2>1
  <1> QED BY <1>4, <1>5, <1>6, <1>7, <1>8, <1>9, <1>10, <1>11, <1>12, <1>13 DEF Next

\* Random draws, early operations and the second part of a read-modify-write
\* aside, a counted operation is executed by the enabled thread of highest
\* priority: this is the PCT schedule, and the demotions of the change points
\* and the threads chosen for the next turn without a look at the vectors
\* do not break it.
THEOREM PctHighest == Spec => HighestRuns
  <1>1. Init => TypeInv
    BY InitialTypes
  <1>2. TypeInv /\ [Next]_vars => TypeInv'
    BY TypesStep
  <1>3. Init => ChoiceInv
    BY DEF Init, ChoiceInv, Threads
  <1>4. TypeInv /\ ChoiceInv /\ [Next]_vars => ChoiceInv'
    BY ChoiceStep
  <1> DEFINE Highest == \A t \in Threads :
       Completes(t) /\ InCount(ex.pend[t]) /\ ~IsEarly(ex.pend[t]) /\ ex.pend[t].k # "rmw"
         /\ ~DrawAtRandom(ex.instr)
       => t = HighestThread(ex.p, ex.en)
  <1>5. TypeInv /\ ChoiceInv /\ [Next]_vars => Highest
    <2> SUFFICES ASSUME TypeInv, ChoiceInv, [Next]_vars, NEW t \in Threads, Completes(t),
                        InCount(ex.pend[t]), ~IsEarly(ex.pend[t]), ex.pend[t].k # "rmw",
                        ~DrawAtRandom(ex.instr)
                 PROVE  t = HighestThread(ex.p, ex.en)
      OBVIOUS
    <2>1. prog \in Programs /\ IsState(ex) /\ PrioInv /\ Good(ex)
      BY DEF TypeInv, PrioInv
    <2>2. TakeStep(t)
      BY CompletesIs
    <2>3. \E W, d, m : Stepped(t, W, d, m)
      BY <2>1, <2>2, StepIs
    <2>4. Picked(t)
      BY <2>3 DEF Stepped
    <2>5. CASE chosen = t
      <3>1. Settles(ex, t) /\ HasPending(ex, t)
        BY <2>4, <2>5 DEF Picked, ChoiceInv
      <3> QED BY <3>1 DEF Settles
    <2>6. CASE ex.en[t] = Enabled /\ t = FindHighest(ex.p, EnabledSet(ex.en))
      <3>1. IsVectors(ex.p, ex.num) /\ DOMAIN ex.en = Threads /\ ex.num \in Nat
        BY <2>1 DEF Good
      <3>2. t \in EnabledSet(ex.en)
        BY <2>6, <3>1 DEF EnabledSet
      <3> QED BY <2>6, <3>1, <3>2, FoundIsHighest
    <2> QED BY <2>4, <2>5, <2>6 DEF Picked
  <1>6. TypeInv /\ ChoiceInv /\ [Next]_vars => [Highest]_vars
    BY <1>5
  <1> QED BY <1>1, <1>2, <1>3, <1>4, <1>6, PTL DEF Spec, HighestRuns

-----------------------------------------------------------------------------
(* Which operations are executed and which threads are blocked.            *)

\* The operations that are not always executable.
Blocking == {"lock", "join"}

\* A thread that is chosen before it has come to its next operation (again, for
\* the mark on the operation it has just executed) comes to one that can be
\* executed: getNextThread puts it to sleep if not, but it is given the step.
ChosenComes == RunThread /\ scan = chosen => CheckActionEnabled(ex', scan)
ChosenCanGo == [][ChosenComes]_vars

\* A completed thread has come to its end and has nothing to execute.
CompleteIs(e, t) == IsComplete(e, t) => ~HasPending(e, t) /\ e.last[t].k \in {"finish", "exit"}

\* A sleeping thread waits, or sleeps, and is not marked woken.
SleepIs(e, t) ==
  e.en[t] = SleepSet => e.pend[t].k \in {"wait", "timedwait", "sleep"} /\ ~e.wake[t]

\* A thread getNextThread has looked at has an operation, unless it is over,
\* and is disabled when the operation cannot be executed.
LookedAt(e, t) ==
  /\ HasPending(e, t) \/ e.last[t].k \in {"finish", "exit"}
  /\ HasPending(e, t) /\ e.en[t] # Disabled => CheckActionEnabled(e, t)

\* The thread chosen can execute its operation.
ChosenIs(e, t) == e.en[t] # SleepSet /\ CheckActionEnabled(e, t)

LookInv ==
  /\ \A t \in Threads : CompleteIs(ex, t) /\ SleepIs(ex, t)
  /\ mode = "scan" => \A t \in Live : t < scan => LookedAt(ex, t)
  /\ mode = "choose" => \A t \in Live : LookedAt(ex, t)
  /\ mode \in {"scan", "choose"} /\ chosen \in Threads => ChosenIs(ex, chosen)

----------------------------------------------------------------------------
(* What keeps a thread as it is.                                           *)

\* The threads of the execution.
LEMMA LiveThreads == ASSUME TypeInv PROVE Live \subseteq Threads /\ ex.num \in Threads
  <1>1. ex.num \in Nat \ {0} /\ ex.num + Cardinality(Coming(ex)) <= MaxThreads /\ prog \in Programs
    BY DEF TypeInv, PrioInv, Good, IsState
  <1>2. Cardinality(Coming(ex)) \in Nat
    BY <1>1, ComingFinite
  <1> QED BY <1>1, <1>2, PctParams DEF Live, Threads

\* An operation stays executable when mutexes are only freed and no completed
\* thread goes on.
LEMMA CheckKept ==
  ASSUME NEW e, IsState(e), NEW f, NEW u \in Threads, f.pend[u] = e.pend[u],
         \A m \in Places : f.locked[m] \in {e.locked[m], 0},
         \A v \in Threads : IsComplete(e, v) => IsComplete(f, v),
         CheckActionEnabled(e, u)
  PROVE  CheckActionEnabled(f, u)
  <1>1. AtPlace(e, u)
    BY DEF IsState
  <1>2. CASE e.pend[u].k = "lock"
    <2>1. e.pend[u].x = e.last[u].x /\ e.last[u].k = "lock" /\ FitsThread(u, e.last[u])
      BY <1>1, <1>2 DEF AtPlace, HasPending
    <2>2. e.pend[u].x \in Places
      BY <2>1 DEF FitsThread, Places
    <2> QED BY <1>2, <2>2 DEF CheckActionEnabled
  <1>3. CASE e.pend[u].k = "join"
    <2>1. e.pend[u].x = e.last[u].x /\ e.last[u].k = "join" /\ FitsThread(u, e.last[u])
      BY <1>1, <1>3 DEF AtPlace, HasPending
    <2>2. e.pend[u].x \in Threads
      BY <2>1 DEF FitsThread
    <2> QED BY <1>3, <2>2 DEF CheckActionEnabled
  <1>4. CASE e.pend[u].k \notin {"lock", "join"}
    BY <1>4 DEF CheckActionEnabled
  <1> QED BY <1>2, <1>3, <1>4

\* A thread looked at stays so when it keeps its operation, is not disabled
\* newly, no lock is taken and no thread resurrected.
LEMMA LookKept ==
  ASSUME NEW e, IsState(e), NEW f, NEW u \in Threads, LookedAt(e, u),
         f.pend[u] = e.pend[u], f.last[u].k = e.last[u].k,
         f.en[u] # Disabled => e.en[u] # Disabled,
         \A m \in Places : f.locked[m] \in {e.locked[m], 0},
         \A v \in Threads : IsComplete(e, v) => IsComplete(f, v)
  PROVE  LookedAt(f, u)
  <1>1. CheckActionEnabled(e, u) => CheckActionEnabled(f, u)
    BY CheckKept
  <1> QED BY <1>1 DEF LookedAt, HasPending

\* So does what getNextThread has chosen.
LEMMA ChosenKept ==
  ASSUME NEW e, IsState(e), NEW f, NEW u \in Threads, ChosenIs(e, u),
         f.pend[u] = e.pend[u], f.last[u].k = e.last[u].k,
         f.en[u] # SleepSet,
         \A m \in Places : f.locked[m] \in {e.locked[m], 0},
         \A v \in Threads : IsComplete(e, v) => IsComplete(f, v)
  PROVE  ChosenIs(f, u)
  <1>1. CheckActionEnabled(e, u) => CheckActionEnabled(f, u)
    BY CheckKept
  <1> QED BY <1>1 DEF ChosenIs, HasPending

\* Executing a counted operation changes at most what it returns.
LEMMA CountedChanges ==
  ASSUME NEW e, NEW t, NEW o, InCount(o), NEW f, Effect(e, t, o, f)
  PROVE  Same(e, f, {"ret"})
  <1>1. o.k \in {"read", "spin", "rmwr", "rmw", "relstore", "scstore", "fence"}
    BY DEF InCount, IsRead
  <1>2. Same(e, f, {"ret"}) \/ Same(e, f, {})
    BY <1>1 DEF Effect
  <1> QED BY <1>2 DEF Same

\* Threads start to sleep, and complete, by an operation of their own only.
LEMMA EffectSleeps ==
  ASSUME NEW e, IsState(e), Good(e), NEW t \in Threads, NEW o, NEW f, Effect(e, t, o, f)
  PROVE  /\ \A u \in Threads \ {t} :
              f.en[u] = SleepSet => /\ e.en[u] = SleepSet
                                    /\ f.wake[u] => e.wake[u] \/ IsComplete(e, u)
         /\ f.en[t] = SleepSet => \/ e.en[t] = SleepSet
                                  \/ /\ o.k \in {"wait", "timedwait", "sleep"}
                                     /\ f.pend[t] = o /\ f.wake[t] = e.wake[t]
         /\ \A u \in Threads : IsComplete(f, u) => IsComplete(e, u) \/ (u = t /\ o.k \in {"finish", "exit"})
  <1> DEFINE Goal == /\ \A u \in Threads \ {t} :
                          f.en[u] = SleepSet => /\ e.en[u] = SleepSet
                                                /\ f.wake[u] => e.wake[u] \/ IsComplete(e, u)
                     /\ f.en[t] = SleepSet => \/ e.en[t] = SleepSet
                                              \/ /\ o.k \in {"wait", "timedwait", "sleep"}
                                                 /\ f.pend[t] = o /\ f.wake[t] = e.wake[t]
                     /\ \A u \in Threads : IsComplete(f, u) =>
                          IsComplete(e, u) \/ (u = t /\ o.k \in {"finish", "exit"})
  <1> SUFFICES Goal
    OBVIOUS
  <1>0. /\ e.en \in [Threads -> {Disabled, Enabled, SleepSet}] /\ e.wake \in [Threads -> BOOLEAN]
        /\ e.st \in [Threads -> {"created", "ready", "blocked", "completed", "freed"}]
        /\ e.pend \in [Threads -> Ops] /\ Enabled # SleepSet /\ Disabled # SleepSet
        /\ \A u \in Threads : u > e.num => e.en[u] = Disabled
    BY DEF IsState, Good, Enabled, Disabled, SleepSet
  <1>1. ASSUME NEW F, Same(e, f, F), {"en", "wake", "st"} \cap F = {} PROVE Goal
    <2>1. f.en = e.en /\ f.wake = e.wake /\ f.st = e.st
      BY <1>1, SameFields
    <2> QED BY <2>1 DEF IsComplete
  <1>2. CASE o.k = "create" /\ Same(e, f, {"num", "en", "p"}) /\ f.en = [e.en EXCEPT ![e.num + 1] = Enabled]
    <2>1. Same(e, f, {"num", "en", "p"})
      BY <1>2
    <2>2. f.wake = e.wake /\ f.st = e.st
      BY <2>1, SameFields
    <2>3. \A u \in Threads : f.en[u] = SleepSet => e.en[u] = SleepSet
      BY <1>0, <1>2
    <2> QED BY <2>2, <2>3 DEF IsComplete
  <1>3. CASE /\ Same(e, f, {"en", "st", "locked"})
             /\ f.en = Set(e.en, LockWaiters(e, t), Enabled) /\ f.st = Set(e.st, LockWaiters(e, t), "ready")
    <2>1. Same(e, f, {"en", "st", "locked"})
      BY <1>3
    <2>2. f.wake = e.wake
      BY <2>1, SameFields
    <2>3. \A u \in Threads : /\ f.en[u] = SleepSet => e.en[u] = SleepSet
                             /\ f.st[u] \in {e.st[u], "ready"}
      BY <1>0, <1>3 DEF Set
    <2> QED BY <2>2, <2>3 DEF IsComplete
  <1>4. CASE /\ o.k \in {"wait", "timedwait"} /\ Same(e, f, {"en", "st", "locked", "waiters", "pend"})
             /\ f.pend = [e.pend EXCEPT ![t] = o]
             /\ \/ /\ f.en = [Set(e.en, LockWaiters(e, t), Enabled) EXCEPT ![t] = Disabled]
                   /\ f.st = [Set(e.st, LockWaiters(e, t), "ready") EXCEPT ![t] = "blocked"]
                \/ /\ f.en = [Set(e.en, LockWaiters(e, t), Enabled) EXCEPT ![t] = SleepSet]
                   /\ f.st = Set(e.st, LockWaiters(e, t), "ready")
    <2>1. Same(e, f, {"en", "st", "locked", "waiters", "pend"})
      BY <1>4
    <2>2. f.wake = e.wake
      BY <2>1, SameFields
    <2>3. \A u \in Threads : /\ f.en[u] = SleepSet /\ u # t => e.en[u] = SleepSet
                             /\ f.st[u] \in {e.st[u], "ready", "blocked"}
      BY <1>0, <1>4 DEF Set
    <2>4. f.pend[t] = o
      BY <1>0, <1>4
    <2> QED BY <1>4, <2>2, <2>3, <2>4 DEF IsComplete
  <1>5. ASSUME Same(e, f, {"en", "st", "wake", "waiters"}), NEW W, NotifyEffect(e, W, f) PROVE Goal
    <2> DEFINE V == {u \in 1 .. e.num : u \in W /\ e.st[u] # "completed"}
    <2>1. /\ f.en = Set(e.en, V, Enabled) /\ f.st = Set(e.st, V, "ready")
          /\ f.wake = [u \in Threads |-> u \in W \/ e.wake[u]]
      BY <1>5 DEF NotifyEffect
    <2>2. ASSUME NEW u \in Threads, f.en[u] = SleepSet
          PROVE  /\ e.en[u] = SleepSet
                 /\ f.wake[u] => e.wake[u] \/ IsComplete(e, u)
      <3>1. u \notin V /\ e.en[u] = SleepSet
        BY <1>0, <2>1, <2>2 DEF Set
      <3>2. u \in 1 .. e.num
        <4>1. ~(u > e.num) /\ u \in 1 .. MaxThreads /\ e.num \in Nat
          BY <1>0, <3>1 DEF Good, Threads
        <4> QED BY <4>1, PctParams
      <3>3. u \in W => IsComplete(e, u)
        BY <3>1, <3>2 DEF IsComplete
      <3> QED BY <2>1, <3>1, <3>3
    <2>3. \A u \in Threads : f.st[u] \in {e.st[u], "ready"}
      BY <1>0, <2>1 DEF Set
    <2> HIDE DEF V
    <2> QED BY <2>2, <2>3 DEF IsComplete
  <1>6. CASE /\ o.k = "sleep" /\ Same(e, f, {"pend", "en"})
             /\ f.pend = [e.pend EXCEPT ![t] = o] /\ f.en = [e.en EXCEPT ![t] = SleepSet]
    <2>1. Same(e, f, {"pend", "en"})
      BY <1>6
    <2>2. f.wake = e.wake /\ f.st = e.st
      BY <2>1, SameFields
    <2>3. f.pend[t] = o /\ \A u \in Threads \ {t} : f.en[u] = e.en[u]
      BY <1>0, <1>6
    <2> QED BY <1>6, <2>2, <2>3 DEF IsComplete
  <1>7. CASE o.k = "finish" /\ t = 1 /\ Same(e, f, {"st", "over"}) /\ f.st = [e.st EXCEPT ![t] = "completed"]
    <2>1. Same(e, f, {"st", "over"})
      BY <1>7
    <2>2. f.wake = e.wake /\ f.en = e.en
      BY <2>1, SameFields
    <2>3. \A u \in Threads \ {t} : f.st[u] = e.st[u]
      BY <1>0, <1>7
    <2> QED BY <1>7, <2>2, <2>3 DEF IsComplete
  <1>8. CASE /\ o.k = "exit" \/ (o.k = "finish" /\ t # 1)
             /\ Same(e, f, {"en", "st"})
             /\ f.en = Set(e.en, JoinWaiters(e, t), Enabled)
             /\ f.st = [Set(e.st, JoinWaiters(e, t), "ready") EXCEPT ![t] = "completed"]
    <2>1. Same(e, f, {"en", "st"})
      BY <1>8
    <2>2. f.wake = e.wake
      BY <2>1, SameFields
    <2>3. \A u \in Threads : /\ f.en[u] = SleepSet => e.en[u] = SleepSet
                             /\ u # t => f.st[u] \in {e.st[u], "ready"}
      BY <1>0, <1>8 DEF Set
    <2> QED BY <1>8, <2>2, <2>3 DEF IsComplete
  <1> HIDE DEF Goal
  <1>9. Same(e, f, {"locked"}) \/ Same(e, f, {"locked", "ret"}) \/ Same(e, f, {"ret"}) \/ Same(e, f, {}) => Goal
    BY <1>1
  <1>10. CASE o.k = "create"
    BY <1>2, <1>10 DEF Effect
  <1>11. CASE o.k \in {"lock", "trylock"}
    <2>1. Same(e, f, {"locked"}) \/ Same(e, f, {"locked", "ret"})
      BY <1>11 DEF Effect
    <2> QED BY <1>9, <2>1
  <1>12. CASE o.k = "unlock"
    BY <1>3, <1>12 DEF Effect
  <1>13. CASE o.k \in {"wait", "timedwait"}
    <2>1. \/ Same(e, f, {"ret"})
          \/ /\ Same(e, f, {"en", "st", "locked", "waiters", "pend"})
             /\ f.pend = [e.pend EXCEPT ![t] = o]
             /\ \/ /\ f.en = [Set(e.en, LockWaiters(e, t), Enabled) EXCEPT ![t] = Disabled]
                   /\ f.st = [Set(e.st, LockWaiters(e, t), "ready") EXCEPT ![t] = "blocked"]
                \/ /\ f.en = [Set(e.en, LockWaiters(e, t), Enabled) EXCEPT ![t] = SleepSet]
                   /\ f.st = Set(e.st, LockWaiters(e, t), "ready")
      BY <1>13 DEF Effect, WaitEffect
    <2> QED BY <1>4, <1>9, <1>13, <2>1
  <1>14. CASE o.k \in {"notify_all", "notify_one"}
    <2>1. \/ Same(e, f, {})
          \/ Same(e, f, {"en", "st", "wake", "waiters"}) /\ \E W : NotifyEffect(e, W, f)
      BY <1>14 DEF Effect
    <2> QED BY <1>5, <1>9, <2>1
  <1>15. CASE o.k = "sleep"
    BY <1>6, <1>15 DEF Effect
  <1>16. CASE o.k \in {"finish", "exit"}
    BY <1>7, <1>8, <1>16 DEF Effect
  <1>17. CASE o.k \notin {"create", "lock", "trylock", "unlock", "wait", "timedwait", "notify_all",
                         "notify_one", "sleep", "finish", "exit"}
    <2>1. Same(e, f, {"ret"}) \/ Same(e, f, {})
      BY <1>17 DEF Effect
    <2> QED BY <1>9, <2>1
  <1> QED BY <1>10, <1>11, <1>12, <1>13, <1>14, <1>15, <1>16, <1>17

----------------------------------------------------------------------------
(* The steps.                                                              *)

\* A stretch of user code is about its own thread.
LEMMA UserChanges ==
  ASSUME IsState(ex), NEW s \in Threads, ~IsComplete(ex, s), NEW o, NEW r, NEW f, UserStep(ex, f, s, o, r)
  PROVE  /\ \A u \in Threads \ {s} :
              f.pend[u] = ex.pend[u] /\ f.last[u] = ex.last[u] /\ f.st[u] = ex.st[u]
         /\ f.en = ex.en /\ f.wake = ex.wake /\ f.num = ex.num /\ f.st[s] = "ready"
         /\ f.last[s] = Resolve(ex, s, o)
         /\ o.k # "assert" => f.pend[s] = Resolve(ex, s, o)
         /\ \A m \in Places : f.locked[m] \in {ex.locked[m], 0}
         /\ \A v \in Threads : IsComplete(ex, v) => IsComplete(f, v)
  <1>1. /\ Same(ex, f, {"todo", "last", "pend", "st", "bug", "futex", "locked", "waiters", "flag"})
        /\ f.last = [ex.last EXCEPT ![s] = Resolve(ex, s, o)]
        /\ f.pend = IF o.k = "assert" THEN ex.pend ELSE [ex.pend EXCEPT ![s] = Resolve(ex, s, o)]
        /\ f.st = [ex.st EXCEPT ![s] = "ready"]
        /\ f.locked \in {ex.locked, [ex.locked EXCEPT ![s] = 0]}
    BY DEF UserStep
  <1>2. Same(ex, f, {"todo", "last", "pend", "st", "bug", "futex", "locked", "waiters", "flag"})
    BY <1>1
  <1>3. f.en = ex.en /\ f.wake = ex.wake /\ f.num = ex.num
    BY <1>2, SameFields
  <1>4. /\ ex.pend \in [Threads -> Ops] /\ ex.last \in [Threads -> Ops] /\ DOMAIN ex.st = Threads
        /\ DOMAIN ex.locked = Places
    BY DEF IsState
  <1>5. \A u \in Threads \ {s} : f.pend[u] = ex.pend[u] /\ f.last[u] = ex.last[u] /\ f.st[u] = ex.st[u]
    BY <1>1, <1>4
  <1>6. /\ f.st[s] = "ready" /\ f.last[s] = Resolve(ex, s, o)
        /\ o.k # "assert" => f.pend[s] = Resolve(ex, s, o)
    BY <1>1, <1>4
  <1>7. \A m \in Places : f.locked[m] \in {ex.locked[m], 0}
    BY <1>1, <1>4
  <1>8. \A v \in Threads : IsComplete(ex, v) => IsComplete(f, v)
    BY <1>5 DEF IsComplete
  <1> QED BY <1>3, <1>5, <1>6, <1>7, <1>8

\* A thread that runs up to its next operation has not been looked at yet.
LEMMA LookRun ==
  ASSUME TypeInv, LookInv, RunThread, ChosenComes
  PROVE  LookInv'
  <1>1. /\ IsState(ex) /\ prog \in Programs /\ scan \in Threads /\ scan \in Live /\ mode = "scan"
    BY ScanExists DEF TypeInv, RunThread
  <1>2. /\ ~IsComplete(ex, scan) /\ ~HasPending(ex, scan)
        /\ UNCHANGED <<chosen, scan>>
        /\ \/ mode' = "crash" /\ ex' = ex
           \/ /\ mode' \in {"hang", "scan"} /\ ex.last[scan].k \notin {"finish", "exit"}
              /\ ex' = UserRuns(ex, scan)
    BY <1>1 DEF RunThread
  <1>3. CASE mode' = "crash" /\ ex' = ex
    BY <1>3 DEF LookInv
  <1>4. CASE /\ mode' \in {"hang", "scan"} /\ ex.last[scan].k \notin {"finish", "exit"}
             /\ ex' = UserRuns(ex, scan)
    <2>1. PICK o, r : UserStep(ex, ex', scan, o, r)
      BY <1>1, <1>4, UserIs
    <2>2. /\ \A u \in Threads \ {scan} :
               ex'.pend[u] = ex.pend[u] /\ ex'.last[u] = ex.last[u] /\ ex'.st[u] = ex.st[u]
          /\ ex'.en = ex.en /\ ex'.wake = ex.wake /\ ex'.num = ex.num /\ ex'.st[scan] = "ready"
          /\ \A m \in Places : ex'.locked[m] \in {ex.locked[m], 0}
          /\ \A v \in Threads : IsComplete(ex, v) => IsComplete(ex', v)
      BY <1>1, <1>2, <2>1, UserChanges
    <2>3. ASSUME NEW u \in Threads PROVE CompleteIs(ex', u) /\ SleepIs(ex', u)
      <3>1. CompleteIs(ex, u) /\ SleepIs(ex, u)
        BY DEF LookInv
      <3>2. CASE u = scan
        <4>1. ~IsComplete(ex', u) /\ ex.en[u] # SleepSet
          BY <1>2, <2>2, <3>1, <3>2 DEF IsComplete, SleepIs, HasPending
        <4> QED BY <2>2, <4>1 DEF CompleteIs, SleepIs
      <3>3. CASE u # scan
        <4>1. ex'.pend[u] = ex.pend[u] /\ ex'.last[u] = ex.last[u] /\ ex'.st[u] = ex.st[u]
          BY <2>2, <3>3
        <4> QED BY <2>2, <3>1, <4>1 DEF CompleteIs, SleepIs, IsComplete, HasPending
      <3> QED BY <3>2, <3>3
    <2>4. ASSUME NEW t \in 1 .. ex'.num, t < scan PROVE LookedAt(ex', t)
      <3>1. t \in Live /\ t # scan
        BY <1>1, <2>2, <2>4 DEF Live, Threads
      <3>2. t \in Threads
        BY <1>1, <3>1, LiveThreads
      <3>3. LookedAt(ex, t)
        BY <1>1, <2>4, <3>1 DEF LookInv
      <3> QED BY <1>1, <2>2, <3>1, <3>2, <3>3, LookKept
    <2>5. ASSUME chosen \in Threads PROVE ChosenIs(ex', chosen)
      <3>1. ChosenIs(ex, chosen)
        BY <1>1, <2>5 DEF LookInv
      <3>2. ex'.en[chosen] # SleepSet
        BY <2>2, <3>1 DEF ChosenIs
      <3>3. CASE chosen # scan
        BY <1>1, <2>2, <2>5, <3>1, <3>2, <3>3, ChosenKept
      <3>4. CASE chosen = scan
        BY <3>2, <3>4 DEF ChosenIs, ChosenComes
      <3> QED BY <3>3, <3>4
    <2> QED BY <1>2, <1>4, <2>3, <2>4, <2>5 DEF LookInv, Live
  <1> QED BY <1>2, <1>3, <1>4

\* The scan itself.
LEMMA LookScan ==
  ASSUME TypeInv, LookInv, FreeThread \/ BlockThread \/ PassThread \/ EndScan
  PROVE  LookInv'
  <1>1. /\ IsState(ex) /\ mode = "scan" /\ DOMAIN ex = Fields /\ scan \in 1 .. MaxThreads + 1
        /\ ex.st \in [Threads -> {"created", "ready", "blocked", "completed", "freed"}]
        /\ ex.en \in [Threads -> {Disabled, Enabled, SleepSet}]
        /\ Live \subseteq Threads /\ Live \subseteq Nat
    <2>1. IsState(ex) /\ Good(ex) /\ scan \in 1 .. MaxThreads + 1 /\ prog \in Programs
      BY DEF TypeInv, PrioInv
    <2>2. Live \subseteq Threads
      BY LiveThreads
    <2>3. mode = "scan"
      BY DEF FreeThread, BlockThread, PassThread, EndScan, Scanning
    <2> QED BY <2>1, <2>2, <2>3 DEF IsState, Good, Threads
  <1>2. /\ \A u \in Threads : CompleteIs(ex, u) /\ SleepIs(ex, u)
        /\ \A t \in Live : t < scan => LookedAt(ex, t)
        /\ chosen \in Threads => ChosenIs(ex, chosen)
    BY <1>1 DEF LookInv
  <1>3. ASSUME Scanning PROVE scan \in Threads /\ scan \in Live
    BY <1>3, ScanExists
  <1>4. CASE FreeThread
    <2>1. /\ Scanning /\ IsComplete(ex, scan) /\ ex' \in {ex, [ex EXCEPT !.st[scan] = "freed"]}
          /\ scan' = scan + 1 /\ chosen' = chosen /\ mode' = mode
      BY <1>4 DEF FreeThread
    <2>2. /\ ex'.pend = ex.pend /\ ex'.last = ex.last /\ ex'.en = ex.en /\ ex'.wake = ex.wake
          /\ ex'.locked = ex.locked /\ ex'.num = ex.num
          /\ \A v \in Threads : IsComplete(ex, v) <=> IsComplete(ex', v)
      BY <1>1, <2>1 DEF Fields, IsComplete
    <2>3. \A u \in Threads : CompleteIs(ex', u) /\ SleepIs(ex', u)
      BY <1>2, <2>2 DEF CompleteIs, SleepIs, HasPending
    <2>4. ASSUME NEW t \in Live, t < scan + 1 PROVE LookedAt(ex', t)
      <3>1. CASE t = scan
        <4>1. ~HasPending(ex, scan) /\ ex.last[scan].k \in {"finish", "exit"}
          BY <1>2, <1>3, <2>1 DEF CompleteIs
        <4> QED BY <2>2, <3>1, <4>1 DEF LookedAt, HasPending
      <3>2. CASE t # scan
        <4>1. t < scan
          BY <1>1, <2>4, <3>2
        <4>2. LookedAt(ex, t) /\ t \in Threads
          BY <1>1, <1>2, <4>1
        <4>3. \A m \in Places : ex'.locked[m] \in {ex.locked[m], 0}
          BY <2>2
        <4> QED BY <1>1, <2>2, <4>2, <4>3, LookKept
      <3> QED BY <3>1, <3>2
    <2>5. ASSUME chosen \in Threads PROVE ChosenIs(ex', chosen)
      <3>1. ChosenIs(ex, chosen) /\ ex'.en[chosen] # SleepSet
        BY <1>2, <2>2, <2>5 DEF ChosenIs
      <3>2. \A m \in Places : ex'.locked[m] \in {ex.locked[m], 0}
        BY <2>2
      <3> QED BY <1>1, <2>2, <2>5, <3>1, <3>2, ChosenKept
    <2> QED BY <1>1, <2>1, <2>2, <2>3, <2>4, <2>5 DEF LookInv, Live
  <1>5. CASE BlockThread
    <2>1. /\ Scanning /\ HasPending(ex, scan) /\ ex' = SleepThread(ex, scan)
          /\ scan' = scan + 1 /\ chosen' = chosen /\ mode' = mode
      BY <1>5 DEF BlockThread
    <2>2. ~IsComplete(ex, scan)
      BY <1>2, <1>3, <2>1 DEF CompleteIs
    <2>3. /\ ex'.pend = ex.pend /\ ex'.last = ex.last /\ ex'.wake = ex.wake
          /\ ex'.locked = ex.locked /\ ex'.num = ex.num
          /\ ex'.en = [ex.en EXCEPT ![scan] = Disabled] /\ ex'.st = [ex.st EXCEPT ![scan] = "blocked"]
      BY <1>1, <2>1 DEF SleepThread, Fields
    <2>4. \A v \in Threads : IsComplete(ex, v) <=> IsComplete(ex', v)
      BY <1>1, <2>2, <2>3 DEF IsComplete
    <2>5. \A v \in Threads : ex'.en[v] \in {ex.en[v], Disabled}
      BY <1>1, <2>3
    <2>6. \A u \in Threads : CompleteIs(ex', u) /\ SleepIs(ex', u)
      BY <1>2, <2>3, <2>4, <2>5 DEF CompleteIs, SleepIs, HasPending, Disabled, SleepSet
    <2>7. \A m \in Places : ex'.locked[m] \in {ex.locked[m], 0}
      BY <2>3
    <2>8. ASSUME NEW t \in Live, t < scan + 1 PROVE LookedAt(ex', t)
      <3>1. CASE t = scan
        <4>1. ex'.en[scan] = Disabled
          BY <1>1, <1>3, <2>1, <2>3
        <4> QED BY <2>1, <2>3, <3>1, <4>1 DEF LookedAt, HasPending
      <3>2. CASE t # scan
        <4>1. t < scan
          BY <1>1, <2>8, <3>2
        <4>2. LookedAt(ex, t) /\ t \in Threads
          BY <1>1, <1>2, <4>1
        <4> QED BY <1>1, <2>3, <2>4, <2>5, <2>7, <4>2, LookKept
      <3> QED BY <3>1, <3>2
    <2>9. ASSUME chosen \in Threads PROVE ChosenIs(ex', chosen)
      <3>1. ChosenIs(ex, chosen) /\ ex'.en[chosen] # SleepSet
        BY <1>2, <2>5, <2>9 DEF ChosenIs, Disabled, SleepSet
      <3> QED BY <1>1, <2>3, <2>4, <2>7, <2>9, <3>1, ChosenKept
    <2> QED BY <1>1, <2>1, <2>3, <2>6, <2>8, <2>9 DEF LookInv, Live
  <1>6. CASE PassThread
    <2>1. /\ Scanning /\ HasPending(ex, scan)
          /\ ex.en[scan] # Disabled => CheckActionEnabled(ex, scan)
          /\ chosen' = chosen \/ (chosen' = scan /\ IsEarly(ex.pend[scan]))
          /\ scan' = scan + 1 /\ ex' = ex /\ mode' = mode
      BY <1>6 DEF PassThread
    <2>2. ASSUME NEW t \in Live, t < scan + 1 PROVE LookedAt(ex, t)
      <3>1. CASE t = scan
        BY <2>1, <3>1 DEF LookedAt
      <3>2. CASE t # scan
        <4>1. t < scan
          BY <1>1, <2>2, <3>2
        <4> QED BY <1>2, <4>1
      <3> QED BY <3>1, <3>2
    <2>3. CASE chosen' = chosen
      BY <1>1, <1>2, <2>1, <2>2, <2>3 DEF LookInv, Live
    <2>4. CASE chosen' = scan /\ IsEarly(ex.pend[scan])
      <3>1. ex.en[scan] # SleepSet
        BY <1>2, <1>3, <2>1, <2>4 DEF SleepIs, IsEarly
      <3>2. ChosenIs(ex, scan)
        BY <2>1, <2>4, <3>1 DEF ChosenIs, CheckActionEnabled, IsEarly
      <3> QED BY <1>1, <1>2, <2>1, <2>2, <2>4, <3>2 DEF LookInv, Live
    <2> QED BY <2>1, <2>3, <2>4
  <1>7. CASE EndScan
    <2>1. scan > ex.num /\ mode' = "choose" /\ ex' = ex /\ chosen' = chosen
      BY <1>7 DEF EndScan
    <2>2. ex.num \in Nat
      BY DEF TypeInv, PrioInv, Good
    <2>3. \A t \in Live : t < scan
      BY <1>1, <2>1, <2>2 DEF Live
    <2> QED BY <1>2, <2>1, <2>3 DEF LookInv, Live
  <1> QED BY <1>4, <1>5, <1>6, <1>7

\* The execution when the operation of t is executed, thread by thread.
LEMMA PreparedFacts ==
  ASSUME IsState(ex), Good(ex), NEW t \in Threads, NEW W, NEW d, Prepared(t, W, d)
  PROVE  /\ d.num = ex.num /\ d.todo = ex.todo /\ d.last = ex.last /\ d.st = ex.st
         /\ d.locked = ex.locked /\ d.bug = ex.bug /\ d.over = ex.over
         /\ d.pend[t] = None /\ \A u \in Threads \ {t} : d.pend[u] = ex.pend[u]
         /\ \A u \in W : u \in Threads /\ ex.en[u] = SleepSet
         /\ \A u \in Threads : /\ d.en[u] = IF u \in W THEN Enabled ELSE ex.en[u]
                               /\ d.wake[u] <=> u \in W \/ ex.wake[u]
  <1>1. Same(ex, d, {"pend", "en", "wake", "ret", "waiters", "instr", "p", "extjob"})
    BY DEF Prepared
  <1>2. /\ d.num = ex.num /\ d.todo = ex.todo /\ d.last = ex.last /\ d.st = ex.st
        /\ d.locked = ex.locked /\ d.bug = ex.bug /\ d.over = ex.over
    BY <1>1, SameFields
  <1>3. d.pend[t] = None /\ \A u \in Threads \ {t} : d.pend[u] = ex.pend[u]
    BY DEF Prepared, IsState
  <1>4. \A u \in W : u \in Threads /\ ex.en[u] = SleepSet
    BY DEF Prepared, SleepingSet, Good
  <1>5. \A u \in Threads : /\ d.en[u] = IF u \in W THEN Enabled ELSE ex.en[u]
                           /\ d.wake[u] <=> u \in W \/ ex.wake[u]
    BY DEF Prepared, Set
  <1> QED BY <1>2, <1>3, <1>4, <1>5

\* The end of the step, thread by thread.
LEMMA EndedFacts ==
  ASSUME NEW t \in Threads, NEW m, NEW d, NEW f, NEW g, Ended(t, m, d, f, g), DOMAIN g.en = Threads
  PROVE  /\ g.num = f.num /\ g.todo = f.todo /\ g.pend = f.pend /\ g.st = f.st /\ g.wake = f.wake
         /\ g.ret = f.ret /\ g.locked = f.locked /\ g.waiters = f.waiters /\ g.over = f.over /\ g.p = f.p
         /\ \A u \in Threads \ {t} : g.en[u] = f.en[u]
         /\ g.en[t] = IF f.st[t] = "blocked" \/ IsComplete(f, t) THEN Disabled ELSE f.en[t]
  <1>1. Same(f, g, {"extjob", "last", "en", "bug"})
    BY DEF Ended
  <1>2. /\ g.num = f.num /\ g.todo = f.todo /\ g.pend = f.pend /\ g.st = f.st /\ g.wake = f.wake
        /\ g.ret = f.ret /\ g.locked = f.locked /\ g.waiters = f.waiters /\ g.over = f.over /\ g.p = f.p
    BY <1>1, SameFields
  <1>3. g.en = IF f.st[t] = "blocked" \/ IsComplete(f, t) THEN [f.en EXCEPT ![t] = Disabled] ELSE f.en
    BY DEF Ended
  <1>4. DOMAIN f.en = Threads
    BY <1>3
  <1> QED BY <1>2, <1>3, <1>4

\* A counted operation that is executed.
LEMMA CountedFacts ==
  ASSUME IsState(ex), Good(ex), NEW t \in Threads, NEW W, NEW d, Prepared(t, W, d), NEW m, InCount(m),
         NEW g, DOMAIN g.en = Threads,
         \/ Same(d, g, {"pend"}) /\ g.pend = [d.pend EXCEPT ![t] = m]
         \/ \E f : Effect(d, t, m, f) /\ Ended(t, m, d, f, g) /\ g.pend[t] = None
  PROVE  /\ g.num = ex.num /\ g.st = ex.st /\ g.locked = ex.locked /\ g.over = ex.over
         /\ g.waiters = d.waiters
         /\ \A u \in Threads \ {t} : g.pend[u] = ex.pend[u] /\ g.en[u] = IF u \in W THEN Enabled ELSE ex.en[u]
         /\ \A u \in Threads : g.wake[u] <=> u \in W \/ ex.wake[u]
         /\ g.en[t] \in {d.en[t], Disabled}
  <1>1. /\ d.num = ex.num /\ d.st = ex.st /\ d.locked = ex.locked /\ d.over = ex.over
        /\ \A u \in Threads \ {t} : d.pend[u] = ex.pend[u]
        /\ \A u \in Threads : /\ d.en[u] = IF u \in W THEN Enabled ELSE ex.en[u]
                              /\ d.wake[u] <=> u \in W \/ ex.wake[u]
    BY PreparedFacts
  <1>2. DOMAIN d.pend = Threads
    BY DEF Prepared, IsState
  <1>3. CASE Same(d, g, {"pend"}) /\ g.pend = [d.pend EXCEPT ![t] = m]
    <2>1. Same(d, g, {"pend"})
      BY <1>3
    <2>2. /\ g.num = d.num /\ g.st = d.st /\ g.locked = d.locked /\ g.over = d.over /\ g.en = d.en
          /\ g.wake = d.wake /\ g.waiters = d.waiters
      BY <2>1, SameFields
    <2>3. \A u \in Threads \ {t} : g.pend[u] = d.pend[u]
      BY <1>2, <1>3
    <2> QED BY <1>1, <2>2, <2>3
  <1>4. ASSUME NEW f, Effect(d, t, m, f), Ended(t, m, d, f, g)
        PROVE  /\ g.num = d.num /\ g.st = d.st /\ g.locked = d.locked /\ g.over = d.over
               /\ g.waiters = d.waiters /\ g.pend = d.pend /\ g.wake = d.wake
               /\ \A u \in Threads \ {t} : g.en[u] = d.en[u]
               /\ g.en[t] \in {d.en[t], Disabled}
    <2>1. Same(d, f, {"ret"})
      BY <1>4, CountedChanges
    <2>2. /\ f.num = d.num /\ f.st = d.st /\ f.locked = d.locked /\ f.over = d.over
          /\ f.waiters = d.waiters /\ f.pend = d.pend /\ f.wake = d.wake /\ f.en = d.en
      BY <2>1, SameFields
    <2>3. /\ g.num = f.num /\ g.st = f.st /\ g.locked = f.locked /\ g.over = f.over
          /\ g.waiters = f.waiters /\ g.pend = f.pend /\ g.wake = f.wake
          /\ \A u \in Threads \ {t} : g.en[u] = f.en[u]
          /\ g.en[t] \in {f.en[t], Disabled}
      BY <1>4, EndedFacts
    <2> QED BY <2>2, <2>3
  <1>5. CASE \E f : Effect(d, t, m, f) /\ Ended(t, m, d, f, g) /\ g.pend[t] = None
    <2>1. PICK f : Effect(d, t, m, f) /\ Ended(t, m, d, f, g)
      BY <1>5
    <2>2. /\ g.num = d.num /\ g.st = d.st /\ g.locked = d.locked /\ g.over = d.over
          /\ g.waiters = d.waiters /\ g.pend = d.pend /\ g.wake = d.wake
          /\ \A u \in Threads \ {t} : g.en[u] = d.en[u]
          /\ g.en[t] \in {d.en[t], Disabled}
      BY <1>4, <2>1
    <2> QED BY <1>1, <2>2
  <1> QED BY <1>3, <1>5

\* What action_select_next_thread chooses, and what is known of it.
LEMMA NextChosen ==
  ASSUME prog \in Programs, IsState(ex), PrioInv, NEW t \in Threads, TakeStep(t),
         NEW W, NEW d, NEW m, Stepped(t, W, d, m), IsState(d), chosen' \in Threads
  PROVE  \/ /\ InCount(m) /\ chosen' = HighestThread(ex'.p, ex'.en)
            /\ \/ chosen' # t /\ Same(d, ex', {"pend"}) /\ ex'.pend = [d.pend EXCEPT ![t] = m]
               \/ ex'.last[t].ext /\ ex'.pend[t] = None /\ \E f : Effect(d, t, m, f) /\ Ended(t, m, d, f, ex')
         \/ /\ m.k = "rmwr" /\ chosen' = t /\ ex'.pend[t] = None /\ ex'.last[t].k = "rmwr"
            /\ \E f : Effect(d, t, m, f) /\ Ended(t, m, d, f, ex')
         \/ /\ m.k = "create" /\ chosen' = ex.num + 1 /\ chosen' # t
            /\ ex'.last[chosen'].k = "none" /\ ~HasPending(ex', chosen')
            /\ \E f : Effect(d, t, m, f) /\ Ended(t, m, d, f, ex')
  <1>1. /\ Picked(t) /\ Prepared(t, W, d)
        /\ \/ /\ HighestThread(d.p, d.en) # t /\ Same(d, ex', {"pend"}) /\ ex'.pend = [d.pend EXCEPT ![t] = m]
              /\ m.ext /\ InCount(m) /\ chosen' = SelectsNext(ex', t, m)
           \/ /\ \E f : Effect(d, t, m, f) /\ Ended(t, m, d, f, ex')
              /\ chosen' = SelectsNext(ex', t, Unmarked(d, m))
    BY DEF Stepped
  <1>2. /\ m \in Ops /\ m.k = ex.pend[t].k /\ ex'.last[t].k = ex.last[t].k
        /\ \A u \in Threads \ {t} : ex'.pend[u] = ex.pend[u] /\ ex'.last[u] = ex.last[u]
    BY StepOthers
  <1>3. /\ HasPending(ex, t) /\ t <= ex.num /\ AtPlace(ex, t) /\ ex.num \in Nat \ {0}
        /\ ex.pend[t].k = ex.last[t].k /\ ex.last \in [Threads -> Ops]
    <2>1. HasPending(ex, t) /\ t <= ex.num /\ AtPlace(ex, t) /\ ex.num \in Nat \ {0} /\ ex.last \in [Threads -> Ops]
      BY <1>1 DEF Picked, PrioInv, Good, IsState
    <2> QED BY <2>1 DEF AtPlace
  <1>4. CASE /\ HighestThread(d.p, d.en) # t /\ Same(d, ex', {"pend"}) /\ ex'.pend = [d.pend EXCEPT ![t] = m]
             /\ m.ext /\ InCount(m) /\ chosen' = SelectsNext(ex', t, m)
    <2>1. Same(d, ex', {"pend"})
      BY <1>4
    <2>2. ex'.p = d.p /\ ex'.en = d.en
      BY <2>1, SameFields
    <2> DEFINE h == HighestThread(ex'.p, ex'.en)
    <2>3. chosen' = IF h = NoThread THEN 0 ELSE h
      <3>1. m.k # "create"
        BY <1>4 DEF InCount, IsRead
      <3> QED BY <1>4, <3>1 DEF SelectsNext
    <2>4. h # t
      BY <1>4, <2>2
    <2> HIDE DEF h
    <2>5. chosen' = h
      BY <2>3, PctParams DEF Threads
    <2> QED BY <1>4, <2>1, <2>4, <2>5 DEF h
  <1>5. CASE /\ \E f : Effect(d, t, m, f) /\ Ended(t, m, d, f, ex')
             /\ chosen' = SelectsNext(ex', t, Unmarked(d, m))
    <2> DEFINE o == Unmarked(d, m)
    <2>1. o \in Ops /\ o.k = m.k
      BY <1>2 DEF Unmarked, Ops
    <2>2. PICK f : Effect(d, t, m, f) /\ Ended(t, m, d, f, ex')
      BY <1>5
    <2>3. Same(f, ex', {"extjob", "last", "en", "bug"})
      BY <2>2 DEF Ended
    <2>4. ex'.pend = f.pend /\ ex'.num = f.num
      BY <2>3, SameFields
    <2>5. f.last = d.last /\ (m.k \notin {"wait", "timedwait", "sleep"} => f.pend = d.pend)
      BY <2>2, EffectOthers
    <2>6. /\ d.last = ex.last /\ d.num = ex.num /\ d.pend[t] = None
      BY <1>1, PreparedFacts DEF PrioInv
    <2>7. m.k \notin {"wait", "timedwait", "sleep"} => ex'.pend[t] = None
      BY <2>4, <2>5, <2>6
    <2>8. ex'.last[t].ext = o.ext
      <3>1. ex'.last = [ex.last EXCEPT ![t] = [ex.last[t] EXCEPT !.ext = o.ext]]
        BY <2>2, <2>5, <2>6 DEF Ended
      <3>2. ex'.last[t] = [ex.last[t] EXCEPT !.ext = o.ext] /\ ex.last[t] \in Ops
        BY <1>3, <3>1
      <3> HIDE DEF o
      <3> QED BY <3>2 DEF Ops
    <2> DEFINE h == HighestThread(ex'.p, ex'.en)
    <2>9. chosen' = SelectsNext(ex', t, o)
      BY <1>5
    <2> HIDE DEF o
    <2>10. CASE InCount(o) /\ o.ext
      <3>1. chosen' = IF h = NoThread THEN 0 ELSE h
        <4>1. o.k # "create"
          BY <2>10 DEF InCount, IsRead
        <4> QED BY <2>9, <2>10, <4>1 DEF SelectsNext
      <3>2. m.k \notin {"wait", "timedwait", "sleep"} /\ InCount(m)
        BY <2>1, <2>10 DEF InCount, IsRead
      <3> HIDE DEF h
      <3>3. chosen' = h
        BY <3>1, PctParams DEF Threads
      <3> QED BY <1>5, <2>7, <2>8, <2>10, <3>2, <3>3 DEF h
    <2>11. CASE ~(InCount(o) /\ o.ext) /\ o.k = "rmwr"
      <3>1. chosen' = t
        BY <2>9, <2>11 DEF SelectsNext
      <3> QED BY <1>2, <1>3, <1>5, <2>1, <2>7, <2>11, <3>1
    <2>12. CASE ~(InCount(o) /\ o.ext) /\ o.k = "create"
      <3>1. chosen' = ex'.num
        BY <2>9, <2>12 DEF SelectsNext
      <3>2. f.num = d.num + 1
        BY <2>1, <2>2, <2>12 DEF Effect
      <3>3. chosen' # t /\ chosen' > ex.num /\ chosen' = ex.num + 1
        BY <1>3, <2>4, <2>6, <3>1, <3>2 DEF Threads
      <3>4. AtPlace(ex, chosen')
        BY DEF IsState
      <3>5. ex.last[chosen'].k = "none" /\ ex.pend[chosen'].k = "none"
        BY <3>3, <3>4 DEF AtPlace, HasPending
      <3>6. ex'.last[chosen'].k = "none" /\ ex'.pend[chosen'].k = "none"
        BY <1>2, <3>3, <3>5
      <3> QED BY <1>5, <2>1, <2>12, <3>3, <3>6 DEF HasPending
    <2>13. CASE ~(InCount(o) /\ o.ext) /\ o.k \notin {"rmwr", "create"}
      <3>1. chosen' = 0
        BY <2>9, <2>13 DEF SelectsNext
      <3> QED BY <3>1 DEF Threads
    <2> QED BY <2>10, <2>11, <2>12, <2>13
  <1> QED BY <1>1, <1>4, <1>5

\* A thread that takes a step has been looked at, and leaves a good choice.
LEMMA LookTake ==
  ASSUME TypeInv, LookInv, NEW t \in Threads, TakeStep(t)
  PROVE  LookInv'
  <1>1. /\ prog \in Programs /\ IsState(ex) /\ PrioInv /\ Good(ex)
        /\ ex.en \in [Threads -> {Disabled, Enabled, SleepSet}] /\ ex.num \in Nat \ {0}
        /\ \A u \in Threads : u > ex.num => ex.en[u] = Disabled
    BY DEF TypeInv, PrioInv, Good
  <1>2. PICK W, d, m : Stepped(t, W, d, m) /\ Good(d) /\ IsState(d)
    BY <1>1, StepIs
  <1>3. /\ Picked(t) /\ Prepared(t, W, d) /\ mode = "choose" /\ scan' = scan
        /\ mode' \in {"scan", "finish"}
        /\ \/ Same(d, ex', {"pend"}) /\ ex'.pend = [d.pend EXCEPT ![t] = m] /\ InCount(m)
           \/ \E f : Effect(d, t, m, f) /\ Ended(t, m, d, f, ex')
    BY <1>2 DEF Stepped, Picked
  <1>4. /\ d.num = ex.num /\ d.todo = ex.todo /\ d.last = ex.last /\ d.st = ex.st
        /\ d.locked = ex.locked
        /\ d.pend[t] = None /\ \A u \in Threads \ {t} : d.pend[u] = ex.pend[u]
        /\ \A u \in W : u \in Threads /\ ex.en[u] = SleepSet
        /\ \A u \in Threads : /\ d.en[u] = IF u \in W THEN Enabled ELSE ex.en[u]
                              /\ d.wake[u] <=> u \in W \/ ex.wake[u]
    BY <1>1, <1>3, PreparedFacts
  <1>5. /\ m.k = ex.pend[t].k /\ ex'.last[t].k = ex.last[t].k
        /\ \A u \in Threads \ {t} : ex'.pend[u] = ex.pend[u] /\ ex'.last[u] = ex.last[u]
    BY <1>1, <1>2, StepOthers
  <1>6. /\ HasPending(ex, t) /\ t \in Live /\ ~ex.wake[t] /\ AtPlace(ex, t)
        /\ ex.pend[t].k = ex.last[t].k
    <2>1. HasPending(ex, t) /\ t \in Live /\ ~ex.wake[t] /\ AtPlace(ex, t)
      BY <1>1, <1>3 DEF Picked, IsState, Live, Threads
    <2> QED BY <2>1 DEF AtPlace
  <1>7. /\ \A u \in Threads : CompleteIs(ex, u) /\ SleepIs(ex, u)
        /\ \A u \in Live : LookedAt(ex, u)
        /\ chosen \in Threads => ChosenIs(ex, chosen)
    BY <1>3 DEF LookInv
  <1>8. ex.en[t] # SleepSet /\ ~IsComplete(ex, t) /\ t \notin W
    <2>1. ex.en[t] # SleepSet
      BY <1>3, <1>7 DEF Picked, ChosenIs, Enabled, SleepSet
    <2> QED BY <1>4, <1>6, <1>7, <2>1 DEF CompleteIs
  <1>9. IsState(ex') /\ DOMAIN ex'.en = Threads
    <2>1. IsState(ex')
      BY <1>1, StepKeeps
    <2>2. Good(ex')
      BY <1>1, StepGood DEF PrioInv
    <2> QED BY <2>1, <2>2 DEF Good
  <1>10. \A u \in Threads : CompleteIs(ex', u) /\ SleepIs(ex', u)
    <2>1. CASE Same(d, ex', {"pend"})
      <3>1. ex'.st = d.st /\ ex'.en = d.en /\ ex'.wake = d.wake
        BY <2>1, SameFields
      <3>2. ASSUME NEW u \in Threads, u # t PROVE CompleteIs(ex', u) /\ SleepIs(ex', u)
        <4>1. CompleteIs(ex, u) /\ SleepIs(ex, u)
          BY <1>7
        <4>2. ex'.pend[u] = ex.pend[u] /\ ex'.last[u] = ex.last[u] /\ ex'.st[u] = ex.st[u]
          BY <1>4, <1>5, <3>1, <3>2
        <4>3. ex'.en[u] = SleepSet => ex.en[u] = SleepSet /\ ~(u \in W)
          BY <1>4, <3>1 DEF Enabled, SleepSet
        <4>4. ex'.en[u] = SleepSet /\ ex'.wake[u] => ex.wake[u]
          BY <1>4, <3>1, <4>3
        <4> QED BY <4>1, <4>2, <4>3, <4>4 DEF CompleteIs, SleepIs, IsComplete, HasPending
      <3>3. ~IsComplete(ex', t) /\ ex'.en[t] # SleepSet
        BY <1>4, <1>8, <3>1 DEF IsComplete
      <3>4. CompleteIs(ex', t) /\ SleepIs(ex', t)
        BY <3>3 DEF CompleteIs, SleepIs
      <3> QED BY <3>2, <3>4
    <2>2. ASSUME NEW f, Effect(d, t, m, f), Ended(t, m, d, f, ex')
          PROVE  \A u \in Threads : CompleteIs(ex', u) /\ SleepIs(ex', u)
      <3>1. /\ ex'.pend = f.pend /\ ex'.st = f.st /\ ex'.wake = f.wake
            /\ \A u \in Threads \ {t} : ex'.en[u] = f.en[u]
            /\ ex'.en[t] \in {f.en[t], Disabled}
        BY <1>9, <2>2, EndedFacts
      <3>2. /\ \A u \in Threads \ {t} :
                 f.en[u] = SleepSet => /\ d.en[u] = SleepSet
                                       /\ f.wake[u] => d.wake[u] \/ IsComplete(d, u)
            /\ f.en[t] = SleepSet => \/ d.en[t] = SleepSet
                                     \/ /\ m.k \in {"wait", "timedwait", "sleep"}
                                        /\ f.pend[t] = m /\ f.wake[t] = d.wake[t]
            /\ \A u \in Threads : IsComplete(f, u) => IsComplete(d, u) \/ (u = t /\ m.k \in {"finish", "exit"})
        BY <1>2, <2>2, EffectSleeps
      <3>3. m.k \notin {"wait", "timedwait", "sleep"} => f.pend = d.pend
        BY <1>2, <2>2, EffectOthers
      <3>4. ASSUME NEW u \in Threads, u # t PROVE CompleteIs(ex', u) /\ SleepIs(ex', u)
        <4>1. CompleteIs(ex, u) /\ SleepIs(ex, u)
          BY <1>7
        <4>2. ex'.pend[u] = ex.pend[u] /\ ex'.last[u] = ex.last[u]
          BY <1>5, <3>4
        <4>3. IsComplete(ex', u) => IsComplete(ex, u)
          BY <1>4, <3>1, <3>2, <3>4 DEF IsComplete
        <4>4. ex'.en[u] = SleepSet => d.en[u] = SleepSet /\ (ex'.wake[u] => d.wake[u] \/ IsComplete(d, u))
          BY <3>1, <3>2, <3>4
        <4>5. d.en[u] = SleepSet => ex.en[u] = SleepSet /\ ~(u \in W)
          BY <1>4 DEF Enabled, SleepSet
        <4>6. d.en[u] = SleepSet /\ d.wake[u] => ex.wake[u]
          BY <1>4, <4>5
        <4>7. IsComplete(d, u) => IsComplete(ex, u)
          BY <1>4 DEF IsComplete
        <4>8. IsComplete(ex, u) => ~HasPending(ex, u)
          BY <4>1 DEF CompleteIs
        <4>9. CompleteIs(ex', u)
          BY <4>1, <4>2, <4>3 DEF CompleteIs, HasPending
        <4>10. SleepIs(ex', u)
          BY <4>1, <4>2, <4>4, <4>5, <4>6, <4>7, <4>8 DEF SleepIs, HasPending
        <4> QED BY <4>9, <4>10
      <3>5. CompleteIs(ex', t)
        <4>1. IsComplete(ex', t) => m.k \in {"finish", "exit"}
          BY <1>4, <1>8, <3>1, <3>2 DEF IsComplete
        <4>2. m.k \in {"finish", "exit"} => ex'.pend[t] = None
          BY <1>4, <3>1, <3>3
        <4> QED BY <1>5, <1>6, <4>1, <4>2 DEF CompleteIs, HasPending, None, Op
      <3>6. SleepIs(ex', t)
        <4>1. d.en[t] # SleepSet /\ ~d.wake[t]
          BY <1>4, <1>6, <1>8
        <4>2. f.en[t] = SleepSet => /\ m.k \in {"wait", "timedwait", "sleep"}
                                    /\ f.pend[t] = m /\ ~f.wake[t]
          BY <3>2, <4>1
        <4> QED BY <3>1, <4>2 DEF SleepIs, Disabled, SleepSet
      <3> QED BY <3>4, <3>5, <3>6
    <2> QED BY <1>3, <2>1, <2>2
  <1>11. ASSUME chosen' \in Threads PROVE ChosenIs(ex', chosen')
    <2> DEFINE Executes == \E f : Effect(d, t, m, f) /\ Ended(t, m, d, f, ex')
    <2>1. \/ /\ InCount(m) /\ chosen' = HighestThread(ex'.p, ex'.en)
             /\ \/ chosen' # t /\ Same(d, ex', {"pend"}) /\ ex'.pend = [d.pend EXCEPT ![t] = m]
                \/ ex'.last[t].ext /\ ex'.pend[t] = None /\ Executes
          \/ m.k = "rmwr" /\ chosen' = t /\ ex'.pend[t] = None /\ ex'.last[t].k = "rmwr" /\ Executes
          \/ /\ m.k = "create" /\ chosen' = ex.num + 1 /\ chosen' # t
             /\ ex'.last[chosen'].k = "none" /\ ~HasPending(ex', chosen') /\ Executes
      BY <1>1, <1>2, <1>11, NextChosen
    <2> HIDE DEF Executes
    <2>2. ASSUME InCount(m),
                 \/ Same(d, ex', {"pend"}) /\ ex'.pend = [d.pend EXCEPT ![t] = m]
                 \/ Executes /\ ex'.pend[t] = None
          PROVE  /\ ex'.num = ex.num /\ ex'.st = ex.st /\ ex'.locked = ex.locked
                 /\ \A u \in Threads \ {t} : ex'.en[u] = IF u \in W THEN Enabled ELSE ex.en[u]
                 /\ \A u \in Threads : ex'.wake[u] <=> u \in W \/ ex.wake[u]
                 /\ ex'.en[t] \in {d.en[t], Disabled}
      BY <1>1, <1>3, <1>9, <2>2, CountedFacts DEF Executes
    <2>3. CASE /\ InCount(m) /\ chosen' = HighestThread(ex'.p, ex'.en)
               /\ \/ chosen' # t /\ Same(d, ex', {"pend"}) /\ ex'.pend = [d.pend EXCEPT ![t] = m]
                  \/ ex'.last[t].ext /\ ex'.pend[t] = None /\ Executes
      <3>1. /\ ex'.num = ex.num /\ ex'.st = ex.st /\ ex'.locked = ex.locked
            /\ chosen' # t => ex'.en[chosen'] = IF chosen' \in W THEN Enabled ELSE ex.en[chosen']
        BY <1>11, <2>2, <2>3
      <3>2. ex'.en[chosen'] = Enabled
        <4>1. Good(ex')
          BY <1>1, StepGood DEF PrioInv
        <4>2. IsVectors(ex'.p, ex'.num) /\ ex'.num \in Nat
          BY <4>1 DEF Good
        <4>3. chosen' \in EnabledSet(ex'.en) \cup {NoThread}
          BY <1>9, <2>3, <4>2, HighestIs
        <4>4. chosen' # NoThread
          BY <1>11, PctParams DEF Threads, NoThread
        <4>5. chosen' \in EnabledSet(ex'.en)
          BY ONLY <4>3, <4>4
        <4>6. \A en, c : c \in EnabledSet(en) => en[c] = Enabled
          BY DEF EnabledSet
        <4> QED BY <4>5, <4>6
      <3>3. CASE chosen' = t
        BY <2>3, <3>2, <3>3 DEF ChosenIs, CheckActionEnabled, None, Op, Enabled, SleepSet
      <3>4. ASSUME chosen' # t PROVE ex'.pend[chosen'] = ex.pend[chosen']
        BY <1>5, <1>11, <3>4
      <3>5. CASE chosen' # t /\ chosen' \in W
        <4>1. ex.pend[chosen'].k \in {"wait", "timedwait", "sleep"}
          BY <1>4, <1>7, <3>5 DEF SleepIs
        <4> QED BY <3>2, <3>4, <3>5, <4>1 DEF ChosenIs, CheckActionEnabled, Enabled, SleepSet
      <3>6. CASE chosen' # t /\ chosen' \notin W
        <4>1. ex.en[chosen'] = Enabled
          BY <3>1, <3>2, <3>6
        <4>2. chosen' \in Live
          BY <1>1, <1>11, <4>1 DEF Live, Threads, Enabled, Disabled
        <4>3. LookedAt(ex, chosen')
          BY <1>7, <4>2
        <4>4. CheckActionEnabled(ex, chosen')
          <5>1. CASE HasPending(ex, chosen')
            BY <4>1, <4>3, <5>1 DEF LookedAt, Enabled, Disabled
          <5>2. CASE ~HasPending(ex, chosen')
            BY <5>2 DEF HasPending, CheckActionEnabled
          <5> QED BY <5>1, <5>2
        <4>5. CheckActionEnabled(ex', chosen')
          <5>1. \A p \in Places : ex'.locked[p] \in {ex.locked[p], 0}
            BY <3>1
          <5>2. \A v \in Threads : IsComplete(ex, v) => IsComplete(ex', v)
            BY <3>1 DEF IsComplete
          <5> QED BY <1>1, <1>11, <3>4, <3>6, <4>4, <5>1, <5>2, CheckKept
        <4> QED BY <3>2, <4>5 DEF ChosenIs, Enabled, SleepSet
      <3> QED BY <3>3, <3>5, <3>6
    <2>4. CASE m.k = "rmwr" /\ chosen' = t /\ ex'.pend[t] = None /\ ex'.last[t].k = "rmwr" /\ Executes
      <3>1. InCount(m)
        BY <2>4 DEF InCount, IsRead
      <3>2. ex'.en[t] \in {d.en[t], Disabled}
        BY <2>2, <2>4, <3>1
      <3>3. ex'.en[t] # SleepSet
        BY <1>4, <1>8, <3>2 DEF Disabled, SleepSet
      <3> QED BY <2>4, <3>3 DEF ChosenIs, CheckActionEnabled, None, Op
    <2>5. CASE /\ m.k = "create" /\ chosen' = ex.num + 1 /\ chosen' # t
               /\ ex'.last[chosen'].k = "none" /\ ~HasPending(ex', chosen') /\ Executes
      <3>1. PICK f : Effect(d, t, m, f) /\ Ended(t, m, d, f, ex')
        BY <2>5 DEF Executes
      <3>2. f.en = [d.en EXCEPT ![d.num + 1] = Enabled]
        BY <2>5, <3>1 DEF Effect
      <3>3. ex'.en[chosen'] = f.en[chosen']
        BY <1>9, <1>11, <2>5, <3>1, EndedFacts
      <3>4. DOMAIN d.en = Threads
        BY <1>3 DEF Prepared, Set
      <3>5. ex'.en[chosen'] = Enabled
        BY <1>4, <1>11, <2>5, <3>2, <3>3, <3>4
      <3> QED BY <2>5, <3>5 DEF ChosenIs, CheckActionEnabled, HasPending, Enabled, SleepSet
    <2> QED BY <2>1, <2>3, <2>4, <2>5
  <1>12. scan' = 1 /\ \A u \in 1 .. ex'.num : ~(u < 1)
    BY <1>3 DEF TypeInv
  <1> QED BY <1>3, <1>10, <1>11, <1>12 DEF LookInv, Live

\* A thread that was woken drops its operation.
LEMMA LookResume ==
  ASSUME TypeInv, LookInv, NEW t \in Threads, ResumeWoken(t)
  PROVE  LookInv'
  <1>1. /\ IsState(ex) /\ Good(ex) /\ DOMAIN ex = Fields /\ mode = "choose" /\ scan = 1
        /\ ex.pend \in [Threads -> Ops] /\ ex.wake \in [Threads -> BOOLEAN]
        /\ ex.en \in [Threads -> {Disabled, Enabled, SleepSet}]
    BY DEF TypeInv, PrioInv, IsState, Good, ResumeWoken
  <1>2. chosen' = 0 /\ scan' = scan /\ mode' = "scan"
    BY DEF ResumeWoken
  <1>3. PICK pick \in Picks : /\ pick[1] = t /\ pick[2].wake[t]
                              /\ ex' = [pick[2] EXCEPT !.wake[t] = FALSE, !.pend[t] = None]
    BY DEF ResumeWoken
  <1>4. \/ pick[2] = ex
        \/ pick[2] = [ex EXCEPT !.en[t] = Enabled, !.wake[t] = TRUE]
    BY <1>3, PickFrom
  <1>5. /\ DOMAIN pick[2] = Fields
        /\ pick[2].pend = ex.pend /\ pick[2].last = ex.last /\ pick[2].st = ex.st
        /\ \/ pick[2].en = ex.en /\ pick[2].wake = ex.wake
           \/ pick[2].en = [ex.en EXCEPT ![t] = Enabled] /\ pick[2].wake = [ex.wake EXCEPT ![t] = TRUE]
    BY <1>1, <1>4 DEF Fields
  <1>6. /\ ex'.pend = [ex.pend EXCEPT ![t] = None] /\ ex'.last = ex.last /\ ex'.st = ex.st
        /\ ex'.wake = [pick[2].wake EXCEPT ![t] = FALSE] /\ ex'.en = pick[2].en
    BY <1>3, <1>5 DEF Fields
  <1>7. \A u \in Threads : CompleteIs(ex, u) /\ SleepIs(ex, u)
    BY DEF LookInv
  <1>8. ex'.en[t] # SleepSet
    <2>1. CASE pick[2].en = ex.en /\ pick[2].wake = ex.wake
      BY <1>3, <1>6, <1>7, <2>1 DEF SleepIs
    <2>2. CASE pick[2].en = [ex.en EXCEPT ![t] = Enabled]
      BY <1>1, <1>6, <2>2 DEF Enabled, SleepSet
    <2> QED BY <1>5, <2>1, <2>2
  <1>9. ASSUME NEW u \in Threads PROVE CompleteIs(ex', u) /\ SleepIs(ex', u)
    <2>1. CompleteIs(ex, u) /\ SleepIs(ex, u)
      BY <1>7
    <2>2. CASE u = t
      <3>1. ex'.pend[t] = None
        BY <1>1, <1>6
      <3> QED BY <1>6, <1>8, <2>1, <2>2, <3>1 DEF CompleteIs, SleepIs, IsComplete, HasPending, None, Op
    <2>3. CASE u # t
      <3>1. /\ ex'.pend[u] = ex.pend[u] /\ ex'.last[u] = ex.last[u] /\ ex'.st[u] = ex.st[u]
            /\ ex'.en[u] = ex.en[u] /\ ex'.wake[u] = ex.wake[u]
        BY <1>1, <1>5, <1>6, <2>3
      <3> QED BY <2>1, <3>1 DEF CompleteIs, SleepIs, IsComplete, HasPending
    <2> QED BY <2>2, <2>3
  <1>10. scan' = 1 /\ chosen' \notin Threads /\ \A u \in 1 .. ex'.num : ~(u < 1)
    BY <1>1, <1>2 DEF Threads
  <1> QED BY <1>2, <1>9, <1>10 DEF LookInv, Live

\* Every step keeps what has been looked at, if what a chosen thread comes to
\* can be executed.
LEMMA LookStep ==
  ASSUME TypeInv, LookInv, [Next]_vars, ChosenComes
  PROVE  LookInv'
  <1>1. DOMAIN ex = Fields /\ DOMAIN ex.st = Threads
    BY DEF TypeInv, IsState
  <1>2. CASE RunThread
    BY <1>2, LookRun
  <1>3. CASE FreeThread \/ BlockThread \/ PassThread \/ EndScan
    BY <1>3, LookScan
  <1>4. CASE StopAsserted \/ StepOfNobody
    BY <1>4 DEF StopAsserted, StepOfNobody, LookInv
  <1>5. CASE NothingToRun
    <2>1. mode' = "finish" /\ (ex' = ex \/ ex' = [ex EXCEPT !.bug = "deadlock"])
      BY <1>5 DEF NothingToRun, Reported
    <2>2. ex'.pend = ex.pend /\ ex'.last = ex.last /\ ex'.en = ex.en /\ ex'.wake = ex.wake /\ ex'.st = ex.st
      BY <1>1, <2>1 DEF Fields
    <2>3. ASSUME NEW u \in Threads PROVE CompleteIs(ex', u) /\ SleepIs(ex', u)
      <3>1. CompleteIs(ex, u) /\ SleepIs(ex, u)
        BY DEF LookInv
      <3> QED BY <2>2, <3>1 DEF CompleteIs, SleepIs, IsComplete, HasPending
    <2> QED BY <2>1, <2>3 DEF LookInv
  <1>6. CASE \E t \in Threads : ResumeWoken(t)
    BY <1>6, LookResume
  <1>7. CASE \E t \in Threads : TakeStep(t)
    BY <1>7, LookTake
  <1>8. CASE FinishExecution
    <2>1. /\ scan' = 1
          /\ \/ mode' = "exit" /\ ex' = ex
             \/ mode' = "scan" /\ ex' = Initial(MainSlot, prog)
      BY <1>8 DEF FinishExecution
    <2>2. CASE mode' = "exit" /\ ex' = ex
      BY <2>2 DEF LookInv
    <2>3. CASE mode' = "scan" /\ ex' = Initial(MainSlot, prog)
      <3>1. /\ ex'.num = 1 /\ ex'.st = [u \in Threads |-> "created"]
            /\ ex'.en = [u \in Threads |-> IF u = 1 THEN Enabled ELSE Disabled]
            /\ ex'.pend = [u \in Threads |-> None] /\ ex'.last = [u \in Threads |-> None]
        BY <2>3 DEF Initial
      <3>2. ASSUME NEW u \in Threads
            PROVE  CompleteIs(ex', u) /\ SleepIs(ex', u) /\ ChosenIs(ex', u)
        <4>1. /\ ex'.st[u] = "created" /\ ex'.en[u] # SleepSet
              /\ ex'.pend[u] = None /\ ex'.last[u] = None
          BY <3>1 DEF Enabled, Disabled, SleepSet
        <4> QED BY <4>1 DEF CompleteIs, SleepIs, ChosenIs, CheckActionEnabled, IsComplete, HasPending, None, Op
      <3>3. \A u \in 1 .. ex'.num : ~(u < scan')
        BY <2>1, <3>1
      <3> QED BY <2>3, <3>2, <3>3 DEF LookInv, Live
    <2> QED BY <2>1, <2>2, <2>3
  <1>9. CASE Over \/ UNCHANGED vars
    <2>1. ex' = ex /\ mode' = mode /\ chosen' = chosen /\ scan' = scan
      BY <1>9 DEF Over, vars
    <2> QED BY <2>1 DEF LookInv, Live
  <1> QED BY <1>2, <1>3, <1>4, <1>5, <1>6, <1>7, <1>8, <1>9 DEF Next

\* In the first state no thread is complete, none sleeps and none is looked at.
LEMMA LookInit == ASSUME Init PROVE LookInv
  <1>1. /\ ex.num = 1 /\ ex.st = [u \in Threads |-> "created"]
        /\ ex.en = [u \in Threads |-> IF u = 1 THEN Enabled ELSE Disabled]
        /\ ex.pend = [u \in Threads |-> None] /\ ex.last = [u \in Threads |-> None]
    BY DEF Init, Initial
  <1>2. ASSUME NEW u \in Threads PROVE CompleteIs(ex, u) /\ SleepIs(ex, u)
    <2>1. ex.st[u] = "created" /\ ex.en[u] # SleepSet
      BY <1>1 DEF Enabled, Disabled, SleepSet
    <2> QED BY <2>1 DEF CompleteIs, SleepIs, IsComplete
  <1>3. mode = "scan" /\ chosen \notin Threads /\ \A u \in 1 .. ex.num : ~(u < scan)
    BY <1>1 DEF Init, Threads
  <1> QED BY <1>2, <1>3 DEF LookInv, Live

\* A thread executes no operation that cannot be executed.
LEMMA LookedAtFirst ==
  ASSUME TypeInv, LookInv, [Next]_vars, NEW t \in Threads, Completes(t), ex.pend[t].k \in Blocking
  PROVE  CheckActionEnabled(ex, t)
  <1>1. prog \in Programs /\ IsState(ex) /\ PrioInv
    BY DEF TypeInv, PrioInv
  <1>2. TakeStep(t)
    BY CompletesIs
  <1>3. \E W, d, m : Stepped(t, W, d, m)
    BY <1>1, <1>2, StepIs
  <1>4. Picked(t) /\ mode = "choose" /\ ~ex.wake[t] /\ HasPending(ex, t) /\ t <= ex.num
    BY <1>3 DEF Stepped, Picked
  <1>5. CASE chosen = t
    <2>1. ChosenIs(ex, t)
      BY <1>4, <1>5 DEF LookInv
    <2> QED BY <1>4, <2>1 DEF ChosenIs
  <1>6. CASE ex.en[t] = Enabled
    <2>1. t \in Live
      BY <1>1, <1>4 DEF Live, Threads, PrioInv, Good
    <2>2. LookedAt(ex, t)
      BY <1>4, <2>1 DEF LookInv
    <2> QED BY <1>4, <1>6, <2>2 DEF LookedAt, Enabled, Disabled
  <1> QED BY <1>4, <1>5, <1>6 DEF Picked

\* "The lock operation has already been checked that it is enabled, so it just
\* grabs the lock" (execution.cc): so it is, if what a thread that is chosen
\* already comes to can be executed.
THEOREM PctLocksChecked == Spec /\ ChosenCanGo => LocksChecked
  <1> DEFINE Locks == \A t \in Threads : Completes(t) /\ ex.pend[t].k = "lock" => CheckActionEnabled(ex, t)
  <1>1. Init => TypeInv /\ LookInv
    BY InitialTypes, LookInit
  <1>2. TypeInv /\ LookInv /\ [Next]_vars /\ [ChosenComes]_vars => TypeInv' /\ LookInv'
    <2>1. ASSUME TypeInv, LookInv, UNCHANGED vars PROVE LookInv'
      BY <2>1 DEF LookInv, vars, Live
    <2> QED BY <2>1, TypesStep, LookStep
  <1>3. TypeInv /\ LookInv /\ [Next]_vars => [Locks]_vars
    BY LookedAtFirst DEF Blocking
  <1> QED BY <1>1, <1>2, <1>3, PTL DEF Spec, ChosenCanGo, LocksChecked

\* pthread_join returns only after the thread it waits for has finished, under
\* the same condition.
THEOREM PctJoinsWait == Spec /\ ChosenCanGo => JoinsWait
  <1> DEFINE Joins == \A t \in Threads : Completes(t) /\ ex.pend[t].k = "join" => IsComplete(ex, ex.pend[t].x)
  <1>1. Init => TypeInv /\ LookInv
    BY InitialTypes, LookInit
  <1>2. TypeInv /\ LookInv /\ [Next]_vars /\ [ChosenComes]_vars => TypeInv' /\ LookInv'
    <2>1. ASSUME TypeInv, LookInv, UNCHANGED vars PROVE LookInv'
      BY <2>1 DEF LookInv, vars, Live
    <2> QED BY <2>1, TypesStep, LookStep
  <1>3. TypeInv /\ LookInv /\ [Next]_vars => [Joins]_vars
    BY LookedAtFirst DEF Blocking, CheckActionEnabled
  <1> QED BY <1>1, <1>2, <1>3, PTL DEF Spec, ChosenCanGo, JoinsWait

=============================================================================
