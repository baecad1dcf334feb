------------------------------ MODULE PctProofs ------------------------------
(***************************************************************************)
(* The priority vectors of pctwm for every number of threads, bug depth,   *)
(* length and user program: every thread has exactly one priority.  Then   *)
(* what an execution is made of: the types of all variables, and where in  *)
(* its program each thread is.                                             *)
(***************************************************************************)
EXTENDS PctProperties, FiniteSetTheorems, SequenceTheorems, WellFoundedInduction, TLAPS

\* The slots of lowvec: one per change point, and at least one.
LowSlots == IF BugDepth > 1 THEN 1 .. BugDepth ELSE {1}

Never(v, t) == \A i \in DOMAIN v : v[i] # t
Once(v, t)  == \E i \in DOMAIN v : v[i] = t /\ \A j \in DOMAIN v \ {i} : v[j] # t

\* A pair of vectors in which the threads up to num have one slot each.
IsVectors(p, num) ==
  /\ p \in [high : Seq(1 .. num \cup {NoThread}), low : [LowSlots -> 0 .. num \cup {NoThread}]]
  /\ \A t \in 1 .. num : \/ Once(p.high, t) /\ Never(p.low, t)
                         \/ Never(p.high, t) /\ Once(p.low, t)

\* Threads that do not exist are disabled, and the slots of the change points
\* that are still to come hold no thread.
Good(e) ==
  /\ {"num", "p", "instr", "en"} \subseteq DOMAIN e
  /\ e.num \in Nat \ {0}
  /\ e.instr \in 0 .. InstrCap
  /\ e.en \in [Threads -> {Disabled, Enabled, SleepSet}]
  /\ \A t \in Threads : t > e.num => e.en[t] = Disabled
  /\ IsVectors(e.p, e.num)
  /\ \A i \in 1 .. BugDepth : chg[i] > e.instr => e.p.low[i] \notin 1 .. e.num

----------------------------------------------------------------------------
(* The operations on the vectors.                                          *)

\* A thread in one slot has one slot in the sense of the runs.
LEMMA OneSlot ==
  ASSUME NEW p, NEW t, \/ Once(p.high, t) /\ Never(p.low, t)
                       \/ Never(p.high, t) /\ Once(p.low, t)
  PROVE  Cardinality(Slots(p, t)) = 1
  <1>1. CASE Once(p.high, t) /\ Never(p.low, t)
    <2>1. PICK i \in DOMAIN p.high : p.high[i] = t /\ \A j \in DOMAIN p.high \ {i} : p.high[j] # t
      BY <1>1 DEF Once
    <2>2. {j \in DOMAIN p.high : p.high[j] = t} = {i} /\ {j \in DOMAIN p.low : p.low[j] = t} = {}
      BY <1>1, <2>1 DEF Never
    <2>3. Slots(p, t) = {<<"high", i>>}
      BY <2>2 DEF Slots
    <2> QED BY <2>3, FS_Singleton
  <1>2. CASE Never(p.high, t) /\ Once(p.low, t)
    <2>1. PICK i \in DOMAIN p.low : p.low[i] = t /\ \A j \in DOMAIN p.low \ {i} : p.low[j] # t
      BY <1>2 DEF Once
    <2>2. {j \in DOMAIN p.low : p.low[j] = t} = {i} /\ {j \in DOMAIN p.high : p.high[j] = t} = {}
      BY <1>2, <2>1 DEF Never
    <2>3. Slots(p, t) = {<<"low", i>>}
      BY <2>2 DEF Slots
    <2> QED BY <2>3, FS_Singleton
  <1> QED BY <1>1, <1>2

Inserted(v, n, pos, x) ==
  [i \in 1 .. n + 1 |-> IF i < pos THEN v[i] ELSE IF i = pos THEN x ELSE v[i - 1]]

\* The positions of a thread when another one, x, is inserted at pos.
LEMMA InsertedKeeps ==
  ASSUME NEW n \in Nat, NEW v, DOMAIN v = 1 .. n, NEW pos \in 1 .. n + 1, NEW x, NEW t
  PROVE  /\ t # x /\ Never(v, t) => Never(Inserted(v, n, pos, x), t)
         /\ t # x /\ Once(v, t) => Once(Inserted(v, n, pos, x), t)
         /\ Never(v, x) => Once(Inserted(v, n, pos, x), x)
  <1> SUFFICES ASSUME NEW w, w = Inserted(v, n, pos, x)
               PROVE  /\ t # x /\ Never(v, t) => Never(w, t)
                      /\ t # x /\ Once(v, t) => Once(w, t)
                      /\ Never(v, x) => Once(w, x)
    OBVIOUS
  <1>a. DOMAIN w = 1 .. n + 1
    BY DEF Inserted
  <1>b. \A i \in 1 .. n + 1 : /\ i < pos => w[i] = v[i]
                              /\ i = pos => w[i] = x
                              /\ i > pos => w[i] = v[i - 1]
    BY DEF Inserted
  <1>1. ASSUME t # x, Never(v, t) PROVE Never(w, t)
    <2>1. \A i \in 1 .. n : v[i] # t
      BY <1>1 DEF Never
    <2>2. ASSUME NEW i \in 1 .. n + 1 PROVE w[i] # t
      <3>1. i < pos => i \in 1 .. n
        OBVIOUS
      <3>2. i > pos => i - 1 \in 1 .. n
        OBVIOUS
      <3>3. i < pos \/ i = pos \/ i > pos
        OBVIOUS
      <3> QED BY <1>a, <1>b, <1>1, <2>1, <3>1, <3>2, <3>3
    <2> QED BY <1>a, <1>b, <2>2 DEF Never
  <1>2. ASSUME t # x, Once(v, t) PROVE Once(w, t)
    <2>1. PICK i \in 1 .. n : v[i] = t /\ \A j \in (1 .. n) \ {i} : v[j] # t
      BY <1>2 DEF Once
    <2> DEFINE k == IF i < pos THEN i ELSE i + 1
    <2>2. k \in 1 .. n + 1
      OBVIOUS
    <2>3. w[k] = t
      <3>1. CASE i < pos
        BY <1>a, <1>b, <2>1, <3>1
      <3>2. CASE ~ (i < pos)
        <4>1. i + 1 \in 1 .. n + 1 /\ i + 1 > pos /\ (i + 1) - 1 = i /\ k = i + 1
          BY <3>2
        <4> QED BY <1>a, <1>b, <2>1, <4>1
      <3> QED BY <3>1, <3>2
    <2>4. ASSUME NEW j \in (1 .. n + 1) \ {k} PROVE w[j] # t
      <3>1. CASE j < pos
        <4>1. j \in (1 .. n) \ {i}
          BY <3>1
        <4> QED BY <1>a, <1>b, <2>1, <3>1, <4>1
      <3>2. CASE j = pos
        BY <1>a, <1>b, <1>2, <3>2
      <3>3. CASE j > pos
        <4>1. j - 1 \in (1 .. n) \ {i}
          BY <3>3
        <4> QED BY <1>a, <1>b, <2>1, <3>3, <4>1
      <3> QED BY <3>1, <3>2, <3>3
    <2> QED BY <1>a, <1>b, <2>2, <2>3, <2>4 DEF Once
  <1>3. ASSUME Never(v, x) PROVE Once(w, x)
    <2>1. \A i \in 1 .. n : v[i] # x
      BY <1>3 DEF Never
    <2>2. w[pos] = x
      BY <1>a, <1>b
    <2>3. ASSUME NEW i \in (1 .. n + 1) \ {pos} PROVE w[i] # x
      <3>1. i < pos => i \in 1 .. n
        OBVIOUS
      <3>2. i > pos => i - 1 \in 1 .. n
        OBVIOUS
      <3>3. i < pos \/ i > pos
        OBVIOUS
      <3> QED BY <1>a, <1>b, <2>1, <3>1, <3>2, <3>3
    <2> QED BY <1>a, <1>b, <2>2, <2>3 DEF Once
  <1> QED BY <1>1, <1>2, <1>3

\* A new thread has the slot it is given, and the others keep theirs, if one
\* place further down.
LEMMA AddKeeps ==
  ASSUME NEW num \in Nat, NEW p, IsVectors(p, num), NEW pos \in 1 .. Len(p.high) + 1
  PROVE  /\ IsVectors(HighAddThread(p, pos, num + 1), num + 1)
         /\ HighAddThread(p, pos, num + 1).low = p.low
  <1> DEFINE q == HighAddThread(p, pos, num + 1)
             S == 1 .. num + 1 \cup {NoThread}
  <1>1. /\ p.high \in Seq(1 .. num \cup {NoThread})
        /\ p.low \in [LowSlots -> 0 .. num \cup {NoThread}]
        /\ p \in [high : Seq(1 .. num \cup {NoThread}), low : [LowSlots -> 0 .. num \cup {NoThread}]]
    BY DEF IsVectors
  <1>2. Len(p.high) \in Nat /\ DOMAIN p.high = 1 .. Len(p.high)
    BY <1>1
  <1>3. /\ q.high = [i \in 1 .. Len(p.high) + 1 |->
                       IF i < pos THEN p.high[i] ELSE IF i = pos THEN num + 1 ELSE p.high[i - 1]]
        /\ q.low = p.low
    BY <1>1 DEF HighAddThread
  <1>4. \A i \in 1 .. Len(p.high) + 1 :
          /\ i < pos => i \in 1 .. Len(p.high) /\ q.high[i] = p.high[i]
          /\ i = pos => q.high[i] = num + 1
          /\ i > pos => i - 1 \in 1 .. Len(p.high) /\ q.high[i] = p.high[i - 1]
    BY <1>2, <1>3
  <1>5. \A i \in 1 .. Len(p.high) + 1 : q.high[i] \in S
    <2>1. \A i \in 1 .. Len(p.high) : p.high[i] \in S
      BY <1>1, <1>2
    <2> QED BY <1>2, <1>4, <2>1
  <1>6. q.high \in Seq(S)
    <2>1. q.high \in [1 .. Len(p.high) + 1 -> S] /\ Len(p.high) + 1 \in Nat
      BY <1>2, <1>3, <1>5
    <2> QED BY <2>1
  <1>7. q.low \in [LowSlots -> 0 .. num + 1 \cup {NoThread}]
    BY <1>1, <1>3
  <1>8. DOMAIN q.high = 1 .. Len(p.high) + 1 /\ DOMAIN q.low = DOMAIN p.low
    BY <1>3
  <1>9. \A t \in 1 .. num + 1 : \/ Once(q.high, t) /\ Never(q.low, t)
                                \/ Never(q.high, t) /\ Once(q.low, t)
    <2> SUFFICES ASSUME NEW t \in 1 .. num + 1
                 PROVE  \/ Once(q.high, t) /\ Never(q.low, t)
                        \/ Never(q.high, t) /\ Once(q.low, t)
      OBVIOUS
    <2>1. Never(q.low, t) <=> Never(p.low, t)
      BY <1>3
    <2>2. /\ t # num + 1 /\ Never(p.high, t) => Never(q.high, t)
          /\ t # num + 1 /\ Once(p.high, t) => Once(q.high, t)
          /\ Never(p.high, num + 1) => Once(q.high, num + 1)
      <3>1. q.high = Inserted(p.high, Len(p.high), pos, num + 1)
        BY <1>3 DEF Inserted
      <3> QED BY <1>2, <3>1, InsertedKeeps
    <2>3. Never(p.high, num + 1) /\ Never(p.low, num + 1)
      BY <1>1, <1>2 DEF Never, NoThread
    <2>4. t = num + 1 \/ t \in 1 .. num
      OBVIOUS
    <2>5. CASE t = num + 1
      BY <2>1, <2>2, <2>3, <2>5
    <2>6. CASE t \in 1 .. num /\ t # num + 1
      BY <1>3, <2>1, <2>2, <2>6 DEF IsVectors
    <2> QED BY <2>4, <2>5, <2>6
  <1> QED BY <1>1, <1>3, <1>6, <1>7, <1>9 DEF IsVectors, HighAddThread

\* Every set of positions has a first one.
LEMMA Least ==
  ASSUME NEW T, T \subseteq Nat, T # {}
  PROVE  \E m \in T : \A k \in T : m <= k
  <1>1. PICK m \in T : \A k \in T : ~ (<<k, m>> \in OpToRel(<, Nat))
    BY WFMin, NatLessThanWellFounded, Zenon
  <1>2. \A k \in T : ~ (k < m)
    BY <1>1 DEF OpToRel
  <1> QED BY <1>2

\* FirstOf returns one of the threads it may choose from.
LEMMA FirstIsOne ==
  ASSUME NEW n \in Nat, NEW v, DOMAIN v = 1 .. n, NEW avail, NEW none
  PROVE  FirstOf(v, avail, none) \in avail \cup {none}
  <1>1. CASE \E i \in 1 .. n : v[i] \in avail
    <2> DEFINE T == {i \in 1 .. n : v[i] \in avail}
    <2>1. T \subseteq Nat /\ T # {}
      BY <1>1
    <2>2. PICK m \in T : \A k \in T : m <= k
      BY <2>1, Least
    <2>3. \E i \in 1 .. n : v[i] \in avail /\ \A j \in 1 .. n : v[j] \in avail => i <= j
      BY <2>2
    <2> QED BY <1>1, <2>3 DEF FirstOf
  <1>2. CASE ~ \E i \in 1 .. n : v[i] \in avail
    BY <1>2 DEF FirstOf
  <1> QED BY <1>1, <1>2

\* The slots of both vectors are numbered from 1.
LEMMA SlotNumbers ==
  ASSUME NEW num, NEW p, IsVectors(p, num)
  PROVE  /\ Len(p.high) \in Nat /\ DOMAIN p.high = 1 .. Len(p.high)
         /\ \E n \in Nat \ {0} : LowSlots = 1 .. n /\ DOMAIN p.low = 1 .. n /\ 1 .. BugDepth \subseteq 1 .. n
  <1>1. p.high \in Seq(1 .. num \cup {NoThread}) /\ DOMAIN p.low = LowSlots
    BY DEF IsVectors
  <1>2. CASE BugDepth > 1
    <2>1. BugDepth \in Nat \ {0} /\ LowSlots = 1 .. BugDepth
      BY <1>2, PctParams DEF LowSlots
    <2> QED BY <1>1, <2>1
  <1>3. CASE ~ (BugDepth > 1)
    <2>1. LowSlots = 1 .. 1 /\ 1 .. BugDepth \subseteq 1 .. 1 /\ 1 \in Nat \ {0}
      BY <1>3, PctParams DEF LowSlots
    <2> QED BY <1>1, <2>1
  <1> QED BY <1>2, <1>3

\* The highest thread, if there is one, is enabled, and so exists.
LEMMA HighestExists ==
  ASSUME NEW num \in Nat, NEW p, IsVectors(p, num), NEW en \in [Threads -> {Disabled, Enabled, SleepSet}],
         \A t \in Threads : t > num => en[t] = Disabled
  PROVE  HighestThread(p, en) \in 1 .. num \cup {NoThread}
  <1> DEFINE avail == EnabledSet(en)
  <1>1. avail \subseteq 1 .. num
    BY PctParams DEF EnabledSet, Threads, Enabled, Disabled
  <1>2. HighestThread(p, en) \in avail \cup {NoThread}
    <2>1. CASE Cardinality(avail) = 1
      <3>1. avail # {}
        BY <2>1, FS_EmptySet
      <3> QED BY <2>1, <3>1 DEF HighestThread
    <2>2. CASE Cardinality(avail) # 1
      <3>1. FirstOf(p.low, avail, NoThread) \in avail \cup {NoThread}
        BY SlotNumbers, FirstIsOne
      <3>2. FirstOf(p.high, avail, FirstOf(p.low, avail, NoThread))
              \in avail \cup {FirstOf(p.low, avail, NoThread)}
        BY SlotNumbers, FirstIsOne
      <3> QED BY <2>2, <3>1, <3>2 DEF HighestThread
    <2> QED BY <2>1, <2>2
  <1> QED BY <1>1, <1>2

\* ClearFirst empties a slot of t, if it has one, and no other.
LEMMA ClearKeeps ==
  ASSUME NEW n \in Nat, NEW v, DOMAIN v = 1 .. n, NEW t
  PROVE  /\ DOMAIN ClearFirst(v, t) = 1 .. n
         /\ \A i \in 1 .. n : ClearFirst(v, t)[i] \in {v[i], NoThread}
         /\ \A i \in 1 .. n : v[i] # t => ClearFirst(v, t)[i] = v[i]
         /\ Once(v, t) /\ t # NoThread => Never(ClearFirst(v, t), t)
  <1>1. CASE \E i \in 1 .. n : v[i] = t
    <2> DEFINE T == {i \in 1 .. n : v[i] = t}
    <2>1. T \subseteq Nat /\ T # {}
      BY <1>1
    <2>2. PICK m \in T : \A k \in T : m <= k
      BY <2>1, Least
    <2>3. \E i \in 1 .. n : v[i] = t /\ \A j \in 1 .. n : v[j] = t => i <= j
      BY <2>2
    <2>4. PICK f \in 1 .. n : v[f] = t /\ ClearFirst(v, t) = [v EXCEPT ![f] = NoThread]
      BY <1>1, <2>3 DEF ClearFirst
    <2>5. Once(v, t) => \A j \in 1 .. n : v[j] = t => j = f
      BY <2>4 DEF Once
    <2>6. DOMAIN ClearFirst(v, t) = 1 .. n
      BY <2>4
    <2>7. \A i \in 1 .. n : ClearFirst(v, t)[i] = IF i = f THEN NoThread ELSE v[i]
      BY <2>4
    <2>8. Once(v, t) /\ t # NoThread => Never(ClearFirst(v, t), t)
      BY <2>5, <2>6, <2>7 DEF Never
    <2> QED BY <2>4, <2>6, <2>7, <2>8
  <1>2. CASE ~ \E i \in 1 .. n : v[i] = t
    BY <1>2 DEF ClearFirst, Once
  <1> QED BY <1>1, <1>2

\* Filling a slot changes the slots of nobody but the old and new occupant.
LEMMA FillKeeps ==
  ASSUME NEW v, NEW idx \in DOMAIN v, NEW t, NEW u, v[idx] # u
  PROVE  /\ u # t /\ Never(v, u) => Never([v EXCEPT ![idx] = t], u)
         /\ u # t /\ Once(v, u) => Once([v EXCEPT ![idx] = t], u)
         /\ Never(v, t) => Once([v EXCEPT ![idx] = t], t)
  BY DEF Never, Once

\* A thread other than the one cleared keeps its slot.
LEMMA ClearOthers ==
  ASSUME NEW n \in Nat, NEW v, DOMAIN v = 1 .. n, NEW t, NEW u, u # t, u # NoThread
  PROVE  /\ Never(v, u) => Never(ClearFirst(v, t), u)
         /\ Once(v, u) => Once(ClearFirst(v, t), u)
  <1> SUFFICES ASSUME NEW w, w = ClearFirst(v, t)
               PROVE  (Never(v, u) => Never(w, u)) /\ (Once(v, u) => Once(w, u))
    OBVIOUS
  <1>1. DOMAIN w = 1 .. n
    BY ClearKeeps
  <1>2. \A i \in 1 .. n : w[i] \in {v[i], NoThread}
    BY ClearKeeps
  <1>3. \A i \in 1 .. n : v[i] # t => w[i] = v[i]
    BY ClearKeeps
  <1> QED BY <1>1, <1>2, <1>3 DEF Never, Once

\* A demotion to a slot that holds no thread keeps one slot per thread.
LEMMA MoveKeeps ==
  ASSUME NEW num \in Nat, NEW p, IsVectors(p, num), NEW t \in 1 .. num \cup {NoThread},
         NEW idx \in 1 .. BugDepth, p.low[idx] \notin 1 .. num
  PROVE  /\ IsVectors(MoveThread(p, idx, t), num)
         /\ \A i \in 1 .. BugDepth : i # idx /\ p.low[i] \notin 1 .. num
               => MoveThread(p, idx, t).low[i] \notin 1 .. num
  <1> DEFINE m == Len(p.high)
             E == 1 .. num \cup {NoThread}
             F == 0 .. num \cup {NoThread}
             q == MoveThread(p, idx, t)
  <1>1. /\ p \in [high : Seq(E), low : [LowSlots -> F]]
        /\ p.high \in Seq(E) /\ p.low \in [LowSlots -> F]
        /\ t \in E /\ t \in F
    BY DEF IsVectors
  <1>2. m \in Nat /\ DOMAIN p.high = 1 .. m
    BY SlotNumbers
  <1>3. PICK n \in Nat \ {0} : LowSlots = 1 .. n /\ DOMAIN p.low = 1 .. n /\ 1 .. BugDepth \subseteq 1 .. n
    BY SlotNumbers
  <1>4. idx \in 1 .. n
    BY <1>3
  <1>5. \A u \in 1 .. num : u # NoThread /\ p.low[idx] # u
    BY DEF NoThread
  <1>6. CASE \E i \in DOMAIN p.high : p.high[i] = t
    <2>1. q = [high |-> ClearFirst(p.high, t), low |-> [p.low EXCEPT ![idx] = t]]
      BY <1>6 DEF MoveThread
    <2>2. ClearFirst(p.high, t) \in Seq(E)
      <3> SUFFICES ASSUME NEW w, w = ClearFirst(p.high, t) PROVE w \in Seq(E)
        OBVIOUS
      <3>1. DOMAIN w = 1 .. m
        BY <1>2, ClearKeeps
      <3>2. \A i \in 1 .. m : w[i] \in {p.high[i], NoThread}
        BY <1>2, ClearKeeps
      <3>3. \A i \in 1 .. m : p.high[i] \in E
        BY <1>1, <1>2
      <3>4. w = [i \in 1 .. m |-> w[i]]
        BY <1>2, <1>6, <3>1 DEF ClearFirst
      <3>5. w \in [1 .. m -> E]
        BY <3>2, <3>3, <3>4
      <3> QED BY <1>2, <3>5
    <2>3. [p.low EXCEPT ![idx] = t] \in [LowSlots -> F]
      BY <1>1, <1>3
    <2>4. ASSUME NEW u \in 1 .. num
          PROVE  \/ Once(q.high, u) /\ Never(q.low, u)
                 \/ Never(q.high, u) /\ Once(q.low, u)
      <3>1. \/ Once(p.high, u) /\ Never(p.low, u)
            \/ Never(p.high, u) /\ Once(p.low, u)
        BY DEF IsVectors
      <3>2. CASE u = t
        <4>1. Once(p.high, t) /\ Never(p.low, t)
          BY <1>6, <3>1, <3>2 DEF Never
        <4>2. Never(q.high, t)
          BY <1>2, <1>5, <2>1, <3>2, <4>1, ClearKeeps
        <4>3. Once(q.low, t)
          BY <1>3, <1>4, <1>5, <2>1, <3>2, <4>1, FillKeeps
        <4> QED BY <3>2, <4>2, <4>3
      <3>3. CASE u # t
        <4>1. (Never(p.high, u) => Never(q.high, u)) /\ (Once(p.high, u) => Once(q.high, u))
          BY <1>2, <1>5, <2>1, <3>3, ClearOthers
        <4>2. (Never(p.low, u) => Never(q.low, u)) /\ (Once(p.low, u) => Once(q.low, u))
          BY <1>3, <1>4, <1>5, <2>1, <3>3, FillKeeps
        <4> QED BY <3>1, <4>1, <4>2
      <3> QED BY <3>2, <3>3
    <2>5. \A i \in 1 .. BugDepth : i # idx => q.low[i] = p.low[i]
      BY <1>3, <2>1
    <2>6. q \in [high : Seq(E), low : [LowSlots -> F]]
      BY <2>1, <2>2, <2>3
    <2>7. IsVectors(q, num)
      BY <2>4, <2>6 DEF IsVectors
    <2> QED BY <2>5, <2>7
  <1>7. CASE ~ \E i \in DOMAIN p.high : p.high[i] = t
    <2> DEFINE low == ClearFirst(p.low, t)
    <2>1. q = [p EXCEPT !.low = [low EXCEPT ![idx] = t]]
      BY <1>7 DEF MoveThread
    <2>2. q.high = p.high /\ q.low = [low EXCEPT ![idx] = t]
      BY <1>1, <2>1
    <2>3. DOMAIN low = 1 .. n
      BY <1>3, ClearKeeps
    <2>4. \A i \in 1 .. n : low[i] \in {p.low[i], NoThread}
      BY <1>3, ClearKeeps
    <2>5. q.low \in [LowSlots -> F]
      <3>1. \A i \in 1 .. n : p.low[i] \in F
        BY <1>1, <1>3
      <3>2. \A i \in 1 .. n : low[i] \in F
        BY <2>4, <3>1
      <3>3. [low EXCEPT ![idx] = t] = [i \in 1 .. n |-> IF i = idx THEN t ELSE low[i]]
        BY <2>3
      <3> QED BY <1>1, <1>3, <2>2, <3>2, <3>3
    <2>6. ASSUME NEW u \in 1 .. num
          PROVE  \/ Once(q.high, u) /\ Never(q.low, u)
                 \/ Never(q.high, u) /\ Once(q.low, u)
      <3>1. \/ Once(p.high, u) /\ Never(p.low, u)
            \/ Never(p.high, u) /\ Once(p.low, u)
        BY DEF IsVectors
      <3>2. low[idx] # u
        BY <1>4, <1>5, <2>4
      <3>3. CASE u = t
        <4>1. Never(p.high, t) /\ Once(p.low, t)
          BY <1>7, <3>1, <3>3 DEF Once
        <4>2. Never(low, t)
          BY <1>3, <1>5, <3>3, <4>1, ClearKeeps
        <4>3. Once(q.low, t)
          BY <1>4, <2>2, <2>3, <3>2, <3>3, <4>2, FillKeeps
        <4> QED BY <2>2, <3>3, <4>1, <4>3
      <3>4. CASE u # t
        <4>1. (Never(p.low, u) => Never(low, u)) /\ (Once(p.low, u) => Once(low, u))
          BY <1>3, <1>5, <3>4, ClearOthers
        <4>2. (Never(low, u) => Never(q.low, u)) /\ (Once(low, u) => Once(q.low, u))
          BY <1>4, <2>2, <2>3, <3>2, <3>4, FillKeeps
        <4> QED BY <2>2, <3>1, <4>1, <4>2
      <3> QED BY <3>3, <3>4
    <2>7. \A i \in 1 .. BugDepth : i # idx => q.low[i] \in {p.low[i], NoThread}
      BY <1>3, <2>2, <2>3, <2>4
    <2>8. IsVectors(q, num)
      BY <1>1, <2>1, <2>2, <2>5, <2>6 DEF IsVectors
    <2> QED BY <1>5, <2>7, <2>8
  <1> QED BY <1>6, <1>7

----------------------------------------------------------------------------
(* The operations on an execution.                                         *)

\* What a step that leaves vectors, counter and threads alone has to show.
LEMMA GoodKept ==
  ASSUME NEW e, NEW f, Good(e), DOMAIN f = DOMAIN e,
         f.num = e.num, f.p = e.p, f.instr = e.instr,
         f.en \in [Threads -> {Disabled, Enabled, SleepSet}],
         \A t \in Threads : t > e.num => f.en[t] = Disabled
  PROVE  Good(f)
  BY DEF Good

\* User code only fills in the thread's own operation.
LEMMA UserGood == ASSUME NEW e, NEW t, Good(e) PROVE Good(UserRuns(e, t))
  <1>1. ASSUME NEW d, Good(d), NEW o, NEW s PROVE Good(Stash(d, t, o, s))
    <2>1. /\ DOMAIN Stash(d, t, o, s) = DOMAIN d
          /\ Stash(d, t, o, s).num = d.num /\ Stash(d, t, o, s).p = d.p
          /\ Stash(d, t, o, s).instr = d.instr /\ Stash(d, t, o, s).en = d.en
      BY <1>1 DEF Stash, FutexEntry, Good
    <2> QED BY <1>1, <2>1, GoodKept DEF Good
  <1>2. ASSUME NEW d, Good(d), NEW s PROVE Good(Issue(d, t, s))
    BY <1>1, <1>2 DEF Issue
  <1> DEFINE f == [e EXCEPT !.flag = @ \/ e.last[t].sets]
  <1>3. Good(f)
    BY GoodKept DEF Good
  <1> QED BY <1>2, <1>3 DEF UserRuns

\* Putting a thread to sleep only disables it.
LEMMA SleepGood == ASSUME NEW e, NEW t, Good(e) PROVE Good(SleepThread(e, t))
  BY GoodKept DEF SleepThread, Good, Disabled

\* Threads that exist are woken.
LEMMA WakeGood == ASSUME NEW e, Good(e), NEW W, W \subseteq 1 .. e.num PROVE Good(WakeThreads(e, W))
  <1>1. \A t \in Threads : t > e.num => t \notin W
    BY DEF Good, Threads
  <1> QED BY <1>1, GoodKept DEF WakeThreads, Good

\* unlock wakes waiters of the mutex, which exist.
LEMMA UnlockGood ==
  ASSUME NEW e, Good(e), NEW t, NEW m, NEW o
  PROVE  Good(Unlocked(e, t, m)) /\ Good(Waiting(e, t, o))
  <1>1. ASSUME NEW n PROVE Good(Unlocked(e, t, n))
    <2> DEFINE W == {u \in 1 .. e.num : e.pend[u].k = "lock" /\ WaitingOn(e, u) = t}
    <2>1. Good(WakeThreads(e, W))
      BY WakeGood
    <2> HIDE DEF W
    <2>2. \A f : Good(f) => Good([f EXCEPT !.locked[n] = 0])
      BY GoodKept DEF Good
    <2> QED BY <2>1, <2>2 DEF Unlocked, W
  <1>2. \A f : Good(f) => Good([f EXCEPT !.waiters[o.x] = Enlisted(@, t), !.pend[t] = o])
    BY GoodKept DEF Good
  <1> QED BY <1>1, <1>2 DEF Waiting

\* notify wakes waiters that exist and have not completed.
LEMMA NotifyGood == ASSUME NEW e, Good(e), NEW W PROVE Good(Notified(e, W))
  <1> DEFINE V == {t \in 1 .. e.num : t \in W /\ e.st[t] # "completed"}
  <1>1. Good(WakeThreads(e, V))
    BY WakeGood
  <1>2. \A f : Good(f) => Good([f EXCEPT !.wake = [t \in Threads |-> t \in W \/ @[t]]])
    BY GoodKept DEF Good
  <1> QED BY <1>1, <1>2 DEF Notified

\* A thread is created enabled, with one slot in highvec.
LEMMA CreateGood ==
  ASSUME NEW e, Good(e), NEW pos \in 1 .. Len(e.p.high) + 1
  PROVE  Good([e EXCEPT !.num = @ + 1, !.en[e.num + 1] = Enabled,
                        !.p = HighAddThread(@, pos, e.num + 1)])
  <1> DEFINE f == [e EXCEPT !.num = @ + 1, !.en[e.num + 1] = Enabled,
                            !.p = HighAddThread(@, pos, e.num + 1)]
  <1>1. /\ DOMAIN f = DOMAIN e /\ f.num = e.num + 1 /\ f.instr = e.instr
        /\ f.en = [e.en EXCEPT ![e.num + 1] = Enabled]
        /\ f.p = HighAddThread(e.p, pos, e.num + 1)
    BY DEF Good
  <1>2. IsVectors(f.p, f.num) /\ f.p.low = e.p.low
    BY <1>1, AddKeeps DEF Good
  <1>3. f.en \in [Threads -> {Disabled, Enabled, SleepSet}]
    BY <1>1 DEF Good
  <1>4. \A t \in Threads : t > f.num => f.en[t] = Disabled
    BY <1>1, PctParams DEF Good, Threads
  <1>5. \A i \in 1 .. BugDepth : chg[i] > f.instr => f.p.low[i] \notin 1 .. f.num
    <2>1. \A i \in 1 .. BugDepth : e.p.low[i] \in 0 .. e.num \cup {NoThread}
      BY SlotNumbers DEF Good, IsVectors
    <2> QED BY <1>1, <1>2, <2>1 DEF Good, NoThread
  <1> QED BY <1>1, <1>2, <1>3, <1>4, <1>5 DEF Good

\* Whatever an operation does, it keeps the priorities in order.
LEMMA ExecutedGood ==
  ASSUME NEW e, Good(e), NEW t \in 1 .. e.num, NEW o, NEW f \in Executed(e, t, o)
  PROVE  Good(f)
  <1> DEFINE States == {Disabled, Enabled, SleepSet}
  <1>1. ASSUME NEW d, Good(d), d.num = e.num
        PROVE  /\ Good([d EXCEPT !.en[t] = SleepSet])
               /\ Good([d EXCEPT !.pend[t] = o, !.en[t] = SleepSet])
               /\ \A m : Good(Locked(d, t, m))
               /\ \A r : Good([d EXCEPT !.ret[t] = r])
               /\ \A q : Good([d EXCEPT !.waiters[o.x] = q])
               /\ Good([d EXCEPT !.st[t] = "completed"])
               /\ Good([d EXCEPT !.st[t] = "completed", !.over = TRUE])
    <2>0. \A u \in Threads : u > d.num => u # t
      BY <1>1, PctParams DEF Good, Threads
    <2>1. Good([d EXCEPT !.en[t] = SleepSet])
      BY <1>1, <2>0, GoodKept DEF Good
    <2>2. Good([d EXCEPT !.pend[t] = o, !.en[t] = SleepSet])
      BY <1>1, <2>0, GoodKept DEF Good
    <2>3. ASSUME NEW m PROVE Good(Locked(d, t, m))
      BY <1>1, GoodKept DEF Good, Locked
    <2>4. ASSUME NEW r PROVE Good([d EXCEPT !.ret[t] = r])
      BY <1>1, GoodKept DEF Good
    <2>5. ASSUME NEW q PROVE Good([d EXCEPT !.waiters[o.x] = q])
      BY <1>1, GoodKept DEF Good
    <2>6. Good([d EXCEPT !.st[t] = "completed"])
      BY <1>1, GoodKept DEF Good
    <2>7. Good([d EXCEPT !.st[t] = "completed", !.over = TRUE])
      BY <1>1, GoodKept DEF Good
    <2> QED BY <2>1, <2>2, <2>3, <2>4, <2>5, <2>6, <2>7
  <1>2. Good(Waiting(e, t, o)) /\ Waiting(e, t, o).num = e.num
    BY UnlockGood DEF Waiting, Unlocked, WakeThreads, Good
  <1>3. CASE o.k = "create"
    BY <1>3, CreateGood DEF Executed
  <1>4. CASE o.k = "lock"
    <2>1. f = Locked(e, t, o.x)
      BY <1>4 DEF Executed
    <2> QED BY <1>1, <2>1
  <1>5. CASE o.k = "trylock"
    <2>1. \/ f = [e EXCEPT !.ret[t] = "no"]
          \/ f = [Locked(e, t, o.x) EXCEPT !.ret[t] = "yes"]
      BY <1>5 DEF Executed
    <2> DEFINE d == Locked(e, t, o.x)
    <2>2. Good(d) /\ d.num = e.num
      BY <1>1 DEF Locked, Good
    <2> HIDE DEF d
    <2>3. Good([e EXCEPT !.ret[t] = "no"])
      BY <1>1
    <2>4. Good([d EXCEPT !.ret[t] = "yes"])
      BY <1>1, <2>2
    <2> QED BY <2>1, <2>3, <2>4 DEF d
  <1>6. CASE o.k = "unlock"
    BY <1>6, UnlockGood DEF Executed
  <1>7. CASE o.k = "wait"
    <2>1. f = SleepThread(Waiting(e, t, o), t) \/ f = [Waiting(e, t, o) EXCEPT !.en[t] = SleepSet]
      BY <1>7 DEF Executed
    <2> DEFINE d == Waiting(e, t, o)
    <2>2. Good(d) /\ d.num = e.num
      BY <1>2
    <2> HIDE DEF d
    <2>3. Good(SleepThread(d, t))
      BY <2>2, SleepGood
    <2>4. Good([d EXCEPT !.en[t] = SleepSet])
      BY <1>1, <2>2
    <2> QED BY <2>1, <2>3, <2>4 DEF d
  <1>8. CASE o.k = "timedwait"
    <2>1. f = [e EXCEPT !.ret[t] = "timeout"] \/ f = [Waiting(e, t, o) EXCEPT !.en[t] = SleepSet]
      BY <1>8 DEF Executed
    <2> DEFINE d == Waiting(e, t, o)
    <2>2. Good(d) /\ d.num = e.num
      BY <1>2
    <2> HIDE DEF d
    <2>3. Good([e EXCEPT !.ret[t] = "timeout"])
      BY <1>1
    <2>4. Good([d EXCEPT !.en[t] = SleepSet])
      BY <1>1, <2>2
    <2> QED BY <2>1, <2>3, <2>4 DEF d
  <1>9. ASSUME NEW W PROVE Good(Notified(e, W)) /\ Notified(e, W).num = e.num
    BY NotifyGood DEF Notified, WakeThreads, Good
  <1>10. CASE o.k = "notify_all"
    <2>1. f = [Notified(e, Listed(e.waiters[o.x])) EXCEPT !.waiters[o.x] = Nobody]
      BY <1>10 DEF Executed
    <2> QED BY <1>1, <1>9, <2>1
  <1>11. CASE o.k = "notify_one" /\ Listed(e.waiters[o.x]) # {}
    <2>1. PICK u \in Listed(e.waiters[o.x]) :
            f = [Notified(e, {u}) EXCEPT !.waiters[o.x] = Delisted(@, u)]
      BY <1>11 DEF Executed
    <2> DEFINE d == Notified(e, {u})
    <2>2. Good(d) /\ d.num = e.num
      BY <1>9
    <2>3. f = [d EXCEPT !.waiters[o.x] = Delisted(@, u)]
      BY <2>1
    <2> HIDE DEF d
    <2> QED BY <1>1, <2>2, <2>3
  <1>12. CASE o.k = "sleep"
    BY <1>1, <1>12 DEF Executed
  <1>13. CASE o.k = "finish" /\ t = 1
    BY <1>1, <1>13 DEF Executed
  <1>14. CASE o.k = "exit" \/ (o.k = "finish" /\ t # 1)
    <2> DEFINE W == {u \in 1 .. e.num : e.pend[u].k = "join" /\ WaitingOn(e, u) = t}
    <2>1. f = [WakeThreads(e, W) EXCEPT !.st[t] = "completed"]
      BY <1>14 DEF Executed
    <2>2. Good(WakeThreads(e, W)) /\ WakeThreads(e, W).num = e.num
      BY WakeGood DEF WakeThreads, Good
    <2> HIDE DEF W
    <2> QED BY <1>1, <2>1, <2>2
  <1>15. CASE o.k = "spin"
    <2>1. PICK v : f = [e EXCEPT !.ret[t] = v]
      BY <1>15 DEF Executed
    <2> QED BY <1>1, <2>1
  <1>16. CASE ~ (\/ o.k \in {"create", "lock", "trylock", "unlock", "wait", "timedwait", "notify_all",
                             "sleep", "exit", "finish", "spin"}
                 \/ o.k = "notify_one" /\ Listed(e.waiters[o.x]) # {})
    BY <1>16 DEF Executed
  <1> QED BY <1>3, <1>4, <1>5, <1>6, <1>7, <1>8, <1>10, <1>11, <1>12, <1>13, <1>14, <1>15, <1>16

\* Sleeping threads exist.
LEMMA SleepersExist == ASSUME NEW e, Good(e) PROVE SleepingSet(e.en) \subseteq 1 .. e.num
  BY PctParams DEF Good, SleepingSet, Threads, SleepSet, Disabled

\* Sleepers whose time has come leave the lists of waiters.
LEMMA WakeSleepersGood ==
  ASSUME NEW e, Good(e), NEW W, W \subseteq 1 .. e.num
  PROVE  Good(WakeSleepers(e, W)) /\ WakeSleepers(e, W).num = e.num
  <1>1. \A t \in Threads : t > e.num => t \notin W
    BY DEF Good, Threads
  <1> QED BY <1>1, GoodKept DEF WakeSleepers, Good

----------------------------------------------------------------------------
(* The steps.                                                              *)

\* Change points lie below the cap of the counter, and are met once.
LEMMA CountedGood ==
  ASSUME chg \in ChangePoints, NEW e, Good(e), NEW t, NEW o
  PROVE  LET d == Counted(e, t, o)
             idx == ChangePoint(d, o)
         IN /\ Good(d) /\ d.num = e.num
            /\ idx # 0 => /\ idx \in 1 .. BugDepth
                          /\ chg[idx] = d.instr
                          /\ d.p.low[idx] \notin 1 .. d.num
  <1> DEFINE d == Counted(e, t, o)
             idx == ChangePoint(d, o)
  <1>1. InstrCap \in Nat /\ \A c \in RandomRange : c < InstrCap
    BY PctParams DEF InstrCap, ScheLenLimit, RandomRange
  <1>2. DOMAIN chg = 1 .. BugDepth /\ \A i \in 1 .. BugDepth : chg[i] \in Nat /\ chg[i] < InstrCap
    <2>1. chg \in [1 .. BugDepth -> RandomRange]
      BY DEF ChangePoints
    <2>2. \A c \in RandomRange : c \in Nat
      BY PctParams DEF RandomRange
    <2> QED BY <1>1, <2>1, <2>2
  <1>3. CASE ~ (InCount(o) /\ IsNew(o))
    <2>1. d = e /\ idx = 0
      BY <1>3 DEF Counted, ChangePoint
    <2> QED BY <2>1
  <1>4. CASE InCount(o) /\ IsNew(o)
    <2>1. d = [e EXCEPT !.instr = IF @ < InstrCap THEN @ + 1 ELSE @] /\ idx = FindChgIdx(chg, d.instr)
      BY <1>4 DEF Counted, ChangePoint
    <2>2. /\ DOMAIN d = DOMAIN e /\ d.num = e.num /\ d.p = e.p /\ d.en = e.en
          /\ d.instr = IF e.instr < InstrCap THEN e.instr + 1 ELSE e.instr
      BY <2>1 DEF Good
    <2>3. d.instr \in 0 .. InstrCap /\ \A i \in 1 .. BugDepth : chg[i] > d.instr => chg[i] > e.instr
      BY <1>1, <1>2, <2>2 DEF Good
    <2>4. Good(d)
      BY <2>2, <2>3 DEF Good
    <2>5. ASSUME idx # 0 PROVE idx \in 1 .. BugDepth /\ chg[idx] = d.instr
      BY <1>2, <2>1, <2>5 DEF FindChgIdx
    <2>6. ASSUME idx # 0 PROVE d.p.low[idx] \notin 1 .. d.num
      <3>1. chg[idx] > e.instr
        BY <1>1, <1>2, <2>2, <2>5, <2>6 DEF Good
      <3> QED BY <2>2, <2>5, <2>6, <3>1 DEF Good
    <2> QED BY <2>2, <2>4, <2>5, <2>6
  <1> QED BY <1>3, <1>4

\* At its change point the highest thread is demoted.
LEMMA DemotedGood ==
  ASSUME chg \in ChangePoints, NEW e, Good(e), NEW t, NEW o, NEW idx,
         idx # 0 => idx \in 1 .. BugDepth /\ chg[idx] = e.instr /\ e.p.low[idx] \notin 1 .. e.num
  PROVE  Good(Demoted(e, t, o, idx)) /\ Demoted(e, t, o, idx).num = e.num
  <1>1. CASE idx = 0
    BY <1>1 DEF Demoted
  <1>2. CASE idx # 0
    <2> DEFINE h == HighestThread(e.p, e.en)
               f == Demoted(e, t, o, idx)
    <2>1. /\ DOMAIN f = DOMAIN e /\ f.num = e.num /\ f.instr = e.instr /\ f.en = e.en
          /\ f.p = MoveThread(e.p, idx, h)
      BY <1>2 DEF Demoted, Good
    <2>2. h \in 1 .. e.num \cup {NoThread}
      BY HighestExists DEF Good
    <2>3. /\ IsVectors(f.p, f.num)
          /\ \A i \in 1 .. BugDepth : i # idx /\ e.p.low[i] \notin 1 .. e.num => f.p.low[i] \notin 1 .. e.num
      <3>1. /\ IsVectors(e.p, e.num) /\ e.num \in Nat
            /\ idx \in 1 .. BugDepth /\ e.p.low[idx] \notin 1 .. e.num
        BY <1>2 DEF Good
      <3>2. /\ IsVectors(MoveThread(e.p, idx, h), e.num)
            /\ \A i \in 1 .. BugDepth : i # idx /\ e.p.low[i] \notin 1 .. e.num
                  => MoveThread(e.p, idx, h).low[i] \notin 1 .. e.num
        BY <2>2, <3>1, MoveKeeps
      <3> QED BY <2>1, <3>2
    <2>4. \A i \in 1 .. BugDepth : chg[i] > f.instr => i # idx
      BY <1>2, <2>1 DEF Good
    <2>5. \A i \in 1 .. BugDepth : chg[i] > f.instr => f.p.low[i] \notin 1 .. f.num
      BY <2>1, <2>3, <2>4 DEF Good
    <2> QED BY <2>1, <2>3, <2>5 DEF Good
  <1> QED BY <1>1, <1>2

\* Settling a step touches no vector and creates no thread.
LEMMA SettledGood ==
  ASSUME NEW e, Good(e), NEW t
  PROVE  Good(Settled(e, t)) /\ Good(Reported(e)) /\ Good(Reported(Settled(e, t)))
  <1>1. ASSUME NEW d, Good(d) PROVE Good(Reported(d))
    <2>1. Good([d EXCEPT !.bug = "deadlock"])
      BY <1>1, GoodKept DEF Good
    <2> QED BY <1>1, <2>1 DEF Reported
  <1>2. Good(Settled(e, t))
    <2>1. Good([e EXCEPT !.en[t] = Disabled])
      BY GoodKept DEF Good
    <2> QED BY <2>1 DEF Settled
  <1> QED BY <1>1, <1>2

\* The runtime picks a thread, and wakes it if all threads that can run sleep.
LEMMA PickGood ==
  ASSUME Good(ex), NEW pick \in Picks
  PROVE  Good(pick[2]) /\ pick[2].num = ex.num
  <1>1. ASSUME NEW t \in SleepingSet(ex.en)
        PROVE  LET f == [ex EXCEPT !.en[t] = Enabled, !.wake[t] = TRUE] IN Good(f) /\ f.num = ex.num
    <2>1. t \in 1 .. ex.num
      BY SleepersExist
    <2>2. \A u \in Threads : u > ex.num => u # t
      BY <2>1, PctParams DEF Good, Threads
    <2> QED BY <2>2, GoodKept DEF Good
  <1>2. \/ pick[2] = ex
        \/ \E t \in SleepingSet(ex.en) : pick[2] = [ex EXCEPT !.en[t] = Enabled, !.wake[t] = TRUE]
    <2>1. CASE chosen # 0
      <3>1. pick = <<chosen, ex>>
        BY <2>1 DEF Picks
      <3> QED BY <3>1
    <2>2. CASE chosen = 0 /\ EnabledSet(ex.en) = {}
      <3>1. pick \in {<<t, [ex EXCEPT !.en[t] = Enabled, !.wake[t] = TRUE]>> : t \in SleepingSet(ex.en)}
        BY <2>2 DEF Picks, Selections
      <3>2. PICK t \in SleepingSet(ex.en) : pick = <<t, [ex EXCEPT !.en[t] = Enabled, !.wake[t] = TRUE]>>
        BY <3>1
      <3>3. pick[2] = [ex EXCEPT !.en[t] = Enabled, !.wake[t] = TRUE]
        BY <3>2
      <3> QED BY <3>3
    <2>3. CASE chosen = 0 /\ EnabledSet(ex.en) # {}
      <3>1. \/ pick \in {<<t, ex>> : t \in EnabledSet(ex.en)}
            \/ pick = <<FindHighest(ex.p, EnabledSet(ex.en)), ex>>
        BY <2>3 DEF Picks, Selections
      <3>2. \E t : pick = <<t, ex>>
        BY <3>1
      <3>3. pick[2] = ex
        BY <3>2
      <3> QED BY <3>3
    <2> QED BY <2>1, <2>2, <2>3
  <1> QED BY <1>1, <1>2

\* An operation that is executed or put back.
LEMMA StepGood ==
  ASSUME chg \in ChangePoints, Good(ex), NEW t \in Threads, TakeStep(t)
  PROVE  Good(ex')
  <1>1. PICK pick \in Picks, W \in SUBSET SleepingSet(ex.en) :
          LET o  == ex.pend[t]
              e1 == Counted(WakeSleepers([pick[2] EXCEPT !.pend[t] = None], W), t, o)
          IN \E idx \in {ChangePoint(e1, o)} :
             \E e2 \in {Demoted(e1, t, o, idx)} :
             \E marked \in {[o EXCEPT !.ext = @ \/ idx # 0]} :
               IF PutBack(e2, t, o, idx)
                 THEN /\ ex' = [e2 EXCEPT !.pend[t] = marked]
                      /\ chosen' = SelectsNext(e2, t, marked)
                 ELSE \E e3 \in Processed(e2, t, marked) :
                        /\ ex' = IF e3.over THEN Reported(Settled(e3, t)) ELSE Settled(e3, t)
                        /\ chosen' = SelectsNext(ex', t, Unmarked(e2, marked))
    BY DEF TakeStep
  <1>2. t \in 1 .. ex.num
    BY DEF TakeStep, Threads
  <1> DEFINE o == ex.pend[t]
             e0 == WakeSleepers([pick[2] EXCEPT !.pend[t] = None], W)
             e1 == Counted(e0, t, o)
             idx == ChangePoint(e1, o)
             e2 == Demoted(e1, t, o, idx)
             marked == [o EXCEPT !.ext = @ \/ idx # 0]
  <1>3. Good(e0) /\ e0.num = ex.num
    <2>1. Good(pick[2]) /\ pick[2].num = ex.num
      BY PickGood
    <2> DEFINE d == [pick[2] EXCEPT !.pend[t] = None]
    <2>2. Good(d) /\ d.num = ex.num
      BY <2>1, GoodKept DEF Good
    <2>3. W \subseteq 1 .. ex.num
      BY SleepersExist
    <2> HIDE DEF d
    <2>4. Good(WakeSleepers(d, W)) /\ WakeSleepers(d, W).num = ex.num
      BY <2>2, <2>3, WakeSleepersGood
    <2> QED BY <2>4 DEF d
  <1>4. /\ Good(e1) /\ e1.num = ex.num
        /\ idx # 0 => idx \in 1 .. BugDepth /\ chg[idx] = e1.instr /\ e1.p.low[idx] \notin 1 .. e1.num
    <2> HIDE DEF e0
    <2> QED BY <1>3, CountedGood
  <1>5. Good(e2) /\ e2.num = ex.num
    <2> HIDE DEF e1, idx
    <2> QED BY <1>4, DemotedGood
  <1>6. \/ ex' = [e2 EXCEPT !.pend[t] = marked]
        \/ \E e3 \in Processed(e2, t, marked) : ex' \in {Reported(Settled(e3, t)), Settled(e3, t)}
    BY <1>1
  <1> HIDE DEF e2, marked
  <1>7. Good([e2 EXCEPT !.pend[t] = marked])
    BY <1>5, GoodKept DEF Good
  <1>8. ASSUME NEW e3 \in Processed(e2, t, marked) PROVE Good(e3)
    <2>1. PICK f \in Executed(e2, t, marked) :
            e3 = [f EXCEPT !.extjob[t] = @ /\ ~LoadsBelowLimit(e2, marked),
                           !.last[t].ext = Unmarked(e2, marked).ext]
      BY <1>8 DEF Processed
    <2>2. Good(f)
      BY <1>2, <1>5, ExecutedGood
    <2> QED BY <2>1, <2>2, GoodKept DEF Good
  <1> QED BY <1>6, <1>7, <1>8, SettledGood

\* Main starts with the first slot of highvec.
LEMMA InitialGood == ASSUME chg \in ChangePoints, NEW code PROVE Good(Initial(MainSlot, code))
  <1> DEFINE empty == [high |-> <<>>, low |-> InitLow]
  <1>1. IsVectors(empty, 0) /\ empty.low = InitLow /\ Len(empty.high) = 0
    <2>1. InitLow \in [LowSlots -> 0 .. 0 \cup {NoThread}]
      BY PctParams DEF InitLow, LowSlots
    <2> QED BY <2>1 DEF IsVectors
  <1>2. MainSlot = HighAddThread(empty, 1, 0 + 1)
    BY DEF MainSlot
  <1> HIDE DEF empty
  <1>3. IsVectors(MainSlot, 1) /\ MainSlot.low = InitLow
    BY <1>1, <1>2, AddKeeps
  <1>4. \A i \in 1 .. BugDepth : InitLow[i] \notin 1 .. 1
    BY PctParams DEF InitLow, NoThread
  <1> DEFINE e == Initial(MainSlot, code)
  <1>5. /\ {"num", "p", "instr", "en"} \subseteq DOMAIN e
        /\ e.num = 1 /\ e.p = MainSlot /\ e.instr = 0
        /\ e.en = [t \in Threads |-> IF t = 1 THEN Enabled ELSE Disabled]
    BY DEF Initial
  <1>6. InstrCap \in Nat
    BY PctParams DEF InstrCap, ScheLenLimit
  <1> HIDE DEF e
  <1>7. Good(e)
    BY <1>3, <1>4, <1>5, <1>6 DEF Good, Threads
  <1> QED BY <1>7 DEF e

\* The inductive invariant.
PrioInv == chg \in ChangePoints /\ Good(ex)

\* Every step of the runtime, and the start of the next execution, keeps the
\* priorities in order.
LEMMA PrioStep == ASSUME PrioInv, [Next]_vars PROVE PrioInv'
  <1>0. chg \in ChangePoints /\ Good(ex)
    BY DEF PrioInv
  <1>1. chg' = chg
    BY DEF Next, vars, RunThread, FreeThread, BlockThread, PassThread, EndScan, StopAsserted,
       NothingToRun, ResumeWoken, TakeStep, StepOfNobody, FinishExecution, Over
  <1>2. SUFFICES Good(ex')
    BY <1>0, <1>1, <1>2 DEF PrioInv, Good
  <1>3. ASSUME ex' = ex PROVE Good(ex')
    BY <1>0, <1>3
  <1>4. CASE RunThread
    BY <1>0, <1>4, UserGood DEF RunThread
  <1>5. CASE FreeThread
    <2>1. Good([ex EXCEPT !.st[scan] = "freed"])
      BY <1>0, GoodKept DEF Good
    <2> QED BY <1>0, <1>5, <2>1 DEF FreeThread
  <1>6. CASE BlockThread
    BY <1>0, <1>6, SleepGood DEF BlockThread
  <1>7. CASE PassThread \/ EndScan \/ StopAsserted \/ StepOfNobody \/ Over \/ UNCHANGED vars
    BY <1>3, <1>7 DEF PassThread, EndScan, StopAsserted, StepOfNobody, Over, vars
  <1>8. CASE NothingToRun
    BY <1>0, <1>8, SettledGood DEF NothingToRun
  <1>9. ASSUME NEW t \in Threads, ResumeWoken(t) PROVE Good(ex')
    <2>1. PICK pick \in Picks : ex' = [pick[2] EXCEPT !.wake[t] = FALSE, !.pend[t] = None]
      BY <1>9 DEF ResumeWoken
    <2>2. Good(pick[2])
      BY <1>0, PickGood
    <2> QED BY <2>1, <2>2, GoodKept DEF Good
  <1>10. ASSUME NEW t \in Threads, TakeStep(t) PROVE Good(ex')
    BY <1>0, <1>10, StepGood
  <1>11. CASE FinishExecution
    BY <1>0, <1>3, <1>11, InitialGood DEF FinishExecution
  <1> QED BY <1>4, <1>5, <1>6, <1>7, <1>8, <1>9, <1>10, <1>11 DEF Next

\* In every execution of every program every thread has exactly one slot of
\* the priority vectors: none is forgotten by get_highest_thread, and none
\* keeps its old priority when movethread demotes it.
THEOREM PctOnePriority == Spec => []OnePriority
  <1>1. Init => PrioInv
    BY InitialGood DEF Init, PrioInv
  <1>2. PrioInv /\ [Next]_vars => PrioInv'
    BY PrioStep
  <1>3. PrioInv => OnePriority
    BY OneSlot DEF PrioInv, Good, IsVectors, OnePriority, Live
  <1> QED BY <1>1, <1>2, <1>3, PTL DEF Spec

-----------------------------------------------------------------------------
(* The types of the variables, and where each thread is.                   *)

Fields == {"num", "todo", "last", "pend", "st", "wake", "ret", "en", "p", "extjob", "instr",
           "locked", "waiters", "futex", "flag", "bug", "over"}
Places == Objects \cup Threads
Ops == [k : Kinds, x : Nat, y : Nat, n : Nat, sets : BOOLEAN, ext : BOOLEAN]

\* The whole program of t.
Code(t) == <<Start>> \o prog[t] \o <<Finish>>

\* s is what is left of it.
IsRest(t, s) ==
  /\ s \in Seq(Ops) /\ Len(s) <= Len(Code(t))
  /\ \A i \in 1 .. Len(s) : s[i] = Code(t)[Len(Code(t)) - Len(s) + i]

\* The threads that t's program joins.
Joined(t) == {prog[t][i].x : i \in {j \in DOMAIN prog[t] : prog[t][j].k = "join"}}

\* The objects of an operation of t, a wait on its own futex included.
FitsThread(t, o) ==
  /\ o.k \in {"unlock", "trylock"} => o.x \in Objects
  /\ o.k \in {"notify_one", "notify_all"} => o.x \in Places
  /\ o.k = "lock" => (o.x \in Objects /\ o.y \in Objects \cup {0}) \/ (o.x = t /\ o.y = t)
  /\ o.k = "wait" => (o.x \in Objects /\ o.y \in Objects) \/ (o.x = t /\ o.y = t)
  /\ o.k = "timedwait" => o.x \in Objects /\ o.y \in Objects
  /\ o.k = "join" => o.x \in Threads /\ o.x \in Joined(t)

\* Where t is in its program: what it did last, has pending and has left.
AtPlace(e, t) ==
  /\ IsRest(t, e.todo[t])
  /\ e.last[t].k \notin {"futexwait", "futexwake"}
  /\ FitsThread(t, e.last[t])
  /\ e.last[t].k = "none" => e.todo[t] = Code(t)
  /\ e.last[t].k \notin {"finish", "exit"} => e.todo[t] # <<>>
  /\ e.last[t].k = "trylock" => e.last[t].n < Len(e.todo[t])
  /\ HasPending(e, t) => /\ e.pend[t].k \notin {"assert"}
                         /\ e.pend[t].k = e.last[t].k
                         /\ e.pend[t].x = e.last[t].x /\ e.pend[t].y = e.last[t].y
  /\ e.pend[t].k = "create" => <<t, Len(prog[t]) + 1 - Len(e.todo[t])>> \in Creates(prog)
  /\ t > e.num => e.last[t].k = "none"

\* The threads that are still to be created, by the operations that do.
Coming(e) ==
  {c \in Creates(prog) : \/ Len(e.todo[c[1]]) > Len(prog[c[1]]) + 1 - c[2]
                         \/ /\ Len(e.todo[c[1]]) = Len(prog[c[1]]) + 1 - c[2]
                            /\ e.pend[c[1]].k = "create"}

\* An execution.
IsState(e) ==
  /\ DOMAIN e = Fields
  /\ e.last \in [Threads -> Ops] /\ e.pend \in [Threads -> Ops]
  /\ e.st \in [Threads -> {"created", "ready", "blocked", "completed", "freed"}]
  /\ e.wake \in [Threads -> BOOLEAN]
  /\ e.ret \in [Threads -> {"none", "yes", "no", "timeout"}]
  /\ e.locked \in [Places -> 0 .. e.num]
  /\ e.waiters \in [Places -> [Threads -> Nat]]
  /\ \A c \in Places : Listed(e.waiters[c]) \subseteq 1 .. e.num
  /\ e.futex \in Threads \cup {0}
  /\ e.bug \in {"none", "assert", "cycle", "deadlock"}
  /\ e.todo \in [Threads -> Seq(Ops)]
  /\ \A t \in Threads : AtPlace(e, t)
  /\ e.num + Cardinality(Coming(e)) <= MaxThreads

TypeInv ==
  /\ PrioInv
  /\ prog \in Programs
  /\ IsState(ex)
  /\ chosen \in 0 .. MaxThreads
  /\ scan \in 1 .. MaxThreads + 1
  /\ mode \in {"choose", "finish", "exit"} => scan = 1
  /\ mode \in {"scan", "choose", "finish", "exit", "hang", "crash"}

----------------------------------------------------------------------------
(* Programs.                                                               *)

\* The program of t between its start and its finish.
LEMMA CodeIs ==
  ASSUME prog \in Programs, NEW t \in Threads
  PROVE  /\ prog[t] \in Seq(UserOps) /\ Len(prog[t]) \in Nat
         /\ Code(t) \in Seq(Ops)
         /\ Len(Code(t)) = Len(prog[t]) + 2
         /\ Code(t)[1] = Start /\ Code(t)[Len(prog[t]) + 2] = Finish
         /\ \A i \in 1 .. Len(prog[t]) :
              /\ Code(t)[i + 1] = prog[t][i]
              /\ prog[t][i] \in UserOps
              /\ FitsObjects(prog[t][i])
              /\ prog[t][i].k = "trylock" => i + prog[t][i].n <= Len(prog[t])
  <1>1. prog[t] \in Seq(UserOps)
    BY ProgramsOK
  <1>2. UserOps \subseteq Ops /\ Start \in Ops /\ Finish \in Ops
    <2>1. UserKinds \subseteq Kinds /\ "start" \in Kinds /\ "finish" \in Kinds
      BY Zenon DEF UserKinds, Kinds
    <2>2. Start \in Ops /\ Finish \in Ops
      BY <2>1 DEF Ops, Start, Finish, Op
    <2>3. UserOps \subseteq Ops
      BY <2>1 DEF UserOps, Ops
    <2> QED BY <2>2, <2>3
  <1>3. Len(prog[t]) \in Nat /\ prog[t] \in Seq(Ops)
    BY <1>1, <1>2
  <1>4. /\ <<Start>> \o prog[t] \in Seq(Ops)
        /\ Len(<<Start>> \o prog[t]) = Len(prog[t]) + 1
        /\ (<<Start>> \o prog[t])[1] = Start
        /\ \A i \in 1 .. Len(prog[t]) : (<<Start>> \o prog[t])[i + 1] = prog[t][i]
    BY <1>2, <1>3
  <1> DEFINE s == <<Start>> \o prog[t]
  <1> HIDE DEF s
  <1>5. /\ s \o <<Finish>> \in Seq(Ops)
        /\ Len(s \o <<Finish>>) = Len(s) + 1
        /\ (s \o <<Finish>>)[Len(s) + 1] = Finish
        /\ \A i \in 1 .. Len(s) : (s \o <<Finish>>)[i] = s[i]
    BY <1>2, <1>4 DEF s
  <1>6. Code(t) = s \o <<Finish>>
    BY DEF Code, s
  <1>7. \A i \in 1 .. Len(prog[t]) : /\ prog[t][i] \in UserOps
                                     /\ FitsObjects(prog[t][i])
                                     /\ prog[t][i].k = "trylock" => i + prog[t][i].n <= Len(prog[t])
    BY <1>1, ProgramsOK
  <1> HIDE DEF Code
  <1>8. Len(s) = Len(prog[t]) + 1 /\ s[1] = Start
        /\ \A i \in 1 .. Len(prog[t]) : i + 1 \in 1 .. Len(s) /\ s[i + 1] = prog[t][i]
    BY <1>3, <1>4 DEF s
  <1>9. 1 \in 1 .. Len(s) /\ Len(s) + 1 = Len(prog[t]) + 2
    BY <1>3, <1>8
  <1>10. Code(t) \in Seq(Ops) /\ Len(Code(t)) = Len(prog[t]) + 2
    BY <1>5, <1>6, <1>9
  <1>11. Code(t)[1] = Start
    BY <1>5, <1>6, <1>8, <1>9
  <1>12. Code(t)[Len(prog[t]) + 2] = Finish
    BY <1>5, <1>6, <1>9
  <1>13. \A i \in 1 .. Len(prog[t]) : Code(t)[i + 1] = prog[t][i]
    BY <1>5, <1>6, <1>8
  <1> QED BY <1>1, <1>3, <1>7, <1>10, <1>11, <1>12, <1>13

\* What each operation of a program, its start and its finish included, is.
LEMMA CodeOps ==
  ASSUME prog \in Programs, NEW t \in Threads, NEW i \in 1 .. Len(Code(t))
  PROVE  /\ Code(t)[i] \in Ops
         /\ Code(t)[i].k \notin {"none", "rmw"} /\ ~Code(t)[i].ext
         /\ Code(t)[i].k = "start" <=> i = 1
         /\ Code(t)[i].k = "finish" <=> i = Len(Code(t))
         /\ FitsThread(t, Code(t)[i])
         /\ Code(t)[i].k = "trylock" => Code(t)[i].n < Len(Code(t)) - i
         /\ Code(t)[i].k = "create" => <<t, i - 1>> \in Creates(prog)
  <1> DEFINE n == Len(prog[t])
             c == Code(t)
  <1>1. /\ n \in Nat /\ c \in Seq(Ops) /\ Len(c) = n + 2 /\ c[1] = Start /\ c[n + 2] = Finish
        /\ prog[t] \in Seq(UserOps)
        /\ \A j \in 1 .. n : /\ c[j + 1] = prog[t][j] /\ prog[t][j] \in UserOps /\ FitsObjects(prog[t][j])
                             /\ prog[t][j].k = "trylock" => j + prog[t][j].n <= n
    BY CodeIs
  <1> HIDE DEF n, c
  <1>2. c[i] \in Ops
    BY <1>1 DEF c
  <1>3. CASE i = 1
    BY <1>1, <1>2, <1>3 DEF Start, Op, FitsThread, c
  <1>4. CASE i = n + 2
    BY <1>1, <1>2, <1>4 DEF Finish, Op, FitsThread, c
  <1>5. CASE i # 1 /\ i # n + 2
    <2> DEFINE j == i - 1
    <2>1. j \in 1 .. n /\ i = j + 1
      BY <1>1, <1>5 DEF c
    <2>2. /\ c[i] = prog[t][j] /\ prog[t][j] \in UserOps /\ FitsObjects(prog[t][j])
          /\ prog[t][j].k = "trylock" => j + prog[t][j].n <= n
      BY <1>1, <2>1
    <2>3. c[i].k \in UserKinds /\ c[i].n \in Nat /\ ~c[i].ext
      BY <2>2 DEF UserOps
    <2>4. FitsThread(t, c[i])
      <3>1. j \in DOMAIN prog[t]
        BY <1>1, <2>1 DEF n
      <3> QED BY <2>2, <3>1 DEF FitsThread, FitsObjects, Places, Joined
    <2>5. c[i].k = "create" => <<t, j>> \in Creates(prog)
      <3>1. j \in DOMAIN prog[t]
        BY <1>1, <2>1 DEF n
      <3>2. <<t, j>> \in UNION {{u} \X DOMAIN prog[u] : u \in Threads}
        BY <3>1
      <3> QED BY <2>2, <3>2 DEF Creates
    <2>6. c[i].k = "trylock" => c[i].n < Len(c) - i
      <3>1. /\ n \in Nat /\ Len(c) = n + 2 /\ j \in Nat /\ i = j + 1 /\ c[i].n \in Nat
            /\ c[i].k = "trylock" => j + c[i].n <= n
        BY <1>1, <2>1, <2>2, <2>3
      <3> HIDE DEF j
      <3> QED BY <3>1
    <2>7. c[i].k \notin {"none", "rmw", "start", "finish"}
      BY <2>3 DEF UserKinds
    <2>8. i # Len(c) /\ j = i - 1
      BY <1>1, <1>5
    <2> HIDE DEF j
    <2> QED BY <1>2, <1>5, <2>3, <2>4, <2>5, <2>6, <2>7, <2>8 DEF c
  <1> QED BY <1>1, <1>3, <1>4, <1>5 DEF c

\* What is left after n more operations.
LEMMA RestOfRest ==
  ASSUME prog \in Programs, NEW t \in Threads, NEW s, IsRest(t, s), NEW n \in 0 .. Len(s)
  PROVE  /\ IsRest(t, SubSeq(s, n + 1, Len(s)))
         /\ Len(SubSeq(s, n + 1, Len(s))) = Len(s) - n
  <1> DEFINE q == SubSeq(s, n + 1, Len(s))
             c == Code(t)
  <1>1. Len(s) \in Nat /\ s \in Seq(Ops) /\ Len(c) \in Nat /\ Len(s) <= Len(c)
        /\ \A i \in 1 .. Len(s) : s[i] = c[Len(c) - Len(s) + i]
    BY CodeIs DEF IsRest
  <1>2. q \in Seq(Ops) /\ Len(q) = Len(s) - n /\ \A i \in 1 .. Len(s) - n : q[i] = s[n + i]
    BY <1>1
  <1> HIDE DEF q, c
  <1>3. ASSUME NEW i \in 1 .. Len(q) PROVE q[i] = c[Len(c) - Len(q) + i]
    <2>1. n + i \in 1 .. Len(s) /\ q[i] = s[n + i] /\ Len(c) - Len(s) + (n + i) = Len(c) - Len(q) + i
      BY <1>1, <1>2
    <2> QED BY <1>1, <2>1
  <1>4. IsRest(t, q)
    BY <1>1, <1>2, <1>3 DEF IsRest, c
  <1> QED BY <1>2, <1>4 DEF q

\* It ends with the finish of the thread.
LEMMA RestEnds ==
  ASSUME prog \in Programs, NEW t \in Threads, NEW s, IsRest(t, s), s # <<>>
  PROVE  /\ Len(s) \in Nat \ {0}
         /\ s[Len(s)] = Finish
         /\ \A i \in 1 .. Len(s) : s[i].k = "finish" <=> i = Len(s)
  <1> DEFINE c == Code(t)
  <1>1. /\ Len(s) \in Nat \ {0} /\ Len(c) \in Nat /\ Len(s) <= Len(c) /\ c[Len(c)] = Finish
        /\ \A i \in 1 .. Len(s) : s[i] = c[Len(c) - Len(s) + i]
    BY CodeIs DEF IsRest
  <1>2. \A i \in 1 .. Len(c) : c[i].k = "finish" <=> i = Len(c)
    BY CodeOps
  <1> HIDE DEF c
  <1>3. s[Len(s)] = Finish
    BY <1>1
  <1>4. ASSUME NEW i \in 1 .. Len(s) PROVE s[i].k = "finish" <=> i = Len(s)
    <2> DEFINE j == Len(c) - Len(s) + i
    <2>1. s[i] = c[j]
      BY <1>1
    <2>2. j \in 1 .. Len(c) /\ (j = Len(c) <=> i = Len(s))
      <3>1. Len(s) \in Nat \ {0} /\ Len(c) \in Nat /\ Len(s) <= Len(c)
        BY <1>1
      <3> QED BY <3>1
    <2> HIDE DEF j
    <2> QED BY <1>2, <2>1, <2>2
  <1> QED BY <1>1, <1>3, <1>4

\* No program has more operations that create a thread than it may.
LEMMA CreatesFinite ==
  ASSUME prog \in Programs
  PROVE  IsFiniteSet(Creates(prog)) /\ Cardinality(Creates(prog)) < MaxThreads
  <1> DEFINE S == {{t} \X DOMAIN prog[t] : t \in Threads}
  <1>1. IsFiniteSet(Threads)
    BY PctParams, FS_Interval DEF Threads
  <1>2. IsFiniteSet(S)
    <2> DEFINE f == [t \in Threads |-> {t} \X DOMAIN prog[t]]
    <2>1. f \in Surjection(Threads, S)
      BY DEF Surjection
    <2> QED BY <1>1, <2>1, FS_Surjection
  <1>3. ASSUME NEW t \in Threads PROVE IsFiniteSet({t} \X DOMAIN prog[t])
    <2>1. DOMAIN prog[t] = 1 .. Len(prog[t]) /\ Len(prog[t]) \in Nat
      BY CodeIs
    <2>2. IsFiniteSet(1 .. Len(prog[t]))
      BY <2>1, FS_Interval
    <2>3. IsFiniteSet({t})
      BY FS_Singleton
    <2> QED BY <2>1, <2>2, <2>3, FS_Product
  <1>4. IsFiniteSet(UNION S)
    BY <1>2, <1>3, FS_UNION
  <1>5. Creates(prog) \subseteq UNION S
    BY DEF Creates
  <1> QED BY <1>4, <1>5, FS_Subset, ProgramsOK

----------------------------------------------------------------------------
(* What a thread does next.                                                *)

\* o is an operation t may come to with r left to do, of which d was left
\* before it; the thread comes to it by the program or, when it repeats or
\* completes what it did last, by itself.
MayIssue(t, o, d, r) ==
  /\ IsRest(t, r) /\ Len(r) <= Len(d)
  /\ o \in Ops /\ o.k # "none" /\ FitsThread(t, o)
  /\ o.k \notin {"finish", "exit"} => r # <<>>
  /\ o.k = "trylock" => o.n < Len(r)
  /\ o.k = "create" => /\ Len(r) < Len(d)
                       /\ <<t, Len(prog[t]) + 1 - Len(r)>> \in Creates(prog)

\* An operation of what a thread has left is one its program may issue there.
LEMMA FromProgram ==
  ASSUME prog \in Programs, NEW t \in Threads, NEW d, IsRest(t, d), NEW i \in 1 .. Len(d)
  PROVE  /\ MayIssue(t, d[i], d, SubSeq(d, i + 1, Len(d)))
         /\ d[i].k # "rmw"
         /\ Len(d) = Len(Code(t)) /\ i = 1 => d[i] = Start
  <1> DEFINE c == Code(t)
             r == SubSeq(d, i + 1, Len(d))
             m == Len(c) - Len(r)
             n == Len(prog[t])
  <1>1. IsRest(t, r) /\ Len(r) = Len(d) - i
    <2>1. i \in 0 .. Len(d)
      OBVIOUS
    <2> QED BY <2>1, RestOfRest
  <1>2. /\ Len(d) \in Nat /\ Len(c) \in Nat /\ Len(d) <= Len(c) /\ c[1] = Start
        /\ Len(c) = n + 2 /\ n \in Nat
        /\ d[i] = c[Len(c) - Len(d) + i]
    BY CodeIs DEF IsRest
  <1> HIDE DEF c, r, n
  <1>3. /\ m \in 1 .. Len(c) /\ d[i] = c[m] /\ Len(c) - m = Len(r) /\ m - 1 = n + 1 - Len(r)
        /\ Len(d) = Len(c) /\ i = 1 => m = 1
    <2>1. m = Len(c) - Len(d) + i
      BY <1>1, <1>2
    <2>2. d[i] = c[m]
      BY <1>2, <2>1
    <2> HIDE DEF m
    <2>3. Len(d) \in Nat /\ Len(c) \in Nat /\ Len(d) <= Len(c) /\ Len(r) = Len(d) - i
          /\ Len(c) = n + 2 /\ n \in Nat
      BY <1>1, <1>2
    <2>4. m \in 1 .. Len(c) /\ Len(c) - m = Len(r)
      BY <2>1, <2>3
    <2>6. m - 1 = n + 1 - Len(r)
      BY <2>1, <2>3
    <2>5. Len(d) = Len(c) /\ i = 1 => m = 1
      BY <2>1, <2>3
    <2> QED BY <2>2, <2>4, <2>5, <2>6
  <1> HIDE DEF m
  <1>4. /\ d[i] \in Ops /\ d[i].k \notin {"none", "rmw"} /\ FitsThread(t, d[i])
        /\ d[i].k = "finish" <=> m = Len(c)
        /\ d[i].k = "trylock" => d[i].n < Len(r)
        /\ d[i].k = "create" => <<t, n + 1 - Len(r)>> \in Creates(prog)
    BY <1>3, CodeOps DEF c
  <1>5. r # <<>> \/ d[i].k = "finish"
    <2>1. CASE r = <<>>
      <3>1. Len(r) = 0
        BY <2>1
      <3>2. m = Len(c)
        BY <1>2, <1>3, <3>1
      <3> QED BY <1>4, <3>2
    <2> QED BY <2>1
  <1>6. Len(r) <= Len(d) /\ Len(r) < Len(d)
    BY <1>1, <1>2
  <1>7. MayIssue(t, d[i], d, r)
    BY <1>1, <1>4, <1>5, <1>6 DEF MayIssue, n
  <1>8. Len(d) = Len(c) /\ i = 1 => d[i] = Start
    BY <1>2, <1>3
  <1> QED BY <1>4, <1>7, <1>8 DEF r, c

\* The operations that user code and the wrappers come to by themselves.
Repeated(t, l, o) ==
  /\ o \in Ops /\ o.k \in {"lock", "wait", "futexwait", "trylock", "spin", "rmw"}
  /\ FitsThread(t, o)
  /\ o.k = "trylock" => o.n = 0
  /\ o.k = "rmw" <=> l.k = "rmwr"
  /\ l.k # "none"

\* What is left to do once the last operation has returned: a part of the
\* program, or an operation more.
LEMMA RestIs ==
  ASSUME prog \in Programs, NEW e, IsState(e), NEW t \in Threads,
         e.last[t].k \notin {"finish", "exit"}
  PROVE  \/ /\ e.last[t].k # "rmwr"
            /\ \E n \in 0 .. Len(e.todo[t]) - 1 :
                 /\ Rest(e, t) = SubSeq(e.todo[t], n + 1, Len(e.todo[t]))
                 /\ e.last[t].k = "none" => n = 0
         \/ \E o : Repeated(t, e.last[t], o) /\ Rest(e, t) = <<o>> \o e.todo[t]
  <1> DEFINE o == e.last[t]
             s == e.todo[t]
  <1>1. /\ o \in Ops /\ s \in Seq(Ops) /\ FitsThread(t, o) /\ s # <<>> /\ Len(s) \in Nat
        /\ o.k = "trylock" => o.n < Len(s)
    <2>1. AtPlace(e, t) /\ e.last \in [Threads -> Ops] /\ e.todo \in [Threads -> Seq(Ops)]
      BY DEF IsState
    <2> QED BY <2>1 DEF AtPlace
  <1>2. /\ o.k \in Kinds /\ o.x \in Nat /\ o.y \in Nat /\ o.n \in Nat /\ o.sets \in BOOLEAN /\ o.ext \in BOOLEAN
        /\ o = [k |-> o.k, x |-> o.x, y |-> o.y, n |-> o.n, sets |-> o.sets, ext |-> o.ext]
    BY <1>1 DEF Ops
  <1>3. Len(s) # 0 /\ SubSeq(s, 0 + 1, Len(s)) = s
    BY <1>1
  <1>4. Objects \subseteq Nat /\ Threads \subseteq Nat /\ Objects \cap Threads = {} /\ 0 \notin Objects /\ 0 \notin Threads
    BY RuntimeParams DEF Threads
  <1>5. CASE o.k = "wait"
    <2>1. Rest(e, t) = <<Op("lock", o.y, o.x)>> \o s
      BY <1>5 DEF Rest
    <2>2. Repeated(t, o, Op("lock", o.y, o.x))
      BY <1>1, <1>2, <1>4, <1>5 DEF Repeated, Op, Ops, Kinds, FitsThread, Places
    <2> QED BY <2>1, <2>2
  <1>6. CASE o.k = "timedwait" /\ e.ret[t] # "timeout"
    <2>1. Rest(e, t) = <<Op("lock", o.y, 0)>> \o s
      BY <1>6 DEF Rest
    <2>2. Repeated(t, o, Op("lock", o.y, 0))
      BY <1>1, <1>2, <1>4, <1>6 DEF Repeated, Op, Ops, Kinds, FitsThread, Places
    <2> QED BY <2>1, <2>2
  <1>7. CASE o.k = "lock" /\ o.y \in Objects /\ ~e.flag
    <2>1. Rest(e, t) = <<Op("wait", o.y, o.x)>> \o s
      BY <1>4, <1>7 DEF Rest
    <2>2. Repeated(t, o, Op("wait", o.y, o.x))
      BY <1>1, <1>2, <1>4, <1>7 DEF Repeated, Op, Ops, Kinds, FitsThread, Places
    <2> QED BY <2>1, <2>2
  <1>8. CASE o.k = "lock" /\ o.y \in Threads /\ ~e.flag
    <2>1. Rest(e, t) = <<Op("futexwait", 0, 0)>> \o s
      BY <1>4, <1>8 DEF Rest
    <2>2. Repeated(t, o, Op("futexwait", 0, 0))
      BY <1>8 DEF Repeated, Op, Ops, Kinds, FitsThread
    <2> QED BY <2>1, <2>2
  <1>9. CASE o.k = "trylock" /\ e.ret[t] = "no"
    <2>1. CASE o.n = 0
      <3>1. Rest(e, t) = <<o>> \o s
        BY <1>9, <2>1 DEF Rest
      <3>2. Repeated(t, o, o)
        BY <1>1, <1>9, <2>1 DEF Repeated
      <3> QED BY <3>1, <3>2
    <2>2. CASE o.n # 0
      <3>1. Rest(e, t) = SubSeq(s, o.n + 1, Len(s))
        BY <1>9, <2>2 DEF Rest
      <3>2. o.n \in 0 .. Len(s) - 1
        BY <1>1, <1>2, <1>9
      <3> QED BY <1>9, <3>1, <3>2
    <2> QED BY <2>1, <2>2
  <1>10. CASE o.k = "spin" /\ e.ret[t] = "no"
    <2>1. Rest(e, t) = <<[o EXCEPT !.ext = FALSE]>> \o s
      BY <1>10 DEF Rest
    <2>2. Repeated(t, o, [o EXCEPT !.ext = FALSE])
      BY <1>1, <1>2, <1>10 DEF Repeated, Ops, FitsThread
    <2> QED BY <2>1, <2>2
  <1>11. CASE o.k = "rmwr"
    <2>1. Rest(e, t) = <<[o EXCEPT !.k = "rmw"]>> \o s
      BY <1>11 DEF Rest
    <2>2. Repeated(t, o, [o EXCEPT !.k = "rmw"])
      BY <1>1, <1>2, <1>11 DEF Repeated, Ops, Kinds, FitsThread
    <2> QED BY <2>1, <2>2
  <1>12. CASE ~ (\/ o.k \in {"wait", "rmwr"}
                 \/ o.k = "timedwait" /\ e.ret[t] # "timeout"
                 \/ o.k = "lock" /\ o.y \in Objects /\ ~e.flag
                 \/ o.k = "lock" /\ o.y \in Threads /\ ~e.flag
                 \/ o.k = "trylock" /\ e.ret[t] = "no"
                 \/ o.k = "spin" /\ e.ret[t] = "no")
    <2>1. Rest(e, t) = s
      BY <1>12 DEF Rest
    <2>2. 0 \in 0 .. Len(s) - 1
      BY <1>1, <1>3
    <2> QED BY <1>3, <1>12, <2>1, <2>2
  <1> QED BY <1>5, <1>6, <1>7, <1>8, <1>9, <1>10, <1>11, <1>12

\* User code comes to an operation that is not skipped.
LEMMA Issues ==
  ASSUME prog \in Programs, NEW e, IsState(e), NEW t \in Threads,
         e.last[t].k \notin {"finish", "exit"}
  PROVE  \E o, r :
           /\ Issue(e, t, Rest(e, t)) = Stash(e, t, o, r)
           /\ MayIssue(t, o, e.todo[t], r)
           /\ ~Skips(e, o)
           /\ o.k = "rmw" <=> e.last[t].k = "rmwr"
           /\ e.last[t].k = "none" => o = Start
  <1> DEFINE d == e.todo[t]
             s == Rest(e, t)
             First(i) == ~Skips(e, s[i]) /\ \A j \in 1 .. i - 1 : Skips(e, s[j])
             Found(o, r) == /\ MayIssue(t, o, d, r)
                            /\ o.k = "rmw" <=> e.last[t].k = "rmwr"
                            /\ e.last[t].k = "none" => o = Start
  <1>1. /\ IsRest(t, d) /\ d # <<>> /\ d \in Seq(Ops)
        /\ e.last[t].k = "none" => Len(d) = Len(Code(t))
    BY DEF IsState, AtPlace, IsRest
  <1>2. Len(d) \in Nat \ {0} /\ d[Len(d)] = Finish
    BY <1>1, RestEnds
  <1>3. /\ s \in Seq(Ops) /\ Len(s) \in Nat \ {0} /\ s[Len(s)] = Finish
        /\ e.last[t].k \in {"none", "rmwr"} => ~Skips(e, s[1])
        /\ \A i \in 1 .. Len(s) :
             (e.last[t].k \in {"none", "rmwr"} => i = 1) => Found(s[i], SubSeq(s, i + 1, Len(s)))
    <2>0. Start.k = "start" /\ Finish.k = "finish"
      BY DEF Start, Finish, Op
    <2>1. CASE /\ e.last[t].k # "rmwr"
               /\ \E n \in 0 .. Len(d) - 1 : s = SubSeq(d, n + 1, Len(d)) /\ (e.last[t].k = "none" => n = 0)
      <3>1. PICK n \in 0 .. Len(d) - 1 : s = SubSeq(d, n + 1, Len(d)) /\ (e.last[t].k = "none" => n = 0)
        BY <2>1
      <3>2. n \in 0 .. Len(d)
        BY <1>2
      <3>3. IsRest(t, s) /\ Len(s) = Len(d) - n
        BY <1>1, <3>1, <3>2, RestOfRest
      <3>4. s # <<>> /\ Len(s) \in Nat \ {0} /\ s \in Seq(Ops) /\ Len(s) <= Len(d)
        <4>1. Len(s) \in Nat \ {0} /\ Len(s) <= Len(d)
          BY <1>2, <3>3
        <4>2. s \in Seq(Ops)
          BY <3>3 DEF IsRest
        <4> HIDE DEF s, d
        <4> QED BY <4>1, <4>2
      <3>5. s[Len(s)] = Finish
        BY <3>3, <3>4, RestEnds
      <3> HIDE DEF s
      <3>6. ASSUME NEW i \in 1 .. Len(s), e.last[t].k \in {"none", "rmwr"} => i = 1
            PROVE  Found(s[i], SubSeq(s, i + 1, Len(s)))
        <4>1. /\ MayIssue(t, s[i], s, SubSeq(s, i + 1, Len(s))) /\ s[i].k # "rmw"
              /\ Len(s) = Len(Code(t)) /\ i = 1 => s[i] = Start
          BY <3>3, FromProgram
        <4>2. MayIssue(t, s[i], d, SubSeq(s, i + 1, Len(s)))
          <5> DEFINE r == SubSeq(s, i + 1, Len(s))
          <5>1. Len(r) \in Nat /\ Len(r) <= Len(s)
            BY <3>4
          <5> HIDE DEF r, d
          <5>2. Len(r) <= Len(d) /\ (Len(r) < Len(s) => Len(r) < Len(d))
            BY <1>2, <3>4, <5>1
          <5> QED BY <4>1, <5>2 DEF MayIssue, r
        <4>3. e.last[t].k = "none" => Len(s) = Len(Code(t))
          BY <1>1, <1>2, <3>1, <3>3
        <4> QED BY <2>1, <3>6, <4>1, <4>2, <4>3
      <3>7. e.last[t].k = "none" => ~Skips(e, s[1])
        <4>1. e.last[t].k = "none" => s[1] = Start
          BY <3>4, <3>6
        <4> QED BY <2>0, <4>1 DEF Skips
      <3> QED BY <2>1, <3>4, <3>5, <3>6, <3>7
    <2>2. CASE \E o : Repeated(t, e.last[t], o) /\ s = <<o>> \o d
      <3>1. PICK o : Repeated(t, e.last[t], o) /\ s = <<o>> \o d
        BY <2>2
      <3>2. o \in Ops
        BY <3>1 DEF Repeated
      <3>3. /\ s \in Seq(Ops) /\ Len(s) = Len(d) + 1 /\ s[1] = o
            /\ \A i \in 1 .. Len(d) : s[i + 1] = d[i]
        <4> HIDE DEF s, d
        <4> QED BY <1>1, <3>1, <3>2
      <3> HIDE DEF s, d
      <3>4. Len(s) \in Nat \ {0} /\ s[Len(s)] = Finish
        BY <1>2, <3>3
      <3>5. ASSUME NEW i \in 1 .. Len(s)
            PROVE  SubSeq(s, i + 1, Len(s)) = SubSeq(d, i, Len(d))
        <4>1. SubSeq(s, i + 1, Len(s)) \in Seq(Ops) /\ SubSeq(d, i, Len(d)) \in Seq(Ops)
          BY <1>1, <1>2, <3>3
        <4>2. Len(SubSeq(s, i + 1, Len(s))) = Len(s) - i /\ Len(SubSeq(d, i, Len(d))) = Len(s) - i
          BY <1>1, <1>2, <3>3
        <4>3. ASSUME NEW j \in 1 .. Len(s) - i
              PROVE  SubSeq(s, i + 1, Len(s))[j] = SubSeq(d, i, Len(d))[j]
          <5>1. SubSeq(s, i + 1, Len(s))[j] = s[(i + j - 1) + 1] /\ SubSeq(d, i, Len(d))[j] = d[i + j - 1]
            BY <1>1, <1>2, <3>3
          <5>2. i + j - 1 \in 1 .. Len(d)
            BY <1>2, <3>3
          <5> QED BY <3>3, <5>1, <5>2
        <4> QED BY <4>1, <4>2, <4>3, SeqEqual
      <3>6. ASSUME NEW i \in 1 .. Len(s), e.last[t].k \in {"none", "rmwr"} => i = 1
            PROVE  Found(s[i], SubSeq(s, i + 1, Len(s)))
        <4>1. CASE i = 1
          <5>1. SubSeq(s, i + 1, Len(s)) = d
            <6>1. SubSeq(d, 1, Len(d)) = d
              BY <1>1
            <6> QED BY <3>5, <4>1, <6>1
          <5>2. MayIssue(t, o, d, d)
            BY <1>1, <1>2, <3>1 DEF MayIssue, Repeated
          <5> QED BY <3>1, <3>3, <4>1, <5>1, <5>2 DEF Repeated
        <4>2. CASE i # 1
          <5> DEFINE j == i - 1
          <5>1. j \in 1 .. Len(d) /\ s[i] = d[j] /\ SubSeq(s, i + 1, Len(s)) = SubSeq(d, j + 1, Len(d))
            BY <1>2, <3>3, <3>5, <4>2
          <5> HIDE DEF j
          <5>2. MayIssue(t, d[j], d, SubSeq(d, j + 1, Len(d))) /\ d[j].k # "rmw"
            BY <1>1, <5>1, FromProgram
          <5> QED BY <3>6, <4>2, <5>1, <5>2
        <4> QED BY <4>1, <4>2
      <3>7. e.last[t].k \in {"none", "rmwr"} => ~Skips(e, s[1])
        <4>1. e.last[t].k \in {"none", "rmwr"} => o.k = "rmw"
          BY <3>1 DEF Repeated
        <4> QED BY <3>3, <4>1 DEF Skips
      <3> QED BY <3>3, <3>4, <3>6, <3>7
    <2> QED BY <2>1, <2>2, RestIs
  <1> HIDE DEF s, d, Found
  <1>4. ~Skips(e, s[Len(s)])
    BY <1>3 DEF Skips, Finish, Op
  <1>5. \E i \in 1 .. Len(s) : First(i)
    <2> DEFINE T == {i \in 1 .. Len(s) : ~Skips(e, s[i])}
    <2>1. Len(s) \in T /\ T \subseteq Nat
      BY <1>3, <1>4
    <2>2. PICK m \in T : \A k \in T : m <= k
      BY <2>1, Least
    <2>3. \A j \in 1 .. m - 1 : Skips(e, s[j])
      BY <1>3, <2>2
    <2> QED BY <2>2, <2>3
  <1> DEFINE i == CHOOSE i \in DOMAIN s : First(i)
  <1>6. DOMAIN s = 1 .. Len(s)
    BY <1>3
  <1>7. i \in 1 .. Len(s) /\ First(i)
    BY <1>5, <1>6
  <1>8. Issue(e, t, s) = Stash(e, t, s[i], SubSeq(s, i + 1, Len(s)))
    BY DEF Issue
  <1> HIDE DEF i
  <1>9. e.last[t].k \in {"none", "rmwr"} => i = 1
    BY <1>3, <1>7
  <1>10. Found(s[i], SubSeq(s, i + 1, Len(s)))
    BY <1>3, <1>7, <1>9
  <1> QED BY <1>7, <1>8, <1>10 DEF Found, s, d

\* e and f differ in the fields F at most.
Same(e, f, F) == DOMAIN f = Fields /\ \A x \in Fields \ F : f[x] = e[x]

\* What two executions that differ in the fields F agree on.
LEMMA SameFields ==
  ASSUME NEW e, NEW f, NEW F, Same(e, f, F)
  PROVE  /\ "num" \notin F => f.num = e.num
         /\ "todo" \notin F => f.todo = e.todo
         /\ "last" \notin F => f.last = e.last
         /\ "pend" \notin F => f.pend = e.pend
         /\ "st" \notin F => f.st = e.st
         /\ "wake" \notin F => f.wake = e.wake
         /\ "ret" \notin F => f.ret = e.ret
         /\ "en" \notin F => f.en = e.en
         /\ "p" \notin F => f.p = e.p
         /\ "extjob" \notin F => f.extjob = e.extjob
         /\ "instr" \notin F => f.instr = e.instr
         /\ "locked" \notin F => f.locked = e.locked
         /\ "waiters" \notin F => f.waiters = e.waiters
         /\ "futex" \notin F => f.futex = e.futex
         /\ "flag" \notin F => f.flag = e.flag
         /\ "bug" \notin F => f.bug = e.bug
         /\ "over" \notin F => f.over = e.over
  BY DEF Same, Fields

\* Changes in F and then in G are changes in their union.
LEMMA SameThen ==
  ASSUME NEW e, NEW f, NEW g, NEW F, NEW G, Same(e, f, F), Same(f, g, G)
  PROVE  Same(e, g, F \cup G)
  BY DEF Same

\* Where t is depends on what it did, has pending and has left.
LEMMA PlaceKept ==
  ASSUME NEW e, NEW f, NEW t, AtPlace(e, t), f.num = e.num,
         f.todo[t] = e.todo[t], f.last[t] = e.last[t], f.pend[t] = e.pend[t]
  PROVE  AtPlace(f, t)
  BY DEF AtPlace, HasPending

\* A stretch of user code of t that leads to its operation o and leaves r.
UserStep(e, f, t, o, r) ==
  /\ MayIssue(t, o, e.todo[t], r)
  /\ o.k = "rmw" <=> e.last[t].k = "rmwr"
  /\ e.last[t].k = "none" => o = Start
  /\ Same(e, f, {"todo", "last", "pend", "st", "bug", "futex", "locked", "waiters", "flag"})
  /\ f.todo = [e.todo EXCEPT ![t] = r]
  /\ f.last = [e.last EXCEPT ![t] = Resolve(e, t, o)]
  /\ f.pend = IF o.k = "assert" THEN e.pend ELSE [e.pend EXCEPT ![t] = Resolve(e, t, o)]
  /\ f.st = [e.st EXCEPT ![t] = "ready"]
  /\ f.bug \in {e.bug, "assert", "cycle"}
  /\ IF o.k = "futexwait"
       THEN /\ f.futex = t /\ f.locked = [e.locked EXCEPT ![t] = 0]
            /\ f.waiters = [e.waiters EXCEPT ![t] = Nobody]
       ELSE f.futex = e.futex /\ f.locked = e.locked /\ f.waiters = e.waiters
  /\ o.k = "futexwake" => e.futex # 0

\* What the stretch of user code leads to.
LEMMA UserIs ==
  ASSUME prog \in Programs, NEW e, IsState(e), NEW t \in Threads,
         e.last[t].k \notin {"finish", "exit"}, NEW f, f = UserRuns(e, t)
  PROVE  \E o, r : UserStep(e, f, t, o, r)
  <1> DEFINE d == [e EXCEPT !.flag = @ \/ e.last[t].sets]
  <1>1. DOMAIN e = Fields
    BY DEF IsState
  <1>2. DOMAIN d = Fields /\ \A x \in Fields \ {"flag"} : d[x] = e[x]
    BY <1>1 DEF Fields
  <1>3. /\ d.last = e.last /\ d.todo = e.todo /\ d.futex = e.futex /\ d.num = e.num /\ d.pend = e.pend
        /\ d.st = e.st /\ d.wake = e.wake /\ d.ret = e.ret /\ d.locked = e.locked /\ d.waiters = e.waiters
        /\ d.bug = e.bug
    BY <1>2 DEF Fields
  <1> HIDE DEF d
  <1>4. IsState(d)
    <2>1. \A u \in Threads : AtPlace(d, u)
      BY <1>3, PlaceKept DEF IsState
    <2>2. Coming(d) = Coming(e)
      BY <1>3 DEF Coming
    <2> QED BY <1>2, <1>3, <2>1, <2>2 DEF IsState
  <1>5. PICK o, r :
           /\ Issue(d, t, Rest(d, t)) = Stash(d, t, o, r)
           /\ MayIssue(t, o, d.todo[t], r)
           /\ ~Skips(d, o)
           /\ o.k = "rmw" <=> d.last[t].k = "rmwr"
           /\ d.last[t].k = "none" => o = Start
    BY <1>3, <1>4, Issues
  <1>6. f = Stash(d, t, o, r)
    BY <1>5 DEF UserRuns, d
  <1>7. Resolve(d, t, o) = Resolve(e, t, o)
    BY <1>3 DEF Resolve
  <1>8. o.k = "futexwake" => e.futex # 0
    BY <1>3, <1>5 DEF Skips
  <1>9. CASE o.k = "assert"
    <2>1. f = [d EXCEPT !.todo[t] = r, !.last[t] = o, !.st[t] = "ready", !.bug = "assert"]
      BY <1>6, <1>9 DEF Stash
    <2>2. Resolve(e, t, o) = o
      BY <1>9 DEF Resolve
    <2>3. Same(e, f, {"todo", "last", "pend", "st", "bug", "futex", "locked", "waiters", "flag"})
      BY <1>2, <2>1 DEF Same, Fields
    <2>4. /\ f.todo = [e.todo EXCEPT ![t] = r] /\ f.last = [e.last EXCEPT ![t] = o] /\ f.pend = e.pend
          /\ f.st = [e.st EXCEPT ![t] = "ready"] /\ f.bug = "assert"
          /\ f.futex = e.futex /\ f.locked = e.locked /\ f.waiters = e.waiters
      BY <1>2, <1>3, <2>1 DEF Fields
    <2>5. /\ MayIssue(t, o, e.todo[t], r) /\ (o.k = "rmw" <=> e.last[t].k = "rmwr")
          /\ e.last[t].k = "none" => o = Start
      BY <1>3, <1>5
    <2> QED BY <1>8, <1>9, <2>2, <2>3, <2>4, <2>5 DEF UserStep
  <1>10. CASE o.k # "assert"
    <2> DEFINE w == FutexEntry(d, t, o)
               g == [w EXCEPT !.todo[t] = r, !.last[t] = Resolve(d, t, o),
                              !.pend[t] = Resolve(d, t, o), !.st[t] = "ready"]
    <2>1. f = g \/ f = [g EXCEPT !.bug = "cycle"]
      BY <1>6, <1>10 DEF Stash
    <2>2. /\ DOMAIN w = Fields
          /\ \A x \in Fields \ {"futex", "locked", "waiters", "flag"} : w[x] = e[x]
          /\ IF o.k = "futexwait"
                THEN /\ w.futex = t /\ w.locked = [e.locked EXCEPT ![t] = 0]
                     /\ w.waiters = [e.waiters EXCEPT ![t] = Nobody]
                ELSE w.futex = e.futex /\ w.locked = e.locked /\ w.waiters = e.waiters
      BY <1>2, <1>3 DEF FutexEntry, Fields
    <2>3. w.todo = e.todo /\ w.last = e.last /\ w.pend = e.pend /\ w.st = e.st /\ w.bug = e.bug
      BY <2>2 DEF Fields
    <2> HIDE DEF w
    <2>4. /\ Same(e, g, {"todo", "last", "pend", "st", "futex", "locked", "waiters", "flag"})
          /\ g.todo = [e.todo EXCEPT ![t] = r] /\ g.last = [e.last EXCEPT ![t] = Resolve(e, t, o)]
          /\ g.pend = [e.pend EXCEPT ![t] = Resolve(e, t, o)]
          /\ g.st = [e.st EXCEPT ![t] = "ready"] /\ g.bug = e.bug
          /\ g.futex = w.futex /\ g.locked = w.locked /\ g.waiters = w.waiters
      BY <1>7, <2>2, <2>3 DEF Same, Fields
    <2> HIDE DEF g
    <2>5. /\ Same(e, f, {"todo", "last", "pend", "st", "bug", "futex", "locked", "waiters", "flag"})
          /\ f.todo = g.todo /\ f.last = g.last /\ f.pend = g.pend /\ f.st = g.st
          /\ f.bug \in {g.bug, "cycle"}
          /\ f.futex = g.futex /\ f.locked = g.locked /\ f.waiters = g.waiters
      BY <2>1, <2>4 DEF Same, Fields
    <2>6. /\ MayIssue(t, o, e.todo[t], r) /\ (o.k = "rmw" <=> e.last[t].k = "rmwr")
          /\ e.last[t].k = "none" => o = Start
      BY <1>3, <1>5
    <2>7. /\ f.todo = [e.todo EXCEPT ![t] = r] /\ f.last = [e.last EXCEPT ![t] = Resolve(e, t, o)]
          /\ f.pend = [e.pend EXCEPT ![t] = Resolve(e, t, o)]
          /\ f.st = [e.st EXCEPT ![t] = "ready"] /\ f.bug \in {e.bug, "cycle"}
      BY <2>4, <2>5
    <2>8. IF o.k = "futexwait"
            THEN /\ f.futex = t /\ f.locked = [e.locked EXCEPT ![t] = 0]
                 /\ f.waiters = [e.waiters EXCEPT ![t] = Nobody]
            ELSE f.futex = e.futex /\ f.locked = e.locked /\ f.waiters = e.waiters
      BY <2>2, <2>4, <2>5
    <2> QED BY <1>8, <1>10, <2>5, <2>6, <2>7, <2>8 DEF UserStep
  <1> QED BY <1>9, <1>10

----------------------------------------------------------------------------
(* The types are kept.                                                     *)

\* The threads still to be created are fewer than the bound on them.
LEMMA ComingFinite ==
  ASSUME prog \in Programs, NEW e
  PROVE  /\ IsFiniteSet(Coming(e)) /\ Cardinality(Coming(e)) \in Nat
         /\ Cardinality(Coming(e)) < MaxThreads
         /\ \A f : Coming(f) \subseteq Coming(e) => Cardinality(Coming(f)) <= Cardinality(Coming(e))
         /\ \A f : Coming(f) \subseteq Coming(e) /\ Coming(f) # Coming(e)
                     => Cardinality(Coming(f)) + 1 <= Cardinality(Coming(e))
  <1>1. IsFiniteSet(Creates(prog)) /\ Cardinality(Creates(prog)) < MaxThreads
    BY CreatesFinite
  <1>2. \A f : Coming(f) \subseteq Creates(prog)
    BY DEF Coming
  <1>3. IsFiniteSet(Coming(e)) /\ Cardinality(Coming(e)) <= Cardinality(Creates(prog))
    BY <1>1, <1>2, FS_Subset
  <1>4. Cardinality(Creates(prog)) \in Nat /\ Cardinality(Coming(e)) \in Nat
    BY <1>1, <1>3, FS_CardinalityType
  <1>5. ASSUME NEW f, Coming(f) \subseteq Coming(e)
        PROVE  /\ Cardinality(Coming(f)) <= Cardinality(Coming(e))
               /\ Coming(f) # Coming(e) => Cardinality(Coming(f)) + 1 <= Cardinality(Coming(e))
    <2>1. /\ IsFiniteSet(Coming(f)) /\ Cardinality(Coming(f)) <= Cardinality(Coming(e))
          /\ Cardinality(Coming(f)) = Cardinality(Coming(e)) => Coming(f) = Coming(e)
      BY <1>3, <1>5, FS_Subset
    <2>2. Cardinality(Coming(f)) \in Nat
      BY <2>1, FS_CardinalityType
    <2> QED BY <1>4, <2>1, <2>2
  <1> QED BY <1>1, <1>3, <1>4, <1>5, PctParams

\* What a step that leaves the programs of the threads alone has to show.
LEMMA StateKept ==
  ASSUME prog \in Programs, NEW e, IsState(e), NEW f, DOMAIN f = Fields,
         f.num = e.num, f.todo = e.todo, f.last = e.last, f.pend = e.pend,
         f.st \in [Threads -> {"created", "ready", "blocked", "completed", "freed"}],
         f.wake \in [Threads -> BOOLEAN],
         f.ret \in [Threads -> {"none", "yes", "no", "timeout"}],
         f.locked \in [Places -> 0 .. e.num],
         f.waiters \in [Places -> [Threads -> Nat]],
         \A c \in Places : Listed(f.waiters[c]) \subseteq 1 .. e.num,
         f.futex \in Threads \cup {0},
         f.bug \in {"none", "assert", "cycle", "deadlock"}
  PROVE  IsState(f)
  <1>1. \A u \in Threads : AtPlace(f, u)
    BY PlaceKept DEF IsState
  <1>2. Coming(f) = Coming(e)
    BY DEF Coming
  <1> QED BY <1>1, <1>2 DEF IsState

\* User code keeps the types.
LEMMA UserKeeps ==
  ASSUME prog \in Programs, NEW e, IsState(e), Good(e), NEW t \in Threads, t <= e.num,
         ~HasPending(e, t), e.last[t].k \notin {"finish", "exit"}
  PROVE  IsState(UserRuns(e, t))
  <1> SUFFICES ASSUME NEW f, f = UserRuns(e, t)
               PROVE  IsState(f)
    OBVIOUS
  <1>1. PICK o, r : UserStep(e, f, t, o, r)
    BY UserIs
  <1> USE DEF UserStep
  <1> DEFINE q == Resolve(e, t, o)
  <1>2. /\ DOMAIN f = Fields /\ f.num = e.num /\ f.wake = e.wake /\ f.ret = e.ret
    BY <1>1 DEF Same, Fields
  <1>3. /\ o \in Ops /\ o.k # "none" /\ FitsThread(t, o) /\ r \in Seq(Ops)
        /\ IsRest(t, r) /\ Len(r) <= Len(e.todo[t])
    BY <1>1 DEF MayIssue, IsRest
  <1>4. /\ q \in Ops /\ q.k \notin {"none", "futexwait", "futexwake"} /\ FitsThread(t, q)
        /\ o.k \notin {"futexwait", "futexwake"} => q = o
        /\ o.k = "futexwait" => q.k = "wait"
        /\ o.k = "futexwake" => q.k = "notify_all"
    <2>1. CASE o.k = "futexwait"
      BY <2>1 DEF Resolve, Op, Ops, Kinds, FitsThread, Threads
    <2>2. CASE o.k = "futexwake"
      <3>1. e.futex \in Threads
        BY <1>1, <2>2 DEF IsState
      <3>2. q = [o EXCEPT !.k = "notify_all", !.x = e.futex]
        BY <2>2 DEF Resolve
      <3> HIDE DEF q
      <3>3. q.k = "notify_all" /\ q.x = e.futex
        BY <1>3, <3>2 DEF Ops
      <3>4. q \in Ops
        <4>1. e.futex \in Nat /\ "notify_all" \in Kinds
          BY <3>1 DEF Threads, Kinds
        <4> QED BY <1>3, <3>2, <4>1 DEF Ops
      <3> QED BY <2>2, <3>1, <3>3, <3>4 DEF FitsThread, Places
    <2>3. CASE o.k \notin {"futexwait", "futexwake"}
      <3>1. q = o
        BY <2>3 DEF Resolve
      <3> QED BY <1>3, <2>3, <3>1
    <2> QED BY <2>1, <2>2, <2>3
  <1> HIDE DEF q
  <1>5. /\ f.todo \in [Threads -> Seq(Ops)] /\ f.last \in [Threads -> Ops] /\ f.pend \in [Threads -> Ops]
        /\ f.st \in [Threads -> {"created", "ready", "blocked", "completed", "freed"}]
        /\ f.wake \in [Threads -> BOOLEAN] /\ f.ret \in [Threads -> {"none", "yes", "no", "timeout"}]
        /\ f.bug \in {"none", "assert", "cycle", "deadlock"}
    BY <1>1, <1>2, <1>3, <1>4 DEF IsState, q
  <1>6. /\ f.locked \in [Places -> 0 .. f.num] /\ f.waiters \in [Places -> [Threads -> Nat]]
        /\ \A c \in Places : Listed(f.waiters[c]) \subseteq 1 .. f.num
        /\ f.futex \in Threads \cup {0}
    <2>1. t \in Places /\ Nobody \in [Threads -> Nat] /\ Listed(Nobody) = {} /\ 0 \in 0 .. e.num
      BY DEF Places, Nobody, Listed, Good
    <2> HIDE DEF Nobody
    <2>2. CASE o.k = "futexwait"
      <3>1. /\ f.locked = [e.locked EXCEPT ![t] = 0] /\ f.waiters = [e.waiters EXCEPT ![t] = Nobody]
            /\ f.futex = t
        BY <1>1, <2>2
      <3>2. e.locked \in [Places -> 0 .. e.num] /\ e.waiters \in [Places -> [Threads -> Nat]]
            /\ \A c \in Places : Listed(e.waiters[c]) \subseteq 1 .. e.num
        BY DEF IsState
      <3>3. \A c \in Places : f.waiters[c] = IF c = t THEN Nobody ELSE e.waiters[c]
        BY <2>1, <3>1, <3>2
      <3>4. \A c \in Places : Listed(f.waiters[c]) \subseteq 1 .. f.num
        BY <1>2, <2>1, <3>2, <3>3
      <3> QED BY <1>2, <2>1, <3>1, <3>2, <3>4
    <2>3. CASE o.k # "futexwait"
      BY <1>1, <1>2, <2>3 DEF IsState
    <2> QED BY <2>2, <2>3
  <1>7. ASSUME NEW u \in Threads PROVE AtPlace(f, u)
    <2>1. AtPlace(e, u)
      BY DEF IsState
    <2>2. CASE u # t
      <3>1. f.todo[u] = e.todo[u] /\ f.last[u] = e.last[u] /\ f.pend[u] = e.pend[u]
        BY <1>1, <2>2 DEF IsState
      <3> QED BY <1>2, <2>1, <3>1 DEF AtPlace, HasPending
    <2>3. CASE u = t
      <3>1. /\ f.todo[t] = r /\ f.last[t] = q
            /\ f.pend[t] = IF o.k = "assert" THEN e.pend[t] ELSE q
        BY <1>1 DEF IsState, q
      <3>2. /\ q.k \notin {"finish", "exit"} => r # <<>>
            /\ q.k = "trylock" => q.n < Len(r)
        BY <1>1, <1>4 DEF MayIssue
      <3>3. HasPending(f, t) => o.k # "assert" /\ f.pend[t] = q
        BY <3>1 DEF HasPending
      <3>4. o.k # "assert" => q.k # "assert"
        BY <1>4
      <3>5. ~ (t > f.num)
        BY <1>2 DEF Good, Threads
      <3>6. f.pend[t].k = "create" => <<t, Len(prog[t]) + 1 - Len(r)>> \in Creates(prog)
        <4>1. f.pend[t].k = "create" => o.k = "create"
          BY <1>4, <3>3 DEF HasPending
        <4> QED BY <1>1, <4>1 DEF MayIssue
      <3> QED BY <1>3, <1>4, <2>3, <3>1, <3>2, <3>3, <3>4, <3>5, <3>6 DEF AtPlace
    <2> QED BY <2>2, <2>3
  <1>8. f.num + Cardinality(Coming(f)) <= MaxThreads
    <2>1. ASSUME NEW c \in Coming(f) PROVE c \in Coming(e)
      <3>1. c \in Creates(prog) /\ c[1] \in Threads
        BY DEF Coming, Creates
      <3>2. CASE c[1] # t
        <4>1. f.todo[c[1]] = e.todo[c[1]] /\ f.pend[c[1]] = e.pend[c[1]]
          BY <1>1, <3>1, <3>2 DEF IsState
        <4> QED BY <4>1 DEF Coming
      <3>3. CASE c[1] = t
        <4> DEFINE K == Len(prog[t]) + 1 - c[2]
                   d == e.todo[t]
        <4>1. f.todo[t] = r
          BY <1>1 DEF IsState
        <4>2. \/ Len(r) > K
              \/ Len(r) = K /\ f.pend[t].k = "create"
          BY <3>3, <4>1 DEF Coming
        <4>3. Len(r) \in Nat /\ Len(d) \in Nat /\ Len(r) <= Len(d)
          BY <1>3 DEF IsState
        <4>4. K \in Int
          <5>1. c[2] \in Nat
            <6>1. c[2] \in DOMAIN prog[t]
              BY <3>1, <3>3 DEF Creates
            <6>2. DOMAIN prog[t] = 1 .. Len(prog[t])
              BY CodeIs
            <6> QED BY <6>1, <6>2, CodeIs
          <5>2. Len(prog[t]) \in Nat
            BY CodeIs
          <5> QED BY <5>1, <5>2
        <4> HIDE DEF K, d
        <4>5. CASE Len(r) > K
          <5>1. Len(d) > K
            BY <4>3, <4>4, <4>5
          <5> QED BY <3>1, <3>3, <5>1 DEF Coming, K, d
        <4>6. CASE Len(r) = K /\ f.pend[t].k = "create"
          <5>1. f.pend[t] = IF o.k = "assert" THEN e.pend[t] ELSE q
            BY <1>1 DEF IsState, q
          <5>2. o.k # "assert" /\ q.k = "create"
            BY <4>6, <5>1 DEF HasPending
          <5>3. o.k = "create"
            BY <1>4, <5>2
          <5>4. Len(r) < Len(d)
            BY <1>1, <5>3 DEF MayIssue, d
          <5>5. Len(d) > K
            BY <4>3, <4>4, <4>6, <5>4
          <5> QED BY <3>1, <3>3, <5>5 DEF Coming, K, d
        <4> QED BY <4>2, <4>5, <4>6
      <3> QED BY <3>2, <3>3
    <2>2. Cardinality(Coming(f)) <= Cardinality(Coming(e)) /\ Cardinality(Coming(e)) \in Nat
          /\ Cardinality(Coming(f)) \in Nat
      BY <2>1, ComingFinite
    <2>3. f.num \in Nat /\ f.num = e.num /\ e.num + Cardinality(Coming(e)) <= MaxThreads
      BY <1>2 DEF Good, IsState
    <2> QED BY <2>2, <2>3, PctParams
  <1> QED BY <1>2, <1>5, <1>6, <1>7, <1>8 DEF IsState

----------------------------------------------------------------------------
(* What the execution of an operation changes.                             *)

LockWaiters(e, t) == {u \in 1 .. e.num : e.pend[u].k = "lock" /\ WaitingOn(e, u) = t}
JoinWaiters(e, t) == {u \in 1 .. e.num : e.pend[u].k = "join" /\ WaitingOn(e, u) = t}
Set(v, W, x) == [u \in Threads |-> IF u \in W THEN x ELSE v[u]]

WaitEffect(e, t, o, f) ==
  /\ f.pend = [e.pend EXCEPT ![t] = o]
  /\ f.locked = [e.locked EXCEPT ![o.y] = 0]
  /\ f.waiters = [e.waiters EXCEPT ![o.x] = Enlisted(@, t)]

NotifyEffect(e, W, f) ==
  LET V == {u \in 1 .. e.num : u \in W /\ e.st[u] # "completed"}
  IN /\ f.en = Set(e.en, V, Enabled) /\ f.st = Set(e.st, V, "ready")
     /\ f.wake = [u \in Threads |-> u \in W \/ e.wake[u]]

Effect(e, t, o, f) ==
  \/ /\ o.k = "create" /\ Same(e, f, {"num", "en", "p"})
     /\ f.num = e.num + 1 /\ f.en = [e.en EXCEPT ![e.num + 1] = Enabled]
  \/ /\ o.k = "lock" /\ Same(e, f, {"locked"})
     /\ f.locked = [e.locked EXCEPT ![o.x] = t]
  \/ /\ o.k = "trylock" /\ Same(e, f, {"locked", "ret"})
     /\ \/ e.locked[o.x] # 0 /\ f.locked = e.locked /\ f.ret = [e.ret EXCEPT ![t] = "no"]
        \/ /\ e.locked[o.x] = 0 /\ f.locked = [e.locked EXCEPT ![o.x] = t]
           /\ f.ret = [e.ret EXCEPT ![t] = "yes"]
  \/ /\ o.k = "unlock" /\ Same(e, f, {"en", "st", "locked"})
     /\ f.en = Set(e.en, LockWaiters(e, t), Enabled) /\ f.st = Set(e.st, LockWaiters(e, t), "ready")
     /\ f.locked = [e.locked EXCEPT ![o.x] = 0]
  \/ /\ o.k \in {"wait", "timedwait"} /\ Same(e, f, {"en", "st", "locked", "waiters", "pend"})
     /\ WaitEffect(e, t, o, f)
     /\ \/ /\ o.k = "wait"
           /\ f.en = [Set(e.en, LockWaiters(e, t), Enabled) EXCEPT ![t] = Disabled]
           /\ f.st = [Set(e.st, LockWaiters(e, t), "ready") EXCEPT ![t] = "blocked"]
        \/ /\ f.en = [Set(e.en, LockWaiters(e, t), Enabled) EXCEPT ![t] = SleepSet]
           /\ f.st = Set(e.st, LockWaiters(e, t), "ready")
  \/ /\ o.k = "timedwait" /\ Same(e, f, {"ret"}) /\ f.ret = [e.ret EXCEPT ![t] = "timeout"]
  \/ /\ o.k = "notify_all" /\ Same(e, f, {"en", "st", "wake", "waiters"})
     /\ NotifyEffect(e, Listed(e.waiters[o.x]), f)
     /\ f.waiters = [e.waiters EXCEPT ![o.x] = Nobody]
  \/ /\ o.k = "notify_one" /\ Same(e, f, {"en", "st", "wake", "waiters"})
     /\ \E u \in Listed(e.waiters[o.x]) :
          /\ NotifyEffect(e, {u}, f)
          /\ f.waiters = [e.waiters EXCEPT ![o.x] = Delisted(@, u)]
  \/ /\ o.k = "sleep" /\ Same(e, f, {"pend", "en"})
     /\ f.pend = [e.pend EXCEPT ![t] = o] /\ f.en = [e.en EXCEPT ![t] = SleepSet]
  \/ /\ o.k = "finish" /\ t = 1 /\ Same(e, f, {"st", "over"})
     /\ f.st = [e.st EXCEPT ![t] = "completed"] /\ f.over
  \/ /\ o.k = "exit" \/ (o.k = "finish" /\ t # 1)
     /\ Same(e, f, {"en", "st"})
     /\ f.en = Set(e.en, JoinWaiters(e, t), Enabled)
     /\ f.st = [Set(e.st, JoinWaiters(e, t), "ready") EXCEPT ![t] = "completed"]
  \/ /\ o.k = "spin" /\ Same(e, f, {"ret"})
     /\ f.ret \in {[e.ret EXCEPT ![t] = "yes"], [e.ret EXCEPT ![t] = "no"]}
  \/ /\ o.k \notin {"create", "lock", "trylock", "unlock", "wait", "timedwait", "notify_all",
                    "sleep", "finish", "exit", "spin"}
     /\ o.k = "notify_one" => Listed(e.waiters[o.x]) = {}
     /\ Same(e, f, {})

\* wake and notify touch the states of the threads they wake.
LEMMA WakeIs ==
  ASSUME NEW e, DOMAIN e = Fields, NEW W
  PROVE  /\ Same(e, WakeThreads(e, W), {"en", "st"})
         /\ WakeThreads(e, W).en = Set(e.en, W, Enabled)
         /\ WakeThreads(e, W).st = Set(e.st, W, "ready")
  BY DEF WakeThreads, Same, Set, Fields

\* Unlocked frees the mutex and wakes the threads that wait for it.
LEMMA UnlockIs ==
  ASSUME NEW e, DOMAIN e = Fields, NEW t, NEW m, NEW f, f = Unlocked(e, t, m)
  PROVE  /\ Same(e, f, {"en", "st", "locked"})
         /\ f.en = Set(e.en, LockWaiters(e, t), Enabled) /\ f.st = Set(e.st, LockWaiters(e, t), "ready")
         /\ f.locked = [e.locked EXCEPT ![m] = 0]
  <1> DEFINE d == WakeThreads(e, LockWaiters(e, t))
  <1>1. f = [d EXCEPT !.locked[m] = 0]
    BY DEF Unlocked, LockWaiters
  <1>2. /\ Same(e, d, {"en", "st"}) /\ d.en = Set(e.en, LockWaiters(e, t), Enabled)
        /\ d.st = Set(e.st, LockWaiters(e, t), "ready")
    BY WakeIs
  <1> HIDE DEF d
  <1> QED BY <1>1, <1>2 DEF Same, Fields

\* Waiting frees the mutex, enlists the thread and keeps its operation.
LEMMA WaitingIs ==
  ASSUME NEW e, DOMAIN e = Fields, NEW t, NEW o, NEW f, f = Waiting(e, t, o)
  PROVE  /\ Same(e, f, {"en", "st", "locked", "waiters", "pend"})
         /\ f.en = Set(e.en, LockWaiters(e, t), Enabled) /\ f.st = Set(e.st, LockWaiters(e, t), "ready")
         /\ WaitEffect(e, t, o, f)
  <1> DEFINE d == Unlocked(e, t, o.y)
  <1>1. f = [d EXCEPT !.waiters[o.x] = Enlisted(@, t), !.pend[t] = o]
    BY DEF Waiting
  <1>2. /\ Same(e, d, {"en", "st", "locked"})
        /\ d.en = Set(e.en, LockWaiters(e, t), Enabled) /\ d.st = Set(e.st, LockWaiters(e, t), "ready")
        /\ d.locked = [e.locked EXCEPT ![o.y] = 0]
    BY UnlockIs
  <1> HIDE DEF d
  <1>3. Same(d, f, {"waiters", "pend"}) /\ DOMAIN d = Fields
    BY <1>1, <1>2 DEF Same, Fields
  <1>4. /\ f.pend = [d.pend EXCEPT ![t] = o]
        /\ f.waiters = [d.waiters EXCEPT ![o.x] = Enlisted(@, t)]
    BY <1>1, <1>3 DEF Fields
  <1> QED BY <1>2, <1>3, <1>4 DEF Same, Fields, WaitEffect

\* Notified enables and marks the notified threads that are not complete.
LEMMA NotifiedIs ==
  ASSUME NEW e, DOMAIN e = Fields, NEW W, NEW f, f = Notified(e, W)
  PROVE  Same(e, f, {"en", "st", "wake"}) /\ NotifyEffect(e, W, f)
  <1> DEFINE V == {u \in 1 .. e.num : u \in W /\ e.st[u] # "completed"}
             d == WakeThreads(e, V)
  <1>1. f = [d EXCEPT !.wake = [u \in Threads |-> u \in W \/ @[u]]]
    BY DEF Notified
  <1>2. Same(e, d, {"en", "st"}) /\ d.en = Set(e.en, V, Enabled) /\ d.st = Set(e.st, V, "ready")
    BY WakeIs
  <1> HIDE DEF d
  <1>3. /\ Same(e, f, {"en", "st", "wake"})
        /\ f.en = Set(e.en, V, Enabled) /\ f.st = Set(e.st, V, "ready")
        /\ f.wake = [u \in Threads |-> u \in W \/ e.wake[u]]
    BY <1>1, <1>2 DEF Same, Fields
  <1> QED BY <1>3 DEF NotifyEffect

\* The effect of an operation names everything process_* may change.
LEMMA ExecutedIs ==
  ASSUME NEW e, DOMAIN e = Fields, NEW t, NEW o, NEW f \in Executed(e, t, o)
  PROVE  Effect(e, t, o, f)
  <1>1. CASE o.k = "create"
    <2>1. PICK pos : f = [e EXCEPT !.num = @ + 1, !.en[e.num + 1] = Enabled,
                                   !.p = HighAddThread(@, pos, e.num + 1)]
      BY <1>1 DEF Executed
    <2> QED BY <1>1, <2>1 DEF Effect, Same, Fields
  <1>2. CASE o.k = "lock"
    <2>1. f = [e EXCEPT !.locked[o.x] = t]
      BY <1>2 DEF Executed, Locked
    <2> QED BY <1>2, <2>1 DEF Effect, Same, Fields
  <1>3. CASE o.k = "trylock"
    <2>1. f = IF e.locked[o.x] # 0 THEN [e EXCEPT !.ret[t] = "no"]
              ELSE [[e EXCEPT !.locked[o.x] = t] EXCEPT !.ret[t] = "yes"]
      BY <1>3 DEF Executed, Locked
    <2> QED BY <1>3, <2>1 DEF Effect, Same, Fields
  <1>4. CASE o.k = "unlock"
    <2>1. f = Unlocked(e, t, o.x)
      BY <1>4 DEF Executed
    <2> QED BY <1>4, <2>1, UnlockIs DEF Effect
  <1>5. CASE o.k = "wait"
    <2> DEFINE d == Waiting(e, t, o)
    <2>1. f = [[d EXCEPT !.en[t] = Disabled] EXCEPT !.st[t] = "blocked"] \/ f = [d EXCEPT !.en[t] = SleepSet]
      BY <1>5 DEF Executed, SleepThread
    <2>2. /\ Same(e, d, {"en", "st", "locked", "waiters", "pend"})
          /\ d.en = Set(e.en, LockWaiters(e, t), Enabled) /\ d.st = Set(e.st, LockWaiters(e, t), "ready")
          /\ WaitEffect(e, t, o, d)
      BY WaitingIs
    <2> HIDE DEF d
    <2>3. /\ Same(e, f, {"en", "st", "locked", "waiters", "pend"})
          /\ f.pend = d.pend /\ f.locked = d.locked /\ f.waiters = d.waiters
          /\ \/ f.en = [d.en EXCEPT ![t] = Disabled] /\ f.st = [d.st EXCEPT ![t] = "blocked"]
             \/ f.en = [d.en EXCEPT ![t] = SleepSet] /\ f.st = d.st
      BY <2>1, <2>2 DEF Same, Fields
    <2>4. WaitEffect(e, t, o, f)
      BY <2>2, <2>3 DEF WaitEffect
    <2> QED BY <1>5, <2>2, <2>3, <2>4 DEF Effect
  <1>6. CASE o.k = "timedwait"
    <2> DEFINE d == Waiting(e, t, o)
    <2>1. f = [e EXCEPT !.ret[t] = "timeout"] \/ f = [d EXCEPT !.en[t] = SleepSet]
      BY <1>6 DEF Executed
    <2>2. /\ Same(e, d, {"en", "st", "locked", "waiters", "pend"})
          /\ d.en = Set(e.en, LockWaiters(e, t), Enabled) /\ d.st = Set(e.st, LockWaiters(e, t), "ready")
          /\ WaitEffect(e, t, o, d)
      BY WaitingIs
    <2> HIDE DEF d
    <2>3. CASE f = [e EXCEPT !.ret[t] = "timeout"]
      <3>1. Same(e, f, {"ret"}) /\ f.ret = [e.ret EXCEPT ![t] = "timeout"]
        BY <2>3 DEF Same, Fields
      <3> QED BY <1>6, <3>1 DEF Effect
    <2>4. CASE f = [d EXCEPT !.en[t] = SleepSet]
      <3>1. /\ Same(e, f, {"en", "st", "locked", "waiters", "pend"})
            /\ f.pend = d.pend /\ f.locked = d.locked /\ f.waiters = d.waiters
            /\ f.en = [d.en EXCEPT ![t] = SleepSet] /\ f.st = d.st
        BY <2>2, <2>4 DEF Same, Fields
      <3>2. WaitEffect(e, t, o, f)
        BY <2>2, <3>1 DEF WaitEffect
      <3> QED BY <1>6, <2>2, <3>1, <3>2 DEF Effect
    <2> QED BY <2>1, <2>3, <2>4
  <1>7. CASE o.k = "notify_all"
    <2> DEFINE d == Notified(e, Listed(e.waiters[o.x]))
    <2>1. f = [d EXCEPT !.waiters[o.x] = Nobody]
      BY <1>7 DEF Executed
    <2>2. Same(e, d, {"en", "st", "wake"}) /\ NotifyEffect(e, Listed(e.waiters[o.x]), d)
      BY NotifiedIs
    <2> HIDE DEF d
    <2>3. /\ Same(e, f, {"en", "st", "wake", "waiters"})
          /\ f.en = d.en /\ f.st = d.st /\ f.wake = d.wake
          /\ f.waiters = [e.waiters EXCEPT ![o.x] = Nobody]
      BY <2>1, <2>2 DEF Same, Fields
    <2>4. NotifyEffect(e, Listed(e.waiters[o.x]), f)
      BY <2>2, <2>3 DEF NotifyEffect
    <2> QED BY <1>7, <2>3, <2>4 DEF Effect
  <1>8. CASE o.k = "notify_one" /\ Listed(e.waiters[o.x]) # {}
    <2>1. PICK u \in Listed(e.waiters[o.x]) :
            f = [Notified(e, {u}) EXCEPT !.waiters[o.x] = Delisted(@, u)]
      BY <1>8 DEF Executed
    <2> DEFINE d == Notified(e, {u})
    <2>2. Same(e, d, {"en", "st", "wake"}) /\ NotifyEffect(e, {u}, d)
      BY NotifiedIs
    <2>3. f = [d EXCEPT !.waiters[o.x] = Delisted(@, u)]
      BY <2>1
    <2> HIDE DEF d
    <2>4. /\ Same(e, f, {"en", "st", "wake", "waiters"})
          /\ f.en = d.en /\ f.st = d.st /\ f.wake = d.wake
          /\ f.waiters = [e.waiters EXCEPT ![o.x] = Delisted(@, u)]
      <3>1. Same(d, f, {"waiters"}) /\ DOMAIN d = Fields
        BY <2>2, <2>3 DEF Same, Fields
      <3>2. f.waiters = [d.waiters EXCEPT ![o.x] = Delisted(@, u)]
        BY <2>3, <3>1 DEF Fields
      <3> QED BY <2>2, <3>1, <3>2 DEF Same, Fields
    <2>5. NotifyEffect(e, {u}, f)
      BY <2>2, <2>4 DEF NotifyEffect
    <2> QED BY <1>8, <2>4, <2>5 DEF Effect
  <1>9. CASE o.k = "sleep"
    <2>1. f = [e EXCEPT !.pend[t] = o, !.en[t] = SleepSet]
      BY <1>9 DEF Executed
    <2> QED BY <1>9, <2>1 DEF Effect, Same, Fields
  <1>10. CASE o.k = "finish" /\ t = 1
    <2>1. f = [e EXCEPT !.st[t] = "completed", !.over = TRUE]
      BY <1>10 DEF Executed
    <2> QED BY <1>10, <2>1 DEF Effect, Same, Fields
  <1>11. CASE o.k = "exit" \/ (o.k = "finish" /\ t # 1)
    <2> DEFINE d == WakeThreads(e, JoinWaiters(e, t))
    <2>1. f = [d EXCEPT !.st[t] = "completed"]
      BY <1>11 DEF Executed, JoinWaiters
    <2>2. /\ Same(e, d, {"en", "st"}) /\ d.en = Set(e.en, JoinWaiters(e, t), Enabled)
          /\ d.st = Set(e.st, JoinWaiters(e, t), "ready")
      BY WakeIs
    <2> HIDE DEF d
    <2>3. /\ Same(e, f, {"en", "st"}) /\ f.en = d.en /\ f.st = [d.st EXCEPT ![t] = "completed"]
      BY <2>1, <2>2 DEF Same, Fields
    <2> QED BY <1>11, <2>2, <2>3 DEF Effect
  <1>12. CASE o.k = "spin"
    <2>1. PICK v \in {"yes", "no"} : f = [e EXCEPT !.ret[t] = v]
      BY <1>12 DEF Executed
    <2> QED BY <1>12, <2>1 DEF Effect, Same, Fields
  <1>13. CASE ~ (\/ o.k \in {"create", "lock", "trylock", "unlock", "wait", "timedwait", "notify_all",
                             "sleep", "finish", "exit", "spin"}
                 \/ o.k = "notify_one" /\ Listed(e.waiters[o.x]) # {})
    <2>1. f = e
      BY <1>13 DEF Executed
    <2> QED BY <1>13, <2>1 DEF Effect, Same
  <1> QED BY <1>1, <1>2, <1>3, <1>4, <1>5, <1>6, <1>7, <1>8, <1>9, <1>10, <1>11, <1>12, <1>13

\* Executing an operation keeps the types, when there is room for a thread it
\* creates.
LEMMA ExecutedKeeps ==
  ASSUME prog \in Programs, NEW e, IsState(e), Good(e), NEW t \in Threads, t <= e.num,
         ~HasPending(e, t), NEW o \in Ops, FitsThread(t, o), o.k # "assert",
         o.k = e.last[t].k, o.x = e.last[t].x, o.y = e.last[t].y,
         o.k = "create" => e.num + 1 + Cardinality(Coming(e)) <= MaxThreads,
         NEW f, Effect(e, t, o, f)
  PROVE  IsState(f)
  <1>1. /\ DOMAIN f = Fields /\ f.todo = e.todo /\ f.last = e.last /\ f.futex = e.futex /\ f.bug = e.bug
    BY DEF Effect, Same, Fields
  <1>2. f.num = e.num \/ (o.k = "create" /\ f.num = e.num + 1)
    BY DEF Effect, Same, Fields
  <1>3. \/ f.pend = e.pend
        \/ o.k \in {"wait", "timedwait", "sleep"} /\ f.pend = [e.pend EXCEPT ![t] = o]
    BY DEF Effect, Same, Fields, WaitEffect
  <1>4. /\ f.st \in [Threads -> {"created", "ready", "blocked", "completed", "freed"}]
        /\ f.wake \in [Threads -> BOOLEAN]
        /\ f.ret \in [Threads -> {"none", "yes", "no", "timeout"}]
    <2>1. /\ e.st \in [Threads -> {"created", "ready", "blocked", "completed", "freed"}]
          /\ e.wake \in [Threads -> BOOLEAN]
          /\ e.ret \in [Threads -> {"none", "yes", "no", "timeout"}]
      BY DEF IsState
    <2>2. \A W : Set(e.st, W, "ready") \in [Threads -> {"created", "ready", "blocked", "completed", "freed"}]
      BY <2>1 DEF Set
    <2>a. \/ f.st = e.st
          \/ \E W, x : x \in {"ready", "blocked", "completed"}
                       /\ f.st \in {Set(e.st, W, "ready"), [Set(e.st, W, "ready") EXCEPT ![t] = x],
                                   [e.st EXCEPT ![t] = x]}
      BY DEF Effect, Same, Fields, NotifyEffect
    <2>3. f.st \in [Threads -> {"created", "ready", "blocked", "completed", "freed"}]
      BY <2>1, <2>2, <2>a
    <2>b. f.wake = e.wake \/ \E W : f.wake = [u \in Threads |-> u \in W \/ e.wake[u]]
      BY DEF Effect, Same, Fields, NotifyEffect
    <2>4. f.wake \in [Threads -> BOOLEAN]
      BY <2>1, <2>b
    <2>5. f.ret \in [Threads -> {"none", "yes", "no", "timeout"}]
      <3>1. f.ret = e.ret \/ \E r \in {"yes", "no", "timeout"} : f.ret = [e.ret EXCEPT ![t] = r]
        BY DEF Effect, Same, Fields, NotifyEffect, WaitEffect
      <3> QED BY <2>1, <3>1
    <2> QED BY <2>3, <2>4, <2>5
  <1>5. e.num \in Nat /\ 0 \in 0 .. e.num /\ t \in 0 .. e.num
    BY DEF Good, Threads
  <1>6. f.locked \in [Places -> 0 .. e.num]
    <2>1. e.locked \in [Places -> 0 .. e.num]
      BY DEF IsState
    <2>2. \/ f.locked = e.locked
          \/ \E x, y : y \in {0, t} /\ f.locked = [e.locked EXCEPT ![x] = y]
      BY DEF Effect, Same, Fields, WaitEffect
    <2> QED BY <1>5, <2>1, <2>2
  <1>7. f.waiters \in [Places -> [Threads -> Nat]] /\ \A c \in Places : Listed(f.waiters[c]) \subseteq 1 .. e.num
    <2>1. e.waiters \in [Places -> [Threads -> Nat]] /\ \A c \in Places : Listed(e.waiters[c]) \subseteq 1 .. e.num
      BY DEF IsState
    <2>2. CASE f.waiters = e.waiters
      BY <2>1, <2>2
    <2>a. ASSUME NEW w \in [Threads -> Nat], Listed(w) \subseteq 1 .. e.num,
                 f.waiters = [e.waiters EXCEPT ![o.x] = w]
          PROVE  f.waiters \in [Places -> [Threads -> Nat]] /\ \A c \in Places : Listed(f.waiters[c]) \subseteq 1 .. e.num
      <3>1. \A c \in Places : f.waiters[c] = e.waiters[c] \/ f.waiters[c] = w
        BY <2>1, <2>a
      <3> QED BY <2>1, <2>a, <3>1
    <2>3. CASE f.waiters = [e.waiters EXCEPT ![o.x] = Nobody]
      <3>1. Nobody \in [Threads -> Nat] /\ Listed(Nobody) = {}
        BY DEF Nobody, Listed
      <3> QED BY <2>3, <2>a, <3>1
    <2>b. o.k \in {"wait", "timedwait", "notify_one"} => o.x \in Places
      BY DEF FitsThread, Places
    <2>4. CASE /\ o.k \in {"wait", "timedwait"}
               /\ f.waiters = [e.waiters EXCEPT ![o.x] = Enlisted(@, t)]
      <3> DEFINE w == Enlisted(e.waiters[o.x], t)
      <3>1. t \in 1 .. e.num /\ e.waiters[o.x] \in [Threads -> Nat] /\ Listed(e.waiters[o.x]) \subseteq 1 .. e.num
        BY <2>1, <2>b, <2>4 DEF Threads
      <3>2. w \in [Threads -> Nat] /\ Listed(w) \subseteq 1 .. e.num
        BY <3>1 DEF Listed, Enlisted
      <3>3. f.waiters = [e.waiters EXCEPT ![o.x] = w]
        BY <2>4
      <3> HIDE DEF w
      <3> QED BY <2>a, <3>2, <3>3
    <2>5. CASE /\ o.k = "notify_one"
               /\ \E u \in Listed(e.waiters[o.x]) :
                    f.waiters = [e.waiters EXCEPT ![o.x] = Delisted(@, u)]
      <3>0. PICK u \in Listed(e.waiters[o.x]) : f.waiters = [e.waiters EXCEPT ![o.x] = Delisted(@, u)]
        BY <2>5
      <3> DEFINE w == Delisted(e.waiters[o.x], u)
      <3>1. e.waiters[o.x] \in [Threads -> Nat] /\ Listed(e.waiters[o.x]) \subseteq 1 .. e.num
        BY <2>1, <2>b, <2>5
      <3>2. u \in Threads /\ e.waiters[o.x][u] > 0
        BY <3>0 DEF Listed
      <3>3. w \in [Threads -> Nat]
        BY <3>1, <3>2 DEF Delisted
      <3>4. Listed(w) \subseteq Listed(e.waiters[o.x])
        BY <3>1, <3>2 DEF Listed, Delisted
      <3>5. f.waiters = [e.waiters EXCEPT ![o.x] = w]
        BY <3>0
      <3> HIDE DEF w
      <3> QED BY <2>a, <3>1, <3>3, <3>4, <3>5
    <2>6. \/ f.waiters = e.waiters
          \/ f.waiters = [e.waiters EXCEPT ![o.x] = Nobody]
          \/ /\ o.k \in {"wait", "timedwait"}
             /\ f.waiters = [e.waiters EXCEPT ![o.x] = Enlisted(@, t)]
          \/ /\ o.k = "notify_one"
             /\ \E u \in Listed(e.waiters[o.x]) :
                  f.waiters = [e.waiters EXCEPT ![o.x] = Delisted(@, u)]
      BY DEF Effect, Same, Fields, WaitEffect
    <2> QED BY <2>2, <2>3, <2>4, <2>5, <2>6
  <1>8. /\ f.locked \in [Places -> 0 .. f.num]
        /\ \A c \in Places : Listed(f.waiters[c]) \subseteq 1 .. f.num
    <2>1. 0 .. e.num \subseteq 0 .. f.num /\ 1 .. e.num \subseteq 1 .. f.num
      BY <1>2, <1>5
    <2> QED BY <1>6, <1>7, <2>1
  <1>9. f.pend \in [Threads -> Ops]
    BY <1>3 DEF IsState
  <1>10. ASSUME NEW u \in Threads PROVE AtPlace(f, u)
    <2>1. AtPlace(e, u) /\ (u > f.num => u > e.num)
      BY <1>2, <1>5 DEF IsState, Threads
    <2>2. CASE f.pend[u] = e.pend[u]
      BY <1>1, <2>1, <2>2 DEF AtPlace, HasPending
    <2>3. CASE f.pend[u] # e.pend[u]
      <3>1. u = t /\ f.pend[t] = o /\ o.k \in {"wait", "timedwait", "sleep"}
        BY <1>3, <2>3 DEF IsState
      <3> QED BY <1>1, <2>1, <3>1 DEF AtPlace, HasPending
    <2> QED BY <2>2, <2>3
  <1>11. Coming(f) = Coming(e)
    <2>1. ASSUME NEW u \in Threads PROVE f.pend[u].k = "create" <=> e.pend[u].k = "create"
      BY <1>3 DEF IsState, HasPending
    <2>2. \A c \in Creates(prog) : c[1] \in Threads
      BY DEF Creates
    <2> QED BY <1>1, <2>1, <2>2 DEF Coming
  <1>12. f.num + Cardinality(Coming(f)) <= MaxThreads
    BY <1>2, <1>11 DEF IsState
  <1> QED BY <1>1, <1>4, <1>7, <1>8, <1>9, <1>10, <1>12 DEF IsState

----------------------------------------------------------------------------
(* take_step, field by field.                                              *)

\* The waiters once the sleepers of W are awake: each of them leaves the list
\* it is in once.
WaitersAfter(W, d) ==
  \A c \in Places, u \in Threads :
    /\ d.waiters[c][u] <= ex.waiters[c][u]
    /\ ~(u \in W /\ IsWait(d.pend[u]) /\ d.pend[u].x = c) => d.waiters[c][u] = ex.waiters[c][u]
    /\ u \in W /\ IsWait(d.pend[u]) /\ d.pend[u].x = c => d.waiters[c][u] \in {0, ex.waiters[c][u] - 1}

\* What the runtime may pick to take a step.
Picked(t) ==
  /\ mode = "choose" /\ ex.bug = "none"
  /\ ~ex.wake[t] /\ t <= ex.num /\ HasPending(ex, t)
  /\ \/ chosen = t
     \/ /\ chosen = 0 /\ ex.en[t] = Enabled
        /\ DrawAtRandom(ex.instr) \/ t = FindHighest(ex.p, EnabledSet(ex.en))

\* The execution when t's operation is executed or put back: the sleepers of W
\* are awake, the operation is counted and a change point dealt with.
Prepared(t, W, d) ==
  /\ W \subseteq SleepingSet(ex.en)
  /\ Same(ex, d, {"pend", "en", "wake", "ret", "waiters", "instr", "p", "extjob"})
  /\ d.pend = [ex.pend EXCEPT ![t] = None]
  /\ d.en = Set(ex.en, W, Enabled)
  /\ d.wake = [u \in Threads |-> u \in W \/ ex.wake[u]]
  /\ d.ret \in [Threads -> {"none", "yes", "no", "timeout"}]
  /\ d.waiters \in [Places -> [Threads -> Nat]]
  /\ WaitersAfter(W, d)
  /\ d.instr \in 0 .. InstrCap

\* An operation with its mark.
Marked(o, m) == m \in Ops /\ \E b \in BOOLEAN : m = [o EXCEPT !.ext = b]

\* The end of the step: f is the execution once m has been executed.
Ended(t, m, d, f, g) ==
  /\ Same(f, g, {"extjob", "last", "en", "bug"})
  /\ g.last = [f.last EXCEPT ![t] = [f.last[t] EXCEPT !.ext = Unmarked(d, m).ext]]
  /\ g.en = IF f.st[t] = "blocked" \/ IsComplete(f, t) THEN [f.en EXCEPT ![t] = Disabled] ELSE f.en
  /\ g.bug = IF f.over /\ f.bug = "none" /\ IsDeadlocked(g) THEN "deadlock" ELSE f.bug

Stepped(t, W, d, m) ==
  /\ Picked(t) /\ Prepared(t, W, d) /\ Marked(ex.pend[t], m)
  /\ \/ /\ InCount(m) /\ IsNew(m) /\ HighestThread(d.p, d.en) # t
        /\ Same(d, ex', {"pend"}) /\ ex'.pend = [d.pend EXCEPT ![t] = m]
        /\ m.ext /\ chosen' = SelectsNext(ex', t, m)
     \/ /\ \E f : Effect(d, t, m, f) /\ Ended(t, m, d, f, ex')
        /\ chosen' = SelectsNext(ex', t, Unmarked(d, m))
  /\ mode' = IF ex'.over THEN "finish" ELSE "scan"
  /\ UNCHANGED <<scan, old, nexec, chg, prog>>

\* The thread that takes the step was chosen, or was the best of those enabled.
LEMMA PickIs ==
  ASSUME IsState(ex), Good(ex), NEW t \in Threads, NEW pick \in Picks, pick[1] = t, ~pick[2].wake[t]
  PROVE  /\ pick[2] = ex
         /\ \/ chosen = t
            \/ /\ chosen = 0 /\ ex.en[t] = Enabled
               /\ DrawAtRandom(ex.instr) \/ t = FindHighest(ex.p, EnabledSet(ex.en))
  <1>1. CASE chosen # 0
    <2>1. pick = <<chosen, ex>>
      BY <1>1 DEF Picks
    <2> QED BY <2>1
  <1>2. CASE chosen = 0 /\ EnabledSet(ex.en) = {}
    <2>1. pick \in {<<u, [ex EXCEPT !.en[u] = Enabled, !.wake[u] = TRUE]>> : u \in SleepingSet(ex.en)}
      BY <1>2 DEF Picks, Selections
    <2>2. PICK u \in SleepingSet(ex.en) : pick = <<u, [ex EXCEPT !.en[u] = Enabled, !.wake[u] = TRUE]>>
      BY <2>1
    <2>3. u = t /\ pick[2] = [ex EXCEPT !.en[t] = Enabled, !.wake[t] = TRUE]
      BY <2>2
    <2>4. pick[2].wake[t]
      BY <2>3 DEF IsState, Fields
    <2> QED BY <2>4
  <1>3. CASE chosen = 0 /\ EnabledSet(ex.en) # {} /\ DrawAtRandom(ex.instr)
    <2>1. pick \in {<<u, ex>> : u \in EnabledSet(ex.en)}
      BY <1>3 DEF Picks, Selections
    <2>2. PICK u \in EnabledSet(ex.en) : pick = <<u, ex>>
      BY <2>1
    <2>3. u = t /\ pick[2] = ex
      BY <2>2
    <2> QED BY <1>3, <2>2, <2>3 DEF EnabledSet
  <1>4. CASE chosen = 0 /\ EnabledSet(ex.en) # {} /\ ~DrawAtRandom(ex.instr)
    <2> DEFINE avail == EnabledSet(ex.en)
               h == FindHighest(ex.p, avail)
    <2>1. pick \in {<<h, ex>>}
      BY <1>4 DEF Picks, Selections
    <2>2. pick = <<h, ex>>
      BY <2>1
    <2>3. h = t /\ pick[2] = ex
      BY <2>2
    <2>4. h \in avail \cup {0}
      <3> HIDE DEF avail
      <3>1. IsVectors(ex.p, ex.num)
        BY DEF Good
      <3>2. FirstOf(ex.p.low, avail, 0) \in avail \cup {0}
        BY <3>1, SlotNumbers, FirstIsOne
      <3>3. FirstOf(ex.p.high, avail, FirstOf(ex.p.low, avail, 0)) \in avail \cup {FirstOf(ex.p.low, avail, 0)}
        BY <3>1, SlotNumbers, FirstIsOne
      <3> QED BY <3>2, <3>3 DEF FindHighest
    <2>5. t # 0
      BY DEF Threads
    <2>6. ex.en[t] = Enabled
      BY <2>3, <2>4, <2>5 DEF EnabledSet
    <2> QED BY <1>4, <2>3, <2>6
  <1> QED BY <1>1, <1>2, <1>3, <1>4

\* The sleepers of W are woken and t's operation is about to be executed.
SleepersAwake(t, W, d) ==
  /\ Same(ex, d, {"pend", "en", "wake", "ret", "waiters"})
  /\ d.pend = [ex.pend EXCEPT ![t] = None]
  /\ d.en = Set(ex.en, W, Enabled)
  /\ d.wake = [u \in Threads |-> u \in W \/ ex.wake[u]]
  /\ d.ret \in [Threads -> {"none", "yes", "no", "timeout"}]
  /\ d.waiters \in [Places -> [Threads -> Nat]]
  /\ WaitersAfter(W, d)

\* So it is after wake_up_sleeping_actions.
LEMMA SleepersIs ==
  ASSUME IsState(ex), NEW t \in Threads, NEW W, W \subseteq SleepingSet(ex.en),
         NEW d, d = WakeSleepers([ex EXCEPT !.pend[t] = None], W)
  PROVE  SleepersAwake(t, W, d)
  <1> DEFINE e == [ex EXCEPT !.pend[t] = None]
  <1>1. Same(ex, e, {"pend"}) /\ e.pend = [ex.pend EXCEPT ![t] = None]
    BY DEF IsState, Same, Fields
  <1>2. /\ ex.ret \in [Threads -> {"none", "yes", "no", "timeout"}]
        /\ ex.waiters \in [Places -> [Threads -> Nat]]
    BY DEF IsState
  <1> HIDE DEF e
  <1>3. d = [e EXCEPT
       !.en   = [u \in Threads |-> IF u \in W THEN Enabled ELSE e.en[u]],
       !.wake = [u \in Threads |-> u \in W \/ e.wake[u]],
       !.ret  = [u \in Threads |-> IF u \in W /\ e.pend[u].k = "timedwait" THEN "timeout" ELSE e.ret[u]],
       !.waiters = [c \in DOMAIN e.waiters |-> StillWaiting(e, W, c, e.waiters[c])]]
    BY DEF WakeSleepers, e
  <1>4. DOMAIN e = Fields /\ e.en = ex.en /\ e.wake = ex.wake /\ e.ret = ex.ret /\ e.waiters = ex.waiters
    BY <1>1 DEF Same, Fields
  <1>5. /\ Same(e, d, {"en", "wake", "ret", "waiters"})
        /\ d.pend = e.pend
        /\ d.en = Set(ex.en, W, Enabled)
        /\ d.wake = [u \in Threads |-> u \in W \/ ex.wake[u]]
        /\ d.ret = [u \in Threads |-> IF u \in W /\ e.pend[u].k = "timedwait" THEN "timeout" ELSE ex.ret[u]]
        /\ d.waiters = [c \in Places |-> StillWaiting(e, W, c, ex.waiters[c])]
    <2>1. Same(e, d, {"en", "wake", "ret", "waiters"})
      BY <1>3, <1>4 DEF Same, Fields
    <2>2. /\ d.en = [u \in Threads |-> IF u \in W THEN Enabled ELSE e.en[u]]
          /\ d.wake = [u \in Threads |-> u \in W \/ e.wake[u]]
          /\ d.ret = [u \in Threads |-> IF u \in W /\ e.pend[u].k = "timedwait" THEN "timeout" ELSE e.ret[u]]
          /\ d.waiters = [c \in DOMAIN e.waiters |-> StillWaiting(e, W, c, e.waiters[c])]
      BY <1>3, <1>4 DEF Fields
    <2>3. d.pend = e.pend
      BY <2>1, SameFields
    <2> QED BY <1>2, <1>4, <2>1, <2>2, <2>3 DEF Set
  <1>6. ASSUME NEW c \in Places
        PROVE  /\ d.waiters[c] \in [Threads -> Nat]
               /\ \A u \in Threads :
                    /\ d.waiters[c][u] <= ex.waiters[c][u]
                    /\ ~(u \in W /\ IsWait(d.pend[u]) /\ d.pend[u].x = c) => d.waiters[c][u] = ex.waiters[c][u]
                    /\ u \in W /\ IsWait(d.pend[u]) /\ d.pend[u].x = c => d.waiters[c][u] \in {0, ex.waiters[c][u] - 1}
    <2>1. d.waiters[c] = StillWaiting(e, W, c, ex.waiters[c]) /\ ex.waiters[c] \in [Threads -> Nat]
      BY <1>2, <1>5
    <2> DEFINE v == ex.waiters[c]
               w == d.waiters[c]
               leaving == {u \in W : IsWait(e.pend[u]) /\ e.pend[u].x = c}
    <2>2. w = [u \in Threads |-> IF u \in leaving /\ v[u] > 0 THEN v[u] - 1 ELSE v[u]] /\ v \in [Threads -> Nat]
      BY <2>1 DEF StillWaiting
    <2>3. \A u : u \in leaving <=> u \in W /\ IsWait(d.pend[u]) /\ d.pend[u].x = c
      BY <1>5
    <2> HIDE DEF v, w, leaving
    <2>4. /\ w \in [Threads -> Nat]
          /\ \A u \in Threads : /\ w[u] <= v[u] /\ (u \notin leaving => w[u] = v[u])
                                /\ u \in leaving => w[u] \in {0, v[u] - 1}
      BY <2>2
    <2> QED BY <2>3, <2>4 DEF v, w
  <1>7. d.ret \in [Threads -> {"none", "yes", "no", "timeout"}]
    <2>1. \A u \in Threads : d.ret[u] = "timeout" \/ d.ret[u] = ex.ret[u]
      BY <1>5
    <2>2. DOMAIN d.ret = Threads /\ d.ret = [u \in Threads |-> d.ret[u]]
      BY <1>5
    <2> QED BY <1>2, <2>1, <2>2
  <1>8. Same(ex, d, {"pend", "en", "wake", "ret", "waiters"})
    BY <1>1, <1>5 DEF Same
  <1>9. d.waiters \in [Places -> [Threads -> Nat]]
    BY <1>5, <1>6
  <1>10. WaitersAfter(W, d)
    BY <1>6 DEF WaitersAfter
  <1> QED BY <1>1, <1>5, <1>7, <1>8, <1>9, <1>10 DEF SleepersAwake

\* Counting the operation and demoting the highest thread touch the rest of
\* the execution no more than Prepared says.
LEMMA PreparedIs ==
  ASSUME IsState(ex), NEW t \in Threads, NEW W, W \subseteq SleepingSet(ex.en), NEW o, NEW idx,
         NEW e0, e0 = WakeSleepers([ex EXCEPT !.pend[t] = None], W),
         NEW e1, e1 = Counted(e0, t, o), e1.instr \in 0 .. InstrCap,
         NEW d, d = Demoted(e1, t, o, idx)
  PROVE  Prepared(t, W, d)
  <1>1. /\ Same(ex, e0, {"pend", "en", "wake", "ret", "waiters"})
        /\ e0.pend = [ex.pend EXCEPT ![t] = None]
        /\ e0.en = Set(ex.en, W, Enabled)
        /\ e0.wake = [u \in Threads |-> u \in W \/ ex.wake[u]]
        /\ e0.ret \in [Threads -> {"none", "yes", "no", "timeout"}]
        /\ e0.waiters \in [Places -> [Threads -> Nat]]
    <2>1. SleepersAwake(t, W, e0)
      BY SleepersIs
    <2> QED BY <2>1 DEF SleepersAwake
  <1>0. WaitersAfter(W, e0)
    <2>1. SleepersAwake(t, W, e0)
      BY SleepersIs
    <2> QED BY <2>1 DEF SleepersAwake
  <1>2. e1 = e0 \/ \E n : e1 = [e0 EXCEPT !.instr = n]
    BY DEF Counted
  <1>3. d = e1 \/ \E p, x : d = [e1 EXCEPT !.p = p, !.extjob[t] = x]
    BY DEF Demoted
  <1>4. Same(e0, e1, {"instr"})
    BY <1>1, <1>2 DEF Same, Fields
  <1>5. Same(e1, d, {"p", "extjob"})
    BY <1>3, <1>4 DEF Same, Fields
  <1>6. Same(e0, d, {"instr", "p", "extjob"}) /\ d.instr = e1.instr
    BY <1>4, <1>5 DEF Same, Fields
  <1>7. /\ Same(ex, d, {"pend", "en", "wake", "ret", "waiters", "instr", "p", "extjob"})
        /\ d.pend = e0.pend /\ d.en = e0.en /\ d.wake = e0.wake /\ d.ret = e0.ret /\ d.waiters = e0.waiters
    <2>1. Same(ex, d, {"pend", "en", "wake", "ret", "waiters"} \cup {"instr", "p", "extjob"})
      BY <1>1, <1>6, SameThen
    <2>2. {"pend", "en", "wake", "ret", "waiters"} \cup {"instr", "p", "extjob"}
             = {"pend", "en", "wake", "ret", "waiters", "instr", "p", "extjob"}
      OBVIOUS
    <2> QED BY <1>6, <2>1, <2>2, SameFields
  <1>8. d.instr \in 0 .. InstrCap
    BY <1>6
  <1>9. WaitersAfter(W, d)
    <2>1. d.waiters = e0.waiters /\ d.pend = e0.pend
      BY <1>7
    <2> QED BY ONLY <1>0, <2>1 DEF WaitersAfter
  <1>10. /\ d.pend = [ex.pend EXCEPT ![t] = None] /\ d.en = Set(ex.en, W, Enabled)
         /\ d.wake = [u \in Threads |-> u \in W \/ ex.wake[u]]
         /\ d.ret \in [Threads -> {"none", "yes", "no", "timeout"}]
         /\ d.waiters \in [Places -> [Threads -> Nat]]
    BY <1>1, <1>7
  <1> QED BY <1>7, <1>8, <1>9, <1>10 DEF Prepared

\* The end of the step: remove_thread, and what finish_execution finds.
LEMMA SettledIs ==
  ASSUME NEW h, DOMAIN h = Fields, NEW t,
         NEW g, g = IF h.over THEN Reported(Settled(h, t)) ELSE Settled(h, t)
  PROVE  /\ Same(h, g, {"en", "bug"})
         /\ g.en = IF h.st[t] = "blocked" \/ IsComplete(h, t) THEN [h.en EXCEPT ![t] = Disabled] ELSE h.en
         /\ g.bug = IF h.over /\ h.bug = "none" /\ IsDeadlocked(g) THEN "deadlock" ELSE h.bug
  <1> DEFINE s == Settled(h, t)
  <1>1. s = IF h.st[t] = "blocked" \/ IsComplete(h, t) THEN [h EXCEPT !.en[t] = Disabled] ELSE h
    BY DEF Settled
  <1>2. g = IF h.over THEN Reported(s) ELSE s
    OBVIOUS
  <1> HIDE DEF s
  <1>3. Same(h, s, {"en"}) /\ DOMAIN s = Fields
    BY <1>1 DEF Same, Fields
  <1>4. s.en = IF h.st[t] = "blocked" \/ IsComplete(h, t) THEN [h.en EXCEPT ![t] = Disabled] ELSE h.en
    BY <1>1 DEF Fields
  <1>5. s.bug = h.bug /\ s.over = h.over
    BY <1>3, SameFields
  <1>6. g = IF h.over /\ s.bug = "none" /\ IsDeadlocked(s) THEN [s EXCEPT !.bug = "deadlock"] ELSE s
    BY <1>2, <1>5 DEF Reported
  <1>7. /\ Same(s, g, {"bug"})
        /\ g.bug = IF h.over /\ h.bug = "none" /\ IsDeadlocked(s) THEN "deadlock" ELSE h.bug
    BY <1>3, <1>5, <1>6 DEF Same, Fields
  <1>8. g.num = s.num /\ g.en = s.en /\ g.pend = s.pend
    BY <1>7, SameFields
  <1>9. IsDeadlocked(g) <=> IsDeadlocked(s)
    BY <1>8 DEF IsDeadlocked, HasPending
  <1>10. Same(h, g, {"en"} \cup {"bug"})
    BY <1>3, <1>7, SameThen
  <1>11. {"en"} \cup {"bug"} = {"en", "bug"}
    OBVIOUS
  <1> QED BY <1>4, <1>7, <1>8, <1>9, <1>10, <1>11

\* The consumption of the mark and of the external-read job before it.
Remarked(f, t, x, b) == [f EXCEPT !.extjob[t] = x, !.last[t].ext = b]

\* The consumption of a mark changes the job and the last operation only.
LEMMA MarkIs ==
  ASSUME NEW t \in Threads, NEW f, DOMAIN f = Fields, f.last \in [Threads -> Ops], NEW b, NEW x,
         NEW h, h = Remarked(f, t, x, b)
  PROVE  /\ Same(f, h, {"extjob", "last"})
         /\ h.last = [f.last EXCEPT ![t] = [f.last[t] EXCEPT !.ext = b]]
  <1> DEFINE e == [f EXCEPT !.extjob[t] = x]
  <1>1. Same(f, e, {"extjob"}) /\ e.last = f.last /\ DOMAIN e = Fields
    BY DEF Same, Fields
  <1>2. h = [e EXCEPT !.last[t].ext = b]
    BY DEF Remarked
  <1> HIDE DEF e
  <1>3. h = [e EXCEPT !.last = [e.last EXCEPT ![t] = [e.last[t] EXCEPT !.ext = b]]]
    BY <1>2
  <1>4. Same(e, h, {"last"}) /\ h.last = [e.last EXCEPT ![t] = [e.last[t] EXCEPT !.ext = b]]
    BY <1>1, <1>3 DEF Same, Fields
  <1>5. Same(f, h, {"extjob"} \cup {"last"})
    BY <1>1, <1>4, SameThen
  <1>6. {"extjob"} \cup {"last"} = {"extjob", "last"}
    OBVIOUS
  <1> QED BY <1>1, <1>4, <1>5, <1>6

\* What the end of a step (settling the thread, reporting at the end of main)
\* makes of the execution.
LEMMA EndedIs ==
  ASSUME NEW d, NEW t \in Threads, NEW m, NEW f, NEW h, Same(f, h, {"extjob", "last"}),
         h.last = [f.last EXCEPT ![t] = [f.last[t] EXCEPT !.ext = Unmarked(d, m).ext]],
         NEW g, g = IF h.over THEN Reported(Settled(h, t)) ELSE Settled(h, t)
  PROVE  Ended(t, m, d, f, g)
  <1>1. DOMAIN h = Fields
    BY DEF Same
  <1>2. /\ Same(h, g, {"en", "bug"})
        /\ g.en = IF h.st[t] = "blocked" \/ IsComplete(h, t) THEN [h.en EXCEPT ![t] = Disabled] ELSE h.en
        /\ g.bug = IF h.over /\ h.bug = "none" /\ IsDeadlocked(g) THEN "deadlock" ELSE h.bug
    BY <1>1, SettledIs
  <1>3. h.st = f.st /\ h.en = f.en /\ h.over = f.over /\ h.bug = f.bug /\ g.last = h.last
    BY <1>2, SameFields
  <1>4. IsComplete(h, t) <=> IsComplete(f, t)
    BY <1>3 DEF IsComplete
  <1>5. Same(f, g, {"extjob", "last"} \cup {"en", "bug"})
    BY <1>2, SameThen
  <1>6. {"extjob", "last"} \cup {"en", "bug"} = {"extjob", "last", "en", "bug"}
    OBVIOUS
  <1> QED BY <1>2, <1>3, <1>4, <1>5, <1>6 DEF Ended

\* take_step does what Stepped says.
LEMMA StepIs ==
  ASSUME prog \in Programs, IsState(ex), PrioInv, NEW t \in Threads, TakeStep(t)
  PROVE  \E W, d, m : Stepped(t, W, d, m) /\ Good(d) /\ IsState(d)
  <1>1. PICK pick \in Picks, W \in SUBSET SleepingSet(ex.en) :
          /\ pick[1] = t /\ ~pick[2].wake[t]
          /\ LET o  == ex.pend[t]
                 e1 == Counted(WakeSleepers([pick[2] EXCEPT !.pend[t] = None], W), t, o)
             IN \E idx \in {ChangePoint(e1, o)} :
                \E e2 \in {Demoted(e1, t, o, idx)} :
                \E marked \in {[o EXCEPT !.ext = @ \/ idx # 0]} :
                  IF PutBack(e2, t, o, idx)
                    THEN /\ ex' = [e2 EXCEPT !.pend[t] = marked]
                         /\ chosen' = SelectsNext(e2, t, marked)
                    ELSE \E e3 \in Processed(e2, t, marked) :
                           /\ ex' = IF e3.over THEN Reported(Settled(e3, t)) ELSE Settled(e3, t)
                           /\ chosen' = SelectsNext(ex', t, Unmarked(e2, marked))
    BY DEF TakeStep
  <1>2. /\ mode = "choose" /\ ex.bug = "none" /\ t <= ex.num /\ HasPending(ex, t)
        /\ mode' = IF ex'.over THEN "finish" ELSE "scan"
        /\ UNCHANGED <<scan, old, nexec, chg, prog>>
    BY DEF TakeStep
  <1>3. pick[2] = ex /\ Picked(t)
    <2>1. Good(ex)
      BY DEF PrioInv
    <2>2. /\ pick[2] = ex
          /\ \/ chosen = t
             \/ /\ chosen = 0 /\ ex.en[t] = Enabled
                /\ DrawAtRandom(ex.instr) \/ t = FindHighest(ex.p, EnabledSet(ex.en))
      BY <1>1, <2>1, PickIs
    <2> QED BY <1>1, <1>2, <2>2 DEF Picked
  <1> DEFINE o == ex.pend[t]
             e0 == WakeSleepers([ex EXCEPT !.pend[t] = None], W)
             e1 == Counted(e0, t, o)
             idx == ChangePoint(e1, o)
             d == Demoted(e1, t, o, idx)
             m == [o EXCEPT !.ext = @ \/ idx # 0]
  <1>4. IF PutBack(d, t, o, idx)
          THEN ex' = [d EXCEPT !.pend[t] = m] /\ chosen' = SelectsNext(d, t, m)
          ELSE \E h \in Processed(d, t, m) :
                 /\ ex' = IF h.over THEN Reported(Settled(h, t)) ELSE Settled(h, t)
                 /\ chosen' = SelectsNext(ex', t, Unmarked(d, m))
    BY <1>1, <1>3
  <1>5. Good(ex) /\ chg \in ChangePoints /\ t \in 1 .. ex.num
    BY <1>2 DEF PrioInv, Threads
  <1>6. Good(e0)
    <2> DEFINE e == [ex EXCEPT !.pend[t] = None]
    <2>1. Good(e) /\ e.num = ex.num
      BY <1>5, GoodKept DEF Good
    <2>2. W \subseteq 1 .. ex.num
      BY <1>5, SleepersExist
    <2> HIDE DEF e
    <2> QED BY <2>1, <2>2, WakeSleepersGood DEF e
  <1>7. Good(e1) /\ (idx # 0 => idx \in 1 .. BugDepth /\ chg[idx] = e1.instr /\ e1.p.low[idx] \notin 1 .. e1.num)
    <2> HIDE DEF e0
    <2> QED BY <1>5, <1>6, CountedGood
  <1>8. Good(d)
    <2> HIDE DEF e1, idx
    <2> QED BY <1>5, <1>7, DemotedGood
  <1>9. Prepared(t, W, d)
    <2>1. e1.instr \in 0 .. InstrCap
      BY <1>7 DEF Good
    <2> HIDE DEF idx
    <2> QED BY <1>1, <2>1, PreparedIs
  <1>10. o \in Ops /\ o.k # "none" /\ o.k # "assert" /\ FitsThread(t, o) /\ AtPlace(ex, t)
    <2>1. AtPlace(ex, t) /\ o \in Ops
      BY DEF IsState
    <2>2. o.k \notin {"none", "assert"} /\ o.k = ex.last[t].k /\ o.x = ex.last[t].x /\ o.y = ex.last[t].y
          /\ FitsThread(t, ex.last[t])
      BY <1>2, <2>1 DEF AtPlace, HasPending
    <2> QED BY <2>1, <2>2 DEF FitsThread
  <1>11. idx # 0 => InCount(o) /\ IsNew(o)
    BY DEF ChangePoint
  <1> HIDE DEF d
  <1>12. IsState(d)
    <2>1. /\ Same(ex, d, {"pend", "en", "wake", "ret", "waiters", "instr", "p", "extjob"})
          /\ d.pend = [ex.pend EXCEPT ![t] = None]
          /\ d.wake = [u \in Threads |-> u \in W \/ ex.wake[u]]
          /\ d.ret \in [Threads -> {"none", "yes", "no", "timeout"}]
          /\ d.waiters \in [Places -> [Threads -> Nat]]
          /\ \A c \in Places, u \in Threads : d.waiters[c][u] <= ex.waiters[c][u]
      BY <1>9 DEF Prepared, WaitersAfter
    <2>2. /\ d.num = ex.num /\ d.todo = ex.todo /\ d.last = ex.last /\ d.st = ex.st /\ d.locked = ex.locked
          /\ d.futex = ex.futex /\ d.bug = ex.bug
      <3>1. Same(ex, d, {"pend", "en", "wake", "ret", "waiters", "instr", "p", "extjob"})
        BY <2>1
      <3> QED BY <3>1, SameFields
    <2>3. DOMAIN d = Fields
      BY <2>1 DEF Same
    <2>4. None \in Ops
      BY DEF None, Op, Ops, Kinds
    <2>5. d.pend \in [Threads -> Ops] /\ d.wake \in [Threads -> BOOLEAN]
      BY <2>1, <2>4 DEF IsState
    <2>6. ASSUME NEW c \in Places PROVE Listed(d.waiters[c]) \subseteq 1 .. d.num
      <3>1. Listed(ex.waiters[c]) \subseteq 1 .. ex.num /\ ex.waiters[c] \in [Threads -> Nat]
            /\ d.waiters[c] \in [Threads -> Nat]
        BY <2>1 DEF IsState
      <3>2. ASSUME NEW u \in Listed(d.waiters[c]) PROVE u \in Listed(ex.waiters[c])
        <4>1. u \in Threads /\ d.waiters[c][u] > 0 /\ d.waiters[c][u] <= ex.waiters[c][u]
          BY <2>1, <3>2 DEF Listed
        <4>2. ex.waiters[c][u] \in Nat /\ d.waiters[c][u] \in Nat
          BY <3>1, <4>1
        <4> QED BY <4>1, <4>2 DEF Listed
      <3> QED BY <2>2, <3>1, <3>2
    <2>7. ASSUME NEW u \in Threads PROVE AtPlace(d, u)
      <3>1. AtPlace(ex, u)
        BY DEF IsState
      <3>2. d.pend[u] = ex.pend[u] \/ d.pend[u] = None
        BY <2>1 DEF IsState
      <3> QED BY <2>2, <3>1, <3>2 DEF AtPlace, HasPending, None, Op
    <2>8. Coming(d) \subseteq Coming(ex)
      <3>1. \A u \in Threads : d.pend[u] = ex.pend[u] \/ d.pend[u] = None
        BY <2>1 DEF IsState
      <3>2. \A c \in Creates(prog) : c[1] \in Threads
        BY DEF Creates
      <3> QED BY <2>2, <3>1, <3>2 DEF Coming, None, Op
    <2>9. d.num + Cardinality(Coming(d)) <= MaxThreads
      <3>1. /\ Cardinality(Coming(d)) <= Cardinality(Coming(ex))
            /\ Cardinality(Coming(ex)) \in Nat /\ Cardinality(Coming(d)) \in Nat
        BY <2>8, ComingFinite
      <3>2. ex.num + Cardinality(Coming(ex)) <= MaxThreads /\ ex.num \in Nat
        BY <1>5 DEF IsState, Good
      <3> QED BY <2>2, <3>1, <3>2, PctParams
    <2>10. d.locked \in [Places -> 0 .. d.num] /\ d.last \in [Threads -> Ops] /\ d.todo \in [Threads -> Seq(Ops)]
      BY <2>2 DEF IsState
    <2>11. /\ d.st \in [Threads -> {"created", "ready", "blocked", "completed", "freed"}]
           /\ d.futex \in Threads \cup {0}
           /\ d.bug \in {"none", "assert", "cycle", "deadlock"}
      BY <2>2 DEF IsState
    <2> QED BY <2>1, <2>3, <2>5, <2>6, <2>7, <2>9, <2>10, <2>11 DEF IsState
  <1>13. Marked(o, m)
    <2>1. (idx # 0) \in BOOLEAN /\ o.ext \in BOOLEAN
      BY <1>10 DEF Ops
    <2> HIDE DEF idx
    <2>2. m \in Ops
      BY <1>10, <2>1 DEF Ops
    <2> QED BY <2>1, <2>2 DEF Marked
  <1>14. CASE PutBack(d, t, o, idx)
    <2>1. idx # 0 /\ HighestThread(d.p, d.en) # t
      BY <1>14 DEF PutBack
    <2>2. ex' = [d EXCEPT !.pend[t] = m] /\ chosen' = SelectsNext(d, t, m)
      BY <1>4, <1>14 DEF d
    <2>3. m.ext /\ m.k = o.k
      BY <1>10, <2>1 DEF Ops
    <2>4. InCount(m) /\ IsNew(m)
      BY <1>11, <2>1, <2>3 DEF InCount, IsRead, IsNew
    <2> HIDE DEF m
    <2>5. DOMAIN d = Fields
      BY <1>12 DEF IsState
    <2>6. Same(d, ex', {"pend"})
      BY <2>2, <2>5 DEF Same, Fields
    <2>7. ex'.pend = [d.pend EXCEPT ![t] = m]
      BY <2>2, <2>5 DEF Fields
    <2>8. SelectsNext(ex', t, m) = SelectsNext(d, t, m)
      <3>1. ex'.p = d.p /\ ex'.en = d.en /\ ex'.num = d.num
        BY <2>6, SameFields
      <3> QED BY <3>1 DEF SelectsNext
    <2>9. Stepped(t, W, d, m)
      BY <1>2, <1>3, <1>9, <1>13, <2>1, <2>2, <2>3, <2>4, <2>6, <2>7, <2>8 DEF Stepped
    <2> QED BY <1>8, <1>12, <2>9
  <1>15. CASE ~PutBack(d, t, o, idx)
    <2>1. PICK h \in Processed(d, t, m) :
                 /\ ex' = IF h.over THEN Reported(Settled(h, t)) ELSE Settled(h, t)
                 /\ chosen' = SelectsNext(ex', t, Unmarked(d, m))
      BY <1>4, <1>15 DEF d
    <2> HIDE DEF m
    <2>2. PICK f \in Executed(d, t, m) :
            h = [f EXCEPT !.extjob[t] = @ /\ ~LoadsBelowLimit(d, m), !.last[t].ext = Unmarked(d, m).ext]
      BY <2>1 DEF Processed
    <2>3. DOMAIN d = Fields /\ d.last \in [Threads -> Ops]
      BY <1>12 DEF IsState
    <2>4. Effect(d, t, m, f)
      BY <2>3, ExecutedIs
    <2>5. DOMAIN f = Fields /\ f.last = d.last
      BY <2>4 DEF Effect, Same, Fields
    <2>6. /\ Same(f, h, {"extjob", "last"})
          /\ h.last = [f.last EXCEPT ![t] = [f.last[t] EXCEPT !.ext = Unmarked(d, m).ext]]
      <3> DEFINE x == f.extjob[t] /\ ~LoadsBelowLimit(d, m)
                 b == Unmarked(d, m).ext
      <3>1. h = Remarked(f, t, x, b)
        BY <2>2 DEF Remarked
      <3> HIDE DEF x, b
      <3>2. f.last \in [Threads -> Ops]
        BY <2>3, <2>5
      <3>3. /\ Same(f, h, {"extjob", "last"})
            /\ h.last = [f.last EXCEPT ![t] = [f.last[t] EXCEPT !.ext = b]]
        BY <2>5, <3>1, <3>2, MarkIs
      <3> QED BY <3>3 DEF b
    <2>7. Ended(t, m, d, f, ex')
      BY <2>1, <2>6, EndedIs
    <2>8. Stepped(t, W, d, m)
      BY <1>2, <1>3, <1>9, <1>13, <2>1, <2>4, <2>7 DEF Stepped
    <2> QED BY <1>8, <1>12, <2>8
  <1> QED BY <1>14, <1>15

----------------------------------------------------------------------------
(* The invariant.                                                          *)

\* Where t is does not depend on the mark of what it did last.
LEMMA EndedKeeps ==
  ASSUME prog \in Programs, NEW t \in Threads, NEW m, NEW d, NEW f, IsState(f), NEW g, Ended(t, m, d, f, g),
         Unmarked(d, m).ext \in BOOLEAN
  PROVE  IsState(g)
  <1>1. /\ Same(f, g, {"extjob", "last", "en", "bug"})
        /\ g.last = [f.last EXCEPT ![t] = [f.last[t] EXCEPT !.ext = Unmarked(d, m).ext]]
        /\ g.bug \in {f.bug, "deadlock"}
    BY DEF Ended
  <1>2. Same(f, g, {"extjob", "last", "en", "bug"})
    BY <1>1
  <1>3. /\ g.num = f.num /\ g.todo = f.todo /\ g.pend = f.pend /\ g.st = f.st /\ g.wake = f.wake /\ g.ret = f.ret
        /\ g.locked = f.locked /\ g.waiters = f.waiters /\ g.futex = f.futex
    BY <1>2, SameFields
  <1>4. DOMAIN g = Fields
    BY <1>2 DEF Same
  <1>5. f.last \in [Threads -> Ops]
    BY DEF IsState
  <1>6. /\ g.last \in [Threads -> Ops]
        /\ \A u \in Threads : /\ g.last[u].k = f.last[u].k /\ g.last[u].x = f.last[u].x
                              /\ g.last[u].y = f.last[u].y /\ g.last[u].n = f.last[u].n
    <2> DEFINE l == [f.last[t] EXCEPT !.ext = Unmarked(d, m).ext]
    <2>1. l \in Ops /\ l.k = f.last[t].k /\ l.x = f.last[t].x /\ l.y = f.last[t].y /\ l.n = f.last[t].n
      BY <1>5 DEF Ops
    <2>2. g.last = [f.last EXCEPT ![t] = l]
      BY <1>1
    <2> HIDE DEF l
    <2>3. \A u \in Threads : g.last[u] = IF u = t THEN l ELSE f.last[u]
      BY <1>5, <2>2
    <2> QED BY <1>5, <2>1, <2>2, <2>3
  <1>7. ASSUME NEW u \in Threads PROVE AtPlace(g, u)
    <2>1. AtPlace(f, u)
      BY DEF IsState
    <2> QED BY <1>3, <1>6, <2>1 DEF AtPlace, HasPending, FitsThread
  <1>8. Coming(g) = Coming(f)
    BY <1>3 DEF Coming
  <1>9. g.bug \in {"none", "assert", "cycle", "deadlock"}
    BY <1>1 DEF IsState
  <1> QED BY <1>3, <1>4, <1>6, <1>7, <1>8, <1>9 DEF IsState

\* A step leads from executions to executions, and chooses a thread or none.
LEMMA StepKeeps ==
  ASSUME prog \in Programs, IsState(ex), PrioInv, NEW t \in Threads, TakeStep(t)
  PROVE  IsState(ex') /\ chosen' \in 0 .. MaxThreads
  <1>1. PICK W, d, m : Stepped(t, W, d, m) /\ Good(d) /\ IsState(d)
    BY StepIs
  <1> DEFINE o == ex.pend[t]
  <1>2. t <= ex.num /\ HasPending(ex, t)
    BY <1>1 DEF Stepped, Picked
  <1>3. /\ Same(ex, d, {"pend", "en", "wake", "ret", "waiters", "instr", "p", "extjob"})
        /\ d.pend = [ex.pend EXCEPT ![t] = None]
    BY <1>1 DEF Stepped, Prepared
  <1>4. Same(ex, d, {"pend", "en", "wake", "ret", "waiters", "instr", "p", "extjob"})
    BY <1>3
  <1>5. d.num = ex.num /\ d.todo = ex.todo /\ d.last = ex.last
    BY <1>4, SameFields
  <1>6. /\ m \in Ops /\ m.k = o.k /\ m.x = o.x /\ m.y = o.y
    <2>1. PICK b \in BOOLEAN : m = [o EXCEPT !.ext = b] /\ m \in Ops
      BY <1>1 DEF Stepped, Marked
    <2>2. o \in Ops
      BY DEF IsState
    <2> QED BY <2>1, <2>2 DEF Ops
  <1>7. AtPlace(ex, t) /\ d.pend[t] = None
    BY <1>3 DEF IsState
  <1>8. /\ m.k \notin {"none", "assert"} /\ m.k = d.last[t].k /\ m.x = d.last[t].x /\ m.y = d.last[t].y
        /\ FitsThread(t, m) /\ ~HasPending(d, t)
    BY <1>2, <1>5, <1>6, <1>7 DEF AtPlace, HasPending, FitsThread, None, Op
  <1>9. m.k = "create" => d.num + 1 + Cardinality(Coming(d)) <= MaxThreads
    <2>1. SUFFICES ASSUME m.k = "create" PROVE d.num + 1 + Cardinality(Coming(d)) <= MaxThreads
      OBVIOUS
    <2> DEFINE c == <<t, Len(prog[t]) + 1 - Len(ex.todo[t])>>
    <2>2. c \in Creates(prog) /\ ex.pend[t].k = "create"
      BY <1>6, <1>7, <2>1 DEF AtPlace
    <2>3. Len(prog[t]) \in Nat /\ Len(ex.todo[t]) \in Nat
      BY CodeIs DEF IsState
    <2>4. c[1] = t /\ Len(ex.todo[t]) = Len(prog[t]) + 1 - c[2]
      <3>1. c[1] = t /\ c[2] = Len(prog[t]) + 1 - Len(ex.todo[t])
        OBVIOUS
      <3> HIDE DEF c
      <3> QED BY <2>3, <3>1
    <2>5. c \in Coming(ex)
      BY <2>2, <2>4 DEF Coming
    <2>6. c \notin Coming(d)
      <3> HIDE DEF c
      <3>1. d.pend[c[1]].k # "create" /\ d.todo[c[1]] = ex.todo[t]
        <4>1. d.pend[t].k = "none" /\ d.todo[t] = ex.todo[t]
          BY <1>5, <1>7 DEF None, Op
        <4> QED BY <2>4, <4>1
      <3>2. ~ (Len(ex.todo[t]) > Len(prog[t]) + 1 - c[2])
        BY <2>3, <2>4
      <3> QED BY <2>4, <3>1, <3>2 DEF Coming
    <2>7. Coming(d) \subseteq Coming(ex)
      <3>1. \A u \in Threads : d.pend[u] = ex.pend[u] \/ d.pend[u] = None
        BY <1>3 DEF IsState
      <3>2. \A b \in Creates(prog) : b[1] \in Threads
        BY DEF Creates
      <3> QED BY <1>5, <3>1, <3>2 DEF Coming, None, Op
    <2>8. /\ Cardinality(Coming(d)) + 1 <= Cardinality(Coming(ex))
          /\ Cardinality(Coming(ex)) \in Nat /\ Cardinality(Coming(d)) \in Nat
      BY <2>5, <2>6, <2>7, ComingFinite
    <2>9. ex.num + Cardinality(Coming(ex)) <= MaxThreads /\ ex.num \in Nat /\ d.num = ex.num
      BY <1>5 DEF IsState, PrioInv, Good
    <2> QED BY <2>8, <2>9, PctParams
  <1>10. Unmarked(d, m).ext \in BOOLEAN
    BY <1>6 DEF Unmarked, Ops
  <1>11. IsState(ex')
    <2>1. CASE /\ InCount(m) /\ Same(d, ex', {"pend"}) /\ ex'.pend = [d.pend EXCEPT ![t] = m]
      <3>1. Same(d, ex', {"pend"})
        BY <2>1
      <3>2. /\ ex'.num = d.num /\ ex'.todo = d.todo /\ ex'.last = d.last /\ ex'.st = d.st /\ ex'.wake = d.wake
            /\ ex'.ret = d.ret /\ ex'.locked = d.locked /\ ex'.waiters = d.waiters /\ ex'.futex = d.futex
            /\ ex'.bug = d.bug
        BY <3>1, SameFields
      <3>3. m.k \notin {"create", "assert"}
        BY <2>1 DEF InCount, IsRead
      <3>4. \A u \in Threads : ex'.pend[u] = IF u = t THEN m ELSE d.pend[u]
        BY <1>1, <2>1 DEF IsState
      <3>5. ASSUME NEW u \in Threads PROVE AtPlace(ex', u)
        <4>1. AtPlace(d, u)
          BY <1>1 DEF IsState
        <4> QED BY <1>8, <3>2, <3>3, <3>4, <4>1 DEF AtPlace, HasPending
      <3>6. Coming(ex') \subseteq Coming(d)
        <4>1. \A b \in Creates(prog) : b[1] \in Threads
          BY DEF Creates
        <4> QED BY <3>2, <3>3, <3>4, <4>1 DEF Coming
      <3>7. ex'.num + Cardinality(Coming(ex')) <= MaxThreads
        <4>1. /\ Cardinality(Coming(ex')) <= Cardinality(Coming(d))
              /\ Cardinality(Coming(ex')) \in Nat /\ Cardinality(Coming(d)) \in Nat
          BY <3>6, ComingFinite
        <4>2. d.num + Cardinality(Coming(d)) <= MaxThreads /\ d.num \in Nat
          BY <1>1 DEF IsState, Good
        <4> QED BY <3>2, <4>1, <4>2, PctParams
      <3>8. ex'.pend \in [Threads -> Ops]
        BY <1>1, <1>6, <2>1 DEF IsState
      <3>9. DOMAIN ex' = Fields
        BY <3>1 DEF Same
      <3> QED BY <1>1, <3>2, <3>5, <3>7, <3>8, <3>9 DEF IsState
    <2>2. CASE \E f : Effect(d, t, m, f) /\ Ended(t, m, d, f, ex')
      <3>1. PICK f : Effect(d, t, m, f) /\ Ended(t, m, d, f, ex')
        BY <2>2
      <3>2. IsState(f)
        BY <1>1, <1>2, <1>5, <1>6, <1>8, <1>9, <3>1, ExecutedKeeps
      <3> QED BY <1>10, <3>1, <3>2, EndedKeeps
    <2> QED BY <1>1, <2>1, <2>2 DEF Stepped
  <1>12. chosen' \in 0 .. MaxThreads
    <2>1. \E q : chosen' = SelectsNext(ex', t, q)
      BY <1>1 DEF Stepped
    <2>2. Good(ex')
      BY StepGood DEF PrioInv
    <2>3. ex'.num \in 0 .. MaxThreads
      <3>1. Cardinality(Coming(ex')) \in Nat
        BY ComingFinite
      <3> QED BY <1>11, <2>2, <3>1, PctParams DEF IsState, Good
    <2>4. HighestThread(ex'.p, ex'.en) \in 1 .. ex'.num \cup {NoThread}
      BY <2>2, HighestExists DEF Good
    <2>5. t \in 0 .. MaxThreads /\ 0 \in 0 .. MaxThreads
      BY PctParams DEF Threads
    <2>6. \A q : SelectsNext(ex', t, q) \in {0, t, ex'.num, HighestThread(ex'.p, ex'.en)} \ {NoThread}
      BY <2>3, <2>5 DEF SelectsNext, NoThread
    <2>7. 1 .. ex'.num \subseteq 0 .. MaxThreads
      BY <2>3, PctParams
    <2> QED BY <2>1, <2>3, <2>4, <2>5, <2>6, <2>7
  <1> QED BY <1>11, <1>12

\* The runtime picks the execution, or wakes a sleeper in it.
LEMMA PickKeeps ==
  ASSUME prog \in Programs, IsState(ex), NEW pick \in Picks
  PROVE  IsState(pick[2])
  <1>1. \/ pick[2] = ex
        \/ \E t \in SleepingSet(ex.en) : pick[2] = [ex EXCEPT !.en[t] = Enabled, !.wake[t] = TRUE]
    <2>1. CASE chosen # 0
      <3>1. pick = <<chosen, ex>>
        BY <2>1 DEF Picks
      <3> QED BY <3>1
    <2>2. CASE chosen = 0 /\ EnabledSet(ex.en) = {}
      <3>1. pick \in {<<t, [ex EXCEPT !.en[t] = Enabled, !.wake[t] = TRUE]>> : t \in SleepingSet(ex.en)}
        BY <2>2 DEF Picks, Selections
      <3>2. PICK t \in SleepingSet(ex.en) : pick = <<t, [ex EXCEPT !.en[t] = Enabled, !.wake[t] = TRUE]>>
        BY <3>1
      <3>3. pick[2] = [ex EXCEPT !.en[t] = Enabled, !.wake[t] = TRUE]
        BY <3>2
      <3> QED BY <3>3
    <2>3. CASE chosen = 0 /\ EnabledSet(ex.en) # {}
      <3>1. \/ pick \in {<<t, ex>> : t \in EnabledSet(ex.en)}
            \/ pick = <<FindHighest(ex.p, EnabledSet(ex.en)), ex>>
        BY <2>3 DEF Picks, Selections
      <3>2. \E t : pick = <<t, ex>>
        BY <3>1
      <3>3. pick[2] = ex
        BY <3>2
      <3> QED BY <3>3
    <2> QED BY <2>1, <2>2, <2>3
  <1>2. ASSUME NEW t, NEW f, f = [ex EXCEPT !.en[t] = Enabled, !.wake[t] = TRUE] PROVE IsState(f)
    <2>1. Same(ex, f, {"en", "wake"}) /\ f.wake = [ex.wake EXCEPT ![t] = TRUE]
      BY <1>2 DEF IsState, Same, Fields
    <2>2. Same(ex, f, {"en", "wake"})
      BY <2>1
    <2>3. /\ f.num = ex.num /\ f.todo = ex.todo /\ f.last = ex.last /\ f.pend = ex.pend /\ f.st = ex.st
          /\ f.ret = ex.ret /\ f.locked = ex.locked /\ f.waiters = ex.waiters /\ f.futex = ex.futex /\ f.bug = ex.bug
      BY <2>2, SameFields
    <2>4. f.wake \in [Threads -> BOOLEAN] /\ DOMAIN f = Fields
      BY <2>1 DEF IsState, Same
    <2>5. /\ f.st \in [Threads -> {"created", "ready", "blocked", "completed", "freed"}]
          /\ f.ret \in [Threads -> {"none", "yes", "no", "timeout"}]
          /\ f.locked \in [Places -> 0 .. ex.num]
          /\ f.waiters \in [Places -> [Threads -> Nat]]
          /\ \A c \in Places : Listed(f.waiters[c]) \subseteq 1 .. ex.num
          /\ f.futex \in Threads \cup {0}
          /\ f.bug \in {"none", "assert", "cycle", "deadlock"}
      BY <2>3 DEF IsState
    <2> HIDE DEF Same
    <2> QED BY <2>3, <2>4, <2>5, StateKept
  <1> QED BY <1>1, <1>2

\* A thread that drops its operation goes on in user code.
LEMMA DropKeeps ==
  ASSUME prog \in Programs, NEW e, IsState(e), e.num \in Nat, NEW t \in Threads,
         NEW f, f = [e EXCEPT !.wake[t] = FALSE, !.pend[t] = None]
  PROVE  IsState(f)
  <1>1. /\ Same(e, f, {"wake", "pend"}) /\ f.wake = [e.wake EXCEPT ![t] = FALSE]
        /\ f.pend = [e.pend EXCEPT ![t] = None]
    BY DEF IsState, Same, Fields
  <1>2. Same(e, f, {"wake", "pend"})
    BY <1>1
  <1>3. /\ f.num = e.num /\ f.todo = e.todo /\ f.last = e.last /\ f.st = e.st /\ f.ret = e.ret
        /\ f.locked = e.locked /\ f.waiters = e.waiters /\ f.futex = e.futex /\ f.bug = e.bug
    BY <1>2, SameFields
  <1>4. None \in Ops
    BY DEF None, Op, Ops, Kinds
  <1>5. f.pend \in [Threads -> Ops] /\ f.wake \in [Threads -> BOOLEAN] /\ DOMAIN f = Fields
    BY <1>1, <1>4 DEF IsState, Same
  <1>6. \A u \in Threads : f.pend[u] = e.pend[u] \/ f.pend[u] = None
    BY <1>1 DEF IsState
  <1>7. ASSUME NEW u \in Threads PROVE AtPlace(f, u)
    <2>1. AtPlace(e, u)
      BY DEF IsState
    <2> QED BY <1>3, <1>6, <2>1 DEF AtPlace, HasPending, None, Op
  <1>8. Coming(f) \subseteq Coming(e)
    <2>1. \A c \in Creates(prog) : c[1] \in Threads
      BY DEF Creates
    <2> QED BY <1>3, <1>6, <2>1 DEF Coming, None, Op
  <1>9. f.num + Cardinality(Coming(f)) <= MaxThreads
    <2>1. /\ Cardinality(Coming(f)) <= Cardinality(Coming(e))
          /\ Cardinality(Coming(e)) \in Nat /\ Cardinality(Coming(f)) \in Nat
      BY <1>8, ComingFinite
    <2>2. e.num + Cardinality(Coming(e)) <= MaxThreads
      BY DEF IsState
    <2>3. f.num = e.num
      BY <1>3
    <2> QED BY <2>1, <2>2, <2>3, PctParams
  <1> QED BY <1>3, <1>5, <1>7, <1>9 DEF IsState

\* Executions start as they should.
LEMMA InitialIs ==
  ASSUME prog \in Programs, chg \in ChangePoints, NEW e, e = Initial(MainSlot, prog)
  PROVE  IsState(e)
  <1>1. /\ DOMAIN e = Fields /\ e.num = 1
        /\ e.todo = [t \in Threads |-> Code(t)]
        /\ e.last = [t \in Threads |-> None] /\ e.pend = [t \in Threads |-> None]
        /\ e.st = [t \in Threads |-> "created"] /\ e.wake = [t \in Threads |-> FALSE]
        /\ e.ret = [t \in Threads |-> "none"]
        /\ e.locked = [m \in Places |-> 0] /\ e.waiters = [c \in Places |-> Nobody]
        /\ e.futex = 0 /\ e.bug = "none"
    BY DEF Initial, Fields, Code, Places
  <1>2. None \in Ops /\ None.k = "none"
    BY DEF None, Op, Ops, Kinds
  <1>3. \A t \in Threads : Code(t) \in Seq(Ops) /\ Len(Code(t)) = Len(prog[t]) + 2 /\ Len(prog[t]) \in Nat
    BY CodeIs
  <1>4. ASSUME NEW t \in Threads PROVE AtPlace(e, t)
    <2> DEFINE c == Code(t)
    <2>1. c \in Seq(Ops) /\ Len(c) \in Nat \ {0} /\ e.todo[t] = c /\ e.last[t] = None /\ e.pend[t] = None
      BY <1>1, <1>3
    <2> HIDE DEF c
    <2>2. c # <<>>
      BY <2>1
    <2>3. Len(c) <= Len(c) /\ \A i \in 1 .. Len(c) : c[i] = c[Len(c) - Len(c) + i]
      BY <2>1
    <2>4. IsRest(t, e.todo[t])
      BY <2>1, <2>3 DEF IsRest, c
    <2> QED BY <1>2, <2>1, <2>2, <2>4 DEF AtPlace, HasPending, FitsThread, c
  <1>5. Nobody \in [Threads -> Nat] /\ Listed(Nobody) = {}
    BY DEF Nobody, Listed
  <1>6. e.num + Cardinality(Coming(e)) <= MaxThreads
    <2>1. Cardinality(Coming(e)) < MaxThreads /\ Cardinality(Coming(e)) \in Nat
      BY ComingFinite
    <2> QED BY <1>1, <2>1, PctParams
  <1>7. e.todo \in [Threads -> Seq(Ops)]
    BY <1>1, <1>3
  <1> HIDE DEF Nobody
  <1>8. /\ e.waiters \in [Places -> [Threads -> Nat]]
        /\ \A c \in Places : Listed(e.waiters[c]) \subseteq 1 .. e.num
    BY <1>1, <1>5
  <1>9. e.locked \in [Places -> 0 .. e.num]
    BY <1>1
  <1> QED BY <1>1, <1>2, <1>4, <1>6, <1>7, <1>8, <1>9 DEF IsState

\* Every step of the runtime keeps the types.
LEMMA TypesStep == ASSUME TypeInv, [Next]_vars PROVE TypeInv'
  <1>0. /\ PrioInv /\ prog \in Programs /\ IsState(ex) /\ chosen \in 0 .. MaxThreads
        /\ scan \in 1 .. MaxThreads + 1
        /\ mode \in {"choose", "finish", "exit"} => scan = 1
        /\ mode \in {"scan", "choose", "finish", "exit", "hang", "crash"}
    BY DEF TypeInv
  <1>1. PrioInv' /\ prog' = prog
    <2>1. prog' = prog
      BY DEF Next, vars, RunThread, FreeThread, BlockThread, PassThread, EndScan, StopAsserted,
         NothingToRun, ResumeWoken, TakeStep, StepOfNobody, FinishExecution, Over
    <2> QED BY <1>0, <2>1, PrioStep
  <1> DEFINE Goal == /\ IsState(ex') /\ chosen' \in 0 .. MaxThreads
                     /\ scan' \in 1 .. MaxThreads + 1
                     /\ mode' \in {"choose", "finish", "exit"} => scan' = 1
                     /\ mode' \in {"scan", "choose", "finish", "exit", "hang", "crash"}
  <1>2. SUFFICES Goal
    <2>1. IsState(ex)' <=> IsState(ex')
      <3>1. \A t \in Threads : AtPlace(ex, t)' <=> AtPlace(ex', t)
        BY <1>1 DEF AtPlace, IsRest, Code, FitsThread, Joined
      <3>2. Coming(ex)' = Coming(ex')
        BY <1>1 DEF Coming
      <3> QED BY <3>1, <3>2 DEF IsState
    <2> QED BY <1>0, <1>1, <1>2, <2>1 DEF TypeInv
  <1>3. ex.num \in 1 .. MaxThreads
    <2>1. ex.num \in Nat \ {0} /\ ex.num + Cardinality(Coming(ex)) <= MaxThreads
      BY <1>0 DEF PrioInv, Good, IsState
    <2>2. Cardinality(Coming(ex)) \in Nat
      BY <1>0, ComingFinite
    <2> QED BY <2>1, <2>2, PctParams
  <1>4. ASSUME Scanning PROVE scan \in Threads /\ scan + 1 \in 1 .. MaxThreads + 1
    BY <1>0, <1>3, <1>4, PctParams DEF Scanning, Threads
  <1>5. IsState([ex EXCEPT !.st[scan] = "freed"])
    <2> DEFINE f == [ex EXCEPT !.st[scan] = "freed"]
    <2>1. Same(ex, f, {"st"}) /\ f.st = [ex.st EXCEPT ![scan] = "freed"]
      BY <1>0 DEF IsState, Same, Fields
    <2> HIDE DEF f
    <2>2. Same(ex, f, {"st"}) /\ DOMAIN f = Fields
      BY <2>1 DEF Same
    <2>3. /\ f.num = ex.num /\ f.todo = ex.todo /\ f.last = ex.last /\ f.pend = ex.pend /\ f.wake = ex.wake
          /\ f.ret = ex.ret /\ f.locked = ex.locked /\ f.waiters = ex.waiters /\ f.futex = ex.futex /\ f.bug = ex.bug
      BY <2>2, SameFields
    <2>4. /\ f.st \in [Threads -> {"created", "ready", "blocked", "completed", "freed"}]
          /\ f.wake \in [Threads -> BOOLEAN]
          /\ f.ret \in [Threads -> {"none", "yes", "no", "timeout"}]
          /\ f.locked \in [Places -> 0 .. ex.num]
          /\ f.waiters \in [Places -> [Threads -> Nat]]
          /\ \A c \in Places : Listed(f.waiters[c]) \subseteq 1 .. ex.num
          /\ f.futex \in Threads \cup {0}
          /\ f.bug \in {"none", "assert", "cycle", "deadlock"}
      BY <1>0, <2>1, <2>3 DEF IsState
    <2>5. IsState(f)
      BY <1>0, <2>2, <2>3, <2>4, StateKept
    <2> QED BY <2>5 DEF f
  <1>6. IsState(SleepThread(ex, scan))
    <2> DEFINE f == SleepThread(ex, scan)
    <2>1. Same(ex, f, {"en", "st"}) /\ f.st = [ex.st EXCEPT ![scan] = "blocked"]
      BY <1>0 DEF IsState, Same, Fields, SleepThread
    <2> HIDE DEF f
    <2>2. Same(ex, f, {"en", "st"}) /\ DOMAIN f = Fields
      BY <2>1 DEF Same
    <2>3. /\ f.num = ex.num /\ f.todo = ex.todo /\ f.last = ex.last /\ f.pend = ex.pend /\ f.wake = ex.wake
          /\ f.ret = ex.ret /\ f.locked = ex.locked /\ f.waiters = ex.waiters /\ f.futex = ex.futex /\ f.bug = ex.bug
      BY <2>2, SameFields
    <2>4. /\ f.st \in [Threads -> {"created", "ready", "blocked", "completed", "freed"}]
          /\ f.wake \in [Threads -> BOOLEAN]
          /\ f.ret \in [Threads -> {"none", "yes", "no", "timeout"}]
          /\ f.locked \in [Places -> 0 .. ex.num]
          /\ f.waiters \in [Places -> [Threads -> Nat]]
          /\ \A c \in Places : Listed(f.waiters[c]) \subseteq 1 .. ex.num
          /\ f.futex \in Threads \cup {0}
          /\ f.bug \in {"none", "assert", "cycle", "deadlock"}
      BY <1>0, <2>1, <2>3 DEF IsState
    <2>5. IsState(f)
      BY <1>0, <2>2, <2>3, <2>4, StateKept
    <2> QED BY <2>5 DEF f
  <1>7. IsState(Reported(ex))
    <2>1. ASSUME NEW f, f = [ex EXCEPT !.bug = "deadlock"] PROVE IsState(f)
      <3>1. Same(ex, f, {"bug"}) /\ DOMAIN f = Fields /\ f.bug = "deadlock"
        BY <1>0, <2>1 DEF IsState, Same, Fields
      <3>2. Same(ex, f, {"bug"})
        BY <3>1
      <3>3. /\ f.num = ex.num /\ f.todo = ex.todo /\ f.last = ex.last /\ f.pend = ex.pend /\ f.wake = ex.wake
            /\ f.ret = ex.ret /\ f.locked = ex.locked /\ f.waiters = ex.waiters /\ f.futex = ex.futex /\ f.st = ex.st
        BY <3>2, SameFields
      <3>4. /\ f.st \in [Threads -> {"created", "ready", "blocked", "completed", "freed"}]
            /\ f.wake \in [Threads -> BOOLEAN]
            /\ f.ret \in [Threads -> {"none", "yes", "no", "timeout"}]
            /\ f.locked \in [Places -> 0 .. ex.num]
            /\ f.waiters \in [Places -> [Threads -> Nat]]
            /\ \A c \in Places : Listed(f.waiters[c]) \subseteq 1 .. ex.num
            /\ f.futex \in Threads \cup {0}
            /\ f.bug \in {"none", "assert", "cycle", "deadlock"}
        BY <1>0, <3>1, <3>3 DEF IsState
      <3> QED BY <1>0, <3>1, <3>3, <3>4, StateKept
    <2> QED BY <1>0, <2>1 DEF Reported
  <1>8. CASE RunThread
    <2>1. /\ Scanning /\ UNCHANGED <<chosen, scan>>
          /\ \/ mode' = "crash" /\ ex' = ex
             \/ /\ ~HasPending(ex, scan) /\ ex.last[scan].k \notin {"finish", "exit"}
                /\ ex' = UserRuns(ex, scan) /\ mode' \in {"hang", mode}
      BY <1>8 DEF RunThread
    <2>2. scan \in Threads /\ scan <= ex.num /\ mode = "scan" /\ Good(ex)
      BY <1>0, <1>4, <2>1 DEF Scanning, PrioInv
    <2>3. IsState(ex')
      BY <1>0, <2>1, <2>2, UserKeeps
    <2> QED BY <1>0, <2>1, <2>2, <2>3
  <1>9. CASE FreeThread
    <2>1. ex' = ex \/ ex' = [ex EXCEPT !.st[scan] = "freed"]
      BY <1>9 DEF FreeThread
    <2>2. Scanning /\ mode = "scan" /\ scan' = scan + 1 /\ UNCHANGED <<chosen, mode>>
      BY <1>9 DEF FreeThread, Scanning
    <2> QED BY <1>0, <1>4, <1>5, <2>1, <2>2
  <1>10. CASE BlockThread
    <2>1. Scanning /\ mode = "scan" /\ scan' = scan + 1 /\ UNCHANGED <<chosen, mode>> /\ ex' = SleepThread(ex, scan)
      BY <1>10 DEF BlockThread, Scanning
    <2> QED BY <1>0, <1>4, <1>6, <2>1
  <1>11. CASE PassThread
    <2>1. Scanning /\ mode = "scan" /\ scan' = scan + 1 /\ UNCHANGED <<mode, ex>> /\ chosen' \in {chosen, scan}
      BY <1>11 DEF PassThread, Scanning
    <2>2. scan \in 0 .. MaxThreads
      BY <1>4, <2>1, PctParams DEF Threads
    <2> QED BY <1>0, <1>4, <2>1, <2>2
  <1>12. CASE EndScan
    <2>1. mode' = "choose" /\ scan' = 1 /\ UNCHANGED <<ex, chosen>>
      BY <1>12 DEF EndScan
    <2> QED BY <1>0, <2>1, PctParams
  <1>13. CASE StopAsserted
    <2>1. mode = "choose" /\ mode' = "finish" /\ UNCHANGED <<ex, chosen, scan>>
      BY <1>13 DEF StopAsserted
    <2> QED BY <1>0, <2>1
  <1>14. CASE NothingToRun
    <2>1. mode = "choose" /\ mode' = "finish" /\ ex' = Reported(ex) /\ UNCHANGED <<chosen, scan>>
      BY <1>14 DEF NothingToRun
    <2> QED BY <1>0, <1>7, <2>1
  <1>15. ASSUME NEW t \in Threads, ResumeWoken(t) PROVE Goal
    <2>1. PICK pick \in Picks : ex' = [pick[2] EXCEPT !.wake[t] = FALSE, !.pend[t] = None]
      BY <1>15 DEF ResumeWoken
    <2>2. IsState(pick[2]) /\ pick[2].num \in Nat
      <3>1. pick[2].num = ex.num
        BY <1>0, PickGood DEF PrioInv
      <3> QED BY <1>0, <1>3, <3>1, PickKeeps
    <2>3. IsState(ex')
      BY <1>0, <2>1, <2>2, DropKeeps
    <2>4. chosen' = 0 /\ mode = "choose" /\ mode' = "scan" /\ scan' = scan
      BY <1>15 DEF ResumeWoken
    <2> QED BY <1>0, <2>3, <2>4, PctParams
  <1>16. ASSUME NEW t \in Threads, TakeStep(t) PROVE Goal
    <2>1. IsState(ex') /\ chosen' \in 0 .. MaxThreads
      BY <1>0, <1>16, StepKeeps
    <2>2. mode = "choose" /\ mode' \in {"finish", "scan"} /\ scan' = scan
      BY <1>16 DEF TakeStep
    <2> QED BY <1>0, <2>1, <2>2
  <1>17. CASE StepOfNobody
    <2>1. mode' = "crash" /\ UNCHANGED <<ex, chosen, scan>>
      BY <1>17 DEF StepOfNobody
    <2> QED BY <1>0, <2>1
  <1>18. CASE FinishExecution
    <2>1. mode' \in {"scan", "exit"} /\ scan' = 1 /\ chosen' = chosen /\ ex' \in {ex, Initial(MainSlot, prog)}
      BY <1>18 DEF FinishExecution
    <2>2. IsState(Initial(MainSlot, prog))
      BY <1>0, InitialIs DEF PrioInv
    <2> QED BY <1>0, <2>1, <2>2, PctParams
  <1>19. CASE Over \/ UNCHANGED vars
    <2>1. UNCHANGED <<ex, chosen, scan, mode>>
      BY <1>19 DEF Over, vars
    <2> QED BY <1>0, <2>1
  <1> HIDE DEF Goal
  <1> QED BY <1>8, <1>9, <1>10, <1>11, <1>12, <1>13, <1>14, <1>15, <1>16, <1>17, <1>18, <1>19 DEF Next

\* The first execution starts as it should.
LEMMA InitialTypes == ASSUME Init PROVE TypeInv
  <1>1. /\ chg \in ChangePoints /\ prog \in Programs /\ ex = Initial(MainSlot, prog)
        /\ chosen = 0 /\ scan = 1 /\ mode = "scan"
    BY DEF Init
  <1>2. PrioInv
    BY <1>1, InitialGood DEF PrioInv
  <1>3. IsState(ex)
    BY <1>1, InitialIs
  <1> QED BY <1>1, <1>2, <1>3, PctParams DEF TypeInv

\* The state of the runtime keeps its shape: no more threads are created than
\* there is room for, the owner of a mutex and the waiters of a condition
\* variable are threads of the execution, and a thread between two operations
\* of its program always has an operation to come to.
THEOREM PctTypes == Spec => []TypeOK
  <1>1. Init => TypeInv
    BY InitialTypes
  <1>2. TypeInv /\ [Next]_vars => TypeInv'
    BY TypesStep
  <1>3. TypeInv => TypeOK
    <2> SUFFICES ASSUME TypeInv PROVE TypeOK
      OBVIOUS
    <2>1. /\ prog \in Programs /\ IsState(ex) /\ Good(ex) /\ chosen \in 0 .. MaxThreads
          /\ scan \in 1 .. MaxThreads + 1
          /\ mode \in {"scan", "choose", "finish", "exit", "hang", "crash"}
      BY DEF TypeInv, PrioInv
    <2>2. ex.num \in Threads
      <3>1. ex.num \in Nat \ {0} /\ ex.num + Cardinality(Coming(ex)) <= MaxThreads
        BY <2>1 DEF Good, IsState
      <3>2. Cardinality(Coming(ex)) \in Nat
        BY <2>1, ComingFinite
      <3> QED BY <3>1, <3>2, PctParams DEF Threads
    <2>3. ASSUME NEW t \in Threads
          PROVE  /\ ex.pend[t].k \in Kinds \ {"assert", "futexwait", "futexwake"}
                 /\ ex.st[t] \in {"created", "ready", "blocked", "completed", "freed"}
                 /\ ex.en[t] \in {Disabled, Enabled, SleepSet}
                 /\ ex.ret[t] \in {"none", "yes", "no", "timeout"}
      <3>1. AtPlace(ex, t) /\ ex.pend[t] \in Ops
        BY <2>1 DEF IsState
      <3>2. ex.pend[t].k \in Kinds
        BY <3>1 DEF Ops
      <3>3. ex.pend[t].k \notin {"assert", "futexwait", "futexwake"}
        BY <3>1 DEF AtPlace, HasPending
      <3> QED BY <2>1, <3>2, <3>3 DEF IsState, Good
    <2>4. \A o \in Objects \cup Threads :
             ex.locked[o] \in Live \cup {0} /\ Listed(ex.waiters[o]) \subseteq Live
      <3>1. 0 .. ex.num \subseteq (1 .. ex.num) \cup {0}
        BY <2>2 DEF Threads
      <3> QED BY <2>1, <3>1 DEF IsState, Places, Live
    <2> QED BY <2>1, <2>2, <2>3, <2>4 DEF TypeOK, Good
  <1> QED BY <1>1, <1>2, <1>3, PTL DEF Spec

=============================================================================
