------------------------------ MODULE C11Proofs ------------------------------
(***************************************************************************)
(* The clock vectors of pctwm are happens-before, for every program, every *)
(* number of threads and locations, and whatever the loads read.  The      *)
(* modification-order graph plays no part in it.                           *)
(*                                                                         *)
(* An execution only grows at its end, and everything that is said of an   *)
(* action depends on the trace up to it.  So the operators of the model    *)
(* are first restated for a trace A, and lemmas say what holds of A and of *)
(* A with one more action.                                                 *)
(***************************************************************************)
EXTENDS C11Properties, FiniteSetTheorems, SequenceTheorems, WellFoundedInduction, TLAPS

\* A nonempty set of numbers has a least one.
LEMMA Least ==
  ASSUME NEW T, T \subseteq Nat, T # {}
  PROVE  \E m \in T : \A k \in T : m <= k
  <1>1. PICK m \in T : \A k \in T : ~ (<<k, m>> \in OpToRel(<, Nat))
    BY WFMin, NatLessThanWellFounded, Zenon
  <1>2. \A k \in T : ~ (k < m)
    BY <1>1 DEF OpToRel
  <1> QED BY <1>2

-----------------------------------------------------------------------------
\* Traces.

Places(A) == 1 .. Len(A)

\* A is a trace of actions of the model's threads; loads read earlier actions.
IsTrace(A) ==
  /\ Len(A) \in Nat /\ A = [i \in Places(A) |-> A[i]]
  /\ \A n \in Places(A) :
       /\ A[n].t \in Threads
       /\ A[n].cv \in Clocks
       /\ IsRead(A[n]) => A[n].rf \in 1 .. n - 1

\* The release sequence of every action at once.
HeadsFit(A, f) ==
  f = [m \in Places(A) |-> {m} \cup IF A[m].k = "rmw" THEN f[A[m].rf] ELSE {}]
Heads(A) == CHOOSE f : HeadsFit(A, f)

Side(A, n) ==
  UNION {IF IsRelease(A[h]) THEN {h}
         ELSE {f \in 1 .. h : A[f].t = A[h].t /\ A[f].k = "fence" /\ IsRelease(A[f])} :
         h \in Heads(A)[n]}

Inits == 1 .. Cardinality(Locs)

Directly(A, n) ==
  {m \in 1 .. n - 1 : A[m].t = A[n].t}
    \cup {m \in Inits : m < n}
    \cup (IF A[n].k = "join" THEN {m \in 1 .. n - 1 : A[m].t = A[n].x} ELSE {})
    \cup (IF IsRead(A[n]) /\ IsAcquire(A[n]) THEN Side(A, A[n].rf) ELSE {})
    \cup (IF A[n].k = "fence" /\ IsAcquire(A[n])
            THEN UNION {Side(A, A[r].rf) : r \in {r \in 1 .. n : A[r].t = A[n].t /\ IsRead(A[r])}}
            ELSE {})

\* The actions that a clock vector covers, of those before n.
Covers(A, c, n) == {m \in 1 .. n - 1 : m <= c[A[m].t]}

\* Those that happen before n according to its clock vector.
Earlier(A, n) == Covers(A, A[n].cv, n)

\* S and what happens before it.
Down(A, S) == S \cup UNION {Earlier(A, m) : m \in S}

\* B goes on from A.
Extends(B, A) == Len(A) <= Len(B) /\ \A n \in Places(A) : B[n] = A[n]

HeadAt(A, f, m) == {m} \cup IF A[m].k = "rmw" THEN f[A[m].rf] ELSE {}
HeadsUpTo(A, k, f) == f = [m \in 1 .. k |-> HeadAt(A, f, m)]

LEMMA HeadsGoOn ==
  ASSUME NEW A, IsTrace(A), NEW m \in Places(A), NEW f, HeadsUpTo(A, m - 1, f)
  PROVE  \E h : HeadsUpTo(A, m, h)
  <1> DEFINE h == [i \in 1 .. m |-> IF i < m THEN f[i] ELSE HeadAt(A, f, m)]
  <1>1. m \in Nat \ {0} /\ \A i \in 1 .. m : i \in Places(A)
    BY DEF Places, IsTrace
  <1>2. \A i \in 1 .. m : A[i].k = "rmw" => A[i].rf \in 1 .. i - 1 /\ A[i].rf \in 1 .. m - 1
    BY <1>1 DEF IsTrace, IsRead, Places
  <1>3. \A i \in 1 .. m - 1 : f[i] = HeadAt(A, f, i)
    BY DEF HeadsUpTo
  <1>4. \A i \in 1 .. m : i < m => i \in 1 .. m - 1
    BY <1>1
  <1>5. \A i \in 1 .. m : h[i] = HeadAt(A, f, i)
    <2> HIDE DEF HeadAt
    <2> QED BY <1>1, <1>3, <1>4
  <1>6. \A i \in 1 .. m - 1 : h[i] = f[i]
    BY <1>1
  <1>7. \A i \in 1 .. m : HeadAt(A, f, i) = HeadAt(A, h, i)
    <2> HIDE DEF h
    <2> QED BY <1>2, <1>6 DEF HeadAt
  <1>8. h = [i \in 1 .. m |-> HeadAt(A, h, i)]
    <2>1. h = [i \in 1 .. m |-> h[i]]
      OBVIOUS
    <2> HIDE DEF h
    <2>2. \A i \in 1 .. m : h[i] = HeadAt(A, h, i)
      BY <1>5, <1>7
    <2> QED BY <2>1, <2>2
  <1> HIDE DEF h
  <1> QED BY <1>8 DEF HeadsUpTo

LEMMA HeadsExist ==
  ASSUME NEW A, IsTrace(A)
  PROVE  \E f : HeadsFit(A, f)
  <1> DEFINE T == {k \in 0 .. Len(A) : ~ \E f : HeadsUpTo(A, k, f)}
  <1>1. ASSUME T # {} PROVE FALSE
    <2>1. \E m \in T : \A k \in T : m <= k
      <3>1. T \subseteq Nat
        BY DEF IsTrace
      <3> QED BY <1>1, <3>1, Least
    <2>2. PICK m \in T : \A k \in T : m <= k
      BY <2>1
    <2>3. m # 0
      <3>1. HeadsUpTo(A, 0, [i \in 1 .. 0 |-> {}])
        BY DEF HeadsUpTo
      <3> QED BY <3>1
    <2>4. m - 1 \in 0 .. Len(A) /\ ~(m <= m - 1) /\ m \in Places(A)
      BY <2>3 DEF IsTrace, Places
    <2>5. \E f : HeadsUpTo(A, m - 1, f)
      BY <2>2, <2>4
    <2> QED BY <2>2, <2>4, <2>5, HeadsGoOn
  <1>2. Len(A) \in 0 .. Len(A)
    BY DEF IsTrace
  <1>3. \E f : HeadsUpTo(A, Len(A), f)
    BY <1>1, <1>2
  <1> QED BY <1>3 DEF HeadsFit, Places, HeadsUpTo, HeadAt

LEMMA HeadsAre ==
  ASSUME NEW A, IsTrace(A)
  PROVE  /\ HeadsFit(A, Heads(A))
         /\ \A n \in Places(A) : Heads(A)[n] = {n} \cup IF A[n].k = "rmw" THEN Heads(A)[A[n].rf] ELSE {}
  <1>1. HeadsFit(A, Heads(A))
    BY HeadsExist DEF Heads
  <1> QED BY <1>1 DEF HeadsFit

LEMMA HeadsKept ==
  ASSUME NEW A, IsTrace(A), NEW B, IsTrace(B), Extends(B, A), NEW n \in Places(A)
  PROVE  Heads(B)[n] = Heads(A)[n]
  <1> DEFINE T == {m \in Places(A) : Heads(B)[m] # Heads(A)[m]}
  <1>1. SUFFICES ASSUME T # {} PROVE FALSE
    OBVIOUS
  <1>2. \E m \in T : \A k \in T : m <= k
    <2>1. T \subseteq Nat
      BY DEF Places, IsTrace
    <2> QED BY <1>1, <2>1, Least
  <1>3. PICK m \in T : \A k \in T : m <= k
    BY <1>2
  <1>4. m \in Places(A) /\ m \in Places(B) /\ B[m] = A[m]
    BY DEF Places, Extends, IsTrace
  <1>5. A[m].k = "rmw" => A[m].rf \in Places(A) /\ A[m].rf < m
    BY <1>4 DEF IsTrace, Places, IsRead
  <1>6. A[m].k = "rmw" => A[m].rf \notin T
    <2> HIDE DEF T
    <2> QED BY <1>3, <1>4, <1>5 DEF IsTrace, Places
  <1>7. Heads(A)[m] = Heads(B)[m]
    <2>1. /\ Heads(A)[m] = {m} \cup IF A[m].k = "rmw" THEN Heads(A)[A[m].rf] ELSE {}
          /\ Heads(B)[m] = {m} \cup IF A[m].k = "rmw" THEN Heads(B)[A[m].rf] ELSE {}
      BY <1>4, HeadsAre
    <2> QED BY <2>1, <1>5, <1>6
  <1> QED BY <1>3, <1>7

-----------------------------------------------------------------------------
\* The release operations that an acquire of action n synchronises with.

OwnSide(A, h) ==
  IF IsRelease(A[h]) THEN {h}
  ELSE {f \in 1 .. h : A[f].t = A[h].t /\ A[f].k = "fence" /\ IsRelease(A[f])}

LEMMA SideIs ==
  ASSUME NEW A, IsTrace(A), NEW n \in Places(A)
  PROVE  Side(A, n) = OwnSide(A, n) \cup IF A[n].k = "rmw" THEN Side(A, A[n].rf) ELSE {}
  <1>1. \A m : Side(A, m) = UNION {OwnSide(A, h) : h \in Heads(A)[m]}
    BY DEF Side, OwnSide
  <1>2. Heads(A)[n] = {n} \cup IF A[n].k = "rmw" THEN Heads(A)[A[n].rf] ELSE {}
    BY HeadsAre
  <1>3. CASE A[n].k = "rmw"
    <2>1. Heads(A)[n] = {n} \cup Heads(A)[A[n].rf]
      BY <1>2, <1>3
    <2> QED BY <1>1, <1>3, <2>1
  <1>4. CASE A[n].k # "rmw"
    <2>1. Heads(A)[n] = {n}
      BY <1>2, <1>4
    <2> QED BY <1>1, <1>4, <2>1
  <1> QED BY <1>3, <1>4

LEMMA SideBelow ==
  ASSUME NEW A, IsTrace(A), NEW n \in Places(A)
  PROVE  Side(A, n) \subseteq 1 .. n
  <1> DEFINE T == {m \in Places(A) : ~(Side(A, m) \subseteq 1 .. m)}
  <1>1. SUFFICES ASSUME T # {} PROVE FALSE
    OBVIOUS
  <1>2. \E m \in T : \A k \in T : m <= k
    <2>1. T \subseteq Nat
      BY DEF Places, IsTrace
    <2> QED BY <1>1, <2>1, Least
  <1>3. PICK m \in T : \A k \in T : m <= k
    BY <1>2
  <1>4. m \in Places(A) /\ m \in Nat
    BY DEF Places, IsTrace
  <1>5. A[m].k = "rmw" => A[m].rf \in Places(A) /\ A[m].rf < m
    BY <1>4 DEF IsTrace, Places, IsRead
  <1>6. A[m].k = "rmw" => A[m].rf \notin T
    <2> HIDE DEF T
    <2> QED BY <1>3, <1>4, <1>5 DEF IsTrace, Places
  <1>7. OwnSide(A, m) \subseteq 1 .. m
    BY <1>4 DEF OwnSide, Places
  <1>8. A[m].k = "rmw" => Side(A, A[m].rf) \subseteq 1 .. m
    <2>1. SUFFICES ASSUME A[m].k = "rmw" PROVE Side(A, A[m].rf) \subseteq 1 .. m
      OBVIOUS
    <2>2. Side(A, A[m].rf) \subseteq 1 .. A[m].rf
      BY <1>5, <1>6, <2>1
    <2> HIDE DEF T
    <2> QED BY <2>1, <2>2, <1>4, <1>5 DEF Places
  <1>9. Side(A, m) \subseteq 1 .. m
    BY <1>4, <1>7, <1>8, SideIs
  <1> QED BY <1>3, <1>9

LEMMA OwnSideKept ==
  ASSUME NEW A, IsTrace(A), NEW B, IsTrace(B), Extends(B, A), NEW n \in Places(A)
  PROVE  OwnSide(B, n) = OwnSide(A, n)
  <1>1. \A f \in 1 .. n : f \in Places(A)
    BY DEF Places, IsTrace
  <1> QED BY <1>1 DEF OwnSide, Extends, Places

LEMMA SideKept ==
  ASSUME NEW A, IsTrace(A), NEW B, IsTrace(B), Extends(B, A), NEW n \in Places(A)
  PROVE  Side(B, n) = Side(A, n)
  <1> DEFINE T == {m \in Places(A) : Side(B, m) # Side(A, m)}
  <1>1. SUFFICES ASSUME T # {} PROVE FALSE
    OBVIOUS
  <1>2. \E m \in T : \A k \in T : m <= k
    <2>1. T \subseteq Nat
      BY DEF Places, IsTrace
    <2> QED BY <1>1, <2>1, Least
  <1>3. PICK m \in T : \A k \in T : m <= k
    BY <1>2
  <1>4. m \in Places(A) /\ m \in Places(B) /\ B[m] = A[m]
    BY DEF Places, Extends, IsTrace
  <1>5. A[m].k = "rmw" => A[m].rf \in Places(A) /\ A[m].rf < m
    BY <1>4 DEF IsTrace, Places, IsRead
  <1>6. A[m].k = "rmw" => A[m].rf \notin T
    <2> HIDE DEF T
    <2> QED BY <1>3, <1>4, <1>5 DEF IsTrace, Places
  <1>7. Side(A, m) = Side(B, m)
    <2>1. /\ Side(A, m) = OwnSide(A, m) \cup IF A[m].k = "rmw" THEN Side(A, A[m].rf) ELSE {}
          /\ Side(B, m) = OwnSide(A, m) \cup IF A[m].k = "rmw" THEN Side(B, A[m].rf) ELSE {}
      BY <1>4, SideIs, OwnSideKept
    <2> QED BY <2>1, <1>5, <1>6
  <1> QED BY <1>3, <1>7

-----------------------------------------------------------------------------
\* What a store hands on is its release operations and all before them.

Known(A, c, x) == x <= c[A[x].t]

\* Each clock vector counts its own action and none that comes later.
OwnCounted(A) ==
  \A n \in Places(A) : A[n].cv[A[n].t] = n /\ \A u \in Threads : A[n].cv[u] <= n

\* The clock vector of each action covers what is directly before it, and what
\* the clock vectors of those cover, and nothing else.
StepByStep(A) == \A n \in Places(A) : Earlier(A, n) = Down(A, Directly(A, n))

\* Clock vector c stands for the actions of S and what is before them.
StandsFor(A, c, S) == \A x \in Places(A) : Known(A, c, x) <=> x \in Down(A, S)

LEMMA NewestIs ==
  ASSUME NEW n \in Nat, NEW S, S \subseteq 1 .. n, S # {}
  PROVE  Newest(S) \in S /\ \A m \in S : m <= Newest(S)
  <1> DEFINE T == {n - s : s \in S}
  <1>1. T \subseteq Nat /\ T # {}
    OBVIOUS
  <1>2. PICK k \in T : \A j \in T : k <= j
    BY <1>1, Least
  <1>3. PICK s \in S : k = n - s
    BY <1>2
  <1>4. \A m \in S : m <= s
    <2> SUFFICES ASSUME NEW m \in S PROVE m <= s
      OBVIOUS
    <2>1. n - m \in T
      OBVIOUS
    <2>2. n - s <= n - m
      BY <1>2, <1>3, <2>1
    <2>3. n \in Int /\ m \in Int /\ s \in Int
      OBVIOUS
    <2> QED BY <2>2, <2>3
  <1>5. \E q \in S : \A m \in S : m <= q
    BY <1>4
  <1> QED BY <1>5 DEF Newest

LEMMA DownJoins ==
  ASSUME NEW A, NEW S, NEW T
  PROVE  Down(A, S \cup T) = Down(A, S) \cup Down(A, T)
  BY DEF Down

LEMMA MergeIs ==
  ASSUME NEW A, IsTrace(A), NEW c \in Clocks, NEW d \in Clocks
  PROVE  /\ Merge(c, d) \in Clocks
         /\ \A x \in Places(A) : Known(A, Merge(c, d), x) <=> Known(A, c, x) \/ Known(A, d, x)
         /\ \A u \in Threads : Merge(c, d)[u] \in {c[u], d[u]}
  <1>1. \A x \in Places(A) : A[x].t \in Threads /\ x \in Nat
    BY DEF IsTrace, Places
  <1>2. \A u \in Threads : c[u] \in Nat /\ d[u] \in Nat
    BY DEF Clocks
  <1>3. \A u \in Threads : Merge(c, d)[u] = IF c[u] >= d[u] THEN c[u] ELSE d[u]
    BY DEF Merge
  <1>4. Merge(c, d) \in Clocks
    BY <1>2 DEF Merge, Clocks
  <1>5. \A x \in Places(A) : Known(A, Merge(c, d), x) <=> Known(A, c, x) \/ Known(A, d, x)
    <2> SUFFICES ASSUME NEW x \in Places(A) PROVE Known(A, Merge(c, d), x) <=> Known(A, c, x) \/ Known(A, d, x)
      OBVIOUS
    <2> DEFINE u == A[x].t
    <2>1. u \in Threads /\ x \in Nat /\ c[u] \in Nat /\ d[u] \in Nat
      BY <1>1, <1>2
    <2>2. Merge(c, d)[u] = IF c[u] >= d[u] THEN c[u] ELSE d[u]
      BY <1>3, <2>1
    <2>3. x <= Merge(c, d)[u] <=> x <= c[u] \/ x <= d[u]
      <3> HIDE DEF u
      <3> QED BY <2>1, <2>2
    <2> QED BY <2>3 DEF Known
  <1> QED BY <1>3, <1>4, <1>5

LEMMA OwnKnown ==
  ASSUME NEW A, IsTrace(A), OwnCounted(A), NEW n \in Places(A), NEW x \in Places(A)
  PROVE  Known(A, A[n].cv, x) <=> x = n \/ x \in Earlier(A, n)
  <1>1. x \in Nat /\ n \in Nat /\ x >= 1 /\ A[x].t \in Threads /\ A[n].t \in Threads /\ A[n].cv \in Clocks
    BY DEF IsTrace, Places
  <1>2. A[n].cv[A[n].t] = n /\ A[n].cv[A[x].t] <= n /\ A[n].cv[A[x].t] \in Nat
    BY <1>1 DEF OwnCounted, Clocks
  <1>3. x \in Earlier(A, n) <=> x < n /\ x <= A[n].cv[A[x].t]
    BY <1>1 DEF Earlier, Covers
  <1>4. CASE x = n
    BY <1>1, <1>2, <1>4 DEF Known
  <1>5. CASE x # n
    BY <1>1, <1>2, <1>3, <1>5 DEF Known
  <1> QED BY <1>4, <1>5

\* Actions of one thread are before the later ones of it.
LEMMA OwnOrder ==
  ASSUME NEW A, IsTrace(A), StepByStep(A), NEW n \in Places(A), NEW m \in Places(A),
         m <= n, A[m].t = A[n].t
  PROVE  Down(A, {m}) \subseteq Down(A, {n})
  <1>1. CASE m = n
    BY <1>1
  <1>2. CASE m # n
    <2>1. m \in 1 .. n - 1
      BY <1>2 DEF Places, IsTrace
    <2>2. m \in Directly(A, n)
      BY <2>1 DEF Directly
    <2>3. Down(A, {m}) \subseteq Down(A, Directly(A, n))
      BY <2>2 DEF Down
    <2>4. Down(A, Directly(A, n)) \subseteq Down(A, {n})
      BY DEF StepByStep, Down
    <2> QED BY <2>3, <2>4
  <1> QED BY <1>1, <1>2

OwnFences(A, n) == {f \in 1 .. n - 1 : A[f].t = A[n].t /\ A[f].k = "fence" /\ IsRelease(A[f])}
OwnCv(A, n) ==
  LET own == IF IsRelease(A[n]) THEN {n} ELSE Last(OwnFences(A, n))
  IN IF own = {} THEN Bottom ELSE A[CHOOSE f \in own : TRUE].cv

LEMMA OwnCvIs ==
  ASSUME NEW A, IsTrace(A), OwnCounted(A), StepByStep(A), NEW n \in Places(A)
  PROVE  /\ OwnCv(A, n) \in Clocks
         /\ \A u \in Threads : OwnCv(A, n)[u] <= n
         /\ StandsFor(A, OwnCv(A, n), OwnSide(A, n))
  <1>1. n \in Nat \ {0} /\ A[n].cv \in Clocks /\ A[n].t \in Threads
    BY DEF IsTrace, Places
  <1>2. CASE IsRelease(A[n])
    <2>1. OwnCv(A, n) = A[n].cv /\ OwnSide(A, n) = {n}
      BY <1>2 DEF OwnCv, OwnSide
    <2>2. StandsFor(A, A[n].cv, {n})
      BY OwnKnown DEF StandsFor, Down
    <2> QED BY <1>1, <2>1, <2>2 DEF OwnCounted
  <1>3. CASE ~IsRelease(A[n]) /\ OwnFences(A, n) = {}
    <2>1. OwnCv(A, n) = Bottom
      BY <1>3 DEF OwnCv, Last
    <2>2. OwnSide(A, n) = {}
      <3>1. \A f \in 1 .. n : f # n => f \in 1 .. n - 1
        BY <1>1
      <3> QED BY <3>1, <1>3 DEF OwnSide, OwnFences
    <2>3. \A x \in Places(A) : ~Known(A, Bottom, x)
      <3> SUFFICES ASSUME NEW x \in Places(A) PROVE ~Known(A, Bottom, x)
        OBVIOUS
      <3>1. x \in Nat /\ x >= 1 /\ A[x].t \in Threads
        BY DEF IsTrace, Places
      <3>2. Bottom[A[x].t] = 0
        BY <3>1 DEF Bottom
      <3> QED BY <3>1, <3>2 DEF Known
    <2>4. Bottom \in Clocks /\ \A u \in Threads : Bottom[u] <= n
      BY <1>1 DEF Bottom, Clocks
    <2> QED BY <2>1, <2>2, <2>3, <2>4 DEF StandsFor, Down
  <1>4. CASE ~IsRelease(A[n]) /\ OwnFences(A, n) # {}
    <2> DEFINE F == OwnFences(A, n)
               f == Newest(F)
    <2>1. F \subseteq 1 .. n - 1 /\ n - 1 \in Nat
      BY <1>1 DEF OwnFences
    <2>2. f \in F /\ \A m \in F : m <= f
      <3> HIDE DEF F
      <3> QED BY <1>4, <2>1, NewestIs DEF F
    <2>3. OwnCv(A, n) = A[f].cv
      <3>1. Last(F) = {f} /\ Last(F) # {}
        BY <1>4 DEF Last
      <3>2. (CHOOSE z \in {f} : TRUE) = f
        OBVIOUS
      <3> HIDE DEF f
      <3> QED BY <1>4, <3>1, <3>2 DEF OwnCv
    <2>4. OwnSide(A, n) = F
      <3>1. \A z \in 1 .. n : z # n => z \in 1 .. n - 1
        BY <1>1
      <3>2. \A z \in 1 .. n - 1 : z \in 1 .. n
        BY <1>1
      <3> QED BY <1>4, <3>1, <3>2 DEF OwnSide, OwnFences
    <2>5. f \in Places(A) /\ f < n /\ A[f].t = A[n].t /\ f \in Nat /\ A[f].cv \in Clocks
      BY <2>1, <2>2, <1>1 DEF Places, IsTrace, OwnFences
    <2>6. \A m \in F : m \in Places(A) /\ m <= f /\ A[m].t = A[f].t
      BY <2>1, <2>2, <2>5, <1>1 DEF Places, IsTrace, OwnFences
    <2> HIDE DEF f
    <2>7. Down(A, F) = Down(A, {f})
      <3>1. \A m \in F : Down(A, {m}) \subseteq Down(A, {f})
        BY <2>5, <2>6, OwnOrder
      <3>2. Down(A, F) \subseteq Down(A, {f})
        BY <3>1 DEF Down
      <3>3. Down(A, {f}) \subseteq Down(A, F)
        BY <2>2 DEF Down
      <3> QED BY <3>2, <3>3
    <2>8. StandsFor(A, A[f].cv, {f})
      BY <2>5, OwnKnown DEF StandsFor, Down
    <2>9. \A u \in Threads : A[f].cv[u] <= n
      <3> SUFFICES ASSUME NEW u \in Threads PROVE A[f].cv[u] <= n
        OBVIOUS
      <3>1. A[f].cv[u] <= f /\ A[f].cv[u] \in Nat
        BY <2>5 DEF OwnCounted, Clocks
      <3> QED BY <3>1, <2>5, <1>1
    <2> HIDE DEF F
    <2> QED BY <2>3, <2>4, <2>5, <2>7, <2>8, <2>9 DEF StandsFor
  <1> QED BY <1>2, <1>3, <1>4

-----------------------------------------------------------------------------
\* get_hb_from_write gives a clock vector that stands for the release side.

HbAt(A, f, m) ==
  IF A[m].k = "rmw" /\ ~(IsAcquire(A[m]) /\ IsRelease(A[m])) THEN Merge(f[A[m].rf], OwnCv(A, m)) ELSE OwnCv(A, m)
HbUpTo(A, k, f) == f = [m \in 1 .. k |-> HbAt(A, f, m)]
HbCv(A) == CHOOSE f : HbUpTo(A, Len(A), f)

LEMMA HbGoesOn ==
  ASSUME NEW A, IsTrace(A), NEW m \in Places(A), NEW f, HbUpTo(A, m - 1, f)
  PROVE  \E h : HbUpTo(A, m, h)
  <1> DEFINE h == [i \in 1 .. m |-> IF i < m THEN f[i] ELSE HbAt(A, f, m)]
  <1>1. m \in Nat \ {0} /\ \A i \in 1 .. m : i \in Places(A)
    BY DEF Places, IsTrace
  <1>2. \A i \in 1 .. m : A[i].k = "rmw" => A[i].rf \in 1 .. i - 1 /\ A[i].rf \in 1 .. m - 1
    BY <1>1 DEF IsTrace, IsRead, Places
  <1>3. \A i \in 1 .. m - 1 : f[i] = HbAt(A, f, i)
    BY DEF HbUpTo
  <1>4. \A i \in 1 .. m : i < m => i \in 1 .. m - 1
    BY <1>1
  <1>5. \A i \in 1 .. m : h[i] = HbAt(A, f, i)
    <2> HIDE DEF HbAt
    <2> QED BY <1>1, <1>3, <1>4
  <1>6. \A i \in 1 .. m - 1 : h[i] = f[i]
    BY <1>1
  <1>7. \A i \in 1 .. m : HbAt(A, f, i) = HbAt(A, h, i)
    <2> HIDE DEF h
    <2> QED BY <1>2, <1>6 DEF HbAt
  <1>8. h = [i \in 1 .. m |-> HbAt(A, h, i)]
    <2>1. h = [i \in 1 .. m |-> h[i]]
      OBVIOUS
    <2> HIDE DEF h
    <2>2. \A i \in 1 .. m : h[i] = HbAt(A, h, i)
      BY <1>5, <1>7
    <2> QED BY <2>1, <2>2
  <1> HIDE DEF h
  <1> QED BY <1>8 DEF HbUpTo

LEMMA HbExists ==
  ASSUME NEW A, IsTrace(A)
  PROVE  \E f : HbUpTo(A, Len(A), f)
  <1> DEFINE T == {k \in 0 .. Len(A) : ~ \E f : HbUpTo(A, k, f)}
  <1>1. ASSUME T # {} PROVE FALSE
    <2>1. \E m \in T : \A k \in T : m <= k
      <3>1. T \subseteq Nat
        BY DEF IsTrace
      <3> QED BY <1>1, <3>1, Least
    <2>2. PICK m \in T : \A k \in T : m <= k
      BY <2>1
    <2>3. m # 0
      <3>1. HbUpTo(A, 0, [i \in 1 .. 0 |-> {}])
        BY DEF HbUpTo
      <3> QED BY <3>1
    <2>4. m - 1 \in 0 .. Len(A) /\ ~(m <= m - 1) /\ m \in Places(A)
      BY <2>3 DEF IsTrace, Places
    <2>5. \E f : HbUpTo(A, m - 1, f)
      BY <2>2, <2>4
    <2> QED BY <2>2, <2>4, <2>5, HbGoesOn
  <1>2. Len(A) \in 0 .. Len(A)
    BY DEF IsTrace
  <1> QED BY <1>1, <1>2

LEMMA HbIs ==
  ASSUME NEW A, IsTrace(A), NEW n \in Places(A)
  PROVE  HbCv(A)[n] = HbAt(A, HbCv(A), n)
  <1>1. HbUpTo(A, Len(A), HbCv(A))
    BY HbExists DEF HbCv
  <1> QED BY <1>1 DEF HbUpTo, Places

HandsOn(A, n) ==
  /\ HbCv(A)[n] \in Clocks
  /\ \A u \in Threads : HbCv(A)[n][u] <= n
  /\ StandsFor(A, HbCv(A)[n], Side(A, n))

LEMMA HbStandsForSide ==
  ASSUME NEW A, IsTrace(A), OwnCounted(A), StepByStep(A), NEW n \in Places(A)
  PROVE  HandsOn(A, n)
  <1> DEFINE T == {m \in Places(A) : ~HandsOn(A, m)}
  <1>1. SUFFICES ASSUME T # {} PROVE FALSE
    OBVIOUS
  <1>2. \E m \in T : \A k \in T : m <= k
    <2>1. T \subseteq Nat
      BY DEF Places, IsTrace
    <2> QED BY <1>1, <2>1, Least
  <1>3. PICK m \in T : \A k \in T : m <= k
    BY <1>2
  <1>4. m \in Places(A) /\ m \in Nat
    BY DEF Places, IsTrace
  <1>5. /\ OwnCv(A, m) \in Clocks
        /\ \A u \in Threads : OwnCv(A, m)[u] <= m
        /\ StandsFor(A, OwnCv(A, m), OwnSide(A, m))
    BY <1>4, OwnCvIs
  <1>6. HbCv(A)[m] = HbAt(A, HbCv(A), m)
    BY <1>4, HbIs
  <1>7. Side(A, m) = OwnSide(A, m) \cup IF A[m].k = "rmw" THEN Side(A, A[m].rf) ELSE {}
    BY <1>4, SideIs
  <1>8. ~HandsOn(A, m)
    BY <1>3
  <1>9. CASE A[m].k # "rmw"
    BY <1>3, <1>5, <1>6, <1>7, <1>9 DEF HbAt, HandsOn
  <1>10. CASE A[m].k = "rmw" /\ IsAcquire(A[m]) /\ IsRelease(A[m])
    <2>1. HbCv(A)[m] = OwnCv(A, m)
      BY <1>6, <1>10 DEF HbAt
    <2>2. OwnSide(A, m) = {m}
      BY <1>10 DEF OwnSide
    <2>3. Side(A, A[m].rf) \subseteq Directly(A, m)
      BY <1>10 DEF Directly, IsRead
    <2>4. Down(A, Side(A, A[m].rf)) \subseteq Down(A, Directly(A, m))
      BY <2>3 DEF Down
    <2>5. Down(A, Directly(A, m)) \subseteq Down(A, {m})
      BY <1>4 DEF StepByStep, Down
    <2>6. Down(A, Side(A, m)) = Down(A, {m})
      <3>1. Side(A, m) = {m} \cup Side(A, A[m].rf)
        BY <1>7, <1>10, <2>2
      <3>2. Down(A, Side(A, m)) = Down(A, {m}) \cup Down(A, Side(A, A[m].rf))
        BY <3>1, DownJoins
      <3> QED BY <3>2, <2>4, <2>5
    <2>7. HandsOn(A, m)
      BY <1>5, <2>1, <2>2, <2>6 DEF HandsOn, StandsFor
    <2> QED BY <1>3, <2>7
  <1>11. CASE A[m].k = "rmw" /\ ~(IsAcquire(A[m]) /\ IsRelease(A[m]))
    <2> DEFINE r == A[m].rf
    <2>1. r \in Places(A) /\ r < m /\ r \in Nat
      BY <1>4, <1>11 DEF IsTrace, Places, IsRead
    <2>2. r \notin T
      <3> HIDE DEF T, r
      <3> QED BY <1>3, <1>4, <2>1
    <2>3. HandsOn(A, r)
      BY <2>1, <2>2
    <2>4. HbCv(A)[m] = Merge(HbCv(A)[r], OwnCv(A, m))
      BY <1>6, <1>11 DEF HbAt
    <2>5. Down(A, Side(A, m)) = Down(A, OwnSide(A, m)) \cup Down(A, Side(A, r))
      BY <1>7, <1>11, DownJoins
    <2> HIDE DEF T, r
    <2>6. /\ Merge(HbCv(A)[r], OwnCv(A, m)) \in Clocks
          /\ \A x \in Places(A) : Known(A, Merge(HbCv(A)[r], OwnCv(A, m)), x)
                                    <=> Known(A, HbCv(A)[r], x) \/ Known(A, OwnCv(A, m), x)
          /\ \A u \in Threads : Merge(HbCv(A)[r], OwnCv(A, m))[u] \in {HbCv(A)[r][u], OwnCv(A, m)[u]}
      BY <1>5, <2>3, MergeIs DEF HandsOn
    <2>7. \A u \in Threads : HbCv(A)[m][u] <= m
      <3> SUFFICES ASSUME NEW u \in Threads PROVE HbCv(A)[m][u] <= m
        OBVIOUS
      <3>1. HbCv(A)[r][u] <= r /\ HbCv(A)[r][u] \in Nat
        BY <2>3 DEF HandsOn, Clocks
      <3>2. OwnCv(A, m)[u] <= m
        BY <1>5
      <3>3. HbCv(A)[r][u] <= m
        BY <3>1, <2>1, <1>4
      <3> QED BY <2>4, <2>6, <3>2, <3>3
    <2>8. StandsFor(A, HbCv(A)[m], Side(A, m))
      <3>1. StandsFor(A, HbCv(A)[r], Side(A, r)) /\ StandsFor(A, OwnCv(A, m), OwnSide(A, m))
        BY <1>5, <2>3 DEF HandsOn
      <3> QED BY <3>1, <2>4, <2>5, <2>6 DEF StandsFor
    <2>9. HandsOn(A, m)
      BY <2>4, <2>6, <2>7, <2>8 DEF HandsOn
    <2> QED BY <1>8, <2>9
  <1> QED BY <1>9, <1>10, <1>11

-----------------------------------------------------------------------------
\* The trace grows at its end.

Started(A) ==
  /\ Cardinality(Locs) \in Nat \ {0} /\ Cardinality(Locs) <= Len(A)
  /\ \A i \in Inits : A[i].t = Main

TraceInv(A) == IsTrace(A) /\ OwnCounted(A) /\ StepByStep(A) /\ Started(A)

\* B is A and one more action.
OneMore(B, A) == IsTrace(B) /\ Extends(B, A) /\ Len(B) = Len(A) + 1

LEMMA PlacesGrow ==
  ASSUME NEW A, IsTrace(A), NEW B, OneMore(B, A)
  PROVE  /\ Places(B) = Places(A) \cup {Len(B)}
         /\ Len(B) \notin Places(A)
         /\ 1 .. Len(B) - 1 = Places(A)
         /\ \A n \in Places(A) : /\ n \in Nat /\ n \in Places(B) /\ B[n] = A[n] /\ n < Len(B)
                                 /\ \A m \in 1 .. n : m \in Places(A)
  BY DEF OneMore, Extends, Places, IsTrace

LEMMA EarlierKept ==
  ASSUME NEW A, IsTrace(A), NEW B, OneMore(B, A), NEW n \in Places(A)
  PROVE  Earlier(B, n) = Earlier(A, n)
  <1>1. B[n] = A[n] /\ \A m \in 1 .. n - 1 : m \in Places(A) /\ B[m] = A[m]
    <2>1. \A m \in 1 .. n - 1 : m \in 1 .. n
      BY DEF Places, IsTrace
    <2> QED BY <2>1, PlacesGrow
  <1> QED BY <1>1 DEF Earlier, Covers

LEMMA DownKept ==
  ASSUME NEW A, IsTrace(A), NEW B, OneMore(B, A), NEW S, S \subseteq Places(A)
  PROVE  Down(B, S) = Down(A, S) /\ Down(A, S) \subseteq Places(A)
  <1>1. \A m \in S : Earlier(B, m) = Earlier(A, m)
    BY EarlierKept
  <1>2. \A m \in Places(A) : Earlier(A, m) \subseteq Places(A)
    <2>1. \A m \in Places(A) : 1 .. m - 1 \subseteq Places(A)
      BY DEF Places, IsTrace
    <2> QED BY <2>1 DEF Earlier, Covers
  <1> QED BY <1>1, <1>2 DEF Down

LEMMA DirectlyKept ==
  ASSUME NEW A, IsTrace(A), NEW B, OneMore(B, A), NEW n \in Places(A)
  PROVE  Directly(B, n) = Directly(A, n) /\ Directly(A, n) \subseteq Places(A)
  <1>1. B[n] = A[n] /\ \A m \in 1 .. n : m \in Places(A) /\ B[m] = A[m]
    BY PlacesGrow
  <1>2. \A m \in 1 .. n - 1 : m \in 1 .. n
    BY DEF Places, IsTrace
  <1>3. \A r \in 1 .. n : IsRead(A[r]) => /\ Side(B, A[r].rf) = Side(A, A[r].rf)
                                          /\ Side(A, A[r].rf) \subseteq Places(A)
    <2> SUFFICES ASSUME NEW r \in 1 .. n, IsRead(A[r])
                 PROVE  Side(B, A[r].rf) = Side(A, A[r].rf) /\ Side(A, A[r].rf) \subseteq Places(A)
      OBVIOUS
    <2>1. r \in Places(A) /\ A[r].rf \in 1 .. r - 1
      BY <1>1 DEF IsTrace
    <2>2. A[r].rf \in Places(A) /\ 1 .. A[r].rf \subseteq Places(A)
      BY <2>1 DEF IsTrace, Places
    <2> QED BY <2>2, SideKept, SideBelow DEF OneMore
  <1>4. n \in 1 .. n /\ n \in Nat
    BY DEF Places, IsTrace
  <1>5. Directly(B, n) = Directly(A, n)
    <2>1. {m \in 1 .. n - 1 : B[m].t = B[n].t} = {m \in 1 .. n - 1 : A[m].t = A[n].t}
      BY <1>1, <1>2
    <2>2. {m \in 1 .. n - 1 : B[m].t = B[n].x} = {m \in 1 .. n - 1 : A[m].t = A[n].x}
      BY <1>1, <1>2
    <2>3. IsRead(A[n]) /\ IsAcquire(A[n]) => Side(B, B[n].rf) = Side(A, A[n].rf)
      BY <1>1, <1>3, <1>4
    <2>4. {r \in 1 .. n : B[r].t = B[n].t /\ IsRead(B[r])} = {r \in 1 .. n : A[r].t = A[n].t /\ IsRead(A[r])}
      BY <1>1
    <2>5. UNION {Side(B, B[r].rf) : r \in {r \in 1 .. n : A[r].t = A[n].t /\ IsRead(A[r])}}
            = UNION {Side(A, A[r].rf) : r \in {r \in 1 .. n : A[r].t = A[n].t /\ IsRead(A[r])}}
      BY <1>1, <1>3
    <2> QED BY <1>1, <2>1, <2>2, <2>3, <2>4, <2>5 DEF Directly
  <1>6. Directly(A, n) \subseteq Places(A)
    <2>1. \A m \in Inits : m < n => m \in Places(A)
      BY <1>4 DEF Places, IsTrace, Inits
    <2> QED BY <1>1, <1>2, <1>3, <1>4, <2>1 DEF Directly
  <1> QED BY <1>5, <1>6

LEMMA TraceGrows ==
  ASSUME NEW A, TraceInv(A), NEW B, OneMore(B, A),
         B[Len(B)].cv[B[Len(B)].t] = Len(B),
         \A u \in Threads : B[Len(B)].cv[u] <= Len(B),
         Directly(B, Len(B)) \subseteq Places(A),
         StandsFor(A, B[Len(B)].cv, Directly(B, Len(B)))
  PROVE  TraceInv(B)
  <1> DEFINE n == Len(B)
  <1>1. IsTrace(A) /\ IsTrace(B)
    BY DEF TraceInv, OneMore
  <1>2. OwnCounted(B)
    BY <1>1, PlacesGrow DEF OwnCounted, TraceInv
  <1>3. \A m \in Places(A) : Earlier(B, m) = Down(B, Directly(B, m))
    <2> SUFFICES ASSUME NEW m \in Places(A) PROVE Earlier(B, m) = Down(B, Directly(B, m))
      OBVIOUS
    <2>1. Directly(B, m) = Directly(A, m) /\ Directly(A, m) \subseteq Places(A)
      BY <1>1, DirectlyKept
    <2> QED BY <1>1, <2>1, EarlierKept, DownKept DEF TraceInv, StepByStep
  <1>4. Earlier(B, n) = Down(B, Directly(B, n))
    <2>1. Down(B, Directly(B, n)) = Down(A, Directly(B, n)) /\ Down(A, Directly(B, n)) \subseteq Places(A)
      BY <1>1, DownKept
    <2>2. Earlier(B, n) = {x \in Places(A) : Known(A, B[n].cv, x)}
      BY <1>1, PlacesGrow DEF Earlier, Covers, Known
    <2> QED BY <2>1, <2>2 DEF StandsFor
  <1>5. StepByStep(B)
    BY <1>1, <1>3, <1>4, PlacesGrow DEF StepByStep
  <1>6. Started(B)
    <2>1. \A i \in Inits : i \in Places(A)
      BY <1>1 DEF TraceInv, Started, Inits, Places, IsTrace
    <2>2. Len(A) \in Nat /\ Len(B) = Len(A) + 1
      BY <1>1 DEF IsTrace, OneMore
    <2>3. \A i \in Inits : B[i] = A[i]
      BY <1>1, <2>1, PlacesGrow
    <2> QED BY <2>2, <2>3 DEF TraceInv, Started
  <1> QED BY <1>1, <1>2, <1>5, <1>6 DEF TraceInv

\* What a clock vector stands for, one by one.
LEMMA StandsForBoth ==
  ASSUME NEW A, IsTrace(A), NEW c \in Clocks, NEW d \in Clocks, NEW S, NEW T,
         StandsFor(A, c, S), StandsFor(A, d, T)
  PROVE  StandsFor(A, Merge(c, d), S \cup T)
  BY MergeIs, DownJoins DEF StandsFor

OwnOf(A, t) == {m \in Places(A) : A[m].t = t}
ParentIn(A, t) == IF OwnOf(A, t) # {} THEN Newest(OwnOf(A, t)) ELSE Cardinality(Locs)

\* A thread goes on from the newest of its actions, or from the initialisation.
LEMMA ParentStands ==
  ASSUME NEW A, TraceInv(A), NEW t
  PROVE  /\ ParentIn(A, t) \in Places(A)
         /\ StandsFor(A, A[ParentIn(A, t)].cv, OwnOf(A, t) \cup Inits)
  <1> DEFINE p == ParentIn(A, t)
             K == Cardinality(Locs)
  <1>1. IsTrace(A) /\ StepByStep(A) /\ OwnCounted(A) /\ K \in Nat \ {0} /\ K <= Len(A) /\ Len(A) \in Nat
    BY DEF TraceInv, Started, IsTrace
  <1>2. K \in Places(A) /\ \A i \in Inits : i \in Places(A) /\ i <= K /\ i \in Nat
    BY <1>1 DEF Places, Inits
  <1>3. /\ p \in Places(A) /\ \A m \in OwnOf(A, t) : m <= p /\ A[m].t = A[p].t
        /\ p >= K
    <2>1. CASE OwnOf(A, t) = {}
      BY <2>1, <1>1, <1>2 DEF ParentIn
    <2>2. CASE OwnOf(A, t) # {}
      <3>1. p \in OwnOf(A, t) /\ \A m \in OwnOf(A, t) : m <= p
        <4>1. OwnOf(A, t) \subseteq 1 .. Len(A)
          BY DEF OwnOf, Places
        <4>2. p = Newest(OwnOf(A, t))
          BY <2>2 DEF ParentIn
        <4> HIDE DEF p
        <4> QED BY <1>1, <2>2, <4>1, <4>2, NewestIs
      <3>2. CASE t = Main
        <4>1. K \in OwnOf(A, t)
          BY <1>1, <1>2, <3>2 DEF OwnOf, TraceInv, Started, Inits
        <4> HIDE DEF p, K
        <4> QED BY <3>1, <4>1, <1>1 DEF OwnOf, Places
      <3>3. CASE t # Main
        <4>1. p \notin Inits /\ p \in Places(A)
          BY <3>1, <3>3 DEF OwnOf, TraceInv, Started
        <4> HIDE DEF p
        <4>2. p >= K
          BY <4>1, <1>1 DEF Inits, Places
        <4> QED BY <3>1, <4>1, <4>2 DEF OwnOf
      <3> QED BY <3>2, <3>3
    <2> QED BY <2>1, <2>2
  <1> HIDE DEF p
  <1>4. StandsFor(A, A[p].cv, {p})
    BY <1>1, <1>3, OwnKnown DEF StandsFor, Down
  <1>5. Down(A, OwnOf(A, t)) \subseteq Down(A, {p})
    <2>1. \A m \in OwnOf(A, t) : Down(A, {m}) \subseteq Down(A, {p})
      BY <1>1, <1>3, OwnOrder DEF OwnOf
    <2> QED BY <2>1 DEF Down
  <1>6. Inits \subseteq Down(A, {p})
    <2> SUFFICES ASSUME NEW i \in Inits PROVE i \in Down(A, {p})
      OBVIOUS
    <2>1. CASE i = p
      BY <2>1 DEF Down
    <2>2. CASE i # p
      <3>1. i < p
        BY <2>2, <1>1, <1>2, <1>3 DEF Places
      <3>2. i \in Directly(A, p)
        BY <3>1 DEF Directly
      <3> QED BY <3>2, <1>1, <1>3 DEF StepByStep, Down
    <2> QED BY <2>1, <2>2
  <1>7. Down(A, Inits) \subseteq Inits
    <2> SUFFICES ASSUME NEW i \in Inits, NEW x \in Earlier(A, i) PROVE x \in Inits
      BY DEF Down
    <2>1. x \in 1 .. i - 1
      BY DEF Earlier, Covers
    <2> QED BY <2>1, <1>1, <1>2 DEF Inits
  <1>8. Down(A, {p}) = Down(A, OwnOf(A, t) \cup Inits)
    <2>1. Down(A, OwnOf(A, t) \cup Inits) = Down(A, OwnOf(A, t)) \cup Down(A, Inits)
      BY DownJoins
    <2>2. p \in OwnOf(A, t) \cup Inits
      <3>1. CASE OwnOf(A, t) = {}
        <4>1. p = K
          BY <3>1 DEF ParentIn, p
        <4> QED BY <4>1, <1>1 DEF Inits
      <3>2. CASE OwnOf(A, t) # {}
        <4>1. p = Newest(OwnOf(A, t)) /\ OwnOf(A, t) \subseteq 1 .. Len(A)
          BY <3>2 DEF ParentIn, p, OwnOf, Places
        <4> QED BY <3>2, <4>1, <1>1, NewestIs
      <3> QED BY <3>1, <3>2
    <2>3. Down(A, {p}) \subseteq Down(A, OwnOf(A, t) \cup Inits)
      BY <2>2 DEF Down
    <2> QED BY <2>1, <2>3, <1>5, <1>6, <1>7
  <1> QED BY <1>3, <1>4, <1>8 DEF StandsFor, p

\* The clock vector a thread gives its next action.
Fresh(A, t) == [A[ParentIn(A, t)].cv EXCEPT ![t] = Len(A) + 1]

LEMMA FreshStands ==
  ASSUME NEW A, TraceInv(A), NEW t \in Threads
  PROVE  /\ Fresh(A, t) \in Clocks /\ Fresh(A, t)[t] = Len(A) + 1
         /\ \A u \in Threads : Fresh(A, t)[u] <= Len(A) + 1
         /\ StandsFor(A, Fresh(A, t), OwnOf(A, t) \cup Inits)
  <1> DEFINE p == ParentIn(A, t)
             c == A[p].cv
             L == Len(A)
  <1>1. IsTrace(A) /\ OwnCounted(A) /\ L \in Nat
    BY DEF TraceInv, IsTrace
  <1>2. p \in Places(A) /\ StandsFor(A, c, OwnOf(A, t) \cup Inits)
    BY ParentStands
  <1>3. c \in [Threads -> Nat] /\ \A u \in Threads : c[u] <= p
    BY <1>1, <1>2 DEF IsTrace, OwnCounted, Clocks
  <1>4. p <= L /\ p \in Nat
    BY <1>2, <1>1 DEF Places
  <1>5. Fresh(A, t) = [c EXCEPT ![t] = L + 1]
    BY DEF Fresh
  <1> HIDE DEF c, p, L
  <1>6. /\ Fresh(A, t) \in [Threads -> Nat] /\ Fresh(A, t)[t] = L + 1
        /\ \A u \in Threads : u # t => Fresh(A, t)[u] = c[u]
    BY <1>1, <1>3, <1>5
  <1>7. \A u \in Threads : Fresh(A, t)[u] <= L + 1
    BY <1>1, <1>3, <1>4, <1>6
  <1>8. StandsFor(A, Fresh(A, t), OwnOf(A, t) \cup Inits)
    <2> SUFFICES ASSUME NEW x \in Places(A)
                 PROVE  Known(A, Fresh(A, t), x) <=> x \in Down(A, OwnOf(A, t) \cup Inits)
      BY DEF StandsFor
    <2>1. A[x].t \in Threads
      BY <1>1 DEF IsTrace
    <2>2. CASE A[x].t = t
      <3>1. x \in Down(A, OwnOf(A, t) \cup Inits)
        BY <2>2 DEF OwnOf, Down
      <3>2. x <= L + 1
        BY <1>1 DEF Places, L
      <3> QED BY <2>2, <3>1, <3>2, <1>6 DEF Known
    <2>3. CASE A[x].t # t
      BY <2>1, <2>3, <1>2, <1>6 DEF Known, StandsFor
    <2> QED BY <2>2, <2>3
  <1> QED BY <1>6, <1>7, <1>8 DEF Clocks, L

\* The release operations before the reads of thread t, and the clock vectors
\* that acquire fences synchronise with.
ReadsOf(A, t) == {r \in OwnOf(A, t) : IsRead(A[r])}
ReadSides(A, t) == UNION {Side(A, A[r].rf) : r \in ReadsOf(A, t)}
AcqInv(A, q) ==
  /\ q \in [Threads -> Clocks]
  /\ \A t \in Threads : /\ \A u \in Threads : q[t][u] <= Len(A)
                        /\ StandsFor(A, q[t], ReadSides(A, t))

LEMMA SideOfRead ==
  ASSUME NEW A, IsTrace(A), NEW r \in Places(A), IsRead(A[r])
  PROVE  A[r].rf \in Places(A) /\ Side(A, A[r].rf) \subseteq Places(A)
  <1>1. A[r].rf \in 1 .. r - 1
    BY DEF IsTrace
  <1>2. A[r].rf \in Places(A) /\ 1 .. A[r].rf \subseteq Places(A)
    BY <1>1 DEF Places, IsTrace
  <1> QED BY <1>2, SideBelow

LEMMA ReadSidesIn ==
  ASSUME NEW A, IsTrace(A), NEW t
  PROVE  ReadSides(A, t) \subseteq Places(A)
  BY SideOfRead DEF ReadSides, ReadsOf, OwnOf

\* A clock vector keeps standing for the same actions.
LEMMA StandsKept ==
  ASSUME NEW A, IsTrace(A), NEW B, OneMore(B, A), NEW S, S \subseteq Places(A),
         NEW c \in Clocks, \A u \in Threads : c[u] <= Len(A), StandsFor(A, c, S)
  PROVE  StandsFor(B, c, S)
  <1>1. Down(B, S) = Down(A, S) /\ Down(A, S) \subseteq Places(A)
    BY DownKept
  <1>2. ~Known(B, c, Len(B))
    <2>1. Len(B) \in Places(B) /\ Len(B) = Len(A) + 1 /\ Len(A) \in Nat
      BY PlacesGrow DEF OneMore, IsTrace
    <2>2. B[Len(B)].t \in Threads
      BY <2>1 DEF OneMore, IsTrace
    <2>3. c[B[Len(B)].t] \in Nat /\ c[B[Len(B)].t] <= Len(A)
      BY <2>2 DEF Clocks
    <2> QED BY <2>1, <2>3 DEF Known
  <1>3. \A x \in Places(A) : Known(B, c, x) <=> Known(A, c, x)
    BY PlacesGrow DEF Known
  <1> QED BY <1>1, <1>2, <1>3, PlacesGrow DEF StandsFor

\* What is directly before the action that was added.
LEMMA DirectlyNow ==
  ASSUME NEW A, TraceInv(A), NEW B, OneMore(B, A), NEW b, b = B[Len(B)]
  PROVE  Directly(B, Len(B)) =
           OwnOf(A, b.t) \cup Inits
             \cup (IF b.k = "join" THEN OwnOf(A, b.x) ELSE {})
             \cup (IF IsRead(b) /\ IsAcquire(b) THEN Side(A, b.rf) ELSE {})
             \cup (IF b.k = "fence" /\ IsAcquire(b) THEN ReadSides(A, b.t) ELSE {})
  <1> DEFINE n == Len(B)
  <1>1. IsTrace(A) /\ IsTrace(B) /\ n \in Nat /\ n = Len(A) + 1 /\ 1 .. n - 1 = Places(A)
    BY PlacesGrow DEF TraceInv, OneMore, IsTrace
  <1>2. \A m \in Places(A) : B[m] = A[m]
    BY <1>1, PlacesGrow
  <1>3. \A t : {m \in 1 .. n - 1 : B[m].t = t} = OwnOf(A, t)
    BY <1>1, <1>2 DEF OwnOf
  <1>4. {m \in Inits : m < n} = Inits
    <2>1. Cardinality(Locs) \in Nat /\ Cardinality(Locs) <= Len(A) /\ Len(A) \in Nat
      BY <1>1 DEF TraceInv, Started, IsTrace
    <2>2. \A m \in Inits : m < Len(A) + 1
      BY <2>1 DEF Inits
    <2> QED BY <1>1, <2>2
  <1>5. IsRead(b) => Side(B, b.rf) = Side(A, b.rf)
    <2>1. IsRead(b) => b.rf \in Places(A)
      BY <1>1 DEF IsTrace, Places
    <2> QED BY <1>1, <2>1, SideKept DEF OneMore
  <1>6. b.k = "fence" => UNION {Side(B, B[r].rf) : r \in {r \in 1 .. n : B[r].t = b.t /\ IsRead(B[r])}}
                           = ReadSides(A, b.t)
    <2> SUFFICES ASSUME b.k = "fence"
                 PROVE  UNION {Side(B, B[r].rf) : r \in {r \in 1 .. n : B[r].t = b.t /\ IsRead(B[r])}}
                           = ReadSides(A, b.t)
      OBVIOUS
    <2>1. ~IsRead(B[n])
      BY DEF IsRead
    <2>2. 1 .. n = Places(A) \cup {n}
      BY <1>1 DEF Places
    <2>3. {r \in 1 .. n : B[r].t = b.t /\ IsRead(B[r])} = ReadsOf(A, b.t)
      BY <2>1, <2>2, <1>2 DEF ReadsOf, OwnOf
    <2>4. \A r \in ReadsOf(A, b.t) : Side(B, B[r].rf) = Side(A, A[r].rf)
      BY <1>1, <1>2, SideOfRead, SideKept DEF ReadsOf, OwnOf, OneMore
    <2> QED BY <2>3, <2>4 DEF ReadSides
  <1>7. /\ Directly(B, n) = 
             {m \in 1 .. n - 1 : B[m].t = b.t} \cup {m \in Inits : m < n}
               \cup (IF b.k = "join" THEN {m \in 1 .. n - 1 : B[m].t = b.x} ELSE {})
               \cup (IF IsRead(b) /\ IsAcquire(b) THEN Side(B, b.rf) ELSE {})
               \cup (IF b.k = "fence" /\ IsAcquire(b)
                       THEN UNION {Side(B, B[r].rf) : r \in {r \in 1 .. n : B[r].t = b.t /\ IsRead(B[r])}}
                       ELSE {})
    BY DEF Directly
  <1> HIDE DEF n
  <1>8. Directly(B, n) = 
             OwnOf(A, b.t) \cup Inits
               \cup (IF b.k = "join" THEN OwnOf(A, b.x) ELSE {})
               \cup (IF IsRead(b) /\ IsAcquire(b) THEN Side(B, b.rf) ELSE {})
               \cup (IF b.k = "fence" /\ IsAcquire(b)
                       THEN UNION {Side(B, B[r].rf) : r \in {r \in 1 .. n : B[r].t = b.t /\ IsRead(B[r])}}
                       ELSE {})
    BY <1>3, <1>4, <1>7
  <1> QED BY <1>5, <1>6, <1>8 DEF n

\* The two ways a new action gets its clock vector: as its thread goes on, or
\* merged with one more that stands for what else is directly before it.
LEMMA GoesOn ==
  ASSUME NEW A, TraceInv(A), NEW B, OneMore(B, A), NEW b, b = B[Len(B)],
         b.cv = Fresh(A, b.t),
         Directly(B, Len(B)) = OwnOf(A, b.t) \cup Inits
  PROVE  TraceInv(B)
  <1>1. IsTrace(A) /\ b.t \in Threads /\ Len(B) = Len(A) + 1
    BY PlacesGrow DEF TraceInv, OneMore, IsTrace
  <1>2. /\ Fresh(A, b.t)[b.t] = Len(A) + 1
        /\ \A u \in Threads : Fresh(A, b.t)[u] <= Len(A) + 1
        /\ StandsFor(A, Fresh(A, b.t), OwnOf(A, b.t) \cup Inits)
    BY <1>1, FreshStands
  <1>3. OwnOf(A, b.t) \cup Inits \subseteq Places(A)
    BY <1>1 DEF OwnOf, TraceInv, Started, Inits, Places, IsTrace
  <1> QED BY <1>1, <1>2, <1>3, TraceGrows

LEMMA Synchronises ==
  ASSUME NEW A, TraceInv(A), NEW B, OneMore(B, A), NEW b, b = B[Len(B)],
         NEW d \in Clocks, \A u \in Threads : d[u] <= Len(A),
         NEW S, S \subseteq Places(A), StandsFor(A, d, S),
         b.cv = Merge(Fresh(A, b.t), d),
         Directly(B, Len(B)) = OwnOf(A, b.t) \cup Inits \cup S
  PROVE  TraceInv(B)
  <1> DEFINE c == Fresh(A, b.t)
             L == Len(A)
  <1>1. IsTrace(A) /\ b.t \in Threads /\ Len(B) = L + 1 /\ L \in Nat
    BY PlacesGrow DEF TraceInv, OneMore, IsTrace
  <1>2. /\ c \in Clocks /\ c[b.t] = L + 1
        /\ \A u \in Threads : c[u] <= L + 1
        /\ StandsFor(A, c, OwnOf(A, b.t) \cup Inits)
    BY <1>1, FreshStands
  <1>3. OwnOf(A, b.t) \cup Inits \subseteq Places(A)
    BY <1>1 DEF OwnOf, TraceInv, Started, Inits, Places, IsTrace
  <1>4. StandsFor(A, Merge(c, d), (OwnOf(A, b.t) \cup Inits) \cup S)
    BY <1>1, <1>2, StandsForBoth
  <1> HIDE DEF c, L
  <1>5. Merge(c, d)[b.t] = L + 1
    BY <1>1, <1>2 DEF Merge, Clocks, L
  <1>6. \A u \in Threads : Merge(c, d)[u] <= L + 1
    BY <1>1, <1>2 DEF Merge, Clocks, L
  <1>7. b.cv = Merge(c, d)
    BY DEF c
  <1>8. Directly(B, Len(B)) = (OwnOf(A, b.t) \cup Inits) \cup S
    OBVIOUS
  <1> QED BY <1>1, <1>3, <1>4, <1>5, <1>6, <1>7, <1>8, TraceGrows

\* What an acquire fence will synchronise with.
LEMMA AcqKept ==
  ASSUME NEW A, IsTrace(A), NEW B, OneMore(B, A), NEW q, AcqInv(A, q),
         ~IsRead(B[Len(B)])
  PROVE  AcqInv(B, q)
  <1>1. \A t : ReadSides(B, t) = ReadSides(A, t)
    <2> SUFFICES ASSUME NEW t PROVE ReadSides(B, t) = ReadSides(A, t)
      OBVIOUS
    <2>1. ReadsOf(B, t) = ReadsOf(A, t)
      BY PlacesGrow DEF ReadsOf, OwnOf
    <2>2. \A r \in ReadsOf(A, t) : Side(B, B[r].rf) = Side(A, A[r].rf)
      BY SideOfRead, SideKept, PlacesGrow DEF ReadsOf, OwnOf, OneMore
    <2> QED BY <2>1, <2>2 DEF ReadSides
  <1>2. Len(B) = Len(A) + 1 /\ Len(A) \in Nat
    BY DEF OneMore, IsTrace
  <1>3. \A t \in Threads : q[t] \in Clocks /\ \A u \in Threads : q[t][u] \in Nat /\ q[t][u] <= Len(A)
    BY DEF AcqInv, Clocks
  <1>4. \A t \in Threads : StandsFor(B, q[t], ReadSides(A, t))
    BY <1>3, ReadSidesIn, StandsKept DEF AcqInv
  <1>5. \A t, u \in Threads : q[t][u] <= Len(B)
    BY <1>2, <1>3
  <1> QED BY <1>1, <1>4, <1>5 DEF AcqInv

LEMMA AcqGrows ==
  ASSUME NEW A, TraceInv(A), NEW B, OneMore(B, A), NEW q, AcqInv(A, q),
         NEW b, b = B[Len(B)], IsRead(b)
  PROVE  AcqInv(B, [q EXCEPT ![b.t] = Merge(@, HbCv(A)[b.rf])])
  <1> DEFINE d == HbCv(A)[b.rf]
             m == Merge(q[b.t], d)
             p == [q EXCEPT ![b.t] = m]
             L == Len(A)
  <1>1. IsTrace(A) /\ IsTrace(B) /\ b.t \in Threads /\ Len(B) = L + 1 /\ L \in Nat
    BY PlacesGrow DEF TraceInv, OneMore, IsTrace
  <1>2. b.rf \in Places(A) /\ b.rf <= L /\ b.rf \in Nat
    BY <1>1, PlacesGrow DEF IsTrace, Places
  <1>3. d \in Clocks /\ (\A u \in Threads : d[u] <= b.rf) /\ StandsFor(A, d, Side(A, b.rf))
    BY <1>2, HbStandsForSide DEF HandsOn, TraceInv
  <1>4. Side(A, b.rf) \subseteq Places(A)
    BY <1>1, <1>2, SideBelow DEF Places
  <1>5. \A t \in Threads : q[t] \in Clocks /\ \A u \in Threads : q[t][u] \in Nat /\ q[t][u] <= L
    BY DEF AcqInv, Clocks
  <1>6. \A t : t # b.t => ReadSides(B, t) = ReadSides(A, t)
    <2> SUFFICES ASSUME NEW t, t # b.t PROVE ReadSides(B, t) = ReadSides(A, t)
      OBVIOUS
    <2>1. ReadsOf(B, t) = ReadsOf(A, t)
      BY <1>1, PlacesGrow DEF ReadsOf, OwnOf
    <2>2. \A r \in ReadsOf(A, t) : Side(B, B[r].rf) = Side(A, A[r].rf)
      BY <1>1, SideOfRead, SideKept, PlacesGrow DEF ReadsOf, OwnOf, OneMore
    <2> QED BY <2>1, <2>2 DEF ReadSides
  <1>7. ReadSides(B, b.t) = ReadSides(A, b.t) \cup Side(A, b.rf)
    <2>1. ReadsOf(B, b.t) = ReadsOf(A, b.t) \cup {Len(B)}
      BY <1>1, PlacesGrow DEF ReadsOf, OwnOf
    <2>2. \A r \in ReadsOf(A, b.t) : Side(B, B[r].rf) = Side(A, A[r].rf)
      BY <1>1, SideOfRead, SideKept, PlacesGrow DEF ReadsOf, OwnOf, OneMore
    <2>3. Side(B, B[Len(B)].rf) = Side(A, b.rf)
      BY <1>1, <1>2, SideKept DEF OneMore
    <2> QED BY <2>1, <2>2, <2>3 DEF ReadSides
  <1>8. m \in Clocks /\ StandsFor(A, m, ReadSides(A, b.t) \cup Side(A, b.rf))
    BY <1>1, <1>3, <1>5, MergeIs, StandsForBoth DEF AcqInv
  <1>9. \A u \in Threads : m[u] <= L
    <2>1. \A u \in Threads : m[u] \in {q[b.t][u], d[u]}
      BY <1>1, <1>3, <1>5, MergeIs
    <2> HIDE DEF m, d
    <2>2. \A u \in Threads : d[u] \in Nat
      BY <1>3 DEF Clocks
    <2> QED BY <1>1, <1>2, <1>3, <1>5, <2>1, <2>2
  <1> HIDE DEF m, d
  <1>10. StandsFor(B, m, ReadSides(B, b.t))
    <2>1. ReadSides(A, b.t) \cup Side(A, b.rf) \subseteq Places(A)
      BY <1>1, <1>4, ReadSidesIn
    <2> QED BY <1>1, <1>7, <1>8, <1>9, <2>1, StandsKept
  <1>11. \A t \in Threads : t # b.t => StandsFor(B, q[t], ReadSides(B, t))
    <2>1. \A t \in Threads : StandsFor(B, q[t], ReadSides(A, t))
      BY <1>1, <1>5, ReadSidesIn, StandsKept DEF AcqInv
    <2> QED BY <2>1, <1>6
  <1>12. q \in [Threads -> Clocks]
    BY DEF AcqInv
  <1>13. /\ p \in [Threads -> Clocks] /\ p[b.t] = m
         /\ \A t \in Threads : t # b.t => p[t] = q[t]
    BY <1>1, <1>8, <1>12
  <1> HIDE DEF p, L
  <1>14. \A t, u \in Threads : p[t][u] <= L + 1
    <2> SUFFICES ASSUME NEW t \in Threads, NEW u \in Threads PROVE p[t][u] <= L + 1
      OBVIOUS
    <2>1. p[t][u] \in Nat
      BY <1>13 DEF Clocks
    <2>2. p[t][u] <= L
      BY <1>5, <1>9, <1>13
    <2> QED BY <2>1, <2>2, <1>1
  <1>15. AcqInv(B, p)
    BY <1>1, <1>10, <1>11, <1>13, <1>14 DEF AcqInv
  <1> QED BY <1>15 DEF p, m, d

-----------------------------------------------------------------------------
\* The trace of the model, and its operators on it.

LEMMA TracePlaces ==
  ASSUME IsTrace(acts)
  PROVE  Actions = Places(acts)
  <1>1. DOMAIN acts = DOMAIN [i \in Places(acts) |-> acts[i]]
    BY DEF IsTrace
  <1> QED BY <1>1 DEF Actions

LEMMA ReleaseSideIs ==
  ASSUME IsTrace(acts), NEW n
  PROVE  ReleaseSide(n) = Side(acts, n)
  <1>1. ReleaseHeads(n) = Heads(acts)[n]
    BY TracePlaces DEF ReleaseHeads, Heads, HeadsFit
  <1> QED BY <1>1 DEF ReleaseSide, Side

LEMMA GetHbIs ==
  ASSUME IsTrace(acts), NEW n
  PROVE  GetHbFromWrite(n) = HbCv(acts)[n]
  <1>1. GetHbFromWrite(n) = (CHOOSE f : HbUpTo(acts, Len(acts), f))[n]
    BY TracePlaces DEF GetHbFromWrite, HbUpTo, HbAt, OwnCv, LastFenceRelease, OwnFences, Places
  <1> QED BY <1>1 DEF HbCv

LEMMA DirectlyIs ==
  ASSUME IsTrace(acts), NEW n
  PROVE  DirectlyBefore(n) = Directly(acts, n)
  <1>1. \A m : ReleaseSide(m) = Side(acts, m)
    BY ReleaseSideIs
  <1> QED BY <1>1 DEF DirectlyBefore, Directly, Inits

-----------------------------------------------------------------------------
\* Every step appends one action.

Ready == TraceInv(acts) /\ AcqInv(acts, acq)

LEMMA Appended ==
  ASSUME NEW A, IsTrace(A), NEW a, a.t \in Threads, a.cv \in Clocks,
         IsRead(a) => a.rf \in Places(A)
  PROVE  OneMore(Append(A, a), A) /\ Append(A, a)[Len(Append(A, a))] = a
  <1> DEFINE S == {A[i] : i \in Places(A)} \cup {a}
             B == Append(A, a)
  <1>1. Len(A) \in Nat /\ A = [i \in 1 .. Len(A) |-> A[i]]
    BY DEF IsTrace, Places
  <1>2. A \in Seq(S) /\ a \in S
    <2>1. A \in [1 .. Len(A) -> S]
      BY <1>1 DEF Places
    <2> QED BY <1>1, <2>1, SeqDef
  <1> HIDE DEF S
  <1>3. /\ Len(B) = Len(A) + 1 /\ B \in Seq(S)
        /\ \A i \in 1 .. Len(A) : B[i] = A[i]
        /\ B[Len(A) + 1] = a
    BY <1>2, AppendProperties
  <1>4. B = [i \in 1 .. Len(B) |-> B[i]] /\ Len(B) \in Nat
    BY <1>3, <1>1, ElementOfSeq, LenProperties
  <1> HIDE DEF B
  <1>5. IsTrace(B)
    <2> SUFFICES ASSUME NEW n \in 1 .. Len(B)
                 PROVE  /\ B[n].t \in Threads
                        /\ B[n].cv \in Clocks
                        /\ IsRead(B[n]) => B[n].rf \in 1 .. n - 1
      BY <1>4 DEF IsTrace, Places
    <2>1. CASE n \in 1 .. Len(A)
      BY <2>1, <1>3 DEF IsTrace, Places
    <2>2. CASE n = Len(A) + 1
      BY <2>2, <1>3, <1>1 DEF Places
    <2>3. n \in 1 .. Len(A) \/ n = Len(A) + 1
      BY <1>1, <1>3
    <2> QED BY <2>1, <2>2, <2>3
  <1>6. Len(A) <= Len(B)
    BY <1>1, <1>3
  <1> QED BY <1>3, <1>5, <1>6 DEF OneMore, Extends, Places, B

\* The model's clock vectors are those of the trace.
LEMMA FreshIs ==
  ASSUME Ready, NEW t
  PROVE  Parent(t) = ParentIn(acts, t) /\ NewCv(t) = Fresh(acts, t)
  <1>1. Actions = Places(acts)
    BY TracePlaces DEF Ready, TraceInv
  <1>2. Parent(t) = ParentIn(acts, t)
    BY <1>1 DEF Parent, ParentIn, OwnOf
  <1> QED BY <1>2 DEF NewCv, Fresh, NextSeq

LEMMA ReadableIs ==
  ASSUME Ready, NEW t, NEW o, NEW cv, NEW rf \in Readable(t, o, cv)
  PROVE  rf \in Places(acts) /\ GetHbFromWrite(rf) = HbCv(acts)[rf] /\ HandsOn(acts, rf)
  <1>1. Actions = Places(acts) /\ IsTrace(acts) /\ OwnCounted(acts) /\ StepByStep(acts)
    BY TracePlaces DEF Ready, TraceInv
  <1>2. rf \in Actions
    BY DEF Readable, MayReadFrom, ObjWrThrd, ListOf
  <1> QED BY <1>1, <1>2, GetHbIs, HbStandsForSide

\* An action that reads nothing and synchronises with nothing.
LEMMA PlainStep ==
  ASSUME Ready, NEW a, a.t \in Threads, a.cv = NewCv(a.t),
         a.k = "store" \/ (a.k = "fence" /\ ~IsAcquire(a)),
         acts' = Append(acts, a), acq' = acq
  PROVE  Ready'
  <1> DEFINE B == Append(acts, a)
  <1>1. IsTrace(acts) /\ TraceInv(acts) /\ AcqInv(acts, acq) /\ a.cv = Fresh(acts, a.t)
    BY FreshIs DEF Ready, TraceInv
  <1>2. ~IsRead(a)
    BY DEF IsRead
  <1>3. OneMore(B, acts) /\ B[Len(B)] = a
    BY <1>1, <1>2, FreshStands, Appended
  <1> HIDE DEF B
  <1>4. Directly(B, Len(B)) = OwnOf(acts, a.t) \cup Inits
    BY <1>1, <1>2, <1>3, DirectlyNow
  <1>5. TraceInv(B)
    BY <1>1, <1>3, <1>4, GoesOn
  <1>6. AcqInv(B, acq)
    BY <1>1, <1>2, <1>3, AcqKept
  <1> QED BY <1>5, <1>6 DEF Ready, B

\* A load, or the load of a read-modify-write.
LEMMA ReadStep ==
  ASSUME Ready, NEW a, a.t \in Threads, IsRead(a), a.rf \in Places(acts), HandsOn(acts, a.rf),
         a.cv = IF IsAcquire(a) THEN Merge(NewCv(a.t), HbCv(acts)[a.rf]) ELSE NewCv(a.t),
         acts' = Append(acts, a),
         acq' = [acq EXCEPT ![a.t] = Merge(@, HbCv(acts)[a.rf])]
  PROVE  Ready'
  <1> DEFINE B == Append(acts, a)
             d == HbCv(acts)[a.rf]
             S == Side(acts, a.rf)
  <1>1. IsTrace(acts) /\ TraceInv(acts) /\ AcqInv(acts, acq) /\ NewCv(a.t) = Fresh(acts, a.t)
    BY FreshIs DEF Ready, TraceInv
  <1>2. a.k # "join" /\ a.k # "fence"
    BY DEF IsRead
  <1>3. d \in Clocks /\ (\A u \in Threads : d[u] <= a.rf) /\ StandsFor(acts, d, S)
    BY DEF HandsOn
  <1>4. S \subseteq Places(acts) /\ Len(acts) \in Nat /\ a.rf \in Nat /\ a.rf <= Len(acts)
    <2>1. S \subseteq 1 .. a.rf
      BY <1>1, SideBelow
    <2> HIDE DEF S
    <2> QED BY <1>1, <2>1 DEF Places, IsTrace
  <1>5. \A u \in Threads : d[u] <= Len(acts)
    <2> HIDE DEF d
    <2>1. \A u \in Threads : d[u] \in Nat
      BY <1>3 DEF Clocks
    <2> QED BY <2>1, <1>3, <1>4
  <1>6. a.cv \in Clocks
    <2>1. NewCv(a.t) \in Clocks
      BY <1>1, FreshStands
    <2>2. Merge(NewCv(a.t), d) \in Clocks
      BY <1>1, <1>3, <2>1, MergeIs
    <2> QED BY <2>1, <2>2
  <1>7. OneMore(B, acts) /\ B[Len(B)] = a
    BY <1>1, <1>6, Appended
  <1> HIDE DEF B
  <1>8. Directly(B, Len(B)) = OwnOf(acts, a.t) \cup Inits \cup (IF IsAcquire(a) THEN S ELSE {})
    BY <1>1, <1>2, <1>7, DirectlyNow
  <1> HIDE DEF S
  <1>9. TraceInv(B)
    <2>1. CASE IsAcquire(a)
      <3>1. Directly(B, Len(B)) = OwnOf(acts, a.t) \cup Inits \cup S /\ a.cv = Merge(Fresh(acts, a.t), d)
        BY <2>1, <1>1, <1>8
      <3> HIDE DEF d
      <3> QED BY <3>1, <1>1, <1>3, <1>4, <1>5, <1>7, Synchronises
    <2>2. CASE ~IsAcquire(a)
      BY <2>2, <1>1, <1>7, <1>8, GoesOn
    <2> QED BY <2>1, <2>2
  <1>10. AcqInv(B, [acq EXCEPT ![a.t] = Merge(@, HbCv(acts)[a.rf])])
    BY <1>1, <1>7, AcqGrows
  <1> QED BY <1>9, <1>10 DEF Ready, B

\* An acquire fence or a join, which merges what d stands for.
LEMMA MergeStep ==
  ASSUME Ready, NEW a, a.t \in Threads, a.k \in {"fence", "join"},
         NEW d \in Clocks, \A u \in Threads : d[u] <= Len(acts),
         NEW S, S \subseteq Places(acts), StandsFor(acts, d, S),
         OwnOf(acts, a.t) \cup Inits \cup S
           = OwnOf(acts, a.t) \cup Inits
               \cup (IF a.k = "join" THEN OwnOf(acts, a.x) ELSE {})
               \cup (IF a.k = "fence" /\ IsAcquire(a) THEN ReadSides(acts, a.t) ELSE {}),
         a.cv = Merge(NewCv(a.t), d),
         acts' = Append(acts, a), acq' = acq
  PROVE  Ready'
  <1> DEFINE B == Append(acts, a)
  <1>1. IsTrace(acts) /\ TraceInv(acts) /\ AcqInv(acts, acq) /\ NewCv(a.t) = Fresh(acts, a.t)
    BY FreshIs DEF Ready, TraceInv
  <1>2. ~IsRead(a)
    BY DEF IsRead
  <1>3. a.cv \in Clocks
    <2>1. NewCv(a.t) \in Clocks
      BY <1>1, FreshStands
    <2> QED BY <1>1, <2>1, MergeIs
  <1>4. OneMore(B, acts) /\ B[Len(B)] = a
    BY <1>1, <1>2, <1>3, Appended
  <1> HIDE DEF B
  <1>5. Directly(B, Len(B)) = OwnOf(acts, a.t) \cup Inits \cup S
    BY <1>1, <1>2, <1>4, DirectlyNow
  <1>6. a.cv = Merge(Fresh(acts, a.t), d)
    BY <1>1
  <1>7. TraceInv(B)
    BY <1>1, <1>4, <1>5, <1>6, Synchronises
  <1>8. AcqInv(B, acq)
    BY <1>1, <1>2, <1>4, AcqKept
  <1> QED BY <1>7, <1>8 DEF Ready, B

-----------------------------------------------------------------------------
\* The actions of the model.

LEMMA StoreKeeps ==
  ASSUME Ready, NEW t \in Threads, Store(t)
  PROVE  Ready'
  <1> DEFINE a == Act(t, NextOp(t), NewCv(t))
  <1>1. a.t = t /\ a.cv = NewCv(a.t) /\ a.k = "store" /\ acts' = Append(acts, a) /\ acq' = acq
    BY DEF Store, Act
  <1> HIDE DEF a
  <1> QED BY <1>1, PlainStep

LEMMA LoadKeeps ==
  ASSUME Ready, NEW t \in Threads, Load(t)
  PROVE  Ready'
  <1> DEFINE o == NextOp(t)
             cv == NewCv(t)
  <1>1. PICK rf \in Readable(t, o, cv) :
          /\ acts' = Append(acts, [Reading(t, o, cv, rf) EXCEPT
                                     !.k = "load",
                                     !.pruned = o.k = "load" /\ CanPrune(t, o, cv, rf)])
          /\ acq' = [acq EXCEPT ![t] = Merge(@, GetHbFromWrite(rf))]
    BY DEF Load
  <1> DEFINE p == o.k = "load" /\ CanPrune(t, o, cv, rf)
             a == [Reading(t, o, cv, rf) EXCEPT !.k = "load", !.pruned = p]
  <1> HIDE DEF o, cv, p
  <1>2. /\ a.t = t /\ a.k = "load" /\ a.rf = rf /\ IsAcquire(a) = IsAcquire(o)
        /\ a.cv = IF IsAcquire(o) THEN Merge(cv, GetHbFromWrite(rf)) ELSE cv
    BY DEF Reading, Act, IsAcquire
  <1>3. acts' = Append(acts, a)
    BY <1>1 DEF p
  <1> HIDE DEF a
  <1>4. rf \in Places(acts) /\ GetHbFromWrite(rf) = HbCv(acts)[rf] /\ HandsOn(acts, rf)
    BY ReadableIs
  <1>5. IsRead(a)
    BY <1>2 DEF IsRead
  <1> QED BY <1>1, <1>2, <1>3, <1>4, <1>5, ReadStep DEF cv

LEMMA RmwKeeps ==
  ASSUME Ready, NEW t \in Threads, ReadModifyWrite(t)
  PROVE  Ready'
  <1> DEFINE o == NextOp(t)
             cv == NewCv(t)
  <1>1. PICK rf \in Readable(t, o, cv) :
          /\ acts' = Append(acts, [Reading(t, o, cv, rf) EXCEPT !.k = "rmw"])
          /\ acq' = [acq EXCEPT ![t] = Merge(@, GetHbFromWrite(rf))]
    BY DEF ReadModifyWrite
  <1> DEFINE a == [Reading(t, o, cv, rf) EXCEPT !.k = "rmw"]
  <1> HIDE DEF o, cv
  <1>2. /\ a.t = t /\ a.k = "rmw" /\ a.rf = rf /\ IsAcquire(a) = IsAcquire(o)
        /\ a.cv = IF IsAcquire(o) THEN Merge(cv, GetHbFromWrite(rf)) ELSE cv
    BY DEF Reading, Act, IsAcquire
  <1>3. acts' = Append(acts, a)
    BY <1>1
  <1> HIDE DEF a
  <1>4. rf \in Places(acts) /\ GetHbFromWrite(rf) = HbCv(acts)[rf] /\ HandsOn(acts, rf)
    BY ReadableIs
  <1>5. IsRead(a)
    BY <1>2 DEF IsRead
  <1> QED BY <1>1, <1>2, <1>3, <1>4, <1>5, ReadStep DEF cv

LEMMA FenceKeeps ==
  ASSUME Ready, NEW t \in Threads, Fence(t)
  PROVE  Ready'
  <1> DEFINE o == NextOp(t)
             a == Act(t, o, IF IsAcquire(o) THEN Merge(NewCv(t), acq[t]) ELSE NewCv(t))
  <1>1. /\ a.t = t /\ a.k = "fence" /\ IsAcquire(a) = IsAcquire(o)
        /\ a.cv = IF IsAcquire(o) THEN Merge(NewCv(t), acq[t]) ELSE NewCv(t)
    BY DEF Fence, Act, IsAcquire
  <1>2. acts' = Append(acts, a) /\ acq' = acq
    BY DEF Fence
  <1> HIDE DEF a, o
  <1>3. CASE IsAcquire(o)
    <2>1. /\ acq[t] \in Clocks /\ (\A u \in Threads : acq[t][u] <= Len(acts))
          /\ StandsFor(acts, acq[t], ReadSides(acts, t))
      BY DEF Ready, AcqInv
    <2>2. ReadSides(acts, t) \subseteq Places(acts)
      BY ReadSidesIn DEF Ready, TraceInv
    <2>3. a.cv = Merge(NewCv(t), acq[t]) /\ IsAcquire(a) /\ a.k # "join"
      BY <1>1, <1>3
    <2>4. OwnOf(acts, a.t) \cup Inits \cup ReadSides(acts, t)
           = OwnOf(acts, a.t) \cup Inits
               \cup (IF a.k = "join" THEN OwnOf(acts, a.x) ELSE {})
               \cup (IF a.k = "fence" /\ IsAcquire(a) THEN ReadSides(acts, a.t) ELSE {})
      BY <1>1, <2>3
    <2> QED BY <1>1, <1>2, <2>1, <2>2, <2>3, <2>4, MergeStep
  <1>4. CASE ~IsAcquire(o)
    BY <1>1, <1>2, <1>4, PlainStep
  <1> QED BY <1>3, <1>4

LEMMA JoinKeeps ==
  ASSUME Ready, NEW t \in Threads, Join(t)
  PROVE  Ready'
  <1> DEFINE u == NextOp(t).x
             d == acts[Parent(u)].cv
             S == OwnOf(acts, u) \cup Inits
             a == Act(t, NextOp(t), Merge(NewCv(t), d))
  <1>1. a.t = t /\ a.k = "join" /\ a.x = u /\ a.cv = Merge(NewCv(t), d)
    BY DEF Join, Act
  <1>2. acts' = Append(acts, a) /\ acq' = acq
    BY DEF Join
  <1> HIDE DEF a, u
  <1>3. TraceInv(acts) /\ IsTrace(acts) /\ OwnCounted(acts) /\ Parent(u) = ParentIn(acts, u)
    BY FreshIs DEF Ready, TraceInv
  <1>4. Parent(u) \in Places(acts) /\ StandsFor(acts, d, S)
    BY <1>3, ParentStands
  <1>5. d \in Clocks /\ \A w \in Threads : d[w] <= Parent(u)
    BY <1>3, <1>4 DEF IsTrace, OwnCounted
  <1>6. Parent(u) \in Nat /\ Parent(u) <= Len(acts) /\ Len(acts) \in Nat
    BY <1>3, <1>4 DEF Places, IsTrace
  <1>7. S \subseteq Places(acts)
    BY <1>3 DEF OwnOf, TraceInv, Started, Inits, Places, IsTrace
  <1> HIDE DEF d
  <1>8. \A w \in Threads : d[w] <= Len(acts)
    BY <1>5, <1>6 DEF Clocks
  <1>9. OwnOf(acts, a.t) \cup Inits \cup S
           = OwnOf(acts, a.t) \cup Inits
               \cup (IF a.k = "join" THEN OwnOf(acts, a.x) ELSE {})
               \cup (IF a.k = "fence" /\ IsAcquire(a) THEN ReadSides(acts, a.t) ELSE {})
    BY <1>1
  <1> HIDE DEF S
  <1> QED BY <1>1, <1>2, <1>4, <1>5, <1>7, <1>8, <1>9, MergeStep

-----------------------------------------------------------------------------
\* Main's initialisations.

LEMMA InitReady ==
  ASSUME Init
  PROVE  Ready
  <1> DEFINE K == Cardinality(Locs)
             W(i) == [Bottom EXCEPT ![Main] = i]
  <1>1. K \in Nat \ {0} /\ Main \in Threads
    BY C11Assumption, FS_CardinalityType, FS_EmptySet
  <1>2. Bottom \in Clocks /\ \A u \in Threads : Bottom[u] = 0
    BY DEF Bottom, Clocks
  <1>3. acts = [i \in 1 .. K |-> Act(Main, Op("store", LocSeq[i], "rlx"), [Bottom EXCEPT ![Main] = i])]
        /\ acq = [t \in Threads |-> Bottom]
    BY DEF Init
  <1> HIDE DEF K
  <1>4. acts \in Seq({acts[i] : i \in 1 .. K}) /\ Len(acts) = K /\ acts = [i \in 1 .. K |-> acts[i]]
    <2> DEFINE S == {acts[i] : i \in 1 .. K}
    <2>1. acts = [i \in 1 .. K |-> acts[i]]
      BY <1>3
    <2>2. acts \in [1 .. K -> S]
      BY <2>1
    <2> HIDE DEF S
    <2>3. acts \in Seq(S)
      BY <1>1, <2>2, SeqDef
    <2>4. DOMAIN acts = 1 .. K
      BY <2>1
    <2>5. Len(acts) = K
      BY <1>1, <2>3, <2>4, LenProperties
    <2> QED BY <2>1, <2>3, <2>5 DEF S
  <1>5. Places(acts) = 1 .. K /\ Inits = 1 .. K
    BY <1>4 DEF Places, Inits, K
  <1>6. \A i \in 1 .. K : /\ acts[i].t = Main /\ acts[i].k = "store"
                          /\ acts[i].cv = W(i)
    BY <1>3 DEF Act, Op
  <1> HIDE DEF W
  <1>7. \A i \in 1 .. K : /\ acts[i].cv \in Clocks /\ acts[i].cv[Main] = i
                          /\ \A u \in Threads : u # Main => acts[i].cv[u] = 0
    <2>1. \A i \in 1 .. K : /\ W(i) \in Clocks /\ W(i)[Main] = i
                            /\ \A u \in Threads : u # Main => W(i)[u] = 0
      <3> SUFFICES ASSUME NEW i \in 1 .. K
                   PROVE  /\ W(i) \in Clocks /\ W(i)[Main] = i
                          /\ \A u \in Threads : u # Main => W(i)[u] = 0
        OBVIOUS
      <3>1. i \in Nat
        OBVIOUS
      <3>2. Bottom \in [Threads -> Nat]
        BY <1>2 DEF Clocks
      <3> QED BY <1>1, <1>2, <3>1, <3>2 DEF Clocks, W
    <2> QED BY <1>6, <2>1
  <1>8. \A i \in 1 .. K : ~IsRead(acts[i]) /\ acts[i].k # "join" /\ acts[i].k # "fence"
    BY <1>6 DEF IsRead
  <1>9. IsTrace(acts)
    BY <1>1, <1>4, <1>5, <1>6, <1>7, <1>8 DEF IsTrace
  <1>10. OwnCounted(acts)
    <2> SUFFICES ASSUME NEW n \in 1 .. K
                 PROVE  acts[n].cv[acts[n].t] = n /\ \A u \in Threads : acts[n].cv[u] <= n
      BY <1>5 DEF OwnCounted
    <2>1. acts[n].cv[acts[n].t] = n
      BY <1>6, <1>7
    <2>2. \A u \in Threads : acts[n].cv[u] = n \/ acts[n].cv[u] = 0
      BY <1>7
    <2>3. n \in Nat /\ 0 <= n /\ n <= n
      OBVIOUS
    <2> QED BY <2>1, <2>2, <2>3
  <1>11. StepByStep(acts)
    <2> SUFFICES ASSUME NEW n \in 1 .. K
                 PROVE  Earlier(acts, n) = Down(acts, Directly(acts, n))
      BY <1>5 DEF StepByStep
    <2>1. \A i \in 1 .. K : Earlier(acts, i) = 1 .. i - 1
      <3> SUFFICES ASSUME NEW i \in 1 .. K PROVE Earlier(acts, i) = 1 .. i - 1
        OBVIOUS
      <3>1. \A m \in 1 .. i - 1 : m \in 1 .. K /\ m <= i
        BY <1>1
      <3>2. \A m \in 1 .. i - 1 : m <= acts[i].cv[acts[m].t]
        BY <1>6, <1>7, <3>1
      <3> QED BY <3>2 DEF Earlier, Covers
    <2>2. Directly(acts, n) = 1 .. n - 1
      <3>1. \A m \in 1 .. n - 1 : m \in 1 .. K
        BY <1>1
      <3>2. {m \in 1 .. n - 1 : acts[m].t = acts[n].t} = 1 .. n - 1
        BY <1>6, <3>1
      <3>3. {m \in Inits : m < n} = 1 .. n - 1
        BY <1>1, <1>5
      <3> QED BY <1>8, <3>2, <3>3 DEF Directly
    <2>3. Down(acts, 1 .. n - 1) = 1 .. n - 1
      <3>1. \A m \in 1 .. n - 1 : Earlier(acts, m) = 1 .. m - 1 /\ 1 .. m - 1 \subseteq 1 .. n - 1
        BY <1>1, <2>1
      <3> QED BY <3>1 DEF Down
    <2> QED BY <2>1, <2>2, <2>3
  <1>12. Started(acts)
    <2>1. K <= Len(acts) /\ \A i \in Inits : acts[i].t = Main
      BY <1>1, <1>4, <1>5, <1>6
    <2> QED BY <1>1, <2>1 DEF Started, K
  <1>13. AcqInv(acts, acq)
    <2>1. \A t \in Threads : ReadSides(acts, t) = {}
      BY <1>5, <1>8 DEF ReadSides, ReadsOf, OwnOf
    <2>2. StandsFor(acts, Bottom, {})
      <3>1. \A x \in 1 .. K : ~Known(acts, Bottom, x)
        <4>1. \A x \in 1 .. K : Bottom[acts[x].t] = 0
          BY <1>1, <1>2, <1>6
        <4>2. \A x \in 1 .. K : ~(x <= 0)
          BY <1>1
        <4> QED BY <4>1, <4>2 DEF Known
      <3> QED BY <3>1, <1>5 DEF StandsFor, Down
    <2>3. \A t \in Threads : acq[t] = Bottom
      BY <1>3
    <2>4. acq \in [Threads -> Clocks]
      BY <1>2, <1>3
    <2>5. \A u \in Threads : Bottom[u] <= Len(acts)
      BY <1>1, <1>2, <1>4
    <2> QED BY <2>1, <2>2, <2>3, <2>4, <2>5 DEF AcqInv
  <1> QED BY <1>9, <1>10, <1>11, <1>12, <1>13 DEF Ready, TraceInv

LEMMA StepReady ==
  ASSUME Ready, [Next]_vars
  PROVE  Ready'
  <1>1. CASE \E t \in Threads : Store(t) \/ Load(t) \/ ReadModifyWrite(t) \/ Fence(t) \/ Join(t)
    BY <1>1, StoreKeeps, LoadKeeps, RmwKeeps, FenceKeeps, JoinKeeps
  <1>2. CASE UNCHANGED vars
    BY <1>2 DEF vars, Ready
  <1> QED BY <1>1, <1>2 DEF Next, Done

-----------------------------------------------------------------------------
\* Happens-before is the only relation that adds, to what is directly before an
\* action, what is before that; the clock vectors are such a relation.

HbFits(A, f) == f = [n \in Places(A) |-> Directly(A, n) \cup UNION {f[m] : m \in Directly(A, n)}]

LEMMA DirectlyBelow ==
  ASSUME NEW A, TraceInv(A), NEW n \in Places(A)
  PROVE  Directly(A, n) \subseteq 1 .. n - 1
  <1>1. Directly(A, n) \subseteq Down(A, Directly(A, n))
    BY DEF Down
  <1>2. Earlier(A, n) \subseteq 1 .. n - 1
    BY DEF Earlier, Covers
  <1> QED BY <1>1, <1>2 DEF TraceInv, StepByStep

LEMMA EarlierFits ==
  ASSUME NEW A, TraceInv(A)
  PROVE  HbFits(A, [n \in Places(A) |-> Earlier(A, n)])
  <1> DEFINE f == [n \in Places(A) |-> Earlier(A, n)]
  <1> SUFFICES ASSUME NEW n \in Places(A)
               PROVE  Earlier(A, n) = Directly(A, n) \cup UNION {f[m] : m \in Directly(A, n)}
    BY DEF HbFits
  <1>1. Earlier(A, n) = Down(A, Directly(A, n))
    BY DEF TraceInv, StepByStep
  <1>2. \A m \in Directly(A, n) : f[m] = Earlier(A, m)
    <2>1. Directly(A, n) \subseteq Places(A)
      <3>1. 1 .. n - 1 \subseteq Places(A)
        BY DEF Places, TraceInv, IsTrace
      <3> QED BY <3>1, DirectlyBelow
    <2> QED BY <2>1
  <1> QED BY <1>1, <1>2 DEF Down

LEMMA HbOnlyOne ==
  ASSUME NEW A, TraceInv(A), NEW f, HbFits(A, f), NEW h, HbFits(A, h), NEW n \in Places(A)
  PROVE  f[n] = h[n]
  <1> DEFINE T == {m \in Places(A) : f[m] # h[m]}
  <1> SUFFICES ASSUME T # {} PROVE FALSE
    OBVIOUS
  <1>1. T \subseteq Nat
    BY DEF Places
  <1>2. \E m \in T : \A k \in T : m <= k
    BY <1>1, Least
  <1>3. PICK m \in T : \A k \in T : m <= k
    BY <1>2
  <1>4. m \in Places(A) /\ f[m] # h[m] /\ m \in Nat
    BY <1>3 DEF Places
  <1>5. \A k \in Directly(A, m) : f[k] = h[k]
    <2>1. \A k \in 1 .. m - 1 : k \in Places(A) /\ ~(m <= k)
      BY <1>4 DEF Places, TraceInv, IsTrace
    <2>2. \A k \in 1 .. m - 1 : f[k] = h[k]
      BY <1>3, <2>1
    <2> QED BY <1>4, <2>2, DirectlyBelow
  <1>6. /\ f[m] = Directly(A, m) \cup UNION {f[k] : k \in Directly(A, m)}
        /\ h[m] = Directly(A, m) \cup UNION {h[k] : k \in Directly(A, m)}
    <2>1. \A e : HbFits(A, e) => e[m] = Directly(A, m) \cup UNION {e[k] : k \in Directly(A, m)}
      <3> SUFFICES ASSUME NEW e, HbFits(A, e)
                   PROVE  e[m] = Directly(A, m) \cup UNION {e[k] : k \in Directly(A, m)}
        OBVIOUS
      <3> DEFINE g0 == [x \in Places(A) |-> Directly(A, x) \cup UNION {e[k] : k \in Directly(A, x)}]
      <3>1. e = g0
        BY DEF HbFits
      <3>2. g0[m] = Directly(A, m) \cup UNION {e[k] : k \in Directly(A, m)}
        BY <1>4
      <3> HIDE DEF g0
      <3> QED BY <3>1, <3>2
    <2> QED BY <2>1
  <1>7. f[m] = h[m]
    BY <1>5, <1>6
  <1> QED BY <1>4, <1>7

LEMMA HbBeforeIs ==
  ASSUME TraceInv(acts), NEW n \in Places(acts)
  PROVE  HbBefore[n] = Earlier(acts, n)
  <1> DEFINE e == [m \in Places(acts) |-> Earlier(acts, m)]
  <1>1. Actions = Places(acts) /\ \A m : DirectlyBefore(m) = Directly(acts, m)
    BY TracePlaces, DirectlyIs DEF TraceInv
  <1>2. HbBefore = CHOOSE f : HbFits(acts, f)
    BY <1>1 DEF HbBefore, HbFits
  <1>3. HbFits(acts, e)
    BY EarlierFits
  <1>4. HbFits(acts, HbBefore)
    BY <1>2, <1>3
  <1>5. HbBefore[n] = e[n]
    BY <1>3, <1>4, HbOnlyOne
  <1> QED BY <1>5

LEMMA ReadyIsExact ==
  ASSUME Ready
  PROVE  HbExact
  <1> SUFFICES ASSUME NEW n \in Actions, NEW m \in 1 .. n - 1
               PROVE  HappensBefore(m, acts[n].cv) <=> m \in HbBefore[n]
    BY DEF HbExact
  <1>1. TraceInv(acts) /\ n \in Places(acts)
    BY TracePlaces DEF Ready, TraceInv
  <1>2. HbBefore[n] = Earlier(acts, n)
    BY <1>1, HbBeforeIs
  <1> QED BY <1>2 DEF Earlier, Covers, HappensBefore

(* The clock vectors of the actions are exactly happens-before: what        *)
(* get_parent_action, get_hb_from_write, acq_fence_cv and THREAD_JOIN merge *)
(* into a clock vector is neither too little nor too much, in every         *)
(* execution of every program.                                              *)
THEOREM C11HbExact == Spec => []HbExact
  <1>1. Init => Ready
    BY InitReady
  <1>2. Ready /\ [Next]_vars => Ready'
    BY StepReady
  <1>3. Ready => HbExact
    BY ReadyIsExact
  <1> QED BY <1>1, <1>2, <1>3, PTL DEF Spec
=============================================================================
