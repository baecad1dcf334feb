----------------------------- MODULE DriverProofs -----------------------------
(***************************************************************************)
(* The search of module Driver keeps its invariant: the handlers of the    *)
(* instructions, the revisits, and the actions between two runs.  From the *)
(* invariant follow the ordering of the stamps and the validity of the     *)
(* worklists, for every program, policy, bound and memory model.           *)
(***************************************************************************)
EXTENDS DriverGraphs

\* A bounded nonempty set of numbers has its maximum.
LEMMA MaxFacts ==
  ASSUME NEW n \in Nat, NEW T \in SUBSET (0 .. n), T # {}
  PROVE  Max(T) \in T /\ \A k \in T : k <= Max(T)
  <1> DEFINE U == {k \in 0 .. n : n - k \in T}
  <1>1. U \subseteq Nat /\ U # {}
    <2>1. PICK k \in 0 .. n : k \in T
      OBVIOUS
    <2>2. n - k \in 0 .. n /\ n - (n - k) = k
      BY <2>1
    <2>3. n - k \in U
      BY <2>1, <2>2
    <2>4. U \subseteq Nat
      OBVIOUS
    <2> HIDE DEF U
    <2> QED BY <2>3, <2>4
  <1>2. PICK m \in U : \A k \in U : m <= k
    BY <1>1, LeastOf
  <1>3. \A k \in T : n - k \in U
    <2>1. ASSUME NEW k \in T PROVE n - k \in U
      <3>0. k \in 0 .. n
        OBVIOUS
      <3>1. n - k \in 0 .. n /\ n - (n - k) = k
        BY <3>0
      <3> QED BY <3>1
    <2> QED BY <2>1
  <1>4. m \in 0 .. n /\ n - m \in T
    BY <1>2
  <1> HIDE DEF U
  <1>5. \A k \in T : k <= n - m
    <2>1. ASSUME NEW k \in T PROVE k <= n - m
      <3>1. m <= n - k /\ k \in 0 .. n
        BY <1>2, <1>3
      <3> QED BY <3>1, <1>4
    <2> QED BY <2>1
  <1>6. \E x \in T : \A y \in T : x >= y
    BY <1>4, <1>5
  <1>7. Max(T) \in T /\ \A y \in T : Max(T) >= y
    BY <1>6, Zenon DEF Max
  <1> QED BY <1>7

\* A nonempty set of numbers has its minimum.
LEMMA MinFacts ==
  ASSUME NEW T \in SUBSET Nat, T # {}
  PROVE  Min(T) \in T
  <1>1. \E x \in T : \A y \in T : x <= y
    BY LeastOf
  <1> QED BY <1>1, Zenon DEF Min

\* The first elements of a sequence.
LEMMA SubSeqFacts ==
  ASSUME NEW X, NEW s \in Seq(X), NEW m \in Nat, m <= Len(s), NEW o, o = SubSeq(s, 1, m)
  PROVE  o \in Seq(X) /\ Len(o) = m /\ \A i \in 1 .. Len(o) : o[i] = s[i]
  <1>0. Len(s) \in Nat
    OBVIOUS
  <1>1. Len(o) = m /\ o \in Seq(X)
    BY <1>0
  <1>2. \A i \in 1 .. m : o[i] = s[i]
    BY <1>0
  <1> QED BY <1>1, <1>2

Begins(o, s) == Len(o) \in Nat /\ Len(o) <= Len(s) /\ \A i \in 1 .. Len(o) : o[i] = s[i]

\* A sequence cut at one of its places is an initial part of it.
LEMMA InitialPart ==
  ASSUME NEW X, NEW s \in Seq(X), NEW T, T \subseteq (0 .. Len(s)), 0 \in T, NEW o, o = SubSeq(s, 1, Max(T))
  PROVE  o \in Seq(X) /\ Begins(o, s)
  <1> DEFINE n == Len(s)
             m == Max(T)
  <1>0. n \in Nat /\ T \in SUBSET (0 .. n) /\ T # {}
    OBVIOUS
  <1>s. s \in Seq(X) /\ o = SubSeq(s, 1, m) /\ n = Len(s)
    OBVIOUS
  <1>1. m \in 0 .. n
    <2> HIDE DEF n
    <2> QED BY <1>0, MaxFacts
  <1> HIDE DEF m, n
  <1>2. m \in Nat /\ m <= Len(s)
    BY <1>0, <1>1, <1>s
  <1>3. o \in Seq(X) /\ Len(o) = m /\ \A i \in 1 .. Len(o) : o[i] = s[i]
    <2>1. \A k \in Nat : k <= Len(s) =>
            /\ SubSeq(s, 1, k) \in Seq(X) /\ Len(SubSeq(s, 1, k)) = k
            /\ \A i \in 1 .. k : SubSeq(s, 1, k)[i] = s[i]
      BY <1>s, SubSeqFacts
    <2> QED BY <2>1, <1>2, <1>s, Zenon
  <1>4. Len(o) \in Nat /\ Len(o) <= Len(s)
    <2>1. Len(o) = m
      BY <1>3, Zenon
    <2> QED BY <2>1, <1>2, Zenon
  <1> QED BY <1>3, <1>4, Zenon DEF Begins

\* The elements of a sequence after a place.
LEMMA SuffixFacts ==
  ASSUME NEW X, NEW s \in Seq(X), NEW k \in Nat, k <= Len(s)
  PROVE  /\ SubSeq(s, k + 1, Len(s)) \in Seq(X) /\ Len(SubSeq(s, k + 1, Len(s))) = Len(s) - k
         /\ \A i \in 1 .. Len(s) - k : SubSeq(s, k + 1, Len(s))[i] = s[k + i]
  <1>0. Len(s) \in Nat
    OBVIOUS
  <1>1. SubSeq(s, k + 1, Len(s)) \in Seq(X) /\ Len(SubSeq(s, k + 1, Len(s))) = Len(s) - k
    BY <1>0
  <1>2. \A i \in 1 .. Len(s) - k : SubSeq(s, k + 1, Len(s))[i] = s[k + i]
    BY <1>0
  <1> QED BY <1>1, <1>2

-----------------------------------------------------------------------------
\* The stores a load may read and the places a store may take.

\* The initial store is not listed in coherence.
LEMMA NotInCo ==
  ASSUME NEW p, NEW g, Kinds(p, g), Coherence(g), NEW x \in Locs, NEW k \in 1 .. Len(g.co[x])
  PROVE  g.co[x][k] # InitEvent /\ g.co[x][k] \in Events(g)
  <1>1. g.co[x] \in Seq(Events(g)) /\ Lab(g, g.co[x][k]).kind = "W"
    BY DEF Coherence
  <1> QED BY <1>1 DEF Kinds, Lab

\* getCoherentStores returns stores of the location, none twice, and the newest last:
\* there always is a store to read.
LEMMA CoherentStores ==
  ASSUME NEW p, NEW g, Kinds(p, g), Coherence(g), NEW x \in Locs, NEW r, NEW o, o = getCoherentStores(g, x, r)
  PROVE  o \in Seq(StoresTo(g, x)) /\ Injective(o) /\ Len(o) \in Nat \ {0} /\ o[Len(o)] = co_max(g, x)
  <1> DEFINE c == g.co[x]
             m == co_max(g, x)
             T == {0} \cup {j \in DOMAIN c : isWriteRfBefore(g, c[j], r)}
             k == splitLocMOBefore(g, x, r)
             b == SubSeq(c, k + 1, Len(c))
             a == IF k = 0 THEN InitEvent ELSE c[k]
  <1>1. c \in Seq(Events(g)) /\ Injective(c) /\ Len(c) \in Nat
    BY CoherenceKept
  <1>2. m = (IF Len(c) = 0 THEN InitEvent ELSE c[Len(c)]) /\ m \in StoresTo(g, x)
    BY <1>1, CoMaxFacts DEF co_max
  <1>3. k \in 0 .. Len(c)
    <2>1. T \in SUBSET (0 .. Len(c)) /\ T # {}
      BY <1>1
    <2>2. k = Max(T)
      BY DEF splitLocMOBefore
    <2> HIDE DEF T, k, c
    <2> QED BY <1>1, <2>1, <2>2, MaxFacts
  <1>4. \A j \in 1 .. Len(c) : c[j] # InitEvent /\ c[j] \in StoresTo(g, x)
    <2>1. \A j \in 1 .. Len(c) : c[j] # InitEvent
      BY NotInCo
    <2> QED BY <2>1, StoresFacts
  <1>5. InitEvent \in StoresTo(g, x)
    BY StoresFacts
  <1>6. o = IF m[1] = r[1] /\ m[2] < r[2] THEN <<m>> ELSE <<a>> \o b
    BY DEF getCoherentStores
  <1> DEFINE S == StoresTo(g, x)
  <1>7. a \in S /\ \A j \in k + 1 .. Len(c) : a # c[j]
    BY <1>1, <1>3, <1>4, <1>5 DEF Injective
  <1> HIDE DEF m, k, a, T
  <1>8. b \in Seq(Events(g)) /\ Len(b) = Len(c) - k /\ \A i \in 1 .. Len(c) - k : b[i] = c[k + i]
    BY <1>1, <1>3, SuffixFacts
  <1> HIDE DEF b, c, S
  <1>9. CASE o = <<m>>
    <2>1. m = co_max(g, x) /\ m \in StoresTo(g, x)
      BY <1>2 DEF m
    <2>2. <<m>> \in Seq(StoresTo(g, x)) /\ Len(<<m>>) = 1 /\ <<m>>[1] = m
      BY <2>1
    <2>3. Injective(o)
      BY <1>9, <2>2 DEF Injective
    <2> QED BY <1>9, <2>1, <2>2, <2>3
  <1>10. CASE o = <<a>> \o b
    <2>1. b \in Seq(S)
      <3>1. \A i \in 1 .. Len(b) : b[i] \in S
        BY <1>1, <1>3, <1>4, <1>8 DEF S
      <3> QED BY <3>1, <1>8
    <2>2. <<a>> \in Seq(S) /\ Len(<<a>>) = 1 /\ <<a>>[1] = a
      BY <1>7
    <2> DEFINE q == <<a>>
    <2> HIDE DEF q
    <2>3. o \in Seq(S) /\ Len(o) = 1 + Len(b) /\ o[1] = a
      BY <1>10, <2>1, <2>2 DEF q
    <2>4. \A i \in 2 .. Len(o) : o[i] = b[i - 1]
      BY <1>10, <2>1, <2>2 DEF q
    <2>5. \A i \in 2 .. Len(o) : o[i] = c[k + (i - 1)] /\ k + (i - 1) \in k + 1 .. Len(c)
      BY <1>1, <1>3, <1>8, <2>3, <2>4
    <2>6. Injective(o)
      <3> SUFFICES ASSUME NEW i \in 1 .. Len(o), NEW j \in 1 .. Len(o), o[i] = o[j] PROVE i = j
        BY DEF Injective
      <3>0. Len(o) \in Nat
        BY <2>3
      <3>1. CASE i = 1 /\ j # 1
        BY <3>0, <3>1, <2>3, <2>5, <1>7
      <3>2. CASE i # 1 /\ j = 1
        BY <3>0, <3>2, <2>3, <2>5, <1>7
      <3>3. CASE i # 1 /\ j # 1
        <4>1. c[k + (i - 1)] = c[k + (j - 1)] /\ k + (i - 1) \in 1 .. Len(c) /\ k + (j - 1) \in 1 .. Len(c)
          BY <3>0, <3>3, <2>5, <1>1, <1>3
        <4>2. k + (i - 1) = k + (j - 1)
          BY <4>1, <1>1 DEF Injective
        <4> QED BY <4>2, <1>3, <3>0
      <3> QED BY <3>1, <3>2, <3>3
    <2>7. o[Len(o)] = m
      <3>1. CASE Len(b) = 0
        <4>1. k = Len(c) /\ o[Len(o)] = a
          BY <3>1, <2>3, <1>1, <1>3, <1>8
        <4> QED BY <4>1, <1>2 DEF a
      <3>2. CASE Len(b) # 0
        <4>1. Len(b) \in Nat
          BY <2>1
        <4>3. Len(o) \in 2 .. Len(o) /\ k + (Len(o) - 1) = Len(c) /\ Len(c) # 0
          BY <3>2, <4>1, <2>3, <1>1, <1>3, <1>8
        <4>2. o[Len(o)] = c[k + (Len(o) - 1)] /\ k + (Len(o) - 1) = Len(c) /\ Len(c) # 0
          BY <4>3, <2>5
        <4> QED BY <4>2, <1>2
      <3> QED BY <3>1, <3>2
    <2> QED BY <2>1, <2>3, <2>6, <2>7 DEF S, m
  <1> QED BY <1>6, <1>9, <1>10

\* getCoherentPlacings returns at least one place for a store, after a store of its
\* location.
LEMMA CoherentPlacings ==
  ASSUME NEW p, NEW g, Kinds(p, g), Coherence(g), NEW x \in Locs, NEW w, NEW rmw \in BOOLEAN,
         rmw => Lab(g, prev(w)).rf \in StoresTo(g, x), NEW o, o = getCoherentPlacings(g, x, w, rmw)
  PROVE  o \in Seq(StoresTo(g, x)) /\ Len(o) \in Nat \ {0}
  <1> DEFINE c == g.co[x]
             S == StoresTo(g, x)
             T == {0} \cup {j \in DOMAIN c : isWriteRfBefore(g, c[j], w)}
             k == splitLocMOBefore(g, x, w)
             plain == {s \in Range(c) : ~ isRMW(g, s)}
             free == Among(SubSeq(c, k + 1, Len(c)), plain)
             b == [j \in DOMAIN free |-> co_imm_pred(g, free[j])]
  <1>1. c \in Seq(Events(g)) /\ Injective(c) /\ Len(c) \in Nat
    BY CoherenceKept
  <1>2. k \in 0 .. Len(c)
    <2>1. T \in SUBSET (0 .. Len(c)) /\ T # {}
      BY <1>1
    <2>2. k = Max(T)
      BY DEF splitLocMOBefore
    <2> HIDE DEF T, k, c
    <2> QED BY <1>1, <2>1, <2>2, MaxFacts
  <1>3. o = IF rmw THEN <<Lab(g, prev(w)).rf>> ELSE b \o <<co_max(g, x)>>
    BY DEF getCoherentPlacings
  <1>4. CASE rmw
    BY <1>3, <1>4
  <1>5. CASE ~ rmw
    <2>1. free \in Seq(Events(g)) /\ \A i \in 1 .. Len(free) : free[i] \in plain
      <3> HIDE DEF k, c, plain
      <3>1. SubSeq(c, k + 1, Len(c)) \in Seq(Events(g))
        BY <1>1, <1>2, SuffixFacts
      <3> QED BY <3>1, AmongFacts
    <2>2. DOMAIN b = 1 .. Len(free) /\ Len(free) \in Nat
      BY <2>1
    <2>3. ASSUME NEW i \in 1 .. Len(free) PROVE b[i] \in S
      <3> DEFINE s == free[i]
      <3>1. s \in Range(c) /\ b[i] = co_imm_pred(g, s)
        BY <2>1, <2>2
      <3> HIDE DEF s, free, b
      <3>2. PICK j \in 1 .. Len(c) : c[j] = s
        BY <3>1, <1>1 DEF Range
      <3>3. s # InitEvent /\ s \in StoresTo(g, x) /\ Addr(g, s) = x
        BY <3>2, NotInCo, StoresFacts
      <3>4. CoIndex(g, s) \in 1 .. Len(c)
        BY <3>3, CoPrefixFacts DEF CoPrefix
      <3>5. b[i] = InitEvent \/ \E n \in 1 .. Len(c) : b[i] = c[n]
        <4>1. b[i] = IF CoIndex(g, s) = 1 THEN InitEvent ELSE c[CoIndex(g, s) - 1]
          BY <3>1, <3>3 DEF co_imm_pred
        <4> HIDE DEF c
        <4>2. CoIndex(g, s) # 1 => CoIndex(g, s) - 1 \in 1 .. Len(c)
          BY <3>4, <1>1
        <4> QED BY <4>1, <4>2
      <3> QED BY <3>5, StoresFacts
    <2> HIDE DEF free
    <2>4. b \in Seq(S)
      <3> HIDE DEF S
      <3> QED BY <2>2, <2>3
    <2>5. co_max(g, x) \in S
      BY CoMaxFacts
    <2> HIDE DEF b, S
    <2>6. b \o <<co_max(g, x)>> \in Seq(S) /\ Len(b \o <<co_max(g, x)>>) = Len(b) + 1 /\ Len(b) \in Nat
      BY <2>4, <2>5
    <2> QED BY <1>3, <1>5, <2>6 DEF S
  <1> QED BY <1>4, <1>5

\* Only the last choice may block the thread.
LEMMA ReadChoices ==
  ASSUME NEW p, NEW g, Kinds(p, g), Coherence(g), NEW x \in Locs, NEW r, NEW ins, ins.loc = x, Lab(g, r).ins = ins,
         NEW o, o = filterValuesFromAnnotSAVER(g, ins, getRfsApproximation(g, r))
  PROVE  /\ o \in Seq(StoresTo(g, x)) /\ Len(o) \in Nat
         /\ \A i \in 1 .. Len(o) : i < Len(o) /\ isAnnotated(ins) => getWriteValue(g, o[i]) = ins.ann
  <1> DEFINE S == StoresTo(g, x)
             q == getCoherentStores(g, x, r)
             u == getRfsApproximation(g, r)
  <1>1. q \in Seq(S) /\ Injective(q) /\ Len(q) \in Nat \ {0} /\ q[Len(q)] = co_max(g, x)
    BY CoherentStores
  <1>2. PICK F : u = Among(q, F)
    BY DEF getRfsApproximation
  <1>3. PICK G : /\ o = Among(u, G)
                 /\ \A s \in G : \/ ~ isAnnotated(ins)
                                 \/ s \in {u[Len(u)], co_max(g, x)}
                                 \/ valueMakesAssumeSucceed(ins, getWriteValue(g, s))
    <2> DEFINE keep(s) == \/ ~ isAnnotated(ins)
                          \/ s \in {u[Len(u)], co_max(g, x)}
                          \/ valueMakesAssumeSucceed(ins, getWriteValue(g, s))
               G == {s \in Range(u) : keep(s)}
    <2>1. o = Among(u, G)
      BY DEF filterValuesFromAnnotSAVER
    <2>2. \A s \in G : keep(s)
      OBVIOUS
    <2> QED BY <2>1, <2>2
  <1> HIDE DEF q, u, S
  <1>4. u \in Seq(S) /\ Injective(u)
    BY <1>1, <1>2, AmongThins, AmongInjective
  <1>5. o \in Seq(S)
    BY <1>3, <1>4, AmongThins
  <1>6. ASSUME NEW i \in 1 .. Len(o), i < Len(o), isAnnotated(ins)
        PROVE  getWriteValue(g, o[i]) = ins.ann
    <2>1. PICK k \in 1 .. Len(u) : k < Len(u) /\ o[i] = u[k]
      BY <1>3, <1>4, <1>6, AmongNotLast
    <2>2. PICK n \in 1 .. Len(q) : n < Len(q) /\ u[k] = q[n]
      BY <1>1, <1>2, <2>1, AmongNotLast
    <2>3. u[k] # u[Len(u)]
      <3>1. Len(u) \in Nat
        BY <1>4
      <3>2. Len(u) \in 1 .. Len(u) /\ k # Len(u)
        BY <2>1, <3>1
      <3> QED BY <3>2, <1>4 DEF Injective
    <2>4. q[n] # q[Len(q)]
      <3>2. Len(q) \in 1 .. Len(q) /\ n # Len(q)
        BY <2>2, <1>1
      <3> QED BY <3>2, <1>1 DEF Injective
    <2>5. o[i] \in G
      BY <1>3, <1>4, AmongThins, Zenon DEF Thins
    <2>6. o[i] \notin {u[Len(u)], co_max(g, x)}
      BY <2>1, <2>2, <2>3, <2>4, <1>1
    <2>7. valueMakesAssumeSucceed(ins, getWriteValue(g, o[i]))
      BY <1>3, <1>6, <2>5, <2>6
    <2> QED BY <2>7 DEF valueMakesAssumeSucceed
  <1> QED BY <1>5, <1>6 DEF S

\* What getCoherentRevisits returns are loads of the location outside the prefix.
LEMMA CoherentRevisits ==
  ASSUME NEW g, NEW w, NEW before, NEW r \in getCoherentRevisits(g, w, before)
  PROVE  r \in Events(g) /\ isRead(g, r) /\ Addr(g, r) = Addr(g, w) /\ r \notin before
  <1>1. \/ \E s : r \in getRevisitableFrom(g, w, before, s)
        \/ r \in getRevisitable(g, w, before)
    BY DEF getCoherentRevisits, NotAfterStore
  <1>2. ASSUME NEW s, r \in getRevisitableFrom(g, w, before, s)
        PROVE  r \in Events(g) /\ isRead(g, r) /\ Addr(g, r) = Addr(g, w) /\ r \notin before
    BY <1>2 DEF getRevisitableFrom, NotAfterPending, NotAfter, Readers, InView
  <1>3. ASSUME r \in getRevisitable(g, w, before)
        PROVE  r \in Events(g) /\ isRead(g, r) /\ Addr(g, r) = Addr(g, w) /\ r \notin before
    BY <1>3 DEF getRevisitable, NotAfterPending, NotAfter, isRevisitableLoad, InView
  <1> QED BY <1>1, <1>2, <1>3

\* LatestFirst arranges the events it is given, and no others.
LEMMA LatestFirstFacts ==
  ASSUME NEW g, g.ts \in Nat, NEW S
  PROVE  LatestFirst(g, S) \in Seq(S)
  <1> DEFINE all == [k \in 1 .. g.ts |-> g.ts - k]
             T == {Lab(g, e).stamp : e \in S}
             stamps == Among(all, T)
             o == [i \in DOMAIN stamps |-> CHOOSE e \in S : Lab(g, e).stamp = stamps[i]]
  <1>1. all \in Seq(Nat)
    OBVIOUS
  <1>2. stamps \in Seq(Nat) /\ \A i \in 1 .. Len(stamps) : stamps[i] \in T
    <2> HIDE DEF all, T
    <2> QED BY <1>1, AmongFacts
  <1>3. \A i \in 1 .. Len(stamps) : \E e \in S : Lab(g, e).stamp = stamps[i]
    BY <1>2
  <1> HIDE DEF stamps
  <1>4. DOMAIN o = 1 .. Len(stamps) /\ Len(stamps) \in Nat
    BY <1>2
  <1>5. ASSUME NEW i \in 1 .. Len(stamps) PROVE o[i] \in S
    BY <1>3, <1>4, <1>5, Zenon
  <1>6. o \in Seq(S)
    <2> HIDE DEF o
    <2>1. o = [i \in 1 .. Len(stamps) |-> o[i]]
      BY <1>4 DEF o
    <2> QED BY <1>4, <1>5, <2>1
  <1>7. LatestFirst(g, S) = o
    BY Zenon DEF LatestFirst, stamps
  <1> QED BY <1>6, <1>7

-----------------------------------------------------------------------------
\* In-place revisits.

\* A blocked load is the last label of its thread, but for the block.
LEMMA BlockedLoadLast ==
  ASSUME NEW p, isProgram(p), NEW g, GraphInv(p, g), NEW r \in Events(g), isRead(g, r), isBlockedLoad(g, r),
         next(r) \in Events(g)
  PROVE  /\ Lab(g, next(r)).kind = "block" /\ next(r) = LastEvent(g, r[1])
         /\ next(next(r)) \notin Events(g) /\ next(r) # InitEvent
  <1>g. Shape(p, g) /\ Kinds(p, g) /\ Blocked(g)
    BY DEF GraphInv
  <1>1. r[1] \in DOMAIN p /\ next(r)[1] = r[1] /\ next(r)[2] > 0
    BY <1>g, EventFacts, NextPrev
  <1>2. Lab(g, r).ins.op = "load"
    <2> DEFINE ins == Lab(g, r).ins
               pc == Lab(g, r).pc
    <2>1. pc \in DOMAIN p[r[1]] /\ ins = p[r[1]][pc] /\ ins.op \in AccessOps /\ ins.op # "store"
      BY <1>g DEF Kinds, Lab, isRead
    <2>2. isAnnotated(ins) /\ ins.op # "cas"
      BY DEF isBlockedLoad
    <2> HIDE DEF ins, pc
    <2>3. isAnnotated(ins) /\ ins.op \in {"load", "fai"} => ins.op = "load"
      BY <1>1, <2>1 DEF isProgram
    <2> QED BY <2>1, <2>2, <2>3 DEF AccessOps, ins
  <1>3. Lab(g, next(r)).kind = "block"
    <2>1. isAnnotated(Lab(g, r).ins) /\ getReadValue(g, r) # Lab(g, r).ins.ann
      BY DEF isBlockedLoad, valueMakesAssumeSucceed
    <2> QED BY <1>2, <2>1, <1>g DEF Blocked
  <1>4. next(next(r)) \notin Events(g)
    BY <1>3, <1>g DEF Kinds, Lab
  <1>5. r[1] \in LiveThreads(g)
    BY DEF LiveThreads
  <1>6. next(r) = LastEvent(g, r[1])
    BY <1>1, <1>4, <1>5, <1>g, LastFacts
  <1>7. next(r) # InitEvent
    BY <1>1 DEF InitEvent
  <1> QED BY <1>3, <1>4, <1>6, <1>7

\* In-place revisits of blocked loads: their blocks are removed, they read the new
\* store, and the invariant and the items of the worklist stay.
LEMMA InPlaceKeeps ==
  ASSUME NEW p, isProgram(p), NEW g, GraphInv(p, g), NoneDangles(g), NEW w, NEW x \in Locs, w \in StoresTo(g, x),
         NEW L, \A r \in L : r \in Events(g) /\ isRead(g, r) /\ Addr(g, r) = x /\ isBlockedLoad(g, r),
         NEW h, h = revisitInPlace(g, L, w)
  PROVE  GraphInv(p, h) /\ NoneDangles(h) /\ Keeps(g, h)
  <1> DEFINE S == {LastEvent(g, r[1]) : r \in {q \in L : containsPos(g, next(q))}}
             k == RemoveLabels(g, S)
             F == [e \in Events(k) |->
                     IF e \in L THEN [k.lab[e] EXCEPT !.rf = w, !.max = TRUE, !.ipr = TRUE] ELSE k.lab[e]]
  <1>g. Shape(p, g) /\ Kinds(p, g)
    BY DEF GraphInv
  <1>1. \A r \in L : next(r) \in Events(g) =>
          /\ Lab(g, next(r)).kind = "block" /\ next(r) = LastEvent(g, r[1])
          /\ next(next(r)) \notin Events(g) /\ next(r) # InitEvent
    BY BlockedLoadLast
  <1>2. \A e \in S : /\ e # InitEvent /\ next(e) \notin Events(g) /\ Lab(g, e).kind = "block"
                     /\ \E r \in L : e = next(r) /\ next(r) \in Events(g)
    BY <1>1 DEF containsPos
  <1>3. \A r \in L : next(r) \in Events(g) => next(r) \in S
    BY <1>1 DEF containsPos
  <1>h. h = [k EXCEPT !.lab = F]
    BY DEF revisitInPlace
  <1> HIDE DEF S
  <1>4. Removable(g, S) /\ \A e \in S \cap Events(g) : ~ isRead(g, e)
    BY <1>2 DEF Removable, isRead
  <1>5. Reworked(g, k) /\ Keeps(g, k) /\ Events(k) = Events(g) \ S
    BY <1>4, RemoveReworked
  <1>6. NoneDangles(k)
    <2>1. \A r \in Events(g) \ S : isRead(g, r) => ~ Dangles(g, r)
      BY DEF NoneDangles
    <2> QED BY <1>4, <2>1, RemoveReworked
  <1>7. GraphInv(p, k)
    BY <1>5, ReworkedInv
  <1>8. \A e \in Events(k) : Lab(k, e) = Lab(g, e)
    BY <1>g, RemoveFacts
  <1>9. w \in StoresTo(k, x)
    BY <1>g, RemoveFacts
  <1> HIDE DEF k
  <1>10. DOMAIN k = {"lab", "co", "ts"} /\ DOMAIN k.co = Locs /\ \A e \in Events(k) : DOMAIN k.lab[e] = LabelFields
    BY <1>7 DEF GraphInv, Shape
  <1>11. DOMAIN F = Events(k)
         /\ \A e \in Events(k) :
              F[e] = IF e \in L THEN [k.lab[e] EXCEPT !.rf = w, !.max = TRUE, !.ipr = TRUE] ELSE k.lab[e]
    OBVIOUS
  <1> HIDE DEF F
  <1>12. DOMAIN h = {"lab", "co", "ts"} /\ h.co = k.co /\ h.ts = k.ts /\ h.lab = F
    BY <1>h, <1>10
  <1>13. Events(h) = Events(k)
    BY <1>11, <1>12 DEF Events
  <1>14. \A y : StoresTo(h, y) = StoresTo(k, y)
    BY <1>12 DEF StoresTo
  <1>15. ASSUME NEW e \in Events(k) PROVE Relabelled(k, h, e)
    <2>1. CASE e \in L
      <3>1. h.lab[e] = [k.lab[e] EXCEPT !.rf = w, !.max = TRUE, !.ipr = TRUE]
        BY <2>1, <1>11, <1>12
      <3>2. DOMAIN h.lab[e] = LabelFields /\ SameLabel(k.lab[e], h.lab[e]) /\ h.lab[e].stamp = k.lab[e].stamp /\ h.lab[e].rf = w
        BY <3>1, <1>10 DEF LabelFields, SameLabel
      <3>3. next(e) \notin Events(k)
        BY <2>1, <1>3, <1>5
      <3>4. k.lab[e].ins.loc = x
        BY <2>1, <1>8 DEF Lab, Addr
      <3> QED BY <3>2, <3>3, <3>4, <1>9, <1>14 DEF Relabelled
    <2>2. CASE e \notin L
      <3>1. h.lab[e] = k.lab[e]
        BY <2>2, <1>11, <1>12
      <3> QED BY <3>1, <1>10 DEF Relabelled, SameLabel
    <2> QED BY <2>1, <2>2
  <1>16. Revised(k, h)
    <2>1. \A y \in Locs : /\ h.co[y] \in Seq(Events(k)) /\ Injective(h.co[y])
                          /\ \A n \in 1 .. Len(h.co[y]) : k.lab[h.co[y][n]].kind = "W" /\ k.lab[h.co[y][n]].ins.loc = y
      <3>1. Coherence(k) /\ h.co = k.co
        BY <1>7, <1>12 DEF GraphInv
      <3> QED BY <3>1, CoherenceKept
    <2>2. /\ DOMAIN h = {"lab", "co", "ts"} /\ DOMAIN h.co = Locs /\ h.ts = k.ts
          /\ \A y \in Locs : StoresTo(k, y) \subseteq StoresTo(h, y)
      BY <1>10, <1>12, <1>14
    <2> QED BY <2>1, <2>2, <1>13, <1>15, Zenon DEF Revised
  <1>17. Reworked(k, h) /\ Keeps(k, h)
    BY <1>7, <1>16, RevisedReworked
  <1>18. NoneDangles(h)
    <2>1. \A r \in Events(k) : isRead(k, r) /\ Dangles(k, r) => ~ Dangles(h, r)
      BY <1>6 DEF NoneDangles
    <2> QED BY <2>1, <1>7, <1>16, RevisedReworked
  <1> QED BY <1>5, <1>7, <1>17, <1>18, ReworkedInv, KeepsTrans

-----------------------------------------------------------------------------
\* Worklists, and the record the handlers work on.

\* A sequence is one over its own elements.
LEMMA OwnRange ==
  ASSUME NEW S, NEW s \in Seq(S)
  PROVE  s \in Seq(Range(s)) /\ \A x \in Range(s) : x \in S
  <1>1. Len(s) \in Nat /\ DOMAIN s = 1 .. Len(s) /\ \A j \in 1 .. Len(s) : s[j] \in S
    OBVIOUS
  <1>2. Range(s) = {s[j] : j \in DOMAIN s}
    BY DEF Range
  <1>3. \A j \in 1 .. Len(s) : s[j] \in Range(s)
    BY <1>1, <1>2
  <1>4. \A x \in Range(s) : x \in S
    BY <1>1, <1>2
  <1>5. s = [j \in 1 .. Len(s) |-> s[j]]
    BY <1>1
  <1> HIDE DEF Range
  <1>6. s \in Seq(Range(s))
    BY <1>1, <1>3, <1>5
  <1> QED BY <1>4, <1>6

\* A worklist stays valid when the graph keeps its loads and stores.
LEMMA WorklistStays ==
  ASSUME NEW p, isProgram(p), NEW g, GraphInv(p, g), NEW h, Keeps(g, h), NEW wl, NEW b, WorklistOK(g, wl, b)
  PROVE  WorklistOK(h, wl, b)
  <1>1. PICK S : wl \in Seq(S) /\ \A item \in S : ItemOK(g, item, b)
    BY DEF WorklistOK
  <1>2. \A item \in S : ItemOK(h, item, b)
    BY <1>1, ItemStays
  <1> QED BY <1>1, <1>2, OwnRange DEF WorklistOK

\* Valid items may be appended to a worklist.
LEMMA WorklistGrows ==
  ASSUME NEW g, NEW wl, NEW b, WorklistOK(g, wl, b), NEW T, NEW items \in Seq(T), \A item \in T : ItemOK(g, item, b)
  PROVE  WorklistOK(g, wl \o items, b)
  <1>1. PICK S : wl \in Seq(S) /\ \A item \in S : ItemOK(g, item, b)
    BY DEF WorklistOK
  <1>2. wl \in Seq(S \cup T) /\ items \in Seq(S \cup T)
    BY <1>1
  <1>3. wl \o items \in Seq(S \cup T)
    BY <1>2
  <1>4. \A item \in S \cup T : ItemOK(g, item, b)
    BY <1>1
  <1> QED BY <1>3, <1>4, Zenon, OwnRange DEF WorklistOK

RunFields == {"g", "wl", "moot", "prio", "resched", "error", "bug"}

IsRun(x) == DOMAIN x = RunFields

RunOK(p, x) == GraphInv(p, x.g) /\ NoneDangles(x.g) /\ WorklistOK(x.g, x.wl, ipr)

\* The item of a backward revisit is valid when it is added (calcRevisits).
LEMMA BackItemOK ==
  ASSUME NEW g, NEW w, NEW x \in Locs, w \in StoresTo(g, x), w # InitEvent, Lab(g, w).kind = "W", Addr(g, w) = x,
         NEW r \in Events(g), isRead(g, r), Addr(g, r) = x, r \notin prefixView(g, w), Lab(g, r).stamp < Lab(g, w).stamp
  PROVE  ItemOK(g, Item("back", Lab(g, w).stamp, r, w), ipr)
  BY DEF ItemOK, Item, isRead

\* w is the write that was added last, but for writes that no load reads.
LastWrite(g, w) ==
  /\ w \in Events(g) /\ Lab(g, w).kind = "W" /\ w # InitEvent
  /\ Addr(g, w) \in Locs /\ w \in StoresTo(g, Addr(g, w))
  /\ \A r \in Events(g) : isRead(g, r) => Lab(g, r).stamp < Lab(g, w).stamp

\* calcRevisits keeps the invariant, and the items it adds are valid.
LEMMA CalcRevisitsKeeps ==
  ASSUME NEW p, isProgram(p), NEW x, IsRun(x), RunOK(p, x), NEW w, LastWrite(x.g, w), NEW y, y = calcRevisits(x, w)
  PROVE  /\ IsRun(y) /\ RunOK(p, y) /\ Keeps(x.g, y.g)
         /\ y.error = x.error /\ y.bug = x.bug /\ y.resched = x.resched
  <1> DEFINE g == x.g
             loc == Addr(g, w)
             S == getCoherentRevisits(g, w, prefixView(g, w))
             loads == getRevisitableApproximation(g, w)
             B == {r \in Range(loads) : isBlockedLoad(g, r)}
             inPlace == Among(loads, B)
             h == revisitInPlace(g, Range(inPlace), w)
             u == tryOptimizeIPRs(x, w, loads)
             free == Among(loads, {r \in Range(loads) : ~ isBlockedLoad(g, r)})
             back == Among(free, {r \in Range(free) : ~ StaysRevisited(h, r, w)})
             maxi == MaximalRevisits(h, w, back)
             items == BackItems(h, w, maxi)
  <1>g. GraphInv(p, g) /\ NoneDangles(g) /\ WorklistOK(g, x.wl, ipr) /\ Shape(p, g)
    BY DEF RunOK, GraphInv
  <1>w. w \in StoresTo(g, loc) /\ loc \in Locs
    BY DEF LastWrite
  <1>1. loads \in Seq(S)
    <2>1. g.ts \in Nat
      BY <1>g DEF Shape
    <2> QED BY <2>1, LatestFirstFacts DEF getRevisitableApproximation
  <1>2. \A r \in S : r \in Events(g) /\ isRead(g, r) /\ Addr(g, r) = loc /\ r \notin prefixView(g, w)
    BY CoherentRevisits
  <1> HIDE DEF S, loads
  <1>3. inPlace \in Seq(S) /\ \A r \in Range(inPlace) : r \in S /\ r \in B
    <2> HIDE DEF B
    <2>1. inPlace \in Seq(S) /\ \A i \in 1 .. Len(inPlace) : inPlace[i] \in B /\ inPlace[i] \in S
      BY <1>1, AmongFacts
    <2> QED BY <2>1 DEF Range
  <1>4. \A r \in Range(inPlace) : r \in Events(g) /\ isRead(g, r) /\ Addr(g, r) = loc /\ isBlockedLoad(g, r)
    BY <1>2, <1>3
  <1> HIDE DEF inPlace, B
  <1>5. GraphInv(p, h) /\ NoneDangles(h) /\ Keeps(g, h)
    <2> HIDE DEF h, loc, g
    <2> DEFINE L == Range(inPlace)
    <2>1. \A r \in L : r \in Events(g) /\ isRead(g, r) /\ Addr(g, r) = loc /\ isBlockedLoad(g, r)
      BY <1>4
    <2>2. h = revisitInPlace(g, L, w)
      BY DEF h
    <2> HIDE DEF L
    <2> QED BY <1>g, <1>w, <2>1, <2>2, InPlaceKeeps
  <1>6. IsRun(u) /\ u.g = h /\ u.wl = x.wl /\ u.error = x.error /\ u.bug = x.bug /\ u.resched = x.resched
    <2>1. u = [x EXCEPT !.g = h, !.prio = IF inPlace = <<>> THEN @ ELSE Last(inPlace)]
      BY DEF tryOptimizeIPRs, inPlace, B
    <2> HIDE DEF u, h
    <2> QED BY <2>1 DEF IsRun, RunFields
  <1>7. free \in Seq(S)
    BY <1>1, AmongThins
  <1> HIDE DEF free, h
  <1>8. back \in Seq(S)
    BY <1>7, AmongThins
  <1> HIDE DEF back
  <1>9. maxi \in Seq(S)
    <2> DEFINE T == {n \in 0 .. Len(back) : \A i \in 1 .. n : isMaximalExtension(h, back[i], w)}
    <2>1. Len(back) \in Nat
      BY <1>8
    <2>2. T \subseteq (0 .. Len(back)) /\ 0 \in T
      BY <2>1
    <2>3. maxi = SubSeq(back, 1, Max(T))
      BY DEF MaximalRevisits
    <2> HIDE DEF T, maxi
    <2> QED BY <1>8, <2>2, <2>3, InitialPart, Zenon
  <1> HIDE DEF maxi
  <1>10. y = [[u EXCEPT !.wl = @ \o items] EXCEPT !.moot = @ \/ violatesAtomicity(h, w)]
    BY <1>6 DEF calcRevisits, revisitLoads, addBackRevisits, addToWorklist, loads, free, back, maxi
  <1> DEFINE T == {Item("back", Lab(h, w).stamp, r, w) : r \in S}
  <1>11. items \in Seq(T)
    <2>1. DOMAIN maxi = 1 .. Len(maxi) /\ Len(maxi) \in Nat /\ \A i \in 1 .. Len(maxi) : maxi[i] \in S
      BY <1>9
    <2>2. items = [i \in 1 .. Len(maxi) |-> Item("back", Lab(h, w).stamp, maxi[i], w)]
      BY <2>1 DEF BackItems
    <2>3. \A i \in 1 .. Len(maxi) : Item("back", Lab(h, w).stamp, maxi[i], w) \in T
      BY <2>1
    <2> HIDE DEF T, items
    <2> QED BY <2>1, <2>2, <2>3
  <1>12. \A item \in T : ItemOK(h, item, ipr)
    <2> SUFFICES ASSUME NEW r \in S PROVE ItemOK(h, Item("back", Lab(h, w).stamp, r, w), ipr)
      OBVIOUS
    <2>0. Lab(g, w).kind = "W" /\ w # InitEvent /\ w \in Events(g) /\ Lab(g, r).stamp < Lab(g, w).stamp
      BY <1>2 DEF LastWrite
    <2>s. Lab(g, r).stamp \in Nat /\ Lab(g, w).stamp \in Nat
      BY <2>0, <1>2, <1>g DEF Shape, Lab
    <2>1. /\ w \in Events(h) /\ SameLabel(Lab(g, w), Lab(h, w)) /\ Lab(h, w).stamp = Lab(g, w).stamp
          /\ w \in StoresTo(h, loc)
      <3>1. KeptUpTo(g, h, Lab(g, w).stamp)
        BY <1>5, <2>s DEF Keeps
      <3>2. Lab(g, w).stamp <= Lab(g, w).stamp
        BY <2>s
      <3> HIDE DEF g, loc
      <3> QED BY <3>1, <3>2, <2>0, <1>w DEF KeptUpTo
    <2>2. r \in Events(h) /\ SameLabel(Lab(g, r), Lab(h, r)) /\ Lab(h, r).stamp = Lab(g, r).stamp
      <3>1. KeptUpTo(g, h, Lab(g, r).stamp)
        BY <1>5, <2>s DEF Keeps
      <3>2. Lab(g, r).stamp <= Lab(g, r).stamp
        BY <2>s
      <3>3. r \in Events(g) /\ Lab(g, r).kind = "R"
        BY <1>2 DEF isRead
      <3> HIDE DEF g, loc
      <3> QED BY <3>1, <3>2, <3>3 DEF KeptUpTo
    <2>3. Lab(h, w).kind = "W" /\ Addr(h, w) = loc /\ isRead(h, r) /\ Addr(h, r) = loc
      BY <2>0, <2>1, <2>2, <1>2 DEF SameLabel, isRead, Addr
    <2>4. prefixView(h, w) = prefixView(g, w)
      BY <2>1 DEF prefixView, SameLabel
    <2> HIDE DEF g, loc
    <2> QED BY <1>2, <1>w, <2>0, <2>1, <2>2, <2>3, <2>4, BackItemOK
  <1> HIDE DEF T, items, u
  <1>13. IsRun(y) /\ y.g = h /\ y.wl = x.wl \o items /\ y.error = x.error /\ y.bug = x.bug /\ y.resched = x.resched
    BY <1>6, <1>10 DEF IsRun, RunFields
  <1>14. WorklistOK(h, x.wl \o items, ipr)
    BY <1>g, <1>5, <1>11, <1>12, WorklistStays, WorklistGrows
  <1> QED BY <1>5, <1>13, <1>14 DEF RunOK

-----------------------------------------------------------------------------
\* New labels at the end of a thread.

Grown(g, h, e) ==
  /\ Events(h) = Events(g) \cup {e} /\ h.co = g.co /\ h.ts = g.ts + 1 /\ Lab(h, e).stamp = g.ts
  /\ \A q \in Events(g) : Lab(h, q) = Lab(g, q)

\* A graph that keeps its loads, stores and coherence keeps the items of a worklist.
LEMMA SameKept ==
  ASSUME NEW p, NEW g, GraphInv(p, g), NEW h, h.co = g.co,
         \A q \in Events(g) : Lab(g, q).kind \in {"R", "W"} => q \in Events(h) /\ Lab(h, q) = Lab(g, q)
  PROVE  Keeps(g, h)
  <1>1. \A x : StoresTo(h, x) = StoresTo(g, x)
    BY DEF StoresTo
  <1> QED BY <1>1 DEF Keeps, KeptUpTo, SameLabel

\* A label that fits still fits with another view.
LEMMA NewViewFits ==
  ASSUME NEW p, NEW g, NEW e, NEW lab, LabelFits(p, g, e, lab), NEW v, NEW new, new = [lab EXCEPT !.view = v]
  PROVE  LabelFits(p, g, e, new) /\ new.view = v /\ \A f \in LabelFields \ {"view"} : new[f] = lab[f]
  <1>1. DOMAIN lab = LabelFields
    BY DEF LabelFits
  <1>2. DOMAIN new = LabelFields /\ new.view = v /\ \A f \in LabelFields \ {"view"} : new[f] = lab[f]
    BY <1>1 DEF LabelFields
  <1>3. new.kind = lab.kind /\ new.pc = lab.pc /\ new.ins = lab.ins /\ new.rf = lab.rf /\ new.par = lab.par
    BY <1>2 DEF LabelFields
  <1> QED BY <1>2, <1>3 DEF LabelFits

\* addLabelToGraph: the label comes at the end of its thread with the newest stamp.
LEMMA AddFacts ==
  ASSUME NEW p, isProgram(p), NEW g, GraphInv(p, g), NEW t, NEW lab,
         LabelFits(p, g, <<t, ThreadSize(g, t)>>, lab), SyncFit(g, <<t, ThreadSize(g, t)>>), lab.kind # "block",
         NEW h, h = addLabelToGraph(g, t, lab)
  PROVE  /\ Grown(g, h, <<t, ThreadSize(g, t)>>) /\ GraphInv(p, h) /\ Keeps(g, h)
         /\ LastEvent(h, t) = <<t, ThreadSize(g, t)>> /\ next(<<t, ThreadSize(g, t)>>) \notin Events(h)
         /\ \A f \in LabelFields \ {"view", "stamp"} : Lab(h, <<t, ThreadSize(g, t)>>)[f] = lab[f]
         /\ NoneDangles(g) /\ lab.kind # "R" => NoneDangles(h)
  <1> DEFINE e == <<t, ThreadSize(g, t)>>
             v == ViewBefore(g, e)
             new == [lab EXCEPT !.view = v]
  <1>g. Shape(p, g)
    BY DEF GraphInv
  <1>e. LabelFits(p, g, e, lab) /\ SyncFit(g, e) /\ e[1] = t /\ e[2] = ThreadSize(g, t) /\ e[2] \in Nat
    BY DEF LabelFits
  <1>h. h = InsertLabel(g, e, new)
    BY DEF addLabelToGraph
  <1> HIDE DEF e
  <1>1. LabelFits(p, g, e, new) /\ new.view = v /\ \A f \in LabelFields \ {"view"} : new[f] = lab[f]
    <2> HIDE DEF v
    <2> QED BY <1>e, NewViewFits
  <1> HIDE DEF new
  <1>2. new.kind = lab.kind
    BY <1>1 DEF LabelFields
  <1>3. ViewFits(g, e, v) /\ (e[2] = 0 => v = EmptyView) /\ v = ViewBefore(g, e)
    BY <1>e, ViewBeforeFits
  <1> HIDE DEF v
  <1>4. GraphInv(p, h)
    BY <1>h, <1>e, <1>1, <1>2, <1>3, InsertInv
  <1>5. /\ Events(h) = Events(g) \cup {e} /\ h.co = g.co /\ h.ts = g.ts + 1
        /\ \A q \in Events(g) : h.lab[q] = g.lab[q]
        /\ h.lab[e].stamp = g.ts /\ \A f \in LabelFields \ {"stamp"} : h.lab[e][f] = new[f]
    BY <1>g, <1>h, <1>1, InsertShape
  <1>6. Grown(g, h, e)
    BY <1>5 DEF Grown, Lab
  <1>7. Keeps(g, h)
    BY <1>5, SameKept DEF Lab
  <1>8. \A f \in LabelFields \ {"view", "stamp"} : Lab(h, e)[f] = lab[f]
    BY <1>1, <1>5 DEF Lab
  <1>9. next(e) \notin Events(h)
    <2>1. next(e) # e
      <3>1. next(e) = <<e[1], e[2] + 1>> /\ e[2] # e[2] + 1
        BY <1>e DEF next
      <3>2. e = <<e[1], e[2]>>
        BY DEF e
      <3> QED BY <3>1, <3>2
    <2> QED BY <1>e, <1>5, <2>1 DEF LabelFits
  <1>10. LastEvent(h, t) = e
    <2>1. Shape(p, h)
      BY <1>4 DEF GraphInv
    <2>2. t \in LiveThreads(h) /\ e \in Events(h)
      BY <1>5, <1>e DEF LiveThreads
    <2> QED BY <2>1, <2>2, <1>9, <1>e, LastFacts
  <1>11. ASSUME NoneDangles(g), lab.kind # "R" PROVE NoneDangles(h)
    <2>1. ~ isRead(h, e)
      BY <1>8, <1>11 DEF isRead, LabelFields
    <2> QED BY <1>11, <2>1, <1>6 DEF Grown, NoneDangles, isRead, Dangles
  <1> QED BY <1>4, <1>6, <1>7, <1>8, <1>9, <1>10, <1>11 DEF e

\* Where the next label of a thread that can be scheduled goes.
Slot(p, g, e) ==
  /\ e \in (DOMAIN p) \X Nat /\ e \notin Events(g) /\ next(e) \notin Events(g) /\ e[2] > 0
  /\ prev(e) \in Events(g) /\ Lab(g, prev(e)).kind \notin {"block", "finish"} /\ SyncFit(g, e)

\* A load that ends its thread up to e has read what an assume() waits for.
AwaitedRead(g, e) ==
  LET ins == Lab(g, prev(e)).ins
  IN  isRead(g, prev(e)) /\ isAnnotated(ins) /\ ins.op = "load" => getReadValue(g, prev(e)) = ins.ann

\* A thread that can be scheduled ends with a label another one may follow.
LEMMA ReadySlot ==
  ASSUME NEW p, isProgram(p), NEW g, GraphInv(p, g), NoneDangles(g), NEW t, isSchedulable(g, t)
  PROVE  /\ Slot(p, g, <<t, ThreadSize(g, t)>>) /\ prev(<<t, ThreadSize(g, t)>>) = LastEvent(g, t)
         /\ t \in LiveThreads(g) /\ t \in DOMAIN p /\ NextPc(g, t) \in Nat \ {0} /\ NextPc(g, t) - 1 \in Nat
  <1> DEFINE e == <<t, ThreadSize(g, t)>>
             q == LastEvent(g, t)
  <1>g. Shape(p, g) /\ Kinds(p, g)
    BY DEF GraphInv
  <1>1. isStarted(g, t) /\ t \in LiveThreads(g) /\ Lab(g, q).kind \notin {"finish", "block"}
    BY DEF isSchedulable, isStarted, isTerminator, LastLab
  <1>2. /\ ThreadSize(g, t) \in Nat \ {0} /\ t \in DOMAIN p
        /\ q \in Events(g) /\ q = <<t, ThreadSize(g, t) - 1>>
        /\ next(q) = <<t, ThreadSize(g, t)>> /\ next(q) \notin Events(g)
    BY <1>1, <1>g, LastFacts
  <1>3. prev(e) = q /\ e[2] > 0 /\ e[1] = t /\ e = next(q)
    BY <1>2 DEF prev
  <1>4. next(e) \notin Events(g)
    <2> DEFINE n == ThreadSize(g, t)
    <2>1. next(e) = <<t, n + 1>>
      BY DEF next
    <2>2. n \in Nat /\ n + 1 \in Nat /\ ~ n + 1 < n
      BY <1>2
    <2> HIDE DEF n
    <2>3. \A i \in Nat : <<t, i>> \in Events(g) <=> i < n
      BY <1>g, SizeFacts DEF n
    <2> QED BY <2>1, <2>2, <2>3
  <1>5. NextPc(g, t) \in Nat \ {0} /\ NextPc(g, t) - 1 \in Nat
    <2>1. Lab(g, q).pc \in Nat
      BY <1>2, <1>g DEF Shape, Lab
    <2> QED BY <2>1 DEF NextPc, LastLab
  <1>6. e \in (DOMAIN p) \X Nat /\ e \notin Events(g)
    BY <1>2, <1>3
  <1> HIDE DEF e, q
  <1>7. SyncFit(g, e)
    <2>1. isRead(g, q) => ~ Dangles(g, q)
      BY <1>2 DEF NoneDangles
    <2>2. ASSUME Lab(g, q).kind = "start"
          PROVE  Lab(g, q).par \in Events(g) /\ Lab(g, Lab(g, q).par).kind = "create"
      <3>1. q[2] = 0 /\ q # InitEvent
        BY <1>2, <2>2, <1>g DEF Kinds, Lab
      <3>2. q = <<t, 0>> /\ t # 0
        <4>1. q[1] = t /\ q = <<q[1], q[2]>>
          BY <1>2
        <4> QED BY <3>1, <4>1 DEF InitEvent
      <3> QED BY <1>1, <3>2 DEF isStarted, containsPos
    <2> QED BY <1>1, <1>2, <1>3, <2>1, <2>2 DEF SyncFit
  <1>8. Slot(p, g, e)
    BY <1>1, <1>2, <1>3, <1>4, <1>6, <1>7 DEF Slot
  <1> QED BY <1>1, <1>2, <1>3, <1>5, <1>8 DEF e, q

\* The operation of a thread that can be scheduled is that of its next instruction,
\* or its end, or the block of an assume() whose value was not read.
LEMMA NextOpFacts ==
  ASSUME NEW p, isProgram(p), NEW g, GraphInv(p, g), NoneDangles(g), NEW t, isSchedulable(g, t)
  PROVE  /\ NextOp(p, g, t) \notin {"finish", "block"} =>
              /\ NextPc(g, t) \in DOMAIN p[t] /\ p[t][NextPc(g, t)].op = NextOp(p, g, t)
         /\ NextOp(p, g, t) # "block" => AwaitedRead(g, <<t, ThreadSize(g, t)>>)
  <1> DEFINE e == <<t, ThreadSize(g, t)>>
             q == LastEvent(g, t)
             pc == NextPc(g, t)
             n == Len(p[t])
  <1>g. Shape(p, g) /\ Kinds(p, g)
    BY DEF GraphInv
  <1>1. prev(e) = q /\ t \in DOMAIN p /\ pc \in Nat \ {0} /\ t \in LiveThreads(g)
    BY ReadySlot
  <1>2. n \in Nat /\ DOMAIN p[t] = 1 .. n
    BY <1>1 DEF isProgram
  <1>3. \A k \in DOMAIN p[t] : p[t][k].op \in {"load", "store", "fai", "cas", "create", "join"}
    BY <1>1 DEF isProgram
  <1>o. NextOp(p, g, t) = IF AtEnd(p, g, t) THEN "finish" ELSE IF AtAssume(p, g, t) THEN "block" ELSE p[t][pc].op
    BY DEF NextOp, AtAssume
  <1>4. ASSUME NextOp(p, g, t) \notin {"finish", "block"}
        PROVE  pc \in DOMAIN p[t] /\ p[t][pc].op = NextOp(p, g, t)
    <2>1. ~ AtEnd(p, g, t) /\ NextOp(p, g, t) = p[t][pc].op
      BY <1>o, <1>4
    <2>2. ~ pc > n
      BY <2>1 DEF AtEnd
    <2> QED BY <2>1, <2>2, <1>1, <1>2
  <1>5. ASSUME NextOp(p, g, t) # "block" PROVE AwaitedRead(g, e)
    <2> DEFINE ins == Lab(g, q).ins
    <2> SUFFICES ASSUME isRead(g, q), isAnnotated(ins), ins.op = "load" PROVE getReadValue(g, q) = ins.ann
      BY <1>1 DEF AwaitedRead
    <2>1. /\ q \in Events(g) /\ q = <<t, ThreadSize(g, t) - 1>> /\ ThreadSize(g, t) \in Nat \ {0}
          /\ next(q) \notin Events(g)
      BY <1>1, <1>g, LastFacts
    <2>2. Lab(g, q).pc \in DOMAIN p[t] /\ ins = p[t][Lab(g, q).pc] /\ q[1] = t
      BY <2>1, <1>g DEF Kinds, Lab, isRead
    <2>3. pc = Lab(g, q).pc + 1
      BY DEF NextPc, LastLab
    <2>4. Lab(g, q).pc < n /\ p[t][pc].blk /\ p[t][pc].need = ins.ann
      <3> DEFINE k == Lab(g, q).pc
      <3>1. k \in DOMAIN p[t] /\ p[t][k] = ins /\ pc = k + 1
        BY <2>2, <2>3
      <3> HIDE DEF k, ins, pc
      <3> QED BY <1>1, <3>1 DEF isProgram, k
    <2>5. ~ pc > n
      BY <2>2, <2>3, <2>4, <1>2
    <2>6. ~ AtEnd(p, g, t)
      BY <2>4, <2>5 DEF AtEnd
    <2>7. Enabled(g, t, p[t][pc])
      BY <1>o, <1>5, <2>6 DEF AtAssume
    <2>8. p[t][pc].need = LastRead(g, t)
      BY <2>4, <2>7 DEF Enabled, isAnnotated
    <2>9. LastRead(g, t) = getReadValue(g, q)
      <3> DEFINE T == {u[2] : u \in {r \in Events(g) : r[1] = t /\ isRead(g, r)}}
                 m == ThreadSize(g, t) - 1
      <3>1. m \in Nat /\ q = <<t, m>>
        BY <2>1
      <3>2. m \in T
        BY <3>1, <2>1
      <3>3. \A u \in T : u \in 0 .. m
        <4> SUFFICES ASSUME NEW r \in Events(g), r[1] = t PROVE r[2] \in 0 .. m
          OBVIOUS
        <4>1. r = <<t, r[2]>> /\ r[2] \in Nat
          BY <1>g, EventFacts
        <4>2. r[2] < ThreadSize(g, t)
          BY <4>1, <1>g, SizeFacts
        <4> QED BY <4>1, <4>2, <2>1
      <3>4. LastRead(g, t) = IF T = {} THEN 0 ELSE getReadValue(g, <<t, Max(T)>>)
        BY DEF LastRead
      <3> HIDE DEF T, m
      <3>5. Max(T) \in T /\ \A k \in T : k <= Max(T)
        BY <3>1, <3>2, <3>3, MaxFacts
      <3> DEFINE i == Max(T)
      <3>i. i \in 0 .. m /\ m <= i
        BY <3>2, <3>3, <3>5
      <3> HIDE DEF i
      <3>j. i = m
        BY <3>1, <3>i
      <3>6. Max(T) = m
        BY <3>j DEF i
      <3> QED BY <3>1, <3>2, <3>4, <3>6
    <2> QED BY <2>4, <2>8, <2>9
  <1> QED BY <1>4, <1>5

-----------------------------------------------------------------------------
\* Stores.

\* What dropInvalid leaves is an initial part of the choices.
LEMMA DropInvalid ==
  ASSUME NEW X, NEW s \in Seq(X), NEW V, V \subseteq DOMAIN s, NEW o, o = dropInvalid(s, V)
  PROVE  o \in Seq(X) /\ Begins(o, s)
  <1>0. Len(s) \in Nat /\ DOMAIN s = 1 .. Len(s)
    OBVIOUS
  <1>1. CASE bounding
    <2> DEFINE T == {0} \cup V
    <2>1. T \subseteq (0 .. Len(s)) /\ 0 \in T
      BY <1>0
    <2>2. o = SubSeq(s, 1, Max(T))
      BY <1>1 DEF dropInvalid
    <2> HIDE DEF T
    <2> QED BY <2>1, <2>2, InitialPart, Zenon
  <1>2. CASE ~ bounding
    <2> DEFINE m == Len(s)
    <2>1. o = SubSeq(s, 1, m)
      BY <1>2 DEF dropInvalid
    <2>2. m \in Nat /\ m <= Len(s)
      BY <1>0
    <2>3. o \in Seq(X) /\ Len(o) = m /\ \A i \in 1 .. Len(o) : o[i] = s[i]
      BY <2>1, <2>2, SubSeqFacts
    <2> QED BY <2>2, <2>3 DEF Begins
  <1> QED BY <1>1, <1>2

\* A store marked by reportWarningOnce keeps all the rest.
LEMMA MarkedFacts ==
  ASSUME NEW p, isProgram(p), NEW x, IsRun(x), GraphInv(p, x.g), NEW w \in Events(x.g), Lab(x.g, w).kind = "W",
         NEW y, y = reportWarningOnce(x, w)
  PROVE  /\ IsRun(y) /\ y.wl = x.wl /\ y.bug = x.bug /\ Revised(x.g, y.g) /\ y.g.co = x.g.co
         /\ Events(y.g) = Events(x.g) /\ SameLabel(Lab(x.g, w), Lab(y.g, w)) /\ Lab(y.g, w).stamp = Lab(x.g, w).stamp
         /\ \A q \in Events(x.g) : q # w => Lab(y.g, q) = Lab(x.g, q)
  <1> DEFINE lab == [Lab(x.g, w) EXCEPT !.racy = TRUE]
             h == SetLab(x.g, w, lab)
             err == ipr /\ \E r \in ReadsAt(x.g, Addr(x.g, w)) : isAnnotated(Lab(x.g, r).ins)
  <1>1. DOMAIN Lab(x.g, w) = LabelFields
    BY DEF GraphInv, Shape, Lab
  <1>2. DOMAIN lab = LabelFields /\ SameLabel(Lab(x.g, w), lab) /\ lab.stamp = Lab(x.g, w).stamp
    BY <1>1 DEF LabelFields, SameLabel
  <1>3. y = [x EXCEPT !.g = h, !.error = err]
    BY DEF reportWarningOnce
  <1> HIDE DEF lab, err
  <1>4. Revised(x.g, h) /\ Lab(h, w) = lab /\ h.co = x.g.co /\ Events(h) = Events(x.g)
        /\ \A q \in Events(x.g) : q # w => Lab(h, q) = Lab(x.g, q)
    BY <1>2, SetLabRevised
  <1> HIDE DEF h
  <1>5. IsRun(y) /\ y.wl = x.wl /\ y.bug = x.bug /\ y.g = h
    BY <1>3 DEF IsRun, RunFields
  <1> QED BY <1>2, <1>4, <1>5

\* The item of another place for a store is valid when it is added (handleStore).
LEMMA WriteItemOK ==
  ASSUME NEW g, NEW x \in Locs, NEW w \in Events(g), Lab(g, w).kind = "W", Addr(g, w) = x,
         w \in StoresTo(g, x), NEW s \in StoresTo(g, x), s # InitEvent => Lab(g, s).stamp < Lab(g, w).stamp
  PROVE  ItemOK(g, Item("write", Lab(g, w).stamp, w, s), ipr)
  BY DEF ItemOK, Item

\* A store already in the graph takes its place in coherence, the other places become
\* items, and the loads it may revisit are found.
LEMMA StoreAddedKeeps ==
  ASSUME NEW p, isProgram(p), NEW x, IsRun(x), RunOK(p, x), NEW w \in Events(x.g), Lab(x.g, w).kind = "W",
         w # InitEvent, NEW loc \in Locs, Addr(x.g, w) = loc, w \notin StoresTo(x.g, loc),
         \A e \in Events(x.g) : e # w => Lab(x.g, e).stamp < Lab(x.g, w).stamp,
         Lab(x.g, w).ins.op \in {"fai", "cas"} => Lab(x.g, prev(w)).rf \in StoresTo(x.g, loc),
         NEW y, y = storeAdded(x, w, loc)
  PROVE  IsRun(y) /\ RunOK(p, y) /\ Keeps(x.g, y.g) /\ (x.bug => y.bug)
  <1> DEFINE g == x.g
             S == StoresTo(g, loc)
             places == getCoherentPlacings(g, loc, w, isRMW(g, w))
             marked == IF Len(places) > 1 THEN reportWarningOnce(x, w) ELSE x
             left == findConsistentCo(g, w, places)
             items == [i \in 1 .. Len(left) - 1 |-> Item("write", Lab(g, w).stamp, w, left[i])]
             pred == IF left = <<>> THEN Head(places) ELSE Last(left)
             u == [addToWorklist(marked, items) EXCEPT
                        !.g = addStoreToCOAfter(@, w, pred),
                        !.bug = @ \/ (violatesAtomicity(g, w) /\ ~ bounding),
                        !.moot = @ \/ left = <<>> \/ violatesAtomicity(g, w)]
             h == addStoreToCOAfter(marked.g, w, pred)
  <1>y. y = calcRevisits(u, w)
    BY DEF storeAdded, placeStore
  <1>g. GraphInv(p, g) /\ NoneDangles(g) /\ WorklistOK(g, x.wl, ipr) /\ Kinds(p, g) /\ Coherence(g)
    BY DEF RunOK, GraphInv
  <1>1. places \in Seq(S) /\ Len(places) \in Nat \ {0}
    <2> DEFINE rmw == isRMW(g, w)
    <2>1. rmw \in BOOLEAN /\ (rmw => Lab(g, prev(w)).rf \in S)
      BY DEF isRMW
    <2> HIDE DEF rmw, S, g
    <2>2. getCoherentPlacings(g, loc, w, rmw) \in Seq(StoresTo(g, loc)) /\ Len(getCoherentPlacings(g, loc, w, rmw)) \in Nat \ {0}
      BY <1>g, <2>1, CoherentPlacings DEF S
    <2> QED BY <2>2 DEF S, rmw
  <1> HIDE DEF places, S
  <1>2. left \in Seq(S) /\ Len(left) \in Nat
    <2> DEFINE V == {k \in DOMAIN places : isExecutionValid(addStoreToCOAfter(g, w, places[k]), w)}
    <2>1. V \subseteq DOMAIN places /\ left = dropInvalid(places, V)
      BY DEF findConsistentCo
    <2> HIDE DEF V, left
    <2> QED BY <1>1, <2>1, DropInvalid DEF Begins
  <1> HIDE DEF left
  <1>3. pred \in S
    <2>1. CASE left = <<>>
      <3>1. Head(places) = places[1] /\ places[1] \in S
        BY <1>1
      <3> QED BY <2>1, <3>1
    <2>2. CASE left # <<>>
      <3>1. Len(left) \in 1 .. Len(left)
        BY <2>2, <1>2
      <3>2. left[Len(left)] \in S
        BY <3>1, <1>2
      <3> QED BY <2>2, <3>2 DEF Last
    <2> QED BY <2>1, <2>2
  <1> HIDE DEF pred
  <1>m. /\ IsRun(marked) /\ marked.wl = x.wl /\ marked.bug = x.bug /\ marked.g.co = g.co
        /\ Events(marked.g) = Events(g) /\ SameLabel(Lab(g, w), Lab(marked.g, w))
        /\ Lab(marked.g, w).stamp = Lab(g, w).stamp
        /\ \A q \in Events(g) : q # w => Lab(marked.g, q) = Lab(g, q)
        /\ GraphInv(p, marked.g) /\ NoneDangles(marked.g) /\ Keeps(g, marked.g)
    <2>1. CASE Len(places) > 1
      <3> DEFINE v == reportWarningOnce(x, w)
      <3>1. marked = v
        BY <2>1
      <3> HIDE DEF marked
      <3>2. /\ IsRun(v) /\ v.wl = x.wl /\ v.bug = x.bug /\ Revised(g, v.g) /\ v.g.co = g.co
            /\ Events(v.g) = Events(g) /\ SameLabel(Lab(g, w), Lab(v.g, w)) /\ Lab(v.g, w).stamp = Lab(g, w).stamp
            /\ \A q \in Events(g) : q # w => Lab(v.g, q) = Lab(g, q)
        BY <1>g, MarkedFacts
      <3> HIDE DEF v, g
      <3>3. GraphInv(p, v.g) /\ Keeps(g, v.g)
        BY <1>g, <3>2, RevisedReworked, ReworkedInv
      <3>4. \A r \in Events(g) : isRead(g, r) /\ Dangles(g, r) => ~ Dangles(v.g, r)
        BY <1>g DEF NoneDangles
      <3>5. NoneDangles(v.g)
        BY <1>g, <3>2, <3>4, RevisedReworked
      <3> QED BY <3>1, <3>2, <3>3, <3>5
    <2>2. CASE ~ Len(places) > 1
      BY <2>2, <1>g, KeepsSelf DEF SameLabel
    <2> QED BY <2>1, <2>2
  <1> HIDE DEF marked
  <1>4. StoresTo(marked.g, loc) = S
    BY <1>m DEF StoresTo, S
  <1>5. Lab(marked.g, w).kind = "W" /\ Addr(marked.g, w) = loc
    BY <1>m DEF SameLabel, Addr
  <1>6. Revised(marked.g, h) /\ Events(h) = Events(g) /\ w \in StoresTo(h, loc) /\ \A e : Lab(h, e) = Lab(marked.g, e)
    <2> DEFINE k == marked.g
    <2>1. GraphInv(p, k) /\ w \in Events(k) /\ Lab(k, w).kind = "W" /\ Addr(k, w) = loc
          /\ w \notin StoresTo(k, loc) /\ pred \in StoresTo(k, loc) /\ Events(k) = Events(g)
      BY <1>m, <1>3, <1>4, <1>5 DEF S
    <2> HIDE DEF k
    <2>2. h = addStoreToCOAfter(k, w, pred)
      BY DEF k
    <2> HIDE DEF h
    <2>3. Revised(k, h) /\ Events(h) = Events(k) /\ w \in StoresTo(h, loc) /\ \A e : Lab(h, e) = Lab(k, e)
      BY <2>1, <2>2, AddToCoRevised
    <2> QED BY <2>1, <2>3 DEF k
  <1>7. u = [[marked EXCEPT !.wl = @ \o items] EXCEPT
                        !.g = h,
                        !.bug = @ \/ (violatesAtomicity(g, w) /\ ~ bounding),
                        !.moot = @ \/ left = <<>> \/ violatesAtomicity(g, w)]
    BY <1>m DEF addToWorklist, IsRun, RunFields
  <1>8. IsRun(u) /\ u.g = h /\ u.wl = x.wl \o items /\ (x.bug => u.bug)
    <2> HIDE DEF items, h, u
    <2> QED BY <1>7, <1>m DEF IsRun, RunFields
  <1> HIDE DEF h, u
  <1>9. GraphInv(p, h) /\ Keeps(g, h) /\ NoneDangles(h)
    <2>1. Keeps(marked.g, h) /\ GraphInv(p, h)
      BY <1>m, <1>6, RevisedReworked, ReworkedInv
    <2>2. \A r \in Events(marked.g) : isRead(marked.g, r) /\ Dangles(marked.g, r) => ~ Dangles(h, r)
      BY <1>m DEF NoneDangles
    <2>3. NoneDangles(h)
      BY <1>m, <1>6, <2>2, RevisedReworked
    <2> QED BY <1>g, <1>m, <2>1, <2>3, KeepsTrans
  <1>s. ASSUME NEW q \in Events(g) PROVE Lab(h, q).stamp = Lab(g, q).stamp /\ Lab(h, q).kind = Lab(g, q).kind
    BY <1>6, <1>m DEF SameLabel
  <1>10. Lab(h, w).kind = "W" /\ Addr(h, w) = loc
    BY <1>5, <1>6 DEF Addr
  <1>11. LastWrite(h, w)
    <2>1. ASSUME NEW r \in Events(h), isRead(h, r) PROVE Lab(h, r).stamp < Lab(h, w).stamp
      <3>1. r \in Events(g) /\ r # w
        BY <2>1, <1>6, <1>10 DEF isRead
      <3> QED BY <3>1, <1>s
    <2> QED BY <2>1, <1>6, <1>10 DEF LastWrite
  <1> DEFINE T == {Item("write", Lab(h, w).stamp, w, s) : s \in S}
  <1>12. \A item \in T : ItemOK(h, item, ipr)
    <2> SUFFICES ASSUME NEW s \in S PROVE ItemOK(h, Item("write", Lab(h, w).stamp, w, s), ipr)
      OBVIOUS
    <2>1. s \in StoresTo(h, loc)
      <3>1. StoresTo(marked.g, loc) \subseteq StoresTo(h, loc)
        BY <1>6 DEF Revised
      <3> QED BY <3>1, <1>4
    <2>2. s # InitEvent => Lab(h, s).stamp < Lab(h, w).stamp
      <3> SUFFICES ASSUME s # InitEvent PROVE Lab(h, s).stamp < Lab(h, w).stamp
        OBVIOUS
      <3>1. s \in Events(g) /\ s # w
        BY <1>g, StoresFacts DEF S
      <3> QED BY <3>1, <1>s
    <2> QED BY <2>1, <2>2, <1>6, <1>10, WriteItemOK
  <1>13. items \in Seq(T)
    <2>1. \A i \in 1 .. Len(left) - 1 : Item("write", Lab(h, w).stamp, w, left[i]) \in T
      BY <1>2
    <2>2. Lab(h, w).stamp = Lab(g, w).stamp
      BY <1>s
    <2>3. items = [i \in 1 .. Len(left) - 1 |-> Item("write", Lab(h, w).stamp, w, left[i])]
      BY <2>2
    <2> DEFINE f(i) == Item("write", Lab(h, w).stamp, w, left[i])
               n == IF Len(left) = 0 THEN 0 ELSE Len(left) - 1
    <2>4. n \in Nat /\ 1 .. Len(left) - 1 = 1 .. n
      BY <1>2
    <2>5. items = [i \in 1 .. n |-> f(i)] /\ \A i \in 1 .. n : f(i) \in T
      BY <2>1, <2>3, <2>4
    <2> HIDE DEF T, items, f, n
    <2> QED BY <2>4, <2>5
  <1> HIDE DEF T, items
  <1>14. WorklistOK(h, x.wl \o items, ipr)
    BY <1>g, <1>9, <1>12, <1>13, WorklistStays, WorklistGrows
  <1>15. RunOK(p, u)
    BY <1>8, <1>9, <1>14 DEF RunOK
  <1>16. IsRun(y) /\ RunOK(p, y) /\ Keeps(u.g, y.g) /\ y.bug = u.bug
    BY <1>y, <1>8, <1>11, <1>15, CalcRevisitsKeeps
  <1>17. Keeps(g, y.g)
    BY <1>g, <1>8, <1>9, <1>16, KeepsTrans
  <1> QED BY <1>8, <1>16, <1>17

\* The fields of a new label.
LEMMA NewLabelFacts ==
  ASSUME NEW kind, NEW pc, NEW ins, NEW lab, lab = NewLabel(kind, pc, ins)
  PROVE  /\ DOMAIN lab = LabelFields /\ lab.kind = kind /\ lab.pc = pc /\ lab.ins = ins
         /\ lab.rf = Bottom /\ lab.par = Bottom /\ lab.view = EmptyView
  BY DEF NewLabel, LabelFields

\* Blocked labels at the end of their threads can be removed.
LEMMA LastBlocksRemovable ==
  ASSUME NEW p, NEW g, GraphInv(p, g),
         NEW S, \A e \in S : (\E t \in LiveThreads(g) : e = LastEvent(g, t)) /\ Lab(g, e).kind = "block"
  PROVE  Removable(g, S) /\ \A e \in S \cap Events(g) : ~ isRead(g, e)
  <1>g. Shape(p, g) /\ Kinds(p, g)
    BY DEF GraphInv
  <1>1. \A e \in S \cap Events(g) : e # InitEvent
    BY <1>g DEF Kinds, Lab
  <1>2. ASSUME NEW e \in S \cap Events(g) PROVE next(e) \notin Events(g)
    <2>1. PICK t \in LiveThreads(g) : e = LastEvent(g, t)
      OBVIOUS
    <2> QED BY <2>1, <1>g, LastFacts
  <1> QED BY <1>1, <1>2 DEF Removable, isRead

\* handleStore keeps the invariant of the graph and its worklist.
LEMMA HandleStoreKeeps ==
  ASSUME NEW p, isProgram(p), NEW x, IsRun(x), RunOK(p, x), NEW t, NEW w, w = <<t, ThreadSize(x.g, t)>>,
         Slot(p, x.g, w), AwaitedRead(x.g, w),
         NEW pc \in DOMAIN p[t], NEW ins, ins = p[t][pc], ins.op \in AccessOps,
         ins.op \in {"fai", "cas"} => isRead(x.g, prev(w)) /\ Addr(x.g, prev(w)) = ins.loc,
         NEW val, NEW y, y = handleStore(x, t, pc, ins, val)
  PROVE  IsRun(y) /\ RunOK(p, y) /\ Keeps(x.g, y.g) /\ (x.bug => y.bug)
  <1> DEFINE g == x.g
             loc == ins.loc
             new == NewLabel("W", pc, ins)
             lab == [new EXCEPT !.val = val]
             h == addLabelToGraph(g, t, lab)
             S == {e \in {LastEvent(h, u) : u \in LiveThreads(h)} : isReadOptBlock(Lab(h, e)) /\ Addr(h, e) = loc}
             k == checkReconsiderReadOpts(h, loc)
             u == [x EXCEPT !.g = k]
  <1>g. GraphInv(p, g) /\ NoneDangles(g) /\ WorklistOK(g, x.wl, ipr) /\ Shape(p, g) /\ Stamps(g) /\ Coherence(g)
    BY DEF RunOK, GraphInv
  <1>w. /\ w \in (DOMAIN p) \X Nat /\ w \notin Events(g) /\ next(w) \notin Events(g) /\ w[2] > 0 /\ t \in DOMAIN p
        /\ w[1] = t /\ prev(w) \in Events(g) /\ Lab(g, prev(w)).kind \notin {"block", "finish"} /\ SyncFit(g, w)
    BY DEF Slot
  <1>l. loc \in Locs /\ pc \in Nat
    BY <1>w DEF isProgram, AccessOps
  <1>1. DOMAIN lab = LabelFields /\ lab.kind = "W" /\ lab.pc = pc /\ lab.ins = ins
    <2> HIDE DEF new
    <2>1. DOMAIN new = LabelFields /\ new.kind = "W" /\ new.pc = pc /\ new.ins = ins
      BY NewLabelFacts DEF new
    <2> QED BY <2>1 DEF LabelFields
  <1> HIDE DEF lab
  <1>2. LabelFits(p, g, w, lab)
    <2>1. w[2] # 0 /\ (isRead(g, prev(w)) => ~ Dangles(g, prev(w)))
      BY <1>w, <1>g DEF NoneDangles
    <2> QED BY <2>1, <1>1, <1>w, <1>l DEF LabelFits, AwaitedRead
  <1>3. /\ Grown(g, h, w) /\ GraphInv(p, h) /\ Keeps(g, h) /\ LastEvent(h, t) = w
        /\ \A f \in LabelFields \ {"view", "stamp"} : Lab(h, w)[f] = lab[f]
        /\ NoneDangles(h)
    <2> DEFINE e == <<t, ThreadSize(g, t)>>
    <2>e. w = e
      OBVIOUS
    <2> HIDE DEF g
    <2>1. /\ h = addLabelToGraph(g, t, lab) /\ GraphInv(p, g)
          /\ LabelFits(p, g, e, lab) /\ SyncFit(g, e) /\ lab.kind # "block"
      BY <2>e, <1>g, <1>w, <1>1, <1>2
    <2> HIDE DEF h, S, k, u, new
    <2>2. Grown(g, h, e) /\ GraphInv(p, h) /\ Keeps(g, h) /\ LastEvent(h, t) = e
      BY <2>1, AddFacts
    <2>3. \A f \in LabelFields \ {"view", "stamp"} : Lab(h, e)[f] = lab[f]
      BY <2>1, AddFacts
    <2>4. lab.kind # "R"
      BY <1>1
    <2>5. NoneDangles(g)
      BY <1>g
    <2>6. NoneDangles(h)
      BY <2>1, <2>4, <2>5, AddFacts
    <2> HIDE DEF e
    <2> QED BY <2>e, <2>2, <2>3, <2>6
  <1>4. Lab(h, w).kind = "W" /\ Lab(h, w).ins = ins
    BY <1>1, <1>3 DEF LabelFields
  <1> HIDE DEF h
  <1>5. Removable(h, S) /\ \A e \in S \cap Events(h) : ~ isRead(h, e)
    <2>1. \A e \in S : (\E v \in LiveThreads(h) : e = LastEvent(h, v)) /\ Lab(h, e).kind = "block"
      BY DEF isReadOptBlock
    <2> HIDE DEF S
    <2> QED BY <2>1, <1>3, LastBlocksRemovable
  <1>6. k = RemoveLabels(h, S)
    BY DEF checkReconsiderReadOpts
  <1>7. \A e \in S : Lab(h, e).kind = "block"
    BY DEF isReadOptBlock
  <1> HIDE DEF k, S
  <1>8. GraphInv(p, k) /\ Keeps(h, k) /\ Events(k) = Events(h) \ S /\ NoneDangles(k)
    <2>1. \A r \in Events(h) \ S : isRead(h, r) => ~ Dangles(h, r)
      BY <1>3 DEF NoneDangles
    <2>2. Reworked(h, k) /\ Keeps(h, k) /\ Events(k) = Events(h) \ S
      BY <1>3, <1>5, <1>6, RemoveReworked
    <2>3. NoneDangles(k)
      BY <2>1, <1>3, <1>5, <1>6, RemoveReworked
    <2> QED BY <2>2, <2>3, <1>3, ReworkedInv
  <1>9. (\A e \in Events(k) : Lab(k, e) = Lab(h, e)) /\ \A z : StoresTo(k, z) = StoresTo(h, z)
    <2>1. Shape(p, h)
      BY <1>3 DEF GraphInv
    <2> QED BY <2>1, <1>6, RemoveFacts
  <1>10. w \in Events(k) /\ Lab(k, w) = Lab(h, w)
    BY <1>3, <1>4, <1>7, <1>8, <1>9 DEF Grown
  <1>11. StoresTo(k, loc) = StoresTo(g, loc)
    <2>1. h.co = g.co
      BY <1>3 DEF Grown
    <2>2. StoresTo(h, loc) = StoresTo(g, loc)
      BY <2>1 DEF StoresTo
    <2> QED BY <2>2, <1>9
  <1>12. w \notin StoresTo(k, loc)
    BY <1>11, <1>g, <1>l, <1>w, NotBottom
  <1>13. \A e \in Events(k) : e # w => Lab(k, e).stamp < Lab(k, w).stamp
    BY <1>3, <1>8, <1>9, <1>10, <1>g DEF Grown, Stamps
  <1>14. ASSUME ins.op \in {"fai", "cas"} PROVE Lab(k, prev(w)).rf \in StoresTo(k, loc)
    <2>1. isRead(g, prev(w)) /\ Addr(g, prev(w)) = loc
      BY <1>14
    <2>2. Lab(g, prev(w)).rf \in StoresTo(g, loc)
      BY <2>1, <1>g, <1>w, RfInGraph DEF NoneDangles
    <2>3. Lab(h, prev(w)) = Lab(g, prev(w)) /\ prev(w) \in Events(h)
      BY <1>w, <1>3 DEF Grown
    <2>4. prev(w) \in Events(k)
      BY <2>1, <2>3, <1>7, <1>8 DEF isRead
    <2> QED BY <2>2, <2>3, <2>4, <1>9, <1>11
  <1>15. y = storeAdded(u, w, loc)
    <2>1. y = storeAdded(u, LastEvent(h, t), loc)
      BY Zenon DEF handleStore, lab, h, k
    <2> QED BY <2>1, <1>3
  <1>16. IsRun(u) /\ u.g = k /\ u.wl = x.wl /\ u.bug = x.bug
    BY DEF IsRun, RunFields
  <1> HIDE DEF u, new
  <1>17. Keeps(g, k)
    BY <1>g, <1>3, <1>8, KeepsTrans
  <1>18. RunOK(p, u)
    <2>1. WorklistOK(k, x.wl, ipr)
      BY <1>g, <1>17, WorklistStays
    <2> QED BY <2>1, <1>8, <1>16 DEF RunOK
  <1>19. Addr(k, w) = loc /\ Lab(k, w).kind = "W" /\ Lab(k, w).ins = ins /\ w # InitEvent
    BY <1>4, <1>10, <1>g, <1>w DEF Addr, Shape
  <1>20. IsRun(y) /\ RunOK(p, y) /\ Keeps(k, y.g) /\ (u.bug => y.bug)
    <2> HIDE DEF loc
    <2> QED BY <1>l, <1>10, <1>12, <1>13, <1>14, <1>15, <1>16, <1>18, <1>19, StoreAddedKeeps
  <1> QED BY <1>g, <1>16, <1>17, <1>20, KeepsTrans

-----------------------------------------------------------------------------
\* Loads.

\* blockThread adds a blocked label at the end of a thread.
LEMMA BlockFacts ==
  ASSUME NEW p, isProgram(p), NEW g, GraphInv(p, g), NoneDangles(g), NEW t, NEW e, e = <<t, ThreadSize(g, t)>>,
         e \in (DOMAIN p) \X Nat, e \notin Events(g), next(e) \notin Events(g), e[2] > 0,
         prev(e) \in Events(g), Lab(g, prev(e)).kind \notin {"block", "finish"}, NEW pc \in Nat, NEW ins,
         NEW h, h = blockThread(g, t, NewLabel("block", pc, ins))
  PROVE  GraphInv(p, h) /\ NoneDangles(h) /\ Grown(g, h, e) /\ Keeps(g, h)
  <1> DEFINE lab == NewLabel("block", pc, ins)
  <1>g. Shape(p, g)
    BY DEF GraphInv
  <1>1. DOMAIN lab = LabelFields /\ lab.kind = "block" /\ lab.pc = pc /\ lab.view = EmptyView
    BY NewLabelFacts
  <1>2. h = InsertLabel(g, e, lab)
    BY DEF blockThread
  <1> HIDE DEF lab
  <1>3. LabelFits(p, g, e, lab)
    <2>1. e[2] # 0 /\ (isRead(g, prev(e)) => ~ Dangles(g, prev(e)))
      BY DEF NoneDangles
    <2> QED BY <1>1, <2>1 DEF LabelFits
  <1>4. GraphInv(p, h)
    BY <1>1, <1>2, <1>3, InsertInv
  <1>5. /\ Events(h) = Events(g) \cup {e} /\ h.co = g.co /\ h.ts = g.ts + 1
        /\ \A q \in Events(g) : h.lab[q] = g.lab[q]
        /\ h.lab[e].stamp = g.ts /\ \A f \in LabelFields \ {"stamp"} : h.lab[e][f] = lab[f]
    BY <1>g, <1>2, <1>3, InsertShape
  <1>6. Grown(g, h, e)
    BY <1>5 DEF Grown, Lab
  <1>7. Keeps(g, h)
    BY <1>5, SameKept DEF Lab
  <1>8. ~ isRead(h, e)
    BY <1>1, <1>5 DEF isRead, Lab, LabelFields
  <1>9. NoneDangles(h)
    BY <1>6, <1>8 DEF Grown, NoneDangles, isRead, Dangles
  <1> QED BY <1>4, <1>6, <1>7, <1>9

\* removeCASRead turns a compare-and-swap that has nothing to read into a block.
LEMMA RemoveCASReadFacts ==
  ASSUME NEW p, isProgram(p), NEW g, GraphInv(p, g), NEW r \in Events(g), isRead(g, r), next(r) \notin Events(g),
         \A q \in Events(g) : isRead(g, q) /\ q # r => ~ Dangles(g, q), NEW k, k = removeCASRead(g, r)
  PROVE  /\ GraphInv(p, k) /\ NoneDangles(k) /\ k.co = g.co /\ Events(k) = Events(g)
         /\ \A q \in Events(g) : q # r => Lab(k, q) = Lab(g, q)
  <1> DEFINE t == r[1]
             h == removeLast(g, t)
             pc == Lab(g, r).pc - 1
             ins == Lab(g, r).ins
  <1>g. Shape(p, g) /\ Kinds(p, g)
    BY DEF GraphInv
  <1>1. r = <<t, r[2]>> /\ r[2] \in Nat /\ r[2] # 0 /\ t \in DOMAIN p
    BY <1>g, EventFacts DEF Kinds, Lab, isRead
  <1>p. prev(r) \in Events(g) /\ Lab(g, prev(r)).kind \notin {"block", "finish"} /\ prev(r) = <<t, r[2] - 1>> /\ prev(r) # r
    <2>1. prev(r) \in Events(g) /\ next(prev(r)) = r /\ prev(r) = <<t, r[2] - 1>>
      BY <1>1, <1>g, EventFacts, NextPrev DEF prev
    <2>2. prev(r) # r
      BY <1>1, <2>1
    <2>3. Lab(g, prev(r)).kind # "finish"
      BY <2>1 DEF GraphInv, Synced, BeginEnd
    <2> QED BY <2>1, <2>2, <2>3, <1>g DEF Kinds, Lab
  <1>2. LastEvent(g, t) = r
    <2>1. t \in LiveThreads(g)
      BY DEF LiveThreads
    <2> QED BY <2>1, <1>g, LastFacts
  <1>3. pc \in Nat
    <2>1. Lab(g, r).pc \in DOMAIN p[t]
      BY <1>g DEF Kinds, Lab, isRead
    <2>2. DOMAIN p[t] = 1 .. Len(p[t]) /\ Len(p[t]) \in Nat
      BY <1>1 DEF isProgram
    <2> QED BY <2>1, <2>2
  <1> HIDE DEF pc, ins
  <1>4. h = RemoveLabels(g, {r})
    BY <1>2 DEF removeLast
  <1>5. k = blockThread(h, t, NewLabel("block", pc, ins))
    BY DEF removeCASRead, pc, ins
  <1> HIDE DEF h
  <1>6. Removable(g, {r})
    BY <1>1 DEF Removable, isRead, InitEvent
  <1>7. Reworked(g, h) /\ Events(h) = Events(g) \ {r}
    BY <1>4, <1>6, RemoveReworked
  <1>8. NoneDangles(h)
    <2>1. \A q \in Events(g) \ {r} : isRead(g, q) => ~ Dangles(g, q)
      OBVIOUS
    <2> QED BY <1>4, <1>6, <2>1, RemoveReworked
  <1>9. GraphInv(p, h)
    BY <1>7, ReworkedInv
  <1>10. h.co = g.co /\ \A q \in Events(h) : Lab(h, q) = Lab(g, q)
    BY <1>g, <1>4, RemoveFacts
  <1>11. r = <<t, ThreadSize(h, t)>>
    <2> DEFINE n == ThreadSize(h, t)
               m == r[2]
    <2>1. n \in Nat /\ \A i \in Nat : <<t, i>> \in Events(h) <=> i < n
      BY <1>9, SizeFacts DEF GraphInv
    <2>2. r = <<t, m>> /\ m \in Nat /\ m # 0 /\ r \notin Events(h) /\ <<t, m - 1>> \in Events(h)
      BY <1>1, <1>p, <1>7
    <2> HIDE DEF n, m
    <2>3. m - 1 \in Nat
      BY <2>2
    <2>4. ~ m < n /\ m - 1 < n
      BY <2>1, <2>2, <2>3
    <2>5. m = n
      BY <2>1, <2>2, <2>4
    <2> QED BY <2>2, <2>5 DEF n
  <1>12. /\ r \in (DOMAIN p) \X Nat /\ r \notin Events(h) /\ next(r) \notin Events(h) /\ r[2] > 0
         /\ prev(r) \in Events(h) /\ Lab(h, prev(r)).kind \notin {"block", "finish"}
    BY <1>1, <1>p, <1>7, <1>10
  <1>13. GraphInv(p, k) /\ NoneDangles(k) /\ Grown(h, k, r)
    <2> HIDE DEF t
    <2> QED BY <1>3, <1>5, <1>8, <1>9, <1>11, <1>12, BlockFacts
  <1> QED BY <1>7, <1>10, <1>13 DEF Grown

\* What a handler leaves behind when it did not fail.
Handled(p, y) ==
  /\ GraphInv(p, y.g) /\ WorklistOK(y.g, y.wl, ipr)
  /\ y.error \/ NoneDangles(y.g)

\* The item of another store for a load is valid when it is added (handleLoad).
LEMMA ReadItemOK ==
  ASSUME NEW g, NEW x \in Locs, NEW r \in Events(g), Lab(g, r).kind = "R", Addr(g, r) = x,
         NEW s \in StoresTo(g, x), s # InitEvent => Lab(g, s).stamp < Lab(g, r).stamp,
         isAnnotated(Lab(g, r).ins) => getWriteValue(g, s) = Lab(g, r).ins.ann
  PROVE  ItemOK(g, Item("read", Lab(g, r).stamp, r, s), ipr)
  BY DEF ItemOK, Item

\* A load r that was just added and reads nothing yet.
NewLoad(p, g, r, ins) ==
  /\ GraphInv(p, g) /\ r \in Events(g) /\ Lab(g, r).kind = "R" /\ Lab(g, r).ins = ins /\ next(r) \notin Events(g)
  /\ ins.loc \in Locs
  /\ \A q \in Events(g) : q # r => Lab(g, q).stamp < Lab(g, r).stamp /\ (isRead(g, q) => ~ Dangles(g, q))

\* A new load reads the newest of its choices, the others become items; when only a
\* value that blocks an assume() is left the thread is blocked.
LEMMA ReadNewestKeeps ==
  ASSUME NEW p, isProgram(p), NEW x, IsRun(x), NEW r, NEW ins, NewLoad(p, x.g, r, ins),
         WorklistOK(x.g, x.wl, ipr),
         NEW stores, stores = filterValuesFromAnnotSAVER(x.g, ins, getRfsApproximation(x.g, r)), stores # <<>>,
         NEW y, y = readNewest(x, r, stores)
  PROVE  /\ GraphInv(p, y.g) /\ NoneDangles(y.g) /\ WorklistOK(y.g, y.wl, ipr)
         /\ Events(y.g) = Events(x.g) /\ SameLabel(Lab(x.g, r), Lab(y.g, r))
  <1> DEFINE g == x.g
             loc == ins.loc
             S == StoresTo(g, loc)
             left == findConsistentRf(g, r, stores)
             items == [i \in 1 .. Len(left) - 1 |-> Item("read", Lab(g, r).stamp, r, left[i])]
             s == IF left = <<>> THEN Head(stores) ELSE Last(left)
             k == setRf(g, r, s)
  <1>g. /\ GraphInv(p, g) /\ Kinds(p, g) /\ Coherence(g) /\ loc \in Locs /\ Shape(p, g) /\ r \in Events(g)
        /\ Lab(g, r).kind = "R" /\ Lab(g, r).ins = ins /\ next(r) \notin Events(g)
    BY DEF NewLoad, GraphInv
  <1>y. y.g = k /\ y.wl = x.wl \o items
    <2>1. y = [[x EXCEPT !.wl = @ \o items] EXCEPT
           !.g = k,
           !.moot = @ \/ left = <<>>,
           !.bug = @ \/ stores = <<>>,
           !.resched = IF @ = r THEN InitEvent ELSE @]
      BY DEF readNewest, addToWorklist, IsRun, RunFields
    <2> HIDE DEF k, items
    <2> QED BY <2>1 DEF IsRun, RunFields
  <1>1. /\ stores \in Seq(S) /\ Len(stores) \in Nat
        /\ \A i \in 1 .. Len(stores) : i < Len(stores) /\ isAnnotated(ins) => getWriteValue(g, stores[i]) = ins.ann
    <2> HIDE DEF g, loc, S
    <2>1. /\ stores \in Seq(StoresTo(g, loc)) /\ Len(stores) \in Nat
          /\ \A i \in 1 .. Len(stores) : i < Len(stores) /\ isAnnotated(ins) => getWriteValue(g, stores[i]) = ins.ann
      <3>1. stores = filterValuesFromAnnotSAVER(g, ins, getRfsApproximation(g, r)) /\ ins.loc = loc
        BY DEF g, loc
      <3> QED BY <1>g, <3>1, ReadChoices
    <2> QED BY <2>1 DEF S
  <1> HIDE DEF S
  <1>2. left \in Seq(S) /\ Begins(left, stores)
    <2> DEFINE V == {n \in DOMAIN stores : isExecutionValid(setRf(g, r, stores[n]), r)}
    <2>1. V \subseteq DOMAIN stores /\ left = dropInvalid(stores, V)
      BY DEF findConsistentRf
    <2> HIDE DEF V, left
    <2> QED BY <1>1, <2>1, DropInvalid
  <1> HIDE DEF left
  <1>b. Len(left) \in Nat /\ Len(left) <= Len(stores) /\ \A i \in 1 .. Len(left) : left[i] = stores[i]
    BY <1>2 DEF Begins
  <1>3. s \in S
    <2>1. CASE left = <<>>
      <3>1. Head(stores) = stores[1] /\ stores[1] \in S
        BY <1>1
      <3> QED BY <2>1, <3>1
    <2>2. CASE left # <<>>
      <3>1. Len(left) \in 1 .. Len(left)
        BY <2>2, <1>2, <1>b
      <3>2. left[Len(left)] \in S
        BY <3>1, <1>2
      <3> QED BY <2>2, <3>2 DEF Last
    <2> QED BY <2>1, <2>2
  <1> HIDE DEF s
  <1>4. Revised(g, k) /\ k.co = g.co /\ Events(k) = Events(g) /\ SameLabel(Lab(g, r), Lab(k, r))
        /\ Lab(k, r).rf = s /\ Lab(k, r).stamp = Lab(g, r).stamp
        /\ \A q \in Events(g) : q # r => Lab(k, q) = Lab(g, q)
    <2> DEFINE lab == [Lab(g, r) EXCEPT !.rf = s]
    <2>1. DOMAIN Lab(g, r) = LabelFields
      BY <1>g DEF Shape, Lab
    <2>2. DOMAIN lab = LabelFields /\ SameLabel(Lab(g, r), lab) /\ lab.stamp = Lab(g, r).stamp /\ lab.rf = s
      BY <2>1 DEF LabelFields, SameLabel
    <2>3. k = SetLab(g, r, lab)
      BY DEF setRf
    <2> HIDE DEF lab, k
    <2>4. s \in StoresTo(g, Addr(g, r))
      BY <1>3, <1>g DEF S, Addr
    <2> HIDE DEF g
    <2>5. /\ Revised(g, k) /\ Lab(k, r) = lab /\ k.co = g.co /\ Events(k) = Events(g)
          /\ \A q \in Events(g) : q # r => Lab(k, q) = Lab(g, q)
      BY <1>g, <2>2, <2>3, <2>4, SetLabRevised
    <2> QED BY <2>2, <2>5
  <1> HIDE DEF k
  <1>5. GraphInv(p, k) /\ Keeps(g, k)
    BY <1>g, <1>4, RevisedReworked, ReworkedInv
  <1>6. NoneDangles(k)
    <2>1. s # Bottom
      BY <1>g, <1>3, NotBottom DEF S
    <2>2. \A q \in Events(g) : isRead(g, q) /\ Dangles(g, q) => ~ Dangles(k, q)
      BY <2>1, <1>4 DEF NewLoad, Dangles
    <2> HIDE DEF g
    <2> QED BY <1>g, <1>4, <2>2, RevisedReworked
  <1>7. StoresTo(k, loc) = S
    BY <1>4 DEF StoresTo, S
  <1> DEFINE T == {Item("read", Lab(k, r).stamp, r, left[i]) : i \in {n \in 1 .. Len(left) : n < Len(left)}}
  <1>8. \A item \in T : ItemOK(k, item, ipr)
    <2> SUFFICES ASSUME NEW i \in 1 .. Len(left), i < Len(left)
                 PROVE  ItemOK(k, Item("read", Lab(k, r).stamp, r, left[i]), ipr)
      OBVIOUS
    <2> DEFINE u == left[i]
    <2>1. u \in S
      BY <1>2
    <2>2. u = stores[i] /\ i \in 1 .. Len(stores) /\ i < Len(stores)
      BY <1>1, <1>b
    <2>3. isAnnotated(ins) => getWriteValue(g, u) = ins.ann
      BY <2>2, <1>1
    <2> HIDE DEF u
    <2>4. u \in Events(g) /\ (u # InitEvent => u # r)
      <3>1. u \in Events(g) /\ (u # InitEvent => Lab(g, u).kind = "W")
        BY <2>1, <1>g, StoresFacts, NotBottom DEF S
      <3> QED BY <3>1, <1>g
    <2>5. getWriteValue(k, u) = getWriteValue(g, u)
      BY <2>4, <1>4 DEF getWriteValue
    <2>6. u # InitEvent => Lab(k, u).stamp < Lab(k, r).stamp
      BY <2>4, <1>4 DEF NewLoad
    <2>7. Lab(k, r).ins = ins /\ Lab(k, r).kind = "R" /\ Addr(k, r) = loc /\ r \in Events(k)
      BY <1>4, <1>g DEF SameLabel, Addr
    <2>8. u \in StoresTo(k, loc)
      BY <1>7, <2>1
    <2> HIDE DEF loc
    <2>9. ItemOK(k, Item("read", Lab(k, r).stamp, r, u), ipr)
      BY <1>g, <2>3, <2>5, <2>6, <2>7, <2>8, ReadItemOK
    <2> QED BY <2>9 DEF u
  <1>9. items \in Seq(T)
    <2> DEFINE f(i) == Item("read", Lab(k, r).stamp, r, left[i])
               n == IF Len(left) = 0 THEN 0 ELSE Len(left) - 1
    <2>1. n \in Nat /\ 1 .. Len(left) - 1 = 1 .. n
      BY <1>b
    <2>2. \A i \in 1 .. n : f(i) \in T
      <3> SUFFICES ASSUME NEW i \in 1 .. n PROVE f(i) \in T
        OBVIOUS
      <3>1. i \in 1 .. Len(left) /\ i < Len(left)
        BY <1>b
      <3> HIDE DEF n
      <3> QED BY <3>1
    <2>3. items = [i \in 1 .. n |-> f(i)]
      BY <2>1, <1>4
    <2> HIDE DEF T, items, f, n
    <2> QED BY <2>1, <2>2, <2>3
  <1> HIDE DEF T, items, g
  <1>10. WorklistOK(g, x.wl, ipr)
    BY DEF g
  <1>11. WorklistOK(k, x.wl \o items, ipr)
    BY <1>g, <1>5, <1>8, <1>9, <1>10, WorklistStays, WorklistGrows
  <1> QED BY <1>4, <1>5, <1>6, <1>11, <1>y DEF g

-----------------------------------------------------------------------------
\* A failed run stays failed.

StaysBad(x, y) == IsRun(y) /\ (x.bug => y.bug)

\* calcRevisits reports no error and hides none.
LEMMA CalcBug ==
  ASSUME NEW x, IsRun(x), NEW w, NEW y, y = calcRevisits(x, w)
  PROVE  IsRun(y) /\ y.bug = x.bug /\ y.error = x.error
  <1> DEFINE loads == getRevisitableApproximation(x.g, w)
             u == tryOptimizeIPRs(x, w, loads)
             free == Among(loads, {r \in Range(loads) : ~ isBlockedLoad(x.g, r)})
             items == BackItems(u.g, w, MaximalRevisits(u.g, w, Among(free, {r \in Range(free) : ~ StaysRevisited(u.g, r, w)})))
  <1>1. IsRun(u) /\ u.bug = x.bug /\ u.error = x.error
    BY DEF tryOptimizeIPRs, IsRun, RunFields
  <1>2. y = [[u EXCEPT !.wl = @ \o items] EXCEPT !.moot = @ \/ violatesAtomicity(u.g, w)]
    BY Zenon DEF calcRevisits, revisitLoads, addBackRevisits, addToWorklist
  <1> HIDE DEF u, items
  <1> QED BY <1>1, <1>2 DEF IsRun, RunFields

\* handleStore hides no failed BUG_ON.
LEMMA StoreBug ==
  ASSUME NEW x, IsRun(x), NEW t, NEW pc, NEW ins, NEW val, NEW y, y = handleStore(x, t, pc, ins, val)
  PROVE  StaysBad(x, y)
  <1> DEFINE h == addLabelToGraph(x.g, t, [NewLabel("W", pc, ins) EXCEPT !.val = val])
             w == LastEvent(h, t)
             v == [x EXCEPT !.g = checkReconsiderReadOpts(h, ins.loc)]
             places == getCoherentPlacings(v.g, ins.loc, w, isRMW(v.g, w))
             m == IF Len(places) > 1 THEN reportWarningOnce(v, w) ELSE v
             left == findConsistentCo(v.g, w, places)
             items == [i \in 1 .. Len(left) - 1 |-> Item("write", Lab(v.g, w).stamp, w, left[i])]
             u == [addToWorklist(m, items) EXCEPT
                        !.g = addStoreToCOAfter(@, w, IF left = <<>> THEN Head(places) ELSE Last(left)),
                        !.bug = @ \/ (violatesAtomicity(v.g, w) /\ ~ bounding),
                        !.moot = @ \/ left = <<>> \/ violatesAtomicity(v.g, w)]
  <1>1. y = calcRevisits(u, w)
    BY Zenon DEF handleStore, storeAdded, placeStore
  <1>2. IsRun(v) /\ v.bug = x.bug
    BY DEF IsRun, RunFields
  <1> HIDE DEF v
  <1>3. IsRun(m) /\ m.bug = x.bug
    <2>1. CASE Len(places) > 1
      <3>1. m = reportWarningOnce(v, w)
        BY <2>1
      <3> HIDE DEF m, places
      <3> QED BY <1>2, <3>1 DEF reportWarningOnce, IsRun, RunFields
    <2>2. CASE ~ Len(places) > 1
      BY <1>2, <2>2
    <2> QED BY <2>1, <2>2
  <1> HIDE DEF m
  <1>4. IsRun(u) /\ (x.bug => u.bug)
    <2> HIDE DEF items, left, places, w
    <2> QED BY <1>3 DEF addToWorklist, IsRun, RunFields
  <1> HIDE DEF u, w
  <1>5. IsRun(y) /\ y.bug = u.bug
    BY <1>1, <1>4, CalcBug
  <1> QED BY <1>4, <1>5 DEF StaysBad

\* handleLoad hides no failed BUG_ON.
LEMMA LoadBug ==
  ASSUME NEW x, IsRun(x), NEW t, NEW ins, NEW y, y = handleLoad(x, t, ins)
  PROVE  StaysBad(x, y)
  <1> DEFINE h == addLabelToGraph(x.g, t, NewLabel("R", NextPc(x.g, t), ins))
             r == LastEvent(h, t)
             u == [x EXCEPT !.g = h]
  <1>1. y = loadAdded(u, r, ins)
    BY DEF handleLoad
  <1>2. IsRun(u) /\ u.bug = x.bug
    BY DEF IsRun, RunFields
  <1> HIDE DEF u, h, r
  <1>3. CASE y = [u EXCEPT !.error = TRUE]
    BY <1>2, <1>3 DEF StaysBad, IsRun, RunFields
  <1>4. CASE y = [u EXCEPT !.g = removeCASRead(@, r)]
    BY <1>2, <1>4 DEF StaysBad, IsRun, RunFields
  <1>5. ASSUME NEW stores, y = readNewest(u, r, stores) PROVE StaysBad(x, y)
    <2> DEFINE left == findConsistentRf(u.g, r, stores)
               items == [i \in 1 .. Len(left) - 1 |-> Item("read", Lab(u.g, r).stamp, r, left[i])]
    <2>1. y = [addToWorklist(u, items) EXCEPT
           !.g = setRf(@, r, IF left = <<>> THEN Head(stores) ELSE Last(left)),
           !.moot = @ \/ left = <<>>,
           !.bug = @ \/ stores = <<>>,
           !.resched = IF @ = r THEN InitEvent ELSE @]
      BY <1>5 DEF readNewest
    <2> HIDE DEF left, items
    <2> QED BY <1>2, <2>1 DEF addToWorklist, StaysBad, IsRun, RunFields
  <1> QED BY <1>1, <1>3, <1>4, <1>5 DEF loadAdded

\* handleRMW hides no failed BUG_ON.
LEMMA RMWBug ==
  ASSUME NEW x, IsRun(x), NEW t, NEW ins, NEW y, y = handleRMW(x, t, ins)
  PROVE  StaysBad(x, y)
  <1> DEFINE u == handleLoad(x, t, ins)
  <1>1. StaysBad(x, u)
    BY LoadBug
  <1> HIDE DEF u
  <1>2. y = u \/ y = handleStore(u, t, LastLab(u.g, t).pc, ins, RMWResult(ins, getReadValue(u.g, LastEvent(u.g, t))))
    BY Zenon DEF handleRMW, finishRMW, u
  <1>3. y = u \/ StaysBad(u, y)
    BY <1>1, <1>2, StoreBug DEF StaysBad
  <1> QED BY <1>1, <1>3 DEF StaysBad

-----------------------------------------------------------------------------
\* The handlers of loads and updates.

\* A store that may follow the load r of an update.
ReadyRMW(p, g, r, pc, ins) ==
  /\ GraphInv(p, g) /\ NoneDangles(g) /\ r \in Events(g) /\ next(r) \notin Events(g)
  /\ Lab(g, r).kind = "R" /\ Lab(g, r).pc = pc /\ Lab(g, r).ins = ins

\* handleLoad keeps the invariant, unless it reports an error; a load it leaves at
\* the end of its thread is the new one, ready for the store of an update.
LEMMA HandleLoadKeeps ==
  ASSUME NEW p, isProgram(p), NEW x, IsRun(x), RunOK(p, x), NEW t, NEW r, r = <<t, ThreadSize(x.g, t)>>,
         Slot(p, x.g, r), AwaitedRead(x.g, r),
         NEW pc \in DOMAIN p[t], pc = NextPc(x.g, t), NEW ins, ins = p[t][pc], ins.op \in {"load", "fai", "cas"},
         NEW y, y = handleLoad(x, t, ins), ~ y.bug
  PROVE  /\ Handled(p, y)
         /\ ~ y.error /\ LastLab(y.g, t).kind = "R" => LastEvent(y.g, t) = r /\ ReadyRMW(p, y.g, r, pc, ins)
  <1> DEFINE g == x.g
             lab == NewLabel("R", pc, ins)
             h == addLabelToGraph(g, t, lab)
             u == [x EXCEPT !.g = h]
             stores == filterValuesFromAnnotSAVER(h, ins, getRfsApproximation(h, r))
  <1>g. GraphInv(p, g) /\ NoneDangles(g) /\ WorklistOK(g, x.wl, ipr) /\ Shape(p, g) /\ Stamps(g) /\ Coherence(g)
    BY DEF RunOK, GraphInv
  <1>w. /\ r \in (DOMAIN p) \X Nat /\ r \notin Events(g) /\ next(r) \notin Events(g) /\ r[2] > 0 /\ t \in DOMAIN p
        /\ r[1] = t /\ prev(r) \in Events(g) /\ Lab(g, prev(r)).kind \notin {"block", "finish"} /\ SyncFit(g, r)
    BY DEF Slot
  <1>l. ins.loc \in Locs /\ pc \in Nat
    BY <1>w DEF isProgram
  <1>1. DOMAIN lab = LabelFields /\ lab.kind = "R" /\ lab.pc = pc /\ lab.ins = ins /\ lab.rf = Bottom
    BY NewLabelFacts
  <1>d. y = loadAdded(u, LastEvent(h, t), ins)
    BY DEF handleLoad
  <1> HIDE DEF lab
  <1>2. LabelFits(p, g, r, lab)
    <2>1. r[2] # 0 /\ (isRead(g, prev(r)) => ~ Dangles(g, prev(r)))
      BY <1>w, <1>g DEF NoneDangles
    <2> QED BY <2>1, <1>1, <1>w, <1>l DEF LabelFits, AwaitedRead, AccessOps
  <1>3. /\ Grown(g, h, r) /\ GraphInv(p, h) /\ Keeps(g, h) /\ LastEvent(h, t) = r /\ next(r) \notin Events(h)
        /\ \A f \in LabelFields \ {"view", "stamp"} : Lab(h, r)[f] = lab[f]
    <2> DEFINE e == <<t, ThreadSize(g, t)>>
    <2>e. r = e
      OBVIOUS
    <2> HIDE DEF g
    <2>1. /\ h = addLabelToGraph(g, t, lab) /\ GraphInv(p, g)
          /\ LabelFits(p, g, e, lab) /\ SyncFit(g, e) /\ lab.kind # "block"
      BY <2>e, <1>g, <1>w, <1>1, <1>2
    <2> HIDE DEF h, u, stores
    <2>2. Grown(g, h, e) /\ GraphInv(p, h) /\ Keeps(g, h) /\ LastEvent(h, t) = e /\ next(e) \notin Events(h)
      BY <2>1, AddFacts
    <2>3. \A f \in LabelFields \ {"view", "stamp"} : Lab(h, e)[f] = lab[f]
      BY <2>1, AddFacts
    <2> HIDE DEF e
    <2> QED BY <2>e, <2>2, <2>3
  <1>4. Lab(h, r).kind = "R" /\ Lab(h, r).ins = ins /\ Lab(h, r).pc = pc
    BY <1>1, <1>3 DEF LabelFields
  <1>5. IsRun(u) /\ u.g = h /\ u.wl = x.wl
    BY DEF IsRun, RunFields
  <1> HIDE DEF h, u
  <1>6. NewLoad(p, h, r, ins)
    <2>1. ASSUME NEW q \in Events(h), q # r
          PROVE  Lab(h, q).stamp < Lab(h, r).stamp /\ (isRead(h, q) => ~ Dangles(h, q))
      <3>1. q \in Events(g) /\ Lab(h, q) = Lab(g, q) /\ Lab(h, r).stamp = g.ts
        BY <2>1, <1>3 DEF Grown
      <3> QED BY <3>1, <1>g DEF Stamps, NoneDangles, isRead, Dangles
    <2>2. r \in Events(h)
      BY <1>3 DEF Grown
    <2> QED BY <2>1, <2>2, <1>3, <1>4, <1>l DEF NewLoad
  <1>7. WorklistOK(h, x.wl, ipr)
    BY <1>3, <1>g, WorklistStays
  <1>8. CASE y = [u EXCEPT !.error = TRUE]
    <2>1. y.error /\ y.g = h /\ y.wl = x.wl
      BY <1>5, <1>8 DEF IsRun, RunFields
    <2> QED BY <2>1, <1>3, <1>7 DEF Handled
  <1>9. CASE y = [u EXCEPT !.g = removeCASRead(@, r)]
    <2> DEFINE k == removeCASRead(h, r)
    <2>1. y.g = k /\ y.wl = x.wl
      BY <1>5, <1>9 DEF IsRun, RunFields
    <2>2. /\ GraphInv(p, k) /\ NoneDangles(k) /\ k.co = h.co /\ Events(k) = Events(h)
          /\ \A q \in Events(h) : q # r => Lab(k, q) = Lab(h, q)
      <3> HIDE DEF k
      <3>1. isRead(h, r) /\ r \in Events(h) /\ next(r) \notin Events(h) /\ k = removeCASRead(h, r)
            /\ \A q \in Events(h) : isRead(h, q) /\ q # r => ~ Dangles(h, q)
        BY <1>6 DEF NewLoad, isRead, k
      <3> QED BY <3>1, <1>3, RemoveCASReadFacts
    <2>3. Keeps(g, k)
      <3>1. k.co = g.co
        BY <2>2, <1>3 DEF Grown
      <3>2. \A q \in Events(g) : q \in Events(k) /\ Lab(k, q) = Lab(g, q)
        BY <2>2, <1>3, <1>w DEF Grown
      <3> HIDE DEF k
      <3> QED BY <3>1, <3>2, <1>g, SameKept
    <2>k. k = blockThread(removeLast(h, t), t, NewLabel("block", Lab(h, r).pc - 1, Lab(h, r).ins))
      BY <1>w DEF removeCASRead
    <2> HIDE DEF k, g
    <2>4. WorklistOK(k, x.wl, ipr)
      BY <1>g, <2>3, WorklistStays
    <2>5. LastLab(k, t).kind # "R"
      <3>1. r \in Events(k) /\ next(r) \notin Events(k) /\ r[1] = t
        BY <2>2, <1>6, <1>w DEF NewLoad
      <3>2. t \in LiveThreads(k)
        BY <3>1 DEF LiveThreads
      <3>3. LastEvent(k, t) = r
        BY <3>1, <3>2, <2>2, LastFacts DEF GraphInv
      <3>4. Lab(k, r).kind # "R"
        <4> SUFFICES ASSUME Lab(k, r).kind = "R" PROVE FALSE
          OBVIOUS
        <4> DEFINE m == removeLast(h, t)
                   b == NewLabel("block", Lab(h, r).pc - 1, Lab(h, r).ins)
                   e == <<t, ThreadSize(m, t)>>
        <4>1. k = InsertLabel(m, e, b)
          BY <2>k DEF blockThread
        <4>2. b.kind = "block" /\ DOMAIN b = LabelFields
          BY NewLabelFacts
        <4>3. m = RemoveLabels(h, {r})
          BY <1>3 DEF removeLast
        <4>4. r \notin Events(m) /\ DOMAIN m = {"lab", "co", "ts"} /\ Events(m) = Events(h) \ {r}
          BY <4>3, <1>3, RemoveFacts DEF GraphInv
        <4> HIDE DEF b, e, m
        <4>5. k.lab = [q \in Events(m) \cup {e} |-> IF q = e THEN [b EXCEPT !.stamp = m.ts] ELSE m.lab[q]]
          BY <4>1, <4>4 DEF InsertLabel
        <4>6. Events(k) = Events(m) \cup {e}
          BY <4>5 DEF Events
        <4>7. r = e
          BY <4>4, <4>6, <3>1
        <4>8. Lab(k, r) = [b EXCEPT !.stamp = m.ts]
          BY <4>5, <4>7 DEF Lab
        <4> QED BY <4>2, <4>8 DEF LabelFields
      <3> QED BY <3>3, <3>4 DEF LastLab
    <2> QED BY <2>1, <2>2, <2>4, <2>5 DEF Handled
  <1>10. CASE y = readNewest(u, r, stores)
    <2> DEFINE q == filterValuesFromAnnotSAVER(h, ins, getRfsApproximation(h, r))
    <2>1. stores # <<>>
      <3> SUFFICES ASSUME stores = <<>> PROVE FALSE
        OBVIOUS
      <3> HIDE DEF stores
      <3> DEFINE left == findConsistentRf(u.g, r, stores)
                 items == [i \in 1 .. Len(left) - 1 |-> Item("read", Lab(u.g, r).stamp, r, left[i])]
      <3>1. y = [addToWorklist(u, items) EXCEPT
             !.g = setRf(@, r, IF left = <<>> THEN Head(stores) ELSE Last(left)),
             !.moot = @ \/ left = <<>>,
             !.bug = @ \/ stores = <<>>,
             !.resched = IF @ = r THEN InitEvent ELSE @]
        BY <1>10 DEF readNewest
      <3> HIDE DEF left, items
      <3> QED BY <3>1, <1>5 DEF addToWorklist, IsRun, RunFields
    <2>2. /\ GraphInv(p, y.g) /\ NoneDangles(y.g) /\ WorklistOK(y.g, y.wl, ipr)
          /\ Events(y.g) = Events(u.g) /\ SameLabel(Lab(u.g, r), Lab(y.g, r))
      <3>1. NewLoad(p, u.g, r, ins) /\ WorklistOK(u.g, u.wl, ipr)
            /\ stores = filterValuesFromAnnotSAVER(u.g, ins, getRfsApproximation(u.g, r))
        BY <1>5, <1>6, <1>7
      <3> HIDE DEF stores
      <3> QED BY <1>5, <1>10, <2>1, <3>1, ReadNewestKeeps
    <2> HIDE DEF stores
    <2>3. r \in Events(y.g) /\ next(r) \notin Events(y.g) /\ Lab(y.g, r).kind = "R" /\ Lab(y.g, r).ins = ins
          /\ Lab(y.g, r).pc = pc
      BY <2>2, <1>4, <1>5, <1>6 DEF NewLoad, SameLabel
    <2>4. LastEvent(y.g, t) = r
      <3>1. t \in LiveThreads(y.g)
        BY <2>3, <1>w DEF LiveThreads
      <3> QED BY <3>1, <2>2, <2>3, <1>w, LastFacts DEF GraphInv
    <2> QED BY <2>2, <2>3, <2>4 DEF Handled, ReadyRMW
  <1> QED BY <1>d, <1>3, <1>5, <1>8, <1>9, <1>10 DEF loadAdded

\* An update, its load and then its store, keeps the invariant unless it reports an
\* error.
LEMMA HandleRMWKeeps ==
  ASSUME NEW p, isProgram(p), NEW x, IsRun(x), RunOK(p, x), NEW t, NEW r, r = <<t, ThreadSize(x.g, t)>>,
         Slot(p, x.g, r), AwaitedRead(x.g, r),
         NEW pc \in DOMAIN p[t], pc = NextPc(x.g, t), NEW ins, ins = p[t][pc], ins.op \in {"fai", "cas"},
         NEW y, y = handleRMW(x, t, ins), ~ y.bug
  PROVE  Handled(p, y)
  <1> DEFINE u == handleLoad(x, t, ins)
             val == getReadValue(u.g, LastEvent(u.g, t))
             added == ~ u.error /\ ~ u.moot /\ LastLab(u.g, t).kind = "R"
             v == handleStore(u, t, LastLab(u.g, t).pc, ins, RMWResult(ins, val))
  <1>1. y = IF added /\ valueMakesRMWSucceed(ins, val) THEN v ELSE u
    BY Zenon DEF handleRMW, finishRMW
  <1>2. IsRun(u)
    BY LoadBug DEF StaysBad
  <1>w. t \in DOMAIN p /\ r[1] = t /\ r[2] \in Nat /\ r[2] > 0 /\ r \in (DOMAIN p) \X Nat
    BY DEF Slot
  <1>3. ~ u.bug
    <2> HIDE DEF u
    <2>1. y = v => StaysBad(u, y)
      BY <1>2, StoreBug
    <2> QED BY <1>1, <2>1 DEF StaysBad
  <1>4. Handled(p, u) /\ (~ u.error /\ LastLab(u.g, t).kind = "R" => LastEvent(u.g, t) = r /\ ReadyRMW(p, u.g, r, pc, ins))
    BY <1>3, HandleLoadKeeps
  <1> HIDE DEF u, val
  <1>5. CASE y = u
    BY <1>4, <1>5
  <1>6. CASE added /\ y = v
    <2> DEFINE w == <<t, ThreadSize(u.g, t)>>
    <2>1. LastEvent(u.g, t) = r /\ ReadyRMW(p, u.g, r, pc, ins) /\ RunOK(p, u)
      BY <1>4, <1>6 DEF Handled, RunOK, ReadyRMW
    <2>2. /\ GraphInv(p, u.g) /\ NoneDangles(u.g) /\ r \in Events(u.g) /\ next(r) \notin Events(u.g)
          /\ Lab(u.g, r).kind = "R" /\ Lab(u.g, r).pc = pc /\ Lab(u.g, r).ins = ins /\ Shape(p, u.g) /\ Kinds(p, u.g)
      BY <2>1 DEF ReadyRMW, GraphInv
    <2>3. w = next(r) /\ next(next(r)) \notin Events(u.g)
      <3>1. t \in LiveThreads(u.g)
        BY <2>2, <1>w DEF LiveThreads
      <3>2. w = next(r)
        BY <2>1, <2>2, <3>1, LastFacts
      <3>3. next(next(r)) \notin Events(u.g)
        <4> SUFFICES ASSUME next(next(r)) \in Events(u.g) PROVE FALSE
          OBVIOUS
        <4>1. next(next(r))[2] > 0 => prev(next(next(r))) \in Events(u.g)
          BY <2>2 DEF Shape
        <4>2. next(next(r)) = <<t, r[2] + 2>> /\ prev(next(next(r))) = next(r)
          BY <1>w DEF next, prev
        <4> QED BY <4>1, <4>2, <2>2, <1>w
      <3> QED BY <3>2, <3>3
    <2>4. prev(w) = r /\ w \in (DOMAIN p) \X Nat /\ w[2] > 0 /\ w[1] = t
      BY <2>2, <2>3, <1>w, NextPrev
    <2> HIDE DEF w
    <2>5. SyncFit(u.g, w)
      BY <2>2, <2>4 DEF SyncFit, NoneDangles
    <2>6. Slot(p, u.g, w)
      BY <2>2, <2>3, <2>4, <2>5 DEF Slot
    <2>7. AwaitedRead(u.g, w)
      BY <2>2, <2>4 DEF AwaitedRead
    <2>8. y = handleStore(u, t, pc, ins, RMWResult(ins, val))
      <3>1. LastLab(u.g, t).pc = pc
        BY <2>1, <2>2 DEF LastLab
      <3> QED BY <3>1, <1>6
    <2>9. isRead(u.g, prev(w)) /\ Addr(u.g, prev(w)) = ins.loc /\ w = <<t, ThreadSize(u.g, t)>> /\ ins.op \in AccessOps
      BY <2>2, <2>4 DEF isRead, Addr, w, AccessOps
    <2>10. RunOK(p, y)
      BY <1>2, <2>1, <2>6, <2>7, <2>8, <2>9, HandleStoreKeeps
    <2> QED BY <2>10 DEF RunOK, Handled
  <1> QED BY <1>1, <1>5, <1>6

-----------------------------------------------------------------------------
\* Threads are created, joined and finished, and block.

\* Labels of thread creation, join and end.
LEMMA AddPlain ==
  ASSUME NEW p, isProgram(p), NEW g, GraphInv(p, g), NoneDangles(g), NEW t,
         Slot(p, g, <<t, ThreadSize(g, t)>>), AwaitedRead(g, <<t, ThreadSize(g, t)>>),
         NEW kind \in {"create", "join", "finish"}, NEW pc \in Nat, NEW ins,
         kind = "join" => \E f \in Events(g) : f[1] = ins.child /\ Lab(g, f).kind = "finish",
         NEW h, h = addLabelToGraph(g, t, NewLabel(kind, pc, ins))
  PROVE  /\ Grown(g, h, <<t, ThreadSize(g, t)>>) /\ GraphInv(p, h) /\ NoneDangles(h) /\ Keeps(g, h)
         /\ LastEvent(h, t) = <<t, ThreadSize(g, t)>> /\ Lab(h, LastEvent(h, t)).kind = kind
  <1> DEFINE e == <<t, ThreadSize(g, t)>>
             lab == NewLabel(kind, pc, ins)
  <1>1. DOMAIN lab = LabelFields /\ lab.kind = kind /\ lab.pc = pc /\ lab.ins = ins
    BY NewLabelFacts
  <1>2. h = addLabelToGraph(g, t, lab)
    OBVIOUS
  <1> HIDE DEF lab
  <1>3. /\ e \in (DOMAIN p) \X Nat /\ e \notin Events(g) /\ next(e) \notin Events(g) /\ e[2] > 0
        /\ prev(e) \in Events(g) /\ Lab(g, prev(e)).kind \notin {"block", "finish"} /\ SyncFit(g, e) /\ AwaitedRead(g, e)
    BY DEF Slot
  <1> HIDE DEF e
  <1>4. LabelFits(p, g, e, lab)
    <2>1. e[2] # 0 /\ (isRead(g, prev(e)) => ~ Dangles(g, prev(e)))
      BY <1>3 DEF NoneDangles
    <2> QED BY <2>1, <1>1, <1>3 DEF LabelFits, AwaitedRead
  <1>5. LabelFits(p, g, <<t, ThreadSize(g, t)>>, lab) /\ SyncFit(g, <<t, ThreadSize(g, t)>>) /\ lab.kind # "block" /\ lab.kind # "R"
    BY <1>1, <1>3, <1>4 DEF e
  <1>6. /\ Grown(g, h, <<t, ThreadSize(g, t)>>) /\ GraphInv(p, h) /\ Keeps(g, h) /\ LastEvent(h, t) = <<t, ThreadSize(g, t)>>
    BY <1>2, <1>5, AddFacts
  <1>7. \A f \in LabelFields \ {"view", "stamp"} : Lab(h, <<t, ThreadSize(g, t)>>)[f] = lab[f]
    BY <1>2, <1>5, AddFacts
  <1>8. NoneDangles(h)
    BY <1>2, <1>5, AddFacts
  <1> QED BY <1>1, <1>6, <1>7, <1>8 DEF LabelFields

\* A begin label, for a thread that has none.
LEMMA AddBegin ==
  ASSUME NEW p, isProgram(p), NEW g, GraphInv(p, g), NoneDangles(g), NEW c \in DOMAIN p, <<c, 0>> \notin Events(g),
         NEW par, par = <<par[1], par[2]>>, par[2] \in Nat \ {0},
         NEW h, h = addLabelToGraph(g, c, [NewLabel("start", 0, NoInstr) EXCEPT !.par = par])
  PROVE  GraphInv(p, h) /\ NoneDangles(h) /\ Keeps(g, h)
  <1> DEFINE n == ThreadSize(g, c)
             new == NewLabel("start", 0, NoInstr)
             lab == [new EXCEPT !.par = par]
  <1>g. Shape(p, g)
    BY DEF GraphInv
  <1>1. DOMAIN lab = LabelFields /\ lab.kind = "start" /\ lab.pc = 0 /\ lab.par = par
    <2>1. DOMAIN new = LabelFields /\ new.kind = "start" /\ new.pc = 0
      BY NewLabelFacts
    <2> HIDE DEF new
    <2> QED BY <2>1 DEF LabelFields
  <1>2. h = addLabelToGraph(g, c, lab)
    OBVIOUS
  <1> HIDE DEF lab
  <1>3. n = 0 /\ <<c, 1>> \notin Events(g)
    <2>1. n \in Nat /\ \A i \in Nat : <<c, i>> \in Events(g) <=> i < n
      BY <1>g, SizeFacts
    <2> HIDE DEF n
    <2>2. ~ 0 < n
      BY <2>1
    <2> QED BY <2>1, <2>2
  <1>4. next(<<c, n>>) \notin Events(g)
    BY <1>3 DEF next
  <1>5. LabelFits(p, g, <<c, n>>, lab) /\ SyncFit(g, <<c, n>>)
    <2> HIDE DEF n
    <2>1. <<c, n>>[2] = 0 /\ <<c, n>> \in (DOMAIN p) \X Nat /\ <<c, n>> \notin Events(g)
      BY <1>3
    <2> QED BY <1>1, <1>4, <2>1 DEF LabelFits, SyncFit
  <1> QED BY <1>1, <1>2, <1>5, AddFacts

\* A handler that leaves the worklist and every load and store alone.
LEMMA KeptHandled ==
  ASSUME NEW p, isProgram(p), NEW x, RunOK(p, x), NEW y, Keeps(x.g, y.g), GraphInv(p, y.g), NoneDangles(y.g), y.wl = x.wl
  PROVE  Handled(p, y)
  BY WorklistStays DEF RunOK, Handled

\* handleThreadCreate keeps the invariant, unless its BUG_ON fails.
LEMMA CreateKeeps ==
  ASSUME NEW p, isProgram(p), NEW x, IsRun(x), RunOK(p, x), NEW t, t \in DOMAIN p,
         Slot(p, x.g, <<t, ThreadSize(x.g, t)>>), AwaitedRead(x.g, <<t, ThreadSize(x.g, t)>>), NextPc(x.g, t) \in Nat,
         NEW ins, ins.child \in DOMAIN p \ {0}, NEW y, y = handleThreadCreate(x, t, ins)
  PROVE  StaysBad(x, y) /\ (y.bug \/ Handled(p, y))
  <1> DEFINE c == ins.child
             g == addLabelToGraph(x.g, t, NewLabel("create", NextPc(x.g, t), ins))
             begin == [NewLabel("start", 0, NoInstr) EXCEPT !.par = LastEvent(g, t)]
             h == IF c \in LiveThreads(g) THEN removeLast(g, c) ELSE g
             k == addLabelToGraph(h, c, begin)
  <1>y. IsRun(y) /\ y.g = k /\ y.wl = x.wl /\ (x.bug => y.bug) /\ (ThreadSize(g, c) > 1 => y.bug)
    <2>1. y = [x EXCEPT !.g = k, !.bug = @ \/ ThreadSize(g, c) > 1]
      BY DEF handleThreadCreate
    <2> HIDE DEF k, g
    <2> QED BY <2>1 DEF IsRun, RunFields
  <1>g. GraphInv(p, x.g) /\ NoneDangles(x.g)
    BY DEF RunOK
  <1>1. GraphInv(p, g) /\ NoneDangles(g) /\ Keeps(x.g, g) /\ LastEvent(g, t) = <<t, ThreadSize(x.g, t)>>
    BY <1>g, AddPlain
  <1>p. LastEvent(g, t) = <<LastEvent(g, t)[1], LastEvent(g, t)[2]>> /\ LastEvent(g, t)[2] \in Nat \ {0}
    <2>1. ThreadSize(x.g, t) \in Nat /\ ThreadSize(x.g, t) # 0
      BY <1>g, SizeFacts DEF Slot, GraphInv
    <2> QED BY <1>1, <2>1
  <1> HIDE DEF g
  <1>2. ASSUME ~ ThreadSize(g, c) > 1 PROVE Handled(p, y)
    <2>1. GraphInv(p, h) /\ NoneDangles(h) /\ Keeps(g, h) /\ <<c, 0>> \notin Events(h)
      <3>1. CASE c \in LiveThreads(g)
        <4>1. ThreadSize(g, c) = 1
          BY <1>1, <1>2, <3>1, LastFacts DEF GraphInv
        <4>2. LastEvent(g, c) = <<c, 0>> /\ next(<<c, 0>>) \notin Events(g)
          BY <1>1, <3>1, <4>1, LastFacts DEF GraphInv
        <4>3. h = RemoveLabels(g, {<<c, 0>>})
          BY <3>1, <4>2 DEF removeLast
        <4> HIDE DEF h
        <4>4. Removable(g, {<<c, 0>>})
          BY <4>2 DEF Removable, InitEvent
        <4>5. Lab(g, <<c, 0>>).kind # "R" \/ <<c, 0>> \notin Events(g)
          BY <1>1 DEF GraphInv, Kinds, Lab
        <4>6. Reworked(g, h) /\ Events(h) = Events(g) \ {<<c, 0>>} /\ Keeps(g, h)
          <5> DEFINE S == {<<c, 0>>}
          <5>1. \A e \in S \cap Events(g) : ~ isRead(g, e)
            BY <4>5 DEF isRead
          <5>2. h = RemoveLabels(g, S) /\ Removable(g, S)
            BY <4>3, <4>4
          <5> HIDE DEF S
          <5>3. Reworked(g, h) /\ Events(h) = Events(g) \ S /\ Keeps(g, h)
            BY <1>1, <5>1, <5>2, RemoveReworked
          <5> QED BY <5>3 DEF S
        <4>7. NoneDangles(h)
          <5>1. \A r \in Events(g) \ {<<c, 0>>} : isRead(g, r) => ~ Dangles(g, r)
            BY <1>1 DEF NoneDangles
          <5> QED BY <1>1, <4>3, <4>4, <5>1, RemoveReworked
        <4> QED BY <1>1, <4>6, <4>7, ReworkedInv
      <3>2. CASE c \notin LiveThreads(g)
        <4>1. h = g /\ <<c, 0>> \notin Events(g)
          BY <3>2 DEF LiveThreads
        <4> HIDE DEF h
        <4>2. Keeps(g, g)
          BY KeepsSelf
        <4> QED BY <1>1, <4>1, <4>2
      <3> QED BY <3>1, <3>2
    <2> HIDE DEF h
    <2>2. GraphInv(p, k) /\ NoneDangles(k) /\ Keeps(h, k)
      BY <2>1, <1>p, AddBegin
    <2> HIDE DEF k
    <2>3. Keeps(x.g, k)
      BY <1>g, <1>1, <2>1, <2>2, KeepsTrans
    <2> QED BY <1>y, <2>2, <2>3, KeptHandled
  <1> QED BY <1>y, <1>2 DEF StaysBad

\* handleThreadJoin keeps the invariant, whether the child has ended or not; a
\* child without labels is an error.
LEMMA JoinKeeps ==
  ASSUME NEW p, isProgram(p), NEW x, IsRun(x), RunOK(p, x), NEW t,
         Slot(p, x.g, <<t, ThreadSize(x.g, t)>>), AwaitedRead(x.g, <<t, ThreadSize(x.g, t)>>),
         NextPc(x.g, t) \in Nat, NextPc(x.g, t) - 1 \in Nat,
         NEW ins, NEW y, y = handleThreadJoin(x, t, ins)
  PROVE  StaysBad(x, y) /\ (y.bug \/ Handled(p, y))
  <1>g. GraphInv(p, x.g) /\ NoneDangles(x.g)
    BY DEF RunOK
  <1> DEFINE c == ins.child
             h == addLabelToGraph(x.g, t, NewLabel("join", NextPc(x.g, t), ins))
             k == blockThread(x.g, t, NewLabel("block", NextPc(x.g, t) - 1, ins))
             ended == LastLab(x.g, c).kind = "finish"
  <1>1. ASSUME c \in LiveThreads(x.g), ended PROVE GraphInv(p, h) /\ NoneDangles(h) /\ Keeps(x.g, h)
    <2>1. LastEvent(x.g, c) \in Events(x.g) /\ LastEvent(x.g, c)[1] = c /\ Lab(x.g, LastEvent(x.g, c)).kind = "finish"
      BY <1>1, <1>g, LastFacts DEF LastLab, GraphInv
    <2>2. \E f \in Events(x.g) : f[1] = ins.child /\ Lab(x.g, f).kind = "finish"
      BY <2>1
    <2> HIDE DEF c, ended
    <2> QED BY <1>g, <2>2, AddPlain
  <1>2. GraphInv(p, k) /\ NoneDangles(k) /\ Keeps(x.g, k)
    <2>1. \A e : Slot(p, x.g, e) =>
            /\ e \in (DOMAIN p) \X Nat /\ e \notin Events(x.g) /\ next(e) \notin Events(x.g) /\ e[2] > 0
            /\ prev(e) \in Events(x.g) /\ Lab(x.g, prev(e)).kind \notin {"block", "finish"}
      BY DEF Slot
    <2> QED BY <1>g, <2>1, BlockFacts
  <1>3. y = IF c \notin LiveThreads(x.g) THEN [x EXCEPT !.bug = TRUE]
            ELSE IF ended THEN [x EXCEPT !.g = h, !.moot = @ \/ partialExecutionExceedsBound(h)]
            ELSE [x EXCEPT !.g = k]
    <2>1. y = IF c \notin LiveThreads(x.g) THEN [x EXCEPT !.bug = TRUE]
              ELSE IF ended THEN [x EXCEPT !.g = h, !.moot = @ \/ partialExecutionExceedsBound(h)]
              ELSE [x EXCEPT !.g = blockThread(@, t, NewLabel("block", NextPc(@, t) - 1, ins))]
      BY DEF handleThreadJoin
    <2>2. [x EXCEPT !.g = blockThread(@, t, NewLabel("block", NextPc(@, t) - 1, ins))] = [x EXCEPT !.g = k]
      OBVIOUS
    <2> HIDE DEF h, k, c, ended
    <2> QED BY <2>1, <2>2
  <1> HIDE DEF h, k, c, ended
  <1>4. IsRun(y) /\ y.wl = x.wl /\ (x.bug => y.bug)
    BY <1>3 DEF IsRun, RunFields
  <1>5. CASE c \notin LiveThreads(x.g)
    <2>1. y.bug
      BY <1>3, <1>5 DEF IsRun, RunFields
    <2> QED BY <1>4, <2>1 DEF StaysBad
  <1>6. CASE c \in LiveThreads(x.g) /\ ended
    <2>1. y.g = h
      BY <1>3, <1>6 DEF IsRun, RunFields
    <2>2. Handled(p, y)
      BY <1>1, <1>4, <1>6, <2>1, KeptHandled
    <2> QED BY <1>4, <2>2 DEF StaysBad
  <1>7. CASE c \in LiveThreads(x.g) /\ ~ ended
    <2>1. y.g = k
      BY <1>3, <1>7 DEF IsRun, RunFields
    <2>2. Handled(p, y)
      BY <1>2, <1>4, <2>1, KeptHandled
    <2> QED BY <1>4, <2>2 DEF StaysBad
  <1> QED BY <1>5, <1>6, <1>7

\* handleThreadFinish keeps the invariant and removes the blocks of waiting joins.
LEMMA FinishKeeps ==
  ASSUME NEW p, isProgram(p), NEW x, IsRun(x), RunOK(p, x), NEW t,
         Slot(p, x.g, <<t, ThreadSize(x.g, t)>>), AwaitedRead(x.g, <<t, ThreadSize(x.g, t)>>), NextPc(x.g, t) \in Nat,
         NEW y, y = handleThreadFinish(x, t)
  PROVE  StaysBad(x, y) /\ Handled(p, y)
  <1> DEFINE g == addLabelToGraph(x.g, t, NewLabel("finish", NextPc(x.g, t), NoInstr))
             waiting == {u \in LiveThreads(g) : /\ LastLab(g, u).kind = "block"
                                                /\ LastLab(g, u).ins.op = "join"
                                                /\ LastLab(g, u).ins.child = t}
             S == {LastEvent(g, u) : u \in waiting}
             h == RemoveLabels(g, S)
  <1>g. GraphInv(p, x.g) /\ NoneDangles(x.g)
    BY DEF RunOK
  <1>1. GraphInv(p, g) /\ NoneDangles(g) /\ Keeps(x.g, g)
    BY <1>g, AddPlain
  <1>2. y = [x EXCEPT !.g = h, !.moot = @ \/ partialExecutionExceedsBound(h)]
    BY DEF handleThreadFinish
  <1> HIDE DEF g
  <1>3. Removable(g, S) /\ \A e \in S \cap Events(g) : ~ isRead(g, e)
    <2>1. \A e \in S : (\E u \in LiveThreads(g) : e = LastEvent(g, u)) /\ Lab(g, e).kind = "block"
      BY DEF LastLab
    <2> HIDE DEF S
    <2> QED BY <1>1, <2>1, LastBlocksRemovable
  <1> HIDE DEF S
  <1>4. Reworked(g, h) /\ Keeps(g, h)
    BY <1>1, <1>3, RemoveReworked
  <1>5. NoneDangles(h)
    <2>1. \A r \in Events(g) \ S : isRead(g, r) => ~ Dangles(g, r)
      BY <1>1 DEF NoneDangles
    <2> QED BY <1>1, <1>3, <2>1, RemoveReworked
  <1> HIDE DEF h
  <1>6. IsRun(y) /\ y.g = h /\ y.wl = x.wl /\ y.bug = x.bug
    BY <1>2 DEF IsRun, RunFields
  <1>7. GraphInv(p, h) /\ Keeps(x.g, h)
    BY <1>g, <1>1, <1>4, KeepsTrans, ReworkedInv
  <1>8. Handled(p, y)
    BY <1>5, <1>6, <1>7, KeptHandled
  <1> QED BY <1>6, <1>8 DEF StaysBad

\* A stamp may be left out.
LEMMA LaterFacts ==
  ASSUME NEW p, isProgram(p), NEW g, GraphInv(p, g), NoneDangles(g), NEW h, h = [g EXCEPT !.ts = @ + 1]
  PROVE  /\ GraphInv(p, h) /\ NoneDangles(h) /\ Keeps(g, h) /\ Events(h) = Events(g)
         /\ \A e : Lab(h, e) = Lab(g, e)
  <1>g. Shape(p, g) /\ Stamps(g) /\ Coherence(g) /\ ReadsFrom(g) /\ ViewShape(g)
    BY DEF GraphInv
  <1>1. DOMAIN h = {"lab", "co", "ts"} /\ h.lab = g.lab /\ h.co = g.co /\ h.ts = g.ts + 1
    BY <1>g DEF Shape
  <1>2. Events(h) = Events(g) /\ (\A e : Lab(h, e) = Lab(g, e)) /\ \A x : StoresTo(h, x) = StoresTo(g, x)
    BY <1>1 DEF Events, Lab, StoresTo
  <1>3. \A e \in Events(h) : LabelKept(g, h, e)
    <2> SUFFICES ASSUME NEW e \in Events(g) PROVE LabelKept(g, h, e)
      BY <1>2
    <2>1. e[2] > 0 => prev(e) \in Events(h)
      BY <1>2, <1>g DEF Shape
    <2>2. DOMAIN h.lab[e] = LabelFields /\ SameLabel(g.lab[e], h.lab[e]) /\ h.lab[e].stamp \in Nat /\ h.lab[e].stamp < h.ts
      BY <1>1, <1>g DEF Shape, Stamps, SameLabel, Lab
    <2>3. g.lab[e].view \subseteq Events(h) \cup EmptyView
      BY <1>2, <1>g DEF ViewShape, Lab
    <2>4. g.lab[e].kind = "R" => RfKept(g, h, e)
      BY <1>1, <1>2, <1>g DEF ReadsFrom, RfKept, isRead, Dangles, Lab, Addr
    <2>5. g.lab[e].kind = "join" => \E f \in Events(h) : EndOf(g, e, f)
      BY <1>2 DEF GraphInv, Synced, Joined, Lab
    <2> QED BY <2>1, <2>2, <2>3, <2>4, <2>5 DEF LabelKept
  <1>4. \A x \in Locs :
       /\ h.co[x] \in Seq(Events(h)) /\ Injective(h.co[x])
       /\ \A k \in 1 .. Len(h.co[x]) : g.lab[h.co[x][k]].kind = "W" /\ g.lab[h.co[x][k]].ins.loc = x
    BY <1>1, <1>2, <1>g, CoherenceKept
  <1>5. Reworked(g, h)
    <2>1. h.ts \in Nat /\ Events(h) \subseteq Events(g) /\ InitEvent \in Events(h) /\ DOMAIN h.co = Locs
      BY <1>1, <1>2, <1>g DEF Shape
    <2>2. \A e, q \in Events(h) : g.lab[e].stamp < g.lab[q].stamp => h.lab[e].stamp < h.lab[q].stamp
      BY <1>1
    <2> QED BY <1>1, <1>3, <1>4, <2>1, <2>2 DEF Reworked
  <1>6. Keeps(g, h)
    BY <1>1, <1>2, SameKept
  <1>7. NoneDangles(h)
    BY <1>2 DEF NoneDangles, isRead, Dangles
  <1> QED BY <1>2, <1>5, <1>6, <1>7, ReworkedInv

\* handleBlock keeps the invariant.
LEMMA BlockKeeps ==
  ASSUME NEW p, isProgram(p), NEW x, IsRun(x), RunOK(p, x), NEW t,
         Slot(p, x.g, <<t, ThreadSize(x.g, t)>>), NextPc(x.g, t) - 1 \in Nat,
         NEW y, y = handleBlock(x, t)
  PROVE  StaysBad(x, y) /\ Handled(p, y)
  <1> DEFINE g == [x.g EXCEPT !.ts = @ + 1]
             k == blockThread(g, t, NewLabel("block", NextPc(g, t) - 1, NoInstr))
  <1>g. GraphInv(p, x.g) /\ NoneDangles(x.g)
    BY DEF RunOK
  <1>1. GraphInv(p, g) /\ NoneDangles(g) /\ Keeps(x.g, g) /\ Events(g) = Events(x.g) /\ \A e : Lab(g, e) = Lab(x.g, e)
    BY <1>g, LaterFacts
  <1>2. IsRun(y) /\ y.g = k /\ y.wl = x.wl /\ y.bug = x.bug
    BY DEF handleBlock, IsRun, RunFields
  <1> HIDE DEF g
  <1>3. ThreadSize(g, t) = ThreadSize(x.g, t) /\ LastEvent(g, t) = LastEvent(x.g, t) /\ NextPc(g, t) = NextPc(x.g, t)
    BY <1>1, Zenon DEF ThreadSize, LastEvent, NextPc, LastLab
  <1>4. \E e : /\ e = <<t, ThreadSize(g, t)>>
               /\ e \in (DOMAIN p) \X Nat /\ e \notin Events(g) /\ next(e) \notin Events(g) /\ e[2] > 0
               /\ prev(e) \in Events(g) /\ Lab(g, prev(e)).kind \notin {"block", "finish"}
    BY <1>1, <1>3 DEF Slot
  <1>5. GraphInv(p, k) /\ NoneDangles(k) /\ Keeps(g, k)
    <2> DEFINE pc == NextPc(g, t) - 1
    <2>1. pc \in Nat
      BY <1>3
    <2> HIDE DEF pc, k
    <2>2. k = blockThread(g, t, NewLabel("block", pc, NoInstr))
      BY DEF k, pc
    <2> QED BY <1>1, <1>4, <2>1, <2>2, BlockFacts
  <1> HIDE DEF k
  <1>6. Keeps(x.g, k)
    BY <1>g, <1>1, <1>5, KeepsTrans
  <1> QED BY <1>2, <1>5, <1>6, KeptHandled DEF StaysBad

\* Removing a blocked label so that its load can be run again keeps the invariant.
LEMMA RescheduleKeeps ==
  ASSUME NEW p, isProgram(p), NEW x, IsRun(x), RunOK(p, x), NEW t \in LiveThreads(x.g), isReadOptBlock(LastLab(x.g, t)),
         NEW r, NEW y, y = [x EXCEPT !.g = removeLast(@, t), !.resched = r]
  PROVE  StaysBad(x, y) /\ Handled(p, y)
  <1> DEFINE g == x.g
             S == {LastEvent(g, t)}
             h == RemoveLabels(g, S)
  <1>g. GraphInv(p, g) /\ NoneDangles(g)
    BY DEF RunOK
  <1>1. IsRun(y) /\ y.g = h /\ y.wl = x.wl /\ y.bug = x.bug
    BY DEF removeLast, IsRun, RunFields
  <1>2. Removable(g, S) /\ \A e \in S \cap Events(g) : ~ isRead(g, e)
    <2>1. \A e \in S : (\E u \in LiveThreads(g) : e = LastEvent(g, u)) /\ Lab(g, e).kind = "block"
      BY DEF LastLab, isReadOptBlock
    <2> HIDE DEF S
    <2> QED BY <1>g, <2>1, LastBlocksRemovable
  <1> HIDE DEF S
  <1>3. Reworked(g, h) /\ Keeps(g, h)
    BY <1>g, <1>2, RemoveReworked
  <1>4. NoneDangles(h)
    <2>1. \A q \in Events(g) \ S : isRead(g, q) => ~ Dangles(g, q)
      BY <1>g DEF NoneDangles
    <2> QED BY <1>g, <1>2, <2>1, RemoveReworked
  <1> HIDE DEF h
  <1>5. GraphInv(p, h)
    BY <1>g, <1>3, ReworkedInv
  <1> QED BY <1>1, <1>3, <1>4, <1>5, KeptHandled DEF StaysBad

\* Begin labels are in every view.
LEMMA BeginSeen ==
  ASSUME NEW p, isProgram(p), NEW g, Shape(p, g), NEW e \in Events(g), e[2] = 0
  PROVE  e \in EmptyView
  <1>1. e[1] \in DOMAIN p /\ e = <<e[1], e[2]>>
    BY EventFacts
  <1>2. e[1] \in Threads /\ e = <<e[1], 0>>
    BY <1>1 DEF isProgram
  <1> QED BY <1>2 DEF EmptyView

\* The labels up to a stamp.
LEMMA StampView ==
  ASSUME NEW p, isProgram(p), NEW g, GraphInv(p, g), NEW st, NEW last \in Events(g), Lab(g, last).stamp = st,
         NEW v, v = getViewFromStamp(g, st)
  PROVE  /\ EmptyView \subseteq v
         /\ \A e \in Events(g) : Lab(g, e).stamp <= st => e \in v
         /\ \A e \in Events(g) \cap v : e[2] > 0 => Lab(g, e).stamp <= st
  <1> DEFINE old == {q \in Events(g) : Lab(g, q).stamp <= st}
  <1>g. Shape(p, g) /\ Stamps(g)
    BY DEF GraphInv
  <1>s. \A e \in Events(g) : Lab(g, e).stamp \in Nat
    BY <1>g DEF Shape, Lab
  <1>1. v = UNION {updateIdx(EmptyView, e) : e \in old}
    BY DEF getViewFromStamp
  <1>2. \A e : e \in v <=> \E q \in old : e \in updateIdx(EmptyView, q)
    BY <1>1, Zenon
  <1>3. \A q, e : e \in updateIdx(EmptyView, q) <=> e \in EmptyView \/ \E i \in 0 .. q[2] : e = <<q[1], i>>
    BY DEF updateIdx
  <1>4. st \in Nat /\ last \in old
    BY <1>s
  <1>5. EmptyView \subseteq v
    BY <1>2, <1>3, <1>4
  <1>6. ASSUME NEW e \in Events(g), Lab(g, e).stamp <= st PROVE e \in v
    <2>1. e = <<e[1], e[2]>> /\ e[2] \in Nat
      BY <1>g, EventFacts
    <2>2. e[2] \in 0 .. e[2]
      BY <2>1
    <2> QED BY <1>2, <1>3, <1>6, <2>1, <2>2
  <1>7. ASSUME NEW e \in Events(g) \cap v, e[2] > 0 PROVE Lab(g, e).stamp <= st
    <2>1. PICK q \in old : e \in updateIdx(EmptyView, q)
      BY <1>2
    <2>2. e \notin EmptyView
      BY <1>7 DEF EmptyView
    <2>3. PICK i \in 0 .. q[2] : e = <<q[1], i>>
      BY <1>3, <2>1, <2>2
    <2>4. q \in Events(g) /\ q = <<q[1], q[2]>> /\ q[2] \in Nat /\ Lab(g, q).stamp <= st
      BY <2>1, <1>g, EventFacts
    <2>5. CASE i = q[2]
      BY <2>3, <2>4, <2>5
    <2>6. CASE i < q[2]
      <3>1. Lab(g, e).stamp < Lab(g, q).stamp
        BY <1>g, <2>3, <2>4, <2>6, StampsGrow
      <3> QED BY <3>1, <2>4, <1>s, <1>4
    <2> QED BY <2>3, <2>4, <2>5, <2>6
  <1> QED BY <1>5, <1>6, <1>7

\* The labels up to a stamp depend on no later ones.
LEMMA StampViewClosed ==
  ASSUME NEW p, isProgram(p), NEW g, GraphInv(p, g), NEW st, NEW last \in Events(g), Lab(g, last).stamp = st,
         NEW v, v = getViewFromStamp(g, st)
  PROVE  Closed(g, v)
  <1>g. Shape(p, g) /\ Stamps(g) /\ ViewShape(g) /\ ViewPast(g) /\ Blocked(g) /\ ReadsFrom(g)
          /\ Kinds(p, g) /\ Coherence(g)
    BY DEF GraphInv
  <1>s. st \in Nat /\ \A e \in Events(g) : Lab(g, e).stamp \in Nat
    BY <1>g DEF Shape, Lab
  <1>1. /\ EmptyView \subseteq v
        /\ \A e \in Events(g) : Lab(g, e).stamp <= st => e \in v
        /\ \A e \in Events(g) \cap v : e[2] > 0 => Lab(g, e).stamp <= st
    BY StampView
  <1>2. ASSUME NEW e \in Events(g) \cap v, e[2] > 0 PROVE prev(e) \in v
    <2>1. prev(e) \in Events(g) /\ Lab(g, prev(e)).stamp < Lab(g, e).stamp
      BY <1>2, <1>g DEF Shape, Stamps
    <2>2. Lab(g, prev(e)).stamp <= st
      BY <1>1, <1>2, <2>1, <1>s
    <2> QED BY <1>1, <2>1, <2>2
  <1>3. ASSUME NEW e \in Events(g) \cap v PROVE Lab(g, e).view \subseteq v
    <2> SUFFICES ASSUME NEW q \in Lab(g, e).view PROVE q \in v
      OBVIOUS
    <2>1. q \in Events(g) \cup EmptyView
      BY <1>g DEF ViewShape
    <2>2. CASE q \in EmptyView
      BY <2>2, <1>1
    <2>3. CASE q \in Events(g) /\ q \notin EmptyView
      <3>1. q[2] > 0
        BY <2>3, <1>g, BeginSeen, EventFacts
      <3>2. e[2] > 0
        <4>1. e[2] = 0 => Lab(g, e).view = EmptyView
          BY <1>g DEF ViewShape
        <4>2. e[2] \in Nat
          BY <1>g, EventFacts
        <4> QED BY <4>1, <4>2, <2>3
      <3>3. Lab(g, q).stamp < Lab(g, e).stamp
        BY <3>1, <1>g DEF ViewPast
      <3>4. Lab(g, q).stamp <= st
        BY <3>2, <3>3, <1>1, <1>s, <2>3
      <3> QED BY <1>1, <2>3, <3>4
    <2> QED BY <2>1, <2>2, <2>3
  <1>4. ASSUME NEW r \in Events(g), isRead(g, r), next(r) \in Events(g) \cap v, Lab(g, next(r)).kind = "block"
        PROVE  Lab(g, r).rf \in v
    <2>1. ~ Dangles(g, r)
      <3>1. Lab(g, r).rf \in StoresTo(g, Addr(g, r)) /\ Addr(g, r) \in Locs
        BY <1>4, <1>g, AccessLoc DEF ReadsFrom, isRead
      <3> QED BY <3>1, <1>g, NotBottom DEF Dangles
    <2>2. Lab(g, r).rf \in Events(g)
      BY <1>4, <2>1, RfInGraph
    <2>3. Lab(g, Lab(g, r).rf).stamp < Lab(g, next(r)).stamp
      BY <1>4, <1>g DEF Blocked
    <2>4. next(r)[2] > 0
      BY <1>g, NextPrev
    <2>5. Lab(g, Lab(g, r).rf).stamp <= st
      BY <1>1, <1>4, <1>s, <2>2, <2>3, <2>4
    <2> QED BY <1>1, <2>2, <2>5
  <1>5. ASSUME NEW j \in Events(g) \cap v, Lab(g, j).kind = "join" PROVE \E f \in v : EndOf(g, j, f)
    <2>1. PICK f \in Events(g) : EndOf(g, j, f) /\ Lab(g, f).stamp < Lab(g, j).stamp
      BY <1>5 DEF GraphInv, Synced, Joined
    <2>2. j[2] > 0
      <3>1. j[2] # 0 /\ j[2] \in Nat
        BY <1>5, <1>g, EventFacts DEF Kinds, Lab
      <3> QED BY <3>1
    <2>3. Lab(g, f).stamp <= st
      BY <1>1, <1>s, <2>1, <2>2
    <2> QED BY <1>1, <2>1, <2>3
  <1> QED BY <1>1, <1>2, <1>3, <1>4, <1>5 DEF Closed

\* The prefix of a store depends on nothing outside it.
LEMMA PrefixClosed ==
  ASSUME NEW p, isProgram(p), NEW g, GraphInv(p, g), NEW w \in Events(g), Lab(g, w).kind = "W"
  PROVE  Closed(g, prefixView(g, w))
  <1> DEFINE P == Lab(g, w).view
  <1>g. Shape(p, g) /\ ViewShape(g) /\ ViewPast(g) /\ Kinds(p, g)
    BY DEF GraphInv
  <1>1. prefixView(g, w) = P \cup {w}
    BY <1>g, PrefixIs
  <1>2. EmptyView \subseteq P /\ P \subseteq Events(g) \cup EmptyView /\ \A q \in P : q[2] > 0 => prev(q) \in P
    BY <1>g DEF ViewShape
  <1>3. w[2] # 0 /\ w[2] \in Nat /\ prev(w) \in P
    <2>1. w[2] # 0
      BY <1>g DEF Kinds, Lab
    <2>2. w[2] \in Nat
      BY <1>g, EventFacts
    <2> QED BY <2>1, <2>2, <1>g DEF ViewShape
  <1>4. \A q \in P : q[2] > 0 => Lab(g, q).kind # "block" /\ Lab(g, q).view \subseteq P
    BY <1>g DEF ViewPast
  <1>5. ASSUME NEW e \in Events(g), e \in P PROVE Lab(g, e).view \subseteq P
    <2>1. CASE e[2] > 0
      BY <1>4, <1>5, <2>1
    <2>2. CASE e[2] = 0
      BY <2>2, <1>2, <1>g DEF ViewShape
    <2> QED BY <2>1, <2>2, <1>g, EventFacts
  <1>6. ASSUME NEW r \in Events(g), next(r) \in P \cup {w} PROVE Lab(g, next(r)).kind # "block"
    <2>1. next(r)[2] > 0
      BY <1>g, NextPrev
    <2> QED BY <2>1, <1>4, <1>6
  <1> HIDE DEF P
  <1>7. \A e \in Events(g) \cap (P \cup {w}) : Lab(g, e).view \subseteq P \cup {w}
    BY <1>5 DEF P
  <1>8. \A e \in Events(g) \cap (P \cup {w}) : e[2] > 0 => prev(e) \in P \cup {w}
    BY <1>2, <1>3
  <1>9. \A j \in Events(g) \cap (P \cup {w}) : Lab(g, j).kind = "join" => \E f \in P \cup {w} : EndOf(g, j, f)
    <2> SUFFICES ASSUME NEW j \in Events(g), j \in P, Lab(g, j).kind = "join" PROVE \E f \in P : EndOf(g, j, f)
      OBVIOUS
    <2>1. j[2] > 0
      <3>1. j[2] # 0 /\ j[2] \in Nat
        BY <1>g, EventFacts DEF Kinds, Lab
      <3> QED BY <3>1
    <2> QED BY <2>1 DEF GraphInv, Synced, Joined, P
  <1> QED BY <1>1, <1>2, <1>6, <1>7, <1>8, <1>9 DEF Closed

\* Closed views have a closed union.
LEMMA ClosedUnion ==
  ASSUME NEW g, NEW u, NEW v, Closed(g, u), Closed(g, v)
  PROVE  Closed(g, u \cup v)
  <1>1. EmptyView \subseteq u \cup v
    BY DEF Closed
  <1>2. \A e \in Events(g) \cap (u \cup v) : e[2] > 0 => prev(e) \in u \cup v
    BY DEF Closed
  <1>3. \A e \in Events(g) \cap (u \cup v) : Lab(g, e).kind # "block" => Lab(g, e).view \subseteq u \cup v
    BY DEF Closed
  <1>4. \A r \in Events(g) : isRead(g, r) /\ next(r) \in Events(g) \cap (u \cup v) /\ Lab(g, next(r)).kind = "block"
       => Lab(g, r).rf \in u \cup v
    BY DEF Closed
  <1>5. \A j \in Events(g) \cap (u \cup v) : Lab(g, j).kind = "join" => \E f \in u \cup v : EndOf(g, j, f)
    BY DEF Closed
  <1> QED BY <1>1, <1>2, <1>3, <1>4, <1>5 DEF Closed

-----------------------------------------------------------------------------
\* A graph cut back to the stamp of an item.

CutGraph(g, st) == repairDanglingReads(compressStampsAfter(cutToStamp(g, st), st))

\* A graph cut back to a stamp, renumbered and repaired keeps the invariant and all
\* loads and stores up to the stamp (restrictAndRevisit).
LEMMA CutFacts ==
  ASSUME NEW p, isProgram(p), NEW g, GraphInv(p, g), NEW st, NEW last \in Events(g), Lab(g, last).stamp = st,
         NEW h, h = CutGraph(g, st)
  PROVE  /\ GraphInv(p, h) /\ NoneDangles(h) /\ KeptUpTo(g, h, st) /\ Events(h) \subseteq Events(g)
         /\ \A e \in Events(h) : Lab(h, e).kind \in {"R", "W"} => Lab(h, e).stamp <= st
         /\ \A r \in Events(g) : st <= Lab(g, r).stamp => next(r) \notin Events(h)
  <1> DEFINE v == getViewFromStamp(g, st)
             c == cutToStamp(g, st)
             k == compressStampsAfter(c, st)
  <1>g. Shape(p, g) /\ Stamps(g) /\ Kinds(p, g) /\ Coherence(g)
    BY DEF GraphInv
  <1>s. st \in Nat /\ \A e \in Events(g) : Lab(g, e).stamp \in Nat
    BY <1>g DEF Shape, Lab
  <1>1. c = KeepOnly(g, v) /\ h = repairDanglingReads(k)
    BY DEF cutToStamp, CutGraph
  <1>2. /\ EmptyView \subseteq v
        /\ \A e \in Events(g) : Lab(g, e).stamp <= st => e \in v
        /\ \A e \in Events(g) \cap v : e[2] > 0 => Lab(g, e).stamp <= st
    <2> HIDE DEF v
    <2> QED BY StampView DEF v
  <1>3. Closed(g, v)
    BY StampViewClosed
  <1> HIDE DEF v, c, k
  <1>4. /\ Reworked(g, c)
        /\ \A x \in Locs : \A w \in StoresTo(g, x) : w = InitEvent \/ w \in v => w \in StoresTo(c, x)
    BY <1>1, <1>3, KeepReworked
  <1>5. /\ Events(c) = Events(g) \cap v
        /\ \A e \in Events(c) : SameLabel(g.lab[e], c.lab[e]) /\ c.lab[e].stamp = g.lab[e].stamp
    BY <1>1, KeepFacts
  <1>6. GraphInv(p, c)
    BY <1>4, ReworkedInv
  <1>7. KeptUpTo(g, c, st)
    <2>1. \A e \in Events(g) : Lab(g, e).kind \in {"R", "W"} /\ Lab(g, e).stamp <= st =>
            e \in Events(c) /\ SameLabel(Lab(g, e), Lab(c, e)) /\ Lab(c, e).stamp = Lab(g, e).stamp
      BY <1>2, <1>5 DEF Lab
    <2>2. \A x \in Locs : \A w \in StoresTo(g, x) : w = InitEvent \/ Lab(g, w).stamp <= st => w \in StoresTo(c, x)
      <3> SUFFICES ASSUME NEW x \in Locs, NEW w \in StoresTo(g, x), w # InitEvent, Lab(g, w).stamp <= st
                   PROVE  w \in StoresTo(c, x)
        BY <1>4
      <3>1. w \in Events(g)
        BY <1>g, StoresFacts
      <3> QED BY <3>1, <1>2, <1>4
    <2> QED BY <2>1, <2>2 DEF KeptUpTo
  <1>8. /\ Reworked(c, k) /\ Events(k) = Events(c) /\ k.co = c.co /\ KeptUpTo(c, k, st)
        /\ \A e \in Events(c) : SameLabel(Lab(c, e), Lab(k, e)) /\ Lab(k, e).rf = Lab(c, e).rf
    <2>1. k = compressStampsAfter(c, st)
      BY DEF k
    <2> QED BY <1>6, <1>s, <2>1, CompressReworked
  <1>9. GraphInv(p, k)
    BY <1>6, <1>8, ReworkedInv
  <1>10. Revised(k, h) /\ NoneDangles(h)
    BY <1>1, <1>9, RepairRevised
  <1>11. GraphInv(p, h) /\ Keeps(k, h)
    BY <1>9, <1>10, RevisedReworked, ReworkedInv
  <1>12. KeptUpTo(g, h, st)
    <2>1. KeptUpTo(g, k, st)
      BY <1>7, <1>8, KeptTrans
    <2>2. KeptUpTo(k, h, st)
      BY <1>11, <1>s DEF Keeps
    <2> QED BY <2>1, <2>2, KeptTrans
  <1>13. Events(h) = Events(g) \cap v
    BY <1>5, <1>8, <1>10 DEF Revised
  <1>14. ASSUME NEW e \in Events(h), Lab(h, e).kind \in {"R", "W"} PROVE Lab(h, e).stamp <= st
    <2>1. e \in Events(g) \cap v /\ e \in Events(c) /\ e \in Events(k)
      BY <1>5, <1>8, <1>13
    <2>2. Lab(h, e).kind = Lab(g, e).kind /\ Lab(h, e).stamp = Lab(k, e).stamp
      BY <2>1, <1>5, <1>8, <1>10 DEF Revised, Relabelled, SameLabel, Lab
    <2>3. e[2] # 0 /\ e[2] \in Nat
      BY <2>1, <2>2, <1>14, <1>g, EventFacts DEF Kinds, Lab
    <2>4. Lab(g, e).stamp <= st
      BY <2>1, <2>3, <1>2
    <2>5. Lab(c, e).kind \in {"R", "W"} /\ Lab(c, e).stamp = Lab(g, e).stamp
      BY <2>1, <2>2, <1>5, <1>14 DEF SameLabel, Lab
    <2>6. Lab(k, e).stamp = Lab(c, e).stamp
      BY <2>1, <2>4, <2>5, <1>8 DEF KeptUpTo
    <2> QED BY <2>2, <2>4, <2>5, <2>6
  <1>15. ASSUME NEW r \in Events(g), st <= Lab(g, r).stamp, next(r) \in Events(h) PROVE FALSE
    <2>1. next(r) \in Events(g) \cap v /\ next(r)[2] > 0 /\ prev(next(r)) = r
      BY <1>13, <1>15, <1>g, NextPrev
    <2>2. Lab(g, r).stamp < Lab(g, next(r)).stamp
      BY <2>1, <1>g DEF Stamps
    <2>3. Lab(g, next(r)).stamp <= st
      BY <2>1, <1>2
    <2> QED BY <2>1, <2>2, <2>3, <1>15, <1>s
  <1> QED BY <1>10, <1>11, <1>12, <1>13, <1>14, <1>15

\* The copy of a graph for the revisit of r by w.
LEMMA CopyFacts ==
  ASSUME NEW p, isProgram(p), NEW g, GraphInv(p, g), NEW x \in Locs, NEW r \in Events(g), isRead(g, r), Addr(g, r) = x,
         NEW w \in StoresTo(g, x), w # InitEvent, r \notin prefixView(g, w),
         NEW h, h = repairDanglingReads(copyGraph(g, r, w))
  PROVE  /\ GraphInv(p, h) /\ NoneDangles(h) /\ r \in Events(h) /\ SameLabel(Lab(g, r), Lab(h, r))
         /\ next(r) \notin Events(h) /\ w \in StoresTo(h, x)
  <1> DEFINE st == Lab(g, r).stamp
             u == getViewFromStamp(g, st)
             P == prefixView(g, w)
             v == u \cup P
             c == KeepOnly(g, v)
             k == compressStampsAfter(c, st)
             F == [e \in Events(k) |-> IF InView(P, e) THEN [k.lab[e] EXCEPT !.rev = FALSE] ELSE k.lab[e]]
             m == [k EXCEPT !.lab = F]
  <1>g. Shape(p, g) /\ Stamps(g) /\ Kinds(p, g) /\ Coherence(g) /\ ViewShape(g)
    BY DEF GraphInv
  <1>s. st \in Nat /\ \A e \in Events(g) : Lab(g, e).stamp \in Nat
    BY <1>g DEF Shape, Lab
  <1>w. w \in Events(g) /\ Lab(g, w).kind = "W"
    BY <1>g, StoresFacts
  <1>1. h = repairDanglingReads(m)
    BY Zenon DEF copyGraph, getRevisitView, update, getCopyUpTo
  <1>2. Closed(g, v)
    <2>1. Closed(g, u)
      BY StampViewClosed
    <2>2. Closed(g, P)
      BY <1>w, PrefixClosed
    <2> HIDE DEF u, P
    <2> QED BY <2>1, <2>2, ClosedUnion
  <1>3. r \in v /\ w \in v /\ next(r) \notin Events(g) \cap v
    <2>1. /\ \A e \in Events(g) : Lab(g, e).stamp <= st => e \in u
          /\ \A e \in Events(g) \cap u : e[2] > 0 => Lab(g, e).stamp <= st
      <3> HIDE DEF u
      <3> QED BY StampView DEF u
    <2> HIDE DEF u, st
    <2>2. r \in u
      <3>1. Lab(g, r).stamp <= st
        BY <1>s DEF st
      <3> QED BY <2>1, <3>1
    <2>3. P = Lab(g, w).view \cup {w}
      BY <1>g, <1>w, PrefixIs
    <2>4. ASSUME next(r) \in Events(g), next(r) \in u \cup P PROVE FALSE
      <3>1. next(r)[2] > 0 /\ prev(next(r)) = r
        BY <1>g, NextPrev
      <3>2. Lab(g, r).stamp < Lab(g, next(r)).stamp
        BY <2>4, <3>1, <1>g DEF Stamps
      <3>3. next(r) \notin u
        <4> SUFFICES ASSUME next(r) \in u PROVE FALSE
          OBVIOUS
        <4>1. Lab(g, next(r)).stamp <= st /\ st = Lab(g, r).stamp
          BY <2>1, <2>4, <3>1 DEF st
        <4> QED BY <4>1, <3>2, <1>s, <2>4
      <3>4. next(r) \in P /\ Closed(g, P)
        BY <2>4, <3>3, <1>w, PrefixClosed
      <3>5. r \in P
        BY <2>4, <3>1, <3>4 DEF Closed
      <3> QED BY <3>5
    <2> HIDE DEF P
    <2> QED BY <2>2, <2>3, <2>4
  <1> HIDE DEF u, v, c, k, P, st
  <1>4. /\ Reworked(g, c)
        /\ \A y \in Locs : \A s \in StoresTo(g, y) : s = InitEvent \/ s \in v => s \in StoresTo(c, y)
    <2>1. c = KeepOnly(g, v)
      BY DEF c
    <2> QED BY <1>2, <2>1, KeepReworked
  <1>5. /\ Events(c) = Events(g) \cap v
        /\ \A e \in Events(c) : SameLabel(g.lab[e], c.lab[e])
    BY KeepFacts DEF c
  <1>6. GraphInv(p, c)
    BY <1>4, ReworkedInv
  <1>7. /\ Reworked(c, k) /\ Events(k) = Events(c) /\ k.co = c.co
        /\ \A e \in Events(c) : SameLabel(Lab(c, e), Lab(k, e)) /\ Lab(k, e).rf = Lab(c, e).rf
    <2>1. k = compressStampsAfter(c, st)
      BY DEF k
    <2> QED BY <1>6, <1>s, <2>1, CompressReworked
  <1>8. GraphInv(p, k)
    BY <1>6, <1>7, ReworkedInv
  <1>9. DOMAIN k = {"lab", "co", "ts"} /\ DOMAIN k.co = Locs /\ \A e \in Events(k) : DOMAIN k.lab[e] = LabelFields
    BY <1>8 DEF GraphInv, Shape
  <1>10. DOMAIN F = Events(k)
         /\ \A e \in Events(k) : F[e] = k.lab[e] \/ F[e] = [k.lab[e] EXCEPT !.rev = FALSE]
    OBVIOUS
  <1> HIDE DEF F
  <1>11. DOMAIN m = {"lab", "co", "ts"} /\ m.co = k.co /\ m.ts = k.ts /\ m.lab = F
    BY <1>9
  <1> HIDE DEF m
  <1>12. Events(m) = Events(k) /\ \A y : StoresTo(m, y) = StoresTo(k, y)
    BY <1>10, <1>11 DEF Events, StoresTo
  <1>13. ASSUME NEW e \in Events(k) PROVE Relabelled(k, m, e)
    <2>1. DOMAIN F[e] = LabelFields /\ SameLabel(k.lab[e], F[e]) /\ F[e].stamp = k.lab[e].stamp /\ F[e].rf = k.lab[e].rf
      BY <1>9, <1>10 DEF LabelFields, SameLabel
    <2> QED BY <2>1, <1>11 DEF Relabelled
  <1>14. Revised(k, m)
    <2>1. \A y \in Locs : /\ m.co[y] \in Seq(Events(k)) /\ Injective(m.co[y])
                          /\ \A n \in 1 .. Len(m.co[y]) : k.lab[m.co[y][n]].kind = "W" /\ k.lab[m.co[y][n]].ins.loc = y
      <3>1. Coherence(k) /\ m.co = k.co
        BY <1>8, <1>11 DEF GraphInv
      <3> QED BY <3>1, CoherenceKept
    <2>2. /\ DOMAIN m = {"lab", "co", "ts"} /\ DOMAIN m.co = Locs /\ m.ts = k.ts
          /\ \A y \in Locs : StoresTo(k, y) \subseteq StoresTo(m, y)
      BY <1>9, <1>11, <1>12
    <2> QED BY <2>1, <2>2, <1>12, <1>13, Zenon DEF Revised
  <1>15. GraphInv(p, m)
    BY <1>8, <1>14, RevisedReworked, ReworkedInv
  <1>16. Revised(m, h) /\ NoneDangles(h) /\ h.co = m.co
    BY <1>1, <1>15, RepairRevised
  <1>17. GraphInv(p, h)
    BY <1>15, <1>16, RevisedReworked, ReworkedInv
  <1>18. Events(h) = Events(g) \cap v
    BY <1>5, <1>7, <1>12, <1>16 DEF Revised
  <1>19. r \in Events(h) /\ next(r) \notin Events(h) /\ r \in Events(c) /\ r \in Events(k) /\ r \in Events(m)
    BY <1>3, <1>5, <1>7, <1>12, <1>18
  <1>20. SameLabel(Lab(g, r), Lab(h, r))
    <2>1. SameLabel(Lab(k, r), Lab(m, r)) /\ SameLabel(Lab(m, r), Lab(h, r))
      BY <1>14, <1>16, <1>19 DEF Revised, Relabelled, Lab
    <2>2. SameLabel(Lab(g, r), Lab(c, r)) /\ SameLabel(Lab(c, r), Lab(k, r))
      BY <1>5, <1>7, <1>19 DEF Lab
    <2> QED BY <2>1, <2>2 DEF SameLabel
  <1>21. w \in StoresTo(h, x)
    <2>1. w \in StoresTo(c, x)
      BY <1>3, <1>4
    <2>2. h.co = c.co
      BY <1>7, <1>11, <1>16
    <2> QED BY <2>1, <2>2 DEF StoresTo
  <1> QED BY <1>16, <1>17, <1>19, <1>20, <1>21

-----------------------------------------------------------------------------
\* Revisits.

\* The store of an update whose load r now reads a value that makes it happen.
LEMMA CompleteKeeps ==
  ASSUME NEW p, isProgram(p), NEW g, GraphInv(p, g), NoneDangles(g), NEW r \in Events(g), isRead(g, r),
         next(r) \notin Events(g), Lab(g, r).ins.op \in {"fai", "cas"}, NEW h, h = completeRevisitedRMW(g, r)
  PROVE  GraphInv(p, h) /\ NoneDangles(h) /\ Keeps(g, h) /\ LastWrite(h, next(r))
  <1> DEFINE t == r[1]
             e == next(r)
             ins == Lab(g, r).ins
             new == NewLabel("W", Lab(g, r).pc, ins)
             lab == [new EXCEPT !.val = RMWResult(ins, getReadValue(g, r))]
             k == addLabelToGraph(g, t, lab)
             x == ins.loc
  <1>g. Shape(p, g) /\ Stamps(g) /\ Kinds(p, g) /\ Coherence(g)
    BY DEF GraphInv
  <1>1. h = addStoreToCOAfter(k, e, Lab(k, r).rf) \/ h = addStoreToCOAfter(k, e, Lab(g, r).rf)
    BY Zenon DEF completeRevisitedRMW
  <1>2. /\ r[1] \in DOMAIN p /\ r[2] \in Nat /\ r = <<t, r[2]>> /\ e = <<t, r[2] + 1>> /\ e[1] = t /\ e[2] = r[2] + 1
        /\ e[2] > 0 /\ prev(e) = r /\ next(e) = <<t, r[2] + 2>>
    <2>1. r[1] \in DOMAIN p /\ r[2] \in Nat /\ r = <<t, r[2]>>
      BY <1>g, EventFacts
    <2> QED BY <2>1 DEF next, prev
  <1>3. e = <<t, ThreadSize(g, t)>>
    <2>1. t \in LiveThreads(g)
      BY DEF LiveThreads
    <2>2. LastEvent(g, t) = r
      BY <2>1, <1>g, LastFacts
    <2> QED BY <2>1, <2>2, <1>g, LastFacts
  <1>4. next(e) \notin Events(g)
    <2> SUFFICES ASSUME next(e) \in Events(g) PROVE FALSE
      OBVIOUS
    <2>1. next(e)[2] > 0 => prev(next(e)) \in Events(g)
      BY <1>g DEF Shape
    <2>2. next(e)[2] > 0 /\ prev(next(e)) = e
      BY <1>2 DEF prev
    <2> QED BY <2>1, <2>2
  <1>5. /\ Lab(g, r).pc \in DOMAIN p[t] /\ ins = p[t][Lab(g, r).pc] /\ Lab(g, r).pc \in Nat
        /\ ins.op \in AccessOps /\ x \in Locs /\ Addr(g, r) = x
    <2>1. Lab(g, r).pc \in DOMAIN p[t] /\ ins = p[t][Lab(g, r).pc] /\ ins.op \in AccessOps /\ Lab(g, r).pc \in Nat
      BY <1>g DEF Kinds, Lab, isRead, Shape
    <2>2. Addr(g, r) \in Locs /\ Addr(g, r) = x
      BY <1>g, AccessLoc DEF isRead, Addr
    <2> QED BY <2>1, <2>2
  <1>6. DOMAIN lab = LabelFields /\ lab.kind = "W" /\ lab.pc = Lab(g, r).pc /\ lab.ins = ins
    <2> HIDE DEF new
    <2>1. DOMAIN new = LabelFields /\ new.kind = "W" /\ new.pc = Lab(g, r).pc /\ new.ins = ins
      BY NewLabelFacts DEF new
    <2> HIDE DEF ins
    <2> QED BY <2>1 DEF LabelFields
  <1> HIDE DEF lab, e
  <1>7. LabelFits(p, g, e, lab) /\ SyncFit(g, e)
    <2>1. e \in (DOMAIN p) \X Nat /\ e \notin Events(g) /\ e[2] # 0 /\ Lab(g, r).kind = "R" /\ ~ Dangles(g, r)
      BY <1>2 DEF isRead, NoneDangles, e
    <2> QED BY <2>1, <1>2, <1>4, <1>5, <1>6 DEF LabelFits, SyncFit
  <1>8. /\ Grown(g, k, e) /\ GraphInv(p, k) /\ Keeps(g, k) /\ NoneDangles(k)
        /\ \A f \in LabelFields \ {"view", "stamp"} : Lab(k, e)[f] = lab[f]
    <2> HIDE DEF k
    <2>1. k = addLabelToGraph(g, t, lab) /\ LabelFits(p, g, <<t, ThreadSize(g, t)>>, lab) /\ SyncFit(g, <<t, ThreadSize(g, t)>>)
          /\ lab.kind # "block" /\ lab.kind # "R"
      BY <1>3, <1>6, <1>7 DEF k
    <2>2. Grown(g, k, <<t, ThreadSize(g, t)>>) /\ GraphInv(p, k) /\ Keeps(g, k)
      BY <2>1, AddFacts
    <2>3. NoneDangles(k)
      BY <2>1, AddFacts
    <2>4. \A f \in LabelFields \ {"view", "stamp"} : Lab(k, <<t, ThreadSize(g, t)>>)[f] = lab[f]
      BY <2>1, AddFacts
    <2> QED BY <1>3, <2>2, <2>3, <2>4
  <1>9. Lab(k, e).kind = "W" /\ Addr(k, e) = x /\ e \in Events(k)
    BY <1>6, <1>8 DEF LabelFields, Addr, Grown
  <1>10. Lab(k, r).rf = Lab(g, r).rf /\ StoresTo(k, x) = StoresTo(g, x)
    BY <1>8 DEF Grown, StoresTo
  <1> HIDE DEF k, t
  <1>11. Lab(g, r).rf \in StoresTo(k, x)
    BY <1>5, <1>10, RfInGraph DEF NoneDangles
  <1>12. e \notin StoresTo(k, x)
    BY <1>5, <1>10, <1>g, NotBottom DEF e
  <1>13. Revised(k, h) /\ (\A q : Lab(h, q) = Lab(k, q)) /\ Events(h) = Events(k) /\ e \in StoresTo(h, x)
    <2> DEFINE s == Lab(g, r).rf
    <2>1. h = addStoreToCOAfter(k, e, s) /\ s \in StoresTo(k, Addr(k, e)) /\ e \notin StoresTo(k, Addr(k, e))
          /\ Addr(k, e) \in Locs
      BY <1>1, <1>5, <1>9, <1>10, <1>11, <1>12
    <2> HIDE DEF s
    <2>2. Revised(k, h) /\ (\A q : Lab(h, q) = Lab(k, q)) /\ Events(h) = Events(k) /\ e \in StoresTo(h, Addr(k, e))
      BY <1>8, <1>9, <2>1, AddToCoRevised
    <2> QED BY <1>9, <2>2
  <1>14. GraphInv(p, h) /\ Keeps(k, h)
    BY <1>8, <1>13, RevisedReworked, ReworkedInv
  <1>15. NoneDangles(h)
    BY <1>8, <1>13 DEF NoneDangles, isRead, Dangles
  <1>16. Keeps(g, h)
    BY <1>8, <1>14, KeepsTrans
  <1>17. LastWrite(h, e)
    <2>1. ASSUME NEW q \in Events(h), isRead(h, q) PROVE Lab(h, q).stamp < Lab(h, e).stamp
      <3>1. q \in Events(g) /\ q # e
        BY <2>1, <1>8, <1>9, <1>13 DEF Grown, isRead
      <3>2. Lab(h, q).stamp = Lab(g, q).stamp /\ Lab(h, e).stamp = g.ts
        BY <3>1, <1>8, <1>13 DEF Grown
      <3> QED BY <3>1, <3>2, <1>g DEF Stamps
    <2>2. Addr(h, e) = x /\ Lab(h, e).kind = "W" /\ e \in Events(h)
      BY <1>9, <1>13 DEF Addr
    <2>3. e # InitEvent
      BY <1>2 DEF InitEvent
    <2> QED BY <2>1, <2>2, <2>3, <1>5, <1>13 DEF LastWrite
  <1> QED BY <1>14, <1>15, <1>16, <1>17 DEF e

\* A load reads the store it is revisited by.
LEMMA ReadAgain ==
  ASSUME NEW p, isProgram(p), NEW g, GraphInv(p, g), NoneDangles(g), NEW r \in Events(g), isRead(g, r),
         next(r) \notin Events(g), NEW w \in StoresTo(g, Addr(g, r)),
         NEW lab, DOMAIN lab = LabelFields, SameLabel(Lab(g, r), lab), lab.stamp = Lab(g, r).stamp, lab.rf = w,
         NEW h, h = SetLab(g, r, lab)
  PROVE  /\ GraphInv(p, h) /\ NoneDangles(h) /\ Keeps(g, h) /\ Events(h) = Events(g)
         /\ isRead(h, r) /\ Lab(h, r).ins = Lab(g, r).ins /\ Lab(h, r).rf = w
         /\ getWriteValue(h, w) = getWriteValue(g, w)
  <1>g. Shape(p, g) /\ Kinds(p, g) /\ Coherence(g)
    BY DEF GraphInv
  <1>1. Addr(g, r) \in Locs
    BY <1>g, AccessLoc DEF isRead
  <1>4. /\ Revised(g, h) /\ Lab(h, r) = lab /\ h.co = g.co /\ Events(h) = Events(g)
        /\ \A q \in Events(g) : q # r => Lab(h, q) = Lab(g, q)
    BY SetLabRevised
  <1>5. GraphInv(p, h) /\ Keeps(g, h)
    BY <1>4, RevisedReworked, ReworkedInv
  <1>6. NoneDangles(h)
    <2>1. \A q \in Events(g) : isRead(g, q) /\ Dangles(g, q) => ~ Dangles(h, q)
      BY DEF NoneDangles
    <2> QED BY <1>4, <2>1, RevisedReworked
  <1>7. getWriteValue(h, w) = getWriteValue(g, w)
    <2>1. CASE w = InitEvent
      BY <2>1 DEF getWriteValue
    <2>2. CASE w # InitEvent
      <3>1. w \in Events(g) /\ Lab(g, w).kind = "W"
        BY <2>2, <1>1, <1>g, StoresFacts
      <3>2. w # r
        BY <3>1 DEF isRead
      <3> QED BY <2>2, <3>1, <3>2, <1>4 DEF getWriteValue
    <2> QED BY <2>1, <2>2
  <1> QED BY <1>4, <1>5, <1>6, <1>7 DEF isRead, SameLabel

\* The empty worklist is valid.
LEMMA NoItems ==
  ASSUME NEW g
  PROVE  WorklistOK(g, <<>>, ipr)
  <1> DEFINE S == {}
  <1>1. <<>> \in Seq(S)
    OBVIOUS
  <1>2. \A item \in S : ItemOK(g, item, ipr)
    OBVIOUS
  <1> HIDE DEF S
  <1> QED BY <1>1, <1>2, Zenon, OwnRange DEF WorklistOK

\* revisitRead keeps the invariant: the load reads its other store, and the store of
\* an update follows it.
LEMMA RevisitReadKeeps ==
  ASSUME NEW p, isProgram(p), NEW x, IsRun(x), RunOK(p, x), NEW r \in Events(x.g), isRead(x.g, r),
         next(r) \notin Events(x.g), NEW w \in StoresTo(x.g, Addr(x.g, r)), NEW m,
         \/ x.wl = <<>>
         \/ ipr /\ Lab(x.g, r).ins.op = "cas" /\ isAnnotated(Lab(x.g, r).ins) =>
              getWriteValue(x.g, w) = Lab(x.g, r).ins.ann,
         NEW y, y = revisitRead(x, r, w, m)
  PROVE  IsRun(y) /\ RunOK(p, y) /\ y.bug = x.bug /\ y.error = x.error
  <1> DEFINE g == x.g
             ins == Lab(g, r).ins
             k == SetLab(g, r, [Lab(g, r) EXCEPT !.rf = w, !.max = m, !.ipr = FALSE])
             u == [x EXCEPT !.g = k]
             z == [u EXCEPT !.g = completeRevisitedRMW(@, r)]
  <1>g. GraphInv(p, g) /\ NoneDangles(g) /\ WorklistOK(g, x.wl, ipr)
    BY DEF RunOK
  <1>1. /\ GraphInv(p, k) /\ NoneDangles(k) /\ Keeps(g, k) /\ Events(k) = Events(g)
        /\ isRead(k, r) /\ Lab(k, r).ins = ins /\ Lab(k, r).rf = w
        /\ getWriteValue(k, w) = getWriteValue(g, w)
    <2> DEFINE lab == [Lab(g, r) EXCEPT !.rf = w, !.max = m, !.ipr = FALSE]
    <2>1. DOMAIN Lab(g, r) = LabelFields
      BY <1>g DEF GraphInv, Shape, Lab
    <2>2. DOMAIN lab = LabelFields /\ SameLabel(Lab(g, r), lab) /\ lab.stamp = Lab(g, r).stamp /\ lab.rf = w
      BY <2>1 DEF LabelFields, SameLabel
    <2> HIDE DEF lab
    <2>3. k = SetLab(g, r, lab)
      BY DEF lab
    <2> HIDE DEF k, ins
    <2>4. r \in Events(g) /\ isRead(g, r) /\ next(r) \notin Events(g) /\ w \in StoresTo(g, Addr(g, r))
      OBVIOUS
    <2> HIDE DEF g
    <2>5. GraphInv(p, k) /\ NoneDangles(k) /\ Keeps(g, k) /\ Events(k) = Events(g)
      BY <1>g, <2>2, <2>3, <2>4, ReadAgain
    <2>6. isRead(k, r) /\ Lab(k, r).ins = Lab(g, r).ins /\ Lab(k, r).rf = w
      BY <1>g, <2>2, <2>3, <2>4, ReadAgain
    <2>7. getWriteValue(k, w) = getWriteValue(g, w)
      BY <1>g, <2>2, <2>3, <2>4, ReadAgain
    <2> QED BY <2>5, <2>6, <2>7 DEF ins
  <1>2. IsRun(u) /\ u.g = k /\ u.wl = x.wl /\ u.bug = x.bug /\ u.error = x.error
    <2> HIDE DEF k
    <2> QED BY DEF IsRun, RunFields
  <1>3. y = readRevisited(u, r, ins)
    <2> DEFINE lab == [Lab(g, r) EXCEPT !.rf = w, !.max = m, !.ipr = FALSE]
    <2>1. DOMAIN Lab(g, r) = LabelFields
      BY <1>g DEF GraphInv, Shape, Lab
    <2>2. lab.ins = ins
      BY <2>1 DEF LabelFields
    <2>3. y = readRevisited([x EXCEPT !.g = SetLab(g, r, lab)], r, lab.ins)
      BY DEF revisitRead
    <2> QED BY <2>2, <2>3
  <1> HIDE DEF k, u
  <1>4. y = IF CASBlocks(k, ins, w) THEN [u EXCEPT !.g = removeCASRead(@, r)]
            ELSE IF valueMakesRMWSucceed(ins, getReadValue(k, r)) THEN calcRevisits(z, next(r)) ELSE u
    <2>1. y = IF CASBlocks(u.g, ins, Lab(u.g, r).rf) THEN [u EXCEPT !.g = removeCASRead(@, r)]
              ELSE IF valueMakesRMWSucceed(ins, getReadValue(u.g, r)) THEN calcRevisits(z, next(r)) ELSE u
      BY <1>3, Zenon DEF readRevisited, z
    <2> HIDE DEF ins, z
    <2> QED BY <1>1, <1>2, <2>1
  <1>5. WorklistOK(k, x.wl, ipr)
    BY <1>g, <1>1, WorklistStays
  <1>6. CASE y = u
    BY <1>1, <1>2, <1>5, <1>6 DEF RunOK
  <1>7. CASE CASBlocks(k, ins, w) /\ y = [u EXCEPT !.g = removeCASRead(@, r)]
    <2> DEFINE h == removeCASRead(k, r)
    <2>1. x.wl = <<>>
      BY <1>1, <1>7 DEF CASBlocks, valueMakesAssumeSucceed
    <2>2. GraphInv(p, h) /\ NoneDangles(h)
      <3>1. \A q \in Events(k) : isRead(k, q) /\ q # r => ~ Dangles(k, q)
        BY <1>1 DEF NoneDangles
      <3> QED BY <1>1, <3>1, RemoveCASReadFacts
    <2>3. WorklistOK(h, <<>>, ipr)
      BY NoItems
    <2>4. IsRun(y) /\ y.g = h /\ y.wl = <<>> /\ y.bug = x.bug /\ y.error = x.error
      <3> HIDE DEF h
      <3>1. y = [u EXCEPT !.g = h]
        BY <1>2, <1>7 DEF h
      <3> QED BY <1>2, <2>1, <3>1 DEF IsRun, RunFields
    <2> QED BY <2>2, <2>3, <2>4 DEF RunOK
  <1>8. CASE valueMakesRMWSucceed(ins, getReadValue(k, r)) /\ y = calcRevisits(z, next(r))
    <2> DEFINE h == completeRevisitedRMW(k, r)
    <2>1. Lab(k, r).ins.op \in {"fai", "cas"}
      BY <1>1, <1>8 DEF valueMakesRMWSucceed
    <2>2. GraphInv(p, h) /\ NoneDangles(h) /\ Keeps(k, h) /\ LastWrite(h, next(r))
      BY <1>1, <2>1, CompleteKeeps
    <2>3. z = [u EXCEPT !.g = h]
      BY <1>2
    <2> HIDE DEF h, z
    <2>4. IsRun(z) /\ z.g = h /\ z.wl = x.wl /\ z.bug = x.bug /\ z.error = x.error
      BY <1>2, <2>3 DEF IsRun, RunFields
    <2>5. WorklistOK(h, x.wl, ipr)
      BY <1>1, <1>5, <2>2, WorklistStays
    <2>6. RunOK(p, z)
      BY <2>2, <2>4, <2>5 DEF RunOK
    <2>7. IsRun(y) /\ RunOK(p, y) /\ y.error = z.error /\ y.bug = z.bug
      BY <1>8, <2>2, <2>4, <2>6, CalcRevisitsKeeps
    <2> QED BY <2>4, <2>7
  <1> QED BY <1>4, <1>6, <1>7, <1>8

\* revisitWrite keeps the invariant: the store moves in coherence and may revisit loads.
LEMMA RevisitWriteKeeps ==
  ASSUME NEW p, isProgram(p), NEW x, IsRun(x), RunOK(p, x), NEW w \in Events(x.g), Lab(x.g, w).kind = "W",
         w # InitEvent, w \in StoresTo(x.g, Addr(x.g, w)),
         NEW pred \in StoresTo(x.g, Addr(x.g, w)), pred # w,
         \A r \in Events(x.g) : isRead(x.g, r) => Lab(x.g, r).stamp < Lab(x.g, w).stamp,
         NEW y, y = revisitWrite(x, w, pred)
  PROVE  IsRun(y) /\ RunOK(p, y) /\ y.bug = x.bug /\ y.error = x.error
  <1> DEFINE g == x.g
             loc == Addr(g, w)
             k == moveStoreCOAfter(g, w, pred)
             lab == [Lab(k, w) EXCEPT !.max = FALSE]
             h == SetLab(k, w, lab)
             u == [x EXCEPT !.g = h]
  <1>g. GraphInv(p, g) /\ NoneDangles(g) /\ WorklistOK(g, x.wl, ipr) /\ loc \in Locs
    BY AccessLoc DEF RunOK, GraphInv
  <1>y. y = calcRevisits(u, w)
    BY DEF revisitWrite, setAddedMax
  <1>1. Revised(g, k) /\ (\A e : Lab(k, e) = Lab(g, e)) /\ Events(k) = Events(g) /\ w \in StoresTo(k, loc)
    <2> HIDE DEF k, loc, g
    <2>1. k = moveStoreCOAfter(g, w, pred) /\ w \in StoresTo(g, loc) /\ pred \in StoresTo(g, loc)
      BY DEF k, loc, g
    <2> QED BY <1>g, <2>1, MoveInCoRevised
  <1> HIDE DEF k
  <1>2. GraphInv(p, k) /\ Keeps(g, k) /\ NoneDangles(k)
    <2>1. GraphInv(p, k) /\ Keeps(g, k)
      BY <1>g, <1>1, RevisedReworked, ReworkedInv
    <2>2. NoneDangles(k)
      BY <1>1, <1>g DEF NoneDangles, isRead, Dangles
    <2> QED BY <2>1, <2>2
  <1>3. DOMAIN lab = LabelFields /\ SameLabel(Lab(k, w), lab) /\ lab.stamp = Lab(k, w).stamp
    <2>1. DOMAIN Lab(k, w) = LabelFields
      BY <1>1, <1>2 DEF GraphInv, Shape, Lab
    <2> QED BY <2>1 DEF LabelFields, SameLabel
  <1> HIDE DEF lab
  <1>4. /\ Revised(k, h) /\ Lab(h, w) = lab /\ h.co = k.co /\ Events(h) = Events(k)
        /\ \A q \in Events(k) : q # w => Lab(h, q) = Lab(k, q)
    <2>1. w \in Events(k) /\ Lab(k, w).kind # "R"
      BY <1>1
    <2> QED BY <1>2, <1>3, <2>1, SetLabRevised
  <1> HIDE DEF h
  <1>5. GraphInv(p, h) /\ Keeps(k, h)
    BY <1>2, <1>4, RevisedReworked, ReworkedInv
  <1>6. Lab(h, w).kind = "W" /\ Addr(h, w) = loc /\ Lab(h, w).stamp = Lab(g, w).stamp
    BY <1>1, <1>3, <1>4 DEF SameLabel, Addr
  <1>7. NoneDangles(h)
    <2>1. \A q \in Events(k) : isRead(k, q) /\ Dangles(k, q) => ~ Dangles(h, q)
      BY <1>2 DEF NoneDangles
    <2> QED BY <1>2, <1>4, <2>1, RevisedReworked
  <1>8. LastWrite(h, w)
    <2>1. ASSUME NEW r \in Events(h), isRead(h, r) PROVE Lab(h, r).stamp < Lab(h, w).stamp
      <3>1. r \in Events(g) /\ r # w
        BY <2>1, <1>1, <1>4, <1>6 DEF isRead
      <3>2. Lab(h, r) = Lab(g, r)
        BY <3>1, <1>1, <1>4
      <3> QED BY <2>1, <3>1, <3>2, <1>6 DEF isRead
    <2>2. w \in StoresTo(h, loc) /\ w \in Events(h)
      BY <1>1, <1>4 DEF StoresTo
    <2> QED BY <2>1, <2>2, <1>6, <1>g DEF LastWrite
  <1>9. IsRun(u) /\ u.g = h /\ u.wl = x.wl /\ u.bug = x.bug /\ u.error = x.error
    BY DEF IsRun, RunFields
  <1> HIDE DEF u
  <1>10. RunOK(p, u)
    <2>1. Keeps(g, h)
      BY <1>g, <1>2, <1>5, KeepsTrans
    <2>2. WorklistOK(h, x.wl, ipr)
      BY <1>g, <2>1, WorklistStays
    <2> QED BY <2>2, <1>5, <1>7, <1>9 DEF RunOK
  <1>11. IsRun(y) /\ RunOK(p, y) /\ y.error = u.error /\ y.bug = u.bug
    BY <1>y, <1>8, <1>9, <1>10, CalcRevisitsKeeps
  <1> QED BY <1>9, <1>11

\* The item taken next has the largest stamp of the worklist.
LEMMA NextItemFacts ==
  ASSUME NEW b \in Nat, NEW S, \A item \in S : item.stamp \in 0 .. b, NEW wl \in Seq(S), wl # <<>>, NEW k, k = NextItem(wl)
  PROVE  k \in 1 .. Len(wl) /\ wl[k] \in S /\ \A j \in 1 .. Len(wl) : wl[j] \in S /\ wl[j].stamp <= wl[k].stamp
  <1> DEFINE n == Len(wl)
             F == [j \in 1 .. n |-> wl[j].stamp]
             T == {F[j] : j \in 1 .. n}
             m == Max(T)
             K == {j \in 1 .. n : F[j] = m}
             l == Max(K)
  <1>1. n \in Nat /\ n > 0 /\ DOMAIN wl = 1 .. n /\ \A j \in 1 .. n : wl[j] \in S
    OBVIOUS
  <1> HIDE DEF n
  <1>2. \A j \in 1 .. n : F[j] \in 0 .. b /\ F[j] = wl[j].stamp
    BY <1>1
  <1> HIDE DEF F
  <1>3. T \in SUBSET (0 .. b) /\ T # {}
    <2>1. T \subseteq 0 .. b
      BY <1>2
    <2>2. 1 \in 1 .. n
      BY <1>1
    <2>3. F[1] \in T
      BY <2>2
    <2> QED BY <2>1, <2>3
  <1>4. m \in T /\ \A v \in T : v <= m
    <2> HIDE DEF T
    <2> QED BY <1>3, MaxFacts
  <1> HIDE DEF m
  <1>5. K \in SUBSET (0 .. n) /\ K # {}
    <2>1. K \subseteq 0 .. n
      BY <1>1
    <2> QED BY <2>1, <1>4
  <1>6. l \in K /\ \A j \in K : j <= l
    <2> HIDE DEF K
    <2> QED BY <1>1, <1>5, MaxFacts
  <1> HIDE DEF l
  <1>7. l \in 1 .. n /\ F[l] = m
    BY <1>6
  <1>8. \A j \in 1 .. n : F[j] \in T /\ F[j] <= m
    BY <1>4
  <1> HIDE DEF T
  <1>9. \A j \in 1 .. n : F[j] < F[l] \/ (F[j] = F[l] /\ j <= l)
    <2> SUFFICES ASSUME NEW j \in 1 .. n, ~ F[j] < F[l] PROVE F[j] = F[l] /\ j <= l
      OBVIOUS
    <2>1. F[j] <= m /\ F[j] \in 0 .. b /\ F[l] \in 0 .. b /\ F[l] = m
      BY <1>2, <1>7, <1>8
    <2>2. F[j] = m
      BY <2>1
    <2> QED BY <2>1, <2>2, <1>6
  <1>10. \A j \in DOMAIN wl : wl[j].stamp < wl[l].stamp \/ (wl[j].stamp = wl[l].stamp /\ j <= l)
    BY <1>1, <1>2, <1>7, <1>9
  <1>11. k \in DOMAIN wl /\ \A j \in DOMAIN wl : wl[j].stamp < wl[k].stamp \/ (wl[j].stamp = wl[k].stamp /\ j <= k)
    <2>1. l \in DOMAIN wl
      BY <1>1, <1>7
    <2> QED BY <2>1, <1>10, Zenon DEF NextItem
  <1>12. ASSUME NEW j \in 1 .. n PROVE wl[j].stamp <= wl[k].stamp
    <2>1. wl[j].stamp \in 0 .. b /\ wl[k].stamp \in 0 .. b
      BY <1>1, <1>11
    <2> QED BY <2>1, <1>1, <1>11
  <1> QED BY <1>1, <1>11, <1>12 DEF n

\* A worklist without one of its items.
LEMMA RemoveItem ==
  ASSUME NEW S, NEW wl \in Seq(S), NEW k \in 1 .. Len(wl)
  PROVE  RemoveAt(wl, k) \in Seq(S)
  <1>1. SubSeq(wl, 1, k - 1) \in Seq(S) /\ SubSeq(wl, k + 1, Len(wl)) \in Seq(S)
    OBVIOUS
  <1> QED BY <1>1 DEF RemoveAt

\* Before an item is run the graph is cut back to its stamp: the item is still valid,
\* and so are all the items that stay.
LEMMA RestrictKeeps ==
  ASSUME NEW p, isProgram(p), NEW g, GraphInv(p, g), NEW wl, WorklistOK(g, wl, ipr), wl # <<>>,
         NEW k, k = NextItem(wl), NEW item, item = wl[k], NEW h, h = CutGraph(g, item.stamp)
  PROVE  /\ GraphInv(p, h) /\ NoneDangles(h) /\ WorklistOK(h, RemoveAt(wl, k), ipr) /\ ItemOK(h, item, ipr)
         /\ item.kind # "back" => next(item.pos) \notin Events(h)
         /\ \A e \in Events(h) : Lab(h, e).kind \in {"R", "W"} => Lab(h, e).stamp <= item.stamp
  <1>g. Shape(p, g) /\ Stamps(g) /\ Coherence(g)
    BY DEF GraphInv
  <1>1. PICK S : wl \in Seq(S) /\ \A i \in S : ItemOK(g, i, ipr)
    BY DEF WorklistOK
  <1>2. ASSUME NEW i \in S
        PROVE  \E last \in Events(g) : Lab(g, last).stamp = i.stamp /\ (i.kind # "back" => last = i.pos)
    <2>1. CASE i.kind = "back"
      <3>1. i.pos \in Events(g) /\ i.rev \in StoresTo(g, Addr(g, i.pos)) /\ i.rev # InitEvent
            /\ Lab(g, i.rev).stamp = i.stamp /\ Lab(g, i.pos).kind = "R"
        BY <1>1, <2>1 DEF ItemOK
      <3>2. Addr(g, i.pos) \in Locs
        BY <3>1, AccessLoc DEF GraphInv
      <3>3. i.rev \in Events(g)
        BY <3>1, <3>2, <1>g, StoresFacts
      <3> QED BY <2>1, <3>1, <3>3
    <2>2. CASE i.kind # "back"
      BY <1>1, <2>2 DEF ItemOK
    <2> QED BY <2>1, <2>2
  <1>3. g.ts \in Nat /\ \A i \in S : i.stamp \in 0 .. g.ts
    <2>1. g.ts \in Nat /\ \A e \in Events(g) : Lab(g, e).stamp \in Nat /\ Lab(g, e).stamp < g.ts
      BY <1>g DEF Shape, Stamps, Lab
    <2>2. \A e \in Events(g) : Lab(g, e).stamp \in 0 .. g.ts
      BY <2>1
    <2> QED BY <1>2, <2>1, <2>2
  <1>4. k \in 1 .. Len(wl) /\ item \in S /\ \A j \in 1 .. Len(wl) : wl[j] \in S /\ wl[j].stamp <= item.stamp
    BY <1>1, <1>3, NextItemFacts
  <1> DEFINE st == item.stamp
             rest == RemoveAt(wl, k)
             U == {i \in S : i.stamp <= st}
  <1>5. PICK last \in Events(g) : Lab(g, last).stamp = st /\ (item.kind # "back" => last = item.pos)
    BY <1>2, <1>4
  <1>6. st \in Nat
    BY <1>3, <1>4
  <1>7. /\ GraphInv(p, h) /\ NoneDangles(h) /\ KeptUpTo(g, h, st)
        /\ \A e \in Events(h) : Lab(h, e).kind \in {"R", "W"} => Lab(h, e).stamp <= st
        /\ \A r \in Events(g) : st <= Lab(g, r).stamp => next(r) \notin Events(h)
    <2> HIDE DEF st
    <2>1. h = CutGraph(g, st)
      BY DEF st
    <2>2. GraphInv(p, h) /\ NoneDangles(h) /\ KeptUpTo(g, h, st)
      BY <1>5, <2>1, CutFacts
    <2>3. \A e \in Events(h) : Lab(h, e).kind \in {"R", "W"} => Lab(h, e).stamp <= st
      BY <1>5, <2>1, CutFacts
    <2>4. \A r \in Events(g) : st <= Lab(g, r).stamp => next(r) \notin Events(h)
      BY <1>5, <2>1, CutFacts
    <2> QED BY <2>2, <2>3, <2>4
  <1>8. \A i \in U : ItemOK(h, i, ipr)
    <2> SUFFICES ASSUME NEW i \in S, i.stamp <= st PROVE ItemOK(h, i, ipr)
      OBVIOUS
    <2> QED BY <1>1, <1>6, <1>7, ItemKept
  <1>9. wl \in Seq(U)
    <2>1. Len(wl) \in Nat /\ DOMAIN wl = 1 .. Len(wl) /\ wl = [j \in 1 .. Len(wl) |-> wl[j]]
      BY <1>1
    <2>2. \A j \in 1 .. Len(wl) : wl[j] \in U
      BY <1>4
    <2> HIDE DEF U
    <2> QED BY <2>1, <2>2
  <1>10. WorklistOK(h, rest, ipr)
    <2> HIDE DEF U
    <2>1. rest \in Seq(U)
      BY <1>4, <1>9, RemoveItem
    <2> HIDE DEF rest
    <2> QED BY <2>1, <1>8, OwnRange DEF WorklistOK
  <1>11. ItemOK(h, item, ipr)
    BY <1>4, <1>6, <1>8
  <1>12. item.kind # "back" => next(item.pos) \notin Events(h)
    BY <1>5, <1>6, <1>7
  <1> QED BY <1>7, <1>10, <1>11, <1>12

\* A forward revisit keeps the invariant.
LEMMA ForwardKeeps ==
  ASSUME NEW p, isProgram(p), NEW x, IsRun(x), RunOK(p, x), NEW item, ItemOK(x.g, item, ipr), item.kind # "back",
         next(item.pos) \notin Events(x.g),
         \A e \in Events(x.g) : Lab(x.g, e).kind \in {"R", "W"} => Lab(x.g, e).stamp <= item.stamp,
         NEW y, y = forwardRevisit(x, item)
  PROVE  IsRun(y) /\ RunOK(p, y) /\ y.bug = x.bug /\ y.error = x.error
  <1> DEFINE g == x.g
             r == item.pos
             w == item.rev
  <1>g. GraphInv(p, g) /\ Shape(p, g) /\ Stamps(g) /\ Kinds(p, g)
    BY DEF RunOK, GraphInv
  <1>1. /\ r \in Events(g) /\ w \in StoresTo(g, Addr(g, r)) /\ Lab(g, r).stamp = item.stamp
        /\ w # InitEvent => Lab(g, w).stamp < item.stamp
    BY DEF ItemOK
  <1>2. CASE item.kind = "read"
    <2>1. /\ isRead(g, r)
          /\ ipr /\ Lab(g, r).ins.op = "cas" /\ isAnnotated(Lab(g, r).ins) => getWriteValue(g, w) = Lab(g, r).ins.ann
      BY <1>2 DEF ItemOK, isRead
    <2>2. y = revisitRead(x, r, w, FALSE)
      BY <1>2 DEF forwardRevisit
    <2> DEFINE m == FALSE
    <2> HIDE DEF r, w, m
    <2>3. next(r) \notin Events(g) /\ y = revisitRead(x, r, w, m)
      BY <2>2 DEF r, m
    <2> QED BY <1>1, <2>1, <2>3, RevisitReadKeeps
  <1>3. CASE item.kind = "write"
    <2>1. Lab(g, r).kind = "W" /\ r \in StoresTo(g, Addr(g, r))
      BY <1>3 DEF ItemOK
    <2>2. y = revisitWrite(x, r, w)
      BY <1>3 DEF forwardRevisit
    <2>3. r # InitEvent
      BY <1>1, <2>1, <1>g DEF Kinds, Lab
    <2>4. \A e \in Events(g) : Lab(g, e).stamp \in Nat
      BY <1>g DEF Shape, Lab
    <2>5. w # r
      BY <1>1, <2>3, <2>4
    <2>6. ASSUME NEW e \in Events(g), isRead(g, e) PROVE Lab(g, e).stamp < Lab(g, r).stamp
      <3>1. e # r /\ Lab(g, e).stamp <= item.stamp
        BY <2>1, <2>6 DEF isRead
      <3>2. Lab(g, e).stamp # Lab(g, r).stamp
        BY <3>1, <1>1, <1>g DEF Stamps
      <3> QED BY <3>1, <3>2, <1>1, <2>4
    <2> HIDE DEF r, w
    <2> QED BY <1>1, <2>1, <2>2, <2>3, <2>5, <2>6, RevisitWriteKeeps
  <1> QED BY <1>2, <1>3 DEF ItemOK

\* A backward revisit runs on a copy of the graph that has the invariant.
LEMMA BackwardKeeps ==
  ASSUME NEW p, isProgram(p), NEW x, IsRun(x), GraphInv(p, x.g), NEW item, ItemOK(x.g, item, ipr), item.kind = "back",
         NEW y, y = backwardRevisit(x, item.pos, item.rev)
  PROVE  IsRun(y) /\ RunOK(p, y) /\ y.bug = x.bug /\ y.error = x.error
  <1> DEFINE g == x.g
             r == item.pos
             w == item.rev
             loc == Addr(g, r)
             h == repairDanglingReads(copyGraph(g, r, w))
             m == w = co_max(h, Addr(h, r))
             u == [x EXCEPT !.g = h, !.wl = <<>>]
  <1>1. /\ r \in Events(g) /\ w \in StoresTo(g, loc) /\ isRead(g, r) /\ w # InitEvent
        /\ r \notin prefixView(g, w)
    BY DEF ItemOK, isRead
  <1>2. loc \in Locs
    BY <1>1, AccessLoc DEF GraphInv, isRead
  <1>y. y = revisitRead(u, r, w, m)
    BY DEF backwardRevisit
  <1>3. /\ GraphInv(p, h) /\ NoneDangles(h) /\ r \in Events(h) /\ SameLabel(Lab(g, r), Lab(h, r))
        /\ next(r) \notin Events(h) /\ w \in StoresTo(h, loc)
    <2> HIDE DEF r, w, loc, h
    <2>1. h = repairDanglingReads(copyGraph(g, r, w)) /\ Addr(g, r) = loc
      BY DEF h, loc
    <2>2. GraphInv(p, h) /\ NoneDangles(h) /\ r \in Events(h) /\ SameLabel(Lab(g, r), Lab(h, r))
      BY <1>1, <1>2, <2>1, CopyFacts
    <2>3. next(r) \notin Events(h) /\ w \in StoresTo(h, loc)
      BY <1>1, <1>2, <2>1, CopyFacts
    <2> QED BY <2>2, <2>3
  <1> HIDE DEF h, m
  <1>4. isRead(h, r) /\ Addr(h, r) = loc
    BY <1>1, <1>3 DEF SameLabel, Addr, isRead
  <1>5. IsRun(u) /\ u.g = h /\ u.wl = <<>> /\ u.bug = x.bug /\ u.error = x.error
    BY DEF IsRun, RunFields
  <1>6. RunOK(p, u)
    BY <1>3, <1>5, NoItems DEF RunOK
  <1> HIDE DEF u, r, w, loc
  <1> QED BY <1>y, <1>3, <1>4, <1>5, <1>6, RevisitReadKeeps

-----------------------------------------------------------------------------
\* States of the driver.

\* The graph on top of the execution stack.
LEMMA TopOK ==
  ASSUME NEW p, NEW err, NEW b, StackOK(p, stack, err, b), stack # <<>>
  PROVE  /\ FrameOK(p, Top, err, b) /\ Len(stack) \in Nat \ {0}
         /\ Cur.g = Top.g /\ Cur.wl = Top.wl /\ Cur.bug = bug /\ Cur.error = error /\ Cur.moot = moot
  <1>1. PICK S : stack \in Seq(S) /\ \A f \in S : FrameOK(p, f, err, b)
    BY DEF StackOK
  <1>2. Len(stack) \in Nat \ {0} /\ Top \in S
    BY <1>1 DEF Top
  <1> QED BY <1>1, <1>2 DEF Cur

\* The graph on top of the execution stack is replaced by a good one.
LEMMA SetTopOK ==
  ASSUME NEW p, NEW err, NEW b, StackOK(p, stack, FALSE, b), NEW f, FrameOK(p, f, err, b)
  PROVE  StackOK(p, [stack EXCEPT ![Len(stack)] = f], err, b)
  <1>1. PICK S : stack \in Seq(S) /\ \A s \in S : FrameOK(p, s, FALSE, b)
    BY DEF StackOK
  <1> DEFINE T == S \cup {f}
  <1>2. \A s \in T : FrameOK(p, s, err, b)
    BY <1>1 DEF FrameOK
  <1>3. stack \in Seq(T) /\ f \in T
    BY <1>1
  <1> HIDE DEF T
  <1>4. [stack EXCEPT ![Len(stack)] = f] \in Seq(T)
    <2> DEFINE n == Len(stack)
               o == [stack EXCEPT ![n] = f]
    <2>1. n \in Nat /\ DOMAIN stack = 1 .. n /\ \A i \in 1 .. n : stack[i] \in T
      BY <1>3
    <2> HIDE DEF n
    <2>2. o = [i \in 1 .. n |-> IF i = n THEN f ELSE stack[i]]
      BY <2>1
    <2>3. \A i \in 1 .. n : (IF i = n THEN f ELSE stack[i]) \in T
      BY <1>3, <2>1
    <2> HIDE DEF o
    <2>4. o \in Seq(T)
      BY <2>1, <2>2, <2>3
    <2> QED BY <2>4 DEF n, o
  <1> QED BY <1>2, <1>4, OwnRange DEF StackOK

\* The execution stack does not become empty by that.
LEMMA TopNonEmpty ==
  ASSUME NEW p, NEW err, NEW b, StackOK(p, stack, err, b), stack # <<>>, NEW f
  PROVE  [stack EXCEPT ![Len(stack)] = f] # <<>>
  <1>1. PICK S : stack \in Seq(S)
    BY DEF StackOK
  <1>2. Len(stack) \in Nat /\ Len(stack) # 0 /\ DOMAIN stack = 1 .. Len(stack)
    BY <1>1
  <1>3. DOMAIN stack # {}
    BY <1>2
  <1> QED BY <1>3

\* A good graph is pushed on the execution stack.
LEMMA PushOK ==
  ASSUME NEW p, NEW err, NEW b, NEW st, StackOK(p, st, err, b), NEW f, FrameOK(p, f, err, b)
  PROVE  StackOK(p, Append(st, f), err, b)
  <1>1. PICK S : st \in Seq(S) /\ \A s \in S : FrameOK(p, s, err, b)
    BY DEF StackOK
  <1> DEFINE T == S \cup {f}
  <1>2. \A s \in T : FrameOK(p, s, err, b)
    BY <1>1
  <1>3. st \in Seq(T) /\ f \in T
    BY <1>1
  <1> HIDE DEF T
  <1>4. Append(st, f) \in Seq(T)
    BY <1>3
  <1> QED BY <1>2, <1>4, OwnRange DEF StackOK

\* A scheduled thread can run, whatever the policy.
LEMMA ScheduledFacts ==
  ASSUME NEW t, t \in scheduleNext(Top.g), policy \in {"ltr", "wf", "wfr", "arbitrary"}
  PROVE  t \in Threads /\ isSchedulable(Top.g, t)
  <1> DEFINE ready == {u \in Threads : isSchedulable(Top.g, u)}
             first == StoresFirst(Top.g, ready)
  <1>1. ready \subseteq Nat /\ (ready # {} => first \subseteq ready /\ first # {})
    <2>1. ready \subseteq Nat
      BY GraphAssumption DEF Threads
    <2> HIDE DEF ready
    <2>2. first \subseteq ready /\ (ready # {} => first # {})
      BY DEF StoresFirst
    <2> QED BY <2>1, <2>2
  <1>2. t \in ready
    <2>1. scheduleNext(Top.g) = IF moot \/ ready = {} THEN {}
            ELSE IF prio[1] \in ready THEN {prio[1]}
            ELSE CASE policy = "ltr"       -> {Min(ready)}
                   [] policy = "wf"        -> {Min(first)}
                   [] policy = "wfr"       -> first
                   [] policy = "arbitrary" -> ready
      BY Zenon DEF scheduleNext
    <2> HIDE DEF ready, first
    <2>2. ready # {} => Min(ready) \in ready
      BY <1>1, MinFacts
    <2>3. ready # {} => Min(first) \in first
      <3>1. ready # {} => first \in SUBSET Nat /\ first # {}
        BY <1>1
      <3> QED BY <3>1, MinFacts
    <2> QED BY <1>1, <2>1, <2>2, <2>3
  <1> QED BY <1>2

\* As long as no error was reported every load on the stack reads a store.
LEMMA StrictStack ==
  ASSUME NEW p, NEW b, StackOK(p, stack, error, b), ~ error
  PROVE  StackOK(p, stack, FALSE, b)
  <1>1. PICK S : stack \in Seq(S) /\ \A f \in S : FrameOK(p, f, error, b)
    BY DEF StackOK
  <1>2. \A f \in S : FrameOK(p, f, FALSE, b)
    BY <1>1 DEF FrameOK
  <1> QED BY <1>1, <1>2, OwnRange DEF StackOK

\* What holds when a thread is about to take a step.
Ready(t, op) ==
    LET pc == NextPc(Top.g, t)
        e == <<t, ThreadSize(Top.g, t)>>
    IN  /\ isProgram(prog) /\ IsRun(Cur) /\ RunOK(prog, Cur) /\ t \in DOMAIN prog
        /\ Cur.g = Top.g /\ Slot(prog, Top.g, e) /\ pc \in Nat /\ pc - 1 \in Nat
        /\ op \notin {"finish", "block"} => pc \in DOMAIN prog[t] /\ prog[t][pc].op = op
        /\ op # "block" => AwaitedRead(Top.g, e)

\* The invariant gives a scheduled thread all that its handler relies on.
LEMMA ScheduledReady ==
  ASSUME DriverInv, NEW t, NEW op, Scheduled(t, op)
  PROVE  Ready(t, op) /\ phase = "run"
  <1>1. phase = "run" /\ ~ error /\ stack # <<>> /\ isProgram(prog)
    BY ProgramsAssumption DEF DriverInv, FieldsOK, Scheduled
  <1>2. FrameOK(prog, Top, error, ipr) /\ Cur.g = Top.g /\ Cur.wl = Top.wl
    BY <1>1, TopOK DEF DriverInv
  <1>3. GraphInv(prog, Top.g) /\ NoneDangles(Top.g) /\ WorklistOK(Top.g, Top.wl, ipr)
    BY <1>1, <1>2 DEF FrameOK
  <1>4. IsRun(Cur)
    BY DEF IsRun, RunFields, Cur
  <1>5. RunOK(prog, Cur)
    BY <1>2, <1>3 DEF RunOK
  <1>6. isSchedulable(Top.g, t) /\ NextOp(prog, Top.g, t) = op
    BY ScheduledFacts DEF Scheduled, DriverInv, FieldsOK
  <1>7. /\ Slot(prog, Top.g, <<t, ThreadSize(Top.g, t)>>) /\ t \in DOMAIN prog
        /\ NextPc(Top.g, t) \in Nat /\ NextPc(Top.g, t) - 1 \in Nat
    BY <1>1, <1>3, <1>6, ReadySlot
  <1>8. /\ op \notin {"finish", "block"} =>
              /\ NextPc(Top.g, t) \in DOMAIN prog[t] /\ prog[t][NextPc(Top.g, t)].op = op
        /\ op # "block" => AwaitedRead(Top.g, <<t, ThreadSize(Top.g, t)>>)
    BY <1>1, <1>3, <1>6, NextOpFacts
  <1> QED BY <1>1, <1>2, <1>4, <1>5, <1>7, <1>8 DEF Ready

\* A failed BUG_ON is kept.
LEMMA CommitBug ==
  ASSUME bug, NEW y, StaysBad(Cur, y), Commit(y)
  PROVE  bug'
  BY DEF StaysBad, Cur, Commit

\* What a handler leaves behind becomes the graph on top of the stack.
LEMMA CommitKeeps ==
  ASSUME DriverInv, phase = "run", NEW y, y.bug \/ Handled(prog, y), Commit(y)
  PROVE  GoodOrBug'
  <1>1. CASE y.bug
    BY <1>1 DEF Commit, GoodOrBug
  <1>2. CASE Handled(prog, y)
    <2> DEFINE f == [g |-> y.g, wl |-> y.wl]
    <2>1. ~ error /\ stack # <<>>
      BY DEF DriverInv, FieldsOK
    <2>2. StackOK(prog, stack, FALSE, ipr)
      BY <2>1, StrictStack DEF DriverInv
    <2>3. FrameOK(prog, f, y.error, ipr)
      BY <1>2 DEF Handled, FrameOK
    <2>4. stack' = [stack EXCEPT ![Len(stack)] = f] /\ error' = y.error /\ prog' = prog /\ policy' = policy /\ bound' = bound
          /\ phase' = (IF y.error THEN "idle" ELSE phase) /\ tasks' = (IF y.error THEN <<>> ELSE tasks)
      BY DEF Commit
    <2> HIDE DEF f
    <2>5. StackOK(prog, stack', y.error, ipr)
      BY <2>2, <2>3, <2>4, SetTopOK
    <2>6. stack' # <<>>
      BY <2>1, <2>2, <2>4, TopNonEmpty
    <2>7. TasksOK(prog, <<>>)
      <3> DEFINE S == {}
      <3>1. <<>> \in Seq(S) /\ \A g \in S : TaskOK(prog, g)
        OBVIOUS
      <3> HIDE DEF S
      <3> QED BY <3>1, OwnRange DEF TasksOK
    <2>8. TasksOK(prog, tasks')
      BY <2>4, <2>7 DEF DriverInv
    <2>9. ipr' = ipr
      BY <2>4 DEF ipr, bounding
    <2>10. FieldsOK'
      BY <2>4, <2>6 DEF DriverInv, FieldsOK
    <2> QED BY <2>4, <2>5, <2>8, <2>9, <2>10 DEF GoodOrBug, DriverInv
  <1> QED BY <1>1, <1>2

\* A step of a run keeps the invariant when its handler does.
LEMMA CommitStep ==
  ASSUME GoodOrBug, NEW y, StaysBad(Cur, y), Commit(y),
         DriverInv => phase = "run" /\ (y.bug \/ Handled(prog, y))
  PROVE  GoodOrBug'
  <1>1. CASE bug
    BY <1>1, CommitBug DEF GoodOrBug
  <1>2. CASE DriverInv
    BY <1>2, CommitKeeps
  <1> QED BY <1>1, <1>2 DEF GoodOrBug

\* The record of the current run.
LEMMA CurRun ==
  IsRun(Cur)
  BY DEF IsRun, RunFields, Cur

\* The next instruction of a scheduled thread.
LEMMA ReadyInstr ==
  ASSUME NEW t, NEW op, op \notin {"finish", "block"}, Ready(t, op)
  PROVE  /\ NextPc(Top.g, t) \in DOMAIN prog[t] /\ NextInstr(t) = prog[t][NextPc(Top.g, t)] /\ NextInstr(t).op = op
         /\ NextPc(Top.g, t) = NextPc(Cur.g, t) /\ NextPc(Top.g, t) \in Nat /\ NextPc(Top.g, t) - 1 \in Nat
         /\ Slot(prog, Cur.g, <<t, ThreadSize(Cur.g, t)>>) /\ AwaitedRead(Cur.g, <<t, ThreadSize(Cur.g, t)>>)
         /\ isProgram(prog) /\ IsRun(Cur) /\ RunOK(prog, Cur) /\ t \in DOMAIN prog
  BY DEF Ready, NextInstr

\* The step of a load keeps the invariant.
LEMMA LoadKeeps ==
  ASSUME GoodOrBug, NEW t, Load(t)
  PROVE  GoodOrBug'
  <1> DEFINE ins == NextInstr(t)
             pc == NextPc(Top.g, t)
             y == handleLoad(Cur, t, ins)
             r == <<t, ThreadSize(Cur.g, t)>>
  <1>1. Scheduled(t, "load") /\ Commit(y)
    BY DEF Load
  <1> HIDE DEF ins, pc
  <1>2. StaysBad(Cur, y)
    BY CurRun, LoadBug
  <1>3. ASSUME DriverInv, ~ y.bug PROVE phase = "run" /\ Handled(prog, y)
    <2>1. Ready(t, "load") /\ phase = "run"
      BY <1>1, <1>3, ScheduledReady
    <2>2. /\ pc \in DOMAIN prog[t] /\ ins = prog[t][pc] /\ ins.op = "load" /\ pc = NextPc(Cur.g, t)
          /\ Slot(prog, Cur.g, r) /\ AwaitedRead(Cur.g, r)
          /\ isProgram(prog) /\ IsRun(Cur) /\ RunOK(prog, Cur)
      BY <2>1, ReadyInstr DEF ins, pc
    <2>3. y = handleLoad(Cur, t, ins) /\ r = <<t, ThreadSize(Cur.g, t)>> /\ ins.op \in {"load", "fai", "cas"}
      BY <2>2
    <2> HIDE DEF y, r
    <2>4. Handled(prog, y)
      BY <1>3, <2>2, <2>3, HandleLoadKeeps
    <2> QED BY <2>1, <2>4
  <1>4. ASSUME DriverInv PROVE phase = "run"
    BY <1>1 DEF Scheduled
  <1> HIDE DEF y
  <1> QED BY <1>1, <1>2, <1>3, <1>4, CommitStep

\* The step of a store keeps the invariant.
LEMMA StoreKeeps ==
  ASSUME GoodOrBug, NEW t, Store(t)
  PROVE  GoodOrBug'
  <1> DEFINE ins == NextInstr(t)
             pc == NextPc(Top.g, t)
             val == ins.val
             y == handleStore(Cur, t, pc, ins, val)
             w == <<t, ThreadSize(Cur.g, t)>>
  <1>1. Scheduled(t, "store") /\ Commit(y)
    BY DEF Store
  <1> HIDE DEF ins, pc, val
  <1>2. StaysBad(Cur, y)
    BY CurRun, StoreBug
  <1>3. ASSUME DriverInv PROVE phase = "run" /\ Handled(prog, y)
    <2>1. Ready(t, "store") /\ phase = "run"
      BY <1>1, <1>3, ScheduledReady
    <2>2. /\ pc \in DOMAIN prog[t] /\ ins = prog[t][pc] /\ ins.op = "store" /\ pc = NextPc(Cur.g, t)
          /\ Slot(prog, Cur.g, w) /\ AwaitedRead(Cur.g, w)
          /\ isProgram(prog) /\ IsRun(Cur) /\ RunOK(prog, Cur)
      BY <2>1, ReadyInstr DEF ins, pc
    <2>3. y = handleStore(Cur, t, pc, ins, val) /\ w = <<t, ThreadSize(Cur.g, t)>>
          /\ ins.op \in AccessOps /\ ins.op \notin {"fai", "cas"}
      BY <2>2 DEF AccessOps
    <2> HIDE DEF y, w
    <2>4. RunOK(prog, y)
      BY <2>2, <2>3, HandleStoreKeeps
    <2> QED BY <2>1, <2>4 DEF Handled, RunOK
  <1> HIDE DEF y
  <1> QED BY <1>1, <1>2, <1>3, CommitStep

\* The steps of fetch-and-add and compare-and-swap keep the invariant.
LEMMA UpdateKeeps ==
  ASSUME GoodOrBug, NEW t, NEW op \in {"fai", "cas"}, Scheduled(t, op), Commit(handleRMW(Cur, t, NextInstr(t)))
  PROVE  GoodOrBug'
  <1> DEFINE ins == NextInstr(t)
             pc == NextPc(Top.g, t)
             y == handleRMW(Cur, t, ins)
             r == <<t, ThreadSize(Cur.g, t)>>
  <1>1. Commit(y)
    OBVIOUS
  <1> HIDE DEF ins, pc
  <1>2. StaysBad(Cur, y)
    BY CurRun, RMWBug
  <1>3. ASSUME DriverInv, ~ y.bug PROVE phase = "run" /\ Handled(prog, y)
    <2>1. Ready(t, op) /\ phase = "run"
      BY <1>3, ScheduledReady
    <2>2. /\ pc \in DOMAIN prog[t] /\ ins = prog[t][pc] /\ ins.op = op /\ pc = NextPc(Cur.g, t)
          /\ Slot(prog, Cur.g, r) /\ AwaitedRead(Cur.g, r)
          /\ isProgram(prog) /\ IsRun(Cur) /\ RunOK(prog, Cur)
      BY <2>1, ReadyInstr DEF ins, pc
    <2>3. y = handleRMW(Cur, t, ins) /\ r = <<t, ThreadSize(Cur.g, t)>> /\ ins.op \in {"fai", "cas"}
      BY <2>2
    <2> HIDE DEF y, r
    <2>4. Handled(prog, y)
      BY <1>3, <2>2, <2>3, HandleRMWKeeps
    <2> QED BY <2>1, <2>4
  <1>4. ASSUME DriverInv PROVE phase = "run"
    BY DEF Scheduled
  <1> HIDE DEF y
  <1> QED BY <1>1, <1>2, <1>3, <1>4, CommitStep

\* The step that creates a thread keeps the invariant.
LEMMA CreateStep ==
  ASSUME GoodOrBug, NEW t, ThreadCreate(t)
  PROVE  GoodOrBug'
  <1> DEFINE ins == NextInstr(t)
             pc == NextPc(Top.g, t)
             y == handleThreadCreate(Cur, t, ins)
  <1>1. Scheduled(t, "create") /\ Commit(y)
    BY DEF ThreadCreate
  <1> HIDE DEF ins, pc
  <1>2. StaysBad(Cur, y)
    BY CurRun DEF handleThreadCreate, StaysBad, IsRun, RunFields
  <1>3. ASSUME DriverInv PROVE phase = "run" /\ (y.bug \/ Handled(prog, y))
    <2>1. Ready(t, "create") /\ phase = "run"
      BY <1>1, <1>3, ScheduledReady
    <2>2. /\ pc \in DOMAIN prog[t] /\ ins = prog[t][pc] /\ ins.op = "create" /\ NextPc(Cur.g, t) \in Nat
          /\ Slot(prog, Cur.g, <<t, ThreadSize(Cur.g, t)>>) /\ AwaitedRead(Cur.g, <<t, ThreadSize(Cur.g, t)>>)
          /\ isProgram(prog) /\ IsRun(Cur) /\ RunOK(prog, Cur) /\ t \in DOMAIN prog
      BY <2>1, ReadyInstr DEF ins, pc
    <2>3. ins.child \in DOMAIN prog \ {0}
      BY <2>2 DEF isProgram
    <2> HIDE DEF y
    <2>4. y = handleThreadCreate(Cur, t, ins)
      BY DEF y
    <2>5. y.bug \/ Handled(prog, y)
      BY <2>2, <2>3, <2>4, CreateKeeps
    <2> QED BY <2>1, <2>5
  <1> HIDE DEF y
  <1> QED BY <1>1, <1>2, <1>3, CommitStep

\* The step that joins a thread keeps the invariant.
LEMMA JoinStep ==
  ASSUME GoodOrBug, NEW t, ThreadJoin(t)
  PROVE  GoodOrBug'
  <1> DEFINE ins == NextInstr(t)
             y == handleThreadJoin(Cur, t, ins)
  <1>1. Scheduled(t, "join") /\ Commit(y)
    BY DEF ThreadJoin
  <1> HIDE DEF ins
  <1>2. StaysBad(Cur, y)
    BY CurRun DEF handleThreadJoin, StaysBad, IsRun, RunFields
  <1>3. ASSUME DriverInv PROVE phase = "run" /\ (y.bug \/ Handled(prog, y))
    <2>1. Ready(t, "join") /\ phase = "run"
      BY <1>1, <1>3, ScheduledReady
    <2>2. /\ NextPc(Cur.g, t) \in Nat /\ NextPc(Cur.g, t) - 1 \in Nat
          /\ Slot(prog, Cur.g, <<t, ThreadSize(Cur.g, t)>>) /\ AwaitedRead(Cur.g, <<t, ThreadSize(Cur.g, t)>>)
          /\ isProgram(prog) /\ IsRun(Cur) /\ RunOK(prog, Cur)
      BY <2>1, ReadyInstr
    <2> HIDE DEF y
    <2>3. y = handleThreadJoin(Cur, t, ins)
      BY DEF y
    <2>4. y.bug \/ Handled(prog, y)
      BY <2>2, <2>3, JoinKeeps
    <2> QED BY <2>1, <2>4
  <1> HIDE DEF y
  <1> QED BY <1>1, <1>2, <1>3, CommitStep

\* The end of a thread keeps the invariant.
LEMMA FinishStep ==
  ASSUME GoodOrBug, NEW t, ThreadFinish(t)
  PROVE  GoodOrBug'
  <1> DEFINE y == handleThreadFinish(Cur, t)
  <1>1. Scheduled(t, "finish") /\ Commit(y)
    BY DEF ThreadFinish
  <1>2. StaysBad(Cur, y)
    BY CurRun DEF handleThreadFinish, StaysBad, IsRun, RunFields
  <1>3. ASSUME DriverInv PROVE phase = "run" /\ Handled(prog, y)
    <2>1. Ready(t, "finish") /\ phase = "run"
      BY <1>1, <1>3, ScheduledReady
    <2>2. /\ NextPc(Cur.g, t) \in Nat
          /\ Slot(prog, Cur.g, <<t, ThreadSize(Cur.g, t)>>) /\ AwaitedRead(Cur.g, <<t, ThreadSize(Cur.g, t)>>)
          /\ isProgram(prog) /\ IsRun(Cur) /\ RunOK(prog, Cur)
      BY <2>1 DEF Ready
    <2> HIDE DEF y
    <2>3. y = handleThreadFinish(Cur, t)
      BY DEF y
    <2>4. Handled(prog, y)
      BY <2>2, <2>3, FinishKeeps
    <2> QED BY <2>1, <2>4
  <1> HIDE DEF y
  <1> QED BY <1>1, <1>2, <1>3, CommitStep

\* The block of a failed assume() keeps the invariant.
LEMMA BlockStep ==
  ASSUME GoodOrBug, NEW t, Block(t)
  PROVE  GoodOrBug'
  <1> DEFINE y == handleBlock(Cur, t)
  <1>1. Scheduled(t, "block") /\ Commit(y)
    BY DEF Block
  <1>2. StaysBad(Cur, y)
    BY CurRun DEF handleBlock, StaysBad, IsRun, RunFields
  <1>3. ASSUME DriverInv PROVE phase = "run" /\ Handled(prog, y)
    <2>1. Ready(t, "block") /\ phase = "run"
      BY <1>1, <1>3, ScheduledReady
    <2>2. /\ NextPc(Cur.g, t) - 1 \in Nat /\ Slot(prog, Cur.g, <<t, ThreadSize(Cur.g, t)>>)
          /\ isProgram(prog) /\ IsRun(Cur) /\ RunOK(prog, Cur)
      BY <2>1 DEF Ready
    <2> HIDE DEF y
    <2>3. y = handleBlock(Cur, t)
      BY DEF y
    <2>4. Handled(prog, y)
      BY <2>2, <2>3, BlockKeeps
    <2> QED BY <2>1, <2>4
  <1> HIDE DEF y
  <1> QED BY <1>1, <1>2, <1>3, CommitStep

\* Every step of a run keeps the invariant.
LEMMA RunKeeps ==
  ASSUME GoodOrBug, NEW t, Run(t)
  PROVE  GoodOrBug'
  <1>1. CASE FetchAndAdd(t)
    BY <1>1, UpdateKeeps DEF FetchAndAdd
  <1>2. CASE CompareAndSwap(t)
    BY <1>2, UpdateKeeps DEF CompareAndSwap
  <1> QED BY <1>1, <1>2, LoadKeeps, StoreKeeps, CreateStep, JoinStep, FinishStep, BlockStep DEF Run

-----------------------------------------------------------------------------
\* Between runs.

\* Running a postponed load again keeps the invariant.
LEMMA RescheduleStep ==
  ASSUME GoodOrBug, rescheduleReads
  PROVE  GoodOrBug'
  <1> DEFINE t == Min(Removed(Top.g))
             r == LastEvent(Top.g, t)
             y == [Cur EXCEPT !.g = removeLast(@, t), !.resched = r]
  <1>1. phase = "run" /\ Removed(Top.g) # {} /\ Commit(y)
    BY DEF rescheduleReads
  <1> HIDE DEF r, t
  <1>2. StaysBad(Cur, y)
    BY CurRun DEF StaysBad, IsRun, RunFields
  <1>3. ASSUME DriverInv PROVE Handled(prog, y)
    <2>1. ~ error /\ stack # <<>> /\ isProgram(prog)
      BY <1>1, <1>3, ProgramsAssumption DEF DriverInv, FieldsOK
    <2>2. FrameOK(prog, Top, error, ipr) /\ Cur.g = Top.g /\ Cur.wl = Top.wl
      BY <1>3, <2>1, TopOK DEF DriverInv
    <2>3. RunOK(prog, Cur) /\ GraphInv(prog, Top.g)
      BY <2>1, <2>2 DEF FrameOK, RunOK
    <2>4. LiveThreads(Top.g) \subseteq Nat
      <3>1. \A e \in Events(Top.g) : e[1] \in DOMAIN prog
        BY <2>3, EventFacts DEF GraphInv
      <3>2. DOMAIN prog \subseteq Nat
        BY <2>1, GraphAssumption DEF isProgram, Threads
      <3> QED BY <3>1, <3>2 DEF LiveThreads
    <2>5. t \in Removed(Top.g)
      <3> DEFINE T == Removed(Top.g)
      <3>1. T \in SUBSET Nat /\ T # {}
        BY <1>1, <2>4 DEF Removed
      <3> HIDE DEF T
      <3>2. Min(T) \in T
        BY <3>1, MinFacts
      <3> QED BY <3>2 DEF t, T
    <2>6. t \in LiveThreads(Cur.g) /\ isReadOptBlock(LastLab(Cur.g, t))
      BY <2>2, <2>5 DEF Removed
    <2> HIDE DEF y
    <2>7. y = [Cur EXCEPT !.g = removeLast(@, t), !.resched = r]
      BY DEF y
    <2> QED BY <2>1, <2>3, <2>6, <2>7, CurRun, RescheduleKeeps
  <1> HIDE DEF y
  <1> QED BY <1>1, <1>2, <1>3, CommitStep

\* The end of an execution keeps the invariant.
LEMMA EndStep ==
  ASSUME GoodOrBug, ExecutionEnd
  PROVE  GoodOrBug'
  <1>1. /\ phase = "run" /\ phase' = "next"
        /\ UNCHANGED <<prog, policy, bound, stack, tasks, error, bug>>
    BY DEF ExecutionEnd
  <1>2. ipr' = ipr
    BY <1>1 DEF ipr, bounding
  <1>3. CASE bug
    BY <1>1, <1>3 DEF GoodOrBug
  <1>4. CASE DriverInv
    <2>1. FieldsOK'
      BY <1>1, <1>4 DEF DriverInv, FieldsOK
    <2> QED BY <1>1, <1>2, <1>4, <2>1 DEF DriverInv, GoodOrBug
  <1> QED BY <1>3, <1>4 DEF GoodOrBug

\* The graph on top, cut back for the item taken from its worklist.
LEMMA RestrictedFacts ==
  ASSUME DriverInv, phase = "next", stack # <<>>, Top.wl # <<>>,
         NEW k, k = NextItem(Top.wl), NEW item, item = Top.wl[k], NEW x, x = Restricted(k)
  PROVE  /\ isProgram(prog) /\ IsRun(x) /\ RunOK(prog, x) /\ ItemOK(x.g, item, ipr) /\ x.bug = bug
         /\ item.kind # "back" => next(item.pos) \notin Events(x.g)
         /\ \A e \in Events(x.g) : Lab(x.g, e).kind \in {"R", "W"} => Lab(x.g, e).stamp <= item.stamp
         /\ ~ error /\ StackOK(prog, stack, FALSE, ipr)
  <1>1. ~ error /\ isProgram(prog)
    BY ProgramsAssumption DEF DriverInv, FieldsOK
  <1>2. /\ FrameOK(prog, Top, error, ipr)
        /\ Cur.g = Top.g /\ Cur.wl = Top.wl /\ Cur.bug = bug
    BY TopOK DEF DriverInv
  <1>3. GraphInv(prog, Top.g) /\ WorklistOK(Top.g, Top.wl, ipr)
    BY <1>2 DEF FrameOK
  <1> DEFINE h == CutGraph(Top.g, item.stamp)
             rest == RemoveAt(Top.wl, k)
  <1>4. IsRun(x) /\ x.g = h /\ x.wl = rest /\ x.bug = bug
    <2> DEFINE z == [Cur EXCEPT !.wl = RemoveAt(@, k), !.moot = FALSE, !.prio = Bottom, !.resched = InitEvent]
    <2>1. x = restrict(z, item.stamp)
      BY DEF Restricted
    <2>2. IsRun(z) /\ z.g = Top.g /\ z.wl = rest /\ z.bug = bug
      <3> HIDE DEF rest
      <3>1. RemoveAt(Cur.wl, k) = rest
        BY <1>2 DEF rest
      <3> QED BY <1>2, <3>1, CurRun DEF IsRun, RunFields
    <2> HIDE DEF z, h, rest
    <2>3. x = [z EXCEPT !.g = CutGraph(@, item.stamp)]
      BY <2>1 DEF restrict, CutGraph
    <2>4. CutGraph(z.g, item.stamp) = h
      BY <2>2 DEF h
    <2> QED BY <2>2, <2>3, <2>4 DEF IsRun, RunFields
  <1>5. StackOK(prog, stack, FALSE, ipr)
    BY <1>1, StrictStack DEF DriverInv
  <1>6. /\ GraphInv(prog, h) /\ NoneDangles(h) /\ WorklistOK(h, rest, ipr) /\ ItemOK(h, item, ipr)
        /\ item.kind # "back" => next(item.pos) \notin Events(h)
        /\ \A e \in Events(h) : Lab(h, e).kind \in {"R", "W"} => Lab(h, e).stamp <= item.stamp
    <2> DEFINE g == Top.g
               wl == Top.wl
    <2>1. GraphInv(prog, g) /\ WorklistOK(g, wl, ipr) /\ wl # <<>> /\ k = NextItem(wl) /\ item = wl[k]
          /\ h = CutGraph(g, item.stamp) /\ rest = RemoveAt(wl, k)
      BY <1>3
    <2> HIDE DEF g, wl, h, rest
    <2>2. GraphInv(prog, h) /\ NoneDangles(h) /\ WorklistOK(h, rest, ipr) /\ ItemOK(h, item, ipr)
      BY <1>1, <2>1, RestrictKeeps
    <2>3. item.kind # "back" => next(item.pos) \notin Events(h)
      BY <1>1, <2>1, RestrictKeeps
    <2>4. \A e \in Events(h) : Lab(h, e).kind \in {"R", "W"} => Lab(h, e).stamp <= item.stamp
      BY <1>1, <2>1, RestrictKeeps
    <2> QED BY <2>2, <2>3, <2>4
  <1> HIDE DEF h, rest
  <1> QED BY <1>1, <1>4, <1>5, <1>6 DEF RunOK

\* A good run makes a good graph on the stack.
LEMMA RunFrame ==
  ASSUME NEW p, NEW y, RunOK(p, y), NEW err
  PROVE  FrameOK(p, [g |-> y.g, wl |-> y.wl], err, ipr)
  BY DEF RunOK, FrameOK

\* Taking a forward revisit from the worklist keeps the invariant.
LEMMA ForwardStep ==
  ASSUME GoodOrBug, ForwardRevisit
  PROVE  GoodOrBug'
  <1> DEFINE k == NextItem(Top.wl)
             item == Top.wl[k]
             x == Restricted(k)
             y == forwardRevisit(x, item)
             f == [g |-> y.g, wl |-> y.wl]
  <1>1. /\ phase = "next" /\ stack # <<>> /\ Top.wl # <<>> /\ item.kind # "back"
        /\ stack' = SetTop(y) /\ phase' \in {"run", "next"}
        /\ UNCHANGED <<prog, policy, bound, tasks, error, bug>>
    BY Zenon DEF ForwardRevisit, continueWith
  <1> HIDE DEF k, item
  <1>k. k = NextItem(Top.wl) /\ item = Top.wl[k]
    BY DEF k, item
  <1>2. ipr' = ipr
    BY <1>1 DEF ipr, bounding
  <1>3. CASE bug
    BY <1>1, <1>3 DEF GoodOrBug
  <1>4. CASE DriverInv
    <2> HIDE DEF x
    <2>1. x = Restricted(k)
      BY DEF x
    <2>2. /\ isProgram(prog) /\ IsRun(x) /\ RunOK(prog, x) /\ ItemOK(x.g, item, ipr)
          /\ next(item.pos) \notin Events(x.g) /\ ~ error /\ StackOK(prog, stack, FALSE, ipr)
      BY <1>1, <1>k, <1>4, <2>1, RestrictedFacts
    <2>3. \A e \in Events(x.g) : Lab(x.g, e).kind \in {"R", "W"} => Lab(x.g, e).stamp <= item.stamp
      BY <1>1, <1>k, <1>4, <2>1, RestrictedFacts
    <2>4. RunOK(prog, y)
      <3> HIDE DEF y
      <3>1. y = forwardRevisit(x, item)
        BY DEF y
      <3> QED BY <1>1, <2>2, <2>3, <3>1, ForwardKeeps
    <2> HIDE DEF y
    <2>5. FrameOK(prog, f, error, ipr)
      BY <2>4, RunFrame
    <2>6. stack' = [stack EXCEPT ![Len(stack)] = f]
      BY <1>1 DEF SetTop
    <2> HIDE DEF f
    <2>7. StackOK(prog, stack', error, ipr)
      BY <2>2, <2>5, <2>6, SetTopOK
    <2>8. stack' # <<>>
      BY <1>1, <2>2, <2>6, TopNonEmpty
    <2>9. FieldsOK'
      BY <1>1, <1>4, <2>2, <2>8 DEF DriverInv, FieldsOK
    <2> QED BY <1>1, <1>2, <1>4, <2>7, <2>9 DEF DriverInv, GoodOrBug
  <1> QED BY <1>3, <1>4 DEF GoodOrBug

\* Taking a backward revisit keeps the invariant, whether its copy is run next or
\* submitted to the pool.
LEMMA BackwardStep ==
  ASSUME GoodOrBug, BackwardRevisit
  PROVE  GoodOrBug'
  <1> DEFINE k == NextItem(Top.wl)
             item == Top.wl[k]
             x == Restricted(k)
             y == backwardRevisit(x, item.pos, item.rev)
             f == [g |-> x.g, wl |-> x.wl]
             u == [g |-> y.g, wl |-> y.wl]
  <1>1. /\ phase = "next" /\ stack # <<>> /\ Top.wl # <<>> /\ item.kind = "back"
        /\ stack' = Append(SetTop(x), u) /\ phase' \in {"run", "next"} /\ (bug => bug')
        /\ tasks' = tasks \/ tasks' = Append(tasks, y.g)
        /\ UNCHANGED <<prog, policy, bound, error>>
    BY Zenon DEF BackwardRevisit, pushRevisited, pushExecution, submitOrRun
  <1> HIDE DEF k, item
  <1>k. k = NextItem(Top.wl) /\ item = Top.wl[k]
    BY DEF k, item
  <1>2. ipr' = ipr
    BY <1>1 DEF ipr, bounding
  <1>3. CASE bug
    BY <1>1, <1>3 DEF GoodOrBug
  <1>4. CASE DriverInv
    <2> HIDE DEF x
    <2>1. x = Restricted(k)
      BY DEF x
    <2>2. /\ isProgram(prog) /\ IsRun(x) /\ RunOK(prog, x) /\ ItemOK(x.g, item, ipr)
          /\ ~ error /\ StackOK(prog, stack, FALSE, ipr)
      BY <1>1, <1>k, <1>4, <2>1, RestrictedFacts
    <2>3. RunOK(prog, y)
      <3> HIDE DEF y
      <3>1. y = backwardRevisit(x, item.pos, item.rev)
        BY DEF y
      <3> QED BY <1>1, <2>2, <3>1, BackwardKeeps DEF RunOK
    <2> HIDE DEF y
    <2>4. FrameOK(prog, f, error, ipr) /\ FrameOK(prog, u, error, ipr)
      BY <2>2, <2>3, RunFrame
    <2> DEFINE st == SetTop(x)
    <2>5. st = [stack EXCEPT ![Len(stack)] = f] /\ stack' = Append(st, u)
      BY <1>1 DEF SetTop
    <2> HIDE DEF f, u, st
    <2>6. StackOK(prog, st, error, ipr)
      BY <2>2, <2>4, <2>5, SetTopOK
    <2>7. StackOK(prog, stack', error, ipr)
      BY <2>4, <2>5, <2>6, PushOK
    <2>8. stack' # <<>>
      <3>1. PICK S : st \in Seq(S)
        BY <2>6 DEF StackOK
      <3> QED BY <3>1, <2>5
    <2>9. TaskOK(prog, y.g)
      BY <2>3 DEF TaskOK, RunOK
    <2>10. TasksOK(prog, tasks')
      <3>1. PICK S : tasks \in Seq(S) /\ \A g \in S : TaskOK(prog, g)
        BY <1>4 DEF DriverInv, TasksOK
      <3> DEFINE h == y.g
                 T == S \cup {h}
      <3>2. tasks \in Seq(T) /\ h \in T /\ \A g \in T : TaskOK(prog, g)
        BY <2>9, <3>1
      <3> HIDE DEF T
      <3>3. Append(tasks, h) \in Seq(T)
        BY <3>2
      <3> QED BY <1>1, <3>2, <3>3, OwnRange DEF TasksOK
    <2>11. FieldsOK'
      BY <1>1, <1>4, <2>2, <2>8 DEF DriverInv, FieldsOK
    <2> QED BY <1>1, <1>2, <2>7, <2>10, <2>11 DEF DriverInv, GoodOrBug
  <1> QED BY <1>3, <1>4 DEF GoodOrBug

\* Leaving an explored graph keeps the invariant.
LEMMA PopStep ==
  ASSUME GoodOrBug, PopExecution
  PROVE  GoodOrBug'
  <1>1. /\ phase = "next" /\ stack # <<>> /\ stack' = SubSeq(stack, 1, Len(stack) - 1)
        /\ phase' \in {"idle", "next"} /\ UNCHANGED <<prog, policy, bound, tasks, error, bug>>
    BY DEF PopExecution
  <1>2. ipr' = ipr
    BY <1>1 DEF ipr, bounding
  <1>3. CASE bug
    BY <1>1, <1>3 DEF GoodOrBug
  <1>4. CASE DriverInv
    <2>1. PICK S : stack \in Seq(S) /\ \A f \in S : FrameOK(prog, f, error, ipr)
      BY <1>4 DEF DriverInv, StackOK
    <2>2. stack' \in Seq(S)
      <3>1. Len(stack) \in Nat /\ Len(stack) # 0
        BY <1>1, <2>1
      <3> QED BY <1>1, <2>1, <3>1
    <2>3. StackOK(prog, stack', error, ipr)
      BY <2>1, <2>2, OwnRange DEF StackOK
    <2>4. FieldsOK'
      BY <1>1, <1>4 DEF DriverInv, FieldsOK
    <2> QED BY <1>1, <1>2, <1>4, <2>3, <2>4 DEF DriverInv, GoodOrBug
  <1> QED BY <1>3, <1>4 DEF GoodOrBug

\* A worker that takes a submitted graph starts with a good one.
LEMMA TakeStep ==
  ASSUME GoodOrBug, TakeTask
  PROVE  GoodOrBug'
  <1> DEFINE f == [g |-> Last(tasks), wl |-> <<>>]
  <1>1. /\ phase = "idle" /\ tasks # <<>> /\ stack' = <<f>> /\ tasks' = Front(tasks) /\ phase' = "run"
        /\ UNCHANGED <<prog, policy, bound, error, bug>>
    BY DEF TakeTask
  <1>2. ipr' = ipr
    BY <1>1 DEF ipr, bounding
  <1>3. CASE bug
    BY <1>1, <1>3 DEF GoodOrBug
  <1>4. CASE DriverInv
    <2>1. PICK S : tasks \in Seq(S) /\ \A g \in S : TaskOK(prog, g)
      BY <1>4 DEF DriverInv, TasksOK
    <2>2. Len(tasks) \in Nat /\ Len(tasks) # 0
      BY <1>1, <2>1
    <2>3. Last(tasks) \in S /\ Front(tasks) \in Seq(S)
      BY <2>1, <2>2 DEF Last, Front
    <2>4. FrameOK(prog, f, error, ipr)
      BY <2>1, <2>3, NoItems DEF FrameOK, TaskOK
    <2> HIDE DEF f
    <2> DEFINE T == {f}
    <2>5. <<f>> \in Seq(T) /\ \A s \in T : FrameOK(prog, s, error, ipr)
      BY <2>4
    <2> HIDE DEF T
    <2>6. StackOK(prog, stack', error, ipr)
      BY <1>1, <2>5, OwnRange DEF StackOK
    <2>7. TasksOK(prog, tasks')
      BY <1>1, <2>1, <2>3, OwnRange DEF TasksOK
    <2>8. stack' # <<>>
      BY <1>1
    <2>9. FieldsOK'
      BY <1>1, <1>4, <2>8 DEF DriverInv, FieldsOK
    <2> QED BY <1>1, <1>2, <2>6, <2>7, <2>9 DEF DriverInv, GoodOrBug
  <1> QED BY <1>3, <1>4 DEF GoodOrBug

-----------------------------------------------------------------------------
\* The whole search.

\* The graph the search starts with has the invariant.
LEMMA EmptyGraphOK ==
  ASSUME NEW p, isProgram(p)
  PROVE  GraphInv(p, EmptyGraph) /\ NoneDangles(EmptyGraph)
  <1> DEFINE g == EmptyGraph
             lab == NewLabel("init", 0, NoInstr)
  <1>1. /\ DOMAIN g = {"lab", "co", "ts"} /\ Events(g) = {InitEvent} /\ Lab(g, InitEvent) = lab
        /\ g.lab[InitEvent] = lab /\ g.co = [x \in Locs |-> <<>>] /\ g.ts = 1
    BY DEF EmptyGraph, Events, Lab
  <1>2. DOMAIN lab = LabelFields /\ lab.kind = "init" /\ lab.pc = 0 /\ lab.stamp = 0 /\ lab.view = EmptyView
    BY DEF NewLabel, LabelFields
  <1>3. InitEvent = <<0, 0>> /\ InitEvent[1] = 0 /\ InitEvent[2] = 0
    BY DEF InitEvent
  <1>4. 0 \in DOMAIN p
    BY DEF isProgram
  <1>5. EmptyView \subseteq {InitEvent} \cup EmptyView /\ \A q \in EmptyView : q[2] = 0
    BY DEF EmptyView
  <1> HIDE DEF g, lab
  <1>6. Shape(p, g)
    <2>1. IsFiniteSet(Events(g))
      BY <1>1, FS_Singleton
    <2>2. \A e \in Events(g) : e \in (DOMAIN p) \X Nat
      BY <1>1, <1>3, <1>4
    <2> QED BY <1>1, <1>2, <1>3, <2>1, <2>2 DEF Shape
  <1>7. Stamps(g)
    BY <1>1, <1>2, <1>3 DEF Stamps
  <1>8. Kinds(p, g)
    BY <1>1, <1>2, <1>3 DEF Kinds
  <1>9. Coherence(g)
    BY <1>1 DEF Coherence, Injective
  <1>10. \A e \in Events(g) : ~ isRead(g, e)
    BY <1>1, <1>2 DEF isRead
  <1>11. ReadsFrom(g) /\ Blocked(g) /\ NoneDangles(g)
    BY <1>10 DEF ReadsFrom, Blocked, NoneDangles
  <1>12. ViewShape(g)
    BY <1>1, <1>2, <1>3, <1>5 DEF ViewShape
  <1>13. ViewPast(g)
    BY <1>1, <1>2, <1>5 DEF ViewPast
  <1>14. Synced(g)
    <2>1. BeginEnd(g)
      BY <1>1, <1>2 DEF BeginEnd
    <2>2. Joined(g)
      BY <1>1, <1>2, <1>5 DEF Joined
    <2>3. ViewBefore(g, InitEvent) = EmptyView
      BY <1>3 DEF ViewBefore
    <2>4. Exact(g)
      BY <1>1, <1>2, <2>3 DEF Exact
    <2> QED BY <2>1, <2>2, <2>4 DEF Synced
  <1> QED BY <1>6, <1>7, <1>8, <1>9, <1>11, <1>12, <1>13, <1>14 DEF GraphInv, g

\* The invariant holds initially.
LEMMA InitGood ==
  Init => GoodOrBug
  <1> SUFFICES ASSUME Init PROVE DriverInv
    BY DEF GoodOrBug
  <1> DEFINE f == [g |-> EmptyGraph, wl |-> <<>>]
             S == {f}
             T == {}
  <1>1. isProgram(prog)
    BY ProgramsAssumption DEF Init
  <1>2. FrameOK(prog, f, error, ipr)
    <2> DEFINE g == EmptyGraph
    <2>1. GraphInv(prog, g) /\ NoneDangles(g)
      BY <1>1, EmptyGraphOK
    <2> HIDE DEF g
    <2>2. f.g = g /\ f.wl = <<>>
      BY DEF g
    <2> HIDE DEF f
    <2> QED BY <2>1, <2>2, NoItems DEF FrameOK
  <1> HIDE DEF f
  <1>3. <<f>> \in Seq(S) /\ \A s \in S : FrameOK(prog, s, error, ipr)
    BY <1>2
  <1>4. <<>> \in Seq(T) /\ \A g \in T : TaskOK(prog, g)
    OBVIOUS
  <1> HIDE DEF S, T
  <1>5. stack = <<f>> /\ tasks = <<>>
    BY DEF Init, f
  <1>6. StackOK(prog, stack, error, ipr)
    BY <1>3, <1>5, OwnRange DEF StackOK
  <1>7. TasksOK(prog, tasks)
    BY <1>4, <1>5, OwnRange DEF TasksOK
  <1>8. FieldsOK
    <2>1. policy \in {"ltr", "wf", "wfr", "arbitrary"}
      BY DriverAssumption DEF Init
    <2>2. stack # <<>>
      BY <1>5
    <2> QED BY <2>1, <2>2 DEF FieldsOK, Init
  <1> QED BY <1>6, <1>7, <1>8 DEF DriverInv

\* Every step of the driver keeps the invariant.
LEMMA NextGood ==
  GoodOrBug /\ [Next]_vars => GoodOrBug'
  <1> SUFFICES ASSUME GoodOrBug, [Next]_vars PROVE GoodOrBug'
    OBVIOUS
  <1>1. ASSUME NEW t \in Threads, Run(t) PROVE GoodOrBug'
    BY <1>1, RunKeeps
  <1>2. CASE Explore
    BY <1>2, RescheduleStep, EndStep, ForwardStep, BackwardStep, PopStep, TakeStep DEF Explore
  <1>3. CASE UNCHANGED vars
    <2>1. UNCHANGED <<prog, policy, bound, stack, tasks, error, bug, phase>>
      BY <1>3 DEF vars
    <2>2. ipr' = ipr
      BY <2>1 DEF ipr, bounding
    <2>3. FieldsOK' <=> FieldsOK
      BY <2>1 DEF FieldsOK
    <2> QED BY <2>1, <2>2, <2>3 DEF GoodOrBug, DriverInv
  <1>4. CASE Finished
    BY <1>3, <1>4 DEF Finished
  <1> QED BY <1>1, <1>2, <1>3, <1>4 DEF Next

\* The invariant of the search: every execution graph on the stack of GenMCDriver or in
\* the pool is well formed (labels, stamps, coherence, reads, views, blocks) and every
\* item of a worklist refers to a load or store that is there, until a BUG_ON fails.
THEOREM DriverInvariant == Spec => []GoodOrBug
  <1>1. Init => GoodOrBug
    BY InitGood
  <1>2. GoodOrBug /\ [Next]_vars => GoodOrBug'
    BY NextGood
  <1> QED BY <1>1, <1>2, PTL DEF Spec

\* Every graph the properties speak of has the invariant.
LEMMA GraphsOK ==
  ASSUME DriverInv, NEW g \in Graphs
  PROVE  GraphInv(prog, g)
  <1>1. CASE g \in {stack[k].g : k \in DOMAIN stack}
    <2>1. PICK k \in DOMAIN stack : g = stack[k].g
      BY <1>1
    <2>2. PICK S : stack \in Seq(S) /\ \A f \in S : FrameOK(prog, f, error, ipr)
      BY DEF DriverInv, StackOK
    <2>3. stack[k] \in S
      BY <2>1, <2>2
    <2> QED BY <2>1, <2>2, <2>3 DEF FrameOK
  <1>2. CASE g \in {tasks[k] : k \in DOMAIN tasks}
    <2>1. PICK k \in DOMAIN tasks : g = tasks[k]
      BY <1>2
    <2>2. PICK S : tasks \in Seq(S) /\ \A h \in S : TaskOK(prog, h)
      BY DEF DriverInv, TasksOK
    <2>3. tasks[k] \in S
      BY <2>1, <2>2
    <2> QED BY <2>1, <2>2, <2>3 DEF TaskOK
  <1> QED BY <1>1, <1>2 DEF Graphs

\* Stamps are distinct, below the next stamp of their graph, and grow along every
\* thread, in every graph of the search (addLabelToGraph, compressStampsAfter): for
\* every program, policy, bound and memory model.
THEOREM StampsStayOrdered == Spec => [](NoBug => StampsOrdered)
  <1>1. GoodOrBug => (NoBug => StampsOrdered)
    <2> SUFFICES ASSUME DriverInv PROVE StampsOrdered
      BY DEF GoodOrBug, NoBug
    <2>1. \A g \in Graphs : Stamps(g)
      BY GraphsOK DEF GraphInv
    <2> QED BY <2>1 DEF StampsOrdered, Stamps
  <1> QED BY <1>1, DriverInvariant, PTL

\* The view of every label is what happens before it in its graph: what its
\* predecessor knows and what that one reads, begins from or joins (updateMMViews).
\* No step leaves an old view behind: not a load that reads another store, not the
\* removal of labels or the cut of a graph, not the copy for a backward revisit.
THEOREM ViewsStayExact == Spec => [](NoBug => ViewsExact)
  <1>1. GoodOrBug => (NoBug => ViewsExact)
    <2> SUFFICES ASSUME DriverInv PROVE ViewsExact
      BY DEF GoodOrBug, NoBug
    <2>1. \A g \in Graphs : Exact(g)
      BY GraphsOK DEF GraphInv, Synced
    <2> QED BY <2>1 DEF ViewsExact, Exact
  <1> QED BY <1>1, DriverInvariant, PTL

\* Every item of a worklist refers to a load or store and to a store of its location
\* that survive the steps and the cuts before the item is run (restrictAndRevisit).
THEOREM WorklistsStayValid == Spec => [](NoBug => WorklistsValid)
  <1>1. GoodOrBug => (NoBug => WorklistsValid)
    <2> SUFFICES ASSUME DriverInv PROVE WorklistsValid
      BY DEF GoodOrBug, NoBug
    <2>1. PICK S : stack \in Seq(S) /\ \A f \in S : FrameOK(prog, f, error, ipr)
      BY DEF DriverInv, StackOK
    <2> SUFFICES ASSUME NEW k \in DOMAIN stack, NEW j \in DOMAIN stack[k].wl
                 PROVE  LET g == stack[k].g
                            item == stack[k].wl[j]
                        IN  /\ containsPos(g, item.pos)
                            /\ containsPos(g, item.rev)
                            /\ Lab(g, IF item.kind = "back" THEN item.rev ELSE item.pos).stamp = item.stamp
                            /\ isRead(g, item.pos) <=> item.kind # "write"
                            /\ item.rev \in StoresTo(g, Addr(g, item.pos))
      BY Zenon DEF WorklistsValid
    <2> DEFINE g == stack[k].g
               wl == stack[k].wl
               item == wl[j]
    <2>2. GraphInv(prog, g) /\ WorklistOK(g, wl, ipr)
      <3>1. stack[k] \in S
        BY <2>1
      <3> QED BY <2>1, <3>1 DEF FrameOK
    <2> HIDE DEF g
    <2>3. j \in DOMAIN wl
      OBVIOUS
    <2> HIDE DEF wl
    <2>4. ItemOK(g, item, ipr)
      <3>1. PICK R : wl \in Seq(R) /\ \A i \in R : ItemOK(g, i, ipr)
        BY <2>2 DEF WorklistOK
      <3>2. item \in R
        BY <2>3, <3>1
      <3> QED BY <3>1, <3>2
    <2>5. Addr(g, item.pos) \in Locs
      <3>1. item.pos \in Events(g) /\ Lab(g, item.pos).kind \in {"R", "W"}
        BY <2>4 DEF ItemOK
      <3>2. isProgram(prog)
        BY ProgramsAssumption DEF DriverInv, FieldsOK
      <3> QED BY <2>2, <3>1, <3>2, AccessLoc DEF GraphInv
    <2>6. item.rev \in Events(g)
      <3>1. item.rev \in StoresTo(g, Addr(g, item.pos))
        BY <2>4 DEF ItemOK
      <3> DEFINE w == item.rev
                 x == Addr(g, item.pos)
      <3> HIDE DEF w, x, item
      <3>2. w = InitEvent \/ w \in Events(g)
        BY <2>2, <2>5, <3>1, StoresFacts DEF GraphInv, w, x
      <3>3. InitEvent \in Events(g)
        BY <2>2 DEF GraphInv, Shape
      <3> QED BY <3>2, <3>3 DEF w
    <2> HIDE DEF item
    <2>7. /\ containsPos(g, item.pos) /\ containsPos(g, item.rev)
          /\ Lab(g, IF item.kind = "back" THEN item.rev ELSE item.pos).stamp = item.stamp
          /\ isRead(g, item.pos) <=> item.kind # "write"
          /\ item.rev \in StoresTo(g, Addr(g, item.pos))
      BY <2>4, <2>6 DEF ItemOK, containsPos, isRead
    <2> QED BY <2>7 DEF g, wl, item
  <1> QED BY <1>1, DriverInvariant, PTL

=============================================================================
