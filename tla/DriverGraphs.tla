----------------------------- MODULE DriverGraphs -----------------------------
(***************************************************************************)
(* Execution graphs under the operations of module ExecGraph: labels added *)
(* and removed, reads and coherence changed, graphs cut to a stamp and     *)
(* renumbered.  Each keeps the invariant of a graph (GraphInv); most keep as*)
(* well what the items of a worklist refer to (Keeps, KeptUpTo).           *)
(***************************************************************************)
EXTENDS DriverInvariants, FiniteSetTheorems, FunctionTheorems, SequenceTheorems, WellFoundedInduction, TLAPS

\* A nonempty set of numbers has a least one.
LEMMA LeastOf ==
  ASSUME NEW T, T \subseteq Nat, T # {}
  PROVE  \E m \in T : \A k \in T : m <= k
  <1>1. PICK m \in T : \A k \in T : ~ (<<k, m>> \in OpToRel(<, Nat))
    BY WFMin, NatLessThanWellFounded, Zenon
  <1>2. \A k \in T : ~ (k < m)
    BY <1>1 DEF OpToRel
  <1> QED BY <1>2

-----------------------------------------------------------------------------
\* Subsequences.

AmongAt(s, S, F, n) ==
  IF n = 0 THEN <<>> ELSE IF s[n] \in S THEN Append(F[n - 1], s[n]) ELSE F[n - 1]

AmongUpTo(s, S, n, F) == F = [m \in 0 .. n |-> AmongAt(s, S, F, m)]

\* The values of Among up to one more element.
LEMMA AmongGoesOn ==
  ASSUME NEW s, NEW S, NEW n \in Nat, NEW F, AmongUpTo(s, S, n, F)
  PROVE  \E G : AmongUpTo(s, S, n + 1, G)
  <1> DEFINE G == [m \in 0 .. n + 1 |-> AmongAt(s, S, F, m)]
  <1>1. \A m \in 0 .. n : F[m] = AmongAt(s, S, F, m)
    BY Zenon DEF AmongUpTo
  <1>2. \A m \in 0 .. n : m \in 0 .. n + 1
    OBVIOUS
  <1>3. \A m \in 0 .. n + 1 : G[m] = AmongAt(s, S, F, m)
    BY Zenon
  <1>4. \A m \in 0 .. n : F[m] = G[m]
    BY <1>1, <1>2, <1>3, Zenon
  <1> HIDE DEF G
  <1>5. \A m \in 0 .. n + 1 : m = 0 \/ m - 1 \in 0 .. n
    OBVIOUS
  <1>6. \A m \in 0 .. n + 1 : AmongAt(s, S, F, m) = AmongAt(s, S, G, m)
    BY <1>4, <1>5, Zenon DEF AmongAt
  <1>7. G = [m \in 0 .. n + 1 |-> AmongAt(s, S, G, m)]
    BY <1>6, Zenon DEF G
  <1> QED BY <1>7, Zenon DEF AmongUpTo

\* The fold that Among is defined by has values up to every length.
LEMMA AmongExists ==
  ASSUME NEW s, NEW S, NEW n \in Nat
  PROVE  \E F : AmongUpTo(s, S, n, F)
  <1> DEFINE T == {k \in Nat : ~ \E F : AmongUpTo(s, S, k, F)}
  <1> SUFFICES ASSUME T # {} PROVE FALSE
    OBVIOUS
  <1>1. PICK m \in T : \A k \in T : m <= k
    BY LeastOf
  <1>2. CASE m = 0
    <2> DEFINE F == [k \in 0 .. 0 |-> <<>>]
    <2>1. \A k \in 0 .. 0 : k = 0
      OBVIOUS
    <2>2. F = [k \in 0 .. 0 |-> AmongAt(s, S, F, k)]
      BY <2>1, Zenon DEF AmongAt
    <2>3. AmongUpTo(s, S, 0, F)
      BY <2>2, Zenon DEF AmongUpTo
    <2> QED BY <1>1, <1>2, <2>3, Zenon
  <1>3. CASE m # 0
    <2>1. m - 1 \in Nat /\ m - 1 \notin T /\ (m - 1) + 1 = m
      BY <1>1, <1>3
    <2>2. PICK F : AmongUpTo(s, S, m - 1, F)
      BY <2>1
    <2> DEFINE k == m - 1
    <2>3. k \in Nat /\ k + 1 = m /\ AmongUpTo(s, S, k, F)
      BY <2>1, <2>2
    <2> HIDE DEF k
    <2>4. \E G : AmongUpTo(s, S, k + 1, G)
      BY <2>3, AmongGoesOn
    <2> QED BY <2>3, <2>4, <1>1
  <1> QED BY <1>2, <1>3

\* o is what remains of the first n elements of s, in their order.
Embeds(s, S, n, o) ==
  \E f \in [1 .. Len(o) -> 1 .. n] :
    /\ \A i \in 1 .. Len(o) : o[i] = s[f[i]] /\ s[f[i]] \in S
    /\ \A i, j \in 1 .. Len(o) : i < j => f[i] < f[j]
    /\ \A k \in 1 .. n : s[k] \in S => \E i \in 1 .. Len(o) : f[i] = k

\* Nothing remains of no elements.
LEMMA EmbedsNone ==
  ASSUME NEW s, NEW S, NEW o, Len(o) = 0
  PROVE  Embeds(s, S, 0, o)
  <1>1. 1 .. 0 = {}
    OBVIOUS
  <1>2. [i \in {} |-> 0] \in [{} -> {}]
    OBVIOUS
  <1>3. PICK f : f \in [{} -> {}]
    BY <1>2, Zenon
  <1>4. f \in [1 .. Len(o) -> 1 .. 0]
    BY <1>1, <1>3, Zenon
  <1>5. \A i : i \notin 1 .. Len(o) /\ i \notin 1 .. 0
    BY <1>1, Zenon
  <1>6. \A i \in 1 .. Len(o) : o[i] = s[f[i]] /\ s[f[i]] \in S
    BY <1>5, Zenon
  <1>7. \A i, j \in 1 .. Len(o) : i < j => f[i] < f[j]
    BY <1>5, Zenon
  <1>8. \A k \in 1 .. 0 : s[k] \in S => \E i \in 1 .. Len(o) : f[i] = k
    BY <1>5, Zenon
  <1> QED BY <1>4, <1>6, <1>7, <1>8, Zenon DEF Embeds

\* An element outside S is skipped.
LEMMA EmbedsSkip ==
  ASSUME NEW s, NEW S, NEW n \in Nat, NEW X, NEW o \in Seq(X), Embeds(s, S, n, o), s[n + 1] \notin S
  PROVE  Embeds(s, S, n + 1, o)
  <1>1. PICK f \in [1 .. Len(o) -> 1 .. n] :
          /\ \A i \in 1 .. Len(o) : o[i] = s[f[i]] /\ s[f[i]] \in S
          /\ \A i, j \in 1 .. Len(o) : i < j => f[i] < f[j]
          /\ \A k \in 1 .. n : s[k] \in S => \E i \in 1 .. Len(o) : f[i] = k
    BY DEF Embeds
  <1>2. f \in [1 .. Len(o) -> 1 .. n + 1]
    OBVIOUS
  <1>3. \A k \in 1 .. n + 1 : k \in 1 .. n \/ k = n + 1
    OBVIOUS
  <1>4. \A k \in 1 .. n + 1 : s[k] \in S => \E i \in 1 .. Len(o) : f[i] = k
    BY <1>1, <1>3
  <1> QED BY <1>1, <1>2, <1>4, Zenon DEF Embeds

\* An element of S is taken.
LEMMA EmbedsTake ==
  ASSUME NEW X, NEW s \in Seq(X), NEW S, NEW n \in Nat, n < Len(s), NEW o \in Seq(X),
         Embeds(s, S, n, o), s[n + 1] \in S
  PROVE  Embeds(s, S, n + 1, Append(o, s[n + 1])) /\ Append(o, s[n + 1]) \in Seq(X)
  <1>1. PICK f \in [1 .. Len(o) -> 1 .. n] :
          /\ \A i \in 1 .. Len(o) : o[i] = s[f[i]] /\ s[f[i]] \in S
          /\ \A i, j \in 1 .. Len(o) : i < j => f[i] < f[j]
          /\ \A k \in 1 .. n : s[k] \in S => \E i \in 1 .. Len(o) : f[i] = k
    BY DEF Embeds
  <1> DEFINE a == s[n + 1]
             q == Append(o, a)
             m == Len(o)
             h == [i \in 1 .. m + 1 |-> IF i = m + 1 THEN n + 1 ELSE f[i]]
  <1>2. a \in X /\ m \in Nat
    OBVIOUS
  <1>3. q \in Seq(X) /\ Len(q) = m + 1 /\ (\A i \in 1 .. m : q[i] = o[i]) /\ q[m + 1] = a
    BY <1>2
  <1>4. \A i \in 1 .. m + 1 : i = m + 1 \/ i \in 1 .. m
    BY <1>2
  <1>5. \A i \in 1 .. m : f[i] \in 1 .. n /\ i # m + 1 /\ i \in 1 .. m + 1
    BY <1>2
  <1>6. \A i \in 1 .. m : h[i] = f[i]
    BY <1>5, Zenon
  <1>7. h[m + 1] = n + 1
    BY <1>2
  <1>8. h \in [1 .. m + 1 -> 1 .. n + 1]
    BY <1>4, <1>5
  <1>a. a = s[n + 1] /\ a \in S
    OBVIOUS
  <1> HIDE DEF h, a, q
  <1>9. \A i \in 1 .. m + 1 : q[i] = s[h[i]] /\ s[h[i]] \in S
    BY <1>1, <1>3, <1>4, <1>6, <1>7, <1>a
  <1>10. \A i, j \in 1 .. m + 1 : i < j => h[i] < h[j]
    <2> TAKE i, j \in 1 .. m + 1
    <2> HAVE i < j
    <2>1. i \in 1 .. m
      BY <1>2
    <2>2. CASE j = m + 1
      BY <2>1, <2>2, <1>5, <1>6, <1>7
    <2>3. CASE j \in 1 .. m
      BY <2>1, <2>3, <1>1, <1>6
    <2> QED BY <2>2, <2>3, <1>4
  <1>11. \A k \in 1 .. n + 1 : s[k] \in S => \E i \in 1 .. m + 1 : h[i] = k
    <2> TAKE k \in 1 .. n + 1
    <2> HAVE s[k] \in S
    <2>1. CASE k = n + 1
      BY <2>1, <1>7, <1>2
    <2>2. CASE k # n + 1
      <3>1. k \in 1 .. n
        BY <2>2
      <3> QED BY <3>1, <1>1, <1>5, <1>6
    <2> QED BY <2>1, <2>2
  <1>12. Embeds(s, S, n + 1, q)
    <2>1. Len(q) = m + 1
      BY <1>3
    <2>2. h \in [1 .. Len(q) -> 1 .. n + 1]
      BY <2>1, <1>8, Zenon
    <2>3. \A i \in 1 .. Len(q) : q[i] = s[h[i]] /\ s[h[i]] \in S
      BY <2>1, <1>9, Zenon
    <2>4. \A i, j \in 1 .. Len(q) : i < j => h[i] < h[j]
      BY <2>1, <1>10, Zenon
    <2>5. \A k \in 1 .. n + 1 : s[k] \in S => \E i \in 1 .. Len(q) : h[i] = k
      BY <2>1, <1>11, Zenon
    <2> QED BY <2>2, <2>3, <2>4, <2>5, Zenon DEF Embeds
  <1> QED BY <1>3, <1>12 DEF q, a

\* Among(s, S) is what remains of s, in its order, when the elements outside S
\* are dropped (the erase/remove_if loops of the source).
LEMMA AmongEmbeds ==
  ASSUME NEW X, NEW s \in Seq(X), NEW S
  PROVE  Among(s, S) \in Seq(X) /\ Embeds(s, S, Len(s), Among(s, S))
  <1> DEFINE F == CHOOSE F : AmongUpTo(s, S, Len(s), F)
             T == {n \in 0 .. Len(s) : ~ (F[n] \in Seq(X) /\ Embeds(s, S, n, F[n]))}
  <1>0. Len(s) \in Nat
    OBVIOUS
  <1>1. Among(s, S) = F[Len(s)]
    BY Zenon DEF Among, AmongUpTo, AmongAt
  <1>2. AmongUpTo(s, S, Len(s), F)
    BY <1>0, AmongExists
  <1> HIDE DEF F
  <1>3. \A n \in 0 .. Len(s) : F[n] = AmongAt(s, S, F, n)
    BY <1>2, Zenon DEF AmongUpTo
  <1>4. ASSUME T # {} PROVE FALSE
    <2>1. T \subseteq Nat
      BY <1>0
    <2>2. PICK m \in T : \A k \in T : m <= k
      BY <1>4, <2>1, LeastOf
    <2>3. CASE m = 0
      <3>1. F[0] = <<>>
        BY <1>0, <1>3 DEF AmongAt
      <3>2. Embeds(s, S, 0, <<>>)
        BY EmbedsNone
      <3>3. F[0] \in Seq(X)
        BY <3>1
      <3>4. Embeds(s, S, 0, F[0])
        BY <3>1, <3>2, Zenon
      <3> QED BY <2>2, <2>3, <3>3, <3>4, Zenon
    <2>4. CASE m # 0
      <3> DEFINE n == m - 1
      <3>1. n \in Nat /\ n < Len(s) /\ n + 1 = m /\ m \in 0 .. Len(s) /\ n \in 0 .. Len(s) /\ n \notin T
        BY <2>2, <2>4, <1>0
      <3>2. F[n] \in Seq(X) /\ Embeds(s, S, n, F[n])
        BY <3>1
      <3>3. F[m] = AmongAt(s, S, F, m)
        BY <3>1, <1>3
      <3>4. F[m] = IF s[m] \in S THEN Append(F[n], s[m]) ELSE F[n]
        BY <3>3, <2>4 DEF AmongAt
      <3> HIDE DEF n
      <3>5. CASE s[n + 1] \in S
        <4>1. Embeds(s, S, n + 1, Append(F[n], s[n + 1])) /\ Append(F[n], s[n + 1]) \in Seq(X)
          BY <3>1, <3>2, <3>5, EmbedsTake
        <4> QED BY <4>1, <3>1, <3>4, <3>5, <2>2
      <3>6. CASE s[n + 1] \notin S
        <4>1. Embeds(s, S, n + 1, F[n])
          BY <3>1, <3>2, <3>6, EmbedsSkip
        <4> QED BY <4>1, <3>1, <3>2, <3>4, <3>6, <2>2
      <3> QED BY <3>5, <3>6
    <2> QED BY <2>3, <2>4
  <1>5. Len(s) \in 0 .. Len(s)
    BY <1>0
  <1> QED BY <1>1, <1>4, <1>5

\* What AmongEmbeds says of single elements.
LEMMA AmongFacts ==
  ASSUME NEW X, NEW s \in Seq(X), NEW S, NEW o, o = Among(s, S)
  PROVE  /\ o \in Seq(X) /\ Len(o) \in Nat
         /\ \A i \in 1 .. Len(o) : o[i] \in S /\ o[i] \in X /\ \E k \in 1 .. Len(s) : s[k] = o[i]
         /\ \A k \in 1 .. Len(s) : s[k] \in S => \E i \in 1 .. Len(o) : o[i] = s[k]
  <1>1. o \in Seq(X) /\ Embeds(s, S, Len(s), o)
    BY AmongEmbeds
  <1>2. PICK f \in [1 .. Len(o) -> 1 .. Len(s)] :
          /\ \A i \in 1 .. Len(o) : o[i] = s[f[i]] /\ s[f[i]] \in S
          /\ \A i, j \in 1 .. Len(o) : i < j => f[i] < f[j]
          /\ \A k \in 1 .. Len(s) : s[k] \in S => \E i \in 1 .. Len(o) : f[i] = k
    BY <1>1, Zenon DEF Embeds
  <1>3. \A i \in 1 .. Len(o) : f[i] \in 1 .. Len(s)
    BY <1>2, Zenon
  <1>4. \A i \in 1 .. Len(o) : o[i] \in S /\ o[i] \in X
    BY <1>1, <1>2
  <1>5. \A i \in 1 .. Len(o) : \E k \in 1 .. Len(s) : s[k] = o[i]
    BY <1>2, <1>3, Zenon
  <1>6. \A k \in 1 .. Len(s) : s[k] \in S => \E i \in 1 .. Len(o) : o[i] = s[k]
    BY <1>2
  <1> QED BY <1>1, <1>4, <1>5, <1>6

\* o has the elements of s that are in S.
Thins(s, S, o) ==
  /\ \A i \in 1 .. Len(o) : o[i] \in S /\ \E k \in 1 .. Len(s) : s[k] = o[i]
  /\ \A k \in 1 .. Len(s) : s[k] \in S => \E i \in 1 .. Len(o) : o[i] = s[k]

\* Among(s, S) has exactly the elements of s that are in S.
LEMMA AmongThins ==
  ASSUME NEW X, NEW s \in Seq(X), NEW S
  PROVE  Thins(s, S, Among(s, S)) /\ Among(s, S) \in Seq(X)
  <1> DEFINE o == Among(s, S)
  <1>1. o \in Seq(X)
    BY AmongFacts
  <1>2. \A i \in 1 .. Len(o) : o[i] \in S /\ o[i] \in X /\ \E k \in 1 .. Len(s) : s[k] = o[i]
    BY AmongFacts
  <1>3. \A k \in 1 .. Len(s) : s[k] \in S => \E i \in 1 .. Len(o) : o[i] = s[k]
    BY AmongFacts
  <1> HIDE DEF o
  <1>4. Thins(s, S, o)
    BY <1>2, <1>3, Zenon DEF Thins
  <1> QED BY <1>1, <1>4 DEF o

\* Dropping elements repeats none.
LEMMA AmongInjective ==
  ASSUME NEW X, NEW s \in Seq(X), NEW S, Injective(s)
  PROVE  Injective(Among(s, S))
  <1> DEFINE o == Among(s, S)
  <1>1. o \in Seq(X) /\ Embeds(s, S, Len(s), o)
    BY AmongEmbeds
  <1>2. PICK f \in [1 .. Len(o) -> 1 .. Len(s)] :
          /\ \A i \in 1 .. Len(o) : o[i] = s[f[i]] /\ s[f[i]] \in S
          /\ \A i, j \in 1 .. Len(o) : i < j => f[i] < f[j]
    BY <1>1, Zenon DEF Embeds
  <1> HIDE DEF o
  <1> SUFFICES ASSUME NEW j \in 1 .. Len(o), NEW k \in 1 .. Len(o), o[j] = o[k], j # k PROVE FALSE
    BY Zenon DEF Injective, o
  <1>3. f[j] \in 1 .. Len(s) /\ f[k] \in 1 .. Len(s)
    BY <1>2, Zenon
  <1>4. f[j] = f[k]
    BY <1>2, <1>3 DEF Injective
  <1>5. j < k \/ k < j
    BY <1>1
  <1> QED BY <1>2, <1>3, <1>4, <1>5

\* An element that is not the last one was not the last one before.
LEMMA AmongNotLast ==
  ASSUME NEW X, NEW s \in Seq(X), NEW S, NEW o, o = Among(s, S), NEW i \in 1 .. Len(o), i < Len(o)
  PROVE  \E k \in 1 .. Len(s) : k < Len(s) /\ o[i] = s[k]
  <1>1. o \in Seq(X) /\ Embeds(s, S, Len(s), o)
    BY AmongEmbeds
  <1>2. PICK f \in [1 .. Len(o) -> 1 .. Len(s)] :
          /\ \A q \in 1 .. Len(o) : o[q] = s[f[q]] /\ s[f[q]] \in S
          /\ \A q, j \in 1 .. Len(o) : q < j => f[q] < f[j]
    BY <1>1, Zenon DEF Embeds
  <1>3. Len(o) \in 1 .. Len(o) /\ Len(s) \in Nat
    BY <1>1
  <1>4. f[i] \in 1 .. Len(s) /\ f[Len(o)] \in 1 .. Len(s) /\ f[i] < f[Len(o)]
    BY <1>2, <1>3
  <1>5. f[i] < Len(s)
    BY <1>3, <1>4
  <1> QED BY <1>2, <1>4, <1>5

PutAfter(c, k, w) == SubSeq(c, 1, k) \o <<w>> \o SubSeq(c, k + 1, Len(c))

\* Where the elements are once w has been inserted into c after place k.
LEMMA InsertFacts ==
  ASSUME NEW X, NEW c \in Seq(X), NEW k \in 0 .. Len(c), NEW w \in X, NEW d, d = PutAfter(c, k, w)
  PROVE  /\ d \in Seq(X) /\ Len(d) = Len(c) + 1 /\ d[k + 1] = w
         /\ \A i \in 1 .. k : d[i] = c[i]
         /\ \A i \in k + 2 .. Len(c) + 1 : d[i] = c[i - 1]
  <1> DEFINE a == SubSeq(c, 1, k)
             b == SubSeq(c, k + 1, Len(c))
  <1>0. Len(c) \in Nat /\ k \in Nat /\ k <= Len(c)
    OBVIOUS
  <1>1. a \in Seq(X) /\ Len(a) = k /\ \A i \in 1 .. k : a[i] = c[i]
    BY <1>0
  <1>2. b \in Seq(X) /\ Len(b) = Len(c) - k /\ \A i \in 1 .. Len(c) - k : b[i] = c[k + i]
    BY <1>0
  <1>3. d = (a \o <<w>>) \o b
    BY DEF PutAfter
  <1> HIDE DEF a, b
  <1>4. a \o <<w>> \in Seq(X) /\ Len(a \o <<w>>) = k + 1 /\ (a \o <<w>>)[k + 1] = w
        /\ \A i \in 1 .. k : (a \o <<w>>)[i] = a[i]
    BY <1>0, <1>1
  <1> DEFINE q == a \o <<w>>
  <1>5. q \in Seq(X) /\ Len(q) = k + 1 /\ q[k + 1] = w /\ \A i \in 1 .. k : q[i] = a[i]
    BY <1>4
  <1>6. d = q \o b
    BY <1>3
  <1> HIDE DEF q
  <1>7. d \in Seq(X) /\ Len(d) = Len(c) + 1
    BY <1>0, <1>2, <1>5, <1>6
  <1>8. \A i \in 1 .. k + 1 : d[i] = q[i]
    BY <1>0, <1>2, <1>5, <1>6
  <1>9. \A i \in k + 2 .. Len(c) + 1 : d[i] = b[i - (k + 1)]
    BY <1>0, <1>2, <1>5, <1>6
  <1>10. \A i \in k + 2 .. Len(c) + 1 : i - (k + 1) \in 1 .. Len(c) - k /\ k + (i - (k + 1)) = i - 1
    BY <1>0
  <1>11. \A i \in k + 2 .. Len(c) + 1 : d[i] = c[i - 1]
    <2> TAKE i \in k + 2 .. Len(c) + 1
    <2> DEFINE j == i - (k + 1)
    <2>1. j \in 1 .. Len(c) - k /\ k + j = i - 1 /\ d[i] = b[j]
      BY <1>9, <1>10
    <2> HIDE DEF j
    <2>2. b[j] = c[k + j]
      BY <1>2, <2>1
    <2> QED BY <2>1, <2>2
  <1>12. \A i \in 1 .. k : i \in 1 .. k + 1
    BY <1>0
  <1>13. d[k + 1] = w
    BY <1>0, <1>5, <1>8
  <1> QED BY <1>1, <1>5, <1>7, <1>8, <1>11, <1>12, <1>13

\* Nothing is lost, and nothing comes twice when w is new.
Gains(c, w, d) ==
  /\ \A i \in 1 .. Len(d) : d[i] = w \/ \E j \in 1 .. Len(c) : d[i] = c[j]
  /\ \A j \in 1 .. Len(c) : \E i \in 1 .. Len(d) : d[i] = c[j]
  /\ \E i \in 1 .. Len(d) : d[i] = w
  /\ Injective(c) /\ (\A j \in 1 .. Len(c) : c[j] # w) => Injective(d)

\* Insertion loses no element, and repeats none when w is new.
LEMMA InsertElements ==
  ASSUME NEW X, NEW c \in Seq(X), NEW k \in 0 .. Len(c), NEW w \in X, NEW d, d = PutAfter(c, k, w)
  PROVE  Gains(c, w, d)
  <1>1. /\ d \in Seq(X) /\ Len(d) = Len(c) + 1 /\ d[k + 1] = w
        /\ \A i \in 1 .. k : d[i] = c[i]
        /\ \A i \in k + 2 .. Len(c) + 1 : d[i] = c[i - 1]
    <2>1. d \in Seq(X)
      BY InsertFacts
    <2>4. Len(d) = Len(c) + 1
      BY InsertFacts
    <2>5. d[k + 1] = w
      BY InsertFacts
    <2>2. \A i \in 1 .. k : d[i] = c[i]
      BY InsertFacts
    <2>3. \A i \in k + 2 .. Len(c) + 1 : d[i] = c[i - 1]
      BY InsertFacts
    <2> QED BY <2>1, <2>2, <2>3, <2>4, <2>5
  <1>2. Len(c) \in Nat /\ k \in 0 .. Len(c)
    OBVIOUS
  <1>3. \A i \in 1 .. Len(d) : i \in 1 .. k \/ i = k + 1 \/ (i \in k + 2 .. Len(c) + 1 /\ i - 1 \in 1 .. Len(c))
    BY <1>1, <1>2
  <1>4. \A i \in 1 .. k : i \in 1 .. Len(c)
    BY <1>2
  <1>5. \A i \in 1 .. Len(d) : d[i] = w \/ \E j \in 1 .. Len(c) : d[i] = c[j]
    BY <1>1, <1>3, <1>4
  <1>6. ASSUME NEW j \in 1 .. Len(c) PROVE \E i \in 1 .. Len(d) : d[i] = c[j]
    <2>1. CASE j \in 1 .. k
      BY <1>1, <1>2, <2>1
    <2>2. CASE j \notin 1 .. k
      <3>1. j + 1 \in k + 2 .. Len(c) + 1 /\ j + 1 \in 1 .. Len(d) /\ (j + 1) - 1 = j
        BY <1>1, <1>2, <2>2
      <3>2. d[j + 1] = c[(j + 1) - 1]
        BY <1>1, <3>1, Zenon
      <3> QED BY <3>1, <3>2
    <2> QED BY <2>1, <2>2
  <1>7. k + 1 \in 1 .. Len(d)
    BY <1>1, <1>2
  <1>8. ASSUME Injective(c), \A j \in 1 .. Len(c) : c[j] # w
        PROVE  Injective(d)
    <2> SUFFICES ASSUME NEW i \in 1 .. Len(d), NEW j \in 1 .. Len(d), d[i] = d[j], i < j PROVE FALSE
      BY <1>1 DEF Injective
    <2> DEFINE at(x) == IF x \in 1 .. k THEN x ELSE x - 1
    <2>1. ASSUME NEW x \in 1 .. Len(d), x # k + 1 PROVE at(x) \in 1 .. Len(c) /\ d[x] = c[at(x)]
      BY <1>1, <1>2, <1>3, <2>1
    <2>2. i # k + 1 \/ j # k + 1
      OBVIOUS
    <2>3. i # k + 1 /\ j # k + 1
      <3>1. ASSUME NEW x \in 1 .. Len(d), x # k + 1 PROVE d[x] # w
        <4> HIDE DEF at
        <4>1. at(x) \in 1 .. Len(c) /\ d[x] = c[at(x)]
          BY <2>1, <3>1
        <4> QED BY <4>1, <1>8
      <3>2. d[k + 1] = w
        BY <1>1
      <3> QED BY <2>2, <3>1, <3>2
    <2>4. c[at(i)] = c[at(j)] /\ at(i) \in 1 .. Len(c) /\ at(j) \in 1 .. Len(c)
      BY <2>1, <2>3
    <2>5. at(i) = at(j)
      BY <2>4, <1>8 DEF Injective
    <2>6. at(i) < at(j)
      <3>1. i \in Nat /\ j \in Nat /\ k \in Nat /\ 1 <= i /\ 1 <= j
        BY <1>1, <1>2
      <3>2. CASE i \in 1 .. k
        BY <2>3, <3>1, <3>2
      <3>3. CASE i \notin 1 .. k
        BY <2>3, <3>1, <3>3
      <3> QED BY <3>2, <3>3
    <2>7. at(i) \in Int
      BY <2>4
    <2> QED BY <2>5, <2>6, <2>7
  <1> QED BY <1>1, <1>5, <1>6, <1>7, <1>8 DEF Gains

-----------------------------------------------------------------------------
\* Events of a graph.

\* An event is a thread and a position, and so is the label before it.
LEMMA EventFacts ==
  ASSUME NEW p, NEW g, Shape(p, g), NEW e \in Events(g)
  PROVE  /\ e[1] \in DOMAIN p /\ e[2] \in Nat /\ e = <<e[1], e[2]>>
         /\ e[2] > 0 => prev(e) \in Events(g)
  <1>1. e \in (DOMAIN p) \X Nat
    BY DEF Shape
  <1>2. e[2] > 0 => prev(e) \in Events(g)
    BY DEF Shape
  <1> QED BY <1>1, <1>2

\* All labels before a label of a thread are there, with smaller stamps.
LEMMA Below ==
  ASSUME NEW p, NEW g, Shape(p, g), NEW e \in Events(g), NEW i \in Nat, i <= e[2]
  PROVE  <<e[1], i>> \in Events(g)
  <1> DEFINE T == {k \in Nat : k <= e[2] /\ <<e[1], e[2] - k>> \notin Events(g)}
  <1>0. e[2] \in Nat /\ e = <<e[1], e[2]>>
    BY EventFacts
  <1>1. ASSUME T # {} PROVE FALSE
    <2>1. PICK m \in T : \A k \in T : m <= k
      BY <1>1, LeastOf
    <2>2. m # 0
      BY <1>0, <2>1
    <2> DEFINE q == <<e[1], e[2] - (m - 1)>>
    <2>3. m - 1 \in Nat /\ m - 1 <= e[2] /\ m - 1 \notin T
      BY <1>0, <2>1, <2>2
    <2>4. q \in Events(g)
      BY <2>3
    <2>5. q[2] > 0 /\ q[1] = e[1] /\ q[2] - 1 = e[2] - m
      BY <1>0, <2>1, <2>2
    <2> HIDE DEF q
    <2>6. prev(q) \in Events(g)
      BY <2>4, <2>5, EventFacts
    <2>7. prev(q) = <<e[1], e[2] - m>>
      BY <2>5 DEF prev
    <2> QED BY <2>1, <2>6, <2>7
  <1>2. e[2] - i \in Nat /\ e[2] - i <= e[2] /\ e[2] - (e[2] - i) = i
    BY <1>0
  <1> QED BY <1>1, <1>2

\* Stamps grow along a thread.
LEMMA StampsGrow ==
  ASSUME NEW p, NEW g, Shape(p, g), Stamps(g), NEW e \in Events(g), NEW q \in Events(g),
         q[1] = e[1], q[2] < e[2]
  PROVE  Lab(g, q).stamp < Lab(g, e).stamp
  <1> DEFINE S(i) == Lab(g, <<e[1], i>>).stamp
             T == {k \in Nat : q[2] + 1 + k <= e[2] /\ ~ S(q[2]) < S(q[2] + 1 + k)}
  <1>0. e[2] \in Nat /\ e = <<e[1], e[2]>> /\ q[2] \in Nat /\ q = <<e[1], q[2]>>
    BY EventFacts
  <1>1. \A i \in Nat : i <= e[2] => <<e[1], i>> \in Events(g) /\ S(i) \in Nat
    BY Below DEF Shape, Lab
  <1>2. ASSUME NEW i \in Nat, i + 1 <= e[2] PROVE S(i) < S(i + 1)
    <2> DEFINE f == <<e[1], i + 1>>
    <2>1. f \in Events(g) /\ f[2] > 0 /\ prev(f) = <<e[1], i>>
      BY <1>1, <1>2 DEF prev
    <2> HIDE DEF f
    <2>2. Lab(g, prev(f)).stamp < Lab(g, f).stamp
      BY <2>1 DEF Stamps
    <2> QED BY <2>1, <2>2 DEF f
  <1> HIDE DEF S
  <1>3. ASSUME T # {} PROVE FALSE
    <2>1. PICK m \in T : \A k \in T : m <= k
      BY <1>3, LeastOf
    <2>2. CASE m = 0
      BY <2>1, <2>2, <1>0, <1>2
    <2>3. CASE m # 0
      <3> DEFINE i == q[2] + m
      <3>1. m - 1 \in Nat /\ m - 1 \notin T /\ q[2] + 1 + (m - 1) = i /\ i \in Nat /\ i + 1 = q[2] + 1 + m /\ i + 1 <= e[2]
        BY <1>0, <2>1, <2>3
      <3> HIDE DEF i
      <3>6. q[2] + 1 + (m - 1) <= e[2]
        BY <3>1, <1>0
      <3>7. S(q[2]) < S(q[2] + 1 + (m - 1))
        BY <3>1, <3>6
      <3>2. S(q[2]) < S(i)
        BY <3>1, <3>7
      <3>3. S(i) < S(i + 1)
        BY <3>1, <1>2
      <3>4. S(q[2]) \in Nat /\ S(i) \in Nat /\ S(i + 1) \in Nat
        <4>1. q[2] \in Nat /\ q[2] <= e[2] /\ i \in Nat /\ i <= e[2] /\ i + 1 \in Nat /\ i + 1 <= e[2]
          BY <3>1, <1>0
        <4> DEFINE j == i + 1
        <4>2. j \in Nat /\ j <= e[2]
          BY <4>1
        <4> HIDE DEF j
        <4>3. S(q[2]) \in Nat /\ S(i) \in Nat /\ S(j) \in Nat
          BY <4>1, <4>2, <1>1, Zenon
        <4> QED BY <4>3 DEF j
      <3>8. ~ S(q[2]) < S(q[2] + 1 + m)
        BY <2>1
      <3>9. i + 1 = q[2] + 1 + m
        BY <3>1
      <3>5. ~ S(q[2]) < S(i + 1)
        BY <3>8, <3>9, Zenon
      <3> QED BY <3>2, <3>3, <3>4, <3>5
    <2> QED BY <2>2, <2>3
  <1>4. e[2] - q[2] - 1 \in Nat /\ q[2] + 1 + (e[2] - q[2] - 1) = e[2]
    BY <1>0
  <1> DEFINE d == e[2] - q[2] - 1
  <1>6. d \in Nat /\ q[2] + 1 + d = e[2] /\ q[2] + 1 + d <= e[2]
    BY <1>0, <1>4
  <1> HIDE DEF d
  <1>7. S(q[2]) < S(q[2] + 1 + d)
    BY <1>3, <1>6
  <1>5. S(q[2]) < S(e[2])
    BY <1>6, <1>7
  <1> QED BY <1>0, <1>5 DEF S

\* The stores that can be read are in the graph.
LEMMA StoresFacts ==
  ASSUME NEW g, Coherence(g), NEW x \in Locs, NEW w
  PROVE  /\ w \in StoresTo(g, x) <=> (w = InitEvent \/ \E k \in 1 .. Len(g.co[x]) : g.co[x][k] = w)
         /\ w \in StoresTo(g, x) /\ w # InitEvent => w \in Events(g) /\ Lab(g, w).kind = "W" /\ Addr(g, w) = x
  <1>1. g.co[x] \in Seq(Events(g))
    BY DEF Coherence
  <1>2. DOMAIN g.co[x] = 1 .. Len(g.co[x])
    BY <1>1
  <1>3. w \in StoresTo(g, x) <=> (w = InitEvent \/ \E k \in 1 .. Len(g.co[x]) : g.co[x][k] = w)
    BY <1>2, Zenon DEF StoresTo
  <1>4. ASSUME w \in StoresTo(g, x), w # InitEvent
        PROVE  w \in Events(g) /\ Lab(g, w).kind = "W" /\ Addr(g, w) = x
    <2>1. PICK k \in 1 .. Len(g.co[x]) : g.co[x][k] = w
      BY <1>3, <1>4
    <2>2. w \in Events(g)
      BY <1>1, <2>1
    <2> QED BY <2>1, <2>2 DEF Coherence
  <1> QED BY <1>3, <1>4

\* A store that can be read is in the graph.
LEMMA NotBottom ==
  ASSUME NEW p, NEW g, Shape(p, g), Coherence(g), NEW x \in Locs, NEW w \in StoresTo(g, x)
  PROVE  w # Bottom /\ w \in Events(g)
  <1>1. w \in Events(g)
    BY StoresFacts DEF Shape
  <1>2. w[2] \in Nat
    BY <1>1, EventFacts
  <1> QED BY <1>1, <1>2 DEF Bottom

-----------------------------------------------------------------------------
\* Steps that add no label.

SameLabel(a, b) ==
  b.kind = a.kind /\ b.pc = a.pc /\ b.ins = a.ins /\ b.val = a.val /\ b.par = a.par /\ b.view = a.view

\* Load r reads what it read before, or is the last of its thread.
RfKept(g, h, r) ==
  \/ h.lab[r].rf = g.lab[r].rf /\ h.lab[r].rf \in StoresTo(h, g.lab[r].ins.loc)
  \/ next(r) \notin Events(h) /\ h.lab[r].rf \in {Bottom} \cup StoresTo(h, g.lab[r].ins.loc)

LabelKept(g, h, e) ==
  /\ e[2] > 0 => prev(e) \in Events(h)
  /\ DOMAIN h.lab[e] = LabelFields /\ SameLabel(g.lab[e], h.lab[e])
  /\ h.lab[e].stamp \in Nat /\ h.lab[e].stamp < h.ts
  /\ g.lab[e].kind # "block" => g.lab[e].view \subseteq Events(h) \cup EmptyView
  /\ g.lab[e].kind = "R" => RfKept(g, h, e)
  /\ g.lab[e].kind = "join" => \E f \in Events(h) : EndOf(g, e, f)

\* h comes from g by removing labels and making loads that end their thread
\* read other stores, with new stamps in the old order.
Reworked(g, h) ==
  /\ DOMAIN h = {"lab", "co", "ts"} /\ DOMAIN h.co = Locs /\ h.ts \in Nat
  /\ Events(h) \subseteq Events(g) /\ InitEvent \in Events(h)
  /\ \A e \in Events(h) : LabelKept(g, h, e)
  /\ \A e, q \in Events(h) : g.lab[e].stamp < g.lab[q].stamp => h.lab[e].stamp < h.lab[q].stamp
  /\ \A x \in Locs :
       /\ h.co[x] \in Seq(Events(h)) /\ Injective(h.co[x])
       /\ \A k \in 1 .. Len(h.co[x]) : g.lab[h.co[x][k]].kind = "W" /\ g.lab[h.co[x][k]].ins.loc = x

\* Reworked graphs keep their shape: no label is removed before another of its thread.
LEMMA ReworkedShape ==
  ASSUME NEW p, NEW g, NEW h, Shape(p, g), Reworked(g, h)
  PROVE  Shape(p, h)
  <1>1. IsFiniteSet(Events(h))
    BY FS_Subset DEF Shape, Reworked
  <1>2. \A e \in Events(h) : e \in (DOMAIN p) \X Nat
    BY DEF Shape, Reworked
  <1>3. ASSUME NEW e \in Events(h)
        PROVE  /\ e[2] > 0 => prev(e) \in Events(h)
               /\ DOMAIN h.lab[e] = LabelFields /\ h.lab[e].pc \in Nat /\ h.lab[e].stamp \in Nat
    <2>1. LabelKept(g, h, e) /\ e \in Events(g)
      BY DEF Reworked
    <2>2. g.lab[e].pc \in Nat
      BY <2>1 DEF Shape
    <2> QED BY <2>1, <2>2 DEF LabelKept, SameLabel
  <1> QED BY <1>1, <1>2, <1>3 DEF Shape, Reworked

\* Reworked graphs keep distinct stamps in program order.
LEMMA ReworkedStamps ==
  ASSUME NEW p, NEW g, NEW h, Shape(p, g), Stamps(g), Reworked(g, h)
  PROVE  Stamps(h)
  <1> SUFFICES ASSUME NEW e \in Events(h)
               PROVE  /\ Lab(h, e).stamp < h.ts
                      /\ \A q \in Events(h) : q # e => Lab(h, q).stamp # Lab(h, e).stamp
                      /\ e[2] > 0 => Lab(h, prev(e)).stamp < Lab(h, e).stamp
    BY Zenon DEF Stamps
  <1>1. e \in Events(g) /\ LabelKept(g, h, e)
    BY DEF Reworked
  <1>2. ASSUME NEW q \in Events(h), q # e PROVE Lab(h, q).stamp # Lab(h, e).stamp
    <2>1. q \in Events(g) /\ LabelKept(g, h, q)
      BY DEF Reworked
    <2>2. g.lab[q].stamp # g.lab[e].stamp
      BY <1>1, <1>2, <2>1 DEF Stamps, Lab
    <2>3. g.lab[q].stamp \in Nat /\ g.lab[e].stamp \in Nat
      BY <1>1, <2>1 DEF Shape
    <2>4. g.lab[q].stamp < g.lab[e].stamp \/ g.lab[e].stamp < g.lab[q].stamp
      BY <2>2, <2>3
    <2>5. h.lab[q].stamp < h.lab[e].stamp \/ h.lab[e].stamp < h.lab[q].stamp
      BY <2>4 DEF Reworked
    <2>6. h.lab[q].stamp \in Nat /\ h.lab[e].stamp \in Nat
      BY <1>1, <2>1 DEF LabelKept
    <2> QED BY <2>5, <2>6 DEF Lab
  <1>3. ASSUME e[2] > 0 PROVE Lab(h, prev(e)).stamp < Lab(h, e).stamp
    <2>1. prev(e) \in Events(h)
      BY <1>1, <1>3 DEF LabelKept
    <2>2. g.lab[prev(e)].stamp < g.lab[e].stamp
      BY <1>1, <1>3 DEF Stamps, Lab
    <2> QED BY <2>1, <2>2 DEF Reworked, Lab
  <1>4. Lab(h, e).stamp < h.ts
    BY <1>1 DEF LabelKept, Lab
  <1> QED BY <1>2, <1>3, <1>4

\* Reworked graphs keep the kinds of their labels.
LEMMA ReworkedKinds ==
  ASSUME NEW p, NEW g, NEW h, Kinds(p, g), Reworked(g, h)
  PROVE  Kinds(p, h)
  <1>1. ASSUME NEW e \in Events(h)
        PROVE  e \in Events(g) /\ SameLabel(g.lab[e], h.lab[e]) /\ (next(e) \notin Events(g) => next(e) \notin Events(h))
    BY DEF Reworked, LabelKept
  <1> QED BY <1>1 DEF Kinds, SameLabel

\* Coherence of a reworked graph lists stores of its location.
LEMMA ReworkedCoherence ==
  ASSUME NEW g, NEW h, Reworked(g, h)
  PROVE  Coherence(h)
  <1> SUFFICES ASSUME NEW x \in Locs
               PROVE  /\ h.co[x] \in Seq(Events(h))
                      /\ \A k \in 1 .. Len(h.co[x]) : Lab(h, h.co[x][k]).kind = "W" /\ Addr(h, h.co[x][k]) = x
                      /\ Injective(h.co[x])
    BY Zenon DEF Coherence
  <1>1. h.co[x] \in Seq(Events(h)) /\ Injective(h.co[x])
    BY DEF Reworked
  <1>2. ASSUME NEW k \in 1 .. Len(h.co[x]) PROVE Lab(h, h.co[x][k]).kind = "W" /\ Addr(h, h.co[x][k]) = x
    <2> DEFINE w == h.co[x][k]
    <2>1. w \in Events(h)
      BY <1>1
    <2>2. g.lab[w].kind = "W" /\ g.lab[w].ins.loc = x
      BY DEF Reworked
    <2>3. SameLabel(g.lab[w], h.lab[w])
      BY <2>1 DEF Reworked, LabelKept
    <2> QED BY <2>2, <2>3 DEF SameLabel, Lab, Addr
  <1> QED BY <1>1, <1>2

\* Loads of a reworked graph read a store, or end their thread.
LEMMA ReworkedReads ==
  ASSUME NEW g, NEW h, Reworked(g, h)
  PROVE  ReadsFrom(h)
  <1> SUFFICES ASSUME NEW r \in Events(h), isRead(h, r)
               PROVE  \/ Dangles(h, r) /\ next(r) \notin Events(h)
                      \/ Lab(h, r).rf \in StoresTo(h, Addr(h, r))
    BY Zenon DEF ReadsFrom
  <1>1. SameLabel(g.lab[r], h.lab[r]) /\ (g.lab[r].kind = "R" => RfKept(g, h, r))
    BY DEF Reworked, LabelKept
  <1>2. g.lab[r].kind = "R" /\ g.lab[r].ins.loc = Addr(h, r)
    BY <1>1 DEF SameLabel, isRead, Lab, Addr
  <1> QED BY <1>1, <1>2 DEF RfKept, Dangles, Lab

\* Views of a reworked graph are still closed under program order.
LEMMA ReworkedViewShape ==
  ASSUME NEW g, NEW h, ViewShape(g), Reworked(g, h)
  PROVE  ViewShape(h)
  <1> SUFFICES ASSUME NEW e \in Events(h)
               PROVE  /\ EmptyView \subseteq Lab(h, e).view /\ Lab(h, e).view \subseteq Events(h) \cup EmptyView
                      /\ \A q \in Lab(h, e).view : q[2] > 0 => prev(q) \in Lab(h, e).view
                      /\ e[2] = 0 \/ Lab(h, e).kind = "block" => Lab(h, e).view = EmptyView
                      /\ e[2] > 0 /\ Lab(h, e).kind # "block" => prev(e) \in Lab(h, e).view
    BY Zenon DEF ViewShape
  <1>1. e \in Events(g) /\ LabelKept(g, h, e)
    BY DEF Reworked
  <1>2. Lab(h, e).view = Lab(g, e).view /\ Lab(h, e).kind = Lab(g, e).kind
    BY <1>1 DEF LabelKept, SameLabel, Lab
  <1>3. Lab(g, e).kind # "block" => Lab(g, e).view \subseteq Events(h) \cup EmptyView
    BY <1>1 DEF LabelKept, Lab
  <1>4. /\ EmptyView \subseteq Lab(g, e).view
        /\ \A q \in Lab(g, e).view : q[2] > 0 => prev(q) \in Lab(g, e).view
        /\ e[2] = 0 \/ Lab(g, e).kind = "block" => Lab(g, e).view = EmptyView
        /\ e[2] > 0 /\ Lab(g, e).kind # "block" => prev(e) \in Lab(g, e).view
    BY <1>1, Zenon DEF ViewShape
  <1> QED BY <1>2, <1>3, <1>4

\* An event that a label of h knows of has kept its label; a load among them
\* is not the last of its thread.
LEMMA SeenKept ==
  ASSUME NEW p, NEW g, NEW h, GraphInv(p, g), Reworked(g, h), NEW e \in Events(h), NEW q \in Lab(g, e).view, q[2] > 0
  PROVE  /\ q \in Events(g) /\ q \in Events(h) /\ Lab(g, e).kind # "block"
         /\ isRead(g, q) => next(q) \in Events(h)
  <1>0. Shape(p, g) /\ Stamps(g) /\ ViewShape(g) /\ ViewPast(g) /\ Shape(p, h)
    BY ReworkedShape DEF GraphInv
  <1>1. e \in Events(g) /\ LabelKept(g, h, e) /\ Events(h) \subseteq Events(g)
    BY DEF Reworked
  <1>2. \A v \in EmptyView : v[2] = 0
    BY DEF EmptyView
  <1>3. Lab(g, e).kind # "block"
    BY <1>0, <1>1, <1>2 DEF ViewShape
  <1>4. Lab(g, e).view \subseteq Events(h) \cup EmptyView
    BY <1>1, <1>3 DEF LabelKept, Lab
  <1>5. q \in Events(h) /\ q \in Events(g)
    BY <1>1, <1>2, <1>4
  <1>6. /\ Lab(g, q).stamp < Lab(g, e).stamp
        /\ isRead(g, q) /\ q[1] # e[1] => next(q) \in Lab(g, e).view
    BY <1>0, <1>1 DEF ViewPast
  <1>7. q[2] \in Nat /\ e[2] \in Nat /\ e = <<e[1], e[2]>> /\ q = <<q[1], q[2]>>
    BY <1>0, <1>1, <1>5, EventFacts
  <1>8. ASSUME isRead(g, q), q[1] # e[1] PROVE next(q) \in Events(h)
    <2>1. next(q) \in Lab(g, e).view /\ next(q)[2] # 0
      BY <1>6, <1>7, <1>8 DEF next
    <2> QED BY <1>2, <1>4, <2>1
  <1>9. ASSUME q[1] = e[1] PROVE next(q) \in Events(h)
    <2>1. Lab(g, q).stamp \in Nat /\ Lab(g, e).stamp \in Nat
      BY <1>0, <1>1, <1>5 DEF Shape, Lab
    <2>2. q # e
      BY <1>6, <2>1
    <2>3. ~ e[2] < q[2]
      <3>1. SUFFICES ASSUME e[2] < q[2] PROVE FALSE
        OBVIOUS
      <3>2. Lab(g, e).stamp < Lab(g, q).stamp
        BY <1>0, <1>1, <1>5, <1>9, <3>1, StampsGrow
      <3> QED BY <1>6, <2>1, <3>2
    <2>4. q[2] # e[2]
      BY <1>7, <1>9, <2>2
    <2>5. q[2] + 1 \in Nat /\ q[2] + 1 <= e[2]
      BY <1>7, <2>3, <2>4
    <2>6. <<e[1], q[2] + 1>> \in Events(h)
      BY <1>0, <2>5, Below
    <2> QED BY <1>9, <2>6 DEF next
  <1> QED BY <1>3, <1>5, <1>8, <1>9

\* What the labels of a reworked graph have in their views is still their past.
LEMMA ReworkedViewPast ==
  ASSUME NEW p, NEW g, NEW h, GraphInv(p, g), Reworked(g, h)
  PROVE  ViewPast(h)
  <1> SUFFICES ASSUME NEW e \in Events(h), NEW q \in Lab(h, e).view, q[2] > 0
               PROVE  /\ Lab(h, q).kind # "block" /\ Lab(h, q).stamp < Lab(h, e).stamp
                      /\ Lab(h, q).view \subseteq Lab(h, e).view
                      /\ isRead(h, q) => /\ Lab(h, q).rf \in Lab(h, e).view
                                         /\ q[1] # e[1] => next(q) \in Lab(h, e).view
    BY Zenon DEF ViewPast
  <1>1. e \in Events(g) /\ LabelKept(g, h, e)
    BY DEF Reworked
  <1>2. Lab(h, e).view = Lab(g, e).view
    BY <1>1 DEF LabelKept, SameLabel, Lab
  <1>3. q \in Lab(g, e).view
    BY <1>2
  <1>4. q \in Events(g) /\ q \in Events(h) /\ (isRead(g, q) => next(q) \in Events(h))
    BY <1>3, SeenKept
  <1>5. LabelKept(g, h, q)
    BY <1>4 DEF Reworked
  <1>6. Lab(h, q).view = Lab(g, q).view /\ Lab(h, q).kind = Lab(g, q).kind
    BY <1>5 DEF LabelKept, SameLabel, Lab
  <1>7. /\ Lab(g, q).kind # "block" /\ Lab(g, q).stamp < Lab(g, e).stamp
        /\ Lab(g, q).view \subseteq Lab(g, e).view
        /\ isRead(g, q) => /\ Lab(g, q).rf \in Lab(g, e).view
                           /\ q[1] # e[1] => next(q) \in Lab(g, e).view
    BY <1>1, <1>3, Zenon DEF GraphInv, ViewPast
  <1>8. Lab(h, q).stamp < Lab(h, e).stamp
    BY <1>4, <1>7 DEF Reworked, Lab
  <1>9. isRead(h, q) => isRead(g, q) /\ Lab(h, q).rf = Lab(g, q).rf
    BY <1>4, <1>5, <1>6 DEF LabelKept, RfKept, isRead, Lab
  <1> QED BY <1>2, <1>6, <1>7, <1>8, <1>9

\* An access is to a location.
LEMMA AccessLoc ==
  ASSUME NEW p, isProgram(p), NEW g, Shape(p, g), Kinds(p, g), NEW e \in Events(g), Lab(g, e).kind \in {"R", "W"}
  PROVE  Addr(g, e) \in Locs
  <1>1. e[1] \in DOMAIN p
    BY EventFacts
  <1>2. g.lab[e].pc \in DOMAIN p[e[1]] /\ g.lab[e].ins = p[e[1]][g.lab[e].pc] /\ g.lab[e].ins.op \in AccessOps
    BY DEF Kinds, Lab
  <1> DEFINE ins == p[e[1]][g.lab[e].pc]
  <1>3. ins.op \in {"load", "store", "fai", "cas"} => ins.loc \in Locs
    BY <1>1, <1>2 DEF isProgram
  <1> QED BY <1>2, <1>3 DEF AccessOps, Addr, Lab

\* Blocked loads of a reworked graph still read older stores.
LEMMA ReworkedBlocked ==
  ASSUME NEW p, isProgram(p), NEW g, NEW h, GraphInv(p, g), Reworked(g, h)
  PROVE  Blocked(h)
  <1> SUFFICES ASSUME NEW r \in Events(h), isRead(h, r), next(r) \in Events(h)
               PROVE  IF Lab(h, next(r)).kind = "block"
                      THEN Lab(h, Lab(h, r).rf).stamp < Lab(h, next(r)).stamp
                      ELSE isAnnotated(Lab(h, r).ins) /\ Lab(h, r).ins.op = "load" => getReadValue(h, r) = Lab(h, r).ins.ann
    BY Zenon DEF Blocked
  <1> DEFINE w == Lab(h, r).rf
  <1>1. r \in Events(g) /\ next(r) \in Events(g) /\ LabelKept(g, h, r) /\ LabelKept(g, h, next(r))
    BY DEF Reworked
  <1>2. Lab(h, r).kind = Lab(g, r).kind /\ Lab(h, r).ins = Lab(g, r).ins /\ Lab(h, next(r)).kind = Lab(g, next(r)).kind
    BY <1>1 DEF LabelKept, SameLabel, Lab
  <1>3. isRead(g, r)
    BY <1>2 DEF isRead
  <1>4. w = Lab(g, r).rf /\ w \in StoresTo(h, Addr(h, r))
    BY <1>1, <1>2, <1>3 DEF LabelKept, RfKept, isRead, Lab, Addr
  <1>5. Coherence(h) /\ Shape(p, h) /\ Kinds(p, h)
    BY ReworkedShape, ReworkedCoherence, ReworkedKinds DEF GraphInv
  <1>6. Addr(h, r) \in Locs
    BY <1>5, AccessLoc DEF isRead
  <1>7. w \in Events(h)
    BY <1>4, <1>5, <1>6, StoresFacts DEF Shape
  <1>8. IF Lab(g, next(r)).kind = "block"
        THEN Lab(g, Lab(g, r).rf).stamp < Lab(g, next(r)).stamp
        ELSE isAnnotated(Lab(g, r).ins) /\ Lab(g, r).ins.op = "load" => getReadValue(g, r) = Lab(g, r).ins.ann
    BY <1>1, <1>3 DEF GraphInv, Blocked
  <1>9. Lab(g, w).stamp < Lab(g, next(r)).stamp => Lab(h, w).stamp < Lab(h, next(r)).stamp
    BY <1>7 DEF Reworked, Lab
  <1>10. getReadValue(h, r) = getReadValue(g, r)
    <2>1. SameLabel(g.lab[w], h.lab[w])
      BY <1>7 DEF Reworked, LabelKept
    <2>2. getWriteValue(h, w) = getWriteValue(g, w)
      BY <2>1 DEF getWriteValue, SameLabel, Lab
    <2> QED BY <1>4, <2>2 DEF getReadValue
  <1> QED BY <1>2, <1>4, <1>8, <1>9, <1>10

-----------------------------------------------------------------------------
\* The labels of a thread.

Column(t, n) == {<<t, i>> : i \in 0 .. n - 1}

\* The first n labels of a thread are n labels.
LEMMA ColumnCardinality ==
  ASSUME NEW t, NEW n \in Nat
  PROVE  IsFiniteSet(Column(t, n)) /\ Cardinality(Column(t, n)) = n
  <1> DEFINE C == Column(t, n)
  <1> DEFINE f == [i \in 0 .. n - 1 |-> <<t, i>>]
  <1>1. f \in Bijection(0 .. n - 1, C)
    <2>1. f \in [0 .. n - 1 -> C]
      BY DEF Column
    <2>2. \A i, j \in 0 .. n - 1 : f[i] = f[j] => i = j
      OBVIOUS
    <2>3. \A c \in C : \E i \in 0 .. n - 1 : f[i] = c
      BY DEF Column
    <2> QED BY <2>1, <2>2, <2>3, Fun_IsBij
  <1>2. IsFiniteSet(0 .. n - 1) /\ Cardinality(0 .. n - 1) = n
    BY FS_Interval
  <1> HIDE DEF f
  <1>3. ExistsBijection(0 .. n - 1, C)
    BY <1>1, Zenon DEF ExistsBijection
  <1> QED BY <1>2, <1>3, FS_Bijection

\* The size of a thread says which of its labels there are.
LEMMA SizeFacts ==
  ASSUME NEW p, NEW g, Shape(p, g), NEW t
  PROVE  /\ ThreadSize(g, t) \in Nat
         /\ \A i \in Nat : <<t, i>> \in Events(g) <=> i < ThreadSize(g, t)
  <1> DEFINE P == {e \in Events(g) : e[1] = t}
             T == {i \in Nat : <<t, i>> \notin Events(g)}
  <1>1. IsFiniteSet(P) /\ Cardinality(P) \in Nat
    BY FS_Subset, FS_CardinalityType DEF Shape
  <1>2. ASSUME T = {} PROVE FALSE
    <2> DEFINE n == Cardinality(P) + 1
    <2>1. n \in Nat
      BY <1>1
    <2>5. \A i \in 0 .. n - 1 : i \in Nat
      OBVIOUS
    <2> HIDE DEF n
    <2>6. \A i \in 0 .. n - 1 : <<t, i>> \in P
      BY <1>2, <2>5
    <2>2. Column(t, n) \subseteq P
      BY <2>6, Zenon DEF Column
    <2>3. Cardinality(Column(t, n)) <= Cardinality(P)
      BY <1>1, <2>2, FS_Subset
    <2>4. Cardinality(Column(t, n)) = n
      BY <2>1, ColumnCardinality
    <2> QED BY <1>1, <2>3, <2>4 DEF n
  <1>3. PICK n \in T : \A k \in T : n <= k
    BY <1>2, LeastOf
  <1>4. ASSUME NEW i \in Nat, <<t, i>> \in Events(g) PROVE i < n
    <2>1. SUFFICES ASSUME n <= i PROVE FALSE
      BY <1>3
    <2> DEFINE e == <<t, i>>
    <2>2. e \in Events(g) /\ n \in Nat /\ n <= e[2] /\ e[1] = t
      BY <1>3, <1>4, <2>1
    <2> HIDE DEF e
    <2>3. <<e[1], n>> \in Events(g)
      BY <2>2, Below
    <2> QED BY <1>3, <2>2, <2>3
  <1>5. ASSUME NEW i \in Nat, i < n PROVE <<t, i>> \in Events(g)
    BY <1>3, <1>5
  <1>6. P = Column(t, n)
    <2>1. ASSUME NEW e \in P PROVE e \in Column(t, n)
      <3>0. e \in Events(g) /\ e[1] = t
        OBVIOUS
      <3>1. e = <<t, e[2]>> /\ e[2] \in Nat /\ e \in Events(g)
        BY <3>0, EventFacts
      <3>2. e[2] < n
        BY <1>4, <3>1
      <3>3. e[2] \in 0 .. n - 1
        BY <1>3, <3>1, <3>2
      <3> QED BY <3>1, <3>3, Zenon DEF Column
    <2>2. ASSUME NEW i \in 0 .. n - 1 PROVE <<t, i>> \in P
      BY <1>3, <1>5
    <2> QED BY <2>1, <2>2, Zenon DEF Column
  <1> HIDE DEF P
  <1>7. Cardinality(P) = n
    BY <1>3, <1>6, ColumnCardinality
  <1>8. ThreadSize(g, t) = n /\ n \in Nat
    BY <1>3, <1>7 DEF ThreadSize, P
  <1> QED BY <1>4, <1>5, <1>8

\* The last label of a thread.
LEMMA LastFacts ==
  ASSUME NEW p, NEW g, Shape(p, g), NEW t, t \in LiveThreads(g)
  PROVE  /\ ThreadSize(g, t) \in Nat \ {0} /\ t \in DOMAIN p
         /\ LastEvent(g, t) \in Events(g) /\ LastEvent(g, t) = <<t, ThreadSize(g, t) - 1>>
         /\ next(LastEvent(g, t)) = <<t, ThreadSize(g, t)>> /\ next(LastEvent(g, t)) \notin Events(g)
         /\ \A e \in Events(g) : e[1] = t /\ next(e) \notin Events(g) => e = LastEvent(g, t)
  <1> DEFINE n == ThreadSize(g, t)
  <1>1. n \in Nat /\ \A i \in Nat : <<t, i>> \in Events(g) <=> i < n
    BY SizeFacts
  <1>2. PICK e \in Events(g) : e[1] = t
    BY DEF LiveThreads
  <1>3. e[2] \in Nat /\ <<t, e[2]>> \in Events(g) /\ t \in DOMAIN p
    BY <1>2, EventFacts
  <1>4. n # 0 /\ n - 1 \in Nat /\ n - 1 < n
    BY <1>1, <1>3
  <1>5. LastEvent(g, t) = <<t, n - 1>>
    BY DEF LastEvent
  <1> HIDE DEF n
  <1>6. LastEvent(g, t) \in Events(g)
    BY <1>1, <1>4, <1>5
  <1>7. next(LastEvent(g, t)) = <<t, n>>
    <2>1. next(<<t, n - 1>>) = <<t, (n - 1) + 1>>
      BY DEF next
    <2>2. (n - 1) + 1 = n
      BY <1>1
    <2> QED BY <1>5, <2>1, <2>2
  <1>8. <<t, n>> \notin Events(g)
    BY <1>1
  <1>9. ASSUME NEW q \in Events(g), q[1] = t, next(q) \notin Events(g) PROVE q = LastEvent(g, t)
    <2>1. q[2] \in Nat /\ q = <<t, q[2]>> /\ q[2] + 1 \in Nat
      BY <1>9, EventFacts
    <2>2. q[2] < n
      <3>1. <<t, q[2]>> \in Events(g)
        BY <2>1
      <3> QED BY <1>1, <2>1, <3>1, Zenon
    <2>3. next(q) = <<t, q[2] + 1>>
      BY <2>1 DEF next
    <2> DEFINE i == q[2] + 1
    <2>6. i \in Nat /\ <<t, i>> \notin Events(g)
      BY <1>9, <2>1, <2>3
    <2> HIDE DEF i
    <2>7. ~ i < n
      BY <1>1, <2>6, Zenon
    <2>4. ~ q[2] + 1 < n
      BY <2>7 DEF i
    <2>5. q[2] = n - 1
      <3> DEFINE k == q[2]
      <3>1. k \in Nat /\ k < n /\ ~ k + 1 < n /\ n \in Nat
        BY <1>1, <2>1, <2>2, <2>4
      <3> HIDE DEF k
      <3>2. k = n - 1
        BY <3>1
      <3> QED BY <3>2 DEF k
    <2> QED BY <1>5, <2>1, <2>5
  <1>10. n \in Nat \ {0}
    BY <1>1, <1>4
  <1> QED BY <1>3, <1>10, <1>5, <1>6, <1>7, <1>8, <1>9, Zenon DEF n

-----------------------------------------------------------------------------
\* Views.

\* What is before a label in its thread is in its view.
LEMMA OwnPast ==
  ASSUME NEW p, NEW g, Shape(p, g), ViewShape(g), NEW q \in Events(g), Lab(g, q).kind # "block",
         NEW i \in Nat, i < q[2]
  PROVE  <<q[1], i>> \in Lab(g, q).view
  <1> DEFINE V == Lab(g, q).view
             T == {k \in Nat : k < q[2] /\ <<q[1], q[2] - 1 - k>> \notin V}
  <1>0. q[2] \in Nat /\ q = <<q[1], q[2]>>
    BY EventFacts
  <1>6. q[2] > 0
    BY <1>0
  <1>1. prev(q) \in V /\ prev(q) = <<q[1], q[2] - 1>> /\ \A e \in V : e[2] > 0 => prev(e) \in V
    BY <1>6, Zenon DEF ViewShape, prev
  <1> HIDE DEF V
  <1>2. ASSUME T # {} PROVE FALSE
    <2>1. PICK m \in T : \A k \in T : m <= k
      BY <1>2, LeastOf
    <2>2. m # 0
      BY <1>0, <1>1, <2>1
    <2> DEFINE e == <<q[1], q[2] - 1 - (m - 1)>>
    <2>3. m - 1 \in Nat /\ m - 1 < q[2] /\ m - 1 \notin T
      BY <1>0, <2>1, <2>2
    <2>4. e \in V
      BY <2>3
    <2>5. e[2] > 0 /\ e[1] = q[1] /\ e[2] - 1 = q[2] - 1 - m
      BY <1>0, <2>1, <2>2
    <2> HIDE DEF e
    <2>6. prev(e) \in V
      BY <1>1, <2>4, <2>5
    <2>7. prev(e) = <<q[1], q[2] - 1 - m>>
      BY <2>5 DEF prev
    <2> QED BY <2>1, <2>6, <2>7
  <1> DEFINE k == q[2] - 1 - i
  <1>3. k \in Nat /\ k < q[2] /\ q[2] - 1 - k = i
    BY <1>0
  <1> HIDE DEF k
  <1>4. k \notin T
    BY <1>2
  <1>5. <<q[1], q[2] - 1 - k>> \in V
    BY <1>3, <1>4
  <1> QED BY <1>3, <1>5 DEF V

\* The prefix of a label is its view and the label itself.
LEMMA PrefixIs ==
  ASSUME NEW p, isProgram(p), NEW g, Shape(p, g), ViewShape(g), NEW q \in Events(g), Lab(g, q).kind # "block"
  PROVE  prefixView(g, q) = Lab(g, q).view \cup {q}
  <1>0. q[2] \in Nat /\ q = <<q[1], q[2]>> /\ q[1] \in DOMAIN p
    BY EventFacts
  <1>1. prefixView(g, q) = Lab(g, q).view \cup {<<q[1], i>> : i \in 0 .. q[2]}
    BY DEF prefixView, updateIdx
  <1>2. ASSUME NEW i \in 0 .. q[2] PROVE <<q[1], i>> \in Lab(g, q).view \cup {q}
    <2>1. CASE i = q[2]
      BY <2>1, <1>0
    <2>2. CASE i # q[2]
      <3>1. i \in Nat /\ i < q[2]
        BY <1>0, <2>2
      <3> QED BY <3>1, OwnPast
    <2> QED BY <2>1, <2>2
  <1>3. q \in {<<q[1], i>> : i \in 0 .. q[2]}
    <2>1. q[2] \in 0 .. q[2]
      BY <1>0
    <2> QED BY <1>0, <2>1
  <1> QED BY <1>1, <1>2, <1>3

\* The successor and the predecessor of an event.
LEMMA NextPrev ==
  ASSUME NEW p, NEW g, Shape(p, g), NEW e \in Events(g)
  PROVE  /\ next(prev(e)) = e /\ prev(next(e)) = e /\ next(e) = <<e[1], e[2] + 1>>
         /\ next(e)[1] = e[1] /\ next(e)[2] = e[2] + 1 /\ next(e)[2] > 0 /\ next(e) # e
  <1>1. e = <<e[1], e[2]>> /\ e[2] \in Nat
    BY EventFacts
  <1> DEFINE a == e[1]
             i == e[2]
  <1>2. e = <<a, i>> /\ i \in Nat
    BY <1>1
  <1> HIDE DEF a, i
  <1>3. (i - 1) + 1 = i /\ (i + 1) - 1 = i /\ i + 1 > 0 /\ i + 1 # i
    BY <1>2
  <1>4. prev(e) = <<a, i - 1>> /\ next(e) = <<a, i + 1>>
    BY <1>2 DEF prev, next
  <1>5. next(<<a, i - 1>>) = <<a, (i - 1) + 1>> /\ prev(<<a, i + 1>>) = <<a, (i + 1) - 1>>
    BY DEF prev, next
  <1>6. e[1] = a /\ e[2] = i
    BY <1>2
  <1>7. next(prev(e)) = e /\ prev(next(e)) = e
    BY <1>2, <1>3, <1>4, <1>5, Zenon
  <1>8. next(e)[1] = a /\ next(e)[2] = i + 1
    BY <1>4
  <1> QED BY <1>3, <1>4, <1>6, <1>7, <1>8

-----------------------------------------------------------------------------
\* Views and synchronisation.

\* What a load reads is in the graph.
LEMMA RfInGraph ==
  ASSUME NEW p, isProgram(p), NEW g, GraphInv(p, g), NEW r \in Events(g), isRead(g, r), ~ Dangles(g, r)
  PROVE  /\ Addr(g, r) \in Locs /\ Lab(g, r).rf \in StoresTo(g, Addr(g, r)) /\ Lab(g, r).rf \in Events(g)
         /\ Lab(g, r).rf = InitEvent \/ Lab(g, Lab(g, r).rf).kind = "W"
  <1>1. Addr(g, r) \in Locs
    BY AccessLoc DEF isRead, GraphInv
  <1>2. Lab(g, r).rf \in StoresTo(g, Addr(g, r))
    BY DEF GraphInv, ReadsFrom
  <1>3. InitEvent \in Events(g)
    BY DEF GraphInv, Shape
  <1> QED BY <1>1, <1>2, <1>3, StoresFacts DEF GraphInv

\* A load that is not the last of its thread reads a store.
LEMMA FollowedRead ==
  ASSUME NEW p, isProgram(p), NEW g, GraphInv(p, g), NEW r \in Events(g), isRead(g, r), next(r) \in Events(g)
  PROVE  ~ Dangles(g, r)
  <1>1. Shape(p, g) /\ Kinds(p, g) /\ Coherence(g) /\ ReadsFrom(g)
    BY DEF GraphInv
  <1>2. Lab(g, r).rf \in StoresTo(g, Addr(g, r)) /\ Addr(g, r) \in Locs
    BY <1>1, AccessLoc DEF ReadsFrom, isRead
  <1> QED BY <1>1, <1>2, NotBottom DEF Dangles

\* The end of a thread is its only one, and what a join synchronises with.
LEMMA SyncJoin ==
  ASSUME NEW p, NEW g, Shape(p, g), BeginEnd(g), NEW j, Lab(g, j).kind = "join", NEW f, EndOf(g, j, f)
  PROVE  SyncPreds(g, j) = {f} /\ \A q : EndOf(g, j, q) => q = f
  <1> DEFINE t == Lab(g, j).ins.child
  <1>1. ASSUME NEW q, EndOf(g, j, q) PROVE q = LastEvent(g, t)
    <2>1. q \in Events(g) /\ q[1] = t /\ next(q) \notin Events(g)
      BY <1>1 DEF EndOf, BeginEnd
    <2>2. t \in LiveThreads(g)
      BY <2>1 DEF LiveThreads
    <2> HIDE DEF t
    <2> QED BY <2>1, <2>2, LastFacts
  <1>2. f = LastEvent(g, t) /\ f \in Events(g) /\ Lab(g, f).kind = "finish"
    BY <1>1 DEF EndOf
  <1>3. SyncPreds(g, j) = {q \in Events(g) : q = LastEvent(g, t) /\ Lab(g, q).kind = "finish"}
    BY DEF SyncPreds
  <1> HIDE DEF t
  <1> QED BY <1>1, <1>2, <1>3

\* What a label synchronises with is in its view.
LEMMA SyncSeen ==
  ASSUME NEW p, isProgram(p), NEW g, GraphInv(p, g), NEW e \in Events(g), Lab(g, e).kind # "block", e[2] > 0,
         NEW q \in {prev(e)} \cup SyncPreds(g, prev(e))
  PROVE  q \in Events(g) /\ q \in Lab(g, e).view /\ (q[2] > 0 \/ q = prev(e) \/ q = InitEvent)
  <1> DEFINE d == prev(e)
  <1>g. Shape(p, g) /\ Kinds(p, g) /\ ViewShape(g) /\ BeginEnd(g) /\ Exact(g)
    BY DEF GraphInv, Synced
  <1>1. d \in Events(g) /\ d \in Lab(g, e).view /\ next(d) = e
    BY <1>g, NextPrev DEF Shape, ViewShape
  <1>0. e[2] # 0
    BY <1>g, EventFacts
  <1>2. Lab(g, e).view = UNION {prefixView(g, c) : c \in {d} \cup SyncPreds(g, d)}
    <2>1. Lab(g, e).view = ViewBefore(g, e)
      BY <1>g DEF Exact
    <2> QED BY <1>0, <2>1, Zenon DEF ViewBefore
  <1>3. prefixView(g, q) \subseteq Lab(g, e).view
    BY <1>2
  <1>4. ASSUME q = <<q[1], q[2]>>, q[2] \in Nat PROVE q \in Lab(g, e).view
    <2>1. q[2] \in 0 .. q[2]
      BY <1>4
    <2>2. q \in {<<q[1], i>> : i \in 0 .. q[2]}
      BY <1>4, <2>1
    <2> QED BY <1>3, <2>2 DEF prefixView, updateIdx
  <1>5. CASE q = d
    BY <1>1, <1>5
  <1>6. CASE q \in SyncPreds(g, d)
    <2>1. CASE Lab(g, d).kind = "R"
      <3>1. isRead(g, d) /\ ~ Dangles(g, d)
        BY <2>1, <1>1, FollowedRead DEF isRead
      <3>2. q = Lab(g, d).rf
        BY <1>6, <2>1, <3>1 DEF SyncPreds, Dangles
      <3>3. q \in Events(g)
        BY <1>1, <3>1, <3>2, RfInGraph
      <3>4. q = InitEvent \/ Lab(g, q).kind = "W"
        BY <1>1, <3>1, <3>2, RfInGraph
      <3>5. q[2] \in Nat /\ q = <<q[1], q[2]>>
        BY <3>3, <1>g, EventFacts
      <3>6. q = InitEvent \/ q[2] > 0
        BY <3>3, <3>4, <3>5, <1>g DEF Kinds, Lab
      <3> QED BY <3>3, <3>5, <3>6, <1>4
    <2>2. CASE Lab(g, d).kind = "start"
      <3>1. q = Lab(g, d).par /\ q = <<q[1], q[2]>> /\ q[2] \in Nat \ {0}
        BY <1>1, <1>6, <2>2, <1>g DEF SyncPreds, BeginEnd
      <3>2. q \in Lab(g, e).view
        BY <3>1, <1>4
      <3>3. q \notin EmptyView
        BY <3>1 DEF EmptyView
      <3> QED BY <3>1, <3>2, <3>3, <1>g DEF ViewShape
    <2>3. CASE Lab(g, d).kind = "join"
      <3>1. q \in Events(g) /\ Lab(g, q).kind = "finish"
        BY <1>6, <2>3 DEF SyncPreds
      <3>2. q[2] \in Nat /\ q = <<q[1], q[2]>>
        BY <3>1, <1>g, EventFacts
      <3>3. q[2] > 0
        BY <3>1, <3>2, <1>g DEF Kinds, Lab
      <3> QED BY <3>1, <3>2, <3>3, <1>4
    <2>4. CASE Lab(g, d).kind \notin {"R", "start", "join"}
      BY <1>6, <2>4 DEF SyncPreds
    <2> QED BY <2>1, <2>2, <2>3, <2>4
  <1> QED BY <1>5, <1>6

\* Graphs that agree on what a label knows of agree on what happens before it.
LEMMA ViewBeforeSame ==
  ASSUME NEW p, isProgram(p), NEW g, GraphInv(p, g), NEW e \in Events(g), Lab(g, e).kind # "block", e[2] > 0,
         NEW h, \A q \in {prev(e)} \cup SyncPreds(g, prev(e)) : SameLabel(Lab(g, q), Lab(h, q)),
         isRead(g, prev(e)) => Lab(h, prev(e)).rf = Lab(g, prev(e)).rf,
         Lab(g, prev(e)).kind = "join" => SyncPreds(h, prev(e)) = SyncPreds(g, prev(e))
  PROVE  ViewBefore(h, e) = Lab(g, e).view
  <1> DEFINE d == prev(e)
             P == {d} \cup SyncPreds(g, d)
  <1>1. \A q \in P : SameLabel(Lab(g, q), Lab(h, q))
    OBVIOUS
  <1>2. \A q \in P : prefixView(h, q) = prefixView(g, q)
    BY <1>1 DEF prefixView, SameLabel
  <1>3. SyncPreds(h, d) = SyncPreds(g, d)
    <2>1. Lab(h, d).kind = Lab(g, d).kind /\ Lab(h, d).par = Lab(g, d).par
      BY <1>1 DEF SameLabel
    <2>2. CASE Lab(g, d).kind = "join"
      BY <2>2
    <2>3. CASE Lab(g, d).kind = "R"
      BY <2>1, <2>3 DEF SyncPreds, isRead
    <2>4. CASE Lab(g, d).kind = "start"
      BY <2>1, <2>4 DEF SyncPreds
    <2>5. CASE Lab(g, d).kind \notin {"R", "start", "join"}
      BY <2>1, <2>5 DEF SyncPreds
    <2> QED BY <2>2, <2>3, <2>4, <2>5
  <1>0. e[2] # 0
    BY EventFacts DEF GraphInv
  <1>4. ViewBefore(h, e) = UNION {prefixView(h, q) : q \in P}
    BY <1>0, <1>3, Zenon DEF ViewBefore
  <1>5. Lab(g, e).view = UNION {prefixView(g, q) : q \in P}
    <2>1. Lab(g, e).view = ViewBefore(g, e)
      BY DEF GraphInv, Synced, Exact
    <2> QED BY <1>0, <2>1, Zenon DEF ViewBefore
  <1> HIDE DEF P
  <1>6. {prefixView(h, q) : q \in P} = {prefixView(g, q) : q \in P}
    BY <1>2
  <1> QED BY <1>4, <1>5, <1>6

\* Views of a reworked graph are still exact.
LEMMA ReworkedSynced ==
  ASSUME NEW p, isProgram(p), NEW g, NEW h, GraphInv(p, g), Reworked(g, h)
  PROVE  Synced(h)
  <1>g. Shape(p, g) /\ Kinds(p, g) /\ ViewShape(g) /\ BeginEnd(g) /\ Joined(g) /\ Exact(g)
    BY DEF GraphInv, Synced
  <1>h. Shape(p, h)
    BY <1>g, ReworkedShape
  <1>v. \A q \in EmptyView : q[2] = 0
    BY DEF EmptyView
  <1>1. Events(h) \subseteq Events(g) /\ \A e \in Events(h) : LabelKept(g, h, e) /\ SameLabel(Lab(g, e), Lab(h, e))
    BY DEF Reworked, LabelKept, Lab
  <1>2. BeginEnd(h)
    BY <1>1, <1>g DEF BeginEnd, SameLabel
  <1>3. ASSUME NEW j \in Events(h), Lab(g, j).kind = "join"
        PROVE  \E f \in Events(h) : EndOf(g, j, f) /\ EndOf(h, j, f) /\ Lab(h, f).stamp < Lab(h, j).stamp
    <2>1. PICK f \in Events(h) : EndOf(g, j, f)
      BY <1>1, <1>3 DEF LabelKept, Lab
    <2>2. PICK q \in Events(g) : EndOf(g, j, q) /\ Lab(g, q).stamp < Lab(g, j).stamp
      BY <1>1, <1>3, <1>g DEF Joined
    <2>3. q = f
      BY <2>1, <2>2, <1>3, <1>g, SyncJoin
    <2>4. Lab(h, f).stamp < Lab(h, j).stamp
      BY <2>2, <2>3 DEF Reworked, Lab
    <2>5. EndOf(h, j, f)
      BY <2>1, <1>1 DEF EndOf, SameLabel
    <2> QED BY <2>1, <2>4, <2>5
  <1>4. ASSUME NEW e \in Events(h), NEW q \in Lab(h, e).view, q[2] > 0
        PROVE  q \in Events(h) /\ q \in Lab(g, e).view /\ Lab(g, e).kind # "block"
    <2>1. e \in Events(g) /\ Lab(h, e).view = Lab(g, e).view /\ LabelKept(g, h, e)
      BY <1>1 DEF SameLabel
    <2>2. Lab(g, e).kind # "block"
      BY <1>4, <2>1, <1>g, <1>v DEF ViewShape
    <2>3. q \in Events(h) \cup EmptyView
      BY <2>1, <2>2 DEF LabelKept, Lab
    <2> QED BY <1>4, <2>1, <2>2, <2>3, <1>v
  <1>5. Joined(h)
    <2>1. ASSUME NEW j \in Events(h), Lab(h, j).kind = "join"
          PROVE  \E f \in Events(h) : EndOf(h, j, f) /\ Lab(h, f).stamp < Lab(h, j).stamp
      BY <2>1, <1>1, <1>3 DEF SameLabel
    <2>2. ASSUME NEW e \in Events(h), NEW j \in Lab(h, e).view, j[2] > 0, Lab(h, j).kind = "join"
          PROVE  \E f \in Lab(h, e).view : EndOf(h, j, f)
      <3>1. j \in Events(h) /\ j \in Lab(g, e).view /\ e \in Events(g) /\ Lab(h, e).view = Lab(g, e).view
        BY <2>2, <1>1, <1>4 DEF SameLabel
      <3>2. Lab(g, j).kind = "join"
        BY <2>2, <3>1, <1>1 DEF SameLabel
      <3>3. PICK f \in Lab(g, e).view : EndOf(g, j, f)
        BY <2>2, <3>1, <3>2, <1>g DEF Joined
      <3>4. PICK q \in Events(h) : EndOf(g, j, q) /\ EndOf(h, j, q)
        BY <3>1, <3>2, <1>3
      <3>5. q = f
        BY <3>2, <3>3, <3>4, <1>g, SyncJoin
      <3> QED BY <3>1, <3>3, <3>4, <3>5
    <2> QED BY <2>1, <2>2 DEF Joined
  <1>6. ASSUME NEW e \in Events(h), Lab(h, e).kind # "block" PROVE Lab(h, e).view = ViewBefore(h, e)
    <2>1. e \in Events(g) /\ Lab(h, e).view = Lab(g, e).view /\ Lab(g, e).kind # "block" /\ LabelKept(g, h, e)
      BY <1>1, <1>6 DEF SameLabel
    <2>2. CASE e[2] = 0
      <3>1. Lab(g, e).view = EmptyView
        BY <2>1, <2>2, <1>g DEF ViewShape
      <3> QED BY <2>1, <2>2, <3>1 DEF ViewBefore
    <2>3. CASE e[2] # 0
      <3> DEFINE d == prev(e)
      <3>0. e[2] > 0
        BY <2>1, <2>3, <1>g, EventFacts
      <3>1. d \in Events(h) /\ d \in Events(g) /\ next(d) = e
        BY <3>0, <2>1, <1>1, <1>g, NextPrev DEF LabelKept
      <3>2. \A q \in {d} \cup SyncPreds(g, d) : SameLabel(Lab(g, q), Lab(h, q))
        <4> SUFFICES ASSUME NEW q \in {d} \cup SyncPreds(g, d) PROVE SameLabel(Lab(g, q), Lab(h, q))
          OBVIOUS
        <4>1. q \in Lab(g, e).view /\ (q[2] > 0 \/ q = d \/ q = InitEvent)
          BY <2>1, <3>0, SyncSeen
        <4>2. q \in Events(h)
          BY <2>1, <3>1, <4>1, <1>4 DEF Reworked
        <4> QED BY <4>2, <1>1
      <3>3. isRead(g, d) => Lab(h, d).rf = Lab(g, d).rf
        BY <3>1, <1>1 DEF LabelKept, RfKept, isRead, Lab
      <3>4. Lab(g, d).kind = "join" => SyncPreds(h, d) = SyncPreds(g, d)
        <4> SUFFICES ASSUME Lab(g, d).kind = "join" PROVE SyncPreds(h, d) = SyncPreds(g, d)
          OBVIOUS
        <4>1. PICK f \in Events(h) : EndOf(g, d, f) /\ EndOf(h, d, f)
          BY <3>1, <1>3
        <4>2. Lab(h, d).kind = "join"
          BY <3>1, <1>1 DEF SameLabel
        <4> HIDE DEF d
        <4>3. SyncPreds(g, d) = {f}
          BY <4>1, <1>g, SyncJoin
        <4>4. SyncPreds(h, d) = {f}
          BY <4>1, <4>2, <1>h, <1>2, SyncJoin
        <4> QED BY <4>3, <4>4
      <3> HIDE DEF d
      <3> QED BY <2>1, <3>0, <3>2, <3>3, <3>4, ViewBeforeSame DEF d
    <2> QED BY <2>2, <2>3
  <1> QED BY <1>2, <1>5, <1>6 DEF Synced, Exact

\* A reworked graph keeps the invariant: the one fact behind the removal of labels,
\* the cut to a stamp, the copy of a graph and the new stamps after a revisit.
LEMMA ReworkedInv ==
  ASSUME NEW p, isProgram(p), NEW g, NEW h, GraphInv(p, g), Reworked(g, h)
  PROVE  GraphInv(p, h)
  <1>1. Shape(p, g) /\ Stamps(g) /\ Kinds(p, g) /\ ViewShape(g)
    BY DEF GraphInv
  <1>2. Shape(p, h) /\ Stamps(h) /\ Kinds(p, h)
    BY <1>1, ReworkedShape, ReworkedStamps, ReworkedKinds
  <1>3. Coherence(h) /\ ReadsFrom(h) /\ ViewShape(h)
    BY <1>1, ReworkedCoherence, ReworkedReads, ReworkedViewShape
  <1>4. ViewPast(h) /\ Blocked(h) /\ Synced(h)
    BY ReworkedViewPast, ReworkedBlocked, ReworkedSynced
  <1> QED BY <1>2, <1>3, <1>4 DEF GraphInv

-----------------------------------------------------------------------------
\* A new label.

LabelFits(p, g, e, lab) ==
  /\ e \in (DOMAIN p) \X Nat /\ e \notin Events(g) /\ next(e) \notin Events(g)
  /\ e[2] > 0 => prev(e) \in Events(g) /\ Lab(g, prev(e)).kind \notin {"block", "finish"}
  /\ DOMAIN lab = LabelFields /\ lab.pc \in Nat
  /\ e[2] = 0 <=> lab.kind = "start"
  /\ lab.kind # "init"
  /\ lab.kind \in {"R", "W"} =>
       lab.pc \in DOMAIN p[e[1]] /\ lab.ins = p[e[1]][lab.pc] /\ lab.ins.op \in AccessOps
  /\ lab.kind = "R" => lab.ins.op # "store" /\ lab.rf = Bottom
  /\ lab.kind = "start" => lab.par = <<lab.par[1], lab.par[2]>> /\ lab.par[2] \in Nat \ {0}
  /\ lab.kind = "join" => \E f \in Events(g) : f[1] = lab.ins.child /\ Lab(g, f).kind = "finish"
  /\ e[2] > 0 /\ isRead(g, prev(e)) =>
       /\ ~ Dangles(g, prev(e))
       /\ LET ins == Lab(g, prev(e)).ins
          IN  lab.kind # "block" /\ isAnnotated(ins) /\ ins.op = "load" => getReadValue(g, prev(e)) = ins.ann

ViewFits(g, e, view) ==
  /\ EmptyView \subseteq view /\ view \subseteq Events(g) \cup EmptyView
  /\ e[2] > 0 => prev(e) \in view
  /\ \A q \in view : q[2] > 0 =>
       /\ prev(q) \in view /\ Lab(g, q).kind # "block" /\ Lab(g, q).view \subseteq view
       /\ isRead(g, q) => Lab(g, q).rf \in view /\ (q[1] # e[1] => next(q) \in view)

\* A graph to which a label has been added.
LEMMA InsertShape ==
  ASSUME NEW p, NEW g, Shape(p, g), NEW e, NEW lab, LabelFits(p, g, e, lab), NEW h, h = InsertLabel(g, e, lab)
  PROVE  /\ DOMAIN h = {"lab", "co", "ts"} /\ Events(h) = Events(g) \cup {e} /\ h.co = g.co /\ h.ts = g.ts + 1
         /\ \A q \in Events(g) : h.lab[q] = g.lab[q]
         /\ DOMAIN h.lab[e] = LabelFields /\ h.lab[e].stamp = g.ts
         /\ \A f \in LabelFields \ {"stamp"} : h.lab[e][f] = lab[f]
  <1> DEFINE L == [q \in Events(g) \cup {e} |-> IF q = e THEN [lab EXCEPT !.stamp = g.ts] ELSE g.lab[q]]
  <1>1. DOMAIN g = {"lab", "co", "ts"}
    BY DEF Shape
  <1>2. h = [g EXCEPT !.lab = L, !.ts = @ + 1]
    BY DEF InsertLabel
  <1>3. e \notin Events(g) /\ DOMAIN lab = LabelFields
    BY DEF LabelFits
  <1>4. DOMAIN L = Events(g) \cup {e} /\ L[e] = [lab EXCEPT !.stamp = g.ts] /\ \A q \in Events(g) : L[q] = g.lab[q]
    BY <1>3
  <1> HIDE DEF L
  <1>5. DOMAIN h = {"lab", "co", "ts"} /\ h.lab = L /\ h.co = g.co /\ h.ts = g.ts + 1
    BY <1>1, <1>2
  <1>6. Events(h) = Events(g) \cup {e} /\ \A q \in Events(g) : h.lab[q] = g.lab[q]
    BY <1>4, <1>5 DEF Events
  <1>7. h.lab[e] = [lab EXCEPT !.stamp = g.ts]
    BY <1>4, <1>5
  <1>8. DOMAIN h.lab[e] = LabelFields /\ h.lab[e].stamp = g.ts /\ \A f \in LabelFields \ {"stamp"} : h.lab[e][f] = lab[f]
    BY <1>3, <1>7 DEF LabelFields
  <1> QED BY <1>5, <1>6, <1>8

\* The labels whose past goes into the view of the label after q.
SyncFit(g, e) ==
  /\ e[2] > 0 => prev(e) \in Events(g) /\ Lab(g, prev(e)).kind # "block"
  /\ e[2] > 0 /\ isRead(g, prev(e)) => ~ Dangles(g, prev(e))
  /\ e[2] > 0 /\ Lab(g, prev(e)).kind = "start" =>
       Lab(g, prev(e)).par \in Events(g) /\ Lab(g, Lab(g, prev(e)).par).kind = "create"

\* What a new label synchronises with is in the graph and is no blocked label.
LEMMA SyncPredsFit ==
  ASSUME NEW p, isProgram(p), NEW g, GraphInv(p, g), NEW e, e[2] > 0, SyncFit(g, e),
         NEW q \in {prev(e)} \cup SyncPreds(g, prev(e))
  PROVE  /\ q \in Events(g) /\ Lab(g, q).kind # "block" /\ (isRead(g, q) => q = prev(e))
         /\ Lab(g, q).kind = "join" => q = prev(e)
  <1> DEFINE d == prev(e)
  <1>1. d \in Events(g) /\ Lab(g, d).kind # "block"
    BY DEF SyncFit
  <1>2. CASE q = d
    BY <1>1, <1>2
  <1>3. CASE q \in SyncPreds(g, d)
    <2>0. InitEvent \in Events(g) /\ Lab(g, InitEvent).kind = "init"
      BY DEF GraphInv, Shape, Kinds, Lab
    <2>1. CASE Lab(g, d).kind = "R"
      <3>1. ~ Dangles(g, d) /\ isRead(g, d)
        BY <2>1 DEF SyncFit, isRead
      <3>2. q = Lab(g, d).rf
        BY <1>3, <2>1, <3>1 DEF SyncPreds, Dangles
      <3>3. q \in Events(g) /\ (q = InitEvent \/ Lab(g, q).kind = "W")
        BY <1>1, <3>1, <3>2, RfInGraph
      <3> QED BY <2>0, <3>3 DEF isRead
    <2>2. CASE Lab(g, d).kind = "start"
      <3>1. q = Lab(g, d).par
        BY <1>3, <2>2 DEF SyncPreds
      <3> QED BY <2>2, <3>1 DEF SyncFit, isRead
    <2>3. CASE Lab(g, d).kind = "join"
      <3>1. q \in Events(g) /\ Lab(g, q).kind = "finish"
        BY <1>3, <2>3 DEF SyncPreds
      <3> QED BY <3>1 DEF isRead
    <2>4. CASE Lab(g, d).kind \notin {"R", "start", "join"}
      BY <1>3, <2>4 DEF SyncPreds
    <2> QED BY <2>1, <2>2, <2>3, <2>4
  <1> QED BY <1>2, <1>3

\* With a new label, every label still knows what happens before it.
LEMMA InsertSynced ==
  ASSUME NEW p, isProgram(p), NEW g, GraphInv(p, g), NEW e, NEW lab, LabelFits(p, g, e, lab),
         lab.kind = "block" => lab.view = EmptyView,
         lab.kind # "block" => lab.view = ViewBefore(g, e) /\ SyncFit(g, e),
         NEW h, h = InsertLabel(g, e, lab), Shape(p, h)
  PROVE  Synced(h)
  <1>g. Shape(p, g) /\ Stamps(g) /\ Kinds(p, g) /\ ViewShape(g) /\ BeginEnd(g) /\ Joined(g) /\ Exact(g)
    BY DEF GraphInv, Synced
  <1>1. Events(h) = Events(g) \cup {e}
    BY <1>g, InsertShape
  <1>2. \A q \in Events(g) : Lab(h, q) = Lab(g, q) /\ q # e /\ q \in Events(h) /\ SameLabel(Lab(g, q), Lab(h, q))
    BY <1>g, <1>1, InsertShape DEF Lab, LabelFits, SameLabel
  <1>3. /\ Lab(h, e).kind = lab.kind /\ Lab(h, e).ins = lab.ins /\ Lab(h, e).par = lab.par
        /\ Lab(h, e).view = lab.view /\ Lab(h, e).stamp = g.ts
    BY <1>g, InsertShape DEF Lab, LabelFits, LabelFields
  <1>4. \A q \in Events(h) : q \in Events(g) \/ q = e
    BY <1>1
  <1>5. e[2] \in Nat /\ e = <<e[1], e[2]>> /\ next(e) # e
    BY DEF LabelFits, next
  <1>n. \A q \in Events(g) : next(q) = e => e[2] > 0 /\ q = prev(e)
    <2> TAKE q \in Events(g)
    <2>1. q[2] \in Nat /\ q = <<q[1], q[2]>>
      BY <1>g, EventFacts
    <2> QED BY <2>1 DEF next, prev
  <1>v. \A q \in EmptyView : q[2] = 0
    BY DEF EmptyView
  <1>6. BeginEnd(h)
    <2>1. ASSUME NEW q \in Events(h), Lab(h, q).kind = "finish" PROVE next(q) \notin Events(h)
      <3>1. CASE q = e
        BY <3>1, <1>4, <1>5 DEF LabelFits
      <3>2. CASE q \in Events(g)
        BY <3>2, <2>1, <1>2, <1>4, <1>n, <1>g DEF BeginEnd, LabelFits
      <3> QED BY <3>1, <3>2, <1>4
    <2>2. ASSUME NEW q \in Events(h), Lab(h, q).kind = "start"
          PROVE  Lab(h, q).par = <<Lab(h, q).par[1], Lab(h, q).par[2]>> /\ Lab(h, q).par[2] \in Nat \ {0}
      <3>1. CASE q = e
        BY <3>1, <2>2, <1>3 DEF LabelFits
      <3>2. CASE q \in Events(g)
        BY <3>2, <2>2, <1>2, <1>g DEF BeginEnd
      <3> QED BY <3>1, <3>2, <1>4
    <2> QED BY <2>1, <2>2 DEF BeginEnd
  <1>7. ASSUME NEW j \in Events(h), Lab(h, j).kind = "join"
        PROVE  \E f \in Events(g) : EndOf(h, j, f) /\ Lab(h, f).stamp < Lab(h, j).stamp
    <2>1. CASE j = e
      <3>1. PICK f \in Events(g) : f[1] = lab.ins.child /\ Lab(g, f).kind = "finish"
        BY <2>1, <1>7, <1>3 DEF LabelFits
      <3>2. EndOf(h, j, f)
        BY <2>1, <3>1, <1>2, <1>3 DEF EndOf
      <3>3. Lab(g, f).stamp < g.ts
        BY <1>g DEF Stamps
      <3> QED BY <2>1, <3>2, <3>3, <1>2, <1>3
    <2>2. CASE j \in Events(g)
      <3>1. PICK f \in Events(g) : EndOf(g, j, f) /\ Lab(g, f).stamp < Lab(g, j).stamp
        BY <2>2, <1>7, <1>2, <1>g DEF Joined
      <3> QED BY <2>2, <3>1, <1>2 DEF EndOf
    <2> QED BY <2>1, <2>2, <1>4
  <1>8. ASSUME NEW q \in Events(h), NEW j \in Lab(h, q).view, j[2] > 0, Lab(h, j).kind = "join"
        PROVE  \E f \in Lab(h, q).view : EndOf(h, j, f)
    <2>a. ASSUME NEW c \in Events(g), j \in Lab(g, c).view
          PROVE  \E f \in Lab(g, c).view : EndOf(h, j, f)
      <3>1. j \in Events(g)
        BY <2>a, <1>8, <1>g, <1>v DEF ViewShape
      <3>2. Lab(h, j) = Lab(g, j)
        BY <3>1, <1>2
      <3>3. PICK f \in Lab(g, c).view : EndOf(g, j, f)
        BY <2>a, <3>2, <1>8, <1>g DEF Joined
      <3> QED BY <3>2, <3>3, <1>2 DEF EndOf
    <2>1. CASE q \in Events(g)
      BY <2>1, <2>a, <1>2, <1>8
    <2>2. CASE q = e
      <3>1. lab.kind # "block" /\ j \in ViewBefore(g, e) /\ Lab(h, e).view = ViewBefore(g, e)
        BY <2>2, <1>3, <1>8, <1>v
      <3> DEFINE P == {prev(e)} \cup SyncPreds(g, prev(e))
      <3>2. e[2] > 0 /\ e[2] # 0
        BY <3>1, <1>5, <1>8, <1>v DEF ViewBefore
      <3>3. ViewBefore(g, e) = UNION {prefixView(g, c) : c \in P}
        BY <3>2 DEF ViewBefore
      <3>4. \A c \in P : c \in Events(g) /\ Lab(g, c).kind # "block" /\ (Lab(g, c).kind = "join" => c = prev(e))
        BY <3>1, <3>2, SyncPredsFit
      <3>5. \A c \in P : prefixView(g, c) = Lab(g, c).view \cup {c}
        BY <3>4, <1>g, PrefixIs
      <3>6. PICK c \in P : j \in prefixView(g, c)
        BY <3>1, <3>3
      <3>7. prefixView(g, c) \subseteq ViewBefore(g, e)
        BY <3>3
      <3>8. CASE j \in Lab(g, c).view
        <4>1. PICK f \in Lab(g, c).view : EndOf(h, j, f)
          BY <3>4, <3>8, <2>a
        <4>2. f \in prefixView(g, c)
          BY <3>5
        <4> QED BY <4>1, <4>2, <3>1, <3>7, <2>2
      <3>9. CASE j = c
        <4>1. j \in Events(g) /\ Lab(h, j) = Lab(g, j) /\ j = prev(e)
          BY <3>4, <3>9, <1>2, <1>8
        <4>2. PICK f \in Events(g) : EndOf(g, j, f)
          BY <4>1, <1>8, <1>g DEF Joined
        <4>3. SyncPreds(g, j) = {f}
          BY <4>1, <4>2, <1>8, <1>g, SyncJoin
        <4>4. f \in P
          BY <4>1, <4>3
        <4>5. f \in prefixView(g, f) /\ prefixView(g, f) \subseteq ViewBefore(g, e)
          BY <4>4, <3>3, <3>5
        <4>6. EndOf(h, j, f)
          BY <4>1, <4>2, <1>2 DEF EndOf
        <4> QED BY <4>5, <4>6, <3>1, <2>2
      <3> HIDE DEF P
      <3> QED BY <3>5, <3>6, <3>8, <3>9
    <2> QED BY <2>1, <2>2, <1>4
  <1>9. \A j \in Events(g) : Lab(g, j).kind = "join" => SyncPreds(h, j) = SyncPreds(g, j)
    <2> SUFFICES ASSUME NEW j \in Events(g), Lab(g, j).kind = "join" PROVE SyncPreds(h, j) = SyncPreds(g, j)
      OBVIOUS
    <2>1. PICK f \in Events(g) : EndOf(g, j, f)
      BY <1>g DEF Joined
    <2>2. EndOf(h, j, f) /\ Lab(h, j).kind = "join"
      BY <2>1, <1>2 DEF EndOf
    <2>3. SyncPreds(g, j) = {f}
      BY <2>1, <1>g, SyncJoin
    <2>4. SyncPreds(h, j) = {f}
      BY <2>2, <1>6, SyncJoin
    <2> QED BY <2>3, <2>4
  <1>10. ASSUME NEW q \in Events(g), Lab(g, q).kind # "block" PROVE Lab(g, q).view = ViewBefore(h, q)
    <2>1. CASE q[2] = 0
      BY <2>1, <1>10, <1>g DEF ViewShape, ViewBefore
    <2>2. CASE q[2] # 0
      <3>1. q[2] > 0
        BY <2>2, <1>g, EventFacts
      <3>2. \A c \in {prev(q)} \cup SyncPreds(g, prev(q)) : c \in Events(g)
        BY <3>1, <1>10, SyncSeen
      <3>3. \A c \in {prev(q)} \cup SyncPreds(g, prev(q)) : SameLabel(Lab(g, c), Lab(h, c)) /\ Lab(h, c) = Lab(g, c)
        BY <3>2, <1>2
      <3>4. Lab(g, prev(q)).kind = "join" => SyncPreds(h, prev(q)) = SyncPreds(g, prev(q))
        BY <3>2, <1>9
      <3> QED BY <3>1, <3>3, <3>4, <1>10, ViewBeforeSame
    <2> QED BY <2>1, <2>2
  <1>11. ASSUME lab.kind # "block" PROVE lab.view = ViewBefore(h, e)
    <2>1. CASE e[2] = 0
      BY <2>1, <1>11 DEF ViewBefore
    <2>2. CASE e[2] # 0
      <3> DEFINE d == prev(e)
                 P == {d} \cup SyncPreds(g, d)
      <3>1. e[2] > 0
        BY <2>2, <1>5
      <3>2. \A c \in P : c \in Events(g)
        BY <3>1, <1>11, SyncPredsFit
      <3>3. \A c \in P : Lab(h, c) = Lab(g, c) /\ prefixView(h, c) = prefixView(g, c)
        BY <3>2, <1>2 DEF prefixView
      <3>4. SyncPreds(h, d) = SyncPreds(g, d)
        <4>1. CASE Lab(g, d).kind = "join"
          BY <4>1, <3>2, <1>9
        <4>2. CASE Lab(g, d).kind # "join"
          BY <4>2, <3>3 DEF SyncPreds
        <4> QED BY <4>1, <4>2
      <3>5. lab.view = UNION {prefixView(g, c) : c \in P}
        BY <1>11, <2>2 DEF ViewBefore
      <3>6. ViewBefore(h, e) = UNION {prefixView(h, c) : c \in P}
        BY <2>2, <3>4 DEF ViewBefore
      <3> HIDE DEF P
      <3>7. {prefixView(h, c) : c \in P} = {prefixView(g, c) : c \in P}
        BY <3>3
      <3> QED BY <3>5, <3>6, <3>7
    <2> QED BY <2>1, <2>2
  <1>12. Joined(h)
    BY <1>2, <1>7, <1>8 DEF Joined
  <1>13. Exact(h)
    BY <1>2, <1>3, <1>4, <1>10, <1>11 DEF Exact
  <1> QED BY <1>6, <1>12, <1>13 DEF Synced

\* A label that fits keeps the invariant (addLabelToGraph).
LEMMA InsertInv ==
  ASSUME NEW p, isProgram(p), NEW g, GraphInv(p, g), NEW e, NEW lab, LabelFits(p, g, e, lab),
         lab.kind = "block" => lab.view = EmptyView,
         lab.kind # "block" => ViewFits(g, e, lab.view), e[2] = 0 => lab.view = EmptyView,
         lab.kind # "block" => lab.view = ViewBefore(g, e) /\ SyncFit(g, e),
         NEW h, h = InsertLabel(g, e, lab)
  PROVE  GraphInv(p, h)
  <1>g. Shape(p, g) /\ Stamps(g) /\ Kinds(p, g) /\ Coherence(g) /\ ReadsFrom(g) /\ ViewShape(g) /\ ViewPast(g) /\ Blocked(g)
    BY DEF GraphInv
  <1>1. DOMAIN h = {"lab", "co", "ts"} /\ Events(h) = Events(g) \cup {e} /\ h.co = g.co /\ h.ts = g.ts + 1
    BY <1>g, InsertShape
  <1>2. \A q \in Events(g) : Lab(h, q) = Lab(g, q) /\ q # e /\ q \in Events(h)
    BY <1>g, <1>1, InsertShape DEF Lab, LabelFits
  <1>3. DOMAIN Lab(h, e) = LabelFields /\ Lab(h, e).stamp = g.ts
    BY <1>g, InsertShape DEF Lab
  <1>4. /\ Lab(h, e).kind = lab.kind /\ Lab(h, e).pc = lab.pc /\ Lab(h, e).ins = lab.ins /\ Lab(h, e).rf = lab.rf
        /\ Lab(h, e).view = lab.view
    BY <1>g, InsertShape DEF Lab, LabelFields
  <1>5. g.ts \in Nat /\ h.ts = g.ts + 1 /\ \A q \in Events(g) : Lab(g, q).stamp \in Nat /\ Lab(g, q).stamp < g.ts
    BY <1>g, <1>1 DEF Shape, Stamps, Lab
  <1>6. e[2] \in Nat /\ e = <<e[1], e[2]>> /\ e[1] \in DOMAIN p /\ e \in Events(h) /\ e # InitEvent /\ InitEvent \in Events(g)
    BY <1>1, <1>g DEF LabelFits, Shape
  <1>7. \A q \in Events(h) : q \in Events(g) \/ q = e
    BY <1>1
  <1>8. Shape(p, h)
    <2>1. IsFiniteSet(Events(h))
      BY <1>g, <1>1, FS_AddElement DEF Shape
    <2>2. \A q \in Events(h) : q \in (DOMAIN p) \X Nat
      BY <1>g, <1>7 DEF Shape, LabelFits
    <2>3. ASSUME NEW q \in Events(h)
          PROVE  /\ q[2] > 0 => prev(q) \in Events(h)
                 /\ DOMAIN h.lab[q] = LabelFields /\ h.lab[q].pc \in Nat /\ h.lab[q].stamp \in Nat
      <3>1. CASE q = e
        <4>1. q[2] > 0 => prev(q) \in Events(h)
          BY <3>1, <1>1 DEF LabelFits
        <4>2. lab.pc \in Nat
          BY DEF LabelFits
        <4> QED BY <3>1, <4>1, <4>2, <1>3, <1>4, <1>5 DEF Lab
      <3>2. CASE q \in Events(g)
        BY <3>2, <1>g, <1>1, <1>2 DEF Shape, Lab
      <3> QED BY <3>1, <3>2, <1>7
    <2>4. h.ts \in Nat /\ DOMAIN h.co = Locs /\ InitEvent \in Events(h)
      BY <1>g, <1>1, <1>5 DEF Shape
    <2> QED BY <1>1, <2>1, <2>2, <2>3, <2>4 DEF Shape
  <1>9. Stamps(h)
    <2> SUFFICES ASSUME NEW q \in Events(h)
                 PROVE  /\ Lab(h, q).stamp < h.ts
                        /\ \A r \in Events(h) : r # q => Lab(h, r).stamp # Lab(h, q).stamp
                        /\ q[2] > 0 => Lab(h, prev(q)).stamp < Lab(h, q).stamp
      BY Zenon DEF Stamps
    <2>1. Lab(h, q).stamp < h.ts
      BY <1>2, <1>3, <1>5, <1>7
    <2>2. ASSUME NEW r \in Events(h), r # q PROVE Lab(h, r).stamp # Lab(h, q).stamp
      <3>1. CASE q = e \/ r = e
        BY <3>1, <2>2, <1>2, <1>3, <1>5, <1>7
      <3>2. CASE q # e /\ r # e
        BY <3>2, <2>2, <1>2, <1>7, <1>g DEF Stamps
      <3> QED BY <3>1, <3>2
    <2>3. ASSUME q[2] > 0 PROVE Lab(h, prev(q)).stamp < Lab(h, q).stamp
      <3>1. CASE q = e
        <4>1. prev(e) \in Events(g)
          BY <2>3, <3>1 DEF LabelFits
        <4> QED BY <3>1, <4>1, <1>2, <1>3, <1>5
      <3>2. CASE q \in Events(g)
        <4>1. prev(q) \in Events(g) /\ Lab(g, prev(q)).stamp < Lab(g, q).stamp
          BY <3>2, <2>3, <1>g DEF Stamps, Shape
        <4> QED BY <3>2, <4>1, <1>2
      <3> QED BY <3>1, <3>2, <1>7
    <2> QED BY <2>1, <2>2, <2>3
  <1>n. \A q \in Events(g) : next(q) = e => e[2] > 0 /\ q = prev(e)
    <2> TAKE q \in Events(g)
    <2>1. q[2] \in Nat /\ q = <<q[1], q[2]>>
      BY <1>g, EventFacts
    <2> QED BY <2>1 DEF next, prev
  <1>10. Kinds(p, h)
    <2> SUFFICES ASSUME NEW q \in Events(h)
                 PROVE  LET l == h.lab[q]
                        IN  /\ q[2] = 0 <=> l.kind \in {"init", "start"}
                            /\ q = InitEvent => l.kind = "init"
                            /\ l.kind = "block" => next(q) \notin Events(h)
                            /\ l.kind \in {"R", "W"} =>
                                 /\ l.pc \in DOMAIN p[q[1]] /\ l.ins = p[q[1]][l.pc] /\ l.ins.op \in AccessOps
                            /\ l.kind = "R" => l.ins.op # "store"
      BY Zenon DEF Kinds
    <2>1. CASE q = e
      <3>1. next(e) \notin Events(h)
        <4>1. next(e) # e
          BY <1>6 DEF next
        <4> QED BY <4>1, <1>7 DEF LabelFits
      <3>2. e[2] = 0 <=> lab.kind \in {"init", "start"}
        BY DEF LabelFits
      <3>3. lab.kind \in {"R", "W"} =>
              lab.pc \in DOMAIN p[e[1]] /\ lab.ins = p[e[1]][lab.pc] /\ lab.ins.op \in AccessOps
        BY DEF LabelFits
      <3>4. lab.kind = "R" => lab.ins.op # "store"
        BY DEF LabelFits
      <3> QED BY <2>1, <3>1, <3>2, <3>3, <3>4, <1>4, <1>6 DEF Lab
    <2>2. CASE q \in Events(g)
      <3>1. h.lab[q] = g.lab[q]
        BY <2>2, <1>2 DEF Lab
      <3>2. g.lab[q].kind = "block" => next(q) \notin Events(h)
        <4> SUFFICES ASSUME g.lab[q].kind = "block" PROVE next(q) \notin Events(h)
          OBVIOUS
        <4>1. next(q) \notin Events(g)
          BY <2>2, <1>g DEF Kinds
        <4>2. next(q) # e
          BY <2>2, <1>n DEF LabelFits, Lab
        <4> QED BY <4>1, <4>2, <1>7
      <3> QED BY <2>2, <3>1, <3>2, <1>g DEF Kinds
    <2> QED BY <2>1, <2>2, <1>7
  <1>11. Coherence(h)
    <2> SUFFICES ASSUME NEW x \in Locs
                 PROVE  /\ h.co[x] \in Seq(Events(h))
                        /\ \A k \in 1 .. Len(h.co[x]) : Lab(h, h.co[x][k]).kind = "W" /\ Addr(h, h.co[x][k]) = x
                        /\ Injective(h.co[x])
      BY Zenon DEF Coherence
    <2>1. g.co[x] \in Seq(Events(g)) /\ Injective(g.co[x]) /\ h.co[x] = g.co[x]
      BY <1>1, <1>g DEF Coherence
    <2>2. \A k \in 1 .. Len(g.co[x]) : g.co[x][k] \in Events(g)
      BY <2>1
    <2>3. \A k \in 1 .. Len(g.co[x]) : Lab(g, g.co[x][k]).kind = "W" /\ Addr(g, g.co[x][k]) = x
      BY <1>g DEF Coherence
    <2>4. g.co[x] \in Seq(Events(h))
      BY <2>1, <2>2, <1>1
    <2> QED BY <2>1, <2>2, <2>3, <2>4, <1>2 DEF Addr
  <1>s. \A x : StoresTo(h, x) = StoresTo(g, x)
    BY <1>1 DEF StoresTo
  <1>12. ReadsFrom(h)
    <2> SUFFICES ASSUME NEW r \in Events(h), isRead(h, r)
                 PROVE  \/ Dangles(h, r) /\ next(r) \notin Events(h)
                        \/ Lab(h, r).rf \in StoresTo(h, Addr(h, r))
      BY Zenon DEF ReadsFrom
    <2>1. CASE r = e
      <3>1. next(e) # e /\ lab.rf = Bottom /\ next(e) \notin Events(g)
        BY <2>1, <1>4, <1>6 DEF next, LabelFits, isRead
      <3> QED BY <2>1, <3>1, <1>4, <1>7 DEF Dangles
    <2>2. CASE r \in Events(g)
      <3>1. Lab(h, r) = Lab(g, r) /\ isRead(g, r) /\ Addr(h, r) = Addr(g, r)
        BY <2>2, <1>2 DEF isRead, Addr
      <3>2. CASE Lab(g, r).rf \in StoresTo(g, Addr(g, r))
        BY <3>1, <3>2, <1>s
      <3>3. CASE Dangles(g, r) /\ next(r) \notin Events(g)
        <4>1. next(r) # e
          BY <2>2, <3>1, <3>3, <1>n DEF LabelFits
        <4> QED BY <3>1, <3>3, <4>1, <1>7 DEF Dangles
      <3> QED BY <2>2, <3>1, <3>2, <3>3, <1>g DEF ReadsFrom
    <2> QED BY <2>1, <2>2, <1>7
  <1>v. \A q \in EmptyView : q[2] = 0
    BY DEF EmptyView
  <1>13. ViewShape(h)
    <2> SUFFICES ASSUME NEW q \in Events(h)
                 PROVE  /\ EmptyView \subseteq Lab(h, q).view /\ Lab(h, q).view \subseteq Events(h) \cup EmptyView
                        /\ \A r \in Lab(h, q).view : r[2] > 0 => prev(r) \in Lab(h, q).view
                        /\ q[2] = 0 \/ Lab(h, q).kind = "block" => Lab(h, q).view = EmptyView
                        /\ q[2] > 0 /\ Lab(h, q).kind # "block" => prev(q) \in Lab(h, q).view
      BY Zenon DEF ViewShape
    <2>1. CASE q = e
      <3>1. CASE lab.kind = "block"
        BY <2>1, <3>1, <1>4, <1>v
      <3>2. CASE lab.kind # "block"
        BY <2>1, <3>2, <1>1, <1>4 DEF ViewFits
      <3> QED BY <3>1, <3>2
    <2>2. CASE q \in Events(g)
      <3>1. /\ EmptyView \subseteq Lab(g, q).view /\ Lab(g, q).view \subseteq Events(g) \cup EmptyView
            /\ \A r \in Lab(g, q).view : r[2] > 0 => prev(r) \in Lab(g, q).view
            /\ q[2] = 0 \/ Lab(g, q).kind = "block" => Lab(g, q).view = EmptyView
            /\ q[2] > 0 /\ Lab(g, q).kind # "block" => prev(q) \in Lab(g, q).view
        BY <2>2, <1>g, Zenon DEF ViewShape
      <3> QED BY <2>2, <3>1, <1>1, <1>2
    <2> QED BY <2>1, <2>2, <1>7
  <1>14. ViewPast(h)
    <2> SUFFICES ASSUME NEW d \in Events(h), NEW q \in Lab(h, d).view, q[2] > 0
                 PROVE  /\ Lab(h, q).kind # "block" /\ Lab(h, q).stamp < Lab(h, d).stamp
                        /\ Lab(h, q).view \subseteq Lab(h, d).view
                        /\ isRead(h, q) => /\ Lab(h, q).rf \in Lab(h, d).view
                                           /\ q[1] # d[1] => next(q) \in Lab(h, d).view
      BY Zenon DEF ViewPast
    <2>1. CASE d = e
      <3>1. lab.kind # "block" /\ q \in lab.view
        BY <2>1, <1>4, <1>v
      <3>2. /\ q \in Events(g) \cup EmptyView
            /\ Lab(g, q).kind # "block" /\ Lab(g, q).view \subseteq lab.view
            /\ isRead(g, q) => Lab(g, q).rf \in lab.view /\ (q[1] # e[1] => next(q) \in lab.view)
        BY <3>1 DEF ViewFits
      <3>3. q \in Events(g)
        BY <3>2, <1>v
      <3>4. Lab(h, q) = Lab(g, q) /\ (isRead(h, q) => isRead(g, q)) /\ Lab(g, q).stamp < g.ts
        BY <3>3, <1>2, <1>5 DEF isRead
      <3> QED BY <2>1, <3>2, <3>4, <1>3, <1>4
    <2>2. CASE d \in Events(g)
      <3>1. Lab(h, d) = Lab(g, d)
        BY <2>2, <1>2
      <3>2. q \in Events(g)
        BY <2>2, <3>1, <1>g, <1>v DEF ViewShape
      <3>3. Lab(h, q) = Lab(g, q) /\ (isRead(h, q) => isRead(g, q))
        BY <3>2, <1>2 DEF isRead
      <3>4. /\ Lab(g, q).kind # "block" /\ Lab(g, q).stamp < Lab(g, d).stamp
            /\ Lab(g, q).view \subseteq Lab(g, d).view
            /\ isRead(g, q) => /\ Lab(g, q).rf \in Lab(g, d).view
                               /\ q[1] # d[1] => next(q) \in Lab(g, d).view
        BY <2>2, <3>1, <1>g, Zenon DEF ViewPast
      <3> QED BY <3>1, <3>3, <3>4
    <2> QED BY <2>1, <2>2, <1>7
  <1>15. Blocked(h)
    <2> SUFFICES ASSUME NEW r \in Events(h), isRead(h, r), next(r) \in Events(h)
                 PROVE  IF Lab(h, next(r)).kind = "block"
                        THEN Lab(h, Lab(h, r).rf).stamp < Lab(h, next(r)).stamp
                        ELSE isAnnotated(Lab(h, r).ins) /\ Lab(h, r).ins.op = "load" => getReadValue(h, r) = Lab(h, r).ins.ann
      BY Zenon DEF Blocked
    <2>1. r # e
      <3>1. next(e) # e /\ next(e) \notin Events(g)
        BY <1>6 DEF next, LabelFits
      <3> QED BY <3>1, <1>7
    <2>2. r \in Events(g) /\ Lab(h, r) = Lab(g, r) /\ isRead(g, r)
      BY <2>1, <1>2, <1>7 DEF isRead
    <2>3. ~ Dangles(g, r)
      <3>1. CASE next(r) = e
        BY <2>2, <3>1, <1>n DEF LabelFits
      <3>2. CASE next(r) \in Events(g)
        <4>1. CASE Lab(g, r).rf \in StoresTo(g, Addr(g, r))
          <5>1. Addr(g, r) \in Locs
            BY <2>2, <1>g, AccessLoc DEF isRead
          <5>2. Lab(g, r).rf \in Events(g)
            BY <4>1, <5>1, <1>g, <1>6, StoresFacts
          <5>3. Lab(g, r).rf[2] \in Nat
            BY <5>2, <1>g, EventFacts
          <5> QED BY <5>3 DEF Dangles, Bottom
        <4> QED BY <2>2, <3>2, <4>1, <1>g DEF ReadsFrom
      <3> QED BY <3>1, <3>2, <1>7
    <2>4. Lab(g, r).rf \in Events(g)
      <3>1. Addr(g, r) \in Locs
        BY <2>2, <1>g, AccessLoc DEF isRead
      <3>2. Lab(g, r).rf \in StoresTo(g, Addr(g, r))
        BY <2>2, <2>3, <1>g DEF ReadsFrom
      <3> QED BY <3>1, <3>2, <1>g, <1>6, StoresFacts
    <2>5. getReadValue(h, r) = getReadValue(g, r) /\ Lab(h, Lab(g, r).rf) = Lab(g, Lab(g, r).rf)
      BY <2>2, <2>4, <1>2 DEF getReadValue, getWriteValue
    <2>6. CASE next(r) = e
      <3>1. r = prev(e) /\ e[2] > 0
        BY <2>2, <2>6, <1>n
      <3>2. lab.kind # "block" /\ isAnnotated(Lab(g, r).ins) /\ Lab(g, r).ins.op = "load" =>
              getReadValue(g, r) = Lab(g, r).ins.ann
        BY <2>2, <3>1 DEF LabelFits
      <3>3. Lab(g, Lab(g, r).rf).stamp < g.ts
        BY <2>4, <1>5
      <3> QED BY <2>2, <2>5, <2>6, <3>2, <3>3, <1>3, <1>4
    <2>7. CASE next(r) \in Events(g)
      <3>1. Lab(h, next(r)) = Lab(g, next(r))
        BY <2>7, <1>2
      <3>2. IF Lab(g, next(r)).kind = "block"
            THEN Lab(g, Lab(g, r).rf).stamp < Lab(g, next(r)).stamp
            ELSE isAnnotated(Lab(g, r).ins) /\ Lab(g, r).ins.op = "load" => getReadValue(g, r) = Lab(g, r).ins.ann
        BY <2>2, <2>7, <1>g, Zenon DEF Blocked
      <3> QED BY <2>2, <2>5, <3>1, <3>2
    <2> QED BY <2>6, <2>7, <1>7
  <1>16. Synced(h)
    BY <1>8, InsertSynced
  <1> QED BY <1>8, <1>9, <1>10, <1>11, <1>12, <1>13, <1>14, <1>15, <1>16 DEF GraphInv

\* The view calculated for a new label fits it (updateMMViews).
LEMMA ViewBeforeFits ==
  ASSUME NEW p, isProgram(p), NEW g, GraphInv(p, g), NEW e, e[2] \in Nat, SyncFit(g, e)
  PROVE  ViewFits(g, e, ViewBefore(g, e)) /\ (e[2] = 0 => ViewBefore(g, e) = EmptyView)
  <1>v. \A q \in EmptyView : q[2] = 0
    BY DEF EmptyView
  <1>1. CASE e[2] = 0
    <2>1. ViewBefore(g, e) = EmptyView
      BY <1>1 DEF ViewBefore
    <2> QED BY <2>1, <1>1, <1>v DEF ViewFits
  <1>2. CASE e[2] # 0
    <2> DEFINE P == {prev(e)} \cup SyncPreds(g, prev(e))
               V == ViewBefore(g, e)
    <2>0. e[2] > 0
      BY <1>2
    <2>1. \A q \in P : q \in Events(g) /\ Lab(g, q).kind # "block" /\ (isRead(g, q) => q = prev(e))
      BY <2>0, SyncPredsFit
    <2>2. V = UNION {prefixView(g, q) : q \in P}
      BY <1>2 DEF ViewBefore
    <2>3. \A q \in P : prefixView(g, q) = Lab(g, q).view \cup {q}
      BY <2>1, PrefixIs DEF GraphInv
    <2>4. \A c : c \in V <=> \E q \in P : c \in Lab(g, q).view \/ c = q
      BY <2>2, <2>3
    <2>5. prev(e) \in P /\ Lab(g, prev(e)).kind # "block" /\ prev(e) \in Events(g)
      BY <2>1
    <2>p. isRead(g, prev(e)) => Lab(g, prev(e)).rf \in P
      BY <2>0 DEF SyncFit, SyncPreds, isRead, Dangles
    <2> HIDE DEF P, V
    <2>s. \A q \in Events(g) :
            /\ EmptyView \subseteq Lab(g, q).view /\ Lab(g, q).view \subseteq Events(g) \cup EmptyView
            /\ \A c \in Lab(g, q).view : c[2] > 0 => prev(c) \in Lab(g, q).view
            /\ q[2] > 0 /\ Lab(g, q).kind # "block" => prev(q) \in Lab(g, q).view
      BY Zenon DEF GraphInv, ViewShape
    <2>6. EmptyView \subseteq V
      BY <2>4, <2>5, <2>s
    <2>7. V \subseteq Events(g) \cup EmptyView
      BY <2>1, <2>4, <2>s
    <2>8. ASSUME NEW c \in V, c[2] > 0
          PROVE  /\ prev(c) \in V /\ Lab(g, c).kind # "block" /\ Lab(g, c).view \subseteq V
                 /\ isRead(g, c) => Lab(g, c).rf \in V /\ (c[1] # e[1] => next(c) \in V)
      <3>1. PICK q \in P : c \in Lab(g, q).view \/ c = q
        BY <2>4
      <3>2. CASE c = q
        <4>1. prev(c) \in Lab(g, q).view /\ Lab(g, c).kind # "block"
          BY <2>1, <2>8, <2>s, <3>2
        <4>2. isRead(g, c) => c = prev(e) /\ c[1] = e[1]
          BY <2>1, <3>2 DEF prev
        <4>3. Lab(g, c).view \subseteq V /\ prev(c) \in V
          BY <2>4, <3>1, <3>2, <4>1
        <4>4. isRead(g, c) => Lab(g, c).rf \in V
          BY <2>4, <2>p, <4>2
        <4> QED BY <4>1, <4>2, <4>3, <4>4
      <3>3. CASE c \in Lab(g, q).view
        <4>0. q \in Events(g) /\ Lab(g, q).kind # "block" /\ c \in Events(g)
          BY <2>1, <2>8, <2>s, <3>1, <3>3, <1>v
        <4>1. /\ Lab(g, c).kind # "block" /\ Lab(g, c).stamp < Lab(g, q).stamp
              /\ Lab(g, c).view \subseteq Lab(g, q).view
              /\ isRead(g, c) => /\ Lab(g, c).rf \in Lab(g, q).view
                                 /\ c[1] # q[1] => next(c) \in Lab(g, q).view
          BY <2>8, <3>3, <4>0, Zenon DEF GraphInv, ViewPast
        <4>2. Lab(g, q).view \subseteq V /\ q \in V
          BY <2>4, <3>1
        <4>3. prev(c) \in V
          BY <2>8, <2>s, <3>3, <4>0, <4>2
        <4>4. ASSUME c[1] = q[1] PROVE next(c) \in V
          <5>1. c[2] \in Nat /\ c = <<c[1], c[2]>> /\ q[2] \in Nat /\ q = <<q[1], q[2]>>
            BY <4>0, EventFacts DEF GraphInv
          <5>2. Lab(g, c).stamp \in Nat /\ Lab(g, q).stamp \in Nat
            BY <4>0 DEF GraphInv, Shape, Lab
          <5>3. c # q
            BY <4>1, <5>2
          <5>4. ~ q[2] < c[2]
            <6>1. SUFFICES ASSUME q[2] < c[2] PROVE FALSE
              OBVIOUS
            <6>2. Lab(g, q).stamp < Lab(g, c).stamp
              BY <4>0, <4>4, <6>1, StampsGrow DEF GraphInv
            <6> QED BY <4>1, <5>2, <6>2
          <5>5. c[2] # q[2]
            BY <4>4, <5>1, <5>3
          <5>6. CASE c[2] + 1 = q[2]
            BY <4>2, <4>4, <5>1, <5>6 DEF next
          <5>7. CASE c[2] + 1 # q[2]
            <6> DEFINE i == c[2] + 1
            <6>1. i \in Nat /\ i < q[2] /\ next(c) = <<q[1], i>>
              BY <4>4, <5>1, <5>4, <5>5, <5>7 DEF next
            <6> HIDE DEF i
            <6>2. <<q[1], i>> \in Lab(g, q).view
              BY <4>0, <6>1, OwnPast DEF GraphInv
            <6> QED BY <4>2, <6>1, <6>2
          <5> QED BY <5>6, <5>7
        <4> QED BY <4>1, <4>2, <4>3, <4>4
      <3> QED BY <3>1, <3>2, <3>3
    <2>9. prev(e) \in V
      BY <2>4, <2>5
    <2> QED BY <1>2, <2>6, <2>7, <2>8, <2>9 DEF ViewFits, V
  <1> QED BY <1>1, <1>2

-----------------------------------------------------------------------------
\* What is left alone by the steps of a run.

KeptUpTo(g, h, st) ==
  /\ \A e \in Events(g) : Lab(g, e).kind \in {"R", "W"} /\ Lab(g, e).stamp <= st =>
       e \in Events(h) /\ SameLabel(Lab(g, e), Lab(h, e)) /\ Lab(h, e).stamp = Lab(g, e).stamp
  /\ \A x \in Locs : \A w \in StoresTo(g, x) : w = InitEvent \/ Lab(g, w).stamp <= st => w \in StoresTo(h, x)

Keeps(g, h) == \A st \in Nat : KeptUpTo(g, h, st)

\* A graph keeps itself.
LEMMA KeepsSelf ==
  ASSUME NEW g
  PROVE  Keeps(g, g)
  BY Zenon DEF Keeps, KeptUpTo, SameLabel

\* Two steps that keep the labels up to a stamp keep them together.
LEMMA KeptTrans ==
  ASSUME NEW p, NEW g, NEW h, NEW k, GraphInv(p, g), NEW st, KeptUpTo(g, h, st), KeptUpTo(h, k, st)
  PROVE  KeptUpTo(g, k, st)
  <1>2. ASSUME NEW e \in Events(g), Lab(g, e).kind \in {"R", "W"}, Lab(g, e).stamp <= st
        PROVE  e \in Events(k) /\ SameLabel(Lab(g, e), Lab(k, e)) /\ Lab(k, e).stamp = Lab(g, e).stamp
    <2>1. e \in Events(h) /\ SameLabel(Lab(g, e), Lab(h, e)) /\ Lab(h, e).stamp = Lab(g, e).stamp
      BY <1>2 DEF KeptUpTo
    <2>2. e \in Events(k) /\ SameLabel(Lab(h, e), Lab(k, e)) /\ Lab(k, e).stamp = Lab(h, e).stamp
      BY <1>2, <2>1 DEF KeptUpTo, SameLabel
    <2> QED BY <2>1, <2>2 DEF SameLabel
  <1>3. ASSUME NEW x \in Locs, NEW w \in StoresTo(g, x), w = InitEvent \/ Lab(g, w).stamp <= st
        PROVE  w \in StoresTo(k, x)
    <2>1. w \in StoresTo(h, x)
      BY <1>3 DEF KeptUpTo
    <2>2. w # InitEvent => w \in Events(g) /\ Lab(g, w).kind = "W"
      BY <1>3, StoresFacts DEF GraphInv
    <2>3. w # InitEvent => Lab(h, w).stamp = Lab(g, w).stamp
      BY <1>3, <2>2 DEF KeptUpTo
    <2> QED BY <1>3, <2>1, <2>3 DEF KeptUpTo
  <1> QED BY <1>2, <1>3, Zenon DEF KeptUpTo

\* Two steps that keep all loads and stores keep them together.
LEMMA KeepsTrans ==
  ASSUME NEW p, NEW g, NEW h, NEW k, GraphInv(p, g), Keeps(g, h), Keeps(h, k)
  PROVE  Keeps(g, k)
  <1> SUFFICES ASSUME NEW st \in Nat PROVE KeptUpTo(g, k, st)
    BY Zenon DEF Keeps
  <1>1. KeptUpTo(g, h, st) /\ KeptUpTo(h, k, st)
    BY DEF Keeps
  <1> QED BY <1>1, KeptTrans

\* An item of a worklist stays good when the labels up to its stamp are kept.
LEMMA ItemKept ==
  ASSUME NEW p, isProgram(p), NEW g, GraphInv(p, g), NEW h, NEW item, NEW b, ItemOK(g, item, b),
         NEW st \in Nat, item.stamp <= st, KeptUpTo(g, h, st)
  PROVE  ItemOK(h, item, b)
  <1> DEFINE r == item.pos
             w == item.rev
             x == Addr(g, r)
  <1>1. r \in Events(g) /\ w \in StoresTo(g, x)
    BY DEF ItemOK
  <1>2. Lab(g, r).kind \in {"R", "W"}
    BY DEF ItemOK
  <1>3. x \in Locs
    BY <1>1, <1>2, AccessLoc DEF GraphInv
  <1>4. w # InitEvent => w \in Events(g) /\ Lab(g, w).kind = "W"
    BY <1>1, <1>3, StoresFacts DEF GraphInv
  <1>5. Lab(g, r).stamp \in Nat /\ (w # InitEvent => Lab(g, w).stamp \in Nat)
    BY <1>1, <1>4 DEF GraphInv, Shape, Lab
  <1>6. Lab(g, r).stamp <= st /\ (w # InitEvent => Lab(g, w).stamp <= st)
    <2>1. CASE item.kind = "back"
      <3>1. w # InitEvent /\ Lab(g, w).stamp = item.stamp /\ Lab(g, r).stamp < item.stamp
        BY <2>1 DEF ItemOK
      <3> QED BY <3>1, <1>5
    <2>2. CASE item.kind # "back"
      <3>1. Lab(g, r).stamp = item.stamp /\ (w # InitEvent => Lab(g, w).stamp < item.stamp)
        BY <2>2 DEF ItemOK
      <3> QED BY <3>1, <1>5
    <2> QED BY <2>1, <2>2
  <1>7. r \in Events(h) /\ SameLabel(Lab(g, r), Lab(h, r)) /\ Lab(h, r).stamp = Lab(g, r).stamp
    BY <1>1, <1>2, <1>6 DEF KeptUpTo
  <1>8. w # InitEvent => w \in Events(h) /\ SameLabel(Lab(g, w), Lab(h, w)) /\ Lab(h, w).stamp = Lab(g, w).stamp
    BY <1>4, <1>6 DEF KeptUpTo
  <1>9. Lab(h, r).kind = Lab(g, r).kind /\ Lab(h, r).ins = Lab(g, r).ins /\ Addr(h, r) = x
    BY <1>7 DEF SameLabel, Addr
  <1>10. w \in StoresTo(h, x)
    BY <1>1, <1>3, <1>6 DEF KeptUpTo
  <1>11. getWriteValue(h, w) = getWriteValue(g, w)
    BY <1>8 DEF getWriteValue, SameLabel
  <1>12. w # InitEvent => prefixView(h, w) = prefixView(g, w)
    BY <1>8 DEF prefixView, SameLabel
  <1>13. item.kind = "write" => r \in StoresTo(h, x)
    BY <1>3, <1>6 DEF ItemOK, KeptUpTo
  <1> HIDE DEF r, w, x
  <1> QED BY <1>7, <1>8, <1>9, <1>10, <1>11, <1>12, <1>13 DEF ItemOK, r, w

\* No label of a run has a stamp that later items do not have.
LEMMA ItemStays ==
  ASSUME NEW p, isProgram(p), NEW g, GraphInv(p, g), NEW h, NEW item, NEW b, ItemOK(g, item, b), Keeps(g, h)
  PROVE  ItemOK(h, item, b)
  <1>1. item.pos \in Events(g) /\ Lab(g, item.pos).kind \in {"R", "W"}
    BY DEF ItemOK
  <1>2. Addr(g, item.pos) \in Locs
    BY <1>1, AccessLoc DEF GraphInv
  <1>3. item.rev \in StoresTo(g, Addr(g, item.pos))
    BY DEF ItemOK
  <1>4. item.rev # InitEvent => item.rev \in Events(g)
    BY <1>2, <1>3, StoresFacts DEF GraphInv
  <1>5. item.stamp \in Nat
    BY <1>1, <1>4 DEF ItemOK, GraphInv, Shape, Lab
  <1>6. KeptUpTo(g, h, item.stamp) /\ item.stamp <= item.stamp
    BY <1>5 DEF Keeps
  <1> QED BY <1>5, <1>6, ItemKept

-----------------------------------------------------------------------------
\* Steps that add no label: blocked and begin labels go away.

\* A graph from which labels were removed.
LEMMA RemoveFacts ==
  ASSUME NEW p, NEW g, Shape(p, g), NEW S, NEW h, h = RemoveLabels(g, S)
  PROVE  /\ DOMAIN h = {"lab", "co", "ts"} /\ Events(h) = Events(g) \ S /\ h.co = g.co /\ h.ts = g.ts
         /\ \A e \in Events(h) : Lab(h, e) = Lab(g, e)
         /\ \A x : StoresTo(h, x) = StoresTo(g, x)
  <1> DEFINE L == [e \in Events(g) \ S |-> g.lab[e]]
  <1>1. DOMAIN g = {"lab", "co", "ts"} /\ h = [g EXCEPT !.lab = L]
    BY DEF Shape, RemoveLabels
  <1>2. DOMAIN L = Events(g) \ S /\ \A e \in Events(g) \ S : L[e] = g.lab[e]
    OBVIOUS
  <1> HIDE DEF L
  <1>3. DOMAIN h = {"lab", "co", "ts"} /\ h.lab = L /\ h.co = g.co /\ h.ts = g.ts
    BY <1>1
  <1>4. \A x : StoresTo(h, x) = StoresTo(g, x)
    BY <1>3 DEF StoresTo
  <1> QED BY <1>2, <1>3, <1>4 DEF Events, Lab

Removable(g, S) ==
  \A e \in S \cap Events(g) : /\ e # InitEvent /\ next(e) \notin Events(g)
                              /\ e[2] = 0 \/ Lab(g, e).kind \in {"block", "R"}

\* No label has the load at the end of a thread in its view.
LEMMA LastReadUnseen ==
  ASSUME NEW p, NEW g, GraphInv(p, g), NEW q \in Events(g), q[2] > 0, isRead(g, q), next(q) \notin Events(g),
         NEW e \in Events(g), q \in Lab(g, e).view
  PROVE  FALSE
  <1>g. Shape(p, g) /\ Stamps(g) /\ ViewShape(g) /\ ViewPast(g)
    BY DEF GraphInv
  <1>1. e[2] \in Nat /\ q[2] \in Nat /\ e = <<e[1], e[2]>> /\ q = <<q[1], q[2]>>
    BY <1>g, EventFacts
  <1>2. Lab(g, q).stamp \in Nat /\ Lab(g, e).stamp \in Nat /\ Lab(g, q).stamp < Lab(g, e).stamp
    BY <1>g DEF Shape, ViewPast, Lab
  <1>3. CASE q[1] # e[1]
    <2>1. next(q) \in Events(g) \cup EmptyView
      BY <1>3, <1>g DEF ViewPast, ViewShape
    <2>2. next(q)[2] > 0
      BY <1>g, NextPrev
    <2> QED BY <2>1, <2>2 DEF EmptyView
  <1>4. CASE q[1] = e[1]
    <2>1. CASE e[2] < q[2]
      <3>1. Lab(g, e).stamp < Lab(g, q).stamp
        BY <1>4, <2>1, <1>g, StampsGrow
      <3> QED BY <3>1, <1>2
    <2>2. CASE e[2] = q[2]
      BY <1>1, <1>2, <1>4, <2>2
    <2>3. CASE q[2] < e[2]
      <3>1. q[2] + 1 \in Nat /\ q[2] + 1 <= e[2]
        BY <1>1, <2>3
      <3>2. <<e[1], q[2] + 1>> \in Events(g)
        BY <3>1, <1>g, Below
      <3>3. next(q) = <<q[1], q[2] + 1>>
        BY DEF next
      <3> QED BY <3>2, <3>3, <1>4
    <2> QED BY <1>1, <2>1, <2>2, <2>3
  <1> QED BY <1>3, <1>4

\* Removing labels that end their thread reworks the graph; loads and stores stay
\* when only blocked and begin labels go.
LEMMA RemoveReworked ==
  ASSUME NEW p, isProgram(p), NEW g, GraphInv(p, g), NEW S, Removable(g, S), NEW h, h = RemoveLabels(g, S)
  PROVE  /\ Reworked(g, h) /\ Events(h) = Events(g) \ S
         /\ (\A e \in S \cap Events(g) : ~ isRead(g, e)) => Keeps(g, h)
         /\ (\A r \in Events(g) \ S : isRead(g, r) => ~ Dangles(g, r)) => NoneDangles(h)
  <1>g. Shape(p, g) /\ Stamps(g) /\ Kinds(p, g) /\ Coherence(g) /\ ReadsFrom(g) /\ ViewShape(g) /\ ViewPast(g)
    BY DEF GraphInv
  <1>1. DOMAIN h = {"lab", "co", "ts"} /\ Events(h) = Events(g) \ S /\ h.co = g.co /\ h.ts = g.ts
    BY <1>g, RemoveFacts
  <1>2. \A e \in Events(h) : Lab(h, e) = Lab(g, e)
    BY <1>g, RemoveFacts
  <1>3. \A x : StoresTo(h, x) = StoresTo(g, x)
    BY <1>g, RemoveFacts
  <1>v. \A q \in EmptyView : q[2] = 0
    BY DEF EmptyView
  <1>a. ASSUME NEW e \in Events(g), Lab(g, e).kind = "W" PROVE e \in Events(h)
    BY <1>1, <1>a, <1>g DEF Removable, Kinds, Lab
  <1>4. ASSUME NEW e \in Events(h) PROVE LabelKept(g, h, e)
    <2>0. e \in Events(g) /\ Lab(h, e) = Lab(g, e) /\ h.lab[e] = g.lab[e]
      BY <1>1, <1>2 DEF Lab
    <2>1. ASSUME e[2] > 0 PROVE prev(e) \in Events(h)
      <3>1. prev(e) \in Events(g)
        BY <2>0, <2>1, <1>g DEF Shape
      <3>2. next(prev(e)) = e
        BY <2>0, <1>g, NextPrev
      <3> QED BY <3>1, <3>2, <2>0, <1>1 DEF Removable
    <2>2. DOMAIN h.lab[e] = LabelFields /\ SameLabel(g.lab[e], h.lab[e])
      BY <2>0, <1>g DEF Shape, SameLabel
    <2>3. h.lab[e].stamp \in Nat /\ h.lab[e].stamp < h.ts
      BY <2>0, <1>1, <1>g DEF Shape, Stamps, Lab
    <2>4. ASSUME NEW q \in Lab(g, e).view PROVE q \in Events(h) \cup EmptyView
      <3>1. q \in Events(g) \cup EmptyView
        BY <2>0, <2>4, <1>g DEF ViewShape
      <3>2. CASE q \in EmptyView
        BY <3>2
      <3>3. CASE q \in Events(g) /\ q[2] = 0
        <4>1. q = <<q[1], 0>> /\ q[1] \in Threads
          BY <3>3, <1>g, EventFacts DEF isProgram
        <4> QED BY <4>1 DEF EmptyView
      <3>4. CASE q \in Events(g) /\ q[2] # 0
        <4>1. q[2] > 0 /\ q[2] # 0
          BY <3>4, <1>g, EventFacts
        <4>2. Lab(g, q).kind # "block"
          BY <2>0, <2>4, <4>1, <1>g DEF ViewPast
        <4>3. q \in S => Lab(g, q).kind # "R"
          BY <2>0, <2>4, <3>4, <4>1, LastReadUnseen DEF Removable, isRead
        <4> QED BY <3>4, <4>2, <4>3, <1>1 DEF Removable
      <3> QED BY <3>1, <3>2, <3>3, <3>4
    <2>5. g.lab[e].kind = "R" => RfKept(g, h, e)
      <3> SUFFICES ASSUME g.lab[e].kind = "R" PROVE RfKept(g, h, e)
        OBVIOUS
      <3>1. \/ Dangles(g, e) /\ next(e) \notin Events(g)
            \/ Lab(g, e).rf \in StoresTo(g, Addr(g, e))
        BY <2>0, <1>g DEF ReadsFrom, isRead, Lab
      <3> QED BY <3>1, <2>0, <1>1, <1>3 DEF RfKept, Dangles, Lab, Addr
    <2>6. ASSUME g.lab[e].kind = "join" PROVE \E f \in Events(h) : EndOf(g, e, f)
      <3>1. PICK f \in Events(g) : EndOf(g, e, f)
        BY <2>0, <2>6 DEF GraphInv, Synced, Joined, Lab
      <3>2. f[2] # 0 /\ Lab(g, f).kind = "finish"
        BY <3>1, <1>g DEF EndOf, Kinds, Lab
      <3> QED BY <3>1, <3>2, <1>1 DEF Removable
    <2> QED BY <2>1, <2>2, <2>3, <2>4, <2>5, <2>6 DEF LabelKept, Lab
  <1>5. ASSUME NEW e \in Events(h), NEW q \in Events(h), g.lab[e].stamp < g.lab[q].stamp
        PROVE  h.lab[e].stamp < h.lab[q].stamp
    BY <1>2, <1>5 DEF Lab
  <1>6. ASSUME NEW x \in Locs
        PROVE  /\ h.co[x] \in Seq(Events(h)) /\ Injective(h.co[x])
               /\ \A k \in 1 .. Len(h.co[x]) : g.lab[h.co[x][k]].kind = "W" /\ g.lab[h.co[x][k]].ins.loc = x
    <2>1. /\ h.co[x] = g.co[x] /\ g.co[x] \in Seq(Events(g)) /\ Injective(g.co[x])
          /\ \A k \in 1 .. Len(g.co[x]) : Lab(g, g.co[x][k]).kind = "W" /\ Addr(g, g.co[x][k]) = x
      BY <1>1, <1>g DEF Coherence
    <2>2. \A k \in 1 .. Len(g.co[x]) : g.co[x][k] \in Events(h)
      BY <2>1, <1>a
    <2> QED BY <2>1, <2>2 DEF Lab, Addr
  <1>7. InitEvent \in Events(h) /\ h.ts \in Nat /\ DOMAIN h.co = Locs
    BY <1>1, <1>g DEF Shape, Removable
  <1>8. Reworked(g, h)
    BY <1>1, <1>4, <1>5, <1>6, <1>7 DEF Reworked
  <1>9. ASSUME \A e \in S \cap Events(g) : ~ isRead(g, e)
        PROVE  Keeps(g, h)
    <2>1. \A e \in Events(g) : Lab(g, e).kind \in {"R", "W"} => e \in Events(h)
      BY <1>a, <1>1, <1>9 DEF isRead
    <2> QED BY <2>1, <1>2, <1>3 DEF Keeps, KeptUpTo, SameLabel
  <1>10. ASSUME \A r \in Events(g) \ S : isRead(g, r) => ~ Dangles(g, r)
         PROVE  NoneDangles(h)
    BY <1>1, <1>2, <1>10 DEF NoneDangles, isRead, Dangles
  <1> QED BY <1>1, <1>8, <1>9, <1>10

-----------------------------------------------------------------------------
\* Steps that change neither the labels nor their stamps: what loads at the
\* end of their threads read, the marks of labels, coherence.

Relabelled(g, h, e) ==
  /\ DOMAIN h.lab[e] = LabelFields /\ SameLabel(g.lab[e], h.lab[e]) /\ h.lab[e].stamp = g.lab[e].stamp
  /\ g.lab[e].kind = "R" =>
       \/ h.lab[e].rf = g.lab[e].rf
       \/ next(e) \notin Events(g) /\ h.lab[e].rf \in StoresTo(h, g.lab[e].ins.loc)

Revised(g, h) ==
  /\ DOMAIN h = {"lab", "co", "ts"} /\ DOMAIN h.co = Locs /\ h.ts = g.ts /\ Events(h) = Events(g)
  /\ \A e \in Events(g) : Relabelled(g, h, e)
  /\ \A x \in Locs :
       /\ h.co[x] \in Seq(Events(g)) /\ Injective(h.co[x])
       /\ \A k \in 1 .. Len(h.co[x]) : g.lab[h.co[x][k]].kind = "W" /\ g.lab[h.co[x][k]].ins.loc = x
       /\ StoresTo(g, x) \subseteq StoresTo(h, x)

\* A graph whose labels keep their stamps is a reworked one, and its worklist items
\* refer to what they referred to.
LEMMA RevisedReworked ==
  ASSUME NEW p, isProgram(p), NEW g, GraphInv(p, g), NEW h, Revised(g, h)
  PROVE  /\ Reworked(g, h) /\ Keeps(g, h)
         /\ (\A r \in Events(g) : isRead(g, r) /\ Dangles(g, r) => ~ Dangles(h, r)) => NoneDangles(h)
  <1>g. Shape(p, g) /\ Stamps(g) /\ Kinds(p, g) /\ Coherence(g) /\ ReadsFrom(g) /\ ViewShape(g) /\ ViewPast(g)
    BY DEF GraphInv
  <1>1. Events(h) = Events(g) /\ h.ts = g.ts /\ DOMAIN h.co = Locs /\ DOMAIN h = {"lab", "co", "ts"}
    BY DEF Revised
  <1>2. \A e \in Events(g) : Relabelled(g, h, e)
    BY DEF Revised
  <1>l. ASSUME NEW e \in Events(g), Lab(g, e).kind = "R" PROVE g.lab[e].ins.loc \in Locs
    BY <1>l, <1>g, AccessLoc DEF Addr, Lab
  <1>3. ASSUME NEW e \in Events(g) PROVE LabelKept(g, h, e)
    <2>1. e[2] > 0 => prev(e) \in Events(h)
      BY <1>1, <1>g DEF Shape
    <2>2. DOMAIN h.lab[e] = LabelFields /\ SameLabel(g.lab[e], h.lab[e]) /\ h.lab[e].stamp = g.lab[e].stamp
      BY <1>2 DEF Relabelled
    <2>3. h.lab[e].stamp \in Nat /\ h.lab[e].stamp < h.ts
      BY <2>2, <1>1, <1>g DEF Shape, Stamps, Lab
    <2>4. g.lab[e].view \subseteq Events(h) \cup EmptyView
      BY <1>1, <1>g DEF ViewShape, Lab
    <2>5. g.lab[e].kind = "R" => RfKept(g, h, e)
      <3> SUFFICES ASSUME g.lab[e].kind = "R" PROVE RfKept(g, h, e)
        OBVIOUS
      <3>1. \/ Dangles(g, e) /\ next(e) \notin Events(g)
            \/ Lab(g, e).rf \in StoresTo(g, Addr(g, e))
        BY <1>g DEF ReadsFrom, isRead, Lab
      <3>2. StoresTo(g, g.lab[e].ins.loc) \subseteq StoresTo(h, g.lab[e].ins.loc)
        BY <1>l DEF Revised, Lab
      <3> QED BY <3>1, <3>2, <1>1, <1>2 DEF Relabelled, RfKept, Dangles, Lab, Addr
    <2>6. g.lab[e].kind = "join" => \E f \in Events(h) : EndOf(g, e, f)
      BY <1>1 DEF GraphInv, Synced, Joined, Lab
    <2> QED BY <2>1, <2>2, <2>3, <2>4, <2>5, <2>6 DEF LabelKept
  <1>4. \A e \in Events(g) : Lab(h, e).stamp = Lab(g, e).stamp /\ SameLabel(Lab(g, e), Lab(h, e))
    BY <1>2 DEF Relabelled, Lab
  <1>5. \A x \in Locs :
          /\ h.co[x] \in Seq(Events(h)) /\ Injective(h.co[x])
          /\ \A k \in 1 .. Len(h.co[x]) : g.lab[h.co[x][k]].kind = "W" /\ g.lab[h.co[x][k]].ins.loc = x
    BY <1>1 DEF Revised
  <1>6. h.ts \in Nat /\ InitEvent \in Events(h)
    BY <1>1, <1>g DEF Shape
  <1>7. Reworked(g, h)
    BY <1>1, <1>3, <1>4, <1>5, <1>6 DEF Reworked, Lab
  <1>8. Keeps(g, h)
    <2> SUFFICES ASSUME NEW st \in Nat PROVE KeptUpTo(g, h, st)
      BY Zenon DEF Keeps
    <2>1. \A x \in Locs : StoresTo(g, x) \subseteq StoresTo(h, x)
      BY DEF Revised
    <2> QED BY <2>1, <1>1, <1>4 DEF KeptUpTo
  <1>9. ASSUME \A r \in Events(g) : isRead(g, r) /\ Dangles(g, r) => ~ Dangles(h, r) PROVE NoneDangles(h)
    <2> SUFFICES ASSUME NEW r \in Events(h), isRead(h, r) PROVE ~ Dangles(h, r)
      BY DEF NoneDangles
    <2>1. r \in Events(g) /\ isRead(g, r) /\ Lab(g, r).kind = "R"
      BY <1>1, <1>4 DEF isRead, SameLabel
    <2>2. CASE Dangles(g, r)
      BY <1>9, <2>1, <2>2
    <2>3. CASE ~ Dangles(g, r) /\ Lab(h, r).rf = Lab(g, r).rf
      BY <2>3 DEF Dangles
    <2>4. CASE Lab(h, r).rf \in StoresTo(h, g.lab[r].ins.loc)
      <3>1. Shape(p, h) /\ Coherence(h)
        BY <1>7, <1>g, ReworkedShape, ReworkedCoherence
      <3> QED BY <2>1, <2>4, <3>1, <1>l, NotBottom DEF Dangles
    <2> QED BY <2>1, <2>2, <2>3, <2>4, <1>2 DEF Relabelled, Lab
  <1> QED BY <1>7, <1>8, <1>9

\* Coherence of a graph, as the definition of Revised needs it.
LEMMA CoherenceKept ==
  ASSUME NEW g, Coherence(g), NEW x \in Locs
  PROVE  /\ g.co[x] \in Seq(Events(g)) /\ Injective(g.co[x])
         /\ \A k \in 1 .. Len(g.co[x]) : g.lab[g.co[x][k]].kind = "W" /\ g.lab[g.co[x][k]].ins.loc = x
  <1>1. /\ g.co[x] \in Seq(Events(g))
        /\ \A k \in 1 .. Len(g.co[x]) : Lab(g, g.co[x][k]).kind = "W" /\ Addr(g, g.co[x][k]) = x
        /\ Injective(g.co[x])
    BY Zenon DEF Coherence
  <1> QED BY <1>1 DEF Lab, Addr

\* A label that changes no more than its marks, or what a load that ends its
\* thread reads.
LEMMA SetLabRevised ==
  ASSUME NEW p, NEW g, GraphInv(p, g), NEW e \in Events(g), NEW lab,
         DOMAIN lab = LabelFields, SameLabel(Lab(g, e), lab), lab.stamp = Lab(g, e).stamp,
         Lab(g, e).kind = "R" => \/ lab.rf = Lab(g, e).rf
                                 \/ next(e) \notin Events(g) /\ lab.rf \in StoresTo(g, Addr(g, e)),
         NEW h, h = SetLab(g, e, lab)
  PROVE  /\ Revised(g, h) /\ Lab(h, e) = lab /\ h.co = g.co /\ Events(h) = Events(g)
         /\ \A q \in Events(g) : q # e => Lab(h, q) = Lab(g, q)
  <1>g. Shape(p, g) /\ Coherence(g)
    BY DEF GraphInv
  <1>1. DOMAIN g = {"lab", "co", "ts"} /\ DOMAIN g.co = Locs
    BY <1>g DEF Shape
  <1>2. h = [g EXCEPT !.lab = [g.lab EXCEPT ![e] = lab]]
    BY <1>1 DEF SetLab
  <1>3. DOMAIN h = {"lab", "co", "ts"} /\ h.lab = [g.lab EXCEPT ![e] = lab] /\ h.co = g.co /\ h.ts = g.ts
    BY <1>1, <1>2
  <1>4. Events(h) = Events(g) /\ h.lab[e] = lab /\ \A q \in Events(g) : q # e => h.lab[q] = g.lab[q]
    BY <1>3 DEF Events
  <1>5. \A x : StoresTo(h, x) = StoresTo(g, x)
    BY <1>3 DEF StoresTo
  <1>6. ASSUME NEW q \in Events(g) PROVE Relabelled(g, h, q)
    <2>1. CASE q = e
      BY <2>1, <1>4, <1>5 DEF Relabelled, Lab, Addr
    <2>2. CASE q # e
      <3>1. h.lab[q] = g.lab[q] /\ DOMAIN g.lab[q] = LabelFields
        BY <2>2, <1>4, <1>g DEF Shape
      <3> QED BY <3>1 DEF Relabelled, SameLabel
    <2> QED BY <2>1, <2>2
  <1>7. \A x \in Locs :
          /\ h.co[x] \in Seq(Events(g)) /\ Injective(h.co[x])
          /\ \A k \in 1 .. Len(h.co[x]) : g.lab[h.co[x][k]].kind = "W" /\ g.lab[h.co[x][k]].ins.loc = x
          /\ StoresTo(g, x) \subseteq StoresTo(h, x)
    BY <1>3, <1>5, <1>g, CoherenceKept
  <1> QED BY <1>1, <1>3, <1>4, <1>6, <1>7 DEF Revised, Lab

-----------------------------------------------------------------------------
\* Coherence.

\* The place of a store in coherence.
LEMMA CoPrefixFacts ==
  ASSUME NEW g, Coherence(g), NEW x \in Locs, NEW w \in StoresTo(g, x)
  PROVE  /\ CoPrefix(g, x, w) \in 0 .. Len(g.co[x])
         /\ w # InitEvent => CoPrefix(g, x, w) \in 1 .. Len(g.co[x]) /\ g.co[x][CoPrefix(g, x, w)] = w
  <1>1. Len(g.co[x]) \in Nat /\ DOMAIN g.co[x] = 1 .. Len(g.co[x])
    BY CoherenceKept
  <1>2. CASE w = InitEvent
    BY <1>1, <1>2 DEF CoPrefix
  <1>3. CASE w # InitEvent
    <2>1. (\E k \in 1 .. Len(g.co[x]) : g.co[x][k] = w) /\ Addr(g, w) = x
      BY <1>3, StoresFacts
    <2> DEFINE k == CHOOSE k \in DOMAIN g.co[x] : g.co[x][k] = w
    <2>2. k \in 1 .. Len(g.co[x]) /\ g.co[x][k] = w
      BY <1>1, <2>1
    <2>3. CoPrefix(g, x, w) = k
      BY <1>3, <2>1, Zenon DEF CoPrefix, CoIndex
    <2> HIDE DEF k
    <2> QED BY <1>1, <1>3, <2>2, <2>3
  <1> QED BY <1>2, <1>3

\* A change of the coherence order of x that loses no store.
LEMMA ReorderRevised ==
  ASSUME NEW p, NEW g, GraphInv(p, g), NEW x \in Locs, NEW d \in Seq(Events(g)), Injective(d),
         \A k \in 1 .. Len(d) : Lab(g, d[k]).kind = "W" /\ Addr(g, d[k]) = x,
         \A j \in 1 .. Len(g.co[x]) : \E i \in 1 .. Len(d) : d[i] = g.co[x][j],
         NEW h, h = [g EXCEPT !.co[x] = d]
  PROVE  /\ Revised(g, h) /\ \A e : Lab(h, e) = Lab(g, e)
         /\ Events(h) = Events(g) /\ h.co[x] = d /\ \A y \in Locs : y # x => h.co[y] = g.co[y]
  <1>g. Shape(p, g) /\ Coherence(g)
    BY DEF GraphInv
  <1>1. DOMAIN g = {"lab", "co", "ts"} /\ DOMAIN g.co = Locs
    BY <1>g DEF Shape
  <1>2. DOMAIN h = {"lab", "co", "ts"} /\ h.lab = g.lab /\ h.co = [g.co EXCEPT ![x] = d] /\ h.ts = g.ts
    BY <1>1
  <1>3. DOMAIN h.co = Locs /\ h.co[x] = d /\ \A y \in Locs : y # x => h.co[y] = g.co[y]
    BY <1>1, <1>2
  <1>4. Events(h) = Events(g)
    BY <1>2 DEF Events
  <1>5. \A e \in Events(g) : Relabelled(g, h, e)
    BY <1>2, <1>g DEF Relabelled, SameLabel, Shape
  <1>6. ASSUME NEW y \in Locs
        PROVE  /\ h.co[y] \in Seq(Events(g)) /\ Injective(h.co[y])
               /\ \A k \in 1 .. Len(h.co[y]) : g.lab[h.co[y][k]].kind = "W" /\ g.lab[h.co[y][k]].ins.loc = y
               /\ StoresTo(g, y) \subseteq StoresTo(h, y)
    <2>1. CASE y = x
      <3>1. DOMAIN g.co[x] = 1 .. Len(g.co[x]) /\ DOMAIN d = 1 .. Len(d)
        BY <1>g, CoherenceKept
      <3>2. ASSUME NEW w \in StoresTo(g, x) PROVE w \in StoresTo(h, x)
        <4>1. CASE w = InitEvent
          BY <4>1 DEF StoresTo
        <4>2. CASE w # InitEvent
          <5>1. PICK j \in 1 .. Len(g.co[x]) : g.co[x][j] = w
            BY <4>2, <1>g, StoresFacts
          <5>2. PICK i \in 1 .. Len(d) : d[i] = w
            BY <5>1
          <5>3. i \in DOMAIN h.co[x] /\ h.co[x][i] = w
            BY <5>2, <3>1, <1>3
          <5> QED BY <5>3, Zenon DEF StoresTo
        <4> QED BY <4>1, <4>2
      <3> QED BY <2>1, <3>2, <1>3 DEF Lab, Addr
    <2>2. CASE y # x
      <3>1. h.co[y] = g.co[y] /\ StoresTo(h, y) = StoresTo(g, y)
        BY <2>2, <1>3 DEF StoresTo
      <3> QED BY <3>1, <1>g, CoherenceKept
    <2> QED BY <2>1, <2>2
  <1>7. \A e : Lab(h, e) = Lab(g, e)
    BY <1>2 DEF Lab
  <1> QED BY <1>2, <1>3, <1>4, <1>5, <1>6, <1>7 DEF Revised

\* A new store takes its place after pred.
LEMMA AddToCoRevised ==
  ASSUME NEW p, NEW g, GraphInv(p, g), NEW w \in Events(g), Lab(g, w).kind = "W", Addr(g, w) \in Locs,
         w \notin StoresTo(g, Addr(g, w)), NEW pred \in StoresTo(g, Addr(g, w)),
         NEW h, h = addStoreToCOAfter(g, w, pred)
  PROVE  /\ Revised(g, h) /\ \A e : Lab(h, e) = Lab(g, e)
         /\ Events(h) = Events(g) /\ w \in StoresTo(h, Addr(g, w))
  <1> DEFINE x == Addr(g, w)
             c == g.co[x]
             k == CoPrefix(g, x, pred)
             d == PutAfter(c, k, w)
  <1>g. Shape(p, g) /\ Coherence(g)
    BY DEF GraphInv
  <1>x. x = Addr(g, w) /\ x \in Locs /\ pred \in StoresTo(g, x)
    OBVIOUS
  <1>c. c = g.co[x] /\ k = CoPrefix(g, x, pred)
    OBVIOUS
  <1>d. d = PutAfter(c, k, w)
    OBVIOUS
  <1> HIDE DEF k, x, c, d
  <1>1. c \in Seq(Events(g)) /\ Injective(c) /\ k \in 0 .. Len(c) /\ x \in Locs
        /\ \A i \in 1 .. Len(c) : Lab(g, c[i]).kind = "W" /\ Addr(g, c[i]) = x
    <2>1. k \in 0 .. Len(c)
      BY <1>g, <1>x, <1>c, CoPrefixFacts
    <2>2. /\ c \in Seq(Events(g)) /\ Injective(c)
          /\ \A i \in 1 .. Len(c) : Lab(g, c[i]).kind = "W" /\ Addr(g, c[i]) = x
      BY <1>g, <1>x, <1>c, Zenon DEF Coherence
    <2> QED BY <2>1, <2>2, <1>x
  <1>2. h = [g EXCEPT !.co[x] = d]
    <2>1. DOMAIN g = {"lab", "co", "ts"} /\ DOMAIN g.co = Locs
      BY <1>g DEF Shape
    <2>2. h = [g EXCEPT !.co[x] = PutAfter(@, k, w)]
      BY <1>x, <1>c DEF addStoreToCOAfter, PutAfter
    <2> QED BY <2>1, <2>2, <1>x, <1>c, <1>d
  <1>3. \A j \in 1 .. Len(c) : c[j] # w
    BY <1>g, <1>x, <1>c, StoresFacts
  <1>k. Len(c) \in Nat /\ c \in Seq(Events(g)) /\ k \in 0 .. Len(c) /\ w \in Events(g)
    BY <1>1
  <1>4. d \in Seq(Events(g))
    BY <1>1, <1>d, InsertFacts
  <1>i. Gains(c, w, d)
    BY <1>k, <1>d, InsertElements
  <1>5. \A i \in 1 .. Len(d) : d[i] = w \/ \E j \in 1 .. Len(c) : d[i] = c[j]
    BY <1>i, Zenon DEF Gains
  <1>6. \A j \in 1 .. Len(c) : \E i \in 1 .. Len(d) : d[i] = c[j]
    BY <1>i, Zenon DEF Gains
  <1>7. \E i \in 1 .. Len(d) : d[i] = w
    BY <1>i, Zenon DEF Gains
  <1>8. Injective(d)
    BY <1>1, <1>3, <1>i DEF Gains
  <1>9. \A i \in 1 .. Len(d) : Lab(g, d[i]).kind = "W" /\ Addr(g, d[i]) = x
    <2> SUFFICES ASSUME NEW i \in 1 .. Len(d) PROVE Lab(g, d[i]).kind = "W" /\ Addr(g, d[i]) = x
      OBVIOUS
    <2>1. CASE d[i] = w
      BY <2>1, <1>x
    <2>2. CASE \E j \in 1 .. Len(c) : d[i] = c[j]
      BY <2>2, <1>1
    <2> QED BY <2>1, <2>2, <1>5
  <1>10. Revised(g, h) /\ (\A e : Lab(h, e) = Lab(g, e)) /\ Events(h) = Events(g) /\ h.co[x] = d
    <2>1. \A j \in 1 .. Len(g.co[x]) : \E i \in 1 .. Len(d) : d[i] = g.co[x][j]
      BY <1>6, <1>c
    <2>2. Revised(g, h)
      BY <1>x, <1>2, <1>4, <1>8, <1>9, <2>1, ReorderRevised
    <2>3. (\A e : Lab(h, e) = Lab(g, e)) /\ Events(h) = Events(g)
      BY <1>x, <1>2, <1>4, <1>8, <1>9, <2>1, ReorderRevised
    <2>4. h.co[x] = d
      <3>1. DOMAIN g = {"lab", "co", "ts"} /\ DOMAIN g.co = Locs
        BY <1>g DEF Shape
      <3> QED BY <3>1, <1>x, <1>2
    <2> QED BY <2>2, <2>3, <2>4
  <1>11. w \in StoresTo(h, x)
    <2>1. PICK i \in 1 .. Len(d) : d[i] = w
      BY <1>7
    <2>2. i \in DOMAIN h.co[x] /\ h.co[x][i] = w
      BY <2>1, <1>4, <1>10
    <2> QED BY <2>2, Zenon DEF StoresTo
  <1> QED BY <1>10, <1>11, <1>x

\* A store takes another place, after pred.
LEMMA MoveInCoRevised ==
  ASSUME NEW p, NEW g, GraphInv(p, g), NEW x \in Locs, NEW w \in StoresTo(g, x), w # InitEvent,
         NEW pred \in StoresTo(g, x), pred # w, NEW h, h = moveStoreCOAfter(g, w, pred)
  PROVE  /\ Revised(g, h) /\ \A e : Lab(h, e) = Lab(g, e)
         /\ Events(h) = Events(g) /\ w \in StoresTo(h, x)
  <1> DEFINE c == g.co[x]
             b == Among(c, Range(c) \ {w})
             f == [g EXCEPT !.co[x] = b]
             k == CoPrefix(f, x, pred)
             d == PutAfter(b, k, w)
  <1>g. Shape(p, g) /\ Coherence(g)
    BY DEF GraphInv
  <1>0. DOMAIN g = {"lab", "co", "ts"} /\ DOMAIN g.co = Locs
    BY <1>g DEF Shape
  <1>1. w \in Events(g) /\ Lab(g, w).kind = "W" /\ Addr(g, w) = x
    BY <1>g, StoresFacts
  <1>2. c \in Seq(Events(g)) /\ Injective(c) /\ DOMAIN c = 1 .. Len(c)
        /\ \A i \in 1 .. Len(c) : Lab(g, c[i]).kind = "W" /\ Addr(g, c[i]) = x
    <2>1. c \in Seq(Events(g)) /\ Injective(c)
          /\ \A i \in 1 .. Len(c) : Lab(g, c[i]).kind = "W" /\ Addr(g, c[i]) = x
      BY <1>g, Zenon DEF Coherence
    <2> HIDE DEF c
    <2>2. DOMAIN c = 1 .. Len(c)
      BY <2>1
    <2> QED BY <2>1, <2>2
  <1>c. c = g.co[x]
    OBVIOUS
  <1>b. b = Among(c, Range(c) \ {w})
    OBVIOUS
  <1>3. b \in Seq(Events(g)) /\ Injective(b)
    BY <1>2, AmongEmbeds, AmongInjective
  <1>4. \A i \in 1 .. Len(b) : b[i] \in Range(c) \ {w} /\ \E j \in 1 .. Len(c) : c[j] = b[i]
    <2> HIDE DEF c, b
    <2>1. Thins(c, Range(c) \ {w}, b)
      BY <1>b, <1>2, AmongThins
    <2> QED BY <2>1, Zenon DEF Thins
  <1>5. \A j \in 1 .. Len(c) : c[j] \in Range(c)
    BY <1>2, Zenon DEF Range
  <1>6. \A j \in 1 .. Len(c) : c[j] # w => \E i \in 1 .. Len(b) : b[i] = c[j]
    <2> HIDE DEF c, b
    <2>1. \A j \in 1 .. Len(c) : c[j] \in Range(c) \ {w} => \E i \in 1 .. Len(b) : b[i] = c[j]
      <3>1. Thins(c, Range(c) \ {w}, b)
        BY <1>b, <1>2, AmongThins
      <3> QED BY <3>1, Zenon DEF Thins
    <2> QED BY <2>1, <1>5
  <1>f. f = [g EXCEPT !.co[x] = b]
    OBVIOUS
  <1>7. DOMAIN f = {"lab", "co", "ts"} /\ f.lab = g.lab /\ f.ts = g.ts /\ DOMAIN f.co = Locs /\ f.co[x] = b
        /\ \A y \in Locs : y # x => f.co[y] = g.co[y]
    <2> HIDE DEF f, b
    <2> QED BY <1>0, <1>f
  <1>8. f = removeStoreFromCO(g, w)
    <2>1. removeStoreFromCO(g, w) = [g EXCEPT !.co[x] = Among(@, Range(@) \ {w})]
      BY <1>1 DEF removeStoreFromCO
    <2> QED BY <2>1
  <1>9. h = [g EXCEPT !.co[x] = d]
    <2>1. h = addStoreToCOAfter(f, w, pred) /\ Addr(f, w) = x
      BY <1>1, <1>7, <1>8 DEF moveStoreCOAfter, Addr, Lab
    <2>2. h = [f EXCEPT !.co[x] = PutAfter(@, k, w)]
      BY <2>1 DEF addStoreToCOAfter, PutAfter
    <2> HIDE DEF d, k, f, b
    <2>4. h = [f EXCEPT !.co[x] = d]
      BY <2>2, <1>7 DEF d
    <2> QED BY <2>4, <1>0, <1>f
  <1> HIDE DEF f, b, c
  <1>10. Coherence(f)
    <2> SUFFICES ASSUME NEW y \in Locs
                 PROVE  /\ f.co[y] \in Seq(Events(f))
                        /\ \A i \in 1 .. Len(f.co[y]) : Lab(f, f.co[y][i]).kind = "W" /\ Addr(f, f.co[y][i]) = y
                        /\ Injective(f.co[y])
      BY Zenon DEF Coherence
    <2>1. Events(f) = Events(g) /\ \A e : Lab(f, e) = Lab(g, e) /\ Addr(f, e) = Addr(g, e)
      BY <1>7 DEF Events, Lab, Addr
    <2>2. CASE y = x
      <3>1. \A i \in 1 .. Len(b) : Lab(g, b[i]).kind = "W" /\ Addr(g, b[i]) = x
        BY <1>2, <1>4
      <3> QED BY <3>1, <2>1, <2>2, <1>3, <1>7
    <2>3. CASE y # x
      <3>1. /\ g.co[y] \in Seq(Events(g)) /\ Injective(g.co[y])
            /\ \A i \in 1 .. Len(g.co[y]) : Lab(g, g.co[y][i]).kind = "W" /\ Addr(g, g.co[y][i]) = y
        BY <1>g, Zenon DEF Coherence
      <3> QED BY <3>1, <2>1, <2>3, <1>7
    <2> QED BY <2>2, <2>3
  <1>11. pred \in StoresTo(f, x)
    <2>1. CASE pred = InitEvent
      BY <2>1 DEF StoresTo
    <2>2. CASE pred # InitEvent
      <3>1. PICK j \in 1 .. Len(c) : c[j] = pred
        BY <2>2, <1>g, <1>c, StoresFacts
      <3>2. PICK i \in 1 .. Len(b) : b[i] = pred
        BY <3>1, <1>6
      <3>3. i \in DOMAIN f.co[x] /\ f.co[x][i] = pred
        BY <3>2, <1>3, <1>7
      <3> QED BY <3>3, Zenon DEF StoresTo
    <2> QED BY <2>1, <2>2
  <1>12. k \in 0 .. Len(b)
    BY <1>7, <1>10, <1>11, CoPrefixFacts
  <1>d. d = PutAfter(b, k, w)
    OBVIOUS
  <1> HIDE DEF d, k
  <1>13. Gains(b, w, d) /\ d \in Seq(Events(g))
    BY <1>1, <1>3, <1>12, <1>d, InsertElements, InsertFacts
  <1>14. Injective(d)
    BY <1>3, <1>4, <1>13 DEF Gains
  <1>15. \A i \in 1 .. Len(d) : Lab(g, d[i]).kind = "W" /\ Addr(g, d[i]) = x
    <2>1. \A i \in 1 .. Len(d) : d[i] = w \/ \E j \in 1 .. Len(b) : d[i] = b[j]
      BY <1>13 DEF Gains
    <2> QED BY <2>1, <1>1, <1>2, <1>4
  <1>16. \A j \in 1 .. Len(c) : \E i \in 1 .. Len(d) : d[i] = c[j]
    <2>1. (\A j \in 1 .. Len(b) : \E i \in 1 .. Len(d) : d[i] = b[j]) /\ \E i \in 1 .. Len(d) : d[i] = w
      BY <1>13 DEF Gains
    <2> QED BY <2>1, <1>6
  <1>17. Revised(g, h) /\ (\A e : Lab(h, e) = Lab(g, e)) /\ Events(h) = Events(g)
    <2>1. \A j \in 1 .. Len(g.co[x]) : \E i \in 1 .. Len(d) : d[i] = g.co[x][j]
      BY <1>16, <1>c
    <2> QED BY <1>9, <1>13, <1>14, <1>15, <2>1, ReorderRevised
  <1>18. w \in StoresTo(h, x)
    BY <1>17 DEF Revised
  <1> QED BY <1>17, <1>18

-----------------------------------------------------------------------------
\* Cutting a graph.

\* The labels of v depend on no others.
Closed(g, v) ==
  /\ EmptyView \subseteq v
  /\ \A e \in Events(g) \cap v : /\ e[2] > 0 => prev(e) \in v
                                 /\ Lab(g, e).kind # "block" => Lab(g, e).view \subseteq v
  /\ \A r \in Events(g) : isRead(g, r) /\ next(r) \in Events(g) \cap v /\ Lab(g, next(r)).kind = "block"
       => Lab(g, r).rf \in v
  /\ \A j \in Events(g) \cap v : Lab(g, j).kind = "join" => \E f \in v : EndOf(g, j, f)

\* A graph cut to a view.
LEMMA KeepFacts ==
  ASSUME NEW p, NEW g, GraphInv(p, g), NEW v, NEW h, h = KeepOnly(g, v)
  PROVE  /\ DOMAIN h = {"lab", "co", "ts"} /\ Events(h) = Events(g) \cap v /\ h.ts = g.ts /\ DOMAIN h.co = Locs
         /\ \A e \in Events(h) :
              /\ DOMAIN h.lab[e] = LabelFields /\ SameLabel(g.lab[e], h.lab[e]) /\ h.lab[e].stamp = g.lab[e].stamp
              /\ g.lab[e].kind = "R" /\ g.lab[e].rf \notin v => h.lab[e].rf = Bottom
              /\ g.lab[e].kind = "R" /\ g.lab[e].rf \in v => h.lab[e].rf = g.lab[e].rf
         /\ \A x \in Locs : h.co[x] = Among(g.co[x], v)
  <1> DEFINE gone(lab) == lab.kind = "R" /\ lab.rf # Bottom /\ ~ InView(v, lab.rf)
             L == [e \in Events(g) \cap v |->
                     IF gone(g.lab[e]) THEN [g.lab[e] EXCEPT !.rf = Bottom] ELSE g.lab[e]]
             C == [x \in Locs |-> Among(g.co[x], v)]
  <1>1. DOMAIN g = {"lab", "co", "ts"} /\ \A e \in Events(g) : DOMAIN g.lab[e] = LabelFields
    BY DEF GraphInv, Shape
  <1>2. h = [g EXCEPT !.lab = L, !.co = C]
    BY DEF KeepOnly
  <1>3. ASSUME NEW e \in Events(g) \cap v
        PROVE  /\ DOMAIN L[e] = LabelFields /\ SameLabel(g.lab[e], L[e]) /\ L[e].stamp = g.lab[e].stamp
               /\ g.lab[e].kind = "R" /\ g.lab[e].rf \notin v => L[e].rf = Bottom
               /\ g.lab[e].kind = "R" /\ g.lab[e].rf \in v => L[e].rf = g.lab[e].rf
    <2>1. CASE gone(g.lab[e])
      <3>1. L[e] = [g.lab[e] EXCEPT !.rf = Bottom]
        BY <2>1
      <3> HIDE DEF L
      <3> QED BY <2>1, <3>1, <1>1 DEF SameLabel, LabelFields, InView
    <2>2. CASE ~ gone(g.lab[e])
      <3>1. L[e] = g.lab[e]
        BY <2>2
      <3> HIDE DEF L
      <3> QED BY <2>2, <3>1, <1>1 DEF SameLabel, InView
    <2> QED BY <2>1, <2>2
  <1>4. DOMAIN L = Events(g) \cap v /\ DOMAIN C = Locs /\ \A x \in Locs : C[x] = Among(g.co[x], v)
    OBVIOUS
  <1> HIDE DEF L, C, gone
  <1>5. DOMAIN h = {"lab", "co", "ts"} /\ h.lab = L /\ h.co = C /\ h.ts = g.ts
    BY <1>1, <1>2
  <1>6. Events(h) = Events(g) \cap v
    BY <1>4, <1>5 DEF Events
  <1> QED BY <1>3, <1>4, <1>5, <1>6

\* A cut to a closed view reworks the graph.
LEMMA KeepReworked ==
  ASSUME NEW p, isProgram(p), NEW g, GraphInv(p, g), NEW v, Closed(g, v), NEW h, h = KeepOnly(g, v)
  PROVE  /\ Reworked(g, h)
         /\ \A x \in Locs : \A w \in StoresTo(g, x) : w = InitEvent \/ w \in v => w \in StoresTo(h, x)
  <1>g. Shape(p, g) /\ Stamps(g) /\ Kinds(p, g) /\ Coherence(g) /\ ReadsFrom(g) /\ ViewShape(g) /\ ViewPast(g) /\ Blocked(g)
    BY DEF GraphInv
  <1>1. DOMAIN h = {"lab", "co", "ts"} /\ Events(h) = Events(g) \cap v /\ h.ts = g.ts /\ DOMAIN h.co = Locs
    BY KeepFacts
  <1>2. \A e \in Events(h) :
          /\ DOMAIN h.lab[e] = LabelFields /\ SameLabel(g.lab[e], h.lab[e]) /\ h.lab[e].stamp = g.lab[e].stamp
          /\ g.lab[e].kind = "R" /\ g.lab[e].rf \notin v => h.lab[e].rf = Bottom
          /\ g.lab[e].kind = "R" /\ g.lab[e].rf \in v => h.lab[e].rf = g.lab[e].rf
    BY KeepFacts
  <1>3. \A x \in Locs : h.co[x] = Among(g.co[x], v)
    BY KeepFacts
  <1>4. InitEvent \in Events(h)
    <2>1. InitEvent \in Events(g) /\ InitEvent[1] \in Threads
      BY <1>g, EventFacts DEF isProgram, Shape
    <2>2. InitEvent \in EmptyView
      BY <2>1 DEF EmptyView, InitEvent
    <2> QED BY <2>1, <2>2, <1>1 DEF Closed
  <1>5. ASSUME NEW x \in Locs
        PROVE  /\ h.co[x] \in Seq(Events(h)) /\ Injective(h.co[x])
               /\ \A k \in 1 .. Len(h.co[x]) : g.lab[h.co[x][k]].kind = "W" /\ g.lab[h.co[x][k]].ins.loc = x
               /\ \A w \in StoresTo(g, x) : w = InitEvent \/ w \in v => w \in StoresTo(h, x)
    <2> DEFINE c == g.co[x]
               d == h.co[x]
    <2>1. c \in Seq(Events(g)) /\ Injective(c)
          /\ \A i \in 1 .. Len(c) : Lab(g, c[i]).kind = "W" /\ Addr(g, c[i]) = x
      BY <1>g, Zenon DEF Coherence
    <2>2. d = Among(c, v)
      BY <1>3
    <2>c. c = g.co[x] /\ d = h.co[x]
      OBVIOUS
    <2> HIDE DEF c, d
    <2>3. Thins(c, v, d) /\ d \in Seq(Events(g)) /\ Injective(d)
      BY <2>1, <2>2, AmongThins, AmongInjective
    <2>4. \A i \in 1 .. Len(d) : d[i] \in v /\ \E k \in 1 .. Len(c) : c[k] = d[i]
      BY <2>3, Zenon DEF Thins
    <2>5. \A i \in 1 .. Len(d) : d[i] \in Events(h)
      BY <2>3, <2>4, <1>1
    <2>6. d \in Seq(Events(h))
      BY <2>3, <2>5
    <2>7. \A i \in 1 .. Len(d) : Lab(g, d[i]).kind = "W" /\ Addr(g, d[i]) = x
      BY <2>1, <2>4
    <2>8. ASSUME NEW w \in StoresTo(g, x), w = InitEvent \/ w \in v PROVE w \in StoresTo(h, x)
      <3>1. CASE w = InitEvent
        BY <3>1 DEF StoresTo
      <3>2. CASE w # InitEvent
        <4>1. PICK j \in 1 .. Len(c) : c[j] = w
          BY <3>2, <1>g, <2>c, StoresFacts
        <4>2. PICK i \in 1 .. Len(d) : d[i] = w
          BY <2>3, <2>8, <3>2, <4>1, Zenon DEF Thins
        <4>3. i \in DOMAIN h.co[x] /\ h.co[x][i] = w
          BY <4>2, <2>3, <2>c
        <4> QED BY <4>3, Zenon DEF StoresTo
      <3> QED BY <3>1, <3>2
    <2> QED BY <2>3, <2>6, <2>7, <2>8 DEF Lab, Addr, d
  <1>v. \A q \in EmptyView : q[2] = 0
    BY DEF EmptyView
  <1>6. ASSUME NEW e \in Events(h) PROVE LabelKept(g, h, e)
    <2>0. e \in Events(g) /\ e \in v
      BY <1>1
    <2>1. ASSUME e[2] > 0 PROVE prev(e) \in Events(h)
      BY <2>0, <2>1, <1>1, <1>g DEF Closed, Shape
    <2>2. DOMAIN h.lab[e] = LabelFields /\ SameLabel(g.lab[e], h.lab[e]) /\ h.lab[e].stamp = g.lab[e].stamp
      BY <1>2
    <2>3. h.lab[e].stamp \in Nat /\ h.lab[e].stamp < h.ts
      BY <2>0, <2>2, <1>1, <1>g DEF Shape, Stamps, Lab
    <2>4. ASSUME g.lab[e].kind # "block" PROVE g.lab[e].view \subseteq Events(h) \cup EmptyView
      <3>1. g.lab[e].view \subseteq Events(g) \cup EmptyView /\ g.lab[e].view \subseteq v
        BY <2>0, <2>4, <1>g DEF ViewShape, Closed, Lab
      <3> QED BY <3>1, <1>1
    <2>5. ASSUME g.lab[e].kind = "R" PROVE RfKept(g, h, e)
      <3>0. isRead(g, e)
        BY <2>5 DEF isRead, Lab
      <3>1. CASE g.lab[e].rf \in v /\ ~ Dangles(g, e)
        <4>1. Addr(g, e) \in Locs /\ Lab(g, e).rf \in StoresTo(g, Addr(g, e))
          BY <2>0, <3>0, <3>1, RfInGraph
        <4>2. Lab(g, e).rf \in StoresTo(h, Addr(g, e))
          BY <4>1, <3>1, <1>5 DEF Lab
        <4>3. h.lab[e].rf = g.lab[e].rf
          BY <1>2, <2>5, <3>1
        <4> QED BY <4>2, <4>3 DEF RfKept, Lab, Addr
      <3>2. CASE g.lab[e].rf \notin v \/ Dangles(g, e)
        <4>1. h.lab[e].rf = Bottom
          BY <1>2, <2>5, <3>2 DEF Dangles, Lab
        <4>2. next(e) \notin Events(h)
          <5> SUFFICES ASSUME next(e) \in Events(h) PROVE FALSE
            OBVIOUS
          <5>1. next(e) \in Events(g) /\ next(e) \in v
            BY <1>1
          <5>2. ~ Dangles(g, e) /\ g.lab[e].rf \notin v
            <6>1. ~ Dangles(g, e)
              <7>1. CASE Lab(g, e).rf \in StoresTo(g, Addr(g, e))
                <8>1. Addr(g, e) \in Locs
                  BY <2>0, <3>0, <1>g, AccessLoc DEF isRead
                <8> QED BY <7>1, <8>1, <1>g, NotBottom DEF Dangles
              <7> QED BY <2>0, <3>0, <5>1, <7>1, <1>g DEF ReadsFrom
            <6> QED BY <6>1, <3>2
          <5>3. CASE Lab(g, next(e)).kind = "block"
            BY <2>0, <3>0, <5>1, <5>2, <5>3 DEF Closed, Lab
          <5>4. CASE Lab(g, next(e)).kind # "block"
            <6>1. e \in Lab(g, next(e)).view
              BY <2>0, <5>1, <5>4, <1>g, NextPrev DEF ViewShape
            <6>2. e[2] > 0
              <7>1. e[2] \in Nat
                BY <2>0, <1>g, EventFacts
              <7>2. e[2] # 0
                BY <2>0, <2>5, <1>g DEF Kinds
              <7> QED BY <7>1, <7>2
            <6>3. Lab(g, e).rf \in Lab(g, next(e)).view
              BY <3>0, <5>1, <6>1, <6>2, <1>g DEF ViewPast
            <6>4. Lab(g, next(e)).view \subseteq v
              BY <5>1, <5>4 DEF Closed
            <6> QED BY <5>2, <6>3, <6>4 DEF Lab
          <5> QED BY <5>3, <5>4
        <4> QED BY <4>1, <4>2 DEF RfKept
      <3> QED BY <3>1, <3>2
    <2>6. ASSUME g.lab[e].kind = "join" PROVE \E f \in Events(h) : EndOf(g, e, f)
      <3>1. PICK f \in v : EndOf(g, e, f)
        BY <2>0, <2>6 DEF Closed, Lab
      <3> QED BY <3>1, <1>1 DEF EndOf
    <2> QED BY <2>1, <2>2, <2>3, <2>4, <2>5, <2>6 DEF LabelKept
  <1>7. \A e, q \in Events(h) : g.lab[e].stamp < g.lab[q].stamp => h.lab[e].stamp < h.lab[q].stamp
    BY <1>2
  <1>8. Events(h) \subseteq Events(g) /\ h.ts \in Nat
    BY <1>1, <1>g DEF Shape
  <1>9. Reworked(g, h)
    BY <1>1, <1>4, <1>5, <1>6, <1>7, <1>8 DEF Reworked
  <1> QED BY <1>5, <1>9

-----------------------------------------------------------------------------
\* New stamps in the old order.

LateStamps(g, st) == {Lab(g, e).stamp : e \in Events(g)} \ (0 .. st)

NewStamp(late, st, s) == IF s <= st THEN s ELSE st + Cardinality({q \in late : q <= s})

\* The new stamps after st are in the order of the old ones.
LEMMA NewStampsOrdered ==
  ASSUME NEW late \in SUBSET Nat, IsFiniteSet(late), NEW st \in Nat, \A q \in late : st < q
  PROVE  /\ \A s \in Nat : NewStamp(late, st, s) \in Nat /\ NewStamp(late, st, s) < st + 1 + Cardinality(late)
         /\ \A s \in Nat : \A u \in Nat : s < u /\ (u <= st \/ u \in late) =>
              NewStamp(late, st, s) < NewStamp(late, st, u)
  <1> DEFINE D(s) == {q \in late : q <= s}
             n(s) == Cardinality(D(s))
  <1>0. Cardinality(late) \in Nat
    BY FS_CardinalityType
  <1>1. ASSUME NEW s \in Nat PROVE IsFiniteSet(D(s)) /\ n(s) \in Nat /\ n(s) <= Cardinality(late)
    <2>1. D(s) \in SUBSET late
      OBVIOUS
    <2> HIDE DEF D
    <2>2. IsFiniteSet(D(s)) /\ Cardinality(D(s)) <= Cardinality(late)
      BY <2>1, FS_Subset
    <2> QED BY <2>2, FS_CardinalityType
  <1>2. ASSUME NEW s \in Nat, NEW u \in late, s < u PROVE n(s) < n(u)
    <2>0. u \in Nat /\ u <= u /\ ~ u <= s /\ \A q \in late : q <= s => q <= u
      BY <1>2
    <2>1. D(s) \in SUBSET D(u) /\ u \in D(u) /\ u \notin D(s) /\ u \in Nat
      BY <2>0, Zenon
    <2> HIDE DEF D
    <2>2. IsFiniteSet(D(u)) /\ n(u) \in Nat /\ n(s) \in Nat
      BY <1>1, <2>1
    <2>3. n(s) <= n(u) /\ (n(u) = n(s) => D(u) = D(s))
      BY <2>1, <2>2, FS_Subset
    <2> HIDE DEF n
    <2> QED BY <2>1, <2>2, <2>3
  <1>3. ASSUME NEW u \in late PROVE n(u) > 0
    <2>1. u \in Nat /\ u <= u
      OBVIOUS
    <2>4. u \in D(u)
      BY <2>1
    <2> HIDE DEF D
    <2>2. IsFiniteSet(D(u)) /\ n(u) \in Nat
      BY <1>1, <2>1
    <2>3. n(u) # 0
      BY <2>2, <2>4, FS_EmptySet
    <2> HIDE DEF n
    <2> QED BY <2>2, <2>3
  <1>4. \A s : NewStamp(late, st, s) = IF s <= st THEN s ELSE st + n(s)
    BY DEF NewStamp
  <1> HIDE DEF D, n
  <1>5. ASSUME NEW s \in Nat
        PROVE  NewStamp(late, st, s) \in Nat /\ NewStamp(late, st, s) < st + 1 + Cardinality(late)
    <2>1. n(s) \in Nat /\ n(s) <= Cardinality(late)
      BY <1>1
    <2> QED BY <1>0, <1>4, <2>1
  <1>6. ASSUME NEW s \in Nat, NEW u \in Nat, s < u, u <= st \/ u \in late
        PROVE  NewStamp(late, st, s) < NewStamp(late, st, u)
    <2>0. n(s) \in Nat /\ n(u) \in Nat
      BY <1>1
    <2>1. CASE u <= st
      BY <1>4, <1>6, <2>1
    <2>2. CASE u \in late /\ s <= st
      <3>1. st < u /\ n(u) > 0
        BY <1>3, <2>2
      <3>2. NewStamp(late, st, s) = s /\ NewStamp(late, st, u) = st + n(u)
        BY <1>4, <2>2, <3>1
      <3> QED BY <2>0, <2>2, <3>1, <3>2
    <2>3. CASE u \in late /\ ~ s <= st
      <3>1. st < u /\ n(s) < n(u)
        BY <1>2, <1>6, <2>3
      <3>2. NewStamp(late, st, s) = st + n(s) /\ NewStamp(late, st, u) = st + n(u)
        BY <1>4, <2>3, <3>1
      <3> QED BY <2>0, <3>1, <3>2
    <2> QED BY <1>6, <2>1, <2>2, <2>3
  <1> QED BY <1>5, <1>6

\* compressStampsAfter reworks the graph and keeps the labels up to the stamp.
LEMMA CompressReworked ==
  ASSUME NEW p, isProgram(p), NEW g, GraphInv(p, g), NEW st \in Nat, NEW h, h = compressStampsAfter(g, st)
  PROVE  /\ Reworked(g, h) /\ Events(h) = Events(g) /\ h.co = g.co /\ KeptUpTo(g, h, st)
         /\ \A e \in Events(g) : SameLabel(Lab(g, e), Lab(h, e)) /\ Lab(h, e).rf = Lab(g, e).rf
  <1> DEFINE late == LateStamps(g, st)
             L == [e \in Events(g) |-> [g.lab[e] EXCEPT !.stamp = NewStamp(late, st, @)]]
  <1>g. Shape(p, g) /\ Stamps(g) /\ Kinds(p, g) /\ Coherence(g) /\ ReadsFrom(g) /\ ViewShape(g)
    BY DEF GraphInv
  <1>1. DOMAIN g = {"lab", "co", "ts"} /\ g.ts \in Nat /\ \A e \in Events(g) : DOMAIN g.lab[e] = LabelFields
    BY <1>g DEF Shape
  <1>2. h = [g EXCEPT !.lab = L, !.ts = st + 1 + Cardinality(late)]
    BY DEF compressStampsAfter, LateStamps, NewStamp
  <1>3. \A e \in Events(g) : Lab(g, e).stamp \in Nat /\ Lab(g, e).stamp < g.ts
    BY <1>g DEF Shape, Stamps, Lab
  <1>4. late \in SUBSET Nat /\ \A q \in late : st < q /\ q <= g.ts
    BY <1>1, <1>3 DEF LateStamps
  <1>5. \A e \in Events(g) : Lab(g, e).stamp <= st \/ Lab(g, e).stamp \in late
    BY <1>3 DEF LateStamps
  <1>6. DOMAIN L = Events(g) /\ \A e \in Events(g) : L[e] = [g.lab[e] EXCEPT !.stamp = NewStamp(late, st, @)]
    OBVIOUS
  <1> HIDE DEF L, late
  <1>7. DOMAIN h = {"lab", "co", "ts"} /\ h.lab = L /\ h.co = g.co /\ h.ts = st + 1 + Cardinality(late)
    BY <1>1, <1>2
  <1>8. Events(h) = Events(g)
    BY <1>6, <1>7 DEF Events
  <1>9. ASSUME NEW e \in Events(g)
        PROVE  /\ DOMAIN h.lab[e] = LabelFields /\ SameLabel(g.lab[e], h.lab[e]) /\ h.lab[e].rf = g.lab[e].rf
               /\ h.lab[e].stamp = NewStamp(late, st, g.lab[e].stamp)
    <2>1. h.lab[e] = [g.lab[e] EXCEPT !.stamp = NewStamp(late, st, @)] /\ DOMAIN g.lab[e] = LabelFields
      BY <1>1, <1>6, <1>7
    <2> QED BY <2>1 DEF LabelFields, SameLabel
  <1>f. IsFiniteSet(late) /\ Cardinality(late) \in Nat
    <2>1. IsFiniteSet(late)
      BY <1>1, <1>4, FS_BoundedSetOfNaturals
    <2> QED BY <2>1, FS_CardinalityType
  <1>10. ASSUME NEW e \in Events(g), NEW q \in Events(g), g.lab[e].stamp < g.lab[q].stamp
         PROVE  h.lab[e].stamp < h.lab[q].stamp
    <2>1. g.lab[e].stamp \in Nat /\ g.lab[q].stamp \in Nat /\ (g.lab[q].stamp <= st \/ g.lab[q].stamp \in late)
      BY <1>3, <1>5 DEF Lab
    <2>2. NewStamp(late, st, g.lab[e].stamp) < NewStamp(late, st, g.lab[q].stamp)
      BY <2>1, <1>4, <1>f, <1>10, NewStampsOrdered
    <2> QED BY <2>2, <1>9
  <1>11. ASSUME NEW e \in Events(g) PROVE h.lab[e].stamp \in Nat /\ h.lab[e].stamp < h.ts
    <2>1. g.lab[e].stamp \in Nat
      BY <1>3 DEF Lab
    <2>2. /\ NewStamp(late, st, g.lab[e].stamp) \in Nat
          /\ NewStamp(late, st, g.lab[e].stamp) < st + 1 + Cardinality(late)
      BY <2>1, <1>4, <1>f, NewStampsOrdered
    <2> QED BY <2>2, <1>7, <1>9
  <1>12. \A x : StoresTo(h, x) = StoresTo(g, x)
    BY <1>7 DEF StoresTo
  <1>13. ASSUME NEW e \in Events(g) PROVE LabelKept(g, h, e)
    <2>1. e[2] > 0 => prev(e) \in Events(h)
      BY <1>8, <1>g DEF Shape
    <2>2. g.lab[e].view \subseteq Events(h) \cup EmptyView
      BY <1>8, <1>g DEF ViewShape, Lab
    <2>3. g.lab[e].kind = "R" => RfKept(g, h, e)
      <3> SUFFICES ASSUME g.lab[e].kind = "R" PROVE RfKept(g, h, e)
        OBVIOUS
      <3>1. \/ Dangles(g, e) /\ next(e) \notin Events(g)
            \/ Lab(g, e).rf \in StoresTo(g, Addr(g, e))
        BY <1>g DEF ReadsFrom, isRead, Lab
      <3> QED BY <3>1, <1>8, <1>9, <1>12 DEF RfKept, Dangles, Lab, Addr
    <2>4. g.lab[e].kind = "join" => \E f \in Events(h) : EndOf(g, e, f)
      BY <1>8 DEF GraphInv, Synced, Joined, Lab
    <2> QED BY <2>1, <2>2, <2>3, <2>4, <1>9, <1>11 DEF LabelKept
  <1>14. \A x \in Locs :
           /\ h.co[x] \in Seq(Events(h)) /\ Injective(h.co[x])
           /\ \A k \in 1 .. Len(h.co[x]) : g.lab[h.co[x][k]].kind = "W" /\ g.lab[h.co[x][k]].ins.loc = x
    BY <1>7, <1>8, <1>g, CoherenceKept
  <1>15. DOMAIN h.co = Locs /\ h.ts \in Nat /\ InitEvent \in Events(h)
    BY <1>f, <1>7, <1>8, <1>g DEF Shape
  <1>16. Reworked(g, h)
    BY <1>7, <1>8, <1>10, <1>13, <1>14, <1>15 DEF Reworked
  <1>17. KeptUpTo(g, h, st)
    <2>1. ASSUME NEW e \in Events(g), Lab(g, e).stamp <= st
          PROVE  e \in Events(h) /\ SameLabel(Lab(g, e), Lab(h, e)) /\ Lab(h, e).stamp = Lab(g, e).stamp
      BY <2>1, <1>8, <1>9 DEF Lab, NewStamp
    <2> QED BY <2>1, <1>12 DEF KeptUpTo
  <1> QED BY <1>7, <1>8, <1>9, <1>16, <1>17 DEF Lab

-----------------------------------------------------------------------------
\* Loads left dangling.

\* The last store in coherence can be read.
LEMMA CoMaxFacts ==
  ASSUME NEW g, Coherence(g), NEW x \in Locs
  PROVE  co_max(g, x) \in StoresTo(g, x)
  <1>1. g.co[x] \in Seq(Events(g)) /\ DOMAIN g.co[x] = 1 .. Len(g.co[x]) /\ Len(g.co[x]) \in Nat
    BY CoherenceKept
  <1>2. CASE g.co[x] = <<>>
    BY <1>2 DEF co_max, StoresTo
  <1>3. CASE g.co[x] # <<>>
    <2>1. Len(g.co[x]) \in DOMAIN g.co[x]
      BY <1>1, <1>3
    <2>2. co_max(g, x) = g.co[x][Len(g.co[x])]
      BY <1>3 DEF co_max
    <2> QED BY <2>1, <2>2, Zenon DEF StoresTo
  <1> QED BY <1>2, <1>3

\* After repairDanglingReads every load reads a store.
LEMMA RepairRevised ==
  ASSUME NEW p, isProgram(p), NEW g, GraphInv(p, g), NEW h, h = repairDanglingReads(g)
  PROVE  Revised(g, h) /\ NoneDangles(h) /\ h.co = g.co
  <1> DEFINE D == {e \in Events(g) : isRead(g, e) /\ Lab(g, e).rf = Bottom /\ e = LastEvent(g, e[1])}
             L == [e \in Events(g) |-> IF e \in D THEN repairRead(g, e) ELSE g.lab[e]]
  <1>g. Shape(p, g) /\ Kinds(p, g) /\ Coherence(g) /\ ReadsFrom(g)
    BY DEF GraphInv
  <1>1. DOMAIN g = {"lab", "co", "ts"} /\ DOMAIN g.co = Locs /\ \A e \in Events(g) : DOMAIN g.lab[e] = LabelFields
    BY <1>g DEF Shape
  <1>2. h = [g EXCEPT !.lab = L]
    BY DEF repairDanglingReads
  <1>d. \A e \in D : e \in Events(g) /\ isRead(g, e)
    OBVIOUS
  <1>l. ASSUME NEW e \in Events(g), isRead(g, e) PROVE Addr(g, e) \in Locs
    BY <1>l, <1>g, AccessLoc DEF isRead
  <1>n. ASSUME NEW e \in D PROVE next(e) \notin Events(g)
    <2>1. e[1] \in LiveThreads(g) /\ e = LastEvent(g, e[1])
      BY DEF LiveThreads
    <2> QED BY <2>1, <1>g, LastFacts
  <1>x. ASSUME NEW e \in Events(g), isRead(g, e), Dangles(g, e) PROVE e \in D
    <2>1. next(e) \notin Events(g)
      <3>1. Lab(g, e).rf \notin StoresTo(g, Addr(g, e))
        BY <1>x, <1>l, <1>g, NotBottom DEF Dangles
      <3> QED BY <1>x, <3>1, <1>g DEF ReadsFrom
    <2>2. e[1] \in LiveThreads(g)
      BY DEF LiveThreads
    <2>3. e = LastEvent(g, e[1])
      BY <2>1, <2>2, <1>g, LastFacts
    <2> QED BY <1>x, <2>3 DEF Dangles
  <1>3. DOMAIN L = Events(g) /\ \A e \in Events(g) : L[e] = IF e \in D THEN repairRead(g, e) ELSE g.lab[e]
    OBVIOUS
  <1> HIDE DEF L, D
  <1>4. DOMAIN h = {"lab", "co", "ts"} /\ h.lab = L /\ h.co = g.co /\ h.ts = g.ts
    BY <1>1, <1>2
  <1>5. Events(h) = Events(g)
    BY <1>3, <1>4 DEF Events
  <1>6. \A x : StoresTo(h, x) = StoresTo(g, x)
    BY <1>4 DEF StoresTo
  <1>7. ASSUME NEW e \in D
        PROVE  /\ DOMAIN h.lab[e] = LabelFields /\ SameLabel(g.lab[e], h.lab[e]) /\ h.lab[e].stamp = g.lab[e].stamp
               /\ h.lab[e].rf = co_max(g, Addr(g, e))
    <2>1. h.lab[e] = [Lab(g, e) EXCEPT !.rf = co_max(g, Addr(g, e)), !.max = TRUE,
                                       !.ipr = Lab(g, co_max(g, Addr(g, e))).stamp > Lab(g, e).stamp]
      BY <1>3, <1>4, <1>d DEF repairRead
    <2>2. DOMAIN Lab(g, e) = LabelFields
      BY <1>1, <1>d DEF Lab
    <2> DEFINE a == Lab(g, e)
               m == co_max(g, Addr(g, e))
               b == Lab(g, m).stamp > a.stamp
    <2>3. h.lab[e] = [a EXCEPT !.rf = m, !.max = TRUE, !.ipr = b] /\ DOMAIN a = LabelFields /\ g.lab[e] = a
      BY <2>1, <2>2 DEF Lab
    <2> HIDE DEF a, m, b
    <2>4. DOMAIN h.lab[e] = LabelFields /\ SameLabel(a, h.lab[e]) /\ h.lab[e].stamp = a.stamp /\ h.lab[e].rf = m
      BY <2>3 DEF LabelFields, SameLabel
    <2> QED BY <2>3, <2>4 DEF m
  <1>8. ASSUME NEW e \in D PROVE h.lab[e].rf \in StoresTo(h, Addr(g, e)) /\ h.lab[e].rf # Bottom
    <2>1. Addr(g, e) \in Locs
      BY <1>d, <1>l
    <2>2. co_max(g, Addr(g, e)) \in StoresTo(g, Addr(g, e))
      BY <2>1, <1>g, CoMaxFacts
    <2> QED BY <2>1, <2>2, <1>6, <1>7, <1>g, NotBottom
  <1>9. ASSUME NEW e \in Events(g) PROVE Relabelled(g, h, e)
    <2>1. CASE e \in D
      BY <2>1, <1>7, <1>8, <1>n DEF Relabelled, Lab, Addr
    <2>2. CASE e \notin D
      <3>1. h.lab[e] = g.lab[e]
        BY <2>2, <1>3, <1>4
      <3> QED BY <3>1, <1>1 DEF Relabelled, SameLabel
    <2> QED BY <2>1, <2>2
  <1>10. \A x \in Locs :
           /\ h.co[x] \in Seq(Events(g)) /\ Injective(h.co[x])
           /\ \A k \in 1 .. Len(h.co[x]) : g.lab[h.co[x][k]].kind = "W" /\ g.lab[h.co[x][k]].ins.loc = x
           /\ StoresTo(g, x) \subseteq StoresTo(h, x)
    BY <1>4, <1>6, <1>g, CoherenceKept
  <1>11. Revised(g, h)
    BY <1>1, <1>4, <1>5, <1>9, <1>10 DEF Revised
  <1>12. NoneDangles(h)
    BY <1>8, <1>x, <1>11, RevisedReworked DEF Dangles, Lab
  <1> QED BY <1>4, <1>11, <1>12

=============================================================================
