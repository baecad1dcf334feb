--------------------------- MODULE C11Properties ---------------------------
(***************************************************************************)
(* What an execution pctwm builds owes to the C++ memory model, stated     *)
(* with happens-before and modification order as relations, where the code *)
(* has clock vectors.                                                      *)
(***************************************************************************)
EXTENDS C11Model

(* The release sequences rf is in: rf, and what it read if it is a          *)
(* read-modify-write, and so on.                                            *)
ReleaseHeads(n) ==
  LET heads[m \in Actions] == {m} \cup IF acts[m].k = "rmw" THEN heads[acts[m].rf] ELSE {}
  IN heads[n]

(* Release operations a read of n synchronises with. *)
ReleaseSide(n) ==
  UNION {IF IsRelease(acts[h]) THEN {h}
         ELSE {f \in 1 .. h : acts[f].t = acts[h].t /\ acts[f].k = "fence" /\ IsRelease(acts[f])} :
         h \in ReleaseHeads(n)}

(* What is directly before action n: in its thread, by thread creation or   *)
(* join, or by synchronisation with a load n does or an acquire fence n     *)
(* follows.                                                                 *)
DirectlyBefore(n) ==
  LET a == acts[n] IN
  {m \in 1 .. n - 1 : acts[m].t = a.t}
    \cup {m \in 1 .. Cardinality(Locs) : m < n}
    \cup (IF a.k = "join" THEN {m \in 1 .. n - 1 : acts[m].t = a.x} ELSE {})
    \cup (IF IsRead(a) /\ IsAcquire(a) THEN ReleaseSide(a.rf) ELSE {})
    \cup (IF a.k = "fence" /\ IsAcquire(a)
            THEN UNION {ReleaseSide(acts[r].rf) : r \in {r \in 1 .. n : acts[r].t = a.t /\ IsRead(acts[r])}}
            ELSE {})

HbBefore ==
  LET hb[n \in Actions] == DirectlyBefore(n) \cup UNION {hb[m] : m \in DirectlyBefore(n)}
  IN hb

(* The clock vectors are exactly happens-before: what get_hb_from_write,    *)
(* the acquire fences' acq_fence_cv and the joins accumulate is neither too *)
(* little nor too much.                                                     *)
HbExact ==
  \A n \in Actions : \A m \in 1 .. n - 1 : HappensBefore(m, acts[n].cv) <=> m \in HbBefore[n]

(* Store m comes before store n in modification order, as far as it is      *)
(* decided.                                                                 *)
MoPairs == {<<p[1][2], p[2][2]>> : p \in Paths(g)}

(* Nothing comes between a read-modify-write and the store it read: where   *)
(* addRMWEdge and the edges added later put them.                           *)
RmwAtomic ==
  \E mo \in {MoPairs} :
    \A n \in Actions : acts[n].k = "rmw" =>
      /\ <<acts[n].rf, n>> \in mo
      /\ ~\E m \in Actions : <<acts[n].rf, m>> \in mo /\ <<m, n>> \in mo

(* The modification order constraints never form a cycle, whichever stores  *)
(* process_read settled for, and leave read-modify-writes atomic.           *)
MoConsistent == RmwAtomic /\ \A n \in Actions : <<n, n>> \notin MoPairs

(* checkReachable answers from the clock vectors what a search along the    *)
(* edges would find, for the stores of one location.                        *)
ReachExact ==
  \E mo \in {MoPairs} :
    \A a, b \in DOMAIN g.cv :
      a # b /\ acts[a[2]].loc = acts[b[2]].loc => (CheckReachable(g, a, b) <=> <<a[2], b[2]>> \in mo)

(* The store an access stands for in modification order. *)
Seen(n) == IF IsWrite(acts[n]) THEN n ELSE acts[n].rf

(* Coherence, the four rules in one: of two accesses to a location ordered  *)
(* by happens-before, the later one sees, or is, the same store or one that *)
(* is decided to come later.  What pruned loads and skipped threads leave   *)
(* unsaid must follow from what is recorded.                                *)
Coherent ==
  \E mo \in {MoPairs}, hb \in {HbBefore} :
    \A n \in Actions : acts[n].loc \in Locs =>
      \A m \in hb[n] : acts[m].loc = acts[n].loc =>
        \/ <<Seen(m), Seen(n)>> \in mo
        \/ Seen(m) = Seen(n) /\ ~IsWrite(acts[n])

(* The rules of C++ 29.3 for seq_cst fences and stores: where one is        *)
(* between store m and access n (p4 to p7), n sees m or a later store, and  *)
(* the seq_cst stores of a location are ordered as executed.                *)
ScFences(t) == {f \in Actions : acts[f].t = t /\ acts[f].k = "fence" /\ IsSeqCst(acts[f])}
ScBetween(m, n) ==
  LET a == acts[m]
      b == acts[n]
  IN \/ \E f \in ScFences(b.t) : f < n /\ m < f /\ IsSeqCst(a) /\ IsRead(b)
     \/ \E f \in ScFences(a.t) : m < f /\ f < n /\ IsSeqCst(b) /\ IsRead(b)
     \/ \E f \in ScFences(a.t) : \E h \in ScFences(b.t) : m < f /\ f < h /\ h < n
     \/ IsSeqCst(a) /\ IsSeqCst(b) /\ IsWrite(b)
ScRules ==
  \E mo \in {MoPairs} :
    \A n \in Actions : \A m \in 1 .. n - 1 :
      /\ IsWrite(acts[m]) /\ acts[m].loc = acts[n].loc /\ ScBetween(m, n)
      => Seen(n) = m \/ <<m, Seen(n)>> \in mo

(* Whatever was read and stored so far, the next load finds a store it may  *)
(* read: the loop of process_read ends.                                     *)
NeverStuck ==
  \A t \in Threads :
    CanStep(t) /\ NextOp(t).k \in {"load", "rmw", "cas"} => Readable(t, NextOp(t), NewCv(t)) # {}
=============================================================================
