------------------------------ MODULE C11Model ------------------------------
(***************************************************************************)
(* The memory model of pctwm (execution.cc): atomic operations take effect *)
(* one at a time in the order the scheduler runs them, a load may read an  *)
(* old store, and the modification-order graph, clock vectors and the      *)
(* order of sequentially consistent operations decide which.               *)
(*                                                                         *)
(* An action is known by its sequence number, its place in the trace acts. *)
(* The lists the code keeps per location and thread (obj_thrd_map,         *)
(* obj_wr_thrd_map), the last fences and the last seq_cst store are parts  *)
(* of that trace and are read off it.  The scheduler may run any thread.   *)
(* The local vectors and bags of the local-read heuristic only narrow down *)
(* the choice of a store and are left out: a load may take any store that  *)
(* process_read may take.                                                  *)
(***************************************************************************)
EXTENDS CycleGraph, Sequences

CONSTANTS
  Locs,      \* atomic variables
  Programs   \* tests: ops[t] is what thread t executes; history is params->history,
             \* the stores of each thread a load looks back over, 0 for all

(* An operation of a test: k is "store", "load", "rmw", "cas", "fence" or   *)
(* "join"; v is the value stored, e the value a cas expects, x the thread   *)
(* joined.                                                                  *)
Op(k, loc, ord) == [k |-> k, loc |-> loc, ord |-> ord, v |-> 0, e |-> 0, x |-> 0]

VARIABLES
  prog,  \* the test
  pc,    \* how many of its operations each thread has executed
  acts,  \* action_trace
  acq,   \* acq_fence_cv of each thread: what an acquire fence will synchronise with
  g      \* mo_graph

vars == <<prog, pc, acts, acq, g>>

Main == 1

ASSUME C11Assumption == Main \in Threads /\ IsFiniteSet(Locs) /\ Locs # {}

(* Predicates of ModelAction.  An rmw is read and store at once; a cas that *)
(* failed has become a load.                                                *)
IsRead(a)    == a.k \in {"load", "rmw"}
IsWrite(a)   == a.k \in {"store", "rmw"}
IsAcquire(a) == a.ord \in {"acq", "acqrel", "sc"}
IsRelease(a) == a.ord \in {"rel", "acqrel", "sc"}
IsSeqCst(a)  == a.ord = "sc"

Actions == DOMAIN acts
Node(n) == <<acts[n].t, n>>

(* The actions of thread t on a location that satisfy P. *)
ListOf(t, loc) == {n \in Actions : acts[n].t = t /\ acts[n].loc = loc}
Newest(S) == CHOOSE n \in S : \A m \in S : m <= n

(* obj_thrd_map and obj_wr_thrd_map *)
ObjThrd(t, loc)   == {n \in ListOf(t, loc) : ~acts[n].pruned}
ObjWrThrd(t, loc) == {n \in ListOf(t, loc) : IsWrite(acts[n])}

(* get_last_fence_release, get_last_seq_cst_fence and get_last_seq_cst_write *)
(* as sets with at most one element, before sequence number n.               *)
Last(S) == IF S = {} THEN {} ELSE {Newest(S)}
LastFenceRelease(t, n) ==
  Last({f \in 1 .. n - 1 : acts[f].t = t /\ acts[f].k = "fence" /\ IsRelease(acts[f])})
LastSeqCstFence(t, n) ==
  Last({f \in 1 .. n - 1 : acts[f].t = t /\ acts[f].k = "fence" /\ IsSeqCst(acts[f])})
LastSeqCstWrite(loc, n) ==
  Last({w \in 1 .. n - 1 : acts[w].loc = loc /\ IsWrite(acts[w]) /\ IsSeqCst(acts[w])})

(* happens_before of action n and an action with clock vector cv *)
HappensBefore(n, cv) == n <= cv[acts[n].t]

(* get_parent_action: a thread goes on from its own last action, or from    *)
(* the one that created it, which follows the initialisations by main.      *)
Parent(t) ==
  LET own == {n \in Actions : acts[n].t = t}
  IN IF own # {} THEN Newest(own) ELSE Cardinality(Locs)
NextSeq == Len(acts) + 1
NewCv(t) == [acts[Parent(t)].cv EXCEPT ![t] = NextSeq]

-----------------------------------------------------------------------------
\* A mutant: a read-modify-write ends the release sequence.
HbOfRfOnly(n) ==
  LET a == acts[n]
      own == IF IsRelease(a) THEN {n} ELSE LastFenceRelease(a.t, n)
  IN IF own = {} THEN Bottom ELSE acts[CHOOSE f \in own : TRUE].cv

(* get_hb_from_write: what an acquire that reads n synchronises with.  A    *)
(* release store hands on its own clock vector, another one that of the     *)
(* last release fence before it; a read-modify-write hands on what the      *)
(* store it read does as well.  (The code keeps the result in rf_cv; what   *)
(* it is made from never changes.)                                          *)
GetHbFromWrite(n) ==
  LET hb[m \in Actions] ==
        LET a   == acts[m]
            own == IF IsRelease(a) THEN {m} ELSE LastFenceRelease(a.t, m)
            cv  == IF own = {} THEN Bottom ELSE acts[CHOOSE f \in own : TRUE].cv
        IN IF a.k = "rmw" /\ ~(IsAcquire(a) /\ IsRelease(a)) THEN Merge(hb[a.rf], cv) ELSE cv
  IN hb[n]

-----------------------------------------------------------------------------
\* A mutant: a seq_cst load may not read any seq_cst store.
NoSeqCst(o, n) ==
  /\ IsSeqCst(o) =>
       \A s \in LastSeqCstWrite(o.loc, NextSeq) :
         ~(IsSeqCst(acts[n]) \/ HappensBefore(n, acts[s].cv))
  /\ o.k = "rmw" \/ (o.k = "cas" /\ acts[n].v = o.e) => Node(n) \notin DOMAIN g.rmw

(* build_may_read_from: the stores thread t's operation o with clock vector *)
(* cv may read, in each thread from the newest back to the first that       *)
(* happens before.                                                          *)
AllowRead(o, n) ==
  /\ IsSeqCst(o) =>
       \A s \in LastSeqCstWrite(o.loc, NextSeq) :
         n = s \/ ~(IsSeqCst(acts[n]) \/ HappensBefore(n, acts[s].cv))
  /\ o.k = "rmw" \/ (o.k = "cas" /\ acts[n].v = o.e) => Node(n) \notin DOMAIN g.rmw

MayReadFrom(o, cv) ==
  UNION {LET L == ObjWrThrd(u, o.loc)
         IN {n \in L :
               /\ AllowRead(o, n)
               /\ ~\E m \in L : m > n /\ HappensBefore(m, cv)
               /\ prog.history > 0 => Cardinality({m \in L : m > n /\ AllowRead(o, m)}) < prog.history} :
         u \in Threads}

\* A mutant: two seq_cst fences order nothing between them.
NoFencePairs(t, o, u, n) ==
  /\ IsWrite(acts[n])
  /\ \/ /\ IsSeqCst(o) /\ u # t
        /\ \E f \in LastSeqCstFence(u, NextSeq) : n < f
     \/ \E f \in LastSeqCstFence(t, NextSeq) : IsSeqCst(acts[n]) /\ n < f

(* The conditions of C++ 29.3 p4 to p6 under which a store n of thread u    *)
(* comes before what thread t's operation o reads.                          *)
FenceOrders(t, o, u, n) ==
  /\ IsWrite(acts[n])
  /\ \/ /\ IsSeqCst(o) /\ u # t
        /\ \E f \in LastSeqCstFence(u, NextSeq) : n < f
     \/ \E f \in LastSeqCstFence(t, NextSeq) :
          \/ IsSeqCst(acts[n]) /\ n < f
          \/ \E h \in LastSeqCstFence(u, f) : n < h

(* r_modification_order: the action of thread u at which the scan for a     *)
(* read of rf stops, if any.                                                *)
StopsAt(t, o, cv, rf, u) ==
  Last({n \in ObjThrd(u, o.loc) :
          HappensBefore(n, cv) \/ (n # rf /\ FenceOrders(t, o, u, n))})

(* Threads whose scan is skipped: t knew as much of them at its own last    *)
(* access, and they have executed no seq_cst fence since.                   *)
Skipped(t, o, cv, rf, u) ==
  /\ u # t
  /\ \E p \in StopsAt(t, o, cv, rf, t) :
       /\ p # rf /\ ~FenceOrders(t, o, t, p)
       /\ \A f \in LastSeqCstFence(t, NextSeq) : f < p
       /\ acts[p].cv[u] = cv[u]
       /\ \A f \in LastSeqCstFence(u, NextSeq) : f < p

\* A mutant: a store is ordered, what was read before is not.
PriorStores(t, o, cv, rf, u) ==
  {n \in StopsAt(t, o, cv, rf, u) : n # rf /\ IsWrite(acts[n]) /\ ~Skipped(t, o, cv, rf, u)}

(* The store of u's scan that must come before rf in modification order.    *)
Prior(t, o, cv, rf, u) ==
  IF Skipped(t, o, cv, rf, u) THEN {}
  ELSE {IF IsWrite(acts[n]) THEN n ELSE acts[n].rf : n \in StopsAt(t, o, cv, rf, u)} \ {rf}

PriorSet(t, o, cv, rf) == UNION {Prior(t, o, cv, rf, u) : u \in Threads}

(* The stores process_read may settle for. *)
Readable(t, o, cv) ==
  {rf \in MayReadFrom(o, cv) :
     \A p \in PriorSet(t, o, cv, rf) : ~CheckReachable(g, Node(rf), Node(p))}

(* A plain load of what the thread's own last access read is not listed.    *)
CanPrune(t, o, cv, rf) ==
  \E n \in StopsAt(t, o, cv, rf, t) : acts[n].k = "load" /\ acts[n].rf = rf

-----------------------------------------------------------------------------
(* w_modification_order: the stores that must come before store n of thread *)
(* t.  A read-modify-write has what its own thread orders from its load.    *)
StoreOrders(a, n, u) ==
  LET t == a.t IN
  Last({m \in ObjThrd(u, a.loc) :
          \/ HappensBefore(m, a.cv)
          \/ /\ u # t /\ IsWrite(acts[m])
             /\ \E f \in LastSeqCstFence(t, n) : \E h \in LastSeqCstFence(u, f) : m < h})

EdgeSet(a, n) ==
  (IF IsSeqCst(a) THEN LastSeqCstWrite(a.loc, n) ELSE {})
    \cup UNION {{IF IsWrite(acts[m]) THEN m ELSE acts[m].rf : m \in StoreOrders(a, n, u)} :
                  u \in IF a.k = "rmw" THEN Threads \ {a.t} ELSE Threads}

WModificationOrder(gr, a, n) == AddEdges(gr, {Node(m) : m \in EdgeSet(a, n)}, <<a.t, n>>)

-----------------------------------------------------------------------------
Act(t, o, cv) ==
  [t |-> t, k |-> o.k, loc |-> o.loc, ord |-> o.ord, v |-> o.v, x |-> o.x, rf |-> 0,
   cv |-> cv, pruned |-> FALSE]

(* The graph with the edges of a read of rf. *)
ReadEdges(t, o, cv, rf) ==
  FoldSet(LAMBDA p, h : AddEdge(h, Node(p), Node(rf), FALSE), g, PriorSet(t, o, cv, rf))

Reading(t, o, cv, rf) ==
  [Act(t, o, cv) EXCEPT !.rf = rf, !.cv = IF IsAcquire(o) THEN Merge(cv, GetHbFromWrite(rf)) ELSE cv]

NextOp(t) == prog.ops[t][pc[t] + 1]
CanStep(t) == pc[t] < Len(prog.ops[t])
Step(t) == pc' = [pc EXCEPT ![t] = @ + 1] /\ UNCHANGED prog

Store(t) ==
  /\ CanStep(t) /\ NextOp(t).k = "store"
  /\ LET a == Act(t, NextOp(t), NewCv(t))
     IN /\ acts' = Append(acts, a)
        /\ g' = WModificationOrder(g, a, NextSeq)
  /\ Step(t) /\ UNCHANGED acq

(* process_read, of a load or a cas that fails *)
Load(t) ==
  /\ CanStep(t) /\ NextOp(t).k \in {"load", "cas"}
  /\ LET o == NextOp(t)
         cv == NewCv(t)
     IN \E rf \in Readable(t, o, cv) :
          /\ o.k = "cas" => acts[rf].v # o.e
          /\ acts' = Append(acts, [Reading(t, o, cv, rf) EXCEPT
                                     !.k = "load",
                                     !.pruned = o.k = "load" /\ CanPrune(t, o, cv, rf)])
          /\ acq' = [acq EXCEPT ![t] = Merge(@, GetHbFromWrite(rf))]
          /\ g' = ReadEdges(t, o, cv, rf)
  /\ Step(t)

(* The load of a read-modify-write and, before any other thread runs, its   *)
(* store: process_rmw and process_write.                                    *)
ReadModifyWrite(t) ==
  /\ CanStep(t) /\ NextOp(t).k \in {"rmw", "cas"}
  /\ LET o == NextOp(t)
         cv == NewCv(t)
     IN \E rf \in Readable(t, o, cv) :
          /\ o.k = "cas" => acts[rf].v = o.e
          /\ LET a == [Reading(t, o, cv, rf) EXCEPT !.k = "rmw"]
             IN /\ acts' = Append(acts, a)
                /\ g' = WModificationOrder(
                          AddRMWEdge(ReadEdges(t, o, cv, rf), Node(rf), <<t, NextSeq>>), a, NextSeq)
          /\ acq' = [acq EXCEPT ![t] = Merge(@, GetHbFromWrite(rf))]
  /\ Step(t)

(* process_fence *)
Fence(t) ==
  /\ CanStep(t) /\ NextOp(t).k = "fence"
  /\ LET o == NextOp(t)
         cv == NewCv(t)
     IN acts' = Append(acts, Act(t, o, IF IsAcquire(o) THEN Merge(cv, acq[t]) ELSE cv))
  /\ Step(t) /\ UNCHANGED <<acq, g>>

(* THREAD_JOIN: the clock vector of the joined thread's last action.        *)
Join(t) ==
  /\ CanStep(t) /\ NextOp(t).k = "join"
  /\ LET u == NextOp(t).x
     IN /\ ~CanStep(u)
        /\ acts' = Append(acts, Act(t, NextOp(t), Merge(NewCv(t), acts[Parent(u)].cv)))
  /\ Step(t) /\ UNCHANGED <<acq, g>>

(* Main initialises every location and then creates the other threads.      *)
LocSeq == CHOOSE s \in [1 .. Cardinality(Locs) -> Locs] : {s[i] : i \in DOMAIN s} = Locs
Init ==
  /\ prog \in Programs
  /\ pc = [t \in Threads |-> 0]
  /\ acts = [i \in 1 .. Cardinality(Locs) |->
               Act(Main, Op("store", LocSeq[i], "rlx"), [Bottom EXCEPT ![Main] = i])]
  /\ acq = [t \in Threads |-> Bottom]
  /\ g = EmptyGraph

Done == (\A t \in Threads : ~CanStep(t)) /\ UNCHANGED vars

Next ==
  \/ \E t \in Threads : Store(t) \/ Load(t) \/ ReadModifyWrite(t) \/ Fence(t) \/ Join(t)
  \/ Done

Spec == Init /\ [][Next]_vars
=============================================================================
