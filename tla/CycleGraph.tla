----------------------------- MODULE CycleGraph -----------------------------
(***************************************************************************)
(* The modification-order graph of pctwm (cyclegraph.cc).  Its nodes are   *)
(* stores, <<thread, sequence number>>; an edge <<a, b>> says that a comes *)
(* before b in the modification order of their location.  Reachability is  *)
(* never searched for: each node has a clock vector that is meant to hold, *)
(* for each thread, the newest store of it that reaches the node.          *)
(* A graph is a record: cv is a function on the nodes made so far, edges a *)
(* set of pairs, and rmw maps a store to the read-modify-write that reads  *)
(* from it.                                                                *)
(***************************************************************************)
EXTENDS Integers, FiniteSetsExt, TLC

CONSTANT Threads

Clocks == [Threads -> Nat]
Bottom == [t \in Threads |-> 0]
Merge(c, d) == [t \in Threads |-> IF c[t] >= d[t] THEN c[t] ELSE d[t]]

EmptyGraph == [cv |-> <<>>, edges |-> {}, rmw |-> <<>>]

(* getNode: nodes are made when they are first asked for. *)
GetNode(g, a) ==
  IF a \in DOMAIN g.cv THEN g
  ELSE [g EXCEPT !.cv = @ @@ (a :> [Bottom EXCEPT ![a[1]] = a[2]])]

(* checkReachable of two actions: the clock vector of the second covers the *)
(* first.  An action with no node reaches nothing.                          *)
CheckReachable(g, a, b) == {a, b} \subseteq DOMAIN g.cv /\ a[2] <= g.cv[b][a[1]]

\* A mutant: only the node at the end of the new edge learns of it.
TellNode(g, to, cv) == [g EXCEPT !.cv[to] = cv]

(* The clock vectors when to's has become cv: a node whose vector changed   *)
(* hands it on along its edges.                                             *)
Propagate(g, to, cv) ==
  LET spread[c \in [DOMAIN g.cv -> Clocks]] ==
        LET Givers(n) == {m \in DOMAIN c : <<m, n>> \in g.edges /\ c[m] # g.cv[m]}
            next == [n \in DOMAIN c |->
                       [t \in Threads |->
                          CHOOSE x \in {c[m][t] : m \in Givers(n) \cup {n}} :
                            \A m \in Givers(n) \cup {n} : c[m][t] <= x]]
        IN IF next = c THEN c ELSE spread[next]
  IN [g EXCEPT !.cv = spread[[@ EXCEPT ![to] = cv]]]

\* A mutant: the edge starts at the store itself.
StoreItself(g, a, to) == a

(* The end of the chain of read-modify-writes that starts at a, or the last *)
(* one before to.                                                           *)
ChainEnd(g, a, to) ==
  LET end[n \in DOMAIN g.cv] ==
        IF n \in DOMAIN g.rmw /\ g.rmw[n] # to THEN end[g.rmw[n]] ELSE n
  IN end[a]

(* addNodeEdge, for nodes that exist *)
AddNodeEdge(g, a, b, force) ==
  IF CheckReachable(g, a, b) /\ ~force THEN g
  ELSE LET from == ChainEnd(g, a, b)
       IN Propagate([g EXCEPT !.edges = @ \cup {<<from, b>>}], b, Merge(g.cv[b], g.cv[from]))

AddEdge(g, a, b, force) == AddNodeEdge(GetNode(GetNode(g, a), b), a, b, force)

(* addRMWEdge: rmw takes the place of a, whose outgoing edges it takes over. *)
AddRMWEdge(g, a, rmw) ==
  LET h == GetNode(GetNode(g, a), rmw)
      moved == {IF e[1] = a THEN <<rmw, e[2]>> ELSE e : e \in h.edges} \ {<<rmw, rmw>>}
  IN AddNodeEdge([h EXCEPT !.edges = moved, !.rmw = @ @@ (a :> rmw)], a, rmw, TRUE)

(* addEdges: an edge to b from each store of A that reaches no other one    *)
(* of A, forced between stores of one thread.                               *)
AddEdges(g, A, b) ==
  LET h == FoldSet(LAMBDA a, f : GetNode(f, a), g, A)
      Newest == {a \in A : \A c \in A \ {a} : ~CheckReachable(h, a, c)}
  IN FoldSet(LAMBDA a, f : AddEdge(f, a, b, a[1] = b[1]), h, Newest)

-----------------------------------------------------------------------------
(* The pairs of nodes that a path joins: what the clock vectors stand for.  *)
Paths(g) ==
  LET close[R \in SUBSET ((DOMAIN g.cv) \X (DOMAIN g.cv))] ==
        LET S == R \cup {<<pq[1][1], pq[2][2]>> : pq \in {pq \in R \X R : pq[1][2] = pq[2][1]}}
        IN IF S = R THEN R ELSE close[S]
  IN close[g.edges]
=============================================================================
