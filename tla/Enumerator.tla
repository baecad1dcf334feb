----------------------------- MODULE Enumerator -----------------------------
(***************************************************************************)
(* The abstract specification of a stateless model checker: it visits      *)
(* elements of a set, in any order, each of them at most once, and is done *)
(* when all that are wanted have been visited.  The others are counted     *)
(* apart.                                                                  *)
(***************************************************************************)
EXTENDS Integers

VARIABLES
    all,       \* what is there to visit; it never changes
    wanted,    \* what of it has to be visited
    visited,
    count,     \* how many visits were counted,
    extra,     \* and how many of elements not wanted
    done

Init == visited = {} /\ count = 0 /\ extra = 0 /\ done = FALSE

Visit(e) ==
    /\ ~ done
    /\ e \in all \ visited
    /\ visited' = visited \cup {e}
    /\ IF e \in wanted THEN count' = count + 1 /\ extra' = extra
       ELSE extra' = extra + 1 /\ count' = count
    /\ UNCHANGED <<all, wanted, done>>

Finish ==
    /\ wanted \subseteq visited
    /\ done' = TRUE
    /\ UNCHANGED <<all, wanted, visited, count, extra>>

Next == (\E e \in all : Visit(e)) \/ Finish

Spec == Init /\ [][Next]_<<all, wanted, visited, count, extra, done>>

=============================================================================
