----------------------------- MODULE MCThreadPool -----------------------------
(* Finite instances of ThreadPool: a small tree of items.                  *)
EXTENDS ThreadPool

\* The root finds a forward revisit (1), three backward revisits (2, 3 and
\* the invalid 4); item 2 finds one more backward revisit (5).
MCItems == 0 .. 5
MCRoot == 0
MCRevisits == [x \in MCItems |-> CASE x = 0 -> {1, 2, 3, 4}
                                   [] x = 2 -> {5}
                                   [] OTHER -> {}]
MCBackward == {2, 3, 4, 5}
MCValid == {0, 1, 2, 3, 5}
MCNoBug == {}
MCBugs == {2, 3}

\* Enough backward revisits to fill the backlog of two workers.
BigItems == 0 .. 6
BigRevisits == [x \in BigItems |-> CASE x = 0 -> {1, 2, 3, 4}
                                     [] x = 1 -> {5, 6}
                                     [] OTHER -> {}]
BigBackward == 1 .. 6
BigValid == BigItems \ {4}
===============================================================================
