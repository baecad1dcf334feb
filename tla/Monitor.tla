------------------------------ MODULE Monitor ------------------------------
(***************************************************************************)
(* What a program may expect of mutexes and condition variables: a mutex   *)
(* passes from one owner to the next only by being free in between, only   *)
(* its owner gives it up, and waiting on a condition variable releases the *)
(* mutex in the same step.  Waits may end at any time; a thread leaves the *)
(* waiting set without the mutex and has to acquire it again.              *)
(***************************************************************************)
EXTENDS Integers

CONSTANTS Thread, Object, Reentrant

VARIABLES
  owner,    \* the owner of each mutex, 0 for none
  waiting   \* the threads that wait on each condition variable

vars == <<owner, waiting>>

Init ==
  /\ owner = [m \in Object |-> 0]
  /\ waiting = [c \in Object |-> {}]

(* The waits of any number of threads end. *)
WaitsEnd == \A c \in Object : waiting'[c] \subseteq waiting[c]

Acquire(t, m) ==
  /\ owner[m] = 0 \/ (owner[m] = t /\ m \in Reentrant)
  /\ owner' = [owner EXCEPT ![m] = t]
  /\ WaitsEnd

Release(t, m) ==
  /\ owner[m] = t
  /\ owner' = [owner EXCEPT ![m] = 0]
  /\ WaitsEnd

Wait(t, c, m) ==
  /\ owner[m] = t
  /\ owner' = [owner EXCEPT ![m] = 0]
  /\ t \in waiting'[c]
  /\ \A d \in Object : waiting'[d] \subseteq waiting[d] \cup {u \in {t} : d = c}

Wake == WaitsEnd /\ UNCHANGED owner

(* The program starts over. *)
Restart == owner' = [m \in Object |-> 0] /\ waiting' = [c \in Object |-> {}]

Next ==
  \/ \E t \in Thread, m \in Object : Acquire(t, m) \/ Release(t, m)
  \/ \E t \in Thread, c, m \in Object : Wait(t, c, m)
  \/ Wake
  \/ Restart

Spec == Init /\ [][Next]_vars
=============================================================================
