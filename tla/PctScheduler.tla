---------------------------- MODULE PctScheduler ----------------------------
(***************************************************************************)
(* The Scheduler class of pctwm (schedule.cc): which threads are enabled,  *)
(* and the PCT priorities, kept in two vectors.  highvec holds the threads *)
(* at their initial (random) priority, the first entry being the highest.  *)
(* A thread that reaches the k-th priority change point moves to slot k of *)
(* lowvec; every slot of lowvec ranks below all of highvec.  The vectors   *)
(* are the record p == [high, low], the enabled array the function en.     *)
(* Slots are numbered from 1 here; an empty slot holds NoThread.           *)
(***************************************************************************)
EXTENDS Integers, Sequences, FiniteSets

CONSTANTS
  MaxThreads,   \* bound on the threads an execution creates, MAIN included
  BugDepth,     \* params->bugdepth: the number of priority change points
  MaxInstr      \* params->maxinstr: change points are drawn below it

ASSUME PctParams ==
  /\ MaxThreads \in Nat \ {0}
  /\ BugDepth \in Nat
  /\ MaxInstr \in Nat \ {0}
  \* otherwise set_chg_pts_byread looks forever for a value not yet drawn
  /\ BugDepth <= (IF MaxInstr = 1 THEN 1 ELSE MaxInstr - 1)

Threads  == 1 .. MaxThreads
NoThread == -1

(* enabled_type_t *)
Disabled == "disabled"
Enabled  == "enabled"
SleepSet == "sleep"

(* schelen_limit: when the number of counted instructions is a multiple of *)
(* it, or more than ten times it, the next thread is drawn at random.      *)
ScheLenLimit == 2 * MaxInstr

(* ModelExecution keeps 5 * params->maxinstr as its own maxinstr and       *)
(* stops re-pending and reading locally above twice that.                  *)
CountLimit == 10 * MaxInstr

(* Beyond this many counted instructions no test of instrnum changes any   *)
(* more, so the counter is not counted further.                            *)
InstrCap == 10 * ScheLenLimit + 1

-----------------------------------------------------------------------------
(* lowvec of the constructor: resize(bugdepth, -1) clears every slot, while *)
(* resize(1) leaves the zero of bzero, the id of the model thread.          *)
InitLow == IF BugDepth > 1 THEN [i \in 1 .. BugDepth |-> NoThread] ELSE <<0>>

(* set_chg_pts_byread: distinct values of getRandom(maxinstr), sorted.      *)
RandomRange == 1 .. (IF MaxInstr = 1 THEN 1 ELSE MaxInstr - 1)
ChangePoints ==
  {c \in [1 .. BugDepth -> RandomRange] :
     \A i, j \in 1 .. BugDepth : i < j => c[i] < c[j]}

(* find_chgidx, 0 when the count is at no change point *)
FindChgIdx(chg, n) ==
  IF \E i \in DOMAIN chg : chg[i] = n
    THEN CHOOSE i \in DOMAIN chg : chg[i] = n
    ELSE 0

(* highvec_addthread: the new thread takes position pos, the threads from   *)
(* there on move down by one.                                               *)
HighAddThread(p, pos, t) ==
  [p EXCEPT !.high = [i \in 1 .. Len(p.high) + 1 |->
                        IF i < pos THEN p.high[i]
                        ELSE IF i = pos THEN t ELSE p.high[i - 1]]]

(* Clears the first slot of v that holds t. *)
ClearFirst(v, t) ==
  IF \E i \in DOMAIN v : v[i] = t
    THEN LET f == CHOOSE i \in DOMAIN v :
                    /\ v[i] = t
                    /\ \A j \in DOMAIN v : v[j] = t => i <= j
         IN [v EXCEPT ![f] = NoThread]
    ELSE v

\* A mutant: a thread in highvec is copied, not moved.
MoveKeepingHigh(p, idx, t) ==
  [p EXCEPT !.low = [ClearFirst(p.low, t) EXCEPT ![idx] = t]]

(* movethread: t leaves its slot of highvec, or of lowvec when it was moved *)
(* before, and takes slot idx of lowvec.                                    *)
MoveThread(p, idx, t) ==
  IF \E i \in DOMAIN p.high : p.high[i] = t
    THEN [high |-> ClearFirst(p.high, t), low |-> [p.low EXCEPT ![idx] = t]]
    ELSE [p EXCEPT !.low = [ClearFirst(p.low, t) EXCEPT ![idx] = t]]

(* The entry of v nearest to the front that is in avail, or none. *)
FirstOf(v, avail, none) ==
  IF \E i \in DOMAIN v : v[i] \in avail
    THEN v[CHOOSE i \in DOMAIN v :
             v[i] \in avail /\ \A j \in DOMAIN v : v[j] \in avail => i <= j]
    ELSE none

\* A mutant: the demoted threads come first.
FindLowest(p, avail) == FirstOf(p.low, avail, FirstOf(p.high, avail, 0))

(* find_highest: thread 0, the model thread, when no available thread has a *)
(* priority.                                                                *)
FindHighest(p, avail) == FirstOf(p.high, avail, FirstOf(p.low, avail, 0))

EnabledSet(en)  == {t \in DOMAIN en : en[t] = Enabled}
SleepingSet(en) == {t \in DOMAIN en : en[t] = SleepSet}

(* get_highest_thread *)
HighestThread(p, en) ==
  LET avail == EnabledSet(en)
  IN IF Cardinality(avail) = 1
       THEN CHOOSE t \in avail : TRUE
       ELSE FirstOf(p.high, avail, FirstOf(p.low, avail, NoThread))

\* A mutant: priorities are never given up.
NeverDraw(instr) == FALSE

(* The test of select_next_thread that gives priorities up: the program is  *)
(* taken to be in a livelock.                                               *)
DrawAtRandom(instr) ==
  \/ instr % ScheLenLimit = 0 /\ instr # 0
  \/ instr > 10 * ScheLenLimit

(* The slots, of either vector, that hold t. *)
Slots(p, t) ==
  {<<"high", i>> : i \in {i \in DOMAIN p.high : p.high[i] = t}}
    \cup {<<"low", i>> : i \in {i \in DOMAIN p.low : p.low[i] = t}}
=============================================================================
