---------------------------- MODULE MCPctRuntime ----------------------------
(***************************************************************************)
(* User programs for model checking the pctwm runtime.  Thread 1 is main;  *)
(* objects 11 and 12 are mutexes, 21 and 22 condition variables.           *)
(***************************************************************************)
EXTENDS PctProperties

Create(t) == Op("create", t, 0)
Join(t)   == Op("join", t, 0)
Lock(x)   == Op("lock", x, 0)
Unlock(x) == Op("unlock", x, 0)
Do(k)     == Op(k, 0, 0)
TryLock(x, skip) == [Op("trylock", x, 0) EXCEPT !.n = skip]
Wait(c, x) == Op("wait", c, x)
SetFlag(o) == [o EXCEPT !.sets = TRUE]

(* Main starts two threads, does its own part and joins them. *)
Main(body) == <<Create(2), Create(3)>> \o body \o <<Join(2), Join(3)>>
Programs3(B) == {<<Main(b[1]), b[2], b[3]>> : b \in [1 .. 3 -> B]}

Section(x, body) == <<Lock(x)>> \o body \o <<Unlock(x)>>

MutexBodies == {
  Section(11, <<Do("read")>>),
  Section(11, <<Do("rmwr")>>) \o Section(11, <<>>),
  <<Do("read")>> \o Section(11, <<Do("sleep"), Do("read")>>),
  <<TryLock(11, 2), Do("read"), Unlock(11)>>,
  <<Do("store")>> \o Section(11, <<Do("yield")>>),
  Section(11, Section(12, <<Do("read")>>)),
  Section(12, Section(11, <<>>)),
  <<Lock(11)>> }

MutexPrograms == Programs3(MutexBodies)

\* Atomics of every counted and uncounted kind, no blocking operation but join.
AtomicBodies == {
  <<Do("read"), Do("relstore"), Do("read")>>,
  <<Do("rmwr"), Do("rmwr")>>,
  <<Do("scstore"), Do("read")>>,
  <<Do("fence"), Do("store"), Do("rmwr")>>,
  <<Do("relstore"), Do("relstore")>> }
AtomicPrograms == Programs3(AtomicBodies)

\* Two threads wait on 21 until main, or one of them, sets the flag.
Waiter == <<Lock(11), Wait(21, 11), Do("read"), Unlock(11)>>
Timed  == <<Lock(11), Op("timedwait", 21, 11), Do("read")>>
Setter(k, body) == <<SetFlag(Lock(11))>> \o body \o <<Op(k, 21, 0), Unlock(11)>>
CondPrograms ==
  {<<Main(Setter("notify_all", b)), Waiter, w>> : b \in {<<>>, <<Do("read")>>},
      w \in {Waiter, Section(11, <<Do("rmwr")>>), <<Do("sleep"), Do("read")>>}}
  \cup {<<Main(Setter("notify_one", <<>>)), Waiter, w>> :
      w \in {Section(11, <<Do("read")>>), <<Do("yield"), Lock(11), Op("notify_one", 21, 0), Unlock(11)>>}}
  \cup {<<Main(Setter("notify_all", <<>>)), Timed, <<Do("read")>>>>}
  \cup {<<Main(<<Do("exit")>>), Waiter, Setter("notify_all", <<>>)>>}
  \cup {<<Main(<<Do("sleep"), SetFlag(Do("store")), Op("futexwake", 0, 0)>>),
          <<Op("futexwait", 0, 0), Do("read")>>, <<Do("read")>>>>}

AllPrograms == MutexPrograms \cup AtomicPrograms \cup CondPrograms

\* Main starts one thread and does not wait for it.
Go2(body) == <<Create(2)>> \o body

\* A store of a change point is executed when its thread is alone.
LateStore == <<Main(<<>>), <<Do("scstore"), Lock(11), Unlock(11)>>, <<Do("read")>> \o Section(11, <<Do("sleep")>>)>>
OnlyLateStore == {LateStore}
\* Main fails an assertion right after it has created a thread.
AssertFails == <<Go2(<<Do("assert"), Do("read")>>), <<Do("store")>>, <<>>>>

\* Spinning on an atomic, the flag set by another thread.
SpinPrograms ==
  {<<Main(<<SetFlag(Do("read"))>>), <<Do("spin")>>, b>> : b \in {<<Do("spin")>>, Section(11, <<Do("read")>>)}}
  \cup {<<Go2(<<SetFlag(Do("relstore")), Join(2)>>), <<Do("spin"), Do("rmwr")>>, <<>>>>}
  \cup {AssertFails}
=============================================================================
