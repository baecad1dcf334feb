-------------------------------- MODULE MCC11 --------------------------------
(***************************************************************************)
(* The litmus tests C11Model is checked on: two locations, main and up to  *)
(* three more threads.  Every store and read-modify-write stores 1, and    *)
(* the locations start as 0, so a cas that expects 0 finds it unless       *)
(* another thread came first.                                              *)
(***************************************************************************)
EXTENDS C11Properties

St(x, ord) == [Op("store", x, ord) EXCEPT !.v = 1]
Ld(x, ord) == Op("load", x, ord)
Rmw(x, ord) == [Op("rmw", x, ord) EXCEPT !.v = 1]
Cas(x, ord, e) == [Op("cas", x, ord) EXCEPT !.v = 1, !.e = e]
Fn(ord) == Op("fence", "none", ord)
Jn(t) == [Op("join", "none", "rlx") EXCEPT !.x = t]

None == <<>>
Test(a, b, c, d) == [ops |-> <<a, b, c, d>>, history |-> 0]
Bounded(p, n) == [p EXCEPT !.history = n]

(* Message passing, the payload x and the flag y: by orders, by fences,     *)
(* through a read-modify-write of another thread, by a cas, and through     *)
(* main's join.                                                             *)
Passing ==
  {Test(None, <<St("x", "rlx"), St("y", w)>>, <<Ld("y", r), Ld("x", "rlx")>>, None) :
     w \in {"rlx", "rel"}, r \in {"rlx", "acq"}}
  \cup {Test(None, <<St("x", "rlx"), Fn(w), St("y", "rlx")>>, <<Ld("y", "rlx"), Fn(r), Ld("x", "rlx")>>, None) :
           w \in {"rel", "sc"}, r \in {"acq", "sc"}}
  \cup {Test(None, <<St("x", "rlx"), St("y", "rel")>>, <<Rmw("y", o)>>, <<Ld("y", r), Ld("x", "rlx")>>) :
           o \in {"rlx", "rel", "acqrel"}, r \in {"acq", "sc"}}
  \cup {Test(None, <<St("x", "rlx"), Fn("rel"), St("y", "rlx")>>, <<Rmw("y", "rlx")>>, <<Ld("y", "rlx"), Fn("acq"), Ld("x", "rlx")>>)}
  \cup {Test(None, <<St("x", "rlx"), Cas("y", o, 0)>>, <<Cas("y", o, 0), Ld("x", "rlx")>>, None) :
           o \in {"rlx", "acqrel", "sc"}}
  \cup {Test(<<Jn(2), Ld("x", "rlx"), Jn(3), Ld("x", "rlx")>>, <<St("x", "rlx")>>, <<St("x", "rlx")>>, None)}

(* Coherence of one location under competing stores, read-modify-writes     *)
(* and readers.  A location with an rmw has at most one thread that reads   *)
(* it twice, or no other stores: Overtaken below is what happens otherwise. *)
Coherence ==
  {Test(None, <<St("x", "rlx"), Ld("x", "rlx")>>, <<St("x", "rlx"), b>>, <<Ld("x", "rlx"), Ld("x", "rlx")>>) :
     b \in {Ld("x", "rlx"), St("x", "rlx")}}
  \cup {Test(None, <<Rmw("x", o), Ld("x", "rlx")>>, <<Rmw("x", o), Ld("x", "rlx")>>, <<St("x", "rlx"), Ld("x", "rlx")>>) :
           o \in {"rlx", "sc"}}
  \cup {Test(None, <<Rmw("x", "rlx"), Rmw("x", "rlx")>>, <<Cas("x", "rlx", 0), St("x", "rlx")>>, <<Ld("x", "rlx"), Ld("x", "rlx")>>)}
  \cup {Test(None, <<Rmw("x", "rlx"), Ld("x", "rlx")>>, <<Cas("x", "rlx", 1), Ld("x", "rlx")>>, <<Ld("x", "rlx"), Rmw("x", "rlx")>>)}

(* Store buffering, 2+2W and independent reads: what seq_cst forbids.       *)
Ordered ==
  {Test(None, <<St("x", a), Ld("y", b)>>, <<St("y", a), Ld("x", b)>>, None) :
     a \in {"rel", "sc"}, b \in {"rlx", "sc"}}
  \cup {Test(None, <<St("x", "rlx"), Fn(a), Ld("y", "rlx")>>, <<St("y", o), Fn(b), Ld("x", o)>>, None) :
           a \in {"sc"}, b \in {"rel", "sc"}, o \in {"rlx", "sc"}}
  \cup {Test(None, <<St("x", o), f, St("y", o)>>, <<St("y", o), f, St("x", o)>>, None) :
           o \in {"rlx", "sc"}, f \in {Fn("rel"), Fn("sc")}}
  \cup {Test(<<St("x", o)>>, <<St("y", o)>>, <<Ld("x", o), Ld("y", o)>>, <<Ld("y", o), Ld("x", o)>>) :
           o \in {"sc"}}
  \cup {Test(None, <<St("x", "sc"), Rmw("x", "sc")>>, <<Ld("x", "sc"), Ld("x", "sc")>>, <<St("x", "sc"), Ld("x", "sc")>>)}

(* All tests of two threads with two accesses each, relaxed or seq_cst and  *)
(* with a seq_cst fence in between or none, the first a store of x.         *)
Pairs(First) ==
  {IF f THEN <<Op(a[1], a[2], o), Fn("sc"), Op(b[1], b[2], o)>> ELSE <<Op(a[1], a[2], o), Op(b[1], b[2], o)>> :
     a \in First, b \in {"store", "load"} \X Locs, o \in {"rlx", "sc"}, f \in BOOLEAN}
TwoByTwo ==
  {Test(None, p, q, None) : p \in Pairs({<<"store", "x">>}), q \in Pairs({"store", "load"} \X Locs)}

Litmus == Passing \cup Coherence \cup Ordered \cup TwoByTwo \cup {Bounded(p, 1) : p \in Coherence}

(* Thread 3's store comes before the rmw it reads, so before the store the  *)
(* rmw replaced, which the fourth thread reads first.                       *)
Overtaken ==
  {Test(None, <<St("x", "rlx"), Rmw("x", "rlx")>>, <<St("x", "rlx"), Ld("x", "rlx")>>, <<Ld("x", "rlx"), Ld("x", "rlx")>>)}

(* Main reads and replaces the value it initialised x with.                 *)
InitReplaced == {Test(<<Rmw("x", "rlx")>>, <<St("x", "rlx"), Ld("x", "rlx")>>, None, None)}
=============================================================================
