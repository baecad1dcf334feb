--------------------------- MODULE DriverInvariants ---------------------------
(***************************************************************************)
(* The inductive invariant of the search of module Driver, in named parts: *)
(* what holds of every execution graph on the stack or submitted to the    *)
(* pool, of every item of a worklist, and of the fields of the driver.     *)
(* Modules DriverGraphs and DriverProofs prove it.                         *)
(***************************************************************************)
EXTENDS Semantics

LabelFields ==
    {"kind", "pc", "ins", "val", "par", "rf", "stamp", "max", "rev", "ipr", "racy", "view"}

\* The labels of a thread are numbered from 0 without gaps.
Shape(p, g) ==
    /\ DOMAIN g = {"lab", "co", "ts"} /\ DOMAIN g.co = Locs /\ g.ts \in Nat
    /\ IsFiniteSet(Events(g)) /\ InitEvent \in Events(g)
    /\ \A e \in Events(g) : e \in (DOMAIN p) \X Nat
    /\ \A e \in Events(g) :
        /\ e[2] > 0 => prev(e) \in Events(g)
        /\ DOMAIN g.lab[e] = LabelFields /\ g.lab[e].pc \in Nat /\ g.lab[e].stamp \in Nat

\* Stamps are distinct, below the next stamp, and follow program order.
Stamps(g) ==
    \A e \in Events(g) :
        /\ Lab(g, e).stamp < g.ts
        /\ \A q \in Events(g) : q # e => Lab(g, q).stamp # Lab(g, e).stamp
        /\ e[2] > 0 => Lab(g, prev(e)).stamp < Lab(g, e).stamp

Injective(s) == \A j, k \in 1 .. Len(s) : s[j] = s[k] => j = k

AccessOps == {"load", "store", "fai", "cas"}

\* The kinds of labels; a load or store comes from an instruction of its thread.
Kinds(p, g) ==
    \A e \in Events(g) :
        LET lab == g.lab[e]
        IN  /\ e[2] = 0 <=> lab.kind \in {"init", "start"}
            /\ e = InitEvent => lab.kind = "init"
            /\ lab.kind = "block" => next(e) \notin Events(g)
            /\ lab.kind \in {"R", "W"} =>
                 /\ lab.pc \in DOMAIN p[e[1]] /\ lab.ins = p[e[1]][lab.pc] /\ lab.ins.op \in AccessOps
            /\ lab.kind = "R" => lab.ins.op # "store"

\* Coherence lists stores of its location, each at most once.
Coherence(g) ==
    \A x \in Locs :
        /\ g.co[x] \in Seq(Events(g))
        /\ \A k \in 1 .. Len(g.co[x]) : Lab(g, g.co[x][k]).kind = "W" /\ Addr(g, g.co[x][k]) = x
        /\ Injective(g.co[x])

Dangles(g, r) == Lab(g, r).rf = Bottom

\* A load reads a store of its location or, at the end of its thread, nothing yet.
ReadsFrom(g) ==
    \A r \in Events(g) : isRead(g, r) =>
        \/ Dangles(g, r) /\ next(r) \notin Events(g)
        \/ Lab(g, r).rf \in StoresTo(g, Addr(g, r))

\* Views are closed under program order and hold the predecessor of their label;
\* block labels have none.
ViewShape(g) ==
    \A e \in Events(g) :
        LET v == Lab(g, e).view
        IN  /\ EmptyView \subseteq v /\ v \subseteq Events(g) \cup EmptyView
            /\ \A q \in v : q[2] > 0 => prev(q) \in v
            /\ e[2] = 0 \/ Lab(g, e).kind = "block" => v = EmptyView
            /\ e[2] > 0 /\ Lab(g, e).kind # "block" => prev(e) \in v

\* What a label has in its view is older than the label, has a smaller view, and
\* a load in it comes with the store it reads.
ViewPast(g) ==
    \A e \in Events(g) : \A q \in Lab(g, e).view :
        q[2] > 0 =>
            /\ Lab(g, q).kind # "block" /\ Lab(g, q).stamp < Lab(g, e).stamp
            /\ Lab(g, q).view \subseteq Lab(g, e).view
            /\ isRead(g, q) => /\ Lab(g, q).rf \in Lab(g, e).view
                               /\ q[1] # e[1] => next(q) \in Lab(g, e).view

\* A load followed by a block label reads an older store; one that is followed by
\* anything else has read what its assume() waits for.
Blocked(g) ==
    \A r \in Events(g) : isRead(g, r) /\ next(r) \in Events(g) =>
        IF Lab(g, next(r)).kind = "block"
        THEN Lab(g, Lab(g, r).rf).stamp < Lab(g, next(r)).stamp
        ELSE isAnnotated(Lab(g, r).ins) /\ Lab(g, r).ins.op = "load" => getReadValue(g, r) = Lab(g, r).ins.ann

\* Nothing follows the end of a thread; a begin label has the place of its create
\* label.
BeginEnd(g) ==
    \A e \in Events(g) :
        /\ Lab(g, e).kind = "finish" => next(e) \notin Events(g)
        /\ Lab(g, e).kind = "start" =>
             Lab(g, e).par = <<Lab(g, e).par[1], Lab(g, e).par[2]>> /\ Lab(g, e).par[2] \in Nat \ {0}

EndOf(g, j, f) == f \in Events(g) /\ f[1] = Lab(g, j).ins.child /\ Lab(g, f).kind = "finish"

\* A join comes after the end of its child, in the graph and in every view.
Joined(g) ==
    /\ \A j \in Events(g) : Lab(g, j).kind = "join" =>
         \E f \in Events(g) : EndOf(g, j, f) /\ Lab(g, f).stamp < Lab(g, j).stamp
    /\ \A e \in Events(g) : \A j \in Lab(g, e).view :
         j[2] > 0 /\ Lab(g, j).kind = "join" => \E f \in Lab(g, e).view : EndOf(g, j, f)

\* The view of a label is what happens before it, and nothing else.
Exact(g) == \A e \in Events(g) : Lab(g, e).kind # "block" => Lab(g, e).view = ViewBefore(g, e)

Synced(g) == BeginEnd(g) /\ Joined(g) /\ Exact(g)

GraphInv(p, g) ==
    /\ Shape(p, g) /\ Stamps(g) /\ Kinds(p, g) /\ Coherence(g) /\ ReadsFrom(g)
    /\ ViewShape(g) /\ ViewPast(g) /\ Blocked(g) /\ Synced(g)

NoneDangles(g) == \A r \in Events(g) : isRead(g, r) => ~ Dangles(g, r)

\* An item of a worklist: a store to the location of its load or store, older
\* than the label whose stamp the item has.
ItemOK(g, item, inPlace) ==
    /\ item.pos \in Events(g) /\ item.rev \in StoresTo(g, Addr(g, item.pos))
    /\ item.kind \in {"read", "write", "back"}
    /\ item.kind = "write" <=> Lab(g, item.pos).kind = "W"
    /\ item.kind = "write" => item.pos \in StoresTo(g, Addr(g, item.pos))
    /\ item.kind # "write" => Lab(g, item.pos).kind = "R"
    /\ item.kind # "back" => /\ Lab(g, item.pos).stamp = item.stamp
                             /\ item.rev # InitEvent => Lab(g, item.rev).stamp < item.stamp
    /\ item.kind = "read" /\ inPlace /\ Lab(g, item.pos).ins.op = "cas" /\ isAnnotated(Lab(g, item.pos).ins) =>
         getWriteValue(g, item.rev) = Lab(g, item.pos).ins.ann
    /\ item.kind = "back" => /\ item.rev # InitEvent /\ Lab(g, item.rev).stamp = item.stamp
                             /\ Lab(g, item.pos).stamp < item.stamp
                             /\ item.pos \notin prefixView(g, item.rev)

WorklistOK(g, wl, inPlace) == wl \in Seq(Range(wl)) /\ \A item \in Range(wl) : ItemOK(g, item, inPlace)

\* A graph on the execution stack with its worklist.  A load dangles only when
\* an error has been reported.
FrameOK(p, f, err, b) ==
    GraphInv(p, f.g) /\ WorklistOK(f.g, f.wl, b) /\ (err \/ NoneDangles(f.g))

TaskOK(p, g) == GraphInv(p, g) /\ NoneDangles(g)

StackOK(p, st, err, b) == st \in Seq(Range(st)) /\ \A f \in Range(st) : FrameOK(p, f, err, b)

TasksOK(p, ts) == ts \in Seq(Range(ts)) /\ \A g \in Range(ts) : TaskOK(p, g)

\* After an error nothing runs any more.
FieldsOK ==
    /\ prog \in Programs
    /\ policy \in {"ltr", "wf", "wfr", "arbitrary"}
    /\ error => phase = "idle" /\ tasks = <<>>
    /\ phase = "run" => stack # <<>>

DriverInv == FieldsOK /\ StackOK(prog, stack, error, ipr) /\ TasksOK(prog, tasks)

\* A BUG_ON aborts the program: nothing is said of what comes after one.
GoodOrBug == bug \/ DriverInv

=============================================================================
