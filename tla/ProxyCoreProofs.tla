--------------------------- MODULE ProxyCoreProofs ---------------------------
(***************************************************************************)
(* ProxyCore's invariants, for any number of threads, objects, frames,     *)
(* raises and reloads.                                                     *)
(***************************************************************************)
EXTENDS ProxyCore, FiniteSetTheorems, SequenceTheorems, TLAPS

Kinds == {"call", "borrow", "release", "failed", "unwound"}
Pcs == {"enter", "entered", "running", "handler", "leave", "free", "drop", "deliver"}
Entries == [obj : Objects, exclusive : BOOLEAN, changed : BOOLEAN]
Frames == [kind : Kinds, pc : Pcs, todo : Seq(Entries), held : Seq(Entries), image : Nat,
           raises : Seq(Objects)]
Gates == [owner : Threads \cup {Open}, depth : Nat, exclusive : BOOLEAN]

Stacks == stack \in [Threads -> Seq(Frames)]

TypeOK ==
  /\ gate \in [Objects -> Gates]
  /\ live \in [Objects -> BOOLEAN] /\ pending \in [Objects -> BOOLEAN]
  /\ queue \in [Objects -> Nat] /\ pressure \in [Objects -> Nat] /\ bytes \in [Objects -> Nat]
  /\ drops \in [Objects -> Nat] /\ generation \in Nat \ {0} /\ made \in [Objects -> Nat]
  /\ Stacks

\* The entries a frame is inside, and those it has yet to make.
Held(f) == {f.held[j] : j \in DOMAIN f.held}
Todo(f) == {f.todo[j] : j \in DOMAIN f.todo}
HoldsIn(f, o) == \E e \in Held(f) : e.obj = o
Distinct(s) == \A j, k \in DOMAIN s : s[j].obj = s[k].obj => j = k

\* What a frame has left to do at each place in its run.
Shaped(f) ==
  /\ f.pc = "enter" => /\ f.todo # <<>> /\ f.raises = <<>>
                       /\ Len(f.todo) + Len(f.held) <= 2
                       /\ f.kind = "release" => Len(f.todo) = 1 /\ f.held = <<>>
                       /\ f.kind \in {"call", "borrow", "release"}
  /\ f.pc # "enter" => f.todo = <<>>
  /\ f.pc \in {"entered", "running"} => f.kind \in {"call", "borrow"}
  /\ f.pc \in {"entered", "running", "free", "drop", "leave"} => f.held # <<>>
  /\ f.pc \in {"deliver", "handler"} => f.held = <<>> /\ f.kind \in {"call", "borrow"}
  /\ f.pc = "handler" => f.raises # <<>>
  /\ f.pc = "free" => f.kind = "release"
  /\ f.kind = "release" => f.pc \in {"enter", "free", "drop", "leave"}
  /\ f.kind = "release" /\ f.pc # "enter" => Len(f.held) = 1

\* A frame enters an object once, and what may change a value says so.
Apart(f) ==
  /\ Distinct(f.held) /\ Distinct(f.todo)
  /\ \A e \in Held(f), d \in Todo(f) : e.obj # d.obj
  /\ f.pc \in {"enter", "entered", "running"} =>
       \A e \in Held(f) \cup Todo(f) : e.exclusive => e.changed

\* Only a thread's innermost frame is not in user code.
Nested ==
  \A t \in Threads : \A i \in DOMAIN stack[t] :
    /\ Shaped(stack[t][i])
    /\ Apart(stack[t][i])
    /\ i < Len(stack[t]) => stack[t][i].pc \in {"running", "handler"}

\* A gate counts its owner's frames that are inside the object, and no other
\* thread has one.
FramesOn(t, o) == {i \in DOMAIN stack[t] : HoldsIn(stack[t][i], o)}
Counted ==
  \A t \in Threads, o \in Objects :
    /\ gate[o].owner = t => gate[o].depth > 0 /\ gate[o].depth = Cardinality(FramesOn(t, o))
    /\ gate[o].owner # t => FramesOn(t, o) = {}

\* An exclusive entry is its object's only one.
Exclusively ==
  \A o \in Objects : /\ gate[o].exclusive => gate[o].depth = 1
                     /\ gate[o].owner = Open => ~gate[o].exclusive
Alone ==
  \A t \in Threads : \A i \in DOMAIN stack[t] : \A e \in Held(stack[t][i]) :
    e.exclusive => gate[e.obj].exclusive

\* Whatever is entered, or is to be, has been made.
FramesMade ==
  \A t \in Threads : \A i \in DOMAIN stack[t] :
    \A e \in Held(stack[t][i]) \cup Todo(stack[t][i]) : made[e.obj] > 0
AllMade ==
  \A o \in Objects : /\ made[o] <= generation
                     /\ made[o] = 0 => drops[o] = 0 /\ queue[o] = 0 /\ ~live[o]

\* A value is live under whatever may go on to use it.
LiveHeld ==
  \A t \in Threads : \A i \in DOMAIN stack[t] :
    stack[t][i].pc \in {"enter", "entered", "running"} =>
      \A e \in Held(stack[t][i]) : live[e.obj]

\* A release enters from outside, and is then alone with the object; the
\* value it drops has not been dropped.
ReleaseFits(t, f) ==
  LET o == Head(f.held).obj
  IN  /\ f.kind = "release" /\ f.pc = "enter" => FramesOn(t, Head(f.todo).obj) = {}
      /\ f.kind = "release" /\ f.pc # "enter" =>
           gate[o].depth = 1 /\ (drops[o] = 0 => queue[o] = 0)
      /\ f.pc = "drop" => gate[o].depth = 1 /\ ~live[o] /\ drops[o] = 0
Releases == \A t \in Threads : \A i \in DOMAIN stack[t] : ReleaseFits(t, stack[t][i])
Dropped == \A o \in Objects : drops[o] <= IF live[o] THEN 0 ELSE 1

\* The figure is what the value owns, or an entry that may have changed it is
\* still to leave.
Changing(o) ==
  \E t \in Threads : \E i \in DOMAIN stack[t] :
    /\ stack[t][i].pc # "enter"
    /\ \E e \in Held(stack[t][i]) : e.obj = o /\ e.exclusive /\ e.changed
Reports ==
  \A o \in Objects :
    /\ ~live[o] => pressure[o] = 0
    /\ live[o] /\ made[o] = generation /\ pressure[o] # bytes[o] => Changing(o)

\* A frame has taken raises of objects that neither it nor a frame under it is
\* inside.
Outside ==
  \A t \in Threads : \A i \in DOMAIN stack[t] : \A r \in DOMAIN stack[t][i].raises :
    \A k \in 1 .. i : ~HoldsIn(stack[t][k], stack[t][i].raises[r])

IInv ==
  /\ TypeOK /\ Nested /\ Counted /\ Exclusively /\ Alone /\ FramesMade /\ AllMade
  /\ LiveHeld /\ Releases /\ Dropped /\ Reports /\ Outside /\ RaisesTaken

-----------------------------------------------------------------------------
(* Sequences of entries *)

LEMMA HeadTail ==
  ASSUME NEW s \in Seq(Entries), s # <<>>, Distinct(s)
  PROVE  /\ Head(s) \in Entries /\ Tail(s) \in Seq(Entries) /\ Len(Tail(s)) = Len(s) - 1
         /\ Distinct(Tail(s))
         /\ \E j \in DOMAIN s : s[j] = Head(s)
         /\ {Tail(s)[j] : j \in DOMAIN Tail(s)} = {s[j] : j \in DOMAIN s} \ {Head(s)}
         /\ \A j \in DOMAIN Tail(s) : Tail(s)[j].obj # Head(s).obj
<1>1. Head(s) = s[1] /\ 1 \in DOMAIN s /\ Head(s) \in Entries /\ Tail(s) \in Seq(Entries)
      /\ Len(Tail(s)) = Len(s) - 1 /\ Len(s) \in Nat /\ DOMAIN s = 1 .. Len(s)
      /\ DOMAIN Tail(s) = 1 .. (Len(s) - 1)
  OBVIOUS
<1>2. \A j \in DOMAIN Tail(s) : Tail(s)[j] = s[j + 1] /\ j + 1 \in DOMAIN s /\ j + 1 # 1
  BY <1>1
<1>3. \A j \in DOMAIN Tail(s) : Tail(s)[j].obj # Head(s).obj
  BY <1>1, <1>2 DEF Distinct
<1>4. Distinct(Tail(s))
  BY <1>1, <1>2 DEF Distinct
<1>5. \A j \in DOMAIN s : j # 1 => j - 1 \in DOMAIN Tail(s) /\ Tail(s)[j - 1] = s[j]
  BY <1>1
<1>6. {Tail(s)[j] : j \in DOMAIN Tail(s)} \subseteq {s[j] : j \in DOMAIN s} \ {Head(s)}
  BY <1>2, <1>3
<1>7. {s[j] : j \in DOMAIN s} \ {Head(s)} \subseteq {Tail(s)[j] : j \in DOMAIN Tail(s)}
  <2> SUFFICES ASSUME NEW j \in DOMAIN s, s[j] # Head(s)
               PROVE  \E k \in DOMAIN Tail(s) : s[j] = Tail(s)[k]
    OBVIOUS
  <2> QED BY <1>1, <1>5
<1> QED BY <1>1, <1>3, <1>4, <1>6, <1>7

\* What entering one more object makes of a frame's entries.
LEMMA Prepended ==
  ASSUME NEW s \in Seq(Entries), NEW e \in Entries, Distinct(s),
         \A j \in DOMAIN s : s[j].obj # e.obj
  PROVE  /\ <<e>> \o s \in Seq(Entries) /\ <<e>> \o s # <<>>
         /\ Len(<<e>> \o s) = Len(s) + 1 /\ Head(<<e>> \o s) = e
         /\ Distinct(<<e>> \o s)
         /\ {(<<e>> \o s)[j] : j \in DOMAIN (<<e>> \o s)} = {s[j] : j \in DOMAIN s} \cup {e}
<1> DEFINE z == <<e>> \o s
<1>1. z \in Seq(Entries) /\ Len(z) = Len(s) + 1 /\ DOMAIN z = 1 .. (Len(s) + 1)
      /\ Len(s) \in Nat /\ DOMAIN s = 1 .. Len(s)
  OBVIOUS
<1>2. z[1] = e /\ 1 \in DOMAIN z
  BY <1>1
<1>3. \A j \in DOMAIN z : j # 1 => j - 1 \in DOMAIN s /\ z[j] = s[j - 1]
  BY <1>1
<1>4. \A j \in DOMAIN s : j + 1 \in DOMAIN z /\ z[j + 1] = s[j]
  BY <1>1
<1>5. z # <<>> /\ Head(z) = e
  BY <1>1, <1>2
<1> HIDE DEF z
<1>6. Distinct(z)
  BY <1>1, <1>2, <1>3 DEF Distinct
<1>7. {z[j] : j \in DOMAIN z} \subseteq {s[j] : j \in DOMAIN s} \cup {e}
  BY <1>2, <1>3
<1>8. {s[j] : j \in DOMAIN s} \cup {e} \subseteq {z[j] : j \in DOMAIN z}
  BY <1>2, <1>4
<1> QED BY <1>1, <1>5, <1>6, <1>7, <1>8 DEF z

-----------------------------------------------------------------------------
(* What a step does to the stacks *)

Rewrites(t, g) ==
  /\ g \in Frames /\ Depth(t) \in DOMAIN stack[t]
  /\ \A u \in Threads : Len(stack'[u]) = Len(stack[u]) /\ DOMAIN stack'[u] = DOMAIN stack[u]
  /\ \A u \in Threads : \A i \in DOMAIN stack[u] :
       u # t \/ i # Depth(t) => stack'[u][i] = stack[u][i]
  /\ stack'[t][Depth(t)] = g

Pops(t) ==
  /\ Depth(t) \in DOMAIN stack[t]
  /\ \A u \in Threads : u # t => stack'[u] = stack[u]
  /\ Len(stack'[t]) = Depth(t) - 1 /\ DOMAIN stack'[t] = DOMAIN stack[t] \ {Depth(t)}
  /\ \A i \in DOMAIN stack'[t] : stack'[t][i] = stack[t][i]

Pushes(t, g) ==
  /\ g \in Frames /\ Depth(t) + 1 \notin DOMAIN stack[t]
  /\ \A u \in Threads : u # t => stack'[u] = stack[u]
  /\ Len(stack'[t]) = Depth(t) + 1 /\ DOMAIN stack'[t] = DOMAIN stack[t] \cup {Depth(t) + 1}
  /\ \A i \in DOMAIN stack[t] : stack'[t][i] = stack[t][i]
  /\ stack'[t][Depth(t) + 1] = g

LEMMA OnStack ==
  ASSUME Stacks, NEW t \in Threads
  PROVE  /\ stack[t] \in Seq(Frames) /\ Depth(t) \in Nat /\ DOMAIN stack[t] = 1 .. Depth(t)
         /\ \A i \in DOMAIN stack[t] : stack[t][i] \in Frames
         /\ stack[t] # <<>> => Depth(t) \in DOMAIN stack[t] /\ Depth(t) > 0 /\ Top(t) \in Frames
BY DEF Stacks, Depth, Top

LEMMA BecomesRewrites ==
  ASSUME Stacks, NEW t \in Threads, stack[t] # <<>>, NEW g \in Frames, Becomes(t, g)
  PROVE  Rewrites(t, g) /\ Stacks'
<1>1. stack[t] \in Seq(Frames) /\ Depth(t) \in DOMAIN stack[t] /\ DOMAIN stack = Threads
  BY OnStack DEF Stacks
<1>2. stack' = [stack EXCEPT ![t] = [stack[t] EXCEPT ![Depth(t)] = g]]
  BY <1>1 DEF Becomes
<1>3. /\ [stack[t] EXCEPT ![Depth(t)] = g] \in Seq(Frames)
      /\ Len([stack[t] EXCEPT ![Depth(t)] = g]) = Len(stack[t])
      /\ DOMAIN [stack[t] EXCEPT ![Depth(t)] = g] = DOMAIN stack[t]
  BY <1>1, ExceptSeq
<1>4. Stacks'
  BY <1>2, <1>3 DEF Stacks
<1>5. stack'[t] = [stack[t] EXCEPT ![Depth(t)] = g]
      /\ \A u \in Threads : u # t => stack'[u] = stack[u]
  BY <1>1, <1>2
<1>6. \A i \in DOMAIN stack[t] : stack'[t][i] = IF i = Depth(t) THEN g ELSE stack[t][i]
  BY <1>1, <1>5
<1> QED BY <1>1, <1>3, <1>4, <1>5, <1>6 DEF Rewrites

LEMMA ReturnsPops ==
  ASSUME Stacks, NEW t \in Threads, stack[t] # <<>>, Returns(t)
  PROVE  Pops(t) /\ Stacks'
<1>1. stack[t] \in Seq(Frames) /\ Depth(t) \in Nat \ {0} /\ Depth(t) = Len(stack[t])
      /\ DOMAIN stack[t] = 1 .. Depth(t) /\ DOMAIN stack = Threads
  BY OnStack DEF Stacks, Depth
<1>2. stack' = [stack EXCEPT ![t] = SubSeq(stack[t], 1, Depth(t) - 1)]
  BY DEF Returns
<1>3. /\ SubSeq(stack[t], 1, Depth(t) - 1) \in Seq(Frames)
      /\ Len(SubSeq(stack[t], 1, Depth(t) - 1)) = Depth(t) - 1
      /\ \A i \in 1 .. Depth(t) - 1 : SubSeq(stack[t], 1, Depth(t) - 1)[i] = stack[t][i]
  BY <1>1
<1>4. stack'[t] = SubSeq(stack[t], 1, Depth(t) - 1)
      /\ \A u \in Threads : u # t => stack'[u] = stack[u]
  BY <1>1, <1>2
<1>5. DOMAIN stack'[t] = 1 .. Depth(t) - 1
  BY <1>3, <1>4
<1>6. DOMAIN stack'[t] = DOMAIN stack[t] \ {Depth(t)}
  BY <1>1, <1>5
<1>7. Stacks'
  BY <1>2, <1>3 DEF Stacks
<1> QED BY <1>1, <1>3, <1>4, <1>5, <1>6, <1>7 DEF Pops

LEMMA PushPushes ==
  ASSUME Stacks, NEW t \in Threads, NEW g \in Frames, Push(t, g)
  PROVE  Pushes(t, g) /\ Stacks'
<1>1. stack[t] \in Seq(Frames) /\ Depth(t) \in Nat /\ Depth(t) = Len(stack[t])
      /\ DOMAIN stack[t] = 1 .. Depth(t) /\ DOMAIN stack = Threads
  BY OnStack DEF Stacks, Depth
<1>2. stack' = [stack EXCEPT ![t] = Append(stack[t], g)]
  BY DEF Push
<1>3. /\ Append(stack[t], g) \in Seq(Frames)
      /\ Len(Append(stack[t], g)) = Depth(t) + 1
      /\ \A i \in 1 .. Depth(t) : Append(stack[t], g)[i] = stack[t][i]
      /\ Append(stack[t], g)[Depth(t) + 1] = g
  BY <1>1
<1>4. stack'[t] = Append(stack[t], g) /\ \A u \in Threads : u # t => stack'[u] = stack[u]
  BY <1>1, <1>2
<1>5. DOMAIN stack'[t] = 1 .. Depth(t) + 1
  BY <1>1, <1>3, <1>4
<1>6. DOMAIN stack'[t] = DOMAIN stack[t] \cup {Depth(t) + 1}
  BY <1>1, <1>5
<1>7. Stacks'
  BY <1>2, <1>3 DEF Stacks
<1> QED BY <1>1, <1>3, <1>4, <1>6, <1>7 DEF Pushes

-----------------------------------------------------------------------------
(* The steps, by what each does to the innermost frame of its thread *)

others == <<pending, bytes, generation, made>>
values == <<live, queue, pressure, drops>>

\* A frame that is inside nothing yet is pushed.
Started(t, g) ==
  /\ Pushes(t, g) /\ InUserCode(t)
  /\ g.held = <<>> /\ g.pc \in {"enter", "deliver"} /\ Shaped(g) /\ Apart(g)
  /\ \A d \in Todo(g) : made[d.obj] > 0
  /\ g.kind = "release" => gate[Head(g.todo).obj].owner # t
  /\ \A r \in DOMAIN g.raises : gate[g.raises[r]].owner # t
  /\ UNCHANGED <<gate, values, others>>

\* A frame that is inside nothing is popped.
Ended(t) ==
  /\ Pops(t) /\ Top(t).held = <<>>
  /\ UNCHANGED <<gate, values, others>>

\* The frame goes on, inside what it was inside.
Went(t, g) ==
  /\ Rewrites(t, g)
  /\ g.held = Top(t).held /\ g.kind # "release"
  /\ Top(t).pc # "enter" /\ g.pc \in {"running", "leave", "deliver", "handler"}
  /\ g.pc = "running" => Top(t).pc = "entered"
  /\ g.todo = <<>> /\ Shaped(g) /\ Apart(g)
  /\ \A r \in DOMAIN g.raises : \E q \in DOMAIN Top(t).raises : g.raises[r] = Top(t).raises[q]
  /\ UNCHANGED <<gate, values, others>>

\* A second entry fails, and the frame goes on to leave the first.
Failed(t, g) ==
  /\ Rewrites(t, g)
  /\ \A o \in Objects : HoldsIn(g, o) <=> HoldsIn(Top(t), o)
  /\ \A e \in Held(g) : \E d \in Held(Top(t)) : e.obj = d.obj /\ e.exclusive = d.exclusive
  /\ Top(t).pc = "enter" /\ g.pc = "leave" /\ g.kind = "failed" /\ g.todo = <<>>
  /\ g.raises = <<>> /\ Shaped(g) /\ Apart(g)
  /\ UNCHANGED <<gate, values, others>>

EntersOne(t, g, e) ==
  /\ Rewrites(t, g)
  /\ e \in Entries /\ Head(Top(t).todo) = e /\ e \in Todo(Top(t)) /\ Admits(t, e)
  /\ Held(g) = Held(Top(t)) \cup {e} /\ Head(g.held) = e
  /\ ~HoldsIn(Top(t), e.obj)
  /\ Todo(g) \subseteq Todo(Top(t))
  /\ g.kind = Top(t).kind /\ Top(t).pc = "enter"
  /\ g.pc \in {"enter", "free", "entered"} /\ (g.kind = "release" <=> g.pc = "free")
  /\ g.raises = <<>> /\ Shaped(g) /\ Apart(g)
  /\ g.kind # "release" => live[e.obj]
  /\ gate' = [gate EXCEPT ![e.obj] = Entered(gate[e.obj], t, e.exclusive)]
  /\ UNCHANGED <<values, others>>

\* The value of the object this frame entered last is freed.
Frees(t, g, o) ==
  /\ Rewrites(t, g)
  /\ g.held = Top(t).held /\ o \in Objects /\ o = Head(g.held).obj /\ HoldsIn(g, o)
  /\ g.kind = Top(t).kind /\ g.raises = Top(t).raises /\ g.todo = <<>>
  /\ Top(t).pc \in {"free", "leave"} /\ (Top(t).pc = "leave" => gate[o].depth = 1)
  /\ g.pc \in {"drop", "leave"} /\ (g.pc = "drop" => live[o])
  /\ Shaped(g) /\ Apart(g)
  /\ pending' = [pending EXCEPT ![o] = FALSE]
  /\ live' = [live EXCEPT ![o] = FALSE]
  /\ pressure' = [pressure EXCEPT ![o] = 0]
  /\ UNCHANGED <<gate, queue, drops, bytes, generation, made>>

Drops(t, g, o, n) ==
  /\ Rewrites(t, g)
  /\ g.held = Top(t).held /\ o \in Objects /\ o = Head(g.held).obj /\ HoldsIn(g, o)
  /\ g.kind = Top(t).kind /\ g.raises = Top(t).raises /\ g.todo = <<>>
  /\ Top(t).pc = "drop" /\ g.pc = "leave" /\ Shaped(g) /\ Apart(g)
  /\ n \in Nat
  /\ drops' = [drops EXCEPT ![o] = drops[o] + 1]
  /\ queue' = [queue EXCEPT ![o] = n]
  /\ UNCHANGED <<gate, live, pressure, others>>

\* What leaving an object does to everything but the stack.
Leaves(t, e) ==
  /\ e \in Entries /\ e = Head(Top(t).held) /\ e \in Held(Top(t))
  /\ Top(t).pc = "leave"
  /\ pressure' = IF e.changed /\ Usable(e.obj)
                   THEN [pressure EXCEPT ![e.obj] = bytes[e.obj]] ELSE pressure
  /\ queue' = [queue EXCEPT ![e.obj] = queue[e.obj] - Taken(Top(t), e.obj)]
  /\ gate' = [gate EXCEPT ![e.obj] = Left(gate[e.obj])]
  /\ UNCHANGED <<live, drops, others>>

LeavesOne(t, g, e) ==
  /\ Rewrites(t, g) /\ Leaves(t, e)
  /\ Held(g) = Held(Top(t)) \ {e} /\ ~HoldsIn(g, e.obj)
  /\ g.kind = Top(t).kind /\ g.kind # "release" /\ g.pc \in {"deliver", "leave"}
  /\ g.todo = <<>> /\ Shaped(g) /\ Apart(g)
  /\ \A r \in DOMAIN g.raises :
       \/ \E q \in DOMAIN Top(t).raises : g.raises[r] = Top(t).raises[q]
       \/ g.raises[r] = e.obj /\ gate[e.obj].depth = 1

LeavesLast(t, e) ==
  /\ Pops(t) /\ Leaves(t, e) /\ Held(Top(t)) = {e}

\* What user code does to an object, with no frame of its own.
Makes(o, b) ==
  /\ o \in Objects /\ b \in Nat /\ made[o] = 0
  /\ made' = [made EXCEPT ![o] = generation]
  /\ live' = [live EXCEPT ![o] = TRUE]
  /\ bytes' = [bytes EXCEPT ![o] = b]
  /\ pressure' = [pressure EXCEPT ![o] = b]
  /\ UNCHANGED <<gate, pending, queue, drops, generation, stack>>

Queues(t, o) ==
  /\ o \in Objects /\ InUserCode(t) /\ gate[o].owner = t
  /\ queue' = [queue EXCEPT ![o] = queue[o] + 1]
  /\ UNCHANGED <<gate, live, pressure, drops, others, stack>>

Changes(t, e, b) ==
  /\ stack[t] # <<>> /\ Top(t).pc = "running"
  /\ e \in Held(Top(t)) /\ e \in Entries /\ e.exclusive /\ b \in Nat
  /\ bytes' = [bytes EXCEPT ![e.obj] = b]
  /\ UNCHANGED <<gate, values, pending, generation, made, stack>>

Pends(p) ==
  /\ pending' = p /\ p \in [Objects -> BOOLEAN]
  /\ UNCHANGED <<gate, values, bytes, generation, made, stack>>

Reloads ==
  /\ generation' = generation + 1
  /\ UNCHANGED <<gate, values, pending, bytes, made, stack>>

Stays == UNCHANGED <<gate, values, others, stack>>

\* One step of one thread, or a reload.
Step ==
  \/ Stays \/ Reloads
  \/ \E p \in [Objects -> BOOLEAN] : Pends(p)
  \/ \E o \in Objects, b \in Nat : Makes(o, b)
  \/ \E t \in Threads, g \in Frames : Started(t, g)
  \/ \E t \in Threads, g \in Frames : Went(t, g)
  \/ \E t \in Threads, g \in Frames : Failed(t, g)
  \/ \E t \in Threads : Ended(t)
  \/ \E t \in Threads, g \in Frames, e \in Entries : EntersOne(t, g, e)
  \/ \E t \in Threads, g \in Frames, e \in Entries : LeavesOne(t, g, e)
  \/ \E t \in Threads, e \in Entries : LeavesLast(t, e)
  \/ \E t \in Threads, g \in Frames, o \in Objects : Frees(t, g, o)
  \/ \E t \in Threads, g \in Frames, o \in Objects, n \in Nat : Drops(t, g, o, n)
  \/ \E t \in Threads, o \in Objects : Queues(t, o)
  \/ \E t \in Threads, e \in Entries, b \in Nat : Changes(t, e, b)

LEMMA TopFrame ==
  ASSUME TypeOK, Nested, NEW t \in Threads, stack[t] # <<>>
  PROVE  /\ Stacks /\ Top(t) = stack[t][Depth(t)] /\ Depth(t) \in DOMAIN stack[t]
         /\ Top(t) \in Frames /\ Shaped(Top(t)) /\ Apart(Top(t))
<1>1. Depth(t) \in DOMAIN stack[t] /\ Top(t) \in Frames
  BY OnStack DEF TypeOK
<1> QED BY <1>1 DEF Nested, Top, TypeOK

LEMMA NothingHeld ==
  ASSUME NEW f \in Frames
  PROVE  /\ f.held = <<>> => Held(f) = {} /\ Distinct(f.held)
         /\ f.todo = <<>> => Todo(f) = {} /\ Distinct(f.todo)
BY DEF Held, Todo, Distinct

LEMMA Pushed ==
  ASSUME TypeOK, NEW t \in Threads, NEW todo \in Seq(Entries), NEW objs \in SUBSET Objects,
         NEW kind \in {"call", "borrow", "release"}, Push(t, Starting(kind, todo)),
         MayStart(t, objs), Len(todo) \in 1 .. 2, kind = "release" => Len(todo) = 1,
         Distinct(todo), \A j \in DOMAIN todo : /\ todo[j].obj \in objs
                                                /\ todo[j].exclusive => todo[j].changed,
         kind = "release" => gate[todo[1].obj].owner # t,
         UNCHANGED <<gate, values, others>>
  PROVE  Stacks' /\ \E g \in Frames : Started(t, g)
<1> DEFINE g == Starting(kind, todo)
<1>1. /\ g \in Frames /\ g.kind = kind /\ g.pc = "enter" /\ g.todo = todo /\ g.held = <<>>
      /\ g.raises = <<>>
  BY DEF Starting, Frames, Kinds, Pcs
<1>2. Pushes(t, g) /\ Stacks'
  BY <1>1, PushPushes DEF TypeOK
<1> HIDE DEF g
<1>a. g.todo # <<>> /\ Len(g.held) = 0 /\ Len(g.todo) \in 1 .. 2
      /\ g.kind \in {"call", "borrow", "release"} /\ (g.kind = "release" => Len(g.todo) = 1)
  BY <1>1
<1>3. Shaped(g)
  BY <1>1, <1>a DEF Shaped
<1>4. Todo(g) = {todo[j] : j \in DOMAIN todo} /\ Held(g) = {} /\ Distinct(g.held)
  BY <1>1, NothingHeld DEF Todo
<1>5. Apart(g)
  BY <1>1, <1>4 DEF Apart
<1>6. \A d \in Todo(g) : made[d.obj] > 0
  BY <1>4 DEF MayStart
<1>7. Head(g.todo) = todo[1] /\ DOMAIN g.raises = {}
  BY <1>1
<1> QED BY <1>1, <1>2, <1>3, <1>5, <1>6, <1>7 DEF Started, MayStart

LEMMA StartCallStarts ==
  ASSUME TypeOK, NEW t \in Threads, NEW o \in Objects, StartCall(t, o)
  PROVE  Stacks' /\ \E g \in Frames : Started(t, g)
<1>1. PICK e \in [obj : {o}, exclusive : BOOLEAN, changed : BOOLEAN] :
        (e.exclusive => e.changed) /\ Push(t, Starting("call", <<e>>))
  BY DEF StartCall
<1>2. <<e>> \in Seq(Entries) /\ e.obj = o /\ Len(<<e>>) = 1 /\ DOMAIN <<e>> = {1} /\ <<e>>[1] = e
  BY <1>1 DEF Entries
<1>3. Distinct(<<e>>)
  BY <1>2 DEF Distinct
<1>4. MayStart(t, {o}) /\ UNCHANGED <<gate, values, others>>
  BY DEF StartCall, values, others
<1>5. {o} \in SUBSET Objects /\ Len(<<e>>) \in 1 .. 2
      /\ \A j \in DOMAIN <<e>> : <<e>>[j].obj \in {o} /\ (<<e>>[j].exclusive => <<e>>[j].changed)
  BY <1>1, <1>2
<1> QED BY <1>1, <1>2, <1>3, <1>4, <1>5, Pushed

LEMMA StartBorrowStarts ==
  ASSUME TypeOK, NEW t \in Threads, NEW o \in Objects, StartBorrow(t, o)
  PROVE  Stacks' /\ \E g \in Frames : Started(t, g)
<1>1. PICK x \in BOOLEAN :
        Push(t, Starting("borrow", <<[obj |-> o, exclusive |-> x, changed |-> x]>>))
  BY DEF StartBorrow
<1> DEFINE e == [obj |-> o, exclusive |-> x, changed |-> x]
<1>2. /\ <<e>> \in Seq(Entries) /\ e.obj = o /\ e.exclusive = e.changed
      /\ Len(<<e>>) = 1 /\ DOMAIN <<e>> = {1} /\ <<e>>[1] = e
  BY <1>1 DEF Entries
<1>3. Push(t, Starting("borrow", <<e>>))
  BY <1>1
<1> HIDE DEF e
<1>4. Distinct(<<e>>)
  BY <1>2 DEF Distinct
<1>5. MayStart(t, {o}) /\ UNCHANGED <<gate, values, others>>
  BY DEF StartBorrow, values, others
<1>6. {o} \in SUBSET Objects /\ Len(<<e>>) \in 1 .. 2
      /\ \A j \in DOMAIN <<e>> : <<e>>[j].obj \in {o} /\ (<<e>>[j].exclusive => <<e>>[j].changed)
  BY <1>2
<1> QED BY <1>2, <1>3, <1>4, <1>5, <1>6, Pushed

LEMMA StartCallWithStarts ==
  ASSUME TypeOK, NEW t \in Threads, NEW o \in Objects, NEW peer \in Objects,
         StartCallWith(t, o, peer)
  PROVE  Stacks' /\ \E g \in Frames : Started(t, g)
<1>1. PICK x \in BOOLEAN :
        Push(t, Starting("call",
          InOrder([obj |-> o, exclusive |-> x, changed |-> TRUE],
                  [obj |-> peer, exclusive |-> FALSE, changed |-> FALSE])))
  BY DEF StartCallWith
<1> DEFINE d == [obj |-> o, exclusive |-> x, changed |-> TRUE]
           e == [obj |-> peer, exclusive |-> FALSE, changed |-> FALSE]
           todo == InOrder(d, e)
<1>2. /\ d \in Entries /\ e \in Entries /\ d.obj = o /\ e.obj = peer /\ d.changed /\ ~e.exclusive
      /\ o # peer
  BY <1>1 DEF Entries, StartCallWith
<1>3. Push(t, Starting("call", todo))
  BY <1>1
<1> HIDE DEF d, e
<1>4. /\ todo \in Seq(Entries) /\ Len(todo) = 2 /\ DOMAIN todo = {1, 2}
      /\ (todo[1] = d /\ todo[2] = e) \/ (todo[1] = e /\ todo[2] = d)
  BY <1>2 DEF InOrder
<1> HIDE DEF todo
<1>5. Distinct(todo)
  BY <1>2, <1>4 DEF Distinct
<1>6. MayStart(t, {o, peer}) /\ UNCHANGED <<gate, values, others>>
  BY DEF StartCallWith, values, others
<1>7. \A j \in DOMAIN todo : /\ todo[j].obj \in {o, peer}
                             /\ todo[j].exclusive => todo[j].changed
  BY <1>2, <1>4
<1> QED BY <1>3, <1>4, <1>5, <1>6, <1>7, Pushed

LEMMA StartReleaseStarts ==
  ASSUME TypeOK, NEW t \in Threads, NEW o \in Objects, StartRelease(t, o)
  PROVE  /\ Stacks'
         /\ \/ \E p \in [Objects -> BOOLEAN] : Pends(p)
            \/ \E g \in Frames : Started(t, g)
<1>1. CASE gate[o].owner = t
  <2>1. pending' = [pending EXCEPT ![o] = TRUE] /\ stack' = stack
        /\ UNCHANGED <<gate, live, queue, pressure, bytes, drops, generation, made>>
    BY <1>1 DEF StartRelease
  <2>2. pending' \in [Objects -> BOOLEAN]
    BY <2>1 DEF TypeOK
  <2> QED BY <2>1, <2>2 DEF Pends, values, TypeOK, Stacks
<1>2. CASE gate[o].owner # t
  <2> DEFINE e == [obj |-> o, exclusive |-> FALSE, changed |-> FALSE]
  <2>1. /\ <<e>> \in Seq(Entries) /\ e.obj = o /\ ~e.exclusive
        /\ Len(<<e>>) = 1 /\ DOMAIN <<e>> = {1} /\ <<e>>[1] = e
    BY DEF Entries
  <2>2. Push(t, Starting("release", <<e>>)) /\ MayStart(t, {o})
        /\ UNCHANGED <<gate, values, others>>
    BY <1>2 DEF StartRelease, values, others
  <2> HIDE DEF e
  <2>3. Distinct(<<e>>)
    BY <2>1 DEF Distinct
  <2>4. {o} \in SUBSET Objects /\ Len(<<e>>) \in 1 .. 2
        /\ \A j \in DOMAIN <<e>> : <<e>>[j].obj \in {o} /\ (<<e>>[j].exclusive => <<e>>[j].changed)
    BY <2>1
  <2>5. gate[<<e>>[1].obj].owner # t
    BY <1>2, <2>1
  <2>6. Stacks' /\ \E g \in Frames : Started(t, g)
    BY <2>1, <2>2, <2>3, <2>4, <2>5, Pushed
  <2> QED BY <2>6
<1> QED BY <1>1, <1>2

LEMMA RaiseNowStarts ==
  ASSUME TypeOK, NEW t \in Threads, NEW o \in Objects, RaiseNow(t, o)
  PROVE  Stacks' /\ \E g \in Frames : Started(t, g)
<1> DEFINE g == [Starting("call", <<>>) EXCEPT !.pc = "deliver", !.raises = <<o>>]
<1> DEFINE h == Starting("call", <<>>)
<1>a. h \in Frames /\ h.kind = "call" /\ h.todo = <<>> /\ h.held = <<>>
  BY DEF Starting, Frames, Kinds, Pcs
<1>b. <<o>> \in Seq(Objects) /\ "deliver" \in Pcs
  BY DEF Pcs
<1>c. g = [h EXCEPT !.pc = "deliver", !.raises = <<o>>]
  OBVIOUS
<1> HIDE DEF h
<1>1. /\ g \in Frames /\ g.kind = "call" /\ g.pc = "deliver" /\ g.todo = <<>> /\ g.held = <<>>
      /\ g.raises = <<o>>
  BY <1>a, <1>b, <1>c DEF Frames
<1>2. Push(t, g)
  BY DEF RaiseNow, h
<1> HIDE DEF g
<1>3. Pushes(t, g) /\ Stacks'
  BY <1>1, <1>2, PushPushes DEF TypeOK
<1>4. Shaped(g)
  BY <1>1 DEF Shaped
<1>5. Apart(g) /\ Todo(g) = {}
  BY <1>1, NothingHeld DEF Apart
<1>6. \A r \in DOMAIN g.raises : gate[g.raises[r]].owner # t
  BY <1>1 DEF RaiseNow
<1> QED BY <1>1, <1>3, <1>4, <1>5, <1>6 DEF Started, RaiseNow, MayStart, values, others

LEMMA EndedBy ==
  ASSUME TypeOK, NEW t \in Threads, stack[t] # <<>>, Returns(t), Top(t).held = <<>>,
         UNCHANGED <<gate, values, others>>
  PROVE  Stacks' /\ Ended(t)
BY ReturnsPops DEF Ended, TypeOK

LEMMA EnterNextEnters ==
  ASSUME TypeOK, Nested, NEW t \in Threads, EnterNext(t)
  PROVE  Stacks' /\ \E g \in Frames, e \in Entries : EntersOne(t, g, e)
<1> DEFINE f == Top(t)
           e == Head(f.todo)
           g == [f EXCEPT !.todo = Tail(f.todo), !.held = <<e>> \o f.held,
                          !.pc = IF Tail(f.todo) # <<>> THEN "enter"
                                 ELSE IF f.kind = "release" THEN "free" ELSE "entered"]
<1>1. stack[t] # <<>> /\ f.pc = "enter"
  BY DEF EnterNext, At
<1>2. Stacks /\ f \in Frames /\ Shaped(f) /\ Apart(f)
  BY <1>1, TopFrame
<1>3. /\ Admits(t, e) /\ (f.kind = "release" \/ Usable(e.obj))
      /\ gate' = [gate EXCEPT ![e.obj] = Entered(gate[e.obj], t, e.exclusive)]
      /\ Becomes(t, g) /\ UNCHANGED <<values, others>>
  BY DEF EnterNext, values, others
<1> HIDE DEF f
<1>4. /\ f.todo \in Seq(Entries) /\ f.held \in Seq(Entries) /\ f.todo # <<>> /\ f.raises = <<>>
      /\ Len(f.todo) + Len(f.held) <= 2 /\ Distinct(f.held) /\ Distinct(f.todo)
      /\ \A d \in Todo(f), c \in Held(f) : c.obj # d.obj
      /\ \A d \in Held(f) \cup Todo(f) : d.exclusive => d.changed
      /\ (f.kind = "release" => Len(f.todo) = 1 /\ f.held = <<>>)
      /\ f.kind \in {"call", "borrow", "release"}
  BY <1>1, <1>2 DEF Shaped, Apart, Frames
<1>5. /\ e \in Entries /\ e \in Todo(f) /\ Tail(f.todo) \in Seq(Entries)
      /\ Len(Tail(f.todo)) = Len(f.todo) - 1 /\ Distinct(Tail(f.todo))
      /\ {Tail(f.todo)[j] : j \in DOMAIN Tail(f.todo)} = Todo(f) \ {e}
      /\ \A j \in DOMAIN Tail(f.todo) : Tail(f.todo)[j].obj # e.obj
  BY <1>4, HeadTail DEF Todo
<1> HIDE DEF e
<1>6. \A j \in DOMAIN f.held : f.held[j].obj # e.obj
  BY <1>4, <1>5 DEF Held
<1>7. /\ <<e>> \o f.held \in Seq(Entries) /\ <<e>> \o f.held # <<>>
      /\ Len(<<e>> \o f.held) = Len(f.held) + 1 /\ Head(<<e>> \o f.held) = e
      /\ Distinct(<<e>> \o f.held)
      /\ {(<<e>> \o f.held)[j] : j \in DOMAIN (<<e>> \o f.held)} = Held(f) \cup {e}
  BY <1>4, <1>5, <1>6, Prepended DEF Held
<1>8. /\ g \in Frames /\ g.kind = f.kind /\ g.todo = Tail(f.todo) /\ g.held = <<e>> \o f.held
      /\ g.raises = <<>>
      /\ g.pc = IF Tail(f.todo) # <<>> THEN "enter"
                ELSE IF f.kind = "release" THEN "free" ELSE "entered"
  BY <1>2, <1>4, <1>5, <1>7 DEF Frames, Pcs
<1> HIDE DEF g
<1>9. Held(g) = Held(f) \cup {e} /\ Head(g.held) = e /\ Todo(g) = Todo(f) \ {e}
  <2>1. Held(g) = {(<<e>> \o f.held)[j] : j \in DOMAIN (<<e>> \o f.held)}
    BY <1>8 DEF Held
  <2>2. Todo(g) = {Tail(f.todo)[j] : j \in DOMAIN Tail(f.todo)}
    BY <1>8 DEF Todo
  <2> QED BY <1>5, <1>7, <1>8, <2>1, <2>2
<1>10. \A d \in Todo(g) : d.obj # e.obj
  BY <1>5, <1>8 DEF Todo
<1>11. Apart(g)
  BY <1>4, <1>5, <1>7, <1>8, <1>9, <1>10 DEF Apart
<1>12. f.kind = "release" => Tail(f.todo) = <<>>
  BY <1>4, <1>5
<1>13. g.held # <<>> /\ Len(f.held) \in Nat /\ Len(f.todo) \in Nat
  BY <1>4, <1>7, <1>8
<1>14. f.kind = "release" => Len(g.held) = 1
  BY <1>4, <1>7, <1>8
<1>15. Len(g.todo) + Len(g.held) <= 2
  <2>1. Len(g.todo) = Len(f.todo) - 1 /\ Len(g.held) = Len(f.held) + 1
    BY <1>5, <1>7, <1>8
  <2>2. Len(f.todo) + Len(f.held) <= 2
    BY <1>4
  <2>3. Len(f.todo) \in Nat /\ Len(f.held) \in Nat
    BY <1>13
  <2> DEFINE a == Len(f.todo)
             b == Len(f.held)
  <2>4. a \in Nat /\ b \in Nat /\ a + b <= 2
    BY <2>2, <2>3
  <2> HIDE DEF a, b
  <2>5. (a - 1) + (b + 1) <= 2
    BY <2>4
  <2> QED BY <2>1, <2>5 DEF a, b
<1>16. Shaped(g)
  BY <1>4, <1>8, <1>12, <1>13, <1>14, <1>15 DEF Shaped
<1>17. Rewrites(t, g) /\ Stacks'
  BY <1>1, <1>2, <1>3, <1>8, BecomesRewrites
<1>18. ~HoldsIn(f, e.obj)
  BY <1>4, <1>5 DEF HoldsIn
<1>19. g.pc \in {"enter", "free", "entered"} /\ (g.kind = "release" <=> g.pc = "free")
  BY <1>4, <1>8, <1>12
<1>20. g.kind # "release" => live[e.obj]
  BY <1>3, <1>8 DEF Usable
<1>21. EntersOne(t, g, e)
  BY <1>1, <1>3, <1>5, <1>8, <1>9, <1>11, <1>16, <1>17, <1>18, <1>19, <1>20 DEF EntersOne, f, e
<1> QED BY <1>5, <1>8, <1>17, <1>21

LEMMA EnterFailsFails ==
  ASSUME TypeOK, Nested, NEW t \in Threads, EnterFails(t)
  PROVE  Stacks' /\ (Ended(t) \/ \E g \in Frames : Failed(t, g))
<1> DEFINE f == Top(t)
           g == [f EXCEPT !.kind = "failed", !.pc = "leave", !.todo = <<>>,
                          !.held = <<[Head(f.held) EXCEPT !.changed = FALSE]>>]
<1>1. stack[t] # <<>> /\ f.pc = "enter" /\ UNCHANGED <<gate, values, others>>
  BY DEF EnterFails, At, values, others
<1>2. Stacks /\ f \in Frames /\ Shaped(f) /\ Apart(f)
  BY <1>1, TopFrame
<1>3. IF f.held = <<>> THEN Returns(t) ELSE Becomes(t, g)
  BY DEF EnterFails
<1>4. CASE f.held = <<>>
  BY <1>1, <1>3, <1>4, EndedBy
<1>5. CASE f.held # <<>>
  <2> HIDE DEF f
  <2>1. /\ f.todo \in Seq(Entries) /\ f.held \in Seq(Entries) /\ f.todo # <<>> /\ f.raises = <<>>
        /\ Len(f.todo) + Len(f.held) <= 2
    BY <1>1, <1>2 DEF Shaped, Frames
  <2>2. Len(f.held) = 1 /\ DOMAIN f.held = {1} /\ Head(f.held) = f.held[1]
        /\ Head(f.held) \in Entries
    <3>1. Len(f.held) \in Nat /\ Len(f.held) # 0 /\ Len(f.todo) \in Nat /\ Len(f.todo) # 0
      BY <1>5, <2>1
    <3> DEFINE a == Len(f.todo)
               b == Len(f.held)
    <3>a. a + b <= 2 /\ a \in Nat /\ b \in Nat /\ a # 0 /\ b # 0
      BY <2>1, <3>1
    <3> HIDE DEF a, b
    <3>b. b = 1
      BY <3>a
    <3>2. Len(f.held) = 1
      BY <3>b DEF b
    <3> QED BY <2>1, <3>2
  <2> DEFINE h == [Head(f.held) EXCEPT !.changed = FALSE]
  <2>3. /\ h \in Entries /\ h.obj = f.held[1].obj /\ h.exclusive = f.held[1].exclusive
    BY <2>2 DEF Entries
  <2> HIDE DEF h
  <2>4. <<h>> \in Seq(Entries) /\ DOMAIN <<h>> = {1} /\ <<h>>[1] = h /\ <<h>> # <<>>
    BY <2>3
  <2>5. g = [f EXCEPT !.kind = "failed", !.pc = "leave", !.todo = <<>>, !.held = <<h>>]
    BY DEF h
  <2>a. <<>> \in Seq(Entries) /\ "failed" \in Kinds /\ "leave" \in Pcs
    BY DEF Kinds, Pcs
  <2>b. Becomes(t, g)
    BY <1>3, <1>5
  <2> HIDE DEF g
  <2>6. /\ g \in Frames /\ g.kind = "failed" /\ g.pc = "leave" /\ g.todo = <<>>
        /\ g.held = <<h>> /\ g.raises = <<>>
    BY <1>2, <2>1, <2>4, <2>5, <2>a DEF Frames
  <2>7. Held(g) = {h} /\ Held(f) = {f.held[1]}
    BY <2>2, <2>4, <2>6 DEF Held
  <2>8. Shaped(g)
    BY <2>4, <2>6 DEF Shaped
  <2>9. Distinct(g.held) /\ Todo(g) = {} /\ Distinct(g.todo)
    BY <2>4, <2>6, NothingHeld DEF Distinct
  <2>10. Apart(g)
    BY <2>6, <2>9 DEF Apart
  <2>11. Rewrites(t, g) /\ Stacks'
    BY <1>1, <1>2, <2>6, <2>b, BecomesRewrites
  <2>12. /\ \A o \in Objects : HoldsIn(g, o) <=> HoldsIn(f, o)
         /\ \A e \in Held(g) : \E d \in Held(f) : e.obj = d.obj /\ e.exclusive = d.exclusive
    BY <2>3, <2>7 DEF HoldsIn
  <2>13. Failed(t, g)
    BY <1>1, <2>6, <2>8, <2>10, <2>11, <2>12 DEF Failed, f
  <2> QED BY <2>6, <2>11, <2>13
<1> QED BY <1>4, <1>5

\* A frame that goes on past its entries with the same ones.
LEMMA Going ==
  ASSUME TypeOK, NEW t \in Threads, stack[t] # <<>>, NEW f, f = Top(t),
         f \in Frames, Shaped(f), Apart(f), NEW g \in Frames, Becomes(t, g),
         g.held = f.held, g.todo = f.todo, f.pc # "enter", g.pc # "enter",
         g.pc \in {"entered", "running"} => f.pc = "entered"
  PROVE  /\ Rewrites(t, g) /\ Stacks' /\ Apart(g) /\ g.todo = <<>>
         /\ Held(g) = Held(f)
<1>1. Rewrites(t, g) /\ Stacks'
  BY BecomesRewrites DEF TypeOK
<1>2. g.todo = <<>> /\ f.todo = <<>>
  BY DEF Shaped
<1>3. Held(g) = Held(f) /\ Todo(g) = Todo(f)
  BY DEF Held, Todo
<1>4. Apart(g)
  BY <1>2, <1>3 DEF Apart
<1> QED BY <1>1, <1>2, <1>3, <1>4

LEMMA InvokeGoes ==
  ASSUME TypeOK, Nested, NEW t \in Threads, Invoke(t)
  PROVE  Stacks' /\ \E g \in Frames : Went(t, g)
<1> DEFINE f == Top(t)
           g == [f EXCEPT !.pc = "running", !.image = generation]
<1>1. stack[t] # <<>> /\ f.pc = "entered" /\ UNCHANGED <<gate, values, others>> /\ Becomes(t, g)
  BY DEF Invoke, At, values, others
<1>2. f \in Frames /\ Shaped(f) /\ Apart(f) /\ f = Top(t)
  BY <1>1, TopFrame
<1> HIDE DEF f
<1>3. /\ g \in Frames /\ g.kind = f.kind /\ g.pc = "running" /\ g.todo = f.todo
      /\ g.held = f.held /\ g.raises = f.raises
  BY <1>2 DEF Frames, Pcs, TypeOK
<1> HIDE DEF g
<1>4. Rewrites(t, g) /\ Stacks' /\ Apart(g) /\ g.todo = <<>>
  BY <1>1, <1>2, <1>3, Going
<1>5. Shaped(g) /\ g.kind # "release"
  BY <1>1, <1>2, <1>3 DEF Shaped
<1>6. Went(t, g)
  BY <1>1, <1>2, <1>3, <1>4, <1>5 DEF Went
<1> QED BY <1>3, <1>4, <1>6

LEMMA ExitGoes ==
  ASSUME TypeOK, Nested, NEW t \in Threads, Exit(t)
  PROVE  Stacks' /\ \E g \in Frames : Went(t, g)
<1> DEFINE f == Top(t)
<1>1. stack[t] # <<>> /\ f.pc = "running" /\ UNCHANGED <<gate, values, others>>
  BY DEF Exit, At, values, others
<1>2. f \in Frames /\ Shaped(f) /\ Apart(f) /\ f = Top(t)
  BY <1>1, TopFrame
<1>3. PICK k \in {f.kind} \cup (IF f.kind = "borrow" THEN {"unwound"} ELSE {}) :
        Becomes(t, [f EXCEPT !.pc = "leave", !.kind = k])
  BY DEF Exit
<1> DEFINE g == [f EXCEPT !.pc = "leave", !.kind = k]
<1>a. Becomes(t, g)
  BY <1>3
<1> HIDE DEF f
<1>4. f.kind \in {"call", "borrow"} /\ f.held # <<>> /\ k \in {f.kind, "unwound"}
  BY <1>1, <1>2, <1>3 DEF Shaped
<1>5. /\ g \in Frames /\ g.kind = k /\ g.pc = "leave" /\ g.todo = f.todo
      /\ g.held = f.held /\ g.raises = f.raises
  BY <1>2, <1>4 DEF Frames, Pcs, Kinds
<1> HIDE DEF g
<1>6. Rewrites(t, g) /\ Stacks' /\ Apart(g) /\ g.todo = <<>>
  BY <1>1, <1>2, <1>a, <1>5, Going
<1>7. Shaped(g) /\ g.kind # "release"
  BY <1>1, <1>2, <1>4, <1>5, <1>6 DEF Shaped
<1>8. Went(t, g)
  BY <1>1, <1>2, <1>5, <1>6, <1>7 DEF Went
<1> QED BY <1>5, <1>6, <1>8

LEMMA DeliverGoes ==
  ASSUME TypeOK, Nested, NEW t \in Threads, Deliver(t)
  PROVE  Stacks' /\ (Ended(t) \/ \E g \in Frames : Went(t, g))
<1> DEFINE f == Top(t)
           g == [f EXCEPT !.pc = "handler"]
<1>1. /\ stack[t] # <<>> /\ f.pc = "deliver" /\ UNCHANGED <<gate, values, others>>
      /\ IF f.raises = <<>> THEN Returns(t) ELSE Becomes(t, g)
  BY DEF Deliver, At, values, others
<1>2. f \in Frames /\ Shaped(f) /\ Apart(f) /\ f = Top(t)
  BY <1>1, TopFrame
<1>3. f.held = <<>> /\ f.kind \in {"call", "borrow"}
  BY <1>1, <1>2 DEF Shaped
<1>4. CASE f.raises = <<>>
  BY <1>1, <1>2, <1>3, <1>4, EndedBy
<1>5. CASE f.raises # <<>>
  <2>a. Becomes(t, g)
    BY <1>1, <1>5
  <2> HIDE DEF f
  <2>1. /\ g \in Frames /\ g.kind = f.kind /\ g.pc = "handler" /\ g.todo = f.todo
        /\ g.held = f.held /\ g.raises = f.raises
    BY <1>2 DEF Frames, Pcs
  <2> HIDE DEF g
  <2>2. Rewrites(t, g) /\ Stacks' /\ Apart(g) /\ g.todo = <<>>
    BY <1>1, <1>2, <2>a, <2>1, Going
  <2>3. Shaped(g) /\ g.kind # "release"
    BY <1>3, <1>5, <2>1, <2>2 DEF Shaped
  <2>4. Went(t, g)
    BY <1>1, <1>2, <2>1, <2>2, <2>3 DEF Went
  <2> QED BY <2>1, <2>2, <2>4
<1> QED BY <1>4, <1>5

LEMMA HandlerEndsGoes ==
  ASSUME TypeOK, Nested, NEW t \in Threads, HandlerEnds(t)
  PROVE  Stacks' /\ (Ended(t) \/ \E g \in Frames : Went(t, g))
<1> DEFINE f == Top(t)
           g == [f EXCEPT !.pc = "deliver", !.raises = Tail(f.raises)]
<1>1. /\ stack[t] # <<>> /\ f.pc = "handler" /\ UNCHANGED <<gate, values, others>>
      /\ Becomes(t, g) \/ Returns(t)
  BY DEF HandlerEnds, At, values, others
<1>2. f \in Frames /\ Shaped(f) /\ Apart(f) /\ f = Top(t)
  BY <1>1, TopFrame
<1>3. f.held = <<>> /\ f.kind \in {"call", "borrow"} /\ f.raises # <<>>
  BY <1>1, <1>2 DEF Shaped
<1>4. CASE Returns(t)
  BY <1>1, <1>2, <1>3, <1>4, EndedBy
<1>5. CASE Becomes(t, g)
  <2> HIDE DEF f
  <2>1. f.raises \in Seq(Objects) /\ Tail(f.raises) \in Seq(Objects)
        /\ \A r \in DOMAIN Tail(f.raises) :
             r + 1 \in DOMAIN f.raises /\ Tail(f.raises)[r] = f.raises[r + 1]
    BY <1>2, <1>3 DEF Frames
  <2>2. /\ g \in Frames /\ g.kind = f.kind /\ g.pc = "deliver" /\ g.todo = f.todo
        /\ g.held = f.held /\ g.raises = Tail(f.raises)
    BY <1>2, <2>1 DEF Frames, Pcs
  <2> HIDE DEF g
  <2>3. Rewrites(t, g) /\ Stacks' /\ Apart(g) /\ g.todo = <<>>
    BY <1>1, <1>2, <1>5, <2>2, Going
  <2>4. Shaped(g) /\ g.kind # "release"
    BY <1>3, <2>2, <2>3 DEF Shaped
  <2>5. \A r \in DOMAIN g.raises : \E q \in DOMAIN f.raises : g.raises[r] = f.raises[q]
    BY <2>1, <2>2
  <2>6. Went(t, g)
    BY <1>1, <1>2, <2>2, <2>3, <2>4, <2>5 DEF Went
  <2> QED BY <2>2, <2>3, <2>6
<1> QED BY <1>1, <1>4, <1>5

LEMMA FreeValueFrees ==
  ASSUME TypeOK, Nested, Releases, NEW t \in Threads, FreeValue(t)
  PROVE  Stacks' /\ \E g \in Frames, o \in Objects : Frees(t, g, o)
<1> DEFINE f == Top(t)
           o == Head(f.held).obj
           g == [f EXCEPT !.pc = IF Usable(o) THEN "drop" ELSE "leave"]
<1>1. /\ stack[t] # <<>> /\ FreeDue(f) /\ Becomes(t, g)
      /\ pending' = [pending EXCEPT ![o] = FALSE]
      /\ live' = [live EXCEPT ![o] = FALSE]
      /\ pressure' = [pressure EXCEPT ![o] = 0]
      /\ UNCHANGED <<gate, queue, drops, bytes, generation, made>>
  BY DEF FreeValue
<1>2. f \in Frames /\ Shaped(f) /\ Apart(f) /\ f = Top(t)
  BY <1>1, TopFrame
<1>3. f.pc \in {"free", "leave"} /\ (f.pc = "leave" => gate[o].depth = 1)
  BY <1>1 DEF FreeDue, Last
<1> HIDE DEF f
<1>4. f.held # <<>> /\ f.held \in Seq(Entries) /\ (f.kind = "release" => Len(f.held) = 1)
      /\ (f.pc = "free" => f.kind = "release")
  BY <1>2, <1>3 DEF Shaped, Frames
<1>5. o \in Objects /\ Head(f.held) \in Held(f)
  <2>1. 1 \in DOMAIN f.held /\ Head(f.held) = f.held[1] /\ f.held[1] \in Entries
    BY <1>4
  <2> QED BY <2>1 DEF Held, Entries
<1>6. (g.pc = "drop" => live[o]) /\ g.pc \in {"drop", "leave"} /\ g.pc \in Pcs
  BY <1>2 DEF Usable, Frames, Pcs
<1> HIDE DEF o
<1>7. /\ g \in Frames /\ g.kind = f.kind /\ g.todo = f.todo /\ g.held = f.held
      /\ g.raises = f.raises
  BY <1>2, <1>6 DEF Frames, Pcs
<1> HIDE DEF g
<1>8. Rewrites(t, g) /\ Stacks' /\ Apart(g) /\ g.todo = <<>> /\ Held(g) = Held(f)
  BY <1>1, <1>2, <1>3, <1>6, <1>7, Going
<1>9. Shaped(g)
  BY <1>4, <1>6, <1>7, <1>8 DEF Shaped
<1>10. HoldsIn(g, o)
  BY <1>5, <1>8 DEF HoldsIn, o
<1>11. o = Head(g.held).obj
  BY <1>7 DEF o
<1>12. Frees(t, g, o)
  BY <1>1, <1>2, <1>3, <1>5, <1>6, <1>7, <1>8, <1>9, <1>10, <1>11 DEF Frees
<1> QED BY <1>5, <1>7, <1>8, <1>12

LEMMA DropValueDrops ==
  ASSUME TypeOK, Nested, NEW t \in Threads, DropValue(t)
  PROVE  Stacks' /\ \E g \in Frames, o \in Objects, n \in Nat : Drops(t, g, o, n)
<1> DEFINE f == Top(t)
           o == Head(f.held).obj
           g == [f EXCEPT !.pc = "leave"]
<1>1. /\ stack[t] # <<>> /\ f.pc = "drop" /\ Becomes(t, g)
      /\ drops' = [drops EXCEPT ![o] = drops[o] + 1]
      /\ UNCHANGED <<gate, live, pressure, others>>
  BY DEF DropValue, At, others
<1>2. PICK n \in {queue[o], MaxQueue} : queue' = [queue EXCEPT ![o] = n]
  BY DEF DropValue
<1>3. f \in Frames /\ Shaped(f) /\ Apart(f) /\ f = Top(t)
  BY <1>1, TopFrame
<1> HIDE DEF f
<1>4. f.held # <<>> /\ f.held \in Seq(Entries) /\ (f.kind = "release" => Len(f.held) = 1)
  BY <1>1, <1>3 DEF Shaped, Frames
<1>5. o \in Objects /\ Head(f.held) \in Held(f)
  <2>1. 1 \in DOMAIN f.held /\ Head(f.held) = f.held[1] /\ f.held[1] \in Entries
    BY <1>4
  <2> QED BY <2>1 DEF Held, Entries
<1>6. n \in Nat
  BY <1>2, <1>5, ProxyCoreAssumption DEF TypeOK
<1> HIDE DEF o
<1>7. /\ g \in Frames /\ g.kind = f.kind /\ g.todo = f.todo /\ g.held = f.held
      /\ g.raises = f.raises /\ g.pc = "leave"
  BY <1>3 DEF Frames, Pcs
<1> HIDE DEF g
<1>8. Rewrites(t, g) /\ Stacks' /\ Apart(g) /\ g.todo = <<>> /\ Held(g) = Held(f)
  BY <1>1, <1>3, <1>7, Going
<1>9. Shaped(g)
  BY <1>4, <1>7, <1>8 DEF Shaped
<1>10. HoldsIn(g, o)
  BY <1>5, <1>8 DEF HoldsIn, o
<1>11. o = Head(g.held).obj
  BY <1>7 DEF o
<1>12. Drops(t, g, o, n)
  BY <1>1, <1>2, <1>3, <1>5, <1>6, <1>7, <1>8, <1>9, <1>10, <1>11 DEF Drops
<1> QED BY <1>5, <1>6, <1>7, <1>8, <1>12

LEMMA TakenFromQueue ==
  ASSUME TypeOK, NEW f \in Frames, NEW o \in Objects
  PROVE  /\ Taken(f, o) \in Nat /\ Taken(f, o) \in {0, queue[o]}
         /\ Taken(f, o) # 0 => gate[o].depth = 1
         /\ f.kind # "release" /\ gate[o].depth = 1 => Taken(f, o) = queue[o]
BY DEF Taken, Last, TypeOK

LEMMA LeaveEntryLeaves ==
  ASSUME TypeOK, Nested, NEW t \in Threads, LeaveEntry(t)
  PROVE  /\ Stacks'
         /\ \E e \in Entries : LeavesLast(t, e) \/ \E g \in Frames : LeavesOne(t, g, e)
<1> DEFINE f == Top(t)
           e == Head(f.held)
           taken == [i \in 1 .. Taken(f, e.obj) |-> e.obj]
           g == [f EXCEPT !.held = Tail(f.held), !.raises = taken \o f.raises,
                          !.pc = IF Tail(f.held) = <<>> THEN "deliver" ELSE "leave"]
<1>1. /\ stack[t] # <<>> /\ f.pc = "leave"
      /\ pressure' = IF e.changed /\ Usable(e.obj)
                       THEN [pressure EXCEPT ![e.obj] = bytes[e.obj]] ELSE pressure
      /\ queue' = [queue EXCEPT ![e.obj] = queue[e.obj] - Taken(f, e.obj)]
      /\ gate' = [gate EXCEPT ![e.obj] = Left(gate[e.obj])]
      /\ IF Tail(f.held) = <<>> /\ f.kind \notin {"call", "borrow"}
           THEN Returns(t) ELSE Becomes(t, g)
      /\ UNCHANGED <<live, drops, others>>
  BY DEF LeaveEntry, At, Reported, others
<1>2. f \in Frames /\ Shaped(f) /\ Apart(f) /\ f = Top(t)
  BY <1>1, TopFrame
<1> HIDE DEF f
<1>3. f.held # <<>> /\ f.held \in Seq(Entries) /\ Distinct(f.held) /\ f.todo = <<>>
      /\ f.raises \in Seq(Objects) /\ (f.kind = "release" => Len(f.held) = 1)
  BY <1>1, <1>2 DEF Shaped, Apart, Frames
<1>4. /\ e \in Entries /\ Tail(f.held) \in Seq(Entries) /\ Len(Tail(f.held)) = Len(f.held) - 1
      /\ Distinct(Tail(f.held))
      /\ e \in Held(f)
      /\ {Tail(f.held)[j] : j \in DOMAIN Tail(f.held)} = Held(f) \ {e}
      /\ \A j \in DOMAIN Tail(f.held) : Tail(f.held)[j].obj # e.obj
  BY <1>3, HeadTail DEF Held
<1> HIDE DEF e
<1>5. Leaves(t, e)
  BY <1>1, <1>2, <1>4 DEF Leaves, e
<1>6. CASE Tail(f.held) = <<>> /\ f.kind \notin {"call", "borrow"}
  <2>1. Pops(t) /\ Stacks'
    BY <1>1, <1>6, ReturnsPops DEF TypeOK
  <2>2. Held(f) = {e}
    BY <1>4, <1>6
  <2>3. LeavesLast(t, e)
    BY <1>2, <1>5, <2>1, <2>2 DEF LeavesLast
  <2> QED BY <1>4, <2>1, <2>3
<1>7. CASE ~(Tail(f.held) = <<>> /\ f.kind \notin {"call", "borrow"})
  <2>1. f.kind # "release"
    BY <1>3, <1>4, <1>7
  <2>2. e.obj \in Objects /\ Taken(f, e.obj) \in Nat
        /\ (Taken(f, e.obj) # 0 => gate[e.obj].depth = 1)
    BY <1>2, <1>4, TakenFromQueue DEF Entries
  <2>3. taken \in Seq(Objects) /\ Len(taken) = Taken(f, e.obj)
        /\ DOMAIN taken = 1 .. Taken(f, e.obj) /\ \A i \in DOMAIN taken : taken[i] = e.obj
    BY <2>2
  <2>a. Becomes(t, g)
    BY <1>1, <1>7
  <2> HIDE DEF taken
  <2>4. taken \o f.raises \in Seq(Objects)
    BY <1>3, <2>3
  <2>5. /\ g \in Frames /\ g.kind = f.kind /\ g.todo = <<>> /\ g.held = Tail(f.held)
        /\ g.raises = taken \o f.raises
        /\ g.pc = IF Tail(f.held) = <<>> THEN "deliver" ELSE "leave"
    BY <1>2, <1>3, <1>4, <2>4 DEF Frames, Pcs
  <2> HIDE DEF g
  <2>6. Rewrites(t, g) /\ Stacks'
    BY <1>1, <1>2, <2>5, <2>a, BecomesRewrites DEF TypeOK
  <2>7. Held(g) = Held(f) \ {e} /\ Distinct(g.held) /\ Todo(g) = {} /\ Distinct(g.todo)
    <3>1. Held(g) = {Tail(f.held)[j] : j \in DOMAIN Tail(f.held)}
      BY <2>5 DEF Held
    <3> QED BY <1>4, <2>5, <3>1, NothingHeld
  <2>8. ~HoldsIn(g, e.obj)
    BY <1>4, <2>5 DEF HoldsIn, Held
  <2>9. Apart(g)
    BY <2>5, <2>7 DEF Apart
  <2>10. Shaped(g)
    BY <1>7, <2>1, <2>5 DEF Shaped
  <2>11. ASSUME NEW r \in DOMAIN g.raises
         PROVE  \/ \E q \in DOMAIN f.raises : g.raises[r] = f.raises[q]
                \/ g.raises[r] = e.obj /\ gate[e.obj].depth = 1
    <3>1. r \in 1 .. Len(taken) + Len(f.raises) /\ Len(taken) \in Nat /\ Len(f.raises) \in Nat
      BY <1>3, <2>3, <2>5
    <3>2. CASE r <= Len(taken)
      <4>1. r \in DOMAIN taken /\ g.raises[r] = taken[r]
        BY <1>3, <2>3, <2>5, <3>1, <3>2
      <4>2. Taken(f, e.obj) # 0
        BY <2>2, <2>3, <3>1, <3>2
      <4> QED BY <2>2, <2>3, <4>1, <4>2
    <3>3. CASE r > Len(taken)
      <4>1. r - Len(taken) \in DOMAIN f.raises /\ g.raises[r] = f.raises[r - Len(taken)]
        BY <1>3, <2>3, <2>5, <3>1, <3>3
      <4> QED BY <4>1
    <3> QED BY <3>1, <3>2, <3>3
  <2>12. LeavesOne(t, g, e)
    BY <1>2, <1>5, <2>1, <2>5, <2>6, <2>7, <2>8, <2>9, <2>10, <2>11 DEF LeavesOne
  <2> QED BY <1>4, <2>5, <2>6, <2>12
<1> QED BY <1>6, <1>7

LEMMA NextSteps ==
  ASSUME TypeOK, Nested, Releases, [Next]_vars
  PROVE  Step /\ Stacks'
<1>1. CASE UNCHANGED vars
  BY <1>1 DEF vars, Step, Stays, values, others, TypeOK, Stacks
<1>2. CASE Reload
  BY <1>2 DEF Reload, Reloads, Step, values, TypeOK, Stacks
<1>3. CASE \E t \in Threads : UserStep(t) \/ CallStep(t) \/ Change(t)
  <2>1. PICK t \in Threads : UserStep(t) \/ CallStep(t) \/ Change(t)
    BY <1>3
  <2>2. CASE \E o \in Objects : Make(t, o)
    <3>1. PICK o \in Objects : Make(t, o)
      BY <2>2
    <3>2. PICK b \in 0 .. MaxBytes : /\ bytes' = [bytes EXCEPT ![o] = b]
                                     /\ pressure' = [pressure EXCEPT ![o] = b]
      BY <3>1 DEF Make
    <3>3. b \in Nat
      BY <3>2, ProxyCoreAssumption
    <3>4. Makes(o, b)
      BY <3>1, <3>2, <3>3 DEF Make, Makes
    <3> QED BY <3>1, <3>3, <3>4 DEF Make, Step, TypeOK, Stacks
  <2>3. CASE \E o \in Objects : RaiseQueued(t, o)
    <3>1. PICK o \in Objects : RaiseQueued(t, o)
      BY <2>3
    <3>2. Queues(t, o)
      BY <3>1 DEF RaiseQueued, Queues, others
    <3> QED BY <3>1, <3>2 DEF RaiseQueued, Step, TypeOK, Stacks
  <2>4. CASE \E o \in Objects : StartCall(t, o) \/ StartBorrow(t, o) \/ RaiseNow(t, o)
                                \/ \E peer \in Objects : StartCallWith(t, o, peer)
    <3>1. Stacks' /\ \E g \in Frames : Started(t, g)
      BY <2>4, StartCallStarts, StartBorrowStarts, RaiseNowStarts, StartCallWithStarts
    <3> QED BY <3>1 DEF Step
  <2>5. CASE \E o \in Objects : StartRelease(t, o)
    BY <2>5, StartReleaseStarts DEF Step
  <2>6. CASE EnterNext(t)
    BY <2>6, EnterNextEnters DEF Step
  <2>7. CASE EnterFails(t)
    BY <2>7, EnterFailsFails DEF Step
  <2>8. CASE Invoke(t) \/ Exit(t)
    BY <2>8, InvokeGoes, ExitGoes DEF Step
  <2>9. CASE FreeValue(t)
    BY <2>9, FreeValueFrees DEF Step
  <2>10. CASE DropValue(t)
    BY <2>10, DropValueDrops DEF Step
  <2>11. CASE LeaveEntry(t)
    BY <2>11, LeaveEntryLeaves DEF Step
  <2>12. CASE Deliver(t) \/ HandlerEnds(t)
    BY <2>12, DeliverGoes, HandlerEndsGoes DEF Step
  <2>13. CASE Change(t)
    <3>1. stack[t] # <<>> /\ Top(t).pc = "running"
      BY <2>13 DEF Change, At
    <3>2. PICK e \in {Top(t).held[i] : i \in DOMAIN Top(t).held}, b \in 0 .. MaxBytes :
            e.exclusive /\ bytes' = [bytes EXCEPT ![e.obj] = b]
      BY <2>13 DEF Change
    <3>3. b \in Nat
      BY <3>2, ProxyCoreAssumption
    <3>4. Top(t).held \in Seq(Entries)
      BY <3>1, TopFrame DEF Frames
    <3>5. e \in Held(Top(t)) /\ e \in Entries
      BY <3>2, <3>4 DEF Held
    <3>6. Changes(t, e, b)
      BY <2>13, <3>1, <3>2, <3>3, <3>5 DEF Changes, Change, values
    <3> QED BY <2>13, <3>3, <3>5, <3>6 DEF Change, Step, TypeOK, Stacks
  <2> QED
    BY <2>1, <2>2, <2>3, <2>4, <2>5, <2>6, <2>7, <2>8, <2>9, <2>10, <2>11, <2>12, <2>13
    DEF UserStep, CallStep
<1> QED BY <1>1, <1>2, <1>3 DEF Next

-----------------------------------------------------------------------------
(* Types *)

LEMMA TypesStay ==
  ASSUME TypeOK, Nested, Step, Stacks'
  PROVE  TypeOK'
<1> USE DEF values, others
<1>1. CASE Stays
  BY <1>1 DEF Stays, TypeOK
<1>2. CASE Reloads
  BY <1>2 DEF Reloads, TypeOK
<1>3. CASE \E p \in [Objects -> BOOLEAN] : Pends(p)
  BY <1>3 DEF Pends, TypeOK
<1>4. CASE \E o \in Objects, b \in Nat : Makes(o, b)
  BY <1>4 DEF Makes, TypeOK
<1>5. ASSUME NEW t \in Threads, NEW g \in Frames, Started(t, g) \/ Went(t, g) \/ Failed(t, g)
      PROVE  TypeOK'
  BY <1>5 DEF Started, Went, Failed, TypeOK
<1>6. ASSUME NEW t \in Threads, Ended(t)
      PROVE  TypeOK'
  BY <1>6 DEF Ended, TypeOK
<1>7. ASSUME NEW t \in Threads, NEW e \in Entries, NEW g \in Frames, EntersOne(t, g, e)
      PROVE  TypeOK'
  <2>1. e.obj \in Objects /\ e.exclusive \in BOOLEAN
    BY DEF Entries
  <2>2. Entered(gate[e.obj], t, e.exclusive) \in Gates
    BY <2>1 DEF Entered, Gates, TypeOK
  <2> QED BY <1>7, <2>1, <2>2 DEF EntersOne, TypeOK
<1>8. ASSUME NEW t \in Threads, NEW e \in Entries, Leaves(t, e), Top(t) \in Frames
      PROVE  TypeOK'
  <2>1. e.obj \in Objects
    BY DEF Entries
  <2>2. Left(gate[e.obj]) \in Gates
    BY <2>1 DEF Left, OpenGate, Gates, TypeOK
  <2>3. gate' \in [Objects -> Gates]
    BY <1>8, <2>1, <2>2 DEF Leaves, TypeOK
  <2>4. queue[e.obj] - Taken(Top(t), e.obj) \in Nat
    BY <1>8, <2>1, TakenFromQueue DEF TypeOK
  <2>5. queue' \in [Objects -> Nat]
    BY <1>8, <2>4 DEF Leaves, TypeOK
  <2>6. pressure' \in [Objects -> Nat]
    BY <1>8, <2>1 DEF Leaves, TypeOK
  <2> QED BY <1>8, <2>3, <2>5, <2>6 DEF Leaves, TypeOK
<1>9. ASSUME NEW t \in Threads, NEW g \in Frames, NEW o \in Objects, Frees(t, g, o)
      PROVE  TypeOK'
  BY <1>9 DEF Frees, TypeOK
<1>10. ASSUME NEW t \in Threads, NEW g \in Frames, NEW o \in Objects, NEW n \in Nat,
              Drops(t, g, o, n)
       PROVE  TypeOK'
  BY <1>10 DEF Drops, TypeOK
<1>11. ASSUME NEW t \in Threads, NEW o \in Objects, Queues(t, o)
       PROVE  TypeOK'
  BY <1>11 DEF Queues, TypeOK
<1>12. ASSUME NEW t \in Threads, NEW e \in Entries, NEW b \in Nat, Changes(t, e, b)
       PROVE  TypeOK'
  BY <1>12 DEF Changes, Entries, TypeOK
<1>13. ASSUME NEW t \in Threads, NEW e \in Entries,
              LeavesLast(t, e) \/ \E g \in Frames : LeavesOne(t, g, e)
       PROVE  TypeOK'
  <2>1. Leaves(t, e) /\ Depth(t) \in DOMAIN stack[t]
    BY <1>13 DEF LeavesLast, LeavesOne, Pops, Rewrites
  <2>2. Top(t) \in Frames
    BY <2>1, OnStack DEF Top, TypeOK
  <2> QED BY <1>8, <2>1, <2>2
<1> QED
  BY <1>1, <1>2, <1>3, <1>4, <1>5, <1>6, <1>7, <1>9, <1>10, <1>11, <1>12, <1>13 DEF Step

-----------------------------------------------------------------------------
(* Which frames are inside an object *)

\* Every step but an entry and a leave.
Keeps ==
  /\ gate' = gate
  /\ \/ stack' = stack
     \/ \E t \in Threads :
          \/ \E g \in Frames : Pushes(t, g) /\ g.held = <<>>
          \/ Pops(t) /\ Top(t).held = <<>>
          \/ \E g \in Frames :
               Rewrites(t, g) /\ \A o \in Objects : HoldsIn(g, o) <=> HoldsIn(Top(t), o)

Enters == \E t \in Threads, g \in Frames, e \in Entries : EntersOne(t, g, e)
LeavesSome(t, e) == LeavesLast(t, e) \/ \E g \in Frames : LeavesOne(t, g, e)

LEMMA StepKinds ==
  ASSUME Step
  PROVE  Keeps \/ Enters \/ \E t \in Threads, e \in Entries : LeavesSome(t, e)
<1>1. \A f, g : f.held = g.held => Held(f) = Held(g)
  BY DEF Held
<1>2. CASE Stays \/ Reloads
  BY <1>2 DEF Stays, Reloads, Keeps
<1>3. CASE \E p \in [Objects -> BOOLEAN] : Pends(p)
  BY <1>3 DEF Pends, Keeps
<1>4. CASE \E o \in Objects, b \in Nat : Makes(o, b)
  BY <1>4 DEF Makes, Keeps
<1>5. ASSUME NEW t \in Threads, NEW g \in Frames, Started(t, g)
      PROVE  Keeps
  BY <1>5 DEF Started, Keeps
<1>6. ASSUME NEW t \in Threads, NEW g \in Frames, Went(t, g)
      PROVE  Keeps
  BY <1>1, <1>6 DEF Went, Keeps, HoldsIn
<1>7. ASSUME NEW t \in Threads, NEW g \in Frames, Failed(t, g)
      PROVE  Keeps
  BY <1>7 DEF Failed, Keeps
<1>8. ASSUME NEW t \in Threads, Ended(t)
      PROVE  Keeps
  BY <1>8 DEF Ended, Keeps
<1>9. ASSUME NEW t \in Threads, NEW g \in Frames, NEW o \in Objects, Frees(t, g, o)
      PROVE  Keeps
  BY <1>1, <1>9 DEF Frees, Keeps, HoldsIn
<1>10. ASSUME NEW t \in Threads, NEW g \in Frames, NEW o \in Objects, NEW n \in Nat,
              Drops(t, g, o, n)
       PROVE  Keeps
  BY <1>1, <1>10 DEF Drops, Keeps, HoldsIn
<1>11. ASSUME NEW t \in Threads, NEW o \in Objects, Queues(t, o)
       PROVE  Keeps
  BY <1>11 DEF Queues, Keeps
<1>12. ASSUME NEW t \in Threads, NEW e \in Entries, NEW b \in Nat, Changes(t, e, b)
       PROVE  Keeps
  BY <1>12 DEF Changes, Keeps
<1> QED
  BY <1>2, <1>3, <1>4, <1>5, <1>6, <1>7, <1>8, <1>9, <1>10, <1>11, <1>12
  DEF Step, Enters, LeavesSome

LEMMA KeepsFrames ==
  ASSUME TypeOK, TypeOK', Keeps
  PROVE  \A u \in Threads, o \in Objects : FramesOn(u, o)' = FramesOn(u, o)
<1> SUFFICES ASSUME NEW u \in Threads, NEW o \in Objects
             PROVE  FramesOn(u, o)' = FramesOn(u, o)
  OBVIOUS
<1>1. CASE stack' = stack
  BY <1>1 DEF FramesOn
<1>2. ASSUME NEW t \in Threads, NEW g \in Frames, Pushes(t, g), g.held = <<>>
      PROVE  FramesOn(u, o)' = FramesOn(u, o)
  <2>1. ~HoldsIn(g, o)
    BY <1>2, NothingHeld DEF HoldsIn
  <2>2. CASE u # t
    BY <1>2, <2>2 DEF FramesOn, Pushes
  <2>3. CASE u = t
    BY <1>2, <2>1, <2>3 DEF FramesOn, Pushes
  <2> QED BY <2>2, <2>3
<1>3. ASSUME NEW t \in Threads, Pops(t), Top(t).held = <<>>
      PROVE  FramesOn(u, o)' = FramesOn(u, o)
  <2>1. ~HoldsIn(stack[t][Depth(t)], o)
    BY <1>3 DEF HoldsIn, Held, Top
  <2>2. CASE u # t
    BY <1>3, <2>2 DEF FramesOn, Pops
  <2>3. CASE u = t
    BY <1>3, <2>1, <2>3 DEF FramesOn, Pops
  <2> QED BY <2>2, <2>3
<1>4. ASSUME NEW t \in Threads, NEW g \in Frames, Rewrites(t, g),
             \A q \in Objects : HoldsIn(g, q) <=> HoldsIn(Top(t), q)
      PROVE  FramesOn(u, o)' = FramesOn(u, o)
  <2>1. HoldsIn(g, o) <=> HoldsIn(stack[t][Depth(t)], o)
    BY <1>4 DEF Top
  <2>2. \A i \in DOMAIN stack[u] : HoldsIn(stack'[u][i], o) <=> HoldsIn(stack[u][i], o)
    BY <1>4, <2>1 DEF Rewrites
  <2>3. DOMAIN stack'[u] = DOMAIN stack[u]
    BY <1>4 DEF Rewrites
  <2> QED BY <2>2, <2>3 DEF FramesOn
<1> QED BY <1>1, <1>2, <1>3, <1>4 DEF Keeps

LEMMA EntersFrames ==
  ASSUME TypeOK, NEW t \in Threads, NEW g \in Frames, NEW e \in Entries, EntersOne(t, g, e)
  PROVE  /\ Depth(t) \notin FramesOn(t, e.obj)
         /\ FramesOn(t, e.obj)' = FramesOn(t, e.obj) \cup {Depth(t)}
         /\ \A u \in Threads, o \in Objects :
              u # t \/ o # e.obj => FramesOn(u, o)' = FramesOn(u, o)
<1>1. /\ Rewrites(t, g) /\ Top(t) = stack[t][Depth(t)]
      /\ HoldsIn(g, e.obj) /\ ~HoldsIn(Top(t), e.obj)
      /\ \A o \in Objects : o # e.obj => (HoldsIn(g, o) <=> HoldsIn(Top(t), o))
  BY DEF EntersOne, HoldsIn, Top
<1>2. \A u \in Threads : DOMAIN stack'[u] = DOMAIN stack[u]
  BY <1>1 DEF Rewrites
<1>3. \A u \in Threads, o \in Objects : u # t \/ o # e.obj =>
        \A i \in DOMAIN stack[u] : HoldsIn(stack'[u][i], o) <=> HoldsIn(stack[u][i], o)
  BY <1>1 DEF Rewrites
<1>4. \A u \in Threads, o \in Objects : u # t \/ o # e.obj => FramesOn(u, o)' = FramesOn(u, o)
  BY <1>2, <1>3 DEF FramesOn
<1>5. Depth(t) \notin FramesOn(t, e.obj)
  BY <1>1 DEF FramesOn
<1>6. FramesOn(t, e.obj)' = FramesOn(t, e.obj) \cup {Depth(t)}
  BY <1>1 DEF FramesOn, Rewrites
<1> QED BY <1>4, <1>5, <1>6

LEMMA LeavesFrames ==
  ASSUME TypeOK, NEW t \in Threads, NEW e \in Entries, LeavesSome(t, e)
  PROVE  /\ Leaves(t, e) /\ Depth(t) \in FramesOn(t, e.obj)
         /\ FramesOn(t, e.obj)' = FramesOn(t, e.obj) \ {Depth(t)}
         /\ \A u \in Threads, o \in Objects :
              u # t \/ o # e.obj => FramesOn(u, o)' = FramesOn(u, o)
<1>1. Leaves(t, e) /\ HoldsIn(Top(t), e.obj) /\ Top(t) = stack[t][Depth(t)]
      /\ Depth(t) \in DOMAIN stack[t]
  BY DEF LeavesSome, LeavesLast, LeavesOne, Leaves, HoldsIn, Top, Pops, Rewrites
<1>2. Depth(t) \in FramesOn(t, e.obj)
  BY <1>1 DEF FramesOn
<1>3. CASE LeavesLast(t, e)
  <2>1. Pops(t) /\ \A o \in Objects : o # e.obj => ~HoldsIn(Top(t), o)
    BY <1>3 DEF LeavesLast, HoldsIn
  <2>2. \A o \in Objects : FramesOn(t, o)' = FramesOn(t, o) \ {Depth(t)}
    BY <2>1 DEF FramesOn, Pops
  <2>3. \A o \in Objects : o # e.obj => Depth(t) \notin FramesOn(t, o)
    BY <1>1, <2>1 DEF FramesOn
  <2>4. \A u \in Threads, o \in Objects : u # t => FramesOn(u, o)' = FramesOn(u, o)
    BY <2>1 DEF FramesOn, Pops
  <2>5. e.obj \in Objects
    BY DEF Entries
  <2> QED BY <1>1, <1>2, <2>2, <2>3, <2>4, <2>5
<1>4. ASSUME NEW g \in Frames, LeavesOne(t, g, e)
      PROVE  /\ FramesOn(t, e.obj)' = FramesOn(t, e.obj) \ {Depth(t)}
             /\ \A u \in Threads, o \in Objects :
                  u # t \/ o # e.obj => FramesOn(u, o)' = FramesOn(u, o)
  <2>1. /\ Rewrites(t, g) /\ ~HoldsIn(g, e.obj)
        /\ \A o \in Objects : o # e.obj => (HoldsIn(g, o) <=> HoldsIn(Top(t), o))
    BY <1>4 DEF LeavesOne, HoldsIn
  <2>2. \A u \in Threads : DOMAIN stack'[u] = DOMAIN stack[u]
    BY <2>1 DEF Rewrites
  <2>3. \A u \in Threads, o \in Objects : u # t \/ o # e.obj =>
          \A i \in DOMAIN stack[u] : HoldsIn(stack'[u][i], o) <=> HoldsIn(stack[u][i], o)
    BY <1>1, <2>1 DEF Rewrites
  <2>4. \A u \in Threads, o \in Objects : u # t \/ o # e.obj => FramesOn(u, o)' = FramesOn(u, o)
    BY <2>2, <2>3 DEF FramesOn
  <2>5. FramesOn(t, e.obj)' = FramesOn(t, e.obj) \ {Depth(t)}
    BY <2>1 DEF FramesOn, Rewrites
  <2> QED BY <2>4, <2>5
<1> QED BY <1>1, <1>2, <1>3, <1>4 DEF LeavesSome

LEMMA FramesFinite ==
  ASSUME TypeOK, NEW t \in Threads, NEW o \in Objects
  PROVE  IsFiniteSet(FramesOn(t, o)) /\ Cardinality(FramesOn(t, o)) \in Nat
<1>1. FramesOn(t, o) \subseteq 1 .. Depth(t) /\ Depth(t) \in Nat
  BY OnStack DEF FramesOn, TypeOK
<1>2. IsFiniteSet(1 .. Depth(t))
  BY <1>1, FS_Interval
<1> QED BY <1>1, <1>2, FS_Subset, FS_CardinalityType

\* A gate's owner is who has a frame inside, and at depth one it is one frame.
LEMMA Holder ==
  ASSUME TypeOK, Counted, NEW t \in Threads, NEW o \in Objects,
         NEW i \in DOMAIN stack[t], HoldsIn(stack[t][i], o)
  PROVE  /\ gate[o].owner = t /\ gate[o].depth > 0
         /\ gate[o].depth = 1 => FramesOn(t, o) = {i}
<1>1. i \in FramesOn(t, o)
  BY DEF FramesOn
<1>2. gate[o].owner = t
  BY <1>1 DEF Counted
<1>3. gate[o].depth > 0 /\ gate[o].depth = Cardinality(FramesOn(t, o))
  BY <1>2 DEF Counted
<1>4. ASSUME gate[o].depth = 1
      PROVE  FramesOn(t, o) = {i}
  <2>1. \E x : FramesOn(t, o) = {x}
    BY <1>3, <1>4, FramesFinite, FS_Singleton
  <2> QED BY <1>1, <2>1
<1> QED BY <1>2, <1>3, <1>4

LEMMA NobodyInOpen ==
  ASSUME TypeOK, Counted, NEW o \in Objects, gate[o].owner = Open, NEW t \in Threads
  PROVE  FramesOn(t, o) = {}
BY ProxyCoreAssumption DEF Counted

LEMMA OwnerHolds ==
  ASSUME TypeOK, Counted, NEW t \in Threads, NEW o \in Objects, gate[o].owner = t
  PROVE  \E i \in DOMAIN stack[t] : HoldsIn(stack[t][i], o)
<1>1. gate[o].depth > 0 /\ gate[o].depth = Cardinality(FramesOn(t, o))
  BY DEF Counted
<1>2. FramesOn(t, o) # {}
  BY <1>1, FS_EmptySet
<1> QED BY <1>2 DEF FramesOn

CountedAt(u, q) ==
  /\ gate[q].owner = u => gate[q].depth > 0 /\ gate[q].depth = Cardinality(FramesOn(u, q))
  /\ gate[q].owner # u => FramesOn(u, q) = {}

LEMMA CountedElsewhere ==
  ASSUME Counted, NEW q \in Objects,
         \A o \in Objects : o # q => gate'[o] = gate[o],
         \A u \in Threads, o \in Objects : o # q => FramesOn(u, o)' = FramesOn(u, o),
         \A u \in Threads : CountedAt(u, q)'
  PROVE  Counted'
<1> SUFFICES ASSUME NEW u \in Threads, NEW o \in Objects
             PROVE  CountedAt(u, o)'
  BY DEF Counted, CountedAt
<1>1. CASE o = q
  BY <1>1
<1>2. CASE o # q
  <2>1. gate'[o] = gate[o] /\ FramesOn(u, o)' = FramesOn(u, o)
    BY <1>2
  <2>2. CountedAt(u, o)
    BY DEF Counted, CountedAt
  <2> QED BY <2>1, <2>2 DEF CountedAt
<1> QED BY <1>1, <1>2

LEMMA CountedStays ==
  ASSUME TypeOK, TypeOK', Counted, Exclusively, Step
  PROVE  Counted' /\ Exclusively'
<1>1. CASE Keeps
  <2>1. gate' = gate /\ \A u \in Threads, o \in Objects : FramesOn(u, o)' = FramesOn(u, o)
    BY <1>1, KeepsFrames DEF Keeps
  <2> QED BY <2>1 DEF Counted, Exclusively
<1>2. ASSUME NEW t \in Threads, NEW g \in Frames, NEW e \in Entries, EntersOne(t, g, e)
      PROVE  Counted' /\ Exclusively'
  <2> DEFINE x == gate[e.obj]
             n == FramesOn(t, e.obj)
  <2>1. /\ Depth(t) \notin n /\ FramesOn(t, e.obj)' = n \cup {Depth(t)}
        /\ \A u \in Threads, o \in Objects :
             u # t \/ o # e.obj => FramesOn(u, o)' = FramesOn(u, o)
    BY <1>2, EntersFrames
  <2>2. e.obj \in Objects /\ e.exclusive \in BOOLEAN /\ x \in Gates
        /\ (x.owner = Open \/ (x.owner = t /\ ~x.exclusive /\ ~e.exclusive))
    BY <1>2 DEF EntersOne, Admits, Entries, TypeOK
  <2>3. /\ gate'[e.obj] = Entered(x, t, e.exclusive)
        /\ \A o \in Objects : o # e.obj => gate'[o] = gate[o]
    BY <1>2, <2>2 DEF EntersOne, TypeOK
  <2>4. IsFiniteSet(n) /\ Cardinality(n) \in Nat
    BY <2>2, FramesFinite
  <2>5. Cardinality(FramesOn(t, e.obj)') = Cardinality(n) + 1
    BY <2>1, <2>4, FS_AddElement
  <2>6. t # Open
    BY ProxyCoreAssumption
  <2>7. CASE x.owner = Open
    <3>1. n = {} /\ Cardinality(n) = 0
      BY <2>2, <2>7, NobodyInOpen, FS_EmptySet
    <3>2. gate'[e.obj].owner = t /\ gate'[e.obj].depth = 1
          /\ gate'[e.obj].exclusive = e.exclusive
      BY <2>3, <2>6, <2>7 DEF Entered
    <3>3. \A u \in Threads : u # t => FramesOn(u, e.obj)' = {}
      BY <2>1, <2>2, <2>7, NobodyInOpen
    <3>a. CountedAt(t, e.obj)'
      <4>1. Cardinality(FramesOn(t, e.obj)') = 1
        BY <2>5, <3>1
      <4>2. gate'[e.obj].depth = 1 /\ 1 > 0
        BY <2>4, <3>1, <3>2
      <4> QED BY <3>2, <4>1, <4>2 DEF CountedAt
    <3>b. ASSUME NEW u \in Threads, u # t
          PROVE  CountedAt(u, e.obj)'
      BY <3>2, <3>3, <3>b DEF CountedAt
    <3>4. Counted'
      BY <2>1, <2>2, <2>3, <3>a, <3>b, CountedElsewhere
    <3>5. Exclusively'
      BY <2>3, <2>6, <3>2 DEF Exclusively
    <3> QED BY <3>4, <3>5
  <2>8. CASE x.owner = t
    <3>1. x.depth = Cardinality(n) /\ x.depth > 0 /\ x.depth \in Nat
      BY <2>2, <2>8 DEF Counted, Gates
    <3>2. gate'[e.obj].owner = t /\ gate'[e.obj].depth = x.depth + 1
          /\ ~gate'[e.obj].exclusive
      BY <2>2, <2>3, <2>6, <2>8 DEF Entered, Gates
    <3>3. \A u \in Threads : u # t => FramesOn(u, e.obj)' = {}
      BY <2>1, <2>2, <2>8 DEF Counted
    <3>a. CountedAt(t, e.obj)'
      <4>1. Cardinality(FramesOn(t, e.obj)') = x.depth + 1
        BY <2>5, <3>1
      <4>2. gate'[e.obj].depth = x.depth + 1 /\ x.depth + 1 > 0
        BY <2>4, <3>1, <3>2
      <4> QED BY <3>2, <4>1, <4>2 DEF CountedAt
    <3>b. ASSUME NEW u \in Threads, u # t
          PROVE  CountedAt(u, e.obj)'
      BY <3>2, <3>3, <3>b DEF CountedAt
    <3>4. Counted'
      BY <2>1, <2>2, <2>3, <3>a, <3>b, CountedElsewhere
    <3>5. Exclusively'
      BY <2>3, <2>6, <3>2 DEF Exclusively
    <3> QED BY <3>4, <3>5
  <2> QED BY <2>2, <2>7, <2>8
<1>3. ASSUME NEW t \in Threads, NEW e \in Entries, LeavesSome(t, e)
      PROVE  Counted' /\ Exclusively'
  <2> DEFINE x == gate[e.obj]
             n == FramesOn(t, e.obj)
  <2>1. /\ Leaves(t, e) /\ Depth(t) \in n /\ FramesOn(t, e.obj)' = n \ {Depth(t)}
        /\ \A u \in Threads, o \in Objects :
             u # t \/ o # e.obj => FramesOn(u, o)' = FramesOn(u, o)
    BY <1>3, LeavesFrames
  <2>2. e.obj \in Objects /\ x \in Gates
    BY DEF Entries, TypeOK
  <2>3. /\ gate'[e.obj] = Left(x)
        /\ \A o \in Objects : o # e.obj => gate'[o] = gate[o]
    BY <2>1, <2>2 DEF Leaves, TypeOK
  <2>4. IsFiniteSet(n) /\ Cardinality(n) \in Nat
    BY <2>2, FramesFinite
  <2>5. Cardinality(FramesOn(t, e.obj)') = Cardinality(n) - 1
    BY <2>1, <2>4, FS_RemoveElement
  <2>6. x.owner = t /\ x.depth = Cardinality(n) /\ x.depth > 0 /\ x.depth \in Nat
    BY <2>1, <2>2 DEF Counted, Gates
  <2>7. \A u \in Threads : u # t => FramesOn(u, e.obj)' = {}
    BY <2>1, <2>2, <2>6 DEF Counted
  <2>8. CASE x.depth > 1
    <3>1. gate'[e.obj].owner = t /\ gate'[e.obj].depth = x.depth - 1
          /\ gate'[e.obj].exclusive = x.exclusive
      BY <2>2, <2>3, <2>6, <2>8 DEF Left, Gates
    <3>a. CountedAt(t, e.obj)'
      <4>1. Cardinality(FramesOn(t, e.obj)') = x.depth - 1
        BY <2>5, <2>6
      <4>2. gate'[e.obj].depth = x.depth - 1 /\ x.depth - 1 > 0
        BY <2>6, <2>8, <3>1
      <4> QED BY <3>1, <4>1, <4>2 DEF CountedAt
    <3>b. ASSUME NEW u \in Threads, u # t
          PROVE  CountedAt(u, e.obj)'
      BY <2>7, <3>1, <3>b DEF CountedAt
    <3>2. Counted'
      BY <2>1, <2>2, <2>3, <3>a, <3>b, CountedElsewhere
    <3>3. t # Open /\ ~x.exclusive
      <4>1. x.depth # 1
        BY <2>6, <2>8
      <4> QED BY <2>2, <4>1, ProxyCoreAssumption DEF Exclusively
    <3>4. Exclusively'
      BY <2>3, <3>1, <3>3 DEF Exclusively
    <3> QED BY <3>2, <3>4
  <2>9. CASE x.depth = 1
    <3>1. gate'[e.obj].owner = Open /\ ~gate'[e.obj].exclusive
      BY <2>3, <2>9 DEF Left, OpenGate
    <3>2. n = {Depth(t)}
      <4>1. Cardinality(n) = 1
        BY <2>6, <2>9
      <4>2. \E y : n = {y}
        BY <2>4, <4>1, FS_Singleton
      <4> QED BY <2>1, <4>2
    <3>3. \A u \in Threads : FramesOn(u, e.obj)' = {} /\ u # Open
      BY <2>1, <2>7, <3>2, ProxyCoreAssumption
    <3>a. ASSUME NEW u \in Threads
          PROVE  CountedAt(u, e.obj)'
      BY <3>1, <3>3 DEF CountedAt
    <3>4. Counted'
      BY <2>1, <2>2, <2>3, <3>a, CountedElsewhere
    <3>5. Exclusively'
      BY <2>3, <3>1 DEF Exclusively
    <3> QED BY <3>4, <3>5
  <2> QED BY <2>6, <2>8, <2>9
<1> QED BY <1>1, <1>2, <1>3, StepKinds DEF Enters

-----------------------------------------------------------------------------
(* Frames after a step, and the ones they come from *)

\* The frame is as it was.
AsItWas(u, i) == i \in DOMAIN stack[u] /\ stack'[u][i] = stack[u][i]

LEMMA Pushing ==
  ASSUME NEW t \in Threads, NEW g \in Frames, Pushes(t, g),
         NEW u \in Threads, NEW i \in DOMAIN stack'[u]
  PROVE  AsItWas(u, i) \/ (u = t /\ stack'[u][i] = g)
BY DEF Pushes, AsItWas

LEMMA Popping ==
  ASSUME NEW t \in Threads, Pops(t), NEW u \in Threads, NEW i \in DOMAIN stack'[u]
  PROVE  AsItWas(u, i) /\ (u = t => i # Depth(t))
BY DEF Pops, AsItWas

LEMMA Rewriting ==
  ASSUME NEW t \in Threads, NEW g \in Frames, Rewrites(t, g),
         NEW u \in Threads, NEW i \in DOMAIN stack'[u]
  PROVE  \/ AsItWas(u, i) /\ (u # t \/ i # Depth(t))
         \/ u = t /\ i = Depth(t) /\ stack'[u][i] = g /\ i \in DOMAIN stack[u]
            /\ Top(t) = stack[u][i]
BY DEF Rewrites, AsItWas, Top

LEMMA NestedStays ==
  ASSUME TypeOK, TypeOK', Nested, Step
  PROVE  Nested'
<1> DEFINE Fit(u, i) == /\ Shaped(stack'[u][i])
                        /\ Apart(stack'[u][i])
                        /\ i < Len(stack'[u]) => stack'[u][i].pc \in {"running", "handler"}
<1>1. CASE stack' = stack
  BY <1>1 DEF Nested
<1>2. ASSUME NEW t \in Threads, NEW g \in Frames, Rewrites(t, g), Shaped(g), Apart(g)
      PROVE  Nested'
  <2>1. ASSUME NEW u \in Threads, NEW i \in DOMAIN stack'[u]
        PROVE  Fit(u, i)
    <3>1. Len(stack'[u]) = Len(stack[u])
      BY <1>2 DEF Rewrites
    <3>2. CASE AsItWas(u, i)
      BY <3>1, <3>2 DEF Nested, AsItWas
    <3>3. CASE u = t /\ i = Depth(t) /\ stack'[u][i] = g
      <4>1. ~(i < Len(stack'[u]))
        BY <3>1, <3>3, OnStack DEF Depth, TypeOK
      <4> QED BY <1>2, <3>3, <4>1
    <3> QED BY <1>2, <2>1, <3>2, <3>3, Rewriting
  <2> QED BY <2>1 DEF Nested
<1>3. ASSUME NEW t \in Threads, Pops(t)
      PROVE  Nested'
  <2>1. ASSUME NEW u \in Threads, NEW i \in DOMAIN stack'[u]
        PROVE  Fit(u, i)
    <3>1. AsItWas(u, i)
      BY <1>3, <2>1, Popping
    <3>a. Len(stack[u]) \in Nat /\ DOMAIN stack[u] = 1 .. Len(stack[u])
      BY OnStack DEF TypeOK, Depth
    <3>b. i \in Nat
      BY <3>1, <3>a DEF AsItWas
    <3>c. u # t => Len(stack'[u]) = Len(stack[u])
      BY <1>3 DEF Pops
    <3>d. u = t => Len(stack'[u]) = Len(stack[u]) - 1
      BY <1>3 DEF Pops, Depth
    <3>2. Len(stack'[u]) <= Len(stack[u]) /\ i \in Nat /\ Len(stack[u]) \in Nat
          /\ Len(stack'[u]) \in Int
      BY <3>a, <3>b, <3>c, <3>d
    <3>3. i < Len(stack'[u]) => i < Len(stack[u])
      BY <3>2
    <3> QED BY <3>1, <3>3 DEF Nested, AsItWas
  <2> QED BY <2>1 DEF Nested
<1>4. ASSUME NEW t \in Threads, NEW g \in Frames, Started(t, g)
      PROVE  Nested'
  <2>1. ASSUME NEW u \in Threads, NEW i \in DOMAIN stack'[u]
        PROVE  Fit(u, i)
    <3>0. Pushes(t, g) /\ InUserCode(t) /\ Shaped(g) /\ Apart(g)
      BY <1>4 DEF Started
    <3>1. CASE u # t
      BY <2>1, <3>0, <3>1 DEF Pushes, Nested
    <3>2. CASE u = t /\ i = Depth(t) + 1
      <4>1. stack'[u][i] = g /\ Len(stack'[u]) = i /\ i \in Nat
        BY <3>0, <3>2, OnStack DEF Pushes, TypeOK
      <4> QED BY <3>0, <4>1
    <3>3. CASE u = t /\ i # Depth(t) + 1
      <4>1. i \in DOMAIN stack[u] /\ stack'[u][i] = stack[u][i]
        BY <2>1, <3>0, <3>3 DEF Pushes
      <4>2. i \in 1 .. Depth(t) /\ Depth(t) \in Nat /\ stack[t] # <<>>
        BY <3>3, <4>1, OnStack DEF TypeOK
      <4>3. i = Depth(t) => stack[u][i].pc \in {"running", "handler"}
        BY <3>0, <3>3, <4>2 DEF InUserCode, Top
      <4>4. i # Depth(t) => i < Len(stack[u])
        BY <3>3, <4>2 DEF Depth
      <4> QED BY <3>3, <4>1, <4>3, <4>4 DEF Nested
    <3> QED BY <3>1, <3>2, <3>3
  <2> QED BY <2>1 DEF Nested
<1>5. CASE Stays \/ Reloads \/ \E p \in [Objects -> BOOLEAN] : Pends(p)
  BY <1>1, <1>5 DEF Stays, Reloads, Pends
<1>6. CASE \E o \in Objects, b \in Nat : Makes(o, b)
  BY <1>1, <1>6 DEF Makes
<1>7. ASSUME NEW t \in Threads, NEW g \in Frames, Went(t, g) \/ Failed(t, g)
      PROVE  Nested'
  BY <1>2, <1>7 DEF Went, Failed
<1>8. ASSUME NEW t \in Threads, NEW g \in Frames, NEW e \in Entries,
             EntersOne(t, g, e) \/ LeavesOne(t, g, e)
      PROVE  Nested'
  BY <1>2, <1>8 DEF EntersOne, LeavesOne
<1>9. ASSUME NEW t \in Threads, Ended(t) \/ \E e \in Entries : LeavesLast(t, e)
      PROVE  Nested'
  BY <1>3, <1>9 DEF Ended, LeavesLast
<1>10. ASSUME NEW t \in Threads, NEW g \in Frames, NEW o \in Objects,
              Frees(t, g, o) \/ \E n \in Nat : Drops(t, g, o, n)
       PROVE  Nested'
  BY <1>2, <1>10 DEF Frees, Drops
<1>11. ASSUME NEW t \in Threads, \/ \E o \in Objects : Queues(t, o)
                                 \/ \E e \in Entries, b \in Nat : Changes(t, e, b)
       PROVE  Nested'
  BY <1>1, <1>11 DEF Queues, Changes
<1> QED
  BY <1>4, <1>5, <1>6, <1>7, <1>8, <1>9, <1>10, <1>11 DEF Step

LEMMA HeldEntries ==
  ASSUME NEW f \in Frames
  PROVE  Held(f) \subseteq Entries /\ Todo(f) \subseteq Entries
         /\ \A e \in Held(f) \cup Todo(f) : e.obj \in Objects
<1>1. Held(f) \subseteq Entries
  BY DEF Held, Frames
<1>2. Todo(f) \subseteq Entries
  BY DEF Todo, Frames
<1> QED BY <1>1, <1>2 DEF Entries

\* Whatever a frame is inside after a step, it was inside before, unless it
\* has just entered it.
LEMMA HeldBefore ==
  ASSUME TypeOK, Step, NEW u \in Threads, NEW i \in DOMAIN stack'[u],
         NEW d \in Held(stack'[u][i])
  PROVE  \/ /\ i \in DOMAIN stack[u]
            /\ \E c \in Held(stack[u][i]) : c.obj = d.obj /\ c.exclusive = d.exclusive
         \/ \E g \in Frames : EntersOne(u, g, d) /\ i = Depth(u)
<1> DEFINE From == /\ i \in DOMAIN stack[u]
                   /\ \E c \in Held(stack[u][i]) : c.obj = d.obj /\ c.exclusive = d.exclusive
<1>1. AsItWas(u, i) => From
  BY DEF AsItWas
<1>2. \A f, g : f.held = g.held => Held(f) = Held(g)
  BY DEF Held
<1>3. ASSUME stack' = stack
      PROVE  From
  BY <1>3
<1>4. ASSUME NEW t \in Threads, NEW g \in Frames, Started(t, g)
      PROVE  From
  <2>1. Pushes(t, g) /\ Held(g) = {}
    BY <1>4, NothingHeld DEF Started
  <2> QED BY <1>1, <2>1, Pushing
<1>5. ASSUME NEW t \in Threads, NEW g \in Frames, Rewrites(t, g),
             \A e \in Held(g) : \E c \in Held(Top(t)) : c.obj = e.obj /\ c.exclusive = e.exclusive
      PROVE  From
  BY <1>1, <1>5, Rewriting
<1>6. ASSUME NEW t \in Threads, Pops(t)
      PROVE  From
  BY <1>1, <1>6, Popping
<1>7. ASSUME NEW t \in Threads, NEW g \in Frames, NEW e \in Entries, EntersOne(t, g, e)
      PROVE  From \/ \E h \in Frames : EntersOne(u, h, d) /\ i = Depth(u)
  <2>1. Rewrites(t, g) /\ Held(g) = Held(Top(t)) \cup {e}
    BY <1>7 DEF EntersOne
  <2>2. CASE AsItWas(u, i)
    BY <1>1, <2>2
  <2>3. CASE u = t /\ i = Depth(t) /\ stack'[u][i] = g /\ i \in DOMAIN stack[u]
             /\ Top(t) = stack[u][i]
    BY <1>7, <2>1, <2>3
  <2> QED BY <2>1, <2>2, <2>3, Rewriting
<1>8. ASSUME NEW t \in Threads, NEW g \in Frames, Went(t, g)
      PROVE  From
  BY <1>2, <1>5, <1>8 DEF Went
<1>9. ASSUME NEW t \in Threads, NEW g \in Frames, Failed(t, g)
      PROVE  From
  BY <1>5, <1>9 DEF Failed
<1>10. ASSUME NEW t \in Threads, NEW g \in Frames, NEW o \in Objects,
              Frees(t, g, o) \/ \E n \in Nat : Drops(t, g, o, n)
       PROVE  From
  BY <1>2, <1>5, <1>10 DEF Frees, Drops
<1>11. ASSUME NEW t \in Threads, NEW g \in Frames, NEW e \in Entries, LeavesOne(t, g, e)
       PROVE  From
  BY <1>5, <1>11 DEF LeavesOne
<1>12. ASSUME NEW t \in Threads, Ended(t) \/ \E e \in Entries : LeavesLast(t, e)
       PROVE  From
  BY <1>6, <1>12 DEF Ended, LeavesLast
<1>13. ASSUME Stays \/ Reloads \/ \E p \in [Objects -> BOOLEAN] : Pends(p)
      PROVE  From
  BY <1>3, <1>13 DEF Stays, Reloads, Pends
<1>14. ASSUME \E o \in Objects, b \in Nat : Makes(o, b)
      PROVE  From
  BY <1>3, <1>14 DEF Makes
<1>15. ASSUME NEW t \in Threads, \/ \E o \in Objects : Queues(t, o)
                                 \/ \E e \in Entries, b \in Nat : Changes(t, e, b)
       PROVE  From
  BY <1>3, <1>15 DEF Queues, Changes
<1> HIDE DEF From
<1>16. From \/ \E g \in Frames : EntersOne(u, g, d) /\ i = Depth(u)
  BY <1>4, <1>7, <1>8, <1>9, <1>10, <1>11, <1>12, <1>13, <1>14, <1>15 DEF Step
<1> QED BY <1>16 DEF From

LEMMA TodoBefore ==
  ASSUME TypeOK, Step, NEW u \in Threads, NEW i \in DOMAIN stack'[u],
         NEW d \in Todo(stack'[u][i])
  PROVE  (i \in DOMAIN stack[u] /\ d \in Todo(stack[u][i])) \/ (made[d.obj] > 0 /\ made' = made)
<1> DEFINE From == i \in DOMAIN stack[u] /\ d \in Todo(stack[u][i])
<1>1. AsItWas(u, i) => From
  BY DEF AsItWas
<1>2. \A g \in Frames : g.todo = <<>> => Todo(g) = {}
  BY NothingHeld
<1>3. ASSUME stack' = stack
      PROVE  From
  BY <1>3
<1>4. ASSUME NEW t \in Threads, NEW g \in Frames, Started(t, g)
      PROVE  From \/ (made[d.obj] > 0 /\ made' = made)
  <2>1. Pushes(t, g) /\ (\A e \in Todo(g) : made[e.obj] > 0) /\ made' = made
    BY <1>4 DEF Started, others
  <2> QED BY <1>1, <2>1, Pushing
<1>5. ASSUME NEW t \in Threads, NEW g \in Frames, Rewrites(t, g), Todo(g) \subseteq Todo(Top(t))
      PROVE  From
  BY <1>1, <1>5, Rewriting
<1>6. ASSUME NEW t \in Threads, Pops(t)
      PROVE  From
  BY <1>1, <1>6, Popping
<1>7. ASSUME NEW t \in Threads, NEW g \in Frames, Went(t, g) \/ Failed(t, g)
      PROVE  From
  BY <1>2, <1>5, <1>7 DEF Went, Failed
<1>8. ASSUME NEW t \in Threads, NEW g \in Frames, NEW o \in Objects,
              Frees(t, g, o) \/ \E n \in Nat : Drops(t, g, o, n)
      PROVE  From
  BY <1>2, <1>5, <1>8 DEF Frees, Drops
<1>9. ASSUME NEW t \in Threads, NEW g \in Frames, NEW e \in Entries,
             EntersOne(t, g, e) \/ LeavesOne(t, g, e)
      PROVE  From
  BY <1>2, <1>5, <1>9 DEF EntersOne, LeavesOne
<1>10. ASSUME NEW t \in Threads, Ended(t) \/ \E e \in Entries : LeavesLast(t, e)
       PROVE  From
  BY <1>6, <1>10 DEF Ended, LeavesLast
<1>11. ASSUME Stays \/ Reloads \/ \E p \in [Objects -> BOOLEAN] : Pends(p)
      PROVE  From
  BY <1>3, <1>11 DEF Stays, Reloads, Pends
<1>12. ASSUME \E o \in Objects, b \in Nat : Makes(o, b)
      PROVE  From
  BY <1>3, <1>12 DEF Makes
<1>13. ASSUME NEW t \in Threads, \/ \E o \in Objects : Queues(t, o)
                                 \/ \E e \in Entries, b \in Nat : Changes(t, e, b)
       PROVE  From
  BY <1>3, <1>13 DEF Queues, Changes
<1> HIDE DEF From
<1>14. From \/ (made[d.obj] > 0 /\ made' = made)
  BY <1>4, <1>7, <1>8, <1>9, <1>10, <1>11, <1>12, <1>13 DEF Step
<1> QED BY <1>14 DEF From

-----------------------------------------------------------------------------
(* The entries *)

LEMMA AloneStays ==
  ASSUME TypeOK, TypeOK', Counted, Counted', Exclusively, Alone, Step
  PROVE  Alone'
<1> SUFFICES ASSUME NEW u \in Threads, NEW i \in DOMAIN stack'[u],
                    NEW d \in Held(stack'[u][i]), d.exclusive
             PROVE  gate'[d.obj].exclusive
  BY DEF Alone
<1>0. d.obj \in Objects /\ d \in Entries
  <2>1. stack'[u][i] \in Frames
    BY DEF TypeOK, Stacks
  <2> QED BY <2>1, HeldEntries
<1>1. CASE /\ i \in DOMAIN stack[u]
           /\ \E c \in Held(stack[u][i]) : c.obj = d.obj /\ c.exclusive = d.exclusive
  <2>1. gate[d.obj].exclusive /\ HoldsIn(stack[u][i], d.obj)
    BY <1>1 DEF Alone, HoldsIn
  <2>2. gate[d.obj].depth = 1 /\ gate[d.obj].owner = u
    BY <1>0, <1>1, <2>1, Holder DEF Exclusively
  <2>3. CASE Keeps
    BY <2>1, <2>3 DEF Keeps
  <2>4. ASSUME NEW t \in Threads, NEW g \in Frames, NEW e \in Entries, EntersOne(t, g, e)
        PROVE  gate'[d.obj].exclusive
    <3>1. Admits(t, e) /\ gate' = [gate EXCEPT ![e.obj] = Entered(gate[e.obj], t, e.exclusive)]
      BY <2>4 DEF EntersOne
    <3>2. e.obj # d.obj
      BY <2>1, <2>2, <3>1, ProxyCoreAssumption DEF Admits
    <3> QED BY <1>0, <2>1, <3>1, <3>2 DEF TypeOK
  <2>5. ASSUME NEW t \in Threads, NEW e \in Entries, LeavesSome(t, e)
        PROVE  gate'[d.obj].exclusive
    <3>1. Leaves(t, e)
      BY <2>5, LeavesFrames
    <3>2. CASE e.obj # d.obj
      BY <1>0, <2>1, <3>1, <3>2 DEF Leaves, TypeOK
    <3>3. CASE e.obj = d.obj
      <4>1. gate'[d.obj] = OpenGate
        <5>1. gate' = [gate EXCEPT ![d.obj] = Left(gate[d.obj])]
          BY <3>1, <3>3 DEF Leaves
        <5>2. Left(gate[d.obj]) = OpenGate
          BY <2>2 DEF Left
        <5> QED BY <1>0, <5>1, <5>2 DEF TypeOK
      <4>2. i \in FramesOn(u, d.obj)'
        BY DEF FramesOn, HoldsIn
      <4>3. u # Open
        BY ProxyCoreAssumption
      <4> QED BY <1>0, <4>1, <4>2, <4>3 DEF OpenGate, Counted
    <3> QED BY <3>2, <3>3
  <2> QED BY <2>3, <2>4, <2>5, StepKinds DEF Enters
<1>2. ASSUME NEW g \in Frames, EntersOne(u, g, d)
      PROVE  gate'[d.obj].exclusive
  <2>1. Admits(u, d) /\ gate' = [gate EXCEPT ![d.obj] = Entered(gate[d.obj], u, d.exclusive)]
    BY <1>2 DEF EntersOne
  <2>2. gate[d.obj].owner # u
    BY <2>1, ProxyCoreAssumption DEF Admits
  <2> QED BY <1>0, <2>1, <2>2 DEF Entered, TypeOK
<1> QED BY <1>1, <1>2, HeldBefore

LEMMA MadeGrows ==
  ASSUME TypeOK, Step
  PROVE  \A o \in Objects : made[o] > 0 => made'[o] = made[o]
<1> USE DEF values, others
<1>1. CASE \E o \in Objects, b \in Nat : Makes(o, b)
  BY <1>1 DEF Makes, TypeOK
<1>2. CASE Stays \/ Reloads \/ \E p \in [Objects -> BOOLEAN] : Pends(p)
  BY <1>2 DEF Stays, Reloads, Pends
<1>3. ASSUME NEW t \in Threads, NEW g \in Frames, Started(t, g) \/ Went(t, g) \/ Failed(t, g)
      PROVE  made' = made
  BY <1>3 DEF Started, Went, Failed
<1>4. ASSUME NEW t \in Threads, Ended(t) \/ \E e \in Entries : LeavesLast(t, e)
      PROVE  made' = made
  BY <1>4 DEF Ended, LeavesLast, Leaves
<1>5. ASSUME NEW t \in Threads, NEW g \in Frames, NEW e \in Entries,
             EntersOne(t, g, e) \/ LeavesOne(t, g, e)
      PROVE  made' = made
  BY <1>5 DEF EntersOne, LeavesOne, Leaves
<1>6. ASSUME NEW t \in Threads, NEW g \in Frames, NEW o \in Objects,
              Frees(t, g, o) \/ \E n \in Nat : Drops(t, g, o, n)
      PROVE  made' = made
  BY <1>6 DEF Frees, Drops
<1>7. ASSUME NEW t \in Threads, \/ \E o \in Objects : Queues(t, o)
                                \/ \E e \in Entries, b \in Nat : Changes(t, e, b)
      PROVE  made' = made
  BY <1>7 DEF Queues, Changes
<1>8. \/ \E o \in Objects, b \in Nat : Makes(o, b)
      \/ made' = made
  BY <1>2, <1>3, <1>4, <1>5, <1>6, <1>7 DEF Step, Stays, Reloads, Pends
<1> QED BY <1>1, <1>8

LEMMA FramesMadeStays ==
  ASSUME TypeOK, TypeOK', FramesMade, Step
  PROVE  FramesMade'
<1> SUFFICES ASSUME NEW u \in Threads, NEW i \in DOMAIN stack'[u],
                    NEW d \in Held(stack'[u][i]) \cup Todo(stack'[u][i])
             PROVE  made'[d.obj] > 0
  BY DEF FramesMade
<1>0. d.obj \in Objects
  <2>1. stack'[u][i] \in Frames
    BY DEF TypeOK, Stacks
  <2> QED BY <2>1, HeldEntries
<1>1. CASE d \in Todo(stack'[u][i])
  BY <1>0, <1>1, TodoBefore, MadeGrows DEF FramesMade
<1>2. CASE d \in Held(stack'[u][i])
  <2>1. CASE /\ i \in DOMAIN stack[u]
             /\ \E c \in Held(stack[u][i]) : c.obj = d.obj /\ c.exclusive = d.exclusive
    BY <1>0, <2>1, MadeGrows DEF FramesMade
  <2>2. ASSUME NEW g \in Frames, EntersOne(u, g, d)
        PROVE  made'[d.obj] > 0
    <3>1. d \in Todo(stack[u][Depth(u)]) /\ Depth(u) \in DOMAIN stack[u]
      BY <2>2 DEF EntersOne, Rewrites, Top
    <3> QED BY <1>0, <3>1, MadeGrows DEF FramesMade
  <2> QED BY <1>2, <2>1, <2>2, HeldBefore
<1> QED BY <1>1, <1>2

LEMMA TopHolds ==
  ASSUME TypeOK, Counted, FramesMade, NEW t \in Threads, Depth(t) \in DOMAIN stack[t],
         NEW o \in Objects, HoldsIn(Top(t), o)
  PROVE  /\ made[o] > 0 /\ gate[o].owner = t /\ gate[o].depth > 0
         /\ gate[o].depth = 1 => FramesOn(t, o) = {Depth(t)}
<1>1. HoldsIn(stack[t][Depth(t)], o)
  BY DEF Top
<1>2. made[o] > 0
  BY <1>1 DEF FramesMade, HoldsIn
<1> QED BY <1>1, <1>2, Holder

LEMMA SoleHolder ==
  ASSUME TypeOK, Counted, NEW o \in Objects, gate[o].depth = 1,
         NEW t \in Threads, NEW i \in DOMAIN stack[t], HoldsIn(stack[t][i], o),
         NEW u \in Threads, NEW j \in DOMAIN stack[u], HoldsIn(stack[u][j], o)
  PROVE  u = t /\ j = i
<1>1. u = t
  BY Holder
<1>2. FramesOn(t, o) = {i} /\ j \in FramesOn(t, o)
  BY <1>1, Holder DEF FramesOn
<1> QED BY <1>1, <1>2

LEMMA AllMadeStays ==
  ASSUME TypeOK, Counted, FramesMade, AllMade, Step
  PROVE  AllMade'
<1> USE DEF values, others
<1>1. CASE Reloads
  BY <1>1 DEF Reloads, AllMade, TypeOK
<1>2. ASSUME NEW o \in Objects, NEW b \in Nat, Makes(o, b)
      PROVE  AllMade'
  BY <1>2 DEF Makes, AllMade, TypeOK
<1>3. ASSUME NEW t \in Threads, NEW g \in Frames, NEW o \in Objects, Frees(t, g, o)
      PROVE  AllMade'
  BY <1>3 DEF Frees, AllMade, TypeOK
<1>4. ASSUME NEW t \in Threads, NEW g \in Frames, NEW o \in Objects, NEW n \in Nat,
             Drops(t, g, o, n)
      PROVE  AllMade'
  <2>1. HoldsIn(Top(t), o) /\ Depth(t) \in DOMAIN stack[t]
    BY <1>4 DEF Drops, Rewrites, HoldsIn, Held
  <2>2. made[o] > 0
    BY <2>1, TopHolds
  <2> QED BY <1>4, <2>2 DEF Drops, AllMade, TypeOK
<1>5. ASSUME NEW t \in Threads, NEW e \in Entries, LeavesSome(t, e)
      PROVE  AllMade'
  <2>1. Leaves(t, e) /\ Depth(t) \in DOMAIN stack[t] /\ e.obj \in Objects
    BY <1>5, LeavesFrames DEF FramesOn, Entries
  <2>2. made[e.obj] > 0
    BY <2>1 DEF Leaves, FramesMade, Top
  <2> QED BY <2>1, <2>2 DEF Leaves, AllMade, TypeOK
<1>6. ASSUME NEW t \in Threads, NEW o \in Objects, Queues(t, o)
      PROVE  AllMade'
  <2>1. made[o] > 0
    BY <1>6, OwnerHolds DEF Queues, FramesMade, HoldsIn
  <2> QED BY <1>6, <2>1 DEF Queues, AllMade, TypeOK
<1>7. CASE UNCHANGED <<made, generation, drops, queue, live>>
  BY <1>7 DEF AllMade
<1>8. CASE Stays \/ \E p \in [Objects -> BOOLEAN] : Pends(p)
  BY <1>7, <1>8 DEF Stays, Pends
<1>9. ASSUME NEW t \in Threads, NEW g \in Frames, Started(t, g) \/ Went(t, g) \/ Failed(t, g)
      PROVE  AllMade'
  BY <1>7, <1>9 DEF Started, Went, Failed
<1>10. ASSUME NEW t \in Threads, Ended(t)
       PROVE  AllMade'
  BY <1>7, <1>10 DEF Ended
<1>11. ASSUME NEW t \in Threads, NEW g \in Frames, NEW e \in Entries, EntersOne(t, g, e)
       PROVE  AllMade'
  BY <1>7, <1>11 DEF EntersOne
<1>12. ASSUME NEW t \in Threads, NEW e \in Entries, NEW b \in Nat, Changes(t, e, b)
       PROVE  AllMade'
  BY <1>7, <1>12 DEF Changes
<1> QED
  BY <1>1, <1>2, <1>3, <1>4, <1>5, <1>6, <1>8, <1>9, <1>10, <1>11, <1>12 DEF Step, LeavesSome

-----------------------------------------------------------------------------
(* The values *)

LEMMA FreesAlone ==
  ASSUME TypeOK, Nested, Releases, NEW t \in Threads, NEW g \in Frames, NEW o \in Objects,
         Frees(t, g, o)
  PROVE  /\ gate[o].depth = 1 /\ HoldsIn(Top(t), o) /\ Depth(t) \in DOMAIN stack[t]
         /\ Top(t) = stack[t][Depth(t)] /\ ReleaseFits(t, Top(t)) /\ o = Head(Top(t).held).obj
<1>a. /\ Rewrites(t, g) /\ g.held = Top(t).held /\ o = Head(g.held).obj /\ HoldsIn(g, o)
      /\ Top(t).pc \in {"free", "leave"} /\ (Top(t).pc = "leave" => gate[o].depth = 1)
  BY DEF Frees
<1>b. HoldsIn(Top(t), o) /\ o = Head(Top(t).held).obj
  BY <1>a DEF HoldsIn, Held
<1>1. Depth(t) \in DOMAIN stack[t] /\ Top(t) = stack[t][Depth(t)]
  BY <1>a DEF Rewrites, Top
<1>2. ReleaseFits(t, Top(t)) /\ Shaped(Top(t))
  BY <1>1 DEF Releases, Nested
<1>3. Top(t).pc = "free" => gate[o].depth = 1
  BY <1>b, <1>2 DEF Shaped, ReleaseFits
<1> QED BY <1>a, <1>b, <1>1, <1>2, <1>3

LEMMA LiveHeldStays ==
  ASSUME TypeOK, TypeOK', Nested, Releases, Counted, LiveHeld, Step
  PROVE  LiveHeld'
<1> USE DEF values, others
<1> SUFFICES ASSUME NEW u \in Threads, NEW i \in DOMAIN stack'[u],
                    stack'[u][i].pc \in {"enter", "entered", "running"},
                    NEW d \in Held(stack'[u][i])
             PROVE  live'[d.obj]
  BY DEF LiveHeld
<1>0. d.obj \in Objects
  <2>1. stack'[u][i] \in Frames
    BY DEF TypeOK, Stacks
  <2> QED BY <2>1, HeldEntries
<1>a. AsItWas(u, i) => live[d.obj]
  BY DEF AsItWas, LiveHeld
<1>b. \A f, g : f.held = g.held => Held(f) = Held(g)
  BY DEF Held
<1>1. ASSUME live' = live /\ stack' = stack
      PROVE  live'[d.obj]
  BY <1>1 DEF LiveHeld
<1>2. ASSUME NEW o \in Objects, NEW b \in Nat, Makes(o, b)
      PROVE  live'[d.obj]
  BY <1>0, <1>2 DEF Makes, LiveHeld, TypeOK
<1>3. ASSUME NEW t \in Threads, NEW g \in Frames, Started(t, g)
      PROVE  live'[d.obj]
  <2>1. Pushes(t, g) /\ Held(g) = {} /\ live' = live
    BY <1>3, NothingHeld DEF Started
  <2> QED BY <1>a, <2>1, Pushing
<1>4. ASSUME NEW t \in Threads, Pops(t), live' = live
      PROVE  live'[d.obj]
  BY <1>4, <1>a, Popping
<1>5. ASSUME NEW t \in Threads, NEW g \in Frames, Rewrites(t, g), live' = live,
             g.pc \notin {"enter", "entered", "running"}
      PROVE  live'[d.obj]
  BY <1>5, <1>a, Rewriting
<1>6. ASSUME NEW t \in Threads, NEW g \in Frames, Went(t, g)
      PROVE  live'[d.obj]
  <2>1. /\ Rewrites(t, g) /\ live' = live /\ Held(g) = Held(Top(t))
        /\ g.pc \in {"running", "leave", "deliver", "handler"}
        /\ (g.pc = "running" => Top(t).pc = "entered")
    BY <1>6, <1>b DEF Went
  <2> QED BY <1>a, <2>1, Rewriting DEF LiveHeld
<1>7. ASSUME NEW t \in Threads, NEW g \in Frames, NEW e \in Entries, EntersOne(t, g, e)
      PROVE  live'[d.obj]
  <2>1. /\ Rewrites(t, g) /\ live' = live /\ Held(g) = Held(Top(t)) \cup {e}
        /\ Top(t).pc = "enter"
        /\ g.pc \in {"enter", "entered"} => live[e.obj]
        /\ g.pc \in {"enter", "free", "entered"}
    BY <1>7 DEF EntersOne
  <2>2. CASE AsItWas(u, i)
    BY <1>a, <2>1, <2>2
  <2>3. CASE u = t /\ i = Depth(t) /\ stack'[u][i] = g /\ i \in DOMAIN stack[u]
             /\ Top(t) = stack[u][i]
    <3>1. live[e.obj]
      BY <2>1, <2>3
    <3>2. \A c \in Held(Top(t)) : live[c.obj]
      BY <2>1, <2>3 DEF LiveHeld
    <3>3. d = e \/ d \in Held(Top(t))
      BY <2>1, <2>3
    <3> QED BY <2>1, <3>1, <3>2, <3>3
  <2> QED BY <2>1, <2>2, <2>3, Rewriting
<1>8. ASSUME NEW t \in Threads, NEW g \in Frames, NEW o \in Objects, Frees(t, g, o)
      PROVE  live'[d.obj]
  <2>1. /\ Rewrites(t, g) /\ g.pc \in {"drop", "leave"}
        /\ live' = [live EXCEPT ![o] = FALSE]
    BY <1>8 DEF Frees
  <2>2. AsItWas(u, i) /\ (u # t \/ i # Depth(t))
    BY <2>1, Rewriting
  <2>3. gate[o].depth = 1 /\ HoldsIn(stack[t][Depth(t)], o) /\ Depth(t) \in DOMAIN stack[t]
    BY <1>8, FreesAlone
  <2>4. d.obj # o
    <3>1. SUFFICES ASSUME d.obj = o
                   PROVE  FALSE
      OBVIOUS
    <3>2. i \in DOMAIN stack[u] /\ HoldsIn(stack[u][i], o)
      BY <2>2, <3>1 DEF AsItWas, HoldsIn
    <3> QED BY <2>2, <2>3, <3>2, SoleHolder
  <2> QED BY <1>0, <1>a, <2>1, <2>2, <2>4 DEF TypeOK
<1>9. ASSUME NEW t \in Threads, NEW g \in Frames, NEW o \in Objects, NEW n \in Nat,
             Drops(t, g, o, n)
      PROVE  live'[d.obj]
  BY <1>5, <1>9 DEF Drops
<1>10. ASSUME NEW t \in Threads, NEW g \in Frames, NEW e \in Entries, LeavesOne(t, g, e)
       PROVE  live'[d.obj]
  BY <1>5, <1>10 DEF LeavesOne, Leaves
<1>11. ASSUME NEW t \in Threads, Ended(t) \/ \E e \in Entries : LeavesLast(t, e)
       PROVE  live'[d.obj]
  BY <1>4, <1>11 DEF Ended, LeavesLast, Leaves
<1>12. ASSUME NEW t \in Threads, NEW g \in Frames, Failed(t, g)
       PROVE  live'[d.obj]
  BY <1>5, <1>12 DEF Failed
<1>13. ASSUME Stays \/ Reloads \/ \E p \in [Objects -> BOOLEAN] : Pends(p)
       PROVE  live'[d.obj]
  BY <1>1, <1>13 DEF Stays, Reloads, Pends
<1>14. ASSUME NEW t \in Threads, \/ \E o \in Objects : Queues(t, o)
                                 \/ \E e \in Entries, b \in Nat : Changes(t, e, b)
       PROVE  live'[d.obj]
  BY <1>1, <1>14 DEF Queues, Changes
<1> QED
  BY <1>2, <1>3, <1>6, <1>7, <1>8, <1>9, <1>10, <1>11, <1>12, <1>13, <1>14 DEF Step

LEMMA TopFits ==
  ASSUME Nested, Releases, NEW t \in Threads, Depth(t) \in DOMAIN stack[t]
  PROVE  Shaped(Top(t)) /\ ReleaseFits(t, Top(t)) /\ Top(t) = stack[t][Depth(t)]
BY DEF Nested, Releases, Top

LEMMA DropsFits ==
  ASSUME TypeOK, Nested, Releases, NEW t \in Threads, NEW g \in Frames, NEW o \in Objects,
         NEW n \in Nat, Drops(t, g, o, n)
  PROVE  /\ gate[o].depth = 1 /\ ~live[o] /\ drops[o] = 0 /\ HoldsIn(Top(t), o)
         /\ Depth(t) \in DOMAIN stack[t] /\ Top(t) = stack[t][Depth(t)]
<1>1. /\ Depth(t) \in DOMAIN stack[t] /\ HoldsIn(Top(t), o) /\ o = Head(Top(t).held).obj
      /\ Top(t).pc = "drop"
  BY DEF Drops, Rewrites, HoldsIn, Held
<1> QED BY <1>1, TopFits DEF ReleaseFits

LEMMA DroppedStays ==
  ASSUME TypeOK, Nested, Releases, AllMade, Dropped, Step
  PROVE  Dropped'
<1> USE DEF values, others
<1>1. CASE UNCHANGED <<drops, live>>
  BY <1>1 DEF Dropped
<1>2. ASSUME NEW o \in Objects, NEW b \in Nat, Makes(o, b)
      PROVE  Dropped'
  BY <1>2 DEF Makes, AllMade, Dropped, TypeOK
<1>3. ASSUME NEW t \in Threads, NEW g \in Frames, NEW o \in Objects, Frees(t, g, o)
      PROVE  Dropped'
  <2>1. live' = [live EXCEPT ![o] = FALSE] /\ drops' = drops
    BY <1>3 DEF Frees
  <2>2. \A q \in Objects : drops[q] <= 1 /\ (live[q] => drops[q] <= 0)
    BY DEF Dropped, TypeOK
  <2> QED BY <2>1, <2>2 DEF Dropped, TypeOK
<1>4. ASSUME NEW t \in Threads, NEW g \in Frames, NEW o \in Objects, NEW n \in Nat,
             Drops(t, g, o, n)
      PROVE  Dropped'
  <2>1. ~live[o] /\ drops[o] = 0
    BY <1>4, DropsFits
  <2>2. drops' = [drops EXCEPT ![o] = drops[o] + 1] /\ live' = live
    BY <1>4 DEF Drops
  <2> QED BY <2>1, <2>2 DEF Dropped, TypeOK
<1>5. CASE Stays \/ Reloads \/ \E p \in [Objects -> BOOLEAN] : Pends(p)
  BY <1>1, <1>5 DEF Stays, Reloads, Pends
<1>6. ASSUME NEW t \in Threads, NEW g \in Frames, Started(t, g) \/ Went(t, g) \/ Failed(t, g)
      PROVE  Dropped'
  BY <1>1, <1>6 DEF Started, Went, Failed
<1>7. ASSUME NEW t \in Threads, Ended(t) \/ \E e \in Entries : LeavesLast(t, e)
      PROVE  Dropped'
  BY <1>1, <1>7 DEF Ended, LeavesLast, Leaves
<1>8. ASSUME NEW t \in Threads, NEW g \in Frames, NEW e \in Entries,
             EntersOne(t, g, e) \/ LeavesOne(t, g, e)
      PROVE  Dropped'
  BY <1>1, <1>8 DEF EntersOne, LeavesOne, Leaves
<1>9. ASSUME NEW t \in Threads, \/ \E o \in Objects : Queues(t, o)
                                \/ \E e \in Entries, b \in Nat : Changes(t, e, b)
      PROVE  Dropped'
  BY <1>1, <1>9 DEF Queues, Changes
<1> QED BY <1>2, <1>3, <1>4, <1>5, <1>6, <1>7, <1>8, <1>9 DEF Step

\* The object of a frame that is not in user code, and is alone with it, is left
\* alone by every step that leaves the frame as it was.
LEMMA Undisturbed ==
  ASSUME TypeOK, TypeOK', Nested, Counted, FramesMade, Step,
         NEW u \in Threads, NEW i \in DOMAIN stack'[u], AsItWas(u, i),
         stack[u][i].pc \notin {"running", "handler"},
         NEW o \in Objects, HoldsIn(stack[u][i], o), gate[o].depth = 1
  PROVE  /\ gate'[o] = gate[o] /\ drops'[o] = drops[o] /\ queue'[o] = queue[o]
         /\ ~live[o] => ~live'[o]
<1> USE DEF values, others
<1> DEFINE Same == /\ gate'[o] = gate[o] /\ drops'[o] = drops[o] /\ queue'[o] = queue[o]
                   /\ ~live[o] => ~live'[o]
<1>1. i \in DOMAIN stack[u] /\ gate[o].owner = u /\ u # Open
  BY Holder, ProxyCoreAssumption DEF AsItWas
<1>2. i = Depth(u) /\ Top(u) = stack[u][i] /\ stack[u] # <<>>
  <2>1. i \in 1 .. Depth(u) /\ Depth(u) \in Nat /\ Depth(u) = Len(stack[u])
    BY <1>1, OnStack DEF TypeOK, Depth
  <2>2. ~(i < Len(stack[u]))
    BY <1>1 DEF Nested
  <2> QED BY <1>1, <2>1, <2>2 DEF Top
<1>3. ASSUME UNCHANGED <<gate, drops, queue, live>>
      PROVE  Same
  BY <1>3
<1>4. ASSUME NEW q \in Objects, NEW b \in Nat, Makes(q, b)
      PROVE  Same
  <2>1. made[o] > 0
    BY <1>1 DEF FramesMade, HoldsIn
  <2>2. q # o
    BY <1>4, <2>1 DEF Makes
  <2> QED BY <1>4, <2>2 DEF Makes, TypeOK
<1>5. ASSUME NEW t \in Threads, NEW g \in Frames, NEW q \in Objects, Frees(t, g, q)
      PROVE  Same
  BY <1>5 DEF Frees, TypeOK
<1>6. ASSUME NEW t \in Threads, Depth(t) \in DOMAIN stack[t], HoldsIn(Top(t), o)
      PROVE  t = u
  BY <1>1, <1>6, Holder DEF Top
<1>7. ASSUME NEW t \in Threads, NEW g \in Frames, NEW q \in Objects, NEW n \in Nat,
             Drops(t, g, q, n)
      PROVE  Same
  <2>1. Rewrites(t, g) /\ HoldsIn(Top(t), q) /\ Depth(t) \in DOMAIN stack[t]
    BY <1>7 DEF Drops, HoldsIn, Held, Rewrites
  <2>2. g # Top(t)
    BY <1>7 DEF Drops
  <2>3. u # t
    BY <1>2, <2>1, <2>2 DEF AsItWas, Rewrites
  <2>4. q # o
    BY <1>6, <2>1, <2>3
  <2> QED BY <1>7, <2>4 DEF Drops, TypeOK
<1>8. ASSUME NEW t \in Threads, NEW e \in Entries, Leaves(t, e), Depth(t) \in DOMAIN stack[t],
             u # t \/ i # Depth(t)
      PROVE  Same
  <2>1. e.obj # o
    BY <1>2, <1>6, <1>8 DEF Leaves, HoldsIn
  <2>2. e.obj \in Objects
    BY DEF Entries
  <2> QED BY <1>8, <2>1, <2>2 DEF Leaves, TypeOK
<1>9. ASSUME NEW t \in Threads, NEW g \in Frames, NEW e \in Entries, LeavesOne(t, g, e)
      PROVE  Same
  <2>1. Leaves(t, e) /\ Rewrites(t, g) /\ Depth(t) \in DOMAIN stack[t]
    BY <1>9 DEF LeavesOne, Rewrites
  <2>2. g # Top(t)
    BY <1>9 DEF LeavesOne, Leaves, HoldsIn
  <2>3. u # t
    BY <1>2, <2>1, <2>2 DEF AsItWas, Rewrites
  <2> QED BY <1>8, <2>1, <2>3
<1>10. ASSUME NEW t \in Threads, NEW e \in Entries, LeavesLast(t, e)
       PROVE  Same
  <2>1. Leaves(t, e) /\ Pops(t) /\ Depth(t) \in DOMAIN stack[t]
    BY <1>10 DEF LeavesLast, Pops
  <2>2. u = t => i # Depth(t)
    BY <2>1, Popping
  <2> QED BY <1>8, <2>1, <2>2
<1>11. ASSUME NEW t \in Threads, NEW g \in Frames, NEW e \in Entries, EntersOne(t, g, e)
       PROVE  Same
  <2>1. Rewrites(t, g) /\ Admits(t, e)
        /\ gate' = [gate EXCEPT ![e.obj] = Entered(gate[e.obj], t, e.exclusive)]
        /\ UNCHANGED <<drops, queue, live>>
    BY <1>11 DEF EntersOne
  <2>a. g # Top(t)
    BY <1>11 DEF EntersOne, HoldsIn
  <2>2. u # t
    BY <1>2, <2>1, <2>a DEF AsItWas, Rewrites
  <2>3. e.obj # o
    BY <1>1, <2>1, <2>2 DEF Admits
  <2> QED BY <2>1, <2>3 DEF TypeOK
<1>12. ASSUME NEW t \in Threads, NEW q \in Objects, Queues(t, q)
       PROVE  Same
  <2>1. InUserCode(t) /\ gate[q].owner = t
    BY <1>12 DEF Queues
  <2>2. u # t
    BY <1>2, <2>1 DEF InUserCode
  <2>3. q # o
    BY <1>1, <2>1, <2>2
  <2> QED BY <1>12, <2>3 DEF Queues, TypeOK
<1>13. ASSUME NEW t \in Threads, NEW g \in Frames, Started(t, g) \/ Went(t, g) \/ Failed(t, g)
       PROVE  Same
  BY <1>3, <1>13 DEF Started, Went, Failed
<1>14. ASSUME Stays \/ Reloads \/ \E p \in [Objects -> BOOLEAN] : Pends(p)
       PROVE  Same
  BY <1>3, <1>14 DEF Stays, Reloads, Pends
<1>15. ASSUME NEW t \in Threads, Ended(t) \/ \E e \in Entries, b \in Nat : Changes(t, e, b)
       PROVE  Same
  BY <1>3, <1>15 DEF Ended, Changes
<1> HIDE DEF Same
<1>16. Same
  BY <1>4, <1>5, <1>7, <1>9, <1>10, <1>11, <1>12, <1>13, <1>14, <1>15 DEF Step
<1> QED BY <1>16 DEF Same

LEMMA HeadHeld ==
  ASSUME NEW f \in Frames, f.held # <<>>
  PROVE  Head(f.held) \in Held(f) /\ Head(f.held).obj \in Objects /\ HoldsIn(f, Head(f.held).obj)
<1>1. f.held \in Seq(Entries)
  BY DEF Frames
<1>2. 1 \in DOMAIN f.held /\ Head(f.held) = f.held[1] /\ f.held[1] \in Entries
  BY <1>1
<1> QED BY <1>2 DEF Held, HoldsIn, Entries

LEMMA ReleasesStay ==
  ASSUME TypeOK, TypeOK', Nested, Counted, Counted', FramesMade, Dropped, RaisesTaken,
         Releases, Step
  PROVE  Releases'
<1> USE DEF values, others
<1> SUFFICES ASSUME NEW u \in Threads, NEW i \in DOMAIN stack'[u],
                    NEW f, f = stack'[u][i]
             PROVE  ReleaseFits(u, f)'
  BY DEF Releases
<1>0. f \in Frames
  BY DEF TypeOK, Stacks
<1>1. ASSUME AsItWas(u, i)
      PROVE  ReleaseFits(u, f)'
  <2>0. i \in DOMAIN stack[u] /\ f = stack[u][i] /\ Shaped(f) /\ ReleaseFits(u, f)
    BY <1>1 DEF AsItWas, Nested, Releases
  <2>1. ASSUME f.kind = "release", f.pc = "enter"
        PROVE  FramesOn(u, Head(f.todo).obj)' = {}
    <3> DEFINE o == Head(f.todo).obj
    <3>1. FramesOn(u, o) = {}
      BY <2>0, <2>1 DEF ReleaseFits
    <3>2. f.todo \in Seq(Entries) /\ f.todo # <<>>
      BY <1>0, <2>0, <2>1 DEF Shaped, Frames
    <3>3. o \in Objects
      <4>1. Head(f.todo) \in Entries
        BY <3>2
      <4> QED BY <4>1 DEF Entries
    <3> HIDE DEF o
    <3>4. ASSUME Keeps
          PROVE  FramesOn(u, o)' = {}
      BY <3>1, <3>3, <3>4, KeepsFrames
    <3>5. ASSUME NEW t \in Threads, NEW g \in Frames, NEW e \in Entries, EntersOne(t, g, e)
          PROVE  FramesOn(u, o)' = {}
      <4>1. Rewrites(t, g) /\ g # Top(t)
        BY <3>5 DEF EntersOne, HoldsIn
      <4>2. i \in 1 .. Depth(u) /\ Depth(u) \in Nat /\ Depth(u) = Len(stack[u])
        BY <2>0, OnStack DEF TypeOK, Depth
      <4>3. ~(i < Len(stack[u]))
        BY <2>0, <2>1 DEF Nested
      <4>4. i = Depth(u) /\ f = Top(u)
        BY <2>0, <4>2, <4>3 DEF Top
      <4>5. u # t
        BY <4>1, <4>4, <1>1 DEF AsItWas, Rewrites
      <4> QED BY <3>1, <3>3, <3>5, <4>5, EntersFrames
    <3>6. ASSUME NEW t \in Threads, NEW e \in Entries, LeavesSome(t, e)
          PROVE  FramesOn(u, o)' = {}
      BY <3>1, <3>3, <3>6, LeavesFrames
    <3>7. FramesOn(u, o)' = {}
      BY <3>4, <3>5, <3>6, StepKinds DEF Enters
    <3> QED BY <3>7 DEF o
  <2>2. ASSUME f.pc # "enter", f.kind = "release" \/ f.pc = "drop"
        PROVE  LET o == Head(f.held).obj
               IN  /\ gate[o].depth = 1 /\ gate'[o] = gate[o] /\ drops'[o] = drops[o]
                   /\ queue'[o] = queue[o] /\ (~live[o] => ~live'[o])
    <3> DEFINE o == Head(f.held).obj
    <3>1. f.held # <<>>
      BY <2>0, <2>2, <1>0 DEF Shaped, Frames
    <3>2. o \in Objects /\ HoldsIn(stack[u][i], o)
      BY <1>0, <2>0, <3>1, HeadHeld
    <3>3. gate[o].depth = 1
      BY <2>0, <2>2 DEF ReleaseFits
    <3>4. stack[u][i].pc \notin {"running", "handler"}
      BY <2>0, <2>2 DEF Shaped
    <3> HIDE DEF o
    <3>5. /\ gate'[o] = gate[o] /\ drops'[o] = drops[o] /\ queue'[o] = queue[o]
          /\ ~live[o] => ~live'[o]
      BY <1>1, <3>2, <3>3, <3>4, Undisturbed
    <3> QED BY <3>3, <3>5 DEF o
  <2>3. f.pc = "drop" => f.pc # "enter"
    OBVIOUS
  <2> QED BY <2>0, <2>1, <2>2, <2>3 DEF ReleaseFits
<1>2. ASSUME f.kind # "release", f.pc # "drop"
      PROVE  ReleaseFits(u, f)'
  BY <1>2 DEF ReleaseFits
<1>3. ASSUME stack' = stack
      PROVE  ReleaseFits(u, f)'
  BY <1>1, <1>3 DEF AsItWas
<1>4. ASSUME NEW t \in Threads, NEW g \in Frames, Started(t, g)
      PROVE  ReleaseFits(u, f)'
  <2>1. Pushes(t, g) /\ g.pc \in {"enter", "deliver"} /\ Shaped(g) /\ g.held = <<>>
        /\ (g.kind = "release" => gate[Head(g.todo).obj].owner # t) /\ gate' = gate
    BY <1>4 DEF Started
  <2>2. CASE u = t /\ f = g
    <3>1. ASSUME g.kind = "release", g.pc = "enter"
          PROVE  FramesOn(t, Head(g.todo).obj)' = {}
      <4> DEFINE o == Head(g.todo).obj
      <4>1. g.todo \in Seq(Entries) /\ g.todo # <<>>
        BY <2>1, <3>1 DEF Shaped, Frames
      <4>2. o \in Objects /\ gate[o].owner # t
        <5>1. Head(g.todo) \in Entries
          BY <4>1
        <5> QED BY <2>1, <3>1, <5>1 DEF Entries
      <4> HIDE DEF o
      <4>3. FramesOn(t, o)' = {}
        BY <2>1, <4>2 DEF Counted
      <4> QED BY <4>3 DEF o
    <3>2. g.kind = "release" => g.pc = "enter"
      BY <2>1 DEF Shaped
    <3> QED BY <2>1, <2>2, <3>1, <3>2 DEF ReleaseFits
  <2> QED BY <1>1, <2>1, <2>2, Pushing
<1>5. ASSUME NEW t \in Threads, Pops(t)
      PROVE  ReleaseFits(u, f)'
  BY <1>1, <1>5, Popping
<1>6. ASSUME NEW t \in Threads, NEW g \in Frames, Rewrites(t, g), g.kind # "release",
             g.pc # "drop"
      PROVE  ReleaseFits(u, f)'
  BY <1>1, <1>2, <1>6, Rewriting
<1>7. ASSUME NEW t \in Threads, NEW g \in Frames, NEW e \in Entries, EntersOne(t, g, e)
      PROVE  ReleaseFits(u, f)'
  <2>1. /\ Rewrites(t, g) /\ Head(Top(t).todo) = e /\ Head(g.held) = e /\ Admits(t, e)
        /\ g.kind = Top(t).kind /\ Top(t).pc = "enter"
        /\ g.pc \in {"enter", "free", "entered"} /\ (g.kind = "release" <=> g.pc = "free")
        /\ gate' = [gate EXCEPT ![e.obj] = Entered(gate[e.obj], t, e.exclusive)]
        /\ UNCHANGED <<drops, queue>>
    BY <1>7 DEF EntersOne
  <2>2. CASE u = t /\ f = g
    <3>1. CASE g.kind = "release"
      <4>1. e.obj \in Objects
        BY DEF Entries
      <4>2. FramesOn(t, e.obj) = {}
        BY <2>1, <3>1, TopFits DEF ReleaseFits, Rewrites
      <4>3. gate[e.obj].owner # t
        BY <4>1, <4>2, OwnerHolds DEF FramesOn
      <4>4. gate[e.obj].owner = Open
        BY <2>1, <4>3 DEF Admits
      <4>5. gate'[e.obj].depth = 1
        BY <2>1, <4>1, <4>3 DEF Entered, TypeOK
      <4>6. drops'[e.obj] = 0 => queue'[e.obj] = 0
        BY <2>1, <4>1, <4>4 DEF RaisesTaken
      <4> QED BY <2>1, <2>2, <3>1, <4>5, <4>6 DEF ReleaseFits
    <3> QED BY <1>2, <2>1, <2>2, <3>1
  <2> QED BY <1>1, <2>1, <2>2, Rewriting
<1>8. ASSUME NEW t \in Threads, NEW g \in Frames, NEW o \in Objects, Frees(t, g, o)
      PROVE  ReleaseFits(u, f)'
  <2>1. /\ Rewrites(t, g) /\ o = Head(g.held).obj /\ g.kind = Top(t).kind
        /\ Top(t).pc \in {"free", "leave"} /\ g.pc \in {"drop", "leave"}
        /\ (g.pc = "drop" => live[o])
        /\ live' = [live EXCEPT ![o] = FALSE] /\ UNCHANGED <<gate, queue, drops>>
    BY <1>8 DEF Frees
  <2>2. gate[o].depth = 1 /\ ReleaseFits(t, Top(t)) /\ o = Head(Top(t).held).obj
    BY <1>8, FreesAlone
  <2>3. CASE u = t /\ f = g
    <3>1. g.pc = "drop" => drops[o] = 0
      BY <2>1 DEF Dropped, TypeOK
    <3>2. g.kind = "release" => (drops[o] = 0 => queue[o] = 0)
      BY <2>1, <2>2 DEF ReleaseFits
    <3>3. ~live'[o] /\ g.pc # "enter"
      BY <2>1 DEF TypeOK
    <3> QED BY <2>1, <2>2, <2>3, <3>1, <3>2, <3>3 DEF ReleaseFits
  <2> QED BY <1>1, <2>1, <2>3, Rewriting
<1>9. ASSUME NEW t \in Threads, NEW g \in Frames, NEW o \in Objects, NEW n \in Nat,
             Drops(t, g, o, n)
      PROVE  ReleaseFits(u, f)'
  <2>1. /\ Rewrites(t, g) /\ o = Head(g.held).obj /\ g.pc = "leave"
        /\ drops' = [drops EXCEPT ![o] = drops[o] + 1] /\ gate' = gate
    BY <1>9 DEF Drops
  <2>2. gate[o].depth = 1
    BY <1>9, DropsFits
  <2>3. CASE u = t /\ f = g
    <3>1. drops'[o] # 0
      BY <2>1 DEF TypeOK
    <3> QED BY <2>1, <2>2, <2>3, <3>1 DEF ReleaseFits
  <2> QED BY <1>1, <2>1, <2>3, Rewriting
<1>10. ASSUME NEW t \in Threads, NEW g \in Frames, Went(t, g) \/ Failed(t, g)
       PROVE  ReleaseFits(u, f)'
  BY <1>6, <1>10 DEF Went, Failed
<1>11. ASSUME NEW t \in Threads, NEW g \in Frames, NEW e \in Entries, LeavesOne(t, g, e)
       PROVE  ReleaseFits(u, f)'
  BY <1>6, <1>11 DEF LeavesOne
<1>12. ASSUME NEW t \in Threads, Ended(t) \/ \E e \in Entries : LeavesLast(t, e)
       PROVE  ReleaseFits(u, f)'
  BY <1>5, <1>12 DEF Ended, LeavesLast
<1>13. ASSUME Stays \/ Reloads \/ \E p \in [Objects -> BOOLEAN] : Pends(p)
       PROVE  ReleaseFits(u, f)'
  BY <1>3, <1>13 DEF Stays, Reloads, Pends
<1>14. ASSUME \E o \in Objects, b \in Nat : Makes(o, b)
       PROVE  ReleaseFits(u, f)'
  BY <1>3, <1>14 DEF Makes
<1>15. ASSUME NEW t \in Threads, \/ \E o \in Objects : Queues(t, o)
                                 \/ \E e \in Entries, b \in Nat : Changes(t, e, b)
       PROVE  ReleaseFits(u, f)'
  BY <1>3, <1>15 DEF Queues, Changes
<1> QED
  BY <1>4, <1>7, <1>8, <1>9, <1>10, <1>11, <1>12, <1>13, <1>14, <1>15 DEF Step

-----------------------------------------------------------------------------
(* The figure *)

\* An entry that may have changed its object stays in its frame until it
\* leaves.
LEMMA ChangingStays ==
  ASSUME TypeOK, Step, NEW o \in Objects, Changing(o)
  PROVE  \/ Changing(o)'
         \/ \E t \in Threads, e \in Entries : LeavesSome(t, e) /\ e.obj = o /\ e.changed
<1> DEFINE Goal == \/ Changing(o)'
                   \/ \E t \in Threads, e \in Entries : LeavesSome(t, e) /\ e.obj = o /\ e.changed
<1>a. PICK u \in Threads : \E i \in DOMAIN stack[u] :
        /\ stack[u][i].pc # "enter"
        /\ \E e \in Held(stack[u][i]) : e.obj = o /\ e.exclusive /\ e.changed
  BY DEF Changing
<1>1. PICK i \in DOMAIN stack[u] :
        /\ stack[u][i].pc # "enter"
        /\ \E e \in Held(stack[u][i]) : e.obj = o /\ e.exclusive /\ e.changed
  BY <1>a
<1>2. PICK c \in Held(stack[u][i]) : c.obj = o /\ c.exclusive /\ c.changed
  BY <1>1
<1>3. ASSUME i \in DOMAIN stack'[u], stack'[u][i].pc # "enter", c \in Held(stack'[u][i])
      PROVE  Goal
  BY <1>2, <1>3 DEF Changing
<1>4. ASSUME i \in DOMAIN stack'[u], stack'[u][i] = stack[u][i]
      PROVE  Goal
  BY <1>1, <1>2, <1>3, <1>4
<1>5. \A f, g : f.held = g.held => Held(f) = Held(g)
  BY DEF Held
<1>6. ASSUME stack' = stack
      PROVE  Goal
  BY <1>4, <1>6
<1>7. ASSUME NEW t \in Threads, NEW g \in Frames, Started(t, g)
      PROVE  Goal
  <2>1. Pushes(t, g)
    BY <1>7 DEF Started
  <2> QED BY <1>1, <1>4, <2>1 DEF Pushes
<1>8. ASSUME NEW t \in Threads, Ended(t)
      PROVE  Goal
  <2>1. Pops(t) /\ Held(Top(t)) = {}
    BY <1>8 DEF Ended, Held
  <2>2. u # t \/ i # Depth(t)
    BY <1>2, <2>1 DEF Top
  <2> QED BY <1>1, <1>4, <2>1, <2>2 DEF Pops
<1>9. ASSUME NEW t \in Threads, NEW e \in Entries, LeavesLast(t, e)
      PROVE  Goal
  <2>1. Pops(t) /\ Held(Top(t)) = {e} /\ LeavesSome(t, e)
    BY <1>9 DEF LeavesLast, LeavesSome
  <2>2. CASE u # t \/ i # Depth(t)
    BY <1>1, <1>4, <2>1, <2>2 DEF Pops
  <2>3. CASE u = t /\ i = Depth(t)
    <3>1. c = e
      BY <1>2, <2>1, <2>3 DEF Top
    <3> QED BY <1>2, <2>1, <3>1
  <2> QED BY <2>2, <2>3
<1>10. ASSUME NEW t \in Threads, NEW g \in Frames, Rewrites(t, g),
              Top(t).pc = "enter" \/ (g.pc # "enter" /\ (c \in Held(Top(t)) => c \in Held(g)))
       PROVE  Goal
  <2>1. i \in DOMAIN stack'[u]
    BY <1>10 DEF Rewrites
  <2>2. CASE u # t \/ i # Depth(t)
    BY <1>4, <1>10, <2>1, <2>2 DEF Rewrites
  <2>3. CASE u = t /\ i = Depth(t)
    <3>1. Top(t) = stack[u][i] /\ stack'[u][i] = g
      BY <1>10, <2>3 DEF Rewrites, Top
    <3> QED BY <1>1, <1>2, <1>3, <1>10, <2>1, <3>1
  <2> QED BY <2>2, <2>3
<1>11. ASSUME NEW t \in Threads, NEW g \in Frames, Went(t, g) \/ Failed(t, g)
       PROVE  Goal
  BY <1>5, <1>10, <1>11 DEF Went, Failed
<1>12. ASSUME NEW t \in Threads, NEW g \in Frames, NEW q \in Objects,
              Frees(t, g, q) \/ \E n \in Nat : Drops(t, g, q, n)
       PROVE  Goal
  BY <1>5, <1>10, <1>12 DEF Frees, Drops
<1>13. ASSUME NEW t \in Threads, NEW g \in Frames, NEW e \in Entries, EntersOne(t, g, e)
       PROVE  Goal
  BY <1>10, <1>13 DEF EntersOne
<1>14. ASSUME NEW t \in Threads, NEW g \in Frames, NEW e \in Entries, LeavesOne(t, g, e)
       PROVE  Goal
  <2>1. Rewrites(t, g) /\ Held(g) = Held(Top(t)) \ {e} /\ g.pc # "enter" /\ LeavesSome(t, e)
    BY <1>14 DEF LeavesOne, LeavesSome
  <2>2. CASE c = e
    BY <1>2, <2>1, <2>2
  <2>3. CASE c # e
    BY <1>10, <2>1, <2>3
  <2> QED BY <2>2, <2>3
<1>15. ASSUME Stays \/ Reloads \/ \E p \in [Objects -> BOOLEAN] : Pends(p)
       PROVE  Goal
  BY <1>6, <1>15 DEF Stays, Reloads, Pends
<1>16. ASSUME \E q \in Objects, b \in Nat : Makes(q, b)
       PROVE  Goal
  BY <1>6, <1>16 DEF Makes
<1>17. ASSUME NEW t \in Threads, \/ \E q \in Objects : Queues(t, q)
                                 \/ \E e \in Entries, b \in Nat : Changes(t, e, b)
       PROVE  Goal
  BY <1>6, <1>17 DEF Queues, Changes
<1> HIDE DEF Goal
<1>18. Goal
  BY <1>7, <1>8, <1>9, <1>11, <1>12, <1>13, <1>14, <1>15, <1>16, <1>17 DEF Step
<1> QED BY <1>18 DEF Goal

ReportsAt(o) ==
  /\ ~live[o] => pressure[o] = 0
  /\ live[o] /\ made[o] = generation /\ pressure[o] # bytes[o] => Changing(o)

LEMMA ReportsStay ==
  ASSUME TypeOK, Nested, AllMade, Reports, Step
  PROVE  Reports'
<1> USE DEF values, others
<1> SUFFICES ASSUME NEW o \in Objects
             PROVE  ReportsAt(o)'
  BY DEF Reports, ReportsAt
<1>0. ReportsAt(o)
  BY DEF Reports, ReportsAt
<1>1. ASSUME UNCHANGED <<live[o], pressure[o], bytes[o], made[o], generation>>,
             ~\E t \in Threads, e \in Entries : LeavesSome(t, e) /\ e.obj = o /\ e.changed
      PROVE  ReportsAt(o)'
  <2>1. Changing(o) => Changing(o)'
    BY <1>1, ChangingStays
  <2> QED BY <1>0, <1>1, <2>1 DEF ReportsAt
<1>2. ASSUME ~live'[o], pressure'[o] = 0
      PROVE  ReportsAt(o)'
  BY <1>2 DEF ReportsAt
<1>3. ASSUME live'[o], pressure'[o] = bytes'[o]
      PROVE  ReportsAt(o)'
  BY <1>3 DEF ReportsAt
<1>4. ASSUME NEW t \in Threads, NEW e \in Entries, LeavesSome(t, e), e.obj = o, e.changed
      PROVE  ReportsAt(o)'
  <2>1. /\ pressure' = IF e.changed /\ Usable(o) THEN [pressure EXCEPT ![o] = bytes[o]]
                       ELSE pressure
        /\ UNCHANGED <<live, bytes, generation, made>>
    BY <1>4 DEF LeavesSome, LeavesLast, LeavesOne, Leaves
  <2>2. CASE Usable(o)
    <3>1. live'[o] /\ pressure'[o] = bytes'[o]
      BY <1>4, <2>1, <2>2 DEF Usable, TypeOK
    <3> QED BY <1>3, <3>1
  <2>3. CASE ~Usable(o)
    BY <1>0, <2>1, <2>3 DEF Usable, ReportsAt
  <2> QED BY <2>2, <2>3
<1>5. ASSUME UNCHANGED <<live, pressure, bytes, made, generation>>
      PROVE  ReportsAt(o)'
  BY <1>1, <1>4, <1>5
<1>6. ASSUME NEW q \in Objects, NEW b \in Nat, Makes(q, b)
      PROVE  ReportsAt(o)'
  <2>1. CASE q = o
    <3>1. live'[o] /\ pressure'[o] = bytes'[o]
      BY <1>6, <2>1 DEF Makes, TypeOK
    <3> QED BY <1>3, <3>1
  <2>2. CASE q # o
    <3>1. UNCHANGED <<live[o], pressure[o], bytes[o], made[o], generation>>
      BY <1>6, <2>2 DEF Makes, TypeOK
    <3> QED BY <1>1, <1>4, <3>1
  <2> QED BY <2>1, <2>2
<1>7. ASSUME NEW t \in Threads, NEW g \in Frames, NEW q \in Objects, Frees(t, g, q)
      PROVE  ReportsAt(o)'
  <2>1. CASE q = o
    <3>1. ~live'[o] /\ pressure'[o] = 0
      BY <1>7, <2>1 DEF Frees, TypeOK
    <3> QED BY <1>2, <3>1
  <2>2. CASE q # o
    <3>1. UNCHANGED <<live[o], pressure[o], bytes[o], made[o], generation>>
      BY <1>7, <2>2 DEF Frees, TypeOK
    <3> QED BY <1>1, <1>4, <3>1
  <2> QED BY <2>1, <2>2
<1>8. ASSUME NEW t \in Threads, NEW e \in Entries, LeavesSome(t, e)
      PROVE  ReportsAt(o)'
  <2>1. CASE e.obj = o /\ e.changed
    BY <1>4, <1>8, <2>1
  <2>2. CASE ~(e.obj = o /\ e.changed)
    <3>1. UNCHANGED <<live[o], pressure[o], bytes[o], made[o], generation>>
      BY <1>8, <2>2 DEF LeavesSome, LeavesLast, LeavesOne, Leaves, Entries, TypeOK
    <3> QED BY <1>1, <1>4, <3>1
  <2> QED BY <2>1, <2>2
<1>9. ASSUME NEW t \in Threads, NEW e \in Entries, NEW b \in Nat, Changes(t, e, b)
      PROVE  ReportsAt(o)'
  <2>0. e.obj \in Objects
    BY DEF Entries
  <2>1. CASE e.obj = o
    <3>1. /\ stack[t] # <<>> /\ Top(t).pc = "running" /\ e \in Held(Top(t)) /\ e.exclusive
          /\ UNCHANGED <<live, pressure, stack>>
      BY <1>9 DEF Changes
    <3>2. Depth(t) \in DOMAIN stack[t] /\ Top(t) = stack[t][Depth(t)] /\ Apart(Top(t))
      BY <3>1, TopFrame
    <3>3. e.changed
      BY <3>1, <3>2 DEF Apart
    <3>4. Changing(o)
      BY <2>1, <3>1, <3>2, <3>3 DEF Changing
    <3>5. Changing(o)'
      BY <3>1, <3>4 DEF Changing
    <3> QED BY <1>0, <3>1, <3>5 DEF ReportsAt
  <2>2. CASE e.obj # o
    <3>1. UNCHANGED <<live[o], pressure[o], bytes[o], made[o], generation>>
      BY <1>9, <2>0, <2>2 DEF Changes, TypeOK
    <3> QED BY <1>1, <1>4, <3>1
  <2> QED BY <2>1, <2>2
<1>10. ASSUME Reloads
       PROVE  ReportsAt(o)'
  <2>1. UNCHANGED <<live, pressure, made>> /\ generation' = generation + 1
    BY <1>10 DEF Reloads
  <2>2. made[o] # generation + 1
    BY DEF AllMade, TypeOK
  <2> QED BY <1>0, <2>1, <2>2 DEF ReportsAt
<1>11. ASSUME Stays \/ \E p \in [Objects -> BOOLEAN] : Pends(p)
       PROVE  ReportsAt(o)'
  BY <1>5, <1>11 DEF Stays, Pends
<1>12. ASSUME NEW t \in Threads, NEW g \in Frames, Started(t, g) \/ Went(t, g) \/ Failed(t, g)
       PROVE  ReportsAt(o)'
  BY <1>5, <1>12 DEF Started, Went, Failed
<1>13. ASSUME NEW t \in Threads, Ended(t)
       PROVE  ReportsAt(o)'
  BY <1>5, <1>13 DEF Ended
<1>14. ASSUME NEW t \in Threads, NEW g \in Frames, NEW e \in Entries, EntersOne(t, g, e)
       PROVE  ReportsAt(o)'
  BY <1>5, <1>14 DEF EntersOne
<1>15. ASSUME NEW t \in Threads, NEW g \in Frames, NEW q \in Objects, NEW n \in Nat,
              Drops(t, g, q, n)
       PROVE  ReportsAt(o)'
  BY <1>5, <1>15 DEF Drops
<1>16. ASSUME NEW t \in Threads, NEW q \in Objects, Queues(t, q)
       PROVE  ReportsAt(o)'
  BY <1>5, <1>16 DEF Queues
<1> QED
  BY <1>6, <1>7, <1>8, <1>9, <1>10, <1>11, <1>12, <1>13, <1>14, <1>15, <1>16
  DEF Step, LeavesSome

-----------------------------------------------------------------------------
(* The raises *)

\* No frame of the thread up to the i-th is inside the object.
OutsideUpTo(u, i, o) == \A k \in FramesOn(u, o) : k > i

LEMMA OutsideOf ==
  ASSUME TypeOK, NEW u \in Threads, NEW i \in DOMAIN stack[u], NEW o \in Objects
  PROVE  OutsideUpTo(u, i, o) <=> \A k \in 1 .. i : ~HoldsIn(stack[u][k], o)
<1>1. DOMAIN stack[u] = 1 .. Depth(u) /\ Depth(u) \in Nat /\ i \in 1 .. Depth(u)
  BY OnStack DEF TypeOK
<1>2. ASSUME OutsideUpTo(u, i, o), NEW k \in 1 .. i
      PROVE  ~HoldsIn(stack[u][k], o)
  BY <1>1, <1>2 DEF OutsideUpTo, FramesOn
<1>3. ASSUME \A k \in 1 .. i : ~HoldsIn(stack[u][k], o), NEW k \in FramesOn(u, o)
      PROVE  k > i
  <2>1. k \in 1 .. Depth(u) /\ HoldsIn(stack[u][k], o)
    BY <1>1 DEF FramesOn
  <2> QED BY <1>1, <1>3, <2>1
<1> QED BY <1>2, <1>3 DEF OutsideUpTo

LEMMA OutsideStays ==
  ASSUME TypeOK, TypeOK', Nested, Counted, Outside, Step
  PROVE  Outside'
<1> USE DEF values, others
<1> SUFFICES ASSUME NEW u \in Threads, NEW i \in DOMAIN stack'[u],
                    NEW f, f = stack'[u][i],
                    NEW r \in DOMAIN f.raises, NEW o, o = f.raises[r]
             PROVE  \A k \in 1 .. i : ~HoldsIn(stack'[u][k], o)
  BY DEF Outside
<1>0. f \in Frames /\ o \in Objects
  <2>1. f \in Frames
    BY DEF TypeOK, Stacks
  <2>2. f.raises \in Seq(Objects)
    BY <2>1 DEF Frames
  <2> QED BY <2>1, <2>2
<1>a. ASSUME OutsideUpTo(u, i, o)'
      PROVE  \A k \in 1 .. i : ~HoldsIn(stack'[u][k], o)
  <2>1. /\ i \in 1 .. Len(stack'[u]) /\ DOMAIN stack'[u] = 1 .. Len(stack'[u])
        /\ Len(stack'[u]) \in Nat
    BY DEF TypeOK, Stacks
  <2>2. SUFFICES ASSUME NEW k \in 1 .. i, HoldsIn(stack'[u][k], o)
                 PROVE  FALSE
    OBVIOUS
  <2>3. k \in DOMAIN stack'[u]
    BY <2>1
  <2>4. k \in FramesOn(u, o)'
    BY <2>2, <2>3 DEF FramesOn
  <2>5. k > i
    BY <1>a, <2>4 DEF OutsideUpTo
  <2> QED BY <2>1, <2>5
<1> SUFFICES OutsideUpTo(u, i, o)'
  BY <1>a
<1>1. ASSUME NEW j \in DOMAIN stack[u], NEW q \in DOMAIN stack[u][j].raises,
             o = stack[u][j].raises[q]
      PROVE  OutsideUpTo(u, j, o)
  <2>1. \A k \in 1 .. j : ~HoldsIn(stack[u][k], o)
    BY <1>1 DEF Outside
  <2> QED BY <1>0, <2>1, OutsideOf
<1>2. ASSUME FramesOn(u, o)' \subseteq FramesOn(u, o), OutsideUpTo(u, i, o)
      PROVE  OutsideUpTo(u, i, o)'
  BY <1>2 DEF OutsideUpTo
<1>3. ASSUME AsItWas(u, i)
      PROVE  OutsideUpTo(u, i, o)'
  <2>1. OutsideUpTo(u, i, o) /\ i \in DOMAIN stack[u]
    BY <1>1, <1>3 DEF AsItWas
  <2>2. ASSUME Keeps
        PROVE  OutsideUpTo(u, i, o)'
    BY <1>0, <1>2, <2>1, <2>2, KeepsFrames
  <2>3. ASSUME NEW t \in Threads, NEW e \in Entries, LeavesSome(t, e)
        PROVE  OutsideUpTo(u, i, o)'
    BY <1>0, <1>2, <2>1, <2>3, LeavesFrames
  <2>4. ASSUME NEW t \in Threads, NEW g \in Frames, NEW e \in Entries, EntersOne(t, g, e)
        PROVE  OutsideUpTo(u, i, o)'
    <3>1. /\ FramesOn(t, e.obj)' = FramesOn(t, e.obj) \cup {Depth(t)}
          /\ \A v \in Threads, q \in Objects :
               v # t \/ q # e.obj => FramesOn(v, q)' = FramesOn(v, q)
      BY <2>4, EntersFrames
    <3>2. CASE u # t \/ o # e.obj
      BY <1>0, <1>2, <2>1, <3>1, <3>2
    <3>3. CASE u = t /\ o = e.obj
      <4>1. Rewrites(t, g) /\ g # Top(t)
        BY <2>4 DEF EntersOne, HoldsIn
      <4>2. i # Depth(t)
        BY <1>3, <3>3, <4>1 DEF AsItWas, Rewrites, Top
      <4>3. i < Depth(t)
        BY <2>1, <3>3, <4>2, OnStack DEF TypeOK
      <4> QED BY <2>1, <3>1, <3>3, <4>3 DEF OutsideUpTo
    <3> QED BY <3>2, <3>3
  <2> QED BY <2>2, <2>3, <2>4, StepKinds DEF Enters
<1>4. ASSUME stack' = stack
      PROVE  OutsideUpTo(u, i, o)'
  BY <1>3, <1>4 DEF AsItWas
<1>5. ASSUME NEW t \in Threads, NEW g \in Frames, Started(t, g)
      PROVE  OutsideUpTo(u, i, o)'
  <2>1. /\ Pushes(t, g) /\ Keeps /\ \A q \in DOMAIN g.raises : gate[g.raises[q]].owner # t
    BY <1>5 DEF Started, Keeps
  <2>2. CASE u = t /\ f = g
    <3>1. FramesOn(u, o) = {}
      BY <1>0, <2>1, <2>2 DEF Counted
    <3>2. FramesOn(u, o)' = {}
      BY <1>0, <2>1, <3>1, KeepsFrames
    <3> QED BY <3>2 DEF OutsideUpTo
  <2> QED BY <1>3, <2>1, <2>2, Pushing
<1>6. ASSUME NEW t \in Threads, Pops(t)
      PROVE  OutsideUpTo(u, i, o)'
  BY <1>3, <1>6, Popping
<1>7. ASSUME NEW t \in Threads, NEW g \in Frames, Rewrites(t, g), Keeps,
             \A p \in DOMAIN g.raises :
               \E q \in DOMAIN Top(t).raises : g.raises[p] = Top(t).raises[q]
      PROVE  OutsideUpTo(u, i, o)'
  <2>1. CASE u = t /\ i = Depth(t) /\ f = g /\ i \in DOMAIN stack[u] /\ Top(t) = stack[u][i]
    <3>1. OutsideUpTo(u, i, o)
      BY <1>1, <1>7, <2>1
    <3> QED BY <1>0, <1>2, <1>7, <3>1, KeepsFrames
  <2> QED BY <1>3, <1>7, <2>1, Rewriting
<1>8. ASSUME NEW t \in Threads, NEW g \in Frames, Rewrites(t, g), g.raises = <<>>
      PROVE  OutsideUpTo(u, i, o)'
  BY <1>3, <1>8, Rewriting
<1>9. ASSUME NEW t \in Threads, NEW g \in Frames, NEW e \in Entries, LeavesOne(t, g, e)
      PROVE  OutsideUpTo(u, i, o)'
  <2>1. /\ Rewrites(t, g) /\ LeavesSome(t, e)
        /\ \A p \in DOMAIN g.raises :
             \/ \E q \in DOMAIN Top(t).raises : g.raises[p] = Top(t).raises[q]
             \/ g.raises[p] = e.obj /\ gate[e.obj].depth = 1
    BY <1>9 DEF LeavesOne, LeavesSome
  <2>2. /\ Depth(t) \in FramesOn(t, e.obj)
        /\ FramesOn(t, e.obj)' = FramesOn(t, e.obj) \ {Depth(t)}
        /\ \A v \in Threads, q \in Objects :
             v # t \/ q # e.obj => FramesOn(v, q)' = FramesOn(v, q)
    BY <2>1, LeavesFrames
  <2>3. CASE u = t /\ i = Depth(t) /\ f = g /\ i \in DOMAIN stack[u] /\ Top(t) = stack[u][i]
    <3>1. ASSUME NEW q \in DOMAIN Top(t).raises, o = Top(t).raises[q]
          PROVE  OutsideUpTo(u, i, o)'
      <4>1. OutsideUpTo(u, i, o)
        BY <1>1, <2>3, <3>1
      <4> QED BY <1>0, <1>2, <2>2, <2>3, <4>1
    <3>2. ASSUME o = e.obj, gate[e.obj].depth = 1
          PROVE  OutsideUpTo(u, i, o)'
      <4>1. Depth(t) \in DOMAIN stack[t] /\ HoldsIn(stack[t][Depth(t)], o)
        BY <2>2, <3>2 DEF FramesOn
      <4>2. FramesOn(t, o) = {Depth(t)}
        BY <1>0, <3>2, <4>1, Holder
      <4>3. FramesOn(u, o)' = {}
        BY <2>2, <2>3, <3>2, <4>2
      <4> QED BY <4>3 DEF OutsideUpTo
    <3> QED BY <2>1, <2>3, <3>1, <3>2
  <2> QED BY <1>3, <2>1, <2>3, Rewriting
<1>b. \A f1, g1 : f1.held = g1.held => Held(f1) = Held(g1)
  BY DEF Held
<1>10. ASSUME NEW t \in Threads, NEW g \in Frames, Went(t, g)
       PROVE  OutsideUpTo(u, i, o)'
  BY <1>7, <1>10, <1>b DEF Went, Keeps, HoldsIn
<1>11. ASSUME NEW t \in Threads, NEW g \in Frames, Failed(t, g)
       PROVE  OutsideUpTo(u, i, o)'
  BY <1>8, <1>11 DEF Failed
<1>12. ASSUME NEW t \in Threads, NEW g \in Frames, NEW e \in Entries, EntersOne(t, g, e)
       PROVE  OutsideUpTo(u, i, o)'
  BY <1>8, <1>12 DEF EntersOne
<1>13. ASSUME NEW t \in Threads, NEW g \in Frames, NEW q \in Objects,
              Frees(t, g, q) \/ \E n \in Nat : Drops(t, g, q, n)
       PROVE  OutsideUpTo(u, i, o)'
  BY <1>7, <1>13, <1>b DEF Frees, Drops, Keeps, HoldsIn
<1>14. ASSUME NEW t \in Threads, Ended(t) \/ \E e \in Entries : LeavesLast(t, e)
       PROVE  OutsideUpTo(u, i, o)'
  BY <1>6, <1>14 DEF Ended, LeavesLast
<1>15. ASSUME Stays \/ Reloads \/ \E p \in [Objects -> BOOLEAN] : Pends(p)
       PROVE  OutsideUpTo(u, i, o)'
  BY <1>4, <1>15 DEF Stays, Reloads, Pends
<1>16. ASSUME \E q \in Objects, b \in Nat : Makes(q, b)
       PROVE  OutsideUpTo(u, i, o)'
  BY <1>4, <1>16 DEF Makes
<1>17. ASSUME NEW t \in Threads, \/ \E q \in Objects : Queues(t, q)
                                 \/ \E e \in Entries, b \in Nat : Changes(t, e, b)
       PROVE  OutsideUpTo(u, i, o)'
  BY <1>4, <1>17 DEF Queues, Changes
<1> QED
  BY <1>5, <1>9, <1>10, <1>11, <1>12, <1>13, <1>14, <1>15, <1>16, <1>17 DEF Step

LEMMA RaisesTakenStays ==
  ASSUME TypeOK, TypeOK', Nested, Counted, Releases, RaisesTaken, Step
  PROVE  RaisesTaken'
<1> USE DEF values, others
<1>1. ASSUME UNCHANGED <<gate, drops, queue>>
      PROVE  RaisesTaken'
  BY <1>1 DEF RaisesTaken
<1>2. ASSUME NEW t \in Threads, NEW o \in Objects, Queues(t, o)
      PROVE  RaisesTaken'
  <2>1. gate[o].owner # Open
    BY <1>2, ProxyCoreAssumption DEF Queues
  <2> QED BY <1>2, <2>1 DEF Queues, RaisesTaken, TypeOK
<1>3. ASSUME NEW t \in Threads, NEW g \in Frames, NEW o \in Objects, NEW n \in Nat,
             Drops(t, g, o, n)
      PROVE  RaisesTaken'
  <2>1. drops'[o] # 0
    BY <1>3 DEF Drops, TypeOK
  <2> QED BY <1>3, <2>1 DEF Drops, RaisesTaken, TypeOK
<1>4. ASSUME NEW t \in Threads, NEW g \in Frames, NEW e \in Entries, EntersOne(t, g, e)
      PROVE  RaisesTaken'
  <2>1. e.obj \in Objects /\ t # Open
    BY ProxyCoreAssumption DEF Entries
  <2>2. gate' = [gate EXCEPT ![e.obj] = Entered(gate[e.obj], t, e.exclusive)]
        /\ UNCHANGED <<drops, queue>>
    BY <1>4 DEF EntersOne
  <2>3. gate'[e.obj].owner # Open
    BY <2>1, <2>2 DEF Entered, Gates, TypeOK
  <2> QED BY <2>1, <2>2, <2>3 DEF RaisesTaken, TypeOK
<1>5. ASSUME NEW t \in Threads, NEW e \in Entries, LeavesSome(t, e)
      PROVE  RaisesTaken'
  <2> DEFINE o == e.obj
             f == Top(t)
  <2>1. Leaves(t, e) /\ Depth(t) \in DOMAIN stack[t] /\ o \in Objects
    BY <1>5, LeavesFrames DEF FramesOn, Entries
  <2>2. /\ queue' = [queue EXCEPT ![o] = queue[o] - Taken(f, o)]
        /\ gate' = [gate EXCEPT ![o] = Left(gate[o])] /\ drops' = drops
        /\ o = Head(f.held).obj /\ f.pc = "leave" /\ HoldsIn(stack[t][Depth(t)], o)
    BY <2>1 DEF Leaves, HoldsIn, Top
  <2>3. gate[o].owner = t /\ gate[o].depth > 0 /\ gate[o].depth \in Nat /\ t # Open
    BY <2>1, <2>2, Holder, ProxyCoreAssumption DEF TypeOK, Gates
  <2>4. f \in Frames /\ ReleaseFits(t, f)
    BY <2>1, TopFits DEF TypeOK, Stacks
  <2>5. ASSUME gate'[o].owner = Open, drops'[o] = 0
        PROVE  queue'[o] = 0
    <3>1. gate[o].depth = 1
      <4>1. ASSUME gate[o].depth > 1
            PROVE  FALSE
        <5>1. gate'[o].owner = t
          <6>1. gate'[o] = Left(gate[o]) /\ gate[o] \in Gates
            BY <2>1, <2>2 DEF TypeOK
          <6>2. Left(gate[o]).owner = gate[o].owner
            BY <4>1, <6>1 DEF Left, Gates
          <6> QED BY <2>3, <6>1, <6>2
        <5> QED BY <2>3, <2>5, <5>1
      <4> QED BY <2>3, <4>1
    <3>2. queue'[o] = queue[o] - Taken(f, o) /\ queue[o] \in Nat
      BY <2>1, <2>2 DEF TypeOK
    <3>3. CASE f.kind # "release"
      <4>1. Taken(f, o) = queue[o]
        BY <2>1, <2>4, <3>1, <3>3, TakenFromQueue
      <4> QED BY <3>2, <4>1
    <3>4. CASE f.kind = "release"
      <4>1. queue[o] = 0
        BY <2>2, <2>4, <2>5, <3>4 DEF ReleaseFits
      <4>2. Taken(f, o) = 0
        BY <2>1, <2>4, <4>1, TakenFromQueue
      <4> QED BY <3>2, <4>1, <4>2
    <3> QED BY <3>3, <3>4
  <2>6. \A q \in Objects : q # o => gate'[q] = gate[q] /\ queue'[q] = queue[q]
    BY <2>2 DEF TypeOK
  <2> QED BY <2>2, <2>5, <2>6 DEF RaisesTaken
<1>6. ASSUME Stays \/ Reloads \/ \E p \in [Objects -> BOOLEAN] : Pends(p)
      PROVE  RaisesTaken'
  BY <1>1, <1>6 DEF Stays, Reloads, Pends
<1>7. ASSUME \E q \in Objects, b \in Nat : Makes(q, b)
      PROVE  RaisesTaken'
  BY <1>1, <1>7 DEF Makes
<1>8. ASSUME NEW t \in Threads, NEW g \in Frames, Started(t, g) \/ Went(t, g) \/ Failed(t, g)
      PROVE  RaisesTaken'
  BY <1>1, <1>8 DEF Started, Went, Failed
<1>9. ASSUME NEW t \in Threads, Ended(t) \/ \E e \in Entries, b \in Nat : Changes(t, e, b)
      PROVE  RaisesTaken'
  BY <1>1, <1>9 DEF Ended, Changes
<1>10. ASSUME NEW t \in Threads, NEW g \in Frames, NEW q \in Objects, Frees(t, g, q)
       PROVE  RaisesTaken'
  BY <1>1, <1>10 DEF Frees
<1> QED
  BY <1>2, <1>3, <1>4, <1>5, <1>6, <1>7, <1>8, <1>9, <1>10 DEF Step, LeavesSome

-----------------------------------------------------------------------------
(* The theorems *)

LEMMA Starts ==
  ASSUME Init
  PROVE  IInv
<1>1. /\ gate \in [Objects -> Gates] /\ live \in [Objects -> BOOLEAN]
      /\ pending \in [Objects -> BOOLEAN] /\ queue \in [Objects -> Nat]
      /\ pressure \in [Objects -> Nat] /\ bytes \in [Objects -> Nat]
      /\ drops \in [Objects -> Nat] /\ made \in [Objects -> Nat] /\ Stacks
  BY DEF Init, OpenGate, Gates, Stacks
<1>2. TypeOK
  BY <1>1 DEF Init, TypeOK
<1>3. \A t \in Threads : DOMAIN stack[t] = {}
  BY DEF Init
<1>4. \A o \in Objects : /\ gate[o].owner = Open /\ gate[o].depth = 0 /\ ~gate[o].exclusive
                         /\ ~live[o] /\ queue[o] = 0 /\ drops[o] = 0 /\ pressure[o] = 0
                         /\ made[o] = 0
  BY DEF Init, OpenGate
<1>5. \A t \in Threads, o \in Objects : FramesOn(t, o) = {} /\ t # Open
  BY <1>3, ProxyCoreAssumption DEF FramesOn
<1>6. Counted /\ Exclusively
  BY <1>4, <1>5 DEF Counted, Exclusively
<1>7. Nested /\ Alone /\ FramesMade /\ LiveHeld /\ Releases /\ Outside
  BY <1>3 DEF Nested, Alone, FramesMade, LiveHeld, Releases, Outside
<1>8. AllMade /\ Dropped /\ Reports /\ RaisesTaken
  BY <1>4 DEF AllMade, Dropped, Reports, RaisesTaken, Init
<1> QED BY <1>2, <1>6, <1>7, <1>8 DEF IInv

\* The inductive invariant: the gates count the frames inside them, and what
\* follows for the values, the figures and the raises.
THEOREM Invariance == Spec => []IInv
<1>1. Init => IInv
  BY Starts
<1>2. IInv /\ [Next]_vars => IInv'
  <2> SUFFICES ASSUME IInv, [Next]_vars
               PROVE  IInv'
    OBVIOUS
  <2>1. Step /\ Stacks'
    BY NextSteps DEF IInv
  <2>2. TypeOK'
    BY <2>1, TypesStay DEF IInv
  <2>3. Counted' /\ Exclusively'
    BY <2>1, <2>2, CountedStays DEF IInv
  <2>4. Nested' /\ FramesMade' /\ AllMade'
    BY <2>1, <2>2, NestedStays, FramesMadeStays, AllMadeStays DEF IInv
  <2>5. Alone'
    BY <2>1, <2>2, <2>3, AloneStays DEF IInv
  <2>6. LiveHeld' /\ Dropped' /\ Reports'
    BY <2>1, <2>2, LiveHeldStays, DroppedStays, ReportsStay DEF IInv
  <2>7. Releases'
    BY <2>1, <2>2, <2>3, ReleasesStay DEF IInv
  <2>8. Outside' /\ RaisesTaken'
    BY <2>1, <2>2, OutsideStays, RaisesTakenStays DEF IInv
  <2> QED BY <2>2, <2>3, <2>4, <2>5, <2>6, <2>7, <2>8 DEF IInv
<1> QED BY <1>1, <1>2, PTL DEF Spec

\* A raise made inside waits no longer than its thread's last entry
\* (ObjectEvents.cs:23-28).
THEOREM TakesRaises == Spec => []RaisesTaken
<1>1. IInv => RaisesTaken
  BY DEF IInv
<1> QED BY <1>1, Invariance, PTL

\* A value lent exclusively has one user, on any thread and at any depth of
\* nesting: the exclusive entry's gate is at depth one, so every user's frame
\* is the same frame, and a frame enters an object once (ProxyCore.cs:17-19).
THEOREM ExclusiveAlone == Spec => []OneExclusiveUser
<1>1. IInv => OneExclusiveUser
  <2> SUFFICES ASSUME IInv, NEW a \in Using, NEW b \in Using, a # b,
                      a.entry.obj = b.entry.obj, a.entry.exclusive
               PROVE  FALSE
    BY DEF OneExclusiveUser
  <2>0. TypeOK /\ Nested /\ Counted /\ Exclusively /\ Alone
    BY DEF IInv
  <2>1. ASSUME NEW c \in Using
        PROVE  \E t \in Threads : \E i \in DOMAIN stack[t] : \E j \in DOMAIN stack[t][i].held :
                 c = [thread |-> t, frame |-> i, entry |-> stack[t][i].held[j]]
    BY DEF Using, UsingIn
  <2>2. PICK t \in Threads : \E i \in DOMAIN stack[t] : \E j \in DOMAIN stack[t][i].held :
          a = [thread |-> t, frame |-> i, entry |-> stack[t][i].held[j]]
    BY <2>1
  <2>3. PICK i \in DOMAIN stack[t] : \E j \in DOMAIN stack[t][i].held :
          a = [thread |-> t, frame |-> i, entry |-> stack[t][i].held[j]]
    BY <2>2
  <2>4. PICK j \in DOMAIN stack[t][i].held :
          a = [thread |-> t, frame |-> i, entry |-> stack[t][i].held[j]]
    BY <2>3
  <2>5. PICK u \in Threads : \E k \in DOMAIN stack[u] : \E m \in DOMAIN stack[u][k].held :
          b = [thread |-> u, frame |-> k, entry |-> stack[u][k].held[m]]
    BY <2>1
  <2>6. PICK k \in DOMAIN stack[u] : \E m \in DOMAIN stack[u][k].held :
          b = [thread |-> u, frame |-> k, entry |-> stack[u][k].held[m]]
    BY <2>5
  <2>7. PICK m \in DOMAIN stack[u][k].held :
          b = [thread |-> u, frame |-> k, entry |-> stack[u][k].held[m]]
    BY <2>6
  <2> DEFINE o == a.entry.obj
  <2>8. a.entry = stack[t][i].held[j] /\ b.entry = stack[u][k].held[m]
    BY <2>4, <2>7
  <2>9. a.entry \in Held(stack[t][i]) /\ b.entry \in Held(stack[u][k])
    BY <2>8 DEF Held
  <2>10. stack[t][i] \in Frames
    BY <2>0, OnStack DEF TypeOK
  <2>11. o \in Objects /\ HoldsIn(stack[t][i], o) /\ HoldsIn(stack[u][k], o)
    BY <2>9, <2>10, HeldEntries DEF HoldsIn
  <2>12. gate[o].depth = 1
    BY <2>0, <2>9, <2>11 DEF Alone, Exclusively
  <2> HIDE DEF o
  <2>13. u = t /\ k = i
    BY <2>0, <2>11, <2>12, SoleHolder
  <2>14. Distinct(stack[t][i].held)
    BY <2>0 DEF Nested, Apart
  <2>15. j = m
    BY <2>8, <2>13, <2>14 DEF Distinct
  <2> QED BY <2>4, <2>7, <2>13, <2>15
<1> QED BY <1>1, Invariance, PTL

\* No value is freed under a call into it, and none is dropped twice
\* (ProxyCore.cs:19-21, 379).
THEOREM NothingFreedInUse == Spec => []NoFreeUnderCall
<1>1. IInv => NoFreeUnderCall
  <2> SUFFICES ASSUME IInv
               PROVE  NoFreeUnderCall
    OBVIOUS
  <2>1. ASSUME NEW a \in Using
        PROVE  live[a.entry.obj]
    <3>1. PICK t \in Threads : \E i \in DOMAIN stack[t] :
             /\ stack[t][i].pc \in {"entered", "running"}
             /\ \E j \in DOMAIN stack[t][i].held : a.entry = stack[t][i].held[j]
      BY DEF Using, UsingIn
    <3>2. PICK i \in DOMAIN stack[t] :
             /\ stack[t][i].pc \in {"entered", "running"}
             /\ \E j \in DOMAIN stack[t][i].held : a.entry = stack[t][i].held[j]
      BY <3>1
    <3>3. a.entry \in Held(stack[t][i])
      BY <3>2 DEF Held
    <3> QED BY <3>2, <3>3 DEF IInv, LiveHeld
  <2>2. Dropped
    BY DEF IInv
  <2> QED BY <2>1, <2>2 DEF NoFreeUnderCall, Dropped
<1> QED BY <1>1, Invariance, PTL

\* With nobody inside, the collector has been told what the value owns
\* (ProxyCore.cs:25-30).
THEOREM FigureFollows == Spec => []PressureFollows
<1>1. IInv => PressureFollows
  <2> SUFFICES ASSUME IInv, NEW o \in Objects, gate[o].owner = Open, made[o] = generation
               PROVE  pressure[o] = IF live[o] THEN bytes[o] ELSE 0
    BY DEF PressureFollows
  <2>0. TypeOK /\ Counted /\ Reports
    BY DEF IInv
  <2>1. ~Changing(o)
    <3>1. \A t \in Threads : FramesOn(t, o) = {}
      BY <2>0, NobodyInOpen
    <3>2. \A t \in Threads : \A i \in DOMAIN stack[t] : ~HoldsIn(stack[t][i], o)
      BY <3>1 DEF FramesOn
    <3> QED BY <3>2 DEF Changing, HoldsIn
  <2> QED BY <2>0, <2>1 DEF Reports
<1> QED BY <1>1, Invariance, PTL

\* A handler runs with its thread outside the gate of the object that raised
\* (ProxyCore.cs:21-23).
THEOREM HandlersOutside == Spec => []HandlersOutsideGate
<1>1. IInv => HandlersOutsideGate
  <2> SUFFICES ASSUME IInv, NEW t \in Threads, At(t, "handler"),
                      gate[Head(Top(t).raises)].owner = t
               PROVE  FALSE
    BY DEF HandlersOutsideGate
  <2> DEFINE o == Head(Top(t).raises)
  <2>0. TypeOK /\ Nested /\ Counted /\ Outside
    BY DEF IInv
  <2>1. /\ stack[t] # <<>> /\ Top(t).pc = "handler"
    BY DEF At
  <2>2. /\ Top(t) = stack[t][Depth(t)] /\ Depth(t) \in DOMAIN stack[t] /\ Top(t) \in Frames
        /\ Top(t).raises # <<>>
    BY <2>0, <2>1, TopFrame DEF Shaped
  <2>3. Top(t).raises \in Seq(Objects)
    BY <2>2 DEF Frames
  <2>4. 1 \in DOMAIN Top(t).raises /\ o = Top(t).raises[1] /\ o \in Objects
    BY <2>2, <2>3
  <2>5. \A k \in 1 .. Depth(t) : ~HoldsIn(stack[t][k], Top(t).raises[1])
    BY <2>0, <2>2, <2>4 DEF Outside
  <2> HIDE DEF o
  <2>6. \E i \in DOMAIN stack[t] : HoldsIn(stack[t][i], o)
    BY <2>0, <2>4, OwnerHolds DEF o
  <2>7. DOMAIN stack[t] = 1 .. Depth(t)
    BY <2>0, OnStack DEF TypeOK
  <2> QED BY <2>4, <2>5, <2>6, <2>7
<1> QED BY <1>1, Invariance, PTL
=============================================================================
