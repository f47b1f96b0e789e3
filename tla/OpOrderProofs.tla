--------------------------- MODULE OpOrderProofs ----------------------------
(***************************************************************************)
(* A theorem about EnqOnce: where all forwards lead to one queue, no op    *)
(* without priority overtakes another that waited, when its call began,    *)
(* where that call leads.                                                  *)
(*                                                                         *)
(* The invariant is about the whole line of a queue: what the thread that  *)
(* serves it may put back, and what waits behind that.                     *)
(***************************************************************************)
EXTENDS OpPlacesProofs

-----------------------------------------------------------------------------
(* NoOvertaking, when every forward leads to one queue h.                   *)

\* All forwards lead to h, and none from it.
LeadsTo(h) == h \in Queues /\ Forwards \subseteq (Queues \ {h}) \X {h}

\* What the thread that serves its own queue q may put back to it.
Back(q) ==
  LET t == OwnerOf[q]
  IN  IF t \in Yielding /\ pc[t] = "serve" /\ at[t] = q THEN local[t] ELSE <<>>

\* What stands in line in a queue: what may be put back, then what waits.
InLine(q, o) == o \in Range(Back(q)) \/ o \in Range(ops[q])
Overtakes(q, o, a) ==
  \/ Before(Back(q), o, a)
  \/ Before(ops[q], o, a)
  \/ o \in Range(Back(q)) /\ a \in Range(ops[q])

\* Op a, which waited when the call that brings op o began, is ahead of o or
\* out of its way.
Order(o, a, h) ==
  /\ Prio[a] = 0 /\ Prio[o] = 0
  /\ \A q \in Queues : ~ Overtakes(q, o, a)
  /\ \A p, q \in Queues : p # q /\ InLine(p, a) /\ InLine(q, o) => p = h
  /\ \A t \in Threads : carry[t] # a
  /\ \A t \in Threads, p \in Queues : carry[t] = o /\ InLine(p, a) => p = h \/ at[t] = p

OrderInv(h) == \A o \in Ops : \A a \in ahead[o] : Order(o, a, h)

\* The order is kept by a step that brings nothing into a line but what a thread
\* carries to it, and where no thread leaves a queue that a is in with o.
LEMMA OrderKept ==
  ASSUME NEW h, NEW o \in Ops, NEW a \in Ops, Order(o, a, h),
         \A q \in Queues : /\ Overtakes(q, o, a)' => Overtakes(q, o, a)
                           /\ InLine(q, a)' => InLine(q, a)
                           /\ InLine(q, o)' => \/ InLine(q, o)
                                               \/ \E t \in Threads : carry[t] = o /\ at[t] = q,
         \A t \in Threads : /\ carry'[t] = a => carry[t] = a
                            /\ carry'[t] = o =>
                                 carry[t] = o /\ (at'[t] = at[t] \/ ~ InLine(at[t], a))
  PROVE  Order(o, a, h)'
<1>1. Prio[a] = 0 /\ Prio[o] = 0
  BY DEF Order
<1>2. ASSUME NEW q \in Queues PROVE ~ Overtakes(q, o, a)'
  BY DEF Order
<1>3. ASSUME NEW p \in Queues, NEW q \in Queues, p # q, InLine(p, a)', InLine(q, o)'
      PROVE  p = h
  <2>1. InLine(p, a)
    BY <1>3
  <2>2. CASE InLine(q, o)
    BY <1>3, <2>1, <2>2 DEF Order
  <2>3. ASSUME NEW t \in Threads, carry[t] = o, at[t] = q PROVE p = h
    BY <1>3, <2>1, <2>3 DEF Order
  <2> QED BY <1>3, <2>2, <2>3
<1>4. ASSUME NEW t \in Threads PROVE carry'[t] # a
  BY DEF Order
<1>5. ASSUME NEW t \in Threads, NEW p \in Queues, carry'[t] = o, InLine(p, a)', p # h
      PROVE  at'[t] = p
  <2>1. InLine(p, a) /\ carry[t] = o
    BY <1>5
  <2>2. at[t] = p
    BY <1>5, <2>1 DEF Order
  <2> QED BY <1>5, <2>1, <2>2
<1>6. \A q \in Queues : ~ Overtakes(q, o, a)'
  BY <1>2
<1>7. \A p, q \in Queues : p # q /\ InLine(p, a)' /\ InLine(q, o)' => p = h
  BY <1>3
<1>8. \A t \in Threads, p \in Queues : carry'[t] = o /\ InLine(p, a)' => p = h \/ at'[t] = p
  BY <1>5
<1> QED BY <1>1, <1>4, <1>6, <1>7, <1>8 DEF Order

\* Nothing is added to a list or put in another order.
Within(s, t) == Range(s) \subseteq Range(t) /\ \A a, b : Before(s, a, b) => Before(t, a, b)

\* The lists that are within a list.
LEMMA WithinIs ==
  ASSUME NEW s \in Seq(Ops)
  PROVE  Within(s, s) /\ Within(<<>>, s) /\ (s # <<>> => Within(Tail(s), s))
<1>1. Within(s, s)
  BY DEF Within
<1>2. Within(<<>>, s)
  BY EmptyList DEF Within
<1>3. ASSUME s # <<>> PROVE Within(Tail(s), s)
  BY <1>3, Shortened DEF Within
<1> QED BY <1>1, <1>2, <1>3

\* A line has lost members at most.
Loosens(q) ==
  \A o, a : /\ Overtakes(q, o, a)' => Overtakes(q, o, a)
            /\ InLine(q, o)' => InLine(q, o)

\* A line whose lists lose members loses members.
LEMMA LooserLists ==
  ASSUME NEW q, Within(Back(q)', Back(q)), Within(ops'[q], ops[q])
  PROVE  Loosens(q)
<1>1. Range(Back(q)') \subseteq Range(Back(q)) /\ Range(ops'[q]) \subseteq Range(ops[q])
  BY DEF Within
<1>2. ASSUME NEW o, NEW a PROVE Overtakes(q, o, a)' => Overtakes(q, o, a)
  BY <1>1 DEF Overtakes, Within
<1>3. ASSUME NEW o PROVE InLine(q, o)' => InLine(q, o)
  BY <1>1 DEF InLine
<1> QED BY <1>2, <1>3 DEF Loosens

\* No line gets longer, and what threads carry they carry where they did.
Carries(t) == carry'[t] \in Ops => carry'[t] = carry[t] /\ at'[t] = at[t]

\* Such a step keeps the order of all.
LEMMA OrderLoosened ==
  ASSUME NEW h, ahead \in [Ops -> SUBSET Ops], OrderInv(h), ahead' = ahead,
         \A q \in Queues : Loosens(q),
         \A t \in Threads : Carries(t)
  PROVE  OrderInv(h)'
<1>1. ASSUME NEW o \in Ops, NEW a \in ahead'[o] PROVE Order(o, a, h)'
  <2>1. a \in Ops /\ Order(o, a, h)
    BY <1>1 DEF OrderInv
  <2>2. \A q \in Queues : /\ Overtakes(q, o, a)' => Overtakes(q, o, a)
                          /\ InLine(q, a)' => InLine(q, a)
                          /\ InLine(q, o)' => InLine(q, o)
    BY DEF Loosens
  <2>3. \A t \in Threads : /\ carry'[t] = a => carry[t] = a
                           /\ carry'[t] = o => carry[t] = o /\ at'[t] = at[t]
    BY <2>1 DEF Carries
  <2> QED BY <2>1, <2>2, <2>3, OrderKept
<1> QED BY <1>1 DEF OrderInv

\* The thread that serves a queue goes on with what it has left.
Serves(t) ==
  pc'[t] = "serve" => pc[t] = "serve" /\ at'[t] = at[t] /\ Within(local'[t], local[t])

\* What such a thread may put back gets less.
LEMMA BackWithin ==
  ASSUME NEW q \in Queues, Serves(OwnerOf[q])
  PROVE  Within(Back(q)', Back(q))
<1> DEFINE t == OwnerOf[q]
<1>1. CASE t \in Yielding /\ pc'[t] = "serve" /\ at'[t] = q
  <2>1. Back(q)' = local'[t] /\ Back(q) = local[t]
    BY <1>1 DEF Back, Serves
  <2> QED BY <1>1, <2>1 DEF Serves
<1>2. CASE ~ (t \in Yielding /\ pc'[t] = "serve" /\ at'[t] = q)
  <2>1. Back(q)' = <<>>
    BY <1>2 DEF Back
  <2> QED BY <2>1, EmptyList DEF Within
<1> QED BY <1>1, <1>2

\* Together: a step that takes nothing up and puts nothing down.
LEMMA OrderCalm ==
  ASSUME NEW h, ahead \in [Ops -> SUBSET Ops], OrderInv(h), ahead' = ahead,
         \A q \in Queues : Within(ops'[q], ops[q]),
         \A t \in Threads : Serves(t) /\ Carries(t)
  PROVE  OrderInv(h)'
<1>1. ASSUME NEW q \in Queues PROVE Loosens(q)
  <2>1. OwnerOf[q] \in Threads
    BY OwnerAssumption
  <2> QED BY <2>1, BackWithin, LooserLists
<1> QED BY <1>1, OrderLoosened

\* A thread goes on serving, or does not serve before or after.
Rests(t) ==
  \/ pc'[t] = pc[t] /\ at'[t] = at[t] /\ local'[t] = local[t]
  \/ pc[t] # "serve" /\ pc'[t] # "serve"

\* Where threads rest, what they may put back is the same.
LEMMA BackSame ==
  ASSUME NEW q \in Queues, \A t \in Threads : Rests(t)
  PROVE  Back(q)' = Back(q)
<1>1. OwnerOf[q] \in Threads
  BY OwnerAssumption
<1> QED BY <1>1 DEF Back, Rests

\* From a queue, forwards lead to h or nowhere.
LEMMA EndsAt ==
  ASSUME NEW h, LeadsTo(h), ForwardInv, NEW q \in Queues, NEW d \in Queues, EndOf(q, d)
  PROVE  d \in {q, h}
<1>1. {q, h} \in SUBSET Queues
  BY DEF LeadsTo
<1>2. fwd[h] = NoQueue
  BY DEF LeadsTo, ForwardInv
<1>3. fwd[q] # NoQueue => fwd[q] = h
  BY DEF LeadsTo, ForwardInv
<1>4. Closed({q, h})
  BY <1>2, <1>3 DEF Closed
<1> QED BY <1>1, <1>4 DEF EndOf

\* The types the following proofs need.
LEMMA OrderTypes ==
  ASSUME StrandedInv, OpInv
  PROVE  /\ IInv /\ PlaceInv /\ ListInv /\ ForwardInv /\ CallInv /\ YieldInv
         /\ ahead \in [Ops -> SUBSET Ops]
         /\ at \in [Threads -> Queues \cup {NoQueue}]
         /\ replyq \in [Ops -> Queues \cup {NoQueue}]
         /\ pc \in [Threads -> Places]
         /\ carry \in [Threads -> Ops \cup {NoOp}]
         /\ ops \in [Queues -> Seq(Ops)]
         /\ local \in [Threads -> Seq(Ops)]
         /\ NoOp \notin Ops /\ NoQueue \notin Queues
BY NullAssumption DEF StrandedInv, OpInv, IInv, TypeOK, QTypeOK, ListInv

\* Thread t sets out for queue q with an op that is in no list.
LEMMA OrderNoted ==
  ASSUME NEW h, LeadsTo(h), StrandedInv, OpInv, OrderInv(h),
         NEW t \in Threads, NEW o \in Ops, NEW q \in Queues,
         NoteAhead(o, q), ops' = ops, \A s \in Threads : Rests(s),
         carry'[t] = o, at'[t] = q,
         \A s \in Threads : s # t =>
           carry'[s] = carry[s] /\ at'[s] = at[s] /\ carry[s] # o,
         \A p \in Queues : o \notin Range(ops[p]),
         \A s \in Threads : o \notin Range(local[s])
  PROVE  OrderInv(h)'
<1>1. /\ PlaceInv /\ ForwardInv /\ ahead \in [Ops -> SUBSET Ops]
  BY OrderTypes
<1>2. \A p \in Queues : Back(p)' = Back(p)
  BY BackSame
<1>3. \A p \in Queues : OwnerOf[p] \in Threads
  BY OwnerAssumption
<1>4. ASSUME NEW p \in Queues
      PROVE  /\ \A x, a : Overtakes(p, x, a)' <=> Overtakes(p, x, a)
             /\ \A x : InLine(p, x)' <=> InLine(p, x)
  BY <1>2 DEF Overtakes, InLine
<1>5. ASSUME NEW p \in Queues PROVE Back(p) \in {<<>>, local[OwnerOf[p]]}
  BY DEF Back
<1>6. ASSUME NEW p \in Queues PROVE ~ InLine(p, o)
  BY <1>3, <1>5, EmptyList DEF InLine
<1>7. ASSUME NEW x \in Ops, x # o, NEW a \in ahead'[x]
      PROVE  Order(x, a, h)'
  <2>1. a \in ahead[x] /\ a # o
    BY <1>7 DEF NoteAhead
  <2>2. a \in Ops /\ Order(x, a, h)
    BY <1>1, <2>1 DEF OrderInv
  <2>3. \A s \in Threads : /\ carry'[s] = a => carry[s] = a
                           /\ carry'[s] = x => carry[s] = x /\ at'[s] = at[s]
    BY <1>7, <2>1
  <2> QED BY <1>4, <2>2, <2>3, OrderKept
<1>8. ASSUME NEW a \in ahead'[o]
      PROVE  Order(o, a, h)'
  <2>1. /\ a \in Ops /\ Prio[o] = 0 /\ Prio[a] = 0
        /\ \E d \in Queues : EndOf(q, d) /\ a \in Range(ops[d])
    BY <1>8 DEF NoteAhead
  <2>2. PICK d \in Queues : EndOf(q, d) /\ a \in Range(ops[d])
    BY <2>1
  <2>3. d \in {q, h}
    BY <1>1, <2>2, EndsAt
  <2>4. Waiting(a, d)
    BY <1>1, <2>1, <2>2, Found
  <2>5. ASSUME NEW p \in Queues, InLine(p, a)' PROVE p = d
    <3>1. CASE a \in Range(ops[p])
      <4>1. Waiting(a, p)
        BY <1>1, <2>1, <3>1, Found
      <4> QED BY <2>4, <4>1 DEF Waiting, Lies
    <3>2. CASE a \in Range(Back(p))
      <4>1. a \in Range(local[OwnerOf[p]])
        BY <1>5, <3>2, EmptyList
      <4>2. Out(a, OwnerOf[p])
        BY <1>1, <1>3, <2>1, <4>1, Found
      <4> QED BY <2>4, <4>2 DEF Waiting, Out, Lies
    <3> QED BY <1>4, <2>5, <3>1, <3>2 DEF InLine
  <2>6. ASSUME NEW p \in Queues PROVE ~ Overtakes(p, o, a)'
    <3>1. o \notin Range(ops[p]) /\ o \notin Range(Back(p))
      BY <1>6 DEF InLine
    <3>2. ASSUME NEW s, NEW S, s \in Seq(S), Before(s, o, a) PROVE o \in Range(s)
      BY <3>2, BeforeInRange
    <3>3. ops[p] \in Seq(Ops) /\ Back(p) \in Seq(Ops)
      <4>1. ops[p] \in Seq(Ops) /\ local[OwnerOf[p]] \in Seq(Ops)
        BY <1>3, OrderTypes
      <4>2. <<>> \in Seq(Ops)
        OBVIOUS
      <4> QED BY <1>5, <4>1, <4>2
    <3>4. ~ Overtakes(p, o, a)
      BY <3>1, <3>2, <3>3 DEF Overtakes
    <3> QED BY <1>4, <3>4
  <2>7. ASSUME NEW s \in Threads PROVE carry'[s] # a
    <3>1. a # o
      BY <2>2
    <3>2. ASSUME carry[s] = a PROVE FALSE
      <4>1. Carried(a, s)
        BY <1>1, <2>1, <3>2, Found
      <4> QED BY <2>4, <4>1 DEF Waiting, Carried, Lies
    <3> QED BY <3>1, <3>2
  <2>8. ASSUME NEW s \in Threads, NEW p \in Queues, carry'[s] = o, InLine(p, a)', p # h
        PROVE  at'[s] = p
    <3>1. s = t
      BY <2>8
    <3> QED BY <2>3, <2>5, <2>8, <3>1
  <2>9. \A p \in Queues : ~ InLine(p, o)'
    BY <1>4, <1>6
  <2>10. \A p \in Queues : ~ Overtakes(p, o, a)'
    BY <2>6
  <2>11. \A s \in Threads, p \in Queues : carry'[s] = o /\ InLine(p, a)' => p = h \/ at'[s] = p
    BY <2>8
  <2> QED BY <2>1, <2>7, <2>9, <2>10, <2>11 DEF Order
<1> QED BY <1>7, <1>8 DEF OrderInv

\* Thread t takes an op up and sets out with it.
LEMMA OrderSetOut ==
  ASSUME NEW h, LeadsTo(h), StrandedInv, OpInv, OrderInv(h),
         NEW t \in Threads, NEW o \in Ops, NEW q \in Queues,
         pc[t] = "idle", SetOut(t, o, q), UNCHANGED <<ops, local>>,
         \/ Unsent(o) \/ Armed(o) \/ \E s \in Threads : Answered(o, s)
  PROVE  OrderInv(h)'
<1>1. /\ DOMAIN carry = Threads /\ DOMAIN at = Threads /\ DOMAIN pc = Threads
  BY OrderTypes
<1>2. /\ NoteAhead(o, q) /\ carry' = [carry EXCEPT ![t] = o]
      /\ pc' = [pc EXCEPT ![t] = "enq"] /\ at' = [at EXCEPT ![t] = q]
  BY DEF SetOut, Enter
<1>3. ASSUME NEW s \in Threads PROVE Rests(s)
  BY <1>1, <1>2 DEF Rests
<1>4. Carriers(o) = {} /\ Movers(o) = {} /\ Lists(o) = {}
  BY DEF Unsent, Armed, Answered, Lies
<1>5. /\ \A s \in Threads : carry[s] # o /\ o \notin Range(local[s])
      /\ \A p \in Queues : o \notin Range(ops[p])
  BY <1>4 DEF Carriers, Movers, Lists
<1>6. carry'[t] = o /\ at'[t] = q
  BY <1>1, <1>2
<1>7. \A s \in Threads : s # t => carry'[s] = carry[s] /\ at'[s] = at[s] /\ carry[s] # o
  BY <1>1, <1>2, <1>5
<1> QED BY <1>2, <1>3, <1>5, <1>6, <1>7, OrderNoted

\* The op that a thread has brought goes behind those without priority.
LEMMA OrderEnq ==
  ASSUME NEW h, StrandedInv, OpInv, OrderInv(h), NEW t \in Threads, EnqHere(t)
  PROVE  OrderInv(h)'
<1>1. /\ DOMAIN carry = Threads /\ DOMAIN at = Threads /\ DOMAIN pc = Threads
      /\ IInv /\ NoOp \notin Ops /\ ops \in [Queues -> Seq(Ops)]
      /\ ahead \in [Ops -> SUBSET Ops]
  BY OrderTypes
<1>2. carry[t] \in Ops /\ at[t] \in Queues
  BY <1>1, AtQueue DEF EnqHere, OpInv, HandsInv, Locking
<1>0. PICK q \in Queues : q = at[t]
  BY <1>2
<1> DEFINE c == carry[t]
           s == Enq0(ops[q], c)
<1>3. Adds(ops[q], c, s)
  BY <1>1, <1>2, Enq0Adds
<1>4. /\ ops' = [ops EXCEPT ![q] = s] /\ carry' = [carry EXCEPT ![t] = NoOp]
      /\ at' = [at EXCEPT ![t] = NoQueue] /\ ahead' = ahead /\ local' = local
  BY <1>0 DEF EnqHere, opVars
<1>5. ASSUME NEW y \in Threads PROVE Rests(y)
  BY <1>1, <1>4 DEF EnqHere, Rests, Asleep
<1>6. \A p \in Queues : Back(p)' = Back(p)
  BY <1>5, BackSame
<1> HIDE DEF s
<1>7. ops'[q] = s /\ \A p \in Queues : p # q => ops'[p] = ops[p]
  BY <1>1, <1>2, <1>4
<1>8. ASSUME NEW o \in Ops, NEW a \in ahead'[o] PROVE Order(o, a, h)'
  <2>1. a \in Ops /\ Order(o, a, h)
    BY <1>1, <1>4, <1>8 DEF OrderInv
  <2>2. Prio[o] = 0 /\ a # c
    BY <2>1 DEF Order
  <2>3. ASSUME NEW p \in Queues, p # q
        PROVE  /\ Overtakes(p, o, a)' => Overtakes(p, o, a)
               /\ InLine(p, a)' => InLine(p, a)
               /\ InLine(p, o)' => InLine(p, o)
    BY <1>6, <1>7, <2>3 DEF Overtakes, InLine
  <2>4. Before(s, o, a) => Before(ops[q], o, a)
    BY <1>3, <2>2 DEF Adds
  <2>5. Range(s) = Range(ops[q]) \cup {c}
    BY <1>3 DEF Adds
  <2>6. Back(q)' = Back(q)
    BY <1>6
  <2>7. /\ Overtakes(q, o, a)' => Overtakes(q, o, a)
        /\ InLine(q, a)' => InLine(q, a)
        /\ InLine(q, o)' => InLine(q, o) \/ o = c
    <3>1. Overtakes(q, o, a)' => Overtakes(q, o, a)
      BY <1>7, <2>2, <2>4, <2>5, <2>6 DEF Overtakes
    <3>2. InLine(q, a)' => InLine(q, a)
      BY <1>7, <2>2, <2>5, <2>6 DEF InLine
    <3>3. InLine(q, o)' => InLine(q, o) \/ o = c
      BY <1>7, <2>5, <2>6 DEF InLine
    <3> QED BY <3>1, <3>2, <3>3
  <2>8. ASSUME NEW p \in Queues
        PROVE  /\ Overtakes(p, o, a)' => Overtakes(p, o, a)
               /\ InLine(p, a)' => InLine(p, a)
               /\ InLine(p, o)' => \/ InLine(p, o)
                                   \/ \E y \in Threads : carry[y] = o /\ at[y] = p
    BY <1>0, <2>3, <2>7
  <2>9. ASSUME NEW y \in Threads
        PROVE  /\ carry'[y] = a => carry[y] = a
               /\ carry'[y] = o => carry[y] = o /\ at'[y] = at[y]
    BY <1>1, <1>4, <2>1
  <2> QED BY <2>1, <2>8, <2>9, OrderKept
<1> QED BY <1>8 DEF OrderInv

\* A call that follows a forward leaves a queue where nothing waits.
LEMMA OrderFollow ==
  ASSUME NEW h, StrandedInv, OpInv, OrderInv(h), NEW t \in Threads, Follow(t)
  PROVE  OrderInv(h)'
<1>1. /\ DOMAIN at = Threads /\ IInv /\ ForwardInv /\ YieldInv
      /\ ahead \in [Ops -> SUBSET Ops]
  BY OrderTypes
<1>2. at[t] \in Queues /\ fwd[at[t]] # NoQueue /\ pc[t] # "serve"
  BY <1>1, AtQueue DEF Follow, Locking
<1>3. /\ UNCHANGED <<ops, carry, local, pc, ahead>>
      /\ \A s \in Threads : s # t => at'[s] = at[s]
  BY <1>1 DEF Follow, opVars
<1>4. ASSUME NEW y \in Threads PROVE Rests(y)
  BY <1>2, <1>3 DEF Rests
<1>5. \A p \in Queues : Back(p)' = Back(p)
  BY <1>4, BackSame
<1>6. ops[at[t]] = <<>>
  BY <1>1, <1>2 DEF ForwardInv
<1>7. Back(at[t]) = <<>>
  <2>1. ASSUME OwnerOf[at[t]] \in Yielding, pc[OwnerOf[at[t]]] = "serve",
               at[OwnerOf[at[t]]] = at[t]
        PROVE  FALSE
    BY <1>1, <1>2, <2>1 DEF YieldInv
  <2> QED BY <2>1 DEF Back
<1>8. \A a : ~ InLine(at[t], a)
  BY <1>6, <1>7, EmptyList DEF InLine
<1>9. ASSUME NEW o \in Ops, NEW a \in ahead'[o] PROVE Order(o, a, h)'
  <2>1. a \in Ops /\ Order(o, a, h)
    BY <1>1, <1>3, <1>9 DEF OrderInv
  <2>2. \A p \in Queues : /\ Overtakes(p, o, a)' => Overtakes(p, o, a)
                          /\ InLine(p, a)' => InLine(p, a)
                          /\ InLine(p, o)' => InLine(p, o)
    BY <1>3, <1>5 DEF Overtakes, InLine
  <2>3. \A s \in Threads : /\ carry'[s] = a => carry[s] = a
                           /\ carry'[s] = o =>
                                carry[s] = o /\ (at'[s] = at[s] \/ ~ InLine(at[s], a))
    BY <1>3, <1>8
  <2> QED BY <2>1, <2>2, <2>3, OrderKept
<1> QED BY <1>9 DEF OrderInv

\* A refused op is on its way to its reply queue.
LEMMA OrderRefused ==
  ASSUME NEW h, LeadsTo(h), StrandedInv, OpInv, OrderInv(h),
         NEW t \in Threads, NEW o \in Ops, NEW r \in Queues,
         pc[t] = "enq", o = carry[t], at' = [at EXCEPT ![t] = r], NoteAhead(o, r),
         UNCHANGED <<ops, carry, local, pc>>
  PROVE  OrderInv(h)'
<1>1. DOMAIN at = Threads /\ PlaceInv
  BY OrderTypes
<1>2. Carried(o, t)
  BY <1>1, Found
<1>3. Carriers(o) = {t} /\ Movers(o) = {} /\ Lists(o) = {}
  BY <1>2 DEF Carried, Lies
<1>4. /\ \A s \in Threads : o \notin Range(local[s])
      /\ \A s \in Threads : s # t => carry[s] # o
      /\ \A p \in Queues : o \notin Range(ops[p])
  BY <1>3 DEF Carriers, Movers, Lists
<1>5. ASSUME NEW s \in Threads PROVE Rests(s)
  BY <1>1 DEF Rests
<1>6. carry'[t] = o /\ at'[t] = r
  BY <1>1
<1>7. \A s \in Threads : s # t => carry'[s] = carry[s] /\ at'[s] = at[s] /\ carry[s] # o
  BY <1>1, <1>4
<1> QED BY <1>4, <1>5, <1>6, <1>7, OrderNoted

\* What a thread takes from its queue stays in line.
LEMMA OrderTake ==
  ASSUME NEW h, StrandedInv, OpInv, OrderInv(h), NEW t \in Threads, Take(t)
  PROVE  OrderInv(h)'
<1>1. /\ DOMAIN pc = Threads /\ DOMAIN local = Threads /\ DOMAIN ops = Queues
      /\ IInv /\ ahead \in [Ops -> SUBSET Ops] /\ ops \in [Queues -> Seq(Ops)]
  BY OrderTypes
<1>2. at[t] \in Queues
  BY <1>1, AtQueue DEF Take, Looking, Locking
<1> DEFINE q == at[t]
<1>3. /\ local' = [local EXCEPT ![t] = ops[q]] /\ ops' = [ops EXCEPT ![q] = <<>>]
      /\ pc' = [pc EXCEPT ![t] = "serve"]
      /\ UNCHANGED <<at, carry, ahead>>
  BY DEF Take, opVars
<1>4. /\ ops'[q] = <<>> /\ \A p \in Queues : p # q => ops'[p] = ops[p]
      /\ local'[t] = ops[q] /\ \A s \in Threads : s # t => local'[s] = local[s]
      /\ \A s \in Threads : s # t => pc'[s] = pc[s]
  BY <1>1, <1>2, <1>3
<1>5. ASSUME NEW p \in Queues
      PROVE  \/ Back(p)' \in {Back(p), <<>>}
             \/ p = q /\ Back(p)' = ops[q]
  <2>1. OwnerOf[p] \in Threads
    BY OwnerAssumption
  <2>2. CASE OwnerOf[p] = t
    BY <1>3, <1>4, <2>2 DEF Back
  <2>3. CASE OwnerOf[p] # t
    <3>1. Back(p)' = Back(p)
      BY <1>3, <1>4, <2>1, <2>3 DEF Back
    <3> QED BY <3>1
  <2> QED BY <2>2, <2>3
<1>6. ASSUME NEW p \in Queues PROVE Loosens(p)
  <2>1. Range(<<>>) = {} /\ (\A o, a : ~ Before(<<>>, o, a)) /\ ops[p] \in Seq(Ops)
    BY <1>1, EmptyList
  <2>2. CASE p # q /\ Back(p)' \in {Back(p), <<>>}
    <3>1. Within(Back(p)', Back(p))
      BY <2>1, <2>2 DEF Within
    <3>2. Within(ops'[p], ops[p])
      BY <1>4, <2>2 DEF Within
    <3> QED BY <3>1, <3>2, LooserLists
  <2>3. CASE p = q /\ Back(p)' \in {Back(p), <<>>}
    <3>1. Within(Back(p)', Back(p))
      BY <2>1, <2>3 DEF Within
    <3>2. Within(ops'[p], ops[p])
      BY <1>4, <2>1, <2>3 DEF Within
    <3> QED BY <3>1, <3>2, LooserLists
  <2>4. CASE p = q /\ Back(p)' = ops[q]
    <3>1. ops'[p] = <<>> /\ Back(p)' = ops[p]
      BY <1>4, <2>4
    <3>2. ASSUME NEW o, NEW a PROVE Overtakes(p, o, a)' => Overtakes(p, o, a)
      BY <2>1, <3>1 DEF Overtakes
    <3>3. ASSUME NEW o PROVE InLine(p, o)' => InLine(p, o)
      BY <2>1, <3>1 DEF InLine
    <3> QED BY <3>2, <3>3 DEF Loosens
  <2> QED BY <1>5, <2>2, <2>3, <2>4
<1>7. \A s \in Threads : Carries(s)
  BY <1>3 DEF Carries
<1> QED BY <1>1, <1>3, <1>6, <1>7, OrderLoosened

\* What a thread puts back goes before what has come in since.
LEMMA OrderYield ==
  ASSUME NEW h, StrandedInv, OpInv, OrderInv(h), NEW t \in Threads, ServeYield(t)
  PROVE  OrderInv(h)'
<1>1. /\ DOMAIN local = Threads /\ DOMAIN ops = Queues /\ CallInv /\ YieldInv
      /\ ahead \in [Ops -> SUBSET Ops]
      /\ ops \in [Queues -> Seq(Ops)] /\ local \in [Threads -> Seq(Ops)]
  BY OrderTypes
<1>2. /\ t \in Yielding /\ pc[t] = "serve" /\ Len(local[t]) > 1
      /\ local' = [local EXCEPT ![t] = <<>>]
      /\ UNCHANGED <<pc, at, carry, ahead>>
  BY DEF ServeYield
<1>3. PICK d \in Queues : /\ EndOf(at[t], d)
                          /\ ops' = [ops EXCEPT ![d] = PutBack(@, Tail(local[t]))]
  BY DEF ServeYield
<1>4. path[t] = <<>> /\ fwd[at[t]] = NoQueue
  BY <1>1, <1>2 DEF YieldInv
<1>5. at[t] \in Queues /\ OwnerOf[at[t]] = t
  BY <1>1, <1>2, <1>4 DEF CallInv, Locking
<1>6. d = at[t]
  BY <1>3, <1>4, <1>5, EndHere
<1> DEFINE rest == Tail(local[t])
           s == rest \o ops[d]
<1>7. /\ ops'[d] = s /\ \A p \in Queues : p # d => ops'[p] = ops[p]
      /\ local'[t] = <<>> /\ \A y \in Threads : y # t => local'[y] = local[y]
  BY <1>1, <1>2, <1>3 DEF PutBack
<1>8. Back(d) = local[t] /\ Back(d)' = <<>>
  BY <1>2, <1>5, <1>6, <1>7 DEF Back
<1>9. rest \in Seq(Ops) /\ Within(rest, local[t])
  <2>1. local[t] \in Seq(Ops) /\ local[t] # <<>>
    BY <1>1, <1>2
  <2> QED BY <2>1, Shortened, WithinIs
<1>10. /\ Range(s) = Range(rest) \cup Range(ops[d])
       /\ \A a, b : Before(s, a, b) =>
            Before(rest, a, b) \/ Before(ops[d], a, b) \/ (a \in Range(rest) /\ b \in Range(ops[d]))
  BY <1>1, <1>9, Joined
<1> HIDE DEF rest, s
<1>11. Range(<<>>) = {} /\ \A a, b : ~ Before(<<>>, a, b)
  BY EmptyList
<1>12. Loosens(d)
  <2>1. ASSUME NEW o, NEW a, Overtakes(d, o, a)' PROVE Overtakes(d, o, a)
    <3>1. Before(s, o, a)
      BY <2>1, <1>7, <1>8, <1>11 DEF Overtakes
    <3> QED BY <3>1, <1>8, <1>9, <1>10 DEF Overtakes, Within
  <2>2. ASSUME NEW o, InLine(d, o)' PROVE InLine(d, o)
    <3>1. o \in Range(s)
      BY <2>2, <1>7, <1>8, <1>11 DEF InLine
    <3> QED BY <3>1, <1>8, <1>9, <1>10 DEF InLine, Within
  <2> QED BY <2>1, <2>2 DEF Loosens
<1>13. ASSUME NEW p \in Queues, p # d PROVE Loosens(p)
  <2>1. ops'[p] = ops[p] /\ OwnerOf[p] \in Threads
    BY <1>7, <1>13, OwnerAssumption
  <2>2. Back(p)' = Back(p)
    <3>1. CASE OwnerOf[p] = t
      BY <1>2, <1>6, <1>13, <3>1 DEF Back
    <3>2. CASE OwnerOf[p] # t
      BY <1>2, <1>7, <2>1, <3>2 DEF Back
    <3> QED BY <3>1, <3>2
  <2>3. Within(Back(p)', Back(p)) /\ Within(ops'[p], ops[p])
    BY <2>1, <2>2 DEF Within
  <2> QED BY <2>3, LooserLists
<1>14. \A y \in Threads : Carries(y)
  BY <1>2 DEF Carries
<1> QED BY <1>1, <1>2, <1>12, <1>13, <1>14, OrderLoosened

\* What waits in a queue that is forwarded goes to the end of h, behind all that
\* may have waited when their calls began.
LEMMA OrderForward ==
  ASSUME NEW h, LeadsTo(h), StrandedInv, OpInv, OrderInv(h),
         NEW t \in Threads, NEW q \in Queues, NEW d \in Queues, Forward(t, q, d)
  PROVE  OrderInv(h)'
<1>1. /\ DOMAIN pc = Threads /\ DOMAIN ops = Queues /\ ForwardInv /\ NoQueue \notin Queues
      /\ ahead \in [Ops -> SUBSET Ops] /\ ops \in [Queues -> Seq(Ops)]
  BY OrderTypes
<1>2. /\ pc[t] = "idle" /\ OwnerOf[q] = t /\ <<q, d>> \in Forwards
      /\ UNCHANGED <<at, carry, local, ahead>>
  BY DEF Forward, opVars
<1>3. d = h /\ q # h /\ fwd[h] = NoQueue /\ h \in Queues
  BY <1>1, <1>2 DEF LeadsTo, ForwardInv
<1>4. ASSUME NEW y \in Threads PROVE Rests(y)
  BY <1>1, <1>2 DEF Forward, Rests, Asleep
<1>5. \A p \in Queues : Back(p)' = Back(p)
  BY <1>4, BackSame
<1>6. Back(q) = <<>>
  BY <1>2 DEF Back
<1>7. CASE ops' = ops
  <2>1. ASSUME NEW p \in Queues PROVE Loosens(p)
    <3>1. Within(Back(p)', Back(p)) /\ Within(ops'[p], ops[p])
      BY <1>5, <1>7 DEF Within
    <3> QED BY <3>1, LooserLists
  <2>2. \A y \in Threads : Carries(y)
    BY <1>2 DEF Carries
  <2> QED BY <1>1, <1>2, <2>1, <2>2, OrderLoosened
<1>8. ASSUME NEW e \in Queues, EndOf(d, e),
             ops' = [ops EXCEPT ![e] = Concat(@, ops[q]), ![q] = <<>>]
      PROVE  OrderInv(h)'
  <2>1. e = h
    BY <1>3, <1>8, EndHere
  <2> DEFINE s == Concat(ops[h], ops[q])
  <2>2. /\ ops'[h] = s /\ ops'[q] = <<>>
        /\ \A p \in Queues : p # h /\ p # q => ops'[p] = ops[p]
    BY <1>1, <1>3, <1>8, <2>1
  <2>3. Merges(ops[h], ops[q], s)
    BY <1>1, <1>3, ConcatMerges
  <2> HIDE DEF s
  <2>4. Range(s) = Range(ops[h]) \cup Range(ops[q])
    BY <2>3 DEF Merges
  <2>5. Range(<<>>) = {} /\ \A a, b : ~ Before(<<>>, a, b)
    BY EmptyList
  <2>6. ASSUME NEW x
        PROVE  /\ InLine(h, x)' <=> InLine(h, x) \/ InLine(q, x)
               /\ ~ InLine(q, x)'
               /\ \A p \in Queues : p # h /\ p # q => (InLine(p, x)' <=> InLine(p, x))
    <3>1. InLine(h, x)' <=> InLine(h, x) \/ InLine(q, x)
      BY <1>3, <1>5, <1>6, <2>2, <2>4, <2>5 DEF InLine
    <3>2. ~ InLine(q, x)'
      BY <1>5, <1>6, <2>2, <2>5 DEF InLine
    <3>3. \A p \in Queues : p # h /\ p # q => (InLine(p, x)' <=> InLine(p, x))
      BY <1>5, <2>2 DEF InLine
    <3> QED BY <3>1, <3>2, <3>3
  <2>7. ASSUME NEW o \in Ops, NEW a \in ahead'[o] PROVE Order(o, a, h)'
    <3>1. a \in Ops /\ Order(o, a, h)
      BY <1>1, <1>2, <2>7 DEF OrderInv
    <3>2. Prio[o] = 0 /\ Prio[a] = 0
      BY <3>1 DEF Order
    <3>3. \A p \in Queues : ~ Overtakes(p, o, a)
      BY <3>1 DEF Order
    <3>4. \A p, x \in Queues : p # x /\ InLine(p, a) /\ InLine(x, o) => p = h
      BY <3>1 DEF Order
    <3>5. ~ (InLine(q, a) /\ InLine(h, o))
      BY <1>3, <3>4
    <3>6. ~ Overtakes(h, o, a)'
      <4>1. ~ Before(Back(h), o, a) /\ ~ Before(ops[h], o, a) /\ ~ Before(ops[q], o, a)
        BY <1>3, <3>3 DEF Overtakes
      <4>2. ~ (o \in Range(ops[h]) /\ a \in Range(ops[q]))
        BY <3>5 DEF InLine
      <4>3. ~ Before(s, o, a)
        BY <2>3, <3>2, <4>1, <4>2 DEF Merges
      <4>4. ~ (o \in Range(Back(h)) /\ a \in Range(s))
        BY <1>3, <2>4, <3>3, <3>5 DEF Overtakes, InLine
      <4> QED BY <1>3, <1>5, <2>2, <4>1, <4>3, <4>4 DEF Overtakes
    <3>7. ~ Overtakes(q, o, a)'
      BY <1>5, <1>6, <2>2, <2>5 DEF Overtakes
    <3>8. ASSUME NEW p \in Queues, p # h, p # q PROVE ~ Overtakes(p, o, a)'
      BY <1>5, <2>2, <3>3, <3>8 DEF Overtakes
    <3>9. ASSUME NEW p \in Queues, NEW x \in Queues, p # x, InLine(p, a)', InLine(x, o)', p # h
          PROVE  FALSE
      <4>1. p # q /\ InLine(p, a)
        BY <2>6, <3>9
      <4>2. CASE x # h
        BY <2>6, <3>4, <3>9, <4>1, <4>2
      <4>3. CASE x = h
        BY <1>3, <2>6, <3>4, <3>9, <4>1, <4>3
      <4> QED BY <4>2, <4>3
    <3>10. \A y \in Threads : carry'[y] # a
      BY <1>2, <3>1 DEF Order
    <3>11. ASSUME NEW y \in Threads, NEW p \in Queues, carry'[y] = o, InLine(p, a)', p # h
           PROVE  at'[y] = p
      <4>1. InLine(p, a) /\ carry[y] = o
        BY <1>2, <2>6, <3>11
      <4> QED BY <1>2, <3>1, <3>11, <4>1 DEF Order
    <3>12. \A p \in Queues : ~ Overtakes(p, o, a)'
      BY <3>6, <3>7, <3>8
    <3>13. \A p, x \in Queues : p # x /\ InLine(p, a)' /\ InLine(x, o)' => p = h
      BY <3>9
    <3>14. \A y \in Threads, p \in Queues : carry'[y] = o /\ InLine(p, a)' => p = h \/ at'[y] = p
      BY <3>11
    <3> QED BY <3>2, <3>10, <3>12, <3>13, <3>14 DEF Order
  <2> QED BY <2>7 DEF OrderInv
<1> QED BY <1>7, <1>8 DEF Forward

\* Threads go from call to call with empty hands.
LEMMA OrderWalk ==
  ASSUME NEW h, StrandedInv, OpInv, OrderInv(h), UNCHANGED <<ops, carry, local, ahead>>,
         \A y \in Threads : pc[y] = "enq" \/ pc'[y] = "serve" =>
                              pc'[y] = pc[y] /\ at'[y] = at[y]
  PROVE  OrderInv(h)'
<1>1. ahead \in [Ops -> SUBSET Ops]
  BY OrderTypes
<1>2. \A q \in Queues : Within(ops'[q], ops[q])
  BY DEF Within
<1>3. ASSUME NEW y \in Threads PROVE Serves(y) /\ Carries(y)
  <2>1. Within(local'[y], local[y])
    BY DEF Within
  <2>2. carry'[y] \in Ops => pc[y] = "enq"
    BY DEF OpInv, HandsInv
  <2> QED BY <2>1, <2>2 DEF Serves, Carries
<1> QED BY <1>1, <1>2, <1>3, OrderCalm

\* A thread is done with the next op that it has moved out.
LEMMA OrderNextOut ==
  ASSUME NEW h, StrandedInv, OpInv, OrderInv(h), NEW t \in Threads, local[t] # <<>>,
         local' = [local EXCEPT ![t] = Tail(@)], UNCHANGED <<ops, carry, ahead, pc, at>>
  PROVE  OrderInv(h)'
<1>1. ahead \in [Ops -> SUBSET Ops] /\ local \in [Threads -> Seq(Ops)]
  BY OrderTypes
<1>2. \A q \in Queues : Within(ops'[q], ops[q])
  BY DEF Within
<1>3. ASSUME NEW y \in Threads PROVE Serves(y) /\ Carries(y)
  <2>1. local[y] \in Seq(Ops)
    BY <1>1
  <2>2. local'[y] = IF y = t THEN Tail(local[t]) ELSE local[y]
    BY <1>1
  <2>3. Within(local'[y], local[y])
    BY <2>1, <2>2, WithinIs
  <2> QED BY <2>3 DEF Serves, Carries
<1> QED BY <1>1, <1>2, <1>3, OrderCalm

\* A thread leaves with what waits, to destroy it.
LEMMA OrderPurge ==
  ASSUME NEW h, StrandedInv, OpInv, OrderInv(h), NEW t \in Threads, Purge(t)
  PROVE  OrderInv(h)'
<1>1. /\ ahead \in [Ops -> SUBSET Ops] /\ ops \in [Queues -> Seq(Ops)] /\ DOMAIN pc = Threads
      /\ local \in [Threads -> Seq(Ops)] /\ DOMAIN at = Threads
  BY OrderTypes
<1>2. ASSUME NEW q \in Queues PROVE Within(ops'[q], ops[q])
  <2>1. ops'[q] \in {ops[q], <<>>} /\ ops[q] \in Seq(Ops)
    BY <1>1 DEF Purge
  <2> QED BY <2>1, WithinIs
<1>3. ASSUME NEW y \in Threads PROVE Serves(y) /\ Carries(y)
  <2>1. CASE y = t
    <3>1. pc'[y] = "destroy" /\ carry'[y] = carry[y] /\ carry[y] \notin Ops
      BY <1>1, <2>1 DEF Purge, OpInv, HandsInv
    <3> QED BY <3>1 DEF Serves, Carries
  <2>2. CASE y # t
    <3>1. /\ pc'[y] = pc[y] /\ at'[y] = at[y] /\ carry'[y] = carry[y]
          /\ local'[y] = local[y] /\ local[y] \in Seq(Ops)
      BY <1>1, <2>2 DEF Purge
    <3> QED BY <3>1, WithinIs DEF Serves, Carries
  <2> QED BY <2>1, <2>2
<1>4. ahead' = ahead
  BY DEF Purge, opVars
<1> QED BY <1>1, <1>2, <1>3, <1>4, OrderCalm

\* A queue is freed.
LEMMA OrderFinal ==
  ASSUME NEW h, StrandedInv, OpInv, OrderInv(h), NEW q \in Queues, Final(q)
  PROVE  OrderInv(h)'
<1>1. /\ ahead \in [Ops -> SUBSET Ops] /\ ops \in [Queues -> Seq(Ops)]
      /\ local \in [Threads -> Seq(Ops)]
  BY OrderTypes
<1>2. UNCHANGED <<pc, at, carry, local, ahead>>
  BY DEF Final, threadVars, opVars
<1>3. ops' = ops \/ (ops[q] # <<>> /\ ops' = [ops EXCEPT ![q] = Tail(@)])
  BY DEF Final
<1>4. ASSUME NEW p \in Queues PROVE Within(ops'[p], ops[p])
  <2>1. ops'[p] = ops[p] \/ (ops[p] # <<>> /\ ops'[p] = Tail(ops[p]))
    BY <1>1, <1>3
  <2>2. ops[p] \in Seq(Ops)
    BY <1>1
  <2> QED BY <2>1, <2>2, WithinIs
<1>5. ASSUME NEW y \in Threads PROVE Serves(y) /\ Carries(y)
  <2>1. Within(local'[y], local[y])
    BY <1>2 DEF Within
  <2> QED BY <2>1, <1>2 DEF Serves, Carries
<1> QED BY <1>1, <1>2, <1>4, <1>5, OrderCalm

\* A disabled queue refuses the op, which is failed to its reply queue or gone.
LEMMA OrderEnqRefused ==
  ASSUME NEW h, LeadsTo(h), StrandedInv, OpInv, OrderInv(h), NEW t \in Threads, EnqRefused(t)
  PROVE  OrderInv(h)'
<1>1. /\ ahead \in [Ops -> SUBSET Ops] /\ DOMAIN pc = Threads /\ DOMAIN at = Threads
      /\ DOMAIN carry = Threads /\ NoOp \notin Ops
      /\ replyq \in [Ops -> Queues \cup {NoQueue}]
  BY OrderTypes
<1>2. pc[t] = "enq" /\ UNCHANGED <<ops, local>>
  BY DEF EnqRefused, queueVars
<1>3. CASE /\ carry' = [carry EXCEPT ![t] = NoOp] /\ pc' = [pc EXCEPT ![t] = "return"]
           /\ at' = [at EXCEPT ![t] = NoQueue] /\ UNCHANGED ahead
  <2>1. \A q \in Queues : Within(ops'[q], ops[q])
    BY <1>2 DEF Within
  <2>2. ASSUME NEW y \in Threads PROVE Serves(y) /\ Carries(y)
    <3>1. Within(local'[y], local[y])
      BY <1>2 DEF Within
    <3>2. CASE y = t
      BY <1>1, <1>3, <3>2 DEF Serves, Carries
    <3>3. CASE y # t
      BY <1>1, <1>3, <3>1, <3>3 DEF Serves, Carries
    <3> QED BY <3>2, <3>3
  <2> QED BY <1>1, <1>3, <2>1, <2>2, OrderCalm
<1>4. ASSUME NEW o \in Ops, o = carry[t], replyq[o] # NoQueue,
             at' = [at EXCEPT ![t] = replyq[o]], NoteAhead(o, replyq[o]), UNCHANGED <<carry, pc>>
      PROVE  OrderInv(h)'
  <2>1. PICK r \in Queues : r = replyq[o]
    BY <1>1, <1>4
  <2>2. at' = [at EXCEPT ![t] = r] /\ NoteAhead(o, r)
    BY <1>4, <2>1
  <2> QED BY <1>2, <1>4, <2>2, OrderRefused
<1> QED BY <1>3, <1>4 DEF EnqRefused

\* Every step keeps the order.
LEMMA OrderPreserved ==
  ASSUME NEW h, LeadsTo(h), StrandedInv, OpInv, OrderInv(h), Next
  PROVE  OrderInv(h)'
<1>1. /\ DOMAIN pc = Threads /\ DOMAIN at = Threads /\ PlaceInv
      /\ NoOp \notin Ops /\ IInv
      /\ replyq \in [Ops -> Queues \cup {NoQueue}]
  BY OrderTypes
<1> DEFINE Walks(y) == pc[y] = "enq" \/ pc'[y] = "serve" =>
                         pc'[y] = pc[y] /\ at'[y] = at[y]
\* The calls of threads that neither serve nor carry, before and after.
<1>2. ASSUME NEW t \in Threads,
             \/ Return(t) \/ NudgeHere(t) \/ Wait(t) \/ Yielded(t) \/ Timeout(t)
             \/ Served(t) \/ Purged(t)
      PROVE  OrderInv(h)'
  <2>1. UNCHANGED <<ops, carry, local, ahead>>
    BY <1>2 DEF Return, NudgeHere, Wait, Yielded, Timeout, Served, Purged, queueVars, opVars
  <2>2. pc[t] # "enq" /\ pc'[t] # "serve"
    BY <1>1, <1>2 DEF Return, NudgeHere, Wait, Yielded, Timeout, Served, Purged, Leave, Looking
  <2>3. ASSUME NEW y \in Threads, y # t
        PROVE  at'[y] = at[y] /\ (pc'[y] = pc[y] \/ (pc[y] = "asleep" /\ pc'[y] = "awake"))
    BY <1>1, <1>2, <2>3
       DEF Return, NudgeHere, Wait, Yielded, Timeout, Served, Purged, Leave, Asleep
  <2>4. \A y \in Threads : Walks(y)
    BY <2>2, <2>3
  <2> QED BY <2>1, <2>4, OrderWalk
<1>3. ASSUME NEW t \in Threads, NEW q \in Queues, Nudge(t, q) \/ Poll(t, q) \/ DestroyOwner(t, q)
      PROVE  OrderInv(h)'
  <2>1. UNCHANGED <<ops, carry, local, ahead>>
    BY <1>3 DEF Nudge, Poll, DestroyOwner, queueVars, opVars
  <2>2. pc[t] # "enq" /\ pc'[t] # "serve"
    BY <1>1, <1>3 DEF Nudge, Poll, DestroyOwner, Enter
  <2>3. \A y \in Threads : y # t => at'[y] = at[y] /\ pc'[y] = pc[y]
    BY <1>1, <1>3 DEF Nudge, Poll, DestroyOwner, Enter
  <2>4. \A y \in Threads : Walks(y)
    BY <2>2, <2>3
  <2> QED BY <2>1, <2>4, OrderWalk
<1>4. ASSUME UNCHANGED <<ops, carry, local, ahead, pc, at>> PROVE OrderInv(h)'
  BY <1>4, OrderWalk
<1>5. ASSUME NEW t \in Threads,
             \/ \E q \in Queues : Unforward(t, q)
             \/ \E s \in Sources : AddSource(t, s) \/ DelSource(t, s)
             \/ \E o \in Ops, q \in Queues : New(t, o, q)
             \/ Disown(t)
      PROVE  OrderInv(h)'
  <2>1. UNCHANGED <<ops, carry, local, ahead, pc, at>>
    BY <1>5 DEF Unforward, AddSource, DelSource, New, Disown, qVars, queueVars, opVars, threadVars
  <2> QED BY <1>4, <2>1
<1>6. ASSUME NEW t \in Threads, Serve(t) \/ DestroyNext(t) \/ \E q \in Queues : Reenable(t, q)
      PROVE  OrderInv(h)'
  <2>1. /\ local[t] # <<>> /\ local' = [local EXCEPT ![t] = Tail(@)]
        /\ UNCHANGED <<ops, carry, ahead, pc, at>>
    BY <1>6 DEF Serve, DestroyNext, Reenable, queueVars, opVars
  <2> QED BY <2>1, OrderNextOut
\* A thread sets out.
<1>7. ASSUME NEW t \in Threads, NEW o \in Ops, Reply(t, o)
      PROVE  OrderInv(h)'
  <2>1. /\ pc[t] = "idle" /\ o \in answering[t] /\ UNCHANGED <<ops, local>>
        /\ \E r \in Queues : r = replyq[o] /\ SetOut(t, o, r)
    BY <1>7 DEF Reply, queueVars
  <2>2. Answered(o, t)
    BY <1>1, <2>1, Found
  <2> QED BY <2>1, <2>2, OrderSetOut
<1>8. ASSUME NEW t \in Threads, NEW q \in Queues, NEW o \in Ops,
             NEW r \in Queues \cup {NoQueue}, Send(t, q, o, r)
      PROVE  OrderInv(h)'
  <2>1. /\ pc[t] = "idle" /\ o \notin sent /\ UNCHANGED <<ops, local>> /\ SetOut(t, o, q)
    BY <1>8 DEF Send
  <2>2. Unsent(o)
    BY <1>1, <2>1, Found
  <2> QED BY <2>1, <2>2, OrderSetOut
<1>9. ASSUME NEW t \in Threads, NEW s \in Sources, Trigger(t, s)
      PROVE  OrderInv(h)'
  <2>1. pc[t] = "idle" /\ UNCHANGED ops
    BY <1>9 DEF Trigger, queueVars
  <2>2. CASE UNCHANGED <<threadVars, ahead>>
    BY <1>4, <2>1, <2>2 DEF threadVars
  <2>3. CASE erko # NoOp /\ SetOut(t, erko, ereplyq) /\ UNCHANGED local
    <3>1. erko \in Ops /\ ereplyq \in Queues
      BY <1>1, <2>3 DEF IInv, TypeOK, EonceAsserts
    <3>2. PICK o \in Ops : o = erko
      BY <3>1
    <3>3. PICK q \in Queues : q = ereplyq
      BY <3>1
    <3>4. SetOut(t, o, q)
      BY <2>3, <3>2, <3>3
    <3>5. Armed(o)
      BY <1>1, <3>2, Found
    <3> QED BY <2>1, <2>3, <3>4, <3>5, OrderSetOut
  <2> QED BY <1>9, <2>2, <2>3 DEF Trigger
<1> QED
  BY <1>2, <1>3, <1>5, <1>6, <1>7, <1>8, <1>9, OrderEnq, OrderFollow, OrderTake, OrderYield,
     OrderForward, OrderPurge, OrderFinal, OrderEnqRefused
     DEF Next, QNext, CallStep, OwnerStep, EonceStep, Q

\* An op without priority never overtakes one that waited, when its call began,
\* where that call leads, if all forwards lead to one queue, as those of a
\* consumer do to the consumer queue: rd_kafka_q_enq0 puts it behind them,
\* rd_kafka_q_concat0 behind all that waits where the forward leads, and
\* rd_kafka_q_prepend0 puts back what was taken earlier before what came later.
THEOREM NoOvertakingHolds ==
  ASSUME NEW CONSTANT h, LeadsTo(h), YieldersDoNotForward
  PROVE  Spec => []NoOvertaking
<1>1. Init => OrderInv(h)
  BY DEF Init, QInit, OrderInv
<1>2. StrandedInv /\ OpInv /\ OrderInv(h) /\ [Next]_vars => OrderInv(h)'
  <2>1. ASSUME StrandedInv, OpInv, OrderInv(h), UNCHANGED vars PROVE OrderInv(h)'
    <3>1. UNCHANGED <<ops, carry, local, ahead, pc, at>>
      BY <2>1 DEF vars, qVars, queueVars, opVars, threadVars
    <3> QED BY <2>1, <3>1, OrderWalk
  <2> QED BY <2>1, OrderPreserved
<1>3. StrandedInv /\ OpInv /\ OrderInv(h) => NoOvertaking
  <2>1. ASSUME StrandedInv, OpInv, OrderInv(h), NEW q \in Queues, NEW j \in DOMAIN ops[q],
               NEW i \in 1 .. j - 1, ops[q][j] \in ahead[ops[q][i]]
        PROVE  FALSE
    <3>1. ops[q] \in Seq(Ops)
      BY <2>1, OrderTypes
    <3>2. DOMAIN ops[q] = 1 .. Len(ops[q]) /\ Len(ops[q]) \in Nat
      BY <3>1, LenProperties
    <3>3. i \in 1 .. Len(ops[q]) /\ j \in 1 .. Len(ops[q]) /\ i < j
      BY <2>1, <3>2
    <3>4. ops[q][i] \in Ops
      BY <3>1, <3>3, ElementOfSeq
    <3>5. Before(ops[q], ops[q][i], ops[q][j])
      BY <3>3 DEF Before
    <3>6. Order(ops[q][i], ops[q][j], h)
      BY <2>1, <3>4 DEF OrderInv
    <3> QED BY <3>5, <3>6 DEF Order, Overtakes
  <2> QED BY <2>1 DEF NoOvertaking
<1>4. Spec => []StrandedInv
  BY StrandedHolds
<1>5. Spec => []OpInv
  BY PlacesHold
<1> QED BY <1>1, <1>2, <1>3, <1>4, <1>5, PTL DEF Spec
=============================================================================
