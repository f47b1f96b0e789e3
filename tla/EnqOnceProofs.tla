--------------------------- MODULE EnqOnceProofs ---------------------------
(***************************************************************************)
(* Theorems about EnqOnce, for any queues, ops, threads, forwards and      *)
(* sources: references are counted exactly, so that no queue is used after *)
(* it has been freed, the assertions of the eonce hold, and no op is left  *)
(* on a queue that nobody polls.                                           *)
(*                                                                         *)
(* The heart of it is how each action moves references between the five    *)
(* kinds of holders; a few lemmas say what one change of a variable does   *)
(* to the number of holders, and each action is then a sum.                *)
(***************************************************************************)
EXTENDS EnqOnce, FiniteSetTheorems, SequenceTheorems, TLAPS

\* The places of a thread that is about to take, or waits on, a queue's lock.
Locking == {"enq", "yield", "poll", "asleep", "awake", "serve", "purge"}

\* A thread holds the queue it is at: it has kept it, or it owns it.
CallInv ==
  \A t \in Threads :
    /\ pc[t] = "idle" => path[t] = <<>>
    /\ pc[t] \in {"enq", "yield", "purge", "destroy", "return"} => path[t] # <<>>
    /\ pc[t] \notin Locking => at[t] = NoQueue
    /\ pc[t] \in Locking =>
         /\ at[t] \in Queues
         /\ IF path[t] = <<>> THEN owned[at[t]] /\ OwnerOf[at[t]] = t
                              ELSE at[t] = path[t][Len(path[t])]

\* The references of calls can be counted.
CallsFinite == \A q \in Queues : IsFiniteSet(Calling(q))

\* A queue is freed when it is empty and nobody is left.
FreeInv == \A q \in Queues : freed[q] => refcnt[q] = 0 /\ ops[q] = <<>>

\* An op asks for an answer when it is sent.
AskInv == \A o \in Ops : replyq[o] # NoQueue => o \in sent

IInv ==
  /\ TypeOK
  /\ DOMAIN ops = Queues
  /\ AskInv
  /\ CallInv
  /\ CallsFinite
  /\ RefcntExact
  /\ FreeInv
  /\ EonceAsserts

-----------------------------------------------------------------------------
(* Counting.                                                               *)

\* The arguments that f maps to q.
MapsTo(D, f, q) == {x \in D : f[x] = q}

\* Of n that were mapped to q, m are left when one moves from a to b.
Moved(n, m, a, b, q) ==
  m = n + (IF b = q THEN 1 ELSE 0) - (IF a = q THEN 1 ELSE 0)

\* One change of a function, and the number of arguments it maps to q.
LEMMA EditCard ==
  ASSUME NEW D, IsFiniteSet(D), NEW f, NEW g, NEW p \in D, NEW d, NEW q,
         DOMAIN f = D, g = [f EXCEPT ![p] = d]
  PROVE  Moved(Cardinality(MapsTo(D, f, q)), Cardinality(MapsTo(D, g, q)),
               f[p], d, q)
<1> DEFINE A == {x \in D : f[x] = q}
           B == {x \in D : g[x] = q}
           C == {x \in D : x # p /\ f[x] = q}
<1>1. IsFiniteSet(A) /\ IsFiniteSet(B) /\ IsFiniteSet(C)
  BY FS_Subset
<1>2. Cardinality(A) \in Nat /\ Cardinality(C) \in Nat
  BY <1>1, FS_CardinalityType
<1>3. p \notin C
  OBVIOUS
<1>4. Cardinality(C \cup {p}) = Cardinality(C) + 1
  BY <1>1, <1>3, FS_AddElement
<1>5. A = IF f[p] = q THEN C \cup {p} ELSE C
  OBVIOUS
<1>6. B = IF d = q THEN C \cup {p} ELSE C
  OBVIOUS
<1> HIDE DEF A, B, C
<1>7. Cardinality(B) = Cardinality(A) + (IF d = q THEN 1 ELSE 0)
                          - (IF f[p] = q THEN 1 ELSE 0)
  BY <1>2, <1>4, <1>5, <1>6
<1> QED BY <1>7 DEF A, B, MapsTo, Moved

\* What is in the references of the calls.
LEMMA CallingElements ==
  ASSUME NEW q, NEW x
  PROVE  x \in Calling(q) <=> \E t \in Threads : \E i \in 1 .. Len(path[t]) :
                                 path[t][i] = q /\ x = <<t, i>>
BY DEF Calling

\* A thread keeps one more queue.
LEMMA CallDeeper ==
  ASSUME NEW t \in Threads, NEW d \in Queues, NEW q \in Queues,
         path \in [Threads -> Seq(Queues)], CallsFinite,
         path' = [path EXCEPT ![t] = Append(@, d)]
  PROVE  /\ IsFiniteSet(Calling(q)')
         /\ Cardinality(Calling(q)) \in Nat
         /\ Cardinality(Calling(q)')
              = Cardinality(Calling(q)) + IF d = q THEN 1 ELSE 0
<1> DEFINE n == Len(path[t]) + 1
<1>1. IsFiniteSet(Calling(q))
  BY DEF CallsFinite
<1>2. path[t] \in Seq(Queues) /\ n \in Nat
  OBVIOUS
<1>3. \A s \in Threads : s # t => path'[s] = path[s]
  OBVIOUS
<1>4. /\ path'[t] = Append(path[t], d)
      /\ Len(path'[t]) = n
      /\ path'[t][n] = d
      /\ \A i \in 1 .. n - 1 : path'[t][i] = path[t][i]
  BY <1>2
<1>5. <<t, n>> \notin Calling(q)
  BY <1>2 DEF Calling
<1>6. Calling(q)' = IF d = q THEN Calling(q) \cup {<<t, n>>} ELSE Calling(q)
  <2>1. ASSUME NEW x \in Calling(q) PROVE x \in Calling(q)'
    BY <2>1, <1>2, <1>3, <1>4 DEF Calling
  <2>2. d = q => <<t, n>> \in Calling(q)'
    BY <1>2, <1>4 DEF Calling
  <2>3. ASSUME NEW x \in Calling(q)'
        PROVE  x \in Calling(q) \/ (x = <<t, n>> /\ d = q)
    <3>1. PICK s \in Threads : \E i \in 1 .. Len(path'[s]) :
                          path'[s][i] = q /\ x = <<s, i>>
      BY <2>3 DEF Calling
    <3>2. PICK i \in 1 .. Len(path'[s]) : path'[s][i] = q /\ x = <<s, i>>
      BY <3>1
    <3>3. CASE s # t
      BY <3>2, <3>3, <1>3 DEF Calling
    <3>4. CASE s = t /\ i = n
      BY <3>2, <3>4, <1>4
    <3>5. CASE s = t /\ i # n
      <4>1. i \in 1 .. Len(path[t]) /\ path[t][i] = q
        BY <3>2, <3>5, <1>2, <1>4
      <4> QED BY <4>1, <3>2, <3>5 DEF Calling
    <3> QED BY <3>3, <3>4, <3>5
  <2> QED BY <2>1, <2>2, <2>3
<1>7. Cardinality(Calling(q)) \in Nat
  BY <1>1, FS_CardinalityType
<1>8. /\ IsFiniteSet(Calling(q) \cup {<<t, n>>})
      /\ Cardinality(Calling(q) \cup {<<t, n>>}) = Cardinality(Calling(q)) + 1
  BY <1>1, <1>5, FS_AddElement
<1> HIDE DEF n
<1> QED BY <1>1, <1>6, <1>7, <1>8

\* A thread lets go of the queue it kept last.
LEMMA CallShallower ==
  ASSUME NEW t \in Threads, NEW q \in Queues,
         path \in [Threads -> Seq(Queues)], CallsFinite, path[t] # <<>>,
         path' = [path EXCEPT ![t] = Front(@)]
  PROVE  /\ IsFiniteSet(Calling(q)')
         /\ Cardinality(Calling(q)) \in Nat
         /\ Cardinality(Calling(q)')
              = Cardinality(Calling(q)) - IF Last(path[t]) = q THEN 1 ELSE 0
<1> DEFINE n == Len(path[t])
<1>1. IsFiniteSet(Calling(q))
  BY DEF CallsFinite
<1>2. path[t] \in Seq(Queues) /\ n \in Nat /\ n >= 1
  OBVIOUS
<1>3. \A s \in Threads : s # t => path'[s] = path[s]
  OBVIOUS
<1>4. /\ Last(path[t]) = path[t][n]
      /\ Len(path'[t]) = n - 1
      /\ \A i \in 1 .. n - 1 : path'[t][i] = path[t][i]
  <2>1. path'[t] = SubSeq(path[t], 1, n - 1)
    BY DEF Front
  <2>2. n - 1 \in Int /\ \A i \in 1 .. n - 1 : path[t][i] \in Queues
    BY <1>2
  <2>3. /\ Len(SubSeq(path[t], 1, n - 1)) = n - 1
        /\ \A i \in 1 .. n - 1 : SubSeq(path[t], 1, n - 1)[i] = path[t][i]
    <3> HIDE DEF n
    <3>1. /\ Len(SubSeq(path[t], 1, n - 1))
               = IF 1 <= n - 1 THEN n - 1 - 1 + 1 ELSE 0
          /\ \A i \in 1 .. n - 1 - 1 + 1 :
               SubSeq(path[t], 1, n - 1)[i] = path[t][1 + i - 1]
      BY <2>2, SubSeqProperties
    <3> QED BY <3>1, <1>2
  <2> QED BY <2>1, <2>3 DEF Last
<1>5. <<t, n>> \notin Calling(q)'
  BY <1>2, <1>4 DEF Calling
<1>6. Calling(q) = IF Last(path[t]) = q THEN Calling(q)' \cup {<<t, n>>}
                                        ELSE Calling(q)'
  <2>1. ASSUME NEW x \in Calling(q)' PROVE x \in Calling(q)
    BY <2>1, <1>2, <1>3, <1>4 DEF Calling
  <2>2. Last(path[t]) = q => <<t, n>> \in Calling(q)
    <3>1. n \in 1 .. Len(path[t]) /\ Last(path[t]) = path[t][n]
      BY <1>2, <1>4
    <3> HIDE DEF n
    <3> QED BY <3>1, CallingElements
  <2>3. ASSUME NEW x \in Calling(q)
        PROVE  x \in Calling(q)' \/ (x = <<t, n>> /\ Last(path[t]) = q)
    <3>1. PICK s \in Threads : \E i \in 1 .. Len(path[s]) :
                                 path[s][i] = q /\ x = <<s, i>>
      BY <2>3 DEF Calling
    <3>2. PICK i \in 1 .. Len(path[s]) : path[s][i] = q /\ x = <<s, i>>
      BY <3>1
    <3>3. CASE s # t
      BY <3>2, <3>3, <1>3 DEF Calling
    <3>4. CASE s = t /\ i = n
      BY <3>2, <3>4, <1>4
    <3>5. CASE s = t /\ i # n
      <4>1. i \in 1 .. Len(path'[t]) /\ path'[t][i] = q
        BY <3>2, <3>5, <1>2, <1>4
      <4> QED BY <4>1, <3>2, <3>5 DEF Calling
    <3> QED BY <3>3, <3>4, <3>5
  <2> QED BY <2>1, <2>2, <2>3
<1>7. IsFiniteSet(Calling(q)')
  <2>1. Calling(q)' \subseteq Calling(q)
    BY <1>6
  <2> QED BY <2>1, <1>1, FS_Subset
<1>8. Cardinality(Calling(q)') \in Nat
  BY <1>7, FS_CardinalityType
<1>9. Cardinality(Calling(q)' \cup {<<t, n>>}) = Cardinality(Calling(q)') + 1
  BY <1>5, <1>7, FS_AddElement
<1> HIDE DEF n
<1>10. CASE Last(path[t]) = q
  <2>1. Calling(q) = Calling(q)' \cup {<<t, n>>}
    BY <1>6, <1>10
  <2>2. Cardinality(Calling(q)) = Cardinality(Calling(q)') + 1
    BY <2>1, <1>9
  <2> QED BY <2>2, <1>7, <1>8, <1>10
<1>11. CASE Last(path[t]) # q
  BY <1>6, <1>7, <1>8, <1>11
<1> QED BY <1>10, <1>11

\* A queue without references: nobody leads to it, and no thread is there.
LEMMA Unheld ==
  ASSUME IInv, NEW q \in Queues
  PROVE  /\ Cardinality(Forwarding(q)) \in Nat
         /\ Cardinality(Asking(q)) \in Nat
         /\ Cardinality(Calling(q)) \in Nat
         /\ refcnt[q] = 0 =>
              /\ ~owned[q] /\ ereplyq # q
              /\ Forwarding(q) = {} /\ Asking(q) = {} /\ Calling(q) = {}
              /\ \A t \in Threads : \A i \in 1 .. Len(path[t]) : path[t][i] # q
              /\ \A t \in Threads : at[t] # q
<1>1. IsFiniteSet(Forwarding(q)) /\ IsFiniteSet(Asking(q)) /\ IsFiniteSet(Calling(q))
  BY SetsAssumption, FS_Subset DEF Forwarding, Asking, IInv, CallsFinite
<1>2. /\ Cardinality(Forwarding(q)) \in Nat
      /\ Cardinality(Asking(q)) \in Nat
      /\ Cardinality(Calling(q)) \in Nat
  BY <1>1, FS_CardinalityType
<1>3. ASSUME refcnt[q] = 0
      PROVE  /\ ~owned[q] /\ ereplyq # q
             /\ Forwarding(q) = {} /\ Asking(q) = {} /\ Calling(q) = {}
  <2>1. 0 = Owning(q) + Arming(q) + Cardinality(Forwarding(q))
              + Cardinality(Asking(q)) + Cardinality(Calling(q))
    BY <1>3 DEF IInv, RefcntExact
  <2>2. ~owned[q] /\ ereplyq # q
    BY <2>1, <1>2 DEF Owning, Arming
  <2>3. /\ Cardinality(Forwarding(q)) = 0
        /\ Cardinality(Asking(q)) = 0
        /\ Cardinality(Calling(q)) = 0
    <3>1. Owning(q) \in Nat /\ Arming(q) \in Nat
      BY DEF Owning, Arming
    <3> DEFINE f == Cardinality(Forwarding(q))
               a == Cardinality(Asking(q))
               c == Cardinality(Calling(q))
    <3>2. f \in Nat /\ a \in Nat /\ c \in Nat
      BY <1>2
    <3>3. 0 = Owning(q) + Arming(q) + f + a + c
      BY <2>1
    <3> HIDE DEF f, a, c
    <3>4. f = 0 /\ a = 0 /\ c = 0
      BY <3>1, <3>2, <3>3
    <3> QED BY <3>4 DEF f, a, c
  <2> QED BY <2>2, <2>3, <1>1, FS_EmptySet
<1>4. ASSUME Calling(q) = {}, NEW t \in Threads, NEW i \in 1 .. Len(path[t])
      PROVE  path[t][i] # q
  BY <1>4, CallingElements
<1>5. ASSUME Calling(q) = {}, ~owned[q], NEW t \in Threads PROVE at[t] # q
  <2>1. path \in [Threads -> Seq(Queues)] /\ at \in [Threads -> Queues \cup {NoQueue}]
    BY DEF IInv, TypeOK, QTypeOK
  <2>2. \A i \in 1 .. Len(path[t]) : path[t][i] # q
    BY <1>4, <1>5
  <2>3. path[t] # <<>> => Len(path[t]) \in 1 .. Len(path[t])
    BY <2>1
  <2> QED BY <1>5, <2>2, <2>3, NullAssumption DEF IInv, CallInv
<1> QED BY <1>2, <1>3, <1>4, <1>5

\* One forward, and one reply queue, is changed.
LEMMA ForwardingCard ==
  ASSUME TypeOK, NEW p \in Queues, NEW d, fwd' = [fwd EXCEPT ![p] = d],
         NEW q \in Queues
  PROVE  Moved(Cardinality(Forwarding(q)), Cardinality(Forwarding(q)'), fwd[p], d, q)
<1>1. IsFiniteSet(Queues) /\ DOMAIN fwd = Queues
  BY SetsAssumption DEF TypeOK, QTypeOK
<1>2. Moved(Cardinality(MapsTo(Queues, fwd, q)), Cardinality(MapsTo(Queues, fwd', q)),
            fwd[p], d, q)
  BY <1>1, EditCard
<1> QED BY <1>2 DEF Forwarding, MapsTo

LEMMA AskingCard ==
  ASSUME TypeOK, NEW o \in Ops, NEW r, replyq' = [replyq EXCEPT ![o] = r],
         NEW q \in Queues
  PROVE  Moved(Cardinality(Asking(q)), Cardinality(Asking(q)'), replyq[o], r, q)
<1>1. IsFiniteSet(Ops) /\ DOMAIN replyq = Ops
  BY SetsAssumption DEF TypeOK, QTypeOK
<1>2. Moved(Cardinality(MapsTo(Ops, replyq, q)), Cardinality(MapsTo(Ops, replyq', q)),
            replyq[o], r, q)
  BY <1>1, EditCard
<1> QED BY <1>2 DEF Asking, MapsTo

-----------------------------------------------------------------------------
(* Initially every queue is held by its owner.                             *)

LEMMA InitHolds == Init => IInv
<1> SUFFICES ASSUME Init PROVE IInv
  OBVIOUS
<1> USE DEF Init, QInit
<1>1. TypeOK /\ DOMAIN ops = Queues
  <2>1. /\ pc \in [Threads -> Places]
        /\ at \in [Threads -> Queues \cup {NoQueue}]
        /\ carry \in [Threads -> Ops \cup {NoOp}]
    BY DEF Places
  <2>2. path \in [Threads -> Seq(Queues)]
    OBVIOUS
  <2>3. refcnt \in [Queues -> Nat] /\ fwd \in [Queues -> Queues \cup {NoQueue}]
    OBVIOUS
  <2>4. /\ replyq \in [Ops -> Queues \cup {NoQueue}]
        /\ answering \in [Threads -> SUBSET Ops]
        /\ ahead \in [Ops -> SUBSET Ops]
    OBVIOUS
  <2> QED BY <2>1, <2>2, <2>3, <2>4 DEF TypeOK, QTypeOK
<1>2. AskInv /\ CallInv /\ FreeInv
  BY DEF AskInv, CallInv, FreeInv, Locking
<1>3. ASSUME NEW q \in Queues
      PROVE  Forwarding(q) = {} /\ Asking(q) = {} /\ Calling(q) = {}
  <2>1. Forwarding(q) = {} /\ Asking(q) = {}
    BY NullAssumption DEF Forwarding, Asking
  <2>2. Calling(q) = {}
    <3>1. \A t \in Threads : Len(path[t]) = 0
      OBVIOUS
    <3> QED BY <3>1, CallingElements
  <2> QED BY <2>1, <2>2
<1>4. CallsFinite
  BY <1>3, FS_EmptySet DEF CallsFinite
<1>5. RefcntExact
  <2> SUFFICES ASSUME NEW q \in Queues
               PROVE  refcnt[q] = Owning(q) + Arming(q) + Cardinality(Forwarding(q))
                        + Cardinality(Asking(q)) + Cardinality(Calling(q))
    BY DEF RefcntExact
  <2>1. refcnt[q] = 1 /\ Owning(q) = 1 /\ Arming(q) = 0
    BY NullAssumption DEF Owning, Arming
  <2>2. /\ Cardinality(Forwarding(q)) = 0
        /\ Cardinality(Asking(q)) = 0
        /\ Cardinality(Calling(q)) = 0
    BY <1>3, FS_EmptySet
  <2> QED BY <2>1, <2>2
<1>6. EonceAsserts
  BY FS_EmptySet DEF EonceAsserts
<1> QED BY <1>1, <1>2, <1>4, <1>5, <1>6 DEF IInv

-----------------------------------------------------------------------------
(* Types.  A reference is dropped by one of those that hold it.            *)

LEMMA AheadType ==
  ASSUME ahead \in [Ops -> SUBSET Ops], NEW o, NEW q, NoteAhead(o, q)
  PROVE  ahead' \in [Ops -> SUBSET Ops]
<1> DEFINE A == {a \in Ops : /\ Prio[o] = 0 /\ Prio[a] = 0
                             /\ \E d \in Queues : EndOf(q, d) /\ a \in Range(ops[d])}
<1>1. ahead' = [x \in Ops |-> IF x # o THEN ahead[x] \ {o} ELSE A]
  BY DEF NoteAhead
<1>2. A \subseteq Ops
  OBVIOUS
<1> HIDE DEF A
<1> QED BY <1>1, <1>2

LEMMA TypePreserved ==
  ASSUME IInv, Next
  PROVE  TypeOK' /\ DOMAIN ops' = Queues /\ AskInv'
<1>1. TypeOK /\ DOMAIN ops = Queues /\ AskInv /\ CallInv /\ EonceAsserts
  BY DEF IInv
<1>2. ASSUME NEW q \in Queues
      PROVE  refcnt[q] \in Nat /\ (refcnt[q] = 0 =>
               /\ ~owned[q] /\ ereplyq # q
               /\ \A p \in Queues : fwd[p] # q
               /\ \A o \in Ops : replyq[o] # q
               /\ \A t \in Threads : \A i \in 1 .. Len(path[t]) : path[t][i] # q)
  BY <1>1, Unheld DEF Forwarding, Asking, TypeOK, QTypeOK
<1> USE <1>1 DEF TypeOK, QTypeOK, Places, AskInv
<1>3. ASSUME NEW t \in Threads, Return(t), UNCHANGED eVars
      PROVE  TypeOK' /\ DOMAIN ops' = Queues /\ AskInv'
  <2> USE <1>3 DEF Return, Drop, eVars, opVars
  <2>1. path[t] # <<>>
    BY DEF CallInv
  <2>2. path' \in [Threads -> Seq(Queues)]
    <3>1. path[t] \in Seq(Queues) /\ Len(path[t]) - 1 \in Int
      OBVIOUS
    <3>2. \A i \in 1 .. Len(path[t]) - 1 : path[t][i] \in Queues
      BY <3>1
    <3>3. SubSeq(path[t], 1, Len(path[t]) - 1) \in Seq(Queues)
      BY <3>1, <3>2, SubSeqProperties
    <3> QED BY <3>3 DEF Front
  <2>3. refcnt' \in [Queues -> Nat]
    <3>1. Len(path[t]) \in 1 .. Len(path[t])
      BY <2>1
    <3> QED BY <1>2, <3>1 DEF Last
  <2> QED BY <2>2, <2>3
<1>4. ASSUME NEW q \in Queues, Final(q), UNCHANGED eVars
      PROVE  TypeOK' /\ DOMAIN ops' = Queues /\ AskInv'
  <2> USE <1>4 DEF Final, eVars, opVars, threadVars
  <2>1. CASE fwd[q] # NoQueue
    <3>1. refcnt' \in [Queues -> Nat]
      BY <1>2, <2>1 DEF Drop
    <3> QED BY <2>1, <3>1
  <2>2. CASE fwd[q] = NoQueue /\ \E o \in Ops : DestroyOp(o)
    <3>1. PICK o \in Ops : DestroyOp(o)
      BY <2>2
    <3>2. refcnt' \in [Queues -> Nat]
      BY <1>2, <3>1 DEF DestroyOp, Drop
    <3>3. replyq' \in [Ops -> Queues \cup {NoQueue}] /\ settled' \subseteq Ops
      BY <3>1 DEF DestroyOp
    <3>4. UNCHANGED <<fwd, freed>> \/ UNCHANGED <<fwd, ops>>
      BY <2>2
    <3> QED BY <3>1, <3>2, <3>3, <3>4 DEF DestroyOp
  <2>3. CASE UNCHANGED <<ops, qlen, fwd, refcnt, opVars>>
    BY <2>3
  <2> QED BY <2>1, <2>2, <2>3
<1>5. ASSUME NEW t \in Threads, Follow(t) \/ EnqRefused(t), UNCHANGED eVars
      PROVE  TypeOK' /\ DOMAIN ops' = Queues /\ AskInv'
  <2> USE DEF opVars, queueVars, eVars
  <2>1. at[t] \in Queues
    BY <1>5 DEF CallInv, Follow, EnqRefused, Locking
  <2>2. CASE Follow(t)
    BY <1>5, <2>1, <2>2 DEF Follow, Keep
  <2>3. CASE EnqRefused(t)
    <3>1. PICK o \in Ops : o = carry[t] /\
                 (\/ UNCHANGED <<path, ahead>>
                  \/ /\ replyq[o] # NoQueue
                     /\ path' = [path EXCEPT ![t] = Append(@, replyq[o])]
                     /\ NoteAhead(o, replyq[o]))
      BY <2>3 DEF EnqRefused
    <3>2. ahead' \in [Ops -> SUBSET Ops]
      BY <3>1, AheadType
    <3>3. path' \in [Threads -> Seq(Queues)]
      <4>1. CASE UNCHANGED path
        BY <4>1
      <4>2. CASE /\ replyq[o] # NoQueue
                 /\ path' = [path EXCEPT ![t] = Append(@, replyq[o])]
        <5>1. Append(path[t], replyq[o]) \in Seq(Queues)
          BY <4>2
        <5> QED BY <4>2, <5>1
      <4> QED BY <3>1, <4>1, <4>2
    <3>4. at' \in [Threads -> Queues \cup {NoQueue}]
      BY <2>3 DEF EnqRefused
    <3> QED BY <1>5, <2>3, <3>2, <3>3, <3>4 DEF EnqRefused
  <2> QED BY <1>5, <2>2, <2>3
<1>6. ASSUME NEW t \in Threads, EnqHere(t) \/ NudgeHere(t), UNCHANGED eVars
      PROVE  TypeOK' /\ DOMAIN ops' = Queues /\ AskInv'
  <2> USE DEF opVars, queueVars, eVars
  <2>1. CASE EnqHere(t)
    BY <1>6, <2>1 DEF EnqHere, Asleep
  <2>2. CASE NudgeHere(t)
    <3> USE <1>6, <2>2 DEF NudgeHere
    <3>1. pc' \in [Threads -> Places]
      OBVIOUS
    <3>2. nudged' \in [Queues -> BOOLEAN]
      OBVIOUS
    <3> QED BY <3>1, <3>2
  <2> QED BY <1>6, <2>1, <2>2
<1>7. ASSUME NEW t \in Threads, UNCHANGED eVars,
             \/ Take(t) \/ Wait(t) \/ Yielded(t) \/ Timeout(t)
             \/ Served(t) \/ Purge(t) \/ Purged(t)
      PROVE  TypeOK' /\ DOMAIN ops' = Queues /\ AskInv'
  BY <1>7 DEF Take, Wait, Yielded, Timeout, Served, Purge, Purged, Leave, eVars,
              opVars, queueVars
<1>8. ASSUME NEW t \in Threads, Serve(t) \/ ServeYield(t), UNCHANGED eVars
      PROVE  TypeOK' /\ DOMAIN ops' = Queues /\ AskInv'
  <2>1. settled' \subseteq Ops /\ answering' \in [Threads -> SUBSET Ops]
    <3>1. PICK o \in Ops : Handle(t, o)
      BY <1>8 DEF Serve, ServeYield
    <3>2. CASE replyq[o] = NoQueue
      BY <3>1, <3>2 DEF Handle
    <3>3. CASE replyq[o] # NoQueue
      <4>1. answering[t] \cup {o} \in SUBSET Ops
        OBVIOUS
      <4>2. answering' = [answering EXCEPT ![t] = answering[t] \cup {o}] /\ UNCHANGED settled
        BY <3>1, <3>3 DEF Handle
      <4> QED BY <4>1, <4>2
    <3> QED BY <3>2, <3>3
  <2>2. DOMAIN ops' = Queues
    BY <1>8 DEF Serve, ServeYield, queueVars
  <2> QED BY <1>8, <2>1, <2>2 DEF Serve, ServeYield, eVars, queueVars
<1>9. ASSUME NEW t \in Threads, DestroyNext(t), UNCHANGED eVars
      PROVE  TypeOK' /\ DOMAIN ops' = Queues /\ AskInv'
  <2> USE <1>9 DEF DestroyNext, DestroyOp, Drop, eVars
  <2>1. refcnt' \in [Queues -> Nat]
    BY <1>2
  <2> QED BY <2>1
<1>10. ASSUME NEW t \in Threads, NEW o \in Ops, Reply(t, o), UNCHANGED eVars
      PROVE  TypeOK' /\ DOMAIN ops' = Queues /\ AskInv'
  BY <1>10 DEF Reply, SetOut, NoteAhead, Enter, eVars, queueVars
<1>11. ASSUME NEW t \in Threads, NEW q \in Queues, UNCHANGED eVars,
              Nudge(t, q) \/ Poll(t, q) \/ DestroyOwner(t, q)
      PROVE  TypeOK' /\ DOMAIN ops' = Queues /\ AskInv'
  <2>1. CASE Nudge(t, q)
    BY <1>11, <2>1 DEF Nudge, Keep, Enter, eVars, opVars
  <2>2. CASE Poll(t, q)
    BY <1>11, <2>2 DEF Poll, eVars, opVars, queueVars
  <2>3. CASE DestroyOwner(t, q)
    BY <1>11, <2>3 DEF DestroyOwner, Enter, eVars, opVars
  <2> QED BY <1>11, <2>1, <2>2, <2>3
<1>12. ASSUME NEW t \in Threads, NEW q \in Queues, NEW d \in Queues,
              Forward(t, q, d), UNCHANGED eVars
      PROVE  TypeOK' /\ DOMAIN ops' = Queues /\ AskInv'
  <2> USE <1>12 DEF Forward, eVars, opVars
  <2>1. refcnt' \in [Queues -> Nat]
    <3>1. fwd[q] \in Queues => refcnt[fwd[q]] >= 1
      BY <1>2
    <3> QED BY <1>2, <3>1
  <2>2. pc' \in [Threads -> Places]
    BY DEF Asleep
  <2>3. DOMAIN ops' = Queues
    OBVIOUS
  <2>4. fwd' \in [Queues -> Queues \cup {NoQueue}]
    OBVIOUS
  <2> QED BY <2>1, <2>2, <2>3, <2>4
<1>13. ASSUME NEW t \in Threads, NEW q \in Queues, Unforward(t, q), UNCHANGED eVars
      PROVE  TypeOK' /\ DOMAIN ops' = Queues /\ AskInv'
  <2> USE <1>13 DEF Unforward, Drop, eVars, opVars, threadVars
  <2>1. refcnt' \in [Queues -> Nat]
    BY <1>2
  <2> QED BY <2>1
<1>14. ASSUME NEW t \in Threads, NEW q \in Queues, NEW o \in Ops,
              NEW r \in Queues \cup {NoQueue}, Send(t, q, o, r), UNCHANGED eVars
      PROVE  TypeOK' /\ DOMAIN ops' = Queues /\ AskInv'
  <2> USE <1>14 DEF Send, SetOut, NoteAhead, Enter, eVars
  <2>1. refcnt' \in [Queues -> Nat]
    BY <1>2
  <2>2. carry' \in [Threads -> Ops \cup {NoOp}] /\ ahead' \in [Ops -> SUBSET Ops]
    OBVIOUS
  <2>3. /\ pc' \in [Threads -> Places]
        /\ at' \in [Threads -> Queues \cup {NoQueue}]
        /\ path' \in [Threads -> Seq(Queues)]
    OBVIOUS
  <2> QED BY <2>1, <2>2, <2>3
<1>15. /\ sources # {} => erefcnt >= 1
       /\ eowned => erefcnt >= 1
  <2>1. IsFiniteSet(sources) /\ Cardinality(sources) \in Nat
    BY SourcesAssumption, FS_Subset, FS_CardinalityType
  <2>2. sources # {} => Cardinality(sources) # 0
    BY <2>1, FS_EmptySet
  <2> QED BY <2>1, <2>2 DEF EonceAsserts
<1>16. ASSUME NEW t \in Threads, NEW o \in Ops, NEW q \in Queues, New(t, o, q)
      PROVE  TypeOK' /\ DOMAIN ops' = Queues /\ AskInv'
  BY <1>2, <1>16 DEF New, Keep, threadVars
<1>17. ASSUME NEW t \in Threads, NEW s \in Sources, AddSource(t, s) \/ DelSource(t, s)
      PROVE  TypeOK' /\ DOMAIN ops' = Queues /\ AskInv'
  <2>1. UNCHANGED <<queueVars, opVars, threadVars>>
    BY <1>17 DEF AddSource, DelSource, qVars
  <2>2. erefcnt' \in Nat /\ sources' \subseteq Sources /\ efreed' \in BOOLEAN
    <3>1. CASE AddSource(t, s)
      BY <3>1 DEF AddSource
    <3>2. CASE DelSource(t, s)
      BY <1>15, <3>2 DEF DelSource, DropSource
    <3> QED BY <1>17, <3>1, <3>2
  <2> QED BY <1>17, <2>1, <2>2 DEF AddSource, DelSource, queueVars, opVars, threadVars
<1>18. ASSUME NEW t \in Threads, NEW s \in Sources, Trigger(t, s)
      PROVE  TypeOK' /\ DOMAIN ops' = Queues /\ AskInv'
  <2> USE <1>18 DEF Trigger, DropSource, queueVars
  <2>1. erefcnt' \in Nat
    BY <1>15
  <2>2. erko # NoOp => erko \in Ops /\ ereplyq \in Queues
    BY DEF EonceAsserts
  <2>3. CASE erko = NoOp
    BY <2>1, <2>3 DEF threadVars
  <2>4. CASE erko # NoOp
    <3>1. SetOut(t, erko, ereplyq)
      BY <2>4
    <3>2. /\ carry' \in [Threads -> Ops \cup {NoOp}]
          /\ ahead' \in [Ops -> SUBSET Ops]
          /\ pc' \in [Threads -> Places]
          /\ at' \in [Threads -> Queues \cup {NoQueue}]
          /\ path' \in [Threads -> Seq(Queues)]
      BY <2>2, <2>4, <3>1 DEF SetOut, NoteAhead, Enter
    <3> QED BY <2>1, <2>4, <3>2
  <2> QED BY <2>3, <2>4
<1>19. ASSUME NEW t \in Threads, NEW q \in Queues, Reenable(t, q)
      PROVE  TypeOK' /\ DOMAIN ops' = Queues /\ AskInv'
  BY <1>2, <1>19 DEF Reenable, Keep, opVars
<1>20. ASSUME NEW t \in Threads, Disown(t)
      PROVE  TypeOK' /\ DOMAIN ops' = Queues /\ AskInv'
  <2> USE <1>20 DEF Disown, threadVars
  <2>1. refcnt' \in [Queues -> Nat]
    BY <1>2 DEF Drop
  <2>2. erefcnt' \in Nat /\ settled' \subseteq Ops
    BY <1>15
  <2> QED BY <2>1, <2>2
<1> QED
  BY <1>3, <1>4, <1>5, <1>6, <1>7, <1>8, <1>9, <1>10, <1>11, <1>12, <1>13, <1>14,
     <1>16, <1>17, <1>18, <1>19, <1>20
     DEF Next, QNext, CallStep, OwnerStep, EonceStep, Q

-----------------------------------------------------------------------------
(* References.  Every step moves one from a holder to another, or adds or    *)
(* removes a holder and counts it.                                         *)

\* A thread that enters a call holds one queue.
LEMMA EnterPath ==
  ASSUME IInv, NEW t \in Threads, pc[t] = "idle", NEW c, NEW d \in Queues,
         Enter(t, c, d)
  PROVE  path' = [path EXCEPT ![t] = Append(@, d)]
<1>1. path[t] = <<>> /\ Append(<<>>, d) = <<d>>
  BY DEF IInv, CallInv
<1> QED BY <1>1 DEF Enter

LEMMA CountPreserved ==
  ASSUME IInv, Next, NEW x \in Queues
  PROVE  /\ IsFiniteSet(Calling(x)')
         /\ refcnt'[x] = Owning(x)' + Arming(x)' + Cardinality(Forwarding(x)')
                           + Cardinality(Asking(x)') + Cardinality(Calling(x)')
<1> DEFINE F == Cardinality(Forwarding(x))
           A == Cardinality(Asking(x))
           C == Cardinality(Calling(x))
           F1 == Cardinality(Forwarding(x)')
           A1 == Cardinality(Asking(x)')
           C1 == Cardinality(Calling(x)')
           Exact == refcnt'[x] = Owning(x)' + Arming(x)' + F1 + A1 + C1
           Finite == IsFiniteSet(Calling(x)')
<1>1. TypeOK /\ CallInv /\ CallsFinite /\ EonceAsserts /\ AskInv
  BY DEF IInv
<1>2. F \in Nat /\ A \in Nat /\ C \in Nat
  BY Unheld
<1>3. refcnt[x] = Owning(x) + Arming(x) + F + A + C
  BY DEF IInv, RefcntExact
<1>4. UNCHANGED fwd => F1 = F
  BY DEF Forwarding
<1>5. UNCHANGED replyq => A1 = A
  BY DEF Asking
<1>6. UNCHANGED path => Finite /\ C1 = C
  BY <1>1 DEF Calling, CallsFinite
<1>7. ASSUME NEW p \in Queues, NEW d, fwd' = [fwd EXCEPT ![p] = d]
      PROVE  Moved(F, F1, fwd[p], d, x)
  BY <1>1, <1>7, ForwardingCard
<1>8. ASSUME NEW o \in Ops, NEW r, replyq' = [replyq EXCEPT ![o] = r]
      PROVE  Moved(A, A1, replyq[o], r, x)
  BY <1>1, <1>8, AskingCard
<1>9. ASSUME NEW t \in Threads, NEW d \in Queues,
             path' = [path EXCEPT ![t] = Append(@, d)]
      PROVE  Finite /\ C1 = C + IF d = x THEN 1 ELSE 0
  BY <1>1, <1>9, CallDeeper DEF TypeOK, QTypeOK
<1>10. ASSUME NEW t \in Threads, NEW c, NEW d \in Queues, pc[t] = "idle",
              Enter(t, c, d)
       PROVE  Finite /\ C1 = C + IF d = x THEN 1 ELSE 0
  BY <1>9, <1>10, EnterPath
<1>11. /\ UNCHANGED owned => Owning(x)' = Owning(x)
       /\ UNCHANGED ereplyq => Arming(x)' = Arming(x)
       /\ Owning(x) \in Nat /\ Arming(x) \in Nat
  BY DEF Owning, Arming
<1>12. /\ refcnt \in [Queues -> Nat]
       /\ fwd \in [Queues -> Queues \cup {NoQueue}]
       /\ replyq \in [Ops -> Queues \cup {NoQueue}]
       /\ NoQueue # x
  BY <1>1, NullAssumption DEF TypeOK, QTypeOK
<1> HIDE DEF F, A, C, F1, A1, C1, Finite
<1>13. ASSUME UNCHANGED <<refcnt, owned, ereplyq, fwd, replyq, path>>
       PROVE  Finite /\ Exact
  BY <1>3, <1>4, <1>5, <1>6, <1>11, <1>13
<1>14. ASSUME NEW t \in Threads, Return(t), UNCHANGED eVars
       PROVE  Finite /\ Exact
  <2> USE <1>14 DEF Return, Drop, eVars, opVars
  <2>1. path[t] # <<>>
    BY <1>1 DEF CallInv
  <2>2. Finite /\ C1 = C - IF Last(path[t]) = x THEN 1 ELSE 0
    BY <1>1, <2>1, CallShallower DEF TypeOK, QTypeOK, Finite, C, C1
  <2>3. refcnt'[x] = refcnt[x] - IF Last(path[t]) = x THEN 1 ELSE 0
    BY <1>12
  <2> QED BY <1>2, <1>3, <1>4, <1>5, <1>11, <2>2, <2>3
<1>15. ASSUME NEW o \in Ops, DestroyOp(o), UNCHANGED <<owned, ereplyq, fwd, path>>
       PROVE  Finite /\ Exact
  <2>1. A1 = A - IF replyq[o] = x THEN 1 ELSE 0
    <3>1. Moved(A, A1, replyq[o], NoQueue, x)
      BY <1>8, <1>15 DEF DestroyOp
    <3> QED BY <1>2, <1>12, <3>1 DEF Moved
  <2>2. refcnt'[x] = refcnt[x] - IF replyq[o] = x THEN 1 ELSE 0
    BY <1>12, <1>15 DEF DestroyOp, Drop
  <2> QED BY <1>2, <1>3, <1>4, <1>6, <1>11, <1>15, <2>1, <2>2
<1>16. ASSUME NEW q \in Queues, UNCHANGED <<owned, ereplyq, replyq, path>>,
              fwd' = [fwd EXCEPT ![q] = NoQueue], fwd[q] # NoQueue, Drop(fwd[q])
       PROVE  Finite /\ Exact
  <2>1. F1 = F - IF fwd[q] = x THEN 1 ELSE 0
    <3>1. Moved(F, F1, fwd[q], NoQueue, x)
      BY <1>7, <1>16
    <3> QED BY <1>2, <1>12, <3>1 DEF Moved
  <2>2. refcnt'[x] = refcnt[x] - IF fwd[q] = x THEN 1 ELSE 0
    BY <1>12, <1>16 DEF Drop
  <2> QED BY <1>2, <1>3, <1>5, <1>6, <1>11, <1>16, <2>1, <2>2
<1>17. ASSUME NEW q \in Queues, Final(q), UNCHANGED eVars
       PROVE  Finite /\ Exact
  <2> USE <1>17 DEF Final, eVars, threadVars, opVars
  <2>1. CASE fwd[q] # NoQueue
    BY <1>16, <2>1
  <2>2. CASE UNCHANGED fwd /\ \E o \in Ops : DestroyOp(o)
    BY <1>15, <2>2
  <2>3. CASE UNCHANGED <<fwd, refcnt, opVars>>
    BY <1>13, <2>3
  <2> QED BY <2>1, <2>2, <2>3
<1>18. ASSUME NEW t \in Threads, DestroyNext(t), UNCHANGED eVars
       PROVE  Finite /\ Exact
  BY <1>15, <1>18 DEF DestroyNext, eVars
<1>19. ASSUME NEW t \in Threads, NEW q \in Queues, Unforward(t, q), UNCHANGED eVars
       PROVE  Finite /\ Exact
  BY <1>16, <1>19 DEF Unforward, eVars, opVars, threadVars
<1>20. ASSUME NEW t \in Threads, Follow(t), UNCHANGED eVars
       PROVE  Finite /\ Exact
  <2> USE <1>20 DEF Follow, Keep, eVars, opVars
  <2>1. at[t] \in Queues /\ fwd[at[t]] \in Queues
    BY <1>1, <1>12 DEF CallInv, Locking
  <2>2. Finite /\ C1 = C + IF fwd[at[t]] = x THEN 1 ELSE 0
    BY <1>9, <2>1
  <2>3. refcnt'[x] = refcnt[x] + IF fwd[at[t]] = x THEN 1 ELSE 0
    BY <1>12, <2>1
  <2> QED BY <1>2, <1>3, <1>4, <1>5, <1>11, <2>2, <2>3
<1>21. ASSUME NEW t \in Threads, EnqRefused(t), UNCHANGED eVars
       PROVE  Finite /\ Exact
  <2> USE <1>21 DEF EnqRefused, eVars, queueVars
  <2>1. CASE UNCHANGED <<replyq, path>>
    BY <1>13, <2>1
  <2>2. ASSUME NEW o \in Ops, replyq[o] # NoQueue,
               replyq' = [replyq EXCEPT ![o] = NoQueue],
               path' = [path EXCEPT ![t] = Append(@, replyq[o])]
        PROVE  Finite /\ Exact
    <3>1. Moved(A, A1, replyq[o], NoQueue, x)
      BY <1>8, <2>2
    <3>2. Finite /\ C1 = C + IF replyq[o] = x THEN 1 ELSE 0
      BY <1>9, <1>12, <2>2
    <3>3. A1 = A - IF replyq[o] = x THEN 1 ELSE 0
      BY <1>2, <1>12, <3>1 DEF Moved
    <3> QED BY <1>2, <1>3, <1>4, <1>11, <3>2, <3>3
  <2> QED BY <2>1, <2>2
<1>22. ASSUME NEW t \in Threads, NEW o \in Ops, Reply(t, o), UNCHANGED eVars
       PROVE  Finite /\ Exact
  <2> USE <1>22 DEF Reply, eVars, queueVars
  <2>1. replyq[o] \in Queues /\ Enter(t, "enq", replyq[o])
    BY DEF SetOut
  <2>2. Moved(A, A1, replyq[o], NoQueue, x)
    BY <1>8
  <2>3. Finite /\ C1 = C + IF replyq[o] = x THEN 1 ELSE 0
    BY <1>10, <2>1
  <2>4. A1 = A - IF replyq[o] = x THEN 1 ELSE 0
    BY <1>2, <1>12, <2>2 DEF Moved
  <2> QED BY <1>2, <1>3, <1>4, <1>11, <2>3, <2>4
<1>23. ASSUME NEW t \in Threads, NEW q \in Queues, Nudge(t, q), UNCHANGED eVars
       PROVE  Finite /\ Exact
  <2> USE <1>23 DEF Nudge, eVars, opVars
  <2>1. Finite /\ C1 = C + IF q = x THEN 1 ELSE 0
    BY <1>10
  <2>2. refcnt'[x] = refcnt[x] + IF q = x THEN 1 ELSE 0
    BY <1>12 DEF Keep
  <2> QED BY <1>2, <1>3, <1>4, <1>5, <1>11, <2>1, <2>2
<1>24. ASSUME NEW t \in Threads, NEW q \in Queues, DestroyOwner(t, q), UNCHANGED eVars
       PROVE  Finite /\ Exact
  <2> USE <1>24 DEF DestroyOwner, eVars, opVars
  <2>1. Finite /\ C1 = C + IF q = x THEN 1 ELSE 0
    BY <1>10
  <2>2. Owning(x) = Owning(x)' + IF q = x THEN 1 ELSE 0
    BY <1>1 DEF Owning, TypeOK, QTypeOK
  <2>3. Owning(x)' \in Nat
    BY DEF Owning
  <2> QED BY <1>2, <1>3, <1>4, <1>5, <1>11, <2>1, <2>2, <2>3
<1>25. ASSUME NEW t \in Threads, NEW q \in Queues, NEW o \in Ops,
              NEW r \in Queues \cup {NoQueue}, Send(t, q, o, r), UNCHANGED eVars
       PROVE  Finite /\ Exact
  <2> USE <1>25 DEF Send, eVars
  <2>1. Finite /\ C1 = C + IF q = x THEN 1 ELSE 0
    BY <1>10 DEF SetOut
  <2>2. Moved(A, A1, replyq[o], r, x) /\ replyq[o] = NoQueue
    BY <1>1, <1>8 DEF AskInv
  <2>3. A1 = A + IF r = x THEN 1 ELSE 0
    BY <1>2, <1>12, <2>2 DEF Moved
  <2>4. refcnt'[x] = refcnt[x] + IF x \in {q, r} THEN 1 ELSE 0
    OBVIOUS
  <2>5. ~(q = x /\ r = x)
    BY <1>12
  <2>6. refcnt[x] \in Nat
    BY <1>12
  <2>7. UNCHANGED <<owned, ereplyq, fwd>>
    OBVIOUS
  <2> QED BY <1>2, <1>3, <1>4, <1>11, <2>1, <2>3, <2>4, <2>5, <2>6, <2>7
<1>26. ASSUME NEW t \in Threads, NEW q \in Queues, NEW d \in Queues,
              Forward(t, q, d), UNCHANGED eVars
       PROVE  Finite /\ Exact
  <2> USE <1>26 DEF Forward, eVars, opVars
  <2>1. Moved(F, F1, fwd[q], d, x)
    BY <1>7
  <2>2. refcnt'[x] = refcnt[x] + (IF x = d THEN 1 ELSE 0) - (IF x = fwd[q] THEN 1 ELSE 0)
    OBVIOUS
  <2>3. F1 = F + (IF d = x THEN 1 ELSE 0) - (IF fwd[q] = x THEN 1 ELSE 0)
    BY <2>1 DEF Moved
  <2>4. UNCHANGED <<owned, ereplyq, replyq, path>>
    OBVIOUS
  <2> HIDE <1>26 DEF Forward, eVars, opVars
  <2> QED BY <1>2, <1>3, <1>5, <1>6, <1>11, <2>2, <2>3, <2>4
<1>27. ereplyq = NoQueue <=> erko = NoOp
  BY <1>1 DEF EonceAsserts
<1>28. ASSUME NEW q \in Queues, ereplyq = NoQueue, ereplyq' = q, Keep(q),
              UNCHANGED <<owned, fwd, replyq, path>>
       PROVE  Finite /\ Exact
  <2>1. Arming(x)' = Arming(x) + IF q = x THEN 1 ELSE 0
    BY <1>12, <1>28 DEF Arming
  <2>2. refcnt'[x] = refcnt[x] + IF q = x THEN 1 ELSE 0
    BY <1>12, <1>28 DEF Keep
  <2> QED BY <1>2, <1>3, <1>4, <1>5, <1>6, <1>11, <1>28, <2>1, <2>2
<1>29. ASSUME NEW t \in Threads, NEW o \in Ops, NEW q \in Queues, New(t, o, q)
       PROVE  Finite /\ Exact
  <2>1. erefcnt = 0 /\ erko = NoOp
    <3>1. erefcnt = 0 /\ erefcnt = Cardinality(sources) + IF eowned THEN 1 ELSE 0
      BY <1>1, <1>29 DEF New, EonceAsserts
    <3>2. Cardinality(sources) \in Nat
      BY <1>1, SourcesAssumption, FS_Subset, FS_CardinalityType DEF TypeOK
    <3> QED BY <1>1, <3>1, <3>2 DEF EonceAsserts
  <2> QED BY <1>27, <1>28, <1>29, <2>1 DEF New, threadVars
<1>30. ASSUME NEW t \in Threads, NEW q \in Queues, Reenable(t, q)
       PROVE  Finite /\ Exact
  BY <1>27, <1>28, <1>30 DEF Reenable, opVars
<1>31. ASSUME NEW t \in Threads, NEW s \in Sources, Trigger(t, s)
       PROVE  Finite /\ Exact
  <2> USE <1>31 DEF Trigger, queueVars
  <2>1. CASE erko = NoOp
    BY <1>13, <2>1 DEF threadVars
  <2>2. CASE erko # NoOp
    <3>1. ereplyq \in Queues /\ Enter(t, "enq", ereplyq)
      BY <1>1, <1>27, <2>2 DEF TypeOK, SetOut
    <3>2. Finite /\ C1 = C + IF ereplyq = x THEN 1 ELSE 0
      BY <1>10, <3>1
    <3>3. Arming(x) = Arming(x)' + IF ereplyq = x THEN 1 ELSE 0
      BY <1>12, <2>2 DEF Arming
    <3>4. Arming(x)' \in Nat
      BY DEF Arming
    <3> QED BY <1>2, <1>3, <1>4, <1>5, <1>11, <3>2, <3>3, <3>4
  <2> QED BY <2>1, <2>2
<1>32. ASSUME NEW t \in Threads, Disown(t)
       PROVE  Finite /\ Exact
  <2> USE <1>32 DEF Disown, threadVars
  <2>1. Arming(x) = Arming(x)' + IF ereplyq = x THEN 1 ELSE 0
    BY <1>12 DEF Arming
  <2>2. refcnt'[x] = refcnt[x] - IF ereplyq = x THEN 1 ELSE 0
    BY <1>1, <1>12 DEF Drop, TypeOK
  <2>3. Arming(x)' \in Nat
    BY DEF Arming
  <2> QED BY <1>2, <1>3, <1>4, <1>5, <1>6, <1>11, <2>1, <2>2, <2>3
<1>33. ASSUME NEW t \in Threads, UNCHANGED eVars,
              \/ EnqHere(t) \/ NudgeHere(t) \/ Take(t) \/ Wait(t) \/ Yielded(t)
              \/ Timeout(t) \/ Serve(t) \/ ServeYield(t) \/ Served(t)
              \/ Purge(t) \/ Purged(t) \/ \E q \in Queues : Poll(t, q)
       PROVE  Finite /\ Exact
  <2>1. UNCHANGED <<refcnt, owned, ereplyq, fwd, replyq, path>>
    BY <1>33 DEF EnqHere, NudgeHere, Take, Wait, Yielded, Timeout, Serve,
                 ServeYield, Served, Purge, Purged, Poll, eVars, queueVars, opVars
  <2> QED BY <1>13, <2>1
<1>34. ASSUME NEW t \in Threads, NEW s \in Sources, AddSource(t, s) \/ DelSource(t, s)
       PROVE  Finite /\ Exact
  <2>1. UNCHANGED <<refcnt, owned, ereplyq, fwd, replyq, path>>
    BY <1>34 DEF AddSource, DelSource, qVars, queueVars, opVars, threadVars
  <2> QED BY <1>13, <2>1
<1>35. Finite /\ Exact
  BY <1>14, <1>17, <1>18, <1>19, <1>20, <1>21, <1>22, <1>23, <1>24, <1>25, <1>26,
     <1>29, <1>30, <1>31, <1>32, <1>33, <1>34
     DEF Next, QNext, CallStep, OwnerStep, EonceStep, Q
<1> QED BY <1>35 DEF Finite, F1, A1, C1

-----------------------------------------------------------------------------
(* Calls.                                                                  *)

LEMMA CallPreserved ==
  ASSUME IInv, Next, NEW s \in Threads
  PROVE  /\ pc'[s] = "idle" => path'[s] = <<>>
         /\ pc'[s] \in {"enq", "yield", "purge", "destroy", "return"} => path'[s] # <<>>
         /\ pc'[s] \notin Locking => at'[s] = NoQueue
         /\ pc'[s] \in Locking =>
              /\ at'[s] \in Queues
              /\ IF path'[s] = <<>> THEN owned'[at'[s]] /\ OwnerOf[at'[s]] = s
                                    ELSE at'[s] = path'[s][Len(path'[s])]
<1> DEFINE Goal ==
      /\ pc'[s] = "idle" => path'[s] = <<>>
      /\ pc'[s] \in {"enq", "yield", "purge", "destroy", "return"} => path'[s] # <<>>
      /\ pc'[s] \notin Locking => at'[s] = NoQueue
      /\ pc'[s] \in Locking =>
           /\ at'[s] \in Queues
           /\ IF path'[s] = <<>> THEN owned'[at'[s]] /\ OwnerOf[at'[s]] = s
                                 ELSE at'[s] = path'[s][Len(path'[s])]
<1>1. TypeOK /\ EonceAsserts /\ CallInv
  BY DEF IInv
<1>2. /\ pc \in [Threads -> Places]
      /\ at \in [Threads -> Queues \cup {NoQueue}]
      /\ path \in [Threads -> Seq(Queues)]
      /\ owned \in [Queues -> BOOLEAN]
      /\ fwd \in [Queues -> Queues \cup {NoQueue}]
      /\ replyq \in [Ops -> Queues \cup {NoQueue}]
  BY <1>1 DEF TypeOK, QTypeOK
<1>3. /\ pc[s] = "idle" => path[s] = <<>>
      /\ pc[s] \in {"enq", "yield", "purge", "destroy", "return"} => path[s] # <<>>
      /\ pc[s] \notin Locking => at[s] = NoQueue
      /\ pc[s] \in Locking =>
           /\ at[s] \in Queues
           /\ IF path[s] = <<>> THEN owned[at[s]] /\ OwnerOf[at[s]] = s
                                ELSE at[s] = path[s][Len(path[s])]
  BY <1>1 DEF CallInv
<1> USE <1>2 DEF Locking
<1>4. ASSUME UNCHANGED <<at, path, owned>>,
             \/ pc'[s] = pc[s]
             \/ pc[s] \in {"poll", "asleep", "awake"} /\ pc'[s] \in {"asleep", "awake", "serve"}
      PROVE  Goal
  BY <1>3, <1>4
\* A call that ends, or is about to let go of its queues.
<1>5. ASSUME NEW t \in Threads, Leave(t), UNCHANGED <<path, owned>>
      PROVE  Goal
  BY <1>3, <1>5 DEF Leave
<1>6. ASSUME NEW t \in Threads, NEW c \in {"enq", "yield", "purge"}, NEW q \in Queues,
             Enter(t, c, q), \A p \in Queues : OwnerOf[p] # t => owned'[p] = owned[p]
      PROVE  Goal
  <2>1. CASE s = t
    <3>1. pc'[s] = c /\ at'[s] = q /\ path'[s] = <<q>>
      BY <1>6, <2>1 DEF Enter
    <3>2. <<q>> # <<>> /\ Len(<<q>>) = 1 /\ <<q>>[1] = q
      OBVIOUS
    <3> QED BY <3>1, <3>2
  <2>2. CASE s # t
    <3>1. pc'[s] = pc[s] /\ at'[s] = at[s] /\ path'[s] = path[s]
      BY <1>6, <2>2 DEF Enter
    <3> QED BY <1>3, <1>6, <2>2, <3>1
  <2> QED BY <2>1, <2>2
\* A thread follows a forward, or turns to a reply queue.
<1>7. ASSUME NEW t \in Threads, NEW d \in Queues, UNCHANGED <<pc, owned>>,
             pc[t] \in Locking,
             path' = [path EXCEPT ![t] = Append(@, d)], at' = [at EXCEPT ![t] = d]
      PROVE  Goal
  <2>1. CASE s = t
    <3>1. path[t] \in Seq(Queues)
      OBVIOUS
    <3>2. /\ Append(path[t], d) # <<>>
          /\ Append(path[t], d)[Len(Append(path[t], d))] = d
      BY <3>1, AppendProperties
    <3> QED BY <1>3, <1>7, <2>1, <3>2
  <2>2. CASE s # t
    BY <1>3, <1>7, <2>2
  <2> QED BY <2>1, <2>2
<1>8. ASSUME NEW t \in Threads, Return(t)
      PROVE  Goal
  <2>1. CASE s = t
    <3>1. path[t] \in Seq(Queues) /\ path[t] # <<>>
      BY <1>3, <1>8, <2>1 DEF Return
    <3>2. path'[s] = SubSeq(path[t], 1, Len(path[t]) - 1) /\ at'[s] = NoQueue
      BY <1>8, <2>1 DEF Return, Front
    <3> DEFINE n == Len(path[t])
    <3>3. n \in Nat /\ n # 0 /\ \A i \in 1 .. n : path[t][i] \in Queues
      BY <3>1, EmptySeq
    <3>4. pc'[s] = IF n = 1 THEN "idle" ELSE "return"
      BY <1>8, <2>1 DEF Return
    <3>5. path'[s] = SubSeq(path[t], 1, n - 1)
      BY <3>2
    <3> HIDE DEF n
    <3>6. CASE n = 1
      <4>1. SubSeq(path[t], 1, n - 1) = <<>>
        BY <3>6, SubSeqEmpty
      <4> QED BY <3>2, <3>4, <3>5, <3>6, <4>1
    <3>7. CASE n # 1
      <4>1. n - 1 \in Int /\ 1 <= n - 1
        BY <3>3, <3>7
      <4>2. \A i \in 1 .. n - 1 : path[t][i] \in Queues
        BY <3>3
      <4>3. Len(SubSeq(path[t], 1, n - 1)) = n - 1 - 1 + 1
        BY <4>1, <4>2, SubSeqProperties
      <4>4. Len(path'[s]) # 0
        BY <3>5, <4>1, <4>3
      <4>5. path'[s] # <<>>
        BY <4>4
      <4> QED BY <3>2, <3>4, <3>7, <4>5
    <3> QED BY <3>6, <3>7
  <2>2. CASE s # t
    BY <1>3, <1>8, <2>2 DEF Return
  <2> QED BY <2>1, <2>2
<1>9. ASSUME NEW t \in Threads, Follow(t)
      PROVE  Goal
  <2>1. at[t] \in Queues /\ fwd[at[t]] \in Queues /\ pc[t] \in Locking
    BY <1>1, <1>9 DEF Follow, CallInv
  <2> QED BY <1>7, <1>9, <2>1 DEF Follow
<1>10. ASSUME NEW t \in Threads, EnqHere(t)
       PROVE  Goal
  <2>1. path[t] # <<>>
    BY <1>1, <1>10 DEF CallInv, EnqHere
  <2>2. CASE s = t
    BY <1>10, <2>1, <2>2 DEF EnqHere, Asleep
  <2>3. CASE s # t
    <3>1. pc'[s] = pc[s] \/ (pc[s] = "asleep" /\ pc'[s] = "awake")
      BY <1>10, <2>3 DEF EnqHere, Asleep
    <3> QED BY <1>3, <1>10, <2>3, <3>1 DEF EnqHere
  <2> QED BY <2>2, <2>3
<1>11. ASSUME NEW t \in Threads, NudgeHere(t)
       PROVE  Goal
  <2>1. path[t] # <<>>
    BY <1>1, <1>11 DEF CallInv, NudgeHere
  <2>2. CASE s = t
    BY <1>11, <2>1, <2>2 DEF NudgeHere
  <2>3. CASE s # t
    <3>1. pc'[s] = pc[s] \/ (pc[s] = "asleep" /\ pc'[s] = "awake")
      BY <1>11, <2>3 DEF NudgeHere, Asleep
    <3> QED BY <1>3, <1>11, <2>3, <3>1 DEF NudgeHere
  <2> QED BY <2>2, <2>3
<1>12. ASSUME NEW t \in Threads, EnqRefused(t)
       PROVE  Goal
  <2> USE <1>12 DEF EnqRefused, queueVars
  <2>1. PICK o \in Ops : o = carry[t] /\
          \/ /\ replyq[o] = NoQueue
             /\ pc' = [pc EXCEPT ![t] = "return"]
             /\ at' = [at EXCEPT ![t] = NoQueue]
             /\ UNCHANGED path
          \/ /\ replyq[o] # NoQueue
             /\ at' = [at EXCEPT ![t] = replyq[o]]
             /\ path' = [path EXCEPT ![t] = Append(@, replyq[o])]
             /\ UNCHANGED pc
    OBVIOUS
  <2>2. path[t] # <<>>
    BY <1>1 DEF CallInv
  <2>3. CASE replyq[o] = NoQueue
    BY <1>3, <2>1, <2>2, <2>3
  <2>4. CASE replyq[o] # NoQueue
    BY <1>7, <2>1, <2>4
  <2> QED BY <2>3, <2>4
<1>13. ASSUME NEW t \in Threads, Take(t) \/ Wait(t) \/ Serve(t) \/ ServeYield(t)
       PROVE  Goal
  <2>1. UNCHANGED <<at, path, owned>>
    BY <1>13 DEF Take, Wait, Serve, ServeYield, queueVars
  <2>2. \/ pc'[s] = pc[s]
        \/ pc[s] \in {"poll", "asleep", "awake"} /\ pc'[s] \in {"asleep", "awake", "serve"}
    BY <1>13 DEF Take, Wait, Serve, ServeYield, Looking
  <2> QED BY <1>4, <2>1, <2>2
<1>14. ASSUME NEW t \in Threads, Yielded(t) \/ Served(t) \/ Purged(t) \/ Timeout(t)
       PROVE  Goal
  BY <1>5, <1>14 DEF Yielded, Served, Purged, Timeout, queueVars
<1>15. ASSUME NEW t \in Threads, Purge(t)
       PROVE  Goal
  BY <1>3, <1>15 DEF Purge
<1>16. ASSUME NEW t \in Threads, NEW o \in Ops, Reply(t, o)
       PROVE  Goal
  BY <1>6, <1>16 DEF Reply, SetOut, queueVars
<1>17. ASSUME NEW t \in Threads, NEW q \in Queues, Nudge(t, q)
       PROVE  Goal
  BY <1>6, <1>17 DEF Nudge
<1>18. ASSUME NEW t \in Threads, NEW q \in Queues, Poll(t, q)
       PROVE  Goal
  BY <1>3, <1>18 DEF Poll, queueVars
<1>19. ASSUME NEW t \in Threads, NEW q \in Queues, NEW d \in Queues, Forward(t, q, d)
       PROVE  Goal
  <2>1. pc'[s] = pc[s] \/ (pc[s] = "asleep" /\ pc'[s] = "awake")
    BY <1>19 DEF Forward, Asleep
  <2> QED BY <1>4, <1>19, <2>1 DEF Forward
<1>20. ASSUME NEW t \in Threads, NEW q \in Queues, Unforward(t, q)
       PROVE  Goal
  BY <1>4, <1>20 DEF Unforward, threadVars
<1>21. ASSUME NEW t \in Threads, NEW q \in Queues, DestroyOwner(t, q)
       PROVE  Goal
  <2>1. \A p \in Queues : OwnerOf[p] # t => owned'[p] = owned[p]
    BY <1>21 DEF DestroyOwner
  <2> QED BY <1>6, <1>21, <2>1 DEF DestroyOwner
<1>22. ASSUME NEW t \in Threads, NEW q \in Queues, NEW o \in Ops,
              NEW r \in Queues \cup {NoQueue}, Send(t, q, o, r)
       PROVE  Goal
  BY <1>6, <1>22 DEF Send, SetOut
<1>23. ASSUME NEW t \in Threads, NEW x \in Sources, Trigger(t, x)
       PROVE  Goal
  <2>1. CASE erko = NoOp
    BY <1>4, <1>23, <2>1 DEF Trigger, threadVars, queueVars
  <2>2. CASE erko # NoOp
    <3>1. ereplyq \in Queues
      BY <1>1, <2>2 DEF EonceAsserts, TypeOK
    <3> QED BY <1>6, <1>23, <2>2, <3>1 DEF Trigger, SetOut, queueVars
  <2> QED BY <2>1, <2>2
<1>24. ASSUME \/ \E q \in Queues : Final(q)
              \/ \E t \in Threads : DestroyNext(t) \/ Disown(t)
              \/ \E t \in Threads, o \in Ops, q \in Queues : New(t, o, q)
              \/ \E t \in Threads, x \in Sources : AddSource(t, x) \/ DelSource(t, x)
              \/ \E t \in Threads, q \in Queues : Reenable(t, q)
       PROVE  Goal
  <2>1. UNCHANGED <<pc, at, path, owned>>
    BY <1>24 DEF Final, DestroyNext, Disown, New, AddSource, DelSource, Reenable, qVars,
                 queueVars, threadVars
  <2> QED BY <1>4, <2>1
<1> QED
  BY <1>8, <1>9, <1>10, <1>11, <1>12, <1>13, <1>14, <1>15, <1>16, <1>17, <1>18,
     <1>19, <1>20, <1>21, <1>22, <1>23, <1>24
     DEF Next, QNext, CallStep, OwnerStep, EonceStep, Q

-----------------------------------------------------------------------------
(* Freed queues.                                                           *)

\* Where the forwards of q lead to is q, or has a queue forwarded to it.
LEMMA EndHeld ==
  ASSUME TypeOK, NEW q \in Queues, NEW d \in Queues, EndOf(q, d)
  PROVE  d = q \/ \E p \in Queues : fwd[p] = d
<1> DEFINE S == {e \in Queues : e = q \/ \E p \in Queues : fwd[p] = e}
<1>1. S \in SUBSET Queues /\ q \in S
  OBVIOUS
<1>2. Closed(S)
  BY DEF Closed, TypeOK, QTypeOK
<1>3. d \in S
  BY <1>1, <1>2 DEF EndOf
<1> QED BY <1>3

\* A freed queue is not kept again, and nothing is put in it.
LEMMA FreePreserved ==
  ASSUME IInv, Next, TypeOK', NEW x \in Queues, freed'[x]
  PROVE  refcnt'[x] = 0 /\ ops'[x] = <<>>
<1>1. TypeOK /\ DOMAIN ops = Queues /\ CallInv /\ FreeInv /\ EonceAsserts
  BY DEF IInv
<1>2. /\ refcnt \in [Queues -> Nat] /\ refcnt' \in [Queues -> Nat]
      /\ fwd \in [Queues -> Queues \cup {NoQueue}]
      /\ freed \in [Queues -> BOOLEAN]
  BY <1>1 DEF TypeOK, QTypeOK
<1>3. refcnt[x] = 0 =>
        /\ ~owned[x]
        /\ \A p \in Queues : fwd[p] # x
        /\ \A t \in Threads : at[t] # x
  BY Unheld DEF Forwarding
<1>4. ASSUME NEW q \in Queues, Final(q)
      PROVE  refcnt'[x] = 0 /\ ops'[x] = <<>>
  <2>1. CASE freed[x]
    <3>1. refcnt[x] = 0 /\ ops[x] = <<>> /\ x # q
      BY <1>1, <1>4, <2>1 DEF FreeInv, Final
    <3>2. ops'[x] = <<>>
      BY <1>1, <1>4, <3>1 DEF Final
    <3>3. \/ UNCHANGED refcnt
          \/ \E r : Drop(r)
      BY <1>4 DEF Final, DestroyOp
    <3> QED BY <1>2, <3>1, <3>2, <3>3 DEF Drop
  <2>2. CASE ~freed[x]
    BY <1>2, <1>4, <2>2 DEF Final
  <2> QED BY <2>1, <2>2
<1>5. CASE \A q \in Queues : ~Final(q)
  <2>1. UNCHANGED freed
    <3>1. ASSUME NEW t \in Threads, CallStep(t)
          PROVE  UNCHANGED freed
      BY <3>1 DEF CallStep, Return, Follow, EnqHere, EnqRefused, NudgeHere, Take, Wait,
                  Yielded, Serve, ServeYield, Served, Purge, DestroyNext, Purged, queueVars
    <3>2. ASSUME NEW t \in Threads, NEW q \in Queues, NEW d \in Queues,
                 \/ Poll(t, q) \/ Forward(t, q, d) \/ Unforward(t, q)
                 \/ DestroyOwner(t, q) \/ Nudge(t, q) \/ Reenable(t, q)
          PROVE  UNCHANGED freed
      BY <3>2 DEF Poll, Forward, Unforward, DestroyOwner, Nudge, Reenable, queueVars
    <3>3. ASSUME NEW t \in Threads, NEW q \in Queues, NEW o \in Ops,
                 NEW r \in Queues \cup {NoQueue},
                 Reply(t, o) \/ Send(t, q, o, r) \/ New(t, o, q)
          PROVE  UNCHANGED freed
      BY <3>3 DEF Reply, Send, New, queueVars
    <3>4. ASSUME NEW t \in Threads, NEW s \in Sources,
                 AddSource(t, s) \/ DelSource(t, s) \/ Trigger(t, s)
          PROVE  UNCHANGED freed
      BY <3>4 DEF AddSource, DelSource, Trigger, qVars, queueVars
    <3>5. ASSUME NEW t \in Threads, Timeout(t) \/ Disown(t)
          PROVE  UNCHANGED freed
      BY <3>5 DEF Timeout, Disown, queueVars
    <3> QED BY <1>5, <3>1, <3>2, <3>3, <3>4, <3>5 DEF Next, QNext, OwnerStep, EonceStep, Q
  <2>2. freed[x] /\ refcnt[x] = 0 /\ ops[x] = <<>>
    BY <1>1, <2>1 DEF FreeInv
  <2>3. /\ ~owned[x]
        /\ \A p \in Queues : fwd[p] # x
        /\ \A t \in Threads : at[t] # x
    BY <1>3, <2>2
  <2>4. refcnt'[x] = 0
    <3>1. ASSUME UNCHANGED refcnt \/ \E r : Drop(r)
          PROVE  refcnt'[x] = 0
      BY <1>2, <2>2, <3>1 DEF Drop
    <3>2. ASSUME NEW q \in Queues, q # x, Keep(q)
          PROVE  refcnt'[x] = 0
      BY <1>2, <2>2, <3>2 DEF Keep
    <3>3. ASSUME NEW t \in Threads, Follow(t)
          PROVE  refcnt'[x] = 0
      <4>1. at[t] \in Queues /\ fwd[at[t]] \in Queues
        BY <1>1, <1>2, <3>3 DEF Follow, CallInv, Locking
      <4> QED BY <2>3, <3>2, <3>3, <4>1 DEF Follow
    <3>4. ASSUME NEW t \in Threads, NEW q \in Queues,
                 Nudge(t, q) \/ Reenable(t, q) \/ \E o \in Ops : New(t, o, q)
          PROVE  refcnt'[x] = 0
      <4>1. Keep(q) /\ owned[q]
        BY <3>4 DEF Nudge, New, Reenable
      <4> QED BY <2>3, <3>2, <4>1
    <3>10. ASSUME NEW t \in Threads, NEW q \in Queues, NEW o \in Ops,
                  NEW r \in Queues \cup {NoQueue}, Send(t, q, o, r)
           PROVE  refcnt'[x] = 0
      <4>1. x \notin {q, r}
        BY <2>3, <3>10, NullAssumption DEF Send
      <4>2. refcnt'[x] = refcnt[x] + 0
        BY <3>10, <4>1 DEF Send
      <4> QED BY <2>2, <4>2
    <3>5. ASSUME NEW t \in Threads, NEW q \in Queues, NEW d \in Queues, Forward(t, q, d)
          PROVE  refcnt'[x] = 0
      <4>1. x # d /\ x # fwd[q]
        BY <2>3, <3>5 DEF Forward
      <4> QED BY <2>2, <3>5, <4>1 DEF Forward
    <3>6. ASSUME NEW t \in Threads, NEW s \in Sources,
                 AddSource(t, s) \/ DelSource(t, s) \/ Trigger(t, s)
          PROVE  UNCHANGED refcnt
      BY <3>6 DEF AddSource, DelSource, Trigger, qVars, queueVars
    <3>7. ASSUME NEW t \in Threads,
                 \/ \E o \in Ops : Reply(t, o)
                 \/ \E q \in Queues : Poll(t, q) \/ Unforward(t, q) \/ DestroyOwner(t, q)
                 \/ Timeout(t) \/ Disown(t) \/ DestroyNext(t) \/ Return(t)
          PROVE  UNCHANGED refcnt \/ \E r : Drop(r)
      BY <3>7 DEF Reply, Poll, Unforward, DestroyOwner, Timeout, Disown, DestroyNext,
                  DestroyOp, Return, queueVars
    <3>8. ASSUME NEW t \in Threads, CallStep(t), ~Return(t), ~Follow(t), ~DestroyNext(t)
          PROVE  UNCHANGED refcnt
      BY <3>8 DEF CallStep, EnqHere, EnqRefused, NudgeHere, Take, Wait, Yielded, Serve,
                  ServeYield, Served, Purge, Purged, queueVars
    <3>9. ASSUME NEW t \in Threads, CallStep(t)
          PROVE  refcnt'[x] = 0
      BY <3>1, <3>3, <3>7, <3>8, <3>9
    <3> QED
      BY <1>5, <3>1, <3>4, <3>5, <3>6, <3>7, <3>9, <3>10
         DEF Next, QNext, OwnerStep, EonceStep, Q
  <2>5. ops'[x] = <<>>
    <3>1. ASSUME NEW t \in Threads, EnqHere(t)
          PROVE  ops'[x] = <<>>
      BY <2>2, <2>3, <3>1 DEF EnqHere
    <3>2. ASSUME NEW t \in Threads, Take(t) \/ Purge(t)
          PROVE  ops'[x] = <<>>
      BY <1>1, <2>2, <2>3, <3>2 DEF Take, Purge
    <3>3. ASSUME NEW t \in Threads, ServeYield(t)
          PROVE  ops'[x] = <<>>
      <4>1. at[t] \in Queues
        BY <1>1, <3>3 DEF CallInv, Locking, ServeYield
      <4>2. PICK d \in Queues : /\ EndOf(at[t], d)
                                /\ ops' = [ops EXCEPT ![d] = PutBack(@, Tail(local[t]))]
        BY <3>3 DEF ServeYield
      <4>3. d # x
        BY <1>1, <2>3, <4>1, <4>2, EndHeld
      <4> QED BY <1>1, <2>2, <4>2, <4>3
    <3>4. ASSUME NEW t \in Threads, NEW q \in Queues, NEW d \in Queues, Forward(t, q, d)
          PROVE  ops'[x] = <<>>
      <4>1. CASE UNCHANGED ops
        BY <2>2, <4>1
      <4>2. ASSUME NEW e \in Queues, EndOf(d, e),
                   ops' = [ops EXCEPT ![e] = Concat(@, ops[q]), ![q] = <<>>]
            PROVE  ops'[x] = <<>>
        <5>1. e # x
          BY <1>1, <2>3, <3>4, <4>2, EndHeld DEF Forward
        <5> QED BY <1>1, <2>2, <4>2, <5>1
      <4> QED BY <3>4, <4>1, <4>2 DEF Forward
    <3>5. ASSUME NEW t \in Threads, CallStep(t), ~EnqHere(t), ~Take(t), ~Purge(t),
                 ~ServeYield(t)
          PROVE  UNCHANGED ops
      BY <3>5 DEF CallStep, Return, Follow, EnqRefused, NudgeHere, Wait, Yielded, Serve,
                  Served, DestroyNext, Purged, queueVars
    <3>6. ASSUME NEW t \in Threads,
                 \/ \E o \in Ops : Reply(t, o)
                 \/ \E q \in Queues : \/ Poll(t, q) \/ Unforward(t, q) \/ DestroyOwner(t, q)
                                      \/ Nudge(t, q) \/ Reenable(t, q)
                 \/ \E q \in Queues, o \in Ops, r \in Queues \cup {NoQueue} :
                      New(t, o, q) \/ Send(t, q, o, r)
                 \/ Timeout(t) \/ Disown(t)
          PROVE  UNCHANGED ops
      BY <3>6 DEF Reply, Poll, Unforward, DestroyOwner, Timeout, Disown, Nudge, New,
                  Reenable, Send, queueVars
    <3>7. ASSUME NEW t \in Threads, NEW s \in Sources,
                 AddSource(t, s) \/ DelSource(t, s) \/ Trigger(t, s)
          PROVE  UNCHANGED ops
      BY <3>7 DEF AddSource, DelSource, Trigger, qVars, queueVars
    <3>8. ASSUME NEW t \in Threads, CallStep(t)
          PROVE  ops'[x] = <<>>
      BY <2>2, <3>1, <3>2, <3>3, <3>5, <3>8
    <3> QED
      BY <1>5, <2>2, <3>4, <3>6, <3>7, <3>8
         DEF Next, QNext, OwnerStep, EonceStep, Q
  <2> QED BY <2>4, <2>5
<1> QED BY <1>4, <1>5

-----------------------------------------------------------------------------
(* The eonce.                                                              *)

\* One source more, or one less.
LEMMA SourcesCard ==
  ASSUME TypeOK, NEW s \in Sources
  PROVE  /\ Cardinality(sources) \in Nat
         /\ s \notin sources => Cardinality(sources \cup {s}) = Cardinality(sources) + 1
         /\ s \in sources => /\ Cardinality(sources) >= 1
                            /\ Cardinality(sources \ {s}) = Cardinality(sources) - 1
<1>1. IsFiniteSet(sources)
  BY SourcesAssumption, FS_Subset DEF TypeOK
<1>2. Cardinality(sources) \in Nat
  BY <1>1, FS_CardinalityType
<1>3. s \notin sources => Cardinality(sources \cup {s}) = Cardinality(sources) + 1
  BY <1>1, FS_AddElement
<1>4. s \in sources => Cardinality(sources \ {s}) = Cardinality(sources) - 1
  BY <1>1, FS_RemoveElement
<1>5. s \in sources => Cardinality(sources) # 0
  BY <1>1, FS_EmptySet
<1> QED BY <1>2, <1>3, <1>4, <1>5

LEMMA EoncePreserved ==
  ASSUME IInv, Next
  PROVE  EonceAsserts'
<1>1. TypeOK /\ EonceAsserts
  BY DEF IInv
<1>2. CASE UNCHANGED eVars
  BY <1>1, <1>2 DEF EonceAsserts, eVars
<1>3. ASSUME NEW t \in Threads, NEW o \in Ops, NEW q \in Queues, New(t, o, q)
      PROVE  EonceAsserts'
  <2>1. erefcnt = 0 /\ erefcnt = Cardinality(sources) + IF eowned THEN 1 ELSE 0
    BY <1>1, <1>3 DEF New, EonceAsserts
  <2>2. IsFiniteSet(sources) /\ Cardinality(sources) \in Nat
    BY <1>1, SourcesAssumption, FS_Subset, FS_CardinalityType DEF TypeOK
  <2>3. Cardinality(sources) = 0
    BY <2>1, <2>2
  <2>4. q # NoQueue /\ o # NoOp
    BY NullAssumption
  <2>5. ~efreed
    BY <1>1, <1>3 DEF New, EonceAsserts, TypeOK
  <2> QED BY <1>3, <2>3, <2>4, <2>5 DEF New, EonceAsserts
<1>4. ASSUME NEW t \in Threads, NEW s \in Sources, AddSource(t, s)
      PROVE  EonceAsserts'
  <2>1. Cardinality(sources') = Cardinality(sources) + 1 /\ Cardinality(sources) \in Nat
    BY <1>1, <1>4, SourcesCard DEF AddSource
  <2>2. erefcnt = Cardinality(sources) + 1 /\ erefcnt' = erefcnt + 1
    BY <1>1, <1>4 DEF AddSource, EonceAsserts
  <2>3. emade /\ ~efreed
    BY <1>1, <2>1, <2>2 DEF EonceAsserts, TypeOK
  <2> QED BY <1>1, <1>4, <2>1, <2>2, <2>3 DEF AddSource, EonceAsserts
<1>5. ASSUME NEW s \in Sources, DropSource(s), UNCHANGED <<emade, eowned>>,
             \/ UNCHANGED <<erko, ereplyq>>
             \/ erko' = NoOp /\ ereplyq' = NoQueue
      PROVE  EonceAsserts'
  <2>1. /\ Cardinality(sources') = Cardinality(sources) - 1
        /\ Cardinality(sources) \in Nat
        /\ Cardinality(sources) >= 1
    BY <1>1, <1>5, SourcesCard DEF DropSource
  <2>2. /\ erefcnt = Cardinality(sources) + IF eowned THEN 1 ELSE 0
        /\ erefcnt' = erefcnt - 1
        /\ efreed' = (erefcnt = 1)
    BY <1>1, <1>5 DEF DropSource, EonceAsserts
  <2>3. emade
    BY <1>1, <2>1, <2>2 DEF EonceAsserts
  <2>4. (~eowned => erko' = NoOp) /\ (erko' = NoOp <=> ereplyq' = NoQueue)
    BY <1>1, <1>5 DEF EonceAsserts
  <2>5. erefcnt' = Cardinality(sources') + IF eowned' THEN 1 ELSE 0
    BY <1>5, <2>1, <2>2
  <2>6. (efreed' <=> emade' /\ erefcnt' = 0) /\ emade'
    <3>1. (erefcnt = 1) <=> (erefcnt' = 0)
      BY <2>1, <2>2
    <3>2. efreed' <=> (erefcnt = 1)
      BY <2>2, Zenon
    <3>3. emade'
      BY <1>5, <2>3, Zenon
    <3> QED BY <3>1, <3>2, <3>3, Zenon
  <2> QED BY <1>5, <2>4, <2>5, <2>6 DEF EonceAsserts
<1>6. ASSUME NEW t \in Threads, NEW q \in Queues, Reenable(t, q)
      PROVE  EonceAsserts'
  BY <1>1, <1>6, NullAssumption DEF Reenable, EonceAsserts
<1>7. ASSUME NEW t \in Threads, Disown(t)
      PROVE  EonceAsserts'
  <2>1. Cardinality(sources) \in Nat
    BY <1>1, SourcesAssumption, FS_Subset, FS_CardinalityType DEF TypeOK
  <2>2. erefcnt = Cardinality(sources) + 1
    BY <1>1, <1>7 DEF Disown, EonceAsserts
  <2>3. emade
    BY <1>1, <2>1, <2>2 DEF EonceAsserts
  <2>4. erefcnt' = Cardinality(sources') + IF eowned' THEN 1 ELSE 0
    BY <1>7, <2>1, <2>2 DEF Disown
  <2>5. (efreed' <=> emade' /\ erefcnt' = 0) /\ emade'
    <3>1. (erefcnt = 1) <=> (erefcnt' = 0)
      BY <1>7, <2>1, <2>2 DEF Disown
    <3>2. efreed' <=> (erefcnt = 1)
      BY <1>7, Zenon DEF Disown
    <3>3. emade'
      BY <1>7, <2>3, Zenon DEF Disown
    <3> QED BY <3>1, <3>2, <3>3, Zenon
  <2>6. erko' = NoOp /\ ereplyq' = NoQueue
    BY <1>7 DEF Disown
  <2> QED BY <2>4, <2>5, <2>6 DEF EonceAsserts
<1> QED
  BY <1>2, <1>3, <1>4, <1>5, <1>6, <1>7
     DEF Next, EonceStep, Q, DelSource, Trigger

-----------------------------------------------------------------------------
(* Theorems.                                                               *)

\* IInv is inductive.
THEOREM Invariance == Spec => []IInv
<1>1. ASSUME IInv, Next
      PROVE  IInv'
  <2>1. TypeOK' /\ DOMAIN ops' = Queues /\ AskInv'
    BY <1>1, TypePreserved
  <2>2. CallsFinite' /\ RefcntExact'
    BY <1>1, CountPreserved DEF CallsFinite, RefcntExact
  <2>3. CallInv'
    BY <1>1, CallPreserved DEF CallInv
  <2>4. FreeInv'
    BY <1>1, <2>1, FreePreserved DEF FreeInv
  <2>5. EonceAsserts'
    BY <1>1, EoncePreserved
  <2> QED BY <2>1, <2>2, <2>3, <2>4, <2>5 DEF IInv
<1>2. ASSUME IInv, UNCHANGED vars
      PROVE  IInv'
  <2> USE <1>2 DEF vars, qVars, queueVars, opVars, threadVars, eVars
  <2>1. TypeOK' /\ DOMAIN ops' = Queues /\ AskInv'
    BY DEF IInv, TypeOK, QTypeOK, AskInv
  <2>2. CallInv' /\ FreeInv' /\ EonceAsserts'
    BY DEF IInv, CallInv, FreeInv, EonceAsserts
  <2>3. \A q : /\ Owning(q)' = Owning(q) /\ Arming(q)' = Arming(q)
               /\ Forwarding(q)' = Forwarding(q) /\ Asking(q)' = Asking(q)
               /\ Calling(q)' = Calling(q)
    BY DEF Owning, Arming, Forwarding, Asking, Calling
  <2>4. CallsFinite' /\ RefcntExact'
    BY <2>3 DEF IInv, CallsFinite, RefcntExact
  <2> QED BY <2>1, <2>2, <2>4 DEF IInv
<1>3. IInv /\ [Next]_vars => IInv'
  BY <1>1, <1>2
<1> QED BY <1>3, InitHolds, PTL DEF Spec

\* Every variable keeps its type; counters of references do not go below zero.
THEOREM TypeCorrect == Spec => []TypeOK
<1>1. IInv => TypeOK
  BY DEF IInv
<1> QED BY <1>1, Invariance, PTL

\* rkq_refcnt is the number of holders of the queue, at every moment of
\* rd_kafka_q_fwd_get, _fwd_set0, _enq1, _destroy_owner, rd_kafka_replyq_enq
\* and the eonce's trigger.
THEOREM RefcntCorrect == Spec => []RefcntExact
<1>1. IInv => RefcntExact
  BY DEF IInv
<1> QED BY <1>1, Invariance, PTL

\* A queue that rd_kafka_q_destroy_final has freed is empty, and no call,
\* forward, op or eonce leads to it.
THEOREM NoUseAfterFreeHolds == Spec => []NoUseAfterFree
<1>1. ASSUME IInv, NEW q \in Queues, freed[q]
      PROVE  /\ ~owned[q] /\ ereplyq # q
             /\ Forwarding(q) = {} /\ Asking(q) = {} /\ Calling(q) = {}
             /\ \A t \in Threads : at[t] # q
             /\ ops[q] = <<>>
  <2>1. refcnt[q] = 0 /\ ops[q] = <<>>
    BY <1>1 DEF IInv, FreeInv
  <2> QED BY <1>1, <2>1, Unheld
<1>2. IInv => NoUseAfterFree
  BY <1>1 DEF NoUseAfterFree
<1> QED BY <1>2, Invariance, PTL

\* The assertions of rd_kafka_enq_once_destroy0 and _del_source_return hold.
THEOREM EonceCorrect == Spec => []EonceAsserts
<1>1. IInv => EonceAsserts
  BY DEF IInv
<1> QED BY <1>1, Invariance, PTL

-----------------------------------------------------------------------------
(* Nothing is left on a queue that nobody polls.                           *)

\* A thread whose callbacks yield polls its queues where they are: what it
\* puts back cannot land on a queue of another, who may have purged it.
YieldersDoNotForward ==
  \A q, d \in Queues : <<q, d>> \in Forwards => OwnerOf[q] \notin Yielding

\* A queue is disabled when its owner gives it up.
ReadyInv == \A q \in Queues : ready[q] = owned[q]

\* Nothing waits in a queue that is forwarded.
ForwardInv ==
  \A q \in Queues : fwd[q] # NoQueue => <<q, fwd[q]>> \in Forwards /\ ops[q] = <<>>

\* What waits has somebody who polls it, or is at its lock to purge it.
LeftInv ==
  \A q \in Queues : ops[q] # <<>> =>
    owned[q] \/ \E t \in Threads : pc[t] = "purge" /\ at[t] = q

\* Such a thread is at a queue of its own.
YieldInv ==
  \A t \in Yielding : pc[t] \in {"poll", "asleep", "awake", "serve"} =>
    /\ path[t] = <<>>
    /\ pc[t] # "poll" => fwd[at[t]] = NoQueue

StrandedInv == IInv /\ ReadyInv /\ ForwardInv /\ LeftInv /\ YieldInv

\* A queue that is not forwarded leads nowhere else.
LEMMA EndHere ==
  ASSUME NEW q \in Queues, NEW d \in Queues, fwd[q] = NoQueue, EndOf(q, d)
  PROVE  d = q
<1>1. {q} \in SUBSET Queues /\ Closed({q})
  BY DEF Closed
<1> QED BY <1>1 DEF EndOf

\* The actions that touch the list of a queue, its forward or its owner.
LEMMA QueueFrame ==
  ASSUME Next
  PROVE  \/ UNCHANGED <<ops, fwd, owned, ready>>
         \/ \E t \in Threads : EnqHere(t) \/ Take(t) \/ ServeYield(t) \/ Purge(t)
         \/ \E q \in Queues : Final(q)
         \/ \E t \in Threads, q \in Queues : Unforward(t, q) \/ DestroyOwner(t, q)
         \/ \E t \in Threads, q \in Queues, d \in Queues : Forward(t, q, d)
<1>1. ASSUME NEW t \in Threads,
             \/ Return(t) \/ Follow(t) \/ EnqRefused(t) \/ NudgeHere(t) \/ Wait(t)
             \/ Yielded(t) \/ Serve(t) \/ Served(t) \/ DestroyNext(t) \/ Purged(t)
             \/ Timeout(t) \/ Disown(t)
      PROVE  UNCHANGED <<ops, fwd, owned, ready>>
  BY <1>1 DEF Return, Follow, EnqRefused, NudgeHere, Wait, Yielded, Serve, Served,
              DestroyNext, Purged, Timeout, Disown, queueVars
<1>2. ASSUME NEW t \in Threads, NEW q \in Queues,
             \/ Nudge(t, q) \/ Poll(t, q) \/ Reenable(t, q)
             \/ \E o \in Ops : \/ New(t, o, q)
                              \/ \E r \in Queues \cup {NoQueue} : Send(t, q, o, r)
      PROVE  UNCHANGED <<ops, fwd, owned, ready>>
  BY <1>2 DEF Nudge, Poll, Send, New, Reenable, queueVars
<1>3. ASSUME NEW t \in Threads, NEW s \in Sources,
             AddSource(t, s) \/ DelSource(t, s) \/ Trigger(t, s)
      PROVE  UNCHANGED <<ops, fwd, owned, ready>>
  BY <1>3 DEF AddSource, DelSource, Trigger, qVars, queueVars
<1>4. ASSUME NEW t \in Threads, \E o \in Ops : Reply(t, o)
      PROVE  UNCHANGED <<ops, fwd, owned, ready>>
  BY <1>4 DEF Reply, queueVars
<1> QED
  BY <1>1, <1>2, <1>3, <1>4 DEF Next, QNext, CallStep, OwnerStep, EonceStep, Q

LEMMA ReadyPreserved ==
  ASSUME StrandedInv, Next
  PROVE  ReadyInv'
<1>1. ReadyInv /\ ready \in [Queues -> BOOLEAN] /\ owned \in [Queues -> BOOLEAN]
  BY DEF StrandedInv, IInv, TypeOK, QTypeOK
<1>2. ASSUME UNCHANGED <<owned, ready>> PROVE ReadyInv'
  BY <1>1, <1>2 DEF ReadyInv
<1>3. ASSUME NEW t \in Threads, NEW q \in Queues, DestroyOwner(t, q) PROVE ReadyInv'
  BY <1>1, <1>3 DEF ReadyInv, DestroyOwner
<1>4. ASSUME NEW t \in Threads, NEW q \in Queues, NEW d \in Queues, Forward(t, q, d)
      PROVE  ReadyInv'
  BY <1>2, <1>4 DEF Forward
<1>5. ASSUME NEW q \in Queues, Final(q)
      PROVE  ReadyInv'
  BY <1>2, <1>5 DEF Final
<1>6. ASSUME NEW t \in Threads, EnqHere(t) \/ Take(t) \/ ServeYield(t) \/ Purge(t)
      PROVE  ReadyInv'
  BY <1>2, <1>6 DEF EnqHere, Take, ServeYield, Purge
<1>7. ASSUME NEW t \in Threads, NEW q \in Queues, Unforward(t, q)
      PROVE  ReadyInv'
  BY <1>2, <1>7 DEF Unforward
<1> QED BY <1>2, <1>3, <1>4, <1>5, <1>6, <1>7, QueueFrame

\* What a thread that yields puts back stays in the queue it polls.
LEMMA PutBackHere ==
  ASSUME StrandedInv, NEW t \in Threads, ServeYield(t)
  PROVE  /\ at[t] \in Queues /\ owned[at[t]] /\ fwd[at[t]] = NoQueue
         /\ \A x \in Queues : x # at[t] => ops'[x] = ops[x]
<1>1. t \in Yielding /\ pc[t] = "serve"
  BY DEF ServeYield
<1>2. path[t] = <<>> /\ fwd[at[t]] = NoQueue
  BY <1>1 DEF StrandedInv, YieldInv
<1>3. at[t] \in Queues /\ owned[at[t]]
  BY <1>1, <1>2 DEF StrandedInv, IInv, CallInv, Locking
<1>4. PICK d \in Queues : /\ EndOf(at[t], d)
                          /\ ops' = [ops EXCEPT ![d] = PutBack(@, Tail(local[t]))]
  BY DEF ServeYield
<1>5. d = at[t]
  BY <1>2, <1>3, <1>4, EndHere
<1>6. DOMAIN ops = Queues
  BY DEF StrandedInv, IInv
<1> QED BY <1>2, <1>3, <1>4, <1>5, <1>6

LEMMA ForwardPreserved ==
  ASSUME StrandedInv, Next, NEW x \in Queues, fwd'[x] # NoQueue
  PROVE  <<x, fwd'[x]>> \in Forwards /\ ops'[x] = <<>>
<1>1. ForwardInv /\ DOMAIN ops = Queues /\ CallInv
  BY DEF StrandedInv, IInv
<1>2. fwd \in [Queues -> Queues \cup {NoQueue}]
  BY DEF StrandedInv, IInv, TypeOK, QTypeOK
<1> DEFINE Goal == <<x, fwd'[x]>> \in Forwards /\ ops'[x] = <<>>
<1>3. ASSUME fwd'[x] = fwd[x], ops[x] = <<>> => ops'[x] = <<>>
      PROVE  Goal
  BY <1>1, <1>3 DEF ForwardInv
<1>4. ASSUME NEW t \in Threads, EnqHere(t)
      PROVE  Goal
  <2>1. at[t] \in Queues /\ fwd[at[t]] = NoQueue /\ UNCHANGED fwd
    BY <1>1, <1>4 DEF EnqHere, CallInv, Locking
  <2>2. ops'[x] = ops[x]
    BY <1>1, <1>4, <2>1 DEF EnqHere
  <2> QED BY <1>3, <2>1, <2>2
<1>5. ASSUME NEW t \in Threads, Take(t) \/ Purge(t)
      PROVE  Goal
  <2>1. UNCHANGED fwd /\ (ops[x] = <<>> => ops'[x] = <<>>)
    BY <1>1, <1>5 DEF Take, Purge
  <2> QED BY <1>3, <2>1
<1>6. ASSUME NEW t \in Threads, ServeYield(t)
      PROVE  Goal
  <2>1. UNCHANGED fwd
    BY <1>6 DEF ServeYield
  <2>2. ops'[x] = ops[x]
    BY <1>6, <2>1, PutBackHere
  <2> QED BY <1>3, <2>1, <2>2
<1>7. ASSUME NEW q \in Queues, Final(q)
      PROVE  Goal
  <2>1. CASE fwd[q] # NoQueue
    BY <1>2, <1>3, <1>7, <2>1 DEF Final
  <2>2. CASE fwd[q] = NoQueue
    <3>1. UNCHANGED fwd /\ x # q
      BY <1>7, <2>2 DEF Final
    <3>2. ops'[x] = ops[x]
      BY <1>1, <1>7, <2>2, <3>1 DEF Final
    <3> QED BY <1>3, <3>1, <3>2
  <2> QED BY <2>1, <2>2
<1>8. ASSUME NEW t \in Threads, NEW q \in Queues, Unforward(t, q) \/ DestroyOwner(t, q)
      PROVE  Goal
  BY <1>2, <1>3, <1>8 DEF Unforward, DestroyOwner
<1>9. ASSUME NEW t \in Threads, NEW q \in Queues, NEW d \in Queues, Forward(t, q, d)
      PROVE  Goal
  <2>1. <<q, d>> \in Forwards /\ fwd' = [fwd EXCEPT ![q] = d]
    BY <1>9 DEF Forward
  <2>2. CASE UNCHANGED ops /\ ops[q] = <<>>
    BY <1>2, <1>3, <2>1, <2>2
  <2>3. ASSUME NEW e \in Queues, EndOf(d, e),
               ops' = [ops EXCEPT ![e] = Concat(@, ops[q]), ![q] = <<>>]
        PROVE  Goal
    <3>1. ops'[q] = <<>>
      BY <1>1, <2>3
    <3>2. CASE x = q
      BY <1>2, <2>1, <3>1, <3>2
    <3>3. CASE x # q
      <4>1. fwd[e] = NoQueue
        BY <2>3 DEF EndOf
      <4>2. fwd'[x] = fwd[x] /\ x # e
        BY <1>2, <2>1, <3>3, <4>1
      <4>3. ops'[x] = ops[x]
        BY <1>1, <2>3, <3>3, <4>2
      <4> QED BY <1>3, <4>2, <4>3
    <3> QED BY <3>2, <3>3
  <2> QED BY <1>9, <2>2, <2>3 DEF Forward
<1> QED BY <1>3, <1>4, <1>5, <1>6, <1>7, <1>8, <1>9, QueueFrame

\* A thread that purges a queue leaves its lock with nothing in it.
LEMMA PurgerPreserved ==
  ASSUME StrandedInv, Next, NEW t \in Threads, pc[t] = "purge"
  PROVE  \/ pc'[t] = "purge" /\ at'[t] = at[t]
         \/ ops'[at[t]] = <<>>
<1>1. ForwardInv /\ CallInv /\ DOMAIN ops = Queues
  BY DEF StrandedInv, IInv
<1>2. /\ at[t] \in Queues
      /\ pc \in [Threads -> Places]
      /\ at \in [Threads -> Queues \cup {NoQueue}]
  BY <1>1 DEF StrandedInv, IInv, TypeOK, QTypeOK, CallInv, Locking
<1> DEFINE Goal == \/ pc'[t] = "purge" /\ at'[t] = at[t]
                   \/ ops'[at[t]] = <<>>
<1>3. ASSUME NEW s \in Threads, Follow(s)
      PROVE  Goal
  <2>1. CASE s = t
    <3>1. fwd[at[t]] # NoQueue /\ UNCHANGED ops
      BY <1>3, <2>1 DEF Follow
    <3> QED BY <1>1, <1>2, <3>1 DEF ForwardInv
  <2>2. CASE s # t
    BY <1>2, <1>3, <2>2 DEF Follow
  <2> QED BY <2>1, <2>2
<1>4. ASSUME NEW s \in Threads, Purge(s)
      PROVE  Goal
  <2>1. CASE s = t
    BY <1>1, <1>2, <1>4, <2>1 DEF Purge
  <2>2. CASE s # t
    BY <1>2, <1>4, <2>2 DEF Purge
  <2> QED BY <2>1, <2>2
<1>5. ASSUME NEW s \in Threads,
             \/ Return(s) \/ Wait(s) \/ Take(s) \/ Yielded(s) \/ Serve(s)
             \/ ServeYield(s) \/ Served(s) \/ DestroyNext(s) \/ Purged(s) \/ Timeout(s)
      PROVE  Goal
  <2>1. s # t
    BY <1>5 DEF Return, Wait, Take, Yielded, Serve, ServeYield, Served, DestroyNext,
                Purged, Timeout, Looking
  <2> QED
    BY <1>2, <1>5, <2>1
       DEF Return, Wait, Take, Yielded, Serve, ServeYield, Served, DestroyNext, Purged,
           Timeout, Leave
<1>6. ASSUME NEW s \in Threads, EnqHere(s) \/ EnqRefused(s) \/ NudgeHere(s)
      PROVE  Goal
  <2>1. s # t
    BY <1>6 DEF EnqHere, EnqRefused, NudgeHere
  <2>2. at'[t] = at[t]
    BY <1>2, <1>6, <2>1 DEF EnqHere, EnqRefused, NudgeHere
  <2>3. pc'[t] = pc[t]
    BY <1>2, <1>6, <2>1 DEF EnqHere, EnqRefused, NudgeHere, Asleep
  <2> QED BY <2>2, <2>3
<1>7. ASSUME NEW s \in Threads, NEW q \in Queues,
             \/ Nudge(s, q) \/ Poll(s, q) \/ DestroyOwner(s, q)
             \/ \E o \in Ops, r \in Queues \cup {NoQueue} : Send(s, q, o, r)
      PROVE  Goal
  <2>1. s # t
    BY <1>7 DEF Nudge, Poll, Send, DestroyOwner
  <2> QED
    BY <1>2, <1>7, <2>1 DEF Nudge, Poll, Send, DestroyOwner, SetOut, Enter
<1>8. ASSUME NEW s \in Threads, \E o \in Ops : Reply(s, o)
      PROVE  Goal
  <2>1. s # t
    BY <1>8 DEF Reply
  <2> QED BY <1>2, <1>8, <2>1 DEF Reply, SetOut, Enter
<1>9. ASSUME NEW s \in Threads, NEW q \in Queues, NEW d \in Queues, Forward(s, q, d)
       PROVE  Goal
  BY <1>2, <1>9 DEF Forward, Asleep
<1>10. ASSUME NEW s \in Threads, NEW x \in Sources, Trigger(s, x)
       PROVE  Goal
  <2>1. s # t
    BY <1>10 DEF Trigger
  <2> QED BY <1>2, <1>10, <2>1 DEF Trigger, threadVars, SetOut, Enter
<1>11. ASSUME \/ \E q \in Queues : Final(q)
              \/ \E s \in Threads : Disown(s)
              \/ \E s \in Threads, q \in Queues : Unforward(s, q) \/ Reenable(s, q)
              \/ \E s \in Threads, o \in Ops, q \in Queues : New(s, o, q)
              \/ \E s \in Threads, x \in Sources : AddSource(s, x) \/ DelSource(s, x)
       PROVE  Goal
  BY <1>11 DEF Final, Disown, Unforward, Reenable, New, AddSource, DelSource, qVars,
               threadVars
<1> QED
  BY <1>3, <1>4, <1>5, <1>6, <1>7, <1>8, <1>9, <1>10, <1>11
     DEF Next, QNext, CallStep, OwnerStep, EonceStep, Q

\* What a thread that polls may do to a queue's list it does to its own.
LEMMA LeftPreserved ==
  ASSUME StrandedInv, Next, NEW x \in Queues, ops'[x] # <<>>
  PROVE  owned'[x] \/ \E t \in Threads : pc'[t] = "purge" /\ at'[t] = x
<1>1. /\ ReadyInv /\ LeftInv /\ CallInv /\ DOMAIN ops = Queues
      /\ owned \in [Queues -> BOOLEAN]
      /\ pc \in [Threads -> Places]
      /\ at \in [Threads -> Queues \cup {NoQueue}]
  BY DEF StrandedInv, IInv, TypeOK, QTypeOK
<1> DEFINE Goal == owned'[x] \/ \E t \in Threads : pc'[t] = "purge" /\ at'[t] = x
<1>2. CASE owned[x]
  <2>1. ASSUME NEW t \in Threads, NEW q \in Queues, DestroyOwner(t, q)
        PROVE  Goal
    BY <1>1, <1>2, <2>1 DEF DestroyOwner, Enter
  <2>2. ASSUME NEW t \in Threads,
               \/ EnqHere(t) \/ Take(t) \/ ServeYield(t) \/ Purge(t)
               \/ \E q \in Queues : Unforward(t, q) \/ \E d \in Queues : Forward(t, q, d)
        PROVE  UNCHANGED owned
    BY <2>2 DEF EnqHere, Take, ServeYield, Purge, Unforward, Forward
  <2>3. ASSUME NEW q \in Queues, Final(q)
        PROVE  UNCHANGED owned
    BY <2>3 DEF Final
  <2> QED BY <1>2, <2>1, <2>2, <2>3, QueueFrame
<1>3. CASE ops[x] # <<>> /\ ~owned[x]
  <2>1. PICK t \in Threads : pc[t] = "purge" /\ at[t] = x
    BY <1>1, <1>3 DEF LeftInv
  <2> QED BY <2>1, PurgerPreserved
<1>4. CASE ops[x] = <<>> /\ ~owned[x]
  <2>1. ASSUME NEW t \in Threads, EnqHere(t)
        PROVE  FALSE
    <3>1. at[t] \in Queues /\ owned[at[t]]
      BY <1>1, <2>1 DEF EnqHere, CallInv, Locking, ReadyInv
    <3> QED BY <1>1, <1>4, <2>1, <3>1 DEF EnqHere
  <2>2. ASSUME NEW t \in Threads, ServeYield(t)
        PROVE  FALSE
    BY <1>4, <2>2, PutBackHere
  <2>3. ASSUME NEW t \in Threads, Take(t) \/ Purge(t)
        PROVE  FALSE
    BY <1>1, <1>4, <2>3 DEF Take, Purge
  <2>4. ASSUME NEW q \in Queues, Final(q)
        PROVE  FALSE
    <3>1. ops'[x] = ops[x] \/ (x = q /\ ops[x] # <<>>)
      BY <1>1, <2>4 DEF Final
    <3> QED BY <1>4, <3>1
  <2>5. ASSUME NEW t \in Threads, NEW q \in Queues, NEW d \in Queues, Forward(t, q, d)
        PROVE  FALSE
    <3>1. ASSUME NEW e \in Queues, ready[e],
                 ops' = [ops EXCEPT ![e] = Concat(@, ops[q]), ![q] = <<>>]
          PROVE  FALSE
      BY <1>1, <1>4, <3>1 DEF ReadyInv
    <3> QED BY <1>4, <2>5, <3>1 DEF Forward
  <2>6. ASSUME NEW t \in Threads, NEW q \in Queues, Unforward(t, q) \/ DestroyOwner(t, q)
        PROVE  FALSE
    BY <1>4, <2>6 DEF Unforward, DestroyOwner
  <2> QED BY <1>4, <2>1, <2>2, <2>3, <2>4, <2>5, <2>6, QueueFrame
<1> QED BY <1>2, <1>3, <1>4

LEMMA YieldPreserved ==
  ASSUME YieldersDoNotForward, StrandedInv, Next, NEW y \in Yielding,
         pc'[y] \in {"poll", "asleep", "awake", "serve"}
  PROVE  path'[y] = <<>> /\ (pc'[y] # "poll" => fwd'[at'[y]] = NoQueue)
<1> DEFINE Polling == {"poll", "asleep", "awake", "serve"}
           Goal == path'[y] = <<>> /\ (pc'[y] # "poll" => fwd'[at'[y]] = NoQueue)
<1>1. /\ ForwardInv /\ YieldInv /\ CallInv
      /\ pc \in [Threads -> Places]
      /\ at \in [Threads -> Queues \cup {NoQueue}]
      /\ path \in [Threads -> Seq(Queues)]
      /\ fwd \in [Queues -> Queues \cup {NoQueue}]
      /\ y \in Threads
  BY YieldingAssumption DEF StrandedInv, IInv, TypeOK, QTypeOK
<1>2. ASSUME pc[y] \in Polling
      PROVE  /\ path[y] = <<>> /\ (pc[y] # "poll" => fwd[at[y]] = NoQueue)
             /\ at[y] \in Queues /\ OwnerOf[at[y]] = y /\ fwd[at[y]] = NoQueue
  <2>1. path[y] = <<>> /\ (pc[y] # "poll" => fwd[at[y]] = NoQueue)
    BY <1>1, <1>2 DEF YieldInv
  <2>2. at[y] \in Queues /\ OwnerOf[at[y]] = y
    BY <1>1, <1>2, <2>1 DEF CallInv, Locking
  <2>3. CASE fwd[at[y]] # NoQueue
    BY <1>1, <2>2, <2>3 DEF ForwardInv, YieldersDoNotForward
  <2> QED BY <2>1, <2>2, <2>3
\* The thread goes on, or is woken, where it is.
<1>3. ASSUME pc[y] \in Polling, path'[y] = path[y], at'[y] = at[y],
             fwd'[at[y]] = fwd[at[y]] \/ fwd'[at[y]] = NoQueue
      PROVE  Goal
  BY <1>2, <1>3
<1>4. ASSUME NEW t \in Threads, Return(t) \/ Follow(t)
      PROVE  Goal
  <2>1. pc'[y] \in Polling => t # y
    BY <1>1, <1>2, <1>4 DEF Return, Follow
  <2>2. pc'[y] = pc[y] /\ path'[y] = path[y] /\ at'[y] = at[y] /\ UNCHANGED fwd
    BY <1>1, <1>4, <2>1 DEF Return, Follow
  <2> QED BY <1>3, <2>2
<1>5. ASSUME NEW t \in Threads, EnqHere(t) \/ EnqRefused(t) \/ NudgeHere(t)
      PROVE  Goal
  <2>1. t # y
    BY <1>1, <1>5 DEF EnqHere, EnqRefused, NudgeHere, Asleep
  <2>2. path'[y] = path[y] /\ at'[y] = at[y] /\ UNCHANGED fwd
    BY <1>1, <1>5, <2>1 DEF EnqHere, EnqRefused, NudgeHere, queueVars
  <2>3. pc'[y] = pc[y] \/ pc[y] = "asleep"
    BY <1>1, <1>5, <2>1 DEF EnqHere, EnqRefused, NudgeHere, Asleep
  <2> QED BY <1>3, <2>2, <2>3
<1>6. ASSUME NEW t \in Threads, Take(t) \/ Wait(t) \/ Serve(t) \/ ServeYield(t)
      PROVE  Goal
  <2>1. UNCHANGED <<at, path, fwd>> /\ pc[y] \in Polling
    BY <1>1, <1>6
       DEF Take, Wait, Serve, ServeYield, Looking, queueVars
  <2> QED BY <1>3, <2>1
<1>7. ASSUME NEW t \in Threads,
             Yielded(t) \/ Served(t) \/ Purged(t) \/ Timeout(t) \/ Purge(t)
      PROVE  Goal
  <2>1. t # y
    BY <1>1, <1>7 DEF Yielded, Served, Purged, Timeout, Leave, Purge
  <2>2. /\ pc'[y] = pc[y] /\ path'[y] = path[y] /\ at'[y] = at[y]
        /\ UNCHANGED fwd
    BY <1>1, <1>7, <2>1 DEF Yielded, Served, Purged, Timeout, Leave, Purge, queueVars
  <2> QED BY <1>3, <2>2
<1>8. ASSUME NEW t \in Threads, NEW c \in {"enq", "yield", "purge"}, NEW q \in Queues,
             Enter(t, c, q), UNCHANGED fwd
      PROVE  Goal
  <2>1. t # y
    BY <1>1, <1>8 DEF Enter
  <2>2. pc'[y] = pc[y] /\ path'[y] = path[y] /\ at'[y] = at[y]
    BY <1>1, <1>8, <2>1 DEF Enter
  <2> QED BY <1>3, <1>8, <2>2
<1>9. ASSUME NEW t \in Threads, NEW q \in Queues, Poll(t, q)
      PROVE  Goal
  <2>1. UNCHANGED <<path, fwd>>
    BY <1>9 DEF Poll, queueVars
  <2>2. CASE t = y
    <3>1. pc[y] = "idle" /\ pc'[y] = "poll"
      BY <1>1, <1>9, <2>2 DEF Poll
    <3> QED BY <1>1, <2>1, <3>1 DEF CallInv
  <2>3. CASE t # y
    BY <1>1, <1>3, <1>9, <2>1, <2>3 DEF Poll
  <2> QED BY <2>2, <2>3
<1>10. ASSUME NEW t \in Threads, NEW q \in Queues, NEW d \in Queues, Forward(t, q, d)
       PROVE  Goal
  <2>1. UNCHANGED <<at, path>> /\ (pc'[y] = pc[y] \/ pc[y] = "asleep")
    BY <1>1, <1>10 DEF Forward, Asleep
  <2>2. pc[y] \in Polling
    BY <2>1
  <2>3. at[y] # q
    BY <1>2, <1>10, <2>2 DEF Forward
  <2>4. fwd'[at[y]] = fwd[at[y]]
    BY <1>1, <1>2, <1>10, <2>2, <2>3 DEF Forward
  <2> QED BY <1>3, <2>1, <2>2, <2>4
<1>11. ASSUME NEW t \in Threads, NEW q \in Queues, Unforward(t, q) \/ DestroyOwner(t, q)
       PROVE  Goal
  <2>1. CASE Unforward(t, q)
    BY <1>1, <1>2, <1>3, <2>1 DEF Unforward, threadVars
  <2>2. CASE DestroyOwner(t, q)
    BY <1>8, <2>2 DEF DestroyOwner
  <2> QED BY <1>11, <2>1, <2>2
<1>12. ASSUME NEW t \in Threads, \E o \in Ops : Reply(t, o)
       PROVE  Goal
  BY <1>8, <1>12 DEF Reply, SetOut, queueVars
<1>13. ASSUME NEW t \in Threads, NEW q \in Queues,
              \/ Nudge(t, q)
              \/ \E o \in Ops, r \in Queues \cup {NoQueue} : Send(t, q, o, r)
       PROVE  Goal
  BY <1>8, <1>13 DEF Nudge, Send, SetOut
<1>14. ASSUME NEW t \in Threads, NEW x \in Sources, Trigger(t, x)
       PROVE  Goal
  <2>1. CASE erko = NoOp
    BY <1>3, <1>14, <2>1 DEF Trigger, threadVars, queueVars
  <2>2. CASE erko # NoOp
    <3>1. ereplyq \in Queues
      BY <2>2 DEF StrandedInv, IInv, EonceAsserts, TypeOK
    <3> QED BY <1>8, <1>14, <2>2, <3>1 DEF Trigger, SetOut, queueVars
  <2> QED BY <2>1, <2>2
<1>15. ASSUME \/ \E t \in Threads : DestroyNext(t) \/ Disown(t)
              \/ \E t \in Threads, o \in Ops, q \in Queues : New(t, o, q)
              \/ \E t \in Threads, x \in Sources : AddSource(t, x) \/ DelSource(t, x)
              \/ \E t \in Threads, q \in Queues : Reenable(t, q)
       PROVE  Goal
  <2>1. UNCHANGED <<pc, at, path, fwd>>
    BY <1>15 DEF DestroyNext, Disown, New, AddSource, DelSource, Reenable, qVars,
                 queueVars, threadVars
  <2> QED BY <1>3, <2>1
<1>16. ASSUME NEW q \in Queues, Final(q)
       PROVE  Goal
  <2>1. UNCHANGED <<pc, at, path>>
    BY <1>16 DEF Final, threadVars
  <2>2. fwd' = fwd \/ fwd' = [fwd EXCEPT ![q] = NoQueue]
    BY <1>16 DEF Final
  <2> QED BY <1>1, <1>2, <1>3, <2>1, <2>2
<1> QED
  BY <1>4, <1>5, <1>6, <1>7, <1>9, <1>10, <1>11, <1>12, <1>13, <1>14, <1>15, <1>16
     DEF Next, QNext, CallStep, OwnerStep, EonceStep, Q

\* Of the actions on queues, only the put-back of a callback that yields does
\* not look at RD_KAFKA_Q_F_READY: it stays at home, and what waits always has
\* a thread that polls it or is about to purge it.
THEOREM StrandedHolds ==
  ASSUME YieldersDoNotForward
  PROVE  Spec => []StrandedInv
<1>1. Init => StrandedInv
  <2>1. Init => IInv
    BY InitHolds
  <2>2. Init => ReadyInv /\ ForwardInv /\ LeftInv /\ YieldInv
    BY YieldingAssumption
       DEF Init, QInit, ReadyInv, ForwardInv, LeftInv, YieldInv
  <2> QED BY <2>1, <2>2 DEF StrandedInv
<1>2. ASSUME StrandedInv, Next, IInv'
      PROVE  StrandedInv'
  <2>1. ReadyInv'
    BY <1>2, ReadyPreserved
  <2>2. ForwardInv'
    BY <1>2, ForwardPreserved DEF ForwardInv
  <2>3. LeftInv'
    BY <1>2, LeftPreserved DEF LeftInv
  <2>4. YieldInv'
    BY <1>2, YieldPreserved DEF YieldInv
  <2> QED BY <1>2, <2>1, <2>2, <2>3, <2>4 DEF StrandedInv
<1>3. ASSUME StrandedInv, UNCHANGED vars, IInv'
      PROVE  StrandedInv'
  BY <1>3 DEF StrandedInv, ReadyInv, ForwardInv, LeftInv, YieldInv, vars, qVars,
              queueVars, threadVars
<1>4. StrandedInv /\ [Next]_vars /\ IInv' => StrandedInv'
  BY <1>2, <1>3
<1> QED BY <1>1, <1>4, Invariance, PTL DEF Spec

\* What waits in a queue is polled by the queue's owner or about to be purged:
\* rd_kafka_q_destroy_owner disables the queue before it purges it, and every
\* enqueue and concatenation looks at RD_KAFKA_Q_F_READY under the lock.  The
\* put-back of a callback that yields does not look, so it must stay at home.
THEOREM NothingStrandedHolds ==
  ASSUME YieldersDoNotForward
  PROVE  Spec => []NothingStranded
<1>1. Spec => []StrandedInv
  BY StrandedHolds
<1>2. StrandedInv => NothingStranded
  BY DEF StrandedInv, LeftInv, NothingStranded
<1> QED BY <1>1, <1>2, PTL
=============================================================================
