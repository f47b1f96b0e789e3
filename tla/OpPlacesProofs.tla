--------------------------- MODULE OpPlacesProofs ---------------------------
(***************************************************************************)
(* A theorem about EnqOnce, for any queues, ops, threads, forwards and     *)
(* sources: every op is in one place at any time, and rkq_qlen is the      *)
(* length of the list.                                                     *)
(*                                                                         *)
(* First what the operators on lists do (an insertion adds the op and      *)
(* keeps the others, a concatenation makes one list of two), then how      *)
(* each action moves ops from place to place.                              *)
(***************************************************************************)
EXTENDS EnqOnceProofs, ListLemmas

-----------------------------------------------------------------------------
(* What the operators on lists do.                                         *)

\* t is s with o somewhere in it, behind s if o has no priority.
Adds(s, o, t) ==
  /\ t \in Seq(Ops)
  /\ Len(t) = Len(s) + 1
  /\ Range(t) = Range(s) \cup {o}
  /\ Distinct(s) /\ o \notin Range(s) => Distinct(t)
  /\ \A a, b : Before(t, a, b) =>
       Before(s, a, b) \/ b = o \/ (a = o /\ Prio[o] > 0)

\* TAILQ_INSERT_SORTED finds a place.
LEMMA SortedAdds ==
  ASSUME NEW s \in Seq(Ops), NEW o \in Ops, Prio[o] > 0
  PROVE  Adds(s, o, Sorted(s, o))
<1> DEFINE T == {i \in 1 .. Len(s) + 1 : i <= Len(s) => Prio[s[i]] < Prio[o]}
           Place(i) == /\ i <= Len(s) => Prio[s[i]] < Prio[o]
                       /\ \A j \in 1 .. i - 1 : Prio[s[j]] >= Prio[o]
           n == CHOOSE i \in 1 .. Len(s) + 1 : Place(i)
<1>1. Len(s) \in Nat
  BY LenProperties
<1>2. \A j \in 1 .. Len(s) : Prio[s[j]] \in Int
  BY PrioAssumption, ElementOfSeq
<1>3. Prio[o] \in Int
  BY PrioAssumption
<1>4. PICK m \in T : \A i \in T : m <= i
  <2>1. Len(s) + 1 \in T
    BY <1>1
  <2>2. T \in SUBSET Nat
    BY <1>1
  <2> QED BY <2>1, <2>2, SmallestOf
<1>5. Place(m)
  <2>1. ASSUME NEW j \in 1 .. m - 1 PROVE Prio[s[j]] >= Prio[o]
    <3>1. j \in 1 .. Len(s) /\ j < m
      BY <1>1, <1>4
    <3>2. j \notin T
      BY <1>1, <1>4, <3>1
    <3> QED BY <1>1, <1>2, <1>3, <3>1, <3>2
  <2> QED BY <2>1, <1>4
<1>6. n \in 1 .. Len(s) + 1
  <2>1. \E i \in 1 .. Len(s) + 1 : Place(i)
    BY <1>4, <1>5
  <2> HIDE DEF Place
  <2> QED BY <2>1
<1>7. Sorted(s, o) = InsertAt(s, n, o)
  BY DEF Sorted
<1> HIDE DEF n
<1> QED BY <1>6, <1>7, Inserted DEF Adds

\* rd_kafka_q_enq0 puts the op somewhere.
LEMMA Enq0Adds ==
  ASSUME NEW s \in Seq(Ops), NEW o \in Ops
  PROVE  Adds(s, o, Enq0(s, o))
<1>1. CASE Prio[o] = 0
  <2>1. Enq0(s, o) = s \o <<o>>
    BY <1>1, AppendIsConcat DEF Enq0
  <2>2. /\ <<o>> \in Seq(Ops) /\ Len(<<o>>) = 1
        /\ Range(<<o>>) = {o} /\ Distinct(<<o>>)
        /\ \A a, b : ~ Before(<<o>>, a, b)
    BY OneList
  <2> DEFINE u == <<o>>
             t == s \o u
  <2>3. /\ t \in Seq(Ops) /\ Len(t) = Len(s) + Len(u)
        /\ Range(t) = Range(s) \cup Range(u)
        /\ Distinct(s) /\ Distinct(u) /\ Range(s) \cap Range(u) = {} => Distinct(t)
        /\ \A a, b : Before(t, a, b) =>
             Before(s, a, b) \/ Before(u, a, b) \/ (a \in Range(s) /\ b \in Range(u))
    BY <2>2, Joined
  <2> HIDE DEF u
  <2>4. Adds(s, o, t)
    <3> HIDE DEF t
    <3>1. Len(t) = Len(s) + 1 /\ Range(t) = Range(s) \cup {o}
      BY <2>2, <2>3 DEF u
    <3>2. Distinct(s) /\ o \notin Range(s) => Distinct(t)
      BY <2>2, <2>3 DEF u
    <3>3. \A a, b : Before(t, a, b) => Before(s, a, b) \/ b = o
      BY <2>2, <2>3 DEF u
    <3> QED BY <2>3, <3>1, <3>2, <3>3 DEF Adds
  <2> QED BY <2>1, <2>4 DEF t, u
<1>2. CASE Prio[o] # 0
  <2>1. Prio[o] > 0
    BY <1>2, PrioAssumption
  <2> QED BY <1>2, <2>1, SortedAdds DEF Enq0
<1> QED BY <1>1, <1>2

-----------------------------------------------------------------------------
(* rd_kafka_q_concat0, op by op.                                           *)

\* f[i] is s once the first i ops of src have gone to their place in it.
Goes(s, src, k, f) ==
  f = [i \in 0 .. k |-> IF i = 0 THEN s ELSE Sorted(f[i - 1], src[i])]

\* There is such a list of lists, as far as one likes.
LEMMA GoesOn ==
  ASSUME NEW s, NEW src, NEW n \in Nat
  PROVE  \E f : Goes(s, src, n, f)
<1> DEFINE T == {k \in Nat : ~ \E f : Goes(s, src, k, f)}
<1>1. ASSUME T # {} PROVE FALSE
  <2>1. PICK m \in T : \A k \in T : m <= k
    BY <1>1, SmallestOf
  <2>2. CASE m = 0
    <3> DEFINE f == [i \in 0 .. 0 |-> s]
    <3>1. f = [i \in 0 .. 0 |-> IF i = 0 THEN s ELSE Sorted(f[i - 1], src[i])]
      OBVIOUS
    <3>2. Goes(s, src, 0, f)
      BY <3>1 DEF Goes
    <3> QED BY <2>1, <2>2, <3>2
  <2>3. CASE m # 0
    <3>1. m \in Nat /\ m - 1 \in Nat /\ m - 1 \notin T
      BY <2>1, <2>3
    <3>2. PICK f : Goes(s, src, m - 1, f)
      BY <3>1
    <3> DEFINE g == [i \in 0 .. m |-> IF i <= m - 1 THEN f[i] ELSE Sorted(f[m - 1], src[m])]
    <3>3. ASSUME NEW i \in 0 .. m
          PROVE  g[i] = IF i = 0 THEN s ELSE Sorted(g[i - 1], src[i])
      <4>1. \A j \in 0 .. m - 1 : g[j] = f[j]
        BY <3>1
      <4>2. \A j \in 0 .. m - 1 : f[j] = IF j = 0 THEN s ELSE Sorted(f[j - 1], src[j])
        BY <3>2 DEF Goes
      <4>3. CASE i = 0
        BY <4>1, <4>2, <4>3, <3>1
      <4>4. CASE i # 0 /\ i <= m - 1
        <5>1. i \in 0 .. m - 1 /\ i - 1 \in 0 .. m - 1
          BY <4>4, <3>1
        <5> QED BY <4>1, <4>2, <4>4, <5>1
      <4>5. CASE i # 0 /\ ~ (i <= m - 1)
        <5>1. i = m /\ i - 1 = m - 1 /\ m - 1 \in 0 .. m - 1
          BY <4>5, <3>1
        <5>2. g[m] = Sorted(f[m - 1], src[m])
          BY <4>5, <5>1
        <5> QED BY <4>1, <4>5, <5>1, <5>2
      <4> QED BY <4>3, <4>4, <4>5
    <3>4. g = [i \in 0 .. m |-> IF i = 0 THEN s ELSE Sorted(g[i - 1], src[i])]
      <4>1. g = [i \in 0 .. m |-> g[i]]
        OBVIOUS
      <4> HIDE DEF g
      <4> QED BY <4>1, <3>3
    <3>5. Goes(s, src, m, g)
      <4> HIDE DEF g
      <4> QED BY <3>4 DEF Goes
    <3> QED BY <2>1, <3>5
  <2> QED BY <2>2, <2>3
<1> QED BY <1>1

\* The first i members of a list.
Firsts(s, i) == {s[j] : j \in 1 .. i}

\* t is s with the first i members of src in it, and they all have a priority.
Takes(s, src, i, t) ==
  /\ t \in Seq(Ops)
  /\ Len(t) = Len(s) + i
  /\ Range(t) = Range(s) \cup Firsts(src, i)
  /\ Distinct(s) /\ Distinct(src) /\ Range(s) \cap Range(src) = {} => Distinct(t)
  /\ \A a, b : Prio[a] = 0 /\ Prio[b] = 0 /\ Before(t, a, b) => Before(s, a, b)

\* One more op of src goes to its place.
LEMMA TakesOneMore ==
  ASSUME NEW s \in Seq(Ops), NEW src \in Seq(Ops), NEW i \in 1 .. Len(src),
         Prio[src[i]] > 0, NEW t, Takes(s, src, i - 1, t)
  PROVE  Takes(s, src, i, Sorted(t, src[i]))
<1> DEFINE o == src[i]
           u == Sorted(t, o)
<1>1. o \in Ops /\ t \in Seq(Ops) /\ Len(src) \in Nat /\ Len(s) \in Nat
  BY ElementOfSeq, LenProperties DEF Takes
<1>2. Prio[o] \in Nat
  BY <1>1, PrioAssumption
<1>3. Adds(t, o, u)
  BY <1>1, SortedAdds
<1> HIDE DEF u
<1>4. Len(u) = Len(s) + i
  <2>1. Len(u) = Len(t) + 1 /\ Len(t) = Len(s) + (i - 1)
    BY <1>3 DEF Adds, Takes
  <2> QED BY <2>1, <1>1
<1>5. Firsts(src, i) = Firsts(src, i - 1) \cup {o}
  <2>1. \A j : j \in 1 .. i <=> (j \in 1 .. i - 1 \/ j = i)
    BY <1>1
  <2> QED BY <2>1 DEF Firsts
<1>6. Range(u) = Range(s) \cup Firsts(src, i)
  BY <1>3, <1>5 DEF Adds, Takes
<1>7. ASSUME Distinct(s), Distinct(src), Range(s) \cap Range(src) = {}
      PROVE  Distinct(u)
  <2>1. o \in Range(src)
    BY InRange
  <2>2. o \notin Firsts(src, i - 1)
    <3>1. ASSUME NEW j \in 1 .. i - 1, src[j] = o PROVE FALSE
      <4>1. j \in 1 .. Len(src) /\ j # i
        BY <1>1
      <4> QED BY <4>1, <3>1, <1>7 DEF Distinct
    <3> QED BY <3>1 DEF Firsts
  <2>3. Distinct(t) /\ Range(t) = Range(s) \cup Firsts(src, i - 1)
    BY <1>7 DEF Takes
  <2>4. o \notin Range(t)
    BY <2>1, <2>2, <2>3, <1>7
  <2> QED BY <2>3, <2>4, <1>3 DEF Adds
<1>8. ASSUME NEW a, NEW b, Prio[a] = 0, Prio[b] = 0, Before(u, a, b)
      PROVE  Before(s, a, b)
  <2>1. a # o /\ b # o
    BY <1>2, <1>8
  <2>2. Before(t, a, b)
    BY <2>1, <1>3, <1>8 DEF Adds
  <2> QED BY <2>2, <1>8 DEF Takes
<1>9. u \in Seq(Ops)
  BY <1>3 DEF Adds
<1> QED BY <1>4, <1>6, <1>7, <1>8, <1>9 DEF Takes, u

\* All of them, one after the other.
LEMMA GoesTakes ==
  ASSUME NEW s \in Seq(Ops), NEW src \in Seq(Ops), NEW n \in 0 .. Len(src),
         \A j \in 1 .. n : Prio[src[j]] > 0,
         NEW f, Goes(s, src, n, f)
  PROVE  Takes(s, src, n, f[n])
<1>0. Len(src) \in Nat /\ Len(s) \in Nat
  BY LenProperties
<1> DEFINE T == {i \in 0 .. n : ~ Takes(s, src, i, f[i])}
<1>1. ASSUME T # {} PROVE FALSE
  <2>1. PICK m \in T : \A k \in T : m <= k
    <3>1. T \in SUBSET Nat
      BY <1>0
    <3> QED BY <1>1, <3>1, SmallestOf
  <2>2. m \in 0 .. n /\ ~ Takes(s, src, m, f[m])
    BY <2>1
  <2>3. f[m] = IF m = 0 THEN s ELSE Sorted(f[m - 1], src[m])
    BY <2>2 DEF Goes
  <2>4. CASE m = 0
    <3>1. Firsts(src, 0) = {}
      BY DEF Firsts
    <3>2. Len(s) = Len(s) + 0
      BY <1>0
    <3>3. Takes(s, src, 0, s)
      BY <3>1, <3>2 DEF Takes
    <3> QED BY <2>2, <2>3, <2>4, <3>3
  <2>5. CASE m # 0
    <3>1. m - 1 \in 0 .. n /\ ~ (m <= m - 1) /\ m \in 1 .. n /\ m \in 1 .. Len(src)
      BY <1>0, <2>2, <2>5
    <3>2. m - 1 \notin T
      BY <2>1, <3>1
    <3>3. Takes(s, src, m - 1, f[m - 1])
      BY <3>1, <3>2
    <3>4. Prio[src[m]] > 0
      BY <3>1
    <3>5. Takes(s, src, m, Sorted(f[m - 1], src[m]))
      BY <3>1, <3>3, <3>4, TakesOneMore
    <3> QED BY <2>2, <2>3, <2>5, <3>5
  <2> QED BY <2>4, <2>5
<1>2. n \in 0 .. n
  BY <1>0
<1> QED BY <1>1, <1>2

\* t is made of s and src, and no op without priority overtakes another.
Merges(s, src, t) ==
  /\ t \in Seq(Ops)
  /\ Len(t) = Len(s) + Len(src)
  /\ Range(t) = Range(s) \cup Range(src)
  /\ Distinct(s) /\ Distinct(src) /\ Range(s) \cap Range(src) = {} => Distinct(t)
  /\ \A a, b : Prio[a] = 0 /\ Prio[b] = 0 /\ Before(t, a, b) =>
       Before(s, a, b) \/ Before(src, a, b) \/ (a \in Range(s) /\ b \in Range(src))

\* rd_kafka_q_concat0 makes one list of two.
LEMMA ConcatMerges ==
  ASSUME NEW s \in Seq(Ops), NEW src \in Seq(Ops)
  PROVE  Merges(s, src, Concat(s, src))
<1> DEFINE N == Len(src)
           Heads(i) == /\ \A j \in 1 .. i : Prio[src[j]] > 0
                       /\ i < Len(src) => Prio[src[i + 1]] = 0
           n == CHOOSE i \in 0 .. Len(src) : Heads(i)
           moved[i \in 0 .. n] == IF i = 0 THEN s ELSE Sorted(moved[i - 1], src[i])
           rest == SubSeq(src, n + 1, Len(src))
<1>1. N \in Nat /\ Len(s) \in Nat
  BY LenProperties
<1>2. Concat(s, src) = moved[n] \o rest
  BY DEF Concat
<1>3. \A j \in 1 .. N : src[j] \in Ops /\ Prio[src[j]] \in Nat
  BY ElementOfSeq, PrioAssumption
<1>4. n \in 0 .. N /\ Heads(n)
  <2> DEFINE T == {i \in 0 .. N : i < N => Prio[src[i + 1]] = 0}
  <2>1. PICK m \in T : \A i \in T : m <= i
    <3>1. N \in T /\ T \in SUBSET Nat
      BY <1>1
    <3> QED BY <3>1, SmallestOf
  <2>2. ASSUME NEW j \in 1 .. m PROVE Prio[src[j]] > 0
    <3>1. j - 1 \in 0 .. N /\ j - 1 < m /\ (j - 1) + 1 = j /\ j - 1 < N /\ j \in 1 .. N
      BY <1>1, <2>1
    <3>2. j - 1 \notin T
      BY <1>1, <2>1, <3>1
    <3>3. Prio[src[j]] # 0 /\ Prio[src[j]] \in Nat
      BY <1>3, <3>1, <3>2
    <3> QED BY <3>3
  <2>3. m \in 0 .. N /\ Heads(m)
    BY <2>1, <2>2
  <2>4. \E i \in 0 .. Len(src) : Heads(i)
    BY <2>3
  <2> HIDE DEF Heads
  <2> QED BY <2>4
<1>5. Goes(s, src, n, moved)
  <2>1. n \in Nat
    BY <1>1, <1>4
  <2> HIDE DEF n
  <2>2. PICK f : Goes(s, src, n, f)
    BY <2>1, GoesOn
  <2>3. f = [i \in 0 .. n |-> IF i = 0 THEN s ELSE Sorted(f[i - 1], src[i])]
    BY <2>2 DEF Goes
  <2>4. \E g : g = [i \in 0 .. n |-> IF i = 0 THEN s ELSE Sorted(g[i - 1], src[i])]
    BY <2>3, Zenon
  <2>5. moved = [i \in 0 .. n |-> IF i = 0 THEN s ELSE Sorted(moved[i - 1], src[i])]
    BY <2>4, Zenon
  <2> QED BY <2>5 DEF Goes
<1> HIDE DEF moved
<1>6. Takes(s, src, n, moved[n])
  <2>1. n \in 0 .. Len(src) /\ \A j \in 1 .. n : Prio[src[j]] > 0
    BY <1>4
  <2> HIDE DEF n
  <2> QED BY <2>1, <1>5, GoesTakes
<1>7. n \in Nat /\ n <= N
  BY <1>1, <1>4
<1> HIDE DEF n
<1>8. /\ rest \in Seq(Ops) /\ Len(rest) = N - n
      /\ \A i \in 1 .. N - n : n + i \in 1 .. N /\ rest[i] = src[n + i]
  <2>1. \A i \in n + 1 .. N : src[i] \in Ops
    <3>1. \A i \in n + 1 .. N : i \in 1 .. N
      BY <1>1, <1>7
    <3> QED BY <3>1, <1>3
  <2>2. n + 1 \in Int /\ N \in Int
    BY <1>1, <1>7
  <2>3. /\ rest \in Seq(Ops)
        /\ Len(rest) = IF n + 1 <= N THEN N - (n + 1) + 1 ELSE 0
        /\ \A i \in 1 .. N - (n + 1) + 1 : rest[i] = src[(n + 1) + i - 1]
    BY <2>1, <2>2, SubSeqProperties
  <2>4. Len(rest) = N - n
    BY <2>3, <1>1, <1>7
  <2>5. ASSUME NEW i \in 1 .. N - n PROVE n + i \in 1 .. N /\ rest[i] = src[n + i]
    <3>1. i \in 1 .. N - (n + 1) + 1 /\ (n + 1) + i - 1 = n + i /\ n + i \in 1 .. N
      BY <1>1, <1>7
    <3> QED BY <2>3, <3>1
  <2> QED BY <2>3, <2>4, <2>5
<1> DEFINE u == moved[n]
           t == u \o rest
<1> HIDE DEF rest
<1>9. /\ t \in Seq(Ops) /\ Len(t) = Len(u) + Len(rest)
      /\ Range(t) = Range(u) \cup Range(rest)
      /\ Distinct(u) /\ Distinct(rest) /\ Range(u) \cap Range(rest) = {} => Distinct(t)
      /\ \A a, b : Before(t, a, b) =>
           Before(u, a, b) \/ Before(rest, a, b) \/ (a \in Range(u) /\ b \in Range(rest))
  <2>1. u \in Seq(Ops)
    BY <1>6 DEF Takes
  <2> HIDE DEF u
  <2> QED BY <2>1, <1>8, Joined
<1> HIDE DEF t, u, N
<1>10. /\ u \in Seq(Ops) /\ Len(u) = Len(s) + n
       /\ Range(u) = Range(s) \cup Firsts(src, n)
       /\ Distinct(s) /\ Distinct(src) /\ Range(s) \cap Range(src) = {} => Distinct(u)
       /\ \A a, b : Prio[a] = 0 /\ Prio[b] = 0 /\ Before(u, a, b) => Before(s, a, b)
  BY <1>6 DEF Takes, u
<1>11. /\ \A x : x \in Range(src) <=> \E i \in 1 .. N : src[i] = x
       /\ \A x : x \in Range(rest) <=> \E i \in 1 .. N - n : rest[i] = x
       /\ \A x : x \in Firsts(src, n) <=> \E i \in 1 .. n : src[i] = x
  BY <1>8, InRange DEF Firsts, N
<1>12. Range(src) = Firsts(src, n) \cup Range(rest)
  <2>1. ASSUME NEW x \in Range(src) PROVE x \in Firsts(src, n) \cup Range(rest)
    <3>1. PICK i \in 1 .. N : src[i] = x
      BY <1>11
    <3>2. CASE i <= n
      <4>1. i \in 1 .. n
        BY <3>2, <1>1, <1>7
      <4> QED BY <3>1, <4>1, <1>11
    <3>3. CASE ~ (i <= n)
      <4>1. i - n \in 1 .. N - n /\ n + (i - n) = i
        BY <3>3, <1>1, <1>7
      <4>2. rest[i - n] = x
        BY <4>1, <3>1, <1>8
      <4> QED BY <4>1, <4>2, <1>11
    <3> QED BY <3>2, <3>3
  <2>2. ASSUME NEW x \in Firsts(src, n) PROVE x \in Range(src)
    <3>1. PICK i \in 1 .. n : src[i] = x
      BY <1>11
    <3>2. i \in 1 .. N
      BY <1>1, <1>7
    <3> QED BY <3>1, <3>2, <1>11
  <2>3. ASSUME NEW x \in Range(rest) PROVE x \in Range(src)
    <3>1. PICK i \in 1 .. N - n : rest[i] = x
      BY <1>11
    <3> QED BY <3>1, <1>8, <1>11
  <2> QED BY <2>1, <2>2, <2>3
<1>13. ASSUME Distinct(s), Distinct(src), Range(s) \cap Range(src) = {}
       PROVE  Distinct(t)
  <2>1. \A i, j \in 1 .. N : src[i] = src[j] => i = j
    BY <1>13 DEF Distinct, N
  <2>2. Distinct(rest)
    <3>1. SUFFICES ASSUME NEW i \in 1 .. N - n, NEW j \in 1 .. N - n, rest[i] = rest[j]
                   PROVE  i = j
      BY <1>8 DEF Distinct
    <3>2. n + i = n + j
      BY <3>1, <2>1, <1>8
    <3> QED BY <3>2, <1>7
  <2>3. Firsts(src, n) \cap Range(rest) = {}
    <3>1. ASSUME NEW i \in 1 .. n, NEW j \in 1 .. N - n, src[i] = rest[j] PROVE FALSE
      <4>1. i \in 1 .. N /\ i # n + j
        BY <1>1, <1>7
      <4> QED BY <4>1, <3>1, <2>1, <1>8
    <3> QED BY <3>1, <1>11
  <2>4. Range(u) \cap Range(rest) = {}
    BY <2>3, <1>10, <1>12, <1>13
  <2> QED BY <2>2, <2>4, <1>9, <1>10, <1>13
<1>14. ASSUME NEW a, NEW b, Prio[a] = 0, Prio[b] = 0, Before(t, a, b)
       PROVE  Before(s, a, b) \/ Before(src, a, b) \/ (a \in Range(s) /\ b \in Range(src))
  <2>1. \/ Before(u, a, b) \/ Before(rest, a, b)
        \/ (a \in Range(u) /\ b \in Range(rest))
    BY <1>9, <1>14
  <2>2. CASE Before(u, a, b)
    BY <2>2, <1>10, <1>14
  <2>3. CASE Before(rest, a, b)
    <3>1. PICK i \in 1 .. N - n, j \in 1 .. N - n : i < j /\ rest[i] = a /\ rest[j] = b
      BY <2>3, <1>8 DEF Before
    <3>2. /\ n + i \in 1 .. N /\ src[n + i] = a
          /\ n + j \in 1 .. N /\ src[n + j] = b
      BY <3>1, <1>8
    <3>3. n + i < n + j
      BY <3>1, <1>7
    <3> QED BY <3>2, <3>3 DEF Before, N
  <2>4. CASE a \in Range(u) /\ b \in Range(rest)
    <3>1. a \notin Firsts(src, n)
      <4>1. ASSUME NEW i \in 1 .. n, src[i] = a PROVE FALSE
        <5>1. Prio[src[i]] > 0
          BY <1>4
        <5> QED BY <5>1, <4>1, <1>14
      <4> QED BY <4>1, <1>11
    <3> QED BY <2>4, <3>1, <1>10, <1>12
  <2> QED BY <2>1, <2>2, <2>3, <2>4
<1>15. Len(t) = Len(s) + Len(src)
  BY <1>1, <1>7, <1>8, <1>9, <1>10 DEF N
<1>16. Range(t) = Range(s) \cup Range(src)
  BY <1>9, <1>10, <1>12
<1> QED
  <2>1. Concat(s, src) = t
    BY <1>2 DEF t, u
  <2> QED BY <2>1, <1>9, <1>13, <1>14, <1>15, <1>16 DEF Merges

-----------------------------------------------------------------------------
(* Where an op is.                                                         *)

Carriers(o) == {t \in Threads : carry[t] = o}
Answerers(o) == {t \in Threads : o \in answering[t]}
Movers(o) == {t \in Threads : o \in Range(local[t])}
Lists(o) == {q \in Queues : o \in Range(ops[q])}

\* The op is not sent, is settled, is on the eonce, or is where threads or
\* queues have it.
Lies(o, unsent, done, armed, C, A, M, L) ==
  /\ o \notin sent <=> unsent
  /\ o \in settled <=> done
  /\ o = erko <=> armed
  /\ Carriers(o) = C /\ Answerers(o) = A /\ Movers(o) = M /\ Lists(o) = L

Unsent(o) == Lies(o, TRUE, FALSE, FALSE, {}, {}, {}, {})
Settled(o) == Lies(o, FALSE, TRUE, FALSE, {}, {}, {}, {})
Armed(o) == Lies(o, FALSE, FALSE, TRUE, {}, {}, {}, {})
Carried(o, t) == Lies(o, FALSE, FALSE, FALSE, {t}, {}, {}, {})
Answered(o, t) == Lies(o, FALSE, FALSE, FALSE, {}, {t}, {}, {})
Out(o, t) == Lies(o, FALSE, FALSE, FALSE, {}, {}, {t}, {})
Waiting(o, q) == Lies(o, FALSE, FALSE, FALSE, {}, {}, {}, {q})

Placed(o) ==
  \/ Unsent(o) \/ Settled(o) \/ Armed(o)
  \/ \E t \in Threads : Carried(o, t) \/ Answered(o, t) \/ Out(o, t)
  \/ \E q \in Queues : Waiting(o, q)

\* Every op is in one place.
PlaceInv == \A o \in Ops : Placed(o)

\* No op is twice in a list, and the length of a queue is that of its list.
ListInv ==
  /\ ops \in [Queues -> Seq(Ops)]
  /\ local \in [Threads -> Seq(Ops)]
  /\ qlen \in [Queues -> Nat]
  /\ \A q \in Queues : Distinct(ops[q]) /\ qlen[q] = Len(ops[q])
  /\ \A t \in Threads : Distinct(local[t])

\* What a thread has in its hands is what its call is about.
HandsInv ==
  \A t \in Threads :
    /\ pc[t] = "enq" <=> carry[t] \in Ops
    /\ local[t] # <<>> => pc[t] \in {"serve", "destroy"}

OpInv == PlaceInv /\ ListInv /\ HandsInv

\* An op that is found somewhere is nowhere else.
LEMMA Found ==
  ASSUME PlaceInv, NEW o \in Ops
  PROVE  /\ o \notin sent => Unsent(o)
         /\ o \in settled => Settled(o)
         /\ o = erko => Armed(o)
         /\ \A t \in Threads : carry[t] = o => Carried(o, t)
         /\ \A t \in Threads : o \in answering[t] => Answered(o, t)
         /\ \A t \in Threads : o \in Range(local[t]) => Out(o, t)
         /\ \A q \in Queues : o \in Range(ops[q]) => Waiting(o, q)
<1>1. Placed(o)
  BY DEF PlaceInv
<1>2. /\ \A t : t \in Carriers(o) <=> t \in Threads /\ carry[t] = o
      /\ \A t : t \in Answerers(o) <=> t \in Threads /\ o \in answering[t]
      /\ \A t : t \in Movers(o) <=> t \in Threads /\ o \in Range(local[t])
      /\ \A q : q \in Lists(o) <=> q \in Queues /\ o \in Range(ops[q])
  BY DEF Carriers, Answerers, Movers, Lists
<1>3. o \notin sent => Unsent(o)
  BY <1>1 DEF Placed, Unsent, Settled, Armed, Carried, Answered, Out, Waiting, Lies
<1>4. o \in settled => Settled(o)
  BY <1>1 DEF Placed, Unsent, Settled, Armed, Carried, Answered, Out, Waiting, Lies
<1>5. o = erko => Armed(o)
  BY <1>1 DEF Placed, Unsent, Settled, Armed, Carried, Answered, Out, Waiting, Lies
<1>6. ASSUME NEW t \in Threads, t \in Carriers(o)
      PROVE  Carried(o, t)
  BY <1>1, <1>6 DEF Placed, Unsent, Settled, Armed, Carried, Answered, Out, Waiting, Lies
<1>7. ASSUME NEW t \in Threads, t \in Answerers(o)
      PROVE  Answered(o, t)
  BY <1>1, <1>7 DEF Placed, Unsent, Settled, Armed, Carried, Answered, Out, Waiting, Lies
<1>8. ASSUME NEW t \in Threads, t \in Movers(o)
      PROVE  Out(o, t)
  BY <1>1, <1>8 DEF Placed, Unsent, Settled, Armed, Carried, Answered, Out, Waiting, Lies
<1>9. ASSUME NEW q \in Queues, q \in Lists(o)
      PROVE  Waiting(o, q)
  BY <1>1, <1>9 DEF Placed, Unsent, Settled, Armed, Carried, Answered, Out, Waiting, Lies
<1> QED BY <1>2, <1>3, <1>4, <1>5, <1>6, <1>7, <1>8, <1>9

\* Nothing changes for an op.
Stays(o) ==
  /\ o \in sent' <=> o \in sent
  /\ o \in settled' <=> o \in settled
  /\ o = erko' <=> o = erko
  /\ Carriers(o)' = Carriers(o)
  /\ Answerers(o)' = Answerers(o)
  /\ Movers(o)' = Movers(o)
  /\ Lists(o)' = Lists(o)

\* An op for which nothing changes is where it was.
LEMMA StaysPlaced ==
  ASSUME NEW o, Placed(o), Stays(o)
  PROVE  Placed(o)'
BY DEF Stays, Placed, Unsent, Settled, Armed, Carried, Answered, Out, Waiting, Lies

\* A list takes the place of another.
LEMMA ListEdited ==
  ASSUME NEW D, NEW f, NEW g, NEW d \in D, NEW s, NEW o,
         DOMAIN f = D, g = [f EXCEPT ![d] = s]
  PROVE  {x \in D : o \in Range(g[x])}
           = IF o \in Range(s) THEN {x \in D : o \in Range(f[x])} \cup {d}
                               ELSE {x \in D : o \in Range(f[x])} \ {d}
<1>1. g[d] = s /\ \A x \in D : x # d => g[x] = f[x]
  OBVIOUS
<1> QED BY <1>1

\* One edit of what a thread carries, has moved out, or has to answer, or of
\* the list of a queue.
LEMMA CarryEdited ==
  ASSUME NEW t \in Threads, NEW c, NEW o, DOMAIN carry = Threads,
         carry' = [carry EXCEPT ![t] = c]
  PROVE  Carriers(o)' = IF c = o THEN Carriers(o) \cup {t} ELSE Carriers(o) \ {t}
BY DEF Carriers

LEMMA AnswerEdited ==
  ASSUME NEW t \in Threads, NEW A, NEW o, DOMAIN answering = Threads,
         answering' = [answering EXCEPT ![t] = A]
  PROVE  Answerers(o)' = IF o \in A THEN Answerers(o) \cup {t} ELSE Answerers(o) \ {t}
BY DEF Answerers

LEMMA LocalEdited ==
  ASSUME NEW t \in Threads, NEW s, NEW o, DOMAIN local = Threads,
         local' = [local EXCEPT ![t] = s]
  PROVE  Movers(o)' = IF o \in Range(s) THEN Movers(o) \cup {t} ELSE Movers(o) \ {t}
<1> DEFINE g == local'
<1>1. g = [local EXCEPT ![t] = s]
  OBVIOUS
<1> HIDE DEF g
<1>2. {x \in Threads : o \in Range(g[x])}
        = IF o \in Range(s) THEN {x \in Threads : o \in Range(local[x])} \cup {t}
                            ELSE {x \in Threads : o \in Range(local[x])} \ {t}
  BY <1>1, ListEdited
<1> QED BY <1>2 DEF Movers, g

LEMMA OpsEdited ==
  ASSUME NEW q \in Queues, NEW s, NEW o, DOMAIN ops = Queues,
         ops' = [ops EXCEPT ![q] = s]
  PROVE  Lists(o)' = IF o \in Range(s) THEN Lists(o) \cup {q} ELSE Lists(o) \ {q}
<1> DEFINE g == ops'
<1>1. g = [ops EXCEPT ![q] = s]
  OBVIOUS
<1> HIDE DEF g
<1>2. {x \in Queues : o \in Range(g[x])}
        = IF o \in Range(s) THEN {x \in Queues : o \in Range(ops[x])} \cup {q}
                            ELSE {x \in Queues : o \in Range(ops[x])} \ {q}
  BY <1>1, ListEdited
<1> QED BY <1>2 DEF Lists, g

\* The types the following proofs need.
LEMMA OpTypes ==
  ASSUME IInv, OpInv
  PROVE  /\ DOMAIN carry = Threads /\ DOMAIN answering = Threads
         /\ DOMAIN local = Threads /\ DOMAIN ops = Queues
         /\ DOMAIN pc = Threads /\ DOMAIN at = Threads
         /\ answering \in [Threads -> SUBSET Ops]
         /\ erko \in Ops \cup {NoOp} /\ NoOp \notin Ops
         /\ \A t \in Threads : local[t] \in Seq(Ops) /\ Range(local[t]) \subseteq Ops
         /\ \A q \in Queues : ops[q] \in Seq(Ops) /\ Range(ops[q]) \subseteq Ops
<1>1. /\ carry \in [Threads -> Ops \cup {NoOp}]
      /\ answering \in [Threads -> SUBSET Ops]
      /\ pc \in [Threads -> Places]
      /\ at \in [Threads -> Queues \cup {NoQueue}]
      /\ erko \in Ops \cup {NoOp}
  BY DEF IInv, TypeOK, QTypeOK
<1>2. local \in [Threads -> Seq(Ops)] /\ ops \in [Queues -> Seq(Ops)]
  BY DEF OpInv, ListInv
<1>3. \A s \in Seq(Ops) : Range(s) \subseteq Ops
  BY InRange
<1> QED BY <1>1, <1>2, <1>3, NullAssumption

\* A thread that is not on its way to a queue carries nothing, one that does not
\* serve or destroy has moved nothing out.
LEMMA FreeHands ==
  ASSUME OpInv, NEW t \in Threads
  PROVE  /\ pc[t] # "enq" => carry[t] \notin Ops
         /\ pc[t] \notin {"serve", "destroy"} => local[t] = <<>>
BY DEF OpInv, HandsInv

-----------------------------------------------------------------------------
(* How each action moves ops from place to place.                          *)

\* Nothing moves.
LEMMA NoneMoves ==
  ASSUME PlaceInv, UNCHANGED <<sent, settled, erko, carry, answering, local, ops>>
  PROVE  PlaceInv'
<1>1. ASSUME NEW x \in Ops PROVE Placed(x)'
  <2>1. Stays(x)
    BY DEF Stays, Carriers, Answerers, Movers, Lists
  <2> QED BY <2>1, StaysPlaced DEF PlaceInv
<1> QED BY <1>1 DEF PlaceInv

\* Thread t takes up op o, which is not sent, to be answered, or on the eonce.
LEMMA TakesUp ==
  ASSUME IInv, OpInv, NEW t \in Threads, NEW o \in Ops, pc[t] = "idle",
         carry' = [carry EXCEPT ![t] = o],
         UNCHANGED <<settled, local, ops>>,
         \/ o \notin sent /\ sent' = sent \cup {o} /\ UNCHANGED <<erko, answering>>
         \/ /\ o \in answering[t]
            /\ answering' = [answering EXCEPT ![t] = @ \ {o}]
            /\ UNCHANGED <<sent, erko>>
         \/ o = erko /\ erko' = NoOp /\ UNCHANGED <<sent, answering>>
  PROVE  PlaceInv'
<1>1. /\ DOMAIN carry = Threads /\ DOMAIN answering = Threads
      /\ NoOp \notin Ops /\ carry[t] \notin Ops /\ PlaceInv
  BY OpTypes, FreeHands DEF OpInv
<1>2. \A x : Carriers(x)' = IF o = x THEN Carriers(x) \cup {t} ELSE Carriers(x) \ {t}
  BY <1>1, CarryEdited
<1>3. \A x : Movers(x)' = Movers(x) /\ Lists(x)' = Lists(x)
  BY DEF Movers, Lists
<1>4. \A x \in Ops : t \notin Carriers(x)
  BY <1>1 DEF Carriers
<1>5. CASE o \notin sent /\ sent' = sent \cup {o} /\ UNCHANGED <<erko, answering>>
  <2>1. \A x : Answerers(x)' = Answerers(x)
    BY <1>5 DEF Answerers
  <2>2. Unsent(o)
    BY <1>1, <1>5, Found
  <2>3. Carried(o, t)'
    BY <1>2, <1>3, <1>5, <2>1, <2>2 DEF Unsent, Carried, Lies
  <2>4. ASSUME NEW x \in Ops, x # o PROVE Stays(x)
    BY <1>2, <1>3, <1>4, <1>5, <2>1, <2>4 DEF Stays
  <2> QED BY <1>1, <2>3, <2>4, StaysPlaced DEF PlaceInv, Placed
<1>6. CASE /\ o \in answering[t]
           /\ answering' = [answering EXCEPT ![t] = @ \ {o}]
           /\ UNCHANGED <<sent, erko>>
  <2>1. \A x : Answerers(x)' = IF x \in answering[t] \ {o} THEN Answerers(x) \cup {t}
                                                           ELSE Answerers(x) \ {t}
    BY <1>1, <1>6, AnswerEdited
  <2>2. Answered(o, t)
    BY <1>1, <1>6, Found
  <2>3. Carried(o, t)'
    BY <1>2, <1>3, <1>6, <2>1, <2>2 DEF Answered, Carried, Lies
  <2>4. ASSUME NEW x \in Ops, x # o PROVE Stays(x)
    <3>1. t \in Answerers(x) <=> x \in answering[t]
      BY DEF Answerers
    <3> QED BY <1>2, <1>3, <1>4, <1>6, <2>1, <2>4, <3>1 DEF Stays
  <2> QED BY <1>1, <2>3, <2>4, StaysPlaced DEF PlaceInv, Placed
<1>7. CASE o = erko /\ erko' = NoOp /\ UNCHANGED <<sent, answering>>
  <2>1. \A x : Answerers(x)' = Answerers(x)
    BY <1>7 DEF Answerers
  <2>2. Armed(o)
    BY <1>1, <1>7, Found
  <2>3. Carried(o, t)'
    BY <1>1, <1>2, <1>3, <1>7, <2>1, <2>2 DEF Armed, Carried, Lies
  <2>4. ASSUME NEW x \in Ops, x # o PROVE Stays(x)
    BY <1>1, <1>2, <1>3, <1>4, <1>7, <2>1, <2>4 DEF Stays
  <2> QED BY <1>1, <2>3, <2>4, StaysPlaced DEF PlaceInv, Placed
<1> QED BY <1>5, <1>6, <1>7

\* Thread t puts what it carries into a list, or it is settled.
LEMMA PutsDown ==
  ASSUME IInv, OpInv, NEW t \in Threads, NEW o \in Ops, carry[t] = o,
         carry' = [carry EXCEPT ![t] = NoOp],
         UNCHANGED <<sent, erko, answering, local>>,
         \/ settled' = settled \cup {o} /\ UNCHANGED ops
         \/ /\ UNCHANGED settled
            /\ \E q \in Queues : ops' = [ops EXCEPT ![q] = Enq0(@, o)]
  PROVE  PlaceInv'
<1>1. /\ DOMAIN carry = Threads /\ DOMAIN ops = Queues
      /\ NoOp \notin Ops /\ PlaceInv /\ \A q \in Queues : ops[q] \in Seq(Ops)
  BY OpTypes DEF OpInv
<1>2. \A x : Carriers(x)' = IF NoOp = x THEN Carriers(x) \cup {t} ELSE Carriers(x) \ {t}
  BY <1>1, CarryEdited
<1>3. \A x : Movers(x)' = Movers(x) /\ Answerers(x)' = Answerers(x)
  BY DEF Movers, Answerers
<1>4. Carried(o, t)
  BY <1>1, Found
<1>5. \A x \in Ops : x # o => (Carriers(x)' = Carriers(x))
  <2>1. ASSUME NEW x \in Ops, x # o PROVE Carriers(x)' = Carriers(x)
    <3>1. t \notin Carriers(x)
      BY <2>1 DEF Carriers
    <3>2. NoOp # x
      BY <1>1
    <3> QED BY <1>2, <3>1, <3>2
  <2> QED BY <2>1
<1>6. CASE settled' = settled \cup {o} /\ UNCHANGED ops
  <2>1. \A x : Lists(x)' = Lists(x)
    BY <1>6 DEF Lists
  <2>2. Settled(o)'
    BY <1>1, <1>2, <1>3, <1>4, <1>6, <2>1 DEF Settled, Carried, Lies
  <2>3. ASSUME NEW x \in Ops, x # o PROVE Stays(x)
    BY <1>1, <1>2, <1>3, <1>5, <1>6, <2>1, <2>3 DEF Stays
  <2> QED BY <1>1, <2>2, <2>3, StaysPlaced DEF PlaceInv, Placed
<1>7. ASSUME UNCHANGED settled, NEW q \in Queues, ops' = [ops EXCEPT ![q] = Enq0(@, o)]
      PROVE  PlaceInv'
  <2> DEFINE s == Enq0(ops[q], o)
  <2>1. Range(s) = Range(ops[q]) \cup {o}
    BY <1>1, Enq0Adds DEF Adds
  <2>2. ops' = [ops EXCEPT ![q] = s]
    BY <1>7
  <2> HIDE DEF s
  <2>3. \A x : Lists(x)' = IF x \in Range(s) THEN Lists(x) \cup {q} ELSE Lists(x) \ {q}
    BY <1>1, <2>2, OpsEdited
  <2>4. Waiting(o, q)'
    BY <1>1, <1>2, <1>3, <1>4, <1>7, <2>1, <2>3 DEF Waiting, Carried, Lies
  <2>5. ASSUME NEW x \in Ops, x # o PROVE Stays(x)
    <3>1. q \in Lists(x) <=> x \in Range(ops[q])
      BY DEF Lists
    <3>2. Lists(x)' = Lists(x)
      BY <2>1, <2>3, <2>5, <3>1
    <3> QED BY <1>1, <1>2, <1>3, <1>5, <1>7, <2>5, <3>2 DEF Stays
  <2> QED BY <1>1, <2>4, <2>5, StaysPlaced DEF PlaceInv, Placed
<1> QED BY <1>6, <1>7

\* All that wait in a queue are moved out by a thread that has nothing yet.
LEMMA MovesOut ==
  ASSUME IInv, OpInv, NEW t \in Threads, NEW q \in Queues, local[t] = <<>>,
         local' = [local EXCEPT ![t] = ops[q]], ops' = [ops EXCEPT ![q] = <<>>],
         UNCHANGED <<sent, settled, erko, carry, answering>>
  PROVE  PlaceInv'
<1>1. DOMAIN local = Threads /\ DOMAIN ops = Queues /\ PlaceInv /\ Range(<<>>) = {}
  BY OpTypes, EmptyList DEF OpInv
<1>2. \A x : Movers(x)' = IF x \in Range(ops[q]) THEN Movers(x) \cup {t} ELSE Movers(x) \ {t}
  BY <1>1, LocalEdited
<1>3. \A x : Lists(x)' = Lists(x) \ {q}
  <2>1. \A x : Lists(x)' = IF x \in Range(<<>>) THEN Lists(x) \cup {q} ELSE Lists(x) \ {q}
    BY <1>1, OpsEdited
  <2> QED BY <1>1, <2>1
<1>4. \A x : Carriers(x)' = Carriers(x) /\ Answerers(x)' = Answerers(x)
  BY DEF Carriers, Answerers
<1>5. ASSUME NEW x \in Ops, x \in Range(ops[q]) PROVE Placed(x)'
  <2>1. Waiting(x, q)
    BY <1>1, <1>5, Found
  <2>2. Out(x, t)'
    BY <1>2, <1>3, <1>4, <1>5, <2>1 DEF Waiting, Out, Lies
  <2> QED BY <2>2 DEF Placed
<1>6. ASSUME NEW x \in Ops, x \notin Range(ops[q]) PROVE Placed(x)'
  <2>1. t \notin Movers(x) /\ q \notin Lists(x)
    BY <1>1, <1>6 DEF Movers, Lists
  <2>2. Stays(x)
    BY <1>2, <1>3, <1>4, <1>6, <2>1 DEF Stays
  <2> QED BY <1>1, <2>2, StaysPlaced DEF PlaceInv
<1> QED BY <1>5, <1>6 DEF PlaceInv

\* Thread t takes the first op out of its list: it is settled, to be answered,
\* or set up on the eonce again.
LEMMA HandlesOne ==
  ASSUME IInv, OpInv, NEW t \in Threads, NEW o \in Ops, local[t] # <<>>, o = Head(local[t]),
         local' = [local EXCEPT ![t] = Tail(@)],
         UNCHANGED <<sent, carry, ops>>,
         \/ settled' = settled \cup {o} /\ UNCHANGED <<erko, answering>>
         \/ /\ answering' = [answering EXCEPT ![t] = @ \cup {o}]
            /\ UNCHANGED <<settled, erko>>
         \/ erko = NoOp /\ erko' = o /\ UNCHANGED <<settled, answering>>
  PROVE  PlaceInv'
<1> DEFINE s == Tail(local[t])
<1>1. /\ DOMAIN local = Threads /\ DOMAIN answering = Threads
      /\ NoOp \notin Ops /\ PlaceInv /\ local[t] \in Seq(Ops) /\ Distinct(local[t])
  BY OpTypes DEF OpInv, ListInv
<1>2. Range(local[t]) = Range(s) \cup {o} /\ o \notin Range(s)
  BY <1>1, Shortened
<1>3. \A x : Movers(x)' = IF x \in Range(s) THEN Movers(x) \cup {t} ELSE Movers(x) \ {t}
  <2>1. local' = [local EXCEPT ![t] = s]
    OBVIOUS
  <2> HIDE DEF s
  <2> QED BY <1>1, <2>1, LocalEdited
<1> HIDE DEF s
<1>4. \A x : Carriers(x)' = Carriers(x) /\ Lists(x)' = Lists(x)
  BY DEF Carriers, Lists
<1>5. Out(o, t)
  BY <1>1, <1>2, Found
<1>6. \A x : x # o => (Movers(x)' = Movers(x))
  <2>1. \A x : t \in Movers(x) <=> x \in Range(local[t])
    BY DEF Movers
  <2> QED BY <1>2, <1>3, <2>1
<1>7. CASE settled' = settled \cup {o} /\ UNCHANGED <<erko, answering>>
  <2>1. \A x : Answerers(x)' = Answerers(x)
    BY <1>7 DEF Answerers
  <2>2. Settled(o)'
    BY <1>2, <1>3, <1>4, <1>5, <1>7, <2>1 DEF Settled, Out, Lies
  <2>3. ASSUME NEW x \in Ops, x # o PROVE Stays(x)
    BY <1>4, <1>6, <1>7, <2>1, <2>3 DEF Stays
  <2> QED BY <1>1, <2>2, <2>3, StaysPlaced DEF PlaceInv, Placed
<1>8. CASE /\ answering' = [answering EXCEPT ![t] = @ \cup {o}]
           /\ UNCHANGED <<settled, erko>>
  <2>1. \A x : Answerers(x)' = IF x \in answering[t] \cup {o} THEN Answerers(x) \cup {t}
                                                             ELSE Answerers(x) \ {t}
    BY <1>1, <1>8, AnswerEdited
  <2>2. Answered(o, t)'
    BY <1>2, <1>3, <1>4, <1>5, <1>8, <2>1 DEF Answered, Out, Lies
  <2>3. ASSUME NEW x \in Ops, x # o PROVE Stays(x)
    <3>1. t \in Answerers(x) <=> x \in answering[t]
      BY DEF Answerers
    <3> QED BY <1>4, <1>6, <1>8, <2>1, <2>3, <3>1 DEF Stays
  <2> QED BY <1>1, <2>2, <2>3, StaysPlaced DEF PlaceInv, Placed
<1>9. CASE erko = NoOp /\ erko' = o /\ UNCHANGED <<settled, answering>>
  <2>1. \A x : Answerers(x)' = Answerers(x)
    BY <1>9 DEF Answerers
  <2>2. Armed(o)'
    BY <1>2, <1>3, <1>4, <1>5, <1>9, <2>1 DEF Armed, Out, Lies
  <2>3. ASSUME NEW x \in Ops, x # o PROVE Stays(x)
    BY <1>1, <1>4, <1>6, <1>9, <2>1, <2>3 DEF Stays
  <2> QED BY <1>1, <2>2, <2>3, StaysPlaced DEF PlaceInv, Placed
<1> QED BY <1>7, <1>8, <1>9

\* The first op that waits in a queue is settled.
LEMMA SettlesOne ==
  ASSUME IInv, OpInv, NEW q \in Queues, NEW o \in Ops, ops[q] # <<>>, o = Head(ops[q]),
         ops' = [ops EXCEPT ![q] = Tail(@)], settled' = settled \cup {o},
         UNCHANGED <<sent, erko, carry, answering, local>>
  PROVE  PlaceInv'
<1> DEFINE s == Tail(ops[q])
<1>1. /\ DOMAIN ops = Queues /\ PlaceInv /\ ops[q] \in Seq(Ops) /\ Distinct(ops[q])
  BY OpTypes DEF OpInv, ListInv
<1>2. Range(ops[q]) = Range(s) \cup {o} /\ o \notin Range(s)
  BY <1>1, Shortened
<1>3. \A x : Lists(x)' = IF x \in Range(s) THEN Lists(x) \cup {q} ELSE Lists(x) \ {q}
  <2>1. ops' = [ops EXCEPT ![q] = s]
    OBVIOUS
  <2> HIDE DEF s
  <2> QED BY <1>1, <2>1, OpsEdited
<1> HIDE DEF s
<1>4. \A x : Carriers(x)' = Carriers(x) /\ Answerers(x)' = Answerers(x) /\ Movers(x)' = Movers(x)
  BY DEF Carriers, Answerers, Movers
<1>5. Waiting(o, q)
  BY <1>1, <1>2, Found
<1>6. Settled(o)'
  BY <1>2, <1>3, <1>4, <1>5 DEF Settled, Waiting, Lies
<1>7. ASSUME NEW x \in Ops, x # o PROVE Stays(x)
  <2>1. q \in Lists(x) <=> x \in Range(ops[q])
    BY DEF Lists
  <2> QED BY <1>2, <1>3, <1>4, <1>7, <2>1 DEF Stays
<1> QED BY <1>1, <1>6, <1>7, StaysPlaced DEF PlaceInv, Placed

\* Thread t handles the first op of its list, and puts the others into a queue.
LEMMA PutsBack ==
  ASSUME IInv, OpInv, NEW t \in Threads, NEW o \in Ops, NEW q \in Queues,
         local[t] # <<>>, o = Head(local[t]),
         local' = [local EXCEPT ![t] = <<>>],
         ops' = [ops EXCEPT ![q] = PutBack(@, Tail(local[t]))],
         UNCHANGED <<sent, carry, erko>>,
         \/ settled' = settled \cup {o} /\ UNCHANGED answering
         \/ answering' = [answering EXCEPT ![t] = @ \cup {o}] /\ UNCHANGED settled
  PROVE  PlaceInv'
<1> DEFINE s == Tail(local[t])
           u == PutBack(ops[q], s)
<1>1. /\ DOMAIN local = Threads /\ DOMAIN answering = Threads /\ DOMAIN ops = Queues
      /\ PlaceInv /\ local[t] \in Seq(Ops) /\ Distinct(local[t]) /\ ops[q] \in Seq(Ops)
      /\ Range(<<>>) = {}
  BY OpTypes, EmptyList DEF OpInv, ListInv
<1>2. Range(local[t]) = Range(s) \cup {o} /\ o \notin Range(s) /\ s \in Seq(Ops)
  BY <1>1, Shortened
<1>3. Range(u) = Range(s) \cup Range(ops[q])
  BY <1>1, <1>2, Joined DEF PutBack
<1>4. ops' = [ops EXCEPT ![q] = u]
  OBVIOUS
<1> HIDE DEF s, u
<1>5. \A x : Lists(x)' = IF x \in Range(u) THEN Lists(x) \cup {q} ELSE Lists(x) \ {q}
  BY <1>1, <1>4, OpsEdited
<1>6. \A x : Movers(x)' = Movers(x) \ {t}
  <2>1. \A x : Movers(x)' = IF x \in Range(<<>>) THEN Movers(x) \cup {t} ELSE Movers(x) \ {t}
    BY <1>1, LocalEdited
  <2> QED BY <1>1, <2>1
<1>7. \A x : Carriers(x)' = Carriers(x)
  BY DEF Carriers
<1>8. Out(o, t)
  BY <1>1, <1>2, Found
<1>9. (\A x : t \in Movers(x) <=> x \in Range(local[t]))
      /\ (\A x : q \in Lists(x) <=> x \in Range(ops[q]))
  <2>1. ASSUME NEW x PROVE t \in Movers(x) <=> x \in Range(local[t])
    BY DEF Movers
  <2>2. ASSUME NEW x PROVE q \in Lists(x) <=> x \in Range(ops[q])
    BY DEF Lists
  <2> QED BY <2>1, <2>2
<1>10. ASSUME NEW x \in Ops, x # o, x \in Range(s), Answerers(x)' = Answerers(x),
              x \in settled' <=> x \in settled
       PROVE  Placed(x)'
  <2>1. Out(x, t)
    BY <1>1, <1>2, <1>10, Found
  <2>2. Waiting(x, q)'
    BY <1>3, <1>5, <1>6, <1>7, <1>10, <2>1 DEF Out, Waiting, Lies
  <2> QED BY <2>2 DEF Placed
<1>11. ASSUME NEW x \in Ops, x # o, x \notin Range(s), Answerers(x)' = Answerers(x),
              x \in settled' <=> x \in settled
       PROVE  Placed(x)'
  <2>0. x \notin Range(local[t]) /\ (x \in Range(u) <=> x \in Range(ops[q]))
    BY <1>2, <1>3, <1>11
  <2>1. Movers(x)' = Movers(x) /\ Lists(x)' = Lists(x)
    BY <1>5, <1>6, <1>9, <2>0
  <2>2. Stays(x)
    BY <1>7, <1>11, <2>1 DEF Stays
  <2> QED BY <1>1, <2>2, StaysPlaced DEF PlaceInv
<1>12. Lists(o)' = {} /\ Movers(o)' = {} /\ Carriers(o)' = {}
  BY <1>2, <1>3, <1>5, <1>6, <1>7, <1>8, <1>9 DEF Out, Lies
<1>13. CASE settled' = settled \cup {o} /\ UNCHANGED answering
  <2>1. \A x : Answerers(x)' = Answerers(x)
    BY <1>13 DEF Answerers
  <2>2. Settled(o)'
    BY <1>8, <1>12, <1>13, <2>1 DEF Settled, Out, Lies
  <2>3. \A x \in Ops : x # o => (x \in settled' <=> x \in settled)
    BY <1>13
  <2> QED BY <1>10, <1>11, <2>1, <2>2, <2>3 DEF PlaceInv, Placed
<1>14. CASE answering' = [answering EXCEPT ![t] = @ \cup {o}] /\ UNCHANGED settled
  <2>1. \A x : Answerers(x)' = IF x \in answering[t] \cup {o} THEN Answerers(x) \cup {t}
                                                             ELSE Answerers(x) \ {t}
    <3> DEFINE A == answering[t] \cup {o}
    <3>1. answering' = [answering EXCEPT ![t] = A]
      BY <1>14
    <3> HIDE DEF A
    <3>2. \A x : Answerers(x)' = IF x \in A THEN Answerers(x) \cup {t} ELSE Answerers(x) \ {t}
      BY <1>1, <3>1, AnswerEdited
    <3> QED BY <3>2 DEF A
  <2>2. Answered(o, t)'
    BY <1>8, <1>12, <1>14, <2>1 DEF Answered, Out, Lies
  <2>3. ASSUME NEW x \in Ops, x # o PROVE Answerers(x)' = Answerers(x)
    <3>1. t \in Answerers(x) <=> x \in answering[t]
      BY DEF Answerers
    <3> QED BY <2>1, <2>3, <3>1
  <2> QED BY <1>10, <1>11, <1>14, <2>2, <2>3 DEF PlaceInv, Placed
<1> QED BY <1>13, <1>14

\* All that wait in a queue are concatenated to another one.
LEMMA Concatenates ==
  ASSUME IInv, OpInv, NEW q \in Queues, NEW e \in Queues, e # q,
         ops' = [ops EXCEPT ![e] = Concat(@, ops[q]), ![q] = <<>>],
         UNCHANGED <<sent, settled, erko, carry, answering, local>>
  PROVE  PlaceInv'
<1>1. /\ DOMAIN ops = Queues /\ PlaceInv
      /\ ops[q] \in Seq(Ops) /\ ops[e] \in Seq(Ops) /\ Range(<<>>) = {}
  BY OpTypes, EmptyList DEF OpInv
<1>2. Range(Concat(ops[e], ops[q])) = Range(ops[e]) \cup Range(ops[q])
  BY <1>1, ConcatMerges DEF Merges
<1>3. /\ ops'[e] = Concat(ops[e], ops[q]) /\ ops'[q] = <<>>
      /\ \A p \in Queues : p # e /\ p # q => ops'[p] = ops[p]
  BY <1>1
<1>4. \A x : Lists(x)' = IF x \in Range(ops[q]) THEN (Lists(x) \cup {e}) \ {q} ELSE Lists(x)
  BY <1>1, <1>2, <1>3 DEF Lists
<1>5. \A x : Carriers(x)' = Carriers(x) /\ Answerers(x)' = Answerers(x) /\ Movers(x)' = Movers(x)
  BY DEF Carriers, Answerers, Movers
<1>6. ASSUME NEW x \in Ops, x \in Range(ops[q]) PROVE Placed(x)'
  <2>1. Waiting(x, q)
    BY <1>1, <1>6, Found
  <2>2. Waiting(x, e)'
    BY <1>4, <1>5, <1>6, <2>1 DEF Waiting, Lies
  <2> QED BY <2>2 DEF Placed
<1>7. ASSUME NEW x \in Ops, x \notin Range(ops[q]) PROVE Placed(x)'
  <2>1. Stays(x)
    BY <1>4, <1>5, <1>7 DEF Stays
  <2> QED BY <1>1, <2>1, StaysPlaced DEF PlaceInv
<1> QED BY <1>6, <1>7 DEF PlaceInv

\* An op that is not sent is put on the eonce, which has none.
LEMMA SetsUp ==
  ASSUME IInv, OpInv, NEW o \in Ops, o \notin sent, erko = NoOp,
         sent' = sent \cup {o}, erko' = o,
         UNCHANGED <<settled, carry, answering, local, ops>>
  PROVE  PlaceInv'
<1>1. PlaceInv /\ NoOp \notin Ops
  BY OpTypes DEF OpInv
<1>2. \A x : /\ Carriers(x)' = Carriers(x) /\ Answerers(x)' = Answerers(x)
             /\ Movers(x)' = Movers(x) /\ Lists(x)' = Lists(x)
  BY DEF Carriers, Answerers, Movers, Lists
<1>3. Unsent(o)
  BY <1>1, Found
<1>4. Armed(o)'
  BY <1>2, <1>3 DEF Armed, Unsent, Lies
<1>5. ASSUME NEW x \in Ops, x # o PROVE Stays(x)
  BY <1>1, <1>2, <1>5 DEF Stays
<1> QED BY <1>1, <1>4, <1>5, StaysPlaced DEF PlaceInv, Placed

\* The owner takes what is on the eonce, and it is settled.
LEMMA TakesBack ==
  ASSUME IInv, OpInv, settled' = settled \cup ({erko} \ {NoOp}), erko' = NoOp,
         UNCHANGED <<sent, carry, answering, local, ops>>
  PROVE  PlaceInv'
<1>1. PlaceInv /\ NoOp \notin Ops
  BY OpTypes DEF OpInv
<1>2. \A x : /\ Carriers(x)' = Carriers(x) /\ Answerers(x)' = Answerers(x)
             /\ Movers(x)' = Movers(x) /\ Lists(x)' = Lists(x)
  BY DEF Carriers, Answerers, Movers, Lists
<1>3. ASSUME NEW x \in Ops, x = erko PROVE Placed(x)'
  <2>1. Armed(x)
    BY <1>1, <1>3, Found
  <2>2. Settled(x)'
    BY <1>1, <1>2, <1>3, <2>1 DEF Armed, Settled, Lies
  <2> QED BY <2>2 DEF Placed
<1>4. ASSUME NEW x \in Ops, x # erko PROVE Placed(x)'
  <2>1. Stays(x)
    BY <1>1, <1>2, <1>4 DEF Stays
  <2> QED BY <1>1, <2>1, StaysPlaced DEF PlaceInv
<1> QED BY <1>3, <1>4 DEF PlaceInv

-----------------------------------------------------------------------------
(* What the actions do to ops and lists.                                   *)

\* The actions that move ops from place to place, but for those of the eonce.
LEMMA QFrame ==
  ASSUME Q(QNext)
  PROVE  \/ UNCHANGED <<sent, settled, erko, carry, answering, local, ops, qlen>>
         \/ \E t \in Threads :
              \/ EnqHere(t) \/ EnqRefused(t) \/ Take(t) \/ Serve(t) \/ ServeYield(t)
              \/ Purge(t) \/ DestroyNext(t)
         \/ \E t \in Threads, o \in Ops : Reply(t, o)
         \/ \E t \in Threads, q \in Queues, o \in Ops, r \in Queues \cup {NoQueue} :
              Send(t, q, o, r)
         \/ \E t \in Threads, q \in Queues, d \in Queues : Forward(t, q, d)
         \/ \E q \in Queues : Final(q)
<1> DEFINE Same == UNCHANGED <<sent, settled, erko, carry, answering, local, ops, qlen>>
<1>1. UNCHANGED erko /\ QNext
  BY DEF Q, eVars
<1>2. ASSUME NEW t \in Threads,
             \/ Return(t) \/ Follow(t) \/ NudgeHere(t) \/ Wait(t) \/ Yielded(t)
             \/ Served(t) \/ Purged(t) \/ Timeout(t)
      PROVE  Same
  BY <1>1, <1>2 DEF Return, Follow, NudgeHere, Wait, Yielded, Served, Purged, Timeout,
                    queueVars, opVars
<1>3. ASSUME NEW t \in Threads, NEW q \in Queues,
             Nudge(t, q) \/ Poll(t, q) \/ Unforward(t, q) \/ DestroyOwner(t, q)
      PROVE  Same
  BY <1>1, <1>3 DEF Nudge, Poll, Unforward, DestroyOwner, queueVars, opVars, threadVars
<1> HIDE DEF Same
<1> QED BY <1>1, <1>2, <1>3 DEF QNext, CallStep, OwnerStep, Same

\* The queue a forward leads to in the end is not the one that is forwarded.
LEMMA ForwardedElsewhere ==
  ASSUME NEW t \in Threads, NEW q \in Queues, NEW d \in Queues, NEW e \in Queues,
         Forward(t, q, d), EndOf(d, e)
  PROVE  e # q
<1>1. PICK S \in SUBSET Queues : Closed(S) /\ d \in S /\ q \notin S
  BY DEF Forward
<1>2. e \in S
  BY <1>1 DEF EndOf
<1> QED BY <1>1, <1>2

\* The queue of a thread that is at a lock.
LEMMA AtQueue ==
  ASSUME IInv, NEW t \in Threads, pc[t] \in Locking
  PROVE  at[t] \in Queues
BY DEF IInv, CallInv

\* Every step leaves every op in one place.
LEMMA PlacePreserved ==
  ASSUME IInv, OpInv, Next
  PROVE  PlaceInv'
<1>1. PlaceInv /\ NoOp \notin Ops
  BY OpTypes DEF OpInv
<1>2. ASSUME NEW t \in Threads, EnqHere(t), UNCHANGED eVars
      PROVE  PlaceInv'
  <2>1. carry[t] \in Ops /\ at[t] \in Queues
    BY <1>2, AtQueue DEF EnqHere, OpInv, HandsInv, Locking
  <2>2. PICK o \in Ops : carry[t] = o
    BY <2>1
  <2>3. ops' = [ops EXCEPT ![at[t]] = Enq0(@, o)]
    BY <1>2, <2>2 DEF EnqHere
  <2>4. UNCHANGED <<sent, erko, answering, local, settled>> /\ carry' = [carry EXCEPT ![t] = NoOp]
    BY <1>2 DEF EnqHere, opVars, eVars
  <2> QED BY <2>1, <2>2, <2>3, <2>4, PutsDown
<1>3. ASSUME NEW t \in Threads, EnqRefused(t), UNCHANGED eVars
      PROVE  PlaceInv'
  <2>1. UNCHANGED <<sent, erko, answering, local, ops>>
    BY <1>3 DEF EnqRefused, queueVars, eVars
  <2>2. PICK o \in Ops :
          /\ o = carry[t]
          /\ \/ settled' = settled \cup {o} /\ carry' = [carry EXCEPT ![t] = NoOp]
             \/ UNCHANGED <<settled, carry>>
    BY <1>3 DEF EnqRefused
  <2>3. CASE UNCHANGED <<settled, carry>>
    BY <1>1, <2>1, <2>3, NoneMoves
  <2>4. CASE settled' = settled \cup {o} /\ carry' = [carry EXCEPT ![t] = NoOp]
    BY <2>1, <2>2, <2>4, PutsDown
  <2> QED BY <2>2, <2>3, <2>4
<1>4. ASSUME NEW t \in Threads, Take(t) \/ Purge(t), UNCHANGED eVars
      PROVE  PlaceInv'
  <2>1. at[t] \in Queues /\ local[t] = <<>>
    BY <1>4, AtQueue, FreeHands DEF Take, Purge, Looking, Locking
  <2>2. /\ local' = [local EXCEPT ![t] = ops[at[t]]] /\ ops' = [ops EXCEPT ![at[t]] = <<>>]
        /\ UNCHANGED <<sent, settled, erko, carry, answering>>
    BY <1>4 DEF Take, Purge, opVars, eVars
  <2> QED BY <2>1, <2>2, MovesOut
<1>5. ASSUME NEW t \in Threads, Serve(t), UNCHANGED eVars
      PROVE  PlaceInv'
  <2>1. PICK o \in Ops : local[t] # <<>> /\ o = Head(local[t]) /\ Handle(t, o)
    BY <1>5 DEF Serve
  <2>2. local' = [local EXCEPT ![t] = Tail(@)] /\ UNCHANGED <<sent, carry, ops, erko>>
    BY <1>5 DEF Serve, queueVars, eVars
  <2>3. \/ settled' = settled \cup {o} /\ UNCHANGED answering
        \/ answering' = [answering EXCEPT ![t] = @ \cup {o}] /\ UNCHANGED settled
    BY <2>1 DEF Handle
  <2>4. \/ settled' = settled \cup {o} /\ UNCHANGED <<erko, answering>>
        \/ /\ answering' = [answering EXCEPT ![t] = @ \cup {o}]
           /\ UNCHANGED <<settled, erko>>
    BY <2>2, <2>3
  <2> QED BY <2>1, <2>2, <2>4, HandlesOne
<1>6. ASSUME NEW t \in Threads, ServeYield(t), UNCHANGED eVars
      PROVE  PlaceInv'
  <2>1. PICK o \in Ops : Len(local[t]) > 1 /\ o = Head(local[t]) /\ Handle(t, o)
    BY <1>6 DEF ServeYield
  <2>2. \/ settled' = settled \cup {o} /\ UNCHANGED answering
        \/ answering' = [answering EXCEPT ![t] = @ \cup {o}] /\ UNCHANGED settled
    BY <2>1 DEF Handle
  <2>3. PICK d \in Queues : ops' = [ops EXCEPT ![d] = PutBack(@, Tail(local[t]))]
    BY <1>6 DEF ServeYield
  <2>4. local' = [local EXCEPT ![t] = <<>>] /\ UNCHANGED <<sent, carry, erko>>
    BY <1>6 DEF ServeYield, eVars
  <2>5. local[t] # <<>>
    BY <2>1
  <2> QED BY <2>1, <2>2, <2>3, <2>4, <2>5, PutsBack
<1>7. ASSUME NEW t \in Threads, DestroyNext(t), UNCHANGED eVars
      PROVE  PlaceInv'
  <2>1. PICK o \in Ops : local[t] # <<>> /\ o = Head(local[t]) /\ DestroyOp(o)
    BY <1>7 DEF DestroyNext
  <2>2. local' = [local EXCEPT ![t] = Tail(@)] /\ UNCHANGED <<sent, carry, ops, erko, answering>>
    BY <1>7 DEF DestroyNext, eVars
  <2>3. settled' = settled \cup {o}
    BY <2>1 DEF DestroyOp
  <2> QED BY <2>1, <2>2, <2>3, HandlesOne
<1>8. ASSUME NEW t \in Threads, Disown(t)
      PROVE  PlaceInv'
  <2>1. /\ settled' = settled \cup ({erko} \ {NoOp}) /\ erko' = NoOp
        /\ UNCHANGED <<sent, carry, answering, local, ops>>
    BY <1>8 DEF Disown, threadVars
  <2> QED BY <2>1, TakesBack
<1>9. ASSUME NEW t \in Threads, NEW o \in Ops, Reply(t, o), UNCHANGED eVars
      PROVE  PlaceInv'
  <2>1. /\ pc[t] = "idle" /\ carry' = [carry EXCEPT ![t] = o]
        /\ UNCHANGED <<settled, local, ops, sent, erko>>
        /\ o \in answering[t] /\ answering' = [answering EXCEPT ![t] = @ \ {o}]
    BY <1>9 DEF Reply, SetOut, queueVars, eVars
  <2> QED BY <2>1, TakesUp
<1>10. ASSUME NEW t \in Threads, NEW q \in Queues, NEW o \in Ops,
              NEW r \in Queues \cup {NoQueue}, Send(t, q, o, r), UNCHANGED eVars
       PROVE  PlaceInv'
  <2>1. /\ pc[t] = "idle" /\ carry' = [carry EXCEPT ![t] = o]
        /\ UNCHANGED <<settled, local, ops, erko, answering>>
        /\ o \notin sent /\ sent' = sent \cup {o}
    BY <1>10 DEF Send, SetOut, eVars
  <2> QED BY <2>1, TakesUp
<1>11. ASSUME NEW t \in Threads, NEW q \in Queues, NEW d \in Queues, Forward(t, q, d),
              UNCHANGED eVars
       PROVE  PlaceInv'
  <2>1. UNCHANGED <<sent, settled, erko, carry, answering, local>>
    BY <1>11 DEF Forward, opVars, eVars
  <2>2. CASE UNCHANGED ops
    BY <1>1, <2>1, <2>2, NoneMoves
  <2>3. ASSUME NEW e \in Queues, EndOf(d, e),
               ops' = [ops EXCEPT ![e] = Concat(@, ops[q]), ![q] = <<>>]
        PROVE  PlaceInv'
    <3>1. e # q
      BY <1>11, <2>3, ForwardedElsewhere
    <3> QED BY <2>1, <2>3, <3>1, Concatenates
  <2> QED BY <1>11, <2>2, <2>3 DEF Forward
<1>12. ASSUME NEW q \in Queues, Final(q), UNCHANGED eVars
       PROVE  PlaceInv'
  <2>1. UNCHANGED <<sent, erko, carry, answering, local>>
    BY <1>12 DEF Final, opVars, threadVars, eVars
  <2>2. \/ UNCHANGED <<settled, ops>>
        \/ /\ ops' = [ops EXCEPT ![q] = Tail(@)]
           /\ \E o \in Ops : ops[q] # <<>> /\ o = Head(ops[q]) /\ settled' = settled \cup {o}
    BY <1>12 DEF Final, DestroyOp, opVars
  <2>3. CASE UNCHANGED <<settled, ops>>
    BY <1>1, <2>1, <2>3, NoneMoves
  <2>4. ASSUME ops' = [ops EXCEPT ![q] = Tail(@)],
               NEW o \in Ops, ops[q] # <<>>, o = Head(ops[q]), settled' = settled \cup {o}
        PROVE  PlaceInv'
    BY <2>1, <2>4, SettlesOne
  <2> QED BY <2>2, <2>3, <2>4
<1>13. ASSUME NEW t \in Threads, NEW s \in Sources, Trigger(t, s)
       PROVE  PlaceInv'
  <2>1. pc[t] = "idle" /\ UNCHANGED <<sent, settled, answering, ops>>
    BY <1>13 DEF Trigger, queueVars
  <2>2. CASE UNCHANGED <<erko, carry, local>>
    BY <1>1, <2>1, <2>2, NoneMoves
  <2>3. CASE /\ erko # NoOp /\ erko' = NoOp /\ UNCHANGED local
             /\ carry' = [carry EXCEPT ![t] = erko]
    <3>1. PICK o \in Ops : o = erko
      BY <2>3, OpTypes
    <3>2. carry' = [carry EXCEPT ![t] = o]
      BY <2>3, <3>1
    <3> QED BY <2>1, <2>3, <3>1, <3>2, TakesUp
  <2> QED BY <1>13, <2>2, <2>3 DEF Trigger, SetOut, threadVars
<1>14. ASSUME NEW t \in Threads, NEW o \in Ops, NEW q \in Queues, New(t, o, q)
       PROVE  PlaceInv'
  <2>1. erko = NoOp
    <3>1. EonceAsserts /\ TypeOK
      BY DEF IInv
    <3>2. erefcnt = 0 /\ erefcnt = Cardinality(sources) + IF eowned THEN 1 ELSE 0
      BY <1>14, <3>1 DEF New, EonceAsserts
    <3>3. Cardinality(sources) \in Nat
      BY <3>1, SourcesAssumption, FS_Subset, FS_CardinalityType DEF TypeOK
    <3>4. ~ eowned
      BY <3>2, <3>3
    <3> QED BY <3>1, <3>4 DEF EonceAsserts
  <2>2. /\ o \notin sent /\ sent' = sent \cup {o} /\ erko' = o
        /\ UNCHANGED <<settled, carry, answering, local, ops>>
    BY <1>14 DEF New, threadVars
  <2> QED BY <2>1, <2>2, SetsUp
<1>15. ASSUME NEW t \in Threads, NEW q \in Queues, Reenable(t, q)
       PROVE  PlaceInv'
  <2>1. PICK o \in Ops : local[t] # <<>> /\ o = Head(local[t]) /\ erko' = o
    BY <1>15 DEF Reenable
  <2>2. /\ erko = NoOp /\ local' = [local EXCEPT ![t] = Tail(@)]
        /\ UNCHANGED <<sent, carry, ops, settled, answering>>
    BY <1>15 DEF Reenable, opVars
  <2> QED BY <2>1, <2>2, HandlesOne
<1>16. CASE UNCHANGED <<sent, settled, erko, carry, answering, local, ops, qlen>>
  BY <1>1, <1>16, NoneMoves
<1>17. ASSUME Q(QNext)
       PROVE  PlaceInv'
  <2>1. UNCHANGED eVars
    BY <1>17 DEF Q
  <2>2. \/ UNCHANGED <<sent, settled, erko, carry, answering, local, ops, qlen>>
        \/ \E t \in Threads :
             \/ EnqHere(t) \/ EnqRefused(t) \/ Take(t) \/ Serve(t) \/ ServeYield(t)
             \/ Purge(t) \/ DestroyNext(t)
        \/ \E t \in Threads, o \in Ops : Reply(t, o)
        \/ \E t \in Threads, q \in Queues, o \in Ops, r \in Queues \cup {NoQueue} :
             Send(t, q, o, r)
        \/ \E t \in Threads, q \in Queues, d \in Queues : Forward(t, q, d)
        \/ \E q \in Queues : Final(q)
    BY <1>17, QFrame
  <2> QED
    BY <2>1, <2>2, <1>2, <1>3, <1>4, <1>5, <1>6, <1>7, <1>9, <1>10, <1>11, <1>12, <1>16
<1>18. ASSUME NEW t \in Threads, EonceStep(t)
       PROVE  PlaceInv'
  <2>1. ASSUME NEW s \in Sources, AddSource(t, s) \/ DelSource(t, s)
        PROVE  PlaceInv'
    BY <2>1, <1>1, NoneMoves DEF AddSource, DelSource, qVars, queueVars, opVars, threadVars
  <2> QED BY <2>1, <1>8, <1>13, <1>14, <1>15, <1>18 DEF EonceStep
<1> QED BY <1>17, <1>18 DEF Next

\* A thread has in its hands what its call is about, after every step.
LEMMA HandsPreserved ==
  ASSUME IInv, OpInv, Next, NEW y \in Threads
  PROVE  /\ pc'[y] = "enq" <=> carry'[y] \in Ops
         /\ local'[y] # <<>> => pc'[y] \in {"serve", "destroy"}
<1> DEFINE Goal == /\ pc'[y] = "enq" <=> carry'[y] \in Ops
                   /\ local'[y] # <<>> => pc'[y] \in {"serve", "destroy"}
<1>1. /\ pc[y] = "enq" <=> carry[y] \in Ops
      /\ local[y] # <<>> => pc[y] \in {"serve", "destroy"}
  BY DEF OpInv, HandsInv
<1>2. /\ DOMAIN pc = Threads /\ DOMAIN carry = Threads /\ DOMAIN local = Threads
      /\ NoOp \notin Ops
  BY OpTypes
<1>3. ASSUME carry'[y] = carry[y], local'[y] = local[y], pc'[y] = pc[y]
      PROVE  Goal
  BY <1>1, <1>3
\* A call that has nothing in its hands before and after.
<1>4. ASSUME carry'[y] = carry[y], local'[y] = local[y],
             pc[y] # "enq", pc'[y] # "enq",
             local[y] # <<>> => pc'[y] \in {"serve", "destroy"}
      PROVE  Goal
  BY <1>1, <1>4
<1>5. ASSUME NEW t \in Threads, Return(t) \/ Yielded(t) \/ Timeout(t) \/ Served(t) \/ Purged(t)
      PROVE  Goal
  <2>1. UNCHANGED <<carry, local>>
    BY <1>5 DEF Return, Yielded, Timeout, Served, Purged
  <2>2. CASE t = y
    <3>1. pc[y] # "enq"
      BY <1>5, <2>2 DEF Return, Yielded, Timeout, Served, Purged, Looking
    <3>2. pc'[y] # "enq"
      BY <1>2, <1>5, <2>2 DEF Return, Yielded, Timeout, Served, Purged, Leave
    <3>3. local[y] = <<>>
      BY <1>1, <1>5, <2>2 DEF Return, Yielded, Timeout, Served, Purged, Looking
    <3> QED BY <1>4, <2>1, <3>1, <3>2, <3>3
  <2>3. CASE t # y
    <3>1. pc'[y] = pc[y]
      BY <1>2, <1>5, <2>3 DEF Return, Yielded, Timeout, Served, Purged, Leave
    <3> QED BY <1>3, <2>1, <3>1
  <2> QED BY <2>2, <2>3
<1>6. ASSUME NEW t \in Threads, Follow(t)
      PROVE  Goal
  BY <1>3, <1>6 DEF Follow
<1>7. ASSUME NEW t \in Threads, EnqHere(t)
      PROVE  Goal
  <2>1. UNCHANGED local
    BY <1>7 DEF EnqHere
  <2>2. CASE t = y
    <3>1. pc[y] = "enq" /\ pc'[y] = "return" /\ carry'[y] = NoOp
      BY <1>2, <1>7, <2>2 DEF EnqHere, Asleep
    <3> QED BY <1>1, <1>2, <2>1, <3>1
  <2>3. CASE t # y
    <3>1. carry'[y] = carry[y]
      BY <1>2, <1>7, <2>3 DEF EnqHere
    <3>2. pc'[y] = pc[y] \/ (pc[y] = "asleep" /\ pc'[y] = "awake")
      BY <1>2, <1>7, <2>3 DEF EnqHere, Asleep
    <3> QED BY <1>1, <1>3, <1>4, <2>1, <3>1, <3>2
  <2> QED BY <2>2, <2>3
<1>8. ASSUME NEW t \in Threads, EnqRefused(t)
      PROVE  Goal
  <2>1. UNCHANGED local /\ pc[t] = "enq"
    BY <1>8 DEF EnqRefused
  <2>2. CASE UNCHANGED <<carry, pc>>
    BY <1>3, <2>1, <2>2
  <2>3. CASE carry' = [carry EXCEPT ![t] = NoOp] /\ pc' = [pc EXCEPT ![t] = "return"]
    <3>1. CASE t = y
      <4>1. pc'[y] = "return" /\ carry'[y] = NoOp
        BY <1>2, <2>3, <3>1
      <4> QED BY <1>1, <1>2, <2>1, <3>1, <4>1
    <3>2. CASE t # y
      BY <1>3, <2>1, <2>3, <3>2
    <3> QED BY <3>1, <3>2
  <2> QED BY <1>8, <2>2, <2>3 DEF EnqRefused
<1>9. ASSUME NEW t \in Threads, NudgeHere(t)
      PROVE  Goal
  <2>1. UNCHANGED <<carry, local>> /\ pc[t] = "yield"
    BY <1>9 DEF NudgeHere
  <2>2. \/ pc'[y] = pc[y]
        \/ pc[y] \in {"asleep", "yield"} /\ pc'[y] \in {"awake", "return"}
    BY <1>9 DEF NudgeHere, Asleep
  <2> QED BY <1>1, <1>3, <1>4, <2>1, <2>2
<1>10. ASSUME NEW t \in Threads, Take(t) \/ Purge(t)
       PROVE  Goal
  <2>1. UNCHANGED carry /\ pc[t] # "enq"
    BY <1>10 DEF Take, Purge, Looking
  <2>2. CASE t = y
    <3>1. pc'[y] \in {"serve", "destroy"}
      BY <1>2, <1>10, <2>2 DEF Take, Purge
    <3> QED BY <1>1, <2>1, <2>2, <3>1
  <2>3. CASE t # y
    <3>1. pc'[y] = pc[y] /\ local'[y] = local[y]
      BY <1>2, <1>10, <2>3 DEF Take, Purge
    <3> QED BY <1>3, <2>1, <3>1
  <2> QED BY <2>2, <2>3
<1>11. ASSUME NEW t \in Threads, Wait(t)
       PROVE  Goal
  <2>1. UNCHANGED <<carry, local>> /\ pc[t] \in {"poll", "awake"}
    BY <1>11 DEF Wait, Looking
  <2>2. CASE t = y
    <3>1. pc'[y] = "asleep"
      BY <1>2, <1>11, <2>2 DEF Wait
    <3> QED BY <1>1, <1>4, <2>1, <2>2, <3>1
  <2>3. CASE t # y
    <3>1. pc'[y] = pc[y]
      BY <1>2, <1>11, <2>3 DEF Wait
    <3> QED BY <1>3, <2>1, <3>1
  <2> QED BY <2>2, <2>3
<1>12. ASSUME NEW t \in Threads, pc[t] \in {"serve", "destroy"}, UNCHANGED <<carry, pc>>,
              \E s : local' = [local EXCEPT ![t] = s]
       PROVE  Goal
  <2>1. CASE t = y
    BY <1>1, <1>12, <2>1
  <2>2. CASE t # y
    BY <1>2, <1>3, <1>12, <2>2
  <2> QED BY <2>1, <2>2
<1>13. ASSUME NEW t \in Threads, Serve(t) \/ ServeYield(t) \/ DestroyNext(t)
       PROVE  Goal
  <2>1. /\ pc[t] \in {"serve", "destroy"} /\ UNCHANGED <<carry, pc>>
        /\ \E s : local' = [local EXCEPT ![t] = s]
    BY <1>13 DEF Serve, ServeYield, DestroyNext
  <2> QED BY <1>12, <2>1
<1>14. ASSUME NEW t \in Threads, NEW q \in Queues, Reenable(t, q)
       PROVE  Goal
  <2>1. /\ pc[t] \in {"serve", "destroy"} /\ UNCHANGED <<carry, pc>>
        /\ \E s : local' = [local EXCEPT ![t] = s]
    BY <1>14 DEF Reenable
  <2> QED BY <1>12, <2>1
\* A thread sets out with an op.
<1>15. ASSUME NEW t \in Threads, NEW o \in Ops, NEW q, pc[t] = "idle", SetOut(t, o, q),
              UNCHANGED local
       PROVE  Goal
  <2>1. /\ carry' = [carry EXCEPT ![t] = o] /\ pc' = [pc EXCEPT ![t] = "enq"]
    BY <1>15 DEF SetOut, Enter
  <2>2. CASE t = y
    <3>1. carry'[y] = o /\ pc'[y] = "enq" /\ local'[y] = <<>>
      BY <1>1, <1>2, <1>15, <2>1, <2>2
    <3> QED BY <3>1
  <2>3. CASE t # y
    BY <1>3, <1>15, <2>1, <2>3
  <2> QED BY <2>2, <2>3
<1>16. ASSUME NEW t \in Threads, NEW o \in Ops,
              Reply(t, o) \/ \E q \in Queues, r \in Queues \cup {NoQueue} : Send(t, q, o, r)
       PROVE  Goal
  BY <1>15, <1>16 DEF Reply, Send
<1>17. ASSUME NEW t \in Threads, NEW s \in Sources, Trigger(t, s)
       PROVE  Goal
  <2>1. CASE UNCHANGED threadVars
    BY <1>3, <2>1 DEF threadVars
  <2>2. CASE erko # NoOp /\ SetOut(t, erko, ereplyq) /\ UNCHANGED local
    <3>1. PICK o \in Ops : o = erko
      BY <2>2, OpTypes
    <3>2. pc[t] = "idle"
      BY <1>17 DEF Trigger
    <3>3. SetOut(t, o, ereplyq)
      BY <2>2, <3>1
    <3> QED BY <1>15, <2>2, <3>2, <3>3
  <2> QED BY <1>17, <2>1, <2>2 DEF Trigger
<1>18. ASSUME NEW t \in Threads, NEW q \in Queues, Nudge(t, q) \/ Poll(t, q) \/ DestroyOwner(t, q)
       PROVE  Goal
  <2>1. UNCHANGED <<carry, local>> /\ pc[t] = "idle"
    BY <1>18 DEF Nudge, Poll, DestroyOwner
  <2>2. CASE t = y
    <3>1. pc'[y] # "enq"
      BY <1>2, <1>18, <2>2 DEF Nudge, Poll, DestroyOwner, Enter
    <3> QED BY <1>1, <1>4, <2>1, <2>2, <3>1
  <2>3. CASE t # y
    <3>1. pc'[y] = pc[y]
      BY <1>2, <1>18, <2>3 DEF Nudge, Poll, DestroyOwner, Enter
    <3> QED BY <1>3, <2>1, <3>1
  <2> QED BY <2>2, <2>3
<1>19. ASSUME NEW t \in Threads, NEW q \in Queues, NEW d \in Queues, Forward(t, q, d)
       PROVE  Goal
  <2>1. UNCHANGED <<carry, local>>
    BY <1>19 DEF Forward
  <2>2. pc'[y] = pc[y] \/ (pc[y] = "asleep" /\ pc'[y] = "awake")
    BY <1>2, <1>19 DEF Forward, Asleep
  <2> QED BY <1>1, <1>3, <1>4, <2>1, <2>2
<1>20. ASSUME \/ \E q \in Queues : Final(q)
              \/ \E t \in Threads : Disown(t)
              \/ \E t \in Threads, q \in Queues : Unforward(t, q)
              \/ \E t \in Threads, o \in Ops, q \in Queues : New(t, o, q)
              \/ \E t \in Threads, s \in Sources : AddSource(t, s) \/ DelSource(t, s)
       PROVE  Goal
  <2>1. UNCHANGED <<pc, carry, local>>
    BY <1>20 DEF Final, Disown, Unforward, New, AddSource, DelSource, qVars, threadVars
  <2> QED BY <1>3, <2>1
<1> HIDE DEF Goal
<1>21. Goal
  BY <1>5, <1>6, <1>7, <1>8, <1>9, <1>10, <1>11, <1>13, <1>14, <1>16, <1>17, <1>18, <1>19,
     <1>20
     DEF Next, QNext, CallStep, OwnerStep, EonceStep, Q
<1> QED BY <1>21 DEF Goal

-----------------------------------------------------------------------------
(* The lists stay lists.                                                   *)

\* One queue's list is replaced.
LEMMA OneListReplaced ==
  ASSUME ListInv, NEW q \in Queues, NEW s \in Seq(Ops), Distinct(s), NEW n, n = Len(s),
         ops' = [ops EXCEPT ![q] = s], qlen' = [qlen EXCEPT ![q] = n]
  PROVE  /\ ops' \in [Queues -> Seq(Ops)] /\ qlen' \in [Queues -> Nat]
         /\ \A x \in Queues : Distinct(ops'[x]) /\ qlen'[x] = Len(ops'[x])
<1>1. n \in Nat
  BY LenProperties
<1>2. ops' \in [Queues -> Seq(Ops)] /\ qlen' \in [Queues -> Nat]
  BY <1>1 DEF ListInv
<1>3. ASSUME NEW x \in Queues PROVE Distinct(ops'[x]) /\ qlen'[x] = Len(ops'[x])
  BY DEF ListInv
<1> QED BY <1>2, <1>3

\* One thread's list is replaced.
LEMMA OneLocalReplaced ==
  ASSUME ListInv, NEW t \in Threads, NEW s \in Seq(Ops), Distinct(s),
         local' = [local EXCEPT ![t] = s]
  PROVE  local' \in [Threads -> Seq(Ops)] /\ \A x \in Threads : Distinct(local'[x])
BY DEF ListInv

\* No step puts an op twice in a list, or counts it wrong.
LEMMA ListPreserved ==
  ASSUME IInv, OpInv, Next
  PROVE  ListInv'
<1>1. ListInv /\ PlaceInv
  BY DEF OpInv
<1>2. <<>> \in Seq(Ops) /\ Distinct(<<>>) /\ Len(<<>>) = 0
  BY EmptySeq, EmptyList
<1>3. /\ \A q \in Queues : /\ ops[q] \in Seq(Ops) /\ Distinct(ops[q])
                           /\ qlen[q] = Len(ops[q]) /\ Len(ops[q]) \in Nat
                           /\ Range(ops[q]) \subseteq Ops
      /\ \A t \in Threads : /\ local[t] \in Seq(Ops) /\ Distinct(local[t])
                            /\ Len(local[t]) \in Nat /\ Range(local[t]) \subseteq Ops
  BY <1>1, LenProperties, OpTypes DEF ListInv
<1> DEFINE QueuesOk == /\ ops' \in [Queues -> Seq(Ops)] /\ qlen' \in [Queues -> Nat]
                       /\ \A x \in Queues : Distinct(ops'[x]) /\ qlen'[x] = Len(ops'[x])
           LocalsOk == local' \in [Threads -> Seq(Ops)] /\ \A x \in Threads : Distinct(local'[x])
<1>4. ASSUME UNCHANGED <<ops, qlen>> PROVE QueuesOk
  BY <1>1, <1>4 DEF ListInv
<1>5. ASSUME UNCHANGED local PROVE LocalsOk
  BY <1>1, <1>5 DEF ListInv
<1>6. ASSUME NEW t \in Threads, EnqHere(t)
      PROVE  QueuesOk /\ LocalsOk
  <2>1. carry[t] \in Ops /\ at[t] \in Queues
    BY <1>6, AtQueue DEF EnqHere, OpInv, HandsInv, Locking
  <2> DEFINE q == at[t]
             o == carry[t]
             s == Enq0(ops[q], o)
  <2>2. Adds(ops[q], o, s)
    BY <1>3, <2>1, Enq0Adds
  <2>3. /\ ops' = [ops EXCEPT ![q] = s] /\ qlen' = [qlen EXCEPT ![q] = qlen[q] + 1]
        /\ UNCHANGED local
    BY <1>6 DEF EnqHere
  <2> HIDE DEF s
  <2>4. o \notin Range(ops[q])
    <3>1. ASSUME o \in Range(ops[q]) PROVE FALSE
      <4>1. Waiting(o, q)
        BY <1>1, <2>1, <3>1, Found
      <4>2. Carried(o, t)
        BY <1>1, <2>1, Found
      <4> QED BY <4>1, <4>2 DEF Waiting, Carried, Lies
    <3> QED BY <3>1
  <2>5. s \in Seq(Ops) /\ Distinct(s) /\ qlen[q] + 1 = Len(s)
    BY <1>3, <2>1, <2>2, <2>4 DEF Adds
  <2>6. QueuesOk
    <3> HIDE DEF q
    <3> q \in Queues
      BY <2>1 DEF q
    <3> QED BY <1>1, <2>3, <2>5, OneListReplaced
  <2> QED BY <1>5, <2>3, <2>6
<1>7. ASSUME NEW t \in Threads, Take(t) \/ Purge(t)
      PROVE  QueuesOk /\ LocalsOk
  <2>1. at[t] \in Queues
    BY <1>7, AtQueue DEF Take, Purge, Looking, Locking
  <2>2. /\ ops' = [ops EXCEPT ![at[t]] = <<>>] /\ qlen' = [qlen EXCEPT ![at[t]] = 0]
        /\ local' = [local EXCEPT ![t] = ops[at[t]]]
    BY <1>7 DEF Take, Purge
  <2>3. QueuesOk
    BY <1>1, <1>2, <2>1, <2>2, OneListReplaced
  <2>4. LocalsOk
    BY <1>1, <1>3, <2>1, <2>2, OneLocalReplaced
  <2> QED BY <2>3, <2>4
<1>8. ASSUME NEW t \in Threads, local[t] # <<>>, local' = [local EXCEPT ![t] = Tail(@)]
      PROVE  LocalsOk
  <2>1. Tail(local[t]) \in Seq(Ops) /\ Distinct(Tail(local[t]))
    BY <1>3, <1>8, Shortened
  <2> QED BY <1>1, <1>8, <2>1, OneLocalReplaced
<1>9. ASSUME NEW t \in Threads, Serve(t) \/ DestroyNext(t) \/ \E q \in Queues : Reenable(t, q)
      PROVE  QueuesOk /\ LocalsOk
  <2>1. /\ local[t] # <<>> /\ local' = [local EXCEPT ![t] = Tail(@)]
        /\ UNCHANGED <<ops, qlen>>
    BY <1>9 DEF Serve, DestroyNext, Reenable, queueVars
  <2> QED BY <1>4, <1>8, <2>1
<1>10. ASSUME NEW t \in Threads, ServeYield(t)
       PROVE  QueuesOk /\ LocalsOk
  <2>1. local' = [local EXCEPT ![t] = <<>>] /\ Len(local[t]) > 1
    BY <1>10 DEF ServeYield
  <2>2. PICK d \in Queues : /\ ops' = [ops EXCEPT ![d] = PutBack(@, Tail(local[t]))]
                            /\ qlen' = [qlen EXCEPT ![d] = @ + Len(local[t]) - 1]
    BY <1>10 DEF ServeYield
  <2>3. LocalsOk
    BY <1>1, <1>2, <2>1, OneLocalReplaced
  <2> DEFINE r == Tail(local[t])
             s == PutBack(ops[d], r)
             n == qlen[d] + Len(local[t]) - 1
  <2>4. /\ r \in Seq(Ops) /\ Distinct(r) /\ Len(r) = Len(local[t]) - 1
        /\ Range(r) \subseteq Range(local[t])
    BY <1>3, <2>1, Shortened
  <2>5. Range(r) \cap Range(ops[d]) = {}
    <3>1. ASSUME NEW x \in Range(local[t]), x \in Range(ops[d]) PROVE FALSE
      <4>1. x \in Ops
        BY <1>3, <3>1
      <4>2. Out(x, t) /\ Waiting(x, d)
        BY <1>1, <3>1, <4>1, Found
      <4> QED BY <4>2 DEF Out, Waiting, Lies
    <3> QED BY <2>4, <3>1
  <2>6. s = r \o ops[d]
    BY DEF PutBack
  <2>. /\ ops[d] \in Seq(Ops) /\ Distinct(ops[d]) /\ qlen[d] = Len(ops[d])
       /\ Len(ops[d]) \in Nat /\ Len(local[t]) \in Nat
    BY <1>3
  <2> HIDE DEF r, s
  <2>7. s \in Seq(Ops) /\ Distinct(s) /\ Len(s) = Len(r) + Len(ops[d])
    BY <2>4, <2>5, <2>6, Joined
  <2>8. n = Len(s)
    <3> DEFINE a == Len(ops[d])
               b == Len(local[t])
               c == Len(r)
    <3>1. a \in Nat /\ b \in Nat /\ c = b - 1 /\ n = a + b - 1 /\ Len(s) = c + a
      BY <2>4, <2>7
    <3> HIDE DEF a, b, c, n
    <3> QED BY <3>1
  <2>9. ops' = [ops EXCEPT ![d] = s] /\ qlen' = [qlen EXCEPT ![d] = n]
    BY <2>2 DEF r, s
  <2> HIDE DEF n
  <2>10. QueuesOk
    BY <1>1, <2>7, <2>8, <2>9, OneListReplaced
  <2> QED BY <2>3, <2>10
<1>11. ASSUME NEW q \in Queues, Final(q)
       PROVE  QueuesOk /\ LocalsOk
  <2>1. UNCHANGED local
    BY <1>11 DEF Final, threadVars
  <2>2. \/ UNCHANGED <<ops, qlen>>
        \/ /\ ops[q] # <<>> /\ ops' = [ops EXCEPT ![q] = Tail(@)]
           /\ qlen' = [qlen EXCEPT ![q] = @ - 1]
    BY <1>11 DEF Final
  <2>3. CASE UNCHANGED <<ops, qlen>>
    BY <1>4, <1>5, <2>1, <2>3
  <2>4. CASE /\ ops[q] # <<>> /\ ops' = [ops EXCEPT ![q] = Tail(@)]
             /\ qlen' = [qlen EXCEPT ![q] = @ - 1]
    <3> DEFINE s == Tail(ops[q])
               n == qlen[q] - 1
    <3>1. s \in Seq(Ops) /\ Distinct(s) /\ n = Len(s)
      BY <1>3, <2>4, Shortened
    <3>2. ops' = [ops EXCEPT ![q] = s] /\ qlen' = [qlen EXCEPT ![q] = n]
      BY <2>4
    <3> HIDE DEF s, n
    <3>3. QueuesOk
      BY <1>1, <3>1, <3>2, OneListReplaced
    <3> QED BY <1>5, <2>1, <3>3
  <2> QED BY <2>2, <2>3, <2>4
<1>12. ASSUME NEW t \in Threads, NEW q \in Queues, NEW d \in Queues, Forward(t, q, d)
       PROVE  QueuesOk /\ LocalsOk
  <2>1. UNCHANGED local
    BY <1>12 DEF Forward
  <2>2. CASE UNCHANGED <<ops, qlen>>
    BY <1>4, <1>5, <2>1, <2>2
  <2>3. ASSUME NEW e \in Queues, EndOf(d, e),
               ops' = [ops EXCEPT ![e] = Concat(@, ops[q]), ![q] = <<>>],
               qlen' = [qlen EXCEPT ![e] = @ + qlen[q], ![q] = 0]
        PROVE  QueuesOk
    <3>1. e # q
      BY <1>12, <2>3, ForwardedElsewhere
    <3> DEFINE s == Concat(ops[e], ops[q])
    <3>2. Merges(ops[e], ops[q], s)
      BY <1>3, ConcatMerges
    <3> HIDE DEF s
    <3>3. Range(ops[e]) \cap Range(ops[q]) = {}
      <4>1. ASSUME NEW x \in Range(ops[e]), x \in Range(ops[q]) PROVE FALSE
        <5>1. x \in Ops
          BY <1>3, <4>1
        <5>2. Waiting(x, e) /\ Waiting(x, q)
          BY <1>1, <4>1, <5>1, Found
        <5> QED BY <3>1, <5>2 DEF Waiting, Lies
      <4> QED BY <4>1
    <3>4. s \in Seq(Ops) /\ Distinct(s) /\ Len(s) = Len(ops[e]) + Len(ops[q])
      BY <1>3, <3>2, <3>3 DEF Merges
    <3>5. /\ ops' = [[ops EXCEPT ![e] = s] EXCEPT ![q] = <<>>]
          /\ DOMAIN ops = Queues /\ DOMAIN qlen = Queues
      BY <1>1, <2>3 DEF s, ListInv
    <3>6. /\ ops'[e] = s /\ qlen'[e] = qlen[e] + qlen[q]
          /\ ops'[q] = <<>> /\ qlen'[q] = 0
          /\ \A x \in Queues : x # e /\ x # q => ops'[x] = ops[x] /\ qlen'[x] = qlen[x]
      BY <2>3, <3>1, <3>5
    <3>7. qlen[e] + qlen[q] = Len(s) /\ Len(s) \in Nat
      <4>1. /\ qlen[e] = Len(ops[e]) /\ Len(ops[e]) \in Nat
            /\ qlen[q] = Len(ops[q]) /\ Len(ops[q]) \in Nat
        BY <1>3
      <4> DEFINE a == Len(ops[e])
                 b == Len(ops[q])
      <4>2. a \in Nat /\ b \in Nat /\ Len(s) = a + b /\ qlen[e] = a /\ qlen[q] = b
        BY <3>4, <4>1
      <4> HIDE DEF a, b
      <4> QED BY <4>2
    <3>8. ASSUME NEW x \in Queues
          PROVE  /\ ops'[x] \in Seq(Ops) /\ qlen'[x] \in Nat
                 /\ Distinct(ops'[x]) /\ qlen'[x] = Len(ops'[x])
      <4>1. CASE x = e
        BY <3>4, <3>6, <3>7, <4>1
      <4>2. CASE x = q
        <5> DEFINE nil == <<>>
        <5>1. nil \in Seq(Ops) /\ Distinct(nil) /\ Len(nil) = 0 /\ 0 \in Nat
          BY <1>2
        <5>2. ops'[x] = nil /\ qlen'[x] = 0
          BY <3>6, <4>2
        <5> HIDE DEF nil
        <5> QED BY <5>1, <5>2
      <4>3. CASE x # e /\ x # q
        <5>1. ops'[x] = ops[x] /\ qlen'[x] = qlen[x]
          BY <3>6, <4>3
        <5>2. /\ ops[x] \in Seq(Ops) /\ Distinct(ops[x])
              /\ qlen[x] = Len(ops[x]) /\ Len(ops[x]) \in Nat
          BY <1>3
        <5> QED BY <5>1, <5>2
      <4> QED BY <4>1, <4>2, <4>3
    <3>9. ops' \in [Queues -> Seq(Ops)]
      <4>1. ops' = [x \in Queues |-> ops'[x]]
        BY <3>5
      <4> QED BY <3>8, <4>1
    <3>10. qlen' \in [Queues -> Nat]
      <4>1. qlen' = [x \in Queues |-> qlen'[x]]
        BY <2>3, <3>5
      <4> QED BY <3>8, <4>1
    <3> QED BY <3>8, <3>9, <3>10
  <2> HIDE DEF QueuesOk, LocalsOk
  <2> QED BY <1>5, <1>12, <2>1, <2>2, <2>3 DEF Forward
<1> HIDE DEF QueuesOk, LocalsOk
<1>13. QueuesOk /\ LocalsOk
  <2>1. ASSUME Q(QNext) PROVE QueuesOk /\ LocalsOk
    <3>1. ASSUME NEW t \in Threads, EnqRefused(t)
          PROVE  UNCHANGED <<ops, qlen, local>>
      BY <3>1 DEF EnqRefused, queueVars
    <3>2. ASSUME NEW t \in Threads, NEW o \in Ops,
                 \/ Reply(t, o)
                 \/ \E q \in Queues, r \in Queues \cup {NoQueue} : Send(t, q, o, r)
          PROVE  UNCHANGED <<ops, qlen, local>>
      BY <3>2 DEF Reply, Send, queueVars
    <3> QED
      BY <2>1, <3>1, <3>2, <1>4, <1>5, <1>6, <1>7, <1>9, <1>10, <1>11, <1>12, QFrame
  <2>2. ASSUME NEW t \in Threads, EonceStep(t) PROVE QueuesOk /\ LocalsOk
    <3>1. ASSUME \/ \E s \in Sources : AddSource(t, s) \/ DelSource(t, s) \/ Trigger(t, s)
                 \/ \E o \in Ops, q \in Queues : New(t, o, q)
                 \/ Disown(t)
          PROVE  UNCHANGED <<ops, qlen, local>>
      BY <3>1 DEF AddSource, DelSource, Trigger, New, Disown, qVars, queueVars, threadVars
    <3> QED BY <2>2, <3>1, <1>4, <1>5, <1>9 DEF EonceStep
  <2> QED BY <2>1, <2>2 DEF Next
<1> QED BY <1>13 DEF QueuesOk, LocalsOk, ListInv

-----------------------------------------------------------------------------
(* OnePlace.                                                               *)

\* In the beginning nothing is sent.
LEMMA OpInit == Init => OpInv
<1> SUFFICES ASSUME Init PROVE OpInv
  OBVIOUS
<1>1. QInit /\ erko = NoOp
  BY DEF Init
<1>2. /\ <<>> \in Seq(Ops) /\ Len(<<>>) = 0 /\ Range(<<>>) = {} /\ Distinct(<<>>)
      /\ NoOp \notin Ops
  BY EmptySeq, EmptyList, NullAssumption
<1>3. ListInv
  BY <1>1, <1>2 DEF QInit, ListInv
<1>4. HandsInv
  BY <1>1, <1>2 DEF QInit, HandsInv
<1>5. ASSUME NEW o \in Ops PROVE Unsent(o)
  <2>1. Carriers(o) = {} /\ Answerers(o) = {}
    BY <1>1, <1>2 DEF QInit, Carriers, Answerers
  <2>2. Movers(o) = {}
    BY <1>1, <1>2 DEF QInit, Movers
  <2>3. Lists(o) = {}
    BY <1>1, <1>2 DEF QInit, Lists
  <2>4. o \notin sent /\ o \notin settled /\ o # erko
    BY <1>1, <1>2 DEF QInit
  <2> QED BY <2>1, <2>2, <2>3, <2>4 DEF Unsent, Lies
<1> QED BY <1>3, <1>4, <1>5 DEF OpInv, PlaceInv, Placed

\* The invariant is kept.
LEMMA OpNext == IInv /\ OpInv /\ [Next]_vars => OpInv'
<1>1. ASSUME IInv, OpInv, Next PROVE OpInv'
  <2>1. PlaceInv'
    BY <1>1, PlacePreserved
  <2>2. ListInv'
    BY <1>1, ListPreserved
  <2>3. HandsInv'
    BY <1>1, HandsPreserved DEF HandsInv
  <2> QED BY <2>1, <2>2, <2>3 DEF OpInv
<1>2. ASSUME IInv, OpInv, UNCHANGED vars PROVE OpInv'
  <2>1. UNCHANGED <<ops, qlen, sent, settled, answering, pc, carry, local, erko>>
    BY <1>2 DEF vars, qVars, queueVars, opVars, threadVars, eVars
  <2>2. PlaceInv'
    BY <1>2, <2>1, NoneMoves DEF OpInv
  <2>3. ListInv' /\ HandsInv'
    BY <1>2, <2>1 DEF OpInv, ListInv, HandsInv
  <2> QED BY <2>2, <2>3 DEF OpInv
<1> QED BY <1>1, <1>2

\* What is in Spots.
LEMMA SpotsAre ==
  ASSUME NEW o, NEW x
  PROVE  x \in Spots(o) <=>
           \/ x = <<"unsent", 0>> /\ o \notin sent
           \/ x = <<"settled", 0>> /\ o \in settled
           \/ x = <<"eonce", 0>> /\ o = erko
           \/ \E t \in Carriers(o) : x = <<"carry", t>>
           \/ \E t \in Answerers(o) : x = <<"answer", t>>
           \/ \E t \in Threads : \E i \in DOMAIN local[t] : local[t][i] = o /\ x = <<t, i>>
           \/ \E q \in Queues : \E i \in DOMAIN ops[q] : ops[q][i] = o /\ x = <<q, i>>
<1>1. x \in StageSpots(o)
        <=> \/ x = <<"unsent", 0>> /\ o \notin sent
            \/ x = <<"settled", 0>> /\ o \in settled
            \/ x = <<"eonce", 0>> /\ o = erko
  BY DEF StageSpots
<1>2. x \in CarrySpots(o) <=> \E t \in Carriers(o) : x = <<"carry", t>>
  BY DEF Carriers, CarrySpots
<1>3. x \in AnswerSpots(o) <=> \E t \in Answerers(o) : x = <<"answer", t>>
  BY DEF Answerers, AnswerSpots
<1>4. x \in LocalSpots(o)
        <=> \E t \in Threads : \E i \in DOMAIN local[t] : local[t][i] = o /\ x = <<t, i>>
  BY DEF LocalSpots
<1>5. x \in ListSpots(o)
        <=> \E q \in Queues : \E i \in DOMAIN ops[q] : ops[q][i] = o /\ x = <<q, i>>
  BY DEF ListSpots
<1> QED BY <1>1, <1>2, <1>3, <1>4, <1>5 DEF Spots

\* A set is given by its one element.
LEMMA OneElement ==
  ASSUME NEW S, NEW e, \A x : x \in S <=> x = e
  PROVE  S = {e}
OBVIOUS

\* A place has one spot.
LEMMA OneSpot ==
  ASSUME ListInv, NEW o \in Ops, Placed(o)
  PROVE  \E x : Spots(o) = {x}
<1>1. /\ \A t \in Threads : local[t] \in Seq(Ops) /\ Distinct(local[t])
      /\ \A q \in Queues : ops[q] \in Seq(Ops) /\ Distinct(ops[q])
  BY DEF ListInv
<1>2. /\ \A t \in Threads : DOMAIN local[t] = 1 .. Len(local[t])
      /\ \A q \in Queues : DOMAIN ops[q] = 1 .. Len(ops[q])
  BY <1>1, LenProperties
<1>3. ASSUME NEW t \in Threads
      PROVE  t \in Movers(o) <=> \E i \in DOMAIN local[t] : local[t][i] = o
  BY <1>1, <1>2, InRange DEF Movers
<1>4. ASSUME NEW q \in Queues
      PROVE  q \in Lists(o) <=> \E i \in DOMAIN ops[q] : ops[q][i] = o
  BY <1>1, <1>2, InRange DEF Lists
<1>5. ASSUME Movers(o) = {}
      PROVE  \A x : ~ \E t \in Threads : \E i \in DOMAIN local[t] : local[t][i] = o /\ x = <<t, i>>
  BY <1>3, <1>5
<1>6. ASSUME Lists(o) = {}
      PROVE  \A x : ~ \E q \in Queues : \E i \in DOMAIN ops[q] : ops[q][i] = o /\ x = <<q, i>>
  BY <1>4, <1>6
<1>7. CASE Unsent(o)
  <2>1. \A x : x \in Spots(o) <=> x = <<"unsent", 0>>
    BY <1>5, <1>6, <1>7, SpotsAre DEF Unsent, Lies
  <2>2. Spots(o) = {<<"unsent", 0>>}
    BY <2>1, OneElement
  <2> QED BY <2>2
<1>8. CASE Settled(o)
  <2>1. \A x : x \in Spots(o) <=> x = <<"settled", 0>>
    BY <1>5, <1>6, <1>8, SpotsAre DEF Settled, Lies
  <2>2. Spots(o) = {<<"settled", 0>>}
    BY <2>1, OneElement
  <2> QED BY <2>2
<1>9. CASE Armed(o)
  <2>1. \A x : x \in Spots(o) <=> x = <<"eonce", 0>>
    BY <1>5, <1>6, <1>9, SpotsAre DEF Armed, Lies
  <2>2. Spots(o) = {<<"eonce", 0>>}
    BY <2>1, OneElement
  <2> QED BY <2>2
<1>10. ASSUME NEW t \in Threads, Carried(o, t) PROVE \E x : Spots(o) = {x}
  <2>1. \A x : x \in Spots(o) <=> x = <<"carry", t>>
    BY <1>5, <1>6, <1>10, SpotsAre DEF Carried, Lies
  <2>2. Spots(o) = {<<"carry", t>>}
    BY <2>1, OneElement
  <2> QED BY <2>2
<1>11. ASSUME NEW t \in Threads, Answered(o, t) PROVE \E x : Spots(o) = {x}
  <2>1. \A x : x \in Spots(o) <=> x = <<"answer", t>>
    BY <1>5, <1>6, <1>11, SpotsAre DEF Answered, Lies
  <2>2. Spots(o) = {<<"answer", t>>}
    BY <2>1, OneElement
  <2> QED BY <2>2
<1>12. ASSUME NEW t \in Threads, Out(o, t) PROVE \E x : Spots(o) = {x}
  <2>1. Movers(o) = {t} /\ Lists(o) = {}
    BY <1>12 DEF Out, Lies
  <2>2. PICK i \in DOMAIN local[t] : local[t][i] = o
    BY <1>3, <2>1
  <2>3. \A j \in DOMAIN local[t] : local[t][j] = o => j = i
    BY <1>1, <1>2, <2>2 DEF Distinct
  <2>4. \A s \in Threads : s # t => \A j \in DOMAIN local[s] : local[s][j] # o
    BY <1>3, <2>1
  <2>5. \A x : (\E s \in Threads : \E j \in DOMAIN local[s] : local[s][j] = o /\ x = <<s, j>>)
                 <=> x = <<t, i>>
    BY <2>2, <2>3, <2>4
  <2>6. \A x : x \in Spots(o) <=> x = <<t, i>>
    BY <1>6, <1>12, <2>1, <2>5, SpotsAre DEF Out, Lies
  <2>7. Spots(o) = {<<t, i>>}
    BY <2>6, OneElement
  <2> QED BY <2>7
<1>13. ASSUME NEW q \in Queues, Waiting(o, q) PROVE \E x : Spots(o) = {x}
  <2>1. Lists(o) = {q} /\ Movers(o) = {}
    BY <1>13 DEF Waiting, Lies
  <2>2. PICK i \in DOMAIN ops[q] : ops[q][i] = o
    BY <1>4, <2>1
  <2>3. \A j \in DOMAIN ops[q] : ops[q][j] = o => j = i
    BY <1>1, <1>2, <2>2 DEF Distinct
  <2>4. \A p \in Queues : p # q => \A j \in DOMAIN ops[p] : ops[p][j] # o
    BY <1>4, <2>1
  <2>5. \A x : (\E p \in Queues : \E j \in DOMAIN ops[p] : ops[p][j] = o /\ x = <<p, j>>)
                 <=> x = <<q, i>>
    BY <2>2, <2>3, <2>4
  <2>6. \A x : x \in Spots(o) <=> x = <<q, i>>
    BY <1>5, <1>13, <2>1, <2>5, SpotsAre DEF Waiting, Lies
  <2>7. Spots(o) = {<<q, i>>}
    BY <2>6, OneElement
  <2> QED BY <2>7
<1> QED BY <1>7, <1>8, <1>9, <1>10, <1>11, <1>12, <1>13 DEF Placed

\* Every op is in one place.
THEOREM PlacesHold == Spec => []OpInv
<1>1. Init => OpInv
  BY OpInit
<1>2. IInv /\ OpInv /\ [Next]_vars => OpInv'
  BY OpNext
<1> QED BY <1>1, <1>2, Invariance, PTL DEF Spec

\* No op is lost, put in two lists, or settled twice, and rkq_qlen is the length
\* of the list.
THEOREM OnePlaceHolds == Spec => []OnePlace
<1>1. OpInv => OnePlace
  <2> SUFFICES ASSUME OpInv PROVE OnePlace
    OBVIOUS
  <2>1. ASSUME NEW o \in Ops PROVE Cardinality(Spots(o)) = 1
    <3>1. PICK x : Spots(o) = {x}
      BY OneSpot DEF OpInv, PlaceInv
    <3>2. Cardinality({x}) = 1
      BY FS_Singleton
    <3> QED BY <3>1, <3>2
  <2>2. \A q \in Queues : qlen[q] = Len(ops[q])
    BY DEF OpInv, ListInv
  <2> QED BY <2>1, <2>2 DEF OnePlace
<1> QED BY <1>1, PlacesHold, PTL
=============================================================================
