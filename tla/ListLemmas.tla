---------------------------- MODULE ListLemmas ----------------------------
(***************************************************************************)
(* Facts about natural numbers, and the lists of the other modules, that   *)
(* the proofs of several of them need.  Induction is by the least          *)
(* counterexample: the set of the numbers for which a claim fails has, if  *)
(* it is not empty, a least member, and that one contradicts the step.     *)
(***************************************************************************)
EXTENDS Integers, Sequences, SequencesExt, SequenceTheorems,
        WellFoundedInduction, TLAPS

\* Every non-empty set of natural numbers has a least member.
LEMMA SmallestOf ==
  ASSUME NEW T \in SUBSET Nat, T # {}
  PROVE  \E m \in T : \A n \in T : m <= n
<1> DEFINE R == OpToRel(<, Nat)
<1>1. IsWellFoundedOn(R, Nat)
  BY NatLessThanWellFounded
<1>2. \A x, y \in Nat : y < x => <<y, x>> \in R
  BY DEF OpToRel
<1> HIDE DEF R
<1>3. PICK m \in T : \A n \in T : <<n, m>> \notin R
  BY <1>1, WFMin
<1>4. ASSUME NEW n \in T PROVE m <= n
  <2>1. m \in Nat /\ n \in Nat
    OBVIOUS
  <2>2. ~ (n < m)
    BY <1>2, <1>3, <2>1
  <2> QED BY <2>1, <2>2
<1> QED BY <1>4

\* Every non-empty set of natural numbers with a bound has a greatest member.
LEMMA GreatestOf ==
  ASSUME NEW k \in Nat, NEW T \in SUBSET (0 .. k), T # {}
  PROVE  \E m \in T : \A n \in T : n <= m
<1> DEFINE U == {i \in Nat : k - i \in T}
<1>1. U # {}
  <2>1. PICK x \in T : TRUE
    OBVIOUS
  <2>2. k - x \in Nat /\ k - (k - x) = x
    BY <2>1
  <2> QED BY <2>1, <2>2
<1>2. PICK i \in U : \A j \in U : i <= j
  BY <1>1, SmallestOf
<1>3. k - i \in T
  BY <1>2
<1>4. ASSUME NEW n \in T PROVE n <= k - i
  <2>1. n \in 0 .. k
    OBVIOUS
  <2>2. k - n \in Nat /\ k - (k - n) = n
    BY <2>1
  <2>3. i <= k - n
    BY <1>2, <2>2
  <2> QED BY <1>2, <2>1, <2>3
<1> QED BY <1>3, <1>4

\* Min and Max of FiniteSetsExt.
LEMMA MinOf ==
  ASSUME NEW T \in SUBSET Nat, T # {}
  PROVE  Min(T) \in T /\ \A n \in T : Min(T) <= n
BY SmallestOf DEF Min

LEMMA MaxOf ==
  ASSUME NEW k \in Nat, NEW T \in SUBSET (0 .. k), T # {}
  PROVE  Max(T) \in T /\ \A n \in T : n <= Max(T)
<1>1. \E m \in T : \A n \in T : m >= n
  BY GreatestOf
<1>2. Max(T) \in T /\ \A n \in T : Max(T) >= n
  BY <1>1 DEF Max
<1> QED BY <1>2

-----------------------------------------------------------------------------
(* Lists without repetition, and the order of what is in a list.           *)

Distinct(s) == \A i, j \in 1 .. Len(s) : s[i] = s[j] => i = j

\* Somewhere in the list, a comes before b.
Before(s, a, b) == \E i, j \in 1 .. Len(s) : i < j /\ s[i] = a /\ s[j] = b

\* What is in a list.
LEMMA InRange ==
  ASSUME NEW S, NEW s \in Seq(S)
  PROVE  /\ Range(s) \subseteq S
         /\ \A x : x \in Range(s) <=> \E i \in 1 .. Len(s) : s[i] = x
<1>1. DOMAIN s = 1 .. Len(s)
  BY LenProperties
<1>2. Range(s) = {s[i] : i \in 1 .. Len(s)}
  BY <1>1 DEF Range
<1> QED BY <1>2, ElementOfSeq

\* What is before or after something is in the list.
LEMMA BeforeInRange ==
  ASSUME NEW S, NEW s \in Seq(S), NEW a, NEW b, Before(s, a, b)
  PROVE  a \in Range(s) /\ b \in Range(s)
BY InRange DEF Before

\* The empty list, and a list of one.
LEMMA EmptyList ==
  /\ Range(<<>>) = {}
  /\ Distinct(<<>>)
  /\ \A a, b : ~ Before(<<>>, a, b)
<1>1. <<>> \in Seq({}) /\ Len(<<>>) = 0
  BY EmptySeq
<1>2. Range(<<>>) = {}
  <2>1. \A s \in Seq({}) : Range(s) \subseteq {}
    BY InRange
  <2> QED BY <1>1, <2>1
<1> QED BY <1>1, <1>2 DEF Distinct, Before

LEMMA OneList ==
  ASSUME NEW S, NEW e \in S
  PROVE  /\ <<e>> \in Seq(S) /\ Len(<<e>>) = 1
         /\ Range(<<e>>) = {e}
         /\ Distinct(<<e>>)
         /\ \A a, b : ~ Before(<<e>>, a, b)
<1>1. <<e>> \in Seq(S) /\ Len(<<e>>) = 1 /\ <<e>>[1] = e
  OBVIOUS
<1>2. \A x : x \in Range(<<e>>) <=> \E i \in 1 .. 1 : <<e>>[i] = x
  BY <1>1, InRange
<1>3. \A i \in 1 .. 1 : <<e>>[i] = e
  BY <1>1
<1>4. Range(<<e>>) = {e}
  BY <1>1, <1>2, <1>3
<1>5. \A i, j \in 1 .. 1 : ~ (i < j)
  OBVIOUS
<1>6. Distinct(<<e>>)
  BY <1>1 DEF Distinct
<1>7. \A a, b : ~ Before(<<e>>, a, b)
  BY <1>1, <1>5 DEF Before
<1> QED BY <1>1, <1>4, <1>6, <1>7

\* One list behind another.
LEMMA Joined ==
  ASSUME NEW S, NEW s \in Seq(S), NEW t \in Seq(S)
  PROVE  /\ s \o t \in Seq(S) /\ Len(s \o t) = Len(s) + Len(t)
         /\ Range(s \o t) = Range(s) \cup Range(t)
         /\ Distinct(s) /\ Distinct(t) /\ Range(s) \cap Range(t) = {} => Distinct(s \o t)
         /\ \A a, b : Before(s \o t, a, b) =>
              Before(s, a, b) \/ Before(t, a, b) \/ (a \in Range(s) /\ b \in Range(t))
<1> DEFINE u == s \o t
           m == Len(s)
           n == Len(t)
<1>1. m \in Nat /\ n \in Nat /\ u \in Seq(S) /\ Len(u) = m + n
  BY ConcatProperties, LenProperties
<1>2. \A i \in 1 .. m : i \in 1 .. m + n /\ u[i] = s[i]
  BY <1>1, ConcatProperties
<1>3. \A i \in 1 .. n : m + i \in 1 .. m + n /\ u[m + i] = t[i]
  <2>1. ASSUME NEW i \in 1 .. n PROVE m + i \in 1 .. m + n /\ u[m + i] = t[i]
    <3>1. m + i \in 1 .. m + n /\ ~ (m + i <= m) /\ (m + i) - m = i
      BY <1>1
    <3>2. u[m + i] = t[(m + i) - m]
      BY <3>1, ConcatProperties
    <3> QED BY <3>1, <3>2
  <2> QED BY <2>1
<1>4. \A i \in 1 .. m + n : i \in 1 .. m \/ (i - m \in 1 .. n /\ i = m + (i - m))
  BY <1>1
<1> HIDE DEF u, m, n
<1>5. \A i \in 1 .. m + n : i \in 1 .. m \/ \E k \in 1 .. n : i = m + k
  BY <1>4
<1>6. /\ \A x : x \in Range(s) <=> \E i \in 1 .. m : s[i] = x
      /\ \A x : x \in Range(t) <=> \E i \in 1 .. n : t[i] = x
      /\ \A x : x \in Range(u) <=> \E i \in 1 .. m + n : u[i] = x
  BY <1>1, InRange DEF m, n
<1>7. Range(u) = Range(s) \cup Range(t)
  <2>1. ASSUME NEW x \in Range(u) PROVE x \in Range(s) \cup Range(t)
    <3>1. PICK i \in 1 .. m + n : u[i] = x
      BY <1>6
    <3> QED BY <3>1, <1>2, <1>3, <1>5, <1>6
  <2>2. ASSUME NEW x \in Range(s) \cup Range(t) PROVE x \in Range(u)
    BY <1>2, <1>3, <1>6
  <2> QED BY <2>1, <2>2
<1>8. ASSUME Distinct(s), Distinct(t), Range(s) \cap Range(t) = {}
      PROVE  Distinct(u)
  <2>1. SUFFICES ASSUME NEW i \in 1 .. m + n, NEW j \in 1 .. m + n, u[i] = u[j]
                 PROVE  i = j
    BY <1>1 DEF Distinct
  <2>2. CASE i \in 1 .. m /\ j \in 1 .. m
    <3>1. s[i] = s[j]
      BY <2>1, <2>2, <1>2
    <3> QED BY <2>2, <3>1, <1>8 DEF Distinct, m
  <2>3. CASE (\E k \in 1 .. n : i = m + k) /\ (\E k \in 1 .. n : j = m + k)
    <3>1. PICK k \in 1 .. n : i = m + k
      BY <2>3
    <3>2. PICK l \in 1 .. n : j = m + l
      BY <2>3
    <3>3. t[k] = t[l]
      BY <2>1, <1>3, <3>1, <3>2
    <3>4. k = l
      BY <3>3, <1>8 DEF Distinct, n
    <3> QED BY <3>1, <3>2, <3>4
  <2>4. CASE i \in 1 .. m /\ \E k \in 1 .. n : j = m + k
    BY <2>1, <2>4, <1>2, <1>3, <1>6, <1>8
  <2>5. CASE j \in 1 .. m /\ \E k \in 1 .. n : i = m + k
    <3>1. u[j] \in Range(s)
      BY <2>5, <1>2, <1>6
    <3>2. u[i] \in Range(t)
      BY <2>5, <1>3, <1>6
    <3> QED BY <2>1, <3>1, <3>2, <1>8
  <2> QED BY <1>5, <2>2, <2>3, <2>4, <2>5
<1>9. ASSUME NEW a, NEW b, Before(u, a, b)
      PROVE  Before(s, a, b) \/ Before(t, a, b) \/ (a \in Range(s) /\ b \in Range(t))
  <2>1. PICK i \in 1 .. m + n, j \in 1 .. m + n : i < j /\ u[i] = a /\ u[j] = b
    BY <1>1, <1>9 DEF Before
  <2>2. CASE i \in 1 .. m /\ j \in 1 .. m
    <3>1. s[i] = a /\ s[j] = b
      BY <2>1, <2>2, <1>2
    <3> QED BY <2>1, <2>2, <3>1 DEF Before, m
  <2>3. CASE (\E k \in 1 .. n : i = m + k) /\ (\E k \in 1 .. n : j = m + k)
    <3>1. PICK k \in 1 .. n : i = m + k
      BY <2>3
    <3>2. PICK l \in 1 .. n : j = m + l
      BY <2>3
    <3>3. t[k] = a /\ t[l] = b
      BY <2>1, <1>3, <3>1, <3>2
    <3>4. k < l
      BY <2>1, <1>1, <3>1, <3>2
    <3> QED BY <3>3, <3>4 DEF Before, n
  <2>4. CASE i \in 1 .. m /\ \E k \in 1 .. n : j = m + k
    BY <2>1, <2>4, <1>2, <1>3, <1>6
  <2>5. CASE j \in 1 .. m /\ \E k \in 1 .. n : i = m + k
    <3>1. PICK k \in 1 .. n : i = m + k
      BY <2>5
    <3> QED BY <2>1, <2>5, <1>1, <3>1
  <2> QED BY <1>5, <2>2, <2>3, <2>4, <2>5
<1> QED BY <1>1, <1>7, <1>8, <1>9 DEF u, m, n

\* A list without its first member.
LEMMA Shortened ==
  ASSUME NEW S, NEW s \in Seq(S), s # <<>>
  PROVE  /\ Head(s) \in S
         /\ Tail(s) \in Seq(S) /\ Len(Tail(s)) = Len(s) - 1
         /\ Range(s) = Range(Tail(s)) \cup {Head(s)}
         /\ Distinct(s) => Distinct(Tail(s)) /\ Head(s) \notin Range(Tail(s))
         /\ \A i \in 1 .. Len(Tail(s)) : i + 1 \in 1 .. Len(s) /\ Tail(s)[i] = s[i + 1]
         /\ \A a, b : Before(Tail(s), a, b) => Before(s, a, b)
<1> DEFINE n == Len(s)
           t == Tail(s)
<1>1. n \in Nat \ {0} /\ t \in Seq(S) /\ Len(t) = n - 1 /\ Head(s) \in S
  BY HeadTailProperties, EmptySeq
<1>2. \A i \in 1 .. n - 1 : t[i] = s[i + 1]
  BY <1>1, HeadTailProperties
<1>3. Head(s) = s[1] /\ 1 \in 1 .. n
  BY <1>1
<1> HIDE DEF n, t
<1>4. \A i \in 1 .. n - 1 : i + 1 \in 1 .. n
  BY <1>1
<1>5. \A i \in 1 .. n : i = 1 \/ \E k \in 1 .. n - 1 : i = k + 1
  <2>1. \A i \in 1 .. n : i # 1 => i - 1 \in 1 .. n - 1 /\ i = (i - 1) + 1
    BY <1>1
  <2> QED BY <2>1
<1>6. /\ \A x : x \in Range(s) <=> \E i \in 1 .. n : s[i] = x
      /\ \A x : x \in Range(t) <=> \E i \in 1 .. n - 1 : t[i] = x
  BY <1>1, InRange DEF n
<1>7. Range(s) = Range(t) \cup {Head(s)}
  <2>1. ASSUME NEW x \in Range(s) PROVE x \in Range(t) \cup {Head(s)}
    <3>1. PICK i \in 1 .. n : s[i] = x
      BY <1>6
    <3> QED BY <3>1, <1>2, <1>3, <1>5, <1>6
  <2>2. ASSUME NEW x \in Range(t) \cup {Head(s)} PROVE x \in Range(s)
    <3>1. CASE x \in Range(t)
      <4>1. PICK i \in 1 .. n - 1 : t[i] = x
        BY <1>6, <3>1
      <4> QED BY <4>1, <1>2, <1>4, <1>6
    <3> QED BY <3>1, <1>3, <1>6
  <2> QED BY <2>1, <2>2
<1>8. ASSUME Distinct(s) PROVE Distinct(t) /\ Head(s) \notin Range(t)
  <2>0. \A i, j \in 1 .. n : s[i] = s[j] => i = j
    BY <1>8 DEF Distinct, n
  <2>1. ASSUME NEW i \in 1 .. n - 1, NEW j \in 1 .. n - 1, t[i] = t[j] PROVE i = j
    <3>1. s[i + 1] = s[j + 1]
      BY <2>1, <1>2
    <3>2. i + 1 = j + 1
      BY <3>1, <1>4, <2>0
    <3> QED BY <3>2
  <2>2. ASSUME NEW i \in 1 .. n - 1, t[i] = Head(s) PROVE FALSE
    <3>1. s[i + 1] = s[1]
      BY <2>2, <1>2, <1>3
    <3>2. i + 1 = 1
      BY <3>1, <1>3, <1>4, <2>0
    <3> QED BY <3>2
  <2> QED BY <2>1, <2>2, <1>1, <1>6 DEF Distinct
<1>9. ASSUME NEW a, NEW b, Before(t, a, b) PROVE Before(s, a, b)
  <2>1. PICK i \in 1 .. n - 1, j \in 1 .. n - 1 : i < j /\ t[i] = a /\ t[j] = b
    BY <1>1, <1>9 DEF Before
  <2>2. s[i + 1] = a /\ s[j + 1] = b /\ i + 1 \in 1 .. n /\ j + 1 \in 1 .. n
    BY <2>1, <1>2, <1>4
  <2>3. i + 1 < j + 1
    BY <2>1
  <2> QED BY <2>2, <2>3 DEF Before, n
<1> QED BY <1>1, <1>2, <1>4, <1>7, <1>8, <1>9 DEF n, t

\* A list with one more, anywhere in it.
LEMMA Inserted ==
  ASSUME NEW S, NEW s \in Seq(S), NEW e \in S, NEW n \in 1 .. Len(s) + 1
  PROVE  /\ InsertAt(s, n, e) \in Seq(S)
         /\ Len(InsertAt(s, n, e)) = Len(s) + 1
         /\ Range(InsertAt(s, n, e)) = Range(s) \cup {e}
         /\ Distinct(s) /\ e \notin Range(s) => Distinct(InsertAt(s, n, e))
         /\ \A a, b : Before(InsertAt(s, n, e), a, b) =>
              Before(s, a, b) \/ a = e \/ b = e
<1> DEFINE k == Len(s)
           u == SubSeq(s, 1, n - 1)
           v == SubSeq(s, n, k)
           w == u \o <<e>>
           t == InsertAt(s, n, e)
<1>1. k \in Nat /\ n \in Nat /\ n >= 1 /\ n <= k + 1
  BY LenProperties
<1>2. /\ u \in Seq(S) /\ Len(u) = n - 1
      /\ \A i \in 1 .. n - 1 : u[i] = s[i]
  <2>1. \A i \in 1 .. n - 1 : i \in 1 .. k
    BY <1>1
  <2>2. \A i \in 1 .. n - 1 : s[i] \in S
    BY <2>1, ElementOfSeq
  <2>3. n - 1 \in Int /\ 1 \in Int
    BY <1>1
  <2>4. /\ u \in Seq(S)
        /\ Len(u) = IF 1 <= n - 1 THEN (n - 1) - 1 + 1 ELSE 0
        /\ \A i \in 1 .. (n - 1) - 1 + 1 : u[i] = s[1 + i - 1]
    BY <2>2, <2>3, SubSeqProperties
  <2>5. Len(u) = n - 1
    BY <1>1, <2>4
  <2>6. ASSUME NEW i \in 1 .. n - 1 PROVE u[i] = s[i]
    <3>1. i \in 1 .. (n - 1) - 1 + 1 /\ 1 + i - 1 = i
      BY <1>1
    <3> QED BY <2>4, <3>1
  <2> QED BY <2>4, <2>5, <2>6
<1>3. /\ v \in Seq(S) /\ Len(v) = k - n + 1
      /\ \A i \in 1 .. k - n + 1 : v[i] = s[n + i - 1]
  <2>1. \A i \in n .. k : i \in 1 .. k
    BY <1>1
  <2>2. \A i \in n .. k : s[i] \in S
    BY <2>1, ElementOfSeq
  <2>3. n \in Int /\ k \in Int
    BY <1>1
  <2>4. /\ v \in Seq(S)
        /\ Len(v) = IF n <= k THEN k - n + 1 ELSE 0
        /\ \A i \in 1 .. k - n + 1 : v[i] = s[n + i - 1]
    BY <2>2, <2>3, SubSeqProperties
  <2>5. Len(v) = k - n + 1
    BY <1>1, <2>4
  <2> QED BY <2>4, <2>5
<1>4. t = w \o v
  BY DEF InsertAt
<1> HIDE DEF u, v, w, t
<1>5. /\ w \in Seq(S) /\ Len(w) = n
      /\ Range(w) = Range(u) \cup {e}
      /\ Distinct(u) /\ e \notin Range(u) => Distinct(w)
      /\ \A a, b : Before(w, a, b) => Before(u, a, b) \/ (a \in Range(u) /\ b = e)
  <2>1. /\ <<e>> \in Seq(S) /\ Len(<<e>>) = 1 /\ Range(<<e>>) = {e} /\ Distinct(<<e>>)
        /\ \A a, b : ~ Before(<<e>>, a, b)
    BY OneList
  <2>2. Len(u) + Len(<<e>>) = n
    BY <1>1, <1>2, <2>1
  <2>3. /\ w \in Seq(S) /\ Len(w) = Len(u) + Len(<<e>>)
        /\ Range(w) = Range(u) \cup Range(<<e>>)
        /\ Distinct(u) /\ Distinct(<<e>>) /\ Range(u) \cap Range(<<e>>) = {} => Distinct(w)
        /\ \A a, b : Before(w, a, b) =>
             Before(u, a, b) \/ Before(<<e>>, a, b) \/ (a \in Range(u) /\ b \in Range(<<e>>))
    BY <1>2, <2>1, Joined DEF w
  <2>4. Distinct(u) /\ e \notin Range(u) => Distinct(w)
    BY <2>1, <2>3
  <2>5. \A a, b : Before(w, a, b) => Before(u, a, b) \/ (a \in Range(u) /\ b = e)
    BY <2>1, <2>3
  <2> QED BY <2>1, <2>2, <2>3, <2>4, <2>5
<1>6. /\ t \in Seq(S) /\ Len(t) = Len(w) + Len(v)
      /\ Range(t) = Range(w) \cup Range(v)
      /\ Distinct(w) /\ Distinct(v) /\ Range(w) \cap Range(v) = {} => Distinct(t)
      /\ \A a, b : Before(t, a, b) =>
           Before(w, a, b) \/ Before(v, a, b) \/ (a \in Range(w) /\ b \in Range(v))
  BY <1>3, <1>4, <1>5, Joined
<1>7. Len(t) = k + 1
  BY <1>1, <1>3, <1>5, <1>6
<1>8. /\ \A x : x \in Range(s) <=> \E i \in 1 .. k : s[i] = x
      /\ \A x : x \in Range(u) <=> \E i \in 1 .. n - 1 : u[i] = x
      /\ \A x : x \in Range(v) <=> \E i \in 1 .. k - n + 1 : v[i] = x
  BY <1>2, <1>3, InRange
<1>9. /\ \A i \in 1 .. n - 1 : i \in 1 .. k
      /\ \A i \in 1 .. k - n + 1 : n + i - 1 \in 1 .. k /\ n + i - 1 > n - 1
      /\ \A i \in 1 .. k : i \in 1 .. n - 1
                         \/ (i - n + 1 \in 1 .. k - n + 1 /\ n + (i - n + 1) - 1 = i)
  BY <1>1
<1> HIDE DEF k
<1>10. Range(s) = Range(u) \cup Range(v)
  <2>1. ASSUME NEW x \in Range(s) PROVE x \in Range(u) \cup Range(v)
    <3>1. PICK i \in 1 .. k : s[i] = x
      BY <1>8
    <3>2. CASE i \in 1 .. n - 1
      BY <3>1, <3>2, <1>2, <1>8
    <3>3. CASE i - n + 1 \in 1 .. k - n + 1 /\ n + (i - n + 1) - 1 = i
      BY <3>1, <3>3, <1>3, <1>8
    <3> QED BY <3>2, <3>3, <1>9
  <2>2. ASSUME NEW x \in Range(u) PROVE x \in Range(s)
    BY <1>2, <1>8, <1>9
  <2>3. ASSUME NEW x \in Range(v) PROVE x \in Range(s)
    <3>1. PICK i \in 1 .. k - n + 1 : v[i] = x
      BY <1>8
    <3> QED BY <3>1, <1>3, <1>8, <1>9
  <2> QED BY <2>1, <2>2, <2>3
<1>11. Range(t) = Range(s) \cup {e}
  BY <1>5, <1>6, <1>10
<1>12. ASSUME Distinct(s), e \notin Range(s)
       PROVE  Distinct(t)
  <2>1. \A i, j \in 1 .. k : s[i] = s[j] => i = j
    BY <1>12 DEF Distinct, k
  <2>2. Distinct(u)
    BY <2>1, <1>2, <1>9 DEF Distinct
  <2>3. Distinct(v)
    <3>1. SUFFICES ASSUME NEW i \in 1 .. k - n + 1, NEW j \in 1 .. k - n + 1, v[i] = v[j]
                   PROVE  i = j
      BY <1>3 DEF Distinct
    <3>2. s[n + i - 1] = s[n + j - 1]
      BY <3>1, <1>3
    <3>3. n + i - 1 = n + j - 1
      BY <3>2, <2>1, <1>9
    <3> QED BY <3>3, <1>1
  <2>4. Range(u) \cap Range(v) = {}
    <3>1. ASSUME NEW i \in 1 .. n - 1, NEW j \in 1 .. k - n + 1, u[i] = v[j]
          PROVE  FALSE
      <4>1. s[i] = s[n + j - 1]
        BY <3>1, <1>2, <1>3
      <4>2. i = n + j - 1
        BY <4>1, <2>1, <1>9
      <4> QED BY <4>2, <1>1
    <3> QED BY <3>1, <1>8
  <2>5. Range(w) \cap Range(v) = {}
    BY <2>4, <1>5, <1>10, <1>12
  <2> QED BY <2>2, <2>3, <2>5, <1>5, <1>6, <1>10, <1>12
<1>13. ASSUME NEW a, NEW b, Before(t, a, b), a # e, b # e
       PROVE  Before(s, a, b)
  <2>1. Before(u, a, b) \/ Before(v, a, b) \/ (a \in Range(u) /\ b \in Range(v))
    BY <1>5, <1>6, <1>13
  <2>2. CASE Before(u, a, b)
    <3>1. PICK i \in 1 .. n - 1, j \in 1 .. n - 1 : i < j /\ u[i] = a /\ u[j] = b
      BY <2>2, <1>2 DEF Before
    <3>2. s[i] = a /\ s[j] = b /\ i \in 1 .. k /\ j \in 1 .. k
      BY <3>1, <1>2, <1>9
    <3> QED BY <3>1, <3>2 DEF Before, k
  <2>3. CASE Before(v, a, b)
    <3>1. PICK i \in 1 .. k - n + 1, j \in 1 .. k - n + 1 : i < j /\ v[i] = a /\ v[j] = b
      BY <2>3, <1>3 DEF Before
    <3>2. /\ s[n + i - 1] = a /\ s[n + j - 1] = b
          /\ n + i - 1 \in 1 .. k /\ n + j - 1 \in 1 .. k
      BY <3>1, <1>3, <1>9
    <3>3. n + i - 1 < n + j - 1
      BY <3>1, <1>1
    <3> QED BY <3>2, <3>3 DEF Before, k
  <2>4. CASE a \in Range(u) /\ b \in Range(v)
    <3>1. PICK i \in 1 .. n - 1 : u[i] = a
      BY <2>4, <1>8
    <3>2. PICK j \in 1 .. k - n + 1 : v[j] = b
      BY <2>4, <1>8
    <3>3. s[i] = a /\ s[n + j - 1] = b /\ i \in 1 .. k /\ n + j - 1 \in 1 .. k
      BY <3>1, <3>2, <1>2, <1>3, <1>9
    <3>4. i < n + j - 1
      BY <3>1, <3>2, <1>1
    <3> QED BY <3>3, <3>4 DEF Before, k
  <2> QED BY <2>1, <2>2, <2>3, <2>4
<1> QED BY <1>6, <1>7, <1>11, <1>12, <1>13 DEF t, k
=============================================================================
