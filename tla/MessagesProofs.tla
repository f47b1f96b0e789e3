-------------------------- MODULE MessagesProofs --------------------------
(***************************************************************************)
(* Theorems about Messages, for any texts, any buffer size, any width of   *)
(* the seed and any number of messages: what the conversions do to a text, *)
(* which times have the same identifier, and that a message keeps its      *)
(* texts and its identifier on its way.                                    *)
(***************************************************************************)
EXTENDS Messages, ListLemmas, SequenceTheorems, FiniteSetTheorems, TLAPS

-----------------------------------------------------------------------------
(* C strings.                                                              *)

\* A text without a zero byte.
IsCStr(s) == s \in Texts /\ \A i \in 1 .. Len(s) : s[i] # Nul

\* t is what a C function reads of s.
ReadsAs(s, t) ==
  /\ IsCStr(t)
  /\ Len(t) <= Len(s)
  /\ \A i \in 1 .. Len(t) : t[i] = s[i]
  /\ Len(t) < Len(s) => s[Len(t) + 1] = Nul

LEMMA CStrReads ==
  ASSUME NEW s \in Texts
  PROVE  ReadsAs(s, CStr(s))
<1> DEFINE zeros == {i \in DOMAIN s : s[i] = Nul}
<1>1. DOMAIN s = 1 .. Len(s) /\ Len(s) \in Nat /\ \A i \in 1 .. Len(s) : s[i] \in Bytes
  BY LenProperties DEF Texts
<1>2. CASE zeros = {}
  <2>1. CStr(s) = s
    BY <1>2 DEF CStr
  <2>2. IsCStr(s)
    BY <1>1, <1>2 DEF IsCStr
  <2> QED BY <1>1, <2>1, <2>2 DEF ReadsAs
<1>3. CASE zeros # {}
  <2> DEFINE m == Min(zeros)
  <2>1. zeros \in SUBSET Nat
    BY <1>1
  <2>2. m \in zeros /\ \A n \in zeros : m <= n
    BY <1>3, <2>1, MinOf
  <2>3. CStr(s) = SubSeq(s, 1, m - 1)
    BY <1>3 DEF CStr
  <2>4. m \in 1 .. Len(s) /\ s[m] = Nul
    BY <1>1, <2>2
  <2> HIDE DEF m
  <2>5. ASSUME NEW i \in 1 .. m - 1
        PROVE  i \in 1 .. Len(s) /\ s[i] # Nul
    <3>1. i \in 1 .. Len(s) /\ ~ (m <= i)
      BY <1>1, <2>4
    <3> QED BY <1>1, <2>2, <3>1
  <2> HIDE DEF zeros
  <2>6. \A i \in 1 .. m - 1 : s[i] \in Bytes
    BY <1>1, <2>5
  <2>7. /\ SubSeq(s, 1, m - 1) \in Texts
        /\ Len(SubSeq(s, 1, m - 1)) = m - 1
        /\ \A i \in 1 .. m - 1 : SubSeq(s, 1, m - 1)[i] = s[i]
    <3> DEFINE u == [i \in 1 .. m - 1 |-> s[i]]
    <3>1. m - 1 \in Nat
      BY <1>1, <2>4
    <3>2. u \in Seq(Bytes) /\ Len(u) = m - 1
      BY <2>6, <3>1, IsASeq
    <3>3. SubSeq(s, 1, m - 1) = u
      BY <1>1, <2>4, <3>1
    <3> QED BY <3>2, <3>3 DEF Texts
  <2>8. ReadsAs(s, SubSeq(s, 1, m - 1))
    BY <1>1, <2>4, <2>5, <2>7 DEF ReadsAs, IsCStr
  <2> QED BY <2>3, <2>8
<1> QED BY <1>2, <1>3

\* There is only one such text.
LEMMA ReadsOnce ==
  ASSUME NEW s \in Texts, NEW t, NEW u, ReadsAs(s, t), ReadsAs(s, u)
  PROVE  t = u
<1>1. /\ t \in Seq(Bytes) /\ u \in Seq(Bytes)
      /\ Len(t) \in Nat /\ Len(u) \in Nat /\ Len(s) \in Nat
  BY LenProperties DEF ReadsAs, IsCStr, Texts
<1>2. ~ (Len(t) < Len(u))
  <2>1. SUFFICES ASSUME Len(t) < Len(u) PROVE FALSE
    OBVIOUS
  <2>2. Len(t) + 1 \in 1 .. Len(u) /\ Len(t) < Len(s)
    BY <1>1, <2>1 DEF ReadsAs
  <2> QED BY <2>2 DEF ReadsAs, IsCStr
<1>3. ~ (Len(u) < Len(t))
  <2>1. SUFFICES ASSUME Len(u) < Len(t) PROVE FALSE
    OBVIOUS
  <2>2. Len(u) + 1 \in 1 .. Len(t) /\ Len(u) < Len(s)
    BY <1>1, <2>1 DEF ReadsAs
  <2> QED BY <2>2 DEF ReadsAs, IsCStr
<1>4. Len(t) = Len(u)
  BY <1>1, <1>2, <1>3
<1>5. \A i \in 1 .. Len(t) : t[i] = u[i]
  BY <1>4 DEF ReadsAs
<1> QED BY <1>1, <1>4, <1>5, SeqEqual

\* A text without a zero byte is read whole.
LEMMA CStrOfCStr ==
  ASSUME NEW s, IsCStr(s)
  PROVE  CStr(s) = s
<1>1. s \in Texts /\ Len(s) \in Nat
  BY LenProperties DEF IsCStr, Texts
<1>2. ReadsAs(s, s)
  BY <1>1 DEF ReadsAs
<1> QED BY <1>1, <1>2, CStrReads, ReadsOnce

\* What strncpy leaves in a buffer that is longer than the C string it copies
\* is read as that string.
LEMMA BufferReads ==
  ASSUME NEW p \in Texts, Len(CStr(p)) < BodySize
  PROVE  CStr(Buffer(p)) = CStr(p)
<1> DEFINE b == Buffer(p)
           t == CStr(p)
<1>1. /\ ReadsAs(p, t)
      /\ Len(t) \in Nat /\ Len(p) \in Nat /\ BodySize \in Nat
      /\ t \in Texts /\ \A i \in 1 .. Len(p) : p[i] \in Bytes
  <2>1. ReadsAs(p, t)
    BY CStrReads
  <2>2. t \in Texts
    BY <2>1 DEF ReadsAs, IsCStr
  <2> QED BY <2>1, <2>2, SizesAssumption, LenProperties DEF Texts
<1> HIDE DEF t
<1>2. b = [i \in 1 .. BodySize |-> IF i <= Len(t) THEN p[i] ELSE Nul]
  BY DEF Buffer, t
<1>3. \A i \in 1 .. BodySize : b[i] \in Bytes
  BY <1>1, <1>2 DEF ReadsAs, Bytes, Nul
<1> HIDE DEF b
<1>4. b \in Texts /\ Len(b) = BodySize
  BY <1>1, <1>2, <1>3, IsASeq DEF Texts
<1>5. Len(t) < BodySize
  BY DEF t
<1>6. ReadsAs(b, t)
  <2>1. \A i \in 1 .. Len(t) : b[i] = p[i]
    BY <1>1, <1>2, <1>5
  <2>2. b[Len(t) + 1] = Nul
    BY <1>1, <1>2, <1>5
  <2> QED BY <1>1, <1>4, <1>5, <2>1, <2>2 DEF ReadsAs
<1>7. CStr(b) = t
  BY <1>4, <1>6, CStrReads, ReadsOnce
<1> QED BY <1>7 DEF b, t

-----------------------------------------------------------------------------
(* Numbers.                                                                *)

LEMMA PowerIsPositive == \A k \in 0 .. 18 : Power(k) \in Nat \ {0}
BY DEF Power, PowersOfTen

\* Every number has a number of digits.
LEMMA DigitsOf ==
  ASSUME NEW n \in Nat
  PROVE  /\ Digits(n) \in 1 .. 19
         /\ Digits(n) < 19 => n < Power(Digits(n))
         /\ Digits(n) > 1 => n >= Power(Digits(n) - 1)
<1> DEFINE T == {k \in 1 .. 19 : k < 19 => n < Power(k)}
<1>1. 19 \in T /\ T \in SUBSET Nat
  OBVIOUS
<1>2. PICK m \in T : \A k \in T : m <= k
  BY <1>1, SmallestOf
<1>3. m > 1 => n >= Power(m - 1)
  <2>1. SUFFICES ASSUME m > 1 PROVE n >= Power(m - 1)
    OBVIOUS
  <2>2. m - 1 \in 1 .. 18 /\ m - 1 \notin T
    BY <1>2, <2>1
  <2>3. Power(m - 1) \in Nat
    BY <2>2, PowerIsPositive
  <2> QED BY <2>2, <2>3
<1>4. \E k \in 1 .. 19 : (k < 19 => n < Power(k)) /\ (k > 1 => n >= Power(k - 1))
  BY <1>2, <1>3
<1> QED BY <1>4 DEF Digits

\* The longest versions that are printed into five bytes.
LEMMA DigitsOfFew ==
  ASSUME NEW n \in Nat
  PROVE  /\ n <= 9999 => Digits(n) <= 4
         /\ n <= 999 => Digits(n) <= 3
<1> DEFINE k == Digits(n)
<1>1. k \in 1 .. 19 /\ (k > 1 => n >= Power(k - 1))
  BY DigitsOf
<1> HIDE DEF k
<1>2. \A j \in 3 .. 18 : Power(j) >= 1000
  BY DEF Power, PowersOfTen
<1>3. \A j \in 4 .. 18 : Power(j) >= 10000
  BY DEF Power, PowersOfTen
<1>4. n <= 9999 => k <= 4
  <2>1. SUFFICES ASSUME k > 4 PROVE n > 9999
    BY <1>1
  <2>2. k - 1 \in 4 .. 18 /\ n >= Power(k - 1) /\ Power(k - 1) \in Nat
    BY <1>1, <2>1, PowerIsPositive
  <2>3. Power(k - 1) >= 10000
    BY <1>3, <2>2
  <2> QED BY <2>2, <2>3
<1>5. n <= 999 => k <= 3
  <2>1. SUFFICES ASSUME k > 3 PROVE n > 999
    BY <1>1
  <2>2. k - 1 \in 3 .. 18 /\ n >= Power(k - 1) /\ Power(k - 1) \in Nat
    BY <1>1, <2>1, PowerIsPositive
  <2>3. Power(k - 1) >= 1000
    BY <1>2, <2>2
  <2> QED BY <2>2, <2>3
<1> QED BY <1>4, <1>5 DEF k

\* What sprintf prints of a number has no zero byte.
LEMMA DecimalIsText ==
  ASSUME NEW v \in Int
  PROVE  /\ IsCStr(Decimal(v))
         /\ v \in Short => Len(Decimal(v)) <= 4
<1> DEFINE n == IF v < 0 THEN -v ELSE v
           k == Digits(n)
           sign == IF v < 0 THEN <<45>> ELSE <<>>
           ds == [i \in 1 .. k |-> 48 + ((n \div Power(k - i)) % 10)]
<1>1. n \in Nat
  OBVIOUS
<1>2. k \in 1 .. 19
  BY <1>1, DigitsOf
<1>3. Decimal(v) = sign \o ds
  BY DEF Decimal
<1>4. v \in Short => Len(sign) + k <= 4
  <2>1. CASE v < 0
    <3>1. v \in Short => k <= 3
      BY <1>1, <2>1, DigitsOfFew DEF Short
    <3>2. sign = <<45>> /\ Len(sign) = 1
      BY <2>1
    <3> HIDE DEF k, sign
    <3> QED BY <1>2, <3>1, <3>2
  <2>2. CASE ~ (v < 0)
    <3>1. v \in Short => k <= 4
      BY <1>1, <2>2, DigitsOfFew DEF Short
    <3>2. sign = <<>> /\ Len(sign) = 0
      BY <2>2
    <3> HIDE DEF k, sign
    <3> QED BY <1>2, <3>1, <3>2
  <2> QED BY <2>1, <2>2
<1> HIDE DEF n, k
<1>5. \A i \in 1 .. k : ds[i] \in 48 .. 57
  <2>1. SUFFICES ASSUME NEW i \in 1 .. k PROVE 48 + ((n \div Power(k - i)) % 10) \in 48 .. 57
    OBVIOUS
  <2>2. Power(k - i) \in Nat \ {0}
    BY <1>2, PowerIsPositive
  <2> DEFINE p == Power(k - i)
  <2> HIDE DEF p
  <2>3. n \div p \in Int
    BY <1>1, <2>2 DEF p
  <2>4. (n \div p) % 10 \in 0 .. 9
    BY <2>3
  <2> QED BY <2>4 DEF p
<1>6. ds \in Seq(48 .. 57) /\ Len(ds) = k
  BY <1>2, <1>5, IsASeq
<1>7. sign \in Seq({45}) /\ Len(sign) \in Nat
  <2>1. CASE v < 0
    <3>1. sign = <<45>>
      BY <2>1
    <3> HIDE DEF sign
    <3> QED BY <3>1
  <2>2. CASE ~ (v < 0)
    <3>1. sign = <<>>
      BY <2>2
    <3> HIDE DEF sign
    <3> QED BY <3>1
  <2> QED BY <2>1, <2>2
<1> HIDE DEF ds, sign
<1>8. /\ sign \o ds \in Seq(45 .. 57)
      /\ Len(sign \o ds) = Len(sign) + Len(ds)
  <2>1. sign \in Seq(45 .. 57) /\ ds \in Seq(45 .. 57)
    BY <1>6, <1>7, SeqMonotonic
  <2> QED BY <2>1, ConcatProperties
<1>9. IsCStr(sign \o ds)
  <2> DEFINE s == sign \o ds
  <2>1. s \in Seq(Bytes)
    <3>1. 45 .. 57 \subseteq Bytes
      BY DEF Bytes
    <3> QED BY <1>8, <3>1, SeqMonotonic
  <2>2. \A i \in 1 .. Len(s) : s[i] \in 45 .. 57
    BY <1>8, ElementOfSeq
  <2> HIDE DEF s
  <2>3. \A i \in 1 .. Len(s) : s[i] # 0
    BY <2>2
  <2>4. IsCStr(s)
    BY <2>1, <2>3 DEF IsCStr, Texts, Nul
  <2> QED BY <2>4 DEF s
<1> QED BY <1>3, <1>4, <1>6, <1>8, <1>9

-----------------------------------------------------------------------------
(* The generator.  A step multiplies by 900277 and adds, modulo 2^20, and a *)
(* digit is the upper four bits of 20.  Two states that show the same digit *)
(* are less than 2^16 apart, and the distances of two runs of the generator *)
(* are multiplied without the addition: those that stay small for as long   *)
(* as an identifier is the same are zero.                                   *)

LEMMA Division ==
  ASSUME NEW x \in Int, NEW m \in Nat \ {0}
  PROVE  /\ x \div m \in Int /\ x % m \in Int
         /\ x = m * (x \div m) + (x % m)
         /\ 0 <= x % m /\ x % m < m
OBVIOUS

\* A state.
IsLow(x) == x \in Int /\ 0 <= x /\ x < 1048576

\* y comes after x, but for k turns of the low 20 bits; the distance of what
\* comes after two states, for their distance.
After(x, y, k) == y = 900277 * x + 272351 + 1048576 * k
Apart(d, e, k) == e = 900277 * d + 1048576 * k

LEMMA RandTurns ==
  ASSUME NEW x \in Int
  PROVE  IsLow(Rand(x)) /\ \E k \in Int : After(x, Rand(x), k)
<1> DEFINE h == x \div 1024
           l == x % 1024
           q == (900277 * h) \div 1024
           r == (900277 * h) % 1024
           y == 900277 * l + 1024 * r + 272351
           t == y \div 1048576
           z == y % 1048576
<1>1. h \in Int /\ l \in Int /\ x = 1024 * h + l
  BY Division
<1> HIDE DEF h, l
<1>2. 900277 * h \in Int
  BY <1>1
<1>3. q \in Int /\ r \in Int /\ 900277 * h = 1024 * q + r
  BY <1>2, Division
<1> HIDE DEF q, r
<1>4. y \in Int
  BY <1>1, <1>3
<1>5. Rand(x) = z
  BY DEF Rand, RandPeriod, h, l, r
<1> HIDE DEF y
<1>6. /\ t \in Int /\ z \in Int /\ y = 1048576 * t + z
      /\ 0 <= z /\ z < 1048576
  BY <1>4, Division
<1> HIDE DEF t, z
<1>7. z = 900277 * x + 272351 + 1048576 * (- q - t)
  BY <1>1, <1>3, <1>6 DEF y
<1>8. - q - t \in Int
  BY <1>3, <1>6
<1> HIDE DEF y
<1> QED BY <1>5, <1>6, <1>7, <1>8, SMT DEF IsLow, After

\* f[n] is the state after n draws, of k, that begin at x.
Steps(x, k, f) ==
  f = [n \in 0 .. k |-> IF n = 0 THEN x ELSE Rand(f[n - 1])]

LEMMA StepsGoOn ==
  ASSUME NEW x, NEW n \in Nat
  PROVE  \E f : Steps(x, n, f)
<1> DEFINE T == {k \in Nat : ~ \E f : Steps(x, k, f)}
<1>1. ASSUME T # {} PROVE FALSE
  <2>1. PICK m \in T : \A k \in T : m <= k
    BY <1>1, SmallestOf
  <2>2. CASE m = 0
    <3> DEFINE f == [i \in 0 .. 0 |-> x]
    <3>1. f = [i \in 0 .. 0 |-> IF i = 0 THEN x ELSE Rand(f[i - 1])]
      OBVIOUS
    <3>2. Steps(x, 0, f)
      BY <3>1 DEF Steps
    <3> QED BY <2>1, <2>2, <3>2
  <2>3. CASE m # 0
    <3>1. m \in Nat /\ m - 1 \in Nat /\ m - 1 \notin T
      BY <2>1, <2>3
    <3>2. PICK f : Steps(x, m - 1, f)
      BY <3>1
    <3> DEFINE g == [i \in 0 .. m |-> IF i <= m - 1 THEN f[i] ELSE Rand(f[m - 1])]
    <3>3. ASSUME NEW i \in 0 .. m
          PROVE  g[i] = IF i = 0 THEN x ELSE Rand(g[i - 1])
      <4>1. \A j \in 0 .. m - 1 : g[j] = f[j]
        BY <3>1
      <4>2. \A j \in 0 .. m - 1 : f[j] = IF j = 0 THEN x ELSE Rand(f[j - 1])
        BY <3>2 DEF Steps
      <4>3. CASE i = 0
        BY <4>1, <4>2, <4>3, <3>1
      <4>4. CASE i # 0 /\ i <= m - 1
        <5>1. i \in 0 .. m - 1 /\ i - 1 \in 0 .. m - 1
          BY <4>4, <3>1
        <5> QED BY <4>1, <4>2, <4>4, <5>1
      <4>5. CASE i # 0 /\ ~ (i <= m - 1)
        <5>1. i = m /\ i - 1 = m - 1 /\ m - 1 \in 0 .. m - 1
          BY <4>5, <3>1
        <5>2. g[m] = Rand(f[m - 1])
          BY <4>5, <5>1
        <5> QED BY <4>1, <4>5, <5>1, <5>2
      <4> QED BY <4>3, <4>4, <4>5
    <3>4. g = [i \in 0 .. m |-> IF i = 0 THEN x ELSE Rand(g[i - 1])]
      <4>1. g = [i \in 0 .. m |-> g[i]]
        OBVIOUS
      <4> HIDE DEF g
      <4> QED BY <4>1, <3>3
    <3>5. Steps(x, m, g)
      <4> HIDE DEF g
      <4> QED BY <3>4 DEF Steps
    <3> QED BY <2>1, <3>5
  <2> QED BY <2>2, <2>3
<1> QED BY <1>1

\* The states that Drawn goes through.
Draws(x, f) ==
  /\ f[0] = x
  /\ \A n \in 0 .. 37 : f[n] \in Int
  /\ \A n \in 1 .. 37 : /\ IsLow(f[n]) /\ \E k \in Int : After(f[n - 1], f[n], k)
                        /\ Drawn(x)[n] = f[n] \div 65536

LEMMA DrawnDraws ==
  ASSUME NEW x, IsLow(x)
  PROVE  /\ \E f : Draws(x, f)
         /\ Drawn(x) \in [1 .. 37 -> 0 .. 15]
<1> DEFINE low[n \in 0 .. 37] == IF n = 0 THEN x ELSE Rand(low[n - 1])
<1>1. Drawn(x) = [n \in 1 .. 37 |-> low[n] \div 65536]
  BY DEF Drawn
<1>2. low = [n \in 0 .. 37 |-> IF n = 0 THEN x ELSE Rand(low[n - 1])]
  <2>1. PICK f : Steps(x, 37, f)
    BY StepsGoOn
  <2>2. f = [n \in 0 .. 37 |-> IF n = 0 THEN x ELSE Rand(f[n - 1])]
    BY <2>1, Zenon DEF Steps
  <2>3. \E g : g = [n \in 0 .. 37 |-> IF n = 0 THEN x ELSE Rand(g[n - 1])]
    BY <2>2, Zenon
  <2> QED BY <2>3, Zenon
<1> HIDE DEF low
<1>3. \A n \in 0 .. 37 : low[n] = IF n = 0 THEN x ELSE Rand(low[n - 1])
  BY <1>2, Zenon
<1> DEFINE T == {n \in 0 .. 37 : low[n] \notin Int}
<1>4. T = {}
  <2>1. SUFFICES ASSUME T # {} PROVE FALSE
    OBVIOUS
  <2>2. T \in SUBSET Nat
    OBVIOUS
  <2>3. PICK m \in T : \A k \in T : m <= k
    BY <2>1, <2>2, SmallestOf
  <2>4. m # 0
    <3>1. x \in Int
      BY SMT DEF IsLow
    <3>2. low[0] = x
      BY <1>3
    <3> QED BY <2>3, <3>1, <3>2
  <2>5. m \in 0 .. 37 /\ m - 1 \in 0 .. 37 /\ m - 1 \notin T
    BY <2>3, <2>4
  <2>6. low[m - 1] \in Int
    BY <2>5
  <2>7. low[m] = Rand(low[m - 1])
    BY <1>3, <2>4, <2>5
  <2>8. low[m] \in Int
    BY <2>6, <2>7, RandTurns, SMT DEF IsLow
  <2> QED BY <2>3, <2>8
<1>5. \A n \in 0 .. 37 : low[n] \in Int
  BY <1>4
<1> HIDE DEF T
<1>6. ASSUME NEW n \in 1 .. 37
      PROVE  /\ IsLow(low[n]) /\ \E k \in Int : After(low[n - 1], low[n], k)
             /\ Drawn(x)[n] = low[n] \div 65536
  <2>1. n \in 0 .. 37 /\ n # 0 /\ n - 1 \in 0 .. 37
    OBVIOUS
  <2>2. low[n] = Rand(low[n - 1]) /\ low[n - 1] \in Int
    BY <1>3, <1>5, <2>1
  <2> QED BY <1>1, <2>2, RandTurns
<1>7. Draws(x, low)
  <2>1. 0 \in 0 .. 37
    OBVIOUS
  <2>2. low[0] = x
    BY <1>3, <2>1
  <2> QED BY <1>5, <1>6, <2>2 DEF Draws
<1>8. \A n \in 1 .. 37 : low[n] \div 65536 \in 0 .. 15
  <2>1. SUFFICES ASSUME NEW n \in 1 .. 37 PROVE low[n] \div 65536 \in 0 .. 15
    OBVIOUS
  <2> DEFINE y == low[n]
             d == y \div 65536
             e == y % 65536
  <2>2. y \in Int /\ 0 <= y /\ y < 1048576
    BY <1>6, SMT DEF IsLow
  <2> HIDE DEF y
  <2>3. d \in Int /\ e \in Int /\ y = 65536 * d + e /\ 0 <= e /\ e < 65536
    BY <2>2, Division
  <2> HIDE DEF d, e
  <2>4. 0 <= d /\ d <= 15
    BY <2>2, <2>3
  <2>5. d \in 0 .. 15
    BY <2>3, <2>4
  <2> QED BY <2>5 DEF d, y
<1> QED BY <1>1, <1>7, <1>8

\* States with the same digit are close.
Close(d) == d \in Int /\ - 65535 <= d /\ d <= 65535

LEMMA SameDigitIsClose ==
  ASSUME NEW a \in Int, NEW b \in Int, a \div 65536 = b \div 65536
  PROVE  Close(a - b)
<1> DEFINE d == a \div 65536
           r == a % 65536
           s == b % 65536
<1>1. /\ d \in Int /\ r \in Int /\ s \in Int
      /\ a = 65536 * d + r /\ b = 65536 * d + s
      /\ 0 <= r /\ r < 65536 /\ 0 <= s /\ s < 65536
  BY Division
<1> HIDE DEF d, r, s
<1> QED BY <1>1 DEF Close

LEMMA DistanceStep ==
  ASSUME NEW a \in Int, NEW b \in Int, NEW u \in Int, NEW v \in Int,
         \E k \in Int : After(a, u, k), \E k \in Int : After(b, v, k)
  PROVE  \E k \in Int : Apart(a - b, u - v, k)
<1>1. PICK i \in Int : After(a, u, i)
  OBVIOUS
<1>2. PICK j \in Int : After(b, v, j)
  OBVIOUS
<1>3. i - j \in Int /\ Apart(a - b, u - v, i - j)
  BY <1>1, <1>2, SMT DEF After, Apart
<1> QED BY <1>3

\* A whole turn is not close to none.
LEMMA NoTurn ==
  ASSUME NEW m \in Int, - 1048576 < 1048576 * m, 1048576 * m < 1048576
  PROVE  m = 0
OBVIOUS

\* The distances of two runs that show the same digit at the eight places before
\* the first hyphen and at the first after it are zero: but for turns each is
\* the first times a power of 900277, nine combinations of them are too small
\* for turns, and together these have no other solution.
LEMMA NoCloseDistances ==
  ASSUME NEW d \in [1 .. 10 -> Int], NEW l \in [2 .. 10 -> Int],
         \A p \in 2 .. 10 : Apart(d[p - 1], d[p], l[p]),
         \A p \in (1 .. 8) \cup {10} : Close(d[p])
  PROVE  d[1] = 0
<1> DEFINE d1 == d[1]   d2 == d[2]   d3 == d[3]   d4 == d[4]   d5 == d[5]
           d6 == d[6]   d7 == d[7]   d8 == d[8]   d9 == d[9]   d10 == d[10]
           l2 == l[2]   l3 == l[3]   l4 == l[4]   l5 == l[5]
           l6 == l[6]   l7 == l[7]   l8 == l[8]   l9 == l[9]   l10 == l[10]
<1>1. /\ d1 \in Int /\ d2 \in Int /\ d3 \in Int /\ d4 \in Int /\ d5 \in Int
      /\ d6 \in Int /\ d7 \in Int /\ d8 \in Int /\ d9 \in Int /\ d10 \in Int
      /\ l2 \in Int /\ l3 \in Int /\ l4 \in Int /\ l5 \in Int
      /\ l6 \in Int /\ l7 \in Int /\ l8 \in Int /\ l9 \in Int /\ l10 \in Int
  BY SMT
<1>2. /\ d2 = 900277 * d1 + 1048576 * l2
      /\ d3 = 900277 * d2 + 1048576 * l3
      /\ d4 = 900277 * d3 + 1048576 * l4
      /\ d5 = 900277 * d4 + 1048576 * l5
      /\ d6 = 900277 * d5 + 1048576 * l6
      /\ d7 = 900277 * d6 + 1048576 * l7
      /\ d8 = 900277 * d7 + 1048576 * l8
      /\ d9 = 900277 * d8 + 1048576 * l9
      /\ d10 = 900277 * d9 + 1048576 * l10
  BY SMT DEF Apart
<1>3. /\ - 65535 <= d1 /\ d1 <= 65535 /\ - 65535 <= d2 /\ d2 <= 65535
      /\ - 65535 <= d3 /\ d3 <= 65535 /\ - 65535 <= d4 /\ d4 <= 65535
      /\ - 65535 <= d5 /\ d5 <= 65535 /\ - 65535 <= d6 /\ d6 <= 65535
      /\ - 65535 <= d7 /\ d7 <= 65535 /\ - 65535 <= d8 /\ d8 <= 65535
      /\ - 65535 <= d10 /\ d10 <= 65535
  BY SMT DEF Close
<1> HIDE DEF d1, d2, d3, d4, d5, d6, d7, d8, d9, d10,
             l2, l3, l4, l5, l6, l7, l8, l9, l10
<1> DEFINE k2 == l2
           k3 == 900277 * k2 + 772951 * d1 + l3
           k4 == 900277 * k3 + 694543 * d1 + l4
           k5 == 900277 * k4 + 565981 * d1 + l5
           k6 == 900277 * k5 + 179394 * d1 + l6
           k7 == 900277 * k6 + 115753 * d1 + l7
           k8 == 900277 * k7 + 367201 * d1 + l8
           k9 == 900277 * k8 + 355514 * d1 + l9
           k10 == 900277 * k9 + 473300 * d1 + l10
<1>4. k2 \in Int /\ d2 = 900277 * d1 + 1048576 * k2
  BY <1>1, <1>2, SMT
<1>5. k3 \in Int /\ d3 = 808953 * d1 + 1048576 * k3
  BY <1>1, <1>2, <1>4, SMT
<1>6. k4 \in Int /\ d4 = 659213 * d1 + 1048576 * k4
  BY <1>1, <1>2, <1>5, SMT
<1>7. k5 \in Int /\ d5 = 208945 * d1 + 1048576 * k5
  BY <1>1, <1>2, <1>6, SMT
<1>8. k6 \in Int /\ d6 = 134821 * d1 + 1048576 * k6
  BY <1>1, <1>2, <1>7, SMT
<1>9. k7 \in Int /\ d7 = 427689 * d1 + 1048576 * k7
  BY <1>1, <1>2, <1>8, SMT
<1>10. k8 \in Int /\ d8 = 414077 * d1 + 1048576 * k8
  BY <1>1, <1>2, <1>9, SMT
<1>11. k9 \in Int /\ d9 = 551265 * d1 + 1048576 * k9
  BY <1>1, <1>2, <1>10, SMT
<1>12. k10 \in Int /\ d10 = 179605 * d1 + 1048576 * k10
  BY <1>1, <1>2, <1>11, SMT
<1> HIDE DEF k2, k3, k4, k5, k6, k7, k8, k9, k10
<1>13. d2 + d3 + d4 + 3 * d6 + d7 - d8 + 2 * d10 = 0
  <2> DEFINE m == 3 * d1 + k2 + k3 + k4 + 3 * k6 + k7 - k8 + 2 * k10
  <2>1. m \in Int /\ d2 + d3 + d4 + 3 * d6 + d7 - d8 + 2 * d10 = 1048576 * m
    BY <1>1, <1>4, <1>5, <1>6, <1>8, <1>9, <1>10, <1>12, SMT
  <2> HIDE DEF m
  <2>2. - 1048576 < 1048576 * m /\ 1048576 * m < 1048576
    BY <1>1, <1>3, <2>1, SMT
  <2> QED BY <2>1, <2>2, NoTurn, SMT
<1>14. - 2 * d1 + d2 + d3 + d4 - d5 + 2 * d6 + 2 * d7 - 2 * d8 - 2 * d10 = 0
  <2> DEFINE m == 2 * d1 + k2 + k3 + k4 - k5 + 2 * k6 + 2 * k7 - 2 * k8 - 2 * k10
  <2>1. m \in Int /\ - 2 * d1 + d2 + d3 + d4 - d5 + 2 * d6 + 2 * d7 - 2 * d8 - 2 * d10 = 1048576 * m
    BY <1>1, <1>4, <1>5, <1>6, <1>7, <1>8, <1>9, <1>10, <1>12, SMT
  <2> HIDE DEF m
  <2>2. - 1048576 < 1048576 * m /\ 1048576 * m < 1048576
    BY <1>1, <1>3, <2>1, SMT
  <2> QED BY <2>1, <2>2, NoTurn, SMT
<1>15. 2 * d1 - d3 + 2 * d4 + d5 - 4 * d10 = 0
  <2> DEFINE m == - k3 + 2 * k4 + k5 - 4 * k10
  <2>1. m \in Int /\ 2 * d1 - d3 + 2 * d4 + d5 - 4 * d10 = 1048576 * m
    BY <1>1, <1>5, <1>6, <1>7, <1>12, SMT
  <2> HIDE DEF m
  <2>2. - 1048576 < 1048576 * m /\ 1048576 * m < 1048576
    BY <1>1, <1>3, <2>1, SMT
  <2> QED BY <2>1, <2>2, NoTurn, SMT
<1>16. - 2 * d1 + d2 - d3 + 2 * d4 - 3 * d5 - d6 + 2 * d7 + d8 + d10 = 0
  <2> DEFINE m == 2 * d1 + k2 - k3 + 2 * k4 - 3 * k5 - k6 + 2 * k7 + k8 + k10
  <2>1. m \in Int /\ - 2 * d1 + d2 - d3 + 2 * d4 - 3 * d5 - d6 + 2 * d7 + d8 + d10 = 1048576 * m
    BY <1>1, <1>4, <1>5, <1>6, <1>7, <1>8, <1>9, <1>10, <1>12, SMT
  <2> HIDE DEF m
  <2>2. - 1048576 < 1048576 * m /\ 1048576 * m < 1048576
    BY <1>1, <1>3, <2>1, SMT
  <2> QED BY <2>1, <2>2, NoTurn, SMT
<1>17. 3 * d1 - d3 - d4 + 3 * d5 + 2 * d7 - 3 * d8 + d10 = 0
  <2> DEFINE m == - d1 - k3 - k4 + 3 * k5 + 2 * k7 - 3 * k8 + k10
  <2>1. m \in Int /\ 3 * d1 - d3 - d4 + 3 * d5 + 2 * d7 - 3 * d8 + d10 = 1048576 * m
    BY <1>1, <1>5, <1>6, <1>7, <1>9, <1>10, <1>12, SMT
  <2> HIDE DEF m
  <2>2. - 1048576 < 1048576 * m /\ 1048576 * m < 1048576
    BY <1>1, <1>3, <2>1, SMT
  <2> QED BY <2>1, <2>2, NoTurn, SMT
<1>18. - 3 * d2 - 3 * d3 + 2 * d4 - d5 - d6 - 2 * d7 - d8 + d10 = 0
  <2> DEFINE m == - 5 * d1 - 3 * k2 - 3 * k3 + 2 * k4 - k5 - k6 - 2 * k7 - k8 + k10
  <2>1. m \in Int /\ - 3 * d2 - 3 * d3 + 2 * d4 - d5 - d6 - 2 * d7 - d8 + d10 = 1048576 * m
    BY <1>1, <1>4, <1>5, <1>6, <1>7, <1>8, <1>9, <1>10, <1>12, SMT
  <2> HIDE DEF m
  <2>2. - 1048576 < 1048576 * m /\ 1048576 * m < 1048576
    BY <1>1, <1>3, <2>1, SMT
  <2> QED BY <2>1, <2>2, NoTurn, SMT
<1>19. 2 * d2 + 2 * d4 - 3 * d7 - 4 * d8 - d10 = 0
  <2> DEFINE m == 2 * k2 + 2 * k4 - 3 * k7 - 4 * k8 - k10
  <2>1. m \in Int /\ 2 * d2 + 2 * d4 - 3 * d7 - 4 * d8 - d10 = 1048576 * m
    BY <1>1, <1>4, <1>6, <1>9, <1>10, <1>12, SMT
  <2> HIDE DEF m
  <2>2. - 1048576 < 1048576 * m /\ 1048576 * m < 1048576
    BY <1>1, <1>3, <2>1, SMT
  <2> QED BY <2>1, <2>2, NoTurn, SMT
<1>20. - 2 * d1 + d2 - 2 * d3 - 3 * d4 + 3 * d6 + 3 * d8 = 0
  <2> DEFINE m == - d1 + k2 - 2 * k3 - 3 * k4 + 3 * k6 + 3 * k8
  <2>1. m \in Int /\ - 2 * d1 + d2 - 2 * d3 - 3 * d4 + 3 * d6 + 3 * d8 = 1048576 * m
    BY <1>1, <1>4, <1>5, <1>6, <1>8, <1>10, SMT
  <2> HIDE DEF m
  <2>2. - 1048576 < 1048576 * m /\ 1048576 * m < 1048576
    BY <1>1, <1>3, <2>1, SMT
  <2> QED BY <2>1, <2>2, NoTurn, SMT
<1>21. 3 * d1 - d3 - d4 - 4 * d5 - 4 * d7 - d10 = 0
  <2> DEFINE m == - 4 * d1 - k3 - k4 - 4 * k5 - 4 * k7 - k10
  <2>1. m \in Int /\ 3 * d1 - d3 - d4 - 4 * d5 - 4 * d7 - d10 = 1048576 * m
    BY <1>1, <1>5, <1>6, <1>7, <1>9, <1>12, SMT
  <2> HIDE DEF m
  <2>2. - 1048576 < 1048576 * m /\ 1048576 * m < 1048576
    BY <1>1, <1>3, <2>1, SMT
  <2> QED BY <2>1, <2>2, NoTurn, SMT
<1>22. d1 = 0
  BY <1>1, <1>13, <1>14, <1>15, <1>16, <1>17, <1>18, <1>19, <1>20, <1>21, SMT
<1> QED BY <1>22 DEF d1

\* As many digits as come before the eleventh character of an identifier tell
\* which of the 2^20 states it has been made from.
LEMMA DigitsTell ==
  ASSUME NEW x, IsLow(x), NEW y, IsLow(y),
         \A p \in (1 .. 8) \cup {10} : Drawn(x)[p] = Drawn(y)[p]
  PROVE  x = y
<1>1. PICK f : Draws(x, f)
  BY DrawnDraws, Zenon
<1>2. PICK g : Draws(y, g)
  BY DrawnDraws, Zenon
<1> DEFINE d == [p \in 1 .. 10 |-> f[p] - g[p]]
           l == [p \in 2 .. 10 |-> CHOOSE k \in Int : Apart(d[p - 1], d[p], k)]
<1>3. ASSUME NEW p \in 1 .. 37
      PROVE  /\ f[p] \in Int /\ g[p] \in Int
             /\ \E k \in Int : Apart(f[p - 1] - g[p - 1], f[p] - g[p], k)
  <2>1. p \in 0 .. 37 /\ p - 1 \in 0 .. 37
    OBVIOUS
  <2>2. f[p] \in Int /\ g[p] \in Int /\ f[p - 1] \in Int /\ g[p - 1] \in Int
    BY <1>1, <1>2, <2>1 DEF Draws
  <2>3. (\E k \in Int : After(f[p - 1], f[p], k)) /\ (\E k \in Int : After(g[p - 1], g[p], k))
    BY <1>1, <1>2 DEF Draws
  <2> QED BY <2>2, <2>3, DistanceStep
<1>4. d \in [1 .. 10 -> Int]
  BY <1>3
<1>5. ASSUME NEW p \in 2 .. 10
      PROVE  l[p] \in Int /\ Apart(d[p - 1], d[p], l[p])
  <2>1. p \in 1 .. 10 /\ p - 1 \in 1 .. 10 /\ p \in 1 .. 37
    OBVIOUS
  <2>2. \E k \in Int : Apart(d[p - 1], d[p], k)
    BY <1>3, <2>1
  <2> HIDE DEF d
  <2>3. l[p] = CHOOSE k \in Int : Apart(d[p - 1], d[p], k)
    OBVIOUS
  <2> HIDE DEF l
  <2> QED BY <2>2, <2>3
<1>6. l \in [2 .. 10 -> Int] /\ \A p \in 2 .. 10 : Apart(d[p - 1], d[p], l[p])
  <2>1. l = [p \in 2 .. 10 |-> l[p]]
    OBVIOUS
  <2> HIDE DEF l, d
  <2> QED BY <1>5, <2>1
<1>7. \A p \in (1 .. 8) \cup {10} : Close(d[p])
  <2>1. SUFFICES ASSUME NEW p \in (1 .. 8) \cup {10} PROVE Close(f[p] - g[p])
    OBVIOUS
  <2>2. p \in 1 .. 37
    OBVIOUS
  <2>3. f[p] \div 65536 = g[p] \div 65536
    BY <1>1, <1>2, <2>2, SMT DEF Draws
  <2>4. f[p] \in Int /\ g[p] \in Int
    BY <1>3, <2>2
  <2> HIDE DEF d
  <2> QED BY <2>3, <2>4, SameDigitIsClose, SMT
<1>8. f[1] - g[1] = d[1]
  OBVIOUS
<1> HIDE DEF l, d
<1>9. d[1] = 0
  BY <1>4, <1>6, <1>7, NoCloseDistances
<1>10. f[0] = x /\ g[0] = y
  BY <1>1, <1>2 DEF Draws
<1>11. PICK k \in Int : Apart(x - y, 0, k)
  <2>1. 1 \in 1 .. 37 /\ 1 - 1 = 0
    OBVIOUS
  <2>2. \E k \in Int : Apart(f[0] - g[0], f[1] - g[1], k)
    BY <1>3, <2>1
  <2> QED BY <1>8, <1>9, <1>10, <2>2
<1> DEFINE m == 355542 * (x - y) + 414109 * k
<1>12. m \in Int /\ y - x = 1048576 * m /\ x \in Int /\ y \in Int
  BY <1>11, SMT DEF Apart, IsLow
<1> HIDE DEF m
<1>13. - 1048576 < 1048576 * m /\ 1048576 * m < 1048576
  BY <1>12, SMT DEF IsLow
<1>14. m = 0
  BY <1>12, <1>13, NoTurn, SMT
<1> QED BY <1>12, <1>14, SMT

-----------------------------------------------------------------------------
(* Identifiers.                                                            *)

LEMMA HexTells ==
  ASSUME NEW d \in 0 .. 15
  PROVE  /\ Hex(d) \in 45 .. 70
         /\ \A c \in 0 .. 15 : Hex(c) = Hex(d) => c = d
BY DEF Hex

LEMMA ResidueIsLow ==
  ASSUME NEW a \in Nat
  PROVE  IsLow(a % RandPeriod)
BY SMT DEF IsLow, RandPeriod

\* The characters of an identifier.
LEMMA UuidIs ==
  ASSUME NEW seed \in Nat
  PROVE  /\ Uuid(seed) = [i \in 1 .. 36 |-> Uuid(seed)[i]]
         /\ \A i \in 1 .. 36 : Uuid(seed)[i] \in 45 .. 70
         /\ \A i \in (1 .. 8) \cup {10} : Uuid(seed)[i] = Hex(Drawn(seed % RandPeriod)[i])
<1> DEFINE u == Uuid(seed)
           r == Drawn(seed % RandPeriod)
<1>1. r \in [1 .. 37 -> 0 .. 15]
  <2>1. IsLow(seed % RandPeriod)
    BY ResidueIsLow
  <2> QED BY <2>1, DrawnDraws, Zenon
<1>2. /\ u = [i \in 1 .. 36 |-> u[i]]
      /\ \A i \in 1 .. 36 :
           u[i] = CASE i \in Hyphens -> 45
                    [] i = 15 -> Hex(4)
                    [] i = 20 -> Hex(Variant(r[i]))
                    [] OTHER -> Hex(r[i])
  BY DEF Uuid
<1> HIDE DEF u, r
<1>3. \A d \in 0 .. 15 : Variant(d) \in 0 .. 15
  BY DEF Variant
<1>4. ASSUME NEW i \in 1 .. 36
      PROVE  u[i] \in 45 .. 70
  <2>1. r[i] \in 0 .. 15 /\ Variant(r[i]) \in 0 .. 15
    BY <1>1, <1>3
  <2>2. Hex(r[i]) \in 45 .. 70 /\ Hex(Variant(r[i])) \in 45 .. 70 /\ Hex(4) \in 45 .. 70
    BY <2>1, HexTells
  <2>3. u[i] \in {45, Hex(4), Hex(Variant(r[i])), Hex(r[i])}
    BY <1>2
  <2> QED BY <2>2, <2>3
<1>5. ASSUME NEW i \in (1 .. 8) \cup {10}
      PROVE  u[i] = Hex(r[i])
  <2>1. i \in 1 .. 36 /\ i \notin Hyphens /\ i # 15 /\ i # 20
    BY DEF Hyphens
  <2> QED BY <1>2, <2>1
<1> QED BY <1>2, <1>4, <1>5 DEF u, r

LEMMA UuidIsCStr ==
  ASSUME NEW seed \in Nat
  PROVE  IsCStr(Uuid(seed))
<1> DEFINE u == Uuid(seed)
<1>1. u = [i \in 1 .. 36 |-> u[i]] /\ \A i \in 1 .. 36 : u[i] \in 45 .. 70
  BY UuidIs
<1> HIDE DEF u
<1>2. u \in Seq(45 .. 70) /\ Len(u) = 36
  BY <1>1, IsASeq
<1>3. 45 .. 70 \subseteq Bytes
  BY DEF Bytes
<1>4. u \in Seq(Bytes)
  BY <1>2, <1>3, SeqMonotonic
<1>5. \A k \in 45 .. 70 : k # 0
  OBVIOUS
<1>6. \A i \in 1 .. Len(u) : u[i] # 0
  BY <1>1, <1>2, <1>5, Zenon
<1>7. IsCStr(u)
  BY <1>4, <1>6 DEF IsCStr, Texts, Nul
<1> QED BY <1>7 DEF u

\* The seed keeps the low 20 bits of the time.
LEMMA SeedKeeps ==
  ASSUME NEW a \in Nat
  PROVE  Seed(a) \in Nat /\ Seed(a) % RandPeriod = a % RandPeriod
<1> DEFINE M == UINT_MAX + 1
           s == a % M
           q == a \div M
           c == M \div 1048576
           n == c * q
<1>1. M \in Nat \ {0} /\ M % 1048576 = 0
  BY SizesAssumption, SMT DEF RandPeriod
<1>2. Seed(a) = s
  BY DEF Seed
<1> HIDE DEF M
<1>3. q \in Int /\ s \in Int /\ a = M * q + s /\ 0 <= s
  BY <1>1, Division
<1>4. c \in Int /\ M = 1048576 * c
  BY <1>1, Division, SMT
<1> HIDE DEF q, s, c
<1>5. n \in Int /\ a = 1048576 * n + s
  BY <1>1, <1>3, <1>4, SMT
<1> HIDE DEF n
<1> DEFINE i == a \div 1048576
           j == s \div 1048576
           x == a % 1048576
           y == s % 1048576
           m == i - j - n
<1>6. /\ i \in Int /\ j \in Int /\ x \in Int /\ y \in Int
      /\ a = 1048576 * i + x /\ 0 <= x /\ x < 1048576
      /\ s = 1048576 * j + y /\ 0 <= y /\ y < 1048576
  BY <1>3, Division, SMT
<1> HIDE DEF i, j
<1>7. s % RandPeriod = y /\ a % RandPeriod = x
  BY DEF RandPeriod
<1> HIDE DEF x, y
<1>8. m \in Int /\ y - x = 1048576 * m
  BY <1>3, <1>5, <1>6, SMT
<1> HIDE DEF m
<1>9. m = 0
  <2>1. - 1048576 < 1048576 * m /\ 1048576 * m < 1048576
    BY <1>6, <1>8, SMT
  <2> QED BY <1>8, <2>1, NoTurn, SMT
<1>10. y = x
  BY <1>6, <1>8, <1>9, SMT
<1> QED BY <1>2, <1>3, <1>7, <1>10

\* Two seeds give the same identifier exactly if they agree in the low 20 bits.
LEMMA SameIds ==
  ASSUME NEW s \in Nat, NEW t \in Nat
  PROVE  Uuid(s) = Uuid(t) <=> s % RandPeriod = t % RandPeriod
<1> DEFINE x == s % RandPeriod
           y == t % RandPeriod
<1>1. ASSUME x = y PROVE Uuid(s) = Uuid(t)
  <2> DEFINE Made(r) == [i \in 1 .. 36 |-> CASE i \in Hyphens -> 45
                                              [] i = 15 -> Hex(4)
                                              [] i = 20 -> Hex(Variant(r[i]))
                                              [] OTHER -> Hex(r[i])]
  <2>1. Uuid(s) = Made(Drawn(x)) /\ Uuid(t) = Made(Drawn(y))
    BY Zenon DEF Uuid
  <2> HIDE DEF Made
  <2> QED BY <1>1, <2>1
<1>2. ASSUME Uuid(s) = Uuid(t) PROVE x = y
  <2>1. IsLow(x) /\ IsLow(y)
    BY ResidueIsLow
  <2>2. \A p \in (1 .. 8) \cup {10} : Hex(Drawn(x)[p]) = Hex(Drawn(y)[p])
    BY <1>2, UuidIs
  <2> HIDE DEF x, y
  <2>3. Drawn(x) \in [1 .. 37 -> 0 .. 15] /\ Drawn(y) \in [1 .. 37 -> 0 .. 15]
    BY <2>1, DrawnDraws, Zenon
  <2>4. ASSUME NEW p \in (1 .. 8) \cup {10}
        PROVE  Drawn(x)[p] = Drawn(y)[p]
    <3>1. Drawn(x)[p] \in 0 .. 15 /\ Drawn(y)[p] \in 0 .. 15
      BY <2>3
    <3> QED BY <2>2, <3>1, HexTells
  <2> QED BY <2>1, <2>4, DigitsTell
<1> QED BY <1>1, <1>2

-----------------------------------------------------------------------------
(* Headers.                                                                *)

\* The headers of a message of the producer, one by one.
LEMMA SixHeaders ==
  ASSUME NEW m \in Composed, NEW id \in Texts, NEW ms \in Nat
  PROVE  LET hs == CreateHeaders(m, id, ms)
         IN  /\ hs \in Headers /\ Len(hs) = 6 /\ DOMAIN hs = 1 .. 6
             /\ hs[1][1] = "x-message-id" /\ hs[1][2] = id
             /\ hs[2][1] = "x-timestamp" /\ hs[2][2] = Decimal(ms)
             /\ hs[3][1] = "x-command" /\ hs[3][2] = m.command
             /\ hs[4][1] = "x-message-version" /\ hs[4][2] = Decimal(m.version)
             /\ hs[5][1] = "x-content-type" /\ hs[5][2] = m.contentType
             /\ hs[6][1] = "x-user-agent" /\ hs[6][2] = UserAgent
             /\ \A n \in 1 .. 6 : hs[n][2] \in Texts
<1> DEFINE hs == CreateHeaders(m, id, ms)
           T == (Names \cup ForeignNames) \X (Texts \cup {NoText})
<1>1. /\ m.command \in Texts /\ m.contentType \in Texts /\ m.version \in Int
      /\ UserAgent \in Texts
  BY ComposedAssumption, TextAssumption
<1>2. Decimal(ms) \in Texts /\ Decimal(m.version) \in Texts
  BY <1>1, DecimalIsText DEF IsCStr
<1>3. /\ hs[1] = <<"x-message-id", id>>
      /\ hs[2] = <<"x-timestamp", Decimal(ms)>>
      /\ hs[3] = <<"x-command", m.command>>
      /\ hs[4] = <<"x-message-version", Decimal(m.version)>>
      /\ hs[5] = <<"x-content-type", m.contentType>>
      /\ hs[6] = <<"x-user-agent", UserAgent>>
      /\ Len(hs) = 6 /\ DOMAIN hs = 1 .. 6
      /\ hs = [n \in 1 .. 6 |-> hs[n]]
  BY DEF CreateHeaders
<1> HIDE DEF hs
<1>4. /\ hs[1] \in T /\ hs[2] \in T /\ hs[3] \in T
      /\ hs[4] \in T /\ hs[5] \in T /\ hs[6] \in T
  <2>1. \A name \in Names, t \in Texts : <<name, t>> \in T
    OBVIOUS
  <2>2. /\ "x-message-id" \in Names /\ "x-timestamp" \in Names
        /\ "x-command" \in Names /\ "x-message-version" \in Names
        /\ "x-content-type" \in Names /\ "x-user-agent" \in Names
    BY DEF Names
  <2> HIDE DEF T
  <2>3. hs[1] \in T /\ hs[2] \in T /\ hs[3] \in T
    BY <1>1, <1>2, <1>3, <2>1, <2>2
  <2>4. hs[4] \in T /\ hs[5] \in T /\ hs[6] \in T
    BY <1>1, <1>2, <1>3, <2>1, <2>2
  <2> QED BY <2>3, <2>4
<1> HIDE DEF T
<1>5. \A n \in 1 .. 6 : hs[n] \in T
  BY <1>4
<1>6. hs \in Seq(T)
  BY <1>3, <1>5, IsASeq
<1>7. \A n \in 1 .. 6 : hs[n][2] \in Texts
  BY <1>1, <1>2, <1>3
<1> QED BY <1>3, <1>6, <1>7 DEF hs, T, Headers

\* The default send callback finds the identifier.
LEMMA GetFindsId ==
  ASSUME NEW m \in Composed, NEW id \in Texts, NEW ms \in Nat
  PROVE  Get(CreateHeaders(m, id, ms), "x-message-id") = id
<1> DEFINE hs == CreateHeaders(m, id, ms)
           T == {n \in DOMAIN hs : hs[n][1] = "x-message-id"}
<1>1. T = {1} /\ hs[1][2] = id
  <2>1. /\ DOMAIN hs = 1 .. 6
        /\ hs[1][1] = "x-message-id" /\ hs[1][2] = id
        /\ hs[2][1] = "x-timestamp"
        /\ hs[3][1] = "x-command"
        /\ hs[4][1] = "x-message-version"
        /\ hs[5][1] = "x-content-type"
        /\ hs[6][1] = "x-user-agent"
    BY SixHeaders
  <2> HIDE DEF hs
  <2>2. \A n \in 2 .. 6 : hs[n][1] # "x-message-id"
    BY <2>1
  <2> QED BY <2>1, <2>2
<1> HIDE DEF hs, T
<1>2. Min(T) = 1
  BY <1>1, MinOf
<1> QED BY <1>1, <1>2 DEF Get, hs, T

\* What consume() makes of header n, if it has a value and no later one of the
\* name has.
LEMMA LastOfName ==
  ASSUME NEW hs \in Headers, NEW n \in 1 .. Len(hs), hs[n][2] # NoText,
         \A k \in 1 .. Len(hs) : hs[k][1] = hs[n][1] /\ hs[k][2] # NoText => k <= n
  PROVE  /\ hs[n][1] \in DOMAIN ReceivedHeaders(hs)
         /\ ReceivedHeaders(hs)[hs[n][1]] = CStr(hs[n][2])
<1> DEFINE given == {k \in DOMAIN hs : hs[k][2] # NoText}
           T == {k \in given : hs[k][1] = hs[n][1]}
<1>1. Len(hs) \in Nat /\ DOMAIN hs = 1 .. Len(hs)
  BY LenProperties DEF Headers
<1>2. n \in T /\ T \in SUBSET (0 .. Len(hs))
  BY <1>1
<1>3. Max(T) \in T /\ \A k \in T : k <= Max(T)
  BY <1>1, <1>2, MaxOf
<1>4. Max(T) = n
  <2>1. Max(T) \in 1 .. Len(hs) /\ Max(T) <= n /\ n <= Max(T)
    BY <1>1, <1>2, <1>3
  <2> QED BY <1>1, <2>1
<1>5. hs[n][1] \in {hs[k][1] : k \in given}
  BY <1>2
<1> HIDE DEF given
<1> QED BY <1>4, <1>5 DEF ReceivedHeaders, given

\* Every header consume() returns is the last one of its name with a value.
LEMMA EachOfOne ==
  ASSUME NEW hs \in Headers
  PROVE  /\ \A name \in DOMAIN ReceivedHeaders(hs) : \E n \in DOMAIN hs :
              /\ hs[n][1] = name /\ hs[n][2] # NoText
              /\ ReceivedHeaders(hs)[name] = CStr(hs[n][2])
              /\ \A k \in DOMAIN hs : hs[k][1] = name /\ hs[k][2] # NoText => k <= n
         /\ \A n \in DOMAIN hs :
              hs[n][1] \notin DOMAIN ReceivedHeaders(hs) => hs[n][2] = NoText
<1> DEFINE given == {k \in DOMAIN hs : hs[k][2] # NoText}
<1>1. Len(hs) \in Nat /\ DOMAIN hs = 1 .. Len(hs)
  BY LenProperties DEF Headers
<1>2. DOMAIN ReceivedHeaders(hs) = {hs[k][1] : k \in given}
  BY DEF ReceivedHeaders
<1>3. ASSUME NEW name \in DOMAIN ReceivedHeaders(hs)
      PROVE  \E n \in DOMAIN hs :
               /\ hs[n][1] = name /\ hs[n][2] # NoText
               /\ ReceivedHeaders(hs)[name] = CStr(hs[n][2])
               /\ \A k \in DOMAIN hs : hs[k][1] = name /\ hs[k][2] # NoText => k <= n
  <2> DEFINE T == {k \in given : hs[k][1] = name}
  <2>1. T # {} /\ T \in SUBSET (0 .. Len(hs))
    BY <1>1, <1>2
  <2>2. Max(T) \in T /\ \A k \in T : k <= Max(T)
    BY <1>1, <2>1, MaxOf
  <2> DEFINE n == Max(T)
  <2>3. /\ n \in 1 .. Len(hs) /\ hs[n][1] = name /\ hs[n][2] # NoText
        /\ \A k \in 1 .. Len(hs) : hs[k][1] = name /\ hs[k][2] # NoText => k <= n
    BY <1>1, <2>2
  <2> HIDE DEF n
  <2>4. ReceivedHeaders(hs)[name] = CStr(hs[n][2])
    BY <2>3, LastOfName
  <2> QED BY <1>1, <2>3, <2>4
<1>4. ASSUME NEW n \in DOMAIN hs, hs[n][1] \notin DOMAIN ReceivedHeaders(hs)
      PROVE  hs[n][2] = NoText
  BY <1>2, <1>4
<1> QED BY <1>3, <1>4

\* What the consumer should have of the headers of send s.
HeaderOf(s, name) ==
  CASE name = "x-message-id" -> s.id
    [] name = "x-timestamp" -> Decimal(s.ms)
    [] name = "x-command" -> CStr(s.message.command)
    [] name = "x-message-version" -> Decimal(s.message.version)
    [] name = "x-content-type" -> CStr(s.message.contentType)
    [] name = "x-user-agent" -> CStr(UserAgent)
HeadersOf(s) == [name \in Names |-> HeaderOf(s, name)]

LEMMA IdHeader == \A s : s.id = HeadersOf(s)["x-message-id"]
<1>1. "x-message-id" \in Names
  BY DEF Names
<1>2. \A s : HeaderOf(s, "x-message-id") = s.id
  BY DEF HeaderOf
<1> QED BY <1>1, <1>2 DEF HeadersOf

LEMMA SixReceived ==
  ASSUME NEW s, s.message \in Composed, IsCStr(s.id), s.ms \in Nat
  PROVE  ReceivedHeaders(CreateHeaders(s.message, s.id, s.ms)) = HeadersOf(s)
<1> DEFINE hs == CreateHeaders(s.message, s.id, s.ms)
           f == ReceivedHeaders(hs)
<1>1. s.id \in Texts
  BY DEF IsCStr
<1>2. /\ hs \in Headers /\ Len(hs) = 6 /\ DOMAIN hs = 1 .. 6
      /\ hs[1][1] = "x-message-id" /\ hs[1][2] = s.id
      /\ hs[2][1] = "x-timestamp" /\ hs[2][2] = Decimal(s.ms)
      /\ hs[3][1] = "x-command" /\ hs[3][2] = s.message.command
      /\ hs[4][1] = "x-message-version" /\ hs[4][2] = Decimal(s.message.version)
      /\ hs[5][1] = "x-content-type" /\ hs[5][2] = s.message.contentType
      /\ hs[6][1] = "x-user-agent" /\ hs[6][2] = UserAgent
      /\ \A n \in 1 .. 6 : hs[n][2] \in Texts
  BY <1>1, SixHeaders
<1> HIDE DEF hs
<1>3. \A n \in 1 .. 6 : hs[n][2] # NoText
  BY <1>2, TextAssumption
<1>4. \A n, k \in 1 .. 6 : hs[k][1] = hs[n][1] => k = n
  BY <1>2
<1>5. ASSUME NEW n \in 1 .. 6
      PROVE  hs[n][1] \in DOMAIN f /\ f[hs[n][1]] = CStr(hs[n][2])
  <2>1. \A k \in 1 .. Len(hs) : hs[k][1] = hs[n][1] /\ hs[k][2] # NoText => k <= n
    BY <1>2, <1>4
  <2>2. n \in 1 .. Len(hs) /\ hs[n][2] # NoText
    BY <1>2, <1>3
  <2> QED BY <1>2, <2>1, <2>2, LastOfName
<1>6. DOMAIN f = Names
  <2>1. \A name \in DOMAIN f : \E n \in 1 .. 6 : hs[n][1] = name
    BY <1>2, EachOfOne
  <2>2. \A n \in 1 .. 6 : hs[n][1] \in Names
    BY <1>2 DEF Names
  <2>3. \A name \in Names : \E n \in 1 .. 6 : hs[n][1] = name
    BY <1>2 DEF Names
  <2> QED BY <1>5, <2>1, <2>2, <2>3
<1>7. f = [name \in DOMAIN f |-> f[name]]
  BY DEF ReceivedHeaders
<1>8. /\ CStr(s.id) = s.id
      /\ CStr(Decimal(s.ms)) = Decimal(s.ms)
      /\ CStr(Decimal(s.message.version)) = Decimal(s.message.version)
  <2>1. s.message.version \in Int /\ s.ms \in Int
    BY ComposedAssumption
  <2> QED BY <2>1, CStrOfCStr, DecimalIsText
<1>9. /\ f["x-message-id"] = s.id
      /\ f["x-timestamp"] = Decimal(s.ms)
      /\ f["x-command"] = CStr(s.message.command)
      /\ f["x-message-version"] = Decimal(s.message.version)
      /\ f["x-content-type"] = CStr(s.message.contentType)
      /\ f["x-user-agent"] = CStr(UserAgent)
  <2>1. /\ f[hs[1][1]] = CStr(hs[1][2]) /\ f[hs[2][1]] = CStr(hs[2][2])
        /\ f[hs[3][1]] = CStr(hs[3][2]) /\ f[hs[4][1]] = CStr(hs[4][2])
        /\ f[hs[5][1]] = CStr(hs[5][2]) /\ f[hs[6][1]] = CStr(hs[6][2])
    BY <1>5
  <2> HIDE DEF f
  <2> QED BY <1>2, <1>8, <2>1
<1> HIDE DEF f
<1>10. \A name \in Names : f[name] = HeaderOf(s, name)
  BY <1>9 DEF Names, HeaderOf
<1>11. f = HeadersOf(s)
  BY <1>6, <1>7, <1>10 DEF HeadersOf
<1> QED BY <1>11 DEF f, hs

-----------------------------------------------------------------------------
(* The inductive invariant.                                                *)

SentType == [message : Composed, at : Nat, ms : Nat, id : Texts]
RecordType == [from : Nat, key : Texts \cup {NoText}, headers : Headers,
               body : Texts \cup {NoText}]

\* The variables have their types.
TypeInv ==
  /\ clock \in Nat
  /\ sent \in Seq(SentType)
  /\ Len(sent) <= MaxSends
  /\ headers \in [SendIds -> Headers]
  /\ owners \in [SendIds -> SUBSET {"caller", "message", "report"}]
  /\ destroyed \in [SendIds -> Nat]
  /\ state \in [SendIds -> States]
  /\ log \in Seq(RecordType)
  /\ next \in 1 .. Len(log) + 1
  /\ got \in BOOLEAN
  /\ undefined \in Undefineds

\* The identifier is made of the time it was made at, and the header list of
\* what was sent.
SentInv ==
  \A i \in 1 .. Len(sent) :
    /\ sent[i].at <= clock
    /\ sent[i].id = Uuid(Seed(sent[i].at))
    /\ headers[i] = CreateHeaders(sent[i].message, sent[i].id, sent[i].ms)

\* Who has to destroy the header list in each state, and how often it has been.
OwnerInv ==
  \A i \in SendIds :
    /\ state[i] = "none" => owners[i] = {} /\ destroyed[i] = 0
    /\ state[i] = "created" => owners[i] = {"caller"} /\ destroyed[i] = 0
    /\ state[i] = "accepted" => owners[i] = {"message"} /\ destroyed[i] = 0
    /\ state[i] = "reporting" =>
         (owners[i] = {"message"} \/ owners[i] = {"report"}) /\ destroyed[i] = 0
    /\ state[i] \in {"refused", "reported"} => owners[i] = {} /\ destroyed[i] = 1

\* The send() calls that have begun.
BegunInv ==
  \A i \in SendIds : state[i] = "none" <=> i > Len(sent)

\* What has been printed.
PrintedInv ==
  /\ printed = [i \in SendIds |-> printed[i]]
  /\ \A i \in SendIds :
       printed[i] # NoText => i \in 1 .. Len(sent) /\ printed[i] = sent[i].id

\* r is the record of s.
RecordOf(s, r) ==
  /\ r.key = s.message.key
  /\ r.headers = CreateHeaders(s.message, s.id, s.ms)
  /\ r.body = s.message.contents

LogInv ==
  \A n \in 1 .. Len(log) :
    log[n].from # 0 =>
      log[n].from \in 1 .. Len(sent) /\ RecordOf(sent[log[n].from], log[n])

\* What the caller has received is the conversion of one record.
ReceivedInv ==
  got => /\ next - 1 \in 1 .. Len(log)
         /\ Harm(log[next - 1]) = "no"
         /\ received = ReadInto(log[next - 1], <<>>)

\* What has made the program undefined.
HarmInv ==
  /\ undefined = "version" =>
       \E i \in 1 .. Len(sent) : Overflows(sent[i].message.version)
  /\ undefined \in {"key", "body"} =>
       \E n \in 1 .. Len(log) : Harm(log[n]) # "no"

Inv ==
  /\ TypeInv /\ SentInv /\ OwnerInv /\ BegunInv /\ PrintedInv /\ LogInv
  /\ ReceivedInv /\ HarmInv

-----------------------------------------------------------------------------
(* It holds at the start, and every step keeps it.                         *)

LEMMA InitInv == Init => Inv
<1> SUFFICES ASSUME Init PROVE Inv
  OBVIOUS
<1>1. /\ sent = <<>> /\ log = <<>> /\ Len(sent) = 0 /\ Len(log) = 0
      /\ sent \in Seq(SentType) /\ log \in Seq(RecordType)
      /\ <<>> \in Headers
  BY DEF Init, Headers
<1>2. TypeInv
  <2>1. clock \in Nat /\ Len(sent) <= MaxSends /\ next \in 1 .. Len(log) + 1
    BY <1>1, SizesAssumption DEF Init
  <2>2. headers \in [SendIds -> Headers] /\ destroyed \in [SendIds -> Nat]
    BY <1>1 DEF Init
  <2>3. owners \in [SendIds -> SUBSET {"caller", "message", "report"}]
    BY DEF Init
  <2>4. state \in [SendIds -> States] /\ got \in BOOLEAN /\ undefined \in Undefineds
    BY DEF Init, States, Undefineds
  <2> QED BY <1>1, <2>1, <2>2, <2>3, <2>4 DEF TypeInv
<1>3. SentInv /\ LogInv
  BY <1>1 DEF SentInv, LogInv
<1>4. OwnerInv
  BY DEF Init, OwnerInv
<1>5. BegunInv
  BY <1>1 DEF Init, BegunInv, SendIds
<1>6. PrintedInv
  BY DEF Init, PrintedInv
<1>7. ReceivedInv /\ HarmInv
  BY DEF Init, ReceivedInv, HarmInv
<1> QED BY <1>2, <1>3, <1>4, <1>5, <1>6, <1>7 DEF Inv

\* t goes on after s.
Longer(s, t) == Len(s) <= Len(t) /\ \A i \in 1 .. Len(s) : t[i] = s[i]

LEMMA LongerByOne ==
  ASSUME NEW S, NEW s \in Seq(S), NEW e \in S
  PROVE  /\ Append(s, e) \in Seq(S)
         /\ Len(s) \in Nat /\ Len(Append(s, e)) = Len(s) + 1
         /\ Append(s, e)[Len(s) + 1] = e
         /\ Longer(s, Append(s, e))
BY AppendProperties, LenProperties DEF Longer

\* What Create(m) does, with the time that has passed already chosen.
Created(m, us, ms) ==
  LET i  == Len(sent) + 1
      id == Uuid(Seed(us))
  IN  /\ us \in Nat /\ ms \in Nat /\ clock <= us /\ clock' = us
      /\ i \in SendIds
      /\ IsCStr(id)
      /\ [message |-> m, at |-> us, ms |-> ms, id |-> id] \in SentType
      /\ sent' = Append(sent, [message |-> m, at |-> us, ms |-> ms, id |-> id])
      /\ CreateHeaders(m, id, ms) \in Headers
      /\ headers' = [headers EXCEPT ![i] = CreateHeaders(m, id, ms)]

LEMMA CreateCreates ==
  ASSUME TypeInv, NEW m \in Composed, Create(m)
  PROVE  \E us, ms \in Nat : Created(m, us, ms)
<1>1. PICK before \in Pauses, between \in Pauses :
        LET i  == Len(sent) + 1
            ms == (clock + before) \div 1000
            us == clock + before + between
            id == Uuid(Seed(us))
        IN  /\ clock' = us
            /\ sent' = Append(sent, [message |-> m, at |-> us, ms |-> ms, id |-> id])
            /\ headers' = [headers EXCEPT ![i] = CreateHeaders(m, id, ms)]
            /\ owners' = [owners EXCEPT ![i] = {"caller"}]
            /\ state' = [state EXCEPT ![i] = "created"]
  BY Zenon DEF Create
<1> DEFINE ms == (clock + before) \div 1000
           us == clock + before + between
           id == Uuid(Seed(us))
<1>2. clock \in Nat /\ before \in Nat /\ between \in Nat
  BY SizesAssumption DEF TypeInv
<1>3. us \in Nat /\ ms \in Nat /\ clock <= us
  BY <1>2
<1>4. /\ clock' = us
      /\ sent' = Append(sent, [message |-> m, at |-> us, ms |-> ms, id |-> id])
      /\ headers' = [headers EXCEPT ![Len(sent) + 1] = CreateHeaders(m, id, ms)]
  BY <1>1
<1> HIDE DEF us, ms
<1>5. IsCStr(id)
  BY <1>3, SeedKeeps, UuidIsCStr
<1>6. id \in Texts
  BY <1>5 DEF IsCStr
<1>7. Len(sent) + 1 \in SendIds
  <2>1. Len(sent) \in Nat /\ Len(sent) < MaxSends
    BY LenProperties DEF TypeInv, Create
  <2> QED BY <2>1, SizesAssumption DEF SendIds
<1>8. CreateHeaders(m, id, ms) \in Headers
  BY <1>3, <1>6, SixHeaders
<1>9. [message |-> m, at |-> us, ms |-> ms, id |-> id] \in SentType
  BY <1>3, <1>6 DEF SentType
<1>10. Created(m, us, ms)
  BY <1>3, <1>4, <1>5, <1>7, <1>8, <1>9 DEF Created
<1> QED BY <1>3, <1>10

\* The record of a send() call, or of another producer, has the type.
LEMMA WrittenType ==
  ASSUME TypeInv, SentInv, BegunInv, NEW i \in SendIds, Written(i)
  PROVE  /\ i \in 1 .. Len(sent) /\ i # 0
         /\ [from |-> i, key |-> sent[i].message.key, headers |-> headers[i],
             body |-> sent[i].message.contents] \in RecordType
<1>1. i \in Nat /\ i # 0
  BY DEF SendIds
<1>2. Len(sent) \in Nat
  BY LenProperties DEF TypeInv
<1>3. i \in 1 .. Len(sent)
  BY <1>1, <1>2 DEF Written, BegunInv, SendIds
<1>4. sent[i] \in SentType
  BY <1>3, ElementOfSeq DEF TypeInv
<1>5. sent[i].message \in Composed
  BY <1>4 DEF SentType
<1>6. sent[i].message.key \in Texts /\ sent[i].message.contents \in Texts
  BY <1>5, ComposedAssumption
<1>7. headers[i] \in Headers
  BY DEF TypeInv
<1> QED BY <1>1, <1>3, <1>6, <1>7 DEF RecordType

LEMMA OtherType ==
  ASSUME NEW r \in Foreign
  PROVE  [from |-> 0, key |-> r.key, headers |-> r.headers, body |-> r.body] \in RecordType
<1>1. r.key \in Texts \cup {NoText} /\ r.headers \in Headers /\ r.body \in Texts \cup {NoText}
  BY ForeignAssumption
<1> QED BY <1>1 DEF RecordType

\* Time, what was sent and the topic only grow.
LEMMA Grow ==
  ASSUME TypeInv, SentInv, BegunInv, [Next]_vars
  PROVE  /\ clock \in Nat /\ clock' \in Nat /\ clock <= clock'
         /\ Longer(sent, sent') /\ Longer(log, log')
<1>1. /\ clock \in Nat /\ sent \in Seq(SentType) /\ log \in Seq(RecordType)
      /\ Len(sent) \in Nat /\ Len(log) \in Nat
  BY LenProperties DEF TypeInv
<1>2. Longer(sent, sent) /\ Longer(log, log)
  BY <1>1 DEF Longer
<1>3. CASE UNCHANGED <<clock, sent, log>>
  BY <1>1, <1>2, <1>3
<1>4. ASSUME NEW m \in Composed, Create(m)
      PROVE  /\ clock' \in Nat /\ clock <= clock'
             /\ Longer(sent, sent') /\ Longer(log, log')
  <2>1. PICK us, ms \in Nat : Created(m, us, ms)
    BY <1>4, CreateCreates
  <2>2. clock' \in Nat /\ clock <= clock' /\ Longer(sent, sent')
    BY <1>1, <2>1, LongerByOne DEF Created
  <2> QED BY <1>2, <1>4, <2>2 DEF Create
<1>5. ASSUME NEW i \in SendIds, Written(i)
      PROVE  clock' = clock /\ sent' = sent /\ Longer(log, log')
  BY <1>1, <1>5, WrittenType, LongerByOne DEF Written
<1>6. ASSUME NEW r \in Foreign, WrittenByOther(r)
      PROVE  clock' = clock /\ sent' = sent /\ Longer(log, log')
  BY <1>1, <1>6, OtherType, LongerByOne DEF WrittenByOther
<1>7. \/ \E m \in Composed : Create(m)
      \/ \E i \in SendIds : Written(i)
      \/ \E r \in Foreign : WrittenByOther(r)
      \/ UNCHANGED <<clock, sent, log>>
  BY DEF Next, vars, Accepted, Refused, Report, Reported, Consume, ConsumeFails
<1> QED BY <1>1, <1>2, <1>3, <1>4, <1>5, <1>6, <1>7

\* While a report is handed over the header list has one owner.
LEMMA OneOwner ==
  ASSUME OwnerInv, NEW i \in SendIds, state[i] = "reporting"
  PROVE  Cardinality(owners[i]) = 1 /\ destroyed[i] = 0
<1>1. destroyed[i] = 0 /\ (owners[i] = {"message"} \/ owners[i] = {"report"})
  BY DEF OwnerInv
<1>2. Cardinality({"message"}) = 1 /\ Cardinality({"report"}) = 1
  BY FS_Singleton
<1> QED BY <1>1, <1>2

LEMMA HarmType == \A r : Harm(r) \in {"no", "key", "body"}
BY DEF Harm

LEMMA TypeStep ==
  ASSUME TypeInv, SentInv, OwnerInv, BegunInv, [Next]_vars
  PROVE  TypeInv'
<1> USE SizesAssumption
<1>1. ASSUME NEW m \in Composed, Create(m)
      PROVE  TypeInv'
  <2>1. PICK us, ms \in Nat : Created(m, us, ms)
    BY <1>1, CreateCreates
  <2>2. clock' \in Nat
    BY <2>1 DEF Created
  <2>3. sent' \in Seq(SentType) /\ Len(sent') <= MaxSends
    <3>1. sent \in Seq(SentType) /\ Len(sent) + 1 <= MaxSends
      BY <2>1 DEF TypeInv, Created, SendIds
    <3> QED BY <2>1, <3>1, LongerByOne DEF Created
  <2>4. headers' \in [SendIds -> Headers]
    BY <2>1 DEF TypeInv, Created
  <2>5. owners' \in [SendIds -> SUBSET {"caller", "message", "report"}]
    <3>1. owners' = [owners EXCEPT ![Len(sent) + 1] = {"caller"}]
      BY <1>1 DEF Create
    <3> QED BY <3>1 DEF TypeInv
  <2>6. state' \in [SendIds -> States]
    <3>1. state' = [state EXCEPT ![Len(sent) + 1] = "created"]
      BY <1>1 DEF Create
    <3>2. "created" \in States
      BY DEF States
    <3> QED BY <3>1, <3>2 DEF TypeInv
  <2>7. undefined' \in Undefineds
    BY <1>1 DEF Create, Undefineds
  <2>8. UNCHANGED <<destroyed, log, next, got>>
    BY <1>1 DEF Create
  <2> QED BY <2>2, <2>3, <2>4, <2>5, <2>6, <2>7, <2>8 DEF TypeInv
<1>2. ASSUME NEW i \in SendIds, Accepted(i)
      PROVE  TypeInv'
  <2>1. owners' \in [SendIds -> SUBSET {"caller", "message", "report"}]
    BY <1>2 DEF TypeInv, Accepted
  <2>2. state' \in [SendIds -> States]
    BY <1>2 DEF TypeInv, Accepted, States
  <2> QED BY <1>2, <2>1, <2>2 DEF TypeInv, Accepted
<1>3. ASSUME NEW i \in SendIds, Refused(i)
      PROVE  TypeInv'
  <2>1. owners' \in [SendIds -> SUBSET {"caller", "message", "report"}]
    BY <1>3 DEF TypeInv, Refused
  <2>2. state' \in [SendIds -> States]
    BY <1>3 DEF TypeInv, Refused, States
  <2>3. destroyed' \in [SendIds -> Nat]
    BY <1>3 DEF TypeInv, Refused
  <2> QED BY <1>3, <2>1, <2>2, <2>3 DEF TypeInv, Refused
<1>4. ASSUME NEW i \in SendIds, Written(i)
      PROVE  TypeInv'
  <2>1. log' \in Seq(RecordType) /\ Len(log) \in Nat /\ Len(log') = Len(log) + 1
    <3>1. log \in Seq(RecordType)
      BY DEF TypeInv
    <3> QED BY <1>4, <3>1, WrittenType, LongerByOne DEF Written
  <2>2. next' \in 1 .. Len(log') + 1
    BY <1>4, <2>1 DEF TypeInv, Written
  <2> QED BY <1>4, <2>1, <2>2 DEF TypeInv, Written
<1>5. ASSUME NEW i \in SendIds, Report(i)
      PROVE  TypeInv'
  <2>1. owners' \in [SendIds -> SUBSET {"caller", "message", "report"}]
    <3>1. owners \in [SendIds -> SUBSET {"caller", "message", "report"}]
      BY DEF TypeInv
    <3>2. (owners[i] \ {"message"}) \cup {"report"} \in SUBSET {"caller", "message", "report"}
      BY <3>1
    <3>3. \/ owners' = [owners EXCEPT ![i] = (owners[i] \ {"message"}) \cup {"report"}]
          \/ owners' = owners
      BY <1>5 DEF Report
    <3> QED BY <3>1, <3>2, <3>3
  <2>2. state' \in [SendIds -> States]
    BY <1>5 DEF TypeInv, Report, States
  <2> QED BY <1>5, <2>1, <2>2 DEF TypeInv, Report
<1>6. ASSUME NEW i \in SendIds, Reported(i)
      PROVE  TypeInv'
  <2>1. owners' \in [SendIds -> SUBSET {"caller", "message", "report"}]
    BY <1>6 DEF TypeInv, Reported
  <2>2. state' \in [SendIds -> States]
    BY <1>6 DEF TypeInv, Reported, States
  <2>3. destroyed' \in [SendIds -> Nat]
    <3>1. Cardinality(owners[i]) = 1
      BY <1>6, OneOwner DEF Reported
    <3> QED BY <1>6, <3>1 DEF TypeInv, Reported
  <2> QED BY <1>6, <2>1, <2>2, <2>3 DEF TypeInv, Reported
<1>7. ASSUME NEW r \in Foreign, WrittenByOther(r)
      PROVE  TypeInv'
  <2>1. log' \in Seq(RecordType) /\ Len(log) \in Nat /\ Len(log') = Len(log) + 1
    <3>1. log \in Seq(RecordType)
      BY DEF TypeInv
    <3> QED BY <1>7, <3>1, OtherType, LongerByOne DEF WrittenByOther
  <2>2. next' \in 1 .. Len(log') + 1
    BY <1>7, <2>1 DEF TypeInv, WrittenByOther
  <2> QED BY <1>7, <2>1, <2>2 DEF TypeInv, WrittenByOther
<1>8. ASSUME Consume
      PROVE  TypeInv'
  <2>1. undefined' \in Undefineds
    BY <1>8, HarmType DEF Consume, Undefineds
  <2>2. next' \in 1 .. Len(log) + 1
    <3>1. Len(log) \in Nat
      BY LenProperties DEF TypeInv
    <3> QED BY <1>8, <3>1 DEF TypeInv, Consume
  <2> QED BY <1>8, <2>1, <2>2 DEF TypeInv, Consume
<1>9. ASSUME ConsumeFails
      PROVE  TypeInv'
  BY <1>9 DEF TypeInv, ConsumeFails
<1>10. CASE UNCHANGED vars
  BY <1>10 DEF TypeInv, vars
<1> QED BY <1>1, <1>2, <1>3, <1>4, <1>5, <1>6, <1>7, <1>8, <1>9, <1>10 DEF Next

\* sent changes when a message is composed, and only then.
LEMMA SentStep ==
  ASSUME TypeInv, SentInv, BegunInv, [Next]_vars
  PROVE  SentInv'
<1>1. /\ clock \in Nat /\ Len(sent) \in Nat /\ sent \in Seq(SentType)
      /\ headers \in [SendIds -> Headers]
  BY LenProperties DEF TypeInv
<1>2. ASSUME NEW m \in Composed, Create(m)
      PROVE  SentInv'
  <2>1. PICK us, ms \in Nat : Created(m, us, ms)
    BY <1>2, CreateCreates
  <2> DEFINE id == Uuid(Seed(us))
             s == [message |-> m, at |-> us, ms |-> ms, id |-> id]
  <2>2. /\ Len(sent) + 1 \in SendIds /\ clock <= us /\ clock' = us
        /\ s \in SentType
        /\ sent' = Append(sent, s)
        /\ headers' = [headers EXCEPT ![Len(sent) + 1] = CreateHeaders(m, id, ms)]
    BY <2>1 DEF Created
  <2>3. s.message = m /\ s.at = us /\ s.ms = ms /\ s.id = id
    OBVIOUS
  <2> HIDE DEF s
  <2>4. Len(sent') = Len(sent) + 1 /\ sent'[Len(sent) + 1] = s /\ Longer(sent, sent')
    BY <1>1, <2>2, LongerByOne
  <2>5. ASSUME NEW i \in 1 .. Len(sent')
        PROVE  /\ sent'[i].at <= clock'
               /\ sent'[i].id = Uuid(Seed(sent'[i].at))
               /\ headers'[i] = CreateHeaders(sent'[i].message, sent'[i].id, sent'[i].ms)
    <3>1. CASE i = Len(sent) + 1
      BY <1>1, <2>2, <2>3, <2>4, <3>1
    <3>2. CASE i # Len(sent) + 1
      <4>1. i \in 1 .. Len(sent)
        BY <1>1, <2>4, <3>2
      <4>2. sent'[i] = sent[i] /\ headers'[i] = headers[i]
        BY <1>1, <2>2, <2>4, <4>1, <3>2 DEF Longer, SendIds
      <4>3. sent[i].at \in Nat
        <5>1. sent[i] \in SentType
          BY <1>1, <4>1, ElementOfSeq
        <5> QED BY <5>1 DEF SentType
      <4>4. /\ sent[i].at <= clock
            /\ sent[i].id = Uuid(Seed(sent[i].at))
            /\ headers[i] = CreateHeaders(sent[i].message, sent[i].id, sent[i].ms)
        BY <4>1 DEF SentInv
      <4> QED BY <1>1, <2>1, <2>2, <4>2, <4>3, <4>4
    <3> QED BY <3>1, <3>2
  <2> QED BY <2>5 DEF SentInv
<1>3. CASE UNCHANGED <<clock, sent, headers>>
  BY <1>3 DEF SentInv
<1>4. \/ \E m \in Composed : Create(m)
      \/ UNCHANGED <<clock, sent, headers>>
  BY DEF Next, vars, Accepted, Refused, Written, WrittenByOther, Report, Reported,
         Consume, ConsumeFails
<1> QED BY <1>2, <1>3, <1>4

LEMMA OwnerStep ==
  ASSUME TypeInv, OwnerInv, BegunInv, [Next]_vars
  PROVE  OwnerInv'
<1>1. /\ owners \in [SendIds -> SUBSET {"caller", "message", "report"}]
      /\ destroyed \in [SendIds -> Nat] /\ state \in [SendIds -> States]
  BY DEF TypeInv
<1>2. ASSUME NEW m \in Composed, Create(m)
      PROVE  OwnerInv'
  <2>1. PICK us, ms \in Nat : Created(m, us, ms)
    BY <1>2, CreateCreates
  <2>2. Len(sent) + 1 \in SendIds /\ Len(sent) \in Nat
    BY <2>1, LenProperties DEF Created, TypeInv
  <2>3. /\ owners' = [owners EXCEPT ![Len(sent) + 1] = {"caller"}]
        /\ state' = [state EXCEPT ![Len(sent) + 1] = "created"]
        /\ destroyed' = destroyed
    BY <1>2 DEF Create
  <2>4. state[Len(sent) + 1] = "none"
    BY <2>2 DEF BegunInv
  <2>5. destroyed[Len(sent) + 1] = 0
    BY <2>2, <2>4 DEF OwnerInv
  <2> QED BY <1>1, <2>2, <2>3, <2>5 DEF OwnerInv
<1>3. ASSUME NEW i \in SendIds, Accepted(i)
      PROVE  OwnerInv'
  <2>1. destroyed[i] = 0
    BY <1>3 DEF OwnerInv, Accepted
  <2> QED BY <1>1, <1>3, <2>1 DEF OwnerInv, Accepted
<1>4. ASSUME NEW i \in SendIds, Refused(i)
      PROVE  OwnerInv'
  <2>1. destroyed[i] = 0
    BY <1>4 DEF OwnerInv, Refused
  <2> QED BY <1>1, <1>4, <2>1 DEF OwnerInv, Refused
<1>5. ASSUME NEW i \in SendIds, Report(i)
      PROVE  OwnerInv'
  <2>1. owners[i] = {"message"} /\ destroyed[i] = 0
    BY <1>5 DEF OwnerInv, Report
  <2>2. ({"message"} \ {"message"}) \cup {"report"} = {"report"}
    OBVIOUS
  <2>3. owners' = [owners EXCEPT ![i] = {"report"}] \/ owners' = owners
    BY <1>5, <2>1, <2>2 DEF Report
  <2>4. state' = [state EXCEPT ![i] = "reporting"] /\ destroyed' = destroyed
    BY <1>5 DEF Report
  <2> QED BY <1>1, <2>1, <2>3, <2>4 DEF OwnerInv
<1>6. ASSUME NEW i \in SendIds, Reported(i)
      PROVE  OwnerInv'
  <2>1. Cardinality(owners[i]) = 1 /\ destroyed[i] = 0
    BY <1>6, OneOwner DEF Reported
  <2>2. /\ state' = [state EXCEPT ![i] = "reported"]
        /\ destroyed' = [destroyed EXCEPT ![i] = 1]
        /\ owners' = [owners EXCEPT ![i] = {}]
    BY <1>1, <1>6, <2>1 DEF Reported
  <2> QED BY <1>1, <2>2 DEF OwnerInv
<1>7. CASE UNCHANGED <<owners, destroyed, state>>
  BY <1>7 DEF OwnerInv
<1>8. \/ \E m \in Composed : Create(m)
      \/ \E i \in SendIds : Accepted(i) \/ Refused(i) \/ Report(i) \/ Reported(i)
      \/ UNCHANGED <<owners, destroyed, state>>
  BY DEF Next, vars, Written, WrittenByOther, Consume, ConsumeFails
<1> QED BY <1>2, <1>3, <1>4, <1>5, <1>6, <1>7, <1>8

LEMMA BegunStep ==
  ASSUME TypeInv, BegunInv, [Next]_vars
  PROVE  BegunInv'
<1>1. state \in [SendIds -> States] /\ Len(sent) \in Nat /\ sent \in Seq(SentType)
  BY LenProperties DEF TypeInv
<1>2. ASSUME NEW m \in Composed, Create(m)
      PROVE  BegunInv'
  <2>1. PICK us, ms \in Nat : Created(m, us, ms)
    BY <1>2, CreateCreates
  <2>2. Len(sent) + 1 \in SendIds /\ Len(sent') = Len(sent) + 1
    BY <1>1, <2>1, LongerByOne DEF Created
  <2>3. state' = [state EXCEPT ![Len(sent) + 1] = "created"]
    BY <1>2 DEF Create
  <2>4. ASSUME NEW i \in SendIds
        PROVE  state'[i] = "none" <=> i > Len(sent')
    <3>1. i \in Nat
      BY DEF SendIds
    <3>2. CASE i = Len(sent) + 1
      BY <1>1, <2>2, <2>3, <3>2
    <3>3. CASE i # Len(sent) + 1
      <4>1. state'[i] = state[i]
        BY <1>1, <2>3, <3>3
      <4>2. i > Len(sent) <=> i > Len(sent')
        BY <1>1, <2>2, <3>1, <3>3
      <4>3. state[i] = "none" <=> i > Len(sent)
        BY DEF BegunInv
      <4> QED BY <4>1, <4>2, <4>3
    <3> QED BY <3>2, <3>3
  <2> QED BY <2>4 DEF BegunInv
<1>3. ASSUME NEW i \in SendIds, Accepted(i) \/ Refused(i) \/ Report(i) \/ Reported(i)
      PROVE  BegunInv'
  <2>1. state[i] # "none" /\ sent' = sent
    BY <1>3 DEF Accepted, Refused, Report, Reported
  <2>2. \E s \in States \ {"none"} : state' = [state EXCEPT ![i] = s]
    <3>1. {"accepted", "refused", "reporting", "reported"} \subseteq States \ {"none"}
      BY DEF States
    <3> QED BY <1>3, <3>1 DEF Accepted, Refused, Report, Reported
  <2>3. \A j \in SendIds : state'[j] = "none" <=> state[j] = "none"
    BY <1>1, <2>1, <2>2
  <2> QED BY <2>1, <2>3 DEF BegunInv
<1>4. CASE UNCHANGED <<state, sent>>
  BY <1>4 DEF BegunInv
<1>5. \/ \E m \in Composed : Create(m)
      \/ \E i \in SendIds : Accepted(i) \/ Refused(i) \/ Report(i) \/ Reported(i)
      \/ UNCHANGED <<state, sent>>
  BY DEF Next, vars, Written, WrittenByOther, Consume, ConsumeFails
<1> QED BY <1>2, <1>3, <1>4, <1>5

\* What is printed is the identifier of the send() call that is reported.
LEMMA PrintedStep ==
  ASSUME TypeInv, SentInv, BegunInv, PrintedInv, [Next]_vars, TypeInv'
  PROVE  PrintedInv'
<1>1. Longer(sent, sent') /\ Len(sent) \in Nat
  BY Grow, LenProperties DEF TypeInv
<1>2. Len(sent') \in Nat
  BY LenProperties DEF TypeInv
<1>3. \A i \in 1 .. Len(sent) : i \in 1 .. Len(sent') /\ sent'[i] = sent[i]
  BY <1>1, <1>2 DEF Longer
<1>4. CASE printed' = printed
  BY <1>3, <1>4 DEF PrintedInv
<1>5. ASSUME NEW i \in SendIds, Report(i)
      PROVE  PrintedInv'
  <2>1. i \in 1 .. Len(sent)
    BY <1>1, <1>5 DEF Report, BegunInv, SendIds
  <2>2. CStr(Get(headers[i], "x-message-id")) = sent[i].id
    <3>1. sent[i] \in SentType
      BY <2>1, ElementOfSeq DEF TypeInv
    <3>2. sent[i].message \in Composed /\ sent[i].ms \in Nat /\ sent[i].at \in Nat
      BY <3>1 DEF SentType
    <3>3. /\ sent[i].id = Uuid(Seed(sent[i].at))
          /\ headers[i] = CreateHeaders(sent[i].message, sent[i].id, sent[i].ms)
      BY <2>1 DEF SentInv
    <3>4. IsCStr(sent[i].id)
      BY <3>2, <3>3, SeedKeeps, UuidIsCStr
    <3>5. sent[i].id \in Texts
      BY <3>4 DEF IsCStr
    <3>6. Get(headers[i], "x-message-id") = sent[i].id
      BY <3>2, <3>3, <3>5, GetFindsId
    <3> QED BY <3>4, <3>6, CStrOfCStr
  <2>3. printed' = [printed EXCEPT ![i] = sent[i].id] \/ printed' = printed
    BY <1>5, <2>2 DEF Report
  <2> QED BY <1>3, <2>1, <2>3 DEF PrintedInv
<1>6. (\E i \in SendIds : Report(i)) \/ printed' = printed
  BY Zenon DEF Next, vars, Create, Accepted, Refused, Written, WrittenByOther, Reported,
         Consume, ConsumeFails
<1> QED BY <1>4, <1>5, <1>6

\* A record stays what it was when it was written.
LEMMA LogStep ==
  ASSUME TypeInv, SentInv, BegunInv, LogInv, [Next]_vars, TypeInv'
  PROVE  LogInv'
<1>1. /\ Longer(sent, sent') /\ Longer(log, log')
      /\ Len(sent) \in Nat /\ Len(sent') \in Nat /\ Len(log) \in Nat
      /\ log \in Seq(RecordType)
  BY Grow, LenProperties DEF TypeInv
<1>2. \A i \in 1 .. Len(sent) : i \in 1 .. Len(sent') /\ sent'[i] = sent[i]
  BY <1>1 DEF Longer
<1>3. CASE log' = log
  <2>1. ASSUME NEW n \in 1 .. Len(log), log[n].from # 0
        PROVE  log[n].from \in 1 .. Len(sent') /\ RecordOf(sent'[log[n].from], log[n])
    <3>1. log[n].from \in 1 .. Len(sent) /\ RecordOf(sent[log[n].from], log[n])
      BY <2>1 DEF LogInv
    <3> QED BY <1>2, <3>1
  <2> QED BY <1>3, <2>1 DEF LogInv
<1>4. ASSUME NEW r \in RecordType, sent' = sent, log' = Append(log, r),
             r.from # 0 => r.from \in 1 .. Len(sent) /\ RecordOf(sent[r.from], r)
      PROVE  LogInv'
  <2>1. Len(log') = Len(log) + 1 /\ log'[Len(log) + 1] = r /\ Longer(log, log')
    BY <1>1, <1>4, LongerByOne
  <2>2. ASSUME NEW n \in 1 .. Len(log'), log'[n].from # 0
        PROVE  log'[n].from \in 1 .. Len(sent) /\ RecordOf(sent[log'[n].from], log'[n])
    <3>1. CASE n = Len(log) + 1
      BY <1>4, <2>1, <2>2, <3>1
    <3>2. CASE n # Len(log) + 1
      <4>1. n \in 1 .. Len(log) /\ log'[n] = log[n]
        BY <1>1, <2>1, <3>2 DEF Longer
      <4> QED BY <2>2, <4>1 DEF LogInv
    <3> QED BY <3>1, <3>2
  <2> QED BY <1>4, <2>2 DEF LogInv
<1>5. ASSUME NEW i \in SendIds, Written(i)
      PROVE  LogInv'
  <2> DEFINE r == [from |-> i, key |-> sent[i].message.key, headers |-> headers[i],
                   body |-> sent[i].message.contents]
  <2>1. i \in 1 .. Len(sent) /\ r \in RecordType
    BY <1>5, WrittenType
  <2>2. sent' = sent /\ log' = Append(log, r)
    BY <1>5 DEF Written
  <2>3. r.from = i /\ RecordOf(sent[i], r)
    BY <2>1 DEF RecordOf, SentInv
  <2> HIDE DEF r
  <2> QED BY <1>4, <2>1, <2>2, <2>3
<1>6. ASSUME NEW f \in Foreign, WrittenByOther(f)
      PROVE  LogInv'
  <2> DEFINE r == [from |-> 0, key |-> f.key, headers |-> f.headers, body |-> f.body]
  <2>1. r \in RecordType
    BY OtherType
  <2>2. sent' = sent /\ log' = Append(log, r)
    BY <1>6 DEF WrittenByOther
  <2>3. r.from = 0
    OBVIOUS
  <2> HIDE DEF r
  <2> QED BY <1>4, <2>1, <2>2, <2>3
<1>7. \/ \E i \in SendIds : Written(i)
      \/ \E f \in Foreign : WrittenByOther(f)
      \/ log' = log
  BY DEF Next, vars, Create, Accepted, Refused, Report, Reported, Consume, ConsumeFails
<1> QED BY <1>3, <1>5, <1>6, <1>7

\* What the caller holds is of the record before the next one, until it calls
\* consume() again.
LEMMA ReceivedStep ==
  ASSUME TypeInv, SentInv, BegunInv, ReceivedInv, [Next]_vars, TypeInv'
  PROVE  ReceivedInv'
<1>1. Longer(log, log') /\ Len(log) \in Nat /\ next \in 1 .. Len(log) + 1
  BY Grow, LenProperties DEF TypeInv
<1>2. Len(log') \in Nat
  BY LenProperties DEF TypeInv
<1>3. CASE UNCHANGED <<next, received, got>>
  <2>1. SUFFICES ASSUME got'
                 PROVE  /\ next' - 1 \in 1 .. Len(log')
                        /\ Harm(log'[next' - 1]) = "no"
                        /\ received' = ReadInto(log'[next' - 1], <<>>)
    BY DEF ReceivedInv
  <2>2. /\ next - 1 \in 1 .. Len(log)
        /\ Harm(log[next - 1]) = "no"
        /\ received = ReadInto(log[next - 1], <<>>)
    BY <1>3, <2>1 DEF ReceivedInv
  <2>3. next - 1 \in 1 .. Len(log') /\ log'[next - 1] = log[next - 1]
    BY <1>1, <1>2, <2>2 DEF Longer
  <2> QED BY <1>3, <2>2, <2>3
<1>4. CASE Consume
  <2>1. SUFFICES ASSUME got'
                 PROVE  /\ next' - 1 \in 1 .. Len(log')
                        /\ Harm(log'[next' - 1]) = "no"
                        /\ received' = ReadInto(log'[next' - 1], <<>>)
    BY DEF ReceivedInv
  <2>2. /\ next <= Len(log) /\ next' = next + 1 /\ log' = log
        /\ undefined' = Harm(log[next]) /\ undefined' = "no"
        /\ received' = ReadInto(log[next], received)
    BY <1>4, <2>1 DEF Consume
  <2>3. next' - 1 = next /\ next \in 1 .. Len(log)
    BY <1>1, <2>2
  <2>4. ReadInto(log[next], received) = ReadInto(log[next], <<>>)
    BY DEF ReadInto
  <2> QED BY <2>2, <2>3, <2>4
<1>5. CASE ConsumeFails
  BY <1>5 DEF ConsumeFails, ReceivedInv
<1>6. Consume \/ ConsumeFails \/ UNCHANGED <<next, received, got>>
  <2>1. ASSUME NEW m \in Composed, Create(m)
        PROVE  UNCHANGED <<next, received, got>>
    BY <2>1 DEF Create
  <2>2. ASSUME NEW i \in SendIds,
               Accepted(i) \/ Refused(i) \/ Written(i) \/ Report(i) \/ Reported(i)
        PROVE  UNCHANGED <<next, received, got>>
    BY <2>2 DEF Accepted, Refused, Written, Report, Reported
  <2>3. ASSUME NEW r \in Foreign, WrittenByOther(r)
        PROVE  UNCHANGED <<next, received, got>>
    BY <2>3 DEF WrittenByOther
  <2>4. ASSUME UNCHANGED vars
        PROVE  UNCHANGED <<next, received, got>>
    BY <2>4 DEF vars
  <2> QED BY <2>1, <2>2, <2>3, <2>4 DEF Next
<1> QED BY <1>3, <1>4, <1>5, <1>6

\* Nothing undefined happens without a message or a record that makes it.
LEMMA HarmStep ==
  ASSUME TypeInv, SentInv, BegunInv, HarmInv, [Next]_vars, TypeInv'
  PROVE  HarmInv'
<1>1. /\ Longer(sent, sent') /\ Longer(log, log')
      /\ Len(sent) \in Nat /\ Len(log) \in Nat /\ Len(sent') \in Nat /\ Len(log') \in Nat
      /\ sent \in Seq(SentType) /\ next \in 1 .. Len(log) + 1
  BY Grow, LenProperties DEF TypeInv
<1>2. /\ \A i \in 1 .. Len(sent) : i \in 1 .. Len(sent') /\ sent'[i] = sent[i]
      /\ \A n \in 1 .. Len(log) : n \in 1 .. Len(log') /\ log'[n] = log[n]
  BY <1>1 DEF Longer
<1>3. CASE undefined' = undefined
  <2>1. undefined = "version" =>
          \E i \in 1 .. Len(sent') : Overflows(sent'[i].message.version)
    BY <1>2 DEF HarmInv
  <2>2. undefined \in {"key", "body"} => \E n \in 1 .. Len(log') : Harm(log'[n]) # "no"
    BY <1>2 DEF HarmInv
  <2> QED BY <1>3, <2>1, <2>2 DEF HarmInv
<1>4. ASSUME NEW m \in Composed, Create(m)
      PROVE  HarmInv'
  <2>1. PICK us, ms \in Nat : Created(m, us, ms)
    BY <1>4, CreateCreates
  <2> DEFINE s == [message |-> m, at |-> us, ms |-> ms, id |-> Uuid(Seed(us))]
  <2>2. s \in SentType /\ sent' = Append(sent, s) /\ s.message = m
    BY <2>1 DEF Created
  <2> HIDE DEF s
  <2>3. Len(sent) + 1 \in 1 .. Len(sent') /\ sent'[Len(sent) + 1].message = m
    BY <1>1, <2>2, LongerByOne
  <2>4. undefined' = IF Overflows(m.version) THEN "version" ELSE "no"
    BY <1>4 DEF Create
  <2> QED BY <2>3, <2>4 DEF HarmInv
<1>5. CASE Consume
  <2>1. next \in 1 .. Len(log) /\ undefined' = Harm(log[next])
    BY <1>1, <1>5 DEF Consume
  <2>2. undefined' # "version"
    BY <2>1, HarmType
  <2>3. undefined' \in {"key", "body"} => Harm(log[next]) # "no"
    BY <2>1
  <2> QED BY <1>2, <2>1, <2>2, <2>3 DEF HarmInv
<1>6. \/ \E m \in Composed : Create(m)
      \/ Consume
      \/ undefined' = undefined
  BY DEF Next, vars, Accepted, Refused, Written, WrittenByOther, Report, Reported,
         ConsumeFails
<1> QED BY <1>3, <1>4, <1>5, <1>6

LEMMA NextInv == Inv /\ [Next]_vars => Inv'
<1> SUFFICES ASSUME Inv, [Next]_vars PROVE Inv'
  OBVIOUS
<1>1. /\ TypeInv /\ SentInv /\ OwnerInv /\ BegunInv /\ PrintedInv /\ LogInv
      /\ ReceivedInv /\ HarmInv
  BY DEF Inv
<1>2. TypeInv'
  BY <1>1, TypeStep
<1>3. SentInv' /\ OwnerInv' /\ BegunInv'
  BY <1>1, SentStep, OwnerStep, BegunStep
<1>4. PrintedInv' /\ LogInv' /\ ReceivedInv' /\ HarmInv'
  BY <1>1, <1>2, PrintedStep, LogStep, ReceivedStep, HarmStep
<1> QED BY <1>2, <1>3, <1>4 DEF Inv

\* The inductive invariant holds of every run of the program.
THEOREM Invariance == Spec => []Inv
BY InitInv, NextInv, PTL DEF Spec

-----------------------------------------------------------------------------
(* What follows from it.                                                   *)

\* The variables always have their types: send() keeps to its header lists and
\* their owners, and consume() to the records that are there (TypeOK).
THEOREM TypeCorrect == Spec => []TypeOK
<1>1. Inv => TypeOK
  BY DEF Inv, TypeInv, TypeOK
<1> QED BY <1>1, Invariance, PTL

\* However many messages are sent and in whatever order they are refused and
\* reported, whether or not the callback asks for the headers, every header
\* list that send() makes is destroyed once: by send() when produce() refuses
\* the message, else by the message or by the report (FreedOnce).
THEOREM FreedOnceHolds == Spec => []FreedOnce
<1>1. Inv => FreedOnce
  <2> SUFFICES ASSUME Inv, NEW i \in SendIds
               PROVE  Cardinality(owners[i]) + destroyed[i]
                        = IF state[i] = "none" THEN 0 ELSE 1
    BY DEF FreedOnce
  <2>1. /\ Cardinality({}) = 0
        /\ Cardinality({"caller"}) = 1 /\ Cardinality({"message"}) = 1
        /\ Cardinality({"report"}) = 1
    BY FS_EmptySet, FS_Singleton
  <2>2. state[i] \in States
    BY DEF Inv, TypeInv
  <2>3. OwnerInv
    BY DEF Inv
  <2>4. CASE state[i] = "none"
    BY <2>1, <2>3, <2>4 DEF OwnerInv
  <2>5. CASE state[i] \in {"created", "accepted"}
    BY <2>1, <2>3, <2>5 DEF OwnerInv
  <2>6. CASE state[i] = "reporting"
    BY <2>1, <2>3, <2>6 DEF OwnerInv
  <2>7. CASE state[i] \in {"refused", "reported"}
    BY <2>1, <2>3, <2>7 DEF OwnerInv
  <2> QED BY <2>2, <2>4, <2>5, <2>6, <2>7 DEF States
<1> QED BY <1>1, Invariance, PTL

\* What is known of a send() call that has begun.
LEMMA SentFacts ==
  ASSUME Inv, NEW i \in 1 .. Len(sent)
  PROVE  /\ sent[i].message \in Composed
         /\ sent[i].at \in Nat /\ sent[i].ms \in Nat
         /\ sent[i].id = Uuid(Seed(sent[i].at))
         /\ IsCStr(sent[i].id)
<1>1. sent[i] \in SentType
  BY ElementOfSeq DEF Inv, TypeInv
<1>2. sent[i].message \in Composed /\ sent[i].at \in Nat /\ sent[i].ms \in Nat
  BY <1>1 DEF SentType
<1>3. sent[i].id = Uuid(Seed(sent[i].at))
  BY DEF Inv, SentInv
<1> QED BY <1>2, <1>3, SeedKeeps, UuidIsCStr

\* Two messages, however many are sent and however far apart, have the same
\* identifier exactly when they are a multiple of 2^20 microseconds apart: the
\* generator is linear, the seed keeps the low 20 bits of the time whatever its
\* width, and nine of its digits tell which these are (IdsRepeatByPeriod).
THEOREM IdsRepeat == Spec => []IdsRepeatByPeriod
<1>1. Inv => IdsRepeatByPeriod
  <2> SUFFICES ASSUME Inv, NEW i \in DOMAIN sent, NEW j \in DOMAIN sent
               PROVE  sent[i].id = sent[j].id
                        <=> sent[i].at % RandPeriod = sent[j].at % RandPeriod
    BY DEF IdsRepeatByPeriod
  <2>1. i \in 1 .. Len(sent) /\ j \in 1 .. Len(sent)
    BY LenProperties DEF Inv, TypeInv
  <2> DEFINE a == sent[i].at
             b == sent[j].at
  <2>2. /\ a \in Nat /\ b \in Nat
        /\ sent[i].id = Uuid(Seed(a)) /\ sent[j].id = Uuid(Seed(b))
    BY <2>1, SentFacts
  <2> HIDE DEF a, b
  <2>3. /\ Seed(a) \in Nat /\ Seed(a) % RandPeriod = a % RandPeriod
        /\ Seed(b) \in Nat /\ Seed(b) % RandPeriod = b % RandPeriod
    BY <2>2, SeedKeeps
  <2>4. sent[i].id = sent[j].id <=> a % RandPeriod = b % RandPeriod
    BY <2>2, <2>3, SameIds
  <2> QED BY <2>4 DEF a, b
<1> QED BY <1>1, Invariance, PTL

\* The versions that are printed into the five bytes.
LEMMA ShortFits ==
  ASSUME NEW v \in Short
  PROVE  ~ Overflows(v)
<1>1. v \in Int
  BY DEF Short
<1>2. IsCStr(Decimal(v)) /\ Len(Decimal(v)) <= 4
  BY <1>1, DecimalIsText
<1>3. Len(Decimal(v)) \in Nat
  BY <1>2, LenProperties DEF IsCStr, Texts
<1> QED BY <1>2, <1>3 DEF Overflows

\* The program does nothing undefined as long as the versions it sends have at
\* most four characters and the records it reads have a key and a body, which is
\* shorter than the buffer (PlainIsDefined).
THEOREM PlainIsDefinedHolds == Spec => []PlainIsDefined
<1> DEFINE Few(s) == s.message.version \in Short
           Fits(r) == r.key # NoText /\ r.body # NoText /\ Len(r.body) < BodySize
<1>1. ASSUME Inv, \A i \in DOMAIN sent : Few(sent[i]), \A n \in DOMAIN log : Fits(log[n])
      PROVE  undefined = "no"
  <2> HIDE DEF Few, Fits
  <2>1. undefined \in Undefineds /\ HarmInv
    BY <1>1 DEF Inv, TypeInv
  <2>2. DOMAIN sent = 1 .. Len(sent) /\ DOMAIN log = 1 .. Len(log)
    <3>1. sent \in Seq(SentType) /\ log \in Seq(RecordType)
      BY <1>1 DEF Inv, TypeInv
    <3> QED BY <3>1, LenProperties
  <2>3. ASSUME NEW i \in 1 .. Len(sent)
        PROVE  ~ Overflows(sent[i].message.version)
    <3>1. Few(sent[i])
      BY <1>1, <2>2
    <3> QED BY <3>1, ShortFits DEF Few
  <2>4. ASSUME NEW n \in 1 .. Len(log)
        PROVE  Harm(log[n]) = "no"
    <3> DEFINE r == log[n]
    <3>1. Fits(r) /\ r \in RecordType
      BY <1>1, <2>2, ElementOfSeq DEF Inv, TypeInv
    <3> HIDE DEF r
    <3>2. r.key # NoText /\ r.body # NoText /\ Len(r.body) < BodySize
      BY <3>1 DEF Fits
    <3>3. r.body \in Texts
      BY <3>1, <3>2 DEF RecordType
    <3>4. ReadsAs(r.body, CStr(r.body))
      BY <3>3, CStrReads
    <3>5. /\ Len(r.body) \in Nat /\ Len(CStr(r.body)) \in Nat
          /\ Len(CStr(r.body)) <= Len(r.body)
      BY <3>3, <3>4, LenProperties DEF ReadsAs, IsCStr, Texts
    <3>6. ~ (Len(r.body) > BodySize) /\ Len(CStr(r.body)) # BodySize
      BY <3>2, <3>5, SizesAssumption
    <3>7. Harm(r) = "no"
      BY <3>2, <3>6 DEF Harm, Misfits
    <3> QED BY <3>7 DEF r
  <2> QED BY <2>1, <2>3, <2>4 DEF HarmInv, Undefineds
<1>2. Inv => PlainIsDefined
  BY <1>1, Zenon DEF PlainIsDefined
<1> QED BY <1>2, Invariance, PTL

\* What is known of the record that the caller holds.
LEMMA GotFacts ==
  ASSUME Inv, got
  PROVE  /\ log[next - 1] \in RecordType
         /\ log[next - 1].headers \in Headers
         /\ Len(CStr(log[next - 1].body)) < BodySize
         /\ received.key = CStr(log[next - 1].key)
         /\ received.headers = ReceivedHeaders(log[next - 1].headers)
         /\ received.body = CStr(log[next - 1].body)
<1> DEFINE r == log[next - 1]
<1>1. /\ next - 1 \in 1 .. Len(log) /\ Harm(r) = "no" /\ received = ReadInto(r, <<>>)
  BY DEF Inv, ReceivedInv
<1>2. r \in RecordType
  BY <1>1, ElementOfSeq DEF Inv, TypeInv
<1> HIDE DEF r
<1>3. ~ Misfits(r.body)
  <2>1. r.key # NoText
    BY <1>1 DEF Harm
  <2> QED BY <1>1, <2>1 DEF Harm
<1>4. r.headers \in Headers /\ r.body \in Texts
  BY <1>2, <1>3 DEF RecordType, Misfits
<1>5. Len(CStr(r.body)) < BodySize
  <2>1. ReadsAs(r.body, CStr(r.body))
    BY <1>4, CStrReads
  <2>2. /\ Len(r.body) \in Nat /\ Len(CStr(r.body)) \in Nat
        /\ Len(CStr(r.body)) <= Len(r.body)
    BY <1>4, <2>1, LenProperties DEF ReadsAs, IsCStr, Texts
  <2> QED BY <1>3, <2>2, SizesAssumption DEF Misfits
<1>6. CStr(Buffer(r.body)) = CStr(r.body)
  BY <1>4, <1>5, BufferReads
<1> QED BY <1>1, <1>2, <1>4, <1>5, <1>6 DEF ReadInto, r

\* Whoever wrote the record that consume() returns, and whatever names and
\* values it has: each header that the caller finds is the last of its name
\* with a value, and a name is missing only if it has none (OfOneRecord).
THEOREM OfOneRecordHolds == Spec => []OfOneRecord
<1>1. Inv => OfOneRecord
  <2> SUFFICES ASSUME Inv, got PROVE OfOneRecord
    BY DEF OfOneRecord
  <2> DEFINE hs == log[next - 1].headers
             Valued(name) == {n \in DOMAIN hs : hs[n][1] = name /\ hs[n][2] # NoText}
  <2>1. hs \in Headers /\ received.headers = ReceivedHeaders(hs)
    BY GotFacts
  <2> HIDE DEF hs
  <2>2. ASSUME NEW name \in DOMAIN received.headers
        PROVE  \E n \in Valued(name) :
                 /\ received.headers[name] = CStr(hs[n][2])
                 /\ \A k \in Valued(name) : k <= n
    <3>1. PICK n \in DOMAIN hs :
              /\ hs[n][1] = name /\ hs[n][2] # NoText
              /\ received.headers[name] = CStr(hs[n][2])
              /\ \A k \in DOMAIN hs : hs[k][1] = name /\ hs[k][2] # NoText => k <= n
      BY <2>1, EachOfOne
    <3>2. n \in Valued(name) /\ \A k \in Valued(name) : k <= n
      BY <3>1
    <3> QED BY <3>1, <3>2
  <2>3. \A n \in DOMAIN hs :
          hs[n][1] \notin DOMAIN received.headers => hs[n][2] = NoText
    BY <2>1, EachOfOne
  <2> QED BY <2>2, <2>3 DEF OfOneRecord, hs
<1> QED BY <1>1, Invariance, PTL

\* What is received of a message of this producer.
LEMMA GotSent ==
  ASSUME Inv, got, log[next - 1].from # 0
  PROVE  LET s == sent[log[next - 1].from]
         IN  /\ s.id = HeadersOf(s)["x-message-id"]
             /\ received.key = CStr(s.message.key)
             /\ received.body = CStr(s.message.contents)
             /\ received.headers = HeadersOf(s)
<1> DEFINE r == log[next - 1]
           s == sent[r.from]
<1>1. r.from \in 1 .. Len(sent) /\ RecordOf(s, r)
  BY DEF Inv, ReceivedInv, LogInv
<1>2. s.message \in Composed /\ s.ms \in Nat /\ IsCStr(s.id)
  BY <1>1, SentFacts, Zenon
<1>3. /\ received.key = CStr(r.key) /\ received.body = CStr(r.body)
      /\ received.headers = ReceivedHeaders(r.headers)
  BY GotFacts
<1> HIDE DEF r, s
<1>4. received.headers = HeadersOf(s)
  BY <1>1, <1>2, <1>3, SixReceived DEF RecordOf
<1>5. s.id = HeadersOf(s)["x-message-id"]
  BY IdHeader, Zenon
<1> QED BY <1>1, <1>3, <1>4, <1>5 DEF RecordOf, r, s

\* For any key, contents, command and type, whatever bytes they are made of,
\* and for any size of the buffer: if consume() returns true on a message of
\* this producer, the caller has its texts and its six headers (ReadsBack).
THEOREM ReadsBackHolds == Spec => []ReadsBack
<1>1. Inv => ReadsBack
  <2> SUFFICES ASSUME Inv, got, log[next - 1].from # 0 PROVE ReadsBack
    BY DEF ReadsBack
  <2> DEFINE s == sent[log[next - 1].from]
  <2>1. /\ received.key = CStr(s.message.key)
        /\ received.body = CStr(s.message.contents)
        /\ received.headers = HeadersOf(s)
    BY GotSent
  <2> HIDE DEF s
  <2>2. received.headers = [name \in Names |->
                              CASE name = "x-message-id" -> s.id
                                [] name = "x-timestamp" -> Decimal(s.ms)
                                [] name = "x-command" -> CStr(s.message.command)
                                [] name = "x-message-version" -> Decimal(s.message.version)
                                [] name = "x-content-type" -> CStr(s.message.contentType)
                                [] name = "x-user-agent" -> CStr(UserAgent)]
    BY <2>1 DEF HeadersOf, HeaderOf
  <2> QED BY <2>1, <2>2 DEF ReadsBack, s
<1> QED BY <1>1, Invariance, PTL

\* The identifier that send() has logged is the one that the send callback
\* prints and the one that the consumer finds (SameIdEverywhere).
THEOREM SameIdHolds == Spec => []SameIdEverywhere
<1>1. Inv => SameIdEverywhere
  <2> SUFFICES ASSUME Inv PROVE SameIdEverywhere
    OBVIOUS
  <2>1. \A i \in SendIds : printed[i] # NoText => printed[i] = sent[i].id
    BY DEF Inv, PrintedInv
  <2>2. (got /\ log[next - 1].from # 0)
          => received.headers["x-message-id"] = sent[log[next - 1].from].id
    BY GotSent
  <2> QED BY <2>1, <2>2 DEF SameIdEverywhere
<1> QED BY <1>1, Invariance, PTL

=============================================================================
