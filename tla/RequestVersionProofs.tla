------------------------ MODULE RequestVersionProofs ------------------------
(***************************************************************************)
(* What the two readings of a version compute, for numbers of any length.  *)
(* Both the digits of a number and its value are defined over its          *)
(* characters, so the proofs are by induction: a set of numbers that has 0 *)
(* and is closed under the successor has every number.                     *)
(***************************************************************************)
EXTENDS RequestVersion, SequenceTheorems, WellFoundedInduction, TLAPS

-----------------------------------------------------------------------------
(* Induction.                                                              *)

LEMMA SmallestMember ==
    ASSUME NEW T, T \subseteq Nat, T # {}
    PROVE  \E m \in T : \A n \in T : m <= n
<1> DEFINE R == {p \in Nat \X Nat : p[1] < p[2]}
<1>1. IsWellFoundedOn(R, Nat)
  BY NatLessThanWellFounded DEF OpToRel
<1>2. \A x, y \in Nat : y < x => <<y, x>> \in R
  OBVIOUS
<1> HIDE DEF R
<1>3. PICK m \in T : \A n \in T : <<n, m>> \notin R
  BY <1>1, WFMin, Zenon
<1>4. ASSUME NEW n \in T PROVE m <= n
  <2>1. m \in Nat /\ n \in Nat /\ <<n, m>> \notin R
    BY <1>3
  <2> QED BY <2>1, <1>2
<1> QED BY <1>4

LEMMA SetInduction ==
    ASSUME NEW P, 0 \in P, \A n \in Nat : n \in P => n + 1 \in P
    PROVE  Nat \subseteq P
<1> SUFFICES ASSUME Nat \ P # {} PROVE FALSE
  OBVIOUS
<1>1. PICK m \in Nat \ P : \A n \in Nat \ P : m <= n
  BY SmallestMember
<1>2. m - 1 \in Nat /\ m - 1 \in P
  BY <1>1
<1> QED BY <1>1, <1>2

-----------------------------------------------------------------------------
(* The digits at the beginning of a string.                                *)

LEMMA DigitsOfString ==
    ASSUME NEW s \in Seq(Int)
    PROVE  \E n \in 0 .. Len(s) :
              /\ Digits(s) = SubSeq(s, 1, n)
              /\ \A i \in 1 .. n : s[i] \in Digit
              /\ n < Len(s) => s[n + 1] \notin Digit
<1> DEFINE End(n) == /\ \A i \in 1 .. n : s[i] \in Digit
                     /\ n < Len(s) => s[n + 1] \notin Digit
           T == {n \in 0 .. Len(s) : n = Len(s) \/ s[n + 1] \notin Digit}
<1>1. Len(s) \in Nat
  BY LenProperties
<1>2. PICK m \in T : \A n \in T : m <= n
  <2>1. T \subseteq Nat /\ Len(s) \in T
    BY <1>1
  <2> QED BY <2>1, SmallestMember
<1>3. ASSUME NEW i \in 1 .. m PROVE s[i] \in Digit
  <2>1. m \in 0 .. Len(s) /\ i - 1 \in 0 .. Len(s) /\ ~(m <= i - 1)
    BY <1>1, <1>2
  <2>2. i - 1 \notin T
    BY <2>1, <1>2
  <2>3. (i - 1) + 1 = i
    BY <2>1
  <2> QED BY <2>1, <2>2, <2>3
<1>4. m \in 0 .. Len(s) /\ End(m)
  BY <1>2, <1>3
<1>5. Digits(s) = SubSeq(s, 1, CHOOSE n \in 0 .. Len(s) : End(n))
  BY DEF Digits
<1> HIDE DEF End
<1>6. (CHOOSE n \in 0 .. Len(s) : End(n)) \in 0 .. Len(s)
      /\ End(CHOOSE n \in 0 .. Len(s) : End(n))
  BY <1>4
<1> QED BY <1>5, <1>6 DEF End

LEMMA DigitsAreDigits ==
    ASSUME NEW s \in Seq(Int)
    PROVE  Digits(s) \in Seq(Digit)
<1>1. PICK n \in 0 .. Len(s) :
         Digits(s) = SubSeq(s, 1, n) /\ \A i \in 1 .. n : s[i] \in Digit
  BY DigitsOfString
<1>2. Len(s) \in Nat /\ \A i \in 1 .. Len(s) : s[i] \in Int
  BY LenProperties, ElementOfSeq
<1>3. /\ SubSeq(s, 1, n) \in Seq(Int) /\ Len(SubSeq(s, 1, n)) = n
      /\ \A i \in 1 .. n : SubSeq(s, 1, n)[i] = s[i]
  BY <1>1, <1>2, SubSeqProperties
<1>4. \A i \in 1 .. Len(Digits(s)) : Digits(s)[i] \in Digit
  BY <1>1, <1>3
<1> QED BY <1>1, <1>3, <1>4, LenProperties, SeqDef

-----------------------------------------------------------------------------
(* The value of digits.                                                    *)

\* The recursion of Values, unfolded once.
Unfolded(g, d) == [n \in 0 .. Len(d) |-> IF n = 0 THEN 0 ELSE 10 * g[n - 1] + d[n]]

\* The recursion of Values is a definition: there is such a function.
LEMMA ValuesExist ==
    ASSUME NEW d \in Seq(Digit)
    PROVE  \E g : g = Unfolded(g, d)
<1> DEFINE Upto(g, k) ==
              /\ g \in [0 .. k -> Nat] /\ g[0] = 0
              /\ \A n \in 1 .. k : g[n] = 10 * g[n - 1] + d[n]
           P == {k \in Nat : k <= Len(d) => \E g : Upto(g, k)}
<1>1. Len(d) \in Nat /\ \A i \in 1 .. Len(d) : d[i] \in 0 .. 9
  BY LenProperties, ElementOfSeq DEF Digit
<1>2. Upto([n \in 0 .. 0 |-> 0], 0)
  OBVIOUS
<1>3. ASSUME NEW k \in Nat, k + 1 <= Len(d), NEW g, Upto(g, k)
      PROVE  \E h : Upto(h, k + 1)
  <2> DEFINE h == [n \in 0 .. k + 1 |-> IF n <= k THEN g[n] ELSE 10 * g[k] + d[k + 1]]
  <2>2. d[k + 1] \in Nat /\ g[k] \in Nat
    BY <1>1, <1>3
  <2>3. h \in [0 .. k + 1 -> Nat] /\ h[0] = 0
    BY <1>3, <2>2
  <2>4. ASSUME NEW n \in 1 .. k + 1 PROVE h[n] = 10 * h[n - 1] + d[n]
    <3>1. CASE n <= k
      BY <3>1, <1>3
    <3>2. CASE n = k + 1
      BY <3>2, <1>3
    <3> QED BY <3>1, <3>2
  <2>5. Upto(h, k + 1)
    BY <2>3, <2>4
  <2> QED BY <2>5
<1>4. Nat \subseteq P
  <2> HIDE DEF Upto
  <2>1. 0 \in P
    BY <1>2
  <2>2. ASSUME NEW k \in Nat, k \in P PROVE k + 1 \in P
    <3> SUFFICES ASSUME k + 1 <= Len(d) PROVE \E h : Upto(h, k + 1)
      OBVIOUS
    <3>1. PICK g : Upto(g, k)
      BY <1>1, <2>2
    <3> QED BY <3>1, <1>3
  <2> HIDE DEF P
  <2> QED BY <2>1, <2>2, SetInduction
<1>5. PICK g : Upto(g, Len(d))
  <2> HIDE DEF Upto
  <2> QED BY <1>1, <1>4
<1>6. g = Unfolded(g, d)
  BY <1>1, <1>5 DEF Unfolded
<1> QED BY <1>6

LEMMA ValuesAreDefined ==
    ASSUME NEW d \in Seq(Digit)
    PROVE  Values(d) = Unfolded(Values(d), d)
<1>1. Values(d) = CHOOSE g : g = Unfolded(g, d)
  BY DEF Values, Unfolded
<1> QED BY <1>1, ValuesExist

LEMMA Recursion ==
    ASSUME NEW d \in Seq(Digit)
    PROVE  /\ Values(d)[0] = 0
           /\ \A n \in 1 .. Len(d) : Values(d)[n] = 10 * Values(d)[n - 1] + d[n]
<1>1. Len(d) \in Nat
  BY LenProperties
<1>2. \A n \in 0 .. Len(d) :
         Unfolded(Values(d), d)[n] = IF n = 0 THEN 0 ELSE 10 * Values(d)[n - 1] + d[n]
  BY DEF Unfolded
<1>3. \A n \in 0 .. Len(d) : Unfolded(Values(d), d)[n] = Values(d)[n]
  BY ValuesAreDefined
<1> QED BY <1>1, <1>2, <1>3

\* A value is a number, and at least what the first digit says.
LEMMA ValueBounds ==
    ASSUME NEW d \in Seq(Digit), d # <<>>, NEW k \in 1 .. Len(d)
    PROVE  /\ Values(d)[k] \in Nat /\ Values(d)[k] >= d[1]
           /\ k > 1 => Values(d)[k] >= 10 * d[1]
<1>1. Len(d) \in Nat /\ \A i \in 1 .. Len(d) : d[i] \in 0 .. 9
  BY LenProperties, ElementOfSeq DEF Digit
<1>2. /\ Values(d)[0] = 0
      /\ \A n \in 1 .. Len(d) : Values(d)[n] = 10 * Values(d)[n - 1] + d[n]
  BY Recursion
<1> DEFINE v == Values(d)
           Bounded(n) == /\ v[n] \in Nat /\ v[n] >= d[1]
                         /\ n > 1 => v[n] >= 10 * d[1]
           P == {n \in Nat : n + 1 <= Len(d) => Bounded(n + 1)}
<1> HIDE DEF v
<1>3. 0 \in P
  <2>1. v[0] = 0 /\ 1 \in 1 .. Len(d) => v[1] = 10 * v[0] + d[1] /\ d[1] \in 0 .. 9
    BY <1>1, <1>2 DEF v
  <2> QED BY <1>1, <1>2, <2>1 DEF v
<1>4. ASSUME NEW n \in Nat, n \in P PROVE n + 1 \in P
  <2> SUFFICES ASSUME n + 2 <= Len(d) PROVE Bounded(n + 2)
    OBVIOUS
  <2>1. v[n + 1] \in Nat /\ v[n + 1] >= d[1]
    BY <1>1, <1>4
  <2>2. n + 2 \in 1 .. Len(d) /\ (n + 2) - 1 = n + 1 /\ 1 \in 1 .. Len(d)
    BY <1>1
  <2>3. v[n + 2] = 10 * v[n + 1] + d[n + 2] /\ d[n + 2] \in 0 .. 9 /\ d[1] \in 0 .. 9
    BY <1>1, <1>2, <2>2 DEF v
  <2>4. v[n + 2] \in Nat /\ v[n + 2] >= d[1] /\ v[n + 2] >= 10 * d[1]
    <3>1. \A a \in Nat, b, c \in 0 .. 9 :
             a >= c => 10 * a + b \in Nat /\ 10 * a + b >= c /\ 10 * a + b >= 10 * c
      OBVIOUS
    <3> QED BY <3>1, <2>1, <2>3
  <2> QED BY <2>4
<1>5. Nat \subseteq P
  <2> HIDE DEF P
  <2> QED BY <1>3, <1>4, SetInduction
<1>6. k - 1 \in P /\ (k - 1) + 1 = k
  BY <1>1, <1>5
<1> QED BY <1>1, <1>6 DEF v

-----------------------------------------------------------------------------
(* The two readings.                                                       *)

LEMMA Wrapped ==
    \A n \in Int : n % Width \in 0 .. Width - 1 /\ (n \in 0 .. Width - 1 => n % Width = n)
<1>1. \A w \in Nat \ {0}, n \in Int : n % w \in 0 .. w - 1 /\ (n \in 0 .. w - 1 => n % w = n)
  OBVIOUS
<1>2. Width \in Nat \ {0}
  BY DEF Width
<1> QED BY <1>1, <1>2

LEMMA IntegerOfString ==
    ASSUME NEW s \in Seq(Int)
    PROVE  Integer(s) \in Nat
<1> DEFINE d == Digits(s)
<1>1. d \in Seq(Digit) /\ Len(d) \in Nat
  BY DigitsAreDigits, LenProperties
<1>2. Values(d)[Len(d)] \in Nat
  <2> HIDE DEF d
  <2>1. CASE d = <<>>
    <3>1. Values(d)[0] = 0
      BY <1>1, Recursion
    <3> QED BY <2>1, <3>1
  <2>2. CASE d # <<>>
    BY <1>1, <2>2, ValueBounds, EmptySeq
  <2> QED BY <2>1, <2>2
<1> QED BY <1>2 DEF Integer

\* The casts keep a number within an unsigned short.
LEMMA NumberOfString ==
    ASSUME NEW s \in Seq(Int)
    PROVE  Number(s) \in 0 .. Width - 1
<1> DEFINE n == Integer(Unsigned(s))
           m == IF Signed(s) /\ s[1] = Minus THEN -n ELSE n
<1>1. Unsigned(s) \in Seq(Int)
  BY DEF Unsigned, Signed
<1>2. n \in Nat
  BY <1>1, IntegerOfString
<1>3. m \in Int
  <2> HIDE DEF n
  <2> QED BY <1>2
<1>4. m % Width \in 0 .. Width - 1
  <2> HIDE DEF m
  <2> QED BY <1>3, Wrapped, Zenon
<1> QED BY <1>4 DEF Number

\* A canonical number is below 2 only if it is the digit 0 or 1, and 0 only
\* if it is the digit 0.
LEMMA CanonicalNumber ==
    ASSUME NEW s \in Seq(Int), Converts(s), Digits(s) = s,
           s[1] = 0 => Len(s) = 1, Integer(s) < Width
    PROVE  /\ s[1] \in Digit /\ Number(s) = Integer(s) /\ Integer(s) \in Nat
           /\ Len(s) = 1 => Integer(s) = s[1]
           /\ Len(s) > 1 => Integer(s) >= 10
           /\ Integer(s) >= s[1]
<1>1. /\ s \in Seq(Digit) /\ s # <<>> /\ s[1] \in Digit /\ Len(s) \in Nat \ {0}
      /\ ~Signed(s) /\ Unsigned(s) = s
  <2>1. s \in Seq(Digit)
    BY DigitsAreDigits
  <2>2. s # <<>>
    BY DEF Converts, Unsigned, Signed
  <2>3. s[1] \in Digit /\ Len(s) \in Nat \ {0}
    BY <2>1, <2>2, LenProperties, EmptySeq
  <2>4. ~Signed(s)
    BY <2>3 DEF Signed, Digit, Plus, Minus
  <2> QED BY <2>1, <2>2, <2>3, <2>4 DEF Unsigned
<1>2. Integer(s) = Values(s)[Len(s)]
  BY DEF Integer
<1>3. Integer(s) \in Nat /\ Number(s) = Integer(s)
  <2>1. Integer(s) \in Nat
    BY IntegerOfString
  <2>2. Integer(s) % Width = Integer(s)
    <3>1. \A w \in Nat, n \in Nat : n < w => n \in Int /\ n \in 0 .. w - 1
      OBVIOUS
    <3>2. Width \in Nat
      BY DEF Width
    <3>3. Integer(s) \in Int /\ Integer(s) \in 0 .. Width - 1
      BY <2>1, <3>1, <3>2, Zenon
    <3> QED BY <3>3, Wrapped, Zenon
  <2>3. Number(s) = Integer(s) % Width
    BY <1>1 DEF Number
  <2> QED BY <2>1, <2>2, <2>3
<1>4. /\ Integer(s) >= s[1]
      /\ Len(s) > 1 => Integer(s) >= 10 * s[1]
  BY <1>1, <1>2, ValueBounds
<1>5. Len(s) = 1 => Integer(s) = s[1]
  <2>1. Values(s)[1] = 10 * Values(s)[1 - 1] + s[1] /\ Values(s)[0] = 0
    BY <1>1, Recursion
  <2> QED BY <1>1, <1>2, <2>1 DEF Digit
<1>6. Len(s) > 1 => Integer(s) >= 10
  <2>1. Len(s) > 1 => s[1] \in 1 .. 9
    <3>1. \A l \in Nat, e \in 0 .. 9 : (e = 0 => l = 1) => (l > 1 => e \in 1 .. 9)
      OBVIOUS
    <3>2. Len(s) \in Nat /\ s[1] \in 0 .. 9
      BY <1>1 DEF Digit
    <3> QED BY <3>1, <3>2, Zenon
  <2> QED BY <1>3, <1>4, <2>1
<1> QED BY <1>1, <1>3, <1>4, <1>5, <1>6

\* The text <<d, Dot>> \o t against "1.1".
LEMMA TextBegins ==
    ASSUME NEW v \in Seq(Seq(Int)), Len(v) = 2, NEW d \in {0, 1}, v[1] = <<d>>,
           v[2] # <<>>
    PROVE  TextIsAtLeast11(Text(v)) <=> d = 1 /\ v[2][1] >= 1
<1>1. v[2] \in Seq(Int) /\ Len(v[2]) \in Nat \ {0} /\ v[2][1] \in Int
  <2>1. v[2] \in Seq(Int)
    BY ElementOfSeq
  <2>2. Len(v[2]) \in Nat \ {0}
    BY <2>1, LenProperties, EmptySeq
  <2> QED BY <2>1, <2>2, ElementOfSeq
<1> DEFINE t == Text(v)
<1>2. t[1] = d /\ t[2] = Dot /\ t[3] = v[2][1] /\ Len(t) >= 3 /\ Len(t) \in Nat
  BY <1>1 DEF Text, Dot
<1> DEFINE u == <<1, Dot, 1>>
<1>3. Len(u) = 3 /\ u[1] = 1 /\ u[2] = Dot /\ u[3] = 1
  OBVIOUS
<1> HIDE DEF t, u
<1>4. CASE d = 0
  <2>1. Before(t, u)
    BY <1>2, <1>3, <1>4 DEF Before, Dot
  <2> QED BY <2>1, <1>4 DEF TextIsAtLeast11, t, u
<1>5. CASE d = 1
  <2>1. Before(t, u) <=> v[2][1] < 1
    <3>1. ASSUME v[2][1] < 1 PROVE Before(t, u)
      BY <1>2, <1>3, <1>5, <3>1 DEF Before, Dot
    <3>2. ASSUME Before(t, u) PROVE v[2][1] < 1
      <4>1. PICK i \in 1 .. 3 : i > Len(t) \/ t[i] < u[i]
        BY <3>2, <1>3 DEF Before
      <4>2. i = 1 \/ i = 2 \/ i = 3
        BY <4>1
      <4> QED BY <4>1, <4>2, <1>2, <1>3, <1>5 DEF Dot
    <3> QED BY <3>1, <3>2
  <2> QED BY <2>1, <1>1, <1>5 DEF TextIsAtLeast11, t, u
<1> QED BY <1>4, <1>5

\* The text and the numbers of a canonical version below 2.0 agree on 1.1.
LEMMA ReadingsAgree ==
    ASSUME NEW v \in Seq(Seq(Int)), Len(v) = 2,
           \A i \in 1 .. 2 : /\ Converts(v[i]) /\ Digits(v[i]) = v[i]
                             /\ v[i][1] = 0 => Len(v[i]) = 1
                             /\ Integer(v[i]) < Width,
           ~NumberIsAtLeast(v, 2, 0)
    PROVE  TextIsAtLeast11(Text(v)) <=> NumberIsAtLeast(v, 1, 1)
<1>1. v[1] \in Seq(Int) /\ v[2] \in Seq(Int)
  BY ElementOfSeq
<1>2. \A i \in {1, 2} :
         /\ v[i][1] \in 0 .. 9 /\ Number(v[i]) = Integer(v[i]) /\ Integer(v[i]) \in Nat
         /\ Len(v[i]) = 1 => Integer(v[i]) = v[i][1]
         /\ Len(v[i]) > 1 => Integer(v[i]) >= 10
         /\ Integer(v[i]) >= v[i][1]
         /\ v[i][1] = 0 => Len(v[i]) = 1
         /\ Len(v[i]) \in Nat \ {0} /\ v[i] # <<>>
  <2> TAKE i \in {1, 2}
  <2>1. v[i] \in Seq(Int) /\ i \in 1 .. 2
    BY <1>1
  <2>2. Len(v[i]) \in Nat \ {0} /\ v[i] # <<>>
    BY <2>1, LenProperties, EmptySeq DEF Converts, Unsigned, Signed
  <2> QED BY <2>1, <2>2, CanonicalNumber DEF Digit
<1>3. Integer(v[1]) < 2
  BY <1>2 DEF NumberIsAtLeast
<1>4. Len(v[1]) = 1 /\ v[1][1] \in {0, 1} /\ Number(v[1]) = v[1][1]
  <2>1. /\ v[1][1] \in 0 .. 9 /\ Number(v[1]) = Integer(v[1])
        /\ Len(v[1]) = 1 => Integer(v[1]) = v[1][1]
        /\ Len(v[1]) > 1 => Integer(v[1]) >= 10
        /\ Len(v[1]) \in Nat \ {0} /\ Integer(v[1]) \in Nat
    BY <1>2
  <2>2. Len(v[1]) = 1
    <3>1. \A l \in Nat \ {0}, n \in Nat : n < 2 /\ (l > 1 => n >= 10) => l = 1
      OBVIOUS
    <3> QED BY ONLY <3>1, <1>3, <2>1, Zenon
  <2> QED BY ONLY <1>3, <2>1, <2>2
<1>5. v[1] = <<v[1][1]>>
  BY <1>1, <1>4
<1>6. TextIsAtLeast11(Text(v)) <=> v[1][1] = 1 /\ v[2][1] >= 1
  BY <1>2, <1>4, <1>5, TextBegins
<1>7. NumberIsAtLeast(v, 1, 1) <=> v[1][1] = 1 /\ Number(v[2]) >= 1
  BY <1>2, <1>4 DEF NumberIsAtLeast
<1>8. Number(v[2]) >= 1 <=> v[2][1] >= 1
  <2>1. /\ v[2][1] \in 0 .. 9 /\ Number(v[2]) = Integer(v[2]) /\ Integer(v[2]) \in Nat
        /\ Len(v[2]) = 1 => Integer(v[2]) = v[2][1]
        /\ Integer(v[2]) >= v[2][1]
        /\ v[2][1] = 0 => Len(v[2]) = 1
    BY <1>2
  <2>2. \A n \in Nat, e \in 0 .. 9 : n >= e /\ (e = 0 => n = e) => (n >= 1 <=> e >= 1)
    OBVIOUS
  <2> QED BY ONLY <2>1, <2>2, Zenon
<1> QED BY <1>6, <1>7, <1>8
=============================================================================
