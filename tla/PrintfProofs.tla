---------------------------- MODULE PrintfProofs ----------------------------
(***************************************************************************)
(* Proofs about Printf, for every set of formats, every width of an        *)
(* unsigned int and every length of bf that holds the longest number.      *)
(***************************************************************************)
EXTENDS Printf, TLAPS, SequenceTheorems, WellFoundedInduction

-----------------------------------------------------------------------------
(* A set of naturals that is not empty has a smallest element. *)
LEMMA SmallestOf ==
    ASSUME NEW T \in SUBSET Nat, T # {}
    PROVE  \E n \in T : \A k \in T : n <= k
<1> DEFINE R == {q \in Nat \X Nat : q[1] < q[2]}
<1>1. IsWellFoundedOn(R, Nat)
  <2>1. R = OpToRel(<, Nat)
    BY DEF OpToRel
  <2> QED BY <2>1, NatLessThanWellFounded, Zenon
<1>2. PICK n \in T : \A k \in T : <<k, n>> \notin R
  <2> HIDE DEF R
  <2> QED BY <1>1, WFMin, Zenon
<1>3. \A k \in T : n <= k
  <2> SUFFICES ASSUME NEW k \in T, ~(n <= k) PROVE FALSE
    OBVIOUS
  <2>1. n \in Nat /\ k \in Nat /\ k < n
    OBVIOUS
  <2>2. <<k, n>> \in Nat \X Nat /\ <<k, n>>[1] < <<k, n>>[2]
    BY <2>1
  <2>3. <<k, n>> \in R
    BY <2>2, Zenon
  <2> QED BY <2>3, <1>2
<1> QED BY <1>2, <1>3

(* Induction: a set that contains each number whose predecessors it contains. *)
LEMMA AllNumbers ==
    ASSUME NEW T, \A n \in Nat : (\A k \in 0..(n - 1) : k \in T) => n \in T
    PROVE  \A n \in Nat : n \in T
<1> SUFFICES ASSUME NEW m \in Nat, m \notin T PROVE FALSE
  OBVIOUS
<1>1. PICK n \in Nat \ T : \A k \in Nat \ T : n <= k
  <2>1. Nat \ T \in SUBSET Nat /\ Nat \ T # {}
    OBVIOUS
  <2> QED BY <2>1, SmallestOf
<1>2. \A k \in 0..(n - 1) : k \in T
  BY <1>1
<1> QED BY <1>1, <1>2

-----------------------------------------------------------------------------
(* h obeys the recursion F below the measure n. *)
Obeys(h, F, X, m, n) == \A x \in X : m[x] < n => h[x] = F[h][x]

(* F[h] at an argument depends on h at arguments of smaller measure only. *)
Recursive(F, X, S, m) ==
    /\ F \in [[X -> S] -> [X -> S]] /\ m \in [X -> Nat]
    /\ \A g \in [X -> S], h \in [X -> S] : \A x \in X :
          (\A y \in X : m[y] < m[x] => g[y] = h[y]) => F[g][x] = F[h][x]

LEMMA Unique ==
    ASSUME NEW F, NEW X, NEW S, NEW m, Recursive(F, X, S, m),
           NEW g \in [X -> S], NEW h \in [X -> S], NEW n \in Nat, Obeys(g, F, X, m, n), Obeys(h, F, X, m, n)
    PROVE  \A x \in X : m[x] < n => g[x] = h[x]
<1> DEFINE T == {k \in Nat : k < n => \A x \in X : m[x] = k => g[x] = h[x]}
<1>1. ASSUME NEW k \in Nat, \A j \in 0..(k - 1) : j \in T PROVE k \in T
  <2> SUFFICES ASSUME k < n, NEW x \in X, m[x] = k PROVE g[x] = h[x]
    OBVIOUS
  <2>1. \A y \in X : m[y] \in Nat
    BY DEF Recursive
  <2>2. \A y \in X : m[y] < m[x] => g[y] = h[y]
    <3> SUFFICES ASSUME NEW y \in X, m[y] < k PROVE g[y] = h[y]
      OBVIOUS
    <3>1. PICK j \in 0..(k - 1) : j = m[y]
      BY <2>1
    <3>2. j \in T /\ j < n
      BY <1>1, <3>1
    <3> QED BY <3>1, <3>2
  <2>3. F[g][x] = F[h][x]
    BY <2>2 DEF Recursive
  <2> QED BY <2>3 DEF Obeys
<1>2. \A k \in Nat : k \in T
  <2> HIDE DEF T
  <2> QED BY <1>1, AllNumbers
<1> QED BY <1>2 DEF Recursive

LEMMA Approximated ==
    ASSUME NEW F, NEW X, NEW S, S # {}, NEW m, Recursive(F, X, S, m)
    PROVE  \A n \in Nat : \E h \in [X -> S] : Obeys(h, F, X, m, n)
<1> DEFINE T == {n \in Nat : \E h \in [X -> S] : Obeys(h, F, X, m, n)}
<1>1. ASSUME NEW n \in Nat, \A j \in 0..(n - 1) : j \in T PROVE n \in T
  <2>1. CASE n = 0
    <3>1. PICK s \in S : TRUE
      OBVIOUS
    <3>2. [x \in X |-> s] \in [X -> S]
      OBVIOUS
    <3>3. Obeys([x \in X |-> s], F, X, m, 0)
      BY DEF Obeys, Recursive
    <3> QED BY <2>1, <3>2, <3>3
  <2>2. CASE n # 0
    <3>1. PICK h \in [X -> S] : Obeys(h, F, X, m, n - 1)
      BY <1>1, <2>2
    <3>2. F[h] \in [X -> S]
      BY DEF Recursive
    <3>3. ASSUME NEW x \in X, m[x] < n PROVE F[h][x] = F[F[h]][x]
      <4>1. \A y \in X : m[y] < m[x] => h[y] = F[h][y]
        BY <3>1, <3>3 DEF Obeys, Recursive
      <4> QED BY <3>2, <4>1 DEF Recursive
    <3> QED BY <3>2, <3>3 DEF Obeys
  <2> QED BY <2>1, <2>2
<1> HIDE DEF T
<1>2. \A n \in Nat : n \in T
  BY <1>1, AllNumbers
<1> QED BY <1>2 DEF T

LEMMA RecursionTheorem ==
    ASSUME NEW F, NEW X, NEW S, S # {}, NEW m, Recursive(F, X, S, m)
    PROVE  \E f \in [X -> S] : f = F[f]
<1> DEFINE near(x) == CHOOSE h \in [X -> S] : Obeys(h, F, X, m, m[x] + 1)
           f == [x \in X |-> near(x)[x]]
<1>1. \A x \in X : m[x] \in Nat
  BY DEF Recursive
<1>2. \A x \in X : near(x) \in [X -> S] /\ Obeys(near(x), F, X, m, m[x] + 1)
  BY <1>1, Approximated
<1> HIDE DEF near
<1>3. f \in [X -> S]
  BY <1>2
<1>4. F[f] \in [X -> S]
  BY <1>3 DEF Recursive
<1>5. ASSUME NEW x \in X PROVE f[x] = F[f][x]
  <2>1. ASSUME NEW y \in X, m[y] < m[x] PROVE near(x)[y] = f[y]
    <3>1. Obeys(near(x), F, X, m, m[y] + 1)
      BY <1>1, <1>2, <2>1 DEF Obeys
    <3>2. near(x)[y] = near(y)[y]
      BY <1>1, <1>2, <3>1, Unique
    <3> QED BY <3>2
  <2>2. F[near(x)][x] = F[f][x]
    BY <1>2, <1>3, <2>1 DEF Recursive
  <2>3. near(x)[x] = F[near(x)][x]
    BY <1>1, <1>2 DEF Obeys
  <2> QED BY <2>2, <2>3
<1> QED BY <1>3, <1>4, <1>5

-----------------------------------------------------------------------------
(* Numeral: its digits, from the recursive definition. *)
Bases == {10, 16}
Digits == {DigitChars[i] : i \in Nat}
Quo(n, base) == n \div base
Rem(n, base) == n % base

DigitOf(n, base, h) ==
    IF n < base THEN <<DigitChars[n + 1]>> ELSE Append(h[Quo(n, base)], DigitChars[Rem(n, base) + 1])

NumeralOf(base) == CHOOSE f : f = [n \in Nat |-> DigitOf(n, base, f)]

LEMMA NumeralIs ==
    ASSUME NEW v \in Int, NEW base \in Nat
    PROVE  Numeral(v, base) = IF v < 0 THEN <<"-">> \o NumeralOf(base)[-v] ELSE NumeralOf(base)[v]
BY Zenon DEF Numeral, NumeralOf, DigitOf, Quo, Rem

LEMMA Base ==
    ASSUME NEW base \in Bases
    PROVE  base \in Nat /\ base >= 10 /\ base <= 16
BY DEF Bases

(* A quotient and a remainder by a base. *)
LEMMA Quotient ==
    ASSUME NEW n \in Nat, NEW base \in Bases
    PROVE  /\ Quo(n, base) \in Nat /\ Rem(n, base) \in Nat /\ Rem(n, base) < base
           /\ n = Quo(n, base) * base + Rem(n, base)
           /\ n >= base => Quo(n, base) < n /\ Quo(n, base) >= 1
<1>1. CASE base = 10
  BY <1>1 DEF Quo, Rem
<1>2. CASE base = 16
  BY <1>2 DEF Quo, Rem
<1> QED BY <1>1, <1>2 DEF Bases

LEMMA QuotientIs ==
    ASSUME NEW n \in Nat, NEW base \in Bases, NEW q \in Nat, NEW r \in Nat, r < base,
           n = q * base + r
    PROVE  Quo(n, base) = q /\ Rem(n, base) = r
<1>1. CASE base = 10
  BY <1>1 DEF Quo, Rem
<1>2. CASE base = 16
  BY <1>2 DEF Quo, Rem
<1> QED BY <1>1, <1>2 DEF Bases

LEMMA QuotientMonotone ==
    ASSUME NEW m \in Nat, NEW n \in Nat, NEW base \in Bases, m <= n
    PROVE  Quo(m, base) <= Quo(n, base)
<1>1. CASE base = 10
  BY <1>1 DEF Quo
<1>2. CASE base = 16
  BY <1>2 DEF Quo
<1> QED BY <1>1, <1>2 DEF Bases

LEMMA DigitIs ==
    ASSUME NEW i \in Nat
    PROVE  DigitChars[i + 1] \in Digits
BY DEF Digits

LEMMA DigitsIn ==
    ASSUME NEW base \in Bases, NEW n \in Nat, NEW h,
           n >= base => h[Quo(n, base)] \in Seq(Digits)
    PROVE  DigitOf(n, base, h) \in Seq(Digits)
<1>0. base \in Nat
  BY Base
<1>1. CASE n < base
  BY <1>1, DigitIs DEF DigitOf
<1>2. CASE ~(n < base)
  <2>1. DigitChars[Rem(n, base) + 1] \in Digits
    BY DigitIs, Quotient
  <2> QED BY <1>0, <1>2, <2>1 DEF DigitOf
<1> QED BY <1>1, <1>2

LEMMA NumeralFacts ==
    ASSUME NEW base \in Bases
    PROVE  /\ NumeralOf(base) \in [Nat -> Seq(Digits)]
           /\ \A n \in Nat : NumeralOf(base)[n] = DigitOf(n, base, NumeralOf(base))
<1> DEFINE S == Seq(Digits)
           F == [h \in [Nat -> S] |-> [n \in Nat |-> DigitOf(n, base, h)]]
           m == [n \in Nat |-> n]
<1>0. base \in Nat
  BY Base
<1>1. \A h \in [Nat -> S], n \in Nat : DigitOf(n, base, h) \in Seq(Digits)
  BY DigitsIn, Quotient
<1>2. ASSUME NEW g \in [Nat -> S], NEW h \in [Nat -> S], NEW x \in Nat, \A y \in Nat : y < x => g[y] = h[y]
      PROVE  DigitOf(x, base, g) = DigitOf(x, base, h)
  <2>1. CASE x < base
    BY <2>1 DEF DigitOf
  <2>2. CASE ~(x < base)
    <3>1. Quo(x, base) \in Nat /\ Quo(x, base) < x
      <4>1. x >= base
        BY <1>0, <2>2
      <4> HIDE DEF S, F, m
      <4> QED BY <4>1, Quotient
    <3>2. g[Quo(x, base)] = h[Quo(x, base)]
      BY <1>2, <3>1, Zenon
    <3> QED BY <2>2, <3>2, Zenon DEF DigitOf
  <2> QED BY <2>1, <2>2
<1>3. Recursive(F, Nat, S, m)
  <2>1. F \in [[Nat -> S] -> [Nat -> S]] /\ m \in [Nat -> Nat]
    BY <1>1
  <2>2. \A h \in [Nat -> S], x \in Nat : F[h][x] = DigitOf(x, base, h) /\ m[x] = x
    BY <1>1
  <2> HIDE DEF S, F, m
  <2> QED BY <1>2, <2>1, <2>2 DEF Recursive
<1>4. S # {}
  BY EmptySeq
<1>5. \E f \in [Nat -> S] : f = F[f]
  <2> HIDE DEF F, S, m
  <2> QED BY <1>3, <1>4, RecursionTheorem
<1>6. NumeralOf(base) = [n \in Nat |-> DigitOf(n, base, NumeralOf(base))]
  BY <1>5 DEF NumeralOf
<1> DEFINE T == {n \in Nat : NumeralOf(base)[n] \in Seq(Digits)}
<1>7. ASSUME NEW n \in Nat, \A k \in 0..(n - 1) : k \in T PROVE n \in T
  <2>1. n >= base => NumeralOf(base)[Quo(n, base)] \in Seq(Digits)
    BY <1>7, Quotient
  <2>2. DigitOf(n, base, NumeralOf(base)) \in Seq(Digits)
    BY <2>1, DigitsIn
  <2> QED BY <1>6, <2>2
<1>8. \A n \in Nat : n \in T
  <2> HIDE DEF T
  <2> QED BY <1>7, AllNumbers
<1> QED BY <1>6, <1>8

LEMMA NumeralCases ==
    ASSUME NEW base \in Bases, NEW n \in Nat
    PROVE  LET N == NumeralOf(base) IN
           /\ N[n] \in Seq(Digits) /\ Len(N[n]) \in Nat
           /\ n < base => N[n] = <<DigitChars[n + 1]>> /\ Len(N[n]) = 1
           /\ n >= base => /\ N[n] = Append(N[Quo(n, base)], DigitChars[Rem(n, base) + 1])
                           /\ Len(N[n]) = Len(N[Quo(n, base)]) + 1
<1>1. base \in Nat
  BY Base
<1>2. NumeralOf(base)[n] \in Seq(Digits) /\ Len(NumeralOf(base)[n]) \in Nat
  BY NumeralFacts
<1>3. CASE n < base
  <2>1. NumeralOf(base)[n] = <<DigitChars[n + 1]>>
    BY <1>3, NumeralFacts, Zenon DEF DigitOf
  <2> QED BY <1>1, <1>2, <1>3, <2>1
<1>4. CASE n >= base
  <2>1. ~(n < base)
    BY <1>1, <1>4
  <2>2. NumeralOf(base)[n] = Append(NumeralOf(base)[Quo(n, base)], DigitChars[Rem(n, base) + 1])
    BY <2>1, NumeralFacts, Zenon DEF DigitOf
  <2>3. NumeralOf(base)[Quo(n, base)] \in Seq(Digits) /\ DigitChars[Rem(n, base) + 1] \in Digits
    BY NumeralFacts, Quotient, DigitIs
  <2> QED BY <1>2, <2>1, <2>2, <2>3
<1> QED BY <1>1, <1>3, <1>4

(* A digit behind a numeral is the numeral of one more digit. *)
LEMMA OneDigitMore ==
    ASSUME NEW base \in Bases, NEW n \in Nat, n > 0, NEW c \in Nat, c < base,
           NEW k \in Nat, k = n * base + c
    PROVE  NumeralOf(base)[k] = NumeralOf(base)[n] \o <<DigitChars[c + 1]>>
<1>2. k >= base
  BY Base
<1>3. Quo(k, base) = n /\ Rem(k, base) = c
  BY QuotientIs
<1>4. NumeralOf(base)[k] = Append(NumeralOf(base)[n], DigitChars[c + 1])
  BY <1>2, <1>3, NumeralCases
<1>5. NumeralOf(base)[n] \in Seq(Digits) /\ DigitChars[c + 1] \in Digits
  BY NumeralFacts, DigitIs
<1> QED BY <1>4, <1>5, AppendIsConcat

(* A larger number has no shorter numeral. *)
LEMMA LongerNumeral ==
    ASSUME NEW base \in Bases, NEW b \in Nat, NEW a \in Nat, a <= b
    PROVE  /\ Len(NumeralOf(base)[a]) \in Nat /\ Len(NumeralOf(base)[b]) \in Nat
           /\ Len(NumeralOf(base)[a]) <= Len(NumeralOf(base)[b])
<1> DEFINE N == NumeralOf(base)
           T == {n \in Nat : \A k \in Nat : k <= n => Len(N[k]) <= Len(N[n])}
<1>0. base \in Nat
  BY Base
<1>1. \A n \in Nat : /\ n < base => Len(N[n]) = 1
                     /\ n >= base => Len(N[n]) = Len(N[Quo(n, base)]) + 1
                     /\ Len(N[n]) \in Nat
  BY NumeralCases
<1> HIDE DEF N
<1>2. ASSUME NEW n \in Nat PROVE Len(N[n]) >= 1
  <2>1. CASE n < base
    BY <1>1, <2>1
  <2>2. CASE n >= base
    <3>1. Quo(n, base) \in Nat
      BY Quotient
    <3> QED BY <1>1, <2>2, <3>1
  <2> QED BY <1>0, <2>1, <2>2
<1>3. ASSUME NEW n \in Nat, \A k \in 0..(n - 1) : k \in T PROVE n \in T
  <2> SUFFICES ASSUME NEW k \in Nat, k <= n PROVE Len(N[k]) <= Len(N[n])
    OBVIOUS
  <2>1. CASE k < base
    BY <1>1, <1>2, <2>1
  <2>2. CASE k >= base
    <3>1. n >= base
      BY <1>0, <2>2
    <3>2. Quo(n, base) \in 0..(n - 1) /\ Quo(k, base) \in Nat /\ Quo(k, base) <= Quo(n, base)
      BY <3>1, Quotient, QuotientMonotone
    <3>3. Len(N[Quo(k, base)]) <= Len(N[Quo(n, base)])
      BY <1>3, <3>2
    <3>4. Len(N[k]) = Len(N[Quo(k, base)]) + 1 /\ Len(N[n]) = Len(N[Quo(n, base)]) + 1
      BY <1>1, <2>2, <3>1
    <3>5. Len(N[Quo(k, base)]) \in Nat /\ Len(N[Quo(n, base)]) \in Nat
      BY <1>1, <3>2
    <3> QED BY <3>3, <3>4, <3>5
  <2> QED BY <1>0, <2>1, <2>2
<1>4. \A n \in Nat : n \in T
  <2> HIDE DEF T
  <2> QED BY <1>3, AllNumbers
<1> QED BY <1>1, <1>4 DEF N

-----------------------------------------------------------------------------
(* ui2a: the power it begins with and the digits from there down. *)
IsQuotient(d, r, q, e) == q = r \div d /\ e = r - q * d

LEMMA Divides ==
    ASSUME NEW d \in Nat, d > 0, NEW r \in Nat, NEW q, NEW e, IsQuotient(d, r, q, e)
    PROVE  q \in Nat /\ q * d \in Nat /\ e \in Nat /\ e < d /\ r = q * d + e
<1>1. PICK t : t = r % d
  OBVIOUS
<1>2. q \in Nat /\ t \in 0..(d - 1) /\ r = q * d + t
  BY <1>1 DEF IsQuotient
<1>3. q * d \in Nat
  BY <1>2
<1> QED BY <1>2, <1>3 DEF IsQuotient

Turn(s, base, h) ==
    LET d == s[1]
        dgt == s[2] \div d
        shown == s[3] \/ dgt > 0 \/ d \div base = 0
    IN  IF d = 0 THEN <<>>
        ELSE (IF shown THEN <<DigitChars[dgt + 1]>> ELSE <<>>)
             \o h[<<d \div base, s[2] - dgt * d, shown>>]

Turns == Nat \X Nat \X BOOLEAN
DigitsFrom(base) == CHOOSE f : f = [s \in Turns |-> Turn(s, base, f)]

LEMMA DigitsLoop ==
    ASSUME NEW num, NEW base
    PROVE  ui2a(num, base) = DigitsFrom(base)[<<Power(num, base), num, FALSE>>]
BY Zenon DEF ui2a, DigitsFrom, Turn, Turns

(* A turn of the loop at a power d of the base writes the digit q, if c, and
   leaves e to the turns after it. *)
NextTurn(d, r, b, base, q, e, c) ==
    /\ q \in Nat /\ e \in Nat /\ e < d /\ q * d \in Nat /\ r = q * d + e
    /\ c \in BOOLEAN /\ (c <=> b \/ q > 0 \/ Quo(d, base) = 0)
    /\ Quo(d, base) \in Nat /\ Quo(d, base) < d /\ <<Quo(d, base), e, c>> \in Turns
    /\ \A h : Turn(<<d, r, b>>, base, h)
                = (IF c THEN <<DigitChars[q + 1]>> ELSE <<>>) \o h[<<Quo(d, base), e, c>>]

LEMMA LastTurn ==
    ASSUME NEW r \in Nat, NEW b \in BOOLEAN, NEW base, NEW h
    PROVE  Turn(<<0, r, b>>, base, h) = <<>>
BY DEF Turn

LEMMA TurnStep ==
    ASSUME NEW d \in Nat, d > 0, NEW r \in Nat, NEW b \in BOOLEAN, NEW base \in Bases
    PROVE  \E q, e, c : NextTurn(d, r, b, base, q, e, c)
<1>1. PICK q, e, c : /\ IsQuotient(d, r, q, e)
                     /\ c = (b \/ q > 0 \/ Quo(d, base) = 0)
  BY DEF IsQuotient
<1>2. c \in BOOLEAN /\ (c <=> b \/ q > 0 \/ Quo(d, base) = 0)
  BY <1>1
<1>3. q \in Nat /\ e \in Nat /\ r = q * d + e /\ e < d /\ q * d \in Nat
  BY <1>1, Divides
<1>4. Quo(d, base) \in Nat /\ Quo(d, base) < d
  <2>1. CASE d >= base
    BY <2>1, Quotient
  <2>2. CASE ~(d >= base)
    <3>1. d < base /\ d = 0 * base + d
      BY <2>2, Base
    <3>2. Quo(d, base) = 0
      BY <3>1, QuotientIs
    <3> QED BY <3>2
  <2> QED BY <2>1, <2>2
<1>5. <<Quo(d, base), e, c>> \in Turns
  BY <1>2, <1>3, <1>4 DEF Turns
<1>6. ASSUME NEW h
      PROVE Turn(<<d, r, b>>, base, h)
               = (IF c THEN <<DigitChars[q + 1]>> ELSE <<>>) \o h[<<Quo(d, base), e, c>>]
  <2>1. d # 0 /\ q = r \div d /\ e = r - q * d
    BY <1>1 DEF IsQuotient
  <2>2. c = (b \/ q > 0 \/ d \div base = 0)
    BY <1>1 DEF Quo
  <2>3. <<d, r, b>>[1] = d /\ <<d, r, b>>[2] = r /\ <<d, r, b>>[3] = b
    OBVIOUS
  <2> QED BY <2>1, <2>2, <2>3, Zenon DEF Turn, Quo
<1> QED BY <1>2, <1>3, <1>4, <1>5, <1>6 DEF NextTurn

LEMMA TurnIn ==
    ASSUME NEW s \in Turns, NEW base \in Bases, NEW h,
           \A t \in Turns : t[1] < s[1] => h[t] \in Seq(Digits)
    PROVE  Turn(s, base, h) \in Seq(Digits)
<1>1. PICK d \in Nat, r \in Nat, b \in BOOLEAN : s = <<d, r, b>>
  BY DEF Turns
<1>2. CASE d = 0
  BY <1>1, <1>2, LastTurn, EmptySeq
<1>3. CASE d > 0
  <2>1. PICK q, e, c : NextTurn(d, r, b, base, q, e, c)
    BY <1>3, TurnStep
  <2>2. h[<<Quo(d, base), e, c>>] \in Seq(Digits)
    BY <1>1, <2>1 DEF NextTurn
  <2>3. (IF c THEN <<DigitChars[q + 1]>> ELSE <<>>) \in Seq(Digits)
    BY <2>1, DigitIs, EmptySeq DEF NextTurn
  <2>4. Turn(s, base, h) = (IF c THEN <<DigitChars[q + 1]>> ELSE <<>>) \o h[<<Quo(d, base), e, c>>]
    BY <1>1, <2>1 DEF NextTurn
  <2> QED BY <2>2, <2>3, <2>4, ConcatProperties
<1> QED BY <1>2, <1>3

LEMMA TurnDepends ==
    ASSUME NEW s \in Turns, NEW base \in Bases, NEW g, NEW h,
           \A t \in Turns : t[1] < s[1] => g[t] = h[t]
    PROVE  Turn(s, base, g) = Turn(s, base, h)
<1>1. PICK d \in Nat, r \in Nat, b \in BOOLEAN : s = <<d, r, b>>
  BY DEF Turns
<1>2. CASE d = 0
  BY <1>1, <1>2, LastTurn
<1>3. CASE d > 0
  <2>1. PICK q, e, c : NextTurn(d, r, b, base, q, e, c)
    BY <1>3, TurnStep
  <2>2. g[<<Quo(d, base), e, c>>] = h[<<Quo(d, base), e, c>>]
    BY <1>1, <2>1 DEF NextTurn
  <2> QED BY <1>1, <2>1, <2>2 DEF NextTurn
<1> QED BY <1>2, <1>3

LEMMA DigitsFacts ==
    ASSUME NEW base \in Bases
    PROVE  \A s \in Turns : /\ DigitsFrom(base)[s] \in Seq(Digits)
                            /\ DigitsFrom(base)[s] = Turn(s, base, DigitsFrom(base))
<1> DEFINE S == Seq(Digits)
           F == [h \in [Turns -> S] |-> [s \in Turns |-> Turn(s, base, h)]]
           m == [s \in Turns |-> s[1]]
           D == DigitsFrom(base)
<1>0. \A s \in Turns : s[1] \in Nat
  BY DEF Turns
<1>1. \A h \in [Turns -> S], s \in Turns : Turn(s, base, h) \in S
  BY TurnIn
<1>3. Recursive(F, Turns, S, m)
  <2>1. F \in [[Turns -> S] -> [Turns -> S]] /\ m \in [Turns -> Nat]
    BY <1>0, <1>1
  <2>2. \A h \in [Turns -> S], s \in Turns : F[h][s] = Turn(s, base, h) /\ m[s] = s[1]
    BY <1>1
  <2> HIDE DEF S, F, m
  <2>3. ASSUME NEW g \in [Turns -> S], NEW h \in [Turns -> S], NEW s \in Turns,
               \A t \in Turns : m[t] < m[s] => g[t] = h[t]
        PROVE  F[g][s] = F[h][s]
    <3>1. \A t \in Turns : t[1] < s[1] => g[t] = h[t]
      BY <2>2, <2>3
    <3>2. Turn(s, base, g) = Turn(s, base, h)
      BY <3>1, TurnDepends
    <3> QED BY <2>2, <3>2
  <2> QED BY <2>1, <2>3 DEF Recursive
<1>4. S # {}
  BY EmptySeq
<1>5. \E f \in [Turns -> S] : f = F[f]
  <2> HIDE DEF F, S, m
  <2> QED BY <1>3, <1>4, RecursionTheorem
<1>6. D = [s \in Turns |-> Turn(s, base, D)]
  BY <1>5 DEF DigitsFrom
<1> HIDE DEF D, S, F, m
<1> DEFINE T == {n \in Nat : \A s \in Turns : s[1] = n => D[s] \in S}
<1>7. ASSUME NEW n \in Nat, \A k \in 0..(n - 1) : k \in T PROVE n \in T
  <2> SUFFICES ASSUME NEW s \in Turns, s[1] = n PROVE D[s] \in S
    OBVIOUS
  <2>1. ASSUME NEW t \in Turns, t[1] < s[1] PROVE D[t] \in S
    <3>1. t[1] \in 0..(n - 1)
      BY <1>0, <2>1
    <3> QED BY <1>7, <3>1
  <2>2. Turn(s, base, D) \in S
    BY <2>1, TurnIn DEF S
  <2> QED BY <1>6, <2>2
<1>8. \A n \in Nat : n \in T
  <2> HIDE DEF T
  <2> QED BY <1>7, AllNumbers
<1>9. \A s \in Turns : D[s] \in S /\ D[s] = Turn(s, base, D)
  BY <1>0, <1>6, <1>8
<1> QED BY <1>9 DEF D, S

PowerAt(k, num, base, h) == IF num \div k >= base THEN h[(k * base) % UINT] ELSE k
PowersBelow == 1..(UINT - 1)
PowerFrom(num, base) == CHOOSE f : f = [k \in PowersBelow |-> PowerAt(k, num, base, f)]

LEMMA PowerLoop ==
    ASSUME NEW num, NEW base
    PROVE  Power(num, base) = PowerFrom(num, base)[1]
BY Zenon DEF Power, PowerFrom, PowerAt, PowersBelow

(* The loop multiplies d once more, without overflow, or is done with it. *)
Multiplies(k, num, base) ==
    /\ k * base \in Nat /\ k * base <= num /\ k < k * base
    /\ \A h : PowerAt(k, num, base, h) = h[k * base]
Stops(k, num, base) == num < k * base /\ \A h : PowerAt(k, num, base, h) = k

LEMMA PowerStep ==
    ASSUME NEW k \in Nat, k > 0, NEW num \in Nat, num < UINT, NEW base \in Bases
    PROVE  Multiplies(k, num, base) \/ Stops(k, num, base)
<1>1. PICK q, e : IsQuotient(k, num, q, e)
  BY DEF IsQuotient
<1>2. q = num \div k
  BY <1>1 DEF IsQuotient
<1>3. q \in Nat /\ q * k \in Nat /\ e \in Nat /\ e < k /\ num = q * k + e
  BY <1>1, Divides
<1>4. base \in Nat /\ base >= 10
  BY Base
<1>5. CASE q >= base
  <2>1. base * k <= q * k
    BY <1>3, <1>4, <1>5
  <2>2. k * base = base * k /\ k * base \in Nat /\ k < k * base
    BY <1>4
  <2>3. PICK n \in Nat : n = k * base
    BY <2>2
  <2>4. n <= num /\ n < UINT /\ UINT \in Nat
    BY <2>1, <2>2, <2>3, <1>3, PrintfAssumption
  <2>5. n % UINT = n
    BY <2>4
  <2>6. num \div k >= base
    BY <1>2, <1>5
  <2>7. (k * base) % UINT = k * base
    BY <2>3, <2>5
  <2>8. ASSUME NEW h PROVE PowerAt(k, num, base, h) = h[k * base]
    BY <2>6, <2>7, Zenon DEF PowerAt
  <2> QED BY <2>2, <2>3, <2>4, <2>8 DEF Multiplies
<1>6. CASE ~(q >= base)
  <2>1. q + 1 <= base
    BY <1>3, <1>4, <1>6
  <2>2. (q + 1) * k <= base * k
    BY <1>3, <1>4, <2>1
  <2>3. num < k * base
    BY <2>2, <1>3, <1>4
  <2>4. ~(num \div k >= base)
    BY <1>2, <1>6
  <2>5. ASSUME NEW h PROVE PowerAt(k, num, base, h) = k
    BY <2>4, Zenon DEF PowerAt
  <2> QED BY <2>3, <2>5 DEF Stops
<1> QED BY <1>5, <1>6

LEMMA PowerFacts ==
    ASSUME NEW num \in Nat, num < UINT, NEW base \in Bases
    PROVE  \A k \in PowersBelow : PowerFrom(num, base)[k] = PowerAt(k, num, base, PowerFrom(num, base))
<1> DEFINE F == [h \in [PowersBelow -> Nat] |-> [k \in PowersBelow |-> PowerAt(k, num, base, h)]]
           m == [k \in PowersBelow |-> UINT - k]
<1>0. UINT \in Nat /\ \A k \in PowersBelow : k \in Nat /\ k > 0 /\ k < UINT
  BY PrintfAssumption DEF PowersBelow
<1>1. ASSUME NEW h \in [PowersBelow -> Nat], NEW k \in PowersBelow PROVE PowerAt(k, num, base, h) \in Nat
  <2>1. CASE Multiplies(k, num, base)
    <3>1. k * base \in PowersBelow
      BY <1>0, <2>1 DEF Multiplies, PowersBelow
    <3> QED BY <2>1, <3>1 DEF Multiplies
  <2>2. CASE Stops(k, num, base)
    BY <1>0, <2>2 DEF Stops
  <2> QED BY <1>0, <2>1, <2>2, PowerStep
<1>2. ASSUME NEW g \in [PowersBelow -> Nat], NEW h \in [PowersBelow -> Nat], NEW k \in PowersBelow,
             \A j \in PowersBelow : UINT - j < UINT - k => g[j] = h[j]
      PROVE  PowerAt(k, num, base, g) = PowerAt(k, num, base, h)
  <2>1. CASE Multiplies(k, num, base)
    <3>1. PICK j : j = k * base
      OBVIOUS
    <3>2. j \in PowersBelow /\ UINT - j < UINT - k
      BY <1>0, <2>1, <3>1 DEF Multiplies, PowersBelow
    <3>3. g[k * base] = h[k * base]
      BY <1>2, <3>1, <3>2
    <3> QED BY <2>1, <3>3 DEF Multiplies
  <2>2. CASE Stops(k, num, base)
    BY <2>2 DEF Stops
  <2> QED BY <1>0, <2>1, <2>2, PowerStep
<1>3. Recursive(F, PowersBelow, Nat, m)
  <2>1. F \in [[PowersBelow -> Nat] -> [PowersBelow -> Nat]] /\ m \in [PowersBelow -> Nat]
    BY <1>0, <1>1
  <2>2. \A h \in [PowersBelow -> Nat], k \in PowersBelow : F[h][k] = PowerAt(k, num, base, h) /\ m[k] = UINT - k
    BY <1>1
  <2> HIDE DEF F, m
  <2> QED BY <1>2, <2>1, <2>2 DEF Recursive
<1>5. \E f \in [PowersBelow -> Nat] : f = F[f]
  <2> HIDE DEF F, m
  <2> QED BY <1>3, RecursionTheorem
<1>6. PowerFrom(num, base) = [k \in PowersBelow |-> PowerAt(k, num, base, PowerFrom(num, base))]
  BY <1>5 DEF PowerFrom
<1> QED BY <1>6

(* Behind the digits of x, the digits that the loop writes of rest from the
   power d on are those of one number. *)
Continues(x, d, rest, y, base) ==
    NumeralOf(base)[x] \o DigitsFrom(base)[<<d, rest, TRUE>>] = NumeralOf(base)[y]

Completes(d, w, base) ==
    /\ d \in Nat /\ d > 0 /\ w \in Nat /\ w = d * base
    /\ \A x \in Nat, rest \in Nat, y \in Nat :
          x > 0 /\ rest < w /\ y = x * w + rest => Continues(x, d, rest, y, base)

(* What a turn writes, and what the turns after it do. *)
Wrote(d, r, b, base, q, e, c) ==
    LET D == DigitsFrom(base) IN
    /\ NextTurn(d, r, b, base, q, e, c)
    /\ D[<<d, r, b>>] = (IF c THEN <<DigitChars[q + 1]>> ELSE <<>>) \o D[<<Quo(d, base), e, c>>]
    /\ D[<<Quo(d, base), e, c>>] \in Seq(Digits)

LEMMA TurnOfDigits ==
    ASSUME NEW d \in Nat, d > 0, NEW r \in Nat, NEW b \in BOOLEAN, NEW base \in Bases
    PROVE  \E q, e, c : Wrote(d, r, b, base, q, e, c)
<1>1. PICK q, e, c : NextTurn(d, r, b, base, q, e, c)
  BY TurnStep
<1>2. <<d, r, b>> \in Turns
  BY DEF Turns
<1>3. Wrote(d, r, b, base, q, e, c)
  BY <1>1, <1>2, DigitsFacts DEF NextTurn, Wrote
<1> QED BY <1>3

LEMMA NothingLeft ==
    ASSUME NEW r \in Nat, NEW b \in BOOLEAN, NEW base \in Bases
    PROVE  DigitsFrom(base)[<<0, r, b>>] = <<>>
<1>1. <<0, r, b>> \in Turns
  BY DEF Turns
<1> QED BY <1>1, DigitsFacts, LastTurn

LEMMA QuotientOfOne ==
    ASSUME NEW base \in Bases
    PROVE  Quo(1, base) = 0
<1>1. 1 < base /\ 1 = 0 * base + 1
  BY Base
<1> QED BY <1>1, QuotientIs

LEMMA UnitsComplete ==
    ASSUME NEW base \in Bases
    PROVE  Completes(1, base, base)
<1>1. base \in Nat
  BY Base
<1>2. ASSUME NEW x \in Nat, NEW rest \in Nat, NEW y \in Nat, x > 0, rest < base, y = x * base + rest
      PROVE  Continues(x, 1, rest, y, base)
  <2>1. PICK q, e, c : Wrote(1, rest, TRUE, base, q, e, c)
    <3>1. 1 \in Nat /\ 1 > 0 /\ TRUE \in BOOLEAN
      OBVIOUS
    <3> QED BY <3>1, TurnOfDigits
  <2>2. c = TRUE /\ q = rest /\ e \in Nat /\ q \in Nat
    BY <2>1 DEF NextTurn, Wrote
  <2>3. DigitsFrom(base)[<<Quo(1, base), e, c>>] = <<>>
    BY <2>2, NothingLeft, QuotientOfOne
  <2>4. <<DigitChars[rest + 1]>> \in Seq(Digits)
    BY DigitIs
  <2>5. DigitsFrom(base)[<<1, rest, TRUE>>] = <<DigitChars[rest + 1]>>
    BY <2>1, <2>2, <2>3, <2>4, ConcatEmptySeq DEF Wrote
  <2>6. NumeralOf(base)[y] = NumeralOf(base)[x] \o <<DigitChars[rest + 1]>>
    BY <1>2, OneDigitMore
  <2> QED BY <2>5, <2>6 DEF Continues
<1>3. base = 1 * base /\ 1 \in Nat /\ 1 > 0
  BY <1>1
<1> QED BY <1>1, <1>2, <1>3 DEF Completes

LEMMA Distributes ==
    ASSUME NEW x \in Nat, NEW q \in Nat, NEW d \in Nat, NEW base \in Nat
    PROVE  (x * base + q) * d = x * (d * base) + q * d
OBVIOUS

LEMMA HigherComplete ==
    ASSUME NEW base \in Bases, NEW f, NEW d, Completes(f, d, base), NEW w, w = d * base
    PROVE  Completes(d, w, base)
<1>1. base \in Nat /\ base >= 10 /\ f \in Nat /\ f > 0 /\ d \in Nat /\ d = f * base
  BY Base DEF Completes
<1>2. d > 0 /\ w \in Nat
  BY <1>1
<1>3. Quo(d, base) = f
  BY <1>1, Base, QuotientIs
<1>4. ASSUME NEW x \in Nat, NEW rest \in Nat, NEW y \in Nat, x > 0, rest < w, y = x * w + rest
      PROVE  Continues(x, d, rest, y, base)
  <2>1. PICK q, e, c : Wrote(d, rest, TRUE, base, q, e, c)
    BY <1>1, <1>2, TurnOfDigits
  <2>2. c = TRUE /\ q \in Nat /\ e \in Nat /\ e < d /\ rest = q * d + e
    BY <2>1 DEF NextTurn, Wrote
  <2>3. q < base
    <3> SUFFICES ASSUME q >= base PROVE FALSE
      BY <1>1, <2>2
    <3>1. q * d >= base * d /\ base * d = w /\ q * d \in Nat
      BY <1>1, <1>2, <2>2
    <3>2. PICK k \in Nat : k = q * d
      BY <3>1
    <3>3. k >= w /\ rest = k + e
      BY <3>1, <3>2, <2>2
    <3> QED BY <3>3, <1>2, <1>4, <2>2
  <2>4. PICK z \in Nat : z = x * base + q
    BY <1>1, <2>2
  <2>5. z > 0
    <3>1. x * base > 0
      BY <1>1, <1>4
    <3> QED BY <1>1, <2>2, <2>4, <3>1
  <2>6. y = z * d + e
    BY <1>1, <1>4, <2>2, <2>4, Distributes
  <2>7. PICK nx, nz, ny, t, u :
            /\ nx = NumeralOf(base)[x] /\ nz = NumeralOf(base)[z] /\ ny = NumeralOf(base)[y]
            /\ t = <<DigitChars[q + 1]>> /\ u = DigitsFrom(base)[<<f, e, TRUE>>]
    OBVIOUS
  <2>8. nz = nx \o t
    BY <1>4, <2>2, <2>3, <2>4, <2>7, OneDigitMore
  <2>9. nz \o u = ny
    <3>1. Continues(z, f, e, y, base)
      BY <2>2, <2>5, <2>6 DEF Completes
    <3> QED BY <3>1, <2>7 DEF Continues
  <2>10. nx \in Seq(Digits) /\ t \in Seq(Digits) /\ u \in Seq(Digits)
    <3>1. nx \in Seq(Digits)
      BY <2>7, NumeralFacts
    <3>2. t \in Seq(Digits)
      BY <2>2, <2>7, DigitIs
    <3>3. u \in Seq(Digits)
      BY <1>3, <2>1, <2>2, <2>7 DEF Wrote
    <3> QED BY <3>1, <3>2, <3>3
  <2>11. DigitsFrom(base)[<<d, rest, TRUE>>] = t \o u
    BY <1>3, <2>1, <2>2, <2>7 DEF Wrote
  <2>12. nx \o (t \o u) = ny
    <3>1. (nx \o t) \o u = nx \o (t \o u)
      BY <2>10, ConcatAssociative
    <3> QED BY <2>8, <2>9, <3>1
  <2> QED BY <2>7, <2>11, <2>12 DEF Continues
<1> QED BY <1>1, <1>2, <1>4 DEF Completes

(* A power that the first loop of ui2a reaches: one, or the base times a power
   from which the second loop completes a number. *)
IsPlace(k, base) == k = 1 \/ \E f : Completes(f, k, base)

LEMMA PlaceCompletes ==
    ASSUME NEW base \in Bases, NEW k, IsPlace(k, base), NEW w, w = k * base
    PROVE  Completes(k, w, base)
<1>1. CASE k = 1
  <2>1. w = base
    BY <1>1, Base
  <2> QED BY <1>1, <2>1, UnitsComplete
<1>2. CASE \E f : Completes(f, k, base)
  BY <1>2, HigherComplete
<1> QED BY <1>1, <1>2 DEF IsPlace

Begins(k, num, base) ==
    IsPlace(k, base) /\ k \in Nat /\ k > 0 /\ num < k * base /\ (k = 1 \/ k <= num)

LEMMA PowerReached ==
    ASSUME NEW num \in Nat, num < UINT, NEW base \in Bases
    PROVE  Begins(Power(num, base), num, base)
<1> DEFINE P == PowerFrom(num, base)
           T == {n \in Nat : \A k \in PowersBelow :
                    UINT - k = n /\ IsPlace(k, base) /\ (k = 1 \/ k <= num) => Begins(P[k], num, base)}
<1>0. UINT \in Nat /\ UINT >= 32 /\ \A k \in PowersBelow : k \in Nat /\ k > 0 /\ k < UINT
  BY PrintfAssumption DEF PowersBelow
<1>1. \A k \in PowersBelow : P[k] = PowerAt(k, num, base, P)
  BY PowerFacts
<1> HIDE DEF P
<1>2. ASSUME NEW n \in Nat, \A j \in 0..(n - 1) : j \in T PROVE n \in T
  <2> SUFFICES ASSUME NEW k \in PowersBelow, UINT - k = n, IsPlace(k, base), k = 1 \/ k <= num
               PROVE Begins(P[k], num, base)
    OBVIOUS
  <2>1. CASE Multiplies(k, num, base)
    <3>1. PICK w : w = k * base
      OBVIOUS
    <3>2. w \in Nat /\ w <= num /\ k < w /\ P[k] = P[w]
      BY <1>1, <2>1, <3>1 DEF Multiplies
    <3>3. IsPlace(w, base)
      BY <3>1, PlaceCompletes DEF IsPlace
    <3>4. w \in PowersBelow /\ UINT - w \in 0..(n - 1)
      BY <1>0, <3>2 DEF PowersBelow
    <3>5. UINT - w \in T
      BY <1>2, <3>4
    <3> QED BY <3>2, <3>3, <3>4, <3>5
  <2>2. CASE Stops(k, num, base)
    <3>1. P[k] = k /\ num < k * base
      BY <1>1, <2>2 DEF Stops
    <3> QED BY <1>0, <3>1 DEF Begins
  <2> QED BY <1>0, <2>1, <2>2, PowerStep
<1>3. \A n \in Nat : n \in T
  <2> HIDE DEF T
  <2> QED BY <1>2, AllNumbers
<1>4. 1 \in PowersBelow /\ UINT - 1 \in Nat /\ IsPlace(1, base)
  BY <1>0 DEF PowersBelow, IsPlace
<1>5. Begins(P[1], num, base)
  BY <1>3, <1>4
<1> QED BY <1>5, PowerLoop DEF P

(* ui2a writes the numeral of its argument: the powers of the base do not
   overflow, no leading zero is written, and no zero is left out. *)
LEMMA Ui2aWritesNumeral ==
    ASSUME NEW num \in Nat, num < UINT, NEW base \in Bases
    PROVE  ui2a(num, base) = NumeralOf(base)[num]
<1>0. base \in Nat /\ base >= 10
  BY Base
<1>1. PICK d : d = Power(num, base)
  OBVIOUS
<1>2. IsPlace(d, base) /\ d \in Nat /\ d > 0 /\ num < d * base /\ (d = 1 \/ d <= num)
  BY <1>1, PowerReached DEF Begins
<1>3. ui2a(num, base) = DigitsFrom(base)[<<d, num, FALSE>>]
  BY <1>1, DigitsLoop
<1>4. PICK q, e, c : Wrote(d, num, FALSE, base, q, e, c)
  <2>1. FALSE \in BOOLEAN
    OBVIOUS
  <2> QED BY <1>2, <2>1, TurnOfDigits
<1>5. /\ q \in Nat /\ e \in Nat /\ e < d /\ q * d \in Nat /\ num = q * d + e
      /\ c \in BOOLEAN /\ (c <=> q > 0 \/ Quo(d, base) = 0)
  BY <1>4 DEF Wrote, NextTurn
<1>6. DigitsFrom(base)[<<d, num, FALSE>>]
        = (IF c THEN <<DigitChars[q + 1]>> ELSE <<>>) \o DigitsFrom(base)[<<Quo(d, base), e, c>>]
  BY <1>4 DEF Wrote
<1>7. q < base
  <2> SUFFICES ASSUME q >= base PROVE FALSE
    BY <1>0, <1>5
  <2>1. q * d >= base * d /\ base * d = d * base
    BY <1>0, <1>2, <1>5
  <2>2. PICK k \in Nat, w \in Nat : k = q * d /\ w = d * base
    BY <1>0, <1>2, <1>5
  <2>3. k >= w /\ num = k + e /\ num < w
    BY <1>2, <1>5, <2>1, <2>2
  <2> QED BY <1>5, <2>3
<1>8. <<DigitChars[q + 1]>> \in Seq(Digits) /\ NumeralOf(base)[q] = <<DigitChars[q + 1]>>
  BY <1>5, <1>7, DigitIs, NumeralCases
<1>9. CASE d = 1
  <2>1. c = TRUE /\ q = num
    BY <1>5, <1>9, QuotientOfOne
  <2>2. DigitsFrom(base)[<<Quo(d, base), e, c>>] = <<>>
    BY <1>5, <1>9, NothingLeft, QuotientOfOne
  <2>3. DigitsFrom(base)[<<d, num, FALSE>>] = <<DigitChars[q + 1]>>
    BY <1>6, <1>8, <2>1, <2>2, ConcatEmptySeq
  <2> QED BY <1>3, <1>8, <2>1, <2>3
<1>10. CASE d # 1
  <2>1. PICK f : Completes(f, d, base)
    BY <1>2, <1>10 DEF IsPlace
  <2>2. f \in Nat /\ f > 0 /\ d = f * base
    BY <2>1 DEF Completes
  <2>3. Quo(d, base) = f
    BY <1>0, <1>2, <2>2, QuotientIs
  <2>4. q > 0
    <3> SUFFICES ASSUME q = 0 PROVE FALSE
      BY <1>5
    <3>1. q * d = 0 /\ num = e
      BY <1>2, <1>5
    <3> QED BY <1>2, <1>5, <1>10, <3>1
  <2>5. c = TRUE
    BY <1>5, <2>4
  <2>6. Continues(q, f, e, num, base)
    BY <1>5, <2>1, <2>4 DEF Completes
  <2> QED BY <1>3, <1>6, <1>8, <2>3, <2>5, <2>6 DEF Continues
<1> QED BY <1>9, <1>10

LEMMA I2aWritesNumeral ==
    ASSUME NEW v \in Int, -UINT < v, v < UINT, NEW base \in Bases
    PROVE  i2a(v, base) = Numeral(v, base)
<1>0. base \in Nat /\ UINT \in Nat
  BY Base, PrintfAssumption
<1>1. CASE v < 0
  <2>1. -v \in Nat /\ -v < UINT
    BY <1>0, <1>1
  <2> QED BY <1>0, <1>1, <2>1, Ui2aWritesNumeral, NumeralIs DEF i2a
<1>2. CASE ~(v < 0)
  <2>1. v \in Nat
    BY <1>2
  <2> QED BY <1>0, <1>2, <2>1, Ui2aWritesNumeral, NumeralIs DEF i2a
<1> QED BY <1>1, <1>2

(* An argument, in halves of the unsigned ints. *)
LEMMA SignedIs ==
    ASSUME NEW v \in Nat, v < UINT
    PROVE  /\ Signed(v) \in Int /\ -UINT < Signed(v) /\ Signed(v) < UINT
           /\ UINT \div 2 \in Nat /\ UINT - 1 \in Nat
           /\ -(UINT \div 2) <= Signed(v) /\ Signed(v) < UINT \div 2
           /\ UINT \div 2 > 0 /\ UINT \div 2 < UINT
<1>1. PICK h : h = UINT \div 2
  OBVIOUS
<1>2. h \in Nat /\ UINT \in Nat /\ UINT = 2 * h /\ h > 0
  BY <1>1, PrintfAssumption
<1>3. Signed(v) = IF v >= h THEN v - UINT ELSE v
  BY <1>1 DEF Signed
<1> QED BY <1>1, <1>2, <1>3

(* Each conversion of a number writes its numeral, for every argument: unsigned
   as it is, signed in two's complement, hexadecimal with its sign and prefix. *)
THEOREM ConvertsNumbers ==
    \A v \in 0..(UINT - 1) :
        /\ NumberText("u", v) = Numeral(v, 10)
        /\ \A spec \in {"d", "i"} : NumberText(spec, v) = Numeral(Signed(v), 10)
        /\ NumberText("x", v) = <<"0", "x">> \o Numeral(Signed(v), 16)
<1> SUFFICES ASSUME NEW v \in 0..(UINT - 1)
             PROVE  /\ NumberText("u", v) = Numeral(v, 10)
                    /\ \A spec \in {"d", "i"} : NumberText(spec, v) = Numeral(Signed(v), 10)
                    /\ NumberText("x", v) = <<"0", "x">> \o Numeral(Signed(v), 16)
  OBVIOUS
<1>1. v \in Nat /\ v < UINT
  BY PrintfAssumption
<1>2. 10 \in Bases /\ 16 \in Bases
  BY DEF Bases
<1>3. ui2a(v, 10) = Numeral(v, 10)
  BY <1>1, <1>2, Ui2aWritesNumeral, NumeralIs
<1>4. \A base \in Bases : i2a(Signed(v), base) = Numeral(Signed(v), base)
  BY <1>1, SignedIs, I2aWritesNumeral
<1>5. NumberText("u", v) = ui2a(v, 10)
  BY DEF NumberText
<1>6. \A spec \in {"d", "i"} : NumberText(spec, v) = i2a(Signed(v), 10)
  BY DEF NumberText
<1>7. NumberText("x", v) = <<"0", "x">> \o i2a(Signed(v), 16)
  BY DEF NumberText
<1> QED BY <1>2, <1>3, <1>4, <1>5, <1>6, <1>7

LEMMA LenOfNumeral ==
    ASSUME NEW v \in Int, NEW base \in Bases
    PROVE  /\ v >= 0 => Numeral(v, base) \in Seq(Digits) /\ Len(Numeral(v, base)) = Len(NumeralOf(base)[v])
           /\ v < 0 => /\ Numeral(v, base) \in Seq(Digits \cup {"-"})
                       /\ Len(Numeral(v, base)) = 1 + Len(NumeralOf(base)[-v])
<1>0. base \in Nat
  BY Base
<1>1. CASE v >= 0
  BY <1>0, <1>1, NumeralIs, NumeralFacts
<1>2. CASE v < 0
  <2>1. -v \in Nat
    BY <1>2
  <2>2. NumeralOf(base)[-v] \in Seq(Digits)
    BY <2>1, NumeralFacts
  <2>3. NumeralOf(base)[-v] \in Seq(Digits \cup {"-"}) /\ <<"-">> \in Seq(Digits \cup {"-"})
    BY <2>2, SeqMonotonic
  <2>4. Numeral(v, base) = <<"-">> \o NumeralOf(base)[-v]
    BY <1>0, <1>2, NumeralIs
  <2>5. Len(<<"-">>) = 1
    OBVIOUS
  <2> QED BY <1>2, <2>3, <2>4, <2>5, ConcatProperties
<1> QED BY <1>1, <1>2

Specs == {"d", "i", "u", "x"}

(* No number is longer than those that BufferAssumption names. *)
LEMMA NumberFits ==
    ASSUME NEW v \in Nat, v < UINT, NEW spec \in Specs
    PROVE  NumberText(spec, v) \in Seq(Digits \cup {"-", "x", "0"}) /\ Len(NumberText(spec, v)) < BF_SIZE
<1> DEFINE S == Digits \cup {"-", "x", "0"}
<1>0. 10 \in Bases /\ 16 \in Bases /\ BF_SIZE \in Nat /\ v \in 0..(UINT - 1)
  BY PrintfAssumption DEF Bases
<1>1. PICK h, s : h = UINT \div 2 /\ s = Signed(v)
  OBVIOUS
<1>2. /\ h \in Nat /\ UINT - 1 \in Nat /\ h > 0 /\ h <= UINT - 1 /\ UINT \in Nat
      /\ s \in Int /\ -h <= s /\ s < h
  BY <1>1, SignedIs, PrintfAssumption
<1>3. \A base \in Bases : /\ Numeral(v, base) \in Seq(S) /\ Numeral(s, base) \in Seq(S)
  <2> TAKE base \in Bases
  <2>1. Seq(Digits) \subseteq Seq(S) /\ Seq(Digits \cup {"-"}) \subseteq Seq(S)
    BY SeqMonotonic
  <2> QED BY <2>1, <1>2, LenOfNumeral
<1>4. \A base \in Bases : /\ Len(Numeral(v, base)) <= Len(Numeral(UINT - 1, base))
                          /\ s >= 0 => Len(Numeral(s, base)) < Len(Numeral(-h, base))
                          /\ s < 0 => Len(Numeral(s, base)) <= Len(Numeral(-h, base))
                          /\ Len(Numeral(v, base)) \in Nat /\ Len(Numeral(s, base)) \in Nat
                          /\ Len(Numeral(UINT - 1, base)) \in Nat /\ Len(Numeral(-h, base)) \in Nat
  <2> TAKE base \in Bases
  <2>1. PICK k \in Int : k = -h
    BY <1>2
  <2>2. k < 0 /\ -k = h
    BY <1>2, <2>1
  <2>3. Len(Numeral(k, base)) = 1 + Len(NumeralOf(base)[h])
    BY <2>2, LenOfNumeral
  <2>4. /\ Len(Numeral(v, base)) = Len(NumeralOf(base)[v])
        /\ Len(Numeral(UINT - 1, base)) = Len(NumeralOf(base)[UINT - 1])
    BY <1>2, LenOfNumeral
  <2>5. /\ Len(NumeralOf(base)[v]) \in Nat /\ Len(NumeralOf(base)[UINT - 1]) \in Nat
        /\ Len(NumeralOf(base)[v]) <= Len(NumeralOf(base)[UINT - 1])
    <3>1. v <= UINT - 1
      BY <1>2
    <3> QED BY <1>2, <3>1, LongerNumeral
  <2>6. Len(NumeralOf(base)[h]) \in Nat
    BY <1>2, NumeralCases
  <2>7. CASE s >= 0
    <3>1. s \in Nat /\ s <= h
      BY <1>2, <2>7
    <3>2. /\ Len(Numeral(s, base)) = Len(NumeralOf(base)[s])
          /\ Len(NumeralOf(base)[s]) \in Nat /\ Len(NumeralOf(base)[s]) <= Len(NumeralOf(base)[h])
      BY <1>2, <2>7, <3>1, LenOfNumeral, LongerNumeral
    <3> QED BY <1>2, <2>1, <2>3, <2>4, <2>5, <2>6, <2>7, <3>2
  <2>8. CASE s < 0
    <3>1. PICK t \in Nat : t = -s
      BY <1>2, <2>8
    <3>2. t <= h
      BY <1>2, <3>1
    <3>3. Len(Numeral(s, base)) = 1 + Len(NumeralOf(base)[t])
      BY <1>2, <2>8, <3>1, LenOfNumeral
    <3>4. Len(NumeralOf(base)[t]) \in Nat /\ Len(NumeralOf(base)[t]) <= Len(NumeralOf(base)[h])
      BY <1>2, <3>2, LongerNumeral
    <3> QED BY <1>2, <2>1, <2>3, <2>4, <2>5, <2>6, <2>8, <3>3, <3>4
  <2> QED BY <1>2, <2>7, <2>8
<1>5. /\ Len(Numeral(UINT - 1, 10)) < BF_SIZE /\ Len(Numeral(-h, 10)) < BF_SIZE
      /\ 2 + Len(Numeral(-h, 16)) < BF_SIZE
  BY <1>1, BufferAssumption
<1>6. Numeral(v, 10) \in Seq(S) /\ Len(Numeral(v, 10)) < BF_SIZE
  BY <1>0, <1>3, <1>4, <1>5
<1>7. Numeral(s, 10) \in Seq(S) /\ Len(Numeral(s, 10)) < BF_SIZE
  BY <1>0, <1>2, <1>3, <1>4, <1>5
<1>8. /\ <<"0", "x">> \o Numeral(s, 16) \in Seq(S)
      /\ Len(<<"0", "x">> \o Numeral(s, 16)) < BF_SIZE
  <2>1. <<"0", "x">> \in Seq(S) /\ Len(<<"0", "x">>) = 2
    OBVIOUS
  <2>2. Numeral(s, 16) \in Seq(S) /\ 2 + Len(Numeral(s, 16)) < BF_SIZE
    BY <1>0, <1>2, <1>3, <1>4, <1>5
  <2> QED BY <2>1, <2>2, ConcatProperties
<1> QED BY <1>0, <1>1, <1>6, <1>7, <1>8, ConvertsNumbers DEF Specs

(* Numbers below w have at most k digits. *)
Bounded(base, w, k) == \A n \in Nat : n < w => Len(NumeralOf(base)[n]) <= k

LEMMA OneMoreBounded ==
    ASSUME NEW base \in Bases, NEW w \in Nat, NEW k \in Nat, k > 0, Bounded(base, w, k),
           NEW u \in Nat, u = w * base
    PROVE  Bounded(base, u, k + 1)
<1> SUFFICES ASSUME NEW n \in Nat, n < u PROVE Len(NumeralOf(base)[n]) <= k + 1
  BY DEF Bounded
<1>0. base \in Nat /\ base >= 10
  BY Base
<1>1. CASE n < base
  <2>1. Len(NumeralOf(base)[n]) = 1
    BY <1>1, NumeralCases
  <2> QED BY <2>1
<1>2. CASE n >= base
  <2>1. PICK q, r : q = Quo(n, base) /\ r = Rem(n, base)
    OBVIOUS
  <2>2. q \in Nat /\ r \in Nat /\ n = q * base + r
    BY <2>1, Quotient
  <2>3. q < w
    <3> SUFFICES ASSUME q >= w PROVE FALSE
      BY <2>2
    <3>1. q * base >= w * base
      BY <1>0, <2>2
    <3>2. PICK j \in Nat : j = q * base
      BY <1>0, <2>2
    <3> QED BY <2>2, <3>1, <3>2
  <2>4. Len(NumeralOf(base)[q]) <= k
    BY <2>2, <2>3 DEF Bounded
  <2> QED BY <1>2, <2>1, <2>2, <2>4, NumeralCases
<1> QED BY <1>0, <1>1, <1>2

(* The twelve bytes of bf meet BufferAssumption for an int of 32 bits. *)
THEOREM TwelveBytesFit ==
    /\ Len(Numeral(4294967295, 10)) < 12 /\ Len(Numeral(-2147483648, 10)) < 12
    /\ 2 + Len(Numeral(-2147483648, 16)) < 12
<1>0. 10 \in Bases /\ 16 \in Bases
  BY DEF Bases
<1>1. Bounded(10, 10, 1) /\ Bounded(16, 16, 1)
  <2>1. ASSUME NEW base \in Bases, NEW n \in Nat, n < base PROVE Len(NumeralOf(base)[n]) <= 1
    <3>1. Len(NumeralOf(base)[n]) = 1
      BY <2>1, NumeralCases
    <3> QED BY <3>1
  <2> QED BY <1>0, <2>1 DEF Bounded
<1>2. Bounded(10, 100, 2) /\ Bounded(16, 256, 2)
  BY SMT, <1>0, <1>1, OneMoreBounded
<1>3. Bounded(10, 1000, 3) /\ Bounded(16, 4096, 3)
  BY SMT, <1>0, <1>2, OneMoreBounded
<1>4. Bounded(10, 10000, 4) /\ Bounded(16, 65536, 4)
  BY SMT, <1>0, <1>3, OneMoreBounded
<1>5. Bounded(10, 100000, 5) /\ Bounded(16, 1048576, 5)
  BY SMT, <1>0, <1>4, OneMoreBounded
<1>6. Bounded(10, 1000000, 6) /\ Bounded(16, 16777216, 6)
  BY SMT, <1>0, <1>5, OneMoreBounded
<1>7. Bounded(10, 10000000, 7) /\ Bounded(16, 268435456, 7)
  BY SMT, <1>0, <1>6, OneMoreBounded
<1>8. Bounded(10, 100000000, 8) /\ Bounded(16, 4294967296, 8)
  BY SMT, <1>0, <1>7, OneMoreBounded
<1>9. Bounded(10, 1000000000, 9)
  BY SMT, <1>0, <1>8, OneMoreBounded
<1>10. Bounded(10, 10000000000, 10)
  BY SMT, <1>0, <1>9, OneMoreBounded
<1>11. /\ Len(NumeralOf(10)[4294967295]) <= 10 /\ Len(NumeralOf(10)[2147483648]) <= 10
       /\ Len(NumeralOf(16)[2147483648]) <= 8
  BY SMT, <1>8, <1>10 DEF Bounded
<1>12. /\ Len(Numeral(4294967295, 10)) = Len(NumeralOf(10)[4294967295])
       /\ Len(Numeral(-2147483648, 10)) = 1 + Len(NumeralOf(10)[2147483648])
       /\ Len(Numeral(-2147483648, 16)) = 1 + Len(NumeralOf(16)[2147483648])
  <2>1. PICK a \in Nat : a = 2147483648
    BY SMT
  <2>2. -a \in Int /\ -a < 0 /\ -(-a) = a
    <3>1. a > 0
      BY SMT, <2>1
    <3> QED BY SMT, <3>1
  <2>3. Len(Numeral(-a, 10)) = 1 + Len(NumeralOf(10)[a]) /\ Len(Numeral(-a, 16)) = 1 + Len(NumeralOf(16)[a])
    BY SMT, <1>0, <2>2, LenOfNumeral
  <2>4. Len(Numeral(4294967295, 10)) = Len(NumeralOf(10)[4294967295])
    BY SMT, <1>0, LenOfNumeral
  <2> QED BY SMT, <2>1, <2>3, <2>4
<1>13. \A n \in Nat : Len(NumeralOf(10)[n]) \in Nat /\ Len(NumeralOf(16)[n]) \in Nat
  BY SMT, <1>0, NumeralCases
<1> QED BY SMT, <1>11, <1>12, <1>13

-----------------------------------------------------------------------------
(* FlattenSeq, from its recursive definition: the parts in order. *)
Joining(q) == CHOOSE f : f = [i \in 1..Len(q) |-> IF i = 1 THEN q[i] ELSE f[i - 1] \o q[i]]

LEMMA FlattenIs == ASSUME NEW q PROVE FlattenSeq(q) = IF Len(q) = 0 THEN q ELSE Joining(q)[Len(q)]
BY Zenon DEF FlattenSeq, Joining

LEMMA JoiningFacts ==
    ASSUME NEW S, NEW q \in Seq(Seq(S))
    PROVE  \A i \in 1..Len(q) :
              /\ Joining(q)[i] \in Seq(S)
              /\ Joining(q)[i] = IF i = 1 THEN q[i] ELSE Joining(q)[i - 1] \o q[i]
<1>1. PICK n \in Nat : n = Len(q)
  OBVIOUS
<1>2. \A i \in 1..n : q[i] \in Seq(S)
  BY <1>1, ElementOfSeq
<1> DEFINE At1(i, h) == IF i = 1 THEN q[i] ELSE h[i - 1] \o q[i]
           X == 1..n
           Q == Seq(S)
           F == [h \in [X -> Q] |-> [i \in X |-> At1(i, h)]]
           m == [i \in X |-> i]
           J == Joining(q)
<1>3. ASSUME NEW i \in X, NEW h, i # 1 => h[i - 1] \in Q PROVE At1(i, h) \in Q
  <2>1. CASE i = 1
    BY <1>2, <2>1
  <2>2. CASE i # 1
    BY <1>2, <1>3, <2>2, ConcatProperties
  <2> QED BY <2>1, <2>2
<1>4. ASSUME NEW i \in X, NEW g, NEW h, i # 1 => g[i - 1] = h[i - 1] PROVE At1(i, g) = At1(i, h)
  BY <1>4
<1> HIDE DEF At1
<1>5. Recursive(F, X, Q, m)
  <2>0. \A i \in X : i \in Nat /\ (i # 1 => i - 1 \in X /\ i - 1 < i)
    OBVIOUS
  <2>1. F \in [[X -> Q] -> [X -> Q]] /\ m \in [X -> Nat]
    <3>1. \A h \in [X -> Q], i \in X : At1(i, h) \in Q
      BY <2>0, <1>3
    <3> QED BY <2>0, <3>1
  <2>2. \A h \in [X -> Q], i \in X : F[h][i] = At1(i, h) /\ m[i] = i
    OBVIOUS
  <2> HIDE DEF X, Q, F, m
  <2>3. ASSUME NEW g \in [X -> Q], NEW h \in [X -> Q], NEW i \in X,
               \A j \in X : m[j] < m[i] => g[j] = h[j]
        PROVE  F[g][i] = F[h][i]
    <3>1. i # 1 => g[i - 1] = h[i - 1]
      BY <2>0, <2>2, <2>3
    <3> QED BY <1>4, <2>2, <3>1
  <2> QED BY <2>1, <2>3 DEF Recursive
<1>6. Q # {}
  BY EmptySeq
<1>7. \E f \in [X -> Q] : f = F[f]
  <2> HIDE DEF F, X, Q, m
  <2> QED BY <1>5, <1>6, RecursionTheorem
<1>8. J = [i \in X |-> At1(i, J)]
  BY <1>1, <1>7 DEF Joining, At1
<1> DEFINE T == {k \in Nat : k \in X => J[k] \in Q}
<1> HIDE DEF J, Q, F, m
<1>9. ASSUME NEW k \in Nat, \A j \in 0..(k - 1) : j \in T PROVE k \in T
  <2> SUFFICES ASSUME k \in X PROVE J[k] \in Q
    OBVIOUS
  <2>1. k # 1 => J[k - 1] \in Q
    BY <1>9
  <2> QED BY <1>3, <1>8, <2>1
<1>10. \A k \in Nat : k \in T
  <2> HIDE DEF T
  <2> QED BY <1>9, AllNumbers
<1>11. \A i \in X : J[i] \in Q /\ J[i] = At1(i, J)
  <2> SUFFICES ASSUME NEW i \in X PROVE J[i] \in Q /\ J[i] = At1(i, J)
    OBVIOUS
  <2>1. i \in T
    BY <1>10
  <2> QED BY <1>8, <2>1
<1> QED BY <1>1, <1>11 DEF J, Q, At1

(* The first k parts of ss in one sequence. *)
First(ss, k) == [i \in 1..k |-> ss[i]]
Join(ss, k) == FlattenSeq(First(ss, k))

LEMMA FirstIs ==
    ASSUME NEW S, NEW k \in Nat, NEW ss, \A i \in 1..k : ss[i] \in Seq(S)
    PROVE  /\ First(ss, k) \in Seq(Seq(S)) /\ Len(First(ss, k)) = k
           /\ \A i \in 1..k : First(ss, k)[i] = ss[i]
BY DEF First

LEMMA JoinNone ==
    ASSUME NEW ss
    PROVE  Join(ss, 0) = <<>>
<1>1. First(ss, 0) \in Seq(Seq({})) /\ Len(First(ss, 0)) = 0
  BY FirstIs
<1>2. First(ss, 0) = <<>>
  BY <1>1, EmptySeq
<1> QED BY <1>1, <1>2, FlattenIs DEF Join

LEMMA FirstJoined ==
    ASSUME NEW S, NEW k \in Nat, NEW ss, \A i \in 1..k : ss[i] \in Seq(S), NEW i \in 1..k
    PROVE  /\ Joining(First(ss, k))[i] \in Seq(S)
           /\ Joining(First(ss, k))[i] = IF i = 1 THEN ss[i] ELSE Joining(First(ss, k))[i - 1] \o ss[i]
<1>1. PICK q \in Seq(Seq(S)) : q = First(ss, k) /\ Len(q) = k /\ q[i] = ss[i]
  BY FirstIs
<1>2. i \in 1..Len(q)
  BY <1>1
<1>3. Joining(q)[i] \in Seq(S) /\ Joining(q)[i] = IF i = 1 THEN q[i] ELSE Joining(q)[i - 1] \o q[i]
  BY <1>2, JoiningFacts
<1> QED BY <1>1, <1>3

LEMMA JoinMore ==
    ASSUME NEW S, NEW k \in Nat, NEW ss, \A i \in 1..(k + 1) : ss[i] \in Seq(S)
    PROVE  /\ Join(ss, k) \in Seq(S) /\ Join(ss, k + 1) \in Seq(S)
           /\ Join(ss, k + 1) = Join(ss, k) \o ss[k + 1]
<1> DEFINE a == First(ss, k)
           b == First(ss, k + 1)
<1>1. /\ a \in Seq(Seq(S)) /\ Len(a) = k /\ \A i \in 1..k : a[i] = ss[i]
      /\ b \in Seq(Seq(S)) /\ Len(b) = k + 1 /\ \A i \in 1..(k + 1) : b[i] = ss[i]
  BY FirstIs
<1> HIDE DEF a, b
<1>2. \A i \in 1..k : /\ Joining(a)[i] \in Seq(S)
                      /\ Joining(a)[i] = IF i = 1 THEN ss[i] ELSE Joining(a)[i - 1] \o ss[i]
  BY FirstJoined DEF a
<1>3. \A i \in 1..(k + 1) : /\ Joining(b)[i] \in Seq(S)
                            /\ Joining(b)[i] = IF i = 1 THEN ss[i] ELSE Joining(b)[i - 1] \o ss[i]
  BY FirstJoined DEF b
<1> DEFINE T == {n \in Nat : n \in 1..k => Joining(a)[n] = Joining(b)[n]}
<1>4. ASSUME NEW n \in Nat, \A j \in 0..(n - 1) : j \in T PROVE n \in T
  <2> SUFFICES ASSUME n \in 1..k PROVE Joining(a)[n] = Joining(b)[n]
    OBVIOUS
  <2>1. CASE n = 1
    BY <1>2, <1>3, <2>1
  <2>2. CASE n # 1
    <3>1. n - 1 \in T /\ n - 1 \in 1..k
      BY <1>4, <2>2
    <3> QED BY <1>2, <1>3, <2>2, <3>1
  <2> QED BY <2>1, <2>2
<1>5. \A n \in Nat : n \in T
  <2> HIDE DEF T
  <2> QED BY <1>4, AllNumbers
<1>6. Join(ss, k + 1) = Joining(b)[k + 1]
  BY <1>1, FlattenIs DEF Join, b
<1>7. CASE k = 0
  <2>1. Join(ss, 0) = <<>> /\ Join(ss, 0) \in Seq(S)
    BY JoinNone, EmptySeq
  <2>2. Joining(b)[1] = ss[1] /\ ss[1] \in Seq(S)
    BY <1>3, <1>7
  <2>3. <<>> \o ss[1] = ss[1]
    BY <2>2, ConcatEmptySeq
  <2> QED BY <1>6, <1>7, <2>1, <2>2, <2>3
<1>8. CASE k # 0
  <2>1. Join(ss, k) = Joining(a)[k]
    BY <1>1, <1>8, FlattenIs DEF Join, a
  <2>2. Joining(a)[k] = Joining(b)[k]
    BY <1>5, <1>8
  <2>3. k + 1 \in 1..(k + 1) /\ k \in 1..k /\ k + 1 # 1 /\ (k + 1) - 1 = k
    BY <1>8
  <2>4. Joining(b)[k + 1] = Joining(b)[k] \o ss[k + 1] /\ Joining(b)[k + 1] \in Seq(S) /\ Joining(a)[k] \in Seq(S)
    BY <1>2, <1>3, <2>3
  <2> QED BY <1>6, <2>1, <2>2, <2>4
<1> QED BY <1>7, <1>8

LEMMA JoinIn ==
    ASSUME NEW S, NEW k \in Nat, NEW ss, \A i \in 1..k : ss[i] \in Seq(S)
    PROVE  Join(ss, k) \in Seq(S)
<1>1. CASE k = 0
  BY <1>1, JoinNone, EmptySeq
<1>2. CASE k # 0
  <2>1. PICK z \in Nat : z + 1 = k
    BY <1>2
  <2>2. \A i \in 1..(z + 1) : ss[i] \in Seq(S)
    BY <2>1
  <2> QED BY <2>1, <2>2, JoinMore
<1> QED BY <1>1, <1>2

(* s begins with the elements of t. *)
BeginsWith(s, t) == Len(t) <= Len(s) /\ \A x \in 1..Len(t) : s[x] = t[x]

LEMMA JoinGrows ==
    ASSUME NEW S, NEW n \in Nat, NEW ss, \A i \in 1..n : ss[i] \in Seq(S),
           NEW j \in Nat, j <= n, NEW k \in Nat, k <= j
    PROVE  BeginsWith(Join(ss, j), Join(ss, k))
<1> DEFINE T == {y \in Nat : k <= y /\ y <= n => BeginsWith(Join(ss, y), Join(ss, k))}
<1>1. ASSUME NEW y \in Nat, \A z \in 0..(y - 1) : z \in T PROVE y \in T
  <2> SUFFICES ASSUME k <= y, y <= n PROVE BeginsWith(Join(ss, y), Join(ss, k))
    OBVIOUS
  <2>0. Join(ss, k) \in Seq(S)
    <3>1. \A i \in 1..k : ss[i] \in Seq(S)
      OBVIOUS
    <3> QED BY <3>1, JoinIn
  <2>1. CASE y = k
    BY <2>0, <2>1 DEF BeginsWith
  <2>2. CASE y # k
    <3>1. PICK z \in Nat : z + 1 = y
      BY <2>2
    <3>2. BeginsWith(Join(ss, z), Join(ss, k))
      <4>1. z \in T /\ k <= z /\ z <= n
        BY <1>1, <2>2, <3>1
      <4> QED BY <4>1
    <3>3. \A i \in 1..(z + 1) : ss[i] \in Seq(S)
      BY <3>1
    <3>4. PICK b : b = ss[z + 1]
      OBVIOUS
    <3>5. /\ Join(ss, z) \in Seq(S) /\ b \in Seq(S) /\ Join(ss, y) = Join(ss, z) \o b
      BY <3>1, <3>3, <3>4, JoinMore
    <3>6. BeginsWith(Join(ss, y), Join(ss, z))
      BY <3>5, ConcatProperties DEF BeginsWith
    <3>7. Len(Join(ss, k)) \in Nat /\ Len(Join(ss, z)) \in Nat /\ Len(Join(ss, y)) \in Nat
      BY <2>0, <3>5, ConcatProperties
    <3> QED BY <3>2, <3>6, <3>7 DEF BeginsWith
  <2> QED BY <2>1, <2>2
<1>2. \A y \in Nat : y \in T
  <2> HIDE DEF T
  <2> QED BY <1>1, AllNumbers
<1> QED BY <1>2

(* Part k + 1 of the parts, in the whole. *)
Parts(S, ss, n) == \A i \in 1..n : ss[i] \in Seq(S)
PartOf(ss, n, k, a, b, c, d) ==
    /\ k \in Nat /\ k < n
    /\ a = Join(ss, k) /\ b = ss[k + 1] /\ c = Join(ss, k + 1) /\ d = Join(ss, n)

(* a, then b, reach as far as c, and b stands in d behind a. *)
StandsIn(S, a, b, c, d) ==
    /\ a \in Seq(S) /\ b \in Seq(S) /\ d \in Seq(S)
    /\ Len(a) \in Nat /\ Len(b) \in Nat /\ Len(d) \in Nat
    /\ Len(c) = Len(a) + Len(b) /\ Len(a) + Len(b) <= Len(d)
    /\ \A x \in 1..Len(b) : d[Len(a) + x] = b[x]

LEMMA Segment ==
    ASSUME NEW S, NEW n \in Nat, NEW ss, Parts(S, ss, n), NEW k, NEW a, NEW b, NEW c, NEW d,
           PartOf(ss, n, k, a, b, c, d)
    PROVE  StandsIn(S, a, b, c, d)
<1>1. /\ k \in Nat /\ k < n
      /\ a = Join(ss, k) /\ b = ss[k + 1] /\ c = Join(ss, k + 1) /\ d = Join(ss, n)
  BY DEF PartOf
<1>2. \A i \in 1..n : ss[i] \in Seq(S)
  BY DEF Parts
<1>3. \A i \in 1..(k + 1) : ss[i] \in Seq(S)
  BY <1>1, <1>2
<1>4. /\ Join(ss, k) \in Seq(S) /\ Join(ss, k + 1) \in Seq(S)
      /\ Join(ss, k + 1) = Join(ss, k) \o ss[k + 1]
  BY <1>1, <1>3, JoinMore
<1>5. Join(ss, n) \in Seq(S) /\ ss[k + 1] \in Seq(S)
  BY <1>1, <1>2, <1>3, JoinIn
<1>6. BeginsWith(Join(ss, n), Join(ss, k + 1))
  <2>1. PICK j \in Nat : j = k + 1
    BY <1>1
  <2>2. n <= n /\ j <= n
    BY <1>1, <2>1
  <2>3. BeginsWith(Join(ss, n), Join(ss, j))
    BY <1>2, <2>2, JoinGrows
  <2> QED BY <2>1, <2>3
<1>7. /\ a \in Seq(S) /\ b \in Seq(S) /\ c = a \o b /\ Len(c) <= Len(d) /\ d \in Seq(S)
      /\ \A x \in 1..Len(c) : d[x] = c[x]
  BY <1>1, <1>4, <1>5, <1>6 DEF BeginsWith
<1>8. Len(c) = Len(a) + Len(b) /\ Len(a) \in Nat /\ Len(b) \in Nat /\ Len(d) \in Nat
  BY <1>7, ConcatProperties
<1>9. ASSUME NEW x \in 1..Len(b) PROVE d[Len(a) + x] = b[x]
  <2>1. Len(a) + x \in 1..(Len(a) + Len(b)) /\ ~(Len(a) + x <= Len(a)) /\ Len(a) + x - Len(a) = x
    BY <1>8
  <2>2. c[Len(a) + x] = b[x]
    BY <1>7, <2>1, ConcatProperties
  <2> QED BY <1>7, <1>8, <2>1, <2>2
<1> QED BY <1>7, <1>8, <1>9 DEF StandsIn

-----------------------------------------------------------------------------
(* The items of a format: their characters, arguments and meanings. *)
FlagChars == {"+", "-", " ", "#", "0"}
Flags == {<<>>} \cup {<<c>> : c \in FlagChars}
Lengths == {<<>>, <<"h">>, <<"h", "h">>, <<"l">>, <<"l", "l">>}
Letters == Alphabet \cup Decimals
           \cup FlagChars \cup {"%", "h", "l", "d", "i", "u", "x", "c", "s"}
Values == (0..(UINT - 1)) \cup Alphabet \cup Seq(Alphabet)
Written == Alphabet \cup Digits \cup {"-", "x", "0"}

IsConversion(item) ==
    /\ ~IsText(item) /\ item.flag \in Flags /\ item.width \in Seq(Decimals) /\ item.length \in Lengths
    /\ \/ item.spec \in Specs /\ item.arg \in 0..(UINT - 1)
       \/ item.spec = "c" /\ item.arg \in Alphabet
       \/ item.spec = "s" /\ item.arg \in Seq(Alphabet)
       \/ item.spec = "%"

LEMMA ItemKinds ==
    ASSUME NEW item, IsItem(item)
    PROVE  IF IsText(item) THEN item.text \in Alphabet ELSE IsConversion(item)
<1>1. CASE item \in [text : Alphabet]
  BY <1>1 DEF IsText
<1>2. ASSUME NEW specs, NEW args, item \in Conversion(specs, args)
      PROVE  /\ ~IsText(item) /\ item.flag \in Flags /\ item.width \in Seq(Decimals)
             /\ item.length \in Lengths /\ item.spec \in specs /\ item.arg \in args
  <2>1. /\ item.flag \in Flags /\ item.width \in Seq(Decimals)
        /\ item.length \in Lengths /\ item.spec \in specs /\ item.arg \in args
    BY <1>2 DEF Conversion, Flags, FlagChars, Lengths
  <2>2. DOMAIN item = {"flag", "width", "length", "spec", "arg"}
    BY <1>2 DEF Conversion
  <2>3. ~IsText(item)
    BY <2>2 DEF IsText
  <2> QED BY <2>1, <2>3
<1>3. CASE item \in Conversion(Specs, 0..(UINT - 1))
  BY <1>2, <1>3 DEF IsConversion
<1>4. CASE item \in Conversion({"c"}, Alphabet)
  BY <1>2, <1>4 DEF IsConversion
<1>5. CASE item \in Conversion({"s"}, Seq(Alphabet))
  BY <1>2, <1>5 DEF IsConversion
<1>6. CASE item \in Conversion({"%"}, {0})
  BY <1>2, <1>6 DEF IsConversion
<1> QED BY <1>1, <1>3, <1>4, <1>5, <1>6 DEF IsItem, Specs

(* r has the elements of s behind its first o. *)
Part(r, o, s) == o + Len(s) <= Len(r) /\ \A x \in 1..Len(s) : r[o + x] = s[x]

Glue(r, s, t) == s \in Seq(Letters) /\ t \in Seq(Letters) /\ r = s \o t
Within(r, s, o, q) == /\ q \in Seq(Letters) /\ s \in Seq(Letters) /\ r \in Seq(Letters) /\ o \in Nat
                      /\ Part(r, 0, s) /\ Part(s, o, q)

LEMMA Glued ==
    ASSUME NEW s, NEW t, NEW r, Glue(r, s, t)
    PROVE  /\ r \in Seq(Letters) /\ Len(s) \in Nat /\ Len(t) \in Nat /\ Len(r) = Len(s) + Len(t)
           /\ Part(r, 0, s) /\ Part(r, Len(s), t)
<1>0. s \in Seq(Letters) /\ t \in Seq(Letters) /\ r = s \o t
  BY DEF Glue
<1>1. r \in Seq(Letters) /\ Len(s) \in Nat /\ Len(t) \in Nat /\ Len(r) = Len(s) + Len(t)
  BY <1>0, ConcatProperties
<1>2. ASSUME NEW x \in 1..Len(s) PROVE r[0 + x] = s[x]
  <2>1. x \in 1..(Len(s) + Len(t)) /\ x <= Len(s) /\ 0 + x = x
    BY <1>1
  <2> QED BY <1>0, <2>1, ConcatProperties
<1>3. ASSUME NEW x \in 1..Len(t) PROVE r[Len(s) + x] = t[x]
  <2>1. Len(s) + x \in 1..(Len(s) + Len(t)) /\ ~(Len(s) + x <= Len(s)) /\ Len(s) + x - Len(s) = x
    BY <1>1
  <2> QED BY <1>0, <2>1, ConcatProperties
<1> QED BY <1>1, <1>2, <1>3 DEF Part

LEMMA PartOfPart ==
    ASSUME NEW q, NEW s, NEW r, NEW o, Within(r, s, o, q)
    PROVE  Part(r, o, q)
<1>0. /\ q \in Seq(Letters) /\ s \in Seq(Letters) /\ r \in Seq(Letters) /\ o \in Nat
      /\ Part(r, 0, s) /\ Part(s, o, q)
  BY DEF Within
<1>1. Len(q) \in Nat /\ Len(s) \in Nat /\ Len(r) \in Nat
  BY <1>0
<1>2. ASSUME NEW x \in 1..Len(q) PROVE r[o + x] = q[x]
  <2>1. o + x \in 1..Len(s) /\ 0 + (o + x) = o + x
    BY <1>0, <1>1 DEF Part
  <2> QED BY <1>0, <2>1 DEF Part
<1> QED BY <1>0, <1>1, <1>2 DEF Part

FourGlued(cs, c, f, w, l) == /\ {c, f, w, l} \subseteq Seq(Letters)
                             /\ cs = ((c \o f) \o w) \o l

LEMMA FourParts ==
    ASSUME NEW c, NEW f, NEW w, NEW l, NEW cs, FourGlued(cs, c, f, w, l)
    PROVE  /\ cs \in Seq(Letters) /\ Len(cs) = Len(c) + Len(f) + Len(w) + Len(l)
           /\ Part(cs, 0, c) /\ Part(cs, Len(c), f) /\ Part(cs, Len(c) + Len(f), w)
           /\ Part(cs, Len(c) + Len(f) + Len(w), l)
<1>0. /\ c \in Seq(Letters) /\ f \in Seq(Letters) /\ w \in Seq(Letters) /\ l \in Seq(Letters)
      /\ cs = ((c \o f) \o w) \o l
  BY DEF FourGlued
<1>1. PICK u, v : u = c \o f /\ v = u \o w
  OBVIOUS
<1>2. Glue(u, c, f)
  BY <1>0, <1>1 DEF Glue
<1>3. /\ u \in Seq(Letters) /\ Len(u) = Len(c) + Len(f) /\ Len(c) \in Nat /\ Len(f) \in Nat
      /\ Part(u, 0, c) /\ Part(u, Len(c), f)
  BY <1>2, Glued
<1>4. Glue(v, u, w)
  BY <1>0, <1>1, <1>3 DEF Glue
<1>5. /\ v \in Seq(Letters) /\ Len(v) = Len(u) + Len(w) /\ Len(w) \in Nat
      /\ Part(v, 0, u) /\ Part(v, Len(u), w)
  BY <1>4, Glued
<1>6. Glue(cs, v, l)
  BY <1>0, <1>1, <1>5 DEF Glue
<1>7. /\ cs \in Seq(Letters) /\ Len(cs) = Len(v) + Len(l) /\ Len(l) \in Nat
      /\ Part(cs, 0, v) /\ Part(cs, Len(v), l)
  BY <1>6, Glued
<1>8. Within(cs, v, Len(u), w) /\ Within(cs, v, 0, u)
  BY <1>0, <1>3, <1>5, <1>7 DEF Within
<1>9. Part(cs, 0, u) /\ Part(cs, Len(u), w)
  BY <1>8, PartOfPart
<1>10. Within(cs, u, Len(c), f) /\ Within(cs, u, 0, c)
  BY <1>0, <1>3, <1>7, <1>9 DEF Within
<1>11. Part(cs, 0, c) /\ Part(cs, Len(c), f)
  BY <1>10, PartOfPart
<1>12. Len(u) = Len(c) + Len(f) /\ Len(v) = Len(c) + Len(f) + Len(w)
       /\ Len(cs) = Len(c) + Len(f) + Len(w) + Len(l)
  BY <1>3, <1>5, <1>7
<1> QED BY <1>7, <1>9, <1>11, <1>12

LEMMA Short ==
    ASSUME NEW S, NEW x \in S
    PROVE  /\ <<x>> \in Seq(S) /\ Len(<<x>>) = 1 /\ <<x>>[1] = x
           /\ <<x, x>> \in Seq(S) /\ Len(<<x, x>>) = 2
           /\ <<x, x>>[1] = x /\ <<x, x>>[2] = x
OBVIOUS

(* A conversion's characters are its parts, each behind the one before. *)
Laid(cs, h, f, w, l, e) == /\ {h, e} \subseteq Letters /\ {f, w, l} \subseteq Seq(Letters)
                           /\ cs = <<h>> \o f \o w \o l \o <<e>>

LEMMA LaidOut ==
    ASSUME NEW cs, NEW h, NEW f, NEW w, NEW l, NEW e, Laid(cs, h, f, w, l, e)
    PROVE  /\ cs \in Seq(Letters) /\ Len(cs) = Len(f) + Len(w) + Len(l) + 2
           /\ Len(f) \in Nat /\ Len(w) \in Nat /\ Len(l) \in Nat
           /\ cs[1] = h /\ cs[Len(cs)] = e
           /\ Part(cs, 1, f) /\ Part(cs, 1 + Len(f), w) /\ Part(cs, 1 + Len(f) + Len(w), l)
<1>1. h \in Letters /\ e \in Letters
  BY DEF Laid
<1>2. f \in Seq(Letters) /\ w \in Seq(Letters) /\ l \in Seq(Letters)
  BY DEF Laid
<1>4. PICK c, s : c = <<h>> /\ s = <<e>>
  OBVIOUS
<1>5. /\ c \in Seq(Letters) /\ Len(c) = 1 /\ c[1] = h
      /\ s \in Seq(Letters) /\ Len(s) = 1 /\ s[1] = e
  BY <1>1, <1>4, Short
<1>6. PICK d : d = ((c \o f) \o w) \o l /\ cs = d \o s
  BY <1>4 DEF Laid
<1>7. FourGlued(d, c, f, w, l)
  BY <1>2, <1>5, <1>6 DEF FourGlued
<1>8. /\ d \in Seq(Letters) /\ Len(d) = Len(c) + Len(f) + Len(w) + Len(l)
      /\ Part(d, 0, c) /\ Part(d, Len(c), f) /\ Part(d, Len(c) + Len(f), w)
      /\ Part(d, Len(c) + Len(f) + Len(w), l)
  BY <1>7, FourParts
<1>9. PICK x \in Nat, y \in Nat, z \in Nat : x = Len(f) /\ y = Len(w) /\ z = Len(l)
  BY <1>2
<1>10. /\ Len(d) = 1 + x + y + z
       /\ Part(d, 0, c) /\ Part(d, 1, f) /\ Part(d, 1 + x, w) /\ Part(d, 1 + x + y, l)
  BY <1>5, <1>8, <1>9
<1>11. Glue(cs, d, s)
  BY <1>5, <1>6, <1>8 DEF Glue
<1>12. /\ cs \in Seq(Letters) /\ Len(cs) = Len(d) + Len(s) /\ Part(cs, 0, d) /\ Part(cs, Len(d), s)
  BY <1>11, Glued
<1>13. Within(cs, d, 0, c)
  BY <1>5, <1>8, <1>10, <1>12 DEF Within
<1>14. Within(cs, d, 1, f)
  BY <1>2, <1>8, <1>10, <1>12 DEF Within
<1>15. Within(cs, d, 1 + x, w)
  BY <1>2, <1>8, <1>10, <1>12 DEF Within
<1>16. Within(cs, d, 1 + x + y, l)
  BY <1>2, <1>8, <1>10, <1>12 DEF Within
<1>17. Part(cs, 0, c)
  BY <1>13, PartOfPart
<1>18. Part(cs, 1, f) /\ Part(cs, 1 + x, w) /\ Part(cs, 1 + x + y, l)
  BY <1>14, <1>15, <1>16, PartOfPart
<1>19. cs[1] = h
  BY <1>5, <1>17 DEF Part
<1>20. Len(cs) = x + y + z + 2 /\ Len(d) + 1 = Len(cs)
  BY <1>5, <1>10, <1>12
<1>21. cs[Len(cs)] = e
  <2>1. cs[Len(d) + 1] = s[1]
    BY <1>5, <1>12 DEF Part
  <2> QED BY <1>5, <1>20, <2>1
<1> QED BY <1>9, <1>12, <1>18, <1>19, <1>20, <1>21

LEMMA CharsOf ==
    ASSUME NEW item, IsConversion(item)
    PROVE  Laid(Chars(item), "%", item.flag, item.width, item.length, item.spec)
<1>0. Decimals \subseteq Letters /\ FlagChars \subseteq Letters /\ {"%", "h", "l", item.spec} \subseteq Letters
  BY DEF IsConversion, Specs, Letters
<1>1. item.flag \in Seq(Letters)
  <2>1. item.flag = <<>> \/ \E x \in FlagChars : item.flag = <<x>>
    BY DEF IsConversion, Flags
  <2>2. \A x \in FlagChars : <<x>> \in Seq(Letters)
    BY <1>0, Short
  <2> QED BY <2>1, <2>2, EmptySeq
<1>2. item.width \in Seq(Letters)
  BY <1>0, SeqMonotonic DEF IsConversion
<1>3. item.length \in Seq(Letters)
  <2>1. item.length = <<>> \/ \E x \in {"h", "l"} : item.length = <<x>> \/ item.length = <<x, x>>
    BY DEF IsConversion, Lengths
  <2>2. \A x \in {"h", "l"} : <<x>> \in Seq(Letters) /\ <<x, x>> \in Seq(Letters)
    BY <1>0, Short
  <2> QED BY <2>1, <2>2, EmptySeq
<1> QED BY <1>0, <1>1, <1>2, <1>3 DEF Laid, Chars, IsConversion

(* What an item says: its characters, its argument and its meaning. *)
LEMMA ItemTexts ==
    ASSUME NEW item, IsItem(item)
    PROVE  /\ Chars(item) \in Seq(Letters) /\ Len(Chars(item)) \in Nat /\ Len(Chars(item)) >= 1
           /\ Args(item) \in Seq(Values)
<1>1. CASE IsText(item)
  <2>1. item.text \in Letters
    BY <1>1, ItemKinds DEF Letters
  <2>2. Chars(item) = <<item.text>> /\ Args(item) = <<>>
    BY <1>1 DEF Chars, Args
  <2> QED BY <2>1, <2>2, Short, EmptySeq
<1>2. CASE ~IsText(item)
  <2>1. IsConversion(item)
    BY <1>2, ItemKinds
  <2>2. PICK cs : cs = Chars(item)
    OBVIOUS
  <2>3. Laid(cs, "%", item.flag, item.width, item.length, item.spec)
    BY <2>1, <2>2, CharsOf
  <2>4. PICK a \in Nat, b \in Nat, c \in Nat : cs \in Seq(Letters) /\ Len(cs) = a + b + c + 2
    BY <2>3, LaidOut
  <2>5. Args(item) \in Seq(Values)
    <3>1. CASE item.spec = "%"
      BY <3>1, EmptySeq DEF Args
    <3>2. CASE item.spec # "%"
      <4>1. item.arg \in Values
        BY <2>1, <3>2 DEF IsConversion, Values
      <4>2. Args(item) = <<item.arg>>
        BY <1>2, <3>2 DEF Args
      <4> QED BY <4>1, <4>2, Short
    <3> QED BY <3>1, <3>2
  <2>6. Len(cs) \in Nat /\ Len(cs) >= 1
    BY <2>4
  <2> QED BY <2>2, <2>4, <2>5, <2>6
<1> QED BY <1>1, <1>2

(* What is written for a supported item. *)
LEMMA MeaningIs ==
    ASSUME NEW item, IsItem(item), Supported(item)
    PROVE  /\ Meaning(item) \in Seq(Written)
           /\ IsText(item) => Meaning(item) = <<item.text>>
           /\ ~IsText(item) =>
                 /\ item.spec \in Specs => Meaning(item) = NumberText(item.spec, item.arg)
                 /\ item.spec = "c" => Meaning(item) = <<item.arg>>
                 /\ item.spec = "s" => Meaning(item) = item.arg
<1>1. CASE IsText(item)
  <2>1. Meaning(item) = <<item.text>>
    BY <1>1 DEF Meaning
  <2>2. item.text \in Written
    BY <1>1, ItemKinds DEF Written
  <2> QED BY <1>1, <2>1, <2>2, Short
<1>2. CASE ~IsText(item)
  <2>1. IsConversion(item)
    BY <1>2, ItemKinds
  <2>2. ASSUME item.spec \in Specs
        PROVE  Meaning(item) = NumberText(item.spec, item.arg) /\ Meaning(item) \in Seq(Written)
    <3>1. item.arg \in 0..(UINT - 1)
      BY <2>1, <2>2 DEF IsConversion, Specs
    <3>2. Meaning(item) = NumberText(item.spec, item.arg)
      <4>1. CASE item.spec = "u"
        <5>1. Meaning(item) = Numeral(item.arg, 10)
          BY <1>2, <4>1 DEF Meaning
        <5> QED BY <3>1, <4>1, <5>1, ConvertsNumbers
      <4>2. CASE item.spec \in {"d", "i"}
        <5>1. Meaning(item) = Numeral(Signed(item.arg), 10)
          BY <1>2, <4>2 DEF Meaning
        <5> QED BY <3>1, <4>2, <5>1, ConvertsNumbers
      <4>3. CASE item.spec = "x"
        <5>1. Meaning(item) = <<"0", "x">> \o Numeral(Signed(item.arg), 16)
          BY <1>2, <4>3 DEF Meaning
        <5> QED BY <3>1, <4>3, <5>1, ConvertsNumbers
      <4> QED BY <2>2, <4>1, <4>2, <4>3 DEF Specs
    <3>3. item.arg \in Nat /\ item.arg < UINT
      BY <3>1, PrintfAssumption
    <3>4. NumberText(item.spec, item.arg) \in Seq(Digits \cup {"-", "x", "0"})
      BY <2>2, <3>3, NumberFits
    <3>5. Seq(Digits \cup {"-", "x", "0"}) \subseteq Seq(Written)
      <4>1. Digits \cup {"-", "x", "0"} \subseteq Written
        BY DEF Written
      <4> QED BY <4>1, SeqMonotonic
    <3> QED BY <3>2, <3>4, <3>5
  <2>3. ASSUME item.spec = "c" PROVE Meaning(item) = <<item.arg>> /\ Meaning(item) \in Seq(Written)
    <3>1. item.arg \in Written
      BY <2>1, <2>3 DEF IsConversion, Specs, Written
    <3>2. Meaning(item) = <<item.arg>>
      BY <1>2, <2>3 DEF Meaning
    <3> QED BY <3>1, <3>2, Short
  <2>4. ASSUME item.spec = "s" PROVE Meaning(item) = item.arg /\ Meaning(item) \in Seq(Written)
    <3>1. item.arg \in Seq(Alphabet)
      BY <2>1, <2>4 DEF IsConversion, Specs
    <3>2. Seq(Alphabet) \subseteq Seq(Written)
      <4>1. Alphabet \subseteq Written
        BY DEF Written
      <4> QED BY <4>1, SeqMonotonic
    <3>3. Meaning(item) = item.arg
      BY <1>2, <2>4 DEF Meaning
    <3> QED BY <3>1, <3>2, <3>3
  <2>5. item.spec \in Specs \/ item.spec = "c" \/ item.spec = "s"
    BY <1>2, <2>1 DEF IsConversion, Supported
  <2> QED BY <1>2, <2>2, <2>3, <2>4, <2>5
<1> QED BY <1>1, <1>2

-----------------------------------------------------------------------------
(* The parser, in front of the characters of a conversion. *)
LEMMA DecimalsAre == Decimals = {"0", "1", "2", "3", "4", "5", "6", "7", "8", "9"}
<1>1. \A i \in 1..10 : \/ i = 1 \/ i = 2 \/ i = 3 \/ i = 4 \/ i = 5 \/ i = 6 \/ i = 7 \/ i = 8 \/ i = 9 \/ i = 10
  OBVIOUS
<1>2. /\ DigitChars[1] = "0" /\ DigitChars[2] = "1" /\ DigitChars[3] = "2" /\ DigitChars[4] = "3"
      /\ DigitChars[5] = "4" /\ DigitChars[6] = "5" /\ DigitChars[7] = "6" /\ DigitChars[8] = "7"
      /\ DigitChars[9] = "8" /\ DigitChars[10] = "9"
  BY DEF DigitChars
<1>3. {1, 2, 3, 4, 5, 6, 7, 8, 9, 10} \subseteq 1..10
  OBVIOUS
<1>4. ASSUME NEW c \in Decimals PROVE c \in {"0", "1", "2", "3", "4", "5", "6", "7", "8", "9"}
  <2>1. PICK i \in 1..10 : c = DigitChars[i]
    BY DEF Decimals
  <2> QED BY <1>1, <1>2, <2>1
<1>5. ASSUME NEW c \in {"0", "1", "2", "3", "4", "5", "6", "7", "8", "9"} PROVE c \in Decimals
  BY <1>2, <1>3 DEF Decimals
<1> QED BY <1>4, <1>5

(* What is not skipped as a flag, a digit or a length. *)
LEMMA Others ==
    /\ \A c \in {"d", "i", "u", "x", "c", "s", "%", NUL} :
          c \notin FlagChars /\ c \notin Decimals /\ c \notin {"h", "l"}
    /\ \A c \in {"h", "l"} : c \notin FlagChars /\ c \notin Decimals
BY DecimalsAre DEF FlagChars, NUL

LEMMA Flagged ==
    ASSUME NEW i \in Int
    PROVE  fmt_flags(i) = IF At(i) \in FlagChars THEN i + 1 ELSE i
BY DEF fmt_flags, FlagChars

(* The width ends at the first character that is no digit. *)
LEMMA Widths ==
    ASSUME fmt \in Seq(Letters), NEW i \in Nat, NEW j \in Nat, i <= j, j <= Len(fmt) + 1,
           At(j) \notin Decimals, \A k \in i..(j - 1) : At(k) \in Decimals
    PROVE  fmt_width(i) = j
<1> DEFINE Ends(z) == At(z) \notin Decimals /\ \A k \in i..(z - 1) : At(k) \in Decimals
<1>1. Len(fmt) \in Nat
  OBVIOUS
<1>2. j \in i..(Len(fmt) + 1) /\ Ends(j)
  BY <1>1
<1>3. ASSUME NEW z \in i..(Len(fmt) + 1), Ends(z) PROVE z = j
  <2>1. CASE z < j
    BY <1>1, <1>3, <2>1
  <2>2. CASE j < z
    BY <1>1, <1>3, <2>2
  <2> QED BY <1>1, <2>1, <2>2
<1>4. fmt_width(i) = CHOOSE z \in i..(Len(fmt) + 1) : Ends(z)
  BY Zenon DEF fmt_width
<1> HIDE DEF Ends
<1> QED BY <1>2, <1>3, <1>4

(* In front of its parts: f of at most a flag, w of digits, l a length, and e. *)
Ahead(f, w, l, e) ==
    /\ fmt \in Seq(Letters) /\ p \in Nat /\ p >= 1
    /\ f \in Flags /\ w \in Seq(Decimals) /\ l \in Lengths
    /\ e \in {"d", "i", "u", "x", "c", "s", "%", NUL}
    /\ p + Len(f) + Len(w) + Len(l) <= Len(fmt)
    /\ \A y \in 1..Len(f) : At(p + y) = f[y]
    /\ \A y \in 1..Len(w) : At(p + Len(f) + y) = w[y]
    /\ \A y \in 1..Len(l) : At(p + Len(f) + Len(w) + y) = l[y]
    /\ At(p + Len(f) + Len(w) + Len(l) + 1) = e

LEMMA FlagIs ==
    ASSUME NEW f \in Flags
    PROVE  Len(f) \in Nat /\ (Len(f) = 0 \/ (Len(f) = 1 /\ f[1] \in FlagChars))
<1>1. f = <<>> \/ \E x \in FlagChars : f = <<x>>
  BY DEF Flags
<1>2. ASSUME NEW x \in FlagChars PROVE Len(<<x>>) = 1 /\ <<x>>[1] = x
  BY Short
<1> QED BY <1>1, <1>2

LEMMA LengthIs ==
    ASSUME NEW l \in Lengths
    PROVE  /\ Len(l) \in Nat
           /\ \/ Len(l) = 0 /\ l = <<>>
              \/ Len(l) = 1 /\ l[1] \in {"h", "l"} /\ l # <<"l", "l">>
              \/ Len(l) = 2 /\ l[1] \in {"h", "l"} /\ l[2] = l[1] /\ (l = <<"l", "l">> <=> l[1] = "l")
<1>1. CASE l = <<>>
  BY <1>1
<1>2. CASE l = <<"h">> \/ l = <<"l">>
  BY <1>2
<1>3. CASE l = <<"h", "h">> \/ l = <<"l", "l">>
  BY <1>3
<1> QED BY <1>1, <1>2, <1>3 DEF Lengths

LEMMA ParsedParts ==
    ASSUME NEW f, NEW w, NEW l, NEW e, Ahead(f, w, l, e)
    PROVE  /\ Length = p + Len(f) + Len(w) + 1
           /\ Specifier = p + Len(f) + Len(w) + Len(l) + 1
           /\ LongLong <=> l = <<"l", "l">>
<1>1. PICK a \in Nat, b \in Nat, c \in Nat : a = Len(f) /\ b = Len(w) /\ c = Len(l)
  BY FlagIs, LengthIs DEF Ahead
<1>2. PICK j \in Nat : j = p + a + b + 1
  BY DEF Ahead
<1>3. /\ p \in Nat /\ p >= 1 /\ Len(fmt) \in Nat /\ j + c <= Len(fmt) + 1 /\ fmt \in Seq(Letters)
      /\ a = 0 \/ (a = 1 /\ f[1] \in FlagChars)
      /\ \A y \in 1..a : At(p + y) = f[y]
      /\ \A y \in 1..b : At(p + a + y) = w[y] /\ w[y] \in Decimals
  <2>1. fmt \in Seq(Letters) /\ p \in Nat /\ p >= 1 /\ p + a + b + c <= Len(fmt)
    BY <1>1 DEF Ahead
  <2>2. a = 0 \/ (a = 1 /\ f[1] \in FlagChars)
    BY <1>1, FlagIs DEF Ahead
  <2>3. \A y \in 1..a : At(p + y) = f[y]
    BY <1>1 DEF Ahead
  <2>4. \A y \in 1..b : At(p + a + y) = w[y] /\ w[y] \in Decimals
    BY <1>1, ElementOfSeq DEF Ahead
  <2> QED BY <1>2, <2>1, <2>2, <2>3, <2>4
<1>4. /\ \A y \in 1..c : At(j + y - 1) = l[y]
      /\ At(j + c) = e
      /\ e \in {"d", "i", "u", "x", "c", "s", "%", NUL}
      /\ \/ c = 0 /\ l = <<>>
         \/ c = 1 /\ l[1] \in {"h", "l"} /\ l # <<"l", "l">>
         \/ c = 2 /\ l[1] \in {"h", "l"} /\ l[2] = l[1] /\ (l = <<"l", "l">> <=> l[1] = "l")
  <2>1. \A y \in 1..c : At(p + a + b + y) = l[y] /\ p + a + b + y = j + y - 1
    BY <1>1, <1>2, <1>3 DEF Ahead
  <2>2. At(p + a + b + c + 1) = e /\ p + a + b + c + 1 = j + c
    BY <1>1, <1>2, <1>3 DEF Ahead
  <2>3. e \in {"d", "i", "u", "x", "c", "s", "%", NUL}
    BY DEF Ahead
  <2> QED BY <1>1, <2>1, <2>2, <2>3, LengthIs DEF Ahead
<1>5. At(j) \notin FlagChars /\ At(j) \notin Decimals
  <2>1. CASE c = 0
    BY <1>2, <1>4, <2>1, Others
  <2>2. CASE c # 0
    <3>1. At(j + 1 - 1) = l[1] /\ j + 1 - 1 = j /\ l[1] \in {"h", "l"}
      BY <1>4, <2>2
    <3> QED BY <3>1, Others
  <2> QED BY <2>1, <2>2
<1>6. PICK i \in Nat : i = fmt_flags(p + 1) /\ p + 1 <= i /\ i <= j
                       /\ \A k \in i..(j - 1) : k > p + a
  <2>1. fmt_flags(p + 1) = IF At(p + 1) \in FlagChars THEN p + 2 ELSE p + 1
    BY <1>3, Flagged
  <2>2. CASE a = 1
    BY <1>2, <1>3, <2>1, <2>2
  <2>3. CASE a = 0 /\ b = 0
    BY <1>2, <1>3, <1>5, <2>1, <2>3
  <2>4. CASE a = 0 /\ b # 0
    BY <1>2, <1>3, <2>1, <2>4
  <2> QED BY <1>3, <2>2, <2>3, <2>4
<1>7. ASSUME NEW k \in i..(j - 1) PROVE At(k) \in Decimals
  <2>1. PICK y \in Nat : k = p + a + y
    BY <1>3, <1>6
  <2>2. y \in 1..b
    BY <1>2, <1>3, <1>6, <2>1
  <2> QED BY <1>3, <2>1, <2>2
<1>8. fmt_width(i) = j
  <2>1. i <= j /\ j <= Len(fmt) + 1 /\ fmt \in Seq(Letters)
    BY <1>3, <1>6
  <2> QED BY <1>5, <1>7, <2>1, Widths
<1>9. Length = j
  BY <1>6, <1>8 DEF Length
<1>10. ASSUME c = 0 PROVE Specifier = j + c /\ (LongLong <=> l = <<"l", "l">>)
  <2>1. At(j) = e /\ l # <<"l", "l">> /\ e \notin {"h", "l"}
    BY <1>2, <1>4, <1>10, Others
  <2>2. Specifier = j /\ ~LongLong
    BY <1>9, <2>1 DEF Specifier, LongLong, fmt_length
  <2> QED BY <1>10, <2>1, <2>2
<1>11. ASSUME c = 1 PROVE Specifier = j + c /\ (LongLong <=> l = <<"l", "l">>)
  <2>1. At(j + 1 - 1) = l[1] /\ l[1] \in {"h", "l"} /\ l # <<"l", "l">>
    BY <1>4, <1>11
  <2>2. At(j + 1) = e /\ e \notin {"h", "l"} /\ j + 1 - 1 = j
    BY <1>4, <1>11, Others
  <2>3. Specifier = j + 1 /\ ~LongLong
    BY <1>9, <2>1, <2>2 DEF Specifier, LongLong, fmt_length
  <2> QED BY <1>11, <2>1, <2>3
<1>12. ASSUME c = 2 PROVE Specifier = j + c /\ (LongLong <=> l = <<"l", "l">>)
  <2>1. At(j + 1 - 1) = l[1] /\ At(j + 2 - 1) = l[2] /\ l[1] \in {"h", "l"} /\ l[2] = l[1]
        /\ (l = <<"l", "l">> <=> l[1] = "l")
    BY <1>4, <1>12
  <2>2. j + 1 - 1 = j /\ j + 2 - 1 = j + 1
    OBVIOUS
  <2>3. Specifier = j + 2 /\ (LongLong <=> l[1] = "l")
    BY <1>9, <2>1, <2>2 DEF Specifier, LongLong, fmt_length
  <2>4. LongLong <=> l = <<"l", "l">>
    BY <2>1, <2>3
  <2> QED BY <1>12, <2>3, <2>4
<1>13. Specifier = j + c
  BY <1>4, <1>10, <1>11, <1>12
<1>14. LongLong <=> l = <<"l", "l">>
  BY <1>4, <1>10, <1>11, <1>12
<1>15. Length = p + a + b + 1 /\ Specifier = p + a + b + c + 1
  BY <1>2, <1>3, <1>9, <1>13
<1> QED BY <1>1, <1>14, <1>15

(* The parser goes behind the conversion in front of it, and finds its length
   and its specifier. *)
LEMMA Parsed ==
    ASSUME fmt \in Seq(Letters), p \in Nat, p >= 1,
           NEW item, IsConversion(item), Part(fmt, p - 1, Chars(item))
    PROVE  /\ fmt[p] = "%" /\ p <= Len(fmt)
           /\ Specifier \in Nat /\ Specifier + 1 = p + Len(Chars(item)) /\ At(Specifier) = item.spec
           /\ LongLong <=> item.length = <<"l", "l">>
<1>1. PICK cs, f, w, l, e : /\ cs = Chars(item) /\ f = item.flag /\ w = item.width
                            /\ l = item.length /\ e = item.spec
  OBVIOUS
<1>2. Laid(cs, "%", f, w, l, e)
  BY <1>1, CharsOf
<1>3. /\ f \in Flags /\ w \in Seq(Decimals) /\ l \in Lengths
      /\ e \in {"d", "i", "u", "x", "c", "s", "%", NUL}
  BY <1>1 DEF IsConversion, Specs
<1>4. Part(fmt, p - 1, cs)
  BY <1>1
<1>5. PICK a \in Nat, b \in Nat, c \in Nat : a = Len(f) /\ b = Len(w) /\ c = Len(l)
  BY <1>2, LaidOut
<1>6. /\ cs \in Seq(Letters) /\ Len(cs) = a + b + c + 2
      /\ cs[1] = "%" /\ cs[Len(cs)] = e
      /\ Part(cs, 1, f) /\ Part(cs, 1 + a, w) /\ Part(cs, 1 + a + b, l)
  BY <1>2, <1>5, LaidOut
<1>7. /\ p - 1 + Len(cs) <= Len(fmt) /\ \A x \in 1..Len(cs) : fmt[p - 1 + x] = cs[x]
  BY <1>4 DEF Part
<1>8. Len(fmt) \in Nat /\ p + a + b + c + 1 <= Len(fmt)
  BY <1>6, <1>7
<1>9. ASSUME NEW x \in 1..(a + b + c + 2) PROVE At(p - 1 + x) = cs[x]
  BY <1>6, <1>7, <1>8, <1>9 DEF At
<1>10. ASSUME NEW y \in 1..a PROVE At(p + y) = f[y]
  <2>1. 1 + y \in 1..(a + b + c + 2) /\ p - 1 + (1 + y) = p + y
    OBVIOUS
  <2>2. cs[1 + y] = f[y]
    BY <1>5, <1>6 DEF Part
  <2> QED BY <1>9, <2>1, <2>2
<1>11. ASSUME NEW y \in 1..b PROVE At(p + a + y) = w[y]
  <2>1. 1 + a + y \in 1..(a + b + c + 2) /\ p - 1 + (1 + a + y) = p + a + y
    OBVIOUS
  <2>2. cs[1 + a + y] = w[y]
    BY <1>5, <1>6 DEF Part
  <2> QED BY <1>9, <2>1, <2>2
<1>12. ASSUME NEW y \in 1..c PROVE At(p + a + b + y) = l[y]
  <2>1. 1 + a + b + y \in 1..(a + b + c + 2) /\ p - 1 + (1 + a + b + y) = p + a + b + y
    OBVIOUS
  <2>2. cs[1 + a + b + y] = l[y]
    BY <1>5, <1>6 DEF Part
  <2> QED BY <1>9, <2>1, <2>2
<1>13. At(p + a + b + c + 1) = e
  <2>1. /\ a + b + c + 2 \in 1..(a + b + c + 2) /\ p - 1 + (a + b + c + 2) = p + a + b + c + 1
    OBVIOUS
  <2> QED BY <1>6, <1>9, <2>1
<1>14. p + a + b + c <= Len(fmt)
  BY <1>8
<1>15. Ahead(f, w, l, e)
  BY <1>3, <1>5, <1>10, <1>11, <1>12, <1>13, <1>14 DEF Ahead
<1>16. Specifier = p + a + b + c + 1 /\ (LongLong <=> l = <<"l", "l">>)
  <2>1. Specifier = p + Len(f) + Len(w) + Len(l) + 1
    BY <1>15, ParsedParts
  <2>2. LongLong <=> l = <<"l", "l">>
    BY <1>15, ParsedParts
  <2> QED BY <1>5, <2>1, <2>2
<1>17. fmt[p] = "%"
  <2>1. 1 \in 1..Len(cs) /\ p - 1 + 1 = p
    BY <1>6
  <2> QED BY <1>6, <1>7, <2>1
<1> QED BY <1>1, <1>6, <1>8, <1>13, <1>16, <1>17

-----------------------------------------------------------------------------
(* The items of the format in turn: characters, arguments and meanings. *)
Texts == [i \in DOMAIN items |-> Chars(items[i])]
Arguments == [i \in DOMAIN items |-> Args(items[i])]
Meanings == [i \in DOMAIN items |-> Meaning(items[i])]

(* s has all elements of r behind its first o. *)
Remains(r, o, s) ==
    s \in Seq(Values) /\ o + Len(s) = Len(r) /\ \A x \in 1..Len(s) : s[x] = r[o + x]

(* The first k items have been written, and their arguments taken. *)
PastItems(k) ==
    /\ \A i \in 1..k : Supported(items[i])
    /\ p = Len(Join(Texts, k)) + 1
    /\ out = Join(Meanings, k)
    /\ Remains(Join(Arguments, Len(items)), Len(Join(Arguments, k)), va)

(* The last item, "%%" or a long long, has been looked at. *)
PastLast ==
    /\ \E i \in DOMAIN items : ~Supported(items[i])
    /\ p = Len(fmt) + 1 \/ (p = Len(fmt) /\ fmt[p] = "%")

(* The inductive invariant: the position in the text of the format, the
   arguments not yet taken and the output belong to the same item. *)
PrintfInv ==
    /\ items \in Formats
    /\ fmt = Join(Texts, Len(items))
    /\ FitsBuffer
    /\ (\E k \in 0..Len(items) : PastItems(k)) \/ PastLast

LEMMA ItemsAre ==
    ASSUME items \in Formats
    PROVE  /\ Len(items) \in Nat /\ DOMAIN items = 1..Len(items)
           /\ \A i \in 1..Len(items) :
                 /\ IsItem(items[i]) /\ (i < Len(items) => Supported(items[i]))
                 /\ Texts[i] = Chars(items[i]) /\ Texts[i] \in Seq(Letters)
                 /\ Len(Texts[i]) \in Nat /\ Len(Texts[i]) >= 1
                 /\ Arguments[i] = Args(items[i]) /\ Arguments[i] \in Seq(Values)
                 /\ Meanings[i] = Meaning(items[i])
                 /\ Supported(items[i]) => Meanings[i] \in Seq(Written)
<1>1. Len(items) \in Nat /\ DOMAIN items = 1..Len(items)
  BY FormatsAssumption
<1>2. ASSUME NEW i \in 1..Len(items)
      PROVE  /\ IsItem(items[i]) /\ (i < Len(items) => Supported(items[i]))
             /\ Texts[i] = Chars(items[i]) /\ Texts[i] \in Seq(Letters)
             /\ Len(Texts[i]) \in Nat /\ Len(Texts[i]) >= 1
             /\ Arguments[i] = Args(items[i]) /\ Arguments[i] \in Seq(Values)
             /\ Meanings[i] = Meaning(items[i])
             /\ Supported(items[i]) => Meanings[i] \in Seq(Written)
  <2>1. i \in DOMAIN items
    BY <1>1
  <2>2. IsItem(items[i]) /\ (i < Len(items) => Supported(items[i]))
    BY <2>1, FormatsAssumption
  <2>3. /\ Texts[i] = Chars(items[i]) /\ Arguments[i] = Args(items[i])
        /\ Meanings[i] = Meaning(items[i])
    BY <2>1 DEF Texts, Arguments, Meanings
  <2>4. PICK item : item = items[i]
    OBVIOUS
  <2>5. /\ Chars(item) \in Seq(Letters) /\ Len(Chars(item)) \in Nat /\ Len(Chars(item)) >= 1
        /\ Args(item) \in Seq(Values)
    BY <2>2, <2>4, ItemTexts
  <2>6. Supported(item) => Meaning(item) \in Seq(Written)
    BY <2>2, <2>4, MeaningIs
  <2> QED BY <2>2, <2>3, <2>4, <2>5, <2>6
<1> QED BY <1>1, <1>2

LEMMA Whole ==
    ASSUME NEW ss, NEW n \in Nat, ss = [i \in 1..n |-> ss[i]]
    PROVE  FlattenSeq(ss) = Join(ss, n)
<1>1. First(ss, n) = ss
  BY DEF First
<1> QED BY <1>1 DEF Join

LEMMA WholeTexts ==
    ASSUME items \in Formats
    PROVE  /\ FlattenSeq([i \in DOMAIN items |-> Chars(items[i])]) = Join(Texts, Len(items))
           /\ FlattenSeq([i \in DOMAIN items |-> Args(items[i])]) = Join(Arguments, Len(items))
           /\ FlattenSeq([i \in DOMAIN items |-> Meaning(items[i])]) = Join(Meanings, Len(items))
<1>1. PICK n \in Nat : n = Len(items) /\ DOMAIN items = 1..n
  BY ItemsAre
<1>2. Texts = [i \in 1..n |-> Texts[i]]
  BY <1>1 DEF Texts
<1>3. Arguments = [i \in 1..n |-> Arguments[i]]
  BY <1>1 DEF Arguments
<1>4. Meanings = [i \in 1..n |-> Meanings[i]]
  BY <1>1 DEF Meanings
<1>5. FlattenSeq(Texts) = Join(Texts, n)
  BY <1>2, Whole
<1>6. FlattenSeq(Arguments) = Join(Arguments, n)
  BY <1>3, Whole
<1>7. FlattenSeq(Meanings) = Join(Meanings, n)
  BY <1>4, Whole
<1> QED BY <1>1, <1>5, <1>6, <1>7 DEF Texts, Arguments, Meanings

LEMMA BufferLength == BF_SIZE \in Nat /\ BF_SIZE > 3
<1>1. PICK h \in Nat : h = UINT \div 2 /\ h > 0
  <2>1. 0 \in Nat /\ 0 < UINT
    BY PrintfAssumption
  <2> QED BY <2>1, SignedIs
<1>2. PICK k \in Int : k = -h
  BY <1>1
<1>3. Len(Numeral(k, 16)) = 1 + Len(NumeralOf(16)[h]) /\ Len(NumeralOf(16)[h]) \in Nat
  <2>1. k < 0 /\ -k = h /\ 16 \in Bases
    BY <1>1, <1>2 DEF Bases
  <2>2. NumeralOf(16)[h] \in Seq(Digits)
    BY <1>1, <2>1, NumeralFacts
  <2> QED BY <2>1, <2>2, LenOfNumeral
<1>4. 2 + Len(Numeral(k, 16)) < BF_SIZE
  BY <1>1, <1>2, BufferAssumption
<1> QED BY <1>3, <1>4, PrintfAssumption

LEMMA PrintfInit == Init => PrintfInv
<1> SUFFICES ASSUME Init PROVE PrintfInv
  OBVIOUS
<1>1. items \in Formats /\ p = 1 /\ bf = Uninitialised /\ out = <<>>
  BY DEF Init
<1>2. fmt = Join(Texts, Len(items)) /\ va = Join(Arguments, Len(items))
  BY <1>1, WholeTexts DEF Init
<1>3. Len(items) \in Nat
  BY <1>1, ItemsAre
<1>4. FitsBuffer
  BY <1>1, BufferLength DEF FitsBuffer, Uninitialised
<1>5. Join(Texts, 0) = <<>> /\ Join(Arguments, 0) = <<>> /\ Join(Meanings, 0) = <<>>
  BY JoinNone
<1>6. va \in Seq(Values)
  <2>1. \A i \in 1..Len(items) : Arguments[i] \in Seq(Values)
    BY <1>1, ItemsAre
  <2> QED BY <1>2, <1>3, <2>1, JoinIn
<1>7. Remains(Join(Arguments, Len(items)), Len(Join(Arguments, 0)), va)
  BY <1>2, <1>5, <1>6 DEF Remains
<1>8. PastItems(0)
  BY <1>1, <1>5, <1>7 DEF PastItems
<1>9. 0 \in 0..Len(items)
  BY <1>3
<1> QED BY <1>1, <1>2, <1>4, <1>8, <1>9 DEF PrintfInv

(* Where item k + 1 stands when the first k are done. *)
LEMMA NextItem ==
    ASSUME items \in Formats, fmt = Join(Texts, Len(items)), NEW k \in Nat, k < Len(items), PastItems(k)
    PROVE  /\ IsItem(items[k + 1]) /\ (k + 1 < Len(items) => Supported(items[k + 1]))
           /\ fmt \in Seq(Letters) /\ p \in Nat /\ p >= 1
           /\ Part(fmt, p - 1, Chars(items[k + 1]))
           /\ p + Len(Chars(items[k + 1])) = Len(Join(Texts, k + 1)) + 1
           /\ Len(Chars(items[k + 1])) \in Nat /\ Len(Chars(items[k + 1])) >= 1
<1>1. PICK n \in Nat : n = Len(items)
  BY ItemsAre
<1>2. \A i \in 1..n : Texts[i] \in Seq(Letters)
  BY <1>1, ItemsAre
<1>3. k < n /\ k + 1 \in 1..n
  BY <1>1
<1>4. PICK a, c, d, e : PartOf(Texts, n, k, a, c, d, e)
  BY <1>3 DEF PartOf
<1>5. a = Join(Texts, k) /\ c = Texts[k + 1] /\ d = Join(Texts, k + 1) /\ e = Join(Texts, n)
  BY <1>4 DEF PartOf
<1>6. /\ IsItem(items[k + 1]) /\ (k + 1 < Len(items) => Supported(items[k + 1]))
      /\ c = Chars(items[k + 1]) /\ Len(c) >= 1
  BY <1>1, <1>3, <1>5, ItemsAre
<1>7. /\ a \in Seq(Letters) /\ c \in Seq(Letters) /\ e \in Seq(Letters)
      /\ Len(a) \in Nat /\ Len(c) \in Nat /\ Len(e) \in Nat
      /\ Len(d) = Len(a) + Len(c) /\ Len(a) + Len(c) <= Len(e)
      /\ \A x \in 1..Len(c) : e[Len(a) + x] = c[x]
  <2>1. Parts(Letters, Texts, n)
    BY <1>2 DEF Parts
  <2>2. StandsIn(Letters, a, c, d, e)
    BY <1>4, <2>1, Segment
  <2> QED BY <2>2 DEF StandsIn
<1>8. p = Len(a) + 1
  BY <1>5 DEF PastItems
<1>9. p \in Nat /\ p >= 1 /\ p - 1 = Len(a) /\ p + Len(c) = Len(d) + 1
  BY <1>7, <1>8
<1>10. Part(fmt, Len(a), c) /\ fmt \in Seq(Letters)
  BY <1>1, <1>5, <1>7 DEF Part
<1> QED BY <1>1, <1>5, <1>6, <1>7, <1>9, <1>10

(* The next argument is that of item k + 1, if it has one. *)
LEMMA NextArgument ==
    ASSUME items \in Formats, NEW k \in Nat, k < Len(items), PastItems(k), NEW s,
           IF Args(items[k + 1]) = <<>> THEN s = va ELSE s = Tail(va)
    PROVE  /\ Remains(Join(Arguments, Len(items)), Len(Join(Arguments, k + 1)), s)
           /\ \A a : Args(items[k + 1]) = <<a>> => Head(va) = a
<1>1. PICK n \in Nat : n = Len(items)
  BY ItemsAre
<1>2. \A i \in 1..n : Arguments[i] \in Seq(Values)
  BY <1>1, ItemsAre
<1>3. k < n /\ k + 1 \in 1..n
  BY <1>1
<1>4. PICK q, c, d, r : PartOf(Arguments, n, k, q, c, d, r)
  BY <1>3 DEF PartOf
<1>5. /\ q = Join(Arguments, k) /\ c = Arguments[k + 1]
      /\ d = Join(Arguments, k + 1) /\ r = Join(Arguments, n)
  BY <1>4 DEF PartOf
<1>6. c = Args(items[k + 1])
  BY <1>1, <1>3, <1>5, ItemsAre
<1>7. /\ q \in Seq(Values) /\ c \in Seq(Values) /\ r \in Seq(Values)
      /\ Len(q) \in Nat /\ Len(c) \in Nat /\ Len(r) \in Nat
      /\ Len(d) = Len(q) + Len(c) /\ Len(q) + Len(c) <= Len(r)
      /\ \A x \in 1..Len(c) : r[Len(q) + x] = c[x]
  <2>1. Parts(Values, Arguments, n)
    BY <1>2 DEF Parts
  <2>2. StandsIn(Values, q, c, d, r)
    BY <1>4, <2>1, Segment
  <2> QED BY <2>2 DEF StandsIn
<1>8. PICK o \in Nat : o = Len(q)
  BY <1>7
<1>9. Remains(r, o, va)
  BY <1>1, <1>5, <1>8 DEF PastItems
<1>10. va \in Seq(Values) /\ Len(va) \in Nat /\ o + Len(va) = Len(r) /\ \A x \in 1..Len(va) : va[x] = r[o + x]
  BY <1>9 DEF Remains
<1>11. CASE c = <<>>
  <2>1. Len(c) = 0 /\ s = va
    BY <1>6, <1>11
  <2>2. Remains(r, Len(d), s)
    BY <1>7, <1>8, <1>9, <2>1
  <2>3. \A a : Args(items[k + 1]) # <<a>>
    BY <1>6, <1>11
  <2> QED BY <1>1, <1>5, <2>2, <2>3
<1>12. CASE c # <<>>
  <2>1. PICK a : c = <<a>>
    BY <1>6, <1>12 DEF Args
  <2>2. Len(c) = 1 /\ c[1] = a /\ s = Tail(va)
    BY <1>6, <1>12, <2>1
  <2>3. r[o + 1] = a /\ o + 1 <= Len(r) /\ Len(d) = o + 1
    BY <1>7, <1>8, <2>2
  <2>4. Len(va) >= 1 /\ va[1] = a
    BY <1>7, <1>10, <2>3
  <2>5. Head(va) = a /\ va # <<>>
    BY <1>10, <2>4
  <2>6. s \in Seq(Values) /\ Len(s) = Len(va) - 1 /\ \A x \in 1..Len(s) : s[x] = va[x + 1]
    BY <1>10, <2>2, <2>5, HeadTailProperties
  <2>7. o + 1 + Len(s) = Len(r)
    <3>1. PICK y \in Nat, z \in Nat : y = Len(va) /\ z = Len(s)
      BY <1>10, <2>6
    <3>2. z = y - 1 /\ o + y = Len(r)
      BY <1>10, <2>6, <3>1
    <3> QED BY <3>1, <3>2
  <2>8. ASSUME NEW x \in 1..Len(s) PROVE s[x] = r[o + 1 + x]
    <3>1. x + 1 \in 1..Len(va) /\ o + (x + 1) = o + 1 + x
      BY <1>10, <2>6
    <3> QED BY <1>10, <2>6, <3>1
  <2>9. Remains(r, Len(d), s)
    BY <2>3, <2>6, <2>7, <2>8 DEF Remains
  <2>10. ASSUME NEW b, Args(items[k + 1]) = <<b>> PROVE Head(va) = b
    <3>1. <<a>> = <<b>>
      BY <1>6, <2>1, <2>10
    <3>2. <<a>>[1] = a /\ <<b>>[1] = b
      OBVIOUS
    <3> QED BY <2>5, <3>1, <3>2
  <2> QED BY <1>1, <1>5, <2>9, <2>10
<1> QED BY <1>11, <1>12

(* A step that writes the meaning of item k + 1 and takes its argument. *)
LEMMA Advance ==
    ASSUME PrintfInv, NEW k \in Nat, k < Len(items), PastItems(k), Supported(items[k + 1]),
           UNCHANGED <<items, fmt>>, p' = p + Len(Chars(items[k + 1])),
           out' = out \o Meaning(items[k + 1]), FitsBuffer',
           IF Args(items[k + 1]) = <<>> THEN va' = va ELSE va' = Tail(va)
    PROVE  PrintfInv'
<1>1. items \in Formats /\ fmt = Join(Texts, Len(items))
  BY DEF PrintfInv
<1>2. PICK n \in Nat : n = Len(items)
  BY <1>1, ItemsAre
<1>3. Texts' = Texts /\ Arguments' = Arguments /\ Meanings' = Meanings
  BY DEF Texts, Arguments, Meanings
<1>4. p' = Len(Join(Texts, k + 1)) + 1
  BY <1>1, NextItem
<1>5. Remains(Join(Arguments, Len(items)), Len(Join(Arguments, k + 1)), va')
  BY <1>1, NextArgument
<1>6. \A i \in 1..(k + 1) : Supported(items[i])
  BY DEF PastItems
<1>7. out' = Join(Meanings, k + 1)
  <2>1. \A i \in 1..(k + 1) : Meanings[i] \in Seq(Written)
    BY <1>1, <1>2, <1>6, ItemsAre
  <2>2. Join(Meanings, k + 1) = Join(Meanings, k) \o Meanings[k + 1]
    BY <2>1, JoinMore
  <2>3. Meanings[k + 1] = Meaning(items[k + 1])
    BY <1>1, <1>2, ItemsAre
  <2>4. out = Join(Meanings, k)
    BY DEF PastItems
  <2> QED BY <2>2, <2>3, <2>4
<1>8. PastItems(k + 1)'
  <2>1. /\ p' = Len(Join(Texts', k + 1)) + 1 /\ out' = Join(Meanings', k + 1)
        /\ Remains(Join(Arguments', Len(items')), Len(Join(Arguments', k + 1)), va')
        /\ \A i \in 1..(k + 1) : Supported(items'[i])
    BY <1>3, <1>4, <1>5, <1>6, <1>7
  <2> QED BY <2>1 DEF PastItems
<1>9. k + 1 \in 0..Len(items')
  BY <1>2
<1>10. items' \in Formats /\ fmt' = Join(Texts', Len(items'))
  BY <1>1, <1>3
<1> QED BY <1>8, <1>9, <1>10 DEF PrintfInv

(* A step behind the last item, when the item is "%%" or a long long. *)
LEMMA Finish ==
    ASSUME PrintfInv, UNCHANGED <<items, fmt>>, \E i \in DOMAIN items : ~Supported(items[i]),
           p' = Len(fmt) + 1 \/ (p' = Len(fmt) /\ fmt[p'] = "%"), FitsBuffer'
    PROVE  PrintfInv'
<1>1. Texts' = Texts
  BY DEF Texts
<1>2. items' \in Formats /\ fmt' = Join(Texts', Len(items'))
  BY <1>1 DEF PrintfInv
<1>3. PastLast'
  <2>1. \E i \in DOMAIN items' : ~Supported(items'[i])
    OBVIOUS
  <2>2. p' = Len(fmt') + 1 \/ (p' = Len(fmt') /\ fmt'[p'] = "%")
    OBVIOUS
  <2> QED BY <2>1, <2>2 DEF PastLast
<1> QED BY <1>2, <1>3 DEF PrintfInv

(* The "%" that is left of "%%" is followed by no specifier. *)
LEMMA LastPercent ==
    ASSUME fmt \in Seq(Letters), p = Len(fmt), p >= 1
    PROVE  Specifier = p + 1 /\ At(Specifier) = NUL
<1>1. Len(<<>>) = 0 /\ <<>> \in Flags /\ <<>> \in Seq(Decimals) /\ <<>> \in Lengths
  BY EmptySeq DEF Flags, Lengths
<1>2. p \in Nat /\ Len(fmt) \in Nat
  OBVIOUS
<1>3. At(p + 1) = NUL
  BY <1>2 DEF At
<1>4. /\ p + Len(<<>>) + Len(<<>>) + Len(<<>>) + 1 = p + 1
      /\ p + Len(<<>>) + Len(<<>>) + Len(<<>>) <= Len(fmt)
  BY <1>1, <1>2
<1>5. Ahead(<<>>, <<>>, <<>>, NUL)
  <2>1. \A y : y \notin 1..Len(<<>>)
    BY <1>1
  <2>2. At(p + Len(<<>>) + Len(<<>>) + Len(<<>>) + 1) = NUL
    BY <1>3, <1>4
  <2> QED BY <1>1, <1>2, <1>4, <2>1, <2>2 DEF Ahead
<1>6. Specifier = p + 1
  BY <1>4, <1>5, ParsedParts
<1> QED BY <1>3, <1>6

(* The step in front of a text. *)
LEMMA TextStep ==
    ASSUME PrintfInv, Next, NEW k \in Nat, k < Len(items), PastItems(k), IsText(items[k + 1])
    PROVE  PrintfInv'
<1>0. items \in Formats /\ fmt = Join(Texts, Len(items)) /\ FitsBuffer
  BY DEF PrintfInv
<1>1. PICK item : item = items[k + 1]
  OBVIOUS
<1>2. /\ IsItem(item) /\ IsText(item) /\ fmt \in Seq(Letters) /\ p \in Nat /\ p >= 1
      /\ Part(fmt, p - 1, Chars(item))
  BY <1>0, <1>1, NextItem
<1>3. Chars(item) = <<item.text>> /\ Args(item) = <<>> /\ item.text \in Alphabet
  BY <1>2, ItemKinds DEF Chars, Args
<1>4. Len(Chars(item)) = 1 /\ fmt[p] = item.text
  <2>1. Len(<<item.text>>) = 1 /\ <<item.text>>[1] = item.text
    OBVIOUS
  <2>2. fmt[p - 1 + 1] = <<item.text>>[1]
    BY <1>2, <1>3, <2>1 DEF Part
  <2>3. p - 1 + 1 = p
    BY <1>2
  <2> QED BY <1>3, <2>1, <2>2, <2>3
<1>5. fmt[p] # "%"
  BY <1>3, <1>4, PrintfAssumption
<1>6. Literal
  BY <1>5 DEF Next, Number, LongNumber, Char, String, NoSpecifier, Converts
<1>7. Supported(item) /\ Meaning(item) = <<item.text>>
  BY <1>2, MeaningIs DEF Supported
<1>8. out' = out \o Meaning(item)
  BY <1>4, <1>6, <1>7 DEF Literal
<1>9. UNCHANGED <<items, fmt>> /\ p' = p + Len(Chars(item)) /\ va' = va /\ FitsBuffer'
  BY <1>0, <1>4, <1>6 DEF Literal, FitsBuffer
<1> QED BY <1>1, <1>3, <1>7, <1>8, <1>9, Advance

(* What a step in front of a conversion does. *)
LEMMA Conversions ==
    ASSUME PrintfInv, Next, NEW k \in Nat, k < Len(items), PastItems(k), NEW item, item = items[k + 1],
           IsConversion(item)
    PROVE  /\ UNCHANGED <<items, fmt>>
           /\ IF item.spec = "%" THEN NoSpecifier /\ p' = p + Len(Chars(item)) - 1
              ELSE /\ p' = p + Len(Chars(item))
                   /\ item.spec = "c" => Char
                   /\ item.spec = "s" => String
                   /\ item.spec \in Specs =>
                         IF item.length = <<"l", "l">> THEN LongNumber ELSE Number
           /\ At(Specifier) = item.spec
           /\ fmt[p] = "%"
<1>0. items \in Formats /\ fmt = Join(Texts, Len(items))
  BY DEF PrintfInv
<1>1. /\ fmt \in Seq(Letters) /\ p \in Nat /\ p >= 1 /\ Part(fmt, p - 1, Chars(item))
      /\ Len(Chars(item)) \in Nat
  BY <1>0, NextItem
<1>2. /\ fmt[p] = "%" /\ p <= Len(fmt)
      /\ Specifier \in Nat /\ Specifier + 1 = p + Len(Chars(item)) /\ At(Specifier) = item.spec
      /\ LongLong <=> item.length = <<"l", "l">>
  BY <1>1, Parsed
<1>3. Specifier = p + Len(Chars(item)) - 1
  BY <1>1, <1>2
<1>4. ~Literal
  BY <1>2 DEF Literal
<1>5. UNCHANGED <<items, fmt>>
  BY DEF Next, Literal, Number, LongNumber, Char, String, NoSpecifier, Converts
<1>6. CASE item.spec = "%"
  <2>1. NoSpecifier
    BY <1>2, <1>4, <1>6 DEF Next, Number, LongNumber, Char, String, Converts
  <2>2. p' = p + Len(Chars(item)) - 1
    BY <1>3, <2>1 DEF NoSpecifier
  <2> QED BY <1>2, <1>5, <1>6, <2>1, <2>2
<1>7. CASE item.spec = "c"
  <2>1. Char
    BY <1>2, <1>4, <1>7 DEF Next, Number, LongNumber, Char, String, NoSpecifier, Converts
  <2>2. p' = p + Len(Chars(item))
    BY <1>2, <2>1 DEF Char, Converts
  <2> QED BY <1>2, <1>5, <1>7, <2>1, <2>2 DEF Specs
<1>8. CASE item.spec = "s"
  <2>1. String
    BY <1>2, <1>4, <1>8 DEF Next, Number, LongNumber, Char, String, NoSpecifier, Converts
  <2>2. p' = p + Len(Chars(item))
    BY <1>2, <2>1 DEF String, Converts
  <2> QED BY <1>2, <1>5, <1>8, <2>1, <2>2 DEF Specs
<1>9. CASE item.spec \in Specs
  <2>1. IF item.length = <<"l", "l">> THEN LongNumber ELSE Number
    BY <1>2, <1>4, <1>9 DEF Next, Number, LongNumber, Char, String, NoSpecifier, Converts, Specs
  <2>2. p' = p + Len(Chars(item))
    BY <1>2, <2>1 DEF Number, LongNumber, Converts
  <2> QED BY <1>2, <1>5, <1>9, <2>1, <2>2 DEF Specs
<1> QED BY <1>6, <1>7, <1>8, <1>9 DEF IsConversion

(* The step in front of a supported conversion. *)
LEMMA SupportedStep ==
    ASSUME PrintfInv, Next, NEW k \in Nat, k < Len(items), PastItems(k), NEW item, item = items[k + 1],
           IsConversion(item), Supported(item)
    PROVE  PrintfInv'
<1>0. items \in Formats /\ fmt = Join(Texts, Len(items))
  BY DEF PrintfInv
<1>1. IsItem(item) /\ ~IsText(item) /\ item.spec # "%" /\ item.length # <<"l", "l">>
  BY <1>0, NextItem DEF IsConversion, Supported
<1>2. /\ UNCHANGED <<items, fmt>> /\ p' = p + Len(Chars(item)) /\ At(Specifier) = item.spec
      /\ item.spec = "c" => Char
      /\ item.spec = "s" => String
      /\ item.spec \in Specs => Number
  BY <1>1, Conversions
<1>3. Args(item) = <<item.arg>> /\ Args(item) # <<>>
  BY <1>1 DEF Args
<1>4. Head(va) = item.arg
  BY <1>0, <1>3, NextArgument
<1>5. out \in Seq(Written)
  <2>1. PICK n \in Nat : n = Len(items)
    BY <1>0, ItemsAre
  <2>2. \A i \in 1..k : Meanings[i] \in Seq(Written)
    BY <1>0, <2>1, ItemsAre DEF PastItems
  <2>3. Join(Meanings, k) \in Seq(Written)
    BY <2>2, JoinIn
  <2> QED BY <2>3 DEF PastItems
<1>6. Meaning(item) \in Seq(Written)
  BY <1>1, MeaningIs
<1>7. ASSUME item.spec \in Specs
      PROVE  va' = Tail(va) /\ out' = out \o Meaning(item) /\ FitsBuffer'
  <2>1. bf' = NumberText(item.spec, item.arg) /\ va' = Tail(va) /\ out' = out \o bf'
    BY <1>2, <1>4, <1>7 DEF Number
  <2>2. Meaning(item) = NumberText(item.spec, item.arg)
    BY <1>1, <1>7, MeaningIs
  <2>3. item.arg \in Nat /\ item.arg < UINT
    BY <1>7, PrintfAssumption DEF IsConversion, Specs
  <2>4. Len(NumberText(item.spec, item.arg)) < BF_SIZE
    BY <1>7, <2>3, NumberFits
  <2> QED BY <2>1, <2>2, <2>4 DEF FitsBuffer
<1>8. ASSUME item.spec = "c"
      PROVE  va' = Tail(va) /\ out' = out \o Meaning(item) /\ FitsBuffer'
  <2>1. bf' = <<item.arg>> /\ va' = Tail(va) /\ out' = out \o bf'
    BY <1>2, <1>4, <1>8 DEF Char
  <2>2. Meaning(item) = <<item.arg>>
    BY <1>1, <1>8, MeaningIs
  <2>3. Len(<<item.arg>>) = 1
    OBVIOUS
  <2> QED BY <2>1, <2>2, <2>3, BufferLength DEF FitsBuffer
<1>9. ASSUME item.spec = "s"
      PROVE  va' = Tail(va) /\ out' = out \o Meaning(item) /\ FitsBuffer'
  <2>1. bf' = <<>> /\ va' = Tail(va) /\ out' = (out \o item.arg) \o <<>>
    BY <1>2, <1>4, <1>9 DEF String
  <2>2. Meaning(item) = item.arg
    BY <1>1, <1>9, MeaningIs
  <2>3. PICK m \in Seq(Written) : m = item.arg
    BY <1>6, <2>2
  <2>4. out \o m \in Seq(Written)
    BY <1>5, ConcatProperties
  <2>5. (out \o m) \o <<>> = out \o m
    BY <2>4, ConcatEmptySeq
  <2>6. Len(<<>>) = 0
    OBVIOUS
  <2> QED BY <2>1, <2>2, <2>3, <2>5, <2>6, BufferLength DEF FitsBuffer
<1>10. va' = Tail(va) /\ out' = out \o Meaning(item) /\ FitsBuffer'
  BY <1>1, <1>7, <1>8, <1>9 DEF IsConversion
<1> QED BY <1>2, <1>3, <1>10, Advance

(* The step in front of a conversion that is not supported. *)
LEMMA UnsupportedStep ==
    ASSUME PrintfInv, Next, NEW k \in Nat, k < Len(items), PastItems(k), NEW item, item = items[k + 1],
           IsConversion(item), ~Supported(item)
    PROVE  PrintfInv'
<1>0. items \in Formats /\ fmt = Join(Texts, Len(items)) /\ FitsBuffer
  BY DEF PrintfInv
<1>1. PICK n \in Nat : n = Len(items) /\ DOMAIN items = 1..n
  BY <1>0, ItemsAre
<1>2. k + 1 = n
  <2>1. ~(k + 1 < n)
    BY <1>0, <1>1, NextItem
  <2> QED BY <1>1, <2>1
<1>3. \E i \in DOMAIN items : ~Supported(items[i])
  BY <1>1, <1>2
<1>4. /\ fmt \in Seq(Letters) /\ p \in Nat /\ p + Len(Chars(item)) = Len(fmt) + 1
      /\ Len(Chars(item)) \in Nat /\ Len(fmt) \in Nat
  <2>1. /\ fmt \in Seq(Letters) /\ p \in Nat /\ Len(Chars(item)) \in Nat
        /\ p + Len(Chars(item)) = Len(Join(Texts, k + 1)) + 1
    BY <1>0, NextItem
  <2>2. Join(Texts, k + 1) = fmt
    BY <1>0, <1>1, <1>2
  <2>3. Len(fmt) \in Nat
    BY <2>1
  <2> QED BY <2>1, <2>2, <2>3
<1>5. UNCHANGED <<items, fmt>>
  BY Conversions
<1>6. CASE item.spec = "%"
  <2>1. NoSpecifier /\ p' = p + Len(Chars(item)) - 1 /\ At(Specifier) = "%"
    BY <1>6, Conversions
  <2>2. p' = Len(fmt)
    BY <1>4, <2>1
  <2>3. p' = Specifier /\ bf' = bf
    BY <2>1 DEF NoSpecifier
  <2>4. fmt[p'] = "%"
    BY <1>4, <2>1, <2>2, <2>3 DEF At
  <2>5. FitsBuffer'
    BY <1>0, <2>3 DEF FitsBuffer
  <2> QED BY <1>3, <1>5, <2>2, <2>4, <2>5, Finish
<1>7. CASE item.spec # "%"
  <2>1. /\ p' = p + Len(Chars(item))
        /\ item.spec = "c" => Char
        /\ item.spec = "s" => String
        /\ item.spec \in Specs => LongNumber
    <3>1. item.length = <<"l", "l">>
      BY <1>7 DEF Supported
    <3> QED BY <1>7, <3>1, Conversions
  <2>2. p' = Len(fmt) + 1
    BY <1>4, <2>1
  <2>3. FitsBuffer'
    <3>1. bf' = <<"N", "a", "N">> \/ bf' = <<>> \/ bf' = <<Head(va)>>
      BY <1>7, <2>1 DEF IsConversion, LongNumber, Char, String
    <3>2. Len(<<"N", "a", "N">>) = 3 /\ Len(<<>>) = 0
      OBVIOUS
    <3>3. \A b : Len(<<b>>) = 1
      OBVIOUS
    <3>4. CASE bf' = <<"N", "a", "N">>
      BY <3>2, <3>4, BufferLength DEF FitsBuffer
    <3>5. CASE bf' = <<>>
      BY <3>2, <3>5, BufferLength DEF FitsBuffer
    <3>6. CASE bf' = <<Head(va)>>
      BY <3>3, <3>6, BufferLength DEF FitsBuffer
    <3> QED BY <3>1, <3>4, <3>5, <3>6
  <2> QED BY <1>3, <1>5, <2>2, <2>3, Finish
<1> QED BY <1>6, <1>7

LEMMA PrintfNext == PrintfInv /\ [Next]_pvars => PrintfInv'
<1> SUFFICES ASSUME PrintfInv, [Next]_pvars PROVE PrintfInv'
  OBVIOUS
<1>0. items \in Formats /\ fmt = Join(Texts, Len(items)) /\ FitsBuffer
  BY DEF PrintfInv
<1>1. PICK n \in Nat : n = Len(items)
  BY <1>0, ItemsAre
<1>2. fmt \in Seq(Letters)
  <2>1. \A i \in 1..n : Texts[i] \in Seq(Letters)
    BY <1>0, <1>1, ItemsAre
  <2> QED BY <1>0, <1>1, <2>1, JoinIn
<1>3. CASE UNCHANGED pvars
  <2>1. Texts' = Texts /\ Arguments' = Arguments /\ Meanings' = Meanings
    BY <1>3 DEF pvars, Texts, Arguments, Meanings
  <2>2. \A k : PastItems(k)' <=> PastItems(k)
    BY <1>3, <2>1 DEF pvars, PastItems
  <2>3. PastLast' <=> PastLast
    BY <1>3 DEF pvars, PastLast
  <2>4. FitsBuffer'
    BY <1>0, <1>3 DEF pvars, FitsBuffer
  <2> QED BY <1>3, <2>1, <2>2, <2>3, <2>4 DEF pvars, PrintfInv
<1>4. CASE Next
  <2>1. p <= Len(fmt)
    BY <1>4 DEF Next, Literal, Number, LongNumber, Char, String, NoSpecifier, Converts, InFormat
  <2>2. CASE PastLast
    <3>1. p = Len(fmt) /\ fmt[p] = "%" /\ p \in Nat
      BY <1>2, <2>1, <2>2 DEF PastLast
    <3>2. p >= 1
      <4>1. 1 \in 1..n
        BY <1>1, <2>2, ItemsAre, <1>0 DEF PastLast
      <4>2. PICK k \in Nat : k = 0 /\ k < n
        BY <4>1
      <4>3. PICK a, c, d, e : PartOf(Texts, n, k, a, c, d, e)
        BY <4>2 DEF PartOf
      <4>4. c = Texts[1] /\ e = fmt
        BY <1>0, <1>1, <4>2, <4>3 DEF PartOf
      <4>5. Parts(Letters, Texts, n)
        BY <1>0, <1>1, ItemsAre DEF Parts
      <4>6. Len(a) \in Nat /\ Len(c) \in Nat /\ Len(e) \in Nat /\ Len(a) + Len(c) <= Len(e)
        <5>1. StandsIn(Letters, a, c, d, e)
          BY <4>3, <4>5, Segment
        <5> QED BY <5>1 DEF StandsIn
      <4>7. Len(c) >= 1
        BY <1>0, <1>1, <4>1, <4>4, ItemsAre
      <4> QED BY <3>1, <4>4, <4>6, <4>7
    <3>3. Specifier = p + 1 /\ At(Specifier) = NUL
      BY <1>2, <3>1, <3>2, LastPercent
    <3>4. NoSpecifier
      BY <1>4, <3>1, <3>3 DEF Next, Literal, Number, LongNumber, Char, String, Converts, NUL
    <3>5. UNCHANGED <<items, fmt, bf>> /\ p' = Len(fmt) + 1
      BY <3>1, <3>3, <3>4 DEF NoSpecifier
    <3>6. FitsBuffer'
      BY <1>0, <3>5 DEF FitsBuffer
    <3>7. \E i \in DOMAIN items : ~Supported(items[i])
      BY <2>2 DEF PastLast
    <3> QED BY <3>5, <3>6, <3>7, Finish
  <2>3. ASSUME NEW k \in 0..Len(items), PastItems(k) PROVE PrintfInv'
    <3>1. k \in Nat /\ k <= n
      BY <1>1, <2>3
    <3>2. k # n
      <4> SUFFICES ASSUME k = n PROVE FALSE
        OBVIOUS
      <4>1. p = Len(fmt) + 1
        BY <1>0, <1>1, <2>3 DEF PastItems
      <4>2. Len(fmt) \in Nat
        BY <1>2
      <4> QED BY <2>1, <4>1, <4>2
    <3>3. k < Len(items)
      BY <1>1, <3>1, <3>2
    <3>4. PICK item : item = items[k + 1]
      OBVIOUS
    <3>5. IsItem(item)
      BY <1>0, <2>3, <3>1, <3>3, <3>4, NextItem
    <3>6. CASE IsText(item)
      BY <1>4, <2>3, <3>1, <3>3, <3>4, <3>6, TextStep
    <3>7. CASE ~IsText(item)
      <4>1. IsConversion(item)
        BY <3>5, <3>7, ItemKinds
      <4>2. CASE Supported(item)
        BY <1>4, <2>3, <3>1, <3>3, <3>4, <4>1, <4>2, SupportedStep
      <4>3. CASE ~Supported(item)
        BY <1>4, <2>3, <3>1, <3>3, <3>4, <4>1, <4>3, UnsupportedStep
      <4> QED BY <4>2, <4>3
    <3> QED BY <3>6, <3>7
  <2> QED BY <2>2, <2>3 DEF PrintfInv
<1> QED BY <1>3, <1>4

(* The position in the format, the arguments not yet taken and the output always
   belong to the same item: whatever the parser skips and every conversion takes
   is one item's, until "%%" or a long long ends the format. *)
THEOREM PrintfSpecInv == Spec => []PrintfInv
<1> QED BY PrintfInit, PrintfNext, PTL DEF Spec

(* Every format of supported items within SIZE comes out as the texts of its items
   and of their own arguments, in order, for all arguments and any width of int. *)
THEOREM PrintsFormatAlways == Spec => []PrintsFormat
<1>1. PrintfInv => PrintsFormat
  <2> SUFFICES ASSUME PrintfInv, ~InFormat, Len(fmt) <= SIZE, \A i \in DOMAIN items : Supported(items[i])
               PROVE  out = FlattenSeq([i \in DOMAIN items |-> Meaning(items[i])])
    BY DEF PrintsFormat
  <2>1. items \in Formats /\ fmt = Join(Texts, Len(items))
    BY DEF PrintfInv
  <2>2. PICK n \in Nat : n = Len(items)
    BY <2>1, ItemsAre
  <2>3. PICK k \in 0..n : PastItems(k)
    BY <2>2 DEF PrintfInv, PastLast
  <2>4. k \in Nat /\ k <= n
    OBVIOUS
  <2>5. ASSUME k < n PROVE FALSE
    <3>1. PICK item : item = items[k + 1]
      OBVIOUS
    <3>2. /\ p \in Nat /\ Part(fmt, p - 1, Chars(item)) /\ fmt \in Seq(Letters)
          /\ Len(Chars(item)) \in Nat /\ Len(Chars(item)) >= 1
      BY <2>1, <2>2, <2>3, <2>4, <2>5, <3>1, NextItem
    <3>3. p - 1 + Len(Chars(item)) <= Len(fmt) /\ Len(fmt) \in Nat
      BY <3>2 DEF Part
    <3>4. p <= Len(fmt) /\ p <= SIZE
      BY <3>2, <3>3, PrintfAssumption
    <3> QED BY <3>4 DEF InFormat
  <2>6. k = n
    BY <2>4, <2>5
  <2> QED BY <2>1, <2>2, <2>3, <2>6, WholeTexts DEF PastItems
<1> QED BY <1>1, PrintfSpecInv, PTL

(* No conversion of a format writes behind the end of bf, whatever its arguments. *)
THEOREM FitsBufferAlways == Spec => []FitsBuffer
<1>1. PrintfInv => FitsBuffer
  BY DEF PrintfInv
<1> QED BY <1>1, PrintfSpecInv, PTL
====
