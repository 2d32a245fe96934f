----------------------------- MODULE DnsSdProofs -----------------------------
(***************************************************************************)
(* What DnsSd keeps for every domain, instance and identifier, any address *)
(* of the server, network of the clients and address of the phone, and any *)
(* width of an octet.                                                      *)
(***************************************************************************)
EXTENDS DnsSd, WellFoundedInduction, TLAPS

(* Induction over the naturals, and powers of two                          *)

\* A set of naturals with 0 and every successor has them all.
LEMMA SetInduction ==
  ASSUME NEW S \in SUBSET Nat, 0 \in S, \A n \in S : n + 1 \in S
  PROVE  S = Nat
<1> DEFINE T == Nat \ S
           R == OpToRel(<, Nat)
<1> SUFFICES ASSUME T # {} PROVE FALSE
  OBVIOUS
<1>1. IsWellFoundedOn(R, Nat)
  BY NatLessThanWellFounded
<1>2. PICK x \in T : \A y \in T : ~ (<<y, x>> \in R)
  <2>1. T \subseteq Nat
    OBVIOUS
  <2> HIDE DEF T, R
  <2>2. QED
    BY <1>1, <2>1, WFMin
<1>3. x \in Nat /\ x # 0
  OBVIOUS
<1>4. x - 1 \in Nat /\ x - 1 < x /\ x - 1 \notin S
  BY <1>3
<1>5. QED
  BY <1>2, <1>4 DEF OpToRel

\* What is counted step by step from a first value is a function.
LEMMA Iteration ==
  ASSUME NEW first \in Nat, NEW step \in [Nat \X Nat -> Nat]
  PROVE  \E f \in [Nat -> Nat] : f[0] = first /\ \A n \in Nat : f[n + 1] = step[<<n + 1, f[n]>>]
<1> DEFINE Upto(n, g) ==
             /\ g \in [0..n -> Nat]
             /\ g[0] = first
             /\ \A i \in 0..n : i < n => g[i + 1] = step[<<i + 1, g[i]>>]
           S == {n \in Nat : \E g \in [0..n -> Nat] : Upto(n, g)}
           U == {n \in Nat : \A m \in Nat : \A g \in [0..n -> Nat], h \in [0..m -> Nat] :
                               n <= m /\ Upto(n, g) /\ Upto(m, h) => g[n] = h[n]}
<1>1. 0 \in S
  <2>1. Upto(0, [i \in 0..0 |-> first])
    OBVIOUS
  <2>2. QED
    BY <2>1
<1>2. ASSUME NEW n \in S PROVE n + 1 \in S
  <2>1. PICK g \in [0..n -> Nat] : Upto(n, g)
    OBVIOUS
  <2> DEFINE h == [i \in 0..(n + 1) |-> IF i <= n THEN g[i] ELSE step[<<n + 1, g[n]>>]]
  <2>2. h \in [0..(n + 1) -> Nat]
    OBVIOUS
  <2>3. h[0] = first
    BY <2>1
  <2>4. ASSUME NEW i \in 0..(n + 1), i < n + 1 PROVE h[i + 1] = step[<<i + 1, h[i]>>]
    <3>1. CASE i < n
      BY <2>1, <3>1
    <3>2. CASE i = n
      BY <3>2
    <3>3. QED
      BY <2>4, <3>1, <3>2
  <2> HIDE DEF h
  <2>5. Upto(n + 1, h) /\ n + 1 \in Nat
    BY <2>2, <2>3, <2>4
  <2> HIDE DEF Upto
  <2>6. QED
    BY <2>2, <2>5
<1>3. S = Nat
  <2> HIDE DEF S
  <2>1. S \in SUBSET Nat
    BY DEF S
  <2>2. QED
    BY <1>1, <1>2, <2>1, SetInduction
<1>4. U = Nat
  <2>1. 0 \in U
    OBVIOUS
  <2>2. ASSUME NEW n \in U PROVE n + 1 \in U
    <3> SUFFICES ASSUME NEW m \in Nat, NEW g \in [0..(n + 1) -> Nat], NEW h \in [0..m -> Nat],
                        n + 1 <= m, Upto(n + 1, g), Upto(m, h)
                 PROVE  g[n + 1] = h[n + 1]
      <4> HIDE DEF Upto
      <4>1. n + 1 \in Nat
        OBVIOUS
      <4>2. QED
        BY <4>1
    <3> DEFINE k == [i \in 0..n |-> g[i]]
    <3>1. k \in [0..n -> Nat] /\ Upto(n, k)
      OBVIOUS
    <3>2. k[n] = h[n]
      <4> HIDE DEF Upto, k
      <4>1. n \in Nat /\ n <= m
        OBVIOUS
      <4>2. QED
        BY <3>1, <4>1
    <3>3. g[n] = h[n]
      BY <3>2
    <3>4. g[n + 1] = step[<<n + 1, g[n]>>]
      OBVIOUS
    <3>5. h[n + 1] = step[<<n + 1, h[n]>>]
      <4>1. n \in 0..m /\ n < m
        OBVIOUS
      <4>2. QED
        BY <4>1
    <3>6. QED
      BY <3>3, <3>4, <3>5
  <2>3. U \in SUBSET Nat
    OBVIOUS
  <2> HIDE DEF U
  <2>4. QED
    BY <2>1, <2>2, <2>3, SetInduction
<1> DEFINE G(n) == CHOOSE g \in [0..n -> Nat] : Upto(n, g)
           f == [n \in Nat |-> G(n)[n]]
<1>5. ASSUME NEW n \in Nat PROVE G(n) \in [0..n -> Nat] /\ Upto(n, G(n))
  BY <1>3
<1> HIDE DEF G
<1>6. f \in [Nat -> Nat]
  BY <1>5
<1>7. f[0] = first
  BY <1>5
<1>8. ASSUME NEW n \in Nat PROVE f[n + 1] = step[<<n + 1, f[n]>>]
  <2>1. n + 1 \in Nat /\ n <= n + 1 /\ n \in 0..(n + 1) /\ n < n + 1
    OBVIOUS
  <2>2. G(n) \in [0..n -> Nat] /\ Upto(n, G(n))
    BY <1>5
  <2>3. G(n + 1) \in [0..(n + 1) -> Nat] /\ Upto(n + 1, G(n + 1))
    BY <1>5, <2>1
  <2>4. G(n)[n] = G(n + 1)[n]
    <3>1. n \in U
      <4> HIDE DEF U
      <4>1. QED
        BY <1>4
    <3> HIDE DEF Upto
    <3>2. QED
      BY <2>1, <2>2, <2>3, <3>1
  <2> DEFINE h == G(n + 1)
  <2>5. Upto(n + 1, h)
    BY <2>3
  <2> HIDE DEF h
  <2>6. h[n + 1] = step[<<n + 1, h[n]>>]
    BY <2>1, <2>5
  <2>7. QED
    BY <2>1, <2>4, <2>6 DEF h
<1>9. QED
  BY <1>6, <1>7, <1>8

\* TwoTo doubles from 1.
LEMMA TwoToDef ==
  /\ TwoTo \in [Nat -> Nat \ {0}]
  /\ TwoTo[0] = 1
  /\ \A k \in Nat : TwoTo[k + 1] = 2 * TwoTo[k]
<1> DEFINE Def(f) == f = [k \in Nat |-> IF k = 0 THEN 1 ELSE 2 * f[k - 1]]
<1>1. \E f : Def(f)
  <2> DEFINE step == [p \in Nat \X Nat |-> 2 * p[2]]
  <2>1. step \in [Nat \X Nat -> Nat]
    OBVIOUS
  <2>2. PICK f \in [Nat -> Nat] : f[0] = 1 /\ \A n \in Nat : f[n + 1] = step[<<n + 1, f[n]>>]
    <3> HIDE DEF step
    <3>1. 1 \in Nat
      OBVIOUS
    <3>2. QED
      BY <2>1, <3>1, Iteration
  <2>3. ASSUME NEW k \in Nat PROVE f[k] = IF k = 0 THEN 1 ELSE 2 * f[k - 1]
    <3>1. CASE k = 0
      BY <2>2, <3>1
    <3>2. CASE k # 0
      <4>1. k - 1 \in Nat /\ (k - 1) + 1 = k
        BY <3>2
      <4>2. QED
        BY <2>2, <3>2, <4>1
    <3>3. QED
      BY <3>1, <3>2
  <2>4. Def(f)
    BY <2>3
  <2>5. QED
    BY <2>4
<1>2. Def(TwoTo)
  <2>1. TwoTo = CHOOSE f : Def(f)
    BY DEF TwoTo
  <2> HIDE DEF Def
  <2>2. QED
    BY <1>1, <2>1
<1>3. DOMAIN TwoTo = Nat /\ \A k \in Nat : TwoTo[k] = IF k = 0 THEN 1 ELSE 2 * TwoTo[k - 1]
  BY <1>2
<1> DEFINE S == {n \in Nat : TwoTo[n] \in Nat \ {0}}
<1>4. S = Nat
  <2>1. 0 \in S /\ \A n \in S : n + 1 \in S
    BY <1>3
  <2>2. S \in SUBSET Nat
    OBVIOUS
  <2> HIDE DEF S
  <2>3. QED
    BY <2>1, <2>2, SetInduction
<1> HIDE DEF Def
<1>5. TwoTo \in [Nat -> Nat \ {0}]
  BY <1>2, <1>3, <1>4 DEF Def
<1>6. \A k \in Nat : TwoTo[k + 1] = 2 * TwoTo[k]
  BY <1>3
<1>7. QED
  BY <1>3, <1>5, <1>6

-----------------------------------------------------------------------------
(* Addresses as numbers, and their bits                                    *)

\* Powers multiply when their exponents add up.
LEMMA TwoToSum == \A i, j \in Nat : TwoTo[i + j] = TwoTo[i] * TwoTo[j]
<1> DEFINE S == {j \in Nat : \A i \in Nat : TwoTo[i + j] = TwoTo[i] * TwoTo[j]}
<1>1. 0 \in S
  BY TwoToDef
<1>2. ASSUME NEW j \in S PROVE j + 1 \in S
  <2>1. ASSUME NEW i \in Nat PROVE TwoTo[i + (j + 1)] = TwoTo[i] * TwoTo[j + 1]
    <3>1. TwoTo[(i + j) + 1] = 2 * TwoTo[i + j] /\ TwoTo[j + 1] = 2 * TwoTo[j]
      BY TwoToDef
    <3>2. TwoTo[i + j] = TwoTo[i] * TwoTo[j] /\ (i + j) + 1 = i + (j + 1)
      OBVIOUS
    <3>3. TwoTo[i] \in Nat /\ TwoTo[j] \in Nat
      BY TwoToDef
    <3>4. QED
      BY <3>1, <3>2, <3>3
  <2>2. QED
    BY <2>1
<1>3. S \in SUBSET Nat
  OBVIOUS
<1>4. S = Nat
  <2> HIDE DEF S
  <2>1. QED
    BY <1>1, <1>2, <1>3, SetInduction
<1>5. QED
  BY <1>4

\* Divided twice, a number is divided by the product.
LEMMA DivideTwice ==
  \A x \in Nat, a, b \in Nat \ {0} : (x \div a) \div b = x \div (a * b)
  OBVIOUS

\* The naturals are closed under products.
LEMMA Products == \A x, y \in Nat : x * y \in Nat
  OBVIOUS

\* The quotient and the remainder of two naturals.
LEMMA Quotient ==
  ASSUME NEW x \in Nat, NEW t \in Nat \ {0}
  PROVE  /\ x \div t \in Nat
         /\ x % t \in 0..(t - 1)
         /\ x = t * (x \div t) + (x % t)
         /\ x < t => x \div t = 0
<1>1. x \div t \in Int /\ x % t \in 0..(t - 1) /\ x = t * (x \div t) + (x % t)
  OBVIOUS
<1>2. x \div t >= 0
  OBVIOUS
<1>3. ASSUME x < t PROVE x \div t = 0
  BY <1>3
<1>4. QED
  BY <1>1, <1>2, <1>3

\* A multiple of p and less than p over it.
LEMMA Division ==
  ASSUME NEW p \in Nat \ {0}, NEW k \in Nat, NEW s \in 0..(p - 1)
  PROVE  (p * k + s) \div p = k
  OBVIOUS

\* The i-th bit of n, from the most significant one.
BitOf(x, n, i) == (x \div TwoTo[n - i]) % 2

\* Two numbers agree above their last n - m bits, which is what the mask of
\* covers_reverse compares, if and only if their first m bits agree one by one.
LEMMA SamePrefix ==
  ASSUME NEW n \in Nat, NEW x \in 0..(TwoTo[n] - 1), NEW y \in 0..(TwoTo[n] - 1), NEW m \in 0..n
  PROVE  x \div TwoTo[n - m] = y \div TwoTo[n - m] <=> \A i \in 1..m : BitOf(x, n, i) = BitOf(y, n, i)
<1> DEFINE P(k) == x \div TwoTo[n - k] = y \div TwoTo[n - k] <=>
                     \A i \in 1..k : BitOf(x, n, i) = BitOf(y, n, i)
           S == {k \in Nat : k <= n => P(k)}
<1>1. 0 \in S
  <2>1. x \div TwoTo[n] = 0 /\ y \div TwoTo[n] = 0
    <3>1. TwoTo[n] \in Nat \ {0}
      BY TwoToDef
    <3>2. x \in Nat /\ y \in Nat /\ x < TwoTo[n] /\ y < TwoTo[n]
      BY <3>1
    <3>3. QED
      BY <3>1, <3>2, Quotient
  <2>2. QED
    BY <2>1
<1>2. ASSUME NEW k \in S PROVE k + 1 \in S
  <2> SUFFICES ASSUME k + 1 <= n PROVE P(k + 1)
    OBVIOUS
  <2> DEFINE t == TwoTo[n - (k + 1)]
  <2>1. n - (k + 1) \in Nat /\ (n - (k + 1)) + 1 = n - k /\ k <= n
    OBVIOUS
  <2>2. t \in Nat \ {0} /\ TwoTo[n - k] = t * 2
    BY <2>1, TwoToDef
  <2>3. P(k)
    BY <2>1
  <2>4. x \div TwoTo[n - k] = (x \div t) \div 2 /\ y \div TwoTo[n - k] = (y \div t) \div 2
    <3>1. x \in Nat /\ y \in Nat /\ 2 \in Nat \ {0}
      BY TwoToDef
    <3>2. (x \div t) \div 2 = x \div (t * 2) /\ (y \div t) \div 2 = y \div (t * 2)
      BY <2>2, <3>1, DivideTwice
    <3>3. QED
      BY <2>2, <3>2
  <2>5. BitOf(x, n, k + 1) = (x \div t) % 2 /\ BitOf(y, n, k + 1) = (y \div t) % 2
    BY DEF BitOf
  <2>6. x \div t \in Nat /\ y \div t \in Nat
    <3>1. x \in Nat /\ y \in Nat
      BY TwoToDef
    <3>2. QED
      BY <2>2, <3>1, Quotient
  <2> HIDE DEF t
  <2>7. (x \div t) = (y \div t) <=> (x \div t) \div 2 = (y \div t) \div 2 /\ (x \div t) % 2 = (y \div t) % 2
    BY <2>6
  <2>8. (\A i \in 1..(k + 1) : BitOf(x, n, i) = BitOf(y, n, i)) <=>
          (\A i \in 1..k : BitOf(x, n, i) = BitOf(y, n, i)) /\ BitOf(x, n, k + 1) = BitOf(y, n, k + 1)
    OBVIOUS
  <2>9. QED
    BY <2>3, <2>4, <2>5, <2>7, <2>8 DEF t
<1>3. S \in SUBSET Nat
  OBVIOUS
<1>4. S = Nat
  <2> HIDE DEF S
  <2>1. QED
    BY <1>1, <1>2, <1>3, SetInduction
<1>5. m \in S /\ m <= n
  <2> HIDE DEF S
  <2>1. QED
    BY <1>4
<1>6. P(m)
  BY <1>5
<1>7. QED
  BY <1>6

\* An octet added at the end goes away in a division.
LEMMA OctetAppended ==
  ASSUME NEW D \in Nat \ {0}, NEW h \in Nat, NEW x \in 0..(D - 1)
  PROVE  h * D + x \in Nat /\ (h * D + x) \div D = h
<1>1. h * D \in Nat /\ D * h = h * D
  BY Products
<1>2. (D * h + x) \div D = h
  BY Division
<1>3. QED
  BY <1>1, <1>2

\* A number divided by a product is divided by one factor and then by the other.
LEMMA Shifted ==
  ASSUME NEW x \in Nat, NEW a \in Nat \ {0}, NEW b \in Nat \ {0}
  PROVE  a * b \in Nat \ {0} /\ x \div (a * b) = (x \div a) \div b
<1>1. a * b \in Nat
  BY Products
<1>2. a * b # 0
  OBVIOUS
<1>3. QED
  BY <1>1, <1>2, DivideTwice

\* The octets of an address are octets.
LEMMA FourOctets ==
  ASSUME NEW a \in Seq(OctetValues), Len(a) = 4
  PROVE  \A k \in 1..4 : a[k] \in OctetValues
  OBVIOUS

\* The number of an address without its last octets is that of the first ones.
LEMMA AddressShifted ==
  ASSUME NEW a \in Seq(OctetValues), Len(a) = 4
  PROVE  LET D == TwoTo[OctetBits] IN
         /\ Number(a) \in Nat
         /\ Number(a) < TwoTo[4 * OctetBits]
         /\ Number(a) \div TwoTo[0] = ((a[1] * D + a[2]) * D + a[3]) * D + a[4]
         /\ Number(a) \div TwoTo[OctetBits] = (a[1] * D + a[2]) * D + a[3]
         /\ Number(a) \div TwoTo[2 * OctetBits] = a[1] * D + a[2]
         /\ Number(a) \div TwoTo[3 * OctetBits] = 0 * D + a[1]
         /\ a[1] * D + a[2] \in Nat
         /\ (a[1] * D + a[2]) * D + a[3] \in Nat
<1> DEFINE B == OctetBits
           D == TwoTo[B]
           h2 == a[1] * D + a[2]
           h3 == h2 * D + a[3]
           h4 == h3 * D + a[4]
<1>1. B \in Nat \ {0} /\ D \in Nat \ {0} /\ TwoTo[0] = 1
  BY OctetAssumption, TwoToDef
<1>2. a[1] \in 0..(D - 1) /\ a[2] \in 0..(D - 1) /\ a[3] \in 0..(D - 1) /\ a[4] \in 0..(D - 1)
  <2>1. OctetValues = 0..(D - 1)
    BY DEF OctetValues
  <2> HIDE DEF D
  <2>2. \A k \in 1..4 : a[k] \in OctetValues
    BY FourOctets
  <2>3. QED
    BY <2>1, <2>2
<1>3. TwoTo[2 * B] = D * D /\ TwoTo[3 * B] = (D * D) * D /\ TwoTo[4 * B] = ((D * D) * D) * D
  <2>1. B + B = 2 * B /\ 2 * B + B = 3 * B /\ 3 * B + B = 4 * B /\ 2 * B \in Nat /\ 3 * B \in Nat
    BY <1>1
  <2>2. TwoTo[B + B] = D * D /\ TwoTo[2 * B + B] = TwoTo[2 * B] * D /\ TwoTo[3 * B + B] = TwoTo[3 * B] * D
    BY <1>1, <2>1, TwoToSum
  <2>3. QED
    BY <2>1, <2>2
<1>4. Number(a) = h4
  BY DEF Number
<1> HIDE DEF D, h2, h3, h4
<1>5. h2 \in Nat /\ h2 \div D = a[1]
  <2>1. a[1] \in Nat
    BY <1>1, <1>2
  <2>2. QED
    BY <1>1, <1>2, <2>1, OctetAppended DEF h2
<1>6. h3 \in Nat /\ h3 \div D = h2
  BY <1>1, <1>2, <1>5, OctetAppended DEF h3
<1>7. h4 \in Nat /\ h4 \div D = h3
  BY <1>1, <1>2, <1>6, OctetAppended DEF h4
<1>8. D * D \in Nat \ {0} /\ h4 \div (D * D) = h2
  BY <1>1, <1>6, <1>7, Shifted
<1>9. (D * D) * D \in Nat \ {0} /\ h4 \div ((D * D) * D) = a[1]
  BY <1>1, <1>5, <1>7, <1>8, Shifted
<1>10. h4 < ((D * D) * D) * D
  <2> DEFINE t == (D * D) * D
  <2>1. h4 \div (t * D) = 0 /\ t * D \in Nat \ {0}
    <3> HIDE DEF t
    <3>1. a[1] \div D = 0
      <4>1. a[1] \in Nat /\ a[1] < D
        BY <1>1, <1>2
      <4>2. QED
        BY <1>1, <4>1, Quotient
    <3>2. t \in Nat \ {0} /\ h4 \div t = a[1]
      BY <1>9 DEF t
    <3>3. QED
      <4>1. t * D \in Nat \ {0} /\ h4 \div (t * D) = (h4 \div t) \div D
        BY <1>1, <1>7, <3>2, Shifted
      <4>2. QED
        BY <3>1, <3>2, <4>1
  <2> DEFINE u == t * D
  <2>2. u \in Nat \ {0} /\ h4 \div u = 0
    BY <2>1
  <2> HIDE DEF t, u
  <2>3. h4 % u \in 0..(u - 1) /\ h4 = u * 0 + (h4 % u)
    BY <1>7, <2>2, Quotient
  <2>4. h4 < u
    BY <1>7, <2>2, <2>3
  <2>5. QED
    BY <2>4 DEF t, u
<1>11. h4 \div 1 = h4
  BY <1>7
<1>12. 0 * D + a[1] = a[1]
  BY <1>1, <1>2
<1>13. QED
  BY <1>1, <1>3, <1>4, <1>5, <1>6, <1>7, <1>8, <1>9, <1>10, <1>11, <1>12 DEF D, h2, h3, h4

\* A bit of the number of an address is a bit of one of its octets.
LEMMA BitOfAddress ==
  ASSUME NEW a \in Seq(OctetValues), Len(a) = 4, NEW i \in 1..(4 * OctetBits)
  PROVE  BitOf(Number(a), 4 * OctetBits, i) = Bit(a, i)
<1> DEFINE B == OctetBits
           D == TwoTo[B]
           q == (i - 1) \div B
           r == (i - 1) % B
           p == TwoTo[B - 1 - r]
           o == a[q + 1]
<1>1. B \in Nat \ {0} /\ D \in Nat \ {0}
  BY OctetAssumption, TwoToDef
<1>2. q \in 0..3 /\ r \in 0..(B - 1) /\ i - 1 = q * B + r
  <2>1. i - 1 \in Nat /\ i - 1 < 4 * B
    BY <1>1
  <2>2. q \in Nat /\ r \in 0..(B - 1) /\ i - 1 = B * q + r
    BY <1>1, <2>1, Quotient
  <2> HIDE DEF q, r, B
  <2>3. q < 4
    <3>1. SUFFICES ASSUME q >= 4 PROVE FALSE
      BY <2>2
    <3>2. PICK d \in Nat : q = 4 + d
      BY <2>2, <3>1
    <3>3. B * q = 4 * B + B * d /\ B * d \in Nat
      BY <1>1, <3>2, Products
    <3>4. QED
      BY <1>1, <2>1, <2>2, <3>3
  <2>4. B * q = q * B
    BY <1>1, <2>2
  <2>5. QED
    BY <2>2, <2>3, <2>4
<1>3. \E high \in Nat : Number(a) \div TwoTo[(3 - q) * B] = high * D + o
  <2>1. CASE q = 0
    <3>1. (3 - q) * B = 3 * B /\ o = a[1]
      BY <2>1
    <3>2. QED
      BY <3>1, AddressShifted
  <2>2. CASE q = 1
    <3>1. (3 - q) * B = 2 * B /\ o = a[2]
      BY <2>2
    <3>2. a[1] \in Nat
      <4>1. \A k \in 1..4 : a[k] \in OctetValues
        BY FourOctets
      <4>2. QED
        BY <1>1, <4>1 DEF OctetValues
    <3>3. QED
      BY <3>1, <3>2, AddressShifted
  <2>3. CASE q = 2
    <3>1. (3 - q) * B = B /\ o = a[3]
      BY <1>1, <2>3
    <3>2. QED
      BY <3>1, AddressShifted
  <2>4. CASE q = 3
    <3>1. (3 - q) * B = 0 /\ o = a[4]
      BY <1>1, <2>4
    <3>2. QED
      BY <3>1, AddressShifted
  <2> HIDE DEF q
  <2>5. QED
    BY <1>2, <2>1, <2>2, <2>3, <2>4
<1>4. PICK high \in Nat : Number(a) \div TwoTo[(3 - q) * B] = high * D + o
  BY <1>3
<1>5. o \in 0..(D - 1) /\ o \in Nat
  <2>1. q + 1 \in 1..4
    BY <1>2
  <2>2. \A k \in 1..4 : a[k] \in OctetValues
    BY FourOctets
  <2> HIDE DEF q
  <2>3. QED
    BY <1>1, <2>1, <2>2 DEF OctetValues
<1>6. Bit(a, i) = (o \div p) % 2
  <2>1. ~ (q + 1 > Len(a))
    BY <1>2
  <2>2. QED
    BY <2>1 DEF Bit
<1>7. Number(a) \in Nat
  BY AddressShifted
<1> HIDE DEF q, r, B
<1>8. /\ (3 - q) * B \in Nat /\ B - 1 - r \in Nat /\ r + 1 \in Nat /\ r \in Nat
      /\ 4 * B - i = (3 - q) * B + (B - 1 - r)
      /\ B = (B - 1 - r) + (r + 1)
  <2>1. (3 - q) * B = 3 * B - q * B /\ q * B \in Nat
    BY <1>1, <1>2, Products
  <2>2. 3 - q \in Nat
    BY <1>2
  <2>3. (3 - q) * B \in Nat
    BY <1>1, <2>2, Products
  <2>4. 4 * B - i = 3 * B - q * B + (B - 1 - r)
    BY <1>1, <1>2, <2>1
  <2>5. QED
    BY <1>1, <1>2, <2>1, <2>3, <2>4
<1>9. /\ p \in Nat \ {0} /\ TwoTo[r] \in Nat
      /\ TwoTo[4 * B - i] = TwoTo[(3 - q) * B] * p
      /\ D = p * (2 * TwoTo[r])
  <2>1. TwoTo[(3 - q) * B + (B - 1 - r)] = TwoTo[(3 - q) * B] * p
    BY <1>8, TwoToSum
  <2>2. TwoTo[(B - 1 - r) + (r + 1)] = p * TwoTo[r + 1]
    BY <1>8, TwoToSum
  <2>3. TwoTo[r + 1] = 2 * TwoTo[r]
    BY <1>8, TwoToDef
  <2>4. p \in Nat \ {0} /\ TwoTo[r] \in Nat
    BY <1>8, TwoToDef
  <2>5. QED
    BY <1>8, <2>1, <2>2, <2>3, <2>4
<1>10. Number(a) \div TwoTo[4 * B - i] = (high * D + o) \div p
  <2>1. TwoTo[(3 - q) * B] \in Nat \ {0}
    BY <1>8, TwoToDef
  <2> DEFINE u == TwoTo[(3 - q) * B]
  <2> HIDE DEF u, p, D, o
  <2>2. Number(a) \div (u * p) = (Number(a) \div u) \div p
    BY <1>7, <1>9, <2>1, Shifted DEF u
  <2>3. QED
    BY <1>4, <1>9, <2>2 DEF u
<1> HIDE DEF D, p, o
<1>11. ((high * D + o) \div p) % 2 = (o \div p) % 2
  <2> DEFINE k == o \div p
             s == o % p
             w == high * TwoTo[r]
  <2>1. k \in Nat /\ s \in 0..(p - 1) /\ o = p * k + s
    BY <1>5, <1>9, Quotient
  <2>2. w \in Nat
    BY <1>9, Products
  <2>3. high * D = p * (2 * w)
    BY <1>5, <1>9
  <2> HIDE DEF k, s, w
  <2>4. high * D + o = p * (2 * w + k) + s
    BY <1>9, <2>1, <2>2, <2>3
  <2>5. (p * (2 * w + k) + s) \div p = 2 * w + k
    <3>1. 2 * w + k \in Nat
      BY <2>1, <2>2
    <3>2. QED
      BY <1>9, <2>1, <3>1, Division
  <2>6. (2 * w + k) % 2 = k % 2
    BY <2>1, <2>2
  <2>7. QED
    BY <2>4, <2>5, <2>6 DEF k
<1>12. QED
  BY <1>6, <1>10, <1>11 DEF BitOf, B

-----------------------------------------------------------------------------
(* The clients' network                                                    *)

\* covers_reverse reads the octets of an address back from its reverse name,
\* with zeros for those that the name of a network leaves out.
LEMMA OctetsOfPhone ==
  ASSUME NEW a \in Seq(OctetValues), Len(a) \in 1..4
  PROVE  LET name == Backwards(a)
             parts == SubSeq(name, 1, Len(name) - 2) IN
         /\ Len(name) \in 3..6
         /\ SubSeq(name, Len(name) - 1, Len(name)) = Arpa
         /\ \A i \in 1..Len(parts) : IsOctet(parts[i])
         /\ Octets(parts) = [i \in 1..4 |-> IF i <= Len(a) THEN a[i] ELSE 0]
<1> DEFINE l == Len(a)
           backwards == [i \in 1..l |-> Octet(a[l + 1 - i])]
           name == Backwards(a)
           parts == SubSeq(name, 1, Len(name) - 2)
<1>1. l \in 1..4 /\ \A k \in 1..l : a[k] \in OctetValues
  OBVIOUS
<1>2. TwoTo[OctetBits] \in Nat \ {0}
  BY OctetAssumption, TwoToDef
<1>3. /\ name = backwards \o Arpa /\ Len(Arpa) = 2
      /\ Arpa = <<Word("in-addr", 7), Word("arpa", 4)>>
  BY DEF Backwards, Arpa
<1>4. Len(backwards) = l /\ \A i \in 1..l : backwards[i] = Octet(a[l + 1 - i])
  BY <1>1
<1> DEFINE Any == {backwards[i] : i \in 1..l} \union {Word("in-addr", 7), Word("arpa", 4)}
<1>5. backwards \in Seq(Any) /\ Arpa \in Seq(Any)
  BY <1>1, <1>4 DEF Arpa
<1> HIDE DEF l, backwards, Any, name
<1>6. name \in Seq(Any) /\ Len(name) = l + 2
  BY <1>1, <1>3, <1>4, <1>5
<1>7. \A i \in 1..l : name[i] = backwards[i]
  BY <1>1, <1>3, <1>4, <1>5
<1>8. name[l + 1] = Arpa[1] /\ name[l + 2] = Arpa[2]
  <2>1. /\ Len(backwards) + Len(Arpa) = l + 2 /\ l + 1 \in 1..(l + 2) /\ l + 2 \in 1..(l + 2)
        /\ (l + 1) - Len(backwards) = 1 /\ (l + 2) - Len(backwards) = 2
        /\ ~ (l + 1 <= Len(backwards)) /\ ~ (l + 2 <= Len(backwards))
    BY <1>1, <1>3, <1>4
  <2> DEFINE rest == Arpa
  <2>2. rest \in Seq(Any) /\ name = backwards \o rest
    BY <1>3, <1>5
  <2> HIDE DEF rest
  <2>3. \A i \in 1..(Len(backwards) + Len(rest)) :
          (backwards \o rest)[i] = IF i <= Len(backwards) THEN backwards[i] ELSE rest[i - Len(backwards)]
    BY <1>5, <2>2
  <2>4. QED
    BY <2>1, <2>2, <2>3 DEF rest
<1>9. SubSeq(name, Len(name) - 1, Len(name)) = Arpa
  <2> DEFINE last == SubSeq(name, l + 1, l + 2)
  <2>1. last \in Seq(Any) /\ Len(last) = 2 /\ last[1] = name[l + 1] /\ last[2] = name[l + 2]
    BY <1>1, <1>6
  <2>2. Arpa = <<Arpa[1], Arpa[2]>>
    BY <1>3
  <2> HIDE DEF last
  <2>3. last = Arpa
    <3>1. \A s, t \in Seq(Any) : Len(s) = 2 /\ Len(t) = 2 /\ s[1] = t[1] /\ s[2] = t[2] => s = t
      OBVIOUS
    <3>2. QED
      BY <1>3, <1>5, <1>8, <2>1, <3>1
  <2>4. Len(name) - 1 = l + 1 /\ Len(name) = l + 2
    BY <1>1, <1>6
  <2>5. QED
    BY <2>3, <2>4 DEF last
<1>10. Len(parts) = l /\ \A i \in 1..l : parts[i] = Octet(a[l + 1 - i])
  <2>1. Len(name) - 2 = l
    BY <1>1, <1>6
  <2>2. SubSeq(name, 1, l) = [i \in 1..l |-> name[i]]
    BY <1>1, <1>6
  <2>3. QED
    BY <1>1, <1>4, <1>7, <2>1, <2>2
<1> HIDE DEF parts
<1>11. ASSUME NEW i \in 1..l PROVE IsOctet(parts[i])
  <2>1. l + 1 - i \in 1..l
    BY <1>1
  <2>2. parts[i] = Octet(a[l + 1 - i]) /\ a[l + 1 - i] \in OctetValues
    BY <1>1, <1>10, <2>1
  <2>3. QED
    BY <1>2, <2>2 DEF IsOctet, Octet, OctetValues
<1>12. ASSUME NEW i \in 1..4, i <= l PROVE parts[l + 1 - i].value = a[i]
  <2>1. l + 1 - i \in 1..l /\ l + 1 - (l + 1 - i) = i
    BY <1>1, <1>12
  <2>2. QED
    BY <1>10, <2>1 DEF Octet
<1>13. Octets(parts) = [i \in 1..4 |-> IF i <= l THEN a[i] ELSE 0]
  <2>1. Octets(parts) = [i \in 1..4 |-> IF i <= l THEN parts[l + 1 - i].value ELSE 0]
    BY <1>10 DEF Octets
  <2>2. QED
    BY <1>12, <2>1
<1>14. Len(name) \in 3..6
  BY <1>1, <1>6
<1>15. QED
  BY <1>9, <1>10, <1>11, <1>13, <1>14 DEF name, parts, l

\* covers_reverse says yes to the addresses whose first bits are the network's,
\* and to no other.
LEMMA CoversClients ==
  ASSUME NEW p \in Phones, config \in Configs, zone.clients = config.clients
  PROVE  CoversReverse(zone, Backwards(p)) <=> IsClient(p)
<1> DEFINE B == OctetBits
           name == Backwards(p)
           parts == SubSeq(name, 1, Len(name) - 2)
           a == [i \in 1..4 |-> IF i <= Len(p) THEN p[i] ELSE 0]
           net == config.clients.net
           bits == config.clients.bits
           rest == TwoTo[4 * B - bits]
<1>1. p \in Seq(OctetValues) /\ Len(p) \in 1..4
  BY PhonesAssumption
<1>2. net \in Seq(OctetValues) /\ Len(net) = 4 /\ bits \in 0..(4 * B) /\ B \in Nat \ {0}
  BY ConfigsAssumption, OctetAssumption DEF IsConfig
<1>3. 0 \in OctetValues
  <2>1. TwoTo[B] \in Nat \ {0}
    BY OctetAssumption, TwoToDef
  <2>2. QED
    BY <2>1 DEF OctetValues
<1>4. a \in Seq(OctetValues) /\ Len(a) = 4
  <2>1. ASSUME NEW i \in 1..4 PROVE (IF i <= Len(p) THEN p[i] ELSE 0) \in OctetValues
    BY <1>1, <1>3
  <2>2. a \in [1..4 -> OctetValues]
    BY <2>1
  <2>3. QED
    BY <2>2
<1>5. ASSUME NEW i \in 1..(4 * B) PROVE Bit(a, i) = Bit(p, i)
  <2> DEFINE q == (i - 1) \div B
             t == TwoTo[B - 1 - ((i - 1) % B)]
  <2>1. i - 1 \in Nat /\ i - 1 < 4 * B
    BY <1>2
  <2>2. q \in Nat /\ (i - 1) % B \in 0..(B - 1) /\ i - 1 = B * q + ((i - 1) % B)
    BY <1>2, <2>1, Quotient
  <2>3. B - 1 - ((i - 1) % B) \in Nat
    BY <1>2, <2>2
  <2>4. t \in Nat \ {0}
    BY <2>3, TwoToDef
  <2> HIDE DEF q, t, a
  <2>5. q < 4
    <3>1. SUFFICES ASSUME q >= 4 PROVE FALSE
      BY <2>2
    <3>2. PICK d \in Nat : q = 4 + d
      BY <2>2, <3>1
    <3>3. B * q = 4 * B + B * d /\ B * d \in Nat
      BY <1>2, <3>2, Products
    <3>4. QED
      BY <1>2, <2>1, <2>2, <3>3
  <2>6. Bit(a, i) = (a[q + 1] \div t) % 2
    BY <1>4, <2>2, <2>5 DEF Bit, q, t
  <2>7. Bit(p, i) = IF q + 1 > Len(p) THEN 0 ELSE (p[q + 1] \div t) % 2
    BY DEF Bit, q, t
  <2>8. a[q + 1] = IF q + 1 <= Len(p) THEN p[q + 1] ELSE 0
    BY <2>2, <2>5 DEF a
  <2>9. (0 \div t) % 2 = 0
    <3>1. 0 < t
      BY <2>4
    <3>2. 0 \div t = 0
      BY <2>4, <3>1, Quotient
    <3>3. QED
      BY <3>2
  <2>10. QED
    BY <1>1, <2>2, <2>6, <2>7, <2>8, <2>9
<1>6. CoversReverse(zone, name) <=> bits = 0 \/ Number(a) \div rest = Number(net) \div rest
  <2>1. /\ Len(name) \in 3..6
        /\ SubSeq(name, Len(name) - 1, Len(name)) = Arpa
        /\ \A i \in 1..Len(parts) : IsOctet(parts[i])
        /\ Octets(parts) = a
    BY <1>1, OctetsOfPhone
  <2>2. bits <= 4 * B
    BY <1>2
  <2> HIDE DEF a, name, rest
  <2>3. QED
    BY <2>1, <2>2 DEF CoversReverse, rest
<1> HIDE DEF a, name
<1>7. Number(a) \div rest = Number(net) \div rest <=> \A i \in 1..bits : Bit(p, i) = Bit(net, i)
  <2> DEFINE n == 4 * B
  <2>1. n \in Nat /\ bits \in 0..n
    BY <1>2
  <2>2. Number(a) \in 0..(TwoTo[n] - 1) /\ Number(net) \in 0..(TwoTo[n] - 1)
    <3>1. TwoTo[n] \in Nat \ {0}
      BY <2>1, TwoToDef
    <3>2. Number(a) \in Nat /\ Number(a) < TwoTo[n] /\ Number(net) \in Nat /\ Number(net) < TwoTo[n]
      BY <1>2, <1>4, AddressShifted
    <3>3. QED
      BY <3>1, <3>2
  <2>3. \A i \in 1..n : BitOf(Number(a), n, i) = Bit(p, i) /\ BitOf(Number(net), n, i) = Bit(net, i)
    BY <1>2, <1>4, <1>5, BitOfAddress
  <2> HIDE DEF n, net
  <2>4. Number(a) \div TwoTo[n - bits] = Number(net) \div TwoTo[n - bits] <=>
          \A i \in 1..bits : BitOf(Number(a), n, i) = BitOf(Number(net), n, i)
    BY <2>1, <2>2, SamePrefix
  <2>5. \A i \in 1..bits : i \in 1..n
    BY <2>1
  <2>6. QED
    BY <2>3, <2>4, <2>5 DEF n
<1>8. bits = 0 => \A i \in 1..bits : Bit(p, i) = Bit(net, i)
  OBVIOUS
<1>9. QED
  BY <1>6, <1>7, <1>8 DEF IsClient, name

-----------------------------------------------------------------------------
(* Names                                                                   *)

\* The provers do not know that these are members of STRING.
Texts == STRING \union {"_dns-sd", "_udp", "_altserver", "_tcp", "in-addr", "arpa", "lb", "octet"}

Small == [text : Texts, upper : {FALSE}, len : Nat, value : Nat]

\* A name in small letters is read as it was asked, in capitals or not, and
\* written as it is when its labels are of 1 to 63 bytes.
LEMMA SmallNames ==
  ASSUME NEW name \in Seq(Small)
  PROVE  /\ Lower(name) = name
         /\ Lower(Upper(name)) = name
         /\ IsCarried(name) => Written(name) = name
<1>1. \A i \in 1..Len(name) : name[i] \in Small
  OBVIOUS
<1>2. \A label \in Small : [label EXCEPT !.upper = FALSE] = label
  BY DEF Small
<1>3. ASSUME NEW label \in Small, label.len \in 1..MaxLabel PROVE Cut(label, MaxLabel) = label
  <2>1. ~ (label.len > MaxLabel)
    <3> DEFINE len == label.len
    <3>1. len \in 1..63
      BY <1>3 DEF MaxLabel
    <3> HIDE DEF len
    <3>2. ~ (len > 63)
      BY <3>1
    <3>3. QED
      BY <3>2 DEF len, MaxLabel
  <2>2. [label EXCEPT !.len = label.len] = label
    BY DEF Small
  <2>3. QED
    BY <2>1, <2>2 DEF Cut
<1>4. \A label \in Small : [[label EXCEPT !.upper = @ \/ label.text # "octet"] EXCEPT !.upper = FALSE] = label
  BY DEF Small
<1>5. Len(Upper(name)) = Len(name)
  BY DEF Upper
<1>6. name = [i \in 1..Len(name) |-> name[i]]
  OBVIOUS
<1>7. Lower(name) = name
  BY <1>1, <1>2, <1>6 DEF Lower
<1>8. ASSUME IsCarried(name) PROVE Written(name) = name
  <2>1. \A i \in 1..Len(name) : name[i].len \in 1..MaxLabel
    BY <1>8 DEF IsCarried
  <2>2. ~ (\E i \in 1..Len(name) : name[i].len = 0)
    <3>1. 0 \notin 1..MaxLabel
      BY DEF MaxLabel
    <3>2. QED
      BY <2>1, <3>1
  <2>3. Shortened(name) = name
    BY <1>1, <1>3, <1>6, <2>1 DEF Shortened
  <2>4. QED
    BY <2>2, <2>3 DEF Written
<1>9. Lower(Upper(name)) = name
  <2>1. Lower(Upper(name)) = [i \in 1..Len(name) |-> [Upper(name)[i] EXCEPT !.upper = FALSE]]
    BY <1>5 DEF Lower
  <2>2. \A i \in 1..Len(name) : [Upper(name)[i] EXCEPT !.upper = FALSE] = name[i]
    BY <1>1, <1>4 DEF Upper
  <2>3. QED
    BY <1>6, <2>1, <2>2
<1>10. QED
  BY <1>7, <1>8, <1>9

\* A configured name becomes such a name.
LEMMA LowerIsSmall ==
  ASSUME NEW name \in Seq(Labels)
  PROVE  Lower(name) \in Seq(Small) /\ Len(Lower(name)) = Len(name)
<1>1. \A i \in 1..Len(name) : name[i] \in Labels
  OBVIOUS
<1>2. \A label \in Labels : [label EXCEPT !.upper = FALSE] \in Small
  BY DEF Labels, Small, Texts
<1>3. QED
  BY <1>1, <1>2 DEF Lower

\* So is every name that is fixed.
LEMMA WordsAreSmall ==
  /\ Browsing \in Seq(Small) /\ Service \in Seq(Small) /\ Arpa \in Seq(Small)
  /\ Word("lb", 2) \in Small
  /\ Len(Browsing) = 2 /\ Len(Service) = 2 /\ Len(Arpa) = 2
<1>1. \A text \in Texts, len \in Nat : Word(text, len) \in Small
  BY DEF Word, Small
<1>2. /\ Word("_dns-sd", 7) \in Small /\ Word("_udp", 4) \in Small
      /\ Word("_altserver", 10) \in Small /\ Word("_tcp", 4) \in Small
      /\ Word("in-addr", 7) \in Small /\ Word("arpa", 4) \in Small /\ Word("lb", 2) \in Small
  <2> HIDE DEF Small
  <2>1. QED
    BY <1>1 DEF Texts
<1>3. \A s, t \in Small : <<s, t>> \in Seq(Small) /\ Len(<<s, t>>) = 2
  OBVIOUS
<1>4. QED
  BY <1>2, <1>3 DEF Browsing, Service, Arpa

\* Two names joined are a name.
LEMMA Joined ==
  ASSUME NEW s \in Seq(Small), NEW t \in Seq(Small)
  PROVE  /\ s \o t \in Seq(Small)
         /\ Len(s \o t) = Len(s) + Len(t)
         /\ Len(s) >= 1 => (s \o t)[1] = s[1]
<1>1. s \o t \in Seq(Small) /\ Len(s \o t) = Len(s) + Len(t)
  OBVIOUS
<1>2. ASSUME Len(s) >= 1 PROVE (s \o t)[1] = s[1]
  <2>1. 1 \in 1..(Len(s) + Len(t)) /\ 1 <= Len(s)
    BY <1>2
  <2>2. \A i \in 1..(Len(s) + Len(t)) : (s \o t)[i] = IF i <= Len(s) THEN s[i] ELSE t[i - Len(s)]
    OBVIOUS
  <2>3. QED
    BY <2>1, <2>2
<1>3. QED
  BY <1>1, <1>2

\* An address backwards is a name.
LEMMA BackwardsIsSmall ==
  ASSUME NEW p \in Phones
  PROVE  Backwards(p) \in Seq(Small)
<1>1. p \in Seq(OctetValues) /\ \A i \in 1..Len(p) : p[i] \in OctetValues
  BY PhonesAssumption
<1>2. OctetValues \subseteq Nat
  <2>1. TwoTo[OctetBits] \in Nat \ {0}
    BY OctetAssumption, TwoToDef
  <2>2. QED
    BY <2>1 DEF OctetValues
<1>3. \A n \in OctetValues : Octet(n) \in Small
  <2> SUFFICES ASSUME NEW n \in OctetValues PROVE Octet(n) \in Small
    OBVIOUS
  <2>1. n \in Nat /\ 3 \in Nat
    BY <1>2
  <2>2. "octet" \in Texts
    BY DEF Texts
  <2>3. QED
    BY <2>1, <2>2 DEF Octet, Small
<1>4. [i \in 1..Len(p) |-> Octet(p[Len(p) + 1 - i])] \in Seq(Small)
  <2>1. \A i \in 1..Len(p) : Len(p) + 1 - i \in 1..Len(p)
    BY <1>1
  <2>2. \A i \in 1..Len(p) : Octet(p[Len(p) + 1 - i]) \in Small
    BY <1>1, <1>3, <2>1
  <2>3. QED
    BY <1>1, <2>2
<1>5. QED
  BY <1>4, WordsAreSmall DEF Backwards

\* The names of the zone, from what is configured.
DomainName == Lower(config.domain)
BrowseName == Service \o DomainName
InstanceName == Lower(<<config.instance>>) \o Service \o DomainName
HostName == Lower(<<[config.id EXCEPT !.len = HostLen]>>) \o DomainName

\* The names of the zone do not depend on where the server was started.
LEMMA ZoneNames ==
  ASSUME NEW e \in Endpoints, zone = ZoneOf(config, e)
  PROVE  /\ zone.domain = DomainName
         /\ zone.browse = BrowseName
         /\ zone.instance = InstanceName
         /\ zone.host = HostName
         /\ zone.clients = config.clients
         /\ zone.id = config.id
  BY DEF ZoneOf, DomainName, BrowseName, InstanceName, HostName

\* They are told apart by their lengths, and begin with no label that asks for
\* the domain.
LEMMA NamesAreSmall ==
  ASSUME config \in Configs
  PROVE  /\ DomainName \in Seq(Small) /\ BrowseName \in Seq(Small)
         /\ InstanceName \in Seq(Small) /\ HostName \in Seq(Small)
         /\ Len(BrowseName) = Len(DomainName) + 2
         /\ Len(HostName) = Len(DomainName) + 1
         /\ Len(InstanceName) > Len(DomainName) + 2
         /\ Len(DomainName) >= 1
         /\ BrowseName[1] \notin Explored
         /\ InstanceName[1] \notin Explored
         /\ HostName[1] \notin Explored
<1> DEFINE domain == DomainName
           instance == Lower(<<config.instance>>)
           host == [config.id EXCEPT !.len = HostLen]
<1>1. /\ config.domain \in Seq(Labels) \ {<<>>} /\ config.instance \in Labels
      /\ config.id \in Labels /\ config.instance.len > 10
  BY ConfigsAssumption DEF IsConfig, InstanceLen
<1>2. domain \in Seq(Small) /\ Len(domain) >= 1 /\ instance \in Seq(Small) /\ Len(instance) = 1
  <2>1. config.domain \in Seq(Labels) /\ Len(config.domain) >= 1
    BY <1>1
  <2>2. domain \in Seq(Small) /\ Len(domain) = Len(config.domain)
    BY <2>1, LowerIsSmall DEF DomainName
  <2> DEFINE name == <<config.instance>>
  <2>3. name \in Seq(Labels) /\ Len(name) = 1
    BY <1>1
  <2> HIDE DEF name
  <2>4. Lower(name) \in Seq(Small) /\ Len(Lower(name)) = 1
    BY <2>3, LowerIsSmall
  <2>5. QED
    BY <2>1, <2>2, <2>4 DEF name
<1>3. Len(instance) >= 1 /\ instance[1] \notin Explored
  <2>1. instance[1].len = config.instance.len
    BY <1>1 DEF Lower, Labels
  <2>2. \A label \in Explored : label.len \in 1..2
    BY DEF Explored, Word
  <2> HIDE DEF instance
  <2> DEFINE len == config.instance.len
  <2>3. len \in Nat /\ len > 10
    BY <1>1 DEF Labels
  <2> HIDE DEF len
  <2>4. len \notin 1..2
    BY <2>3
  <2>5. QED
    BY <1>2, <2>1, <2>2, <2>4 DEF len
<1>4. host \in Labels /\ host.len = 18
  BY <1>1 DEF Labels, HostLen
<1>5. \A label \in Explored : label.len \in 1..2
  BY DEF Explored, Word
<1>6. Service[1] \notin Explored
  <2>1. Service[1].len = 10
    BY DEF Service, Word
  <2>2. QED
    BY <1>5, <2>1
<1> DEFINE name == Lower(<<host>>)
<1>7. name \in Seq(Small) /\ Len(name) = 1 /\ name[1] \notin Explored
  <2> HIDE DEF host
  <2>1. <<host>> \in Seq(Labels) /\ Len(<<host>>) = 1
    BY <1>4
  <2>2. name \in Seq(Small) /\ Len(name) = 1
    BY <2>1, LowerIsSmall
  <2>3. name[1].len = 18
    BY <1>4 DEF Lower, Labels
  <2>4. QED
    BY <1>5, <2>2, <2>3
<1> DEFINE first == Service
<1>8. first \in Seq(Small) /\ Len(first) = 2 /\ first[1] \notin Explored
  BY <1>6, WordsAreSmall
<1>9. BrowseName = first \o domain /\ InstanceName = (instance \o first) \o domain /\ HostName = name \o domain
  BY DEF BrowseName, InstanceName, HostName
<1> HIDE DEF domain, instance, name, first
<1>10. Len(domain) \in Nat /\ Len(first) \in Nat /\ Len(name) \in Nat /\ Len(instance) \in Nat
  BY <1>2, <1>7, <1>8
<1>11. first \o domain \in Seq(Small) /\ Len(first \o domain) = Len(domain) + 2 /\ (first \o domain)[1] = first[1]
  <2>1. Len(first) >= 1
    BY <1>8
  <2>2. first \in Seq(Small) /\ domain \in Seq(Small)
    BY <1>2, <1>8
  <2>3. first \o domain \in Seq(Small) /\ Len(first \o domain) = Len(first) + Len(domain)
    BY <2>2, Joined
  <2>4. Len(first) >= 1 => (first \o domain)[1] = first[1]
    BY <2>2, Joined
  <2> DEFINE all == first \o domain
  <2> HIDE DEF all
  <2>5. QED
    BY <1>8, <1>10, <2>1, <2>3, <2>4 DEF all
<1>12. name \o domain \in Seq(Small) /\ Len(name \o domain) = Len(domain) + 1 /\ (name \o domain)[1] = name[1]
  <2>1. name \in Seq(Small) /\ domain \in Seq(Small) /\ Len(name) >= 1
    BY <1>2, <1>7
  <2>2. name \o domain \in Seq(Small) /\ Len(name \o domain) = Len(name) + Len(domain)
    BY <2>1, Joined
  <2>3. (name \o domain)[1] = name[1]
    BY <2>1, Joined
  <2>4. QED
    BY <1>7, <1>10, <2>2, <2>3
<1>13. /\ instance \o first \in Seq(Small) /\ Len(instance \o first) >= 3
       /\ (instance \o first)[1] = instance[1]
  <2>1. first \in Seq(Small) /\ instance \in Seq(Small)
    BY <1>2, <1>8
  <2>2. instance \o first \in Seq(Small) /\ Len(instance \o first) = Len(instance) + Len(first)
    BY <2>1, Joined
  <2>3. (instance \o first)[1] = instance[1]
    BY <1>3, <2>1, Joined
  <2>4. QED
    BY <1>3, <1>8, <1>10, <2>2, <2>3
<1> DEFINE both == instance \o first
<1>14. both \in Seq(Small) /\ Len(both) >= 3 /\ both[1] = instance[1]
  BY <1>13
<1> HIDE DEF both
<1>15. both \o domain \in Seq(Small) /\ Len(both \o domain) >= Len(domain) + 3 /\ (both \o domain)[1] = both[1]
  BY <1>2, <1>14, Joined
<1>16. Len(domain) \in Nat /\ Len(both \o domain) \in Nat
  BY <1>2, <1>15
<1>17. QED
  BY <1>2, <1>3, <1>7, <1>8, <1>9, <1>11, <1>12, <1>14, <1>15, <1>16 DEF domain, both

-----------------------------------------------------------------------------
(* What the names stand for                                                *)

\* The labels of two names joined.
LEMMA Concatenated ==
  ASSUME NEW s \in Seq(Small), NEW t \in Seq(Small)
  PROVE  \A i \in 1..(Len(s) + Len(t)) : (s \o t)[i] = IF i <= Len(s) THEN s[i] ELSE t[i - Len(s)]
  OBVIOUS

\* The labels before and after the third of a name.
LEMMA SplitAfterThree ==
  ASSUME NEW s \in Seq(Small), Len(s) = 3, NEW t \in Seq(Small), Len(t) >= 1
  PROVE  /\ s \o t \in Seq(Small) /\ Len(s \o t) > 3
         /\ (s \o t)[1] = s[1]
         /\ SubSeq(s \o t, 2, 3) = <<s[2], s[3]>>
         /\ SubSeq(s \o t, 4, Len(s \o t)) = t
<1> DEFINE l == Len(t)
           u == s \o t
<1>1. u \in Seq(Small) /\ Len(u) = l + 3 /\ l \in Nat /\ l >= 1
  <2>1. s \o t \in Seq(Small) /\ Len(s \o t) = Len(s) + Len(t)
    BY Joined
  <2>2. Len(t) \in Nat
    OBVIOUS
  <2>3. Len(s) + Len(t) = Len(t) + 3
    BY <2>2
  <2>4. QED
    BY <2>1, <2>2, <2>3
<1>2. \A i \in 1..(l + 3) : u[i] = IF i <= 3 THEN s[i] ELSE t[i - 3]
  <2>1. \A i \in 1..(Len(s) + Len(t)) : (s \o t)[i] = IF i <= Len(s) THEN s[i] ELSE t[i - Len(s)]
    BY Concatenated
  <2>2. Len(s) + Len(t) = l + 3
    BY <1>1
  <2>3. QED
    BY <2>1, <2>2
<1> HIDE DEF u, l
<1>3. u[1] = s[1] /\ u[2] = s[2] /\ u[3] = s[3] /\ \A i \in 1..l : u[i + 3] = t[i]
  <2>1. 1 \in 1..(l + 3) /\ 2 \in 1..(l + 3) /\ 3 \in 1..(l + 3)
    BY <1>1
  <2>2. u[1] = s[1] /\ u[2] = s[2] /\ u[3] = s[3]
    BY <1>2, <2>1
  <2>3. ASSUME NEW i \in 1..l PROVE u[i + 3] = t[i]
    <3>1. i + 3 \in 1..(l + 3) /\ ~ (i + 3 <= 3) /\ (i + 3) - 3 = i
      BY <1>1
    <3>2. QED
      BY <1>2, <3>1
  <2>4. QED
    BY <2>2, <2>3
<1>4. SubSeq(u, 2, 3) = <<s[2], s[3]>>
  <2>1. SubSeq(u, 2, 3) = [i \in 1..2 |-> u[i + 1]]
    BY <1>1
  <2> DEFINE v == SubSeq(u, 2, 3)
  <2>2. v \in Seq(Small) /\ Len(v) = 2
    BY <1>1
  <2>3. v[1] = u[2] /\ v[2] = u[3]
    BY <2>1
  <2> HIDE DEF v
  <2>4. v = <<v[1], v[2]>>
    BY <2>2
  <2>5. QED
    BY <1>3, <2>3, <2>4 DEF v
<1>5. SubSeq(u, 4, l + 3) = t
  <2>1. SubSeq(u, 4, l + 3) = [i \in 1..l |-> u[i + 3]]
    BY <1>1
  <2>2. t = [i \in 1..l |-> t[i]]
    BY DEF l
  <2>3. QED
    BY <1>3, <2>1, <2>2
<1>6. QED
  BY <1>1, <1>3, <1>4, <1>5 DEF u

\* A question for the domain, of an address or of the domain itself.
LEMMA NameOfDomain ==
  ASSUME NEW rest \in Seq(Small), Len(rest) >= 1
  PROVE  LET name == Explores(rest) IN
         /\ name \in Seq(Small) /\ Len(name) > 3
         /\ name[1] \in Explored
         /\ SubSeq(name, 2, 3) = Browsing
         /\ SubSeq(name, 4, Len(name)) = rest
<1> DEFINE first == <<Word("lb", 2)>> \o Browsing
<1>1. first \in Seq(Small) /\ Len(first) = 3
  <2>1. <<Word("lb", 2)>> \in Seq(Small) /\ Len(<<Word("lb", 2)>>) = 1
    BY WordsAreSmall
  <2> DEFINE lb == <<Word("lb", 2)>>
  <2>2. lb \in Seq(Small) /\ Len(lb) = 1 /\ Browsing \in Seq(Small) /\ Len(Browsing) = 2
    BY <2>1, WordsAreSmall
  <2> HIDE DEF lb
  <2>3. lb \o Browsing \in Seq(Small) /\ Len(lb \o Browsing) = Len(lb) + Len(Browsing)
    BY <2>2, Joined
  <2>4. QED
    BY <2>2, <2>3 DEF lb
<1>2. first[1] = Word("lb", 2) /\ <<first[2], first[3]>> = Browsing
  BY DEF Browsing
<1>3. Explores(rest) = first \o rest
  BY DEF Explores
<1> HIDE DEF first
<1>4. /\ first \o rest \in Seq(Small) /\ Len(first \o rest) > 3
      /\ (first \o rest)[1] = first[1]
      /\ SubSeq(first \o rest, 2, 3) = <<first[2], first[3]>>
      /\ SubSeq(first \o rest, 4, Len(first \o rest)) = rest
  BY <1>1, SplitAfterThree
<1>5. Word("lb", 2) \in Explored
  BY DEF Explored
<1>6. QED
  BY <1>2, <1>3, <1>4, <1>5

\* The state of the server and the phone that nothing but a restart changes.
Known ==
  /\ config \in Configs /\ phone \in Phones \union {Searching}
  /\ \E e \in Endpoints : zone = ZoneOf(config, e)

\* What a phone asks the domain of.
Rest == IF phone = Searching THEN DomainName ELSE Backwards(phone)

\* The name a phone begins with.
LEMMA NameOfPhone ==
  ASSUME Known
  PROVE  /\ Start = Explores(Rest)
         /\ Start \in Seq(Small) /\ Len(Start) > 3
         /\ Start[1] \in Explored
         /\ SubSeq(Start, 2, 3) = Browsing
         /\ SubSeq(Start, 4, Len(Start)) = Rest
<1>1. Start = Explores(Rest)
  BY DEF Start, ReverseName, Rest, DomainName
<1>2. Rest \in Seq(Small) /\ Len(Rest) >= 1
  <2>1. CASE phone = Searching
    BY <2>1, NamesAreSmall DEF Rest, Known
  <2>2. CASE phone \in Phones /\ phone # Searching
    <3>1. Len(Backwards(phone)) \in 3..6
      BY <2>2, PhonesAssumption, OctetsOfPhone
    <3>2. Backwards(phone) \in Seq(Small)
      BY <2>2, BackwardsIsSmall
    <3> DEFINE rest == Backwards(phone)
               len == Len(rest)
    <3> HIDE DEF rest, len
    <3>3. Rest = rest
      BY <2>2 DEF Rest, rest
    <3>4. len \in 3..6
      BY <3>1 DEF rest, len
    <3>5. len >= 1
      BY <3>4
    <3>6. QED
      BY <3>2, <3>3, <3>5 DEF rest, len
  <2>3. QED
    BY <2>1, <2>2 DEF Known
<1> HIDE DEF Rest
<1>3. QED
  BY <1>1, <1>2, NameOfDomain

\* Whom the server leads to itself, and those whose address is the domain.
Answered == IsServed \/ Lower(config.domain) = Backwards(phone)

\* That name is answered to them and to no other.
LEMMA ClientsAreAnswered ==
  ASSUME Known
  PROVE  /\ AsksForDomain(zone, Start) <=> Answered
         /\ Start \notin {BrowseName, InstanceName, HostName}
<1> USE DEF Known
<1>1. zone.domain = DomainName /\ zone.clients = config.clients
  BY ZoneNames
<1>2. AsksForDomain(zone, Start) <=> Rest = DomainName \/ CoversReverse(zone, Rest)
  BY <1>1, NameOfPhone DEF AsksForDomain
<1>3. AsksForDomain(zone, Start) <=> Answered
  <2>1. CASE phone = Searching
    BY <1>2, <2>1 DEF Answered, IsServed, Rest
  <2>2. CASE phone \in Phones /\ phone # Searching
    <3>1. CoversReverse(zone, Backwards(phone)) <=> IsClient(phone)
      BY <1>1, <2>2, CoversClients
    <3>2. Rest = Backwards(phone)
      BY <2>2 DEF Rest
    <3>3. QED
      BY <1>2, <2>2, <3>1, <3>2 DEF Answered, IsServed, DomainName
  <2>3. QED
    BY <2>1, <2>2
<1>4. Start[1] \in Explored
  BY NameOfPhone
<1>5. QED
  BY <1>3, <1>4, NamesAreSmall

\* What is published under each name that is asked for.
LEMMA RecordsOfNames ==
  ASSUME Known
  PROVE  /\ Records(zone, Start) = IF Answered THEN {Pointer(Start, DomainName)} ELSE {}
         /\ Records(zone, BrowseName) = {Pointer(BrowseName, InstanceName)}
         /\ Records(zone, InstanceName) =
              {[Record(InstanceName, "SRV") EXCEPT !.port = zone.port, !.target = HostName],
               [Record(InstanceName, "TXT") EXCEPT !.text = <<zone.id>>]}
         /\ Records(zone, HostName) = {[Record(HostName, "A") EXCEPT !.address = zone.address]}
<1>1. /\ zone.domain = DomainName /\ zone.browse = BrowseName
      /\ zone.instance = InstanceName /\ zone.host = HostName
  BY ZoneNames DEF Known
<1>2. /\ BrowseName[1] \notin Explored /\ InstanceName[1] \notin Explored /\ HostName[1] \notin Explored
      /\ BrowseName # InstanceName /\ InstanceName # HostName /\ BrowseName # HostName
  <2>1. Len(DomainName) \in Nat
    BY NamesAreSmall DEF Known
  <2>2. Len(BrowseName) # Len(InstanceName) /\ Len(InstanceName) # Len(HostName) /\ Len(BrowseName) # Len(HostName)
    BY <2>1, NamesAreSmall DEF Known
  <2>3. QED
    BY <2>2, NamesAreSmall DEF Known
<1>3. /\ ~AsksForDomain(zone, BrowseName) /\ ~AsksForDomain(zone, InstanceName)
      /\ ~AsksForDomain(zone, HostName)
  BY <1>2 DEF AsksForDomain
<1>4. Records(zone, BrowseName) = {Pointer(BrowseName, InstanceName)}
  BY <1>1, <1>2, <1>3 DEF Records
<1>5. Records(zone, InstanceName) =
        {[Record(InstanceName, "SRV") EXCEPT !.port = zone.port, !.target = HostName],
         [Record(InstanceName, "TXT") EXCEPT !.text = <<zone.id>>]}
  BY <1>1, <1>2, <1>3 DEF Records
<1>6. Records(zone, HostName) = {[Record(HostName, "A") EXCEPT !.address = zone.address]}
  BY <1>1, <1>2, <1>3 DEF Records
<1>7. Records(zone, Start) = IF Answered THEN {Pointer(Start, DomainName)} ELSE {}
  BY <1>1, ClientsAreAnswered DEF Records
<1>8. QED
  BY <1>4, <1>5, <1>6, <1>7

-----------------------------------------------------------------------------
(* The replies                                                             *)

\* Of a zone that DNS can carry, what is carried.
LEMMA WhatIsPublishable ==
  ASSUME Known, config \in Publishable, NEW name \in {Start, BrowseName, InstanceName, HostName}
  PROVE  /\ IsCarried(name) /\ IsCarried(DomainName) /\ Len(name) <= MaxLabels
         /\ MessageSize(name, {}) <= MaxReply
         /\ \A r \in Records(zone, name) : MessageSize(name, {r}) <= MaxReply
         /\ zone.id = config.id /\ config.id.len <= MaxText
<1>1. PICK e \in Endpoints : zone = ZoneOf(config, e)
  BY DEF Known
<1>2. /\ zone.domain = DomainName /\ zone.browse = BrowseName /\ zone.instance = InstanceName
      /\ zone.host = HostName /\ zone.id = config.id
  BY <1>1, ZoneNames
<1> DEFINE Names == {Explores(DomainName), BrowseName, InstanceName, HostName} \union
                    {ReverseName(p) : p \in Phones}
<1>3. /\ config.id.len <= MaxText
      /\ \A n \in Names :
           /\ IsCarried(n) /\ Len(n) <= MaxLabels
           /\ \A records \in {{}} \union {{r} : r \in Records(zone, n)} :
                MessageSize(n, records) <= MaxReply
  BY <1>1, <1>2 DEF Publishable
<1>4. Start \in Names /\ name \in Names
  BY DEF Start, Known, DomainName
<1>5. BrowseName \in Names
  OBVIOUS
<1> HIDE DEF Names
<1>6. IsCarried(DomainName)
  <2>1. IsCarried(BrowseName)
    BY <1>3, <1>5
  <2>2. DomainName \in Seq(Small) /\ Service \in Seq(Small) /\ Len(Service) = 2
    BY NamesAreSmall, WordsAreSmall DEF Known
  <2>3. \A i \in 1..(Len(Service) + Len(DomainName)) :
          BrowseName[i] = IF i <= Len(Service) THEN Service[i] ELSE DomainName[i - Len(Service)]
    BY <2>2, Concatenated DEF BrowseName
  <2>4. Len(DomainName) \in Nat /\ Len(BrowseName) = Len(DomainName) + 2
    BY <2>2, NamesAreSmall DEF Known
  <2>5. ASSUME NEW i \in 1..Len(DomainName) PROVE DomainName[i].len \in 1..MaxLabel
    <3>1. i + 2 \in 1..Len(BrowseName) /\ ~(i + 2 <= 2) /\ (i + 2) - 2 = i
      BY <2>4
    <3>2. BrowseName[i + 2] = DomainName[i]
      BY <2>2, <2>3, <2>4, <3>1
    <3>3. QED
      BY <2>1, <3>1, <3>2 DEF IsCarried
  <2>6. QED
    BY <2>5 DEF IsCarried
<1>7. QED
  BY <1>2, <1>3, <1>4, <1>6

\* A record of such names is written as it is.
LEMMA RecordAsIs ==
  ASSUME NEW name, Written(name) = name, NEW target, Written(target) = target,
         NEW text, [i \in 1..Len(text) |-> Cut(text[i], MaxText)] = text,
         NEW type, NEW port, NEW address,
         NEW r, r = [name |-> name, type |-> type, target |-> target, port |-> port,
                     text |-> text, address |-> address]
  PROVE  WrittenRecord(r) = r
<1>1. r.name = name /\ r.target = target /\ r.text = text
  OBVIOUS
<1>2. [i \in 1..Len(r.text) |-> Cut(r.text[i], MaxText)] = r.text
  BY <1>1
<1>3. Written(r.name) = r.name /\ Written(r.target) = r.target
  BY <1>1
<1>4. WrittenRecord(r) = [r EXCEPT !.name = Written(r.name), !.target = Written(r.target),
                                   !.text = [i \in 1..Len(r.text) |-> Cut(r.text[i], MaxText)]]
  BY DEF WrittenRecord
<1>5. WrittenRecord(r) = [r EXCEPT !.name = r.name, !.target = r.target, !.text = r.text]
  BY <1>2, <1>3, <1>4
<1>6. [r EXCEPT !.name = r.name, !.target = r.target, !.text = r.text] = r
  OBVIOUS
<1>7. QED
  BY <1>5, <1>6

\* So are the records of a zone that DNS can carry.
LEMMA WrittenAnswer ==
  ASSUME Known, config \in Publishable, NEW name \in {Start, BrowseName, InstanceName, HostName},
         NEW r \in Records(zone, name)
  PROVE  WrittenRecord(r) = r
<1>1. \A n \in {Start, BrowseName, InstanceName, HostName, DomainName, <<>>} : Written(n) = n
  <2>1. /\ Start \in Seq(Small) /\ BrowseName \in Seq(Small) /\ DomainName \in Seq(Small)
        /\ InstanceName \in Seq(Small) /\ HostName \in Seq(Small) /\ <<>> \in Seq(Small)
    BY NameOfPhone, NamesAreSmall DEF Known
  <2>2. /\ IsCarried(Start) /\ IsCarried(BrowseName) /\ IsCarried(DomainName)
        /\ IsCarried(InstanceName) /\ IsCarried(HostName)
    BY WhatIsPublishable
  <2>3. IsCarried(<<>>)
    BY DEF IsCarried
  <2>4. QED
    BY <2>1, <2>2, <2>3, SmallNames
<1>2. \A text \in {<<>>, <<zone.id>>} : [i \in 1..Len(text) |-> Cut(text[i], MaxText)] = text
  <2>1. zone.id \in Labels /\ zone.id.len <= MaxText
    BY WhatIsPublishable, ConfigsAssumption DEF Known, IsConfig
  <2>2. Cut(zone.id, MaxText) = zone.id
    <3> DEFINE id == zone.id
               len == id.len
    <3>1. len \in Nat /\ len <= 246
      BY <2>1 DEF Labels, MaxText
    <3> HIDE DEF len
    <3>2. ~ (len > 246)
      BY <3>1
    <3>3. [id EXCEPT !.len = id.len] = id
      BY <2>1 DEF Labels
    <3>4. QED
      BY <3>2, <3>3 DEF Cut, len, MaxText
  <2> DEFINE id == zone.id
  <2>3. Cut(id, MaxText) = id
    BY <2>2
  <2> HIDE DEF id
  <2>4. [i \in 1..Len(<<id>>) |-> Cut(<<id>>[i], MaxText)] = <<id>>
    BY <2>3
  <2>5. [i \in 1..Len(<<>>) |-> Cut(<<>>[i], MaxText)] = <<>>
    OBVIOUS
  <2>6. QED
    BY <2>4, <2>5 DEF id
<1>3. \E target \in {DomainName, InstanceName, HostName, <<>>}, text \in {<<>>, <<zone.id>>} :
        \E type, port, address :
          r = [name |-> name, type |-> type, target |-> target, port |-> port,
               text |-> text, address |-> address]
  <2>1. CASE name = Start
    <3>1. r = Pointer(Start, DomainName)
      BY <2>1, RecordsOfNames
    <3>2. QED
      BY <2>1, <3>1 DEF Pointer, Record
  <2>2. CASE name = BrowseName
    <3>1. r = Pointer(BrowseName, InstanceName)
      BY <2>2, RecordsOfNames
    <3>2. QED
      BY <2>2, <3>1 DEF Pointer, Record
  <2>3. CASE name = InstanceName
    <3>1. CASE r = [Record(InstanceName, "SRV") EXCEPT !.port = zone.port, !.target = HostName]
      BY <2>3, <3>1 DEF Record
    <3>2. CASE r = [Record(InstanceName, "TXT") EXCEPT !.text = <<zone.id>>]
      BY <2>3, <3>2 DEF Record
    <3>3. QED
      BY <2>3, <3>1, <3>2, RecordsOfNames
  <2>4. CASE name = HostName
    <3>1. r = [Record(HostName, "A") EXCEPT !.address = zone.address]
      BY <2>4, RecordsOfNames
    <3>2. QED
      BY <2>4, <3>1 DEF Record
  <2>5. QED
    BY <2>1, <2>2, <2>3, <2>4
<1>4. PICK target \in {DomainName, InstanceName, HostName, <<>>}, text \in {<<>>, <<zone.id>>} :
        \E type, port, address :
          r = [name |-> name, type |-> type, target |-> target, port |-> port,
               text |-> text, address |-> address]
  BY <1>3
<1>5. PICK type, port, address :
        r = [name |-> name, type |-> type, target |-> target, port |-> port,
             text |-> text, address |-> address]
  BY <1>4
<1>6. Written(name) = name /\ Written(target) = target
  BY <1>1
<1>7. [i \in 1..Len(text) |-> Cut(text[i], MaxText)] = text
  BY <1>2
<1>8. QED
  BY <1>5, <1>6, <1>7, RecordAsIs

\* handle sends what build_reply made, or that without the records, in a datagram.
LEMMA Handled ==
  ASSUME NEW q, NEW r \in Handle(zone, q)
  PROVE  LET name == ReadName(q.name)
             answer == Answer(zone, name, q.type) IN
         /\ r.id = q /\ r.name = Written(name)
         /\ Size(r) <= MaxReply
         /\ IsOurs(zone, name) => r.rcode = "ok"
         /\ \/ r.records = {WrittenRecord(x) : x \in answer}
            \/ /\ r.records = {} /\ r.truncated
               /\ ~(MessageSize(Written(name), {WrittenRecord(x) : x \in answer}) <= MaxReply)
<1> DEFINE name == ReadName(q.name)
           records == {WrittenRecord(x) : x \in Answer(zone, name, q.type)}
           rcode == IF IsOurs(zone, name) THEN "ok" ELSE "nxdomain"
           reply == [id |-> q, name |-> Written(name), rcode |-> rcode, truncated |-> FALSE,
                     records |-> records]
<1>1. r = Fitting(reply) /\ MessageSize(Written(name), {}) <= MaxReply
  BY DEF Handle, Reply
<1>2. /\ reply.id = q /\ reply.name = Written(name) /\ reply.rcode = rcode
      /\ reply.records = records
  OBVIOUS
<1>3. Size(reply) = MessageSize(Written(name), records)
  BY <1>2 DEF Size
<1>4. CASE Size(reply) <= MaxReply
  <2>1. r = reply
    BY <1>1, <1>4 DEF Fitting
  <2>2. QED
    BY <1>2, <1>4, <2>1
<1>5. CASE ~(Size(reply) <= MaxReply)
  <2> DEFINE short == [reply EXCEPT !.rcode = "ok", !.records = {}, !.truncated = TRUE]
  <2>1. r = short
    BY <1>1, <1>5 DEF Fitting
  <2>2. short.id = q /\ short.name = Written(name) /\ short.rcode = "ok" /\ short.records = {} /\ short.truncated
    OBVIOUS
  <2> HIDE DEF short, records, name
  <2>3. Size(r) <= MaxReply
    BY <1>1, <2>1, <2>2 DEF Size
  <2>4. QED
    BY <1>3, <1>5, <2>1, <2>2, <2>3 DEF name, records
<1>6. QED
  BY <1>4, <1>5

-----------------------------------------------------------------------------
(* The search                                                              *)

Asks(step) ==
  CASE step = "domain" -> Start
    [] step = "browse" -> BrowseName
    [] step \in {"port", "id"} -> InstanceName
    [] step = "host" -> HostName

TypeOf(step) ==
  CASE step \in {"domain", "browse"} -> "PTR"
    [] step = "port" -> "SRV"
    [] step = "id" -> "TXT"
    [] step = "host" -> "A"

\* What the records of a step lead to.
Leads(step, r) ==
  /\ step = "domain" => r.target = DomainName
  /\ step = "browse" => r.target = InstanceName
  /\ step = "port" => r.target = HostName

IsQuestion(q) ==
  /\ q.step \in Steps
  /\ q.name \in {Asks(q.step), Upper(Asks(q.step))}
  /\ q.type = TypeOf(q.step)

IsAnswer(step, records) ==
  /\ \A r \in records : Leads(step, r)
  /\ records # {}

\* What holds of a phone that the server leads to itself, when DNS can carry the
\* names.
Led ==
  /\ \A q \in asked : IsQuestion(q)
  /\ \A r \in answers : IsQuestion(r.id) /\ IsAnswer(r.id.step, r.records)
  /\ \A step \in Steps : \A r \in cache[step] : Leads(step, r)
  /\ refused = {}

\* What holds of a phone that the server does not know, whatever the names.
LeftOut ==
  /\ \A q \in asked : q.step = "domain" /\ q.name \in {Start, Upper(Start)}
  /\ \A r \in answers : r.records = {}
  /\ \A step \in Steps : cache[step] = {}

SearchInv ==
  /\ Known
  /\ restarts \in 0..MaxRestarts /\ capitals \in Habits /\ refused \subseteq Steps
  /\ cache = [step \in Steps |-> cache[step]]
  /\ \A q \in asked : q.step \in Steps
  /\ \A r \in answers : r.id.step \in Steps /\ Size(r) <= MaxReply
  /\ config \in Publishable /\ IsServed => Led
  /\ ~Answered => LeftOut

\* The answer to each step of the search of a phone that is served: one record,
\* which leads to the next name.
LEMMA AnswerOfStep ==
  ASSUME Known, IsServed, NEW step \in Steps
  PROVE  LET answer == Answer(zone, Asks(step), TypeOf(step)) IN
         /\ Asks(step) \in {Start, BrowseName, InstanceName, HostName}
         /\ IsAnswer(step, answer)
         /\ \E r \in Records(zone, Asks(step)) : answer = {r}
<1> DEFINE Done(name, type) ==
             LET answer == Answer(zone, name, type) IN
             /\ IsAnswer(step, answer)
             /\ \E r \in Records(zone, name) : answer = {r}
<1>1. CASE step = "domain"
  <2> DEFINE r == Pointer(Start, DomainName)
  <2>1. r.type = "PTR" /\ r.target = DomainName
    BY DEF Pointer, Record
  <2>2. Records(zone, Start) = {r}
    BY RecordsOfNames DEF Answered
  <2> HIDE DEF r
  <2>3. Answer(zone, Start, "PTR") = {r}
    BY <2>1, <2>2 DEF Answer
  <2>4. Done(Start, "PTR")
    BY <1>1, <2>1, <2>2, <2>3 DEF IsAnswer, Leads
  <2> HIDE DEF Done
  <2>5. Asks(step) = Start /\ TypeOf(step) = "PTR"
    BY <1>1 DEF Asks, TypeOf
  <2>6. QED
    BY <2>4, <2>5 DEF Done
<1>2. CASE step = "browse"
  <2> DEFINE r == Pointer(BrowseName, InstanceName)
  <2>1. r.type = "PTR" /\ r.target = InstanceName
    BY DEF Pointer, Record
  <2>2. Records(zone, BrowseName) = {r}
    BY RecordsOfNames
  <2> HIDE DEF r
  <2>3. Answer(zone, BrowseName, "PTR") = {r}
    BY <2>1, <2>2 DEF Answer
  <2>4. Done(BrowseName, "PTR")
    BY <1>2, <2>1, <2>2, <2>3 DEF IsAnswer, Leads
  <2> HIDE DEF Done
  <2>5. Asks(step) = BrowseName /\ TypeOf(step) = "PTR"
    BY <1>2 DEF Asks, TypeOf
  <2>6. QED
    BY <2>4, <2>5 DEF Done
<1>3. CASE step \in {"port", "id"}
  <2> DEFINE srv == [Record(InstanceName, "SRV") EXCEPT !.port = zone.port, !.target = HostName]
             txt == [Record(InstanceName, "TXT") EXCEPT !.text = <<zone.id>>]
  <2>1. srv.type = "SRV" /\ srv.target = HostName /\ txt.type = "TXT"
    BY DEF Record
  <2>2. Records(zone, InstanceName) = {srv, txt}
    BY RecordsOfNames
  <2> HIDE DEF srv, txt
  <2>3. Answer(zone, InstanceName, "SRV") = {srv} /\ Answer(zone, InstanceName, "TXT") = {txt}
    BY <2>1, <2>2 DEF Answer
  <2>4. Asks(step) = InstanceName /\ TypeOf(step) = IF step = "port" THEN "SRV" ELSE "TXT"
    BY <1>3 DEF Asks, TypeOf
  <2>5. Done(InstanceName, TypeOf(step))
    BY <1>3, <2>1, <2>2, <2>3, <2>4 DEF IsAnswer, Leads
  <2> HIDE DEF Done
  <2>6. QED
    BY <2>4, <2>5 DEF Done
<1>4. CASE step = "host"
  <2> DEFINE r == [Record(HostName, "A") EXCEPT !.address = zone.address]
  <2>1. r.type = "A"
    BY DEF Record
  <2>2. Records(zone, HostName) = {r}
    BY RecordsOfNames
  <2> HIDE DEF r
  <2>3. Answer(zone, HostName, "A") = {r}
    BY <2>1, <2>2 DEF Answer
  <2>4. Done(HostName, "A")
    BY <1>4, <2>1, <2>2, <2>3 DEF IsAnswer, Leads
  <2> HIDE DEF Done
  <2>5. Asks(step) = HostName /\ TypeOf(step) = "A"
    BY <1>4 DEF Asks, TypeOf
  <2>6. QED
    BY <2>4, <2>5 DEF Done
<1>5. QED
  BY <1>1, <1>2, <1>3, <1>4 DEF Steps

\* handle answers each step of such a search so, when DNS can carry the names.
LEMMA HandledQuestion ==
  ASSUME Known, IsServed, config \in Publishable, NEW q, IsQuestion(q), NEW r \in Handle(zone, q)
  PROVE  r.id = q /\ IsAnswer(q.step, r.records)
<1> DEFINE name == Asks(q.step)
           answer == Answer(zone, name, q.type)
<1>1. /\ name \in {Start, BrowseName, InstanceName, HostName}
      /\ IsAnswer(q.step, answer)
      /\ \E record \in Records(zone, name) : answer = {record}
  BY AnswerOfStep DEF IsQuestion
<1>2. name \in Seq(Small) /\ ReadName(q.name) = name
  <2>1. name \in Seq(Small)
    BY <1>1, NameOfPhone, NamesAreSmall DEF Known
  <2>2. Lower(name) = name /\ Lower(Upper(name)) = name
    BY <2>1, SmallNames
  <2> HIDE DEF name
  <2>3. QED
    BY <2>1, <2>2 DEF IsQuestion, ReadName, name
<1>3. Written(name) = name /\ {WrittenRecord(x) : x \in answer} = answer
  <2>1. Written(name) = name
    BY <1>1, <1>2, WhatIsPublishable, SmallNames
  <2>2. PICK record \in Records(zone, name) : answer = {record}
    BY <1>1
  <2>3. WrittenRecord(record) = record
    BY <1>1, <2>2, WrittenAnswer
  <2> HIDE DEF answer, name
  <2>4. QED
    BY <2>1, <2>2, <2>3
<1>4. MessageSize(name, answer) <= MaxReply
  BY <1>1, WhatIsPublishable
<1> HIDE DEF name
<1>5. QED
  BY <1>1, <1>2, <1>3, <1>4, Handled

\* To a phone that the server does not know it sends no record.
LEMMA NothingForOthers ==
  ASSUME Known, ~Answered, NEW q, q.name \in {Start, Upper(Start)}, NEW r \in Handle(zone, q)
  PROVE  r.records = {}
<1>1. ReadName(q.name) = Start
  BY NameOfPhone, SmallNames DEF ReadName
<1>2. Answer(zone, Start, q.type) = {}
  BY RecordsOfNames DEF Answer
<1> DEFINE name == ReadName(q.name)
           answer == Answer(zone, name, q.type)
<1>3. r.records = {WrittenRecord(x) : x \in answer} \/ r.records = {}
  BY Handled
<1>4. answer = {}
  BY <1>1, <1>2
<1> HIDE DEF answer
<1>5. QED
  BY <1>3, <1>4

\* The phone asks for the names it was given, and those are the current ones.
LEMMA QuestionsAreKnown ==
  ASSUME SearchInv, IsServed, config \in Publishable, NEW step \in Steps, NEW q \in Wanted(step)
  PROVE  IsQuestion(q)
<1>1. q \in Questions(step)
  BY DEF Wanted
<1>2. \A name, type : name = Asks(step) /\ type = TypeOf(step) => IsQuestion(Question(step, name, type))
  BY DEF Question, IsQuestion
<1>3. CASE step = "domain"
  BY <1>1, <1>2, <1>3 DEF Questions, Asks, TypeOf
<1>4. CASE step = "browse"
  <2>1. PICK r \in cache["domain"] : q = Question(step, Service \o r.target, "PTR")
    BY <1>1, <1>4 DEF Questions
  <2>2. r.target = DomainName
    BY DEF SearchInv, Led, Leads, Steps
  <2>3. QED
    BY <1>2, <1>4, <2>1, <2>2 DEF Asks, TypeOf, BrowseName
<1>5. CASE step \in {"port", "id"}
  <2>1. PICK r \in cache["browse"] : q = Question(step, r.target, IF step = "port" THEN "SRV" ELSE "TXT")
    BY <1>1, <1>5 DEF Questions
  <2>2. r.target = InstanceName
    BY DEF SearchInv, Led, Leads, Steps
  <2>3. QED
    BY <1>2, <1>5, <2>1, <2>2 DEF Asks, TypeOf
<1>6. CASE step = "host"
  <2>1. PICK r \in cache["port"] : q = Question(step, r.target, "A")
    BY <1>1, <1>6 DEF Questions
  <2>2. r.target = HostName
    BY DEF SearchInv, Led, Leads, Steps
  <2>3. QED
    BY <1>2, <1>6, <2>1, <2>2 DEF Asks, TypeOf
<1>7. QED
  BY <1>3, <1>4, <1>5, <1>6 DEF Steps

-----------------------------------------------------------------------------
(* The invariant                                                           *)

\* Each question is asked in its step; a phone that has learned nothing asks for
\* the domain alone.
LEMMA QuestionsOfSteps ==
  ASSUME NEW step \in Steps, NEW q \in Wanted(step)
  PROVE  /\ q.step = step
         /\ (\A other \in Steps : cache[other] = {}) => step = "domain" /\ q.name \in {Start, Upper(Start)}
<1>1. q \in Questions(step)
  BY DEF Wanted
<1>2. CASE step = "domain"
  BY <1>1, <1>2 DEF Questions, Question
<1>3. CASE step # "domain"
  BY <1>1, <1>3 DEF Questions, Question, Steps
<1>4. QED
  BY <1>2, <1>3

\* Before the search nothing was asked, answered or learned.
LEMMA SearchInit == Init => SearchInv
<1> SUFFICES ASSUME Init PROVE SearchInv
  OBVIOUS
<1>1. Known
  BY DEF Init, Known
<1>2. cache = [step \in Steps |-> {}] /\ \A step \in Steps : cache[step] = {}
  BY DEF Init
<1>3. cache = [step \in Steps |-> cache[step]]
  BY <1>2
<1>4. restarts \in 0..MaxRestarts
  BY BoundsAssumption DEF Init
<1>5. Led /\ LeftOut
  BY <1>2 DEF Init, Led, LeftOut
<1>6. QED
  BY <1>1, <1>3, <1>4, <1>5 DEF Init, SearchInv

\* Only the configuration and the address of the phone decide what is asked and
\* answered.
LEMMA NothingElseMatters ==
  ASSUME UNCHANGED <<config, phone>>
  PROVE  /\ \A q : IsQuestion(q)' <=> IsQuestion(q)
         /\ \A step, records : IsAnswer(step, records)' <=> IsAnswer(step, records)
         /\ \A step, r : Leads(step, r)' <=> Leads(step, r)
         /\ IsServed' <=> IsServed
         /\ Answered' <=> Answered
         /\ (config \in Publishable)' <=> config \in Publishable
         /\ Start' = Start
<1>1. /\ DomainName' = DomainName /\ BrowseName' = BrowseName
      /\ InstanceName' = InstanceName /\ HostName' = HostName
  BY DEF DomainName, BrowseName, InstanceName, HostName
<1>2. (IsServed' <=> IsServed) /\ (Answered' <=> Answered)
  BY DEF IsServed, Answered, IsClient
<1>3. Start' = Start
  BY DEF Start
<1>4. \A step, r : Leads(step, r)' <=> Leads(step, r)
  BY <1>1 DEF Leads
<1>5. \A step : Asks(step)' = Asks(step)
  BY <1>1, <1>3 DEF Asks
<1>6. \A q : IsQuestion(q)' <=> IsQuestion(q)
  BY <1>5 DEF IsQuestion
<1>7. \A step, records : IsAnswer(step, records)' <=> IsAnswer(step, records)
  BY <1>4 DEF IsAnswer
<1>8. QED
  BY <1>2, <1>3, <1>4, <1>6, <1>7

\* Every step of the server, the network and the phone keeps the invariant.
LEMMA SearchStep == SearchInv /\ [Next]_vars => SearchInv'
<1> SUFFICES ASSUME SearchInv, [Next]_vars PROVE SearchInv'
  OBVIOUS
<1> DEFINE Served == config \in Publishable /\ IsServed
<1>1. UNCHANGED <<config, client>>
  BY DEF Next, Ask, Receive, Deliver, Lose, Expire, Restart, server, vars
<1>2. UNCHANGED zone \/ \E e \in Endpoints : zone' = ZoneOf(config, e)
  BY DEF Next, Ask, Receive, Deliver, Lose, Expire, Restart, server, vars
<1>3. Known' /\ capitals' \in Habits
  BY <1>1, <1>2 DEF SearchInv, Known, client
<1>4. /\ \A q : IsQuestion(q)' <=> IsQuestion(q)
      /\ \A step, records : IsAnswer(step, records)' <=> IsAnswer(step, records)
      /\ \A step, r : Leads(step, r)' <=> Leads(step, r)
      /\ (Served' <=> Served) /\ (Answered' <=> Answered) /\ Start' = Start
  BY <1>1, NothingElseMatters DEF client
<1>5. (Served => Led) /\ (~Answered => LeftOut)
  BY DEF SearchInv
<1> HIDE DEF Served
<1> DEFINE Kept == /\ restarts' \in 0..MaxRestarts /\ refused' \subseteq Steps
                   /\ cache' = [step \in Steps |-> cache'[step]]
                   /\ \A q \in asked' : q.step \in Steps
                   /\ \A r \in answers' : r.id.step \in Steps /\ Size(r) <= MaxReply
                   /\ Served => Led'
                   /\ ~Answered => LeftOut'
<1> SUFFICES Kept
  BY <1>3, <1>4 DEF SearchInv, Served
<1>6. CASE Ask
  <2>1. PICK step \in Steps : \E q \in Wanted(step) \ asked : asked' = asked \union {q}
    BY <1>6 DEF Ask
  <2>2. PICK q \in Wanted(step) : asked' = asked \union {q}
    BY <2>1
  <2>3. UNCHANGED <<restarts, answers, cache, refused>>
    BY <1>6 DEF Ask, server
  <2>4. Served => Led'
    <3>1. SUFFICES ASSUME Served PROVE Led'
      OBVIOUS
    <3>2. IsQuestion(q)
      BY <3>1, QuestionsAreKnown DEF Served
    <3>3. \A other \in asked' : IsQuestion(other)'
      BY <1>4, <1>5, <2>2, <3>1, <3>2 DEF Led
    <3>4. QED
      BY <1>4, <1>5, <2>3, <3>1, <3>3 DEF Led
  <2>5. ~Answered => LeftOut'
    BY <1>4, <1>5, <2>2, <2>3, QuestionsOfSteps DEF LeftOut
  <2>6. q.step \in Steps
    BY QuestionsOfSteps
  <2>7. QED
    BY <2>2, <2>3, <2>4, <2>5, <2>6 DEF SearchInv
<1>7. CASE Receive
  <2>1. PICK q \in asked : asked' = asked \ {q} /\ answers' = answers \union Handle(zone, q)
    BY <1>7 DEF Receive
  <2>2. UNCHANGED <<restarts, cache, refused>>
    BY <1>7 DEF Receive, server
  <2>3. \A r \in Handle(zone, q) : r.id = q /\ Size(r) <= MaxReply
    BY Handled
  <2>4. Served => Led'
    <3>1. SUFFICES ASSUME Served PROVE Led'
      OBVIOUS
    <3>2. \A r \in Handle(zone, q) : IsQuestion(r.id) /\ IsAnswer(r.id.step, r.records)
      BY <1>5, <3>1, HandledQuestion DEF Served, Led, SearchInv
    <3>3. \A r \in answers' : IsQuestion(r.id)' /\ IsAnswer(r.id.step, r.records)'
      BY <1>4, <1>5, <2>1, <3>1, <3>2 DEF Led
    <3>4. \A other \in asked' : IsQuestion(other)'
      BY <1>4, <1>5, <2>1, <3>1 DEF Led
    <3>5. QED
      BY <1>4, <1>5, <2>2, <3>1, <3>3, <3>4 DEF Led
  <2>5. ~Answered => LeftOut'
    <3>1. SUFFICES ASSUME ~Answered PROVE LeftOut'
      OBVIOUS
    <3>2. \A r \in Handle(zone, q) : r.records = {}
      BY <1>5, <3>1, NothingForOthers DEF LeftOut, SearchInv
    <3>3. QED
      BY <1>4, <1>5, <2>1, <2>2, <3>1, <3>2 DEF LeftOut
  <2>6. QED
    BY <2>1, <2>2, <2>3, <2>4, <2>5 DEF SearchInv
<1>8. CASE Deliver
  <2>1. PICK r \in answers :
          /\ answers' = answers \ {r}
          /\ IF r.id \in Wanted(r.id.step) /\ (capitals = "checked" => r.name = r.id.name)
               THEN /\ cache' = [cache EXCEPT ![r.id.step] = r.records]
                   /\ refused' = IF r.records = {} THEN refused \union {r.id.step} ELSE refused
               ELSE UNCHANGED <<cache, refused>>
    BY <1>8 DEF Deliver
  <2>2. r.id.step \in Steps
    BY DEF SearchInv
  <2>3. cache' = [step \in Steps |-> cache'[step]]
    BY <2>1, <2>2 DEF SearchInv
  <2>4. \A step \in Steps :
          \/ cache'[step] = cache[step]
          \/ step = r.id.step /\ cache'[step] = r.records
    BY <2>1, <2>2 DEF SearchInv
  <2>5. asked' = asked /\ restarts' = restarts
    BY <1>8 DEF Deliver, server
  <2>6. Served => Led'
    <3>1. SUFFICES ASSUME Served PROVE Led'
      OBVIOUS
    <3>2. IsAnswer(r.id.step, r.records)
      BY <1>5, <3>1 DEF Led
    <3>3. \A step \in Steps : \A x \in cache'[step] : Leads(step, x)'
      BY <1>4, <1>5, <2>4, <3>1, <3>2 DEF Led, IsAnswer
    <3>4. refused' = {}
      BY <1>5, <2>1, <3>1, <3>2 DEF Led, IsAnswer
    <3>5. QED
      BY <1>4, <1>5, <2>1, <2>5, <3>1, <3>3, <3>4 DEF Led
  <2>7. ~Answered => LeftOut'
    BY <1>4, <1>5, <2>1, <2>4, <2>5 DEF LeftOut
  <2>8. refused' \subseteq Steps
    BY <2>1, <2>2 DEF SearchInv
  <2>9. QED
    BY <2>1, <2>3, <2>5, <2>6, <2>7, <2>8 DEF SearchInv
<1>9. CASE Lose
  <2>1. asked' \subseteq asked /\ answers' \subseteq answers
    BY <1>9 DEF Lose
  <2>2. UNCHANGED <<restarts, cache, refused>>
    BY <1>9 DEF Lose, server
  <2>3. (Served => Led') /\ (~Answered => LeftOut')
    BY <1>4, <1>5, <2>1, <2>2 DEF Led, LeftOut
  <2>4. QED
    BY <2>1, <2>2, <2>3 DEF SearchInv
<1>10. CASE Expire
  <2>1. PICK step \in Steps : cache' = [cache EXCEPT ![step] = {}]
    BY <1>10 DEF Expire
  <2>2. cache' = [other \in Steps |-> cache'[other]]
    BY <2>1 DEF SearchInv
  <2>3. \A other \in Steps : cache'[other] \subseteq cache[other]
    BY <2>1 DEF SearchInv
  <2>4. UNCHANGED <<restarts, asked, answers, refused>>
    BY <1>10 DEF Expire, server, network
  <2>5. (Served => Led') /\ (~Answered => LeftOut')
    BY <1>4, <1>5, <2>3, <2>4 DEF Led, LeftOut
  <2>6. QED
    BY <2>2, <2>4, <2>5 DEF SearchInv
<1>11. CASE Restart
  <2>1. restarts' \in 0..MaxRestarts
    BY <1>11, BoundsAssumption DEF Restart, SearchInv
  <2>2. UNCHANGED <<asked, answers, cache, refused>>
    BY <1>11 DEF Restart, network
  <2>3. (Served => Led') /\ (~Answered => LeftOut')
    BY <1>4, <1>5, <2>2 DEF Led, LeftOut
  <2>4. QED
    BY <2>1, <2>2, <2>3 DEF SearchInv
<1>12. CASE UNCHANGED vars
  <2>1. UNCHANGED <<restarts, asked, answers, cache, refused>>
    BY <1>12 DEF vars, server, network
  <2>2. (Served => Led') /\ (~Answered => LeftOut')
    BY <1>4, <1>5, <2>1 DEF Led, LeftOut
  <2>3. QED
    BY <2>1, <2>2 DEF SearchInv
<1>13. QED
  BY <1>6, <1>7, <1>8, <1>9, <1>10, <1>11, <1>12 DEF Next

\* With names that DNS can carry, what a phone that is served asks, is replied
\* and has learned is about the names of the zone, a record at each step, which
\* leads to the next; with any names, a phone that the server does not know asks
\* for the domain alone and is given no record.
THEOREM SearchInvHolds == Spec => []SearchInv
<1>1. Init => SearchInv
  BY SearchInit
<1>2. SearchInv /\ [Next]_vars => SearchInv'
  BY SearchStep
<1>3. QED
  BY <1>1, <1>2, PTL DEF Spec

\* What is replied about the names of the zone, whoever asks.
LEMMA ZoneReplied ==
  ASSUME Known, NEW r \in ZoneReplies
  PROVE  /\ Size(r) <= MaxReply
         /\ r.rcode = "ok"
         /\ r.records = {} /\ ~r.truncated =>
              \A record \in Records(zone, r.name) : r.id.type \notin {record.type, "ANY"}
<1>1. PICK name \in {n \in {zone.browse, zone.instance, zone.host} : IsCarried(n)},
           type \in Types \union {"ANY"} :
        r \in Handle(zone, [step |-> "id", name |-> name, type |-> type])
  BY DEF ZoneReplies
<1> DEFINE q == [step |-> "id", name |-> name, type |-> type]
<1>2. q.name = name /\ q.type = type
  OBVIOUS
<1>3. name \in {BrowseName, InstanceName, HostName} /\ IsOurs(zone, name) /\ IsCarried(name)
  BY ZoneNames DEF Known, IsOurs
<1>4. ReadName(name) = name /\ Written(name) = name
  BY <1>3, NamesAreSmall, SmallNames DEF Known, ReadName
<1> HIDE DEF q
<1>5. /\ r.id = q /\ r.name = name /\ Size(r) <= MaxReply /\ r.rcode = "ok"
      /\ \/ r.records = {WrittenRecord(x) : x \in Answer(zone, name, q.type)}
         \/ r.records = {} /\ r.truncated
  <2>1. r \in Handle(zone, q)
    BY <1>1 DEF q
  <2> DEFINE read == ReadName(q.name)
             answer == Answer(zone, read, q.type)
  <2>2. /\ r.id = q /\ r.name = Written(read) /\ Size(r) <= MaxReply
        /\ IsOurs(zone, read) => r.rcode = "ok"
        /\ \/ r.records = {WrittenRecord(x) : x \in answer}
           \/ r.records = {} /\ r.truncated
    BY <2>1, Handled
  <2>3. read = name
    BY <1>2, <1>4
  <2> HIDE DEF read
  <2>4. QED
    BY <1>3, <1>4, <2>2, <2>3
<1>6. ASSUME r.records = {}, ~r.truncated PROVE Answer(zone, name, q.type) = {}
  BY <1>5, <1>6
<1>7. QED
  BY <1>2, <1>5, <1>6 DEF Answer

\* The state of the server and of the phone stays well formed, and no reply is
\* longer than a datagram (dnssd.rs:31-32), whatever is configured.
THEOREM TypeCorrect == Spec => []TypeOK
<1>1. SearchInv => TypeOK
  <2> SUFFICES ASSUME SearchInv PROVE TypeOK
    OBVIOUS
  <2>1. Known
    BY DEF SearchInv
  <2>2. \A r \in answers \union ZoneReplies : Size(r) <= MaxReply
    BY <2>1, ZoneReplied DEF SearchInv
  <2>3. (\A q \in asked : q.step \in Steps) /\ (\A r \in answers : r.id.step \in Steps)
    BY DEF SearchInv
  <2>4. QED
    BY <2>2, <2>3 DEF SearchInv, Known, TypeOK
<1>2. QED
  BY <1>1, SearchInvHolds, PTL

\* For names that DNS can carry, a phone of the clients' network, or one that
\* searches the domain, is never turned away, whatever the case of the names
\* (dnssd.rs:64-66).
THEOREM NeverTurnedAwayHolds == Spec => []NeverTurnedAway
<1>1. SearchInv => NeverTurnedAway
  BY DEF SearchInv, Led, NeverTurnedAway
<1>2. QED
  BY <1>1, SearchInvHolds, PTL

\* A phone of another network that asks for the reverse of its address alone
\* learns nothing, unless that is the domain (dnssd.rs:482-487).
THEOREM OnlyClientsLearnHolds == Spec => []OnlyClientsLearn
<1>1. SearchInv => OnlyClientsLearn
  BY DEF SearchInv, LeftOut, Answered, OnlyClientsLearn
<1>2. QED
  BY <1>1, SearchInvHolds, PTL

\* A reply about a name of the zone never denies a record that exists, nor the
\* name (dnssd.rs:225-227, 568-574).
THEOREM RepliesAreHonestHolds == Spec => []RepliesAreHonest
<1>1. SearchInv => RepliesAreHonest
  BY ZoneReplied DEF SearchInv, RepliesAreHonest
<1>2. QED
  BY <1>1, SearchInvHolds, PTL

\* covers_reverse, which reads octets backwards, pads them and masks a number of
\* 32 bits, means "the first bits of the address are those of the clients'
\* network" (dnssd.rs:143-177), for every width of an octet, length of the
\* network and number of octets in the name.
THEOREM ReverseOfClients ==
  ASSUME NEW p \in Phones, config \in Configs, zone.clients = config.clients
  PROVE  CoversReverse(zone, Backwards(p)) <=> IsClient(p)
  BY CoversClients

==============================================================================
