---------------------------- MODULE BinaryProofs ----------------------------
(***************************************************************************)
(* Induction and recursion on the numbers in the form that the provers can *)
(* use, and what follows for the bits of a number: putting them together   *)
(* again gives the number.                                                 *)
(***************************************************************************)
EXTENDS Binary, WellFoundedInduction, TLAPS

-----------------------------------------------------------------------------
(* Recursion on the numbers                                                 *)

\* A set of numbers with 0 and the successor of each of its elements has them all.
LEMMA SetInduction ==
    ASSUME NEW T, T \subseteq Nat, 0 \in T, \A n \in T : n + 1 \in T
    PROVE  T = Nat
<1> DEFINE U == Nat \ T
<1> SUFFICES ASSUME U # {} PROVE FALSE
  OBVIOUS
<1>1. \E x \in U : \A y \in U : ~(<<y, x>> \in OpToRel(<, Nat))
  BY NatLessThanWellFounded, WFMin
<1>2. PICK x \in U : \A y \in U : ~(<<y, x>> \in OpToRel(<, Nat))
  BY <1>1
<1>3. \A y \in U : ~(y < x)
  BY <1>2 DEF OpToRel
<1>4. x \in Nat /\ x \notin T
  BY <1>2
<1>5. x # 0
  BY <1>4
<1>6. x - 1 \in Nat /\ x - 1 < x /\ (x - 1) + 1 = x
  BY <1>4, <1>5
<1>7. x - 1 \in T
  BY <1>3, <1>6
<1> QED
  BY <1>4, <1>6, <1>7

\* A function on the numbers is defined by its first value and by what follows each of its values.
Recurs(f, a, h) == f[0] = a /\ \A n \in Nat : f[n + 1] = h[n][f[n]]

\* There is a function on the numbers with given first value and successors.
LEMMA NatRecursion ==
    ASSUME NEW S, NEW a \in S, NEW h \in [Nat -> [S -> S]]
    PROVE  \E f \in [Nat -> S] : Recurs(f, a, h)
<1> DEFINE Is(g, n) == g[0] = a /\ \A i \in 0..(n - 1) : g[i + 1] = h[i][g[i]]
           Has(n) == \E g \in [0..n -> S] : Is(g, n)
           T == {n \in Nat : Has(n)}
<1>1. Has(0)
  <2>1. [i \in 0..0 |-> a] \in [0..0 -> S] /\ Is([i \in 0..0 |-> a], 0)
    OBVIOUS
  <2> QED
    BY <2>1
<1>2. ASSUME NEW n \in Nat, Has(n) PROVE Has(n + 1)
  <2>1. PICK g \in [0..n -> S] : Is(g, n)
    BY <1>2
  <2> DEFINE k == [i \in 0..(n + 1) |-> IF i = n + 1 THEN h[n][g[n]] ELSE g[i]]
  <2>2. g[n] \in S /\ h[n] \in [S -> S]
    OBVIOUS
  <2>3. h[n][g[n]] \in S
    BY <2>2
  <2>4. k \in [0..(n + 1) -> S]
    BY <2>3
  <2>5. ASSUME NEW i \in 0..n PROVE k[i + 1] = h[i][k[i]]
    <3>1. CASE i = n
      BY <3>1
    <3>2. CASE i \in 0..(n - 1)
      <4>1. g[i + 1] = h[i][g[i]] /\ i + 1 \in 0..n
        BY <2>1, <3>2
      <4> QED
        BY <3>2, <4>1
    <3> QED
      BY <3>1, <3>2
  <2>6. k[0] = a
    BY <2>1
  <2>7. Is(k, n + 1)
    <3> HIDE DEF k
    <3>1. (n + 1) - 1 = n
      OBVIOUS
    <3> QED
      BY <2>5, <2>6, <3>1
  <2> QED
    BY <2>4, <2>7
<1>3. ASSUME NEW n \in Nat PROVE Has(n)
  <2> HIDE DEF Has
  <2>1. T \subseteq Nat /\ 0 \in T /\ \A m \in T : m + 1 \in T
    BY <1>1, <1>2
  <2> HIDE DEF T
  <2>2. T = Nat
    BY <2>1, SetInduction
  <2> QED
    BY <2>2 DEF T
<1>4. ASSUME NEW n \in Nat, NEW g, Is(g, n), NEW k, Is(k, n + 1) PROVE g[n] = k[n]
  <2> DEFINE V == {i \in Nat : i <= n => g[i] = k[i]}
  <2>1. V \subseteq Nat /\ 0 \in V
    BY <1>4
  <2>2. ASSUME NEW i \in V PROVE i + 1 \in V
    <3> SUFFICES ASSUME i + 1 <= n PROVE g[i + 1] = k[i + 1]
      OBVIOUS
    <3>1. i \in Nat /\ g[i] = k[i]
      OBVIOUS
    <3>2. i \in 0..(n - 1) /\ i \in 0..((n + 1) - 1)
      BY <3>1
    <3>3. g[i + 1] = h[i][g[i]] /\ k[i + 1] = h[i][k[i]]
      BY <1>4, <3>2
    <3> QED
      BY <3>1, <3>3
  <2> HIDE DEF V
  <2>3. V = Nat
    BY <2>1, <2>2, SetInduction
  <2> QED
    BY <2>3 DEF V
<1> DEFINE G(n) == CHOOSE g \in [0..n -> S] : Is(g, n)
           f == [n \in Nat |-> G(n)[n]]
<1>5. ASSUME NEW n \in Nat PROVE G(n) \in [0..n -> S] /\ Is(G(n), n)
  <2> HIDE DEF Is
  <2> QED
    BY <1>3
<1>6. ASSUME NEW n \in Nat PROVE f[n + 1] = h[n][f[n]]
  <2>1. Is(G(n), n) /\ Is(G(n + 1), n + 1)
    <3> HIDE DEF Is, G
    <3> QED
      BY <1>5
  <2>2. G(n)[n] = G(n + 1)[n]
    <3> HIDE DEF Is, G
    <3> QED
      BY <1>4, <2>1
  <2>3. G(n + 1)[n + 1] = h[n][G(n + 1)[n]]
    <3> HIDE DEF G
    <3>1. n \in 0..((n + 1) - 1)
      OBVIOUS
    <3> QED
      BY <2>1, <3>1
  <2> HIDE DEF G
  <2>4. f[n] = G(n)[n] /\ f[n + 1] = G(n + 1)[n + 1]
    OBVIOUS
  <2> QED
    BY <2>2, <2>3, <2>4
<1>7. f \in [Nat -> S] /\ f[0] = a
  <2>1. ASSUME NEW n \in Nat PROVE G(n)[n] \in S
    <3> HIDE DEF G, Is
    <3>1. G(n) \in [0..n -> S] /\ n \in 0..n
      BY <1>5
    <3> QED
      BY <3>1
  <2>2. G(0)[0] = a
    <3> HIDE DEF G
    <3> QED
      BY <1>5
  <2> HIDE DEF G
  <2> QED
    BY <2>1, <2>2
<1> HIDE DEF f
<1> QED
  BY <1>6, <1>7 DEF Recurs

-----------------------------------------------------------------------------
(* Bits                                                                     *)

\* The masks: each is twice the one before.
LEMMA Powers ==
    /\ Pow2 \in [Nat -> Nat] /\ Pow2[0] = 1
    /\ \A k \in Nat : Pow2[k + 1] = 2 * Pow2[k] /\ Pow2[k] > 0
<1> DEFINE h == [n \in Nat |-> [x \in Nat |-> 2 * x]]
<1>1. PICK f \in [Nat -> Nat] : Recurs(f, 1, h)
  <2>1. h \in [Nat -> [Nat -> Nat]] /\ 1 \in Nat
    OBVIOUS
  <2> HIDE DEF h
  <2> QED
    BY <2>1, NatRecursion
<1>2. \A n \in Nat : f[n + 1] = 2 * f[n]
  BY <1>1 DEF Recurs
<1>3. f = [k \in Nat |-> IF k = 0 THEN 1 ELSE 2 * f[k - 1]]
  <2>1. ASSUME NEW k \in Nat PROVE f[k] = IF k = 0 THEN 1 ELSE 2 * f[k - 1]
    <3>1. CASE k = 0
      BY <1>1, <3>1 DEF Recurs
    <3>2. CASE k # 0
      <4>1. k - 1 \in Nat /\ (k - 1) + 1 = k
        BY <3>2
      <4>2. f[(k - 1) + 1] = 2 * f[k - 1]
        BY <1>2, <4>1
      <4> QED
        BY <3>2, <4>1, <4>2
    <3> QED
      BY <3>1, <3>2
  <2> QED
    BY <2>1
<1>4. Pow2 = [k \in Nat |-> IF k = 0 THEN 1 ELSE 2 * Pow2[k - 1]]
  <2> HIDE DEF h
  <2> QED
    BY <1>3 DEF Pow2
<1>5. ASSUME NEW u, u = [k \in Nat |-> IF k = 0 THEN 1 ELSE 2 * u[k - 1]]
      PROVE  u[0] = 1 /\ \A k \in Nat : u[k + 1] = 2 * u[k]
  <2> DEFINE w == [k \in Nat |-> IF k = 0 THEN 1 ELSE 2 * u[k - 1]]
  <2>1. w[0] = 1
    OBVIOUS
  <2>2. ASSUME NEW k \in Nat PROVE w[k + 1] = 2 * u[k]
    <3>1. k + 1 \in Nat /\ k + 1 # 0 /\ (k + 1) - 1 = k
      OBVIOUS
    <3> QED
      BY <3>1
  <2>3. u = w
    BY <1>5
  <2> HIDE DEF w
  <2> QED
    BY <2>1, <2>2, <2>3
<1>6. Pow2[0] = 1 /\ \A k \in Nat : Pow2[k + 1] = 2 * Pow2[k]
  BY <1>4, <1>5
<1> DEFINE T == {k \in Nat : Pow2[k] \in Nat /\ Pow2[k] > 0}
<1>7. T \subseteq Nat /\ 0 \in T /\ \A k \in T : k + 1 \in T
  BY <1>6
<1>8. T = Nat
  <2> HIDE DEF T
  <2> QED
    BY <1>7, SetInduction
<1>9. Pow2 \in [Nat -> Nat]
  <2>1. \A k \in Nat : Pow2[k] \in Nat
    BY <1>8
  <2>2. ASSUME NEW u, u = [k \in Nat |-> IF k = 0 THEN 1 ELSE 2 * u[k - 1]],
               \A k \in Nat : u[k] \in Nat
        PROVE  u \in [Nat -> Nat]
    <3> DEFINE w == [k \in Nat |-> IF k = 0 THEN 1 ELSE 2 * u[k - 1]]
    <3>1. w = [k \in Nat |-> w[k]]
      OBVIOUS
    <3>2. u = w
      BY <2>2
    <3> HIDE DEF w
    <3> QED
      BY <2>2, <3>1, <3>2
  <2> QED
    BY <1>4, <2>1, <2>2
<1>10. \A k \in Nat : Pow2[k] > 0
  BY <1>8
<1> HIDE DEF T
<1> QED
  BY <1>6, <1>9, <1>10

\* Quotient and remainder.
LEMMA Division ==
    ASSUME NEW n \in Nat, NEW d \in Nat, d > 0
    PROVE  /\ n \div d \in Nat /\ n % d \in 0..(d - 1) /\ n = (n \div d) * d + (n % d)
           /\ \A a \in Nat, b \in 0..(d - 1) : n = a * d + b => n % d = b /\ n \div d = a
           /\ n < d => n % d = n
           /\ n < d * d => n \div d < d
  OBVIOUS

\* The quotient and remainder of a number that is given as such.
LEMMA Quotient ==
    ASSUME NEW n \in Nat, NEW d \in Nat, NEW a \in Nat, NEW b \in 0..(d - 1), n = a * d + b
    PROVE  n \div d = a /\ n % d = b
<1>1. d > 0
  OBVIOUS
<1> QED
  BY <1>1, Division

\* One bit more of a number.
LEMMA NextBit ==
    ASSUME NEW n \in Nat, NEW P \in Nat, P > 0
    PROVE  n % (2 * P) = (n % P) + (IF (n \div P) % 2 = 1 THEN P ELSE 0)
<1> DEFINE q == n \div P
           r == n % P
           c == q \div 2
           s == q % 2
<1>1. q \in Nat /\ r \in 0..(P - 1) /\ n = q * P + r
  OBVIOUS
<1> HIDE DEF q, r
<1>2. c \in Nat /\ s \in 0..1 /\ q = 2 * c + s
  BY <1>1
<1> HIDE DEF c, s
<1>3. n = c * (2 * P) + (s * P + r)
  BY <1>1, <1>2
<1>4. s * P + r \in 0..(2 * P - 1)
  BY <1>1, <1>2
<1>5. 2 * P \in Nat /\ 2 * P > 0
  OBVIOUS
<1>6. n % (2 * P) = s * P + r
  <2> DEFINE d == 2 * P
             e == s * P + r
  <2>1. d \in Nat /\ d > 0 /\ e \in 0..(d - 1) /\ n = c * d + e
    BY <1>3, <1>4, <1>5
  <2> HIDE DEF d, e
  <2>2. n % d = e
    BY <1>2, <2>1, Division
  <2> QED
    BY <2>2 DEF d, e
<1>7. s * P = IF s = 1 THEN P ELSE 0
  BY <1>2
<1> QED
  BY <1>1, <1>2, <1>6, <1>7 DEF s, q, r

\* The loop of decode puts together the number that the bits are those of.
LEMMA NumberOfBits ==
    ASSUME NEW n \in Nat, NEW b \in Nat, b < Pow2[n], NEW ones,
           \A k \in 0..(n - 1) : k \in ones <=> BitOf(b, k) = 1
    PROVE  Number(ones, n) = b
<1> DEFINE add(k) == IF k \in ones THEN Pow2[k] ELSE 0
           Data(d) == [k \in 0..n |-> IF k = 0 THEN 0 ELSE d[k - 1] + add(k - 1)]
           data == CHOOSE d : d = Data(d)
<1>1. Number(ones, n) = data[n]
  BY DEF Number
<1> DEFINE g == [k \in 0..n |-> b % Pow2[k]]
<1>2. ASSUME NEW k \in 0..(n - 1) PROVE b % Pow2[k + 1] = (b % Pow2[k]) + add(k)
  <2>1. Pow2[k] \in Nat /\ Pow2[k] > 0 /\ Pow2[k + 1] = 2 * Pow2[k]
    BY Powers
  <2>2. b % (2 * Pow2[k]) = (b % Pow2[k]) + (IF (b \div Pow2[k]) % 2 = 1 THEN Pow2[k] ELSE 0)
    BY <2>1, NextBit
  <2>3. k \in ones <=> (b \div Pow2[k]) % 2 = 1
    BY DEF BitOf
  <2> QED
    BY <2>1, <2>2, <2>3
<1> HIDE DEF add
<1>3. g = Data(g)
  <2>1. ASSUME NEW k \in 0..n
        PROVE  b % Pow2[k] = IF k = 0 THEN 0 ELSE g[k - 1] + add(k - 1)
    <3>1. CASE k = 0
      <4>1. b % 1 = 0
        OBVIOUS
      <4> QED
        BY <3>1, <4>1, Powers
    <3>2. CASE k # 0
      <4>1. k - 1 \in 0..(n - 1) /\ k - 1 \in 0..n /\ (k - 1) + 1 = k
        BY <3>2
      <4>2. b % Pow2[(k - 1) + 1] = (b % Pow2[k - 1]) + add(k - 1)
        BY <1>2, <4>1
      <4>3. g[k - 1] = b % Pow2[k - 1]
        BY <4>1
      <4> QED
        BY <3>2, <4>1, <4>2, <4>3
    <3> QED
      BY <3>1, <3>2
  <2> QED
    BY <2>1
<1>4. data = Data(data)
  <2> HIDE DEF g, Data
  <2> QED
    BY <1>3
<1>5. ASSUME NEW k \in 0..n
      PROVE  data[k] = IF k = 0 THEN 0 ELSE data[k - 1] + add(k - 1)
  <2>1. Data(data)[k] = IF k = 0 THEN 0 ELSE data[k - 1] + add(k - 1)
    <3> HIDE DEF data
    <3> QED
      OBVIOUS
  <2> HIDE DEF Data, data
  <2> QED
    BY <1>4, <2>1
<1> HIDE DEF data, g
<1> DEFINE T == {k \in Nat : k <= n => data[k] = b % Pow2[k]}
<1>6. 0 \in T
  <2>1. b % 1 = 0 /\ Pow2[0] = 1 /\ data[0] = 0
    BY <1>5, Powers
  <2> QED
    BY <2>1
<1>7. ASSUME NEW k \in T PROVE k + 1 \in T
  <2> SUFFICES ASSUME k + 1 <= n PROVE data[k + 1] = b % Pow2[k + 1]
    OBVIOUS
  <2>1. k \in 0..(n - 1) /\ data[k] = b % Pow2[k] /\ k + 1 \in 0..n /\ k + 1 # 0 /\ (k + 1) - 1 = k
    OBVIOUS
  <2>2. data[k + 1] = data[k] + add(k)
    BY <1>5, <2>1
  <2> HIDE DEF T
  <2> QED
    BY <1>2, <2>1, <2>2
<1>8. T = Nat
  <2>1. T \subseteq Nat
    OBVIOUS
  <2> HIDE DEF T
  <2> QED
    BY <1>6, <1>7, <2>1, SetInduction
<1>9. data[n] = b % Pow2[n]
  BY <1>8
<1>10. b % Pow2[n] = b
  BY Powers, Division
<1> QED
  BY <1>1, <1>9, <1>10

\* A bit is zero or one.
LEMMA BitType ==
    ASSUME NEW n \in Nat, NEW k \in Nat
    PROVE  BitOf(n, k) \in 0..1
<1>1. Pow2[k] \in Nat /\ Pow2[k] > 0
  BY Powers
<1>2. n \div Pow2[k] \in Nat
  BY <1>1, Division
<1> QED
  BY <1>2 DEF BitOf

\* The masks multiply.
LEMMA PowerSum ==
    ASSUME NEW a \in Nat, NEW b \in Nat
    PROVE  Pow2[a + b] = Pow2[a] * Pow2[b]
<1> DEFINE T == {n \in Nat : Pow2[a + n] = Pow2[a] * Pow2[n]}
<1>1. 0 \in T
  <2>1. Pow2[0] = 1 /\ Pow2[a] \in Nat /\ a + 0 = a
    BY Powers
  <2> QED
    BY <2>1
<1>2. ASSUME NEW n \in T PROVE n + 1 \in T
  <2>1. n \in Nat /\ a + n \in Nat /\ Pow2[a + n] = Pow2[a] * Pow2[n] /\ (a + n) + 1 = a + (n + 1)
    OBVIOUS
  <2>2. /\ Pow2[(a + n) + 1] = 2 * Pow2[a + n] /\ Pow2[n + 1] = 2 * Pow2[n]
        /\ Pow2[a] \in Nat /\ Pow2[n] \in Nat
    BY <2>1, Powers
  <2>3. PICK x \in Nat, y \in Nat : x = Pow2[a] /\ y = Pow2[n]
    BY <2>2
  <2>4. 2 * (x * y) = x * (2 * y)
    OBVIOUS
  <2>5. Pow2[a + (n + 1)] = Pow2[a] * Pow2[n + 1]
    BY <2>1, <2>2, <2>3, <2>4
  <2> QED
    BY <2>1, <2>5
<1>3. T = Nat
  <2>1. T \subseteq Nat
    OBVIOUS
  <2> HIDE DEF T
  <2> QED
    BY <1>1, <1>2, <2>1, SetInduction
<1> QED
  BY <1>3

\* A higher bit leaves the lower ones as they are.
LEMMA HigherBit ==
    ASSUME NEW n \in Nat, NEW b \in Nat, b < Pow2[n]
    PROVE  /\ BitOf(b, n) = 0 /\ BitOf(b + Pow2[n], n) = 1
           /\ \A k \in 0..(n - 1) : BitOf(b + Pow2[n], k) = BitOf(b, k)
<1>1. PICK P \in Nat : P = Pow2[n] /\ P > 0
  BY Powers
<1>2. BitOf(b, n) = 0 /\ BitOf(b + Pow2[n], n) = 1
  <2>1. b = 0 * P + b /\ b + P = 1 * P + b /\ b \in 0..(P - 1) /\ b + P \in Nat
    BY <1>1
  <2>2. b \div P = 0
    BY <1>1, <2>1, Quotient
  <2>3. PICK x \in Nat : x = b + P
    BY <2>1
  <2>4. x \div P = 1
    BY <1>1, <2>1, <2>3, Quotient
  <2> QED
    BY <1>1, <2>2, <2>3, <2>4 DEF BitOf
<1>3. ASSUME NEW k \in 0..(n - 1) PROVE BitOf(b + Pow2[n], k) = BitOf(b, k)
  <2>1. PICK d \in Nat : d = Pow2[k] /\ d > 0
    BY Powers
  <2>2. PICK m \in Nat : Pow2[n] = (2 * m) * d
    <3>1. n - k - 1 \in Nat /\ k + ((n - k - 1) + 1) = n /\ (n - k - 1) + 1 \in Nat
      OBVIOUS
    <3>2. PICK m \in Nat : m = Pow2[n - k - 1]
      BY <3>1, Powers
    <3>3. Pow2[(n - k - 1) + 1] = 2 * m
      BY <3>1, <3>2, Powers
    <3>4. Pow2[n] = d * (2 * m)
      BY <2>1, <3>1, <3>3, PowerSum
    <3>5. d * (2 * m) = (2 * m) * d
      OBVIOUS
    <3> QED
      BY <3>4, <3>5
  <2>3. PICK q \in Nat, r \in 0..(d - 1) : b = q * d + r /\ b \div d = q
    BY <2>1, Division
  <2>4. (b + Pow2[n]) \div d = q + 2 * m
    <3>1. PICK x \in Nat : x = b + Pow2[n]
      BY <1>1
    <3>2. x = (q + 2 * m) * d + r
      <4>1. (q + 2 * m) * d + r = (q * d + r) + (2 * m) * d
        OBVIOUS
      <4> QED
        BY <2>2, <2>3, <3>1, <4>1
    <3>3. PICK a \in Nat : a = q + 2 * m
      OBVIOUS
    <3>4. x \div d = a
      BY <3>2, <3>3, Quotient
    <3> QED
      BY <3>1, <3>3, <3>4
  <2>5. (q + 2 * m) % 2 = q % 2
    OBVIOUS
  <2> QED
    BY <2>1, <2>3, <2>4, <2>5 DEF BitOf
<1> QED
  BY <1>2, <1>3

\* The number that is put together has the bits it was made of.
LEMMA BitsOfNumber ==
    ASSUME NEW n \in Nat, NEW ones
    PROVE  /\ Number(ones, n) \in 0..(Pow2[n] - 1)
           /\ \A k \in 0..(n - 1) : k \in ones <=> BitOf(Number(ones, n), k) = 1
<1> DEFINE Has(m, b) == /\ b < Pow2[m]
                        /\ \A k \in 0..(m - 1) : k \in ones <=> BitOf(b, k) = 1
           T == {m \in Nat : \E b \in Nat : Has(m, b)}
<1>1. 0 \in T
  <2>1. Has(0, 0)
    BY Powers
  <2> QED
    BY <2>1
<1>2. ASSUME NEW m \in T PROVE m + 1 \in T
  <2>1. PICK b \in Nat : Has(m, b)
    OBVIOUS
  <2>2. PICK P \in Nat : P = Pow2[m] /\ P > 0 /\ Pow2[m + 1] = 2 * P
    BY Powers
  <2>3. /\ BitOf(b, m) = 0 /\ BitOf(b + P, m) = 1
        /\ \A k \in 0..(m - 1) : BitOf(b + P, k) = BitOf(b, k)
    BY <2>1, <2>2, HigherBit
  <2>4. \A k \in 0..((m + 1) - 1) : k \in 0..(m - 1) \/ k = m
    OBVIOUS
  <2>5. CASE m \in ones
    <3>1. b + P \in Nat /\ b + P < Pow2[m + 1]
      BY <2>1, <2>2
    <3>2. Has(m + 1, b + P)
      BY <2>1, <2>3, <2>4, <2>5, <3>1
    <3> QED
      BY <3>1, <3>2
  <2>6. CASE m \notin ones
    <3>1. b < Pow2[m + 1]
      BY <2>1, <2>2
    <3>2. Has(m + 1, b)
      BY <2>1, <2>3, <2>4, <2>6, <3>1
    <3> QED
      BY <3>2
  <2> QED
    BY <2>5, <2>6
<1>3. T = Nat
  <2>1. T \subseteq Nat
    OBVIOUS
  <2> HIDE DEF T
  <2> QED
    BY <1>1, <1>2, <2>1, SetInduction
<1>4. PICK b \in Nat : Has(n, b)
  BY <1>3
<1>5. Number(ones, n) = b
  BY <1>4, NumberOfBits
<1>6. b \in 0..(Pow2[n] - 1)
  BY <1>4, Powers
<1> QED
  BY <1>4, <1>5, <1>6
=============================================================================
