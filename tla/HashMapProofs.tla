--------------------------- MODULE HashMapProofs ----------------------------
(***************************************************************************)
(* Proofs about HashMap, for every key set, hash, fingerprint and table    *)
(* geometry that HashMapAssumption admits: the probe sequence reaches      *)
(* every slot, the representation invariant, that every search ends, that  *)
(* churn does not grow the table, and that the map implements KeyedStore.  *)
(***************************************************************************)
EXTENDS HashMap, FiniteSetTheorems, TLAPS

USE DEF EMPTY, TOMB

-----------------------------------------------------------------------------
(* Numbers.                                                                *)

\* Every nonempty set of naturals has a least element.
LEMMA LeastNatural ==
  ASSUME NEW S \in SUBSET Nat, S # {}
  PROVE  \E m \in S : \A k \in S : m <= k
<1> DEFINE R == {ss \in Nat \X Nat : ss[1] < ss[2]}
<1>1. IsWellFoundedOn(R, Nat)
  BY NatLessThanWellFounded DEF OpToRel
<1> HIDE DEF R
<1>2. PICK m \in S : \A y \in S : <<y, m>> \notin R
  BY <1>1, WFMin
<1>3. \A y \in S : ~(y < m)
  BY <1>2 DEF R
<1> QED BY <1>3

\* Division has one quotient and one remainder.
LEMMA DivMod ==
  ASSUME NEW x \in Int, NEW c \in Nat \ {0}
  PROVE  x \div c \in Int /\ x % c \in 0..c - 1 /\ x = c * (x \div c) + (x % c)
OBVIOUS

LEMMA ModUnique ==
  ASSUME NEW c \in Nat \ {0}, NEW q \in Int, NEW r \in 0..c - 1
  PROVE  (c * q + r) % c = r /\ (c * q + r) \div c = q
<1> DEFINE x == c * q + r
           d == (x \div c) - q
<1>1. x \in Int /\ x \div c \in Int /\ x % c \in 0..c - 1 /\ x = c * (x \div c) + (x % c)
  BY DivMod
<1>2. d \in Int /\ c * d = r - (x % c)
  <2>1. c * d = c * (x \div c) - c * q
    BY <1>1
  <2> QED BY <1>1, <2>1
<1>3. ~(d >= 1)
  <2> SUFFICES ASSUME d >= 1 PROVE FALSE
    OBVIOUS
  <2>1. c * d >= c
    BY <1>2
  <2> QED BY <1>1, <1>2, <2>1
<1>4. ~(d <= -1)
  <2> SUFFICES ASSUME d <= -1 PROVE FALSE
    OBVIOUS
  <2>1. c * d <= -c
    BY <1>2
  <2> QED BY <1>1, <1>2, <2>1
<1>5. d = 0
  BY <1>2, <1>3, <1>4
<1> QED BY <1>1, <1>2, <1>5

\* A multiple of the modulus does not change a remainder.
LEMMA ModShift ==
  ASSUME NEW c \in Nat \ {0}, NEW x \in Int, NEW q \in Int
  PROVE  (c * q + x) % c = x % c
<1>1. x \div c \in Int /\ x % c \in 0..c - 1 /\ x = c * (x \div c) + (x % c)
  BY DivMod
<1>2. c * q + x = c * (q + (x \div c)) + (x % c)
  BY <1>1
<1> DEFINE d == q + (x \div c)
           r == x % c
<1>3. d \in Int /\ r \in 0..c - 1
  BY <1>1
<1> HIDE DEF d, r
<1>4. (c * d + r) % c = r
  BY <1>3, ModUnique
<1> QED BY <1>2, <1>4 DEF d, r

LEMMA EvenOrOdd ==
  ASSUME NEW n \in Int
  PROVE  \E h \in Int : n = 2 * h \/ n = 2 * h + 1
<1>1. n \div 2 \in Int /\ n % 2 \in 0..1 /\ n = 2 * (n \div 2) + (n % 2)
  OBVIOUS
<1> WITNESS n \div 2 \in Int
<1> QED BY <1>1

LEMMA OddMod ==
  ASSUME NEW n \in Int
  PROVE  /\ n % 2 = 1 <=> \E h \in Int : n = 2 * h + 1
         /\ n % 2 = 0 <=> \E h \in Int : n = 2 * h
OBVIOUS

Divides(d, n) == \E q \in Int : n = d * q

LEMMA Multiple ==
  ASSUME NEW x \in Int, NEW c \in Nat \ {0}
  PROVE  x % c = 0 <=> Divides(c, x)
<1>1. ASSUME x % c = 0 PROVE Divides(c, x)
  <2>1. x \div c \in Int /\ x = c * (x \div c)
    BY <1>1, DivMod
  <2> QED BY <2>1 DEF Divides
<1>2. ASSUME Divides(c, x) PROVE x % c = 0
  <2>1. PICK q \in Int : x = c * q
    BY <1>2 DEF Divides
  <2>2. (c * q + 0) % c = 0
    BY ModUnique
  <2> QED BY <2>1, <2>2
<1> QED BY <1>1, <1>2

\* An odd factor does not help to make a product even.
LEMMA OddTimes ==
  ASSUME NEW x \in Int, NEW y \in Int, x % 2 = 1, Divides(2, x * y)
  PROVE  Divides(2, y)
<1>1. PICK e \in Int : x = 2 * e + 1
  BY OddMod
<1>2. PICK z \in Int : x * y = 2 * z
  BY DEF Divides
<1>3. y = 2 * (z - e * y)
  <2>1. x * y = 2 * (e * y) + y
    BY <1>1
  <2> QED BY <1>2, <2>1
<1>4. z - e * y \in Int
  OBVIOUS
<1> QED BY <1>3, <1>4 DEF Divides

LEMMA Halve ==
  ASSUME NEW n, PowerOf2(n), n # 1
  PROVE  \E h \in Nat \ {0} : n = 2 * h /\ h < n /\ PowerOf2(h)
<1>1. n \in Nat \ {0} /\ \A d \in 1..n : n % d = 0 /\ d % 2 = 1 => d = 1
  BY DEF PowerOf2
<1>2. n % n = 0
  <2>1. n = n * 1
    BY <1>1
  <2> QED BY <1>1, <2>1, Multiple DEF Divides
<1>3. n % 2 # 1
  BY <1>1, <1>2
<1>4. PICK h \in Int : n = 2 * h
  BY <1>1, <1>3, EvenOrOdd, OddMod
<1>5. h \in Nat \ {0} /\ h < n
  BY <1>1, <1>4
<1>6. ASSUME NEW d \in 1..h, h % d = 0, d % 2 = 1 PROVE d = 1
  <2>0. d \in Nat \ {0} /\ h \in Int
    BY <1>5
  <2>1. Divides(d, h)
    BY <1>6, <2>0, Multiple
  <2>2. PICK q \in Int : h = d * q
    BY <2>1 DEF Divides
  <2>3. n = d * (2 * q) /\ 2 * q \in Int
    BY <1>4, <2>2
  <2>4. Divides(d, n)
    BY <2>3 DEF Divides
  <2>5. n % d = 0
    BY <1>1, <2>0, <2>4, Multiple
  <2> QED BY <1>1, <1>5, <1>6, <2>5
<1> QED BY <1>4, <1>5, <1>6 DEF PowerOf2

LEMMA Twice ==
  ASSUME NEW h, PowerOf2(h)
  PROVE  PowerOf2(2 * h)
<1>1. h \in Nat \ {0} /\ \A d \in 1..h : h % d = 0 /\ d % 2 = 1 => d = 1
  BY DEF PowerOf2
<1>2. ASSUME NEW d \in 1..2 * h, (2 * h) % d = 0, d % 2 = 1 PROVE d = 1
  <2>0. 2 * h \in Int /\ d \in Nat \ {0} /\ h \in Int
    BY <1>1
  <2>1. Divides(d, 2 * h)
    BY <1>2, <2>0, Multiple
  <2>2. PICK q \in Int : 2 * h = d * q
    BY <2>1 DEF Divides
  <2>3. Divides(2, q)
    <3>1. Divides(2, d * q)
      BY <2>0, <2>2 DEF Divides
    <3>2. d \in Int /\ d % 2 = 1
      BY <1>2, <2>0
    <3> QED BY <3>1, <3>2, OddTimes
  <2>4. PICK r \in Int : q = 2 * r
    BY <2>3 DEF Divides
  <2>5. h = d * r
    <3>1. d * q = 2 * (d * r)
      BY <2>0, <2>4
    <3>2. d * r \in Int
      BY <2>0
    <3> QED BY <2>0, <2>2, <3>1, <3>2
  <2>6. h % d = 0
    <3>1. Divides(d, h)
      BY <2>5 DEF Divides
    <3> QED BY <2>0, <3>1, Multiple
  <2>7. d <= h
    <3>1. r >= 1
      <4> SUFFICES ASSUME r <= 0 PROVE FALSE
        OBVIOUS
      <4>1. d * r <= 0
        BY <2>0
      <4> QED BY <1>1, <2>5, <4>1
    <3>2. d * r >= d
      BY <2>0, <3>1
    <3> QED BY <2>5, <3>2
  <2> QED BY <1>1, <1>2, <2>0, <2>6, <2>7
<1> QED BY <1>1, <1>2 DEF PowerOf2

\* A power of two that divides a product with an odd factor divides the other one.
LEMMA OddFactor ==
  ASSUME NEW M, PowerOf2(M), NEW x \in Int, x % 2 = 1, NEW y \in Int, Divides(M, x * y)
  PROVE  Divides(M, y)
<1> DEFINE Good(m) == \A yy \in Int : Divides(m, x * yy) => Divides(m, yy)
           Bad == {m \in Nat : PowerOf2(m) /\ ~Good(m)}
<1>1. ASSUME Bad # {} PROVE FALSE
  <2>1. PICK m \in Bad : \A k \in Bad : m <= k
    BY <1>1, LeastNatural
  <2>2. m # 1
    <3> SUFFICES Good(1)
      BY <2>1
    <3> TAKE yy \in Int
    <3> HAVE Divides(1, x * yy)
    <3>1. yy = 1 * yy
      OBVIOUS
    <3> QED BY <3>1 DEF Divides
  <2>3. PICK h \in Nat \ {0} : m = 2 * h /\ h < m /\ PowerOf2(h)
    BY <2>1, <2>2, Halve
  <2>4. Good(h)
    <3> HIDE DEF Good
    <3>1. h \notin Bad
      <4> HIDE DEF Bad
      <4> QED BY <2>1, <2>3
    <3> QED BY <2>3, <3>1
  <2>5. ASSUME NEW yy \in Int, Divides(m, x * yy) PROVE Divides(m, yy)
    <3>1. PICK qq \in Int : x * yy = m * qq
      BY <2>5 DEF Divides
    <3>2. h * qq \in Int /\ x * yy = 2 * (h * qq)
      BY <2>3, <3>1
    <3>3. Divides(2, x * yy)
      BY <3>2 DEF Divides
    <3>4. Divides(2, yy)
      BY <3>3, OddTimes
    <3>5. PICK z \in Int : yy = 2 * z
      BY <3>4 DEF Divides
    <3>6. x * z = h * qq
      <4>1. x * yy = 2 * (x * z)
        BY <3>5
      <4>2. x * z \in Int
        OBVIOUS
      <4> QED BY <3>2, <4>1, <4>2
    <3>7. Divides(h, x * z)
      BY <3>6 DEF Divides
    <3>8. Divides(h, z)
      BY <2>4, <3>7
    <3>9. PICK t \in Int : z = h * t
      BY <3>8 DEF Divides
    <3>10. yy = m * t
      BY <2>3, <3>5, <3>9
    <3> QED BY <3>10 DEF Divides
  <2>6. Good(m)
    BY <2>5
  <2> QED BY <2>1, <2>6
<1>2. Good(M)
  BY <1>1 DEF PowerOf2
<1> QED BY <1>2

-----------------------------------------------------------------------------
(* The triangular jumps.                                                   *)

Triangle(n) == (n * (n + 1)) \div 2

LEMMA TriangleTwice ==
  ASSUME NEW n \in Nat
  PROVE  Triangle(n) \in Nat /\ 2 * Triangle(n) = n * (n + 1)
<1> DEFINE x == n * (n + 1)
<1>1. x \in Nat
  OBVIOUS
<1>2. x % 2 = 0
  <2>1. Divides(2, x)
    <3>1. PICK h \in Int : n = 2 * h \/ n = 2 * h + 1
      BY EvenOrOdd
    <3>2. CASE n = 2 * h
      <4>1. x = 2 * (h * (n + 1)) /\ h * (n + 1) \in Int
        BY <3>2
      <4> QED BY <4>1 DEF Divides
    <3>3. CASE n = 2 * h + 1
      <4>1. x = 2 * (n * (h + 1)) /\ n * (h + 1) \in Int
        BY <3>3
      <4> QED BY <4>1 DEF Divides
    <3> QED BY <3>1, <3>2, <3>3
  <2> QED BY <1>1, <2>1, Multiple
<1> HIDE DEF x
<1>3. x \div 2 \in Nat /\ x = 2 * (x \div 2)
  BY <1>1, <1>2
<1> QED BY <1>3 DEF Triangle, x

\* Two numbers below a power of two M have triangular numbers that differ modulo M.
LEMMA TrianglesDiffer ==
  ASSUME NEW M, PowerOf2(M), NEW a \in 0..M - 1, NEW b \in 0..M - 1, a < b,
         Triangle(a) % M = Triangle(b) % M
  PROVE  FALSE
<1>1. M \in Nat \ {0} /\ a \in Nat /\ b \in Nat
  BY DEF PowerOf2
<1>2. /\ Triangle(a) \in Nat /\ 2 * Triangle(a) = a * (a + 1)
      /\ Triangle(b) \in Nat /\ 2 * Triangle(b) = b * (b + 1)
  BY <1>1, TriangleTwice
<1> DEFINE x == b - a
           y == a + b + 1
<1>3. x \in Int /\ y \in Int /\ x * y = b * (b + 1) - a * (a + 1)
  BY <1>1
<1>4. PICK q \in Int : Triangle(b) - Triangle(a) = M * q
  <2> DEFINE u == Triangle(b) \div M
             v == Triangle(a) \div M
  <2>1. u \in Int /\ v \in Int /\ Triangle(b) - Triangle(a) = M * u - M * v
    <3>1. \A z \in Int : z \div M \in Int /\ z = M * (z \div M) + (z % M) /\ z % M \in 0..M - 1
      BY <1>1, DivMod
    <3>2. /\ u \in Int /\ Triangle(b) = M * u + (Triangle(b) % M)
          /\ v \in Int /\ Triangle(a) = M * v + (Triangle(a) % M)
      BY <1>2, <3>1
    <3>3. M * u \in Int /\ M * v \in Int /\ Triangle(b) % M \in Int
      BY <1>1, <1>2, <3>1, <3>2
    <3> QED BY <3>2, <3>3
  <2>2. u - v \in Int /\ M * u - M * v = M * (u - v)
    BY <1>1, <2>1
  <2> QED BY <2>1, <2>2
<1> DEFINE N == 2 * M
<1>5. x * y = N * q
  BY <1>1, <1>2, <1>3, <1>4
<1>6. N \in Nat \ {0} /\ PowerOf2(N) /\ Divides(N, x * y)
  BY <1>1, <1>5, Twice DEF Divides
<1>7. x % 2 = 1 \/ y % 2 = 1
  BY <1>1
<1>8. 0 < x /\ x < N /\ 0 < y /\ y < N
  BY <1>1
<1>9. ASSUME NEW z \in Int, 0 < z, z < N, Divides(N, z) PROVE FALSE
  <2>1. PICK t \in Int : z = N * t
    BY <1>9 DEF Divides
  <2>2. t >= 1 => N * t >= N
    BY <1>6
  <2>3. t <= 0 => N * t <= 0
    BY <1>6
  <2> QED BY <1>6, <1>9, <2>1, <2>2, <2>3
<1> HIDE DEF x, y, N
<1>10. CASE x % 2 = 1
  <2>1. Divides(N, y)
    BY <1>3, <1>6, <1>10, OddFactor
  <2> QED BY <1>3, <1>8, <1>9, <2>1
<1>11. CASE y % 2 = 1
  <2>1. x * y = y * x
    BY <1>3
  <2>2. Divides(N, x)
    BY <1>3, <1>6, <1>11, <2>1, OddFactor
  <2> QED BY <1>3, <1>8, <1>9, <2>2
<1> QED BY <1>7, <1>10, <1>11

\* So the triangular numbers reach every remainder.
LEMMA TrianglesReach ==
  ASSUME NEW M, PowerOf2(M), NEW r \in 0..M - 1
  PROVE  \E n \in 0..M - 1 : Triangle(n) % M = r
<1> DEFINE I == 0..M - 1
           f == [n \in I |-> Triangle(n) % M]
<1>1. M \in Nat \ {0}
  BY DEF PowerOf2
<1>2. \A n \in I : Triangle(n) \in Nat
  BY <1>1, TriangleTwice
<1>3. f \in [I -> I]
  <2>1. \A z \in Int : z % M \in I
    BY <1>1, DivMod
  <2> QED BY <1>2, <2>1
<1>4. f \in Injection(I, I)
  <2>1. \A a, b \in I : f[a] = f[b] => a = b
    <3> SUFFICES ASSUME NEW a \in I, NEW b \in I, f[a] = f[b], a # b PROVE FALSE
      OBVIOUS
    <3> DEFINE Meet(i, j) == Triangle(i) % M = Triangle(j) % M
    <3>1. Meet(a, b) /\ Meet(b, a)
      OBVIOUS
    <3>2. a < b \/ b < a
      BY <1>1
    <3>3. ASSUME NEW i \in I, NEW j \in I, i < j PROVE ~Meet(i, j)
      BY <3>3, TrianglesDiffer
    <3> HIDE DEF Meet, I, f
    <3>4. CASE a < b
      BY <3>1, <3>3, <3>4
    <3>5. CASE b < a
      BY <3>1, <3>3, <3>5
    <3> QED BY <3>2, <3>4, <3>5
  <2> QED BY <1>3, <2>1 DEF Injection, IsInjective
<1>5. IsFiniteSet(I)
  BY <1>1, FS_Interval
<1> HIDE DEF f, I
<1>6. f \in Surjection(I, I)
  BY <1>4, <1>5, FS_Injection
<1>7. PICK n \in I : f[n] = r
  BY <1>6 DEF Surjection, I
<1> QED BY <1>7 DEF f, I

-----------------------------------------------------------------------------
(* The probe sequence.                                                     *)

\* The sizes a table may have.
CapOK(c) == c \in Nat /\ c >= MinCap /\ \E m \in Nat : PowerOf2(m) /\ c = Group * m

LEMMA Geometry ==
  /\ Group \in Nat \ {0} /\ MinCap \in Nat /\ FillPart \in Nat /\ 2 <= FillPart /\ FillPart <= MinCap
  /\ PurgeUnit \in Nat \ {0} /\ PurgeKeep \in Nat
BY HashMapAssumption

LEMMA MinCapOK == CapOK(MinCap) /\ MinCap >= 2
BY HashMapAssumption DEF CapOK

LEMMA CapFacts ==
  ASSUME NEW c, CapOK(c)
  PROVE  c \in Nat /\ c >= MinCap /\ c >= 2 /\ c >= Group /\ CapOK(2 * c)
<1>1. PICK m \in Nat : PowerOf2(m) /\ c = Group * m
  BY DEF CapOK
<1>2. m \in Nat \ {0} /\ Group \in Nat \ {0}
  BY <1>1, HashMapAssumption DEF PowerOf2
<1>3. c >= Group
  BY <1>1, <1>2
<1>4. 2 * c = Group * (2 * m) /\ PowerOf2(2 * m)
  BY <1>1, <1>2, Twice
<1> QED BY <1>2, <1>3, <1>4, HashMapAssumption DEF CapOK

LEMMA HomeType ==
  ASSUME NEW k \in Keys, NEW c \in Nat
  PROVE  Home(k, c) \in Nat
<1>1. Hash[k] \in Nat /\ HashSize \in Nat \ {0}
  BY HashMapAssumption
<1>2. Hash[k] * c \in Nat
  BY <1>1
<1> QED BY <1>1, <1>2 DEF Home

LEMMA SlotType ==
  ASSUME NEW k \in Keys, NEW c, CapOK(c), NEW p \in Nat
  PROVE  /\ Anchor(k, p, c) \in 0..c - 1 /\ p % Group \in 0..Group - 1
         /\ Slot(k, p, c) \in 0..c - 1
         /\ Slot(k, p, c) = IF Anchor(k, p, c) + (p % Group) < c THEN Anchor(k, p, c) + (p % Group)
                            ELSE Anchor(k, p, c) + (p % Group) - c
<1>1. c \in Nat \ {0} /\ Group \in Nat \ {0} /\ c >= Group
  BY CapFacts, HashMapAssumption
<1>2. p \div Group \in Nat /\ p % Group \in 0..Group - 1
  BY <1>1
<1> DEFINE T == ((p \div Group) * ((p \div Group) + 1)) \div 2
<1>3. T \in Nat
  BY <1>2, TriangleTwice DEF Triangle
<1> HIDE DEF T
<1>4. Home(k, c) + Group * T \in Int
  BY <1>1, <1>3, HomeType
<1>5. Anchor(k, p, c) \in 0..c - 1
  BY <1>1, <1>4, DivMod DEF Anchor, T
<1> DEFINE x == Anchor(k, p, c) + (p % Group)
<1>6. x \in Nat /\ x < 2 * c
  BY <1>1, <1>2, <1>5
<1> HIDE DEF x
<1>7. x % c = IF x < c THEN x ELSE x - c
  <2>1. CASE x < c
    <3>1. (c * 0 + x) % c = x
      BY <1>1, <1>6, <2>1, ModUnique
    <3> QED BY <1>1, <1>6, <2>1, <3>1
  <2>2. CASE x >= c
    <3> DEFINE y == x - c
    <3>1. y \in 0..c - 1 /\ x = c * 1 + y
      BY <1>1, <1>6, <2>2
    <3> HIDE DEF y
    <3>2. (c * 1 + y) % c = y
      BY <1>1, <3>1, ModUnique
    <3> QED BY <1>1, <1>6, <2>2, <3>1, <3>2 DEF y
  <2> QED BY <1>1, <1>6, <2>1, <2>2
<1> QED BY <1>1, <1>2, <1>5, <1>6, <1>7 DEF Slot, x

\* The walk covers every slot of the table (hash_map.hpp:439).
THEOREM Coverage ==
  ASSUME NEW k \in Keys, NEW c, CapOK(c), NEW i \in 0..c - 1
  PROVE  \E p \in 0..c - 1 : Slot(k, p, c) = i
<1> DEFINE G == Group
           h == Home(k, c)
<1>1. PICK M \in Nat : PowerOf2(M) /\ c = G * M
  BY DEF CapOK
<1>2. M \in Nat \ {0} /\ G \in Nat \ {0} /\ c \in Nat \ {0} /\ h \in Nat /\ i \in Nat
  BY <1>1, CapFacts, HashMapAssumption, HomeType DEF PowerOf2
<1> HIDE DEF G, h
<1> DEFINE a == h \div G
           r == h % G
           b == i \div G
           t == i % G
           s == IF t >= r THEN t - r ELSE t - r + G
           u == IF t >= r THEN b - a ELSE b - a - 1
<1>3. a \in Int /\ r \in 0..G - 1 /\ h = G * a + r
  BY <1>2, DivMod
<1>4. b \in Int /\ t \in 0..G - 1 /\ i = G * b + t
  BY <1>2, DivMod
<1> HIDE DEF a, r, b, t
<1>5. s \in 0..G - 1 /\ u \in Int /\ i = h + s + G * u
  BY <1>2, <1>3, <1>4
<1> HIDE DEF s, u
<1>6. PICK n \in 0..M - 1 : Triangle(n) % M = u % M
  BY <1>1, <1>2, <1>5, TrianglesReach, DivMod
<1>7. n \in Nat /\ Triangle(n) \in Nat
  BY <1>2, TriangleTwice
<1>8. PICK w \in Int : Triangle(n) = u + M * w
  <2> DEFINE T == Triangle(n)
             x == T \div M
             y == u \div M
  <2>0. \A z \in Int : z \div M \in Int /\ z = M * (z \div M) + (z % M) /\ z % M \in Int
    BY <1>2, DivMod
  <2>1. x \in Int /\ T = M * x + (T % M) /\ T % M \in Int
    BY <1>7, <2>0
  <2>2. y \in Int /\ u = M * y + (u % M) /\ u % M \in Int
    BY <1>5, <2>0
  <2> HIDE DEF x, y, T
  <2>3. x - y \in Int /\ T = u + M * (x - y)
    BY <1>2, <1>6, <2>1, <2>2 DEF T
  <2> QED BY <2>3 DEF T
<1> DEFINE p == G * n + s
<1>9. p \in 0..c - 1
  <2>1. G * n <= G * (M - 1)
    BY <1>2
  <2>2. G * (M - 1) = c - G
    BY <1>1, <1>2
  <2>3. G * n \in Nat
    BY <1>2, <1>7
  <2> QED BY <1>2, <1>5, <2>1, <2>2, <2>3
<1>10. p \div G = n /\ p % G = s
  BY <1>2, <1>5, <1>7, ModUnique
<1> HIDE DEF p
<1> DEFINE x == h + G * Triangle(n)
<1>11. Anchor(k, p, c) = x % c
  BY <1>10 DEF Anchor, Triangle, G, h
<1>12. x \in Int /\ x + s = i + c * w
  <2>1. G * Triangle(n) = G * u + c * w
    <3>1. G * (u + M * w) = G * u + (G * M) * w
      BY <1>2, <1>5
    <3> QED BY <1>1, <1>8, <3>1
  <2>2. c * w \in Int /\ G * u \in Int /\ G * Triangle(n) \in Int
    BY <1>2, <1>5, <1>7
  <2> QED BY <1>2, <1>5, <2>1, <2>2
<1> HIDE DEF x
<1>13. (x % c) + s = c * (w - (x \div c)) + i /\ w - (x \div c) \in Int
  <2>1. x \div c \in Int /\ x = c * (x \div c) + (x % c) /\ x % c \in Int
    <3>1. \A z \in Int : z \div c \in Int /\ z = c * (z \div c) + (z % c) /\ z % c \in Int
      BY <1>2, DivMod
    <3> QED BY <1>12, <3>1
  <2> DEFINE z == x \div c
             e == x % c
  <2> HIDE DEF z, e
  <2>2. z \in Int /\ x = c * z + e /\ e \in Int
    BY <2>1 DEF z, e
  <2>3. e + s = c * (w - z) + i
    BY <1>2, <1>5, <1>12, <2>2
  <2> QED BY <2>2, <2>3 DEF z, e
<1>14. ((x % c) + s) % c = i
  <2> DEFINE z == w - (x \div c)
  <2> HIDE DEF z
  <2>1. z \in Int /\ (x % c) + s = c * z + i
    BY <1>13 DEF z
  <2>2. (c * z + i) % c = i
    BY <1>2, <2>1, ModUnique
  <2> QED BY <2>1, <2>2
<1>15. Slot(k, p, c) = i
  BY <1>10, <1>11, <1>14 DEF Slot, G
<1> QED BY <1>9, <1>15

-----------------------------------------------------------------------------
(* The representation invariant.                                           *)

Used(t) == {i \in Path(t) : t.state[i] \notin {EMPTY, TOMB}}
Buried(t) == {i \in Path(t) : t.state[i] = TOMB}

\* A search for k that goes on to slot i meets no EMPTY before it.
Reaches(t, k, i) ==
  \E p \in Path(t) : Slot(k, p, t.cap) = i /\ \A q \in 0..p - 1 : ~EndsAt(t, k, q)

\* A table whose entries below slot n have been moved out: each entry left lies on its key's path
\* before the first EMPTY, under its key's fingerprint, and no key has two.
TableInv(t, n) ==
  /\ TableOK(t) /\ MirrorInSync(t) /\ (t.cap > 0 => CapOK(t.cap))
  /\ \A i \in Live(t) : i >= n /\ t.state[i] = Fp[t.ent[i].key] /\ Reaches(t, t.ent[i].key, i)
  /\ \A i \in Used(t) : i >= n => i \in Live(t)
  /\ \A i, j \in Live(t) : t.ent[i].key = t.ent[j].key => i = j

Pending == IF call.op \in {"insert", "try_emplace"} THEN 1 ELSE 0
Earned(c) == c > MinCap => PurgeLimit(c \div 2) <= peak

Apart == \A i \in Live(Table), j \in Live(new) : ent[i].key # new.ent[j].key
\* Between rehashes the counters describe the table, and leave room for the call that waits.
Settled ==
  /\ at = 0 /\ tombs = Cardinality(Buried(Table)) /\ size + tombs + Pending <= MaxFill(cap)
  /\ call.op # "reserve"
\* The table a rehash fills has no tombstones, and will have room for the call that waits.
Rehashing == new.cap > 0 /\ ~Idle /\ Buried(new) = {} /\ size + Pending <= MaxFill(new.cap)

Inv ==
  /\ TypeOK /\ new = [cap |-> new.cap, state |-> new.state, ent |-> new.ent]
  /\ TableInv(Table, at) /\ TableInv(new, 0) /\ Apart
  /\ size = Cardinality(Live(Table)) + Cardinality(Live(new)) /\ size <= peak
  /\ new = NoTable => Settled
  /\ new # NoTable => Rehashing
  /\ Earned(cap) /\ Earned(new.cap)

LEMMA FpType == \A k \in Keys : Fp[k] \in Fps /\ Fp[k] \notin {EMPTY, TOMB}
BY HashMapAssumption DEF Fps

LEMMA AbsentIsNoEntry == Absent \notin Entries
BY HashMapAssumption DEF Entries

Bytes == Fps \cup {EMPTY, TOMB}
Mirrored(c, st) ==
  st \in [0..c + Group - 1 -> Bytes] /\ \A j \in 0..Group - 1 : st[c + j] = st[j]

\* A write of a state byte writes its mirror too.
LEMMA SetByte ==
  ASSUME NEW c, CapOK(c), NEW st, Mirrored(c, st), NEW i \in 0..c - 1, NEW b \in Bytes
  PROVE  /\ Mirrored(c, SetState(c, st, i, b))
         /\ \A j \in 0..c - 1 : SetState(c, st, i, b)[j] = IF j = i THEN b ELSE st[j]
<1> USE DEF Mirrored
<1>1. c \in Nat /\ c >= Group /\ Group \in Nat \ {0}
  BY CapFacts, HashMapAssumption
<1>2. \A j \in 0..c - 1 : j \in 0..c + Group - 1
  BY <1>1
<1>3. \A j \in 0..Group - 1 : j \in 0..c - 1 /\ c + j \in 0..c + Group - 1 /\ c + j \notin 0..c - 1
  BY <1>1
<1>4. CASE i < Group
  <2>1. SetState(c, st, i, b) = [st EXCEPT ![i] = b, ![c + i] = b]
    BY <1>4 DEF SetState
  <2>2. i \in 0..Group - 1
    BY <1>1, <1>4
  <2>3. \A j \in 0..Group - 1 : c + j = c + i <=> j = i
    BY <1>1
  <2> QED BY <1>2, <1>3, <2>1, <2>2, <2>3
<1>5. CASE ~(i < Group)
  <2>1. SetState(c, st, i, b) = [st EXCEPT ![i] = b]
    BY <1>5 DEF SetState
  <2>2. i \notin 0..Group - 1
    BY <1>1, <1>5
  <2> QED BY <1>2, <1>3, <2>1, <2>2
<1> QED BY <1>4, <1>5

\* The byte a group load finds at a position of a path is that of the position's slot.
LEMMA ByteIs ==
  ASSUME NEW t, TableOK(t), MirrorInSync(t), CapOK(t.cap), NEW k \in Keys, NEW p \in Nat
  PROVE  Slot(k, p, t.cap) \in Path(t) /\ Byte(t, k, p) = t.state[Slot(k, p, t.cap)]
<1> DEFINE a == Anchor(k, p, t.cap)
           r == p % Group
           c == t.cap
<1>1. c \in Nat /\ c >= Group /\ c > 0 /\ Group \in Nat \ {0}
  BY CapFacts, HashMapAssumption
<1>2. /\ a \in 0..c - 1 /\ r \in 0..Group - 1 /\ Slot(k, p, c) \in 0..c - 1
      /\ Slot(k, p, c) = IF a + r < c THEN a + r ELSE a + r - c
  BY SlotType
<1> HIDE DEF a, r, c
<1>3. Byte(t, k, p) = t.state[a + r]
  BY DEF Byte, a, r, c
<1>4. CASE a + r < c
  BY <1>2, <1>3, <1>4 DEF c, Path
<1>5. CASE ~(a + r < c)
  <2> DEFINE j == a + r - c
  <2>1. j \in 0..Group - 1 /\ a + r = c + j
    BY <1>1, <1>2, <1>5
  <2> HIDE DEF j
  <2>2. t.state[c + j] = t.state[j]
    BY <1>1, <2>1 DEF MirrorInSync, c
  <2> QED BY <1>2, <1>3, <1>5, <2>1, <2>2 DEF c, Path, j
<1> QED BY <1>4, <1>5

\* What TableInv says of a table that is in use.
LEMMA TableFacts ==
  ASSUME NEW t, NEW n, TableInv(t, n), t.cap # 0
  PROVE  /\ TableOK(t) /\ MirrorInSync(t) /\ CapOK(t.cap) /\ t.cap \in Nat /\ t.cap > 0
         /\ t.state \in [0..t.cap + Group - 1 -> Fps \cup {EMPTY, TOMB}]
         /\ t.ent \in [0..t.cap - 1 -> Entries \cup {Absent}]
         /\ Path(t) = 0..t.cap - 1 /\ Live(t) \subseteq Path(t)
         /\ \A i \in Live(t) : t.ent[i] \in Entries /\ t.ent[i].key \in Keys /\ t.ent[i].val \in Vals
         /\ \A i \in Path(t) : i \in 0..t.cap + Group - 1
<1>1. t.cap \in Nat /\ t.cap > 0
  BY DEF TableInv, TableOK
<1>2. \A i \in Live(t) : t.ent[i] \in Entries
  BY DEF TableInv, TableOK, Live
<1>3. Group \in Nat \ {0}
  BY HashMapAssumption
<1> QED BY <1>1, <1>2, <1>3 DEF TableInv, TableOK, Live, Path, Entries

\* A search finds a key exactly when the table holds it, and then its slot.
LEMMA Finds ==
  ASSUME NEW t, TableInv(t, 0), NEW k \in Keys
  PROVE  /\ Located(t, k) <=> \E i \in Live(t) : t.ent[i].key = k
         /\ Located(t, k) => SlotOf(t, k) \in Live(t) /\ t.ent[SlotOf(t, k)].key = k
<1>0. CASE t.cap = 0
  <2>1. Live(t) = {}
    BY <1>0 DEF Live
  <2> QED BY <1>0, <2>1 DEF Located
<1>9. CASE t.cap # 0
  <2>1. /\ TableOK(t) /\ MirrorInSync(t) /\ CapOK(t.cap) /\ t.cap \in Nat /\ t.cap > 0
        /\ Path(t) = 0..t.cap - 1 /\ Live(t) \subseteq Path(t)
    BY <1>9, TableFacts
  <2>2. ASSUME NEW p \in Path(t), FoundAt(t, k, p)
        PROVE  Slot(k, p, t.cap) \in Live(t) /\ t.ent[Slot(k, p, t.cap)].key = k
    <3> DEFINE i == Slot(k, p, t.cap)
    <3>0. p \in Nat
      BY <2>1
    <3>1. i \in Path(t) /\ t.state[i] = Fp[k] /\ t.ent[i].key = k
      BY <2>1, <2>2, <3>0, ByteIs DEF FoundAt, Holds
    <3>2. i \in Used(t)
      BY <3>1, FpType DEF Used
    <3> HIDE DEF i
    <3>3. i >= 0
      BY <2>1, <3>1
    <3> QED BY <3>1, <3>2, <3>3 DEF TableInv, i
  <2>3. ASSUME NEW i \in Live(t), t.ent[i].key = k
        PROVE  \E p \in Path(t) : FoundAt(t, k, p)
    <3>1. Reaches(t, k, i) /\ t.state[i] = Fp[k]
      BY <2>3 DEF TableInv
    <3>2. PICK p \in Path(t) : Slot(k, p, t.cap) = i /\ \A q \in 0..p - 1 : ~EndsAt(t, k, q)
      BY <3>1 DEF Reaches
    <3>3. Byte(t, k, p) = t.state[i]
      <4>1. p \in Nat
        BY <2>1
      <4> QED BY <2>1, <3>2, <4>1, ByteIs
    <3> QED BY <2>3, <3>1, <3>2, <3>3 DEF FoundAt, Holds
  <2>4. Located(t, k) <=> \E p \in Path(t) : FoundAt(t, k, p)
    BY <2>1 DEF Located
  <2>5. ASSUME Located(t, k)
        PROVE  SlotOf(t, k) \in Live(t) /\ t.ent[SlotOf(t, k)].key = k
    <3> DEFINE p == CHOOSE p \in Path(t) : FoundAt(t, k, p)
    <3>1. p \in Path(t) /\ FoundAt(t, k, p)
      BY <2>4, <2>5
    <3> QED BY <2>2, <3>1 DEF SlotOf
  <2> QED BY <2>2, <2>3, <2>4, <2>5
<1> QED BY <1>0, <1>9

LEMMA PathFinite ==
  ASSUME NEW t, t.cap \in Nat
  PROVE  /\ IsFiniteSet(Path(t)) /\ Cardinality(Path(t)) = t.cap
         /\ IsFiniteSet(Live(t)) /\ IsFiniteSet(Used(t)) /\ IsFiniteSet(Buried(t))
         /\ Cardinality(Live(t)) \in Nat /\ Cardinality(Used(t)) \in Nat
         /\ Cardinality(Buried(t)) \in Nat
<1>1. IsFiniteSet(Path(t)) /\ Cardinality(Path(t)) = t.cap
  <2> DEFINE e == t.cap - 1
  <2>1. e \in Int /\ (IF 0 > e THEN 0 ELSE e - 0 + 1) = t.cap
    OBVIOUS
  <2> HIDE DEF e
  <2>2. IsFiniteSet(0..e) /\ Cardinality(0..e) = IF 0 > e THEN 0 ELSE e - 0 + 1
    BY <2>1, FS_Interval
  <2> QED BY <2>1, <2>2 DEF Path, e
<1>2. Live(t) \in SUBSET Path(t) /\ Used(t) \in SUBSET Path(t) /\ Buried(t) \in SUBSET Path(t)
  BY DEF Live, Used, Buried, Path
<1>3. IsFiniteSet(Live(t)) /\ IsFiniteSet(Used(t)) /\ IsFiniteSet(Buried(t))
  BY <1>1, <1>2, FS_Subset
<1> QED BY <1>1, <1>3, FS_CardinalityType

\* The slots in use are those that hold an entry.
LEMMA UsedIsLive ==
  ASSUME NEW t, TableInv(t, 0)
  PROVE  Used(t) = Live(t)
<1>1. CASE t.cap = 0
  BY <1>1 DEF Used, Live, Path
<1>2. CASE t.cap # 0
  <2>1. Path(t) = 0..t.cap - 1 /\ \A i \in Live(t) : t.ent[i].key \in Keys
    BY <1>2, TableFacts
  <2>2. \A i \in Path(t) : i >= 0
    BY <2>1
  <2>3. Used(t) \subseteq Live(t)
    BY <2>2 DEF TableInv, Used
  <2>4. \A i \in Live(t) : t.state[i] = Fp[t.ent[i].key] /\ i \in Path(t)
    BY <2>1 DEF TableInv, Live
  <2>5. Live(t) \subseteq Used(t)
    BY <2>1, <2>4, FpType DEF Used
  <2> QED BY <2>3, <2>5
<1> QED BY <1>1, <1>2

LEMMA FillFacts ==
  ASSUME NEW c, CapOK(c)
  PROVE  MaxFill(c) \in Nat /\ MaxFill(c) < c
<1>1. c \in Nat /\ c >= FillPart /\ FillPart \in Nat \ {0}
  BY CapFacts, Geometry
<1> DEFINE q == c \div FillPart
<1>2. q \in Int /\ c = FillPart * q + (c % FillPart) /\ c % FillPart \in 0..FillPart - 1
  BY <1>1, DivMod
<1> HIDE DEF q
<1>3. q >= 1
  <2> SUFFICES ASSUME q <= 0 PROVE FALSE
    BY <1>2
  <2>1. FillPart * q <= 0
    BY <1>1, <1>2
  <2> QED BY <1>1, <1>2, <2>1
<1>4. q <= c
  <2> SUFFICES ASSUME q > c PROVE FALSE
    BY <1>1, <1>2
  <2>1. FillPart * q >= q
    BY <1>1, <1>2
  <2> QED BY <1>1, <1>2, <2>1
<1> QED BY <1>1, <1>2, <1>3, <1>4 DEF MaxFill, q

\* A table that is not overfull has an EMPTY on every key's path.
LEMMA EmptyOnPath ==
  ASSUME NEW t, TableInv(t, 0), t.cap # 0, NEW k \in Keys,
         Cardinality(Used(t)) + Cardinality(Buried(t)) <= MaxFill(t.cap)
  PROVE  \E p \in Path(t) : EndsAt(t, k, p)
<1>1. TableOK(t) /\ MirrorInSync(t) /\ CapOK(t.cap) /\ t.cap \in Nat /\ Path(t) = 0..t.cap - 1
  BY TableFacts
<1>2. /\ IsFiniteSet(Used(t)) /\ IsFiniteSet(Buried(t)) /\ Cardinality(Path(t)) = t.cap
      /\ Cardinality(Used(t)) \in Nat /\ Cardinality(Buried(t)) \in Nat
  BY <1>1, PathFinite
<1>3. Used(t) \cap Buried(t) = {}
  BY DEF Used, Buried
<1>4. Cardinality(Used(t) \cup Buried(t)) = Cardinality(Used(t)) + Cardinality(Buried(t))
  <2>1. Cardinality(Used(t) \cap Buried(t)) = 0
    BY <1>3, FS_EmptySet
  <2>2. Cardinality(Used(t) \cup Buried(t))
          = Cardinality(Used(t)) + Cardinality(Buried(t)) - Cardinality(Used(t) \cap Buried(t))
    BY <1>2, FS_Union
  <2> QED BY <1>2, <2>1, <2>2
<1>5. Used(t) \cup Buried(t) # Path(t)
  <2>1. MaxFill(t.cap) \in Nat /\ MaxFill(t.cap) < t.cap
    <3> DEFINE c == t.cap
    <3> HIDE DEF c
    <3>1. CapOK(c)
      BY <1>1 DEF c
    <3>2. MaxFill(c) \in Nat /\ MaxFill(c) < c
      BY <3>1, FillFacts
    <3> QED BY <3>2 DEF c
  <2>2. Cardinality(Used(t) \cup Buried(t)) <= MaxFill(t.cap)
    BY <1>4
  <2>3. Cardinality(Used(t) \cup Buried(t)) # Cardinality(Path(t))
    BY <1>1, <1>2, <1>4, <2>1, <2>2
  <2> QED BY <2>3
<1>6. PICK i \in Path(t) : t.state[i] = EMPTY
  BY <1>5 DEF Used, Buried
<1>7. PICK p \in Path(t) : Slot(k, p, t.cap) = i
  <2> DEFINE c == t.cap
  <2>1. CapOK(c) /\ i \in 0..c - 1
    BY <1>1
  <2> HIDE DEF c
  <2>2. \E p \in 0..c - 1 : Slot(k, p, c) = i
    BY <2>1, Coverage
  <2> QED BY <1>1, <2>2 DEF c
<1>8. Byte(t, k, p) = EMPTY
  <2>1. p \in Nat
    BY <1>1
  <2> QED BY <1>1, <1>6, <1>7, <2>1, ByteIs
<1> QED BY <1>8 DEF EndsAt

\* A new key's entry goes to a slot of its path before the first EMPTY that is free.
Puts(t, u, k, v, p) ==
  /\ t.cap # 0 /\ \A i \in Live(t) : t.ent[i].key # k
  /\ p \in Path(t) /\ FreeAt(t, k, p) /\ \A q \in 0..p - 1 : ~EndsAt(t, k, q)
  /\ u.cap = t.cap /\ u.state = SetState(t.cap, t.state, Slot(k, p, t.cap), Fp[k])
  /\ u.ent = [t.ent EXCEPT ![Slot(k, p, t.cap)] = [key |-> k, val |-> v]]

LEMMA PutEntry ==
  ASSUME NEW t, TableInv(t, 0), NEW k \in Keys, NEW v \in Vals, NEW p, NEW u, Puts(t, u, k, v, p)
  PROVE  /\ TableInv(u, 0) /\ Slot(k, p, t.cap) \in Path(t)
         /\ Slot(k, p, t.cap) \notin Live(t) /\ Live(u) = Live(t) \cup {Slot(k, p, t.cap)}
         /\ Buried(u) = Buried(t) \ {Slot(k, p, t.cap)}
         /\ t.state[Slot(k, p, t.cap)] = TOMB <=> Slot(k, p, t.cap) \in Buried(t)
         /\ \A i \in Live(t) : u.ent[i] = t.ent[i]
         /\ u.ent[Slot(k, p, t.cap)] = [key |-> k, val |-> v]
<1> USE DEF Puts
<1> DEFINE c == t.cap
           i == Slot(k, p, c)
<1>1. /\ TableOK(t) /\ MirrorInSync(t) /\ CapOK(c) /\ c \in Nat /\ c > 0
      /\ t.state \in [0..c + Group - 1 -> Fps \cup {EMPTY, TOMB}]
      /\ t.ent \in [0..c - 1 -> Entries \cup {Absent}]
      /\ Path(t) = 0..c - 1 /\ Live(t) \subseteq Path(t)
      /\ \A j \in Live(t) : t.ent[j] \in Entries /\ t.ent[j].key \in Keys
  BY TableFacts
<1>2. \A kk \in Keys, q \in Path(t) : Slot(kk, q, c) \in Path(t) /\ Byte(t, kk, q) = t.state[Slot(kk, q, c)]
  <2> TAKE kk \in Keys, q \in Path(t)
  <2>1. q \in Nat
    BY <1>1
  <2> QED BY <1>1, <2>1, ByteIs
<1> HIDE DEF c, i
<1>3. i \in Path(t) /\ t.state[i] \in {EMPTY, TOMB}
  BY <1>2 DEF FreeAt, i
<1>4. i \notin Live(t)
  BY <1>1, <1>3, FpType DEF TableInv
<1>5. Fp[k] \in Fps /\ Fp[k] \notin {EMPTY, TOMB}
  BY FpType
<1>6. /\ u.cap = c /\ Path(u) = Path(t)
      /\ u.state \in [0..c + Group - 1 -> Fps \cup {EMPTY, TOMB}]
      /\ \A j \in 0..Group - 1 : u.state[c + j] = u.state[j]
      /\ \A j \in Path(t) : u.state[j] = IF j = i THEN Fp[k] ELSE t.state[j]
  <2>1. u.state = SetState(c, t.state, i, Fp[k]) /\ u.cap = c
    BY DEF c, i
  <2>2. \A j \in 0..Group - 1 : t.state[c + j] = t.state[j]
    BY <1>1 DEF MirrorInSync, c
  <2>3. i \in 0..c - 1 /\ Fp[k] \in Fps \cup {EMPTY, TOMB}
    BY <1>1, <1>3, <1>5
  <2>4. Mirrored(c, t.state) /\ Fp[k] \in Bytes
    BY <1>1, <2>2, <2>3 DEF Mirrored, Bytes
  <2>5. Mirrored(c, u.state) /\ \A j \in 0..c - 1 : u.state[j] = IF j = i THEN Fp[k] ELSE t.state[j]
    BY <1>1, <2>1, <2>3, <2>4, SetByte
  <2> QED BY <1>1, <2>1, <2>5 DEF Path, Mirrored, Bytes
<1>7. /\ u.ent \in [0..c - 1 -> Entries \cup {Absent}]
      /\ \A j \in Path(t) : u.ent[j] = IF j = i THEN [key |-> k, val |-> v] ELSE t.ent[j]
  <2>1. [key |-> k, val |-> v] \in Entries
    BY DEF Entries
  <2>2. u.ent = [t.ent EXCEPT ![i] = [key |-> k, val |-> v]]
    BY DEF c, i
  <2> QED BY <1>1, <1>3, <2>1, <2>2
<1>8. TableOK(u) /\ MirrorInSync(u) /\ CapOK(u.cap)
  BY <1>1, <1>6, <1>7 DEF TableOK, MirrorInSync, CapOK
<1>9. [key |-> k, val |-> v] # Absent /\ [key |-> k, val |-> v].key = k
  BY AbsentIsNoEntry DEF Entries
<1>10. Live(u) = Live(t) \cup {i} /\ Buried(u) = Buried(t) \ {i}
  <2>1. Live(u) = {j \in Path(t) : u.ent[j] # Absent} /\ Live(t) = {j \in Path(t) : t.ent[j] # Absent}
    BY <1>1, <1>6 DEF Live, c
  <2>2. Buried(u) = {j \in Path(t) : u.state[j] = TOMB} /\ Buried(t) = {j \in Path(t) : t.state[j] = TOMB}
    BY <1>6 DEF Buried
  <2>3. Live(u) = Live(t) \cup {i}
    BY <1>3, <1>7, <1>9, <2>1
  <2>4. Buried(u) = Buried(t) \ {i}
    BY <1>3, <1>5, <1>6, <2>2
  <2> QED BY <2>3, <2>4
<1>11. \A kk \in Keys, q \in Path(t) : Byte(u, kk, q) = u.state[Slot(kk, q, c)]
  <2> TAKE kk \in Keys, q \in Path(t)
  <2>1. q \in Nat
    BY <1>1
  <2> QED BY <1>6, <1>8, <2>1, ByteIs
<1>12. \A kk \in Keys, q \in Path(t) : EndsAt(u, kk, q) => EndsAt(t, kk, q)
  BY <1>2, <1>5, <1>6, <1>11 DEF EndsAt
<1>13. \A q \in Path(t) : 0..q - 1 \subseteq Path(t)
  BY <1>1
<1>14. \A kk \in Keys, j \in Path(t) : Reaches(t, kk, j) => Reaches(u, kk, j)
  <2> TAKE kk \in Keys, j \in Path(t)
  <2> HAVE Reaches(t, kk, j)
  <2>1. PICK q \in Path(t) : Slot(kk, q, c) = j /\ \A r \in 0..q - 1 : ~EndsAt(t, kk, r)
    BY DEF Reaches, c
  <2> QED BY <1>6, <1>12, <1>13, <2>1 DEF Reaches
<1>15. Reaches(u, k, i)
  BY <1>6, <1>12, <1>13 DEF Reaches, i, c
<1>16. \A j \in Live(u) : j >= 0 /\ u.state[j] = Fp[u.ent[j].key] /\ Reaches(u, u.ent[j].key, j)
  <2> TAKE j \in Live(u)
  <2>0. \A jj \in Path(t) : jj >= 0
    BY <1>1
  <2>1. CASE j = i
    BY <1>3, <1>6, <1>7, <1>9, <1>15, <2>0, <2>1
  <2>2. CASE j # i
    <3>1. j \in Live(t) /\ j \in Path(t)
      BY <1>1, <1>10, <2>2
    <3>2. t.state[j] = Fp[t.ent[j].key] /\ Reaches(t, t.ent[j].key, j)
      BY <3>1 DEF TableInv
    <3> QED BY <1>1, <1>6, <1>7, <1>14, <2>0, <2>2, <3>1, <3>2
  <2> QED BY <2>1, <2>2
<1>17. \A j \in Used(u) : j >= 0 => j \in Live(u)
  <2>1. Used(t) = Live(t)
    BY UsedIsLive
  <2>2. Used(u) \subseteq Used(t) \cup {i}
    BY <1>6 DEF Used
  <2> QED BY <1>10, <2>1, <2>2
<1>18. \A a, b \in Live(u) : u.ent[a].key = u.ent[b].key => a = b
  <2>1. \A a, b \in Live(t) : t.ent[a].key = t.ent[b].key => a = b
    BY DEF TableInv
  <2> QED BY <1>1, <1>3, <1>7, <1>9, <1>10, <2>1
<1>19. TableInv(u, 0)
  BY <1>8, <1>16, <1>17, <1>18 DEF TableInv
<1>20. (t.state[i] = TOMB <=> i \in Buried(t)) /\ u.ent[i] = [key |-> k, val |-> v]
       /\ \A j \in Live(t) : u.ent[j] = t.ent[j]
  BY <1>1, <1>3, <1>4, <1>7 DEF Buried
<1> QED BY <1>3, <1>4, <1>10, <1>19, <1>20 DEF c, i

\* An erased entry's slot becomes a tombstone.
Buries(t, u, i) ==
  /\ u.cap = t.cap /\ u.state = SetState(t.cap, t.state, i, TOMB)
  /\ u.ent = [t.ent EXCEPT ![i] = Absent]

LEMMA BuryEntry ==
  ASSUME NEW t, TableInv(t, 0), NEW i \in Live(t), NEW u, Buries(t, u, i)
  PROVE  /\ TableInv(u, 0) /\ Live(u) = Live(t) \ {i}
         /\ Buried(u) = Buried(t) \cup {i} /\ i \notin Buried(t)
         /\ \A j \in Live(u) : u.ent[j] = t.ent[j]
<1> USE DEF Buries
<1> DEFINE c == t.cap
<1>0. c # 0
  BY DEF Live
<1>1. /\ TableOK(t) /\ MirrorInSync(t) /\ CapOK(c) /\ c \in Nat /\ c > 0
      /\ t.state \in [0..c + Group - 1 -> Fps \cup {EMPTY, TOMB}]
      /\ t.ent \in [0..c - 1 -> Entries \cup {Absent}]
      /\ Path(t) = 0..c - 1 /\ Live(t) \subseteq Path(t)
      /\ \A j \in Live(t) : t.ent[j] \in Entries /\ t.ent[j].key \in Keys
  BY <1>0, TableFacts
<1>2. \A kk \in Keys, q \in Path(t) : Slot(kk, q, c) \in Path(t) /\ Byte(t, kk, q) = t.state[Slot(kk, q, c)]
  <2> TAKE kk \in Keys, q \in Path(t)
  <2>1. q \in Nat
    BY <1>1
  <2> QED BY <1>1, <2>1, ByteIs
<1> HIDE DEF c
<1>3. i \in Path(t) /\ t.state[i] \notin {EMPTY, TOMB}
  BY <1>1, FpType DEF TableInv
<1>6. /\ u.cap = c /\ Path(u) = Path(t)
      /\ u.state \in [0..c + Group - 1 -> Fps \cup {EMPTY, TOMB}]
      /\ \A j \in 0..Group - 1 : u.state[c + j] = u.state[j]
      /\ \A j \in Path(t) : u.state[j] = IF j = i THEN TOMB ELSE t.state[j]
  <2>1. u.state = SetState(c, t.state, i, TOMB) /\ u.cap = c
    BY DEF c
  <2>2. \A j \in 0..Group - 1 : t.state[c + j] = t.state[j]
    BY <1>1 DEF MirrorInSync, c
  <2>3. i \in 0..c - 1
    BY <1>1, <1>3
  <2>4. Mirrored(c, t.state) /\ TOMB \in Bytes
    BY <1>1, <2>2, <2>3 DEF Mirrored, Bytes
  <2>5. Mirrored(c, u.state) /\ \A j \in 0..c - 1 : u.state[j] = IF j = i THEN TOMB ELSE t.state[j]
    BY <1>1, <2>1, <2>3, <2>4, SetByte
  <2> QED BY <1>1, <2>1, <2>5 DEF Path, Mirrored, Bytes
<1>7. /\ u.ent \in [0..c - 1 -> Entries \cup {Absent}]
      /\ \A j \in Path(t) : u.ent[j] = IF j = i THEN Absent ELSE t.ent[j]
  BY <1>1, <1>3 DEF c
<1>8. TableOK(u) /\ MirrorInSync(u) /\ CapOK(u.cap)
  BY <1>1, <1>6, <1>7 DEF TableOK, MirrorInSync, CapOK
<1>10. Live(u) = Live(t) \ {i} /\ Buried(u) = Buried(t) \cup {i} /\ i \notin Buried(t)
  <2>1. Live(u) = {j \in Path(t) : u.ent[j] # Absent} /\ Live(t) = {j \in Path(t) : t.ent[j] # Absent}
    BY <1>1, <1>6 DEF Live, c
  <2>2. Buried(u) = {j \in Path(t) : u.state[j] = TOMB} /\ Buried(t) = {j \in Path(t) : t.state[j] = TOMB}
    BY <1>6 DEF Buried
  <2>3. Live(u) = Live(t) \ {i}
    BY <1>3, <1>7, <2>1
  <2>4. Buried(u) = Buried(t) \cup {i} /\ i \notin Buried(t)
    BY <1>3, <1>6, <2>2
  <2> QED BY <2>3, <2>4
<1>11. \A kk \in Keys, q \in Path(t) : Byte(u, kk, q) = u.state[Slot(kk, q, c)]
  <2> TAKE kk \in Keys, q \in Path(t)
  <2>1. q \in Nat
    BY <1>1
  <2> QED BY <1>6, <1>8, <2>1, ByteIs
<1>12. \A kk \in Keys, q \in Path(t) : EndsAt(u, kk, q) => EndsAt(t, kk, q)
  BY <1>2, <1>6, <1>11 DEF EndsAt
<1>13. \A q \in Path(t) : 0..q - 1 \subseteq Path(t)
  BY <1>1
<1>14. \A kk \in Keys, j \in Path(t) : Reaches(t, kk, j) => Reaches(u, kk, j)
  <2> TAKE kk \in Keys, j \in Path(t)
  <2> HAVE Reaches(t, kk, j)
  <2>1. PICK q \in Path(t) : Slot(kk, q, c) = j /\ \A r \in 0..q - 1 : ~EndsAt(t, kk, r)
    BY DEF Reaches, c
  <2> QED BY <1>6, <1>12, <1>13, <2>1 DEF Reaches
<1>15. \A j \in Live(u) : j \in Live(t) /\ j \in Path(t) /\ j # i /\ u.ent[j] = t.ent[j]
  BY <1>1, <1>7, <1>10
<1>16. \A j \in Live(u) : j >= 0 /\ u.state[j] = Fp[u.ent[j].key] /\ Reaches(u, u.ent[j].key, j)
  <2> TAKE j \in Live(u)
  <2>1. \A jj \in Path(t) : jj >= 0
    BY <1>1
  <2>2. t.state[j] = Fp[t.ent[j].key] /\ Reaches(t, t.ent[j].key, j)
    BY <1>15 DEF TableInv
  <2> QED BY <1>1, <1>6, <1>14, <1>15, <2>1, <2>2
<1>17. \A j \in Used(u) : j >= 0 => j \in Live(u)
  <2>1. Used(t) = Live(t)
    BY UsedIsLive
  <2>2. Used(u) \subseteq Used(t) \ {i}
    BY <1>6 DEF Used
  <2> QED BY <1>10, <2>1, <2>2
<1>18. \A a, b \in Live(u) : u.ent[a].key = u.ent[b].key => a = b
  <2>1. \A a, b \in Live(t) : t.ent[a].key = t.ent[b].key => a = b
    BY DEF TableInv
  <2> QED BY <1>15, <2>1
<1>19. TableInv(u, 0)
  BY <1>8, <1>16, <1>17, <1>18 DEF TableInv
<1> QED BY <1>10, <1>15, <1>19

\* What depends on the state bytes alone stays when entries change.
LEMMA SameState ==
  ASSUME NEW t, NEW u, u.cap = t.cap, u.state = t.state
  PROVE  /\ Path(u) = Path(t) /\ Used(u) = Used(t) /\ Buried(u) = Buried(t)
         /\ \A k, i : Reaches(u, k, i) <=> Reaches(t, k, i)
<1>1. Path(u) = Path(t)
  BY DEF Path
<1>2. \A k, q : EndsAt(u, k, q) <=> EndsAt(t, k, q)
  BY DEF EndsAt, Byte
<1> QED BY <1>1, <1>2 DEF Used, Buried, Reaches

\* An entry's value changes in its slot.
Changes(t, u, i, v) == u.cap = t.cap /\ u.state = t.state /\ u.ent = [t.ent EXCEPT ![i].val = v]

LEMMA ChangeValue ==
  ASSUME NEW t, TableInv(t, 0), NEW i \in Live(t), NEW v \in Vals, NEW u, Changes(t, u, i, v)
  PROVE  /\ TableInv(u, 0) /\ Live(u) = Live(t) /\ Buried(u) = Buried(t)
         /\ \A j \in Live(t) : u.ent[j] = IF j = i THEN [key |-> t.ent[i].key, val |-> v] ELSE t.ent[j]
<1> USE DEF Changes
<1> DEFINE c == t.cap
<1>0. c # 0
  BY DEF Live
<1>1. /\ TableOK(t) /\ MirrorInSync(t) /\ CapOK(c) /\ c \in Nat /\ c > 0
      /\ t.ent \in [0..c - 1 -> Entries \cup {Absent}]
      /\ Path(t) = 0..c - 1 /\ Live(t) \subseteq Path(t)
      /\ \A j \in Live(t) : t.ent[j] \in Entries /\ t.ent[j].key \in Keys
  BY <1>0, TableFacts
<1>2. [t.ent[i] EXCEPT !.val = v] = [key |-> t.ent[i].key, val |-> v]
  BY <1>1 DEF Entries
<1>3. [key |-> t.ent[i].key, val |-> v] \in Entries
  BY <1>1 DEF Entries
<1>4. u.ent = [t.ent EXCEPT ![i] = [key |-> t.ent[i].key, val |-> v]]
  BY <1>1, <1>2
<1>5. /\ u.ent \in [0..c - 1 -> Entries \cup {Absent}]
      /\ \A j \in Path(t) : u.ent[j] = IF j = i THEN [key |-> t.ent[i].key, val |-> v] ELSE t.ent[j]
  BY <1>1, <1>3, <1>4
<1>6. Live(u) = Live(t)
  BY <1>1, <1>3, <1>5, AbsentIsNoEntry DEF Live
<1>7. Path(u) = Path(t) /\ Used(u) = Used(t) /\ Buried(u) = Buried(t)
      /\ \A k, j : Reaches(u, k, j) <=> Reaches(t, k, j)
  BY SameState
<1>8. TableOK(u) /\ MirrorInSync(u) /\ CapOK(u.cap)
  BY <1>1, <1>5 DEF TableOK, MirrorInSync, CapOK
<1>9. \A j \in Live(t) : u.ent[j].key = t.ent[j].key
  BY <1>1, <1>5
<1>10. TableInv(u, 0)
  BY <1>6, <1>7, <1>8, <1>9 DEF TableInv
<1> QED BY <1>1, <1>5, <1>6, <1>7, <1>10

\* A rehash has looked at one more slot of the old table.
Passes(t, u, n) ==
  /\ u.cap = t.cap /\ u.state = t.state
  /\ \/ t.state[n] \in {EMPTY, TOMB} /\ u.ent = t.ent
     \/ t.state[n] \notin {EMPTY, TOMB} /\ u.ent = [t.ent EXCEPT ![n] = Absent]

LEMMA MoveOut ==
  ASSUME NEW t, NEW n \in Path(t), TableInv(t, n), NEW u, Passes(t, u, n)
  PROVE  /\ TableInv(u, n + 1) /\ Live(u) = Live(t) \ {n}
         /\ n \in Live(t) <=> t.state[n] \notin {EMPTY, TOMB}
         /\ \A j \in Live(u) : u.ent[j] = t.ent[j]
<1> USE DEF Passes
<1> DEFINE c == t.cap
<1>0. c # 0
  BY DEF Path
<1>1. /\ TableOK(t) /\ MirrorInSync(t) /\ CapOK(c) /\ c \in Nat /\ c > 0
      /\ t.ent \in [0..c - 1 -> Entries \cup {Absent}]
      /\ Path(t) = 0..c - 1 /\ Live(t) \subseteq Path(t)
      /\ \A j \in Live(t) : t.ent[j] \in Entries /\ t.ent[j].key \in Keys
  BY <1>0, TableFacts
<1>2. n \in Live(t) <=> t.state[n] \notin {EMPTY, TOMB}
  <2>1. n \in Used(t) <=> t.state[n] \notin {EMPTY, TOMB}
    BY DEF Used
  <2>2. n \in Used(t) => n \in Live(t)
    BY <1>1 DEF TableInv
  <2>3. n \in Live(t) => t.state[n] \notin {EMPTY, TOMB}
    BY <1>1, FpType DEF TableInv
  <2> QED BY <2>1, <2>2, <2>3
<1>3. /\ u.ent \in [0..c - 1 -> Entries \cup {Absent}]
      /\ \A j \in Path(t) : u.ent[j] = IF j = n THEN Absent ELSE t.ent[j]
  <2>1. CASE t.state[n] \in {EMPTY, TOMB} /\ u.ent = t.ent
    <3>1. t.ent[n] = Absent
      BY <1>1, <1>2, <2>1 DEF Live
    <3> QED BY <1>1, <2>1, <3>1
  <2>2. CASE t.state[n] \notin {EMPTY, TOMB} /\ u.ent = [t.ent EXCEPT ![n] = Absent]
    BY <1>1, <2>2
  <2> QED BY <2>1, <2>2
<1>6. Live(u) = Live(t) \ {n}
  BY <1>1, <1>3 DEF Live
<1>7. Path(u) = Path(t) /\ Used(u) = Used(t) /\ Buried(u) = Buried(t)
      /\ \A k, j : Reaches(u, k, j) <=> Reaches(t, k, j)
  BY SameState
<1>8. TableOK(u) /\ MirrorInSync(u) /\ CapOK(u.cap)
  BY <1>1, <1>3 DEF TableOK, MirrorInSync, CapOK
<1>9. \A j \in Live(u) : j \in Live(t) /\ j # n /\ u.ent[j] = t.ent[j]
  BY <1>1, <1>3, <1>6
<1>10. \A j \in Live(u) : j >= n + 1 /\ u.state[j] = Fp[u.ent[j].key] /\ Reaches(u, u.ent[j].key, j)
  <2> TAKE j \in Live(u)
  <2>1. j >= n /\ t.state[j] = Fp[t.ent[j].key] /\ Reaches(t, t.ent[j].key, j)
    BY <1>9 DEF TableInv
  <2>2. j \in Int /\ n \in Int
    BY <1>1, <1>9
  <2> QED BY <1>7, <1>9, <2>1, <2>2
<1>11. \A j \in Used(u) : j >= n + 1 => j \in Live(u)
  <2> TAKE j \in Used(u)
  <2> HAVE j >= n + 1
  <2>1. j \in Int /\ n \in Int
    BY <1>1, <1>7 DEF Used
  <2>2. j \in Live(t)
    BY <1>7, <2>1 DEF TableInv
  <2> QED BY <1>6, <2>1, <2>2
<1>12. \A a, b \in Live(u) : u.ent[a].key = u.ent[b].key => a = b
  BY <1>9 DEF TableInv
<1>13. TableInv(u, n + 1)
  BY <1>8, <1>10, <1>11, <1>12 DEF TableInv
<1> QED BY <1>2, <1>6, <1>9, <1>13

\* A table without entries.
LEMMA EmptyTable ==
  ASSUME NEW t, CapOK(t.cap), t.state = [i \in 0..t.cap + Group - 1 |-> EMPTY],
         t.ent = [i \in 0..t.cap - 1 |-> Absent]
  PROVE  TableInv(t, 0) /\ Live(t) = {} /\ Buried(t) = {} /\ Used(t) = {}
<1>1. t.cap \in Nat /\ t.cap >= MinCap /\ t.cap >= 2 /\ Group \in Nat \ {0} /\ t.cap >= Group
  BY CapFacts, Geometry
<1>2. \A i \in 0..Group - 1 : i \in 0..t.cap + Group - 1 /\ t.cap + i \in 0..t.cap + Group - 1
  BY <1>1
<1>3. \A i \in Path(t) : i \in 0..t.cap + Group - 1
  BY <1>1 DEF Path
<1>4. Live(t) = {} /\ Buried(t) = {} /\ Used(t) = {}
  BY <1>3 DEF Live, Buried, Used, Path
<1>5. TableOK(t) /\ MirrorInSync(t)
  BY <1>1, <1>2 DEF TableOK, MirrorInSync
<1> QED BY <1>4, <1>5 DEF TableInv

LEMMA NoTableInv ==
  ASSUME NEW t, t.cap = 0, t.state = NoTable.state, t.ent = NoTable.ent
  PROVE  TableInv(t, 0) /\ Live(t) = {} /\ Buried(t) = {} /\ Used(t) = {}
<1>1. 0..t.cap - 1 = {}
  OBVIOUS
<1>2. Live(t) = {} /\ Buried(t) = {} /\ Used(t) = {}
  BY <1>1 DEF Live, Buried, Used, Path
<1>3. t.ent \in [0..t.cap - 1 -> Entries \cup {Absent}]
  BY <1>1 DEF NoTable
<1>4. TableOK(t) /\ MirrorInSync(t)
  BY <1>3 DEF TableOK, MirrorInSync
<1> QED BY <1>2, <1>4 DEF TableInv

-----------------------------------------------------------------------------
(* The fill and the rebuild threshold.                                     *)

\* The quotient of a division is the largest multiple that fits.
LEMMA Quotient ==
  ASSUME NEW x \in Nat, NEW c \in Nat \ {0}
  PROVE  x \div c \in Nat /\ c * (x \div c) <= x /\ x < c * (x \div c) + c
<1> DEFINE q == x \div c
           r == x % c
<1>1. q \in Int /\ r \in 0..c - 1 /\ x = c * q + r
  BY DivMod
<1> HIDE DEF q, r
<1>2. q >= 0
  <2> SUFFICES ASSUME q <= -1 PROVE FALSE
    BY <1>1
  <2>1. c * q <= -c
    BY <1>1
  <2> QED BY <1>1, <2>1
<1>3. c * q \in Int
  BY <1>1
<1> QED BY <1>1, <1>2, <1>3 DEF q

LEMMA FillMonotone ==
  ASSUME NEW c \in Nat, NEW d \in Nat, c <= d
  PROVE  MaxFill(c) \in Nat /\ MaxFill(c) <= MaxFill(d)
<1> DEFINE F == FillPart
           a == c \div F
           b == d \div F
<1>1. F \in Nat \ {0}
  BY Geometry
<1> HIDE DEF F
<1>2. a \in Nat /\ F * a <= c /\ c < F * a + F
  BY <1>1, Quotient
<1>3. b \in Nat /\ F * b <= d /\ d < F * b + F
  BY <1>1, Quotient
<1> HIDE DEF a, b
<1>4. a <= c
  <2>1. F * a >= a
    BY <1>1, <1>2
  <2>2. F * a \in Nat
    BY <1>1, <1>2
  <2> QED BY <1>2, <2>1, <2>2
<1>5. b - a <= d - c
  <2> SUFFICES ASSUME b - a >= d - c + 1 PROVE FALSE
    BY <1>2, <1>3
  <2> DEFINE e == d - c
             g == b - a
  <2>1. F * g < e + F
    <3>1. F * g = F * b - F * a
      BY <1>1, <1>2, <1>3
    <3>2. F * a \in Nat /\ F * b \in Nat
      BY <1>1, <1>2, <1>3
    <3> QED BY <1>1, <1>2, <1>3, <3>1, <3>2
  <2>2. g \in Int /\ e \in Nat /\ g >= e + 1
    BY <1>2, <1>3
  <2> HIDE DEF e, g
  <2>3. F * g >= F * (e + 1)
    BY <1>1, <2>2
  <2>4. F * (e + 1) = F * e + F /\ F * e >= e
    BY <1>1, <2>2
  <2>5. F * g \in Int /\ F * e \in Int
    BY <1>1, <2>2
  <2> QED BY <1>1, <2>1, <2>2, <2>3, <2>4, <2>5
<1> QED BY <1>2, <1>3, <1>4, <1>5 DEF MaxFill, a, b, F

\* A doubled table has room for one entry more than the full one had.
LEMMA FillGrows ==
  ASSUME NEW c, CapOK(c)
  PROVE  MaxFill(c) + 1 <= MaxFill(2 * c)
<1> DEFINE F == FillPart
           d == 2 * c
           a == c \div F
           b == d \div F
<1>1. F \in Nat \ {0} /\ F >= 2 /\ c \in Nat /\ c >= F /\ d \in Nat
  BY Geometry, CapFacts
<1> HIDE DEF F, d
<1>2. a \in Nat /\ F * a <= c /\ c < F * a + F
  BY <1>1, Quotient
<1>3. b \in Nat /\ F * b <= d /\ d < F * b + F
  BY <1>1, Quotient
<1> HIDE DEF a, b
<1>4. a >= 1
  <2> SUFFICES ASSUME a = 0 PROVE FALSE
    BY <1>2
  <2> QED BY <1>1, <1>2
<1>5. b <= c
  <2>1. F * b >= 2 * b
    BY <1>1, <1>3
  <2>2. F * b \in Nat
    BY <1>1, <1>3
  <2> QED BY <1>1, <1>3, <2>1, <2>2 DEF d
<1> QED BY <1>1, <1>2, <1>3, <1>4, <1>5 DEF MaxFill, a, b, F, d

\* A table worth rebuilding in place is not full.
LEMMA PurgeBelowFill ==
  ASSUME NEW c \in Nat
  PROVE  PurgeLimit(c) \in Nat /\ PurgeLimit(c) <= MaxFill(c)
<1> DEFINE F == FillPart
           U == PurgeUnit
           K == PurgeKeep
           q == c \div U
           a == c \div F
<1>1. F \in Nat \ {0} /\ U \in Nat \ {0} /\ K \in Nat
  BY Geometry
<1>2. K * F <= U * (F - 1)
  BY HashMapAssumption
<1> HIDE DEF F, U, K
<1>3. q \in Nat /\ U * q <= c
  BY <1>1, Quotient
<1>4. a \in Nat /\ F * a <= c
  BY <1>1, Quotient
<1> HIDE DEF q, a
<1> DEFINE l == q * K
<1>5. l \in Nat
  BY <1>1, <1>3
<1>6. F * l <= (F - 1) * c
  <2>1. F * l = q * (K * F)
    BY <1>1, <1>3
  <2>2. q * (K * F) <= q * (U * (F - 1))
    BY <1>1, <1>2, <1>3
  <2>3. q * (U * (F - 1)) = (F - 1) * (U * q)
    BY <1>1, <1>3
  <2>4. (F - 1) * (U * q) <= (F - 1) * c
    BY <1>1, <1>3
  <2>5. F * l \in Int /\ q * (U * (F - 1)) \in Int /\ (F - 1) * c \in Int
    BY <1>1, <1>3, <1>5
  <2> QED BY <2>1, <2>2, <2>3, <2>4, <2>5
<1> HIDE DEF l
<1>7. F * l + F * a <= F * c
  <2>1. (F - 1) * c + c = F * c
    BY <1>1
  <2>2. F * l \in Int /\ F * a \in Int /\ F * c \in Int /\ (F - 1) * c \in Int
    BY <1>1, <1>4, <1>5
  <2> QED BY <1>4, <1>6, <2>1, <2>2
<1>8. l + a <= c
  <2> SUFFICES ASSUME l + a >= c + 1 PROVE FALSE
    BY <1>4, <1>5
  <2>1. F * (l + a) >= F * (c + 1)
    BY <1>1, <1>4, <1>5
  <2>2. F * (l + a) = F * l + F * a /\ F * (c + 1) = F * c + F
    BY <1>1, <1>4, <1>5
  <2>3. F * l \in Int /\ F * a \in Int /\ F * c \in Int
    BY <1>1, <1>4, <1>5
  <2> QED BY <1>1, <1>7, <2>1, <2>2, <2>3
<1> QED BY <1>4, <1>5, <1>8 DEF PurgeLimit, MaxFill, l, q, a, U, K, F

-----------------------------------------------------------------------------
(* What the tables hold, as a map.                                         *)

ContentsOf(S) == [k \in {e.key : e \in S} |-> (CHOOSE e \in S : e.key = k).val]
Put(F, e) == [j \in DOMAIN F \cup {e.key} |-> IF j = e.key THEN e.val ELSE F[j]]
OneEach(S) == S \subseteq Entries /\ \A d, e \in S : d.key = e.key => d = e

LEMMA Look ==
  ASSUME NEW S, OneEach(S)
  PROVE  /\ DOMAIN ContentsOf(S) = {e.key : e \in S}
         /\ \A e \in S : ContentsOf(S)[e.key] = e.val
<1>1. \A d \in S : (CHOOSE e \in S : e.key = d.key) = d
  BY DEF OneEach
<1> QED BY <1>1 DEF ContentsOf

LEMMA AddOne ==
  ASSUME NEW S, OneEach(S), NEW e \in Entries, \A d \in S : d.key # e.key
  PROVE  /\ OneEach(S \cup {e})
         /\ ContentsOf(S \cup {e}) = Put(ContentsOf(S), e)
<1> DEFINE T == S \cup {e}
<1>1. OneEach(T)
  BY DEF OneEach
<1>2. {d.key : d \in T} = {d.key : d \in S} \cup {e.key}
  OBVIOUS
<1>3. /\ DOMAIN ContentsOf(S) = {d.key : d \in S} /\ \A d \in S : ContentsOf(S)[d.key] = d.val
      /\ DOMAIN ContentsOf(T) = {d.key : d \in T} /\ \A d \in T : ContentsOf(T)[d.key] = d.val
  BY <1>1, Look
<1> DEFINE G == Put(ContentsOf(S), e)
<1> USE DEF Put
<1>4. DOMAIN ContentsOf(T) = DOMAIN G
  BY <1>2, <1>3
<1>5. \A j \in DOMAIN G : ContentsOf(T)[j] = G[j]
  <2> TAKE j \in DOMAIN G
  <2>1. PICK d \in T : d.key = j
    BY <1>3, <1>4
  <2>2. ContentsOf(T)[j] = d.val
    BY <1>3, <2>1
  <2>3. CASE d = e
    BY <2>1, <2>2, <2>3
  <2>4. CASE d # e
    <3>1. d \in S
      BY <2>4
    <3> QED BY <1>3, <2>1, <2>2, <3>1
  <2> QED BY <2>3, <2>4
<1>6. ContentsOf(T) = G
  <2>1. ContentsOf(T) = [j \in DOMAIN G |-> ContentsOf(T)[j]]
    BY <1>4 DEF ContentsOf
  <2> QED BY <1>5, <2>1
<1> QED BY <1>1, <1>6

LEMMA RemoveOne ==
  ASSUME NEW S, OneEach(S), NEW d \in S
  PROVE  /\ OneEach(S \ {d}) /\ \A e \in S \ {d} : e.key # d.key
         /\ ContentsOf(S \ {d}) = [j \in DOMAIN ContentsOf(S) \ {d.key} |-> ContentsOf(S)[j]]
<1> DEFINE T == S \ {d}
<1>1. OneEach(T) /\ \A e \in T : e.key # d.key
  BY DEF OneEach
<1>2. {e.key : e \in T} = {e.key : e \in S} \ {d.key}
  BY <1>1
<1>3. /\ DOMAIN ContentsOf(S) = {e.key : e \in S} /\ \A e \in S : ContentsOf(S)[e.key] = e.val
      /\ DOMAIN ContentsOf(T) = {e.key : e \in T} /\ \A e \in T : ContentsOf(T)[e.key] = e.val
  BY <1>1, Look
<1> DEFINE G == [j \in DOMAIN ContentsOf(S) \ {d.key} |-> ContentsOf(S)[j]]
<1>4. DOMAIN ContentsOf(T) = DOMAIN G
  BY <1>2, <1>3
<1>5. \A j \in DOMAIN G : ContentsOf(T)[j] = G[j]
  <2> TAKE j \in DOMAIN G
  <2>1. PICK e \in T : e.key = j
    BY <1>3, <1>4
  <2> QED BY <1>3, <2>1
<1>6. ContentsOf(T) = G
  <2>1. ContentsOf(T) = [j \in DOMAIN G |-> ContentsOf(T)[j]]
    BY <1>4 DEF ContentsOf
  <2> QED BY <1>5, <2>1
<1> QED BY <1>1, <1>6

LEMMA ReplaceOne ==
  ASSUME NEW S, OneEach(S), NEW d \in S, NEW e \in Entries, e.key = d.key
  PROVE  /\ OneEach((S \ {d}) \cup {e})
         /\ ContentsOf((S \ {d}) \cup {e}) = Put(ContentsOf(S), e)
<1> DEFINE T == S \ {d}
<1>1. /\ OneEach(T) /\ \A f \in T : f.key # e.key
      /\ ContentsOf(T) = [j \in DOMAIN ContentsOf(S) \ {e.key} |-> ContentsOf(S)[j]]
  BY RemoveOne
<1> HIDE DEF T
<1>2. OneEach(T \cup {e}) /\ ContentsOf(T \cup {e}) = Put(ContentsOf(T), e)
  BY <1>1, AddOne
<1>3. DOMAIN ContentsOf(T) \cup {e.key} = DOMAIN ContentsOf(S) \cup {e.key}
  BY <1>1
<1>4. \A j \in DOMAIN ContentsOf(S) : j # e.key => ContentsOf(T)[j] = ContentsOf(S)[j]
  BY <1>1
<1>5. Put(ContentsOf(T), e) = Put(ContentsOf(S), e)
  BY <1>3, <1>4 DEF Put
<1> QED BY <1>2, <1>5 DEF T

\* Each key has one entry in the two tables together.
LEMMA StoredOneEach == Inv => OneEach(Stored) /\ Contents = ContentsOf(Stored)
<1> SUFFICES ASSUME Inv PROVE OneEach(Stored)
  BY DEF Contents, ContentsOf
<1>1. /\ \A i \in Live(Table) : ent[i] \in Entries
      /\ \A i, j \in Live(Table) : ent[i].key = ent[j].key => i = j
  <2>1. Table.ent = ent
    BY DEF Table
  <2>2. TableInv(Table, at)
    BY DEF Inv
  <2> QED BY <2>1, <2>2 DEF TableInv, TableOK, Live
<1>2. /\ \A i \in Live(new) : new.ent[i] \in Entries
      /\ \A i, j \in Live(new) : new.ent[i].key = new.ent[j].key => i = j
  BY DEF Inv, TableInv, TableOK, Live
<1>3. \A i \in Live(Table), j \in Live(new) : ent[i].key # new.ent[j].key
  BY DEF Inv, Apart
<1> QED BY <1>1, <1>2, <1>3 DEF OneEach, Stored

-----------------------------------------------------------------------------
(* The invariant's steps.                                                  *)

Calls == [op : {"insert", "try_emplace"}, key : Keys, val : Vals]
Results == Vals \cup BOOLEAN \cup {Absent}

LEMMA TableFields == Table.cap = cap /\ Table.state = state /\ Table.ent = ent
BY DEF Table

LEMMA NoTableFields == NoTable.cap = 0 /\ NoTable = [cap |-> NoTable.cap, state |-> NoTable.state, ent |-> NoTable.ent]
BY DEF NoTable

\* The invariant when no rehash is under way.
LEMMA Quiet ==
  ASSUME Inv, new = NoTable
  PROVE  /\ TableInv(Table, 0) /\ at = 0 /\ Live(new) = {} /\ Buried(new) = {}
         /\ cap \in Nat /\ size \in Nat /\ tombs \in Nat /\ peak \in Nat
         /\ size = Cardinality(Live(Table)) /\ tombs = Cardinality(Buried(Table))
         /\ IsFiniteSet(Live(Table)) /\ IsFiniteSet(Buried(Table))
         /\ size <= peak /\ size + tombs + Pending <= MaxFill(cap) /\ Pending \in {0, 1}
         /\ call.op # "reserve" /\ Earned(cap) /\ Stored = {ent[i] : i \in Live(Table)}
<1>1. Live(new) = {} /\ Buried(new) = {}
  BY NoTableInv, NoTableFields
<1>2. /\ TableInv(Table, at) /\ Settled /\ size <= peak /\ Earned(cap)
      /\ size = Cardinality(Live(Table)) + Cardinality(Live(new))
      /\ size \in Nat /\ tombs \in Nat /\ peak \in Nat
  BY DEF Inv, TypeOK
<1>3. cap \in Nat
  BY <1>2, TableFields DEF TableInv, TableOK
<1>4. /\ IsFiniteSet(Live(Table)) /\ IsFiniteSet(Buried(Table)) /\ Cardinality(Live(Table)) \in Nat
  BY <1>3, TableFields, PathFinite
<1>5. size = Cardinality(Live(Table))
  BY <1>1, <1>2, <1>4, FS_EmptySet
<1>6. Stored = {ent[i] : i \in Live(Table)}
  BY <1>1 DEF Stored
<1> QED BY <1>1, <1>2, <1>3, <1>4, <1>5, <1>6 DEF Settled, Pending

\* What makes the invariant hold of such a state.
QuietState ==
  /\ TableInv(Table, 0) /\ new = NoTable /\ at = 0 /\ call \in Calls \cup [op : {"none"}]
  /\ size \in Nat /\ tombs \in Nat /\ peak \in Nat /\ answer \in Results
  /\ size = Cardinality(Live(Table)) /\ tombs = Cardinality(Buried(Table))
  /\ size <= peak /\ size + tombs + Pending <= MaxFill(cap) /\ Earned(cap)

LEMMA QuietAgain == QuietState => Inv
<1> SUFFICES ASSUME QuietState PROVE Inv
  OBVIOUS
<1> USE DEF QuietState
<1>1. TableInv(new, 0) /\ Live(new) = {} /\ TableOK(new) /\ MirrorInSync(new)
  BY NoTableInv, NoTableFields DEF TableInv
<1>2. TableOK(Table) /\ MirrorInSync(Table) /\ cap \in Nat
  BY TableFields DEF TableInv, TableOK
<1>3. at \in 0..cap /\ call.op # "reserve"
  BY <1>2 DEF Calls
<1>4. TypeOK
  BY <1>1, <1>2, <1>3 DEF TypeOK, Calls, Results
<1>5. size = Cardinality(Live(Table)) + Cardinality(Live(new))
  BY <1>1, FS_EmptySet
<1>6. Settled /\ Apart
  BY <1>1, <1>3 DEF Settled, Apart
<1>7. Earned(new.cap)
  BY NoTableFields, Geometry DEF Earned
<1> QED BY <1>1, <1>4, <1>5, <1>6, <1>7, NoTableFields DEF Inv

LEMMA InitInv == Init => Inv
<1> SUFFICES ASSUME Init PROVE Inv
  OBVIOUS
<1>1. TableInv(Table, 0) /\ Live(Table) = {} /\ Buried(Table) = {}
  BY NoTableInv, TableFields DEF Init
<1>2. MaxFill(cap) = 0
  <2>1. 0 <= MaxFill(0) /\ MaxFill(0) \in Nat
    BY FillMonotone
  <2>2. 0 \div FillPart \in Nat
    BY Geometry, Quotient
  <2> QED BY <2>1, <2>2 DEF Init, MaxFill
<1>3. call.op = "none" /\ Pending = 0 /\ call \in [op : {"none"}]
  BY DEF Init, NoCall, Pending
<1>4. Earned(cap)
  BY Geometry DEF Earned, Init
<1>5. QuietState
  BY <1>1, <1>2, <1>3, <1>4, FS_EmptySet DEF Init, Results, QuietState
<1> QED BY <1>5, QuietAgain

LEMMA QuietAgainNext == QuietState' => Inv'
BY QuietAgain, PTL

LEMMA LocatedMeans ==
  ASSUME Inv, new = NoTable, NEW k \in Keys
  PROVE  /\ Located(Table, k) <=> \E i \in Live(Table) : ent[i].key = k
         /\ Located(Table, k) <=> \E e \in Stored : e.key = k
         /\ Located(Table, k) => SlotOf(Table, k) \in Live(Table) /\ ent[SlotOf(Table, k)].key = k
<1>1. TableInv(Table, 0) /\ Stored = {ent[i] : i \in Live(Table)}
  BY Quiet
<1>2. /\ Located(Table, k) <=> \E i \in Live(Table) : Table.ent[i].key = k
      /\ Located(Table, k) => SlotOf(Table, k) \in Live(Table) /\ Table.ent[SlotOf(Table, k)].key = k
  BY <1>1, Finds
<1> QED BY <1>1, <1>2, TableFields

\* A call's entry is placed: a new key's is added, an old one's value changes only by insert.
LEMMA PlaceStep ==
  ASSUME Inv, new = NoTable, NEW c \in Calls, size + tombs + 1 <= MaxFill(cap), Place(c)
  PROVE  /\ Inv'
         /\ LET e == [key |-> c.key, val |-> c.val] IN
            \/ /\ \A d \in Stored : d.key # c.key
               /\ Stored' = Stored \cup {e} /\ answer' = TRUE
            \/ \E d \in Stored :
                 /\ d.key = c.key /\ answer' = FALSE
                 /\ Stored' = IF c.op = "insert" THEN (Stored \ {d}) \cup {e} ELSE Stored
<1> DEFINE k == c.key
           v == c.val
           e == [key |-> k, val |-> v]
<1>1. k \in Keys /\ v \in Vals /\ e \in Entries
  BY DEF Calls, Entries
<1>2. /\ TableInv(Table, 0) /\ at = 0
      /\ cap \in Nat /\ size \in Nat /\ tombs \in Nat /\ peak \in Nat
      /\ size = Cardinality(Live(Table)) /\ tombs = Cardinality(Buried(Table))
      /\ IsFiniteSet(Live(Table)) /\ IsFiniteSet(Buried(Table))
      /\ size <= peak /\ Earned(cap) /\ Stored = {ent[i] : i \in Live(Table)}
  BY Quiet
<1>3. call' = NoCall /\ cap' = cap /\ new' = NoTable /\ at' = 0
  BY <1>2 DEF Place
<1>4. Pending' = 0 /\ call' \in Calls \cup [op : {"none"}]
  BY <1>3 DEF Pending, NoCall
<1>5. Stored' = {ent'[i] : i \in Live(Table')}
  <2>1. Live(new') = {}
    BY <1>3, NoTableInv, NoTableFields
  <2> QED BY <2>1 DEF Stored
<1>6. Table'.cap = cap' /\ Table'.state = state' /\ Table'.ent = ent'
  BY DEF Table
<1> HIDE DEF k, v, e
<1>7. CASE PlaceNew(k, v)
  <2>1. PICK p \in Path(Table) : FirstFree(Table, k, p) /\ Fill(k, v, Slot(k, p, cap))
    BY <1>7 DEF PlaceNew
  <2> DEFINE i == Slot(k, p, cap)
  <2>2. \A d \in Stored : d.key # k
    BY <1>1, <1>7, LocatedMeans DEF PlaceNew
  <2>3. \A j \in Live(Table) : Table.ent[j].key # k
    BY <1>2, <2>2, TableFields
  <2>4. cap # 0
    BY <1>2, <2>1, TableFields DEF Path
  <2>5. FreeAt(Table, k, p) /\ \A q \in 0..p - 1 : ~EndsAt(Table, k, q)
    BY <2>1 DEF FirstFree, FreeAt, EndsAt
  <2>6. Table'.state = SetState(cap, state, i, Fp[k]) /\ Table'.ent = [ent EXCEPT ![i] = e]
    BY <1>6, <2>1 DEF Fill, e
  <2>7. /\ TableInv(Table', 0) /\ i \in Path(Table)
        /\ i \notin Live(Table) /\ Live(Table') = Live(Table) \cup {i}
        /\ Buried(Table') = Buried(Table) \ {i}
        /\ state[i] = TOMB <=> i \in Buried(Table)
        /\ \A j \in Live(Table) : ent'[j] = ent[j]
        /\ ent'[i] = e
    <3> DEFINE t == Table
               u == Table'
    <3>1. t.cap = cap /\ t.state = state /\ t.ent = ent
      BY TableFields
    <3>2. /\ TableInv(t, 0) /\ t.cap # 0 /\ \A j \in Live(t) : t.ent[j].key # k
          /\ p \in Path(t) /\ FreeAt(t, k, p) /\ \A q \in 0..p - 1 : ~EndsAt(t, k, q)
          /\ u.cap = t.cap /\ u.state = SetState(t.cap, t.state, Slot(k, p, t.cap), Fp[k])
          /\ u.ent = [t.ent EXCEPT ![Slot(k, p, t.cap)] = [key |-> k, val |-> v]]
      BY <1>2, <1>3, <1>6, <2>1, <2>3, <2>4, <2>5, <2>6, <3>1 DEF e
    <3>9. TableInv(t, 0) /\ Puts(t, u, k, v, p)
      BY <3>2 DEF Puts
    <3> HIDE DEF t, u
    <3>3. /\ TableInv(u, 0) /\ Slot(k, p, t.cap) \in Path(t)
          /\ Slot(k, p, t.cap) \notin Live(t) /\ Live(u) = Live(t) \cup {Slot(k, p, t.cap)}
          /\ Buried(u) = Buried(t) \ {Slot(k, p, t.cap)}
          /\ t.state[Slot(k, p, t.cap)] = TOMB <=> Slot(k, p, t.cap) \in Buried(t)
          /\ \A j \in Live(t) : u.ent[j] = t.ent[j]
          /\ u.ent[Slot(k, p, t.cap)] = [key |-> k, val |-> v]
      BY <1>1, <3>9, PutEntry
    <3> QED BY <1>6, <3>1, <3>3 DEF t, u, e
  <2> HIDE DEF i
  <2>8. size' = size + 1 /\ tombs' = IF state[i] = TOMB THEN tombs - 1 ELSE tombs
    BY <2>1 DEF Fill, i
  <2>9. Cardinality(Live(Table')) = size'
    BY <1>2, <2>7, <2>8, FS_AddElement
  <2>10. Cardinality(Buried(Table')) = tombs' /\ tombs' \in Nat
    <3>1. /\ IsFiniteSet(Buried(Table'))
          /\ Cardinality(Buried(Table'))
               = IF i \in Buried(Table) THEN Cardinality(Buried(Table)) - 1 ELSE Cardinality(Buried(Table))
      BY <1>2, <2>7, FS_RemoveElement
    <3>2. Cardinality(Buried(Table')) \in Nat
      BY <3>1, FS_CardinalityType
    <3> QED BY <1>2, <2>7, <2>8, <3>1, <3>2
  <2>11. peak' \in Nat /\ peak' >= peak /\ size' <= peak' /\ answer' = TRUE
    BY <1>2, <1>7, <2>8 DEF PlaceNew, Larger
  <2>12. Earned(cap)'
    <3>1. cap > MinCap => PurgeLimit(cap \div 2) <= peak /\ PurgeLimit(cap \div 2) \in Nat
      <4>1. cap \div 2 \in Nat
        BY <1>2
      <4> QED BY <1>2, <4>1, PurgeBelowFill DEF Earned
    <3> QED BY <1>2, <1>3, <2>11, <3>1 DEF Earned
  <2>13. size' + tombs' + Pending' <= MaxFill(cap') /\ size' \in Nat
    <3>1. MaxFill(cap) \in Nat
      BY <1>2, FillMonotone
    <3> QED BY <1>2, <1>3, <1>4, <2>8, <2>10, <3>1
  <2>14. QuietState'
    BY <1>3, <1>4, <2>7, <2>9, <2>10, <2>11, <2>12, <2>13 DEF QuietState, Results
  <2>15. Stored' = Stored \cup {e}
    BY <1>2, <1>5, <2>7
  <2> QED BY <2>2, <2>11, <2>14, <2>15, QuietAgainNext DEF k, e, v
<1>8. CASE MeetOld(c.op, k, v)
  <2> DEFINE i == SlotOf(Table, k)
  <2>1. i \in Live(Table) /\ ent[i].key = k
    BY <1>1, <1>8, LocatedMeans DEF MeetOld
  <2> HIDE DEF i
  <2>2. /\ ent' = IF c.op = "insert" THEN [ent EXCEPT ![i].val = v] ELSE ent
        /\ answer' = FALSE /\ state' = state /\ size' = size /\ tombs' = tombs /\ peak' = peak
    BY <1>8 DEF MeetOld, i
  <2>3. /\ TableInv(Table', 0) /\ Live(Table') = Live(Table) /\ Buried(Table') = Buried(Table)
        /\ c.op = "insert" => \A j \in Live(Table) : ent'[j] = IF j = i THEN e ELSE ent[j]
    <3>1. CASE c.op = "insert"
      <4>1. Table'.ent = [Table.ent EXCEPT ![i].val = v] /\ Table'.state = Table.state
            /\ Table'.cap = Table.cap
        BY <1>3, <1>6, <2>2, <3>1, TableFields
      <4>2. /\ TableInv(Table', 0) /\ Live(Table') = Live(Table) /\ Buried(Table') = Buried(Table)
            /\ \A j \in Live(Table) :
                 Table'.ent[j] = IF j = i THEN [key |-> Table.ent[i].key, val |-> v] ELSE Table.ent[j]
        <5> DEFINE t == Table
                   u == Table'
        <5>1. TableInv(t, 0) /\ i \in Live(t) /\ Changes(t, u, i, v)
          BY <1>2, <2>1, <4>1 DEF Changes
        <5> HIDE DEF t, u
        <5>2. /\ TableInv(u, 0) /\ Live(u) = Live(t) /\ Buried(u) = Buried(t)
              /\ \A j \in Live(t) :
                   u.ent[j] = IF j = i THEN [key |-> t.ent[i].key, val |-> v] ELSE t.ent[j]
          BY <1>1, <5>1, ChangeValue
        <5> QED BY <5>2 DEF t, u
      <4> QED BY <1>6, <2>1, <4>2, TableFields DEF e
    <3>2. CASE c.op # "insert"
      <4>1. Table' = Table
        BY <1>3, <2>2, <3>2 DEF Table
      <4> QED BY <1>2, <3>2, <4>1
    <3> QED BY <3>1, <3>2
  <2>4. Earned(cap)' /\ size' + tombs' + Pending' <= MaxFill(cap')
    <3>1. MaxFill(cap) \in Nat
      BY <1>2, FillMonotone
    <3> QED BY <1>2, <1>3, <1>4, <2>2, <3>1 DEF Earned
  <2>5. QuietState'
    BY <1>2, <1>3, <1>4, <2>2, <2>3, <2>4 DEF QuietState, Results
  <2>6. ent[i] \in Stored
    BY <1>2, <2>1
  <2>7. Stored' = IF c.op = "insert" THEN (Stored \ {ent[i]}) \cup {e} ELSE Stored
    <3>1. CASE c.op = "insert"
      <4>1. \A j \in Live(Table) : j # i => ent[j] # ent[i]
        BY <1>2, <2>1, TableFields DEF TableInv
      <4>2. Stored' = {IF j = i THEN e ELSE ent[j] : j \in Live(Table)}
        BY <1>5, <2>3, <3>1
      <4>3. Stored' = (Stored \ {ent[i]}) \cup {e}
        BY <1>2, <2>1, <4>1, <4>2
      <4> QED BY <3>1, <4>3
    <3>2. CASE c.op # "insert"
      BY <1>2, <1>5, <2>2, <2>3, <3>2
    <3> QED BY <3>1, <3>2
  <2> QED BY <2>1, <2>2, <2>5, <2>6, <2>7, QuietAgainNext DEF k, e, v
<1> QED BY <1>7, <1>8 DEF Place, k, v

LEMMA IdleIsQuiet == Inv /\ Idle => new = NoTable
BY DEF Inv, Rehashing

\* A rehash starts with an empty table that has room for all the old one holds.
LEMMA BeginStep ==
  ASSUME Inv, new = NoTable, NEW c, CapOK(c), NEW w \in Calls \cup [op : {"reserve"}],
         BeginRehash(c, w), UNCHANGED <<cap, state, ent, size, tombs, answer>>,
         peak' \in Nat, peak <= peak',
         size <= MaxFill(c), w \in Calls => size + 1 <= MaxFill(c),
         c > MinCap => PurgeLimit(c \div 2) <= peak'
  PROVE  Inv' /\ Stored' = Stored
<1>1. /\ TableInv(Table, 0) /\ at = 0 /\ Live(new) = {}
      /\ cap \in Nat /\ size \in Nat /\ tombs \in Nat /\ peak \in Nat
      /\ size = Cardinality(Live(Table)) /\ IsFiniteSet(Live(Table))
      /\ size <= peak /\ Earned(cap) /\ Stored = {ent[i] : i \in Live(Table)}
  BY Quiet
<1>2. Table' = Table /\ at' = 0 /\ call' = w
  BY DEF BeginRehash, Table
<1>3. /\ new'.cap = c /\ new' = [cap |-> new'.cap, state |-> new'.state, ent |-> new'.ent]
      /\ new'.state = [i \in 0..new'.cap + Group - 1 |-> EMPTY]
      /\ new'.ent = [i \in 0..new'.cap - 1 |-> Absent]
  BY DEF BeginRehash
<1>4. TableInv(new', 0) /\ Live(new') = {} /\ Buried(new') = {}
  <2> DEFINE t == new'
  <2>1. CapOK(t.cap) /\ t.state = [i \in 0..t.cap + Group - 1 |-> EMPTY] /\ t.ent = [i \in 0..t.cap - 1 |-> Absent]
    BY <1>3
  <2> HIDE DEF t
  <2>2. TableInv(t, 0) /\ Live(t) = {} /\ Buried(t) = {}
    BY <2>1, EmptyTable
  <2> QED BY <2>2 DEF t
<1>5. c \in Nat /\ c > 0 /\ new' # NoTable
  <2>1. c \in Nat /\ c >= 2
    BY CapFacts
  <2> QED BY <1>3, <2>1, NoTableFields
<1>6. TypeOK'
  <2>1. TableOK(Table) /\ MirrorInSync(Table) /\ TableOK(new') /\ MirrorInSync(new')
    BY <1>1, <1>4 DEF TableInv
  <2>2. answer \in Vals \cup BOOLEAN \cup {Absent}
    BY DEF Inv, TypeOK
  <2>3. at' \in 0..cap'
    BY <1>1, <1>2
  <2>4. call' \in [op : {"insert", "try_emplace"}, key : Keys, val : Vals] \cup [op : {"none", "reserve"}]
    BY <1>2 DEF Calls
  <2> QED BY <1>1, <1>2, <2>1, <2>2, <2>3, <2>4 DEF TypeOK
<1>7. Rehashing'
  <2>1. ~Idle'
    BY <1>2 DEF Idle, NoCall, Calls
  <2>2. size' + Pending' <= MaxFill(c)
    <3>1. CASE w \in Calls
      <4>1. Pending' = 1
        BY <1>2, <3>1 DEF Pending, Calls
      <4> QED BY <3>1, <4>1
    <3>2. CASE w \in [op : {"reserve"}]
      <4>1. Pending' = 0
        BY <1>2, <3>2 DEF Pending
      <4> QED BY <1>1, <4>1
    <3> QED BY <3>1, <3>2
  <2> QED BY <1>3, <1>4, <1>5, <2>1, <2>2 DEF Rehashing
<1>8. size' = Cardinality(Live(Table')) + Cardinality(Live(new')) /\ size' <= peak'
  BY <1>1, <1>2, <1>4, FS_EmptySet
<1>9. Earned(cap)' /\ Earned(new.cap)'
  <2>1. cap > MinCap => PurgeLimit(cap \div 2) <= peak /\ PurgeLimit(cap \div 2) \in Nat
    <3>1. cap \div 2 \in Nat
      BY <1>1
    <3> QED BY <1>1, <3>1, PurgeBelowFill DEF Earned
  <2> QED BY <1>1, <1>3, <2>1 DEF Earned
<1>10. Apart' /\ Stored' = Stored
  BY <1>1, <1>2, <1>4 DEF Apart, Stored
<1> QED BY <1>1, <1>2, <1>3, <1>4, <1>5, <1>6, <1>7, <1>8, <1>9, <1>10 DEF Inv

LEMMA EmplaceRehash ==
  ASSUME Inv, new = NoTable, size + tombs + 1 > MaxFill(cap)
  PROVE  /\ CapOK(RebuiltCap) /\ size <= MaxFill(RebuiltCap) /\ size + 1 <= MaxFill(RebuiltCap)
         /\ RebuiltCap > MinCap => PurgeLimit(RebuiltCap \div 2) <= peak
<1>1. /\ TableInv(Table, 0) /\ cap \in Nat /\ size \in Nat /\ tombs \in Nat /\ peak \in Nat
      /\ size <= peak /\ size + tombs <= MaxFill(cap) /\ Earned(cap)
  <2>1. MaxFill(cap) \in Nat
    BY Quiet, FillMonotone
  <2> QED BY <2>1, Quiet
<1>2. cap # 0 => CapOK(cap)
  BY <1>1, TableFields DEF TableInv
<1>3. PurgeLimit(cap) \in Nat /\ PurgeLimit(cap) <= MaxFill(cap) /\ MaxFill(cap) \in Nat
  BY <1>1, PurgeBelowFill, FillMonotone
<1>4. CASE cap # 0 /\ size + 1 <= PurgeLimit(cap)
  <2>1. RebuiltCap = cap
    BY <1>4 DEF RebuiltCap
  <2> QED BY <1>1, <1>2, <1>3, <1>4, <2>1 DEF Earned
<1>5. CASE cap # 0 /\ ~(size + 1 <= PurgeLimit(cap))
  <2>1. RebuiltCap = 2 * cap
    BY <1>1, <1>5 DEF RebuiltCap, Grown
  <2>2. CapOK(2 * cap) /\ MaxFill(cap) + 1 <= MaxFill(2 * cap)
    BY <1>2, <1>5, CapFacts, FillGrows
  <2>3. (2 * cap) \div 2 = cap
    BY <1>1
  <2>4. MaxFill(2 * cap) \in Nat
    BY <1>1, FillMonotone
  <2>5. PurgeLimit(cap) <= peak
    BY <1>1, <1>3, <1>5
  <2> QED BY <1>1, <1>3, <2>1, <2>2, <2>3, <2>4, <2>5
<1>6. CASE cap = 0
  <2>1. RebuiltCap = MinCap
    BY <1>6 DEF RebuiltCap, Grown
  <2>2. size = 0
    <3>1. MaxFill(0) = 0
      <4>1. 0 \div FillPart = 0
        <5>1. 0 \div FillPart \in Nat /\ FillPart * (0 \div FillPart) <= 0
          BY Geometry, Quotient
        <5> DEFINE z == 0 \div FillPart
        <5> HIDE DEF z
        <5>2. z \in Nat /\ FillPart * z <= 0 /\ FillPart \in Nat /\ FillPart >= 2
          BY <5>1, Geometry DEF z
        <5>3. z >= 1 => FillPart * z >= 1
          BY <5>2
        <5> QED BY <5>2, <5>3 DEF z
      <4> QED BY <4>1 DEF MaxFill
    <3> QED BY <1>1, <1>6, <3>1
  <2>3. MaxFill(MinCap) >= 1
    <3>1. MinCap \div FillPart \in Nat /\ FillPart * (MinCap \div FillPart) <= MinCap
      BY Geometry, Quotient
    <3> DEFINE z == MinCap \div FillPart
    <3> HIDE DEF z
    <3>2. z \in Nat /\ FillPart * z <= MinCap /\ FillPart \in Nat /\ FillPart >= 2 /\ MinCap \in Nat /\ MinCap >= 2
      BY <3>1, MinCapOK, Geometry DEF z
    <3>3. FillPart * z >= 2 * z /\ FillPart * z \in Nat
      BY <3>2
    <3>4. MinCap - z >= 1
      BY <3>2, <3>3
    <3> QED BY <3>4 DEF MaxFill, z
  <2>4. MaxFill(MinCap) \in Nat
    BY Geometry, FillMonotone
  <2>5. ~(MinCap > MinCap)
    BY Geometry
  <2> QED BY <2>1, <2>2, <2>3, <2>4, <2>5, MinCapOK
<1> QED BY <1>1, <1>4, <1>5, <1>6

\* A turn of the rehash moves one entry from the old table to the new one, or none.
LEMMA MoveStep == Inv /\ Move => Inv' /\ Stored' = Stored
<1> SUFFICES ASSUME Inv, Move PROVE Inv' /\ Stored' = Stored
  OBVIOUS
<1>1. /\ ~Idle /\ new # NoTable /\ at < cap /\ at' = at + 1
      /\ cap' = cap /\ state' = state /\ size' = size /\ tombs' = tombs /\ call' = call
      /\ answer' = answer /\ peak' = peak
  BY DEF Move
<1>2. /\ TypeOK /\ TableInv(Table, at) /\ TableInv(new, 0) /\ Apart /\ Rehashing
      /\ size = Cardinality(Live(Table)) + Cardinality(Live(new)) /\ size <= peak
      /\ Earned(cap) /\ Earned(new.cap)
      /\ new = [cap |-> new.cap, state |-> new.state, ent |-> new.ent]
  BY <1>1 DEF Inv
<1>3. cap \in Nat /\ at \in Nat /\ at \in Path(Table) /\ at + 1 \in 0..cap /\ cap # 0
  <2>1. cap \in Nat
    BY <1>2, TableFields DEF TableInv, TableOK
  <2> QED BY <1>1, <1>2, <2>1, TableFields DEF TypeOK, Path
<1>4. new.cap \in Nat /\ new.cap # 0
  BY <1>2 DEF Rehashing, TableInv, TableOK
<1>5. Table'.cap = Table.cap /\ Table'.state = Table.state /\ Table'.ent = ent' /\ Table.ent = ent
  BY <1>1 DEF Table
<1>6. Passes(Table, Table', at)
  BY <1>5, TableFields DEF Move, Passes
<1>7. /\ TableInv(Table', at + 1) /\ Live(Table') = Live(Table) \ {at}
      /\ at \in Live(Table) <=> state[at] \notin {EMPTY, TOMB}
      /\ \A j \in Live(Table') : ent'[j] = ent[j]
  <2> DEFINE t == Table
             u == Table'
  <2>1. TableInv(t, at) /\ Passes(t, u, at) /\ at \in Path(t)
    BY <1>2, <1>3, <1>6
  <2> HIDE DEF t, u
  <2>2. /\ TableInv(u, at + 1) /\ Live(u) = Live(t) \ {at}
        /\ at \in Live(t) <=> t.state[at] \notin {EMPTY, TOMB}
        /\ \A j \in Live(u) : u.ent[j] = t.ent[j]
    BY <2>1, MoveOut
  <2> QED BY <1>5, <2>2, TableFields DEF t, u
<1>8. /\ IsFiniteSet(Live(Table)) /\ IsFiniteSet(Live(new)) /\ Cardinality(Live(Table)) \in Nat
      /\ Cardinality(Live(new)) \in Nat
  BY <1>3, <1>4, TableFields, PathFinite
\* What is to be shown of the table the rehash fills.
<1> DEFINE Filled ==
      /\ TableInv(new', 0) /\ Buried(new') = {} /\ new'.cap = new.cap
      /\ new' = [cap |-> new'.cap, state |-> new'.state, ent |-> new'.ent]
      /\ size = Cardinality(Live(Table')) + Cardinality(Live(new'))
      /\ Apart' /\ Stored' = Stored
<1>9. ASSUME state[at] \in {EMPTY, TOMB} PROVE Filled
  <2>1. new' = new /\ Live(Table') = Live(Table) /\ ent' = ent
    BY <1>7, <1>9 DEF Move
  <2>2. Apart'
    BY <1>2, <2>1 DEF Apart
  <2>3. Stored' = Stored
    BY <2>1 DEF Stored
  <2>4. Filled
    BY <1>2, <2>1, <2>2, <2>3 DEF Rehashing
  <2> QED BY <2>4
<1>10. ASSUME state[at] \notin {EMPTY, TOMB} PROVE Filled
  <2> DEFINE k == ent[at].key
             v == ent[at].val
  <2>1. PICK p \in Path(new) :
          /\ FirstEmpty(new, k, p)
          /\ new' = [new EXCEPT !.ent[Slot(k, p, new.cap)] = ent[at],
                                !.state = SetState(new.cap, new.state, Slot(k, p, new.cap), Fp[k])]
    BY <1>10 DEF Move
  <2>2. at \in Live(Table) /\ ent[at] \in Entries /\ k \in Keys /\ v \in Vals
        /\ ent[at] = [key |-> k, val |-> v]
    <3>1. at \in Live(Table)
      BY <1>7, <1>10
    <3>2. ent[at] \in Entries
      BY <1>2, <1>3, <3>1, TableFields, TableFacts
    <3> QED BY <3>1, <3>2 DEF Entries
  <2> HIDE DEF k, v
  <2> DEFINE i == Slot(k, p, new.cap)
  <2>3. /\ new'.cap = new.cap /\ new'.state = SetState(new.cap, new.state, i, Fp[k])
        /\ new'.ent = [new.ent EXCEPT ![i] = ent[at]]
        /\ new' = [cap |-> new'.cap, state |-> new'.state, ent |-> new'.ent]
    BY <1>2, <2>1 DEF k
  <2>4. TableInv(new, 0) /\ Puts(new, new', k, v, p)
    <3>1. \A j \in Live(new) : new.ent[j].key # k
      BY <1>2, <2>2 DEF Apart, k
    <3>2. FreeAt(new, k, p) /\ \A q \in 0..p - 1 : ~EndsAt(new, k, q)
      BY <2>1 DEF FirstEmpty, FreeAt, EndsAt, k
    <3> QED BY <1>2, <1>4, <2>1, <2>2, <2>3, <3>1, <3>2 DEF Puts
  <2>5. /\ TableInv(new', 0) /\ i \notin Live(new) /\ Live(new') = Live(new) \cup {i}
        /\ Buried(new') = Buried(new) \ {i}
        /\ \A j \in Live(new) : new'.ent[j] = new.ent[j]
        /\ new'.ent[i] = ent[at]
    <3> DEFINE t == new
               u == new'
    <3>1. TableInv(t, 0) /\ Puts(t, u, k, v, p)
      BY <2>4
    <3> HIDE DEF t, u
    <3>2. /\ TableInv(u, 0) /\ Slot(k, p, t.cap) \in Path(t)
          /\ Slot(k, p, t.cap) \notin Live(t) /\ Live(u) = Live(t) \cup {Slot(k, p, t.cap)}
          /\ Buried(u) = Buried(t) \ {Slot(k, p, t.cap)}
          /\ t.state[Slot(k, p, t.cap)] = TOMB <=> Slot(k, p, t.cap) \in Buried(t)
          /\ \A j \in Live(t) : u.ent[j] = t.ent[j]
          /\ u.ent[Slot(k, p, t.cap)] = [key |-> k, val |-> v]
      BY <2>2, <3>1, PutEntry
    <3> QED BY <2>2, <3>2 DEF t, u
  <2> HIDE DEF i
  <2>6. size = Cardinality(Live(Table')) + Cardinality(Live(new'))
    <3>1. Cardinality(Live(Table')) = Cardinality(Live(Table)) - 1
      BY <1>7, <1>8, <2>2, FS_RemoveElement
    <3>2. Cardinality(Live(new')) = Cardinality(Live(new)) + 1
      BY <1>8, <2>5, FS_AddElement
    <3> QED BY <1>2, <1>8, <3>1, <3>2
  <2>7. Apart'
    <3>1. ASSUME NEW a \in Live(Table'), NEW b \in Live(new') PROVE ent'[a].key # new'.ent[b].key
      <4>1. a \in Live(Table) /\ a # at /\ ent'[a] = ent[a]
        BY <1>7
      <4>2. CASE b = i
        <5>1. ent[a].key # ent[at].key
          BY <1>2, <2>2, <4>1, TableFields DEF TableInv
        <5> QED BY <2>5, <4>1, <4>2, <5>1
      <4>3. CASE b \in Live(new)
        BY <1>2, <2>5, <4>1, <4>3 DEF Apart
      <4> QED BY <2>5, <4>2, <4>3
    <3> QED BY <3>1 DEF Apart
  <2>8. Stored' = Stored
    <3>1. Stored' = {ent'[j] : j \in Live(Table')} \cup {new'.ent[j] : j \in Live(new')}
      BY DEF Stored
    <3>2. {ent'[j] : j \in Live(Table')} = {ent[j] : j \in Live(Table) \ {at}}
      BY <1>7
    <3>3. {new'.ent[j] : j \in Live(new')} = {new.ent[j] : j \in Live(new)} \cup {ent[at]}
      BY <2>5
    <3>4. {ent[j] : j \in Live(Table)} = {ent[j] : j \in Live(Table) \ {at}} \cup {ent[at]}
      BY <2>2
    <3> QED BY <3>1, <3>2, <3>3, <3>4 DEF Stored
  <2>9. Filled
    BY <1>2, <2>3, <2>5, <2>6, <2>7, <2>8 DEF Rehashing
  <2> QED BY <2>9
<1>11. Filled
  BY <1>9, <1>10
<1>12. new' # NoTable
  BY <1>4, <1>11, NoTableFields
<1>13. TypeOK'
  <2>1. TableOK(Table') /\ MirrorInSync(Table') /\ TableOK(new') /\ MirrorInSync(new')
    BY <1>7, <1>11 DEF TableInv
  <2> QED BY <1>1, <1>2, <1>3, <2>1 DEF TypeOK
<1>14. Rehashing'
  BY <1>1, <1>2, <1>11 DEF Rehashing, Idle, Pending
<1>15. Earned(cap)' /\ Earned(new.cap)'
  BY <1>1, <1>2, <1>11 DEF Earned
<1>16. TableInv(Table', at') /\ size' <= peak' /\ size' = Cardinality(Live(Table')) + Cardinality(Live(new'))
  BY <1>1, <1>2, <1>7, <1>11
<1> QED BY <1>11, <1>12, <1>13, <1>14, <1>15, <1>16 DEF Inv

\* The new table takes the old one's place with all the old one held.
LEMMA EndStep == Inv /\ EndRehash => Inv' /\ Stored' = Stored
<1> SUFFICES ASSUME Inv, EndRehash PROVE Inv' /\ Stored' = Stored
  OBVIOUS
<1>1. /\ ~Idle /\ new # NoTable /\ at = cap
      /\ cap' = new.cap /\ state' = new.state /\ ent' = new.ent /\ tombs' = 0
      /\ new' = NoTable /\ at' = 0 /\ size' = size /\ peak' = peak
      /\ IF call.op = "reserve" THEN call' = NoCall /\ answer' = Absent
                                ELSE UNCHANGED <<call, answer>>
  BY DEF EndRehash
<1>2. /\ TypeOK /\ TableInv(Table, at) /\ TableInv(new, 0) /\ Rehashing
      /\ size = Cardinality(Live(Table)) + Cardinality(Live(new)) /\ size <= peak /\ Earned(new.cap)
      /\ new = [cap |-> new.cap, state |-> new.state, ent |-> new.ent]
  BY <1>1 DEF Inv
<1>3. Table' = new
  BY <1>1, <1>2 DEF Table
<1>4. Live(Table) = {}
  <2>1. \A i \in Live(Table) : i \in 0..cap - 1 /\ i >= cap
    BY <1>1, <1>2, TableFields DEF TableInv, Live
  <2>2. cap \in Nat
    BY <1>2, TableFields DEF TableInv, TableOK
  <2> QED BY <2>1, <2>2
<1>5. new.cap \in Nat
  BY <1>2 DEF Rehashing, TableInv, TableOK
<1>6. Cardinality(Live(new)) \in Nat
  BY <1>5, PathFinite
<1>7. size' = Cardinality(Live(Table')) /\ tombs' = Cardinality(Buried(Table'))
  BY <1>1, <1>2, <1>3, <1>4, <1>6, FS_EmptySet DEF Rehashing
<1>8. /\ call' \in Calls \cup [op : {"none"}] /\ Pending' <= Pending /\ Pending' \in {0, 1} /\ Pending \in {0, 1}
      /\ answer' \in Results
  <2>1. CASE call.op = "reserve"
    BY <1>1, <2>1 DEF Pending, NoCall, Results
  <2>2. CASE call.op # "reserve"
    BY <1>1, <1>2, <2>2 DEF Pending, TypeOK, Calls, Results
  <2> QED BY <2>1, <2>2
<1>9. MaxFill(cap') \in Nat /\ size \in Nat /\ peak \in Nat
  BY <1>1, <1>2, <1>5, FillMonotone DEF TypeOK
<1>10. size' + tombs' + Pending' <= MaxFill(cap')
  BY <1>1, <1>2, <1>8, <1>9 DEF Rehashing
<1>11. Earned(cap)'
  BY <1>1, <1>2 DEF Earned
<1>12. QuietState'
  BY <1>1, <1>2, <1>3, <1>7, <1>8, <1>9, <1>10, <1>11 DEF QuietState
<1>13. Stored' = Stored
  <2>1. Live(new') = {}
    BY <1>1, NoTableInv, NoTableFields
  <2> QED BY <1>1, <1>3, <1>4, <2>1 DEF Stored
<1> QED BY <1>12, <1>13, QuietAgainNext

\* erase removes the key's entry.
LEMMA EraseStep ==
  ASSUME Inv, NEW k \in Keys, Erase(k)
  PROVE  /\ Inv'
         /\ \/ (\A d \in Stored : d.key # k) /\ answer' = FALSE /\ Stored' = Stored
            \/ \E d \in Stored : d.key = k /\ answer' = TRUE /\ Stored' = Stored \ {d}
<1>1. /\ new = NoTable /\ new' = new /\ at' = at /\ call' = call /\ cap' = cap /\ peak' = peak
      /\ answer' = Located(Table, k) /\ call = NoCall
      /\ IF Located(Table, k) THEN Vacate(SlotOf(Table, k)) ELSE UNCHANGED <<state, ent, size, tombs>>
  BY IdleIsQuiet DEF Erase, Idle
<1>2. /\ TableInv(Table, 0) /\ at = 0
      /\ cap \in Nat /\ size \in Nat /\ tombs \in Nat /\ peak \in Nat
      /\ size = Cardinality(Live(Table)) /\ tombs = Cardinality(Buried(Table))
      /\ IsFiniteSet(Live(Table)) /\ IsFiniteSet(Buried(Table))
      /\ size <= peak /\ size + tombs + Pending <= MaxFill(cap) /\ Earned(cap)
      /\ Stored = {ent[i] : i \in Live(Table)}
  BY <1>1, Quiet
<1>3. Pending' = 0 /\ Pending = 0 /\ call' \in Calls \cup [op : {"none"}]
  BY <1>1 DEF Pending, NoCall
<1>4. Stored' = {ent'[i] : i \in Live(Table')}
  <2>1. Live(new') = {}
    BY <1>1, NoTableInv, NoTableFields
  <2> QED BY <2>1 DEF Stored
<1>5. Table'.cap = cap' /\ Table'.state = state' /\ Table'.ent = ent'
  BY DEF Table
<1>6. MaxFill(cap) \in Nat /\ Earned(cap)'
  BY <1>1, <1>2, FillMonotone DEF Earned
<1>7. CASE Located(Table, k)
  <2> DEFINE i == SlotOf(Table, k)
  <2>1. i \in Live(Table) /\ ent[i].key = k /\ Vacate(i) /\ answer' = TRUE
    BY <1>1, <1>7, LocatedMeans DEF Located
  <2> HIDE DEF i
  <2>2. Buries(Table, Table', i)
    BY <1>1, <1>5, <2>1, TableFields DEF Vacate, Buries
  <2>3. /\ TableInv(Table', 0) /\ Live(Table') = Live(Table) \ {i}
        /\ Buried(Table') = Buried(Table) \cup {i} /\ i \notin Buried(Table)
        /\ \A j \in Live(Table') : ent'[j] = ent[j]
    <3> DEFINE t == Table
               u == Table'
    <3>1. TableInv(t, 0) /\ Buries(t, u, i) /\ i \in Live(t)
      BY <1>2, <2>1, <2>2
    <3> HIDE DEF t, u
    <3>2. /\ TableInv(u, 0) /\ Live(u) = Live(t) \ {i}
          /\ Buried(u) = Buried(t) \cup {i} /\ i \notin Buried(t)
          /\ \A j \in Live(u) : u.ent[j] = t.ent[j]
      BY <3>1, BuryEntry
    <3> QED BY <1>5, <3>2, TableFields DEF t, u
  <2>4. size' = size - 1 /\ tombs' = tombs + 1
    BY <2>1 DEF Vacate
  <2>5. Cardinality(Live(Table')) = size' /\ size' \in Nat
    <3>1. IsFiniteSet(Live(Table')) /\ Cardinality(Live(Table')) = Cardinality(Live(Table)) - 1
      BY <1>2, <2>1, <2>3, FS_RemoveElement
    <3> QED BY <1>2, <2>4, <3>1, FS_CardinalityType
  <2>6. Cardinality(Buried(Table')) = tombs'
    BY <1>2, <2>3, <2>4, FS_AddElement
  <2>7. size' + tombs' + Pending' <= MaxFill(cap') /\ size' <= peak'
    BY <1>1, <1>2, <1>3, <1>6, <2>4
  <2>8. QuietState'
    BY <1>1, <1>2, <1>3, <1>6, <2>1, <2>3, <2>4, <2>5, <2>6, <2>7 DEF QuietState, Results
  <2>9. Stored' = Stored \ {ent[i]} /\ ent[i] \in Stored
    <3>1. \A j \in Live(Table) : j # i => ent[j] # ent[i]
      BY <1>2, <2>1, TableFields DEF TableInv
    <3>2. Stored' = {ent[j] : j \in Live(Table) \ {i}}
      BY <1>4, <2>3
    <3> QED BY <1>2, <2>1, <3>1, <3>2
  <2> QED BY <2>1, <2>8, <2>9, QuietAgainNext
<1>8. CASE ~Located(Table, k)
  <2>1. \A d \in Stored : d.key # k
    BY <1>1, <1>8, LocatedMeans
  <2>2. Table' = Table /\ size' = size /\ tombs' = tombs /\ answer' = FALSE /\ ent' = ent
    BY <1>1, <1>8 DEF Table, Located
  <2>3. QuietState'
    BY <1>1, <1>2, <1>3, <1>6, <2>2 DEF QuietState, Results
  <2> QED BY <1>2, <1>4, <2>1, <2>2, <2>3, QuietAgainNext
<1> QED BY <1>7, <1>8

LEMMA ClearStep == Inv /\ Clear => Inv' /\ Stored' = {}
<1> SUFFICES ASSUME Inv, Clear PROVE Inv' /\ Stored' = {}
  OBVIOUS
<1>1. /\ new = NoTable /\ new' = new /\ at' = at /\ call' = call /\ cap' = cap /\ peak' = peak
      /\ state' = [i \in DOMAIN state |-> EMPTY] /\ ent' = [i \in DOMAIN ent |-> Absent]
      /\ size' = 0 /\ tombs' = 0 /\ answer' = Absent /\ call = NoCall
  BY IdleIsQuiet DEF Clear, Idle
<1>2. /\ TableInv(Table, 0) /\ at = 0 /\ cap \in Nat /\ size \in Nat /\ peak \in Nat /\ Earned(cap)
      /\ size <= peak
  BY <1>1, Quiet
<1>3. Pending' = 0 /\ call' \in Calls \cup [op : {"none"}]
  BY <1>1 DEF Pending, NoCall
<1>4. Table'.cap = cap' /\ Table'.state = state' /\ Table'.ent = ent'
  BY DEF Table
<1>5. TableInv(Table', 0) /\ Live(Table') = {} /\ Buried(Table') = {}
  <2>1. CASE cap = 0
    <3>1. state = NoTable.state /\ DOMAIN ent = {}
      BY <1>2, <2>1, TableFields DEF TableInv, TableOK
    <3>2. state' = NoTable.state /\ ent' = NoTable.ent
      BY <1>1, <3>1 DEF NoTable
    <3> QED BY <1>1, <1>4, <2>1, <3>2, NoTableInv
  <2>2. CASE cap # 0
    <3>1. CapOK(cap) /\ DOMAIN state = 0..cap + Group - 1 /\ DOMAIN ent = 0..cap - 1
      BY <1>2, <2>2, TableFields, TableFacts
    <3> DEFINE u == Table'
    <3>2. CapOK(u.cap) /\ u.state = [i \in 0..u.cap + Group - 1 |-> EMPTY] /\ u.ent = [i \in 0..u.cap - 1 |-> Absent]
      BY <1>1, <1>4, <3>1
    <3> HIDE DEF u
    <3>3. TableInv(u, 0) /\ Live(u) = {} /\ Buried(u) = {}
      BY <3>2, EmptyTable
    <3> QED BY <3>3 DEF u
  <2> QED BY <2>1, <2>2
<1>6. MaxFill(cap) \in Nat /\ Earned(cap)'
  BY <1>1, <1>2, FillMonotone DEF Earned
<1>7. QuietState'
  BY <1>1, <1>2, <1>3, <1>5, <1>6, FS_EmptySet DEF QuietState, Results
<1>8. Stored' = {}
  <2>1. Live(new') = {}
    BY <1>1, NoTableInv, NoTableFields
  <2> QED BY <1>5, <2>1 DEF Stored
<1> QED BY <1>7, <1>8, QuietAgainNext

\* A step that changes nothing but the answer.
LEMMA OnlyAnswers ==
  ASSUME Inv, UNCHANGED <<cap, state, ent, size, tombs, new, at, call, peak>>, answer' \in Results
  PROVE  Inv' /\ Stored' = Stored
<1>1. Table' = Table /\ Stored' = Stored
  BY DEF Table, Stored
<1>2. TypeOK'
  BY <1>1 DEF Inv, TypeOK, Results
<1>3. Apart' /\ Pending' = Pending /\ (Idle <=> Idle') /\ Earned(cap)' /\ Earned(new.cap)'
  BY <1>1 DEF Inv, Apart, Pending, Idle, Earned
<1> QED BY <1>1, <1>2, <1>3 DEF Inv, Settled, Rehashing

LEMMA PowerProduct ==
  ASSUME NEW a, PowerOf2(a), NEW b, PowerOf2(b)
  PROVE  PowerOf2(a * b)
<1>1. a \in Nat \ {0} /\ b \in Nat \ {0} /\ \A d \in 1..b : b % d = 0 /\ d % 2 = 1 => d = 1
  BY DEF PowerOf2
<1>2. a * b \in Nat \ {0}
  BY <1>1
<1>3. ASSUME NEW d \in 1..a * b, (a * b) % d = 0, d % 2 = 1 PROVE d = 1
  <2> DEFINE n == a * b
  <2>0. n \in Nat /\ d \in Nat \ {0} /\ d \in Int /\ n % d = 0
    BY <1>2, <1>3
  <2>1. Divides(d, n)
    <3> HIDE DEF n
    <3> QED BY <2>0, Multiple
  <2>2. PICK q \in Int : a * b = d * q
    BY <2>1 DEF Divides
  <2>3. Divides(a, q)
    <3>1. Divides(a, d * q)
      BY <1>1, <2>2 DEF Divides
    <3> QED BY <1>3, <2>0, <3>1, OddFactor
  <2>4. PICK r \in Int : q = a * r
    BY <2>3 DEF Divides
  <2>5. b = d * r
    <3>1. a * b = a * (d * r)
      BY <1>1, <2>0, <2>2, <2>4
    <3> DEFINE x == d * r
    <3>2. x \in Int
      BY <2>0
    <3> HIDE DEF x
    <3>3. a * (b - x) = 0
      BY <1>1, <3>1, <3>2 DEF x
    <3>4. b - x = 0
      BY <1>1, <3>2, <3>3
    <3> QED BY <1>1, <3>2, <3>4 DEF x
  <2>6. b % d = 0
    <3>1. Divides(d, b)
      BY <2>5 DEF Divides
    <3> QED BY <1>1, <2>0, <3>1, Multiple
  <2>7. d <= b
    <3>1. r >= 1
      <4> SUFFICES ASSUME r <= 0 PROVE FALSE
        OBVIOUS
      <4>1. d * r <= 0
        BY <2>0
      <4> QED BY <1>1, <2>5, <4>1
    <3>2. d * r >= d
      BY <2>0, <3>1
    <3> QED BY <2>5, <3>2
  <2> QED BY <1>1, <1>3, <2>0, <2>6, <2>7
<1> QED BY <1>2, <1>3 DEF PowerOf2

LEMMA ReserveStep ==
  ASSUME Inv, NEW n \in 0..Cardinality(Keys), n \in Nat, Reserve(n)
  PROVE  Inv' /\ Stored' = Stored /\ (answer' = answer \/ answer' = Absent)
<1>1. PICK j \in 1..2^n :
        /\ PowerOf2(j) /\ IsNeed(MinCap * j, n)
        /\ IF MinCap * j > cap
           THEN BeginRehash(MinCap * j, [op |-> "reserve"]) /\ peak' = Larger(n) /\ UNCHANGED answer
           ELSE answer' = Absent /\ UNCHANGED <<new, at, call, peak>>
  BY DEF Reserve
<1> DEFINE c == MinCap * j
<1>2. CapOK(c)
  <2>1. PICK m \in Nat : PowerOf2(m) /\ MinCap = Group * m
    BY MinCapOK DEF CapOK
  <2>2. j \in Nat \ {0} /\ m \in Nat \ {0}
    BY <1>1, <2>1 DEF PowerOf2
  <2>3. c = Group * (m * j) /\ PowerOf2(m * j) /\ m * j \in Nat
    BY <1>1, <2>1, <2>2, Geometry, PowerProduct
  <2>4. c \in Nat /\ c >= MinCap
    BY <2>2, Geometry
  <2> QED BY <2>3, <2>4 DEF CapOK
<1> HIDE DEF c
<1>3. /\ IsNeed(c, n) /\ UNCHANGED <<cap, state, ent, size, tombs>> /\ Idle /\ new = NoTable
      /\ IF c > cap
         THEN BeginRehash(c, [op |-> "reserve"]) /\ peak' = Larger(n) /\ UNCHANGED answer
         ELSE answer' = Absent /\ UNCHANGED <<new, at, call, peak>>
  BY <1>1, IdleIsQuiet DEF Reserve, c
<1>4. CASE c > cap
  <2>1. cap \in Nat /\ size \in Nat /\ tombs \in Nat /\ peak \in Nat /\ size + tombs + Pending <= MaxFill(cap)
        /\ Pending = 0
    BY <1>3, Quiet DEF Idle, Pending, NoCall
  <2>2. c \in Nat
    BY <1>2 DEF CapOK
  <2>3. MaxFill(cap) \in Nat /\ MaxFill(cap) <= MaxFill(c) /\ MaxFill(c) \in Nat
    BY <1>4, <2>1, <2>2, FillMonotone
  <2>4. peak' \in Nat /\ peak <= peak' /\ n <= peak'
    BY <1>3, <1>4, <2>1 DEF Larger
  <2>5. c > MinCap => PurgeLimit(c \div 2) <= peak'
    <3> SUFFICES ASSUME c > MinCap PROVE PurgeLimit(c \div 2) <= peak'
      OBVIOUS
    <3>1. n > MaxFill(c \div 2)
      BY <1>3, <2>2, Geometry DEF IsNeed
    <3>2. c \div 2 \in Nat
      BY <2>2
    <3>3. PurgeLimit(c \div 2) \in Nat /\ PurgeLimit(c \div 2) <= MaxFill(c \div 2) /\ MaxFill(c \div 2) \in Nat
      BY <3>2, PurgeBelowFill, FillMonotone
    <3> QED BY <2>4, <3>1, <3>3
  <2>6. [op |-> "reserve"] \in [op : {"reserve"}] /\ [op |-> "reserve"] \notin Calls
    BY DEF Calls
  <2> DEFINE w == [op |-> "reserve"]
  <2>7. /\ w \in Calls \cup [op : {"reserve"}] /\ BeginRehash(c, w)
        /\ UNCHANGED <<cap, state, ent, size, tombs, answer>>
        /\ size <= MaxFill(c) /\ (w \in Calls => size + 1 <= MaxFill(c))
    BY <1>3, <1>4, <2>1, <2>3, <2>6
  <2> HIDE DEF w
  <2>8. Inv' /\ Stored' = Stored
    BY <1>2, <1>3, <2>4, <2>5, <2>7, BeginStep
  <2> QED BY <1>3, <1>4, <2>8
<1>5. CASE ~(c > cap)
  BY <1>3, <1>5, OnlyAnswers DEF Results
<1> QED BY <1>4, <1>5

LEMMA FindStep ==
  ASSUME Inv, NEW k \in Keys, Find(k)
  PROVE  /\ Inv' /\ Stored' = Stored
         /\ \/ (\A d \in Stored : d.key # k) /\ answer' = Absent
            \/ \E d \in Stored : d.key = k /\ answer' = d.val
<1>1. /\ new = NoTable /\ answer' = IF Located(Table, k) THEN ent[SlotOf(Table, k)].val ELSE Absent
      /\ UNCHANGED <<cap, state, ent, size, tombs, new, at, call, peak>>
  BY IdleIsQuiet DEF Find
<1>2. TableInv(Table, 0) /\ Stored = {ent[i] : i \in Live(Table)}
  BY <1>1, Quiet
<1>3. CASE Located(Table, k)
  <2> DEFINE i == SlotOf(Table, k)
  <2>1. i \in Live(Table) /\ ent[i].key = k
    BY <1>1, <1>3, LocatedMeans
  <2> HIDE DEF i
  <2>2. ent[i] \in Stored /\ answer' = ent[i].val
    BY <1>1, <1>2, <1>3, <2>1 DEF i
  <2>3. ent[i].val \in Vals
    <3>1. ent[i] \in Entries
      BY <2>2, StoredOneEach DEF OneEach
    <3> QED BY <3>1 DEF Entries
  <2> QED BY <1>1, <2>1, <2>2, <2>3, OnlyAnswers DEF Results
<1>4. CASE ~Located(Table, k)
  <2>1. \A d \in Stored : d.key # k
    BY <1>1, <1>4, LocatedMeans
  <2>2. answer' = Absent /\ answer' \in Results
    BY <1>1, <1>4 DEF Results
  <2> QED BY <1>1, <2>1, <2>2, OnlyAnswers
<1> QED BY <1>3, <1>4

\* What placing a call's entry does to the map.
Placed(c) ==
  LET e == [key |-> c.key, val |-> c.val] IN
  \/ (\A d \in Stored : d.key # c.key) /\ Stored' = Stored \cup {e} /\ answer' = TRUE
  \/ \E d \in Stored : /\ d.key = c.key /\ answer' = FALSE
                       /\ Stored' = IF c.op = "insert" THEN (Stored \ {d}) \cup {e} ELSE Stored

LEMMA EmplaceStep ==
  ASSUME Inv, NEW c \in Calls, Emplace(c)
  PROVE  Inv' /\ ((Stored' = Stored /\ answer' = answer) \/ Placed(c))
<1>1. Idle /\ new = NoTable /\ size \in Nat /\ tombs \in Nat /\ cap \in Nat /\ peak \in Nat
  BY IdleIsQuiet, Quiet DEF Emplace
<1>2. CASE size + tombs + 1 > MaxFill(cap)
  <2>1. BeginRehash(RebuiltCap, c) /\ UNCHANGED <<cap, state, ent, size, tombs, answer, peak>>
    BY <1>2 DEF Emplace
  <2> DEFINE r == RebuiltCap
  <2>2. CapOK(r) /\ size <= MaxFill(r) /\ size + 1 <= MaxFill(r) /\ (r > MinCap => PurgeLimit(r \div 2) <= peak)
    BY <1>1, <1>2, EmplaceRehash
  <2>3. BeginRehash(r, c)
    BY <2>1
  <2> HIDE DEF r
  <2>4. /\ c \in Calls \cup [op : {"reserve"}] /\ peak' \in Nat /\ peak <= peak'
        /\ UNCHANGED <<cap, state, ent, size, tombs, answer>>
        /\ (c \in Calls => size + 1 <= MaxFill(r)) /\ (r > MinCap => PurgeLimit(r \div 2) <= peak')
    BY <1>1, <2>1, <2>2
  <2>5. Inv' /\ Stored' = Stored
    BY <1>1, <2>2, <2>3, <2>4, BeginStep
  <2> QED BY <2>1, <2>5
<1>3. CASE ~(size + tombs + 1 > MaxFill(cap))
  <2>1. Place(c)
    BY <1>3 DEF Emplace
  <2>2. size + tombs + 1 <= MaxFill(cap)
    BY <1>1, <1>3, FillMonotone
  <2> QED BY <1>1, <2>1, <2>2, PlaceStep DEF Placed
<1> QED BY <1>2, <1>3

LEMMA PlaceAfterRehashStep ==
  ASSUME Inv, PlaceAfterRehash
  PROVE  Inv' /\ call \in Calls /\ Placed(call)
<1>1. ~Idle /\ new = NoTable /\ Place(call)
  BY DEF PlaceAfterRehash
<1>2. call.op # "reserve" /\ size + tombs + Pending <= MaxFill(cap)
  BY <1>1, Quiet
<1>3. call \in Calls
  BY <1>1, <1>2 DEF Inv, TypeOK, Calls, Idle, NoCall
<1>4. Pending = 1
  BY <1>3 DEF Pending, Calls
<1>5. Inv' /\ Placed(call)
  BY <1>1, <1>2, <1>3, <1>4, PlaceStep DEF Placed
<1> QED BY <1>3, <1>5

LEMMA CallsOf ==
  ASSUME NEW k \in Keys, NEW v \in Vals
  PROVE  /\ [op |-> "insert", key |-> k, val |-> v] \in Calls
         /\ [op |-> "try_emplace", key |-> k, val |-> v] \in Calls
BY DEF Calls

\* The representation invariant is inductive.
LEMMA InvNext == Inv /\ [Next]_vars => Inv'
<1> SUFFICES ASSUME Inv, [Next]_vars PROVE Inv'
  OBVIOUS
<1>1. ASSUME NEW k \in Keys, Find(k) PROVE Inv'
  BY <1>1, FindStep
<1>2. ASSUME NEW k \in Keys, Erase(k) PROVE Inv'
  BY <1>2, EraseStep
<1>3. ASSUME NEW k \in Keys, NEW v \in Vals, Insert(k, v) PROVE Inv'
  BY <1>3, CallsOf, EmplaceStep DEF Insert
<1>4. ASSUME NEW k \in Keys, NEW v \in Vals, TryEmplace(k, v) PROVE Inv'
  BY <1>4, CallsOf, EmplaceStep DEF TryEmplace
<1>5. CASE Clear
  BY <1>5, ClearStep
<1>6. ASSUME NEW n \in 0..Cardinality(Keys), Reserve(n) PROVE Inv'
  <2>1. n \in Nat
    OBVIOUS
  <2> QED BY <1>6, <2>1, ReserveStep
<1>7. CASE Move
  BY <1>7, MoveStep
<1>8. CASE EndRehash
  BY <1>8, EndStep
<1>9. CASE PlaceAfterRehash
  BY <1>9, PlaceAfterRehashStep
<1>10. CASE UNCHANGED vars
  BY <1>10, OnlyAnswers DEF vars, Inv, TypeOK, Results
<1> QED BY <1>1, <1>2, <1>3, <1>4, <1>5, <1>6, <1>7, <1>8, <1>9, <1>10 DEF Next

\* Whatever calls are made, the two tables are laid out as the invariant says.
THEOREM InvHolds == Spec => []Inv
<1>1. Init => Inv
  BY InitInv
<1>2. Inv /\ [Next]_vars => Inv'
  BY InvNext
<1> QED BY <1>1, <1>2, PTL DEF Spec

\* Types, and the mirrored tail of every table kept by every write (hash_map.hpp:453-458).
THEOREM TypesHold == Spec => []TypeOK
<1>1. Inv => TypeOK
  BY DEF Inv
<1> QED BY <1>1, InvHolds, PTL

\* The map grows only for entries it held or was told to expect (hash_map.hpp:623-637).
THEOREM GrowthHolds == Spec => []GrowthIsEarned
<1>1. Inv => GrowthIsEarned
  BY DEF Inv, Earned, GrowthIsEarned
<1> QED BY <1>1, InvHolds, PTL

\* Every search, in the map's table or in the one a rehash fills, meets an EMPTY (hash_map.hpp:439).
THEOREM SearchesHold == Spec => []SearchesEnd
<1>1. Inv => SearchesEnd
  <2> SUFFICES ASSUME Inv PROVE SearchesEnd
    OBVIOUS
  <2>1. ASSUME new = NoTable
        PROVE  /\ size = Cardinality(Used(Table)) /\ tombs = Cardinality(Buried(Table))
               /\ size + tombs <= MaxFill(cap)
    <3>1. /\ TableInv(Table, 0) /\ size = Cardinality(Live(Table)) /\ tombs = Cardinality(Buried(Table))
          /\ size + tombs + Pending <= MaxFill(cap) /\ cap \in Nat /\ size \in Nat /\ tombs \in Nat
          /\ Pending \in {0, 1}
      BY <2>1, Quiet
    <3>2. Used(Table) = Live(Table)
      BY <3>1, UsedIsLive
    <3>3. MaxFill(cap) \in Nat
      BY <3>1, FillMonotone
    <3> QED BY <3>1, <3>2, <3>3
  <2>2. CountsAreTrue
    BY <2>1, TableFields DEF CountsAreTrue, Used, Buried, Path
  <2>3. ASSUME NEW k \in Keys, cap > 0, Idle \/ new = NoTable
        PROVE  \E p \in Path(Table) : EndsAt(Table, k, p)
    <3>1. new = NoTable
      BY <2>3, IdleIsQuiet
    <3>2. TableInv(Table, 0) /\ cap \in Nat
      BY <3>1, Quiet
    <3> DEFINE t == Table
    <3>3. TableInv(t, 0) /\ t.cap # 0 /\ Cardinality(Used(t)) + Cardinality(Buried(t)) <= MaxFill(t.cap)
      BY <2>1, <2>3, <3>1, <3>2, TableFields
    <3> HIDE DEF t
    <3>4. \E p \in Path(t) : EndsAt(t, k, p)
      BY <3>3, EmptyOnPath
    <3> QED BY <3>4 DEF t
  <2>4. ASSUME NEW k \in Keys, new # NoTable
        PROVE  \E p \in Path(new) : EndsAt(new, k, p)
    <3>1. /\ TableInv(new, 0) /\ Rehashing /\ cap \in Nat /\ new.cap \in Nat /\ new.cap > 0 /\ size \in Nat
          /\ size = Cardinality(Live(Table)) + Cardinality(Live(new))
      BY <2>4, TableFields DEF Inv, TypeOK, TableOK, Rehashing
    <3>2. Used(new) = Live(new) /\ Cardinality(Buried(new)) = 0
      BY <3>1, UsedIsLive, FS_EmptySet DEF Rehashing
    <3>3. Cardinality(Live(Table)) \in Nat /\ Cardinality(Live(new)) \in Nat
      BY <3>1, TableFields, PathFinite
    <3>4. Pending \in {0, 1} /\ MaxFill(new.cap) \in Nat
      BY <3>1, FillMonotone DEF Pending
    <3> DEFINE t == new
    <3>5. TableInv(t, 0) /\ t.cap # 0 /\ Cardinality(Used(t)) + Cardinality(Buried(t)) <= MaxFill(t.cap)
      BY <3>1, <3>2, <3>3, <3>4 DEF Rehashing
    <3> HIDE DEF t
    <3>6. \E p \in Path(t) : EndsAt(t, k, p)
      BY <3>5, EmptyOnPath
    <3> QED BY <3>6 DEF t
  <2> QED BY <2>2, <2>3, <2>4 DEF SearchesEnd
<1> QED BY <1>1, InvHolds, PTL

-----------------------------------------------------------------------------
(* The map implements KeyedStore.                                          *)

LEMMA ContentsBoth == Contents = ContentsOf(Stored) /\ Contents' = ContentsOf(Stored')
BY DEF Contents, ContentsOf

\* What placing an entry does to the store's map.
LEMMA StorePlace ==
  ASSUME Inv, NEW c \in Calls, Placed(c)
  PROVE  IF c.op = "insert" THEN Store!Insert(c.key, c.val) ELSE Store!TryEmplace(c.key, c.val)
<1> DEFINE e == [key |-> c.key, val |-> c.val]
           S == Stored
           C == ContentsOf(S)
<1>1. OneEach(S) /\ e \in Entries /\ Contents = C /\ Contents' = ContentsOf(Stored')
  BY StoredOneEach, ContentsBoth DEF Calls, Entries
<1>2. DOMAIN C = {d.key : d \in S}
  BY <1>1, Look
<1>3. Put(C, e) = Store!With(c.key, c.val)
  BY <1>1 DEF Put, Store!With
<1>4. CASE (\A d \in S : d.key # c.key) /\ Stored' = S \cup {e} /\ answer' = TRUE
  <2>1. ContentsOf(Stored') = Put(C, e)
    <3> HIDE DEF S
    <3>1. \A d \in S : d.key # e.key
      BY <1>4
    <3> HIDE DEF e
    <3>2. ContentsOf(S \cup {e}) = Put(ContentsOf(S), e)
      BY <1>1, <3>1, AddOne
    <3> QED BY <1>4, <3>2
  <2>2. c.key \notin DOMAIN C
    BY <1>2, <1>4
  <2> QED BY <1>1, <1>3, <1>4, <2>1, <2>2 DEF Store!Insert, Store!TryEmplace
<1>5. CASE \E d \in S : /\ d.key = c.key /\ answer' = FALSE
                        /\ Stored' = IF c.op = "insert" THEN (S \ {d}) \cup {e} ELSE S
  <2>1. PICK d \in S : /\ d.key = c.key /\ answer' = FALSE
                       /\ Stored' = IF c.op = "insert" THEN (S \ {d}) \cup {e} ELSE S
    BY <1>5
  <2>2. c.key \in DOMAIN C
    BY <1>2, <2>1
  <2>3. CASE c.op = "insert"
    <3>1. ContentsOf(Stored') = Put(C, e)
      <4> HIDE DEF S
      <4>1. e.key = d.key
        BY <2>1
      <4>2. Stored' = (S \ {d}) \cup {e}
        BY <2>1, <2>3
      <4> HIDE DEF e
      <4>3. ContentsOf((S \ {d}) \cup {e}) = Put(ContentsOf(S), e)
        BY <1>1, <4>1, ReplaceOne
      <4> QED BY <4>2, <4>3
    <3> QED BY <1>1, <1>3, <2>1, <2>2, <2>3, <3>1 DEF Store!Insert
  <2>4. CASE c.op # "insert"
    BY <1>1, <2>1, <2>2, <2>4 DEF Store!TryEmplace
  <2> QED BY <2>3, <2>4
<1> QED BY <1>4, <1>5 DEF Placed

LEMMA StoreErase ==
  ASSUME Inv, NEW k \in Keys, Erase(k)
  PROVE  Store!Erase(k)
<1> DEFINE S == Stored
           C == ContentsOf(S)
<1>1. OneEach(S) /\ Contents = C /\ Contents' = ContentsOf(Stored')
  BY StoredOneEach, ContentsBoth
<1>2. DOMAIN C = {d.key : d \in S}
  BY <1>1, Look
<1>3. CASE (\A d \in S : d.key # k) /\ answer' = FALSE /\ Stored' = S
  <2>1. k \notin DOMAIN C
    BY <1>2, <1>3
  <2>2. DOMAIN C \ {k} = DOMAIN C
    BY <2>1
  <2>3. C = [j \in DOMAIN C |-> C[j]]
    BY DEF ContentsOf
  <2>4. Store!Without(k) = C
    <3> HIDE DEF C
    <3>1. Store!Without(k) = [j \in DOMAIN C |-> C[j]]
      BY <1>1, <2>2 DEF Store!Without
    <3> QED BY <2>3, <3>1
  <2>5. Contents' = C /\ answer' = (k \in DOMAIN Contents)
    <3> HIDE DEF C
    <3>1. k \notin DOMAIN Contents
      BY <1>1, <2>1
    <3>2. (k \in DOMAIN Contents) = FALSE
      BY <3>1
    <3>3. Contents' = C
      BY <1>1, <1>3 DEF C
    <3> QED BY <1>3, <3>2, <3>3
  <2> QED BY <2>4, <2>5 DEF Store!Erase
<1>4. CASE \E d \in S : d.key = k /\ answer' = TRUE /\ Stored' = S \ {d}
  <2>1. PICK d \in S : d.key = k /\ answer' = TRUE /\ Stored' = S \ {d}
    BY <1>4
  <2>2. ContentsOf(S \ {d}) = [j \in DOMAIN C \ {d.key} |-> C[j]]
    <3> HIDE DEF S
    <3> QED BY <1>1, RemoveOne
  <2>3. k \in DOMAIN C
    BY <1>2, <2>1
  <2> QED BY <1>1, <2>1, <2>2, <2>3 DEF Store!Erase, Store!Without
<1> QED BY <1>3, <1>4, EraseStep

LEMMA StoreFind ==
  ASSUME Inv, NEW k \in Keys, Find(k)
  PROVE  Store!Find(k)
<1> DEFINE S == Stored
           C == ContentsOf(S)
<1>1. OneEach(S) /\ Contents = C /\ Contents' = ContentsOf(Stored')
  BY StoredOneEach, ContentsBoth
<1>2. DOMAIN C = {d.key : d \in S} /\ \A d \in S : C[d.key] = d.val
  BY <1>1, Look
<1>3. Stored' = S
  BY FindStep
<1>4. answer' = IF k \in DOMAIN C THEN C[k] ELSE Absent
  <2>1. CASE (\A d \in S : d.key # k) /\ answer' = Absent
    BY <1>2, <2>1
  <2>2. CASE \E d \in S : d.key = k /\ answer' = d.val
    BY <1>2, <2>2
  <2> QED BY <2>1, <2>2, FindStep
<1> QED BY <1>1, <1>3, <1>4 DEF Store!Find, Store!ValueOf

\* Whatever the sequence of calls, rebuilds and growth, the table answers as a finite map does:
\* every step is a step of KeyedStore or leaves its state alone (hash_map.hpp).
THEOREM RefinesHolds == Spec => RefinesStore
<1>1. Init => Store!Init
  <2> SUFFICES ASSUME Init PROVE Store!Init
    OBVIOUS
  <2>1. Live(Table) = {} /\ Live(new) = {}
    BY NoTableInv, NoTableFields, TableFields DEF Init
  <2>2. Stored = {}
    BY <2>1 DEF Stored
  <2>3. Contents = [k \in {} |-> Absent]
    BY <2>2 DEF Contents
  <2> QED BY <2>3 DEF Init, Store!Init
<1>2. Inv /\ [Next]_vars => [Store!Next]_(Store!svars)
  <2> SUFFICES ASSUME Inv, [Next]_vars PROVE Store!Next \/ UNCHANGED Store!svars
    OBVIOUS
  <2>0. ASSUME Stored' = Stored, answer' = answer PROVE UNCHANGED Store!svars
    BY <2>0, ContentsBoth DEF Store!svars
  <2>1. ASSUME NEW k \in Keys, Find(k) PROVE Store!Next
    BY <2>1, StoreFind DEF Store!Next
  <2>2. ASSUME NEW k \in Keys, Erase(k) PROVE Store!Next
    BY <2>2, StoreErase DEF Store!Next
  <2>3. ASSUME NEW c \in Calls, Placed(c) PROVE Store!Next
    <3>1. c.key \in Keys /\ c.val \in Vals
      BY DEF Calls
    <3> QED BY <2>3, <3>1, StorePlace DEF Store!Next
  <2>4. ASSUME NEW c \in Calls, Emplace(c) PROVE Store!Next \/ UNCHANGED Store!svars
    BY <2>0, <2>3, <2>4, EmplaceStep
  <2>5. ASSUME NEW k \in Keys, NEW v \in Vals, Insert(k, v) \/ TryEmplace(k, v)
        PROVE  Store!Next \/ UNCHANGED Store!svars
    BY <2>4, <2>5, CallsOf DEF Insert, TryEmplace
  <2>6. CASE Clear
    <3>1. Stored' = {} /\ answer' = Absent
      BY <2>6, ClearStep DEF Clear
    <3>2. Contents' = [k \in {} |-> Absent]
      BY <3>1, ContentsBoth DEF ContentsOf
    <3> QED BY <3>1, <3>2 DEF Store!Next, Store!Clear
  <2>7. ASSUME NEW n \in 0..Cardinality(Keys), Reserve(n) PROVE Store!Next \/ UNCHANGED Store!svars
    <3>1. n \in Nat
      OBVIOUS
    <3>2. Stored' = Stored /\ (answer' = answer \/ answer' = Absent)
      BY <2>7, <3>1, ReserveStep
    <3>3. CASE answer' = Absent
      BY <3>2, <3>3, ContentsBoth DEF Store!Next, Store!Reserve
    <3> QED BY <2>0, <3>2, <3>3
  <2>8. CASE Move
    BY <2>0, <2>8, MoveStep DEF Move
  <2>9. CASE EndRehash
    <3>1. Stored' = Stored /\ (answer' = answer \/ answer' = Absent)
      BY <2>9, EndStep DEF EndRehash
    <3>2. CASE answer' = Absent
      BY <3>1, <3>2, ContentsBoth DEF Store!Next, Store!Reserve
    <3> QED BY <2>0, <3>1, <3>2
  <2>10. CASE PlaceAfterRehash
    BY <2>3, <2>10, PlaceAfterRehashStep
  <2>11. CASE UNCHANGED vars
    <3>1. Stored' = Stored /\ answer' = answer
      BY <2>11 DEF vars, Stored, Table
    <3> QED BY <2>0, <3>1
  <2> QED BY <2>1, <2>2, <2>5, <2>6, <2>7, <2>8, <2>9, <2>10, <2>11 DEF Next
<1> QED BY <1>1, <1>2, InvHolds, PTL DEF Spec, RefinesStore, Store!Spec
=============================================================================
