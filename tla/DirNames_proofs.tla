--------------------------- MODULE DirNames_proofs ---------------------------
(***************************************************************************)
(* Induction, recursion and division over the natural numbers, and what    *)
(* follows from them about the names of module DirNames.                   *)
(*                                                                         *)
(* Induction is stated for a set of numbers, recursion for a function of   *)
(* functions, so that no theorem has an operator for a parameter.          *)
(***************************************************************************)
EXTENDS DirNames, FiniteSetTheorems, TLAPS

-----------------------------------------------------------------------------
\* Induction and recursion.

LEMMA NatSetInduction ==
  ASSUME NEW S, 0 \in S, \A n \in Nat : n \in S => n + 1 \in S
  PROVE  \A n \in Nat : n \in S
<1> SUFFICES ASSUME NEW n \in Nat, n \notin S PROVE FALSE
  OBVIOUS
<1> DEFINE T == {k \in 0 .. n : k \in S}
           f == [k \in T |-> k + 1]
<1>1. IsFiniteSet(T) /\ 0 \in T
  <2>1. IsFiniteSet(0 .. n)
    BY FS_Interval
  <2>2. T \in SUBSET (0 .. n)
    OBVIOUS
  <2> QED
    BY <2>1, <2>2, FS_Subset
<1>2. /\ IsFiniteSet(T \ {0}) /\ Cardinality(T \ {0}) = Cardinality(T) - 1
      /\ Cardinality(T) \in Nat
  BY <1>1, FS_RemoveElement, FS_CardinalityType
<1>3. f \in [T -> T \ {0}]
  OBVIOUS
<1>4. PICK x \in T, y \in T : x # y /\ f[x] = f[y]
  <2> HIDE DEF T, f
  <2> QED BY <1>1, <1>2, <1>3, FS_PigeonHole
<1> QED
  BY <1>4

LEMMA LeastNumber ==
  ASSUME NEW S \in SUBSET Nat, S # {}
  PROVE  \E n \in S : \A m \in S : n <= m
<1> SUFFICES ASSUME \A n \in S : \E m \in S : m < n PROVE FALSE
  OBVIOUS
<1> DEFINE T == {n \in Nat : \A m \in S : m >= n}
<1>1. 0 \in T
  OBVIOUS
<1>2. ASSUME NEW n \in Nat, n \in T PROVE n + 1 \in T
  <2>1. n \notin S
    BY <1>2
  <2> QED
    BY <1>2, <2>1
<1> HIDE DEF T
<1>3. \A n \in Nat : n \in T
  BY <1>1, <1>2, NatSetInduction
<1>4. PICK n \in S : n \in Nat
  OBVIOUS
<1>5. n + 1 \in T
  BY <1>3, <1>4
<1> QED
  BY <1>4, <1>5 DEF T

LEMMA StrongInduction ==
  ASSUME NEW S, \A n \in Nat : (\A m \in Nat : m < n => m \in S) => n \in S
  PROVE  \A n \in Nat : n \in S
<1> DEFINE T == Nat \ S
<1>1. ASSUME T # {} PROVE FALSE
  <2>1. PICK n \in T : \A m \in T : n <= m
    <3>1. T \in SUBSET Nat
      OBVIOUS
    <3> HIDE DEF T
    <3> QED
      BY <1>1, <3>1, LeastNumber
  <2> QED
    BY <2>1
<1> QED
  BY <1>1

\* What the recursion x0, D[0], D[1], ... has made up to n.
Begins(g, X, x0, D, n) ==
  /\ g \in [0 .. n -> X] /\ g[0] = x0
  /\ \A k \in Nat : k < n => g[k + 1] = D[k][g[k]]

\* All of it.
Recursion(f, X, x0, D) ==
  f \in [Nat -> X] /\ f[0] = x0 /\ \A n \in Nat : f[n + 1] = D[n][f[n]]

LEMMA NatRecursion ==
  ASSUME NEW X, NEW x0 \in X, NEW D \in [Nat -> [X -> X]]
  PROVE  \E f : Recursion(f, X, x0, D)
<1> DEFINE B(g, n) == Begins(g, X, x0, D, n)
<1>1. \A n \in Nat : \E g : B(g, n)
  <2> DEFINE S == {n \in Nat : \E g : B(g, n)}
  <2>1. 0 \in S
    <3>1. B([k \in 0 .. 0 |-> x0], 0)
      BY DEF Begins
    <3> QED
      BY <3>1
  <2>2. ASSUME NEW n \in Nat, n \in S PROVE n + 1 \in S
    <3>1. PICK g : B(g, n)
      BY <2>2
    <3> DEFINE h == [k \in 0 .. n + 1 |-> IF k = n + 1 THEN D[n][g[n]] ELSE g[k]]
    <3>2. n \in 0 .. n /\ D[n][g[n]] \in X
      BY <3>1 DEF Begins
    <3>3. h \in [0 .. n + 1 -> X] /\ h[0] = x0
      BY <3>1, <3>2 DEF Begins
    <3>4. ASSUME NEW k \in Nat, k < n + 1 PROVE h[k + 1] = D[k][h[k]]
      <4>1. CASE k < n
        BY <3>1, <4>1 DEF Begins
      <4>2. CASE k = n
        BY <3>2, <4>2
      <4> QED
        BY <3>4, <4>1, <4>2
    <3>5. B(h, n + 1)
      BY <3>3, <3>4 DEF Begins
    <3> QED
      BY <3>5
  <2> HIDE DEF S
  <2>3. \A n \in Nat : n \in S
    BY <2>1, <2>2, NatSetInduction
  <2> QED
    BY <2>3 DEF S
<1>2. ASSUME NEW m \in Nat, NEW n \in Nat, m <= n, NEW g, NEW h, B(g, m), B(h, n)
      PROVE  g[m] = h[m]
  <2> DEFINE S == {k \in Nat : k <= m => g[k] = h[k]}
  <2>1. 0 \in S
    BY <1>2 DEF Begins
  <2>2. ASSUME NEW k \in Nat, k \in S PROVE k + 1 \in S
    <3>1. ASSUME k + 1 <= m PROVE g[k + 1] = h[k + 1]
      <4>1. k < m /\ k < n /\ g[k] = h[k]
        BY <1>2, <2>2, <3>1
      <4> QED
        BY <1>2, <4>1 DEF Begins
    <3> QED
      BY <3>1
  <2> HIDE DEF S
  <2>3. \A k \in Nat : k \in S
    BY <2>1, <2>2, NatSetInduction
  <2> QED
    BY <2>3 DEF S
<1> DEFINE G(n) == CHOOSE g : B(g, n)
           f == [n \in Nat |-> G(n)[n]]
<1>3. \A n \in Nat : B(G(n), n)
  BY <1>1
<1> HIDE DEF G
<1>4. f \in [Nat -> X] /\ f[0] = x0
  BY <1>3 DEF Begins
<1>5. ASSUME NEW n \in Nat PROVE f[n + 1] = D[n][f[n]]
  <2>1. n < n + 1 /\ n <= n + 1 /\ n + 1 \in Nat
    OBVIOUS
  <2>2. G(n + 1)[n + 1] = D[n][G(n + 1)[n]]
    BY <1>3, <2>1 DEF Begins
  <2>3. G(n)[n] = G(n + 1)[n]
    BY <1>2, <1>3, <2>1
  <2> QED
    BY <2>2, <2>3
<1> QED
  BY <1>4, <1>5 DEF Recursion

LEMMA Multiples ==
  ASSUME NEW b \in Nat, NEW x \in Int, NEW y \in Int, x < y
  PROVE  b * x + b <= b * y
<1>1. y - x - 1 \in Nat
  OBVIOUS
<1>2. b * (y - x - 1) >= 0
  BY <1>1
<1>3. b * (y - x - 1) = b * y - b * x - b
  OBVIOUS
<1> QED
  BY <1>2, <1>3

LEMMA DivModType ==
  ASSUME NEW a \in Nat, NEW b \in Nat \ {0}
  PROVE  /\ a \div b \in Nat /\ a % b \in 0 .. b - 1
         /\ a = b * (a \div b) + (a % b)
OBVIOUS

LEMMA DivModUnique ==
  ASSUME NEW a \in Nat, NEW b \in Nat \ {0}, NEW q \in Nat, NEW r \in 0 .. b - 1,
         a = b * q + r
  PROVE  a \div b = q /\ a % b = r
<1> DEFINE d == a \div b
           m == a % b
<1>1. d \in Nat /\ m \in 0 .. b - 1 /\ a = b * d + m
  BY DivModType
<1>2. b * d \in Int /\ b * q \in Int
  BY <1>1
<1> HIDE DEF d, m
<1>3. ~(d < q)
  BY <1>1, <1>2, Multiples
<1>4. ~(q < d)
  BY <1>1, <1>2, Multiples
<1>5. d = q
  BY <1>1, <1>3, <1>4
<1>6. m = r
  BY <1>1, <1>2, <1>5
<1> QED
  BY <1>5, <1>6 DEF d, m

-----------------------------------------------------------------------------
\* Powers.

LEMMA PowerDef ==
  ASSUME NEW b \in Nat
  PROVE  /\ Power(b) \in [Nat -> Nat]
         /\ Power(b)[0] = 1
         /\ \A k \in Nat : Power(b)[k + 1] = b * Power(b)[k]
<1> DEFINE D == [k \in Nat |-> [x \in Nat |-> b * x]]
           Is(f) == f = [k \in Nat |-> IF k = 0 THEN 1 ELSE b * f[k - 1]]
<1>0. PICK f : Recursion(f, Nat, 1, D)
  <2>1. D \in [Nat -> [Nat -> Nat]] /\ 1 \in Nat
    OBVIOUS
  <2> HIDE DEF D, Is
  <2> QED
    BY <2>1, NatRecursion
<1>1. f \in [Nat -> Nat] /\ f[0] = 1 /\ \A n \in Nat : f[n + 1] = D[n][f[n]]
  BY <1>0 DEF Recursion
<1>2. Is(f)
  <2>1. \A n \in Nat : f[n + 1] = b * f[n]
    BY <1>1
  <2>2. \A k \in Nat : k # 0 => f[k] = b * f[k - 1]
    <3>1. \A k \in Nat : k # 0 => k - 1 \in Nat /\ (k - 1) + 1 = k
      OBVIOUS
    <3> QED
      BY <2>1, <3>1
  <2> QED
    BY <1>1, <2>2
<1>3. Is(Power(b))
  <2>1. Power(b) = CHOOSE g : Is(g)
    BY DEF Power
  <2> HIDE DEF Is
  <2> QED
    BY <1>2, <2>1
<1>4. \A n \in Nat : Power(b)[n] = f[n]
  <2> DEFINE S == {n \in Nat : Power(b)[n] = f[n]}
  <2>1. 0 \in S
    BY <1>1, <1>3
  <2>2. ASSUME NEW n \in Nat, n \in S PROVE n + 1 \in S
    <3>1. n + 1 # 0 /\ (n + 1) - 1 = n /\ n + 1 \in Nat
      OBVIOUS
    <3>2. f[n + 1] = b * f[n]
      BY <1>1
    <3>3. Power(b)[n + 1] = b * Power(b)[(n + 1) - 1]
      BY <1>3, <3>1
    <3> QED
      BY <2>2, <3>1, <3>2, <3>3
  <2> HIDE DEF S
  <2>3. \A n \in Nat : n \in S
    BY <2>1, <2>2, NatSetInduction
  <2> QED
    BY <2>3 DEF S
<1> QED
  BY <1>1, <1>3, <1>4

LEMMA PowerGrows ==
  ASSUME NEW b \in Nat \ {0}
  PROVE  /\ \A k \in Nat : Power(b)[k] \in Nat \ {0}
         /\ \A k \in Nat : Power(b)[k] <= Power(b)[k + 1]
         /\ b # 1 => \A k \in Nat : Power(b)[k] > k
         /\ b = 1 => \A k \in Nat : Power(b)[k] = 1
<1> DEFINE w == Power(b)
<1>1. w \in [Nat -> Nat] /\ w[0] = 1 /\ \A k \in Nat : w[k + 1] = b * w[k]
  BY PowerDef
<1> HIDE DEF w
<1>2. \A k \in Nat : w[k] \in Nat \ {0}
  <2> DEFINE S == {k \in Nat : w[k] # 0}
  <2>1. 0 \in S
    BY <1>1
  <2>2. ASSUME NEW k \in Nat, k \in S PROVE k + 1 \in S
    <3>1. w[k] \in Nat /\ w[k] # 0 /\ w[k + 1] = b * w[k]
      BY <1>1, <2>2
    <3> QED
      BY <3>1
  <2> HIDE DEF S
  <2>3. \A k \in Nat : k \in S
    BY <2>1, <2>2, NatSetInduction
  <2> QED
    BY <1>1, <2>3 DEF S
<1>3. ASSUME NEW k \in Nat PROVE w[k] <= w[k + 1] /\ (b # 1 => w[k + 1] >= w[k] + 1)
  <2>1. w[k] \in Nat \ {0} /\ w[k + 1] = b * w[k]
    BY <1>1, <1>2
  <2>2. b - 1 \in Nat /\ b * w[k] = w[k] + (b - 1) * w[k]
    BY <2>1
  <2>3. (b - 1) * w[k] >= 0 /\ (b # 1 => (b - 1) * w[k] >= 1)
    BY <2>1, <2>2
  <2> QED
    BY <2>1, <2>2, <2>3
<1>4. ASSUME b # 1 PROVE \A k \in Nat : w[k] > k
  <2> DEFINE S == {k \in Nat : w[k] > k}
  <2>1. 0 \in S
    BY <1>1
  <2>2. ASSUME NEW k \in Nat, k \in S PROVE k + 1 \in S
    BY <1>1, <1>3, <1>4, <2>2
  <2> HIDE DEF S
  <2>3. \A k \in Nat : k \in S
    BY <2>1, <2>2, NatSetInduction
  <2> QED
    BY <2>3 DEF S
<1>5. ASSUME b = 1 PROVE \A k \in Nat : w[k] = 1
  <2> DEFINE S == {k \in Nat : w[k] = 1}
  <2>1. 0 \in S
    BY <1>1
  <2>2. ASSUME NEW k \in Nat, k \in S PROVE k + 1 \in S
    BY <1>1, <1>5, <2>2
  <2> HIDE DEF S
  <2>3. \A k \in Nat : k \in S
    BY <2>1, <2>2, NatSetInduction
  <2> QED
    BY <2>3 DEF S
<1> QED
  BY <1>2, <1>3, <1>4, <1>5 DEF w

\* With two directories in a directory there is a highest power, and it is found
\* in finite time.
LEMMA LevelsType ==
  ASSUME NEW p, p.dirs_per_dir \in Nat \ {0, 1}, NEW n \in Nat
  PROVE  /\ Levels(p, n) \in 0 .. n
         /\ Power(p.dirs_per_dir)[Levels(p, n) + 1] > n
         /\ \A j \in 1 .. Levels(p, n) : Power(p.dirs_per_dir)[j] <= n
<1> DEFINE w == Power(p.dirs_per_dir)
           Is(k) == k \in 0 .. n /\ w[k + 1] > n /\ \A j \in 1 .. k : w[j] <= n
           S == {k \in Nat : w[k + 1] > n}
<1>1. \A k \in Nat : w[k] \in Nat /\ w[k] > k
  BY PowerGrows
<1> HIDE DEF w
<1>2. n \in S
  BY <1>1
<1>3. PICK k \in S : \A m \in S : k <= m
  <2>1. S \in SUBSET Nat /\ S # {}
    BY <1>2
  <2> HIDE DEF S
  <2> QED
    BY <2>1, LeastNumber
<1>4. Is(k)
  <2>1. k \in 0 .. n
    BY <1>2, <1>3
  <2>2. ASSUME NEW j \in 1 .. k PROVE w[j] <= n
    <3>1. j - 1 \in Nat /\ j - 1 \notin S /\ (j - 1) + 1 = j
      BY <1>3
    <3> QED
      BY <1>1, <3>1
  <2> QED
    BY <1>3, <2>1, <2>2
<1>5. Levels(p, n) = CHOOSE k2 \in 0 .. n : w[k2 + 1] > n /\ \A j \in 1 .. k2 : w[j] <= n
  BY DEF Levels, w
<1>6. Is(Levels(p, n))
  BY <1>4, <1>5
<1> QED
  BY <1>6 DEF w

-----------------------------------------------------------------------------
\* Names by number.

\* The remainder of d * v is a digit and the remainder of v.
LEMMA RemainderDigits ==
  ASSUME NEW n \in Nat, NEW d \in Nat \ {0}, NEW v \in Nat \ {0}
  PROVE  /\ d * v \in Nat \ {0}
         /\ (n % (d * v)) \div v \in 0 .. d - 1
         /\ n % (d * v) = v * ((n % (d * v)) \div v) + (n % v)
<1> DEFINE u == d * v
           q == n \div u
           r == n % u
           e == r \div v
           s == r % v
<1>1. u \in Nat \ {0}
  OBVIOUS
<1> HIDE DEF u
<1>2. q \in Nat /\ r \in 0 .. u - 1 /\ n = u * q + r
  BY <1>1, DivModType
<1> HIDE DEF q, r
<1>3. e \in Nat /\ s \in 0 .. v - 1 /\ r = v * e + s
  <2>1. r \in Nat
    BY <1>1, <1>2
  <2> QED
    BY <2>1, DivModType
<1> HIDE DEF e, s
<1>4. n = v * (d * q + e) + s
  <2>1. u * q = v * (d * q)
    BY <1>2 DEF u
  <2>2. v * (d * q + e) = v * (d * q) + v * e
    <3>1. d * q \in Nat
      BY <1>2
    <3> HIDE DEF u
    <3> QED
      BY <1>3, <3>1
  <2>3. v * (d * q) \in Nat /\ v * e \in Nat
    BY <1>2, <1>3
  <2> QED
    BY <1>2, <1>3, <2>1, <2>2, <2>3
<1>5. n % v = s
  <2>1. d * q + e \in Nat
    BY <1>2, <1>3
  <2> QED
    BY <1>3, <1>4, <2>1, DivModUnique
<1>6. e \in 0 .. d - 1
  <2>1. ~(d - 1 < e)
    <3>1. ASSUME d - 1 < e PROVE FALSE
      <4>1. v * (d - 1) + v <= v * e
        BY <1>3, <3>1, Multiples
      <4>2. v * (d - 1) + v = u
        BY DEF u
      <4> QED
        BY <1>1, <1>2, <1>3, <4>1, <4>2
    <3> QED
      BY <3>1
  <2> QED
    BY <1>3, <2>1
<1> QED
  BY <1>1, <1>3, <1>5, <1>6 DEF u, r, e

\* Two numbers with the same digits are the same.
LEMMA DigitsDetermine ==
  ASSUME NEW d \in Nat \ {0}, NEW l \in Nat, NEW n \in Nat, NEW m \in Nat,
         n \div Power(d)[l] = m \div Power(d)[l],
         \A k \in 0 .. l - 1 : (n % Power(d)[k + 1]) \div Power(d)[k]
                                 = (m % Power(d)[k + 1]) \div Power(d)[k]
  PROVE  n = m
<1> DEFINE w == Power(d)
           S == {k \in Nat : k <= l => n % w[k] = m % w[k]}
<1>1. /\ \A k \in Nat : w[k] \in Nat \ {0} /\ w[k + 1] = d * w[k]
      /\ w[0] = 1
  BY PowerGrows, PowerDef
<1>2. /\ n \div w[l] = m \div w[l]
      /\ \A k \in 0 .. l - 1 : (n % w[k + 1]) \div w[k] = (m % w[k + 1]) \div w[k]
  OBVIOUS
<1> HIDE DEF w
<1>3. 0 \in S
  BY <1>1
<1>4. ASSUME NEW k \in Nat, k \in S PROVE k + 1 \in S
  <2>1. ASSUME k + 1 <= l PROVE n % w[k + 1] = m % w[k + 1]
    <3>1. k \in 0 .. l - 1 /\ n % w[k] = m % w[k]
      BY <1>4, <2>1
    <3>2. /\ n % w[k + 1] = w[k] * ((n % w[k + 1]) \div w[k]) + (n % w[k])
          /\ m % w[k + 1] = w[k] * ((m % w[k + 1]) \div w[k]) + (m % w[k])
      <4>1. w[k] \in Nat \ {0} /\ w[k + 1] = d * w[k]
        BY <1>1
      <4> DEFINE v == w[k]
      <4> HIDE DEF v
      <4>2. /\ n % (d * v) = v * ((n % (d * v)) \div v) + (n % v)
            /\ m % (d * v) = v * ((m % (d * v)) \div v) + (m % v)
        BY <4>1, RemainderDigits DEF v
      <4> QED
        BY <4>1, <4>2 DEF v
    <3> QED
      BY <1>2, <3>1, <3>2
  <2> QED
    BY <2>1
<1> HIDE DEF S
<1>5. \A k \in Nat : k \in S
  BY <1>3, <1>4, NatSetInduction
<1>6. n % w[l] = m % w[l]
  BY <1>5 DEF S
<1>7. n = w[l] * (n \div w[l]) + (n % w[l]) /\ m = w[l] * (m \div w[l]) + (m % w[l])
  BY <1>1, DivModType
<1> QED
  BY <1>2, <1>6, <1>7

LEMMA DirNumberType ==
  ASSUME NEW p, p.files_per_dir \in Nat \ {0}, NEW f \in Nat
  PROVE  DirNumber(p, f) \in Nat
BY DivModType DEF DirNumber

\* A name by number is a digit for every power up to the number.
LEMMA SeqDirType ==
  ASSUME NEW p, p.files_per_dir \in Nat \ {0}, p.dirs_per_dir \in Nat \ {0, 1},
         NEW f \in Nat
  PROVE  /\ SeqDir(p, f) \in Seq(0 .. p.dirs_per_dir - 1)
         /\ Len(SeqDir(p, f)) = Levels(p, DirNumber(p, f)) + 1
<1> DEFINE d == p.dirs_per_dir
           w == Power(d)
           n == DirNumber(p, f)
           l == Levels(p, n)
           digit(i) == (IF i = 1 THEN n ELSE n % w[l + 1 - (i - 1)]) \div w[l + 1 - i]
<1>1. n \in Nat
  BY DirNumberType
<1>2. l \in Nat /\ w[l + 1] > n
  BY <1>1, LevelsType
<1>3. \A k \in Nat : w[k] \in Nat \ {0} /\ w[k + 1] = d * w[k]
  BY PowerGrows, PowerDef
<1>4. SeqDir(p, f) = [i \in 1 .. l + 1 |-> digit(i)]
  BY DEF SeqDir
<1> HIDE DEF n, l, w
<1>5. ASSUME NEW i \in 1 .. l + 1 PROVE digit(i) \in 0 .. d - 1
  <2>1. CASE i = 1
    <3> DEFINE q == n \div w[l]
    <3>1. q \in Nat /\ n % w[l] \in 0 .. w[l] - 1 /\ n = w[l] * q + (n % w[l])
      BY <1>1, <1>2, <1>3, DivModType
    <3>2. l + 1 - i = l
      BY <1>2, <2>1
    <3> HIDE DEF q
    <3>3. ~(d - 1 < q)
      <4>1. ASSUME d - 1 < q PROVE w[l] * (d - 1) + w[l] <= w[l] * q
        <5>1. d - 1 \in Int /\ q \in Int /\ w[l] \in Nat
          BY <1>2, <1>3, <3>1
        <5> QED
          BY <4>1, <5>1, Multiples
      <4>2. w[l] * (d - 1) + w[l] = w[l + 1] /\ w[l] * q \in Nat
        BY <1>2, <1>3, <3>1
      <4> QED
        BY <1>1, <1>2, <1>3, <3>1, <4>1, <4>2
    <3>4. digit(i) = q
      BY <2>1, <3>2 DEF q
    <3> QED
      BY <3>1, <3>3, <3>4
  <2>2. CASE i # 1
    <3> DEFINE k == l + 1 - i
    <3>1. k \in Nat /\ l + 1 - (i - 1) = k + 1
      BY <1>2, <2>2
    <3> HIDE DEF k
    <3>2. (n % w[k + 1]) \div w[k] \in 0 .. d - 1
      BY <1>1, <1>3, <3>1, RemainderDigits
    <3> QED
      BY <2>2, <3>1, <3>2 DEF k
  <2> QED
    BY <2>1, <2>2
<1> HIDE DEF digit
<1> QED
  BY <1>2, <1>4, <1>5 DEF n, l

\* Two files with the same name of directory have the same directory number.
LEMMA SeqDirInjective ==
  ASSUME NEW p, p.files_per_dir \in Nat \ {0}, p.dirs_per_dir \in Nat \ {0, 1},
         NEW f \in Nat, NEW g \in Nat, SeqDir(p, f) = SeqDir(p, g)
  PROVE  DirNumber(p, f) = DirNumber(p, g)
<1> DEFINE d == p.dirs_per_dir
           w == Power(d)
           n == DirNumber(p, f)
           m == DirNumber(p, g)
           l == Levels(p, n)
           digit(x, i) == (IF i = 1 THEN x ELSE x % w[l + 1 - (i - 1)]) \div w[l + 1 - i]
<1>1. n \in Nat /\ m \in Nat /\ l \in Nat
  BY DirNumberType, LevelsType
<1>2. Levels(p, m) = l
  <2>1. Len(SeqDir(p, f)) = l + 1 /\ Len(SeqDir(p, g)) = Levels(p, m) + 1
    BY SeqDirType
  <2>2. Levels(p, m) \in 0 .. m
    BY <1>1, LevelsType
  <2> HIDE DEF l, m
  <2> QED
    BY <1>1, <2>1, <2>2
<1>3. /\ SeqDir(p, f) = [i \in 1 .. l + 1 |-> digit(n, i)]
      /\ SeqDir(p, g) = [i \in 1 .. l + 1 |-> digit(m, i)]
  BY <1>2 DEF SeqDir
<1> HIDE DEF n, m, l, w
<1>4. \A i \in 1 .. l + 1 : digit(n, i) = digit(m, i)
  <2> HIDE DEF digit
  <2> QED
    BY <1>3
<1>5. n \div w[l] = m \div w[l]
  <2>1. 1 \in 1 .. l + 1 /\ l + 1 - 1 = l
    BY <1>1
  <2>2. digit(n, 1) = digit(m, 1)
    BY <1>4, <2>1
  <2> QED
    BY <2>1, <2>2
<1>6. ASSUME NEW k \in 0 .. l - 1
      PROVE  (n % w[k + 1]) \div w[k] = (m % w[k + 1]) \div w[k]
  <2> DEFINE i == l + 1 - k
  <2>1. i \in 1 .. l + 1 /\ i # 1 /\ l + 1 - i = k /\ l + 1 - (i - 1) = k + 1
    BY <1>1
  <2>2. digit(n, i) = digit(m, i)
    BY <1>4, <2>1
  <2> HIDE DEF i
  <2> QED
    BY <2>1, <2>2
<1>7. n = m
  <2>1. d \in Nat \ {0}
    OBVIOUS
  <2> HIDE DEF d
  <2>2. n \div Power(d)[l] = m \div Power(d)[l]
    BY <1>5 DEF w
  <2>3. \A k \in 0 .. l - 1 : (n % Power(d)[k + 1]) \div Power(d)[k]
                                = (m % Power(d)[k + 1]) \div Power(d)[k]
    BY <1>6 DEF w
  <2> QED
    BY <1>1, <2>1, <2>2, <2>3, DigitsDetermine
<1> QED
  BY <1>7 DEF n, m

-----------------------------------------------------------------------------
\* Hashing.

Prime == some_prime

LEMMA PrimeType == Prime \in Nat \ {0, 1}
BY DirNamesAssumption DEF Prime

\* Multiples of d by q, and what is left, keep what is said of a product.
LEMMA Reduced ==
  ASSUME NEW a \in Nat, NEW d \in Nat, NEW q \in Nat, NEW r \in Nat,
         NEW b \in Nat \ {0}, NEW e \in Nat, NEW g \in Nat,
         a * (d * q + r) = b * e, a * d = b * g
  PROVE  e - g * q \in Nat /\ a * r = b * (e - g * q)
<1>1. a * (d * q + r) = (a * d) * q + a * r
  OBVIOUS
<1>2. (a * d) * q = b * (g * q)
  <2>1. (b * g) * q = b * (g * q)
    OBVIOUS
  <2> QED
    BY <2>1
<1> DEFINE x == g * q
<1>3. x \in Int /\ a * r \in Nat
  OBVIOUS
<1>4. b * e = b * x + a * r
  BY <1>1, <1>2
<1> HIDE DEF x
<1>5. b * (e - x) = b * e - b * x
  BY <1>3
<1>6. a * r = b * (e - x)
  BY <1>3, <1>4, <1>5
<1>7. ~(e < x)
  <2>1. ASSUME e < x PROVE FALSE
    <3>1. b * e + b <= b * x
      BY <1>3, <2>1, Multiples
    <3> QED
      BY <1>3, <1>4, <3>1
  <2> QED
    BY <2>1
<1> QED
  BY <1>3, <1>6, <1>7 DEF x

\* A number that the prime does not divide, nor a smaller number times the prime.
LEMMA PrimeDivides ==
  ASSUME NEW b \in Nat \ {0}, b % Prime # 0, NEW x \in 1 .. b - 1, NEW e \in Nat
  PROVE  Prime * x # b * e
<1> SUFFICES ASSUME Prime * x = b * e PROVE FALSE
  OBVIOUS
<1> DEFINE S == {y \in Nat : y # 0 /\ \E g \in Nat : Prime * y = b * g}
<1>0. Prime \in Nat \ {0, 1} /\ x \in Nat /\ x # 0 /\ x < b
  BY PrimeType
<1>1. x \in S
  BY <1>0
<1>2. PICK d \in S : \A y \in S : d <= y
  <2>1. S \in SUBSET Nat /\ S # {}
    BY <1>1
  <2> HIDE DEF S
  <2> QED
    BY <2>1, LeastNumber
<1>3. PICK g \in Nat : Prime * d = b * g
  BY <1>2
<1>4. d \in Nat \ {0} /\ d < b
  BY <1>0, <1>1, <1>2
<1> DEFINE m == b \div d
           r == b % d
<1>5. m \in Nat /\ r \in 0 .. d - 1 /\ b = d * m + r
  BY <1>4, DivModType
<1> HIDE DEF m, r
<1>6. r = 0
  <2>1. Prime * b = b * Prime
    BY <1>0
  <2>2. Prime * (d * m + r) = b * Prime
    BY <1>5, <2>1
  <2>3. r \in Nat
    BY <1>4, <1>5
  <2>4. Prime - g * m \in Nat /\ Prime * r = b * (Prime - g * m)
    BY <1>0, <1>3, <1>4, <1>5, <2>2, <2>3, Reduced
  <2>5. r # 0 => r \in S
    BY <2>3, <2>4
  <2>6. r # 0 => d <= r
    BY <1>2, <2>5
  <2> QED
    BY <1>4, <1>5, <2>6
<1>7. b = d * m /\ m # 0 /\ m # 1
  BY <1>4, <1>5, <1>6
<1>8. Prime = m * g
  <2>1. d * Prime = d * (m * g)
    BY <1>0, <1>3, <1>4, <1>5, <1>7
  <2>2. m * g \in Nat
    BY <1>3, <1>5
  <2> DEFINE z == m * g
  <2>3. z \in Int /\ d * Prime = d * z
    BY <2>1, <2>2
  <2> HIDE DEF z
  <2>4. ~(Prime < z) /\ ~(z < Prime)
    <3>1. Prime < z => d * Prime + d <= d * z
      BY <1>0, <1>4, <2>3, Multiples
    <3>2. z < Prime => d * z + d <= d * Prime
      BY <1>0, <1>4, <2>3, Multiples
    <3>3. d * z \in Int
      BY <1>4, <2>3
    <3> QED
      BY <1>0, <1>4, <2>3, <3>1, <3>2, <3>3
  <2>5. Prime = z
    BY <1>0, <2>3, <2>4
  <2> QED
    BY <2>5 DEF z
<1>9. m <= Prime
  <2>1. g # 0
    BY <1>0, <1>5, <1>8
  <2>2. g - 1 \in Nat /\ m * g = m + m * (g - 1) /\ m * (g - 1) >= 0
    BY <1>3, <1>5, <2>1
  <2> QED
    BY <1>5, <1>8, <2>2
<1>10. Prime % m = 0
  <2>1. m \in Nat \ {0} /\ 0 \in 0 .. m - 1 /\ Prime = m * g + 0
    BY <1>0, <1>5, <1>7, <1>8
  <2> QED
    BY <1>0, <1>3, <2>1, DivModUnique
<1>11. m = Prime
  <2>1. m \notin 2 .. Prime - 1
    BY <1>10, DirNamesAssumption DEF Prime
  <2> QED
    BY <1>0, <1>5, <1>7, <1>9, <2>1
<1>12. b % Prime = 0
  <2>1. b = Prime * d + 0 /\ 0 \in 0 .. Prime - 1
    BY <1>0, <1>4, <1>7, <1>11
  <2> QED
    BY <1>0, <1>4, <2>1, DivModUnique
<1> QED
  BY <1>12

\* So multiplying by the prime gives different remainders for numbers that are
\* nearer to each other than the divisor.
LEMMA HashInjective ==
  ASSUME NEW b \in Nat \ {0}, b % some_prime # 0, NEW f \in Nat, NEW g \in Nat,
         f <= g, g < f + b, (f * some_prime) % b = (g * some_prime) % b
  PROVE  f = g
<1> DEFINE x == f * some_prime
           y == g * some_prime
           u == x \div b
           v == y \div b
           r == x % b
<1>1. Prime \in Nat \ {0, 1} /\ x \in Nat /\ y \in Nat
  BY PrimeType DEF Prime
<1>2. x = b * u + r /\ y = b * v + r /\ u \in Nat /\ v \in Nat /\ r \in Int
  <2> HIDE DEF x, y
  <2>1. /\ u \in Nat /\ v \in Nat /\ x % b \in 0 .. b - 1 /\ y % b \in 0 .. b - 1
        /\ x = b * u + (x % b) /\ y = b * v + (y % b)
    BY <1>1, DivModType
  <2>2. x % b = y % b
    BY DEF x, y
  <2> HIDE DEF u, v
  <2> QED
    BY <2>1, <2>2
<1> HIDE DEF u, v, r
<1>3. Prime * (g - f) = y - x
  BY <1>1 DEF Prime
<1>4. Prime * (g - f) = b * (v - u)
  <2>1. b * (v - u) = b * v - b * u /\ b * v \in Int /\ b * u \in Int
    BY <1>2
  <2> HIDE DEF x, y
  <2> QED
    BY <1>1, <1>2, <1>3, <2>1
<1>5. ASSUME f # g PROVE FALSE
  <2>1. g - f \in 1 .. b - 1
    BY <1>5
  <2>2. v - u \in Nat
    <3>1. Prime * (g - f) \in Nat
      BY <1>1, <2>1
    <3>2. ~(v < u)
      <4>1. v < u => b * v + b <= b * u
        BY <1>2, Multiples
      <4>2. b * (v - u) = b * v - b * u /\ b * v \in Int /\ b * u \in Int
        BY <1>2
      <4> QED
        BY <1>4, <3>1, <4>1, <4>2
    <3> QED
      BY <1>2, <3>2
  <2>3. b % Prime # 0
    BY DEF Prime
  <2> QED
    BY <1>4, <2>1, <2>2, <2>3, PrimeDivides
<1> QED
  BY <1>5

\* A remainder of d times v, from the quotient by v.
LEMMA QuotientDigit ==
  ASSUME NEW n \in Nat, NEW d \in Nat \ {0}, NEW v \in Nat \ {0}
  PROVE  n % (d * v) = v * ((n \div v) % d) + (n % v)
<1> DEFINE x == n \div v
           s == n % v
           e == x \div d
           t == x % d
<1>1. x \in Nat /\ s \in 0 .. v - 1 /\ n = v * x + s
  BY DivModType
<1> HIDE DEF x, s
<1>2. e \in Nat /\ t \in 0 .. d - 1 /\ x = d * e + t
  BY <1>1, DivModType
<1> HIDE DEF e, t
<1> DEFINE u == d * v
           r == v * t + s
<1>3. u \in Nat \ {0}
  OBVIOUS
<1>4. t \in Nat /\ s \in Nat
  BY <1>1, <1>2
<1>5. n = u * e + r
  <2>1. v * x = v * (d * e) + v * t
    <3>1. d * e \in Nat
      BY <1>2
    <3> DEFINE z == d * e
    <3>2. z \in Nat /\ x = z + t
      BY <1>2, <3>1
    <3> HIDE DEF z
    <3>3. v * (z + t) = v * z + v * t
      BY <1>4, <3>2
    <3> QED
      BY <3>2, <3>3 DEF z
  <2>2. v * (d * e) = u * e
    BY <1>2
  <2>3. v * t \in Nat /\ u * e \in Nat
    BY <1>2, <1>3, <1>4
  <2> HIDE DEF u
  <2> QED
    BY <1>1, <1>4, <2>1, <2>2, <2>3
<1>6. r \in 0 .. u - 1
  <2>1. v * t + v <= v * d
    BY <1>2, <1>4, Multiples
  <2>2. v * t \in Nat /\ v * d = u
    BY <1>4
  <2> HIDE DEF u
  <2> QED
    BY <1>1, <1>3, <1>4, <2>1, <2>2
<1>7. n % u = r
  <2> HIDE DEF u, r
  <2> QED
    BY <1>2, <1>3, <1>5, <1>6, DivModUnique
<1> QED
  BY <1>7 DEF t, x, s

\* Two numbers whose digits have the same hash have the same digits.
LEMMA HashedDigit ==
  ASSUME NEW d \in Nat \ {0}, d % some_prime # 0, NEW x \in Nat, NEW y \in Nat,
         (x * some_prime) % d = (y * some_prime) % d
  PROVE  x % d = y % d
<1>0. some_prime \in Nat
  BY DirNamesAssumption
<1>1. ASSUME NEW z \in Nat
      PROVE  /\ z % d \in 0 .. d - 1
             /\ (z * some_prime) % d = ((z % d) * some_prime) % d
  <2> DEFINE q == z \div d
             r == z % d
             a == r * some_prime
             c == a \div d
             b == a % d
  <2>1. q \in Nat /\ r \in 0 .. d - 1 /\ z = d * q + r
    BY <1>1, DivModType
  <2> HIDE DEF q, r
  <2>2. a \in Nat /\ r \in Nat
    BY <1>0, <2>1
  <2> HIDE DEF a
  <2>3. c \in Nat /\ b \in 0 .. d - 1 /\ a = d * c + b
    BY <2>2, DivModType
  <2> HIDE DEF c, b
  <2> DEFINE g == q * some_prime
             w == z * some_prime
  <2>4. g \in Nat /\ w \in Nat
    BY <1>0, <1>1, <2>1
  <2>5. w = d * g + a
    <3>1. (d * q + r) * some_prime = (d * q) * some_prime + r * some_prime
      BY <1>0, <2>1, <2>2
    <3>2. (d * q) * some_prime = d * (q * some_prime)
      BY <1>0, <2>1
    <3> QED
      BY <2>1, <3>1, <3>2 DEF a
  <2> HIDE DEF g, w
  <2>6. d * g + d * c = d * (g + c) /\ d * g \in Nat /\ d * c \in Nat
    BY <2>3, <2>4
  <2>7. w = d * (g + c) + b /\ g + c \in Nat
    BY <2>2, <2>3, <2>4, <2>5, <2>6
  <2>8. w % d = b
    BY <2>3, <2>4, <2>7, DivModUnique
  <2> QED
    BY <2>1, <2>8 DEF w, b, a, r
<1>2. /\ x % d \in Nat /\ y % d \in Nat /\ x % d < d /\ y % d < d
      /\ ((x % d) * some_prime) % d = ((y % d) * some_prime) % d
  BY <1>1
<1> DEFINE f == x % d
           g == y % d
<1>3. /\ f \in Nat /\ g \in Nat /\ f < d /\ g < d
      /\ (f * some_prime) % d = (g * some_prime) % d
  BY <1>2
<1> HIDE DEF f, g
<1>4. CASE f <= g
  <2>1. g < f + d
    BY <1>3
  <2> QED
    BY <1>3, <1>4, <2>1, HashInjective DEF f, g
<1>5. CASE g <= f
  <2>1. f < g + d
    BY <1>3
  <2> QED
    BY <1>3, <1>5, <2>1, HashInjective DEF f, g
<1> QED
  BY <1>3, <1>4, <1>5

\* A directory number that hashing ends for has a last round.
LEMMA RoundsType ==
  ASSUME NEW p, p.dirs_per_dir \in Nat \ {0}, NEW n \in Nat, HashingEnds(p, n)
  PROVE  \E k \in 0 .. n : /\ RoundsLeft(p, n, k) <= 1
                           /\ \A j \in 0 .. k - 1 : RoundsLeft(p, n, j) > 1
<1> DEFINE S == {k \in 0 .. n : RoundsLeft(p, n, k) <= 1}
<1>1. S # {}
  BY DEF HashingEnds
<1>2. PICK k \in S : \A m \in S : k <= m
  <2>1. S \in SUBSET Nat
    OBVIOUS
  <2> HIDE DEF S
  <2> QED
    BY <1>1, <2>1, LeastNumber
<1>3. ASSUME NEW j \in 0 .. k - 1 PROVE RoundsLeft(p, n, j) > 1
  <2>1. j \in 0 .. n /\ ~(k <= j)
    BY <1>2
  <2>2. ~(RoundsLeft(p, n, j) <= 1)
    BY <1>2, <2>1
  <2>3. RoundsLeft(p, n, j) \in Nat
    <3> DEFINE w == Power(p.dirs_per_dir)[j]
    <3>1. w \in Nat \ {0}
      <4>1. j \in Nat
        BY <2>1
      <4> QED
        BY <4>1, PowerGrows
    <3> HIDE DEF w
    <3>2. n \div w \in Nat
      BY <3>1, DivModType
    <3> QED
      BY <3>2 DEF RoundsLeft, w
  <2> QED
    BY <2>2, <2>3
<1> QED
  BY <1>2, <1>3

\* A hashed name is one part for every round, and the rounds leave 0 or 1.
LEMMA HashedDirType ==
  ASSUME NEW p, p.dirs_per_dir \in Nat \ {0}, NEW f \in Nat,
         HashedNumber(p, f) \in Nat, HashingEnds(p, HashedNumber(p, f))
  PROVE  LET d == p.dirs_per_dir
             n == HashedNumber(p, f)
             path == HashedDir(p, f)
         IN /\ path \in Seq(0 .. d - 1)
            /\ n \div Power(d)[Len(path)] \in {0, 1}
            /\ \A i \in 1 .. Len(path) :
                 path[i] = ((n \div Power(d)[Len(path) - i]) * some_prime) % d
<1> DEFINE d == p.dirs_per_dir
           n == HashedNumber(p, f)
           w == Power(d)
           Last(k) == /\ RoundsLeft(p, n, k) <= 1
                      /\ \A j \in 0 .. k - 1 : RoundsLeft(p, n, j) > 1
           rounds == CHOOSE k \in 0 .. n : Last(k)
           part(i) == (RoundsLeft(p, n, rounds - i) * some_prime) % d
<1>1. \A k \in Nat : w[k] \in Nat \ {0}
  BY PowerGrows
<1>2. rounds \in 0 .. n /\ Last(rounds)
  BY RoundsType
<1>3. HashedDir(p, f) = [i \in 1 .. rounds |-> part(i)]
  BY DEF HashedDir
<1>4. RoundsLeft(p, n, rounds) \in {0, 1}
  <2>1. RoundsLeft(p, n, rounds) \in Nat /\ RoundsLeft(p, n, rounds) <= 1
    <3> HIDE DEF n, rounds, Last
    <3>1. n \in Nat /\ rounds \in Nat
      BY <1>2 DEF n
    <3> DEFINE v == w[rounds]
    <3>2. v \in Nat \ {0}
      BY <1>1, <3>1
    <3>3. RoundsLeft(p, n, rounds) = n \div v
      BY DEF RoundsLeft
    <3> HIDE DEF w, v
    <3>4. n \div v \in Nat
      BY <3>1, <3>2, DivModType
    <3> QED
      BY <1>2, <3>3, <3>4 DEF Last
  <2> QED
    BY <2>1
<1> HIDE DEF n, w, rounds, Last
<1>5. ASSUME NEW i \in 1 .. rounds
      PROVE  part(i) \in 0 .. d - 1 /\ part(i) = ((n \div w[rounds - i]) * some_prime) % d
  <2> DEFINE x == RoundsLeft(p, n, rounds - i)
  <2>1. x = n \div w[rounds - i]
    BY DEF RoundsLeft, w
  <2>2. rounds - i \in Nat /\ n \in Nat
    BY <1>2 DEF n
  <2>3. x \in Nat
    <3> DEFINE v == w[rounds - i]
    <3>1. v \in Nat \ {0} /\ x = n \div v
      BY <1>1, <2>1, <2>2
    <3> HIDE DEF x, v
    <3> QED
      BY <2>2, <3>1, DivModType
  <2> HIDE DEF x
  <2> DEFINE y == x * some_prime
  <2>4. y \in Nat
    BY <2>3, DirNamesAssumption
  <2> HIDE DEF y
  <2>5. y % d \in 0 .. d - 1
    BY <2>4, DivModType
  <2> QED
    BY <2>1, <2>5 DEF x, y
<1> HIDE DEF part
<1>6. rounds \in Nat
  BY <1>2 DEF n
<1> DEFINE path == HashedDir(p, f)
<1>7. path \in Seq(0 .. d - 1) /\ Len(path) = rounds
  BY <1>3, <1>5, <1>6
<1>8. \A i \in 1 .. rounds : path[i] = ((n \div w[rounds - i]) * some_prime) % d
  BY <1>3, <1>5
<1>9. n \div w[rounds] \in {0, 1}
  BY <1>4 DEF RoundsLeft, w
<1> QED
  BY <1>7, <1>8, <1>9 DEF n, w

\* The directory numbers of a hashed name are at most two.
LEMMA HashedDirTwice ==
  ASSUME NEW p, p.dirs_per_dir \in Nat \ {0}, p.dirs_per_dir % some_prime # 0,
         NEW path, NEW n \in Nat, NEW m \in Nat,
         Len(path) \in Nat, n \div Power(p.dirs_per_dir)[Len(path)] \in {0, 1},
         m \div Power(p.dirs_per_dir)[Len(path)] \in {0, 1},
         \A i \in 1 .. Len(path) :
           ((n \div Power(p.dirs_per_dir)[Len(path) - i]) * some_prime) % p.dirs_per_dir
             = ((m \div Power(p.dirs_per_dir)[Len(path) - i]) * some_prime) % p.dirs_per_dir
  PROVE  m \in {n % Power(p.dirs_per_dir)[Len(path)],
                Power(p.dirs_per_dir)[Len(path)] + (n % Power(p.dirs_per_dir)[Len(path)])}
<1> DEFINE d == p.dirs_per_dir
           w == Power(d)
           l == Len(path)
           S == {k \in Nat : k <= l => n % w[k] = m % w[k]}
<1>1. /\ \A k \in Nat : w[k] \in Nat \ {0} /\ w[k + 1] = d * w[k]
      /\ w[0] = 1
  BY PowerGrows, PowerDef
<1>2. /\ n \div w[l] \in {0, 1} /\ m \div w[l] \in {0, 1} /\ l \in Nat
      /\ \A i \in 1 .. l : ((n \div w[l - i]) * some_prime) % d
                             = ((m \div w[l - i]) * some_prime) % d
      /\ d \in Nat \ {0} /\ d % some_prime # 0
  OBVIOUS
<1> HIDE DEF d, w, l
<1>3. 0 \in S
  <2>1. n % 1 = 0 /\ m % 1 = 0
    OBVIOUS
  <2> QED
    BY <1>1, <2>1
<1>4. ASSUME NEW k \in Nat, k \in S PROVE k + 1 \in S
  <2>1. ASSUME k + 1 <= l PROVE n % w[k + 1] = m % w[k + 1]
    <3> DEFINE v == w[k]
    <3>1. v \in Nat \ {0} /\ w[k + 1] = d * v /\ n % v = m % v
      <4>1. k <= l
        BY <1>2, <2>1
      <4> QED
        BY <1>1, <1>4, <4>1
    <3>2. ((n \div v) * some_prime) % d = ((m \div v) * some_prime) % d
      <4>1. l - k \in 1 .. l /\ l - (l - k) = k
        BY <1>2, <2>1
      <4> QED
        BY <1>2, <4>1
    <3> HIDE DEF v
    <3>3. n \div v \in Nat /\ m \div v \in Nat
      BY <3>1, DivModType
    <3>4. (n \div v) % d = (m \div v) % d
      BY <1>2, <3>2, <3>3, HashedDigit
    <3>5. /\ n % (d * v) = v * ((n \div v) % d) + (n % v)
          /\ m % (d * v) = v * ((m \div v) % d) + (m % v)
      BY <1>2, <3>1, QuotientDigit
    <3> QED
      BY <3>1, <3>4, <3>5
  <2> QED
    BY <2>1
<1> HIDE DEF S
<1>5. \A k \in Nat : k \in S
  BY <1>3, <1>4, NatSetInduction
<1>6. n % w[l] = m % w[l]
  BY <1>2, <1>5 DEF S
<1> DEFINE v == w[l]
<1>7. v \in Nat \ {0} /\ n % v = m % v /\ m \div v \in {0, 1}
  BY <1>1, <1>2, <1>6
<1> HIDE DEF v
<1>8. m = v * (m \div v) + (m % v) /\ m % v \in Nat
  BY <1>7, DivModType
<1>9. v * 0 = 0 /\ v * 1 = v
  BY <1>7
<1>10. m = n % v \/ m = v + (n % v)
  <2> DEFINE r == m % v
             q == m \div v
  <2>1. m = v * q + r /\ r \in Nat /\ q \in {0, 1} /\ n % v = r
    BY <1>7, <1>8
  <2> HIDE DEF r, q
  <2>2. CASE q = 0
    BY <1>9, <2>1, <2>2
  <2>3. CASE q = 1
    BY <1>7, <1>9, <2>1, <2>3
  <2> QED
    BY <2>1, <2>2, <2>3
<1> QED
  BY <1>10 DEF v, w, d, l
=============================================================================
