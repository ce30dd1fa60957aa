------------------------------ MODULE GeoFunProofs -----------------------------
(***************************************************************************)
(* Proofs about GeoFun, for coordinates and bytes of any width.            *)
(*                                                                         *)
(* Combine, Split, LongToByte and ByteToLong are all read as numbers that  *)
(* are written in some base: a coordinate in base 2, a code in base 4 with *)
(* a pair of bits as a digit, a key in base 2 ^ ByteBits.  What is needed  *)
(* of such numbers is proved once: the digits of a number add up to it,    *)
(* each digit can be read from the sum, and the most significant digit     *)
(* that differs decides which number is greater.                           *)
(*                                                                         *)
(* MapThenSumSet takes the members of a set in an order that is not known. *)
(* So the sums are first shown to be the same in any order.  Inductions    *)
(* are over a set of the numbers up to N for which a fact holds (UpTo), or *)
(* by least counterexample.                                                *)
(***************************************************************************)
EXTENDS MCGeoFun, FiniteSetTheorems, FunctionTheorems, WellFoundedInduction, TLAPS

(* Least counterexamples: every set of numbers has a least member, every   *)
(* set of subsets of a finite set a minimal one.                           *)
LEMMA LeastMember ==
  ASSUME NEW T \in SUBSET Nat, T # {}
  PROVE  \E m \in T : \A n \in T : m <= n
<1> DEFINE R == {ss \in Nat \X Nat : ss[1] < ss[2]}
<1>1. IsWellFoundedOn(R, Nat)
  BY NatLessThanWellFounded DEF OpToRel
<1>2. \A m, n \in Nat : <<n, m>> \in R <=> n < m
  OBVIOUS
<1> HIDE DEF R
<1>3. T \subseteq Nat
  OBVIOUS
<1>4. \E m \in T : \A n \in T : ~(<<n, m>> \in R)
  BY <1>1, <1>3, WFMin
<1>5. PICK m \in T : \A n \in T : ~(<<n, m>> \in R)
  BY <1>4
<1>6. ASSUME NEW n \in T PROVE m <= n
  <2>1. m \in Nat /\ n \in Nat /\ ~(n < m)
    BY <1>2, <1>3, <1>5
  <2> QED
    BY <2>1
<1> QED
  BY <1>6

LEMMA LeastSet ==
  ASSUME NEW S, IsFiniteSet(S), NEW T \in SUBSET (SUBSET S), T # {}
  PROVE  \E m \in T : \A t \in T : t \subseteq m => t = m
<1> DEFINE R == StrictSubsetOrdering(S)
<1>1. IsWellFoundedOn(R, SUBSET S)
  BY FS_StrictSubsetOrderingWellFounded, FS_FiniteSubsetsOfFinite
<1>2. \A m, t \in SUBSET S : t \subseteq m /\ t # m => <<t, m>> \in R
  BY DEF StrictSubsetOrdering
<1> HIDE DEF R
<1>3. T \subseteq SUBSET S
  OBVIOUS
<1>4. \E m \in T : \A t \in T : ~(<<t, m>> \in R)
  BY <1>1, <1>3, WFMin
<1>5. PICK m \in T : \A t \in T : ~(<<t, m>> \in R)
  BY <1>4
<1> QED
  BY <1>2, <1>3, <1>5

-----------------------------------------------------------------------------
(* The powers of two.  The provers know nothing of ^ but that a finite set *)
(* has 2 ^ n subsets, so Pow hides it from them.                           *)
Pow(n) == 2 ^ n

LEMMA PowIsNumber == \A n \in Nat : Pow(n) \in Nat \ {0}
<1> SUFFICES ASSUME NEW n \in Nat PROVE Pow(n) \in Nat \ {0}
  OBVIOUS
<1> DEFINE S == 1..n
<1>1. IsFiniteSet(S) /\ Cardinality(S) = n
  BY FS_Interval
<1>2. IsFiniteSet(SUBSET S) /\ Cardinality(SUBSET S) = Pow(n)
  BY <1>1, FS_SUBSET DEF Pow
<1>3. SUBSET S # {}
  OBVIOUS
<1> QED
  BY <1>2, <1>3, FS_CardinalityType, FS_EmptySet

LEMMA PowZero == Pow(0) = 1
BY DEF Pow

(* Twice as many subsets with one element more. *)
LEMMA PowStep ==
  ASSUME NEW n \in Nat
  PROVE  Pow(n + 1) = 2 * Pow(n)
<1> DEFINE S == 1..n
           T == 1..(n + 1)
           More == {s \cup {n + 1} : s \in SUBSET S}
           f == [s \in SUBSET S |-> s \cup {n + 1}]
<1>1. IsFiniteSet(S) /\ Cardinality(S) = n /\ IsFiniteSet(T) /\ Cardinality(T) = n + 1
  BY FS_Interval
<1>2. /\ IsFiniteSet(SUBSET S) /\ Cardinality(SUBSET S) = Pow(n)
      /\ IsFiniteSet(SUBSET T) /\ Cardinality(SUBSET T) = Pow(n + 1)
  BY <1>1, FS_SUBSET DEF Pow
<1>3. n + 1 \notin S /\ T = S \cup {n + 1}
  OBVIOUS
<1> HIDE DEF S, T
<1>4. SUBSET T = (SUBSET S) \cup More
  <2>1. ASSUME NEW t \in SUBSET T PROVE t \in (SUBSET S) \cup More
    <3>1. CASE n + 1 \in t
      <4>1. t \ {n + 1} \in SUBSET S /\ t = (t \ {n + 1}) \cup {n + 1}
        BY <1>3, <3>1
      <4> QED
        BY <4>1
    <3>2. CASE n + 1 \notin t
      BY <1>3, <3>2
    <3> QED
      BY <3>1, <3>2
  <2>2. \A t \in (SUBSET S) \cup More : t \in SUBSET T
    BY <1>3
  <2> QED
    BY <2>1, <2>2
<1>5. (SUBSET S) \cap More = {}
  BY <1>3
<1>6. ExistsBijection(SUBSET S, More)
  <2>1. f \in [SUBSET S -> More]
    OBVIOUS
  <2>2. \A s, t \in SUBSET S : f[s] = f[t] => s = t
    BY <1>3
  <2>3. \A m \in More : \E s \in SUBSET S : f[s] = m
    OBVIOUS
  <2> HIDE DEF f, More
  <2> QED
    BY <2>1, <2>2, <2>3 DEF ExistsBijection, Bijection, Injection, Surjection, IsInjective
<1>7. IsFiniteSet(More) /\ Cardinality(More) = Pow(n)
  BY <1>2, <1>6, FS_Bijection
<1>8. Cardinality(SUBSET T) = Cardinality(SUBSET S) + Cardinality(More) - 0
  <2> HIDE DEF More
  <2> QED
    BY <1>2, <1>4, <1>5, <1>7, FS_Union, FS_EmptySet
<1> QED
  BY <1>2, <1>7, <1>8, PowIsNumber
-----------------------------------------------------------------------------
(* Division. *)
LEMMA Multiple == ASSUME NEW d \in Nat \ {0}, NEW q \in Nat \ {0} PROVE d * q \in Nat /\ d <= d * q
OBVIOUS

LEMMA Quotient ==
  ASSUME NEW d \in Nat \ {0}, NEW q \in Int, NEW r \in 0..(d - 1)
  PROVE  (d * q + r) \div d = q /\ (d * q + r) % d = r
<1> DEFINE a == d * q + r
           p == a \div d
           s == a % d
<1>1. a \in Int
  OBVIOUS
<1>2. a = d * q + r
  OBVIOUS
<1> SUFFICES p = q /\ s = r
  OBVIOUS
<1> HIDE DEF a
<1>3. p \in Int /\ s \in 0..(d - 1) /\ a = d * p + s
  BY <1>1
<1> HIDE DEF p, s
<1>4. d * p - d * q = r - s /\ d * q \in Int /\ d * p \in Int
  BY <1>2, <1>3
<1>5. CASE p > q
  <2>1. p - q \in Nat \ {0}
    BY <1>3, <1>5
  <2>2. d <= d * (p - q)
    BY <2>1, Multiple
  <2>3. d * (p - q) = d * p - d * q
    BY <1>3
  <2> QED
    BY <1>3, <1>4, <2>2, <2>3
<1>6. CASE q > p
  <2>1. q - p \in Nat \ {0}
    BY <1>3, <1>6
  <2>2. d <= d * (q - p)
    BY <2>1, Multiple
  <2>3. d * (q - p) = d * q - d * p
    BY <1>3
  <2> QED
    BY <1>3, <1>4, <2>2, <2>3
<1>7. CASE p = q
  BY <1>3, <1>4, <1>7
<1> QED
  BY <1>3, <1>5, <1>6, <1>7

LEMMA Divided ==
  ASSUME NEW a \in Int, NEW d \in Nat \ {0}
  PROVE  a \div d \in Int /\ a % d \in 0..(d - 1) /\ a = d * (a \div d) + (a % d)
OBVIOUS

-----------------------------------------------------------------------------
(* Sums over a finite set, as MapThenSumSet defines them: g is the table   *)
(* of the sums of f over the sets in D.  There is such a table for all     *)
(* subsets of a finite set, and its entries are integers.                  *)
Pick(s) == CHOOSE x \in s : TRUE
Layer(S, n) == {t \in SUBSET S : Cardinality(t) <= n}
Sums(g, f, D) == g = [s \in D |-> IF s = {} THEN 0 ELSE f[Pick(s)] + g[s \ {Pick(s)}]]

LEMMA PickIn == ASSUME NEW s, s # {} PROVE Pick(s) \in s
BY DEF Pick

LEMMA SumsAt ==
  ASSUME NEW g, NEW f, NEW D, Sums(g, f, D), NEW s \in D
  PROVE  g[s] = IF s = {} THEN 0 ELSE f[Pick(s)] + g[s \ {Pick(s)}]
BY DEF Sums

LEMMA SumsOneMore ==
  ASSUME NEW S, IsFiniteSet(S), NEW n \in Nat, NEW g, NEW f, Sums(g, f, Layer(S, n))
  PROVE  \E h : Sums(h, f, Layer(S, n + 1))
<1> DEFINE h == [s \in Layer(S, n + 1) |->
                  IF s = {} THEN 0 ELSE f[Pick(s)] + g[s \ {Pick(s)}]]
<1>1. Layer(S, n) \subseteq Layer(S, n + 1)
  <2>1. \A t \in SUBSET S : Cardinality(t) \in Nat
    BY FS_Subset, FS_CardinalityType
  <2> QED
    BY <2>1 DEF Layer
<1>2. ASSUME NEW s \in Layer(S, n + 1)
      PROVE  h[s] = IF s = {} THEN 0 ELSE f[Pick(s)] + h[s \ {Pick(s)}]
  <2>1. CASE s = {}
    BY <2>1
  <2>2. CASE s # {}
    <3> DEFINE t == s \ {Pick(s)}
    <3>1. s \in SUBSET S /\ IsFiniteSet(s) /\ Cardinality(s) \in Nat /\ Cardinality(s) <= n + 1
      BY FS_Subset, FS_CardinalityType DEF Layer
    <3>2. t \in SUBSET S /\ Cardinality(t) = Cardinality(s) - 1
      BY <2>2, <3>1, PickIn, FS_RemoveElement
    <3> HIDE DEF t
    <3>3. t \in Layer(S, n)
      BY <3>1, <3>2 DEF Layer
    <3>4. g[t] = IF t = {} THEN 0 ELSE f[Pick(t)] + g[t \ {Pick(t)}]
      BY <3>3, SumsAt
    <3>5. h[t] = g[t]
      BY <1>1, <3>3, <3>4
    <3>6. h[s] = f[Pick(s)] + g[t]
      BY <2>2 DEF t
    <3> HIDE DEF h
    <3> QED
      BY <2>2, <3>5, <3>6 DEF t
  <2> QED
    BY <2>1, <2>2
<1>3. h = [s \in Layer(S, n + 1) |-> h[s]]
  OBVIOUS
<1> HIDE DEF h
<1>4. Sums(h, f, Layer(S, n + 1))
  BY <1>2, <1>3 DEF Sums
<1> QED
  BY <1>4

LEMMA SumsExists ==
  ASSUME NEW S, IsFiniteSet(S), NEW f
  PROVE  \E g : Sums(g, f, SUBSET S)
<1> DEFINE Bad == {n \in Nat : \A g : ~Sums(g, f, Layer(S, n))}
<1>1. Bad = {}
  <2> SUFFICES ASSUME Bad # {} PROVE FALSE
    OBVIOUS
  <2>1. Bad \in SUBSET Nat
    OBVIOUS
  <2>2. PICK m \in Bad : \A n \in Bad : m <= n
    <3> HIDE DEF Bad
    <3> QED
      BY <2>1, LeastMember
  <2>3. m # 0
    <3> DEFINE g == [s \in Layer(S, 0) |-> 0]
    <3>1. \A s \in Layer(S, 0) : s = {}
      BY FS_Subset, FS_CardinalityType, FS_EmptySet DEF Layer
    <3>2. Sums(g, f, Layer(S, 0))
      BY <3>1 DEF Sums
    <3> QED
      BY <3>2
  <2>4. m - 1 \in Nat /\ m - 1 \notin Bad
    BY <2>2, <2>3
  <2>5. PICK g : Sums(g, f, Layer(S, m - 1))
    BY <2>4
  <2>6. \E h : Sums(h, f, Layer(S, m - 1 + 1))
    BY <2>4, <2>5, SumsOneMore
  <2>7. m - 1 + 1 = m
    BY <2>4
  <2> QED
    BY <2>6, <2>7
<1>2. Cardinality(S) \in Nat
  BY FS_CardinalityType
<1>3. Layer(S, Cardinality(S)) = SUBSET S
  BY FS_Subset DEF Layer
<1>4. Cardinality(S) \notin Bad
  BY <1>1
<1>5. \E g : Sums(g, f, Layer(S, Cardinality(S)))
  BY <1>2, <1>4
<1> QED
  BY <1>3, <1>5

LEMMA SumsType ==
  ASSUME NEW S, IsFiniteSet(S), NEW f \in [S -> Int], NEW g, Sums(g, f, SUBSET S)
  PROVE  \A s \in SUBSET S : g[s] \in Int
<1> DEFINE Bad == {s \in SUBSET S : g[s] \notin Int}
<1> SUFFICES ASSUME Bad # {} PROVE FALSE
  OBVIOUS
<1>1. Bad \in SUBSET (SUBSET S)
  OBVIOUS
<1>2. PICK s \in Bad : \A t \in Bad : t \subseteq s => t = s
  <2> HIDE DEF Bad
  <2> QED
    BY <1>1, LeastSet
<1>3. g[s] = IF s = {} THEN 0 ELSE f[Pick(s)] + g[s \ {Pick(s)}]
  BY SumsAt
<1>4. s # {}
  BY <1>3
<1>5. Pick(s) \in s
  BY <1>4, PickIn
<1>6. g[s \ {Pick(s)}] \in Int
  BY <1>2, <1>5
<1>7. f[Pick(s)] \in Int
  BY <1>5
<1> QED
  BY <1>3, <1>4, <1>6, <1>7

(* Whichever member is taken first, the sum is the same. *)
LEMMA SumsAnyOrder ==
  ASSUME NEW S, IsFiniteSet(S), NEW f \in [S -> Int], NEW g, Sums(g, f, SUBSET S)
  PROVE  \A s \in SUBSET S : \A x \in s : g[s] = f[x] + g[s \ {x}]
<1> DEFINE Bad == {s \in SUBSET S : \E x \in s : g[s] # f[x] + g[s \ {x}]}
<1> SUFFICES ASSUME Bad # {} PROVE FALSE
  OBVIOUS
<1>1. Bad \in SUBSET (SUBSET S)
  OBVIOUS
<1>2. PICK s \in Bad : \A t \in Bad : t \subseteq s => t = s
  <2> HIDE DEF Bad
  <2> QED
    BY <1>1, LeastSet
<1>3. PICK x \in s : g[s] # f[x] + g[s \ {x}]
  BY <1>2
<1>4. s \in SUBSET S
  BY <1>2
<1> DEFINE y == Pick(s)
           t == s \ {x, y}
<1>5. y \in s /\ g[s] = f[y] + g[s \ {y}]
  BY <1>3, <1>4, PickIn, SumsAt
<1> HIDE DEF y
<1>6. x # y
  BY <1>3, <1>5
<1>7. s \ {y} \notin Bad /\ s \ {x} \notin Bad
  <2> HIDE DEF Bad
  <2>1. s \ {y} # s /\ s \ {x} # s
    BY <1>3, <1>5
  <2> QED
    BY <1>2, <2>1
<1>8. g[s \ {y}] = f[x] + g[t]
  <2>1. x \in s \ {y} /\ (s \ {y}) \ {x} = t
    BY <1>3, <1>6
  <2>2. s \ {y} \in SUBSET S
    BY <1>4
  <2> HIDE DEF t
  <2>3. g[s \ {y}] = f[x] + g[(s \ {y}) \ {x}]
    BY <1>7, <2>1, <2>2
  <2> QED
    BY <2>1, <2>3
<1>9. g[s \ {x}] = f[y] + g[t]
  <2>1. y \in s \ {x} /\ (s \ {x}) \ {y} = t
    BY <1>5, <1>6
  <2>2. s \ {x} \in SUBSET S
    BY <1>4
  <2> HIDE DEF t
  <2>3. g[s \ {x}] = f[y] + g[(s \ {x}) \ {y}]
    BY <1>7, <2>1, <2>2
  <2> QED
    BY <2>1, <2>3
<1>10. f[x] \in Int /\ f[y] \in Int /\ g[t] \in Int
  <2>1. t \in SUBSET S
    BY <1>4
  <2> HIDE DEF t
  <2> QED
    BY <1>3, <1>4, <1>5, <2>1, SumsType
<1> HIDE DEF t
<1> QED
  BY <1>3, <1>5, <1>8, <1>9, <1>10

Total(f, S) == (CHOOSE g : Sums(g, f, SUBSET S))[S]

(* A sum is reached by adding one member after the other, in the order x.  *)
Enumerates(x, N, S) ==
  /\ x \in [0..(N - 1) -> S]
  /\ \A s \in S : \E i \in 0..(N - 1) : x[i] = s
  /\ \A i, j \in 0..(N - 1) : x[i] = x[j] => i = j
Running(G, N, f, x) ==
  /\ G \in [0..N -> Int] /\ G[0] = 0
  /\ \A n \in 0..(N - 1) : G[n + 1] = G[n] + f[x[n]]

LEMMA TotalIsRunningSum ==
  ASSUME NEW S, IsFiniteSet(S), NEW f \in [S -> Int], NEW N \in Nat, NEW x, Enumerates(x, N, S)
  PROVE  \E G : Running(G, N, f, x) /\ G[N] = Total(f, S)
<1> DEFINE g == CHOOSE g : Sums(g, f, SUBSET S)
           T(n) == {x[i] : i \in 0..(n - 1)}
           G == [n \in 0..N |-> g[T(n)]]
<1>1. Sums(g, f, SUBSET S)
  BY SumsExists
<1>2. Total(f, S) = g[S]
  BY DEF Total
<1> HIDE DEF g
<1>3. \A n \in 0..N : T(n) \in SUBSET S
  BY DEF Enumerates
<1>4. G \in [0..N -> Int]
  <2> HIDE DEF T
  <2> QED
    BY <1>1, <1>3, SumsType
<1>5. G[0] = 0
  <2>1. T(0) = {} /\ {} \in SUBSET S
    OBVIOUS
  <2>2. g[{}] = 0
    BY <1>1, <2>1, SumsAt
  <2> HIDE DEF T
  <2> QED
    BY <2>1, <2>2
<1>6. G[N] = Total(f, S)
  <2>1. T(N) = S
    BY DEF Enumerates
  <2> HIDE DEF T
  <2> QED
    BY <1>2, <2>1
<1>7. ASSUME NEW n \in 0..(N - 1) PROVE G[n + 1] = G[n] + f[x[n]]
  <2>1. x[n] \in T(n + 1)
    OBVIOUS
  <2>2. T(n + 1) \ {x[n]} = T(n)
    <3>1. ASSUME NEW i \in 0..(n + 1 - 1), x[i] # x[n] PROVE x[i] \in T(n)
      <4>1. i # n
        BY <3>1
      <4>2. i \in 0..(n - 1)
        BY <4>1
      <4> QED
        BY <4>2
    <3>2. ASSUME NEW i \in 0..(n - 1) PROVE x[i] # x[n] /\ x[i] \in T(n + 1)
      <4>1. i \in 0..(n + 1 - 1) /\ i \in 0..(N - 1) /\ n \in 0..(N - 1) /\ i # n
        BY <3>2
      <4>2. x[i] # x[n]
        BY <4>1 DEF Enumerates
      <4> QED
        BY <4>1, <4>2
    <3> QED
      BY <3>1, <3>2
  <2>3. n \in 0..N /\ n + 1 \in 0..N
    OBVIOUS
  <2>4. T(n) \in SUBSET S /\ T(n + 1) \in SUBSET S /\ x[n] \in S
    BY <1>3, <2>3 DEF Enumerates
  <2> HIDE DEF T
  <2>5. g[T(n + 1)] = f[x[n]] + g[T(n)]
    BY <1>1, <2>1, <2>2, <2>4, SumsAnyOrder
  <2>6. f[x[n]] \in Int /\ g[T(n)] \in Int
    BY <1>1, <2>4, SumsType
  <2> QED
    BY <2>3, <2>5, <2>6
<1>8. Running(G, N, f, x)
  <2> HIDE DEF G
  <2> QED
    BY <1>4, <1>5, <1>7 DEF Running
<1> HIDE DEF G
<1> QED
  BY <1>6, <1>8

(* Induction over a set of numbers. *)
LEMMA UpTo ==
  ASSUME NEW N \in Nat, NEW Good \in SUBSET (0..N), 0 \in Good,
         \A n \in 0..(N - 1) : n \in Good => n + 1 \in Good
  PROVE  Good = 0..N
<1> DEFINE Bad == (0..N) \ Good
<1> SUFFICES ASSUME Bad # {} PROVE FALSE
  OBVIOUS
<1>1. Bad \in SUBSET Nat
  OBVIOUS
<1>2. PICK m \in Bad : \A n \in Bad : m <= n
  <2> HIDE DEF Bad
  <2> QED
    BY <1>1, LeastMember
<1>3. m \in 0..N /\ m # 0
  BY <1>2
<1>4. m - 1 \in 0..(N - 1) /\ m - 1 \in 0..N /\ ~(m <= m - 1)
  BY <1>3
<1>5. m - 1 \in Good
  BY <1>2, <1>4
<1>6. m - 1 + 1 \in Good
  BY <1>4, <1>5
<1> QED
  BY <1>2, <1>3, <1>6

-----------------------------------------------------------------------------
(* Numbers in any base: p[n] is the weight of the digit n. *)
Weights(p, B) ==
  /\ B \in Nat \ {0} /\ p \in [Nat -> Nat \ {0}]
  /\ p[0] = 1 /\ \A n \in Nat : p[n + 1] = B * p[n]

LEMMA TimesType == \A a, b \in Int : a * b \in Int
OBVIOUS
LEMMA TimesNat == \A a, b \in Nat : a * b \in Nat
OBVIOUS
LEMMA TimesMonotone ==
  ASSUME NEW a \in Int, NEW b \in Int, NEW c \in Nat, a <= b
  PROVE  a * c <= b * c
OBVIOUS

LEMMA DigitStep ==
  ASSUME NEW p, NEW B, Weights(p, B), NEW c \in Int, NEW n \in Nat
  PROVE  /\ c \div p[n + 1] = (c \div p[n]) \div B
         /\ c % p[n + 1] = (c % p[n]) + ((c \div p[n]) % B) * p[n]
<1> DEFINE w == p[n]
           q == c \div w
           r == c % w
           h == q \div B
           d == q % B
           s == r + d * w
<1>1. w \in Nat \ {0} /\ B \in Nat \ {0} /\ p[n + 1] = B * w
  BY DEF Weights
<1> HIDE DEF w
<1>2. q \in Int /\ r \in 0..(w - 1) /\ c = w * q + r
  BY <1>1, Divided
<1> HIDE DEF q, r
<1>3. h \in Int /\ d \in 0..(B - 1) /\ q = B * h + d
  BY <1>1, <1>2, Divided
<1> HIDE DEF h, d
<1>4. B * w \in Nat \ {0} /\ d * w \in Nat
  <2>1. B * w \in Nat /\ w <= B * w
    BY <1>1
  <2> QED
    BY <1>1, <1>3, <2>1, TimesNat
<1>5. d * w <= B * w - w
  <2>1. d * w <= (B - 1) * w
    BY <1>1, <1>3, TimesMonotone
  <2>2. (B - 1) * w = B * w - w
    BY <1>1
  <2> QED
    BY <2>1, <2>2
<1>6. s \in 0..(B * w - 1)
  BY <1>1, <1>2, <1>4, <1>5
<1>7. c = (B * w) * h + s
  <2>1. w * q = w * (B * h) + w * d
    BY <1>1, <1>3, TimesType
  <2>2. w * (B * h) = (B * w) * h /\ w * d = d * w
    BY <1>1, <1>3, TimesType
  <2>3. (B * w) * h \in Int /\ d * w \in Int
    BY <1>1, <1>3, TimesType
  <2> QED
    BY <1>2, <2>1, <2>2, <2>3
<1> DEFINE v == B * w
<1> HIDE DEF s, v
<1>8. c \div v = h /\ c % v = s
  BY <1>3, <1>4, <1>6, <1>7, Quotient DEF v
<1> QED
  BY <1>1, <1>8 DEF v, w, q, r, h, d, s

Counting(N) == [i \in 0..(N - 1) |-> i]
LEMMA CountingUp == \A N \in Nat : Enumerates(Counting(N), N, 0..(N - 1))
BY DEF Counting, Enumerates

(* G[n] is what the lower n digits in d add up to. *)
Adds(G, d, N, p) ==
  /\ G \in [0..N -> Int] /\ G[0] = 0
  /\ \A n \in 0..(N - 1) : G[n + 1] = G[n] + d[n] * p[n]
Digits(d, N, B) == d \in [0..(N - 1) -> 0..(B - 1)]

LEMMA AddsNext ==
  ASSUME NEW N \in Nat, NEW G, NEW d, NEW p, Adds(G, d, N, p), NEW n \in 0..(N - 1)
  PROVE  /\ G[n] \in Int /\ G[n + 1] \in Int /\ G[n + 1] = G[n] + d[n] * p[n]
         /\ n \in Nat /\ n \in 0..N /\ n + 1 \in 0..N
BY DEF Adds

LEMMA WeightsAt ==
  ASSUME NEW p, NEW B, Weights(p, B), NEW n \in Nat
  PROVE  p[n] \in Nat \ {0} /\ B \in Nat \ {0} /\ p[n + 1] = B * p[n] /\ p[0] = 1
BY DEF Weights

LEMMA QuotientOf ==
  ASSUME NEW a, NEW d \in Nat \ {0}, NEW q \in Int, NEW r \in 0..(d - 1), a = d * q + r
  PROVE  a \div d = q /\ a % d = r
BY Quotient

(* The digits of a number add up to it, the upper ones left out. *)
LEMMA DigitsAddUp ==
  ASSUME NEW p, NEW B, Weights(p, B), NEW c \in Int, NEW N \in Nat, NEW d, NEW G,
         Adds(G, d, N, p), \A i \in 0..(N - 1) : d[i] = (c \div p[i]) % B
  PROVE  G[N] = c % p[N]
<1> DEFINE Good == {n \in 0..N : G[n] = c % p[n]}
<1>1. 0 \in Good
  <2>1. c % 1 = 0
    OBVIOUS
  <2> QED
    BY <2>1 DEF Adds, Weights
<1>2. ASSUME NEW n \in 0..(N - 1), n \in Good PROVE n + 1 \in Good
  <2>1. G[n + 1] = G[n] + d[n] * p[n] /\ n \in Nat /\ n + 1 \in 0..N
    BY AddsNext
  <2>2. G[n + 1] = (c % p[n]) + ((c \div p[n]) % B) * p[n]
    BY <1>2, <2>1
  <2>3. G[n + 1] = c % p[n + 1]
    BY <2>1, <2>2, DigitStep
  <2> QED
    BY <2>1, <2>3
<1>3. Good \in SUBSET (0..N)
  OBVIOUS
<1>4. Good = 0..N
  <2> HIDE DEF Good
  <2> QED
    BY <1>1, <1>2, <1>3, UpTo
<1>5. N \in Good
  BY <1>4
<1> QED
  BY <1>5

(* What is added up from digits is below the next weight. *)
LEMMA SumBelow ==
  ASSUME NEW p, NEW B, Weights(p, B), NEW N \in Nat, NEW d, NEW G, Adds(G, d, N, p),
         Digits(d, N, B)
  PROVE  \A n \in 0..N : G[n] \in 0..(p[n] - 1)
<1> DEFINE Good == {n \in 0..N : G[n] \in 0..(p[n] - 1)}
<1>1. 0 \in Good
  <2>1. p[0] = 1 /\ G[0] = 0
    BY DEF Adds, Weights
  <2> QED
    BY <2>1
<1>2. ASSUME NEW n \in 0..(N - 1), n \in Good PROVE n + 1 \in Good
  <2> DEFINE w == p[n]
             a == d[n]
  <2>1. G[n + 1] = G[n] + a * w /\ n \in Nat /\ n + 1 \in 0..N /\ G[n] \in 0..(w - 1)
    BY <1>2, AddsNext
  <2>2. w \in Nat \ {0} /\ B \in Nat \ {0} /\ p[n + 1] = B * w /\ a \in 0..(B - 1)
    BY <2>1 DEF Weights, Digits
  <2> HIDE DEF w, a
  <2>3. a * w <= (B - 1) * w /\ (B - 1) * w = B * w - w
    BY <2>2, TimesMonotone
  <2>4. a * w \in Nat /\ B * w \in Nat
    BY <2>2, TimesNat
  <2>5. G[n + 1] \in 0..(p[n + 1] - 1)
    BY <2>1, <2>2, <2>3, <2>4
  <2> QED
    BY <2>1, <2>5
<1>3. Good \in SUBSET (0..N)
  OBVIOUS
<1>4. Good = 0..N
  <2> HIDE DEF Good
  <2> QED
    BY <1>1, <1>2, <1>3, UpTo
<1> QED
  BY <1>4

LEMMA WeightDivides ==
  ASSUME NEW p, NEW B, Weights(p, B), NEW i \in Nat, NEW N \in Nat
  PROVE  \E k \in Nat : p[i + N] = p[i] * k
<1> DEFINE Good == {n \in 0..N : \E k \in Nat : p[i + n] = p[i] * k}
<1>0. p[i] \in Nat \ {0} /\ B \in Nat \ {0}
  BY WeightsAt
<1>1. 0 \in Good
  <2>1. p[i + 0] = p[i] * 1
    BY <1>0
  <2> QED
    BY <2>1
<1>2. ASSUME NEW n \in 0..(N - 1), n \in Good PROVE n + 1 \in Good
  <2>1. PICK k \in Nat : p[i + n] = p[i] * k
    BY <1>2
  <2>2. p[i + (n + 1)] = B * (p[i] * k)
    <3>1. i + n \in Nat /\ i + (n + 1) = (i + n) + 1
      OBVIOUS
    <3>2. p[(i + n) + 1] = B * p[i + n]
      BY <3>1, WeightsAt
    <3> QED
      BY <2>1, <3>1, <3>2
  <2> DEFINE w == p[i]
             j == B * k
  <2> HIDE DEF w
  <2>3. j \in Nat /\ w \in Nat
    BY <1>0, TimesNat DEF w
  <2>4. B * (w * k) = w * j
    BY <1>0, <2>3
  <2> HIDE DEF j
  <2>5. p[i + (n + 1)] = p[i] * j /\ n + 1 \in 0..N
    BY <2>2, <2>4 DEF w
  <2> QED
    BY <2>3, <2>5
<1>3. Good \in SUBSET (0..N)
  OBVIOUS
<1>4. Good = 0..N
  <2> HIDE DEF Good
  <2> QED
    BY <1>1, <1>2, <1>3, UpTo
<1>5. N \in Good
  BY <1>4
<1> QED
  BY <1>5

(* Each digit can be read from the sum. *)
LEMMA DigitsRead ==
  ASSUME NEW p, NEW B, Weights(p, B), NEW N \in Nat, NEW d, NEW G, Adds(G, d, N, p),
         Digits(d, N, B),
         NEW i \in 0..(N - 1)
  PROVE  (G[N] \div p[i]) % B = d[i]
<1> DEFINE Good == {n \in 0..N : i < n => (G[n] \div p[i]) % B = d[i]}
<1>1. 0 \in Good
  OBVIOUS
<1>2. ASSUME NEW n \in 0..(N - 1), n \in Good PROVE n + 1 \in Good
  <2> DEFINE w == p[i]
             a == d[n]
  <2>1. G[n + 1] = G[n] + a * p[n] /\ n \in Nat /\ n + 1 \in 0..N /\ n \in 0..N
    BY AddsNext
  <2>2. w \in Nat \ {0} /\ B \in Nat \ {0} /\ a \in 0..(B - 1) /\ p[n] \in Nat \ {0}
        /\ i \in Nat /\ G[n] \in Int /\ G[n + 1] \in Int
    <3>1. i \in Nat
      OBVIOUS
    <3>2. a \in 0..(B - 1)
      BY DEF Digits
    <3> QED
      BY <2>1, <3>1, <3>2, WeightsAt, AddsNext
  <2>3. G[n] \in 0..(p[n] - 1)
    BY <2>1, SumBelow
  <2>4. CASE n = i
    <3>1. G[n + 1] = w * a + G[n] /\ G[n] \in 0..(w - 1)
      BY <2>1, <2>2, <2>3, <2>4
    <3> HIDE DEF w, a
    <3>2. G[n + 1] \div w = a
      BY <2>2, <3>1, QuotientOf
    <3>3. a % B = a
      BY <2>2
    <3> QED
      BY <2>1, <2>4, <3>2, <3>3 DEF w, a
  <2>5. CASE i < n
    <3>1. PICK k \in Nat : p[n] = w * (B * k)
      <4> DEFINE j == n - i - 1
                 l == i + 1
      <4>1. j \in Nat /\ l \in Nat /\ l + j = n /\ i \in Nat
        BY <2>5
      <4> HIDE DEF j
      <4>2. p[l] = B * w
        BY <4>1, WeightsAt
      <4> HIDE DEF l
      <4>3. PICK k \in Nat : p[l + j] = p[l] * k
        BY <4>1, WeightDivides
      <4> HIDE DEF w
      <4>4. (B * w) * k = w * (B * k)
        BY <2>2
      <4> QED
        BY <4>1, <4>2, <4>3, <4>4
    <3> DEFINE g == G[n]
               q == g \div w
               r == g % w
               h == q \div B
               b == q % B
    <3>2. b = d[i]
      BY <1>2, <2>5
    <3> HIDE DEF w, a, g
    <3>3. q \in Int /\ r \in 0..(w - 1) /\ g = w * q + r
      BY <2>2, Divided DEF g
    <3> HIDE DEF q, r
    <3>4. h \in Int /\ b \in 0..(B - 1) /\ q = B * h + b
      BY <2>2, <3>3, Divided
    <3> HIDE DEF h, b
    <3> DEFINE m == a * k
    <3>5. m \in Nat /\ B * m \in Int /\ B * k \in Nat
      BY <2>2, TimesNat
    <3>6. a * (w * (B * k)) = w * (B * m)
      <4>1. a * (w * (B * k)) = w * (a * (B * k))
        BY <2>2, <3>5
      <4>2. a * (B * k) = B * (a * k)
        BY <2>2
      <4> QED
        BY <4>1, <4>2
    <3> HIDE DEF m
    <3>7. G[n + 1] = w * (q + B * m) + r
      <4>1. G[n + 1] = (w * q + r) + w * (B * m)
        BY <2>1, <3>1, <3>3, <3>6 DEF g
      <4>2. w * q + w * (B * m) = w * (q + B * m)
        BY <2>2, <3>3, <3>5
      <4>3. w * q \in Int /\ w * (B * m) \in Int
        BY <2>2, <3>3, <3>5, TimesType
      <4> QED
        BY <3>3, <4>1, <4>2, <4>3
    <3>8. q + B * m = B * (h + m) + b /\ h + m \in Int /\ q + B * m \in Int
      BY <2>2, <3>3, <3>4, <3>5
    <3>9. G[n + 1] \div w = q + B * m
      BY <2>2, <3>3, <3>7, <3>8, QuotientOf
    <3>10. (q + B * m) % B = b
      BY <2>2, <3>4, <3>8, QuotientOf
    <3> QED
      BY <2>1, <3>2, <3>9, <3>10 DEF w
  <2>6. CASE n < i
    BY <2>1, <2>6
  <2> QED
    BY <2>1, <2>4, <2>5, <2>6
<1>3. Good \in SUBSET (0..N)
  OBVIOUS
<1>4. Good = 0..N
  <2> HIDE DEF Good
  <2> QED
    BY <1>1, <1>2, <1>3, UpTo
<1>5. N \in Good /\ i < N
  BY <1>4
<1> QED
  BY <1>5

(* The most significant digit that differs decides which sum is greater.   *)
LEMMA FirstDifference ==
  ASSUME NEW p, NEW B, Weights(p, B), NEW N \in Nat,
         NEW d, NEW G, Adds(G, d, N, p), Digits(d, N, B),
         NEW e, NEW H, Adds(H, e, N, p), Digits(e, N, B),
         NEW i \in 0..(N - 1), d[i] < e[i], \A j \in (i + 1)..(N - 1) : d[j] = e[j]
  PROVE  G[N] < H[N]
<1> DEFINE Good == {n \in 0..N : i < n => G[n] < H[n]}
<1>1. 0 \in Good
  OBVIOUS
<1>2. ASSUME NEW n \in 0..(N - 1), n \in Good PROVE n + 1 \in Good
  <2> DEFINE w == p[n]
             a == d[n]
             b == e[n]
  <2>1. /\ G[n + 1] = G[n] + a * w /\ H[n + 1] = H[n] + b * w
        /\ n \in Nat /\ n \in 0..N /\ n + 1 \in 0..N
        /\ G[n] \in Int /\ H[n] \in Int
    BY AddsNext
  <2>2. w \in Nat \ {0} /\ a \in Nat /\ b \in Nat
    <3>1. w \in Nat \ {0} /\ B \in Nat
      BY <2>1, WeightsAt
    <3>2. a \in 0..(B - 1) /\ b \in 0..(B - 1)
      BY DEF Digits
    <3> QED
      BY <3>1, <3>2
  <2>3. G[n] \in 0..(w - 1) /\ H[n] \in 0..(w - 1)
    BY <2>1, SumBelow
  <2>4. CASE n = i
    <3>1. a + 1 <= b
      BY <2>2, <2>4
    <3> HIDE DEF w, a, b
    <3>2. (a + 1) * w <= b * w /\ (a + 1) * w = a * w + w
      BY <2>2, <3>1, TimesMonotone
    <3>3. a * w \in Int /\ b * w \in Int
      BY <2>2, TimesType
    <3> QED
      BY <2>1, <2>2, <2>3, <3>2, <3>3
  <2>5. CASE i < n
    <3>1. a = b /\ G[n] < H[n]
      BY <1>2, <2>1, <2>5
    <3>2. a * w \in Int
      BY <2>2, TimesType
    <3> HIDE DEF w, a, b
    <3> QED
      BY <2>1, <3>1, <3>2
  <2>6. CASE n < i
    BY <2>1, <2>6
  <2> QED
    BY <2>1, <2>4, <2>5, <2>6
<1>3. Good \in SUBSET (0..N)
  OBVIOUS
<1>4. Good = 0..N
  <2> HIDE DEF Good
  <2> QED
    BY <1>1, <1>2, <1>3, UpTo
<1>5. N \in Good /\ i < N
  BY <1>4
<1> QED
  BY <1>5

(* A pair of bits is a digit of base 4: with greater numbers the sum of    *)
(* their pairs does not shrink.                                            *)
Pairs(d, a, b, N, p) ==
  d = [i \in 0..(N - 1) |-> ((a \div p[i]) % 2) + 2 * ((b \div p[i]) % 2)]

LEMMA PairsAreDigits ==
  ASSUME NEW p, Weights(p, 2), NEW N \in Nat, NEW a \in Int, NEW b \in Int,
         NEW d, Pairs(d, a, b, N, p)
  PROVE  /\ Digits(d, N, 4)
         /\ \A i \in 0..(N - 1) : /\ (a \div p[i]) % 2 \in {0, 1} /\ (b \div p[i]) % 2 \in {0, 1}
                                  /\ d[i] = ((a \div p[i]) % 2) + 2 * ((b \div p[i]) % 2)
<1>1. ASSUME NEW i \in 0..(N - 1), NEW c \in Int PROVE (c \div p[i]) % 2 \in {0, 1}
  <2>1. p[i] \in Nat \ {0}
    BY WeightsAt
  <2> DEFINE w == p[i]
             q == c \div w
  <2> HIDE DEF w
  <2>2. q \in Int
    BY <2>1 DEF w
  <2> HIDE DEF q
  <2>3. q % 2 \in {0, 1}
    BY <2>2
  <2> QED
    BY <2>3 DEF q, w
<1>2. ASSUME NEW i \in 0..(N - 1) PROVE d[i] \in 0..3
  <2> DEFINE x == (a \div p[i]) % 2
             y == (b \div p[i]) % 2
  <2>1. x \in {0, 1} /\ y \in {0, 1}
    BY <1>1
  <2>2. d[i] = x + 2 * y
    BY DEF Pairs
  <2> HIDE DEF x, y
  <2> QED
    BY <2>1, <2>2
<1>3. d = [i \in 0..(N - 1) |-> d[i]]
  BY DEF Pairs
<1>4. Digits(d, N, 4)
  BY <1>2, <1>3 DEF Digits
<1>5. \A i \in 0..(N - 1) : d[i] = ((a \div p[i]) % 2) + 2 * ((b \div p[i]) % 2)
  BY DEF Pairs
<1> QED
  BY <1>1, <1>4, <1>5

LEMMA PairsMonotone ==
  ASSUME NEW p, Weights(p, 2), NEW q, Weights(q, 4), NEW N \in Nat,
         NEW a \in Int, NEW b \in Int, NEW d, Pairs(d, a, b, N, p), NEW G, Adds(G, d, N, q),
         NEW u \in Int, NEW v \in Int, NEW e, Pairs(e, u, v, N, p), NEW H, Adds(H, e, N, q),
         a % p[N] <= u % p[N], b % p[N] <= v % p[N]
  PROVE  G[N] <= H[N]
<1> DEFINE Good == {n \in 0..N : a % p[n] <= u % p[n] /\ b % p[n] <= v % p[n] => G[n] <= H[n]}
<1>1. 0 \in Good
  <2>1. G[0] = 0 /\ H[0] = 0
    BY DEF Adds
  <2> QED
    BY <2>1
<1>2. ASSUME NEW n \in 0..(N - 1), n \in Good PROVE n + 1 \in Good
  <2> DEFINE w == p[n]
             z == q[n]
             a1 == a % w
             a2 == (a \div w) % 2
             b1 == b % w
             b2 == (b \div w) % 2
             u1 == u % w
             u2 == (u \div w) % 2
             v1 == v % w
             v2 == (v \div w) % 2
  <2>1. /\ G[n + 1] = G[n] + d[n] * z /\ H[n + 1] = H[n] + e[n] * z
        /\ n \in Nat /\ n \in 0..N /\ n + 1 \in 0..N
        /\ G[n] \in Int /\ H[n] \in Int
    BY AddsNext
  <2>2. /\ a2 \in {0, 1} /\ b2 \in {0, 1} /\ d[n] = a2 + 2 * b2 /\ Digits(d, N, 4)
        /\ u2 \in {0, 1} /\ v2 \in {0, 1} /\ e[n] = u2 + 2 * v2 /\ Digits(e, N, 4)
    BY PairsAreDigits
  <2>3. w \in Nat \ {0} /\ z \in Nat \ {0}
    BY <2>1, WeightsAt
  <2>4. /\ a % p[n + 1] = a1 + a2 * w /\ b % p[n + 1] = b1 + b2 * w
        /\ u % p[n + 1] = u1 + u2 * w /\ v % p[n + 1] = v1 + v2 * w
    BY <2>1, DigitStep
  <2>5. G[n] \in 0..(z - 1) /\ H[n] \in 0..(z - 1)
    BY <2>1, <2>2, SumBelow
  <2>6. a1 <= u1 /\ b1 <= v1 => G[n] <= H[n]
    BY <1>2
  <2> HIDE DEF w, z
  <2>7. a1 \in 0..(w - 1) /\ b1 \in 0..(w - 1) /\ u1 \in 0..(w - 1) /\ v1 \in 0..(w - 1)
    BY <2>3, Divided
  <2> HIDE DEF a1, a2, b1, b2, u1, u2, v1, v2
  <2>8. ASSUME a1 + a2 * w <= u1 + u2 * w, b1 + b2 * w <= v1 + v2 * w
        PROVE  G[n + 1] <= H[n + 1]
    <3>1. a2 <= u2 /\ (a2 = u2 => a1 <= u1)
      BY <2>2, <2>3, <2>7, <2>8
    <3>2. b2 <= v2 /\ (b2 = v2 => b1 <= v1)
      BY <2>2, <2>3, <2>7, <2>8
    <3>3. CASE a2 = u2 /\ b2 = v2
      <4>1. G[n] <= H[n] /\ d[n] = e[n]
        BY <2>2, <2>6, <3>1, <3>2, <3>3
      <4>2. d[n] * z \in Int
        BY <2>2, <2>3, TimesType
      <4> QED
        BY <2>1, <4>1, <4>2
    <3>4. CASE ~(a2 = u2 /\ b2 = v2)
      <4> DEFINE x == d[n]
                 y == e[n]
      <4>1. x + 1 <= y /\ x \in Int /\ y \in Int
        BY <2>2, <3>1, <3>2, <3>4
      <4> HIDE DEF x, y
      <4>2. (x + 1) * z <= y * z /\ (x + 1) * z = x * z + z
        BY <2>3, <4>1, TimesMonotone
      <4>3. x * z \in Int /\ y * z \in Int
        BY <2>3, <4>1, TimesType
      <4>4. G[n + 1] = G[n] + x * z /\ H[n + 1] = H[n] + y * z
        BY <2>1 DEF x, y
      <4> QED
        BY <2>3, <2>5, <4>2, <4>3, <4>4
    <3> QED
      BY <3>3, <3>4
  <2>9. n + 1 \in 0..N
    BY <2>1
  <2> QED
    BY <2>4, <2>8, <2>9
<1>3. Good \in SUBSET (0..N)
  OBVIOUS
<1>4. Good = 0..N
  <2> HIDE DEF Good
  <2> QED
    BY <1>1, <1>2, <1>3, UpTo
<1>5. N \in Good
  BY <1>4
<1> QED
  BY <1>5

-----------------------------------------------------------------------------
(* The weights of the codes: powers of a power of two. *)
Powers(w) == [n \in Nat |-> Pow(w * n)]

LEMMA PowSum ==
  ASSUME NEW m \in Nat, NEW k \in Nat
  PROVE  Pow(m + k) = Pow(m) * Pow(k)
<1> DEFINE Good == {n \in 0..k : Pow(m + n) = Pow(m) * Pow(n)}
<1>1. 0 \in Good
  <2>1. m + 0 = m /\ Pow(m) \in Nat /\ Pow(0) = 1
    BY PowIsNumber, PowZero
  <2> QED
    BY <2>1
<1>2. ASSUME NEW n \in 0..(k - 1), n \in Good PROVE n + 1 \in Good
  <2> DEFINE x == Pow(m)
             y == Pow(n)
             l == m + n
  <2>1. n \in Nat /\ l \in Nat /\ l + 1 = m + (n + 1) /\ n + 1 \in 0..k
    OBVIOUS
  <2>2. Pow(l) = x * y
    BY <1>2
  <2> HIDE DEF l
  <2>3. Pow(l + 1) = 2 * Pow(l) /\ Pow(n + 1) = 2 * y /\ x \in Nat /\ y \in Nat
    BY <2>1, PowStep, PowIsNumber
  <2> HIDE DEF x, y
  <2>4. 2 * (x * y) = x * (2 * y)
    BY <2>3
  <2>5. Pow(m + (n + 1)) = Pow(m) * Pow(n + 1)
    BY <2>1, <2>2, <2>3, <2>4 DEF x
  <2> QED
    BY <2>1, <2>5
<1>3. Good \in SUBSET (0..k)
  OBVIOUS
<1>4. Good = 0..k
  <2> HIDE DEF Good
  <2> QED
    BY <1>1, <1>2, <1>3, UpTo
<1>5. k \in Good
  BY <1>4
<1> QED
  BY <1>5

LEMMA PowersAreWeights ==
  ASSUME NEW w \in Nat
  PROVE  Weights(Powers(w), Pow(w))
<1> DEFINE p == Powers(w)
<1>1. \A n \in Nat : w * n \in Nat
  OBVIOUS
<1>2. p \in [Nat -> Nat \ {0}] /\ Pow(w) \in Nat \ {0}
  BY <1>1, PowIsNumber DEF Powers
<1>3. \A n \in Nat : p[n] = Pow(w * n)
  BY DEF Powers
<1> HIDE DEF p
<1>4. p[0] = 1
  <2>1. w * 0 = 0
    OBVIOUS
  <2> QED
    BY <1>3, <2>1, PowZero
<1>5. ASSUME NEW n \in Nat PROVE p[n + 1] = Pow(w) * p[n]
  <2>1. w * (n + 1) = w + w * n /\ w * n \in Nat /\ n + 1 \in Nat
    OBVIOUS
  <2> DEFINE k == w * n
  <2>2. p[n + 1] = Pow(w + k) /\ p[n] = Pow(k) /\ k \in Nat
    BY <1>3, <2>1
  <2> HIDE DEF k
  <2> QED
    BY <2>2, PowSum
<1>6. Weights(p, Pow(w))
  BY <1>2, <1>4, <1>5 DEF Weights
<1> QED
  BY <1>6 DEF p

LEMMA SmallPowers == Pow(1) = 2 /\ Pow(2) = 4
<1>1. Pow(0 + 1) = 2 * 1 /\ Pow(1 + 1) = 2 * Pow(1)
  BY PowStep, PowZero
<1> QED
  BY <1>1

(* The weights of the bits of a coordinate, of the pairs of bits of a      *)
(* code, and of the bytes of a key.                                        *)
Bin == Powers(1)
Quad == Powers(2)
Base == Powers(ByteBits)

LEMMA CodeWeights ==
  /\ Weights(Bin, 2) /\ Weights(Quad, 4)
  /\ \A n \in Nat : Bin[n] = 2 ^ n /\ Quad[n] = 2 ^ (2 * n) /\ 2 ^ (2 * n + 1) = 2 * Quad[n]
<1>1. Weights(Bin, 2) /\ Weights(Quad, 4)
  BY PowersAreWeights, SmallPowers DEF Bin, Quad
<1>2. ASSUME NEW n \in Nat
      PROVE  Bin[n] = Pow(n) /\ Quad[n] = Pow(2 * n) /\ Pow(2 * n + 1) = 2 * Quad[n]
  <2>1. 1 * n = n /\ 2 * n \in Nat
    OBVIOUS
  <2>2. Bin[n] = Pow(n) /\ Quad[n] = Pow(2 * n)
    BY <2>1 DEF Bin, Quad, Powers
  <2> QED
    BY <2>1, <2>2, PowStep
<1>3. ASSUME NEW n \in Nat
      PROVE  Bin[n] = 2 ^ n /\ Quad[n] = 2 ^ (2 * n) /\ 2 ^ (2 * n + 1) = 2 * Quad[n]
  BY <1>2, Zenon DEF Pow
<1> QED
  BY <1>1, <1>3

LEMMA ExactQuotient ==
  ASSUME NEW a \in Nat, NEW b \in Nat \ {0}, a % b = 0, a > 0
  PROVE  a \div b \in Nat \ {0} /\ b * (a \div b) = a
OBVIOUS

LEMMA Widths ==
  /\ Bits \in Nat \ {0} /\ ByteBits \in Nat \ {0} /\ Grain \in Nat \ {0} /\ FloatStep \in Nat \ {0}
  /\ HalfLat \in Nat \ {0} /\ HalfLng \in Nat \ {0}
  /\ Bytes \in Nat \ {0} /\ ByteBits * Bytes = 2 * Bits
<1>1. Bits \in Nat \ {0} /\ ByteBits \in Nat \ {0} /\ (2 * Bits) % ByteBits = 0
  BY GlobeAssumption
<1>2. Bytes \in Nat \ {0} /\ ByteBits * Bytes = 2 * Bits
  <2>1. 2 * Bits \in Nat /\ 2 * Bits > 0
    BY <1>1
  <2> QED
    BY <1>1, <2>1, ExactQuotient DEF Bytes
<1> QED
  BY <1>1, <1>2, GlobeAssumption

LEMMA BitIs == ASSUME NEW n \in Int, NEW i \in Nat PROVE Bit(n, i) = (n \div Bin[i]) % 2
BY CodeWeights, Zenon DEF Bit

LEMMA BitType == \A n \in Int, i \in Nat : Bit(n, i) \in {0, 1}
<1> SUFFICES ASSUME NEW n \in Int, NEW i \in Nat PROVE Bit(n, i) \in {0, 1}
  OBVIOUS
<1> DEFINE b == Bin[i]
<1>1. b \in Nat \ {0}
  BY CodeWeights, WeightsAt
<1> HIDE DEF b
<1>2. n \div b \in Int
  BY <1>1
<1>3. (n \div b) % 2 \in {0, 1}
  BY <1>2
<1> QED
  BY <1>3, BitIs DEF b

-----------------------------------------------------------------------------
(* Each of the sums that make up codes, coordinates and keys, digit by digit. *)
Sum(c, d, N, p) == \E G : Adds(G, d, N, p) /\ G[N] = c

LEMMA SumOfDigits ==
  ASSUME NEW N \in Nat, NEW S, IsFiniteSet(S), NEW f \in [S -> Int], NEW x, Enumerates(x, N, S),
         NEW d, NEW p, \A i \in 0..(N - 1) : f[x[i]] = d[i] * p[i]
  PROVE  Sum(Total(f, S), d, N, p)
<1>1. PICK G : Running(G, N, f, x) /\ G[N] = Total(f, S)
  BY TotalIsRunningSum
<1>2. Adds(G, d, N, p)
  BY <1>1 DEF Running, Adds
<1> QED
  BY <1>1, <1>2 DEF Sum

LEMMA CombineIsSum ==
  ASSUME NEW a \in Int, NEW b \in Int, NEW d, Pairs(d, a, b, Bits, Bin)
  PROVE  Sum(Combine(a, b), d, Bits, Quad)
<1> DEFINE S == 0..(Bits - 1)
           Place(i) == Bit(a, i) * 2 ^ (2 * i) + Bit(b, i) * 2 ^ (2 * i + 1)
           f == [i \in S |-> Place(i)]
           P(g) == g = [s \in SUBSET S |-> IF s = {} THEN 0 ELSE Place(Pick(s)) + g[s \ {Pick(s)}]]
<1>1. Combine(a, b) = (CHOOSE g : P(g))[S]
  BY DEF Combine, SumOver, MapThenSumSet, MapThenFoldSet, Pick
<1>2. \A i \in S : i \in Nat
  BY Widths
<1>3. ASSUME NEW i \in S PROVE Place(i) = d[i] * Quad[i] /\ Place(i) \in Int
  <2> DEFINE x == Bit(a, i)
             y == Bit(b, i)
             z == Quad[i]
  <2>1. i \in Nat
    BY <1>2
  <2>2. Place(i) = x * z + y * (2 * z)
    BY <2>1, CodeWeights, Zenon
  <2>3. x \in {0, 1} /\ y \in {0, 1} /\ z \in Nat \ {0}
    BY <2>1, CodeWeights, BitType, WeightsAt
  <2>4. d[i] = x + 2 * y
    BY <2>1, BitIs DEF Pairs
  <2> HIDE DEF x, y, z, Place
  <2>5. x * z + y * (2 * z) = (x + 2 * y) * z /\ (x + 2 * y) * z \in Int
    BY <2>3
  <2> QED
    BY <2>2, <2>4, <2>5 DEF z
<1> HIDE DEF Place
<1>4. \A s \in SUBSET S : s # {} => f[Pick(s)] = Place(Pick(s))
  BY PickIn
<1>5. IsFiniteSet(S) /\ f \in [S -> Int]
  BY <1>3, Widths, FS_Interval
<1>6. \A i \in S : f[Counting(Bits)[i]] = d[i] * Quad[i]
  BY <1>3 DEF Counting
<1>7. Enumerates(Counting(Bits), Bits, S) /\ Bits \in Nat
  BY Widths, CountingUp
<1>8. \A g : P(g) <=> Sums(g, f, SUBSET S)
  <2> HIDE DEF S
  <2> QED
    BY <1>4 DEF Sums
<1> HIDE DEF f, P
<1>9. (CHOOSE g : P(g)) = (CHOOSE g : Sums(g, f, SUBSET S))
  BY <1>8
<1>10. Combine(a, b) = Total(f, S)
  BY <1>1, <1>9 DEF Total
<1>11. Sum(Total(f, S), d, Bits, Quad)
  <2> HIDE DEF S
  <2> QED
    BY <1>5, <1>6, <1>7, SumOfDigits DEF S
<1> QED
  BY <1>10, <1>11

LEMMA EvenIsSum ==
  ASSUME NEW n \in Int, NEW d, d = [i \in 0..(Bits - 1) |-> Bit(n, 2 * i)]
  PROVE  Sum(Split(n).first, d, Bits, Bin)
<1> DEFINE S == 0..(Bits - 1)
           f == [i \in S |-> Bit(n, 2 * i) * 2 ^ i]
           P(g) == g = [s \in SUBSET S |-> IF s = {} THEN 0
                       ELSE Bit(n, 2 * Pick(s)) * 2 ^ Pick(s) + g[s \ {Pick(s)}]]
<1>1. Split(n).first = (CHOOSE g : P(g))[S]
  BY DEF Split, SumOver, MapThenSumSet, MapThenFoldSet, Pick
<1>2. \A i \in S : i \in Nat /\ 2 * i \in Nat
  BY Widths
<1>3. ASSUME NEW i \in S PROVE f[i] = d[i] * Bin[i] /\ f[i] \in Int
  <2> DEFINE x == Bit(n, 2 * i)
  <2>1. f[i] = x * Bin[i]
    BY <1>2, CodeWeights, Zenon
  <2>2. d[i] = x
    OBVIOUS
  <2>3. x \in {0, 1} /\ Bin[i] \in Nat \ {0}
    BY <1>2, CodeWeights, BitType, WeightsAt
  <2> HIDE DEF x, f
  <2> QED
    BY <2>1, <2>2, <2>3
<1>4. \A s \in SUBSET S : s # {} => f[Pick(s)] = Bit(n, 2 * Pick(s)) * 2 ^ Pick(s)
  BY PickIn
<1>5. f = [i \in S |-> f[i]]
  OBVIOUS
<1>6. \A g : P(g) <=> Sums(g, f, SUBSET S)
  <2> HIDE DEF S
  <2> QED
    BY <1>4 DEF Sums
<1> HIDE DEF f, P
<1>7. IsFiniteSet(S) /\ f \in [S -> Int]
  <2>1. IsFiniteSet(S)
    BY Widths, FS_Interval
  <2> HIDE DEF S
  <2> QED
    BY <1>3, <1>5, <2>1
<1>8. \A i \in S : f[Counting(Bits)[i]] = d[i] * Bin[i]
  BY <1>3 DEF Counting
<1>9. Enumerates(Counting(Bits), Bits, S) /\ Bits \in Nat
  BY Widths, CountingUp
<1>10. (CHOOSE g : P(g)) = (CHOOSE g : Sums(g, f, SUBSET S))
  BY <1>6
<1>11. Split(n).first = Total(f, S)
  BY <1>1, <1>10 DEF Total
<1>12. Sum(Total(f, S), d, Bits, Bin)
  <2> HIDE DEF S
  <2> QED
    BY <1>7, <1>8, <1>9, SumOfDigits DEF S
<1> QED
  BY <1>11, <1>12

LEMMA OddIsSum ==
  ASSUME NEW n \in Int, NEW d, d = [i \in 0..(Bits - 1) |-> Bit(n, 2 * i + 1)]
  PROVE  Sum(Split(n).second, d, Bits, Bin)
<1> DEFINE S == 0..(Bits - 1)
           f == [i \in S |-> Bit(n, 2 * i + 1) * 2 ^ i]
           P(g) == g = [s \in SUBSET S |-> IF s = {} THEN 0
                       ELSE Bit(n, 2 * Pick(s) + 1) * 2 ^ Pick(s) + g[s \ {Pick(s)}]]
<1>1. Split(n).second = (CHOOSE g : P(g))[S]
  BY DEF Split, SumOver, MapThenSumSet, MapThenFoldSet, Pick
<1>2. \A i \in S : i \in Nat /\ 2 * i + 1 \in Nat
  BY Widths
<1>3. ASSUME NEW i \in S PROVE f[i] = d[i] * Bin[i] /\ f[i] \in Int
  <2> DEFINE x == Bit(n, 2 * i + 1)
  <2>1. f[i] = x * Bin[i]
    BY <1>2, CodeWeights, Zenon
  <2>2. d[i] = x
    OBVIOUS
  <2>3. x \in {0, 1} /\ Bin[i] \in Nat \ {0}
    BY <1>2, CodeWeights, BitType, WeightsAt
  <2> HIDE DEF x, f
  <2> QED
    BY <2>1, <2>2, <2>3
<1>4. \A s \in SUBSET S : s # {} => f[Pick(s)] = Bit(n, 2 * Pick(s) + 1) * 2 ^ Pick(s)
  BY PickIn
<1>5. f = [i \in S |-> f[i]]
  OBVIOUS
<1>6. \A g : P(g) <=> Sums(g, f, SUBSET S)
  <2> HIDE DEF S
  <2> QED
    BY <1>4 DEF Sums
<1> HIDE DEF f, P
<1>7. IsFiniteSet(S) /\ f \in [S -> Int]
  <2>1. IsFiniteSet(S)
    BY Widths, FS_Interval
  <2> HIDE DEF S
  <2> QED
    BY <1>3, <1>5, <2>1
<1>8. \A i \in S : f[Counting(Bits)[i]] = d[i] * Bin[i]
  BY <1>3 DEF Counting
<1>9. Enumerates(Counting(Bits), Bits, S) /\ Bits \in Nat
  BY Widths, CountingUp
<1>10. (CHOOSE g : P(g)) = (CHOOSE g : Sums(g, f, SUBSET S))
  BY <1>6
<1>11. Split(n).second = Total(f, S)
  BY <1>1, <1>10 DEF Total
<1>12. Sum(Total(f, S), d, Bits, Bin)
  <2> HIDE DEF S
  <2> QED
    BY <1>7, <1>8, <1>9, SumOfDigits DEF S
<1> QED
  BY <1>11, <1>12

Key == [1..Bytes -> Int]
Octet == 0..(Pow(ByteBits) - 1)
KeyDigits(key) == [i \in 0..(Bytes - 1) |-> key[Bytes - i]]

LEMMA KeyIsSum ==
  ASSUME NEW key \in Key
  PROVE  Sum(ByteToLong(key), KeyDigits(key), Bytes, Base)
<1> DEFINE S == 1..Bytes
           Place(k) == key[k] * 2 ^ (ByteBits * (Bytes - k))
           f == [k \in S |-> Place(k)]
           x == [i \in 0..(Bytes - 1) |-> Bytes - i]
           P(g) == g = [s \in SUBSET S |-> IF s = {} THEN 0 ELSE Place(Pick(s)) + g[s \ {Pick(s)}]]
<1>1. ByteToLong(key) = (CHOOSE g : P(g))[S]
  BY DEF ByteToLong, SumOver, MapThenSumSet, MapThenFoldSet, Pick
<1>2. ASSUME NEW k \in S PROVE Place(k) = key[k] * Base[Bytes - k] /\ Place(k) \in Int
  <2> DEFINE n == Bytes - k
  <2>1. n \in Nat
    BY Widths
  <2> HIDE DEF n
  <2>2. Base[n] = Pow(ByteBits * n)
    BY <2>1 DEF Base, Powers
  <2>3. Base[n] \in Nat \ {0}
    BY <2>1, Widths, PowersAreWeights, WeightsAt DEF Base
  <2>4. Place(k) = key[k] * Base[n]
    BY <2>2, Zenon DEF n, Pow
  <2> HIDE DEF Place
  <2>5. key[k] \in Int
    BY DEF Key
  <2> QED
    BY <2>3, <2>4, <2>5 DEF n
<1> HIDE DEF Place
<1>3. \A s \in SUBSET S : s # {} => f[Pick(s)] = Place(Pick(s))
  BY PickIn
<1>4. IsFiniteSet(S) /\ f \in [S -> Int]
  BY <1>2, Widths, FS_Interval
<1>5. Enumerates(x, Bytes, S)
  <2>1. x \in [0..(Bytes - 1) -> S]
    BY Widths
  <2>2. ASSUME NEW k \in S PROVE \E i \in 0..(Bytes - 1) : x[i] = k
    <3>1. Bytes - k \in 0..(Bytes - 1) /\ Bytes - (Bytes - k) = k
      BY Widths
    <3> QED
      BY <3>1
  <2>3. \A i, j \in 0..(Bytes - 1) : x[i] = x[j] => i = j
    BY Widths
  <2> QED
    BY <2>1, <2>2, <2>3 DEF Enumerates
<1>6. ASSUME NEW i \in 0..(Bytes - 1) PROVE f[x[i]] = KeyDigits(key)[i] * Base[i]
  <2>1. Bytes - i \in S /\ Bytes - (Bytes - i) = i
    BY Widths
  <2> DEFINE k == Bytes - i
  <2>2. f[k] = key[k] * Base[Bytes - k]
    BY <1>2, <2>1
  <2> QED
    BY <2>1, <2>2 DEF KeyDigits
<1>7. \A g : P(g) <=> Sums(g, f, SUBSET S)
  <2> HIDE DEF S
  <2> QED
    BY <1>3 DEF Sums
<1> HIDE DEF f, P, x
<1>8. (CHOOSE g : P(g)) = (CHOOSE g : Sums(g, f, SUBSET S))
  BY <1>7
<1>9. ByteToLong(key) = Total(f, S)
  BY <1>1, <1>8 DEF Total
<1> HIDE DEF S
<1>10. Sum(Total(f, S), KeyDigits(key), Bytes, Base)
  BY <1>4, <1>5, <1>6, Widths, SumOfDigits
<1> QED
  BY <1>9, <1>10

LEMMA LongToByteDigits ==
  ASSUME NEW c \in Int
  PROVE  /\ LongToByte(c) \in Key
         /\ \A i \in 0..(Bytes - 1) :
              KeyDigits(LongToByte(c))[i] = (c \div Base[i]) % Pow(ByteBits)
         /\ Digits(KeyDigits(LongToByte(c)), Bytes, Pow(ByteBits))
<1> DEFINE Digit(i) == (c \div Base[i]) % Pow(ByteBits)
<1>1. ASSUME NEW i \in Nat PROVE Digit(i) \in Octet
  <2> DEFINE a == Base[i]
             b == Pow(ByteBits)
  <2>1. a \in Nat \ {0} /\ b \in Nat \ {0}
    BY Widths, PowersAreWeights, WeightsAt DEF Base
  <2> HIDE DEF a, b
  <2>2. c \div a \in Int
    BY <2>1
  <2>3. (c \div a) % b \in 0..(b - 1)
    BY <2>1, <2>2
  <2> QED
    BY <2>3 DEF a, b, Octet
<1>2. ASSUME NEW k \in 1..Bytes PROVE LongToByte(c)[k] = Digit(Bytes - k)
  <2> DEFINE n == Bytes - k
  <2>1. n \in Nat
    BY Widths
  <2> HIDE DEF n
  <2>2. Base[n] = Pow(ByteBits * n)
    BY <2>1 DEF Base, Powers
  <2>3. LongToByte(c)[k] = (c \div Pow(ByteBits * n)) % Pow(ByteBits)
    BY Zenon DEF n, Pow, LongToByte
  <2> QED
    BY <2>2, <2>3 DEF n
<1> HIDE DEF Digit
<1>3. LongToByte(c) = [k \in 1..Bytes |-> LongToByte(c)[k]]
  BY DEF LongToByte
<1>4. LongToByte(c) \in Key
  <2>1. ASSUME NEW k \in 1..Bytes PROVE LongToByte(c)[k] \in Int
    <3>1. Bytes - k \in Nat
      BY Widths
    <3>2. Digit(Bytes - k) \in Int
      BY <1>1, <3>1, Widths, PowIsNumber DEF Octet
    <3> QED
      BY <1>2, <3>2
  <2> QED
    BY <1>3, <2>1 DEF Key
<1>5. ASSUME NEW i \in 0..(Bytes - 1)
      PROVE  KeyDigits(LongToByte(c))[i] = Digit(i) /\ Digit(i) \in Octet
  <2>1. Bytes - i \in 1..Bytes /\ Bytes - (Bytes - i) = i /\ i \in Nat
    BY Widths
  <2> DEFINE k == Bytes - i
  <2>2. LongToByte(c)[k] = Digit(Bytes - k)
    BY <1>2, <2>1
  <2> QED
    BY <1>1, <2>1, <2>2 DEF KeyDigits
<1>6. KeyDigits(LongToByte(c)) = [i \in 0..(Bytes - 1) |-> KeyDigits(LongToByte(c))[i]]
  BY DEF KeyDigits
<1>7. Digits(KeyDigits(LongToByte(c)), Bytes, Pow(ByteBits))
  BY <1>5, <1>6 DEF Digits, Octet
<1> QED
  BY <1>4, <1>5, <1>7 DEF Digit

LEMMA CombineDigits ==
  ASSUME NEW a \in Int, NEW b \in Int
  PROVE  \E d, G : /\ Pairs(d, a, b, Bits, Bin) /\ Digits(d, Bits, 4)
                   /\ Adds(G, d, Bits, Quad) /\ G[Bits] = Combine(a, b)
<1> DEFINE d == [i \in 0..(Bits - 1) |-> ((a \div Bin[i]) % 2) + 2 * ((b \div Bin[i]) % 2)]
<1>1. Pairs(d, a, b, Bits, Bin)
  BY DEF Pairs
<1> HIDE DEF d
<1>2. Bits \in Nat /\ Weights(Bin, 2)
  BY Widths, CodeWeights
<1>3. Digits(d, Bits, 4)
  BY <1>1, <1>2, PairsAreDigits
<1>4. Sum(Combine(a, b), d, Bits, Quad)
  BY <1>1, CombineIsSum
<1> QED
  BY <1>1, <1>3, <1>4 DEF Sum

Codes == 0..(Quad[Bits] - 1)
Coordinates == 0..(Bin[Bits] - 1)

LEMMA Capacity ==
  /\ Quad[Bits] \in Nat \ {0} /\ Bin[Bits] \in Nat \ {0}
  /\ Base[Bytes] = Quad[Bits]
<1>1. Bits \in Nat /\ Bytes \in Nat /\ ByteBits * Bytes = 2 * Bits
  BY Widths
<1>2. Base[Bytes] = Quad[Bits]
  BY <1>1 DEF Base, Quad, Powers
<1> QED
  BY <1>1, <1>2, CodeWeights, WeightsAt

LEMMA CombineType ==
  ASSUME NEW a \in Int, NEW b \in Int
  PROVE  Combine(a, b) \in Codes
<1>1. PICK d, G : /\ Digits(d, Bits, 4) /\ Adds(G, d, Bits, Quad) /\ G[Bits] = Combine(a, b)
  BY CombineDigits
<1>2. Bits \in 0..Bits /\ Bits \in Nat
  BY Widths
<1> QED
  BY <1>1, <1>2, SumBelow, CodeWeights DEF Codes

(* The bits of a code are those of the coordinates. *)
LEMMA BitsOfCode ==
  ASSUME NEW a \in Int, NEW b \in Int, NEW i \in 0..(Bits - 1)
  PROVE  Bit(Combine(a, b), 2 * i) = Bit(a, i) /\ Bit(Combine(a, b), 2 * i + 1) = Bit(b, i)
<1>1. PICK d, G : /\ Pairs(d, a, b, Bits, Bin) /\ Digits(d, Bits, 4)
                  /\ Adds(G, d, Bits, Quad) /\ G[Bits] = Combine(a, b)
  BY CombineDigits
<1> DEFINE c == Combine(a, b)
           q == c \div Quad[i]
           h == q \div 4
           x == Bit(a, i)
           y == Bit(b, i)
<1>2. i \in Nat /\ 2 * i \in Nat /\ 2 * i + 1 \in Nat /\ Bits \in Nat
  BY Widths
<1>3. c \in Int
  BY CombineType DEF Codes
<1>4. q % 4 = d[i]
  BY <1>1, <1>2, CodeWeights, DigitsRead
<1>5. d[i] = x + 2 * y /\ x \in {0, 1} /\ y \in {0, 1}
  BY <1>1, <1>2, BitIs, BitType DEF Pairs
<1>6. Bin[2 * i] = Quad[i] /\ Quad[i] \in Nat \ {0}
  BY <1>2, CodeWeights, WeightsAt DEF Bin, Quad, Powers
<1> HIDE DEF c
<1>7. Bit(c, 2 * i) = q % 2
  BY <1>2, <1>3, <1>6, BitIs
<1>8. Bit(c, 2 * i + 1) = (q \div 2) % 2
  <2> DEFINE j == 2 * i
  <2>1. Bit(c, j + 1) = (c \div Bin[j + 1]) % 2
    BY <1>2, <1>3, BitIs
  <2>2. j \in Nat /\ Bin[j] = Quad[i]
    BY <1>2, <1>6
  <2> HIDE DEF j
  <2>3. c \div Bin[j + 1] = (c \div Bin[j]) \div 2
    BY <1>3, <2>2, CodeWeights, DigitStep
  <2> QED
    BY <2>1, <2>2, <2>3 DEF j
<1> HIDE DEF x, y
<1>9. q \in Int
  BY <1>3, <1>6, Divided
<1> HIDE DEF q
<1>10. h \in Int /\ q = 4 * h + x + 2 * y
  BY <1>4, <1>5, <1>9, Divided
<1> HIDE DEF h
<1>11. q % 2 = x
  BY <1>5, <1>10
<1>12. (q \div 2) % 2 = y
  <2>1. q \div 2 = 2 * h + y
    BY <1>5, <1>10
  <2> QED
    BY <1>5, <1>10, <2>1
<1> QED
  BY <1>7, <1>8, <1>11, <1>12 DEF c, x, y

LEMMA HalfIs ==
  ASSUME NEW a \in Int, NEW v, NEW d, Sum(v, d, Bits, Bin),
         \A i \in 0..(Bits - 1) : d[i] = Bit(a, i)
  PROVE  v = a % Bin[Bits]
<1>1. PICK G : Adds(G, d, Bits, Bin) /\ G[Bits] = v
  BY DEF Sum
<1>2. \A i \in 0..(Bits - 1) : d[i] = (a \div Bin[i]) % 2
  BY BitIs, Widths
<1>3. Bits \in Nat /\ Weights(Bin, 2)
  BY Widths, CodeWeights
<1> QED
  BY <1>1, <1>2, <1>3, DigitsAddUp

(* Split takes a code apart into the coordinates it was combined from. *)
LEMMA SplitInverts ==
  ASSUME NEW a \in Coordinates, NEW b \in Coordinates
  PROVE  Split(Combine(a, b)) = [first |-> a, second |-> b]
<1> DEFINE c == Combine(a, b)
           d == [i \in 0..(Bits - 1) |-> Bit(c, 2 * i)]
           e == [i \in 0..(Bits - 1) |-> Bit(c, 2 * i + 1)]
<1>1. a \in Int /\ b \in Int /\ c \in Int
  BY CombineType DEF Codes, Coordinates
<1>2. \A i \in 0..(Bits - 1) : d[i] = Bit(a, i) /\ e[i] = Bit(b, i)
  BY <1>1, BitsOfCode
<1> HIDE DEF c
<1>3. Sum(Split(c).first, d, Bits, Bin) /\ Sum(Split(c).second, e, Bits, Bin)
  BY <1>1, EvenIsSum, OddIsSum
<1> HIDE DEF d, e
<1>4. Split(c).first = a % Bin[Bits] /\ Split(c).second = b % Bin[Bits]
  BY <1>1, <1>2, <1>3, HalfIs
<1>5. a % Bin[Bits] = a /\ b % Bin[Bits] = b
  <2> DEFINE w == Bin[Bits]
  <2>1. w \in Nat \ {0} /\ a \in 0..(w - 1) /\ b \in 0..(w - 1)
    BY Capacity DEF Coordinates
  <2> HIDE DEF w
  <2>2. a % w = a /\ b % w = b
    BY <2>1
  <2> QED
    BY <2>2 DEF w
<1>6. Split(c) = [first |-> Split(c).first, second |-> Split(c).second]
  BY DEF Split
<1> QED
  BY <1>4, <1>5, <1>6 DEF c

(* The bytes of a key hold all of its code. *)
LEMMA KeyHoldsCode ==
  ASSUME NEW c \in Codes
  PROVE  ByteToLong(LongToByte(c)) = c
<1> DEFINE key == LongToByte(c)
           v == ByteToLong(key)
<1>1. c \in Int /\ Bytes \in Nat
  BY Widths DEF Codes
<1>2. /\ key \in Key
      /\ \A i \in 0..(Bytes - 1) : KeyDigits(key)[i] = (c \div Base[i]) % Pow(ByteBits)
  BY <1>1, LongToByteDigits
<1> HIDE DEF key
<1>3. PICK G : Adds(G, KeyDigits(key), Bytes, Base) /\ G[Bytes] = v
  BY <1>2, KeyIsSum DEF Sum
<1>4. v = c % Base[Bytes]
  BY <1>1, <1>2, <1>3, Widths, PowersAreWeights, DigitsAddUp DEF Base
<1>5. c % Base[Bytes] = c
  <2> DEFINE w == Base[Bytes]
  <2>1. w \in Nat \ {0} /\ c \in 0..(w - 1)
    BY Capacity DEF Codes
  <2> HIDE DEF w
  <2>2. c % w = c
    BY <2>1
  <2> QED
    BY <2>2 DEF w
<1> QED
  BY <1>4, <1>5 DEF key

-----------------------------------------------------------------------------
(* Types, and the order of keys. *)
LEMMA ByteToLongType ==
  ASSUME NEW key \in Key
  PROVE  ByteToLong(key) \in Int
<1>1. PICK G : Adds(G, KeyDigits(key), Bytes, Base) /\ G[Bytes] = ByteToLong(key)
  BY KeyIsSum DEF Sum
<1> QED
  BY <1>1, Widths DEF Adds

LEMMA LongToByteType ==
  ASSUME NEW n \in Int
  PROVE  LongToByte(n) \in Key
BY LongToByteDigits

LEMMA SplitType ==
  ASSUME NEW n \in Int
  PROVE  Split(n).first \in Int /\ Split(n).second \in Int
<1> DEFINE d == [i \in 0..(Bits - 1) |-> Bit(n, 2 * i)]
           e == [i \in 0..(Bits - 1) |-> Bit(n, 2 * i + 1)]
<1>1. Sum(Split(n).first, d, Bits, Bin) /\ Sum(Split(n).second, e, Bits, Bin)
  BY EvenIsSum, OddIsSum
<1> HIDE DEF d, e
<1> QED
  BY <1>1, Widths DEF Sum, Adds

LEMMA KeyIrreflexive == \A x \in Key : ~KeyBefore(x, x)
BY DEF Key, KeyBefore
LEMMA KeyTotal ==
  ASSUME NEW x \in Key, NEW y \in Key, x # y
  PROVE  KeyBefore(x, y) \/ KeyBefore(y, x)
<1> DEFINE D == {j \in 1..Bytes : x[j] # y[j]}
<1>1. D \in SUBSET Nat /\ D # {}
  BY Widths DEF Key
<1>2. PICK m \in D : \A n \in D : m <= n
  <2> HIDE DEF D
  <2> QED
    BY <1>1, LeastMember
<1>3. \A i \in 1..(m - 1) : x[i] = y[i]
  BY <1>2, Widths
<1>4. m \in 1..Bytes /\ x[m] \in Int /\ y[m] \in Int /\ x[m] # y[m]
  BY <1>2 DEF Key
<1>5. DOMAIN x = 1..Bytes /\ DOMAIN y = 1..Bytes
  BY DEF Key
<1>6. CASE x[m] < y[m]
  BY <1>3, <1>4, <1>5, <1>6 DEF KeyBefore
<1>7. CASE y[m] < x[m]
  BY <1>3, <1>4, <1>5, <1>7 DEF KeyBefore
<1> QED
  BY <1>4, <1>6, <1>7

(* The BTREE orders keys as their codes. *)
LEMMA KeyBeforeIsLess ==
  ASSUME NEW c \in Codes, NEW d \in Codes, KeyBefore(LongToByte(c), LongToByte(d))
  PROVE  c < d
<1> DEFINE x == LongToByte(c)
           y == LongToByte(d)
<1>1. c \in Int /\ d \in Int
  BY DEF Codes
<1>2. /\ x \in Key /\ Digits(KeyDigits(x), Bytes, Pow(ByteBits))
      /\ y \in Key /\ Digits(KeyDigits(y), Bytes, Pow(ByteBits))
  BY <1>1, LongToByteDigits
<1>3. ByteToLong(x) = c /\ ByteToLong(y) = d
  BY KeyHoldsCode
<1> HIDE DEF x, y
<1>4. PICK k \in 1..Bytes : x[k] < y[k] /\ \A j \in 1..(k - 1) : x[j] = y[j]
  BY <1>2 DEF KeyBefore, Key, x, y
<1>5. PICK G : Adds(G, KeyDigits(x), Bytes, Base) /\ G[Bytes] = c
  BY <1>2, <1>3, KeyIsSum DEF Sum
<1>6. PICK H : Adds(H, KeyDigits(y), Bytes, Base) /\ H[Bytes] = d
  BY <1>2, <1>3, KeyIsSum DEF Sum
<1> DEFINE i == Bytes - k
<1>7. i \in 0..(Bytes - 1) /\ Bytes - i = k /\ Bytes \in Nat
  BY Widths
<1>8. KeyDigits(x)[i] < KeyDigits(y)[i]
  BY <1>4, <1>7 DEF KeyDigits
<1>9. ASSUME NEW j \in (i + 1)..(Bytes - 1) PROVE KeyDigits(x)[j] = KeyDigits(y)[j]
  <2>1. j \in 0..(Bytes - 1) /\ Bytes - j \in 1..(k - 1)
    BY Widths
  <2> QED
    BY <1>4, <2>1 DEF KeyDigits
<1> HIDE DEF i
<1>10. Weights(Base, Pow(ByteBits))
  BY Widths, PowersAreWeights DEF Base
<1>11. G[Bytes] < H[Bytes]
  BY <1>2, <1>5, <1>6, <1>7, <1>8, <1>9, <1>10, FirstDifference
<1> QED
  BY <1>5, <1>6, <1>11

LEMMA LessIsKeyBefore ==
  ASSUME NEW c \in Codes, NEW d \in Codes, c < d
  PROVE  KeyBefore(LongToByte(c), LongToByte(d))
<1>1. c \in Int /\ d \in Int
  BY DEF Codes
<1>2. LongToByte(c) \in Key /\ LongToByte(d) \in Key
  BY <1>1, LongToByteType
<1>3. LongToByte(c) # LongToByte(d)
  BY <1>1, KeyHoldsCode
<1>4. ~KeyBefore(LongToByte(d), LongToByte(c))
  BY <1>1, KeyBeforeIsLess
<1> QED
  BY <1>2, <1>3, <1>4, KeyTotal

(* A code does not shrink where a coordinate grows. *)
LEMMA CombineMonotone ==
  ASSUME NEW a \in Coordinates, NEW b \in Coordinates, NEW u \in Coordinates, NEW v \in Coordinates,
         a <= u, b <= v
  PROVE  Combine(a, b) <= Combine(u, v)
<1>1. a \in Int /\ b \in Int /\ u \in Int /\ v \in Int /\ Bits \in Nat
  BY Widths DEF Coordinates
<1>2. PICK d, G : /\ Pairs(d, a, b, Bits, Bin)
                  /\ Adds(G, d, Bits, Quad) /\ G[Bits] = Combine(a, b)
  BY <1>1, CombineDigits
<1>3. PICK e, H : /\ Pairs(e, u, v, Bits, Bin)
                  /\ Adds(H, e, Bits, Quad) /\ H[Bits] = Combine(u, v)
  BY <1>1, CombineDigits
<1>4. a % Bin[Bits] = a /\ b % Bin[Bits] = b /\ u % Bin[Bits] = u /\ v % Bin[Bits] = v
  <2> DEFINE w == Bin[Bits]
  <2>1. w \in Nat \ {0} /\ a \in 0..(w - 1) /\ b \in 0..(w - 1) /\ u \in 0..(w - 1) /\ v \in 0..(w - 1)
    BY Capacity DEF Coordinates
  <2> HIDE DEF w
  <2>2. a % w = a /\ b % w = b /\ u % w = u /\ v % w = v
    BY <2>1
  <2> QED
    BY <2>2 DEF w
<1>5. a % Bin[Bits] <= u % Bin[Bits] /\ b % Bin[Bits] <= v % Bin[Bits]
  BY <1>4
<1>6. G[Bits] <= H[Bits]
  BY <1>1, <1>2, <1>3, <1>5, CodeWeights, PairsMonotone
<1> QED
  BY <1>2, <1>3, <1>6
-----------------------------------------------------------------------------
(* The walk over the globe. *)
WalkInv ==
  /\ first \in Coordinates /\ second \in Coordinates
  /\ code = Combine(first, second)

LEMMA GlobeIsCoordinates == Globe = Coordinates
<1>1. Bin[Bits] = 2 ^ Bits
  BY Widths, CodeWeights
<1> QED
  BY <1>1, Zenon DEF Globe, Coordinates

LEMMA WalkInvariant == WalkSpec => []WalkInv
<1> USE GlobeIsCoordinates
<1>1. WalkInit => WalkInv
  <2>1. 0 \in Coordinates
    BY Capacity DEF Coordinates
  <2> QED
    BY <2>1 DEF WalkInit, WalkInv
<1>2. WalkInv /\ [WalkNext]_<<first, second, code>> => WalkInv'
  BY DEF WalkInv, WalkNext, North, East
<1> QED
  BY <1>1, <1>2, PTL DEF WalkSpec

(* Nothing of a point is lost in its key: ByteToLong recovers the code     *)
(* from the bytes that LongToByte wrote, and Split the two coordinates, at *)
(* every point of a globe of any width.                                    *)
THEOREM NothingLost == WalkSpec => []KeyRecovers
<1>1. WalkInv => KeyRecovers
  <2> SUFFICES ASSUME WalkInv PROVE KeyRecovers
    OBVIOUS
  <2>1. code \in Codes
    BY CombineType DEF WalkInv, Coordinates
  <2> QED
    BY <2>1, KeyHoldsCode, SplitInverts DEF WalkInv, KeyRecovers
<1> QED
  BY <1>1, WalkInvariant, PTL

(* A step north or east from any point leads to a greater key for the      *)
(* BTREE, whatever the widths of a coordinate and of a byte.               *)
THEOREM KeysGrow == WalkSpec => KeysAscend
<1>1. ASSUME WalkInv, WalkInv', WalkNext PROVE KeyBefore(LongToByte(code), LongToByte(code'))
  <2>1. /\ first \in Int /\ second \in Int /\ first' \in Int /\ second' \in Int
        /\ first <= first' /\ second <= second'
        /\ [first |-> first, second |-> second] # [first |-> first', second |-> second']
    <3>1. first \in Int /\ second \in Int
      BY <1>1 DEF WalkInv, Coordinates
    <3> QED
      BY <1>1, <3>1 DEF WalkNext, North, East
  <2>2. code \in Codes /\ code' \in Codes
    BY <1>1, <2>1, CombineType DEF WalkInv
  <2>3. code <= code'
    BY <1>1, <2>1, CombineMonotone DEF WalkInv
  <2>4. code # code'
    <3>1. /\ Split(code) = [first |-> first, second |-> second]
          /\ Split(code') = [first |-> first', second |-> second']
      BY <1>1, SplitInverts DEF WalkInv
    <3> QED
      BY <2>1, <3>1
  <2>5. code < code'
    BY <2>2, <2>3, <2>4 DEF Codes
  <2> QED
    BY <2>2, <2>5, LessIsKeyBefore
<1>2. WalkInv /\ WalkInv' /\ [WalkNext]_<<first, second, code>>
        => [KeyBefore(LongToByte(code), LongToByte(code'))]_<<first, second, code>>
  BY <1>1
<1> QED
  BY <1>2, WalkInvariant, PTL DEF WalkSpec, KeysAscend
=============================================================================
