---------------------------- MODULE ValuesProofs ----------------------------
(***************************************************************************)
(* What is proved of Values, for bytes and integers of any width: the      *)
(* loops of the code, recursive functions here, add up what the digits     *)
(* mean; text, TLV integers and TLV headers are read as they were written. *)
(* Their facts are proved by induction on the place in a sequence          *)
(* (Induction, Recursion, Stays), which rests on a set of naturals having  *)
(* a least element.                                                        *)
(***************************************************************************)
EXTENDS Values, FiniteSetTheorems, SequenceTheorems, WellFoundedInduction, TLAPS

-----------------------------------------------------------------------------
(* Induction and recursion                                                  *)

\* A non-empty set of naturals has a least element, which is its Min: the
\* initial segments below its elements are finite sets, and one of those is
\* contained in all others.
LEMMA LeastElement ==
    ASSUME NEW S \in SUBSET Nat, S # {}
    PROVE  Min(S) \in S /\ \A k \in S : Min(S) <= k
<1> DEFINE T == {0..k : k \in S}
<1>1. T \subseteq FiniteSubsetsOf(Nat)
  <2>1. \A k \in S : 0..k \in SUBSET Nat /\ IsFiniteSet(0..k)
    BY FS_Interval
  <2> QED
    BY <2>1, Zenon DEF FiniteSubsetsOf
<1>2. PICK x \in T : \A y \in T : ~ (<<y, x>> \in StrictSubsetOrdering(Nat))
  <2>1. T # {}
    BY Zenon
  <2>2. IsWellFoundedOn(StrictSubsetOrdering(Nat), FiniteSubsetsOf(Nat))
    BY FS_StrictSubsetOrderingWellFounded, Zenon
  <2> HIDE DEF T
  <2> QED
    BY <1>1, <2>1, <2>2, WFMin, Zenon
<1>3. PICK m \in S : x = 0..m
  BY Zenon
<1>4. ASSUME NEW k \in S, k < m PROVE FALSE
  <2>1. 0..k \in T /\ 0..k \subseteq 0..m /\ m \in 0..m /\ m \notin 0..k
    BY <1>4
  <2>2. 0..k \in SUBSET Nat /\ 0..m \in SUBSET Nat /\ 0..k # 0..m
    BY <2>1
  <2> QED
    BY <1>2, <1>3, <2>1, <2>2, Zenon DEF StrictSubsetOrdering
<1>5. \A k \in S : m <= k
  BY <1>4
<1> QED
  BY <1>5 DEF Min

\* Induction, for a set in the place of a predicate.
LEMMA Induction ==
    ASSUME NEW S, 0 \in S, \A n \in Nat : n \in S => n + 1 \in S
    PROVE  Nat \subseteq S
<1> DEFINE T == Nat \ S
           m == Min(T)
<1>1. SUFFICES ASSUME T # {} PROVE FALSE
  OBVIOUS
<1>2. m \in T /\ \A k \in T : m <= k
  BY <1>1, LeastElement
<1> HIDE DEF m
<1>3. m - 1 \in Nat /\ m - 1 \in S
  BY <1>2
<1>4. (m - 1) + 1 \in S /\ (m - 1) + 1 = m
  BY <1>2, <1>3
<1> QED
  BY <1>2, <1>4

\* f begins with a, and each of its n other values follows from the one
\* before it by the function that F has for its place.
Follows(f, a, n, F) == f[0] = a /\ \A i \in 1..n : f[i] = F[i][f[i - 1]]

\* A function that is defined by recursion exists.
LEMMA Recursion ==
    ASSUME NEW X, NEW a \in X, NEW n \in Nat, NEW F \in [1..n -> [X -> X]]
    PROVE  \E f \in [0..n -> X] : Follows(f, a, n, F)
<1> DEFINE Reached(m) == \E f \in [0..m -> X] : f[0] = a /\ \A i \in 1..m : f[i] = F[i][f[i - 1]]
           S == {m \in Nat : m <= n => Reached(m)}
<1>1. 0 \in S
  <2> DEFINE g == [i \in 0..0 |-> a]
  <2>1. g \in [0..0 -> X] /\ g[0] = a /\ \A i \in 1..0 : g[i] = F[i][g[i - 1]]
    OBVIOUS
  <2> HIDE DEF g
  <2>2. Reached(0)
    BY <2>1
  <2> QED
    BY <2>2
<1>2. ASSUME NEW m \in Nat, m \in S PROVE m + 1 \in S
  <2>1. SUFFICES ASSUME m + 1 <= n PROVE Reached(m + 1)
    OBVIOUS
  <2>2. PICK f \in [0..m -> X] : f[0] = a /\ \A i \in 1..m : f[i] = F[i][f[i - 1]]
    BY <1>2, <2>1
  <2> DEFINE g == [i \in 0..(m + 1) |-> IF i <= m THEN f[i] ELSE F[m + 1][f[m]]]
  <2>3. F[m + 1] \in [X -> X] /\ f[m] \in X
    BY <2>1
  <2>4. F[m + 1][f[m]] \in X
    BY <2>3
  <2>5. g \in [0..(m + 1) -> X] /\ g[0] = a
    BY <2>2, <2>4
  <2>6. \A i \in 0..m : g[i] = f[i]
    OBVIOUS
  <2>7. g[m + 1] = F[m + 1][f[m]]
    OBVIOUS
  <2> HIDE DEF g
  <2>8. ASSUME NEW i \in 1..(m + 1) PROVE g[i] = F[i][g[i - 1]]
    <3>1. CASE i \in 1..m
      <4>1. i - 1 \in 0..m /\ i \in 0..m
        BY <3>1
      <4> QED
        BY <2>2, <2>6, <3>1, <4>1
    <3>2. CASE i = m + 1
      <4>1. i - 1 = m /\ m \in 0..m
        BY <3>2
      <4> QED
        BY <2>6, <2>7, <3>2, <4>1
    <3> QED
      BY <3>1, <3>2
  <2> QED
    BY <2>5, <2>8
<1>3. Nat \subseteq S
  <2> HIDE DEF S
  <2> QED
    BY <1>1, <1>2, Induction
<1> QED
  BY <1>3 DEF Follows

\* What a step keeps is so at every place.
LEMMA Stays ==
    ASSUME NEW X, NEW n \in Nat, NEW q, q[0] \in X,
           \A i \in 1..n : q[i - 1] \in X => q[i] \in X
    PROVE  \A i \in 0..n : q[i] \in X
<1> DEFINE S == {i \in Nat : i <= n => q[i] \in X}
<1>1. 0 \in S
  OBVIOUS
<1>2. ASSUME NEW i \in Nat, i \in S PROVE i + 1 \in S
  <2>1. i + 1 <= n => i + 1 \in 1..n /\ (i + 1) - 1 = i
    OBVIOUS
  <2> QED
    BY <1>2, <2>1
<1>3. Nat \subseteq S
  <2> HIDE DEF S
  <2> QED
    BY <1>1, <1>2, Induction
<1> QED
  BY <1>3

-----------------------------------------------------------------------------
(* Numbers: what the loops over digits add up                               *)

\* What Power's function is, whatever the power.
LEMMA PowerFunction ==
    ASSUME NEW n \in Nat, NEW k \in Nat
    PROVE  \E f \in [0..k -> Nat] :
              f[0] = 1 /\ (\A i \in 1..k : f[i] = n * f[i - 1]) /\ Power(n, k) = f[k]
<1> DEFINE F == [i \in 1..k |-> [x \in Nat |-> n * x]]
           Is(p) == p = [j \in 0..k |-> IF j = 0 THEN 1 ELSE n * p[j - 1]]
           q == CHOOSE p : Is(p)
<1>1. F \in [1..k -> [Nat -> Nat]]
  OBVIOUS
<1>2. PICK f \in [0..k -> Nat] : Follows(f, 1, k, F)
  <2> HIDE DEF F
  <2>1. 1 \in Nat
    OBVIOUS
  <2> QED
    BY <1>1, <2>1, Recursion, Zenon
<1>3. ASSUME NEW i \in 1..k PROVE f[i] = n * f[i - 1]
  <2>1. i - 1 \in 0..k /\ f[i - 1] \in Nat
    OBVIOUS
  <2> QED
    BY <1>2, <2>1 DEF Follows
<1>4. f[0] = 1 /\ Is(f)
  BY <1>2, <1>3 DEF Follows
<1>5. Is(q)
  BY <1>4
<1>6. Power(n, k) = q[k]
  BY DEF Power
<1> HIDE DEF q
<1>7. /\ DOMAIN q = 0..k /\ q[0] = 1
      /\ \A i \in 1..k : q[i] = n * q[i - 1]
  BY <1>5
<1>8. \A i \in 0..k : q[i] \in Nat
  <2>1. \A i \in 1..k : q[i - 1] \in Nat => q[i] \in Nat
    BY <1>7
  <2>2. q[0] \in Nat /\ k \in Nat
    BY <1>7
  <2> QED
    BY <2>1, <2>2, Stays, Zenon
<1>9. q \in [0..k -> Nat]
  BY <1>5, <1>8
<1> QED
  BY <1>6, <1>7, <1>9

\* The powers of a number, one after the other.
LEMMA Powers ==
    ASSUME NEW n \in Nat
    PROVE  /\ Power(n, 0) = 1
           /\ \A k \in Nat : Power(n, k) \in Nat /\ Power(n, k + 1) = n * Power(n, k)
<1>1. Power(n, 0) = 1
  BY PowerFunction
<1>2. ASSUME NEW k \in Nat PROVE Power(n, k) \in Nat /\ Power(n, k + 1) = n * Power(n, k)
  <2>1. PICK f \in [0..k -> Nat] :
           f[0] = 1 /\ (\A i \in 1..k : f[i] = n * f[i - 1]) /\ Power(n, k) = f[k]
    BY PowerFunction
  <2>2. PICK g \in [0..(k + 1) -> Nat] :
           /\ g[0] = 1 /\ (\A i \in 1..(k + 1) : g[i] = n * g[i - 1])
           /\ Power(n, k + 1) = g[k + 1]
    <3>1. k + 1 \in Nat
      OBVIOUS
    <3> QED
      BY <3>1, PowerFunction, Zenon
  <2> DEFINE S == {i \in Nat : i <= k => g[i] = f[i]}
  <2>3. 0 \in S
    BY <2>1, <2>2
  <2>4. ASSUME NEW i \in Nat, i \in S PROVE i + 1 \in S
    <3>1. SUFFICES ASSUME i + 1 <= k PROVE g[i + 1] = f[i + 1]
      OBVIOUS
    <3>2. i + 1 \in 1..k /\ i + 1 \in 1..(k + 1) /\ (i + 1) - 1 = i /\ i <= k
      BY <3>1
    <3>3. f[i + 1] = n * f[i] /\ g[i + 1] = n * g[i] /\ g[i] = f[i]
      BY <2>1, <2>2, <2>4, <3>2
    <3> QED
      BY <3>3
  <2>5. Nat \subseteq S
    <3> HIDE DEF S
    <3> QED
      BY <2>3, <2>4, Induction
  <2>6. g[k] = f[k]
    BY <2>5
  <2>7. k + 1 \in 1..(k + 1) /\ (k + 1) - 1 = k
    OBVIOUS
  <2> QED
    BY <2>1, <2>2, <2>6, <2>7
<1> QED
  BY <1>1, <1>2

\* Powers of a base are positive, and some power is above any number.
LEMMA PowersGrow ==
    ASSUME NEW n \in Nat, n >= 2
    PROVE  \A k \in Nat : Power(n, k) > k
<1> DEFINE S == {k \in Nat : Power(n, k) > k}
<1>1. 0 \in S
  BY Powers
<1>2. ASSUME NEW k \in Nat, k \in S PROVE k + 1 \in S
  <2>1. Power(n, k) \in Nat /\ Power(n, k + 1) = n * Power(n, k) /\ Power(n, k) >= k + 1
    BY <1>2, Powers
  <2>2. n * Power(n, k) >= 2 * Power(n, k)
    BY <2>1
  <2> QED
    BY <2>1, <2>2
<1>3. Nat \subseteq S
  <2> HIDE DEF S
  <2> QED
    BY <1>1, <1>2, Induction
<1> QED
  BY <1>3

\* What AddUp's function is.
LEMMA AddUpFunction ==
    ASSUME NEW d \in Seq(Int), NEW base \in Nat
    PROVE  \E f \in [0..Len(d) -> Int] :
              /\ f[0] = 0 /\ \A i \in 1..Len(d) : f[i] = f[i - 1] * base + d[i]
              /\ AddUp(d, base) = f[Len(d)]
<1> DEFINE n == Len(d)
           F == [i \in 1..n |-> [x \in Int |-> x * base + d[i]]]
           Is(p) == p = [i \in 0..n |-> IF i = 0 THEN 0 ELSE p[i - 1] * base + d[i]]
           q == CHOOSE p : Is(p)
<1>0. n \in Nat /\ \A i \in 1..n : d[i] \in Int
  OBVIOUS
<1>1. F \in [1..n -> [Int -> Int]]
  BY <1>0
<1>2. PICK f \in [0..n -> Int] : Follows(f, 0, n, F)
  <2> HIDE DEF F, n
  <2>1. 0 \in Int
    OBVIOUS
  <2> QED
    BY <1>0, <1>1, <2>1, Recursion, Zenon
<1>3. ASSUME NEW i \in 1..n PROVE f[i] = f[i - 1] * base + d[i]
  <2>1. i - 1 \in 0..n /\ f[i - 1] \in Int
    BY <1>0
  <2> QED
    BY <1>2, <2>1 DEF Follows
<1>4. f[0] = 0 /\ Is(f)
  BY <1>2, <1>3 DEF Follows
<1>5. Is(q)
  BY <1>4
<1>6. AddUp(d, base) = q[n]
  BY DEF AddUp
<1> HIDE DEF q
<1>7. /\ DOMAIN q = 0..n /\ q[0] = 0
      /\ \A i \in 1..n : q[i] = q[i - 1] * base + d[i]
  BY <1>0, <1>5
<1>8. \A i \in 0..n : q[i] \in Int
  <2>1. \A i \in 1..n : q[i - 1] \in Int => q[i] \in Int
    BY <1>0, <1>7
  <2>2. q[0] \in Int /\ n \in Nat
    BY <1>0, <1>7
  <2> QED
    BY <2>1, <2>2, Stays, Zenon
<1>9. q \in [0..n -> Int]
  BY <1>5, <1>8
<1> QED
  BY <1>6, <1>7, <1>9

\* What Positional's function is.
LEMMA PositionalFunction ==
    ASSUME NEW d \in Seq(Int), NEW base \in Nat
    PROVE  \E f \in [0..Len(d) -> Int] :
              /\ f[0] = 0
              /\ \A i \in 1..Len(d) : f[i] = f[i - 1] + d[i] * Power(base, Len(d) - i)
              /\ Positional(d, base) = f[Len(d)]
<1> DEFINE n == Len(d)
           F == [i \in 1..n |-> [x \in Int |-> x + d[i] * Power(base, n - i)]]
           Is(p) == p = [i \in 0..n |-> IF i = 0 THEN 0
                                        ELSE p[i - 1] + d[i] * Power(base, n - i)]
           q == CHOOSE p : Is(p)
<1>0. n \in Nat /\ \A i \in 1..n : d[i] \in Int /\ Power(base, n - i) \in Nat
  <2>1. n \in Nat /\ \A i \in 1..n : d[i] \in Int /\ n - i \in Nat
    OBVIOUS
  <2> QED
    BY <2>1, Powers
<1> HIDE DEF n
<1>1. F \in [1..n -> [Int -> Int]]
  BY <1>0
<1>2. PICK f \in [0..n -> Int] : Follows(f, 0, n, F)
  <2> HIDE DEF F
  <2>1. 0 \in Int
    OBVIOUS
  <2> QED
    BY <1>0, <1>1, <2>1, Recursion, Zenon
<1>3. ASSUME NEW i \in 1..n PROVE f[i] = f[i - 1] + d[i] * Power(base, n - i)
  <2>1. i - 1 \in 0..n /\ f[i - 1] \in Int
    BY <1>0
  <2> QED
    BY <1>2, <2>1 DEF Follows
<1>4. f[0] = 0 /\ Is(f)
  BY <1>2, <1>3 DEF Follows
<1>5. Is(q)
  BY <1>4
<1>6. Positional(d, base) = q[n]
  BY DEF Positional, n
<1> HIDE DEF q
<1>7. /\ DOMAIN q = 0..n /\ q[0] = 0
      /\ \A i \in 1..n : q[i] = q[i - 1] + d[i] * Power(base, n - i)
  BY <1>0, <1>5
<1>8. \A i \in 0..n : q[i] \in Int
  <2>1. ASSUME NEW i \in 1..n, q[i - 1] \in Int PROVE q[i] \in Int
    <3>1. d[i] * Power(base, n - i) \in Int
      BY <1>0
    <3> QED
      BY <1>7, <2>1, <3>1
  <2>2. q[0] \in Int /\ n \in Nat
    BY <1>0, <1>7
  <2> QED
    BY <2>1, <2>2, Stays, Zenon
<1>9. q \in [0..n -> Int]
  BY <1>5, <1>8
<1> QED
  BY <1>6, <1>7, <1>9 DEF n

\* What the loops add up is the number that the digits mean.
THEOREM LoopsAddUpPositions ==
    ASSUME NEW d \in Seq(Int), NEW base \in Nat
    PROVE  AddUp(d, base) \in Int /\ AddUp(d, base) = Positional(d, base)
<1> DEFINE n == Len(d)
           w(i) == Power(base, n - i)
<1>1. PICK f \in [0..n -> Int] :
         /\ f[0] = 0 /\ \A i \in 1..n : f[i] = f[i - 1] * base + d[i]
         /\ AddUp(d, base) = f[n]
  BY AddUpFunction
<1>2. PICK g \in [0..n -> Int] :
         /\ g[0] = 0 /\ \A i \in 1..n : g[i] = g[i - 1] + d[i] * w(i)
         /\ Positional(d, base) = g[n]
  BY PositionalFunction
<1>3. n \in Nat /\ \A i \in 1..n : d[i] \in Int
  OBVIOUS
<1>4. w(n) = 1 /\ \A i \in 0..n : w(i) \in Nat
  <2>1. n - n = 0 /\ \A i \in 0..n : n - i \in Nat
    BY <1>3
  <2> QED
    BY <2>1, Powers
<1>5. ASSUME NEW i \in 1..n PROVE w(i - 1) = base * w(i)
  <2>1. n - i \in Nat /\ (n - i) + 1 = n - (i - 1)
    BY <1>3
  <2> QED
    BY <2>1, Powers
<1> HIDE DEF n, w
<1> DEFINE S == {i \in Nat : i <= n => g[i] = f[i] * w(i)}
<1>6. 0 \in S
  BY <1>1, <1>2, <1>3, <1>4
<1>7. ASSUME NEW i \in Nat, i \in S PROVE i + 1 \in S
  <2>1. SUFFICES ASSUME i + 1 <= n PROVE g[i + 1] = f[i + 1] * w(i + 1)
    OBVIOUS
  <2>2. /\ i + 1 \in 1..n /\ (i + 1) - 1 = i /\ i \in 0..n /\ i + 1 \in 0..n
        /\ g[i] = f[i] * w(i)
    BY <1>3, <1>7, <2>1
  <2>3. /\ g[i + 1] = g[i] + d[i + 1] * w(i + 1)
        /\ f[i + 1] = f[i] * base + d[i + 1]
        /\ w(i) = base * w(i + 1)
    BY <1>1, <1>2, <1>5, <2>2
  <2>4. f[i] \in Int /\ d[i + 1] \in Int /\ w(i + 1) \in Nat
    BY <1>3, <1>4, <2>2
  <2>5. g[i + 1] = f[i] * (base * w(i + 1)) + d[i + 1] * w(i + 1)
    BY <2>2, <2>3
  <2>6. f[i] * (base * w(i + 1)) + d[i + 1] * w(i + 1) = (f[i] * base + d[i + 1]) * w(i + 1)
    BY <2>4
  <2> QED
    BY <2>3, <2>5, <2>6
<1>8. Nat \subseteq S
  <2> HIDE DEF S
  <2> QED
    BY <1>6, <1>7, Induction
<1>9. g[n] = f[n] * 1 /\ f[n] \in Int
  BY <1>3, <1>4, <1>8
<1> QED
  BY <1>1, <1>2, <1>9

LEMMA Division ==
    ASSUME NEW n \in Nat, NEW b \in Nat, b > 0
    PROVE  /\ n \div b \in Nat /\ n % b \in 0..(b - 1)
           /\ n = (n \div b) * b + (n % b)
OBVIOUS

LEMMA DivisionTwice ==
    ASSUME NEW n \in Nat, NEW a \in Nat, NEW b \in Nat, a > 0, b > 0
    PROVE  (n \div a) \div b = n \div (b * a)
OBVIOUS

\* The digits of a number that len digits hold.
LEMMA BigEndianDigits ==
    ASSUME NEW n \in Nat, NEW base \in Nat, base >= 2, NEW len \in Nat
    PROVE  /\ BigEndian(n, base, len) \in Seq(0..(base - 1))
           /\ Len(BigEndian(n, base, len)) = len
           /\ \A i \in 1..len :
                 BigEndian(n, base, len)[i] = (n \div Power(base, len - i)) % base
<1>1. ASSUME NEW i \in 1..len PROVE (n \div Power(base, len - i)) % base \in 0..(base - 1)
  <2>1. len - i \in Nat
    OBVIOUS
  <2>2. Power(base, len - i) \in Nat /\ Power(base, len - i) > 0
    BY <2>1, Powers, PowersGrow
  <2> QED
    BY <2>2, Division
<1> QED
  BY <1>1 DEF BigEndian

\* A number is what its digits add up to.
THEOREM DigitsAddUp ==
    ASSUME NEW n \in Nat, NEW base \in Nat, base >= 2,
           NEW len \in Nat, n < Power(base, len)
    PROVE  AddUp(BigEndian(n, base, len), base) = n
<1> DEFINE d == BigEndian(n, base, len)
           w(i) == Power(base, len - i)
<1>1. /\ Len(d) = len
      /\ \A i \in 1..len : d[i] = (n \div w(i)) % base
  BY BigEndianDigits
<1>2. d \in Seq(Int)
  <2>1. d \in Seq(0..(base - 1))
    BY BigEndianDigits
  <2> HIDE DEF d
  <2> QED
    BY <2>1
<1> HIDE DEF d
<1>3. PICK f \in [0..len -> Int] :
         /\ f[0] = 0 /\ \A i \in 1..len : f[i] = f[i - 1] * base + d[i]
         /\ AddUp(d, base) = f[len]
  BY <1>1, <1>2, AddUpFunction
<1>4. ASSUME NEW i \in 0..len PROVE w(i) \in Nat /\ w(i) > 0
  <2>1. len - i \in Nat
    OBVIOUS
  <2>2. w(i) \in Nat /\ w(i) > len - i
    BY <2>1, Powers, PowersGrow
  <2> QED
    BY <2>1, <2>2
<1>5. ASSUME NEW i \in 1..len PROVE w(i - 1) = base * w(i)
  <2>1. len - i \in Nat /\ (len - i) + 1 = len - (i - 1)
    OBVIOUS
  <2> QED
    BY <2>1, Powers
<1>6. w(0) = Power(base, len) /\ w(len) = 1
  <2>1. len - 0 = len /\ len - len = 0
    OBVIOUS
  <2> QED
    BY <2>1, Powers
<1> HIDE DEF w
<1> DEFINE S == {i \in Nat : i <= len => f[i] = n \div w(i)}
<1>7. 0 \in S
  <2>1. 0 \in 0..len /\ w(0) \in Nat /\ n < w(0)
    BY <1>4, <1>6
  <2>2. n \div w(0) = 0
    BY <2>1
  <2> QED
    BY <1>3, <2>2
<1>8. ASSUME NEW i \in Nat, i \in S PROVE i + 1 \in S
  <2>1. SUFFICES ASSUME i + 1 <= len PROVE f[i + 1] = n \div w(i + 1)
    OBVIOUS
  <2>2. /\ i + 1 \in 1..len /\ (i + 1) - 1 = i /\ i \in 0..len /\ i + 1 \in 0..len
        /\ f[i] = n \div w(i)
    BY <1>8, <2>1
  <2> DEFINE m == n \div w(i + 1)
  <2>8. base > 0 /\ w(i + 1) \in Nat /\ w(i + 1) > 0
    BY <1>4, <2>2
  <2>3. m \in Nat /\ m = (m \div base) * base + (m % base)
    BY <2>8, Division
  <2>4. w(i) = base * w(i + 1)
    BY <1>5, <2>2
  <2>5. m \div base = n \div w(i)
    <3>1. (n \div w(i + 1)) \div base = n \div (base * w(i + 1))
      BY <2>8, DivisionTwice, Zenon
    <3> QED
      BY <2>4, <3>1
  <2>6. f[i + 1] = f[i] * base + d[i + 1] /\ d[i + 1] = m % base
    BY <1>1, <1>3, <2>2
  <2> HIDE DEF m
  <2>7. f[i + 1] = m
    BY <2>2, <2>3, <2>5, <2>6
  <2> QED
    BY <2>7 DEF m
<1>9. Nat \subseteq S
  <2> HIDE DEF S
  <2> QED
    BY <1>7, <1>8, Induction
<1>10. f[len] = n \div w(len)
  BY <1>9
<1> QED
  BY <1>3, <1>6, <1>10 DEF d

\* The fewest digits that hold a number do, if any number of them does.
LEMMA PlacesHold ==
    ASSUME NEW n \in Nat, NEW base \in Nat, base >= 2,
           NEW max \in Nat, max >= 1, n < Power(base, max)
    PROVE  /\ Places(n, base, max) \in 1..max
           /\ n < Power(base, Places(n, base, max))
<1> DEFINE Fits(k) == n < Power(base, k) /\ (k = 1 \/ n >= Power(base, k - 1))
           S == {k \in Nat \ {0} : n < Power(base, k)}
           m == Min(S)
<1>1. m \in S /\ \A k \in S : m <= k
  <2>1. S \in SUBSET Nat /\ max \in S
    OBVIOUS
  <2> HIDE DEF S
  <2> QED
    BY <2>1, LeastElement
<1>2. max \in S
  OBVIOUS
<1> HIDE DEF m
<1>3. m \in 1..max /\ Power(base, m) \in Nat
  BY <1>1, <1>2, Powers
<1>4. m = 1 \/ n >= Power(base, m - 1)
  <2>1. SUFFICES ASSUME m # 1 PROVE n >= Power(base, m - 1)
    OBVIOUS
  <2>2. m - 1 \in Nat \ {0} /\ ~ (m <= m - 1)
    BY <1>3, <2>1
  <2>3. m - 1 \notin S /\ Power(base, m - 1) \in Nat
    BY <1>1, <2>2, Powers
  <2> QED
    BY <2>2, <2>3
<1>5. Fits(m)
  BY <1>1, <1>4
<1>6. \E k \in 1..max : Fits(k)
  BY <1>3, <1>5
<1>7. Places(n, base, max) \in 1..max /\ Fits(Places(n, base, max))
  <2>1. Places(n, base, max) = CHOOSE k \in 1..max : Fits(k)
    BY Zenon DEF Places
  <2> HIDE DEF Fits
  <2> QED
    BY <1>6, <2>1, Zenon
<1> QED
  BY <1>7

-----------------------------------------------------------------------------
(* Integers as text                                                         *)

\* Modulus is a number of two or more, and the integers that it has room for
\* on both sides of 0 are kept.
LEMMA ModulusType == Modulus \in Nat /\ Modulus > Bytes
<1>1. Base \in Nat /\ Base >= 2 /\ Bytes \in Nat
  BY ByteAssumption
<1> QED
  BY <1>1, Powers, PowersGrow DEF Modulus

LEMMA SignedKeeps ==
    ASSUME NEW n \in Nat
    PROVE  /\ 2 * n < Modulus => Signed(n) = n
           /\ 2 * n <= Modulus => Signed(-n) = -n
<1> DEFINE m == Modulus
<1>1. m \in Nat /\ m > 0
  BY ModulusType, ByteAssumption
<1> HIDE DEF m
<1>2. ASSUME 2 * n < m PROVE Signed(n) = n
  <2>1. Signed(n) = IF 2 * (n % m) < m THEN n % m ELSE (n % m) - m
    BY DEF Signed, Wrapped, m
  <2>2. n % m = n
    BY <1>1, <1>2
  <2> QED
    BY <1>1, <1>2, <2>1, <2>2
<1>3. ASSUME 2 * n <= m PROVE Signed(-n) = -n
  <2>1. Signed(-n) = IF 2 * ((-n) % m) < m THEN (-n) % m ELSE ((-n) % m) - m
    BY DEF Signed, Wrapped, m
  <2>2. (-n) % m = IF n = 0 THEN 0 ELSE m - n
    BY <1>1, <1>3
  <2>3. CASE n = 0
    BY <1>1, <2>1, <2>2, <2>3
  <2>4. CASE n # 0
    <3>1. (-n) % m = m - n /\ ~ (2 * (m - n) < m)
      BY <1>1, <1>3, <2>2, <2>4
    <3> QED
      BY <1>1, <2>1, <3>1
  <2> QED
    BY <2>3, <2>4
<1> QED
  BY <1>2, <1>3 DEF m

\* The decimal digits of a number.
LEMMA DigitsOfNumber ==
    ASSUME NEW n \in Nat
    PROVE  /\ Digits(n) \in Seq(0..9) /\ Len(Digits(n)) >= 1
           /\ AddUp(Digits(n), 10) = n
<1>1. n < Power(10, n + 1)
  <2>1. n + 1 \in Nat /\ 10 \in Nat /\ 10 >= 2
    OBVIOUS
  <2>2. Power(10, n + 1) > n + 1 /\ Power(10, n + 1) \in Nat
    BY <2>1, Powers, PowersGrow
  <2> QED
    BY <2>2
<1> DEFINE len == Places(n, 10, n + 1)
<1>2. len \in 1..(n + 1) /\ n < Power(10, len)
  BY <1>1, PlacesHold
<1> HIDE DEF len
<1>3. /\ BigEndian(n, 10, len) \in Seq(0..9) /\ Len(BigEndian(n, 10, len)) = len
  <2>1. len \in Nat /\ 10 - 1 = 9 /\ 10 \in Nat /\ 10 >= 2
    BY <1>2
  <2>2. /\ BigEndian(n, 10, len) \in Seq(0..(10 - 1))
        /\ Len(BigEndian(n, 10, len)) = len
    BY <2>1, BigEndianDigits, Zenon
  <2> QED
    BY <2>1, <2>2
<1>4. AddUp(BigEndian(n, 10, len), 10) = n
  BY <1>2, DigitsAddUp
<1> QED
  BY <1>2, <1>3, <1>4 DEF Digits, len

\* Division by m of a multiple of m, and of what is less than m.
LEMMA Multiples ==
    ASSUME NEW m \in Nat, m > 0, NEW k \in Int
    PROVE  (m * k) % m = 0
OBVIOUS

LEMMA Quotient ==
    ASSUME NEW m \in Nat, m > 0, NEW q \in Int, NEW r \in 0..(m - 1), NEW v \in Int,
           v = m * q + r, -m <= 2 * v, 2 * v < m
    PROVE  q = IF v < 0 THEN -1 ELSE 0
<1>1. ASSUME q >= 1 PROVE FALSE
  <2>1. m * q >= m
    BY <1>1
  <2> QED
    BY <2>1
<1>2. ASSUME q <= -2 PROVE FALSE
  <2>1. m * q <= m * (-2)
    BY <1>2
  <2> QED
    BY <2>1
<1>3. q = 0 \/ q = -1
  BY <1>1, <1>2
<1> QED
  BY <1>3

\* What a long takes of an integer: the integer itself, if it is of a long,
\* and otherwise what the values of a long leave of it.
LEMMA LongTakes ==
    ASSUME NEW v \in Int
    PROVE  /\ Long(v) \in Int /\ Within(Long(v), LongMod) /\ Within(Long(v), Modulus)
           /\ (v - Long(v)) % LongMod = 0
           /\ Within(v, LongMod) => Long(v) = v
<1> DEFINE m == LongMod
           w == Long(v)
           r == v % m
           q == v \div m
<1>1. m \in Nat /\ m > 0 /\ m <= Modulus /\ Modulus \in Nat
  BY LongAssumption, ModulusType
<1>2. w = IF 2 * r < m THEN r ELSE r - m
  BY DEF Long, Wrapped
<1> HIDE DEF m, w
<1>3. q \in Int /\ r \in 0..(m - 1) /\ v = m * q + r
  BY <1>1
<1> HIDE DEF q, r
<1>4. w \in Int /\ -m <= 2 * w /\ 2 * w < m
  BY <1>1, <1>2, <1>3
<1>5. (v - w) % m = 0
  <2>1. \A k \in Int : (m * k) % m = 0
    BY <1>1, Multiples
  <2>2. m * (q + 1) = m * q + m /\ q + 1 \in Int
    BY <1>1, <1>3
  <2>3. v - w = m * q \/ v - w = m * (q + 1)
    BY <1>1, <1>2, <1>3, <2>2
  <2> QED
    BY <1>3, <2>1, <2>2, <2>3
<1>6. ASSUME -m <= 2 * v, 2 * v < m PROVE w = v
  <2>1. q = IF v < 0 THEN -1 ELSE 0
    BY <1>1, <1>3, <1>6, Quotient
  <2>2. m * q = IF v < 0 THEN -m ELSE 0
    BY <1>1, <2>1
  <2> QED
    BY <1>1, <1>2, <1>3, <1>6, <2>2
<1> QED
  BY <1>1, <1>4, <1>5, <1>6 DEF m, w, Within

\* The text of an integer is that of what a long takes of it.
LEMMA TextIsOfLong ==
    ASSUME NEW u \in Int, Long(u) \in Int, Within(Long(u), Modulus)
    PROVE  PlainTextToInt64(Int64ToPlainText(u)) = Long(u)
<1> DEFINE v == Long(u)
<1>0. Modulus \in Nat /\ v \in Int /\ -Modulus <= 2 * v /\ 2 * v < Modulus
  BY ModulusType DEF Within
<1>3. Int64ToPlainText(u) = IF v < 0 THEN <<Minus>> \o Digits(-v) ELSE Digits(v)
  BY DEF Int64ToPlainText
<1> HIDE DEF v
<1>1. CASE v >= 0
  <2> DEFINE d == Digits(v)
  <2>1. v \in Nat
    BY <1>0, <1>1
  <2>2. d \in Seq(0..9) /\ Len(d) >= 1 /\ AddUp(d, 10) = v
    BY <2>1, DigitsOfNumber
  <2>3. Int64ToPlainText(u) = d
    BY <1>1, <1>0, <1>3
  <2> HIDE DEF d
  <2>4. d # <<>> /\ d[1] # Minus /\ \A i \in DOMAIN d : d[i] \in 0..9
    BY <2>2, CharacterAssumption
  <2>5. PlainTextToInt64(d) = Signed(AddUp(d, 10))
    BY <2>4 DEF PlainTextToInt64
  <2> QED
    BY <1>0, <2>1, <2>2, <2>3, <2>5, SignedKeeps DEF v
<1>2. CASE v < 0
  <2> DEFINE d == Digits(-v)
             t == <<Minus>> \o d
  <2>1. -v \in Nat /\ 2 * (-v) <= Modulus /\ -(-v) = v
    BY <1>0, <1>2
  <2>2. d \in Seq(0..9) /\ Len(d) >= 1 /\ AddUp(d, 10) = -v
    BY <2>1, DigitsOfNumber
  <2>3. Int64ToPlainText(u) = t
    BY <1>2, <1>3
  <2> HIDE DEF d
  <2>4. t # <<>> /\ t[1] = Minus /\ Tail(t) = d
    BY <2>2
  <2>5. \A i \in DOMAIN d : d[i] \in 0..9
    BY <2>2
  <2> HIDE DEF t
  <2>6. PlainTextToInt64(t) = Signed(-AddUp(d, 10))
    BY <2>4, <2>5 DEF PlainTextToInt64
  <2>7. Signed(-(-v)) = -(-v)
    BY <2>1, SignedKeeps
  <2> QED
    BY <2>1, <2>2, <2>3, <2>6, <2>7 DEF v
<1> QED
  BY <1>0, <1>1, <1>2 DEF v

\* The text that is written for an integer is read as what a long takes of it:
\* as the integer, if a long holds it.
THEOREM TextKeepsIntegers ==
    ASSUME NEW v \in Int
    PROVE  /\ PlainTextToInt64(Int64ToPlainText(v)) = Long(v)
           /\ Within(Long(v), LongMod) /\ (v - Long(v)) % LongMod = 0
           /\ Within(v, LongMod) => PlainTextToInt64(Int64ToPlainText(v)) = v
<1>1. Long(v) \in Int /\ Within(Long(v), Modulus)
  BY LongTakes
<1>2. PlainTextToInt64(Int64ToPlainText(v)) = Long(v)
  BY <1>1, TextIsOfLong
<1> QED
  BY <1>2, LongTakes

\* Digits that are not negative add up to a number that is not.
LEMMA AddUpType ==
    ASSUME NEW d \in Seq(Nat), NEW base \in Nat
    PROVE  AddUp(d, base) \in Nat
<1> DEFINE n == Len(d)
<1>1. n \in Nat /\ (\A i \in 1..n : d[i] \in Nat) /\ d \in Seq(Int)
  OBVIOUS
<1>2. PICK f \in [0..n -> Int] :
         /\ f[0] = 0 /\ \A i \in 1..n : f[i] = f[i - 1] * base + d[i]
         /\ AddUp(d, base) = f[n]
  BY <1>1, AddUpFunction
<1> HIDE DEF n
<1> DEFINE S == {i \in Nat : i <= n => f[i] \in Nat}
<1>3. 0 \in S
  BY <1>2
<1>4. ASSUME NEW i \in Nat, i \in S PROVE i + 1 \in S
  <2>1. SUFFICES ASSUME i + 1 <= n PROVE f[i + 1] \in Nat
    OBVIOUS
  <2>2. i + 1 \in 1..n /\ (i + 1) - 1 = i /\ f[i] \in Nat
    BY <1>1, <1>4, <2>1
  <2>3. f[i + 1] = f[i] * base + d[i + 1] /\ d[i + 1] \in Nat
    BY <1>1, <1>2, <2>2
  <2>4. f[i] * base \in Nat
    BY <2>2
  <2> QED
    BY <2>3, <2>4
<1>5. Nat \subseteq S
  <2> HIDE DEF S
  <2> QED
    BY <1>3, <1>4, Induction
<1> QED
  BY <1>1, <1>2, <1>5

\* A zero in front of digits adds nothing.
LEMMA LeadingZero ==
    ASSUME NEW d \in Seq(Int), Len(d) >= 1, d[1] = 0, NEW base \in Nat
    PROVE  AddUp(Tail(d), base) = AddUp(d, base)
<1> DEFINE t == Tail(d)
           n == Len(d)
<1>1. /\ n \in Nat /\ n >= 1 /\ t \in Seq(Int) /\ Len(t) = n - 1
      /\ \A i \in 1..(n - 1) : t[i] = d[i + 1] /\ t[i] \in Int
  OBVIOUS
<1>2. PICK f \in [0..n -> Int] :
         /\ f[0] = 0 /\ \A i \in 1..n : f[i] = f[i - 1] * base + d[i]
         /\ AddUp(d, base) = f[n]
  BY AddUpFunction
<1> HIDE DEF t, n
<1>3. PICK g \in [0..(n - 1) -> Int] :
         /\ g[0] = 0 /\ \A i \in 1..(n - 1) : g[i] = g[i - 1] * base + t[i]
         /\ AddUp(t, base) = g[n - 1]
  <2>1. \E g \in [0..Len(t) -> Int] :
           /\ g[0] = 0 /\ \A i \in 1..Len(t) : g[i] = g[i - 1] * base + t[i]
           /\ AddUp(t, base) = g[Len(t)]
    BY <1>1, AddUpFunction
  <2> QED
    BY <1>1, <2>1
<1> DEFINE S == {i \in Nat : i <= n - 1 => g[i] = f[i + 1]}
<1>4. 0 \in S
  <2>1. 1 \in 1..n /\ 1 - 1 = 0 /\ d[1] = 0
    BY <1>1
  <2>2. f[1] = 0 * base + 0
    BY <1>2, <2>1
  <2> QED
    BY <1>3, <2>2
<1>5. ASSUME NEW i \in Nat, i \in S PROVE i + 1 \in S
  <2>1. SUFFICES ASSUME i + 1 <= n - 1 PROVE g[i + 1] = f[(i + 1) + 1]
    OBVIOUS
  <2>2. /\ i + 1 \in 1..(n - 1) /\ (i + 1) - 1 = i /\ (i + 1) + 1 \in 1..n
        /\ ((i + 1) + 1) - 1 = i + 1 /\ g[i] = f[i + 1]
    BY <1>1, <1>5, <2>1
  <2>3. /\ g[i + 1] = g[i] * base + t[i + 1] /\ t[i + 1] = d[(i + 1) + 1]
        /\ f[(i + 1) + 1] = f[i + 1] * base + d[(i + 1) + 1]
    BY <1>1, <1>2, <1>3, <2>2
  <2> QED
    BY <2>2, <2>3
<1>6. Nat \subseteq S
  <2> HIDE DEF S
  <2> QED
    BY <1>4, <1>5, Induction
<1>7. n - 1 \in Nat /\ (n - 1) + 1 = n
  BY <1>1
<1>8. g[n - 1] = f[n]
  BY <1>6, <1>7
<1> QED
  BY <1>2, <1>3, <1>8 DEF t

\* What is made of a text of digits, signs and other characters.
THEOREM TextIsRead ==
    ASSUME NEW text \in Seq(0..9 \cup {Minus, Other})
    PROVE  LET signs == {i \in DOMAIN text : text[i] = Minus}
               value == Positional(Unsigned(text), 10)
           IN  IF text = <<>> \/ Other \in Range(text) \/ ~ signs \subseteq {1}
               THEN PlainTextToInt64(text) = Refused
               ELSE 2 * value < Modulus =>
                       PlainTextToInt64(text) = IF signs = {1} THEN -value ELSE value
<1> DEFINE signs == {i \in DOMAIN text : text[i] = Minus}
           negative == text # <<>> /\ text[1] = Minus
           digits == IF negative THEN Tail(text) ELSE text
           bad == \E i \in DOMAIN digits : digits[i] \notin 0..9
           u == Unsigned(text)
           value == Positional(u, 10)
           n == Len(text)
<1>1. /\ n \in Nat /\ DOMAIN text = 1..n /\ (text = <<>> <=> n = 0)
      /\ \A i \in 1..n : text[i] \in 0..9 \/ text[i] = Minus \/ text[i] = Other
  OBVIOUS
<1>2. PlainTextToInt64(text) =
         IF text = <<>> \/ bad THEN Refused
         ELSE Signed(IF negative THEN -AddUp(digits, 10) ELSE AddUp(digits, 10))
  BY Zenon DEF PlainTextToInt64
<1>3. Other \in Range(text) <=> \E i \in 1..n : text[i] = Other
  BY <1>1, Zenon DEF Range
<1>4. Minus \notin 0..9 /\ Other \notin 0..9 /\ Minus # Other
  BY CharacterAssumption
<1>5. negative =>
         /\ n >= 1 /\ 1 \in signs /\ DOMAIN Tail(text) = 1..(n - 1)
         /\ \A i \in 1..(n - 1) : Tail(text)[i] = text[i + 1]
  BY <1>1
<1>6. text # <<>> => (bad <=> Other \in Range(text) \/ ~ signs \subseteq {1})
  <2>1. SUFFICES ASSUME text # <<>>
                 PROVE  bad <=> \E i \in 1..n :
                           text[i] = Other \/ (text[i] = Minus /\ i # 1)
    BY <1>1, <1>3
  <2>2. CASE negative
    <3>1. bad <=> \E i \in 1..(n - 1) : text[i + 1] \notin 0..9
      BY <1>5, <2>2
    <3>2. bad => \E i \in 1..n : text[i] = Other \/ (text[i] = Minus /\ i # 1)
      BY <1>1, <3>1
    <3>3. ASSUME NEW i \in 1..n, text[i] = Other \/ (text[i] = Minus /\ i # 1) PROVE bad
      <4>1. i # 1
        BY <1>4, <2>2, <3>3
      <4>2. i - 1 \in 1..(n - 1) /\ (i - 1) + 1 = i /\ text[i] \notin 0..9
        BY <1>1, <1>4, <3>3, <4>1
      <4> QED
        BY <3>1, <4>2
    <3> QED
      BY <3>2, <3>3
  <2>3. CASE ~ negative
    <3>1. bad <=> \E i \in 1..n : text[i] \notin 0..9
      BY <1>1, <2>3
    <3>2. text[1] # Minus /\ 1 \in 1..n
      BY <1>1, <2>1, <2>3
    <3> QED
      BY <1>1, <1>4, <3>1, <3>2
  <2> QED
    BY <2>2, <2>3
<1>7. ASSUME text # <<>>, ~ bad
      PROVE  /\ AddUp(digits, 10) = value /\ value \in Nat
             /\ signs = {1} <=> negative
  <2>1. n >= 1 /\ \A i \in 1..n : text[i] \in 0..9 \/ (text[i] = Minus /\ i = 1)
    <3>1. Other \notin Range(text) /\ signs \subseteq {1}
      <4> HIDE DEF bad, signs
      <4> QED
        BY <1>6, <1>7
    <3>2. \A i \in 1..n : text[i] # Other /\ (text[i] = Minus => i = 1)
      BY <1>1, <1>3, <3>1
    <3>3. n >= 1
      BY <1>1, <1>7
    <3> QED
      BY <1>1, <3>2, <3>3
  <2>2. /\ u \in Seq(Nat) /\ u \in Seq(Int) /\ Len(u) = n
        /\ \A i \in 1..n : u[i] = IF text[i] = Minus THEN 0 ELSE text[i]
    BY <1>1, <2>1 DEF Unsigned
  <2>3. 10 \in Nat
    OBVIOUS
  <2>4. AddUp(u, 10) = value /\ AddUp(u, 10) \in Nat
    <3> HIDE DEF u
    <3> QED
      BY <2>2, <2>3, AddUpType, LoopsAddUpPositions
  <2>5. CASE negative
    <3>1. signs = {1}
      BY <1>1, <1>4, <2>1, <2>5
    <3>2. u[1] = 0 /\ Len(u) >= 1
      BY <2>1, <2>2, <2>5
    <3>3. /\ Tail(u) \in Seq(Nat) /\ Len(Tail(u)) = n - 1
          /\ \A i \in 1..(n - 1) : Tail(u)[i] = u[i + 1]
      <4> HIDE DEF u
      <4> QED
        BY <2>1, <2>2
    <3>4. ASSUME NEW i \in 1..(n - 1) PROVE Tail(u)[i] = Tail(text)[i]
      <4>1. i + 1 \in 1..n /\ i + 1 # 1
        BY <1>1
      <4>2. u[i + 1] = text[i + 1]
        BY <1>4, <2>1, <2>2, <4>1
      <4> QED
        BY <1>5, <2>5, <3>3, <4>2
    <3>5. Tail(u) = Tail(text)
      <4>1. Tail(text) \in Seq(0..9 \cup {Minus, Other}) /\ Len(Tail(text)) = n - 1
        BY <2>1
      <4> DEFINE a == Tail(u)
                 b == Tail(text)
      <4>2. /\ a \in Seq(Nat \cup {Minus, Other}) /\ b \in Seq(Nat \cup {Minus, Other})
            /\ Len(a) = Len(b) /\ \A i \in 1..Len(a) : a[i] = b[i]
        BY <3>3, <3>4, <4>1
      <4> HIDE DEF a, b
      <4>3. a = b
        BY <4>2, SeqEqual
      <4> QED
        BY <4>3 DEF a, b
    <3>6. AddUp(Tail(u), 10) = AddUp(u, 10)
      <4> HIDE DEF u
      <4> QED
        BY <2>2, <2>3, <3>2, LeadingZero
    <3> QED
      BY <2>4, <2>5, <3>1, <3>5, <3>6
  <2>6. CASE ~ negative
    <3>1. \A i \in 1..n : text[i] \in 0..9
      BY <2>1, <2>6, <1>7
    <3>2. signs = {} /\ u = text
      BY <1>1, <1>4, <3>1 DEF Unsigned
    <3> QED
      BY <2>4, <2>6, <3>2
  <2> QED
    BY <2>5, <2>6
<1> HIDE DEF value, u, digits, bad, negative, signs
<1>8. CASE text = <<>> \/ bad
  <2>1. PlainTextToInt64(text) = Refused
    BY <1>2, <1>8
  <2>2. text = <<>> \/ Other \in Range(text) \/ ~ signs \subseteq {1}
    BY <1>6, <1>8
  <2> QED
    BY <2>1, <2>2 DEF value, u, signs
<1>9. CASE ~ (text = <<>> \/ bad)
  <2>1. ~ (text = <<>> \/ Other \in Range(text) \/ ~ signs \subseteq {1})
    BY <1>6, <1>9
  <2>2. /\ AddUp(digits, 10) = value /\ value \in Nat
        /\ signs = {1} <=> negative
    BY <1>7, <1>9
  <2>3. 2 * value < Modulus => PlainTextToInt64(text) = IF signs = {1} THEN -value ELSE value
    <3>1. 2 * value < Modulus => 2 * value <= Modulus
      BY <2>2, ModulusType
    <3>2. 2 * value < Modulus => Signed(value) = value /\ Signed(-value) = -value
      BY <2>2, <3>1, SignedKeeps
    <3> QED
      BY <1>2, <1>9, <2>2, <3>2
  <2> QED
    BY <2>1, <2>3 DEF value, u, signs
<1> QED
  BY <1>8, <1>9

-----------------------------------------------------------------------------
(* Integers and records as TLV                                              *)

LEMMA BaseType ==
    /\ Base \in Nat /\ Base >= 2 /\ Base > 8 /\ Bytes \in Nat /\ Bytes >= 3
    /\ Base \div 2 \in Nat /\ Base = 2 * (Base \div 2)
BY ByteAssumption

\* Chars that are not negative are the bytes that they were stored from.
LEMMA SmallChars ==
    ASSUME NEW b \in Seq(0..(Base - 1)), Small(b)
    PROVE  FromChars(b) = AddUp(b, Base)
<1>1. \A i \in DOMAIN b : Char(b[i]) = b[i]
  BY DEF Small, Char
<1>2. [i \in DOMAIN b |-> Char(b[i])] = b
  BY <1>1
<1> QED
  BY <1>2 DEF FromChars

\* The magnitude of an integer has its first bit free, and the sign there
\* leaves the rest as it is.
LEMMA IntegerBytes ==
    ASSUME NEW v \in Int, -Modulus < 2 * v, 2 * v < Modulus
    PROVE  LET value == IF v < 0 THEN -v ELSE v
               bytes == IntToTLV(v)
           IN  \E len \in 1..Bytes : \E b \in Seq(0..(Base - 1)) :
                 /\ Len(b) = len /\ b = BigEndian(value, Base, len)
                 /\ value < Power(Base, len) /\ 2 * b[1] < Base
                 /\ bytes \in Seq(0..(Base - 1)) /\ Len(bytes) = len
                 /\ 2 * bytes[1] >= Base <=> v < 0
                 /\ [bytes EXCEPT ![1] = @ % (Base \div 2)] = b
                 /\ \A i \in 2..len : bytes[i] = b[i]
<1> DEFINE value == IF v < 0 THEN -v ELSE v
           half == Base \div 2
           Fits(k) == 2 * value < Power(Base, k)
           Least(k) == Fits(k) /\ \A j \in 1..(k - 1) : ~ Fits(j)
           len == CHOOSE k \in 1..Bytes : Least(k)
           b == BigEndian(value, Base, len)
           bytes == IntToTLV(v)
<1>1. value \in Nat /\ 2 * value < Modulus
  BY ModulusType
<1>2. len \in 1..Bytes /\ Fits(len)
  <2> DEFINE S == {k \in Nat \ {0} : Fits(k)}
             m == Min(S)
  <2>1. Bytes \in S /\ S \in SUBSET Nat
    BY <1>1, BaseType DEF Modulus
  <2>2. m \in S /\ \A k \in S : m <= k
    <3> HIDE DEF S
    <3> QED
      BY <2>1, LeastElement
  <2> HIDE DEF m
  <2>3. m \in 1..Bytes /\ Fits(m)
    BY <2>1, <2>2, BaseType
  <2>4. ASSUME NEW j \in 1..(m - 1) PROVE ~ Fits(j)
    <3>1. j \in Nat \ {0} /\ ~ (m <= j)
      BY <2>3
    <3> QED
      BY <2>2, <3>1
  <2>5. Least(m)
    BY <2>3, <2>4
  <2>6. Least(len) /\ len \in 1..Bytes
    <3> HIDE DEF Least
    <3> QED
      BY <2>3, <2>5, Zenon
  <2> QED
    BY <2>6
<1>3. bytes = IF v < 0 THEN [b EXCEPT ![1] = @ + half] ELSE b
  BY Zenon DEF IntToTLV
<1> HIDE DEF len
<1>4. /\ b \in Seq(0..(Base - 1)) /\ Len(b) = len
      /\ \A i \in 1..len : b[i] = (value \div Power(Base, len - i)) % Base
  <2>1. len \in Nat
    BY <1>2, BaseType
  <2> HIDE DEF value
  <2> QED
    BY <1>1, <2>1, BaseType, BigEndianDigits
<1>5. b[1] \in Nat /\ b[1] < half
  <2> DEFINE p == Power(Base, len - 1)
  <2>1. len - 1 \in Nat /\ 1 \in 1..len /\ (len - 1) + 1 = len
    BY <1>2, BaseType
  <2>2. p \in Nat /\ p > len - 1 /\ Power(Base, len) = Base * p
    BY <2>1, BaseType, Powers, PowersGrow
  <2>3. b[1] = (value \div p) % Base
    BY <1>4, <2>1
  <2> HIDE DEF value, p, b, half
  <2>4. 2 * value < Base * p /\ Base = 2 * half /\ half \in Nat
    BY <1>2, <2>2, BaseType DEF half
  <2>5. value < half * p
    BY <1>1, <2>2, <2>4
  <2>6. p > 0
    BY <2>1, <2>2
  <2>7. value \div p \in Nat /\ value \div p < half
    BY <1>1, <2>2, <2>4, <2>5, <2>6
  <2>8. (value \div p) % Base = value \div p
    BY <2>4, <2>7
  <2> QED
    BY <2>3, <2>7, <2>8
<1>6. value < Power(Base, len)
  <2>1. len \in Nat
    BY <1>2, BaseType
  <2>2. Power(Base, len) \in Nat
    BY <2>1, BaseType, Powers
  <2> QED
    BY <1>1, <1>2, <2>2
<1> HIDE DEF b, value, half, bytes
<1>7. half \in Nat /\ Base = 2 * half /\ half > 0 /\ Base \in Nat
  BY BaseType DEF half
<1>8. len \in Nat /\ len >= 1 /\ 1 \in 1..len
  BY <1>2, BaseType
<1>9. /\ bytes \in Seq(0..(Base - 1)) /\ Len(bytes) = len
      /\ \A i \in 2..len : bytes[i] = b[i]
      /\ bytes[1] = IF v < 0 THEN b[1] + half ELSE b[1]
  <2>1. CASE v < 0
    <3>1. b[1] + half \in 0..(Base - 1)
      BY <1>5, <1>7
    <3>2. bytes = [b EXCEPT ![1] = b[1] + half]
      BY <1>3, <2>1
    <3> QED
      BY <1>4, <1>8, <2>1, <3>1, <3>2
  <2>2. CASE ~ (v < 0)
    BY <1>3, <1>4, <1>8, <2>2
  <2> QED
    BY <2>1, <2>2
<1>10. bytes[1] % half = b[1] /\ (2 * bytes[1] >= Base <=> v < 0)
  <2>1. CASE v < 0
    <3>1. bytes[1] = b[1] + half
      BY <1>9, <2>1
    <3>2. (b[1] + half) % half = b[1]
      BY <1>5, <1>7
    <3> QED
      BY <1>5, <1>7, <2>1, <3>1, <3>2
  <2>2. CASE ~ (v < 0)
    <3>1. bytes[1] = b[1]
      BY <1>9, <2>2
    <3>2. b[1] % half = b[1]
      BY <1>5, <1>7
    <3> QED
      BY <1>5, <1>7, <2>2, <3>1, <3>2
  <2> QED
    BY <2>1, <2>2
<1>11. [bytes EXCEPT ![1] = @ % half] = b
  <2>1. \A i \in 1..len : [bytes EXCEPT ![1] = bytes[1] % half][i] = b[i]
    BY <1>8, <1>9, <1>10
  <2>2. DOMAIN bytes = 1..len /\ DOMAIN b = 1..len
    BY <1>4, <1>8, <1>9
  <2>3. [bytes EXCEPT ![1] = bytes[1] % half] = b
    BY <1>4, <1>9, <2>1, <2>2
  <2> QED
    BY <2>3
<1>12. b = BigEndian(value, Base, len) /\ 2 * b[1] < Base
  BY <1>5, <1>7 DEF b
<1>13. \E l \in 1..Bytes : \E c \in Seq(0..(Base - 1)) :
         /\ Len(c) = l /\ c = BigEndian(value, Base, l)
         /\ value < Power(Base, l) /\ 2 * c[1] < Base
         /\ bytes \in Seq(0..(Base - 1)) /\ Len(bytes) = l
         /\ 2 * bytes[1] >= Base <=> v < 0
         /\ [bytes EXCEPT ![1] = @ % half] = c
         /\ \A i \in 2..l : bytes[i] = c[i]
  BY <1>2, <1>4, <1>6, <1>9, <1>10, <1>11, <1>12, Zenon
<1> QED
  BY <1>13, Zenon DEF bytes, value, half

\* A sequence of bytes is a sequence of numbers.
LEMMA BytesAreNumbers ==
    ASSUME NEW b \in Seq(0..(Base - 1))
    PROVE  b \in Seq(Nat) /\ b \in Seq(Int)
<1> DEFINE B == 0..(Base - 1)
<1>1. b \in Seq(B) /\ B \subseteq Nat
  BY BaseType
<1> HIDE DEF B
<1>2. Len(b) \in Nat /\ \A i \in 1..Len(b) : b[i] \in Nat
  BY <1>1, LenProperties, ElementOfSeq
<1> QED
  BY <1>1, <1>2

\* The bytes of an integer mean it, and it is read from them if the chars
\* behind the first are not negative.
THEOREM BytesKeepIntegers ==
    ASSUME NEW v \in Int, -Modulus < 2 * v, 2 * v < Modulus
    PROVE  /\ SignMagnitude(IntToTLV(v)) = v
           /\ Small(Tail(IntToTLV(v))) => OpaqueToInt(IntToTLV(v)) = v
<1> DEFINE value == IF v < 0 THEN -v ELSE v
           bytes == IntToTLV(v)
           half == Base \div 2
<1>1. PICK len \in 1..Bytes, b \in Seq(0..(Base - 1)) :
         /\ Len(b) = len /\ b = BigEndian(value, Base, len)
         /\ value < Power(Base, len) /\ 2 * b[1] < Base
         /\ bytes \in Seq(0..(Base - 1)) /\ Len(bytes) = len
         /\ 2 * bytes[1] >= Base <=> v < 0
         /\ [bytes EXCEPT ![1] = @ % half] = b
         /\ \A i \in 2..len : bytes[i] = b[i]
  BY IntegerBytes, Zenon
<1>2. value \in Nat /\ len \in Nat /\ v = IF v < 0 THEN -value ELSE value
  BY <1>1, BaseType
<1> HIDE DEF value, bytes, half
<1>3. AddUp(b, Base) = value
  BY <1>1, <1>2, BaseType, DigitsAddUp
<1>4. Positional(b, Base) = value
  BY <1>3, BaseType, BytesAreNumbers, LoopsAddUpPositions
<1>5. SignMagnitude(bytes) = v
  <2>1. SignMagnitude(bytes) =
           IF 2 * bytes[1] >= Base THEN -Positional(b, Base) ELSE Positional(b, Base)
    BY <1>1, Zenon DEF SignMagnitude, half
  <2> QED
    BY <1>1, <1>2, <1>4, <2>1
<1>6. ASSUME Small(Tail(bytes)) PROVE OpaqueToInt(bytes) = v
  <2>1. ASSUME NEW i \in 1..len PROVE 2 * b[i] < Base
    <3>1. CASE i = 1
      BY <1>1, <3>1
    <3>2. CASE i # 1
      <4>1. i - 1 \in 1..(len - 1) /\ (i - 1) + 1 = i /\ i \in 2..len
        BY <1>2, <3>2
      <4>2. DOMAIN Tail(bytes) = 1..(len - 1) /\ Tail(bytes)[i - 1] = bytes[i]
        BY <1>1, <1>2, <4>1
      <4> QED
        BY <1>1, <1>6, <4>1, <4>2 DEF Small
    <3> QED
      BY <3>1, <3>2
  <2>2. Small(b)
    BY <1>1, <2>1 DEF Small
  <2>3. FromChars(b) = value
    BY <1>3, <2>2, SmallChars
  <2>4. OpaqueToInt(bytes) =
           IF 2 * bytes[1] >= Base THEN -FromChars(b) ELSE FromChars(b)
    BY <1>1, Zenon DEF OpaqueToInt, half
  <2> QED
    BY <1>1, <1>2, <2>3, <2>4
<1> QED
  BY <1>5, <1>6 DEF bytes

LEMMA PowersGrowing ==
    ASSUME NEW n \in Nat, n >= 2, NEW k \in Nat
    PROVE  \A i \in Nat : Power(n, k) <= Power(n, k + i)
<1> DEFINE S == {i \in Nat : Power(n, k) <= Power(n, k + i)}
<1>1. 0 \in S
  <2>1. k + 0 = k /\ Power(n, k) \in Nat
    BY Powers
  <2> QED
    BY <2>1
<1>2. ASSUME NEW i \in Nat, i \in S PROVE i + 1 \in S
  <2>1. k + i \in Nat /\ (k + i) + 1 = k + (i + 1)
    OBVIOUS
  <2>2. /\ Power(n, k) \in Nat /\ Power(n, k + i) \in Nat
        /\ Power(n, k + (i + 1)) = n * Power(n, k + i)
    BY <2>1, Powers
  <2>3. n * Power(n, k + i) >= Power(n, k + i)
    BY <2>2
  <2> QED
    BY <1>2, <2>2, <2>3
<1>3. Nat \subseteq S
  <2> HIDE DEF S
  <2> QED
    BY <1>1, <1>2, Induction
<1> QED
  BY <1>3

\* The one and two bytes of an identifier and up to three of a length hold
\* what they are for, and a record with no negative char in its header is
\* decoded to what it was made from.
THEOREM HeadersKeepRecords ==
    ASSUME NEW type, NEW id \in Nat, id < Power(Base, 2),
           NEW len \in Nat, len < Power(Base, 3),
           Small(CreateHeader(type, id, len).id),
           Small(CreateHeader(type, id, len).length)
    PROVE  DecodeTLV(CreateHeader(type, id, len), len) =
              [type |-> type, id |-> id, len |-> len]
<1> DEFINE h == CreateHeader(type, id, len)
           n == IF id >= Base THEN 2 ELSE 1
           m == Modulus
<1>1. /\ h.type = type /\ h.inline = (IF len <= 7 THEN len ELSE 0)
      /\ h.id = BigEndian(id, Base, n) /\ h.length = LengthBytes(len)
  BY DEF CreateHeader
<1>2. id < Power(Base, n) /\ n \in Nat
  <2>1. Power(Base, 1) = Base
    <3>1. /\ Power(Base, 0) = 1
          /\ \A k \in Nat : Power(Base, k + 1) = Base * Power(Base, k)
      BY BaseType, Powers
    <3>2. Power(Base, 0 + 1) = Base * Power(Base, 0)
      BY <3>1
    <3> QED
      BY <3>1, <3>2, BaseType
  <2> QED
    BY <2>1, BaseType
<1> HIDE DEF h, n, m
<1>3. h.id \in Seq(0..(Base - 1)) /\ Len(h.id) \in Nat
  <2>1. BigEndian(id, Base, n) \in Seq(0..(Base - 1)) /\ Len(BigEndian(id, Base, n)) = n
    BY <1>2, BaseType, BigEndianDigits
  <2> QED
    BY <1>1, <1>2, <2>1
<1>4. FromChars(h.id) % Power(Base, 2) = id
  <2>1. FromChars(h.id) = id
    BY <1>1, <1>2, <1>3, BaseType, SmallChars, DigitsAddUp DEF h
  <2>2. Power(Base, 2) \in Nat
    BY BaseType, Powers
  <2> QED
    BY <2>1, <2>2
<1>5. m \in Nat /\ len < m
  <2>1. Bytes - 3 \in Nat /\ 3 + (Bytes - 3) = Bytes /\ 3 \in Nat
    BY BaseType
  <2>2. Power(Base, 3) \in Nat /\ Power(Base, 3) <= Power(Base, Bytes)
    <3>1. \A i \in Nat : Power(Base, 3) <= Power(Base, 3 + i)
      BY <2>1, BaseType, PowersGrowing
    <3>2. Power(Base, 3) \in Nat
      BY <2>1, BaseType, Powers
    <3> QED
      BY <2>1, <3>1, <3>2
  <2> QED
    BY <2>2, ModulusType DEF Modulus, m
<1>6. /\ Len(h.length) \in Nat
      /\ (IF h.length = <<>> THEN h.inline ELSE FromChars(h.length)) % m = len
  <2>1. CASE len <= 7
    <3>1. h.length = <<>> /\ h.inline = len
      BY <1>1, <2>1 DEF LengthBytes
    <3>2. Len(h.length) \in Nat
      BY <3>1
    <3>3. (IF h.length = <<>> THEN h.inline ELSE FromChars(h.length)) % m = len
      BY <1>5, <3>1
    <3> QED
      BY <3>2, <3>3
  <2>2. CASE ~ (len <= 7)
    <3> DEFINE k == Places(len, Base, 3)
    <3>1. h.length = BigEndian(len, Base, k)
      BY <1>1, <2>2 DEF LengthBytes
    <3>2. k \in 1..3 /\ len < Power(Base, k)
      <4>1. 3 \in Nat /\ 3 >= 1
        OBVIOUS
      <4> QED
        BY <4>1, BaseType, PlacesHold, Zenon
    <3> HIDE DEF k
    <3>3. /\ h.length \in Seq(0..(Base - 1)) /\ Len(h.length) = k
      <4>1. /\ BigEndian(len, Base, k) \in Seq(0..(Base - 1))
            /\ Len(BigEndian(len, Base, k)) = k
        <5>1. k \in Nat
          BY <3>2
        <5> QED
          BY <5>1, BaseType, BigEndianDigits
      <4> QED
        BY <3>1, <4>1
    <3>4. FromChars(h.length) = len
      BY <3>1, <3>2, <3>3, BaseType, SmallChars, DigitsAddUp DEF h
    <3>5. (IF h.length = <<>> THEN h.inline ELSE FromChars(h.length)) % m = len
      BY <1>5, <3>2, <3>3, <3>4
    <3> QED
      BY <3>2, <3>3, <3>5
  <2> QED
    BY <2>1, <2>2
<1>7. ~ ((HeaderLength(h) + len) % m > HeaderLength(h) + len)
  <2> DEFINE x == HeaderLength(h) + len
  <2>1. Len(h.id) \in Nat /\ Len(h.length) \in Nat
    BY <1>3, <1>6
  <2>2. x \in Nat
    <3> DEFINE a == Len(h.id)
               c == Len(h.length)
    <3>1. HeaderLength(h) = 1 + a + c
      BY DEF HeaderLength
    <3> HIDE DEF a, c
    <3>2. a \in Nat /\ c \in Nat
      BY <2>1 DEF a, c
    <3> QED
      BY <3>1, <3>2
  <2> HIDE DEF x
  <2>3. x % m <= x /\ x % m \in Nat
    BY <1>5, <2>2
  <2>4. ~ (x % m > x)
    BY <2>2, <2>3
  <2> QED
    BY <2>4 DEF x
<1>8. DecodeTLV(h, len) = [type |-> h.type, id |-> id, len |-> len]
  BY <1>4, <1>6, <1>7, Zenon DEF DecodeTLV, m
<1> QED
  BY <1>1, <1>8 DEF h
=============================================================================
