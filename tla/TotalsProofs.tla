---------------------------- MODULE TotalsProofs ----------------------------
(***************************************************************************)
(* Facts about totals over numbered rows, and over sets of rows (the       *)
(* SumFunctionOnSet of the library).  Each is proved by a least            *)
(* counterexample over the running totals of the rows.                     *)
(***************************************************************************)
EXTENDS Totals, Functions, FiniteSetTheorems, WellFoundedInduction, TLAPS

\* A non-empty set of naturals has a least element: the form in which the
\* lemmas below argue by induction.
LEMMA LeastNat ==
  ASSUME NEW T, T \subseteq Nat, T # {}
  PROVE  \E m \in T : \A k \in T : m <= k
<1> DEFINE R == OpToRel(<, Nat)
<1>1. IsWellFoundedOn(R, Nat)
  BY NatLessThanWellFounded
<1> HIDE DEF R
<1>2. PICK m \in T : \A k \in T : ~(<<k, m>> \in R)
  BY <1>1, WFMin
<1>3. \A k \in T : ~(k < m)
  BY <1>2 DEF R, OpToRel
<1> QED
  BY <1>2, <1>3

\* p holds the running totals of f up to n.
IsRunningTotal(p, f, n) ==
  /\ p \in [0..n -> Int]
  /\ p[0] = 0
  /\ \A i \in 1..n : p[i] = p[i - 1] + f[i]

\* Every sequence of integers has its running totals ...
LEMMA RunningTotalExists ==
  ASSUME NEW n \in Nat, NEW f \in [1..n -> Int]
  PROVE  \E p : IsRunningTotal(p, f, n)
<1> DEFINE T == {k \in 0..n : ~ \E p : IsRunningTotal(p, f, k)}
<1> SUFFICES ASSUME T # {} PROVE FALSE
  <2>1. n \in 0..n
    OBVIOUS
  <2> QED BY <2>1, Zenon
<1>0. T \subseteq Nat
  OBVIOUS
<1>1. PICK m \in T : \A k \in T : m <= k
  <2> HIDE DEF T
  <2> QED BY <1>0, LeastNat, Zenon
<1>2. CASE m = 0
  <2>1. IsRunningTotal([i \in 0..0 |-> 0], f, 0)
    BY DEF IsRunningTotal
  <2> QED BY <1>1, <1>2, <2>1
<1>3. CASE m # 0
  <2>1. m \in 1..n /\ m - 1 \in 0..n /\ m - 1 \notin T
    BY <1>1, <1>3
  <2>2. PICK p : IsRunningTotal(p, f, m - 1)
    BY <2>1, Zenon
  <2> DEFINE q == [i \in 0..m |-> IF i = m THEN p[m - 1] + f[m] ELSE p[i]]
  <2>3. q \in [0..m -> Int] /\ q[0] = 0
    BY <2>2, <2>1 DEF IsRunningTotal
  <2>4. ASSUME NEW i \in 1..m PROVE q[i] = q[i - 1] + f[i]
    <3>1. CASE i = m
      BY <3>1, <2>1
    <3>2. CASE i # m
      <4>1. i \in 1..(m - 1) /\ i \in 0..m /\ i - 1 \in 0..m /\ i - 1 # m
        BY <3>2, <2>1
      <4> QED BY <4>1, <3>2, <2>2 DEF IsRunningTotal
    <3> QED BY <3>1, <3>2
  <2>5. IsRunningTotal(q, f, m)
    <3> HIDE DEF q
    <3> QED BY <2>3, <2>4 DEF IsRunningTotal
  <2> QED BY <2>5, <1>1, Zenon
<1> QED BY <1>2, <1>3

\* ... and only one sequence of them.
LEMMA RunningTotalUnique ==
  ASSUME NEW n \in Nat, NEW f, NEW p, NEW q,
         IsRunningTotal(p, f, n), IsRunningTotal(q, f, n)
  PROVE  p = q
<1> DEFINE T == {k \in 0..n : p[k] # q[k]}
<1>1. T \subseteq Nat
  OBVIOUS
<1>2. CASE T = {}
  <2>1. \A k \in 0..n : p[k] = q[k]
    BY <1>2
  <2>2. p = [i \in 0..n |-> p[i]] /\ q = [i \in 0..n |-> q[i]]
    BY DEF IsRunningTotal
  <2> QED BY <2>1, <2>2
<1>3. CASE T # {}
  <2>1. PICK m \in T : \A k \in T : m <= k
    <3> HIDE DEF T
    <3> QED BY <1>1, <1>3, LeastNat, Zenon
  <2>2. m # 0
    BY <2>1 DEF IsRunningTotal
  <2>3. m \in 1..n /\ m - 1 \in 0..n /\ m - 1 \notin T
    BY <2>1, <2>2
  <2>4. p[m - 1] = q[m - 1]
    BY <2>3
  <2> QED BY <2>3, <2>4 DEF IsRunningTotal
<1> QED BY <1>2, <1>3

\* The recursive function in SumTo computes the running totals, so that
\* whatever is shown of them holds of a cached total of the program.
LEMMA SumToIsRunningTotal ==
  ASSUME NEW n \in Nat, NEW f \in [1..n -> Int]
  PROVE  \E p : IsRunningTotal(p, f, n) /\ SumTo(f, n) = p[n]
<1> DEFINE P(p) == p = [i \in 0..n |-> IF i = 0 THEN 0 ELSE p[i - 1] + f[i]]
<1> DEFINE c == CHOOSE p : P(p)
<1>0. PICK p0 : IsRunningTotal(p0, f, n)
  BY RunningTotalExists
<1>1. P(p0)
  <2>1. \A i \in 0..n : p0[i] = IF i = 0 THEN 0 ELSE p0[i - 1] + f[i]
    BY <1>0 DEF IsRunningTotal
  <2> QED BY <2>1, <1>0 DEF IsRunningTotal
<1>2. P(c)
  <2> HIDE DEF P
  <2> QED BY <1>1, Zenon
<1>3. SumTo(f, n) = c[n]
  BY Zenon DEF SumTo
<1> HIDE DEF c
<1>4. c = p0
  <2> DEFINE T == {k \in 0..n : c[k] # p0[k]}
  <2>0. T \subseteq Nat
    OBVIOUS
  <2>1. CASE T = {}
    <3>1. \A k \in 0..n : c[k] = p0[k]
      BY <2>1
    <3>2. c = [i \in 0..n |-> c[i]] /\ p0 = [i \in 0..n |-> p0[i]]
      BY <1>0, <1>2 DEF IsRunningTotal
    <3> QED BY <3>1, <3>2
  <2>2. CASE T # {}
    <3>1. PICK m \in T : \A k \in T : m <= k
      <4> HIDE DEF T
      <4> QED BY <2>0, <2>2, LeastNat, Zenon
    <3>2. m = 0 \/ (m \in 1..n /\ m - 1 \in 0..n /\ m - 1 \notin T)
      BY <3>1
    <3> QED BY <3>1, <3>2, <1>2, <1>0 DEF IsRunningTotal
  <2> QED BY <2>1, <2>2
<1> QED BY <1>0, <1>3, <1>4

\* A total of integers is an integer.
LEMMA SumToInt ==
  ASSUME NEW n \in Nat, NEW f \in [1..n -> Int]
  PROVE  SumTo(f, n) \in Int
<1>1. PICK p : IsRunningTotal(p, f, n) /\ SumTo(f, n) = p[n]
  BY SumToIsRunningTotal
<1> QED BY <1>1 DEF IsRunningTotal

\* When one row changes, the total changes by as much: what every step
\* that writes a single delivery order or a single invoice relies on.
LEMMA SumToChange ==
  ASSUME NEW n \in Nat, NEW f \in [1..n -> Int], NEW g \in [1..n -> Int],
         NEW x \in 1..n, \A i \in 1..n : i # x => g[i] = f[i]
  PROVE  SumTo(g, n) = SumTo(f, n) - f[x] + g[x]
<1>1. PICK p : IsRunningTotal(p, f, n) /\ SumTo(f, n) = p[n]
  BY SumToIsRunningTotal
<1>2. PICK r : IsRunningTotal(r, g, n) /\ SumTo(g, n) = r[n]
  BY SumToIsRunningTotal
<1> DEFINE q == [i \in 0..n |-> IF i < x THEN p[i] ELSE p[i] - f[x] + g[x]]
<1>3. q \in [0..n -> Int] /\ q[0] = 0
  <2>1. /\ f[x] \in Int /\ g[x] \in Int /\ 0 < x /\ 0 \in 0..n
        /\ \A i \in 0..n : p[i] \in Int
        /\ p[0] = 0
    BY <1>1 DEF IsRunningTotal
  <2>2. \A i \in 0..n : (IF i < x THEN p[i] ELSE p[i] - f[x] + g[x]) \in Int
    BY <2>1
  <2> QED BY <2>1, <2>2
<1>4. ASSUME NEW i \in 1..n PROVE q[i] = q[i - 1] + g[i]
  <2>1. i \in 0..n /\ i - 1 \in 0..n /\ p[i] = p[i - 1] + f[i] /\ p[i - 1] \in Int
    BY <1>1 DEF IsRunningTotal
  <2>2. CASE i < x
    BY <2>1, <2>2
  <2>3. CASE i = x
    BY <2>1, <2>3
  <2>4. CASE i > x
    BY <2>1, <2>4
  <2> QED BY <2>2, <2>3, <2>4
<1>5. IsRunningTotal(q, g, n)
  <2> HIDE DEF q
  <2> QED BY <1>3, <1>4 DEF IsRunningTotal
<1>6. q = r
  <2> HIDE DEF q
  <2> QED BY <1>5, <1>2, RunningTotalUnique
<1> QED BY <1>1, <1>2, <1>6 DEF IsRunningTotal

\* A total of naturals is a natural and at least each of its terms.
LEMMA SumToNat ==
  ASSUME NEW n \in Nat, NEW f \in [1..n -> Nat]
  PROVE  /\ SumTo(f, n) \in Nat
         /\ \A x \in 1..n : f[x] <= SumTo(f, n)
<1>0. f \in [1..n -> Int]
  OBVIOUS
<1>1. PICK p : IsRunningTotal(p, f, n) /\ SumTo(f, n) = p[n]
  BY <1>0, SumToIsRunningTotal
<1> DEFINE T == {k \in 0..n : ~(p[k] >= 0 /\ \A x \in 1..k : f[x] <= p[k])}
<1>2. T \subseteq Nat
  OBVIOUS
<1>3. CASE T = {}
  <2>1. n \in 0..n /\ n \notin T
    BY <1>3
  <2> QED BY <2>1, <1>1 DEF IsRunningTotal
<1>4. CASE T # {}
  <2>1. PICK m \in T : \A k \in T : m <= k
    <3> HIDE DEF T
    <3> QED BY <1>2, <1>4, LeastNat, Zenon
  <2>2. m # 0
    BY <2>1, <1>1 DEF IsRunningTotal
  <2>3. m \in 1..n /\ m - 1 \in 0..n /\ m - 1 \notin T
    BY <2>1, <2>2
  <2>4. p[m - 1] >= 0 /\ \A x \in 1..(m - 1) : f[x] <= p[m - 1]
    BY <2>3
  <2>5. p[m] = p[m - 1] + f[m] /\ p[m - 1] \in Int /\ f[m] \in Nat
    BY <2>3, <1>1 DEF IsRunningTotal
  <2>6. \A x \in 1..m : f[x] <= p[m]
    <3> TAKE x \in 1..m
    <3>1. CASE x = m
      BY <3>1, <2>4, <2>5
    <3>2. CASE x # m
      BY <3>2, <2>4, <2>5, <2>3
    <3> QED BY <3>1, <3>2
  <2> QED BY <2>1, <2>4, <2>5, <2>6
<1> QED BY <1>3, <1>4

\* With no row counted yet the total is 0.
LEMMA SumToZero ==
  ASSUME NEW n \in Nat
  PROVE  SumTo([i \in 1..n |-> 0], n) = 0
<1> DEFINE f == [i \in 1..n |-> 0]
<1>0. f \in [1..n -> Int]
  OBVIOUS
<1>1. PICK p : IsRunningTotal(p, f, n) /\ SumTo(f, n) = p[n]
  BY <1>0, SumToIsRunningTotal
<1>2. IsRunningTotal([i \in 0..n |-> 0], f, n)
  BY DEF IsRunningTotal
<1>3. p = [i \in 0..n |-> 0]
  <2> HIDE DEF f
  <2> QED BY <1>1, <1>2, RunningTotalUnique
<1> QED BY <1>1, <1>3

\* A total is monotone in its terms: what a step that writes several
\* delivery orders at once relies on.
LEMMA SumToMono ==
  ASSUME NEW n \in Nat, NEW f \in [1..n -> Int], NEW g \in [1..n -> Int],
         \A i \in 1..n : f[i] <= g[i]
  PROVE  SumTo(f, n) <= SumTo(g, n)
<1>1. PICK p : IsRunningTotal(p, f, n) /\ SumTo(f, n) = p[n]
  BY SumToIsRunningTotal
<1>2. PICK r : IsRunningTotal(r, g, n) /\ SumTo(g, n) = r[n]
  BY SumToIsRunningTotal
<1> DEFINE T == {k \in 0..n : ~(p[k] <= r[k])}
<1>3. T \subseteq Nat
  OBVIOUS
<1>4. CASE T = {}
  <2>1. n \in 0..n /\ n \notin T
    BY <1>4
  <2> QED BY <2>1, <1>1, <1>2
<1>5. CASE T # {}
  <2>1. PICK m \in T : \A k \in T : m <= k
    <3> HIDE DEF T
    <3> QED BY <1>3, <1>5, LeastNat, Zenon
  <2>2. m # 0
    BY <2>1, <1>1, <1>2 DEF IsRunningTotal
  <2>3. m \in 1..n /\ m - 1 \in 0..n /\ m - 1 \notin T
    BY <2>1, <2>2
  <2>4. /\ p[m] = p[m - 1] + f[m] /\ p[m - 1] \in Int
        /\ r[m] = r[m - 1] + g[m] /\ r[m - 1] \in Int
        /\ f[m] \in Int /\ g[m] \in Int /\ f[m] <= g[m]
    BY <2>3, <1>1, <1>2 DEF IsRunningTotal
  <2> QED BY <2>1, <2>3, <2>4
<1> QED BY <1>4, <1>5

\* A total looks at the counted rows only.
LEMMA SumToCongruent ==
  ASSUME NEW n \in Nat, NEW f, NEW g, \A i \in 1..n : f[i] = g[i]
  PROVE  SumTo(f, n) = SumTo(g, n)
<1> DEFINE P(p) == p = [i \in 0..n |-> IF i = 0 THEN 0 ELSE p[i - 1] + f[i]]
           Q(p) == p = [i \in 0..n |-> IF i = 0 THEN 0 ELSE p[i - 1] + g[i]]
<1>1. \A p : P(p) <=> Q(p)
  <2> TAKE p
  <2>1. \A i \in 0..n : (IF i = 0 THEN 0 ELSE p[i - 1] + f[i]) = (IF i = 0 THEN 0 ELSE p[i - 1] + g[i])
    OBVIOUS
  <2>2. [i \in 0..n |-> IF i = 0 THEN 0 ELSE p[i - 1] + f[i]] = [i \in 0..n |-> IF i = 0 THEN 0 ELSE p[i - 1] + g[i]]
    BY <2>1, Zenon
  <2> QED BY <2>2, Zenon
<1>2. (CHOOSE p : P(p)) = (CHOOSE p : Q(p))
  <2> HIDE DEF P, Q
  <2> QED BY <1>1, Zenon
<1>3. SumTo(f, n) = (CHOOSE p : P(p))[n] /\ SumTo(g, n) = (CHOOSE p : Q(p))[n]
  BY Zenon DEF SumTo
<1> HIDE DEF P, Q
<1> QED BY <1>2, <1>3, Zenon

\* The totals of the first rows are the running totals.
LEMMA SumToPrefix ==
  ASSUME NEW n \in Nat, NEW f \in [1..n -> Int], NEW p, IsRunningTotal(p, f, n),
         NEW k \in 0..n
  PROVE  SumTo(f, k) = p[k]
<1> DEFINE g == [i \in 1..k |-> f[i]]
           q == [i \in 0..k |-> p[i]]
<1>1. k \in Nat /\ 1..k \subseteq 1..n /\ 0..k \subseteq 0..n
  OBVIOUS
<1>2. g \in [1..k -> Int] /\ \A i \in 1..k : f[i] = g[i]
  BY <1>1
<1>3. IsRunningTotal(q, g, k)
  <2>1. q \in [0..k -> Int] /\ q[0] = 0
    BY <1>1 DEF IsRunningTotal
  <2>2. ASSUME NEW i \in 1..k PROVE q[i] = q[i - 1] + g[i]
    <3>1. i \in 1..n /\ i \in 0..k /\ i - 1 \in 0..k
      BY <1>1
    <3> QED BY <3>1 DEF IsRunningTotal
  <2> HIDE DEF q, g
  <2> QED BY <2>1, <2>2 DEF IsRunningTotal
<1>4. q[k] = p[k]
  OBVIOUS
<1> HIDE DEF g, q
<1>5. SumTo(f, k) = SumTo(g, k)
  BY <1>1, <1>2, SumToCongruent
<1>6. PICK r : IsRunningTotal(r, g, k) /\ SumTo(g, k) = r[k]
  BY <1>1, <1>2, SumToIsRunningTotal
<1>7. r = q
  BY <1>1, <1>3, <1>6, RunningTotalUnique
<1> QED BY <1>4, <1>5, <1>6, <1>7

\* The total with one more row.
LEMMA SumToNext ==
  ASSUME NEW n \in Nat, NEW f \in [1..(n + 1) -> Int]
  PROVE  SumTo(f, n + 1) = SumTo(f, n) + f[n + 1]
<1>1. n + 1 \in Nat /\ n \in 0..(n + 1) /\ n + 1 \in 0..(n + 1) /\ n + 1 \in 1..(n + 1) /\ (n + 1) - 1 = n
  OBVIOUS
<1>2. PICK p : IsRunningTotal(p, f, n + 1)
  BY <1>1, RunningTotalExists
<1>3. SumTo(f, n) = p[n] /\ SumTo(f, n + 1) = p[n + 1]
  BY <1>1, <1>2, SumToPrefix
<1> QED BY <1>1, <1>2, <1>3 DEF IsRunningTotal

\* Totals add up row by row.
LEMMA SumToPlus ==
  ASSUME NEW n \in Nat, NEW f \in [1..n -> Int], NEW g \in [1..n -> Int]
  PROVE  SumTo([i \in 1..n |-> f[i] + g[i]], n) = SumTo(f, n) + SumTo(g, n)
<1> DEFINE h == [i \in 1..n |-> f[i] + g[i]]
<1>1. PICK p : IsRunningTotal(p, f, n) /\ SumTo(f, n) = p[n]
  BY SumToIsRunningTotal
<1>2. PICK q : IsRunningTotal(q, g, n) /\ SumTo(g, n) = q[n]
  BY SumToIsRunningTotal
<1> DEFINE s == [i \in 0..n |-> p[i] + q[i]]
<1>3. h \in [1..n -> Int] /\ s[n] = p[n] + q[n]
  OBVIOUS
<1>4. IsRunningTotal(s, h, n)
  <2>1. s \in [0..n -> Int] /\ s[0] = 0
    BY <1>1, <1>2 DEF IsRunningTotal
  <2>2. ASSUME NEW i \in 1..n PROVE s[i] = s[i - 1] + h[i]
    <3>1. /\ i \in 0..n /\ i - 1 \in 0..n
          /\ p[i] = p[i - 1] + f[i] /\ q[i] = q[i - 1] + g[i]
          /\ p[i - 1] \in Int /\ q[i - 1] \in Int /\ f[i] \in Int /\ g[i] \in Int
      BY <1>1, <1>2 DEF IsRunningTotal
    <3> QED BY <3>1
  <2> HIDE DEF s, h
  <2> QED BY <2>1, <2>2 DEF IsRunningTotal
<1>5. PICK r : IsRunningTotal(r, h, n) /\ SumTo(h, n) = r[n]
  <2> HIDE DEF h
  <2> QED BY <1>3, SumToIsRunningTotal
<1>6. r = s
  <2> HIDE DEF s, h
  <2> QED BY <1>4, <1>5, RunningTotalUnique
<1> QED BY <1>1, <1>2, <1>3, <1>5, <1>6

-----------------------------------------------------------------------------
(* Totals over sets *)

\* p holds the total of f over every subset of S, whatever element is taken
\* first.
IsSetTotal(p, f, S) ==
  /\ p \in [SUBSET S -> Int]
  /\ p[{}] = 0
  /\ \A T \in SUBSET S : \A x \in T : p[T] = f[x] + p[T \ {x}]

\* Every finite set of rows has its totals ...
LEMMA SetTotalExists ==
  ASSUME NEW S, IsFiniteSet(S), NEW f, \A x \in S : f[x] \in Int
  PROVE  \E p : IsSetTotal(p, f, S)
<1> DEFINE Without == {T \in SUBSET S : ~ \E p : IsSetTotal(p, f, T)}
           Sizes   == {Cardinality(T) : T \in Without}
<1> SUFFICES ASSUME Without # {} PROVE FALSE
  <2>1. S \in SUBSET S
    OBVIOUS
  <2> QED BY <2>1, Zenon
<1>1. \A T \in SUBSET S : IsFiniteSet(T) /\ Cardinality(T) \in Nat
  BY FS_Subset, FS_CardinalityType
<1>2. PICK U \in Without : \A T \in Without : Cardinality(U) <= Cardinality(T)
  <2>1. Sizes \subseteq Nat /\ Sizes # {}
    BY <1>1
  <2>2. PICK n \in Sizes : \A k \in Sizes : n <= k
    <3> HIDE DEF Sizes
    <3> QED BY <2>1, LeastNat, Zenon
  <2> QED BY <2>2
<1>3. U # {}
  <2>1. IsSetTotal([T \in SUBSET {} |-> 0], f, {})
    BY DEF IsSetTotal
  <2> QED BY <1>2, <2>1
<1>4. PICK x : x \in U
  BY <1>3
<1> DEFINE R == U \ {x}
<1>5. R \in SUBSET S /\ R \notin Without /\ U = R \cup {x} /\ x \notin R
  <2>1. Cardinality(R) = Cardinality(U) - 1
    BY <1>1, <1>2, <1>4, FS_RemoveElement
  <2> QED BY <1>1, <1>2, <1>4, <2>1
<1>6. PICK p : IsSetTotal(p, f, R)
  <2> HIDE DEF R
  <2> QED BY <1>5, Zenon
<1> DEFINE q == [T \in SUBSET U |-> IF x \in T THEN f[x] + p[T \ {x}] ELSE p[T]]
<1>7. f[x] \in Int
  BY <1>2, <1>4
<1>8. \A T \in SUBSET U : T \ {x} \in SUBSET R /\ (x \notin T => T \in SUBSET R)
  OBVIOUS
<1>9. q \in [SUBSET U -> Int] /\ q[{}] = 0
  BY <1>6, <1>7, <1>8 DEF IsSetTotal
<1>10. ASSUME NEW T \in SUBSET U, NEW y \in T
       PROVE  q[T] = f[y] + q[T \ {y}]
  <2>0. T \ {y} \in SUBSET U
    OBVIOUS
  <2>1. CASE y = x
    <3>1. q[T] = f[x] + p[T \ {x}] /\ q[T \ {y}] = p[T \ {x}]
      BY <2>0, <2>1
    <3> HIDE DEF q
    <3> QED BY <2>1, <3>1
  <2>2. CASE y # x /\ x \in T
    <3> DEFINE rest == p[(T \ {x}) \ {y}]
    <3>1. /\ q[T] = f[x] + p[T \ {x}]
          /\ q[T \ {y}] = f[x] + p[(T \ {y}) \ {x}]
      BY <2>0, <2>2
    <3>2. /\ (T \ {y}) \ {x} = (T \ {x}) \ {y}
          /\ T \ {x} \in SUBSET R /\ (T \ {x}) \ {y} \in SUBSET R /\ y \in T \ {x}
      BY <2>2
    <3>3. p[T \ {x}] = f[y] + p[(T \ {x}) \ {y}]
      <4> HIDE DEF R
      <4> QED BY <3>2, <1>6 DEF IsSetTotal
    <3>4. f[y] \in Int /\ rest \in Int
      <4>1. y \in S
        BY <1>2
      <4> HIDE DEF R
      <4> QED BY <4>1, <3>2, <1>6 DEF IsSetTotal
    <3>5. q[T] = f[x] + (f[y] + rest) /\ q[T \ {y}] = f[x] + rest
      <4> HIDE DEF q
      <4> QED BY <3>1, <3>2, <3>3
    <3> HIDE DEF q, rest
    <3> QED BY <3>5, <3>4, <1>7
  <2>3. CASE x \notin T
    <3>1. q[T] = p[T] /\ q[T \ {y}] = p[T \ {y}] /\ T \in SUBSET R
      BY <2>0, <2>3
    <3> HIDE DEF q, R
    <3> QED BY <3>1, <1>6 DEF IsSetTotal
  <2> QED BY <2>1, <2>2, <2>3
<1>11. IsSetTotal(q, f, U)
  <2> HIDE DEF q
  <2> QED BY <1>9, <1>10 DEF IsSetTotal
<1> QED BY <1>11, <1>2

\* ... and the fold of the library computes them.
LEMMA SumIsSetTotal ==
  ASSUME NEW S, IsFiniteSet(S), NEW f, NEW p, IsSetTotal(p, f, S)
  PROVE  SumFunctionOnSet(f, S) = p[S]
<1> DEFINE First(T) == CHOOSE x \in T : TRUE
           Step(g)  == [T \in SUBSET S |-> IF T = {} THEN 0 ELSE f[First(T)] + g[T \ {First(T)}]]
           c        == CHOOSE g : g = Step(g)
<1>1. SumFunctionOnSet(f, S) = c[S]
  BY DEF SumFunctionOnSet, FoldFunctionOnSet, MapThenFoldSet
<1>2. \A T \in SUBSET S : T # {} => First(T) \in T
  OBVIOUS
<1> HIDE DEF First
<1>3. p = Step(p)
  <2>1. \A T \in SUBSET S : p[T] = IF T = {} THEN 0 ELSE f[First(T)] + p[T \ {First(T)}]
    BY <1>2 DEF IsSetTotal
  <2>2. p = [T \in SUBSET S |-> p[T]]
    BY DEF IsSetTotal
  <2> QED BY <2>1, <2>2
<1>4. c = Step(c)
  <2> HIDE DEF Step
  <2> QED BY <1>3
<1> HIDE DEF c
<1> DEFINE Wrong == {T \in SUBSET S : c[T] # p[T]}
           Sizes == {Cardinality(T) : T \in Wrong}
<1>5. \A T \in SUBSET S : IsFiniteSet(T) /\ Cardinality(T) \in Nat
  BY FS_Subset, FS_CardinalityType
<1>6. ASSUME Wrong # {} PROVE FALSE
  <2>1. PICK U \in Wrong : \A T \in Wrong : Cardinality(U) <= Cardinality(T)
    <3>1. Sizes \subseteq Nat /\ Sizes # {}
      BY <1>5, <1>6
    <3>2. PICK n \in Sizes : \A k \in Sizes : n <= k
      <4> HIDE DEF Sizes
      <4> QED BY <3>1, LeastNat, Zenon
    <3> QED BY <3>2
  <2>2. U # {}
    BY <1>4, <2>1 DEF IsSetTotal
  <2> DEFINE R == U \ {First(U)}
  <2>3. R \in SUBSET S /\ R \notin Wrong
    <3>1. Cardinality(R) = Cardinality(U) - 1
      BY <1>2, <1>5, <2>1, <2>2, FS_RemoveElement
    <3> QED BY <1>5, <2>1, <3>1
  <2>4. c[R] = p[R]
    BY <2>3
  <2>5. c[U] = f[First(U)] + c[R]
    BY <1>4, <2>1, <2>2
  <2>6. p[U] = f[First(U)] + p[R]
    BY <1>3, <2>1, <2>2
  <2> QED BY <2>1, <2>4, <2>5, <2>6
<1>7. c[S] = p[S]
  BY <1>6
<1> QED BY <1>1, <1>7

\* What the totals of S say of a part of it, and of rows that agree with its.
LEMMA SetTotalOfPart ==
  ASSUME NEW S, NEW f, NEW g, NEW p, IsSetTotal(p, f, S), NEW T \in SUBSET S,
         \A x \in T : g[x] = f[x]
  PROVE  \E q : IsSetTotal(q, g, T) /\ q[T] = p[T]
<1> DEFINE q == [U \in SUBSET T |-> p[U]]
<1>1. q \in [SUBSET T -> Int] /\ q[{}] = 0
  BY DEF IsSetTotal
<1>2. ASSUME NEW U \in SUBSET T, NEW x \in U PROVE q[U] = g[x] + q[U \ {x}]
  BY DEF IsSetTotal
<1>3. q[T] = p[T]
  OBVIOUS
<1> HIDE DEF q
<1>4. IsSetTotal(q, g, T)
  BY <1>1, <1>2 DEF IsSetTotal
<1> QED BY <1>3, <1>4

\* A total of integers is one, and is that of any row and of all others.
LEMMA SumSplit ==
  ASSUME NEW S, IsFiniteSet(S), NEW f, \A x \in S : f[x] \in Int
  PROVE  /\ SumFunctionOnSet(f, S) \in Int
         /\ S = {} => SumFunctionOnSet(f, S) = 0
         /\ \A x \in S : /\ SumFunctionOnSet(f, S \ {x}) \in Int
                         /\ SumFunctionOnSet(f, S) = f[x] + SumFunctionOnSet(f, S \ {x})
<1>1. PICK p : IsSetTotal(p, f, S)
  BY SetTotalExists
<1>2. \A T \in SUBSET S : SumFunctionOnSet(f, T) = p[T]
  <2> TAKE T \in SUBSET S
  <2>1. PICK q : IsSetTotal(q, f, T) /\ q[T] = p[T]
    BY <1>1, SetTotalOfPart
  <2> QED BY <2>1, FS_Subset, SumIsSetTotal
<1>3. S \in SUBSET S /\ \A x \in S : S \ {x} \in SUBSET S
  OBVIOUS
<1>4. /\ p[S] \in Int
      /\ S = {} => p[S] = 0
      /\ \A x \in S : p[S \ {x}] \in Int /\ p[S] = f[x] + p[S \ {x}]
  BY <1>1, <1>3 DEF IsSetTotal
<1> QED BY <1>2, <1>3, <1>4

\* Equal rows have equal totals.
LEMMA SumCongruent ==
  ASSUME NEW S, IsFiniteSet(S), NEW f, NEW g, \A x \in S : f[x] \in Int /\ g[x] = f[x]
  PROVE  SumFunctionOnSet(g, S) = SumFunctionOnSet(f, S)
<1>1. PICK p : IsSetTotal(p, f, S)
  BY SetTotalExists
<1>2. PICK q : IsSetTotal(q, g, S) /\ q[S] = p[S]
  <2>1. S \in SUBSET S
    OBVIOUS
  <2> QED BY <1>1, <2>1, SetTotalOfPart
<1> QED BY <1>1, <1>2, SumIsSetTotal

\* From the rows f on S to the rows g on T, row x was changed, added or taken
\* away.
ChangesAt(x, f, S, g, T) ==
  /\ IsFiniteSet(S) /\ \A y \in S : f[y] \in Int
  /\ IsFiniteSet(T) /\ \A y \in T : g[y] \in Int
  /\ S \ {x} = T \ {x} /\ \A y \in S \ {x} : g[y] = f[y]

\* The total changes by that row.
LEMMA SumChange ==
  ASSUME NEW x, NEW f, NEW S, NEW g, NEW T, ChangesAt(x, f, S, g, T)
  PROVE  /\ SumFunctionOnSet(f, S) \in Int
         /\ SumFunctionOnSet(g, T) = SumFunctionOnSet(f, S) - (IF x \in S THEN f[x] ELSE 0)
                                                            + (IF x \in T THEN g[x] ELSE 0)
<1>0. /\ IsFiniteSet(S) /\ \A y \in S : f[y] \in Int
      /\ IsFiniteSet(T) /\ \A y \in T : g[y] \in Int
      /\ S \ {x} = T \ {x} /\ \A y \in S \ {x} : g[y] = f[y]
  BY DEF ChangesAt
<1> DEFINE R == S \ {x}
<1>1. IsFiniteSet(R) /\ \A y \in R : f[y] \in Int /\ g[y] = f[y]
  BY <1>0, FS_RemoveElement
<1>2. SumFunctionOnSet(g, R) = SumFunctionOnSet(f, R) /\ SumFunctionOnSet(f, R) \in Int
  <2> HIDE DEF R
  <2> QED BY <1>1, SumCongruent, SumSplit
<1>3. /\ SumFunctionOnSet(f, S) = SumFunctionOnSet(f, R) + (IF x \in S THEN f[x] ELSE 0)
      /\ SumFunctionOnSet(f, S) \in Int
  <2>1. CASE x \in S
    <3>1. /\ SumFunctionOnSet(f, S) \in Int
          /\ SumFunctionOnSet(f, S) = f[x] + SumFunctionOnSet(f, S \ {x})
      BY <1>0, <2>1, SumSplit
    <3>2. R = S \ {x} /\ f[x] \in Int
      BY <1>0, <2>1
    <3> HIDE DEF R
    <3> QED BY <2>1, <3>1, <3>2, <1>2
  <2>2. CASE x \notin S
    <3>1. R = S
      BY <2>2
    <3> HIDE DEF R
    <3> QED BY <2>2, <3>1, <1>2
  <2> QED BY <2>1, <2>2
<1>4. SumFunctionOnSet(g, T) = SumFunctionOnSet(g, R) + (IF x \in T THEN g[x] ELSE 0)
  <2>1. CASE x \in T
    <3>1. /\ SumFunctionOnSet(g, T) \in Int
          /\ SumFunctionOnSet(g, T) = g[x] + SumFunctionOnSet(g, T \ {x})
      BY <1>0, <2>1, SumSplit
    <3>2. R = T \ {x} /\ g[x] \in Int
      BY <1>0, <2>1
    <3> HIDE DEF R
    <3> QED BY <2>1, <3>1, <3>2, <1>2
  <2>2. CASE x \notin T
    <3>1. R = T
      BY <1>0, <2>2
    <3> HIDE DEF R
    <3> QED BY <2>2, <3>1, <1>2
  <2> QED BY <2>1, <2>2
<1>5. (x \in S => f[x] \in Int) /\ (x \in T => g[x] \in Int)
  BY <1>0
<1> HIDE DEF R
<1> QED BY <1>2, <1>3, <1>4, <1>5
=============================================================================
