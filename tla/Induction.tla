----------------------------- MODULE Induction -----------------------------
(* Induction without an operator parameter: the least element of a set of  *)
(* numbers, induction on a set of numbers, and what follows from them for  *)
(* sums, for division and for the sorting algorithms of Sorting.           *)
EXTENDS Sorting, Functions, FiniteSetTheorems, WellFoundedInduction, TLAPS

\* Every set of naturals with an element has a least one.
LEMMA LeastNat ==
    ASSUME NEW A \in SUBSET Nat, A # {}
    PROVE  \E m \in A : \A k \in A : m <= k
<1> DEFINE R == OpToRel(<, Nat)
<1>1. IsWellFoundedOn(R, Nat)
  BY NatLessThanWellFounded
<1>2. PICK m \in A : \A y \in A : ~ (<<y, m>> \in R)
  <2> HIDE DEF R
  <2> QED
    BY <1>1, WFMin
<1>3. \A x, y \in Nat : y < x => <<y, x>> \in R
  BY DEF OpToRel
<1> HIDE DEF R
<1>4. \A k \in A : ~ (k < m)
  BY <1>2, <1>3
<1>5. \A k \in A : m <= k
  BY <1>4
<1> QED
  BY <1>5

\* Induction, stated of a set.
LEMMA SetInduction ==
    ASSUME NEW P, 0 \in P, \A n \in Nat : n \in P => n + 1 \in P
    PROVE  Nat \subseteq P
<1>1. SUFFICES ASSUME ~ (Nat \subseteq P) PROVE FALSE
  OBVIOUS
<1> DEFINE A == {n \in Nat : n \notin P}
<1>2. A \in SUBSET Nat /\ A # {}
  BY <1>1
<1>3. PICK m \in A : \A k \in A : m <= k
  BY <1>2, LeastNat
<1>4. m \in Nat /\ m # 0
  BY <1>3
<1>5. m - 1 \in Nat /\ m - 1 \notin A
  BY <1>3, <1>4
<1> QED
  BY <1>3, <1>4, <1>5

-----------------------------------------------------------------------------
(* Recursive functions on 0..n                                             *)

Recursion(f, n, T, base, step) ==
    /\ f \in [0..n -> T]
    /\ f[0] = base
    /\ \A i \in 1..n : f[i] = step[i][f[i - 1]]

\* A function defined by recursion on 0..n exists.
LEMMA RecursionExists ==
    ASSUME NEW n \in Nat, NEW T, NEW base \in T, NEW step \in [1..n -> [T -> T]]
    PROVE  \E f : Recursion(f, n, T, base, step)
<1> DEFINE P == {k \in Nat : k <= n => \E f \in [0..k -> T] :
                                /\ f[0] = base
                                /\ \A i \in 1..k : f[i] = step[i][f[i - 1]]}
<1>1. 0 \in P
  <2> DEFINE f == [i \in 0..0 |-> base]
  <2>1. f \in [0..0 -> T] /\ f[0] = base /\ 1..0 = {}
    OBVIOUS
  <2> QED
    BY <2>1
<1>2. ASSUME NEW k \in Nat, k \in P PROVE k + 1 \in P
  <2> SUFFICES ASSUME k + 1 <= n
               PROVE  \E f \in [0..k + 1 -> T] :
                         /\ f[0] = base
                         /\ \A i \in 1..k + 1 : f[i] = step[i][f[i - 1]]
    OBVIOUS
  <2>1. PICK g \in [0..k -> T] : /\ g[0] = base
                                 /\ \A i \in 1..k : g[i] = step[i][g[i - 1]]
    BY <1>2
  <2> DEFINE f == [i \in 0..k + 1 |-> IF i = k + 1 THEN step[k + 1][g[k]] ELSE g[i]]
  <2>2. step[k + 1][g[k]] \in T
    BY <2>1
  <2>3. f \in [0..k + 1 -> T]
    BY <2>1, <2>2
  <2>4. f[0] = base
    BY <2>1
  <2>5. ASSUME NEW i \in 1..k + 1 PROVE f[i] = step[i][f[i - 1]]
    <3>1. f[i - 1] = g[i - 1]
      OBVIOUS
    <3>2. CASE i = k + 1
      <4>1. i - 1 = k /\ f[i] = step[k + 1][g[k]]
        BY <3>2
      <4>2. f[i - 1] = g[k]
        BY <3>1, <4>1
      <4> HIDE DEF f
      <4> QED
        BY <3>2, <4>1, <4>2
    <3>3. CASE i # k + 1
      <4>1. i \in 1..k
        BY <3>3
      <4> QED
        BY <2>1, <3>1, <3>3, <4>1
    <3> QED
      BY <3>2, <3>3
  <2> QED
    BY <2>3, <2>4, <2>5
<1>3. Nat \subseteq P
  <2> HIDE DEF P
  <2> QED
    BY <1>1, <1>2, SetInduction
<1> QED
  BY <1>3 DEF Recursion

-----------------------------------------------------------------------------
(* SumFunction                                                             *)

AnyOf(s) == CHOOSE x \in s : TRUE

\* h adds f up over the subsets of S of at most n elements.
Adds(h, f, S, n) ==
    h = [s \in {u \in SUBSET S : Cardinality(u) <= n} |->
            IF s = {} THEN 0 ELSE f[AnyOf(s)] + h[s \ {AnyOf(s)}]]

\* Adding up recursively over the subsets of a finite set is well-founded.
LEMMA AddsExists ==
    ASSUME NEW S, IsFiniteSet(S), NEW f, NEW n \in Nat
    PROVE  \E h : Adds(h, f, S, n)
<1> DEFINE P == {k \in Nat : \E h : Adds(h, f, S, k)}
           D(k) == {u \in SUBSET S : Cardinality(u) <= k}
<1>1. \A s \in SUBSET S : /\ IsFiniteSet(s)
                          /\ Cardinality(s) \in Nat
                          /\ Cardinality(s) = 0 <=> s = {}
  BY FS_Subset, FS_CardinalityType, FS_EmptySet
<1>2. \A s \in SUBSET S : s # {} =>
        /\ AnyOf(s) \in s
        /\ s \ {AnyOf(s)} \in SUBSET S
        /\ Cardinality(s \ {AnyOf(s)}) = Cardinality(s) - 1
  BY <1>1, FS_RemoveElement DEF AnyOf
<1>3. 0 \in P
  <2> DEFINE h == [s \in D(0) |-> 0]
  <2>1. \A s \in D(0) : s = {}
    BY <1>1
  <2>2. Adds(h, f, S, 0)
    BY <2>1 DEF Adds
  <2> QED
    BY <2>2
<1>4. ASSUME NEW k \in Nat, k \in P PROVE k + 1 \in P
  <2>1. PICK g : Adds(g, f, S, k)
    BY <1>4
  <2> DEFINE V(s) == IF s = {} THEN 0 ELSE f[AnyOf(s)] + g[s \ {AnyOf(s)}]
             h == [s \in D(k + 1) |-> V(s)]
  <2>2. \A s \in D(k + 1) : s # {} => s \ {AnyOf(s)} \in D(k) /\ s \ {AnyOf(s)} \in D(k + 1)
    BY <1>1, <1>2
  <2>3. \A s \in D(k) : s \in D(k + 1) /\ g[s] = V(s)
    <3>1. \A s \in D(k) : s \in D(k + 1)
      BY <1>1
    <3>2. g = [s \in D(k) |-> V(s)]
      BY <2>1 DEF Adds
    <3> QED
      BY ONLY <3>1, <3>2
  <2>4. \A s \in D(k) : h[s] = g[s]
    BY <2>3
  <2>5. \A s \in D(k + 1) : V(s) = IF s = {} THEN 0 ELSE f[AnyOf(s)] + h[s \ {AnyOf(s)}]
    BY <2>2, <2>4
  <2>6. h = [s \in D(k + 1) |-> IF s = {} THEN 0 ELSE f[AnyOf(s)] + h[s \ {AnyOf(s)}]]
    <3> HIDE DEF V
    <3> QED
      BY <2>5
  <2>7. Adds(h, f, S, k + 1)
    BY ONLY <2>6 DEF Adds
  <2> QED
    BY <2>7
<1>5. Nat \subseteq P
  <2> HIDE DEF P
  <2> QED
    BY <1>3, <1>4, SetInduction
<1> QED
  BY <1>5

\* The value of a sum is that of its recursive definition.
LEMMA SumIs ==
    ASSUME NEW S, IsFiniteSet(S), NEW f \in [S -> Nat]
    PROVE  \E h : /\ h = [s \in SUBSET S |->
                            IF s = {} THEN 0 ELSE f[AnyOf(s)] + h[s \ {AnyOf(s)}]]
                  /\ SumFunction(f) = h[S]
<1>1. \A s \in SUBSET S : Cardinality(s) \in Nat /\ Cardinality(s) <= Cardinality(S)
  BY FS_Subset, FS_CardinalityType
<1>2. {u \in SUBSET S : Cardinality(u) <= Cardinality(S)} = SUBSET S
  BY <1>1
<1>3. Cardinality(S) \in Nat
  BY <1>1
<1>4. \E h : h = [s \in SUBSET S |-> IF s = {} THEN 0 ELSE f[AnyOf(s)] + h[s \ {AnyOf(s)}]]
  <2>1. PICK g : Adds(g, f, S, Cardinality(S))
    BY <1>3, AddsExists
  <2> QED
    BY <1>2, <2>1 DEF Adds
<1> DEFINE h == CHOOSE g : g = [s \in SUBSET S |->
                              IF s = {} THEN 0 ELSE f[AnyOf(s)] + g[s \ {AnyOf(s)}]]
<1>5. h = [s \in SUBSET S |-> IF s = {} THEN 0 ELSE f[AnyOf(s)] + h[s \ {AnyOf(s)}]]
  BY <1>4
<1>6. SumFunction(f) = h[S]
  BY DEF SumFunction, SumFunctionOnSet, FoldFunctionOnSet, MapThenFoldSet, AnyOf
<1> QED
  BY <1>5, <1>6

\* A sum whose terms differ by d in one place differs by d.
THEOREM SumChanges ==
    ASSUME NEW S, IsFiniteSet(S), NEW f \in [S -> Nat], NEW g \in [S -> Nat],
           NEW a \in S, \A x \in S \ {a} : g[x] = f[x]
    PROVE  /\ SumFunction(f) \in Nat
           /\ SumFunction(g) \in Nat
           /\ SumFunction(g) - SumFunction(f) = g[a] - f[a]
<1>1. PICK h : /\ h = [s \in SUBSET S |-> IF s = {} THEN 0 ELSE f[AnyOf(s)] + h[s \ {AnyOf(s)}]]
               /\ SumFunction(f) = h[S]
  BY SumIs
<1>2. PICK e : /\ e = [s \in SUBSET S |-> IF s = {} THEN 0 ELSE g[AnyOf(s)] + e[s \ {AnyOf(s)}]]
               /\ SumFunction(g) = e[S]
  BY SumIs
<1>3. \A s \in SUBSET S : IsFiniteSet(s) /\ Cardinality(s) \in Nat
  BY FS_Subset, FS_CardinalityType
<1>4. \A s \in SUBSET S : s # {} =>
        /\ AnyOf(s) \in s
        /\ s \ {AnyOf(s)} \in SUBSET S
        /\ Cardinality(s \ {AnyOf(s)}) = Cardinality(s) - 1
  BY <1>3, FS_RemoveElement DEF AnyOf
<1> DEFINE Q(s) == /\ h[s] \in Nat /\ e[s] \in Nat
                   /\ e[s] - h[s] = IF a \in s THEN g[a] - f[a] ELSE 0
           P == {n \in Nat : \A s \in SUBSET S : Cardinality(s) = n => Q(s)}
<1>5. 0 \in P
  <2>1. \A s \in SUBSET S : Cardinality(s) = 0 => s = {}
    BY <1>3, FS_EmptySet
  <2>2. h[{}] = 0 /\ e[{}] = 0
    BY <1>1, <1>2
  <2>3. Q({})
    BY <2>2
  <2> HIDE DEF Q
  <2> QED
    BY <2>1, <2>3
<1>6. ASSUME NEW n \in Nat, n \in P PROVE n + 1 \in P
  <2> SUFFICES ASSUME NEW s \in SUBSET S, Cardinality(s) = n + 1 PROVE Q(s)
    OBVIOUS
  <2> DEFINE p == AnyOf(s)
             r == s \ {p}
  <2>1. s # {}
    BY FS_EmptySet
  <2>2. p \in s /\ r \in SUBSET S /\ Cardinality(r) = n
    BY <1>4, <2>1
  <2>3. Q(r)
    <3> HIDE DEF Q, r
    <3> QED
      BY <1>6, <2>2
  <2>4. h[s] = f[p] + h[r] /\ e[s] = g[p] + e[r]
    BY <1>1, <1>2, <2>1
  <2>5. f[p] \in Nat /\ g[p] \in Nat
    BY <2>2
  <2>6. CASE p = a
    <3>1. a \in s /\ a \notin r
      BY <2>2, <2>6
    <3> HIDE DEF p, r
    <3> QED
      BY <2>3, <2>4, <2>5, <2>6, <3>1
  <2>7. CASE p # a
    <3>1. a \in s <=> a \in r
      BY <2>7
    <3>2. g[p] = f[p]
      BY <2>2, <2>7
    <3>3. f[a] \in Nat /\ g[a] \in Nat
      OBVIOUS
    <3> HIDE DEF p, r
    <3> QED
      BY <2>3, <2>4, <2>5, <3>1, <3>2, <3>3
  <2> QED
    BY <2>6, <2>7
<1>7. Nat \subseteq P
  <2> HIDE DEF P
  <2> QED
    BY <1>5, <1>6, SetInduction
<1>8. Q(S)
  <2> HIDE DEF Q
  <2> QED
    BY <1>3, <1>7
<1> QED
  BY <1>1, <1>2, <1>8

\* A sum of nothing but zeros is zero.
LEMMA SumZero ==
    ASSUME NEW S, IsFiniteSet(S), NEW f \in [S -> Nat], \A x \in S : f[x] = 0
    PROVE  SumFunction(f) = 0
<1>1. PICK h : /\ h = [s \in SUBSET S |-> IF s = {} THEN 0 ELSE f[AnyOf(s)] + h[s \ {AnyOf(s)}]]
               /\ SumFunction(f) = h[S]
  BY SumIs
<1>2. \A s \in SUBSET S : IsFiniteSet(s) /\ Cardinality(s) \in Nat
  BY FS_Subset, FS_CardinalityType
<1>3. \A s \in SUBSET S : s # {} =>
        /\ AnyOf(s) \in s
        /\ s \ {AnyOf(s)} \in SUBSET S
        /\ Cardinality(s \ {AnyOf(s)}) = Cardinality(s) - 1
  BY <1>2, FS_RemoveElement DEF AnyOf
<1> DEFINE P == {n \in Nat : \A s \in SUBSET S : Cardinality(s) = n => h[s] = 0}
<1>4. 0 \in P
  <2>1. \A s \in SUBSET S : Cardinality(s) = 0 => s = {}
    BY <1>2, FS_EmptySet
  <2>2. h[{}] = 0
    BY <1>1
  <2> QED
    BY <2>1, <2>2
<1>5. ASSUME NEW n \in Nat, n \in P PROVE n + 1 \in P
  <2> SUFFICES ASSUME NEW s \in SUBSET S, Cardinality(s) = n + 1 PROVE h[s] = 0
    OBVIOUS
  <2>1. s # {}
    BY FS_EmptySet
  <2>2. /\ AnyOf(s) \in S
        /\ s \ {AnyOf(s)} \in SUBSET S
        /\ Cardinality(s \ {AnyOf(s)}) = n
    BY <1>3, <2>1
  <2>3. h[s \ {AnyOf(s)}] = 0
    BY <1>5, <2>2
  <2>4. h[s] = f[AnyOf(s)] + h[s \ {AnyOf(s)}]
    BY <1>1, <2>1
  <2> QED
    BY <2>2, <2>3, <2>4
<1>6. Nat \subseteq P
  <2> HIDE DEF P
  <2> QED
    BY <1>4, <1>5, SetInduction
<1> QED
  BY <1>1, <1>2, <1>6

-----------------------------------------------------------------------------
(* Division                                                                *)

\* Quotient and remainder, with their types.
LEMMA DivMod ==
    ASSUME NEW b \in Nat, b > 0, NEW d \in Nat
    PROVE  /\ d \div b \in Nat /\ b * (d \div b) \in Nat
           /\ d % b \in 0..(b - 1)
           /\ d % b = d - b * (d \div b)
<1>1. d % b = d - b * (d \div b)
  OBVIOUS
<1>2. d % b \in 0..(b - 1)
  OBVIOUS
<1>3. d \div b \in Nat
  OBVIOUS
<1>4. b * (d \div b) \in Nat
  BY <1>3
<1> QED
  BY <1>1, <1>2, <1>3, <1>4

\* A larger number has no smaller quotient.
LEMMA DivGrows ==
    ASSUME NEW b \in Nat, b > 0, NEW n \in Nat, NEW m \in Nat, n <= m
    PROVE  n \div b <= m \div b
<1> DEFINE a == n \div b
           c == m \div b
<1>1. a \in Nat /\ c \in Nat
  OBVIOUS
<1>2. n >= b * a /\ m < b * c + b
  <2>1. n >= b * a OBVIOUS
  <2>2. m < b * c + b OBVIOUS
  <2> QED BY <2>1, <2>2
<1> HIDE DEF a, c
<1>3. a > c => b * a >= b * c + b
  BY <1>1
<1>4. b * a \in Nat /\ b * c \in Nat
  BY <1>1
<1>5. ~(a > c)
  <2> DEFINE x == b * a
             y == b * c
  <2> HIDE DEF x, y
  <2>1. a > c => x >= y + b
    BY <1>3 DEF x, y
  <2>2. n >= x /\ m < y + b /\ x \in Nat /\ y \in Nat
    BY <1>2, <1>4 DEF x, y
  <2> QED
    BY <2>1, <2>2
<1> QED
  BY <1>1, <1>5 DEF a, c

\* Dividing twice is dividing by the product.
LEMMA DivDiv ==
    ASSUME NEW b \in Nat, b > 0, NEW q \in Nat, q > 0, NEW n \in Nat
    PROVE  (n \div q) \div b = n \div (b * q)
  OBVIOUS

\* A multiple of b and less than b more.
LEMMA DivOfSum ==
    ASSUME NEW b \in Nat, b > 0, NEW q \in Nat, NEW r \in 0..(b - 1)
    PROVE  (q * b + r) \div b = q /\ (q * b + r) % b = r
<1> DEFINE x == q * b
           n == x + r
           d == n \div b
           e == n % b
           y == b * d
<1>1. x \in Nat
  OBVIOUS
<1>2. n \in Nat
  BY <1>1
<1>3. d \in Nat /\ y \in Nat /\ e \in 0..(b - 1) /\ e = n - y
  <2> HIDE DEF n
  <2> QED
    BY <1>2, DivMod
<1> HIDE DEF d, e
<1>4. /\ d > q => y >= x + b
      /\ d < q => x >= y + b
  BY <1>3
<1>5. d = q
  <2> HIDE DEF x, y
  <2> QED
    BY <1>1, <1>3, <1>4
<1>6. y = x
  BY <1>5
<1>7. e = r
  <2> HIDE DEF x, y
  <2> QED
    BY <1>1, <1>3, <1>6
<1> QED
  BY <1>5, <1>7 DEF d, e

\* The quotient of a number below q * b is below q.
LEMMA DivLess ==
    ASSUME NEW b \in Nat, b > 0, NEW q \in Nat, NEW n \in Nat, n < q * b
    PROVE  n \div b \in Nat /\ n \div b < q
<1> DEFINE d == n \div b
           x == q * b
           y == b * d
<1>1. d \in Nat /\ y \in Nat /\ n >= y
  <2>1. d \in Nat /\ y \in Nat /\ n % b = n - y /\ n % b \in 0..(b - 1)
    BY DivMod
  <2> HIDE DEF y, d
  <2> QED
    BY <2>1
<1> HIDE DEF d
<1>2. d >= q => y >= x
  BY <1>1
<1>3. x \in Nat /\ n < x
  OBVIOUS
<1>4. ~(d >= q)
  <2> HIDE DEF x, y
  <2> QED
    BY <1>1, <1>2, <1>3
<1>5. d \in Nat /\ d < q
  BY <1>1, <1>4
<1> QED
  BY <1>5 DEF d

-----------------------------------------------------------------------------
(* Sequences                                                               *)

\* A concatenation has the elements of the first, then those of the second.
LEMMA ConcatIs ==
    ASSUME NEW m \in Nat, NEW k \in Nat, NEW V, NEW s \in [1..m -> V], NEW t \in [1..k -> V]
    PROVE  /\ s \o t \in [1..(m + k) -> V]
           /\ \A b \in 1..m : (s \o t)[b] = s[b]
           /\ \A b \in 1..k : (s \o t)[m + b] = t[b]
<1>1. s \in Seq(V) /\ t \in Seq(V) /\ Len(s) = m /\ Len(t) = k
  OBVIOUS
<1>2. s \o t \in Seq(V) /\ Len(s \o t) = m + k
  BY <1>1
<1>3. \A b \in 1..m : (s \o t)[b] = s[b]
  BY <1>1
<1>4. \A b \in 1..k : (s \o t)[m + b] = t[b]
  BY <1>1
<1>5. s \o t \in [1..(m + k) -> V]
  <2> DEFINE u == s \o t
  <2>1. u \in Seq(V) /\ Len(u) = m + k
    BY <1>2
  <2> HIDE DEF u
  <2>2. u \in [1..Len(u) -> V]
    BY <2>1
  <2>3. u \in [1..(m + k) -> V]
    BY <2>1, <2>2
  <2> QED
    BY <2>3 DEF u
<1> QED
  BY <1>3, <1>4, <1>5

\* The first s values of a function and the next k are its first s + k.
LEMMA JoinIs ==
    ASSUME NEW s \in Nat, NEW k \in Nat, NEW V, NEW f \in [Nat -> V]
    PROVE  [b \in 1..s |-> f[b - 1]] \o [b \in 1..k |-> f[s + b - 1]]
             = [b \in 1..(s + k) |-> f[b - 1]]
<1> DEFINE x == [b \in 1..s |-> f[b - 1]]
           y == [b \in 1..k |-> f[s + b - 1]]
           z == x \o y
<1>1. x \in [1..s -> V] /\ y \in [1..k -> V]
  <2>1. /\ \A b \in 1..s : b - 1 \in Nat
        /\ \A b \in 1..k : s + b - 1 \in Nat
    OBVIOUS
  <2> QED
    BY <2>1
<1>2. /\ z \in [1..(s + k) -> V]
      /\ \A b \in 1..s : z[b] = x[b]
      /\ \A b \in 1..k : z[s + b] = y[b]
  <2> HIDE DEF x, y
  <2>1. x \o y \in [1..(s + k) -> V]
    BY <1>1, ConcatIs
  <2>2. \A b \in 1..s : (x \o y)[b] = x[b]
    BY <1>1, ConcatIs
  <2>3. \A b \in 1..k : (x \o y)[s + b] = y[b]
    BY <1>1, ConcatIs
  <2> QED
    BY <2>1, <2>2, <2>3
<1> HIDE DEF z
<1>3. \A b \in 1..(s + k) : z[b] = f[b - 1]
  <2> SUFFICES ASSUME NEW b \in 1..(s + k) PROVE z[b] = f[b - 1]
    OBVIOUS
  <2>1. CASE b <= s
    <3>1. b \in 1..s
      BY <2>1
    <3>2. z[b] = x[b] /\ x[b] = f[b - 1]
      BY <1>2, <3>1
    <3> QED
      BY <3>2
  <2>2. CASE ~(b <= s)
    <3> DEFINE c == b - s
    <3>1. c \in 1..k /\ b = s + c /\ s + c - 1 = b - 1
      BY <2>2
    <3>2. z[s + c] = y[c] /\ y[c] = f[s + c - 1]
      BY <1>2, <3>1
    <3> HIDE DEF c
    <3> QED
      BY <3>1, <3>2
  <2> QED
    BY <2>1, <2>2
<1>4. z = [b \in 1..(s + k) |-> f[b - 1]]
  BY <1>2, <1>3
<1> QED
  BY <1>4 DEF z

-----------------------------------------------------------------------------
(* Comparisons, and what it means to have sorted by one.                   *)

\* A comparison under which different elements may tie.
Weak(less, S) ==
    /\ \A a, b \in S : <<a, b>> \in less => <<b, a>> \notin less
    /\ \A a, b, c \in S : <<a, b>> \notin less /\ <<b, c>> \notin less => <<a, c>> \notin less

\* One under which they do not.
Linear(less, S) ==
    /\ \A a, b \in S : <<a, b>> \in less => <<b, a>> \notin less
    /\ \A a, b, c \in S : <<a, b>> \in less /\ <<b, c>> \in less => <<a, c>> \in less
    /\ \A a, b \in S : a # b => <<a, b>> \in less \/ <<b, a>> \in less

SortedBy(s, less) == \A i, j \in 1..Len(s) : i < j => <<s[i], s[j]>> \in less

Elems(s) == {s[i] : i \in 1..Len(s)}

Distinct(s) == \A i, j \in 1..Len(s) : i # j => s[i] # s[j]

\* out is s[q[1]], s[q[2]], ...: all of s[1], ..., s[n], sorted, ties in their old order.
Stable(out, s, q, n, less) ==
    /\ q \in [1..n -> 1..n]
    /\ \A v \in 1..n : \E i \in 1..n : q[i] = v
    /\ \A i \in 1..n : out[i] = s[q[i]]
    /\ \A i, j \in 1..n : i < j => /\ q[i] # q[j]
                                   /\ <<out[j], out[i]>> \notin less
                                   /\ <<out[i], out[j]>> \in less \/ q[i] < q[j]

\* Linear comparisons are weak ones.
LEMMA LinearIsWeak == ASSUME NEW S, NEW less, Linear(less, S) PROVE Weak(less, S)
<1>1. ASSUME NEW a \in S, NEW b \in S, NEW c \in S,
             <<a, b>> \notin less, <<b, c>> \notin less, <<a, c>> \in less
      PROVE  FALSE
  <2>1. CASE a = b
    BY <1>1, <2>1
  <2>2. CASE b = c
    BY <1>1, <2>2
  <2>3. CASE a # b /\ b # c
    <3>1. <<b, a>> \in less /\ <<c, b>> \in less
      BY <1>1, <2>3 DEF Linear
    <3>2. <<c, a>> \in less
      BY <3>1 DEF Linear
    <3> QED
      BY <1>1, <3>2 DEF Linear
  <2> QED
    BY <2>1, <2>2, <2>3
<1> QED
  BY <1>1 DEF Linear, Weak

\* A set of numbers up to n has a greatest element.
LEMMA GreatestUpTo ==
    ASSUME NEW n \in Nat, NEW A \in SUBSET (0..n), A # {}
    PROVE  \E m \in A : \A k \in A : k <= m
<1> DEFINE B == {k \in Nat : n - k \in A}
<1>1. B \in SUBSET Nat /\ B # {}
  <2>1. PICK a \in A : TRUE
    OBVIOUS
  <2>2. n - a \in Nat /\ n - (n - a) = a
    OBVIOUS
  <2> QED
    BY <2>1, <2>2
<1>2. PICK b \in B : \A k \in B : b <= k
  BY <1>1, LeastNat
<1>3. n - b \in A
  OBVIOUS
<1>4. ASSUME NEW k \in A PROVE k <= n - b
  <2>1. n - k \in Nat /\ n - (n - k) = k
    OBVIOUS
  <2>2. n - k \in B
    BY <1>4, <2>1
  <2>3. b <= n - k /\ b \in Nat /\ k \in Int
    <3> HIDE DEF B
    <3>1. b <= n - k
      BY <1>2, <2>2
    <3>2. b \in Nat /\ k \in Int
      BY <1>1, <1>2, <1>4
    <3> QED
      BY <3>1, <3>2
  <2> QED
    BY <2>3
<1> QED
  BY <1>3, <1>4

-----------------------------------------------------------------------------
(* Insertion sort.                                                         *)

\* Where x goes: everything behind is greater, and nothing before is.
LEMMA InsertedIs ==
    ASSUME NEW S, NEW less, NEW done \in Seq(S), NEW x \in S
    PROVE  \E at \in 0..Len(done) :
              /\ Inserted(done, x, less) =
                   [i \in 1..(Len(done) + 1) |-> IF i <= at THEN done[i]
                                                 ELSE IF i = at + 1 THEN x ELSE done[i - 1]]
              /\ at > 0 => <<x, done[at]>> \notin less
              /\ \A j \in 1..Len(done) : j > at => <<x, done[j]>> \in less
<1> DEFINE stop == {0} \cup {j \in 1..Len(done) : <<x, done[j]>> \notin less}
           at   == CHOOSE j \in stop : \A k \in stop : k <= j
<1>1. Len(done) \in Nat
  OBVIOUS
<1>2. stop \in SUBSET (0..Len(done)) /\ stop # {}
  BY <1>1
<1>3. \E m \in stop : \A k \in stop : k <= m
  BY <1>1, <1>2, GreatestUpTo
<1>4. at \in stop /\ \A k \in stop : k <= at
  BY <1>3
<1>5. at \in 0..Len(done)
  BY <1>2, <1>4
<1> HIDE DEF at
<1>6. at > 0 => <<x, done[at]>> \notin less
  BY <1>4
<1>7. ASSUME NEW j \in 1..Len(done), j > at PROVE <<x, done[j]>> \in less
  BY <1>4, <1>5, <1>7
<1>8. Inserted(done, x, less) =
        [i \in 1..(Len(done) + 1) |-> IF i <= at THEN done[i]
                                      ELSE IF i = at + 1 THEN x ELSE done[i - 1]]
  BY DEF Inserted, at
<1> QED
  BY <1>5, <1>6, <1>7, <1>8

\* One more element of s inserted.
LEMMA InsertStep ==
    ASSUME NEW S, NEW less, Weak(less, S), NEW s \in Seq(S),
           NEW n \in Nat, n + 1 <= Len(s),
           NEW done \in Seq(S), Len(done) = n, NEW q, Stable(done, s, q, n, less)
    PROVE  /\ Inserted(done, s[n + 1], less) \in Seq(S)
           /\ Len(Inserted(done, s[n + 1], less)) = n + 1
           /\ \E p : Stable(Inserted(done, s[n + 1], less), s, p, n + 1, less)
<1> DEFINE x == s[n + 1]
           out == Inserted(done, x, less)
<1>1. x \in S /\ \A i \in 1..n : done[i] \in S
  OBVIOUS
<1>2. PICK at \in 0..n :
         /\ out = [i \in 1..(n + 1) |-> IF i <= at THEN done[i]
                                        ELSE IF i = at + 1 THEN x ELSE done[i - 1]]
         /\ at > 0 => <<x, done[at]>> \notin less
         /\ \A j \in 1..n : j > at => <<x, done[j]>> \in less
  BY <1>1, InsertedIs
<1> DEFINE p == [i \in 1..(n + 1) |-> IF i <= at THEN q[i]
                                      ELSE IF i = at + 1 THEN n + 1 ELSE q[i - 1]]
<1>q. /\ q \in [1..n -> 1..n]
      /\ \A v \in 1..n : \E i \in 1..n : q[i] = v
      /\ \A i \in 1..n : done[i] = s[q[i]]
      /\ \A i, j \in 1..n : i < j => /\ q[i] # q[j]
                                     /\ <<done[j], done[i]>> \notin less
                                     /\ <<done[i], done[j]>> \in less \/ q[i] < q[j]
  BY DEF Stable
<1> HIDE DEF x, out
<1>3. \A i \in 1..(n + 1) : out[i] \in S
  BY <1>1, <1>2
<1>4. out \in [1..(n + 1) -> S]
  BY <1>2, <1>3
<1>5. out \in Seq(S) /\ Len(out) = n + 1
  BY <1>4
<1>6. \A i \in 1..n : i <= at => <<x, done[i]>> \notin less
  <2> SUFFICES ASSUME NEW i \in 1..n, i <= at PROVE <<x, done[i]>> \notin less
    OBVIOUS
  <2>1. CASE i = at
    BY <1>2, <2>1
  <2>2. CASE i < at
    <3>1. at \in 1..n /\ <<x, done[at]>> \notin less
      BY <1>2, <2>2
    <3>2. <<done[at], done[i]>> \notin less
      BY <1>q, <2>2, <3>1
    <3> QED
      BY <1>1, <3>1, <3>2 DEF Weak
  <2> QED
    BY <2>1, <2>2
<1>7. \A j \in 1..n : j > at => <<done[j], x>> \notin less
  BY <1>1, <1>2 DEF Weak
<1>8. p \in [1..(n + 1) -> 1..(n + 1)]
  <2> SUFFICES ASSUME NEW i \in 1..(n + 1) PROVE p[i] \in 1..(n + 1)
    OBVIOUS
  <2>1. CASE i <= at
    BY <1>q, <2>1
  <2>2. CASE i = at + 1
    BY <2>2
  <2>3. CASE i > at + 1
    <3>1. i - 1 \in 1..n
      BY <2>3
    <3> QED
      BY <1>q, <2>3, <3>1
  <2> QED
    BY <2>1, <2>2, <2>3
<1>9. ASSUME NEW v \in 1..(n + 1) PROVE \E i \in 1..(n + 1) : p[i] = v
  <2>1. CASE v = n + 1
    <3>1. at + 1 \in 1..(n + 1) /\ p[at + 1] = n + 1
      OBVIOUS
    <3> QED
      BY <2>1, <3>1
  <2>2. CASE v \in 1..n
    <3>1. PICK i \in 1..n : q[i] = v
      BY <1>q, <2>2
    <3>2. CASE i <= at
      BY <3>1, <3>2
    <3>3. CASE i > at
      <4>1. i + 1 \in 1..(n + 1) /\ i + 1 > at + 1 /\ (i + 1) - 1 = i
        BY <3>3
      <4>2. p[i + 1] = v
        BY <3>1, <4>1
      <4> QED
        BY <4>1, <4>2
    <3> QED
      BY <3>2, <3>3
  <2> QED
    BY <2>1, <2>2
<1>10. ASSUME NEW i \in 1..(n + 1) PROVE out[i] = s[p[i]]
  <2>1. CASE i <= at
    <3>1. i \in 1..n /\ out[i] = done[i] /\ p[i] = q[i]
      BY <1>2, <2>1
    <3>2. done[i] = s[q[i]]
      BY <1>q, <3>1
    <3> QED
      BY <3>1, <3>2
  <2>2. CASE i = at + 1
    BY <1>2, <2>2 DEF x
  <2>3. CASE i > at + 1
    <3> DEFINE j == i - 1
    <3>1. j \in 1..n /\ out[i] = done[j] /\ p[i] = q[j]
      BY <1>2, <2>3
    <3> HIDE DEF j, p
    <3>2. done[j] = s[q[j]]
      BY <1>q, <3>1
    <3> QED
      BY <3>1, <3>2
  <2> QED
    BY <2>1, <2>2, <2>3
<1>11. ASSUME NEW i \in 1..(n + 1), NEW j \in 1..(n + 1), i < j
       PROVE  /\ p[i] # p[j]
              /\ <<out[j], out[i]>> \notin less
              /\ <<out[i], out[j]>> \in less \/ p[i] < p[j]
  <2>1. CASE j <= at
    <3>1. /\ i \in 1..n /\ j \in 1..n
          /\ out[i] = done[i] /\ out[j] = done[j] /\ p[i] = q[i] /\ p[j] = q[j]
      BY <1>2, <1>11, <2>1
    <3> QED
      BY ZenonT(30), <1>11, <1>q, <3>1
  <2>2. CASE j = at + 1
    <3>1. /\ i \in 1..n /\ i <= at
          /\ out[i] = done[i] /\ out[j] = x /\ p[i] = q[i] /\ p[j] = n + 1
      BY <1>2, <1>11, <2>2
    <3>2. q[i] < n + 1
      BY <1>q, <3>1
    <3> QED
      BY <1>6, <3>1, <3>2
  <2>3. CASE j > at + 1 /\ i <= at
    <3>1. /\ i \in 1..n /\ j - 1 \in 1..n /\ i < j - 1
          /\ out[i] = done[i] /\ out[j] = done[j - 1] /\ p[i] = q[i] /\ p[j] = q[j - 1]
      BY <1>2, <1>11, <2>3
    <3>2. /\ q[i] # q[j - 1]
          /\ <<done[j - 1], done[i]>> \notin less
          /\ <<done[i], done[j - 1]>> \in less \/ q[i] < q[j - 1]
      BY <1>q, <3>1
    <3> QED
      BY <3>1, <3>2
  <2>4. CASE j > at + 1 /\ i = at + 1
    <3>1. /\ j - 1 \in 1..n /\ j - 1 > at
          /\ out[i] = x /\ out[j] = done[j - 1] /\ p[i] = n + 1 /\ p[j] = q[j - 1]
      BY <1>2, <1>11, <2>4
    <3>2. q[j - 1] < n + 1
      BY <1>q, <3>1
    <3> QED
      BY <1>2, <1>7, <3>1, <3>2
  <2>5. CASE j > at + 1 /\ i > at + 1
    <3>1. /\ i - 1 \in 1..n /\ j - 1 \in 1..n /\ i - 1 < j - 1
          /\ out[i] = done[i - 1] /\ out[j] = done[j - 1]
          /\ p[i] = q[i - 1] /\ p[j] = q[j - 1]
      BY <1>2, <1>11, <2>5
    <3> QED
      BY <1>q, <3>1
  <2> QED
    BY <2>1, <2>2, <2>3, <2>4, <2>5
<1>12. Stable(out, s, p, n + 1, less)
  <2> HIDE DEF p
  <2> QED
    BY <1>8, <1>9, <1>10, <1>11 DEF Stable
<1> QED
  BY <1>5, <1>12 DEF out, x

\* An insertion sort is stable, whatever the comparison.
THEOREM InsertionSortIs ==
    ASSUME NEW S, NEW less, Weak(less, S), NEW s \in Seq(S)
    PROVE  /\ InsertionSort(s, less) \in Seq(S)
           /\ Len(InsertionSort(s, less)) = Len(s)
           /\ \E q : Stable(InsertionSort(s, less), s, q, Len(s), less)
<1> DEFINE N == Len(s)
           G(f) == f = [n \in 0..N |-> IF n = 0 THEN <<>>
                                       ELSE Inserted(f[n - 1], s[n], less)]
           f == CHOOSE g : G(g)
           V(i, x) == Inserted(x, s[i], less)
           T == Seq(S)
           step == [i \in 1..N |-> [x \in T |-> V(i, x)]]
<1>1. N \in Nat /\ \A i \in 1..N : s[i] \in S
  OBVIOUS
<1>2. ASSUME NEW done \in T, NEW i \in 1..N PROVE V(i, done) \in T
  <2>0. done \in Seq(S) /\ s[i] \in S
    BY <1>1
  <2>1. PICK at \in 0..Len(done) :
         /\ Inserted(done, s[i], less) =
                   [j \in 1..(Len(done) + 1) |-> IF j <= at THEN done[j]
                                                 ELSE IF j = at + 1 THEN s[i] ELSE done[j - 1]]
         /\ at > 0 => <<s[i], done[at]>> \notin less
         /\ \A j \in 1..Len(done) : j > at => <<s[i], done[j]>> \in less
    <3> HIDE DEF V, T, step, f, G
    <3> QED
      BY <2>0, InsertedIs
  <2>2. ASSUME NEW j \in 1..(Len(done) + 1)
        PROVE  (IF j <= at THEN done[j] ELSE IF j = at + 1 THEN s[i] ELSE done[j - 1]) \in S
    BY <1>1
  <2>3. Inserted(done, s[i], less) \in [1..(Len(done) + 1) -> S]
    BY <2>1, <2>2
  <2> QED
    BY <2>3
<1>3. step \in [1..N -> [T -> T]]
  BY <1>2
<1>4. PICK h : Recursion(h, N, T, <<>>, step)
  <2> HIDE DEF step, T
  <2>1. <<>> \in T
    BY DEF T
  <2> QED
    BY <1>1, <1>3, <2>1, RecursionExists
<1>5. G(h)
  <2>1. /\ h \in [0..N -> T] /\ h[0] = <<>>
        /\ \A i \in 1..N : h[i] = step[i][h[i - 1]]
    BY <1>4 DEF Recursion
  <2>2. ASSUME NEW n \in 0..N
        PROVE  h[n] = IF n = 0 THEN <<>> ELSE Inserted(h[n - 1], s[n], less)
    <3>1. CASE n = 0
      BY <2>1, <3>1
    <3>2. CASE n # 0
      <4>1. n \in 1..N /\ n - 1 \in 0..N
        BY <3>2
      <4>2. h[n - 1] \in T /\ h[n] = step[n][h[n - 1]]
        BY <2>1, <4>1
      <4> QED
        BY <3>2, <4>1, <4>2
    <3> QED
      BY <3>1, <3>2
  <2> QED
    BY <2>1, <2>2
<1>6. G(f)
  BY <1>5
<1>7. InsertionSort(s, less) = f[N]
  BY DEF InsertionSort
<1> DEFINE Fine(n) == /\ f[n] \in Seq(S) /\ Len(f[n]) = n
                      /\ \E q : Stable(f[n], s, q, n, less)
           P == {n \in Nat : n <= N => Fine(n)}
<1>8. f[0] = <<>> /\ \A n \in 1..N : f[n] = Inserted(f[n - 1], s[n], less)
  <2> HIDE DEF f
  <2>1. ASSUME NEW n \in 1..N PROVE f[n] = Inserted(f[n - 1], s[n], less)
    <3>1. n \in 0..N /\ n # 0
      OBVIOUS
    <3> QED
      BY <1>6, <3>1
  <2>2. f[0] = <<>>
    BY <1>6, <1>1
  <2> QED
    BY <2>1, <2>2
<1> HIDE DEF f
<1>9. 0 \in P
  <2>1. f[0] \in Seq(S) /\ Len(f[0]) = 0
    BY <1>8
  <2>2. Stable(f[0], s, <<>>, 0, less)
    <3>1. <<>> \in [1..0 -> 1..0]
      OBVIOUS
    <3> QED
      BY <3>1 DEF Stable
  <2> QED
    BY <2>1, <2>2
<1>10. ASSUME NEW n \in Nat, n \in P PROVE n + 1 \in P
  <2> SUFFICES ASSUME n + 1 <= N PROVE Fine(n + 1)
    OBVIOUS
  <2>1. Fine(n)
    BY <1>10, <1>1
  <2>2. PICK q : Stable(f[n], s, q, n, less)
    BY <2>1
  <2>3. n + 1 \in 1..N /\ (n + 1) - 1 = n
    BY <1>1
  <2>4. f[n + 1] = Inserted(f[n], s[n + 1], less)
    BY <1>8, <2>3
  <2>5. f[n] \in Seq(S) /\ Len(f[n]) = n
    BY <2>1
  <2>6. /\ f[n + 1] \in Seq(S) /\ Len(f[n + 1]) = n + 1
        /\ \E p : Stable(f[n + 1], s, p, n + 1, less)
    BY <2>2, <2>4, <2>5, InsertStep
  <2> QED
    BY <2>6
<1>11. Nat \subseteq P
  <2> HIDE DEF P
  <2> QED
    BY <1>9, <1>10, SetInduction
<1>12. Fine(N)
  BY <1>1, <1>11
<1> QED
  BY <1>7, <1>12

\* T[i] holds of every f[i] when it holds at 0 and is handed on.
LEMMA HandedOn ==
    ASSUME NEW n \in Nat, NEW T, NEW f, f[0] \in T[0],
           \A i \in 1..n : f[i - 1] \in T[i - 1] => f[i] \in T[i]
    PROVE  \A i \in 0..n : f[i] \in T[i]
<1> DEFINE P == {k \in Nat : k <= n => f[k] \in T[k]}
<1>1. 0 \in P
  OBVIOUS
<1>2. ASSUME NEW k \in Nat, k \in P PROVE k + 1 \in P
  <2> SUFFICES ASSUME k + 1 <= n PROVE f[k + 1] \in T[k + 1]
    OBVIOUS
  <2>1. f[k] \in T[k] /\ k + 1 \in 1..n /\ (k + 1) - 1 = k
    BY <1>2
  <2> QED
    BY <2>1
<1>3. Nat \subseteq P
  <2> HIDE DEF P
  <2> QED
    BY <1>1, <1>2, SetInduction
<1> QED
  BY <1>3

\* f is defined by recursion on 0..n, within T.
Solves(f, n, T, base, step) ==
    /\ f = [i \in 0..n |-> f[i]]
    /\ f[0] = base
    /\ \A i \in 1..n : f[i] = step[i][f[i - 1]]
    /\ \A i \in 0..n : f[i] \in T[i]

\* A recursion whose steps lead from T[i - 1] to T[i] has a solution, within T.
LEMMA RecursionWithin ==
    ASSUME NEW n \in Nat, NEW T, NEW base, base \in T[0], NEW step,
           \A i \in 1..n : \A x \in T[i - 1] : step[i][x] \in T[i]
    PROVE  \E f : Solves(f, n, T, base, step)
<1> DEFINE P == {k \in Nat : k <= n => \E f : /\ f = [i \in 0..k |-> f[i]]
                                              /\ f[0] = base
                                              /\ \A i \in 1..k : f[i] = step[i][f[i - 1]]}
<1>1. 0 \in P
  <2> DEFINE f == [i \in 0..0 |-> base]
  <2>1. f = [i \in 0..0 |-> f[i]] /\ f[0] = base /\ 1..0 = {}
    OBVIOUS
  <2> QED
    BY <2>1
<1>2. ASSUME NEW k \in Nat, k \in P PROVE k + 1 \in P
  <2> SUFFICES ASSUME k + 1 <= n
               PROVE  \E f : /\ f = [i \in 0..k + 1 |-> f[i]]
                             /\ f[0] = base
                             /\ \A i \in 1..k + 1 : f[i] = step[i][f[i - 1]]
    OBVIOUS
  <2>1. PICK g : /\ g = [i \in 0..k |-> g[i]]
                 /\ g[0] = base
                 /\ \A i \in 1..k : g[i] = step[i][g[i - 1]]
    BY <1>2
  <2> DEFINE f == [i \in 0..k + 1 |-> IF i = k + 1 THEN step[k + 1][g[k]] ELSE g[i]]
  <2>2. f[0] = base
    BY <2>1
  <2>3. ASSUME NEW i \in 1..k + 1 PROVE f[i] = step[i][f[i - 1]]
    <3>1. f[i - 1] = g[i - 1]
      OBVIOUS
    <3>2. CASE i = k + 1
      <4>1. i - 1 = k /\ f[i] = step[k + 1][g[k]]
        BY <3>2
      <4>2. f[i - 1] = g[k]
        BY <3>1, <4>1
      <4> HIDE DEF f
      <4> QED
        BY <3>2, <4>1, <4>2
    <3>3. CASE i # k + 1
      <4>1. i \in 1..k
        BY <3>3
      <4>2. f[i] = g[i]
        BY <3>3
      <4>3. g[i] = step[i][g[i - 1]]
        BY <2>1, <4>1
      <4> HIDE DEF f
      <4> QED
        BY <3>1, <4>2, <4>3
    <3> QED
      BY <3>2, <3>3
  <2>4. f = [i \in 0..k + 1 |-> f[i]]
    OBVIOUS
  <2> HIDE DEF f
  <2> QED
    BY <2>2, <2>3, <2>4
<1>3. Nat \subseteq P
  <2> HIDE DEF P
  <2> QED
    BY <1>1, <1>2, SetInduction
<1>4. PICK f : /\ f = [i \in 0..n |-> f[i]]
               /\ f[0] = base
               /\ \A i \in 1..n : f[i] = step[i][f[i - 1]]
  BY <1>3
<1>5. \A i \in 1..n : f[i - 1] \in T[i - 1] => f[i] \in T[i]
  BY <1>4
<1>6. \A i \in 0..n : f[i] \in T[i]
  BY <1>4, <1>5, HandedOn
<1> QED
  BY <1>4, <1>6 DEF Solves

-----------------------------------------------------------------------------
\* Different elements, sorted.
LEMMA InsertionSorts ==
    ASSUME NEW S, NEW less, Linear(less, S), NEW s \in Seq(S), Distinct(s)
    PROVE  /\ InsertionSort(s, less) \in Seq(S)
           /\ Len(InsertionSort(s, less)) = Len(s)
           /\ SortedBy(InsertionSort(s, less), less)
           /\ Elems(InsertionSort(s, less)) = Elems(s)
<1> DEFINE out == InsertionSort(s, less)
           n   == Len(s)
<1>0. n \in Nat
  OBVIOUS
<1>1. Weak(less, S)
  BY LinearIsWeak
<1>2. out \in Seq(S) /\ Len(out) = n
  BY <1>1, InsertionSortIs
<1>3. PICK q : Stable(out, s, q, n, less)
  BY <1>1, InsertionSortIs
<1> HIDE DEF out, n
<1>q. /\ q \in [1..n -> 1..n]
      /\ \A v \in 1..n : \E i \in 1..n : q[i] = v
      /\ \A i \in 1..n : out[i] = s[q[i]]
      /\ \A i, j \in 1..n : i < j => /\ q[i] # q[j]
                                     /\ <<out[j], out[i]>> \notin less
  BY <1>3 DEF Stable
<1>4. Elems(out) = Elems(s)
  <2>1. ASSUME NEW i \in 1..n PROVE \E v \in 1..n : out[i] = s[v]
    BY <1>q
  <2>2. ASSUME NEW v \in 1..n PROVE \E i \in 1..n : s[v] = out[i]
    BY <1>q
  <2>3. Len(s) = n
    BY DEF n
  <2> QED
    BY <1>2, <2>1, <2>2, <2>3 DEF Elems
<1>5. ASSUME NEW i \in 1..n, NEW j \in 1..n, i < j PROVE <<out[i], out[j]>> \in less
  <2>1. q[i] \in 1..n /\ q[j] \in 1..n /\ q[i] # q[j] /\ <<out[j], out[i]>> \notin less
    BY <1>5, <1>q
  <2>2. out[i] # out[j]
    <3>1. s[q[i]] # s[q[j]]
      BY <2>1 DEF Distinct, n
    <3> QED
      BY <1>q, <3>1
  <2>3. out[i] \in S /\ out[j] \in S
    BY <1>2
  <2> QED
    BY <2>1, <2>2, <2>3 DEF Linear
<1>6. SortedBy(out, less)
  BY <1>2, <1>5 DEF SortedBy
<1> QED
  BY <1>2, <1>4, <1>6 DEF out, n

\* Sorted elements differ.
LEMMA SortedIsDistinct ==
    ASSUME NEW S, NEW less, Linear(less, S), NEW s \in Seq(S), SortedBy(s, less)
    PROVE  Distinct(s)
<1> SUFFICES ASSUME NEW i \in 1..Len(s), NEW j \in 1..Len(s), i # j, s[i] = s[j] PROVE FALSE
  BY DEF Distinct
<1>0. Len(s) \in Nat /\ s[i] \in S
  OBVIOUS
<1>1. <<s[i], s[j]>> \in less \/ <<s[j], s[i]>> \in less
  BY <1>0 DEF SortedBy
<1> QED
  BY <1>0, <1>1 DEF Linear

-----------------------------------------------------------------------------
(* Merging.                                                                *)

\* o is what merging has made of the first i elements of l and the first j of r.
Merged(o, l, i, r, j, less, S) ==
    /\ i \in 0..Len(l) /\ j \in 0..Len(r)
    /\ o \in Seq(S) /\ Len(o) = i + j
    /\ SortedBy(o, less)
    /\ \A k \in 1..(i + j) : \/ \E u \in 1..i : o[k] = l[u]
                             \/ \E u \in 1..j : o[k] = r[u]
    /\ \A u \in 1..i : \E k \in 1..(i + j) : o[k] = l[u]
    /\ \A u \in 1..j : \E k \in 1..(i + j) : o[k] = r[u]
    /\ \A k \in 1..(i + j), u \in 1..Len(l) : u > i => <<o[k], l[u]>> \in less
    /\ \A k \in 1..(i + j), u \in 1..Len(r) : u > j => <<o[k], r[u]>> \in less

\* An element behind a sorted sequence of lesser ones.
LEMMA SortedAppend ==
    ASSUME NEW S, NEW less, NEW o \in Seq(S), SortedBy(o, less), NEW x \in S,
           \A k \in 1..Len(o) : <<o[k], x>> \in less
    PROVE  /\ Append(o, x) \in Seq(S)
           /\ Len(Append(o, x)) = Len(o) + 1
           /\ \A k \in 1..Len(o) : Append(o, x)[k] = o[k]
           /\ Append(o, x)[Len(o) + 1] = x
           /\ SortedBy(Append(o, x), less)
<1> DEFINE p == Append(o, x)
           n == Len(o)
<1>1. p \in Seq(S) /\ Len(p) = n + 1 /\ n \in Nat
  OBVIOUS
<1>2. \A k \in 1..n : p[k] = o[k]
  OBVIOUS
<1>3. p[n + 1] = x
  OBVIOUS
<1> HIDE DEF p
<1>4. ASSUME NEW i \in 1..(n + 1), NEW j \in 1..(n + 1), i < j PROVE <<p[i], p[j]>> \in less
  <2>1. CASE j = n + 1
    <3>1. i \in 1..n
      BY <1>1, <1>4, <2>1
    <3> QED
      BY <1>2, <1>3, <2>1, <3>1
  <2>2. CASE j # n + 1
    <3>1. i \in 1..n /\ j \in 1..n
      BY <1>1, <1>4, <2>2
    <3>2. <<o[i], o[j]>> \in less
      BY <1>4, <3>1 DEF SortedBy
    <3> QED
      BY <1>2, <3>1, <3>2
  <2> QED
    BY <2>1, <2>2
<1>5. SortedBy(p, less)
  BY <1>1, <1>4 DEF SortedBy
<1> QED
  BY <1>1, <1>2, <1>3, <1>5 DEF p

\* The next element is taken from l.
LEMMA MergeStep ==
    ASSUME NEW S, NEW less, Linear(less, S), NEW l \in Seq(S), NEW r \in Seq(S),
           SortedBy(l, less), SortedBy(r, less),
           NEW o, NEW i, NEW j, Merged(o, l, i, r, j, less, S),
           i + 1 <= Len(l), j + 1 <= Len(r) => <<l[i + 1], r[j + 1]>> \in less
    PROVE  Merged(Append(o, l[i + 1]), l, i + 1, r, j, less, S)
<1> DEFINE x == l[i + 1]
           p == Append(o, x)
           n == i + j
<1>0. /\ i \in 0..Len(l) /\ j \in 0..Len(r) /\ i \in Nat /\ j \in Nat
      /\ Len(l) \in Nat /\ Len(r) \in Nat
  BY DEF Merged
<1>a. o \in Seq(S) /\ Len(o) = n /\ SortedBy(o, less)
  BY DEF Merged
<1>b. \A k \in 1..n : (\E u \in 1..i : o[k] = l[u]) \/ \E u \in 1..j : o[k] = r[u]
  BY DEF Merged
<1>c. /\ \A u \in 1..i : \E k \in 1..n : o[k] = l[u]
      /\ \A u \in 1..j : \E k \in 1..n : o[k] = r[u]
  BY DEF Merged
<1>d. \A k \in 1..n, u \in 1..Len(l) : u > i => <<o[k], l[u]>> \in less
  BY DEF Merged
<1>e. \A k \in 1..n, u \in 1..Len(r) : u > j => <<o[k], r[u]>> \in less
  BY DEF Merged
<1>n. n \in Nat /\ i + 1 + j = n + 1 /\ i + 1 \in 1..Len(l) /\ i + 1 \in 0..Len(l)
  BY <1>0
<1>x. x \in S
  BY <1>n
<1>y. x = l[i + 1]
  OBVIOUS
<1> HIDE DEF x, n
<1>1. \A k \in 1..n : <<o[k], x>> \in less
  BY SMTT(30), <1>d, <1>0, <1>n, <1>y
<1>2. /\ p \in Seq(S)
      /\ Len(p) = n + 1
      /\ \A k \in 1..n : p[k] = o[k]
      /\ p[n + 1] = x
      /\ SortedBy(p, less)
  <2>1. \A k \in 1..Len(o) : <<o[k], x>> \in less
    BY <1>1, <1>a
  <2>2. /\ p \in Seq(S)
        /\ Len(p) = Len(o) + 1
        /\ \A k \in 1..Len(o) : p[k] = o[k]
        /\ p[Len(o) + 1] = x
        /\ SortedBy(p, less)
    BY <1>a, <1>x, <2>1, SortedAppend
  <2> QED
    BY <1>a, <2>2
<1> HIDE DEF p
<1>3. ASSUME NEW k \in 1..(n + 1)
      PROVE  \/ \E u \in 1..(i + 1) : p[k] = l[u]
             \/ \E u \in 1..j : p[k] = r[u]
  <2>1. CASE k = n + 1
    <3>1. i + 1 \in 1..(i + 1) /\ p[k] = l[i + 1]
      BY <1>0, <1>2, <1>y, <2>1
    <3> QED
      BY <3>1
  <2>2. CASE k # n + 1
    <3>1. k \in 1..n /\ p[k] = o[k]
      BY <1>n, <1>2, <2>2
    <3>2. \A u \in 1..i : u \in 1..(i + 1)
      BY <1>0
    <3>3. (\E u \in 1..i : o[k] = l[u]) \/ \E u \in 1..j : o[k] = r[u]
      BY <1>b, <3>1
    <3> QED
      BY <3>1, <3>2, <3>3
  <2> QED
    BY <2>1, <2>2
<1>4. ASSUME NEW u \in 1..(i + 1) PROVE \E k \in 1..(n + 1) : p[k] = l[u]
  <2>1. CASE u = i + 1
    BY <1>n, <1>2, <1>y, <2>1
  <2>2. CASE u # i + 1
    <3>1. u \in 1..i
      BY <1>0, <2>2
    <3>2. PICK k \in 1..n : o[k] = l[u]
      BY <1>c, <3>1
    <3>3. k \in 1..(n + 1) /\ p[k] = l[u]
      BY <1>n, <1>2, <3>2
    <3> QED
      BY <3>3
  <2> QED
    BY <2>1, <2>2
<1>5. ASSUME NEW u \in 1..j PROVE \E k \in 1..(n + 1) : p[k] = r[u]
  <2>1. PICK k \in 1..n : o[k] = r[u]
    BY <1>c
  <2>2. k \in 1..(n + 1) /\ p[k] = r[u]
    BY <1>n, <1>2, <2>1
  <2> QED
    BY <2>2
<1>6. ASSUME NEW k \in 1..(n + 1), NEW u \in 1..Len(l), u > i + 1 PROVE <<p[k], l[u]>> \in less
  <2>1. CASE k = n + 1
    <3>1. <<l[i + 1], l[u]>> \in less
      BY <1>n, <1>6 DEF SortedBy
    <3> QED
      BY <1>2, <1>y, <2>1, <3>1
  <2>2. CASE k # n + 1
    <3>1. k \in 1..n /\ u > i
      BY <1>0, <1>n, <1>6, <2>2
    <3> QED
      BY <1>d, <1>2, <3>1
  <2> QED
    BY <2>1, <2>2
<1>7. ASSUME NEW k \in 1..(n + 1), NEW u \in 1..Len(r), u > j PROVE <<p[k], r[u]>> \in less
  <2>1. CASE k = n + 1
    <3>1. j + 1 \in 1..Len(r) /\ j + 1 <= Len(r)
      BY <1>0, <1>7
    <3>2. r[j + 1] \in S /\ r[u] \in S
      BY <3>1
    <3>3. <<x, r[j + 1]>> \in less
      BY <1>y, <3>1
    <3>4. u = j + 1 \/ <<r[j + 1], r[u]>> \in less
      BY <1>0, <1>7, <3>1 DEF SortedBy
    <3>5. <<x, r[u]>> \in less
      BY <1>x, <3>2, <3>3, <3>4 DEF Linear
    <3> QED
      BY <1>2, <2>1, <3>5
  <2>2. CASE k # n + 1
    <3>1. k \in 1..n
      BY <1>n, <2>2
    <3> QED
      BY <1>e, <1>2, <1>7, <3>1
  <2> QED
    BY <2>1, <2>2
<1>8. Merged(p, l, i + 1, r, j, less, S)
  BY <1>0, <1>n, <1>2, <1>3, <1>4, <1>5, <1>6, <1>7 DEF Merged
<1> QED
  BY <1>8 DEF p, x

\* Merging does not tell its two sequences apart.
LEMMA MergedSwaps ==
    ASSUME NEW S, NEW less, NEW l, NEW r, NEW o, NEW i, NEW j,
           Len(l) \in Nat, Len(r) \in Nat, Merged(o, l, i, r, j, less, S)
    PROVE  Merged(o, r, j, l, i, less, S)
<1>1. i + j = j + i
  BY DEF Merged
<1> QED
  BY <1>1 DEF Merged

\* Two sorted sequences without a common element.
LEMMA MergeSorts ==
    ASSUME NEW S, NEW less, Linear(less, S), NEW l \in Seq(S), NEW r \in Seq(S),
           SortedBy(l, less), SortedBy(r, less),
           \A u \in 1..Len(l), v \in 1..Len(r) : l[u] # r[v]
    PROVE  /\ Merge(l, r, less) \in Seq(S)
           /\ SortedBy(Merge(l, r, less), less)
           /\ Elems(Merge(l, r, less)) = Elems(l) \cup Elems(r)
<1> DEFINE N == Len(l) + Len(r)
           base == [left |-> 0, out |-> <<>>]
           V(n, m) == IF n - m.left > Len(r)
                         \/ (m.left + 1 <= Len(l) /\ <<l[m.left + 1], r[n - m.left]>> \in less)
                      THEN [left |-> m.left + 1, out |-> Append(m.out, l[m.left + 1])]
                      ELSE [left |-> m.left, out |-> Append(m.out, r[n - m.left])]
           G(f) == f = [n \in 0..N |-> IF n = 0 THEN base ELSE V(n, f[n - 1])]
           f == CHOOSE g : G(g)
           U == [left : Nat, out : Seq(S)]
           T == [n \in 0..N |-> {m \in U : Merged(m.out, l, m.left, r, n - m.left, less, S)}]
           step == [n \in 1..N |-> [m \in T[n - 1] |-> V(n, m)]]
<1>0. N \in Nat /\ Len(l) \in Nat /\ Len(r) \in Nat
  OBVIOUS
<1>1. base \in T[0]
  <2>1. base \in U /\ base.left = 0 /\ base.out = <<>> /\ 0 \in 0..N
    BY <1>0
  <2>2. Merged(<<>>, l, 0, r, 0 - 0, less, S)
    BY <1>0 DEF Merged, SortedBy
  <2> HIDE DEF base, U
  <2> QED
    BY <2>1, <2>2
<1>2. ASSUME NEW n \in 1..N, NEW m \in T[n - 1] PROVE V(n, m) \in T[n]
  <2>1. n - 1 \in 0..N /\ n \in 0..N
    BY <1>0
  <2>2. m \in U /\ Merged(m.out, l, m.left, r, n - 1 - m.left, less, S)
    BY <2>1
  <2> DEFINE i == m.left
             j == n - 1 - m.left
             o == m.out
  <2>3. Merged(o, l, i, r, j, less, S)
    BY <2>2
  <2>4. /\ i \in Nat /\ j \in Nat /\ n - i = j + 1 /\ i + j = n - 1 /\ n - (i + 1) = j
        /\ o \in Seq(S) /\ i <= Len(l) /\ j <= Len(r)
    BY <2>3, <2>2, <1>0 DEF Merged
  <2>5. V(n, m) = IF j + 1 > Len(r) \/ (i + 1 <= Len(l) /\ <<l[i + 1], r[j + 1]>> \in less)
                  THEN [left |-> i + 1, out |-> Append(o, l[i + 1])]
                  ELSE [left |-> i, out |-> Append(o, r[j + 1])]
    BY <2>4
  <2> HIDE DEF V, i, j, o, U
  <2>6. CASE j + 1 > Len(r) \/ (i + 1 <= Len(l) /\ <<l[i + 1], r[j + 1]>> \in less)
    <3>1. i + 1 <= Len(l)
      BY <1>0, <2>4, <2>6
    <3>2. j + 1 <= Len(r) => <<l[i + 1], r[j + 1]>> \in less
      BY <1>0, <2>4, <2>6
    <3>3. Merged(Append(o, l[i + 1]), l, i + 1, r, j, less, S)
      BY <2>3, <3>1, <3>2, MergeStep
    <3> DEFINE h == [left |-> i + 1, out |-> Append(o, l[i + 1])]
    <3>4. h.left = i + 1 /\ h.out = Append(o, l[i + 1])
      OBVIOUS
    <3>5. l[i + 1] \in S
      BY <2>4, <3>1
    <3>6. h \in U
      BY <2>4, <3>5 DEF U
    <3>7. V(n, m) = h
      BY <2>5, <2>6
    <3> HIDE DEF h
    <3>8. Merged(h.out, l, h.left, r, n - h.left, less, S)
      BY <2>4, <3>3, <3>4
    <3> QED
      BY <2>1, <3>6, <3>7, <3>8
  <2>7. CASE ~(j + 1 > Len(r) \/ (i + 1 <= Len(l) /\ <<l[i + 1], r[j + 1]>> \in less))
    <3>1. j + 1 <= Len(r)
      BY <1>0, <2>4, <2>7
    <3>2. i + 1 <= Len(l) => <<r[j + 1], l[i + 1]>> \in less
      <4> SUFFICES ASSUME i + 1 <= Len(l) PROVE <<r[j + 1], l[i + 1]>> \in less
        OBVIOUS
      <4>1. i + 1 \in 1..Len(l) /\ j + 1 \in 1..Len(r)
        BY <1>0, <2>4, <3>1
      <4>2. l[i + 1] \in S /\ r[j + 1] \in S /\ l[i + 1] # r[j + 1]
        BY <4>1
      <4> QED
        BY <2>7, <4>2 DEF Linear
    <3>3. Merged(o, r, j, l, i, less, S)
      BY <1>0, <2>3, MergedSwaps
    <3>4. Merged(Append(o, r[j + 1]), r, j + 1, l, i, less, S)
      BY <3>1, <3>2, <3>3, MergeStep
    <3>5. Merged(Append(o, r[j + 1]), l, i, r, j + 1, less, S)
      BY <1>0, <3>4, MergedSwaps
    <3> DEFINE h == [left |-> i, out |-> Append(o, r[j + 1])]
    <3>6. h.left = i /\ h.out = Append(o, r[j + 1])
      OBVIOUS
    <3>7. r[j + 1] \in S
      BY <2>4, <3>1
    <3>8. h \in U
      BY <2>4, <3>7 DEF U
    <3>9. V(n, m) = h
      BY <2>5, <2>7
    <3> HIDE DEF h
    <3>10. Merged(h.out, l, h.left, r, n - h.left, less, S)
      BY <2>4, <3>5, <3>6
    <3> QED
      BY <2>1, <3>8, <3>9, <3>10
  <2> QED
    BY <2>6, <2>7
<1>3. \A n \in 1..N : \A m \in T[n - 1] : step[n][m] = V(n, m) /\ step[n][m] \in T[n]
  BY <1>2
<1>4. PICK h : Solves(h, N, T, base, step)
  <2> HIDE DEF T, V, step, base, N
  <2>1. \A n \in 1..N : \A m \in T[n - 1] : step[n][m] \in T[n]
    BY <1>3
  <2> QED
    BY <1>0, <1>1, <2>1, RecursionWithin
<1>5. G(h)
  <2> HIDE DEF T, V, step, base, N
  <2>1. ASSUME NEW n \in 0..N PROVE h[n] = IF n = 0 THEN base ELSE V(n, h[n - 1])
    <3>1. CASE n = 0
      BY <1>4, <3>1 DEF Solves
    <3>2. CASE n # 0
      <4>1. n \in 1..N /\ n - 1 \in 0..N
        BY <1>0, <3>2
      <4>2. h[n - 1] \in T[n - 1] /\ h[n] = step[n][h[n - 1]]
        BY <1>4, <4>1 DEF Solves
      <4> QED
        BY <1>3, <3>2, <4>1, <4>2
    <3> QED
      BY <3>1, <3>2
  <2>2. h = [n \in 0..N |-> h[n]]
    BY <1>4 DEF Solves
  <2> QED
    BY <2>1, <2>2
<1>6. G(f)
  BY <1>5
<1>7. Merge(l, r, less) = f[N].out
  BY DEF Merge
<1> HIDE DEF f
<1>8. f[0] = base /\ \A n \in 1..N : f[n] = V(n, f[n - 1])
  <2> HIDE DEF V, base, N
  <2>1. ASSUME NEW n \in 1..N PROVE f[n] = V(n, f[n - 1])
    <3>1. n \in 0..N /\ n # 0
      BY <1>0
    <3> QED
      BY <1>6, <3>1
  <2>2. f[0] = base
    BY <1>0, <1>6
  <2> QED
    BY <2>1, <2>2
<1>9. \A n \in 0..N : f[n] \in T[n]
  <2> HIDE DEF T, V, step, base, N
  <2>1. \A n \in 1..N : f[n - 1] \in T[n - 1] => f[n] \in T[n]
    BY <1>3, <1>8
  <2>2. f[0] \in T[0]
    BY <1>1, <1>8
  <2> QED
    BY <1>0, <2>1, <2>2, HandedOn
<1>10. f[N] \in U /\ Merged(f[N].out, l, f[N].left, r, N - f[N].left, less, S)
  BY <1>0, <1>9
<1> DEFINE o == f[N].out
           i == f[N].left
<1>11. /\ i = Len(l) /\ N - i = Len(r) /\ i + (N - i) = N
       /\ o \in Seq(S) /\ Len(o) = N /\ SortedBy(o, less)
  BY <1>0, <1>10 DEF Merged
<1>12. /\ \A k \in 1..N : \/ \E u \in 1..Len(l) : o[k] = l[u]
                          \/ \E u \in 1..Len(r) : o[k] = r[u]
       /\ \A u \in 1..Len(l) : \E k \in 1..N : o[k] = l[u]
       /\ \A u \in 1..Len(r) : \E k \in 1..N : o[k] = r[u]
  BY <1>10, <1>11 DEF Merged
<1> HIDE DEF o, i, N
<1>13. Elems(o) = Elems(l) \cup Elems(r)
  <2>1. ASSUME NEW x \in Elems(o) PROVE x \in Elems(l) \cup Elems(r)
    <3>1. PICK k \in 1..N : x = o[k]
      BY <1>11, <2>1 DEF Elems
    <3> QED
      BY <1>12, <3>1 DEF Elems
  <2>2. ASSUME NEW x \in Elems(l) PROVE x \in Elems(o)
    <3>1. PICK k \in 1..Len(l) : x = l[k]
      BY <2>2 DEF Elems
    <3> QED
      BY <1>11, <1>12, <3>1 DEF Elems
  <2>3. ASSUME NEW x \in Elems(r) PROVE x \in Elems(o)
    <3>1. PICK k \in 1..Len(r) : x = r[k]
      BY <2>3 DEF Elems
    <3> QED
      BY <1>11, <1>12, <3>1 DEF Elems
  <2> QED
    BY <2>1, <2>2, <2>3
<1> QED
  BY <1>7, <1>11, <1>13 DEF o

\* Sorted sequences without common elements, of all the elements of X.
Parts(L, X, less, S) ==
    /\ L \in Seq(Seq(S))
    /\ \A i \in 1..Len(L) : SortedBy(L[i], less)
    /\ \A i, j \in 1..Len(L) : i # j => Elems(L[i]) \cap Elems(L[j]) = {}
    /\ \A x : x \in X <=> \E i \in 1..Len(L) : x \in Elems(L[i])

\* What becomes of two neighbours.
LEMMA PairMerged ==
    ASSUME NEW S, NEW less, Linear(less, S), NEW X, NEW L, Parts(L, X, less, S),
           NEW i \in 1..((Len(L) + 1) \div 2)
    PROVE  /\ MergePairs(L, less)[i] \in Seq(S)
           /\ SortedBy(MergePairs(L, less)[i], less)
           /\ \A x : x \in Elems(MergePairs(L, less)[i]) <=>
                       \E a \in 1..Len(L) : a \in {2 * i - 1, 2 * i} /\ x \in Elems(L[a])
<1> DEFINE n == Len(L)
           M == MergePairs(L, less)
<1>1. /\ L \in Seq(Seq(S))
      /\ n \in Nat
      /\ \A k \in 1..n : SortedBy(L[k], less)
      /\ \A k, j \in 1..n : k # j => Elems(L[k]) \cap Elems(L[j]) = {}
  <2>1. L \in Seq(Seq(S))
    BY DEF Parts
  <2>2. n \in Nat
    BY <2>1
  <2> QED
    BY <2>1, <2>2 DEF Parts
<1>2. M[i] = IF 2 * i > n THEN L[2 * i - 1] ELSE Merge(L[2 * i - 1], L[2 * i], less)
  BY DEF MergePairs
<1>3. i \in Nat /\ 2 * i - 1 \in 1..n
  BY <1>1
<1>4. L[2 * i - 1] \in Seq(S) /\ SortedBy(L[2 * i - 1], less)
  BY <1>1, <1>3
<1> HIDE DEF M
<1>5. CASE 2 * i > n
  <2>1. M[i] = L[2 * i - 1]
    BY <1>2, <1>5
  <2>2. \A a \in 1..n : a \in {2 * i - 1, 2 * i} <=> a = 2 * i - 1
    BY <1>1, <1>3, <1>5
  <2> QED
    BY <1>3, <1>4, <2>1, <2>2 DEF M
<1>6. CASE ~(2 * i > n)
  <2>1. M[i] = Merge(L[2 * i - 1], L[2 * i], less)
    BY <1>2, <1>6
  <2>2. 2 * i \in 1..n /\ 2 * i # 2 * i - 1
    BY <1>1, <1>3, <1>6
  <2>3. L[2 * i] \in Seq(S) /\ SortedBy(L[2 * i], less)
    BY <1>1, <2>2
  <2>4. Elems(L[2 * i - 1]) \cap Elems(L[2 * i]) = {}
    BY <1>1, <1>3, <2>2
  <2> DEFINE l == L[2 * i - 1]
             r == L[2 * i]
  <2>5. \A u \in 1..Len(l), v \in 1..Len(r) : l[u] # r[v]
    BY <2>4 DEF Elems
  <2> HIDE DEF l, r
  <2>6. l \in Seq(S) /\ r \in Seq(S) /\ SortedBy(l, less) /\ SortedBy(r, less)
    BY <1>4, <2>3 DEF l, r
  <2>7. /\ Merge(l, r, less) \in Seq(S)
        /\ SortedBy(Merge(l, r, less), less)
        /\ Elems(Merge(l, r, less)) = Elems(l) \cup Elems(r)
    BY <2>5, <2>6, MergeSorts
  <2>8. M[i] = Merge(l, r, less)
    BY <2>1 DEF l, r
  <2>9. \A x : x \in Elems(M[i]) <=> x \in Elems(L[2 * i - 1]) \/ x \in Elems(L[2 * i])
    BY <2>7, <2>8 DEF l, r
  <2>10. \A x : x \in Elems(M[i]) <=>
                  \E a \in 1..n : a \in {2 * i - 1, 2 * i} /\ x \in Elems(L[a])
    BY <1>3, <2>2, <2>9
  <2> QED
    BY <2>7, <2>8, <2>10 DEF M
<1> QED
  BY <1>5, <1>6

\* A round halves the number of parts.
LEMMA RoundKeeps ==
    ASSUME NEW S, NEW less, Linear(less, S), NEW X, NEW L, Parts(L, X, less, S)
    PROVE  /\ Parts(MergePairs(L, less), X, less, S)
           /\ Len(MergePairs(L, less)) = (Len(L) + 1) \div 2
<1> DEFINE n == Len(L)
           M == MergePairs(L, less)
           h == (n + 1) \div 2
<1>1. /\ L \in Seq(Seq(S))
      /\ n \in Nat /\ h \in Nat
      /\ \A k, j \in 1..n : k # j => Elems(L[k]) \cap Elems(L[j]) = {}
      /\ \A x : x \in X <=> \E i \in 1..n : x \in Elems(L[i])
  <2>1. L \in Seq(Seq(S))
    BY DEF Parts
  <2>2. n \in Nat
    BY <2>1
  <2>3. h \in Nat
    BY <2>2
  <2> QED
    BY <2>1, <2>2, <2>3 DEF Parts
<1>2. \A i \in 1..h : M[i] \in Seq(S)
  BY PairMerged
<1>3. \A i \in 1..h : SortedBy(M[i], less)
  BY PairMerged
<1>4. \A i \in 1..h : \A x : x \in Elems(M[i]) <=>
         \E a \in 1..n : a \in {2 * i - 1, 2 * i} /\ x \in Elems(L[a])
  BY PairMerged
<1>5. M \in Seq(Seq(S)) /\ Len(M) = h
  <2>1. M \in [1..h -> Seq(S)]
    BY <1>2 DEF MergePairs
  <2> DEFINE Q == Seq(S)
  <2>2. M \in [1..h -> Q]
    BY <2>1
  <2> HIDE DEF Q, M, h
  <2>3. M \in Seq(Q) /\ Len(M) = h
    BY <1>1, <2>2
  <2> QED
    BY <2>3 DEF Q
<1> HIDE DEF M, n
<1>6. ASSUME NEW i \in 1..h, NEW j \in 1..h, i # j PROVE Elems(M[i]) \cap Elems(M[j]) = {}
  <2> SUFFICES ASSUME NEW x, x \in Elems(M[i]), x \in Elems(M[j]) PROVE FALSE
    OBVIOUS
  <2>1. PICK a \in 1..n : a \in {2 * i - 1, 2 * i} /\ x \in Elems(L[a])
    BY <1>4
  <2>2. PICK b \in 1..n : b \in {2 * j - 1, 2 * j} /\ x \in Elems(L[b])
    BY <1>4
  <2>3. a # b
    BY <1>1, <1>6, <2>1, <2>2
  <2> QED
    BY <1>1, <2>1, <2>2, <2>3
<1>7. ASSUME NEW x PROVE x \in X <=> \E i \in 1..h : x \in Elems(M[i])
  <2>1. ASSUME NEW a \in 1..n, x \in Elems(L[a]) PROVE \E i \in 1..h : x \in Elems(M[i])
    <3>1. PICK i \in 1..h : a \in {2 * i - 1, 2 * i}
      <4>1. (a + 1) \div 2 \in 1..h /\ a \in {2 * ((a + 1) \div 2) - 1, 2 * ((a + 1) \div 2)}
        BY <1>1
      <4> QED
        BY <4>1
    <3> QED
      BY <1>4, <2>1, <3>1
  <2>2. ASSUME NEW i \in 1..h, x \in Elems(M[i]) PROVE \E a \in 1..n : x \in Elems(L[a])
    BY <1>4, <2>2
  <2> QED
    BY <1>1, <2>1, <2>2
<1> HIDE DEF h
<1>8. Parts(M, X, less, S)
  BY <1>3, <1>5, <1>6, <1>7 DEF Parts
<1> QED
  BY <1>5, <1>8 DEF M, h, n

\* Merging neighbours until one list is left.
THEOREM MergeAllSorts ==
    ASSUME NEW S, NEW less, Linear(less, S), NEW X, NEW L, Parts(L, X, less, S), Len(L) > 0
    PROVE  /\ MergeAll(L, less) \in Seq(S)
           /\ SortedBy(MergeAll(L, less), less)
           /\ Elems(MergeAll(L, less)) = X
<1> DEFINE N == Len(L)
           base == L
           V(n, m) == MergePairs(m, less)
           G(f) == f = [n \in 0..N |-> IF n = 0 THEN base ELSE V(n, f[n - 1])]
           f == CHOOSE g : G(g)
           T == [n \in 0..N |-> {m \in Seq(Seq(S)) : /\ Parts(m, X, less, S)
                                                     /\ Len(m) > 0
                                                     /\ Len(m) = 1 \/ Len(m) <= N - n}]
           step == [n \in 1..N |-> [m \in T[n - 1] |-> V(n, m)]]
<1>0. N \in Nat /\ N > 0
  <2>1. L \in Seq(Seq(S))
    BY DEF Parts
  <2> QED
    BY <2>1
<1>1. base \in T[0]
  <2>1. 0 \in 0..N /\ Len(L) > 0 /\ Len(L) <= N - 0
    BY <1>0
  <2>2. L \in Seq(Seq(S))
    BY DEF Parts
  <2> HIDE DEF N
  <2> QED
    BY <2>1, <2>2
<1>2. ASSUME NEW n \in 1..N, NEW m \in T[n - 1] PROVE V(n, m) \in T[n]
  <2>1. n - 1 \in 0..N /\ n \in 0..N
    BY <1>0
  <2>2. /\ m \in Seq(Seq(S)) /\ Parts(m, X, less, S)
        /\ Len(m) > 0 /\ Len(m) \in Nat
        /\ Len(m) = 1 \/ Len(m) <= N - (n - 1)
    BY <2>1
  <2>3. /\ Parts(MergePairs(m, less), X, less, S)
        /\ Len(MergePairs(m, less)) = (Len(m) + 1) \div 2
    BY <2>2, RoundKeeps
  <2> DEFINE k == Len(m)
             d == (k + 1) \div 2
  <2>4. k \in Nat /\ k > 0 /\ (k = 1 \/ k <= N - (n - 1))
    BY <2>2
  <2> HIDE DEF k
  <2>5. d > 0 /\ (d = 1 \/ d <= N - n)
    BY <1>0, <2>4
  <2>6. MergePairs(m, less) \in Seq(Seq(S))
    BY <2>3 DEF Parts
  <2> QED
    BY <2>1, <2>3, <2>5, <2>6 DEF k
<1>3. \A n \in 1..N : \A m \in T[n - 1] : step[n][m] = V(n, m) /\ step[n][m] \in T[n]
  BY <1>2
<1>4. PICK h : Solves(h, N, T, base, step)
  <2> HIDE DEF T, V, step, base, N
  <2>1. \A n \in 1..N : \A m \in T[n - 1] : step[n][m] \in T[n]
    BY <1>3
  <2> QED
    BY <1>0, <1>1, <2>1, RecursionWithin
<1>5. G(h)
  <2> HIDE DEF T, V, step, base, N
  <2>1. ASSUME NEW n \in 0..N PROVE h[n] = IF n = 0 THEN base ELSE V(n, h[n - 1])
    <3>1. CASE n = 0
      BY <1>4, <3>1 DEF Solves
    <3>2. CASE n # 0
      <4>1. n \in 1..N /\ n - 1 \in 0..N
        BY <1>0, <3>2
      <4>2. h[n - 1] \in T[n - 1] /\ h[n] = step[n][h[n - 1]]
        BY <1>4, <4>1 DEF Solves
      <4> QED
        BY <1>3, <3>2, <4>1, <4>2
    <3> QED
      BY <3>1, <3>2
  <2>2. h = [n \in 0..N |-> h[n]]
    BY <1>4 DEF Solves
  <2> QED
    BY <2>1, <2>2
<1>6. G(f)
  BY <1>5
<1>7. MergeAll(L, less) = f[N][1]
  BY DEF MergeAll
<1> HIDE DEF f
<1>8. f[0] = base /\ \A n \in 1..N : f[n] = V(n, f[n - 1])
  <2> HIDE DEF V, base, N
  <2>1. ASSUME NEW n \in 1..N PROVE f[n] = V(n, f[n - 1])
    <3>1. n \in 0..N /\ n # 0
      BY <1>0
    <3> QED
      BY <1>6, <3>1
  <2>2. f[0] = base
    BY <1>0, <1>6
  <2> QED
    BY <2>1, <2>2
<1>9. \A n \in 0..N : f[n] \in T[n]
  <2> HIDE DEF T, V, step, base, N
  <2>1. \A n \in 1..N : f[n - 1] \in T[n - 1] => f[n] \in T[n]
    BY <1>3, <1>8
  <2>2. f[0] \in T[0]
    BY <1>1, <1>8
  <2> QED
    BY <1>0, <2>1, <2>2, HandedOn
<1>10. /\ Parts(f[N], X, less, S)
       /\ Len(f[N]) = 1
  <2>1. N \in 0..N
    BY <1>0
  <2>2. f[N] \in T[N]
    BY <1>9, <2>1
  <2>3. /\ Parts(f[N], X, less, S) /\ Len(f[N]) > 0
        /\ Len(f[N]) = 1 \/ Len(f[N]) <= N - N
    BY <2>1, <2>2
  <2> HIDE DEF N
  <2> QED
    BY <1>0, <2>3
<1>11. 1 \in 1..Len(f[N]) /\ \A i \in 1..Len(f[N]) : i = 1
  BY <1>10
<1>12. f[N][1] \in Seq(S) /\ SortedBy(f[N][1], less)
  BY <1>10, <1>11 DEF Parts
<1>13. \A x : x \in X <=> x \in Elems(f[N][1])
  BY <1>10, <1>11 DEF Parts
<1> QED
  BY <1>7, <1>12, <1>13

-----------------------------------------------------------------------------
(* Heap sort.                                                              *)

\* p holds different elements, which are those of o; only the first n may have moved.
Rearranged(o, p, n, N, S) ==
    /\ p \in [1..N -> S]
    /\ \A i, j \in 1..N : i # j => p[i] # p[j]
    /\ \A i \in 1..N : i > n => p[i] = o[i]
    /\ \A i \in 1..n : \E j \in 1..n : p[i] = o[j]
    /\ \A j \in 1..n : \E i \in 1..n : p[i] = o[j]

\* Rearranged in two steps.
LEMMA RearrangedTwice ==
    ASSUME NEW S, NEW N \in Nat, NEW n \in 0..N, NEW m \in 0..n, NEW o, NEW p, NEW q,
           Rearranged(o, p, n, N, S), Rearranged(p, q, m, N, S)
    PROVE  Rearranged(o, q, n, N, S)
<1>1. ASSUME NEW i \in 1..n PROVE \E j \in 1..n : q[i] = p[j]
  <2>1. CASE i \in 1..m
    <3>1. PICK j \in 1..m : q[i] = p[j]
      BY <2>1 DEF Rearranged
    <3>2. j \in 1..n
      OBVIOUS
    <3> QED
      BY <3>1, <3>2
  <2>2. CASE i \notin 1..m
    <3>1. i \in 1..N /\ i > m
      BY <2>2
    <3> QED
      BY <3>1 DEF Rearranged
  <2> QED
    BY <2>1, <2>2
<1>2. ASSUME NEW j \in 1..n PROVE \E i \in 1..n : q[i] = p[j]
  <2>1. CASE j \in 1..m
    <3>1. PICK i \in 1..m : q[i] = p[j]
      BY <2>1 DEF Rearranged
    <3>2. i \in 1..n
      OBVIOUS
    <3> QED
      BY <3>1, <3>2
  <2>2. CASE j \notin 1..m
    <3>1. j \in 1..N /\ j > m
      BY <2>2
    <3> QED
      BY <3>1 DEF Rearranged
  <2> QED
    BY <2>1, <2>2
<1>3. ASSUME NEW i \in 1..n PROVE \E j \in 1..n : q[i] = o[j]
  <2>1. PICK k \in 1..n : q[i] = p[k]
    BY <1>1
  <2>2. PICK j \in 1..n : p[k] = o[j]
    BY DEF Rearranged
  <2> QED
    BY <2>1, <2>2
<1>4. ASSUME NEW j \in 1..n PROVE \E i \in 1..n : q[i] = o[j]
  <2>1. PICK k \in 1..n : p[k] = o[j]
    BY DEF Rearranged
  <2>2. PICK i \in 1..n : q[i] = p[k]
    BY <1>2
  <2> QED
    BY <2>1, <2>2
<1>5. ASSUME NEW i \in 1..N, i > n PROVE q[i] = o[i]
  <2>1. i > m
    BY <1>5
  <2>2. q[i] = p[i]
    BY <2>1 DEF Rearranged
  <2>3. p[i] = o[i]
    BY <1>5 DEF Rearranged
  <2> QED
    BY <2>2, <2>3
<1>6. q \in [1..N -> S] /\ \A i, j \in 1..N : i # j => q[i] # q[j]
  BY DEF Rearranged
<1> QED
  BY <1>3, <1>4, <1>5, <1>6 DEF Rearranged

\* Two elements that change places.
LEMMA SwapRearranges ==
    ASSUME NEW S, NEW N \in Nat, NEW n \in 0..N, NEW p \in [1..N -> S],
           \A i, j \in 1..N : i # j => p[i] # p[j],
           NEW a \in 1..n, NEW b \in 1..n
    PROVE  Rearranged(p, Swapped(p, a, b), n, N, S)
<1> DEFINE q == Swapped(p, a, b)
<1>1. a \in 1..N /\ b \in 1..N
  OBVIOUS
<1>2. q \in [1..N -> S]
  BY <1>1 DEF Swapped
<1>3. q[a] = p[b] /\ q[b] = p[a] /\ \A i \in 1..N : i # a /\ i # b => q[i] = p[i]
  BY <1>1 DEF Swapped
<1> HIDE DEF q
<1>5. \A i, j \in 1..N : i # j => q[i] # q[j]
  BY <1>1, <1>3
<1>6. \A i \in 1..N : i > n => q[i] = p[i]
  BY <1>1, <1>3
<1>7. ASSUME NEW i \in 1..n PROVE \E j \in 1..n : q[i] = p[j]
  BY <1>3
<1>8. ASSUME NEW j \in 1..n PROVE \E i \in 1..n : q[i] = p[j]
  BY <1>3
<1>9. Rearranged(p, q, n, N, S)
  BY <1>2, <1>5, <1>6, <1>7, <1>8 DEF Rearranged
<1> QED
  BY <1>9 DEF q

\* The places from r on are greater than their children, among the first n.
Heap(o, r, n, less) ==
    \A p \in r..n, c \in 1..n : c \in {2 * p, 2 * p + 1} => <<o[c], o[p]>> \in less

\* So they are while the element at root is still to go down.
HeapBut(o, r, root, n, less) ==
    /\ root \in r..n
    /\ \A p \in r..n, c \in 1..n :
          p # root /\ c \in {2 * p, 2 * p + 1} => <<o[c], o[p]>> \in less
    /\ \A p \in r..n, d \in 1..n :
          root \in {2 * p, 2 * p + 1} /\ d \in {2 * root, 2 * root + 1}
            => <<o[d], o[p]>> \in less

\* The element at root, less than its greater child, changes places with it.
LEMMA SiftStep ==
    ASSUME NEW S, NEW less, Linear(less, S), NEW N \in Nat, NEW n \in 0..N,
           NEW o \in [1..N -> S], \A i, j \in 1..N : i # j => o[i] # o[j],
           NEW r \in 1..n, NEW root, HeapBut(o, r, root, n, less),
           NEW child \in 1..n, child \in {2 * root, 2 * root + 1},
           <<o[root], o[child]>> \in less,
           \A c \in 1..n : c \in {2 * root, 2 * root + 1} /\ c # child
                             => <<o[c], o[child]>> \in less
    PROVE  HeapBut(Swapped(o, root, child), r, child, n, less)
<1> DEFINE q == Swapped(o, root, child)
<1>1. /\ root \in r..n /\ root \in 1..n /\ child > root /\ child \in r..n
      /\ n \in Nat /\ r \in Nat /\ root \in Nat /\ child \in Nat
      /\ \A i \in 1..n : i \in 1..N
      /\ \A i \in r..n : i \in 1..n
  BY DEF HeapBut
<1>2. /\ q[root] = o[child] /\ q[child] = o[root]
      /\ \A i \in 1..N : i # root /\ i # child => q[i] = o[i]
  <2>1. root \in 1..N /\ child \in 1..N
    BY <1>1
  <2> QED
    BY <2>1 DEF Swapped
<1> HIDE DEF q
<1>a. \A p \in r..n, c \in 1..n :
          p # root /\ c \in {2 * p, 2 * p + 1} => <<o[c], o[p]>> \in less
  BY DEF HeapBut
<1>b. \A p \in r..n, d \in 1..n :
          root \in {2 * p, 2 * p + 1} /\ d \in {2 * root, 2 * root + 1}
            => <<o[d], o[p]>> \in less
  BY DEF HeapBut
<1>3. ASSUME NEW p \in r..n, NEW c \in 1..n, p # child, c \in {2 * p, 2 * p + 1}
      PROVE  <<q[c], q[p]>> \in less
  <2>0. p \in Nat /\ c \in Nat /\ c > p /\ p \in 1..n
    BY <1>1, <1>3
  <2>1. CASE p = root
    <3>1. CASE c = child
      BY <1>2, <2>1, <3>1
    <3>2. CASE c # child
      <4>1. c # root
        BY <2>0, <2>1
      <4>2. q[c] = o[c] /\ q[p] = o[child]
        BY <1>1, <1>2, <2>1, <3>2, <4>1
      <4>3. <<o[c], o[child]>> \in less
        BY <1>3, <2>1, <3>2
      <4> QED
        BY <4>2, <4>3
    <3> QED
      BY <3>1, <3>2
  <2>2. CASE p # root /\ c = root
    <3>1. q[p] = o[p] /\ q[c] = o[child]
      BY <1>1, <1>2, <1>3, <2>0, <2>2
    <3>2. <<o[child], o[p]>> \in less
      BY <1>b, <1>3, <2>2
    <3> QED
      BY <3>1, <3>2
  <2>3. CASE p # root /\ c # root
    <3>1. c # child
      BY <1>1, <1>3, <2>0, <2>3
    <3>2. q[p] = o[p] /\ q[c] = o[c]
      BY <1>1, <1>2, <1>3, <2>0, <2>3, <3>1
    <3>3. <<o[c], o[p]>> \in less
      BY <1>a, <1>3, <2>3
    <3> QED
      BY <3>2, <3>3
  <2> QED
    BY <2>1, <2>2, <2>3
<1>4. ASSUME NEW p \in r..n, NEW d \in 1..n, child \in {2 * p, 2 * p + 1},
             d \in {2 * child, 2 * child + 1}
      PROVE  <<q[d], q[p]>> \in less
  <2>1. p = root /\ d # root /\ d # child
    BY <1>1, <1>4
  <2>2. q[p] = o[child] /\ q[d] = o[d]
    BY <1>1, <1>2, <2>1
  <2>3. <<o[d], o[child]>> \in less
    BY <1>a, <1>1, <1>4
  <2> QED
    BY <2>2, <2>3
<1> QED
  BY <1>1, <1>3, <1>4 DEF HeapBut, q

\* The element at root goes as far down as it has to.
LEMMA SiftsDown ==
    ASSUME NEW S, NEW less, Linear(less, S), NEW M \in Nat, NEW N \in 1..M,
           NEW o \in [1..M -> S], \A i, j \in 1..M : i # j => o[i] # o[j],
           NEW r \in 1..N, Heap(o, r + 1, N, less)
    PROVE  /\ Rearranged(o, SiftDown(o, r, N, less), N, M, S)
           /\ Heap(SiftDown(o, r, N, less), r, N, less)
<1> DEFINE base == [order |-> o, root |-> r]
           Child(h) == IF 2 * h.root < N /\ <<h.order[2 * h.root], h.order[2 * h.root + 1]>> \in less
                       THEN 2 * h.root + 1 ELSE 2 * h.root
           V(n, h) == IF 2 * h.root > N \/ <<h.order[h.root], h.order[Child(h)]>> \notin less THEN h
                      ELSE [order |-> Swapped(h.order, h.root, Child(h)), root |-> Child(h)]
           G(f) == f = [n \in 0..N |-> IF n = 0 THEN base ELSE V(n, f[n - 1])]
           f == CHOOSE g : G(g)
           U == [order : [1..M -> S], root : 1..N]
           T == [n \in 0..N |-> {h \in U : /\ Rearranged(o, h.order, N, M, S)
                                           /\ HeapBut(h.order, r, h.root, N, less)
                                           /\ Heap(h.order, r, N, less) \/ h.root > n}]
           step == [n \in 1..N |-> [m \in T[n - 1] |-> V(n, m)]]
<1>0. N \in Nat /\ M \in Nat /\ \A i \in 1..N : i \in 1..M
  OBVIOUS
<1>1. base \in T[0]
  <2>1. base \in U /\ base.order = o /\ base.root = r
    OBVIOUS
  <2>2. Rearranged(o, o, N, M, S)
    BY DEF Rearranged
  <2>3. HeapBut(o, r, r, N, less)
    <3>1. r \in r..N
      OBVIOUS
    <3>2. ASSUME NEW p \in r..N, NEW c \in 1..N, p # r, c \in {2 * p, 2 * p + 1}
          PROVE  <<o[c], o[p]>> \in less
      BY <3>2 DEF Heap
    <3>3. ASSUME NEW p \in r..N, r \in {2 * p, 2 * p + 1} PROVE FALSE
      BY <3>3
    <3> QED
      BY <3>1, <3>2, <3>3 DEF HeapBut
  <2>4. 0 \in 0..N /\ r > 0
    OBVIOUS
  <2> HIDE DEF base, U
  <2> QED
    BY <2>1, <2>2, <2>3, <2>4
<1>2. ASSUME NEW n \in 1..N, NEW h \in T[n - 1] PROVE V(n, h) \in T[n]
  <2>1. n - 1 \in 0..N /\ n \in 0..N
    BY <1>0
  <2>2. /\ h \in U
        /\ Rearranged(o, h.order, N, M, S)
        /\ HeapBut(h.order, r, h.root, N, less)
        /\ Heap(h.order, r, N, less) \/ h.root > n - 1
    BY <2>1
  <2> DEFINE p == h.order
             k == h.root
             c == Child(h)
  <2>3. p \in [1..M -> S] /\ k \in 1..N
    BY <2>2
  <2>4. /\ \A i, j \in 1..M : i # j => p[i] # p[j]
        /\ HeapBut(p, r, k, N, less)
        /\ Heap(p, r, N, less) \/ k > n - 1
    BY <2>2 DEF Rearranged
  <2>5. c = IF 2 * k < N /\ <<p[2 * k], p[2 * k + 1]>> \in less THEN 2 * k + 1 ELSE 2 * k
    OBVIOUS
  <2>6. V(n, h) = IF 2 * k > N \/ <<p[k], p[c]>> \notin less THEN h
                  ELSE [order |-> Swapped(p, k, c), root |-> c]
    OBVIOUS
  <2> HIDE DEF p, k, c, V, U
  <2>7. ASSUME ~(2 * k > N)
        PROVE  /\ c \in 1..N /\ c \in {2 * k, 2 * k + 1}
               /\ \A d \in 1..N : d \in {2 * k, 2 * k + 1} /\ d # c => <<p[d], p[c]>> \in less
    <3>1. CASE 2 * k < N /\ <<p[2 * k], p[2 * k + 1]>> \in less
      <4>1. c = 2 * k + 1
        BY <2>5, <3>1
      <4>2. c \in 1..N
        BY <2>3, <3>1, <4>1
      <4>3. ASSUME NEW d \in 1..N, d \in {2 * k, 2 * k + 1}, d # c PROVE <<p[d], p[c]>> \in less
        <5>1. d = 2 * k
          BY <4>1, <4>3
        <5> QED
          BY <3>1, <4>1, <5>1
      <4> QED
        BY <4>1, <4>2, <4>3
    <3>2. CASE ~(2 * k < N /\ <<p[2 * k], p[2 * k + 1]>> \in less)
      <4>1. c = 2 * k
        BY <2>5, <3>2
      <4>2. c \in 1..N
        BY <2>3, <2>7, <4>1
      <4>3. ASSUME NEW d \in 1..N, d \in {2 * k, 2 * k + 1}, d # c PROVE <<p[d], p[c]>> \in less
        <5>1. d = 2 * k + 1 /\ 2 * k < N
          BY <2>3, <4>1, <4>3
        <5>2. <<p[c], p[d]>> \notin less
          BY <3>2, <4>1, <5>1
        <5>3. p[c] \in S /\ p[d] \in S /\ p[c] # p[d]
          BY <1>0, <2>3, <2>4, <4>2, <4>3
        <5> QED
          BY <5>2, <5>3 DEF Linear
      <4> QED
        BY <4>1, <4>2, <4>3
    <3> QED
      BY <3>1, <3>2
  <2>8. CASE 2 * k > N \/ <<p[k], p[c]>> \notin less
    <3>1. V(n, h) = h
      BY <2>6, <2>8
    <3>2. ASSUME NEW d \in 1..N, d \in {2 * k, 2 * k + 1} PROVE <<p[d], p[k]>> \in less
      <4>1. ~(2 * k > N)
        BY <2>3, <3>2
      <4>2. <<p[k], p[c]>> \notin less
        BY <2>8, <4>1
      <4>3. c \in 1..N /\ c # k
        BY <2>3, <2>7, <4>1
      <4>4. p[c] \in S /\ p[k] \in S /\ p[c] # p[k] /\ p[d] \in S
        BY <1>0, <2>3, <2>4, <4>3
      <4>5. <<p[c], p[k]>> \in less
        BY <4>2, <4>4 DEF Linear
      <4>6. d = c \/ <<p[d], p[c]>> \in less
        BY <2>7, <3>2, <4>1
      <4> QED
        BY <4>4, <4>5, <4>6 DEF Linear
    <3>3. Heap(p, r, N, less)
      <4>1. ASSUME NEW u \in r..N, NEW d \in 1..N, d \in {2 * u, 2 * u + 1}
            PROVE  <<p[d], p[u]>> \in less
        <5>1. CASE u = k
          BY <3>2, <4>1, <5>1
        <5>2. CASE u # k
          BY <2>4, <4>1, <5>2 DEF HeapBut
        <5> QED
          BY <5>1, <5>2
      <4> QED
        BY <4>1 DEF Heap
    <3> QED
      BY <2>1, <2>2, <3>1, <3>3 DEF p
  <2>9. CASE ~(2 * k > N \/ <<p[k], p[c]>> \notin less)
    <3>1. /\ c \in 1..N /\ c \in {2 * k, 2 * k + 1}
          /\ \A d \in 1..N : d \in {2 * k, 2 * k + 1} /\ d # c => <<p[d], p[c]>> \in less
      BY <2>7, <2>9
    <3>2. <<p[k], p[c]>> \in less
      BY <2>9
    <3>3. N \in 0..M
      BY <1>0
    <3>4. HeapBut(Swapped(p, k, c), r, c, N, less)
      BY <2>3, <2>4, <3>1, <3>2, <3>3, SiftStep
    <3>5. Rearranged(p, Swapped(p, k, c), N, M, S)
      BY <2>3, <2>4, <3>1, <3>3, SwapRearranges
    <3>6. Rearranged(o, Swapped(p, k, c), N, M, S)
      <4>1. Rearranged(o, p, N, M, S)
        BY <2>2 DEF p
      <4>2. N \in 0..N
        BY <1>0
      <4> QED
        BY <3>3, <3>5, <4>1, <4>2, RearrangedTwice
    <3>7. ~Heap(p, r, N, less)
      <4> SUFFICES ASSUME Heap(p, r, N, less) PROVE FALSE
        OBVIOUS
      <4>1. k \in r..N
        BY <2>4 DEF HeapBut
      <4>2. <<p[c], p[k]>> \in less
        BY <3>1, <4>1 DEF Heap
      <4>3. p[c] \in S /\ p[k] \in S
        BY <1>0, <2>3, <3>1
      <4> QED
        BY <3>2, <4>2, <4>3 DEF Linear
    <3>8. c > n
      BY <2>3, <2>4, <3>1, <3>7
    <3> DEFINE g == [order |-> Swapped(p, k, c), root |-> c]
    <3>9. g.order = Swapped(p, k, c) /\ g.root = c /\ g \in U
      BY <3>1, <3>6 DEF U, Rearranged
    <3>10. V(n, h) = g
      BY <2>6, <2>9
    <3> HIDE DEF g
    <3> QED
      BY <2>1, <3>4, <3>6, <3>8, <3>9, <3>10
  <2> QED
    BY <2>8, <2>9
<1>3. \A n \in 1..N : \A m \in T[n - 1] : step[n][m] = V(n, m) /\ step[n][m] \in T[n]
  BY <1>2
<1>4. PICK h : Solves(h, N, T, base, step)
  <2> HIDE DEF T, V, step, base, U
  <2>1. \A n \in 1..N : \A m \in T[n - 1] : step[n][m] \in T[n]
    BY <1>3
  <2> QED
    BY <1>0, <1>1, <2>1, RecursionWithin
<1>5. G(h)
  <2> HIDE DEF T, V, step, base, U
  <2>1. ASSUME NEW n \in 0..N PROVE h[n] = IF n = 0 THEN base ELSE V(n, h[n - 1])
    <3>1. CASE n = 0
      BY <1>4, <3>1 DEF Solves
    <3>2. CASE n # 0
      <4>1. n \in 1..N /\ n - 1 \in 0..N
        BY <1>0, <3>2
      <4>2. h[n - 1] \in T[n - 1] /\ h[n] = step[n][h[n - 1]]
        BY <1>4, <4>1 DEF Solves
      <4> QED
        BY <1>3, <3>2, <4>1, <4>2
    <3> QED
      BY <3>1, <3>2
  <2>2. h = [n \in 0..N |-> h[n]]
    BY <1>4 DEF Solves
  <2> QED
    BY <2>1, <2>2
<1>6. G(f)
  BY <1>5
<1>7. SiftDown(o, r, N, less) = f[N].order
  BY DEF SiftDown
<1> HIDE DEF f
<1>8. f[0] = base /\ \A n \in 1..N : f[n] = V(n, f[n - 1])
  <2> HIDE DEF V, base, U
  <2>1. ASSUME NEW n \in 1..N PROVE f[n] = V(n, f[n - 1])
    <3>1. n \in 0..N /\ n # 0
      BY <1>0
    <3> QED
      BY <1>6, <3>1
  <2>2. f[0] = base
    BY <1>0, <1>6
  <2> QED
    BY <2>1, <2>2
<1>9. \A n \in 0..N : f[n] \in T[n]
  <2> HIDE DEF T, V, step, base, U
  <2>1. \A n \in 1..N : f[n - 1] \in T[n - 1] => f[n] \in T[n]
    BY <1>3, <1>8
  <2>2. f[0] \in T[0]
    BY <1>1, <1>8
  <2> QED
    BY <1>0, <2>1, <2>2, HandedOn
<1>10. /\ f[N] \in U
       /\ Rearranged(o, f[N].order, N, M, S)
       /\ Heap(f[N].order, r, N, less) \/ f[N].root > N
  BY <1>0, <1>9
<1>11. ~(f[N].root > N)
  BY <1>0, <1>10
<1> QED
  BY <1>7, <1>10, <1>11

\* The element at the top of a heap is the greatest.
LEMMA HeapTop ==
    ASSUME NEW S, NEW less, Linear(less, S), NEW N \in Nat, NEW n \in 1..N,
           NEW o \in [1..N -> S], Heap(o, 1, n, less)
    PROVE  \A i \in 2..n : <<o[i], o[1]>> \in less
<1> DEFINE P == {m \in Nat : \A i \in 2..n : i <= m => <<o[i], o[1]>> \in less}
<1>1. 0 \in P
  OBVIOUS
<1>2. ASSUME NEW m \in Nat, m \in P PROVE m + 1 \in P
  <2> SUFFICES ASSUME NEW i \in 2..n, i = m + 1 PROVE <<o[i], o[1]>> \in less
    BY <1>2
  <2>1. PICK p \in 1..n : i \in {2 * p, 2 * p + 1} /\ p < i
    <3>1. i \div 2 \in 1..n /\ i \in {2 * (i \div 2), 2 * (i \div 2) + 1} /\ i \div 2 < i
      OBVIOUS
    <3> QED
      BY <3>1
  <2>2. i \in 1..n /\ <<o[i], o[p]>> \in less
    BY <2>1 DEF Heap
  <2>3. p = 1 \/ <<o[p], o[1]>> \in less
    <3>1. p # 1 => p \in 2..n /\ p <= m
      BY <2>1
    <3> QED
      BY <1>2, <3>1
  <2>4. o[i] \in S /\ o[p] \in S /\ o[1] \in S
    BY <2>2
  <2> QED
    BY <2>2, <2>3, <2>4 DEF Linear
<1>3. Nat \subseteq P
  <2> HIDE DEF P
  <2> QED
    BY <1>1, <1>2, SetInduction
<1>4. n \in P
  BY <1>3
<1> QED
  BY <1>4

\* The heap is built from the last parent up.
LEMMA HeapBuilt ==
    ASSUME NEW S, NEW less, Linear(less, S), NEW n \in Nat,
           NEW o \in [1..n -> S], Len(o) = n, \A i, j \in 1..n : i # j => o[i] # o[j]
    PROVE  Rearranged(o, Heapified(o, less), n, n, S) /\ Heap(Heapified(o, less), 1, n, less)
<1> DEFINE N == n \div 2
           base == o
           V(k, p) == SiftDown(p, N - k + 1, n, less)
           G(f) == f = [k \in 0..N |-> IF k = 0 THEN base ELSE V(k, f[k - 1])]
           f == CHOOSE g : G(g)
           T == [k \in 0..N |-> {p \in [1..n -> S] : /\ Rearranged(o, p, n, n, S)
                                                     /\ Heap(p, N - k + 1, n, less)}]
           step == [k \in 1..N |-> [p \in T[k - 1] |-> V(k, p)]]
<1>0. N \in Nat /\ 2 * (N + 1) > n /\ N <= n /\ n \in 0..n
  OBVIOUS
<1>1. base \in T[0]
  <2>1. Rearranged(o, o, n, n, S)
    BY DEF Rearranged
  <2> HIDE DEF N
  <2>2. Heap(o, N - 0 + 1, n, less)
    BY <1>0 DEF Heap
  <2> QED
    BY <1>0, <2>1, <2>2
<1>2. ASSUME NEW k \in 1..N, NEW p \in T[k - 1] PROVE V(k, p) \in T[k]
  <2> DEFINE r == N - k + 1
  <2>2. p \in [1..n -> S] /\ Rearranged(o, p, n, n, S) /\ Heap(p, N - (k - 1) + 1, n, less)
    <3>1. k - 1 \in 0..N
      OBVIOUS
    <3> HIDE DEF N
    <3> QED
      BY <1>2, <3>1
  <2> HIDE DEF N
  <2>3. r \in 1..n /\ r + 1 = N - (k - 1) + 1 /\ n \in 1..n /\ k \in 0..N
    BY <1>0
  <2>4. \A i, j \in 1..n : i # j => p[i] # p[j]
    BY <2>2 DEF Rearranged
  <2> HIDE DEF r
  <2>5. Heap(p, r + 1, n, less)
    BY <2>2, <2>3
  <2>6. /\ Rearranged(p, SiftDown(p, r, n, less), n, n, S)
        /\ Heap(SiftDown(p, r, n, less), r, n, less)
    BY <2>2, <2>3, <2>4, <2>5, SiftsDown
  <2>7. Rearranged(o, SiftDown(p, r, n, less), n, n, S)
    BY <1>0, <2>2, <2>6, RearrangedTwice
  <2>8. SiftDown(p, r, n, less) \in [1..n -> S]
    BY <2>7 DEF Rearranged
  <2> QED
    BY <2>3, <2>6, <2>7, <2>8 DEF r
<1>3. \A u \in 1..N : \A m \in T[u - 1] : step[u][m] = V(u, m) /\ step[u][m] \in T[u]
  BY <1>2
<1>4. PICK h : Solves(h, N, T, base, step)
  <2> HIDE DEF T, V, step, base, N
  <2>1. \A u \in 1..N : \A m \in T[u - 1] : step[u][m] \in T[u]
    BY <1>3
  <2> QED
    BY <1>0, <1>1, <2>1, RecursionWithin
<1>5. G(h)
  <2> HIDE DEF T, V, step, base, N
  <2>1. ASSUME NEW u \in 0..N PROVE h[u] = IF u = 0 THEN base ELSE V(u, h[u - 1])
    <3>1. CASE u = 0
      BY <1>4, <3>1 DEF Solves
    <3>2. CASE u # 0
      <4>1. u \in 1..N /\ u - 1 \in 0..N
        BY <1>0, <3>2
      <4>2. h[u - 1] \in T[u - 1] /\ h[u] = step[u][h[u - 1]]
        BY <1>4, <4>1 DEF Solves
      <4> QED
        BY <1>3, <3>2, <4>1, <4>2
    <3> QED
      BY <3>1, <3>2
  <2>2. h = [u \in 0..N |-> h[u]]
    BY <1>4 DEF Solves
  <2> QED
    BY <2>1, <2>2
<1>6. G(f)
  BY <1>5
<1>7. Heapified(o, less) = f[N]
  BY DEF Heapified
<1> HIDE DEF f
<1>8. f[0] = base /\ \A u \in 1..N : f[u] = V(u, f[u - 1])
  <2> HIDE DEF V, base, N
  <2>1. ASSUME NEW u \in 1..N PROVE f[u] = V(u, f[u - 1])
    <3>1. u \in 0..N /\ u # 0
      BY <1>0
    <3> QED
      BY <1>6, <3>1
  <2>2. f[0] = base
    BY <1>0, <1>6
  <2> QED
    BY <2>1, <2>2
<1>9. \A u \in 0..N : f[u] \in T[u]
  <2> HIDE DEF T, V, step, base, N
  <2>1. \A u \in 1..N : f[u - 1] \in T[u - 1] => f[u] \in T[u]
    BY <1>3, <1>8
  <2>2. f[0] \in T[0]
    BY <1>1, <1>8
  <2> QED
    BY <1>0, <2>1, <2>2, HandedOn
<1>10. Rearranged(o, f[N], n, n, S) /\ Heap(f[N], N - N + 1, n, less)
  BY SMTT(30), <1>0, <1>9
<1> QED
  BY <1>0, <1>7, <1>10

\* The n - k elements of the heap are less than the k behind, which are sorted.
HeapThenSorted(o, p, k, n, less, S) ==
    /\ Rearranged(o, p, n, n, S)
    /\ Heap(p, 1, n - k, less)
    /\ \A i, j \in 1..n : i < j /\ j > n - k => <<p[i], p[j]>> \in less

\* The top of the heap is moved behind it.
LEMMA HeapShrinks ==
    ASSUME NEW S, NEW less, Linear(less, S), NEW n \in Nat, NEW o, NEW p,
           NEW k \in 1..(n - 1), HeapThenSorted(o, p, k - 1, n, less, S)
    PROVE  HeapThenSorted(o, SiftDown(Swapped(p, 1, n - k + 1), 1, n - k, less), k, n, less, S)
<1> DEFINE m == n - k
           q == Swapped(p, 1, m + 1)
           z == SiftDown(q, 1, m, less)
<1>0. /\ m \in 1..n /\ m + 1 \in 1..n /\ 1 \in 1..n /\ n - (k - 1) = m + 1 /\ n \in 0..n
      /\ m + 1 # 1 /\ m \in 0..n /\ 1 \in 1..m /\ n - k + 1 = m + 1
  OBVIOUS
<1> HIDE DEF m
<1>1. /\ Rearranged(o, p, n, n, S)
      /\ Heap(p, 1, m + 1, less)
      /\ \A i, j \in 1..n : i < j /\ j > m + 1 => <<p[i], p[j]>> \in less
  BY <1>0 DEF HeapThenSorted
<1>2. p \in [1..n -> S] /\ \A i, j \in 1..n : i # j => p[i] # p[j]
  BY <1>1 DEF Rearranged
<1>3. Rearranged(p, q, n, n, S)
  BY <1>0, <1>2, SwapRearranges
<1>4. q[1] = p[m + 1] /\ q[m + 1] = p[1]
      /\ \A i \in 1..n : i # 1 /\ i # m + 1 => q[i] = p[i]
  BY <1>0, <1>2 DEF Swapped
<1>7. q \in [1..n -> S] /\ \A i, j \in 1..n : i # j => q[i] # q[j]
  BY <1>3 DEF Rearranged
<1> HIDE DEF q
<1>8. Heap(q, 2, m, less)
  <2> SUFFICES ASSUME NEW u \in 2..m, NEW c \in 1..m, c \in {2 * u, 2 * u + 1}
               PROVE  <<q[c], q[u]>> \in less
    BY DEF Heap
  <2>1. u \in 1..(m + 1) /\ c \in 1..(m + 1) /\ u \in 1..n /\ c \in 1..n
        /\ u # 1 /\ u # m + 1 /\ c # 1 /\ c # m + 1
    BY <1>0
  <2>2. <<p[c], p[u]>> \in less
    BY <1>1, <2>1 DEF Heap
  <2> QED
    BY <1>4, <2>1, <2>2
<1>9. Rearranged(q, z, m, n, S) /\ Heap(z, 1, m, less)
  <2>1. m \in 1..n /\ 1 \in 1..m /\ Heap(q, 1 + 1, m, less) /\ n \in Nat
    BY <1>0, <1>8
  <2> QED
    BY <1>7, <2>1, SiftsDown
<1> HIDE DEF z
<1>10. Rearranged(p, z, n, n, S)
  BY <1>0, <1>3, <1>9, RearrangedTwice
<1>11. Rearranged(o, z, n, n, S)
  BY <1>0, <1>1, <1>10, RearrangedTwice
<1>12. \A i \in 2..(m + 1) : <<p[i], p[1]>> \in less
  BY <1>0, <1>1, <1>2, HeapTop
<1>13. \A i \in 1..m : \E u \in 2..(m + 1) : z[i] = p[u]
  <2> TAKE i \in 1..m
  <2>1. PICK v \in 1..m : z[i] = q[v]
    BY <1>9 DEF Rearranged
  <2>2. CASE v = 1
    <3>1. m + 1 \in 2..(m + 1)
      BY <1>0
    <3> QED
      BY <1>4, <2>1, <2>2, <3>1
  <2>3. CASE v # 1
    <3>1. v \in 2..(m + 1) /\ v \in 1..n /\ v # m + 1
      BY <1>0, <2>3
    <3> QED
      BY <1>4, <2>1, <2>3, <3>1
  <2> QED
    BY <2>2, <2>3
<1>14. z[m + 1] = p[1] /\ \A i \in 1..n : i > m + 1 => z[i] = p[i]
  <2>1. \A i \in 1..n : i > m => z[i] = q[i]
    BY <1>9 DEF Rearranged
  <2>2. z[m + 1] = q[m + 1]
    BY <1>0, <2>1
  <2>3. ASSUME NEW i \in 1..n, i > m + 1 PROVE z[i] = p[i]
    BY <1>0, <1>4, <2>1, <2>3
  <2> QED
    BY <1>4, <2>2, <2>3
<1>15. ASSUME NEW i \in 1..n, NEW j \in 1..n, i < j, j > m PROVE <<z[i], z[j]>> \in less
  <2>1. CASE j = m + 1
    <3>1. i \in 1..m
      BY <1>0, <1>15, <2>1
    <3> QED
      BY <1>12, <1>13, <1>14, <2>1, <3>1
  <2>2. CASE j > m + 1
    <3>1. z[j] = p[j]
      BY <1>14, <2>2
    <3>2. PICK u \in 1..n : u < j /\ z[i] = p[u]
      <4>1. CASE i \in 1..m
        <5>1. PICK v \in 2..(m + 1) : z[i] = p[v]
          BY <1>13, <4>1
        <5>2. v \in 1..n /\ v < j
          BY <1>0, <2>2
        <5> QED
          BY <5>1, <5>2
      <4>2. CASE i = m + 1
        <5>1. 1 < j /\ z[i] = p[1]
          BY <1>0, <1>14, <2>2, <4>2
        <5> QED
          BY <1>0, <5>1
      <4>3. CASE i > m + 1
        BY <1>14, <1>15, <4>3
      <4> QED
        BY <1>0, <4>1, <4>2, <4>3
    <3> QED
      BY <1>1, <2>2, <3>1, <3>2
  <2> QED
    BY <1>0, <1>15, <2>1, <2>2
<1>16. HeapThenSorted(o, z, k, n, less, S)
  BY <1>9, <1>11, <1>15 DEF HeapThenSorted, m
<1> QED
  BY <1>0, <1>16 DEF z, q, m

\* A heap sort sorts different elements.
THEOREM HeapSorts ==
    ASSUME NEW S, NEW less, Linear(less, S), NEW o \in Seq(S), Distinct(o), Len(o) > 0
    PROVE  /\ HeapSort(o, less) \in Seq(S)
           /\ Len(HeapSort(o, less)) = Len(o)
           /\ SortedBy(HeapSort(o, less), less)
           /\ Elems(HeapSort(o, less)) = Elems(o)
<1> DEFINE n == Len(o)
           N == n - 1
           base == Heapified(o, less)
           V(k, p) == SiftDown(Swapped(p, 1, n - k + 1), 1, n - k, less)
           G(f) == f = [k \in 0..N |-> IF k = 0 THEN base ELSE V(k, f[k - 1])]
           f == CHOOSE g : G(g)
           T == [k \in 0..N |-> {p \in [1..n -> S] : HeapThenSorted(o, p, k, n, less, S)}]
           step == [k \in 1..N |-> [p \in T[k - 1] |-> V(k, p)]]
<1>0. n \in Nat /\ N \in Nat /\ n # 0 /\ n - N = 1 /\ n > 0
  OBVIOUS
<1>1. base \in T[0]
  <2>1. o \in [1..n -> S] /\ \A i, j \in 1..n : i # j => o[i] # o[j]
    BY DEF Distinct
  <2>2. Rearranged(o, base, n, n, S) /\ Heap(base, 1, n, less)
    <3> HIDE DEF base
    <3>1. n \in Nat /\ Len(o) = n
      BY <1>0
    <3> HIDE DEF n
    <3> QED
      BY <2>1, <3>1, HeapBuilt DEF base
  <2> HIDE DEF base, n
  <2>3. base \in [1..n -> S]
    BY <2>2 DEF Rearranged
  <2>4. HeapThenSorted(o, base, 0, n, less, S)
    <3>1. n - 0 = n
      BY <1>0
    <3>2. ASSUME NEW i \in 1..n, NEW j \in 1..n, j > n - 0 PROVE FALSE
      BY <1>0, <3>2
    <3> QED
      BY <2>2, <3>1, <3>2 DEF HeapThenSorted
  <2> HIDE DEF N
  <2> QED
    BY <1>0, <2>3, <2>4
<1>2. ASSUME NEW k \in 1..N, NEW p \in T[k - 1] PROVE V(k, p) \in T[k]
  <2>1. k - 1 \in 0..N /\ k \in 0..N /\ k \in 1..(n - 1)
    OBVIOUS
  <2>2. HeapThenSorted(o, p, k - 1, n, less, S)
    <3> HIDE DEF N
    <3> QED
      BY <2>1
  <2>3. HeapThenSorted(o, V(k, p), k, n, less, S)
    <3> HIDE DEF n
    <3> QED
      BY <1>0, <2>1, <2>2, HeapShrinks
  <2> HIDE DEF V, n, N
  <2>4. V(k, p) \in [1..n -> S]
    BY <2>3 DEF HeapThenSorted, Rearranged
  <2> QED
    BY <2>1, <2>3, <2>4
<1>3. \A u \in 1..N : \A m \in T[u - 1] : step[u][m] = V(u, m) /\ step[u][m] \in T[u]
  BY <1>2
<1>4. PICK h : Solves(h, N, T, base, step)
  <2> HIDE DEF T, V, step, base, N, n
  <2>1. \A u \in 1..N : \A m \in T[u - 1] : step[u][m] \in T[u]
    BY <1>3
  <2> QED
    BY <1>0, <1>1, <2>1, RecursionWithin
<1>5. G(h)
  <2> HIDE DEF T, V, step, base, N, n
  <2>1. ASSUME NEW u \in 0..N PROVE h[u] = IF u = 0 THEN base ELSE V(u, h[u - 1])
    <3>1. CASE u = 0
      BY <1>4, <3>1 DEF Solves
    <3>2. CASE u # 0
      <4>1. u \in 1..N /\ u - 1 \in 0..N
        BY <1>0, <3>2
      <4>2. h[u - 1] \in T[u - 1] /\ h[u] = step[u][h[u - 1]]
        BY <1>4, <4>1 DEF Solves
      <4> QED
        BY <1>3, <3>2, <4>1, <4>2
    <3> QED
      BY <3>1, <3>2
  <2>2. h = [u \in 0..N |-> h[u]]
    BY <1>4 DEF Solves
  <2> QED
    BY <2>1, <2>2
<1>6. G(f)
  BY <1>5
<1>7. HeapSort(o, less) = f[N]
  BY <1>0 DEF HeapSort
<1> HIDE DEF f
<1>8. f[0] = base /\ \A u \in 1..N : f[u] = V(u, f[u - 1])
  <2> HIDE DEF V, base, N, n
  <2>1. ASSUME NEW u \in 1..N PROVE f[u] = V(u, f[u - 1])
    <3>1. u \in 0..N /\ u # 0
      BY <1>0
    <3> QED
      BY <1>6, <3>1
  <2>2. f[0] = base
    BY <1>0, <1>6
  <2> QED
    BY <2>1, <2>2
<1>9. \A u \in 0..N : f[u] \in T[u]
  <2> HIDE DEF T, V, step, base, N, n
  <2>1. \A u \in 1..N : f[u - 1] \in T[u - 1] => f[u] \in T[u]
    BY <1>3, <1>8
  <2>2. f[0] \in T[0]
    BY <1>1, <1>8
  <2> QED
    BY <1>0, <2>1, <2>2, HandedOn
<1> DEFINE z == f[N]
<1>10. HeapThenSorted(o, z, N, n, less, S)
  BY <1>0, <1>9
<1> HIDE DEF z
<1>11. /\ z \in [1..n -> S]
       /\ \A i \in 1..n : \E j \in 1..n : z[i] = o[j]
       /\ \A j \in 1..n : \E i \in 1..n : z[i] = o[j]
  BY <1>10 DEF HeapThenSorted, Rearranged
<1>12. z \in Seq(S) /\ Len(z) = n
  <2> HIDE DEF n
  <2> QED
    BY <1>0, <1>11
<1>13. ASSUME NEW i \in 1..n, NEW j \in 1..n, i < j PROVE <<z[i], z[j]>> \in less
  <2>1. j > n - N
    BY <1>0, <1>13
  <2> QED
    BY <1>10, <1>13, <2>1 DEF HeapThenSorted
<1>14. SortedBy(z, less)
  BY <1>12, <1>13 DEF SortedBy
<1>15. Elems(z) = Elems(o)
  BY <1>11, <1>12 DEF Elems
<1> QED
  BY <1>7, <1>12, <1>14, <1>15 DEF z

-----------------------------------------------------------------------------
(* Parts of sequences.                                                     *)

\* Part of a sequence.
LEMMA SliceIs ==
    ASSUME NEW S, NEW s \in Seq(S), NEW a \in Nat, NEW c \in Nat, a + c <= Len(s)
    PROVE  /\ SubSeq(s, a + 1, a + c) \in Seq(S)
           /\ Len(SubSeq(s, a + 1, a + c)) = c
           /\ \A i \in 1..c : SubSeq(s, a + 1, a + c)[i] = s[a + i]
<1>1. \A i \in (a + 1)..(a + c) : s[i] \in S
  OBVIOUS
<1>2. SubSeq(s, a + 1, a + c) \in Seq(S)
  BY <1>1
<1>3. Len(SubSeq(s, a + 1, a + c)) = c
  OBVIOUS
<1>4. ASSUME NEW i \in 1..c PROVE SubSeq(s, a + 1, a + c)[i] = s[a + i]
  OBVIOUS
<1> QED
  BY <1>2, <1>3, <1>4

\* Two sequences, one behind the other.
LEMMA JoinedIs ==
    ASSUME NEW S, NEW s \in Seq(S), NEW t \in Seq(S)
    PROVE  /\ s \o t \in Seq(S)
           /\ Len(s \o t) = Len(s) + Len(t)
           /\ \A i \in 1..Len(s) : (s \o t)[i] = s[i]
           /\ \A i \in 1..Len(t) : (s \o t)[Len(s) + i] = t[i]
<1>1. s \o t \in Seq(S)
  OBVIOUS
<1>2. Len(s \o t) = Len(s) + Len(t)
  OBVIOUS
<1>3. ASSUME NEW i \in 1..Len(s) PROVE (s \o t)[i] = s[i]
  OBVIOUS
<1>4. ASSUME NEW i \in 1..Len(t) PROVE (s \o t)[Len(s) + i] = t[i]
  OBVIOUS
<1> QED
  BY <1>1, <1>2, <1>3, <1>4

\* Two sequences have the elements of both.
LEMMA ElemsOfJoined ==
    ASSUME NEW S, NEW s \in Seq(S), NEW t \in Seq(S)
    PROVE  Elems(s \o t) = Elems(s) \cup Elems(t)
<1> DEFINE m == Len(s)
           n == Len(t)
           z == s \o t
<1>1. Len(z) = m + n
  BY JoinedIs
<1>2. \A i \in 1..m : z[i] = s[i]
  BY JoinedIs
<1>3. \A i \in 1..n : z[m + i] = t[i]
  BY JoinedIs
<1>4. m \in Nat /\ n \in Nat
  OBVIOUS
<1> HIDE DEF z, m, n
<1>5. ASSUME NEW i \in 1..(m + n) PROVE z[i] \in Elems(s) \cup Elems(t)
  <2>1. CASE i \in 1..m
    BY <1>2, <2>1 DEF Elems, m
  <2>2. CASE i \notin 1..m
    <3>1. i - m \in 1..n /\ m + (i - m) = i
      BY <1>4, <2>2
    <3>2. z[i] = t[i - m]
      BY <1>3, <3>1
    <3> QED
      BY <3>1, <3>2 DEF Elems, n
  <2> QED
    BY <2>1, <2>2
<1>6. ASSUME NEW i \in 1..m PROVE s[i] \in Elems(z)
  <2>1. i \in 1..(m + n)
    BY <1>4
  <2> QED
    BY <1>1, <1>2, <2>1 DEF Elems
<1>7. ASSUME NEW i \in 1..n PROVE t[i] \in Elems(z)
  <2>1. m + i \in 1..(m + n)
    BY <1>4
  <2> QED
    BY <1>1, <1>3, <2>1 DEF Elems
<1>8. Elems(z) \subseteq Elems(s) \cup Elems(t)
  BY <1>1, <1>5 DEF Elems
<1>9. Elems(s) \subseteq Elems(z)
  BY <1>6 DEF Elems, m
<1>10. Elems(t) \subseteq Elems(z)
  BY <1>7 DEF Elems, n
<1> QED
  BY <1>8, <1>9, <1>10 DEF z

\* All elements of the first are less than those of the second.
LEMMA SortedJoined ==
    ASSUME NEW S, NEW less, NEW s \in Seq(S), NEW t \in Seq(S),
           SortedBy(s, less), SortedBy(t, less),
           \A i \in 1..Len(s), j \in 1..Len(t) : <<s[i], t[j]>> \in less
    PROVE  SortedBy(s \o t, less)
<1> DEFINE m == Len(s)
           n == Len(t)
           z == s \o t
<1>1. Len(z) = m + n
  BY JoinedIs
<1>2. \A i \in 1..m : z[i] = s[i]
  BY JoinedIs
<1>3. \A i \in 1..n : z[m + i] = t[i]
  BY JoinedIs
<1>4. m \in Nat /\ n \in Nat
  OBVIOUS
<1>5. /\ \A i, j \in 1..m : i < j => <<s[i], s[j]>> \in less
      /\ \A i, j \in 1..n : i < j => <<t[i], t[j]>> \in less
      /\ \A i \in 1..m, j \in 1..n : <<s[i], t[j]>> \in less
  BY DEF SortedBy
<1> HIDE DEF z, m, n
<1>6. ASSUME NEW i \in 1..(m + n), NEW j \in 1..(m + n), i < j PROVE <<z[i], z[j]>> \in less
  <2>1. CASE j \in 1..m
    <3>1. i \in 1..m
      BY <1>4, <1>6, <2>1
    <3> QED
      BY <1>2, <1>5, <1>6, <2>1, <3>1
  <2>2. CASE j \notin 1..m
    <3>1. j - m \in 1..n /\ m + (j - m) = j
      BY <1>4, <2>2
    <3>2. z[j] = t[j - m]
      BY <1>3, <3>1
    <3>3. CASE i \in 1..m
      BY <1>2, <1>5, <3>1, <3>2, <3>3
    <3>4. CASE i \notin 1..m
      <4>1. i - m \in 1..n /\ m + (i - m) = i /\ i - m < j - m
        BY <1>4, <1>6, <3>4
      <4>2. z[i] = t[i - m]
        BY <1>3, <4>1
      <4> QED
        BY <1>5, <3>1, <3>2, <4>1, <4>2
    <3> QED
      BY <3>3, <3>4
  <2> QED
    BY <2>1, <2>2
<1>7. SortedBy(z, less)
  BY <1>1, <1>6 DEF SortedBy
<1> QED
  BY <1>7 DEF z

=============================================================================
