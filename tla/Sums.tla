--------------------------------- MODULE Sums ---------------------------------
(***************************************************************************)
(* Sums that are recursive functions: on the natural numbers, as SizeOfAll *)
(* of OptimalRanges, and on finite sets, as the folds of the community     *)
(* modules that the accounts of PageCollect are.  That they exist, and     *)
(* what can be proved about them by induction.  Induction is over a set of *)
(* numbers, for the theorems of the library take a predicate as parameter. *)
(***************************************************************************)
EXTENDS Integers, FiniteSets, Functions, BagsExt, FiniteSetTheorems, TLAPS

\* A set that holds 0, and the successor of each of its numbers, holds all:
\* those up to x that it does not hold would go into fewer, each to the one
\* before.
LEMMA NumbersOf ==
    ASSUME NEW S, 0 \in S, \A n \in Nat : n \in S => n + 1 \in S
    PROVE  Nat \subseteq S
<1> SUFFICES ASSUME NEW x \in Nat, x \notin S
             PROVE  FALSE
  OBVIOUS
<1> DEFINE A == {n \in 0 .. x : n \notin S}
           B == A \ {x}
           f == [n \in A |-> n - 1]
<1>1. IsFiniteSet(A) /\ x \in A
  <2>1. 0 \in Int /\ x \in Int /\ A \in SUBSET (0 .. x) /\ x \in A
    OBVIOUS
  <2> HIDE DEF A
  <2> QED
    BY <2>1, FS_Interval, FS_Subset
<1>2. \A n \in A : n - 1 \in B
  <2> TAKE n \in A
  <2>1. n \in Nat /\ n <= x /\ n \notin S /\ n # 0
    OBVIOUS
  <2>2. n - 1 \in Nat /\ (n - 1) + 1 = n /\ n - 1 < x
    BY <2>1
  <2>3. n - 1 \notin S
    BY <2>1, <2>2
  <2> QED
    BY <2>2, <2>3
<1>3. f \in [A -> B]
  BY <1>2
<1>4. \A m, n \in A : f[m] = f[n] => m = n
  OBVIOUS
<1> HIDE DEF A, f
<1>5. IsFiniteSet(B) /\ Cardinality(B) < Cardinality(A)
  <2>1. IsFiniteSet(B) /\ Cardinality(B) = Cardinality(A) - 1
    BY <1>1, FS_RemoveElement
  <2>2. Cardinality(A) \in Nat
    BY <1>1, FS_CardinalityType
  <2> QED
    BY <2>1, <2>2
<1> HIDE DEF B
<1>6. \E m, n \in A : m # n /\ f[m] = f[n]
  BY <1>1, <1>3, <1>5, FS_PigeonHole
<1> QED
  BY <1>4, <1>6

\* A set of numbers has a least one.
LEMMA LeastNumber ==
    ASSUME NEW T, T \subseteq Nat, T # {}
    PROVE  \E n \in T : \A m \in T : n <= m
<1> SUFFICES ASSUME \A n \in T : \E m \in T : ~(n <= m)
             PROVE  FALSE
  OBVIOUS
<1> DEFINE S == {n \in Nat : \A m \in T : n <= m}
<1>1. 0 \in S
  OBVIOUS
<1>2. \A n \in Nat : n \in S => n + 1 \in S
  <2> SUFFICES ASSUME NEW n \in S, NEW m \in T
               PROVE  n + 1 <= m
    OBVIOUS
  <2>1. n \notin T
    OBVIOUS
  <2>2. n <= m /\ n # m /\ m \in Nat /\ n \in Nat
    BY <2>1
  <2> QED
    BY <2>2
<1>3. PICK m \in T : m \in Nat
  OBVIOUS
<1>4. m + 1 \in S
  <2> HIDE DEF S
  <2> QED
    BY <1>1, <1>2, <1>3, NumbersOf
<1> QED
  BY <1>3, <1>4
-----------------------------------------------------------------------------
(* Sums                                                                    *)

\* S[k] is the sum of the first k numbers of D.
IsSum(S, D) == S = [k \in Nat |-> IF k = 0 THEN 0 ELSE S[k - 1] + D[k]]

\* Two sums that start with the same number and add the same ones are equal.
LEMMA SameUpto ==
    ASSUME NEW g, NEW h, NEW D, NEW E, NEW n \in Nat, g[0] = h[0],
           \A k \in 1 .. n : D[k] = E[k],
           \A k \in 1 .. n : g[k] = g[k - 1] + D[k],
           \A k \in 1 .. n : h[k] = h[k - 1] + E[k]
    PROVE  g[n] = h[n]
<1> DEFINE T == {k \in Nat : k <= n => g[k] = h[k]}
<1>1. 0 \in T
  OBVIOUS
<1>2. \A k \in Nat : k \in T => k + 1 \in T
  <2> SUFFICES ASSUME NEW k \in Nat, k \in T, k + 1 <= n
               PROVE  g[k + 1] = h[k + 1]
    OBVIOUS
  <2>1. g[k] = h[k] /\ k + 1 \in 1 .. n /\ (k + 1) - 1 = k
    OBVIOUS
  <2>2. g[k + 1] = g[k] + D[k + 1] /\ h[k + 1] = h[k] + E[k + 1]
    BY <2>1
  <2> QED
    BY <2>1, <2>2
<1>3. n \in T
  <2> HIDE DEF T
  <2> QED
    BY <1>1, <1>2, NumbersOf
<1> QED
  BY <1>3

\* There is one.
LEMMA SumExists ==
    ASSUME NEW D
    PROVE  \E S : IsSum(S, D)
<1> DEFINE Upto(h, n) ==
               /\ h = [k \in 0 .. n |-> h[k]]
               /\ h[0] = 0
               /\ \A k \in 1 .. n : h[k] = h[k - 1] + D[k]
           Some == {n \in Nat : \E h : Upto(h, n)}
<1>1. 0 \in Some
  <2>1. Upto([k \in 0 .. 0 |-> 0], 0)
    OBVIOUS
  <2> HIDE DEF Upto
  <2> QED
    BY <2>1
<1>2. \A n \in Nat : n \in Some => n + 1 \in Some
  <2> SUFFICES ASSUME NEW n \in Nat, NEW h, Upto(h, n)
               PROVE  \E g : Upto(g, n + 1)
    OBVIOUS
  <2> DEFINE g == [k \in 0 .. n + 1 |-> IF k = n + 1 THEN h[n] + D[n + 1]
                                                     ELSE h[k]]
  <2>1. \A k \in 1 .. n + 1 : g[k] = g[k - 1] + D[k]
    <3> SUFFICES ASSUME NEW k \in 1 .. n + 1
                 PROVE  g[k] = g[k - 1] + D[k]
      OBVIOUS
    <3>1. k - 1 \in 0 .. n + 1 /\ k \in 0 .. n + 1 /\ k - 1 # n + 1
      OBVIOUS
    <3>2. g[k - 1] = h[k - 1]
      BY <3>1
    <3>3. CASE k = n + 1
      <4>1. g[k] = h[n] + D[n + 1] /\ k - 1 = n
        BY <3>1, <3>3
      <4> QED
        BY <3>2, <3>3, <4>1
    <3>4. CASE k # n + 1
      <4>1. g[k] = h[k] /\ k \in 1 .. n
        BY <3>1, <3>4
      <4> QED
        BY <3>2, <4>1
    <3> QED
      BY <3>3, <3>4
  <2>2. g[0] = 0
    OBVIOUS
  <2>3. g = [k \in 0 .. n + 1 |-> g[k]]
    OBVIOUS
  <2> HIDE DEF g
  <2> QED
    BY <2>1, <2>2, <2>3
<1> HIDE DEF Upto
<1>3. \A n \in Nat : \E h : Upto(h, n)
  <2> HIDE DEF Some
  <2>1. Nat \subseteq Some
    BY <1>1, <1>2, NumbersOf
  <2> QED
    BY <2>1 DEF Some
<1> DEFINE H(n) == CHOOSE h : Upto(h, n)
<1>4. \A n \in Nat : Upto(H(n), n)
  BY <1>3
<1>5. \A n \in Nat : H(n + 1)[n] = H(n)[n]
  <2> TAKE n \in Nat
  <2>1. n + 1 \in Nat /\ n \in 0 .. n
    OBVIOUS
  <2>2. Upto(H(n), n) /\ Upto(H(n + 1), n + 1)
    BY <1>4, <2>1
  <2> HIDE DEF H
  <2>3. H(n)[0] = 0 /\ \A k \in 1 .. n : H(n)[k] = H(n)[k - 1] + D[k]
    BY <2>2 DEF Upto
  <2>4. H(n + 1)[0] = 0
    BY <2>2 DEF Upto
  <2>5. \A k \in 1 .. n : H(n + 1)[k] = H(n + 1)[k - 1] + D[k]
    <3>1. \A k \in 1 .. n + 1 : H(n + 1)[k] = H(n + 1)[k - 1] + D[k]
      BY <2>2 DEF Upto
    <3>2. \A k \in 1 .. n : k \in 1 .. n + 1
      OBVIOUS
    <3> QED
      BY <3>1, <3>2
  <2>6. H(n + 1)[n] = H(n)[n]
    <3> DEFINE g == H(n + 1)
               h == H(n)
    <3>1. g[0] = h[0]
      BY <2>3, <2>4
    <3> HIDE DEF g, h
    <3> QED
      BY <2>3, <2>5, <3>1, SameUpto DEF g, h
  <2> QED
    BY <2>6
<1> DEFINE S == [k \in Nat |-> H(k)[k]]
<1>6. S[0] = 0
  BY <1>4 DEF Upto
<1>7. \A k \in Nat \ {0} : S[k] = S[k - 1] + D[k]
  <2> TAKE k \in Nat \ {0}
  <2>1. k - 1 \in Nat /\ (k - 1) + 1 = k /\ k \in 1 .. k
    OBVIOUS
  <2>2. H(k)[k] = H(k)[k - 1] + D[k]
    BY <1>4, <2>1 DEF Upto
  <2>3. H(k)[k - 1] = H(k - 1)[k - 1]
    BY <1>5, <2>1
  <2> HIDE DEF H
  <2> QED
    BY <2>1, <2>2, <2>3
<1>8. S = [k \in Nat |-> S[k]]
  OBVIOUS
<1> HIDE DEF S
<1>9. IsSum(S, D)
  BY <1>6, <1>7, <1>8 DEF IsSum
<1> QED
  BY <1>9

\* Numbers have a number as their sum.
LEMMA SumIsNumber ==
    ASSUME NEW S, NEW D, IsSum(S, D), NEW n \in Nat,
           \A k \in 1 .. n : D[k] \in Int
    PROVE  S[n] \in Int
<1> DEFINE T == {k \in Nat : k <= n => S[k] \in Int}
<1>1. 0 \in T
  BY DEF IsSum
<1>2. \A k \in Nat : k \in T => k + 1 \in T
  <2> SUFFICES ASSUME NEW k \in Nat, k \in T, k + 1 <= n
               PROVE  S[k + 1] \in Int
    OBVIOUS
  <2>1. S[k] \in Int /\ k + 1 \in 1 .. n /\ k + 1 # 0 /\ (k + 1) - 1 = k
        /\ k + 1 \in Nat
    OBVIOUS
  <2>2. S[k + 1] = S[k] + D[k + 1]
    BY <2>1 DEF IsSum
  <2> QED
    BY <2>1, <2>2
<1>3. n \in T
  <2> HIDE DEF T
  <2> QED
    BY <1>1, <1>2, NumbersOf
<1> QED
  BY <1>3

\* The sum of the first n numbers depends on them only.
LEMMA SumOfSame ==
    ASSUME NEW S, NEW D, IsSum(S, D), NEW R, NEW E, IsSum(R, E),
           NEW n \in Nat, \A k \in 1 .. n : D[k] = E[k]
    PROVE  S[n] = R[n]
<1>1. S[0] = R[0]
  BY DEF IsSum
<1>2. \A k \in 1 .. n : S[k] = S[k - 1] + D[k] /\ R[k] = R[k - 1] + E[k]
  BY DEF IsSum
<1> QED
  BY <1>1, <1>2, SameUpto
-----------------------------------------------------------------------------
(* Sums over a finite set, as the folds of the community modules take them: *)
(* the element that CHOOSE takes first, and the sum of the others.          *)

First(s) == CHOOSE x \in s : TRUE

IsSetSum(I, F, S) ==
    I = [s \in SUBSET S |->
            IF s = {} THEN 0 ELSE F[First(s)] + I[s \ {First(s)}]]

LEMMA FirstOf == ASSUME NEW s, s # {} PROVE First(s) \in s
  BY DEF First

\* The sets with n elements, one after the other.
LEMMA RemoveOne ==
    ASSUME NEW S, IsFiniteSet(S), NEW s \in SUBSET S, NEW x \in s,
           NEW n \in Nat, Cardinality(s) = n + 1
    PROVE  /\ s \ {x} \in SUBSET S /\ IsFiniteSet(s \ {x})
           /\ Cardinality(s \ {x}) = n
<1>1. IsFiniteSet(s)
  BY FS_Subset
<1>2. IsFiniteSet(s \ {x}) /\ Cardinality(s \ {x}) = Cardinality(s) - 1
  BY <1>1, FS_RemoveElement
<1> QED
  BY <1>2

LEMMA SizeOfSubset ==
    ASSUME NEW S, IsFiniteSet(S), NEW s \in SUBSET S
    PROVE  Cardinality(s) \in Nat /\ (Cardinality(s) = 0 <=> s = {})
<1>1. IsFiniteSet(s)
  BY FS_Subset
<1> QED
  BY <1>1, FS_CardinalityType, FS_EmptySet

\* There is such a sum.
LEMMA SetSumExists ==
    ASSUME NEW F, NEW S, IsFiniteSet(S)
    PROVE  \E I : IsSetSum(I, F, S)
<1> DEFINE Sub(n) == {s \in SUBSET S : Cardinality(s) <= n}
           Upto(h, n) ==
               /\ h = [s \in Sub(n) |-> h[s]]
               /\ h[{}] = 0
               /\ \A s \in Sub(n) \ {{}} : h[s] = F[First(s)] + h[s \ {First(s)}]
           Some == {n \in Nat : \E h : Upto(h, n)}
<1>a. \A s \in SUBSET S : Cardinality(s) \in Nat
                             /\ (Cardinality(s) = 0 <=> s = {})
  BY SizeOfSubset
<1>b. \A n \in Nat, s \in SUBSET S : s # {} /\ Cardinality(s) <= n + 1
          => s \ {First(s)} \in Sub(n)
  <2> SUFFICES ASSUME NEW n \in Nat, NEW s \in SUBSET S, s # {},
                      Cardinality(s) <= n + 1
               PROVE  s \ {First(s)} \in Sub(n)
    OBVIOUS
  <2>1. Cardinality(s) \in Nat /\ Cardinality(s) # 0
    BY <1>a
  <2> DEFINE m == Cardinality(s) - 1
  <2>2. m \in Nat /\ Cardinality(s) = m + 1 /\ m <= n
    BY <2>1
  <2> HIDE DEF m
  <2>3. s \ {First(s)} \in SUBSET S /\ Cardinality(s \ {First(s)}) = m
    BY <2>2, FirstOf, RemoveOne
  <2> QED
    BY <2>2, <2>3
<1>1. 0 \in Some
  <2> DEFINE h == [s \in Sub(0) |-> 0]
  <2>1. \A s \in Sub(0) : s = {}
    BY <1>a
  <2>2. {} \in Sub(0)
    BY <1>a
  <2> HIDE DEF Sub
  <2>3. h = [s \in Sub(0) |-> h[s]] /\ h[{}] = 0
    BY <2>2
  <2> HIDE DEF h
  <2>4. Upto(h, 0)
    BY <2>1, <2>3
  <2> HIDE DEF Upto
  <2> QED
    BY <2>4
<1>2. \A n \in Nat : n \in Some => n + 1 \in Some
  <2> HIDE DEF Upto
  <2> SUFFICES ASSUME NEW n \in Nat, NEW h, Upto(h, n)
               PROVE  \E g : Upto(g, n + 1)
    OBVIOUS
  <2> USE DEF Upto
  <2> DEFINE g == [s \in Sub(n + 1) |->
                      IF s = {} THEN 0 ELSE F[First(s)] + h[s \ {First(s)}]]
  <2>1. {} \in Sub(n + 1) /\ Sub(n) \subseteq Sub(n + 1)
    BY <1>a
  <2>2. g[{}] = 0 /\ g = [s \in Sub(n + 1) |-> g[s]]
    BY <2>1
  <2>3. \A s \in Sub(n) : g[s] = h[s]
    <3> TAKE s \in Sub(n)
    <3>1. s \in Sub(n + 1)
      BY <2>1
    <3> HIDE DEF Sub
    <3>2. g[s] = IF s = {} THEN 0 ELSE F[First(s)] + h[s \ {First(s)}]
      BY <3>1
    <3> HIDE DEF g
    <3> QED
      BY <3>2
  <2>4. \A s \in Sub(n + 1) \ {{}} : g[s] = F[First(s)] + g[s \ {First(s)}]
    <3> TAKE s \in Sub(n + 1) \ {{}}
    <3>1. s \ {First(s)} \in Sub(n)
      BY <1>b
    <3> HIDE DEF Sub
    <3>2. g[s] = F[First(s)] + h[s \ {First(s)}]
      OBVIOUS
    <3> HIDE DEF g
    <3> QED
      BY <2>3, <3>1, <3>2
  <2> HIDE DEF g, Sub
  <2>5. Upto(g, n + 1)
    BY <2>2, <2>4
  <2> HIDE DEF Upto
  <2> QED
    BY <2>5
<1>3. Cardinality(S) \in Nat /\ Sub(Cardinality(S)) = SUBSET S
  BY FS_CardinalityType, FS_Subset
<1>4. \E h : Upto(h, Cardinality(S))
  <2> HIDE DEF Some, Upto
  <2>1. Nat \subseteq Some
    BY <1>1, <1>2, NumbersOf
  <2> QED
    BY <1>3, <2>1 DEF Some
<1>5. PICK h : Upto(h, Cardinality(S))
  BY <1>4
<1>6. IsSetSum(h, F, S)
  <2> DEFINE k == [s \in SUBSET S |->
                      IF s = {} THEN 0 ELSE F[First(s)] + h[s \ {First(s)}]]
  <2>1. \A s \in SUBSET S : h[s] = k[s]
    BY <1>3, <1>5
  <2>2. h = [s \in SUBSET S |-> h[s]]
    BY <1>3, <1>5
  <2> HIDE DEF Upto
  <2>3. h = k
    BY <2>1, <2>2
  <2> HIDE DEF k
  <2> QED
    BY <2>3 DEF IsSetSum, k
<1> QED
  BY <1>6

\* Two such sums agree on a set whose elements have the same numbers.
LEMMA SetSumOfSame ==
    ASSUME NEW I, NEW F, NEW S, IsFiniteSet(S), IsSetSum(I, F, S),
           NEW J, NEW G, NEW T, IsSetSum(J, G, T),
           NEW s \in SUBSET S, s \subseteq T, \A x \in s : F[x] = G[x]
    PROVE  I[s] = J[s]
<1> DEFINE Equal == {n \in Nat :
                        \A t \in SUBSET s : Cardinality(t) = n => I[t] = J[t]}
<1>1. IsFiniteSet(s)
  BY FS_Subset
<1>2. \A t \in SUBSET s : t \in SUBSET S /\ t \in SUBSET T
  OBVIOUS
<1>3. 0 \in Equal
  <2>1. \A t \in SUBSET s : Cardinality(t) = 0 => t = {}
    BY <1>1, SizeOfSubset
  <2>2. I[{}] = 0 /\ J[{}] = 0
    BY DEF IsSetSum
  <2> QED
    BY <2>1, <2>2
<1>4. \A n \in Nat : n \in Equal => n + 1 \in Equal
  <2> SUFFICES ASSUME NEW n \in Nat,
                      \A t \in SUBSET s : Cardinality(t) = n => I[t] = J[t],
                      NEW t \in SUBSET s, Cardinality(t) = n + 1
               PROVE  I[t] = J[t]
    OBVIOUS
  <2>1. t # {}
    BY <1>1, SizeOfSubset
  <2>2. First(t) \in t
    BY <2>1, FirstOf
  <2>3. t \ {First(t)} \in SUBSET s /\ Cardinality(t \ {First(t)}) = n
    BY <1>1, <2>2, RemoveOne
  <2>4. I[t \ {First(t)}] = J[t \ {First(t)}]
    BY <2>3
  <2>5. I[t] = F[First(t)] + I[t \ {First(t)}]
    BY <1>2, <2>1 DEF IsSetSum
  <2>6. J[t] = G[First(t)] + J[t \ {First(t)}]
    BY <1>2, <2>1 DEF IsSetSum
  <2> QED
    BY <2>2, <2>4, <2>5, <2>6
<1>5. Nat \subseteq Equal
  <2> HIDE DEF Equal
  <2> QED
    BY <1>3, <1>4, NumbersOf
<1>6. Cardinality(s) \in Nat
  BY <1>1, FS_CardinalityType
<1> QED
  BY <1>5, <1>6

\* The sum of numbers is one.
LEMMA SetSumIsNumber ==
    ASSUME NEW I, NEW F, NEW S, IsFiniteSet(S), IsSetSum(I, F, S),
           \A x \in S : F[x] \in Int
    PROVE  \A s \in SUBSET S : I[s] \in Int
<1> DEFINE Num(s) == I[s] \in Int
           All == {n \in Nat :
                      \A s \in SUBSET S : Cardinality(s) = n => Num(s)}
<1>1. 0 \in All
  <2>1. \A s \in SUBSET S : Cardinality(s) = 0 => s = {}
    BY SizeOfSubset
  <2>2. I[{}] = 0
    BY DEF IsSetSum
  <2>3. Num({})
    BY <2>2
  <2> QED
    BY <2>1, <2>3
<1>2. \A s \in SUBSET S : s # {} /\ Num(s \ {First(s)}) => Num(s)
  <2> SUFFICES ASSUME NEW s \in SUBSET S, s # {}, Num(s \ {First(s)})
               PROVE  Num(s)
    OBVIOUS
  <2>1. I[s] = F[First(s)] + I[s \ {First(s)}]
    BY DEF IsSetSum
  <2>2. F[First(s)] \in Int
    BY FirstOf
  <2> QED
    BY <2>1, <2>2
<1> HIDE DEF Num
<1>3. \A n \in Nat : n \in All => n + 1 \in All
  <2> SUFFICES ASSUME NEW n \in Nat,
                      \A s \in SUBSET S : Cardinality(s) = n => Num(s),
                      NEW s \in SUBSET S, Cardinality(s) = n + 1
               PROVE  Num(s)
    OBVIOUS
  <2>1. s # {}
    BY SizeOfSubset
  <2> DEFINE c == First(s)
             r == s \ {c}
  <2>2. c \in s
    BY <2>1, FirstOf
  <2> HIDE DEF c
  <2>3. r \in SUBSET S /\ Cardinality(r) = n
    BY <2>2, RemoveOne
  <2>4. Num(r)
    BY <2>3
  <2> QED
    BY <1>2, <2>1, <2>4 DEF c
<1>4. Nat \subseteq All
  <2> HIDE DEF All
  <2> QED
    BY <1>1, <1>3, NumbersOf
<1>5. \A s \in SUBSET S : Cardinality(s) \in Nat
  BY SizeOfSubset
<1>6. \A s \in SUBSET S : Num(s)
  BY <1>4, <1>5
<1> QED
  BY <1>6 DEF Num

\* The element that is taken first does not matter.
LEMMA SetSumOfAny ==
    ASSUME NEW I, NEW F, NEW S, IsFiniteSet(S), IsSetSum(I, F, S),
           \A x \in S : F[x] \in Int, NEW t \in SUBSET S, NEW y \in t
    PROVE  I[t] = F[y] + I[t \ {y}]
<1> DEFINE Any(s) == \A x \in s : I[s] = F[x] + I[s \ {x}]
           All == {n \in Nat : \A s \in SUBSET S : Cardinality(s) = n => Any(s)}
<1>1. 0 \in All
  <2>1. \A s \in SUBSET S : Cardinality(s) = 0 => s = {}
    BY SizeOfSubset
  <2> QED
    BY <2>1
<1>2. \A n \in Nat : n \in All => n + 1 \in All
  <2> HIDE DEF Any
  <2> SUFFICES ASSUME NEW n \in Nat,
                      \A s \in SUBSET S : Cardinality(s) = n => Any(s),
                      NEW s \in SUBSET S, Cardinality(s) = n + 1
               PROVE  Any(s)
    OBVIOUS
  <2> DEFINE c == First(s)
  <2>1. s # {}
    BY SizeOfSubset
  <2>2. c \in s
    BY <2>1, FirstOf
  <2>3. I[s] = F[c] + I[s \ {c}]
    BY <2>1 DEF IsSetSum
  <2> HIDE DEF c
  <2>4. \A x \in s : Any(s \ {x})
    <3> TAKE x \in s
    <3>1. s \ {x} \in SUBSET S /\ Cardinality(s \ {x}) = n
      BY RemoveOne
    <3> QED
      BY <3>1
  <2>5. ASSUME NEW x \in s, x # c
        PROVE  I[s] = F[x] + I[s \ {x}]
    <3> DEFINE r == (s \ {c}) \ {x}
    <3>1. x \in s \ {c} /\ c \in s \ {x} /\ r = (s \ {x}) \ {c}
      BY <2>2, <2>5
    <3>2. I[s \ {c}] = F[x] + I[r]
      BY <2>2, <2>4, <3>1 DEF Any
    <3>3. I[s \ {x}] = F[c] + I[r]
      BY <2>4, <2>5, <3>1 DEF Any
    <3>4. r \in SUBSET S
      OBVIOUS
    <3> HIDE DEF r
    <3>5. I[r] \in Int
      BY <3>4, SetSumIsNumber
    <3>6. F[x] \in Int /\ F[c] \in Int
      BY <2>2
    <3>7. I[s] = F[c] + (F[x] + I[r])
      BY <2>3, <3>2
    <3> QED
      BY <3>3, <3>5, <3>6, <3>7
  <2> QED
    BY <2>3, <2>5 DEF Any
<1>3. Nat \subseteq All
  <2> HIDE DEF All
  <2> QED
    BY <1>1, <1>2, NumbersOf
<1>4. Cardinality(t) \in Nat
  BY SizeOfSubset
<1> QED
  BY <1>3, <1>4
-----------------------------------------------------------------------------
(* SumFunction and SumBag of the community modules                         *)

\* SumFunction is such a sum.
LEMMA SumFunctionIsSetSum ==
    ASSUME NEW f, IsFiniteSet(DOMAIN f)
    PROVE  \E I : IsSetSum(I, f, DOMAIN f) /\ SumFunction(f) = I[DOMAIN f]
<1> DEFINE I == CHOOSE I : IsSetSum(I, f, DOMAIN f)
<1>1. SumFunction(f) = I[DOMAIN f]
  BY DEF SumFunction, SumFunctionOnSet, FoldFunctionOnSet, MapThenFoldSet,
         IsSetSum, First
<1>2. \E J : IsSetSum(J, f, DOMAIN f)
  BY SetSumExists
<1>3. IsSetSum(I, f, DOMAIN f)
  BY <1>2
<1> QED
  BY <1>1, <1>3

LEMMA SumOfNothing ==
    ASSUME NEW f, DOMAIN f = {}
    PROVE  SumFunction(f) = 0
<1>1. IsFiniteSet(DOMAIN f)
  BY FS_EmptySet
<1>2. PICK I : IsSetSum(I, f, DOMAIN f) /\ SumFunction(f) = I[DOMAIN f]
  BY <1>1, SumFunctionIsSetSum
<1> QED
  BY <1>2 DEF IsSetSum

LEMMA SumFunctionIsNumber ==
    ASSUME NEW f, IsFiniteSet(DOMAIN f), \A x \in DOMAIN f : f[x] \in Int
    PROVE  SumFunction(f) \in Int
<1>1. PICK I : IsSetSum(I, f, DOMAIN f) /\ SumFunction(f) = I[DOMAIN f]
  BY SumFunctionIsSetSum
<1>2. \A s \in SUBSET DOMAIN f : I[s] \in Int
  BY <1>1, SetSumIsNumber
<1> QED
  BY <1>1, <1>2

\* The sum of f and of a g that has a number at x more.
LEMMA SumOneMore ==
    ASSUME NEW f, IsFiniteSet(DOMAIN f), NEW g, NEW x, x \notin DOMAIN f,
           DOMAIN g = DOMAIN f \cup {x}, \A y \in DOMAIN f : g[y] = f[y],
           \A y \in DOMAIN g : g[y] \in Int
    PROVE  SumFunction(g) = SumFunction(f) + g[x]
<1>1. IsFiniteSet(DOMAIN g)
  BY FS_AddElement
<1>2. PICK I : IsSetSum(I, f, DOMAIN f) /\ SumFunction(f) = I[DOMAIN f]
  BY SumFunctionIsSetSum
<1>3. PICK J : IsSetSum(J, g, DOMAIN g) /\ SumFunction(g) = J[DOMAIN g]
  BY <1>1, SumFunctionIsSetSum
<1>4. J[DOMAIN g] = g[x] + J[DOMAIN g \ {x}]
  <2> DEFINE S == DOMAIN g
  <2>1. IsFiniteSet(S) /\ IsSetSum(J, g, S) /\ (\A y \in S : g[y] \in Int)
        /\ x \in S
    BY <1>1, <1>3
  <2> HIDE DEF S
  <2>2. J[S] = g[x] + J[S \ {x}]
    BY <2>1, SetSumOfAny
  <2> QED
    BY <2>2 DEF S
<1>5. DOMAIN g \ {x} = DOMAIN f
  OBVIOUS
<1>6. I[DOMAIN f] = J[DOMAIN f]
  <2>1. DOMAIN f \in SUBSET DOMAIN f /\ DOMAIN f \subseteq DOMAIN g
    OBVIOUS
  <2>2. \A y \in DOMAIN f : f[y] = g[y]
    OBVIOUS
  <2> QED
    BY <1>2, <1>3, <2>1, <2>2, SetSumOfSame
<1>7. SumFunction(f) \in Int /\ g[x] \in Int
  BY SumFunctionIsNumber
<1> QED
  BY <1>2, <1>3, <1>4, <1>5, <1>6, <1>7

\* The sum of f and of a g that has another number at x.
LEMMA SumOneChanged ==
    ASSUME NEW f, IsFiniteSet(DOMAIN f), NEW g, NEW x \in DOMAIN f,
           DOMAIN g = DOMAIN f, \A y \in DOMAIN f \ {x} : g[y] = f[y],
           \A y \in DOMAIN f : f[y] \in Int, \A y \in DOMAIN g : g[y] \in Int
    PROVE  SumFunction(g) = SumFunction(f) - f[x] + g[x]
<1> DEFINE D == DOMAIN f \ {x}
           h == [y \in D |-> f[y]]
<1>1. DOMAIN h = D /\ \A y \in D : h[y] = f[y] /\ h[y] = g[y]
  OBVIOUS
<1>2. D \cup {x} = DOMAIN f /\ x \notin D /\ IsFiniteSet(D)
  BY FS_Subset
<1> HIDE DEF h
<1>3. SumFunction(f) = SumFunction(h) + f[x]
  BY <1>1, <1>2, SumOneMore
<1>4. SumFunction(g) = SumFunction(h) + g[x]
  BY <1>1, <1>2, SumOneMore
<1>5. SumFunction(h) \in Int
  BY <1>1, <1>2, SumFunctionIsNumber
<1>6. f[x] \in Int /\ g[x] \in Int
  OBVIOUS
<1> QED
  BY <1>3, <1>4, <1>5, <1>6

\* What n copies of x make up, as SumBag adds them.
IsPow(p, x) == p = [n \in Nat \ {0} |-> (IF n = 1 THEN 0 ELSE p[n - 1]) + x]
Pow(x)      == CHOOSE p : IsPow(p, x)

LEMMA PowIsProduct ==
    ASSUME NEW x \in Int
    PROVE  \A n \in Nat \ {0} : Pow(x)[n] = x * n
<1> DEFINE q == [n \in Nat \ {0} |-> x * n]
           p == Pow(x)
<1>1. \E r : IsPow(r, x)
  <2>1. \A n \in Nat \ {0} :
            x * n = (IF n = 1 THEN 0 ELSE q[n - 1]) + x
    <3> SUFFICES ASSUME NEW n \in Nat \ {0}
                 PROVE  x * n = (IF n = 1 THEN 0 ELSE q[n - 1]) + x
      OBVIOUS
    <3>1. CASE n = 1
      BY <3>1
    <3>2. CASE n # 1
      <4>1. n - 1 \in Nat \ {0}
        BY <3>2
      <4>2. q[n - 1] = x * (n - 1)
        BY <4>1
      <4>3. x * n = x * (n - 1) + x
        OBVIOUS
      <4> QED
        BY <3>2, <4>2, <4>3
    <3> QED
      BY <3>1, <3>2
  <2>2. IsPow(q, x)
    BY <2>1 DEF IsPow
  <2> QED
    BY <2>2
<1>2. IsPow(p, x)
  BY <1>1 DEF Pow
<1> HIDE DEF p
<1> DEFINE All == {n \in Nat : n # 0 => p[n] = x * n}
<1>3. 0 \in All
  OBVIOUS
<1>4. \A n \in Nat : n \in All => n + 1 \in All
  <2> SUFFICES ASSUME NEW n \in Nat, n # 0 => p[n] = x * n
               PROVE  p[n + 1] = x * (n + 1)
    OBVIOUS
  <2>1. n + 1 \in Nat \ {0} /\ (n + 1) - 1 = n
    OBVIOUS
  <2>2. p[n + 1] = (IF n + 1 = 1 THEN 0 ELSE p[(n + 1) - 1]) + x
    BY <1>2, <2>1 DEF IsPow
  <2>3. x * (n + 1) = x * n + x /\ x * 0 = 0 /\ x * n \in Int
    OBVIOUS
  <2> QED
    BY <2>1, <2>2, <2>3
<1>5. Nat \subseteq All
  <2> HIDE DEF All
  <2> QED
    BY <1>3, <1>4, NumbersOf
<1> QED
  BY <1>5 DEF p

IsBag(B) ==
    /\ IsFiniteSet(DOMAIN B) /\ DOMAIN B \subseteq Int
    /\ \A x \in DOMAIN B : B[x] \in Nat \ {0}

\* SumBag adds every element as often as it is in the bag.
LEMMA SumBagIsSum ==
    ASSUME NEW B, IsBag(B)
    PROVE  SumBag(B) = SumFunction([x \in DOMAIN B |-> x * B[x]])
<1> DEFINE D == DOMAIN B
           F == [x \in D |-> x * B[x]]
           BagSum(I) ==
               I = [s \in SUBSET D |->
                       IF s = {} THEN 0
                       ELSE Pow(First(s))[B[First(s)]] + I[s \ {First(s)}]]
           I == CHOOSE I : BagSum(I)
<1>1. SumBag(B) = I[D]
  BY DEF SumBag, FoldBag, MapThenFoldBag, MapThenFoldSet, First, Pow, IsPow
<1>2. DOMAIN F = D /\ IsFiniteSet(D)
  BY DEF IsBag
<1>3. \A s \in SUBSET D : s # {} => Pow(First(s))[B[First(s)]] = F[First(s)]
  <2> SUFFICES ASSUME NEW s \in SUBSET D, s # {}
               PROVE  Pow(First(s))[B[First(s)]] = F[First(s)]
    OBVIOUS
  <2> DEFINE x == First(s)
  <2>1. x \in D
    BY FirstOf
  <2> HIDE DEF x
  <2>2. x \in Int /\ B[x] \in Nat \ {0}
    BY <2>1 DEF IsBag
  <2>3. Pow(x)[B[x]] = x * B[x]
    BY <2>2, PowIsProduct
  <2>4. F[x] = x * B[x]
    BY <2>1
  <2> QED
    BY <2>3, <2>4 DEF x
<1> HIDE DEF F
<1>4. \A J : BagSum(J) <=> IsSetSum(J, F, D)
  <2> TAKE J
  <2>1. [s \in SUBSET D |->
             IF s = {} THEN 0
             ELSE Pow(First(s))[B[First(s)]] + J[s \ {First(s)}]]
        = [s \in SUBSET D |->
             IF s = {} THEN 0 ELSE F[First(s)] + J[s \ {First(s)}]]
    BY <1>3
  <2> QED
    BY <2>1 DEF IsSetSum
<1>5. \E J : BagSum(J)
  BY <1>2, <1>4, SetSumExists
<1> HIDE DEF BagSum, D
<1>6. BagSum(I)
  BY <1>5
<1> HIDE DEF I
<1>7. PICK J : IsSetSum(J, F, D) /\ SumFunction(F) = J[D]
  BY <1>2, SumFunctionIsSetSum
<1>8. I[D] = J[D]
  <2>1. D \in SUBSET D
    OBVIOUS
  <2> QED
    BY <1>2, <1>4, <1>6, <1>7, <2>1, SetSumOfSame
<1> QED
  BY <1>1, <1>7, <1>8 DEF F, D

\* A bag with one more x, in one formula.
LEMMA BagAddIs ==
    ASSUME NEW B, NEW x
    PROVE  BagAdd(B, x) =
               [y \in DOMAIN B \cup {x} |->
                    IF y # x THEN B[y]
                    ELSE IF x \in DOMAIN B THEN B[x] + 1 ELSE 1]
<1>1. CASE x \in DOMAIN B
  <2>1. BagAdd(B, x) = [y \in DOMAIN B |-> IF y = x THEN B[y] + 1 ELSE B[y]]
    BY <1>1 DEF BagAdd
  <2>2. DOMAIN B \cup {x} = DOMAIN B
    BY <1>1
  <2> QED
    BY <1>1, <2>1, <2>2
<1>2. CASE x \notin DOMAIN B
  <2>1. BagAdd(B, x) =
            [y \in DOMAIN B \cup {x} |-> IF y = x THEN 1 ELSE B[y]]
    BY <1>2 DEF BagAdd
  <2> QED
    BY <1>2, <2>1
<1> QED
  BY <1>1, <1>2

\* The order in which two elements are added does not matter.
LEMMA BagAddCommutes ==
    ASSUME NEW B, NEW x, NEW y
    PROVE  BagAdd(BagAdd(B, x), y) = BagAdd(BagAdd(B, y), x)
<1>1. CASE x = y
  BY <1>1
<1>2. CASE x # y
  <2> DEFINE X == BagAdd(B, x)
             Y == BagAdd(B, y)
             More(z) == IF z \in DOMAIN B THEN B[z] + 1 ELSE 1
             Both == [z \in (DOMAIN B \cup {x}) \cup {y} |->
                          IF z = x THEN More(x) ELSE IF z = y THEN More(y)
                          ELSE B[z]]
  <2>1. X = [z \in DOMAIN B \cup {x} |-> IF z # x THEN B[z] ELSE More(x)]
        /\ Y = [z \in DOMAIN B \cup {y} |-> IF z # y THEN B[z] ELSE More(y)]
    BY BagAddIs
  <2>2. BagAdd(X, y) = [z \in DOMAIN X \cup {y} |-> IF z # y THEN X[z]
                            ELSE IF y \in DOMAIN X THEN X[y] + 1 ELSE 1]
        /\ BagAdd(Y, x) = [z \in DOMAIN Y \cup {x} |-> IF z # x THEN Y[z]
                            ELSE IF x \in DOMAIN Y THEN Y[x] + 1 ELSE 1]
    BY BagAddIs
  <2> HIDE DEF X, Y
  <2>3. DOMAIN X = DOMAIN B \cup {x} /\ DOMAIN Y = DOMAIN B \cup {y}
        /\ (\A z \in DOMAIN X : X[z] = IF z # x THEN B[z] ELSE More(x))
        /\ (\A z \in DOMAIN Y : Y[z] = IF z # y THEN B[z] ELSE More(y))
    BY <2>1
  <2>4. BagAdd(X, y) = Both
    BY <1>2, <2>2, <2>3
  <2>5. BagAdd(Y, x) = Both
    BY <1>2, <2>2, <2>3
  <2> QED
    BY <2>4, <2>5 DEF X, Y
<1> QED
  BY <1>1, <1>2

\* One more element adds itself to the sum.
LEMMA SumBagAdd ==
    ASSUME NEW B, IsBag(B), NEW x \in Int
    PROVE  /\ IsBag(BagAdd(B, x))
           /\ SumBag(B) \in Int
           /\ SumBag(BagAdd(B, x)) = SumBag(B) + x
<1> DEFINE A == BagAdd(B, x)
           F == [y \in DOMAIN B |-> y * B[y]]
           G == [y \in DOMAIN A |-> y * A[y]]
<1>1. /\ DOMAIN A = DOMAIN B \cup {x}
      /\ \A y \in DOMAIN B \ {x} : A[y] = B[y]
      /\ A[x] = IF x \in DOMAIN B THEN B[x] + 1 ELSE 1
  BY BagAddIs
<1> HIDE DEF A
<1>2. IsBag(A)
  <2>1. IsFiniteSet(DOMAIN A)
    BY <1>1, FS_AddElement DEF IsBag
  <2>2. DOMAIN A \subseteq Int
    BY <1>1 DEF IsBag
  <2>3. \A y \in DOMAIN A : A[y] \in Nat \ {0}
    <3>1. \A y \in DOMAIN B : B[y] \in Nat /\ B[y] # 0
      BY DEF IsBag
    <3>2. A[x] \in Nat /\ A[x] # 0
      BY <1>1, <3>1
    <3>3. \A y \in DOMAIN B \ {x} : A[y] \in Nat /\ A[y] # 0
      BY <1>1, <3>1
    <3> QED
      BY <1>1, <3>2, <3>3
  <2> QED
    BY <2>1, <2>2, <2>3 DEF IsBag
<1>3. SumBag(A) = SumFunction(G) /\ SumBag(B) = SumFunction(F)
  BY <1>2, SumBagIsSum
<1>4. DOMAIN F = DOMAIN B /\ DOMAIN G = DOMAIN A /\ IsFiniteSet(DOMAIN B)
  BY DEF IsBag
<1>5. (\A y \in DOMAIN B : F[y] \in Int) /\ (\A y \in DOMAIN A : G[y] \in Int)
  BY <1>2 DEF IsBag
<1>6. \A y \in DOMAIN B \ {x} : F[y] = G[y]
  BY <1>1
<1>7. x \in DOMAIN B => F[x] = x * B[x] /\ G[x] = F[x] + x
  <2> SUFFICES ASSUME x \in DOMAIN B
               PROVE  F[x] = x * B[x] /\ G[x] = F[x] + x
    OBVIOUS
  <2>1. F[x] = x * B[x] /\ G[x] = x * A[x]
    BY <1>1
  <2>2. B[x] \in Nat /\ A[x] = B[x] + 1
    BY <1>1 DEF IsBag
  <2>3. \A n \in Nat : x * (n + 1) = x * n + x
    OBVIOUS
  <2> HIDE DEF F, G
  <2> QED
    BY <2>1, <2>2, <2>3
<1>8. x \notin DOMAIN B => G[x] = x
  <2>1. x \notin DOMAIN B => A[x] = 1
    BY <1>1
  <2>2. G[x] = x * A[x] /\ x * 1 = x
    BY <1>1
  <2> HIDE DEF G
  <2> QED
    BY <2>1, <2>2
<1> HIDE DEF F, G
<1>9. SumFunction(F) \in Int
  BY <1>4, <1>5, SumFunctionIsNumber
<1>10. CASE x \in DOMAIN B
  <2>1. DOMAIN A = DOMAIN B
    BY <1>1, <1>10
  <2>2. SumFunction(G) = SumFunction(F) - F[x] + G[x]
    BY <1>4, <1>5, <1>6, <1>10, <2>1, SumOneChanged
  <2>3. F[x] \in Int
    BY <1>5, <1>10
  <2> QED
    BY <1>2, <1>3, <1>7, <1>9, <1>10, <2>2, <2>3 DEF A
<1>11. CASE x \notin DOMAIN B
  <2>1. SumFunction(G) = SumFunction(F) + G[x]
    BY <1>1, <1>4, <1>5, <1>6, <1>11, SumOneMore
  <2> QED
    BY <1>2, <1>3, <1>8, <1>9, <1>11, <2>1 DEF A
<1> QED
  BY <1>10, <1>11
-----------------------------------------------------------------------------
\* The numbers that f has for the elements of D, each as often as it has it.
BagOf(f, D) ==
    [n \in {f[i] : i \in D} |-> Cardinality({i \in D : f[i] = n})]

LEMMA BagOfNothing == ASSUME NEW f PROVE BagOf(f, {}) = [x \in {} |-> 1]
<1>1. {f[i] : i \in {}} = {}
  OBVIOUS
<1> QED
  BY <1>1 DEF BagOf

LEMMA BagOfSame ==
    ASSUME NEW f, NEW g, NEW D, \A i \in D : f[i] = g[i]
    PROVE  BagOf(f, D) = BagOf(g, D)
<1>1. {f[i] : i \in D} = {g[i] : i \in D}
  OBVIOUS
<1>2. \A n : {i \in D : f[i] = n} = {i \in D : g[i] = n}
  OBVIOUS
<1> QED
  BY <1>1, <1>2 DEF BagOf

LEMMA BagOfAdd ==
    ASSUME NEW f, NEW D, IsFiniteSet(D), NEW x, x \notin D
    PROVE  BagOf(f, D \cup {x}) = BagAdd(BagOf(f, D), f[x])
<1> DEFINE E == D \cup {x}
           B == BagOf(f, D)
           A == BagAdd(B, f[x])
           In(n) == {i \in D : f[i] = n}
           InE(n) == {i \in E : f[i] = n}
<1>1. DOMAIN B = {f[i] : i \in D}
      /\ \A n \in DOMAIN B : B[n] = Cardinality(In(n))
  BY DEF BagOf
<1>2. A = [n \in DOMAIN B \cup {f[x]} |->
              IF n # f[x] THEN B[n]
              ELSE IF f[x] \in DOMAIN B THEN B[f[x]] + 1 ELSE 1]
  BY BagAddIs
<1> HIDE DEF B, A
<1>3. {f[i] : i \in E} = DOMAIN B \cup {f[x]}
  BY <1>1
<1>4. \A n : n # f[x] => InE(n) = In(n)
  OBVIOUS
<1>5. InE(f[x]) = In(f[x]) \cup {x} /\ x \notin In(f[x])
  OBVIOUS
<1>6. IsFiniteSet(In(f[x])) /\ (f[x] \notin DOMAIN B => In(f[x]) = {})
  BY <1>1, FS_Subset
<1> HIDE DEF In, InE
<1>7. Cardinality(InE(f[x])) = Cardinality(In(f[x])) + 1
  BY <1>5, <1>6, FS_AddElement
<1>8. Cardinality({}) = 0
  BY FS_EmptySet
<1>9. \A n \in DOMAIN B \cup {f[x]} :
          Cardinality(InE(n)) = IF n # f[x] THEN B[n]
              ELSE IF f[x] \in DOMAIN B THEN B[f[x]] + 1 ELSE 1
  BY <1>1, <1>4, <1>6, <1>7, <1>8
<1>10. BagOf(f, E) = [n \in DOMAIN B \cup {f[x]} |-> Cardinality(InE(n))]
  BY <1>3 DEF BagOf, InE
<1> HIDE DEF E
<1>11. BagOf(f, E) = A
  BY <1>2, <1>9, <1>10
<1> QED
  BY <1>11 DEF A, B, E
-----------------------------------------------------------------------------
(* SumFunctionOnSet, of one function on different sets                     *)

LEMMA OnSetIsSetSum ==
    ASSUME NEW f, NEW T, IsFiniteSet(T)
    PROVE  \E I : IsSetSum(I, f, T) /\ SumFunctionOnSet(f, T) = I[T]
<1> DEFINE I == CHOOSE I : IsSetSum(I, f, T)
<1>1. SumFunctionOnSet(f, T) = I[T]
  BY DEF SumFunctionOnSet, FoldFunctionOnSet, MapThenFoldSet, IsSetSum, First
<1>2. IsSetSum(I, f, T)
  BY SetSumExists
<1> QED
  BY <1>1, <1>2

LEMMA OnSetNothing ==
    ASSUME NEW f
    PROVE  SumFunctionOnSet(f, {}) = 0
<1>1. IsFiniteSet({})
  BY FS_EmptySet
<1>2. PICK I : IsSetSum(I, f, {}) /\ SumFunctionOnSet(f, {}) = I[{}]
  BY <1>1, OnSetIsSetSum
<1> QED
  BY <1>2 DEF IsSetSum

LEMMA OnSetSame ==
    ASSUME NEW f, NEW g, NEW T, IsFiniteSet(T), \A x \in T : f[x] = g[x]
    PROVE  SumFunctionOnSet(f, T) = SumFunctionOnSet(g, T)
<1>1. PICK I : IsSetSum(I, f, T) /\ SumFunctionOnSet(f, T) = I[T]
  BY OnSetIsSetSum
<1>2. PICK J : IsSetSum(J, g, T) /\ SumFunctionOnSet(g, T) = J[T]
  BY OnSetIsSetSum
<1>3. T \in SUBSET T /\ T \subseteq T
  OBVIOUS
<1> QED
  BY <1>1, <1>2, <1>3, SetSumOfSame

LEMMA OnSetNumber ==
    ASSUME NEW f, NEW T, IsFiniteSet(T), \A x \in T : f[x] \in Int
    PROVE  SumFunctionOnSet(f, T) \in Int
<1>1. PICK I : IsSetSum(I, f, T) /\ SumFunctionOnSet(f, T) = I[T]
  BY OnSetIsSetSum
<1> QED
  BY <1>1, SetSumIsNumber

LEMMA OnSetOneMore ==
    ASSUME NEW f, NEW T, IsFiniteSet(T), NEW y, y \notin T,
           \A x \in T \cup {y} : f[x] \in Int
    PROVE  SumFunctionOnSet(f, T \cup {y}) = SumFunctionOnSet(f, T) + f[y]
<1> DEFINE U == T \cup {y}
<1>1. IsFiniteSet(U) /\ y \in U /\ U \ {y} = T /\ \A x \in U : f[x] \in Int
  BY FS_AddElement
<1> HIDE DEF U
<1>2. PICK I : IsSetSum(I, f, T) /\ SumFunctionOnSet(f, T) = I[T]
  BY OnSetIsSetSum
<1>3. PICK J : IsSetSum(J, f, U) /\ SumFunctionOnSet(f, U) = J[U]
  BY <1>1, OnSetIsSetSum
<1>4. J[U] = f[y] + J[U \ {y}]
  <2>1. U \in SUBSET U
    OBVIOUS
  <2> QED
    BY <1>1, <1>3, <2>1, SetSumOfAny
<1>5. I[T] = J[T]
  <2>1. T \in SUBSET T /\ T \subseteq U
    BY <1>1
  <2> QED
    BY <1>2, <1>3, <2>1, SetSumOfSame
<1>6. SumFunctionOnSet(f, T) \in Int /\ f[y] \in Int
  <2>1. \A x \in T : f[x] \in Int
    OBVIOUS
  <2> QED
    BY <2>1, OnSetNumber
<1>7. SumFunctionOnSet(f, U) = SumFunctionOnSet(f, T) + f[y]
  <2>1. U \ {y} = T
    BY <1>1
  <2>2. J[U] = f[y] + J[T]
    BY <1>4, <2>1
  <2>3. SumFunctionOnSet(f, U) = f[y] + SumFunctionOnSet(f, T)
    BY <1>2, <1>3, <1>5, <2>2
  <2> QED
    BY <1>6, <2>3
<1> QED
  BY <1>7 DEF U

\* The sums on two sets that have nothing in common.
LEMMA OnSetBoth ==
    ASSUME NEW f, NEW S, IsFiniteSet(S), NEW T, IsFiniteSet(T), S \cap T = {},
           \A x \in S \cup T : f[x] \in Int
    PROVE  SumFunctionOnSet(f, S \cup T)
               = SumFunctionOnSet(f, S) + SumFunctionOnSet(f, T)
<1> DEFINE Adds(t) == SumFunctionOnSet(f, S \cup t)
                          = SumFunctionOnSet(f, S) + SumFunctionOnSet(f, t)
           All == {n \in Nat : \A t \in SUBSET T : Cardinality(t) = n => Adds(t)}
<1>0. SumFunctionOnSet(f, S) \in Int
  BY OnSetNumber
<1>1. 0 \in All
  <2>1. \A t \in SUBSET T : Cardinality(t) = 0 => t = {}
    BY SizeOfSubset
  <2>2. Adds({})
    <3>1. S \cup {} = S
      OBVIOUS
    <3> QED
      BY <1>0, <3>1, OnSetNothing
  <2> HIDE DEF Adds
  <2> QED
    BY <2>1, <2>2
<1>2. \A n \in Nat : n \in All => n + 1 \in All
  <2> HIDE DEF Adds
  <2> SUFFICES ASSUME NEW n \in Nat, n \in All, NEW t \in SUBSET T,
                      Cardinality(t) = n + 1
               PROVE  Adds(t)
    OBVIOUS
  <2>1. t # {}
    BY FS_EmptySet
  <2>2. PICK y : y \in t
    BY <2>1
  <2> DEFINE r == t \ {y}
  <2>3. r \in SUBSET T /\ IsFiniteSet(r) /\ Cardinality(r) = n
    BY <2>2, RemoveOne
  <2>4. Adds(r)
    BY <2>3
  <2>5. /\ t = r \cup {y} /\ y \notin r /\ y \notin S \cup r
        /\ S \cup t = (S \cup r) \cup {y}
    BY <2>2
  <2>6. IsFiniteSet(S \cup r)
    BY <2>3, FS_Union
  <2>7. /\ \A x \in r \cup {y} : f[x] \in Int
        /\ \A x \in (S \cup r) \cup {y} : f[x] \in Int
    BY <2>2
  <2> HIDE DEF r
  <2>8. SumFunctionOnSet(f, t) = SumFunctionOnSet(f, r) + f[y]
    BY <2>3, <2>5, <2>7, OnSetOneMore
  <2>9. SumFunctionOnSet(f, S \cup t) = SumFunctionOnSet(f, S \cup r) + f[y]
    <3> DEFINE R == S \cup r
    <3>1. IsFiniteSet(R) /\ y \notin R /\ \A x \in R \cup {y} : f[x] \in Int
      BY <2>5, <2>6, <2>7
    <3> HIDE DEF R
    <3>2. SumFunctionOnSet(f, R \cup {y}) = SumFunctionOnSet(f, R) + f[y]
      BY <3>1, OnSetOneMore
    <3> QED
      BY <2>5, <3>2 DEF R
  <2>10. SumFunctionOnSet(f, r) \in Int /\ f[y] \in Int
    BY <2>3, <2>7, OnSetNumber
  <2> QED
    BY <1>0, <2>4, <2>8, <2>9, <2>10 DEF Adds
<1>3. Cardinality(T) \in All
  <2> HIDE DEF All
  <2> QED
    BY <1>1, <1>2, NumbersOf, FS_CardinalityType
<1>4. Adds(T)
  <2> HIDE DEF Adds
  <2> QED
    BY <1>3
<1> QED
  BY <1>4

LEMMA OnSetNothingAdded ==
    ASSUME NEW f, NEW T, IsFiniteSet(T), \A x \in T : f[x] = 0
    PROVE  SumFunctionOnSet(f, T) = 0
<1> DEFINE Zero(t) == SumFunctionOnSet(f, t) = 0
           All == {n \in Nat : \A t \in SUBSET T : Cardinality(t) = n => Zero(t)}
<1>1. 0 \in All
  <2>1. \A t \in SUBSET T : Cardinality(t) = 0 => t = {}
    BY SizeOfSubset
  <2>2. Zero({})
    BY OnSetNothing
  <2> HIDE DEF Zero
  <2> QED
    BY <2>1, <2>2
<1>2. \A n \in Nat : n \in All => n + 1 \in All
  <2> HIDE DEF Zero
  <2> SUFFICES ASSUME NEW n \in Nat, n \in All, NEW t \in SUBSET T,
                      Cardinality(t) = n + 1
               PROVE  Zero(t)
    OBVIOUS
  <2>1. t # {}
    BY FS_EmptySet
  <2>2. PICK y : y \in t
    BY <2>1
  <2> DEFINE r == t \ {y}
  <2>3. r \in SUBSET T /\ IsFiniteSet(r) /\ Cardinality(r) = n
    BY <2>2, RemoveOne
  <2>4. Zero(r)
    BY <2>3
  <2>5. t = r \cup {y} /\ y \notin r /\ f[y] = 0
    BY <2>2
  <2>6. \A x \in r \cup {y} : f[x] \in Int
    BY <2>5
  <2> HIDE DEF r
  <2>7. SumFunctionOnSet(f, r \cup {y}) = SumFunctionOnSet(f, r) + f[y]
    BY <2>3, <2>5, <2>6, OnSetOneMore
  <2> QED
    BY <2>4, <2>5, <2>7 DEF Zero
<1>3. Cardinality(T) \in All
  <2> HIDE DEF All
  <2> QED
    BY <1>1, <1>2, NumbersOf, FS_CardinalityType
<1>4. Zero(T)
  <2> HIDE DEF Zero
  <2> QED
    BY <1>3
<1> QED
  BY <1>4

LEMMA OnSetNat ==
    ASSUME NEW f, NEW T, IsFiniteSet(T), \A x \in T : f[x] \in Nat
    PROVE  SumFunctionOnSet(f, T) \in Nat
<1> DEFINE Num(t) == SumFunctionOnSet(f, t) \in Nat
           All == {n \in Nat : \A t \in SUBSET T : Cardinality(t) = n => Num(t)}
<1>1. 0 \in All
  <2>1. \A t \in SUBSET T : Cardinality(t) = 0 => t = {}
    BY SizeOfSubset
  <2>2. Num({})
    BY OnSetNothing
  <2> HIDE DEF Num
  <2> QED
    BY <2>1, <2>2
<1>2. \A n \in Nat : n \in All => n + 1 \in All
  <2> HIDE DEF Num
  <2> SUFFICES ASSUME NEW n \in Nat, n \in All, NEW t \in SUBSET T,
                      Cardinality(t) = n + 1
               PROVE  Num(t)
    OBVIOUS
  <2>1. t # {}
    BY FS_EmptySet
  <2>2. PICK y : y \in t
    BY <2>1
  <2> DEFINE r == t \ {y}
  <2>3. r \in SUBSET T /\ IsFiniteSet(r) /\ Cardinality(r) = n
    BY <2>2, RemoveOne
  <2>4. Num(r)
    BY <2>3
  <2>5. t = r \cup {y} /\ y \notin r /\ f[y] \in Nat
    BY <2>2
  <2>6. \A x \in r \cup {y} : f[x] \in Int
    BY <2>5
  <2> HIDE DEF r
  <2>7. SumFunctionOnSet(f, r \cup {y}) = SumFunctionOnSet(f, r) + f[y]
    BY <2>3, <2>5, <2>6, OnSetOneMore
  <2> QED
    BY <2>4, <2>5, <2>7 DEF Num
<1>3. Cardinality(T) \in All
  <2> HIDE DEF All
  <2> QED
    BY <1>1, <1>2, NumbersOf, FS_CardinalityType
<1>4. Num(T)
  <2> HIDE DEF Num
  <2> QED
    BY <1>3
<1> QED
  BY <1>4

\* Counts do not add up to less on a larger set.
LEMMA OnSetMore ==
    ASSUME NEW f, NEW T, IsFiniteSet(T), \A x \in T : f[x] \in Nat,
           NEW S, S \subseteq T
    PROVE  /\ SumFunctionOnSet(f, S) \in Nat
           /\ SumFunctionOnSet(f, S) <= SumFunctionOnSet(f, T)
<1> DEFINE R == T \ S
<1>1. /\ IsFiniteSet(S) /\ IsFiniteSet(R) /\ S \cap R = {} /\ S \cup R = T
  BY FS_Subset
<1>2. /\ \A x \in S : f[x] \in Nat
      /\ \A x \in R : f[x] \in Nat
      /\ \A x \in S \cup R : f[x] \in Int
  OBVIOUS
<1> HIDE DEF R
<1>3. SumFunctionOnSet(f, S \cup R)
          = SumFunctionOnSet(f, S) + SumFunctionOnSet(f, R)
  BY <1>1, <1>2, OnSetBoth
<1>4. SumFunctionOnSet(f, S) \in Nat /\ SumFunctionOnSet(f, R) \in Nat
  BY <1>1, <1>2, OnSetNat
<1>5. SumFunctionOnSet(f, T) = SumFunctionOnSet(f, S) + SumFunctionOnSet(f, R)
  BY <1>1, <1>3
<1> QED
  BY <1>4, <1>5
-----------------------------------------------------------------------------
(* Numbers                                                                 *)

LEMMA GreatestOf ==
    ASSUME NEW T, T \subseteq Nat, IsFiniteSet(T), T # {}
    PROVE  \E m \in T : \A x \in T : x <= m
<1> DEFINE f == [x \in T |-> x]
           Above == {n \in Nat : \A x \in T : x <= n}
<1>1. \A x \in T : f[x] \in Nat /\ f[x] = x
  OBVIOUS
<1> HIDE DEF f
<1>2. SumFunctionOnSet(f, T) \in Nat
  BY <1>1, OnSetNat
<1>3. \A x \in T : x <= SumFunctionOnSet(f, T)
  <2> TAKE x \in T
  <2>1. {x} \subseteq T /\ IsFiniteSet({}) /\ x \notin {} /\ {} \cup {x} = {x}
    BY FS_EmptySet
  <2>2. SumFunctionOnSet(f, {x}) <= SumFunctionOnSet(f, T)
    BY <1>1, <2>1, OnSetMore
  <2>3. SumFunctionOnSet(f, {} \cup {x}) = SumFunctionOnSet(f, {}) + f[x]
    <3>1. \A y \in {} \cup {x} : f[y] \in Int
      BY <1>1
    <3> QED
      BY <2>1, <3>1, OnSetOneMore
  <2>4. SumFunctionOnSet(f, {x}) = x
    BY <1>1, <2>1, <2>3, OnSetNothing
  <2> QED
    BY <2>2, <2>4
<1>4. Above # {} /\ Above \subseteq Nat
  BY <1>2, <1>3
<1>5. \E m \in T : \A x \in T : x <= m
  <2>1. PICK m \in Above : \A n \in Above : m <= n
    <3> HIDE DEF Above
    <3> QED
      BY <1>4, LeastNumber
  <2>2. m \in Nat /\ \A x \in T : x <= m
    BY <2>1
  <2>3. CASE m \in T
    BY <2>2, <2>3
  <2>4. CASE m \notin T
    <3>1. PICK x : x \in T
      OBVIOUS
    <3>2. x \in Nat /\ x <= m /\ x # m
      BY <2>2, <2>4, <3>1
    <3>3. m - 1 \in Nat
      BY <2>2, <3>2
    <3>4. \A y \in T : y <= m - 1
      <4> TAKE y \in T
      <4>1. y \in Nat /\ y <= m /\ y # m
        BY <2>2, <2>4
      <4> QED
        BY <2>2, <4>1
    <3>5. m - 1 \in Above
      BY <3>3, <3>4
    <3>6. m <= m - 1
      BY <2>1, <3>5
    <3> QED
      BY <2>2, <3>6
  <2> QED
    BY <2>3, <2>4
<1> QED
  BY <1>5

LEMMA LessTimes ==
    ASSUME NEW a \in Nat, NEW b \in Nat, NEW s \in Nat, a <= b
    PROVE  a * s <= b * s
<1>1. \E c \in Nat : b = a + c
  <2>1. b - a \in Nat /\ b = a + (b - a)
    OBVIOUS
  <2> QED
    BY <2>1
<1>2. PICK c \in Nat : b = a + c
  BY <1>1
<1>3. b * s = a * s + c * s
  BY <1>2
<1>4. c * s \in Nat /\ a * s \in Nat
  OBVIOUS
<1> QED
  BY <1>3, <1>4

-----------------------------------------------------------------------------
(* Folds of any kind                                                       *)

\* From base, an element after the other is taken into the result: C says
\* which of a set is taken last, G what its elements do to results.
IsRec(I, C, G, base, S) ==
    I = [s \in SUBSET S |-> IF s = {} THEN base ELSE G[C[s]][I[s \ {C[s]}]]]

LEMMA RecExists ==
    ASSUME NEW S, IsFiniteSet(S), NEW C, \A s \in SUBSET S : s # {} => C[s] \in s,
           NEW G, NEW base
    PROVE  \E I : IsRec(I, C, G, base, S)
<1> DEFINE Sub(n) == {s \in SUBSET S : Cardinality(s) <= n}
           Upto(h, n) ==
               /\ h = [s \in Sub(n) |-> h[s]]
               /\ h[{}] = base
               /\ \A s \in Sub(n) \ {{}} : h[s] = G[C[s]][h[s \ {C[s]}]]
           Some == {n \in Nat : \E h : Upto(h, n)}
<1>a. \A s \in SUBSET S : Cardinality(s) \in Nat
                             /\ (Cardinality(s) = 0 <=> s = {})
  BY SizeOfSubset
<1>b. \A n \in Nat, s \in SUBSET S : s # {} /\ Cardinality(s) <= n + 1
          => s \ {C[s]} \in Sub(n)
  <2> SUFFICES ASSUME NEW n \in Nat, NEW s \in SUBSET S, s # {},
                      Cardinality(s) <= n + 1
               PROVE  s \ {C[s]} \in Sub(n)
    OBVIOUS
  <2>1. Cardinality(s) \in Nat /\ Cardinality(s) # 0
    BY <1>a
  <2> DEFINE m == Cardinality(s) - 1
             c == C[s]
  <2>2. m \in Nat /\ Cardinality(s) = m + 1 /\ m <= n
    BY <2>1
  <2>4. c \in s
    OBVIOUS
  <2> HIDE DEF m, c
  <2>3. s \ {c} \in SUBSET S /\ Cardinality(s \ {c}) = m
    BY <2>2, <2>4, RemoveOne
  <2> QED
    BY <2>2, <2>3 DEF c
<1>1. 0 \in Some
  <2> DEFINE h == [s \in Sub(0) |-> base]
  <2>1. \A s \in Sub(0) : s = {}
    BY <1>a
  <2>2. {} \in Sub(0)
    BY <1>a
  <2> HIDE DEF Sub
  <2>3. h = [s \in Sub(0) |-> h[s]] /\ h[{}] = base
    BY <2>2
  <2> HIDE DEF h
  <2>4. Upto(h, 0)
    BY <2>1, <2>3
  <2> HIDE DEF Upto
  <2> QED
    BY <2>4
<1>2. \A n \in Nat : n \in Some => n + 1 \in Some
  <2> HIDE DEF Upto
  <2> SUFFICES ASSUME NEW n \in Nat, NEW h, Upto(h, n)
               PROVE  \E g : Upto(g, n + 1)
    OBVIOUS
  <2> USE DEF Upto
  <2> DEFINE g == [s \in Sub(n + 1) |->
                      IF s = {} THEN base ELSE G[C[s]][h[s \ {C[s]}]]]
  <2>1. {} \in Sub(n + 1) /\ Sub(n) \subseteq Sub(n + 1)
    BY <1>a
  <2>2. g[{}] = base /\ g = [s \in Sub(n + 1) |-> g[s]]
    BY <2>1
  <2>3. \A s \in Sub(n) : g[s] = h[s]
    <3> TAKE s \in Sub(n)
    <3>1. s \in Sub(n + 1)
      BY <2>1
    <3> HIDE DEF Sub
    <3>2. g[s] = IF s = {} THEN base ELSE G[C[s]][h[s \ {C[s]}]]
      BY <3>1
    <3> HIDE DEF g
    <3> QED
      BY <3>2
  <2>4. \A s \in Sub(n + 1) \ {{}} : g[s] = G[C[s]][g[s \ {C[s]}]]
    <3> TAKE s \in Sub(n + 1) \ {{}}
    <3>1. s \ {C[s]} \in Sub(n)
      BY <1>b
    <3> HIDE DEF Sub
    <3>2. g[s] = G[C[s]][h[s \ {C[s]}]]
      OBVIOUS
    <3> HIDE DEF g
    <3> QED
      BY <2>3, <3>1, <3>2
  <2> HIDE DEF g, Sub
  <2>5. Upto(g, n + 1)
    BY <2>2, <2>4
  <2> HIDE DEF Upto
  <2> QED
    BY <2>5
<1>3. Cardinality(S) \in Nat /\ Sub(Cardinality(S)) = SUBSET S
  BY FS_CardinalityType, FS_Subset
<1>4. \E h : Upto(h, Cardinality(S))
  <2> HIDE DEF Some, Upto
  <2>1. Nat \subseteq Some
    BY <1>1, <1>2, NumbersOf
  <2> QED
    BY <1>3, <2>1 DEF Some
<1>5. PICK h : Upto(h, Cardinality(S))
  BY <1>4
<1>6. IsRec(h, C, G, base, S)
  <2> DEFINE k == [s \in SUBSET S |->
                      IF s = {} THEN base ELSE G[C[s]][h[s \ {C[s]}]]]
  <2>1. \A s \in SUBSET S : h[s] = k[s]
    BY <1>3, <1>5
  <2>2. h = [s \in SUBSET S |-> h[s]]
    BY <1>3, <1>5
  <2> HIDE DEF Upto
  <2>3. h = k
    BY <2>1, <2>2
  <2> HIDE DEF k
  <2> QED
    BY <2>3 DEF IsRec, k
<1> QED
  BY <1>6

\* What holds of the base and is kept by every element holds of the results.
LEMMA RecStays ==
    ASSUME NEW S, IsFiniteSet(S), NEW C, \A s \in SUBSET S : s # {} => C[s] \in s,
           NEW G, NEW V, NEW base \in V, \A x \in S : \A v \in V : G[x][v] \in V,
           NEW I, IsRec(I, C, G, base, S)
    PROVE  \A s \in SUBSET S : I[s] \in V
<1> DEFINE All == {n \in Nat :
                      \A s \in SUBSET S : Cardinality(s) = n => I[s] \in V}
<1>0. I[{}] = base /\ \A s \in SUBSET S : s # {} => I[s] = G[C[s]][I[s \ {C[s]}]]
  BY DEF IsRec
<1>1. 0 \in All
  <2>1. \A s \in SUBSET S : Cardinality(s) = 0 => s = {}
    BY SizeOfSubset
  <2> QED
    BY <1>0, <2>1
<1>2. \A n \in Nat : n \in All => n + 1 \in All
  <2> SUFFICES ASSUME NEW n \in Nat,
                      \A s \in SUBSET S : Cardinality(s) = n => I[s] \in V,
                      NEW s \in SUBSET S, Cardinality(s) = n + 1
               PROVE  I[s] \in V
    OBVIOUS
  <2>1. s # {}
    BY SizeOfSubset
  <2> DEFINE c == C[s]
             r == s \ {c}
  <2>2. c \in s /\ c \in S
    BY <2>1
  <2> HIDE DEF c
  <2>3. r \in SUBSET S /\ Cardinality(r) = n
    BY <2>2, RemoveOne
  <2>4. I[r] \in V
    BY <2>3
  <2>5. I[s] = G[c][I[r]]
    BY <1>0, <2>1 DEF c
  <2> QED
    BY <2>2, <2>4, <2>5
<1>3. Nat \subseteq All
  <2> HIDE DEF All
  <2> QED
    BY <1>1, <1>2, NumbersOf
<1>4. \A s \in SUBSET S : Cardinality(s) \in Nat
  BY SizeOfSubset
<1> QED
  BY <1>3, <1>4
-----------------------------------------------------------------------------
(* Products over sets                                                      *)

IsSetProduct(P, F, S) ==
    P = [s \in SUBSET S |-> IF s = {} THEN 1
                            ELSE P[s \ {First(s)}] * F[First(s)]]

LEMMA SetProductIs ==
    ASSUME NEW P, NEW F, NEW S, IsSetProduct(P, F, S)
    PROVE  /\ P[{}] = 1
           /\ \A s \in SUBSET S : s # {} => P[s] = P[s \ {First(s)}] * F[First(s)]
  BY Zenon DEF IsSetProduct

LEMMA SetProductExists ==
    ASSUME NEW F, NEW S, IsFiniteSet(S), \A x \in S : F[x] \in Int
    PROVE  \E P : IsSetProduct(P, F, S) /\ \A s \in SUBSET S : P[s] \in Int
<1> DEFINE C == [s \in SUBSET S |-> First(s)]
           G == [x \in S |-> [v \in Int |-> v * F[x]]]
<1>1. \A s \in SUBSET S : C[s] = First(s) /\ (s # {} => C[s] \in s)
  BY FirstOf
<1>2. \A x \in S : \A v \in Int : G[x][v] = v * F[x] /\ G[x][v] \in Int
  OBVIOUS
<1>a. 1 \in Int
  OBVIOUS
<1> HIDE DEF C, G
<1>3. PICK P : IsRec(P, C, G, 1, S)
  BY <1>1, RecExists
<1>4. \A s \in SUBSET S : P[s] \in Int
  <2> DEFINE V == Int
             base == 1
  <2>1. base \in V /\ IsRec(P, C, G, base, S)
    BY <1>a, <1>3
  <2>2. \A x \in S : \A v \in V : G[x][v] \in V
    BY <1>2
  <2> HIDE DEF V, base
  <2>3. \A s \in SUBSET S : P[s] \in V
    BY <1>1, <2>1, <2>2, RecStays
  <2> QED
    BY <2>3 DEF V
<1>5. P = [s \in SUBSET S |-> P[s]] /\ P[{}] = 1
      /\ \A s \in SUBSET S : s # {} => P[s] = G[C[s]][P[s \ {C[s]}]]
  BY <1>3 DEF IsRec
<1>6. ASSUME NEW s \in SUBSET S, s # {}
      PROVE  P[s] = P[s \ {First(s)}] * F[First(s)]
  <2> DEFINE c == First(s)
  <2>1. c \in S /\ c = C[s]
    BY <1>1, <1>6
  <2> HIDE DEF c
  <2>2. P[s] = G[c][P[s \ {c}]] /\ P[s \ {c}] \in Int
    BY <1>4, <1>5, <1>6, <2>1
  <2>3. P[s] = P[s \ {c}] * F[c]
    BY <1>2, <2>1, <2>2
  <2> QED
    BY <2>3 DEF c
<1>7. \A s \in SUBSET S :
          P[s] = IF s = {} THEN 1 ELSE P[s \ {First(s)}] * F[First(s)]
  BY <1>5, <1>6
<1>8. IsSetProduct(P, F, S)
  <2>1. P = [s \in SUBSET S |-> IF s = {} THEN 1
                                ELSE P[s \ {First(s)}] * F[First(s)]]
    BY <1>5, <1>7, Zenon
  <2> QED
    BY <2>1 DEF IsSetProduct
<1> QED
  BY <1>4, <1>8

LEMMA SetProductIsNumber ==
    ASSUME NEW P, NEW F, NEW S, IsFiniteSet(S), IsSetProduct(P, F, S),
           \A x \in S : F[x] \in Int
    PROVE  \A s \in SUBSET S : P[s] \in Int
<1> DEFINE All == {n \in Nat :
                      \A s \in SUBSET S : Cardinality(s) = n => P[s] \in Int}
<1>1. 0 \in All
  <2>1. \A s \in SUBSET S : Cardinality(s) = 0 => s = {}
    BY SizeOfSubset
  <2>2. P[{}] = 1 /\ 1 \in Int
    BY SetProductIs
  <2> QED
    BY <2>1, <2>2
<1>2. \A n \in Nat : n \in All => n + 1 \in All
  <2> SUFFICES ASSUME NEW n \in Nat,
                      \A s \in SUBSET S : Cardinality(s) = n => P[s] \in Int,
                      NEW s \in SUBSET S, Cardinality(s) = n + 1
               PROVE  P[s] \in Int
    OBVIOUS
  <2>1. s # {}
    BY SizeOfSubset
  <2> DEFINE c == First(s)
             r == s \ {c}
  <2>2. c \in s
    BY <2>1, FirstOf
  <2>3. P[s] = P[r] * F[c]
    BY <2>1, SetProductIs
  <2> HIDE DEF c
  <2>4. r \in SUBSET S /\ Cardinality(r) = n
    BY <2>2, RemoveOne
  <2>5. P[r] \in Int /\ F[c] \in Int
    BY <2>2, <2>4
  <2> QED
    BY <2>3, <2>5
<1>3. Nat \subseteq All
  <2> HIDE DEF All
  <2> QED
    BY <1>1, <1>2, NumbersOf
<1>4. \A s \in SUBSET S : Cardinality(s) \in Nat
  BY SizeOfSubset
<1> QED
  BY <1>3, <1>4

LEMMA TimesCommutes ==
    ASSUME NEW a \in Int, NEW b \in Int, NEW c \in Int
    PROVE  (a * b) * c = (a * c) * b
  OBVIOUS

\* The element that is taken last does not matter.
LEMMA SetProductOfAny ==
    ASSUME NEW P, NEW F, NEW S, IsFiniteSet(S), IsSetProduct(P, F, S),
           \A x \in S : F[x] \in Int, NEW t \in SUBSET S, NEW y \in t
    PROVE  P[t] = P[t \ {y}] * F[y]
<1> DEFINE Any(s) == \A x \in s : P[s] = P[s \ {x}] * F[x]
           All == {n \in Nat : \A s \in SUBSET S : Cardinality(s) = n => Any(s)}
<1>1. 0 \in All
  <2>1. \A s \in SUBSET S : Cardinality(s) = 0 => s = {}
    BY SizeOfSubset
  <2> QED
    BY <2>1
<1>2. \A n \in Nat : n \in All => n + 1 \in All
  <2> HIDE DEF Any
  <2> SUFFICES ASSUME NEW n \in Nat,
                      \A s \in SUBSET S : Cardinality(s) = n => Any(s),
                      NEW s \in SUBSET S, Cardinality(s) = n + 1
               PROVE  Any(s)
    OBVIOUS
  <2> DEFINE c == First(s)
  <2>1. s # {}
    BY SizeOfSubset
  <2>2. c \in s
    BY <2>1, FirstOf
  <2>3. P[s] = P[s \ {c}] * F[c]
    BY <2>1, SetProductIs
  <2> HIDE DEF c
  <2>4. \A x \in s : Any(s \ {x})
    <3> TAKE x \in s
    <3>1. s \ {x} \in SUBSET S /\ Cardinality(s \ {x}) = n
      BY RemoveOne
    <3> QED
      BY <3>1
  <2>5. ASSUME NEW x \in s, x # c
        PROVE  P[s] = P[s \ {x}] * F[x]
    <3> DEFINE r == (s \ {c}) \ {x}
    <3>1. x \in s \ {c} /\ c \in s \ {x} /\ r = (s \ {x}) \ {c}
      BY <2>2, <2>5
    <3>2. P[s \ {c}] = P[r] * F[x]
      BY <2>2, <2>4, <3>1 DEF Any
    <3>3. P[s \ {x}] = P[r] * F[c]
      BY <2>4, <2>5, <3>1 DEF Any
    <3>4. r \in SUBSET S
      OBVIOUS
    <3> HIDE DEF r
    <3>5. P[r] \in Int
      BY <3>4, SetProductIsNumber
    <3>6. F[x] \in Int /\ F[c] \in Int
      BY <2>2
    <3>7. P[s] = (P[r] * F[x]) * F[c]
      BY <2>3, <3>2
    <3>8. (P[r] * F[x]) * F[c] = (P[r] * F[c]) * F[x]
      BY <3>5, <3>6, TimesCommutes
    <3> QED
      BY <3>3, <3>7, <3>8
  <2> QED
    BY <2>3, <2>5 DEF Any
<1>3. Nat \subseteq All
  <2> HIDE DEF All
  <2> QED
    BY <1>1, <1>2, NumbersOf
<1>4. Cardinality(t) \in Nat
  BY SizeOfSubset
<1> QED
  BY <1>3, <1>4

\* The product over the first elements of a list, without repetition, of S.
LEMMA SetProductOfList ==
    ASSUME NEW P, NEW F, NEW S, IsFiniteSet(S), IsSetProduct(P, F, S),
           \A x \in S : F[x] \in Int,
           NEW n \in Nat, NEW h, \A k \in 1 .. n : h[k] \in S,
           \A j, k \in 1 .. n : h[j] = h[k] => j = k,
           \A x \in S : \E k \in 1 .. n : h[k] = x,
           NEW J, J[0] = 1, \A k \in 1 .. n : J[k] = J[k - 1] * F[h[k]]
    PROVE  P[S] = J[n]
<1> DEFINE Im(k) == {h[a] : a \in 1 .. k}
           Same(k) == k <= n => P[Im(k)] = J[k]
           All == {k \in Nat : Same(k)}
<1>a. ASSUME NEW t \in SUBSET S, NEW y \in t
      PROVE  P[t] = P[t \ {y}] * F[y]
  <2>1. IsFiniteSet(S) /\ \A x \in S : F[x] \in Int
    OBVIOUS
  <2> QED
    BY <2>1, SetProductOfAny
<1>0. Im(0) = {} /\ \A k \in Nat : k <= n => Im(k) \in SUBSET S
  <2>1. \A a \in 1 .. 0 : FALSE
    OBVIOUS
  <2>2. Im(0) = {}
    BY <2>1
  <2>3. \A k \in Nat : k <= n => \A a \in 1 .. k : a \in 1 .. n
    OBVIOUS
  <2> QED
    BY <2>2, <2>3
<1>1. \A k \in Nat : k + 1 <= n => /\ Im(k + 1) \in SUBSET S /\ h[k + 1] \in Im(k + 1)
                                    /\ Im(k + 1) \ {h[k + 1]} = Im(k)
  <2> SUFFICES ASSUME NEW k \in Nat, k + 1 <= n
               PROVE  /\ Im(k + 1) \in SUBSET S /\ h[k + 1] \in Im(k + 1)
                      /\ Im(k + 1) \ {h[k + 1]} = Im(k)
    OBVIOUS
  <2>1. k + 1 \in 1 .. k + 1 /\ k + 1 \in Nat /\ k + 1 \in 1 .. n
    OBVIOUS
  <2>2. h[k + 1] \in Im(k + 1)
    BY <2>1
  <2>3. \A a \in 1 .. k : a \in 1 .. n /\ a \in 1 .. k + 1 /\ a # k + 1
    OBVIOUS
  <2>4. \A a \in 1 .. k + 1 : a # k + 1 => a \in 1 .. k
    OBVIOUS
  <2>5. \A a \in 1 .. k : h[a] # h[k + 1]
    BY <2>1, <2>3
  <2>6. Im(k + 1) \ {h[k + 1]} = Im(k)
    BY <2>3, <2>4, <2>5
  <2> HIDE DEF Im
  <2> QED
    BY <1>0, <2>1, <2>2, <2>6
<1>2. Same(0)
  <2>1. P[Im(0)] = 1
    BY <1>0, SetProductIs
  <2> HIDE DEF Im
  <2> QED
    BY <2>1
<1>3. \A k \in Nat : Same(k) => Same(k + 1)
  <2> SUFFICES ASSUME NEW k \in Nat, Same(k), k + 1 <= n
               PROVE  P[Im(k + 1)] = J[k + 1]
    OBVIOUS
  <2> DEFINE m == k + 1
             t == Im(m)
             y == h[m]
  <2>1. t \in SUBSET S /\ y \in t /\ t \ {y} = Im(k)
    BY <1>1
  <2>2. k <= n /\ m \in 1 .. n /\ m - 1 = k
    OBVIOUS
  <2>3. P[Im(k)] = J[k]
    BY <2>2
  <2>5. J[m] = J[m - 1] * F[y]
    BY <2>2
  <2> HIDE DEF t, y, m, Im
  <2>4. P[t] = P[t \ {y}] * F[y]
    BY <1>a, <2>1
  <2>6. P[t] = J[m]
    BY <2>1, <2>2, <2>3, <2>4, <2>5
  <2> QED
    BY <2>6 DEF t, m
<1>4. n \in All
  <2> HIDE DEF Same
  <2>1. 0 \in All /\ \A k \in Nat : k \in All => k + 1 \in All
    BY <1>2, <1>3
  <2> HIDE DEF All
  <2> QED
    BY <2>1, NumbersOf
<1>5. P[Im(n)] = J[n]
  <2> HIDE DEF Im
  <2> QED
    BY <1>4
<1>6. Im(n) = S
  OBVIOUS
<1> QED
  BY <1>5, <1>6

\* Of the elements of P, each once.
Numbering(h, n, P) ==
    /\ n \in Nat /\ \A k \in 1 .. n : h[k] \in P
    /\ \A j, k \in 1 .. n : h[j] = h[k] => j = k
    /\ \A x \in P : \E k \in 1 .. n : h[k] = x
\* What F has of them is multiplied one after the other.
Multiplied(J, F, h, n) ==
    J[0] = 1 /\ \A k \in 1 .. n : J[k] = J[k - 1] * F[h[k]]
AllNumbers(F, S) == \A x \in S : F[x] \in Int

LEMMA SetProductOfNumbering ==
    ASSUME NEW P, NEW F, NEW S, IsFiniteSet(S), IsSetProduct(P, F, S),
           AllNumbers(F, S), NEW n, NEW h, Numbering(h, n, S),
           NEW J, Multiplied(J, F, h, n)
    PROVE  P[S] = J[n]
<1>1. n \in Nat /\ \A k \in 1 .. n : h[k] \in S
  BY DEF Numbering
<1>2. \A j, k \in 1 .. n : h[j] = h[k] => j = k
  BY DEF Numbering
<1>3. \A x \in S : \E k \in 1 .. n : h[k] = x
  BY DEF Numbering
<1>4. \A x \in S : F[x] \in Int
  BY DEF AllNumbers
<1>5. J[0] = 1 /\ \A k \in 1 .. n : J[k] = J[k - 1] * F[h[k]]
  BY DEF Multiplied
<1> QED
  BY <1>1, <1>2, <1>3, <1>4, <1>5, SetProductOfList
=============================================================================
