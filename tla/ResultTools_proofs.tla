-------------------------- MODULE ResultTools_proofs --------------------------
(***************************************************************************)
(* Proofs about ResultTools: print_range_hist, whose output is what the    *)
(* histogram says, and the parsers of the defragmentation log, which have  *)
(* collected what the lines they have read say.                            *)
(***************************************************************************)
EXTENDS Sums, ResultTools, SequenceTheorems, TLAPS

-----------------------------------------------------------------------------
(* page-collect.cpp, print_range_hist: the runs of a histogram             *)

LEMMA MaxOf ==
    ASSUME NEW T, T \subseteq Nat, IsFiniteSet(T), T # {}
    PROVE  Max(T) \in T /\ \A x \in T : x <= Max(T)
<1>1. PICK m \in T : \A x \in T : x <= m
  BY GreatestOf
<1>2. \A x \in T : m >= x
  BY <1>1
<1>3. Max(T) \in T /\ \A x \in T : Max(T) >= x
  BY <1>1, <1>2 DEF Max
<1> QED
  BY <1>3

LEMMA MinMax ==
    ASSUME NEW a \in Nat, NEW b \in Int
    PROVE  Min({a, Max({0, b})}) = IF b <= 0 THEN 0 ELSE IF b <= a THEN b ELSE a
<1> DEFINE m == IF b <= 0 THEN 0 ELSE b
           r == IF m <= a THEN m ELSE a
<1>1. Max({0, b}) = m
  <2>1. m \in {0, b} /\ \A y \in {0, b} : m >= y
    OBVIOUS
  <2>2. \A x \in {0, b} : (\A y \in {0, b} : x >= y) => x = m
    OBVIOUS
  <2> HIDE DEF m
  <2> QED
    BY <2>1, <2>2 DEF Max
<1>2. m \in Nat
  OBVIOUS
<1> HIDE DEF m
<1>3. Min({a, m}) = r
  <2>1. r \in {a, m} /\ \A y \in {a, m} : r <= y
    BY <1>2
  <2>2. \A x \in {a, m} : (\A y \in {a, m} : x <= y) => x = r
    BY <1>2
  <2> HIDE DEF r
  <2> QED
    BY <2>1, <2>2 DEF Min
<1> QED
  BY <1>1, <1>3 DEF m

\* The least number of runs of length s that have d pages.
LEMMA CeilDivIs ==
    ASSUME NEW d \in Nat, NEW s \in Nat \ {0}
    PROVE  /\ CeilDiv(d, s) \in Nat
           /\ CeilDiv(d, s) * s >= d
           /\ \A k \in Nat : k < CeilDiv(d, s) => k * s < d
<1> DEFINE r == CeilDiv(d, s)
           m == (d + s - 1) % s
<1>1. r \in Nat /\ m \in 0 .. s - 1 /\ d + s - 1 = s * r + m
  BY DEF CeilDiv
<1>2. r * s = s * r /\ r * s \in Nat
  BY <1>1
<1> HIDE DEF r, m
<1>3. r * s >= d
  BY <1>1, <1>2
<1>4. \A k \in Nat : k < r => k * s < d
  <2> SUFFICES ASSUME NEW k \in Nat, k < r
               PROVE  k * s < d
    OBVIOUS
  <2>1. (k + 1) * s <= r * s
    BY <1>1, LessTimes
  <2>2. (k + 1) * s = k * s + s /\ k * s \in Nat
    OBVIOUS
  <2> QED
    BY <1>1, <1>2, <2>1, <2>2
<1> QED
  BY <1>1, <1>3, <1>4 DEF r

-----------------------------------------------------------------------------
(* page-collect.cpp: numbers that a float has                              *)

\* A number below the width of a word is itself.
LEMMA SmallWord ==
    ASSUME NEW n \in Nat, n < Word
    PROVE  ToWord(n) = n
<1> DEFINE k == n \div Word
           m == n % Word
<1>1. Word \in Nat \ {0}
  BY FloatAssumption
<1>2. n = Word * k + m /\ m \in 0 .. Word - 1 /\ k \in Nat
  BY <1>1
<1>3. k = 0
  <2> HIDE DEF k, m
  <2> SUFFICES ASSUME k # 0 PROVE FALSE
    OBVIOUS
  <2>1. 1 * Word <= k * Word /\ k * Word = Word * k
    BY <1>1, <1>2, LessTimes
  <2> DEFINE w == Word * k
  <2>2. w \in Nat /\ Word <= w /\ n = w + m
    BY <1>1, <1>2, <2>1
  <2> HIDE DEF w
  <2> QED
    BY <1>1, <1>2, <2>2
<1> QED
  BY <1>1, <1>2, <1>3 DEF ToWord

\* The nearest multiple of b is at most half of b away.
LEMMA NearestIs ==
    ASSUME NEW a \in Nat, NEW b \in Nat \ {0}
    PROVE  /\ Nearest(a, b) \in Nat
           /\ 2 * (Nearest(a, b) * b) <= 2 * a + b
           /\ 2 * (Nearest(a, b) * b) >= 2 * a - b
<1> DEFINE k == a \div b
           r == a % b
<1>1. k \in Nat /\ r \in 0 .. b - 1 /\ a = b * k + r
  OBVIOUS
<1>2. \/ Nearest(a, b) = k /\ 2 * r <= b
      \/ Nearest(a, b) = k + 1 /\ 2 * r >= b
  <2>1. Nearest(a, b) = IF 2 * r > b \/ (2 * r = b /\ k % 2 = 1) THEN k + 1 ELSE k
    BY DEF Nearest
  <2> HIDE DEF k, r
  <2> QED
    BY <1>1, <2>1
<1> HIDE DEF k, r
<1>3. k * b = b * k /\ (k + 1) * b = k * b + b /\ k * b \in Nat
  BY <1>1
<1> QED
  BY <1>1, <1>2, <1>3

LEMMA FloatIs ==
    ASSUME NEW x \in Nat, x <= FloatExact
    PROVE  Float(x) = x
BY DEF Float

LEMMA LessFactor ==
    ASSUME NEW a \in Int, NEW b \in Int, NEW c \in Nat, a * c < b * c
    PROVE  a < b
<1> SUFFICES ASSUME b <= a PROVE FALSE
  OBVIOUS
<1>1. PICK d \in Nat : a = b + d
  <2>1. a - b \in Nat /\ a = b + (a - b)
    OBVIOUS
  <2> QED
    BY <2>1
<1>2. a * c = b * c + d * c /\ d * c \in Nat
  BY <1>1
<1> QED
  BY <1>2

\* How far these pages are from p percent, in parts of the last digit.
Off(p, pages) == FloatExact * (100 * pages - p * total)

\* What the comparison of floats says of the pages.
LEMMA ReachesIs ==
    ASSUME NEW p \in Nat, NEW x \in Nat, x <= FloatExact,
           total \in Nat \ {0}, total <= FloatExact
    PROVE  /\ Reaches(p, x) => -50 * total <= Off(p, x)
           /\ ~Reaches(p, x) => Off(p, x) <= 50 * total
<1> DEFINE q == Nearest(FloatExact * x, total)
           a == FloatExact * x
           g == p * FloatExact
<1>1. FloatExact \in Nat /\ a \in Nat /\ g \in Nat
  BY FloatAssumption
<1>2. Reaches(p, x) <=> 100 * q >= g
  <2>1. Float(x) = x /\ Float(total) = total
    BY FloatIs
  <2> QED
    BY <2>1 DEF Reaches
<1>3. q \in Nat /\ 2 * (q * total) <= 2 * a + total /\ 2 * (q * total) >= 2 * a - total
  BY <1>1, NearestIs
<1>4. Off(p, x) = 100 * a - g * total
  <2>1. FloatExact * (100 * x - p * total) = 100 * (FloatExact * x) - FloatExact * (p * total)
    BY <1>1
  <2>2. FloatExact * (p * total) = (p * FloatExact) * total
    BY <1>1
  <2> QED
    BY <2>1, <2>2 DEF Off
<1> HIDE DEF q, a, g
<1>5. (100 * q) * total = 50 * (2 * (q * total)) /\ q * total \in Nat /\ g * total \in Nat
  BY <1>1, <1>3
<1>6. ASSUME 100 * q >= g PROVE -50 * total <= Off(p, x)
  <2>1. g * total <= (100 * q) * total
    BY <1>1, <1>3, <1>6, LessTimes
  <2> QED
    BY <1>1, <1>3, <1>4, <1>5, <2>1
<1>7. ASSUME 100 * q < g PROVE Off(p, x) <= 50 * total
  <2>1. (100 * q) * total <= g * total
    BY <1>1, <1>3, <1>7, LessTimes
  <2> QED
    BY <1>1, <1>3, <1>4, <1>5, <2>1
<1> QED
  BY <1>1, <1>2, <1>3, <1>6, <1>7

\* That is at most half a page.
LEMMA HalfAPage ==
    ASSUME NEW p \in Nat, NEW x \in Nat, total \in Nat, total <= FloatExact
    PROVE  /\ -50 * total <= Off(p, x) => 100 * x >= p * total - 50
           /\ Off(p, x) <= 50 * total => 100 * x <= p * total + 50
<1> DEFINE y == 100 * x - p * total
           D == FloatExact
<1>1. y \in Int /\ D \in Nat \ {0}
  BY FloatAssumption
<1>2. Off(p, x) = y * D
  BY <1>1 DEF Off
<1>3. p * total \in Nat
  OBVIOUS
<1>4. -50 * total <= Off(p, x) => y >= -50
  <2> HIDE DEF y, D
  <2> SUFFICES ASSUME -50 * total <= y * D PROVE y >= -50
    BY <1>2
  <2>1. (-51) * D < y * D
    BY <1>1 DEF D
  <2> QED
    BY <1>1, <2>1, LessFactor
<1>5. Off(p, x) <= 50 * total => y <= 50
  <2> HIDE DEF y, D
  <2> SUFFICES ASSUME y * D <= 50 * total PROVE y <= 50
    BY <1>2
  <2>1. y * D < 51 * D
    BY <1>1 DEF D
  <2> QED
    BY <1>1, <2>1, LessFactor
<1> QED
  BY <1>1, <1>3, <1>4, <1>5

\* More pages are further, and as far as p percent they are not far.
LEMMA OffGrows ==
    ASSUME NEW p \in Nat, NEW x \in Nat, NEW y \in Nat, total \in Nat, x <= y
    PROVE  Off(p, x) <= Off(p, y)
<1> DEFINE D == FloatExact
           t == p * total
           a == 100 * x - t
           b == 100 * y - t
<1>1. D \in Nat /\ t \in Nat
  BY FloatAssumption
<1>2. PICK c \in Nat : b = a + c
  <2>1. b - a \in Nat /\ b = a + (b - a)
    BY <1>1
  <2> QED
    BY <2>1
<1>3. a \in Int /\ b \in Int
  BY <1>1
<1>4. Off(p, x) = D * a /\ Off(p, y) = D * b
  BY DEF Off
<1> HIDE DEF D, a, b
<1>5. D * b = D * a + D * c /\ D * c \in Nat /\ D * a \in Int
  BY <1>1, <1>2, <1>3
<1> QED
  BY <1>4, <1>5

LEMMA OffSign ==
    ASSUME NEW p \in Nat, NEW x \in Nat, total \in Nat
    PROVE  /\ Off(p, x) \in Int
           /\ 100 * x >= p * total => Off(p, x) >= 0
           /\ 100 * x <= p * total => Off(p, x) <= 0
<1> DEFINE D == FloatExact
           y == 100 * x - p * total
<1>1. D \in Nat /\ p * total \in Nat /\ y \in Int
  BY FloatAssumption
<1>2. Off(p, x) = D * y
  BY DEF Off
<1>3. /\ 100 * x >= p * total => y \in Nat
      /\ 100 * x <= p * total => -y \in Nat
  BY <1>1
<1> HIDE DEF D, y
<1>4. D * y \in Int /\ (y \in Nat => D * y \in Nat)
  BY <1>1
<1>5. -y \in Nat => D * (-y) \in Nat /\ D * (-y) = -(D * y)
  BY <1>1
<1> QED
  BY <1>2, <1>3, <1>4, <1>5

-----------------------------------------------------------------------------
(* page-collect.cpp, print_range_hist: its walk                           *)

\* A histogram as the collector leaves it; a run of a length that is still to
\* come is shorter than those that were counted.
IsHist ==
    /\ IsFiniteSet(DOMAIN hist)
    /\ DOMAIN hist \subseteq Nat \ {0}
    /\ \A s \in DOMAIN hist : hist[s] \in Nat \ {0}
    /\ total \in Nat
    /\ total = 0 => \A s, t \in DOMAIN hist : s = t

Done == DOMAIN hist \ left
Pages == [s \in DOMAIN hist |-> s * hist[s]]

Walked ==
    /\ left \subseteq DOMAIN hist
    /\ \A s \in left, t \in Done : s < t
    /\ num_entries = SumFunctionOnSet(hist, Done)
    /\ current_coverage = SumFunctionOnSet(Pages, Done)
    /\ num_entries \in Nat /\ current_coverage \in Nat
    /\ num_entries <= current_coverage
    /\ num_entries = 0 => current_coverage = 0

LEMMA HistIs ==
    ASSUME IsHist, NEW T, T \subseteq DOMAIN hist
    PROVE  /\ IsFiniteSet(T)
           /\ \A s \in T : s \in Nat \ {0} /\ s \in Nat
           /\ \A s \in T : hist[s] \in Nat \ {0} /\ hist[s] \in Nat
           /\ \A s \in T : hist[s] \in Int
           /\ SumFunctionOnSet(hist, T) \in Nat
<1>1. IsFiniteSet(T)
  BY FS_Subset DEF IsHist
<1>2. \A s \in T : s \in Nat \ {0} /\ hist[s] \in Nat \ {0}
  BY DEF IsHist
<1>3. \A s \in T : hist[s] \in Nat
  BY <1>2
<1>4. SumFunctionOnSet(hist, T) \in Nat
  BY <1>1, <1>3, OnSetNat
<1> QED
  BY <1>1, <1>2, <1>3, <1>4

LEMMA TakenIs ==
    ASSUME IsHist, NEW s \in DOMAIN hist, NEW n \in Nat
    PROVE  /\ Longer(s) \in Nat
           /\ Taken(s, n) = IF n <= Longer(s) THEN 0
                            ELSE IF n - Longer(s) <= hist[s] THEN n - Longer(s)
                            ELSE hist[s]
           /\ Taken(s, n) \in Nat
<1> DEFINE L == Longer(s)
           b == n - L
<1>1. L \in Nat
  <2>1. {t \in DOMAIN hist : t > s} \subseteq DOMAIN hist
    OBVIOUS
  <2> QED
    BY <2>1, HistIs DEF Longer
<1>2. hist[s] \in Nat
  BY DEF IsHist
<1>3. Taken(s, n) = Min({hist[s], Max({0, b})})
  BY DEF Taken
<1> HIDE DEF L
<1>4. b \in Int
  BY <1>1
<1>5. (b <= 0 <=> n <= L) /\ (b <= 0 \/ b \in Nat)
  BY <1>1
<1> HIDE DEF b
<1>6. Taken(s, n) = IF b <= 0 THEN 0 ELSE IF b <= hist[s] THEN b ELSE hist[s]
  BY <1>2, <1>3, <1>4, MinMax
<1>7. Taken(s, n) = IF n <= L THEN 0 ELSE IF b <= hist[s] THEN b ELSE hist[s]
  BY <1>5, <1>6
<1>8. Taken(s, n) \in Nat
  BY <1>2, <1>5, <1>6
<1> QED
  BY <1>1, <1>7, <1>8 DEF L, b

\* The runs of a length that was counted are all among the n longest.
LEMMA TakenOfDone ==
    ASSUME IsHist, Walked, NEW s \in Done, NEW n \in Nat, n >= num_entries
    PROVE  Taken(s, n) = hist[s]
<1> DEFINE T == {t \in DOMAIN hist : t > s}
           U == T \cup {s}
<1>1. s \in DOMAIN hist /\ T \subseteq DOMAIN hist /\ s \notin T /\ hist[s] \in Nat \ {0}
  BY DEF Done, IsHist
<1>2. U \subseteq Done
  <2> SUFFICES ASSUME NEW t \in DOMAIN hist, t > s PROVE t \in Done
    OBVIOUS
  <2>1. t \in Nat /\ s \in Nat
    BY <1>1 DEF IsHist
  <2>2. t \notin left
    BY <2>1 DEF Walked
  <2> QED
    BY <2>2 DEF Done
<1>3. U \subseteq DOMAIN hist /\ Done \subseteq DOMAIN hist
  BY <1>1 DEF Done
<1> HIDE DEF T
<1>4. SumFunctionOnSet(hist, U) = SumFunctionOnSet(hist, T) + hist[s]
  <2>1. IsFiniteSet(T) /\ \A x \in T \cup {s} : hist[x] \in Int
    BY <1>1, <1>3, HistIs
  <2> QED
    BY <1>1, <2>1, OnSetOneMore
<1>5. SumFunctionOnSet(hist, U) <= SumFunctionOnSet(hist, Done)
  <2>1. IsFiniteSet(Done) /\ \A x \in Done : hist[x] \in Nat
    BY <1>3, HistIs
  <2> HIDE DEF U
  <2> QED
    BY <1>2, <2>1, OnSetMore
<1>6. Longer(s) = SumFunctionOnSet(hist, T)
  BY DEF Longer, T
<1>7. Longer(s) + hist[s] <= num_entries
  BY <1>4, <1>5, <1>6 DEF Walked
<1>8. /\ Longer(s) \in Nat
      /\ Taken(s, n) = IF n <= Longer(s) THEN 0
                       ELSE IF n - Longer(s) <= hist[s] THEN n - Longer(s)
                       ELSE hist[s]
  BY <1>1, TakenIs
<1>9. num_entries \in Nat
  BY DEF Walked
<1> QED
  BY <1>1, <1>7, <1>8, <1>9

LEMMA LongestLeft ==
    ASSUME IsHist, Walked, left # {}
    PROVE  /\ Max(left) \in left /\ \A t \in left : t <= Max(left)
           /\ Max(left) \in DOMAIN hist
           /\ \A s \in Done : Max(left) < s
<1>1. left \subseteq DOMAIN hist
  BY DEF Walked
<1>2. IsFiniteSet(left) /\ left \subseteq Nat
  BY <1>1, HistIs
<1>3. Max(left) \in left /\ \A t \in left : t <= Max(left)
  BY <1>2, MaxOf
<1> QED
  BY <1>1, <1>3 DEF Walked

\* Of the length that is next, those that are missing are taken.
LEMMA TakenOfNext ==
    ASSUME IsHist, Walked, left # {}, NEW size, size = Max(left),
           NEW n \in Nat, num_entries <= n, n <= num_entries + hist[size]
    PROVE  Taken(size, n) = n - num_entries
<1>1. size \in left /\ size \in DOMAIN hist /\ (\A t \in left : t <= size)
      /\ \A s \in Done : size < s
  BY LongestLeft
<1>2. {t \in DOMAIN hist : t > size} = Done
  <2>1. \A t \in DOMAIN hist : t \in Nat
    BY DEF IsHist
  <2>2. \A t \in DOMAIN hist : t > size <=> t \notin left
    BY <1>1, <2>1 DEF Done
  <2> QED
    BY <2>2 DEF Done
<1>3. Longer(size) = num_entries /\ num_entries \in Nat
  BY <1>2 DEF Longer, Walked
<1>4. Taken(size, n) = IF n <= num_entries THEN 0
                       ELSE IF n - num_entries <= hist[size]
                            THEN n - num_entries ELSE hist[size]
  BY <1>1, <1>3, TakenIs
<1>5. hist[size] \in Nat
  BY <1>1 DEF IsHist
<1> QED
  BY <1>3, <1>4, <1>5

\* And none of a shorter one, as long as those are enough.
LEMMA TakenOfLater ==
    ASSUME IsHist, Walked, left # {}, NEW size, size = Max(left),
           NEW n \in Nat, n <= num_entries + hist[size],
           NEW s \in left \ {size}
    PROVE  Taken(s, n) = 0
<1> DEFINE T == {t \in DOMAIN hist : t > s}
           U == Done \cup {size}
<1>1. size \in left /\ size \in DOMAIN hist /\ s <= size /\ s # size
  BY LongestLeft
<1>2. s \in DOMAIN hist /\ s \in Nat /\ size \in Nat
  BY <1>1 DEF Walked, IsHist
<1>3. size \notin Done /\ U \subseteq DOMAIN hist /\ Done \subseteq DOMAIN hist
      /\ T \subseteq DOMAIN hist
  BY <1>1 DEF Done
<1>4. U \subseteq T
  BY <1>1, <1>2, <1>3 DEF Walked, IsHist
<1>5. SumFunctionOnSet(hist, U) = SumFunctionOnSet(hist, Done) + hist[size]
  <2>1. IsFiniteSet(Done) /\ \A x \in Done \cup {size} : hist[x] \in Int
    BY <1>3, HistIs
  <2> QED
    BY <1>3, <2>1, OnSetOneMore
<1>6. SumFunctionOnSet(hist, U) <= SumFunctionOnSet(hist, T)
  <2>1. IsFiniteSet(T) /\ \A x \in T : hist[x] \in Nat
    BY <1>3, HistIs
  <2> HIDE DEF T, U
  <2> QED
    BY <1>4, <2>1, OnSetMore
<1>7. Longer(s) = SumFunctionOnSet(hist, T)
  BY DEF Longer
<1>8. num_entries + hist[size] <= Longer(s)
  BY <1>5, <1>6, <1>7 DEF Walked
<1>9. num_entries \in Nat /\ hist[size] \in Nat
  BY <1>1 DEF Walked, IsHist
<1>10. /\ Longer(s) \in Nat
       /\ Taken(s, n) = IF n <= Longer(s) THEN 0
                        ELSE IF n - Longer(s) <= hist[s] THEN n - Longer(s)
                        ELSE hist[s]
  BY <1>2, TakenIs
<1>11. n <= Longer(s)
  BY <1>8, <1>9, <1>10
<1> QED
  BY <1>10, <1>11

LEMMA LongestIsSum ==
    ASSUME IsHist, NEW n \in Nat
    PROVE  \E g : /\ Longest(n) = SumFunctionOnSet(g, DOMAIN hist)
                  /\ \A s \in DOMAIN hist : g[s] = s * Taken(s, n)
                  /\ \A s \in DOMAIN hist : g[s] \in Nat
                  /\ Longest(n) \in Nat
<1> DEFINE g == [s \in DOMAIN hist |-> s * Taken(s, n)]
<1>1. Longest(n) = SumFunctionOnSet(g, DOMAIN hist)
  <2>1. DOMAIN g = DOMAIN hist
    OBVIOUS
  <2>2. Longest(n) = SumFunction(g)
    BY DEF Longest
  <2>3. SumFunction(g) = SumFunctionOnSet(g, DOMAIN g)
    BY DEF SumFunction
  <2> HIDE DEF g
  <2> QED
    BY <2>1, <2>2, <2>3
<1>2. \A s \in DOMAIN hist : g[s] = s * Taken(s, n)
  OBVIOUS
<1>3. \A s \in DOMAIN hist : g[s] \in Nat
  <2> HIDE DEF g
  <2> TAKE s \in DOMAIN hist
  <2>1. s \in Nat /\ Taken(s, n) \in Nat
    BY TakenIs DEF IsHist
  <2> QED
    BY <1>2, <2>1
<1> HIDE DEF g
<1>4. SumFunctionOnSet(g, DOMAIN hist) \in Nat
  <2>1. IsFiniteSet(DOMAIN hist)
    BY DEF IsHist
  <2> QED
    BY <1>3, <2>1, OnSetNat
<1> QED
  BY <1>1, <1>2, <1>3, <1>4

\* The pages of the runs that were counted.
LEMMA DonePages ==
    ASSUME IsHist, Walked, NEW n \in Nat, n >= num_entries, NEW g,
           \A s \in DOMAIN hist : g[s] = s * Taken(s, n)
    PROVE  SumFunctionOnSet(g, Done) = current_coverage
<1> DEFINE f == Pages
<1>1. Done \subseteq DOMAIN hist
  BY DEF Done
<1>2. IsFiniteSet(Done)
  BY <1>1, HistIs
<1>3. \A s \in Done : g[s] = f[s]
  BY <1>1, TakenOfDone DEF Pages
<1> HIDE DEF f
<1>4. SumFunctionOnSet(g, Done) = SumFunctionOnSet(f, Done)
  BY <1>2, <1>3, OnSetSame
<1> QED
  BY <1>4 DEF f, Walked

LEMMA LongestUpto ==
    ASSUME IsHist, Walked, left # {}, NEW size, size = Max(left),
           NEW n \in Nat, num_entries <= n, n <= num_entries + hist[size]
    PROVE  Longest(n) = current_coverage + (n - num_entries) * size
<1>0. PICK g : /\ Longest(n) = SumFunctionOnSet(g, DOMAIN hist)
               /\ \A s \in DOMAIN hist : g[s] = s * Taken(s, n)
               /\ \A s \in DOMAIN hist : g[s] \in Nat
  BY LongestIsSum
<1> DEFINE rest == left \ {size}
<1>1. /\ size \in left /\ size \in DOMAIN hist /\ left \subseteq DOMAIN hist
      /\ size \in Nat
  BY LongestLeft DEF Walked, IsHist
<1>2. /\ Done \subseteq DOMAIN hist /\ Done \cap left = {}
      /\ Done \cup left = DOMAIN hist
  BY <1>1 DEF Done
<1>3. rest \subseteq DOMAIN hist /\ size \notin rest /\ rest \cup {size} = left
  BY <1>1
<1>4. IsFiniteSet(Done) /\ IsFiniteSet(left) /\ IsFiniteSet(rest)
  BY <1>1, <1>2, <1>3, HistIs
<1>5. SumFunctionOnSet(g, Done) = current_coverage
  BY <1>0, DonePages
<1>6. SumFunctionOnSet(g, rest) = 0
  <2>1. \A s \in rest : g[s] = 0
    <3> SUFFICES ASSUME NEW s \in left \ {size} PROVE g[s] = 0
      OBVIOUS
    <3>1. Taken(s, n) = 0
      BY TakenOfLater
    <3>2. s \in DOMAIN hist /\ s \in Nat
      BY <1>1 DEF IsHist
    <3> QED
      BY <1>0, <3>1, <3>2
  <2> HIDE DEF rest
  <2> QED
    BY <1>4, <2>1, OnSetNothingAdded
<1>7. g[size] = (n - num_entries) * size
  <2>1. Taken(size, n) = n - num_entries /\ num_entries \in Nat
    BY TakenOfNext DEF Walked
  <2> QED
    BY <1>0, <1>1, <2>1
<1>8. SumFunctionOnSet(g, left) = SumFunctionOnSet(g, rest) + g[size]
  <2>1. \A x \in rest \cup {size} : g[x] \in Int
    BY <1>0, <1>1, <1>3
  <2> HIDE DEF rest
  <2>2. SumFunctionOnSet(g, rest \cup {size}) = SumFunctionOnSet(g, rest) + g[size]
    BY <1>3, <1>4, <2>1, OnSetOneMore
  <2> QED
    BY <1>3, <2>2
<1>9. SumFunctionOnSet(g, DOMAIN hist)
          = SumFunctionOnSet(g, Done) + SumFunctionOnSet(g, left)
  <2>1. \A x \in Done \cup left : g[x] \in Int
    BY <1>0, <1>2
  <2>2. SumFunctionOnSet(g, Done \cup left)
            = SumFunctionOnSet(g, Done) + SumFunctionOnSet(g, left)
    BY <1>2, <1>4, <2>1, OnSetBoth
  <2> QED
    BY <1>2, <2>2
<1>10. g[size] \in Nat /\ current_coverage \in Nat
  BY <1>0, <1>1 DEF Walked
<1> QED
  BY <1>0, <1>5, <1>6, <1>7, <1>8, <1>9, <1>10

LEMMA LongestOfAll ==
    ASSUME IsHist, Walked, left = {}, NEW n \in Nat, n >= num_entries
    PROVE  Longest(n) = current_coverage
<1>1. PICK g : /\ Longest(n) = SumFunctionOnSet(g, DOMAIN hist)
               /\ \A s \in DOMAIN hist : g[s] = s * Taken(s, n)
  BY LongestIsSum
<1>2. Done = DOMAIN hist
  BY DEF Done
<1>3. SumFunctionOnSet(g, Done) = current_coverage
  BY <1>1, DonePages
<1> QED
  BY <1>1, <1>2, <1>3

\* No run, no page.
LEMMA NoneAreNeeded ==
    ASSUME IsHist
    PROVE  Longest(0) = 0
<1>1. PICK g : /\ Longest(0) = SumFunctionOnSet(g, DOMAIN hist)
               /\ \A s \in DOMAIN hist : g[s] = s * Taken(s, 0)
  BY LongestIsSum
<1>2. \A s \in DOMAIN hist : g[s] = 0
  <2> TAKE s \in DOMAIN hist
  <2>1. Taken(s, 0) = 0 /\ s \in Nat
    BY TakenIs DEF IsHist
  <2> QED
    BY <1>1, <2>1
<1>3. SumFunctionOnSet(g, DOMAIN hist) = 0
  BY <1>2, OnSetNothingAdded DEF IsHist
<1> QED
  BY <1>1, <1>3

LEMMA RunsAreCounted ==
    ASSUME IsHist, Walked, left = {}
    PROVE  Runs = num_entries
<1>1. Done = DOMAIN hist
  BY DEF Done
<1> QED
  BY <1>1 DEF Walked, Runs, SumFunction

\* A step of the walk.
LEMMA EntryIs ==
    ASSUME IsHist, Walked, left # {}, NEW size, size = Max(left), Entry
    PROVE  /\ hist' = hist /\ total' = total /\ printed' = printed
           /\ num_entries' = num_entries + hist[size]
           /\ current_coverage' = current_coverage + size * hist[size]
           /\ size \in Nat \ {0} /\ hist[size] \in Nat \ {0}
           /\ size * hist[size] \in Nat /\ hist[size] <= size * hist[size]
           /\ Walked'
<1>1. /\ size \in left /\ size \in DOMAIN hist /\ left \subseteq DOMAIN hist
      /\ (\A t \in left : t <= size) /\ (\A s \in Done : size < s)
  BY LongestLeft DEF Walked
<1>2. /\ hist' = hist /\ total' = total /\ printed' = printed
      /\ num_entries' = num_entries + hist[size]
      /\ current_coverage' = current_coverage + size * hist[size]
      /\ left' = left \ {size}
  BY DEF Entry
<1>3. size \in Nat \ {0} /\ hist[size] \in Nat \ {0}
  BY <1>1 DEF IsHist
<1>4. size * hist[size] \in Nat /\ hist[size] <= size * hist[size]
  <2>1. 1 * hist[size] <= size * hist[size]
    <3> DEFINE c == hist[size]
    <3>1. c \in Nat /\ size \in Nat /\ 1 <= size
      BY <1>3
    <3> HIDE DEF c
    <3>2. 1 * c <= size * c
      BY <3>1, LessTimes
    <3> QED
      BY <3>2 DEF c
  <2> QED
    BY <1>3, <2>1
<1>5. Done' = Done \cup {size} /\ size \notin Done /\ Done \cup {size} \subseteq DOMAIN hist
  BY <1>1, <1>2 DEF Done
<1>6. left' \subseteq DOMAIN hist'
  BY <1>1, <1>2
<1>7. \A s \in left', t \in Done' : s < t
  <2> SUFFICES ASSUME NEW s \in left \ {size}, NEW t \in Done \cup {size}
               PROVE  s < t
    BY <1>2, <1>5
  <2>1. s \in Nat /\ size \in Nat /\ s <= size /\ s # size
    BY <1>1 DEF IsHist
  <2>2. CASE t = size
    BY <2>1, <2>2
  <2>3. CASE t \in Done
    BY <2>3 DEF Walked
  <2> QED
    BY <2>2, <2>3
<1>8. IsFiniteSet(Done) /\ Done \subseteq DOMAIN hist
  BY <1>5, HistIs
<1>9. num_entries' = SumFunctionOnSet(hist', Done')
  <2>1. \A x \in Done \cup {size} : hist[x] \in Int
    BY <1>5, HistIs
  <2>2. SumFunctionOnSet(hist, Done \cup {size})
            = SumFunctionOnSet(hist, Done) + hist[size]
    BY <1>5, <1>8, <2>1, OnSetOneMore
  <2> QED
    BY <1>2, <1>5, <2>2 DEF Walked
<1>10. current_coverage' = SumFunctionOnSet(Pages', Done')
  <2> DEFINE f == Pages
  <2>1. \A x \in Done \cup {size} : f[x] = x * hist[x]
    BY <1>5 DEF Pages
  <2>2. \A x \in Done \cup {size} : f[x] \in Int
    <3> TAKE x \in Done \cup {size}
    <3>1. x \in Nat /\ hist[x] \in Nat
      BY <1>5, HistIs
    <3> HIDE DEF f
    <3> QED
      BY <2>1, <3>1
  <2>3. Pages' = f
    BY <1>2 DEF Pages
  <2>4. SumFunctionOnSet(f, Done) = current_coverage
    BY DEF Walked
  <2> HIDE DEF f
  <2>5. SumFunctionOnSet(f, Done \cup {size}) = SumFunctionOnSet(f, Done) + f[size]
    BY <1>5, <1>8, <2>2, OnSetOneMore
  <2> QED
    BY <1>2, <1>5, <2>1, <2>3, <2>4, <2>5
<1>11. /\ num_entries \in Nat /\ current_coverage \in Nat
       /\ num_entries <= current_coverage
  BY DEF Walked
<1>12. /\ num_entries' \in Nat /\ current_coverage' \in Nat
       /\ num_entries' <= current_coverage' /\ num_entries' # 0
  BY <1>2, <1>3, <1>4, <1>11
<1> QED
  BY <1>2, <1>3, <1>4, <1>6, <1>7, <1>9, <1>10, <1>12 DEF Walked

LongestSoFar == \A n \in Nat : n < num_entries => Longest(n) < current_coverage

\* The length that is counted now gets to p percent, as far as a float can tell.
GetsThere(p, size) ==
    /\ IsHist /\ Walked /\ LongestSoFar /\ left # {} /\ size = Max(left)
    /\ total <= FloatExact
    /\ current_coverage + size * hist[size] <= FloatExact
    /\ total = 0 => current_coverage = 0
    /\ 100 * current_coverage <= p * total + 50
    /\ 100 * (current_coverage + size * hist[size]) >= p * total - 50

\* Its runs that are needed: at most one more than there are.
LEMMA RunsOfLength ==
    ASSUME NEW p \in 1 .. 100, NEW size, GetsThere(p, size)
    PROVE  \E T \in Nat, d \in Nat :
               /\ T * 100 >= p * total /\ \A n \in Nat : n < T => n * 100 < p * total
               /\ T <= total /\ current_coverage + d = T
               /\ Required(p, size) \in Nat /\ Required(p, size) * size >= d
               /\ \A n \in Nat : n < Required(p, size) => n * size < d
               /\ Required(p, size) <= hist[size] + 1
               /\ Required(p, size) = hist[size] + 1
                    => current_coverage + size * hist[size] < T
<1> DEFINE goal == p * total
           T == CeilDiv(goal, 100)
           d == T - current_coverage
           r == CeilDiv(d, size)
           count == hist[size]
           pages == size * count
<1>1. size \in DOMAIN hist /\ size \in Nat \ {0} /\ count \in Nat \ {0} /\ total \in Nat
  BY LongestLeft DEF IsHist, GetsThere
<1>2. /\ current_coverage \in Nat /\ pages \in Nat /\ goal \in Nat
      /\ 100 * current_coverage <= goal + 50
      /\ 100 * (current_coverage + pages) >= goal - 50
  BY <1>1 DEF Walked, GetsThere
<1>3. /\ FloatExact \in Nat /\ Word \in Nat /\ FloatExact < Word
      /\ total <= FloatExact /\ current_coverage + pages <= FloatExact
  BY FloatAssumption DEF GetsThere
<1>4. goal <= 100 * total
  <2>1. p \in Nat /\ 100 \in Nat /\ p <= 100
    OBVIOUS
  <2> QED
    BY <1>1, <2>1, LessTimes
<1>5. size <= pages
  <2>1. 1 * size <= count * size /\ count * size = size * count
    BY <1>1, LessTimes
  <2> QED
    BY <1>1, <2>1
<1>6. Float(total) = total /\ Float(size) = size
  BY <1>1, <1>2, <1>3, <1>5, FloatIs
<1>7. /\ T \in Nat /\ T * 100 >= goal
      /\ \A n \in Nat : n < T => n * 100 < goal
  <2> DEFINE h == 100
  <2>1. h \in Nat \ {0}
    OBVIOUS
  <2> HIDE DEF h, goal
  <2>2. /\ CeilDiv(goal, h) \in Nat /\ CeilDiv(goal, h) * h >= goal
        /\ \A n \in Nat : n < CeilDiv(goal, h) => n * h < goal
    BY <1>2, <2>1, CeilDivIs
  <2> QED
    BY <2>2 DEF h
<1>8. Required(p, size) = ToWord(CeilQuotient(Float(ToWord(d)), size))
  BY <1>6 DEF Required
<1> HIDE DEF goal, T, pages, count
<1>9. T <= total
  <2> SUFFICES ASSUME total < T PROVE FALSE
    BY <1>1, <1>7
  <2>1. total * 100 < goal
    BY <1>1, <1>7
  <2> QED
    BY <1>1, <1>2, <1>4, <2>1
<1>10. d \in Nat /\ current_coverage + d = T
  <2>1. current_coverage <= T
    <3> SUFFICES ASSUME T < current_coverage PROVE FALSE
      BY <1>2, <1>7
    <3> QED
      BY <1>2, <1>7
  <2> QED
    BY <1>2, <1>7, <2>1
<1>11. d <= FloatExact /\ d < Word
  BY <1>1, <1>2, <1>3, <1>9, <1>10
<1> HIDE DEF d
<1>12. Required(p, size) = ToWord(r)
  <2>1. ToWord(d) = d /\ Float(d) = d
    BY <1>10, <1>11, SmallWord, FloatIs
  <2> QED
    BY <1>8, <1>11, <2>1 DEF CeilQuotient
<1>13. /\ r \in Nat /\ r * size >= d
       /\ \A n \in Nat : n < r => n * size < d
  BY <1>1, <1>10, CeilDivIs
<1> HIDE DEF r
<1>14. Required(p, size) = r
  <2>1. r <= d
    <3> SUFFICES ASSUME d < r PROVE FALSE
      BY <1>10, <1>13
    <3>1. d * size < d
      BY <1>10, <1>13
    <3>2. 1 * d <= size * d /\ size * d = d * size
      BY <1>1, <1>10, LessTimes
    <3> DEFINE x == d * size
    <3>3. x < d /\ d <= x /\ x \in Nat
      BY <1>1, <1>10, <3>1, <3>2
    <3> HIDE DEF x
    <3> QED
      BY <1>10, <3>3
  <2>2. r < Word
    BY <1>3, <1>10, <1>11, <1>13, <2>1
  <2> QED
    BY <1>12, <1>13, <2>2, SmallWord
<1>15. T <= current_coverage + pages + 1
  <2> SUFFICES ASSUME current_coverage + pages + 1 < T PROVE FALSE
    BY <1>2, <1>7
  <2>1. (current_coverage + pages + 1) * 100 < goal
    BY <1>2, <1>7
  <2> QED
    BY <1>2, <2>1
<1>16. r <= count + 1
  <2> SUFFICES ASSUME count + 1 < r PROVE FALSE
    BY <1>1, <1>13
  <2>1. (count + 1) * size < d
    BY <1>1, <1>13
  <2>2. (count + 1) * size = pages + size
    BY <1>1 DEF pages
  <2> QED
    BY <1>1, <1>2, <1>10, <1>15, <2>1, <2>2
<1>17. ASSUME r = count + 1 PROVE current_coverage + pages < T
  <2>1. count * size < d /\ count * size = pages
    BY <1>1, <1>13, <1>17 DEF pages
  <2> QED
    BY <1>2, <1>10, <2>1
<1> QED
  BY <1>7, <1>9, <1>10, <1>13, <1>14, <1>16, <1>17 DEF goal, pages, count

\* If they are as many as there are at most, they get to the percent with the
\* fewest runs; one more and the first of the next length is still needed.
LEMMA RequiredIs ==
    ASSUME NEW p \in 1 .. 100, NEW size, GetsThere(p, size),
           NEW k, k = num_entries + Required(p, size)
    PROVE  /\ k \in Nat /\ (total = 0 <=> k = 0)
           /\ total = 0 => Longest(0) = 0
           /\ \A n \in 0 .. k - 1 : 100 * Longest(n) < p * total
           /\ \/ /\ 100 * Longest(k) >= p * total
                 /\ ToWord(current_coverage + Required(p, size) * size) = Longest(k)
              \/ /\ k = num_entries + hist[size] + 1
                 /\ Longest(k - 1) = current_coverage + size * hist[size]
                 /\ 100 * (current_coverage + size * hist[size]) < p * total
<1> DEFINE goal == p * total
           r == Required(p, size)
           count == hist[size]
           pages == size * count
<1>1. size \in DOMAIN hist /\ size \in Nat \ {0} /\ count \in Nat \ {0} /\ total \in Nat
  BY LongestLeft DEF IsHist, GetsThere
<1>2. /\ IsHist /\ Walked /\ LongestSoFar /\ left # {} /\ size = Max(left)
      /\ current_coverage + pages <= FloatExact
      /\ total = 0 => current_coverage = 0
  BY DEF GetsThere
<1>3. /\ num_entries \in Nat /\ current_coverage \in Nat /\ pages \in Nat
      /\ num_entries <= current_coverage
      /\ num_entries = 0 => current_coverage = 0
  BY <1>1, <1>2 DEF Walked
<1>4. PICK T \in Nat, d \in Nat :
          /\ T * 100 >= goal /\ \A n \in Nat : n < T => n * 100 < goal
          /\ T <= total /\ current_coverage + d = T
          /\ r \in Nat /\ r * size >= d
          /\ \A n \in Nat : n < r => n * size < d
          /\ r <= count + 1
          /\ r = count + 1 => current_coverage + pages < T
  BY RunsOfLength
<1>5. goal \in Nat /\ (total # 0 => goal # 0)
  <2>1. goal \in Nat
    BY <1>1
  <2>2. 1 * total <= p * total
    BY <1>1, LessTimes
  <2> QED
    BY <1>1, <2>1, <2>2
<1> HIDE DEF goal, r, count, pages
<1>6. k = num_entries + r /\ k \in Nat
  BY <1>3, <1>4 DEF r
<1>7. ASSUME NEW n \in Nat, num_entries <= n, n <= num_entries + count
      PROVE  Longest(n) = current_coverage + (n - num_entries) * size
  BY <1>2, <1>7, LongestUpto DEF count
<1>8. ASSUME NEW n \in 0 .. k - 1 PROVE 100 * Longest(n) < goal
  <2>1. n \in Nat /\ n < k /\ Longest(n) \in Nat
    BY <1>2, <1>6, LongestIsSum
  <2>2. Longest(n) < T
    <3>1. CASE n < num_entries
      <4>1. Longest(n) < current_coverage
        BY <1>2, <2>1, <3>1 DEF LongestSoFar
      <4> QED
        BY <1>3, <1>4, <2>1, <4>1
    <3>2. CASE n >= num_entries
      <4> DEFINE m == n - num_entries
      <4>1. n <= num_entries + count /\ m \in Nat /\ m < r
        BY <1>1, <1>3, <1>4, <1>6, <2>1, <3>2
      <4>2. Longest(n) = current_coverage + m * size
        BY <1>7, <2>1, <3>2, <4>1
      <4> HIDE DEF m
      <4>3. m * size < d /\ m * size \in Nat
        BY <1>1, <1>4, <4>1
      <4> QED
        BY <1>3, <1>4, <4>2, <4>3
    <3> QED
      BY <1>3, <2>1, <3>1, <3>2
  <2>3. Longest(n) * 100 < goal
    BY <1>4, <2>1, <2>2
  <2> QED
    BY <2>1, <2>3
<1>9. CASE r <= count
  <2>1. Longest(k) = current_coverage + r * size
    <3>1. k - num_entries = r /\ num_entries <= k /\ k <= num_entries + count
      BY <1>1, <1>3, <1>4, <1>6, <1>9
    <3> QED
      BY <1>6, <1>7, <3>1
  <2>2. r * size \in Nat /\ r * size <= pages
    <3>1. r * size <= count * size /\ count * size = size * count
      BY <1>1, <1>4, <1>9, LessTimes
    <3> QED
      BY <1>1, <1>4, <3>1 DEF pages
  <2> DEFINE x == r * size
  <2>3. x \in Nat /\ x <= pages /\ x >= d /\ Longest(k) = current_coverage + x
    BY <1>4, <2>1, <2>2
  <2> HIDE DEF x
  <2>4. 100 * Longest(k) >= goal
    BY <1>3, <1>4, <1>5, <2>3
  <2>5. ToWord(current_coverage + x) = current_coverage + x
    <3>1. current_coverage + x \in Nat /\ current_coverage + x < Word
      BY <1>2, <1>3, <2>3, FloatAssumption
    <3> QED
      BY <3>1, SmallWord
  <2>6. total # 0 => k # 0
    <3> SUFFICES ASSUME total # 0, k = 0 PROVE FALSE
      OBVIOUS
    <3>1. num_entries = 0 /\ r = 0
      BY <1>3, <1>4, <1>6
    <3>2. d = 0
      BY <1>4, <1>6, <2>4, <1>5, <2>3, <3>1, <1>3, <1>1 DEF x
    <3> QED
      BY <1>3, <1>4, <1>5, <3>1, <3>2
  <2>7. total = 0 => k = 0
    <3> SUFFICES ASSUME total = 0 PROVE k = 0
      OBVIOUS
    <3>1. T = 0 /\ d = 0 /\ num_entries = 0
      BY <1>2, <1>3, <1>4
    <3>2. r = 0
      <4> SUFFICES ASSUME 0 < r PROVE FALSE
        BY <1>4
      <4>1. 0 * size < d
        BY <1>4
      <4> QED
        BY <1>1, <3>1, <4>1
    <3> QED
      BY <1>6, <3>1, <3>2
  <2>8. Longest(0) = 0
    BY <1>2, NoneAreNeeded
  <2> QED
    BY <1>6, <1>8, <2>3, <2>4, <2>5, <2>6, <2>7, <2>8 DEF goal, r, x
<1>10. CASE r = count + 1
  <2>1. k = num_entries + count + 1 /\ k # 0 /\ k - 1 = num_entries + count
    BY <1>1, <1>3, <1>6, <1>10
  <2>2. Longest(k - 1) = current_coverage + pages
    <3>1. k - 1 \in Nat /\ (k - 1) - num_entries = count
      BY <1>1, <1>3, <2>1
    <3>2. Longest(k - 1) = current_coverage + count * size
      BY <1>7, <1>1, <1>3, <2>1, <3>1
    <3> QED
      BY <1>1, <3>2 DEF pages
  <2>3. current_coverage + pages < T
    BY <1>4, <1>10
  <2>4. 100 * (current_coverage + pages) < goal
    <3> DEFINE n == current_coverage + pages
    <3>1. n \in Nat /\ n < T
      BY <1>3, <2>3
    <3> HIDE DEF n
    <3>2. n * 100 < goal
      BY <1>4, <3>1
    <3> QED
      BY <1>5, <3>1, <3>2 DEF n
  <2>5. total # 0
    BY <1>3, <1>4, <2>3
  <2> QED
    BY <1>6, <1>8, <2>1, <2>2, <2>4, <2>5 DEF goal, count, pages
<1> QED
  BY <1>1, <1>4, <1>9, <1>10

TopsAre ==
    \A n \in Tops : IF printed \/ n < num_entries
                    THEN top[n] = Longest(n) /\ (printed \/ top[n] # 0)
                    ELSE top[n] = 0

\* The result for p percent, if no number of pages is beyond FloatExact.
NotYet(p) ==
    /\ needed[p] = 0 /\ reached[p] = 0
    /\ total = 0 \/ Off(p, current_coverage) <= 50 * total

Found(p) ==
    /\ needed[p] \in Nat \ {0} /\ total # 0
    /\ -50 * total <= Off(p, current_coverage)
    /\ \A n \in 0 .. needed[p] - 1 : 100 * Longest(n) < p * total
    /\ \/ 100 * Longest(needed[p]) >= p * total
       \/ needed[p] = num_entries + 1 /\ 100 * current_coverage < p * total
    /\ \/ reached[p] = Longest(needed[p])
       \/ IsClose(p, Longest(needed[p] - 1))

PercentIs(p) ==
    total <= FloatExact /\ current_coverage <= FloatExact
        => NotYet(p) \/ Found(p)

ReportInv ==
    /\ IsHist /\ Walked /\ LongestSoFar
    /\ printed \in BOOLEAN /\ (printed => left = {})
    /\ TopsAre
    /\ \A p \in Percents : PercentIs(p)

LEMMA CloseIs ==
    ASSUME NEW p \in Nat, NEW x \in Nat, total \in Nat,
           \/ -50 * total <= Off(p, x) /\ 100 * x <= p * total
           \/ Off(p, x) <= 50 * total /\ 100 * x >= p * total
    PROVE  IsClose(p, x)
<1> DEFINE off == FloatExact * (100 * x - p * total)
<1>1. off = Off(p, x)
  BY DEF Off
<1>2. off \in Int /\ (100 * x >= p * total => off >= 0)
                  /\ (100 * x <= p * total => off <= 0)
  BY <1>1, OffSign
<1>3. IsClose(p, x) <=> -50 * total <= off /\ off <= 50 * total
  BY DEF IsClose
<1> HIDE DEF off
<1> QED
  BY <1>1, <1>2, <1>3

LEMMA ReportIsRight == ReportInv => TopCoverage /\ FewestEntries
<1> SUFFICES ASSUME ReportInv, printed PROVE TopCoverage /\ FewestEntries
  BY DEF TopCoverage, FewestEntries
<1>1. IsHist /\ Walked /\ left = {}
  BY DEF ReportInv
<1>2. \A n \in Tops : top[n] = Longest(n)
  BY DEF ReportInv, TopsAre
<1>3. Longest(Runs) = current_coverage /\ Runs = num_entries
  <2>1. Runs = num_entries /\ num_entries \in Nat
    BY <1>1, RunsAreCounted DEF Walked
  <2>2. Longest(num_entries) = current_coverage
    BY <1>1, <2>1, LongestOfAll
  <2> QED
    BY <2>1, <2>2
<1>4. ASSUME NEW p \in Percents, total <= FloatExact, current_coverage <= FloatExact
      PROVE  \/ /\ needed[p] = 0 /\ reached[p] = 0
                /\ 100 * current_coverage < p * total \/ IsClose(p, current_coverage)
             \/ /\ Fewest(p, needed[p])
                /\ \/ reached[p] = Longest(needed[p])
                   \/ IsClose(p, Longest(needed[p] - 1))
             \/ /\ needed[p] = num_entries + 1
                /\ 100 * current_coverage < p * total
                /\ IsClose(p, current_coverage)
  <2>1. p \in Nat /\ total \in Nat /\ current_coverage \in Nat /\ p * total \in Nat
    BY <1>1, FloatAssumption DEF IsHist, Walked
  <2>2. NotYet(p) \/ Found(p)
    BY <1>4 DEF ReportInv, PercentIs
  <2>3. CASE NotYet(p) /\ total # 0
    <3>1. 100 * current_coverage < p * total \/ 100 * current_coverage >= p * total
      BY <2>1
    <3>2. 100 * current_coverage >= p * total => IsClose(p, current_coverage)
      BY <2>1, <2>3, CloseIs DEF NotYet
    <3> QED
      BY <2>3, <3>1, <3>2 DEF NotYet
  <2>4. CASE NotYet(p) /\ total = 0
    <3>1. Longest(0) \in Nat /\ Longest(0) = 0
      BY <1>1, <2>4, NoneAreNeeded
    <3>2. p * total = 0 /\ needed[p] = 0 /\ reached[p] = 0
      BY <2>1, <2>4 DEF NotYet
    <3>3. Fewest(p, 0)
      BY <3>1, <3>2 DEF Fewest
    <3> QED
      BY <3>1, <3>2, <3>3
  <2>5. CASE Found(p) /\ 100 * Longest(needed[p]) >= p * total
    <3>1. Fewest(p, needed[p])
      BY <2>5 DEF Found, Fewest
    <3>2. reached[p] = Longest(needed[p]) \/ IsClose(p, Longest(needed[p] - 1))
      BY <2>5 DEF Found
    <3> QED
      BY <3>1, <3>2
  <2>6. CASE Found(p) /\ needed[p] = num_entries + 1 /\ 100 * current_coverage < p * total
    <3>1. IsClose(p, current_coverage)
      BY <2>1, <2>6, CloseIs DEF Found
    <3> QED
      BY <2>6, <3>1
  <2> QED
    BY <2>2, <2>3, <2>4, <2>5, <2>6 DEF Found
<1>5. FewestEntries
  BY <1>3, <1>4 DEF FewestEntries
<1> QED
  BY <1>2, <1>5 DEF TopCoverage

LEMMA SameLongest ==
    ASSUME hist' = hist, NEW n
    PROVE  Longest(n)' = Longest(n)
BY DEF Longest, Taken, Longer

LEMMA EntryLongest ==
    ASSUME IsHist, Walked, LongestSoFar, left # {}, Entry
    PROVE  LongestSoFar'
<1> DEFINE size == Max(left)
<1>1. size \in DOMAIN hist /\ size \in Nat \ {0} /\ hist[size] \in Nat \ {0}
  BY LongestLeft DEF IsHist
<1>2. /\ hist' = hist
      /\ num_entries' = num_entries + hist[size]
      /\ current_coverage' = current_coverage + size * hist[size]
      /\ size * hist[size] \in Nat
  BY EntryIs
<1>3. num_entries \in Nat /\ current_coverage \in Nat
  BY DEF Walked
<1> SUFFICES ASSUME NEW n \in Nat, n < num_entries + hist[size]
             PROVE  Longest(n)' < current_coverage + size * hist[size]
  BY <1>2 DEF LongestSoFar
<1>4. Longest(n)' = Longest(n) /\ Longest(n) \in Nat
  BY <1>2, SameLongest, LongestIsSum
<1>5. size * hist[size] >= 1
  BY EntryIs, <1>1, <1>2
<1>6. CASE n < num_entries
  <2>1. Longest(n) < current_coverage
    BY <1>6 DEF LongestSoFar
  <2> QED
    BY <1>2, <1>3, <1>4, <2>1
<1>7. CASE n >= num_entries
  <2> DEFINE m == n - num_entries
             c == hist[size]
  <2>1. Longest(n) = current_coverage + m * size
    <3>1. num_entries <= n /\ n <= num_entries + hist[size]
      BY <1>1, <1>3, <1>7
    <3> QED
      BY <3>1, LongestUpto
  <2>2. m \in Nat /\ m + 1 \in Nat /\ c \in Nat /\ m + 1 <= c /\ size \in Nat
    BY <1>1, <1>3, <1>7
  <2>3. m * size + size <= size * c
    <3> HIDE DEF m, c, size
    <3>1. (m + 1) * size <= c * size
      BY <2>2, LessTimes
    <3>2. (m + 1) * size = m * size + size /\ c * size = size * c
      BY <2>2
    <3> QED
      BY <3>1, <3>2
  <2>4. m * size \in Nat
    BY <2>2
  <2> HIDE DEF m, c
  <2>5. m * size < size * c
    BY <1>1, <1>2, <2>3, <2>4 DEF c
  <2> QED
    BY <1>2, <1>3, <1>4, <2>1, <2>4, <2>5 DEF c
<1> QED
  BY <1>3, <1>6, <1>7

LEMMA EntryTops ==
    ASSUME ReportInv, left # {}, Entry
    PROVE  TopsAre'
<1> DEFINE size == Max(left)
           count == hist[size]
<1>1. IsHist /\ Walked /\ printed = FALSE
  BY DEF ReportInv
<1>2. /\ hist' = hist /\ printed' = FALSE
      /\ num_entries' = num_entries + count
      /\ size \in Nat \ {0} /\ count \in Nat \ {0}
  BY <1>1, EntryIs
<1>3. /\ num_entries \in Nat /\ current_coverage \in Nat
      /\ num_entries <= current_coverage
  BY <1>1 DEF Walked
<1>4. top' = [n \in Tops |-> TopAfter(n, size, count)]
  BY DEF Entry
<1> HIDE DEF size, count
<1> SUFFICES ASSUME NEW n \in Tops
             PROVE  IF n < num_entries + count
                    THEN top'[n] = Longest(n) /\ top'[n] # 0
                    ELSE top'[n] = 0
  <2>1. \A n \in Tops : Longest(n)' = Longest(n)
    BY <1>2, SameLongest
  <2> QED
    BY <1>2, <2>1 DEF TopsAre
<1>5. n \in Nat \ {0}
  BY HistogramsAssumption
<1>6. IF n < num_entries THEN top[n] = Longest(n) /\ top[n] # 0 ELSE top[n] = 0
  BY <1>1 DEF ReportInv, TopsAre
<1>7. top'[n] = IF num_entries + count > n /\ top[n] = 0
                THEN current_coverage + (n - num_entries) * size
                ELSE top[n]
  BY <1>4 DEF TopAfter
<1>8. CASE n < num_entries
  BY <1>2, <1>3, <1>5, <1>6, <1>7, <1>8
<1>9. CASE n >= num_entries /\ n < num_entries + count
  <2>1. top'[n] = current_coverage + (n - num_entries) * size
    BY <1>2, <1>3, <1>5, <1>6, <1>7, <1>9
  <2>2. Longest(n) = current_coverage + (n - num_entries) * size
    <3>1. n \in Nat /\ num_entries <= n /\ n <= num_entries + hist[Max(left)]
      BY <1>2, <1>3, <1>5, <1>9 DEF size, count
    <3> QED
      BY <1>1, <3>1, LongestUpto DEF size
  <2>3. current_coverage + (n - num_entries) * size # 0
    <3>1. n - num_entries \in Nat
      BY <1>3, <1>5, <1>9
    <3>2. 1 * (n - num_entries) <= size * (n - num_entries)
      BY <1>2, <3>1, LessTimes
    <3>3. (n - num_entries) * size = size * (n - num_entries)
      BY <1>2, <3>1
    <3>4. (n - num_entries) * size >= n - num_entries
      BY <3>1, <3>2, <3>3
    <3> DEFINE x == (n - num_entries) * size
    <3>5. x \in Nat
      BY <1>2, <3>1
    <3>6. x >= n - num_entries
      BY <3>4
    <3> HIDE DEF x
    <3>7. current_coverage + x # 0
      BY <1>3, <1>5, <3>1, <3>5, <3>6
    <3> QED
      BY <3>7 DEF x
  <2> QED
    BY <1>9, <2>1, <2>2, <2>3
<1>10. CASE n >= num_entries + count
  BY <1>2, <1>3, <1>5, <1>6, <1>7, <1>10
<1> QED
  BY <1>2, <1>3, <1>5, <1>8, <1>9, <1>10

\* A length that does not get to p percent, or the first that does.
LEMMA EntryNotYet ==
    ASSUME ReportInv, left # {}, Entry, NEW p \in Percents, NotYet(p),
           total <= FloatExact, current_coverage' <= FloatExact
    PROVE  NotYet(p)' \/ Found(p)'
<1> DEFINE size == Max(left)
           count == hist[size]
           pages == current_coverage + size * count
           k == num_entries + Required(p, size)
<1>1. IsHist /\ Walked /\ LongestSoFar
  BY DEF ReportInv
<1>2. p \in 1 .. 100 /\ p \in Nat
  BY FloatAssumption
<1>3. /\ hist' = hist /\ total' = total /\ current_coverage' = pages
      /\ size * count \in Nat /\ num_entries' = num_entries + count
  BY <1>1, EntryIs
<1>4. needed[p] = 0 /\ reached[p] = 0
  BY DEF NotYet
<1>5. IF Reaches(p, pages)
      THEN /\ needed'[p] = k
           /\ reached'[p] = ToWord(current_coverage + Required(p, size) * size)
      ELSE needed'[p] = 0 /\ reached'[p] = 0
  BY <1>4 DEF Entry
<1>6. /\ current_coverage \in Nat /\ total \in Nat /\ p * total \in Nat
      /\ pages \in Nat /\ pages <= FloatExact
  BY <1>1, <1>2, <1>3 DEF Walked, IsHist
<1>7. (\A n : Longest(n)' = Longest(n)) /\ (\A x : Off(p, x)' = Off(p, x))
      /\ \A x : IsClose(p, x)' = IsClose(p, x)
  BY <1>3, SameLongest DEF Off, IsClose
<1>8. ASSUME ~Reaches(p, pages) PROVE NotYet(p)'
  <2>1. total # 0
    BY <1>8 DEF Reaches
  <2>2. Off(p, pages) <= 50 * total
    <3> HIDE DEF pages
    <3> QED
      BY <1>2, <1>6, <1>8, <2>1, ReachesIs
  <2>3. needed'[p] = 0 /\ reached'[p] = 0
    BY <1>5, <1>8
  <2>4. Off(p, current_coverage)' = Off(p, pages)
    BY <1>3 DEF Off
  <2> HIDE DEF pages
  <2> QED
    BY <1>3, <2>2, <2>3, <2>4 DEF NotYet
<1>9. ASSUME Reaches(p, pages) PROVE NotYet(p)' \/ Found(p)'
  <2>1. total = 0 => current_coverage = 0
    <3> SUFFICES ASSUME total = 0 PROVE current_coverage = 0
      OBVIOUS
    <3>1. PICK s : s \in left
      OBVIOUS
    <3>2. \A t \in Done : s < t /\ s = t
      BY <1>1, <3>1 DEF Walked, IsHist, Done
    <3>3. s \in Nat
      BY <1>1, <3>1 DEF Walked, IsHist
    <3>4. Done = {}
      BY <3>2, <3>3
    <3> QED
      BY <1>1, <3>4, OnSetNothing DEF Walked
  <2>2. total # 0 => -50 * total <= Off(p, pages)
    <3> HIDE DEF pages
    <3> QED
      BY <1>2, <1>6, <1>9, ReachesIs
  <2>3. 100 * pages >= p * total - 50
    <3> HIDE DEF pages
    <3>1. CASE total = 0
      BY <1>2, <1>6, <3>1
    <3>2. CASE total # 0
      BY <1>2, <1>6, <2>2, <3>2, HalfAPage
    <3> QED
      BY <3>1, <3>2
  <2>4. 100 * current_coverage <= p * total + 50
    <3>1. CASE total = 0
      BY <1>2, <1>6, <2>1, <3>1
    <3>2. CASE total # 0
      BY <1>2, <1>6, <3>2, HalfAPage DEF NotYet
    <3> QED
      BY <3>1, <3>2
  <2>5. GetsThere(p, size)
    BY <1>1, <1>6, <2>1, <2>3, <2>4 DEF GetsThere
  <2>6. /\ k \in Nat /\ (total = 0 <=> k = 0)
        /\ total = 0 => Longest(0) = 0
        /\ \A n \in 0 .. k - 1 : 100 * Longest(n) < p * total
        /\ \/ /\ 100 * Longest(k) >= p * total
              /\ ToWord(current_coverage + Required(p, size) * size) = Longest(k)
           \/ /\ k = num_entries + hist[size] + 1
              /\ Longest(k - 1) = current_coverage + size * hist[size]
              /\ 100 * (current_coverage + size * hist[size]) < p * total
    <3> HIDE DEF k, size
    <3> QED
      BY <1>2, <2>5, RequiredIs DEF k
  <2>7. /\ needed'[p] = k
        /\ reached'[p] = ToWord(current_coverage + Required(p, size) * size)
    BY <1>5, <1>9
  <2>8. Off(p, current_coverage)' = Off(p, pages)
    BY <1>3 DEF Off
  <2>9. CASE total = 0
    <3>1. k = 0 /\ Longest(0) = 0
      BY <2>6, <2>9
    <3>2. k # num_entries + hist[size] + 1
      BY <1>1, <1>3, <3>1, EntryIs DEF Walked
    <3>3. reached'[p] = 0
      BY <2>6, <2>7, <3>1, <3>2
    <3> HIDE DEF k, size, pages
    <3> QED
      BY <1>3, <2>7, <2>9, <3>1, <3>3 DEF NotYet
  <2>10. CASE total # 0
    <3>1. k \in Nat \ {0} /\ -50 * total <= Off(p, pages)
      BY <2>2, <2>6, <2>10
    <3>2. \/ 100 * Longest(k) >= p * total /\ reached'[p] = Longest(k)
          \/ /\ k = num_entries' + 1 /\ 100 * pages < p * total
             /\ IsClose(p, Longest(k - 1))
      <4>1. CASE /\ 100 * Longest(k) >= p * total
                 /\ ToWord(current_coverage + Required(p, size) * size) = Longest(k)
        BY <2>7, <4>1
      <4>2. CASE /\ k = num_entries + hist[size] + 1
                 /\ Longest(k - 1) = pages
                 /\ 100 * pages < p * total
        <5> HIDE DEF pages
        <5>1. -50 * total <= Off(p, pages) /\ 100 * pages <= p * total
          BY <1>6, <3>1, <4>2
        <5>2. IsClose(p, pages)
          BY <1>2, <1>6, <5>1, CloseIs
        <5> QED
          BY <1>3, <4>2, <5>2
      <4> QED
        BY <2>6, <4>1, <4>2
    <3> HIDE DEF k, size, pages
    <3>3. \A n \in 0 .. k - 1 : 100 * Longest(n) < p * total
      BY <2>6
    <3>4. Found(p)'
      BY <1>3, <1>7, <2>7, <2>8, <2>10, <3>1, <3>2, <3>3 DEF Found
    <3> QED
      BY <3>4
  <2> QED
    BY <2>9, <2>10
<1> QED
  BY <1>8, <1>9

\* A length behind the one that got to p percent.
LEMMA EntryFound ==
    ASSUME ReportInv, left # {}, Entry, NEW p \in Percents, Found(p),
           total <= FloatExact
    PROVE  Found(p)'
<1> DEFINE size == Max(left)
           count == hist[size]
           pages == current_coverage + size * count
<1>1. IsHist /\ Walked /\ LongestSoFar
  BY DEF ReportInv
<1>2. p \in Nat
  BY FloatAssumption
<1>3. /\ hist' = hist /\ total' = total /\ current_coverage' = pages
      /\ size * count \in Nat /\ size \in Nat \ {0} /\ count \in Nat \ {0}
  BY <1>1, EntryIs
<1>4. needed'[p] = needed[p] /\ reached'[p] = reached[p]
  BY DEF Entry, Found
<1>5. /\ current_coverage \in Nat /\ num_entries \in Nat /\ total \in Nat
      /\ p * total \in Nat /\ pages \in Nat /\ current_coverage <= pages
  BY <1>1, <1>2, <1>3 DEF Walked, IsHist
<1>6. (\A n : Longest(n)' = Longest(n)) /\ \A x : IsClose(p, x)' = IsClose(p, x)
  BY <1>3, SameLongest DEF IsClose
<1>7. Off(p, current_coverage)' = Off(p, pages)
  BY <1>3 DEF Off
<1>8. -50 * total <= Off(p, pages)
  <2> HIDE DEF pages
  <2>1. /\ Off(p, current_coverage) <= Off(p, pages)
        /\ Off(p, current_coverage) \in Int /\ Off(p, pages) \in Int
    BY <1>2, <1>5, OffGrows, OffSign
  <2> QED
    BY <1>5, <2>1 DEF Found
<1>9. 100 * Longest(needed[p]) >= p * total
  <2>1. CASE needed[p] = num_entries + 1
    <3>1. Longest(num_entries + 1)
            = current_coverage + ((num_entries + 1) - num_entries) * size
      <4>1. /\ num_entries + 1 \in Nat /\ num_entries <= num_entries + 1
            /\ num_entries + 1 <= num_entries + hist[size]
        BY <1>3, <1>5
      <4> QED
        BY <1>1, <4>1, LongestUpto
    <3>2. 100 * current_coverage >= p * total - 50
      BY <1>2, <1>5, HalfAPage DEF Found
    <3>3. ((num_entries + 1) - num_entries) * size = size
      BY <1>3, <1>5
    <3> HIDE DEF size
    <3> QED
      BY <1>3, <1>5, <2>1, <3>1, <3>2, <3>3
  <2>2. CASE needed[p] # num_entries + 1
    BY <2>2 DEF Found
  <2> QED
    BY <2>1, <2>2
<1> HIDE DEF pages, size, count
<1> QED
  BY <1>3, <1>4, <1>6, <1>7, <1>8, <1>9 DEF Found

LEMMA EntryPercents ==
    ASSUME ReportInv, left # {}, Entry, NEW p \in Percents
    PROVE  PercentIs(p)'
<1> SUFFICES ASSUME (total <= FloatExact)', (current_coverage <= FloatExact)'
             PROVE  NotYet(p)' \/ Found(p)'
  BY DEF PercentIs
<1>1. IsHist /\ Walked /\ PercentIs(p)
  BY DEF ReportInv
<1>2. total' = total /\ current_coverage <= current_coverage'
      /\ current_coverage \in Nat /\ current_coverage' \in Nat
  BY <1>1, EntryIs DEF Walked
<1>3. total <= FloatExact /\ current_coverage <= FloatExact
  BY <1>2, FloatAssumption
<1>4. NotYet(p) \/ Found(p)
  BY <1>1, <1>3 DEF PercentIs
<1> QED
  BY <1>3, <1>4, EntryNotYet, EntryFound

LEMMA WalkBegins ==
    ASSUME IsHist, left = DOMAIN hist, num_entries = 0, current_coverage = 0,
           needed = [p \in Percents |-> 0], reached = [p \in Percents |-> 0],
           top = [n \in Tops |-> 0],
           printed = FALSE \/ (printed = TRUE /\ left = {} /\ total = 0)
    PROVE  ReportInv
<1>1. Done = {}
  BY DEF Done
<1>2. Walked
  <2>1. SumFunctionOnSet(hist, Done) = 0
    BY <1>1, OnSetNothing
  <2>2. SumFunctionOnSet(Pages, Done) = 0
    BY <1>1, OnSetNothing
  <2> QED
    BY <1>1, <2>1, <2>2 DEF Walked
<1>3. LongestSoFar
  BY DEF LongestSoFar
<1>4. printed \in BOOLEAN /\ (printed => left = {})
  OBVIOUS
<1>5. TopsAre
  <2> SUFFICES ASSUME NEW n \in Tops, printed \/ n < 0
               PROVE  top[n] = Longest(n) /\ printed
    BY DEF TopsAre
  <2>1. n \in Nat /\ printed /\ left = {}
    BY HistogramsAssumption
  <2>2. Longest(n) = 0
    BY <1>2, <2>1, LongestOfAll
  <2> QED
    BY <2>1, <2>2
<1>6. ASSUME NEW p \in Percents PROVE PercentIs(p)
  <2>1. p \in Nat /\ total \in Nat
    BY FloatAssumption DEF IsHist
  <2>2. p * total \in Nat /\ 100 * current_coverage <= p * total
    BY <2>1
  <2>3. Off(p, current_coverage) <= 50 * total
    <3>1. /\ Off(p, current_coverage) \in Int /\ current_coverage \in Nat
          /\ Off(p, current_coverage) <= 0
      BY <2>1, <2>2, OffSign
    <3> QED
      BY <2>1, <3>1
  <2> QED
    BY <2>3 DEF PercentIs, NotYet
<1> QED
  BY <1>2, <1>3, <1>4, <1>5, <1>6 DEF ReportInv

LEMMA InitReportInv == ToolsInit => ReportInv
<1>1. ASSUME Init PROVE ReportInv
  <2>1. PICK h \in Histograms : hist = h.hist /\ total = h.total
    BY <1>1 DEF Init
  <2>2. IsHist
    BY <2>1, HistogramsAssumption DEF IsHist
  <2>3. /\ left = DOMAIN hist /\ num_entries = 0 /\ current_coverage = 0
        /\ needed = [p \in Percents |-> 0] /\ reached = [p \in Percents |-> 0]
        /\ top = [n \in Tops |-> 0] /\ printed = FALSE
    BY <1>1 DEF Init
  <2> QED
    BY <2>2, <2>3, WalkBegins
<1>2. ASSUME NoHistogram PROVE ReportInv
  <2>1. hist = EmptyBag /\ DOMAIN EmptyBag = {}
    BY <1>2 DEF NoHistogram, EmptyBag, SetToBag
  <2>2. DOMAIN hist = {} /\ IsFiniteSet({})
    BY <2>1, FS_EmptySet
  <2>3. /\ left = {} /\ total = 0 /\ num_entries = 0 /\ current_coverage = 0
        /\ needed = [p \in Percents |-> 0] /\ reached = [p \in Percents |-> 0]
        /\ top = [n \in Tops |-> 0] /\ printed = TRUE
    BY <1>2 DEF NoHistogram
  <2>4. IsHist
    BY <2>2, <2>3 DEF IsHist
  <2> QED
    BY <2>2, <2>3, <2>4, WalkBegins
<1> QED
  BY <1>1, <1>2 DEF ToolsInit

LEMMA NextReportInv ==
    ReportInv /\ [ToolsNext]_<<vars, logVars, tablesVars>> => ReportInv'
<1> SUFFICES ASSUME ReportInv, [ToolsNext]_<<vars, logVars, tablesVars>>
             PROVE  ReportInv'
  OBVIOUS
<1>1. ASSUME UNCHANGED vars PROVE ReportInv'
  <2>1. \A n : Longest(n)' = Longest(n)
    BY <1>1, SameLongest DEF vars
  <2>2. IsHist' /\ Walked' /\ LongestSoFar'
    BY <1>1, <2>1 DEF vars, ReportInv, IsHist, Walked, LongestSoFar, Done, Pages
  <2>3. TopsAre' /\ (printed \in BOOLEAN)' /\ (printed => left = {})'
    BY <1>1, <2>1 DEF vars, ReportInv, TopsAre
  <2>4. \A p \in Percents : PercentIs(p)'
    BY <1>1, <2>1 DEF vars, ReportInv, PercentIs, NotYet, Found, Off, IsClose
  <2> QED
    BY <2>2, <2>3, <2>4 DEF ReportInv
<1>2. ASSUME Entry PROVE ReportInv'
  <2>1. IsHist /\ Walked /\ LongestSoFar /\ left # {} /\ printed = FALSE
    BY <1>2 DEF ReportInv, Entry
  <2>2. Walked' /\ hist' = hist /\ total' = total /\ printed' = FALSE
    BY <1>2, <2>1, EntryIs
  <2>3. LongestSoFar' /\ TopsAre'
    BY <1>2, <2>1, EntryLongest, EntryTops
  <2>4. \A p \in Percents : PercentIs(p)'
    BY <1>2, <2>1, EntryPercents
  <2>5. IsHist'
    BY <2>1, <2>2 DEF IsHist
  <2> QED
    BY <2>2, <2>3, <2>4, <2>5 DEF ReportInv
<1>3. ASSUME PrintReport PROVE ReportInv'
  <2>1. /\ left = {} /\ left' = left /\ printed' = TRUE /\ hist' = hist
        /\ total' = total /\ num_entries' = num_entries
        /\ current_coverage' = current_coverage /\ needed' = needed
        /\ reached' = reached
    BY <1>3 DEF PrintReport
  <2>2. IsHist /\ Walked
    BY DEF ReportInv
  <2>3. \A n : Longest(n)' = Longest(n)
    BY <2>1, SameLongest
  <2>4. TopsAre'
    <3> SUFFICES ASSUME NEW n \in Tops PROVE top'[n] = Longest(n)
      BY <2>1, <2>3 DEF TopsAre
    <3>1. n \in Nat /\ num_entries \in Nat
      BY <2>2, HistogramsAssumption DEF Walked
    <3>2. top'[n] = IF num_entries <= n THEN current_coverage ELSE top[n]
      BY <1>3 DEF PrintReport
    <3>3. CASE num_entries <= n
      BY <2>1, <2>2, <3>1, <3>2, <3>3, LongestOfAll
    <3>4. CASE n < num_entries
      BY <3>1, <3>2, <3>4 DEF ReportInv, TopsAre
    <3> QED
      BY <3>1, <3>3, <3>4
  <2>5. IsHist' /\ Walked' /\ LongestSoFar'
    BY <2>1, <2>3 DEF ReportInv, IsHist, Walked, LongestSoFar, Done, Pages
  <2>6. \A p \in Percents : PercentIs(p)'
    BY <2>1, <2>3 DEF ReportInv, PercentIs, NotYet, Found, Off, IsClose
  <2> QED
    BY <2>1, <2>4, <2>5, <2>6 DEF ReportInv
<1> QED
  BY <1>1, <1>2, <1>3 DEF ToolsNext, ReportRanges, ReadLog, ReadFolders, Next

\* print_range_hist: in one walk over the lengths, the longest first, the
\* results are those of their definitions, for every histogram that the
\* collector makes.  What makes the walk right is that the runs of the lengths
\* behind it are exactly the num_entries longest.
THEOREM WalkIsRight == ToolsSpec => []ReportInv
<1>1. ToolsInit => ReportInv
  BY InitReportInv
<1>2. ReportInv /\ [ToolsNext]_<<vars, logVars, tablesVars>> => ReportInv'
  BY NextReportInv
<1> QED
  BY <1>1, <1>2, PTL DEF ToolsSpec

\* "N entries coverage" is the number of pages of the N longest runs, also if
\* there are less than N, or if N falls between two runs of one length.
THEOREM TopsAreCovered == ToolsSpec => []TopCoverage
<1>1. ReportInv => TopCoverage
  BY ReportIsRight
<1> QED
  BY <1>1, WalkIsRight, PTL

\* "Number of entries for at least p percent coverage" is the least number of
\* runs that have p percent of the present pages, and zero if all
\* of them together have not.
THEOREM FewestAreNeeded == ToolsSpec => []FewestEntries
<1>1. ReportInv => FewestEntries
  BY ReportIsRight
<1> QED
  BY <1>1, WalkIsRight, PTL
-----------------------------------------------------------------------------
(* parse_defrag_results.py, parse_defrag_fails.py                          *)


\* The sums and folds of DefragLogs, with names for their arguments.
StatsTotal(l, S) == Logs!MapThenSumSet(LAMBDA k : l[k].stats, S)
SizesTotal(l, S) == Logs!MapThenSumSet(LAMBDA k : l[k].size, S)
ValuesTotal(f)   == Logs!MapThenSumSet(LAMBDA x : f[x], DOMAIN f)
SizeOfType(fs, t) == Logs!SizeOf(fs, LAMBDA f : f.type = t)
SizeOfPage(fs, d, t) == Logs!SizeOf(fs, LAMBDA f : t \in Logs!Types(d, f))

LEMMA StatsSum ==
    ASSUME NEW l, NEW f, NEW S, IsFiniteSet(S), \A k \in S : f[k] = l[k].stats
    PROVE  StatsTotal(l, S) = SumFunctionOnSet(f, S)
<1> DEFINE Fits(I) == I = [s \in SUBSET S |->
                               IF s = {} THEN 0
                               ELSE l[First(s)].stats + I[s \ {First(s)}]]
           I == CHOOSE J : Fits(J)
<1>1. StatsTotal(l, S) = I[S]
  BY DEF StatsTotal, Logs!MapThenSumSet, Logs!MapThenFoldSet, First
<1>2. \A J : Fits(J) <=> IsSetSum(J, f, S)
  <2> TAKE J
  <2>1. \A s \in SUBSET S : s # {} => f[First(s)] = l[First(s)].stats
    BY FirstOf
  <2> QED
    BY <2>1 DEF IsSetSum
<1>3. PICK J : IsSetSum(J, f, S) /\ SumFunctionOnSet(f, S) = J[S]
  BY OnSetIsSetSum
<1> HIDE DEF Fits
<1>4. IsSetSum(I, f, S)
  BY <1>2, <1>3
<1> HIDE DEF I
<1>5. S \in SUBSET S /\ S \subseteq S
  OBVIOUS
<1>6. I[S] = J[S]
  BY <1>3, <1>4, <1>5, SetSumOfSame
<1> QED
  BY <1>1, <1>3, <1>6
LEMMA SizesSum ==
    ASSUME NEW l, NEW f, NEW S, IsFiniteSet(S), \A k \in S : f[k] = l[k].size
    PROVE  SizesTotal(l, S) = SumFunctionOnSet(f, S)
<1> DEFINE Fits(I) == I = [s \in SUBSET S |->
                               IF s = {} THEN 0
                               ELSE l[First(s)].size + I[s \ {First(s)}]]
           I == CHOOSE J : Fits(J)
<1>1. SizesTotal(l, S) = I[S]
  BY DEF SizesTotal, Logs!MapThenSumSet, Logs!MapThenFoldSet, First
<1>2. \A J : Fits(J) <=> IsSetSum(J, f, S)
  <2> TAKE J
  <2>1. \A s \in SUBSET S : s # {} => f[First(s)] = l[First(s)].size
    BY FirstOf
  <2> QED
    BY <2>1 DEF IsSetSum
<1>3. PICK J : IsSetSum(J, f, S) /\ SumFunctionOnSet(f, S) = J[S]
  BY OnSetIsSetSum
<1> HIDE DEF Fits
<1>4. IsSetSum(I, f, S)
  BY <1>2, <1>3
<1> HIDE DEF I
<1>5. S \in SUBSET S /\ S \subseteq S
  OBVIOUS
<1>6. I[S] = J[S]
  BY <1>3, <1>4, <1>5, SetSumOfSame
<1> QED
  BY <1>1, <1>3, <1>6

\* A sum over the places in P, the last one first.
LEMMA ValuesSum ==
    ASSUME NEW f, IsFiniteSet(DOMAIN f)
    PROVE  ValuesTotal(f) = SumFunction(f)
<1> DEFINE S == DOMAIN f
           I == CHOOSE J : IsSetSum(J, f, S)
<1>1. ValuesTotal(f) = I[S]
  BY DEF ValuesTotal, Logs!MapThenSumSet, Logs!MapThenFoldSet, First, IsSetSum
<1>2. SumFunction(f) = SumFunctionOnSet(f, S)
  BY DEF SumFunction, SumFunctionOnSet, FoldFunction
<1>3. PICK J : IsSetSum(J, f, S) /\ SumFunctionOnSet(f, S) = J[S]
  BY OnSetIsSetSum
<1>4. IsSetSum(I, f, S)
  BY <1>3
<1> HIDE DEF I
<1>5. S \in SUBSET S /\ S \subseteq S
  OBVIOUS
<1>6. I[S] = J[S]
  BY <1>3, <1>4, <1>5, SetSumOfSame
<1> QED
  BY <1>1, <1>2, <1>3, <1>6

IsLastSum(I, g, P, T) ==
    I = [s \in SUBSET T |->
            IF s = {} THEN 0
            ELSE IF Logs!Max(s) \in P
                 THEN I[s \ {Logs!Max(s)}] + g[Logs!Max(s)]
                 ELSE I[s \ {Logs!Max(s)}]]

LEMMA LastIn ==
    ASSUME NEW T, T \subseteq Nat, IsFiniteSet(T), T # {}
    PROVE  Logs!Max(T) \in T
<1>1. Logs!Max(T) = Max(T)
  BY DEF Logs!Max, Max
<1> QED
  BY <1>1, MaxOf

Steps(g, P, s, x) ==
    SumFunctionOnSet(g, s \cap P)
        = IF x \in P THEN SumFunctionOnSet(g, (s \ {x}) \cap P) + g[x]
                     ELSE SumFunctionOnSet(g, (s \ {x}) \cap P)

LEMMA LastSumStep ==
    ASSUME NEW g, NEW P, NEW s, IsFiniteSet(s), NEW x \in s,
           \A m \in s : g[m] \in Int
    PROVE  Steps(g, P, s, x)
<1> USE DEF Steps
<1> DEFINE r == (s \ {x}) \cap P
<1>1. IsFiniteSet(r) /\ x \notin r /\ r \subseteq s
  BY FS_Subset
<1>2. CASE x \in P
  <2>1. s \cap P = r \cup {x} /\ \A m \in r \cup {x} : g[m] \in Int
    BY <1>2
  <2> HIDE DEF r
  <2>2. SumFunctionOnSet(g, r \cup {x}) = SumFunctionOnSet(g, r) + g[x]
    BY <1>1, <2>1, OnSetOneMore
  <2> QED
    BY <1>2, <2>1, <2>2 DEF r
<1>3. CASE x \notin P
  <2>1. s \cap P = r
    BY <1>3
  <2> QED
    BY <1>3, <2>1
<1> QED
  BY <1>2, <1>3

LEMMA LastSumExists ==
    ASSUME NEW g, NEW P, NEW T, T \subseteq Nat, IsFiniteSet(T),
           \A m \in T : g[m] \in Int
    PROVE  \E I : IsLastSum(I, g, P, T)
<1> DEFINE J == [s \in SUBSET T |-> SumFunctionOnSet(g, s \cap P)]
           Last(s) == Logs!Max(s)
           K == [s \in SUBSET T |->
                    IF s = {} THEN 0
                    ELSE IF Last(s) \in P THEN J[s \ {Last(s)}] + g[Last(s)]
                                          ELSE J[s \ {Last(s)}]]
<1>1. \A s \in SUBSET T : J[s] = K[s]
  <2> TAKE s \in SUBSET T
  <2>1. J[s] = SumFunctionOnSet(g, s \cap P)
    OBVIOUS
  <2>2. CASE s = {}
    <3>1. s \cap P = {}
      BY <2>2
    <3> QED
      BY <2>1, <2>2, <3>1, OnSetNothing
  <2>3. CASE s # {}
    <3>1. IsFiniteSet(s) /\ s \subseteq Nat /\ \A m \in s : g[m] \in Int
      BY FS_Subset
    <3>2. Last(s) \in s
      BY <2>3, <3>1, LastIn
    <3> HIDE DEF Last
    <3>3. SumFunctionOnSet(g, s \cap P)
              = IF Last(s) \in P
                THEN SumFunctionOnSet(g, (s \ {Last(s)}) \cap P) + g[Last(s)]
                ELSE SumFunctionOnSet(g, (s \ {Last(s)}) \cap P)
      <4>1. Steps(g, P, s, Last(s))
        BY <3>1, <3>2, LastSumStep
      <4> QED
        BY <4>1 DEF Steps
    <3>4. s \ {Last(s)} \in SUBSET T
      OBVIOUS
    <3>5. J[s \ {Last(s)}] = SumFunctionOnSet(g, (s \ {Last(s)}) \cap P)
      BY <3>4
    <3>6. K[s] = IF Last(s) \in P THEN J[s \ {Last(s)}] + g[Last(s)]
                                  ELSE J[s \ {Last(s)}]
      BY <2>3
    <3> HIDE DEF J, K
    <3> QED
      BY <2>1, <3>3, <3>5, <3>6
  <2> QED
    BY <2>2, <2>3
<1>2. J = K
  <2>1. J = [s \in SUBSET T |-> J[s]] /\ K = [s \in SUBSET T |-> K[s]]
    OBVIOUS
  <2> HIDE DEF J, K
  <2> QED
    BY <1>1, <2>1
<1>3. IsLastSum(J, g, P, T)
  <2> HIDE DEF J
  <2> QED
    BY <1>2 DEF IsLastSum, K, Last
<1> QED
  BY <1>3

AddsUp(I, g, P, T) == I[T] = SumFunctionOnSet(g, T \cap P)

LEMMA LastSumIs ==
    ASSUME NEW g, NEW P, NEW T, T \subseteq Nat, IsFiniteSet(T),
           \A m \in T : g[m] \in Int, NEW I, IsLastSum(I, g, P, T)
    PROVE  AddsUp(I, g, P, T)
<1> DEFINE Right(s) == I[s] = SumFunctionOnSet(g, s \cap P)
           All == {n \in Nat : \A s \in SUBSET T : Cardinality(s) = n => Right(s)}
<1>1. 0 \in All
  <2>1. \A s \in SUBSET T : Cardinality(s) = 0 => s = {}
    BY SizeOfSubset
  <2>2. Right({})
    <3>1. {} \cap P = {} /\ I[{}] = 0
      BY DEF IsLastSum
    <3> QED
      BY <3>1, OnSetNothing
  <2> HIDE DEF Right
  <2> QED
    BY <2>1, <2>2
<1>2. \A n \in Nat : n \in All => n + 1 \in All
  <2> HIDE DEF Right
  <2> SUFFICES ASSUME NEW n \in Nat, n \in All, NEW s \in SUBSET T,
                      Cardinality(s) = n + 1
               PROVE  Right(s)
    OBVIOUS
  <2>1. s # {}
    BY FS_EmptySet
  <2> DEFINE y == Logs!Max(s)
  <2>2. IsFiniteSet(s) /\ s \subseteq Nat /\ \A m \in s : g[m] \in Int
    BY FS_Subset
  <2>3. y \in s
    BY <2>1, <2>2, LastIn
  <2>4. I[s] = IF y \in P THEN I[s \ {y}] + g[y] ELSE I[s \ {y}]
    BY <2>1 DEF IsLastSum
  <2> HIDE DEF y
  <2>5. s \ {y} \in SUBSET T /\ Cardinality(s \ {y}) = n
    BY <2>3, RemoveOne
  <2>6. Right(s \ {y})
    BY <2>5
  <2>7. SumFunctionOnSet(g, s \cap P)
            = IF y \in P THEN SumFunctionOnSet(g, (s \ {y}) \cap P) + g[y]
                         ELSE SumFunctionOnSet(g, (s \ {y}) \cap P)
    <3>1. Steps(g, P, s, y)
      BY <2>2, <2>3, LastSumStep
    <3> QED
      BY <3>1 DEF Steps
  <2> QED
    BY <2>4, <2>6, <2>7 DEF Right
<1>3. Cardinality(T) \in All
  <2> HIDE DEF All
  <2> QED
    BY <1>1, <1>2, NumbersOf, FS_CardinalityType
<1> QED
  BY <1>3 DEF AddsUp

\* What parse_defrag_fails.py adds up for a failure, and for a type of page.
LEMMA TypeSizes ==
    ASSUME NEW fs, NEW L, fs \in Seq(L), NEW g, NEW t,
           \A m \in DOMAIN fs : g[m] = fs[m].size /\ g[m] \in Int
    PROVE  SizeOfType(fs, t)
               = SumFunctionOnSet(g, {m \in DOMAIN fs : fs[m].type = t})
<1> DEFINE T == DOMAIN fs
           P == {m \in T : fs[m].type = t}
           Last(s) == Logs!Max(s)
           Fits(I) == I = [s \in SUBSET T |->
               IF s = {} THEN 0
               ELSE IF fs[Last(s)].type = t
                    THEN I[s \ {Last(s)}] + fs[Last(s)].size
                    ELSE I[s \ {Last(s)}]]
           I == CHOOSE J : Fits(J)
<1>1. SizeOfType(fs, t) = I[T]
  BY DEF SizeOfType, Logs!SizeOf, Logs!FoldLeft, Logs!MapThenFoldSet
<1>2. T \subseteq Nat /\ IsFiniteSet(T) /\ T \cap P = P
  <2>1. T = 1 .. Len(fs) /\ Len(fs) \in Nat
    OBVIOUS
  <2> QED
    BY <2>1, FS_Interval
<1> HIDE DEF T
<1>3. \A s \in SUBSET T : s # {} => Last(s) \in s
  <2> TAKE s \in SUBSET T
  <2>1. IsFiniteSet(s) /\ s \subseteq Nat
    BY <1>2, FS_Subset
  <2> QED
    BY <2>1, LastIn
<1>4. \A J : Fits(J) <=> IsLastSum(J, g, P, T)
  <2> TAKE J
  <2>1. \A s \in SUBSET T : s # {} =>
            /\ (fs[Last(s)].type = t <=> Last(s) \in P)
            /\ fs[Last(s)].size = g[Last(s)]
    BY <1>3 DEF T
  <2> HIDE DEF P
  <2> QED
    BY <2>1 DEF IsLastSum
<1>5. \A m \in T : g[m] \in Int
  BY DEF T
<1> HIDE DEF P, Fits
<1>6. IsLastSum(I, g, P, T)
  <2>1. PICK J : IsLastSum(J, g, P, T)
    BY <1>2, <1>5, LastSumExists
  <2>2. Fits(J)
    BY <1>4, <2>1
  <2>3. Fits(I)
    BY <2>2
  <2> HIDE DEF I
  <2> QED
    BY <1>4, <2>3
<1> HIDE DEF I
<1>7. AddsUp(I, g, P, T)
  BY <1>2, <1>5, <1>6, LastSumIs
<1> QED
  BY <1>1, <1>2, <1>7 DEF P, T, AddsUp

LEMMA PageSizes ==
    ASSUME NEW fs, NEW L, fs \in Seq(L), NEW g, NEW d, NEW t,
           \A m \in DOMAIN fs : g[m] = fs[m].size /\ g[m] \in Int
    PROVE  SizeOfPage(fs, d, t)
               = SumFunctionOnSet(g, {m \in DOMAIN fs : t \in Logs!Types(d, fs[m])})
<1> DEFINE T == DOMAIN fs
           P == {m \in T : t \in Logs!Types(d, fs[m])}
           Last(s) == Logs!Max(s)
           Fits(I) == I = [s \in SUBSET T |->
               IF s = {} THEN 0
               ELSE IF t \in Logs!Types(d, fs[Last(s)])
                    THEN I[s \ {Last(s)}] + fs[Last(s)].size
                    ELSE I[s \ {Last(s)}]]
           I == CHOOSE J : Fits(J)
<1>1. SizeOfPage(fs, d, t) = I[T]
  BY DEF SizeOfPage, Logs!SizeOf, Logs!FoldLeft, Logs!MapThenFoldSet
<1>2. T \subseteq Nat /\ IsFiniteSet(T) /\ T \cap P = P
  <2>1. T = 1 .. Len(fs) /\ Len(fs) \in Nat
    OBVIOUS
  <2> QED
    BY <2>1, FS_Interval
<1> HIDE DEF T
<1>3. \A s \in SUBSET T : s # {} => Last(s) \in s
  <2> TAKE s \in SUBSET T
  <2>1. IsFiniteSet(s) /\ s \subseteq Nat
    BY <1>2, FS_Subset
  <2> QED
    BY <2>1, LastIn
<1>4. \A J : Fits(J) <=> IsLastSum(J, g, P, T)
  <2> TAKE J
  <2>1. \A s \in SUBSET T : s # {} =>
            /\ (t \in Logs!Types(d, fs[Last(s)]) <=> Last(s) \in P)
            /\ fs[Last(s)].size = g[Last(s)]
    BY <1>3 DEF T
  <2> HIDE DEF P
  <2> QED
    BY <2>1 DEF IsLastSum
<1>5. \A m \in T : g[m] \in Int
  BY DEF T
<1> HIDE DEF P, Fits
<1>6. IsLastSum(I, g, P, T)
  <2>1. PICK J : IsLastSum(J, g, P, T)
    BY <1>2, <1>5, LastSumExists
  <2>2. Fits(J)
    BY <1>4, <2>1
  <2>3. Fits(I)
    BY <2>2
  <2> HIDE DEF I
  <2> QED
    BY <1>4, <2>3
<1> HIDE DEF I
<1>7. AddsUp(I, g, P, T)
  BY <1>2, <1>5, <1>6, LastSumIs
<1> QED
  BY <1>1, <1>2, <1>7 DEF P, T, AddsUp

IsHeader(l, h) == l[h].kind = "header"

IsLog(l) ==
    /\ IsList(l)
    /\ \A k \in DOMAIN l :
           /\ l[k].kind = "header" => l[k] = Logs!Header(l[k].iter)
           /\ l[k].kind = "vma" => l[k] = Logs!VmaLine(l[k].vma)
           /\ l[k].kind = "chunk" => l[k].stats \in Nat
           /\ l[k].kind = "f" => l[k].size \in Nat
           /\ l[k].kind \in {"f", "dst"} =>
                  l[k].pfn = [ds |-> l[k].pfn.ds, rest |-> l[k].pfn.rest]
    /\ \A j, k \in DOMAIN l : l[j].kind = "header" /\ l[j] = l[k] => j = k

\* Of the first n lines of a log: the iteration that they are in, the lines of
\* an iteration and those of a kind.
OpenAt(l, n, a) ==
    IF a = <<>> THEN \A h \in 1 .. n : ~IsHeader(l, h)
    ELSE \E h \in 1 .. n :
             /\ IsHeader(l, h) /\ a = <<l[h].iter>>
             /\ \A j \in h + 1 .. n : ~IsHeader(l, j)

InLines(l, m, i) ==
    /\ ~IsHeader(l, m)
    /\ \E h \in 1 .. m - 1 : /\ l[h] = Logs!Header(i)
                             /\ \A j \in h + 1 .. m : ~IsHeader(l, j)
LinesIn(l, n, i) == {m \in 1 .. n : InLines(l, m, i)}
OfIn(l, n, i, kind) == {m \in LinesIn(l, n, i) : l[m].kind = kind}

LEMMA ListIs ==
    ASSUME NEW l, IsList(l)
    PROVE  /\ Len(l) \in Nat /\ DOMAIN l = 1 .. Len(l) /\ l \in Seq(Range(l))
           /\ \A k \in DOMAIN l : l[k] \in Range(l)
<1>1. l \in Seq(Range(l))
  BY DEF IsList
<1> QED
  BY <1>1 DEF Range

LEMMA HeaderIs ==
    ASSUME NEW l, IsLog(l), NEW k \in DOMAIN l, IsHeader(l, k)
    PROVE  l[k] = Logs!Header(l[k].iter)
BY DEF IsLog, IsHeader

LEMMA LineIsIn ==
    ASSUME NEW l, IsLog(l), NEW n \in Nat, n < Len(l), NEW a, OpenAt(l, n, a),
           NEW i
    PROVE  InLines(l, n + 1, i) <=> ~IsHeader(l, n + 1) /\ a = <<i>>
<1>0. Len(l) \in Nat /\ DOMAIN l = 1 .. Len(l)
  BY ListIs DEF IsLog
<1>1. ASSUME InLines(l, n + 1, i) PROVE a = <<i>>
  <2>1. PICK h \in 1 .. n : /\ l[h] = Logs!Header(i)
                            /\ \A j \in h + 1 .. n + 1 : ~IsHeader(l, j)
    <3>1. (n + 1) - 1 = n
      OBVIOUS
    <3> QED
      BY <1>1, <3>1 DEF InLines
  <2>2. IsHeader(l, h) /\ l[h].iter = i
    BY <2>1 DEF Logs!Header, IsHeader
  <2>3. a # <<>>
    BY <2>2 DEF OpenAt
  <2>4. PICK g \in 1 .. n : /\ IsHeader(l, g) /\ a = <<l[g].iter>>
                            /\ \A j \in g + 1 .. n : ~IsHeader(l, j)
    BY <2>3 DEF OpenAt
  <2>5. g = h
    <3>1. ~(g \in h + 1 .. n + 1) /\ ~(h \in g + 1 .. n)
      BY <2>1, <2>2, <2>4
    <3> QED
      BY <3>1
  <2> QED
    BY <2>2, <2>4, <2>5
<1>2. ASSUME ~IsHeader(l, n + 1), a = <<i>> PROVE InLines(l, n + 1, i)
  <2>1. a # <<>>
    BY <1>2
  <2>2. PICK h \in 1 .. n : /\ IsHeader(l, h) /\ a = <<l[h].iter>>
                            /\ \A j \in h + 1 .. n : ~IsHeader(l, j)
    BY <2>1 DEF OpenAt
  <2>3. l[h].iter = i
    BY <1>2, <2>2
  <2>4. h \in DOMAIN l
    BY <1>0
  <2>5. l[h] = Logs!Header(i)
    BY <2>2, <2>3, <2>4 DEF IsLog, IsHeader
  <2>6. \A j \in h + 1 .. n + 1 : ~IsHeader(l, j)
    BY <1>2, <2>2
  <2>7. h \in 1 .. (n + 1) - 1
    OBVIOUS
  <2> QED
    BY <1>2, <2>5, <2>6, <2>7 DEF InLines
<1>3. InLines(l, n + 1, i) => ~IsHeader(l, n + 1)
  BY DEF InLines
<1> QED
  BY <1>1, <1>2, <1>3

\* The next line is one of the iteration that is open.
OfGrows(l, n, a, i, kind) ==
    /\ OfIn(l, n + 1, i, kind) = IF l[n + 1].kind = kind /\ a = <<i>>
                                 THEN OfIn(l, n, i, kind) \cup {n + 1}
                                 ELSE OfIn(l, n, i, kind)
    /\ n + 1 \notin OfIn(l, n, i, kind)

LEMMA OfGrow ==
    ASSUME NEW l, IsLog(l), NEW n \in Nat, n < Len(l), NEW a, OpenAt(l, n, a),
           NEW i, NEW kind, kind # "header"
    PROVE  OfGrows(l, n, a, i, kind)
<1>1. InLines(l, n + 1, i) <=> ~IsHeader(l, n + 1) /\ a = <<i>>
  BY LineIsIn
<1>2. \A m : m \in LinesIn(l, n + 1, i)
                <=> m \in LinesIn(l, n, i) \/ (m = n + 1 /\ InLines(l, n + 1, i))
  <2>1. \A m : m \in 1 .. n + 1 <=> m \in 1 .. n \/ m = n + 1
    OBVIOUS
  <2> QED
    BY <2>1 DEF LinesIn
<1>3. \A m : m \in OfIn(l, n + 1, i, kind)
                <=> m \in OfIn(l, n, i, kind)
                    \/ (m = n + 1 /\ l[n + 1].kind = kind /\ a = <<i>>)
  BY <1>1, <1>2 DEF OfIn, IsHeader
<1>4. n + 1 \notin OfIn(l, n, i, kind)
  BY DEF OfIn, LinesIn
<1> DEFINE s == OfIn(l, n, i, kind)
           t == OfIn(l, n + 1, i, kind)
           P == l[n + 1].kind = kind /\ a = <<i>>
<1>5. \A m : m \in t <=> m \in s \/ (m = n + 1 /\ P)
  BY <1>3
<1> HIDE DEF s, t, P
<1>6. CASE P
  <2>1. t = s \cup {n + 1}
    BY <1>5, <1>6
  <2> QED
    BY <1>4, <1>6, <2>1 DEF OfGrows, s, t, P
<1>7. CASE ~P
  <2>1. t = s
    BY <1>5, <1>7
  <2> QED
    BY <1>4, <1>7, <2>1 DEF OfGrows, s, t, P
<1> QED
  BY <1>6, <1>7

LEMMA KindsGrow ==
    ASSUME NEW l, IsLog(l), NEW n \in Nat, n < Len(l), NEW a, OpenAt(l, n, a),
           NEW i
    PROVE  \A kind \in {"vma", "chunk", "f", "dst"} : OfGrows(l, n, a, i, kind)
<1> SUFFICES ASSUME NEW kind \in {"vma", "chunk", "f", "dst"}
             PROVE  OfGrows(l, n, a, i, kind)
  OBVIOUS
<1>1. kind # "header"
  OBVIOUS
<1> QED
  BY <1>1, OfGrow

\* What is open after the next line.
LEMMA OpenNext ==
    ASSUME NEW l, IsLog(l), NEW n \in Nat, n < Len(l), NEW a, OpenAt(l, n, a)
    PROVE  /\ ~IsHeader(l, n + 1) => OpenAt(l, n + 1, a)
           /\ IsHeader(l, n + 1) => OpenAt(l, n + 1, <<l[n + 1].iter>>)
<1>1. ASSUME ~IsHeader(l, n + 1) PROVE OpenAt(l, n + 1, a)
  BY <1>1 DEF OpenAt
<1>2. ASSUME IsHeader(l, n + 1) PROVE OpenAt(l, n + 1, <<l[n + 1].iter>>)
  <2> DEFINE b == <<l[n + 1].iter>>
  <2>1. b # <<>>
    OBVIOUS
  <2>2. n + 1 \in 1 .. n + 1 /\ \A j \in (n + 1) + 1 .. n + 1 : ~IsHeader(l, j)
    OBVIOUS
  <2> QED
    BY <1>2, <2>1, <2>2 DEF OpenAt
<1> QED
  BY <1>1, <1>2

LEMMA OfIsFinite ==
    ASSUME NEW l, NEW n \in Nat, NEW i, NEW kind
    PROVE  /\ IsFiniteSet(OfIn(l, n, i, kind)) /\ OfIn(l, n, i, kind) \subseteq 1 .. n
           /\ \A m \in OfIn(l, n, i, kind) : l[m].kind = kind
<1>1. OfIn(l, n, i, kind) \subseteq 1 .. n
  BY DEF OfIn, LinesIn
<1>2. IsFiniteSet(1 .. n)
  BY FS_Interval
<1> QED
  BY <1>1, <1>2, FS_Subset DEF OfIn

\* Nothing was read of an iteration before its header.
LEMMA OfNew ==
    ASSUME NEW l, IsLog(l), NEW n \in Nat, n < Len(l), IsHeader(l, n + 1),
           NEW kind
    PROVE  /\ OfIn(l, n, l[n + 1].iter, kind) = {}
           /\ \A h \in 1 .. n : IsHeader(l, h) => l[h].iter # l[n + 1].iter
<1>0. Len(l) \in Nat /\ DOMAIN l = 1 .. Len(l)
  BY ListIs DEF IsLog
<1>1. n + 1 \in DOMAIN l /\ l[n + 1] = Logs!Header(l[n + 1].iter)
  <2>1. n + 1 \in DOMAIN l
    BY <1>0
  <2> QED
    BY <2>1, HeaderIs
<1>2. \A h \in 1 .. n : l[h] # l[n + 1]
  <2> SUFFICES ASSUME NEW h \in 1 .. n, l[h] = l[n + 1] PROVE FALSE
    OBVIOUS
  <2>1. h \in DOMAIN l /\ l[h].kind = "header"
    BY <1>0 DEF IsHeader
  <2>2. h = n + 1
    BY <1>1, <2>1 DEF IsLog
  <2> QED
    BY <2>2
<1>3. \A h \in 1 .. n : IsHeader(l, h) => l[h].iter # l[n + 1].iter
  <2> SUFFICES ASSUME NEW h \in 1 .. n, IsHeader(l, h), l[h].iter = l[n + 1].iter
               PROVE  FALSE
    OBVIOUS
  <2>1. l[h] = Logs!Header(l[h].iter)
    <3>1. h \in DOMAIN l
      BY <1>0
    <3> QED
      BY <3>1, HeaderIs
  <2>2. l[h] = l[n + 1]
    BY <1>1, <2>1
  <2> QED
    BY <1>2, <2>2
<1>4. \A m \in 1 .. n : ~InLines(l, m, l[n + 1].iter)
  <2> SUFFICES ASSUME NEW m \in 1 .. n, InLines(l, m, l[n + 1].iter)
               PROVE  FALSE
    OBVIOUS
  <2>1. PICK h \in 1 .. m - 1 : l[h] = Logs!Header(l[n + 1].iter)
    BY DEF InLines
  <2>2. h \in 1 .. n /\ l[h] = l[n + 1]
    BY <1>1, <2>1
  <2> QED
    BY <1>2, <2>2
<1> QED
  BY <1>3, <1>4 DEF OfIn, LinesIn

StatsOf(l) == [k \in DOMAIN l |-> l[k].stats]
HeadersIn(l, n) == {h \in 1 .. n : IsHeader(l, h)}
ItersIn(l, n) == {l[h].iter : h \in HeadersIn(l, n)}

LEMMA ItersGrow ==
    ASSUME NEW l, NEW n \in Nat
    PROVE  ItersIn(l, n + 1) = IF IsHeader(l, n + 1)
                               THEN ItersIn(l, n) \cup {l[n + 1].iter}
                               ELSE ItersIn(l, n)
<1>1. \A h : h \in 1 .. n + 1 <=> h \in 1 .. n \/ h = n + 1
  OBVIOUS
<1>2. CASE IsHeader(l, n + 1)
  <2>1. HeadersIn(l, n + 1) = HeadersIn(l, n) \cup {n + 1}
    BY <1>1, <1>2 DEF HeadersIn
  <2> QED
    BY <1>2, <2>1 DEF ItersIn
<1>3. CASE ~IsHeader(l, n + 1)
  <2>1. HeadersIn(l, n + 1) = HeadersIn(l, n)
    BY <1>1, <1>3 DEF HeadersIn
  <2> QED
    BY <1>3, <2>1 DEF ItersIn
<1> QED
  BY <1>2, <1>3

\* What is open is an iteration.
LEMMA OpenIsRead ==
    ASSUME NEW l, NEW n \in Nat, NEW a, OpenAt(l, n, a), a # <<>>
    PROVE  \E i \in ItersIn(l, n) : a = <<i>>
BY DEF OpenAt, ItersIn, HeadersIn

\* So is every iteration that has lines.
LEMMA OfIsRead ==
    ASSUME NEW l, NEW n \in Nat, NEW i, NEW kind, NEW k \in OfIn(l, n, i, kind)
    PROVE  i \in ItersIn(l, n)
<1>1. k \in 1 .. n /\ InLines(l, k, i)
  BY DEF OfIn, LinesIn
<1>2. PICK h \in 1 .. k - 1 : l[h] = Logs!Header(i)
  BY <1>1 DEF InLines
<1>3. h \in HeadersIn(l, n) /\ l[h].iter = i
  BY <1>1, <1>2 DEF HeadersIn, IsHeader, Logs!Header
<1> QED
  BY <1>3 DEF ItersIn

\* A line behind one of the open iteration is of it as well.
LEMMA SameIteration ==
    ASSUME NEW l, IsLog(l), NEW n \in Nat, n <= Len(l), NEW i,
           OpenAt(l, n, <<i>>), NEW kind, NEW m \in OfIn(l, n, i, kind),
           NEW j, NEW k \in OfIn(l, n, j, kind), m <= k
    PROVE  i = j
<1>0. Len(l) \in Nat /\ DOMAIN l = 1 .. Len(l)
  BY ListIs DEF IsLog
<1>1. <<i>> # <<>>
  OBVIOUS
<1>2. PICK g \in 1 .. n : /\ IsHeader(l, g) /\ <<i>> = <<l[g].iter>>
                          /\ \A x \in g + 1 .. n : ~IsHeader(l, x)
  BY <1>1 DEF OpenAt
<1>3. m \in 1 .. n /\ k \in 1 .. n /\ InLines(l, m, i) /\ InLines(l, k, j)
  BY DEF OfIn, LinesIn
<1>4. PICK p \in 1 .. m - 1 : /\ l[p] = Logs!Header(i)
                              /\ \A x \in p + 1 .. m : ~IsHeader(l, x)
  BY <1>3 DEF InLines
<1>5. PICK q \in 1 .. k - 1 : /\ l[q] = Logs!Header(j)
                              /\ \A x \in q + 1 .. k : ~IsHeader(l, x)
  BY <1>3 DEF InLines
<1>6. g \in DOMAIN l /\ p \in DOMAIN l /\ q \in DOMAIN l
  BY <1>0, <1>3
<1>7. l[g] = Logs!Header(i)
  <2>1. l[g] = Logs!Header(l[g].iter) /\ l[g].iter = i
    BY <1>2, <1>6, HeaderIs
  <2> QED
    BY <2>1
<1>8. g = p
  BY <1>2, <1>4, <1>6, <1>7 DEF IsLog, IsHeader
<1>9. IsHeader(l, q) /\ l[q].iter = j
  BY <1>5 DEF IsHeader, Logs!Header
<1>10. ~(g \in q + 1 .. k) /\ ~(q \in g + 1 .. n)
  BY <1>2, <1>5, <1>9
<1>11. g = q
  BY <1>3, <1>4, <1>5, <1>8, <1>10
<1> QED
  BY <1>2, <1>9, <1>11
-----------------------------------------------------------------------------
(* parse_defrag_results.py                                                 *)

\* What is kept of an iteration, and what it is after n lines.
IsAccount(x) ==
    /\ x = [total |-> x.total, vmas |-> x.vmas] /\ x.total \in Nat
    /\ x.vmas = [v \in DOMAIN x.vmas |-> x.vmas[v]]
    /\ IsFiniteSet(DOMAIN x.vmas)
    /\ \A v \in DOMAIN x.vmas : x.vmas[v] \in Nat

IsRead(l, n, i, x) ==
    /\ IsAccount(x)
    /\ x.total = SumFunctionOnSet(StatsOf(l), OfIn(l, n, i, "chunk"))
    /\ DOMAIN x.vmas = {l[k].vma : k \in OfIn(l, n, i, "vma")}

InterruptedIn(l, n, i) ==
    \/ \E j, k \in OfIn(l, n, i, "vma") : j < k /\ l[k] = l[j]
    \/ \E k \in OfIn(l, n, i, "chunk") : \A j \in OfIn(l, n, i, "vma") : j > k

LastVma(l, n, v) ==
    \E i : \E k \in OfIn(l, n, i, "vma") :
        /\ v = <<i, l[k].vma>>
        /\ \A m \in 1 .. n : l[m].kind = "vma" => m <= k

ResultsInv(l, n, d, v) ==
    /\ DOMAIN d = ItersIn(l, n) /\ d = [i \in DOMAIN d |-> d[i]]
    /\ \A i \in DOMAIN d : IsRead(l, n, i, d[i])
    /\ v = <<>> \/ LastVma(l, n, v)
    /\ (\A i \in DOMAIN d : ~InterruptedIn(l, n, i)) =>
           \A i \in DOMAIN d : d[i].total = SumFunction(d[i].vmas)

LEMMA StaysInterrupted ==
    ASSUME NEW l, IsLog(l), NEW n \in Nat, n < Len(l), NEW a, OpenAt(l, n, a),
           NEW i, InterruptedIn(l, n, i)
    PROVE  InterruptedIn(l, n + 1, i)
<1> DEFINE V == OfIn(l, n, i, "vma")
           C == OfIn(l, n, i, "chunk")
           W == OfIn(l, n + 1, i, "vma")
           D == OfIn(l, n + 1, i, "chunk")
<1>1. /\ \A m \in V : m \in W
      /\ \A m \in C : m \in D
      /\ \A m \in W : m \in V \/ m = n + 1
  <2>1. OfGrows(l, n, a, i, "chunk") /\ OfGrows(l, n, a, i, "vma")
    BY KindsGrow
  <2> QED
    BY <2>1 DEF OfGrows
<1>2. V \subseteq 1 .. n /\ C \subseteq 1 .. n
  BY OfIsFinite
<1>3. \/ \E j, k \in V : j < k /\ l[k] = l[j]
      \/ \E k \in C : \A j \in V : j > k
  BY DEF InterruptedIn
<1> HIDE DEF V, C, W, D
<1>4. ASSUME \E j, k \in V : j < k /\ l[k] = l[j]
      PROVE  \E j, k \in W : j < k /\ l[k] = l[j]
  BY <1>1, <1>4
<1>5. ASSUME \E k \in C : \A j \in V : j > k
      PROVE  \E k \in D : \A j \in W : j > k
  <2>1. PICK k \in C : \A j \in V : j > k
    BY <1>5
  <2>2. k \in D /\ n + 1 > k
    BY <1>1, <1>2
  <2> QED
    BY <1>1, <2>1, <2>2
<1> QED
  BY <1>3, <1>4, <1>5 DEF InterruptedIn, W, D

\* A line of another kind leaves what was read of an iteration.
LEMMA ReadSame ==
    ASSUME NEW l, IsLog(l), NEW n \in Nat, n < Len(l), NEW a, OpenAt(l, n, a),
           NEW i, NEW x, IsRead(l, n, i, x),
           l[n + 1].kind \notin {"vma", "chunk"} \/ a # <<i>>
    PROVE  IsRead(l, n + 1, i, x)
<1>1. /\ OfIn(l, n + 1, i, "chunk") = OfIn(l, n, i, "chunk")
      /\ OfIn(l, n + 1, i, "vma") = OfIn(l, n, i, "vma")
  <2>1. OfGrows(l, n, a, i, "chunk") /\ OfGrows(l, n, a, i, "vma")
    BY KindsGrow
  <2> QED
    BY <2>1 DEF OfGrows
<1> QED
  BY <1>1 DEF IsRead

LEMMA LastVmaSame ==
    ASSUME NEW l, IsLog(l), NEW n \in Nat, n < Len(l), NEW a, OpenAt(l, n, a),
           NEW v, v = <<>> \/ LastVma(l, n, v), l[n + 1].kind # "vma"
    PROVE  v = <<>> \/ LastVma(l, n + 1, v)
<1> SUFFICES ASSUME LastVma(l, n, v) PROVE LastVma(l, n + 1, v)
  OBVIOUS
<1>1. PICK i : \E k \in OfIn(l, n, i, "vma") :
                   /\ v = <<i, l[k].vma>>
                   /\ \A m \in 1 .. n : l[m].kind = "vma" => m <= k
  BY DEF LastVma
<1>2. PICK k \in OfIn(l, n, i, "vma") :
          /\ v = <<i, l[k].vma>>
          /\ \A m \in 1 .. n : l[m].kind = "vma" => m <= k
  BY <1>1
<1>3. k \in OfIn(l, n + 1, i, "vma")
  BY KindsGrow DEF OfGrows
<1>4. \A m \in 1 .. n + 1 : l[m].kind = "vma" => m <= k
  <2>1. \A m \in 1 .. n + 1 : m \in 1 .. n \/ m = n + 1
    OBVIOUS
  <2> QED
    BY <1>2, <2>1
<1> QED
  BY <1>2, <1>3, <1>4 DEF LastVma

LEMMA IgnoreResults ==
    ASSUME NEW l, IsLog(l), NEW n \in Nat, n < Len(l), NEW a, OpenAt(l, n, a),
           NEW d, NEW v, ResultsInv(l, n, d, v), l[n + 1].kind = "dashes"
    PROVE  ResultsInv(l, n + 1, d, v)
<1>1. ItersIn(l, n + 1) = ItersIn(l, n)
  BY ItersGrow DEF IsHeader
<1>2. DOMAIN d = ItersIn(l, n + 1) /\ d = [i \in DOMAIN d |-> d[i]]
  BY <1>1 DEF ResultsInv
<1>3. \A i \in DOMAIN d : IsRead(l, n + 1, i, d[i])
  <2>1. l[n + 1].kind \notin {"vma", "chunk"}
    OBVIOUS
  <2> QED
    BY <2>1, ReadSame DEF ResultsInv
<1>4. v = <<>> \/ LastVma(l, n + 1, v)
  BY LastVmaSame DEF ResultsInv
<1>5. \A i : InterruptedIn(l, n, i) => InterruptedIn(l, n + 1, i)
  BY StaysInterrupted
<1> QED
  BY <1>2, <1>3, <1>4, <1>5 DEF ResultsInv

\* A function with one more, or another, value.
Put(f, x, v) == [y \in DOMAIN f \cup {x} |-> IF y = x THEN v ELSE f[y]]

NewAccount == [total |-> 0, vmas |-> <<>>]

LEMMA NewAccountIs ==
    /\ IsAccount(NewAccount) /\ DOMAIN NewAccount.vmas = {}
    /\ NewAccount.total = 0 /\ SumFunction(NewAccount.vmas) = 0
<1> DEFINE f == <<>>
<1>1. DOMAIN f = {} /\ f = [x \in DOMAIN f |-> f[x]]
  OBVIOUS
<1>2. IsFiniteSet({})
  BY FS_EmptySet
<1> HIDE DEF f
<1>3. SumFunction(f) = 0
  BY <1>1, SumOfNothing
<1>4. NewAccount = [total |-> 0, vmas |-> f]
  BY DEF NewAccount, f
<1>5. NewAccount.total = 0 /\ NewAccount.vmas = f
      /\ NewAccount = [total |-> NewAccount.total, vmas |-> NewAccount.vmas]
  BY <1>4
<1> QED
  BY <1>1, <1>2, <1>3, <1>5 DEF IsAccount

LEMMA HeaderOfResults ==
    ASSUME NEW l, IsLog(l), NEW n \in Nat, n < Len(l), NEW a, OpenAt(l, n, a),
           NEW d, NEW v, ResultsInv(l, n, d, v), IsHeader(l, n + 1)
    PROVE  ResultsInv(l, n + 1, Put(d, l[n + 1].iter, NewAccount), v)
<1> DEFINE it == l[n + 1].iter
           e  == Put(d, it, NewAccount)
<1>1. ItersIn(l, n + 1) = ItersIn(l, n) \cup {it}
  BY ItersGrow
<1>2. it \notin DOMAIN d
  <2>1. \A h \in 1 .. n : IsHeader(l, h) => l[h].iter # it
    BY OfNew
  <2> QED
    BY <2>1 DEF ResultsInv, ItersIn, HeadersIn
<1>3. /\ DOMAIN e = DOMAIN d \cup {it} /\ e = [i \in DOMAIN e |-> e[i]]
      /\ e[it] = NewAccount
      /\ \A i \in DOMAIN d : e[i] = d[i]
  <2> HIDE DEF it
  <2> QED
    BY <1>2 DEF Put
<1> HIDE DEF it, e
<1>4. DOMAIN e = ItersIn(l, n + 1)
  BY <1>1, <1>3 DEF ResultsInv
<1>5. l[n + 1].kind \notin {"vma", "chunk"} /\ l[n + 1].kind # "vma"
  BY DEF IsHeader
<1>6. ASSUME NEW i \in DOMAIN e PROVE IsRead(l, n + 1, i, e[i])
  <2>1. CASE i \in DOMAIN d
    <3>1. IsRead(l, n, i, e[i])
      BY <1>3, <2>1 DEF ResultsInv
    <3> QED
      BY <1>5, <3>1, ReadSame
  <2>2. CASE i = it
    <3>1. OfIn(l, n, i, "chunk") = {} /\ OfIn(l, n, i, "vma") = {}
      BY <2>2, OfNew DEF it
    <3>2. SumFunctionOnSet(StatsOf(l), OfIn(l, n, i, "chunk")) = 0
      BY <3>1, OnSetNothing
    <3>3. IsRead(l, n, i, NewAccount)
      BY <3>1, <3>2, NewAccountIs DEF IsRead
    <3>4. IsRead(l, n + 1, i, NewAccount)
      BY <1>5, <3>3, ReadSame
    <3> QED
      BY <1>3, <2>2, <3>4
  <2> QED
    BY <1>3, <2>1, <2>2
<1>7. v = <<>> \/ LastVma(l, n + 1, v)
  BY <1>5, LastVmaSame DEF ResultsInv
<1>8. ASSUME \A i \in DOMAIN e : ~InterruptedIn(l, n + 1, i), NEW i \in DOMAIN e
      PROVE  e[i].total = SumFunction(e[i].vmas)
  <2>1. \A j \in DOMAIN d : ~InterruptedIn(l, n, j)
    BY <1>3, <1>8, StaysInterrupted
  <2>2. CASE i \in DOMAIN d
    BY <1>3, <2>1, <2>2 DEF ResultsInv
  <2>3. CASE i = it
    BY <1>3, <2>3, NewAccountIs
  <2> QED
    BY <1>3, <2>2, <2>3
<1> QED
  BY <1>3, <1>4, <1>6, <1>7, <1>8 DEF ResultsInv, it, e

\* The next VMA of the iteration that is open.
NewVmaIn(d, i, v) == [d EXCEPT ![i].vmas = Logs!With(@, v, 0)]

LEMMA VmaOfResults ==
    ASSUME NEW l, IsLog(l), NEW n \in Nat, n < Len(l), NEW i,
           OpenAt(l, n, <<i>>), NEW d, NEW v, ResultsInv(l, n, d, v),
           l[n + 1].kind = "vma"
    PROVE  ResultsInv(l, n + 1, NewVmaIn(d, i, l[n + 1].vma), <<i, l[n + 1].vma>>)
<1> DEFINE w == l[n + 1].vma
           f == d[i].vmas
           g == Put(f, w, 0)
           e == NewVmaIn(d, i, w)
           a == <<i>>
<1>0. Len(l) \in Nat /\ DOMAIN l = 1 .. Len(l) /\ n + 1 \in DOMAIN l
  BY ListIs DEF IsLog
<1>1. ItersIn(l, n + 1) = ItersIn(l, n)
  BY ItersGrow DEF IsHeader
<1>2. i \in DOMAIN d
  <2>1. a # <<>> /\ \A j : a = <<j>> => i = j
    OBVIOUS
  <2> HIDE DEF a
  <2>2. OpenAt(l, n, a)
    BY DEF a
  <2>3. \E j \in ItersIn(l, n) : a = <<j>>
    BY <2>1, <2>2, OpenIsRead
  <2> QED
    BY <2>1, <2>3 DEF ResultsInv
<1>3. IsRead(l, n, i, d[i]) /\ IsAccount(d[i])
  BY <1>2 DEF ResultsInv, IsRead
<1>4. /\ DOMAIN g = DOMAIN f \cup {w} /\ g = [y \in DOMAIN g |-> g[y]]
      /\ g[w] = 0
      /\ \A y \in DOMAIN f : y # w => g[y] = f[y]
  <2> HIDE DEF f, w
  <2> QED
    BY DEF Put
<1>5. /\ DOMAIN e = DOMAIN d /\ e = [j \in DOMAIN e |-> e[j]]
      /\ e[i].total = d[i].total /\ e[i].vmas = g
      /\ e[i] = [total |-> e[i].total, vmas |-> e[i].vmas]
      /\ \A j \in DOMAIN d : j # i => e[j] = d[j]
  <2>1. g = Logs!With(f, w, 0)
    BY DEF Put, Logs!With
  <2>2. d[i] = [total |-> d[i].total, vmas |-> d[i].vmas]
    BY <1>3 DEF IsAccount
  <2>3. e = [d EXCEPT ![i].vmas = g]
    BY <2>1 DEF NewVmaIn
  <2> HIDE DEF e, g, f, w
  <2>4. /\ DOMAIN e = DOMAIN d /\ e = [j \in DOMAIN e |-> e[j]]
        /\ \A j \in DOMAIN d : j # i => e[j] = d[j]
        /\ e[i] = [d[i] EXCEPT !.vmas = g]
    BY <1>2, <2>3
  <2>5. e[i] = [total |-> d[i].total, vmas |-> g]
    BY <2>2, <2>4
  <2> QED
    BY <2>4, <2>5
<1> HIDE DEF e, g, f
<1>6. IsAccount(e[i])
  <2>1. IsFiniteSet(DOMAIN f) /\ \A y \in DOMAIN f : f[y] \in Nat
    BY <1>3 DEF IsAccount, f
  <2>2. IsFiniteSet(DOMAIN g)
    <3> HIDE DEF w
    <3> DEFINE D == DOMAIN f
    <3> HIDE DEF D
    <3>1. IsFiniteSet(D \cup {w})
      BY <2>1, FS_AddElement DEF D
    <3> QED
      BY <1>4, <3>1 DEF D
  <2>3. \A y \in DOMAIN g : g[y] \in Nat
    BY <1>4, <2>1
  <2>4. e[i].total \in Nat
    BY <1>3, <1>5 DEF IsAccount
  <2> QED
    BY <1>4, <1>5, <2>2, <2>3, <2>4 DEF IsAccount
<1>7. /\ OfIn(l, n + 1, i, "chunk") = OfIn(l, n, i, "chunk")
      /\ OfIn(l, n + 1, i, "vma") = OfIn(l, n, i, "vma") \cup {n + 1}
  <2>1. OfGrows(l, n, a, i, "chunk") /\ OfGrows(l, n, a, i, "vma")
    BY KindsGrow
  <2> QED
    BY <2>1 DEF OfGrows
<1>8. IsRead(l, n + 1, i, e[i])
  <2>1. DOMAIN f = {l[k].vma : k \in OfIn(l, n, i, "vma")}
    BY <1>3 DEF IsRead, f
  <2>2. DOMAIN g = {l[k].vma : k \in OfIn(l, n + 1, i, "vma")}
    <3> DEFINE V == OfIn(l, n, i, "vma")
    <3>1. DOMAIN g = {l[k].vma : k \in V} \cup {l[n + 1].vma}
      BY <1>4, <2>1
    <3> HIDE DEF V
    <3>2. DOMAIN g = {l[k].vma : k \in V \cup {n + 1}}
      BY <3>1
    <3> QED
      BY <1>7, <3>2 DEF V
  <2>3. d[i].total = SumFunctionOnSet(StatsOf(l), OfIn(l, n, i, "chunk"))
    BY <1>3 DEF IsRead
  <2> QED
    BY <1>5, <1>6, <1>7, <2>2, <2>3 DEF IsRead
<1>9. \A j \in DOMAIN e : IsRead(l, n + 1, j, e[j])
  <2> SUFFICES ASSUME NEW j \in DOMAIN d, j # i PROVE IsRead(l, n + 1, j, d[j])
    BY <1>5, <1>8
  <2>1. a # <<j>> /\ IsRead(l, n, j, d[j])
    BY DEF ResultsInv
  <2>2. l[n + 1].kind \notin {"vma", "chunk"} \/ a # <<j>>
    BY <2>1
  <2>3. OpenAt(l, n, a)
    OBVIOUS
  <2> HIDE DEF a
  <2> QED
    BY <2>1, <2>2, <2>3, ReadSame
<1>10. LastVma(l, n + 1, <<i, w>>)
  <2>1. n + 1 \in OfIn(l, n + 1, i, "vma") /\ \A m \in 1 .. n + 1 : m <= n + 1
    BY <1>7
  <2> QED
    BY <2>1 DEF LastVma
<1>11. ASSUME \A j \in DOMAIN e : ~InterruptedIn(l, n + 1, j), NEW j \in DOMAIN e
       PROVE  e[j].total = SumFunction(e[j].vmas)
  <2>1. \A k \in DOMAIN d : ~InterruptedIn(l, n, k)
    <3>1. OpenAt(l, n, a)
      OBVIOUS
    <3> HIDE DEF a
    <3> QED
      BY <1>5, <1>11, <3>1, StaysInterrupted
  <2>2. \A k \in DOMAIN d : d[k].total = SumFunction(d[k].vmas)
    BY <2>1 DEF ResultsInv
  <2>3. w \notin DOMAIN f
    <3> SUFFICES ASSUME w \in DOMAIN f PROVE FALSE
      OBVIOUS
    <3>1. PICK k \in OfIn(l, n, i, "vma") : l[k].vma = w
      BY <1>3 DEF IsRead, f
    <3>2. k \in 1 .. n /\ l[k].kind = "vma"
      BY OfIsFinite
    <3>3. l[k] = Logs!VmaLine(w) /\ l[n + 1] = Logs!VmaLine(w)
      <4>1. k \in DOMAIN l
        BY <1>0, <3>2
      <4> QED
        BY <1>0, <3>1, <3>2, <4>1 DEF IsLog
    <3>4. /\ k \in OfIn(l, n + 1, i, "vma") /\ n + 1 \in OfIn(l, n + 1, i, "vma")
          /\ k < n + 1 /\ l[n + 1] = l[k]
      BY <1>7, <3>2, <3>3
    <3>5. InterruptedIn(l, n + 1, i)
      BY <3>4 DEF InterruptedIn
    <3> QED
      BY <1>2, <1>5, <1>11, <3>5
  <2>4. SumFunction(g) = SumFunction(f) + 0
    <3>1. IsFiniteSet(DOMAIN f) /\ \A y \in DOMAIN f : f[y] \in Nat
      BY <1>3 DEF IsAccount, f
    <3>2. /\ \A y \in DOMAIN f : g[y] = f[y]
          /\ \A y \in DOMAIN g : g[y] \in Int
      BY <1>4, <2>3, <3>1
    <3> HIDE DEF w
    <3> QED
      BY <1>4, <2>3, <3>1, <3>2, SumOneMore
  <2>5. d[i].total = SumFunction(f) /\ d[i].total \in Nat
    BY <1>2, <1>3, <2>2 DEF f, IsAccount
  <2>6. CASE j = i
    BY <1>5, <2>4, <2>5, <2>6
  <2>7. CASE j # i
    BY <1>5, <2>2, <2>7
  <2> QED
    BY <2>6, <2>7
<1>12. DOMAIN e = ItersIn(l, n + 1)
  BY <1>1, <1>5 DEF ResultsInv
<1> QED
  BY <1>5, <1>9, <1>10, <1>11, <1>12 DEF ResultsInv, e

\* A chunk is added for a VMA and for an iteration.
ChunkIn(d, i, j, w, x) ==
    [d EXCEPT ![j].vmas[w] = @ + x, ![i].total = @ + x]

IsAdded(d, e, i, j, w, x) ==
    /\ DOMAIN e = DOMAIN d /\ e = [m \in DOMAIN e |-> e[m]]
    /\ \A m \in DOMAIN d :
           /\ IsAccount(e[m])
           /\ e[m].total = IF m = i THEN d[m].total + x ELSE d[m].total
           /\ DOMAIN e[m].vmas = DOMAIN d[m].vmas
           /\ \A y \in DOMAIN d[m].vmas :
                  e[m].vmas[y] = IF m = j /\ y = w THEN d[m].vmas[y] + x
                                                   ELSE d[m].vmas[y]

LEMMA AddedIs ==
    ASSUME NEW d, d = [m \in DOMAIN d |-> d[m]], NEW i \in DOMAIN d,
           NEW j \in DOMAIN d, \A m \in DOMAIN d : IsAccount(d[m]),
           NEW w \in DOMAIN d[j].vmas, NEW x \in Nat,
           NEW e, e = ChunkIn(d, i, j, w, x)
    PROVE  IsAdded(d, e, i, j, w, x)
<1> DEFINE f == d[j].vmas
           g == [f EXCEPT ![w] = @ + x]
           c == [d EXCEPT ![j].vmas = g]
<1>1. /\ d[j] = [total |-> d[j].total, vmas |-> f] /\ d[j].total \in Nat
      /\ f = [y \in DOMAIN f |-> f[y]] /\ IsFiniteSet(DOMAIN f)
      /\ \A y \in DOMAIN f : f[y] \in Nat
  BY DEF IsAccount
<1>2. w \in DOMAIN f
  OBVIOUS
<1>3. e = [c EXCEPT ![i].total = @ + x]
  BY DEF ChunkIn
<1> HIDE DEF f
<1>4. /\ DOMAIN g = DOMAIN f /\ g = [y \in DOMAIN g |-> g[y]]
      /\ \A y \in DOMAIN f : g[y] = IF y = w THEN f[y] + x ELSE f[y]
      /\ \A y \in DOMAIN g : g[y] \in Nat
  BY <1>1, <1>2
<1> HIDE DEF g
<1>5. /\ DOMAIN c = DOMAIN d /\ c = [m \in DOMAIN c |-> c[m]]
      /\ \A m \in DOMAIN d : m # j => c[m] = d[m]
      /\ c[j] = [total |-> d[j].total, vmas |-> g]
  <2>1. c[j] = [d[j] EXCEPT !.vmas = g]
    OBVIOUS
  <2> QED
    BY <1>1, <2>1
<1> HIDE DEF c
<1>6. \A m \in DOMAIN d :
          /\ c[m] = [total |-> d[m].total, vmas |-> c[m].vmas]
          /\ c[m].vmas = IF m = j THEN g ELSE d[m].vmas
  <2> TAKE m \in DOMAIN d
  <2>1. CASE m = j
    BY <1>5, <2>1
  <2>2. CASE m # j
    BY <1>5, <2>2 DEF IsAccount
  <2> QED
    BY <2>1, <2>2
<1>7. /\ DOMAIN e = DOMAIN d /\ e = [m \in DOMAIN e |-> e[m]]
      /\ \A m \in DOMAIN d : m # i => e[m] = c[m]
      /\ e[i] = [c[i] EXCEPT !.total = @ + x]
  BY <1>3, <1>5
<1>8. e[i] = [total |-> d[i].total + x, vmas |-> c[i].vmas]
  <2>1. c[i] = [total |-> d[i].total, vmas |-> c[i].vmas]
    BY <1>6
  <2> QED
    BY <1>7, <2>1
<1>9. ASSUME NEW m \in DOMAIN d
      PROVE  /\ e[m] = [total |-> e[m].total, vmas |-> e[m].vmas]
             /\ e[m].total = IF m = i THEN d[m].total + x ELSE d[m].total
             /\ e[m].vmas = IF m = j THEN g ELSE d[m].vmas
  <2> DEFINE r == e[m]
             h == c[m].vmas
  <2>1. h = IF m = j THEN g ELSE d[m].vmas
    BY <1>6
  <2>2. CASE m = i
    <3>1. r = [total |-> d[m].total + x, vmas |-> h]
      BY <1>8, <2>2
    <3> HIDE DEF r, h
    <3>2. r.total = d[m].total + x /\ r.vmas = h
          /\ r = [total |-> r.total, vmas |-> r.vmas]
      BY <3>1
    <3> QED
      BY <2>1, <2>2, <3>2 DEF r
  <2>3. CASE m # i
    <3>1. r = [total |-> d[m].total, vmas |-> h]
      <4>1. c[m] = [total |-> d[m].total, vmas |-> h] /\ r = c[m]
        BY <1>6, <1>7, <2>3
      <4> QED
        BY <4>1
    <3> HIDE DEF r, h
    <3>2. r.total = d[m].total /\ r.vmas = h
          /\ r = [total |-> r.total, vmas |-> r.vmas]
      BY <3>1
    <3> QED
      BY <2>1, <2>3, <3>2 DEF r
  <2> QED
    BY <2>2, <2>3
<1>10. ASSUME NEW m \in DOMAIN d
       PROVE  /\ IsAccount(e[m])
              /\ e[m].total = IF m = i THEN d[m].total + x ELSE d[m].total
              /\ DOMAIN e[m].vmas = DOMAIN d[m].vmas
              /\ \A y \in DOMAIN d[m].vmas :
                  e[m].vmas[y] = IF m = j /\ y = w THEN d[m].vmas[y] + x
                                                   ELSE d[m].vmas[y]
  <2>0. IsAccount(d[m])
    OBVIOUS
  <2>1. e[m].total \in Nat
    <3>1. d[m].total \in Nat
      BY <2>0 DEF IsAccount
    <3>2. e[m].total = IF m = i THEN d[m].total + x ELSE d[m].total
      BY <1>9
    <3> QED
      BY <3>1, <3>2
  <2>2. CASE m = j
    <3>1. e[m].vmas = g /\ d[m].vmas = f
      BY <1>9, <2>2 DEF f
    <3> QED
      BY <1>1, <1>4, <1>9, <2>1, <2>2, <3>1 DEF IsAccount
  <2>3. CASE m # j
    <3>1. e[m].vmas = d[m].vmas
      BY <1>9, <2>3
    <3> QED
      BY <1>9, <2>0, <2>1, <2>3, <3>1 DEF IsAccount
  <2> QED
    BY <2>2, <2>3
<1> QED
  BY <1>7, <1>10 DEF IsAdded

LEMMA ChunkOfResults ==
    ASSUME NEW l, IsLog(l), NEW n \in Nat, n < Len(l), NEW i,
           OpenAt(l, n, <<i>>), NEW d, NEW j, NEW w,
           ResultsInv(l, n, d, <<j, w>>), l[n + 1].kind = "chunk"
    PROVE  ResultsInv(l, n + 1, ChunkIn(d, i, j, w, l[n + 1].stats), <<j, w>>)
<1> DEFINE x == l[n + 1].stats
           e == ChunkIn(d, i, j, w, x)
           a == <<i>>
           v == <<j, w>>
<1>0. Len(l) \in Nat /\ DOMAIN l = 1 .. Len(l) /\ n + 1 \in DOMAIN l
  BY ListIs DEF IsLog
<1>1. ItersIn(l, n + 1) = ItersIn(l, n)
  BY ItersGrow DEF IsHeader
<1>2. i \in DOMAIN d
  <2>1. a # <<>> /\ \A m : a = <<m>> => i = m
    OBVIOUS
  <2>2. OpenAt(l, n, a)
    OBVIOUS
  <2> HIDE DEF a
  <2>3. \E m \in ItersIn(l, n) : a = <<m>>
    BY <2>1, <2>2, OpenIsRead
  <2> QED
    BY <2>1, <2>3 DEF ResultsInv
<1>3. PICK k \in OfIn(l, n, j, "vma") :
          /\ w = l[k].vma
          /\ \A m \in 1 .. n : l[m].kind = "vma" => m <= k
  <2>1. v # <<>>
    OBVIOUS
  <2>2. LastVma(l, n, v)
    BY <2>1 DEF ResultsInv
  <2> QED
    BY <2>2 DEF LastVma
<1>4. j \in DOMAIN d /\ w \in DOMAIN d[j].vmas
  <2>1. j \in DOMAIN d
    BY OfIsRead DEF ResultsInv
  <2> QED
    BY <1>3, <2>1 DEF ResultsInv, IsRead
<1>5. x \in Nat
  BY <1>0 DEF IsLog
<1>6. \A m \in DOMAIN d : IsRead(l, n, m, d[m]) /\ IsAccount(d[m])
  BY DEF ResultsInv, IsRead
<1>7. IsAdded(d, e, i, j, w, x)
  <2>1. d = [m \in DOMAIN d |-> d[m]]
    BY DEF ResultsInv
  <2> HIDE DEF e, x
  <2> QED
    BY <1>2, <1>4, <1>5, <1>6, <2>1, AddedIs DEF e
<1>8. DOMAIN e = DOMAIN d /\ e = [m \in DOMAIN e |-> e[m]]
      /\ \A m \in DOMAIN d : /\ IsAccount(e[m])
                             /\ DOMAIN e[m].vmas = DOMAIN d[m].vmas
  BY <1>7 DEF IsAdded
<1>9. ASSUME NEW m \in DOMAIN d
      PROVE  /\ OfIn(l, n + 1, m, "vma") = OfIn(l, n, m, "vma")
             /\ OfIn(l, n + 1, m, "chunk") = IF m = i THEN OfIn(l, n, m, "chunk") \cup {n + 1}
                                             ELSE OfIn(l, n, m, "chunk")
             /\ n + 1 \notin OfIn(l, n, m, "chunk")
  <2>1. OfGrows(l, n, a, m, "chunk") /\ OfGrows(l, n, a, m, "vma")
    BY KindsGrow
  <2> QED
    BY <2>1 DEF OfGrows
<1>10. ASSUME NEW m \in DOMAIN d PROVE IsRead(l, n + 1, m, e[m])
  <2> DEFINE C == OfIn(l, n, m, "chunk")
             S == StatsOf(l)
  <2>1. d[m].total = SumFunctionOnSet(S, C) /\ d[m].total \in Nat
    BY <1>6 DEF IsRead, IsAccount
  <2>2. e[m].total = SumFunctionOnSet(S, OfIn(l, n + 1, m, "chunk"))
    <3>1. CASE m = i
      <4>1. IsFiniteSet(C) /\ n + 1 \notin C /\ \A y \in C \cup {n + 1} : S[y] \in Int
        <5>1. /\ IsFiniteSet(C) /\ C \subseteq 1 .. n
              /\ \A y \in C : l[y].kind = "chunk"
          BY OfIsFinite
        <5>2. \A y \in C \cup {n + 1} : y \in DOMAIN l /\ l[y].kind = "chunk"
          BY <1>0, <5>1
        <5>3. \A y \in C \cup {n + 1} : S[y] \in Nat
          BY <5>2 DEF StatsOf, IsLog
        <5> QED
          BY <1>9, <5>1, <5>3
      <4>2. S[n + 1] = x
        BY <1>0 DEF StatsOf
      <4>3. OfIn(l, n + 1, m, "chunk") = C \cup {n + 1}
        BY <1>9, <3>1
      <4> HIDE DEF C, S
      <4>4. SumFunctionOnSet(S, C \cup {n + 1}) = SumFunctionOnSet(S, C) + S[n + 1]
        BY <4>1, OnSetOneMore
      <4>5. e[m].total = d[m].total + x
        BY <1>7, <3>1 DEF IsAdded
      <4> QED
        BY <2>1, <4>2, <4>3, <4>4, <4>5
    <3>2. CASE m # i
      <4>1. e[m].total = d[m].total /\ OfIn(l, n + 1, m, "chunk") = C
        BY <1>7, <1>9, <3>2 DEF IsAdded
      <4> QED
        BY <2>1, <4>1
    <3> QED
      BY <3>1, <3>2
  <2>3. DOMAIN d[m].vmas = {l[y].vma : y \in OfIn(l, n, m, "vma")}
    BY <1>6 DEF IsRead
  <2>4. OfIn(l, n + 1, m, "vma") = OfIn(l, n, m, "vma")
    BY <1>9
  <2>5. DOMAIN e[m].vmas = {l[y].vma : y \in OfIn(l, n + 1, m, "vma")}
    BY <1>8, <2>3, <2>4
  <2> QED
    BY <1>8, <2>2, <2>5 DEF IsRead
<1>11. LastVma(l, n + 1, v)
  <2>1. k \in OfIn(l, n + 1, j, "vma")
    BY <1>4, <1>9
  <2>2. \A m \in 1 .. n + 1 : l[m].kind = "vma" => m <= k
    <3>1. \A m \in 1 .. n + 1 : m \in 1 .. n \/ m = n + 1
      OBVIOUS
    <3> QED
      BY <1>3, <3>1
  <2> QED
    BY <1>3, <2>1, <2>2 DEF LastVma
<1>12. ASSUME \A m \in DOMAIN e : ~InterruptedIn(l, n + 1, m), NEW m \in DOMAIN e
       PROVE  e[m].total = SumFunction(e[m].vmas)
  <2>1. \A y \in DOMAIN d : ~InterruptedIn(l, n, y)
    <3>1. OpenAt(l, n, a)
      OBVIOUS
    <3> HIDE DEF a, e
    <3> QED
      BY <1>8, <1>12, <3>1, StaysInterrupted
  <2>2. \A y \in DOMAIN d : d[y].total = SumFunction(d[y].vmas)
    BY <2>1 DEF ResultsInv
  <2>3. i = j
    <3>1. n + 1 \in OfIn(l, n + 1, i, "chunk")
      BY <1>2, <1>9
    <3>2. ~InterruptedIn(l, n + 1, i)
      BY <1>2, <1>8, <1>12
    <3>3. PICK y \in OfIn(l, n + 1, i, "vma") : ~(y > n + 1)
      BY <3>1, <3>2 DEF InterruptedIn
    <3>4. y \in OfIn(l, n, i, "vma")
      BY <1>2, <1>9, <3>3
    <3>5. y \in 1 .. n /\ l[y].kind = "vma"
      BY <3>4, OfIsFinite
    <3>6. y <= k
      BY <1>3, <3>5
    <3>7. n <= Len(l)
      BY <1>0
    <3> DEFINE kind == "vma"
    <3>8. y \in OfIn(l, n, i, kind) /\ k \in OfIn(l, n, j, kind)
      BY <3>4
    <3> HIDE DEF kind
    <3> QED
      BY <3>6, <3>7, <3>8, SameIteration
  <2>4. IsAccount(d[m]) /\ IsAccount(e[m]) /\ m \in DOMAIN d
    BY <1>6, <1>8
  <2> DEFINE f == d[m].vmas
             g == e[m].vmas
  <2>5. /\ IsFiniteSet(DOMAIN f) /\ DOMAIN g = DOMAIN f
        /\ \A y \in DOMAIN f : f[y] \in Nat
        /\ \A y \in DOMAIN g : g[y] \in Nat
    BY <1>8, <2>4 DEF IsAccount
  <2>6. d[m].total = SumFunction(f) /\ d[m].total \in Nat
    BY <2>2, <2>4 DEF IsAccount
  <2>7. CASE m = j
    <3>1. /\ e[m].total = d[m].total + x
          /\ g[w] = f[w] + x /\ w \in DOMAIN f
          /\ \A y \in DOMAIN f \ {w} : g[y] = f[y]
      BY <1>4, <1>7, <2>3, <2>4, <2>7 DEF IsAdded
    <3> HIDE DEF f, g, x
    <3>2. SumFunction(g) = SumFunction(f) - f[w] + g[w]
      <4>1. /\ \A y \in DOMAIN f : f[y] \in Int
            /\ \A y \in DOMAIN g : g[y] \in Int
        BY <2>5
      <4> QED
        BY <2>5, <3>1, <4>1, SumOneChanged
    <3>3. f[w] \in Nat /\ x \in Nat /\ SumFunction(f) \in Nat
      BY <1>5, <2>5, <2>6, <3>1
    <3>4. SumFunction(g) = SumFunction(f) + x
      BY <3>1, <3>2, <3>3
    <3> QED
      BY <2>6, <3>1, <3>4 DEF g
  <2>8. CASE m # j
    <3>1. e[m].total = d[m].total /\ \A y \in DOMAIN f : g[y] = f[y]
      BY <1>7, <2>3, <2>4, <2>8 DEF IsAdded
    <3>2. g = f
      <4>1. f = [y \in DOMAIN f |-> f[y]] /\ g = [y \in DOMAIN g |-> g[y]]
        BY <2>4 DEF IsAccount
      <4> HIDE DEF f, g
      <4> QED
        BY <2>5, <3>1, <4>1
    <3> QED
      BY <2>6, <3>1, <3>2
  <2> QED
    BY <2>7, <2>8
<1>13. DOMAIN e = ItersIn(l, n + 1)
  BY <1>1, <1>8 DEF ResultsInv
<1> HIDE DEF e, v
<1>14. ResultsInv(l, n + 1, e, v)
  BY <1>8, <1>10, <1>11, <1>12, <1>13 DEF ResultsInv
<1> QED
  BY <1>14 DEF e, v

-----------------------------------------------------------------------------
(* parse_defrag_fails.py                                                   *)

SizesIn(l) == [k \in DOMAIN l |-> l[k].size]

\* The failures that are kept of an iteration are those of its lines: of any
\* set of failures they have the sum of the sizes.
Those(fs, S) == {m \in DOMAIN fs : fs[m] \in S}
ThoseIn(l, n, i, S) == {k \in OfIn(l, n, i, "f") : l[k] \in S}

FailsRead(l, n, i, fs) ==
    /\ fs \in Seq(Range(l))
    /\ \A m \in DOMAIN fs : fs[m].size \in Nat
    /\ \A S : SumFunctionOnSet(SizesIn(fs), Those(fs, S))
                  = SumFunctionOnSet(SizesIn(l), ThoseIn(l, n, i, S))

\* The pages that are kept are those of its lines, as the last one says.
PageIn(l, n, i, p) == {k \in OfIn(l, n, i, "dst") : Logs!Stripped(l[k].pfn) = p}

PagesRead(l, n, i, ps) ==
    /\ ps = [p \in DOMAIN ps |-> ps[p]]
    /\ \A p : p \in DOMAIN ps <=> PageIn(l, n, i, p) # {}
    /\ \A p : \A k \in PageIn(l, n, i, p) :
           (\A m \in PageIn(l, n, i, p) : m <= k) => ps[p] = l[k].types

IsCollected(l, n, i, x) ==
    /\ x = [fails |-> x.fails, pages |-> x.pages]
    /\ FailsRead(l, n, i, x.fails) /\ PagesRead(l, n, i, x.pages)

FailsInv(l, n, d) ==
    /\ DOMAIN d = ItersIn(l, n) /\ d = [i \in DOMAIN d |-> d[i]]
    /\ \A i \in DOMAIN d : IsCollected(l, n, i, d[i])

LEMMA CollectedSame ==
    ASSUME NEW l, IsLog(l), NEW n \in Nat, n < Len(l), NEW a, OpenAt(l, n, a),
           NEW i, NEW x, IsCollected(l, n, i, x),
           l[n + 1].kind \notin {"f", "dst"} \/ a # <<i>>
    PROVE  IsCollected(l, n + 1, i, x)
<1>1. /\ OfIn(l, n + 1, i, "f") = OfIn(l, n, i, "f")
      /\ OfIn(l, n + 1, i, "dst") = OfIn(l, n, i, "dst")
  <2>1. OfGrows(l, n, a, i, "f") /\ OfGrows(l, n, a, i, "dst")
    BY KindsGrow
  <2> QED
    BY <2>1 DEF OfGrows
<1>2. \A S : ThoseIn(l, n + 1, i, S) = ThoseIn(l, n, i, S)
  BY <1>1 DEF ThoseIn
<1>3. \A p : PageIn(l, n + 1, i, p) = PageIn(l, n, i, p)
  BY <1>1 DEF PageIn
<1>4. FailsRead(l, n + 1, i, x.fails)
  BY <1>2 DEF IsCollected, FailsRead
<1>5. PagesRead(l, n + 1, i, x.pages)
  BY <1>3 DEF IsCollected, PagesRead
<1> QED
  BY <1>4, <1>5 DEF IsCollected

LEMMA IgnoreFails ==
    ASSUME NEW l, IsLog(l), NEW n \in Nat, n < Len(l), NEW a, OpenAt(l, n, a),
           NEW d, FailsInv(l, n, d), l[n + 1].kind = "dashes"
    PROVE  FailsInv(l, n + 1, d)
<1>1. ItersIn(l, n + 1) = ItersIn(l, n)
  BY ItersGrow DEF IsHeader
<1>2. l[n + 1].kind \notin {"f", "dst"}
  OBVIOUS
<1>3. \A i \in DOMAIN d : IsCollected(l, n + 1, i, d[i])
  BY <1>2, CollectedSame DEF FailsInv
<1> QED
  BY <1>1, <1>3 DEF FailsInv

NewCollected == [fails |-> <<>>, pages |-> <<>>]

\* Before the first line about it nothing is kept of an iteration.
LEMMA NewCollectedIs ==
    ASSUME NEW l, NEW n, NEW i, OfIn(l, n, i, "f") = {}, OfIn(l, n, i, "dst") = {}
    PROVE  IsCollected(l, n, i, NewCollected)
<1> DEFINE f == <<>>
           x == NewCollected
<1>1. DOMAIN f = {} /\ f = [p \in DOMAIN f |-> f[p]] /\ f \in Seq(Range(l))
  OBVIOUS
<1>2. x = [fails |-> x.fails, pages |-> x.pages] /\ x.fails = f /\ x.pages = f
  BY DEF NewCollected
<1> HIDE DEF f, x
<1>3. \A S : Those(f, S) = {} /\ ThoseIn(l, n, i, S) = {}
  BY <1>1 DEF Those, ThoseIn
<1>4. \A p : PageIn(l, n, i, p) = {}
  BY DEF PageIn
<1>5. FailsRead(l, n, i, f)
  <2>1. ASSUME NEW S
        PROVE  SumFunctionOnSet(SizesIn(f), Those(f, S))
                   = SumFunctionOnSet(SizesIn(l), ThoseIn(l, n, i, S))
    BY <1>3, OnSetNothing
  <2> QED
    BY <1>1, <2>1 DEF FailsRead
<1>6. PagesRead(l, n, i, f)
  BY <1>1, <1>4 DEF PagesRead
<1>7. IsCollected(l, n, i, x)
  BY <1>2, <1>5, <1>6 DEF IsCollected
<1> QED
  BY <1>7 DEF x

LEMMA HeaderOfFails ==
    ASSUME NEW l, IsLog(l), NEW n \in Nat, n < Len(l), NEW a, OpenAt(l, n, a),
           NEW d, FailsInv(l, n, d), IsHeader(l, n + 1)
    PROVE  FailsInv(l, n + 1, Put(d, l[n + 1].iter, NewCollected))
<1> DEFINE it == l[n + 1].iter
           e  == Put(d, it, NewCollected)
<1>1. ItersIn(l, n + 1) = ItersIn(l, n) \cup {it}
  BY ItersGrow
<1>2. it \notin DOMAIN d
  <2>1. \A h \in 1 .. n : IsHeader(l, h) => l[h].iter # it
    BY OfNew
  <2> QED
    BY <2>1 DEF FailsInv, ItersIn, HeadersIn
<1>3. /\ DOMAIN e = DOMAIN d \cup {it} /\ e = [i \in DOMAIN e |-> e[i]]
      /\ e[it] = NewCollected
      /\ \A i \in DOMAIN d : e[i] = d[i]
  <2> HIDE DEF it
  <2> QED
    BY <1>2 DEF Put
<1> HIDE DEF it, e
<1>4. DOMAIN e = ItersIn(l, n + 1)
  BY <1>1, <1>3 DEF FailsInv
<1>5. l[n + 1].kind \notin {"f", "dst"}
  BY DEF IsHeader
<1>6. ASSUME NEW i \in DOMAIN e PROVE IsCollected(l, n + 1, i, e[i])
  <2>1. CASE i \in DOMAIN d
    <3>1. IsCollected(l, n, i, e[i])
      BY <1>3, <2>1 DEF FailsInv
    <3> QED
      BY <1>5, <3>1, CollectedSame
  <2>2. CASE i = it
    <3>1. OfIn(l, n, i, "f") = {} /\ OfIn(l, n, i, "dst") = {}
      BY <2>2, OfNew DEF it
    <3>2. IsCollected(l, n, i, NewCollected)
      BY <3>1, NewCollectedIs
    <3>3. IsCollected(l, n + 1, i, NewCollected)
      BY <1>5, <3>2, CollectedSame
    <3> QED
      BY <1>3, <2>2, <3>3
  <2> QED
    BY <1>3, <2>1, <2>2
<1> QED
  BY <1>3, <1>4, <1>6 DEF FailsInv, it, e

\* One failure more.
LEMMA FailureRead ==
    ASSUME NEW l, IsLog(l), NEW n \in Nat, n < Len(l), NEW i,
           OpenAt(l, n, <<i>>), NEW fs, FailsRead(l, n, i, fs),
           l[n + 1].kind = "f", NEW gs, gs = Append(fs, l[n + 1])
    PROVE  FailsRead(l, n + 1, i, gs)
<1> DEFINE x == l[n + 1]
           z == Len(fs) + 1
           O == OfIn(l, n, i, "f")
<1>0. /\ n + 1 \in DOMAIN l /\ DOMAIN l = 1 .. Len(l) /\ x \in Range(l)
      /\ x.size \in Nat /\ Len(l) \in Nat
  <2>1. Len(l) \in Nat /\ DOMAIN l = 1 .. Len(l)
    BY ListIs DEF IsLog
  <2>2. n + 1 \in DOMAIN l
    BY <2>1
  <2> QED
    BY <2>1, <2>2, ListIs DEF IsLog
<1>1. /\ OfIn(l, n + 1, i, "f") = O \cup {n + 1} /\ n + 1 \notin O
  <2> DEFINE a == <<i>>
  <2>1. OpenAt(l, n, a)
    OBVIOUS
  <2> HIDE DEF a
  <2>2. OfGrows(l, n, a, i, "f")
    BY <2>1, KindsGrow
  <2> QED
    BY <2>2 DEF OfGrows, a
<1>2. fs \in Seq(Range(l)) /\ \A m \in DOMAIN fs : fs[m].size \in Nat
  BY DEF FailsRead
<1> HIDE DEF x
<1>3. /\ Len(fs) \in Nat /\ DOMAIN fs = 1 .. Len(fs)
      /\ gs = Append(fs, x)
  BY <1>2 DEF x
<1>4. /\ gs \in Seq(Range(l)) /\ DOMAIN gs = DOMAIN fs \cup {z}
      /\ z \notin DOMAIN fs /\ gs[z] = x
      /\ \A m \in DOMAIN fs : gs[m] = fs[m]
  <2>1. gs \in Seq(Range(l)) /\ Len(gs) = z /\ gs[z] = x
        /\ \A m \in 1 .. Len(fs) : gs[m] = fs[m]
    BY <1>0, <1>2, <1>3
  <2>2. DOMAIN gs = 1 .. z
    BY <1>3, <2>1
  <2> QED
    BY <1>3, <2>1, <2>2
<1>5. \A m \in DOMAIN gs : gs[m].size \in Nat
  BY <1>0, <1>2, <1>4
<1> HIDE DEF z, O
<1>6. ASSUME NEW S
      PROVE  SumFunctionOnSet(SizesIn(gs), Those(gs, S))
                 = SumFunctionOnSet(SizesIn(l), ThoseIn(l, n + 1, i, S))
  <2> DEFINE A == Those(fs, S)
             B == ThoseIn(l, n, i, S)
             f == SizesIn(fs)
             g == SizesIn(gs)
             h == SizesIn(l)
  <2>1. SumFunctionOnSet(f, A) = SumFunctionOnSet(h, B)
    BY DEF FailsRead
  <2>2. /\ IsFiniteSet(A) /\ A \subseteq DOMAIN fs
        /\ \A m \in A : f[m] = g[m] /\ g[m] \in Int
    <3>1. IsFiniteSet(DOMAIN fs)
      BY <1>3, FS_Interval
    <3>2. A \subseteq DOMAIN fs
      BY DEF Those
    <3> QED
      BY <1>2, <1>4, <3>1, <3>2, FS_Subset DEF SizesIn
  <2>3. IsFiniteSet(B) /\ B \subseteq O /\ \A k \in B : h[k] \in Int
    <3>1. IsFiniteSet(O) /\ O \subseteq 1 .. n /\ \A k \in O : l[k].kind = "f"
      BY OfIsFinite DEF O
    <3>2. B \subseteq O
      BY DEF ThoseIn, O
    <3>3. \A k \in O : k \in DOMAIN l
      BY <1>0, <3>1
    <3>4. \A k \in O : l[k].size \in Nat
      BY <3>1, <3>3 DEF IsLog
    <3>5. \A k \in B : k \in DOMAIN l /\ l[k].size \in Nat
      BY <3>2, <3>3, <3>4
    <3>6. \A k \in B : h[k] \in Int
      BY <3>5 DEF SizesIn
    <3> QED
      BY <3>1, <3>2, <3>6, FS_Subset
  <2>4. SumFunctionOnSet(g, A) = SumFunctionOnSet(h, B)
    <3> HIDE DEF A, f, g
    <3>1. SumFunctionOnSet(f, A) = SumFunctionOnSet(g, A)
      BY <2>2, OnSetSame
    <3> QED
      BY <2>1, <3>1
  <2>5. CASE x \in S
    <3>1. Those(gs, S) = A \cup {z} /\ z \notin A
      BY <1>4, <2>2, <2>5 DEF Those
    <3>2. ThoseIn(l, n + 1, i, S) = B \cup {n + 1} /\ n + 1 \notin B
      BY <1>1, <2>3, <2>5 DEF ThoseIn, O, x
    <3>3. g[z] = x.size /\ h[n + 1] = x.size /\ x.size \in Int
      BY <1>0, <1>4 DEF SizesIn, x
    <3>4. /\ \A m \in A \cup {z} : g[m] \in Int
          /\ \A m \in B \cup {n + 1} : h[m] \in Int
      BY <2>2, <2>3, <3>3
    <3> HIDE DEF A, B, g, h
    <3>5. SumFunctionOnSet(g, A \cup {z}) = SumFunctionOnSet(g, A) + g[z]
      BY <2>2, <3>1, <3>4, OnSetOneMore
    <3>6. SumFunctionOnSet(h, B \cup {n + 1}) = SumFunctionOnSet(h, B) + h[n + 1]
      BY <2>3, <3>2, <3>4, OnSetOneMore
    <3> QED
      BY <2>4, <3>1, <3>2, <3>3, <3>5, <3>6 DEF g, h
  <2>6. CASE x \notin S
    <3>1. Those(gs, S) = A
      BY <1>4, <2>6 DEF Those
    <3>2. ThoseIn(l, n + 1, i, S) = B
      BY <1>1, <2>6 DEF ThoseIn, O, x
    <3> QED
      BY <2>4, <3>1, <3>2
  <2> QED
    BY <2>5, <2>6
<1> QED
  BY <1>4, <1>5, <1>6 DEF FailsRead

\* A line about a page replaces what was kept of it.
LEMMA PageRead ==
    ASSUME NEW l, IsLog(l), NEW n \in Nat, n < Len(l), NEW i,
           OpenAt(l, n, <<i>>), NEW ps, PagesRead(l, n, i, ps),
           l[n + 1].kind = "dst",
           NEW qs, qs = Put(ps, Logs!Stripped(l[n + 1].pfn), l[n + 1].types)
    PROVE  PagesRead(l, n + 1, i, qs)
<1> DEFINE q == Logs!Stripped(l[n + 1].pfn)
           t == l[n + 1].types
           O == OfIn(l, n, i, "dst")
           Was(p) == PageIn(l, n, i, p)
           Is(p)  == PageIn(l, n + 1, i, p)
<1>1. OfIn(l, n + 1, i, "dst") = O \cup {n + 1} /\ n + 1 \notin O
  <2> DEFINE a == <<i>>
  <2>1. OpenAt(l, n, a)
    OBVIOUS
  <2> HIDE DEF a
  <2>2. OfGrows(l, n, a, i, "dst")
    BY <2>1, KindsGrow
  <2> QED
    BY <2>2 DEF OfGrows, a
<1>2. /\ Is(q) = Was(q) \cup {n + 1}
      /\ \A p : p # q => Is(p) = Was(p)
  BY <1>1 DEF PageIn
<1>3. \A p : Was(p) \subseteq 1 .. n
  BY OfIsFinite DEF PageIn
<1> HIDE DEF q, t
<1>4. /\ DOMAIN qs = DOMAIN ps \cup {q} /\ qs = [p \in DOMAIN qs |-> qs[p]]
      /\ qs[q] = t
      /\ \A p \in DOMAIN ps : p # q => qs[p] = ps[p]
  BY DEF Put, q, t
<1>5. /\ \A p : p \in DOMAIN ps <=> Was(p) # {}
      /\ \A p : \A k \in Was(p) : (\A m \in Was(p) : m <= k) => ps[p] = l[k].types
  BY DEF PagesRead
<1> HIDE DEF Was, Is
<1>6. \A p : p \in DOMAIN qs <=> Is(p) # {}
  <2> TAKE p
  <2>1. CASE p = q
    BY <1>2, <1>4, <2>1
  <2>2. CASE p # q
    BY <1>2, <1>4, <1>5, <2>2
  <2> QED
    BY <2>1, <2>2
<1>7. ASSUME NEW p, NEW k \in Is(p), \A m \in Is(p) : m <= k
      PROVE  qs[p] = l[k].types
  <2>1. CASE p = q
    <3>1. n + 1 \in Is(p) /\ (k \in 1 .. n \/ k = n + 1)
      BY <1>2, <1>3, <2>1
    <3>2. n + 1 <= k
      BY <1>7, <3>1
    <3>3. k = n + 1
      BY <3>1, <3>2
    <3> QED
      BY <1>4, <2>1, <3>3 DEF t
  <2>2. CASE p # q
    <3>1. Is(p) = Was(p)
      BY <1>2, <2>2
    <3>2. p \in DOMAIN ps
      BY <1>5, <3>1
    <3>3. ps[p] = l[k].types
      BY <1>5, <1>7, <3>1
    <3> QED
      BY <1>4, <2>2, <3>2, <3>3
  <2> QED
    BY <2>1, <2>2
<1> QED
  BY <1>4, <1>6, <1>7 DEF PagesRead, Is

FailureIn(d, i, x) == [d EXCEPT ![i].fails = Append(@, x)]
PageTypesIn(d, i, p, t) == [d EXCEPT ![i].pages = Logs!With(@, p, t)]

LEMMA OpenIsKept ==
    ASSUME NEW l, NEW n \in Nat, NEW i, OpenAt(l, n, <<i>>)
    PROVE  i \in ItersIn(l, n)
<1> DEFINE a == <<i>>
<1>1. a # <<>> /\ \A j : a = <<j>> => i = j
  OBVIOUS
<1>2. OpenAt(l, n, a)
  OBVIOUS
<1> HIDE DEF a
<1>3. \E j \in ItersIn(l, n) : a = <<j>>
  BY <1>1, <1>2, OpenIsRead
<1> QED
  BY <1>1, <1>3

LEMMA OthersCollected ==
    ASSUME NEW l, IsLog(l), NEW n \in Nat, n < Len(l), NEW i,
           OpenAt(l, n, <<i>>), NEW j, j # i, NEW x, IsCollected(l, n, j, x)
    PROVE  IsCollected(l, n + 1, j, x)
<1> DEFINE a == <<i>>
<1>1. a # <<j>> /\ OpenAt(l, n, a)
  OBVIOUS
<1> HIDE DEF a
<1>2. l[n + 1].kind \notin {"f", "dst"} \/ a # <<j>>
  BY <1>1
<1> QED
  BY <1>1, <1>2, CollectedSame

LEMMA FailureOfFails ==
    ASSUME NEW l, IsLog(l), NEW n \in Nat, n < Len(l), NEW i,
           OpenAt(l, n, <<i>>), NEW d, FailsInv(l, n, d), l[n + 1].kind = "f"
    PROVE  FailsInv(l, n + 1, FailureIn(d, i, l[n + 1]))
<1> DEFINE x  == l[n + 1]
           fs == d[i].fails
           gs == Append(fs, x)
           e  == FailureIn(d, i, x)
<1>1. ItersIn(l, n + 1) = ItersIn(l, n)
  BY ItersGrow DEF IsHeader
<1>2. i \in DOMAIN d
  BY OpenIsKept DEF FailsInv
<1>3. /\ d[i] = [fails |-> fs, pages |-> d[i].pages]
      /\ FailsRead(l, n, i, fs) /\ PagesRead(l, n, i, d[i].pages)
  BY <1>2 DEF FailsInv, IsCollected
<1>4. FailsRead(l, n + 1, i, gs)
  <2> HIDE DEF fs
  <2> QED
    BY <1>3, FailureRead
<1>5. PagesRead(l, n + 1, i, d[i].pages)
  <2> DEFINE a == <<i>>
  <2>1. OpenAt(l, n, a)
    OBVIOUS
  <2> HIDE DEF a
  <2>2. OfGrows(l, n, a, i, "dst")
    BY <2>1, KindsGrow
  <2>3. OfIn(l, n + 1, i, "dst") = OfIn(l, n, i, "dst")
    BY <2>2 DEF OfGrows
  <2>4. \A p : PageIn(l, n + 1, i, p) = PageIn(l, n, i, p)
    BY <2>3 DEF PageIn
  <2> QED
    BY <1>3, <2>4 DEF PagesRead
<1>6. e = [d EXCEPT ![i].fails = gs]
  BY DEF FailureIn
<1> HIDE DEF x, fs, gs, e
<1>7. /\ DOMAIN e = DOMAIN d /\ e = [j \in DOMAIN e |-> e[j]]
      /\ \A j \in DOMAIN d : j # i => e[j] = d[j]
      /\ e[i] = [fails |-> gs, pages |-> d[i].pages]
  <2>1. /\ DOMAIN e = DOMAIN d /\ e = [j \in DOMAIN e |-> e[j]]
        /\ \A j \in DOMAIN d : j # i => e[j] = d[j]
        /\ e[i] = [d[i] EXCEPT !.fails = gs]
    BY <1>2, <1>6
  <2>2. e[i] = [fails |-> gs, pages |-> d[i].pages]
    BY <1>3, <2>1
  <2> QED
    BY <2>1, <2>2
<1>8. IsCollected(l, n + 1, i, e[i])
  <2> DEFINE r == e[i]
  <2>1. r.fails = gs /\ r.pages = d[i].pages
        /\ r = [fails |-> r.fails, pages |-> r.pages]
    BY <1>7
  <2> QED
    BY <1>4, <1>5, <2>1 DEF IsCollected
<1>9. ASSUME NEW j \in DOMAIN e PROVE IsCollected(l, n + 1, j, e[j])
  <2>1. CASE j = i
    BY <1>8, <2>1
  <2>2. CASE j # i
    <3>1. IsCollected(l, n, j, d[j]) /\ e[j] = d[j]
      BY <1>7, <2>2 DEF FailsInv
    <3> QED
      BY <2>2, <3>1, OthersCollected
  <2> QED
    BY <2>1, <2>2
<1> QED
  BY <1>1, <1>7, <1>9 DEF FailsInv, e, x

LEMMA PageOfFails ==
    ASSUME NEW l, IsLog(l), NEW n \in Nat, n < Len(l), NEW i,
           OpenAt(l, n, <<i>>), NEW d, FailsInv(l, n, d), l[n + 1].kind = "dst",
           NEW e, e = PageTypesIn(d, i, Logs!Stripped(l[n + 1].pfn),
                                  l[n + 1].types)
    PROVE  FailsInv(l, n + 1, e)
<1> DEFINE p  == Logs!Stripped(l[n + 1].pfn)
           t  == l[n + 1].types
           ps == d[i].pages
           qs == Put(ps, p, t)
<1>1. ItersIn(l, n + 1) = ItersIn(l, n)
  BY ItersGrow DEF IsHeader
<1>2. i \in DOMAIN d
  BY OpenIsKept DEF FailsInv
<1>3. /\ d[i] = [fails |-> d[i].fails, pages |-> ps]
      /\ FailsRead(l, n, i, d[i].fails) /\ PagesRead(l, n, i, ps)
  BY <1>2 DEF FailsInv, IsCollected
<1>4. PagesRead(l, n + 1, i, qs)
  <2> HIDE DEF ps
  <2> QED
    BY <1>3, PageRead
<1>5. FailsRead(l, n + 1, i, d[i].fails)
  <2> DEFINE a == <<i>>
  <2>1. OpenAt(l, n, a)
    OBVIOUS
  <2> HIDE DEF a
  <2>2. OfGrows(l, n, a, i, "f")
    BY <2>1, KindsGrow
  <2>3. OfIn(l, n + 1, i, "f") = OfIn(l, n, i, "f")
    BY <2>2 DEF OfGrows
  <2>4. \A S : ThoseIn(l, n + 1, i, S) = ThoseIn(l, n, i, S)
    BY <2>3 DEF ThoseIn
  <2> QED
    BY <1>3, <2>4 DEF FailsRead
<1>6. e = [d EXCEPT ![i].pages = qs]
  <2>1. qs = Logs!With(ps, p, t)
    BY DEF Put, Logs!With
  <2> QED
    BY <2>1 DEF PageTypesIn
<1> HIDE DEF p, t, ps, qs
<1>7. /\ DOMAIN e = DOMAIN d /\ e = [j \in DOMAIN e |-> e[j]]
      /\ \A j \in DOMAIN d : j # i => e[j] = d[j]
      /\ e[i] = [fails |-> d[i].fails, pages |-> qs]
  <2>1. /\ DOMAIN e = DOMAIN d /\ e = [j \in DOMAIN e |-> e[j]]
        /\ \A j \in DOMAIN d : j # i => e[j] = d[j]
        /\ e[i] = [d[i] EXCEPT !.pages = qs]
    BY <1>2, <1>6
  <2>2. e[i] = [fails |-> d[i].fails, pages |-> qs]
    BY <1>3, <2>1
  <2> QED
    BY <2>1, <2>2
<1>8. IsCollected(l, n + 1, i, e[i])
  <2> DEFINE r == e[i]
  <2>1. r.fails = d[i].fails /\ r.pages = qs
        /\ r = [fails |-> r.fails, pages |-> r.pages]
    BY <1>7
  <2> QED
    BY <1>4, <1>5, <2>1 DEF IsCollected
<1>9. ASSUME NEW j \in DOMAIN e PROVE IsCollected(l, n + 1, j, e[j])
  <2>1. CASE j = i
    BY <1>8, <2>1
  <2>2. CASE j # i
    <3>1. IsCollected(l, n, j, d[j]) /\ e[j] = d[j]
      BY <1>7, <2>2 DEF FailsInv
    <3> QED
      BY <2>2, <3>1, OthersCollected
  <2> QED
    BY <2>1, <2>2
<1> QED
  BY <1>1, <1>7, <1>9 DEF FailsInv

\* The totals are the sums over the lines of an iteration.
TypeSum(l, n, i, t) ==
    SumFunctionOnSet(SizesIn(l), {k \in OfIn(l, n, i, "f") : l[k].type = t})
PageSum(l, n, i, x, t) ==
    SumFunctionOnSet(SizesIn(l), {k \in OfIn(l, n, i, "f") : t \in Logs!Types(x, l[k])})

LEMMA LinesOfLog ==
    ASSUME NEW l, IsLog(l), NEW n \in Nat, n <= Len(l), NEW i, NEW kind,
           NEW k \in OfIn(l, n, i, kind)
    PROVE  /\ k \in 1 .. n /\ k \in DOMAIN l /\ l[k] \in Range(l) /\ l[k].kind = kind
           /\ kind = "f" => l[k].size \in Nat
           /\ kind \in {"f", "dst"} =>
                  l[k].pfn = [ds |-> l[k].pfn.ds, rest |-> l[k].pfn.rest]
<1>1. k \in 1 .. n /\ l[k].kind = kind
  BY OfIsFinite
<1>2. Len(l) \in Nat /\ DOMAIN l = 1 .. Len(l)
  BY ListIs DEF IsLog
<1>3. k \in DOMAIN l
  BY <1>1, <1>2
<1>4. l[k] \in Range(l)
  BY <1>3, ListIs DEF IsLog
<1> QED
  BY <1>1, <1>3, <1>4 DEF IsLog

LEMMA CollectedSums ==
    ASSUME NEW l, IsLog(l), NEW n \in Nat, n <= Len(l), NEW i, NEW x,
           IsCollected(l, n, i, x)
    PROVE  /\ \A t : SizeOfType(x.fails, t) = TypeSum(l, n, i, t)
           /\ \A t : SizeOfPage(x.fails, x, t)
                         = PageSum(l, n, i, x, t)
<1> DEFINE fs == x.fails
           g  == SizesIn(fs)
           L  == Range(l)
<1>1. /\ fs \in Seq(L) /\ \A m \in DOMAIN fs : fs[m].size \in Nat
      /\ \A S : SumFunctionOnSet(g, Those(fs, S))
                  = SumFunctionOnSet(SizesIn(l), ThoseIn(l, n, i, S))
  BY DEF IsCollected, FailsRead
<1>2. \A m \in DOMAIN fs : fs[m] \in L
  BY <1>1
<1>3. \A m \in DOMAIN fs : g[m] = fs[m].size /\ g[m] \in Int
  BY <1>1 DEF SizesIn
<1> HIDE DEF fs, g, L
<1>4. \A k \in OfIn(l, n, i, "f") : l[k] \in L
  BY LinesOfLog DEF L
<1>5. ASSUME NEW t PROVE SizeOfType(fs, t) = TypeSum(l, n, i, t)
  <2> DEFINE S == {y \in L : y.type = t}
  <2>1. SizeOfType(fs, t)
            = SumFunctionOnSet(g, {m \in DOMAIN fs : fs[m].type = t})
    BY <1>1, <1>3, TypeSizes
  <2>2. {m \in DOMAIN fs : fs[m].type = t} = Those(fs, S)
    BY <1>2 DEF Those
  <2>3. {k \in OfIn(l, n, i, "f") : l[k].type = t} = ThoseIn(l, n, i, S)
    BY <1>4 DEF ThoseIn
  <2> QED
    BY <1>1, <2>1, <2>2, <2>3 DEF TypeSum
<1>6. ASSUME NEW t
      PROVE  SizeOfPage(fs, x, t) = PageSum(l, n, i, x, t)
  <2> DEFINE S == {y \in L : t \in Logs!Types(x, y)}
  <2>1. SizeOfPage(fs, x, t)
            = SumFunctionOnSet(g, {m \in DOMAIN fs : t \in Logs!Types(x, fs[m])})
    BY <1>1, <1>3, PageSizes
  <2>2. {m \in DOMAIN fs : t \in Logs!Types(x, fs[m])} = Those(fs, S)
    BY <1>2 DEF Those
  <2>3. {k \in OfIn(l, n, i, "f") : t \in Logs!Types(x, l[k])} = ThoseIn(l, n, i, S)
    BY <1>4 DEF ThoseIn
  <2> QED
    BY <1>1, <2>1, <2>2, <2>3 DEF PageSum
<1> QED
  BY <1>5, <1>6 DEF fs

\* What the last line about a frame says, of frames that do not start with d.
SaidOf(l, n, i, pfn) ==
    LET about == {k \in OfIn(l, n, i, "dst") : l[k].pfn = pfn}
    IN  IF about = {} \/ l[Logs!Max(about)].types = {}
        THEN {"occupied/other"} ELSE l[Logs!Max(about)].types

LEMMA TypesAreSaid ==
    ASSUME NEW l, IsLog(l), NEW n \in Nat, n <= Len(l), NEW i, NEW x,
           PagesRead(l, n, i, x.pages),
           \A k \in OfIn(l, n, i, "dst") : l[k].pfn.ds = 0, NEW f
    PROVE  Logs!Types(x, f) = SaidOf(l, n, i, f.pfn)
<1> DEFINE p == f.pfn
           about == {k \in OfIn(l, n, i, "dst") : l[k].pfn = p}
           last == Logs!Max(about)
<1>1. \A k \in OfIn(l, n, i, "dst") : Logs!Stripped(l[k].pfn) = l[k].pfn
  <2> TAKE k \in OfIn(l, n, i, "dst")
  <2> DEFINE y == l[k].pfn
  <2>1. y = [ds |-> y.ds, rest |-> y.rest] /\ y.ds = 0
    BY LinesOfLog
  <2> HIDE DEF y
  <2>2. [y EXCEPT !.ds = 0] = y
    BY <2>1
  <2> QED
    BY <2>2 DEF Logs!Stripped, y
<1>2. PageIn(l, n, i, p) = about
  BY <1>1 DEF PageIn
<1>3. /\ p \in DOMAIN x.pages <=> about # {}
      /\ \A k \in about : (\A m \in about : m <= k) => x.pages[p] = l[k].types
  BY <1>2 DEF PagesRead
<1>4. about \subseteq Nat /\ IsFiniteSet(about)
  <2>1. IsFiniteSet(OfIn(l, n, i, "dst")) /\ OfIn(l, n, i, "dst") \subseteq 1 .. n
    BY OfIsFinite
  <2> QED
    BY <2>1, FS_Subset
<1> HIDE DEF p, about
<1>5. about # {} => x.pages[p] = l[last].types
  <2> SUFFICES ASSUME about # {} PROVE x.pages[p] = l[last].types
    OBVIOUS
  <2>1. Max(about) \in about /\ \A m \in about : m <= Max(about)
    BY <1>4, MaxOf
  <2>2. last = Max(about)
    BY DEF Logs!Max, Max
  <2> QED
    BY <1>3, <2>1, <2>2
<1>6. Logs!Types(x, f) = IF p \in DOMAIN x.pages /\ x.pages[p] # {}
                         THEN x.pages[p] ELSE {"occupied/other"}
  BY DEF Logs!Types, p
<1>7. SaidOf(l, n, i, p) = IF about = {} \/ l[last].types = {}
                           THEN {"occupied/other"} ELSE l[last].types
  BY DEF SaidOf, about
<1> HIDE DEF last
<1> QED
  BY <1>3, <1>5, <1>6, <1>7 DEF p

-----------------------------------------------------------------------------
(* The two parsers                                                         *)

Reading(l, n, a) ==
    /\ n \in Nat /\ n <= Len(l) /\ OpenAt(l, n, a.iter)
    /\ a = [iter |-> a.iter, vma |-> a.vma]

\* Until a parser dies, what it holds is what it read, and its references
\* point to the iteration that is open.
LogInv ==
    /\ script \in {"none", "results", "fails"}
    /\ script = "results" => log \in ChunkLogs
    /\ script = "fails" => log \in FailureLogs
    /\ state = "reading" \/ script # "fails" => out = <<>>
    /\ script = "none" => state = "done"
    /\ script = "results" /\ state # "error" =>
           /\ Reading(log, lines_read, at)
           /\ ResultsInv(log, lines_read, defrags, at.vma)
    /\ script = "fails" /\ (state = "reading" \/ DOMAIN out # {}) =>
           /\ Reading(log, lines_read, at)
           /\ FailsInv(log, lines_read, defrags)
    /\ script = "fails" =>
           \A i \in DOMAIN out : /\ i \in DOMAIN defrags
                                 /\ out[i] = Logs!Totals(defrags[i])

LEMMA LogsAre == ASSUME NEW l \in ChunkLogs \cup FailureLogs PROVE IsLog(l)
BY LogsAssumption DEF IsLog

LEMMA BeginsRight ==
    ASSUME NEW l, NEW z, z = 0, NEW f, f = <<>>
    PROVE  OpenAt(l, z, f) /\ ResultsInv(l, z, f, f) /\ FailsInv(l, z, f)
<1>1. 1 .. z = {} /\ DOMAIN f = {} /\ f = [i \in DOMAIN f |-> f[i]]
  OBVIOUS
<1>2. ItersIn(l, z) = {}
  BY <1>1 DEF ItersIn, HeadersIn
<1> QED
  BY <1>1, <1>2 DEF OpenAt, ResultsInv, FailsInv

LEMMA InitLogInv == ToolsInit => LogInv
<1> SUFFICES ASSUME ToolsInit PROVE LogInv
  OBVIOUS
<1>1. CASE NoLog
  BY <1>1 DEF NoLog, LogInv
<1>2. CASE Logs!Init
  <2> DEFINE f == <<>>
             z == 0
  <2>1. Len(log) \in Nat
    <3>1. log \in ChunkLogs \cup FailureLogs
      BY <1>2 DEF Logs!Init
    <3> QED
      BY <3>1, LogsAre, ListIs DEF IsLog
  <2>2. /\ lines_read = z /\ state = "reading" /\ defrags = f /\ out = f
        /\ at = [iter |-> f, vma |-> f]
        /\ \/ script = "results" /\ log \in ChunkLogs
           \/ script = "fails" /\ log \in FailureLogs
    BY <1>2 DEF Logs!Init, Logs!None
  <2>3. z \in Nat /\ z <= Len(log) /\ z = 0 /\ f = <<>>
    BY <2>1
  <2> HIDE DEF f, z
  <2>4. OpenAt(log, z, f) /\ ResultsInv(log, z, f, f) /\ FailsInv(log, z, f)
    BY <2>3, BeginsRight
  <2>5. at.iter = f /\ at.vma = f
    BY <2>2
  <2>6. Reading(log, lines_read, at)
    BY <2>2, <2>3, <2>4, <2>5 DEF Reading
  <2>7. DOMAIN out = {}
    BY <2>2, <2>3
  <2> QED
    BY <2>2, <2>3, <2>4, <2>5, <2>6, <2>7 DEF LogInv
<1> QED
  BY <1>1, <1>2 DEF ToolsInit

\* What a line finds.
IsNext(s, kind) ==
    /\ script = s /\ state = "reading" /\ script' = s /\ log' = log
    /\ out = <<>> /\ out' = <<>> /\ lines_read' = lines_read + 1
    /\ lines_read \in Nat /\ lines_read < Len(log) /\ Len(log) \in Nat
    /\ log[lines_read + 1].kind = kind /\ IsLog(log)
    /\ Reading(log, lines_read, at) /\ OpenAt(log, lines_read, at.iter)

LEMMA ReadsNext ==
    ASSUME LogInv
    PROVE  \A s \in {"results", "fails"} :
               \A kind : Logs!Reads(s, kind) => IsNext(s, kind)
<1> SUFFICES ASSUME NEW s \in {"results", "fails"}, NEW kind, Logs!Reads(s, kind)
             PROVE  IsNext(s, kind)
  OBVIOUS
<1>1. /\ script = s /\ state = "reading" /\ script' = s /\ log' = log
      /\ lines_read' = lines_read + 1 /\ out' = out
      /\ lines_read < Len(log) /\ log[lines_read + 1].kind = kind
  BY DEF Logs!Reads, Logs!line
<1>2. IsLog(log) /\ Reading(log, lines_read, at) /\ out = <<>>
  <2>1. log \in ChunkLogs \cup FailureLogs
    BY <1>1 DEF LogInv
  <2> QED
    BY <1>1, <2>1, LogsAre DEF LogInv
<1>3. Len(log) \in Nat
  BY <1>2, ListIs DEF IsLog
<1> QED
  BY <1>1, <1>2, <1>3 DEF IsNext, Reading

\* What it leaves.
LEMMA LineDies ==
    ASSUME LogInv, NEW s \in {"results", "fails"}, NEW kind, IsNext(s, kind),
           state' = "error"
    PROVE  LogInv'
<1>1. out' = <<>> /\ DOMAIN out' = {}
  BY DEF IsNext
<1> QED
  BY <1>1 DEF LogInv, IsNext

NextAt(b) ==
    /\ b = [iter |-> b.iter, vma |-> b.vma]
    /\ b.iter = IF IsHeader(log, lines_read + 1) THEN <<log[lines_read + 1].iter>>
                                                 ELSE at.iter

LEMMA ReadingNext ==
    ASSUME NEW s, NEW kind, IsNext(s, kind), NextAt(at')
    PROVE  Reading(log', lines_read', at')
<1> DEFINE l == log
           n == lines_read
           a == at.iter
<1>1. /\ IsLog(l) /\ n \in Nat /\ n < Len(l) /\ Len(l) \in Nat /\ OpenAt(l, n, a)
      /\ l' = l /\ n' = n + 1
  BY DEF IsNext
<1>2. /\ ~IsHeader(l, n + 1) => OpenAt(l, n + 1, a)
      /\ IsHeader(l, n + 1) => OpenAt(l, n + 1, <<l[n + 1].iter>>)
  <2> HIDE DEF l, n, a
  <2> QED
    BY <1>1, OpenNext
<1>3. OpenAt(l, n + 1, (at').iter)
  BY <1>2 DEF NextAt
<1>4. n + 1 \in Nat /\ n + 1 <= Len(l)
  BY <1>1
<1>5. at' = [iter |-> (at').iter, vma |-> (at').vma]
  BY DEF NextAt
<1> QED
  BY <1>1, <1>3, <1>4, <1>5 DEF Reading

LEMMA ResultsLine ==
    ASSUME LogInv, NEW kind, IsNext("results", kind), NextAt(at'),
           state' = state,
           ResultsInv(log, lines_read + 1, defrags', (at').vma)
    PROVE  LogInv'
<1>1. \A s : IsNext(s, kind) => Reading(log', lines_read', at')
  BY ReadingNext
<1>2. Reading(log', lines_read', at')
  BY <1>1
<1>3. /\ script = "results" /\ script' = "results" /\ log' = log /\ out' = <<>>
      /\ lines_read' = lines_read + 1
  BY DEF IsNext
<1> QED
  BY <1>2, <1>3 DEF LogInv

LEMMA FailsLine ==
    ASSUME LogInv, NEW kind, IsNext("fails", kind), NextAt(at'),
           state' = state, FailsInv(log, lines_read + 1, defrags')
    PROVE  LogInv'
<1>1. \A s : IsNext(s, kind) => Reading(log', lines_read', at')
  BY ReadingNext
<1>2. Reading(log', lines_read', at')
  BY <1>1
<1>3. /\ script = "fails" /\ script' = "fails" /\ log' = log /\ out' = <<>>
      /\ lines_read' = lines_read + 1 /\ DOMAIN out' = {}
  BY DEF IsNext
<1> QED
  BY <1>2, <1>3 DEF LogInv

LEMMA PutIsWith == ASSUME NEW f, NEW x, NEW v PROVE Logs!With(f, x, v) = Put(f, x, v)
BY DEF Put, Logs!With

\* A header.
LEMMA HeaderKept ==
    ASSUME LogInv, Logs!NewIteration \/ Logs!NewFails
    PROVE  LogInv'
<1> DEFINE l == log
           n == lines_read
           a == at.iter
           r == "results"
           g == "fails"
           h == "header"
<1>1. NextAt(at') /\ state' = state /\ n \in Nat /\ IsLog(l) /\ n < Len(l)
      /\ OpenAt(l, n, a) /\ IsHeader(l, n + 1)
  <2>1. Logs!Reads(r, h) \/ Logs!Reads(g, h)
    BY DEF Logs!NewIteration, Logs!NewFails
  <2>2. IsNext(r, h) \/ IsNext(g, h)
    BY <2>1, ReadsNext
  <2> HIDE DEF r, g
  <2>3. /\ at = [iter |-> at.iter, vma |-> at.vma] /\ n \in Nat /\ IsLog(l)
        /\ n < Len(l) /\ OpenAt(l, n, a) /\ IsHeader(l, n + 1)
    BY <2>2 DEF IsNext, Reading, IsHeader
  <2>4. at' = [at EXCEPT !.iter = <<l[n + 1].iter>>] /\ state' = state
    BY DEF Logs!NewIteration, Logs!NewFails, Logs!line
  <2>5. at' = [iter |-> <<l[n + 1].iter>>, vma |-> at.vma]
    BY <2>3, <2>4
  <2>6. NextAt(at')
    BY <2>3, <2>5 DEF NextAt
  <2> QED
    BY <2>3, <2>4, <2>6
<1>2. CASE Logs!NewIteration
  <2>1. /\ Logs!Reads(r, h)
        /\ defrags' = Logs!With(defrags, l[n + 1].iter, NewAccount)
        /\ at' = [at EXCEPT !.iter = <<l[n + 1].iter>>]
    BY <1>2 DEF Logs!NewIteration, Logs!line, Logs!None, NewAccount
  <2>2. IsNext(r, h)
    BY <2>1, ReadsNext
  <2>3. ResultsInv(l, n, defrags, at.vma) /\ (at').vma = at.vma
    <3>1. at = [iter |-> at.iter, vma |-> at.vma] /\ script = r /\ state = "reading"
      BY <2>2 DEF IsNext, Reading
    <3> QED
      BY <2>1, <3>1 DEF LogInv
  <2>4. defrags' = Put(defrags, l[n + 1].iter, NewAccount)
    BY <2>1, PutIsWith
  <2>5. ResultsInv(l, n + 1, defrags', at.vma)
    <3> DEFINE v == at.vma
    <3> HIDE DEF l, n, a, v
    <3>1. ResultsInv(l, n, defrags, v)
      BY <2>3 DEF v
    <3>2. ResultsInv(l, n + 1, Put(defrags, l[n + 1].iter, NewAccount), v)
      BY <1>1, <3>1, HeaderOfResults
    <3> QED
      BY <2>4, <3>2 DEF v
  <2> QED
    BY <1>1, <2>2, <2>3, <2>5, ResultsLine
<1>3. CASE Logs!NewFails
  <2>1. /\ Logs!Reads(g, h)
        /\ defrags' = Logs!With(defrags, l[n + 1].iter, NewCollected)
    BY <1>3 DEF Logs!NewFails, Logs!line, Logs!None, NewCollected
  <2>2. IsNext(g, h)
    BY <2>1, ReadsNext
  <2>3. FailsInv(l, n, defrags)
    BY <2>2 DEF LogInv, IsNext
  <2>4. defrags' = Put(defrags, l[n + 1].iter, NewCollected)
    BY <2>1, PutIsWith
  <2>5. FailsInv(l, n + 1, defrags')
    <3> HIDE DEF l, n, a
    <3>1. FailsInv(l, n + 1, Put(defrags, l[n + 1].iter, NewCollected))
      BY <1>1, <2>3, HeaderOfFails
    <3> QED
      BY <2>4, <3>1
  <2> QED
    BY <1>1, <2>2, <2>5, FailsLine
<1> QED
  BY <1>2, <1>3

\* A line of an iteration: nothing is open, and the parser dies, or it is.
LEMMA OpenOrNot ==
    ASSUME NEW s, NEW kind, IsNext(s, kind), kind # "header", UNCHANGED at
    PROVE  /\ NextAt(at')
           /\ at.iter # <<>> => \E i : at.iter = <<i>>
<1>1. at = [iter |-> at.iter, vma |-> at.vma] /\ ~IsHeader(log, lines_read + 1)
      /\ OpenAt(log, lines_read, at.iter)
  BY DEF IsNext, Reading, IsHeader
<1> QED
  BY <1>1 DEF NextAt, OpenAt

LEMMA DashesKept ==
    ASSUME LogInv, Logs!Ignore("results") \/ Logs!Ignore("fails")
    PROVE  LogInv'
<1> DEFINE l == log
           n == lines_read
           r == "results"
           g == "fails"
           h == "dashes"
           a == at.iter
<1>1. /\ Logs!Reads(r, h) \/ Logs!Reads(g, h)
      /\ state' = state /\ defrags' = defrags /\ at' = at
  BY DEF Logs!Ignore
<1>2. IsNext(r, h) \/ IsNext(g, h)
  BY <1>1, ReadsNext
<1>3. h # "header" /\ UNCHANGED at
  BY <1>1
<1>4. /\ NextAt(at') /\ n \in Nat /\ IsLog(l) /\ n < Len(l)
      /\ OpenAt(l, n, a) /\ l[n + 1].kind = "dashes"
  <2>1. NextAt(at')
    <3> HIDE DEF r, g, h
    <3> QED
      BY <1>2, <1>3, OpenOrNot
  <2> QED
    BY <1>2, <2>1 DEF IsNext
<1>5. CASE IsNext(r, h)
  <2>1. ResultsInv(l, n, defrags, at.vma) /\ (at').vma = at.vma
    BY <1>1, <1>5 DEF LogInv, IsNext
  <2>2. ResultsInv(l, n + 1, defrags', (at').vma)
    <3> DEFINE v == at.vma
    <3> HIDE DEF l, n, a, v
    <3>1. ResultsInv(l, n, defrags, v)
      BY <2>1 DEF v
    <3>2. ResultsInv(l, n + 1, defrags, v)
      BY <1>4, <3>1, IgnoreResults
    <3> QED
      BY <1>1, <2>1, <3>2 DEF v
  <2> QED
    BY <1>1, <1>4, <1>5, <2>2, ResultsLine
<1>6. CASE IsNext(g, h)
  <2>1. FailsInv(l, n, defrags)
    BY <1>6 DEF LogInv, IsNext
  <2>2. FailsInv(l, n + 1, defrags')
    <3> HIDE DEF l, n, a
    <3>1. FailsInv(l, n + 1, defrags)
      BY <1>4, <2>1, IgnoreFails
    <3> QED
      BY <1>1, <3>1
  <2> QED
    BY <1>1, <1>4, <1>6, <2>2, FailsLine
<1> QED
  BY <1>2, <1>5, <1>6

LEMMA VmaKept == ASSUME LogInv, Logs!NewVma PROVE LogInv'
<1> DEFINE l == log
           n == lines_read
           r == "results"
           h == "vma"
           w == l[n + 1].vma
<1>1. Logs!Reads(r, h)
  BY DEF Logs!NewVma
<1>2. IsNext(r, h)
  BY <1>1, ReadsNext
<1>3. CASE at.iter = <<>>
  <2>1. state' = "error"
    BY <1>3 DEF Logs!NewVma, Logs!Dies, Logs!None
  <2> HIDE DEF h
  <2> QED
    BY <1>2, <2>1, LineDies
<1>4. CASE at.iter # <<>>
  <2>1. /\ n \in Nat /\ IsLog(l) /\ n < Len(l) /\ l[n + 1].kind = "vma"
        /\ at = [iter |-> at.iter, vma |-> at.vma] /\ OpenAt(l, n, at.iter)
    BY <1>2 DEF IsNext, Reading
  <2>2. PICK i : at.iter = <<i>>
    BY <1>4, <2>1 DEF OpenAt
  <2>3. /\ defrags' = NewVmaIn(defrags, i, w) /\ state' = state
        /\ at' = [at EXCEPT !.vma = <<i, w>>]
    BY <1>4, <2>2 DEF Logs!NewVma, Logs!line, Logs!None, NewVmaIn
  <2>4. at' = [iter |-> at.iter, vma |-> <<i, w>>]
    BY <2>1, <2>3
  <2>5. NextAt(at') /\ (at').vma = <<i, w>>
    <3>1. ~IsHeader(l, n + 1)
      BY <2>1 DEF IsHeader
    <3> QED
      BY <2>4, <3>1 DEF NextAt
  <2>6. ResultsInv(l, n, defrags, at.vma)
    BY <1>2 DEF LogInv, IsNext
  <2>7. ResultsInv(l, n + 1, defrags', (at').vma)
    <3> DEFINE v == at.vma
    <3> HIDE DEF l, n, v
    <3>1. ResultsInv(l, n, defrags, v) /\ OpenAt(l, n, <<i>>)
      BY <2>1, <2>2, <2>6 DEF v
    <3>2. ResultsInv(l, n + 1, NewVmaIn(defrags, i, l[n + 1].vma), <<i, l[n + 1].vma>>)
      BY <2>1, <3>1, VmaOfResults
    <3> QED
      BY <2>3, <2>5, <3>2
  <2> QED
    BY <1>2, <2>3, <2>5, <2>7, ResultsLine
<1> QED
  BY <1>3, <1>4

LEMMA ChunkKept == ASSUME LogInv, Logs!AddChunk PROVE LogInv'
<1> DEFINE l == log
           n == lines_read
           r == "results"
           h == "chunk"
           x == l[n + 1].stats
           v == at.vma
<1>1. Logs!Reads(r, h)
  BY DEF Logs!AddChunk
<1>2. IsNext(r, h)
  BY <1>1, ReadsNext
<1>3. CASE v = <<>>
  <2>1. state' = "error"
    BY <1>3 DEF Logs!AddChunk, Logs!Dies, Logs!None
  <2> HIDE DEF h
  <2> QED
    BY <1>2, <2>1, LineDies
<1>4. CASE v # <<>>
  <2>1. /\ n \in Nat /\ IsLog(l) /\ n < Len(l) /\ l[n + 1].kind = "chunk"
        /\ at = [iter |-> at.iter, vma |-> at.vma] /\ OpenAt(l, n, at.iter)
    BY <1>2 DEF IsNext, Reading
  <2>2. ResultsInv(l, n, defrags, v)
    BY <1>2 DEF LogInv, IsNext
  <2>3. PICK j, w : v = <<j, w>> /\ \E k : k \in OfIn(l, n, j, "vma")
    BY <1>4, <2>2 DEF ResultsInv, LastVma
  <2>4. at.iter # <<>>
    <3>1. PICK k \in OfIn(l, n, j, "vma") : TRUE
      BY <2>3
    <3>2. PICK m \in 1 .. k - 1 : IsHeader(l, m) /\ k \in 1 .. n
      BY <3>1 DEF OfIn, LinesIn, InLines, IsHeader, Logs!Header
    <3>3. m \in 1 .. n
      BY <2>1, <3>2
    <3> QED
      BY <2>1, <3>2, <3>3 DEF OpenAt
  <2>5. PICK i : at.iter = <<i>>
    BY <2>1, <2>4 DEF OpenAt
  <2>6. /\ defrags' = [defrags EXCEPT ![j].vmas[w] = @ + x, ![i].total = @ + x]
        /\ state' = state /\ at' = at
    BY <1>4, <2>3, <2>5 DEF Logs!AddChunk, Logs!line, Logs!None
  <2>7. defrags' = ChunkIn(defrags, i, j, w, x)
    BY <2>6 DEF ChunkIn
  <2>8. NextAt(at') /\ (at').vma = v
    <3>1. ~IsHeader(l, n + 1)
      BY <2>1 DEF IsHeader
    <3> QED
      BY <2>1, <2>6, <3>1 DEF NextAt
  <2>9. ResultsInv(l, n + 1, defrags', (at').vma)
    <3> HIDE DEF l, n, v
    <3>1. ResultsInv(l, n, defrags, <<j, w>>) /\ OpenAt(l, n, <<i>>)
      BY <2>1, <2>2, <2>3, <2>5
    <3>2. ResultsInv(l, n + 1, ChunkIn(defrags, i, j, w, l[n + 1].stats), <<j, w>>)
      BY <2>1, <3>1, ChunkOfResults
    <3> QED
      BY <2>3, <2>7, <2>8, <3>2
  <2> QED
    BY <1>2, <2>6, <2>8, <2>9, ResultsLine
<1> QED
  BY <1>3, <1>4

LEMMA TornKept == ASSUME LogInv, Logs!TornChunk PROVE LogInv'
<1> DEFINE r == "results"
           h == "torn"
<1>1. Logs!Reads(r, h) /\ state' = "error"
  BY DEF Logs!TornChunk, Logs!Dies
<1>2. IsNext(r, h)
  BY <1>1, ReadsNext
<1> HIDE DEF h
<1> QED
  BY <1>1, <1>2, LineDies

LEMMA FailureKept == ASSUME LogInv, Logs!AddFailure PROVE LogInv'
<1> DEFINE l == log
           n == lines_read
           g == "fails"
           h == "f"
<1>1. Logs!Reads(g, h)
  BY DEF Logs!AddFailure
<1>2. IsNext(g, h)
  BY <1>1, ReadsNext
<1>3. CASE at.iter = <<>>
  <2>1. state' = "error"
    BY <1>3 DEF Logs!AddFailure, Logs!Dies, Logs!None
  <2> HIDE DEF h
  <2> QED
    BY <1>2, <2>1, LineDies
<1>4. CASE at.iter # <<>>
  <2>1. /\ n \in Nat /\ IsLog(l) /\ n < Len(l) /\ l[n + 1].kind = "f"
        /\ at = [iter |-> at.iter, vma |-> at.vma] /\ OpenAt(l, n, at.iter)
    BY <1>2 DEF IsNext, Reading
  <2>2. PICK i : at.iter = <<i>>
    BY <1>4, <2>1 DEF OpenAt
  <2>3. /\ defrags' = FailureIn(defrags, i, l[n + 1]) /\ state' = state
        /\ at' = at
    BY <1>4, <2>2 DEF Logs!AddFailure, Logs!line, Logs!None, FailureIn
  <2>4. NextAt(at')
    <3>1. ~IsHeader(l, n + 1)
      BY <2>1 DEF IsHeader
    <3> QED
      BY <2>1, <2>3, <3>1 DEF NextAt
  <2>5. FailsInv(l, n, defrags)
    BY <1>2 DEF LogInv, IsNext
  <2>6. FailsInv(l, n + 1, defrags')
    <3> HIDE DEF l, n
    <3>1. OpenAt(l, n, <<i>>)
      BY <2>1, <2>2
    <3>2. FailsInv(l, n + 1, FailureIn(defrags, i, l[n + 1]))
      BY <2>1, <2>5, <3>1, FailureOfFails
    <3> QED
      BY <2>3, <3>2
  <2> QED
    BY <1>2, <2>3, <2>4, <2>6, FailsLine
<1> QED
  BY <1>3, <1>4

LEMMA PageKept == ASSUME LogInv, Logs!AddPage PROVE LogInv'
<1> DEFINE l == log
           n == lines_read
           g == "fails"
           h == "dst"
<1>1. Logs!Reads(g, h)
  BY DEF Logs!AddPage
<1>2. IsNext(g, h)
  BY <1>1, ReadsNext
<1>3. CASE at.iter = <<>>
  <2>1. state' = "error"
    BY <1>3 DEF Logs!AddPage, Logs!Dies, Logs!None
  <2> HIDE DEF h
  <2> QED
    BY <1>2, <2>1, LineDies
<1>4. CASE at.iter # <<>>
  <2>1. /\ n \in Nat /\ IsLog(l) /\ n < Len(l) /\ l[n + 1].kind = "dst"
        /\ at = [iter |-> at.iter, vma |-> at.vma] /\ OpenAt(l, n, at.iter)
    BY <1>2 DEF IsNext, Reading
  <2>2. PICK i : at.iter = <<i>>
    BY <1>4, <2>1 DEF OpenAt
  <2>3. /\ defrags' = PageTypesIn(defrags, i, Logs!Stripped(l[n + 1].pfn),
                                  l[n + 1].types)
        /\ state' = state /\ at' = at
    BY <1>4, <2>2 DEF Logs!AddPage, Logs!line, Logs!None, PageTypesIn
  <2>4. NextAt(at')
    <3>1. ~IsHeader(l, n + 1)
      BY <2>1 DEF IsHeader
    <3> QED
      BY <2>1, <2>3, <3>1 DEF NextAt
  <2>5. FailsInv(l, n, defrags)
    BY <1>2 DEF LogInv, IsNext
  <2>6. FailsInv(l, n + 1, defrags')
    <3> DEFINE e == PageTypesIn(defrags, i, Logs!Stripped(l[n + 1].pfn),
                                l[n + 1].types)
    <3> HIDE DEF l, n
    <3>1. OpenAt(l, n, <<i>>)
      BY <2>1, <2>2
    <3>2. FailsInv(l, n + 1, e)
      <4> DEFINE d == defrags
      <4>1. e = PageTypesIn(d, i, Logs!Stripped(l[n + 1].pfn), l[n + 1].types)
            /\ FailsInv(l, n, d)
        BY <2>5
      <4> HIDE DEF e, d
      <4> QED
        BY <2>1, <3>1, <4>1, PageOfFails
    <3> QED
      BY <2>3, <3>2
  <2> QED
    BY <1>2, <2>3, <2>4, <2>6, FailsLine
<1> QED
  BY <1>3, <1>4

LEMMA FinishKept == ASSUME LogInv, Logs!Finish PROVE LogInv'
<1>1. /\ state = "reading" /\ log' = log /\ lines_read' = lines_read
      /\ script' = script /\ defrags' = defrags /\ at' = at
  BY DEF Logs!Finish
<1>2. CASE script = "results"
  <2>1. state' = "done" /\ out' = out
    BY <1>2 DEF Logs!Finish
  <2> QED
    BY <1>1, <1>2, <2>1 DEF LogInv
<1>3. CASE script # "results"
  <2>0. script = "fails" /\ state' # "reading"
    BY <1>1, <1>3 DEF LogInv, Logs!Finish
  <2>1. \A i \in DOMAIN out' : /\ i \in DOMAIN defrags
                               /\ (out')[i] = Logs!Totals(defrags[i])
    <3>1. \E T \in SUBSET DOMAIN defrags :
              out' = [i \in T |-> Logs!Totals(defrags[i])]
      BY <1>3 DEF Logs!Finish
    <3> QED
      BY <3>1
  <2>2. Reading(log, lines_read, at) /\ FailsInv(log, lines_read, defrags)
    BY <1>1, <2>0 DEF LogInv
  <2>3. log \in FailureLogs
    BY <2>0 DEF LogInv
  <2> QED
    BY <1>1, <2>0, <2>1, <2>2, <2>3 DEF LogInv
<1> QED
  BY <1>2, <1>3

LEMMA NextLogInv ==
    LogInv /\ [ToolsNext]_<<vars, logVars, tablesVars>> => LogInv'
<1> SUFFICES ASSUME LogInv, [ToolsNext]_<<vars, logVars, tablesVars>>
             PROVE  LogInv'
  OBVIOUS
<1>1. CASE UNCHANGED logVars
  BY <1>1 DEF LogInv, logVars
<1>2. CASE Logs!Next
  <2>1. CASE Logs!Results
    <3>1. \/ Logs!NewIteration \/ Logs!NewVma \/ Logs!AddChunk
          \/ Logs!TornChunk \/ Logs!Ignore("results")
      BY <2>1 DEF Logs!Results
    <3> QED
      BY <3>1, HeaderKept, VmaKept, ChunkKept, TornKept, DashesKept
  <2>2. CASE Logs!Fails
    <3>1. \/ Logs!NewFails \/ Logs!AddFailure \/ Logs!AddPage
          \/ Logs!Ignore("fails")
      BY <2>2 DEF Logs!Fails
    <3> QED
      BY <3>1, HeaderKept, FailureKept, PageKept, DashesKept
  <2> QED
    BY <1>2, <2>1, <2>2, FinishKept DEF Logs!Next
<1> QED
  BY <1>1, <1>2 DEF ToolsNext, ReportRanges, ReadLog, ReadFolders

\* The parsers hold what the lines they read say, as long as they live.
THEOREM ParsersAreRight == ToolsSpec => []LogInv
<1>1. ToolsInit => LogInv
  BY InitLogInv
<1>2. LogInv /\ [ToolsNext]_<<vars, logVars, tablesVars>> => LogInv'
  BY NextLogInv
<1> QED
  BY <1>1, <1>2, PTL DEF ToolsSpec

LEMMA LogsOf ==
    ASSUME NEW i, NEW kind
    PROVE  Logs!Of(i, kind) = OfIn(log, lines_read, i, kind)
<1>1. Logs!Lines(i) = LinesIn(log, lines_read, i)
  BY DEF Logs!Lines, LinesIn, InLines, IsHeader
<1> QED
  BY <1>1 DEF Logs!Of, OfIn

LEMMA AccountsAre == LogInv => AccountsAgree
<1> DEFINE l == log
           n == lines_read
<1> SUFFICES ASSUME LogInv, script = "results", state # "error"
             PROVE  /\ \A i \in DOMAIN defrags :
                           defrags[i].total = StatsTotal(l, Logs!Of(i, "chunk"))
                    /\ (\A i \in DOMAIN defrags : ~Logs!Interrupted(i)) =>
                           \A i \in DOMAIN defrags :
                               defrags[i].total = ValuesTotal(defrags[i].vmas)
  BY DEF AccountsAgree, Logs!AccountsAgree, StatsTotal, ValuesTotal
<1>1. Reading(l, n, at) /\ ResultsInv(l, n, defrags, at.vma) /\ IsLog(l)
  <2>1. log \in ChunkLogs \cup FailureLogs
    BY DEF LogInv
  <2> QED
    BY <2>1, LogsAre DEF LogInv
<1>2. n \in Nat /\ n <= Len(l)
  BY <1>1 DEF Reading
<1>3. \A i \in DOMAIN defrags : IsRead(l, n, i, defrags[i])
  BY <1>1 DEF ResultsInv
<1>4. ASSUME NEW i \in DOMAIN defrags
      PROVE  defrags[i].total = StatsTotal(l, Logs!Of(i, "chunk"))
  <2> DEFINE C == OfIn(l, n, i, "chunk")
             g == StatsOf(l)
  <2>1. \A k \in C : g[k] = l[k].stats
    <3>1. \A k \in C : k \in DOMAIN l
      BY <1>1, <1>2, LinesOfLog
    <3> QED
      BY <3>1 DEF StatsOf
  <2>2. IsFiniteSet(C)
    BY <1>2, OfIsFinite
  <2>3. defrags[i].total = SumFunctionOnSet(g, C)
    BY <1>3 DEF IsRead
  <2>4. Logs!Of(i, "chunk") = C
    BY LogsOf
  <2> HIDE DEF C, g, l
  <2>5. StatsTotal(l, C) = SumFunctionOnSet(g, C)
    BY <2>1, <2>2, StatsSum
  <2> QED
    BY <2>3, <2>4, <2>5
<1>5. \A i : Logs!Interrupted(i) <=> InterruptedIn(l, n, i)
  BY LogsOf DEF Logs!Interrupted, InterruptedIn
<1>6. ASSUME \A i \in DOMAIN defrags : ~Logs!Interrupted(i),
             NEW i \in DOMAIN defrags
      PROVE  defrags[i].total = ValuesTotal(defrags[i].vmas)
  <2> DEFINE f == defrags[i].vmas
  <2>1. defrags[i].total = SumFunction(f)
    BY <1>1, <1>5, <1>6 DEF ResultsInv
  <2>2. IsFiniteSet(DOMAIN f)
    BY <1>3 DEF IsRead, IsAccount
  <2> HIDE DEF f
  <2>3. ValuesTotal(f) = SumFunction(f)
    BY <2>2, ValuesSum
  <2> QED
    BY <2>1, <2>3 DEF f
<1> QED
  BY <1>4, <1>6

\* The two accounts of the chunks are those of the lines that were read, and
\* agree for a log that was not interrupted.
THEOREM ChunksAreAccounted == ToolsSpec => []AccountsAgree
BY ParsersAreRight, AccountsAre, PTL

LEMMA SaidIs ==
    ASSUME NEW i, NEW pfn
    PROVE  Logs!PagesSaid(i, pfn) = SaidOf(log, lines_read, i, pfn)
BY LogsOf DEF Logs!PagesSaid, SaidOf

LEMMA FailuresAre == LogInv => FailuresAreCounted
<1> DEFINE l == log
           n == lines_read
           Fs(i) == Logs!Of(i, "f")
<1> SUFFICES ASSUME LogInv, NEW i \in DOMAIN out
             PROVE  /\ \A t \in FailTypes :
                           out[i].types[t]
                               = SizesTotal(l, {k \in Fs(i) : l[k].type = t})
                    /\ (\A k \in Fs(i) \cup Logs!Of(i, "dst") : l[k].pfn.ds = 0) =>
                           \A t \in Logs!PageTypes :
                               out[i].pages[t]
                                   = SizesTotal(l, {k \in Fs(i) :
                                         t \in Logs!PagesSaid(i, l[k].pfn)})
  BY DEF FailuresAreCounted, Logs!FailuresAreCounted, SizesTotal
<1>1. /\ script = "fails" /\ Reading(l, n, at) /\ FailsInv(l, n, defrags)
      /\ i \in DOMAIN defrags /\ out[i] = Logs!Totals(defrags[i])
  <2>1. out # <<>>
    OBVIOUS
  <2>2. script = "fails" /\ DOMAIN out # {}
    BY <2>1 DEF LogInv
  <2> QED
    BY <2>2 DEF LogInv
<1>2. IsLog(l) /\ n \in Nat /\ n <= Len(l)
  <2>1. log \in ChunkLogs \cup FailureLogs
    BY <1>1 DEF LogInv
  <2> QED
    BY <1>1, <2>1, LogsAre DEF Reading
<1> DEFINE x == defrags[i]
           F == OfIn(l, n, i, "f")
<1>3. IsCollected(l, n, i, x) /\ PagesRead(l, n, i, x.pages)
  BY <1>1 DEF FailsInv, IsCollected
<1>4. /\ \A t \in FailTypes : out[i].types[t] = SizeOfType(x.fails, t)
      /\ \A t \in Logs!PageTypes : out[i].pages[t] = SizeOfPage(x.fails, x, t)
  BY <1>1 DEF Logs!Totals, SizeOfType, SizeOfPage
<1>5. Fs(i) = F /\ Logs!Of(i, "dst") = OfIn(l, n, i, "dst")
  BY LogsOf
<1>6. \A S : S \subseteq F => SizesTotal(l, S) = SumFunctionOnSet(SizesIn(l), S)
  <2> SUFFICES ASSUME NEW S, S \subseteq F
               PROVE  SizesTotal(l, S) = SumFunctionOnSet(SizesIn(l), S)
    OBVIOUS
  <2> DEFINE g == SizesIn(l)
  <2>1. IsFiniteSet(S)
    BY <1>2, OfIsFinite, FS_Subset
  <2>2. \A k \in S : g[k] = l[k].size
    <3>1. \A k \in F : k \in DOMAIN l
      BY <1>2, LinesOfLog
    <3> QED
      BY <3>1 DEF SizesIn
  <2> HIDE DEF g, l
  <2>3. SizesTotal(l, S) = SumFunctionOnSet(g, S)
    BY <2>1, <2>2, SizesSum
  <2> QED
    BY <2>3 DEF g
<1> HIDE DEF x, F, l, n
<1>7. ASSUME NEW t \in FailTypes
      PROVE  out[i].types[t] = SizesTotal(l, {k \in Fs(i) : l[k].type = t})
  <2>1. SizeOfType(x.fails, t) = TypeSum(l, n, i, t)
    BY <1>2, <1>3, CollectedSums
  <2> DEFINE S == {k \in F : l[k].type = t}
  <2>2. SizesTotal(l, S) = SumFunctionOnSet(SizesIn(l), S)
    BY <1>6
  <2> QED
    BY <1>4, <1>5, <2>1, <2>2 DEF TypeSum, F
<1>8. ASSUME \A k \in Fs(i) \cup Logs!Of(i, "dst") : l[k].pfn.ds = 0,
             NEW t \in Logs!PageTypes
      PROVE  out[i].pages[t]
                 = SizesTotal(l, {k \in Fs(i) : t \in Logs!PagesSaid(i, l[k].pfn)})
  <2>1. SizeOfPage(x.fails, x, t) = PageSum(l, n, i, x, t)
    BY <1>2, <1>3, CollectedSums
  <2>2. \A k \in OfIn(l, n, i, "dst") : l[k].pfn.ds = 0
    BY <1>5, <1>8
  <2>3. \A y : Logs!Types(x, y) = SaidOf(l, n, i, y.pfn)
    BY <1>2, <1>3, <2>2, TypesAreSaid
  <2>4. \A y : Logs!Types(x, y) = Logs!PagesSaid(i, y.pfn)
    BY <2>3, SaidIs DEF l, n
  <2> DEFINE S == {k \in F : t \in Logs!PagesSaid(i, l[k].pfn)}
  <2>5. S = {k \in F : t \in Logs!Types(x, l[k])}
    BY <2>4
  <2>6. SizesTotal(l, S) = SumFunctionOnSet(SizesIn(l), S)
    BY <1>6
  <2> HIDE DEF S
  <2>7. PageSum(l, n, i, x, t) = SumFunctionOnSet(SizesIn(l), S)
    BY <2>5 DEF PageSum, F
  <2> QED
    BY <1>4, <1>5, <2>1, <2>6, <2>7 DEF S
<1> QED
  BY <1>7, <1>8

\* Each failure is in the total of its type and in those of the types of its
\* frame, and in no other.
THEOREM FailuresHaveTheirTypes == ToolsSpec => []FailuresAreCounted
BY ParsersAreRight, FailuresAre, PTL
=============================================================================
