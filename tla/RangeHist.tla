------------------------------ MODULE RangeHist ------------------------------
(***************************************************************************)
(* print_range_hist of pagecollect/page-collect.cpp: from a histogram of   *)
(* run lengths, how many pages the 32, 64, 128 and 256 longest runs cover, *)
(* and how many runs cover 80, 90 and 99 percent of the present pages.     *)
(*                                                                         *)
(* One step is the body of the for loop: one length, with its number of    *)
(* runs, the longest first.  A result of zero means that it is not set yet.*)
(***************************************************************************)
EXTENDS Integers, FiniteSets, Bags, FiniteSetsExt

CONSTANTS
    Histograms,     \* the calls: records of hist and total_present_pages
    Tops,           \* 32, 64, 128, 256
    Percents,       \* 80, 90, 99
    FloatExact,     \* 2^24: up to here a float has every integer
    Word            \* 2^64

VARIABLES
    hist, total,                    \* the arguments
    left,                           \* the lengths that are still to come
    num_entries, current_coverage,
    top,                            \* _<n>_entries_coverage
    needed,                         \* num_entries_<p>_percent_coverage
    reached,                        \* _<p>_percent_coverage
    printed

vars == <<hist, total, left, num_entries, current_coverage, top, needed,
          reached, printed>>

ASSUME FloatAssumption ==
    /\ FloatExact \in Nat \ {0} /\ Word \in Nat /\ Word > FloatExact
    /\ Percents \subseteq 1 .. 100

\* A run has a page and a length of the histogram a run; a process without a
\* present page has at most the one run that the collector starts with.
ASSUME HistogramsAssumption ==
    /\ Tops \subseteq Nat \ {0}
    /\ \A h \in Histograms :
           /\ IsFiniteSet(DOMAIN h.hist) /\ DOMAIN h.hist \subseteq Nat \ {0}
           /\ \A s \in DOMAIN h.hist : h.hist[s] \in Nat \ {0}
           /\ h.total \in Nat
           /\ h.total = 0 => \A s, t \in DOMAIN h.hist : s = t

Init ==
    /\ \E h \in Histograms : hist = h.hist /\ total = h.total
    /\ left = DOMAIN hist
    /\ num_entries = 0 /\ current_coverage = 0
    /\ top = [n \in Tops |-> 0]
    /\ needed = [p \in Percents |-> 0] /\ reached = [p \in Percents |-> 0]
    /\ printed = FALSE

CeilDiv(a, b) == (a + b - 1) \div b

\* The integer that is nearest to a/b, the even one of two.
Nearest(a, b) ==
    LET k == a \div b
        r == a % b
    IN  IF 2 * r > b \/ (2 * r = b /\ k % 2 = 1) THEN k + 1 ELSE k

\* The least power of two by which d gets above n.
PowerAbove(n, d) ==
    2 ^ (CHOOSE e \in 0 .. 64 : /\ n < d * 2 ^ e
                                /\ \A less \in 0 .. e - 1 : n >= d * 2 ^ less)

\* (float)x.  Above FloatExact the floats are further and further apart.
Float(x) ==
    IF x <= FloatExact THEN x
    ELSE LET gap == PowerAbove(x, FloatExact)
         IN  gap * Nearest(x, gap)

\* (float)pages/total_present_pages >= p/100.  The quotient is rounded to a
\* float as well, and between 1/2 and 1 those are multiples of 1/FloatExact.
Reaches(p, pages) ==
    \/ total = 0
    \/ 100 * Nearest(FloatExact * Float(pages), Float(total)) >= p * FloatExact

\* ceil(a/b) for two floats.  Up to FloatExact the rounding of the quotient
\* never takes it to the other side of an integer.
CeilQuotient(a, b) ==
    IF a <= FloatExact THEN CeilDiv(a, b)
    ELSE IF a >= FloatExact * b
    THEN LET gap == PowerAbove(a, FloatExact * b)
         IN  gap * Nearest(a, b * gap)
    ELSE LET parts == PowerAbove(FloatExact * b - 1, 2 * a)
         IN  CeilDiv(Nearest(a * parts, b), parts)

\* A number as a uint64_t.
ToWord(n) == n % Word

\* Mutant: a part of a run is not a run.
RequiredFloor(p, size) ==
    (CeilDiv(p * Float(total), 100) - current_coverage) \div size

\* The runs of this size that are needed to get to p percent.
Required(p, size) ==
    LET remaining == ToWord(CeilDiv(p * Float(total), 100) - current_coverage)
    IN  ToWord(CeilQuotient(Float(remaining), Float(size)))

\* Mutant: the runs before this length are not subtracted.
TopAfterAll(n, size, count) ==
    IF num_entries + count > n /\ top[n] = 0
    THEN current_coverage + n * size
    ELSE top[n]

TopAfter(n, size, count) ==
    IF num_entries + count > n /\ top[n] = 0
    THEN current_coverage + (n - num_entries) * size
    ELSE top[n]

Entry ==
    /\ left # {}
    /\ LET size  == Max(left)
           count == hist[size]
           first == {p \in Percents :
                        /\ Reaches(p, current_coverage + size * count)
                        /\ needed[p] = 0}
       IN  /\ top' = [n \in Tops |-> TopAfter(n, size, count)]
           /\ needed' = [p \in Percents |->
                  IF p \in first THEN num_entries + Required(p, size)
                                 ELSE needed[p]]
           /\ reached' = [p \in Percents |->
                  IF p \in first
                  THEN ToWord(current_coverage + Required(p, size) * size)
                  ELSE reached[p]]
           /\ num_entries' = num_entries + count
           /\ current_coverage' = current_coverage + size * count
           /\ left' = left \ {size}
    /\ UNCHANGED <<hist, total, printed>>

\* Fewer runs than n: they are all among the n longest.
PrintReport ==
    /\ left = {} /\ ~printed
    /\ top' = [n \in Tops |-> IF num_entries <= n THEN current_coverage
                                                  ELSE top[n]]
    /\ printed' = TRUE
    /\ UNCHANGED <<hist, total, left, num_entries, current_coverage, needed,
                   reached>>

Next == Entry \/ PrintReport

Spec == Init /\ [][Next]_vars
-----------------------------------------------------------------------------
(* What the numbers mean                                                   *)

\* The runs of length s among the n longest, and the pages of the n longest.
Longer(s) == SumFunctionOnSet(hist, {t \in DOMAIN hist : t > s})
Taken(s, n) == Min({hist[s], Max({0, n - Longer(s)})})
Longest(n) == SumFunction([s \in DOMAIN hist |-> s * Taken(s, n)])
Runs == SumFunction(hist)

\* "N entries coverage" is the sum of the N longest runs.
TopCoverage == printed => \A n \in Tops : top[n] = Longest(n)

\* n is the least number of runs that cover p percent.
Fewest(p, n) ==
    /\ 100 * Longest(n) >= p * total
    /\ \A fewer \in 0 .. n - 1 : 100 * Longest(fewer) < p * total

\* A float may not tell these pages from p percent: they are at most half a
\* page off, and exactly p percent if the total is below FloatExact/50.
IsClose(p, pages) ==
    LET off == FloatExact * (100 * pages - p * total)
    IN  -50 * total <= off /\ off <= 50 * total

\* "Number of entries for at least p percent coverage", if no number of pages
\* is beyond FloatExact: the least number of runs that covers p percent, and
\* the exact coverage is theirs; both are zero if all the runs of the histogram
\* do not get there.  Runs that a float does not tell from p percent may count
\* as less or as more: all of them (nothing is printed for exactly 90 percent),
\* or those before the last one that is needed, which is taken for as long as
\* they are.
FewestEntries ==
    LET all == Longest(Runs)
    IN  printed /\ total <= FloatExact /\ all <= FloatExact =>
        \A p \in Percents :
            \/ /\ needed[p] = 0 /\ reached[p] = 0
               /\ 100 * all < p * total \/ IsClose(p, all)
            \/ /\ Fewest(p, needed[p])
               /\ \/ reached[p] = Longest(needed[p])
                  \/ IsClose(p, Longest(needed[p] - 1))
            \/ /\ needed[p] = Runs + 1
               /\ 100 * all < p * total /\ IsClose(p, all)
=============================================================================
