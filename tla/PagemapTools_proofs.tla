-------------------------- MODULE PagemapTools_proofs --------------------------
(***************************************************************************)
(* Proofs about PagemapTools: what find_overlapping_subvmas.py may remove  *)
(* and when a removal fails; which pages print_stats.py says are placed    *)
(* well, and the totals it prints; and that the sizes of the overlaps are  *)
(* what the ranges of calc_optimal_results.py are short of.                *)
(***************************************************************************)
EXTENDS OptimalRanges_proofs, PagemapTools

-----------------------------------------------------------------------------
(* The ranges of find_overlapping_subvmas.py are those of                  *)
(* calc_optimal_results.py.                                                *)

LEMMA OverCardinality == ASSUME NEW S PROVE Over!Cardinality(S) = Cardinality(S)
  BY DEF Over!Cardinality, Cardinality

LEMMA OverReads ==
    /\ \A f, c : Over!RangeOf(f, c) = RangeOf(f, c)
    /\ \A f : Over!Valid(f) = Valid(f)
    /\ \A f, c, d : Over!Before(f, c, d) = Before(f, c, d)
    /\ \A f : Over!Sorted(f) = Sorted(f)
    /\ \A c : Over!FramesOf(c) =
                   RangeOf(file, c).pst .. RangeOf(file, c).pend - 1
<1>1. ASSUME NEW f, NEW c PROVE Over!RangeOf(f, c) = RangeOf(f, c)
  BY DEF Over!RangeOf, RangeOf, Over!RangeStart, RangeStart, Over!RangeEnd,
         RangeEnd
<1>2. ASSUME NEW f PROVE Over!Valid(f) = Valid(f)
  BY DEF Over!Valid, Valid, Over!RangeStart, RangeStart, Over!RangeEnd, RangeEnd
<1>3. ASSUME NEW f, NEW c, NEW d PROVE Over!Before(f, c, d) = Before(f, c, d)
  BY <1>1 DEF Over!Before, Before
<1>4. ASSUME NEW f PROVE Over!Sorted(f) = Sorted(f)
  <2> DEFINE S == [1 .. Cardinality(Valid(f)) -> Valid(f)]
             R == [1 .. Over!Cardinality(Over!Valid(f)) -> Over!Valid(f)]
             P(s) == \A m, n \in DOMAIN s : m < n => Before(f, s[m], s[n])
             Q(s) == \A m, n \in DOMAIN s : m < n => Over!Before(f, s[m], s[n])
  <2>1. Sorted(f) = {s \in S : P(s)}
    BY DEF Sorted
  <2>2. Over!Sorted(f) = {s \in R : Q(s)}
    BY DEF Over!Sorted
  <2>3. \A s : P(s) <=> Q(s)
    BY <1>3
  <2>4. R = S
    BY <1>2, OverCardinality
  <2> HIDE DEF R, S, P, Q
  <2> QED
    BY <2>1, <2>2, <2>3, <2>4
<1>5. ASSUME NEW c
      PROVE  Over!FramesOf(c) =
                 RangeOf(file, c).pst .. RangeOf(file, c).pend - 1
  BY <1>1 DEF Over!FramesOf
<1> QED
  BY <1>1, <1>2, <1>3, <1>4, <1>5

-----------------------------------------------------------------------------
(* find_overlapping_subvmas.py                                             *)

\* The frames of c are frames of d.
Lies(c, d) ==
    /\ RangeOf(file, d).pst <= RangeOf(file, c).pst
    /\ RangeOf(file, c).pend <= RangeOf(file, d).pend

\* d keeps the frames of c: of two equal ranges, the first does.
InnerOf(c, d) == Lies(c, d) /\ (Lies(d, c) => Before(file, d, c))

\* One of the pair lies in the other.
FoundAt(c, a, b) ==
    \/ c = pfn_ranges[b] /\ InnerOf(c, pfn_ranges[a])
    \/ c = pfn_ranges[a] /\ InnerOf(c, pfn_ranges[b])

\* The pairs that are compared.
Earlier(a, b) == a < over_i \/ (a = over_i /\ b < over_j)

OverTypeOK ==
    /\ file \in Seq(Vma)
    /\ over_pc \in {"walk", "remove", "done", "error"}
    /\ walk \in {1, 2} /\ (walk = 2 => over_pc \in {"walk", "done"})
    /\ over_i \in Nat \ {0} /\ over_j \in Nat /\ over_i < over_j
    /\ over_k \in Nat \ {0}
    /\ to_remove \in Seq(Valid(file))

Listed(c)      == \E n \in DOMAIN to_remove : to_remove[n] = c
ListedTwice(c) == \E n, m \in DOMAIN to_remove :
                      n # m /\ to_remove[n] = c /\ to_remove[m] = c

\* What is on the list was found by comparing two ranges.
WasFound(c) ==
    \E a, b \in DOMAIN pfn_ranges : a < b /\ Earlier(a, b) /\ FoundAt(c, a, b)
Walking ==
    /\ pfn_ranges \in Sorted(file)
    /\ over_pc = "walk" =>
           /\ svmas = file /\ over_k = 1
           /\ \A c : Listed(c) => WasFound(c)
Found == walk = 1 => Walking

\* Each of them lies in another range, and in two if it is there twice.
HasOuter(c) == \E d \in Valid(file) : InnerOf(c, d)
TwoOuter(c) ==
    \E d, e \in Valid(file) \ {c} : d # e /\ Lies(c, d) /\ Lies(c, e)
Covered == /\ \A c : Listed(c) => HasOuter(c)
           /\ \A c : ListedTwice(c) => TwoOuter(c)

ListInv == OverTypeOK /\ Found /\ Covered

LEMMA ToolsKeepFile == [ToolsNext]_<<vars, overVars, printVars>> => file' = file
<1> SUFFICES ASSUME ToolsNext
             PROVE  file' = file
  BY DEF vars
<1>1. CASE FindOverlapping
  BY <1>1 DEF FindOverlapping, vars
<1>2. CASE CalcOptimal
  BY <1>2 DEF CalcOptimal, Next, Fail, Start, Join, JoinBreak, Joined, FixOne,
      FixI, FixIIa, FixIIb, FixIIIia, FixIIIib, FixIIIic, FixIIIiia, FixIIIiib,
      FixIIIiic, Fix, Fixed
<1>3. CASE PrintFile
  BY <1>3 DEF PrintFile, vars
<1> QED
  BY <1>1, <1>2, <1>3 DEF ToolsNext

LEMMA ValidPlace ==
    ASSUME NEW f \in Seq(Vma), NEW c \in Valid(f)
    PROVE  /\ c = <<c[1], c[2]>>
           /\ c[1] \in DOMAIN f /\ c[1] \in Int
           /\ f[c[1]] \in Vma /\ f[c[1]].subVMAs \in Seq(SubVma)
           /\ c[2] \in DOMAIN f[c[1]].subVMAs /\ c[2] \in Int
           /\ RangeStart(f[c[1]], c[2]) < RangeEnd(f[c[1]], c[2])
<1>1. PICK v \in DOMAIN f :
          c \in {<<v, k>> : k \in {j \in DOMAIN f[v].subVMAs :
                                       RangeStart(f[v], j) < RangeEnd(f[v], j)}}
  BY DEF Valid
<1>2. PICK k \in DOMAIN f[v].subVMAs :
          RangeStart(f[v], k) < RangeEnd(f[v], k) /\ c = <<v, k>>
  BY <1>1
<1>3. v \in Int /\ f[v] \in Vma
  OBVIOUS
<1>4. f[v].subVMAs \in Seq(SubVma)
  BY <1>3 DEF Vma
<1>5. k \in Int
  BY <1>4
<1> QED
  BY <1>2, <1>3, <1>4, <1>5

LEMMA SortedIsList ==
    ASSUME NEW f \in Seq(Vma), NEW s \in Sorted(f)
    PROVE  /\ Len(s) \in Nat /\ DOMAIN s = 1 .. Len(s) /\ DOMAIN s \subseteq Int
           /\ \A a \in DOMAIN s : s[a] \in Valid(f)
           /\ \A a, b \in DOMAIN s : a < b => Before(f, s[a], s[b])
<1> DEFINE n == Cardinality(Valid(f))
<1>1. n \in Nat
  BY ValidIsFinite, FS_CardinalityType
<1>2. s \in [1 .. n -> Valid(f)]
  BY DEF Sorted
<1>3. Len(s) = n
  BY <1>1, <1>2
<1> QED
  BY <1>1, <1>2, <1>3 DEF Sorted

\* No range is on the list twice.
LEMMA SortedApart ==
    ASSUME NEW f \in Seq(Vma), NEW s \in Sorted(f), NEW a \in DOMAIN s,
           NEW b \in DOMAIN s, a # b
    PROVE  s[a] # s[b]
<1>1. a \in Int /\ b \in Int /\ s[a] \in Valid(f)
  BY SortedIsList
<1>2. \A c \in Valid(f) : ~Before(f, c, c)
  <2> SUFFICES ASSUME NEW c \in Valid(f)
               PROVE  ~Before(f, c, c)
    OBVIOUS
  <2>1. RangeOf(f, c).pst \in Int
    BY RangeOfIsARange DEF PfnRange
  <2>2. c[1] \in Int /\ c[2] \in Int
    BY ValidPlace
  <2> QED
    BY <2>1, <2>2 DEF Before
<1>3. a < b \/ b < a
  BY <1>1
<1> QED
  BY <1>1, <1>2, <1>3, SortedIsList

LEMMA FoundIsInner ==
    ASSUME NEW s \in Sorted(file), pfn_ranges = s, file \in Seq(Vma),
           NEW a \in DOMAIN s, NEW b \in DOMAIN s, a < b, NEW c,
           FoundAt(c, a, b)
    PROVE  /\ c = s[a] \/ c = s[b]
           /\ c \in Valid(file) /\ s[a] \in Valid(file) /\ s[b] \in Valid(file)
           /\ c = s[a] => Lies(c, s[b]) /\ InnerOf(c, s[b])
           /\ c = s[b] => Lies(c, s[a]) /\ InnerOf(c, s[a])
<1>1. s[a] \in Valid(file) /\ s[b] \in Valid(file)
  BY DEF Sorted
<1>2. s[a] # s[b]
  <2>1. a # b
    <3>1. a \in Int /\ b \in Int
      BY SortedIsList
    <3> QED
      BY <3>1
  <2> QED
    BY <2>1, SortedApart
<1>3. \/ c = s[b] /\ InnerOf(c, s[a])
      \/ c = s[a] /\ InnerOf(c, s[b])
  BY DEF FoundAt
<1> QED
  BY <1>1, <1>2, <1>3 DEF InnerOf

\* What is appended lies in the other range of the pair.
LEMMA OverlapFinds ==
    ASSUME ListInv, Over!Overlap
    PROVE  \/ to_remove' = to_remove
           \/ /\ walk = 1
              /\ over_i \in DOMAIN pfn_ranges /\ over_j \in DOMAIN pfn_ranges
              /\ \E c \in Valid(file) : /\ to_remove' = Append(to_remove, c)
                                        /\ FoundAt(c, over_i, over_j)
<1> SUFFICES ASSUME walk = 1, to_remove' # to_remove
             PROVE  /\ over_i \in DOMAIN pfn_ranges
                    /\ over_j \in DOMAIN pfn_ranges
                    /\ \E c \in Valid(file) :
                           /\ to_remove' = Append(to_remove, c)
                           /\ FoundAt(c, over_i, over_j)
  BY DEF Over!Overlap
<1> DEFINE s == pfn_ranges
<1>1. /\ file \in Seq(Vma) /\ s \in Sorted(file) /\ svmas = file
      /\ over_i \in Nat \ {0} /\ over_j \in Nat /\ over_i < over_j
      /\ to_remove \in Seq(Valid(file))
  BY DEF ListInv, OverTypeOK, Found, Walking, Over!Overlap, Over!Pair
<1>3. Len(s) \in Nat /\ DOMAIN s = 1 .. Len(s)
  BY <1>1, SortedIsList
<1>4. over_i \in DOMAIN s /\ over_j \in DOMAIN s
  BY <1>1, <1>3 DEF Over!Overlap, Over!Pair
<1> DEFINE x == s[over_i]
           y == s[over_j]
<1>5. x \in Valid(file) /\ y \in Valid(file) /\ Before(file, x, y)
  BY <1>1, <1>4, SortedIsList
<1>6. Over!Outer = RangeOf(file, x) /\ Over!Other = RangeOf(file, y)
  BY <1>1, OverReads DEF Over!Outer, Over!Other
<1>7. to_remove' = to_remove \o Over!inner_range
  BY DEF Over!Overlap
<1> HIDE DEF x, y
<1>8. \/ Over!inner_range = <<y>> /\ Lies(y, x)
      \/ Over!inner_range = <<x>> /\ Lies(x, y) /\ ~Lies(y, x)
      \/ Over!inner_range = <<>>
  <2>1. /\ RangeOf(file, x).pst \in Int /\ RangeOf(file, x).pend \in Int
        /\ RangeOf(file, y).pst \in Int /\ RangeOf(file, y).pend \in Int
    BY <1>1, <1>5, RangeOfIsARange DEF PfnRange
  <2> QED
    BY <1>6, <2>1 DEF Over!inner_range, Lies, x, y
<1>9. to_remove \o <<>> = to_remove
  BY <1>1, ConcatEmptySeq
<1>10. CASE Over!inner_range = <<y>> /\ Lies(y, x)
  <2>1. to_remove' = Append(to_remove, y)
    BY <1>1, <1>5, <1>7, <1>10, AppendIsConcat
  <2>2. FoundAt(y, over_i, over_j)
    BY <1>5, <1>10 DEF FoundAt, InnerOf, x, y
  <2> QED
    BY <1>4, <1>5, <2>1, <2>2
<1>11. CASE Over!inner_range = <<x>> /\ Lies(x, y) /\ ~Lies(y, x)
  <2>1. to_remove' = Append(to_remove, x)
    BY <1>1, <1>5, <1>7, <1>11, AppendIsConcat
  <2>2. FoundAt(x, over_i, over_j)
    BY <1>5, <1>11 DEF FoundAt, InnerOf, x, y
  <2> QED
    BY <1>4, <1>5, <2>1, <2>2
<1> QED
  BY <1>7, <1>8, <1>9, <1>10, <1>11

LEMMA InitListInv == ToolsInit => ListInv
<1> SUFFICES ASSUME ToolsInit
             PROVE  ListInv
  OBVIOUS
<1>1. file \in Seq(Vma)
  BY FilesAssumption DEF ToolsInit, Init
<1>2. /\ svmas = file /\ pfn_ranges \in Sorted(file) /\ over_pc = "walk"
      /\ walk = 1 /\ over_i = 1 /\ over_j = 2 /\ to_remove = <<>> /\ over_k = 1
  BY OverReads DEF ToolsInit, Over!Parsed
<1>3. DOMAIN to_remove = {} /\ to_remove \in Seq(Valid(file))
  BY <1>2
<1> QED
  BY <1>1, <1>2, <1>3 DEF ListInv, OverTypeOK, Found, Walking, Covered, Listed,
      ListedTwice

\* The parts that only the list and the file decide.
LEMMA CoveredStays ==
    ASSUME ListInv, file' = file, to_remove' = to_remove
    PROVE  Covered'
<1>1. \A c : Listed(c)' <=> Listed(c)
  BY DEF Listed
<1>2. \A c : ListedTwice(c)' <=> ListedTwice(c)
  BY DEF ListedTwice
<1>3. \A c : HasOuter(c)' <=> HasOuter(c)
  BY DEF HasOuter, InnerOf, Lies
<1>4. \A c : TwoOuter(c)' <=> TwoOuter(c)
  BY DEF TwoOuter, Lies
<1> QED
  BY <1>1, <1>2, <1>3, <1>4 DEF ListInv, Covered

LEMMA FoundStays ==
    ASSUME file' = file, pfn_ranges' = pfn_ranges, NEW c, NEW a, NEW b
    PROVE  FoundAt(c, a, b)' <=> FoundAt(c, a, b)
BY DEF FoundAt, InnerOf, Lies

LEMMA WalkGoesOn ==
    ASSUME ListInv, file' = file, to_remove' = to_remove, over_pc = "walk",
           UNCHANGED <<pfn_ranges, svmas, over_k, walk>>,
           \A a, b \in Int : Earlier(a, b) => Earlier(a, b)'
    PROVE  Found'
<1>1. \A c : Listed(c)' <=> Listed(c)
  BY DEF Listed
<1>2. ASSUME NEW c, WasFound(c), pfn_ranges \in Sorted(file)
      PROVE  WasFound(c)'
  <2>1. DOMAIN pfn_ranges \subseteq Int
    BY <1>2, SortedIsList DEF ListInv, OverTypeOK
  <2> QED
    BY <1>2, <2>1, FoundStays DEF WasFound
<1> QED
  BY <1>1, <1>2 DEF ListInv, Found, Walking

LEMMA ApartListInv == ListInv /\ file' = file /\ Over!Apart => ListInv'
<1> SUFFICES ASSUME ListInv, file' = file, Over!Apart
             PROVE  ListInv'
  OBVIOUS
<1> USE DEF Over!Apart, Over!Pair
<1>1. OverTypeOK'
  <2> USE DEF ListInv, OverTypeOK
  <2>1. over_j' \in Nat /\ over_i' < over_j'
    OBVIOUS
  <2>2. file' \in Seq(Vma) /\ to_remove' \in Seq(Valid(file'))
    OBVIOUS
  <2> QED
    BY <2>1, <2>2
<1>2. Found'
  <2>1. \A a, b \in Int : Earlier(a, b) => Earlier(a, b)'
    BY DEF Earlier, ListInv, OverTypeOK
  <2> QED
    BY <2>1, WalkGoesOn
<1> QED
  BY <1>1, <1>2, CoveredStays DEF ListInv

LEMMA NextRangeListInv == ListInv /\ file' = file /\ Over!NextRange => ListInv'
<1> SUFFICES ASSUME ListInv, file' = file, Over!NextRange
             PROVE  ListInv'
  OBVIOUS
<1> USE DEF Over!NextRange
<1>1. OverTypeOK'
  <2> USE DEF ListInv, OverTypeOK
  <2>1. over_i' \in Nat \ {0} /\ over_j' \in Nat /\ over_i' < over_j'
    OBVIOUS
  <2>2. file' \in Seq(Vma) /\ to_remove' \in Seq(Valid(file'))
    OBVIOUS
  <2> QED
    BY <2>1, <2>2
<1>2. Found'
  <2>1. \A a, b \in Int : Earlier(a, b) => Earlier(a, b)'
    BY DEF Earlier, ListInv, OverTypeOK
  <2> QED
    BY <2>1, WalkGoesOn
<1> QED
  BY <1>1, <1>2, CoveredStays DEF ListInv

\* The two ranges that c is found in at two pairs are two.
LEMMA FoundTwice ==
    ASSUME file \in Seq(Vma), pfn_ranges \in Sorted(file), NEW c,
           NEW a \in DOMAIN pfn_ranges, NEW b \in DOMAIN pfn_ranges, a < b,
           NEW x \in DOMAIN pfn_ranges, NEW y \in DOMAIN pfn_ranges, x < y,
           a # x \/ b # y, FoundAt(c, a, b), FoundAt(c, x, y)
    PROVE  TwoOuter(c)
<1> DEFINE s == pfn_ranges
<1>1. DOMAIN s \subseteq Int /\ \A n \in DOMAIN s : s[n] \in Valid(file)
  BY SortedIsList
<1>2. \A n, m \in DOMAIN s : n # m => s[n] # s[m]
  BY SortedApart
<1>3. \/ c = s[a] /\ Lies(c, s[b])
      \/ c = s[b] /\ Lies(c, s[a])
  BY FoundIsInner
<1>4. \/ c = s[x] /\ Lies(c, s[y])
      \/ c = s[y] /\ Lies(c, s[x])
  BY FoundIsInner
<1> HIDE DEF s
<1>5. a \in DOMAIN s /\ b \in DOMAIN s /\ x \in DOMAIN s /\ y \in DOMAIN s
  BY DEF s
<1>6. \E p, q, r \in DOMAIN s : /\ c = s[p] /\ p # q /\ p # r /\ q # r
                                /\ Lies(c, s[q]) /\ Lies(c, s[r])
  BY <1>1, <1>2, <1>3, <1>4, <1>5
<1> QED
  BY <1>1, <1>2, <1>6 DEF TwoOuter

LEMMA OverlapListInv == ListInv /\ file' = file /\ Over!Overlap => ListInv'
<1> SUFFICES ASSUME ListInv, file' = file, Over!Overlap
             PROVE  ListInv'
  OBVIOUS
<1>1. /\ over_pc = "walk" /\ over_j' = over_j + 1
      /\ UNCHANGED <<over_pc, walk, pfn_ranges, over_i, svmas, over_k>>
  BY DEF Over!Overlap, Over!Pair
<1>2. /\ file \in Seq(Vma) /\ to_remove \in Seq(Valid(file))
      /\ over_i \in Nat \ {0} /\ over_j \in Nat /\ over_i < over_j
  BY DEF ListInv, OverTypeOK
<1>3. \A a, b \in Int : Earlier(a, b) => Earlier(a, b)'
  BY <1>1, <1>2 DEF Earlier
<1>4. to_remove' \in Seq(Valid(file')) => OverTypeOK'
  <2>1. over_j' \in Nat /\ over_i' < over_j'
    BY <1>1, <1>2
  <2> QED
    BY <1>1, <2>1 DEF ListInv, OverTypeOK
<1>5. CASE to_remove' = to_remove
  BY <1>1, <1>2, <1>3, <1>4, <1>5, WalkGoesOn, CoveredStays DEF ListInv
<1>6. CASE to_remove' # to_remove
  <2>1. /\ walk = 1 /\ over_i \in DOMAIN pfn_ranges /\ over_j \in DOMAIN pfn_ranges
    BY <1>6, OverlapFinds
  <2>2. PICK x \in Valid(file) : /\ to_remove' = Append(to_remove, x)
                                 /\ FoundAt(x, over_i, over_j)
    BY <1>6, OverlapFinds
  <2>3. pfn_ranges \in Sorted(file) /\ svmas = file /\ over_k = 1
    BY <1>1, <2>1 DEF ListInv, Found, Walking
  <2>4. \A c : Listed(c) => WasFound(c)
    BY <1>1, <2>1 DEF ListInv, Found, Walking
  <2>5. to_remove' \in Seq(Valid(file'))
    BY <1>2, <2>2
  <2>6. \A n \in DOMAIN to_remove' :
            \/ n \in DOMAIN to_remove /\ to_remove'[n] = to_remove[n]
            \/ n = Len(to_remove) + 1 /\ to_remove'[n] = x
    BY <1>2, <2>2
  <2>7. ASSUME NEW c, Listed(c)' PROVE Listed(c) \/ c = x
    BY <2>6, <2>7 DEF Listed
  <2>8. ASSUME NEW c, ListedTwice(c)'
        PROVE  ListedTwice(c) \/ (Listed(c) /\ c = x)
    <3>1. PICK n, m \in DOMAIN to_remove' :
              n # m /\ to_remove'[n] = c /\ to_remove'[m] = c
      BY <2>8 DEF ListedTwice
    <3> QED
      BY <2>6, <3>1 DEF Listed, ListedTwice
  <2>9. DOMAIN pfn_ranges \subseteq Int
    BY <1>2, <2>3, SortedIsList
  <2>10. ASSUME NEW c, Listed(c)' PROVE WasFound(c)'
    <3>1. CASE Listed(c)
      <4>1. WasFound(c)
        BY <2>4, <3>1
      <4> QED
        BY <1>1, <1>3, <2>9, <4>1, FoundStays DEF WasFound
    <3>2. CASE c = x
      <4>1. \E a, b \in DOMAIN pfn_ranges :
                a < b /\ Earlier(a, b)' /\ FoundAt(c, a, b)
        <5>1. \A a, b \in Int : a = over_i /\ b = over_j => Earlier(a, b)'
          BY <1>1, <1>2 DEF Earlier
        <5> QED
          BY <1>2, <2>1, <2>2, <2>9, <3>2, <5>1
      <4> QED
        BY <1>1, <4>1, FoundStays DEF WasFound
    <3> QED
      BY <2>7, <2>10, <3>1, <3>2
  <2>11. Found'
    BY <1>1, <2>3, <2>10 DEF Found, Walking
  <2>12. ASSUME NEW c, Listed(c)' PROVE HasOuter(c)'
    <3>1. HasOuter(c)' <=> HasOuter(c)
      BY DEF HasOuter, InnerOf, Lies
    <3>2. CASE Listed(c)
      BY <3>1, <3>2 DEF ListInv, Covered
    <3>3. CASE c = x
      <4>1. HasOuter(c)
        BY <1>2, <2>1, <2>2, <2>3, <3>3, FoundIsInner DEF HasOuter
      <4> QED
        BY <3>1, <4>1
    <3> QED
      BY <2>7, <2>12, <3>2, <3>3
  <2>13. ASSUME NEW c, ListedTwice(c)' PROVE TwoOuter(c)'
    <3>1. TwoOuter(c)' <=> TwoOuter(c)
      BY DEF TwoOuter, Lies
    <3>2. CASE ListedTwice(c)
      BY <3>1, <3>2 DEF ListInv, Covered
    <3>3. CASE Listed(c) /\ c = x
      <4>1. PICK a, b \in DOMAIN pfn_ranges :
                a < b /\ Earlier(a, b) /\ FoundAt(c, a, b)
        BY <2>4, <3>3 DEF WasFound
      <4>2. a # over_i \/ b # over_j
        BY <1>2, <4>1 DEF Earlier
      <4>3. TwoOuter(c)
        BY <1>2, <2>1, <2>2, <2>3, <3>3, <4>1, <4>2, FoundTwice
      <4> QED
        BY <3>1, <4>3
    <3> QED
      BY <2>8, <2>13, <3>2, <3>3
  <2>14. Covered'
    BY <2>12, <2>13 DEF Covered
  <2> QED
    BY <1>4, <2>5, <2>11, <2>14 DEF ListInv
<1> QED
  BY <1>5, <1>6

\* The steps that leave the list and the ranges of the first walk alone.
LEMMA WalkEnds ==
    ASSUME ListInv, file' = file, to_remove' = to_remove,
           over_pc' \in {"walk", "remove", "done", "error"}, walk' \in {1, 2},
           walk' = 2 => over_pc' \in {"walk", "done"},
           walk' = 1 => over_pc' # "walk" /\ walk = 1 /\ pfn_ranges' = pfn_ranges,
           over_i' \in Nat \ {0}, over_j' \in Nat, over_i' < over_j',
           over_k' \in Nat \ {0}
    PROVE  ListInv'
<1>1. OverTypeOK'
  BY DEF ListInv, OverTypeOK
<1>2. Found'
  BY DEF ListInv, Found, Walking
<1> QED
  BY <1>1, <1>2, CoveredStays DEF ListInv

LEMMA NextListInv ==
    ListInv /\ [ToolsNext]_<<vars, overVars, printVars>> => ListInv'
<1> SUFFICES ASSUME ListInv, [ToolsNext]_<<vars, overVars, printVars>>
             PROVE  ListInv'
  OBVIOUS
<1>1. file' = file
  BY ToolsKeepFile
<1>2. /\ over_pc \in {"walk", "remove", "done", "error"} /\ walk \in {1, 2}
      /\ walk = 2 => over_pc \in {"walk", "done"}
      /\ over_i \in Nat \ {0} /\ over_j \in Nat /\ over_i < over_j
      /\ over_k \in Nat \ {0}
  BY DEF ListInv, OverTypeOK
<1>3. CASE UNCHANGED overVars
  <2> USE DEF overVars
  <2>1. CASE over_pc = "walk" /\ walk = 1
    <3>1. OverTypeOK'
      BY <1>1, <1>3 DEF ListInv, OverTypeOK
    <3>2. \A a, b \in Int : Earlier(a, b) => Earlier(a, b)'
      BY <1>3 DEF Earlier
    <3> QED
      BY <1>1, <1>3, <2>1, <3>1, <3>2, WalkGoesOn, CoveredStays DEF ListInv
  <2>2. CASE ~(over_pc = "walk" /\ walk = 1)
    BY <1>1, <1>2, <1>3, <2>2, WalkEnds
  <2> QED
    BY <2>1, <2>2
<1>4. CASE Over!Next
  <2>1. CASE Over!Apart
    BY <1>1, <2>1, ApartListInv
  <2>2. CASE Over!Overlap
    BY <1>1, <2>2, OverlapListInv
  <2>3. CASE Over!NextRange
    BY <1>1, <2>3, NextRangeListInv
  <2>4. CASE Over!Walked
    BY <1>1, <1>2, <2>4, WalkEnds DEF Over!Walked, Over!walker
  <2>5. CASE Over!RemoveOne
    BY <1>1, <1>2, <2>5, WalkEnds DEF Over!RemoveOne, Over!walker
  <2>6. CASE Over!RemoveFails
    BY <1>1, <1>2, <2>6, WalkEnds DEF Over!RemoveFails, Over!walker
  <2>7. CASE Over!WalkAgain
    BY <1>1, <1>2, <2>7, WalkEnds DEF Over!WalkAgain
  <2> QED
    BY <1>4, <2>1, <2>2, <2>3, <2>4, <2>5, <2>6, <2>7 DEF Over!Next
<1> QED
  BY <1>3, <1>4 DEF ToolsNext, FindOverlapping, CalcOptimal, PrintFile

Fr(c) == RangeOf(file, c).pst .. RangeOf(file, c).pend - 1

LEMMA LiesIsSubset ==
    ASSUME file \in Seq(Vma), NEW c \in Valid(file), NEW d \in Valid(file)
    PROVE  /\ Lies(c, d) <=> Fr(c) \subseteq Fr(d)
           /\ Lies(c, d) /\ Lies(d, c) <=> Fr(c) = Fr(d)
<1>1. /\ RangeOf(file, c).pst \in Int /\ RangeOf(file, c).pend \in Int
      /\ RangeOf(file, c).pst < RangeOf(file, c).pend
      /\ RangeOf(file, d).pst \in Int /\ RangeOf(file, d).pend \in Int
      /\ RangeOf(file, d).pst < RangeOf(file, d).pend
  BY RangeOfIsARange DEF PfnRange
<1>2. Lies(c, d) => Fr(c) \subseteq Fr(d)
  BY <1>1 DEF Lies, Fr
<1>3. Lies(d, c) => Fr(d) \subseteq Fr(c)
  BY <1>1 DEF Lies, Fr
<1>4. Fr(c) \subseteq Fr(d) => Lies(c, d)
  <2>1. /\ RangeOf(file, c).pst \in Fr(c)
        /\ RangeOf(file, c).pend - 1 \in Fr(c)
    BY <1>1 DEF Fr
  <2> QED
    BY <1>1, <2>1 DEF Lies, Fr
<1>5. Fr(d) \subseteq Fr(c) => Lies(d, c)
  <2>1. /\ RangeOf(file, d).pst \in Fr(d)
        /\ RangeOf(file, d).pend - 1 \in Fr(d)
    BY <1>1 DEF Fr
  <2> QED
    BY <1>1, <2>1 DEF Lies, Fr
<1> QED
  BY <1>2, <1>3, <1>4, <1>5

\* Some set of finitely many is in no larger one of them.
LEMMA LargestOne ==
    ASSUME NEW A, IsFiniteSet(A), A # {}, NEW F,
           \A c \in A : IsFiniteSet(F[c])
    PROVE  \E c \in A : \A d \in A : F[c] \subseteq F[d] => F[d] = F[c]
<1> DEFINE All == UNION {F[c] : c \in A}
           M(c) == Cardinality(All \ F[c])
           T == {M(c) : c \in A}
<1>1. IsFiniteSet(All)
  <2>1. IsFiniteSet({F[c] : c \in A})
    <3> DEFINE g == [c \in A |-> F[c]]
    <3>1. IsFiniteSet({g[c] : c \in A})
      <4>1. DOMAIN g = A
        OBVIOUS
      <4> HIDE DEF g
      <4> QED
        BY <4>1, ImageIsFinite
    <3> QED
      BY <3>1
  <2> QED
    BY <2>1, FS_UNION
<1> HIDE DEF All
<1>2. \A c \in A : IsFiniteSet(All \ F[c]) /\ M(c) \in Nat
  BY <1>1, FS_Difference, FS_CardinalityType
<1>3. PICK m \in T : \A n \in T : m <= n
  <2>1. T \subseteq Nat /\ T # {}
    BY <1>2
  <2> HIDE DEF T
  <2> QED
    BY <2>1, LeastNumber
<1>4. PICK c \in A : m = M(c)
  BY <1>3
<1>5. ASSUME NEW d \in A, F[c] \subseteq F[d]
      PROVE  F[d] = F[c]
  <2>1. All \ F[d] \in SUBSET (All \ F[c])
    BY <1>5
  <2>2. M(d) <= M(c) /\ (M(c) = M(d) => All \ F[c] = All \ F[d])
    BY <1>2, <2>1, FS_Subset
  <2>3. M(c) <= M(d)
    BY <1>3, <1>4
  <2>4. M(c) = M(d)
    BY <1>2, <2>2, <2>3
  <2>5. F[d] \subseteq All /\ F[c] \subseteq All
    BY DEF All
  <2> QED
    BY <2>2, <2>4, <2>5
<1> QED
  BY <1>5

\* Every frame that is asked for is asked for by a range not on the list.
LEMMA SomeStays ==
    ASSUME ListInv, NEW x \in Valid(file), NEW fr \in Fr(x)
    PROVE  \E e \in Valid(file) : fr \in Fr(e) /\ ~Listed(e)
<1> DEFINE A == {c \in Valid(file) : fr \in Fr(c)}
           F == [c \in A |-> Fr(c)]
<1>1. file \in Seq(Vma)
  BY DEF ListInv, OverTypeOK
<1>2. PICK c \in A : \A d \in A : Fr(c) \subseteq Fr(d) => Fr(d) = Fr(c)
  <2>1. A \in SUBSET Valid(file) /\ IsFiniteSet(Valid(file)) /\ x \in A
    BY <1>1, ValidIsFinite
  <2>2. IsFiniteSet(A) /\ A # {}
    BY <2>1, FS_Subset
  <2>3. ASSUME NEW d \in A PROVE IsFiniteSet(F[d])
    <3>1. RangeOf(file, d).pst \in Int /\ RangeOf(file, d).pend - 1 \in Int
      BY <1>1, RangeOfIsARange DEF PfnRange
    <3>2. IsFiniteSet(Fr(d))
      BY <3>1, FS_Interval DEF Fr
    <3> QED
      BY <3>2
  <2>4. \A d \in A : F[d] = Fr(d)
    OBVIOUS
  <2> HIDE DEF A, F
  <2>5. \E c \in A : \A d \in A : F[c] \subseteq F[d] => F[d] = F[c]
    BY <2>2, <2>3, LargestOne
  <2> QED
    BY <2>4, <2>5
\* Of those with the same frames, the first.
<1> DEFINE E == {d \in Valid(file) : Fr(d) = Fr(c)}
           V == {d[1] : d \in E}
<1>3. PICK v \in V : \A w \in V : v <= w
  <2>1. V \subseteq Nat /\ V # {}
    BY <1>1, ValidPlace
  <2> HIDE DEF V
  <2> QED
    BY <2>1, LeastNumber
<1> DEFINE K == {d[2] : d \in {d \in E : d[1] = v}}
<1>4. PICK k \in K : \A m \in K : k <= m
  <2>1. K \subseteq Nat /\ K # {}
    <3>1. \E d \in E : d[1] = v
      BY <1>3
    <3>2. \A d \in Valid(file) : d[2] \in Nat
      BY <1>1, ValidPlace
    <3> QED
      BY <3>1, <3>2
  <2> HIDE DEF K
  <2> QED
    BY <2>1, LeastNumber
<1>5. PICK e \in E : e[1] = v /\ e[2] = k
  BY <1>4
<1>6. ~Listed(e)
  <2> SUFFICES ASSUME Listed(e) PROVE FALSE
    OBVIOUS
  <2>1. PICK g \in Valid(file) : InnerOf(e, g)
    BY DEF ListInv, Covered, HasOuter
  <2>2. e \in Valid(file) /\ Fr(e) = Fr(c)
    OBVIOUS
  <2>3. Fr(e) \subseteq Fr(g)
    BY <1>1, <2>1, <2>2, LiesIsSubset DEF InnerOf
  <2>4. Fr(g) = Fr(c)
    BY <1>2, <2>2, <2>3
  <2>5. Before(file, g, e) /\ RangeOf(file, g).pst = RangeOf(file, e).pst
    <3>1. Lies(g, e) /\ Lies(e, g)
      BY <1>1, <2>2, <2>4, LiesIsSubset
    <3>2. RangeOf(file, g).pst \in Int /\ RangeOf(file, e).pst \in Int
      BY <1>1, <2>2, RangeOfIsARange DEF PfnRange
    <3> QED
      BY <2>1, <3>1, <3>2 DEF InnerOf, Lies
  <2>6. /\ g[1] \in Int /\ g[2] \in Int /\ e[1] \in Int /\ e[2] \in Int
        /\ RangeOf(file, e).pst \in Int
    BY <1>1, <2>2, ValidPlace, RangeOfIsARange DEF PfnRange
  <2>7. g[1] < e[1] \/ (g[1] = e[1] /\ g[2] < e[2])
    BY <2>5, <2>6 DEF Before
  <2>8. g \in E /\ g[1] \in V
    BY <2>4
  <2>9. g[1] = v => g[2] \in K
    BY <2>8
  <2>10. v <= g[1] /\ (g[1] = v => k <= g[2])
    BY <1>3, <1>4, <2>8, <2>9
  <2> QED
    BY <1>5, <2>6, <2>7, <2>10
<1>7. e \in Valid(file) /\ fr \in Fr(e)
  BY <1>2
<1> QED
  BY <1>6, <1>7

\* "returns subvmas which can be removed (inner ranges)"
\* (find_overlapping_subvmas.py:85): no frame is asked for by subVMAs on the
\* list only.
THEOREM InnerRangesMayGo == ToolsSpec => []InnerCanBeRemoved
<1>1. ListInv => InnerCanBeRemoved
  <2> SUFFICES ASSUME ListInv
               PROVE  Over!AllFrames(Over!Valid(file) \ Over!ToBeRemoved)
                          = Over!AllFrames(Over!Valid(file))
    BY DEF InnerCanBeRemoved, Over!InnerCanBeRemoved
  <2>1. Over!Valid(file) = Valid(file)
    BY OverReads
  <2>2. \A c : Over!FramesOf(c) = Fr(c)
    BY OverReads DEF Fr
  <2>3. \A c : c \in Over!ToBeRemoved <=> Listed(c)
    BY DEF Over!ToBeRemoved, Listed
  <2>4. \A C, fr : fr \in Over!AllFrames(C) <=> \E c \in C : fr \in Fr(c)
    BY <2>2 DEF Over!AllFrames
  <2>5. \A c \in Valid(file) : \A fr \in Fr(c) :
            \E e \in Valid(file) \ Over!ToBeRemoved : fr \in Fr(e)
    BY <2>3, SomeStays
  <2>6. \A fr : fr \in Over!AllFrames(Valid(file) \ Over!ToBeRemoved)
                    <=> fr \in Over!AllFrames(Valid(file))
    BY <2>4, <2>5
  <2> QED
    BY <2>1, <2>6
<1>2. ToolsSpec => []ListInv
  BY InitListInv, NextListInv, PTL DEF ToolsSpec
<1> QED
  BY <1>1, <1>2, PTL

-----------------------------------------------------------------------------
(* The removals                                                            *)

\* Where x is in a list.
Places(s, x) == {n \in DOMAIN s : s[n] = x}

ValueIn(f, c) == f[c[1]].subVMAs[c[2]]

\* The removals of x from VMA v before the k-th.
Used(f, list, k, v, x) ==
    {n \in DOMAIN list : n < k /\ list[n][1] = v /\ ValueIn(f, list[n]) = x}

\* What is left of a value in a VMA and what was removed is what was there.
Balance(f, s, list, k) ==
    \A v \in DOMAIN f : \A x \in SubVma :
        Cardinality(Places(s[v].subVMAs, x)) + Cardinality(Used(f, list, k, v, x))
            = Cardinality(Places(f[v].subVMAs, x))

LeftInv ==
    walk = 1 =>
        /\ svmas \in Seq(Vma) /\ DOMAIN svmas = DOMAIN file
        /\ over_pc = "walk" \/ over_k <= Len(to_remove) + 1
        /\ Balance(file, svmas, to_remove, over_k)
        /\ over_pc = "error" => /\ over_k <= Len(to_remove)
                                /\ ~Over!IsThere(to_remove[over_k])

LEMMA PlacesAreFinite ==
    ASSUME NEW T, NEW s \in Seq(T), NEW x
    PROVE  IsFiniteSet(Places(s, x)) /\ Cardinality(Places(s, x)) \in Nat
<1>1. DOMAIN s = 1 .. Len(s) /\ Len(s) \in Int /\ 1 \in Int
  OBVIOUS
<1>2. IsFiniteSet(DOMAIN s)
  BY <1>1, FS_Interval
<1>3. Places(s, x) \in SUBSET DOMAIN s
  BY DEF Places
<1> QED
  BY <1>2, <1>3, FS_Subset, FS_CardinalityType

LEMMA UsedIsFinite ==
    ASSUME NEW T, NEW list \in Seq(T), NEW f, NEW k, NEW v, NEW x
    PROVE  /\ IsFiniteSet(Used(f, list, k, v, x))
           /\ Cardinality(Used(f, list, k, v, x)) \in Nat
<1>1. DOMAIN list = 1 .. Len(list) /\ Len(list) \in Int /\ 1 \in Int
  OBVIOUS
<1>2. IsFiniteSet(DOMAIN list)
  BY <1>1, FS_Interval
<1>3. Used(f, list, k, v, x) \in SUBSET DOMAIN list
  BY DEF Used
<1> QED
  BY <1>2, <1>3, FS_Subset, FS_CardinalityType

\* The list without its p-th element.
Without(s, p) == SubSeq(s, 1, p - 1) \o SubSeq(s, p + 1, Len(s))

\* The VMAs with other subVMAs for one of them.
WithSubs(s, w, r) == [s EXCEPT ![w].subVMAs = r]

\* r has one place of x less than s.
OneLess(r, s, x) ==
    \A y : Cardinality(Places(r, y)) =
               Cardinality(Places(s, y)) - (IF y = x THEN 1 ELSE 0)

\* t differs from s in the subVMAs of w.
OneChanged(t, s, w, r) ==
    \A v \in DOMAIN s : t[v].subVMAs = IF v = w THEN r ELSE s[v].subVMAs

\* list.remove takes out one of the places.
LEMMA RemoveFirstIs ==
    ASSUME NEW T, NEW s \in Seq(T), NEW x, Places(s, x) # {}
    PROVE  \E p \in Places(s, x) :
               Over!RemoveFirst(s, x) = Without(s, p)
<1> DEFINE I == {n \in 1 .. Len(s) : s[n] = x}
<1>1. I = Places(s, x)
  BY DEF Places
<1>2. Over!RemoveFirst(s, x) = Over!RemoveAt(s, Over!Min(I))
  <2>1. \E n \in 1 .. Len(s) : s[n] = x
    BY <1>1
  <2>2. Over!SelectInSeq(s, LAMBDA v : v = x) = Over!Min(I)
    BY <2>1 DEF Over!SelectInSeq
  <2> QED
    BY <2>1, <2>2 DEF Over!RemoveFirst
<1>3. Over!Min(I) \in I
  <2>1. I \subseteq Nat /\ I # {}
    BY <1>1
  <2> HIDE DEF I
  <2>2. \E n \in I : \A m \in I : n <= m
    BY <2>1, LeastNumber
  <2> QED
    BY <2>2 DEF Over!Min
<1> HIDE DEF I
<1> QED
  BY <1>1, <1>2, <1>3 DEF Over!RemoveAt, Without

LEMMA CutOut ==
    ASSUME NEW T, NEW s \in Seq(T), NEW p \in DOMAIN s
    PROVE  /\ Without(s, p) \in Seq(T) /\ Len(Without(s, p)) = Len(s) - 1
           /\ \A n \in 1 .. Len(s) - 1 :
                  Without(s, p)[n] = IF n < p THEN s[n] ELSE s[n + 1]
<1> DEFINE a == SubSeq(s, 1, p - 1)
           b == SubSeq(s, p + 1, Len(s))
<1>1. p \in 1 .. Len(s) /\ Len(s) \in Nat
  OBVIOUS
<1>2. a \in Seq(T) /\ Len(a) = p - 1 /\ \A n \in 1 .. p - 1 : a[n] = s[n]
  BY <1>1
<1>3. /\ b \in Seq(T) /\ Len(b) = Len(s) - p
      /\ \A n \in 1 .. Len(s) - p : b[n] = s[p + n]
  BY <1>1
<1> HIDE DEF a, b
<1>4. /\ a \o b \in Seq(T) /\ Len(a \o b) = Len(s) - 1
      /\ \A n \in 1 .. Len(s) - 1 :
             (a \o b)[n] = IF n < p THEN a[n] ELSE b[n - (p - 1)]
  <2>1. /\ a \o b \in Seq(T) /\ Len(a \o b) = Len(a) + Len(b)
        /\ \A n \in 1 .. Len(a) + Len(b) :
               (a \o b)[n] = IF n <= Len(a) THEN a[n] ELSE b[n - Len(a)]
    BY <1>2, <1>3, ConcatProperties
  <2>2. Len(a) + Len(b) = Len(s) - 1
    BY <1>1, <1>2, <1>3
  <2>3. \A n \in 1 .. Len(s) - 1 : n <= Len(a) <=> n < p
    BY <1>1, <1>2
  <2> QED
    BY <1>2, <2>1, <2>2, <2>3
<1>5. \A n \in 1 .. Len(s) - 1 :
          (a \o b)[n] = IF n < p THEN s[n] ELSE s[n + 1]
  <2> SUFFICES ASSUME NEW n \in 1 .. Len(s) - 1
               PROVE  (a \o b)[n] = IF n < p THEN s[n] ELSE s[n + 1]
    OBVIOUS
  <2>1. n \in Int /\ p \in Int
    BY <1>1
  <2>2. CASE n < p
    <3>1. n \in 1 .. p - 1
      BY <2>1, <2>2
    <3> QED
      BY <1>2, <1>4, <2>2, <3>1
  <2>3. CASE ~(n < p)
    <3>1. n - (p - 1) \in 1 .. Len(s) - p /\ p + (n - (p - 1)) = n + 1
      BY <1>1, <2>1, <2>3
    <3>2. b[n - (p - 1)] = s[n + 1]
      BY <1>3, <3>1
    <3> QED
      BY <1>4, <2>3, <3>2
  <2> QED
    BY <2>2, <2>3
<1> QED
  BY <1>4, <1>5 DEF a, b, Without

LEMMA PlacesOfCut ==
    ASSUME NEW T, NEW s \in Seq(T), NEW p \in DOMAIN s, NEW t \in Seq(T),
           Len(t) = Len(s) - 1, NEW x,
           \A n \in 1 .. Len(s) - 1 : t[n] = IF n < p THEN s[n] ELSE s[n + 1]
    PROVE  Cardinality(Places(t, x)) =
               Cardinality(Places(s, x)) - (IF s[p] = x THEN 1 ELSE 0)
<1> DEFINE P == Places(t, x)
           Q == Places(s, x) \ {p}
           f == [n \in P |-> IF n < p THEN n ELSE n + 1]
<1>1. p \in 1 .. Len(s) /\ Len(s) \in Nat /\ DOMAIN t = 1 .. Len(s) - 1
  OBVIOUS
<1>2. \A n \in P : n \in 1 .. Len(s) - 1 /\ t[n] = x
  BY <1>1 DEF Places
<1>3. \A n \in 1 .. Len(s) - 1 : t[n] = x => n \in P
  BY <1>1 DEF Places
<1>4. \A n \in Q : n \in 1 .. Len(s) /\ s[n] = x /\ n # p
  BY DEF Places
<1>5. \A n \in 1 .. Len(s) : s[n] = x /\ n # p => n \in Q
  BY DEF Places
<1> HIDE DEF P, Q
<1>6. f \in [P -> Q]
  <2> SUFFICES ASSUME NEW n \in P
               PROVE  (IF n < p THEN n ELSE n + 1) \in Q
    OBVIOUS
  <2>1. n \in 1 .. Len(s) - 1 /\ t[n] = x
    BY <1>2
  <2> QED
    BY <1>1, <1>5, <2>1
<1>7. \A n, m \in P : f[n] = f[m] => n = m
  <2> SUFFICES ASSUME NEW n \in P, NEW m \in P, f[n] = f[m]
               PROVE  n = m
    OBVIOUS
  <2>1. n \in Int /\ m \in Int /\ p \in Int
    BY <1>1, <1>2
  <2> QED
    BY <2>1
<1>8. \A q \in Q : \E n \in P : f[n] = q
  <2> SUFFICES ASSUME NEW q \in Q
               PROVE  \E n \in P : f[n] = q
    OBVIOUS
  <2>1. q \in 1 .. Len(s) /\ s[q] = x /\ q # p
    BY <1>4
  <2>2. CASE q < p
    <3>1. q \in 1 .. Len(s) - 1 /\ t[q] = x
      BY <1>1, <2>1, <2>2
    <3>2. q \in P
      BY <1>3, <3>1
    <3> QED
      BY <2>2, <3>2
  <2>3. CASE q > p
    <3>1. q - 1 \in 1 .. Len(s) - 1 /\ ~(q - 1 < p) /\ (q - 1) + 1 = q
      BY <1>1, <2>1, <2>3
    <3>2. t[q - 1] = x
      BY <2>1, <3>1
    <3>3. q - 1 \in P
      BY <1>3, <3>1, <3>2
    <3> QED
      BY <3>1, <3>3
  <2> QED
    BY <1>1, <2>1, <2>2, <2>3
<1>9. f \in Surjection(P, Q) /\ f \in Injection(P, Q)
  <2> HIDE DEF f
  <2> QED
    BY <1>6, <1>7, <1>8 DEF Surjection, Injection, IsInjective
<1>10. IsFiniteSet(P) /\ IsFiniteSet(Places(s, x))
  BY PlacesAreFinite DEF P
<1> HIDE DEF f
<1>11. Cardinality(Q) = Cardinality(P)
  BY <1>9, <1>10, FS_Surjection
<1>12. Cardinality(Q) =
           Cardinality(Places(s, x)) - (IF s[p] = x THEN 1 ELSE 0)
  <2>1. p \in Places(s, x) <=> s[p] = x
    BY DEF Places
  <2>2. Cardinality(Places(s, x)) \in Nat
    BY PlacesAreFinite
  <2>3. Cardinality(Places(s, x) \ {p}) =
            IF p \in Places(s, x) THEN Cardinality(Places(s, x)) - 1
                                  ELSE Cardinality(Places(s, x))
    BY <1>10, FS_RemoveElement
  <2> QED
    BY <2>1, <2>2, <2>3 DEF Q
<1> QED
  BY <1>11, <1>12 DEF P

LEMMA BalanceAtStart ==
    ASSUME NEW f \in Seq(Vma), NEW T, NEW list \in Seq(T)
    PROVE  Balance(f, f, list, 1)
<1> SUFFICES ASSUME NEW v \in DOMAIN f, NEW x \in SubVma
             PROVE  Cardinality(Places(f[v].subVMAs, x))
                        + Cardinality(Used(f, list, 1, v, x))
                    = Cardinality(Places(f[v].subVMAs, x))
  BY DEF Balance
<1>1. Used(f, list, 1, v, x) = {}
  <2>1. \A n \in DOMAIN list : ~(n < 1)
    OBVIOUS
  <2> QED
    BY <2>1 DEF Used
<1>2. f[v].subVMAs \in Seq(SubVma)
  <2>1. f[v] \in Vma
    OBVIOUS
  <2> QED
    BY <2>1 DEF Vma
<1>3. Cardinality(Places(f[v].subVMAs, x)) \in Nat
  BY <1>2, PlacesAreFinite
<1>4. Cardinality(Used(f, list, 1, v, x)) = 0
  BY <1>1, FS_EmptySet
<1> QED
  BY <1>3, <1>4

LEMMA RemovedFirst ==
    ASSUME NEW T, NEW s \in Seq(T), NEW x, Places(s, x) # {},
           NEW r, r = Over!RemoveFirst(s, x)
    PROVE  r \in Seq(T) /\ OneLess(r, s, x)
<1>1. PICK p \in Places(s, x) : r = Without(s, p)
  BY RemoveFirstIs
<1>2. p \in DOMAIN s /\ s[p] = x
  BY DEF Places
<1>3. /\ r \in Seq(T) /\ Len(r) = Len(s) - 1
      /\ \A n \in 1 .. Len(s) - 1 : r[n] = IF n < p THEN s[n] ELSE s[n + 1]
  BY <1>1, <1>2, CutOut
<1>4. ASSUME NEW y
      PROVE  Cardinality(Places(r, y)) =
                 Cardinality(Places(s, y)) - (IF y = x THEN 1 ELSE 0)
  <2>1. Cardinality(Places(r, y)) =
            Cardinality(Places(s, y)) - (IF s[p] = y THEN 1 ELSE 0)
    BY <1>2, <1>3, PlacesOfCut
  <2> QED
    BY <1>2, <2>1
<1> QED
  BY <1>3, <1>4 DEF OneLess

LEMMA SubsOf ==
    ASSUME NEW f \in Seq(Vma), NEW v \in DOMAIN f
    PROVE  f[v] \in Vma /\ f[v].subVMAs \in Seq(SubVma)
<1>1. f[v] \in Vma
  OBVIOUS
<1> QED
  BY <1>1 DEF Vma

\* A VMA gets other subVMAs.
LEMMA OtherSubs ==
    ASSUME NEW s \in Seq(Vma), NEW w \in DOMAIN s, NEW r \in Seq(SubVma)
    PROVE  /\ WithSubs(s, w, r) \in Seq(Vma)
           /\ DOMAIN WithSubs(s, w, r) = DOMAIN s
           /\ OneChanged(WithSubs(s, w, r), s, w, r)
<1> DEFINE t == WithSubs(s, w, r)
           x == [s[w] EXCEPT !.subVMAs = r]
<1>1. x \in Vma /\ x.subVMAs = r
  <2>1. s[w] \in Vma
    OBVIOUS
  <2> QED
    BY <2>1 DEF Vma
<1>2. t = [s EXCEPT ![w] = x]
  BY DEF WithSubs
<1> HIDE DEF x, t
<1>3. t \in Seq(Vma) /\ DOMAIN t = DOMAIN s
  BY <1>1, <1>2
<1>4. \A v \in DOMAIN s : t[v] = IF v = w THEN x ELSE s[v]
  BY <1>2
<1> QED
  BY <1>1, <1>3, <1>4 DEF t, OneChanged

\* One removal takes out one place and counts as one.
LEMMA UsedOneMore ==
    ASSUME NEW T, NEW list \in Seq(T), NEW k \in DOMAIN list, NEW f, NEW v,
           NEW x
    PROVE  Cardinality(Used(f, list, k + 1, v, x)) =
               Cardinality(Used(f, list, k, v, x))
               + (IF list[k][1] = v /\ ValueIn(f, list[k]) = x THEN 1 ELSE 0)
<1> DEFINE U == Used(f, list, k, v, x)
<1>1. IsFiniteSet(U) /\ Cardinality(U) \in Nat /\ k \notin U /\ k \in Int
  <2>1. k \in Int
    OBVIOUS
  <2>2. k \notin U
    BY <2>1 DEF Used
  <2> HIDE DEF U
  <2> QED
    BY <2>1, <2>2, UsedIsFinite DEF U
<1>2. \A n \in DOMAIN list : n < k + 1 <=> n < k \/ n = k
  BY <1>1
<1>3. CASE list[k][1] = v /\ ValueIn(f, list[k]) = x
  <2>1. Used(f, list, k + 1, v, x) = U \cup {k}
    BY <1>2, <1>3 DEF Used
  <2> HIDE DEF U
  <2>2. Cardinality(U \cup {k}) = Cardinality(U) + 1
    BY <1>1, FS_AddElement
  <2> QED
    BY <1>3, <2>1, <2>2 DEF U
<1>4. CASE ~(list[k][1] = v /\ ValueIn(f, list[k]) = x)
  <2>1. Used(f, list, k + 1, v, x) = U
    BY <1>2, <1>4 DEF Used
  <2> QED
    BY <1>1, <1>4, <2>1
<1> QED
  BY <1>3, <1>4

LEMMA BalanceKept ==
    ASSUME NEW f \in Seq(Vma), NEW s \in Seq(Vma), DOMAIN s = DOMAIN f,
           NEW T, NEW list \in Seq(T), NEW k \in DOMAIN list,
           Balance(f, s, list, k),
           NEW w \in DOMAIN s, list[k][1] = w,
           NEW z, ValueIn(f, list[k]) = z,
           NEW t \in Seq(Vma),
           NEW r, OneLess(r, s[w].subVMAs, z), OneChanged(t, s, w, r)
    PROVE  Balance(f, t, list, k + 1)
<1> SUFFICES ASSUME NEW v \in DOMAIN f, NEW x \in SubVma
             PROVE  Cardinality(Places(t[v].subVMAs, x))
                        + Cardinality(Used(f, list, k + 1, v, x))
                    = Cardinality(Places(f[v].subVMAs, x))
  BY DEF Balance
<1> DEFINE one == IF v = w /\ x = z THEN 1 ELSE 0
<1>1. Cardinality(Places(s[v].subVMAs, x)) \in Nat
  BY SubsOf, PlacesAreFinite
<1>2. Cardinality(Places(t[v].subVMAs, x))
          = Cardinality(Places(s[v].subVMAs, x)) - one
  <2>1. CASE v = w
    BY <2>1 DEF OneLess, OneChanged
  <2>2. CASE v # w
    BY <1>1, <2>2 DEF OneChanged
  <2> QED
    BY <2>1, <2>2
<1>3. Cardinality(Used(f, list, k + 1, v, x))
          = Cardinality(Used(f, list, k, v, x)) + one
  BY UsedOneMore
<1>4. Cardinality(Used(f, list, k, v, x)) \in Nat
  BY UsedIsFinite
<1>5. Cardinality(Places(s[v].subVMAs, x)) + Cardinality(Used(f, list, k, v, x))
          = Cardinality(Places(f[v].subVMAs, x))
  BY DEF Balance
<1>6. one \in Nat
  OBVIOUS
<1> HIDE DEF one
<1> QED
  BY <1>1, <1>2, <1>3, <1>4, <1>5, <1>6

LEMMA RemoveOneLeftInv == ListInv /\ LeftInv /\ file' = file /\ Over!RemoveOne
                              => LeftInv'
<1> SUFFICES ASSUME ListInv, LeftInv, file' = file, Over!RemoveOne, walk = 1
             PROVE  LeftInv'
  BY DEF LeftInv, Over!RemoveOne, Over!walker
<1> DEFINE c == to_remove[over_k]
           w == c[1]
           z == ValueIn(file, c)
           r == Over!RemoveFirst(svmas[w].subVMAs, z)
<1>1. /\ over_pc = "remove" /\ over_k <= Len(to_remove)
      /\ over_k' = over_k + 1
      /\ UNCHANGED <<over_pc, walk, to_remove>>
  BY DEF Over!RemoveOne, Over!walker
<1>2. /\ Over!IsThere(c)
      /\ svmas' = [svmas EXCEPT ![w].subVMAs =
                      Over!RemoveFirst(@, Over!ValueOf(c))]
  BY DEF Over!RemoveOne
<1>3. /\ file \in Seq(Vma) /\ to_remove \in Seq(Valid(file))
      /\ over_k \in Nat \ {0}
  BY DEF ListInv, OverTypeOK
<1>4. /\ svmas \in Seq(Vma) /\ DOMAIN svmas = DOMAIN file
      /\ Balance(file, svmas, to_remove, over_k)
  BY DEF LeftInv
<1>5. over_k \in DOMAIN to_remove /\ c \in Valid(file)
  BY <1>1, <1>3
<1>6. Over!ValueOf(c) = z
  BY DEF Over!ValueOf, ValueIn
<1> HIDE DEF c
<1>7. w \in DOMAIN svmas
  BY <1>3, <1>4, <1>5, ValidPlace
<1>8. svmas[w].subVMAs \in Seq(SubVma)
  BY <1>4, <1>7, SubsOf
<1>9. Places(svmas[w].subVMAs, z) # {}
  BY <1>2, <1>6 DEF Over!IsThere, Over!VmaOf, Places
<1> HIDE DEF w, z
<1>10. svmas' = WithSubs(svmas, w, r)
  BY <1>2, <1>6, <1>7 DEF WithSubs
<1>11. r \in Seq(SubVma) /\ OneLess(r, svmas[w].subVMAs, z)
  BY <1>8, <1>9, RemovedFirst
<1> HIDE DEF r
<1>12. /\ svmas' \in Seq(Vma) /\ DOMAIN svmas' = DOMAIN svmas
       /\ OneChanged(svmas', svmas, w, r)
  BY <1>4, <1>7, <1>10, <1>11, OtherSubs
<1>13. to_remove[over_k][1] = w /\ ValueIn(file, to_remove[over_k]) = z
  BY DEF c, w, z
<1>14. Balance(file, svmas', to_remove, over_k + 1)
  BY <1>3, <1>4, <1>5, <1>7, <1>11, <1>12, <1>13, BalanceKept
<1> QED
  BY <1>1, <1>3, <1>4, <1>12, <1>14 DEF LeftInv

LEMMA LeftStays ==
    ASSUME LeftInv, file' = file,
           UNCHANGED <<over_pc, walk, svmas, to_remove, over_k>>
    PROVE  LeftInv'
<1>1. Over!IsThere(to_remove[over_k])' = Over!IsThere(to_remove[over_k])
  BY DEF Over!IsThere, Over!VmaOf, Over!ValueOf
<1> QED
  BY <1>1 DEF LeftInv

\* No removal before the end of the first walk.
LEMMA LeftInFirstWalk ==
    ASSUME ListInv, walk = 1 => over_pc = "walk"
    PROVE  LeftInv
<1>1. file \in Seq(Vma) /\ to_remove \in Seq(Valid(file))
  BY DEF ListInv, OverTypeOK
<1>2. walk = 1 => svmas = file /\ over_k = 1
  BY DEF ListInv, Found, Walking
<1>3. Balance(file, file, to_remove, 1)
  BY <1>1, BalanceAtStart
<1> QED
  BY <1>1, <1>2, <1>3 DEF LeftInv

LEMMA NextLeftInv ==
    ListInv /\ LeftInv /\ [ToolsNext]_<<vars, overVars, printVars>> => LeftInv'
<1> SUFFICES ASSUME ListInv, LeftInv,
                    [ToolsNext]_<<vars, overVars, printVars>>
             PROVE  LeftInv'
  OBVIOUS
<1>1. file' = file
  BY ToolsKeepFile
<1>2. ListInv'
  BY NextListInv
<1>3. ASSUME walk' = 1 => over_pc' = "walk"
      PROVE  LeftInv'
  <2>1. file' \in Seq(Vma) /\ to_remove' \in Seq(Valid(file'))
    BY <1>2 DEF ListInv, OverTypeOK
  <2>2. walk' = 1 => svmas' = file' /\ over_k' = 1
    BY <1>2, <1>3 DEF ListInv, Found, Walking
  <2>3. Balance(file', file', to_remove', 1)
    BY <2>1, BalanceAtStart
  <2> QED
    BY <1>3, <2>1, <2>2, <2>3 DEF LeftInv
<1>4. CASE UNCHANGED overVars
  BY <1>1, <1>4, LeftStays DEF overVars
<1>5. CASE Over!Next
  <2>1. CASE Over!Apart \/ Over!Overlap \/ Over!NextRange
    BY <1>3, <2>1 DEF Over!Apart, Over!Overlap, Over!NextRange, Over!Pair
  <2>2. CASE Over!Walked
    <3>1. over_pc = "walk" /\ over_pc' = IF walk = 1 THEN "remove" ELSE "done"
      BY <2>2 DEF Over!Walked
    <3>2. UNCHANGED <<walk, svmas, to_remove, over_k>>
      BY <2>2 DEF Over!Walked, Over!walker
    <3>3. walk = 1 => /\ file \in Seq(Vma) /\ to_remove \in Seq(Valid(file))
                      /\ over_k = 1
      BY <3>1 DEF ListInv, OverTypeOK, Found, Walking
    <3>4. walk = 1 => over_k <= Len(to_remove) + 1
      BY <3>3
    <3> QED
      BY <1>1, <3>1, <3>2, <3>4 DEF LeftInv
  <2>3. CASE Over!RemoveOne
    BY <1>1, <2>3, RemoveOneLeftInv
  <2>4. CASE Over!RemoveFails
    <3>1. /\ over_pc' = "error" /\ over_pc = "remove"
          /\ over_k <= Len(to_remove) /\ ~Over!IsThere(to_remove[over_k])
      BY <2>4 DEF Over!RemoveFails
    <3>2. UNCHANGED <<walk, svmas, to_remove, over_k>>
      BY <2>4 DEF Over!RemoveFails, Over!walker
    <3>3. Over!IsThere(to_remove[over_k])' = Over!IsThere(to_remove[over_k])
      BY <1>1, <3>2 DEF Over!IsThere, Over!VmaOf, Over!ValueOf
    <3> QED
      BY <1>1, <3>1, <3>2, <3>3 DEF LeftInv
  <2>5. CASE Over!WalkAgain
    BY <1>3, <2>5 DEF Over!WalkAgain
  <2> QED
    BY <1>5, <2>1, <2>2, <2>3, <2>4, <2>5 DEF Over!Next
<1> QED
  BY <1>4, <1>5 DEF ToolsNext, FindOverlapping, CalcOptimal, PrintFile

LEMMA InTwoOthersIs ==
    ASSUME file \in Seq(Vma), NEW c \in Valid(file), TwoOuter(c)
    PROVE  Over!InTwoOthers(c)
<1>1. PICK d \in Valid(file) \ {c} :
          \E e \in Valid(file) \ {c} : d # e /\ Lies(c, d) /\ Lies(c, e)
  BY DEF TwoOuter
<1>2. PICK e \in Valid(file) \ {c} : d # e /\ Lies(c, d) /\ Lies(c, e)
  BY <1>1
<1>3. Fr(c) \subseteq Fr(d) /\ Fr(c) \subseteq Fr(e)
  BY <1>2, LiesIsSubset
<1>4. \A x : Over!FramesOf(x) = Fr(x)
  BY OverReads DEF Fr
<1>5. Over!Valid(file) = Valid(file)
  BY OverReads
<1> QED
  BY <1>2, <1>3, <1>4, <1>5 DEF Over!InTwoOthers

\* More removals of a value than there are places for it: one place is on the
\* list twice.
LEMMA FailureIsNested ==
    ASSUME ListInv, LeftInv, over_pc = "error"
    PROVE  \E n \in 1 .. over_k :
               /\ to_remove[n][1] = to_remove[over_k][1]
               /\ Over!ValueOf(to_remove[n]) = Over!ValueOf(to_remove[over_k])
               /\ Over!InTwoOthers(to_remove[n])
<1> DEFINE c == to_remove[over_k]
           v == c[1]
           x == ValueIn(file, c)
           U == Used(file, to_remove, over_k, v, x)
           W == Used(file, to_remove, over_k + 1, v, x)
           P == Places(file[v].subVMAs, x)
<1>1. /\ file \in Seq(Vma) /\ to_remove \in Seq(Valid(file))
      /\ over_k \in Nat \ {0} /\ walk = 1
  BY DEF ListInv, OverTypeOK
<1>2. /\ svmas \in Seq(Vma) /\ DOMAIN svmas = DOMAIN file
      /\ Balance(file, svmas, to_remove, over_k)
      /\ over_k <= Len(to_remove) /\ ~Over!IsThere(c)
  BY <1>1 DEF LeftInv
<1>3. over_k \in DOMAIN to_remove /\ c \in Valid(file)
  BY <1>1, <1>2
<1>4. v \in DOMAIN file /\ x \in SubVma /\ file[v].subVMAs \in Seq(SubVma)
  <2>1. /\ c[1] \in DOMAIN file /\ file[c[1]].subVMAs \in Seq(SubVma)
        /\ c[2] \in DOMAIN file[c[1]].subVMAs
    BY <1>1, <1>3, ValidPlace
  <2> HIDE DEF c
  <2> QED
    BY <2>1 DEF ValueIn
<1>5. Cardinality(U) = Cardinality(P)
  <2>1. Places(svmas[v].subVMAs, x) = {}
    BY <1>2 DEF Over!IsThere, Over!VmaOf, Over!ValueOf, ValueIn, Places
  <2>2. Cardinality(Places(svmas[v].subVMAs, x)) = 0
    BY <2>1, FS_EmptySet
  <2>3. Cardinality(Places(svmas[v].subVMAs, x)) + Cardinality(U)
            = Cardinality(P)
    BY <1>2, <1>4 DEF Balance
  <2>4. Cardinality(U) \in Nat
    BY <1>1, UsedIsFinite
  <2> HIDE DEF U, P
  <2> QED
    BY <2>2, <2>3, <2>4
<1>6. Cardinality(W) = Cardinality(U) + 1
  BY <1>1, <1>3, UsedOneMore
<1>7. /\ IsFiniteSet(W) /\ IsFiniteSet(P) /\ Cardinality(P) \in Nat
  BY <1>1, <1>4, UsedIsFinite, PlacesAreFinite
<1>8. \A n \in W : /\ n \in DOMAIN to_remove /\ n < over_k + 1
                   /\ to_remove[n][1] = v /\ ValueIn(file, to_remove[n]) = x
  BY DEF Used
<1> DEFINE f == [n \in W |-> to_remove[n][2]]
<1>9. f \in [W -> P]
  <2> SUFFICES ASSUME NEW n \in W
               PROVE  to_remove[n][2] \in P
    OBVIOUS
  <2>1. to_remove[n] \in Valid(file)
    BY <1>1, <1>8
  <2>2. to_remove[n][2] \in DOMAIN file[v].subVMAs
    BY <1>1, <1>8, <2>1, ValidPlace
  <2>3. file[v].subVMAs[to_remove[n][2]] = x
    BY <1>8 DEF ValueIn
  <2> QED
    BY <2>2, <2>3 DEF Places
<1> HIDE DEF W, P, U
<1>10. \E n, m \in W : n # m /\ f[n] = f[m]
  <2>1. Cardinality(P) < Cardinality(W)
    BY <1>5, <1>6, <1>7
  <2> HIDE DEF f
  <2> QED
    BY <1>7, <1>9, <2>1, FS_PigeonHole
<1>11. PICK n, m \in W : n # m /\ f[n] = f[m]
  BY <1>10
<1>12. to_remove[n] \in Valid(file) /\ to_remove[m] \in Valid(file)
  BY <1>1, <1>8
<1>13. to_remove[n] = to_remove[m]
  <2>1. to_remove[n] = <<to_remove[n][1], to_remove[n][2]>>
    BY <1>1, <1>12, ValidPlace
  <2>2. to_remove[m] = <<to_remove[m][1], to_remove[m][2]>>
    BY <1>1, <1>12, ValidPlace
  <2>3. to_remove[n][1] = to_remove[m][1]
    BY <1>8
  <2>4. to_remove[n][2] = to_remove[m][2]
    BY <1>11
  <2> QED
    BY <2>1, <2>2, <2>3, <2>4
<1>14. ListedTwice(to_remove[n])
  BY <1>8, <1>11, <1>13 DEF ListedTwice
<1>15. Over!InTwoOthers(to_remove[n])
  BY <1>1, <1>12, <1>14, InTwoOthersIs DEF ListInv, Covered
<1>16. n \in 1 .. over_k
  BY <1>1, <1>8
<1>17. /\ to_remove[n][1] = c[1]
       /\ Over!ValueOf(to_remove[n]) = Over!ValueOf(c)
  BY <1>8 DEF Over!ValueOf, ValueIn
<1> QED
  BY <1>15, <1>16, <1>17

\* A removal fails only where a subVMA is in two others
\* (find_overlapping_subvmas.py:190-191).
THEOREM OnlyNestedFails == ToolsSpec => []FailsForNestedOnly
<1>1. ListInv /\ LeftInv => FailsForNestedOnly
  BY FailureIsNested DEF FailsForNestedOnly, Over!FailsForNestedOnly
<1>2. ToolsInit => ListInv /\ LeftInv
  <2>1. ToolsInit => (walk = 1 => over_pc = "walk")
    BY DEF ToolsInit, Over!Parsed
  <2> QED
    BY <2>1, InitListInv, LeftInFirstWalk
<1>3. (ListInv /\ LeftInv) /\ [ToolsNext]_<<vars, overVars, printVars>>
          => (ListInv /\ LeftInv)'
  BY NextListInv, NextLeftInv
<1> QED
  BY <1>1, <1>2, <1>3, PTL DEF ToolsSpec
-----------------------------------------------------------------------------
(* print_stats.py: the subVMA of a page                                    *)

LEMMA PrinterReads ==
    /\ \A f, vpn : Printer!find_vma(f, vpn) = find_vma(f, vpn)
    /\ \A vma, vpn, o : Printer!vaddr_in_right_subVMA(vma, vpn, o)
                            = vaddr_in_right_subVMA(vma, vpn, o)
    /\ \A f : Printer!create_ranges(f) = create_ranges(f)
<1>1. ASSUME NEW f, NEW vpn
      PROVE  Printer!find_vma(f, vpn) = find_vma(f, vpn)
  BY DEF Printer!find_vma, find_vma
<1>2. ASSUME NEW vma, NEW vpn
      PROVE  Printer!find_target_subVMA(vma, vpn) = find_target_subVMA(vma, vpn)
  BY DEF Printer!find_target_subVMA, find_target_subVMA
<1>3. ASSUME NEW vma, NEW vpn, NEW o
      PROVE  Printer!vaddr_in_right_subVMA(vma, vpn, o)
                 = vaddr_in_right_subVMA(vma, vpn, o)
  BY <1>2 DEF Printer!vaddr_in_right_subVMA, vaddr_in_right_subVMA
<1>4. ASSUME NEW f PROVE Printer!create_ranges(f) = create_ranges(f)
  BY DEF Printer!create_ranges, create_ranges, Printer!Valid, Valid,
         Printer!RangeOf, RangeOf, Printer!RangeStart, RangeStart,
         Printer!RangeEnd, RangeEnd
<1> QED
  BY <1>1, <1>3, <1>4

LEMMA FindVma ==
    ASSUME NEW f \in Seq(Vma), NEW vpn \in Nat, find_vma(f, vpn) # 0
    PROVE  /\ find_vma(f, vpn) \in DOMAIN f
           /\ f[find_vma(f, vpn)].start <= vpn /\ vpn < f[find_vma(f, vpn)].end
<1> DEFINE those == {v \in DOMAIN f : f[v].start <= vpn /\ vpn < f[v].end}
<1>1. those # {}
  BY DEF find_vma
<1>2. \E v \in those : \A w \in those : v <= w
  <2>1. those \subseteq Nat
    OBVIOUS
  <2> HIDE DEF those
  <2> QED
    BY <1>1, <2>1, LeastNumber
<1>3. find_vma(f, vpn) = CHOOSE v \in those : \A w \in those : v <= w
  BY <1>1 DEF find_vma
<1>4. find_vma(f, vpn) \in those
  <2> HIDE DEF those
  <2> QED
    BY <1>2, <1>3
<1> QED
  BY <1>4

Between(sub, vpn, m) ==
    /\ sub[m].vpn <= vpn /\ vpn < sub[m + 1].vpn
    /\ \A j \in 1 .. m - 1 : ~(sub[j].vpn <= vpn /\ vpn < sub[j + 1].vpn)
FirstBetween(sub, vpn) ==
    CHOOSE m \in 1 .. Len(sub) - 1 : Between(sub, vpn, m)

\* A page between the first and the last subVMA is between two that follow
\* each other.
LEMMA TargetBetween ==
    ASSUME NEW sub \in Seq(SubVma), NEW vpn \in Nat, sub # <<>>,
           sub[1].vpn <= vpn, vpn < sub[Len(sub)].vpn
    PROVE  \E m \in 1 .. Len(sub) - 1 : Between(sub, vpn, m)
<1> DEFINE n == Len(sub)
           B == {m \in 1 .. n : vpn < sub[m].vpn}
<1>1. n \in Nat /\ n >= 1
  BY EmptySeq
<1>2. \A m \in 1 .. n : sub[m].vpn \in Nat
  <2>1. \A m \in 1 .. n : sub[m] \in SubVma
    OBVIOUS
  <2> QED
    BY <2>1 DEF SubVma
<1>3. PICK b \in B : \A m \in B : b <= m
  <2>1. B \subseteq Nat /\ n \in B
    BY <1>1
  <2> HIDE DEF B
  <2> QED
    BY <2>1, LeastNumber
<1>4. b \in 1 .. n /\ vpn < sub[b].vpn
  BY <1>3
<1>5. \A m \in 1 .. b - 1 : sub[m].vpn <= vpn
  <2> SUFFICES ASSUME NEW m \in 1 .. b - 1
               PROVE  sub[m].vpn <= vpn
    OBVIOUS
  <2>1. m \in 1 .. n /\ m < b
    BY <1>1, <1>4
  <2>2. m \notin B
    BY <1>3, <1>4, <2>1
  <2> QED
    BY <1>2, <2>1, <2>2
<1>6. b - 1 \in 1 .. n - 1
  <2>1. b # 1
    BY <1>1, <1>2, <1>4
  <2> QED
    BY <1>1, <1>4, <2>1
<1>7. (b - 1) + 1 = b
  BY <1>4
<1>8. sub[b - 1].vpn <= vpn /\ vpn < sub[(b - 1) + 1].vpn
  BY <1>4, <1>5, <1>6, <1>7
<1>9. \A j \in 1 .. (b - 1) - 1 : ~(vpn < sub[j + 1].vpn)
  <2> SUFFICES ASSUME NEW j \in 1 .. (b - 1) - 1
               PROVE  ~(vpn < sub[j + 1].vpn)
    OBVIOUS
  <2>1. j + 1 \in 1 .. b - 1 /\ j + 1 \in 1 .. n
    BY <1>1, <1>4
  <2> QED
    BY <1>2, <1>5, <2>1
<1> QED
  BY <1>6, <1>8, <1>9 DEF Between

LEMMA TargetInside ==
    ASSUME NEW vma, NEW vpn, Len(vma.subVMAs) # 0,
           ~(vpn < vma.subVMAs[1].vpn),
           ~(vpn >= vma.subVMAs[Len(vma.subVMAs)].vpn)
    PROVE  find_target_subVMA(vma, vpn) = FirstBetween(vma.subVMAs, vpn)
BY DEF find_target_subVMA, FirstBetween, Between

\* The subVMA of a page is one of the VMA, and the last that starts at or
\* before the page, or the first.
LEMMA TargetIs ==
    ASSUME NEW vma \in Vma, NEW vpn \in Nat, vma.subVMAs # <<>>,
           NEW sub, sub = vma.subVMAs,
           NEW t, t = find_target_subVMA(vma, vpn)
    PROVE  /\ t \in 1 .. Len(sub)
           /\ t = 1 \/ sub[t].vpn <= vpn
           /\ t = Len(sub) \/ vpn < sub[t + 1].vpn \/ vpn < sub[1].vpn
<1> DEFINE n == Len(sub)
<1>1. sub \in Seq(SubVma)
  BY DEF Vma
<1>2. n \in Nat /\ n >= 1
  BY <1>1, EmptySeq
<1>3. \A m \in 1 .. n : sub[m].vpn \in Nat
  <2>1. \A m \in 1 .. n : sub[m] \in SubVma
    BY <1>1
  <2> QED
    BY <2>1 DEF SubVma
<1>4. CASE vpn < sub[1].vpn
  <2>1. t = 1
    BY <1>2, <1>4 DEF find_target_subVMA
  <2> QED
    BY <1>2, <1>4, <2>1
<1>5. CASE ~(vpn < sub[1].vpn) /\ vpn >= sub[n].vpn
  <2>1. t = n
    BY <1>2, <1>5 DEF find_target_subVMA
  <2> QED
    BY <1>2, <1>3, <1>5, <2>1
<1>6. CASE ~(vpn < sub[1].vpn) /\ ~(vpn >= sub[n].vpn)
  <2>1. t = FirstBetween(sub, vpn)
    BY <1>2, <1>6, TargetInside
  <2>2. \E m \in 1 .. n - 1 : Between(sub, vpn, m)
    <3>1. sub[1].vpn <= vpn /\ vpn < sub[n].vpn
      BY <1>2, <1>3, <1>6
    <3> QED
      BY <1>1, <3>1, TargetBetween
  <2>3. t \in 1 .. n - 1 /\ Between(sub, vpn, t)
    BY <2>1, <2>2 DEF FirstBetween
  <2>4. sub[t].vpn <= vpn /\ vpn < sub[t + 1].vpn
    BY <2>3 DEF Between
  <2> QED
    BY <1>2, <2>3, <2>4
<1> QED
  BY <1>4, <1>5, <1>6

\* The page is one of those the range of c is for.
HasPage(f, c, vpn) ==
    RangeStart(f[c[1]], c[2]) <= vpn /\ vpn < RangeEnd(f[c[1]], c[2])

LEMMA SubNumbers ==
    ASSUME NEW vma \in Vma
    PROVE  /\ vma.start \in Nat /\ vma.end \in Nat
           /\ vma.subVMAs \in Seq(SubVma) /\ Len(vma.subVMAs) \in Nat
           /\ \A m \in DOMAIN vma.subVMAs :
                  /\ vma.subVMAs[m].vpn \in Nat /\ vma.subVMAs[m].offset \in Int
           /\ DOMAIN vma.subVMAs = 1 .. Len(vma.subVMAs)
<1>1. vma.start \in Nat /\ vma.end \in Nat /\ vma.subVMAs \in Seq(SubVma)
  BY DEF Vma
<1>2. \A m \in DOMAIN vma.subVMAs : vma.subVMAs[m] \in SubVma
  BY <1>1
<1> QED
  BY <1>1, <1>2 DEF SubVma

\* A range is inside of its VMA.
LEMMA RangeInside ==
    ASSUME NEW vma \in Vma, NEW s \in DOMAIN vma.subVMAs
    PROVE  /\ RangeStart(vma, s) \in Nat /\ RangeStart(vma, s) >= vma.start
           /\ s # 1 => RangeStart(vma, s) >= vma.subVMAs[s].vpn
           /\ s # Len(vma.subVMAs) => s + 1 \in DOMAIN vma.subVMAs
           /\ RangeEnd(vma, s) \in Nat /\ RangeEnd(vma, s) <= vma.end
           /\ s # Len(vma.subVMAs) =>
                  RangeEnd(vma, s) <= vma.subVMAs[s + 1].vpn
<1>1. s \in 1 .. Len(vma.subVMAs)
  BY SubNumbers
<1>2. s # Len(vma.subVMAs) => s + 1 \in DOMAIN vma.subVMAs
  BY <1>1, SubNumbers
<1>3. /\ RangeStart(vma, s) \in Nat /\ RangeStart(vma, s) >= vma.start
      /\ s # 1 => RangeStart(vma, s) >= vma.subVMAs[s].vpn
  BY <1>1, SubNumbers DEF RangeStart
<1>4. /\ RangeEnd(vma, s) \in Nat /\ RangeEnd(vma, s) <= vma.end
      /\ s # Len(vma.subVMAs) => RangeEnd(vma, s) <= vma.subVMAs[s + 1].vpn
  BY <1>1, <1>2, SubNumbers DEF RangeEnd
<1> QED
  BY <1>2, <1>3, <1>4

\* The range of the subVMA that find_target_subVMA finds has the page.
LEMMA TargetHasPage ==
    ASSUME NEW vma \in Vma, NEW vpn \in Nat, vma.subVMAs # <<>>,
           vma.start <= vpn, vpn < vma.end,
           \A m, n \in DOMAIN vma.subVMAs :
               m <= n => vma.subVMAs[m].vpn <= vma.subVMAs[n].vpn,
           NEW t, t = find_target_subVMA(vma, vpn)
    PROVE  RangeStart(vma, t) <= vpn /\ vpn < RangeEnd(vma, t)
<1> DEFINE sub == vma.subVMAs
           n == Len(sub)
<1>1. /\ t \in 1 .. n
      /\ t = 1 \/ sub[t].vpn <= vpn
      /\ t = n \/ vpn < sub[t + 1].vpn \/ vpn < sub[1].vpn
  BY TargetIs
<1>2. n \in Nat /\ \A m \in 1 .. n : sub[m].vpn \in Nat
  BY SubNumbers
<1>3. t # n => t + 1 \in 1 .. n /\ sub[1].vpn <= sub[t + 1].vpn
  BY <1>1, <1>2, SubNumbers
<1>4. RangeStart(vma, t) <= vpn
  BY <1>1, <1>2 DEF RangeStart
<1>5. t # n => vpn < sub[t + 1].vpn
  BY <1>1, <1>2, <1>3
<1>6. vpn < RangeEnd(vma, t)
  BY <1>5, <1>3 DEF RangeEnd
<1> QED
  BY <1>4, <1>6

\* No other range of the VMA has it.
LEMMA OnlyTargetHasPage ==
    ASSUME NEW vma \in Vma, NEW vpn \in Nat, vma.subVMAs # <<>>,
           \A m, n \in DOMAIN vma.subVMAs :
               m <= n => vma.subVMAs[m].vpn <= vma.subVMAs[n].vpn,
           NEW t, t = find_target_subVMA(vma, vpn),
           NEW s \in DOMAIN vma.subVMAs,
           RangeStart(vma, s) <= vpn, vpn < RangeEnd(vma, s)
    PROVE  s = t
<1> DEFINE sub == vma.subVMAs
           n == Len(sub)
<1>1. /\ t \in 1 .. n
      /\ t = 1 \/ sub[t].vpn <= vpn
      /\ t = n \/ vpn < sub[t + 1].vpn \/ vpn < sub[1].vpn
  BY TargetIs
<1>2. n \in Nat /\ s \in 1 .. n /\ \A m \in 1 .. n : sub[m].vpn \in Nat
  BY SubNumbers
<1>3. \A l, m \in 1 .. n : l <= m => sub[l].vpn <= sub[m].vpn
  BY SubNumbers
<1>4. ~(t < s)
  <2> SUFFICES ASSUME t < s PROVE FALSE
    OBVIOUS
  <2>1. s # 1 /\ t # n /\ t + 1 \in 1 .. n /\ t + 1 <= s /\ 1 \in 1 .. n /\ 1 <= s
    BY <1>1, <1>2
  <2>2. sub[s].vpn <= vpn
    BY <1>2, <2>1, RangeInside
  <2>3. sub[t + 1].vpn <= vpn /\ sub[1].vpn <= vpn
    BY <1>2, <1>3, <2>1, <2>2
  <2> QED
    BY <1>1, <1>2, <2>1, <2>3
<1>5. ~(s < t)
  <2> SUFFICES ASSUME s < t PROVE FALSE
    OBVIOUS
  <2>1. s # n /\ t # 1 /\ s + 1 \in 1 .. n /\ s + 1 <= t
    BY <1>1, <1>2
  <2>2. vpn < sub[s + 1].vpn
    BY <1>2, <2>1, RangeInside
  <2>3. sub[s + 1].vpn <= sub[t].vpn
    BY <1>1, <1>3, <2>1
  <2> QED
    BY <1>1, <1>2, <2>1, <2>2, <2>3
<1> QED
  BY <1>1, <1>2, <1>4, <1>5

\* The page is at the frame that one of the ranges has for it.
InARange(f, vpn, pfn) ==
    \E r \in create_ranges(f) :
        /\ r.vst <= vpn /\ vpn < r.vend
        /\ pfn # 0
        /\ pfn - r.pst = vpn - r.vst

LEMMA InARangeIs ==
    ASSUME NEW f \in Seq(Vma), NEW vpn \in Nat, NEW pfn \in Nat
    PROVE  InARange(f, vpn, pfn) <=>
               \E c \in Valid(f) :
                   /\ HasPage(f, c, vpn) /\ pfn # 0
                   /\ f[c[1]].subVMAs[c[2]].offset = vpn - pfn
<1>1. \A c \in Valid(f) :
          LET r == RangeOf(f, c)
          IN  /\ r.vst <= vpn /\ vpn < r.vend
              /\ pfn - r.pst = vpn - r.vst
              <=>
              /\ HasPage(f, c, vpn)
              /\ f[c[1]].subVMAs[c[2]].offset = vpn - pfn
  <2> TAKE c \in Valid(f)
  <2>1. f[c[1]] \in Vma /\ c[2] \in DOMAIN f[c[1]].subVMAs
    BY ValidPlace
  <2>2. RangeStart(f[c[1]], c[2]) \in Nat /\ RangeEnd(f[c[1]], c[2]) \in Nat
    BY <2>1, RangeInside
  <2>3. f[c[1]].subVMAs[c[2]].offset \in Int
    BY <2>1, SubNumbers
  <2> DEFINE a == RangeStart(f[c[1]], c[2])
             o == f[c[1]].subVMAs[c[2]].offset
  <2>4. pfn - (a - o) = vpn - a <=> o = vpn - pfn
    <3>1. a \in Nat /\ o \in Int
      BY <2>2, <2>3
    <3> HIDE DEF a, o
    <3> QED
      BY <3>1
  <2>5. /\ RangeOf(f, c).pst = a - o /\ RangeOf(f, c).vst = a
        /\ RangeOf(f, c).vend = RangeEnd(f[c[1]], c[2])
    BY DEF RangeOf
  <2> QED
    BY <2>4, <2>5, Zenon DEF HasPage
<1> QED
  BY <1>1 DEF InARange, create_ranges

\* print_stats.py and calc_optimal_results.py agree on the place of a page.
LEMMA RightIsInARange ==
    ASSUME NEW f \in Seq(Vma), NEW vpn \in Nat, NEW pfn \in Nat \ {0},
           VmasApart(f), SubsInOrder(f), NEW v, v = find_vma(f, vpn), v # 0
    PROVE  vaddr_in_right_subVMA(f[v], vpn, vpn - pfn) <=> InARange(f, vpn, pfn)
<1>1. v \in DOMAIN f /\ f[v].start <= vpn /\ vpn < f[v].end
  BY FindVma
<1>2. f[v] \in Vma
  BY <1>1
<1>3. ASSUME NEW c \in Valid(f), HasPage(f, c, vpn)
      PROVE  /\ c = <<v, c[2]>> /\ c[2] \in DOMAIN f[v].subVMAs
             /\ RangeStart(f[v], c[2]) <= vpn /\ vpn < RangeEnd(f[v], c[2])
  <2>1. /\ c = <<c[1], c[2]>> /\ c[1] \in DOMAIN f /\ f[c[1]] \in Vma
        /\ c[2] \in DOMAIN f[c[1]].subVMAs
    BY ValidPlace
  <2>2. f[c[1]].start <= vpn /\ vpn < f[c[1]].end
    <3>1. /\ RangeStart(f[c[1]], c[2]) \in Nat /\ RangeEnd(f[c[1]], c[2]) \in Nat
          /\ RangeStart(f[c[1]], c[2]) >= f[c[1]].start
          /\ RangeEnd(f[c[1]], c[2]) <= f[c[1]].end
      BY <2>1, RangeInside
    <3>2. f[c[1]].start \in Nat /\ f[c[1]].end \in Nat
      BY <2>1, SubNumbers
    <3> QED
      BY <1>3, <3>1, <3>2 DEF HasPage
  <2>3. c[1] = v
    <3>1. /\ f[c[1]].start \in Nat /\ f[c[1]].end \in Nat
          /\ f[v].start \in Nat /\ f[v].end \in Nat
      BY <1>2, <2>1, SubNumbers
    <3>2. c[1] # v => f[v].end <= f[c[1]].start \/ f[c[1]].end <= f[v].start
      BY <1>1, <2>1 DEF VmasApart
    <3> QED
      BY <1>1, <2>2, <3>1, <3>2
  <2> QED
    BY <1>3, <2>1, <2>3 DEF HasPage
<1>4. CASE f[v].subVMAs = <<>>
  <2>1. ~vaddr_in_right_subVMA(f[v], vpn, vpn - pfn)
    BY <1>4 DEF vaddr_in_right_subVMA, find_target_subVMA
  <2>2. ~\E c \in Valid(f) : HasPage(f, c, vpn)
    BY <1>3, <1>4
  <2> QED
    BY <2>1, <2>2, InARangeIs
<1>5. CASE f[v].subVMAs # <<>>
  <2> DEFINE t == find_target_subVMA(f[v], vpn)
             c == <<v, t>>
  <2>1. t \in DOMAIN f[v].subVMAs /\ t # 0
    <3>1. t \in 1 .. Len(f[v].subVMAs)
      BY <1>2, <1>5, TargetIs
    <3> QED
      BY <1>2, <3>1, SubNumbers
  <2>2. \A m, n \in DOMAIN f[v].subVMAs :
            m <= n => f[v].subVMAs[m].vpn <= f[v].subVMAs[n].vpn
    BY <1>1 DEF SubsInOrder
  <2>3. RangeStart(f[v], t) <= vpn /\ vpn < RangeEnd(f[v], t)
    <3> HIDE DEF t
    <3>1. t = find_target_subVMA(f[v], vpn)
      BY DEF t
    <3> QED
      BY <1>1, <1>2, <1>5, <2>2, <3>1, TargetHasPage
  <2>4. c \in Valid(f) /\ HasPage(f, c, vpn)
    <3>1. RangeStart(f[v], t) < RangeEnd(f[v], t)
      BY <1>2, <2>1, <2>3, RangeInside
    <3> HIDE DEF t
    <3> QED
      BY <1>1, <2>1, <2>3, <3>1 DEF Valid, HasPage
  <2>5. \A d \in Valid(f) : HasPage(f, d, vpn) => d = c
    <3> SUFFICES ASSUME NEW d \in Valid(f), HasPage(f, d, vpn)
                 PROVE  d = c
      OBVIOUS
    <3>1. /\ d = <<v, d[2]>> /\ d[2] \in DOMAIN f[v].subVMAs
          /\ RangeStart(f[v], d[2]) <= vpn /\ vpn < RangeEnd(f[v], d[2])
      BY <1>3
    <3>2. d[2] = t
      <4> HIDE DEF t
      <4>1. t = find_target_subVMA(f[v], vpn)
        BY DEF t
      <4> QED
        BY <1>2, <1>5, <2>2, <3>1, <4>1, OnlyTargetHasPage
    <3> QED
      BY <3>1, <3>2
  <2>6. vaddr_in_right_subVMA(f[v], vpn, vpn - pfn) <=>
            f[v].subVMAs[t].offset = vpn - pfn
    BY <2>1 DEF vaddr_in_right_subVMA
  <2>7. c[1] = v /\ c[2] = t
    OBVIOUS
  <2> HIDE DEF c, t
  <2> QED
    BY <2>4, <2>5, <2>6, <2>7, InARangeIs
<1> QED
  BY <1>4, <1>5

-----------------------------------------------------------------------------
(* print_stats.py: the totals                                              *)

\* The sum of pairs that OffsetSum is.
IsPairSum(H, F, S) ==
    H = [s \in SUBSET S |->
            IF s = {} THEN <<0, 0>>
            ELSE <<H[s \ {First(s)}][1] + F[First(s)][1],
                   H[s \ {First(s)}][2] + F[First(s)][2]>>]
FirstOfPairs(F)  == [o \in DOMAIN F |-> F[o][1]]
SecondOfPairs(F) == [o \in DOMAIN F |-> F[o][2]]
Pairs(F) == IsFiniteSet(DOMAIN F) /\ \A o \in DOMAIN F : F[o] \in Nat \X Nat

SumStep(F, A, B, s) ==
    /\ First(s) \in s /\ s \ {First(s)} \in SUBSET DOMAIN F
    /\ A[s] = A[s \ {First(s)}] + F[First(s)][1]
    /\ B[s] = B[s \ {First(s)}] + F[First(s)][2]

LEMMA PairSumStep ==
    ASSUME NEW F, Pairs(F), NEW A, NEW B,
           IsSetSum(A, FirstOfPairs(F), DOMAIN F),
           IsSetSum(B, SecondOfPairs(F), DOMAIN F)
    PROVE  /\ A[{}] = 0 /\ B[{}] = 0
           /\ \A s \in SUBSET DOMAIN F : s # {} => SumStep(F, A, B, s)
<1> DEFINE D == DOMAIN F
           G == FirstOfPairs(F)
           K == SecondOfPairs(F)
<1>1. \A o \in D : /\ G[o] = F[o][1] /\ K[o] = F[o][2]
                   /\ G[o] \in Int /\ K[o] \in Int
  BY DEF FirstOfPairs, SecondOfPairs, Pairs
<1>2. IsSetSum(A, G, D) /\ IsSetSum(B, K, D) /\ IsFiniteSet(D)
  BY DEF Pairs
<1> HIDE DEF D, G, K
<1>3. \A s \in SUBSET D : A[s] \in Int /\ B[s] \in Int
  BY <1>1, <1>2, SetSumIsNumber
<1>4. A[{}] = 0 /\ B[{}] = 0
  BY <1>2 DEF IsSetSum
<1>5. \A s \in SUBSET D : s # {} =>
          /\ First(s) \in s /\ s \ {First(s)} \in SUBSET D
          /\ A[s] = G[First(s)] + A[s \ {First(s)}]
          /\ B[s] = K[First(s)] + B[s \ {First(s)}]
  <2> TAKE s \in SUBSET D
  <2>1. s # {} => First(s) \in s /\ s \ {First(s)} \in SUBSET D
    BY FirstOf
  <2>2. s # {} => A[s] = G[First(s)] + A[s \ {First(s)}]
    BY <1>2 DEF IsSetSum
  <2>3. s # {} => B[s] = K[First(s)] + B[s \ {First(s)}]
    BY <1>2 DEF IsSetSum
  <2> QED
    BY <2>1, <2>2, <2>3
<1>6. \A s \in SUBSET D : s # {} =>
          /\ First(s) \in s /\ s \ {First(s)} \in SUBSET D
          /\ A[s] = A[s \ {First(s)}] + F[First(s)][1]
          /\ B[s] = B[s \ {First(s)}] + F[First(s)][2]
  <2> TAKE s \in SUBSET D
  <2> HAVE s # {}
  <2>1. First(s) \in D /\ First(s) \in s /\ s \ {First(s)} \in SUBSET D
    BY <1>5
  <2>2. /\ A[s] = F[First(s)][1] + A[s \ {First(s)}]
        /\ B[s] = F[First(s)][2] + B[s \ {First(s)}]
    BY <1>1, <1>5, <2>1
  <2>3. /\ A[s \ {First(s)}] \in Int /\ B[s \ {First(s)}] \in Int
        /\ F[First(s)][1] \in Int /\ F[First(s)][2] \in Int
    BY <1>1, <1>3, <2>1
  <2> QED
    BY <2>1, <2>2, <2>3
<1> QED
  BY <1>4, <1>6 DEF D, SumStep

LEMMA PairSumExists ==
    ASSUME NEW F, Pairs(F)
    PROVE  \E H : IsPairSum(H, F, DOMAIN F)
<1> DEFINE D == DOMAIN F
<1>1. IsFiniteSet(D) /\ DOMAIN FirstOfPairs(F) = D /\ DOMAIN SecondOfPairs(F) = D
  BY DEF FirstOfPairs, SecondOfPairs, Pairs
<1>2. PICK A : IsSetSum(A, FirstOfPairs(F), D)
  BY <1>1, SetSumExists
<1>3. PICK B : IsSetSum(B, SecondOfPairs(F), D)
  BY <1>1, SetSumExists
<1> DEFINE H == [s \in SUBSET D |-> <<A[s], B[s]>>]
<1>4. /\ A[{}] = 0 /\ B[{}] = 0
      /\ \A s \in SUBSET D : s # {} => SumStep(F, A, B, s)
  BY <1>2, <1>3, PairSumStep, Zenon
<1>5. \A s \in SUBSET D :
          H[s] = IF s = {} THEN <<0, 0>>
                 ELSE <<H[s \ {First(s)}][1] + F[First(s)][1],
                        H[s \ {First(s)}][2] + F[First(s)][2]>>
  <2> TAKE s \in SUBSET D
  <2>1. CASE s = {}
    <3>1. A[s] = 0 /\ B[s] = 0
      BY <1>4, <2>1
    <3> QED
      BY <2>1, <3>1
  <2>2. CASE s # {}
    <3>1. SumStep(F, A, B, s)
      BY <1>4, <2>2
    <3>2. /\ H[s \ {First(s)}][1] = A[s \ {First(s)}]
          /\ H[s \ {First(s)}][2] = B[s \ {First(s)}]
      BY <3>1 DEF SumStep
    <3> QED
      BY <2>2, <3>1, <3>2 DEF SumStep
  <2> QED
    BY <2>1, <2>2
<1>6. H = [s \in SUBSET D |-> H[s]]
  OBVIOUS
<1> HIDE DEF H
<1>7. IsPairSum(H, F, D)
  BY <1>5, <1>6 DEF IsPairSum
<1> QED
  BY <1>7

LEMMA PairSumIs ==
    ASSUME NEW F, Pairs(F), NEW H, IsPairSum(H, F, DOMAIN F)
    PROVE  H[DOMAIN F] = <<SumFunction(FirstOfPairs(F)),
                           SumFunction(SecondOfPairs(F))>>
<1> DEFINE D == DOMAIN F
<1>1. IsFiniteSet(D) /\ DOMAIN FirstOfPairs(F) = D /\ DOMAIN SecondOfPairs(F) = D
  BY DEF FirstOfPairs, SecondOfPairs, Pairs
<1>2. PICK A : IsSetSum(A, FirstOfPairs(F), D)
                   /\ SumFunction(FirstOfPairs(F)) = A[D]
  BY <1>1, SumFunctionIsSetSum
<1>3. PICK B : IsSetSum(B, SecondOfPairs(F), D)
                   /\ SumFunction(SecondOfPairs(F)) = B[D]
  BY <1>1, SumFunctionIsSetSum
<1> DEFINE Same(s) == H[s] = <<A[s], B[s]>>
           T == {n \in Nat :
                    \A s \in SUBSET D : Cardinality(s) = n => Same(s)}
<1>4. H[{}] = <<0, 0>>
  BY DEF IsPairSum
<1>5. \A s \in SUBSET D : s # {} /\ Same(s \ {First(s)}) => Same(s)
  <2> TAKE s \in SUBSET D
  <2> HAVE s # {} /\ Same(s \ {First(s)})
  <2>1. SumStep(F, A, B, s)
    BY <1>2, <1>3, PairSumStep
  <2>2. H[s] = <<H[s \ {First(s)}][1] + F[First(s)][1],
                 H[s \ {First(s)}][2] + F[First(s)][2]>>
    BY DEF IsPairSum
  <2> QED
    BY <2>1, <2>2 DEF SumStep
<1>6. Same({})
  BY <1>2, <1>3, <1>4, PairSumStep
<1> HIDE DEF Same
<1>7. 0 \in T
  BY <1>1, <1>6, SizeOfSubset
<1>8. \A n \in Nat : n \in T => n + 1 \in T
  <2> SUFFICES ASSUME NEW n \in Nat, n \in T,
                      NEW s \in SUBSET D, Cardinality(s) = n + 1
               PROVE  Same(s)
    OBVIOUS
  <2>1. s # {}
    BY <1>1, SizeOfSubset
  <2> DEFINE x == First(s)
  <2>2. x \in s
    BY <2>1, FirstOf
  <2>3. s \ {x} \in SUBSET D /\ Cardinality(s \ {x}) = n
    <3>1. IsFiniteSet(s)
      BY <1>1, FS_Subset
    <3>2. Cardinality(s \ {x}) = Cardinality(s) - 1
      BY <2>2, <3>1, FS_RemoveElement
    <3>3. s \ {x} \in SUBSET D
      OBVIOUS
    <3> QED
      BY <3>2, <3>3
  <2> QED
    BY <1>5, <2>1, <2>3
<1>9. Same(D)
  <2>1. Cardinality(D) \in Nat
    BY <1>1, SizeOfSubset
  <2>2. Cardinality(D) \in T
    <3> HIDE DEF T
    <3> QED
      BY <1>7, <1>8, <2>1, NumbersOf
  <2> QED
    BY <2>2
<1> QED
  BY <1>2, <1>3, <1>9 DEF Same

LEMMA OffsetSumIs ==
    ASSUME Pairs(offsets)
    PROVE  Printer!OffsetSum[DOMAIN offsets] =
               <<SumFunction(FirstOfPairs(offsets)),
                 SumFunction(SecondOfPairs(offsets))>>
<1>1. \E H : IsPairSum(H, offsets, DOMAIN offsets)
  BY PairSumExists
<1>2. Printer!OffsetSum = CHOOSE H : IsPairSum(H, offsets, DOMAIN offsets)
  BY DEF Printer!OffsetSum, IsPairSum, First
<1>3. IsPairSum(Printer!OffsetSum, offsets, DOMAIN offsets)
  BY <1>1, <1>2
<1> QED
  BY <1>3, PairSumIs

SizesUpto(p, n) == SumFunction([j \in 1 .. n |-> p[j].num_pages])

\* A page that is not present has no frame and no size; one that is placed
\* well has the offset of a subVMA.
PageOK(p) ==
    /\ p.num_pages = 0 <=> p.pfn = 0
    /\ p.right => p.vpn - p.pfn \in Printer!Wanted

PrintTypeOK ==
    /\ file \in Seq(Vma)
    /\ pages \in Seq(Printer!Page) /\ total_present_pages \in Nat
    /\ print_k \in 1 .. Len(pages) + 1
    /\ Pairs(offsets)
    /\ pages_good_offset \in Nat /\ pages_bad_offset \in Nat
    /\ total_pres_p_in_subvmas \in Nat
    /\ total_pages \in Nat /\ total_thp \in Nat /\ total_4k \in Nat

PagesRead ==
    /\ \A n \in DOMAIN pages : PageOK(pages[n])
    /\ total_present_pages = SizesUpto(pages, Len(pages))
    /\ print_pc = "read" => print_k = 1
    /\ print_pc = "done" => print_k = Len(pages) + 1

PagesMapped ==
    /\ total_pages = SizesUpto(pages, print_k - 1)
    /\ total_pages = THP * total_thp + total_4k
    /\ pages_good_offset + pages_bad_offset = total_pres_p_in_subvmas
    /\ SumFunction(FirstOfPairs(offsets)) = pages_good_offset
    /\ SumFunction(SecondOfPairs(offsets)) = pages_bad_offset
    /\ \A o \in DOMAIN offsets : offsets[o][1] > 0 => o \in Printer!Wanted

PrintInv == PrintTypeOK /\ PagesRead /\ PagesMapped

LEMMA SumOfNoSizes == ASSUME NEW p PROVE SizesUpto(p, 0) = 0
<1> DEFINE g == [j \in 1 .. 0 |-> p[j].num_pages]
<1>1. DOMAIN g = {}
  OBVIOUS
<1> HIDE DEF g
<1>2. SumFunction(g) = 0
  BY <1>1, SumOfNothing
<1> QED
  BY <1>2 DEF g, SizesUpto

LEMMA SizesOneMore ==
    ASSUME NEW n \in Nat, NEW p, NEW q,
           \A j \in 1 .. n : q[j] = p[j],
           \A j \in 1 .. n + 1 : q[j].num_pages \in Nat
    PROVE  SizesUpto(q, n + 1) = SizesUpto(p, n) + q[n + 1].num_pages
<1> DEFINE f == [j \in 1 .. n |-> p[j].num_pages]
           g == [j \in 1 .. n + 1 |-> q[j].num_pages]
<1>1. IsFiniteSet(DOMAIN f)
  BY FS_Interval
<1>2. DOMAIN f = 1 .. n /\ DOMAIN g = 1 .. n + 1 /\ n + 1 \in 1 .. n + 1
  OBVIOUS
<1>3. n + 1 \notin DOMAIN f /\ DOMAIN g = DOMAIN f \cup {n + 1}
  BY <1>2
<1>4. \A y \in DOMAIN f : g[y] = f[y]
  BY <1>2
<1>5. /\ \A y \in DOMAIN g : g[y] \in Int
      /\ g[n + 1] = q[n + 1].num_pages
  BY <1>2
<1> DEFINE x == n + 1
<1> HIDE DEF f, g
<1>6. SumFunction(g) = SumFunction(f) + g[x]
  <2>1. /\ IsFiniteSet(DOMAIN f) /\ x \notin DOMAIN f
        /\ DOMAIN g = DOMAIN f \cup {x}
        /\ \A y \in DOMAIN f : g[y] = f[y]
        /\ \A y \in DOMAIN g : g[y] \in Int
    BY <1>1, <1>3, <1>4, <1>5
  <2> HIDE DEF x
  <2> QED
    BY <2>1, SumOneMore
<1> QED
  BY <1>5, <1>6 DEF f, g, SizesUpto

LEMMA InitPrintInv == ToolsInit => PrintInv
<1> SUFFICES ASSUME ToolsInit PROVE PrintInv
  OBVIOUS
<1>1. file \in Seq(Vma)
  BY FilesAssumption DEF ToolsInit, Init
<1>2. /\ pages = <<>> /\ total_present_pages = 0 /\ print_k = 1
      /\ offsets = [o \in {} |-> <<0, 0>>]
      /\ print_pc = "read"
      /\ pages_good_offset = 0 /\ pages_bad_offset = 0
      /\ total_pres_p_in_subvmas = 0
      /\ total_pages = 0 /\ total_thp = 0 /\ total_4k = 0
  BY DEF ToolsInit, Printer!Opened
<1>3. DOMAIN offsets = {} /\ Pairs(offsets)
  BY <1>2, FS_EmptySet DEF Pairs
<1>4. /\ SumFunction(FirstOfPairs(offsets)) = 0
      /\ SumFunction(SecondOfPairs(offsets)) = 0
  BY <1>3, SumOfNothing DEF FirstOfPairs, SecondOfPairs
<1>5. SizesUpto(pages, 0) = 0
  BY SumOfNoSizes
<1>6. PrintTypeOK
  BY <1>1, <1>2, <1>3 DEF PrintTypeOK
<1>7. PagesRead
  BY <1>2, <1>5 DEF PagesRead
<1>8. PagesMapped
  <2>1. total_pages = SizesUpto(pages, print_k - 1)
    BY <1>2, <1>5
  <2>2. total_pages = THP * total_thp + total_4k
    BY <1>2, ThpAssumption
  <2>3. pages_good_offset + pages_bad_offset = total_pres_p_in_subvmas
    BY <1>2
  <2> QED
    BY <1>2, <1>3, <1>4, <2>1, <2>2, <2>3 DEF PagesMapped
<1> QED
  BY <1>6, <1>7, <1>8 DEF PrintInv

LEMMA RightIs ==
    ASSUME NEW vma, NEW vpn, NEW o, vaddr_in_right_subVMA(vma, vpn, o)
    PROVE  /\ find_target_subVMA(vma, vpn) # 0
           /\ vma.subVMAs[find_target_subVMA(vma, vpn)].offset = o
BY DEF vaddr_in_right_subVMA

\* The subVMA of a page that is placed well wants its offset.
LEMMA RightIsWanted ==
    ASSUME file \in Seq(Vma), NEW vpn \in Nat, NEW o \in Int,
           NEW v, v = find_vma(file, vpn), v # 0,
           vaddr_in_right_subVMA(file[v], vpn, o)
    PROVE  o \in Printer!Wanted
<1> DEFINE t == find_target_subVMA(file[v], vpn)
<1>1. v \in DOMAIN file /\ file[v] \in Vma
  BY FindVma
<1>2. t # 0 /\ file[v].subVMAs[t].offset = o
  BY RightIs
<1>3. file[v].subVMAs # <<>>
  BY <1>2 DEF find_target_subVMA
<1>4. t \in DOMAIN file[v].subVMAs
  <2>1. t \in 1 .. Len(file[v].subVMAs)
    BY <1>1, <1>3, TargetIs
  <2> QED
    BY <1>1, <2>1, SubNumbers
<1> QED
  BY <1>1, <1>2, <1>4 DEF Printer!Wanted

LEMMA LineAppended ==
    ASSUME PrintInv, NEW p \in Printer!Page, pages' = Append(pages, p)
    PROVE  /\ pages' \in Seq(Printer!Page)
           /\ Len(pages) \in Nat /\ Len(pages') = Len(pages) + 1
           /\ \A n \in 1 .. Len(pages) : pages'[n] = pages[n]
           /\ pages'[Len(pages) + 1] = p
           /\ SizesUpto(pages', Len(pages')) =
                  SizesUpto(pages, Len(pages)) + p.num_pages
<1>1. pages \in Seq(Printer!Page) /\ Len(pages) \in Nat
  BY DEF PrintInv, PrintTypeOK
<1>2. /\ pages' \in Seq(Printer!Page) /\ Len(pages') = Len(pages) + 1
      /\ \A n \in 1 .. Len(pages) : pages'[n] = pages[n]
      /\ pages'[Len(pages) + 1] = p
  BY <1>1
<1>3. \A j \in 1 .. Len(pages) + 1 : pages'[j].num_pages \in Nat
  <2>1. \A j \in 1 .. Len(pages) + 1 : pages'[j] \in Printer!Page
    BY <1>1, <1>2
  <2> QED
    BY <2>1, ThpAssumption DEF Printer!Page
<1> DEFINE n == Len(pages)
           a == pages
           b == pages'
<1>4. SizesUpto(b, n + 1) = SizesUpto(a, n) + b[n + 1].num_pages
  <2>1. n \in Nat /\ \A j \in 1 .. n : b[j] = a[j]
    BY <1>1, <1>2
  <2>2. \A j \in 1 .. n + 1 : b[j].num_pages \in Nat
    BY <1>3
  <2> HIDE DEF n, a, b
  <2> QED
    BY <2>1, <2>2, SizesOneMore
<1> QED
  BY <1>1, <1>2, <1>4

\* A line that is read.
LEMMA LineRead ==
    ASSUME PrintInv, file' = file, print_pc = "read", print_pc' = "read",
           NEW p \in Printer!Page, PageOK(p), pages' = Append(pages, p),
           total_present_pages' = total_present_pages + p.num_pages,
           UNCHANGED <<print_k, offsets, pages_good_offset, pages_bad_offset,
                       total_pres_p_in_subvmas, total_pages, total_thp,
                       total_4k>>
    PROVE  PrintInv'
<1>1. /\ pages' \in Seq(Printer!Page)
      /\ Len(pages) \in Nat /\ Len(pages') = Len(pages) + 1
      /\ \A n \in 1 .. Len(pages) : pages'[n] = pages[n]
      /\ pages'[Len(pages) + 1] = p
      /\ SizesUpto(pages', Len(pages')) =
             SizesUpto(pages, Len(pages)) + p.num_pages
  BY LineAppended
<1>2. print_k = 1 /\ print_k' = 1
  BY DEF PrintInv, PagesRead
<1>3. p.num_pages \in Nat
  BY ThpAssumption DEF Printer!Page
<1>4. PrintTypeOK'
  <2>1. print_k' \in 1 .. Len(pages') + 1
    BY <1>1, <1>2
  <2>2. total_present_pages' \in Nat
    BY <1>3 DEF PrintInv, PrintTypeOK
  <2> QED
    BY <1>1, <2>1, <2>2 DEF PrintInv, PrintTypeOK, Pairs
<1>5. PagesRead'
  <2>1. \A n \in DOMAIN pages' : PageOK(pages'[n])
    <3>1. \A n \in 1 .. Len(pages) : PageOK(pages[n])
      BY DEF PrintInv, PrintTypeOK, PagesRead
    <3>2. DOMAIN pages' = 1 .. Len(pages) + 1
      BY <1>1
    <3> QED
      BY <1>1, <3>1, <3>2
  <2>2. \A n \in DOMAIN pages' : PageOK(pages[n])'
    BY <2>1 DEF PageOK, Printer!Wanted
  <2>3. total_present_pages' = SizesUpto(pages', Len(pages'))
    BY <1>1 DEF PrintInv, PagesRead
  <2> QED
    BY <1>2, <2>2, <2>3 DEF PagesRead
<1>6. PagesMapped'
  <2>1. print_k' - 1 = 0 /\ print_k - 1 = 0
    BY <1>2
  <2>2. SizesUpto(pages', 0) = 0 /\ SizesUpto(pages, 0) = 0
    BY SumOfNoSizes
  <2>3. total_pages' = SizesUpto(pages', print_k' - 1)
    BY <2>1, <2>2 DEF PrintInv, PagesMapped
  <2>4. Printer!Wanted' = Printer!Wanted
    BY DEF Printer!Wanted
  <2> QED
    BY <2>3, <2>4 DEF PrintInv, PagesMapped, FirstOfPairs, SecondOfPairs
<1> QED
  BY <1>4, <1>5, <1>6 DEF PrintInv

LEMMA ReadAbsentPrintInv ==
    ASSUME PrintInv, file' = file, NEW vpn \in Vpns, Printer!ReadAbsent(vpn)
    PROVE  PrintInv'
<1> DEFINE p == [vpn |-> vpn, pfn |-> 0, num_pages |-> 0, right |-> FALSE]
<1>1. p \in Printer!Page /\ PageOK(p) /\ p.num_pages = 0
  BY LineAssumption DEF Printer!Page, PageOK
<1>2. total_present_pages' = total_present_pages + p.num_pages
  BY <1>1 DEF Printer!ReadAbsent, PrintInv, PrintTypeOK
<1>3. /\ print_pc = "read" /\ print_pc' = "read" /\ pages' = Append(pages, p)
      /\ UNCHANGED <<print_k, offsets, pages_good_offset, pages_bad_offset,
                     total_pres_p_in_subvmas, total_pages, total_thp, total_4k>>
  BY DEF Printer!ReadAbsent, Printer!Reading, Printer!placed, Printer!totals
<1> HIDE DEF p
<1> QED
  BY <1>1, <1>2, <1>3, LineRead

LEMMA ReadPagePrintInv ==
    ASSUME PrintInv, file' = file, NEW vpn \in Vpns, NEW pfn \in Pfns,
           Printer!ReadPage(vpn, pfn)
    PROVE  PrintInv'
<1> DEFINE v == find_vma(file, vpn)
           right == vaddr_in_right_subVMA(file[v], vpn, vpn - pfn)
           p(n) == [vpn |-> vpn, pfn |-> pfn, num_pages |-> n, right |-> right]
<1>1. PICK n \in Printer!Sizes(vpn, pfn) :
          /\ pages' = Append(pages, p(n))
          /\ total_present_pages' = total_present_pages + n
  BY PrinterReads DEF Printer!ReadPage
<1>2. v # 0
  BY PrinterReads DEF Printer!ReadPage
<1>3. vpn \in Nat /\ pfn \in Nat /\ pfn # 0 /\ n \in {1, THP}
  BY LineAssumption DEF Printer!Sizes
<1>4. right \in BOOLEAN
  BY DEF vaddr_in_right_subVMA
<1>5. p(n) \in Printer!Page
  BY <1>3, <1>4 DEF Printer!Page
<1>6. right => vpn - pfn \in Printer!Wanted
  <2>1. file \in Seq(Vma) /\ vpn - pfn \in Int
    BY <1>3 DEF PrintInv, PrintTypeOK
  <2> QED
    BY <1>2, <1>3, <2>1, RightIsWanted
<1>7. PageOK(p(n))
  BY <1>3, <1>6, ThpAssumption DEF PageOK
<1>8. p(n).num_pages = n
  OBVIOUS
<1>9. /\ print_pc = "read" /\ print_pc' = "read"
      /\ UNCHANGED <<print_k, offsets, pages_good_offset, pages_bad_offset,
                     total_pres_p_in_subvmas, total_pages, total_thp, total_4k>>
  BY DEF Printer!ReadPage, Printer!Reading, Printer!placed, Printer!totals
<1> HIDE DEF p
<1> QED
  BY <1>1, <1>5, <1>7, <1>8, <1>9, LineRead

LEMMA ReadEndsPrintInv ==
    ASSUME PrintInv, file' = file,
           Printer!ReadAll \/ \E vpn \in Vpns : Printer!NoVma(vpn)
    PROVE  PrintInv'
<1>1. /\ print_pc' \in {"map", "exit"}
      /\ UNCHANGED <<pages, total_present_pages, print_k, offsets,
                     pages_good_offset, pages_bad_offset,
                     total_pres_p_in_subvmas, total_pages, total_thp, total_4k>>
  BY DEF Printer!ReadAll, Printer!NoVma, Printer!reading, Printer!placed,
         Printer!totals
<1>2. Printer!Wanted' = Printer!Wanted
  BY DEF Printer!Wanted
<1>3. PrintTypeOK'
  BY <1>1 DEF PrintInv, PrintTypeOK, Pairs
<1>4. PagesRead'
  BY <1>1, <1>2 DEF PrintInv, PagesRead, PageOK
<1>5. PagesMapped'
  BY <1>1, <1>2 DEF PrintInv, PagesMapped, FirstOfPairs, SecondOfPairs
<1> QED
  BY <1>3, <1>4, <1>5 DEF PrintInv

\* One number of f has grown by d, or is d if it was not there.
Grown(f, h, o, d) ==
    /\ DOMAIN h = DOMAIN f \cup {o}
    /\ h[o] = (IF o \in DOMAIN f THEN f[o] ELSE 0) + d
    /\ \A q \in DOMAIN f \ {o} : h[q] = f[q]

LEMMA SumOfGrown ==
    ASSUME NEW f, IsFiniteSet(DOMAIN f), \A q \in DOMAIN f : f[q] \in Nat,
           NEW h, NEW o, NEW d \in Nat, Grown(f, h, o, d)
    PROVE  SumFunction(h) = SumFunction(f) + d
<1>1. /\ DOMAIN h = DOMAIN f \cup {o}
      /\ h[o] = (IF o \in DOMAIN f THEN f[o] ELSE 0) + d
      /\ \A q \in DOMAIN f \ {o} : h[q] = f[q]
  BY DEF Grown
<1>2. \A q \in DOMAIN h : h[q] \in Int
  BY <1>1
<1>3. CASE o \notin DOMAIN f
  <2>1. \A q \in DOMAIN f : h[q] = f[q]
    BY <1>1, <1>3
  <2>2. SumFunction(h) = SumFunction(f) + h[o]
    BY <1>1, <1>2, <1>3, <2>1, SumOneMore
  <2> QED
    BY <1>1, <1>3, <2>2
<1>4. CASE o \in DOMAIN f
  <2>0. DOMAIN h = DOMAIN f
    BY <1>1, <1>4, Zenon
  <2>1. DOMAIN h = DOMAIN f /\ \A q \in DOMAIN f : f[q] \in Int
    BY <2>0
  <2>2. SumFunction(h) = SumFunction(f) - f[o] + h[o]
    BY <1>1, <1>2, <1>4, <2>1, SumOneChanged
  <2>3. SumFunction(f) \in Int
    BY <2>1, SumFunctionIsNumber
  <2>4. h[o] = f[o] + d /\ f[o] \in Int
    BY <1>1, <1>4
  <2> QED
    BY <2>2, <2>3, <2>4
<1> QED
  BY <1>3, <1>4

\* The pages of one size add up.
LEMMA SizeCounted ==
    ASSUME NEW a \in Nat, NEW b \in Nat, NEW n \in {1, THP}
    PROVE  /\ THP * a + b + n =
                  THP * (a + (IF n = THP THEN 1 ELSE 0))
                      + (b + (IF n = 1 THEN 1 ELSE 0))
           /\ n \in Nat
<1>1. THP \in Nat /\ THP > 1
  BY ThpAssumption
<1>2. THP * (a + 1) = THP * a + THP /\ THP * a \in Nat
  BY <1>1
<1>3. CASE n = 1
  BY <1>1, <1>2, <1>3
<1>4. CASE n = THP
  BY <1>1, <1>2, <1>4
<1> QED
  BY <1>3, <1>4

\* The page that is mapped.
LEMMA Mapped ==
    ASSUME PrintInv, Printer!Mapping
    PROVE  /\ pages[print_k] \in Printer!Page /\ PageOK(pages[print_k])
           /\ print_k \in Nat \ {0} /\ print_k + 1 \in 1 .. Len(pages) + 1
           /\ print_pc = "map"
           /\ SizesUpto(pages, (print_k + 1) - 1) =
                  SizesUpto(pages, print_k - 1) + pages[print_k].num_pages
           /\ SizesUpto(pages, print_k - 1) = total_pages
<1>1. pages \in Seq(Printer!Page) /\ Len(pages) \in Nat
  BY DEF PrintInv, PrintTypeOK
<1>2. print_k \in 1 .. Len(pages) /\ print_pc = "map"
  BY <1>1 DEF PrintInv, PrintTypeOK, Printer!Mapping
<1>3. pages[print_k] \in Printer!Page /\ PageOK(pages[print_k])
  BY <1>1, <1>2 DEF PrintInv, PagesRead
<1>4. print_k \in Nat \ {0} /\ print_k + 1 \in 1 .. Len(pages) + 1
  BY <1>1, <1>2
<1>5. \A j \in 1 .. print_k : pages[j].num_pages \in Nat
  <2>1. \A j \in 1 .. print_k : pages[j] \in Printer!Page
    BY <1>1, <1>2
  <2> QED
    BY <2>1, ThpAssumption DEF Printer!Page
<1> DEFINE n == print_k - 1
           a == pages
<1>6. SizesUpto(a, n + 1) = SizesUpto(a, n) + a[n + 1].num_pages
  <2>1. n \in Nat /\ \A j \in 1 .. n : a[j] = a[j]
    BY <1>4
  <2>2. \A j \in 1 .. n + 1 : a[j].num_pages \in Nat
    BY <1>4, <1>5
  <2> HIDE DEF n, a
  <2> QED
    BY <2>1, <2>2, SizesOneMore
<1>7. n + 1 = print_k /\ (print_k + 1) - 1 = print_k
  BY <1>4
<1>8. SizesUpto(pages, print_k - 1) = total_pages
  BY DEF PrintInv, PagesMapped
<1>9. SizesUpto(pages, (print_k + 1) - 1) =
          SizesUpto(pages, print_k - 1) + pages[print_k].num_pages
  BY <1>6, <1>7
<1> QED
  BY <1>2, <1>3, <1>4, <1>8, <1>9

\* A page that is not present adds nothing.
LEMMA SkipAbsentPrintInv ==
    ASSUME PrintInv, file' = file, Printer!SkipAbsent
    PROVE  PrintInv'
<1>1. /\ Printer!Mapping /\ pages[print_k].pfn = 0 /\ print_k' = print_k + 1
      /\ UNCHANGED <<print_pc, pages, total_present_pages, offsets,
                     pages_good_offset, pages_bad_offset,
                     total_pres_p_in_subvmas, total_pages, total_thp, total_4k>>
  BY DEF Printer!SkipAbsent, Printer!reading, Printer!placed, Printer!totals
<1>2. Printer!Wanted' = Printer!Wanted
  BY DEF Printer!Wanted
<1>3. PrintTypeOK'
  BY <1>1, Mapped DEF PrintInv, PrintTypeOK, Pairs
<1>4. PagesRead'
  BY <1>1, <1>2, Mapped DEF PrintInv, PagesRead, PageOK
<1>5. PagesMapped'
  <2>1. pages[print_k].num_pages = 0
    BY <1>1, Mapped DEF PageOK
  <2>2. total_pages \in Nat
    BY DEF PrintInv, PrintTypeOK
  <2>3. SizesUpto(pages, (print_k + 1) - 1) = total_pages
    BY <1>1, <2>1, <2>2, Mapped
  <2>4. total_pages' = SizesUpto(pages', print_k' - 1)
    BY <1>1, <2>3
  <2> QED
    BY <1>1, <1>2, <2>4 DEF PrintInv, PagesMapped, FirstOfPairs, SecondOfPairs
<1> QED
  BY <1>3, <1>4, <1>5 DEF PrintInv

\* The size of a page that is present.
LEMMA SizeMapped ==
    ASSUME PrintInv, Printer!Mapping, pages[print_k].pfn # 0, pages' = pages,
           Printer!CountSize(pages[print_k]), print_k' = print_k + 1
    PROVE  /\ total_pages' \in Nat /\ total_thp' \in Nat /\ total_4k' \in Nat
           /\ total_pages' = SizesUpto(pages', print_k' - 1)
           /\ total_pages' = THP * total_thp' + total_4k'
<1> DEFINE n == pages[print_k].num_pages
<1>1. n \in {1, THP}
  <2>1. n \in {0, 1, THP} /\ n # 0
    BY Mapped DEF Printer!Page, PageOK
  <2> QED
    BY <2>1
<1>2. /\ total_pages' = total_pages + n
      /\ total_thp' = total_thp + (IF n = THP THEN 1 ELSE 0)
      /\ total_4k' = total_4k + (IF n = 1 THEN 1 ELSE 0)
  BY DEF Printer!CountSize
<1>3. total_pages' = SizesUpto(pages', print_k' - 1)
  BY <1>2, Mapped
<1>4. /\ total_pages \in Nat /\ total_thp \in Nat /\ total_4k \in Nat
      /\ total_pages = THP * total_thp + total_4k
  BY DEF PrintInv, PrintTypeOK, PagesMapped
<1> HIDE DEF n
<1>5. total_pages' = THP * total_thp' + total_4k' /\ n \in Nat
  <2>1. /\ THP * total_thp + total_4k + n =
               THP * (total_thp + (IF n = THP THEN 1 ELSE 0))
                   + (total_4k + (IF n = 1 THEN 1 ELSE 0))
        /\ n \in Nat
    <3>1. total_thp \in Nat /\ total_4k \in Nat
      BY <1>4
    <3> QED
      BY <1>1, <3>1, SizeCounted, Zenon
  <2>2. total_pages' = (THP * total_thp + total_4k) + n
    BY <1>2, <1>4
  <2> QED
    BY <1>2, <2>1, <2>2
<1>6. total_pages' \in Nat /\ total_thp' \in Nat /\ total_4k' \in Nat
  BY <1>2, <1>4, <1>5
<1> QED
  BY <1>3, <1>5, <1>6

LEMMA MapOutsidePrintInv ==
    ASSUME PrintInv, file' = file, Printer!MapOutside
    PROVE  PrintInv'
<1>1. /\ Printer!Mapping /\ pages[print_k].pfn # 0 /\ print_k' = print_k + 1
      /\ Printer!CountSize(pages[print_k])
      /\ UNCHANGED <<print_pc, pages, total_present_pages, offsets,
                     pages_good_offset, pages_bad_offset,
                     total_pres_p_in_subvmas>>
  BY DEF Printer!MapOutside, Printer!reading, Printer!placed
<1>2. Printer!Wanted' = Printer!Wanted
  BY DEF Printer!Wanted
<1>3. /\ total_pages' \in Nat /\ total_thp' \in Nat /\ total_4k' \in Nat
      /\ total_pages' = SizesUpto(pages', print_k' - 1)
      /\ total_pages' = THP * total_thp' + total_4k'
  BY <1>1, SizeMapped
<1>4. PrintTypeOK'
  BY <1>1, <1>3, Mapped DEF PrintInv, PrintTypeOK, Pairs
<1>5. PagesRead'
  BY <1>1, <1>2, Mapped DEF PrintInv, PagesRead, PageOK
<1>6. PagesMapped'
  BY <1>1, <1>2, <1>3 DEF PrintInv, PagesMapped, FirstOfPairs, SecondOfPairs
<1> QED
  BY <1>4, <1>5, <1>6 DEF PrintInv

\* The offset of the page gains its pages, on one of the two sides.
Gains(f, h, o, g, b) ==
    LET at == IF o \in DOMAIN f THEN f[o] ELSE <<0, 0>>
    IN  h = [q \in DOMAIN f \cup {o} |->
                IF q = o THEN <<at[1] + g, at[2] + b>> ELSE f[q]]

LEMMA PlaceCounted ==
    ASSUME Pairs(offsets), NEW o \in Int, NEW g \in Nat, NEW b \in Nat,
           Gains(offsets, offsets', o, g, b)
    PROVE  /\ Pairs(offsets')
           /\ SumFunction(FirstOfPairs(offsets')) =
                  SumFunction(FirstOfPairs(offsets)) + g
           /\ SumFunction(SecondOfPairs(offsets')) =
                  SumFunction(SecondOfPairs(offsets)) + b
           /\ \A q \in DOMAIN offsets' : offsets'[q][1] > 0 =>
                  \/ q = o /\ g > 0
                  \/ q \in DOMAIN offsets /\ offsets[q][1] > 0
<1> DEFINE D == DOMAIN offsets
           N == offsets'
           at == IF o \in D THEN offsets[o] ELSE <<0, 0>>
<1>0. N = [q \in D \cup {o} |->
              IF q = o THEN <<at[1] + g, at[2] + b>> ELSE offsets[q]]
  BY DEF Gains
<1>1. IsFiniteSet(D) /\ \A q \in D : offsets[q] \in Nat \X Nat
  BY DEF Pairs
<1>2. at[1] \in Nat /\ at[2] \in Nat
  BY <1>1
<1>3. DOMAIN N = D \cup {o} /\ IsFiniteSet(D \cup {o})
  BY <1>0, <1>1, FS_AddElement
<1>4. N[o] = <<at[1] + g, at[2] + b>>
  BY <1>0
<1>5. \A q \in D \ {o} : N[q] = offsets[q]
  BY <1>0
<1>6. \A q \in DOMAIN N : N[q] \in Nat \X Nat
  <2> SUFFICES ASSUME NEW q \in DOMAIN N
               PROVE  N[q] \in Nat \X Nat
    OBVIOUS
  <2>1. CASE q = o
    BY <1>2, <1>4, <2>1
  <2>2. CASE q # o
    BY <1>1, <1>3, <1>5, <2>2
  <2> QED
    BY <2>1, <2>2
<1> HIDE DEF N
<1>7. Pairs(N)
  BY <1>3, <1>6 DEF Pairs
<1>8. Grown(FirstOfPairs(offsets), FirstOfPairs(N), o, g)
  BY <1>2, <1>3, <1>4, <1>5 DEF Grown, FirstOfPairs
<1>9. Grown(SecondOfPairs(offsets), SecondOfPairs(N), o, b)
  BY <1>2, <1>3, <1>4, <1>5 DEF Grown, SecondOfPairs
<1>10. /\ IsFiniteSet(DOMAIN FirstOfPairs(offsets))
       /\ \A q \in DOMAIN FirstOfPairs(offsets) : FirstOfPairs(offsets)[q] \in Nat
  BY <1>1 DEF FirstOfPairs
<1>11. /\ IsFiniteSet(DOMAIN SecondOfPairs(offsets))
       /\ \A q \in DOMAIN SecondOfPairs(offsets) :
              SecondOfPairs(offsets)[q] \in Nat
  BY <1>1 DEF SecondOfPairs
<1>12. SumFunction(FirstOfPairs(N)) = SumFunction(FirstOfPairs(offsets)) + g
  BY <1>8, <1>10, SumOfGrown
<1>13. SumFunction(SecondOfPairs(N)) = SumFunction(SecondOfPairs(offsets)) + b
  BY <1>9, <1>11, SumOfGrown
<1>14. \A q \in DOMAIN N : N[q][1] > 0 =>
           \/ q = o /\ g > 0
           \/ q \in D /\ offsets[q][1] > 0
  <2> SUFFICES ASSUME NEW q \in DOMAIN N, N[q][1] > 0
               PROVE  \/ q = o /\ g > 0
                      \/ q \in D /\ offsets[q][1] > 0
    OBVIOUS
  <2>1. CASE q = o /\ q \notin D
    BY <1>4, <2>1
  <2>2. CASE q = o /\ q \in D
    BY <1>1, <1>4, <2>2
  <2>3. CASE q # o
    BY <1>3, <1>5, <2>3
  <2> QED
    BY <2>1, <2>2, <2>3
<1> QED
  BY <1>7, <1>12, <1>13, <1>14 DEF N

LEMMA MapPagePrintInv ==
    ASSUME PrintInv, file' = file, Printer!MapPage
    PROVE  PrintInv'
<1> DEFINE p == pages[print_k]
           o == p.vpn - p.pfn
           g == IF p.right THEN p.num_pages ELSE 0
           b == IF p.right THEN 0 ELSE p.num_pages
<1>1. /\ Printer!Mapping /\ p.pfn # 0 /\ print_k' = print_k + 1
      /\ Printer!CountSize(p)
      /\ total_pres_p_in_subvmas' = total_pres_p_in_subvmas + p.num_pages
      /\ UNCHANGED <<print_pc, pages, total_present_pages>>
  BY DEF Printer!MapPage, Printer!reading
<1>2. /\ Gains(offsets, offsets', o, g, b)
      /\ pages_good_offset' = pages_good_offset + g
      /\ pages_bad_offset' = pages_bad_offset + b
  BY DEF Printer!MapPage, Printer!CountPlace, Gains
<1>3. Printer!Wanted' = Printer!Wanted
  BY DEF Printer!Wanted
<1>4. /\ total_pages' \in Nat /\ total_thp' \in Nat /\ total_4k' \in Nat
      /\ total_pages' = SizesUpto(pages', print_k' - 1)
      /\ total_pages' = THP * total_thp' + total_4k'
  BY <1>1, SizeMapped
<1>5. p \in Printer!Page /\ PageOK(p)
  BY <1>1, Mapped
<1>6. o \in Int /\ p.num_pages \in Nat
  BY <1>5, ThpAssumption DEF Printer!Page
<1>7. g \in Nat /\ b \in Nat /\ g + b = p.num_pages
  BY <1>6
<1>8. g > 0 => o \in Printer!Wanted
  BY <1>5 DEF PageOK
<1>9. Pairs(offsets)
  BY DEF PrintInv, PrintTypeOK
<1>10. /\ Pairs(offsets')
       /\ SumFunction(FirstOfPairs(offsets')) =
              SumFunction(FirstOfPairs(offsets)) + g
       /\ SumFunction(SecondOfPairs(offsets')) =
              SumFunction(SecondOfPairs(offsets)) + b
       /\ \A q \in DOMAIN offsets' : offsets'[q][1] > 0 =>
              \/ q = o /\ g > 0
              \/ q \in DOMAIN offsets /\ offsets[q][1] > 0
  <2> HIDE DEF o, g, b
  <2> QED
    BY <1>2, <1>6, <1>7, <1>9, PlaceCounted
<1> HIDE DEF o, g, b
<1>11. PrintTypeOK'
  <2>1. /\ pages_good_offset' \in Nat /\ pages_bad_offset' \in Nat
        /\ total_pres_p_in_subvmas' \in Nat
    <3>1. /\ pages_good_offset \in Nat /\ pages_bad_offset \in Nat
          /\ total_pres_p_in_subvmas \in Nat
      BY DEF PrintInv, PrintTypeOK
    <3> HIDE DEF p
    <3> QED
      BY <1>1, <1>2, <1>6, <1>7, <3>1
  <2>2. print_k' \in 1 .. Len(pages') + 1
    BY <1>1, Mapped
  <2> HIDE DEF p
  <2> QED
    BY <1>1, <1>4, <1>10, <2>1, <2>2 DEF PrintInv, PrintTypeOK
<1>12. PagesRead'
  BY <1>1, <1>3, Mapped DEF PrintInv, PagesRead, PageOK
<1>13. PagesMapped'
  <2>1. pages_good_offset' + pages_bad_offset' = total_pres_p_in_subvmas'
    <3>1. /\ pages_good_offset \in Nat /\ pages_bad_offset \in Nat
          /\ pages_good_offset + pages_bad_offset = total_pres_p_in_subvmas
      BY DEF PrintInv, PrintTypeOK, PagesMapped
    <3> HIDE DEF p
    <3> QED
      BY <1>1, <1>2, <1>6, <1>7, <3>1
  <2>2. /\ SumFunction(FirstOfPairs(offsets')) = pages_good_offset'
        /\ SumFunction(SecondOfPairs(offsets')) = pages_bad_offset'
    BY <1>2, <1>10 DEF PrintInv, PagesMapped
  <2>3. \A q \in DOMAIN offsets' : offsets'[q][1] > 0 => q \in Printer!Wanted
    BY <1>8, <1>10 DEF PrintInv, PagesMapped
  <2> QED
    BY <1>3, <1>4, <2>1, <2>2, <2>3 DEF PagesMapped
<1> QED
  BY <1>11, <1>12, <1>13 DEF PrintInv

LEMMA MappedAllPrintInv ==
    ASSUME PrintInv, file' = file, Printer!MappedAll
    PROVE  PrintInv'
<1>1. /\ print_k > Len(pages) /\ print_pc' = "done"
      /\ UNCHANGED <<pages, total_present_pages, print_k, offsets,
                     pages_good_offset, pages_bad_offset,
                     total_pres_p_in_subvmas, total_pages, total_thp, total_4k>>
  BY DEF Printer!MappedAll, Printer!reading, Printer!placed, Printer!totals
<1>2. Printer!Wanted' = Printer!Wanted
  BY DEF Printer!Wanted
<1>3. PrintTypeOK'
  BY <1>1 DEF PrintInv, PrintTypeOK, Pairs
<1>4. PagesRead'
  <2>1. print_k = Len(pages) + 1
    <3>1. Len(pages) \in Nat /\ print_k \in 1 .. Len(pages) + 1
      BY DEF PrintInv, PrintTypeOK
    <3> QED
      BY <1>1, <3>1
  <2> QED
    BY <1>1, <1>2, <2>1 DEF PrintInv, PagesRead, PageOK
<1>5. PagesMapped'
  BY <1>1, <1>2 DEF PrintInv, PagesMapped, FirstOfPairs, SecondOfPairs
<1> QED
  BY <1>3, <1>4, <1>5 DEF PrintInv

LEMMA NextPrintInv ==
    PrintInv /\ [ToolsNext]_<<vars, overVars, printVars>> => PrintInv'
<1> SUFFICES ASSUME PrintInv, [ToolsNext]_<<vars, overVars, printVars>>
             PROVE  PrintInv'
  OBVIOUS
<1>1. file' = file
  BY ToolsKeepFile
<1>2. ASSUME UNCHANGED printVars
      PROVE  PrintInv'
  <2>1. UNCHANGED <<print_pc, pages, total_present_pages, print_k, offsets,
                    pages_good_offset, pages_bad_offset,
                    total_pres_p_in_subvmas, total_pages, total_thp, total_4k>>
    BY <1>2 DEF printVars
  <2>2. Printer!Wanted' = Printer!Wanted
    BY <1>1 DEF Printer!Wanted
  <2>3. PrintTypeOK'
    BY <1>1, <2>1 DEF PrintInv, PrintTypeOK, Pairs
  <2>4. PagesRead'
    BY <2>1, <2>2 DEF PrintInv, PagesRead, PageOK
  <2>5. PagesMapped'
    BY <2>1, <2>2 DEF PrintInv, PagesMapped, FirstOfPairs, SecondOfPairs
  <2> QED
    BY <2>3, <2>4, <2>5 DEF PrintInv
<1>3. ASSUME Printer!Next
      PROVE  PrintInv'
  <2>1. \/ \E vpn \in Vpns : Printer!ReadAbsent(vpn)
        \/ \E vpn \in Vpns : \E pfn \in Pfns : Printer!ReadPage(vpn, pfn)
        \/ Printer!ReadAll \/ \E vpn \in Vpns : Printer!NoVma(vpn)
        \/ Printer!SkipAbsent \/ Printer!MapOutside \/ Printer!MapPage
        \/ Printer!MappedAll
    BY <1>3 DEF Printer!Next, Printer!ReadLine
  <2> QED
    BY <1>1, <2>1, ReadAbsentPrintInv, ReadPagePrintInv, ReadEndsPrintInv,
       SkipAbsentPrintInv, MapOutsidePrintInv, MapPagePrintInv,
       MappedAllPrintInv
<1> QED
  BY <1>2, <1>3 DEF ToolsNext, FindOverlapping, CalcOptimal, PrintFile

\* The totals that print_stats.py prints agree (create_offset_map).
THEOREM PrintedTotalsAgree == ToolsSpec => []PlacesAgree
<1>1. PrintInv => PlacesAgree
  <2> SUFFICES ASSUME PrintInv PROVE PlacesAgree
    OBVIOUS
  <2>1. print_pc = "done" => total_pages = total_present_pages
    <3>1. Len(pages) \in Nat
      BY DEF PrintInv, PrintTypeOK
    <3>2. print_k = Len(pages) + 1 => print_k - 1 = Len(pages)
      BY <3>1
    <3> QED
      BY <3>2 DEF PrintInv, PagesRead, PagesMapped
  <2>2. Printer!OffsetSum[DOMAIN offsets] =
            <<pages_good_offset, pages_bad_offset>>
    BY OffsetSumIs DEF PrintInv, PrintTypeOK, PagesMapped
  <2> QED
    BY <2>1, <2>2 DEF PlacesAgree, Printer!PlacesAgree, PrintInv, PagesMapped
<1> QED
  BY <1>1, InitPrintInv, NextPrintInv, PTL DEF ToolsSpec

-----------------------------------------------------------------------------
(* print_stats.py and calc_optimal_results.py want a page at the same place. *)

PlacedInv ==
    /\ pages # <<>> => file \in PrintedFiles
    /\ \A n \in DOMAIN pages :
           pages[n].right <=> InARange(file, pages[n].vpn, pages[n].pfn)

LEMMA ReadAbsentPlaced ==
    ASSUME PrintInv, PlacedInv, file' = file, file \in PrintedFiles,
           NEW vpn \in Vpns, Printer!ReadAbsent(vpn)
    PROVE  PlacedInv'
<1> DEFINE p == [vpn |-> vpn, pfn |-> 0, num_pages |-> 0, right |-> FALSE]
<1>1. p \in Printer!Page /\ pages' = Append(pages, p)
  BY LineAssumption DEF Printer!Page, Printer!ReadAbsent
<1>2. p.right <=> InARange(file, p.vpn, p.pfn)
  BY DEF InARange
<1> HIDE DEF p
<1>3. /\ \A n \in 1 .. Len(pages) : pages'[n] = pages[n]
      /\ pages'[Len(pages) + 1] = p
      /\ DOMAIN pages' = 1 .. Len(pages) + 1 /\ DOMAIN pages = 1 .. Len(pages)
  BY <1>1, LineAppended DEF PrintInv, PrintTypeOK
<1>4. \A n \in DOMAIN pages' :
          pages'[n].right <=> InARange(file, pages'[n].vpn, pages'[n].pfn)
  BY <1>2, <1>3 DEF PlacedInv
<1> QED
  BY <1>4 DEF PlacedInv

LEMMA ReadPagePlaced ==
    ASSUME PrintInv, PlacedInv, file' = file, file \in PrintedFiles,
           NEW vpn \in Vpns, NEW pfn \in Pfns, Printer!ReadPage(vpn, pfn)
    PROVE  PlacedInv'
<1> DEFINE v == find_vma(file, vpn)
           right == vaddr_in_right_subVMA(file[v], vpn, vpn - pfn)
           p(n) == [vpn |-> vpn, pfn |-> pfn, num_pages |-> n, right |-> right]
<1>1. PICK n \in Printer!Sizes(vpn, pfn) : pages' = Append(pages, p(n))
  BY PrinterReads DEF Printer!ReadPage
<1>2. v # 0
  BY PrinterReads DEF Printer!ReadPage
<1>3. vpn \in Nat /\ pfn \in Nat \ {0} /\ n \in {1, THP}
  BY LineAssumption DEF Printer!Sizes
<1>4. right \in BOOLEAN
  BY DEF vaddr_in_right_subVMA
<1>5. p(n) \in Printer!Page
  BY <1>3, <1>4 DEF Printer!Page
<1>6. file \in Seq(Vma)
  BY DEF PrintInv, PrintTypeOK
<1>7. right <=> InARange(file, vpn, pfn)
  <2> HIDE DEF v
  <2>1. v = find_vma(file, vpn)
    BY DEF v
  <2>2. VmasApart(file) /\ SubsInOrder(file)
    BY PrintedAssumption
  <2> QED
    BY <1>2, <1>3, <1>6, <2>1, <2>2, RightIsInARange
<1> DEFINE q == p(n)
<1>8. q.right <=> InARange(file, q.vpn, q.pfn)
  BY <1>7
<1>9. q \in Printer!Page /\ pages' = Append(pages, q)
  BY <1>1, <1>5
<1> HIDE DEF q
<1>10. /\ \A m \in 1 .. Len(pages) : pages'[m] = pages[m]
       /\ pages'[Len(pages) + 1] = q
       /\ DOMAIN pages' = 1 .. Len(pages) + 1 /\ DOMAIN pages = 1 .. Len(pages)
  BY <1>9, LineAppended DEF PrintInv, PrintTypeOK
<1>11. \A m \in DOMAIN pages' :
           pages'[m].right <=> InARange(file, pages'[m].vpn, pages'[m].pfn)
  BY <1>8, <1>10 DEF PlacedInv
<1> QED
  BY <1>11 DEF PlacedInv

LEMMA NextPlaced ==
    ASSUME PrintInv, PlacedInv, [ToolsNext]_<<vars, overVars, printVars>>
    PROVE  PlacedInv'
<1>1. file' = file
  BY ToolsKeepFile
<1>2. ASSUME pages' = pages
      PROVE  PlacedInv'
  BY <1>1, <1>2 DEF PlacedInv
<1>3. ASSUME file \in PrintedFiles, Printer!Next
      PROVE  PlacedInv'
  <2>1. \/ \E vpn \in Vpns : Printer!ReadAbsent(vpn)
        \/ \E vpn \in Vpns : \E pfn \in Pfns : Printer!ReadPage(vpn, pfn)
        \/ pages' = pages
    BY <1>3 DEF Printer!Next, Printer!ReadLine, Printer!ReadAll,
                Printer!NoVma, Printer!SkipAbsent, Printer!MapOutside,
                Printer!MapPage, Printer!MappedAll, Printer!reading
  <2> QED
    BY <1>1, <1>2, <1>3, <2>1, ReadAbsentPlaced, ReadPagePlaced
<1> QED
  BY <1>2, <1>3
  DEF ToolsNext, FindOverlapping, CalcOptimal, PrintFile, printVars

\* A page is said to be placed well if and only if it is where a range of
\* calc_optimal_results.py wants it (vaddr_in_right_subVMA, create_ranges).
\* It rests on PrintedAssumption.
THEOREM PlacesAreThoseOfRanges == ToolsSpec => []PlacedAsInRanges
<1>1. PlacedInv => PlacedAsInRanges
  BY PrinterReads
  DEF PlacedInv, InARange, PlacedAsInRanges, Printer!PlacedAsInRanges
<1>2. ToolsInit => PlacedInv
  BY DEF ToolsInit, Printer!Opened, PlacedInv
<1>3. PrintInv /\ PlacedInv /\ [ToolsNext]_<<vars, overVars, printVars>>
          => PlacedInv'
  BY NextPlaced
<1> QED
  BY <1>1, <1>2, <1>3, InitPrintInv, NextPrintInv, PTL DEF ToolsSpec

-----------------------------------------------------------------------------
(* A list L of n finite sets, of which every two are compared: the sum of   *)
(* what pairs have in common, against what the union is short of.           *)

IsSets(L, n) == n \in Nat /\ \A a \in 1 .. n : IsFiniteSet(L[a])

\* The sets behind r and before c.
Joint(L, r, c) == UNION {L[b] : b \in r + 1 .. c - 1}
Cards(L, n)    == [a \in 1 .. n |-> Cardinality(L[a])]

\* What the first sets are short of, compared with all behind them.
Short(L, n, r) ==
    SumFunctionOnSet(Cards(L, n), 1 .. r - 1)
        - (Cardinality(Joint(L, 0, n + 1))
               - Cardinality(Joint(L, r - 1, n + 1)))

\* An element of three sets, the first of which was compared with the others
\* before r with c.
Thrice(L, n, r, c) ==
    \E a, b, d \in 1 .. n :
        /\ a < b /\ b < d /\ (a < r \/ (a = r /\ d < c))
        /\ \E x \in L[a] : x \in L[b] /\ x \in L[d]

\* t is what the compared pairs have in common: as much as the sets are short
\* of, and more if an element is in three of them.
Excess(L, n, r, c, t) ==
    LET e == t - Short(L, n, r) - Cardinality(L[r] \cap Joint(L, r, c))
    IN  e \in Nat /\ (e > 0 <=> Thrice(L, n, r, c))

LEMMA JointMore ==
    ASSUME NEW L, NEW r \in Nat, NEW c \in Nat, r < c
    PROVE  Joint(L, r, c + 1) = Joint(L, r, c) \cup L[c]
<1>1. \A b : b \in r + 1 .. (c + 1) - 1 <=> b \in r + 1 .. c - 1 \/ b = c
  OBVIOUS
<1> QED
  BY <1>1 DEF Joint

LEMMA JointFirst ==
    ASSUME NEW L, NEW r \in Nat \ {0}, NEW c \in Nat, r < c
    PROVE  Joint(L, r - 1, c) = L[r] \cup Joint(L, r, c)
<1>1. \A b : b \in (r - 1) + 1 .. c - 1 <=> b = r \/ b \in r + 1 .. c - 1
  OBVIOUS
<1> QED
  BY <1>1 DEF Joint

LEMMA JointNone ==
    ASSUME NEW L, NEW r \in Nat, NEW c \in Nat, c <= r + 1
    PROVE  Joint(L, r, c) = {}
<1>1. \A b : b \notin r + 1 .. c - 1
  OBVIOUS
<1> QED
  BY <1>1 DEF Joint

LEMMA JointIsFinite ==
    ASSUME NEW L, NEW n, IsSets(L, n), NEW r \in Nat, NEW c \in Nat, c <= n + 1
    PROVE  /\ IsFiniteSet(Joint(L, r, c))
           /\ Cardinality(Joint(L, r, c)) \in Nat
<1> DEFINE B == r + 1 .. c - 1
           f == [b \in B |-> L[b]]
           T == {f[b] : b \in B}
<1>1. n \in Nat /\ \A b \in B : b \in 1 .. n
  BY DEF IsSets
<1>2. IsFiniteSet(B)
  <2>1. r + 1 \in Int /\ c - 1 \in Int
    OBVIOUS
  <2> QED
    BY <2>1, FS_Interval
<1>3. IsFiniteSet(T)
  <2>1. DOMAIN f = B
    OBVIOUS
  <2> HIDE DEF f, B
  <2> QED
    BY <1>2, <2>1, ImageIsFinite
<1>4. \A s \in T : IsFiniteSet(s)
  BY <1>1 DEF IsSets
<1>5. Joint(L, r, c) = UNION T
  BY DEF Joint
<1> HIDE DEF T
<1>6. IsFiniteSet(UNION T)
  BY <1>3, <1>4, FS_UNION
<1> QED
  BY <1>5, <1>6, FS_CardinalityType

LEMMA ShortIsNumber ==
    ASSUME NEW L, NEW n, IsSets(L, n), NEW r \in 1 .. n + 1
    PROVE  Short(L, n, r) \in Int
<1>1. n \in Nat /\ r \in Nat
  BY DEF IsSets
<1>2. \A a \in 1 .. n : Cards(L, n)[a] \in Int
  BY FS_CardinalityType DEF Cards, IsSets
<1>3. 1 .. r - 1 \subseteq 1 .. n /\ 1 \in Int /\ r - 1 \in Int
  BY <1>1
<1>4. IsFiniteSet(1 .. r - 1)
  BY <1>3, FS_Interval
<1>5. SumFunctionOnSet(Cards(L, n), 1 .. r - 1) \in Int
  BY <1>2, <1>3, <1>4, OnSetNumber
<1>6. /\ Cardinality(Joint(L, 0, n + 1)) \in Nat
      /\ Cardinality(Joint(L, r - 1, n + 1)) \in Nat
  BY <1>1, JointIsFinite
<1> QED
  BY <1>5, <1>6 DEF Short

\* Nothing has been compared.
LEMMA ExcessBegins ==
    ASSUME NEW L, NEW n, IsSets(L, n), NEW r, r = 1, NEW c, c = 2, NEW t, t = 0
    PROVE  Excess(L, n, r, c, t)
<1>1. n \in Nat
  BY DEF IsSets
<1>2. ~Thrice(L, n, r, c)
  BY <1>1 DEF Thrice
<1>3. SumFunctionOnSet(Cards(L, n), 1 .. r - 1) = 0
  <2>1. 1 .. r - 1 = {}
    OBVIOUS
  <2> QED
    BY <2>1, OnSetNothing
<1>4. Cardinality(Joint(L, 0, n + 1)) \in Nat
  BY <1>1, JointIsFinite
<1>5. Cardinality(L[r] \cap Joint(L, r, c)) = 0
  <2>1. Joint(L, r, c) = {}
    BY JointNone
  <2>2. L[r] \cap Joint(L, r, c) = {}
    BY <2>1
  <2> QED
    BY <2>2, FS_EmptySet
<1>6. Short(L, n, r) = 0
  <2>1. r - 1 = 0
    OBVIOUS
  <2>2. Cardinality(Joint(L, r - 1, n + 1)) = Cardinality(Joint(L, 0, n + 1))
    BY <2>1
  <2> QED
    BY <1>3, <1>4, <2>2 DEF Short
<1> QED
  BY <1>2, <1>5, <1>6 DEF Excess

\* r is compared with c.
LEMMA ExcessPair ==
    ASSUME NEW L, NEW n, IsSets(L, n), NEW r \in 1 .. n, NEW c \in 1 .. n, r < c,
           NEW t \in Nat, Excess(L, n, r, c, t),
           NEW u, u = t + Cardinality(L[r] \cap L[c])
    PROVE  Excess(L, n, r, c + 1, u)
<1> DEFINE B == Joint(L, r, c)
           A == L[r] \cap B
           D == L[r] \cap L[c]
           e == t - Short(L, n, r) - Cardinality(A)
           g == u - Short(L, n, r) - Cardinality(L[r] \cap Joint(L, r, c + 1))
<1>1. n \in Nat /\ r \in Nat /\ c \in Nat /\ c <= n + 1 /\ IsFiniteSet(L[r])
  BY DEF IsSets
<1>2. /\ IsFiniteSet(A) /\ Cardinality(A) \in Nat
      /\ IsFiniteSet(D) /\ Cardinality(D) \in Nat
      /\ IsFiniteSet(A \cap D) /\ Cardinality(A \cap D) \in Nat
  <2>1. A \in SUBSET L[r] /\ D \in SUBSET L[r] /\ (A \cap D) \in SUBSET L[r]
    OBVIOUS
  <2> HIDE DEF A, D
  <2> QED
    BY <1>1, <2>1, FS_Subset, FS_CardinalityType
<1>3. L[r] \cap Joint(L, r, c + 1) = A \cup D
  BY <1>1, JointMore
<1>4. Cardinality(A \cup D)
          = Cardinality(A) + Cardinality(D) - Cardinality(A \cap D)
  <2> HIDE DEF A, D
  <2> QED
    BY <1>2, FS_Union
<1>5. e \in Nat /\ (e > 0 <=> Thrice(L, n, r, c))
  BY DEF Excess
<1>6. Short(L, n, r) \in Int
  BY <1>1, ShortIsNumber
<1>7. g = e + Cardinality(A \cap D)
  <2>1. u = t + Cardinality(D)
    OBVIOUS
  <2>2. g = u - Short(L, n, r) - Cardinality(A \cup D)
    BY <1>3
  <2>3. e = t - Short(L, n, r) - Cardinality(A)
    OBVIOUS
  <2> HIDE DEF A, D, e, g
  <2> QED
    BY <1>2, <1>4, <1>6, <2>1, <2>2, <2>3
<1>8. Cardinality(A \cap D) > 0 <=>
          \E b \in r + 1 .. c - 1 : \E x \in L[r] : x \in L[b] /\ x \in L[c]
  <2>1. Cardinality(A \cap D) = 0 <=> A \cap D = {}
    BY <1>2, FS_EmptySet
  <2>2. A \cap D # {} <=>
            \E b \in r + 1 .. c - 1 : \E x \in L[r] : x \in L[b] /\ x \in L[c]
    BY DEF Joint
  <2> HIDE DEF A, D
  <2> QED
    BY <1>2, <2>1, <2>2
<1>9. Thrice(L, n, r, c + 1) <=>
          \/ Thrice(L, n, r, c)
          \/ \E b \in r + 1 .. c - 1 : \E x \in L[r] : x \in L[b] /\ x \in L[c]
  <2>1. ASSUME Thrice(L, n, r, c + 1)
        PROVE  \/ Thrice(L, n, r, c)
               \/ \E b \in r + 1 .. c - 1 :
                      \E x \in L[r] : x \in L[b] /\ x \in L[c]
    <3>1. PICK a \in 1 .. n, b \in 1 .. n, d \in 1 .. n :
              /\ a < b /\ b < d /\ (a < r \/ (a = r /\ d < c + 1))
              /\ \E x \in L[a] : x \in L[b] /\ x \in L[d]
      BY <2>1 DEF Thrice
    <3>2. CASE a < r \/ (a = r /\ d < c)
      BY <3>1, <3>2 DEF Thrice
    <3>3. CASE a = r /\ d = c
      <4>1. b \in r + 1 .. c - 1
        BY <1>1, <3>1, <3>3
      <4> QED
        BY <3>1, <3>3, <4>1
    <3> QED
      BY <1>1, <3>1, <3>2, <3>3
  <2>2. ASSUME Thrice(L, n, r, c) PROVE Thrice(L, n, r, c + 1)
    <3>1. PICK a \in 1 .. n, b \in 1 .. n, d \in 1 .. n :
              /\ a < b /\ b < d /\ (a < r \/ (a = r /\ d < c))
              /\ \E x \in L[a] : x \in L[b] /\ x \in L[d]
      BY <2>2 DEF Thrice
    <3>2. a < r \/ (a = r /\ d < c + 1)
      BY <1>1, <3>1
    <3> QED
      BY <3>1, <3>2 DEF Thrice
  <2>3. ASSUME NEW b \in r + 1 .. c - 1,
               \E x \in L[r] : x \in L[b] /\ x \in L[c]
        PROVE  Thrice(L, n, r, c + 1)
    <3>1. b \in 1 .. n /\ r < b /\ b < c /\ c < c + 1
      BY <1>1
    <3> QED
      BY <2>3, <3>1 DEF Thrice
  <2> QED
    BY <2>1, <2>2, <2>3
<1>10. g \in Nat /\ (g > 0 <=> Thrice(L, n, r, c + 1))
  <2> HIDE DEF A, D, e, g
  <2> QED
    BY <1>2, <1>5, <1>7, <1>8, <1>9
<1> QED
  BY <1>10 DEF Excess

LEMMA ShortMore ==
    ASSUME NEW L, NEW n, IsSets(L, n), NEW r \in 1 .. n
    PROVE  Short(L, n, r + 1) = Short(L, n, r)
               + Cardinality(L[r] \cap Joint(L, r, n + 1))
<1> DEFINE S == 1 .. r - 1
           F == Cards(L, n)
           B == Joint(L, r, n + 1)
           A == Joint(L, r - 1, n + 1)
           C == Joint(L, 0, n + 1)
<1>1. /\ n \in Nat /\ r \in Nat /\ IsFiniteSet(L[r])
      /\ F[r] = Cardinality(L[r]) /\ Cardinality(L[r]) \in Nat
  BY FS_CardinalityType DEF IsSets, Cards
<1>2. SumFunctionOnSet(F, S \cup {r}) = SumFunctionOnSet(F, S) + F[r]
  <2>1. r \notin S /\ S \cup {r} \subseteq 1 .. n /\ 1 \in Int /\ r - 1 \in Int
    BY <1>1
  <2>2. IsFiniteSet(S)
    BY <2>1, FS_Interval
  <2>3. \A a \in 1 .. n : F[a] \in Int
    BY FS_CardinalityType DEF Cards, IsSets
  <2>4. \A a \in S \cup {r} : F[a] \in Int
    BY <2>1, <2>3
  <2> HIDE DEF F, S
  <2> QED
    BY <2>1, <2>2, <2>4, OnSetOneMore
<1>3. 1 .. (r + 1) - 1 = S \cup {r} /\ (r + 1) - 1 = r
  BY <1>1
<1>4. IsFiniteSet(B) /\ Cardinality(B) \in Nat /\ Cardinality(C) \in Nat
  BY <1>1, JointIsFinite
<1>5. A = L[r] \cup B
  BY <1>1, JointFirst
<1>6. Cardinality(L[r] \cup B)
          = Cardinality(L[r]) + Cardinality(B) - Cardinality(L[r] \cap B)
  BY <1>1, <1>4, FS_Union
<1>7. Cardinality(L[r] \cap B) \in Nat
  BY <1>1, FS_Intersection, FS_CardinalityType
<1>8. SumFunctionOnSet(F, S) \in Int
  <2>1. S \subseteq 1 .. n /\ 1 \in Int /\ r - 1 \in Int
    BY <1>1
  <2>2. IsFiniteSet(S)
    BY <2>1, FS_Interval
  <2>3. \A a \in 1 .. n : F[a] \in Int
    BY FS_CardinalityType DEF Cards, IsSets
  <2> HIDE DEF F, S
  <2> QED
    BY <2>1, <2>2, <2>3, OnSetNumber
<1>9. Short(L, n, r) = SumFunctionOnSet(F, S) - (Cardinality(C) - Cardinality(A))
  BY DEF Short
<1>10. Short(L, n, r + 1) =
           SumFunctionOnSet(F, S \cup {r}) - (Cardinality(C) - Cardinality(B))
  BY <1>3 DEF Short
<1> HIDE DEF S, F, A, B, C
<1>11. Short(L, n, r + 1) = Short(L, n, r) + Cardinality(L[r] \cap B)
  <2>1. Cardinality(A) = Cardinality(L[r]) + Cardinality(B) - Cardinality(L[r] \cap B)
    BY <1>5, <1>6
  <2>2. SumFunctionOnSet(F, S \cup {r}) = SumFunctionOnSet(F, S) + Cardinality(L[r])
    BY <1>1, <1>2
  <2> HIDE <1>2, <1>5, <1>6
  <2> QED
    BY <1>1, <1>4, <1>7, <1>8, <1>9, <1>10, <2>1, <2>2
<1> QED
  BY <1>11 DEF B

\* r was compared with all behind it.
LEMMA ExcessRow ==
    ASSUME NEW L, NEW n, IsSets(L, n), NEW r \in 1 .. n, r < n,
           NEW t \in Nat, NEW c, c = n + 1, Excess(L, n, r, c, t)
    PROVE  Excess(L, n, r + 1, r + 2, t)
<1>1. n \in Nat /\ r \in Nat /\ IsFiniteSet(L[r])
  BY DEF IsSets
<1>2. Cardinality(L[r + 1] \cap Joint(L, r + 1, r + 2)) = 0
  <2>1. Joint(L, r + 1, r + 2) = {}
    BY <1>1, JointNone
  <2>2. L[r + 1] \cap Joint(L, r + 1, r + 2) = {}
    BY <2>1
  <2> QED
    BY <2>2, FS_EmptySet
<1>3. Thrice(L, n, r + 1, r + 2) <=> Thrice(L, n, r, c)
  <2>1. \A a, b, d \in 1 .. n : a < b /\ b < d =>
            ((a < r + 1 \/ (a = r + 1 /\ d < r + 2)) <=> (a < r \/ (a = r /\ d < c)))
    BY <1>1
  <2> QED
    BY <2>1 DEF Thrice
<1>4. /\ Short(L, n, r + 1) = Short(L, n, r)
             + Cardinality(L[r] \cap Joint(L, r, c))
      /\ Short(L, n, r) \in Int
      /\ Cardinality(L[r] \cap Joint(L, r, c)) \in Nat
  <2>1. r \in 1 .. n + 1
    BY <1>1
  <2>2. Short(L, n, r) \in Int
    BY <2>1, ShortIsNumber
  <2> DEFINE B == Joint(L, r, c)
  <2>3. Cardinality(L[r] \cap B) \in Nat
    <3> HIDE DEF B
    <3> QED
      BY <1>1, FS_Intersection, FS_CardinalityType
  <2> QED
    BY <2>2, <2>3, ShortMore
<1> QED
  BY <1>2, <1>3, <1>4 DEF Excess

\* At the end: the excess over the elements that the sets have together.
LEMMA ExcessEnds ==
    ASSUME NEW L, NEW n, IsSets(L, n), NEW r \in Nat \ {0}, NEW t \in Nat,
           Excess(L, n, r, r + 1, t), r = n \/ (n = 0 /\ r = 1)
    PROVE  LET e == t - (SumFunctionOnSet(Cards(L, n), 1 .. n)
                             - Cardinality(UNION {L[a] : a \in 1 .. n}))
           IN  e \in Nat /\ (e > 0 <=> Thrice(L, n, n, n + 1))
<1> DEFINE C == Joint(L, 0, n + 1)
<1>1. n \in Nat
  BY DEF IsSets
<1>2. C = UNION {L[a] : a \in 1 .. n} /\ Cardinality(C) \in Nat
  <2>1. Cardinality(C) \in Nat
    BY <1>1, JointIsFinite
  <2>2. 0 + 1 .. (n + 1) - 1 = 1 .. n
    BY <1>1
  <2> QED
    BY <2>1, <2>2 DEF Joint
<1>3. Cardinality(L[r] \cap Joint(L, r, r + 1)) = 0
  <2>1. Joint(L, r, r + 1) = {}
    BY <1>1, JointNone
  <2>2. L[r] \cap Joint(L, r, r + 1) = {}
    BY <2>1
  <2> QED
    BY <2>2, FS_EmptySet
<1>4. SumFunctionOnSet(Cards(L, n), 1 .. n) \in Int
  <2>1. \A a \in 1 .. n : Cards(L, n)[a] \in Int
    BY FS_CardinalityType DEF Cards, IsSets
  <2>2. IsFiniteSet(1 .. n)
    BY <1>1, FS_Interval
  <2> QED
    BY <2>1, <2>2, OnSetNumber
<1>5. Short(L, n, r) = SumFunctionOnSet(Cards(L, n), 1 .. n) - Cardinality(C)
  <2>1. Short(L, n, n + 1) = SumFunctionOnSet(Cards(L, n), 1 .. n) - Cardinality(C)
    <3>1. (n + 1) - 1 = n
      BY <1>1
    <3>2. Joint(L, n, n + 1) = {}
      BY <1>1, JointNone
    <3>3. Short(L, n, n + 1) = SumFunctionOnSet(Cards(L, n), 1 .. n)
              - (Cardinality(C) - Cardinality({}))
      BY <3>1, <3>2 DEF Short
    <3> HIDE DEF C
    <3> QED
      BY <1>2, <1>4, <3>3, FS_EmptySet
  <2>2. CASE r = n
    <3>1. /\ r \in 1 .. n
          /\ Short(L, n, r + 1) = Short(L, n, r)
                 + Cardinality(L[r] \cap Joint(L, r, n + 1))
      BY <2>2, ShortMore
    <3>2. Cardinality(L[r] \cap Joint(L, r, n + 1)) = 0
      BY <1>3, <2>2
    <3>3. Short(L, n, r) \in Int
      BY <1>1, <3>1, ShortIsNumber
    <3> QED
      BY <2>1, <2>2, <3>1, <3>2, <3>3
  <2>3. CASE n = 0 /\ r = 1
    BY <2>1, <2>3
  <2> QED
    BY <2>2, <2>3
<1>6. Thrice(L, n, r, r + 1) <=> Thrice(L, n, n, n + 1)
  <2>1. CASE r = n
    BY <2>1
  <2>2. CASE n = 0
    <3>1. 1 .. n = {}
      BY <2>2
    <3> QED
      BY <3>1 DEF Thrice
  <2> QED
    BY <2>1, <2>2
<1> HIDE DEF C
<1>7. LET e == t - (SumFunctionOnSet(Cards(L, n), 1 .. n) - Cardinality(C))
      IN  e \in Nat /\ (e > 0 <=> Thrice(L, n, n, n + 1))
  BY <1>2, <1>3, <1>4, <1>5, <1>6 DEF Excess
<1> QED
  BY <1>2, <1>7

-----------------------------------------------------------------------------
(* The ranges of a file as such a list                                     *)

\* The frames of the ranges on a list, and what the whole list asks for.
FrameSets(f, s) == [a \in DOMAIN s |-> Frames(RangeOf(f, s[a]))]
AskedTotal(f) == MapThenSumSet(LAMBDA c : RangeOf(f, c).pend
                                             - RangeOf(f, c).pst, Valid(f))
FootprintOf(f) == UNION {Frames(r) : r \in create_ranges(f)}
AskingFor(f, x) == {c \in Valid(f) : x \in Frames(RangeOf(f, c))}
ThriceIn(f) == \E x \in FootprintOf(f) : Cardinality(AskingFor(f, x)) > 2

\* The frames of a range, counted.
LEMMA FramesAre ==
    ASSUME NEW f \in Seq(Vma), NEW c \in Valid(f)
    PROVE  /\ IsFiniteSet(Frames(RangeOf(f, c)))
           /\ Cardinality(Frames(RangeOf(f, c)))
                  = RangeOf(f, c).pend - RangeOf(f, c).pst
<1> DEFINE r == RangeOf(f, c)
<1>1. r.pst \in Int /\ r.pend \in Int /\ r.pst < r.pend
  BY RangeOfIsARange DEF PfnRange
<1> HIDE DEF r
<1>2. r.pend - 1 \in Int /\ ~(r.pst > r.pend - 1)
      /\ (r.pend - 1) - r.pst + 1 = r.pend - r.pst
  BY <1>1
<1>3. IsFiniteSet(r.pst .. r.pend - 1)
      /\ Cardinality(r.pst .. r.pend - 1) = (r.pend - 1) - r.pst + 1
  BY <1>1, <1>2, FS_Interval
<1>4. IsFiniteSet(Frames(r)) /\ Cardinality(Frames(r)) = r.pend - r.pst
  BY <1>2, <1>3 DEF Frames
<1> QED
  BY <1>4 DEF r

LEMMA FrameSetsAre ==
    ASSUME NEW f \in Seq(Vma), NEW s \in Sorted(f)
    PROVE  IsSets(FrameSets(f, s), Len(s))
<1>1. Len(s) \in Nat /\ DOMAIN s = 1 .. Len(s)
      /\ \A a \in DOMAIN s : s[a] \in Valid(f)
  BY SortedIsList
<1>2. ASSUME NEW a \in 1 .. Len(s)
      PROVE  IsFiniteSet(FrameSets(f, s)[a])
  <2>1. s[a] \in Valid(f)
    BY <1>1
  <2>2. IsFiniteSet(Frames(RangeOf(f, s[a])))
    BY <2>1, FramesAre
  <2> QED
    BY <1>1, <2>2 DEF FrameSets
<1> QED
  BY <1>1, <1>2 DEF IsSets

\* The sum of the sizes is one over the places of the list.
LEMMA AskedTotalIs ==
    ASSUME NEW f \in Seq(Vma), NEW s \in Sorted(f), NEW n, n = Len(s)
    PROVE  AskedTotal(f)
               = SumFunctionOnSet(Cards(FrameSets(f, s), n), 1 .. n)
<1> DEFINE V == Valid(f)
           size(c) == RangeOf(f, c).pend - RangeOf(f, c).pst
           g == [c \in V |-> size(c)]
           F == Cards(FrameSets(f, s), n)
           Fits(I) == I = [v \in SUBSET V |->
                               IF v = {} THEN 0
                               ELSE size(First(v)) + I[v \ {First(v)}]]
           I == CHOOSE J : Fits(J)
           At(m) == {s[a] : a \in 1 .. m}
           Same == {m \in Nat : m <= n => SumFunctionOnSet(g, At(m))
                                              = SumFunctionOnSet(F, 1 .. m)}
<1>1. n \in Nat /\ DOMAIN s = 1 .. n /\ \A a \in 1 .. n : s[a] \in V
  BY SortedIsList
<1>2. IsFiniteSet(V)
  BY ValidIsFinite
<1>3. \A c \in V : g[c] = size(c) /\ size(c) \in Int
  BY RangeOfIsARange DEF PfnRange
<1>4. \A a \in 1 .. n : F[a] = g[s[a]] /\ F[a] \in Int
  <2> TAKE a \in 1 .. n
  <2>1. s[a] \in V
    BY <1>1
  <2>2. F[a] = Cardinality(Frames(RangeOf(f, s[a])))
    BY <1>1 DEF Cards, FrameSets
  <2>3. Cardinality(Frames(RangeOf(f, s[a]))) = size(s[a])
    BY <2>1, FramesAre
  <2> QED
    BY <1>3, <2>1, <2>2, <2>3
<1>5. AskedTotal(f) = I[V]
  BY DEF AskedTotal, MapThenSumSet, MapThenFoldSet, First
<1> HIDE DEF V, size, F
<1>6. \A J : Fits(J) <=> IsSetSum(J, g, V)
  <2> TAKE J
  <2>1. \A v \in SUBSET V : v # {} => g[First(v)] = size(First(v))
    BY FirstOf
  <2> QED
    BY <2>1 DEF IsSetSum
<1> HIDE DEF g, Fits
<1>7. PICK J : IsSetSum(J, g, V) /\ SumFunctionOnSet(g, V) = J[V]
  BY <1>2, OnSetIsSetSum
<1>8. IsSetSum(I, g, V)
  BY <1>6, <1>7
<1> HIDE DEF I
<1>9. I[V] = J[V]
  <2>1. V \in SUBSET V /\ V \subseteq V
    OBVIOUS
  <2> QED
    BY <1>2, <1>7, <1>8, <2>1, SetSumOfSame
<1>10. 0 \in Same
  <2>1. At(0) = {} /\ 1 .. 0 = {}
    OBVIOUS
  <2> QED
    BY <2>1, OnSetNothing
<1>11. ASSUME NEW m \in Nat, m \in Same
       PROVE  m + 1 \in Same
  <2> SUFFICES ASSUME m + 1 <= n
               PROVE  SumFunctionOnSet(g, At(m + 1))
                          = SumFunctionOnSet(F, 1 .. m + 1)
    OBVIOUS
  <2> DEFINE A == At(m)
             y == s[m + 1]
  <2>1. m + 1 \in 1 .. n /\ 1 .. m \subseteq 1 .. n /\ m + 1 \notin 1 .. m
        /\ 1 .. m + 1 = 1 .. m \cup {m + 1}
    BY <1>1
  <2>2. At(m + 1) = A \cup {y}
    BY <2>1
  <2>3. A \subseteq V /\ y \in V
    BY <1>1, <2>1
  <2>4. y \notin A
    <3> SUFFICES ASSUME NEW a \in 1 .. m, s[a] = y
                 PROVE  FALSE
      OBVIOUS
    <3>1. a \in DOMAIN s /\ m + 1 \in DOMAIN s /\ a # m + 1
      BY <1>1, <2>1
    <3> QED
      BY <3>1, SortedApart
  <2>5. IsFiniteSet(A) /\ IsFiniteSet(1 .. m)
    <3>1. 1 \in Int /\ m \in Int
      OBVIOUS
    <3> QED
      BY <1>2, <2>3, <3>1, FS_Subset, FS_Interval
  <2>6. SumFunctionOnSet(g, A) = SumFunctionOnSet(F, 1 .. m)
    BY <1>11, <2>1
  <2>7. g[y] = F[m + 1] /\ \A c \in A \cup {y} : g[c] \in Int
    <3>1. \A c \in A \cup {y} : c \in V
      BY <2>3
    <3> QED
      BY <1>3, <1>4, <2>1, <3>1
  <2>8. \A a \in 1 .. m \cup {m + 1} : F[a] \in Int
    BY <1>4, <2>1
  <2> HIDE DEF A, y
  <2>9. SumFunctionOnSet(g, A \cup {y}) = SumFunctionOnSet(g, A) + g[y]
    BY <2>4, <2>5, <2>7, OnSetOneMore
  <2>10. SumFunctionOnSet(F, 1 .. m \cup {m + 1})
             = SumFunctionOnSet(F, 1 .. m) + F[m + 1]
    <3> DEFINE M == 1 .. m
               k == m + 1
    <3>1. IsFiniteSet(M) /\ k \notin M /\ \A a \in M \cup {k} : F[a] \in Int
      BY <2>1, <2>5, <2>8
    <3> HIDE DEF M, k
    <3>2. SumFunctionOnSet(F, M \cup {k}) = SumFunctionOnSet(F, M) + F[k]
      BY <3>1, OnSetOneMore
    <3> QED
      BY <3>2 DEF M, k
  <2> QED
    BY <2>1, <2>2, <2>6, <2>7, <2>9, <2>10
<1>12. At(n) = V
  BY <1>1, SortedIsAll DEF V
<1>13. SumFunctionOnSet(g, At(n)) = SumFunctionOnSet(F, 1 .. n)
  <2> HIDE DEF Same
  <2>1. n \in Same
    BY <1>1, <1>10, <1>11, NumbersOf
  <2> QED
    BY <1>1, <2>1 DEF Same
<1> QED
  BY <1>5, <1>7, <1>9, <1>12, <1>13 DEF F

LEMMA FootprintIs ==
    ASSUME NEW f \in Seq(Vma), NEW s \in Sorted(f), NEW n, n = Len(s)
    PROVE  UNION {FrameSets(f, s)[a] : a \in 1 .. n} = FootprintOf(f)
<1>1. DOMAIN s = 1 .. n
  BY SortedIsList
<1>2. {s[a] : a \in DOMAIN s} = Valid(f)
  BY SortedIsAll
<1> QED
  BY <1>1, <1>2 DEF FootprintOf, create_ranges, FrameSets

\* Three things in a set are more than two, and the converse.
LEMMA ThreeOf ==
    ASSUME NEW S, IsFiniteSet(S)
    PROVE  Cardinality(S) > 2 <=>
               \E x, y, z \in S : x # y /\ y # z /\ x # z
<1>1. Cardinality(S) \in Nat
  BY FS_CardinalityType
<1>2. ASSUME NEW x \in S, NEW y \in S, NEW z \in S, x # y, y # z, x # z
      PROVE  Cardinality(S) > 2
  <2>1. IsFiniteSet({x}) /\ Cardinality({x}) = 1
    BY FS_Singleton
  <2> DEFINE P == {x} \cup {y}
             T == P \cup {z}
  <2>2. IsFiniteSet(P) /\ Cardinality(P) = 2
    <3>1. y \notin {x}
      BY <1>2
    <3> DEFINE one == {x}
    <3>2. IsFiniteSet(one) /\ Cardinality(one) = 1 /\ y \notin one
      BY <2>1, <3>1
    <3> HIDE DEF one
    <3>3. IsFiniteSet(one \cup {y})
          /\ Cardinality(one \cup {y}) = Cardinality(one) + 1
      BY <3>2, FS_AddElement
    <3>4. IsFiniteSet(one \cup {y}) /\ Cardinality(one \cup {y}) = 2
      BY <3>2, <3>3
    <3> QED
      BY <3>4 DEF one
  <2>3. z \notin P /\ T \in SUBSET S
    BY <1>2
  <2> HIDE DEF P
  <2>4. IsFiniteSet(T) /\ Cardinality(T) = 3
    BY <2>2, <2>3, FS_AddElement
  <2> HIDE DEF T
  <2>5. Cardinality(T) <= Cardinality(S)
    BY <2>3, FS_Subset
  <2> QED
    BY <1>1, <2>4, <2>5
<1>3. ASSUME Cardinality(S) > 2
      PROVE  \E x, y, z \in S : x # y /\ y # z /\ x # z
  <2>1. PICK x : x \in S
    BY <1>1, <1>3, FS_EmptySet
  <2> DEFINE T == S \ {x}
  <2>2. IsFiniteSet(T) /\ Cardinality(T) = Cardinality(S) - 1
    BY <2>1, FS_RemoveElement
  <2>3. PICK y : y \in T
    <3> HIDE DEF T
    <3>1. Cardinality(T) # 0
      BY <1>1, <1>3, <2>2
    <3> QED
      BY <2>2, <3>1, FS_EmptySet
  <2> DEFINE U == T \ {y}
  <2>4. IsFiniteSet(U) /\ Cardinality(U) = Cardinality(T) - 1
    <3> HIDE DEF T
    <3> QED
      BY <2>2, <2>3, FS_RemoveElement
  <2>5. PICK z : z \in U
    <3> HIDE DEF T, U
    <3>1. Cardinality(U) # 0
      BY <1>1, <1>3, <2>2, <2>4
    <3> QED
      BY <2>4, <3>1, FS_EmptySet
  <2> QED
    BY <2>1, <2>3, <2>5
<1> QED
  BY <1>2, <1>3

LEMMA ThriceIs ==
    ASSUME NEW f \in Seq(Vma), NEW s \in Sorted(f), NEW n, n = Len(s)
    PROVE  Thrice(FrameSets(f, s), n, n, n + 1) <=> ThriceIn(f)
<1> DEFINE L == FrameSets(f, s)
<1>1. n \in Nat /\ DOMAIN s = 1 .. n /\ \A a \in 1 .. n : s[a] \in Valid(f)
  BY SortedIsList
<1>2. \A c \in Valid(f) : \E a \in 1 .. n : c = s[a]
  BY <1>1, SortedIsAll
<1>3. \A x : \A a \in 1 .. n : x \in L[a] <=> s[a] \in AskingFor(f, x)
  BY <1>1 DEF FrameSets, AskingFor
<1>4. \A x : \A c \in AskingFor(f, x) : c \in Valid(f) /\ x \in FootprintOf(f)
  BY DEF AskingFor, FootprintOf, create_ranges
<1>5. \A x : IsFiniteSet(AskingFor(f, x))
  <2> TAKE x
  <2>1. AskingFor(f, x) \in SUBSET Valid(f)
    BY DEF AskingFor
  <2> QED
    BY <2>1, ValidIsFinite, FS_Subset
<1> HIDE DEF L
<1>6. ASSUME Thrice(L, n, n, n + 1) PROVE ThriceIn(f)
  <2>1. PICK a \in 1 .. n, b \in 1 .. n, d \in 1 .. n :
            /\ a < b /\ b < d
            /\ \E x \in L[a] : x \in L[b] /\ x \in L[d]
    BY <1>6 DEF Thrice
  <2>2. PICK x : x \in L[a] /\ x \in L[b] /\ x \in L[d]
    BY <2>1
  <2>3. s[a] # s[b] /\ s[b] # s[d] /\ s[a] # s[d]
    <3>1. a # b /\ b # d /\ a # d
      BY <2>1
    <3> QED
      BY <1>1, <3>1, SortedApart
  <2>4. s[a] \in AskingFor(f, x) /\ s[b] \in AskingFor(f, x)
        /\ s[d] \in AskingFor(f, x)
    BY <1>3, <2>2
  <2>5. Cardinality(AskingFor(f, x)) > 2
    BY <1>5, <2>3, <2>4, ThreeOf
  <2> QED
    BY <1>4, <2>4, <2>5 DEF ThriceIn
<1>7. ASSUME ThriceIn(f) PROVE Thrice(L, n, n, n + 1)
  <2>1. PICK x : Cardinality(AskingFor(f, x)) > 2
    BY <1>7 DEF ThriceIn
  <2>2. PICK u \in AskingFor(f, x), v \in AskingFor(f, x),
             w \in AskingFor(f, x) : u # v /\ v # w /\ u # w
    BY <1>5, <2>1, ThreeOf
  <2>3. PICK a \in 1 .. n, b \in 1 .. n, d \in 1 .. n :
            u = s[a] /\ v = s[b] /\ w = s[d]
    BY <1>2, <1>4
  <2>4. a # b /\ b # d /\ a # d
    BY <2>2, <2>3
  <2>5. x \in L[a] /\ x \in L[b] /\ x \in L[d]
    BY <1>3, <2>3
  <2>6. \A k \in 1 .. n, l \in 1 .. n, m \in 1 .. n :
            k < l /\ l < m /\ x \in L[k] /\ x \in L[l] /\ x \in L[m]
                => Thrice(L, n, n, n + 1)
    BY <1>1 DEF Thrice
  <2>7. \/ a < b /\ b < d
        \/ a < d /\ d < b
        \/ b < a /\ a < d
        \/ b < d /\ d < a
        \/ d < a /\ a < b
        \/ d < b /\ b < a
    BY <1>1, <2>4
  <2> QED
    BY <2>5, <2>6, <2>7
<1> QED
  BY <1>6, <1>7 DEF L

\* How far the walk has got, when r is to be compared with c.
Compared(f, s, r, c, t) ==
    /\ Excess(FrameSets(f, s), Len(s), r, c, t)
    /\ \/ r < Len(s) /\ c <= Len(s) + 1
       \/ (r = Len(s) \/ (Len(s) = 0 /\ r = 1)) /\ c = r + 1

\* What the walk has found is what the frames asked for are short of.
Agreed(f, t) ==
    /\ AskedTotal(f) \in Int /\ Cardinality(FootprintOf(f)) \in Int
    /\ LET e == t - (AskedTotal(f) - Cardinality(FootprintOf(f)))
       IN  e \in Nat /\ (e > 0 <=> ThriceIn(f))

LEMMA ComparedBegins ==
    ASSUME NEW f \in Seq(Vma), NEW s \in Sorted(f),
           NEW r, r = 1, NEW c, c = 2, NEW t, t = 0
    PROVE  Compared(f, s, r, c, t)
<1> DEFINE L == FrameSets(f, s)
           n == Len(s)
<1>1. IsSets(L, n) /\ n \in Nat
  BY FrameSetsAre, SortedIsList
<1> HIDE DEF L, n
<1>2. Excess(L, n, r, c, t)
  BY <1>1, ExcessBegins
<1>3. (r < n /\ c <= n + 1) \/ ((r = n \/ (n = 0 /\ r = 1)) /\ c = r + 1)
  BY <1>1
<1> QED
  BY <1>2, <1>3 DEF Compared, L, n

\* What the ranges at two places of the list have in common.
CommonIn(f, s, r, c) ==
    Cardinality(Frames(RangeOf(f, s[r])) \cap Frames(RangeOf(f, s[c])))

LEMMA ComparedPair ==
    ASSUME NEW f \in Seq(Vma), NEW s \in Sorted(f), NEW r \in Nat \ {0},
           NEW c \in Nat, r < c, r < Len(s), c <= Len(s), NEW t \in Nat,
           Compared(f, s, r, c, t), NEW u, u = t + CommonIn(f, s, r, c)
    PROVE  Compared(f, s, r, c + 1, u)
<1> DEFINE L == FrameSets(f, s)
           n == Len(s)
<1>1. IsSets(L, n) /\ n \in Nat /\ DOMAIN s = 1 .. n
  BY FrameSetsAre, SortedIsList
<1>2. r \in 1 .. n /\ c \in 1 .. n
  BY <1>1
<1>3. u = t + Cardinality(L[r] \cap L[c])
  BY <1>1, <1>2 DEF CommonIn, FrameSets
<1>4. Excess(L, n, r, c, t)
  BY DEF Compared
<1> HIDE DEF L, n
<1>5. Excess(L, n, r, c + 1, u)
  BY <1>1, <1>2, <1>3, <1>4, ExcessPair
<1>6. r < n /\ c + 1 <= n + 1
  BY <1>1, <1>2 DEF n
<1> QED
  BY <1>5, <1>6 DEF Compared, L, n

LEMMA ComparedRow ==
    ASSUME NEW f \in Seq(Vma), NEW s \in Sorted(f), NEW r \in Nat \ {0},
           NEW c \in Nat, r < Len(s), c > Len(s), NEW t \in Nat,
           Compared(f, s, r, c, t)
    PROVE  Compared(f, s, r + 1, r + 2, t)
<1> DEFINE L == FrameSets(f, s)
           n == Len(s)
<1>1. IsSets(L, n) /\ n \in Nat
  BY FrameSetsAre, SortedIsList
<1>2. r \in 1 .. n /\ r < n /\ c = n + 1 /\ Excess(L, n, r, c, t)
  BY <1>1 DEF Compared
<1>3. \/ r + 1 < n /\ r + 2 <= n + 1
      \/ r + 1 = n /\ r + 2 = (r + 1) + 1
  BY <1>1, <1>2
<1> HIDE DEF L, n
<1>4. Excess(L, n, r + 1, r + 2, t)
  BY <1>1, <1>2, ExcessRow
<1> QED
  BY <1>3, <1>4 DEF Compared, L, n

LEMMA ComparedAll ==
    ASSUME NEW f \in Seq(Vma), NEW s \in Sorted(f), NEW r \in Nat \ {0},
           NEW c \in Nat, r >= Len(s), NEW t \in Nat, Compared(f, s, r, c, t)
    PROVE  Agreed(f, t)
<1> DEFINE L == FrameSets(f, s)
           n == Len(s)
           U == UNION {L[a] : a \in 1 .. n}
           sum == SumFunctionOnSet(Cards(L, n), 1 .. n)
<1>1. IsSets(L, n) /\ n \in Nat
  BY FrameSetsAre, SortedIsList
<1>2. c = r + 1 /\ (r = n \/ (n = 0 /\ r = 1)) /\ Excess(L, n, r, c, t)
  BY <1>1 DEF Compared
<1>3. U = FootprintOf(f)
  BY FootprintIs
<1>4. sum = AskedTotal(f)
  BY AskedTotalIs
<1>5. Thrice(L, n, n, n + 1) <=> ThriceIn(f)
  BY ThriceIs
<1>8. sum \in Int /\ Cardinality(U) \in Int
  <2>1. Joint(L, 0, n + 1) = U
    <3>1. 0 + 1 .. (n + 1) - 1 = 1 .. n
      BY <1>1
    <3> QED
      BY <3>1 DEF Joint
  <2>2. \A a \in 1 .. n : Cards(L, n)[a] \in Int
    BY <1>1, FS_CardinalityType DEF Cards, IsSets
  <2>3. IsFiniteSet(1 .. n)
    BY <1>1, FS_Interval
  <2>4. sum \in Int
    BY <2>2, <2>3, OnSetNumber
  <2>5. Cardinality(Joint(L, 0, n + 1)) \in Nat
    <3> HIDE DEF L, n
    <3>1. 0 \in Nat /\ n + 1 \in Nat /\ n + 1 <= n + 1
      BY <1>1
    <3> QED
      BY <1>1, <3>1, JointIsFinite
  <2> HIDE DEF L, n, U, sum
  <2> QED
    BY <2>1, <2>4, <2>5
<1> HIDE DEF L, n
<1>6. Excess(L, n, r, r + 1, t)
  BY <1>2
<1>7. LET e == t - (sum - Cardinality(U))
      IN  e \in Nat /\ (e > 0 <=> Thrice(L, n, n, n + 1))
  BY <1>1, <1>2, <1>6, ExcessEnds
<1> HIDE DEF U, sum
<1> QED
  BY <1>3, <1>4, <1>5, <1>7, <1>8 DEF Agreed

-----------------------------------------------------------------------------
(* What find_overlapping_subvmas.py adds up                                *)

\* In the first walk the total is that of the pairs compared so far; from its
\* end on it has the excess of all, which the second walk leaves alone.
OverlapInv ==
    /\ 1 \in DOMAIN total /\ total[1] \in Nat
    /\ IF walk = 1 /\ over_pc = "walk"
       THEN Compared(file, pfn_ranges, over_i, over_j, total[1])
       ELSE Agreed(file, total[1])
    /\ pc # "start" => over_pc \in {"done", "error"}

LEMMA OverSize ==
    ASSUME ListInv, over_pc = "walk", walk = 1, Over!Pair
    PROVE  /\ CommonIn(file, pfn_ranges, over_i, over_j)
                  = IF Over!are_overlapping THEN Over!OverlapSize ELSE 0
           /\ Over!OverlapSize \in Int
           /\ over_i < Len(pfn_ranges) /\ over_j <= Len(pfn_ranges)
<1> DEFINE s == pfn_ranges
           x == RangeOf(file, s[over_i])
           y == RangeOf(file, s[over_j])
<1>1. /\ file \in Seq(Vma) /\ s \in Sorted(file) /\ svmas = file
      /\ over_i \in Nat \ {0} /\ over_j \in Nat /\ over_i < over_j
  BY DEF ListInv, OverTypeOK, Found, Walking
<1>2. /\ Len(s) \in Nat /\ DOMAIN s = 1 .. Len(s)
      /\ \A a \in DOMAIN s : s[a] \in Valid(file)
  BY <1>1, SortedIsList
<1>3. over_i < Len(s) /\ over_j <= Len(s)
  BY DEF Over!Pair
<1>4. s[over_i] \in Valid(file) /\ s[over_j] \in Valid(file)
  BY <1>1, <1>2, <1>3
<1>5. /\ x.pst \in Int /\ x.pend \in Int /\ x.pst < x.pend
      /\ y.pst \in Int /\ y.pend \in Int /\ y.pst < y.pend
  BY <1>1, <1>4, RangeOfIsARange DEF PfnRange
<1>6. Over!Outer = x /\ Over!Other = y
  BY <1>1, OverReads DEF Over!Outer, Over!Other
<1>7. CommonIn(file, s, over_i, over_j) = Cardinality(Frames(x) \cap Frames(y))
  BY DEF CommonIn
<1> HIDE DEF x, y
<1> DEFINE lo == IF x.pst >= y.pst THEN x.pst ELSE y.pst
           hi == IF x.pend <= y.pend THEN x.pend ELSE y.pend
<1>8. lo \in Int /\ hi \in Int /\ hi - 1 \in Int
  BY <1>5
<1>9. Over!OverlapSize = hi - lo
  BY <1>6 DEF Over!OverlapSize, Over!Larger, Over!Smaller
<1>10. Frames(x) \cap Frames(y) = lo .. hi - 1
  BY <1>5 DEF Frames
<1> HIDE DEF lo, hi
<1>11. Cardinality(lo .. hi - 1) = IF lo > hi - 1 THEN 0 ELSE (hi - 1) - lo + 1
  BY <1>8, FS_Interval
<1>12. Cardinality(lo .. hi - 1) = IF hi - lo > 0 THEN hi - lo ELSE 0
  BY <1>8, <1>11
<1>13. CommonIn(file, s, over_i, over_j) = Cardinality(lo .. hi - 1)
  BY <1>7, <1>10
<1>14. Over!are_overlapping <=> hi - lo > 0
  BY <1>9 DEF Over!are_overlapping
<1> QED
  BY <1>3, <1>8, <1>9, <1>12, <1>13, <1>14

LEMMA InitOverlapInv == ToolsInit => OverlapInv
<1> SUFFICES ASSUME ToolsInit PROVE OverlapInv
  OBVIOUS
<1>1. /\ file \in Seq(Vma) /\ pfn_ranges \in Sorted(file)
      /\ over_pc = "walk" /\ walk = 1 /\ over_i = 1 /\ over_j = 2
      /\ total = <<0, 0>> /\ pc = "start"
  BY FilesAssumption, OverReads DEF ToolsInit, Init, Over!Parsed
<1>2. 1 \in DOMAIN total /\ total[1] = 0
  BY <1>1
<1>3. Compared(file, pfn_ranges, over_i, over_j, total[1])
  BY <1>1, <1>2, ComparedBegins
<1> QED
  BY <1>1, <1>2, <1>3 DEF OverlapInv

LEMMA NextOverlapInv ==
    ListInv /\ OverlapInv /\ [ToolsNext]_<<vars, overVars, printVars>>
    => OverlapInv'
<1> SUFFICES ASSUME ListInv, OverlapInv, [ToolsNext]_<<vars, overVars, printVars>>
             PROVE  OverlapInv'
  OBVIOUS
<1> DEFINE t == total[1]
<1>1. file' = file
  BY ToolsKeepFile
<1>2. /\ file \in Seq(Vma) /\ over_i \in Nat \ {0} /\ over_j \in Nat
      /\ over_i < over_j /\ walk \in {1, 2}
      /\ over_pc \in {"walk", "remove", "done", "error"}
      /\ walk = 2 => over_pc \in {"walk", "done"}
      /\ walk = 1 => pfn_ranges \in Sorted(file)
  BY DEF ListInv, OverTypeOK, Found, Walking
<1>3. t \in Nat /\ 1 \in DOMAIN total
  BY DEF OverlapInv
<1>4. CASE UNCHANGED overVars /\ (pc' # "start" => pc # "start" \/ OverEnded)
  BY <1>1, <1>4 DEF OverlapInv, overVars, OverEnded
<1>5. CASE FindOverlapping
  <2>1. pc = "start" /\ pc' = "start"
    BY <1>2, <1>5 DEF FindOverlapping, OverEnded, vars, OverlapInv
  <2>2. CASE walk = 1 /\ over_pc = "walk" /\ Over!Apart
    <3>1. /\ Over!Pair /\ ~Over!are_overlapping /\ over_j' = over_j + 1
          /\ over_i' = over_i /\ pfn_ranges' = pfn_ranges /\ total' = total
          /\ walk' = walk /\ over_pc' = over_pc
      BY <2>2 DEF Over!Apart
    <3>2. /\ CommonIn(file, pfn_ranges, over_i, over_j) = 0
          /\ over_i < Len(pfn_ranges) /\ over_j <= Len(pfn_ranges)
      BY <2>2, <3>1, OverSize
    <3>3. t = t + CommonIn(file, pfn_ranges, over_i, over_j)
      BY <1>3, <3>2
    <3>4. Compared(file, pfn_ranges, over_i, over_j, t)
      BY <2>2 DEF OverlapInv
    <3>5. Compared(file, pfn_ranges, over_i, over_j + 1, t)
      BY <1>2, <1>3, <2>2, <3>2, <3>3, <3>4, ComparedPair
    <3> QED
      BY <1>1, <1>3, <2>1, <2>2, <3>1, <3>5 DEF OverlapInv
  <2>3. CASE walk = 1 /\ over_pc = "walk" /\ Over!Overlap
    <3>1. /\ Over!Pair /\ Over!are_overlapping /\ over_j' = over_j + 1
          /\ over_i' = over_i /\ pfn_ranges' = pfn_ranges
          /\ total' = [total EXCEPT ![walk] = @ + Over!OverlapSize]
          /\ walk' = walk /\ over_pc' = over_pc
      BY <2>3 DEF Over!Overlap
    <3>2. /\ CommonIn(file, pfn_ranges, over_i, over_j) = Over!OverlapSize
          /\ over_i < Len(pfn_ranges) /\ over_j <= Len(pfn_ranges)
          /\ Over!OverlapSize \in Int /\ Over!OverlapSize > 0
      BY <2>3, <3>1, OverSize DEF Over!are_overlapping
    <3>3. /\ 1 \in DOMAIN total'
          /\ total'[1] = t + CommonIn(file, pfn_ranges, over_i, over_j)
      BY <1>3, <2>3, <3>1, <3>2
    <3>4. total'[1] \in Nat
      BY <1>3, <3>2, <3>3
    <3>5. Compared(file, pfn_ranges, over_i, over_j, t)
      BY <2>3 DEF OverlapInv
    <3>6. Compared(file, pfn_ranges, over_i, over_j + 1, total'[1])
      BY <1>2, <1>3, <2>3, <3>2, <3>3, <3>5, ComparedPair
    <3> QED
      BY <1>1, <2>1, <2>3, <3>1, <3>3, <3>4, <3>6 DEF OverlapInv
  <2>4. CASE walk = 1 /\ over_pc = "walk" /\ Over!NextRange
    <3>1. /\ over_i < Len(pfn_ranges) /\ over_j > Len(pfn_ranges)
          /\ over_i' = over_i + 1 /\ over_j' = over_i + 2
          /\ pfn_ranges' = pfn_ranges /\ total' = total
          /\ walk' = walk /\ over_pc' = over_pc
      BY <2>4 DEF Over!NextRange
    <3>2. Compared(file, pfn_ranges, over_i, over_j, t)
      BY <2>4 DEF OverlapInv
    <3>3. Compared(file, pfn_ranges, over_i + 1, over_i + 2, t)
      BY <1>2, <1>3, <2>4, <3>1, <3>2, ComparedRow
    <3> QED
      BY <1>1, <1>3, <2>1, <2>4, <3>1, <3>3 DEF OverlapInv
  <2>5. CASE walk = 1 /\ over_pc = "walk" /\ Over!Walked
    <3>1. /\ over_i >= Len(pfn_ranges) /\ over_pc' = "remove" /\ total' = total
      BY <2>5 DEF Over!Walked, Over!walker
    <3>2. Compared(file, pfn_ranges, over_i, over_j, t)
      BY <2>5 DEF OverlapInv
    <3>3. Agreed(file, t)
      BY <1>2, <1>3, <2>5, <3>1, <3>2, ComparedAll
    <3> QED
      BY <1>1, <1>3, <2>1, <3>1, <3>3 DEF OverlapInv
  <2>6. CASE walk = 1 /\ over_pc # "walk"
    <3>1. Agreed(file, t)
      BY <2>6 DEF OverlapInv
    <3>2. total' = total /\ ~(walk' = 1 /\ over_pc' = "walk")
      <4>1. Over!Next
        BY <1>5 DEF FindOverlapping
      <4>2. CASE Over!RemoveOne \/ Over!RemoveFails \/ Over!WalkAgain
        BY <2>6, <4>2 DEF Over!RemoveOne, Over!RemoveFails, Over!WalkAgain,
           Over!walker
      <4>3. CASE Over!Apart \/ Over!Overlap \/ Over!NextRange \/ Over!Walked
        BY <2>6, <4>3 DEF Over!Apart, Over!Overlap, Over!NextRange, Over!Walked,
           Over!Pair
      <4> QED
        BY <4>1, <4>2, <4>3 DEF Over!Next
    <3> QED
      BY <1>1, <1>3, <2>1, <3>1, <3>2 DEF OverlapInv
  <2>7. CASE walk = 2
    <3>1. Agreed(file, t)
      BY <2>7 DEF OverlapInv
    <3>2. walk' = 2 /\ 1 \in DOMAIN total' /\ total'[1] = t
      <4>1. Over!Next
        BY <1>5 DEF FindOverlapping
      <4>2. CASE Over!Overlap
        <5>1. walk' = 2 /\ total' = [total EXCEPT ![2] = @ + Over!OverlapSize]
          BY <2>7, <4>2 DEF Over!Overlap
        <5> QED
          BY <1>3, <5>1
      <4>3. CASE Over!Apart \/ Over!NextRange \/ Over!Walked
        BY <1>3, <2>7, <4>3 DEF Over!Apart, Over!NextRange, Over!Walked,
           Over!walker
      <4>4. CASE Over!RemoveOne \/ Over!RemoveFails \/ Over!WalkAgain
        BY <1>2, <2>7, <4>4 DEF Over!RemoveOne, Over!RemoveFails,
           Over!WalkAgain
      <4> QED
        BY <4>1, <4>2, <4>3, <4>4 DEF Over!Next
    <3> QED
      BY <1>1, <1>3, <2>1, <3>1, <3>2 DEF OverlapInv
  <2>8. CASE walk = 1 /\ over_pc = "walk"
    <3>1. \/ Over!Apart \/ Over!Overlap \/ Over!NextRange \/ Over!Walked
      BY <1>5, <2>8 DEF FindOverlapping, Over!Next, Over!RemoveOne,
         Over!RemoveFails, Over!WalkAgain
    <3> QED
      BY <2>2, <2>3, <2>4, <2>5, <2>8, <3>1
  <2> QED
    BY <1>2, <2>6, <2>7, <2>8
<1>6. CASE CalcOptimal
  BY <1>4, <1>6 DEF CalcOptimal
<1>7. CASE PrintFile
  BY <1>4, <1>7 DEF PrintFile, vars
<1>8. CASE UNCHANGED <<vars, overVars, printVars>>
  BY <1>4, <1>8 DEF vars
<1> QED
  BY <1>5, <1>6, <1>7, <1>8 DEF ToolsNext

\* What the pairs of find_overlapping_subvmas.py share, against what the ranges
\* of calc_optimal_results.py are short of: the two programs agree about the
\* frames that are asked for more than once.
THEOREM HelpersAgree == ToolsSpec => []OverlapsAgree
<1>1. ToolsSpec => [](IInv /\ FInv)
  <2>1. ToolsInit => IInv /\ FInv
    BY InitIInv, InitFInv DEF ToolsInit
  <2>2. IInv /\ FInv /\ [ToolsNext]_<<vars, overVars, printVars>>
        => (IInv /\ FInv)'
    <3>1. [ToolsNext]_<<vars, overVars, printVars>> => [Next]_vars
      BY DEF ToolsNext, FindOverlapping, CalcOptimal, PrintFile
    <3> QED
      BY <3>1, NextIInv, NextFInv
  <2> QED
    BY <2>1, <2>2, PTL DEF ToolsSpec
<1>2. ToolsSpec => [](ListInv /\ OverlapInv)
  BY InitListInv, NextListInv, InitOverlapInv, NextOverlapInv, PTL DEF ToolsSpec
<1>3. IInv /\ FInv /\ OverlapInv => OverlapsAgree
  <2> SUFFICES ASSUME IInv, FInv, OverlapInv, pc = "done"
               PROVE  LET short == InitTotal - SizeOfAll[Len(out)]
                      IN  IF AskedThrice THEN total[1] > short
                                         ELSE total[1] = short
    BY DEF OverlapsAgree
  <2>1. Agreed(file, total[1]) /\ total[1] \in Nat
    BY DEF OverlapInv
  <2>2. SizeOfAll[Len(out)] = Cardinality(Footprint)
    <3>1. out \in Seq(PfnRange)
      BY DEF IInv, TypeOK
    <3>2. Footprint = FramesIn(out) /\ Cardinality(FramesIn(out)) = Size(out)
      BY DEF FInv, FramesKept
    <3> QED
      BY <3>1, <3>2, SizeOfAllIsSize
  <2>3. Footprint = FootprintOf(file)
    BY DEF Footprint, FootprintOf
  <2>4. InitTotal = AskedTotal(file)
    BY DEF InitTotal, AskedTotal
  <2>5. AskedThrice <=> ThriceIn(file)
    BY <2>3 DEF AskedThrice, ThriceIn, AskingFor
  <2>6. InitTotal - SizeOfAll[Len(out)] \in Int
    BY <2>1, <2>2, <2>3, <2>4 DEF Agreed
  <2> QED
    BY <2>1, <2>2, <2>3, <2>4, <2>5, <2>6 DEF Agreed
<1> QED
  BY <1>1, <1>2, <1>3, PTL
=============================================================================
