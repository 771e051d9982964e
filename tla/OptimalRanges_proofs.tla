------------------------- MODULE OptimalRanges_proofs -------------------------
(***************************************************************************)
(* Theorems about calc_optimal_results.py, for every file.                 *)
(***************************************************************************)
EXTENDS Sums, OptimalRanges, FiniteSetTheorems, FunctionTheorems,
        SequenceTheorems, TLAPS

(* The list of create_ranges                                               *)

\* The image of a finite set under a function is finite.
LEMMA ImageIsFinite ==
    ASSUME NEW S, IsFiniteSet(S), NEW f, DOMAIN f = S
    PROVE  IsFiniteSet({f[x] : x \in S})
  <1> DEFINE T == {f[x] : x \in S}
             g == [x \in S |-> f[x]]
  <1>1. g \in Surjection(S, T)
    BY DEF Surjection
  <1> HIDE DEF T, g
  <1>2. IsFiniteSet(T)
    BY <1>1, FS_Surjection
  <1>3. QED
    BY <1>2 DEF T

LEMMA ValidIsFinite ==
    ASSUME NEW f \in Seq(Vma)
    PROVE  IsFiniteSet(Valid(f))
  <1> DEFINE J(v) == {j \in DOMAIN f[v].subVMAs :
                         RangeStart(f[v], j) < RangeEnd(f[v], j)}
             C(v) == {<<v, j>> : j \in J(v)}
             part == [v \in DOMAIN f |-> C(v)]
  <1>1. \A v \in DOMAIN f : IsFiniteSet(C(v))
    <2> SUFFICES ASSUME NEW v \in DOMAIN f
                 PROVE  IsFiniteSet(C(v))
      OBVIOUS
    <2>0. f[v] \in Vma
      OBVIOUS
    <2>1. f[v].subVMAs \in Seq(SubVma)
      BY <2>0 DEF Vma
    <2>2. IsFiniteSet(1 .. Len(f[v].subVMAs))
      BY <2>1, FS_Interval
    <2>3. J(v) \subseteq 1 .. Len(f[v].subVMAs)
      BY <2>1
    <2>4. IsFiniteSet(J(v))
      BY <2>2, <2>3, FS_Subset
    <2> DEFINE pair == [j \in J(v) |-> <<v, j>>]
    <2>5. IsFiniteSet({pair[j] : j \in J(v)})
      <3> HIDE DEF J
      <3>1. DOMAIN pair = J(v)
        OBVIOUS
      <3> HIDE DEF pair
      <3>2. QED
        BY <2>4, <3>1, ImageIsFinite
    <2>6. {pair[j] : j \in J(v)} = C(v)
      OBVIOUS
    <2>7. QED
      BY <2>5, <2>6
  <1>2. IsFiniteSet(DOMAIN f)
    <2>1. IsFiniteSet(1 .. Len(f))
      BY FS_Interval
    <2>2. QED
      BY <2>1
  <1>3. IsFiniteSet({part[v] : v \in DOMAIN f})
    <2> HIDE DEF C
    <2>1. DOMAIN part = DOMAIN f
      OBVIOUS
    <2> HIDE DEF part
    <2>2. QED
      BY <1>2, <2>1, ImageIsFinite
  <1>4. \A T \in {part[v] : v \in DOMAIN f} : IsFiniteSet(T)
    BY <1>1
  <1>5. IsFiniteSet(UNION {part[v] : v \in DOMAIN f})
    BY <1>3, <1>4, FS_UNION
  <1>6. Valid(f) = UNION {C(v) : v \in DOMAIN f}
    BY DEF Valid
  <1>7. {part[v] : v \in DOMAIN f} = {C(v) : v \in DOMAIN f}
    OBVIOUS
  <1>8. QED
    BY <1>5, <1>6, <1>7

\* Every range of create_ranges is one, with at least one frame.
LEMMA RangeOfIsARange ==
    ASSUME NEW f \in Seq(Vma), NEW c \in Valid(f)
    PROVE  /\ RangeOf(f, c) \in PfnRange
           /\ RangeOf(f, c).pst < RangeOf(f, c).pend
  <1>1. PICK v \in DOMAIN f :
          \E j \in DOMAIN f[v].subVMAs :
              c = <<v, j>> /\ RangeStart(f[v], j) < RangeEnd(f[v], j)
    BY DEF Valid
  <1>2. PICK j \in DOMAIN f[v].subVMAs :
          c = <<v, j>> /\ RangeStart(f[v], j) < RangeEnd(f[v], j)
    BY <1>1
  <1>3. c[1] = v /\ c[2] = j
    BY <1>2
  <1>4. f[v] \in Vma
    OBVIOUS
  <1> DEFINE sub == f[v].subVMAs
  <1>5. /\ sub \in Seq(SubVma) /\ f[v].start \in Nat /\ f[v].end \in Nat
    BY <1>4 DEF Vma
  <1>6. \A n \in 1 .. Len(sub) : sub[n].vpn \in Nat /\ sub[n].offset \in Int
    <2>1. \A n \in 1 .. Len(sub) : sub[n] \in SubVma
      BY <1>5
    <2>2. QED
      BY <2>1 DEF SubVma
  <1>7. j \in 1 .. Len(sub) /\ Len(sub) \in Nat
    BY <1>5
  <1>8. sub[j].vpn \in Nat /\ sub[j].offset \in Int
    BY <1>6, <1>7
  <1>9. j = Len(sub) \/ sub[j + 1].vpn \in Nat
    <2>1. j = Len(sub) \/ j + 1 \in 1 .. Len(sub)
      BY <1>7
    <2> QED
      BY <1>6, <2>1
  <1>10. RangeStart(f[v], j) \in Nat /\ RangeEnd(f[v], j) \in Nat
    <2> DEFINE a == RangeStart(f[v], j)
               b == RangeEnd(f[v], j)
    <2>1. a = f[v].start \/ a = sub[j].vpn
      BY DEF RangeStart
    <2>2. b = f[v].end \/ (j # Len(sub) /\ b = sub[j + 1].vpn)
      BY DEF RangeEnd
    <2> HIDE DEF a, b, sub
    <2>3. a \in Nat
      BY <1>5, <1>8, <2>1
    <2>4. b \in Nat
      BY <1>5, <1>9, <2>2
    <2> QED
      BY <2>3, <2>4 DEF a, b
  <1>11. QED
    BY <1>2, <1>3, <1>8, <1>10 DEF RangeOf, PfnRange
-----------------------------------------------------------------------------
(* The inductive invariant                                                 *)

\* A list of ranges none of which is empty.
Ranges == {s \in Seq(PfnRange) : \A k \in DOMAIN s : s[k].pst < s[k].pend}

\* A range starts where the one before it ends, or later.
Linked(s) == \A k \in DOMAIN s \ {1} : s[k - 1].pend <= s[k].pst
\* A linked list, all of which is in front of the frame p.
LinkedTo(s, p) == Linked(s) /\ (s # <<>> => s[Len(s)].pend <= p)

IInv ==
    /\ TypeOK
    /\ ranges \in Ranges
    /\ pc \in {"join", "fix"} => i >= 2 /\ curr.pst < curr.pend
    /\ pc = "join" => out \in Ranges
    /\ pc = "start" => out = <<>>
    /\ pc = "fix" => LinkedTo(out, curr.pst)
    /\ pc = "done" => Linked(out)

LEMMA InitIInv == Init => IInv
  <1> SUFFICES ASSUME Init
               PROVE  IInv
    OBVIOUS
  <1>1. file \in Seq(Vma)
    BY FilesAssumption DEF Init
  <1>2. PICK s \in Sorted(file) :
          ranges = [k \in DOMAIN s |-> RangeOf(file, s[k])]
    BY DEF Init
  <1> DEFINE n == Cardinality(Valid(file))
  <1>3. n \in Nat
    BY <1>1, ValidIsFinite, FS_CardinalityType
  <1>4. s \in [1 .. n -> Valid(file)]
    BY DEF Sorted
  <1>5. \A k \in 1 .. n : /\ RangeOf(file, s[k]) \in PfnRange
                          /\ RangeOf(file, s[k]).pst < RangeOf(file, s[k]).pend
    BY <1>1, <1>4, RangeOfIsARange
  <1>6. ranges \in [1 .. n -> PfnRange]
    BY <1>2, <1>4, <1>5
  <1>7. ranges \in Seq(PfnRange)
    BY <1>3, <1>6
  <1>8. \A k \in DOMAIN ranges : ranges[k].pst < ranges[k].pend
    BY <1>2, <1>4, <1>5
  <1>9. NoRange \in PfnRange
    BY DEF NoRange, PfnRange
  <1>10. QED
    BY <1>1, <1>7, <1>8, <1>9 DEF Init, IInv, TypeOK, Ranges

\* The range that the loops look at is one of the list.
LEMMA NextIsARange ==
    ASSUME IInv, pc \in {"join", "fix"}, i <= Len(ranges)
    PROVE  next \in PfnRange /\ next.pst < next.pend
  <1>1. i \in 1 .. Len(ranges) /\ i \in DOMAIN ranges
    BY DEF IInv, TypeOK, Ranges
  <1>2. QED
    BY <1>1 DEF IInv, Ranges, next

LEMMA RangesAppend ==
    ASSUME NEW s \in Ranges, NEW r \in PfnRange, r.pst < r.pend
    PROVE  Append(s, r) \in Ranges
  <1>1. s \in Seq(PfnRange) /\ DOMAIN s = 1 .. Len(s) /\ Len(s) \in Nat
    BY DEF Ranges
  <1>2. /\ Append(s, r) \in Seq(PfnRange)
        /\ Len(Append(s, r)) = Len(s) + 1
        /\ \A k \in 1 .. Len(s) : Append(s, r)[k] = s[k]
        /\ Append(s, r)[Len(s) + 1] = r
    BY <1>1, AppendProperties
  <1>3. DOMAIN Append(s, r) = 1 .. Len(s) + 1
    BY <1>2, <1>1
  <1>4. \A k \in 1 .. Len(s) + 1 : Append(s, r)[k].pst < Append(s, r)[k].pend
    <2> TAKE k \in 1 .. Len(s) + 1
    <2>1. CASE k = Len(s) + 1
      BY <2>1, <1>2
    <2>2. CASE k \in 1 .. Len(s)
      BY <2>2, <1>1, <1>2 DEF Ranges
    <2>3. QED
      BY <2>1, <2>2, <1>1
  <1>5. QED
    BY <1>2, <1>3, <1>4 DEF Ranges

LEMMA PieceIsARange ==
    ASSUME NEW p \in Int, NEW v \in Int, NEW n \in Int
    PROVE  /\ Piece(p, v, n) \in PfnRange
           /\ Piece(p, v, n).pst = p /\ Piece(p, v, n).pend = p + n
  BY DEF Piece, PfnRange

LEMMA RestIsARange ==
    ASSUME NEW r \in PfnRange, NEW n \in Int
    PROVE  /\ Rest(r, n) \in PfnRange
           /\ Rest(r, n).pst = r.pend - n /\ Rest(r, n).pend = r.pend
  <1>1. r.pend \in Int /\ r.vend \in Int
    BY DEF PfnRange
  <1>2. r.pend - n \in Int /\ r.vend - n \in Int
    BY <1>1
  <1> DEFINE x == Piece(r.pend - n, r.vend - n, n)
  <1>3. x \in PfnRange /\ x.pst = r.pend - n /\ x.pend = (r.pend - n) + n
    BY <1>2, PieceIsARange, Zenon
  <1>4. (r.pend - n) + n = r.pend
    BY <1>1
  <1>5. QED
    BY <1>3, <1>4 DEF Rest

(* What a case of fix_pfn_ranges does to the chain of ranges               *)

LEMMA LinkedFurther ==
    ASSUME NEW s \in Seq(PfnRange), NEW p \in Int, LinkedTo(s, p),
           NEW q \in Int, p <= q
    PROVE  LinkedTo(s, q)
  <1>1. CASE s = <<>>
    BY <1>1 DEF LinkedTo
  <1>2. CASE s # <<>>
    <2>1. s[Len(s)] \in PfnRange
      BY <1>2
    <2>2. s[Len(s)].pend \in Int
      BY <2>1 DEF PfnRange
    <2>3. QED
      BY <1>2, <2>2 DEF LinkedTo
  <1>3. QED
    BY <1>1, <1>2

LEMMA LinkedAppend ==
    ASSUME NEW s \in Seq(PfnRange), NEW r \in PfnRange, LinkedTo(s, r.pst)
    PROVE  LinkedTo(Append(s, r), r.pend)
  <1> DEFINE n == Len(s)
             t == Append(s, r)
  <1>1. n \in Nat /\ DOMAIN s = 1 .. n
    OBVIOUS
  <1>2. /\ t \in Seq(PfnRange) /\ t # <<>> /\ Len(t) = n + 1
        /\ \A k \in 1 .. n : t[k] = s[k]
        /\ t[n + 1] = r
    BY AppendProperties
  <1>3. DOMAIN t = 1 .. n + 1
    BY <1>2
  <1>4. r.pend \in Int
    BY DEF PfnRange
  <1> HIDE DEF t
  <1>5. Linked(t)
    <2> SUFFICES ASSUME NEW k \in DOMAIN t \ {1}
                 PROVE  t[k - 1].pend <= t[k].pst
      BY DEF Linked
    <2>1. CASE k = n + 1
      <3>1. s # <<>> /\ k - 1 = n /\ n \in 1 .. n
        BY <2>1, <1>1, <1>3
      <3>2. s[n].pend <= r.pst
        BY <3>1 DEF LinkedTo
      <3>3. QED
        BY <3>1, <3>2, <2>1, <1>2
    <2>2. CASE k # n + 1
      <3>1. k \in DOMAIN s \ {1} /\ k \in 1 .. n /\ k - 1 \in 1 .. n
        BY <2>2, <1>1, <1>3
      <3>2. s[k - 1].pend <= s[k].pst
        BY <3>1 DEF LinkedTo, Linked
      <3>3. QED
        BY <3>1, <3>2, <1>2
    <2>3. QED
      BY <2>1, <2>2
  <1>6. t[Len(t)].pend <= r.pend
    BY <1>2, <1>4
  <1>7. QED
    BY <1>5, <1>6 DEF LinkedTo, t
-----------------------------------------------------------------------------
(* The steps                                                               *)

\* The next range is behind the current one, and does not touch it.
Gap == curr.pend < next.pst /\ out' = Append(out, curr) /\ curr' = next

\* No piece, one or two are cut off from the front of the current range, which
\* goes on where the last of them ends.  That may be in front of its start,
\* but not in front of the next range: the piece then has a negative size.
NoPiece == out' = out /\ curr'.pst = curr.pst
OnePiece ==
    /\ next.pst <= curr'.pst
    /\ \E a \in PfnRange : /\ out' = Append(out, a)
                           /\ a.pst = curr.pst /\ a.pend = curr'.pst
TwoPieces ==
    /\ next.pst <= curr'.pst
    /\ \E a, b \in PfnRange : /\ out' = Append(Append(out, a), b)
                              /\ a.pst = curr.pst /\ a.pend = next.pst
                              /\ b.pst = next.pst /\ b.pend = curr'.pst

\* The end of two ranges.
LastEnd == IF curr.pend < next.pend THEN next.pend ELSE curr.pend

\* What all cases of fix_pfn_ranges have in common: the frames of the current
\* and the next range are cut at some frames, and the last part goes on.
Cut ==
    /\ UNCHANGED <<file, pc, ranges>> /\ i' = i + 1
    /\ curr' \in PfnRange /\ curr'.pst < curr'.pend
    /\ \/ Gap
       \/ /\ next.pst <= curr.pend /\ curr'.pend = LastEnd
          /\ NoPiece \/ OnePiece \/ TwoPieces

LEMMA AppendTwo ==
    ASSUME NEW s \in Seq(PfnRange), NEW a \in PfnRange, NEW b \in PfnRange
    PROVE  s \o <<a, b>> = Append(Append(s, a), b)
  <1>2. <<a>> \in Seq(PfnRange) /\ <<b>> \in Seq(PfnRange)
    OBVIOUS
  <1>1. <<a, b>> = <<a>> \o <<b>>
    <2>1. <<a>> \o <<b>> = Append(<<a>>, b)
      BY <1>2, AppendIsConcat
    <2>2. Append(<<a>>, b) = <<a, b>>
      <3> DEFINE u == Append(<<a>>, b)
                 w == <<a, b>>
      <3>1. <<a>> \in Seq(PfnRange) /\ Len(<<a>>) = 1
        BY <1>2
      <3>2. /\ u \in Seq(PfnRange) /\ Len(u) = 2 /\ u[1] = a /\ u[2] = b
        BY <3>1, AppendProperties
      <3>3. w \in Seq(PfnRange) /\ Len(w) = 2 /\ w[1] = a /\ w[2] = b
        OBVIOUS
      <3> HIDE DEF u, w
      <3>4. \A k \in 1 .. Len(u) : u[k] = w[k]
        BY <3>2, <3>3
      <3>5. u = w
        BY <3>2, <3>3, <3>4, SeqEqual
      <3> QED
        BY <3>5 DEF u, w
    <2> QED
      BY <2>1, <2>2
  <1>3. s \o <<a, b>> = (s \o <<a>>) \o <<b>>
    BY <1>1, <1>2, ConcatAssociative
  <1>4. s \o <<a>> = Append(s, a) /\ Append(s, a) \in Seq(PfnRange)
    BY AppendIsConcat, AppendProperties
  <1> QED
    BY <1>3, <1>4, AppendIsConcat

LEMMA FixCuts == IInv /\ FixOne => Fixing /\ Cut
  <1> SUFFICES ASSUME IInv, FixOne
               PROVE  Fixing /\ Cut
    OBVIOUS
  <1>1. Fixing
    BY DEF FixOne, FixI, FixIIa, FixIIb, FixIIIia, FixIIIic, FixIIIib, FixIIIiia,
           FixIIIiib, FixIIIiic
  <1>2. out \in Seq(PfnRange) /\ curr \in PfnRange /\ curr.pst < curr.pend
    BY <1>1 DEF IInv, TypeOK, Fixing
  <1>3. next \in PfnRange /\ next.pst < next.pend
    BY <1>1, NextIsARange DEF Fixing
  <1> DEFINE cp == curr.pst   ce == curr.pend   cv == curr.vst
             np == next.pst   ne == next.pend   nv == next.vst
  <1>4. /\ cp \in Int /\ ce \in Int /\ cv \in Int /\ curr.vend \in Int
        /\ np \in Int /\ ne \in Int /\ nv \in Int /\ next.vend \in Int
    BY <1>2, <1>3 DEF PfnRange
  \* The three forms of a case.
  <1>5. ASSUME NEW c \in PfnRange, c.pst < c.pend, np <= ce, c.pend = LastEnd,
               c.pst = cp, Fix(<<>>, c)
        PROVE  Cut
    <2>1. out \o <<>> = out
      BY <1>2, ConcatEmptySeq
    <2> QED
      BY <1>5, <2>1 DEF Fix, Cut, NoPiece
  <1>6. ASSUME NEW a \in PfnRange, NEW c \in PfnRange, c.pst < c.pend,
               np <= ce, c.pend = LastEnd,
               a.pst = cp, a.pend = c.pst, np <= c.pst, Fix(<<a>>, c)
        PROVE  Cut
    <2>1. out \o <<a>> = Append(out, a)
      BY <1>2, AppendIsConcat
    <2>2. out' = Append(out, a) /\ curr' = c
      BY <1>6, <2>1 DEF Fix
    <2>3. OnePiece
      BY <1>6, <2>2 DEF OnePiece
    <2> QED
      BY <1>6, <2>2, <2>3 DEF Fix, Cut
  <1>7. ASSUME NEW a \in PfnRange, NEW b \in PfnRange, NEW c \in PfnRange,
               c.pst < c.pend, np <= ce, c.pend = LastEnd,
               a.pst = cp, a.pend = np, b.pst = np, b.pend = c.pst,
               np <= c.pst, Fix(<<a, b>>, c)
        PROVE  Cut
    <2>1. out \o <<a, b>> = Append(Append(out, a), b)
      BY <1>2, AppendTwo
    <2>2. out' = Append(Append(out, a), b) /\ curr' = c
      BY <1>7, <2>1 DEF Fix
    <2>3. TwoPieces
      BY <1>7, <2>2 DEF TwoPieces
    <2> QED
      BY <1>7, <2>2, <2>3 DEF Fix, Cut
  <1> HIDE DEF Cut, Fix, next
  <1>8. CASE FixI
    <2>1. ce < np /\ Fix(<<curr>>, next)
      BY <1>8 DEF FixI, CaseI
    <2>2. out \o <<curr>> = Append(out, curr)
      BY <1>2, AppendIsConcat
    <2>3. Gap
      BY <2>1, <2>2 DEF Fix, Gap
    <2> QED
      BY <1>1, <1>3, <2>1, <2>3 DEF Fix, Cut, Gap
  <1>9. CASE FixIIa
    <2>1. ce = np /\ cp < ne /\ ce < ne
      BY <1>2, <1>3, <1>4, <1>9 DEF FixIIa, CaseII
    <2>2. /\ Extended \in PfnRange
          /\ Extended.pst = cp /\ Extended.pend = ne
      BY <1>4 DEF Extended, PfnRange
    <2>3. Fix(<<>>, Extended)
      BY <1>9 DEF FixIIa
    <2>4. QED
      BY <1>1, <1>4, <1>5, <2>1, <2>2, <2>3 DEF LastEnd
  <1>10. CASE FixIIb
    <2>1. ce = np /\ ce < ne /\ Fix(<<curr>>, next)
      BY <1>3, <1>4, <1>10 DEF FixIIb, CaseII
    <2> QED
      BY <1>1, <1>2, <1>3, <1>4, <1>6, <2>1 DEF LastEnd
  <1>11. CASE FixIIIia
    <2> DEFINE c == [pst |-> ne, pend |-> ce, vst |-> cv + (ce - ne),
                     vend |-> curr.vend]
    <2>1. /\ c \in PfnRange /\ c.pst = ne /\ c.pend = ce
      BY <1>4 DEF PfnRange
    <2>2. cp = np /\ ne < ce /\ np <= ce /\ ce = LastEnd
      BY <1>3, <1>4, <1>11 DEF FixIIIia, SameStart, LastEnd
    <2>3. CASE cv > nv
      <3>1. Fix(<<>>, curr)
        BY <1>11, <2>3 DEF FixIIIia
      <3> QED
        BY <1>1, <1>2, <1>5, <2>2, <3>1
    <2>4. CASE ~(cv > nv)
      <3>1. Fix(<<next>>, c)
        BY <1>11, <2>4 DEF FixIIIia
      <3> HIDE DEF c
      <3>2. QED
        BY <1>1, <1>3, <1>4, <1>6, <2>1, <2>2, <3>1
    <2>5. QED
      BY <2>3, <2>4
  <1>12. CASE FixIIIic
    <2> DEFINE c == Rest(next, ne - ce)
    <2>0. ne - ce \in Int
      BY <1>4
    <2>1. /\ c \in PfnRange /\ c.pst = ne - (ne - ce) /\ c.pend = ne
      BY <1>3, <2>0, RestIsARange, Zenon
    <2>2. cp = np /\ ce < ne /\ ne - (ne - ce) = ce /\ np <= ce /\ ne = LastEnd
      BY <1>2, <1>4, <1>12 DEF FixIIIic, SameStart, LastEnd
    <2>3. CASE cv > nv
      <3>1. Fix(<<curr>>, c)
        BY <1>12, <2>3 DEF FixIIIic
      <3> HIDE DEF c
      <3>2. QED
        BY <1>1, <1>2, <1>4, <1>6, <2>1, <2>2, <3>1
    <2>4. CASE ~(cv > nv)
      <3>1. Fix(<<>>, next)
        BY <1>12, <2>4 DEF FixIIIic
      <3> QED
        BY <1>1, <1>3, <1>5, <2>2, <3>1
    <2>5. QED
      BY <2>3, <2>4
  <1>13. CASE FixIIIib
    <2> DEFINE c == IF cv > nv THEN curr ELSE next
    <2>1. cp = np /\ ce = ne /\ Fix(<<>>, c)
      BY <1>13 DEF FixIIIib, SameStart
    <2>2. c \in PfnRange /\ c.pst < c.pend /\ c.pst = cp /\ c.pend = ce
      BY <1>2, <1>3, <1>4, <2>1
    <2>3. np <= ce /\ ce = LastEnd
      BY <1>2, <1>4, <2>1 DEF LastEnd
    <2> HIDE DEF c
    <2>4. QED
      BY <1>1, <1>5, <2>1, <2>2, <2>3
  <1>14. CASE FixIIIiia
    <2> DEFINE common == ce - np
               before == np - cp
               after  == ne - ce
    <2>1. np < ce /\ ce < ne /\ ne = LastEnd
      BY <1>4, <1>14 DEF FixIIIiia, Shifted, CaseIII, LastEnd
    <2>2. /\ common \in Int /\ before \in Int /\ after \in Int
          /\ cp + before = np /\ cp + (before + common) = ce
          /\ ne - after = ce /\ ne - (after + common) = np
          /\ before + common \in Int /\ after + common \in Int
      BY <1>4
    <2>3. CASE cv < nv
      <3> DEFINE a == Piece(cp, cv, before)
                 c == Rest(next, after + common)
      <3>1. Fix(<<a>>, c)
        BY <1>14, <2>3 DEF FixIIIiia
      <3>2. a \in PfnRange /\ a.pst = cp /\ a.pend = np
        <4>1. a \in PfnRange /\ a.pst = cp /\ a.pend = cp + before
          BY <1>4, <2>2 DEF Piece, PfnRange
        <4>2. QED
          BY <2>2, <4>1, Zenon
      <3>3. c \in PfnRange /\ c.pst = np /\ c.pend = ne
        BY <1>3, <1>4, <2>2, RestIsARange
      <3> HIDE DEF a, c
      <3>4. QED
        BY <1>1, <1>3, <1>4, <1>6, <2>1, <3>1, <3>2, <3>3
    <2>4. CASE ~(cv < nv)
      <3> DEFINE a == Piece(cp, cv, before + common)
                 c == Rest(next, after)
      <3>1. Fix(<<a>>, c)
        BY <1>14, <2>4 DEF FixIIIiia
      <3>2. a \in PfnRange /\ a.pst = cp /\ a.pend = ce
        <4>1. a \in PfnRange /\ a.pst = cp /\ a.pend = cp + (before + common)
          BY <1>4, <2>2 DEF Piece, PfnRange
        <4>2. QED
          BY <2>2, <4>1, Zenon
      <3>3. c \in PfnRange /\ c.pst = ce /\ c.pend = ne
        BY <1>3, <1>4, <2>2, RestIsARange
      <3> HIDE DEF a, c
      <3>4. QED
        BY <1>1, <1>4, <1>6, <2>1, <3>1, <3>2, <3>3
    <2>5. QED
      BY <2>3, <2>4
  <1>15. CASE FixIIIiib
    <2> DEFINE a == Piece(cp, cv, np - cp)
    <2>0. np < ce /\ ce = ne /\ ne = LastEnd
      BY <1>4, <1>15 DEF FixIIIiib, Shifted, CaseIII, LastEnd
    <2>1. np - cp \in Int /\ cp + (np - cp) = np
      BY <1>4
    <2>2. a \in PfnRange /\ a.pst = cp /\ a.pend = np
      <3>1. a \in PfnRange /\ a.pst = cp /\ a.pend = cp + (np - cp)
        BY <1>4, <2>1 DEF Piece, PfnRange
      <3>2. QED
        BY <2>1, <3>1, Zenon
    <2>3. CASE cv < np
      <3>1. Fix(<<a>>, next)
        BY <1>15, <2>3 DEF FixIIIiib
      <3> HIDE DEF a
      <3>2. QED
        BY <1>1, <1>3, <1>4, <1>6, <2>0, <2>2, <3>1
    <2>4. CASE ~(cv < np)
      <3>1. Fix(<<>>, curr)
        BY <1>15, <2>4 DEF FixIIIiib
      <3> QED
        BY <1>1, <1>2, <1>4, <1>5, <2>0, <3>1
    <2>5. QED
      BY <2>3, <2>4
  <1>16. CASE FixIIIiic
    <2> DEFINE a == Piece(cp, cv, np - cp)
               c == Rest(curr, ce - ne)
    <2>1. /\ np - cp \in Int /\ cp + (np - cp) = np
          /\ ce - ne \in Int /\ ce - (ce - ne) = ne
      BY <1>4
    <2>2. a \in PfnRange /\ a.pst = cp /\ a.pend = np
      <3>1. a \in PfnRange /\ a.pst = cp /\ a.pend = cp + (np - cp)
        BY <1>4, <2>1 DEF Piece, PfnRange
      <3>2. QED
        BY <2>1, <3>1, Zenon
    <2>3. c \in PfnRange /\ c.pst = ne /\ c.pend = ce
      BY <1>2, <1>4, <2>1, RestIsARange
    <2>4. ne < ce /\ np <= ce /\ ce = LastEnd
      BY <1>3, <1>4, <1>16 DEF FixIIIiic, Shifted, CaseIII, LastEnd
    <2>5. CASE cv > nv
      <3>1. Fix(<<>>, curr)
        BY <1>16, <2>5 DEF FixIIIiic
      <3> QED
        BY <1>1, <1>2, <1>5, <2>4, <3>1
    <2>6. CASE ~(cv > nv)
      <3>1. Fix(<<a, next>>, c)
        BY <1>16, <2>6 DEF FixIIIiic
      <3> HIDE DEF a, c
      <3>2. QED
        BY <1>1, <1>3, <1>4, <1>7, <2>2, <2>3, <2>4, <3>1
    <2>7. QED
      BY <2>5, <2>6
  <1>17. QED
    BY <1>8, <1>9, <1>10, <1>11, <1>12, <1>13, <1>14, <1>15, <1>16 DEF FixOne

\* The ranges that are final stay a chain.
LEMMA CutKeeps == IInv /\ Fixing /\ Cut => IInv'
  <1> SUFFICES ASSUME IInv, Fixing, Cut
               PROVE  IInv'
    OBVIOUS
  <1>1. /\ out \in Seq(PfnRange) /\ curr \in PfnRange /\ curr.pst < curr.pend
        /\ LinkedTo(out, curr.pst) /\ next \in PfnRange
    BY NextIsARange DEF IInv, TypeOK, Fixing
  <1>2. /\ curr.pst \in Int /\ curr.pend \in Int /\ next.pst \in Int
        /\ curr' \in PfnRange /\ curr'.pst \in Int
    BY <1>1 DEF Cut, PfnRange
  <1>3. out' \in Seq(PfnRange) /\ LinkedTo(out', curr'.pst)
    <2>1. CASE Gap
      <3>1. LinkedTo(Append(out, curr), curr.pend)
        BY <1>1, LinkedAppend
      <3>2. Append(out, curr) \in Seq(PfnRange) /\ curr.pend <= next.pst
        BY <1>1, <1>2, <2>1, AppendProperties DEF Gap
      <3>3. LinkedTo(Append(out, curr), next.pst)
        BY <1>2, <3>1, <3>2, LinkedFurther
      <3> QED
        BY <2>1, <3>2, <3>3 DEF Gap
    <2>2. CASE NoPiece
      BY <1>1, <2>2 DEF NoPiece
    <2>3. CASE OnePiece
      <3>1. PICK a \in PfnRange : /\ out' = Append(out, a)
                                  /\ a.pst = curr.pst /\ a.pend = curr'.pst
        BY <2>3 DEF OnePiece
      <3> QED
        BY <1>1, <3>1, LinkedAppend, AppendProperties
    <2>4. CASE TwoPieces
      <3>1. PICK a, b \in PfnRange : /\ out' = Append(Append(out, a), b)
                                     /\ a.pst = curr.pst /\ a.pend = b.pst
                                     /\ b.pend = curr'.pst
        BY <2>4 DEF TwoPieces
      <3>2. LinkedTo(Append(out, a), b.pst) /\ Append(out, a) \in Seq(PfnRange)
        BY <1>1, <3>1, LinkedAppend, AppendProperties
      <3> DEFINE t == Append(out, a)
      <3>3. t \in Seq(PfnRange) /\ LinkedTo(t, b.pst)
        BY <3>2
      <3> HIDE DEF t
      <3>4. LinkedTo(Append(t, b), b.pend) /\ Append(t, b) \in Seq(PfnRange)
        BY <3>3, LinkedAppend, AppendProperties
      <3> QED
        BY <3>1, <3>4 DEF t
    <2> QED
      BY <2>1, <2>2, <2>3, <2>4 DEF Cut
  <1>4. TypeOK'
    <2>1. i + 1 \in 0 .. Len(ranges) + 1
      BY DEF IInv, TypeOK, Fixing
    <2>2. QED
      BY <1>3, <2>1 DEF IInv, TypeOK, Cut
  <1>5. QED
    BY <1>3, <1>4 DEF IInv, Cut, Fixing, TypeOK, Ranges

LEMMA NextIInv == IInv /\ [Next]_vars => IInv'
  <1> SUFFICES ASSUME IInv, [Next]_vars
               PROVE  IInv'
    OBVIOUS
  <1> USE DEF IInv, TypeOK
  <1>1. CASE Fail
    BY <1>1 DEF Fail
  <1>2. CASE Start
    <2>1. 1 \in DOMAIN ranges
      BY <1>2 DEF Start, Ranges
    <2>2. ranges[1] \in PfnRange /\ ranges[1].pst < ranges[1].pend
      BY <2>1 DEF Ranges
    <2>3. <<>> \in Ranges
      BY DEF Ranges
    <2>4. QED
      BY <1>2, <2>2, <2>3 DEF Start
  <1>3. CASE Join
    <2>1. next \in PfnRange /\ next.pst < next.pend
      BY <1>3, NextIsARange DEF Join
    <2>2. curr.pst \in Int /\ curr.vst \in Int /\ curr.pst < curr.pend
          /\ curr.pend \in Int
      BY <1>3 DEF Join, PfnRange
    <2>3. next.pst \in Int /\ next.pend \in Int /\ next.vend \in Int
      BY <2>1 DEF PfnRange
    <2>4. /\ Extended \in PfnRange
          /\ Extended.pst = curr.pst /\ Extended.pend = next.pend
      BY <2>2, <2>3 DEF Extended, PfnRange
    <2>5. curr.pst < next.pend
      BY <1>3, <2>1, <2>2, <2>3 DEF Join, Follows
    <2>6. QED
      BY <1>3, <2>4, <2>5 DEF Join
  <1>4. CASE JoinBreak
    <2>1. next \in PfnRange /\ next.pst < next.pend
      BY <1>4, NextIsARange DEF JoinBreak
    <2>2. Append(out, curr) \in Ranges
      BY <1>4, RangesAppend DEF JoinBreak
    <2>3. out' \in Ranges /\ curr' = next
      BY <1>4, <2>2 DEF JoinBreak
    <2>4. QED
      BY <1>4, <2>1, <2>3 DEF JoinBreak, Ranges
  <1>5. CASE Joined
    <2>1. ranges' \in Ranges
      BY <1>5, RangesAppend DEF Joined
    <2>2. ranges' # <<>>
      BY <1>5, AppendProperties DEF Joined
    <2>3. 1 \in DOMAIN ranges'
      BY <2>1, <2>2 DEF Ranges
    <2>4. curr' \in PfnRange /\ curr'.pst < curr'.pend
      BY <1>5, <2>1, <2>3 DEF Joined, Ranges
    <2>5. LinkedTo(out', curr'.pst)
      BY <1>5 DEF Joined, LinkedTo, Linked
    <2>6. QED
      BY <1>5, <2>1, <2>4, <2>5 DEF Joined, Ranges
  <1>6. CASE FixOne
    BY <1>6, FixCuts, CutKeeps
  <1>7. CASE Fixed
    <2>1. Append(out, curr) \in Seq(PfnRange)
      BY AppendProperties
    <2>2. LinkedTo(Append(out, curr), curr.pend)
      BY <1>7, LinkedAppend DEF Fixed
    <2>3. QED
      BY <1>7, <2>1, <2>2 DEF Fixed, LinkedTo
  <1>8. CASE UNCHANGED vars
    BY <1>8 DEF vars, LinkedTo, Linked, Ranges
  <1>9. QED
    BY <1>1, <1>2, <1>3, <1>4, <1>5, <1>6, <1>7, <1>8 DEF Next
-----------------------------------------------------------------------------
(* Frames and sizes of a list of ranges                                    *)

LEMMA FramesConcat ==
    ASSUME NEW s \in Seq(PfnRange), NEW t \in Seq(PfnRange)
    PROVE  FramesIn(s \o t) = FramesIn(s) \cup FramesIn(t)
  <1> DEFINE u == s \o t
  <1>1. /\ u \in Seq(PfnRange) /\ Len(u) = Len(s) + Len(t)
        /\ \A k \in 1 .. Len(s) + Len(t) :
               u[k] = IF k <= Len(s) THEN s[k] ELSE t[k - Len(s)]
    BY ConcatProperties
  <1>2. /\ DOMAIN s = 1 .. Len(s) /\ DOMAIN t = 1 .. Len(t)
        /\ DOMAIN u = 1 .. Len(u) /\ Len(s) \in Nat /\ Len(t) \in Nat
    BY <1>1
  <1> HIDE DEF u
  <1>3. FramesIn(u) \subseteq FramesIn(s) \cup FramesIn(t)
    <2> SUFFICES ASSUME NEW k \in DOMAIN u
                 PROVE  \/ \E n \in DOMAIN s : u[k] = s[n]
                        \/ \E n \in DOMAIN t : u[k] = t[n]
      BY DEF FramesIn
    <2>1. k \in 1 .. Len(s) + Len(t)
      BY <1>1, <1>2
    <2>2. CASE k <= Len(s)
      BY <1>1, <1>2, <2>1, <2>2
    <2>3. CASE ~(k <= Len(s))
      <3>1. k - Len(s) \in 1 .. Len(t)
        BY <1>2, <2>1, <2>3
      <3> QED
        BY <1>1, <1>2, <2>1, <2>3, <3>1
    <2> QED
      BY <2>2, <2>3
  <1>4. FramesIn(s) \subseteq FramesIn(u)
    <2> SUFFICES ASSUME NEW k \in DOMAIN s
                 PROVE  \E n \in DOMAIN u : u[n] = s[k]
      BY DEF FramesIn
    <2>1. k \in 1 .. Len(s) + Len(t) /\ k <= Len(s)
      BY <1>2
    <2> QED
      BY <1>1, <1>2, <2>1
  <1>5. FramesIn(t) \subseteq FramesIn(u)
    <2> SUFFICES ASSUME NEW k \in DOMAIN t
                 PROVE  \E n \in DOMAIN u : u[n] = t[k]
      BY DEF FramesIn
    <2>1. /\ k + Len(s) \in 1 .. Len(s) + Len(t) /\ ~(k + Len(s) <= Len(s))
          /\ (k + Len(s)) - Len(s) = k
      BY <1>2
    <2> QED
      BY <1>1, <1>2, <2>1
  <1> QED
    BY <1>3, <1>4, <1>5 DEF u

LEMMA FramesNone == FramesIn(<<>>) = {}
  BY DEF FramesIn

LEMMA FramesOne ==
    ASSUME NEW r \in PfnRange
    PROVE  FramesIn(<<r>>) = Frames(r)
  <1> DEFINE u == <<r>>
  <1>1. DOMAIN u = {1} /\ u[1] = r
    OBVIOUS
  <1> HIDE DEF u
  <1>2. FramesIn(u) = Frames(r)
    BY <1>1 DEF FramesIn
  <1> QED
    BY <1>2 DEF u

LEMMA FramesAppend ==
    ASSUME NEW s \in Seq(PfnRange), NEW r \in PfnRange
    PROVE  FramesIn(Append(s, r)) = FramesIn(s) \cup Frames(r)
  <1>1. Append(s, r) = s \o <<r>> /\ <<r>> \in Seq(PfnRange)
    BY AppendIsConcat
  <1> QED
    BY <1>1, FramesConcat, FramesOne

\* The frames from the k-th range on.
LEMMA FramesFrom ==
    ASSUME NEW s \in Seq(PfnRange), NEW k \in 1 .. Len(s)
    PROVE  FramesIn(SubSeq(s, k, Len(s))) =
               Frames(s[k]) \cup FramesIn(SubSeq(s, k + 1, Len(s)))
  <1> DEFINE t == SubSeq(s, k + 1, Len(s))
  <1>1. Len(s) \in Nat /\ k \in Int /\ Len(s) \in k .. Len(s)
    OBVIOUS
  <1>2. SubSeq(s, k, Len(s)) = <<s[k]>> \o t
    BY <1>1, SubSeqRecursiveFirst
  <1>3. s[k] \in PfnRange /\ <<s[k]>> \in Seq(PfnRange)
    BY ElementOfSeq
  <1>4. t \in Seq(PfnRange)
    <2>1. \A n \in k + 1 .. Len(s) : s[n] \in PfnRange
      BY <1>1, ElementOfSeq
    <2>2. k + 1 \in Int /\ Len(s) \in Int
      BY <1>1
    <2> QED
      BY <2>1, <2>2, SubSeqProperties
  <1> HIDE DEF t
  <1>5. FramesIn(<<s[k]>> \o t) = FramesIn(<<s[k]>>) \cup FramesIn(t)
    BY <1>3, <1>4, FramesConcat
  <1> QED
    BY <1>2, <1>3, <1>5, FramesOne DEF t

\* No range from the one behind the last on.
LEMMA FramesBehind ==
    ASSUME NEW s \in Seq(PfnRange), NEW k \in Int, k > Len(s)
    PROVE  FramesIn(SubSeq(s, k, Len(s))) = {}
  <1>1. Len(s) \in Int /\ Len(s) < k
    OBVIOUS
  <1> QED
    BY <1>1, SubSeqEmpty, FramesNone

\* What SizeOfAll is of the final ranges, of any list of ranges.
SizesOf(s) == [k \in Nat |-> s[k].pend - s[k].pst]
SumOf(s) == CHOOSE S : IsSum(S, SizesOf(s))
Size(s) == SumOf(s)[Len(s)]

LEMMA SumOfIsSum == ASSUME NEW s PROVE IsSum(SumOf(s), SizesOf(s))
  BY SumExists DEF SumOf

LEMMA SizeNone == Size(<<>>) = 0
  <1>1. IsSum(SumOf(<<>>), SizesOf(<<>>)) /\ Len(<<>>) = 0
    BY SumOfIsSum
  <1> QED
    BY <1>1 DEF Size, IsSum

LEMMA SizeIsNumber ==
    ASSUME NEW s \in Seq(PfnRange)
    PROVE  Size(s) \in Int
  <1>1. Len(s) \in Nat
    OBVIOUS
  <1>2. \A k \in 1 .. Len(s) : SizesOf(s)[k] \in Int
    <2> TAKE k \in 1 .. Len(s)
    <2>1. s[k] \in PfnRange /\ k \in Nat
      BY ElementOfSeq
    <2> QED
      BY <2>1 DEF SizesOf, PfnRange
  <1>3. SumOf(s)[Len(s)] \in Int
    BY <1>1, <1>2, SumOfIsSum, SumIsNumber
  <1> QED
    BY <1>3 DEF Size

LEMMA SizeAppend ==
    ASSUME NEW s \in Seq(PfnRange), NEW r \in PfnRange
    PROVE  Size(Append(s, r)) = Size(s) + (r.pend - r.pst)
  <1> DEFINE t == Append(s, r)
             n == Len(s)
  <1>1. n \in Nat /\ n + 1 \in Nat /\ n + 1 # 0 /\ (n + 1) - 1 = n
    OBVIOUS
  <1>2. Len(t) = n + 1 /\ t[n + 1] = r /\ \A k \in 1 .. n : t[k] = s[k]
    BY AppendProperties
  <1> HIDE DEF t, n
  <1>3. SumOf(t)[n + 1] = SumOf(t)[n] + SizesOf(t)[n + 1]
    BY <1>1, SumOfIsSum DEF IsSum
  <1>4. SizesOf(t)[n + 1] = r.pend - r.pst
    BY <1>1, <1>2 DEF SizesOf
  <1>5. SumOf(t)[n] = SumOf(s)[n]
    <2>1. \A k \in 1 .. n : SizesOf(t)[k] = SizesOf(s)[k]
      BY <1>1, <1>2 DEF SizesOf
    <2> QED
      BY <1>1, <2>1, SumOfIsSum, SumOfSame
  <1> QED
    BY <1>2, <1>3, <1>4, <1>5 DEF Size, t, n

LEMMA SizeOfAllIsSize ==
    ASSUME out \in Seq(PfnRange)
    PROVE  SizeOfAll[Len(out)] = Size(out)
  <1> DEFINE D == SizesOf(out)
             Meant(S) == S = [k \in Nat |->
                               IF k = 0 THEN 0
                               ELSE S[k - 1] + (out[k].pend - out[k].pst)]
  <1>1. \A S : IsSum(S, D) => Meant(S)
    BY DEF IsSum, SizesOf
  <1>2. \E S : Meant(S)
    BY <1>1, SumExists
  <1>3. SizeOfAll = CHOOSE S : Meant(S)
    BY DEF SizeOfAll
  <1>4. Meant(SizeOfAll)
    BY <1>2, <1>3
  <1>5. \A S : Meant(S) => IsSum(S, D)
    BY DEF IsSum, SizesOf
  <1>6. IsSum(SizeOfAll, D)
    BY <1>4, <1>5
  <1>7. Len(out) \in Nat
    OBVIOUS
  <1> QED
    BY <1>6, <1>7, SumOfIsSum, SumOfSame DEF Size
-----------------------------------------------------------------------------
(* The footprint                                                           *)

\* The ranges are in the order of their first frames.
Ordered(s) == \A j, k \in DOMAIN s : j < k => s[j].pst <= s[k].pst

\* The frames that are accounted for.
Seen == FramesIn(out) \cup Frames(curr)

\* The list is in order, and keeps it when ranges are joined.  In the second
\* loop a cut may take the current range behind the start of the next one:
\* then the frames between them are final already.
FInv ==
    /\ FramesKept
    /\ pc \in {"start", "join", "fix"} => Ordered(ranges)
    /\ pc = "join" => /\ Ordered(out)
                      /\ \A k \in DOMAIN out : out[k].pst <= curr.pst
                      /\ curr.pst <= ranges[i - 1].pst
    /\ pc = "fix" =>
           /\ \A f \in Int : ranges[i - 1].pst <= f /\ f < curr.pst =>
                                 f \in FramesIn(out)
           /\ \A f \in FramesIn(out) : f < curr.pend
           /\ IsFiniteSet(Seen)
           /\ Cardinality(Seen) = Size(out) + (curr.pend - curr.pst)
    /\ pc = "done" => Cardinality(FramesIn(out)) = Size(out)

\* Every range of create_ranges is in the list.
LEMMA SortedIsAll ==
    ASSUME NEW f \in Seq(Vma), NEW s \in Sorted(f)
    PROVE  {s[k] : k \in DOMAIN s} = Valid(f)
  <1> DEFINE n == Cardinality(Valid(f))
  <1>1. IsFiniteSet(Valid(f)) /\ n \in Nat
    BY ValidIsFinite, FS_CardinalityType
  <1>2. s \in [1 .. n -> Valid(f)] /\ DOMAIN s = 1 .. n
    BY DEF Sorted
  <1>3. \A c \in Valid(f) : ~Before(f, c, c)
    <2> SUFFICES ASSUME NEW c \in Valid(f), Before(f, c, c)
                 PROVE  FALSE
      OBVIOUS
    <2>1. RangeOf(f, c) \in PfnRange
      BY RangeOfIsARange
    <2>2. RangeOf(f, c).pst \in Int
      BY <2>1 DEF PfnRange
    <2>3. PICK v \in DOMAIN f : \E j \in DOMAIN f[v].subVMAs : c = <<v, j>>
      BY DEF Valid
    <2>4. PICK j \in DOMAIN f[v].subVMAs : c = <<v, j>>
      BY <2>3
    <2>5. f[v] \in Vma /\ f[v].subVMAs \in Seq(SubVma)
      <3>1. f[v] \in Vma
        OBVIOUS
      <3> QED
        BY <3>1 DEF Vma
    <2>6. c[1] \in Int /\ c[2] \in Int
      BY <2>4, <2>5
    <2> QED
      BY <2>2, <2>6 DEF Before
  <1>4. s \in Injection(1 .. n, Valid(f))
    <2>1. \A j, k \in 1 .. n : s[j] = s[k] => j = k
      <3> SUFFICES ASSUME NEW j \in 1 .. n, NEW k \in 1 .. n, s[j] = s[k],
                          j # k
                   PROVE  FALSE
        OBVIOUS
      <3>1. s[j] \in Valid(f) /\ (j < k \/ k < j)
        BY <1>1, <1>2
      <3>2. Before(f, s[j], s[j])
        BY <1>2, <3>1 DEF Sorted
      <3> QED
        BY <1>3, <3>1, <3>2
    <2> QED
      BY <1>2, <2>1 DEF Injection, IsInjective
  <1>5. IsFiniteSet(1 .. n) /\ Cardinality(1 .. n) = n
    <2>1. 1 \in Int /\ n \in Int
      BY <1>1
    <2>2. /\ IsFiniteSet(1 .. n)
          /\ Cardinality(1 .. n) = IF 1 > n THEN 0 ELSE n - 1 + 1
      BY <2>1, FS_Interval
    <2> QED
      BY <1>1, <2>2
  <1>6. s \in Surjection(1 .. n, Valid(f))
    BY <1>1, <1>4, <1>5, FS_Injection
  <1> QED
    BY <1>2, <1>6 DEF Surjection

LEMMA InitFInv == Init => FInv
  <1> SUFFICES ASSUME Init
               PROVE  FInv
    OBVIOUS
  <1>1. file \in Seq(Vma)
    BY FilesAssumption DEF Init
  <1>2. PICK s \in Sorted(file) :
          ranges = [k \in DOMAIN s |-> RangeOf(file, s[k])]
    BY DEF Init
  <1>3. DOMAIN ranges = DOMAIN s
        /\ \A k \in DOMAIN s : ranges[k] = RangeOf(file, s[k])
    BY <1>2
  <1>4. Footprint = FramesIn(ranges)
    <2>1. {s[k] : k \in DOMAIN s} = Valid(file)
      BY <1>1, SortedIsAll
    <2>2. create_ranges(file) = {ranges[k] : k \in DOMAIN ranges}
      BY <1>3, <2>1 DEF create_ranges
    <2> QED
      BY <2>2 DEF Footprint, FramesIn
  <1>5. Ordered(ranges)
    <2> SUFFICES ASSUME NEW j \in DOMAIN s, NEW k \in DOMAIN s, j < k
                 PROVE  RangeOf(file, s[j]).pst <= RangeOf(file, s[k]).pst
      BY <1>3 DEF Ordered
    <2>1. Before(file, s[j], s[k]) /\ s[j] \in Valid(file) /\ s[k] \in Valid(file)
      BY DEF Sorted
    <2>2. RangeOf(file, s[j]) \in PfnRange /\ RangeOf(file, s[k]) \in PfnRange
      BY <1>1, <2>1, RangeOfIsARange
    <2>3. RangeOf(file, s[j]).pst \in Int /\ RangeOf(file, s[k]).pst \in Int
      BY <2>2 DEF PfnRange
    <2> QED
      BY <2>1, <2>3 DEF Before
  <1> QED
    BY <1>4, <1>5 DEF Init, FInv, FramesKept

LEMMA OrderedAppend ==
    ASSUME NEW s \in Seq(PfnRange), NEW r \in PfnRange, Ordered(s),
           \A k \in DOMAIN s : s[k].pst <= r.pst
    PROVE  /\ Ordered(Append(s, r))
           /\ \A q \in Int : r.pst <= q =>
                  \A k \in DOMAIN Append(s, r) : Append(s, r)[k].pst <= q
  <1> DEFINE t == Append(s, r)
  <1>1. /\ Len(s) \in Nat /\ DOMAIN s = 1 .. Len(s)
        /\ t \in Seq(PfnRange) /\ Len(t) = Len(s) + 1
        /\ \A k \in 1 .. Len(s) : t[k] = s[k]
        /\ t[Len(s) + 1] = r
    BY AppendProperties
  <1>2. DOMAIN t = 1 .. Len(s) + 1
    BY <1>1
  <1>3. \A k \in 1 .. Len(s) : s[k].pst \in Int
    <2> TAKE k \in 1 .. Len(s)
    <2>1. s[k] \in PfnRange
      BY ElementOfSeq
    <2> QED
      BY <2>1 DEF PfnRange
  <1>4. r.pst \in Int
    BY DEF PfnRange
  <1> HIDE DEF t
  <1>5. \A k \in 1 .. Len(s) + 1 : t[k].pst <= r.pst
    <2> TAKE k \in 1 .. Len(s) + 1
    <2>1. k \in 1 .. Len(s) \/ k = Len(s) + 1
      BY <1>1
    <2> QED
      BY <1>1, <1>4, <2>1
  <1>6. \A k \in 1 .. Len(s) + 1 : t[k].pst \in Int
    <2> TAKE k \in 1 .. Len(s) + 1
    <2>1. k \in 1 .. Len(s) \/ k = Len(s) + 1
      BY <1>1
    <2> QED
      BY <1>1, <1>3, <1>4, <2>1
  <1>7. Ordered(t)
    <2> SUFFICES ASSUME NEW j \in 1 .. Len(s) + 1, NEW k \in 1 .. Len(s) + 1,
                        j < k
                 PROVE  t[j].pst <= t[k].pst
      BY <1>2 DEF Ordered
    <2>1. CASE k = Len(s) + 1
      BY <1>1, <1>5, <2>1
    <2>2. CASE k # Len(s) + 1
      <3>1. j \in 1 .. Len(s) /\ k \in 1 .. Len(s)
        BY <1>1, <2>2
      <3> QED
        BY <1>1, <3>1 DEF Ordered
    <2> QED
      BY <2>1, <2>2
  <1>8. \A q \in Int : r.pst <= q => \A k \in DOMAIN t : t[k].pst <= q
    BY <1>2, <1>4, <1>5, <1>6
  <1> QED
    BY <1>7, <1>8 DEF t

\* Frames of a piece that was cut off, and of the range that goes on.
LEMMA CutOnce ==
    ASSUME NEW O, O \subseteq Int,
           NEW cp \in Int, NEW ce \in Int, NEW np \in Int, NEW ne \in Int,
           NEW m \in Int, NEW e \in Int,
           cp < ce, np < ne, np <= ce, e = IF ce < ne THEN ne ELSE ce,
           \A f \in Int : np <= f /\ f < cp => f \in O,
           \A f \in O : f < ce,
           m = cp \/ np <= m, m < e
    PROVE  /\ (O \cup (cp .. m - 1)) \cup (m .. e - 1) =
                  (O \cup (cp .. ce - 1)) \cup (np .. ne - 1)
           /\ \A f \in Int : np <= f /\ f < m => f \in O \cup (cp .. m - 1)
           /\ \A f \in O \cup (cp .. m - 1) : f < e
           /\ (O \cup (cp .. ce - 1)) \cup (np .. ne - 1) =
                  (O \cup (cp .. ce - 1)) \cup (ce .. e - 1)
  <1>1. (O \cup (cp .. m - 1)) \cup (m .. e - 1) =
            (O \cup (cp .. ce - 1)) \cup (np .. ne - 1)
    OBVIOUS
  <1>2. \A f \in Int : np <= f /\ f < m => f \in O \cup (cp .. m - 1)
    OBVIOUS
  <1>3. \A f \in O \cup (cp .. m - 1) : f < e
    OBVIOUS
  <1>4. (O \cup (cp .. ce - 1)) \cup (np .. ne - 1) =
            (O \cup (cp .. ce - 1)) \cup (ce .. e - 1)
    OBVIOUS
  <1> QED
    BY <1>1, <1>2, <1>3, <1>4

\* Two pieces instead of one.
LEMMA CutTwice ==
    ASSUME NEW O, NEW cp \in Int, NEW np \in Int, NEW m \in Int, np <= m,
           \A f \in Int : np <= f /\ f < cp => f \in O
    PROVE  (O \cup (cp .. np - 1)) \cup (np .. m - 1) = O \cup (cp .. m - 1)
  OBVIOUS

\* The cardinality of a set that grows by an interval behind it.
LEMMA AddInterval ==
    ASSUME NEW U, IsFiniteSet(U), NEW a \in Int, NEW b \in Int, a <= b,
           \A f \in U : f \in Int /\ f < a
    PROVE  /\ IsFiniteSet(U \cup (a .. b - 1))
           /\ Cardinality(U \cup (a .. b - 1)) = Cardinality(U) + (b - a)
  <1>1. b - 1 \in Int
    OBVIOUS
  <1>2. /\ IsFiniteSet(a .. b - 1)
        /\ Cardinality(a .. b - 1) = IF a > b - 1 THEN 0 ELSE (b - 1) - a + 1
    BY <1>1, FS_Interval
  <1>3. Cardinality(a .. b - 1) = b - a
    BY <1>2
  <1>4. U \cap (a .. b - 1) = {}
    OBVIOUS
  <1>5. Cardinality({}) = 0
    BY FS_EmptySet
  <1>6. /\ IsFiniteSet(U \cup (a .. b - 1))
        /\ Cardinality(U \cup (a .. b - 1)) =
               Cardinality(U) + Cardinality(a .. b - 1)
                   - Cardinality(U \cap (a .. b - 1))
    BY <1>2, FS_Union
  <1>7. Cardinality(U) \in Nat /\ b - a \in Int
    BY FS_CardinalityType
  <1>8. Cardinality(U \cup (a .. b - 1)) = Cardinality(U) + (b - a) - 0
    BY <1>3, <1>4, <1>5, <1>6
  <1> HIDE DEF IsFiniteSet
  <1>9. Cardinality(U) + (b - a) - 0 = Cardinality(U) + (b - a)
    BY <1>7
  <1> QED
    BY <1>6, <1>8, <1>9

\* The next range does not start in front of the one before it in the list.
LEMMA OrderedNext ==
    ASSUME IInv, FInv, pc \in {"join", "fix"}, i <= Len(ranges)
    PROVE  /\ ranges[i - 1].pst \in Int /\ next.pst \in Int
           /\ ranges[i - 1].pst <= next.pst
           /\ pc = "fix" => \A f \in Int : next.pst <= f /\ f < curr.pst =>
                                               f \in FramesIn(out)
  <1>1. i \in DOMAIN ranges /\ i - 1 \in DOMAIN ranges /\ i - 1 < i
    BY DEF IInv, TypeOK, Ranges
  <1>2. ranges[i] \in PfnRange /\ ranges[i - 1] \in PfnRange
    BY <1>1 DEF IInv, TypeOK
  <1>3. ranges[i - 1].pst \in Int /\ ranges[i].pst \in Int
    BY <1>2 DEF PfnRange
  <1>4. ranges[i - 1].pst <= ranges[i].pst
    BY <1>1 DEF FInv, Ordered
  <1>5. \A f \in Int : ranges[i].pst <= f => ranges[i - 1].pst <= f
    BY <1>3, <1>4
  <1> QED
    BY <1>3, <1>4, <1>5 DEF FInv, next

\* What a cut adds to the final ranges.
LEMMA CutPieces ==
    ASSUME IInv, FInv, Fixing, Cut, next.pst <= curr.pend
    PROVE  /\ FramesIn(out') = FramesIn(out) \cup (curr.pst .. curr'.pst - 1)
           /\ Size(out') = Size(out) + (curr'.pst - curr.pst)
           /\ curr'.pst = curr.pst \/ next.pst <= curr'.pst
           /\ curr'.pend = LastEnd
  <1>1. out \in Seq(PfnRange) /\ curr \in PfnRange /\ next \in PfnRange
    BY NextIsARange DEF IInv, TypeOK, Fixing
  <1>2. /\ curr.pst \in Int /\ curr.pend \in Int /\ next.pst \in Int
        /\ curr' \in PfnRange /\ curr'.pst \in Int
    BY <1>1 DEF Cut, PfnRange
  <1>3. Size(out) \in Int
    BY <1>1, SizeIsNumber
  <1>4. ~Gap
    BY <1>2 DEF Gap
  <1>5. CASE NoPiece
    <2>1. curr.pst .. curr'.pst - 1 = {} /\ curr'.pst - curr.pst = 0
      BY <1>2, <1>5 DEF NoPiece
    <2>2. Size(out) = Size(out) + 0
      BY <1>3
    <2> QED
      BY <1>4, <1>5, <2>1, <2>2 DEF Cut, NoPiece
  <1>6. CASE OnePiece
    <2>1. PICK a \in PfnRange : /\ out' = Append(out, a)
                                /\ a.pst = curr.pst /\ a.pend = curr'.pst
      BY <1>6 DEF OnePiece
    <2>2. FramesIn(out') = FramesIn(out) \cup (curr.pst .. curr'.pst - 1)
      BY <1>1, <2>1, FramesAppend DEF Frames
    <2>3. Size(out') = Size(out) + (curr'.pst - curr.pst)
      BY <1>1, <2>1, SizeAppend
    <2> QED
      BY <1>4, <1>6, <2>2, <2>3 DEF Cut, OnePiece
  <1>7. CASE TwoPieces
    <2>1. PICK a, b \in PfnRange : /\ out' = Append(Append(out, a), b)
                                   /\ a.pst = curr.pst /\ a.pend = next.pst
                                   /\ b.pst = next.pst /\ b.pend = curr'.pst
      BY <1>7 DEF TwoPieces
    <2> DEFINE t == Append(out, a)
    <2>2. /\ t \in Seq(PfnRange)
          /\ FramesIn(t) = FramesIn(out) \cup (curr.pst .. next.pst - 1)
          /\ Size(t) = Size(out) + (next.pst - curr.pst)
      BY <1>1, <2>1, FramesAppend, SizeAppend, AppendProperties DEF Frames
    <2>3. out' = Append(t, b)
      BY <2>1
    <2> HIDE DEF t
    <2>4. /\ FramesIn(out') = FramesIn(t) \cup (next.pst .. curr'.pst - 1)
          /\ Size(out') = Size(t) + (curr'.pst - next.pst)
      BY <2>1, <2>2, <2>3, FramesAppend, SizeAppend DEF Frames
    <2>5. next.pst <= curr'.pst
      BY <1>7 DEF TwoPieces
    <2>6. \A f \in Int : next.pst <= f /\ f < curr.pst => f \in FramesIn(out)
      BY <1>2, OrderedNext DEF FInv, Fixing
    <2>7. FramesIn(out') = FramesIn(out) \cup (curr.pst .. curr'.pst - 1)
      BY <1>2, <2>2, <2>4, <2>5, <2>6, CutTwice
    <2>8. Size(out') = Size(out) + (curr'.pst - curr.pst)
      BY <1>2, <1>3, <2>2, <2>4
    <2> QED
      BY <1>4, <2>5, <2>7, <2>8 DEF Cut
  <1> QED
    BY <1>4, <1>5, <1>6, <1>7 DEF Cut

\* The frames that are seen, and how many there are.
LEMMA CutSees ==
    ASSUME IInv, FInv, Fixing, Cut
    PROVE  /\ Seen' = Seen \cup Frames(next)
           /\ \A f \in Int : next.pst <= f /\ f < curr'.pst => f \in FramesIn(out')
           /\ \A f \in FramesIn(out') : f < curr'.pend
           /\ IsFiniteSet(Seen')
           /\ Cardinality(Seen') = Size(out') + (curr'.pend - curr'.pst)
  <1> DEFINE cp == curr.pst   ce == curr.pend
             np == next.pst   ne == next.pend
             m == curr'.pst   e == curr'.pend
             O == FramesIn(out)
  <1>1. out \in Seq(PfnRange) /\ curr \in PfnRange /\ next \in PfnRange
        /\ curr.pst < curr.pend /\ next.pst < next.pend
    BY NextIsARange DEF IInv, TypeOK, Fixing
  <1>2. /\ cp \in Int /\ ce \in Int /\ np \in Int /\ ne \in Int
        /\ curr' \in PfnRange /\ m \in Int /\ e \in Int /\ m < e
    BY <1>1 DEF Cut, PfnRange
  <1>3. Size(out) \in Int
    BY <1>1, SizeIsNumber
  <1>4. /\ \A f \in Int : np <= f /\ f < cp => f \in O
        /\ \A f \in O : f < ce
        /\ IsFiniteSet(Seen) /\ Cardinality(Seen) = Size(out) + (ce - cp)
    BY <1>2, OrderedNext DEF FInv, Fixing
  <1>5. O \subseteq Int
    BY DEF FramesIn, Frames
  <1>6. Seen = O \cup (cp .. ce - 1)
    BY DEF Seen, Frames
  <1>7. \A f \in Seen : f \in Int /\ f < ce
    BY <1>2, <1>4, <1>5, <1>6
  <1>8. CASE ce < np
    <2>1. out' = Append(out, curr) /\ curr' = next
      BY <1>2, <1>8 DEF Cut, Gap
    <2>2. FramesIn(out') = Seen /\ Size(out') = Size(out) + (ce - cp)
      BY <1>1, <2>1, FramesAppend, SizeAppend DEF Seen
    <2>3. Seen' = Seen \cup (np .. ne - 1)
      BY <2>1, <2>2 DEF Seen, Frames
    <2>4. \A f \in Seen : f \in Int /\ f < np
      BY <1>2, <1>7, <1>8
    <2>5. /\ IsFiniteSet(Seen \cup (np .. ne - 1))
          /\ Cardinality(Seen \cup (np .. ne - 1)) = Cardinality(Seen) + (ne - np)
      <3>1. np <= ne
        BY <1>1, <1>2
      <3> HIDE DEF np, ne
      <3> QED
        BY <1>2, <1>4, <2>4, <3>1, AddInterval
    <2>6. \A f \in FramesIn(out') : f < e
      BY <1>1, <1>2, <2>1, <2>2, <2>4
    <2>7. \A f \in Int : ~(np <= f /\ f < m)
      BY <1>2, <2>1
    <2>8. Cardinality(Seen') = Size(out') + (e - m)
      BY <1>4, <2>1, <2>2, <2>3, <2>5
    <2> QED
      BY <2>3, <2>5, <2>6, <2>7, <2>8 DEF Frames
  <1>9. CASE ~(ce < np)
    <2>0. np <= ce
      BY <1>2, <1>9
    <2>1. /\ FramesIn(out') = O \cup (cp .. m - 1)
          /\ Size(out') = Size(out) + (m - cp)
          /\ m = cp \/ np <= m
          /\ e = IF ce < ne THEN ne ELSE ce
      BY <2>0, CutPieces DEF LastEnd
    <2>2. Seen' = (O \cup (cp .. m - 1)) \cup (m .. e - 1)
      BY <2>1 DEF Seen, Frames
    <2> HIDE DEF cp, ce, np, ne, m, e, O
    <2>3. /\ (O \cup (cp .. m - 1)) \cup (m .. e - 1) =
                 (O \cup (cp .. ce - 1)) \cup (np .. ne - 1)
          /\ \A f \in Int : np <= f /\ f < m => f \in O \cup (cp .. m - 1)
          /\ \A f \in O \cup (cp .. m - 1) : f < e
          /\ (O \cup (cp .. ce - 1)) \cup (np .. ne - 1) =
                 (O \cup (cp .. ce - 1)) \cup (ce .. e - 1)
      <3>1. cp < ce /\ np < ne
        BY <1>1 DEF cp, ce, np, ne
      <3> QED
        BY <1>2, <1>4, <1>5, <2>0, <2>1, <3>1, CutOnce
    <2>4. Seen' = Seen \cup (np .. ne - 1) /\ Seen' = Seen \cup (ce .. e - 1)
      BY <1>6, <2>2, <2>3
    <2>5. ce <= e
      BY <1>2, <2>1
    <2>6. /\ IsFiniteSet(Seen \cup (ce .. e - 1))
          /\ Cardinality(Seen \cup (ce .. e - 1)) = Cardinality(Seen) + (e - ce)
      BY <1>2, <1>4, <1>7, <2>5, AddInterval
    <2>7. Cardinality(Seen') = Size(out') + (e - m)
      <3>1. (Size(out) + (ce - cp)) + (e - ce) = (Size(out) + (m - cp)) + (e - m)
        BY <1>2, <1>3
      <3> QED
        BY <1>4, <2>1, <2>4, <2>6, <3>1
    <2> QED
      BY <2>1, <2>3, <2>4, <2>6, <2>7 DEF Frames, np, ne, m, e
  <1> QED
    BY <1>8, <1>9

LEMMA NextFInv == IInv /\ FInv /\ [Next]_vars => FInv'
  <1> SUFFICES ASSUME IInv, FInv, [Next]_vars
               PROVE  FInv'
    OBVIOUS
  <1>0. /\ ranges \in Seq(PfnRange) /\ out \in Seq(PfnRange)
        /\ curr \in PfnRange /\ Len(ranges) \in Nat /\ i \in Int
    BY DEF IInv, TypeOK
  <1>1. CASE Fail
    BY <1>1 DEF Fail, FInv, FramesKept
  <1>2. CASE Start
    <2>1. /\ pc = "start" /\ pc' = "join" /\ i' = 2 /\ curr' = ranges[1]
          /\ ranges' = ranges /\ file' = file /\ out' = out /\ out = <<>>
      BY <1>2 DEF Start, IInv
    <2>2. 1 \in 1 .. Len(ranges)
      BY <1>0, <1>2 DEF Start
    <2>3. SubSeq(ranges, 1, Len(ranges)) = ranges
      BY <1>0, SubSeqFull
    <2>4. FramesIn(ranges) = Frames(ranges[1])
                                 \cup FramesIn(SubSeq(ranges, 1 + 1, Len(ranges)))
      BY <1>0, <2>2, <2>3, FramesFrom
    <2>5. Footprint = FramesIn(ranges) /\ Footprint' = Footprint
      BY <2>1 DEF FInv, FramesKept, Footprint
    <2>6. FramesKept'
      BY <2>1, <2>4, <2>5, FramesNone DEF FramesKept
    <2>7. ranges[1].pst <= ranges[1].pst
      <3>1. ranges[1] \in PfnRange
        BY <1>0, <2>2, ElementOfSeq
      <3> QED
        BY <3>1 DEF PfnRange
    <2>8. Ordered(out')
      BY <2>1 DEF Ordered
    <2> QED
      BY <2>1, <2>6, <2>7, <2>8 DEF FInv, Ordered
  <1>3. CASE Join
    <2>1. /\ pc = "join" /\ i <= Len(ranges) /\ curr.pend = next.pst
          /\ curr' = Extended /\ i' = i + 1
          /\ UNCHANGED <<file, pc, ranges, out>>
      BY <1>3 DEF Join, Follows
    <2>2. /\ next \in PfnRange /\ next.pst < next.pend
          /\ ranges[i - 1].pst <= next.pst
          /\ ranges[i - 1].pst \in Int /\ next.pst \in Int
      BY <2>1, NextIsARange, OrderedNext
    <2>3. curr.pst \in Int /\ curr.pend \in Int /\ next.pend \in Int
          /\ curr.pst < curr.pend
      BY <1>0, <2>1, <2>2 DEF PfnRange, IInv
    <2>4. curr'.pst = curr.pst /\ curr'.pend = next.pend
      BY <2>1 DEF Extended
    <2>5. Frames(curr') = Frames(curr) \cup Frames(next)
      BY <2>1, <2>2, <2>3, <2>4 DEF Frames
    <2>6. i \in 1 .. Len(ranges)
      BY <2>1 DEF IInv, TypeOK
    <2>7. FramesIn(SubSeq(ranges, i, Len(ranges))) =
              Frames(next) \cup FramesIn(SubSeq(ranges, i + 1, Len(ranges)))
      BY <1>0, <2>6, FramesFrom DEF next
    <2>8. FramesKept'
      BY <2>1, <2>5, <2>7 DEF FInv, FramesKept, Footprint
    <2>9. curr'.pst <= ranges[(i + 1) - 1].pst
      <3>1. (i + 1) - 1 = i
        BY <1>0
      <3>2. curr.pst <= ranges[i - 1].pst
        BY <2>1 DEF FInv
      <3> QED
        BY <2>2, <2>3, <2>4, <3>1, <3>2 DEF next
    <2> QED
      BY <2>1, <2>4, <2>8, <2>9 DEF FInv
  <1>4. CASE JoinBreak
    <2>1. /\ pc = "join" /\ i <= Len(ranges)
          /\ out' = Append(out, curr) /\ curr' = next /\ i' = i + 1
          /\ UNCHANGED <<file, pc, ranges>>
      BY <1>4 DEF JoinBreak
    <2>2. /\ next \in PfnRange /\ next.pst < next.pend
          /\ ranges[i - 1].pst <= next.pst
          /\ ranges[i - 1].pst \in Int /\ next.pst \in Int
      BY <2>1, NextIsARange, OrderedNext
    <2>3. curr.pst \in Int
      BY <1>0 DEF PfnRange
    <2>4. i \in 1 .. Len(ranges)
      BY <2>1 DEF IInv, TypeOK
    <2>5. FramesIn(SubSeq(ranges, i, Len(ranges))) =
              Frames(next) \cup FramesIn(SubSeq(ranges, i + 1, Len(ranges)))
      BY <1>0, <2>4, FramesFrom DEF next
    <2>6. FramesIn(out') = FramesIn(out) \cup Frames(curr)
      BY <1>0, <2>1, FramesAppend
    <2>7. FramesKept'
      BY <2>1, <2>5, <2>6 DEF FInv, FramesKept, Footprint
    <2>8. /\ Ordered(out) /\ \A k \in DOMAIN out : out[k].pst <= curr.pst
          /\ curr.pst <= ranges[i - 1].pst
      BY <2>1 DEF FInv
    <2>9. curr.pst <= next.pst
      BY <2>2, <2>3, <2>8
    <2>10. Ordered(out') /\ \A k \in DOMAIN out' : out'[k].pst <= next.pst
      BY <1>0, <2>1, <2>2, <2>8, <2>9, OrderedAppend
    <2>11. next.pst <= ranges[(i + 1) - 1].pst
      <3>1. (i + 1) - 1 = i
        BY <1>0
      <3> QED
        BY <2>2, <3>1 DEF next
    <2> QED
      BY <2>1, <2>7, <2>10, <2>11 DEF FInv
  <1>5. CASE Joined
    <2>1. /\ pc = "join" /\ pc' = "fix" /\ i > Len(ranges)
          /\ ranges' = Append(out, curr) /\ curr' = ranges'[1]
          /\ i' = 2 /\ out' = <<>> /\ file' = file
      BY <1>5 DEF Joined
    <2>2. FramesIn(SubSeq(ranges, i, Len(ranges))) = {}
      BY <1>0, <2>1, FramesBehind
    <2>3. Footprint = FramesIn(ranges')
      BY <1>0, <2>1, <2>2, FramesAppend DEF FInv, FramesKept
    <2>4. ranges' \in Seq(PfnRange) /\ 1 \in 1 .. Len(ranges')
      BY <1>0, <2>1, AppendProperties
    <2>5. SubSeq(ranges', 1, Len(ranges')) = ranges'
      BY <2>4, SubSeqFull
    <2>6. FramesIn(ranges') =
              Frames(ranges'[1])
                  \cup FramesIn(SubSeq(ranges', 1 + 1, Len(ranges')))
      BY <2>4, <2>5, FramesFrom
    <2>7. FramesKept'
      BY <2>1, <2>3, <2>6, FramesNone DEF FramesKept, Footprint
    <2>8. Ordered(ranges')
      <3>1. Ordered(out) /\ \A k \in DOMAIN out : out[k].pst <= curr.pst
        BY <2>1 DEF FInv
      <3>2. Ordered(Append(out, curr))
        BY <1>0, <3>1, OrderedAppend
      <3> QED
        BY <2>1, <3>2
    <2>9. curr' \in PfnRange /\ curr'.pst < curr'.pend
      <3>1. IInv'
        BY NextIInv
      <3> QED
        BY <2>1, <3>1 DEF IInv, TypeOK
    <2>10. curr'.pst \in Int /\ curr'.pend \in Int
      BY <2>9 DEF PfnRange
    <2>11. Seen' = {} \cup (curr'.pst .. curr'.pend - 1)
      BY <2>1, FramesNone DEF Seen, Frames
    <2>12. /\ IsFiniteSet(Seen')
           /\ Cardinality(Seen') = 0 + (curr'.pend - curr'.pst)
      <3>1. IsFiniteSet({}) /\ Cardinality({}) = 0
        BY FS_EmptySet
      <3>2. curr'.pst <= curr'.pend
        BY <2>9, <2>10
      <3> QED
        BY <2>10, <2>11, <3>1, <3>2, AddInterval
    <2>13. \A f \in Int : ~(ranges'[2 - 1].pst <= f /\ f < curr'.pst)
      BY <2>1, <2>10
    <2> QED
      BY <2>1, <2>7, <2>8, <2>12, <2>13, FramesNone, SizeNone DEF FInv
  <1>6. CASE FixOne
    <2>1. Fixing /\ Cut
      BY <1>6, FixCuts
    <2>2. /\ pc = "fix" /\ i <= Len(ranges) /\ i' = i + 1
          /\ UNCHANGED <<file, pc, ranges>>
      BY <2>1 DEF Fixing, Cut
    <2>3. /\ Seen' = Seen \cup Frames(next)
          /\ \A f \in Int : next.pst <= f /\ f < curr'.pst => f \in FramesIn(out')
          /\ \A f \in FramesIn(out') : f < curr'.pend
          /\ IsFiniteSet(Seen')
          /\ Cardinality(Seen') = Size(out') + (curr'.pend - curr'.pst)
      BY <2>1, CutSees
    <2>4. i \in 1 .. Len(ranges)
      BY <2>2 DEF IInv, TypeOK
    <2>5. FramesIn(SubSeq(ranges, i, Len(ranges))) =
              Frames(next) \cup FramesIn(SubSeq(ranges, i + 1, Len(ranges)))
      BY <1>0, <2>4, FramesFrom DEF next
    <2>6. FramesKept'
      BY <2>2, <2>3, <2>5 DEF FInv, FramesKept, Footprint, Seen
    <2>7. next = ranges'[i' - 1]
      <3>1. (i + 1) - 1 = i
        BY <1>0
      <3> QED
        BY <2>2, <3>1 DEF next
    <2> QED
      BY <2>2, <2>3, <2>6, <2>7 DEF FInv
  <1>7. CASE Fixed
    <2>1. /\ pc = "fix" /\ pc' = "done" /\ i > Len(ranges)
          /\ out' = Append(out, curr) /\ file' = file
      BY <1>7 DEF Fixed, Fixing
    <2>2. FramesIn(SubSeq(ranges, i, Len(ranges))) = {}
      BY <1>0, <2>1, FramesBehind
    <2>3. FramesIn(out') = Seen /\ Size(out') = Size(out) + (curr.pend - curr.pst)
      BY <1>0, <2>1, FramesAppend, SizeAppend DEF Seen
    <2>4. FramesKept'
      BY <2>1, <2>2, <2>3 DEF FInv, FramesKept, Footprint, Seen
    <2> QED
      BY <2>1, <2>3, <2>4 DEF FInv
  <1>8. CASE UNCHANGED vars
    BY <1>8 DEF vars, FInv, FramesKept, Footprint, Seen
  <1>9. QED
    BY <1>1, <1>2, <1>3, <1>4, <1>5, <1>6, <1>7, <1>8 DEF Next
-----------------------------------------------------------------------------
(* The theorems                                                            *)

\* The invariant holds for every file of VMAs and subVMAs.
THEOREM Inductive == Spec => []IInv
  BY InitIInv, NextIInv, PTL DEF Spec

\* Both loops keep lists of ranges, whatever the subVMAs ask for.
THEOREM TypeCorrect == Spec => []TypeOK
  BY Inductive, PTL DEF IInv

\* However a range is cut, the current range keeps a frame
\* (calc_optimal_results.py:128-250).
THEOREM CurrentHasAFrame == Spec => []CurrentIsARange
  <1>1. IInv => CurrentIsARange
    BY DEF IInv, CurrentIsARange, Ranges
  <1>2. QED
    BY <1>1, Inductive, PTL

\* None of the next ranges is left without a case, so the index of the while
\* loop (calc_optimal_results.py:134) always moves.
THEOREM EveryRangeHasACase == Spec => []ACaseApplies
  <1>1. IInv => ACaseApplies
    <2> SUFFICES ASSUME IInv, Fixing
                 PROVE  CaseI \/ CaseII \/ CaseIII
      BY DEF ACaseApplies
    <2>1. next \in PfnRange /\ next.pst < next.pend
      BY NextIsARange DEF Fixing
    <2>2. curr \in PfnRange /\ curr.pst < curr.pend
      BY DEF IInv, TypeOK, Fixing
    <2>3. /\ next.pst \in Int /\ next.pend \in Int
          /\ curr.pst \in Int /\ curr.pend \in Int
      BY <2>1, <2>2 DEF PfnRange
    <2>4. QED
      BY <2>1, <2>2, <2>3 DEF CaseI, CaseII, CaseIII
  <1>2. QED
    BY <1>1, Inductive, PTL

\* The final ranges are a chain of frames, also after a cut has broken the
\* order of the list: this is why their sizes add up although some of them
\* may be negative.
THEOREM RangesAreChained == Spec => []Chained
  <1>1. IInv => Chained
    BY DEF IInv, Chained, LinkedTo, Linked
  <1>2. QED
    BY <1>1, Inductive, PTL

\* Both invariants, of which the second is about the frames.
THEOREM FramesInductive == Spec => [](IInv /\ FInv)
  <1>1. Init => IInv /\ FInv
    BY InitIInv, InitFInv
  <1>2. (IInv /\ FInv) /\ [Next]_vars => (IInv /\ FInv)'
    BY NextIInv, NextFInv
  <1> QED
    BY <1>1, <1>2, PTL DEF Spec

\* Wherever the subVMAs of a process collide, the ranges that are printed have
\* the frames that were asked for, all of them and no others.
THEOREM NoFrameIsLost == Spec => []FramesKept
  <1>1. IInv /\ FInv => FramesKept
    BY DEF FInv
  <1> QED
    BY <1>1, FramesInductive, PTL

\* The total of the sizes is the number of the frames, although a piece that
\* is cut off in front of its range has a negative size.
THEOREM SizesAddUp == Spec => []TotalIsFootprint
  <1>1. IInv /\ FInv => TotalIsFootprint
    <2> SUFFICES ASSUME IInv, FInv, pc = "done"
                 PROVE  SizeOfAll[Len(out)] = Cardinality(Footprint)
      BY DEF TotalIsFootprint
    <2>1. out \in Seq(PfnRange)
      BY DEF IInv, TypeOK
    <2>2. Footprint = FramesIn(out) /\ Cardinality(FramesIn(out)) = Size(out)
      BY DEF FInv, FramesKept
    <2> QED
      BY <2>1, <2>2, SizeOfAllIsSize
  <1> QED
    BY <1>1, FramesInductive, PTL
=============================================================================
