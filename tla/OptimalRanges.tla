---------------------------- MODULE OptimalRanges ----------------------------
(***************************************************************************)
(* helpers/calc_optimal_results.py: the ranges of frames the subVMAs of a  *)
(* pagemap file ask for are sorted, joined (find_contiguous_ranges) and    *)
(* made distinct (fix_pfn_ranges), to tell how many entries of a range TLB *)
(* the process would need if all of its pages were placed as asked.        *)
(*                                                                         *)
(* Both loops go through a list of ranges, with a current range that is    *)
(* appended to the result when the next one is known to leave it alone.    *)
(* The cases of fix_pfn_ranges are the actions FixI to FixIIIiic, in the   *)
(* source's numbering.                                                     *)
(***************************************************************************)
EXTENDS SubVmas

VARIABLES
    file,       \* the VMAs and subVMAs that were read
    pc,
    ranges,     \* the list a loop goes through
    i,          \* the loop's index of the next range
    curr,       \* the current range
    out         \* the ranges that are final

vars == <<file, pc, ranges, i, curr, out>>

PfnRange == [pst : Int, pend : Int, vst : Int, vend : Int]
NoRange == [pst |-> 0, pend |-> 0, vst |-> 0, vend |-> 0]

Init ==
    /\ file \in Files
    /\ \E s \in Sorted(file) : ranges = [k \in DOMAIN s |-> RangeOf(file, s[k])]
    /\ pc = "start" /\ i = 0 /\ curr = NoRange /\ out = <<>>

next == ranges[i]
-----------------------------------------------------------------------------
(* find_contiguous_ranges                                                  *)

\* A file without subVMAs: fix_pfn_ranges takes the first of no ranges.
Fail ==
    /\ pc = "start" /\ ranges = <<>>
    /\ pc' = "error"
    /\ UNCHANGED <<file, ranges, i, curr, out>>

Start ==
    /\ pc = "start" /\ ranges # <<>>
    /\ pc' = "join" /\ i' = 2 /\ curr' = ranges[1]
    /\ UNCHANGED <<file, ranges, out>>

\* The same frames and the same pages go on.
Follows == curr.pend = next.pst /\ curr.vend = next.vst
Extended == [pst |-> curr.pst, pend |-> next.pend,
             vst |-> curr.vst, vend |-> next.vend]

Join ==
    /\ pc = "join" /\ i <= Len(ranges)
    /\ Follows
    /\ curr' = Extended /\ i' = i + 1
    /\ UNCHANGED <<file, pc, ranges, out>>

JoinBreak ==
    /\ pc = "join" /\ i <= Len(ranges)
    /\ ~Follows
    /\ out' = Append(out, curr)
    /\ curr' = next /\ i' = i + 1
    /\ UNCHANGED <<file, pc, ranges>>

Joined ==
    /\ pc = "join" /\ i > Len(ranges)
    /\ ranges' = Append(out, curr)
    /\ curr' = ranges'[1] /\ i' = 2 /\ out' = <<>>
    /\ pc' = "fix"
    /\ UNCHANGED file
-----------------------------------------------------------------------------
(* fix_pfn_ranges                                                          *)

\* n pages from page v on, at the frames from p on.
Piece(p, v, n) == [pst |-> p, pend |-> p + n, vst |-> v, vend |-> v + n]
\* The last n pages of a range.
Rest(r, n) == Piece(r.pend - n, r.vend - n, n)

\* Mutant: the index moves in the case and at the end of the loop too.
FixSkips(pieces, c) ==
    /\ out' = out \o pieces
    /\ curr' = c /\ i' = i + 2
    /\ UNCHANGED <<file, pc, ranges>>

\* pieces are final, and c is the current range.
Fix(pieces, c) ==
    /\ out' = out \o pieces
    /\ curr' = c /\ i' = i + 1
    /\ UNCHANGED <<file, pc, ranges>>

Fixing == pc = "fix" /\ i <= Len(ranges)

CaseI ==
    curr.pst < curr.pend /\ curr.pend < next.pst /\ next.pst < next.pend
CaseII ==
    curr.pst < curr.pend /\ curr.pend = next.pst /\ next.pst < next.pend
\* Mutant: a list in which a cut has broken the order is not expected.
CaseIIISorted == curr.pst <= next.pst /\ next.pst < curr.pend
CaseIII == next.pst < curr.pend
SameStart == CaseIII /\ curr.pst = next.pst
Shifted   == CaseIII /\ curr.pst # next.pst

\* Non-overlapping ranges.
FixI == Fixing /\ CaseI /\ Fix(<<curr>>, next)

\* The next range starts where the current one ends.
FixIIa == Fixing /\ CaseII /\ curr.vend = next.vst /\ Fix(<<>>, Extended)
FixIIb == Fixing /\ CaseII /\ curr.vend # next.vst /\ Fix(<<curr>>, next)

\* The same start, and the next range ends first: the remainder is moved by
\* its size, and not by that of the next range.
FixIIIia ==
    /\ Fixing /\ SameStart /\ curr.pend > next.pend
    /\ IF curr.vst > next.vst THEN Fix(<<>>, curr)
       ELSE Fix(<<next>>,
                [pst |-> next.pend, pend |-> curr.pend,
                 vst |-> curr.vst + (curr.pend - next.pend), vend |-> curr.vend])

\* Mutant: and it may also end at the same frame.
FixIIIicOrSame ==
    /\ Fixing /\ SameStart /\ curr.pend <= next.pend
    /\ IF curr.vst > next.vst
       THEN Fix(<<curr>>, Rest(next, next.pend - curr.pend))
       ELSE Fix(<<>>, next)

\* The same start, and the current range ends first.
FixIIIic ==
    /\ Fixing /\ SameStart /\ curr.pend < next.pend
    /\ IF curr.vst > next.vst
       THEN Fix(<<curr>>, Rest(next, next.pend - curr.pend))
       ELSE Fix(<<>>, next)

\* Mutant: the range that is left out is final too.
FixIIIibBoth ==
    /\ Fixing /\ SameStart /\ curr.pend = next.pend
    /\ Fix(<<next>>, IF curr.vst > next.vst THEN curr ELSE next)

\* Mutant: the index does not move where the next range is left out.
FixIIIibStays ==
    /\ Fixing /\ SameStart /\ curr.pend = next.pend
    /\ IF curr.vst > next.vst THEN UNCHANGED vars ELSE Fix(<<>>, next)

\* The same range.
FixIIIib ==
    /\ Fixing /\ SameStart /\ curr.pend = next.pend
    /\ Fix(<<>>, IF curr.vst > next.vst THEN curr ELSE next)

\* Mutant: the common frames go to neither part.
FixIIIiiaLoses ==
    /\ Fixing /\ Shifted /\ curr.pend < next.pend
    /\ Fix(<<Piece(curr.pst, curr.vst, next.pst - curr.pst)>>,
           Rest(next, next.pend - curr.pend))

\* The next range goes on where the current one ends.
FixIIIiia ==
    /\ Fixing /\ Shifted /\ curr.pend < next.pend
    /\ LET common == curr.pend - next.pst
           before == next.pst - curr.pst
           after  == next.pend - curr.pend
       IN  IF curr.vst < next.vst
           THEN Fix(<<Piece(curr.pst, curr.vst, before)>>,
                    Rest(next, after + common))
           ELSE Fix(<<Piece(curr.pst, curr.vst, before + common)>>,
                    Rest(next, after))

\* Both end at the same frame; a page is compared with a frame.
FixIIIiib ==
    /\ Fixing /\ Shifted /\ curr.pend = next.pend
    /\ IF curr.vst < next.pst
       THEN Fix(<<Piece(curr.pst, curr.vst, next.pst - curr.pst)>>, next)
       ELSE Fix(<<>>, curr)

\* Mutant: the inner range is final before the part in front of it.
FixIIIiicSwapped ==
    /\ Fixing /\ Shifted /\ curr.pend > next.pend
    /\ IF curr.vst > next.vst THEN Fix(<<>>, curr)
       ELSE Fix(<<next, Piece(curr.pst, curr.vst, next.pst - curr.pst)>>,
                Rest(curr, curr.pend - next.pend))

\* The next range is inside of the current one.
FixIIIiic ==
    /\ Fixing /\ Shifted /\ curr.pend > next.pend
    /\ IF curr.vst > next.vst THEN Fix(<<>>, curr)
       ELSE Fix(<<Piece(curr.pst, curr.vst, next.pst - curr.pst), next>>,
                Rest(curr, curr.pend - next.pend))

Fixed ==
    /\ pc = "fix" /\ i > Len(ranges)
    /\ out' = Append(out, curr)
    /\ pc' = "done"
    /\ UNCHANGED <<file, ranges, i, curr>>
-----------------------------------------------------------------------------
FixOne == \/ FixI \/ FixIIa \/ FixIIb \/ FixIIIia \/ FixIIIic \/ FixIIIib
          \/ FixIIIiia \/ FixIIIiib \/ FixIIIiic

Next == Fail \/ Start \/ Join \/ JoinBreak \/ Joined \/ FixOne \/ Fixed

Spec == Init /\ [][Next]_vars /\ WF_vars(Next)
-----------------------------------------------------------------------------
TypeOK ==
    /\ file \in Seq(Vma)
    /\ pc \in {"start", "join", "fix", "done", "error"}
    /\ ranges \in Seq(PfnRange)
    /\ i \in 0 .. Len(ranges) + 1
    /\ curr \in PfnRange
    /\ out \in Seq(PfnRange)

\* The current range always has a frame, whatever was cut off from it, and
\* every range of the list has one.
CurrentIsARange ==
    /\ pc \in {"join", "fix"} => curr.pst < curr.pend
    /\ \A k \in DOMAIN ranges : ranges[k].pst < ranges[k].pend

\* One of the cases applies to every next range: the loop of fix_pfn_ranges,
\* whose index moves in the cases only, does not go on for ever.
ACaseApplies == Fixing => CaseI \/ CaseII \/ CaseIII

\* A final range starts where the one before it ends or later, and so does
\* the current one, even where the order of the list is broken by a cut.
Chained ==
    pc \in {"fix", "done"} =>
        /\ \A k \in DOMAIN out \ {1} : out[k - 1].pend <= out[k].pst
        /\ pc = "fix" /\ out # <<>> => out[Len(out)].pend <= curr.pst

Frames(r) == r.pst .. r.pend - 1
Footprint == UNION {Frames(r) : r \in create_ranges(file)}
FramesIn(seq) == UNION {Frames(seq[k]) : k \in DOMAIN seq}

\* No frame a subVMA asks for is lost, and none is made up.
FramesKept ==
    /\ pc \in {"start", "done"} =>
           Footprint = FramesIn(IF pc = "start" THEN ranges ELSE out)
    /\ pc \in {"join", "fix"} =>
           Footprint = FramesIn(out) \cup Frames(curr)
                           \cup FramesIn(SubSeq(ranges, i, Len(ranges)))

\* The sizes that are printed add up to the frames that were asked for, each
\* counted once.
SizeOfAll[k \in Nat] ==
    IF k = 0 THEN 0 ELSE SizeOfAll[k - 1] + (out[k].pend - out[k].pst)
TotalIsFootprint == pc = "done" => SizeOfAll[Len(out)] = Cardinality(Footprint)

\* The loops end.
Terminates == <>(pc \in {"done", "error"})
=============================================================================
