-------------------------- MODULE OverlappingSubVmas --------------------------
(***************************************************************************)
(* helpers/find_overlapping_subvmas.py: which subVMAs ask for the frames   *)
(* of another one, how many frames every two of them share, and how much   *)
(* is shared when the subVMAs that lie in another one are removed.         *)
(*                                                                         *)
(* find_overlapping_ranges compares every two ranges, i with j behind it.  *)
(* It runs twice: on the file, and after the removals, which are by value. *)
(* The part of the total that is within a VMA is printed only and left out.*)
(***************************************************************************)
EXTENDS SubVmas, SequencesExt

VARIABLES
    file,           \* the VMAs and subVMAs that were read
    pc,
    walk,           \* which of the two walks
    svmas,          \* svmas_per_vma, then new_svmas_per_vma
    pfn_ranges,     \* pairs of a VMA and a subVMA of svmas
    i, j,
    to_remove,      \* what the first walk returns, as pairs of the file
    k,              \* the next removal
    total           \* total_overlapping_size of each walk

walker == <<walk, pfn_ranges, i, j, total>>
vars   == <<file, pc, walker, svmas, to_remove, k>>

\* The first walk is about to begin.
Parsed ==
    /\ svmas = file
    /\ pfn_ranges \in Sorted(file)
    /\ pc = "walk" /\ walk = 1
    /\ i = 1 /\ j = 2
    /\ to_remove = <<>> /\ k = 1
    /\ total = <<0, 0>>

Init == file \in Files /\ Parsed
-----------------------------------------------------------------------------
(* find_overlapping_ranges                                                 *)

Larger(a, b)  == IF a >= b THEN a ELSE b
Smaller(a, b) == IF a <= b THEN a ELSE b

Outer == RangeOf(svmas, pfn_ranges[i])
Other == RangeOf(svmas, pfn_ranges[j])

\* The overlapping interval is not empty if its size is positive.
OverlapSize == Smaller(Outer.pend, Other.pend) - Larger(Outer.pst, Other.pst)
are_overlapping == OverlapSize > 0

\* Mutant: of two equal ranges each is in the other.
InnerBoth ==
    (IF Outer.pst >= Other.pst /\ Outer.pend <= Other.pend
     THEN <<pfn_ranges[i]>> ELSE <<>>)
    \o (IF Outer.pst <= Other.pst /\ Outer.pend >= Other.pend
        THEN <<pfn_ranges[j]>> ELSE <<>>)

\* The one that is in the other; the second if they are equal.
inner_range ==
    IF Outer.pst <= Other.pst /\ Outer.pend >= Other.pend
    THEN <<pfn_ranges[j]>>
    ELSE IF Outer.pst >= Other.pst /\ Outer.pend <= Other.pend
    THEN <<pfn_ranges[i]>>
    ELSE <<>>

Pair == pc = "walk" /\ i < Len(pfn_ranges) /\ j <= Len(pfn_ranges)

Apart ==
    /\ Pair /\ ~are_overlapping
    /\ j' = j + 1
    /\ UNCHANGED <<file, pc, walk, pfn_ranges, i, total, svmas, to_remove, k>>

\* The list of the second walk is not used.
Overlap ==
    /\ Pair /\ are_overlapping
    /\ total' = [total EXCEPT ![walk] = @ + OverlapSize]
    /\ to_remove' = IF walk = 1 THEN to_remove \o inner_range ELSE to_remove
    /\ j' = j + 1
    /\ UNCHANGED <<file, pc, walk, pfn_ranges, i, svmas, k>>

\* Mutant: a range is compared with itself.
NextFromSelf ==
    /\ pc = "walk" /\ i < Len(pfn_ranges) /\ j > Len(pfn_ranges)
    /\ i' = i + 1 /\ j' = i + 1
    /\ UNCHANGED <<file, pc, walk, pfn_ranges, total, svmas, to_remove, k>>

\* Mutant: and not with its neighbour.
NextButOne ==
    /\ pc = "walk" /\ i < Len(pfn_ranges) /\ j > Len(pfn_ranges)
    /\ i' = i + 1 /\ j' = i + 3
    /\ UNCHANGED <<file, pc, walk, pfn_ranges, total, svmas, to_remove, k>>

NextRange ==
    /\ pc = "walk" /\ i < Len(pfn_ranges) /\ j > Len(pfn_ranges)
    /\ i' = i + 1 /\ j' = i + 2
    /\ UNCHANGED <<file, pc, walk, pfn_ranges, total, svmas, to_remove, k>>

Walked ==
    /\ pc = "walk" /\ i >= Len(pfn_ranges)
    /\ pc' = IF walk = 1 THEN "remove" ELSE "done"
    /\ UNCHANGED <<file, walker, svmas, to_remove, k>>
-----------------------------------------------------------------------------
(* The removals                                                            *)

ValueOf(c)  == file[c[1]].subVMAs[c[2]]
VmaOf(c)    == svmas[c[1]]
IsThere(c)  == \E n \in DOMAIN VmaOf(c).subVMAs :
                   VmaOf(c).subVMAs[n] = ValueOf(c)

RemoveOne ==
    /\ pc = "remove" /\ k <= Len(to_remove)
    /\ LET c == to_remove[k]
       IN  /\ IsThere(c)
           /\ svmas' = [svmas EXCEPT ![c[1]].subVMAs =
                           RemoveFirst(@, ValueOf(c))]
    /\ k' = k + 1
    /\ UNCHANGED <<file, pc, walker, to_remove>>

\* list.remove of what is not in the list: a ValueError.
RemoveFails ==
    /\ pc = "remove" /\ k <= Len(to_remove) /\ ~IsThere(to_remove[k])
    /\ pc' = "error"
    /\ UNCHANGED <<file, walker, svmas, to_remove, k>>

WalkAgain ==
    /\ pc = "remove" /\ k > Len(to_remove)
    /\ pfn_ranges' \in Sorted(svmas)
    /\ pc' = "walk" /\ walk' = 2
    /\ i' = 1 /\ j' = 2
    /\ UNCHANGED <<file, total, svmas, to_remove, k>>

Next == \/ Apart \/ Overlap \/ NextRange \/ Walked
        \/ RemoveOne \/ RemoveFails \/ WalkAgain
-----------------------------------------------------------------------------
FramesOf(c) == RangeOf(file, c).pst .. RangeOf(file, c).pend - 1
AllFrames(those) == UNION {FramesOf(c) : c \in those}
ToBeRemoved == {to_remove[n] : n \in DOMAIN to_remove}

\* "returns subvmas which can be removed (inner ranges)": of every frame that
\* a subVMA asks for, some subVMA that is not to be removed asks for it too,
\* also where ranges are equal, or in one that is itself removed.
InnerCanBeRemoved ==
    (pc # "walk" \/ walk = 2) =>
        AllFrames(Valid(file) \ ToBeRemoved) = AllFrames(Valid(file))

\* A removal fails only where a subVMA lies in two others, for each of which
\* it was put on the list.
InTwoOthers(c) ==
    \E d, e \in Valid(file) \ {c} :
        d # e /\ FramesOf(c) \subseteq FramesOf(d) \cap FramesOf(e)
FailsForNestedOnly ==
    pc = "error" =>
        \E n \in 1 .. k : /\ to_remove[n][1] = to_remove[k][1]
                          /\ ValueOf(to_remove[n]) = ValueOf(to_remove[k])
                          /\ InTwoOthers(to_remove[n])
=============================================================================
