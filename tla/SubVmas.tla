------------------------------- MODULE SubVmas -------------------------------
(***************************************************************************)
(* The first part of a pagemap file: the VMAs of the process and, for each *)
(* VMA, its subVMAs (anchors), as print_stats.py and the helpers           *)
(* calc_optimal_results.py and find_overlapping_subvmas.py read them.  A   *)
(* subVMA starts at a page and asks for its pages to be placed at the      *)
(* frames vpn - offset.                                                    *)
(*                                                                         *)
(* A file is the sequence of its VMAs; the subVMAs of a VMA are in the     *)
(* order of their start, as both scripts sort them.  A subVMA may start    *)
(* outside of its VMA, which the kernel may have split or cut.             *)
(***************************************************************************)
EXTENDS Integers, Sequences, FiniteSets

CONSTANT Files          \* the files considered

SubVma == [vpn : Nat, offset : Int]
Vma    == [start : Nat, end : Nat, subVMAs : Seq(SubVma)]

ASSUME FilesAssumption == Files \subseteq Seq(Vma)
-----------------------------------------------------------------------------
(* print_stats.py: the subVMA of a page                                    *)

\* The VMA of a page, 0 if there is none.
find_vma(file, vpn) ==
    LET those == {v \in DOMAIN file : file[v].start <= vpn /\ vpn < file[v].end}
    IN  IF those = {} THEN 0 ELSE CHOOSE v \in those : \A w \in those : v <= w

\* Mutant: the start of a subVMA is not one of its pages.
find_target_behind(vma, vpn) ==
    LET sub == vma.subVMAs
    IN  IF sub = <<>> THEN 0
        ELSE Cardinality({i \in 2 .. Len(sub) : sub[i].vpn < vpn}) + 1

\* The subVMA a page of the VMA belongs to: the last that starts at or before
\* it, the first if none does; 0 if the VMA has no subVMA.
find_target_subVMA(vma, vpn) ==
    LET sub == vma.subVMAs
        n   == Len(sub)
    IN  IF n = 0 THEN 0
        ELSE IF vpn < sub[1].vpn THEN 1
        ELSE IF vpn >= sub[n].vpn THEN n
        ELSE CHOOSE i \in 1 .. n - 1 :
                 /\ sub[i].vpn <= vpn /\ vpn < sub[i + 1].vpn
                 /\ \A j \in 1 .. i - 1 : ~(sub[j].vpn <= vpn
                                               /\ vpn < sub[j + 1].vpn)

\* The page has the offset of the subVMA it belongs to.
vaddr_in_right_subVMA(vma, vpn, offset) ==
    LET t == find_target_subVMA(vma, vpn)
    IN  t # 0 /\ vma.subVMAs[t].offset = offset
-----------------------------------------------------------------------------
(* calc_optimal_results.py, find_overlapping_subvmas.py: the range of a    *)
(* subVMA                                                                  *)

RangeStart(vma, i) ==
    IF i = 1 \/ vma.subVMAs[i].vpn < vma.start THEN vma.start
                                               ELSE vma.subVMAs[i].vpn

RangeEnd(vma, i) ==
    IF i = Len(vma.subVMAs) \/ vma.subVMAs[i + 1].vpn > vma.end
    THEN vma.end ELSE vma.subVMAs[i + 1].vpn

\* The subVMAs whose range has pages, as pairs of a VMA and a subVMA.
Valid(file) ==
    UNION {{<<v, i>> : i \in {j \in DOMAIN file[v].subVMAs :
                                 RangeStart(file[v], j) < RangeEnd(file[v], j)}}
               : v \in DOMAIN file}

\* A range of frames and the range of pages it is for.
RangeOf(file, c) ==
    LET vma    == file[c[1]]
        offset == vma.subVMAs[c[2]].offset
    IN  [pst  |-> RangeStart(vma, c[2]) - offset,
         pend |-> RangeEnd(vma, c[2]) - offset,
         vst  |-> RangeStart(vma, c[2]),
         vend |-> RangeEnd(vma, c[2])]

create_ranges(file) == {RangeOf(file, c) : c \in Valid(file)}

\* The order of create_ranges, which the stable sort keeps among ranges that
\* start at the same frame.
Before(f, c, d) ==
    \/ RangeOf(f, c).pst < RangeOf(f, d).pst
    \/ /\ RangeOf(f, c).pst = RangeOf(f, d).pst
       /\ \/ c[1] < d[1]
          \/ c[1] = d[1] /\ c[2] < d[2]

Sorted(f) ==
    {s \in [1 .. Cardinality(Valid(f)) -> Valid(f)] :
        \A j, k \in DOMAIN s : j < k => Before(f, s[j], s[k])}
=============================================================================
