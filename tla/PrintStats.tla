------------------------------ MODULE PrintStats ------------------------------
(***************************************************************************)
(* print_stats.py for one pagemap file: read_custom_pagemap reads the line *)
(* of every page and finds out whether the page has the offset of the      *)
(* subVMA it belongs to; create_offset_map counts the pages that have it   *)
(* and those that have not, for every offset.                              *)
(*                                                                         *)
(* The lines were read after the VMAs, which may have changed in between.  *)
(***************************************************************************)
EXTENDS SubVmas, PagemapLines

VARIABLES
    file,                   \* the VMAs and subVMAs that were read
    pc,
    pages,                  \* the pages that were read
    total_present_pages,
    k,                      \* the next page of create_offset_map
    offsets,                \* per offset, its pages that are placed well and
                            \* those that are not
    pages_good_offset, pages_bad_offset,
    total_pres_p_in_subvmas,
    total_pages, total_thp, total_4k

reading == <<pages, total_present_pages>>
totals  == <<total_pres_p_in_subvmas, total_pages, total_thp, total_4k>>
placed  == <<offsets, pages_good_offset, pages_bad_offset>>
vars == <<file, pc, reading, k, placed, totals>>

\* A page that was read; pfn and num_pages are 0 if it is not present.
Page == [vpn : Nat, pfn : Nat, num_pages : {0, 1, THP}, right : BOOLEAN]

Opened ==
    /\ pc = "read" /\ pages = <<>> /\ total_present_pages = 0
    /\ k = 1
    /\ offsets = [o \in {} |-> <<0, 0>>]
    /\ pages_good_offset = 0 /\ pages_bad_offset = 0
    /\ total_pres_p_in_subvmas = 0
    /\ total_pages = 0 /\ total_thp = 0 /\ total_4k = 0

Init == file \in Files /\ Opened
-----------------------------------------------------------------------------
(* read_custom_pagemap                                                     *)

Reading == pc = "read" /\ Len(pages) < MaxLines

ReadAbsent(vpn) ==
    /\ Reading /\ Behind(pages, vpn)
    /\ pages' = Append(pages, [vpn |-> vpn, pfn |-> 0, num_pages |-> 0,
                               right |-> FALSE])
    /\ UNCHANGED <<file, pc, total_present_pages, k, placed, totals>>

\* Mutant: a huge page counts as one.
ReadPageAsOne(vpn, pfn) ==
    /\ Reading /\ Behind(pages, vpn)
    /\ find_vma(file, vpn) # 0
    /\ \E n \in Sizes(vpn, pfn) :
           pages' = Append(pages,
               [vpn |-> vpn, pfn |-> pfn, num_pages |-> n,
                right |-> vaddr_in_right_subVMA(
                              file[find_vma(file, vpn)], vpn, vpn - pfn)])
    /\ total_present_pages' = total_present_pages + 1
    /\ UNCHANGED <<file, pc, k, placed, totals>>

ReadPage(vpn, pfn) ==
    /\ Reading /\ Behind(pages, vpn)
    /\ find_vma(file, vpn) # 0
    /\ \E n \in Sizes(vpn, pfn) :
           /\ pages' = Append(pages,
                  [vpn |-> vpn, pfn |-> pfn, num_pages |-> n,
                   right |-> vaddr_in_right_subVMA(
                                 file[find_vma(file, vpn)], vpn, vpn - pfn)])
           /\ total_present_pages' = total_present_pages + n
    /\ UNCHANGED <<file, pc, k, placed, totals>>

\* The page is in none of the VMAs: the script gives up on the file.
NoVma(vpn) ==
    /\ Reading /\ Behind(pages, vpn)
    /\ find_vma(file, vpn) = 0
    /\ pc' = "exit"
    /\ UNCHANGED <<file, reading, k, placed, totals>>

ReadAll ==
    /\ pc = "read"
    /\ pc' = "map"
    /\ UNCHANGED <<file, reading, k, placed, totals>>
-----------------------------------------------------------------------------
(* create_offset_map                                                       *)

Mapping == pc = "map" /\ k <= Len(pages)

SkipAbsent ==
    /\ Mapping /\ pages[k].pfn = 0
    /\ k' = k + 1
    /\ UNCHANGED <<file, pc, reading, placed, totals>>

CountSize(p) ==
    /\ total_pages' = total_pages + p.num_pages
    /\ total_thp' = total_thp + (IF p.num_pages = THP THEN 1 ELSE 0)
    /\ total_4k' = total_4k + (IF p.num_pages = 1 THEN 1 ELSE 0)

\* A page of a VMA without subVMAs has a size and no more.
MapOutside ==
    /\ Mapping /\ pages[k].pfn # 0
    /\ file[find_vma(file, pages[k].vpn)].subVMAs = <<>>
    /\ CountSize(pages[k])
    /\ k' = k + 1
    /\ UNCHANGED <<file, pc, reading, placed, total_pres_p_in_subvmas>>

\* Mutant: the first page of an offset is counted as one that is placed well.
CountPlaceAsGood(p) ==
    LET o  == p.vpn - p.pfn
        at == IF o \in DOMAIN offsets THEN offsets[o] ELSE <<0, 0>>
        g  == IF p.right \/ o \notin DOMAIN offsets THEN p.num_pages ELSE 0
        b  == IF g > 0 THEN 0 ELSE p.num_pages
        h  == IF p.right THEN p.num_pages ELSE 0
    IN  /\ offsets' = [q \in DOMAIN offsets \cup {o} |->
                          IF q = o THEN <<at[1] + g, at[2] + b>> ELSE offsets[q]]
        /\ pages_good_offset' = pages_good_offset + h
        /\ pages_bad_offset' = pages_bad_offset + (p.num_pages - h)

CountPlace(p) ==
    LET o  == p.vpn - p.pfn
        at == IF o \in DOMAIN offsets THEN offsets[o] ELSE <<0, 0>>
        g  == IF p.right THEN p.num_pages ELSE 0
        b  == IF p.right THEN 0 ELSE p.num_pages
    IN  /\ offsets' = [q \in DOMAIN offsets \cup {o} |->
                          IF q = o THEN <<at[1] + g, at[2] + b>> ELSE offsets[q]]
        /\ pages_good_offset' = pages_good_offset + g
        /\ pages_bad_offset' = pages_bad_offset + b

MapPage ==
    /\ Mapping /\ pages[k].pfn # 0
    /\ file[find_vma(file, pages[k].vpn)].subVMAs # <<>>
    /\ CountSize(pages[k]) /\ CountPlace(pages[k])
    /\ total_pres_p_in_subvmas' = total_pres_p_in_subvmas + pages[k].num_pages
    /\ k' = k + 1
    /\ UNCHANGED <<file, pc, reading>>

MappedAll ==
    /\ pc = "map" /\ k > Len(pages)
    /\ pc' = "done"
    /\ UNCHANGED <<file, reading, k, placed, totals>>
-----------------------------------------------------------------------------
ReadLine == \E vpn \in Vpns : \/ ReadAbsent(vpn) \/ NoVma(vpn)
                              \/ \E pfn \in Pfns : ReadPage(vpn, pfn)

Next == ReadLine \/ ReadAll \/ SkipAbsent \/ MapOutside \/ MapPage \/ MappedAll

Spec == Init /\ [][Next]_vars
-----------------------------------------------------------------------------
TypeOK ==
    /\ file \in Seq(Vma)
    /\ pc \in {"read", "map", "done", "exit"}
    /\ pages \in Seq(Page) /\ total_present_pages \in Nat
    /\ k \in 1 .. Len(pages) + 1
    /\ DOMAIN offsets \subseteq Int
    /\ \A o \in DOMAIN offsets : offsets[o] \in Nat \X Nat
    /\ pages_good_offset \in Nat /\ pages_bad_offset \in Nat
    /\ total_pres_p_in_subvmas \in Nat
    /\ total_pages \in Nat /\ total_thp \in Nat /\ total_4k \in Nat

\* The printed totals agree: the pages that were read and those of the two
\* sizes; every page of a VMA with subVMAs is placed well or not, and is
\* counted under one offset only; a page is placed well under no offset but
\* those of the subVMAs (read_custom_pagemap, create_offset_map).
Wanted == UNION {{file[v].subVMAs[s].offset : s \in DOMAIN file[v].subVMAs}
                    : v \in DOMAIN file}
OffsetSum[S \in SUBSET DOMAIN offsets] ==
    IF S = {} THEN <<0, 0>>
    ELSE LET o == CHOOSE o \in S : TRUE
         IN  <<OffsetSum[S \ {o}][1] + offsets[o][1],
               OffsetSum[S \ {o}][2] + offsets[o][2]>>
PlacesAgree ==
    /\ total_pages = THP * total_thp + total_4k
    /\ pc = "done" => total_pages = total_present_pages
    /\ pages_good_offset + pages_bad_offset = total_pres_p_in_subvmas
    /\ OffsetSum[DOMAIN offsets] = <<pages_good_offset, pages_bad_offset>>
    /\ \A o \in DOMAIN offsets : offsets[o][1] > 0 => o \in Wanted

\* A page is said to be placed well if and only if it is where one of the
\* ranges of calc_optimal_results.py wants it: the two scripts agree on the
\* subVMA a page belongs to.
PlacedAsInRanges ==
    \A j \in DOMAIN pages :
        pages[j].right <=>
            \E r \in create_ranges(file) :
                /\ r.vst <= pages[j].vpn /\ pages[j].vpn < r.vend
                /\ pages[j].pfn # 0
                /\ pages[j].pfn - r.pst = pages[j].vpn - r.vst
=============================================================================
