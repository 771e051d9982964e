---------------------------- MODULE MCPageCollect ----------------------------
(***************************************************************************)
(* Values of the constants of PageCollect for TLC: huge pages of two pages *)
(* and VMAs of up to four.                                                 *)
(***************************************************************************)
EXTENDS PageCollect

Vma(start, pages) == [start |-> start, pages |-> pages]

\* An odd VMA and one that follows it without a gap; two with a gap.  The
\* vsyscall page comes last; the page map does not have it.
Adjacent == {<<Vma(2, 3), Vma(5, 2), Vma(9, 1)>>,
             <<Vma(2, 2), Vma(5, 2), Vma(9, 1)>>}
Six      == {<<Vma(2, 6)>>}
\* The same with fewer pages.
WithKernel == {<<Vma(2, 3), Vma(9, 1)>>, <<Vma(2, 2), Vma(4, 1), Vma(9, 1)>>}

AllTables(vpns) == [vpns -> Word]
Tables6 == AllTables(2 .. 6)
Tables4 == AllTables(2 .. 4)

\* Pages 2 and 3 are a huge page.
HugeFirst == {(2 :> 2 @@ 3 :> 3 @@ rest) : rest \in AllTables(4 .. 7)}

AllHuge == {{}, {2, 3}, {2, 3, 4, 5}}
NoHuge  == {{}}
OneHuge == {{}, {2, 3}}
HugeFour == {{2, 3}}
=============================================================================
