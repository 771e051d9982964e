---------------------------- MODULE PagemapLines ----------------------------
(***************************************************************************)
(* The second part of a pagemap file: a line for every page, as            *)
(* page-collect.cpp writes them: in the order of the pages, a huge page on *)
(* one line, a page whose frame it could not see as "np".                  *)
(***************************************************************************)
EXTENDS Naturals, Sequences

CONSTANTS
    THP,            \* the small pages of a huge page
    Vpns,           \* the pages a line may be about
    Pfns,           \* the frames it may name
    MaxLines        \* a bound on the lines

ASSUME ThpAssumption == THP \in Nat /\ THP > 1
ASSUME LineAssumption == Vpns \subseteq Nat /\ Pfns \subseteq Nat \ {0}
                            /\ MaxLines \in Nat

\* A line is about a page behind that of the last one.  It may be inside a huge
\* page of the last line: that may go on behind the end of its VMA, where the
\* next VMA starts.
Behind(pages, vpn) == pages # <<>> => vpn > pages[Len(pages)].vpn

\* The collector takes a page for a huge one at the start of a huge frame.
Sizes(vpn, pfn) == IF vpn % THP = 0 /\ pfn % THP = 0 THEN {1, THP} ELSE {1}
=============================================================================
