----------------------------- MODULE PagemapTools -----------------------------
(***************************************************************************)
(* The three scripts that read the VMAs and subVMAs of a pagemap file, one *)
(* after the other on the same file: find_overlapping_subvmas.py compares  *)
(* every two ranges, calc_optimal_results.py cuts the sorted list, and     *)
(* print_stats.py looks at the pages.                                      *)
(***************************************************************************)
EXTENDS OptimalRanges, PagemapLines, FiniteSetsExt

CONSTANT PrintedFiles   \* those print_stats.py is run on as well

\* The VMAs of a process do not overlap, and the scripts sort the subVMAs of
\* each by their start.
VmasApart(f) ==
    \A v, w \in DOMAIN f : v # w => f[v].end <= f[w].start
                                        \/ f[w].end <= f[v].start
SubsInOrder(f) ==
    \A v \in DOMAIN f : \A m, n \in DOMAIN f[v].subVMAs :
        m <= n => f[v].subVMAs[m].vpn <= f[v].subVMAs[n].vpn
ASSUME PrintedAssumption ==
    \A f \in PrintedFiles : VmasApart(f) /\ SubsInOrder(f)

VARIABLES over_pc, walk, svmas, pfn_ranges, over_i, over_j, to_remove, over_k,
          total
VARIABLES print_pc, pages, total_present_pages, print_k, offsets,
          pages_good_offset, pages_bad_offset, total_pres_p_in_subvmas,
          total_pages, total_thp, total_4k

overVars == <<over_pc, walk, svmas, pfn_ranges, over_i, over_j, to_remove,
              over_k, total>>
printVars == <<print_pc, pages, total_present_pages, print_k, offsets,
               pages_good_offset, pages_bad_offset, total_pres_p_in_subvmas,
               total_pages, total_thp, total_4k>>

Over == INSTANCE OverlappingSubVmas
            WITH pc <- over_pc, i <- over_i, j <- over_j, k <- over_k

Printer == INSTANCE PrintStats WITH pc <- print_pc, k <- print_k

ToolsInit == Init /\ Over!Parsed /\ Printer!Opened

OverEnded    == over_pc \in {"done", "error"}
OptimalEnded == pc \in {"done", "error"}

FindOverlapping == ~OverEnded /\ Over!Next /\ UNCHANGED <<vars, printVars>>
CalcOptimal     == OverEnded /\ Next /\ UNCHANGED <<overVars, printVars>>
PrintFile       == /\ OptimalEnded /\ file \in PrintedFiles
                   /\ Printer!Next
                   /\ UNCHANGED <<vars, overVars>>

ToolsNext == FindOverlapping \/ CalcOptimal \/ PrintFile
ToolsSpec == ToolsInit /\ [][ToolsNext]_<<vars, overVars, printVars>>
                 /\ WF_<<vars, overVars, printVars>>(ToolsNext)
-----------------------------------------------------------------------------
InnerCanBeRemoved  == Over!InnerCanBeRemoved
FailsForNestedOnly == Over!FailsForNestedOnly
PlacesAgree        == Printer!PlacesAgree
PlacedAsInRanges   == Printer!PlacedAsInRanges

\* init_total_size: the frames that are asked for, each as often as it is.
InitTotal == MapThenSumSet(LAMBDA c : RangeOf(file, c).pend
                                          - RangeOf(file, c).pst, Valid(file))
AskedThrice ==
    \E fr \in Footprint :
        Cardinality({c \in Valid(file) : fr \in Frames(RangeOf(file, c))}) > 2

\* The two helpers agree on the collisions of a process: what the pairs share
\* is what the distinct ranges are short of, if no three subVMAs ask for the
\* same frame, and more than that otherwise.
OverlapsAgree ==
    pc = "done" =>
        LET short == InitTotal - SizeOfAll[Len(out)]
        IN  IF AskedThrice THEN total[1] > short ELSE total[1] = short
=============================================================================
