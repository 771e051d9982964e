----------------------------- MODULE PageCollect -----------------------------
(***************************************************************************)
(* The collector: collect_pagemap_hist of pagecollect/page-collect.cpp.    *)
(* It walks the VMAs of a live process (/proc/<pid>/maps), reads one word  *)
(* of /proc/<pid>/pagemap for every page and, for a present page, the THP  *)
(* bit of its frame in /proc/kpageflags.  It prints the present pages and  *)
(* groups them into runs: contiguous in virtual memory (Virtual_TLB), and  *)
(* contiguous in virtual and physical memory (Range_TLB).                  *)
(*                                                                         *)
(* The target runs on while it is read: its page table changes and it may  *)
(* die.  A read of the page map of a dead process returns nothing, and so  *)
(* does a read at an address of the kernel (maps ends with the vsyscall    *)
(* page, which the page map does not have): the word of the previous read  *)
(* then stays in pa.                                                       *)
(*                                                                         *)
(* One step is the body of the inner while loop.  Its two reads, of the    *)
(* page map and of the flags, see one state of the target: a change        *)
(* between them is as good as one before the step, as Remap may pair any   *)
(* word with any flags.                                                    *)
(***************************************************************************)
EXTENDS Integers, Sequences, FiniteSets, Bags, BagsExt, Functions, TLC

CONSTANTS
    THP,            \* pages of a huge page (THP_SIZE, 512)
    Files,          \* the maps files considered: sequences of VMAs
    Tables,         \* the page tables considered, when collection starts
    Frames,         \* the physical frames
    HugeFrames,     \* the sets of frames that may have the THP bit
    NotPresent,     \* a page map word without PM_PRESENT
    Kernel,         \* the pages of maps that the page map does not have
    StaleWords,     \* what the uninitialised pa may hold
    StaleSizes,     \* what the uninitialised current_page_size may hold
    Changes,        \* what may happen to the target: "remap" (or
                    \* "one remap"), "exit"
    Faults          \* the calls that may fail: "open"; the seek to a VMA
                    \* ("seek") and behind a huge page ("jump"); "read";
                    \* in kpageflags, "flagseek" and "flagread"

VARIABLES
    maps, pt, huge, alive,          \* the target
    remapped,                       \* its page table has changed (history)
    pc,
    line,                           \* lines of maps that were read
    pos,                            \* file position of pagemap, in words
    vpn, num_pages,
    pa, current_page_size,
    prev_vpn, prev_pfn,
    cur_virtual, cur_range,         \* current_{Virtual,Range}_TLB_contiguity
    virtual_hist, range_hist,       \* {Virtual,Range}_TLB_hist
    offsets,                        \* Offsets
    total, regular_4k, regular_2m,  \* total_present_pages, Regular_TLB_*
    printed                         \* the print_page_info lines

target  == <<maps, pt, huge, alive, remapped>>
cursor  == <<pos, vpn, num_pages, current_page_size>>
runs    == <<prev_vpn, prev_pfn, cur_virtual, cur_range, virtual_hist,
             range_hist>>
results == <<offsets, total, regular_4k, regular_2m, printed>>

vars == <<target, pc, line, pa, cursor, runs, results>>

Vpns == DOMAIN pt
Word == Frames \cup {NotPresent}

ASSUME SizeAssumption == THP \in Nat /\ THP > 1
ASSUME FrameAssumption == Frames \subseteq Nat \ {0} /\ NotPresent \notin Nat
\* The kernel prints the VMAs in order, and maps nothing at page 0 or 1.
ASSUME FileAssumption ==
    \A f \in Files :
        /\ f \in Seq([start : Nat \ {0, 1}, pages : Nat \ {0}])
        /\ \A i, j \in DOMAIN f : i < j => f[i].start + f[i].pages <= f[j].start
ASSUME TableAssumption ==
    \A t \in Tables : DOMAIN t \subseteq Nat /\ \A v \in DOMAIN t : t[v] \in Word
\* A VMA is the kernel's or the target's, and only the target's are in its
\* page table.
ASSUME KernelAssumption ==
    /\ Kernel \subseteq Nat
    /\ \A f \in Files : \A i \in DOMAIN f :
           LET pages == f[i].start .. f[i].start + f[i].pages - 1
           IN  pages \subseteq Kernel \/ pages \cap Kernel = {}
    /\ \A t \in Tables : DOMAIN t \cap Kernel = {}
ASSUME StaleAssumption ==
    StaleWords \subseteq Word /\ StaleSizes \subseteq Nat \ {0}

VmEnd(i) == maps[i].start + maps[i].pages

Init ==
    /\ maps \in Files /\ pt \in Tables /\ huge \in HugeFrames
    /\ alive = TRUE /\ remapped = FALSE
    /\ pc = "open" /\ line = 0
    /\ pos = 0 /\ vpn = 0 /\ num_pages = 0
    /\ pa \in StaleWords /\ current_page_size \in StaleSizes
    /\ prev_vpn = 0 /\ prev_pfn = 0
    /\ cur_virtual = 1 /\ cur_range = 1
    /\ virtual_hist = EmptyBag /\ range_hist = EmptyBag /\ offsets = EmptyBag
    /\ total = 0 /\ regular_4k = 0 /\ regular_2m = 0
    /\ printed = <<>>
-----------------------------------------------------------------------------
(* The target                                                              *)

Remap ==
    /\ "remap" \in Changes \/ ("one remap" \in Changes /\ ~remapped)
    /\ alive
    /\ \E v \in Vpns, w \in Word : pt' = [pt EXCEPT ![v] = w]
    /\ huge' \in HugeFrames
    /\ remapped' = TRUE
    /\ UNCHANGED <<maps, alive, pc, line, pa, cursor, runs, results>>

Exit ==
    /\ "exit" \in Changes /\ alive
    /\ alive' = FALSE
    /\ UNCHANGED <<maps, pt, huge, remapped, pc, line, pa, cursor, runs,
                   results>>
-----------------------------------------------------------------------------
(* The outer loop: one line of maps after the other                        *)

\* The output file, the directory and the four files under /proc.
Open ==
    /\ pc = "open"
    /\ \/ pc' = "line"
       \/ ("open" \in Faults \/ ~alive) /\ pc' = "failed"
    /\ UNCHANGED <<target, line, pa, cursor, runs, results>>

\* Mutant: the previous page is not forgotten at the start of a VMA.
StartVmaKeepsPrevious ==
    /\ pc = "line"
    /\ line < Len(maps)
    /\ line' = line + 1
    /\ vpn' = maps[line'].start
    /\ num_pages' = maps[line'].pages
    /\ \/ pos' = vpn' /\ pc' = "page"
       \/ "seek" \in Faults /\ pos' = pos /\ pc' = "line"
    /\ UNCHANGED <<target, pa, current_page_size, runs, results>>

\* A line is read and the page map is positioned at its first page.
StartVma ==
    /\ pc = "line"
    /\ line < Len(maps)
    /\ line' = line + 1
    /\ vpn' = maps[line'].start
    /\ num_pages' = maps[line'].pages
    /\ prev_vpn' = 0 /\ prev_pfn' = 0
    /\ \/ pos' = vpn' /\ pc' = "page"
       \/ "seek" \in Faults /\ pos' = pos /\ pc' = "line"
    /\ UNCHANGED <<target, pa, current_page_size, cur_virtual, cur_range,
                   virtual_hist, range_hist, results>>

\* Mutant: the collector waits for the next line when the target has died.
FinishAlive ==
    /\ pc = "line"
    /\ line = Len(maps) /\ alive
    /\ pc' = "done"
    /\ UNCHANGED <<target, line, pa, cursor, runs, results>>

\* The maps file has ended, or its process has.
Finish ==
    /\ pc = "line"
    /\ line = Len(maps) \/ ~alive
    /\ pc' = "done"
    /\ UNCHANGED <<target, line, pa, cursor, runs, results>>

EndVma ==
    /\ pc = "page"
    /\ num_pages <= 0 \/ "read" \in Faults  \* goto do_continue
    /\ pc' = "line"
    /\ UNCHANGED <<target, line, pa, cursor, runs, results>>
-----------------------------------------------------------------------------
(* The inner loop: one page                                                *)

InTable(v) == v \in Vpns

Answers == alive /\ pos \notin Kernel

\* The word that is in pa after the read.
ReadWord == IF ~Answers THEN pa ELSE IF InTable(pos) THEN pt[pos] ELSE NotPresent

\* A word that is read moves the file position.
Reposition == IF Answers THEN pos + 1 ELSE pos

\* The THP bit that is read for a frame: that of kpageflags, or anything if
\* read gives nothing, for kflags_result is not initialised.
ThpBits(pfn) ==
    {pfn \in huge} \cup (IF "flagread" \in Faults THEN BOOLEAN ELSE {})

\* A huge page is counted as one only where both addresses are aligned.
PageSize(thp, v, pfn) ==
    IF thp /\ v % THP = 0 /\ pfn % THP = 0 THEN THP ELSE 1

\* Mutants: one page further whatever its size; the page map is not moved
\* behind a huge page; it is moved before vpn is.
AdvanceOnePage(size) ==
    /\ current_page_size' = size
    /\ num_pages' = num_pages - 1
    /\ vpn' = vpn + 1
    /\ pos' = Reposition

AdvanceWithoutJump(size) ==
    /\ current_page_size' = size
    /\ num_pages' = num_pages - size
    /\ vpn' = vpn + size
    /\ pos' = Reposition

AdvanceAfterJump(size) ==
    /\ current_page_size' = size
    /\ num_pages' = num_pages - size
    /\ vpn' = vpn + size
    /\ pos' = IF size = THP THEN vpn ELSE Reposition

\* num_pages -= current_page_size; vpn += current_page_size; a huge page that
\* is not the last of its VMA moves the page map behind it.
Advance(size) ==
    /\ current_page_size' = size
    /\ num_pages' = num_pages - size
    /\ vpn' = vpn + size
    /\ \/ /\ size = THP /\ num_pages # size
          /\ pos' = vpn + size
       \/ /\ ~(size = THP /\ num_pages # size) \/ "jump" \in Faults
          /\ pos' = Reposition

\* Mutant: the VMA is left at its first hole.
PageAbsentBreaks ==
    /\ pc = "page" /\ num_pages > 0
    /\ ReadWord = NotPresent
    /\ pa' = NotPresent
    /\ pos' = Reposition
    /\ pc' = "line"
    /\ UNCHANGED <<target, line, vpn, num_pages, current_page_size, runs,
                   results>>

\* current_page_size is not assigned for a page that is not present: it still
\* has the value of the previous page.
PageAbsent ==
    /\ pc = "page" /\ num_pages > 0
    /\ ReadWord = NotPresent
    /\ pa' = NotPresent
    /\ Advance(current_page_size)
    /\ UNCHANGED <<target, pc, line, runs, results>>

\* Mutant: a recorded run leaves the counter empty.
GrownFromZero(goesOn, cur, size) == IF goesOn THEN cur + size ELSE 0

\* A run goes on, or it is recorded and a new one starts.
Grown(goesOn, cur, size)     == IF goesOn THEN cur + size ELSE size
Recorded(goesOn, hist, cur)  == IF goesOn THEN hist ELSE BagAdd(hist, cur)

VirtualGoesOn == vpn = prev_vpn + 1

RangeGoesOn(pfn) == VirtualGoesOn /\ pfn = prev_pfn + 1

Contiguity(pfn, size) ==
    /\ cur_virtual' = Grown(VirtualGoesOn, cur_virtual, size)
    /\ virtual_hist' = Recorded(VirtualGoesOn, virtual_hist, cur_virtual)
    /\ cur_range' = Grown(RangeGoesOn(pfn), cur_range, size)
    /\ range_hist' = Recorded(RangeGoesOn(pfn), range_hist, cur_range)
    /\ prev_vpn' = vpn + size - 1
    /\ prev_pfn' = pfn + size - 1

\* Mutant: a huge page counts as one page.
CountOnce(pfn, size) ==
    /\ regular_2m' = IF size = THP THEN regular_2m + 1 ELSE regular_2m
    /\ regular_4k' = IF size = THP THEN regular_4k ELSE regular_4k + 1
    /\ offsets' = offsets (+) [o \in {vpn - pfn} |-> size]
    /\ total' = total + 1
    /\ printed' = Append(printed, [vpn |-> vpn, pfn |-> pfn, size |-> size])

Count(pfn, size) ==
    /\ regular_2m' = IF size = THP THEN regular_2m + 1 ELSE regular_2m
    /\ regular_4k' = IF size = THP THEN regular_4k ELSE regular_4k + 1
    /\ offsets' = offsets (+) [o \in {vpn - pfn} |-> size]
    /\ total' = total + size
    /\ printed' = Append(printed, [vpn |-> vpn, pfn |-> pfn, size |-> size])

PagePresent ==
    /\ pc = "page" /\ num_pages > 0
    /\ ReadWord # NotPresent
    /\ pa' = ReadWord
    /\ \E thp \in ThpBits(ReadWord) :
           LET size == PageSize(thp, vpn, ReadWord) IN
             /\ Contiguity(ReadWord, size)
             /\ Count(ReadWord, size)
             /\ Advance(size)
    /\ UNCHANGED <<target, pc, line>>

\* The seek in kpageflags fails: continue, with the next word of the page map
\* but the same vpn.  If the page map answers nothing, pa is the same word
\* again, whose seek fails again: the loop repeats, and no state changes.
FlagsFail ==
    /\ pc = "page" /\ num_pages > 0
    /\ "flagseek" \in Faults
    /\ ReadWord # NotPresent
    /\ pa' = ReadWord
    /\ pos' = Reposition
    /\ pc' = IF Answers THEN "page" ELSE "repeats"
    /\ UNCHANGED <<target, line, vpn, num_pages, current_page_size, runs,
                   results>>

\* The read of the flags fails: assert(0).
FlagsAbort ==
    /\ pc = "page" /\ num_pages > 0
    /\ "flagread" \in Faults
    /\ ReadWord # NotPresent
    /\ pa' = ReadWord
    /\ pos' = Reposition
    /\ pc' = "aborted"
    /\ UNCHANGED <<target, line, vpn, num_pages, current_page_size, runs,
                   results>>
-----------------------------------------------------------------------------
Collect == Open \/ StartVma \/ Finish \/ EndVma \/ PageAbsent \/ PagePresent
           \/ FlagsFail \/ FlagsAbort

Next == Collect \/ Remap \/ Exit

Spec == Init /\ [][Next]_vars /\ WF_vars(Collect)
-----------------------------------------------------------------------------
(* What the collector promises                                             *)

\* Types of the state; sizes and counters are page counts.
TypeOK ==
    /\ maps \in Files /\ DOMAIN pt \subseteq Nat
    /\ \A v \in Vpns : pt[v] \in Word
    /\ huge \in HugeFrames /\ alive \in BOOLEAN /\ remapped \in BOOLEAN
    /\ pc \in {"open", "line", "page", "done", "failed", "aborted", "repeats"}
    /\ line \in 0 .. Len(maps)
    /\ pos \in Nat /\ vpn \in Nat /\ num_pages \in Int
    /\ pa \in Word /\ current_page_size \in Nat \ {0}
    /\ prev_vpn \in Nat /\ prev_pfn \in Nat
    /\ cur_virtual \in Nat \ {0} /\ cur_range \in Nat \ {0}
    /\ IsABag(virtual_hist) /\ IsABag(range_hist) /\ IsABag(offsets)
    /\ total \in Nat /\ regular_4k \in Nat /\ regular_2m \in Nat
    /\ printed \in Seq([vpn : Nat, pfn : Frames, size : {1, THP}])

Sizes == [i \in DOMAIN printed |-> printed[i].size]

\* Five ways to count the present pages agree: total_present_pages, the 4K and
\* 2M counters, the offsets, the printed pages, and the histograms with the
\* run that is still open; the phantom run of one page that the counters
\* start with is recorded too.
RegularTotals == total = regular_4k + THP * regular_2m
Accounting ==
    /\ RegularTotals
    /\ total = SumFunction(offsets)
    /\ total = SumFunction(Sizes)
    /\ total = SumBag(virtual_hist) + cur_virtual - 1
    /\ total = SumBag(range_hist) + cur_range - 1

\* The line of maps that page v is in.
VmaOf(v) == CHOOSE i \in DOMAIN maps : v \in maps[i].start .. VmEnd(i) - 1

SameVma(i, j) == VmaOf(printed[i].vpn) = VmaOf(printed[j].vpn)
VirtuallyNext(i) ==
    SameVma(i - 1, i) /\ printed[i].vpn = printed[i-1].vpn + printed[i-1].size
PhysicallyNext(i) == printed[i].pfn = printed[i-1].pfn + printed[i-1].size

\* The lengths of the maximal runs of printed that do not break at a member of
\* starts.
Lengths(starts) ==
    LET last(i) == CHOOSE j \in DOMAIN printed :
                       /\ i <= j /\ (i+1) .. j \cap starts = {}
                       /\ j = Len(printed) \/ j + 1 \in starts
        length(i) == printed[last(i)].vpn + printed[last(i)].size
                     - printed[i].vpn
    IN  [n \in {length(i) : i \in starts} |->
            Cardinality({i \in starts : length(i) = n})]

VirtualStarts == {i \in DOMAIN printed : i = 1 \/ ~VirtuallyNext(i)}
RangeStarts == {i \in DOMAIN printed :
                    i = 1 \/ ~VirtuallyNext(i) \/ ~PhysicallyNext(i)}

\* The histograms, with the open run, hold the lengths of the maximal runs of
\* the pages counted, computed here from the printed pages alone, and the
\* phantom run: no run is split, glued over the border of two VMAs, or
\* recorded twice.
RunsMatch ==
    /\ BagAdd(virtual_hist, cur_virtual) = BagAdd(Lengths(VirtualStarts), 1)
    /\ BagAdd(range_hist, cur_range) = BagAdd(Lengths(RangeStarts), 1)

\* Pages are counted in order, in their VMA, and within a VMA no page is
\* counted twice.
PagesInOrder ==
    /\ \A i \in DOMAIN printed : \E k \in 1 .. line :
           printed[i].vpn \in maps[k].start .. VmEnd(k) - 1
    /\ \A i, j \in DOMAIN printed : i < j =>
           /\ printed[i].vpn < printed[j].vpn
           /\ \A k \in 1 .. line :
                  (maps[k].start <= printed[i].vpn /\ printed[j].vpn < VmEnd(k))
                  => printed[i].vpn + printed[i].size <= printed[j].vpn

\* The file position of the page map and vpn are moved apart from each other,
\* by reads and seeks and by additions; when a page is about to be read they
\* agree, and num_pages is what is left of the VMA.
CursorInSync ==
    pc = "page" =>
        /\ num_pages = VmEnd(line) - vpn
        /\ (num_pages > 0 /\ Answers) => pos = vpn

\* A page of a living target is counted with the frame it is mapped to at
\* that moment.  A page of one that has died, or of the kernel, is counted
\* with the frame of the page counted last, whatever came in between: never
\* with another, and not at all behind an absent page.
Mapped(v, pfn) == v \in Vpns /\ pt[v] = pfn
Repeated(pfn) == IF printed = <<>> THEN pfn \in StaleWords
                 ELSE pfn = printed[Len(printed)].pfn
CountsWhatIsMapped ==
    [][printed' # printed =>
        LET e == printed'[Len(printed')]
        IN  IF alive /\ e.vpn \notin Kernel
            THEN Mapped(e.vpn, e.pfn)
            ELSE pa # NotPresent /\ Repeated(e.pfn)]_vars

\* When the collector is done with a target that lives and did not change,
\* every page of every VMA that is mapped has been counted; and so it is at
\* least in a target without huge pages.
Covered(v) == \E i \in DOMAIN printed :
                  v \in printed[i].vpn .. printed[i].vpn + printed[i].size - 1
EveryPresentPageCounted ==
    (pc = "done" /\ line = Len(maps)) =>
        \A k \in DOMAIN maps, v \in Vpns :
            (v \in maps[k].start .. VmEnd(k) - 1 /\ pt[v] # NotPresent)
            => Covered(v)
EverySmallPageCounted ==
    (huge = {} /\ alive /\ ~remapped) => EveryPresentPageCounted

\* When the collector is done, the histogram that is printed has every run of
\* the pages counted.
EveryRunRecorded ==
    pc = "done" => Lengths(RangeStarts) \sqsubseteq range_hist

\* The collector ends, whatever the target does meanwhile, unless a seek in
\* kpageflags fails for the word of an earlier page, which the page map does
\* not replace: then it repeats that seek for ever.
Ended  == pc \in {"done", "failed", "aborted"}
Repeats == pc = "repeats" /\ ~Answers /\ pa # NotPresent
Terminates == <>Ended \/ <>[]Repeats
=============================================================================
