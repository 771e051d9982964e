# Verification of macap-tools

macap-tools measures how well a process's memory is laid out in physical
memory.  A shell script repeats an experiment: fragment the memory of the
machine, run a benchmark under a launcher that takes snapshots of its page map
before and after the kernel defragments it, and turn the snapshots into
statistics.  This directory holds TLA+ models of the tools, the TLC
configurations that check them, and proofs that TLAPS checks.

Check one model with `tlc -config SimpleRun.cfg MCSimpleRun.tla`, and one proof
module with `tlapm SimpleRun_proofs.tla`.  `PROJECT.json` has the configuration
and module of every run, the source lines of every definition, the mutant of
every property (a plausible bug that the property catches), the findings and
the hazards.

## 1. Inventory

### How the parts interact

    run.sh --&--> memfrag                  SIGUSR2: memory is fragmented
       |   <----                           SIGUSR1 from run.sh: end
       +-----> simple_run --fork--> benchmark, perf
       |            +--system()--> cap_pagecollect --> pagemap_<pid>_<n>_{pre,post}.out
       |            +--system call 335 of the patched kernel: defragment <pid>
       |            <--SIGCHLD-- benchmark, perf, the shells of system()
       +-----> get_stats.sh --> print_stats.py for every pagemap file
       +-----> calc_counter_stats.py on the counters before and after
       +-----> parse_defrag_*.py on the kernel's log
       +-----> mv pagemap_* to a folder of results
    by hand: calc_optimal_results.py and find_overlapping_subvmas.py on a pagemap
             file, tables_plots.py on the folders of results

There is no network and no shared memory.  The parts share processes (who reaps
whom, who signals whom), the files of a directory, and the page table of the
benchmark, which is read while it changes.

### The components

| component | state it keeps | operations | what makes it correct | modelled |
|---|---|---|---|---|
| launcher, `simple_run.cpp` | `child`, `perf_pid`, `child_quit`, `info_done`, `dumpstats_signal`, `loop_count`, `file_index`, `ret`, the pending SIGCHLD, the files | fork of benchmark and perf, `read_stats_periodically`, `child_exit`, `toggle_dumpstats_signal` | it reports the benchmark once and only after it died; it ends; files are numbered without a gap; a failed collection is reported | SimpleRun |
| collector, `page-collect.cpp` | `pm` position, `vpn`, `pa`, `current_page_size`, the open runs, two histograms, offsets, counters | `collect_pagemap_hist`: a page, a VMA, every failing call | each page is counted once, as it is mapped; all accounts agree | PageCollect |
| coverage report, `page-collect.cpp` | `num_entries`, `current_coverage`, results | `print_range_hist` | top-N coverage and entries for p % are what they say | RangeHist |
| experiment, `run.sh`, `get_stats.sh`, `clean.sh` | `FRAG_UNFIN`, `FRAG_PID`, `PID`, `ITER`, files, folders | a round, the trap, the statistics, the move | results are of their round, in fragmented memory; fragmenters end | Campaign |
| fragmenter, `memfrag.c` | chunks, resident size | allocate, free to a percentage, signal, wait | as run.sh sees it | in Campaign |
| page statistics, `print_stats.py` | pages, offsets, totals | read the lines, find the subVMA of a page, count per offset | the counts agree; the right subVMA is chosen | PrintStats |
| optimal ranges, `calc_optimal_results.py` | list of ranges, current range, result | `create_ranges`, `find_contiguous_ranges`, `fix_pfn_ranges` | ends; keeps exactly the frames asked for | OptimalRanges |
| overlapping subVMAs, `find_overlapping_subvmas.py` | ranges, list of removals, totals | compare every two ranges, remove, compare again | a removed subVMA is not missed; removals succeed | OverlappingSubVmas |
| counters of a run, `calc_counter_stats.py` | none | group lines by number, subtract the start from the end | each number is the growth of the counters it is named for | FolderStats |
| log parsers, `parse_defrag_results.py`, `parse_defrag_fails.py` | totals by iteration, the iteration and VMA that references point to | a line of the log | chunks and failures count once, where they belong | DefragLogs |
| tables, `tables_plots.py` | lists of the parts of names, rows by name | read a folder, make means | a case is of one kind of run; every run counts in its means; the largest collection is chosen | Tables |
| `cont_map_sum.py` | | add up a line of numbers; nothing calls it | | no |
| `run_nocov.sh`, C collector, `capaging.c` | as above | variants, wrapper of a system call | | no |
| signal tests, `tests (early)/` | | handshake with `kill` and `pause` | no signal is lost | planned |
| benchmarks | | workloads that are measured | not part of the tools | no |

### What is hard to test here

* The launcher learns of a death from SIGCHLD only.  Signals merge, `system()`
  blocks them, and the handler may run between any two statements of `main`.
  Tests with benchmarks that run for minutes never hit these windows.
* The collector reads a live process.  The maps, the page map and the flags of a
  frame are three moments, and an absent page, a dead process and an address of
  the kernel each leave a variable of the last page in place.
* The script and the fragmenter work at the same time and hand over by signals,
  over several rounds that share variables and a directory.
* The statistics pass through four programs that agree on positions: numbers of
  lines, of columns, of tokens, of parts of a name.  Folders come in any order.
* `fix_pfn_ranges` has nine cases on ranges that may overlap in any way, and
  needs an order that its own cuts destroy.

The complete list, with lines and the properties that cover each hazard, is
under "hazards" in `PROJECT.json`; one that no property covers yet says why.

## 2. Modules

| module | models | extends |
|---|---|---|
| `Launcher` | what the launcher promises, without signals: the abstract specification | |
| `SimpleRun`, `MCSimpleRun`, `SimpleRun_proofs` | the launcher, and its refinement of Launcher | an instance of Launcher |
| `PageCollect`, `MCPageCollect`, `PageCollect_proofs` | the collector | |
| `RangeHist` | the coverage report of the collector | |
| `Campaign`, `Campaign_proofs` | run.sh, get_stats.sh, the fragmenter | |
| `SubVmas` | operators on VMAs and subVMAs that the Python tools share | |
| `OptimalRanges`, `OptimalRanges_proofs` | calc_optimal_results.py | SubVmas |
| `OverlappingSubVmas` | find_overlapping_subvmas.py | SubVmas |
| `PagemapLines` | the lines of pages in a pagemap file | |
| `PrintStats` | print_stats.py | SubVmas, PagemapLines |
| `PagemapTools`, `MCPagemapTools`, `PagemapTools_proofs` | the composition of the last three: all on the same file, one after the other | OptimalRanges, PagemapLines; instances of OverlappingSubVmas and PrintStats |
| `FolderStats` | what is in a folder of results, calc_counter_stats.py and the readers of tables_plots.py: operators | |
| `Tables`, `Tables_proofs` | the walk over the folders and the means of tables_plots.py | FolderStats |
| `DefragLines`, `DefragLogs` | the lines of the defragmentation log, and the two parsers | |
| `ResultTools`, `MCResultTools`, `ResultTools_proofs` | RangeHist, Tables and DefragLogs in one state, one of which has something to do | RangeHist; instances of Tables and DefragLogs |
| `Sums` | lemmas on induction, and on sums and products that are folds or recursive functions | |

Variables have the names of the program's variables where there is one.  A
definition whose comment starts with "Mutant:" is a wrong variant of the
definition below it; no specification uses it.

### SimpleRun

One thread and one handler.  `pc` is the place of `main`, including inside
`read_stats_periodically`; `handler` is the place of `child_exit`, and `main`
stands still while it is not idle.  `proc` says for each of three processes, the
benchmark, perf and the shell of the current `system()`, whether it runs, is a
zombie or was reaped.  `sigchld` is the one pending SIGCHLD with the pid it
carries: an exit sets it only if none is pending, which is what the kernel does
for a signal that is not real-time.  SIGCHLD is blocked for the whole of
`system()`, which reaps its own shell with `waitpid`, so the SIGCHLD of the shell
stays pending for a process that nobody can reap.  A snapshot file is whole, cut
short by the death of the target, a stub, or absent.

Left out: job-control stops, reuse of pids, a signal inside the two
additions to `total_collect_us`, the parsing of options and the NUMA calls.
`MaxIter` bounds the collections: at the bound, the sleep of the loop lasts until
the benchmark is known to have ended.

### Launcher

The abstract launcher has a benchmark that runs, dies and is reaped, and knows
whether it heard of that; it begins collections while it does not know, and one
more at most when it does (`more`); the snapshots of a collection are written
once, pre before post, under the index of the collection; it ends after it has
reported.  `Lose` is the one weakness that it admits: a benchmark that is reaped
before its pid is known.  Signals, the handler, `system()`, perf and SIGUSR1 are
not in it.  The mapping (end of `SimpleRun.tla`) takes `quit` from `child_quit`,
`more` from the place of `main` and `child_quit`, `taken` from `loop_count`,
`files` from the snapshots that are there in any form.  SimpleRun implements it
with its liveness: `quit` leads to the end.  A death whose SIGCHLD is dropped
leaves the abstract benchmark dead and unnoticed for ever, which `Spec` allows;
that the code should do better is the finding of `launcher_dropped`.

### PageCollect

One step is the body of the inner `while`.  The target is a page table from
pages to words, a set of frames with the THP bit, and a flag that it lives;
`Changes` says whether it is remapped and whether it dies between steps, and
`Faults` which calls fail: "open", the seek to a VMA ("seek"), the seek behind a huge page
("jump", after which `vpn` has moved and the file position has not), "read", and for the
page flags "flagseek" and "flagread".  `pa` keeps its word when `read` gives nothing,
which it does for a target that has died and for the pages of `Kernel`, the vsyscall page at the end
of maps.  A flag seek that fails goes on with the next word and the same `vpn`; where
`read` gives nothing that is the same word, and the loop repeats the same seek for ever: `pc` is
then "repeats", a state of its own that is never left (lines 422 to 449).  A read of the flags
that fails is the `assert(0)`, one that gives nothing leaves any bit (`ThpBits`).  `current_page_size` is declared in the loop body and not
assigned for an absent page; the compiler keeps the slot, so it has the value of
the page before, and before the first page any value of `StaleSizes`.  The
huge-page test is the code's own (aligned in both spaces and the THP bit).  The
runs, histograms (bags), offsets and counters are as in the code, with the phantom
run of one page that `current_..._contiguity = 1` makes.

Left out: `find_fragmented_pages`, the anchors' estimate that nothing calls, a
maps file that changes while it is read, VMAs of 2^31 pages, text.

### RangeHist

One step is one length of the histogram, longest first.  The conversions to float are
modelled by what they do: `Float` takes an integer above `FloatExact` (2^24) to
the nearest multiple of the distance of floats there, ties to the even one; `Reaches` rounds the quotient
to a float and compares it with the double, so that an exact share of 90 % does not
reach it (0.9 as a float is below 0.9; 0.8 and 0.99 are above); `Required` rounds the
total, the remaining pages and their quotient, and subtracts as a `uint64_t` (`ToWord`), which wraps if the runs
so far have more than p % of the rounded total.  The operators were compared with the
compiled C++ lines on 60 million random calls with totals of up to 2^34 pages, and
`ceil(p*total)` for every total up to 2^24: no difference.

### Campaign

The script's `pc`, the pending SIGUSR2 and the trap (which bash runs between two
commands, not inside `./simple_run`), a fragmenter per round (working, paused,
failed, ended), the directory as a set of files, the loop of `get_stats.sh` and
the move to a folder, which an earlier experiment may have filled: `MoveResults` removes what is
there (line 306) before it moves, or removes, the files.  The launcher is a step that writes any set of snapshot
files it may leave, with any pre or post file missing (compare SimpleRun).

### SubVmas, OptimalRanges, OverlappingSubVmas, PrintStats, PagemapTools

A VMA is a range of pages with a list of subVMAs, each of which starts at a page
and wants an offset between page and frame.  `RangeStart` and `RangeEnd` are the
clipping that `create_ranges` does.  OptimalRanges has one action per case of
`fix_pfn_ranges`, named by the numbers in the source, its index and current
range.  OverlappingSubVmas has one action per pair of ranges in its two walks and
one per removal; a removal is by value and fails if the value is no longer there,
as `list.remove` does.  PrintStats reads one line per step and then counts one page
per step; `NoVma` is its exit on a page whose VMA is not in the file.  PagemapTools
lets one script run after the other on the same file; they share nothing but the file,
so no other order differs.  `PrintedFiles` bounds the files on which print_stats.py is
run too, because only it multiplies a file by the lines of pages.

### FolderStats, Tables

A folder has the counters before and after the run (as the lists that run.sh
concatenates), the files of coverage statistics (a list of collections, some of
which failed) and the lines of times.  `parse_counter_file` cuts lists by the fixed
line numbers of the source; a line of text in a group is the ValueError that it
would be.  Each folder is a step, in any order; the globals of the script
(`benchmarks`, `marked_opts`, `iterations`, `frag_cases`) are lists in the order of
meeting.  `MakeTables` is get_mean_values.  A mean of counts is the integer part of
a float root, which may be one too small or too large.  `RootBelow` and `RootAbove` are the products
for which it is: with three rows 1/3 is less than a third, and a cube from 4^3 on loses one
(with six and seven rows powers do so as well), and products just below a power reach the next root,
the first of them above 2^48 (compared with Python; a count of 2^43 pages and more could be off by
more and is left out).  A product from `MaxFloat` on is the OverflowError, a negative one the
TypeError.  Coverage and its mean are in thousandths of a
percent, to which the mean is rounded.

The part frag or fresh of a name is in the key of a row and in no case: two runs that differ in
it only have a row each and share a case.

Left out: the lists `frag_opts`, `defrag_opts` and `alloc_fails`, which nothing reads, memory
numbers, the plots.

### DefragLines, DefragLogs

One line of the log is one step.  `at` is what `stats_per_defrag` and
`stats_per_vma` point to, two references that are not set together.  The nineteen
counters of a chunk are one number, since all are added alike.  A frame is the
number of its leading digits d and the rest, because `strip('dst:: ')` takes the
former away.  A torn chunk line, an entry before any header, and an unknown
failure are the exceptions that they are in the code.

Left out: headers, VMA lines and f:: lines that are torn or malformed, which the parsers
answer with IndexError or ValueError (parse_vma_line, parse_f_line).

## 3. Runs

| run | module | expects | what it shows |
|---|---|---|---|
| launcher | MCSimpleRun | pass | reporting, reaping, numbering, the end of the launcher, the refinement of Launcher |
| launcher_forkwindow | MCSimpleRun | violation | a death between `fork()` and the store to `child` |
| launcher_dropped | MCSimpleRun | violation | a death while another SIGCHLD is pending |
| collector_static | MCPageCollect | pass | what is counted is what is mapped: a target that changes once, exits, or stands still |
| collector_changing | MCPageCollect | pass | the accounts agree and the loop ends or repeats one seek, whatever happens |
| collector_hole | MCPageCollect | violation | pages behind an absent page behind a huge page |
| collector_lastrun | MCPageCollect | violation | the last run is not recorded |
| campaign | Campaign | pass | rounds, fragmenters, files |
| campaign_secondround | Campaign | violation | the second round does not wait |
| pagemap_tools | MCPagemapTools | pass | fix_pfn_ranges keeps the frames, removals are harmless, print_stats.py counts right, and the three scripts agree |
| results | MCResultTools | pass | coverage against its definition; tables, counters and logs count what they name |
| results_median | MCResultTools | violation | the times of a case are not those of its median run |

### Properties worth reading

* `ReportAfterReap`, `ReportedOnce` (SimpleRun): the report, the SIGINT to perf
  and the end of the launcher follow the reaping of the benchmark, once.
* `ShellIsSystems`: the handler, which waits for whatever pid a signal names,
  never takes the exit status of a shell from `system()`.
* `StubIsLast`: the launcher works on a dead pid for at most one iteration,
  unless the SIGCHLD was lost.  `Numbering`: the number of files and the defragmentation
  cadence never drift apart.
* `ImplementsLauncher`: whatever SIGCHLD, SIGUSR1, the handler and `main` do in
  turn, the launcher behaves as Launcher does: a collection is begun at most once after
  the end is known, no snapshot is written twice or under another index, and a
  launcher that knows ends, with a report before.
* `HeardEnds`, `PlainEnds`: the launcher ends if it heard of the death; the two
  violation runs are the ways not to hear of it.
* `Accounting`, `RunsMatch` (PageCollect): counters, offsets,
  lines and both histograms describe the same pages, even if the table changes.
* `CursorInSync`: the position in the page map and `vpn` agree when a page is read, which the
  code keeps by two separate steps (a seek and a subtraction).
* `CountsWhatIsMapped` (an action property): a page of a target that lives is counted with the
  frame it has at that moment, also when the table changes; a page of one that has died, or
  of the kernel, for which the word of the page before stays in `pa`, only with the frame that was counted last,
  and never behind an absent page.  Its run has a change, the exit and the vsyscall page.
  `EverySmallPageCounted`: nothing is missed without huge pages.
* `Terminates` (PageCollect): the collector ends, or it repeats one failing flag seek for ever
  with a word that the page map does not replace.  Every other loop and early exit ends.
* `TopCoverage`, `FewestEntries` (RangeHist): the one-pass walk agrees with the
  sum of the N longest runs and, up to 2^24 pages (64 GiB), with the least number that covers p percent.
  The exceptions are stated by arithmetic and not by the code's comparison: runs at most half a page away from p
  percent, and exactly at it below 335544 pages (1.3 GiB), may count as less (0 is
  printed for exactly 90 %) or as more.  With more pages the property is false and claims
  nothing: 80 % of 16777217 pages need one run more than is printed, and for
  18642961 pages 2^63 may be.
* `ResultsAreOfTheirRound`, `PrintedUpToGap`, `OneFragmenter` (Campaign): what is
  moved and printed belongs to the round, files left by an interrupted run
  included; printing stops at the first missing pre file only.
* `Chained`, `FramesKept`, `TotalIsFootprint` (OptimalRanges): although a cut may
  break the order, the result is a chain that has exactly the frames asked for,
  each counted once in the sum of the sizes.
* `InnerCanBeRemoved`, `FailsForNestedOnly` (OverlappingSubVmas): the subVMAs that are
  listed for removal can be removed together, also where two are equal or one lies in
  another that goes; the ValueError of a removal comes from nested subVMAs only.
* `OverlapsAgree` (PagemapTools): what the pairs of one script share is what the distinct
  ranges of the other are short of, exactly if no frame is asked for three times, and more if one is.
* `PlacedAsInRanges` (PrintStats): two programs with different algorithms (a
  search for the subVMA of a page, and ranges clipped to VMAs) agree on whether
  a page has the frame it should have.  `PlacesAgree`: its five counters and the two
  of each offset describe the same pages.
* `LargestIsChosen` (Tables): the search from the last collection on, with its tolerance
  of two percent, finds one that none exceeds by more, and of equal ones the last.
* `CountersUnderTheirNames`: five programs agree on places: run.sh on lines,
  calc_counter_stats.py on numbers of lines and on an order of output,
  read_counters_stats on lines and tokens, and the names of columns.  It holds for
  every kernel with a counter more or less in a group (then mostly because nothing is
  read), except that a sixth 2M success is silently left out, and that migrations
  for files are missing where those to free frames are added twice (line 27).
* `CasesAreOfOneKind`, `EveryRunCounts`: the name of a case depends on a global that
  grows with the folders, and the rows of a case come from several iterations in the
  order of the walk; two runs share a case if and only if they are of one kind, and
  the means are those of all runs in it, up to one, which is what a float root may be off.
* `AccountsAgree` (DefragLogs): the sums per VMA and per iteration agree, unless a VMA is
  announced twice or a chunk comes before the first VMA of its iteration.
  `FailuresAreCounted`: each failure counts under its type and under the types of its
  frame, for any order of lines.

### Bounds, and why they are enough

* `MaxIter = 2` collections: the second is the first whose cadence differs for
  factor 2, and the first that can follow a missing file or a lost signal.  Three
  processes are all the launcher has at a time.
* Huge pages of two pages and five pages in two VMAs: huge pages at, before and
  behind a hole, an odd VMA end, a gap, and every table over them.  With a target that
  changes all the time, three pages and the vsyscall page: a change before, in and behind a huge page.
* Runs of lengths 1, 2, 4, 9 and 16, three of each: the thresholds fall inside
  of, between and behind the runs of a length.  `FloatExact = 16` and `Word = 1024`: 16 and 2^24 leave
  the same remainder modulo 100, so 80, 90 and 99 % round as they do with real floats (up, down, up);
  totals are up to 96, so every case occurs: exact percentages, one run too many or too
  few, the wrapping difference.
* Two rounds, three snapshots, two leftovers: the second round is where state
  of the first one shows, and a gap can be at the start, middle and end.
* Up to four ranges of one to three pages: every case of `fix_pfn_ranges`, and a
  cut followed by a range that starts before it.  Two lines under up to
  three subVMAs: a page before, in, between and behind subVMAs, twice the same offset.
* Folders: every mechanism with and without marks, two failure numbers with two
  iterations, two levels of fragmentation, fresh and fragmented memory of which nothing was kept, equal
  names, a folder without coverage, without times, with a negative column, with counts whose product is beyond `MaxFloat`
  (10^9 here); `RootBelow` are the cubes, `RootAbove`, for numbers that TLC cannot have, the numbers before the squares; three iterations with every order of times;
  up to four collections, each failed or of one of six sizes around two percent; kernels
  with a counter more or less in each group.  All orders of the walk.
* Logs of four lines of six (or seven) kinds about one defragmentation, and of two lines
  about each of two: a repeated VMA, a chunk in front of its VMA, a frame before and
  after the failure, a frame that is said to be two things.

### Fairness

Only steps the code takes by itself are weakly fair: `main`, the handler and
delivery of a signal that is pending and not blocked, and the collector's end (SimpleRun), the loop
(PageCollect, PagemapTools), the script and its trap (Campaign).  For
termination of the launcher and the script a benchmark is assumed to end, which is
what an experiment waits for, and a fragmenter to go on working (it may fail).  Arrivals of SIGUSR1,
failures and changes of the target are never fair.

`CHECK_DEADLOCK FALSE` is given where the program ends.

### Findings

| where | what |
|---|---|
| `simple_run.cpp:488` | a benchmark that ends before its pid is stored is never noticed: the launcher waits for ever |
| `simple_run.cpp:255` | `child_exit` reaps only the pid that the one pending SIGCHLD names: another death meanwhile is lost |
| `page-collect.cpp:522` | `current_page_size` is not set for an absent page: a hole behind a huge page hides the pages behind it |
| `page-collect.cpp:553` | the last run is not in the histograms |
| `run.sh:211` | `FRAG_UNFIN` is not reset: later rounds do not wait for their fragmenter |
| `tables_plots.py:299` | the middle of the sorted times is used as an index of the unsorted rows |

Met while modelling, and not claimed as violations because no line of the repository says
otherwise: a list with a broken order gives ranges of negative size
(`calc_optimal_results.py:195` only remarks that the sorting would be wrong), the
page of a remainder is moved by the wrong amount (168), a page is compared with a
frame (217), and a file without subVMAs ends in an IndexError (132).
`find_overlapping_subvmas.py` ends in a ValueError if a subVMA lies in two others (191);
and after the removals the total may be larger than before, and one range may lie in
another again, because the neighbour of a removed subVMA gets its pages.
`calc_counter_stats.py:27` adds `dst_free_tries` twice and `dst_file_tries` never.
`tables_plots.py` exits for the folders of runs without any mechanism, which run.sh names
"none" (184); prints in `print_mean_tables` (487) a format string and never a mean; and names
fewer columns than there are, a quote being missing (29).  `get_stats.sh` and the folder
names of run.sh do not tell the variants of a mechanism apart, so that runs of two variants share
a key and a case.  `parse_defrag_fails.py:129` loses frames whose number starts with d.
memfrag reads `argv[3]` and `argv[4]` where its usage has the fourth and fifth parameter.

## 4. Proofs

Every proof is for all values of the constants that satisfy the named
assumptions of the modules.

* `SimpleRun_proofs`.  `Inductive` proves `IInv`, because the invariants that
  matter are not inductive alone.  Beside them it has `Counting` (`loop_count` and
  `file_index` at each `pc`), `Launching` (`child` is set once, after the fork, and
  a failed fork leaves no benchmark), `QuitOrder` (a launched benchmark is reaped
  before `child_quit`, that before `info_done`), `PostDue`, `PreLedger` (what each "pre" stage owes the reader),
  `SignalOnce` (a SIGCHLD of the benchmark, pending or being handled, means it is a
  zombie), `ReportedSoFar` and `StubLate`.  `ReportAfterReap` rests on `QuitOrder` and
  `Launching`, `MissingPreReported` on `PreLedger`, `StubIsLast` on `StubLate`.
  From it: `TypeCorrect`, `ReportsAfterReap`, `ShellsAreReapedBySystem`,
  `NumbersAgree`, `MissingPreIsReported`, `StubsAreLast`, `ReportsOnce`.  No bound
  on `MaxIter` is assumed.
  `ImplementsSafety`: the safety part of Launcher is implemented.  Every action is one
  of the abstract launcher's or changes nothing that it sees (`MappedStep`).  This needs
  three facts more, in `RInv`: a collector has not yet written what it is about to write
  (`Unwritten`, for "written once"), a factor of 0 gets no further than the first division
  (`OneIteration`, for `Crash`), and the handler neither runs after the end nor finds a
  `child` that is unset once `main` has stored it (`QuietEnds`, for `Lose` and `Notice`).
* `PageCollect_proofs`.  `TypeCorrect`, `CountersAgree` and `PagesAreInOrder` hold
  under every failure and change.  `CursorsAgree` needs `Steady`: the seek behind
  a huge page and the seek of the flags do not fail, and the uninitialised size is that of some page.
  `CountedIsMapped` needs no more.  The target may change and exit and maps may have pages of the kernel:
  `WordIsCounted` says that a word in `pa` that is present is the frame counted last (or the uninitialised one),
  which is what a `read` that returns nothing (line 429) makes the collector count again.
* `OptimalRanges_proofs`.  The lists are finite and of non-empty ranges; `IInv` adds
  that the result is linked to the start of the current range (`LinkedTo`).  The proof has
  one step per case of `fix_pfn_ranges`; each case is one of three forms
  (`NoPiece`, `OnePiece`, `TwoPieces`): `FixCuts` says that a step of the loop is one of
  them, or passes a `Gap`, and `CutKeeps` that each keeps the chain.  It does not need the list to be sorted, so it
  holds for the broken order too.  From it: `TypeCorrect`, `CurrentHasAFrame`,
  `EveryRangeHasACase` (the `while` loop always advances), `RangesAreChained`.

  `FramesInductive` adds `FInv`, which does use the order of the input:
  the list is in order until the second loop, and in the second loop the frames
  between the start of the range read last and that of the current one are final already,
  which is what saves the frames where a cut has broken the order.  The frames of the
  results, of the current range and of the rest are always the footprint
  (`NoFrameIsLost`), and `SizesAddUp`: the sizes of the results and of the current range
  add up to the number of their frames, because every result ends at or before the start
  of the current range.
* `Sums`.  A theorem of induction over a predicate cannot be cited here.  `NumbersOf` is
  induction over a set of numbers, which can; it follows from the pigeonhole principle of the
  library: if x were missing, n -> n - 1 would map the missing numbers up to x injectively
  into those below x.  From it come `LeastNumber` and what a recursive function or a
  fold is at each argument (`IsSum`, `IsSetSum`, the `SumFunction...` and `OnSet...` lemmas): one element more
  adds its value, disjoint sets add, a function that is changed at one place changes its sum
  by the difference.  `IsRec` is a fold of any kind over a finite set, of which `RecExists` and
  `RecStays` are about existence and values; `SetProductOfNumbering` says that a product
  over a set is that over any list of its elements without repetition, so that
  the order in which the library chooses them does not matter.
* `PageCollect_proofs`, the accounts.  `AccountsAgree` needs no assumption on faults: the bags and the
  offsets are finite, and a page adds its size everywhere at once.  `RunsAreMaximal`: the
  collector knows only the page before.  `RunInv` says that the histogram has all closed runs
  of the counted pages and the phantom one, and that the length of the open run is
  what `current_..._contiguity` holds; `PrevInv` that `prev_vpn` and `prev_pfn` are the last
  page counted of this VMA, or nothing.  A run of the definition is a maximal one, so the
  bag of lengths changes with each page; `RunStep` says how.  `SmallPagesAreCounted` holds in
  `Undisturbed` runs without huge pages: everything behind the cursor that is
  mapped has been counted (`SmallInv`).  With huge pages it is false, which is
  the finding of `collector_hole`.
* `Campaign_proofs`.  `IInv` says who owns what at each place of the script: from clean.sh on
  the files are those of the round, with an index below what the launcher wrote
  (`OwnFiles`); what get_stats.sh has printed is a prefix without a gap (`Printed`); the only
  fragmenter that has not been told to end is the one in `FRAG_PID` (`Fragmenters`);
  and in the first round a SIGUSR2, pending or handled, means that its
  fragmenter is waiting (`FirstSignal`), which stops being true in the second, where
  `FRAG_UNFIN` is stale.  All five safety properties of Campaign follow, for any number of rounds,
  snapshots and leftovers.
* `PagemapTools_proofs`.  `ListInv`: what is on the list of removals was found by
  comparing two ranges of the sorted list, so it lies in another range; of all ranges that are not
  inside a larger one the last of equal ones is never listed (`InnerRangesMayGo`).
  `LeftInv`: for every value, the places left in a VMA and the removals done
  are as many as there were.  Thus a removal can only fail if a value is listed more often than it
  is there, and by a pigeonhole argument then one range is listed twice, which means that it lies in
  two others (`OnlyNestedFails`).  `PrintInv`: the totals of print_stats.py and the sums
  of the two counters of each offset, a fold over pairs, are those of the pages done so far
  (`PrintedTotalsAgree`).  `PlacesAreThoseOfRanges` needs `PrintedAssumption`, that
  VMAs are apart and their subVMAs sorted by address, as the kernel prints
  them; the program searches the last subVMA that starts at or before the page, and the
  other clips ranges at the start of the next subVMA.  `OverlapInv` (for `HelpersAgree`): the
  total so far is what the compared pairs have in common, which is what the sets of frames
  so far are short of plus an excess, and the excess is positive if and only if a frame is in
  three of them (`Excess`, `Compared`, `ExcessPair`, `ExcessRow`).  With `SizesAddUp` for the
  other program it gives `OverlapsAgree`, without an assumption on the files.
* `ResultTools_proofs`.  The coverage report: `ReportInv` says that the lengths done hold the
  `num_entries` longest runs and that `current_coverage` is their sum (`LongestSoFar`), that the
  tops up to `num_entries` and the percentages reached are those of the definitions
  (`TopsAre`, `PercentIs`).  The floats: up to `FloatExact` an integer is its own float and the
  rounded quotient is on the side of p percent of the exact one, or the pages are within half a page of it
  (`ReachesIs`, `HalfAPage`); the difference then does not wrap and the entries are
  the exact ones (`RequiredIs`), except for the close runs, which `CloseIs` bounds.  `FloatAssumption` is about the
  two numbers and the percentages only.  `HistogramsAssumption` states what a histogram is; a process without a
  present page has at most the phantom run.
  The parsers of the log: `LogInv`, the parser holds an account of exactly the iterations
  whose header it read, its references point to the iteration that is open, the one of the last
  header (`OpenAt`), and an account is that of the lines of the iteration
  (`ResultsInv`, `FailsInv`).  Total and VMAs may differ only if the iteration was
  interrupted, and an iteration that is interrupted remains so.  The failures are counted by sets of
  types, so `FailsInv` speaks of the sum of sizes over any set of failures;
  from it each of the totals follows.  `LogsAssumption` has the fields of the lines, and that a log has
  every iteration once, which the counter of the kernel module gives.
* `Tables_proofs`.  `RowsInv`: every row is that of a folder which was read; `KindInv`, the marks of all
  rows of both mechanisms are in the global list `marked_opts`, on which the name of
  a case depends.  `LargestCollectionsAreShown`: the fold from the last collection on keeps
  one that no later one exceeds by more than the tolerance.  `ColumnsAreThoseOfCounters`:
  the texts between the groups are in no slice of a file that was read, so there
  are few places for them (`TextsAreOutside`, `PlacesOfTexts`), and the slices are the groups.
  It needs `CountersAssumption`, that no group is so long that the text below it
  falls between the slices of two later groups (29 lines for the first, where the known
  kernels have 15): such a file would be read with the groups mixed up.
  `EveryRunIsCounted` needs three more invariants.  `ReadInv`: a folder that was
  read has an entry under its name.  `IterInv`: every iteration is noted once, and that of
  every row is, so that going through the iterations and, in each, through the entries
  lists each row of a case once (`RowsOfLists`, over two folds).  `TablesInv`: at the end a
  table is `FinalRow` of such a list.  `FoldersListed` makes of it a list of the folders of that
  kind, each once, through `CasesAreOfOneKind`, and `MeanOfFolders` compares the product
  along the list with that over the set.  `MeanIs` is about the means themselves: `CountRoot`
  and `ShareRoot` choose a number between 0 and the largest value, and there is one to choose,
  since a product of n numbers is at most the n-th power of the largest
  (`ProductsWithin`) and powers grow with their base (`PowerOfLarger`).  `RowNumbers` has it
  from `FoldersAssumption` that the columns are numbers: the coverage of a collection
  that has statistics is, and so are the sums of a counter file that was read.  What
  python's float power does is in `RootBelow` and `RootAbove`, of which `RootsAssumption` only says
  that they are off by less than one (`CountRootIs`); the property leaves room for that.

Only model-checked:

* Liveness under fairness: `HeardEnds`, `PlainEnds`, the liveness of Launcher (`quit` leads to
  the end), and that the loops and the script end.  The prover has no ENABLED.

The theorems `CurrentHasAFrame` and `EveryRangeHasACase` are about properties that no run has any more.

## 5. Not modelled

* Option parsing and NUMA set-up of the launcher: sequential, one planned module.
* `print_cov_stats` of calc_optimal_results.py: nothing calls it.
* The C collector, `run_nocov.sh`: variants of what is modelled.
* The plots of `tables_plots.py` (they hand the means to matplotlib) and
  `cont_map_sum.py` (one sum over one line; nothing calls it).
* The times that handler and `main` both use (`total_collect_us`): additions of clock
  values.
* The early signal tests: they are not part of the tools any more.
* The benchmarks and `capaging.c`: measured programs, one system call.
* The defragmentation system call and `/proc` are the kernel's; the models use
  what the code relies on.

## 6. Plan

Done: all modules of section 2, the refinement of Launcher, and proofs of every safety
property of the passing runs.  Next, in this order:

1. Memfrag: its arguments, loop and signals.  LaunchOptions and TimeAccounting: the option
   parser, and the sums that handler and main both use.
