----------------------------- MODULE FolderStats -----------------------------
(***************************************************************************)
(* What a folder of results holds and what tables_plots.py reads of it:    *)
(* the counters of calc_counter_stats.py, the statistics print_stats.py    *)
(* printed for every collection, and the times of the launcher.            *)
(***************************************************************************)
EXTENDS Integers, SequencesExt

Sum(s) == FoldLeft(LAMBDA a, b : a + b, 0, s)

\* lines[a:b] of python: slices end with the list.
Slice(lines, a, b) == SubSeq(lines, a + 1, IF b < Len(lines) THEN b ELSE Len(lines))
-----------------------------------------------------------------------------
(* calc_counter_stats.py                                                   *)

\* A line of the file is the value of a counter; a line of text between the
\* groups is none.
Text == -1

\* The file run.sh writes: the defragmentation counters of vmstat and, each
\* below a line of text, those of CA paging and of collapsed huge pages.
CounterFile(c) == c.defrag \o <<Text>> \o c.fail4k \o <<Text>> \o c.fail2m
                    \o <<Text>> \o c.succ4k \o <<Text>> \o c.succ2m
                    \o <<Text>> \o c.thp

\* The groups, by the numbers of their lines.
Groups(lines) == <<Slice(lines, 0, 15), Slice(lines, 16, 29), Slice(lines, 30, 43),
                   Slice(lines, 44, 49), Slice(lines, 50, 55)>>

\* A text where a counter is expected, or too few counters to unpack.
ParseFails(lines) ==
    LET g == Groups(lines)
    IN  Len(g[1]) < 12 \/ \E n \in 1 .. 5 : Contains(g[n], Text)

\* The values that are returned: migrations that succeeded and failed (with
\* the tries for free frames twice and those for files not at all), failures
\* and successes of CA paging.
parse_counter_file(lines) ==
    LET g == Groups(lines)
        d == g[1]
    IN  <<(d[3] + d[4] + d[3]) - (d[6] + d[7] + d[8]), Sum(SubSeq(d, 6, 12)),
          Sum(g[2]), Sum(g[3]), Sum(g[4]), Sum(g[5])>>

\* Mutant: the failures of CA paging are read in the order of the headings.
read_counters_swapped(start, end) ==
    LET s == parse_counter_file(start)
        e == parse_counter_file(end)
        val(i) == e[i] - s[i]
    IN  <<val(5), val(6), val(4), val(3), val(1), val(2)>>

\* The six lines it prints, in the order read_counters_stats returns them.
read_counters_stats(start, end) ==
    LET s == parse_counter_file(start)
        e == parse_counter_file(end)
        val(i) == e[i] - s[i]
    IN  <<val(5), val(6), val(3), val(4), val(1), val(2)>>
-----------------------------------------------------------------------------
(* print_stats.py, complete_results                                        *)

\* What print_stats.py fails for (a file without the coverage part, a page
\* of no VMA) has a header and no statistics.
Failed == [statistics |-> FALSE]

\* The coverage part of a file, as print_range_hist writes it.
RangeReport(c) ==
    <<c.entries, c.coverage, "", c.cov_32, c.cov_64, c.cov_128, c.cov_256, "",
      c.cov_80p, c.cov_90p, c.cov_99p>>

Offsets_stats(c) == <<c.total_pages, c.total_pres_svma, c.good, c.bad,
                      c.total_thp, c.total_4k>>
CoverageLine(c) ==
    LET lines == RangeReport(c)
    IN  <<c.num_vmas, c.num_distinct_subvmas, lines[4], lines[5], lines[6], lines[11]>>
-----------------------------------------------------------------------------
(* tables_plots.py, read_cov_stats                                         *)

\* The collections before the first one that has no statistics.
Read(collections) ==
    LET first == SelectInSeq(collections, LAMBDA c : c = Failed)
    IN  IF first = 0 THEN collections ELSE SubSeq(collections, 1, first - 1)

\* More than two percent above the largest so far, -1 at first.
Exceeds(c, best) == best = <<>> \/ 100 * c.total_pages > 102 * best[1].total_pages

\* Mutant: from the first collection to the last.
LargestForwards(cs) ==
    FoldLeft(LAMBDA best, c : IF Exceeds(c, best) THEN <<c>> ELSE best, <<>>, cs)

\* From the last collection to the first.
Largest(cs) ==
    FoldRight(LAMBDA c, best : IF Exceeds(c, best) THEN <<c>> ELSE best, cs, <<>>)

\* The six columns of coverage, and the pages of each size.
read_cov_stats(collections) ==
    LET c == Largest(Read(collections))[1]
    IN  <<CoverageLine(c), SubSeq(Offsets_stats(c), 5, 6)>>
=============================================================================
