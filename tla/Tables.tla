-------------------------------- MODULE Tables --------------------------------
(***************************************************************************)
(* tables_plots.py: every folder of results is read, in the order in which *)
(* os.walk comes to them, into a row under the parts of its name; then the *)
(* rows of the same case are made into one row of means.                   *)
(***************************************************************************)
EXTENDS FolderStats, FiniteSetsExt

CONSTANTS
    Experiments,            \* the sets of folders that are considered
    RootBelow, RootAbove,   \* pairs <<x, n>> of which x ** (1 / n) is below,
                            \* at or above, the next whole number
    MaxFloat                \* from which on an int has no float, about 2^1024

VARIABLES
    folders,            \* those of the experiment
    todo,               \* those os.walk has yet to come to
    pc,
    benchmarks, marked_opts, iterations, frag_cases,    \* the globals
    runs_dict,          \* the rows, in the order of the dictionary
    tables              \* the means, by fragmentation, benchmark and case

names == <<benchmarks, marked_opts, iterations, frag_cases>>
vars == <<folders, todo, pc, names, runs_dict, tables>>

Init ==
    /\ folders \in Experiments
    /\ todo = folders
    /\ pc = "walk"
    /\ benchmarks = <<>> /\ marked_opts = <<>>
    /\ iterations = <<>> /\ frag_cases = <<>>
    /\ runs_dict = <<>>
    /\ tables = <<>>
-----------------------------------------------------------------------------
(* read_all_stats                                                          *)

\* A folder without statistics.
PassOver(f) ==
    /\ pc = "walk" /\ f \in todo
    /\ ~f.results
    /\ todo' = todo \ {f}
    /\ UNCHANGED <<folders, pc, names, runs_dict, tables>>

Noted(list, part) == IF Contains(list, part) THEN list ELSE Append(list, part)

get_bench_run_characteristics(name) ==
    /\ benchmarks' = Noted(benchmarks, name.bench)
    /\ marked_opts' = IF name.defrag \in {"cap", "ranger"}
                      THEN marked_opts ELSE Noted(marked_opts, name.mark)
    /\ iterations' = Noted(iterations, name.iter)
    /\ frag_cases' = Noted(frag_cases, name.frag)

\* One of the three files is not as it is expected: the script dies.
Unreadable(f) ==
    \/ ParseFails(CounterFile(f.start)) \/ ParseFails(CounterFile(f.end))
    \/ f.stats # <<>> /\ Read(f.stats[1]) = <<>>
    \/ f.times = <<>>

\* Coverage, counters, pages, times.
Row(f) ==
    LET cov == IF f.stats = <<>> THEN <<[i \in 1 .. 6 |-> 0], <<0, 0>>>>
                                 ELSE read_cov_stats(f.stats[1])
    IN  cov[1] \o read_counters_stats(CounterFile(f.start), CounterFile(f.end))
            \o cov[2] \o Last(f.times)

\* A second folder of the same name replaces the first.
Entered(dict, key, row) ==
    LET at == SelectInSeq(dict, LAMBDA e : e.key = key)
        e  == [key |-> key, row |-> row]
    IN  IF at = 0 THEN Append(dict, e) ELSE ReplaceAt(dict, at, e)

ReadFolder(f) ==
    /\ pc = "walk" /\ f \in todo
    /\ f.results
    /\ todo' = todo \ {f}
    /\ get_bench_run_characteristics(f.name)
    /\ IF Unreadable(f)
       THEN pc' = "error" /\ UNCHANGED runs_dict
       ELSE /\ runs_dict' = Entered(runs_dict, f.name, Row(f))
            /\ UNCHANGED pc
    /\ UNCHANGED <<folders, tables>>
-----------------------------------------------------------------------------
(* get_mean_values                                                         *)

\* Mutant: the case of a run with both does not say which pages are moved.
CaseWithoutMark(key) ==
    CASE key.defrag = "cap"    -> <<"CaPaging">>
      [] key.defrag = "ranger" -> <<"TRanger">>
      [] OTHER                 -> <<"Both", key.fails>>

Case(key) ==
    CASE key.defrag = "cap"    -> <<"CaPaging">>
      [] key.defrag = "ranger" -> <<"TRanger">>
      [] OTHER -> IF Len(marked_opts) = 1 THEN <<"MACAP", key.fails>>
                                          ELSE <<"Both", key.mark, key.fails>>

\* The rows of a case in an iteration, behind those of the iterations before.
RowsIn(rows, iter, frag, bench, case) ==
    FoldLeft(LAMBDA rs, e :
                 IF /\ e.key.iter = iter /\ e.key.bench = bench
                    /\ e.key.frag = frag /\ Case(e.key) = case
                 THEN Append(rs, e.row) ELSE rs, rows, runs_dict)

\* Mutant: every iteration starts the rows of a case again.
RowsOfLastIteration(frag, bench, case) ==
    FoldLeft(LAMBDA rows, iter :
                 LET of == RowsIn(<<>>, iter, frag, bench, case)
                 IN  IF of = <<>> THEN rows ELSE of, <<>>, iterations)

RowsOf(frag, bench, case) ==
    FoldLeft(LAMBDA rows, iter : RowsIn(rows, iter, frag, bench, case),
             <<>>, iterations)

Times(numbers) == FoldLeft(LAMBDA p, x : p * x, 1, numbers)
Power(b, n)    == Times([k \in 1 .. n |-> b])
Product(rows, i) == Times([k \in DOMAIN rows |-> rows[k][i]])

\* int(prod ** (1 / n)) of a count, where 1 / n and the power are floats: a
\* power may be just below its root (with n = 3 of 4 and more, with n = 6 and
\* n = 7 as well), and a large number below a power may reach the next root.
CountRoot(prod, n, top) ==
    LET r == CHOOSE r \in 0 .. top : Power(r, n) <= prod /\ prod < Power(r + 1, n)
    IN  IF <<prod, n>> \in RootBelow THEN r - 1
        ELSE IF <<prod, n>> \in RootAbove THEN r + 1 ELSE r

\* round(prod ** (1 / n), 3) of a percentage, in thousandths.
ShareRoot(prod, n, top) ==
    LET twice == prod * Power(2, n)
    IN  CHOOSE r \in 0 .. top : /\ twice < Power(2 * r + 1, n)
                                /\ r > 0 => Power(2 * r - 1, n) <= twice

Mean(rows, i) ==
    LET n   == Len(rows)
        top == Max({rows[k][i] : k \in 1 .. n} \cup {-rows[k][i] : k \in 1 .. n})
    IN  IF n = 1 THEN rows[1][i]
        ELSE IF i \in 3 .. 5 THEN ShareRoot(Product(rows, i), n, top)
                             ELSE CountRoot(Product(rows, i), n, top)

\* Means of the coverage and the counters; the rest is that of the row which
\* has the position of the median of the real times in the sorted list.
FinalRow(rows) ==
    LET middle == Len(rows) \div 2 + 1
    IN  [i \in DOMAIN rows[1] |->
            IF i <= 12 THEN Mean(rows, i) ELSE rows[middle][i]]

Keys == {runs_dict[n].key : n \in DOMAIN runs_dict}

CaseRows == [t \in {<<key.frag, key.bench, Case(key)>> : key \in Keys} |->
                RowsOf(t[1], t[2], t[3])]

\* exit(-1) for a run with neither mechanism, for which run.sh writes "none",
\* the root of a negative product, which is not a number int() takes, and a
\* product of counts that no float holds.
NoTables ==
    \/ \E key \in Keys : key.defrag \notin {"cap", "ranger", "both"}
    \/ LET rows == CaseRows
       IN  \E t \in DOMAIN rows :
               /\ Len(rows[t]) > 1
               /\ \E i \in 1 .. 12 : \/ Product(rows[t], i) < 0
                                    \/ /\ i \notin 3 .. 5
                                       /\ Product(rows[t], i) >= MaxFloat

MakeTables ==
    /\ pc = "walk" /\ todo = {}
    /\ ~NoTables
    /\ tables' = LET rows == CaseRows IN [t \in DOMAIN rows |-> FinalRow(rows[t])]
    /\ pc' = "done"
    /\ UNCHANGED <<folders, todo, names, runs_dict>>

GiveUp ==
    /\ pc = "walk" /\ todo = {}
    /\ NoTables
    /\ pc' = "error"
    /\ UNCHANGED <<folders, todo, names, runs_dict, tables>>
-----------------------------------------------------------------------------
Next == \/ \E f \in todo : PassOver(f) \/ ReadFolder(f)
        \/ MakeTables \/ GiveUp

Spec == Init /\ [][Next]_vars
-----------------------------------------------------------------------------
\* The folders whose results are not those of another folder of that name.
Single == {f \in folders : f.results /\ \A g \in folders :
                               g.results /\ g.name = f.name => g = f}
RowOf(f) == runs_dict[SelectInSeq(runs_dict, LAMBDA e : e.key = f.name)].row
ReadIn == {f \in Single \ todo : f.name \in Keys}

\* The coverage of a run is that of one of its largest collections: of those
\* before the first that failed none is two percent larger, and none of the
\* later ones as large ("find iter with the most allocated pages and from
\* those the last one", read_cov_stats).
LargestIsChosen ==
    \A f \in {g \in ReadIn : g.stats # <<>>} :
        LET cs == Read(f.stats[1])
        IN  \E i \in DOMAIN cs :
                /\ SubSeq(RowOf(f), 1, 6) = CoverageLine(cs[i])
                /\ SubSeq(RowOf(f), 13, 14) = SubSeq(Offsets_stats(cs[i]), 5, 6)
                /\ \A j \in DOMAIN cs :
                       /\ 100 * cs[j].total_pages <= 102 * cs[i].total_pages
                       /\ j > i => cs[j].total_pages < cs[i].total_pages

\* The growth of the counters of a folder, and of the n-th of a group.
Grew(f, n) == f.end.defrag[n] - f.start.defrag[n]
Growth(f, group) == Sum(f.end[group]) - Sum(f.start[group])

\* run.sh, calc_counter_stats.py, its output, read_counters_stats and the
\* names of the columns agree, for every number of counters a kernel may
\* have: either the line numbers hit a text and nothing is read, or each
\* column is the growth of the counters it is named for.  Migrations for
\* files are not among the successes, those to free frames twice.
CountersUnderTheirNames ==
    \A f \in ReadIn :
        /\ SubSeq(RowOf(f), 7, 7) = <<Growth(f, "succ4k")>>
        /\ Len(f.end.succ2m) <= 5 => RowOf(f)[8] = Growth(f, "succ2m")
        /\ SubSeq(RowOf(f), 9, 10) = <<Growth(f, "fail4k"), Growth(f, "fail2m")>>
        /\ RowOf(f)[11] = (2 * Grew(f, 3) + Grew(f, 4))
                              - (Grew(f, 6) + Grew(f, 7) + Grew(f, 8))
        /\ RowOf(f)[12] = Sum([n \in 1 .. 7 |-> Grew(f, n + 5)])

\* Two runs are put together if and only if they are of the same mechanism
\* and, for both mechanisms at once, with the same pages and allocation
\* failures, whatever the order in which the folders are read.  Whether the
\* memory was fragmented is only in the last part of the name: a fresh run and
\* one after a fragmenter that kept nothing ("0-0" both) are of one case.
SameKind(a, b) ==
    /\ a.bench = b.bench /\ a.frag = b.frag /\ a.defrag = b.defrag
    /\ a.defrag = "both" => a.mark = b.mark /\ a.fails = b.fails
CasesAreOfOneKind ==
    pc = "done" =>
        \A a, b \in Keys :
            SameKind(a, b) <=> /\ a.bench = b.bench /\ a.frag = b.frag
                               /\ Case(a) = Case(b)

\* Every run counts in the means of its case, and no other: a column is, up
\* to one, the geometric mean over the folders, however they were walked.
\* Where one is without coverage the mean is zero.
EveryRunCounts ==
    pc = "done" /\ Single = {f \in folders : f.results} =>
        \A f \in Single :
            LET key  == f.name
                same == {g \in Single : SameKind(g.name, key)}
                row  == tables[<<key.frag, key.bench, Case(key)>>]
                n    == Cardinality(same)
                read == [g \in same |-> Row(g)]
            IN  \A i \in 1 .. 10 :
                    LET prod == FoldSet(LAMBDA g, p : p * read[g][i], 1, same)
                    IN  /\ prod < Power(row[i] + 2, n)
                        /\ row[i] > 0 => Power(row[i] - 1, n) < prod

\* What the script says of its times: "find iteration which is closest to
\* the median of real time", "save time stats of the closest iteration".
MedianTime ==
    pc = "done" =>
        \A t \in DOMAIN tables :
            LET rows == RowsOf(t[1], t[2], t[3])
                real == tables[t][15]
                half == Len(rows) \div 2
            IN  /\ Cardinality({n \in DOMAIN rows : rows[n][15] < real}) <= half
                /\ Cardinality({n \in DOMAIN rows : rows[n][15] > real}) <= half
=============================================================================
