----------------------------- MODULE MCResultTools -----------------------------
(***************************************************************************)
(* Inputs of ResultTools.  Histograms as collect_pagemap_hist builds them: *)
(* of the runs of a collection all but the last are recorded, and a        *)
(* phantom run of one page.  Logs of up to four lines about one            *)
(* defragmentation, and of up to two lines about each of two.  Folders     *)
(* whose numbers tell them from each other.                                *)
(***************************************************************************)
EXTENDS ResultTools, DefragLines, BagsExt, Sequences
LOCAL INSTANCE FolderStats

RunBags(lengths, most) ==
    {[s \in {t \in lengths : c[t] > 0} |-> c[s]] : c \in [lengths -> 0 .. most]}

Recorded(runs, last) ==
    [hist |-> BagAdd(BagRemove(runs, last), 1), total |-> SumBag(runs)]

Collected(lengths, most) ==
    UNION {{Recorded(runs, last) : last \in DOMAIN runs} :
               runs \in RunBags(lengths, most)}

AllCollected == Collected({1, 2, 4, 9, 16}, 3)
-----------------------------------------------------------------------------
\* A collection of the given size; n tells its coverage from that of others.
Collection(size, n) ==
    [total_pages |-> size, total_pres_svma |-> 9, good |-> 5, bad |-> 4,
     total_thp |-> n, total_4k |-> n + 1,
     num_vmas |-> n + 2, num_distinct_subvmas |-> 2 * n,
     entries |-> 71, coverage |-> 72, cov_32 |-> 3 * n, cov_64 |-> 3 * n + 1,
     cov_128 |-> 3 * n + 2, cov_256 |-> 73, cov_80p |-> 74, cov_90p |-> 75,
     cov_99p |-> 4 * n]

Some(n) == <<<<Collection(100, n)>>>>

\* Counters that grow by g, and differently in every group, from 1.
Constant(k, v) == [i \in 1 .. k |-> v]
Start(sizes) ==
    [defrag |-> Constant(sizes[1], 1), fail4k |-> Constant(sizes[2], 1),
     fail2m |-> Constant(sizes[3], 1), succ4k |-> Constant(sizes[4], 1),
     succ2m |-> Constant(sizes[5], 1), thp |-> Constant(2, 1)]
End(sizes, g) ==
    [defrag |-> [i \in 1 .. sizes[1] |-> IF i < 5 THEN 9 * g + i ELSE g + i],
     fail4k |-> [Constant(sizes[2], 1) EXCEPT ![1] = 1 + g],
     fail2m |-> [Constant(sizes[3], 1) EXCEPT ![sizes[3]] = 3 + g],
     succ4k |-> [Constant(sizes[4], 1) EXCEPT ![sizes[4]] = 5 + g],
     succ2m |-> [Constant(sizes[5], 1) EXCEPT ![1] = 7 + g],
     thp |-> Constant(2, 50)]
Kernel == <<15, 13, 13, 5, 5>>

Name(defrag, mark, fails, iter, frag) ==
    [bench |-> "micro", opt |-> "fresh", defrag |-> defrag, mark |-> mark,
     fails |-> fails, iter |-> iter, frag |-> frag]

Folder(name, stats, sizes, g, real) ==
    [dir |-> "results", results |-> TRUE, name |-> name, stats |-> stats,
     start |-> Start(sizes), end |-> End(sizes, g),
     times |-> <<<<real, real + 1, real + 2, real + 3>>>>]

\* Three iterations of one case, of which any may be the fastest.
Iterations(times) ==
    {Folder(Name("both", "all", "500", i, "0-0"), Some(4 * i), Kernel, 2 * i,
            times[i]) : i \in 1 .. 3}
Permutations3 == {t \in [1 .. 3 -> {10, 20, 30}] :
                    \A i, j \in 1 .. 3 : i # j => t[i] # t[j]}

One(stats, sizes) ==
    {Folder(Name("cap", "all", "500", "1", "0-0"), stats, sizes, 1, 10)}

Totals == {0, 99, 100, 101, 102, 103}
Campaigns ==
    {\* every mechanism, with and without marking
     {Folder(Name(k[1], k[2], "500", "1", "0-0"), Some(k[3]), Kernel, k[3], 10) :
         k \in {<<"cap", "all", 1>>, <<"ranger", "all", 2>>, <<"both", "all", 3>>,
                <<"both", "mark", 7>>}},
     \* the numbers of allocation failures and two iterations, one of them
     \* of the run without coverage
     {Folder(Name("both", "mark", k[1], k[2], "0-0"), k[3], Kernel, k[4], 10) :
         k \in {<<"0", "1", Some(1), 1>>, <<"0", "2", Some(5), 9>>,
                <<"500", "1", Some(3), 3>>, <<"500", "2", <<>>, 5>>}},
     \* a run in fragmented memory of which nothing was kept
     {[Folder(Name("both", "all", "500", "1", "0-0"), Some(k[2]), Kernel, k[2], 10)
          EXCEPT !.name.opt = k[1]] : k \in {<<"fresh", 1>>, <<"frag", 4>>}},
     \* two iterations with so many migrations that no float holds the product
     {[Folder(Name("ranger", "all", "500", i, "0-0"), Some(1), Kernel, 1, 10)
          EXCEPT !.end.defrag[3] = 20000] : i \in {"1", "2"}},
     \* two levels of fragmentation, a folder of something else
     {Folder(Name("cap", "all", "500", "1", "0-0"), Some(1), Kernel, 1, 10),
      Folder(Name("cap", "mark", "500", "1", "50-0"), Some(5), Kernel, 4, 20),
      [dir |-> "plots", results |-> FALSE]},
     \* a run without any mechanism
     {Folder(Name("cap", "all", "500", "1", "0-0"), Some(1), Kernel, 1, 10),
      Folder(Name("none", "all", "500", "1", "0-0"), Some(2), Kernel, 2, 10)},
     \* two folders of the same name
     {Folder(Name("cap", "all", "500", "1", "0-0"), Some(1), Kernel, 1, 10),
      [Folder(Name("cap", "all", "500", "1", "0-0"), Some(2), Kernel, 5, 10)
          EXCEPT !.dir = "old"]},
     \* a launcher that did not report
     {[Folder(Name("cap", "all", "500", "1", "0-0"), Some(1), Kernel, 1, 10)
          EXCEPT !.times = <<>>]},
     \* fewer migrations than failures in one of two iterations
     {[Folder(Name("ranger", "all", "500", i, "0-0"), Some(1), Kernel, 1, 10)
          EXCEPT !.end.defrag[8] = IF i = "1" THEN 60 ELSE 1] : i \in {"1", "2"}}}

\* The roots of up to three runs that come out too small and, where really
\* numbers from 2^48 come out too large, small ones instead of them.
MCRootBelow == {<<r * r * r, 3>> : r \in 4 .. 999}
MCRootAbove == {<<r * r - 1, 2>> : r \in 4 .. 12}

MCExperiments ==
    Campaigns
    \cup {Iterations(t) : t \in Permutations3}
    \* every order of up to four collections, of which some failed
    \cup {One(<<[i \in DOMAIN s |-> IF s[i] = 1 THEN Failed
                                                ELSE Collection(s[i], i)]>>, Kernel) :
             s \in UNION {[1 .. n -> Totals \cup {1}] : n \in 0 .. 4}}
    \* kernels with a counter more or less
    \cup {One(Some(1), [Kernel EXCEPT ![i] = @ + d]) : i \in 1 .. 5, d \in {-1, 1}}
-----------------------------------------------------------------------------
UpTo(m, lines) == UNION {[1 .. k -> lines] : k \in 0 .. m}
LogsOf(lines) ==
    {<<Header(0)>> \o s : s \in UpTo(4, lines)}
    \cup {<<Header(0)>> \o s \o <<Header(2)>> \o t :
             s \in UpTo(2, lines), t \in UpTo(2, lines)}

MCChunkLogs ==
    LogsOf({VmaLine("a"), VmaLine("b"), Chunk(1), Chunk(3),
            Torn, Dashes})

\* The frames 0x3 and 0xd3, and one the log says nothing about.
Pfn(d, r) == [ds |-> d, rest |-> r]
MCFailureLogs ==
    LogsOf({Failure(Pfn(0, "3"), 2, "exch_busy"),
            Failure(Pfn(1, "3"), 2, "exch_busy"),
            Failure(Pfn(0, "3"), 1, "free_other"),
            Failure(Pfn(0, "5"), 4, "unknown"),
            DestPage(Pfn(1, "3"), {"slab"}),
            DestPage(Pfn(0, "3"), {"buddy", "table"}),
            DestPage(Pfn(0, "3"), {})})
=============================================================================
