----------------------------- MODULE ResultTools -----------------------------
(***************************************************************************)
(* The loops that go through results: print_range_hist goes through the    *)
(* histogram of a collection, the parsers of the defragmentation log       *)
(* through the log of a run, tables_plots.py through the folders of an     *)
(* experiment.  They share no state, so that a behaviour is about one of   *)
(* them and leaves the others without anything to do.                      *)
(***************************************************************************)
EXTENDS RangeHist, Sequences

CONSTANTS ChunkLogs, FailureLogs, FailTypes,
          Experiments, RootBelow, RootAbove, MaxFloat

VARIABLES log, lines_read, script, state, defrags, at, out
VARIABLES folders, todo, pc, benchmarks, marked_opts, iterations, frag_cases,
          runs_dict, tables

logVars    == <<log, lines_read, script, state, defrags, at, out>>
tablesVars == <<folders, todo, pc, benchmarks, marked_opts, iterations,
                frag_cases, runs_dict, tables>>

Logs  == INSTANCE DefragLogs WITH n <- lines_read
Plots == INSTANCE Tables

\* What the files of a folder hold: at most one set of statistics, of which
\* every part is without any or has its number of pages and the numbers of its
\* coverage, and lists of times.
IsList(s) == s \in Seq(Range(s))
ASSUME FoldersAssumption ==
    \A e \in Experiments : \A f \in e : f.results =>
        /\ IsList(f.stats) /\ Len(f.stats) <= 1
        /\ IsList(f.times) /\ \A n \in DOMAIN f.times : IsList(f.times[n])
        /\ \A n \in DOMAIN f.stats :
               /\ IsList(f.stats[n])
               /\ \A c \in Range(f.stats[n]) :
                      c = Plots!Failed
                          \/ /\ c.total_pages \in Nat
                             /\ \A i \in 1 .. 6 : Plots!CoverageLine(c)[i] \in Nat

\* No group of counters of a kernel is so long that the text below it is
\* between the slices of two later groups, and no value is negative.
Counters == {"defrag", "fail4k", "fail2m", "succ4k", "succ2m", "thp"}
ASSUME CountersAssumption ==
    \A e \in Experiments : \A f \in e : f.results =>
        /\ \A c \in {f.start, f.end} :
               /\ \A group \in Counters : c[group] \in Seq(Nat)
               /\ Len(c.defrag) < 29 /\ Len(c.fail4k) < 27
               /\ Len(c.fail2m) < 19 /\ Len(c.succ4k) < 11
        /\ Len(f.start.succ2m) = Len(f.end.succ2m)

\* The float of a root is off by less than one: what comes below a whole number
\* has a root, and what comes up to the next one is not a power itself.
ASSUME RootsAssumption ==
    /\ RootBelow \subseteq (Nat \ {0}) \X (Nat \ {0})
    /\ \A x \in RootAbove : \E r \in 0 .. x[1] :
           Plots!Power(r, x[2]) < x[1] /\ x[1] < Plots!Power(r + 1, x[2])

\* What a line says is in its fields, and the launcher gives every
\* defragmentation an index of its own.
ASSUME LogsAssumption ==
    \A l \in ChunkLogs \cup FailureLogs :
        /\ IsList(l)
        /\ \A k \in DOMAIN l :
               /\ l[k].kind = "header" => l[k] = Logs!Header(l[k].iter)
               /\ l[k].kind = "vma" => l[k] = Logs!VmaLine(l[k].vma)
               /\ l[k].kind = "chunk" => l[k].stats \in Nat
               /\ l[k].kind = "f" => l[k].size \in Nat
               /\ l[k].kind \in {"f", "dst"} =>
                      l[k].pfn = [ds |-> l[k].pfn.ds, rest |-> l[k].pfn.rest]
        /\ \A j, k \in DOMAIN l :
               l[j].kind = "header" /\ l[j] = l[k] => j = k

NoHistogram ==
    /\ hist = EmptyBag /\ total = 0 /\ left = {}
    /\ num_entries = 0 /\ current_coverage = 0
    /\ top = [m \in Tops |-> 0]
    /\ needed = [p \in Percents |-> 0] /\ reached = [p \in Percents |-> 0]
    /\ printed = TRUE

NoLog ==
    /\ script = "none" /\ state = "done"
    /\ log = <<>> /\ lines_read = 0 /\ defrags = <<>> /\ out = <<>>
    /\ at = [iter |-> <<>>, vma |-> <<>>]

NoFolders ==
    /\ folders = {} /\ todo = {} /\ pc = "done"
    /\ benchmarks = <<>> /\ marked_opts = <<>>
    /\ iterations = <<>> /\ frag_cases = <<>>
    /\ runs_dict = <<>> /\ tables = <<>>

ToolsInit == \/ Init /\ NoLog /\ NoFolders
             \/ Logs!Init /\ NoHistogram /\ NoFolders
             \/ Plots!Init /\ NoHistogram /\ NoLog

ReportRanges == Next /\ UNCHANGED <<logVars, tablesVars>>
ReadLog      == Logs!Next /\ UNCHANGED <<vars, tablesVars>>
ReadFolders  == Plots!Next /\ UNCHANGED <<vars, logVars>>

ToolsNext == ReportRanges \/ ReadLog \/ ReadFolders

ToolsSpec == ToolsInit /\ [][ToolsNext]_<<vars, logVars, tablesVars>>
-----------------------------------------------------------------------------
AccountsAgree           == Logs!AccountsAgree
FailuresAreCounted      == Logs!FailuresAreCounted
LargestIsChosen         == Plots!LargestIsChosen
CountersUnderTheirNames == Plots!CountersUnderTheirNames
CasesAreOfOneKind       == Plots!CasesAreOfOneKind
EveryRunCounts          == Plots!EveryRunCounts
MedianTime              == Plots!MedianTime
=============================================================================
