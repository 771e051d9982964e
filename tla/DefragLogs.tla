------------------------------ MODULE DefragLogs ------------------------------
(***************************************************************************)
(* The two parsers of defrag_online_stats_<n>, the log that simple_run     *)
(* writes: for every defragmentation its index and what the kernel said,   *)
(* and a line of dashes if it did not fail.  run.sh runs                   *)
(* parse_defrag_results.py when the kernel logged a line for each chunk,   *)
(* below the VMA it is in, and parse_defrag_fails.py when it logged each   *)
(* failure and the frame that was in the way.                              *)
(***************************************************************************)
EXTENDS DefragLines, Integers, Sequences, FiniteSets, FiniteSetsExt, SequencesExt

CONSTANTS
    ChunkLogs,      \* the logs of chunks that are considered,
    FailureLogs,    \* and those of failures: sequences of lines
    FailTypes       \* the failures parse_defrag_fails.py knows (lines 49-69)

VARIABLES
    log, n,         \* the log, the number of lines that were read
    script, state,  \* the parser, and whether it is reading, done or dead
    defrags,        \* what it collects, by iteration
    at,             \* the iteration and the VMA its references point to
    out             \* the totals of parse_defrag_fails.py, by iteration

vars == <<log, n, script, state, defrags, at, out>>

None == <<>>

Init ==
    /\ \/ script = "results" /\ log \in ChunkLogs
       \/ script = "fails" /\ log \in FailureLogs
    /\ n = 0 /\ state = "reading"
    /\ defrags = None
    /\ at = [iter |-> None, vma |-> None]
    /\ out = None

line == log[n + 1]

\* The script goes on with the next line that is of one of its kinds.
Reads(s, kind) ==
    /\ script = s /\ state = "reading"
    /\ n < Len(log) /\ line.kind = kind
    /\ n' = n + 1
    /\ UNCHANGED <<log, script, out>>

With(f, x, v) == [y \in DOMAIN f \cup {x} |-> IF y = x THEN v ELSE f[y]]

\* The line of dashes: no more than that the defragmentation did not fail.
Ignore(s) == Reads(s, "dashes") /\ UNCHANGED <<state, defrags, at>>

Dies == state' = "error" /\ UNCHANGED <<defrags, at>>
-----------------------------------------------------------------------------
(* parse_defrag_results.py                                                 *)

\* A header with the number of an iteration; stats_per_vma keeps pointing to
\* the last VMA of the iteration before.
NewIteration ==
    /\ Reads("results", "header")
    /\ defrags' = With(defrags, line.iter, [total |-> 0, vmas |-> None])
    /\ at' = [at EXCEPT !.iter = <<line.iter>>]
    /\ UNCHANGED state

\* A VMA starts from zero, also one that was there before.
NewVma ==
    /\ Reads("results", "vma")
    /\ IF at.iter = None THEN Dies
       ELSE LET i == at.iter[1]
            IN  /\ defrags' = [defrags EXCEPT ![i].vmas = With(@, line.vma, 0)]
                /\ at' = [at EXCEPT !.vma = <<i, line.vma>>]
                /\ UNCHANGED state

\* Mutant: the totals are those of the iteration of the VMA.
AddChunkToVma ==
    /\ Reads("results", "chunk")
    /\ IF at.vma = None THEN Dies
       ELSE /\ defrags' = [defrags EXCEPT
                              ![at.vma[1]].vmas[at.vma[2]] = @ + line.stats,
                              ![at.vma[1]].total = @ + line.stats]
            /\ UNCHANGED <<state, at>>

\* A chunk counts for the VMA and for the iteration that are pointed to.
AddChunk ==
    /\ Reads("results", "chunk")
    /\ IF at.vma = None THEN Dies
       ELSE /\ defrags' = [defrags EXCEPT
                              ![at.vma[1]].vmas[at.vma[2]] = @ + line.stats,
                              ![at.iter[1]].total = @ + line.stats]
            /\ UNCHANGED <<state, at>>

\* The expression does not match the line: the first match is an IndexError.
TornChunk == Reads("results", "torn") /\ Dies

Results == NewIteration \/ NewVma \/ AddChunk \/ TornChunk \/ Ignore("results")
-----------------------------------------------------------------------------
(* parse_defrag_fails.py                                                   *)

NewFails ==
    /\ Reads("fails", "header")
    /\ defrags' = With(defrags, line.iter, [fails |-> <<>>, pages |-> None])
    /\ at' = [at EXCEPT !.iter = <<line.iter>>]
    /\ UNCHANGED state

AddFailure ==
    /\ Reads("fails", "f")
    /\ IF at.iter = None THEN Dies
       ELSE /\ defrags' = [defrags EXCEPT ![at.iter[1]].fails = Append(@, line)]
            /\ UNCHANGED <<state, at>>

\* strip('dst:: ') takes more than the mark: leading digits d go with it.
Stripped(pfn) == [pfn EXCEPT !.ds = 0]

\* The types of the page; a later line about the same frame replaces them.
AddPage ==
    /\ Reads("fails", "dst")
    /\ IF at.iter = None THEN Dies
       ELSE /\ defrags' = [defrags EXCEPT ![at.iter[1]].pages =
                              With(@, Stripped(line.pfn), line.types)]
            /\ UNCHANGED <<state, at>>

Fails == NewFails \/ AddFailure \/ AddPage \/ Ignore("fails")

Types(d, f) ==
    IF f.pfn \in DOMAIN d.pages /\ d.pages[f.pfn] # {} THEN d.pages[f.pfn]
                                                      ELSE {"occupied/other"}

\* The sizes of the failures that pass a test.
SizeOf(fs, Test(_)) ==
    FoldLeft(LAMBDA sum, f : IF Test(f) THEN sum + f.size ELSE sum, 0, fs)

PageTypes == {"occupied/other", "reserved", "slab", "buddy", "balloon", "kmemcg",
              "table", "ca_pcp", "ca_res"}

\* Mutant: a failure counts for one type of its page only.
TotalsOfFirstType(d) ==
    [types |-> [t \in FailTypes |-> SizeOf(d.fails, LAMBDA f : f.type = t)],
     pages |-> [t \in PageTypes |->
                   SizeOf(d.fails, LAMBDA f :
                       t = CHOOSE u \in Types(d, f) : TRUE)]]

Totals(d) ==
    [types |-> [t \in FailTypes |-> SizeOf(d.fails, LAMBDA f : f.type = t)],
     pages |-> [t \in PageTypes |-> SizeOf(d.fails, LAMBDA f : t \in Types(d, f))]]
-----------------------------------------------------------------------------
Unknown(i) == \E k \in DOMAIN defrags[i].fails :
                  defrags[i].fails[k].type \notin FailTypes

\* The totals of each iteration, up to the first with an unknown failure: it
\* is a KeyError.  The other parser prints what it has collected.
Finish ==
    /\ state = "reading" /\ n = Len(log)
    /\ IF script = "results" THEN state' = "done" /\ UNCHANGED out
       ELSE LET bad == {i \in DOMAIN defrags : Unknown(i)}
            IN  /\ state' = IF bad = {} THEN "done" ELSE "error"
                /\ out' = [i \in {j \in DOMAIN defrags : \A b \in bad : j < b} |->
                               Totals(defrags[i])]
    /\ UNCHANGED <<log, n, script, defrags, at>>

Next == Results \/ Fails \/ Finish

Spec == Init /\ [][Next]_vars
-----------------------------------------------------------------------------
\* The lines of an iteration that were read.
Lines(i) == {k \in 1 .. n : log[k].kind # "header" /\
                \E h \in 1 .. k - 1 :
                    /\ log[h] = Header(i)
                    /\ \A j \in h + 1 .. k : log[j].kind # "header"}
Of(i, kind) == {k \in Lines(i) : log[k].kind = kind}

\* The chunks of an iteration are accounted twice, per iteration and per VMA.
\* The accounts agree unless the log, as the kernel may write it when its
\* buffer was full, announces a VMA again or goes on with a chunk of the VMA
\* of the iteration before.
Interrupted(i) ==
    \/ \E j, k \in Of(i, "vma") : j < k /\ log[k] = log[j]
    \/ \E k \in Of(i, "chunk") : \A j \in Of(i, "vma") : j > k
AccountsAgree ==
    script = "results" /\ state # "error" =>
        /\ \A i \in DOMAIN defrags :
               defrags[i].total = MapThenSumSet(LAMBDA k : log[k].stats, Of(i, "chunk"))
        /\ (\A i \in DOMAIN defrags : ~Interrupted(i)) =>
               \A i \in DOMAIN defrags :
                   LET vmas == defrags[i].vmas
                   IN  defrags[i].total = MapThenSumSet(LAMBDA v : vmas[v], DOMAIN vmas)

\* Every failure counts once under its own type, and under every type of the
\* frame in the way, whatever the order of the lines.  What is said of a
\* frame is what its last line says, unless a number starts with a d: the
\* parser takes it for a part of "dst::".
PagesSaid(i, pfn) ==
    LET about == {k \in Of(i, "dst") : log[k].pfn = pfn}
    IN  IF about = {} \/ log[Max(about)].types = {} THEN {"occupied/other"}
                                                    ELSE log[Max(about)].types
FailuresAreCounted ==
    \A i \in DOMAIN out :
        LET fs == Of(i, "f")
            Size(Test(_)) == MapThenSumSet(LAMBDA k : log[k].size, {k \in fs : Test(k)})
        IN  /\ \A t \in FailTypes : out[i].types[t] = Size(LAMBDA k : log[k].type = t)
            /\ (\A k \in fs \cup Of(i, "dst") : log[k].pfn.ds = 0) =>
                   \A t \in PageTypes :
                       out[i].pages[t] = Size(LAMBDA k : t \in PagesSaid(i, log[k].pfn))
=============================================================================
