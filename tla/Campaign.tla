------------------------------- MODULE Campaign -------------------------------
(***************************************************************************)
(* One experiment: run.sh, which for every value of FAILED_ALLOCS_AFTER    *)
(* starts the fragmenter (memfrag.c), runs the benchmark under the         *)
(* launcher, stops the fragmenter, prints the statistics of the pagemap    *)
(* files (get_stats.sh) and moves them to a folder of results.             *)
(*                                                                         *)
(* The fragmenter tells the script that memory is fragmented with SIGUSR2; *)
(* the script tells it to end with SIGUSR1.  bash runs a trap between two  *)
(* commands.  Of the launcher only the files it leaves are modelled: see   *)
(* SimpleRun for the rest.                                                 *)
(***************************************************************************)
EXTENDS Integers, FiniteSets

CONSTANTS
    Rounds,         \* the number of values of FAILED_ALLOCS_AFTER
    Snapshots,      \* a bound on the snapshots of one benchmark
    Levels,         \* the values of vm.defrag_buf_log_level considered
    Leftovers,      \* the indices of files an interrupted run may have left
    Faults          \* "memfrag": the fragmenter may fail

VARIABLES
    conf,               \* the arguments and sysctls: memfrag, perf, level
    pc, round,
    FRAG_UNFIN,         \* true until the trap of SIGUSR2 has run
    usr2,               \* SIGUSR2 is pending for the script
    memfrag,            \* the fragmenter of each round
    FRAG_PID,           \* the round of the fragmenter it names, 0 if none
    dummy_perf,
    files,              \* pagemap_<pid>_<index>_<stage>.out in the directory
    written,            \* the number of snapshots of this benchmark
    PID, ITER,          \* get_stats.sh
    stats,              \* the files whose statistics are printed, by round
    results             \* the pagemaps in the folder of each round

script == <<conf, pc, round>>
frag   == <<FRAG_UNFIN, usr2, memfrag, FRAG_PID>>
stat   == <<PID, ITER, stats>>

vars == <<script, frag, dummy_perf, files, written, stat, results>>

Round == 1 .. Rounds
Index == 0 .. Snapshots - 1
\* The pid of a benchmark is named by its round; 0 is a pid of an earlier run.
File == [pid : 0 .. Rounds, index : Index, stage : {"pre", "post"}]
\* A PID that is empty, or the lines of more than one pid.
NoPID == -1

ASSUME RoundAssumption == Rounds \in Nat \ {0} /\ Snapshots \in Nat
ASSUME LeftoverAssumption == Leftovers \subseteq Index

PreFile(p, i)  == [pid |-> p, index |-> i, stage |-> "pre"]
PostFile(p, i) == [pid |-> p, index |-> i, stage |-> "post"]

\* What another run has left, in the directory or in the folders of results.
OldFiles(indices) == {PreFile(0, i) : i \in indices}

Init ==
    /\ conf \in [memfrag : BOOLEAN, perf : BOOLEAN, level : Levels]
    /\ pc = "next" /\ round = 0
    /\ FRAG_UNFIN = TRUE /\ usr2 = FALSE
    /\ memfrag = [r \in Round |-> "none"] /\ FRAG_PID = 0
    /\ dummy_perf = IF conf.perf THEN "running" ELSE "none"
    /\ \E left \in SUBSET Leftovers : files = OldFiles(left)
    /\ written = 0
    /\ PID = NoPID /\ ITER = 0
    /\ stats = [r \in Round |-> {}]
    /\ \E old \in {{}, Leftovers} : results = [r \in Round |-> OldFiles(old)]
-----------------------------------------------------------------------------
(* The fragmenter                                                          *)

\* The memory is allocated, and freed down to free_frag_percentage:
\* SIGUSR2 to the parent, then pause().
MemfragDone(r) ==
    /\ memfrag[r] = "working"
    /\ memfrag' = [memfrag EXCEPT ![r] = "paused"]
    /\ usr2' = TRUE
    /\ UNCHANGED <<script, FRAG_UNFIN, FRAG_PID, dummy_perf, files, written,
                   stat, results>>

\* A wrong argument, or an error of madvise or sigaction.
MemfragFails(r) ==
    /\ "memfrag" \in Faults
    /\ memfrag[r] = "working"
    /\ memfrag' = [memfrag EXCEPT ![r] = "gone"]
    /\ UNCHANGED <<script, FRAG_UNFIN, usr2, FRAG_PID, dummy_perf, files,
                   written, stat, results>>

\* usr_handler: a signal that was sent ends the fragmenter, some time later.
MemfragExits(r) ==
    /\ memfrag[r] = "signalled"
    /\ memfrag' = [memfrag EXCEPT ![r] = "gone"]
    /\ UNCHANGED <<script, FRAG_UNFIN, usr2, FRAG_PID, dummy_perf, files,
                   written, stat, results>>

Memfrag(r) == MemfragDone(r) \/ MemfragFails(r) \/ MemfragExits(r)
-----------------------------------------------------------------------------
(* run.sh                                                                  *)

\* Mutant: the signal is ignored.
TrapIgnored ==
    /\ usr2 /\ pc # "bench"
    /\ usr2' = FALSE
    /\ UNCHANGED <<script, FRAG_UNFIN, memfrag, FRAG_PID, dummy_perf, files,
                   written, stat, results>>

\* trap "FRAG_UNFIN=false" SIGUSR2; not while a foreground command runs.
Trap ==
    /\ usr2 /\ pc # "bench"
    /\ usr2' = FALSE /\ FRAG_UNFIN' = FALSE
    /\ UNCHANGED <<script, memfrag, FRAG_PID, dummy_perf, files, written, stat,
                   results>>

\* for FAILS in $FAILED_ALLOCS_AFTER; memfrag is started if it is wanted.
NextRound ==
    /\ pc = "next" /\ round < Rounds
    /\ round' = round + 1
    /\ IF conf.memfrag
       THEN /\ memfrag' = [memfrag EXCEPT ![round'] = "working"]
            /\ FRAG_PID' = round'
            /\ pc' = "fragment"
       ELSE /\ pc' = "clean"
            /\ UNCHANGED <<memfrag, FRAG_PID>>
    /\ UNCHANGED <<conf, FRAG_UNFIN, usr2, dummy_perf, files, written, stat,
                   results>>

Finish ==
    /\ pc = "next" /\ round = Rounds
    /\ pc' = "end"
    /\ UNCHANGED <<conf, round, frag, dummy_perf, files, written, stat, results>>

\* Mutant: the script does not wait for SIGUSR2.
FragmentedAtOnce ==
    /\ pc = "fragment"
    /\ pc' = "clean"
    /\ UNCHANGED <<conf, round, frag, dummy_perf, files, written, stat, results>>

\* while $FRAG_UNFIN; do : ; done
Fragmented ==
    /\ pc = "fragment" /\ ~FRAG_UNFIN
    /\ pc' = "clean"
    /\ UNCHANGED <<conf, round, frag, dummy_perf, files, written, stat, results>>

\* Mutant: clean.sh is not called.
CleanNothing ==
    /\ pc = "clean"
    /\ written' = 0
    /\ pc' = "bench"
    /\ UNCHANGED <<conf, round, frag, dummy_perf, files, stat, results>>

\* clean.sh, then the launcher with the benchmark.
Clean ==
    /\ pc = "clean"
    /\ files' = {}
    /\ written' = 0
    /\ pc' = "bench"
    /\ UNCHANGED <<conf, round, frag, dummy_perf, stat, results>>

\* The launcher: the snapshots of the next index, either of which may be
\* missing (the collector failed, no defragmentation for this index).
Snapshot ==
    /\ pc = "bench" /\ written < Snapshots
    /\ \E made \in SUBSET {PreFile(round, written), PostFile(round, written)} :
           files' = files \cup made
    /\ written' = written + 1
    /\ UNCHANGED <<script, frag, dummy_perf, stat, results>>

BenchEnds ==
    /\ pc = "bench"
    /\ pc' = "kill"
    /\ UNCHANGED <<conf, round, frag, dummy_perf, files, written, stat, results>>

Signalled(f, r) ==
    IF r \in Round /\ f[r] \in {"working", "paused"}
    THEN [f EXCEPT ![r] = "signalled"] ELSE f

\* Mutant: the fragmenter is stopped after the last round only.
KillLastOnly ==
    /\ pc = "kill"
    /\ memfrag' = IF round = Rounds THEN Signalled(memfrag, FRAG_PID)
                                    ELSE memfrag
    /\ dummy_perf' = IF conf.perf THEN "gone" ELSE dummy_perf
    /\ pc' = "ls"
    /\ UNCHANGED <<conf, round, FRAG_UNFIN, usr2, FRAG_PID, files, written, stat,
                   results>>

\* kill -USR1 $FRAG_PID; kill -9 $DUMMY_PERF_PID, of which there is one for
\* all rounds.
Kill ==
    /\ pc = "kill"
    /\ memfrag' = IF conf.memfrag THEN Signalled(memfrag, FRAG_PID) ELSE memfrag
    /\ dummy_perf' = IF conf.perf THEN "gone" ELSE dummy_perf
    /\ pc' = "ls"
    /\ UNCHANGED <<conf, round, FRAG_UNFIN, usr2, FRAG_PID, files, written, stat,
                   results>>

\* rm pagemaps/* in the folder of the round, which an earlier experiment may
\* have filled; then its files are moved there, or removed at log level 0.
MoveResults ==
    /\ pc = "move"
    /\ results' = [results EXCEPT ![round] =
                      IF conf.level # 0 THEN files ELSE {}]
    /\ files' = {}
    /\ pc' = "next"
    /\ UNCHANGED <<conf, round, frag, dummy_perf, written, stat>>
-----------------------------------------------------------------------------
(* get_stats.sh                                                            *)

\* ls pagemap_*_0_pre.out, of which the pid is taken.
FirstPids == {p \in 0 .. Rounds : PreFile(p, 0) \in files}

FindPid ==
    /\ pc = "ls"
    /\ PID' = IF Cardinality(FirstPids) = 1 THEN CHOOSE p \in FirstPids : TRUE
                                            ELSE NoPID
    /\ ITER' = 0
    /\ pc' = "stats"
    /\ UNCHANGED <<conf, round, frag, dummy_perf, files, written, stats, results>>

\* Mutant: the loop also ends at a missing post file.
PrintPairs ==
    /\ pc = "stats"
    /\ PreFile(PID, ITER) \in files
    /\ stats' = [stats EXCEPT ![round] =
                    @ \cup ({PreFile(PID, ITER), PostFile(PID, ITER)}
                                \cap files)]
    /\ ITER' = IF PostFile(PID, ITER) \in files THEN ITER + 1 ELSE Snapshots
    /\ UNCHANGED <<script, frag, dummy_perf, files, written, PID, results>>

\* Mutant: a missing pre file does not end the loop.
PrintAlways ==
    /\ pc = "stats"
    /\ stats' = [stats EXCEPT ![round] =
                    @ \cup ({PreFile(PID, ITER), PostFile(PID, ITER)}
                                \cap files)]
    /\ ITER' = ITER + 1
    /\ UNCHANGED <<script, frag, dummy_perf, files, written, PID, results>>

\* An index with its pre file, and its post file if there is one.
PrintIter ==
    /\ pc = "stats"
    /\ PreFile(PID, ITER) \in files
    /\ stats' = [stats EXCEPT ![round] =
                    @ \cup ({PreFile(PID, ITER), PostFile(PID, ITER)}
                                \cap files)]
    /\ ITER' = ITER + 1
    /\ UNCHANGED <<script, frag, dummy_perf, files, written, PID, results>>

\* The loop ends at the first index without a pre file.
StopAtGap ==
    /\ pc = "stats"
    /\ PreFile(PID, ITER) \notin files
    /\ pc' = "move"
    /\ UNCHANGED <<conf, round, frag, dummy_perf, files, written, stat, results>>
-----------------------------------------------------------------------------
Script == \/ NextRound \/ Finish \/ Fragmented \/ Clean \/ Kill \/ MoveResults
          \/ FindPid \/ PrintIter \/ StopAtGap

Next == \/ Script \/ Trap \/ Snapshot \/ BenchEnds
        \/ \E r \in Round : Memfrag(r)

\* bash and the fragmenters go on; a benchmark ends.
Fairness ==
    /\ WF_vars(Script) /\ WF_vars(Trap) /\ WF_vars(BenchEnds)
    /\ \A r \in Round : WF_vars(Memfrag(r))

Spec == Init /\ [][Next]_vars /\ Fairness
-----------------------------------------------------------------------------
TypeOK ==
    /\ conf \in [memfrag : BOOLEAN, perf : BOOLEAN, level : Levels]
    /\ pc \in {"next", "fragment", "clean", "bench", "kill", "ls", "stats",
               "move", "end"}
    /\ round \in 0 .. Rounds
    /\ FRAG_UNFIN \in BOOLEAN /\ usr2 \in BOOLEAN
    /\ memfrag \in [Round -> {"none", "working", "paused", "signalled", "gone"}]
    /\ FRAG_PID \in 0 .. Rounds
    /\ dummy_perf \in {"none", "running", "gone"}
    /\ files \subseteq File
    /\ written \in 0 .. Snapshots
    /\ PID \in {NoPID} \cup 0 .. Rounds /\ ITER \in 0 .. Snapshots
    /\ stats \in [Round -> SUBSET File]
    /\ results \in [Round -> SUBSET File]

\* What run.sh:231 calls cmap_after_frag.out: a benchmark that is to run in
\* fragmented memory starts when its fragmenter has reported.
BenchInFragmentedMemory ==
    (pc = "bench" /\ conf.memfrag) => memfrag[round] = "paused"

\* At least the benchmark of the first round does.
FirstBenchInFragmentedMemory == round = 1 => BenchInFragmentedMemory

\* The statistics and the folder of a round are of the benchmark of that round,
\* whatever an interrupted experiment, an earlier round or an earlier experiment
\* has left in the directory or in that folder.
Moved(r) == r < round \/ (r = round /\ pc \in {"next", "end"})
ResultsAreOfTheirRound ==
    \A r \in Round :
        /\ \A f \in stats[r] : f.pid = r
        /\ Moved(r) => \A f \in results[r] : f.pid = r

\* The snapshots of a round are printed up to the first index whose pre
\* snapshot is missing, also those without a post snapshot, and no others.
Complete(r, f) == \A i \in 0 .. f.index : PreFile(r, i) \in files
PrintedUpToGap ==
    pc = "move" => stats[round] = {f \in files : Complete(round, f)}

\* No fragmenter is left when the script ends that was not told to end, and
\* there is never more than one that was not.
OneFragmenter ==
    LET busy == {r \in Round : memfrag[r] \in {"working", "paused"}}
    IN  /\ Cardinality(busy) <= 1
        /\ (pc \in {"next", "end"} /\ round > 0) =>
               busy = {} /\ dummy_perf # "running"

\* The script ends and no fragmenter is left, unless the fragmenter of the
\* first round has failed: then the script waits for SIGUSR2 for ever.
AllGone == pc = "end" /\ \A r \in Round : memfrag[r] \in {"none", "gone"}
EndsOrWaits ==
    <>(AllGone \/ (pc = "fragment" /\ round = 1 /\ memfrag[1] = "gone"))
=============================================================================
