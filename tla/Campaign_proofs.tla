--------------------------- MODULE Campaign_proofs ---------------------------
(***************************************************************************)
(* Proofs about the experiment of run.sh: every safety property of         *)
(* Campaign, for any number of rounds and snapshots and any leftovers.     *)
(*                                                                         *)
(* The inductive invariant IInv says who owns what: the files are those of *)
(* the current round from clean.sh on, the statistics of later rounds are  *)
(* empty, the fragmenter of the current round is the only one that has not *)
(* been told to end, and SIGUSR2 is sent by it alone.                      *)
(***************************************************************************)
EXTENDS Campaign, FiniteSetTheorems, TLAPS

\* From NextRound on a round is going on.
InRound == pc \in {"fragment", "clean", "bench", "kill", "ls", "stats", "move"}
Counting == /\ InRound => round \in Round
            /\ pc = "end" => round = Rounds

\* clean.sh leaves no file of another benchmark, and the launcher writes the
\* next index only.
OwnFiles ==
    pc \in {"bench", "kill", "ls", "stats", "move"} =>
        \A f \in files : f.pid = round /\ f.index < written

\* What the loop of get_stats.sh has printed; nothing for a later round.
Printed ==
    /\ \A r \in Round : r > round => stats[r] = {}
    /\ pc \in {"fragment", "clean", "bench", "kill", "ls"} => stats[round] = {}
    /\ pc = "stats" =>
         /\ PID = IF PreFile(round, 0) \in files THEN round ELSE NoPID
         /\ \A i \in 0 .. ITER - 1 : PreFile(round, i) \in files
         /\ stats[round] = {f \in files : f.index < ITER}

\* The fragmenters: one that was not told to end is of the current round, and
\* its pid is known.
Fragmenters ==
    /\ \A r \in Round :
         /\ r > round => memfrag[r] = "none"
         /\ memfrag[r] \in {"working", "paused"} =>
              r = round /\ pc \in {"fragment", "clean", "bench", "kill"}
    /\ ~conf.memfrag => \A r \in Round : memfrag[r] = "none"
    /\ conf.memfrag /\ pc \in {"fragment", "clean", "bench", "kill"} =>
         FRAG_PID = round
    /\ pc = "fragment" => conf.memfrag

DummyPerf ==
    /\ dummy_perf = "running" => conf.perf
    /\ round > 0 /\ pc \in {"ls", "stats", "move", "next", "end"} =>
         dummy_perf # "running"

\* In the first round SIGUSR2 is of its fragmenter, which then waits.
FirstSignal ==
    /\ round = 0 => FRAG_UNFIN /\ ~usr2
    /\ round = 1 /\ pc \in {"fragment", "clean", "bench"} =>
         /\ usr2 \/ ~FRAG_UNFIN => memfrag[1] = "paused"
         /\ pc \in {"clean", "bench"} /\ conf.memfrag => ~FRAG_UNFIN

IInv == /\ TypeOK /\ Counting /\ OwnFiles /\ Printed /\ Fragmenters
        /\ DummyPerf /\ FirstSignal /\ ResultsAreOfTheirRound
        /\ PrintedUpToGap
USE RoundAssumption, LeftoverAssumption DEF Round, Index, File, PreFile,
    PostFile, NoPID, InRound, script, frag, stat
-----------------------------------------------------------------------------
(* One lemma per conjunct, with a step for each action that can disturb it *)

LEMMA NotEmpty ==
    ASSUME NEW S, Cardinality(S) = 1
    PROVE  S # {}
  BY FS_EmptySet

\* The types.
LEMMA TypeStep ==
    ASSUME IInv, [Next]_vars
    PROVE  TypeOK'
<1> USE DEF IInv, TypeOK, Counting
<1>1. CASE NextRound
  <2>1. round' \in Round /\ round' \in 0 .. Rounds
    BY <1>1 DEF NextRound
  <2>2. /\ memfrag' \in [Round -> {"none", "working", "paused", "signalled",
                                   "gone"}]
        /\ FRAG_PID' \in 0 .. Rounds
    BY <1>1, <2>1 DEF NextRound
  <2>3. pc' \in {"fragment", "clean"}
    BY <1>1 DEF NextRound
  <2>4. UNCHANGED <<conf, FRAG_UNFIN, usr2, dummy_perf, files, written, PID,
                    ITER, stats, results>>
    BY <1>1 DEF NextRound
  <2> QED
    BY <2>1, <2>2, <2>3, <2>4
<1>2. CASE Snapshot
  BY <1>2 DEF Snapshot
<1>3. CASE Kill
  BY <1>3 DEF Kill, Signalled
<1>4. CASE MoveResults
  BY <1>4 DEF MoveResults
<1>5. CASE FindPid
  <2>1. PID' \in {NoPID} \cup 0 .. Rounds
    <3>1. CASE Cardinality(FirstPids) = 1
      <4>1. FirstPids # {}
        BY <3>1, NotEmpty
      <4>2. PID' \in FirstPids
        BY <1>5, <3>1, <4>1 DEF FindPid
      <4> QED
        BY <4>2 DEF FirstPids
    <3>2. CASE Cardinality(FirstPids) # 1
      BY <1>5, <3>2 DEF FindPid
    <3> QED
      BY <3>1, <3>2
  <2> QED
    BY <1>5, <2>1 DEF FindPid
<1>6. CASE PrintIter
  <2>1. ITER \in Index /\ round \in Round
    BY <1>6 DEF PrintIter
  <2>2. {PreFile(PID, ITER), PostFile(PID, ITER)} \cap files \subseteq File
    OBVIOUS
  <2> QED
    BY <1>6, <2>1, <2>2 DEF PrintIter
<1>7. ASSUME NEW r \in Round, Memfrag(r)
      PROVE  TypeOK'
  BY <1>7 DEF Memfrag, MemfragDone, MemfragFails, MemfragExits
<1>8. CASE Trap
  BY <1>8 DEF Trap
<1>9. CASE Clean
  BY <1>9 DEF Clean
<1>10. CASE Finish \/ Fragmented \/ BenchEnds \/ StopAtGap
  <2>1. /\ pc' \in {"end", "clean", "kill", "move"}
        /\ UNCHANGED <<conf, round, frag, dummy_perf, files, written, stat,
                       results>>
    BY <1>10 DEF Finish, Fragmented, BenchEnds, StopAtGap
  <2> QED
    BY <2>1
<1>11. CASE UNCHANGED vars
  BY <1>11 DEF vars
<1> QED
  BY <1>1, <1>2, <1>3, <1>4, <1>5, <1>6, <1>7, <1>8, <1>9, <1>10, <1>11
     DEF Next, Script

\* The rounds follow the script.
LEMMA CountStep ==
    ASSUME IInv, [Next]_vars
    PROVE  Counting'
<1> USE DEF IInv, TypeOK, Counting
<1>1. CASE NextRound
  BY <1>1 DEF NextRound
<1>2. ASSUME NEW r \in Round, Memfrag(r)
      PROVE  Counting'
  BY <1>2 DEF Memfrag, MemfragDone, MemfragFails, MemfragExits
<1>3. CASE Finish \/ Fragmented \/ Clean \/ Kill \/ MoveResults \/ FindPid
           \/ PrintIter \/ StopAtGap \/ Trap \/ Snapshot \/ BenchEnds
           \/ UNCHANGED vars
  BY <1>3 DEF Finish, Fragmented, Clean, Kill, MoveResults, FindPid,
         PrintIter, StopAtGap, Trap, Snapshot, BenchEnds, vars
<1> QED
  BY <1>1, <1>2, <1>3 DEF Next, Script

\* clean.sh empties the directory, and the launcher writes for this round.
LEMMA OwnStep ==
    ASSUME IInv, [Next]_vars
    PROVE  OwnFiles'
<1> USE DEF IInv, TypeOK, Counting, OwnFiles
<1>1. CASE Clean
  BY <1>1 DEF Clean
<1>2. CASE Snapshot
  BY <1>2 DEF Snapshot
<1>3. ASSUME NEW r \in Round, Memfrag(r)
      PROVE  OwnFiles'
  BY <1>3 DEF Memfrag, MemfragDone, MemfragFails, MemfragExits
<1>4. CASE NextRound \/ Finish \/ Fragmented \/ Kill \/ MoveResults
           \/ FindPid \/ PrintIter \/ StopAtGap \/ Trap \/ BenchEnds
           \/ UNCHANGED vars
  BY <1>4 DEF NextRound, Finish, Fragmented, Kill, MoveResults, FindPid,
         PrintIter, StopAtGap, Trap, BenchEnds, vars
<1> QED
  BY <1>1, <1>2, <1>3, <1>4 DEF Next, Script

\* get_stats.sh takes the pid of the only benchmark that left a file for
\* index 0, or none.
LEMMA FoundPid ==
    ASSUME IInv, FindPid
    PROVE  PID' = IF PreFile(round, 0) \in files THEN round ELSE NoPID
<1> USE DEF IInv, TypeOK, Counting, OwnFiles
<1>1. \A p \in FirstPids : p = round
  BY DEF FindPid, FirstPids
<1>2. CASE PreFile(round, 0) \in files
  <2>1. FirstPids = {round}
    BY <1>1, <1>2 DEF FindPid, FirstPids
  <2>2. Cardinality(FirstPids) = 1
    BY <2>1, FS_Singleton
  <2> QED
    BY <1>2, <2>1, <2>2 DEF FindPid
<1>3. CASE PreFile(round, 0) \notin files
  <2>1. FirstPids = {}
    BY <1>1, <1>3 DEF FirstPids
  <2>2. Cardinality(FirstPids) # 1
    BY <2>1, FS_EmptySet
  <2> QED
    BY <1>3, <2>2 DEF FindPid
<1> QED
  BY <1>2, <1>3

\* An index more is printed.
LEMMA PrintedMore ==
    ASSUME IInv, PrintIter
    PROVE  /\ PID = round
           /\ stats'[round] = {f \in files : f.index < ITER + 1}
<1> USE DEF IInv, TypeOK, Counting, OwnFiles, Printed
<1>1. pc = "stats" /\ round \in Round /\ PreFile(PID, ITER) \in files
  BY DEF PrintIter
<1>2. PID = round
  BY <1>1
<1>3. {f \in files : f.index < ITER + 1}
        = {f \in files : f.index < ITER}
            \cup ({PreFile(PID, ITER), PostFile(PID, ITER)} \cap files)
  <2> SUFFICES ASSUME NEW f \in files
               PROVE  f.index < ITER + 1
                        <=> \/ f.index < ITER
                            \/ f \in {PreFile(PID, ITER), PostFile(PID, ITER)}
    OBVIOUS
  <2>1. f \in File /\ f.pid = round /\ f.index \in Int
    BY <1>1
  <2>2. f.index = ITER <=> f \in {PreFile(PID, ITER), PostFile(PID, ITER)}
    BY <1>2, <2>1
  <2> QED
    BY <2>1, <2>2
<1> QED
  BY <1>1, <1>2, <1>3 DEF PrintIter

\* The loop of get_stats.sh.
LEMMA PrintStep ==
    ASSUME IInv, [Next]_vars
    PROVE  Printed'
<1> USE DEF IInv, TypeOK, Counting, Printed
<1>1. CASE NextRound
  BY <1>1 DEF NextRound
<1>2. CASE FindPid
  <2>1. PID' = IF PreFile(round, 0) \in files THEN round ELSE NoPID
    BY <1>2, FoundPid
  <2>2. {f \in files : f.index < 0} = {}
    OBVIOUS
  <2>3. /\ pc = "ls" /\ pc' = "stats" /\ ITER' = 0
        /\ UNCHANGED <<round, files, stats>>
    BY <1>2 DEF FindPid
  <2> QED
    BY <2>1, <2>2, <2>3
<1>3. CASE PrintIter
  <2>1. /\ PID = round /\ PreFile(round, ITER) \in files
        /\ stats'[round] = {f \in files : f.index < ITER + 1}
    BY <1>3, PrintedMore DEF PrintIter
  <2>2. \A r \in Round : r # round => stats'[r] = stats[r]
    BY <1>3 DEF PrintIter
  <2>3. \A n \in 0 .. ITER' - 1 : n = ITER \/ n \in 0 .. ITER - 1
    BY <1>3 DEF PrintIter
  <2> QED
    BY <1>3, <2>1, <2>2, <2>3 DEF PrintIter
<1>4. ASSUME NEW r \in Round, Memfrag(r)
      PROVE  Printed'
  BY <1>4 DEF Memfrag, MemfragDone, MemfragFails, MemfragExits
<1>5. CASE Finish \/ Fragmented \/ Clean \/ Kill \/ MoveResults \/ StopAtGap
           \/ Trap \/ Snapshot \/ BenchEnds \/ UNCHANGED vars
  BY <1>5 DEF Finish, Fragmented, Clean, Kill, MoveResults, StopAtGap, Trap,
         Snapshot, BenchEnds, vars
<1> QED
  BY <1>1, <1>2, <1>3, <1>4, <1>5 DEF Next, Script

\* A round has one fragmenter, which Kill tells to end.
LEMMA FragmenterStep ==
    ASSUME IInv, [Next]_vars
    PROVE  Fragmenters'
<1> USE DEF IInv, TypeOK, Counting, Fragmenters
<1>1. CASE NextRound
  BY <1>1 DEF NextRound
<1>2. CASE Kill
  BY <1>2 DEF Kill, Signalled
<1>3. ASSUME NEW r \in Round, Memfrag(r)
      PROVE  Fragmenters'
  BY <1>3 DEF Memfrag, MemfragDone, MemfragFails, MemfragExits
<1>4. CASE Finish \/ Fragmented \/ Clean \/ MoveResults \/ FindPid
           \/ PrintIter \/ StopAtGap \/ Trap \/ Snapshot \/ BenchEnds
           \/ UNCHANGED vars
  BY <1>4 DEF Finish, Fragmented, Clean, MoveResults, FindPid, PrintIter,
         StopAtGap, Trap, Snapshot, BenchEnds, vars
<1> QED
  BY <1>1, <1>2, <1>3, <1>4 DEF Next, Script

\* The one dummy_perf ends with the first round.
LEMMA DummyStep ==
    ASSUME IInv, [Next]_vars
    PROVE  DummyPerf'
<1> USE DEF IInv, TypeOK, Counting, DummyPerf
<1>1. CASE NextRound
  BY <1>1 DEF NextRound
<1>2. CASE Kill
  BY <1>2 DEF Kill
<1>3. ASSUME NEW r \in Round, Memfrag(r)
      PROVE  DummyPerf'
  BY <1>3 DEF Memfrag, MemfragDone, MemfragFails, MemfragExits
<1>4. CASE Finish \/ Fragmented \/ Clean \/ MoveResults \/ FindPid
           \/ PrintIter \/ StopAtGap \/ Trap \/ Snapshot \/ BenchEnds
           \/ UNCHANGED vars
  BY <1>4 DEF Finish, Fragmented, Clean, MoveResults, FindPid, PrintIter,
         StopAtGap, Trap, Snapshot, BenchEnds, vars
<1> QED
  BY <1>1, <1>2, <1>3, <1>4 DEF Next, Script

\* In the first round only its own fragmenter can have sent SIGUSR2.
LEMMA SignalStep ==
    ASSUME IInv, [Next]_vars
    PROVE  FirstSignal'
<1> USE DEF IInv, TypeOK, Counting, Fragmenters, FirstSignal
<1>1. CASE NextRound
  BY <1>1 DEF NextRound
<1>2. ASSUME NEW r \in Round, Memfrag(r)
      PROVE  FirstSignal'
  BY <1>2 DEF Memfrag, MemfragDone, MemfragFails, MemfragExits
<1>3. CASE Trap
  BY <1>3 DEF Trap
<1>4. CASE Fragmented
  BY <1>4 DEF Fragmented
<1>5. CASE Finish \/ Clean \/ Kill \/ MoveResults \/ FindPid \/ PrintIter
           \/ StopAtGap \/ Snapshot \/ BenchEnds \/ UNCHANGED vars
  BY <1>5 DEF Finish, Clean, Kill, MoveResults, FindPid, PrintIter,
         StopAtGap, Snapshot, BenchEnds, vars
<1> QED
  BY <1>1, <1>2, <1>3, <1>4, <1>5 DEF Next, Script

\* What is printed or moved are files of the round.
LEMMA ResultsStep ==
    ASSUME IInv, [Next]_vars
    PROVE  ResultsAreOfTheirRound'
<1> SUFFICES ASSUME NEW q \in Round
             PROVE  /\ \A f \in stats'[q] : f.pid = q
                    /\ Moved(q)' => \A f \in results'[q] : f.pid = q
  BY DEF ResultsAreOfTheirRound
<1>0. /\ \A f \in stats[q] : f.pid = q
      /\ Moved(q) => \A f \in results[q] : f.pid = q
  BY DEF IInv, ResultsAreOfTheirRound
<1> USE DEF IInv, TypeOK, Counting
<1>1. CASE PrintIter
  <2>1. /\ stats' = [stats EXCEPT ![round] =
                        @ \cup ({PreFile(PID, ITER), PostFile(PID, ITER)}
                                    \cap files)]
        /\ UNCHANGED <<pc, round, results>> /\ pc = "stats"
    BY <1>1 DEF PrintIter
  <2>2. \A f \in files : f.pid = round
    BY <2>1 DEF OwnFiles
  <2>3. \A f \in stats'[q] : f.pid = q
    BY <1>0, <2>1, <2>2
  <2> QED
    BY <1>0, <2>1, <2>3 DEF Moved
<1>2. CASE MoveResults
  <2>1. /\ results' = [results EXCEPT ![round] =
                          IF conf.level # 0 THEN files ELSE {}]
        /\ UNCHANGED <<round, stats>> /\ pc = "move" /\ round \in 0 .. Rounds
    BY <1>2 DEF MoveResults
  <2>2. \A f \in files : f.pid = round
    BY <2>1 DEF OwnFiles
  <2>3. CASE q = round
    <3>1. results'[q] \subseteq files
      BY <2>1, <2>3
    <3> QED
      BY <1>0, <2>1, <2>2, <2>3, <3>1
  <2>4. CASE q # round
    <3>1. results'[q] = results[q]
      BY <2>1, <2>4
    <3>2. Moved(q)' => Moved(q)
      BY <2>1, <2>4 DEF Moved
    <3> QED
      BY <1>0, <2>1, <3>1, <3>2
  <2> QED
    BY <2>3, <2>4
<1>3. ASSUME NEW r \in Round, Memfrag(r)
      PROVE  UNCHANGED <<pc, round, stats, results>>
  BY <1>3 DEF Memfrag, MemfragDone, MemfragFails, MemfragExits
<1>4. CASE NextRound
  <2>1. /\ pc = "next" /\ round \in 0 .. Rounds /\ round' = round + 1
        /\ UNCHANGED <<stats, results>>
    BY <1>4 DEF NextRound
  <2>2. pc' \notin {"next", "end"}
    BY <1>4 DEF NextRound
  <2>3. Moved(q)' => Moved(q)
    BY <2>1, <2>2 DEF Moved
  <2> QED
    BY <1>0, <2>1, <2>3
<1>5. CASE Finish \/ Fragmented \/ Clean \/ Kill \/ FindPid \/ StopAtGap
           \/ Trap \/ Snapshot \/ BenchEnds \/ UNCHANGED vars
  <2>1. UNCHANGED <<round, stats, results>>
    BY <1>5 DEF Finish, Fragmented, Clean, Kill, FindPid, StopAtGap, Trap,
           Snapshot, BenchEnds, vars
  <2>2. pc' \in {"next", "end"} => pc \in {"next", "end"}
    BY <1>5 DEF Finish, Fragmented, Clean, Kill, FindPid, StopAtGap, Trap,
           Snapshot, BenchEnds, vars
  <2> QED
    BY <1>0, <2>1, <2>2 DEF Moved
<1>6. ASSUME UNCHANGED <<pc, round, stats, results>>
      PROVE  /\ \A f \in stats'[q] : f.pid = q
             /\ Moved(q)' => \A f \in results'[q] : f.pid = q
  BY <1>0, <1>6 DEF Moved
<1> QED
  BY <1>1, <1>2, <1>3, <1>4, <1>5, <1>6 DEF Next, Script

\* The loop stops at the first index without a pre snapshot, and everything
\* in front of it is printed.
LEMMA GapStep ==
    ASSUME IInv, [Next]_vars
    PROVE  PrintedUpToGap'
<1> USE DEF IInv, TypeOK, Counting, OwnFiles, PrintedUpToGap, Complete
<1>1. CASE StopAtGap
  <2>1. /\ pc = "stats" /\ PreFile(PID, ITER) \notin files
        /\ UNCHANGED <<round, files, stats>>
    BY <1>1 DEF StopAtGap
  <2>2. PreFile(round, ITER) \notin files
    BY <2>1 DEF Printed
  <2>3. ASSUME NEW f \in files
        PROVE  f.index < ITER <=> Complete(round, f)
    <3>1. f.index \in Nat
      OBVIOUS
    <3>2. f.index < ITER => Complete(round, f)
      BY <2>1, <3>1 DEF Printed
    <3>3. ITER <= f.index => ~Complete(round, f)
      BY <2>2, <3>1
    <3> QED
      BY <3>1, <3>2, <3>3
  <2>4. stats[round] = {f \in files : f.index < ITER}
    BY <2>1 DEF Printed
  <2> QED
    BY <2>1, <2>3, <2>4
<1>2. ASSUME NEW r \in Round, Memfrag(r)
      PROVE  PrintedUpToGap'
  BY <1>2 DEF Memfrag, MemfragDone, MemfragFails, MemfragExits
<1>3. CASE NextRound \/ Finish \/ Fragmented \/ Clean \/ Kill \/ MoveResults
           \/ FindPid \/ PrintIter \/ Trap \/ Snapshot \/ BenchEnds
           \/ UNCHANGED vars
  BY <1>3 DEF NextRound, Finish, Fragmented, Clean, Kill, MoveResults,
         FindPid, PrintIter, Trap, Snapshot, BenchEnds, vars
<1> QED
  BY <1>1, <1>2, <1>3 DEF Next, Script
-----------------------------------------------------------------------------
(* The theorems                                                            *)

\* IInv is an invariant of the experiment.
THEOREM Inductive == Spec => []IInv
<1>1. Init => IInv
  <2> SUFFICES ASSUME Init PROVE IInv
    OBVIOUS
  <2>1. PICK left \in SUBSET Leftovers : files = {PreFile(0, i) : i \in left}
    BY DEF Init, OldFiles
  <2>d. PICK old \in {{}, Leftovers} :
            results = [r \in Round |-> OldFiles(old)]
    BY DEF Init
  <2>e. OldFiles(old) \subseteq File
    <3>1. old \in SUBSET Leftovers
      BY <2>d
    <3> QED
      BY ONLY <3>1, RoundAssumption, LeftoverAssumption DEF OldFiles
  <2>2. files \subseteq File
    BY <2>1
  <2>3. dummy_perf \in {"none", "running", "gone"}
    BY DEF Init
  <2>a. round = 0 /\ FRAG_PID = 0 /\ written = 0 /\ ITER = 0
    BY DEF Init
  <2>b. 0 \in 0 .. Rounds /\ 0 \in 0 .. Snapshots
    BY RoundAssumption
  <2>c. FRAG_UNFIN \in BOOLEAN /\ usr2 \in BOOLEAN
    BY ZenonT(30) DEF Init
  <2>4. /\ round \in 0 .. Rounds /\ FRAG_PID \in 0 .. Rounds
        /\ written \in 0 .. Snapshots /\ ITER \in 0 .. Snapshots
        /\ FRAG_UNFIN \in BOOLEAN /\ usr2 \in BOOLEAN
    BY <2>a, <2>b, <2>c
  <2>5. /\ memfrag \in [Round -> {"none", "working", "paused", "signalled",
                                  "gone"}]
        /\ stats \in [Round -> SUBSET File]
        /\ results \in [Round -> SUBSET File]
    BY <2>d, <2>e DEF Init
  <2>6. /\ conf \in [memfrag : BOOLEAN, perf : BOOLEAN, level : Levels]
        /\ pc = "next" /\ PID = NoPID
    BY DEF Init
  <2>7. TypeOK
    BY <2>2, <2>3, <2>4, <2>5, <2>6 DEF TypeOK
  <2>8. ResultsAreOfTheirRound
    <3>1. \A r \in Round : stats[r] = {} /\ ~Moved(r)
      BY <2>a DEF Init, Moved
    <3> QED
      BY <3>1 DEF ResultsAreOfTheirRound
  <2> QED
    BY <2>7, <2>8 DEF Init, IInv, Counting, OwnFiles, Printed, Fragmenters,
         DummyPerf, FirstSignal, PrintedUpToGap
<1>2. IInv /\ [Next]_vars => IInv'
  BY TypeStep, CountStep, OwnStep, PrintStep, FragmenterStep, DummyStep,
     SignalStep, ResultsStep, GapStep DEF IInv
<1> QED
  BY <1>1, <1>2, PTL DEF Spec

\* Every variable of run.sh and get_stats.sh keeps its type.
THEOREM TypeCorrect == Spec => []TypeOK
  BY Inductive, PTL DEF IInv

\* Statistics and folders hold files of their own round only, whatever an
\* interrupted experiment, an earlier round or an earlier experiment has left.
THEOREM ResultsStayApart == Spec => []ResultsAreOfTheirRound
  BY Inductive, PTL DEF IInv

\* get_stats.sh prints everything up to the first gap, and nothing behind it.
THEOREM PrintsUpToGap == Spec => []PrintedUpToGap
  BY Inductive, PTL DEF IInv

\* At most one fragmenter was not told to end, and none when a round is over.
THEOREM FragmentersEnd == Spec => []OneFragmenter
<1>1. IInv => OneFragmenter
  <2> SUFFICES ASSUME IInv PROVE OneFragmenter
    OBVIOUS
  <2> DEFINE busy == {r \in Round : memfrag[r] \in {"working", "paused"}}
  <2>1. busy \subseteq {round}
    BY DEF IInv, Fragmenters
  <2>2. busy = {} \/ busy = {round}
    BY <2>1
  <2>3. Cardinality(busy) \in {0, 1}
    BY <2>2, FS_EmptySet, FS_Singleton
  <2>4. pc \in {"next", "end"} => busy = {}
    BY DEF IInv, Fragmenters
  <2> QED
    BY <2>3, <2>4 DEF OneFragmenter, IInv, DummyPerf
<1> QED
  BY Inductive, <1>1, PTL

\* The benchmark of the first round runs in fragmented memory: the script has
\* heard of its fragmenter, which waits.
THEOREM FirstRoundIsFragmented == Spec => []FirstBenchInFragmentedMemory
<1>1. IInv => FirstBenchInFragmentedMemory
  BY DEF IInv, FirstBenchInFragmentedMemory, BenchInFragmentedMemory,
         FirstSignal
<1> QED
  BY Inductive, <1>1, PTL
=============================================================================
