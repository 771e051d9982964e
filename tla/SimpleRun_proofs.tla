-------------------------- MODULE SimpleRun_proofs --------------------------
(***************************************************************************)
(* Proofs about the launcher of SimpleRun: its safety properties, for any  *)
(* set of command lines and any number of collections.                     *)
(*                                                                         *)
(* None of the properties is inductive by itself.  The inductive invariant *)
(* IInv adds what main knows at each pc about its counters and about the   *)
(* snapshot it is working on, how far the fork of the benchmark has come,  *)
(* and that the SIGCHLD of the benchmark is in one place at a time.        *)
(***************************************************************************)
EXTENDS SimpleRun, TLAPS

Early == {"fork", "forked", "perfFork", "perfForked", "setup", "open"}
Body == {"preRun", "preDone", "defrag", "postRun"}

\* Inside the body of the loop loop_count is one ahead of file_index, at its
\* ends they agree; a failed defragmentation leaves them one apart for good.
Counting ==
    /\ pc \in Early => loop_count = 0 /\ file_index = 0
    /\ pc \in {"loop", "period"} => file_index = loop_count
    /\ pc = "loop" => loop_count < MaxIter
    /\ pc \in Body => loop_count = file_index + 1
    /\ loop_count \in {file_index, file_index + 1}

\* child is assigned once, after the fork.
Launching ==
    /\ pc = "fork" => proc["bench"] = "none"
    /\ pc \in {"fork", "forked"} => child = NoPid
    /\ child = ForkFailed => proc["bench"] = "none"

\* The benchmark is reaped before child_quit is set, and child_quit is set
\* before anything that follows from it.
QuitOrder ==
    /\ child_quit => \/ child = "bench" /\ proc["bench"] = "gone"
                     \/ child = ForkFailed
    /\ handler = "report" \/ info_done \/ told # NoPid => child_quit
    /\ handler = "reap" => si_pid # NoPid
    /\ pc = "done" => info_done

\* The post snapshot is taken in an iteration that is due.
PostDue ==
    pc \in {"defrag", "postRun"}
        => opt.syscall /\ opt.factor # 0 /\ loop_count % opt.factor = 0

\* What is known of the pre snapshot of the current iteration.
PreLedger ==
    /\ (pc = "preRun" /\ proc["sh"] = "zombie" /\ ~sh.bad)
        => snap["pre"][file_index] # "none"
    /\ (pc \in {"preDone", "defrag", "postRun"}
           /\ snap["pre"][file_index] = "none")
        => <<"pre", file_index>> \in reported

\* The SIGCHLD of the benchmark is pending or being handled, not both, and
\* only while the benchmark waits to be reaped.
SignalOnce ==
    /\ handler = "idle" => si_pid = NoPid
    /\ sigchld = "bench" \/ (handler = "reap" /\ si_pid = "bench")
         => proc["bench"] = "zombie"
    /\ ~(sigchld = "bench" /\ handler = "reap" /\ si_pid = "bench")

ReportedSoFar == \A i \in Index : <<"pre", i>> \in reported => i < loop_count

HasStub(i) == child = "bench" /\ snap["pre"][i] = "stub"

\* When a pre snapshot found its target dead, the exit either is lost or is
\* noticed before the main program leaves that iteration.
StubLate ==
    \A i \in Index : HasStub(i) =>
        /\ proc["bench"] # "running"
        /\ ~Unheard =>
             /\ i = loop_count - 1
             /\ pc # "loop"
             /\ (pc \in {"preDone", "defrag", "postRun", "period"}
                    /\ handler = "idle") => child_quit

IInv == /\ TypeOK /\ Counting /\ ShellIsSystems /\ Launching /\ QuitOrder
        /\ PostDue /\ Numbering /\ PreLedger /\ MissingPreReported
        /\ SignalOnce /\ ReportedSoFar /\ StubLate

USE OptionsAssumption, MaxIterAssumption DEF OptionRecord
-----------------------------------------------------------------------------
(* One lemma per conjunct.  The actions that can disturb it have a step of *)
(* their own, the others share one.                                        *)

\* What system() does when it spawns the shell keeps the types.
LEMMA SpawnType ==
    ASSUME TypeOK, Spawn
    PROVE  /\ proc' \in [Proc -> {"none", "running", "zombie", "gone"}]
           /\ sh' \in [live : BOOLEAN, bad : BOOLEAN]
<1>1. (proc["bench"] = "running") \in BOOLEAN
  OBVIOUS
<1>2. sh' = [live |-> proc["bench"] = "running", bad |-> FALSE]
  BY DEF Spawn
<1> QED
  BY <1>1, <1>2 DEF Spawn, TypeOK, Proc

\* The types.
LEMMA TypeStep ==
    ASSUME IInv, [Next]_vars
    PROVE  TypeOK'
<1> USE DEF IInv, TypeOK, Counting, Early, Body, PC, Pid, Index, Stage,
            Snapshot, Proc, NoPid, ForkFailed, launchVars, signalVars,
            quitVars, statsVars
<1>1. CASE IgnoreExit
  <2>1. proc' \in [Proc -> {"none", "running", "zombie", "gone"}]
    BY <1>1 DEF IgnoreExit, Reaped
  <2> QED
    BY <1>1, <2>1 DEF IgnoreExit, TakePending
<1>2. CASE NoticeExit
  <2>1. proc' \in [Proc -> {"none", "running", "zombie", "gone"}]
    BY <1>2 DEF NoticeExit, Reaped
  <2> QED
    BY <1>2, <2>1 DEF NoticeExit
<1>3. CASE CollectorExit
  <2>1. PICK bad \in BOOLEAN : \E file \in Outcomes(bad) :
           /\ sh' = [sh EXCEPT !.bad = bad]
           /\ snap' = [snap EXCEPT ![StageRunning][file_index] = file]
    BY <1>3 DEF CollectorExit
  <2>2. PICK file \in Outcomes(bad) :
           /\ sh' = [sh EXCEPT !.bad = bad]
           /\ snap' = [snap EXCEPT ![StageRunning][file_index] = file]
    BY <2>1
  <2>3. file \in Snapshot
    BY <2>2 DEF Outcomes
  <2>4. snap' \in [Stage -> [Index -> Snapshot]]
    BY <2>2, <2>3 DEF StageRunning
  <2>5. sh' \in [live : BOOLEAN, bad : BOOLEAN]
    BY <2>1
  <2> QED
    BY <1>3, <2>4, <2>5 DEF CollectorExit, Raise
<1>4. CASE Exit("bench") \/ Exit("perf")
  BY <1>4 DEF Exit, Raise
<1>5. CASE Report
  BY <1>5 DEF Report, TakePending
<1>6. CASE Setup
  <2>1. dumpstats_signal' \in BOOLEAN
    BY <1>6 DEF Setup
  <2>2. /\ pc' \in PC
        /\ UNCHANGED <<opt, launchVars, proc, signalVars, quitVars, statsVars>>
    BY <1>6 DEF Setup
  <2> QED
    BY <2>1, <2>2
<1>7. CASE OpenStats
  BY <1>7 DEF OpenStats
<1>8. CASE CollectPre
  <2>1. loop_count' \in 0 .. MaxIter
    BY <1>8 DEF CollectPre
  <2>2. Spawn \/ UNCHANGED <<proc, sh>>
    BY <1>8 DEF CollectPre
  <2>3. /\ proc' \in [Proc -> {"none", "running", "zombie", "gone"}]
        /\ sh' \in [live : BOOLEAN, bad : BOOLEAN]
    BY <2>2, SpawnType
  <2>4. reported' \in SUBSET (Stage \X Index)
    BY <1>8 DEF CollectPre, PrintError
  <2>5. pc' \in PC /\ ret' \in BOOLEAN
    BY <1>8 DEF CollectPre
  <2>6. UNCHANGED <<opt, launchVars, signalVars, quitVars, dumpstats_signal,
                    file_index, snap>>
    BY <1>8 DEF CollectPre
  <2> QED
    BY <2>1, <2>3, <2>4, <2>5, <2>6
<1>9. CASE PreReturns
  BY <1>9 DEF PreReturns, SystemReturns, TakePending, PrintError
<1>10. CASE NoDefrag
  BY <1>10 DEF NoDefrag, DefragDue
<1>11. CASE CollectPost
  <2>1. file_index' \in Index
    BY <1>11 DEF CollectPost
  <2>2. Spawn \/ UNCHANGED <<proc, sh>>
    BY <1>11 DEF CollectPost
  <2>3. /\ proc' \in [Proc -> {"none", "running", "zombie", "gone"}]
        /\ sh' \in [live : BOOLEAN, bad : BOOLEAN]
    BY <2>2, SpawnType
  <2>4. reported' \in SUBSET (Stage \X Index)
    BY <1>11 DEF CollectPost, PrintError
  <2> QED
    BY <1>11, <2>1, <2>3, <2>4 DEF CollectPost
<1>12. CASE PostReturns
  BY <1>12 DEF PostReturns, SystemReturns, TakePending, PrintError
<1>13. CASE LoopTest
  BY <1>13 DEF LoopTest
<1>14. CASE toggle_dumpstats_signal
  BY <1>14 DEF toggle_dumpstats_signal, Ended
<1>15. CASE Deliver \/ ForkBench \/ AssignChild \/ ForkBenchFails \/ ForkPerf
           \/ AssignPerf \/ ForkPerfFails \/ AwaitInfo \/ SkipBody
           \/ DivideByZero \/ StartDefrag \/ DefragFails \/
           UNCHANGED vars
  BY <1>15 DEF Deliver, TakePending, Blocked, Ended, ForkBench, AssignChild,
         StoreChild, AfterFork, ForkBenchFails, ForkPerf, AssignPerf,
         StorePerf, ForkPerfFails, AwaitInfo, SkipBody, DivideByZero,
         StartDefrag, DefragDue, DefragFails, vars
<1> QED
  BY <1>1, <1>2, <1>3, <1>4, <1>5, <1>6, <1>7, <1>8, <1>9, <1>10, <1>11,
         <1>12, <1>13, <1>14, <1>15 DEF Next, Main, Launch, ReadStats,
         Handler

\* The counters follow the loop.
LEMMA CountStep ==
    ASSUME IInv, [Next]_vars
    PROVE  Counting'
<1> USE DEF IInv, TypeOK, Counting, Early, Body, Index, Stage, Snapshot,
            Proc, NoPid, ForkFailed, launchVars, signalVars, quitVars,
            statsVars
<1>1. CASE AwaitInfo
  BY <1>1 DEF AwaitInfo
<1>2. CASE Setup
  BY <1>2 DEF Setup
<1>3. CASE OpenStats
  BY <1>3 DEF OpenStats
<1>4. CASE CollectPre
  BY <1>4 DEF CollectPre, Spawn, PrintError
<1>5. CASE SkipBody
  BY <1>5 DEF SkipBody
<1>6. CASE PreReturns
  BY <1>6 DEF PreReturns, SystemReturns, TakePending, PrintError
<1>7. CASE DivideByZero
  BY <1>7 DEF DivideByZero
<1>8. CASE StartDefrag
  BY <1>8 DEF StartDefrag, DefragDue
<1>9. CASE NoDefrag
  BY <1>9 DEF NoDefrag, DefragDue
<1>10. CASE DefragFails
  BY <1>10 DEF DefragFails
<1>11. CASE CollectPost
  BY <1>11 DEF CollectPost, Spawn, PrintError
<1>12. CASE PostReturns
  BY <1>12 DEF PostReturns, SystemReturns, TakePending, PrintError
<1>13. CASE LoopTest
  BY <1>13 DEF LoopTest
<1>14. CASE Deliver \/ IgnoreExit \/ NoticeExit \/ Report \/
           toggle_dumpstats_signal \/ CollectorExit \/
           Exit("bench") \/ Exit("perf") \/ ForkBench \/
           AssignChild \/ ForkBenchFails \/ ForkPerf \/ AssignPerf
           \/ ForkPerfFails \/ UNCHANGED vars
  BY <1>14 DEF Deliver, TakePending, Blocked, Ended, IgnoreExit, Waited,
         Reaped, NoticeExit, Report, toggle_dumpstats_signal, CollectorExit,
         Outcomes, StageRunning, Raise, Exit, ForkBench, AssignChild,
         StoreChild, AfterFork, ForkBenchFails, ForkPerf, AssignPerf,
         StorePerf, ForkPerfFails, vars
<1> QED
  BY <1>1, <1>2, <1>3, <1>4, <1>5, <1>6, <1>7, <1>8, <1>9, <1>10, <1>11,
         <1>12, <1>13, <1>14 DEF Next, Main, Launch, ReadStats, Handler

\* The handler never runs during system(): SIGCHLD is blocked, and main
\* starts a system() only while the handler is idle.
LEMMA ShellStep ==
    ASSUME IInv, [Next]_vars
    PROVE  ShellIsSystems'
<1> USE DEF IInv, ShellIsSystems, Blocked, TypeOK, Proc, NoPid, ForkFailed,
            launchVars, signalVars, quitVars, statsVars
<1>1. CASE CollectorExit
  BY <1>1 DEF CollectorExit, Blocked, Outcomes, StageRunning, Raise
<1>2. CASE Main /\ CollectPre
  BY <1>2 DEF CollectPre, Spawn, PrintError, Main
<1>3. CASE PreReturns
  BY <1>3 DEF PreReturns, SystemReturns, TakePending, PrintError
<1>4. CASE Main /\ CollectPost
  BY <1>4 DEF CollectPost, Spawn, PrintError, Main
<1>5. CASE PostReturns
  BY <1>5 DEF PostReturns, SystemReturns, TakePending, PrintError
<1>6. CASE Deliver \/ IgnoreExit \/ NoticeExit \/ Report \/
           toggle_dumpstats_signal \/
           Exit("bench") \/ Exit("perf") \/ ForkBench \/
           AssignChild \/ ForkBenchFails \/ ForkPerf \/ AssignPerf
           \/ ForkPerfFails \/ Setup \/ AwaitInfo \/ OpenStats \/
           SkipBody \/ DivideByZero \/ StartDefrag \/ NoDefrag \/
           DefragFails \/ LoopTest \/ UNCHANGED vars
  BY <1>6 DEF Deliver, TakePending, Blocked, Ended, IgnoreExit, Waited,
         Reaped, NoticeExit, Report, toggle_dumpstats_signal, Exit, Raise,
         ForkBench, AssignChild, StoreChild, AfterFork, ForkBenchFails,
         ForkPerf, AssignPerf, StorePerf, ForkPerfFails, Setup, AwaitInfo,
         OpenStats, SkipBody, DivideByZero, StartDefrag, DefragDue,
         NoDefrag, DefragFails, LoopTest, vars
<1> QED
  BY <1>1, <1>2, <1>3, <1>4, <1>5, <1>6 DEF Next, Main, Launch, ReadStats,
         Handler

\* child is stored once.
LEMMA LaunchStep ==
    ASSUME IInv, [Next]_vars
    PROVE  Launching'
<1> USE DEF IInv, Launching, TypeOK, Proc, NoPid, ForkFailed, launchVars,
            signalVars, quitVars, statsVars
<1>1. CASE ForkBench
  BY <1>1 DEF ForkBench
<1>2. CASE ForkBenchFails
  BY <1>2 DEF ForkBenchFails, StoreChild, AfterFork
<1>3. CASE AssignChild
  BY <1>3 DEF AssignChild, StoreChild, AfterFork
<1>4. CASE Deliver \/ IgnoreExit \/ NoticeExit \/ Report \/
           toggle_dumpstats_signal \/ CollectorExit \/
           Exit("bench") \/ Exit("perf") \/ ForkPerf \/ AssignPerf
           \/ ForkPerfFails \/ Setup \/ AwaitInfo \/ OpenStats \/
           CollectPre \/ SkipBody \/ PreReturns \/ DivideByZero \/
           StartDefrag \/ NoDefrag \/ DefragFails \/ CollectPost
           \/ PostReturns \/ LoopTest \/ UNCHANGED vars
  BY <1>4 DEF Deliver, TakePending, Blocked, Ended, IgnoreExit, Waited,
         Reaped, NoticeExit, Report, toggle_dumpstats_signal, CollectorExit,
         Outcomes, StageRunning, Raise, Exit, ForkPerf, AssignPerf,
         StorePerf, ForkPerfFails, Setup, AwaitInfo, OpenStats, CollectPre,
         Spawn, PrintError, SkipBody, PreReturns, SystemReturns,
         DivideByZero, StartDefrag, DefragDue, NoDefrag, DefragFails,
         CollectPost, PostReturns, LoopTest, vars
<1> QED
  BY <1>1, <1>2, <1>3, <1>4 DEF Next, Main, Launch, ReadStats, Handler

\* waitpid returns child only for the benchmark itself, or when both are -1.
LEMMA QuitStep ==
    ASSUME IInv, [Next]_vars
    PROVE  QuitOrder'
<1> USE DEF IInv, QuitOrder, Launching, TypeOK, Proc, NoPid, ForkFailed,
            launchVars, signalVars, quitVars, statsVars
<1>1. CASE IgnoreExit
  BY <1>1 DEF IgnoreExit, TakePending, Waited, Reaped
<1>2. CASE NoticeExit
  <2>1. child # NoPid
    <3>1. Waited(si_pid) # NoPid
      BY <1>2 DEF NoticeExit, Waited
    <3> QED
      BY <1>2, <3>1 DEF NoticeExit
  <2>2. CASE child = "bench"
    <3>1. si_pid = "bench" /\ proc["bench"] = "zombie"
      BY <1>2, <2>2 DEF NoticeExit, Waited
    <3> QED
      BY <1>2, <2>2, <3>1 DEF NoticeExit, Reaped
  <2>3. CASE child = ForkFailed
    BY <1>2, <2>3 DEF NoticeExit
  <2> QED
    BY <2>1, <2>2, <2>3
<1>3. CASE Report
  BY <1>3 DEF Report, TakePending
<1>4. CASE Setup
  BY <1>4 DEF Setup
<1>5. CASE AwaitInfo
  BY <1>5 DEF AwaitInfo
<1>6. CASE ForkBench
  BY <1>6 DEF ForkBench
<1>7. CASE AssignChild
  BY <1>7 DEF AssignChild, StoreChild, AfterFork
<1>8. CASE ForkBenchFails
  BY <1>8 DEF ForkBenchFails, StoreChild, AfterFork
<1>9. CASE Exit("bench") \/ Exit("perf")
  BY <1>9 DEF Exit, Raise
<1>10. CASE Deliver \/ toggle_dumpstats_signal \/ CollectorExit \/ ForkPerf \/
           AssignPerf \/ ForkPerfFails \/ OpenStats \/ CollectPre
           \/ SkipBody \/ PreReturns \/ DivideByZero \/
           StartDefrag \/ NoDefrag \/ DefragFails \/ CollectPost
           \/ PostReturns \/ LoopTest \/ UNCHANGED vars
  BY <1>10 DEF Deliver, TakePending, Blocked, Ended,
         toggle_dumpstats_signal, CollectorExit, Outcomes, StageRunning,
         Raise, ForkPerf, AssignPerf, StorePerf, ForkPerfFails, OpenStats,
         CollectPre, Spawn, PrintError, SkipBody, PreReturns, SystemReturns,
         DivideByZero, StartDefrag, DefragDue, NoDefrag, DefragFails,
         CollectPost, PostReturns, LoopTest, vars
<1> QED
  BY <1>1, <1>2, <1>3, <1>4, <1>5, <1>6, <1>7, <1>8, <1>9, <1>10 DEF Next,
         Main, Launch, ReadStats, Handler

\* Only StartDefrag leads to the post stage.
LEMMA PostDueStep ==
    ASSUME IInv, [Next]_vars
    PROVE  PostDue'
<1> USE DEF IInv, PostDue, DefragDue, TypeOK, Proc, NoPid, ForkFailed,
            launchVars, signalVars, quitVars, statsVars
<1>1. CASE CollectPre
  BY <1>1 DEF CollectPre, Spawn, PrintError
<1>2. CASE StartDefrag
  BY <1>2 DEF StartDefrag, DefragDue
<1>3. CASE NoDefrag
  BY <1>3 DEF NoDefrag, DefragDue
<1>4. CASE CollectPost
  BY <1>4 DEF CollectPost, Spawn, PrintError
<1>5. CASE Deliver \/ IgnoreExit \/ NoticeExit \/ Report \/
           toggle_dumpstats_signal \/ CollectorExit \/
           Exit("bench") \/ Exit("perf") \/ ForkBench \/
           AssignChild \/ ForkBenchFails \/ ForkPerf \/ AssignPerf
           \/ ForkPerfFails \/ Setup \/ AwaitInfo \/ OpenStats \/
           SkipBody \/ PreReturns \/ DivideByZero \/ DefragFails
           \/ PostReturns \/ LoopTest \/ UNCHANGED vars
  BY <1>5 DEF Deliver, TakePending, Blocked, Ended, IgnoreExit, Waited,
         Reaped, NoticeExit, Report, toggle_dumpstats_signal, CollectorExit,
         Outcomes, StageRunning, Raise, Exit, ForkBench, AssignChild,
         StoreChild, AfterFork, ForkBenchFails, ForkPerf, AssignPerf,
         StorePerf, ForkPerfFails, Setup, AwaitInfo, OpenStats, SkipBody,
         PreReturns, SystemReturns, PrintError, DivideByZero, DefragFails,
         PostReturns, LoopTest, vars
<1> QED
  BY <1>1, <1>2, <1>3, <1>4, <1>5 DEF Next, Main, Launch, ReadStats, Handler

\* Snapshots are written at file_index only, one behind loop_count.
LEMMA NumberStep ==
    ASSUME IInv, [Next]_vars
    PROVE  Numbering'
<1> USE DEF IInv, Numbering, Counting, PostDue, Early, Body, TypeOK, Index,
            Stage, Snapshot, Proc, NoPid, ForkFailed, launchVars,
            signalVars, quitVars, statsVars
<1>1. CASE CollectorExit
  BY <1>1 DEF CollectorExit, Blocked, Outcomes, StageRunning, Raise
<1>2. CASE Setup
  BY <1>2 DEF Setup
<1>3. CASE OpenStats
  BY <1>3 DEF OpenStats
<1>4. CASE CollectPre
  BY <1>4 DEF CollectPre, Spawn, PrintError
<1>5. CASE SkipBody
  BY <1>5 DEF SkipBody
<1>6. CASE PreReturns
  BY <1>6 DEF PreReturns, SystemReturns, TakePending, PrintError
<1>7. CASE DivideByZero
  BY <1>7 DEF DivideByZero
<1>8. CASE StartDefrag
  BY <1>8 DEF StartDefrag, DefragDue
<1>9. CASE NoDefrag
  BY <1>9 DEF NoDefrag, DefragDue
<1>10. CASE DefragFails
  BY <1>10 DEF DefragFails
<1>11. CASE CollectPost
  BY <1>11 DEF CollectPost, Spawn, PrintError
<1>12. CASE PostReturns
  BY <1>12 DEF PostReturns, SystemReturns, TakePending, PrintError
<1>13. CASE LoopTest
  BY <1>13 DEF LoopTest
<1>14. CASE Deliver \/ IgnoreExit \/ NoticeExit \/ Report \/
           toggle_dumpstats_signal \/
           Exit("bench") \/ Exit("perf") \/ ForkBench \/
           AssignChild \/ ForkBenchFails \/ ForkPerf \/ AssignPerf
           \/ ForkPerfFails \/ AwaitInfo \/ UNCHANGED vars
  BY <1>14 DEF Deliver, TakePending, Blocked, Ended, IgnoreExit, Waited,
         Reaped, NoticeExit, Report, toggle_dumpstats_signal, Exit, Raise,
         ForkBench, AssignChild, StoreChild, AfterFork, ForkBenchFails,
         ForkPerf, AssignPerf, StorePerf, ForkPerfFails, AwaitInfo, vars
<1> QED
  BY <1>1, <1>2, <1>3, <1>4, <1>5, <1>6, <1>7, <1>8, <1>9, <1>10, <1>11,
         <1>12, <1>13, <1>14 DEF Next, Main, Launch, ReadStats, Handler

\* A pre collection that leaves no file has a bad status, which is printed.
LEMMA PreLedgerStep ==
    ASSUME IInv, [Next]_vars
    PROVE  PreLedger'
<1> USE DEF IInv, PreLedger, Counting, Early, Body, ShellIsSystems, Blocked,
            TypeOK, Index, Stage, Snapshot, Proc, NoPid, ForkFailed,
            launchVars, signalVars, quitVars, statsVars
<1>1. CASE CollectorExit
  BY <1>1 DEF CollectorExit, Blocked, Outcomes, StageRunning, Raise
<1>2. CASE CollectPre
  BY <1>2 DEF CollectPre, Spawn, PrintError
<1>3. CASE PreReturns
  BY <1>3 DEF PreReturns, SystemReturns, TakePending, PrintError
<1>4. CASE StartDefrag
  BY <1>4 DEF StartDefrag, DefragDue
<1>5. CASE NoDefrag
  BY <1>5 DEF NoDefrag, DefragDue
<1>6. CASE CollectPost
  BY <1>6 DEF CollectPost, Spawn, PrintError
<1>7. CASE Deliver \/ IgnoreExit \/ NoticeExit \/ Report \/
           toggle_dumpstats_signal \/
           Exit("bench") \/ Exit("perf") \/ ForkBench \/
           AssignChild \/ ForkBenchFails \/ ForkPerf \/ AssignPerf
           \/ ForkPerfFails \/ Setup \/ AwaitInfo \/ OpenStats \/
           SkipBody \/ DivideByZero \/ DefragFails \/ PostReturns
           \/ LoopTest \/ UNCHANGED vars
  BY <1>7 DEF Deliver, TakePending, Blocked, Ended, IgnoreExit, Waited,
         Reaped, NoticeExit, Report, toggle_dumpstats_signal, Exit, Raise,
         ForkBench, AssignChild, StoreChild, AfterFork, ForkBenchFails,
         ForkPerf, AssignPerf, StorePerf, ForkPerfFails, Setup, AwaitInfo,
         OpenStats, SkipBody, DivideByZero, DefragFails, PostReturns,
         SystemReturns, PrintError, LoopTest, vars
<1> QED
  BY <1>1, <1>2, <1>3, <1>4, <1>5, <1>6, <1>7 DEF Next, Main, Launch,
         ReadStats, Handler

\* file_index passes an index only after PreLedger settled it.
LEMMA MissingStep ==
    ASSUME IInv, [Next]_vars
    PROVE  MissingPreReported'
<1> USE DEF IInv, MissingPreReported, PreLedger, Counting, Early, Body,
            Numbering, ShellIsSystems, Blocked, TypeOK, Index, Stage,
            Snapshot, Proc, NoPid, ForkFailed, launchVars, signalVars,
            quitVars, statsVars
<1>1. CASE CollectorExit
  BY <1>1 DEF CollectorExit, Blocked, Outcomes, StageRunning, Raise
<1>2. CASE CollectPre
  BY <1>2 DEF CollectPre, Spawn, PrintError
<1>3. CASE PreReturns
  BY <1>3 DEF PreReturns, SystemReturns, TakePending, PrintError
<1>4. CASE NoDefrag
  <2>1. file_index' = file_index + 1 /\ snap' = snap /\ reported' = reported
    BY <1>4 DEF NoDefrag
  <2>2. snap["pre"][file_index] = "none" => <<"pre", file_index>> \in reported
    BY <1>4 DEF NoDefrag
  <2>3. ASSUME NEW i \in 0 .. file_index' - 1, snap'["pre"][i] = "none"
        PROVE  <<"pre", i>> \in reported'
    <3>1. i \in 0 .. file_index - 1 \/ i = file_index
      BY <2>1
    <3> QED
      BY <2>1, <2>2, <2>3, <3>1
  <2> QED
    BY <2>3
<1>5. CASE CollectPost
  BY <1>5 DEF CollectPost, Spawn, PrintError
<1>6. CASE PostReturns
  <2>1. file_index' = file_index + 1 /\ snap' = snap
    BY <1>6 DEF PostReturns
  <2>2. reported \subseteq reported'
    BY <1>6 DEF PostReturns, PrintError
  <2>3. snap["pre"][file_index] = "none" => <<"pre", file_index>> \in reported
    BY <1>6 DEF PostReturns
  <2>4. ASSUME NEW i \in 0 .. file_index' - 1, snap'["pre"][i] = "none"
        PROVE  <<"pre", i>> \in reported'
    <3>1. i \in 0 .. file_index - 1 \/ i = file_index
      BY <2>1
    <3> QED
      BY <2>1, <2>2, <2>3, <2>4, <3>1
  <2> QED
    BY <2>4
<1>7. CASE Deliver \/ IgnoreExit \/ NoticeExit \/ Report \/
           toggle_dumpstats_signal \/
           Exit("bench") \/ Exit("perf") \/ ForkBench \/
           AssignChild \/ ForkBenchFails \/ ForkPerf \/ AssignPerf
           \/ ForkPerfFails \/ Setup \/ AwaitInfo \/ OpenStats \/
           SkipBody \/ DivideByZero \/ StartDefrag \/ DefragFails
           \/ LoopTest \/ UNCHANGED vars
  BY <1>7 DEF Deliver, TakePending, Blocked, Ended, IgnoreExit, Waited,
         Reaped, NoticeExit, Report, toggle_dumpstats_signal, Exit, Raise,
         ForkBench, AssignChild, StoreChild, AfterFork, ForkBenchFails,
         ForkPerf, AssignPerf, StorePerf, ForkPerfFails, Setup, AwaitInfo,
         OpenStats, SkipBody, DivideByZero, StartDefrag, DefragDue,
         DefragFails, LoopTest, vars
<1> QED
  BY <1>1, <1>2, <1>3, <1>4, <1>5, <1>6, <1>7 DEF Next, Main, Launch,
         ReadStats, Handler

\* The benchmark exits once.
LEMMA SignalStep ==
    ASSUME IInv, [Next]_vars
    PROVE  SignalOnce'
<1> USE DEF IInv, SignalOnce, Launching, TypeOK, Proc, NoPid, ForkFailed,
            launchVars, signalVars, quitVars, statsVars
<1>1. CASE Deliver
  BY <1>1 DEF Deliver, TakePending, Blocked, Ended
<1>2. CASE IgnoreExit
  BY <1>2 DEF IgnoreExit, TakePending, Waited, Reaped
<1>3. CASE NoticeExit
  BY <1>3 DEF NoticeExit, Waited, Reaped
<1>4. CASE Report
  BY <1>4 DEF Report, TakePending
<1>5. CASE Exit("bench") \/ Exit("perf")
  BY <1>5 DEF Exit, Raise
<1>6. CASE CollectorExit
  BY <1>6 DEF CollectorExit, Blocked, Outcomes, StageRunning, Raise
<1>7. CASE ForkBench
  BY <1>7 DEF ForkBench
<1>8. CASE PreReturns
  BY <1>8 DEF PreReturns, SystemReturns, TakePending, PrintError
<1>9. CASE PostReturns
  BY <1>9 DEF PostReturns, SystemReturns, TakePending, PrintError
<1>10. CASE toggle_dumpstats_signal \/ AssignChild \/ ForkBenchFails \/
           ForkPerf \/ AssignPerf \/ ForkPerfFails \/ Setup \/
           AwaitInfo \/ OpenStats \/ CollectPre \/ SkipBody \/
           DivideByZero \/ StartDefrag \/ NoDefrag \/ DefragFails
           \/ CollectPost \/ LoopTest \/ UNCHANGED vars
  BY <1>10 DEF toggle_dumpstats_signal, Ended, AssignChild, StoreChild,
         AfterFork, ForkBenchFails, ForkPerf, AssignPerf, StorePerf,
         ForkPerfFails, Setup, AwaitInfo, OpenStats, CollectPre, Spawn,
         PrintError, SkipBody, DivideByZero, StartDefrag, DefragDue,
         NoDefrag, DefragFails, CollectPost, LoopTest, vars
<1> QED
  BY <1>1, <1>2, <1>3, <1>4, <1>5, <1>6, <1>7, <1>8, <1>9, <1>10 DEF Next,
         Main, Launch, ReadStats, Handler

\* Pre error lines are printed for the current index.
LEMMA ReportedStep ==
    ASSUME IInv, [Next]_vars
    PROVE  ReportedSoFar'
<1> USE DEF IInv, ReportedSoFar, Counting, Early, Body, TypeOK, Index,
            Stage, Snapshot, Proc, NoPid, ForkFailed, launchVars,
            signalVars, quitVars, statsVars
<1>1. CASE CollectorExit
  BY <1>1 DEF CollectorExit, Blocked, Outcomes, StageRunning, Raise
<1>2. CASE Setup
  BY <1>2 DEF Setup
<1>3. CASE OpenStats
  BY <1>3 DEF OpenStats
<1>4. CASE CollectPre
  BY <1>4 DEF CollectPre, Spawn, PrintError
<1>5. CASE PreReturns
  BY <1>5 DEF PreReturns, SystemReturns, TakePending, PrintError
<1>6. CASE NoDefrag
  BY <1>6 DEF NoDefrag, DefragDue
<1>7. CASE CollectPost
  BY <1>7 DEF CollectPost, Spawn, PrintError
<1>8. CASE PostReturns
  BY <1>8 DEF PostReturns, SystemReturns, TakePending, PrintError
<1>9. CASE LoopTest
  BY <1>9 DEF LoopTest
<1>10. CASE Deliver \/ IgnoreExit \/ NoticeExit \/ Report \/
           toggle_dumpstats_signal \/
           Exit("bench") \/ Exit("perf") \/ ForkBench \/
           AssignChild \/ ForkBenchFails \/ ForkPerf \/ AssignPerf
           \/ ForkPerfFails \/ AwaitInfo \/ SkipBody \/
           DivideByZero \/ StartDefrag \/ DefragFails \/
           UNCHANGED vars
  BY <1>10 DEF Deliver, TakePending, Blocked, Ended, IgnoreExit, Waited,
         Reaped, NoticeExit, Report, toggle_dumpstats_signal, Exit, Raise,
         ForkBench, AssignChild, StoreChild, AfterFork, ForkBenchFails,
         ForkPerf, AssignPerf, StorePerf, ForkPerfFails, AwaitInfo,
         SkipBody, DivideByZero, StartDefrag, DefragDue, DefragFails, vars
<1> QED
  BY <1>1, <1>2, <1>3, <1>4, <1>5, <1>6, <1>7, <1>8, <1>9, <1>10 DEF Next,
         Main, Launch, ReadStats, Handler

\* The slot that a dead benchmark's SIGCHLD waits in is emptied when system()
\* returns, before main goes on.
LEMMA StubStep ==
    ASSUME IInv, [Next]_vars
    PROVE  StubLate'
<1> USE DEF IInv, StubLate, HasStub, Unheard, SignalOnce, Launching,
            Counting, Early, Body, Numbering, QuitOrder, ShellIsSystems,
            Blocked, TypeOK, Index, Stage, Snapshot, Proc, NoPid,
            ForkFailed, launchVars, signalVars, quitVars, statsVars
<1>1. CASE Deliver
  BY <1>1 DEF Deliver, TakePending, Blocked, Ended
<1>2. CASE IgnoreExit
  BY <1>2 DEF IgnoreExit, TakePending, Waited, Reaped
<1>3. CASE NoticeExit
  BY <1>3 DEF NoticeExit, Waited, Reaped
<1>4. CASE Report
  BY <1>4 DEF Report, TakePending
<1>5. CASE CollectorExit
  BY <1>5 DEF CollectorExit, Blocked, Outcomes, StageRunning, Raise
<1>6. CASE Exit("bench") \/ Exit("perf")
  BY <1>6 DEF Exit, Raise
<1>7. CASE ForkBench
  BY <1>7 DEF ForkBench
<1>8. CASE AssignChild
  BY <1>8 DEF AssignChild, StoreChild, AfterFork
<1>9. CASE ForkBenchFails
  BY <1>9 DEF ForkBenchFails, StoreChild, AfterFork
<1>10. CASE Main /\ Setup
  BY <1>10 DEF Setup, Main
<1>11. CASE OpenStats
  BY <1>11 DEF OpenStats
<1>12. CASE Main /\ CollectPre
  BY <1>12 DEF CollectPre, Spawn, PrintError, Main
<1>13. CASE SkipBody
  BY <1>13 DEF SkipBody
<1>14. CASE Main /\ PreReturns
  BY <1>14 DEF PreReturns, SystemReturns, TakePending, PrintError, Main
<1>15. CASE DivideByZero
  BY <1>15 DEF DivideByZero
<1>16. CASE Main /\ StartDefrag
  BY <1>16 DEF StartDefrag, DefragDue, Main
<1>17. CASE Main /\ NoDefrag
  BY <1>17 DEF NoDefrag, DefragDue, Main
<1>18. CASE DefragFails
  BY <1>18 DEF DefragFails
<1>19. CASE Main /\ CollectPost
  BY <1>19 DEF CollectPost, Spawn, PrintError, Main
<1>20. CASE Main /\ PostReturns
  BY <1>20 DEF PostReturns, SystemReturns, TakePending, PrintError, Main
<1>21. CASE Main /\ LoopTest
  BY <1>21 DEF LoopTest, Main
<1>22. CASE toggle_dumpstats_signal \/ ForkPerf \/ AssignPerf \/ ForkPerfFails
           \/ AwaitInfo \/ UNCHANGED vars
  BY <1>22 DEF toggle_dumpstats_signal, Ended, ForkPerf, AssignPerf,
         StorePerf, ForkPerfFails, AwaitInfo, vars
<1> QED
  BY <1>1, <1>2, <1>3, <1>4, <1>5, <1>6, <1>7, <1>8, <1>9, <1>10, <1>11,
         <1>12, <1>13, <1>14, <1>15, <1>16, <1>17, <1>18, <1>19, <1>20,
         <1>21, <1>22 DEF Next, Main, Launch, ReadStats, Handler
-----------------------------------------------------------------------------
(* The theorems                                                            *)

\* IInv is an invariant of the launcher.
THEOREM Inductive == Spec => []IInv
<1>1. Init => IInv
  <2> SUFFICES ASSUME Init PROVE IInv
    OBVIOUS
  <2>1. TypeOK
    <3>1. /\ proc \in [Proc -> {"none", "running", "zombie", "gone"}]
          /\ snap \in [Stage -> [Index -> Snapshot]]
      BY DEF Init, Snapshot
    <3>2. /\ sh \in [live : BOOLEAN, bad : BOOLEAN]
          /\ file_index \in Index /\ loop_count \in 0 .. MaxIter
      BY DEF Init, Index
    <3>3. /\ child_quit \in BOOLEAN /\ info_done \in BOOLEAN
          /\ dumpstats_signal \in BOOLEAN /\ ret \in BOOLEAN
      BY DEF Init
    <3> QED
      BY <3>1, <3>2, <3>3 DEF Init, TypeOK, PC, Pid
  <2>2. Counting /\ ShellIsSystems /\ Launching /\ QuitOrder /\ PostDue
    BY DEF Init, Counting, Early, Body, ShellIsSystems, Blocked, Launching,
           QuitOrder, PostDue, Proc, NoPid, ForkFailed
  <2>3. Numbering /\ MissingPreReported /\ PreLedger
    BY DEF Init, Numbering, MissingPreReported, PreLedger, Stage, Index
  <2>4. SignalOnce /\ ReportedSoFar /\ StubLate
    BY DEF Init, SignalOnce, ReportedSoFar, StubLate, HasStub, NoPid, Stage,
           Index
  <2> QED
    BY <2>1, <2>2, <2>3, <2>4 DEF IInv
<1>2. IInv /\ [Next]_vars => IInv'
  BY TypeStep, CountStep, ShellStep, LaunchStep, QuitStep, PostDueStep,
     NumberStep, PreLedgerStep, MissingStep, SignalStep, ReportedStep,
     StubStep DEF IInv
<1> QED
  BY <1>1, <1>2, PTL DEF Spec

\* Every variable of the launcher keeps its type, and its counters stay
\* within the bound.
THEOREM TypeCorrect == Spec => []TypeOK
  BY Inductive, PTL DEF IInv

\* The report, the SIGINT to perf and the end of the launcher come after the
\* benchmark was reaped, or when it was never started.
THEOREM ReportsAfterReap == Spec => []ReportAfterReap
<1>1. IInv => ReportAfterReap
  BY DEF IInv, ReportAfterReap, QuitOrder, Launching
<1> QED
  BY Inductive, <1>1, PTL

\* system() always finds its own shell, running or to be reaped.
THEOREM ShellsAreReapedBySystem == Spec => []ShellIsSystems
  BY Inductive, PTL DEF IInv

\* Snapshots are numbered by the iteration that took them, and post snapshots
\* follow the defragmentation factor.
THEOREM NumbersAgree == Spec => []Numbering
  BY Inductive, PTL DEF IInv

\* A missing pre snapshot has been reported.
THEOREM MissingPreIsReported == Spec => []MissingPreReported
  BY Inductive, PTL DEF IInv

\* At most one iteration goes on with the pid of a dead benchmark, unless the
\* SIGCHLD was lost.
THEOREM StubsAreLast == Spec => []StubIsLast
<1>1. IInv => StubIsLast
  <2> SUFFICES ASSUME IInv, NEW i \in Index, NEW j \in Index,
                      child = "bench", snap["pre"][i] = "stub", i < j,
                      ~Unheard
               PROVE  snap["pre"][j] = "none" /\ <<"pre", j>> \notin reported
    BY DEF StubIsLast
  <2>1. i = loop_count - 1
    BY DEF IInv, StubLate, HasStub
  <2>2. ~(j < loop_count)
    BY <2>1 DEF IInv, TypeOK, Index
  <2> QED
    BY <2>2 DEF IInv, Numbering, ReportedSoFar, Stage
<1> QED
  BY Inductive, <1>1, PTL

\* child_exit reports once for a benchmark that was started.
THEOREM ReportsOnce == Spec => ReportedOnce
<1>1. IInv /\ [Next]_vars
        => (handler' = "report" /\ handler # "report"
              => ~child_quit \/ child = ForkFailed)
  <2> SUFFICES ASSUME IInv, [Next]_vars, handler' = "report",
                      handler # "report", child_quit
               PROVE  child = ForkFailed
    OBVIOUS
  <2>1. NoticeExit
    BY DEF Next, Main, Launch, ReadStats, Handler, Deliver, IgnoreExit,
           Report, TakePending, toggle_dumpstats_signal, CollectorExit, Exit,
           ForkBench, AssignChild, ForkBenchFails, StoreChild, ForkPerf,
           AssignPerf, ForkPerfFails, StorePerf, Setup, AwaitInfo, OpenStats,
           CollectPre, SkipBody, PreReturns, SystemReturns, DivideByZero,
           StartDefrag, NoDefrag, DefragFails, CollectPost, PostReturns,
           LoopTest, signalVars, vars
  <2>2. CASE child = "bench" /\ proc["bench"] = "gone"
    BY <2>1, <2>2 DEF NoticeExit, Waited, ForkFailed
  <2> QED
    BY <2>2 DEF IInv, QuitOrder
<1> QED
  BY Inductive, <1>1, PTL DEF Spec, ReportedOnce
-----------------------------------------------------------------------------
(* The refinement of Launcher: every step of SimpleRun is a step of the    *)
(* abstract launcher or changes nothing it sees.                           *)

\* What the steps need beyond IInv: the slots the running iteration has not
\* written yet, the one iteration a factor of 0 allows, and that the handler
\* neither runs after the end nor sees a pid before it is stored.
Unwritten ==
    /\ (pc = "preRun" /\ proc["sh"] = "running")
         => snap["pre"][file_index] = "none"
    /\ pc \in {"preRun", "preDone", "defrag"}
         => snap["post"][file_index] = "none"
    /\ (pc = "postRun" /\ proc["sh"] = "running")
         => snap["post"][file_index] = "none"

OneIteration ==
    opt.factor = 0 => \/ loop_count = 0
                      \/ loop_count = 1 /\ pc \in {"preRun", "preDone", "crashed"}

QuietEnds == /\ Ended => handler = "idle"
             /\ child = NoPid => pc \in {"fork", "forked"}

RInv == IInv /\ Unwritten /\ OneIteration /\ QuietEnds

\* Nothing is written at file_index before the collector of its stage ends.
LEMMA UnwrittenStep ==
    ASSUME RInv, [Next]_vars
    PROVE  Unwritten'
<1> USE DEF RInv, IInv, Unwritten, Counting, Numbering, Early, Body,
            ShellIsSystems, Blocked, TypeOK, Index, Stage, Snapshot, Proc,
            NoPid, ForkFailed, launchVars, signalVars, quitVars, statsVars
<1>1. CASE CollectorExit
  BY <1>1 DEF CollectorExit, Blocked, Outcomes, StageRunning, Raise
<1>2. CASE CollectPre
  BY <1>2 DEF CollectPre, Spawn, PrintError
<1>3. CASE PreReturns
  BY <1>3 DEF PreReturns, SystemReturns, TakePending, PrintError
<1>4. CASE StartDefrag
  BY <1>4 DEF StartDefrag, DefragDue
<1>5. CASE NoDefrag
  BY <1>5 DEF NoDefrag, DefragDue
<1>6. CASE CollectPost
  BY <1>6 DEF CollectPost, Spawn, PrintError
<1>7. CASE PostReturns
  BY <1>7 DEF PostReturns, SystemReturns, TakePending, PrintError
<1>8. CASE Deliver \/ IgnoreExit \/ NoticeExit \/ Report \/
           toggle_dumpstats_signal \/
           Exit("bench") \/ Exit("perf") \/ ForkBench \/
           AssignChild \/ ForkBenchFails \/ ForkPerf \/ AssignPerf
           \/ ForkPerfFails \/ Setup \/ AwaitInfo \/ OpenStats \/
           SkipBody \/ DivideByZero \/ DefragFails \/ LoopTest
           \/ UNCHANGED vars
  BY <1>8 DEF Deliver, TakePending, Blocked, Ended, IgnoreExit, Waited,
         Reaped, NoticeExit, Report, toggle_dumpstats_signal, Exit, Raise,
         ForkBench, AssignChild, StoreChild, AfterFork, ForkBenchFails,
         ForkPerf, AssignPerf, StorePerf, ForkPerfFails, Setup, AwaitInfo,
         OpenStats, SkipBody, DivideByZero, DefragFails, LoopTest, vars
<1> QED
  BY <1>1, <1>2, <1>3, <1>4, <1>5, <1>6, <1>7, <1>8 DEF Next, Main, Launch,
         ReadStats, Handler

\* With a factor of 0 the first iteration does not get past the division.
LEMMA OneIterationStep ==
    ASSUME RInv, [Next]_vars
    PROVE  OneIteration'
<1> USE DEF RInv, IInv, OneIteration, Counting, PostDue, Early, Body, TypeOK,
            Index, launchVars, signalVars, quitVars, statsVars
<1>1. CASE CollectPre
  BY <1>1 DEF CollectPre, Spawn, PrintError
<1>2. CASE PreReturns
  BY <1>2 DEF PreReturns, SystemReturns, TakePending, PrintError
<1>3. CASE CollectPost
  BY <1>3 DEF CollectPost, Spawn, PrintError
<1>4. CASE PostReturns
  BY <1>4 DEF PostReturns, SystemReturns, TakePending, PrintError
<1>5. CASE Deliver \/ IgnoreExit \/ NoticeExit \/ Report \/
           toggle_dumpstats_signal \/ CollectorExit \/
           Exit("bench") \/ Exit("perf") \/ ForkBench \/
           AssignChild \/ ForkBenchFails \/ ForkPerf \/ AssignPerf
           \/ ForkPerfFails \/ Setup \/ AwaitInfo \/ OpenStats \/
           SkipBody \/ UNCHANGED vars
  BY <1>5 DEF Deliver, TakePending, Blocked, Ended, IgnoreExit, Waited,
         Reaped, NoticeExit, Report, toggle_dumpstats_signal, CollectorExit,
         Exit, Raise, ForkBench, AssignChild, StoreChild, AfterFork,
         ForkBenchFails, ForkPerf, AssignPerf, StorePerf, ForkPerfFails,
         Setup, AwaitInfo, OpenStats, SkipBody, vars
<1>6. CASE DivideByZero \/ StartDefrag \/ NoDefrag \/ DefragFails \/ LoopTest
  BY <1>6 DEF DivideByZero, StartDefrag, NoDefrag, DefragDue, DefragFails,
         LoopTest
<1> QED
  BY <1>1, <1>2, <1>3, <1>4, <1>5, <1>6 DEF Next, Main, Launch, ReadStats,
         Handler

\* Main ends only while the handler is idle, and stores a pid with each fork.
LEMMA QuietStep ==
    ASSUME RInv, [Next]_vars
    PROVE  QuietEnds'
<1> USE DEF RInv, IInv, QuietEnds, Launching, ShellIsSystems, SignalOnce,
            Ended, Blocked, TypeOK, Proc, NoPid, ForkFailed, launchVars,
            signalVars, quitVars, statsVars
<1>1. CASE Deliver \/ Report \/ toggle_dumpstats_signal \/ UNCHANGED vars
  BY <1>1 DEF Deliver, TakePending, Report, toggle_dumpstats_signal, vars
<1>2. CASE IgnoreExit \/ NoticeExit
  BY <1>2 DEF IgnoreExit, NoticeExit, TakePending, Reaped
<1>3. CASE Exit("bench") \/ Exit("perf") \/ CollectorExit
  BY <1>3 DEF Exit, CollectorExit, Raise
<1>4. CASE ForkBench \/ AssignChild \/ ForkBenchFails
  BY <1>4 DEF ForkBench, AssignChild, ForkBenchFails, StoreChild, AfterFork
<1>5. CASE ForkPerf \/ AssignPerf \/ ForkPerfFails \/ Setup \/ OpenStats
           \/ SkipBody \/ StartDefrag \/ NoDefrag \/ DefragFails \/ LoopTest
  BY <1>5 DEF ForkPerf, AssignPerf, ForkPerfFails, StorePerf, Setup,
         OpenStats, SkipBody, StartDefrag, NoDefrag, DefragFails, LoopTest
<1>6. CASE Main /\ (AwaitInfo \/ DivideByZero)
  BY <1>6 DEF Main, AwaitInfo, DivideByZero
<1>7. CASE CollectPre \/ CollectPost
  BY <1>7 DEF CollectPre, CollectPost, Spawn
<1>8. CASE PreReturns \/ PostReturns
  BY <1>8 DEF PreReturns, PostReturns, SystemReturns, TakePending
<1> QED
  BY <1>1, <1>2, <1>3, <1>4, <1>5, <1>6, <1>7, <1>8 DEF Next, Main, Launch,
         ReadStats, Handler

\* RInv is an invariant of the launcher.
THEOREM MappingInvariant == Spec => []RInv
<1>1. Init /\ IInv => RInv
  BY DEF Init, RInv, Unwritten, OneIteration, QuietEnds, Ended
<1>2. RInv /\ IInv' /\ [Next]_vars => RInv'
  BY UnwrittenStep, OneIterationStep, QuietStep DEF RInv
<1> QED
  BY <1>1, <1>2, Inductive, PTL DEF Spec

\* The abstract launcher gains the file that the collector wrote.
LEMMA WrittenFile ==
    ASSUME TypeOK, NEW s \in Stage, NEW file \in Snapshot, file # "none",
           snap' = [snap EXCEPT ![s][file_index] = file]
    PROVE  AbsFiles' = AbsFiles \cup {<<s, file_index>>}
<1>1. file_index \in Index /\ snap \in [Stage -> [Index -> Snapshot]]
  BY DEF TypeOK
<1>2. ASSUME NEW t \in Stage, NEW i \in Index
      PROVE  snap'[t][i] # "none"
               <=> snap[t][i] # "none" \/ (t = s /\ i = file_index)
  BY <1>1
<1>3. ASSUME NEW f
      PROVE  f \in AbsFiles' <=> f \in AbsFiles \cup {<<s, file_index>>}
  <2>1. CASE f \notin Stage \X Index
    BY <1>1, <2>1 DEF AbsFiles
  <2>2. CASE f \in Stage \X Index
    <3>1. PICK t \in Stage, i \in Index : f = <<t, i>>
      BY <2>2
    <3>2. f[1] = t /\ f[2] = i
      BY <3>1
    <3>3. f \in AbsFiles <=> snap[t][i] # "none"
      BY <2>2, <3>2 DEF AbsFiles
    <3>4. f \in AbsFiles' <=> snap'[t][i] # "none"
      BY <2>2, <3>2 DEF AbsFiles
    <3> QED
      BY <1>1, <1>2, <3>1, <3>3, <3>4
  <2> QED
    BY <2>1, <2>2
<1> QED
  BY <1>3

\* Every step of the program, with what the abstract launcher sees of it.
LEMMA MappedStep ==
    ASSUME RInv, [Next]_vars
    PROVE  [Abs!Next]_(Abs!vars)
<1> USE DEF RInv, IInv, AbsPhase, AbsBench, AbsMore, AbsFiles, BeforeLoop,
            Collecting, Ended, Launching, QuietEnds, TypeOK, Proc, NoPid,
            ForkFailed, launchVars, signalVars, quitVars, statsVars
<1>1. CASE IgnoreExit
  <2>1. CASE si_pid = "bench" /\ proc["bench"] = "zombie"
    <3>1. child = NoPid /\ proc' = [proc EXCEPT !["bench"] = "gone"]
      BY <1>1, <2>1 DEF IgnoreExit, Waited, Reaped
    <3>2. AbsBench = "dead" /\ AbsBench' = "reaped" /\ AbsPhase = "starting"
      BY <2>1, <3>1
    <3>3. UNCHANGED <<AbsPhase, child_quit, info_done, AbsMore, loop_count,
                      AbsFiles>>
      BY <1>1 DEF IgnoreExit
    <3>4. Abs!Lose
      BY <3>2, <3>3 DEF Abs!Lose
    <3> QED
      BY <3>4 DEF Abs!Next
  <2>2. CASE ~(si_pid = "bench" /\ proc["bench"] = "zombie")
    <3>1. proc'["bench"] = proc["bench"]
      BY <1>1, <2>2 DEF IgnoreExit, Reaped
    <3>2. UNCHANGED Abs!vars
      BY <1>1, <3>1 DEF IgnoreExit, Abs!vars
    <3> QED
      BY <3>2
  <2> QED
    BY <2>1, <2>2
<1>2. CASE NoticeExit
  <2>1. AbsPhase = "up" /\ child # NoPid
    BY <1>2 DEF NoticeExit, Waited, QuitOrder
  <2>2. UNCHANGED <<AbsPhase, info_done, loop_count, AbsFiles>>
    BY <1>2 DEF NoticeExit
  <2>3. AbsMore' \in {AbsMore, FALSE} /\ child_quit' = TRUE
    BY <1>2 DEF NoticeExit
  <2>4. CASE child = "bench"
    <3>1. si_pid = "bench" /\ proc["bench"] = "zombie"
      BY <1>2, <2>4 DEF NoticeExit, Waited
    <3>2. AbsBench = "dead" /\ AbsBench' = "reaped" /\ ~child_quit
      BY <1>2, <2>4, <3>1 DEF NoticeExit, Reaped, QuitOrder
    <3>3. Abs!Notice
      BY <2>1, <2>2, <2>3, <3>2 DEF Abs!Notice
    <3> QED
      BY <3>3 DEF Abs!Next
  <2>5. CASE child = ForkFailed
    <3>1. AbsBench = "none" /\ AbsBench' = "none"
      BY <1>2, <2>5 DEF NoticeExit, Reaped
    <3>2. CASE child_quit
      <4>1. AbsMore' = AbsMore
        BY <1>2, <3>2 DEF NoticeExit
      <4>2. UNCHANGED Abs!vars
        BY <2>2, <2>3, <3>1, <3>2, <4>1 DEF Abs!vars
      <4> QED
        BY <4>2
    <3>3. CASE ~child_quit
      <4>1. Abs!Notice
        BY <2>1, <2>2, <2>3, <3>1, <3>3 DEF Abs!Notice
      <4> QED
        BY <4>1 DEF Abs!Next
    <3> QED
      BY <3>2, <3>3
  <2> QED
    BY <2>1, <2>4, <2>5
<1>3. CASE Report
  <2>1. child_quit /\ AbsPhase = "up"
    BY <1>3 DEF Report, QuitOrder
  <2>2. info_done' = TRUE
    BY <1>3 DEF Report
  <2>3. UNCHANGED <<AbsPhase, AbsBench, child_quit, AbsMore, loop_count,
                    AbsFiles>>
    BY <1>3 DEF Report
  <2>4. Abs!Report
    BY <2>1, <2>2, <2>3 DEF Abs!Report
  <2> QED
    BY <2>4 DEF Abs!Next
<1>4. CASE Exit("bench")
  <2>1. AbsBench = "running" /\ AbsBench' = "dead"
    BY <1>4 DEF Exit
  <2>2. UNCHANGED <<AbsPhase, child_quit, info_done, AbsMore, loop_count,
                    AbsFiles>>
    BY <1>4 DEF Exit
  <2>3. Abs!End
    BY <2>1, <2>2 DEF Abs!End
  <2> QED
    BY <2>3 DEF Abs!Next
<1>5. CASE CollectorExit
  <2>1. PICK bad \in BOOLEAN : \E file \in Outcomes(bad) :
           snap' = [snap EXCEPT ![StageRunning][file_index] = file]
    BY <1>5 DEF CollectorExit
  <2>2. PICK file \in Outcomes(bad) :
           snap' = [snap EXCEPT ![StageRunning][file_index] = file]
    BY <2>1
  <2> DEFINE s == StageRunning
  <2>3. /\ s \in Stage /\ file_index = loop_count - 1
        /\ file_index \in Index /\ loop_count > 0
    BY <1>5 DEF CollectorExit, Blocked, StageRunning, Stage, Counting, Body,
                Index
  <2>4. snap[s][file_index] = "none"
    BY <1>5 DEF CollectorExit, Blocked, StageRunning, Unwritten
  <2>5. s = "pre" => snap["post"][file_index] = "none"
    BY <1>5 DEF CollectorExit, Blocked, StageRunning, Unwritten
  <2>6. UNCHANGED <<AbsPhase, AbsBench, child_quit, info_done, AbsMore,
                    loop_count>>
    BY <1>5 DEF CollectorExit
  <2>7. CASE file = "none"
    <3>1. snap' = snap
      BY <2>2, <2>3, <2>4, <2>7
    <3>2. UNCHANGED Abs!vars
      BY <2>6, <3>1 DEF Abs!vars
    <3> QED
      BY <3>2
  <2>8. CASE file # "none"
    <3>1. AbsFiles' = AbsFiles \cup {<<s, loop_count - 1>>}
      <4>1. file \in Snapshot
        BY DEF Outcomes, Snapshot
      <4>2. snap' = [snap EXCEPT ![s][file_index] = file]
        BY <2>2
      <4>3. TypeOK /\ s \in Stage
        BY <2>3
      <4> HIDE DEF s, TypeOK, AbsFiles
      <4>4. AbsFiles' = AbsFiles \cup {<<s, file_index>>}
        BY <2>8, <4>1, <4>2, <4>3, WrittenFile
      <4> QED
        BY <2>3, <4>4
    <3>2. <<s, loop_count - 1>> \notin AbsFiles
      BY <2>3, <2>4
    <3>3. s = "pre" => <<"post", loop_count - 1>> \notin AbsFiles
      BY <2>3, <2>5
    <3>4. AbsPhase = "up"
      BY <1>5 DEF CollectorExit, Blocked
    <3>5. CASE s = "pre"
      <4>1. Abs!Write("pre")
        BY <2>3, <2>6, <3>1, <3>2, <3>3, <3>4, <3>5 DEF Abs!Write
      <4> QED
        BY <4>1 DEF Abs!Next
    <3>6. CASE s = "post"
      <4>1. Abs!Write("post")
        BY <2>3, <2>6, <3>1, <3>2, <3>3, <3>4, <3>6 DEF Abs!Write
      <4> QED
        BY <4>1 DEF Abs!Next
    <3> QED
      BY <2>3, <3>5, <3>6 DEF Stage
  <2> QED
    BY <2>7, <2>8
<1>6. CASE ForkBench
  <2>1. AbsBench = "none" /\ AbsBench' = "running" /\ AbsPhase = "starting"
    BY <1>6 DEF ForkBench
  <2>2. UNCHANGED <<AbsPhase, child_quit, info_done, AbsMore, loop_count,
                    AbsFiles>>
    BY <1>6 DEF ForkBench
  <2>3. Abs!Start
    BY <2>1, <2>2 DEF Abs!Start
  <2> QED
    BY <2>3 DEF Abs!Next
<1>7. CASE AssignChild \/ ForkBenchFails
  <2>1. AbsPhase = "starting" /\ AbsPhase' = "up"
    BY <1>7 DEF AssignChild, ForkBenchFails, StoreChild, AfterFork
  <2>2. UNCHANGED <<AbsBench, child_quit, info_done, AbsMore, loop_count,
                    AbsFiles>>
    BY <1>7 DEF AssignChild, ForkBenchFails, StoreChild, AfterFork
  <2>3. Abs!Launched
    BY <2>1, <2>2 DEF Abs!Launched
  <2> QED
    BY <2>3 DEF Abs!Next
<1>8. CASE AwaitInfo
  <2>1. AbsPhase = "up" /\ AbsPhase' = "ended" /\ info_done
        /\ ~AbsMore /\ ~AbsMore'
    BY <1>8 DEF AwaitInfo
  <2>2. UNCHANGED <<AbsBench, child_quit, info_done, AbsMore, loop_count,
                    AbsFiles>>
    BY <1>8, <2>1 DEF AwaitInfo
  <2>3. Abs!Close
    BY <2>1, <2>2 DEF Abs!Close
  <2> QED
    BY <2>3 DEF Abs!Next
<1>9. CASE CollectPre
  <2>1. AbsPhase = "up" /\ AbsMore /\ AbsPhase' = "up"
    BY <1>9 DEF CollectPre
  <2>2. AbsMore' = ~child_quit /\ loop_count' = loop_count + 1
    BY <1>9 DEF CollectPre
  <2>3. AbsBench' = AbsBench
    BY <1>9 DEF CollectPre, Spawn
  <2>4. UNCHANGED <<child_quit, info_done, AbsFiles>>
    BY <1>9 DEF CollectPre
  <2>5. Abs!Collect
    BY <2>1, <2>2, <2>3, <2>4 DEF Abs!Collect
  <2> QED
    BY <2>5 DEF Abs!Next
<1>10. CASE DivideByZero
  <2>1. AbsPhase = "up" /\ loop_count = 1 /\ AbsPhase' = "ended" /\ ~AbsMore'
    BY <1>10 DEF DivideByZero, OneIteration, Counting, Body, Index
  <2>2. UNCHANGED <<AbsBench, child_quit, info_done, loop_count, AbsFiles>>
    BY <1>10 DEF DivideByZero
  <2>3. Abs!Crash
    BY <2>1, <2>2 DEF Abs!Crash
  <2> QED
    BY <2>3 DEF Abs!Next
<1>11. CASE Setup \/ OpenStats \/ SkipBody \/ DefragFails
  <2>1. /\ AbsPhase = "up" /\ AbsPhase' = "up"
        /\ AbsMore' \in {AbsMore, FALSE} /\ AbsMore \in BOOLEAN
    BY <1>11 DEF Setup, OpenStats, SkipBody, DefragFails
  <2>2. UNCHANGED <<AbsBench, child_quit, info_done, loop_count, AbsFiles>>
    BY <1>11 DEF Setup, OpenStats, SkipBody, DefragFails
  <2>3. CASE AbsMore' = AbsMore
    <3>1. UNCHANGED Abs!vars
      BY <2>1, <2>2, <2>3 DEF Abs!vars
    <3> QED
      BY <3>1
  <2>4. CASE AbsMore' # AbsMore
    <3>1. Abs!Stop
      BY <2>1, <2>2, <2>4 DEF Abs!Stop
    <3> QED
      BY <3>1 DEF Abs!Next
  <2> QED
    BY <2>3, <2>4
<1>12. CASE ForkPerf \/ AssignPerf \/ ForkPerfFails \/ PreReturns
            \/ StartDefrag \/ NoDefrag \/ CollectPost \/ PostReturns
            \/ LoopTest
  <2>1. pc' \notin {"fork", "forked"} /\ pc \notin {"fork", "forked"}
        /\ ~Ended /\ ~Ended'
    BY <1>12 DEF ForkPerf, AssignPerf, ForkPerfFails, StorePerf,
         PreReturns, StartDefrag, NoDefrag, CollectPost, PostReturns, LoopTest
  <2>2. AbsMore' = AbsMore
    BY <1>12 DEF ForkPerf, AssignPerf, ForkPerfFails, StorePerf,
         PreReturns, StartDefrag, NoDefrag, CollectPost, PostReturns, LoopTest
  <2>3. proc'["bench"] = proc["bench"]
    BY <1>12 DEF ForkPerf, AssignPerf, ForkPerfFails, StorePerf,
         PreReturns, SystemReturns, StartDefrag, NoDefrag, CollectPost, Spawn,
         PostReturns, LoopTest
  <2>4. UNCHANGED <<child_quit, info_done, loop_count, snap>>
    BY <1>12 DEF ForkPerf, AssignPerf, ForkPerfFails, StorePerf,
         PreReturns, StartDefrag, NoDefrag, CollectPost, PostReturns, LoopTest
  <2>5. UNCHANGED Abs!vars
    BY <2>1, <2>2, <2>3, <2>4 DEF Abs!vars
  <2> QED
    BY <2>5
<1>13. CASE Deliver \/ toggle_dumpstats_signal \/ Exit("perf")
            \/ UNCHANGED vars
  <2>1. UNCHANGED <<pc, child_quit, info_done, loop_count, snap>>
        /\ proc'["bench"] = proc["bench"]
    BY <1>13 DEF Deliver, toggle_dumpstats_signal, Exit, vars
  <2>2. UNCHANGED Abs!vars
    BY <2>1 DEF Abs!vars
  <2> QED
    BY <2>2
<1> QED
  BY <1>1, <1>2, <1>3, <1>4, <1>5, <1>6, <1>7, <1>8, <1>9, <1>10, <1>11,
     <1>12, <1>13 DEF Next, Main, Launch, ReadStats, Handler

\* However SIGCHLD, SIGUSR1 and the handler interleave, and for any number of
\* collections, the launcher of simple_run.cpp does only what Launcher allows.
THEOREM ImplementsSafety == Spec => Abs!Safety
<1>1. Init => Abs!Init
  BY DEF Init, Abs!Init, AbsPhase, AbsBench, AbsMore, AbsFiles, BeforeLoop,
         Ended, Stage, Index, Proc
<1>2. RInv /\ [Next]_vars => [Abs!Next]_(Abs!vars)
  BY MappedStep
<1> QED
  BY <1>1, <1>2, MappingInvariant, PTL DEF Spec, Abs!Safety
=============================================================================
