------------------------------ MODULE SimpleRun ------------------------------
(***************************************************************************)
(* The launcher of simple_run.cpp.  It forks the benchmark and, when asked *)
(* to, perf; it takes a page map snapshot of the benchmark before and      *)
(* after every defragmentation through system(), and it learns that the    *)
(* benchmark ended only from the SIGCHLD handler child_exit.               *)
(*                                                                         *)
(* There is one thread and one signal handler.  A process that exits sets  *)
(* the pending SIGCHLD, of which the kernel keeps one: the first, with the *)
(* pid of the first process.  SIGCHLD is blocked while the handler runs    *)
(* and for the whole of system().  The main program stands still while the *)
(* handler runs; processes exit and signals arrive at any time.            *)
(***************************************************************************)
EXTENDS Naturals

CONSTANTS
    Options,    \* the command lines that are considered
    MaxIter     \* bound: collections are not started beyond this many

OptionRecord == [dumpstats : BOOLEAN, useSignal : BOOLEAN, syscall : BOOLEAN,
                 online : BOOLEAN, perf : BOOLEAN, factor : Nat]

ASSUME OptionsAssumption == Options \subseteq OptionRecord
ASSUME MaxIterAssumption == MaxIter \in Nat \ {0}

VARIABLES
    opt,                \* the parsed command line
    pc,                 \* where the main program is
    child, perf_pid,    \* the two global pid_t
    proc,               \* the processes as the kernel sees them
    sigchld,            \* the pending SIGCHLD: the si_pid it will carry
    handler, si_pid,    \* where child_exit is, and its argument
    child_quit, info_done, dumpstats_signal,
    loop_count, file_index,
    ret,                \* ret # 0
    sh,                 \* the running system(): was its target alive when it
                        \* started, is its exit status non-zero
    snap,               \* the pagemap_<pid>_<index>_{pre,post}.out files
    reported,           \* the collections an error line was printed for
    told                \* the pid SIGINT was sent to

launchVars == <<child, perf_pid>>
signalVars == <<sigchld, handler, si_pid>>
quitVars   == <<child_quit, info_done, told>>
statsVars  == <<loop_count, file_index, ret, sh, snap, reported>>

vars == <<opt, pc, launchVars, proc, signalVars, quitVars, dumpstats_signal,
          statsVars>>

Proc       == {"bench", "perf", "sh"}
NoPid      == "0"       \* a pid_t nobody assigned yet, no si_pid
ForkFailed == "-1"      \* what fork and waitpid return on failure
Pid        == Proc \cup {NoPid, ForkFailed}
Index      == 0 .. MaxIter
Stage      == {"pre", "post"}

\* A snapshot file: absent, of the whole address space, cut short by the end
\* of the target, or only the trailer written for a target that is dead.
Snapshot   == {"none", "whole", "cut", "stub"}

PC == {"fork", "forked", "perfFork", "perfForked", "setup", "open", "loop",
       "preRun", "preDone", "defrag", "postRun", "period", "await",
       "done", "crashed"}

Ended == pc \in {"done", "crashed"}

\* system() blocks SIGCHLD from before the spawn until its child is reaped.
Blocked == pc \in {"preRun", "postRun"}

Init ==
    /\ opt \in Options
    /\ pc = "fork"
    /\ child = NoPid /\ perf_pid = NoPid
    /\ proc = [p \in Proc |-> "none"]
    /\ sigchld = NoPid /\ handler = "idle" /\ si_pid = NoPid
    /\ child_quit = FALSE /\ info_done = FALSE /\ told = NoPid
    /\ dumpstats_signal = TRUE
    /\ loop_count = 0 /\ file_index = 0
    /\ ret = FALSE
    /\ sh = [live |-> FALSE, bad |-> FALSE]
    /\ snap = [s \in Stage |-> [i \in Index |-> "none"]]
    /\ reported = {}
-----------------------------------------------------------------------------
(* Signals                                                                 *)

\* A second SIGCHLD is dropped while one is pending.
Raise(p) == sigchld' = IF sigchld = NoPid THEN p ELSE sigchld

\* SIGCHLD has just been unblocked, or is not blocked and is delivered: the
\* pending one starts the handler; without one the main program goes on.
TakePending ==
    /\ handler' = IF sigchld = NoPid THEN "idle" ELSE "reap"
    /\ si_pid' = sigchld
    /\ sigchld' = NoPid

\* Mutant of Deliver: system() leaves SIGCHLD unblocked.
DeliverUnblocked ==
    /\ sigchld # NoPid /\ handler = "idle"
    /\ ~Ended
    /\ TakePending
    /\ UNCHANGED <<opt, pc, launchVars, proc, quitVars, dumpstats_signal,
                   statsVars>>

\* The pending SIGCHLD interrupts the main program.
Deliver ==
    /\ sigchld # NoPid /\ handler = "idle"
    /\ ~Blocked /\ ~Ended
    /\ TakePending
    /\ UNCHANGED <<opt, pc, launchVars, proc, quitVars, dumpstats_signal,
                   statsVars>>

\* What waitpid(p, &status, WNOHANG) returns.
Waited(p) == IF proc[p] = "zombie" THEN p ELSE ForkFailed

Reaped == [proc EXCEPT ![si_pid] = IF @ = "zombie" THEN "gone" ELSE @]

\* child_exit, the waitpid: another process than child, return.
IgnoreExit ==
    /\ handler = "reap"
    /\ Waited(si_pid) # child
    /\ proc' = Reaped
    /\ TakePending
    /\ UNCHANGED <<opt, pc, launchVars, quitVars, dumpstats_signal, statsVars>>

\* Mutants of NoticeExit: any SIGCHLD counts; child_quit is not set.
NoticeAnyExit ==
    /\ handler = "reap"
    /\ proc' = Reaped
    /\ child_quit' = TRUE
    /\ handler' = "report"
    /\ UNCHANGED <<opt, pc, launchVars, sigchld, si_pid, info_done, told,
                   dumpstats_signal, statsVars>>

NoticeForgotten ==
    /\ handler = "reap"
    /\ Waited(si_pid) = child
    /\ proc' = Reaped
    /\ handler' = "report"
    /\ UNCHANGED <<opt, pc, launchVars, sigchld, si_pid, quitVars,
                   dumpstats_signal, statsVars>>

\* child_exit, the waitpid: it is child.
NoticeExit ==
    /\ handler = "reap"
    /\ Waited(si_pid) = child
    /\ proc' = Reaped
    /\ child_quit' = TRUE
    /\ handler' = "report"
    /\ UNCHANGED <<opt, pc, launchVars, sigchld, si_pid, info_done, told,
                   dumpstats_signal, statsVars>>

\* Mutant of Report: info_done is set only when there is a perf to stop.
ReportToPerf ==
    /\ handler = "report"
    /\ told' = IF perf_pid # NoPid THEN perf_pid ELSE told
    /\ info_done' = (perf_pid # NoPid)
    /\ TakePending
    /\ UNCHANGED <<opt, pc, launchVars, proc, child_quit, dumpstats_signal,
                   statsVars>>

\* child_exit, after the report is printed.
Report ==
    /\ handler = "report"
    /\ told' = IF perf_pid # NoPid THEN perf_pid ELSE told
    /\ info_done' = TRUE
    /\ TakePending
    /\ UNCHANGED <<opt, pc, launchVars, proc, child_quit, dumpstats_signal,
                   statsVars>>

Handler == IgnoreExit \/ NoticeExit \/ Report

\* SIGUSR1, from outside, at any time once its action is installed.
toggle_dumpstats_signal ==
    /\ ~Ended
    /\ dumpstats_signal' = ~dumpstats_signal
    /\ UNCHANGED <<opt, pc, launchVars, proc, signalVars, quitVars, statsVars>>
-----------------------------------------------------------------------------
(* The processes                                                           *)

\* The benchmark or perf ends by itself, or because its exec failed.
Exit(p) ==
    /\ proc[p] = "running"
    /\ proc' = [proc EXCEPT ![p] = "zombie"]
    /\ Raise(p)
    /\ UNCHANGED <<opt, pc, launchVars, handler, si_pid, quitVars,
                   dumpstats_signal, statsVars>>

StageRunning == IF pc = "preRun" THEN "pre" ELSE "post"

\* What the collector leaves behind when its exit status is bad or not.
Outcomes(bad) ==
    (IF bad THEN {"none"} ELSE {})
    \cup (IF sh.live /\ ~bad THEN {"whole"} ELSE {})
    \cup (IF sh.live /\ (bad \/ proc["bench"] # "running")
          THEN {"cut"} ELSE {})
    \cup (IF proc["bench"] # "running" THEN {"stub"} ELSE {})

\* The shell that ran cap_pagecollect exits.
CollectorExit ==
    /\ Blocked /\ proc["sh"] = "running"
    /\ \E bad \in BOOLEAN : \E file \in Outcomes(bad) :
         /\ sh' = [sh EXCEPT !.bad = bad]
         /\ snap' = [snap EXCEPT ![StageRunning][file_index] = file]
    /\ proc' = [proc EXCEPT !["sh"] = "zombie"]
    /\ Raise("sh")
    /\ UNCHANGED <<opt, pc, launchVars, handler, si_pid, quitVars,
                   dumpstats_signal, loop_count, file_index, ret, reported>>
-----------------------------------------------------------------------------
(* main                                                                    *)

\* fork(); the child runs before the parent has stored its pid.
ForkBench ==
    /\ pc = "fork"
    /\ pc' = "forked"
    /\ proc' = [proc EXCEPT !["bench"] = "running"]
    /\ UNCHANGED <<opt, launchVars, signalVars, quitVars, dumpstats_signal,
                   statsVars>>

AfterFork == IF opt.perf THEN "perfFork" ELSE "setup"

StoreChild(pid) ==
    /\ child' = pid
    /\ pc' = AfterFork
    /\ UNCHANGED <<opt, perf_pid, proc, signalVars, quitVars,
                   dumpstats_signal, statsVars>>

AssignChild == pc = "forked" /\ StoreChild("bench")

\* fork() fails and nothing tests for it.
ForkBenchFails == pc = "fork" /\ StoreChild(ForkFailed)

ForkPerf ==
    /\ pc = "perfFork"
    /\ pc' = "perfForked"
    /\ proc' = [proc EXCEPT !["perf"] = "running"]
    /\ UNCHANGED <<opt, launchVars, signalVars, quitVars, dumpstats_signal,
                   statsVars>>

\* Mutant of StorePerf: the pid of perf is stored in child.
StorePerfInChild(pid) ==
    /\ child' = pid
    /\ pc' = "setup"
    /\ UNCHANGED <<opt, perf_pid, proc, signalVars, quitVars,
                   dumpstats_signal, statsVars>>

StorePerf(pid) ==
    /\ perf_pid' = pid
    /\ pc' = "setup"
    /\ UNCHANGED <<opt, child, proc, signalVars, quitVars, dumpstats_signal,
                   statsVars>>

AssignPerf == pc = "perfForked" /\ StorePerf("perf")

ForkPerfFails == pc = "perfFork" /\ StorePerf(ForkFailed)

Setup ==
    /\ pc = "setup"
    /\ dumpstats_signal' = IF opt.useSignal THEN FALSE ELSE dumpstats_signal
    /\ pc' = IF opt.dumpstats \/ opt.useSignal THEN "open" ELSE "await"
    /\ UNCHANGED <<opt, launchVars, proc, signalVars, quitVars, statsVars>>

AwaitInfo ==
    /\ pc = "await"
    /\ info_done
    /\ pc' = "done"
    /\ UNCHANGED <<opt, launchVars, proc, signalVars, quitVars,
                   dumpstats_signal, statsVars>>
-----------------------------------------------------------------------------
(* read_stats_periodically                                                 *)

\* The buffer and, with defrag_online_stats, the file: on failure the
\* function returns and no snapshot is ever taken.
OpenStats ==
    /\ pc = "open"
    /\ pc' \in {"loop", "await"}
    /\ UNCHANGED <<opt, launchVars, proc, signalVars, quitVars,
                   dumpstats_signal, statsVars>>

\* system() spawns the shell that runs the collector on app_pid.
Spawn ==
    /\ proc' = [proc EXCEPT !["sh"] = "running"]
    /\ sh' = [live |-> proc["bench"] = "running", bad |-> FALSE]

PrintError(stage, failed) ==
    reported' = IF failed THEN reported \cup {<<stage, file_index>>}
                          ELSE reported

CollectPre ==
    /\ pc = "loop"
    /\ dumpstats_signal
    /\ loop_count' = loop_count + 1
    /\ \/ pc' = "preRun" /\ Spawn /\ UNCHANGED <<ret, reported>>
       \/ /\ pc' = "preDone"            \* system() could not fork
          /\ ret' = TRUE
          /\ PrintError("pre", TRUE)
          /\ UNCHANGED <<proc, sh>>
    /\ UNCHANGED <<opt, launchVars, signalVars, quitVars, dumpstats_signal,
                   file_index, snap>>

SkipBody ==
    /\ pc = "loop"
    /\ ~dumpstats_signal
    /\ pc' = "period"
    /\ UNCHANGED <<opt, launchVars, proc, signalVars, quitVars,
                   dumpstats_signal, statsVars>>

\* system() reaps its own child and unblocks SIGCHLD.
SystemReturns ==
    /\ proc["sh"] = "zombie"
    /\ proc' = [proc EXCEPT !["sh"] = "none"]
    /\ TakePending

\* Mutant of PreReturns: its error line is forgotten.
PreReturnsSilently ==
    /\ pc = "preRun"
    /\ SystemReturns
    /\ ret' = sh.bad
    /\ pc' = "preDone"
    /\ UNCHANGED <<opt, launchVars, quitVars, dumpstats_signal, loop_count,
                   file_index, sh, snap, reported>>

\* system(precollect) is over: its status is stored and tested.
PreReturns ==
    /\ pc = "preRun"
    /\ SystemReturns
    /\ ret' = sh.bad
    /\ PrintError("pre", sh.bad)
    /\ pc' = "preDone"
    /\ UNCHANGED <<opt, launchVars, quitVars, dumpstats_signal, loop_count,
                   file_index, sh, snap>>

\* Mutant of DefragDue: the cadence counts from file_index.
DefragDueByIndex == file_index % opt.factor = 0

DefragDue == loop_count % opt.factor = 0

DivideByZero ==
    /\ pc = "preDone"
    /\ opt.factor = 0
    /\ pc' = "crashed"
    /\ UNCHANGED <<opt, launchVars, proc, signalVars, quitVars,
                   dumpstats_signal, statsVars>>

StartDefrag ==
    /\ pc = "preDone"
    /\ opt.factor # 0 /\ DefragDue /\ opt.syscall
    /\ pc' = "defrag"
    /\ UNCHANGED <<opt, launchVars, proc, signalVars, quitVars,
                   dumpstats_signal, statsVars>>

NoDefrag ==
    /\ pc = "preDone"
    /\ opt.factor # 0 /\ ~(DefragDue /\ opt.syscall)
    /\ file_index' = file_index + 1
    /\ pc' = "period"
    /\ UNCHANGED <<opt, launchVars, proc, signalVars, quitVars,
                   dumpstats_signal, loop_count, ret, sh, snap, reported>>

\* A negative result ends the loop, but only with defrag_online_stats.
DefragFails ==
    /\ pc = "defrag"
    /\ opt.online
    /\ pc' = "await"
    /\ UNCHANGED <<opt, launchVars, proc, signalVars, quitVars,
                   dumpstats_signal, statsVars>>

\* The last result is 0 (or negative without defrag_online_stats).
\* The result of this system() is not stored: the error line prints ret.
CollectPost ==
    /\ pc = "defrag"
    /\ \/ /\ pc' = "postRun"
          /\ Spawn
          /\ UNCHANGED <<file_index, reported>>
       \/ /\ pc' = "period"             \* system() could not fork
          /\ PrintError("post", ret)
          /\ file_index' = file_index + 1
          /\ UNCHANGED <<proc, sh>>
    /\ UNCHANGED <<opt, launchVars, signalVars, quitVars, dumpstats_signal,
                   loop_count, ret, snap>>

PostReturns ==
    /\ pc = "postRun"
    /\ SystemReturns
    /\ PrintError("post", ret)
    /\ file_index' = file_index + 1
    /\ pc' = "period"
    /\ UNCHANGED <<opt, launchVars, quitVars, dumpstats_signal, loop_count,
                   ret, sh, snap>>

\* Mutant of LoopTest: the loop goes on after child_quit.
LoopTestForever ==
    /\ pc = "period"
    /\ \/ child_quit /\ loop_count = MaxIter /\ pc' = "await"
       \/ loop_count < MaxIter /\ pc' = "loop"
    /\ UNCHANGED <<opt, launchVars, proc, signalVars, quitVars,
                   dumpstats_signal, statsVars>>

\* sleep(dumpstats_period) and the test of the do-while.  At the bound the
\* sleep lasts until the benchmark has quit.
LoopTest ==
    /\ pc = "period"
    /\ \/ child_quit /\ pc' = "await"
       \/ ~child_quit /\ loop_count < MaxIter /\ pc' = "loop"
    /\ UNCHANGED <<opt, launchVars, proc, signalVars, quitVars,
                   dumpstats_signal, statsVars>>
-----------------------------------------------------------------------------
Launch == ForkBench \/ AssignChild \/ ForkBenchFails \/ ForkPerf
          \/ AssignPerf \/ ForkPerfFails \/ Setup \/ AwaitInfo

ReadStats == OpenStats \/ CollectPre \/ SkipBody \/ PreReturns
             \/ DivideByZero \/ StartDefrag \/ NoDefrag \/ DefragFails
             \/ CollectPost \/ PostReturns \/ LoopTest

\* The main program takes a step only while the handler does not run.
Main == handler = "idle" /\ (Launch \/ ReadStats)

Next == Main \/ Deliver \/ Handler \/ toggle_dumpstats_signal
        \/ CollectorExit \/ Exit("bench") \/ Exit("perf")

\* The scheduler runs a launcher that can run, the kernel delivers signals,
\* and the collector ends.  The benchmark, perf and SIGUSR1 owe nothing.
Fairness == WF_vars(Main) /\ WF_vars(Deliver) /\ WF_vars(Handler)
            /\ WF_vars(CollectorExit)

Spec == Init /\ [][Next]_vars /\ Fairness

\* A launch whose benchmark ends, sooner or later.
TerminatingSpec == Spec /\ WF_vars(Exit("bench"))
-----------------------------------------------------------------------------
(* Safety                                                                  *)

\* Every variable has its type (the globals of simple_run.cpp:45-72 and the
\* locals of read_stats_periodically).
TypeOK ==
    /\ opt \in Options
    /\ pc \in PC
    /\ child \in {NoPid, ForkFailed, "bench"}
    /\ perf_pid \in {NoPid, ForkFailed, "perf"}
    /\ proc \in [Proc -> {"none", "running", "zombie", "gone"}]
    /\ sigchld \in Proc \cup {NoPid}
    /\ handler \in {"idle", "reap", "report"}
    /\ si_pid \in Proc \cup {NoPid}
    /\ child_quit \in BOOLEAN /\ info_done \in BOOLEAN
    /\ dumpstats_signal \in BOOLEAN
    /\ loop_count \in 0 .. MaxIter
    /\ file_index \in Index
    /\ ret \in BOOLEAN
    /\ sh \in [live : BOOLEAN, bad : BOOLEAN]
    /\ snap \in [Stage -> [Index -> Snapshot]]
    /\ reported \in SUBSET (Stage \X Index)
    /\ told \in Pid

\* The launcher reports, signals perf and ends only for a benchmark that is
\* really dead and reaped, or that never started: no other SIGCHLD (of perf,
\* of the shells of system()) is ever taken for the benchmark's, and neither
\* main nor the handler gets past its wait without it.
ReportAfterReap ==
    (child_quit \/ info_done \/ told # NoPid \/ pc = "done")
        => \/ child = "bench" /\ proc["bench"] = "gone"
           \/ child = ForkFailed /\ proc["bench"] = "none"

\* The handler reaps with waitpid on whatever pid a SIGCHLD names, and
\* system() needs the exit status of its own shell: the handler never gets
\* there first, and no shell outlives its system().
ShellIsSystems ==
    /\ Blocked => proc["sh"] \in {"running", "zombie"} /\ handler = "idle"
    /\ ~Blocked => proc["sh"] = "none"

\* loop_count and file_index, two counters that are incremented at different
\* places of the loop, never drift apart: snapshots are numbered without
\* gaps, nothing is written ahead of file_index, and a post snapshot exists
\* only for every factor-th index.  get_stats.sh and print_stats.py pair the
\* files by that index.
Numbering ==
    /\ \A s \in Stage : \A i \in Index :
         snap[s][i] # "none" => i < loop_count
    /\ \A i \in Index : snap["post"][i] # "none" =>
         opt.syscall /\ opt.factor # 0 /\ (i + 1) % opt.factor = 0
    /\ pc \in {"loop", "period"} => file_index = loop_count

\* get_stats.sh stops at the first index without a pre snapshot: one that is
\* missing below file_index has been reported on the launcher's output.
MissingPreReported ==
    \A i \in 0 .. file_index - 1 :
        snap["pre"][i] = "none" => <<"pre", i>> \in reported

\* The benchmark has ended, and its SIGCHLD was dropped or was consumed
\* before child was assigned.
Unheard == /\ proc["bench"] # "running"
           /\ ~child_quit
           /\ "bench" \notin {sigchld, si_pid}

\* The loop goes on with the pid of a dead process for at most one iteration:
\* a pre snapshot of a target that was already dead is the last one, unless
\* the launcher will never hear of the death.
StubIsLast ==
    \A i, j \in Index :
        (child = "bench" /\ snap["pre"][i] = "stub" /\ i < j /\ ~Unheard)
            => snap["pre"][j] = "none" /\ <<"pre", j>> \notin reported

\* child_exit prints one report, and SIGINT goes out once, for a benchmark
\* that was started.
ReportedOnce ==
    [][handler' = "report" /\ handler # "report"
         => ~child_quit \/ child = ForkFailed]_vars
-----------------------------------------------------------------------------
(* Liveness                                                                *)

\* Once the SIGCHLD of a benchmark whose pid is stored is pending, the
\* launcher ends, whatever it was doing: collecting, defragmenting, asleep.
HeardEnds == (sigchld = "bench" /\ child = "bench") ~> Ended

\* With neither perf nor snapshots a benchmark that ends after its pid was
\* stored always ends the launcher.
PlainEnds ==
    (child = "bench" /\ proc["bench"] = "running"
        /\ ~opt.perf /\ ~opt.dumpstats /\ ~opt.useSignal) ~> Ended

\* What run.sh:246-249 relies on ("save values of vmstat, capaging counters
\* after execution"): when the benchmark has ended the launcher ends.
BenchEndsLauncherEnds == (proc["bench"] = "zombie") ~> Ended

\* The part of it that child_exit has to do: the end of a benchmark whose pid
\* is stored sets child_quit, which the loop and main wait for.
StoredBenchEndIsNoticed ==
    (proc["bench"] = "zombie" /\ child = "bench") ~> child_quit
-----------------------------------------------------------------------------
(* The abstract launcher                                                   *)

Collecting == {"preRun", "preDone", "defrag", "postRun", "period"}
BeforeLoop == {"fork", "forked", "perfFork", "perfForked", "setup", "open",
               "loop"}

AbsPhase == IF pc \in {"fork", "forked"} THEN "starting"
            ELSE IF Ended THEN "ended" ELSE "up"

AbsBench == IF proc["bench"] = "zombie" THEN "dead"
            ELSE IF proc["bench"] = "gone" THEN "reaped"
            ELSE proc["bench"]

AbsMore == pc \in BeforeLoop \/ (pc \in Collecting /\ ~child_quit)

AbsFiles == {f \in Stage \X Index : snap[f[1]][f[2]] # "none"}

Abs == INSTANCE Launcher WITH
    phase <- AbsPhase, bench <- AbsBench, quit <- child_quit,
    reported <- info_done, more <- AbsMore, taken <- loop_count,
    files <- AbsFiles

\* What run.sh may rely on, however SIGCHLD, SIGUSR1 and the handler
\* interleave: collections come one after the other, at most one begins after
\* the end of the benchmark is known, no snapshot is written twice or to
\* another index than the collection's, and the launcher ends after it knows,
\* with a report before (child_exit, read_stats_periodically, main).
ImplementsLauncher == Abs!Spec
=============================================================================
