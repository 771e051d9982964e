---------------------------- MODULE MCSimpleRun ----------------------------
(***************************************************************************)
(* Values of the constants of SimpleRun for TLC.                           *)
(***************************************************************************)
EXTENDS SimpleRun

Launches(stats, perfs, factors) ==
    {o \in [dumpstats : stats, useSignal : stats, syscall : BOOLEAN,
            online : BOOLEAN, perf : perfs, factor : factors] :
        ~(o.dumpstats /\ o.useSignal) /\ (o.online => o.syscall)}

\* The launchers of run.sh, with and without perf, and a zero factor.
\* defrag_online_stats has an effect only along with the system call.
AllLaunches == Launches(BOOLEAN, BOOLEAN, 0 .. 2)

\* No snapshots and no perf: the launcher only waits.
PlainLaunches == Launches({FALSE}, {FALSE}, {1})

\* Snapshots around a system call that defragments, no perf.
SyscallLaunches ==
    {o \in Launches(BOOLEAN, {FALSE}, {1, 2}) : o.dumpstats /\ o.syscall}
=============================================================================
