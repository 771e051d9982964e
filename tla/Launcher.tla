------------------------------- MODULE Launcher -------------------------------
(***************************************************************************)
(* What simple_run promises to run.sh, without its signals, its handler    *)
(* and its system(): it starts a benchmark, takes collections of it, one   *)
(* after the other, and ends after it has reported the benchmark's end.    *)
(* SimpleRun implements this specification.                                *)
(***************************************************************************)
EXTENDS Naturals

VARIABLES
    phase,      \* of the launcher: starting until the pid is known
    bench,      \* the benchmark
    quit,       \* the launcher knows that the benchmark has ended
    reported,   \* it has printed the times of the benchmark
    more,       \* another collection may begin
    taken,      \* the collections that began
    files       \* the snapshots that were written, <<stage, index>>

vars == <<phase, bench, quit, reported, more, taken, files>>

Init ==
    /\ phase = "starting" /\ bench = "none"
    /\ quit = FALSE /\ reported = FALSE
    /\ more = TRUE /\ taken = 0 /\ files = {}
-----------------------------------------------------------------------------
(* The benchmark                                                           *)

Start ==
    /\ phase = "starting" /\ bench = "none"
    /\ bench' = "running"
    /\ UNCHANGED <<phase, quit, reported, more, taken, files>>

End ==
    /\ bench = "running"
    /\ bench' = "dead"
    /\ UNCHANGED <<phase, quit, reported, more, taken, files>>

\* It is reaped before its pid is known: the launcher never learns of it.
Lose ==
    /\ phase = "starting" /\ bench = "dead"
    /\ bench' = "reaped"
    /\ UNCHANGED <<phase, quit, reported, more, taken, files>>
-----------------------------------------------------------------------------
(* The launcher                                                            *)

\* With a benchmark or, when the fork failed, without.
Launched ==
    /\ phase = "starting"
    /\ phase' = "up"
    /\ UNCHANGED <<bench, quit, reported, more, taken, files>>

\* A benchmark is reaped once, as a benchmark that failed to start is once
\* given up.  The collection in progress, or the one about to begin, is the
\* last.
Notice ==
    /\ phase = "up" /\ ~quit
    /\ bench \in {"dead", "none"}
    /\ bench' = IF bench = "dead" THEN "reaped" ELSE bench
    /\ quit' = TRUE
    /\ more' \in {more, FALSE}
    /\ UNCHANGED <<phase, reported, taken, files>>

Report ==
    /\ quit /\ phase = "up"
    /\ reported' = TRUE
    /\ UNCHANGED <<phase, bench, quit, more, taken, files>>

Collect ==
    /\ phase = "up" /\ more
    /\ taken' = taken + 1
    /\ more' = ~quit
    /\ UNCHANGED <<phase, bench, quit, reported, files>>

\* The snapshots of the last collection, the one before the defragmentation
\* first, each written once.
Write(s) ==
    /\ phase = "up" /\ taken > 0
    /\ <<s, taken - 1>> \notin files
    /\ s = "pre" => <<"post", taken - 1>> \notin files
    /\ files' = files \cup {<<s, taken - 1>>}
    /\ UNCHANGED <<phase, bench, quit, reported, more, taken>>

\* No collections were asked for, or one failed for good.
Stop ==
    /\ phase = "up" /\ more
    /\ more' = FALSE
    /\ UNCHANGED <<phase, bench, quit, reported, taken, files>>

Close ==
    /\ phase = "up"
    /\ reported /\ ~more
    /\ phase' = "ended"
    /\ UNCHANGED <<bench, quit, reported, more, taken, files>>

\* A division by zero, after the first collection.
Crash ==
    /\ phase = "up" /\ taken = 1
    /\ phase' = "ended" /\ more' = FALSE
    /\ UNCHANGED <<bench, quit, reported, taken, files>>
-----------------------------------------------------------------------------
Next == \/ Start \/ End \/ Lose \/ Launched \/ Notice \/ Report \/ Collect
        \/ Write("pre") \/ Write("post") \/ Stop \/ Close \/ Crash

Safety == Init /\ [][Next]_vars

Spec == Safety /\ (quit ~> phase = "ended")
=============================================================================
