----------------------------- MODULE DefragLines -----------------------------
(***************************************************************************)
(* The lines of defrag_online_stats_<n>.  The nineteen counters of a chunk *)
(* are one number here.  A frame is written in hexadecimal: ds is the      *)
(* number of digits d it starts with.                                      *)
(***************************************************************************)
Header(n)     == [kind |-> "header", iter |-> n]
VmaLine(v)    == [kind |-> "vma", vma |-> v]
Chunk(n)      == [kind |-> "chunk", stats |-> n]
Torn          == [kind |-> "torn"]      \* a chunk cut by the end of a buffer
Failure(p, n, t) == [kind |-> "f", pfn |-> p, size |-> n, type |-> t]
DestPage(p, t)   == [kind |-> "dst", pfn |-> p, types |-> t]
Dashes        == [kind |-> "dashes"]
=============================================================================
