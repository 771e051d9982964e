---------------------------- MODULE Tables_proofs ----------------------------
(***************************************************************************)
(* Proofs about Tables, as a part of ResultTools: the rows tables_plots.py *)
(* reads of the folders, and the means it makes of them.                   *)
(***************************************************************************)
EXTENDS Sums, ResultTools, SequenceTheorems, TLAPS

LEMMA MaxOf ==
    ASSUME NEW T, T \subseteq Nat, IsFiniteSet(T), T # {}
    PROVE  Max(T) \in T /\ \A x \in T : x <= Max(T)
<1>1. PICK m \in T : \A x \in T : x <= m
  BY GreatestOf
<1>2. \A x \in T : m >= x
  BY <1>1
<1>3. Max(T) \in T /\ \A x \in T : Max(T) >= x
  BY <1>1, <1>2 DEF Max
<1> QED
  BY <1>3

-----------------------------------------------------------------------------
(* tables_plots.py: the rows                                               *)

EntryOf(f) == [key |-> f.name, row |-> Plots!Row(f)]

RowsInv ==
    /\ pc \in {"walk", "done", "error"} /\ todo \subseteq folders
    /\ runs_dict \in Seq({EntryOf(f) : f \in folders})
    /\ \A n \in DOMAIN runs_dict : \E f \in folders \ todo :
           f.results /\ ~Plots!Unreadable(f) /\ runs_dict[n] = EntryOf(f)
    /\ \A m, n \in DOMAIN runs_dict :
           runs_dict[m].key = runs_dict[n].key => m = n

LEMMA KeyPlace ==
    ASSUME NEW dict, NEW key
    PROVE  LET place == Plots!SelectInSeq(dict, LAMBDA e : e.key = key)
           IN  \/ /\ place = 0
                  /\ \A n \in 1 .. Len(dict) : dict[n].key # key
               \/ place \in 1 .. Len(dict) /\ dict[place].key = key
<1> DEFINE I == {n \in 1 .. Len(dict) : dict[n].key = key}
           place == Plots!SelectInSeq(dict, LAMBDA e : e.key = key)
<1>1. place = IF I # {} THEN Plots!Min(I) ELSE 0
  BY DEF Plots!SelectInSeq
<1>2. CASE I = {}
  BY <1>1, <1>2
<1>3. CASE I # {}
  <2>1. \E n \in I : \A m \in I : n <= m
    <3>1. I \subseteq Nat
      OBVIOUS
    <3> HIDE DEF I
    <3> QED
      BY <1>3, <3>1, LeastNumber
  <2>2. Plots!Min(I) \in I
    BY <2>1 DEF Plots!Min
  <2> QED
    BY <1>1, <1>3, <2>2
<1> QED
  BY <1>2, <1>3

\* Of the two lists of rows, d has e at the place of its key, or behind all
\* others, and is otherwise the first.
PutAt(dict, d, e, place) ==
    /\ place \in DOMAIN d /\ d[place] = e /\ DOMAIN dict \subseteq DOMAIN d
    /\ \A n \in DOMAIN d \ {place} : n \in DOMAIN dict /\ d[n] = dict[n]
    /\ place \in DOMAIN dict => dict[place].key = e.key
    /\ place \notin DOMAIN dict => \A n \in DOMAIN dict : dict[n].key # e.key

LEMMA EnteredIs ==
    ASSUME NEW S, NEW dict \in Seq(S), NEW key, NEW row,
           NEW e \in S, e = [key |-> key, row |-> row],
           NEW d, d = Plots!Entered(dict, key, row)
    PROVE  /\ d \in Seq(S)
           /\ \E place : PutAt(dict, d, e, place)
<1> DEFINE place == Plots!SelectInSeq(dict, LAMBDA x : x.key = key)
<1>1. d = IF place = 0 THEN Append(dict, e) ELSE [dict EXCEPT ![place] = e]
  BY DEF Plots!Entered, Plots!ReplaceAt
<1>2. \/ place = 0 /\ \A n \in 1 .. Len(dict) : dict[n].key # key
      \/ place \in 1 .. Len(dict) /\ dict[place].key = key
  BY KeyPlace
<1>3. /\ e \in S /\ e.key = key
      /\ Len(dict) \in Nat /\ DOMAIN dict = 1 .. Len(dict)
  OBVIOUS
<1> HIDE DEF place
<1>4. CASE place = 0
  <2>1. d = Append(dict, e)
    BY <1>1, <1>4
  <2>2. /\ d \in Seq(S) /\ Len(d) = Len(dict) + 1
        /\ \A n \in DOMAIN dict : d[n] = dict[n]
        /\ d[Len(dict) + 1] = e
        /\ DOMAIN d = 1 .. Len(dict) + 1
    BY <1>3, <2>1
  <2>3. \A n \in DOMAIN dict : dict[n].key # key
    BY <1>2, <1>3, <1>4
  <2>4. Len(dict) + 1 \in DOMAIN d /\ Len(dict) + 1 \notin DOMAIN dict
    BY <1>3, <2>2
  <2>5. /\ \A n \in DOMAIN d \ {Len(dict) + 1} : n \in DOMAIN dict
        /\ DOMAIN dict \subseteq DOMAIN d
    BY <1>3, <2>2
  <2> QED
    BY <1>3, <2>2, <2>3, <2>4, <2>5 DEF PutAt
<1>5. CASE place # 0
  <2>1. d = [dict EXCEPT ![place] = e] /\ place \in DOMAIN dict /\ dict[place].key = key
    BY <1>1, <1>2, <1>3, <1>5
  <2>2. /\ d \in Seq(S) /\ Len(d) = Len(dict) /\ DOMAIN d = DOMAIN dict
        /\ \A n \in DOMAIN dict : n # place => d[n] = dict[n]
        /\ d[place] = e
    BY <1>3, <2>1
  <2> QED
    BY <1>3, <2>1, <2>2 DEF PutAt
<1> QED
  BY <1>4, <1>5

LEMMA InitRowsInv == ToolsInit => RowsInv
<1> SUFFICES ASSUME ToolsInit PROVE RowsInv
  OBVIOUS
<1>1. /\ pc \in {"walk", "done"} /\ todo = folders /\ runs_dict = <<>>
  BY DEF ToolsInit, NoFolders, Plots!Init
<1> QED
  BY <1>1 DEF RowsInv

LEMMA NextRowsInv ==
    RowsInv /\ [ToolsNext]_<<vars, logVars, tablesVars>> => RowsInv'
<1> SUFFICES ASSUME RowsInv, [ToolsNext]_<<vars, logVars, tablesVars>>
             PROVE  RowsInv'
  OBVIOUS
<1>1. ASSUME folders' = folders, todo' = todo, runs_dict' = runs_dict,
             pc' \in {"walk", "done", "error"}
      PROVE  RowsInv'
  BY <1>1 DEF RowsInv
<1>2. ASSUME UNCHANGED tablesVars PROVE RowsInv'
  BY <1>1, <1>2 DEF tablesVars, RowsInv
<1>3. ASSUME NEW f \in todo, Plots!PassOver(f) PROVE RowsInv'
  BY <1>3 DEF RowsInv, Plots!PassOver
<1>4. ASSUME NEW f \in todo, Plots!ReadFolder(f) PROVE RowsInv'
  <2>1. /\ folders' = folders /\ todo' = todo \ {f} /\ f.results
        /\ f \in folders /\ todo \subseteq folders
    BY <1>4 DEF Plots!ReadFolder, RowsInv
  <2>2. CASE Plots!Unreadable(f)
    <3>1. pc' = "error" /\ runs_dict' = runs_dict
      BY <1>4, <2>2 DEF Plots!ReadFolder
    <3> QED
      BY <2>1, <3>1 DEF RowsInv
  <2>3. CASE ~Plots!Unreadable(f)
    <3>1. /\ runs_dict' = Plots!Entered(runs_dict, f.name, Plots!Row(f))
          /\ pc' = pc
      BY <1>4, <2>3 DEF Plots!ReadFolder
    <3> DEFINE S == {EntryOf(g) : g \in folders}
               e == [key |-> f.name, row |-> Plots!Row(f)]
    <3>2. runs_dict \in Seq(S) /\ e \in S /\ e = EntryOf(f)
      BY <2>1 DEF RowsInv, EntryOf
    <3>3. runs_dict' \in Seq(S) /\ \E place : PutAt(runs_dict, runs_dict', e, place)
      <4> DEFINE d == runs_dict'
      <4>1. d = Plots!Entered(runs_dict, f.name, Plots!Row(f))
        BY <3>1
      <4>2. e = [key |-> f.name, row |-> Plots!Row(f)]
        OBVIOUS
      <4> HIDE DEF S, d, e
      <4>3. d \in Seq(S) /\ \E place : PutAt(runs_dict, d, e, place)
        BY <3>2, <4>1, <4>2, EnteredIs
      <4> QED
        BY <4>3 DEF d
    <3>4. PICK place : PutAt(runs_dict, runs_dict', e, place)
      BY <3>3
    <3>9. /\ place \in DOMAIN runs_dict' /\ runs_dict'[place] = e
          /\ \A n \in DOMAIN runs_dict' \ {place} :
                 n \in DOMAIN runs_dict /\ runs_dict'[n] = runs_dict[n]
          /\ place \in DOMAIN runs_dict => runs_dict[place].key = f.name
          /\ place \notin DOMAIN runs_dict =>
                 \A n \in DOMAIN runs_dict : runs_dict[n].key # f.name
      BY <3>4 DEF PutAt
    <3>5. \A n \in DOMAIN runs_dict' : \E g \in folders \ todo' :
              g.results /\ ~Plots!Unreadable(g) /\ runs_dict'[n] = EntryOf(g)
      <4> TAKE n \in DOMAIN runs_dict'
      <4>1. CASE n = place
        BY <2>1, <2>3, <3>2, <3>9, <4>1
      <4>2. CASE n # place
        <5>1. n \in DOMAIN runs_dict /\ runs_dict'[n] = runs_dict[n]
          BY <3>9, <4>2
        <5>2. PICK g \in folders \ todo :
                  g.results /\ ~Plots!Unreadable(g) /\ runs_dict[n] = EntryOf(g)
          BY <5>1 DEF RowsInv
        <5> QED
          BY <2>1, <5>1, <5>2
      <4> QED
        BY <4>1, <4>2
    <3>6. \A n \in DOMAIN runs_dict' \ {place} : runs_dict'[n].key # f.name
      <4> TAKE n \in DOMAIN runs_dict' \ {place}
      <4>1. n \in DOMAIN runs_dict /\ runs_dict'[n] = runs_dict[n]
        BY <3>9
      <4> QED
        BY <3>9, <4>1 DEF RowsInv
    <3>7. \A m, n \in DOMAIN runs_dict' :
              runs_dict'[m].key = runs_dict'[n].key => m = n
      <4> SUFFICES ASSUME NEW m \in DOMAIN runs_dict', NEW n \in DOMAIN runs_dict',
                          runs_dict'[m].key = runs_dict'[n].key
                   PROVE  m = n
        OBVIOUS
      <4>1. e.key = f.name
        OBVIOUS
      <4>2. CASE m = place \/ n = place
        BY <3>9, <3>6, <4>1, <4>2
      <4>3. CASE m # place /\ n # place
        BY <3>9, <4>3 DEF RowsInv
      <4> QED
        BY <4>2, <4>3
    <3> QED
      BY <2>1, <3>1, <3>3, <3>5, <3>7 DEF RowsInv
  <2> QED
    BY <2>2, <2>3
<1>5. ASSUME Plots!MakeTables \/ Plots!GiveUp PROVE RowsInv'
  BY <1>1, <1>5 DEF Plots!MakeTables, Plots!GiveUp
<1>6. ASSUME Plots!Next PROVE RowsInv'
  BY <1>3, <1>4, <1>5, <1>6 DEF Plots!Next
<1> QED
  BY <1>2, <1>6 DEF ToolsNext, ReportRanges, ReadLog, ReadFolders

\* The rows are those of folders that were read.
THEOREM RowsAreThoseOfFolders == ToolsSpec => []RowsInv
<1>1. ToolsInit => RowsInv
  BY InitRowsInv
<1>2. RowsInv /\ [ToolsNext]_<<vars, logVars, tablesVars>> => RowsInv'
  BY NextRowsInv
<1> QED
  BY <1>1, <1>2, PTL DEF ToolsSpec
-----------------------------------------------------------------------------
(* tables_plots.py: which runs are put together                            *)

OneMechanism == {"cap", "ranger"}

\* The pages that are marked are known for every row of both mechanisms, and
\* tables are made of the three known mechanisms only.
KindInv ==
    /\ IsList(marked_opts)
    /\ \A n \in DOMAIN runs_dict :
           runs_dict[n].key.defrag \notin OneMechanism =>
               \E i \in DOMAIN marked_opts : marked_opts[i] = runs_dict[n].key.mark
    /\ pc = "done" => \A key \in Plots!Keys : key.defrag \in OneMechanism \cup {"both"}

\* What is noted stays so.
LEMMA NotedIs ==
    ASSUME NEW list, IsList(list), NEW part,
           NEW l, l = Plots!Noted(list, part)
    PROVE  /\ IsList(l)
           /\ \E i \in DOMAIN l : l[i] = part
           /\ \A i \in DOMAIN list : i \in DOMAIN l /\ l[i] = list[i]
<1> DEFINE S == {list[i] : i \in DOMAIN list}
<1>1. list \in Seq(S) /\ Len(list) \in Nat /\ DOMAIN list = 1 .. Len(list)
  BY DEF IsList, Range
<1>2. CASE \E i \in 1 .. Len(list) : list[i] = part
  <2>1. l = list
    BY <1>2 DEF Plots!Noted, Plots!Contains
  <2> QED
    BY <1>1, <1>2, <2>1
<1>3. CASE ~\E i \in 1 .. Len(list) : list[i] = part
  <2>1. l = Append(list, part)
    BY <1>3 DEF Plots!Noted, Plots!Contains
  <2> DEFINE R == S \cup {part}
  <2>2. list \in Seq(R) /\ part \in R
    <3> HIDE DEF S
    <3> QED
      BY <1>1
  <2> HIDE DEF S, R
  <2>3. /\ l \in Seq(R) /\ DOMAIN l = 1 .. Len(list) + 1
        /\ l[Len(list) + 1] = part
        /\ \A i \in 1 .. Len(list) : l[i] = list[i]
    BY <1>1, <2>1, <2>2
  <2>4. IsList(l)
    BY <2>3 DEF IsList, Range
  <2> QED
    BY <1>1, <2>3, <2>4
<1> QED
  BY <1>2, <1>3

LEMMA InitKindInv == ToolsInit => KindInv
<1> SUFFICES ASSUME ToolsInit PROVE KindInv
  OBVIOUS
<1>1. runs_dict = <<>> /\ marked_opts = <<>>
  BY DEF ToolsInit, NoFolders, Plots!Init
<1> QED
  BY <1>1 DEF KindInv, Plots!Keys, IsList, Range

LEMMA NextKindInv ==
    RowsInv /\ KindInv /\ [ToolsNext]_<<vars, logVars, tablesVars>> => KindInv'
<1> SUFFICES ASSUME RowsInv, KindInv, [ToolsNext]_<<vars, logVars, tablesVars>>
             PROVE  KindInv'
  OBVIOUS
<1>1. ASSUME marked_opts' = marked_opts, runs_dict' = runs_dict,
             pc' = pc \/ pc' # "done"
      PROVE  KindInv'
  BY <1>1 DEF KindInv, Plots!Keys
<1>2. ASSUME UNCHANGED tablesVars PROVE KindInv'
  BY <1>1, <1>2 DEF tablesVars
<1>3. ASSUME NEW f \in todo, Plots!PassOver(f) PROVE KindInv'
  BY <1>1, <1>3 DEF Plots!PassOver, Plots!names
<1>4. ASSUME NEW f \in todo, Plots!ReadFolder(f) PROVE KindInv'
  <2>1. /\ pc = "walk" /\ pc' \in {"walk", "error"}
        /\ marked_opts' = IF f.name.defrag \in OneMechanism THEN marked_opts
                          ELSE Plots!Noted(marked_opts, f.name.mark)
        /\ \/ runs_dict' = runs_dict
           \/ runs_dict' = Plots!Entered(runs_dict, f.name, Plots!Row(f))
    BY <1>4 DEF Plots!ReadFolder, Plots!get_bench_run_characteristics, OneMechanism
  <2>2. /\ IsList(marked_opts)'
        /\ \A i \in DOMAIN marked_opts :
               i \in DOMAIN marked_opts' /\ marked_opts'[i] = marked_opts[i]
        /\ f.name.defrag \notin OneMechanism =>
               \E i \in DOMAIN marked_opts' : marked_opts'[i] = f.name.mark
    <3>1. CASE f.name.defrag \in OneMechanism
      BY <2>1, <3>1 DEF KindInv
    <3>2. CASE f.name.defrag \notin OneMechanism
      <4> DEFINE l == marked_opts'
      <4>1. l = Plots!Noted(marked_opts, f.name.mark)
        BY <2>1, <3>2
      <4>2. IsList(marked_opts)
        BY DEF KindInv
      <4> HIDE DEF l
      <4>3. /\ IsList(l)
            /\ \E i \in DOMAIN l : l[i] = f.name.mark
            /\ \A i \in DOMAIN marked_opts : i \in DOMAIN l /\ l[i] = marked_opts[i]
        BY <4>1, <4>2, NotedIs
      <4> QED
        BY <3>2, <4>3 DEF l
    <3> QED
      BY <3>1, <3>2
  <2>3. \A n \in DOMAIN runs_dict :
            runs_dict[n].key.defrag \notin OneMechanism =>
                \E i \in DOMAIN marked_opts' : marked_opts'[i] = runs_dict[n].key.mark
    BY <2>2 DEF KindInv
  <2>4. \A n \in DOMAIN runs_dict' :
            runs_dict'[n].key.defrag \notin OneMechanism =>
                \E i \in DOMAIN marked_opts' : marked_opts'[i] = runs_dict'[n].key.mark
    <3>1. CASE runs_dict' = runs_dict
      BY <2>3, <3>1
    <3>2. CASE runs_dict' = Plots!Entered(runs_dict, f.name, Plots!Row(f))
      <4> DEFINE e == [key |-> f.name, row |-> Plots!Row(f)]
                 S == {EntryOf(g) : g \in folders} \cup {e}
      <4>1. runs_dict \in Seq(S) /\ e \in S
        BY DEF RowsInv
      <4> DEFINE d == runs_dict'
      <4>2. d = Plots!Entered(runs_dict, f.name, Plots!Row(f))
        BY <3>2
      <4>3. e = [key |-> f.name, row |-> Plots!Row(f)] /\ e.key = f.name
        OBVIOUS
      <4> HIDE DEF S, e, d
      <4>4. PICK place : PutAt(runs_dict, d, e, place)
        BY <4>1, <4>2, <4>3, EnteredIs
      <4>5. \A n \in DOMAIN d : \/ d[n] = e
                                \/ n \in DOMAIN runs_dict /\ d[n] = runs_dict[n]
        BY <4>4 DEF PutAt
      <4> SUFFICES ASSUME NEW n \in DOMAIN d, d[n].key.defrag \notin OneMechanism
                   PROVE  \E i \in DOMAIN marked_opts' : marked_opts'[i] = d[n].key.mark
        BY DEF d
      <4>6. CASE d[n] = e
        BY <2>2, <4>3, <4>6
      <4>7. CASE n \in DOMAIN runs_dict /\ d[n] = runs_dict[n]
        BY <2>3, <4>7
      <4> QED
        BY <4>5, <4>6, <4>7
    <3> QED
      BY <2>1, <3>1, <3>2
  <2> QED
    BY <2>1, <2>2, <2>4 DEF KindInv
<1>5. ASSUME Plots!MakeTables PROVE KindInv'
  <2>1. /\ marked_opts' = marked_opts /\ runs_dict' = runs_dict
        /\ \A key \in Plots!Keys : key.defrag \in {"cap", "ranger", "both"}
    BY <1>5 DEF Plots!MakeTables, Plots!names, Plots!NoTables
  <2> QED
    BY <2>1 DEF KindInv, Plots!Keys, OneMechanism
<1>6. ASSUME Plots!GiveUp PROVE KindInv'
  BY <1>1, <1>6 DEF Plots!GiveUp, Plots!names
<1>7. ASSUME Plots!Next PROVE KindInv'
  BY <1>3, <1>4, <1>5, <1>6, <1>7 DEF Plots!Next
<1> QED
  BY <1>2, <1>7 DEF ToolsNext, ReportRanges, ReadLog, ReadFolders

\* A case names the mechanism; for both at once also the failures, and the
\* pages that are marked unless they are the same for all.
LEMMA CaseIs ==
    ASSUME NEW key, key.defrag \in OneMechanism \cup {"both"}
    PROVE  /\ key.defrag = "cap" => Plots!Case(key) = <<"CaPaging">>
           /\ key.defrag = "ranger" => Plots!Case(key) = <<"TRanger">>
           /\ key.defrag = "both" =>
                  Plots!Case(key) = IF Len(marked_opts) = 1
                                    THEN <<"MACAP", key.fails>>
                                    ELSE <<"Both", key.mark, key.fails>>
  BY DEF Plots!Case, OneMechanism

LEMMA CasesDiffer ==
    /\ <<"CaPaging">> # <<"TRanger">>
    /\ \A x : <<"CaPaging">> # <<"MACAP", x>> /\ <<"TRanger">> # <<"MACAP", x>>
    /\ \A x, y : <<"CaPaging">> # <<"Both", x, y>> /\ <<"TRanger">> # <<"Both", x, y>>
    /\ \A x, y : <<"MACAP", x>> = <<"MACAP", y>> <=> x = y
    /\ \A w, x, y, z : <<"Both", w, x>> = <<"Both", y, z>> <=> w = y /\ x = z
<1>1. <<"CaPaging">>[1] = "CaPaging" /\ <<"TRanger">>[1] = "TRanger"
  OBVIOUS
<1>2. \A x : <<"MACAP", x>>[1] = "MACAP" /\ <<"MACAP", x>>[2] = x
  OBVIOUS
<1>3. \A x, y : /\ <<"Both", x, y>>[1] = "Both" /\ <<"Both", x, y>>[2] = x
                /\ <<"Both", x, y>>[3] = y
  OBVIOUS
<1>4. /\ "CaPaging" # "TRanger" /\ "CaPaging" # "MACAP" /\ "TRanger" # "MACAP"
      /\ "CaPaging" # "Both" /\ "TRanger" # "Both"
  OBVIOUS
<1>5. /\ <<"CaPaging">> # <<"TRanger">>
      /\ \A x : <<"CaPaging">> # <<"MACAP", x>> /\ <<"TRanger">> # <<"MACAP", x>>
  BY <1>1, <1>2, <1>4
<1>6. \A x, y : <<"CaPaging">> # <<"Both", x, y>> /\ <<"TRanger">> # <<"Both", x, y>>
  BY <1>1, <1>3, <1>4
<1>7. \A x, y : <<"MACAP", x>> = <<"MACAP", y>> <=> x = y
  BY <1>2
<1>8. \A w, x, y, z : <<"Both", w, x>> = <<"Both", y, z>> <=> w = y /\ x = z
  BY <1>3
<1> QED
  BY <1>5, <1>6, <1>7, <1>8

LEMMA KindsAreCases == RowsInv /\ KindInv => CasesAreOfOneKind
<1> SUFFICES ASSUME RowsInv, KindInv, pc = "done",
                    NEW a \in Plots!Keys, NEW b \in Plots!Keys,
                    a.bench = b.bench, a.frag = b.frag
             PROVE  Plots!SameKind(a, b) <=> Plots!Case(a) = Plots!Case(b)
  BY DEF CasesAreOfOneKind, Plots!CasesAreOfOneKind, Plots!SameKind
<1> DEFINE same == /\ a.defrag = b.defrag
                   /\ a.defrag = "both" => a.mark = b.mark /\ a.fails = b.fails
           ca == Plots!Case(a)
           cb == Plots!Case(b)
<1>1. Plots!SameKind(a, b) <=> same
  BY DEF Plots!SameKind
<1>2. a.defrag \in OneMechanism \cup {"both"} /\ b.defrag \in OneMechanism \cup {"both"}
  BY DEF KindInv
<1>3. /\ a.defrag \in {"cap", "ranger", "both"}
      /\ b.defrag \in {"cap", "ranger", "both"}
  BY <1>2 DEF OneMechanism
\* With one entry of marked_opts, the marked pages are those of all.
<1>4. ASSUME Len(marked_opts) = 1, a.defrag = "both", b.defrag = "both"
      PROVE  a.mark = b.mark
  <2>1. DOMAIN marked_opts = 1 .. Len(marked_opts)
    BY DEF KindInv, IsList, Range
  <2>2. \A i \in DOMAIN marked_opts : i = 1
    BY <1>4, <2>1
  <2>3. /\ \E i \in DOMAIN marked_opts : marked_opts[i] = a.mark
        /\ \E i \in DOMAIN marked_opts : marked_opts[i] = b.mark
    BY <1>4 DEF KindInv, Plots!Keys, OneMechanism
  <2> QED
    BY <2>2, <2>3
<1>5. /\ a.defrag = "cap" => ca = <<"CaPaging">>
      /\ a.defrag = "ranger" => ca = <<"TRanger">>
      /\ a.defrag = "both" => ca = IF Len(marked_opts) = 1
                                   THEN <<"MACAP", a.fails>>
                                   ELSE <<"Both", a.mark, a.fails>>
  BY <1>2, CaseIs
<1>6. /\ b.defrag = "cap" => cb = <<"CaPaging">>
      /\ b.defrag = "ranger" => cb = <<"TRanger">>
      /\ b.defrag = "both" => cb = IF Len(marked_opts) = 1
                                   THEN <<"MACAP", b.fails>>
                                   ELSE <<"Both", b.mark, b.fails>>
  BY <1>2, CaseIs
<1> HIDE DEF ca, cb
<1>7. same <=> ca = cb
  <2>1. CASE a.defrag = "both" /\ b.defrag = "both"
    <3>1. CASE Len(marked_opts) = 1
      <4>1. ca = <<"MACAP", a.fails>> /\ cb = <<"MACAP", b.fails>>
        BY <1>5, <1>6, <2>1, <3>1
      <4> QED
        BY <1>4, <2>1, <3>1, <4>1, CasesDiffer
    <3>2. CASE Len(marked_opts) # 1
      <4>1. ca = <<"Both", a.mark, a.fails>> /\ cb = <<"Both", b.mark, b.fails>>
        BY <1>5, <1>6, <2>1, <3>2
      <4> QED
        BY <2>1, <4>1, CasesDiffer
    <3> QED
      BY <3>1, <3>2
  <2>2. CASE a.defrag = b.defrag /\ a.defrag # "both"
    BY <1>3, <1>5, <1>6, <2>2
  <2>3. CASE a.defrag # b.defrag
    BY <1>3, <1>5, <1>6, <2>3, CasesDiffer
  <2> QED
    BY <2>1, <2>2, <2>3
<1> QED
  BY <1>1, <1>7 DEF ca, cb

\* Two runs are put into the same row of the tables if and only if they are
\* of the same kind, for any folders in any order.
THEOREM RowsAreOfOneKind == ToolsSpec => []CasesAreOfOneKind
<1>1. ToolsInit => RowsInv /\ KindInv
  BY InitRowsInv, InitKindInv
<1>2. RowsInv /\ KindInv /\ [ToolsNext]_<<vars, logVars, tablesVars>>
          => RowsInv' /\ KindInv'
  BY NextRowsInv, NextKindInv
<1>3. RowsInv /\ KindInv => CasesAreOfOneKind
  BY KindsAreCases
<1> QED
  BY <1>1, <1>2, <1>3, PTL DEF ToolsSpec
-----------------------------------------------------------------------------
(* tables_plots.py: the largest collection                                 *)

Least(s) == Plots!Min(s)

\* One more collection is looked place, the one with the least number of s.
Larger(cs, s, best) ==
    IF Plots!Exceeds(cs[Least(s)], best) THEN <<cs[Least(s)]>> ELSE best

IsLargestOf(I, cs, S) ==
    I = [s \in SUBSET S |-> IF s = {} THEN <<>>
                                      ELSE Larger(cs, s, I[s \ {Least(s)}])]

LEMMA LeastOf ==
    ASSUME NEW s, s \subseteq Nat, s # {}
    PROVE  Least(s) \in s /\ \A x \in s : Least(s) <= x
<1>1. \E n \in s : \A m \in s : n <= m
  BY LeastNumber
<1> QED
  BY <1>1 DEF Least, Plots!Min

LEMMA LeastOfRange ==
    ASSUME NEW m \in Nat, NEW n \in Nat, m <= n
    PROVE  Least(m .. n) = m
<1> DEFINE s == m .. n
<1>1. s \subseteq Nat /\ m \in s /\ s # {} /\ \A x \in s : m <= x
  OBVIOUS
<1> HIDE DEF s
<1>2. Least(s) \in s /\ \A x \in s : Least(s) <= x
  BY <1>1, LeastOf
<1>3. Least(s) <= m /\ m <= Least(s) /\ Least(s) \in Nat
  BY <1>1, <1>2
<1> QED
  BY <1>3 DEF s

\* The fold over the collections exists, on every set of their numbers.
LEMMA LargestExists ==
    ASSUME NEW cs, NEW S, S \subseteq Nat, IsFiniteSet(S)
    PROVE  \E I : IsLargestOf(I, cs, S)
<1> DEFINE Sub(n) == {s \in SUBSET S : Cardinality(s) <= n}
           Upto(h, n) ==
               /\ h = [s \in Sub(n) |-> h[s]]
               /\ h[{}] = <<>>
               /\ \A s \in Sub(n) \ {{}} : h[s] = Larger(cs, s, h[s \ {Least(s)}])
           Some == {n \in Nat : \E h : Upto(h, n)}
<1>a. \A s \in SUBSET S : Cardinality(s) \in Nat
                             /\ (Cardinality(s) = 0 <=> s = {})
  BY SizeOfSubset
<1>b. \A n \in Nat, s \in SUBSET S : s # {} /\ Cardinality(s) <= n + 1
          => s \ {Least(s)} \in Sub(n)
  <2> SUFFICES ASSUME NEW n \in Nat, NEW s \in SUBSET S, s # {},
                      Cardinality(s) <= n + 1
               PROVE  s \ {Least(s)} \in Sub(n)
    OBVIOUS
  <2>1. Cardinality(s) \in Nat /\ Cardinality(s) # 0
    BY <1>a
  <2> DEFINE m == Cardinality(s) - 1
  <2>2. m \in Nat /\ Cardinality(s) = m + 1 /\ m <= n
    BY <2>1
  <2> HIDE DEF m
  <2>3. Least(s) \in s
    BY LeastOf
  <2>4. s \ {Least(s)} \in SUBSET S /\ Cardinality(s \ {Least(s)}) = m
    BY <2>2, <2>3, RemoveOne
  <2> QED
    BY <2>2, <2>4
<1>1. 0 \in Some
  <2> DEFINE h == [s \in Sub(0) |-> <<>>]
  <2>1. \A s \in Sub(0) : s = {}
    BY <1>a
  <2>2. {} \in Sub(0)
    BY <1>a
  <2> HIDE DEF Sub
  <2>3. h = [s \in Sub(0) |-> h[s]] /\ h[{}] = <<>>
    BY <2>2
  <2> HIDE DEF h
  <2>4. Upto(h, 0)
    BY <2>1, <2>3
  <2> HIDE DEF Upto
  <2> QED
    BY <2>4
<1>2. \A n \in Nat : n \in Some => n + 1 \in Some
  <2> HIDE DEF Upto
  <2> SUFFICES ASSUME NEW n \in Nat, NEW h, Upto(h, n)
               PROVE  \E g : Upto(g, n + 1)
    OBVIOUS
  <2> USE DEF Upto
  <2> DEFINE g == [s \in Sub(n + 1) |->
                      IF s = {} THEN <<>> ELSE Larger(cs, s, h[s \ {Least(s)}])]
  <2>1. {} \in Sub(n + 1) /\ Sub(n) \subseteq Sub(n + 1)
    BY <1>a
  <2>2. g[{}] = <<>> /\ g = [s \in Sub(n + 1) |-> g[s]]
    BY <2>1
  <2>3. \A s \in Sub(n) : g[s] = h[s]
    <3> TAKE s \in Sub(n)
    <3>1. s \in Sub(n + 1)
      BY <2>1
    <3> HIDE DEF Sub
    <3>2. g[s] = IF s = {} THEN <<>> ELSE Larger(cs, s, h[s \ {Least(s)}])
      BY <3>1
    <3> HIDE DEF g
    <3> QED
      BY <3>2
  <2>4. \A s \in Sub(n + 1) \ {{}} : g[s] = Larger(cs, s, g[s \ {Least(s)}])
    <3> TAKE s \in Sub(n + 1) \ {{}}
    <3>1. s \ {Least(s)} \in Sub(n)
      BY <1>b
    <3> HIDE DEF Sub
    <3>2. g[s] = Larger(cs, s, h[s \ {Least(s)}])
      OBVIOUS
    <3> HIDE DEF g
    <3> QED
      BY <2>3, <3>1, <3>2
  <2> HIDE DEF g, Sub
  <2>5. Upto(g, n + 1)
    BY <2>2, <2>4
  <2> HIDE DEF Upto
  <2> QED
    BY <2>5
<1>3. Cardinality(S) \in Nat /\ Sub(Cardinality(S)) = SUBSET S
  BY FS_CardinalityType, FS_Subset
<1>4. \E h : Upto(h, Cardinality(S))
  <2> HIDE DEF Some, Upto
  <2>1. Nat \subseteq Some
    BY <1>1, <1>2, NumbersOf
  <2> QED
    BY <1>3, <2>1 DEF Some
<1>5. PICK h : Upto(h, Cardinality(S))
  BY <1>4
<1>6. IsLargestOf(h, cs, S)
  <2> DEFINE k == [s \in SUBSET S |->
                      IF s = {} THEN <<>> ELSE Larger(cs, s, h[s \ {Least(s)}])]
  <2>1. \A s \in SUBSET S : h[s] = k[s]
    BY <1>3, <1>5
  <2>2. h = [s \in SUBSET S |-> h[s]]
    BY <1>3, <1>5
  <2> HIDE DEF Upto
  <2>3. h = k
    BY <2>1, <2>2
  <2> HIDE DEF k
  <2> QED
    BY <2>3 DEF IsLargestOf, k
<1> QED
  BY <1>6

\* One of the largest among the collections with the numbers of s.
IsChosen(cs, s, i) ==
    /\ i \in s
    /\ \A j \in s : /\ 100 * cs[j].total_pages <= 102 * cs[i].total_pages
                    /\ j > i => cs[j].total_pages < cs[i].total_pages

IsBest(cs, m, n, best) ==
    IF m > n THEN best = <<>>
             ELSE \E i : IsChosen(cs, m .. n, i) /\ best = <<cs[i]>>
Sized(cs, m, n) == \A j \in m .. n : cs[j].total_pages \in Nat

LEMMA OneMoreCollection ==
    ASSUME NEW cs, NEW m \in Nat, NEW n \in Nat, m <= n, Sized(cs, m, n),
           NEW best, IsBest(cs, m + 1, n, best)
    PROVE  IsBest(cs, m, n, Larger(cs, m .. n, best))
<1> SUFFICES \E i : IsChosen(cs, m .. n, i) /\ Larger(cs, m .. n, best) = <<cs[i]>>
  BY DEF IsBest
<1>a. \A j \in m .. n : cs[j].total_pages \in Nat
  BY DEF Sized
<1>1. Least(m .. n) = m
  BY LeastOfRange
<1>2. Larger(cs, m .. n, best) = IF Plots!Exceeds(cs[m], best) THEN <<cs[m]>> ELSE best
  BY <1>1 DEF Larger
<1>3. m \in m .. n /\ \A j \in m .. n : j = m \/ j \in (m + 1) .. n
  OBVIOUS
<1>4. CASE m = n /\ best = <<>>
  <2>1. Larger(cs, m .. n, best) = <<cs[m]>>
    BY <1>2, <1>4 DEF Plots!Exceeds
  <2>2. IsChosen(cs, m .. n, m)
    BY <1>a, <1>3, <1>4 DEF IsChosen
  <2> QED
    BY <2>1, <2>2
<1>5. ASSUME NEW b, IsChosen(cs, (m + 1) .. n, b), best = <<cs[b]>>
      PROVE  \E i : IsChosen(cs, m .. n, i) /\ Larger(cs, m .. n, best) = <<cs[i]>>
  <2>1. /\ b \in (m + 1) .. n /\ b \in m .. n /\ b > m
        /\ cs[b].total_pages \in Nat /\ cs[m].total_pages \in Nat
    BY <1>a, <1>3, <1>5 DEF IsChosen
  <2>2. Plots!Exceeds(cs[m], best) <=> 100 * cs[m].total_pages > 102 * cs[b].total_pages
    <3>1. best # <<>> /\ best[1] = cs[b]
      BY <1>5
    <3> QED
      BY <3>1 DEF Plots!Exceeds
  <2>3. \A j \in (m + 1) .. n : /\ 100 * cs[j].total_pages <= 102 * cs[b].total_pages
                                /\ cs[j].total_pages \in Nat /\ j \in Int /\ j > m
                                /\ j > b => cs[j].total_pages < cs[b].total_pages
    BY <1>a, <1>5 DEF IsChosen
  <2>4. CASE Plots!Exceeds(cs[m], best)
    <3>1. Larger(cs, m .. n, best) = <<cs[m]>>
      BY <1>2, <2>4
    <3>2. \A j \in m .. n :
              /\ 100 * cs[j].total_pages <= 102 * cs[m].total_pages
              /\ j > m => cs[j].total_pages < cs[m].total_pages
      <4> TAKE j \in m .. n
      <4>1. CASE j = m
        BY <2>1, <4>1
      <4>2. CASE j \in (m + 1) .. n
        <5> DEFINE x == cs[j].total_pages
                   y == cs[b].total_pages
                   z == cs[m].total_pages
        <5>1. /\ x \in Nat /\ y \in Nat /\ z \in Nat
              /\ 100 * x <= 102 * y /\ 100 * z > 102 * y
          BY <2>1, <2>2, <2>3, <2>4, <4>2
        <5> HIDE DEF x, y, z
        <5>2. 100 * x <= 102 * z /\ x < z
          BY <5>1
        <5> QED
          BY <5>2 DEF x, z
      <4> QED
        BY <1>3, <4>1, <4>2
    <3> QED
      BY <1>3, <3>1, <3>2 DEF IsChosen
  <2>5. CASE ~Plots!Exceeds(cs[m], best)
    <3>1. Larger(cs, m .. n, best) = <<cs[b]>>
      BY <1>2, <1>5, <2>5
    <3>2. \A j \in m .. n :
              /\ 100 * cs[j].total_pages <= 102 * cs[b].total_pages
              /\ j > b => cs[j].total_pages < cs[b].total_pages
      <4> TAKE j \in m .. n
      <4>1. CASE j = m
        <5> DEFINE y == cs[b].total_pages
                   z == cs[m].total_pages
        <5>1. y \in Nat /\ z \in Nat /\ ~(100 * z > 102 * y)
          BY <2>1, <2>2, <2>5
        <5> HIDE DEF y, z
        <5>2. 100 * z <= 102 * y
          BY <5>1
        <5>3. ~(m > b)
          BY <2>1
        <5> QED
          BY <4>1, <5>2, <5>3 DEF y, z
      <4>2. CASE j \in (m + 1) .. n
        BY <2>3, <4>2
      <4> QED
        BY <1>3, <4>1, <4>2
    <3> QED
      BY <2>1, <3>1, <3>2 DEF IsChosen
  <2> QED
    BY <2>4, <2>5
<1>6. \/ m = n /\ best = <<>>
      \/ \E b : IsChosen(cs, (m + 1) .. n, b) /\ best = <<cs[b]>>
  BY DEF IsBest
<1> QED
  BY <1>4, <1>5, <1>6

\* What read_cov_stats takes is one of the largest collections.
LEMMA LargestIs ==
    ASSUME NEW cs, IsList(cs), cs # <<>>,
           \A j \in DOMAIN cs : cs[j].total_pages \in Nat
    PROVE  \E i : IsChosen(cs, DOMAIN cs, i) /\ Plots!Largest(cs) = <<cs[i]>>
<1> DEFINE n == Len(cs)
           I == CHOOSE I : IsLargestOf(I, cs, DOMAIN cs)
<1>1. n \in Nat /\ n > 0 /\ DOMAIN cs = 1 .. n
  <2>1. cs \in Seq({cs[i] : i \in DOMAIN cs})
    BY DEF IsList, Range
  <2> QED
    BY <2>1
<1>2. Plots!Largest(cs) = I[DOMAIN cs]
  BY DEF Plots!Largest, Plots!FoldRight, Plots!MapThenFoldSet, IsLargestOf,
         Larger, Least
<1>3. IsLargestOf(I, cs, DOMAIN cs)
  <2>1. DOMAIN cs \subseteq Nat /\ IsFiniteSet(DOMAIN cs)
    BY <1>1, FS_Interval
  <2> QED
    BY <2>1, LargestExists
<1> HIDE DEF n, I
<1> DEFINE T == {k \in Nat : k < n => IsBest(cs, n - k, n, I[(n - k) .. n])}
<1>4. \A m \in 1 .. n : I[m .. n] = Larger(cs, m .. n, I[(m + 1) .. n])
  <2> TAKE m \in 1 .. n
  <2>1. m .. n \in SUBSET DOMAIN cs /\ m .. n # {} /\ m .. n \subseteq Nat
    BY <1>1
  <2>2. Least(m .. n) = m
    BY <1>1, LeastOfRange
  <2>3. (m .. n) \ {m} = (m + 1) .. n
    BY <1>1
  <2>4. I[m .. n] = Larger(cs, m .. n, I[(m .. n) \ {Least(m .. n)}])
    <3> DEFINE s == m .. n
    <3> HIDE DEF s
    <3>1. I[s] = Larger(cs, s, I[s \ {Least(s)}])
      BY <1>3, <2>1 DEF IsLargestOf, s
    <3> QED
      BY <3>1 DEF s
  <2> QED
    BY <2>2, <2>3, <2>4
<1>5. I[{}] = <<>>
  BY <1>3 DEF IsLargestOf
<1>6. 0 \in T
  <2>1. I[n .. n] = Larger(cs, n .. n, <<>>)
    <3>1. (n + 1) .. n = {} /\ n \in 1 .. n
      BY <1>1
    <3> QED
      BY <1>4, <1>5, <3>1
  <2>2. Sized(cs, n, n) /\ IsBest(cs, n + 1, n, <<>>)
    BY <1>1 DEF Sized, IsBest
  <2>3. IsBest(cs, n, n, Larger(cs, n .. n, <<>>))
    <3> DEFINE none == <<>>
    <3>1. IsBest(cs, n + 1, n, none) /\ n <= n
      BY <1>1, <2>2
    <3> HIDE DEF none
    <3>2. IsBest(cs, n, n, Larger(cs, n .. n, none))
      BY <1>1, <2>2, <3>1, OneMoreCollection
    <3> QED
      BY <3>2 DEF none
  <2>4. n - 0 = n
    BY <1>1
  <2> QED
    BY <2>1, <2>3, <2>4
<1>7. \A k \in Nat : k \in T => k + 1 \in T
  <2> SUFFICES ASSUME NEW k \in Nat, k \in T, k + 1 < n
               PROVE  IsBest(cs, n - (k + 1), n, I[(n - (k + 1)) .. n])
    OBVIOUS
  <2> DEFINE m == n - (k + 1)
             best == I[(m + 1) .. n]
  <2>1. m \in Nat /\ m <= n /\ m \in 1 .. n /\ m + 1 = n - k /\ k < n /\ n \in Nat
    BY <1>1
  <2>2. IsBest(cs, m + 1, n, best)
    BY <2>1
  <2>3. Sized(cs, m, n)
    BY <1>1, <2>1 DEF Sized
  <2>4. I[m .. n] = Larger(cs, m .. n, best)
    BY <1>4, <2>1
  <2> HIDE DEF m, best, T
  <2>5. IsBest(cs, m, n, Larger(cs, m .. n, best))
    BY <2>1, <2>2, <2>3, OneMoreCollection
  <2> QED
    BY <2>4, <2>5 DEF m
<1>8. n - 1 \in T
  <2> HIDE DEF T
  <2>1. n - 1 \in Nat
    BY <1>1
  <2> QED
    BY <1>6, <1>7, <2>1, NumbersOf
<1>9. n - (n - 1) = 1 /\ n - 1 < n /\ ~(1 > n)
  BY <1>1
<1>10. IsBest(cs, 1, n, I[1 .. n])
  BY <1>8, <1>9
<1> QED
  BY <1>1, <1>2, <1>9, <1>10 DEF IsBest

\* Before the first collection that failed there is none that did.
LEMMA ReadIs ==
    ASSUME NEW all, IsList(all)
    PROVE  /\ IsList(Plots!Read(all))
           /\ \A j \in DOMAIN Plots!Read(all) :
                  /\ Plots!Read(all)[j] \in Range(all)
                  /\ Plots!Read(all)[j] # Plots!Failed
<1> DEFINE Bad == {i \in 1 .. Len(all) : all[i] = Plots!Failed}
           first == Plots!SelectInSeq(all, LAMBDA c : c = Plots!Failed)
           cs == Plots!Read(all)
<1>1. /\ all \in Seq({all[i] : i \in DOMAIN all}) /\ Len(all) \in Nat
      /\ DOMAIN all = 1 .. Len(all)
  <2>1. all \in Seq({all[i] : i \in DOMAIN all})
    BY DEF IsList, Range
  <2> QED
    BY <2>1
<1>2. first = IF Bad # {} THEN Least(Bad) ELSE 0
  BY DEF Plots!SelectInSeq, Least
<1>3. cs = IF first = 0 THEN all ELSE SubSeq(all, 1, first - 1)
  BY DEF Plots!Read
<1>4. \E n \in 0 .. Len(all) : /\ cs = SubSeq(all, 1, n)
                               /\ \A i \in 1 .. n : all[i] # Plots!Failed
  <2>1. CASE Bad = {}
    <3>1. cs = all
      BY <1>2, <1>3, <2>1
    <3>2. all = SubSeq(all, 1, Len(all))
      BY <1>1
    <3>3. \A i \in 1 .. Len(all) : all[i] # Plots!Failed
      BY <2>1
    <3>4. Len(all) \in 0 .. Len(all)
      BY <1>1
    <3> HIDE DEF Bad, first
    <3> QED
      BY <3>1, <3>2, <3>3, <3>4
  <2>2. CASE Bad # {}
    <3> HIDE DEF first
    <3>1. first \in Bad /\ \A x \in Bad : first <= x
      <4>1. Bad \subseteq Nat
        BY <1>1
      <4> HIDE DEF Bad
      <4> QED
        BY <1>2, <2>2, <4>1, LeastOf
    <3>2. first \in 1 .. Len(all) /\ first # 0 /\ first - 1 \in 0 .. Len(all)
      BY <1>1, <3>1
    <3>3. \A i \in 1 .. first - 1 : all[i] # Plots!Failed
      BY <1>1, <3>1, <3>2
    <3>4. cs = SubSeq(all, 1, first - 1)
      BY <1>3, <3>2
    <3> QED
      BY <3>2, <3>3, <3>4
  <2> QED
    BY <2>1, <2>2
<1> HIDE DEF cs
<1>5. PICK n \in 0 .. Len(all) : /\ cs = SubSeq(all, 1, n)
                                 /\ \A i \in 1 .. n : all[i] # Plots!Failed
  BY <1>4
<1>6. /\ Len(cs) = n /\ DOMAIN cs = 1 .. n /\ n \in Nat
      /\ \A i \in 1 .. n : cs[i] = all[i] /\ i \in DOMAIN all
      /\ cs \in Seq({all[i] : i \in DOMAIN all})
  BY <1>1, <1>5
<1>7. cs \in Seq(Range(cs))
  <2> DEFINE R == Range(cs)
  <2>1. \A i \in 1 .. n : cs[i] \in R
    BY <1>6 DEF Range
  <2> HIDE DEF R
  <2>2. cs \in Seq(R)
    BY <1>6, <2>1
  <2> QED
    BY <2>2 DEF R
<1>8. \A i \in DOMAIN cs : cs[i] \in Range(all) /\ cs[i] # Plots!Failed
  BY <1>5, <1>6 DEF Range
<1> QED
  BY <1>7, <1>8 DEF IsList, cs

\* r is s followed by t, of k and m elements, and what that means for them.
Both(S, r, s, t, k, m) ==
    /\ r = s \o t /\ s \in Seq(S) /\ t \in Seq(S)
    /\ k \in Nat /\ m \in Nat /\ k = Len(s) /\ m = Len(t)
Halves(S, r, s, t, k, m) ==
    /\ r \in Seq(S) /\ Len(r) = k + m
    /\ \A i \in 1 .. k : r[i] = s[i]
    /\ \A i \in 1 .. m : r[k + i] = t[i]

LEMMA BothAreHalves ==
    ASSUME NEW S, NEW r, NEW s, NEW t, NEW k, NEW m, Both(S, r, s, t, k, m)
    PROVE  Halves(S, r, s, t, k, m)
<1>1. r \in Seq(S) /\ Len(r) = k + m
  BY ConcatProperties DEF Both
<1>2. \A i \in 1 .. k + m : r[i] = IF i <= k THEN s[i] ELSE t[i - k]
  BY ConcatProperties DEF Both
<1>3. k \in Nat /\ m \in Nat
  BY DEF Both
<1> QED
  BY <1>1, <1>2, <1>3 DEF Halves

\* The parts of a row.
Joined(a, b, c, d) == a \o b \o c \o d
Holds(S, row, a, b, c) ==
    /\ row \in Seq(S) /\ Len(row) >= 14
    /\ \A i \in 1 .. 6 : row[i] = a[i] /\ row[6 + i] = b[i]
    /\ \A i \in 1 .. 2 : row[12 + i] = c[i]

LEMMA PartsOfRow ==
    ASSUME NEW S, NEW a \in Seq(S), NEW b \in Seq(S), NEW c \in Seq(S),
           NEW d \in Seq(S), Len(a) = 6, Len(b) = 6, Len(c) = 2,
           NEW row, row = Joined(a, b, c, d)
    PROVE  Holds(S, row, a, b, c)
<1> DEFINE ab == a \o b
           abc == ab \o c
           m == Len(d)
<1>0. m \in Nat /\ m = Len(d)
  OBVIOUS
<1> HIDE DEF m
<1>1. Both(S, ab, a, b, 6, 6)
  BY DEF Both
<1> HIDE DEF ab
<1>2. Halves(S, ab, a, b, 6, 6)
  BY <1>1, BothAreHalves
<1>3. Both(S, abc, ab, c, 12, 2)
  <2>1. ab \in Seq(S) /\ Len(ab) = 12
    BY <1>2 DEF Halves
  <2> QED
    BY <2>1 DEF Both
<1> HIDE DEF abc
<1>4. Halves(S, abc, ab, c, 12, 2)
  BY <1>3, BothAreHalves
<1>5. Both(S, row, abc, d, 14, m)
  <2>1. abc \in Seq(S) /\ Len(abc) = 14
    BY <1>4 DEF Halves
  <2>2. row = abc \o d
    BY DEF Joined, abc, ab
  <2> QED
    BY <1>0, <2>1, <2>2 DEF Both
<1>6. Halves(S, row, abc, d, 14, m)
  BY <1>5, BothAreHalves
<1>7. row \in Seq(S) /\ Len(row) >= 14
  BY <1>0, <1>6 DEF Halves
<1>8. \A i \in 1 .. 6 : row[i] = a[i] /\ row[6 + i] = b[i]
  <2> TAKE i \in 1 .. 6
  <2>1. i \in 1 .. 14 /\ 6 + i \in 1 .. 14 /\ i \in 1 .. 12 /\ 6 + i \in 1 .. 12
    OBVIOUS
  <2>2. row[i] = abc[i] /\ row[6 + i] = abc[6 + i]
    BY <1>6, <2>1 DEF Halves
  <2>3. abc[i] = ab[i] /\ abc[6 + i] = ab[6 + i]
    BY <1>4, <2>1 DEF Halves
  <2>4. ab[i] = a[i]
    BY <1>2 DEF Halves
  <2>5. ab[6 + i] = b[i]
    BY <1>2 DEF Halves
  <2> QED
    BY <2>2, <2>3, <2>4, <2>5
<1>9. \A i \in 1 .. 2 : row[12 + i] = c[i]
  <2> TAKE i \in 1 .. 2
  <2>1. 12 + i \in 1 .. 14
    OBVIOUS
  <2>2. row[12 + i] = abc[12 + i]
    BY <1>6, <2>1 DEF Halves
  <2>3. abc[12 + i] = c[i]
    BY <1>4 DEF Halves
  <2> QED
    BY <2>2, <2>3
<1> QED
  BY <1>7, <1>8, <1>9 DEF Holds

LEMMA PartsAre ==
    ASSUME NEW S, NEW row, NEW a, NEW b, NEW c, Holds(S, row, a, b, c),
           a \in Seq(S), Len(a) = 6, c \in Seq(S), Len(c) = 2
    PROVE  SubSeq(row, 1, 6) = a /\ SubSeq(row, 13, 14) = c
<1>0. row \in Seq(S) /\ Len(row) >= 14 /\ Len(row) \in Nat
  BY DEF Holds
<1> DEFINE p == SubSeq(row, 1, 6)
           q == SubSeq(row, 13, 14)
<1>1. p \in Seq(S) /\ Len(p) = 6
  BY <1>0, SubSeqProperties
<1>2. \A i \in 1 .. 6 : p[i] = row[i]
  BY <1>0, SubSeqProperties
<1>3. q \in Seq(S) /\ Len(q) = 2
  BY <1>0, SubSeqProperties
<1>4. \A i \in 1 .. 2 : q[i] = row[12 + i]
  BY <1>0, SubSeqProperties
<1> HIDE DEF p, q
<1>5. p = a
  <2>1. \A i \in 1 .. 6 : p[i] = a[i]
    BY <1>2 DEF Holds
  <2> QED
    BY <1>1, <2>1
<1>6. q = c
  <2>1. \A i \in 1 .. 2 : q[i] = c[i]
    BY <1>4 DEF Holds
  <2> QED
    BY <1>3, <2>1
<1> QED
  BY <1>5, <1>6 DEF p, q

FoldersInv == folders \subseteq UNION Experiments

LEMMA InitFoldersInv == ToolsInit => FoldersInv
  BY DEF ToolsInit, NoFolders, Plots!Init, FoldersInv

LEMMA NextFoldersInv ==
    FoldersInv /\ [ToolsNext]_<<vars, logVars, tablesVars>> => FoldersInv'
<1> SUFFICES ASSUME FoldersInv, [ToolsNext]_<<vars, logVars, tablesVars>>
             PROVE  folders' = folders
  BY DEF FoldersInv
<1>1. Plots!Next => folders' = folders
  BY DEF Plots!Next, Plots!PassOver, Plots!ReadFolder, Plots!MakeTables, Plots!GiveUp
<1> QED
  BY <1>1 DEF ToolsNext, ReportRanges, ReadLog, ReadFolders, tablesVars

\* The row of a folder whose name no other has.
LEMMA RowOfIsRow ==
    ASSUME RowsInv, NEW f \in Plots!ReadIn
    PROVE  /\ f \in folders /\ f.results /\ ~Plots!Unreadable(f)
           /\ Plots!RowOf(f) = Plots!Row(f)
<1>1. /\ f \in folders /\ f.results
      /\ \A g \in folders : g.results /\ g.name = f.name => g = f
      /\ \E n \in DOMAIN runs_dict : runs_dict[n].key = f.name
  BY DEF Plots!ReadIn, Plots!Single, Plots!Keys
<1>2. \A n \in DOMAIN runs_dict :
          runs_dict[n].key = f.name =>
              ~Plots!Unreadable(f) /\ runs_dict[n] = EntryOf(f)
  <2> SUFFICES ASSUME NEW n \in DOMAIN runs_dict, runs_dict[n].key = f.name
               PROVE  ~Plots!Unreadable(f) /\ runs_dict[n] = EntryOf(f)
    OBVIOUS
  <2>1. PICK g \in folders : /\ g.results /\ ~Plots!Unreadable(g)
                             /\ runs_dict[n] = EntryOf(g)
    BY DEF RowsInv
  <2>2. g = f
    BY <1>1, <2>1 DEF EntryOf
  <2> QED
    BY <2>1, <2>2
<1> DEFINE place == Plots!SelectInSeq(runs_dict, LAMBDA e : e.key = f.name)
<1>3. place \in DOMAIN runs_dict /\ runs_dict[place].key = f.name
  <2>1. DOMAIN runs_dict = 1 .. Len(runs_dict)
    BY DEF RowsInv
  <2>2. \/ place = 0 /\ \A n \in 1 .. Len(runs_dict) : runs_dict[n].key # f.name
        \/ place \in 1 .. Len(runs_dict) /\ runs_dict[place].key = f.name
    BY KeyPlace
  <2> HIDE DEF place
  <2> QED
    BY <1>1, <2>1, <2>2
<1>4. Plots!RowOf(f) = runs_dict[place].row
  BY DEF Plots!RowOf
<1> HIDE DEF place
<1>5. runs_dict[place] = EntryOf(f) /\ ~Plots!Unreadable(f)
  BY <1>2, <1>3
<1> QED
  BY <1>1, <1>4, <1>5 DEF EntryOf

LEMMA RowHasCoverage ==
    ASSUME NEW f, f.results, ~Plots!Unreadable(f), f \in UNION Experiments,
           f.stats # <<>>
    PROVE  LET cs == Plots!Read(f.stats[1])
           IN  /\ IsList(cs) /\ cs # <<>>
               /\ \A j \in DOMAIN cs : cs[j].total_pages \in Nat
               /\ \A c : Plots!Largest(cs) = <<c>> =>
                      /\ SubSeq(Plots!Row(f), 1, 6) = Plots!CoverageLine(c)
                      /\ SubSeq(Plots!Row(f), 13, 14)
                             = SubSeq(Plots!Offsets_stats(c), 5, 6)
<1> DEFINE all == f.stats[1]
           cs == Plots!Read(all)
<1>1. /\ IsList(f.stats) /\ IsList(f.times)
      /\ \A n \in DOMAIN f.times : IsList(f.times[n])
      /\ \A n \in DOMAIN f.stats :
             /\ IsList(f.stats[n])
             /\ \A c \in Range(f.stats[n]) : c = Plots!Failed \/ c.total_pages \in Nat
  BY FoldersAssumption
<1>2. 1 \in DOMAIN f.stats
  BY <1>1 DEF IsList
<1>3. f.times # <<>> /\ cs # <<>>
  BY DEF Plots!Unreadable
<1>4. /\ IsList(all)
      /\ \A c \in Range(all) : c = Plots!Failed \/ c.total_pages \in Nat
  BY <1>1, <1>2
<1> HIDE DEF all
<1>5. /\ IsList(cs)
      /\ \A j \in DOMAIN cs : cs[j] \in Range(all) /\ cs[j] # Plots!Failed
  BY <1>4, ReadIs
<1>6. \A j \in DOMAIN cs : cs[j].total_pages \in Nat
  BY <1>4, <1>5
<1> HIDE DEF cs
<1>7. ASSUME NEW c, Plots!Largest(cs) = <<c>>
      PROVE  /\ SubSeq(Plots!Row(f), 1, 6) = Plots!CoverageLine(c)
             /\ SubSeq(Plots!Row(f), 13, 14) = SubSeq(Plots!Offsets_stats(c), 5, 6)
  <2> DEFINE a == Plots!CoverageLine(c)
             b == Plots!read_counters_stats(Plots!CounterFile(f.start),
                                            Plots!CounterFile(f.end))
             p == SubSeq(Plots!Offsets_stats(c), 5, 6)
             d == Plots!Last(f.times)
             S == Range(a) \cup Range(b) \cup Range(p) \cup Range(d)
             row == Plots!Row(f)
  <2>1. Plots!read_cov_stats(all) = <<a, p>>
    BY <1>7 DEF Plots!read_cov_stats, cs
  <2>2. row = Joined(a, b, p, d)
    BY <2>1 DEF Plots!Row, Joined, all
  <2>3. a \in Seq(Range(a)) /\ Len(a) = 6
    BY DEF Plots!CoverageLine, Plots!RangeReport, Range
  <2>4. b \in Seq(Range(b)) /\ Len(b) = 6
    BY DEF Plots!read_counters_stats, Range
  <2>5. p \in Seq(Range(p)) /\ Len(p) = 2
    BY DEF Plots!Offsets_stats, Range
  <2>6. d \in Seq(Range(d))
    <3>1. Len(f.times) \in DOMAIN f.times
      BY <1>1, <1>3 DEF IsList
    <3> QED
      BY <1>1, <3>1 DEF IsList, Plots!Last
  <2> HIDE DEF a, b, p, d, row
  <2>7. a \in Seq(S) /\ b \in Seq(S) /\ p \in Seq(S) /\ d \in Seq(S)
    BY <2>3, <2>4, <2>5, <2>6
  <2> HIDE DEF S
  <2>8. Holds(S, row, a, b, p)
    BY <2>2, <2>3, <2>4, <2>5, <2>7, PartsOfRow
  <2>9. SubSeq(row, 1, 6) = a /\ SubSeq(row, 13, 14) = p
    BY <2>3, <2>5, <2>7, <2>8, PartsAre
  <2> QED
    BY <2>9 DEF a, p, row
<1> QED
  BY <1>3, <1>5, <1>6, <1>7 DEF cs, all

LEMMA ChosenIsLargest == RowsInv /\ FoldersInv => LargestIsChosen
<1> SUFFICES ASSUME RowsInv, FoldersInv, NEW f \in Plots!ReadIn, f.stats # <<>>
             PROVE  LET cs == Plots!Read(f.stats[1])
                    IN  \E i \in DOMAIN cs :
                            /\ SubSeq(Plots!RowOf(f), 1, 6) = Plots!CoverageLine(cs[i])
                            /\ SubSeq(Plots!RowOf(f), 13, 14)
                                   = SubSeq(Plots!Offsets_stats(cs[i]), 5, 6)
                            /\ \A j \in DOMAIN cs :
                                   /\ 100 * cs[j].total_pages <= 102 * cs[i].total_pages
                                   /\ j > i => cs[j].total_pages < cs[i].total_pages
  BY DEF LargestIsChosen, Plots!LargestIsChosen
<1> DEFINE cs == Plots!Read(f.stats[1])
<1>1. /\ f \in UNION Experiments /\ f.results /\ ~Plots!Unreadable(f)
      /\ Plots!RowOf(f) = Plots!Row(f)
  BY RowOfIsRow DEF FoldersInv
<1>2. /\ IsList(cs) /\ cs # <<>>
      /\ \A j \in DOMAIN cs : cs[j].total_pages \in Nat
      /\ \A c : Plots!Largest(cs) = <<c>> =>
             /\ SubSeq(Plots!Row(f), 1, 6) = Plots!CoverageLine(c)
             /\ SubSeq(Plots!Row(f), 13, 14)
                    = SubSeq(Plots!Offsets_stats(c), 5, 6)
  BY <1>1, RowHasCoverage
<1> HIDE DEF cs
<1>3. PICK i : IsChosen(cs, DOMAIN cs, i) /\ Plots!Largest(cs) = <<cs[i]>>
  BY <1>2, LargestIs
<1>4. /\ SubSeq(Plots!RowOf(f), 1, 6) = Plots!CoverageLine(cs[i])
      /\ SubSeq(Plots!RowOf(f), 13, 14) = SubSeq(Plots!Offsets_stats(cs[i]), 5, 6)
  BY <1>1, <1>2, <1>3
<1> QED
  BY <1>3, <1>4 DEF IsChosen, cs

\* The coverage in the tables is that of one of the largest collections of
\* the run, for any number and sizes of collections.
THEOREM LargestCollectionsAreShown == ToolsSpec => []LargestIsChosen
<1>1. ToolsInit => RowsInv /\ FoldersInv
  BY InitRowsInv, InitFoldersInv
<1>2. RowsInv /\ FoldersInv /\ [ToolsNext]_<<vars, logVars, tablesVars>>
          => RowsInv' /\ FoldersInv'
  BY NextRowsInv, NextFoldersInv
<1>3. RowsInv /\ FoldersInv => LargestIsChosen
  BY ChosenIsLargest
<1> QED
  BY <1>1, <1>2, <1>3, PTL DEF ToolsSpec
-----------------------------------------------------------------------------
(* calc_counter_stats.py: where the groups of counters are in the file     *)

\* lines begins with s, and behind that comes a text and then t.
Begins(lines, s) ==
    /\ Len(s) <= Len(lines)
    /\ \A i \in 1 .. Len(s) : lines[i] = s[i]
Under(s, t) == s \o <<Plots!Text>> \o t
Follows(lines, k, t) ==
    /\ k + Len(t) < Len(lines)
    /\ lines[k + 1] = Plots!Text
    /\ \A i \in 1 .. Len(t) : lines[k + 1 + i] = t[i]

LEMMA UnderIs ==
    ASSUME NEW s \in Seq(Int), NEW t \in Seq(Int), NEW k \in Nat, k = Len(s)
    PROVE  /\ Under(s, t) \in Seq(Int) /\ Len(Under(s, t)) = k + 1 + Len(t)
           /\ Begins(Under(s, t), s) /\ Follows(Under(s, t), k, t)
<1> DEFINE text == <<Plots!Text>>
           upper == s \o text
           m == Len(t)
<1>0. m \in Nat /\ m = Len(t)
  OBVIOUS
<1> HIDE DEF m
<1>1. text \in Seq(Int) /\ Len(text) = 1 /\ text[1] = Plots!Text
  BY DEF Plots!Text
<1> HIDE DEF text
<1>2. Both(Int, upper, s, text, k, 1)
  BY <1>1 DEF Both
<1>3. Halves(Int, upper, s, text, k, 1)
  BY <1>2, BothAreHalves
<1> HIDE DEF upper
<1> DEFINE all == Under(s, t)
           kk == k + 1
<1>4. all = upper \o t
  BY DEF Under, upper, text
<1> HIDE DEF all
<1>a. kk \in Nat /\ kk = k + 1
  OBVIOUS
<1> HIDE DEF kk
<1>5. Both(Int, all, upper, t, kk, m)
  BY <1>0, <1>3, <1>4, <1>a DEF Both, Halves
<1>6. Halves(Int, all, upper, t, kk, m)
  BY <1>5, BothAreHalves
<1>7. \A i \in 1 .. k : all[i] = s[i]
  <2> TAKE i \in 1 .. k
  <2>1. i \in 1 .. kk
    BY <1>a
  <2> QED
    BY <1>3, <1>6, <2>1 DEF Halves
<1>8. all[k + 1] = Plots!Text
  <2>1. kk \in 1 .. kk /\ 1 \in 1 .. 1
    BY <1>a
  <2>2. all[kk] = upper[kk]
    BY <1>6, <2>1 DEF Halves
  <2>3. upper[k + 1] = text[1]
    BY <1>3, <2>1 DEF Halves
  <2> QED
    BY <1>1, <1>a, <2>2, <2>3
<1>9. \A i \in 1 .. m : all[k + 1 + i] = t[i]
  BY <1>6, <1>a DEF Halves
<1>10. all \in Seq(Int) /\ Len(all) = k + 1 + m
  BY <1>6, <1>a DEF Halves
<1> QED
  BY <1>0, <1>7, <1>8, <1>9, <1>10 DEF all, Begins, Follows

\* What the lines begin with is at the same place of the lines.
LEMMA BeginsUnder ==
    ASSUME NEW lines \in Seq(Int), NEW s \in Seq(Int), NEW t \in Seq(Int),
           NEW k \in Nat, k = Len(s), Begins(lines, Under(s, t))
    PROVE  Begins(lines, s) /\ Follows(lines, k, t)
<1> DEFINE all == Under(s, t)
           m == Len(t)
           n == Len(lines)
<1>1. /\ all \in Seq(Int) /\ Len(all) = k + 1 + m
      /\ Begins(all, s) /\ Follows(all, k, t)
  BY UnderIs
<1>2. Begins(lines, all)
  OBVIOUS
<1>3. m \in Nat /\ n \in Nat
  OBVIOUS
<1> HIDE DEF all
<1>4. k + 1 + m <= n /\ \A i \in 1 .. k + 1 + m : lines[i] = all[i]
  BY <1>1, <1>2 DEF Begins, n
<1>5. \A i \in 1 .. k : lines[i] = s[i]
  <2> TAKE i \in 1 .. k
  <2>1. i \in 1 .. k + 1 + m
    BY <1>3
  <2> QED
    BY <1>1, <1>4, <2>1 DEF Begins
<1>6. lines[k + 1] = Plots!Text
  <2>1. k + 1 \in 1 .. k + 1 + m
    BY <1>3
  <2> QED
    BY <1>1, <1>4, <2>1 DEF Follows
<1>7. \A i \in 1 .. m : lines[k + 1 + i] = t[i]
  <2> TAKE i \in 1 .. m
  <2>1. k + 1 + i \in 1 .. k + 1 + m
    BY <1>3
  <2> QED
    BY <1>1, <1>4, <2>1 DEF Follows, m
<1>8. k <= n /\ k + m < n
  BY <1>3, <1>4
<1> QED
  BY <1>5, <1>6, <1>7, <1>8 DEF Begins, Follows, m, n

FileOf(d, a, b, s, u, t) == Under(Under(Under(Under(Under(d, a), b), s), u), t)

\* Where the groups of the file are.
LEMMA GroupsOfFile ==
    ASSUME NEW d \in Seq(Int), NEW a \in Seq(Int), NEW b \in Seq(Int),
           NEW s \in Seq(Int), NEW u \in Seq(Int), NEW t \in Seq(Int),
           NEW lines, lines = FileOf(d, a, b, s, u, t)
    PROVE  LET k1 == Len(d)
               k2 == k1 + 1 + Len(a)
               k3 == k2 + 1 + Len(b)
               k4 == k3 + 1 + Len(s)
               k5 == k4 + 1 + Len(u)
           IN  /\ lines \in Seq(Int)
               /\ Begins(lines, d)
               /\ Follows(lines, k1, a) /\ Follows(lines, k2, b)
               /\ Follows(lines, k3, s) /\ Follows(lines, k4, u)
               /\ Follows(lines, k5, t)
<1> DEFINE k1 == Len(d)
           k2 == k1 + 1 + Len(a)
           k3 == k2 + 1 + Len(b)
           k4 == k3 + 1 + Len(s)
           k5 == k4 + 1 + Len(u)
           l1 == Under(d, a)
           l2 == Under(l1, b)
           l3 == Under(l2, s)
           l4 == Under(l3, u)
<1>0. lines = Under(l4, t)
  BY DEF FileOf
<1>1. k1 \in Nat /\ k1 = Len(d)
  OBVIOUS
<1>2. l1 \in Seq(Int) /\ k2 \in Nat /\ k2 = Len(l1)
  <2>1. l1 \in Seq(Int) /\ Len(l1) = k1 + 1 + Len(a)
    <3> HIDE DEF k1
    <3> QED
      BY <1>1, UnderIs
  <2>2. Len(l1) \in Nat
    BY <2>1
  <2>3. k2 = k1 + 1 + Len(a)
    OBVIOUS
  <2> QED
    BY <2>1, <2>2, <2>3
<1> HIDE DEF k1, l1
<1>3. l2 \in Seq(Int) /\ k3 \in Nat /\ k3 = Len(l2)
  <2>1. l2 \in Seq(Int) /\ Len(l2) = k2 + 1 + Len(b)
    <3> HIDE DEF k2
    <3> QED
      BY <1>2, UnderIs
  <2>2. Len(l2) \in Nat
    BY <2>1
  <2>3. k3 = k2 + 1 + Len(b)
    OBVIOUS
  <2> QED
    BY <2>1, <2>2, <2>3
<1> HIDE DEF k2, l2
<1>4. l3 \in Seq(Int) /\ k4 \in Nat /\ k4 = Len(l3)
  <2>1. l3 \in Seq(Int) /\ Len(l3) = k3 + 1 + Len(s)
    <3> HIDE DEF k3
    <3> QED
      BY <1>3, UnderIs
  <2>2. Len(l3) \in Nat
    BY <2>1
  <2>3. k4 = k3 + 1 + Len(s)
    OBVIOUS
  <2> QED
    BY <2>1, <2>2, <2>3
<1> HIDE DEF k3, l3
<1>5. l4 \in Seq(Int) /\ k5 \in Nat /\ k5 = Len(l4)
  <2>1. l4 \in Seq(Int) /\ Len(l4) = k4 + 1 + Len(u)
    <3> HIDE DEF k4
    <3> QED
      BY <1>4, UnderIs
  <2>2. Len(l4) \in Nat
    BY <2>1
  <2>3. k5 = k4 + 1 + Len(u)
    OBVIOUS
  <2> QED
    BY <2>1, <2>2, <2>3
<1> HIDE DEF k4, l4
<1>6. lines \in Seq(Int) /\ Begins(lines, l4) /\ Follows(lines, k5, t)
  <2> HIDE DEF k5
  <2> QED
    BY <1>0, <1>5, UnderIs
<1> HIDE DEF k5
<1>7. Begins(lines, l3) /\ Follows(lines, k4, u)
  BY <1>4, <1>6, BeginsUnder DEF l4
<1>8. Begins(lines, l2) /\ Follows(lines, k3, s)
  BY <1>3, <1>6, <1>7, BeginsUnder DEF l3
<1>9. Begins(lines, l1) /\ Follows(lines, k2, b)
  BY <1>2, <1>6, <1>8, BeginsUnder DEF l2
<1>10. Begins(lines, d) /\ Follows(lines, k1, a)
  BY <1>1, <1>6, <1>9, BeginsUnder DEF l1
<1> QED
  BY <1>6, <1>7, <1>8, <1>9, <1>10 DEF k1, k2, k3, k4, k5

\* Lines a + 1 to b, as far as there are any.
IsSlice(g, lines, a, b) ==
    /\ g \in Seq(Int)
    /\ b <= Len(lines) => Len(g) = b - a
    /\ Len(lines) < b /\ a <= Len(lines) => Len(g) = Len(lines) - a
    /\ \A i \in 1 .. Len(g) : g[i] = lines[a + i]

LEMMA SliceIs ==
    ASSUME NEW lines \in Seq(Int), NEW a \in Nat, NEW b \in Nat, a <= b
    PROVE  IsSlice(Plots!Slice(lines, a, b), lines, a, b)
<1> DEFINE n == Len(lines)
           e == IF b < n THEN b ELSE n
           g == Plots!Slice(lines, a, b)
<1>1. n \in Nat /\ e \in Nat /\ e <= n /\ (b <= n => e = b) /\ (n < b => e = n)
  OBVIOUS
<1>2. g = SubSeq(lines, a + 1, e)
  BY DEF Plots!Slice
<1> HIDE DEF e, g
<1>3. \A i \in (a + 1) .. e : i \in 1 .. Len(lines)
  BY <1>1 DEF n
<1>4. /\ g \in Seq(Int)
      /\ Len(g) = IF a + 1 <= e THEN e - (a + 1) + 1 ELSE 0
      /\ \A i \in 1 .. (e - (a + 1) + 1) : g[i] = lines[(a + 1) + i - 1]
  BY <1>1, <1>2, <1>3, SubSeqProperties
<1>5. a <= e => Len(g) = e - a
  BY <1>1, <1>4
<1>6. \A i \in 1 .. Len(g) : g[i] = lines[a + i]
  <2> TAKE i \in 1 .. Len(g)
  <2>1. i \in 1 .. (e - (a + 1) + 1)
    BY <1>1, <1>4
  <2>2. (a + 1) + i - 1 = a + i
    OBVIOUS
  <2> QED
    BY <1>4, <2>1, <2>2
<1> QED
  BY <1>1, <1>4, <1>5, <1>6 DEF IsSlice, g, n

\* A text that is neither before a slice nor behind it is in it.
LEMMA TextInSlice ==
    ASSUME NEW lines \in Seq(Int), NEW a \in Nat, NEW b \in Nat,
           NEW g, IsSlice(g, lines, a, b), ~Plots!Contains(g, Plots!Text),
           NEW i \in Nat, i < Len(lines), lines[i + 1] = Plots!Text
    PROVE  ~(a <= i /\ i < b)
<1> SUFFICES ASSUME a <= i, i < b
             PROVE  FALSE
  OBVIOUS
<1> DEFINE j == i + 1 - a
           n == Len(lines)
<1>1. n \in Nat /\ Len(g) \in Nat
  BY DEF IsSlice
<1>2. j \in 1 .. Len(g)
  BY <1>1 DEF IsSlice
<1>3. g[j] = lines[a + j] /\ a + j = i + 1
  BY <1>1, <1>2 DEF IsSlice
<1> QED
  BY <1>2, <1>3 DEF Plots!Contains

\* A group that is where the slice is.
LEMMA GroupIsSlice ==
    ASSUME NEW lines \in Seq(Int), NEW a \in Nat, NEW m \in Nat,
           NEW g, IsSlice(g, lines, a + 1, a + 1 + m),
           NEW t \in Seq(Int), Len(t) = m, Follows(lines, a, t)
    PROVE  g = t
<1> DEFINE n == Len(lines)
<1>1. n \in Nat /\ a + m < n
  BY DEF Follows
<1>2. g \in Seq(Int) /\ Len(g) = m
  BY <1>1 DEF IsSlice
<1>3. \A i \in 1 .. m : g[i] = t[i]
  <2> TAKE i \in 1 .. m
  <2>1. g[i] = lines[(a + 1) + i]
    BY <1>2 DEF IsSlice
  <2> QED
    BY <2>1 DEF Follows
<1> QED
  BY <1>2, <1>3

\* Where a text may be, if it is in no part of the file that is read.
IsText(lines, k) == k < Len(lines) /\ lines[k + 1] = Plots!Text
IsOutside(k, a, b) == k < a \/ k >= b
AllOutside(k) ==
    /\ IsOutside(k, 0, 15) /\ IsOutside(k, 16, 29) /\ IsOutside(k, 30, 43)
    /\ IsOutside(k, 44, 49) /\ IsOutside(k, 50, 55)
AreSlices(g, lines) ==
    /\ IsSlice(g[1], lines, 0, 15) /\ IsSlice(g[2], lines, 16, 29)
    /\ IsSlice(g[3], lines, 30, 43) /\ IsSlice(g[4], lines, 44, 49)
    /\ IsSlice(g[5], lines, 50, 55)

LEMMA GroupsAreSlices ==
    ASSUME NEW lines \in Seq(Int)
    PROVE  AreSlices(Plots!Groups(lines), lines)
<1>1. \A a, b \in Nat : a <= b => IsSlice(Plots!Slice(lines, a, b), lines, a, b)
  BY SliceIs
<1> DEFINE g == Plots!Groups(lines)
<1>2. /\ g[1] = Plots!Slice(lines, 0, 15) /\ g[2] = Plots!Slice(lines, 16, 29)
      /\ g[3] = Plots!Slice(lines, 30, 43) /\ g[4] = Plots!Slice(lines, 44, 49)
      /\ g[5] = Plots!Slice(lines, 50, 55)
  BY DEF Plots!Groups
<1> HIDE DEF g
<1> QED
  BY <1>1, <1>2 DEF AreSlices, g

LEMMA TextsAreOutside ==
    ASSUME NEW lines \in Seq(Int), ~Plots!ParseFails(lines),
           NEW k \in Nat, IsText(lines, k)
    PROVE  AllOutside(k)
<1> DEFINE g == Plots!Groups(lines)
<1>1. \A m \in 1 .. 5 : ~Plots!Contains(g[m], Plots!Text)
  BY DEF Plots!ParseFails
<1>2. AreSlices(g, lines)
  BY GroupsAreSlices
<1>3. \A a, b \in Nat : \A r :
          IsSlice(r, lines, a, b) /\ ~Plots!Contains(r, Plots!Text)
              => IsOutside(k, a, b)
  <2> SUFFICES ASSUME NEW a \in Nat, NEW b \in Nat, NEW r, IsSlice(r, lines, a, b),
                      ~Plots!Contains(r, Plots!Text)
               PROVE  IsOutside(k, a, b)
    OBVIOUS
  <2>1. k < Len(lines) /\ lines[k + 1] = Plots!Text
    BY DEF IsText
  <2>2. ~(a <= k /\ k < b)
    BY <2>1, TextInSlice
  <2> QED
    BY <2>2 DEF IsOutside
<1> HIDE DEF g
<1>4. /\ ~Plots!Contains(g[1], Plots!Text) /\ ~Plots!Contains(g[2], Plots!Text)
      /\ ~Plots!Contains(g[3], Plots!Text) /\ ~Plots!Contains(g[4], Plots!Text)
      /\ ~Plots!Contains(g[5], Plots!Text)
  BY <1>1
<1> QED
  BY <1>2, <1>3, <1>4 DEF AreSlices, AllOutside

\* The only places for five texts, none of which is too far below another.
LEMMA PlacesOfTexts ==
    ASSUME NEW k \in Nat, NEW a \in Nat, NEW b \in Nat, NEW s \in Nat, NEW u \in Nat,
           k < 29, a < 27, b < 19, s < 11,
           AllOutside(k), AllOutside(k + 1 + a), AllOutside(k + 1 + a + 1 + b),
           AllOutside(k + 1 + a + 1 + b + 1 + s)
    PROVE  k = 15 /\ a = 13 /\ b = 13 /\ s = 5
<1>1. k = 15
  BY DEF AllOutside, IsOutside
<1>2. a = 13
  BY <1>1 DEF AllOutside, IsOutside
<1>3. b = 13
  BY <1>1, <1>2 DEF AllOutside, IsOutside
<1>4. s = 5
  BY <1>1, <1>2, <1>3 DEF AllOutside, IsOutside
<1> QED
  BY <1>1, <1>2, <1>3, <1>4

LEMMA FollowsText ==
    ASSUME NEW lines \in Seq(Int), NEW k \in Nat, NEW t \in Seq(Int),
           Follows(lines, k, t)
    PROVE  IsText(lines, k)
  BY DEF Follows, IsText

\* The parts g of the file are the groups.
AreGroups(g, d, a, b, s, u) ==
    /\ Len(d) = 15 /\ g[1] \in Seq(Int) /\ Len(g[1]) = 15
    /\ \A i \in 1 .. 15 : g[1][i] = d[i]
    /\ g[2] = a /\ g[3] = b /\ g[4] = s
    /\ Len(u) <= 5 => g[5] = u

\* What is read of a file of which no part contains a text.
LEMMA GroupsAreRead ==
    ASSUME NEW d \in Seq(Int), NEW a \in Seq(Int), NEW b \in Seq(Int),
           NEW s \in Seq(Int), NEW u \in Seq(Int), NEW t \in Seq(Int),
           Len(d) < 29, Len(a) < 27, Len(b) < 19, Len(s) < 11,
           NEW lines, lines = FileOf(d, a, b, s, u, t),
           ~Plots!ParseFails(lines),
           NEW g, g = Plots!Groups(lines)
    PROVE  AreGroups(g, d, a, b, s, u)
<1> DEFINE k1 == Len(d)
           k2 == k1 + 1 + Len(a)
           k3 == k2 + 1 + Len(b)
           k4 == k3 + 1 + Len(s)
           k5 == k4 + 1 + Len(u)
           n == Len(lines)
<1>1. /\ lines \in Seq(Int)
      /\ Begins(lines, d)
      /\ Follows(lines, k1, a) /\ Follows(lines, k2, b)
      /\ Follows(lines, k3, s) /\ Follows(lines, k4, u)
      /\ Follows(lines, k5, t)
  BY GroupsOfFile
<1>2. /\ Len(d) \in Nat /\ Len(a) \in Nat /\ Len(b) \in Nat /\ Len(s) \in Nat
      /\ Len(u) \in Nat /\ Len(t) \in Nat /\ n \in Nat
  BY <1>1
<1>3. k1 \in Nat /\ k2 \in Nat /\ k3 \in Nat /\ k4 \in Nat /\ k5 \in Nat
  BY <1>2
<1>4. /\ k2 = k1 + 1 + Len(a) /\ k3 = k1 + 1 + Len(a) + 1 + Len(b)
      /\ k4 = k1 + 1 + Len(a) + 1 + Len(b) + 1 + Len(s)
      /\ k5 = k4 + 1 + Len(u)
  OBVIOUS
<1>5. k1 = Len(d)
  OBVIOUS
<1> HIDE DEF k1, k2, k3, k4, k5, n
<1>6. /\ AllOutside(k1) /\ AllOutside(k2) /\ AllOutside(k3) /\ AllOutside(k4)
      /\ AllOutside(k5)
  <2>1. \A k \in Nat, r \in Seq(Int) : Follows(lines, k, r) => AllOutside(k)
    BY <1>1, FollowsText, TextsAreOutside
  <2> QED
    BY <1>1, <1>3, <2>1
<1>7. k1 = 15 /\ Len(a) = 13 /\ Len(b) = 13 /\ Len(s) = 5
  <2>1. k1 < 29
    BY <1>5
  <2> QED
    BY <1>2, <1>3, <1>4, <1>6, <2>1, PlacesOfTexts
<1>8. k2 = 29 /\ k3 = 43 /\ k4 = 49
  BY <1>4, <1>7
<1>9. AreSlices(g, lines)
  BY <1>1, GroupsAreSlices
<1>10. \A r, t1, k, m : /\ k \in Nat /\ m \in Nat /\ t1 \in Seq(Int) /\ Len(t1) = m
                        /\ IsSlice(r, lines, k + 1, k + 1 + m)
                        /\ Follows(lines, k, t1)
                        => r = t1
  BY <1>1, GroupIsSlice
<1>11. g[2] = a
  <2>1. 15 + 1 = 16 /\ 15 + 1 + 13 = 29
    OBVIOUS
  <2>2. IsSlice(g[2], lines, 15 + 1, 15 + 1 + 13)
    BY <1>9, <2>1 DEF AreSlices
  <2>3. Follows(lines, 15, a) /\ Len(a) = 13
    BY <1>1, <1>7, <1>8
  <2> QED
    BY <1>10, <2>2, <2>3
<1>12. g[3] = b
  <2>1. 29 + 1 = 30 /\ 29 + 1 + 13 = 43
    OBVIOUS
  <2>2. IsSlice(g[3], lines, 29 + 1, 29 + 1 + 13)
    BY <1>9, <2>1 DEF AreSlices
  <2>3. Follows(lines, 29, b) /\ Len(b) = 13
    BY <1>1, <1>7, <1>8
  <2> QED
    BY <1>10, <2>2, <2>3
<1>13. g[4] = s
  <2>1. 43 + 1 = 44 /\ 43 + 1 + 5 = 49
    OBVIOUS
  <2>2. IsSlice(g[4], lines, 43 + 1, 43 + 1 + 5)
    BY <1>9, <2>1 DEF AreSlices
  <2>3. Follows(lines, 43, s) /\ Len(s) = 5
    BY <1>1, <1>7, <1>8
  <2> QED
    BY <1>10, <2>2, <2>3
<1>14. ASSUME Len(u) <= 5
       PROVE  g[5] = u
  <2>1. Len(u) = 5
    <3>1. k5 < 50 \/ k5 >= 55
      BY <1>6 DEF AllOutside, IsOutside
    <3> DEFINE m == Len(u)
    <3>2. k5 = 50 + m /\ m \in Nat /\ m <= 5
      BY <1>2, <1>4, <1>8, <1>14
    <3> HIDE DEF m
    <3>3. m = 5
      BY <1>3, <3>1, <3>2
    <3> QED
      BY <3>3 DEF m
  <2>2. 49 + 1 = 50 /\ 49 + 1 + 5 = 55
    OBVIOUS
  <2>3. IsSlice(g[5], lines, 49 + 1, 49 + 1 + 5)
    BY <1>9, <2>2 DEF AreSlices
  <2>4. Follows(lines, 49, u)
    BY <1>1, <1>8
  <2> QED
    BY <1>10, <2>1, <2>3, <2>4
<1>15. 15 <= n
  BY <1>1, <1>2, <1>5, <1>7 DEF Begins, n
<1>16. g[1] \in Seq(Int) /\ Len(g[1]) = 15
  <2>1. IsSlice(g[1], lines, 0, 15)
    BY <1>9 DEF AreSlices
  <2>2. /\ g[1] \in Seq(Int) /\ Len(g[1]) = 15 - 0
    BY <1>15, <2>1 DEF IsSlice, n
  <2> QED
    BY <2>2
<1>17. \A i \in 1 .. 15 : g[1][i] = d[i]
  <2> TAKE i \in 1 .. 15
  <2>1. g[1][i] = lines[0 + i]
    BY <1>9, <1>16 DEF AreSlices, IsSlice
  <2>2. lines[i] = d[i]
    BY <1>1, <1>5, <1>7 DEF Begins
  <2> QED
    BY <2>1, <2>2
<1> QED
  BY <1>5, <1>7, <1>11, <1>12, <1>13, <1>14, <1>16, <1>17 DEF AreGroups

-----------------------------------------------------------------------------
(* Sums of sequences                                                       *)

\* The fold of Sum, on every set of places: the last place is added last.
LastOf(s) == CHOOSE x \in s : \A y \in s : x >= y
IsFold(I, F, S) ==
    I = [s \in SUBSET S |->
            IF s = {} THEN 0 ELSE I[s \ {LastOf(s)}] + F[LastOf(s)]]

LEMMA LastOfRange ==
    ASSUME NEW n \in Nat, n # 0
    PROVE  LastOf(1 .. n) = n
<1> DEFINE s == 1 .. n
<1>1. n \in s /\ \A y \in s : n >= y /\ y \in Nat
  OBVIOUS
<1> HIDE DEF s
<1>2. LastOf(s) \in s /\ \A y \in s : LastOf(s) >= y
  BY <1>1 DEF LastOf
<1>3. LastOf(s) \in Nat /\ LastOf(s) >= n /\ n >= LastOf(s)
  BY <1>1, <1>2
<1> QED
  BY <1>3 DEF s

LEMMA LastOfSet ==
    ASSUME NEW S, S \subseteq Nat, IsFiniteSet(S), NEW s \in SUBSET S, s # {}
    PROVE  LastOf(s) \in s
<1>1. IsFiniteSet(s) /\ s \subseteq Nat
  BY FS_Subset
<1>2. Plots!Max(s) \in s /\ \A y \in s : Plots!Max(s) >= y
  BY <1>1, MaxOf DEF Plots!Max, Max
<1> QED
  BY <1>2 DEF LastOf

\* There is such a fold: it is the sum over the set.
LEMMA FoldExists ==
    ASSUME NEW q, NEW S, IsFiniteSet(S), \A x \in S : q[x] \in Int,
           \A s \in SUBSET S : s # {} => LastOf(s) \in s
    PROVE  \E I : IsFold(I, q, S)
<1>1. PICK I : IsSetSum(I, q, S)
  BY SetSumExists
<1>2. \A s \in SUBSET S : I[s] \in Int
  BY <1>1, SetSumIsNumber
<1>3. ASSUME NEW s \in SUBSET S, NEW y \in s
      PROVE  I[s] = q[y] + I[s \ {y}]
  <2>1. IsFiniteSet(S) /\ \A x \in S : q[x] \in Int
    OBVIOUS
  <2> QED
    BY <1>1, <2>1, SetSumOfAny
<1>4. ASSUME NEW s \in SUBSET S, s # {}
      PROVE  I[s] = I[s \ {LastOf(s)}] + q[LastOf(s)]
  <2> DEFINE y == LastOf(s)
  <2>1. y \in s
    BY <1>4
  <2> HIDE DEF y
  <2>2. I[s] = q[y] + I[s \ {y}]
    BY <1>3, <2>1
  <2>3. q[y] \in Int /\ s \ {y} \in SUBSET S
    BY <2>1
  <2>4. I[s \ {y}] \in Int
    BY <1>2, <2>3
  <2>5. I[s] = I[s \ {y}] + q[y]
    BY <2>2, <2>3, <2>4
  <2> QED
    BY <2>5 DEF y
<1>5. I[{}] = 0 /\ I = [s \in SUBSET S |-> I[s]]
  BY <1>1 DEF IsSetSum
<1>6. \A s \in SUBSET S :
          I[s] = IF s = {} THEN 0 ELSE I[s \ {LastOf(s)}] + q[LastOf(s)]
  BY <1>4, <1>5
<1>7. I = [s \in SUBSET S |->
              IF s = {} THEN 0 ELSE I[s \ {LastOf(s)}] + q[LastOf(s)]]
  BY <1>5, <1>6, Zenon
<1> QED
  BY <1>7 DEF IsFold

LEMMA SumOfSeven ==
    ASSUME NEW q \in Seq(Int), Len(q) = 7
    PROVE  Plots!Sum(q) = q[1] + q[2] + q[3] + q[4] + q[5] + q[6] + q[7]
<1> DEFINE S == 1 .. 7
           J == CHOOSE I : IsFold(I, q, S)
<1>0. \A x \in 1 .. 7 : q[x] \in Int
  <2>1. \A x \in 1 .. Len(q) : q[x] \in Int
    BY ElementOfSeq
  <2> QED
    BY <2>1
<1>1. DOMAIN q = S /\ \A x \in S : q[x] \in Int
  <2>1. DOMAIN q = 1 .. Len(q)
    OBVIOUS
  <2> QED
    BY <1>0, <2>1
<1>2. Plots!Sum(q) = J[S]
  BY <1>1 DEF Plots!Sum, Plots!FoldLeft, Plots!MapThenFoldSet, Plots!Max, IsFold, LastOf
<1>3. S \subseteq Nat /\ IsFiniteSet(S)
  <2>1. 1 \in Int /\ 7 \in Int
    OBVIOUS
  <2> QED
    BY <2>1, FS_Interval
<1>4. \E I : IsFold(I, q, S)
  <2> HIDE DEF S
  <2>1. \A s \in SUBSET S : s # {} => LastOf(s) \in s
    BY <1>3, LastOfSet
  <2>2. \A x \in S : q[x] \in Int
    BY <1>1
  <2> QED
    BY <1>3, <2>1, <2>2, FoldExists
<1>5. IsFold(J, q, S)
  BY <1>4
<1> HIDE DEF J
<1>6. J[{}] = 0 /\ \A s \in SUBSET S : s # {} => J[s] = J[s \ {LastOf(s)}] + q[LastOf(s)]
  BY <1>5 DEF IsFold
<1>7. \A n \in 1 .. 7 : J[1 .. n] = J[1 .. (n - 1)] + q[n]
  <2> TAKE n \in 1 .. 7
  <2> DEFINE r == 1 .. n
  <2>1. /\ r \in SUBSET S /\ r # {} /\ r \ {n} = 1 .. (n - 1)
        /\ n \in Nat /\ n # 0
    <3>1. n \in Nat /\ n # 0 /\ n <= 7
      OBVIOUS
    <3>2. \A x \in r : x \in S
      BY <3>1
    <3>3. n \in r
      BY <3>1
    <3>4. \A x : x \in r \ {n} <=> x \in 1 .. (n - 1)
      BY <3>1
    <3>5. r \ {n} = 1 .. (n - 1)
      BY <3>4
    <3> HIDE DEF r, S
    <3> QED
      BY <3>1, <3>2, <3>3, <3>5
  <2>2. LastOf(r) = n
    BY <2>1, LastOfRange
  <2> HIDE DEF r, S
  <2>3. J[r] = J[r \ {n}] + q[n]
    BY <1>6, <2>1, <2>2
  <2> QED
    BY <2>1, <2>3 DEF r
<1>8. 1 .. 0 = {} /\ 1 - 1 = 0 /\ 2 - 1 = 1 /\ 3 - 1 = 2 /\ 4 - 1 = 3 /\ 5 - 1 = 4
      /\ 6 - 1 = 5 /\ 7 - 1 = 6
  OBVIOUS
<1> DEFINE j(n) == J[1 .. n]
<1>9. j(0) = 0 /\ \A n \in 1 .. 7 : j(n) = j(n - 1) + q[n]
  BY <1>6, <1>7, <1>8
<1>10. Plots!Sum(q) = j(7)
  BY <1>2
<1> HIDE DEF j, S
<1>11. /\ j(1) = j(0) + q[1] /\ j(2) = j(1) + q[2] /\ j(3) = j(2) + q[3]
       /\ j(4) = j(3) + q[4] /\ j(5) = j(4) + q[5] /\ j(6) = j(5) + q[6]
       /\ j(7) = j(6) + q[7]
  BY <1>8, <1>9
<1>12. /\ q[1] \in Int /\ q[2] \in Int /\ q[3] \in Int /\ q[4] \in Int
       /\ q[5] \in Int /\ q[6] \in Int /\ q[7] \in Int
  BY <1>0
<1> QED
  BY <1>9, <1>10, <1>11, <1>12
-----------------------------------------------------------------------------
(* calc_counter_stats.py: the counters of a file, and their growth         *)

\* What the file has of a kernel.
IsCounted(c) ==
    /\ c.defrag \in Seq(Int) /\ c.fail4k \in Seq(Int) /\ c.fail2m \in Seq(Int)
    /\ c.succ4k \in Seq(Int) /\ c.succ2m \in Seq(Int) /\ c.thp \in Seq(Int)
    /\ Len(c.defrag) < 29 /\ Len(c.fail4k) < 27
    /\ Len(c.fail2m) < 19 /\ Len(c.succ4k) < 11

Succeeded(d) == (d[3] + d[4] + d[3]) - (d[6] + d[7] + d[8])
FailedTries(d) == d[6] + d[7] + d[8] + d[9] + d[10] + d[11] + d[12]
Numbered(d) == \A i \in 1 .. 15 : d[i] \in Int

LEMMA Middle ==
    ASSUME NEW d \in Seq(Int), Len(d) = 15
    PROVE  LET q == SubSeq(d, 6, 12)
           IN  q \in Seq(Int) /\ Len(q) = 7 /\ \A i \in 1 .. 7 : q[i] = d[5 + i]
<1> DEFINE q == SubSeq(d, 6, 12)
<1>0. \A i \in 6 .. 12 : d[i] \in Int
  <2>1. \A i \in 1 .. Len(d) : d[i] \in Int
    BY ElementOfSeq
  <2>2. \A i \in 1 .. 15 : d[i] \in Int
    BY <2>1
  <2>3. \A i \in 6 .. 12 : i \in 1 .. 15
    OBVIOUS
  <2> QED
    BY <2>2, <2>3
<1>1. q \in Seq(Int) /\ Len(q) = 7
  <2>1. 6 \in Int /\ 12 \in Int /\ 6 <= 12 /\ 12 - 6 + 1 = 7
    OBVIOUS
  <2>2. q \in Seq(Int)
    BY <1>0, <2>1, SubSeqProperties
  <2>3. Len(q) = 7
    BY <1>0, <2>1, SubSeqProperties
  <2> QED
    BY <2>2, <2>3
<1>2. \A i \in 1 .. 7 : q[i] = d[5 + i]
  BY SubSeqProperties
<1> QED
  BY <1>1, <1>2

LEMMA FileIsRead ==
    ASSUME NEW c, IsCounted(c), ~Plots!ParseFails(Plots!CounterFile(c)),
           NEW v, v = Plots!parse_counter_file(Plots!CounterFile(c))
    PROVE  /\ Numbered(c.defrag)
           /\ v[1] = Succeeded(c.defrag) /\ v[2] = FailedTries(c.defrag)
           /\ v[3] = Plots!Sum(c.fail4k) /\ v[4] = Plots!Sum(c.fail2m)
           /\ v[5] = Plots!Sum(c.succ4k)
           /\ Len(c.succ2m) <= 5 => v[6] = Plots!Sum(c.succ2m)
<1> DEFINE lines == Plots!CounterFile(c)
           g == Plots!Groups(lines)
           d == g[1]
           q == SubSeq(d, 6, 12)
<1>1. lines = FileOf(c.defrag, c.fail4k, c.fail2m, c.succ4k, c.succ2m, c.thp)
  BY DEF Plots!CounterFile, FileOf, Under
<1>2. v = <<Succeeded(d), Plots!Sum(q), Plots!Sum(g[2]), Plots!Sum(g[3]),
            Plots!Sum(g[4]), Plots!Sum(g[5])>>
  BY DEF Plots!parse_counter_file, Succeeded
<1>3. ~Plots!ParseFails(lines)
  OBVIOUS
<1> HIDE DEF lines
<1>4. g = Plots!Groups(lines)
  OBVIOUS
<1> HIDE DEF g
<1>5. /\ Len(c.defrag) = 15 /\ g[1] \in Seq(Int) /\ Len(g[1]) = 15
      /\ \A i \in 1 .. 15 : g[1][i] = c.defrag[i]
      /\ g[2] = c.fail4k /\ g[3] = c.fail2m /\ g[4] = c.succ4k
      /\ Len(c.succ2m) <= 5 => g[5] = c.succ2m
  <2> DEFINE x1 == c.defrag
             x2 == c.fail4k
             x3 == c.fail2m
             x4 == c.succ4k
             x5 == c.succ2m
             x6 == c.thp
  <2>1. /\ x1 \in Seq(Int) /\ x2 \in Seq(Int) /\ x3 \in Seq(Int)
        /\ x4 \in Seq(Int) /\ x5 \in Seq(Int) /\ x6 \in Seq(Int)
        /\ Len(x1) < 29 /\ Len(x2) < 27 /\ Len(x3) < 19 /\ Len(x4) < 11
    BY DEF IsCounted
  <2>2. lines = FileOf(x1, x2, x3, x4, x5, x6)
    BY <1>1
  <2> HIDE DEF x1, x2, x3, x4, x5, x6
  <2>3. AreGroups(g, x1, x2, x3, x4, x5)
    BY <1>3, <1>4, <2>1, <2>2, GroupsAreRead
  <2> QED
    BY <2>3 DEF AreGroups, x1, x2, x3, x4, x5
<1>6. d \in Seq(Int) /\ Len(d) = 15 /\ \A i \in 1 .. 15 : d[i] = c.defrag[i]
  BY <1>5
<1> HIDE DEF d
<1>7. Numbered(d)
  <2>1. \A i \in 1 .. Len(d) : d[i] \in Int
    BY <1>6, ElementOfSeq
  <2> QED
    BY <1>6, <2>1 DEF Numbered
<1>8. Numbered(c.defrag)
  BY <1>6, <1>7 DEF Numbered
<1>9. q \in Seq(Int) /\ Len(q) = 7 /\ \A i \in 1 .. 7 : q[i] = d[5 + i]
  BY <1>6, Middle
<1> HIDE DEF q
<1>10. Plots!Sum(q) = q[1] + q[2] + q[3] + q[4] + q[5] + q[6] + q[7]
  BY <1>9, SumOfSeven
<1>11. /\ q[1] = d[6] /\ q[2] = d[7] /\ q[3] = d[8] /\ q[4] = d[9]
       /\ q[5] = d[10] /\ q[6] = d[11] /\ q[7] = d[12]
  BY <1>9
<1>12. Plots!Sum(q) = FailedTries(d)
  BY <1>10, <1>11 DEF FailedTries
<1>13. FailedTries(d) = FailedTries(c.defrag) /\ Succeeded(d) = Succeeded(c.defrag)
  BY <1>6 DEF FailedTries, Succeeded
<1>14. /\ v[1] = Succeeded(d) /\ v[2] = Plots!Sum(q) /\ v[3] = Plots!Sum(g[2])
       /\ v[4] = Plots!Sum(g[3]) /\ v[5] = Plots!Sum(g[4]) /\ v[6] = Plots!Sum(g[5])
  BY <1>2
<1> QED
  BY <1>5, <1>8, <1>12, <1>13, <1>14

\* The columns of coverage of a folder: zeros if it has no statistics.
CoverageOf(f) == IF f.stats = <<>> THEN [i \in 1 .. 6 |-> 0]
                                   ELSE Plots!read_cov_stats(f.stats[1])[1]

\* The parts of the row of a folder that was read.
LEMMA RowIsHeld ==
    ASSUME NEW f, f.results, ~Plots!Unreadable(f), f \in UNION Experiments,
           NEW b, b = Plots!read_counters_stats(Plots!CounterFile(f.start),
                                                Plots!CounterFile(f.end))
    PROVE  \E S, p : Holds(S, Plots!Row(f), CoverageOf(f), b, p)
<1> DEFINE cov == IF f.stats = <<>> THEN <<[i \in 1 .. 6 |-> 0], <<0, 0>>>>
                                    ELSE Plots!read_cov_stats(f.stats[1])
           a == cov[1]
           p == cov[2]
           d == Plots!Last(f.times)
           S == Range(a) \cup Range(b) \cup Range(p) \cup Range(d)
           row == Plots!Row(f)
<1>1. row = Joined(a, b, p, d)
  BY DEF Plots!Row, Joined
<1>2. /\ a \in Seq(Range(a)) /\ Len(a) = 6 /\ p \in Seq(Range(p)) /\ Len(p) = 2
  <2>1. CASE f.stats = <<>>
    <3> DEFINE zeros == [i \in 1 .. 6 |-> 0]
               none == <<0, 0>>
    <3>1. a = zeros /\ p = none
      BY <2>1
    <3>2. zeros \in Seq({0}) /\ Len(zeros) = 6 /\ Range(zeros) = {0}
      BY DEF Range
    <3>3. none \in Seq({0}) /\ Len(none) = 2 /\ Range(none) = {0}
      BY DEF Range
    <3> HIDE DEF zeros, none, a, p
    <3> QED
      BY <3>1, <3>2, <3>3
  <2>2. CASE f.stats # <<>>
    <3> DEFINE c == Plots!Largest(Plots!Read(f.stats[1]))[1]
               line == Plots!CoverageLine(c)
               pages == SubSeq(Plots!Offsets_stats(c), 5, 6)
    <3>1. a = line /\ p = pages
      BY <2>2 DEF Plots!read_cov_stats
    <3> HIDE DEF c, a, p
    <3>2. line \in Seq(Range(line)) /\ Len(line) = 6
      BY DEF Plots!CoverageLine, Plots!RangeReport, Range
    <3>3. pages \in Seq(Range(pages)) /\ Len(pages) = 2
      BY DEF Plots!Offsets_stats, Range
    <3> HIDE DEF line, pages
    <3> QED
      BY <3>1, <3>2, <3>3
  <2> QED
    BY <2>1, <2>2
<1>3. b \in Seq(Range(b)) /\ Len(b) = 6
  BY DEF Plots!read_counters_stats, Range
<1>4. d \in Seq(Range(d))
  <2>1. IsList(f.times) /\ \A n \in DOMAIN f.times : IsList(f.times[n])
    BY FoldersAssumption
  <2>2. f.times # <<>>
    BY DEF Plots!Unreadable
  <2>3. Len(f.times) \in DOMAIN f.times
    BY <2>1, <2>2 DEF IsList
  <2> QED
    BY <2>1, <2>3 DEF IsList, Plots!Last
<1> HIDE DEF a, p, d, row
<1>5. a \in Seq(S) /\ b \in Seq(S) /\ p \in Seq(S) /\ d \in Seq(S)
  BY <1>2, <1>3, <1>4
<1> HIDE DEF S
<1>6. Holds(S, row, a, b, p)
  BY <1>1, <1>2, <1>3, <1>5, PartsOfRow
<1>7. CoverageOf(f) = a
  BY DEF CoverageOf, a
<1> QED
  BY <1>6, <1>7 DEF row

\* Columns 7 to 12 are the six values that were read.
LEMMA CountersOfRow ==
    ASSUME NEW S, NEW row, NEW a, NEW b, NEW p, Holds(S, row, a, b, p)
    PROVE  /\ SubSeq(row, 7, 7) = <<b[1]>> /\ row[8] = b[2]
           /\ SubSeq(row, 9, 10) = <<b[3], b[4]>>
           /\ row[11] = b[5] /\ row[12] = b[6]
<1>1. row \in Seq(S) /\ Len(row) >= 14 /\ Len(row) \in Nat
  BY DEF Holds
<1>2. \A i \in 1 .. 6 : row[6 + i] = b[i]
  BY DEF Holds
<1>3. /\ row[7] = b[1] /\ row[8] = b[2] /\ row[9] = b[3] /\ row[10] = b[4]
      /\ row[11] = b[5] /\ row[12] = b[6]
  BY <1>2
<1> DEFINE r == SubSeq(row, 7, 7)
           s == SubSeq(row, 9, 10)
<1>4. r \in Seq(S) /\ Len(r) = 1 /\ r[1] = row[7]
  BY <1>1, SubSeqProperties
<1>5. s \in Seq(S) /\ Len(s) = 2 /\ s[1] = row[9] /\ s[2] = row[10]
  BY <1>1, SubSeqProperties
<1> HIDE DEF r, s
<1>6. r = <<b[1]>>
  BY <1>3, <1>4
<1>7. s = <<b[3], b[4]>>
  BY <1>3, <1>5
<1> QED
  BY <1>3, <1>6, <1>7 DEF r, s

LEMMA FolderIsCounted ==
    ASSUME NEW f, f.results, f \in UNION Experiments
    PROVE  /\ IsCounted(f.start) /\ IsCounted(f.end)
           /\ Len(f.start.succ2m) = Len(f.end.succ2m)
<1>1. \A c \in {f.start, f.end} :
          /\ \A group \in Counters : c[group] \in Seq(Nat)
          /\ Len(c.defrag) < 29 /\ Len(c.fail4k) < 27
          /\ Len(c.fail2m) < 19 /\ Len(c.succ4k) < 11
  BY CountersAssumption
<1>2. Len(f.start.succ2m) = Len(f.end.succ2m)
  BY CountersAssumption
<1>3. ASSUME NEW c \in {f.start, f.end}
      PROVE  IsCounted(c)
  <2>1. \A s \in Seq(Nat) : s \in Seq(Int)
    OBVIOUS
  <2>2. /\ c.defrag \in Seq(Nat) /\ c.fail4k \in Seq(Nat) /\ c.fail2m \in Seq(Nat)
        /\ c.succ4k \in Seq(Nat) /\ c.succ2m \in Seq(Nat) /\ c.thp \in Seq(Nat)
    BY <1>1 DEF Counters
  <2> QED
    BY <1>1, <2>1, <2>2 DEF IsCounted
<1> QED
  BY <1>2, <1>3

LEMMA SevenGrow ==
    ASSUME NEW f, NEW s, NEW e, s = f.start.defrag, e = f.end.defrag,
           Numbered(s), Numbered(e)
    PROVE  Plots!Sum([n \in 1 .. 7 |-> Plots!Grew(f, n + 5)])
               = FailedTries(e) - FailedTries(s)
<1> DEFINE q == [n \in 1 .. 7 |-> Plots!Grew(f, n + 5)]
<1>1. \A i \in 1 .. 15 : Plots!Grew(f, i) = e[i] - s[i] /\ Plots!Grew(f, i) \in Int
  BY DEF Plots!Grew, Numbered
<1>2. \A n \in 1 .. 7 : q[n] = e[n + 5] - s[n + 5] /\ q[n] \in Int
  BY <1>1
<1>3. q \in Seq(Int) /\ Len(q) = 7
  <2>1. q \in [1 .. 7 -> Int]
    BY <1>2
  <2>2. Len(q) = 7
    OBVIOUS
  <2> HIDE DEF q
  <2>3. \E n \in Nat : q \in [1 .. n -> Int]
    BY <2>1
  <2>4. q \in Seq(Int)
    BY <2>3, SeqDef
  <2> QED
    BY <2>2, <2>4
<1> HIDE DEF q
<1>4. Plots!Sum(q) = q[1] + q[2] + q[3] + q[4] + q[5] + q[6] + q[7]
  BY <1>3, SumOfSeven
<1>5. /\ q[1] = e[6] - s[6] /\ q[2] = e[7] - s[7] /\ q[3] = e[8] - s[8]
      /\ q[4] = e[9] - s[9] /\ q[5] = e[10] - s[10] /\ q[6] = e[11] - s[11]
      /\ q[7] = e[12] - s[12]
  BY <1>2
<1>6. /\ e[6] \in Int /\ e[7] \in Int /\ e[8] \in Int /\ e[9] \in Int
      /\ e[10] \in Int /\ e[11] \in Int /\ e[12] \in Int
      /\ s[6] \in Int /\ s[7] \in Int /\ s[8] \in Int /\ s[9] \in Int
      /\ s[10] \in Int /\ s[11] \in Int /\ s[12] \in Int
  BY DEF Numbered
<1>7. Plots!Sum(q) = FailedTries(e) - FailedTries(s)
  BY <1>4, <1>5, <1>6 DEF FailedTries
<1> QED
  BY <1>7 DEF q

LEMMA ColumnsAreNamed == RowsInv /\ FoldersInv => CountersUnderTheirNames
<1> DEFINE Named(f, row) ==
        /\ SubSeq(row, 7, 7) = <<Plots!Growth(f, "succ4k")>>
        /\ Len(f.end.succ2m) <= 5 => row[8] = Plots!Growth(f, "succ2m")
        /\ SubSeq(row, 9, 10) = <<Plots!Growth(f, "fail4k"), Plots!Growth(f, "fail2m")>>
        /\ row[11] = (2 * Plots!Grew(f, 3) + Plots!Grew(f, 4))
                         - (Plots!Grew(f, 6) + Plots!Grew(f, 7) + Plots!Grew(f, 8))
        /\ row[12] = Plots!Sum([n \in 1 .. 7 |-> Plots!Grew(f, n + 5)])
<1> SUFFICES ASSUME RowsInv, FoldersInv, NEW f \in Plots!ReadIn
             PROVE  Named(f, Plots!RowOf(f))
  BY DEF CountersUnderTheirNames, Plots!CountersUnderTheirNames
<1>1. /\ f \in UNION Experiments /\ f.results /\ ~Plots!Unreadable(f)
      /\ Plots!RowOf(f) = Plots!Row(f)
  BY RowOfIsRow DEF FoldersInv
<1> DEFINE row == Plots!RowOf(f)
           v == Plots!parse_counter_file(Plots!CounterFile(f.start))
           w == Plots!parse_counter_file(Plots!CounterFile(f.end))
           b == Plots!read_counters_stats(Plots!CounterFile(f.start),
                                          Plots!CounterFile(f.end))
           s == f.start.defrag
           e == f.end.defrag
<1>2. /\ ~Plots!ParseFails(Plots!CounterFile(f.start))
      /\ ~Plots!ParseFails(Plots!CounterFile(f.end))
  BY <1>1 DEF Plots!Unreadable
<1>3. /\ IsCounted(f.start) /\ IsCounted(f.end)
      /\ Len(f.start.succ2m) = Len(f.end.succ2m)
  BY <1>1, FolderIsCounted
<1>4. b = <<w[5] - v[5], w[6] - v[6], w[3] - v[3], w[4] - v[4], w[1] - v[1], w[2] - v[2]>>
  BY DEF Plots!read_counters_stats
<1>5. \E S, a, p : Holds(S, row, a, b, p)
  BY <1>1, RowIsHeld
<1> HIDE DEF b
<1>6. /\ Numbered(s)
      /\ v[1] = Succeeded(s) /\ v[2] = FailedTries(s)
      /\ v[3] = Plots!Sum(f.start.fail4k) /\ v[4] = Plots!Sum(f.start.fail2m)
      /\ v[5] = Plots!Sum(f.start.succ4k)
      /\ Len(f.start.succ2m) <= 5 => v[6] = Plots!Sum(f.start.succ2m)
  BY <1>2, <1>3, FileIsRead
<1>7. /\ Numbered(e)
      /\ w[1] = Succeeded(e) /\ w[2] = FailedTries(e)
      /\ w[3] = Plots!Sum(f.end.fail4k) /\ w[4] = Plots!Sum(f.end.fail2m)
      /\ w[5] = Plots!Sum(f.end.succ4k)
      /\ Len(f.end.succ2m) <= 5 => w[6] = Plots!Sum(f.end.succ2m)
  BY <1>2, <1>3, FileIsRead
<1> HIDE DEF v, w, row
<1>8. /\ SubSeq(row, 7, 7) = <<b[1]>> /\ row[8] = b[2]
      /\ SubSeq(row, 9, 10) = <<b[3], b[4]>>
      /\ row[11] = b[5] /\ row[12] = b[6]
  BY <1>5, CountersOfRow
<1>9. /\ b[1] = w[5] - v[5] /\ b[2] = w[6] - v[6] /\ b[3] = w[3] - v[3]
      /\ b[4] = w[4] - v[4] /\ b[5] = w[1] - v[1] /\ b[6] = w[2] - v[2]
  BY <1>4
<1>10. b[1] = Plots!Growth(f, "succ4k")
  BY <1>6, <1>7, <1>9 DEF Plots!Growth
<1>11. Len(f.end.succ2m) <= 5 => b[2] = Plots!Growth(f, "succ2m")
  BY <1>3, <1>6, <1>7, <1>9 DEF Plots!Growth
<1>12. b[3] = Plots!Growth(f, "fail4k") /\ b[4] = Plots!Growth(f, "fail2m")
  BY <1>6, <1>7, <1>9 DEF Plots!Growth
<1>13. b[5] = (2 * Plots!Grew(f, 3) + Plots!Grew(f, 4))
                  - (Plots!Grew(f, 6) + Plots!Grew(f, 7) + Plots!Grew(f, 8))
  <2> HIDE DEF s, e
  <2>1. b[5] = Succeeded(e) - Succeeded(s)
    BY <1>6, <1>7, <1>9
  <2>2. /\ s[3] \in Int /\ s[4] \in Int /\ s[6] \in Int /\ s[7] \in Int /\ s[8] \in Int
        /\ e[3] \in Int /\ e[4] \in Int /\ e[6] \in Int /\ e[7] \in Int /\ e[8] \in Int
    BY <1>6, <1>7 DEF Numbered
  <2>3. \A i : Plots!Grew(f, i) = e[i] - s[i]
    BY DEF Plots!Grew, s, e
  <2> QED
    BY <2>1, <2>2, <2>3 DEF Succeeded
<1>14. b[6] = Plots!Sum([n \in 1 .. 7 |-> Plots!Grew(f, n + 5)])
  <2>1. b[6] = FailedTries(e) - FailedTries(s)
    BY <1>6, <1>7, <1>9
  <2> QED
    BY <1>6, <1>7, <2>1, SevenGrow
<1> QED
  BY <1>8, <1>10, <1>11, <1>12, <1>13, <1>14 DEF row

\* Every column of counters is the growth of the counters it is named for,
\* for any number of counters a kernel may have, wherever the file was read.
THEOREM ColumnsAreThoseOfCounters == ToolsSpec => []CountersUnderTheirNames
<1>1. ToolsInit => RowsInv /\ FoldersInv
  BY InitRowsInv, InitFoldersInv
<1>2. RowsInv /\ FoldersInv /\ [ToolsNext]_<<vars, logVars, tablesVars>>
          => RowsInv' /\ FoldersInv'
  BY NextRowsInv, NextFoldersInv
<1>3. RowsInv /\ FoldersInv => CountersUnderTheirNames
  BY ColumnsAreNamed
<1> QED
  BY <1>1, <1>2, <1>3, PTL DEF ToolsSpec
-----------------------------------------------------------------------------
(* Folds of lists: what is read last is taken into the result last         *)

LEMMA PrefixOf ==
    ASSUME NEW n \in Nat, NEW k \in 1 .. n
    PROVE  /\ 1 .. k \in SUBSET (1 .. n) /\ 1 .. k # {}
           /\ LastOf(1 .. k) = k /\ (1 .. k) \ {k} = 1 .. (k - 1)
<1>1. k \in Nat /\ k # 0 /\ k <= n
  OBVIOUS
<1>2. \A x \in 1 .. k : x \in 1 .. n
  BY <1>1
<1>3. k \in 1 .. k
  BY <1>1
<1>4. \A x : x \in (1 .. k) \ {k} <=> x \in 1 .. (k - 1)
  BY <1>1
<1>5. (1 .. k) \ {k} = 1 .. (k - 1)
  BY <1>4
<1>6. LastOf(1 .. k) = k
  BY <1>1, LastOfRange
<1> QED
  BY <1>2, <1>3, <1>5, <1>6

LEMMA LastIn ==
    ASSUME NEW n \in Nat
    PROVE  /\ IsFiniteSet(1 .. n) /\ 1 .. 0 = {}
           /\ \A s \in SUBSET (1 .. n) : s # {} => LastOf(s) \in s
<1> DEFINE S == 1 .. n
<1>1. S \subseteq Nat /\ IsFiniteSet(S)
  <2>1. 1 \in Int /\ n \in Int
    OBVIOUS
  <2> QED
    BY <2>1, FS_Interval
<1>2. 1 .. 0 = {}
  OBVIOUS
<1> HIDE DEF S
<1>3. \A s \in SUBSET S : s # {} => LastOf(s) \in s
  BY <1>1, LastOfSet
<1> QED
  BY <1>1, <1>2, <1>3 DEF S

-----------------------------------------------------------------------------
(* tables_plots.py: products and powers                                    *)

Factors(q, n) == n \in Nat /\ DOMAIN q = 1 .. n /\ \A k \in 1 .. n : q[k] \in Int
AreProducts(J, q, n) ==
    /\ J[0] = 1 /\ \A k \in 1 .. n : J[k] = J[k - 1] * q[k]
    /\ \A k \in 0 .. n : J[k] \in Int

IsProduct(I, q, S) ==
    I = [s \in SUBSET S |-> IF s = {} THEN 1 ELSE I[s \ {LastOf(s)}] * q[LastOf(s)]]

LEMMA ProductExists ==
    ASSUME NEW q, NEW n, Factors(q, n)
    PROVE  \E I : IsProduct(I, q, 1 .. n)
<1> DEFINE S == 1 .. n
           C == [s \in SUBSET S |-> LastOf(s)]
           G == [x \in S |-> [v \in Int |-> v * q[x]]]
<1>a. n \in Nat /\ \A x \in S : q[x] \in Int
  BY DEF Factors
<1>1. IsFiniteSet(S) /\ \A s \in SUBSET S : C[s] = LastOf(s) /\ (s # {} => C[s] \in s)
  BY <1>a, LastIn
<1>2. \A x \in S : \A v \in Int : G[x][v] = v * q[x] /\ G[x][v] \in Int
  BY <1>a
<1> HIDE DEF C, G, S
<1>3. PICK P : IsRec(P, C, G, 1, S)
  BY <1>1, RecExists
<1>4. \A s \in SUBSET S : P[s] \in Int
  <2> DEFINE V == Int
             base == 1
  <2>1. base \in V /\ IsRec(P, C, G, base, S)
    BY <1>3
  <2>2. \A x \in S : \A v \in V : G[x][v] \in V
    BY <1>2
  <2> HIDE DEF V, base
  <2>3. \A s \in SUBSET S : P[s] \in V
    BY <1>1, <2>1, <2>2, RecStays
  <2> QED
    BY <2>3 DEF V
<1>5. P = [s \in SUBSET S |-> P[s]] /\ P[{}] = 1
      /\ \A s \in SUBSET S : s # {} => P[s] = G[C[s]][P[s \ {C[s]}]]
  BY <1>3 DEF IsRec
<1>6. ASSUME NEW s \in SUBSET S, s # {}
      PROVE  P[s] = P[s \ {LastOf(s)}] * q[LastOf(s)]
  <2> DEFINE c == LastOf(s)
  <2>1. c \in S /\ c = C[s]
    BY <1>1, <1>6
  <2> HIDE DEF c
  <2>2. P[s] = G[c][P[s \ {c}]] /\ P[s \ {c}] \in Int
    BY <1>4, <1>5, <1>6, <2>1
  <2>3. P[s] = P[s \ {c}] * q[c]
    BY <1>2, <2>1, <2>2
  <2> QED
    BY <2>3 DEF c
<1>7. \A s \in SUBSET S :
          P[s] = IF s = {} THEN 1 ELSE P[s \ {LastOf(s)}] * q[LastOf(s)]
  BY <1>5, <1>6
<1>8. P = [s \in SUBSET S |-> IF s = {} THEN 1
                              ELSE P[s \ {LastOf(s)}] * q[LastOf(s)]]
  BY <1>5, <1>7, Zenon
<1> QED
  BY <1>8 DEF IsProduct, S

LEMMA ProductIs ==
    ASSUME NEW I, NEW q, NEW S, IsProduct(I, q, S)
    PROVE  /\ I[{}] = 1
           /\ \A s \in SUBSET S :
                  s # {} => I[s] = I[s \ {LastOf(s)}] * q[LastOf(s)]
  BY Zenon DEF IsProduct

LEMMA TimesIs ==
    ASSUME NEW q, NEW n, Factors(q, n)
    PROVE  \E J : AreProducts(J, q, n) /\ Plots!Times(q) = J[n]
<1> DEFINE S == 1 .. n
           I == CHOOSE I : IsProduct(I, q, S)
           J == [k \in 0 .. n |-> I[1 .. k]]
<1>0. n \in Nat /\ DOMAIN q = S /\ \A k \in 1 .. n : q[k] \in Int
  BY DEF Factors
<1>1. Plots!Times(q) = I[S]
  BY <1>0 DEF Plots!Times, Plots!FoldLeft, Plots!MapThenFoldSet, Plots!Max, IsProduct, LastOf
<1>2. IsProduct(I, q, S)
  BY ProductExists
<1> HIDE DEF I
<1>a. I[{}] = 1 /\ \A s \in SUBSET S :
                        s # {} => I[s] = I[s \ {LastOf(s)}] * q[LastOf(s)]
  <2> HIDE DEF S
  <2> QED
    BY <1>2, ProductIs
<1>3. I[{}] = 1 /\ \A k \in 1 .. n : I[1 .. k] = I[1 .. (k - 1)] * q[k]
  <2>1. I[{}] = 1
    BY <1>a
  <2>2. ASSUME NEW k \in 1 .. n
        PROVE  I[1 .. k] = I[1 .. (k - 1)] * q[k]
    <3> DEFINE r == 1 .. k
    <3>1. r \in SUBSET S /\ r # {} /\ LastOf(r) = k /\ r \ {k} = 1 .. (k - 1)
      BY <1>0, PrefixOf
    <3> HIDE DEF r, S
    <3>2. I[r] = I[r \ {k}] * q[k]
      BY <1>a, <3>1
    <3> QED
      BY <3>1, <3>2 DEF r
  <2> QED
    BY <2>1, <2>2
<1>4. /\ J[0] = 1 /\ J[n] = I[S]
      /\ \A k \in 1 .. n : J[k] = I[1 .. k] /\ J[k - 1] = I[1 .. (k - 1)]
  <2>1. 0 \in 0 .. n /\ n \in 0 .. n /\ 1 .. 0 = {}
        /\ \A k \in 1 .. n : k \in 0 .. n /\ k - 1 \in 0 .. n
    BY <1>0
  <2> QED
    BY <1>3, <2>1
<1> HIDE DEF J, S
<1>5. \A k \in 1 .. n : J[k] = J[k - 1] * q[k]
  BY <1>3, <1>4
<1>6. \A k \in 0 .. n : J[k] \in Int
  <2> DEFINE All == {k \in Nat : k <= n => J[k] \in Int}
  <2>1. 0 \in All
    BY <1>4
  <2>2. \A k \in Nat : k \in All => k + 1 \in All
    <3> SUFFICES ASSUME NEW k \in Nat, J[k] \in Int, k + 1 <= n
                 PROVE  J[k + 1] \in Int
      BY <1>0
    <3>1. k + 1 \in 1 .. n /\ (k + 1) - 1 = k
      BY <1>0
    <3>2. J[k + 1] = J[k] * q[k + 1] /\ q[k + 1] \in Int
      BY <1>0, <1>5, <3>1
    <3> QED
      BY <3>2
  <2>3. Nat \subseteq All
    <3> HIDE DEF All
    <3> QED
      BY <2>1, <2>2, NumbersOf
  <2>4. \A k \in 0 .. n : k \in Nat /\ k <= n
    BY <1>0
  <2> QED
    BY <2>3, <2>4
<1>7. AreProducts(J, q, n)
  BY <1>4, <1>5, <1>6 DEF AreProducts
<1> QED
  BY <1>1, <1>4, <1>7

\* The first numbers decide on the first products.
LEMMA SameProducts ==
    ASSUME NEW q, NEW r, NEW m \in Nat, NEW n \in Nat, m <= n,
           NEW J, AreProducts(J, q, m), NEW K, AreProducts(K, r, n),
           \A k \in 1 .. m : q[k] = r[k]
    PROVE  J[m] = K[m]
<1> DEFINE All == {k \in Nat : k <= m => J[k] = K[k]}
<1>1. 0 \in All
  BY DEF AreProducts
<1>2. \A k \in Nat : k \in All => k + 1 \in All
  <2> SUFFICES ASSUME NEW k \in Nat, J[k] = K[k], k + 1 <= m
               PROVE  J[k + 1] = K[k + 1]
    OBVIOUS
  <2>1. k + 1 \in 1 .. m /\ k + 1 \in 1 .. n /\ (k + 1) - 1 = k
    OBVIOUS
  <2>2. J[k + 1] = J[(k + 1) - 1] * q[k + 1] /\ K[k + 1] = K[(k + 1) - 1] * r[k + 1]
    BY <2>1 DEF AreProducts
  <2> QED
    BY <2>1, <2>2
<1>3. Nat \subseteq All
  <2> HIDE DEF All
  <2> QED
    BY <1>1, <1>2, NumbersOf
<1> QED
  BY <1>3

LEMMA PowerIs ==
    ASSUME NEW b \in Int, NEW n \in Nat
    PROVE  /\ Plots!Power(b, n) \in Int
           /\ Plots!Power(b, 0) = 1
           /\ Plots!Power(b, n + 1) = Plots!Power(b, n) * b
<1> DEFINE q(m) == [k \in 1 .. m |-> b]
<1>1. \A m \in Nat : Factors(q(m), m)
  BY DEF Factors
<1>2. \A m \in Nat : \E J : AreProducts(J, q(m), m) /\ Plots!Power(b, m) = J[m]
  <2> TAKE m \in Nat
  <2> DEFINE s == q(m)
  <2>1. Factors(s, m) /\ Plots!Power(b, m) = Plots!Times(s)
    BY <1>1 DEF Plots!Power
  <2> HIDE DEF s
  <2>2. \E J : AreProducts(J, s, m) /\ Plots!Times(s) = J[m]
    BY <2>1, TimesIs
  <2> QED
    BY <2>1, <2>2 DEF s
<1>3. \A m \in Nat : \A k \in 1 .. m : q(m)[k] = b
  OBVIOUS
<1> HIDE DEF q
<1>4. Plots!Power(b, 0) = 1
  BY <1>2 DEF AreProducts
<1> DEFINE p == n + 1
<1>a. p \in Nat /\ n <= p /\ p \in 1 .. p /\ p - 1 = n /\ n \in 0 .. n
  OBVIOUS
<1> HIDE DEF p
<1>5. PICK J : AreProducts(J, q(n), n) /\ Plots!Power(b, n) = J[n]
  BY <1>2
<1>6. PICK K : AreProducts(K, q(p), p) /\ Plots!Power(b, p) = K[p]
  BY <1>2, <1>a
<1>7. J[n] = K[n]
  <2> DEFINE s == q(n)
             t == q(p)
  <2>1. \A k \in 1 .. n : s[k] = t[k]
    <3>1. \A k \in 1 .. n : k \in 1 .. p
      BY <1>a
    <3> QED
      BY <1>3, <1>a, <3>1
  <2>2. AreProducts(J, s, n) /\ AreProducts(K, t, p)
    BY <1>5, <1>6
  <2> HIDE DEF s, t
  <2> QED
    BY <1>a, <2>1, <2>2, SameProducts
<1>8. K[p] = K[p - 1] * q(p)[p] /\ J[n] \in Int
  BY <1>5, <1>6, <1>a DEF AreProducts
<1>9. Plots!Power(b, p) = Plots!Power(b, n) * b
  BY <1>3, <1>5, <1>6, <1>7, <1>8, <1>a
<1> QED
  BY <1>4, <1>5, <1>8, <1>9 DEF p

LEMMA ProductOfMore ==
    ASSUME NEW a \in Nat, NEW b \in Nat, NEW c \in Nat, NEW d \in Nat,
           a <= b, c <= d
    PROVE  a * c <= b * d
<1>1. a * c <= b * c
  BY LessTimes
<1>2. c * b <= d * b
  BY LessTimes
<1>3. /\ a * c \in Nat /\ b * c \in Nat /\ b * d \in Nat
      /\ c * b = b * c /\ d * b = b * d
  OBVIOUS
<1> QED
  BY <1>1, <1>2, <1>3

LEMMA ProductOfLarger ==
    ASSUME NEW a \in Nat, NEW b \in Nat, NEW c \in Nat, NEW d \in Nat,
           a <= b, b > 0, c < d
    PROVE  a * c < b * d
<1>1. a * c <= b * c
  BY LessTimes
<1>2. PICK e \in Nat : d = c + e /\ e > 0
  <2>1. d - c \in Nat /\ d = c + (d - c) /\ d - c > 0
    OBVIOUS
  <2> QED
    BY <2>1
<1>3. b * d = b * c + b * e
  BY <1>2
<1>4. b * e > 0 /\ b * e \in Nat
  BY <1>2
<1>5. a * c \in Nat /\ b * c \in Nat
  OBVIOUS
<1> QED
  BY <1>1, <1>3, <1>4, <1>5

LEMMA SmallerFactor ==
    ASSUME NEW a \in Int, NEW b \in Int, NEW c \in Nat, c > 0, a * c < b * c
    PROVE  a < b
<1> SUFFICES ASSUME b <= a PROVE FALSE
  OBVIOUS
<1>1. PICK e \in Nat : a = b + e
  <2>1. a - b \in Nat /\ a = b + (a - b)
    OBVIOUS
  <2> QED
    BY <2>1
<1>2. a * c = b * c + e * c
  BY <1>1
<1>3. e * c \in Nat /\ a * c \in Int /\ b * c \in Int
  BY <1>1
<1> QED
  BY <1>2, <1>3

LEMMA PowerOfNat ==
    ASSUME NEW b \in Nat, NEW n \in Nat
    PROVE  /\ Plots!Power(b, n) \in Nat
           /\ b > 0 => Plots!Power(b, n) > 0
<1> DEFINE Holds1(k) == /\ Plots!Power(b, k) \in Nat
                        /\ b > 0 => Plots!Power(b, k) > 0
           All == {k \in Nat : Holds1(k)}
<1>1. 0 \in All
  BY PowerIs
<1>2. \A k \in Nat : k \in All => k + 1 \in All
  <2> SUFFICES ASSUME NEW k \in Nat, Holds1(k) PROVE Holds1(k + 1)
    OBVIOUS
  <2> DEFINE p == Plots!Power(b, k)
             q == Plots!Power(b, k + 1)
  <2>1. q = p * b /\ p \in Nat /\ (b > 0 => p > 0)
    BY PowerIs
  <2> HIDE DEF p, q
  <2>2. q \in Nat /\ (b > 0 => q > 0)
    BY <2>1
  <2> QED
    BY <2>2 DEF q
<1>3. Nat \subseteq All
  <2> HIDE DEF All
  <2> QED
    BY <1>1, <1>2, NumbersOf
<1> QED
  BY <1>3

LEMMA PowerOfMore ==
    ASSUME NEW a \in Nat, NEW b \in Nat, a <= b, NEW n \in Nat
    PROVE  Plots!Power(a, n) <= Plots!Power(b, n)
<1> DEFINE All == {k \in Nat : Plots!Power(a, k) <= Plots!Power(b, k)}
<1>1. 0 \in All
  BY PowerIs
<1>2. \A k \in Nat : k \in All => k + 1 \in All
  <2> SUFFICES ASSUME NEW k \in Nat, Plots!Power(a, k) <= Plots!Power(b, k)
               PROVE  Plots!Power(a, k + 1) <= Plots!Power(b, k + 1)
    OBVIOUS
  <2> DEFINE p == Plots!Power(a, k)
             q == Plots!Power(b, k)
  <2>1. p \in Nat /\ q \in Nat /\ p <= q
    BY PowerOfNat
  <2>2. Plots!Power(a, k + 1) = p * a /\ Plots!Power(b, k + 1) = q * b
    BY PowerIs
  <2> HIDE DEF p, q
  <2>3. p * a <= q * b
    BY <2>1, ProductOfMore
  <2> QED
    BY <2>2, <2>3
<1>3. Nat \subseteq All
  <2> HIDE DEF All
  <2> QED
    BY <1>1, <1>2, NumbersOf
<1> QED
  BY <1>3

LEMMA PowerOfLarger ==
    ASSUME NEW a \in Nat, NEW b \in Nat, a < b, NEW n \in Nat, n > 0
    PROVE  Plots!Power(a, n) < Plots!Power(b, n)
<1> DEFINE m == n - 1
           p == Plots!Power(a, m)
           q == Plots!Power(b, m)
<1>1. m \in Nat /\ n = m + 1
  OBVIOUS
<1> HIDE DEF m
<1>2. p \in Nat /\ q \in Nat /\ q > 0 /\ p <= q
  BY <1>1, PowerOfNat, PowerOfMore
<1>3. Plots!Power(a, n) = p * a /\ Plots!Power(b, n) = q * b
  BY <1>1, PowerIs
<1> HIDE DEF p, q
<1>4. p * a < q * b
  BY <1>2, ProductOfLarger
<1> QED
  BY <1>3, <1>4

LEMMA TimesRegroup ==
    ASSUME NEW p \in Int, NEW q \in Int, NEW a \in Int, NEW b \in Int
    PROVE  (p * a) * (q * b) = (p * q) * (a * b)
  OBVIOUS

LEMMA PowerOfProduct ==
    ASSUME NEW a \in Int, NEW b \in Int, NEW n \in Nat, NEW c \in Int, c = a * b
    PROVE  Plots!Power(a, n) * Plots!Power(b, n) = Plots!Power(c, n)
<1> DEFINE All == {k \in Nat :
                      Plots!Power(a, k) * Plots!Power(b, k) = Plots!Power(c, k)}
<1>1. 0 \in All
  BY PowerIs
<1>2. \A k \in Nat : k \in All => k + 1 \in All
  <2> SUFFICES ASSUME NEW k \in Nat,
                      Plots!Power(a, k) * Plots!Power(b, k) = Plots!Power(c, k)
               PROVE  Plots!Power(a, k + 1) * Plots!Power(b, k + 1)
                          = Plots!Power(c, k + 1)
    OBVIOUS
  <2> DEFINE p == Plots!Power(a, k)
             q == Plots!Power(b, k)
             r == Plots!Power(c, k)
  <2>1. p \in Int /\ q \in Int /\ p * q = r
    BY PowerIs
  <2>2. /\ Plots!Power(a, k + 1) = p * a /\ Plots!Power(b, k + 1) = q * b
        /\ Plots!Power(c, k + 1) = r * c
    BY PowerIs
  <2> HIDE DEF p, q, r
  <2>3. (p * a) * (q * b) = (p * q) * (a * b)
    BY <2>1, TimesRegroup
  <2> QED
    BY <2>1, <2>2, <2>3
<1>3. Nat \subseteq All
  <2> HIDE DEF All
  <2> QED
    BY <1>1, <1>2, NumbersOf
<1> QED
  BY <1>3

LEMMA PowersOfFew ==
    /\ \A b \in Int : Plots!Power(b, 1) = b
    /\ \A n \in Nat : n > 0 => Plots!Power(0, n) = 0
<1>1. \A b \in Int : Plots!Power(b, 1) = b
  <2> TAKE b \in Int
  <2>1. 0 \in Nat /\ 0 + 1 = 1
    OBVIOUS
  <2>2. Plots!Power(b, 0 + 1) = Plots!Power(b, 0) * b /\ Plots!Power(b, 0) = 1
    BY <2>1, PowerIs
  <2> QED
    BY <2>1, <2>2
<1>2. \A n \in Nat : n > 0 => Plots!Power(0, n) = 0
  <2> SUFFICES ASSUME NEW n \in Nat, n > 0 PROVE Plots!Power(0, n) = 0
    OBVIOUS
  <2> DEFINE m == n - 1
  <2>1. m \in Nat /\ m + 1 = n /\ 0 \in Int
    OBVIOUS
  <2> HIDE DEF m
  <2>2. Plots!Power(0, m) \in Int /\ Plots!Power(0, n) = Plots!Power(0, m) * 0
    BY <2>1, PowerIs
  <2> QED
    BY <2>2
<1> QED
  BY <1>1, <1>2

LEMMA ProductWithin ==
    ASSUME NEW a \in Int, NEW x \in Int, NEW m \in Nat, NEW t \in Nat,
           -m <= a, a <= m, -t <= x, x <= t
    PROVE  -(m * t) <= a * x /\ a * x <= m * t
<1>0. PICK b \in Nat : (a = b \/ a = -b) /\ b <= m
  <2>1. CASE a >= 0
    BY <2>1
  <2>2. CASE a < 0
    <3>1. -a \in Nat /\ a = -(-a) /\ -a <= m
      BY <2>2
    <3> QED
      BY <3>1
  <2> QED
    BY <2>1, <2>2
<1>1. PICK y \in Nat : (x = y \/ x = -y) /\ y <= t
  <2>1. CASE x >= 0
    BY <2>1
  <2>2. CASE x < 0
    <3>1. -x \in Nat /\ x = -(-x) /\ -x <= t
      BY <2>2
    <3> QED
      BY <3>1
  <2> QED
    BY <2>1, <2>2
<1>2. b * y <= m * t
  BY <1>0, <1>1, ProductOfMore
<1>3. /\ b * y \in Nat /\ m * t \in Nat
      /\ (-b) * y = -(b * y) /\ b * (-y) = -(b * y) /\ (-b) * (-y) = b * y
  OBVIOUS
<1>4. a * x = b * y \/ a * x = -(b * y)
  BY <1>0, <1>1, <1>3
<1> QED
  BY <1>2, <1>3, <1>4

LEMMA ProductsWithin ==
    ASSUME NEW q, NEW n, Factors(q, n), NEW J, AreProducts(J, q, n),
           NEW t \in Nat, \A k \in 1 .. n : -t <= q[k] /\ q[k] <= t
    PROVE  J[n] <= Plots!Power(t, n)
<1>0. n \in Nat /\ \A k \in 1 .. n : q[k] \in Int
  BY DEF Factors
<1> DEFINE Within(k) == -Plots!Power(t, k) <= J[k] /\ J[k] <= Plots!Power(t, k)
           All == {k \in Nat : k <= n => Within(k)}
<1>1. 0 \in All
  <2>1. Plots!Power(t, 0) = 1
    BY PowerIs
  <2>2. J[0] = 1
    BY DEF AreProducts
  <2>3. Within(0)
    BY <2>1, <2>2
  <2> HIDE DEF Within
  <2> QED
    BY <2>3
<1>2. \A k \in Nat : k \in All => k + 1 \in All
  <2> SUFFICES ASSUME NEW k \in Nat, k + 1 <= n, k <= n => Within(k)
               PROVE  Within(k + 1)
    OBVIOUS
  <2> DEFINE a == J[k]
             x == q[k + 1]
             m == Plots!Power(t, k)
  <2>1. k + 1 \in 1 .. n /\ k \in 0 .. n /\ k <= n /\ (k + 1) - 1 = k
    BY <1>0
  <2>2. J[k + 1] = J[(k + 1) - 1] * x /\ J[k] \in Int
    BY <2>1 DEF AreProducts
  <2>3. a \in Int /\ x \in Int /\ -t <= x /\ x <= t /\ J[k + 1] = a * x
    BY <1>0, <2>1, <2>2
  <2>4. m \in Nat /\ Plots!Power(t, k + 1) = m * t
    <3>1. m \in Nat
      BY PowerOfNat
    <3>2. Plots!Power(t, k + 1) = m * t
      BY PowerIs
    <3> QED
      BY <3>1, <3>2
  <2>5. -m <= a /\ a <= m
    BY <2>1
  <2> HIDE DEF a, x, m
  <2>6. -(m * t) <= a * x /\ a * x <= m * t
    BY <2>3, <2>4, <2>5, ProductWithin
  <2> QED
    BY <2>3, <2>4, <2>6
<1>3. Nat \subseteq All
  <2> HIDE DEF All
  <2> QED
    BY <1>1, <1>2, NumbersOf
<1>4. Within(n)
  <2> HIDE DEF Within
  <2> QED
    BY <1>0, <1>3
<1> QED
  BY <1>4

\* A mean is up to one the root.
IsRoot(r, prod, n) ==
    /\ r \in Int /\ prod < Plots!Power(r + 2, n)
    /\ r > 0 => Plots!Power(r - 1, n) < prod

LEMMA CountRootIs ==
    ASSUME NEW prod \in Nat, NEW n \in Nat, n > 0, NEW most \in Nat,
           prod <= Plots!Power(most, n)
    PROVE  IsRoot(Plots!CountRoot(prod, n, most), prod, n)
<1> DEFINE Fits(r) == Plots!Power(r, n) <= prod /\ prod < Plots!Power(r + 1, n)
           Beyond == {r \in Nat : prod < Plots!Power(r + 1, n)}
           c == CHOOSE r \in 0 .. most : Fits(r)
           root == Plots!CountRoot(prod, n, most)
<1>0. \A r \in Nat : Plots!Power(r, n) \in Nat
  BY PowerOfNat
<1>1. most \in Beyond
  <2>1. most + 1 \in Nat /\ most < most + 1
    OBVIOUS
  <2>2. Plots!Power(most, n) < Plots!Power(most + 1, n)
    BY <2>1, PowerOfLarger
  <2> QED
    BY <1>0, <2>1, <2>2
<1>2. PICK r \in Beyond : \A s \in Beyond : r <= s
  <2>1. Beyond \subseteq Nat /\ Beyond # {}
    BY <1>1
  <2> HIDE DEF Beyond
  <2> QED
    BY <2>1, LeastNumber
<1>3. r \in 0 .. most /\ Fits(r)
  <2>1. r \in Nat /\ r <= most /\ prod < Plots!Power(r + 1, n)
    BY <1>1, <1>2
  <2>2. CASE r = 0
    BY <2>1, <2>2, PowersOfFew
  <2>3. CASE r # 0
    <3>1. r - 1 \in Nat /\ ~(r <= r - 1) /\ (r - 1) + 1 = r
      BY <2>1, <2>3
    <3>2. ~(prod < Plots!Power((r - 1) + 1, n))
      BY <1>2, <3>1
    <3>3. Plots!Power(r, n) <= prod
      BY <1>0, <2>1, <3>1, <3>2
    <3> QED
      BY <2>1, <3>3
  <2> QED
    BY <2>1, <2>2, <2>3
<1>4. c \in 0 .. most /\ Fits(c)
  BY <1>3
<1>5. root = IF <<prod, n>> \in RootBelow THEN c - 1
             ELSE IF <<prod, n>> \in RootAbove THEN c + 1 ELSE c
  BY DEF Plots!CountRoot
<1> HIDE DEF c, root
<1>6. /\ c \in Nat /\ c + 1 \in Nat /\ c + 2 \in Nat
      /\ c + 1 < c + 2 /\ (c > 0 => c - 1 \in Nat /\ c - 1 < c)
      /\ (c > 1 => c - 2 \in Nat /\ c - 2 < c)
      /\ c + 3 \in Nat /\ c + 1 < c + 3
  BY <1>4
<1>7. CASE root = c
  <2>1. Plots!Power(c + 1, n) < Plots!Power(c + 2, n)
    BY <1>6, PowerOfLarger
  <2>2. prod < Plots!Power(c + 2, n)
    BY <1>0, <1>4, <1>6, <2>1
  <2>3. c > 0 => Plots!Power(c - 1, n) < prod
    <3> HAVE c > 0
    <3>1. Plots!Power(c - 1, n) < Plots!Power(c, n)
      BY <1>6, PowerOfLarger
    <3> QED
      BY <1>0, <1>4, <1>6, <3>1
  <2>4. IsRoot(c, prod, n)
    BY <1>6, <2>2, <2>3 DEF IsRoot
  <2> QED
    BY <1>7, <2>4 DEF root
<1>8. CASE root = c - 1
  <2>1. root + 2 = c + 1 /\ root - 1 = c - 2 /\ root \in Int
    BY <1>6, <1>8
  <2>2. prod < Plots!Power(root + 2, n)
    BY <1>4, <2>1
  <2>3. root > 0 => Plots!Power(root - 1, n) < prod
    <3> HAVE root > 0
    <3>1. c > 1
      BY <1>6, <1>8
    <3>2. Plots!Power(c - 2, n) < Plots!Power(c, n)
      BY <1>6, <3>1, PowerOfLarger
    <3> QED
      BY <1>0, <1>4, <1>6, <2>1, <3>1, <3>2
  <2>4. IsRoot(root, prod, n)
    BY <2>1, <2>2, <2>3 DEF IsRoot
  <2> QED
    BY <2>4 DEF root
<1>9. CASE root = c + 1 /\ <<prod, n>> \in RootAbove
  <2>1. PICK s \in 0 .. prod : Plots!Power(s, n) < prod /\ prod < Plots!Power(s + 1, n)
    <3> DEFINE x == <<prod, n>>
    <3>1. x[1] = prod /\ x[2] = n /\ x \in RootAbove
      BY <1>9
    <3> HIDE DEF x
    <3> QED
      BY <3>1, RootsAssumption
  <2>2. s \in Nat /\ s + 1 \in Nat
    BY <2>1
  <2>3. ~(s < c)
    <3> SUFFICES ASSUME s < c PROVE FALSE
      OBVIOUS
    <3>1. s + 1 = c \/ s + 1 < c
      BY <1>6, <2>2
    <3>2. Plots!Power(s + 1, n) <= Plots!Power(c, n)
      BY <1>0, <1>6, <2>2, <3>1, PowerOfLarger
    <3> QED
      BY <1>0, <1>4, <1>6, <2>1, <2>2, <3>2
  <2>4. Plots!Power(c, n) < prod
    <3>1. s = c \/ c < s
      BY <1>6, <2>2, <2>3
    <3>2. Plots!Power(c, n) <= Plots!Power(s, n)
      BY <1>0, <1>6, <2>2, <3>1, PowerOfLarger
    <3> QED
      BY <1>0, <1>6, <2>1, <2>2, <3>2
  <2>5. Plots!Power(c + 1, n) < Plots!Power(c + 3, n)
    BY <1>6, PowerOfLarger
  <2>6. root + 2 = c + 3 /\ root - 1 = c /\ root \in Int
    BY <1>6, <1>9
  <2>7. prod < Plots!Power(root + 2, n)
    BY <1>0, <1>4, <1>6, <2>5, <2>6
  <2>8. IsRoot(root, prod, n)
    BY <2>4, <2>6, <2>7 DEF IsRoot
  <2> QED
    BY <2>8 DEF root
<1> QED
  BY <1>5, <1>7, <1>8, <1>9

LEMMA ShareRootIs ==
    ASSUME NEW prod \in Nat, NEW n \in Nat, n > 0, NEW most \in Nat,
           prod <= Plots!Power(most, n)
    PROVE  IsRoot(Plots!ShareRoot(prod, n, most), prod, n)
<1> DEFINE two == Plots!Power(2, n)
           twice == prod * two
           Fits(r) == /\ twice < Plots!Power(2 * r + 1, n)
                      /\ r > 0 => Plots!Power(2 * r - 1, n) <= twice
           Above == {r \in Nat : twice < Plots!Power(2 * r + 1, n)}
           c == CHOOSE r \in 0 .. most : Fits(r)
<1>0. /\ \A r \in Nat : Plots!Power(r, n) \in Nat
      /\ two \in Nat /\ two > 0
  <2>1. \A r \in Nat : Plots!Power(r, n) \in Nat /\ (r > 0 => Plots!Power(r, n) > 0)
    BY PowerOfNat
  <2>2. 2 \in Nat /\ 2 > 0
    OBVIOUS
  <2> QED
    BY <2>1, <2>2
<1>a. \A r \in Nat : Plots!Power(r, n) * two = Plots!Power(2 * r, n)
  <2> TAKE r \in Nat
  <2> DEFINE d == 2 * r
  <2>1. d \in Int /\ d = r * 2 /\ r \in Int /\ 2 \in Int
    OBVIOUS
  <2> HIDE DEF d
  <2>2. Plots!Power(r, n) * Plots!Power(2, n) = Plots!Power(d, n)
    BY <2>1, PowerOfProduct
  <2> QED
    BY <2>2 DEF d
<1>b. Plots!ShareRoot(prod, n, most) = c
  BY DEF Plots!ShareRoot
<1> HIDE DEF two
<1>c. twice \in Nat
  BY <1>0
<1>1. most \in Above
  <2> DEFINE p == Plots!Power(most, n)
  <2>1. 2 * most \in Nat /\ 2 * most + 1 \in Nat /\ 2 * most < 2 * most + 1
    OBVIOUS
  <2>2. Plots!Power(2 * most, n) < Plots!Power(2 * most + 1, n)
    BY <2>1, PowerOfLarger
  <2>3. p \in Nat /\ p * two = Plots!Power(2 * most, n) /\ prod <= p
    BY <1>0, <1>a
  <2> HIDE DEF p
  <2>4. prod * two <= p * two
    BY <1>0, <2>3, LessTimes
  <2>5. Plots!Power(2 * most, n) \in Nat /\ Plots!Power(2 * most + 1, n) \in Nat
    BY <1>0, <2>1
  <2>6. twice < Plots!Power(2 * most + 1, n)
    <3> HIDE DEF twice
    <3>1. twice <= p * two
      BY <2>4 DEF twice
    <3> QED
      BY <1>c, <2>2, <2>3, <2>5, <3>1
  <2> QED
    BY <2>6
<1> HIDE DEF twice
<1>2. PICK r \in Above : \A s \in Above : r <= s
  <2>1. Above \subseteq Nat /\ Above # {}
    BY <1>1
  <2> HIDE DEF Above
  <2> QED
    BY <2>1, LeastNumber
<1>3. r \in 0 .. most /\ Fits(r)
  <2>1. r \in Nat /\ r <= most /\ twice < Plots!Power(2 * r + 1, n)
    BY <1>1, <1>2
  <2>3. ASSUME r > 0 PROVE Plots!Power(2 * r - 1, n) <= twice
    <3>1. /\ r - 1 \in Nat /\ ~(r <= r - 1) /\ 2 * (r - 1) + 1 = 2 * r - 1
          /\ 2 * r - 1 \in Nat
      BY <2>1, <2>3
    <3>2. ~(twice < Plots!Power(2 * (r - 1) + 1, n))
      BY <1>2, <3>1
    <3>3. ~(twice < Plots!Power(2 * r - 1, n))
      BY <3>1, <3>2
    <3>4. Plots!Power(2 * r - 1, n) \in Nat
      BY <1>0, <3>1
    <3> QED
      BY <1>c, <3>3, <3>4
  <2> QED
    BY <2>1, <2>3
<1>4. c \in 0 .. most /\ Fits(c)
  BY <1>3
<1> HIDE DEF c
<1>6. /\ c \in Nat /\ c + 2 \in Nat /\ 2 * c + 1 \in Nat /\ 2 * (c + 2) \in Nat
      /\ 2 * c + 1 < 2 * (c + 2)
      /\ c > 0 => /\ c - 1 \in Nat /\ 2 * (c - 1) \in Nat /\ 2 * c - 1 \in Nat
                  /\ 2 * (c - 1) < 2 * c - 1
  BY <1>4
<1>7. prod < Plots!Power(c + 2, n)
  <2> DEFINE q == Plots!Power(c + 2, n)
             x == Plots!Power(2 * c + 1, n)
             y == Plots!Power(2 * (c + 2), n)
  <2>1. x < y
    BY <1>6, PowerOfLarger
  <2>2. q * two = y /\ q \in Nat /\ x \in Nat /\ y \in Nat /\ twice < x
    BY <1>0, <1>4, <1>6, <1>a
  <2> HIDE DEF q, x, y
  <2>3. twice < q * two
    BY <1>c, <2>1, <2>2
  <2>4. prod * two < q * two
    BY <2>3 DEF twice
  <2>5. prod < q
    BY <1>0, <2>2, <2>4, SmallerFactor
  <2> QED
    BY <2>5 DEF q
<1>8. c > 0 => Plots!Power(c - 1, n) < prod
  <2> HAVE c > 0
  <2> DEFINE q == Plots!Power(c - 1, n)
             x == Plots!Power(2 * c - 1, n)
             y == Plots!Power(2 * (c - 1), n)
  <2>1. y < x
    BY <1>6, PowerOfLarger
  <2>2. q * two = y /\ q \in Nat /\ x \in Nat /\ y \in Nat /\ x <= twice
    BY <1>0, <1>4, <1>6, <1>a
  <2> HIDE DEF q, x, y
  <2>3. q * two < twice
    BY <1>c, <2>1, <2>2
  <2>4. q * two < prod * two
    BY <2>3 DEF twice
  <2>5. q < prod
    BY <1>0, <2>2, <2>4, SmallerFactor
  <2> QED
    BY <2>5 DEF q
<1> QED
  BY <1>6, <1>7, <1>8, <1>b DEF IsRoot

\* The largest of numbers and of what is below zero by as much.
LEMMA LargestOfBoth ==
    ASSUME NEW n \in Nat, n > 0, NEW q, \A k \in 1 .. n : q[k] \in Int
    PROVE  LET m == Plots!Max({q[k] : k \in 1 .. n} \cup {-q[k] : k \in 1 .. n})
           IN  m \in Nat /\ \A k \in 1 .. n : -m <= q[k] /\ q[k] <= m
<1> DEFINE A == {q[k] : k \in 1 .. n}
           B == {-q[k] : k \in 1 .. n}
           S == A \cup B
           T == S \cap Nat
           m == Plots!Max(S)
<1>1. IsFiniteSet(S)
  <2>1. IsFiniteSet(1 .. n)
    BY LastIn
  <2>2. IsFiniteSet(A) /\ IsFiniteSet(B)
    <3> DEFINE f == [k \in 1 .. n |-> q[k]]
               g == [k \in 1 .. n |-> -q[k]]
               D == 1 .. n
    <3>1. f \in [D -> A] /\ \A y \in A : \E x \in D : f[x] = y
      OBVIOUS
    <3>2. g \in [D -> B] /\ \A y \in B : \E x \in D : g[x] = y
      OBVIOUS
    <3>3. IsFiniteSet(D)
      BY <2>1
    <3> HIDE DEF f, g, A, B, D
    <3>4. f \in Surjection(D, A) /\ g \in Surjection(D, B)
      BY <3>1, <3>2 DEF Surjection
    <3> QED
      BY <3>3, <3>4, FS_Surjection
  <2> HIDE DEF A, B
  <2> QED
    BY <2>2, FS_Union
<1>2. T # {} /\ T \subseteq Nat /\ T \subseteq S
  <2>1. 1 \in 1 .. n /\ q[1] \in Int
    OBVIOUS
  <2>2. q[1] \in S /\ -q[1] \in S
    BY <2>1
  <2>3. q[1] \in Nat \/ -q[1] \in Nat
    BY <2>1
  <2> HIDE DEF S
  <2> QED
    BY <2>2, <2>3
<1>3. \A x \in S : x \in Int /\ -x \in S
  <2> TAKE x \in S
  <2>1. PICK k \in 1 .. n : x = q[k] \/ x = -q[k]
    OBVIOUS
  <2>2. q[k] \in Int /\ q[k] \in S /\ -q[k] \in S
    OBVIOUS
  <2>3. -(-q[k]) = q[k]
    BY <2>2
  <2> HIDE DEF S
  <2> QED
    BY <2>1, <2>2, <2>3
<1>4. \A k \in 1 .. n : q[k] \in S
  OBVIOUS
<1> HIDE DEF S
<1>5. IsFiniteSet(T)
  BY <1>1, <1>2, FS_Subset
<1> HIDE DEF T
<1>6. PICK t \in T : \A x \in T : x <= t
  BY <1>2, <1>5, MaxOf
<1>7. t \in S /\ t \in Nat /\ \A x \in S : t >= x
  <2>1. t \in S /\ t \in Nat
    BY <1>2
  <2>2. ASSUME NEW x \in S PROVE t >= x
    <3>1. x \in Int
      BY <1>3
    <3>2. CASE x \in Nat
      BY <1>6, <2>1, <3>2 DEF T
    <3>3. CASE x \notin Nat
      BY <2>1, <3>1, <3>3
    <3> QED
      BY <3>2, <3>3
  <2> QED
    BY <2>1, <2>2
<1>8. m \in S /\ \A x \in S : m >= x
  BY <1>7 DEF Plots!Max
<1> HIDE DEF m
<1>9. m \in Nat
  BY <1>3, <1>7, <1>8
<1>10. ASSUME NEW k \in 1 .. n PROVE -m <= q[k] /\ q[k] <= m
  <2>1. q[k] \in S /\ q[k] \in Int /\ -q[k] \in S
    BY <1>3, <1>4
  <2>2. m >= q[k] /\ m >= -q[k]
    BY <1>8, <2>1
  <2> QED
    BY <1>9, <2>1, <2>2
<1> QED
  BY <1>9, <1>10 DEF m, S

Column(rows, i) == [k \in DOMAIN rows |-> rows[k][i]]

LEMMA MeanIs ==
    ASSUME NEW rows, NEW i, NEW n \in Nat, n > 0, n = Len(rows),
           Factors(Column(rows, i), n),
           n > 1 => Plots!Product(rows, i) >= 0,
           NEW J, AreProducts(J, Column(rows, i), n)
    PROVE  IsRoot(Plots!Mean(rows, i), J[n], n)
<1> DEFINE q == Column(rows, i)
           prod == Plots!Product(rows, i)
           A == {rows[k][i] : k \in 1 .. n}
           B == {-rows[k][i] : k \in 1 .. n}
           most == Plots!Max(A \cup B)
<1>1. DOMAIN rows = 1 .. n /\ \A k \in 1 .. n : q[k] = rows[k][i] /\ q[k] \in Int
  BY DEF Factors, Column
<1>2. prod = J[n]
  <2>1. prod = Plots!Times(q)
    BY DEF Plots!Product, Column
  <2>2. PICK K : AreProducts(K, q, n) /\ Plots!Times(q) = K[n]
    BY TimesIs
  <2> HIDE DEF q
  <2>3. n <= n /\ AreProducts(J, q, n) /\ \A k \in 1 .. n : q[k] = q[k]
    BY DEF q
  <2>4. J[n] = K[n]
    BY <2>2, <2>3, SameProducts
  <2> QED
    BY <2>1, <2>2, <2>4
<1>3. J[n] \in Int
  BY DEF AreProducts
<1>4. Plots!Mean(rows, i) = IF n = 1 THEN rows[1][i]
                            ELSE IF i \in 3 .. 5 THEN Plots!ShareRoot(prod, n, most)
                                                 ELSE Plots!CountRoot(prod, n, most)
  BY DEF Plots!Mean
<1> HIDE DEF prod
<1>5. CASE n = 1
  <2> DEFINE x == rows[1][i]
  <2>1. 1 \in 1 .. n /\ 0 \in 0 .. n /\ 1 - 1 = 0
    BY <1>5
  <2>2. x \in Int /\ q[1] = x
    BY <1>1, <2>1
  <2>3. J[1] = J[1 - 1] * q[1] /\ J[0] = 1
    BY <2>1 DEF AreProducts
  <2> HIDE DEF x, q
  <2>4. J[n] = x
    BY <1>5, <2>1, <2>2, <2>3
  <2>5. x + 2 \in Int /\ x - 1 \in Int /\ x < x + 2 /\ x - 1 < x
    BY <2>2
  <2>6. Plots!Power(x + 2, 1) = x + 2 /\ Plots!Power(x - 1, 1) = x - 1
    BY <2>5, PowersOfFew
  <2>7. IsRoot(x, J[n], n)
    BY <1>5, <2>2, <2>4, <2>5, <2>6 DEF IsRoot
  <2> QED
    BY <1>4, <1>5, <2>7 DEF x
<1>6. CASE n # 1
  <2>1. prod \in Nat
    BY <1>2, <1>3, <1>6 DEF prod
  <2>2. most \in Nat /\ \A k \in 1 .. n : -most <= q[k] /\ q[k] <= most
    <3>1. A = {q[k] : k \in 1 .. n} /\ B = {-q[k] : k \in 1 .. n}
      BY <1>1
    <3> DEFINE m == Plots!Max({q[k] : k \in 1 .. n} \cup {-q[k] : k \in 1 .. n})
    <3>2. most = m
      BY <3>1
    <3>4. \A k \in 1 .. n : q[k] \in Int
      BY <1>1
    <3> HIDE DEF q, most
    <3>3. m \in Nat /\ \A k \in 1 .. n : -m <= q[k] /\ q[k] <= m
      BY <3>4, LargestOfBoth
    <3> HIDE DEF m
    <3> QED
      BY <3>2, <3>3
  <2> HIDE DEF most
  <2>3. J[n] <= Plots!Power(most, n)
    <3>1. Factors(q, n) /\ AreProducts(J, q, n)
      OBVIOUS
    <3> HIDE DEF q
    <3> QED
      BY <2>2, <3>1, ProductsWithin
  <2>4. prod <= Plots!Power(most, n)
    BY <1>2, <2>3
  <2>5. /\ IsRoot(Plots!ShareRoot(prod, n, most), prod, n)
        /\ IsRoot(Plots!CountRoot(prod, n, most), prod, n)
    BY <2>1, <2>2, <2>4, ShareRootIs, CountRootIs
  <2> QED
    BY <1>2, <1>4, <1>6, <2>5
<1> QED
  BY <1>5, <1>6
-----------------------------------------------------------------------------
(* tables_plots.py: the rows of a case                                     *)

\* The entries of a case, and those of them of an iteration.
Of(frag, bench, case) ==
    {k \in DOMAIN runs_dict : /\ runs_dict[k].key.bench = bench
                              /\ runs_dict[k].key.frag = frag
                              /\ Plots!Case(runs_dict[k].key) = case}
OfIter(iter, frag, bench, case) ==
    {k \in Of(frag, bench, case) : runs_dict[k].key.iter = iter}

IsRowFold(I, rows, iter, frag, bench, case, S) ==
    I = [s \in SUBSET S |->
            IF s = {} THEN rows
            ELSE IF /\ runs_dict[LastOf(s)].key.iter = iter
                    /\ runs_dict[LastOf(s)].key.bench = bench
                    /\ runs_dict[LastOf(s)].key.frag = frag
                    /\ Plots!Case(runs_dict[LastOf(s)].key) = case
            THEN Append(I[s \ {LastOf(s)}], runs_dict[LastOf(s)].row)
            ELSE I[s \ {LastOf(s)}]]

LEMMA RowsInIsFold ==
    ASSUME NEW rows, NEW iter, NEW frag, NEW bench, NEW case
    PROVE  Plots!RowsIn(rows, iter, frag, bench, case)
               = (CHOOSE I : IsRowFold(I, rows, iter, frag, bench, case,
                                       DOMAIN runs_dict))[DOMAIN runs_dict]
  BY DEF Plots!RowsIn, Plots!FoldLeft, Plots!MapThenFoldSet, Plots!Max, IsRowFold, LastOf

IsIterFold(I, frag, bench, case, S) ==
    I = [s \in SUBSET S |->
            IF s = {} THEN <<>>
            ELSE Plots!RowsIn(I[s \ {LastOf(s)}], iterations[LastOf(s)],
                              frag, bench, case)]

LEMMA RowsOfIsFold ==
    ASSUME NEW frag, NEW bench, NEW case
    PROVE  Plots!RowsOf(frag, bench, case)
               = (CHOOSE I : IsIterFold(I, frag, bench, case,
                                        DOMAIN iterations))[DOMAIN iterations]
  BY DEF Plots!RowsOf, Plots!FoldLeft, Plots!MapThenFoldSet, Plots!Max, IsIterFold, LastOf

\* The lists of rows of the entries.
Rows == {runs_dict[k].row : k \in DOMAIN runs_dict}

\* What an entry does to a list of rows.
With(rows, k, iter, frag, bench, case) ==
    IF k \in OfIter(iter, frag, bench, case) THEN Append(rows, runs_dict[k].row)
                                             ELSE rows

LEMMA WithIs ==
    ASSUME NEW rows \in Seq(Rows), NEW k \in DOMAIN runs_dict,
           NEW iter, NEW frag, NEW bench, NEW case
    PROVE  With(rows, k, iter, frag, bench, case) \in Seq(Rows)
<1> DEFINE S == Rows
           x == runs_dict[k].row
<1>1. x \in S /\ rows \in Seq(S)
  BY DEF Rows
<1> HIDE DEF S, x
<1>2. Append(rows, x) \in Seq(S)
  BY <1>1
<1> QED
  BY <1>2 DEF With, S, x

LEMMA RowFoldExists ==
    ASSUME NEW n \in Nat, DOMAIN runs_dict = 1 .. n, NEW rows \in Seq(Rows),
           NEW iter, NEW frag, NEW bench, NEW case
    PROVE  \E I : IsRowFold(I, rows, iter, frag, bench, case, 1 .. n)
<1> DEFINE S == 1 .. n
           V == Seq(Rows)
           C == [s \in SUBSET S |-> LastOf(s)]
           w(v, x) == With(v, x, iter, frag, bench, case)
           G == [x \in S |-> [v \in V |-> w(v, x)]]
<1>1. IsFiniteSet(S) /\ \A s \in SUBSET S : C[s] = LastOf(s) /\ (s # {} => C[s] \in s)
  BY LastIn
<1>2. \A x \in S : \A v \in V : G[x][v] = w(v, x) /\ G[x][v] \in V
  BY WithIs
<1>a. rows \in V /\ S = DOMAIN runs_dict
  OBVIOUS
<1> HIDE DEF C, G, S, V, w
<1>3. PICK P : IsRec(P, C, G, rows, S)
  BY <1>1, RecExists
<1>4. \A s \in SUBSET S : P[s] \in V
  BY <1>1, <1>2, <1>3, <1>a, RecStays
<1>5. P = [s \in SUBSET S |-> P[s]] /\ P[{}] = rows
      /\ \A s \in SUBSET S : s # {} => P[s] = G[C[s]][P[s \ {C[s]}]]
  BY <1>3 DEF IsRec
<1>6. ASSUME NEW s \in SUBSET S, s # {}
      PROVE  P[s] = w(P[s \ {LastOf(s)}], LastOf(s))
  <2> DEFINE c == LastOf(s)
  <2>1. c \in S /\ c = C[s]
    BY <1>1, <1>6
  <2> HIDE DEF c
  <2>2. P[s] = G[c][P[s \ {c}]] /\ P[s \ {c}] \in V
    BY <1>4, <1>5, <1>6, <2>1
  <2>3. P[s] = w(P[s \ {c}], c)
    BY <1>2, <2>1, <2>2
  <2> QED
    BY <2>3 DEF c
<1> DEFINE W(s) ==
        IF /\ runs_dict[LastOf(s)].key.iter = iter
           /\ runs_dict[LastOf(s)].key.bench = bench
           /\ runs_dict[LastOf(s)].key.frag = frag
           /\ Plots!Case(runs_dict[LastOf(s)].key) = case
        THEN Append(P[s \ {LastOf(s)}], runs_dict[LastOf(s)].row)
        ELSE P[s \ {LastOf(s)}]
<1>7. \A s \in SUBSET S : s # {} => P[s] = W(s)
  <2> TAKE s \in SUBSET S
  <2> HAVE s # {}
  <2>1. LastOf(s) \in DOMAIN runs_dict
    BY <1>1, <1>a
  <2> QED
    BY <1>6, <2>1 DEF w, With, OfIter, Of
<1> HIDE DEF W
<1>8. \A s \in SUBSET S : P[s] = IF s = {} THEN rows ELSE W(s)
  BY <1>5, <1>7
<1>9. P = [s \in SUBSET S |-> IF s = {} THEN rows ELSE W(s)]
  BY <1>5, <1>8, Zenon
<1> QED
  BY <1>9 DEF IsRowFold, S, W

LEMMA RowFoldIs ==
    ASSUME NEW I, NEW rows, NEW iter, NEW frag, NEW bench, NEW case,
           NEW S, S = DOMAIN runs_dict, \A s \in SUBSET S : s # {} => LastOf(s) \in s,
           IsRowFold(I, rows, iter, frag, bench, case, S)
    PROVE  /\ I[{}] = rows
           /\ \A s \in SUBSET S : s # {} =>
                  I[s] = With(I[s \ {LastOf(s)}], LastOf(s), iter, frag, bench, case)
<1> DEFINE W(s) ==
        IF /\ runs_dict[LastOf(s)].key.iter = iter
           /\ runs_dict[LastOf(s)].key.bench = bench
           /\ runs_dict[LastOf(s)].key.frag = frag
           /\ Plots!Case(runs_dict[LastOf(s)].key) = case
        THEN Append(I[s \ {LastOf(s)}], runs_dict[LastOf(s)].row)
        ELSE I[s \ {LastOf(s)}]
<1>1. I = [s \in SUBSET S |-> IF s = {} THEN rows ELSE W(s)]
  BY DEF IsRowFold
<1>2. \A s \in SUBSET S : s # {} =>
          W(s) = With(I[s \ {LastOf(s)}], LastOf(s), iter, frag, bench, case)
  <2> TAKE s \in SUBSET S
  <2> HAVE s # {}
  <2>1. LastOf(s) \in DOMAIN runs_dict
    OBVIOUS
  <2> QED
    BY <2>1 DEF With, OfIter, Of
<1> HIDE DEF W
<1>3. I[{}] = rows /\ \A s \in SUBSET S : s # {} => I[s] = W(s)
  BY <1>1, Zenon
<1> QED
  BY <1>2, <1>3

\* The list after every entry.
AreLists(J, n, rows, iter, frag, bench, case) ==
    /\ J[0] = rows
    /\ \A k \in 1 .. n : J[k] = With(J[k - 1], k, iter, frag, bench, case)

LEMMA RowsInIs ==
    ASSUME NEW n \in Nat, DOMAIN runs_dict = 1 .. n, NEW rows \in Seq(Rows),
           NEW iter, NEW frag, NEW bench, NEW case
    PROVE  \E J : /\ AreLists(J, n, rows, iter, frag, bench, case)
                  /\ Plots!RowsIn(rows, iter, frag, bench, case) = J[n]
<1> DEFINE S == 1 .. n
           I == CHOOSE I : IsRowFold(I, rows, iter, frag, bench, case, S)
           J == [k \in 0 .. n |-> I[1 .. k]]
<1>1. Plots!RowsIn(rows, iter, frag, bench, case) = I[S]
  <2>1. S = DOMAIN runs_dict
    OBVIOUS
  <2> HIDE DEF S
  <2> QED
    BY <2>1, RowsInIsFold
<1>2. IsRowFold(I, rows, iter, frag, bench, case, S)
  BY RowFoldExists
<1> HIDE DEF I
<1>a. /\ I[{}] = rows
      /\ \A s \in SUBSET S : s # {} =>
             I[s] = With(I[s \ {LastOf(s)}], LastOf(s), iter, frag, bench, case)
  <2>1. S = DOMAIN runs_dict /\ \A s \in SUBSET S : s # {} => LastOf(s) \in s
    BY LastIn
  <2> HIDE DEF S
  <2> QED
    BY <1>2, <2>1, RowFoldIs
<1>3. ASSUME NEW k \in 1 .. n
      PROVE  I[1 .. k] = With(I[1 .. (k - 1)], k, iter, frag, bench, case)
  <2> DEFINE r == 1 .. k
  <2>1. r \in SUBSET S /\ r # {} /\ LastOf(r) = k /\ r \ {k} = 1 .. (k - 1)
    BY PrefixOf
  <2> HIDE DEF r, S
  <2>2. I[r] = With(I[r \ {k}], k, iter, frag, bench, case)
    BY <1>a, <2>1
  <2> QED
    BY <2>1, <2>2 DEF r
<1>4. /\ J[0] = rows /\ J[n] = I[S]
      /\ \A k \in 1 .. n : J[k] = I[1 .. k] /\ J[k - 1] = I[1 .. (k - 1)]
  <2>1. 0 \in 0 .. n /\ n \in 0 .. n /\ 1 .. 0 = {}
        /\ \A k \in 1 .. n : k \in 0 .. n /\ k - 1 \in 0 .. n
    OBVIOUS
  <2> QED
    BY <1>a, <2>1
<1> HIDE DEF J, S
<1>5. AreLists(J, n, rows, iter, frag, bench, case)
  BY <1>3, <1>4 DEF AreLists
<1> QED
  BY <1>1, <1>4, <1>5

\* The rows are those of the entries with the numbers P, each once.
ListsAll(d, P, rows) ==
    \E n, h : Numbering(h, n, P) /\ rows = [k \in 1 .. n |-> d[h[k]].row]

LEMMA NothingListed == ASSUME NEW d PROVE ListsAll(d, {}, <<>>)
<1> DEFINE h == [k \in {} |-> 0]
<1>1. 1 .. 0 = {}
  OBVIOUS
<1>2. Numbering(h, 0, {})
  BY <1>1 DEF Numbering
<1>3. <<>> = [k \in 1 .. 0 |-> d[h[k]].row]
  BY <1>1
<1> HIDE DEF h
<1> QED
  BY <1>2, <1>3 DEF ListsAll

LEMMA OneMoreListed ==
    ASSUME NEW d, NEW P, NEW rows, NEW S, rows \in Seq(S), ListsAll(d, P, rows),
           NEW p, p \notin P, d[p].row \in S
    PROVE  ListsAll(d, P \cup {p}, Append(rows, d[p].row))
<1>1. PICK n, h : Numbering(h, n, P) /\ rows = [k \in 1 .. n |-> d[h[k]].row]
  BY DEF ListsAll
<1> DEFINE m == n + 1
           g == [k \in 1 .. m |-> IF k = m THEN p ELSE h[k]]
           more == Append(rows, d[p].row)
<1>2. /\ n \in Nat /\ m \in Nat /\ m \in 1 .. m
      /\ \A k \in 1 .. n : k \in 1 .. m /\ k # m
      /\ \A k \in 1 .. m : k # m => k \in 1 .. n
  BY <1>1 DEF Numbering
<1>3. g[m] = p /\ \A k \in 1 .. n : g[k] = h[k]
  BY <1>2
<1>4. Len(rows) = n /\ \A k \in 1 .. n : rows[k] = d[h[k]].row
  BY <1>1, <1>2
<1>5. /\ Len(more) = m /\ DOMAIN more = 1 .. m
      /\ more[m] = d[p].row /\ \A k \in 1 .. n : more[k] = rows[k]
      /\ more \in Seq(S)
  <2> DEFINE x == d[p].row
             q == Append(rows, x)
  <2>1. x \in S /\ Len(rows) = n
    BY <1>4
  <2> HIDE DEF x
  <2>2. q \in Seq(S) /\ Len(q) = Len(rows) + 1
        /\ q[Len(rows) + 1] = x /\ \A k \in 1 .. Len(rows) : q[k] = rows[k]
    BY <2>1
  <2>3. DOMAIN q = 1 .. Len(q)
    BY <2>2
  <2> QED
    BY <2>1, <2>2, <2>3 DEF x
<1> HIDE DEF g, m, more
<1>6. \A k \in 1 .. m : more[k] = d[g[k]].row
  BY <1>2, <1>3, <1>4, <1>5
<1>7. more = [k \in 1 .. m |-> d[g[k]].row]
  <2>1. more = [k \in 1 .. m |-> more[k]]
    BY <1>5
  <2> QED
    BY <1>6, <2>1, Zenon
<1>8. Numbering(g, m, P \cup {p})
  <2>1. \A k \in 1 .. n : h[k] \in P /\ h[k] # p
    BY <1>1 DEF Numbering
  <2>2. \A k \in 1 .. m : g[k] \in P \cup {p}
    BY <1>2, <1>3, <2>1
  <2>3. \A j, k \in 1 .. m : g[j] = g[k] => j = k
    <3> SUFFICES ASSUME NEW j \in 1 .. m, NEW k \in 1 .. m, g[j] = g[k]
                 PROVE  j = k
      OBVIOUS
    <3>1. CASE j = m /\ k = m
      BY <3>1
    <3>2. CASE j = m /\ k # m
      BY <1>2, <1>3, <2>1, <3>2
    <3>3. CASE j # m /\ k = m
      BY <1>2, <1>3, <2>1, <3>3
    <3>4. CASE j # m /\ k # m
      <4>1. j \in 1 .. n /\ k \in 1 .. n
        BY <1>2, <3>4
      <4>2. h[j] = h[k]
        BY <1>3, <4>1
      <4> QED
        BY <1>1, <4>1, <4>2 DEF Numbering
    <3> QED
      BY <3>1, <3>2, <3>3, <3>4
  <2>4. \A x \in P \cup {p} : \E k \in 1 .. m : g[k] = x
    <3> TAKE x \in P \cup {p}
    <3>1. CASE x = p
      BY <1>2, <1>3, <3>1
    <3>2. CASE x \in P
      <4>1. PICK k \in 1 .. n : h[k] = x
        BY <1>1, <3>2 DEF Numbering
      <4> QED
        BY <1>2, <1>3, <4>1
    <3> QED
      BY <3>1, <3>2
  <2> QED
    BY <1>2, <2>2, <2>3, <2>4 DEF Numbering
<1>9. ListsAll(d, P \cup {p}, more)
  BY <1>7, <1>8 DEF ListsAll
<1> QED
  BY <1>9 DEF more

\* An iteration adds its rows of the case to those of other iterations.
LEMMA RowsInLists ==
    ASSUME NEW n \in Nat, DOMAIN runs_dict = 1 .. n, NEW rows \in Seq(Rows),
           NEW iter, NEW frag, NEW bench, NEW case,
           NEW P, ListsAll(runs_dict, P, rows),
           NEW Q, Q = OfIter(iter, frag, bench, case), Q \cap P = {}
    PROVE  /\ Plots!RowsIn(rows, iter, frag, bench, case) \in Seq(Rows)
           /\ ListsAll(runs_dict, P \cup Q,
                       Plots!RowsIn(rows, iter, frag, bench, case))
<1>1. PICK J : /\ AreLists(J, n, rows, iter, frag, bench, case)
               /\ Plots!RowsIn(rows, iter, frag, bench, case) = J[n]
  BY RowsInIs
<1> DEFINE R(k) == P \cup (Q \cap (1 .. k))
           Right(k) == J[k] \in Seq(Rows) /\ ListsAll(runs_dict, R(k), J[k])
           All == {k \in Nat : k <= n => Right(k)}
<1>2. 0 \in All
  <2>1. J[0] = rows
    BY <1>1 DEF AreLists
  <2>2. 1 .. 0 = {}
    OBVIOUS
  <2>3. R(0) = P
    BY <2>2
  <2>4. Right(0)
    BY <2>1, <2>3
  <2> HIDE DEF Right
  <2> QED
    BY <2>4
<1>3. ASSUME NEW k \in Nat, Right(k), k + 1 <= n
      PROVE  Right(k + 1)
  <2> DEFINE m == k + 1
             v == J[k]
             x == runs_dict[m].row
             T == R(k)
  <2>1. m \in 1 .. n /\ m - 1 = k /\ m \in 1 .. m /\ m \notin 1 .. k
        /\ \A a : a \in 1 .. m <=> a \in 1 .. k \/ a = m
    BY <1>3
  <2>2. J[m] = With(v, m, iter, frag, bench, case)
    BY <1>1, <2>1 DEF AreLists
  <2>3. v \in Seq(Rows) /\ ListsAll(runs_dict, T, v)
    BY <1>3
  <2>a. x \in Rows
    BY <2>1 DEF Rows
  <2> HIDE DEF v
  <2>4. CASE m \in Q
    <3>1. J[m] = Append(v, x)
      BY <2>2, <2>4 DEF With
    <3>2. m \notin T /\ R(m) = T \cup {m}
      BY <2>1, <2>4
    <3> HIDE DEF T, R, m
    <3>3. ListsAll(runs_dict, T \cup {m}, Append(v, x))
      <4> DEFINE S == Rows
                 d == runs_dict
      <4>1. v \in Seq(S) /\ ListsAll(d, T, v) /\ m \notin T /\ d[m].row \in S
        BY <2>3, <2>a, <3>2
      <4> HIDE DEF S, d, x
      <4>2. ListsAll(d, T \cup {m}, Append(v, d[m].row))
        BY <4>1, OneMoreListed
      <4> QED
        BY <4>2 DEF d, x
    <3>4. Append(v, x) \in Seq(Rows)
      <4> DEFINE S == Rows
      <4>1. v \in Seq(S) /\ x \in S
        BY <2>3, <2>a
      <4> HIDE DEF S, x
      <4>2. Append(v, x) \in Seq(S)
        BY <4>1
      <4> QED
        BY <4>2 DEF S
    <3>5. Right(m)
      BY <3>1, <3>2, <3>3, <3>4
    <3> QED
      BY <3>5 DEF m
  <2>5. CASE m \notin Q
    <3>1. J[m] = v
      BY <2>2, <2>5 DEF With
    <3>2. R(m) = T
      BY <2>1, <2>5
    <3> HIDE DEF T, R, m
    <3>3. Right(m)
      BY <2>3, <3>1, <3>2
    <3> QED
      BY <3>3 DEF m
  <2> QED
    BY <2>4, <2>5
<1>4. Nat \subseteq All
  <2> HIDE DEF Right
  <2>1. \A k \in Nat : k \in All => k + 1 \in All
    BY <1>3
  <2> HIDE DEF All
  <2> QED
    BY <1>2, <2>1, NumbersOf
<1>5. Right(n)
  <2> HIDE DEF Right
  <2> QED
    BY <1>4
<1>6. R(n) = P \cup Q
  <2>1. Q \subseteq 1 .. n
    BY DEF OfIter, Of
  <2> QED
    BY <2>1
<1> HIDE DEF R
<1> QED
  BY <1>1, <1>5, <1>6

LEMMA RowsInStay ==
    ASSUME NEW n \in Nat, DOMAIN runs_dict = 1 .. n, NEW rows \in Seq(Rows),
           NEW iter, NEW frag, NEW bench, NEW case
    PROVE  Plots!RowsIn(rows, iter, frag, bench, case) \in Seq(Rows)
<1>1. PICK J : /\ AreLists(J, n, rows, iter, frag, bench, case)
               /\ Plots!RowsIn(rows, iter, frag, bench, case) = J[n]
  BY RowsInIs
<1> DEFINE V == Seq(Rows)
           All == {k \in Nat : k <= n => J[k] \in V}
<1>2. 0 \in All
  BY <1>1 DEF AreLists
<1>3. \A k \in Nat : k \in All => k + 1 \in All
  <2> SUFFICES ASSUME NEW k \in Nat, J[k] \in V, k + 1 <= n
               PROVE  J[k + 1] \in V
    OBVIOUS
  <2>1. k + 1 \in 1 .. n /\ (k + 1) - 1 = k /\ k + 1 \in DOMAIN runs_dict
    OBVIOUS
  <2>2. J[k + 1] = With(J[k], k + 1, iter, frag, bench, case)
    BY <1>1, <2>1 DEF AreLists
  <2> QED
    BY <2>1, <2>2, WithIs
<1>4. Nat \subseteq All
  <2> HIDE DEF All
  <2> QED
    BY <1>2, <1>3, NumbersOf
<1> QED
  BY <1>1, <1>4

LEMMA IterFoldExists ==
    ASSUME NEW n \in Nat, DOMAIN runs_dict = 1 .. n, NEW m \in Nat,
           NEW frag, NEW bench, NEW case
    PROVE  \E I : IsIterFold(I, frag, bench, case, 1 .. m)
<1> DEFINE S == 1 .. m
           V == Seq(Rows)
           C == [s \in SUBSET S |-> LastOf(s)]
           w(v, x) == Plots!RowsIn(v, iterations[x], frag, bench, case)
           G == [x \in S |-> [v \in V |-> w(v, x)]]
           none == <<>>
<1>1. IsFiniteSet(S) /\ \A s \in SUBSET S : C[s] = LastOf(s) /\ (s # {} => C[s] \in s)
  BY LastIn
<1>2. \A x \in S : \A v \in V : G[x][v] = w(v, x) /\ G[x][v] \in V
  BY RowsInStay
<1>a. none \in V
  OBVIOUS
<1> HIDE DEF C, G, S, V, w, none
<1>3. PICK P : IsRec(P, C, G, none, S)
  BY <1>1, RecExists
<1>4. \A s \in SUBSET S : P[s] \in V
  BY <1>1, <1>2, <1>3, <1>a, RecStays
<1>5. P = [s \in SUBSET S |-> P[s]] /\ P[{}] = none
      /\ \A s \in SUBSET S : s # {} => P[s] = G[C[s]][P[s \ {C[s]}]]
  BY <1>3 DEF IsRec
<1>6. ASSUME NEW s \in SUBSET S, s # {}
      PROVE  P[s] = w(P[s \ {LastOf(s)}], LastOf(s))
  <2> DEFINE c == LastOf(s)
  <2>1. c \in S /\ c = C[s]
    BY <1>1, <1>6
  <2> HIDE DEF c
  <2>2. P[s] = G[c][P[s \ {c}]] /\ P[s \ {c}] \in V
    BY <1>4, <1>5, <1>6, <2>1
  <2>3. P[s] = w(P[s \ {c}], c)
    BY <1>2, <2>1, <2>2
  <2> QED
    BY <2>3 DEF c
<1>8. \A s \in SUBSET S :
          P[s] = IF s = {} THEN none ELSE w(P[s \ {LastOf(s)}], LastOf(s))
  BY <1>5, <1>6
<1>9. P = [s \in SUBSET S |-> IF s = {} THEN none
                              ELSE w(P[s \ {LastOf(s)}], LastOf(s))]
  BY <1>5, <1>8, Zenon
<1> QED
  BY <1>9 DEF IsIterFold, S, w, none

LEMMA RowsOfIs ==
    ASSUME NEW n \in Nat, DOMAIN runs_dict = 1 .. n,
           NEW m \in Nat, DOMAIN iterations = 1 .. m,
           NEW frag, NEW bench, NEW case
    PROVE  \E J : /\ J[0] = <<>> /\ Plots!RowsOf(frag, bench, case) = J[m]
                  /\ \A k \in 1 .. m :
                         J[k] = Plots!RowsIn(J[k - 1], iterations[k], frag, bench, case)
<1> DEFINE S == 1 .. m
           I == CHOOSE I : IsIterFold(I, frag, bench, case, S)
           J == [k \in 0 .. m |-> I[1 .. k]]
<1>1. Plots!RowsOf(frag, bench, case) = I[S]
  <2>1. S = DOMAIN iterations
    OBVIOUS
  <2> HIDE DEF S
  <2> QED
    BY <2>1, RowsOfIsFold
<1>2. IsIterFold(I, frag, bench, case, S)
  BY IterFoldExists
<1> HIDE DEF I
<1>a. /\ I[{}] = <<>>
      /\ \A s \in SUBSET S : s # {} =>
             I[s] = Plots!RowsIn(I[s \ {LastOf(s)}], iterations[LastOf(s)],
                                 frag, bench, case)
  <2> HIDE DEF S
  <2> QED
    BY <1>2, Zenon DEF IsIterFold
<1>3. ASSUME NEW k \in 1 .. m
      PROVE  I[1 .. k] = Plots!RowsIn(I[1 .. (k - 1)], iterations[k], frag, bench, case)
  <2> DEFINE r == 1 .. k
  <2>1. r \in SUBSET S /\ r # {} /\ LastOf(r) = k /\ r \ {k} = 1 .. (k - 1)
    BY PrefixOf
  <2> HIDE DEF r, S
  <2>2. I[r] = Plots!RowsIn(I[r \ {k}], iterations[k], frag, bench, case)
    BY <1>a, <2>1
  <2> QED
    BY <2>1, <2>2 DEF r
<1>4. /\ J[0] = <<>> /\ J[m] = I[S]
      /\ \A k \in 1 .. m : J[k] = I[1 .. k] /\ J[k - 1] = I[1 .. (k - 1)]
  <2>1. 0 \in 0 .. m /\ m \in 0 .. m /\ 1 .. 0 = {}
        /\ \A k \in 1 .. m : k \in 0 .. m /\ k - 1 \in 0 .. m
    OBVIOUS
  <2> QED
    BY <1>a, <2>1
<1> HIDE DEF J, S
<1>5. \A k \in 1 .. m :
          J[k] = Plots!RowsIn(J[k - 1], iterations[k], frag, bench, case)
  BY <1>3, <1>4
<1> QED
  BY <1>1, <1>4, <1>5

\* All rows of a case are gathered, each once.
LEMMA RowsOfLists ==
    ASSUME NEW n \in Nat, DOMAIN runs_dict = 1 .. n,
           NEW m \in Nat, DOMAIN iterations = 1 .. m,
           \A j, k \in 1 .. m : iterations[j] = iterations[k] => j = k,
           \A x \in 1 .. n : \E k \in 1 .. m : iterations[k] = runs_dict[x].key.iter,
           NEW frag, NEW bench, NEW case
    PROVE  ListsAll(runs_dict, Of(frag, bench, case), Plots!RowsOf(frag, bench, case))
<1>1. PICK J : /\ J[0] = <<>> /\ Plots!RowsOf(frag, bench, case) = J[m]
               /\ \A k \in 1 .. m :
                      J[k] = Plots!RowsIn(J[k - 1], iterations[k], frag, bench, case)
  BY RowsOfIs
<1> DEFINE P == Of(frag, bench, case)
           R(k) == {x \in P : \E j \in 1 .. k : runs_dict[x].key.iter = iterations[j]}
           Right(k) == J[k] \in Seq(Rows) /\ ListsAll(runs_dict, R(k), J[k])
           All == {k \in Nat : k <= m => Right(k)}
<1>2. 0 \in All
  <2> DEFINE d == runs_dict
             none == <<>>
             S == Rows
  <2>1. 1 .. 0 = {}
    OBVIOUS
  <2>2. R(0) = {}
    BY <2>1
  <2>3. none \in Seq(S)
    OBVIOUS
  <2>4. ListsAll(d, {}, none)
    <3> HIDE DEF d
    <3> QED
      BY NothingListed
  <2> HIDE DEF R, S, none
  <2>5. Right(0)
    BY <1>1, <2>2, <2>3, <2>4 DEF none, S
  <2> HIDE DEF Right
  <2> QED
    BY <2>5
<1>3. ASSUME NEW k \in Nat, Right(k), k + 1 <= m
      PROVE  Right(k + 1)
  <2> DEFINE h == k + 1
             rows == J[k]
             iter == iterations[h]
             T == R(k)
             Q == OfIter(iter, frag, bench, case)
             more == Plots!RowsIn(rows, iter, frag, bench, case)
  <2>1. /\ h \in 1 .. m /\ h - 1 = k
        /\ \A a \in 1 .. k : a \in 1 .. m /\ a # h
        /\ \A a : a \in 1 .. h <=> a \in 1 .. k \/ a = h
    BY <1>3
  <2>2. J[h] = more
    BY <1>1, <2>1
  <2>3. rows \in Seq(Rows) /\ ListsAll(runs_dict, T, rows)
    BY <1>3
  <2>4. Q \cap T = {}
    <3>1. \A a \in 1 .. k : iterations[a] # iter
      BY <2>1
    <3> QED
      BY <3>1 DEF OfIter
  <2>5. R(h) = T \cup Q
    <3>1. \A x \in P : x \in Q <=> runs_dict[x].key.iter = iter
      BY DEF OfIter
    <3>2. Q \subseteq P
      BY DEF OfIter
    <3> HIDE DEF P, Q
    <3>3. \A x \in P : x \in R(h) <=> x \in T \/ runs_dict[x].key.iter = iter
      BY <2>1
    <3> QED
      BY <3>1, <3>2, <3>3
  <2> HIDE DEF rows, T, iter
  <2>6. more \in Seq(Rows) /\ ListsAll(runs_dict, T \cup Q, more)
    BY <2>3, <2>4, RowsInLists
  <2> HIDE DEF R, h, more, Q
  <2>7. Right(h)
    BY <2>2, <2>5, <2>6
  <2> QED
    BY <2>7 DEF h
<1>4. Nat \subseteq All
  <2> HIDE DEF Right
  <2>1. \A k \in Nat : k \in All => k + 1 \in All
    BY <1>3
  <2> HIDE DEF All
  <2> QED
    BY <1>2, <2>1, NumbersOf
<1>5. Right(m)
  <2> HIDE DEF Right
  <2> QED
    BY <1>4
<1>6. R(m) = P
  <2>1. \A x \in P : x \in 1 .. n
    BY DEF Of
  <2> HIDE DEF P
  <2> QED
    BY <2>1
<1> HIDE DEF R
<1> QED
  BY <1>1, <1>5, <1>6
-----------------------------------------------------------------------------
(* tables_plots.py: the iterations, the folders that were read, the tables *)

\* An iteration is noted once, and that of every row is.
IterInv ==
    /\ IsList(iterations)
    /\ \A i, j \in DOMAIN iterations : iterations[i] = iterations[j] => i = j
    /\ \A n \in DOMAIN runs_dict :
           \E i \in DOMAIN iterations : iterations[i] = runs_dict[n].key.iter

\* A folder that was read has a row under its name.
ReadInv ==
    pc # "error" => \A f \in folders \ todo :
        f.results => \E n \in DOMAIN runs_dict : runs_dict[n].key = f.name

\* What the case of a name is when these pages were marked, and the entries
\* of a dictionary that have it.
CaseOf(marked, key) ==
    CASE key.defrag = "cap"    -> <<"CaPaging">>
      [] key.defrag = "ranger" -> <<"TRanger">>
      [] OTHER -> IF Len(marked) = 1 THEN <<"MACAP", key.fails>>
                                     ELSE <<"Both", key.mark, key.fails>>
Like(dict, marked, key) ==
    {k \in DOMAIN dict : /\ dict[k].key.bench = key.bench
                         /\ dict[k].key.frag = key.frag
                         /\ CaseOf(marked, dict[k].key) = CaseOf(marked, key)}

\* The tables are the means of the rows of a case, of all of them.
IsMade(dict, marked, made, key) ==
    \E rows :
        /\ ListsAll(dict, Like(dict, marked, key), rows)
        /\ made[<<key.frag, key.bench, CaseOf(marked, key)>>] = Plots!FinalRow(rows)
        /\ Len(rows) > 1 => \A i \in 1 .. 12 : ~(Plots!Product(rows, i) < 0)
TablesInv ==
    pc = "done" /\ folders # {} =>
        /\ todo = {}
        /\ \A n \in DOMAIN runs_dict :
               IsMade(runs_dict, marked_opts, tables, runs_dict[n].key)

LEMMA LikeIs ==
    ASSUME NEW key
    PROVE  /\ CaseOf(marked_opts, key) = Plots!Case(key)
           /\ Like(runs_dict, marked_opts, key)
                  = Of(key.frag, key.bench, Plots!Case(key))
<1>1. \A k : CaseOf(marked_opts, k) = Plots!Case(k)
  BY DEF CaseOf, Plots!Case
<1> QED
  BY <1>1 DEF Like, Of

LEMMA NotedOnce ==
    ASSUME NEW list, IsList(list), \A i, j \in DOMAIN list : list[i] = list[j] => i = j,
           NEW part, NEW l, l = Plots!Noted(list, part)
    PROVE  \A i, j \in DOMAIN l : l[i] = l[j] => i = j
<1> DEFINE S == {list[i] : i \in DOMAIN list}
<1>1. list \in Seq(S) /\ Len(list) \in Nat /\ DOMAIN list = 1 .. Len(list)
  BY DEF IsList, Range
<1>2. CASE \E i \in 1 .. Len(list) : list[i] = part
  <2>1. l = list
    BY <1>2 DEF Plots!Noted, Plots!Contains
  <2> QED
    BY <2>1
<1>3. CASE ~\E i \in 1 .. Len(list) : list[i] = part
  <2>1. l = Append(list, part)
    BY <1>3 DEF Plots!Noted, Plots!Contains
  <2> DEFINE R == S \cup {part}
             n == Len(list)
  <2>2. list \in Seq(R) /\ part \in R
    <3> HIDE DEF S
    <3> QED
      BY <1>1
  <2> HIDE DEF S, R
  <2>3. /\ DOMAIN l = 1 .. n + 1 /\ l[n + 1] = part
        /\ \A i \in 1 .. n : l[i] = list[i]
    BY <1>1, <2>1, <2>2
  <2>4. \A i \in DOMAIN l : i = n + 1 \/ i \in 1 .. n
    BY <1>1, <2>3
  <2> HIDE DEF n
  <2>5. \A i \in 1 .. n : l[i] # part /\ i \in DOMAIN list
    BY <1>1, <1>3, <2>3 DEF n
  <2> QED
    BY <2>3, <2>4, <2>5
<1> QED
  BY <1>2, <1>3

LEMMA InitTablesInv == ToolsInit => IterInv /\ ReadInv /\ TablesInv
<1> SUFFICES ASSUME ToolsInit PROVE IterInv /\ ReadInv /\ TablesInv
  OBVIOUS
<1>1. /\ runs_dict = <<>> /\ iterations = <<>> /\ todo = folders
      /\ pc = "done" => folders = {}
  BY DEF ToolsInit, NoFolders, Plots!Init
<1>2. IterInv
  BY <1>1 DEF IterInv, IsList, Range
<1>3. ReadInv
  BY <1>1 DEF ReadInv
<1>4. TablesInv
  BY <1>1 DEF TablesInv
<1> QED
  BY <1>2, <1>3, <1>4

\* The entries after a folder was read.
LEMMA EntriesAfter ==
    ASSUME RowsInv, NEW f, runs_dict' = Plots!Entered(runs_dict, f.name, Plots!Row(f))
    PROVE  /\ \E n \in DOMAIN runs_dict' : runs_dict'[n].key = f.name
           /\ \A n \in DOMAIN runs_dict' :
                  \/ runs_dict'[n].key = f.name
                  \/ n \in DOMAIN runs_dict /\ runs_dict'[n].key = runs_dict[n].key
           /\ \A n \in DOMAIN runs_dict :
                  n \in DOMAIN runs_dict' /\ runs_dict'[n].key = runs_dict[n].key
<1> DEFINE e == [key |-> f.name, row |-> Plots!Row(f)]
           S == {EntryOf(g) : g \in folders} \cup {e}
           d == runs_dict'
<1>1. runs_dict \in Seq(S) /\ e \in S
  BY DEF RowsInv
<1>2. d = Plots!Entered(runs_dict, f.name, Plots!Row(f))
  OBVIOUS
<1>3. e = [key |-> f.name, row |-> Plots!Row(f)] /\ e.key = f.name
  OBVIOUS
<1> HIDE DEF S, e, d
<1>4. PICK place : PutAt(runs_dict, d, e, place)
  BY <1>1, <1>2, <1>3, EnteredIs
<1>5. /\ place \in DOMAIN d /\ d[place].key = f.name
      /\ \A n \in DOMAIN d \ {place} : n \in DOMAIN runs_dict /\ d[n] = runs_dict[n]
      /\ place \in DOMAIN runs_dict => runs_dict[place].key = f.name
      /\ DOMAIN runs_dict \subseteq DOMAIN d
  BY <1>3, <1>4 DEF PutAt
<1>6. \A n \in DOMAIN runs_dict : n \in DOMAIN d /\ d[n].key = runs_dict[n].key
  <2> TAKE n \in DOMAIN runs_dict
  <2>1. CASE n = place
    BY <1>5, <2>1
  <2>2. CASE n # place
    BY <1>5, <2>2
  <2> QED
    BY <2>1, <2>2
<1> QED
  BY <1>5, <1>6 DEF d

LEMMA IterKept ==
    ASSUME RowsInv, IterInv, NEW f, Plots!ReadFolder(f) PROVE IterInv'
<1> DEFINE l == iterations'
<1>1. l = Plots!Noted(iterations, f.name.iter)
  BY DEF Plots!ReadFolder, Plots!get_bench_run_characteristics
<1>2. IsList(iterations)
      /\ \A i, j \in DOMAIN iterations : iterations[i] = iterations[j] => i = j
  BY DEF IterInv
<1> HIDE DEF l
<1>3. /\ IsList(l)
      /\ \E i \in DOMAIN l : l[i] = f.name.iter
      /\ \A i \in DOMAIN iterations : i \in DOMAIN l /\ l[i] = iterations[i]
  BY <1>1, <1>2, NotedIs
<1>4. \A i, j \in DOMAIN l : l[i] = l[j] => i = j
  BY <1>1, <1>2, NotedOnce
<1>5. \A n \in DOMAIN runs_dict :
          \E i \in DOMAIN l : l[i] = runs_dict[n].key.iter
  BY <1>3 DEF IterInv
<1>6. \A n \in DOMAIN runs_dict' :
          \E i \in DOMAIN l : l[i] = runs_dict'[n].key.iter
  <2>1. CASE runs_dict' = runs_dict
    BY <1>5, <2>1
  <2>2. CASE runs_dict' = Plots!Entered(runs_dict, f.name, Plots!Row(f))
    <3>1. \A n \in DOMAIN runs_dict' :
              \/ runs_dict'[n].key = f.name
              \/ n \in DOMAIN runs_dict /\ runs_dict'[n].key = runs_dict[n].key
      BY <2>2, EntriesAfter
    <3> QED
      BY <1>3, <1>5, <3>1
  <2> QED
    BY <2>1, <2>2 DEF Plots!ReadFolder
<1> QED
  BY <1>3, <1>4, <1>6 DEF IterInv, l

LEMMA ReadKept ==
    ASSUME RowsInv, ReadInv, NEW f, Plots!ReadFolder(f) PROVE ReadInv'
<1>1. /\ folders' = folders /\ todo' = todo \ {f} /\ pc = "walk"
      /\ \/ pc' = "error"
         \/ runs_dict' = Plots!Entered(runs_dict, f.name, Plots!Row(f))
  BY DEF Plots!ReadFolder
<1>2. CASE pc' = "error"
  BY <1>2 DEF ReadInv
<1>3. CASE runs_dict' = Plots!Entered(runs_dict, f.name, Plots!Row(f))
  <2>1. /\ \E n \in DOMAIN runs_dict' : runs_dict'[n].key = f.name
        /\ \A n \in DOMAIN runs_dict :
               n \in DOMAIN runs_dict' /\ runs_dict'[n].key = runs_dict[n].key
    BY <1>3, EntriesAfter
  <2>2. ASSUME NEW g \in folders' \ todo', g.results
        PROVE  \E n \in DOMAIN runs_dict' : runs_dict'[n].key = g.name
    <3>1. CASE g = f
      BY <2>1, <3>1
    <3>2. CASE g # f
      <4>1. g \in folders \ todo
        BY <1>1, <3>2
      <4>2. PICK n \in DOMAIN runs_dict : runs_dict[n].key = g.name
        BY <1>1, <2>2, <4>1 DEF ReadInv
      <4> QED
        BY <2>1, <4>2
    <3> QED
      BY <3>1, <3>2
  <2> QED
    BY <2>2 DEF ReadInv
<1> QED
  BY <1>1, <1>2, <1>3

\* When tables are made, every case has the rows of all its entries.
LEMMA TablesMade ==
    ASSUME RowsInv, IterInv, Plots!MakeTables PROVE TablesInv'
<1>1. /\ todo = {} /\ ~Plots!NoTables /\ UNCHANGED <<folders, todo, runs_dict, marked_opts>>
      /\ tables' = [t \in DOMAIN Plots!CaseRows |-> Plots!FinalRow(Plots!CaseRows[t])]
  BY DEF Plots!MakeTables, Plots!names
<1> DEFINE n == Len(runs_dict)
           m == Len(iterations)
<1>2. n \in Nat /\ DOMAIN runs_dict = 1 .. n
  BY DEF RowsInv
<1>3. m \in Nat /\ DOMAIN iterations = 1 .. m
  BY DEF IterInv, IsList
<1>4. /\ \A j, k \in 1 .. m : iterations[j] = iterations[k] => j = k
      /\ \A x \in 1 .. n : \E k \in 1 .. m : iterations[k] = runs_dict[x].key.iter
  BY <1>2, <1>3 DEF IterInv
<1> HIDE DEF n, m
<1>5. ASSUME NEW x \in DOMAIN runs_dict, NEW key, key = runs_dict[x].key
      PROVE  IsMade(runs_dict, marked_opts, tables', key)
  <2> DEFINE fr == key.frag
             be == key.bench
             ca == Plots!Case(key)
             t == <<fr, be, ca>>
             rows == Plots!RowsOf(fr, be, ca)
  <2>1. key \in Plots!Keys
    BY <1>5 DEF Plots!Keys
  <2>2. t \in DOMAIN Plots!CaseRows /\ Plots!CaseRows[t] = rows
    <3>1. DOMAIN Plots!CaseRows = {<<k.frag, k.bench, Plots!Case(k)>> : k \in Plots!Keys}
      BY DEF Plots!CaseRows
    <3>2. t \in DOMAIN Plots!CaseRows
      BY <2>1, <3>1
    <3>3. Plots!CaseRows[t] = Plots!RowsOf(t[1], t[2], t[3])
      BY <3>1, <3>2 DEF Plots!CaseRows
    <3>4. t[1] = fr /\ t[2] = be /\ t[3] = ca
      OBVIOUS
    <3> HIDE DEF t, fr, be, ca
    <3> QED
      BY <3>2, <3>3, <3>4
  <2>3. ListsAll(runs_dict, Of(fr, be, ca), rows)
    <3> HIDE DEF fr, be, ca
    <3> QED
      BY <1>2, <1>3, <1>4, RowsOfLists
  <2>4. Len(rows) > 1 => \A i \in 1 .. 12 : ~(Plots!Product(rows, i) < 0)
    <3> HIDE DEF t, rows
    <3> QED
      BY <1>1, <2>2 DEF Plots!NoTables
  <2>5. tables'[t] = Plots!FinalRow(rows)
    <3> HIDE DEF t, rows
    <3> QED
      BY <1>1, <2>2
  <2>6. CaseOf(marked_opts, key) = ca /\ Like(runs_dict, marked_opts, key) = Of(fr, be, ca)
    BY LikeIs
  <2> HIDE DEF rows
  <2> QED
    BY <2>3, <2>4, <2>5, <2>6 DEF IsMade
<1>6. \A x \in DOMAIN runs_dict : IsMade(runs_dict, marked_opts, tables', runs_dict[x].key)
  BY <1>5
<1> QED
  BY <1>1, <1>6 DEF TablesInv

LEMMA NextTablesInv ==
    RowsInv /\ IterInv /\ ReadInv /\ TablesInv
        /\ [ToolsNext]_<<vars, logVars, tablesVars>> => IterInv' /\ ReadInv' /\ TablesInv'
<1> SUFFICES ASSUME RowsInv, IterInv, ReadInv, TablesInv,
                    [ToolsNext]_<<vars, logVars, tablesVars>>
             PROVE  IterInv' /\ ReadInv' /\ TablesInv'
  OBVIOUS
<1>1. ASSUME UNCHANGED tablesVars PROVE IterInv' /\ ReadInv' /\ TablesInv'
  BY <1>1 DEF tablesVars, IterInv, ReadInv, TablesInv
<1>2. ASSUME NEW f \in todo, Plots!PassOver(f) PROVE IterInv' /\ ReadInv' /\ TablesInv'
  <2>1. /\ UNCHANGED <<folders, iterations, runs_dict, pc>> /\ pc = "walk"
        /\ todo' = todo \ {f} /\ ~f.results
    BY <1>2 DEF Plots!PassOver, Plots!names
  <2> QED
    BY <2>1 DEF IterInv, ReadInv, TablesInv
<1>3. ASSUME NEW f \in todo, Plots!ReadFolder(f) PROVE IterInv' /\ ReadInv' /\ TablesInv'
  <2>1. pc' # "done"
    BY <1>3 DEF Plots!ReadFolder
  <2> QED
    BY <1>3, <2>1, IterKept, ReadKept DEF TablesInv
<1>4. ASSUME Plots!MakeTables PROVE IterInv' /\ ReadInv' /\ TablesInv'
  <2>1. pc = "walk" /\ UNCHANGED <<folders, todo, iterations, runs_dict>>
    BY <1>4 DEF Plots!MakeTables, Plots!names
  <2>2. TablesInv'
    BY <1>4, TablesMade
  <2> QED
    BY <2>1, <2>2 DEF IterInv, ReadInv
<1>5. ASSUME Plots!GiveUp PROVE IterInv' /\ ReadInv' /\ TablesInv'
  <2>1. pc' = "error" /\ UNCHANGED <<iterations, runs_dict>>
    BY <1>5 DEF Plots!GiveUp, Plots!names
  <2> QED
    BY <2>1 DEF IterInv, ReadInv, TablesInv
<1>6. ASSUME Plots!Next PROVE IterInv' /\ ReadInv' /\ TablesInv'
  BY <1>2, <1>3, <1>4, <1>5, <1>6 DEF Plots!Next
<1> QED
  BY <1>1, <1>6 DEF ToolsNext, ReportRanges, ReadLog, ReadFolders
-----------------------------------------------------------------------------
(* tables_plots.py: the columns of a row are numbers                       *)

LEMMA SumIsInt ==
    ASSUME NEW q \in Seq(Int)
    PROVE  Plots!Sum(q) \in Int
<1> DEFINE n == Len(q)
           S == 1 .. n
           I == CHOOSE I : IsFold(I, q, S)
<1>0. n \in Nat /\ DOMAIN q = S /\ \A x \in S : q[x] \in Int
  <2>1. \A x \in 1 .. Len(q) : q[x] \in Int
    BY ElementOfSeq
  <2> QED
    BY <2>1
<1>1. Plots!Sum(q) = I[S]
  BY <1>0 DEF Plots!Sum, Plots!FoldLeft, Plots!MapThenFoldSet, Plots!Max, IsFold, LastOf
<1>2. S \subseteq Nat /\ IsFiniteSet(S)
  <2>1. 1 \in Int /\ n \in Int
    BY <1>0
  <2> HIDE DEF n
  <2>2. S \subseteq Nat
    BY <1>0
  <2> QED
    BY <2>1, <2>2, FS_Interval
<1>3. IsFold(I, q, S)
  <2>1. \E J : IsFold(J, q, S)
    <3> HIDE DEF S
    <3>1. \A s \in SUBSET S : s # {} => LastOf(s) \in s
      BY <1>2, LastOfSet
    <3> QED
      BY <1>0, <1>2, <3>1, FoldExists
  <2> QED
    BY <2>1
<1> HIDE DEF I
<1>4. I[{}] = 0 /\ \A s \in SUBSET S : s # {} => I[s] = I[s \ {LastOf(s)}] + q[LastOf(s)]
  BY <1>3, Zenon DEF IsFold
<1> DEFINE All == {k \in Nat : k <= n => I[1 .. k] \in Int}
<1> HIDE DEF n
<1>5. 0 \in All
  <2>1. 1 .. 0 = {} /\ 0 \in Int
    OBVIOUS
  <2> QED
    BY <1>4, <2>1
<1>6. \A k \in Nat : k \in All => k + 1 \in All
  <2> SUFFICES ASSUME NEW k \in Nat, I[1 .. k] \in Int, k + 1 <= n
               PROVE  I[1 .. (k + 1)] \in Int
    BY <1>0
  <2> DEFINE m == k + 1
             r == 1 .. m
  <2>1. m \in 1 .. n /\ m - 1 = k
    BY <1>0
  <2>2. r \in SUBSET S /\ r # {} /\ LastOf(r) = m /\ r \ {m} = 1 .. k
    <3> HIDE DEF m
    <3>1. r \ {m} = 1 .. (m - 1) /\ r \in SUBSET S /\ r # {} /\ LastOf(r) = m
      BY <1>0, <2>1, PrefixOf
    <3> QED
      BY <2>1, <3>1
  <2> HIDE DEF r, m
  <2>3. I[r] = I[1 .. k] + q[m]
    BY <1>4, <2>2
  <2>4. q[m] \in Int
    BY <1>0, <2>1
  <2>5. I[r] \in Int
    BY <2>3, <2>4
  <2> QED
    BY <2>5 DEF r, m
<1>7. Nat \subseteq All
  <2> HIDE DEF All
  <2> QED
    BY <1>5, <1>6, NumbersOf
<1>8. I[S] \in Int
  BY <1>0, <1>7
<1> QED
  BY <1>1, <1>8

LEMMA CountsAreNumbers ==
    ASSUME NEW c, IsCounted(c), ~Plots!ParseFails(Plots!CounterFile(c)),
           NEW v, v = Plots!parse_counter_file(Plots!CounterFile(c))
    PROVE  v[3] \in Int /\ v[4] \in Int /\ v[5] \in Int /\ v[6] \in Int
<1> DEFINE lines == Plots!CounterFile(c)
           g == Plots!Groups(lines)
<1>1. lines \in Seq(Int)
  BY DEF Plots!CounterFile, Plots!Text, IsCounted
<1>2. /\ v[3] = Plots!Sum(g[2]) /\ v[4] = Plots!Sum(g[3])
      /\ v[5] = Plots!Sum(g[4]) /\ v[6] = Plots!Sum(g[5])
  BY DEF Plots!parse_counter_file
<1> HIDE DEF lines
<1>3. AreSlices(g, lines)
  BY <1>1, GroupsAreSlices
<1> HIDE DEF g
<1>4. g[2] \in Seq(Int) /\ g[3] \in Seq(Int) /\ g[4] \in Seq(Int) /\ g[5] \in Seq(Int)
  BY <1>3 DEF AreSlices, IsSlice
<1>5. \A q \in Seq(Int) : Plots!Sum(q) \in Int
  BY SumIsInt
<1> QED
  BY <1>2, <1>4, <1>5

LEMMA CoverageIsNumbers ==
    ASSUME NEW f, f.results, ~Plots!Unreadable(f), f \in UNION Experiments
    PROVE  \A i \in 1 .. 6 : CoverageOf(f)[i] \in Int
<1>1. CASE f.stats = <<>>
  BY <1>1 DEF CoverageOf
<1>2. CASE f.stats # <<>>
  <2> DEFINE all == f.stats[1]
             cs == Plots!Read(all)
  <2>1. /\ IsList(f.stats)
        /\ \A n \in DOMAIN f.stats :
               /\ IsList(f.stats[n])
               /\ \A c \in Range(f.stats[n]) :
                      c = Plots!Failed
                          \/ /\ c.total_pages \in Nat
                             /\ \A i \in 1 .. 6 : Plots!CoverageLine(c)[i] \in Nat
    BY FoldersAssumption
  <2>2. 1 \in DOMAIN f.stats
    BY <1>2, <2>1 DEF IsList
  <2>3. cs # <<>>
    BY <1>2 DEF Plots!Unreadable
  <2>4. /\ IsList(all)
        /\ \A c \in Range(all) :
               c = Plots!Failed
                   \/ /\ c.total_pages \in Nat
                      /\ \A i \in 1 .. 6 : Plots!CoverageLine(c)[i] \in Nat
    BY <2>1, <2>2
  <2>5. CoverageOf(f) = Plots!CoverageLine(Plots!Largest(cs)[1])
    BY <1>2 DEF CoverageOf, Plots!read_cov_stats
  <2> HIDE DEF all
  <2>6. /\ IsList(cs)
        /\ \A j \in DOMAIN cs : cs[j] \in Range(all) /\ cs[j] # Plots!Failed
    BY <2>4, ReadIs
  <2>7. \A j \in DOMAIN cs :
            /\ cs[j].total_pages \in Nat
            /\ \A i \in 1 .. 6 : Plots!CoverageLine(cs[j])[i] \in Nat
    BY <2>4, <2>6
  <2> HIDE DEF cs
  <2>8. PICK j : IsChosen(cs, DOMAIN cs, j) /\ Plots!Largest(cs) = <<cs[j]>>
    BY <2>3, <2>6, <2>7, LargestIs
  <2>9. j \in DOMAIN cs /\ CoverageOf(f) = Plots!CoverageLine(cs[j])
    BY <2>5, <2>8 DEF IsChosen
  <2> QED
    BY <2>7, <2>9
<1> QED
  BY <1>1, <1>2

LEMMA RowNumbers ==
    ASSUME NEW f, f.results, ~Plots!Unreadable(f), f \in UNION Experiments
    PROVE  /\ Len(Plots!Row(f)) \in Nat /\ Len(Plots!Row(f)) >= 14
           /\ DOMAIN Plots!Row(f) = 1 .. Len(Plots!Row(f))
           /\ \A i \in 1 .. 10 : Plots!Row(f)[i] \in Int
<1> DEFINE row == Plots!Row(f)
           a == CoverageOf(f)
           v == Plots!parse_counter_file(Plots!CounterFile(f.start))
           w == Plots!parse_counter_file(Plots!CounterFile(f.end))
           b == Plots!read_counters_stats(Plots!CounterFile(f.start),
                                          Plots!CounterFile(f.end))
<1>1. /\ ~Plots!ParseFails(Plots!CounterFile(f.start))
      /\ ~Plots!ParseFails(Plots!CounterFile(f.end))
  BY DEF Plots!Unreadable
<1>2. IsCounted(f.start) /\ IsCounted(f.end)
  BY FolderIsCounted
<1>3. v[3] \in Int /\ v[4] \in Int /\ v[5] \in Int /\ v[6] \in Int
  BY <1>1, <1>2, CountsAreNumbers
<1>4. w[3] \in Int /\ w[4] \in Int /\ w[5] \in Int /\ w[6] \in Int
  BY <1>1, <1>2, CountsAreNumbers
<1>5. b = <<w[5] - v[5], w[6] - v[6], w[3] - v[3], w[4] - v[4], w[1] - v[1], w[2] - v[2]>>
  BY DEF Plots!read_counters_stats
<1>6. \A i \in 1 .. 6 : a[i] \in Int
  BY CoverageIsNumbers
<1>7. \E S, p : Holds(S, row, a, b, p)
  BY RowIsHeld
<1> HIDE DEF v, w, b, a, row
<1>8. b[1] \in Int /\ b[2] \in Int /\ b[3] \in Int /\ b[4] \in Int
  BY <1>3, <1>4, <1>5
<1>9. /\ Len(row) \in Nat /\ Len(row) >= 14 /\ DOMAIN row = 1 .. Len(row)
      /\ \A i \in 1 .. 6 : row[i] = a[i] /\ row[6 + i] = b[i]
  BY <1>7 DEF Holds
<1>10. \A i \in 1 .. 10 : row[i] \in Int
  <2>1. row[7] \in Int /\ row[8] \in Int /\ row[9] \in Int /\ row[10] \in Int
    BY <1>8, <1>9
  <2>2. \A i \in 1 .. 10 : i \in 1 .. 6 \/ i = 7 \/ i = 8 \/ i = 9 \/ i = 10
    OBVIOUS
  <2> QED
    BY <1>6, <1>9, <2>1, <2>2
<1> QED
  BY <1>9, <1>10 DEF row
-----------------------------------------------------------------------------
(* tables_plots.py: the rows of a case are those of its folders            *)

\* Of the folders of the same kind, each once.
IsMadeOf(same, name, made) ==
    \E n, h, rows :
        /\ Numbering(h, n, same)
        /\ rows = [k \in 1 .. n |-> Plots!Row(h[k])]
        /\ made = Plots!FinalRow(rows)
        /\ Len(rows) > 1 => \A i \in 1 .. 12 : ~(Plots!Product(rows, i) < 0)

\* The folders with results, of which no two have the same name, and their
\* entries: each folder has one, and each entry is that of a folder.
Distinct(R) == \A f, g \in R : f.name = g.name => f = g
Entries(dict, R) ==
    /\ \A n \in DOMAIN dict : \E f \in R : dict[n] = EntryOf(f)
    /\ \A f \in R : \E n \in DOMAIN dict : dict[n].key = f.name
    /\ \A m, n \in DOMAIN dict : dict[m].key = dict[n].key => m = n
NamedIn(dict, P, R) == {f \in R : \E m \in P : dict[m].key = f.name}

LEMMA FoldersOfEntries ==
    ASSUME NEW dict, NEW R, Distinct(R), Entries(dict, R),
           NEW P, P \subseteq DOMAIN dict, NEW n, NEW h, Numbering(h, n, P),
           NEW F, F = NamedIn(dict, P, R)
    PROVE  \E hh : /\ Numbering(hh, n, F)
                   /\ \A k \in 1 .. n : dict[h[k]].row = Plots!Row(hh[k])
<1> DEFINE hh == [k \in 1 .. n |-> CHOOSE f : f \in R /\ dict[h[k]] = EntryOf(f)]
<1>0. F = {f \in R : \E m \in P : dict[m].key = f.name}
  BY DEF NamedIn
<1>1. /\ n \in Nat /\ \A k \in 1 .. n : h[k] \in P
      /\ \A j, k \in 1 .. n : h[j] = h[k] => j = k
      /\ \A x \in P : \E k \in 1 .. n : h[k] = x
  BY DEF Numbering
<1>2. ASSUME NEW k \in 1 .. n
      PROVE  hh[k] \in R /\ dict[h[k]] = EntryOf(hh[k])
  <2>1. \E f : f \in R /\ dict[h[k]] = EntryOf(f)
    BY <1>1 DEF Entries
  <2>2. hh[k] = CHOOSE f : f \in R /\ dict[h[k]] = EntryOf(f)
    OBVIOUS
  <2> HIDE DEF hh
  <2> QED
    BY <2>1, <2>2
<1> HIDE DEF hh
<1>3. \A k \in 1 .. n : dict[h[k]].key = hh[k].name /\ dict[h[k]].row = Plots!Row(hh[k])
  <2>1. \A f : EntryOf(f).key = f.name /\ EntryOf(f).row = Plots!Row(f)
    BY DEF EntryOf
  <2> QED
    BY <1>2, <2>1
<1>4. \A k \in 1 .. n : hh[k] \in F
  BY <1>0, <1>1, <1>2, <1>3
<1>5. \A j, k \in 1 .. n : hh[j] = hh[k] => j = k
  <2> SUFFICES ASSUME NEW j \in 1 .. n, NEW k \in 1 .. n, hh[j] = hh[k] PROVE j = k
    OBVIOUS
  <2>1. dict[h[j]].key = dict[h[k]].key
    BY <1>3
  <2>2. h[j] \in DOMAIN dict /\ h[k] \in DOMAIN dict
    BY <1>1
  <2>3. h[j] = h[k]
    BY <2>1, <2>2 DEF Entries
  <2> QED
    BY <1>1, <2>3
<1>6. ASSUME NEW f \in F PROVE \E k \in 1 .. n : hh[k] = f
  <2>1. PICK m \in P : dict[m].key = f.name
    BY <1>0
  <2>2. PICK k \in 1 .. n : h[k] = m
    BY <1>1
  <2>3. hh[k].name = f.name /\ hh[k] \in R /\ f \in R
    BY <1>0, <1>2, <1>3, <2>1, <2>2
  <2>4. hh[k] = f
    BY <2>3 DEF Distinct
  <2> QED
    BY <2>4
<1>7. Numbering(hh, n, F)
  BY <1>1, <1>4, <1>5, <1>6 DEF Numbering
<1> QED
  BY <1>3, <1>7

LEMMA FoldersListed ==
    ASSUME RowsInv, KindInv, ReadInv, TablesInv, pc = "done",
           Plots!Single = {f \in folders : f.results}, NEW f \in Plots!Single,
           NEW same, same = {g \in Plots!Single : Plots!SameKind(g.name, f.name)}
    PROVE  /\ f \in same
           /\ \A g \in same : g.results /\ ~Plots!Unreadable(g) /\ g \in folders
           /\ IsMadeOf(same, f.name, tables[<<f.name.frag, f.name.bench,
                                             Plots!Case(f.name)>>])
<1> DEFINE R == Plots!Single
           name == f.name
           P == Like(runs_dict, marked_opts, name)
<1>1. /\ f \in folders /\ f.results
      /\ \A g \in R : g \in folders /\ g.results
      /\ \A g \in folders : g.results => g \in R
  OBVIOUS
<1>2. todo = {} /\ \A n \in DOMAIN runs_dict :
                      IsMade(runs_dict, marked_opts, tables, runs_dict[n].key)
  BY <1>1 DEF TablesInv
<1>3. Distinct(R)
  BY DEF Distinct, Plots!Single
<1> HIDE DEF R
<1>4. Entries(runs_dict, R)
  <2>1. \A n \in DOMAIN runs_dict : \E g \in R : runs_dict[n] = EntryOf(g)
    BY <1>1 DEF RowsInv
  <2>2. \A g \in R : \E n \in DOMAIN runs_dict : runs_dict[n].key = g.name
    BY <1>1, <1>2 DEF ReadInv
  <2> QED
    BY <2>1, <2>2 DEF Entries, RowsInv
<1>5. ASSUME NEW g \in R PROVE ~Plots!Unreadable(g)
  <2>1. PICK n \in DOMAIN runs_dict : runs_dict[n].key = g.name
    BY <1>4 DEF Entries
  <2>2. PICK e \in folders : e.results /\ ~Plots!Unreadable(e) /\ runs_dict[n] = EntryOf(e)
    BY DEF RowsInv
  <2>3. e \in R /\ e.name = g.name
    BY <1>1, <2>1, <2>2 DEF EntryOf
  <2>4. e = g
    BY <1>3, <2>3 DEF Distinct
  <2> QED
    BY <2>2, <2>4
<1>6. f \in R /\ \A g \in R : g.name \in Plots!Keys
  BY <1>4 DEF Entries, Plots!Keys, R
<1>7. \A n \in DOMAIN runs_dict : runs_dict[n].key \in Plots!Keys
  BY DEF Plots!Keys
<1>8. \A a, b \in Plots!Keys :
          Plots!SameKind(a, b) <=> /\ a.bench = b.bench /\ a.frag = b.frag
                                   /\ Plots!Case(a) = Plots!Case(b)
  BY KindsAreCases DEF CasesAreOfOneKind, Plots!CasesAreOfOneKind
<1>9. PICK m \in DOMAIN runs_dict : runs_dict[m].key = name
  BY <1>4, <1>6 DEF Entries
<1>10. IsMade(runs_dict, marked_opts, tables, name)
  BY <1>2, <1>9
<1>11. \A key : CaseOf(marked_opts, key) = Plots!Case(key)
  BY LikeIs
<1>12. \A n \in DOMAIN runs_dict :
           n \in P <=> Plots!SameKind(runs_dict[n].key, name)
  BY <1>6, <1>7, <1>8, <1>11 DEF Like
<1>13. P \subseteq DOMAIN runs_dict
  BY DEF Like
<1> HIDE DEF P
<1>14. same = NamedIn(runs_dict, P, R)
  <2>1. \A g \in R : (\E n \in P : runs_dict[n].key = g.name)
                         <=> Plots!SameKind(g.name, name)
    BY <1>4, <1>12, <1>13 DEF Entries
  <2>2. same = {g \in R : Plots!SameKind(g.name, name)}
    BY DEF R
  <2> QED
    BY <2>1, <2>2 DEF NamedIn
<1>15. Plots!SameKind(name, name)
  BY DEF Plots!SameKind
<1>16. f \in same /\ \A g \in same : g \in R
  BY <1>6, <1>15 DEF R
<1> DEFINE t == <<name.frag, name.bench, CaseOf(marked_opts, name)>>
<1>17. PICK rows :
           /\ ListsAll(runs_dict, P, rows) /\ tables[t] = Plots!FinalRow(rows)
           /\ Len(rows) > 1 => \A i \in 1 .. 12 : ~(Plots!Product(rows, i) < 0)
  BY <1>10 DEF IsMade, P
<1>18. PICK n, h : Numbering(h, n, P) /\ rows = [k \in 1 .. n |-> runs_dict[h[k]].row]
  BY <1>17 DEF ListsAll
<1>19. PICK hh : /\ Numbering(hh, n, same)
                 /\ \A k \in 1 .. n : runs_dict[h[k]].row = Plots!Row(hh[k])
  <2>1. /\ Distinct(R) /\ Entries(runs_dict, R) /\ P \subseteq DOMAIN runs_dict
        /\ Numbering(h, n, P)
    BY <1>3, <1>4, <1>13, <1>18
  <2> QED
    BY ONLY <1>14, <2>1, FoldersOfEntries
<1>20. rows = [k \in 1 .. n |-> Plots!Row(hh[k])]
  BY <1>18, <1>19
<1> HIDE DEF t
<1>21. IsMadeOf(same, name, tables[t])
  BY <1>17, <1>19, <1>20 DEF IsMadeOf
<1>22. t = <<name.frag, name.bench, Plots!Case(name)>>
  BY <1>11 DEF t
<1> QED
  BY <1>1, <1>5, <1>16, <1>21, <1>22
-----------------------------------------------------------------------------
(* tables_plots.py: the means are those of the runs                        *)

\* The product of a column over folders.
ProductOver(read, i, S) == Plots!FoldSet(LAMBDA g, p : p * read[g][i], 1, S)
FactorsOver(read, i, S) == [g \in S |-> read[g][i]]
IsProductOver(P, read, i, S) ==
    P = [s \in SUBSET S |-> IF s = {} THEN 1
                            ELSE P[s \ {First(s)}] * read[First(s)][i]]

LEMMA ProductOverIs ==
    ASSUME NEW S, IsFiniteSet(S), NEW read, NEW i,
           NEW F, F = FactorsOver(read, i, S), \A g \in S : F[g] \in Int
    PROVE  \E P : IsSetProduct(P, F, S) /\ ProductOver(read, i, S) = P[S]
<1> DEFINE P == CHOOSE P : IsProductOver(P, read, i, S)
<1>1. ProductOver(read, i, S) = P[S]
  BY DEF ProductOver, Plots!FoldSet, Plots!MapThenFoldSet, IsProductOver, First
<1>2. \A s \in SUBSET S : s # {} => F[First(s)] = read[First(s)][i]
  BY FirstOf DEF FactorsOver
<1>3. PICK Q : IsSetProduct(Q, F, S)
  <2>1. \A g \in S : F[g] \in Int
    OBVIOUS
  <2> HIDE DEF P
  <2> QED
    BY ONLY IsFiniteSet(S), <2>1, SetProductExists
<1>4. IsProductOver(Q, read, i, S)
  <2>1. /\ Q = [s \in SUBSET S |-> Q[s]] /\ Q[{}] = 1
        /\ \A s \in SUBSET S : s # {} => Q[s] = Q[s \ {First(s)}] * F[First(s)]
    BY <1>3 DEF IsSetProduct
  <2>2. \A s \in SUBSET S :
            Q[s] = IF s = {} THEN 1 ELSE Q[s \ {First(s)}] * read[First(s)][i]
    BY <1>2, <2>1
  <2>3. Q = [s \in SUBSET S |-> IF s = {} THEN 1
                                ELSE Q[s \ {First(s)}] * read[First(s)][i]]
    BY <2>1, <2>2, Zenon
  <2> QED
    BY <2>3 DEF IsProductOver
<1>5. IsProductOver(P, read, i, S)
  BY <1>4
<1> HIDE DEF P
<1>6. IsSetProduct(P, F, S)
  <2>1. /\ P = [s \in SUBSET S |-> P[s]] /\ P[{}] = 1
        /\ \A s \in SUBSET S : s # {} => P[s] = P[s \ {First(s)}] * read[First(s)][i]
    BY <1>5 DEF IsProductOver
  <2>2. \A s \in SUBSET S : P[s] = IF s = {} THEN 1 ELSE P[s \ {First(s)}] * F[First(s)]
    BY <1>2, <2>1
  <2>3. P = [s \in SUBSET S |-> IF s = {} THEN 1 ELSE P[s \ {First(s)}] * F[First(s)]]
    BY <2>1, <2>2, Zenon
  <2> QED
    BY <2>3 DEF IsSetProduct
<1> QED
  BY <1>1, <1>6

\* What is listed without repetition is as many as the list is long.
LEMMA AsManyAsListed ==
    ASSUME NEW S, NEW n, NEW h, Numbering(h, n, S)
    PROVE  IsFiniteSet(S) /\ Cardinality(S) = n
<1> DEFINE b == [k \in 1 .. n |-> h[k]]
<1>1. n \in Nat
  BY DEF Numbering
<1>2. b \in Bijection(1 .. n, S)
  BY DEF Numbering, Bijection, Injection, Surjection, IsInjective
<1> HIDE DEF b
<1>3. ExistsBijection(1 .. n, S)
  BY <1>2 DEF ExistsBijection
<1> QED
  BY <1>1, <1>3, FS_CountingElements, FS_NatBijection

RowsListed(h, n) == [k \in 1 .. n |-> Plots!Row(h[k])]
RowsRead(S) == [g \in S |-> Plots!Row(g)]

LEMMA MeanOfFolders ==
    ASSUME NEW same, NEW n, NEW h, Numbering(h, n, same), same # {},
           NEW rows, rows = RowsListed(h, n), NEW read, read = RowsRead(same),
           NEW i, \A g \in same : Plots!Row(g)[i] \in Int,
           Len(rows) > 1 => ~(Plots!Product(rows, i) < 0)
    PROVE  IsRoot(Plots!Mean(rows, i), ProductOver(read, i, same), n)
<1> DEFINE q == Column(rows, i)
           F == [g \in same |-> read[g][i]]
<1>1. /\ n \in Nat /\ \A k \in 1 .. n : h[k] \in same
      /\ \A j, k \in 1 .. n : h[j] = h[k] => j = k
      /\ \A x \in same : \E k \in 1 .. n : h[k] = x
  BY DEF Numbering
<1>2. n > 0 /\ n = Len(rows) /\ DOMAIN rows = 1 .. n
  BY <1>1 DEF RowsListed
<1>3. \A g \in same : F[g] = Plots!Row(g)[i] /\ F[g] \in Int
  BY DEF RowsRead
<1>4. DOMAIN q = 1 .. n /\ \A k \in 1 .. n : q[k] = F[h[k]] /\ q[k] \in Int
  <2>1. \A k \in 1 .. n : rows[k] = Plots!Row(h[k])
    BY DEF RowsListed
  <2>2. DOMAIN q = 1 .. n /\ \A k \in 1 .. n : q[k] = rows[k][i]
    BY <1>2 DEF Column
  <2> HIDE DEF q, F
  <2> QED
    BY <1>1, <1>3, <2>1, <2>2
<1>5. Factors(q, n)
  BY <1>1, <1>4 DEF Factors
<1> HIDE DEF q
<1>6. PICK J : AreProducts(J, q, n) /\ Plots!Times(q) = J[n]
  BY <1>5, TimesIs
<1>7. Plots!Product(rows, i) = J[n] /\ J[n] \in Int
  <2>1. Plots!Product(rows, i) = Plots!Times(q)
    BY DEF Plots!Product, Column, q
  <2> QED
    BY <1>1, <1>6, <2>1 DEF AreProducts
<1>8. n > 1 => Plots!Product(rows, i) >= 0
  <2> DEFINE prod == Plots!Product(rows, i)
  <2>1. prod \in Int /\ (n > 1 => ~(prod < 0))
    BY <1>2, <1>7
  <2> HIDE DEF prod
  <2>2. n > 1 => prod >= 0
    BY <2>1
  <2> QED
    BY <2>2 DEF prod
<1>9. IsRoot(Plots!Mean(rows, i), J[n], n)
  <2>1. Factors(Column(rows, i), n) /\ AreProducts(J, Column(rows, i), n)
    BY <1>5, <1>6 DEF q
  <2> QED
    BY <1>1, <1>2, <1>8, <2>1, MeanIs
<1>10. IsFiniteSet(same)
  BY AsManyAsListed
<1>11. F = FactorsOver(read, i, same)
  BY DEF FactorsOver
<1> HIDE DEF F
<1>12. PICK P : IsSetProduct(P, F, same) /\ ProductOver(read, i, same) = P[same]
  BY <1>3, <1>10, <1>11, ProductOverIs
<1>13. P[same] = J[n]
  <2>1. AllNumbers(F, same)
    BY <1>3 DEF AllNumbers
  <2>2. Multiplied(J, F, h, n)
    BY <1>4, <1>6 DEF AreProducts, Multiplied
  <2>3. IsSetProduct(P, F, same)
    BY <1>12
  <2> QED
    BY <1>10, <2>1, <2>2, <2>3, SetProductOfNumbering
<1> QED
  BY <1>9, <1>12, <1>13

\* The rows of folders: those of a case are as long as the first.
LEMMA FinalRowIs ==
    ASSUME NEW rows, DOMAIN rows[1] = 1 .. Len(rows[1]), Len(rows[1]) \in Nat,
           Len(rows[1]) >= 14, NEW i \in 1 .. 10
    PROVE  Plots!FinalRow(rows)[i] = Plots!Mean(rows, i)
<1>1. i \in DOMAIN rows[1] /\ i <= 12
  OBVIOUS
<1> QED
  BY <1>1 DEF Plots!FinalRow

LEMMA SameCardinality == \A S : Plots!Cardinality(S) = Cardinality(S)
  BY DEF Plots!Cardinality, Cardinality

LEMMA MeansAreOfRuns ==
    RowsInv /\ KindInv /\ FoldersInv /\ ReadInv /\ TablesInv => EveryRunCounts
<1> SUFFICES ASSUME RowsInv, KindInv, FoldersInv, ReadInv, TablesInv, pc = "done",
                    Plots!Single = {f \in folders : f.results},
                    NEW f \in Plots!Single, NEW i \in 1 .. 10
             PROVE  LET key  == f.name
                        same == {g \in Plots!Single : Plots!SameKind(g.name, key)}
                        row  == tables[<<key.frag, key.bench, Plots!Case(key)>>]
                        n    == Plots!Cardinality(same)
                        read == [g \in same |-> Plots!Row(g)]
                        prod == Plots!FoldSet(LAMBDA g, p : p * read[g][i], 1, same)
                    IN  /\ prod < Plots!Power(row[i] + 2, n)
                        /\ row[i] > 0 => Plots!Power(row[i] - 1, n) < prod
  BY Zenon DEF EveryRunCounts, Plots!EveryRunCounts, Plots!FoldSet, Plots!MapThenFoldSet,
               ProductOver
<1> DEFINE key  == f.name
           same == {g \in Plots!Single : Plots!SameKind(g.name, key)}
           row  == tables[<<key.frag, key.bench, Plots!Case(key)>>]
           read == [g \in same |-> Plots!Row(g)]
           prod == Plots!FoldSet(LAMBDA g, p : p * read[g][i], 1, same)
<1>0. prod = ProductOver(read, i, same)
  BY DEF ProductOver
<1>1. /\ f \in same
      /\ \A g \in same : g.results /\ ~Plots!Unreadable(g) /\ g \in folders
      /\ IsMadeOf(same, key, row)
  BY FoldersListed
<1> HIDE DEF prod
<1>a. read = RowsRead(same)
  BY DEF RowsRead
<1> HIDE DEF row, read, same
<1>2. PICK n, h, rows :
          /\ Numbering(h, n, same)
          /\ rows = [k \in 1 .. n |-> Plots!Row(h[k])]
          /\ row = Plots!FinalRow(rows)
          /\ Len(rows) > 1 => \A j \in 1 .. 12 : ~(Plots!Product(rows, j) < 0)
  BY <1>1 DEF IsMadeOf
<1>3. \A g \in same : /\ Len(Plots!Row(g)) \in Nat /\ Len(Plots!Row(g)) >= 14
                      /\ DOMAIN Plots!Row(g) = 1 .. Len(Plots!Row(g))
                      /\ \A j \in 1 .. 10 : Plots!Row(g)[j] \in Int
  BY <1>1, RowNumbers DEF FoldersInv
<1>4. n \in Nat /\ 1 \in 1 .. n /\ \A k \in 1 .. n : h[k] \in same
  BY <1>1, <1>2 DEF Numbering
<1>5. row[i] = Plots!Mean(rows, i)
  <2> DEFINE r == rows[1]
  <2>1. r = Plots!Row(h[1]) /\ h[1] \in same
    BY <1>2, <1>4
  <2>2. DOMAIN r = 1 .. Len(r) /\ Len(r) \in Nat /\ Len(r) >= 14
    BY <1>3, <2>1
  <2>3. Plots!FinalRow(rows)[i] = Plots!Mean(rows, i)
    BY <2>2, FinalRowIs
  <2> QED
    BY <1>2, <2>3
<1>6. IsRoot(Plots!Mean(rows, i), ProductOver(read, i, same), n)
  <2>1. Len(rows) > 1 => ~(Plots!Product(rows, i) < 0)
    <3>1. i \in 1 .. 12
      OBVIOUS
    <3> QED
      BY <1>2, <3>1
  <2>2. \A g \in same : Plots!Row(g)[i] \in Int
    BY <1>3
  <2>3. /\ Numbering(h, n, same) /\ same # {}
        /\ rows = RowsListed(h, n) /\ read = RowsRead(same)
    BY <1>a, <1>1, <1>2 DEF RowsListed
  <2> QED
    BY ONLY <2>1, <2>2, <2>3, MeanOfFolders
<1>7. Plots!Cardinality(same) = n
  BY <1>2, AsManyAsListed, SameCardinality
<1>8. /\ prod < Plots!Power(row[i] + 2, n)
      /\ row[i] > 0 => Plots!Power(row[i] - 1, n) < prod
  BY <1>0, <1>5, <1>6 DEF IsRoot
<1> QED
  BY <1>7, <1>8 DEF row, read, same, prod, key

\* Every run counts in the means of its case, and no other, for any folders,
\* walked in any order, and any numbers in their files.
THEOREM EveryRunIsCounted == ToolsSpec => []EveryRunCounts
<1> DEFINE Inv == /\ RowsInv /\ KindInv /\ FoldersInv
                  /\ IterInv /\ ReadInv /\ TablesInv
<1>1. ToolsInit => Inv
  BY InitRowsInv, InitKindInv, InitFoldersInv, InitTablesInv
<1>2. Inv /\ [ToolsNext]_<<vars, logVars, tablesVars>> => Inv'
  <2>1. RowsInv /\ IterInv /\ ReadInv /\ TablesInv
            /\ [ToolsNext]_<<vars, logVars, tablesVars>> => IterInv' /\ ReadInv' /\ TablesInv'
    BY NextTablesInv
  <2>2. Inv /\ [ToolsNext]_<<vars, logVars, tablesVars>>
            => RowsInv' /\ KindInv' /\ FoldersInv'
    BY NextRowsInv, NextKindInv, NextFoldersInv
  <2> QED
    BY <2>1, <2>2
<1>3. Inv => EveryRunCounts
  BY MeansAreOfRuns
<1> HIDE DEF Inv
<1> QED
  BY <1>1, <1>2, <1>3, PTL DEF ToolsSpec
=============================================================================
