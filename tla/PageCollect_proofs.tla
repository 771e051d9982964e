-------------------------- MODULE PageCollect_proofs --------------------------
(***************************************************************************)
(* Theorems about the collector, for huge pages of any size, any maps file *)
(* and any page table.                                                     *)
(***************************************************************************)
EXTENDS Sums, PageCollect, SequenceTheorems, TLAPS

(* Bags and sizes                                                          *)

LEMMA BagAddIsBag ==
    ASSUME NEW B, IsABag(B), NEW x
    PROVE  IsABag(BagAdd(B, x))
  <1>1. CASE x \in DOMAIN B
    <2>1. BagAdd(B, x) = [e \in DOMAIN B |-> IF e = x THEN B[e] + 1 ELSE B[e]]
      BY <1>1 DEF BagAdd
    <2>2. QED
      BY <2>1 DEF IsABag
  <1>2. CASE x \notin DOMAIN B
    <2>1. BagAdd(B, x) =
            [e \in DOMAIN B \cup {x} |-> IF e = x THEN 1 ELSE B[e]]
      BY <1>2 DEF BagAdd
    <2>2. QED
      BY <2>1 DEF IsABag
  <1>3. QED
    BY <1>1, <1>2

LEMMA BagSumIsBag ==
    ASSUME NEW A, IsABag(A), NEW x, NEW n \in Nat \ {0}
    PROVE  IsABag(A (+) [o \in {x} |-> n])
  <1> DEFINE O == [e \in {x} |-> n]
             S == [e \in DOMAIN A \cup {x} |->
                      (IF e \in DOMAIN A THEN A[e] ELSE 0)
                      + (IF e \in {x} THEN n ELSE 0)]
  <1>1. A (+) O = S
    BY DEF (+)
  <1>2. \A e \in DOMAIN S : S[e] \in {m \in Nat : m > 0}
    BY DEF IsABag
  <1>3. S \in [DOMAIN S -> {m \in Nat : m > 0}]
    BY <1>2, Zenon
  <1>4. QED
    BY <1>1, <1>3 DEF IsABag

LEMMA SizeOfPresent ==
    ASSUME PagePresent
    PROVE  \E size \in {1, THP} :
               Contiguity(ReadWord, size) /\ Count(ReadWord, size)
               /\ Advance(size)
  BY DEF PagePresent, PageSize

LEMMA ReadWordValue ==
    ASSUME TypeOK
    PROVE  ReadWord \in Word
  BY DEF TypeOK, ReadWord, InTable, Vpns, Word

LEMMA WordIsFrame ==
    ASSUME NEW w \in Word, w # NotPresent
    PROVE  w \in Frames /\ w \in Nat \ {0}
  BY FrameAssumption DEF Word

LEMMA VmaTypes ==
    ASSUME TypeOK, NEW i \in 1 .. Len(maps)
    PROVE  /\ maps[i].start \in Nat \ {0, 1}
           /\ maps[i].pages \in Nat \ {0}
           /\ VmEnd(i) \in Nat
  <1>1. maps \in Seq([start : Nat \ {0, 1}, pages : Nat \ {0}])
    BY FileAssumption DEF TypeOK
  <1>2. maps[i] \in [start : Nat \ {0, 1}, pages : Nat \ {0}]
    <2>1. i \in 1 .. Len(maps)
      OBVIOUS
    <2>2. QED
      BY <1>1, <2>1, ElementOfSeq
  <1>3. QED
    BY <1>2 DEF VmEnd

LEMMA VmasInOrder ==
    ASSUME TypeOK, NEW i \in 1 .. Len(maps), NEW j \in 1 .. Len(maps), i < j
    PROVE  VmEnd(i) <= maps[j].start
  <1>1. maps \in Seq([start : Nat \ {0, 1}, pages : Nat \ {0}])
    BY FileAssumption DEF TypeOK
  <1>2. DOMAIN maps = 1 .. Len(maps)
    BY <1>1
  <1>3. QED
    BY <1>2, FileAssumption DEF TypeOK, VmEnd

\* Only a line that is read leads to a page, and nothing comes back to life.
LEMMA OtherSteps ==
    ASSUME [Next]_vars, ~StartVma
    PROVE  (pc' = "page" => pc = "page") /\ (alive' => alive)
  <1>1. CASE PageAbsent \/ PagePresent \/ FlagsFail \/ FlagsAbort
    <2>1. pc = "page"
      BY <1>1 DEF PageAbsent, PagePresent, FlagsFail, FlagsAbort
    <2>2. UNCHANGED alive
      BY <1>1 DEF PageAbsent, PagePresent, FlagsFail, FlagsAbort, target
    <2>3. QED
      BY <2>1, <2>2
  <1>2. CASE Exit
    BY <1>2 DEF Exit
  <1>3. CASE Open \/ Finish \/ EndVma \/ Remap \/ UNCHANGED vars
    <2>1. pc' = "page" => pc = "page"
      BY <1>3 DEF Open, Finish, EndVma, Remap, vars
    <2>2. UNCHANGED alive
      BY <1>3 DEF Open, Finish, EndVma, Remap, vars, target
    <2>3. QED
      BY <2>1, <2>2
  <1>4. QED
    BY <1>1, <1>2, <1>3 DEF Next, Collect

LEMMA PrintedTypes ==
    ASSUME TypeOK, NEW i \in DOMAIN printed
    PROVE  printed[i].vpn \in Nat /\ printed[i].size \in Nat \ {0}
  <1>1. printed \in Seq([vpn : Nat, pfn : Frames, size : {1, THP}])
    BY DEF TypeOK
  <1>2. i \in 1 .. Len(printed)
    BY <1>1
  <1>3. printed[i] \in [vpn : Nat, pfn : Frames, size : {1, THP}]
    BY <1>1, <1>2, ElementOfSeq
  <1>4. QED
    BY <1>3, SizeAssumption
-----------------------------------------------------------------------------
(* Type correctness                                                        *)

LEMMA InitTypes == Init => TypeOK
  <1> SUFFICES ASSUME Init
               PROVE  TypeOK
    OBVIOUS
  <1>1. alive \in BOOLEAN /\ remapped \in BOOLEAN
    BY DEF Init
  <1>2. DOMAIN pt \subseteq Nat /\ \A v \in Vpns : pt[v] \in Word
    BY TableAssumption DEF Init, Vpns
  <1>3. IsABag(virtual_hist) /\ IsABag(range_hist) /\ IsABag(offsets)
    BY DEF Init, EmptyBag, SetToBag, IsABag
  <1>4. QED
    BY <1>1, <1>2, <1>3, StaleAssumption DEF Init, TypeOK

\* What Advance leaves in the cursor, for a size of at least one page.
LEMMA AdvanceTypes ==
    ASSUME TypeOK, NEW size \in Nat \ {0}, Advance(size)
    PROVE  /\ pos' \in Nat /\ vpn' \in Nat /\ num_pages' \in Int
           /\ current_page_size' \in Nat \ {0}
           /\ vpn' = vpn + size /\ num_pages' = num_pages - size
  BY DEF TypeOK, Advance, Reposition

LEMMA ContiguityTypes ==
    ASSUME TypeOK, NEW pfn \in Frames, NEW size \in Nat \ {0},
           Contiguity(pfn, size)
    PROVE  /\ prev_vpn' \in Nat /\ prev_pfn' \in Nat
           /\ cur_virtual' \in Nat \ {0} /\ cur_range' \in Nat \ {0}
           /\ IsABag(virtual_hist') /\ IsABag(range_hist')
  <1>1. prev_vpn' \in Nat /\ prev_pfn' \in Nat
    BY FrameAssumption DEF TypeOK, Contiguity
  <1>2. cur_virtual' \in Nat \ {0} /\ cur_range' \in Nat \ {0}
    BY DEF TypeOK, Contiguity, Grown, Recorded
  <1>3. IsABag(BagAdd(virtual_hist, cur_virtual))
        /\ IsABag(BagAdd(range_hist, cur_range))
    BY BagAddIsBag DEF TypeOK
  <1>4. IsABag(virtual_hist')
    BY <1>3 DEF TypeOK, Contiguity, Grown, Recorded
  <1>5. IsABag(range_hist')
    BY <1>3 DEF TypeOK, Contiguity, Grown, Recorded
  <1>6. QED
    BY <1>1, <1>2, <1>4, <1>5

LEMMA CountTypes ==
    ASSUME TypeOK, NEW pfn \in Frames, NEW size \in {1, THP}, Count(pfn, size)
    PROVE  /\ IsABag(offsets') /\ total' \in Nat
           /\ regular_4k' \in Nat /\ regular_2m' \in Nat
           /\ printed' \in Seq([vpn : Nat, pfn : Frames, size : {1, THP}])
  <1>1. IsABag(offsets')
    <2>1. size \in Nat \ {0}
      BY SizeAssumption
    <2>2. IsABag(offsets)
      BY DEF TypeOK
    <2>3. offsets' = offsets (+) [o \in {vpn - pfn} |-> size]
      BY DEF Count
    <2>4. QED
      BY <2>1, <2>2, <2>3, BagSumIsBag
  <1>2. total' \in Nat /\ regular_4k' \in Nat /\ regular_2m' \in Nat
    BY SizeAssumption DEF TypeOK, Count
  <1>3. printed' \in Seq([vpn : Nat, pfn : Frames, size : {1, THP}])
    BY DEF TypeOK, Count
  <1>4. QED
    BY <1>1, <1>2, <1>3

LEMMA PresentTypes == TypeOK /\ PagePresent => TypeOK'
  <1> SUFFICES ASSUME TypeOK, PagePresent
               PROVE  TypeOK'
    OBVIOUS
  <1> DEFINE w == ReadWord
  <1>1. w \in Frames /\ w \in Nat \ {0} /\ w \in Word
    BY ReadWordValue, WordIsFrame DEF PagePresent
  <1>3. PICK size \in {1, THP} :
            Contiguity(w, size) /\ Count(w, size) /\ Advance(size)
    BY SizeOfPresent
  <1>2. size \in {1, THP} /\ size \in Nat \ {0}
    BY SizeAssumption
  <1>4. pa' \in Word
    BY <1>1 DEF PagePresent
  <1> HIDE DEF w
  <1>5. /\ pos' \in Nat /\ vpn' \in Nat /\ num_pages' \in Int
        /\ current_page_size' \in Nat \ {0}
    BY <1>2, <1>3, AdvanceTypes
  <1>6. /\ prev_vpn' \in Nat /\ prev_pfn' \in Nat
        /\ cur_virtual' \in Nat \ {0} /\ cur_range' \in Nat \ {0}
        /\ IsABag(virtual_hist') /\ IsABag(range_hist')
    BY <1>1, <1>2, <1>3, ContiguityTypes
  <1>7. /\ IsABag(offsets') /\ total' \in Nat
        /\ regular_4k' \in Nat /\ regular_2m' \in Nat
        /\ printed' \in Seq([vpn : Nat, pfn : Frames, size : {1, THP}])
    BY <1>1, <1>2, <1>3, CountTypes
  <1>8. UNCHANGED <<maps, pt, huge, alive, remapped, pc, line>>
    BY DEF PagePresent, target
  <1>9. QED
    BY <1>4, <1>5, <1>6, <1>7, <1>8 DEF TypeOK, Vpns

LEMMA StepTypes == TypeOK /\ [Next]_vars => TypeOK'
  <1> SUFFICES ASSUME TypeOK, [Next]_vars
               PROVE  TypeOK'
    OBVIOUS
  <1> USE DEF target, cursor, runs, results
  <1>1. CASE Open
    BY <1>1 DEF TypeOK, Open, Vpns
  <1>2. CASE StartVma
    <2>1. line' \in 1 .. Len(maps)
      BY <1>2 DEF StartVma, TypeOK
    <2>2. maps[line'].start \in Nat /\ maps[line'].pages \in Nat
      BY <2>1, VmaTypes
    <2>3. QED
      BY <1>2, <2>1, <2>2 DEF StartVma, TypeOK, Vpns
  <1>3. CASE Finish
    BY <1>3 DEF TypeOK, Finish, Vpns
  <1>4. CASE EndVma
    BY <1>4 DEF TypeOK, EndVma, Vpns
  <1>5. CASE PageAbsent
    <2>1. NotPresent \in Word
      BY DEF Word
    <2>2. current_page_size \in Nat \ {0} /\ Advance(current_page_size)
      BY <1>5 DEF TypeOK, PageAbsent
    <2>3. QED
      BY <1>5, <2>1, <2>2, AdvanceTypes DEF TypeOK, PageAbsent, Vpns
  <1>6. CASE PagePresent
    BY <1>6, PresentTypes
  <1>7. CASE FlagsFail \/ FlagsAbort
    <2>1. pc' \in {"page", "repeats", "aborted"}
      BY <1>7 DEF FlagsFail, FlagsAbort
    <2>2. pa' = ReadWord /\ pos' = Reposition
          /\ UNCHANGED <<target, line, vpn, num_pages, current_page_size, runs,
                         results>>
      BY <1>7 DEF FlagsFail, FlagsAbort
    <2>3. pos' \in Nat /\ pa' \in Word
      BY <2>2, ReadWordValue DEF TypeOK, Reposition
    <2>4. QED
      BY <2>1, <2>2, <2>3 DEF TypeOK, Vpns
  <1>8. CASE Remap
    BY <1>8 DEF TypeOK, Remap, Vpns
  <1>9. CASE Exit
    BY <1>9 DEF TypeOK, Exit, Vpns
  <1>10. CASE UNCHANGED vars
    BY <1>10 DEF TypeOK, vars, Vpns
  <1>11. QED
    BY <1>1, <1>2, <1>3, <1>4, <1>5, <1>6, <1>7, <1>8, <1>9, <1>10
    DEF Next, Collect

\* The state is well typed: the histograms and the offsets are bags of page
\* counts, the counters never are negative, and the collector only prints
\* frames that the page map gave it.
THEOREM TypeCorrect == Spec => []TypeOK
  BY InitTypes, StepTypes, PTL DEF Spec
-----------------------------------------------------------------------------
(* The counters                                                            *)

\* The sums are taken over finite bags of page counts.
FiniteBags ==
    IsBag(virtual_hist) /\ IsBag(range_hist) /\ IsFiniteSet(DOMAIN offsets)

AccountInv == FiniteBags /\ Accounting

\* Some pages more at an offset.
LEMMA OffsetsAdd ==
    ASSUME NEW A, IsABag(A), IsFiniteSet(DOMAIN A), NEW x, NEW n \in Nat \ {0}
    PROVE  LET S == A (+) [o \in {x} |-> n] IN
             /\ IsFiniteSet(DOMAIN S)
             /\ SumFunction(S) = SumFunction(A) + n
  <1> DEFINE S == A (+) [o \in {x} |-> n]
             f(e) == (IF e \in DOMAIN A THEN A[e] ELSE 0)
                     + (IF e \in {x} THEN n ELSE 0)
  <1>1. S = [e \in DOMAIN A \cup {x} |-> f(e)]
    BY DEF (+)
  <1> HIDE DEF S
  <1>2. DOMAIN S = DOMAIN A \cup {x} /\ \A e \in DOMAIN S : S[e] = f(e)
    BY <1>1
  <1>3. IsFiniteSet(DOMAIN S)
    BY <1>2, FS_AddElement
  <1>4. \A e \in DOMAIN A : A[e] \in Nat
    BY DEF IsABag
  <1>5. \A e \in DOMAIN S : S[e] \in Int
    BY <1>2, <1>4
  <1>6. \A e \in DOMAIN A \ {x} : S[e] = A[e]
    BY <1>2, <1>4
  <1>7. SumFunction(A) \in Int
    BY <1>4, SumFunctionIsNumber
  <1>8. CASE x \in DOMAIN A
    <2>1. DOMAIN S = DOMAIN A /\ S[x] = A[x] + n /\ A[x] \in Nat
      BY <1>2, <1>4, <1>8
    <2>2. SumFunction(S) = SumFunction(A) - A[x] + S[x]
      BY <1>4, <1>5, <1>6, <1>8, <2>1, SumOneChanged
    <2>3. QED
      BY <1>3, <1>7, <2>1, <2>2 DEF S
  <1>9. CASE x \notin DOMAIN A
    <2>1. S[x] = n
      BY <1>2, <1>9
    <2>2. SumFunction(S) = SumFunction(A) + S[x]
      BY <1>2, <1>5, <1>6, <1>9, SumOneMore
    <2>3. QED
      BY <1>3, <2>1, <2>2 DEF S
  <1>10. QED
    BY <1>8, <1>9

\* A run that goes on or is recorded: with the open run, the histogram holds
\* size pages more.
LEMMA RunAdds ==
    ASSUME NEW hist, IsBag(hist), NEW cur \in Nat, NEW size \in Nat,
           NEW goesOn \in BOOLEAN
    PROVE  /\ IsBag(Recorded(goesOn, hist, cur))
           /\ SumBag(hist) \in Int
           /\ SumBag(Recorded(goesOn, hist, cur)) \in Int
           /\ SumBag(Recorded(goesOn, hist, cur)) + Grown(goesOn, cur, size)
              = SumBag(hist) + cur + size
  <1>1. /\ IsBag(BagAdd(hist, cur)) /\ SumBag(hist) \in Int
        /\ SumBag(BagAdd(hist, cur)) = SumBag(hist) + cur
    BY SumBagAdd
  <1>2. CASE goesOn
    BY <1>1, <1>2 DEF Recorded, Grown
  <1>3. CASE ~goesOn
    BY <1>1, <1>3 DEF Recorded, Grown
  <1>4. QED
    BY <1>2, <1>3

LEMMA AccountInit == Init => AccountInv
  <1> SUFFICES ASSUME Init
               PROVE  AccountInv
    OBVIOUS
  <1>1. DOMAIN EmptyBag = {}
    BY DEF EmptyBag, SetToBag
  <1>2. IsBag(EmptyBag) /\ SumFunction(EmptyBag) = 0
    BY <1>1, FS_EmptySet, SumOfNothing DEF IsBag
  <1>3. SumBag(EmptyBag) = 0
    <2>1. SumBag(EmptyBag)
            = SumFunction([x \in DOMAIN EmptyBag |-> x * EmptyBag[x]])
      BY <1>2, SumBagIsSum
    <2>2. QED
      BY <1>1, <2>1, SumOfNothing
  <1>4. SumFunction(Sizes) = 0
    BY SumOfNothing DEF Init, Sizes
  <1>5. FiniteBags
    BY <1>1, <1>2, FS_EmptySet DEF Init, FiniteBags
  <1>6. RegularTotals
    BY SizeAssumption DEF Init, RegularTotals
  <1>7. QED
    BY <1>2, <1>3, <1>4, <1>5, <1>6 DEF Init, AccountInv, Accounting

LEMMA RegularAdd ==
    ASSUME TypeOK, RegularTotals, NEW pfn, NEW size \in {1, THP},
           Count(pfn, size)
    PROVE  RegularTotals'
  <1>1. CASE size = 1
    BY <1>1, SizeAssumption DEF Count, RegularTotals, TypeOK
  <1>2. CASE size = THP
    <2>1. THP * (regular_2m + 1) = THP * regular_2m + THP
      BY SizeAssumption DEF TypeOK
    <2>2. /\ total' = total + THP /\ regular_2m' = regular_2m + 1
          /\ regular_4k' = regular_4k
      BY <1>2 DEF Count
    <2>3. THP * regular_2m \in Nat
      BY SizeAssumption DEF TypeOK
    <2>4. QED
      BY <2>1, <2>2, <2>3, SizeAssumption DEF RegularTotals, TypeOK
  <1>3. QED
    BY <1>1, <1>2

LEMMA SizesAdd ==
    ASSUME TypeOK, NEW pfn, NEW size \in Nat, Count(pfn, size)
    PROVE  SumFunction(Sizes') = SumFunction(Sizes) + size
  <1> DEFINE e == [vpn |-> vpn, pfn |-> pfn, size |-> size]
             n == Len(printed) + 1
  <1>1. /\ printed \in Seq([vpn : Nat, pfn : Frames, size : {1, THP}])
        /\ DOMAIN printed = 1 .. Len(printed) /\ Len(printed) \in Nat
    <2>1. printed \in Seq([vpn : Nat, pfn : Frames, size : {1, THP}])
      BY DEF TypeOK
    <2>2. QED
      BY <2>1
  <1>2. printed' = Append(printed, e)
    BY DEF Count
  <1>3. e.size = size
    OBVIOUS
  <1> HIDE DEF e
  <1>4. /\ DOMAIN printed' = DOMAIN printed \cup {n} /\ n \notin DOMAIN printed
        /\ \A i \in DOMAIN printed : printed'[i] = printed[i]
        /\ printed'[n] = e
    BY <1>1, <1>2
  <1>5. /\ DOMAIN Sizes = DOMAIN printed /\ DOMAIN Sizes' = DOMAIN printed'
        /\ \A i \in DOMAIN printed : Sizes[i] = printed[i].size
        /\ \A i \in DOMAIN printed' : Sizes'[i] = printed'[i].size
    BY DEF Sizes
  <1>6. \A i \in DOMAIN printed : printed[i].size \in Int
    BY PrintedTypes
  <1>7. \A i \in DOMAIN Sizes' : Sizes'[i] \in Int
    BY <1>3, <1>4, <1>5, <1>6
  <1>8. IsFiniteSet(DOMAIN Sizes)
    BY <1>1, <1>5, FS_Interval
  <1>9. SumFunction(Sizes') = SumFunction(Sizes) + Sizes'[n]
    BY <1>4, <1>5, <1>7, <1>8, SumOneMore
  <1>10. Sizes'[n] = size
    BY <1>3, <1>4, <1>5
  <1>11. QED
    BY <1>9, <1>10

LEMMA AccountPresent ==
    ASSUME TypeOK, AccountInv, NEW pfn \in Frames, NEW size \in {1, THP},
           Contiguity(pfn, size), Count(pfn, size)
    PROVE  AccountInv'
  <1>1. size \in Nat \ {0} /\ cur_virtual \in Nat /\ cur_range \in Nat
        /\ total \in Nat
    BY SizeAssumption DEF TypeOK
  <1>2. total' = total + size
    BY DEF Count
  <1>3. /\ IsBag(virtual_hist')
        /\ total' = SumBag(virtual_hist') + cur_virtual' - 1
    <2> DEFINE g == VirtualGoesOn
    <2>1. g \in BOOLEAN
      BY DEF VirtualGoesOn
    <2>2. /\ virtual_hist' = Recorded(g, virtual_hist, cur_virtual)
          /\ cur_virtual' = Grown(g, cur_virtual, size)
      BY DEF Contiguity
    <2> HIDE DEF g
    <2>3. /\ IsBag(virtual_hist')
          /\ SumBag(virtual_hist) \in Int /\ SumBag(virtual_hist') \in Int
          /\ SumBag(virtual_hist') + cur_virtual'
             = SumBag(virtual_hist) + cur_virtual + size
      BY <1>1, <2>1, <2>2, RunAdds DEF AccountInv, FiniteBags
    <2>4. total = SumBag(virtual_hist) + cur_virtual - 1
      BY DEF AccountInv, Accounting
    <2>5. cur_virtual' \in Nat
      BY <1>1, ContiguityTypes
    <2>6. QED
      BY <1>1, <1>2, <2>3, <2>4, <2>5
  <1>4. /\ IsBag(range_hist')
        /\ total' = SumBag(range_hist') + cur_range' - 1
    <2> DEFINE g == RangeGoesOn(pfn)
    <2>1. g \in BOOLEAN
      BY DEF RangeGoesOn
    <2>2. /\ range_hist' = Recorded(g, range_hist, cur_range)
          /\ cur_range' = Grown(g, cur_range, size)
      BY DEF Contiguity
    <2> HIDE DEF g
    <2>3. /\ IsBag(range_hist')
          /\ SumBag(range_hist) \in Int /\ SumBag(range_hist') \in Int
          /\ SumBag(range_hist') + cur_range'
             = SumBag(range_hist) + cur_range + size
      BY <1>1, <2>1, <2>2, RunAdds DEF AccountInv, FiniteBags
    <2>4. total = SumBag(range_hist) + cur_range - 1
      BY DEF AccountInv, Accounting
    <2>5. cur_range' \in Nat
      BY <1>1, ContiguityTypes
    <2>6. QED
      BY <1>1, <1>2, <2>3, <2>4, <2>5
  <1>5. /\ IsFiniteSet(DOMAIN offsets')
        /\ total' = SumFunction(offsets')
    <2> DEFINE x == vpn - pfn
    <2>1. offsets' = offsets (+) [o \in {x} |-> size]
      BY DEF Count
    <2>2. IsABag(offsets) /\ IsFiniteSet(DOMAIN offsets)
      BY DEF TypeOK, AccountInv, FiniteBags
    <2> HIDE DEF x
    <2>3. /\ IsFiniteSet(DOMAIN offsets')
          /\ SumFunction(offsets') = SumFunction(offsets) + size
      BY <1>1, <2>1, <2>2, OffsetsAdd
    <2>4. QED
      BY <1>2, <2>3 DEF AccountInv, Accounting
  <1>6. total' = SumFunction(Sizes')
    <2>1. SumFunction(Sizes') = SumFunction(Sizes) + size
      BY <1>1, SizesAdd
    <2>2. QED
      BY <1>2, <2>1 DEF AccountInv, Accounting
  <1>7. RegularTotals'
    BY RegularAdd DEF AccountInv, Accounting
  <1>8. QED
    BY <1>3, <1>4, <1>5, <1>6, <1>7 DEF AccountInv, FiniteBags, Accounting

LEMMA AccountStep == TypeOK /\ AccountInv /\ [Next]_vars => AccountInv'
  <1> SUFFICES ASSUME TypeOK, AccountInv, [Next]_vars
               PROVE  AccountInv'
    OBVIOUS
  <1>1. CASE PagePresent
    <2>1. PICK size \in {1, THP} :
              Contiguity(ReadWord, size) /\ Count(ReadWord, size)
      BY <1>1, SizeOfPresent
    <2>2. ReadWord \in Frames
      BY <1>1, ReadWordValue, WordIsFrame DEF PagePresent
    <2>3. QED
      BY <2>1, <2>2, AccountPresent
  <1>2. CASE ~PagePresent
    <2>1. UNCHANGED <<cur_virtual, cur_range, virtual_hist, range_hist, offsets,
                      total, regular_4k, regular_2m, printed>>
      BY <1>2 DEF Next, Collect, Open, StartVma, Finish, EndVma, PageAbsent,
                  FlagsFail, FlagsAbort, Remap, Exit, vars, runs, results
    <2>2. SumFunction(Sizes)' = SumFunction(Sizes)
      BY <2>1 DEF Sizes
    <2>3. QED
      BY <2>1, <2>2 DEF AccountInv, FiniteBags, Accounting, RegularTotals
  <1>3. QED
    BY <1>1, <1>2

\* Five ways to count the present pages agree, at every moment and whatever
\* reads and seeks fail: the total, the counters of small and huge pages, the
\* offsets, the pages printed, and the two histograms with their open runs,
\* less the phantom run the counters start with.
THEOREM AccountsAgree == Spec => []Accounting
  <1>1. AccountInv => Accounting
    BY DEF AccountInv
  <1>2. QED
    BY <1>1, AccountInit, AccountStep, TypeCorrect, PTL DEF Spec

\* The 4K and 2M counters make up total_present_pages, huge pages of which
\* count THP pages each.
THEOREM CountersAgree == Spec => []RegularTotals
  <1>1. Accounting => RegularTotals
    BY DEF Accounting
  <1>2. QED
    BY <1>1, AccountsAgree, PTL
-----------------------------------------------------------------------------
(* The cursor                                                              *)

\* num_pages and vpn keep the end of the VMA in common.
CursorInVma ==
    pc = "page" =>
        /\ line \in 1 .. Len(maps)
        /\ maps[line].start <= vpn
        /\ num_pages = VmEnd(line) - vpn

LEMMA CursorInit == Init => CursorInVma
  BY DEF Init, CursorInVma

LEMMA CursorStep == TypeOK /\ CursorInVma /\ [Next]_vars => CursorInVma'
  <1> SUFFICES ASSUME TypeOK, CursorInVma, [Next]_vars, pc' = "page"
               PROVE  CursorInVma'
    BY DEF CursorInVma
  <1>1. CASE StartVma
    <2>1. line' \in 1 .. Len(maps)
      BY <1>1 DEF StartVma, TypeOK
    <2>2. /\ maps' = maps /\ vpn' = maps[line'].start
          /\ num_pages' = maps[line'].pages
      BY <1>1 DEF StartVma, target
    <2>3. maps[line'].start \in Nat /\ maps[line'].pages \in Nat
      BY <2>1, VmaTypes
    <2>4. QED
      BY <2>1, <2>2, <2>3 DEF CursorInVma, VmEnd
  <1>2. CASE PageAbsent \/ PagePresent
    <2>1. PICK size \in Nat \ {0} : Advance(size)
      <3>1. CASE PageAbsent
        BY <3>1 DEF PageAbsent, TypeOK
      <3>2. CASE PagePresent
        BY <3>2, SizeOfPresent, SizeAssumption
      <3>3. QED
        BY <1>2, <3>1, <3>2
    <2>2. pc = "page" /\ UNCHANGED <<maps, line>>
      BY <1>2 DEF PageAbsent, PagePresent, target
    <2>3. vpn' = vpn + size /\ num_pages' = num_pages - size
      BY <2>1 DEF Advance
    <2>4. line \in 1 .. Len(maps) /\ VmEnd(line) \in Nat
          /\ maps[line].start \in Nat
      BY <2>2, VmaTypes DEF CursorInVma
    <2>5. VmEnd(line)' = VmEnd(line)
      BY <2>2 DEF VmEnd
    <2>6. /\ maps[line].start <= vpn /\ num_pages = VmEnd(line) - vpn
          /\ vpn \in Nat
      BY <2>2 DEF CursorInVma, TypeOK
    <2>7. line' \in 1 .. Len(maps') /\ line' = line /\ maps' = maps
      BY <2>2, <2>4
    <2>8. maps[line].start <= vpn' /\ num_pages' = VmEnd(line) - vpn'
      BY <2>3, <2>4, <2>6
    <2>9. QED
      BY <2>5, <2>7, <2>8 DEF CursorInVma
  <1>3. CASE ~(StartVma \/ PageAbsent \/ PagePresent)
    <2>1. pc = "page" /\ UNCHANGED <<maps, line, vpn, num_pages>>
      BY <1>3 DEF Next, Collect, Open, Finish, EndVma, FlagsFail,
                  FlagsAbort, Remap, Exit,
                  vars, target, cursor
    <2>2. QED
      BY <2>1 DEF CursorInVma, VmEnd
  <1>4. QED
    BY <1>1, <1>2, <1>3

\* The seeks behind huge pages and the seeks in kpageflags do not fail, and
\* the variable that is not initialised starts as the size of a page.
Steady ==
    /\ "jump" \notin Faults /\ "flagseek" \notin Faults
    /\ StaleSizes \subseteq {1, THP}

\* The position is that of vpn, or stands still at a page of the kernel while
\* vpn goes through the VMA of that page.
Synced ==
    (pc = "page" /\ num_pages > 0 /\ alive) =>
        pos = vpn \/ (pos \in Kernel /\ vpn \in Kernel)

InSync == current_page_size \in {1, THP} /\ Synced

LEMMA KernelVma ==
    ASSUME TypeOK, NEW i \in 1 .. Len(maps),
           NEW u \in maps[i].start .. VmEnd(i) - 1,
           NEW v \in maps[i].start .. VmEnd(i) - 1, u \in Kernel
    PROVE  v \in Kernel
  <1>1. maps \in Files /\ i \in DOMAIN maps
    <2>1. maps \in Seq([start : Nat \ {0, 1}, pages : Nat \ {0}])
      BY FileAssumption DEF TypeOK
    <2>2. QED
      BY <2>1 DEF TypeOK
  <1> DEFINE pages == maps[i].start .. maps[i].start + maps[i].pages - 1
  <1>2. pages \subseteq Kernel \/ pages \cap Kernel = {}
    BY <1>1, KernelAssumption
  <1>3. u \in pages /\ v \in pages
    BY VmaTypes DEF VmEnd
  <1> HIDE DEF pages
  <1>4. QED
    BY <1>2, <1>3

LEMMA SyncAdvance ==
    ASSUME TypeOK, CursorInVma, CursorInVma', Synced,
           pc = "page", num_pages > 0, UNCHANGED <<maps, alive, line, pc>>,
           NEW size \in {1, THP}, Advance(size),
           size = THP => "jump" \notin Faults
    PROVE  Synced'
  <1> SUFFICES ASSUME num_pages' > 0, alive'
               PROVE  pos' = vpn' \/ (pos' \in Kernel /\ vpn' \in Kernel)
    BY DEF Synced
  <1>0. num_pages \in Int /\ vpn \in Nat /\ size \in Nat /\ vpn' = vpn + size
        /\ num_pages' = num_pages - size
    BY SizeAssumption DEF TypeOK, Advance
  <1>1. CASE size = THP
    BY <1>0, <1>1, SizeAssumption DEF Advance
  <1>2. CASE size = 1
    <2>1. size # THP
      BY <1>2, SizeAssumption
    <2>2. pos' = Reposition
      BY <2>1 DEF Advance
    <2>3. CASE pos \notin Kernel
      BY <1>0, <1>2, <2>2, <2>3 DEF Synced, Reposition, Answers
    <2>4. CASE pos \in Kernel
      <3>1. vpn \in Kernel /\ pos' = pos
        BY <2>2, <2>4 DEF Synced, Reposition, Answers
      <3>2. /\ line \in 1 .. Len(maps) /\ maps[line].start <= vpn
            /\ num_pages = VmEnd(line) - vpn
            /\ maps[line].start \in Nat /\ VmEnd(line) \in Nat
        BY VmaTypes DEF CursorInVma
      <3>3. vpn \in maps[line].start .. VmEnd(line) - 1
            /\ vpn' \in maps[line].start .. VmEnd(line) - 1
        BY <1>0, <3>2
      <3>4. vpn' \in Kernel
        BY <3>1, <3>2, <3>3, KernelVma
      <3>5. QED
        BY <2>4, <3>1, <3>4
    <2>5. QED
      BY <2>3, <2>4
  <1>3. QED
    BY <1>1, <1>2

LEMMA SyncStep ==
    ASSUME Steady
    PROVE  TypeOK /\ CursorInVma /\ CursorInVma' /\ InSync /\ [Next]_vars
           => InSync'
  <1> SUFFICES ASSUME TypeOK, CursorInVma, CursorInVma', InSync, [Next]_vars
               PROVE  InSync'
    OBVIOUS
  <1>1. CASE StartVma
    <2>1. current_page_size' = current_page_size
          /\ (pc' = "page" => pos' = vpn')
      BY <1>1 DEF StartVma
    <2>2. QED
      BY <2>1 DEF InSync, Synced
  <1>2. CASE PageAbsent \/ PagePresent
    <2>1. PICK size \in {1, THP} : Advance(size)
      BY <1>2, SizeOfPresent DEF PageAbsent, InSync
    <2>2. pc = "page" /\ num_pages > 0 /\ UNCHANGED <<maps, alive, line, pc>>
      BY <1>2 DEF PageAbsent, PagePresent, target
    <2>3. Synced'
      BY <2>1, <2>2, SyncAdvance DEF InSync, Steady
    <2>4. QED
      BY <2>1, <2>3 DEF InSync, Advance
  <1>3. CASE ~(StartVma \/ PageAbsent \/ PagePresent)
    <2>1. UNCHANGED <<vpn, num_pages, current_page_size>>
          /\ (pc' = "page" => UNCHANGED pos)
      BY <1>3 DEF Next, Collect, Open, Finish, EndVma, FlagsFail,
                  FlagsAbort, Remap, Exit,
                  vars, cursor, Steady
    <2>2. (pc' = "page" => pc = "page") /\ (alive' => alive)
      BY <1>3, OtherSteps
    <2>3. QED
      BY <2>1, <2>2 DEF InSync, Synced
  <1>4. QED
    BY <1>1, <1>2, <1>3

\* Whenever a page is read that the page map has, the file position is that
\* of vpn, whatever mixture of present, absent and huge pages came before.
THEOREM CursorsAgree ==
    ASSUME Steady
    PROVE  Spec => []CursorInSync
  <1>1. Init => InSync
    BY DEF Init, InSync, Synced, Steady
  <1>2. CursorInVma /\ InSync => CursorInSync
    BY DEF CursorInVma, InSync, Synced, CursorInSync, Answers
  <1>3. QED
    BY <1>1, <1>2, SyncStep, CursorInit, CursorStep, TypeCorrect, PTL DEF Spec

\* A word in pa that is a page is that of the page counted last, however many
\* reads gave nothing since.
WordIsCounted == pc # "aborted" /\ pa # NotPresent => Repeated(pa)

LEMMA LastIsRepeated ==
    ASSUME TypeOK, PagePresent
    PROVE  /\ printed' # <<>>
           /\ printed'[Len(printed')].vpn = vpn
           /\ printed'[Len(printed')].pfn = ReadWord
  <1>1. PICK size \in {1, THP} : Count(ReadWord, size)
    BY SizeOfPresent
  <1> DEFINE e == [vpn |-> vpn, pfn |-> ReadWord, size |-> size]
  <1>2. printed' = Append(printed, e) /\ e.vpn = vpn /\ e.pfn = ReadWord
    BY <1>1 DEF Count
  <1>3. printed \in Seq([vpn : Nat, pfn : Frames, size : {1, THP}])
    BY DEF TypeOK
  <1> HIDE DEF e
  <1>4. QED
    BY <1>2, <1>3

LEMMA WordStep ==
    ASSUME Steady
    PROVE  TypeOK /\ WordIsCounted /\ [Next]_vars => WordIsCounted'
  <1> SUFFICES ASSUME TypeOK, WordIsCounted, [Next]_vars
               PROVE  WordIsCounted'
    OBVIOUS
  <1>1. CASE PagePresent
    BY <1>1, LastIsRepeated DEF WordIsCounted, Repeated, PagePresent
  <1>2. CASE PageAbsent
    BY <1>2 DEF WordIsCounted, PageAbsent
  <1>3. CASE FlagsAbort
    BY <1>3 DEF WordIsCounted, FlagsAbort
  <1>4. CASE ~(PagePresent \/ PageAbsent \/ FlagsAbort)
    <2>1. UNCHANGED <<pa, printed>> /\ (pc = "aborted" => pc' = "aborted")
      BY <1>4 DEF Next, Collect, Open, StartVma, Finish, EndVma, FlagsFail,
                  FlagsAbort,
                  Remap, Exit, vars, results, Steady
    <2>2. QED
      BY <2>1 DEF WordIsCounted, Repeated
  <1>5. QED
    BY <1>1, <1>2, <1>3, <1>4

\* A page of the living target is counted with the frame it is mapped to at
\* that moment, however the page table changes.  A page of a target that has
\* died, or of the kernel, is counted only with the frame of the page counted
\* last.
THEOREM CountedIsMapped ==
    ASSUME Steady
    PROVE  Spec => CountsWhatIsMapped
  <1>1. Init => InSync /\ WordIsCounted
    BY DEF Init, InSync, Synced, Steady, WordIsCounted, Repeated
  <1> DEFINE E == printed'[Len(printed')]
             Good == printed' # printed =>
                        IF alive /\ E.vpn \notin Kernel
                        THEN Mapped(E.vpn, E.pfn)
                        ELSE pa # NotPresent /\ Repeated(E.pfn)
  <1>2. ASSUME TypeOK, CursorInVma, InSync, WordIsCounted, [Next]_vars,
               printed' # printed
        PROVE  Good
    <2>1. PagePresent
      BY <1>2 DEF Next, Collect, Open, StartVma, Finish, EndVma, PageAbsent,
                  FlagsFail, FlagsAbort, Remap, Exit, vars, results
    <2>2. pc = "page" /\ num_pages > 0 /\ ReadWord # NotPresent
      BY <2>1 DEF PagePresent
    <2>3. E.vpn = vpn /\ E.pfn = ReadWord
      BY <1>2, <2>1, LastIsRepeated
    <2>4. CASE alive /\ vpn \notin Kernel
      <3>1. pos = vpn /\ Answers
        BY <1>2, <2>2, <2>4 DEF InSync, Synced, Answers
      <3>2. vpn \in Vpns /\ ReadWord = pt[vpn]
        BY <2>2, <3>1 DEF ReadWord, InTable
      <3>3. QED
        BY <2>3, <2>4, <3>2 DEF Mapped
    <2>5. CASE ~(alive /\ vpn \notin Kernel)
      <3>1. ~Answers
        BY <1>2, <2>2, <2>5 DEF InSync, Synced, Answers
      <3>2. ReadWord = pa
        BY <3>1 DEF ReadWord
      <3>3. QED
        BY <1>2, <2>2, <2>3, <2>5, <3>2 DEF WordIsCounted
    <2>6. QED
      BY <2>4, <2>5
  <1>3. TypeOK /\ CursorInVma /\ InSync /\ WordIsCounted /\ [Next]_vars
        => [Good]_vars
    BY <1>2
  <1>4. QED
    BY <1>1, <1>3, SyncStep, WordStep, CursorInit, CursorStep, TypeCorrect, PTL
    DEF Spec, CountsWhatIsMapped
-----------------------------------------------------------------------------
(* The order of the pages                                                  *)

\* The pages counted so far are behind vpn, and those of the current VMA end
\* there: with it PagesInOrder is inductive.
BehindCursor ==
    pc = "page" => \A i \in DOMAIN printed :
        /\ printed[i].vpn < vpn
        /\ maps[line].start <= printed[i].vpn
           => printed[i].vpn + printed[i].size <= vpn

OrderInv == CursorInVma /\ PagesInOrder /\ BehindCursor

LEMMA OrderStartVma ==
    ASSUME TypeOK, TypeOK', OrderInv, StartVma
    PROVE  PagesInOrder' /\ BehindCursor'
  <1>1. line \in Nat /\ line' = line + 1 /\ line' \in 1 .. Len(maps)
        /\ vpn' = maps[line'].start /\ UNCHANGED <<maps, printed>>
    BY DEF StartVma, TypeOK, target, results
  <1>2. \A k \in 1 .. Len(maps) :
            VmEnd(k)' = VmEnd(k) /\ VmEnd(k) \in Nat /\ maps[k].start \in Nat
    BY <1>1, VmaTypes DEF VmEnd
  <1>3. \A i \in DOMAIN printed : printed[i].vpn < maps[line'].start
    <2> SUFFICES ASSUME NEW i \in DOMAIN printed
                 PROVE  printed[i].vpn < maps[line'].start
      OBVIOUS
    <2>1. PICK k \in 1 .. line : printed[i].vpn \in maps[k].start .. VmEnd(k) - 1
      BY DEF OrderInv, PagesInOrder
    <2>2. k \in 1 .. Len(maps) /\ k < line'
      BY <1>1, <2>1
    <2>3. VmEnd(k) <= maps[line'].start
      BY <1>1, <2>2, VmasInOrder
    <2>4. QED
      BY <1>1, <1>2, <2>1, <2>2, <2>3, PrintedTypes
  <1>4. BehindCursor'
    BY <1>1, <1>2, <1>3, PrintedTypes DEF BehindCursor
  <1>5. ASSUME NEW i \in DOMAIN printed
        PROVE  \E k \in 1 .. line' :
                   printed[i].vpn \in maps[k].start .. VmEnd(k)' - 1
    <2>1. PICK k \in 1 .. line : printed[i].vpn \in maps[k].start .. VmEnd(k) - 1
      BY DEF OrderInv, PagesInOrder
    <2>2. k \in 1 .. line' /\ k \in 1 .. Len(maps)
      BY <1>1, <2>1
    <2>3. QED
      BY <1>2, <2>1, <2>2
  <1>6. ASSUME NEW i \in DOMAIN printed, NEW j \in DOMAIN printed, i < j
        PROVE  /\ printed[i].vpn < printed[j].vpn
               /\ \A k \in 1 .. line' :
                     (maps[k].start <= printed[i].vpn
                      /\ printed[j].vpn < VmEnd(k)')
                     => printed[i].vpn + printed[i].size <= printed[j].vpn
    <2>1. printed[i].vpn < printed[j].vpn
      BY <1>6 DEF OrderInv, PagesInOrder
    <2>2. ASSUME NEW k \in 1 .. line', maps[k].start <= printed[i].vpn,
                 printed[j].vpn < VmEnd(k)'
          PROVE  printed[i].vpn + printed[i].size <= printed[j].vpn
      <3>1. k # line'
        BY <1>1, <1>2, <1>3, <2>2, PrintedTypes
      <3>2. k \in 1 .. line /\ VmEnd(k)' = VmEnd(k)
        BY <1>1, <1>2, <3>1
      <3>3. QED
        BY <1>6, <2>2, <3>2 DEF OrderInv, PagesInOrder
    <2>3. QED
      BY <2>1, <2>2
  <1>7. PagesInOrder'
    BY <1>1, <1>5, <1>6 DEF PagesInOrder
  <1>8. QED
    BY <1>4, <1>7

LEMMA OrderPresent ==
    ASSUME TypeOK, TypeOK', OrderInv, PagePresent
    PROVE  PagesInOrder' /\ BehindCursor'
  <1>0. PICK size \in {1, THP} : Count(ReadWord, size) /\ Advance(size)
    BY SizeOfPresent
  <1> DEFINE e == [vpn |-> vpn, pfn |-> ReadWord, size |-> size]
             n == Len(printed) + 1
  <1>1. /\ pc = "page" /\ num_pages > 0 /\ UNCHANGED <<maps, line, pc>>
        /\ printed' = Append(printed, e)
        /\ vpn' = vpn + size
    BY <1>0 DEF PagePresent, Count, Advance, target
  <1>2. size \in Nat \ {0}
    BY SizeAssumption
  <1>3. /\ line \in 1 .. Len(maps) /\ maps[line].start <= vpn
        /\ num_pages = VmEnd(line) - vpn
    BY <1>1 DEF OrderInv, CursorInVma
  <1>4. \A k \in 1 .. Len(maps) :
            VmEnd(k)' = VmEnd(k) /\ VmEnd(k) \in Nat /\ maps[k].start \in Nat
    BY <1>1, VmaTypes DEF VmEnd
  <1>5. vpn \in Nat /\ vpn < VmEnd(line)
    <2>1. vpn \in Nat
      BY DEF TypeOK
    <2>2. VmEnd(line) \in Nat
      BY <1>3, <1>4
    <2>3. QED
      BY <1>1, <1>3, <2>1, <2>2
  <1>6. /\ printed \in Seq([vpn : Nat, pfn : Frames, size : {1, THP}])
        /\ DOMAIN printed = 1 .. Len(printed) /\ Len(printed) \in Nat
    <2>1. printed \in Seq([vpn : Nat, pfn : Frames, size : {1, THP}])
      BY DEF TypeOK
    <2>2. QED
      BY <2>1
  <1>7. DOMAIN printed' = DOMAIN printed \cup {n} /\ printed'[n] = e
        /\ \A i \in DOMAIN printed : printed'[i] = printed[i]
    BY <1>1, <1>6
  <1> HIDE DEF e
  <1>8. e.vpn = vpn /\ e.size = size
    BY DEF e
  <1>9. \A i \in DOMAIN printed : printed[i].vpn < vpn
    BY <1>1 DEF OrderInv, BehindCursor
  <1>10. BehindCursor'
    <2>1. ASSUME NEW i \in DOMAIN printed'
          PROVE  /\ printed'[i].vpn < vpn'
                 /\ maps[line].start <= printed'[i].vpn
                    => printed'[i].vpn + printed'[i].size <= vpn'
      <3>1. CASE i = n
        BY <1>1, <1>2, <1>5, <1>7, <1>8, <3>1
      <3>2. CASE i \in DOMAIN printed
        BY <1>1, <1>2, <1>5, <1>7, <3>2, PrintedTypes
        DEF OrderInv, BehindCursor
      <3>3. QED
        BY <1>7, <3>1, <3>2
    <2>2. QED
      BY <1>1, <2>1 DEF BehindCursor
  <1>11. ASSUME NEW i \in DOMAIN printed'
         PROVE  \E k \in 1 .. line :
                    printed'[i].vpn \in maps[k].start .. VmEnd(k)' - 1
    <2>1. CASE i = n
      <3>1. PICK k \in 1 .. line : k = line
        BY <1>3
      <3>2. VmEnd(k)' = VmEnd(k) /\ VmEnd(k) \in Nat /\ maps[k].start \in Nat
        BY <1>3, <1>4, <3>1
      <3>3. maps[k].start <= vpn /\ vpn < VmEnd(k)
        BY <1>3, <1>5, <3>1
      <3>4. vpn \in maps[k].start .. VmEnd(k)' - 1
        BY <1>5, <3>2, <3>3
      <3>5. printed'[i].vpn = vpn
        BY <1>7, <1>8, <2>1
      <3>6. QED
        BY <3>1, <3>4, <3>5
    <2>2. CASE i \in DOMAIN printed
      <3>1. PICK k \in 1 .. line :
                     printed[i].vpn \in maps[k].start .. VmEnd(k) - 1
        BY <2>2 DEF OrderInv, PagesInOrder
      <3>2. k \in 1 .. Len(maps)
        BY <1>3, <3>1
      <3>3. QED
        BY <1>4, <1>7, <2>2, <3>1, <3>2
    <2>3. QED
      BY <1>7, <2>1, <2>2
  <1>12. ASSUME NEW i \in DOMAIN printed', NEW j \in DOMAIN printed', i < j
         PROVE  /\ printed'[i].vpn < printed'[j].vpn
                /\ \A k \in 1 .. line :
                      (maps[k].start <= printed'[i].vpn
                       /\ printed'[j].vpn < VmEnd(k)')
                      => printed'[i].vpn + printed'[i].size <= printed'[j].vpn
    <2>1. i \in DOMAIN printed
      BY <1>6, <1>7, <1>12
    <2>2. CASE j \in DOMAIN printed
      <3>1. \A k \in 1 .. line : VmEnd(k)' = VmEnd(k)
        BY <1>3, <1>4
      <3>2. QED
        BY <1>7, <1>12, <2>1, <2>2, <3>1 DEF OrderInv, PagesInOrder
    <2>3. CASE j = n
      <3>1. printed'[i] = printed[i] /\ printed'[j].vpn = vpn
        BY <1>7, <1>8, <2>1, <2>3
      <3>2. ASSUME NEW k \in 1 .. line, maps[k].start <= printed[i].vpn,
                   vpn < VmEnd(k)'
            PROVE  printed[i].vpn + printed[i].size <= vpn
        <4>1. k = line
          <5>1. SUFFICES ASSUME k < line
                         PROVE  FALSE
            BY <1>3
          <5>2. k \in 1 .. Len(maps)
            BY <1>3
          <5>3. VmEnd(k) <= maps[line].start
            BY <1>3, <5>1, <5>2, VmasInOrder
          <5>4. QED
            BY <1>3, <1>4, <1>5, <3>2, <5>2, <5>3
        <4>2. QED
          BY <1>1, <2>1, <3>2, <4>1 DEF OrderInv, BehindCursor
      <3>3. QED
        BY <1>9, <2>1, <3>1, <3>2
    <2>4. QED
      BY <1>7, <2>2, <2>3
  <1>13. PagesInOrder'
    BY <1>1, <1>11, <1>12 DEF PagesInOrder
  <1>14. QED
    BY <1>10, <1>13

LEMMA OrderStep == TypeOK /\ TypeOK' /\ OrderInv /\ [Next]_vars => OrderInv'
  <1> SUFFICES ASSUME TypeOK, TypeOK', OrderInv, [Next]_vars
               PROVE  PagesInOrder' /\ BehindCursor'
    BY CursorStep DEF OrderInv
  <1>1. CASE StartVma
    BY <1>1, OrderStartVma
  <1>2. CASE PagePresent
    BY <1>2, OrderPresent
  <1>3. CASE ~(StartVma \/ PagePresent)
    <2>1. /\ UNCHANGED <<maps, line, printed>>
          /\ (pc' = "page" => pc = "page")
      BY <1>3 DEF Next, Collect, Open, Finish, EndVma, PageAbsent, FlagsFail,
                  FlagsAbort,
                  Remap, Exit, vars, target, results
    <2>2. PagesInOrder'
      BY <2>1 DEF OrderInv, PagesInOrder, VmEnd
    <2>3. pc = "page" => vpn \in Nat /\ vpn' \in Nat /\ vpn <= vpn'
      <3>1. CASE PageAbsent
        <4>1. current_page_size \in Nat \ {0} /\ vpn \in Nat
          BY DEF TypeOK
        <4>2. vpn' = vpn + current_page_size
          BY <3>1 DEF PageAbsent, Advance
        <4>3. QED
          BY <4>1, <4>2
      <3>2. CASE ~PageAbsent
        <4>1. UNCHANGED vpn
          BY <1>3, <3>2 DEF Next, Collect, Open, Finish, EndVma, FlagsFail,
                            FlagsAbort, Remap, Exit, vars, cursor
        <4>2. QED
          BY <4>1 DEF TypeOK
      <3>3. QED
        BY <3>1, <3>2
    <2>4. BehindCursor'
      BY <2>1, <2>3, PrintedTypes DEF OrderInv, BehindCursor
    <2>5. QED
      BY <2>2, <2>4
  <1>4. QED
    BY <1>1, <1>2, <1>3

\* The pages are counted in the order of their addresses, each in a VMA, and
\* within a VMA none is counted twice: a huge page ends before the next page,
\* also where reads fail, seeks fail, or the target changes or dies.
THEOREM PagesAreInOrder == Spec => []PagesInOrder
  <1>1. Init => OrderInv
    BY CursorInit DEF Init, OrderInv, PagesInOrder, BehindCursor
  <1>2. OrderInv => PagesInOrder
    BY DEF OrderInv
  <1>3. QED
    BY <1>1, <1>2, OrderStep, TypeCorrect, PTL DEF Spec
-----------------------------------------------------------------------------
(* Every small page                                                        *)

\* The seeks and reads that give a page up do not fail, those of the flags
\* included; the size that is not initialised is that of a small page.
Undisturbed ==
    /\ "seek" \notin Faults /\ "read" \notin Faults
    /\ "flagseek" \notin Faults /\ "flagread" \notin Faults
    /\ StaleSizes \subseteq {1}

\* Page v of the VMA k is behind the cursor.
Passed(k, v) == k < line \/ (k = line /\ (pc = "page" => v < vpn))

Due(k, v) == v \in maps[k].start .. VmEnd(k) - 1 /\ pt[v] # NotPresent

PassedAreCounted ==
    \A k \in 1 .. Len(maps), v \in Vpns :
        (Passed(k, v) /\ Due(k, v)) => Covered(v)

\* While the target lives and has the page table and the small pages that it
\* had, the cursor moves page by page, and all that is behind it has been
\* counted.
Same == alive /\ ~remapped /\ huge = {}

SmallInv ==
    Same => /\ pt \in Tables
            /\ current_page_size = 1
            /\ Synced
            /\ PassedAreCounted

LEMMA SmallStartVma ==
    ASSUME Undisturbed, TypeOK, SmallInv, StartVma
    PROVE  SmallInv'
  <1>1. /\ pc = "line" /\ pc' = "page" /\ line' = line + 1 /\ line \in Nat
        /\ vpn' = maps[line'].start /\ pos' = vpn'
        /\ line' \in 1 .. Len(maps)
        /\ UNCHANGED <<maps, pt, huge, alive, remapped, current_page_size,
                       printed>>
    BY DEF StartVma, Undisturbed, TypeOK, target, results
  <1>2. maps[line'].start \in Nat
    BY <1>1, VmaTypes
  <1>3. ASSUME Same, NEW k \in 1 .. Len(maps), NEW v \in Vpns,
               Passed(k, v)', Due(k, v)
        PROVE  Covered(v)
    <2>1. v \in Nat
      BY DEF TypeOK, Vpns
    <2>2. k # line'
      BY <1>1, <1>2, <1>3, <2>1 DEF Passed, Due
    <2>3. Passed(k, v)
      BY <1>1, <1>3, <2>2 DEF Passed
    <2>4. QED
      BY <1>3, <2>3 DEF SmallInv, PassedAreCounted
  <1>4. Same => PassedAreCounted'
    BY <1>1, <1>3 DEF PassedAreCounted, Due, Covered, Vpns, VmEnd
  <1>5. QED
    BY <1>1, <1>4 DEF SmallInv, Same, Synced

\* One page further, when that page is counted if it has to be.
LEMMA SmallPage ==
    ASSUME TypeOK, SmallInv, CursorInVma, CursorInVma', Same,
           Advance(1), pc = "page", num_pages > 0,
           UNCHANGED <<maps, pt, alive, line, pc>>,
           \A v \in Vpns : Covered(v) => Covered(v)',
           \A v \in Vpns : (v = vpn /\ pt[v] # NotPresent) => Covered(v)'
    PROVE  SmallInv'
  <1>1. 1 # THP
    BY SizeAssumption
  <1>2. current_page_size' = 1 /\ vpn' = vpn + 1
    BY DEF Advance
  <1>3. Synced'
    BY <1>1, SyncAdvance DEF SmallInv
  <1>4. vpn \in Nat
    BY DEF TypeOK
  <1>5. ASSUME NEW k \in 1 .. Len(maps), NEW v \in Vpns,
               Passed(k, v)', Due(k, v)
        PROVE  Covered(v)'
    <2>1. v \in Nat
      BY DEF TypeOK, Vpns
    <2>2. CASE v = vpn
      BY <1>5, <2>2 DEF Due
    <2>3. CASE v # vpn
      <3>1. Passed(k, v)
        BY <1>2, <1>4, <1>5, <2>1, <2>3 DEF Passed
      <3>2. Covered(v)
        BY <1>5, <3>1 DEF SmallInv, PassedAreCounted
      <3>3. QED
        BY <1>5, <3>2
    <2>4. QED
      BY <2>2, <2>3
  <1>6. PassedAreCounted'
    BY <1>5 DEF PassedAreCounted, Due, Vpns, VmEnd
  <1>7. pt' \in Tables
    BY DEF SmallInv
  <1>8. QED
    BY <1>2, <1>3, <1>6, <1>7 DEF SmallInv

LEMMA SmallPresent ==
    ASSUME Undisturbed, TypeOK, SmallInv, CursorInVma, CursorInVma', Same,
           PagePresent
    PROVE  SmallInv'
  <1> DEFINE e == [vpn |-> vpn, pfn |-> ReadWord, size |-> 1]
             n == Len(printed) + 1
  <1>1. /\ pc = "page" /\ num_pages > 0
        /\ UNCHANGED <<maps, pt, alive, line, pc>>
    BY DEF PagePresent, target
  <1>2. Advance(1) /\ printed' = Append(printed, e)
    <2>1. PICK thp \in ThpBits(ReadWord) :
              LET size == PageSize(thp, vpn, ReadWord)
              IN  Count(ReadWord, size) /\ Advance(size)
      BY DEF PagePresent
    <2>2. ~thp
      BY <2>1 DEF ThpBits, Undisturbed, Same
    <2>3. PageSize(thp, vpn, ReadWord) = 1
      BY <2>2 DEF PageSize
    <2>4. QED
      BY <2>1, <2>3 DEF Count
  <1>3. e.vpn = vpn /\ e.size = 1
    OBVIOUS
  <1> HIDE DEF e
  <1>4. /\ n \in DOMAIN printed' /\ printed'[n] = e
        /\ \A i \in DOMAIN printed :
               i \in DOMAIN printed' /\ printed'[i] = printed[i]
    <2>1. printed \in Seq([vpn : Nat, pfn : Frames, size : {1, THP}])
      BY DEF TypeOK
    <2>2. QED
      BY <1>2, <2>1
  <1>5. \A v \in Vpns : Covered(v) => Covered(v)'
    BY <1>4 DEF Covered
  <1>6. \A v \in Vpns : v = vpn => Covered(v)'
    <2>1. vpn \in vpn .. vpn + 1 - 1
      BY DEF TypeOK
    <2>2. \E i \in DOMAIN printed' :
             vpn \in printed'[i].vpn .. printed'[i].vpn + printed'[i].size - 1
      BY <1>3, <1>4, <2>1
    <2>3. QED
      BY <2>2 DEF Covered
  <1>7. QED
    BY <1>1, <1>2, <1>5, <1>6, SmallPage

LEMMA SmallAbsent ==
    ASSUME TypeOK, SmallInv, CursorInVma, CursorInVma', Same, PageAbsent
    PROVE  SmallInv'
  <1>1. /\ pc = "page" /\ num_pages > 0 /\ ReadWord = NotPresent
        /\ UNCHANGED <<maps, pt, alive, line, pc, printed>>
    BY DEF PageAbsent, target, results
  <1>2. Advance(1)
    BY DEF PageAbsent, SmallInv
  <1>3. ASSUME vpn \in Vpns
        PROVE  pt[vpn] = NotPresent
    <2>1. vpn \notin Kernel
      BY <1>3, KernelAssumption DEF SmallInv, Vpns
    <2>2. pos = vpn /\ Answers
      BY <1>1, <2>1 DEF SmallInv, Same, Synced, Answers
    <2>3. QED
      BY <1>1, <1>3, <2>2 DEF ReadWord, InTable
  <1>4. \A v \in Vpns : Covered(v) => Covered(v)'
    BY <1>1 DEF Covered
  <1>5. QED
    BY <1>1, <1>2, <1>3, <1>4, SmallPage

LEMMA SmallEndVma ==
    ASSUME Undisturbed, TypeOK, CursorInVma, SmallInv, EndVma
    PROVE  SmallInv'
  <1>1. /\ pc = "page" /\ num_pages <= 0 /\ pc' = "line"
        /\ UNCHANGED <<maps, pt, huge, alive, remapped, line, vpn,
                       current_page_size, printed>>
    BY DEF EndVma, Undisturbed, target, cursor, results
  <1>2. /\ line \in 1 .. Len(maps) /\ num_pages = VmEnd(line) - vpn
        /\ VmEnd(line) \in Nat /\ vpn \in Nat
    BY <1>1, VmaTypes DEF CursorInVma, TypeOK
  <1>3. VmEnd(line) <= vpn
    BY <1>1, <1>2
  <1>4. ASSUME Same, NEW k \in 1 .. Len(maps), NEW v \in Vpns,
               Passed(k, v)', Due(k, v)
        PROVE  Covered(v)
    <2>1. v \in Nat /\ maps[k].start \in Nat /\ VmEnd(k) \in Nat
      BY VmaTypes DEF TypeOK, Vpns
    <2>2. v < VmEnd(k)
      BY <1>4, <2>1 DEF Due
    <2>3. Passed(k, v)
      BY <1>1, <1>2, <1>3, <1>4, <2>1, <2>2 DEF Passed
    <2>4. QED
      BY <1>4, <2>3 DEF SmallInv, PassedAreCounted
  <1>5. Same => PassedAreCounted'
    BY <1>1, <1>4 DEF PassedAreCounted, Due, Covered, Vpns, VmEnd
  <1>6. QED
    BY <1>1, <1>5 DEF SmallInv, Same, Synced

LEMMA SmallOther ==
    ASSUME TypeOK, SmallInv, Open \/ Finish \/ UNCHANGED vars
    PROVE  SmallInv'
  <1>1. /\ UNCHANGED <<maps, pt, huge, alive, remapped, line, pos, vpn,
                       num_pages, current_page_size, printed>>
        /\ pc' = "page" <=> pc = "page"
    BY DEF Open, Finish, vars, target, cursor, results
  <1>2. PassedAreCounted => PassedAreCounted'
    BY <1>1 DEF PassedAreCounted, Passed, Due, Covered, Vpns, VmEnd
  <1>3. QED
    BY <1>1, <1>2 DEF SmallInv, Same, Synced

LEMMA SmallStep ==
    ASSUME Undisturbed
    PROVE  TypeOK /\ CursorInVma /\ CursorInVma' /\ SmallInv /\ [Next]_vars
           => SmallInv'
  <1> SUFFICES ASSUME TypeOK, CursorInVma, CursorInVma', SmallInv, [Next]_vars
               PROVE  SmallInv'
    OBVIOUS
  <1>1. CASE Remap \/ Exit
    BY <1>1 DEF Remap, Exit, SmallInv, Same
  <1>2. CASE PagePresent \/ PageAbsent
    <2>1. Same' => Same
      BY <1>2 DEF PagePresent, PageAbsent, target, Same
    <2>2. CASE Same
      BY <1>2, <2>2, SmallPresent, SmallAbsent
    <2>3. CASE ~Same
      BY <2>1, <2>3 DEF SmallInv
    <2>4. QED
      BY <2>2, <2>3
  <1>3. ~FlagsFail /\ ~FlagsAbort
    BY DEF Undisturbed, FlagsFail, FlagsAbort
  <1>4. QED
    BY <1>1, <1>2, <1>3, SmallStartVma, SmallEndVma, SmallOther
    DEF Next, Collect

LEMMA SmallDone ==
    ASSUME TypeOK, SmallInv
    PROVE  EverySmallPageCounted
  <1> SUFFICES ASSUME Same, pc = "done", line = Len(maps),
                      NEW k \in DOMAIN maps, NEW v \in Vpns, Due(k, v)
               PROVE  Covered(v)
    BY DEF EverySmallPageCounted, EveryPresentPageCounted, Due, Same
  <1>1. maps \in Seq([start : Nat \ {0, 1}, pages : Nat \ {0}])
    BY FileAssumption DEF TypeOK
  <1>2. k \in 1 .. Len(maps) /\ k <= line
    BY <1>1
  <1>3. Passed(k, v)
    BY <1>2 DEF Passed
  <1>4. QED
    BY <1>2, <1>3 DEF SmallInv, PassedAreCounted

\* Whatever may happen to targets: in one that lives, did not change and has
\* no huge pages the collector counts every page that is mapped, in every VMA,
\* holes or not: the size that a page that is not present inherits from the
\* one before is that of a small page.  (With huge pages it skips pages, as
\* the run PageCollect_hole shows.)
THEOREM SmallPagesAreCounted ==
    ASSUME Undisturbed
    PROVE  Spec => []EverySmallPageCounted
  <1>1. Init => SmallInv
    <2> SUFFICES ASSUME Init
                 PROVE  SmallInv
      OBVIOUS
    <2>1. PassedAreCounted
      BY DEF Init, PassedAreCounted, Passed
    <2>2. QED
      BY <2>1 DEF Init, SmallInv, Synced, Undisturbed
  <1>2. QED
    BY <1>1, SmallStep, SmallDone, CursorInit, CursorStep, TypeCorrect, PTL
    DEF Spec
-----------------------------------------------------------------------------
(* Runs                                                                    *)

\* A run of the pages p, for the starts S: j is the last page of the run that
\* starts at i.
EndsAt(p, S, i, j) ==
    /\ i <= j /\ (i + 1) .. j \cap S = {}
    /\ j = Len(p) \/ j + 1 \in S
LastOf(p, S, i) == CHOOSE j \in DOMAIN p : EndsAt(p, S, i, j)
LengthOf(p, S, i) ==
    p[LastOf(p, S, i)].vpn + p[LastOf(p, S, i)].size - p[i].vpn
RunLengths(p, S) == [i \in S |-> LengthOf(p, S, i)]

Pages == Seq([vpn : Nat, pfn : Frames, size : {1, THP}])

LEMMA LengthsAreRunLengths ==
    ASSUME NEW S
    PROVE  Lengths(S) = BagOf(RunLengths(printed, S), S)
  <1> DEFINE f == RunLengths(printed, S)
             length(i) == LengthOf(printed, S, i)
  <1>1. Lengths(S) = [n \in {length(i) : i \in S} |->
                          Cardinality({i \in S : length(i) = n})]
    BY DEF Lengths, LengthOf, LastOf, EndsAt
  <1>2. \A i \in S : f[i] = length(i)
    BY DEF RunLengths
  <1> HIDE DEF f, length
  <1>3. {length(i) : i \in S} = {f[i] : i \in S}
        /\ \A n : {i \in S : length(i) = n} = {i \in S : f[i] = n}
    BY <1>2
  <1>4. Lengths(S) = [n \in {f[i] : i \in S} |->
                          Cardinality({i \in S : f[i] = n})]
    BY <1>1, <1>3
  <1>5. QED
    BY <1>4 DEF BagOf, f

\* A run ends, and only once.
LEMMA RunEnds ==
    ASSUME NEW p \in Pages, NEW S, NEW i \in 1 .. Len(p)
    PROVE  \E j \in 1 .. Len(p) : EndsAt(p, S, i, j)
  <1> DEFINE T == {j \in i .. Len(p) : j = Len(p) \/ j + 1 \in S}
  <1>1. Len(p) \in Nat
    BY DEF Pages
  <1>2. T \subseteq Nat /\ Len(p) \in T
    BY <1>1
  <1> HIDE DEF T
  <1>3. \E j \in T : \A k \in T : j <= k
    BY <1>2, LeastNumber
  <1>4. PICK j \in T : \A k \in T : j <= k
    BY <1>3
  <1> USE DEF T
  <1>5. \A k \in (i + 1) .. j : k \notin S
    <2> SUFFICES ASSUME NEW k \in (i + 1) .. j, k \in S
                 PROVE  FALSE
      OBVIOUS
    <2>1. j \in Int /\ k - 1 \in i .. Len(p) /\ (k - 1) + 1 = k
      BY <1>1
    <2>2. k - 1 \in T
      BY <2>1
    <2>3. j <= k - 1
      BY <1>4, <2>2
    <2>4. QED
      BY <2>1, <2>3
  <1>6. j \in 1 .. Len(p) /\ i <= j /\ (j = Len(p) \/ j + 1 \in S)
    BY <1>1
  <1> HIDE DEF T
  <1>7. QED
    BY <1>5, <1>6 DEF EndsAt

LEMMA RunEndsOnce ==
    ASSUME NEW p \in Pages, NEW S, NEW i \in 1 .. Len(p),
           NEW j \in 1 .. Len(p), NEW k \in 1 .. Len(p),
           EndsAt(p, S, i, j), EndsAt(p, S, i, k)
    PROVE  j = k
  <1>1. Len(p) \in Nat
    BY DEF Pages
  <1>2. ASSUME NEW a \in 1 .. Len(p), NEW b \in 1 .. Len(p), a < b,
               EndsAt(p, S, i, a), EndsAt(p, S, i, b)
        PROVE  FALSE
    <2>1. a # Len(p)
      BY <1>1, <1>2
    <2>2. a + 1 \in S /\ i <= a
      BY <1>2, <2>1 DEF EndsAt
    <2>3. a + 1 \in (i + 1) .. b
      BY <1>1, <1>2, <2>2
    <2>4. (i + 1) .. b \cap S = {}
      BY <1>2 DEF EndsAt
    <2>5. QED
      BY <2>2, <2>3, <2>4
  <1>3. j < k \/ k < j \/ j = k
    BY <1>1
  <1>4. QED
    BY <1>2, <1>3

LEMMA LastIs ==
    ASSUME NEW p \in Pages, NEW S, NEW i \in 1 .. Len(p),
           NEW j \in 1 .. Len(p), EndsAt(p, S, i, j)
    PROVE  LastOf(p, S, i) = j
  <1>1. DOMAIN p = 1 .. Len(p)
    BY DEF Pages
  <1>2. \A k \in 1 .. Len(p) : EndsAt(p, S, i, k) => k = j
    BY RunEndsOnce
  <1>3. QED
    BY <1>1, <1>2 DEF LastOf

\* A run that is not the last one ends before the start of another.
LEMMA RunKept ==
    ASSUME NEW p \in Pages, NEW S, NEW q \in Pages, NEW T,
           Len(q) = Len(p) + 1, \A k \in 1 .. Len(p) : q[k] = p[k],
           T \cap 1 .. Len(p) = S, NEW i \in S,
           LastOf(p, S, i) + 1 \in T
    PROVE  LengthOf(q, T, i) = LengthOf(p, S, i)
  <1> DEFINE j == LastOf(p, S, i)
  <1>1. Len(p) \in Nat /\ DOMAIN p = 1 .. Len(p) /\ i \in 1 .. Len(p)
    <2>1. Len(p) \in Nat /\ DOMAIN p = 1 .. Len(p)
      BY DEF Pages
    <2>2. QED
      BY <2>1
  <1>2. \E k \in DOMAIN p : EndsAt(p, S, i, k)
    BY <1>1, RunEnds
  <1>3. j \in 1 .. Len(p) /\ EndsAt(p, S, i, j)
    BY <1>1, <1>2 DEF LastOf
  <1> HIDE DEF j
  <1>4. (i + 1) .. j \cap T = {}
    <2>1. (i + 1) .. j \cap S = {}
      BY <1>3 DEF EndsAt
    <2>2. \A k \in (i + 1) .. j : k \in 1 .. Len(p)
      BY <1>1, <1>3
    <2>3. \A k \in 1 .. Len(p) : k \in T => k \in S
      OBVIOUS
    <2>4. QED
      BY <2>1, <2>2, <2>3
  <1>5. j + 1 \in T
    BY DEF j
  <1>6. EndsAt(q, T, i, j)
    BY <1>3, <1>4, <1>5 DEF EndsAt
  <1>7. LastOf(q, T, i) = j
    BY <1>1, <1>3, <1>6, LastIs
  <1>8. q[j] = p[j] /\ q[i] = p[i]
    BY <1>1, <1>3
  <1>9. QED
    BY <1>7, <1>8 DEF LengthOf, j

\* m is the start of the run that is still open.
OpenAt(p, S, m) == m \in S /\ (m + 1) .. Len(p) \cap S = {}

\* The histogram has the runs that are over, and the phantom run.
RunInv(p, S, hist, cur) ==
    IF p = <<>> THEN hist = EmptyBag /\ cur = 1
    ELSE \E m \in S :
             /\ OpenAt(p, S, m)
             /\ cur = LengthOf(p, S, m)
             /\ hist = BagAdd(BagOf(RunLengths(p, S), S \ {m}), 1)

LEMMA OpenEndsLast ==
    ASSUME NEW p \in Pages, NEW S, S \subseteq 1 .. Len(p), NEW m,
           OpenAt(p, S, m)
    PROVE  LastOf(p, S, m) = Len(p)
  <1>1. Len(p) \in Nat /\ m \in 1 .. Len(p) /\ m \in Int
    BY DEF Pages, OpenAt
  <1>2. Len(p) \in 1 .. Len(p)
    BY <1>1
  <1>3. EndsAt(p, S, m, Len(p))
    BY <1>1 DEF OpenAt, EndsAt
  <1>4. QED
    BY <1>1, <1>2, <1>3, LastIs

LEMMA LastInPages ==
    ASSUME NEW p \in Pages, NEW S, NEW i \in 1 .. Len(p)
    PROVE  LastOf(p, S, i) \in 1 .. Len(p) /\ EndsAt(p, S, i, LastOf(p, S, i))
  <1>1. DOMAIN p = 1 .. Len(p)
    BY DEF Pages
  <1>2. \E k \in DOMAIN p : EndsAt(p, S, i, k)
    BY <1>1, RunEnds
  <1>3. QED
    BY <1>1, <1>2 DEF LastOf

\* The other runs are over: the start of a run follows them.
LEMMA OthersAreOver ==
    ASSUME NEW p \in Pages, NEW S, S \subseteq 1 .. Len(p), NEW m,
           OpenAt(p, S, m), NEW i \in S \ {m}
    PROVE  LastOf(p, S, i) + 1 \in S
  <1>1. Len(p) \in Nat /\ m \in 1 .. Len(p) /\ i \in 1 .. Len(p)
    BY DEF Pages, OpenAt
  <1>2. EndsAt(p, S, i, LastOf(p, S, i))
    BY <1>1, LastInPages
  <1>3. ASSUME LastOf(p, S, i) = Len(p)
        PROVE  FALSE
    <2>1. (i + 1) .. Len(p) \cap S = {} /\ (m + 1) .. Len(p) \cap S = {}
      BY <1>2, <1>3 DEF EndsAt, OpenAt
    <2>2. m \in (i + 1) .. Len(p) \/ i \in (m + 1) .. Len(p)
      BY <1>1
    <2>3. m \in S /\ i \in S
      BY DEF OpenAt
    <2>4. QED
      BY <2>1, <2>2, <2>3
  <1>4. QED
    BY <1>2, <1>3 DEF EndsAt

LEMMA PagesAppend ==
    ASSUME NEW p \in Pages, NEW e \in [vpn : Nat, pfn : Frames, size : {1, THP}]
    PROVE  /\ Append(p, e) \in Pages /\ Len(Append(p, e)) = Len(p) + 1
           /\ Append(p, e) # <<>> /\ Append(p, e)[Len(p) + 1] = e
           /\ \A k \in 1 .. Len(p) : Append(p, e)[k] = p[k]
           /\ Len(p) \in Nat
  BY DEF Pages

LEMMA PagesTypes ==
    ASSUME NEW p \in Pages, NEW k \in 1 .. Len(p)
    PROVE  p[k] \in [vpn : Nat, pfn : Frames, size : {1, THP}]
  BY ElementOfSeq DEF Pages

\* A page that continues the open run.
LEMMA RunGrows ==
    ASSUME NEW p \in Pages, p # <<>>, NEW S, S \subseteq 1 .. Len(p),
           NEW hist, NEW cur, RunInv(p, S, hist, cur),
           NEW e \in [vpn : Nat, pfn : Frames, size : {1, THP}],
           e.vpn = p[Len(p)].vpn + p[Len(p)].size
    PROVE  RunInv(Append(p, e), S, hist, cur + e.size)
  <1> DEFINE q == Append(p, e)
             n == Len(p)
  <1>1. /\ q \in Pages /\ Len(q) = n + 1 /\ q # <<>> /\ q[n + 1] = e
        /\ \A k \in 1 .. n : q[k] = p[k]
        /\ n \in Nat
    BY PagesAppend
  <1> HIDE DEF q
  <1>2. PICK m \in S : /\ OpenAt(p, S, m) /\ cur = LengthOf(p, S, m)
                       /\ hist = BagAdd(BagOf(RunLengths(p, S), S \ {m}), 1)
    BY DEF RunInv
  <1>3. m \in 1 .. n /\ n \in 1 .. n /\ S \cap 1 .. n = S
    <2>1. m \in 1 .. n
      OBVIOUS
    <2>2. n \in 1 .. n
      BY <1>1, <2>1
    <2>3. QED
      BY <2>1, <2>2
  <1>4. OpenAt(q, S, m) /\ S \subseteq 1 .. Len(q)
    <2>1. \A k \in S : k \in 1 .. n /\ k \notin (m + 1) .. n
      BY <1>2 DEF OpenAt
    <2>2. \A k \in S : k \notin (m + 1) .. (n + 1)
      BY <1>1, <1>3, <2>1
    <2>3. S \subseteq 1 .. n + 1
      BY <1>1
    <2>4. QED
      BY <1>1, <2>2, <2>3 DEF OpenAt
  <1>5. LastOf(p, S, m) = n /\ LastOf(q, S, m) = n + 1
    BY <1>1, <1>2, <1>4, OpenEndsLast
  <1>6. LengthOf(q, S, m) = cur + e.size
    <2>1. p[n] \in [vpn : Nat, pfn : Frames, size : {1, THP}]
          /\ p[m] \in [vpn : Nat, pfn : Frames, size : {1, THP}]
      BY <1>3, PagesTypes
    <2>2. /\ p[n].vpn \in Nat /\ p[n].size \in Nat /\ p[m].vpn \in Nat
          /\ e.size \in Nat
      BY <2>1, SizeAssumption
    <2>3. LengthOf(p, S, m) = p[n].vpn + p[n].size - p[m].vpn
      BY <1>5 DEF LengthOf
    <2>4. LengthOf(q, S, m) = e.vpn + e.size - p[m].vpn
      BY <1>1, <1>3, <1>5 DEF LengthOf
    <2>5. QED
      BY <1>2, <2>2, <2>3, <2>4
  <1>7. ASSUME NEW i \in S \ {m}
        PROVE  LengthOf(q, S, i) = LengthOf(p, S, i)
    <2>1. LastOf(p, S, i) + 1 \in S
      BY <1>2, OthersAreOver
    <2>2. QED
      BY <1>1, <1>3, <2>1, RunKept
  <1>8. BagOf(RunLengths(q, S), S \ {m}) = BagOf(RunLengths(p, S), S \ {m})
    <2>1. \A i \in S \ {m} : RunLengths(q, S)[i] = RunLengths(p, S)[i]
      BY <1>7 DEF RunLengths
    <2>2. QED
      BY <2>1, BagOfSame
  <1>9. QED
    BY <1>1, <1>2, <1>4, <1>6, <1>8 DEF RunInv, q

\* A page that starts a run: the open one is recorded.
LEMMA RunStarts ==
    ASSUME NEW p \in Pages, p # <<>>, NEW S, S \subseteq 1 .. Len(p),
           NEW hist, NEW cur, RunInv(p, S, hist, cur),
           NEW e \in [vpn : Nat, pfn : Frames, size : {1, THP}]
    PROVE  RunInv(Append(p, e), S \cup {Len(p) + 1}, BagAdd(hist, cur), e.size)
  <1> DEFINE q == Append(p, e)
             n == Len(p)
             T == S \cup {n + 1}
  <1>1. /\ q \in Pages /\ Len(q) = n + 1 /\ q # <<>> /\ q[n + 1] = e
        /\ \A k \in 1 .. n : q[k] = p[k]
        /\ n \in Nat
    BY PagesAppend
  <1> HIDE DEF q
  <1>2. PICK m \in S : /\ OpenAt(p, S, m) /\ cur = LengthOf(p, S, m)
                       /\ hist = BagAdd(BagOf(RunLengths(p, S), S \ {m}), 1)
    BY DEF RunInv
  <1>3. /\ n + 1 \notin S /\ T \subseteq 1 .. Len(q) /\ n + 1 \in T
        /\ T \cap 1 .. n = S /\ T \ {n + 1} = S
    <2>1. n + 1 \notin 1 .. n /\ 1 .. n \cup {n + 1} = 1 .. n + 1
      BY <1>1
    <2>2. n + 1 \notin S /\ n + 1 \in T /\ T \cap 1 .. n = S
          /\ T \ {n + 1} = S
      BY <2>1
    <2>3. T \subseteq 1 .. n + 1
      BY <2>1
    <2>4. QED
      BY <1>1, <2>2, <2>3
  <1>4. OpenAt(q, T, n + 1)
    BY <1>1, <1>3 DEF OpenAt
  <1>5. LengthOf(q, T, n + 1) = e.size
    <2>1. LastOf(q, T, n + 1) = n + 1
      BY <1>1, <1>3, <1>4, OpenEndsLast
    <2>2. LengthOf(q, T, n + 1) = e.vpn + e.size - e.vpn
      BY <1>1, <2>1 DEF LengthOf
    <2>3. e.vpn \in Nat /\ e.size \in Nat
      BY SizeAssumption
    <2>4. QED
      BY <2>2, <2>3
  <1>6. ASSUME NEW i \in S
        PROVE  LengthOf(q, T, i) = LengthOf(p, S, i)
    <2>1. i \in 1 .. n
      OBVIOUS
    <2>2. EndsAt(p, S, i, LastOf(p, S, i))
      BY <2>1, LastInPages
    <2>3. LastOf(p, S, i) + 1 \in T
      BY <2>2 DEF EndsAt
    <2> HIDE DEF T
    <2>4. QED
      BY <1>1, <1>3, <2>3, RunKept
  <1> HIDE DEF T
  <1>7. \A i \in S : RunLengths(q, T)[i] = RunLengths(p, S)[i]
    BY <1>3, <1>6 DEF RunLengths
  <1>8. BagOf(RunLengths(q, T), S) = BagOf(RunLengths(p, S), S)
    BY <1>7, BagOfSame
  <1>9. BagOf(RunLengths(p, S), S)
          = BagAdd(BagOf(RunLengths(p, S), S \ {m}), cur)
    <2>1. IsFiniteSet(S \ {m})
      <3>1. IsFiniteSet(1 .. n)
        BY <1>1, FS_Interval
      <3>2. QED
        BY <3>1, FS_Subset
    <2>2. (S \ {m}) \cup {m} = S /\ m \notin S \ {m}
      OBVIOUS
    <2>3. RunLengths(p, S)[m] = cur
      BY <1>2 DEF RunLengths
    <2>4. QED
      BY <2>1, <2>2, <2>3, BagOfAdd
  <1>10. BagAdd(hist, cur) = BagAdd(BagOf(RunLengths(q, T), T \ {n + 1}), 1)
    <2> DEFINE A == BagOf(RunLengths(p, S), S \ {m})
    <2>1. hist = BagAdd(A, 1)
      BY <1>2
    <2>2. BagOf(RunLengths(q, T), T \ {n + 1}) = BagAdd(A, cur)
      BY <1>3, <1>8, <1>9
    <2> HIDE DEF A
    <2>3. BagAdd(BagAdd(A, 1), cur) = BagAdd(BagAdd(A, cur), 1)
      BY BagAddCommutes
    <2>4. QED
      BY <2>1, <2>2, <2>3
  <1>11. QED
    BY <1>1, <1>3, <1>4, <1>5, <1>10 DEF RunInv, q, T

\* The first page: the phantom run is recorded.
LEMMA RunBegins ==
    ASSUME NEW hist, NEW cur, RunInv(<<>>, {}, hist, cur),
           NEW e \in [vpn : Nat, pfn : Frames, size : {1, THP}]
    PROVE  RunInv(Append(<<>>, e), {1}, BagAdd(hist, cur), e.size)
  <1> DEFINE q == Append(<<>>, e)
             T == {1}
  <1>1. q \in Pages /\ Len(q) = 1 /\ q # <<>> /\ q[1] = e
    BY DEF Pages
  <1> HIDE DEF q
  <1>2. OpenAt(q, T, 1) /\ T \subseteq 1 .. Len(q)
    BY <1>1 DEF OpenAt
  <1>3. LastOf(q, T, 1) = 1
    BY <1>1, <1>2, OpenEndsLast
  <1>4. LengthOf(q, T, 1) = e.size
    <2>1. LengthOf(q, T, 1) = e.vpn + e.size - e.vpn
      BY <1>1, <1>3 DEF LengthOf
    <2>2. e.vpn \in Nat /\ e.size \in Nat
      BY SizeAssumption
    <2>3. QED
      BY <2>1, <2>2
  <1>5. BagAdd(hist, cur) = BagAdd(BagOf(RunLengths(q, T), T \ {1}), 1)
    <2>1. T \ {1} = {} /\ hist = EmptyBag /\ cur = 1
      BY DEF RunInv
    <2>2. EmptyBag = [x \in {} |-> 1]
      BY DEF EmptyBag, SetToBag
    <2>3. QED
      BY <2>1, <2>2, BagOfNothing
  <1>6. QED
    BY <1>1, <1>2, <1>4, <1>5 DEF RunInv, q

\* With the open run, the histogram has all runs.
StartsOf(p, S) == S \subseteq 1 .. Len(p)

LEMMA RunsTogether ==
    ASSUME NEW p \in Pages, NEW S, StartsOf(p, S), NEW hist, NEW cur,
           RunInv(p, S, hist, cur)
    PROVE  BagAdd(hist, cur) = BagAdd(BagOf(RunLengths(p, S), S), 1)
  <1>1. CASE p = <<>>
    <2>1. S = {} /\ hist = EmptyBag /\ cur = 1
      <3>1. Len(p) = 0
        BY <1>1
      <3>2. S = {}
        BY <3>1 DEF StartsOf
      <3>3. QED
        BY <1>1, <3>2 DEF RunInv
    <2>2. EmptyBag = [x \in {} |-> 1]
      BY DEF EmptyBag, SetToBag
    <2>3. QED
      BY <2>1, <2>2, BagOfNothing
  <1>2. CASE p # <<>>
    <2>1. PICK m \in S : /\ OpenAt(p, S, m) /\ cur = LengthOf(p, S, m)
                         /\ hist = BagAdd(BagOf(RunLengths(p, S), S \ {m}), 1)
      BY <1>2 DEF RunInv
    <2>2. IsFiniteSet(S \ {m})
      <3>1. Len(p) \in Nat
        BY DEF Pages
      <3>2. IsFiniteSet(1 .. Len(p))
        BY <3>1, FS_Interval
      <3>3. QED
        BY <3>2, FS_Subset DEF StartsOf
    <2>3. (S \ {m}) \cup {m} = S /\ m \notin S \ {m}
      OBVIOUS
    <2>4. RunLengths(p, S)[m] = cur
      BY <2>1 DEF RunLengths
    <2>5. BagOf(RunLengths(p, S), S)
            = BagAdd(BagOf(RunLengths(p, S), S \ {m}), cur)
      BY <2>2, <2>3, <2>4, BagOfAdd
    <2>6. QED
      BY <2>1, <2>5, BagAddCommutes
  <1>3. QED
    BY <1>1, <1>2

\* The starts of the runs of the pages p; VirtualStarts and RangeStarts are
\* those of printed.
VNext(p, i) == /\ VmaOf(p[i - 1].vpn) = VmaOf(p[i].vpn)
               /\ p[i].vpn = p[i - 1].vpn + p[i - 1].size
RNext(p, i) == VNext(p, i) /\ p[i].pfn = p[i - 1].pfn + p[i - 1].size

VStarts(p) == {i \in DOMAIN p : i = 1 \/ ~VNext(p, i)}
RStarts(p) == {i \in DOMAIN p : i = 1 \/ ~RNext(p, i)}

LEMMA StartsOfPrinted ==
    VirtualStarts = VStarts(printed) /\ RangeStarts = RStarts(printed)
  BY DEF VirtualStarts, RangeStarts, VStarts, RStarts, VNext, RNext,
         VirtuallyNext, PhysicallyNext, SameVma

LEMMA StartsOfPrintedNext ==
    ASSUME UNCHANGED maps
    PROVE  VirtualStarts' = VStarts(printed') /\ RangeStarts' = RStarts(printed')
  <1>1. \A v : VmaOf(v)' = VmaOf(v)
    BY DEF VmaOf, VmEnd
  <1>2. \A i : /\ VirtuallyNext(i)' <=> VNext(printed', i)
               /\ PhysicallyNext(i)' <=> printed'[i].pfn = printed'[i - 1].pfn
                                            + printed'[i - 1].size
    BY <1>1 DEF VirtuallyNext, PhysicallyNext, SameVma, VNext
  <1>3. QED
    BY <1>2 DEF VirtualStarts, RangeStarts, VStarts, RStarts, RNext

\* One page more is a start, or not; the other starts stay.
LEMMA StartsAppend ==
    ASSUME NEW p \in Pages,
           NEW e \in [vpn : Nat, pfn : Frames, size : {1, THP}]
    PROVE  LET q    == Append(p, e)
               n    == Len(p) + 1
               new(next) == IF p # <<>> /\ next THEN {} ELSE {n}
           IN  /\ VStarts(q) = VStarts(p) \cup new(VNext(q, n))
               /\ RStarts(q) = RStarts(p) \cup new(RNext(q, n))
               /\ VStarts(p) \subseteq 1 .. Len(p)
               /\ RStarts(p) \subseteq 1 .. Len(p)
  <1> DEFINE q == Append(p, e)
             n == Len(p) + 1
  <1>1. /\ \A k \in 1 .. Len(p) : q[k] = p[k]
        /\ Len(p) \in Nat /\ (p = <<>> <=> Len(p) = 0)
        /\ DOMAIN p = 1 .. Len(p) /\ DOMAIN q = 1 .. Len(p) + 1
    BY PagesAppend DEF Pages
  <1> HIDE DEF q
  <1>2. \A i \in 1 .. Len(p) : i # 1 => i - 1 \in 1 .. Len(p)
    BY <1>1
  <1>3. \A i \in 1 .. Len(p) :
            i # 1 => (VNext(q, i) <=> VNext(p, i)) /\ (RNext(q, i) <=> RNext(p, i))
    BY <1>1, <1>2 DEF VNext, RNext
  <1>4. DOMAIN q = DOMAIN p \cup {n} /\ n \notin DOMAIN p
        /\ (n = 1 <=> p = <<>>)
    BY <1>1
  <1> HIDE DEF n
  <1>5. VStarts(q) = VStarts(p) \cup (IF p # <<>> /\ VNext(q, n) THEN {}
                                                                 ELSE {n})
    BY <1>1, <1>3, <1>4 DEF VStarts
  <1>6. RStarts(q) = RStarts(p) \cup (IF p # <<>> /\ RNext(q, n) THEN {}
                                                                 ELSE {n})
    BY <1>1, <1>3, <1>4 DEF RStarts
  <1>7. VStarts(p) \subseteq 1 .. Len(p) /\ RStarts(p) \subseteq 1 .. Len(p)
    BY <1>1 DEF VStarts, RStarts
  <1>8. QED
    BY <1>5, <1>6, <1>7 DEF q, n

LEMMA VmaOfIs ==
    ASSUME TypeOK, NEW k \in 1 .. Len(maps), NEW v \in Nat,
           v \in maps[k].start .. VmEnd(k) - 1
    PROVE  VmaOf(v) = k
  <1>1. DOMAIN maps = 1 .. Len(maps) /\ Len(maps) \in Nat
    <2>1. maps \in Seq([start : Nat \ {0, 1}, pages : Nat \ {0}])
      BY FileAssumption DEF TypeOK
    <2>2. QED
      BY <2>1
  <1>2. ASSUME NEW i \in 1 .. Len(maps), NEW j \in 1 .. Len(maps), i < j,
               v \in maps[i].start .. VmEnd(i) - 1,
               v \in maps[j].start .. VmEnd(j) - 1
        PROVE  FALSE
    <2>1. VmEnd(i) <= maps[j].start
      BY <1>2, VmasInOrder
    <2>2. /\ VmEnd(i) \in Nat /\ VmEnd(j) \in Nat
          /\ maps[i].start \in Nat /\ maps[j].start \in Nat
      BY VmaTypes
    <2>3. QED
      BY <1>2, <2>1, <2>2
  <1>3. \A i \in DOMAIN maps : v \in maps[i].start .. VmEnd(i) - 1 => i = k
    <2> TAKE i \in DOMAIN maps
    <2>1. i \in 1 .. Len(maps) /\ (i < k \/ k < i \/ i = k)
      BY <1>1
    <2>2. QED
      BY <1>2, <2>1
  <1>4. k \in DOMAIN maps
    BY <1>1
  <1>5. QED
    BY <1>3, <1>4 DEF VmaOf

\* What is remembered of the page before is that of the last page counted, or
\* nothing if none of this VMA has been.
Newest == printed[Len(printed)]

PrevInv ==
    pc = "page" =>
        IF printed # <<>> /\ maps[line].start <= Newest.vpn
        THEN /\ prev_vpn = Newest.vpn + Newest.size - 1
             /\ prev_pfn = Newest.pfn + Newest.size - 1
        ELSE prev_vpn = 0

LEMMA PrevStep ==
    TypeOK /\ TypeOK' /\ OrderInv /\ OrderInv' /\ PrevInv /\ [Next]_vars
    => PrevInv'
  <1> SUFFICES ASSUME TypeOK, TypeOK', OrderInv, OrderInv', PrevInv,
                      [Next]_vars, pc' = "page"
               PROVE  PrevInv'
    BY DEF PrevInv
  <1>1. CASE StartVma
    <2>1. /\ vpn' = maps'[line'].start /\ prev_vpn' = 0
          /\ UNCHANGED printed
      BY <1>1 DEF StartVma, target, results
    <2>2. vpn' \in Nat
      BY DEF TypeOK
    <2>3. ASSUME printed' # <<>>
          PROVE  ~(maps'[line'].start <= Newest'.vpn)
      <3>1. Len(printed') \in DOMAIN printed'
        <4>1. printed' \in Seq([vpn : Nat, pfn : Frames, size : {1, THP}])
          BY DEF TypeOK
        <4>2. QED
          BY <2>3, <4>1
      <3>2. Newest'.vpn < vpn'
        BY <3>1 DEF OrderInv, BehindCursor, Newest
      <3>3. Newest'.vpn \in Nat
        <4>1. printed' \in Pages /\ Len(printed') \in 1 .. Len(printed')
          <5>1. printed' \in Pages
            BY DEF TypeOK, Pages
          <5>2. DOMAIN printed' = 1 .. Len(printed')
            BY <5>1 DEF Pages
          <5>3. QED
            BY <3>1, <5>1, <5>2
        <4>2. Newest' \in [vpn : Nat, pfn : Frames, size : {1, THP}]
          BY <4>1, PagesTypes DEF Newest
        <4>3. QED
          BY <4>2
      <3>4. QED
        BY <2>1, <2>2, <3>2, <3>3
    <2>4. QED
      BY <2>1, <2>3 DEF PrevInv
  <1>2. CASE PagePresent
    <2>0. PICK size \in {1, THP} :
              Contiguity(ReadWord, size) /\ Count(ReadWord, size)
      BY <1>2, SizeOfPresent
    <2> DEFINE e == [vpn |-> vpn, pfn |-> ReadWord, size |-> size]
    <2>1. /\ printed' = Append(printed, e)
          /\ prev_vpn' = vpn + size - 1 /\ prev_pfn' = ReadWord + size - 1
          /\ UNCHANGED <<maps, line>> /\ pc = "page"
      BY <1>2, <2>0 DEF PagePresent, Count, Contiguity, target
    <2>2. e.vpn = vpn /\ e.pfn = ReadWord /\ e.size = size
      OBVIOUS
    <2> HIDE DEF e
    <2>3. printed' # <<>> /\ Newest' = e
      <3>1. printed \in Seq([vpn : Nat, pfn : Frames, size : {1, THP}])
        BY DEF TypeOK
      <3>2. QED
        BY <2>1, <3>1 DEF Newest
    <2>4. maps'[line'].start <= Newest'.vpn
      BY <2>1, <2>2, <2>3 DEF OrderInv, CursorInVma
    <2>5. QED
      BY <2>1, <2>2, <2>3, <2>4 DEF PrevInv
  <1>3. CASE ~(StartVma \/ PagePresent)
    <2>1. /\ UNCHANGED <<maps, line, printed, prev_vpn, prev_pfn>>
          /\ pc = "page"
      BY <1>3 DEF Next, Collect, Open, Finish, EndVma, PageAbsent, FlagsFail,
                  FlagsAbort,
                  Remap, Exit, vars, target, runs, results
    <2>2. QED
      BY <2>1 DEF PrevInv, Newest
  <1>4. QED
    BY <1>1, <1>2, <1>3

\* The comparison with the page before finds out whether the page continues a
\* run.
LEMMA GoesOnIs ==
    ASSUME TypeOK, OrderInv, PrevInv, pc = "page", num_pages > 0,
           NEW e \in [vpn : Nat, pfn : Frames, size : {1, THP}], e.vpn = vpn
    PROVE  LET q == Append(printed, e)
               n == Len(printed) + 1
           IN  /\ VirtualGoesOn <=> printed # <<>> /\ VNext(q, n)
               /\ RangeGoesOn(e.pfn) <=> printed # <<>> /\ RNext(q, n)
               /\ VirtualGoesOn => vpn = Newest.vpn + Newest.size
  <1> DEFINE q == Append(printed, e)
             n == Len(printed) + 1
  <1>1. printed \in Pages /\ Len(printed) \in Nat
        /\ (printed # <<>> => Len(printed) \in 1 .. Len(printed))
    BY DEF TypeOK, Pages
  <1>2. /\ line \in 1 .. Len(maps) /\ maps[line].start <= vpn
        /\ num_pages = VmEnd(line) - vpn
    BY DEF OrderInv, CursorInVma
  <1>3. /\ maps[line].start \in Nat \ {0, 1} /\ VmEnd(line) \in Nat
        /\ vpn \in Nat
    BY <1>2, VmaTypes DEF TypeOK
  <1>4. vpn \in maps[line].start .. VmEnd(line) - 1
    BY <1>2, <1>3
  <1>5. VmaOf(vpn) = line
    BY <1>2, <1>3, <1>4, VmaOfIs
  <1>6. CASE printed = <<>>
    <2>1. prev_vpn = 0
      BY <1>6 DEF PrevInv
    <2>2. ~VirtualGoesOn
      BY <1>2, <1>3, <2>1 DEF VirtualGoesOn
    <2>3. QED
      BY <1>6, <2>2 DEF RangeGoesOn
  <1>7. CASE printed # <<>>
    <2> DEFINE l == Newest
    <2>1. l \in [vpn : Nat, pfn : Frames, size : {1, THP}]
      BY <1>1, <1>7, PagesTypes DEF Newest
    <2> HIDE DEF l
    <2>2. /\ l.vpn \in Nat /\ l.pfn \in Nat /\ l.size \in Nat \ {0}
          /\ e.pfn \in Nat
      <3>1. l.vpn \in Nat /\ l.pfn \in Frames /\ l.size \in {1, THP}
            /\ e.pfn \in Frames
        BY <2>1
      <3>2. l.pfn \in Nat /\ e.pfn \in Nat
        BY <3>1, FrameAssumption
      <3>3. l.size \in Nat \ {0}
        BY <3>1, SizeAssumption
      <3>4. QED
        BY <3>1, <3>2, <3>3
    <2> USE DEF l
    <2>3. q[n - 1] = l /\ q[n] = e
      BY <1>1, <1>7, PagesAppend DEF Newest
    <2> HIDE DEF q
    <2>4. VNext(q, n) <=> VmaOf(l.vpn) = line /\ vpn = l.vpn + l.size
      BY <1>5, <2>3 DEF VNext
    <2>5. RNext(q, n) <=> VNext(q, n) /\ e.pfn = l.pfn + l.size
      BY <2>3 DEF RNext
    <2>6. PICK k \in 1 .. line : l.vpn \in maps[k].start .. VmEnd(k) - 1
      BY <1>1, <1>7 DEF OrderInv, PagesInOrder, Newest, Pages
    <2>7. k \in 1 .. Len(maps) /\ VmaOf(l.vpn) = k
      BY <1>2, <2>2, <2>6, VmaOfIs
    <2> HIDE DEF n
    <2>8. CASE maps[line].start <= l.vpn
      <3>1. k = line
        <4>1. ASSUME k < line
              PROVE  FALSE
          <5>1. VmEnd(k) <= maps[line].start
            BY <1>2, <2>7, <4>1, VmasInOrder
          <5>2. VmEnd(k) \in Nat /\ l.vpn < VmEnd(k)
            BY <2>2, <2>6, <2>7, VmaTypes
          <5>3. QED
            BY <1>3, <2>2, <2>8, <5>1, <5>2
        <4>2. QED
          BY <1>2, <2>6, <4>1
      <3>2. /\ prev_vpn = l.vpn + l.size - 1
            /\ prev_pfn = l.pfn + l.size - 1
        BY <1>7, <2>8 DEF PrevInv
      <3> HIDE DEF l
      <3>3. VirtualGoesOn <=> vpn = l.vpn + l.size
        BY <1>3, <2>2, <3>2 DEF VirtualGoesOn
      <3>4. e.pfn = prev_pfn + 1 <=> e.pfn = l.pfn + l.size
        BY <2>2, <3>2
      <3>5. QED
        BY <1>7, <2>4, <2>5, <2>7, <3>1, <3>3, <3>4 DEF RangeGoesOn, l, q, n
    <2>9. CASE ~(maps[line].start <= l.vpn)
      <3>1. prev_vpn = 0
        BY <2>9 DEF PrevInv
      <3>2. ~VirtualGoesOn
        BY <1>2, <1>3, <3>1 DEF VirtualGoesOn
      <3>3. k # line
        BY <2>6, <2>9
      <3>4. QED
        BY <2>4, <2>5, <2>7, <3>2, <3>3 DEF RangeGoesOn, q, n
    <2>10. QED
      BY <2>8, <2>9
  <1>8. QED
    BY <1>6, <1>7

RunsInv ==
    /\ RunInv(printed, VirtualStarts, virtual_hist, cur_virtual)
    /\ RunInv(printed, RangeStarts, range_hist, cur_range)

\* One page more, that continues the open run or starts one.
LEMMA RunStep ==
    ASSUME NEW p \in Pages, NEW S, S \subseteq 1 .. Len(p), NEW hist, NEW cur,
           RunInv(p, S, hist, cur),
           NEW e \in [vpn : Nat, pfn : Frames, size : {1, THP}],
           NEW goesOn \in BOOLEAN, NEW T,
           T = S \cup (IF goesOn THEN {} ELSE {Len(p) + 1}),
           goesOn => p # <<>> /\ e.vpn = p[Len(p)].vpn + p[Len(p)].size
    PROVE  RunInv(Append(p, e), T, Recorded(goesOn, hist, cur),
                  Grown(goesOn, cur, e.size))
  <1>1. CASE goesOn
    <2>1. T = S
      BY <1>1
    <2>2. RunInv(Append(p, e), S, hist, cur + e.size)
      BY <1>1, RunGrows
    <2>3. QED
      BY <1>1, <2>1, <2>2 DEF Recorded, Grown
  <1>2. CASE ~goesOn /\ p # <<>>
    <2>1. T = S \cup {Len(p) + 1}
      BY <1>2
    <2>2. RunInv(Append(p, e), S \cup {Len(p) + 1}, BagAdd(hist, cur), e.size)
      BY <1>2, RunStarts
    <2>3. QED
      BY <1>2, <2>1, <2>2 DEF Recorded, Grown
  <1>3. CASE ~goesOn /\ p = <<>>
    <2>1. S = {} /\ T = {1}
      <3>1. Len(p) = 0
        BY <1>3
      <3>2. S = {}
        BY <3>1
      <3>3. QED
        BY <1>3, <3>1, <3>2
    <2>2. RunInv(Append(<<>>, e), {1}, BagAdd(hist, cur), e.size)
      BY <1>3, <2>1, RunBegins
    <2>3. QED
      BY <1>3, <2>1, <2>2 DEF Recorded, Grown
  <1>4. QED
    BY <1>1, <1>2, <1>3

LEMMA RunsPresent ==
    ASSUME TypeOK, OrderInv, PrevInv, RunsInv, PagePresent
    PROVE  RunsInv'
  <1>0. PICK size \in {1, THP} :
            Contiguity(ReadWord, size) /\ Count(ReadWord, size)
    BY SizeOfPresent
  <1> DEFINE e == [vpn |-> vpn, pfn |-> ReadWord, size |-> size]
             q == Append(printed, e)
             n == Len(printed) + 1
  <1>1. /\ pc = "page" /\ num_pages > 0 /\ UNCHANGED maps
        /\ printed' = q /\ Contiguity(ReadWord, size)
    BY <1>0 DEF PagePresent, Count, target
  <1>2. e \in [vpn : Nat, pfn : Frames, size : {1, THP}]
    <2>1. ReadWord \in Frames
      BY ReadWordValue, WordIsFrame DEF PagePresent
    <2>2. size \in {1, THP} /\ vpn \in Nat
      BY DEF TypeOK
    <2>3. QED
      BY <2>1, <2>2
  <1>3. e.vpn = vpn /\ e.pfn = ReadWord /\ e.size = size
    OBVIOUS
  <1> HIDE DEF e
  <1>4. printed \in Pages
    BY DEF TypeOK, Pages
  <1>5. /\ VirtualGoesOn <=> printed # <<>> /\ VNext(q, n)
        /\ RangeGoesOn(e.pfn) <=> printed # <<>> /\ RNext(q, n)
        /\ VirtualGoesOn => vpn = Newest.vpn + Newest.size
    BY <1>1, <1>2, <1>3, GoesOnIs
  <1> DEFINE new(goesOn) == IF goesOn THEN {} ELSE {n}
             v == VirtualGoesOn
             r == RangeGoesOn(e.pfn)
  <1>6. /\ VStarts(q) = VStarts(printed)
                            \cup new(printed # <<>> /\ VNext(q, n))
        /\ RStarts(q) = RStarts(printed)
                            \cup new(printed # <<>> /\ RNext(q, n))
        /\ VStarts(printed) \subseteq 1 .. Len(printed)
        /\ RStarts(printed) \subseteq 1 .. Len(printed)
    BY <1>2, <1>4, StartsAppend
  <1>7. v \in BOOLEAN /\ r \in BOOLEAN /\ (r => v)
    BY DEF VirtualGoesOn, RangeGoesOn
  <1>8. /\ VirtualStarts' = VStarts(q) /\ RangeStarts' = RStarts(q)
        /\ VirtualStarts = VStarts(printed) /\ RangeStarts = RStarts(printed)
    BY <1>1, StartsOfPrinted, StartsOfPrintedNext
  <1>9. v => /\ printed # <<>>
             /\ e.vpn = printed[Len(printed)].vpn + printed[Len(printed)].size
    BY <1>3, <1>5 DEF Newest
  <1>10. /\ virtual_hist' = Recorded(v, virtual_hist, cur_virtual)
         /\ cur_virtual' = Grown(v, cur_virtual, e.size)
         /\ range_hist' = Recorded(r, range_hist, cur_range)
         /\ cur_range' = Grown(r, cur_range, e.size)
    BY <1>1, <1>3 DEF Contiguity
  <1>11. /\ VirtualStarts' = VirtualStarts \cup new(v)
         /\ RangeStarts' = RangeStarts \cup new(r)
         /\ VirtualStarts \subseteq 1 .. Len(printed)
         /\ RangeStarts \subseteq 1 .. Len(printed)
    <2>1. (v <=> printed # <<>> /\ VNext(q, n))
          /\ (r <=> printed # <<>> /\ RNext(q, n))
      BY <1>5
    <2> HIDE DEF v, r, q, n
    <2>2. QED
      BY <1>6, <1>8, <2>1
  <1> HIDE DEF v, r, q
  <1>12. RunInv(q, VirtualStarts', virtual_hist', cur_virtual')
    <2>1. RunInv(printed, VirtualStarts, virtual_hist, cur_virtual)
      BY DEF RunsInv
    <2>2. QED
      BY <1>2, <1>4, <1>7, <1>9, <1>10, <1>11, <2>1, RunStep DEF q
  <1>13. RunInv(q, RangeStarts', range_hist', cur_range')
    <2>1. RunInv(printed, RangeStarts, range_hist, cur_range)
      BY DEF RunsInv
    <2>2. QED
      BY <1>2, <1>4, <1>7, <1>9, <1>10, <1>11, <2>1, RunStep DEF q
  <1>14. QED
    BY <1>1, <1>12, <1>13 DEF RunsInv

LEMMA RunsStep ==
    TypeOK /\ OrderInv /\ PrevInv /\ RunsInv /\ [Next]_vars => RunsInv'
  <1> SUFFICES ASSUME TypeOK, OrderInv, PrevInv, RunsInv, [Next]_vars
               PROVE  RunsInv'
    OBVIOUS
  <1>1. CASE PagePresent
    BY <1>1, RunsPresent
  <1>2. CASE ~PagePresent
    <2>1. UNCHANGED <<maps, printed, cur_virtual, cur_range, virtual_hist,
                      range_hist>>
      BY <1>2 DEF Next, Collect, Open, StartVma, Finish, EndVma, PageAbsent,
                  FlagsFail, FlagsAbort, Remap, Exit, vars, target, runs, results
    <2>2. VirtualStarts' = VirtualStarts /\ RangeStarts' = RangeStarts
      BY <2>1, StartsOfPrinted, StartsOfPrintedNext
    <2>3. QED
      BY <2>1, <2>2 DEF RunsInv
  <1>3. QED
    BY <1>1, <1>2

LEMMA RunsTold ==
    ASSUME TypeOK, RunsInv
    PROVE  RunsMatch
  <1>1. printed \in Pages
    BY DEF TypeOK, Pages
  <1>2. VirtualStarts \subseteq 1 .. Len(printed)
        /\ RangeStarts \subseteq 1 .. Len(printed)
    <2>1. DOMAIN printed = 1 .. Len(printed)
      BY <1>1 DEF Pages
    <2>2. QED
      BY <2>1 DEF VirtualStarts, RangeStarts
  <1>3. BagAdd(virtual_hist, cur_virtual)
          = BagAdd(BagOf(RunLengths(printed, VirtualStarts), VirtualStarts), 1)
    <2> DEFINE S == VirtualStarts
    <2>1. StartsOf(printed, S)
          /\ RunInv(printed, S, virtual_hist, cur_virtual)
      BY <1>2 DEF RunsInv, StartsOf
    <2> HIDE DEF S
    <2>2. BagAdd(virtual_hist, cur_virtual)
            = BagAdd(BagOf(RunLengths(printed, S), S), 1)
      BY <1>1, <2>1, RunsTogether
    <2>3. QED
      BY <2>2 DEF S
  <1>4. BagAdd(range_hist, cur_range)
          = BagAdd(BagOf(RunLengths(printed, RangeStarts), RangeStarts), 1)
    <2> DEFINE S == RangeStarts
    <2>1. StartsOf(printed, S)
          /\ RunInv(printed, S, range_hist, cur_range)
      BY <1>2 DEF RunsInv, StartsOf
    <2> HIDE DEF S
    <2>2. BagAdd(range_hist, cur_range)
            = BagAdd(BagOf(RunLengths(printed, S), S), 1)
      BY <1>1, <2>1, RunsTogether
    <2>3. QED
      BY <2>2 DEF S
  <1>5. QED
    BY <1>3, <1>4, LengthsAreRunLengths DEF RunsMatch

\* The histograms are right at every moment, computed as they are from nothing
\* but the page before: with the run that is still open they hold the length of
\* every maximal run of the pages counted, once, and the phantom run; runs do
\* not reach over the border of a VMA, and failing reads and seeks, pages that
\* change and a target that dies neither split nor join them.
THEOREM RunsAreMaximal == Spec => []RunsMatch
  <1>1. Init => OrderInv
    BY CursorInit DEF Init, OrderInv, PagesInOrder, BehindCursor
  <1>2. Init => PrevInv
    BY DEF Init, PrevInv
  <1>3. Init => RunsInv
    <2> SUFFICES ASSUME Init
                 PROVE  RunsInv
      OBVIOUS
    <2>1. printed = <<>> /\ virtual_hist = EmptyBag /\ range_hist = EmptyBag
          /\ cur_virtual = 1 /\ cur_range = 1
      BY DEF Init
    <2>2. QED
      BY <2>1 DEF RunsInv, RunInv
  <1>4. QED
    BY <1>1, <1>2, <1>3, OrderStep, PrevStep, RunsStep, RunsTold, TypeCorrect,
       PTL DEF Spec
=============================================================================
