--------------------------- MODULE MCPagemapTools ---------------------------
(***************************************************************************)
(* Instances of PagemapTools.  For the helpers: one VMA with up to two     *)
(* subVMAs, the first of which may start before it, and VMAs next to each  *)
(* other with at most one subVMA each, of every size and at every frame    *)
(* within the bounds.  For print_stats.py: a VMA with up to three subVMAs, *)
(* which may start in front of it, behind it or at the same page, and a    *)
(* second VMA, behind it or with a gap.                                    *)
(***************************************************************************)
EXTENDS PagemapTools

MaxSize  == 3       \* the pages of a VMA
MaxFrame == 3       \* the first frame a subVMA asks for

Sub(v, p) == [vpn |-> v, offset |-> v - p]

Subs(start, size) ==
    {<<>>} \cup {<<Sub(start, p)>> : p \in 0 .. MaxFrame}

TwoSubs(start, size) ==
    {<<Sub(a, p), Sub(b, q)>> :
        a \in {start - 1, start}, b \in start .. start + size,
        p \in 0 .. MaxFrame, q \in 0 .. MaxFrame}

VmaAt(start, size, subs) ==
    {[start |-> start, end |-> start + size, subVMAs |-> s] : s \in subs}

First(n, subs) == VmaAt(2, n, subs)
Second(n, k)   == VmaAt(2 + n, k, Subs(2 + n, k))
Third(n, k, m) == VmaAt(2 + n + k, m, Subs(2 + n + k, m))

Size == 1 .. MaxSize
HelperFiles ==
    UNION {{<<a>> : a \in First(n, TwoSubs(2, n))} : n \in Size}
    \cup UNION {{<<a, b>> : a \in First(n, TwoSubs(2, n)), b \in Second(n, k)}
                    : n \in Size, k \in {1}}
    \cup {<<a, b, c>> : a \in First(3, TwoSubs(2, 3)), b \in Second(3, 3),
                        c \in Third(3, 3, 2)}
    \cup UNION {{<<a, b, c>> : a \in First(n, Subs(2, n)), b \in Second(n, k),
                               c \in Third(n, k, m)} : n, k, m \in Size}

\* In front of the VMA, in it at the same page, at its last pages, behind it.
Anywhere == {Sub(1, 4), Sub(3, 2), Sub(3, 4), Sub(4, 2), Sub(6, 4)}
InOrder(s) == \A n, m \in DOMAIN s : n < m => s[n].vpn <= s[m].vpn
Apart(s)   == \A n, m \in DOMAIN s : n # m => s[n].vpn # s[m].vpn
MCPrintedFiles ==
    {<<[start |-> 2, end |-> 6, subVMAs |-> s],
       [start |-> IF Len(s) = 3 THEN 6 ELSE 7, end |-> 8,
        subVMAs |-> IF Len(s) = 2 THEN <<>> ELSE <<Sub(7, 3)>>]>> :
        s \in {t \in UNION {[1 .. n -> Anywhere] : n \in 0 .. 3} :
                  InOrder(t) /\ (Len(t) = 3 => Apart(t))}}

MCFiles == HelperFiles \cup MCPrintedFiles
=============================================================================
