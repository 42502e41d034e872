------------------------------ MODULE EcalBank ------------------------------
(***************************************************************************)
(* What the ECAL code of HPSEvioReader computes, without its state: the     *)
(* walk of block_iterator around a crystal, the search of ComputeMode7fast  *)
(* for threshold crossings, the hits it makes of them and the frames of an  *)
(* SVT bank. HPSEvioReader runs the loops.                                  *)
(***************************************************************************)
EXTENDS Integers, Sequences, FiniteSets, SequencesExt

------------------------------------------------------------------------------
(* The crystals: no column and no row 0, and the hole for the beam *)

ecal_max_x == 23
ecal_max_y == 5
ecal_min_x == -ecal_max_x
ecal_min_y == -ecal_max_y

Hole(p) == p[2] \in {-1, 1} /\ p[1] > -11 /\ p[1] < -1
Crystals == {p \in ((ecal_min_x..ecal_max_x) \ {0}) \X ((ecal_min_y..ecal_max_y) \ {0}) : ~Hole(p)}

AtMost(a, b) == IF a < b THEN a ELSE b
AtLeast(a, b) == IF a > b THEN a ELSE b

\* mutant: the column after -1 is taken to be 0
AdvanceX(x) == x + 1

NextX(x) == IF x = -1 THEN 1 ELSE x + 1
PrevX(x) == IF x = 1 THEN -1 ELSE x - 1

\* mutant: the last column is one to the right, without regard to the missing column 0
LastPlain(c) == c[1] + 1

\* block_iterator::operator++ of a walk around crystal c: the last column of the walk, the
\* first one of a row, one place on, and on until it is neither at c nor in the hole
LastX(c) == IF c[1] < -1 \/ c[1] > 0 THEN c[1] + 1 ELSE c[1] + 2
FirstX(c) == AtLeast(ecal_min_x, PrevX(c[1]))

StepOn(p, c) ==
    LET x == NextX(p[1])
    IN  IF x > LastX(c) \/ x > ecal_max_x THEN <<FirstX(c), p[2] + 1>> ELSE <<x, p[2]>>

Grid == (ecal_min_x..ecal_max_x) \X (ecal_min_y..ecal_max_y)
Advance(p, c) ==
    LET go[q \in Grid] == LET r == StepOn(q, c) IN IF r = c \/ Hole(r) THEN go[r] ELSE r
    IN  go[p]

Begin(c) ==
    LET y0 == IF c[2] > 0 THEN AtLeast(1, c[2] - 1) ELSE c[2] - 1
        low == y0 < ecal_min_y
        x == IF low /\ FirstX(c) = ecal_min_x THEN ecal_min_x + 1 ELSE FirstX(c)
        p == <<x, IF low THEN ecal_min_y ELSE y0>>
    IN  IF Hole(p) THEN Advance(p, c) ELSE p

End(c) ==
    LET y == IF c[2] < 0 THEN AtMost(-1, c[2] + 1) ELSE AtMost(ecal_max_y, c[2] + 1)
    IN  Advance(<<AtMost(ecal_max_x, NextX(c[1])), y>>, c)

\* the crystals around c, on its side of the beam
Around(c) ==
    {p \in Crystals : /\ p # c /\ p[1] \in {PrevX(c[1]), c[1], NextX(c[1])}
                      /\ p[2] \in (c[2] - 1)..(c[2] + 1) /\ (p[2] > 0 <=> c[2] > 0)}

------------------------------------------------------------------------------
(* FADCdata::ComputeMode7fast with the configuration k of the slot. A channel   *)
(* ch has its samples, s[1] being the one of index 0, and the value the memory  *)
(* behind them happens to have. Sums are in quarter counts, since the pedestal  *)
(* is a quarter of a sum of four samples; times are in ps, rounded down.         *)

N_PEDESTAL == 4
Sum(q) == FoldLeft(LAMBDA a, v : a + v, 0, q)
NA(k) == k.NSA \div 4
NB(k) == k.NSB \div 4

Pedestal4(s, k) == IF k.pedestal4 > 0 THEN k.pedestal4 ELSE Sum(SubSeq(s, 1, N_PEDESTAL))
Threshold4(s, k) == 4 * k.threshold + Pedestal4(s, k)
Above(s, k, i) == 4 * s[i] > Threshold4(s, k)
Below(s, k, i) == 4 * s[i] < Threshold4(s, k)

\* the crossings found before the loop
FirstCrossings(s, k) == IF Above(s, k, 1) THEN <<1>> ELSE <<>>

\* mutant: the search goes on in the middle of the window of the hit
SearchInWindow(s, k, i, found) ==
    LET hit == Above(s, k, i) /\ Below(s, k, i - 1)
    IN  [found |-> IF hit THEN Append(found, i) ELSE found, i |-> i + 1, more |-> TRUE]

\* One iteration of the loop at index i: the crossings, the next index, and
\* whether the loop goes on.
SearchStep(s, k, i, found) ==
    LET hit == Above(s, k, i) /\ Below(s, k, i - 1)
    IN  [found |-> IF hit THEN Append(found, i) ELSE found,
         i     |-> IF hit THEN i + NA(k) ELSE i + 1,
         more  |-> ~(hit /\ k.npeak > 0 /\ Len(found) + 1 >= k.npeak)]

\* A hit: its window goes from NSB before to NSA after the crossing, its time is
\* where the pulse passes half its height.
HitAt(ch, k, cross) ==
    LET s == Append(ch.samples, ch.beyond)
        start == AtLeast(1, cross - NB(k))
        stop == AtMost(cross + NA(k) - 1, Len(ch.samples))
        ped4 == Pedestal4(s, k)
        top == Max({s[i] : i \in start..stop} \cup {0})
        half8 == 4 * top + ped4
        rise == {i \in start..stop : 8 * s[i + 1] > half8 /\ 8 * s[i] < half8}
        t == Min(rise)
    IN  [energy4 |-> k.gain * Sum([j \in 1..(stop - start + 1) |-> 4 * s[start + j - 1] - ped4]),
         time    |-> IF rise = {} THEN 4000 * (cross - 1)
                     ELSE 4000 * (t - 1) + (500 * (half8 - 8 * s[t])) \div (s[t + 1] - s[t])]

Hits(ch, k, found) == [j \in DOMAIN found |-> HitAt(ch, k, found[j])]

------------------------------------------------------------------------------
(* SVTBank::PushDataArray: a bank is a sequence of units of four words. The    *)
(* first unit of a frame is its header with the size of the frame, the last    *)
(* its tail; those between are multi-samples, some of them marked as headers.  *)
(* (The loops compare unsigned numbers: a bank of no words, and one whose first  *)
(* frame has size 0, would be read far beyond their ends. Neither is modelled.)  *)

FrameStep(v, u) ==
    CASE v.left = 0 -> [v EXCEPT !.left = AtLeast(1, u.size - 1)]
      [] v.left = 1 -> [v EXCEPT !.left = 0]
      [] OTHER -> [left |-> v.left - 1,
                   data |-> IF u.mark = "sample" THEN Append(v.data, u.id) ELSE v.data]

PushSVT(data, bank) == FoldLeft(FrameStep, [left |-> 0, data |-> data], bank).data
=============================================================================
