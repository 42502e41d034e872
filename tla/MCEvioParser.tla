---------------------------- MODULE MCEvioParser ----------------------------
(***************************************************************************)
(* Small instances of EvioParser for TLC.  An event is written as the list *)
(* of its banks in the order of their headers and laid out from that.      *)
(***************************************************************************)
EXTENDS EvioParser

\* A bank at depth d; w words of data if it is a leaf.
B(d, type, tag, num, w, pad) ==
  [depth |-> d, type |-> type, tag |-> tag, num |-> num, words |-> w, pad |-> pad]
C(d, tag, num) == B(d, "bank", tag, num, 0, 0)
U(d, tag, num) == B(d, "uint32", tag, num, 1, 0)

UpOf(s, i)   == Max({0} \cup {j \in 1..(i - 1) : s[j].depth = s[i].depth - 1})
Own(s, i)    == HeaderWords(IF i = 1 THEN "bank" ELSE s[UpOf(s, i)].type) + s[i].words
At(s, i)     == MapThenSumSet(LAMBDA j : Own(s, j), 1..(i - 1))
LastIn(s, i) == Max({k \in i..Len(s) : \A j \in (i + 1)..k : s[j].depth > s[i].depth})
Laid(s) ==
  [x \in {At(s, i) : i \in DOMAIN s} |->
     LET i == CHOOSE i \in DOMAIN s : At(s, i) = x
     IN [up |-> IF i = 1 THEN Outside ELSE At(s, UpOf(s, i)), depth |-> s[i].depth,
         type |-> s[i].type, tag |-> s[i].tag, num |-> s[i].num, pad |-> s[i].pad,
         length |-> At(s, LastIn(s, i)) + Own(s, LastIn(s, i)) - x - 1]]

MCEvents == {Laid(s) : s \in {
  \* the same bank twice, a leaf found by num, one by the catch-all
  <<C(0, 1, 0), C(1, 1, 0), U(2, 1, 1), U(2, 1, 0), C(1, 1, 1), U(2, 1, 1), U(1, 1, 0)>>,
  \* nested deeper than one level, a leaf after the inner bank
  <<C(0, 1, 0), C(1, 1, 1), C(2, 2, 0), U(3, 1, 0), U(2, 1, 0)>>,
  \* a segment of segments, and an illegal content type
  <<C(0, 3, 0), B(1, "segment", 2, 0, 0, 0), B(2, "uint32", 1, 0, 2, 0),
    B(2, "tagsegment", 1, 0, 0, 0), B(1, "illegal", 1, 0, 1, 0), U(1, 2, 0)>>,
  \* a bank longer than 16 bits can say, an empty container
  <<C(0, 1, 0), B(1, "int16", 1, 0, 65537, 2), C(1, 2, 0), B(1, "string", 2, 0, 1, 1)>>,
  \* a leaf at the top
  <<B(0, "uint32", 1, 0, 1, 0)>> }}

\* Every setting of fAutoAdd and fFullErase at the usual levels; other levels,
\* with and without fAutoAdd; events selected by tag and by masked tags.
With(a, f, c, m, T, M) ==
  [fAutoAdd |-> a, fFullErase |-> f, fChop_level |-> c, fMax_level |-> m,
   tags |-> T, tag_masks |-> M]
MCSettings ==
  {With(a, f, 1, 9, <<>>, <<65535>>) : a \in BOOLEAN, f \in BOOLEAN}
  \cup {With(a, FALSE, cm[1], cm[2], <<1>>, <<65535>>) :
          a \in BOOLEAN, cm \in {<<0, 9>>, <<2, 9>>, <<1, 1>>}}
  \cup {With(FALSE, FALSE, 1, 9, <<1, 2>>, <<1, 2>>)}

MCWideEvents == {Laid(<<C(0, 1, 0), B(1, t, 1, 0, 2, 0)>>) : t \in LeafTypes \ {"composite"}}
=============================================================================
