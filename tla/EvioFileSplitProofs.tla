------------------------- MODULE EvioFileSplitProofs -------------------------
(***************************************************************************)
(* A split file of the evio library is no longer than the limit it was      *)
(* written under and one block header, or holds one event besides the       *)
(* common block: SplitWithinLimit of EvioFile, for any sizes of events,      *)
(* blocks, buffers and files.  SplitInv is the inductive invariant.          *)
(***************************************************************************)
EXTENDS EvioFileProofs

-----------------------------------------------------------------------------
(* Sequences of items: lengths, and how many events were written.          *)

\* The items a writer makes: a last block is empty.
Tidy == {x \in Items : x.kind = "head" /\ x.last => x.size = EV_HDSIZ}

\* The events among the items, the common block's apart, counted by giving
\* each the length one and the others none.
Marks(f) == [i \in 1 .. Len(f) |-> Torn(IF IsWritten(f[i]) THEN 1 ELSE 0)]
Count(f) == Words(Marks(f))

LEMMA TidyItems ==
  /\ Tidy \subseteq Items /\ Seq(Tidy) \subseteq Seq(Items)
  /\ \A w \in Nat : Torn(w) \in Tidy /\ Torn(w).words = w /\ ~IsWritten(Torn(w))
  /\ \A n \in Nat : EmptyLast(n) \in Tidy /\ ~IsWritten(EmptyLast(n))
  /\ EventItems \subseteq Tidy
<1>1. Tidy \subseteq Items
  BY DEF Tidy
<1>2. Seq(Tidy) \subseteq Seq(Items)
  BY <1>1
<1>3. \A w \in Nat : Torn(w) \in Tidy /\ Torn(w).words = w /\ ~IsWritten(Torn(w))
  BY DEF Torn, Tidy, Items, TornItems, IsWritten
<1>4. \A n \in Nat : EmptyLast(n) \in Tidy /\ ~IsWritten(EmptyLast(n))
  <2>1. ASSUME NEW n \in Nat PROVE EmptyLast(n) \in Tidy /\ ~IsWritten(EmptyLast(n))
    <3>1. EmptyLast(n) \in Items /\ EmptyLast(n).size = EV_HDSIZ
      BY EmptyLastItem
    <3>2. EmptyLast(n).kind = "head"
      BY DEF EmptyLast, Header
    <3>3. QED
      BY <3>1, <3>2 DEF Tidy, IsWritten
  <2>2. QED
    BY <2>1
<1>5. EventItems \subseteq Tidy
  BY DEF EventItems, Tidy, Items
<1>6. QED
  BY <1>1, <1>2, <1>3, <1>4, <1>5

LEMMA WordsConcat ==
  ASSUME NEW f \in Seq(Items), NEW g \in Seq(Items)
  PROVE  Words(f \o g) = Words(f) + Words(g)
<1> DEFINE c == f \o g
           m == Len(f)
           n == Len(g)
           S == {k \in 0 .. n : Ends(c)[m + k] = Words(f) + Ends(g)[k]}
<1>1. /\ c \in Seq(Items) /\ Len(c) = m + n /\ m \in Nat /\ n \in Nat
      /\ \A i \in 1 .. m : c[i] = f[i]
      /\ \A i \in 1 .. n : c[m + i] = g[i]
  OBVIOUS
<1> HIDE DEF c
<1>2. Words(f) \in Nat /\ Ends(g)[0] = 0 /\ \A k \in 0 .. n : Ends(g)[k] \in Nat
  BY WordsNat, EndsDef, ItemWords
<1> HIDE DEF m, n
<1>3. Words(f) = Ends(c)[m]
  <2>1. \A i \in 0 .. m : Ends(f)[i] = Ends(c)[i]
    <3>1. m <= Len(f) /\ m <= Len(c) /\ \A i \in 1 .. m : f[i].words = c[i].words
      BY <1>1 DEF m
    <3>2. QED
      BY <1>1, <3>1, EndsAgree
  <2>2. QED
    BY <1>1, <2>1 DEF Words, m
<1>4. 0 \in S
  BY <1>1, <1>2, <1>3 DEF Words
<1>5. ASSUME NEW k \in 1 .. n, k - 1 \in S PROVE k \in S
  <2> DEFINE j == m + k
  <2>1. j \in 1 .. Len(c) /\ j - 1 = m + (k - 1)
    BY <1>1
  <2> HIDE DEF j
  <2>2. Ends(c)[j] = Ends(c)[j-1] + c[j].words
    BY <1>1, <2>1, EndsDef
  <2>3. Ends(g)[k] = Ends(g)[k - 1] + g[k].words /\ g[k].words \in Nat
    BY EndsDef, ItemWords DEF n
  <2>4. k - 1 \in 0 .. n /\ k \in 0 .. n /\ Ends(g)[k - 1] \in Nat
    BY <1>1, <1>2
  <2>5. Ends(c)[m + (k - 1)] = Words(f) + Ends(g)[k - 1] /\ c[j] = g[k]
    BY <1>1, <1>5 DEF j
  <2>6. Ends(c)[j] = Words(f) + Ends(g)[k]
    BY <1>2, <2>1, <2>2, <2>3, <2>4, <2>5
  <2>7. QED
    BY <2>4, <2>6 DEF j
<1> HIDE DEF S
<1>6. \A k \in 0 .. n : k \in S
  BY <1>1, <1>4, <1>5, UpTo
<1>7. n \in S
  BY <1>1, <1>6
<1>8. QED
  BY <1>1, <1>7 DEF S, Words, c, n

LEMMA SuffixWords ==
  ASSUME NEW f \in Seq(Items), NEW k \in 0 .. Len(f)
  PROVE  /\ SubSeq(f, k + 1, Len(f)) \in Seq(Items)
         /\ Words(SubSeq(f, k + 1, Len(f))) = Words(f) - Ends(f)[k]
         /\ f = SubSeq(f, 1, k) \o SubSeq(f, k + 1, Len(f))
<1> DEFINE g == SubSeq(f, 1, k)
           s == SubSeq(f, k + 1, Len(f))
<1>1. Len(f) \in Nat /\ k \in Nat /\ k <= Len(f) /\ Ends(f)[k] \in Nat
  BY ItemWords, EndsDef
<1>2. g \in Seq(Items) /\ Words(g) = Ends(f)[k]
  BY PrefixWords
<1>3. s \in Seq(Items)
  BY <1>1
<1>4. f = g \o s
  <2>1. 1 \in 1 .. Len(f) + 1 /\ k \in 1 - 1 .. Len(f) /\ Len(f) \in k .. Len(f)
    BY <1>1
  <2>2. g \o s = SubSeq(f, 1, Len(f))
    BY <2>1, ConcatAdjacentSubSeq
  <2>3. QED
    BY <2>2, SubSeqFull
<1> HIDE DEF g, s
<1>5. Words(f) = Words(g) + Words(s) /\ Words(s) \in Nat
  BY <1>2, <1>3, <1>4, WordsConcat, WordsNat
<1>6. Words(s) = Words(f) - Ends(f)[k]
  BY <1>1, <1>2, <1>5
<1>7. QED
  BY <1>3, <1>4, <1>6 DEF g, s

LEMMA MarksTyped ==
  ASSUME NEW f \in Seq(Items)
  PROVE  /\ Marks(f) \in Seq(Items) /\ Len(Marks(f)) = Len(f)
         /\ \A i \in 1 .. Len(f) :
              Marks(f)[i].words = IF IsWritten(f[i]) THEN 1 ELSE 0
         /\ Count(f) \in Nat
<1>1. Len(f) \in Nat
  OBVIOUS
<1>2. \A i \in 1 .. Len(f) : Torn(IF IsWritten(f[i]) THEN 1 ELSE 0) \in Items
  BY TidyItems
<1>3. Marks(f) \in Seq(Items) /\ Len(Marks(f)) = Len(f)
  BY <1>1, <1>2 DEF Marks
<1>4. \A i \in 1 .. Len(f) : Marks(f)[i].words = IF IsWritten(f[i]) THEN 1 ELSE 0
  BY TidyItems DEF Marks
<1>5. QED
  BY <1>3, <1>4, WordsNat DEF Count

LEMMA CountSame ==
  ASSUME NEW f \in Seq(Items), NEW g \in Seq(Items), Len(f) = Len(g),
         \A i \in 1 .. Len(f) : IsWritten(f[i]) <=> IsWritten(g[i])
  PROVE  Count(f) = Count(g)
<1>1. /\ Marks(f) \in Seq(Items) /\ Marks(g) \in Seq(Items)
      /\ Len(Marks(f)) = Len(f) /\ Len(Marks(g)) = Len(f)
  BY MarksTyped
<1>2. \A i \in 1 .. Len(f) : Marks(f)[i].words = Marks(g)[i].words
  BY MarksTyped
<1>3. QED
  BY <1>1, <1>2, WordsAgree DEF Count

LEMMA CountEmpty == Count(<<>>) = 0
<1>1. Marks(<<>>) = <<>>
  BY DEF Marks
<1>2. QED
  BY <1>1, WordsEmpty DEF Count

LEMMA CountConcat ==
  ASSUME NEW f \in Seq(Items), NEW g \in Seq(Items)
  PROVE  Count(f \o g) = Count(f) + Count(g)
<1>1. Marks(f \o g) = Marks(f) \o Marks(g)
  BY DEF Marks
<1>2. QED
  BY <1>1, MarksTyped, WordsConcat DEF Count

LEMMA CountOne ==
  ASSUME NEW x \in Items
  PROVE  Count(<<x>>) = IF IsWritten(x) THEN 1 ELSE 0
<1> DEFINE w == IF IsWritten(x) THEN 1 ELSE 0
<1>1. Marks(<<x>>) = <<Torn(w)>>
  BY DEF Marks
<1>2. w \in Nat
  OBVIOUS
<1> HIDE DEF w
<1>3. Torn(w) \in Items /\ Torn(w).words = w
  BY <1>2, TidyItems
<1>4. QED
  BY <1>1, <1>3, WordsOne DEF Count, w

LEMMA CountAppend ==
  ASSUME NEW f \in Seq(Items), NEW x \in Items
  PROVE  Count(Append(f, x)) = Count(f) + (IF IsWritten(x) THEN 1 ELSE 0)
<1>1. Append(f, x) = f \o <<x>> /\ <<x>> \in Seq(Items)
  OBVIOUS
<1>2. QED
  BY <1>1, CountConcat, CountOne

\* What is in front of a place and what is behind a later one.
LEMMA CountParts ==
  ASSUME NEW f \in Seq(Items), NEW j \in 0 .. Len(f), NEW k \in j .. Len(f)
  PROVE  /\ Count(SubSeq(f, 1, j)) + Count(SubSeq(f, k + 1, Len(f))) <= Count(f)
         /\ Count(SubSeq(f, 1, j)) \in Nat /\ Count(SubSeq(f, k + 1, Len(f))) \in Nat
<1> DEFINE p(i) == SubSeq(f, 1, i)
           s(i) == SubSeq(f, i + 1, Len(f))
           m == Marks(f)
<1>1. j \in 0 .. Len(f) /\ k \in 0 .. Len(f) /\ j <= k
  BY ItemWords
<1>2. ASSUME NEW i \in 0 .. Len(f)
      PROVE  Count(p(i)) = Ends(m)[i] /\ Count(s(i)) = Count(f) - Ends(m)[i]
  <2>1. m \in Seq(Items) /\ Len(m) = Len(f) /\ Len(f) \in Nat
    BY MarksTyped, ItemWords
  <2>2. Marks(p(i)) = SubSeq(m, 1, i) /\ Marks(s(i)) = SubSeq(m, i + 1, Len(m))
    BY <2>1 DEF Marks
  <2>3. QED
    BY <2>1, <2>2, PrefixWords, SuffixWords DEF Count
<1>3. /\ Count(p(j)) = Ends(m)[j] /\ Count(s(k)) = Count(f) - Ends(m)[k]
      /\ Ends(m)[j] <= Ends(m)[k] /\ Count(f) >= Ends(m)[k]
      /\ Ends(m)[j] \in Nat /\ Ends(m)[k] \in Nat /\ Count(f) \in Nat
  <2>1. m \in Seq(Items) /\ Len(m) = Len(f) /\ Len(f) \in Nat
    BY MarksTyped, ItemWords
  <2>2. Ends(m)[j] <= Ends(m)[k] /\ Ends(m)[k] <= Ends(m)[Len(m)]
    BY <1>1, <2>1, EndsGrow
  <2>3. Ends(m)[j] \in Nat /\ Ends(m)[k] \in Nat /\ Count(f) \in Nat
    BY <1>1, <2>1, EndsDef, MarksTyped
  <2>4. Count(f) = Ends(m)[Len(m)]
    BY DEF Count, Words
  <2>5. QED
    BY <1>1, <1>2, <2>2, <2>3, <2>4
<1> HIDE DEF p, s, m
<1>4. Count(p(j)) + Count(s(k)) <= Count(f) /\ Count(p(j)) \in Nat /\ Count(s(k)) \in Nat
  BY <1>3
<1>5. QED
  BY <1>4 DEF p, s

\* A count of at most one is what it says.
LEMMA CountAtMostOne ==
  ASSUME NEW f \in Seq(Items), Count(f) <= 1
  PROVE  \A i, j \in 1 .. Len(f) : IsWritten(f[i]) /\ IsWritten(f[j]) => i = j
<1> DEFINE m == Marks(f)
<1>1. m \in Seq(Items) /\ Len(m) = Len(f) /\ Len(f) \in Nat
  BY MarksTyped, ItemWords
<1>2. \A i \in 0 .. Len(f) : Ends(m)[i] \in Nat /\ Ends(m)[i] <= 1
  <2>1. ASSUME NEW i \in 0 .. Len(f) PROVE Ends(m)[i] \in Nat /\ Ends(m)[i] <= 1
    <3>1. Len(m) \in i .. Len(m) /\ i \in 0 .. Len(m)
      BY <1>1
    <3>2. Ends(m)[i] <= Ends(m)[Len(m)]
      BY <1>1, <3>1, EndsGrow
    <3>3. Ends(m)[i] \in Nat /\ Ends(m)[Len(m)] \in Nat
      BY <1>1, <3>1, EndsDef
    <3>4. QED
      BY <3>2, <3>3 DEF Count, Words
  <2>2. QED
    BY <2>1
<1>3. ASSUME NEW i \in 1 .. Len(f), IsWritten(f[i])
      PROVE  Ends(m)[i] = 1 /\ Ends(m)[i-1] = 0
  <2>1. Ends(m)[i] = Ends(m)[i-1] + 1
    BY <1>1, <1>3, EndsDef, MarksTyped
  <2>2. i - 1 \in 0 .. Len(f) /\ i \in 0 .. Len(f)
    BY <1>1
  <2>3. Ends(m)[i] \in Nat /\ Ends(m)[i] <= 1 /\ Ends(m)[i-1] \in Nat
    BY <1>2, <2>2
  <2>4. QED
    BY <2>1, <2>3
<1>4. ASSUME NEW i \in 1 .. Len(f), NEW j \in 1 .. Len(f), i < j,
             IsWritten(f[i]), IsWritten(f[j])
      PROVE  FALSE
  <2>1. i \in 0 .. Len(m) /\ j - 1 \in i .. Len(m)
    BY <1>1, <1>4
  <2>2. Ends(m)[i] <= Ends(m)[j-1]
    BY <1>1, <2>1, EndsGrow
  <2>3. Ends(m)[i] = 1 /\ Ends(m)[j-1] = 0
    BY <1>3, <1>4
  <2>4. QED
    BY <2>2, <2>3
<1>5. QED
  <2>1. SUFFICES ASSUME NEW i \in 1 .. Len(f), NEW j \in 1 .. Len(f),
                        IsWritten(f[i]), IsWritten(f[j])
                 PROVE  i = j
    OBVIOUS
  <2>2. ~(i < j) /\ ~(j < i)
    BY <1>4, <2>1
  <2>3. QED
    BY <1>1, <2>2

\* What is in front of a place in a sequence.
LEMMA CutTidy ==
  ASSUME NEW f \in Seq(Tidy), NEW n \in Nat
  PROVE  /\ Cut(f, n) \in Seq(Tidy) /\ Words(Cut(f, n)) <= n
         /\ \E k \in 0 .. Len(f) :
              /\ Ends(f)[k] <= n /\ (k = Len(f) \/ Ends(f)[k+1] > n)
              /\ Count(Cut(f, n)) = Count(SubSeq(f, 1, k))
              /\ k > 0 => Len(Cut(f, n)) > 0 /\ Cut(f, n)[1] = f[1]
<1> DEFINE k == CHOOSE i \in 0 .. Len(f) :
                   /\ Ends(f)[i] <= n
                   /\ i = Len(f) \/ Ends(f)[i+1] > n
           g == SubSeq(f, 1, k)
           rest == IF k < Len(f) /\ Ends(f)[k] < n THEN <<Torn(n - Ends(f)[k])>> ELSE <<>>
           c == Cut(f, n)
<1>1. c = g \o rest /\ f \in Seq(Items)
  BY TidyItems DEF Cut
<1>2. k \in 0 .. Len(f) /\ Ends(f)[k] <= n /\ (k = Len(f) \/ Ends(f)[k+1] > n)
  BY <1>1, CutPlace
<1> HIDE DEF k, c
<1>3. Len(f) \in Nat /\ k \in Nat /\ k <= Len(f) /\ Ends(f)[k] \in Nat
  BY <1>1, <1>2, ItemWords, EndsDef
<1>4. g \in Seq(Tidy) /\ Len(g) = k /\ \A i \in 1 .. k : g[i] = f[i]
  BY <1>3
<1>5. Words(g) = Ends(f)[k] /\ g \in Seq(Items)
  BY <1>1, <1>2, PrefixWords
<1>6. Count(g) \in Nat
  BY <1>5, MarksTyped
<1> HIDE DEF g
<1>7. c \in Seq(Tidy) /\ Words(c) <= n /\ Count(c) = Count(g) /\ (k > 0 => Len(c) > 0 /\ c[1] = g[1])
  <2>1. CASE k < Len(f) /\ Ends(f)[k] < n
    <3> DEFINE w == n - Ends(f)[k]
               t == Torn(w)
    <3>1. w \in Nat
      BY <1>3, <2>1
    <3>2. t \in Tidy /\ t \in Items /\ t.words = w /\ ~IsWritten(t)
      <4> HIDE DEF w
      <4>1. QED
        BY <3>1, TidyItems
    <3>3. c = g \o <<t>>
      BY <1>1, <2>1
    <3> HIDE DEF t
    <3>4. c = Append(g, t)
      BY <1>4, <3>2, <3>3
    <3>5. Words(c) = Words(g) + w /\ Count(c) = Count(g) + 0
      BY <1>5, <3>2, <3>4, WordsAppend, CountAppend
    <3>6. c \in Seq(Tidy) /\ (k > 0 => Len(c) > 0 /\ c[1] = g[1])
      BY <1>3, <1>4, <3>2, <3>4
    <3>7. QED
      BY <1>3, <1>5, <1>6, <3>5, <3>6
  <2>2. CASE ~(k < Len(f) /\ Ends(f)[k] < n)
    <3>1. c = g
      BY <1>1, <1>4, <2>2
    <3>2. QED
      BY <1>2, <1>3, <1>4, <1>5, <3>1
  <2>3. QED
    BY <2>1, <2>2
<1>8. k > 0 => g[1] = f[1]
  BY <1>3, <1>4
<1>9. k > 0 => Len(c) > 0 /\ c[1] = f[1]
  BY <1>7, <1>8
<1>10. QED
  BY <1>2, <1>7, <1>9 DEF g, c

\* And what is behind it.
LEMMA BeyondTidy ==
  ASSUME NEW f \in Seq(Tidy), NEW n \in Nat
  PROVE  /\ Beyond(f, n) \in Seq(Tidy)
         /\ Words(Beyond(f, n)) = IF n <= Words(f) THEN Words(f) - n ELSE 0
         /\ \E k \in 0 .. Len(f) :
              /\ k = Len(f) \/ Ends(f)[k] >= n
              /\ Count(Beyond(f, n)) = Count(SubSeq(f, k + 1, Len(f)))
<1> DEFINE Is(i) == /\ i = Len(f) \/ Ends(f)[i] >= n
                    /\ i = 0 \/ Ends(f)[i-1] < n
           k == CHOOSE i \in 0 .. Len(f) : Is(i)
           s == SubSeq(f, k + 1, Len(f))
           t == IF k > 0 /\ Ends(f)[k] > n THEN <<Torn(Ends(f)[k] - n)>> ELSE <<>>
           b == Beyond(f, n)
<1>1. b = t \o s /\ f \in Seq(Items)
  BY TidyItems DEF Beyond
<1>2. Len(f) \in Nat /\ \A i \in 0 .. Len(f) : Ends(f)[i] \in Nat
  BY <1>1, ItemWords, EndsDef
<1>3. \E i \in 0 .. Len(f) : Is(i)
  <2> DEFINE T == {i \in 0 .. Len(f) : i = Len(f) \/ Ends(f)[i] >= n}
  <2>1. T \in SUBSET Nat /\ T # {}
    BY <1>2
  <2>2. PICK m \in T : \A y \in T : m <= y
    <3> HIDE DEF T
    <3>1. QED
      BY <2>1, LeastNat
  <2>3. m = 0 \/ (m - 1 \in 0 .. Len(f) /\ m - 1 \notin T)
    BY <1>2, <2>2
  <2>4. m = 0 \/ Ends(f)[m-1] < n
    BY <1>2, <2>3
  <2>5. QED
    BY <2>2, <2>4
<1>4. k \in 0 .. Len(f) /\ Is(k)
  <2> HIDE DEF Is
  <2>1. QED
    BY <1>3
<1> HIDE DEF k, b
<1>5. Ends(f)[k] \in Nat /\ k \in Nat /\ k <= Len(f)
  BY <1>2, <1>4
<1>6. s \in Seq(Tidy)
  BY <1>2, <1>4
<1>7. s \in Seq(Items) /\ Words(s) = Words(f) - Ends(f)[k] /\ Words(f) \in Nat
  BY <1>1, <1>4, SuffixWords, WordsNat
<1>8. Count(s) \in Nat /\ Words(s) \in Nat
  BY <1>7, MarksTyped, WordsNat
<1>9. Ends(f)[k] <= Words(f) /\ (k = 0 => Ends(f)[k] = 0) /\ (k = Len(f) => Ends(f)[k] = Words(f))
  BY <1>1, <1>2, <1>4, EndsGrow, EndsDef DEF Words
<1> HIDE DEF s
<1>10. b \in Seq(Tidy) /\ Count(b) = Count(s)
       /\ Words(b) = Words(s) + (IF k > 0 /\ Ends(f)[k] > n THEN Ends(f)[k] - n ELSE 0)
  <2>1. CASE k > 0 /\ Ends(f)[k] > n
    <3> DEFINE w == Ends(f)[k] - n
               x == Torn(w)
    <3>1. w \in Nat
      BY <1>5, <2>1
    <3>2. x \in Tidy /\ x \in Items /\ x.words = w /\ ~IsWritten(x)
      <4> HIDE DEF w
      <4>1. QED
        BY <3>1, TidyItems
    <3>3. b = <<x>> \o s
      BY <1>1, <2>1
    <3> HIDE DEF x
    <3>4. <<x>> \in Seq(Items) /\ <<x>> \in Seq(Tidy) /\ Words(<<x>>) = w /\ Count(<<x>>) = 0
      BY <3>2, WordsOne, CountOne
    <3>5. Words(b) = w + Words(s) /\ Count(b) = 0 + Count(s) /\ b \in Seq(Tidy)
      <4> DEFINE y == <<x>>
      <4>1. b \in Seq(Tidy) /\ y \in Seq(Items) /\ b = y \o s
        BY <1>6, <3>3, <3>4
      <4>2. Words(y) = w /\ Count(y) = 0
        BY <3>4
      <4> HIDE DEF y, w
      <4>3. Words(b) = Words(y) + Words(s) /\ Count(b) = Count(y) + Count(s)
        BY <1>7, <4>1, WordsConcat, CountConcat
      <4>4. QED
        BY <4>1, <4>2, <4>3
    <3>6. QED
      BY <1>5, <1>8, <2>1, <3>1, <3>5
  <2>2. CASE ~(k > 0 /\ Ends(f)[k] > n)
    <3>1. b = s
      BY <1>1, <1>6, <2>2
    <3>2. QED
      BY <1>6, <1>8, <2>2, <3>1
  <2>3. QED
    BY <2>1, <2>2
<1>11. Words(b) = IF n <= Words(f) THEN Words(f) - n ELSE 0
  BY <1>4, <1>5, <1>7, <1>9, <1>10
<1>12. QED
  BY <1>4, <1>10, <1>11 DEF s, b

\* What writing over a file makes of it.
LEMMA WriteAtTidy ==
  ASSUME NEW f, f = Absent \/ f \in Seq(Tidy), NEW pos \in Nat, NEW s \in Seq(Tidy),
         Words(s) > 0
  PROVE  LET r == WriteAt(f, pos, s)
         IN  /\ r \in Seq(Tidy) /\ Words(r) \in Nat
             /\ Count(r) <= Count(Content(f)) + Count(s)
             /\ Words(r) <= Words(Content(f)) \/ Words(r) <= pos + Words(s)
             /\ pos <= Words(Content(f)) => Words(r) >= pos + Words(s)
<1> DEFINE c == Content(f)
           m == pos + Words(s)
           p == Cut(c, pos)
           b == Beyond(c, m)
           r == WriteAt(f, pos, s)
<1>1. c \in Seq(Tidy)
  BY DEF Content
<1>2. c \in Seq(Items) /\ s \in Seq(Items) /\ Words(c) \in Nat /\ Words(s) \in Nat
      /\ Count(c) \in Nat /\ Count(s) \in Nat
  BY <1>1, TidyItems, WordsNat, MarksTyped
<1> HIDE DEF c
<1>3. m \in Nat /\ m > pos
  BY <1>2
<1> HIDE DEF m
<1>4. r = p \o s \o b
  BY DEF WriteAt, c, m
<1>5. p \in Seq(Tidy) /\ Words(p) <= pos
  BY <1>1, CutTidy
<1>6. PICK j \in 0 .. Len(c) :
        /\ Ends(c)[j] <= pos /\ (j = Len(c) \/ Ends(c)[j+1] > pos)
        /\ Count(p) = Count(SubSeq(c, 1, j))
  BY <1>1, CutTidy
<1>7. b \in Seq(Tidy) /\ Words(b) = IF m <= Words(c) THEN Words(c) - m ELSE 0
  BY <1>1, <1>3, BeyondTidy
<1>8. PICK k \in 0 .. Len(c) :
        /\ k = Len(c) \/ Ends(c)[k] >= m
        /\ Count(b) = Count(SubSeq(c, k + 1, Len(c)))
  BY <1>1, <1>3, BeyondTidy
<1>9. k \in j .. Len(c)
  <2>1. Len(c) \in Nat /\ j \in Nat /\ k \in Nat
    BY <1>2
  <2>2. ASSUME k < j PROVE FALSE
    <3>1. Ends(c)[k] <= Ends(c)[j] /\ Ends(c)[k] \in Nat /\ Ends(c)[j] \in Nat
      <4>1. k \in 0 .. Len(c) /\ j \in k .. Len(c) /\ j \in 0 .. Len(c)
        BY <2>1, <2>2
      <4>2. Ends(c)[k] <= Ends(c)[j]
        BY <1>2, <4>1, EndsGrow
      <4>3. Ends(c)[k] \in Nat /\ Ends(c)[j] \in Nat
        BY <1>2, <4>1, EndsDef
      <4>4. QED
        BY <4>2, <4>3
    <3>2. Ends(c)[k] >= m
      BY <1>8, <2>1, <2>2
    <3>3. QED
      BY <1>3, <1>6, <3>1, <3>2
  <2>3. QED
    BY <2>1, <2>2
<1>10. Count(p) + Count(b) <= Count(c) /\ Count(p) \in Nat /\ Count(b) \in Nat
  BY <1>2, <1>6, <1>8, <1>9, CountParts
<1>11. pos <= Words(c) => Words(p) = pos
  BY <1>2, CutProperties
<1> HIDE DEF p, b
<1>12. /\ p \in Seq(Items) /\ b \in Seq(Items) /\ Words(p) \in Nat /\ Words(b) \in Nat
       /\ p \o s \in Seq(Items)
  BY <1>2, <1>5, <1>7, TidyItems, WordsNat
<1>13. /\ Words(r) = Words(p) + Words(s) + Words(b)
       /\ Count(r) = Count(p) + Count(s) + Count(b)
  BY <1>2, <1>4, <1>12, WordsConcat, CountConcat
<1>14. r \in Seq(Tidy)
  BY <1>4, <1>5, <1>7
<1> HIDE DEF r
<1>15. Words(r) \in Nat /\ Count(r) <= Count(c) + Count(s)
  <2> DEFINE cc == Count(c)
             cs == Count(s)
             cp == Count(p)
             cb == Count(b)
  <2>1. cp + cb <= cc /\ cp \in Nat /\ cb \in Nat /\ cc \in Nat /\ cs \in Nat
    BY <1>2, <1>10
  <2>2. Count(r) = cp + cs + cb
    BY <1>13
  <2>3. Words(r) \in Nat
    BY <1>2, <1>12, <1>13
  <2> HIDE DEF cc, cs, cp, cb
  <2>4. Count(r) <= cc + cs
    BY <2>1, <2>2
  <2>5. QED
    BY <2>3, <2>4 DEF cc, cs
<1>16. Words(r) <= Words(c) \/ Words(r) <= pos + Words(s)
  BY <1>2, <1>3, <1>5, <1>7, <1>12, <1>13, SMTT(30) DEF m
<1>17. pos <= Words(c) => Words(r) >= pos + Words(s)
  BY <1>2, <1>11, <1>12, <1>13
<1>18. QED
  BY <1>14, <1>15, <1>16, <1>17 DEF r, c

\* A part of a sequence has no more events than the whole.
LEMMA CutCount ==
  ASSUME NEW f \in Seq(Tidy), NEW n \in Nat
  PROVE  Count(Cut(f, n)) <= Count(f) /\ Count(Cut(f, n)) \in Nat
<1>1. f \in Seq(Items)
  BY TidyItems
<1>2. PICK k \in 0 .. Len(f) : Count(Cut(f, n)) = Count(SubSeq(f, 1, k))
  BY CutTidy
<1>3. k \in k .. Len(f) /\ Count(f) \in Nat
  BY <1>1, MarksTyped
<1>4. /\ Count(SubSeq(f, 1, k)) + Count(SubSeq(f, k + 1, Len(f))) <= Count(f)
      /\ Count(SubSeq(f, 1, k)) \in Nat /\ Count(SubSeq(f, k + 1, Len(f))) \in Nat
  BY <1>1, <1>3, CountParts
<1>5. QED
  BY <1>2, <1>3, <1>4

-----------------------------------------------------------------------------
(* The invariant.                                                          *)

\* The file f is within the limit l, if that is not 0.
Within(f, l) ==
  \/ l = 0 \/ f = Absent
  \/ /\ f \in Seq(Tidy)
     /\ Words(f) <= l + EV_HDSIZ \/ Count(f) <= 1

\* How long the file of the handle is when the stream is written out, and
\* when the buffer is flushed as well.
End(h) == h.pos + Words(h.pending)
Reach(h) == IF h.file THEN End(h) - EV_HDSIZ + h.wordsToBuf ELSE h.wordsToBuf

\* What was written and not split off yet.
Total(h, f) == Count(Content(f)) + Count(h.pending) + Count(h.buf)

\* A splitting handle, its file f and the limit l of that.
Flowing(h, f, l) ==
  /\ h.file <=> h.wordsToFile # 0
  /\ ~h.file => h.pending = <<>> /\ h.pos = 0
  /\ h.file => /\ f \in Seq(Tidy) /\ Words(f) <= End(h)
               /\ End(h) <= h.wordsToFile
               /\ Len(h.pending) > 0 /\ h.pending[1].words = EV_HDSIZ
               /\ l = h.split /\ h.fileName # -1
  /\ Total(h, f) <= 1 \/ Reach(h) <= h.split + EV_HDSIZ
  /\ Total(h, f) = 0 \/ l = h.split
  /\ h.blknum = 1 => ~h.file /\ h.eventsToBuf = 0 /\ h.commonBlkCount = 0
  /\ h.blknum = 2 => ~h.file /\ h.eventsToBuf >= h.commonBlkCount
  /\ h.blknum <= 2 /\ h.eventsToBuf <= h.commonBlkCount => Total(h, f) = 0
  /\ h.eventsToBuf = 0 => h.blknum = 1

\* A handle that does not split, if its file has a limit: nothing has been
\* written but a dictionary, or the last header of a file it appends to.
Untouched(h, f) ==
  /\ h.pending = <<>> /\ h.wordsToFile = 0 /\ Count(h.buf) = 0
  /\ h.rw = "pipe" => f = Absent /\ ~h.file
  /\ h.file => /\ h.append = 1 /\ f \in Seq(Tidy) /\ h.wordsToBuf = EV_HDSIZ
               /\ h.pos + EV_HDSIZ <= Words(f)

\* A splitting handle whose file was there before writes nothing to it.
HandleWithin(h, f, l) ==
  /\ h.buf \in Seq(Tidy) /\ h.pending \in Seq(Tidy)
  /\ h.first # <<>> => h.first[1].id <= 0
  /\ Common(h) = <<>> => h.commonBlkCount = 0
  /\ h.splitting => IF h.file \/ f = Absent THEN Flowing(h, f, l)
                    ELSE h.wordsToFile = 0 /\ h.pending = <<>>
  /\ ~h.splitting => l = 0 \/ Untouched(h, f)

SplitInv ==
  /\ limit \in [Names -> Nat]
  /\ \A n \in Names : Within(disk[n], limit[n])
  /\ Opened => HandleWithin(a, disk[NameOf(a)], limit[NameOf(a)])

-----------------------------------------------------------------------------
(* The buffer.                                                             *)

\* What the operations on the buffer leave alone.
SameFlow(r, h) ==
  /\ r.rw = h.rw /\ r.fileName = h.fileName /\ r.splitNumber = h.splitNumber
  /\ r.wordsToFile = h.wordsToFile /\ r.pending = h.pending
  /\ r.splitting = h.splitting /\ r.dict = h.dict /\ r.first = h.first
  /\ r.file = h.file /\ r.pos = h.pos /\ r.split = h.split
  /\ r.commonBlkCount = h.commonBlkCount

LEMMA HeadTidy ==
  ASSUME NEW x \in HeadItems, x.last => x.size = EV_HDSIZ
  PROVE  x \in Tidy /\ ~IsWritten(x)
BY DEF HeadItems, Tidy, Items, IsWritten

\* Headers that change do not count.
LEMMA HeadChanged ==
  ASSUME NEW f \in Seq(Tidy), NEW i \in 1 .. Len(f), f[i] \in HeadItems,
         NEW x \in HeadItems, x.last => x.size = EV_HDSIZ
  PROVE  LET g == [f EXCEPT ![i] = x]
         IN  g \in Seq(Tidy) /\ Len(g) = Len(f) /\ Count(g) = Count(f)
             /\ Words(g) = Words(f)
<1> DEFINE g == [f EXCEPT ![i] = x]
<1>1. x \in Tidy /\ ~IsWritten(x) /\ x.words = EV_HDSIZ
  BY HeadTidy, HeadIsItem
<1>2. ~IsWritten(f[i]) /\ f[i].words = EV_HDSIZ
  BY HeadIsItem DEF IsWritten
<1>3. /\ g \in Seq(Tidy) /\ Len(g) = Len(f) /\ g[i] = x
      /\ \A j \in 1 .. Len(f) : j # i => g[j] = f[j]
  BY <1>1
<1> HIDE DEF g
<1>4. f \in Seq(Items) /\ g \in Seq(Items)
  BY <1>3, TidyItems
<1>5. \A j \in 1 .. Len(f) : (IsWritten(f[j]) <=> IsWritten(g[j])) /\ f[j].words = g[j].words
  BY <1>1, <1>2, <1>3
<1>6. Count(g) = Count(f) /\ Words(g) = Words(f)
  BY <1>3, <1>4, <1>5, CountSame, WordsAgree
<1>7. QED
  BY <1>3, <1>6 DEF g

LEMMA EventAdded ==
  ASSUME NEW h \in Handles, NEW e \in EventItems, NEW isDictionary \in BOOLEAN,
         Ready(h), isDictionary => h.append = 0, h.buf \in Seq(Tidy)
  PROVE  LET r == writeEventToBuffer(h, e, isDictionary)
         IN  /\ r.buf \in Seq(Tidy)
             /\ Count(r.buf) = Count(h.buf) + (IF IsWritten(e) THEN 1 ELSE 0)
             /\ SameFlow(r, h)
             /\ r.eventsToBuf = h.eventsToBuf + 1
             /\ r.blknum = IF isLastBlock(h) THEN h.blknum + 1 ELSE h.blknum
<1> DEFINE n == h.blkEvCount + 1
           size == h.blksiz + e.words
           head == [h.buf[h.cur] EXCEPT !.size = size,
                      !.count = HeadCount(h, n, isDictionary), !.last = FALSE]
           b1 == [h.buf EXCEPT ![h.cur] = head]
           b2 == Append(b1, e)
           b3 == IF isDictionary THEN [b2 EXCEPT ![1].dict = TRUE] ELSE b2
           r == writeEventToBuffer(h, e, isDictionary)
<1>1. h.blksiz \in Nat /\ h.blkEvCount \in Nat /\ h.cur \in 1 .. Len(h.buf)
      /\ h.buf[h.cur] \in HeadItems /\ h.buf[1] \in HeadItems
  BY DEF Handles, Ready
<1>2. e \in Items /\ e \in Tidy /\ e.words \in Nat
  BY TidyItems DEF EventItems, Items
<1>3. HeadCount(h, n, isDictionary) \in Nat
  BY <1>1 DEF HeadCount
<1>4. head \in HeadItems /\ head.last = FALSE
  <2> HIDE DEF n
  <2>1. size \in Nat
    BY <1>1, <1>2
  <2> HIDE DEF size
  <2>2. QED
    BY <1>1, <1>3, <2>1 DEF HeadItems
<1> HIDE DEF head
<1>5. b1 \in Seq(Tidy) /\ Len(b1) = Len(h.buf) /\ Count(b1) = Count(h.buf)
  BY <1>1, <1>4, HeadChanged
<1>6. b1[1] \in HeadItems
  BY <1>1, <1>4
<1> HIDE DEF b1
<1>7. b1 \in Seq(Items) /\ Len(b1) \in Nat /\ Len(b1) >= 1
  BY <1>1, <1>5, TidyItems
<1>8. /\ b2 \in Seq(Tidy) /\ b2[1] = b1[1] /\ 1 \in 1 .. Len(b2)
      /\ Count(b2) = Count(h.buf) + (IF IsWritten(e) THEN 1 ELSE 0)
  <2>1. b2 \in Seq(Tidy) /\ b2[1] = b1[1] /\ 1 \in 1 .. Len(b2)
    BY <1>2, <1>5, <1>7
  <2>2. Count(b2) = Count(b1) + (IF IsWritten(e) THEN 1 ELSE 0)
    BY <1>2, <1>7, CountAppend
  <2>3. QED
    BY <1>5, <2>1, <2>2
<1> HIDE DEF b2
<1>9. b3 \in Seq(Tidy) /\ Count(b3) = Count(b2)
  <2>1. CASE ~isDictionary
    BY <1>8, <2>1
  <2>2. CASE isDictionary
    <3> DEFINE d == [b2[1] EXCEPT !.dict = TRUE]
    <3>1. d \in HeadItems /\ d.last = b2[1].last /\ d.size = b2[1].size
      BY <1>6, <1>8 DEF HeadItems
    <3>2. b3 = [b2 EXCEPT ![1] = d]
      BY <2>2
    <3>3. d.last => d.size = EV_HDSIZ
      <4>1. b2[1] \in Tidy /\ b2[1].kind = "head"
        BY <1>6, <1>8, HeadIsItem
      <4> HIDE DEF d
      <4>2. QED
        BY <3>1, <4>1 DEF Tidy
    <3> HIDE DEF d, b3
    <3>4. QED
      BY <1>6, <1>8, <3>1, <3>2, <3>3, HeadChanged
  <2>3. QED
    BY <2>1, <2>2
<1>10. r.buf = b3 /\ r.eventsToBuf = h.eventsToBuf + 1
       /\ r.blknum = IF isLastBlock(h) THEN h.blknum + 1 ELSE h.blknum
  BY DEF Handles, writeEventToBuffer, b2, b1, head
<1>11. SameFlow(r, h)
  BY DEF Handles, writeEventToBuffer, SameFlow
<1> HIDE DEF r, b3
<1>12. QED
  BY <1>8, <1>9, <1>10, <1>11 DEF r

\* An event in the current block, or in one of its own.
LEMMA Placed ==
  ASSUME NEW h \in Handles, NEW e \in EventItems, NEW newBlock \in BOOLEAN, Buffered(h),
         h.blknum = 1 => Len(h.buf) = 1, h.splitting => h.append = 0,
         h.buf \in Seq(Tidy)
  PROVE  LET r == Place(h, e, newBlock)
         IN  /\ r.buf \in Seq(Tidy)
             /\ Count(r.buf) = Count(h.buf) + (IF IsWritten(e) THEN 1 ELSE 0)
             /\ SameFlow(r, h)
             /\ r.eventsToBuf = h.eventsToBuf + 1
             /\ r.wordsToBuf <= h.wordsToBuf + e.words + EV_HDSIZ
             /\ r.blknum = IF newBlock \/ Len(h.buf) = 1 THEN h.blknum + 1 ELSE h.blknum
<1> DEFINE r == Place(h, e, newBlock)
<1>1. /\ h.buf \in Seq(Items) /\ h.wordsToBuf \in Nat
      /\ Words(h.buf) \in Nat /\ Len(h.buf) \in Nat /\ e.words \in Nat
      /\ h.blknum \in Nat \ {0}
  BY WordsNat DEF Handles, EventItems
<1>2. isLastBlock(h) <=> Len(h.buf) = 1
  BY <1>1 DEF Buffered, isLastBlock
<1>3. h.wordsToBuf >= EV_HDSIZ /\ Words(h.buf) >= EV_HDSIZ
  BY BufferWords
<1>4. CASE ~newBlock
  <2> DEFINE w == IF isLastBlock(h) THEN h.wordsToBuf ELSE h.wordsToBuf - EV_HDSIZ
             g == [h EXCEPT !.wordsToBuf = w]
  <2>1. r = writeEventToBuffer(g, e, FALSE)
    BY <1>4 DEF Place
  <2>2. w \in Nat /\ w <= h.wordsToBuf
    BY <1>1, <1>3 DEF EV_HDSIZ
  <2>3. w = Words(h.buf) - (IF h.cur # 1 /\ h.buf[1].last THEN EV_HDSIZ ELSE 0)
    <3>1. CASE Len(h.buf) = 1
      BY <1>1, <1>2, <3>1 DEF Buffered, EV_HDSIZ
    <3>2. CASE Len(h.buf) # 1
      <4>1. h.buf[1].last => h.cur # 1
        BY <3>2 DEF Buffered
      <4>2. QED
        BY <1>1, <1>2, <3>2, <4>1 DEF Buffered, EV_HDSIZ
    <3>3. QED
      BY <3>1, <3>2
  <2> HIDE DEF w
  <2>4. /\ g \in Handles /\ g.wordsToBuf = w /\ g.buf = h.buf /\ g.cur = h.cur
        /\ g.blksiz = h.blksiz /\ g.blknum = h.blknum /\ SameFlow(g, h)
        /\ g.append = h.append /\ g.eventsToBuf = h.eventsToBuf
        /\ g.splitting = h.splitting
    BY <2>2 DEF Handles, SameFlow
  <2> HIDE DEF g, r
  <2>5. Ready(g)
    BY <1>2, <2>3, <2>4 DEF Ready, Buffered, isLastBlock
  <2>6. /\ r.buf \in Seq(Tidy)
        /\ Count(r.buf) = Count(g.buf) + (IF IsWritten(e) THEN 1 ELSE 0)
        /\ SameFlow(r, g) /\ r.eventsToBuf = g.eventsToBuf + 1
        /\ r.blknum = IF isLastBlock(g) THEN g.blknum + 1 ELSE g.blknum
    BY <2>1, <2>4, <2>5, EventAdded
  <2>7. r.wordsToBuf = w + e.words + EV_HDSIZ
    BY <2>1, <2>4, <2>5, WriteEventOK
  <2>8. r.wordsToBuf <= h.wordsToBuf + e.words + EV_HDSIZ
    BY <1>1, <2>2, <2>7 DEF EV_HDSIZ
  <2>9. SameFlow(r, h)
    BY <2>4, <2>6 DEF SameFlow
  <2>10. r.blknum = IF newBlock \/ Len(h.buf) = 1 THEN h.blknum + 1 ELSE h.blknum
    BY <1>2, <1>4, <2>4, <2>6 DEF isLastBlock
  <2>11. QED
    BY <2>4, <2>6, <2>8, <2>9, <2>10 DEF r
<1>5. CASE newBlock
  <2> DEFINE hd == Header(EV_HDSIZ, h.blknum, 1, FALSE, FALSE)
             g == writeNewHeader(h)
  <2>1. r = writeEventToBuffer(g, e, FALSE)
    BY <1>5 DEF Place
  <2>2. hd \in HeadItems /\ hd.last = FALSE /\ hd.size = EV_HDSIZ
    BY <1>1 DEF Header, HeadItems, EV_HDSIZ
  <2>3. hd \in Tidy /\ hd \in Items /\ hd.words = EV_HDSIZ /\ ~IsWritten(hd)
    BY <2>2, HeadTidy, HeadIsItem
  <2> HIDE DEF hd
  <2>4. /\ g.buf = Append(h.buf, hd) /\ g.cur = Len(h.buf) + 1 /\ g.blksiz = EV_HDSIZ
        /\ g.blknum = h.blknum + 1 /\ g.wordsToBuf = h.wordsToBuf
        /\ SameFlow(g, h) /\ g.append = h.append /\ g.eventsToBuf = h.eventsToBuf
    BY DEF Handles, writeNewHeader, SameFlow, hd
  <2>5. g \in Handles
    <3> DEFINE bl == h.hidden \/ isLastBlock(h)
               bf == Append(h.buf, hd)
               ln == Len(h.buf) + 1
               bn == h.blknum + 1
    <3>1. bl \in BOOLEAN /\ bf \in Seq(Items) /\ ln \in Nat /\ bn \in Nat \ {0}
      BY <1>1, <2>3
    <3>2. g = [h EXCEPT !.buf = bf, !.cur = ln, !.blksiz = EV_HDSIZ, !.blkEvCount = 0,
                        !.blknum = bn, !.hidden = bl]
      BY DEF writeNewHeader, hd
    <3> HIDE DEF bl, bf, ln, bn, g
    <3>3. EV_HDSIZ \in Nat
      BY DEF EV_HDSIZ
    <3>4. QED
      BY <3>1, <3>2, <3>3 DEF Handles
  <2> HIDE DEF g, r
  <2>6. /\ Len(g.buf) = Len(h.buf) + 1 /\ g.buf[g.cur] = hd /\ g.buf[1] = h.buf[1]
        /\ Words(g.buf) = Words(h.buf) + EV_HDSIZ /\ Count(g.buf) = Count(h.buf) + 0
        /\ g.buf \in Seq(Tidy)
    <3>1. Len(h.buf) >= 1
      BY <1>1 DEF Buffered
    <3>2. QED
      BY <1>1, <2>3, <2>4, <3>1, WordsAppend, CountAppend
  <2>7. Ready(g)
    <3>1. g.cur \in 1 .. Len(g.buf) /\ g.cur # 1 /\ g.blknum # 1
      BY <1>1, <2>4, <2>6 DEF Buffered
    <3>2. Len(h.buf) = 1 => h.buf[1].last
      BY DEF Buffered
    <3>3. g.wordsToBuf = Words(g.buf) - (IF g.buf[1].last THEN EV_HDSIZ ELSE 0)
      BY <1>1, <2>4, <2>6, <3>2 DEF Buffered, EV_HDSIZ
    <3>4. QED
      BY <2>2, <2>4, <2>6, <3>1, <3>3 DEF Ready, Buffered, SameFlow
  <2>8. /\ r.buf \in Seq(Tidy)
        /\ Count(r.buf) = Count(g.buf) + (IF IsWritten(e) THEN 1 ELSE 0)
        /\ SameFlow(r, g) /\ r.eventsToBuf = g.eventsToBuf + 1
        /\ r.blknum = IF isLastBlock(g) THEN g.blknum + 1 ELSE g.blknum
    BY <2>1, <2>5, <2>6, <2>7, EventAdded
  <2>9. r.wordsToBuf = g.wordsToBuf + e.words + EV_HDSIZ
    BY <2>1, <2>5, <2>7, WriteEventOK
  <2>10. r.wordsToBuf <= h.wordsToBuf + e.words + EV_HDSIZ
    BY <1>1, <2>4, <2>9 DEF EV_HDSIZ
  <2>11. SameFlow(r, h)
    BY <2>4, <2>8 DEF SameFlow
  <2>12. r.blknum = h.blknum + 1
    BY <2>2, <2>4, <2>6, <2>8 DEF isLastBlock
  <2>13. Count(g.buf) = Count(h.buf)
    <3>1. Count(h.buf) \in Nat
      BY <1>1, MarksTyped
    <3>2. QED
      BY <2>6, <3>1
  <2>14. QED
    BY <1>5, <2>4, <2>8, <2>10, <2>11, <2>12, <2>13 DEF r
<1>6. QED
  BY <1>4, <1>5

\* An empty buffer.
LEMMA Emptied ==
  ASSUME NEW h \in Handles
  PROVE  LET r == resetBuffer(h)
         IN  /\ r.buf \in Seq(Tidy) /\ Count(r.buf) = 0 /\ r.eventsToBuf = 0
             /\ r.blknum = h.blknum /\ SameFlow(r, h)
<1> DEFINE r == resetBuffer(h)
           x == EmptyLast(h.blknum)
<1>1. x \in Tidy /\ x \in Items /\ ~IsWritten(x)
  BY TidyItems DEF Handles
<1>2. r.buf = <<x>> /\ r.eventsToBuf = 0 /\ r.blknum = h.blknum /\ SameFlow(r, h)
  BY DEF Handles, resetBuffer, SameFlow
<1> HIDE DEF r, x
<1>3. Count(<<x>>) = 0 /\ <<x>> \in Seq(Tidy)
  BY <1>1, CountOne
<1>4. QED
  BY <1>2, <1>3 DEF r

LEMMA Expanded ==
  ASSUME NEW h \in Handles, NEW size \in Nat
  PROVE  LET r == expandBuffer(h, size)
         IN  r.blknum = h.blknum /\ SameFlow(r, h)
BY DEF Handles, expandBuffer, SameFlow

LEMMA Prepared ==
  ASSUME NEW s \in Works, Filed(s.h), s.h.bufSize <= s.h.bufRealSize,
         NEW big \in BOOLEAN, NEW words \in Nat
  PROVE  LET t == Prepare(s, big, words, TRUE)
         IN  /\ t.h.buf \in Seq(Tidy) /\ Count(t.h.buf) = 0 /\ t.h.eventsToBuf = 0
             /\ t.h.blknum = s.h.blknum /\ SameFlow(t.h, s.h) /\ t.d = s.d /\ t.ok = s.ok
<1> DEFINE size == words + 2 * EV_HDSIZ
           room == IF big THEN expandBuffer(s.h, size) ELSE s.h
           r == resetBuffer(room)
           t == Prepare(s, big, words, TRUE)
<1>1. s.h \in Handles /\ s = [h |-> s.h, d |-> s.d, ok |-> s.ok]
  BY DEF Works
<1>2. t = [h |-> r, d |-> s.d, ok |-> s.ok]
  BY <1>1 DEF Prepare
<1>3. size \in Nat
  BY DEF EV_HDSIZ
<1> HIDE DEF size
<1>4. room \in Handles /\ room.blknum = s.h.blknum /\ SameFlow(room, s.h)
  <2>1. CASE big
    BY <1>1, <1>3, <2>1, ExpandOK, Expanded
  <2>2. CASE ~big
    BY <1>1, <2>2 DEF SameFlow
  <2>3. QED
    BY <2>1, <2>2
<1> HIDE DEF room
<1>5. /\ r.buf \in Seq(Tidy) /\ Count(r.buf) = 0 /\ r.eventsToBuf = 0
      /\ r.blknum = room.blknum /\ SameFlow(r, room)
  BY <1>4, Emptied
<1> HIDE DEF r, t
<1>6. t.h = r /\ t.d = s.d /\ t.ok = s.ok
  BY <1>2
<1>7. SameFlow(r, s.h)
  BY <1>4, <1>5 DEF SameFlow
<1>8. QED
  BY <1>4, <1>5, <1>6, <1>7 DEF t

\* The common block in an empty buffer.
LEMMA CommonWritten ==
  ASSUME NEW h \in Handles, Buffered(h), Len(h.buf) = 1,
         h.wordsToBuf = EV_HDSIZ, h.append = 0, Common(h) # <<>>,
         h.buf \in Seq(Tidy), Count(h.buf) = 0, h.first # <<>> => h.first[1].id <= 0
  PROVE  LET r == evWriteCommonBlock(h)
         IN  /\ r.buf \in Seq(Tidy) /\ Count(r.buf) = 0
             /\ r.blknum = h.blknum + 1 /\ SameFlow(r, h)
<1> DEFINE r == evWriteCommonBlock(h)
           d == Event(Dictionary, h.dict)
           e == h.first[1]
<1>1. /\ h.dict \in Nat /\ d \in EventItems /\ d.words = h.dict /\ ~IsWritten(d)
      /\ h.wordsToBuf \in Nat /\ h.blknum \in Nat
  <2>1. h.dict \in Nat /\ h.wordsToBuf \in Nat /\ h.blknum \in Nat
    BY DEF Handles
  <2>2. ~IsWritten(d)
    BY DEF IsWritten, Event, Dictionary
  <2>3. QED
    BY <2>1, <2>2, DictionaryItem
<1>2. h.first # <<>> => e \in EventItems /\ ~IsWritten(e)
  <2>1. h.first # <<>> => e \in EventItems /\ e.id <= 0
    BY FirstItem
  <2>2. \A x \in EventItems : x.id <= 0 => ~IsWritten(x)
    BY DEF EventItems, IsWritten
  <2>3. QED
    BY <2>1, <2>2
<1>3. h.dict # 0 \/ h.first # <<>>
  BY CommonWords
<1>4. isLastBlock(h) /\ h.cur = 1
  BY DEF Buffered, isLastBlock
<1>5. Ready(h)
  <2>1. Words(h.buf) \in Nat
    BY WordsNat DEF Handles
  <2>2. h.wordsToBuf = Words(h.buf)
    BY <2>1 DEF Buffered
  <2>3. h.wordsToBuf = Words(h.buf) - (IF h.cur # 1 /\ h.buf[1].last THEN EV_HDSIZ ELSE 0)
    BY <1>4, <2>1, <2>2
  <2>4. QED
    BY <1>4, <2>3 DEF Ready, Buffered, isLastBlock
<1>6. CASE h.dict = 0
  <2>1. h.first # <<>> /\ r = writeEventToBuffer(h, e, FALSE)
    BY <1>3, <1>6 DEF evWriteCommonBlock
  <2> HIDE DEF e, r
  <2>2. /\ r.buf \in Seq(Tidy) /\ Count(r.buf) = 0 + 0 /\ SameFlow(r, h)
        /\ r.blknum = h.blknum + 1
    BY <1>2, <1>4, <1>5, <2>1, EventAdded
  <2>3. QED
    BY <2>2 DEF r
<1>7. CASE h.dict # 0
  <2> DEFINE w == writeEventToBuffer(h, d, TRUE)
  <2>1. /\ w \in Handles /\ Buffered(w) /\ Unused(w)
        /\ Len(w.buf) > 1 /\ w.blknum > 1
    <3> HIDE DEF d
    <3>1. QED
      BY <1>1, <1>5, WriteEventOK
  <2>2. /\ w.buf \in Seq(Tidy) /\ Count(w.buf) = 0 + 0 /\ SameFlow(w, h)
        /\ w.blknum = h.blknum + 1
    <3> HIDE DEF d
    <3>1. QED
      BY <1>1, <1>4, <1>5, EventAdded
  <2>3. CASE h.first = <<>>
    <3>1. r = w
      BY <1>7, <2>3 DEF evWriteCommonBlock
    <3> HIDE DEF w, r
    <3>2. QED
      BY <2>2, <3>1 DEF r
  <2>4. CASE h.first # <<>>
    <3>1. r = writeEventToBuffer([w EXCEPT !.wordsToBuf = w.wordsToBuf - EV_HDSIZ], e, FALSE)
      BY <1>7, <2>4 DEF evWriteCommonBlock
    <3> HIDE DEF w
    <3>2. Len(w.buf) # 1 /\ w.blknum # 1
      <4>1. w.blknum \in Nat /\ Len(w.buf) \in Nat
        <5>1. w.buf \in Seq(Items) /\ w.blknum \in Nat
          BY <2>1 DEF Handles
        <5>2. QED
          BY <5>1
      <4>2. \A x \in Nat : x > 1 => x # 1
        OBVIOUS
      <4>3. QED
        BY <2>1, <4>1, <4>2
    <3>3. ~isLastBlock(w)
      BY <2>1, <3>2 DEF Buffered, isLastBlock
    <3>4. r = Place(w, e, FALSE)
      BY <3>1, <3>3 DEF Place
    <3> HIDE DEF r, e
    <3>5. w.splitting => w.append = 0
      BY <2>1 DEF Unused
    <3>6. /\ r.buf \in Seq(Tidy) /\ Count(r.buf) = Count(w.buf) + 0
          /\ SameFlow(r, w) /\ r.blknum = w.blknum
      BY <1>2, <2>1, <2>2, <2>4, <3>2, <3>4, <3>5, Placed
    <3>7. SameFlow(r, h)
      BY <2>2, <3>6 DEF SameFlow
    <3>8. QED
      BY <2>2, <3>6, <3>7 DEF r
  <2>5. QED
    BY <2>3, <2>4
<1>8. QED
  BY <1>6, <1>7

LEMMA Begun ==
  ASSUME NEW s \in Works, HandleOK(s.h), s.h.append = 0, Common(s.h) # <<>>,
         s.h.first # <<>> => s.h.first[1].id <= 0, NEW words \in Nat
  PROVE  LET t == Begin(s, words)
         IN  /\ t.h.buf \in Seq(Tidy) /\ Count(t.h.buf) = 0
             /\ t.h.blknum = s.h.blknum + 1 /\ SameFlow(t.h, s.h) /\ t.d = s.d
<1> DEFINE h == s.h
           needed == Words(Common(h)) + 3 * EV_HDSIZ + words
           x == expandBuffer(h, needed)
           r == resetBuffer(x)
           b == evWriteCommonBlock(r)
           t == Begin(s, words)
<1>1. /\ h \in Handles /\ s = [h |-> h, d |-> s.d, ok |-> s.ok] /\ Filed(h)
      /\ h.bufSize <= h.bufRealSize
  BY DEF Works, HandleOK, Roomy
<1>2. t = [h |-> b, d |-> s.d, ok |-> s.ok]
  BY <1>1 DEF Begin
<1>3. needed \in Nat /\ needed >= EV_HDSIZ
  <2>1. h.dict \in Nat
    BY <1>1 DEF Handles
  <2>2. h.first # <<>> => h.first[1].words \in Nat
    BY <1>1, FirstItem
  <2>3. Words(Common(h)) \in Nat
    BY <1>1, <2>1, <2>2, CommonWords
  <2>4. QED
    BY <2>3 DEF EV_HDSIZ
<1> HIDE DEF needed
<1>4. /\ x \in Handles /\ x.bufSize >= needed /\ x.bufSize <= x.bufRealSize /\ Filed(x)
      /\ x.append = h.append
  BY <1>1, <1>3, ExpandOK
<1>5. x.blknum = h.blknum /\ SameFlow(x, h)
  BY <1>1, <1>3, Expanded
<1> HIDE DEF x
<1>6. x.bufSize >= EV_HDSIZ
  <2>1. x.bufSize \in Nat
    BY <1>4 DEF Handles
  <2>2. QED
    BY <1>3, <1>4, <2>1 DEF EV_HDSIZ
<1>7. HandleOK(r) /\ Len(r.buf) = 1 /\ r.wordsToBuf = EV_HDSIZ /\ r.append = x.append
  BY <1>4, <1>6, ResetOK
<1>8. r.buf \in Seq(Tidy) /\ Count(r.buf) = 0 /\ r.blknum = x.blknum /\ SameFlow(r, x)
  BY <1>4, Emptied
<1> HIDE DEF r
<1>9. Common(r) # <<>> /\ (r.first # <<>> => r.first[1].id <= 0) /\ r.append = 0
  BY <1>4, <1>5, <1>7, <1>8 DEF Common, SameFlow
<1>10. r \in Handles /\ Buffered(r)
  BY <1>7 DEF HandleOK
<1>11. b.buf \in Seq(Tidy) /\ Count(b.buf) = 0 /\ b.blknum = r.blknum + 1 /\ SameFlow(b, r)
  BY <1>7, <1>8, <1>9, <1>10, CommonWritten
<1> HIDE DEF b
<1>12. t.h = b /\ t.d = s.d
  BY <1>2
<1>13. SameFlow(b, h)
  BY <1>5, <1>8, <1>11 DEF SameFlow
<1>14. QED
  BY <1>5, <1>8, <1>11, <1>12, <1>13

-----------------------------------------------------------------------------
(* Flushing and splitting.                                                 *)

\* What is flushed begins with a header and ends where the handle says.
LEMMA FlushedWords ==
  ASSUME NEW h \in Handles, Buffered(h), h.buf \in Seq(Tidy)
  PROVE  LET words == Cut(Memory(h), h.wordsToBuf)
             piped == Cut(Memory(h), h.wordsToBuf - EV_HDSIZ)
         IN  /\ words \in Seq(Tidy) /\ Words(words) = h.wordsToBuf
             /\ Len(words) > 0 /\ words[1].words = EV_HDSIZ
             /\ Count(words) \in Nat /\ Count(words) <= Count(h.buf)
             /\ piped \in Seq(Tidy)
             /\ Count(piped) \in Nat /\ Count(piped) <= Count(h.buf)
<1> DEFINE m == Memory(h)
           n == h.wordsToBuf
           x == EmptyLast(h.blknum)
           words == Cut(m, n)
           piped == Cut(m, n - EV_HDSIZ)
<1>1. /\ m \in Seq(Items) /\ n <= Words(m) /\ n \in Nat /\ n >= EV_HDSIZ
      /\ n - EV_HDSIZ \in Nat
  BY BufferWords
<1>2. x \in Tidy /\ x \in Items /\ ~IsWritten(x) /\ h.buf \in Seq(Items)
  BY TidyItems DEF Handles
<1>3. m = Append(h.buf, x)
  BY DEF Memory
<1>4. h.buf[1].words = EV_HDSIZ /\ Len(h.buf) \in Nat /\ Len(h.buf) >= 1
  BY <1>2, HeadIsItem DEF Buffered
<1> HIDE DEF m, x
<1>5. m \in Seq(Tidy) /\ m[1] = h.buf[1] /\ 1 \in 1 .. Len(m)
  BY <1>2, <1>3, <1>4
<1>6. Count(m) = Count(h.buf)
  <2>1. Count(m) = Count(h.buf) + 0
    BY <1>2, <1>3, CountAppend
  <2>2. QED
    BY <1>2, <2>1, MarksTyped
<1> HIDE DEF n
<1>7. words \in Seq(Tidy) /\ Words(words) = n /\ Count(words) \in Nat /\ Count(words) <= Count(m)
  BY <1>1, <1>5, CutTidy, CutProperties, CutCount
<1>8. piped \in Seq(Tidy) /\ Count(piped) \in Nat /\ Count(piped) <= Count(m)
  BY <1>1, <1>5, CutTidy, CutCount
<1>9. PICK k \in 0 .. Len(m) :
        /\ Ends(m)[k] <= n /\ (k = Len(m) \/ Ends(m)[k+1] > n)
        /\ k > 0 => Len(words) > 0 /\ words[1] = m[1]
  BY <1>1, <1>5, CutTidy
<1>10. k # 0
  <2>1. Ends(m)[1] = EV_HDSIZ
    BY <1>1, <1>4, <1>5, EndsDef, SMTT(30) DEF EV_HDSIZ
  <2>2. k = 0 => Ends(m)[k+1] > n
    BY <1>5, <1>9
  <2>3. QED
    BY <1>1, <2>1, <2>2 DEF EV_HDSIZ
<1>11. Len(words) > 0 /\ words[1] = m[1]
  <2>1. k > 0
    BY <1>10
  <2>2. QED
    BY <1>9, <2>1
<1>12. QED
  BY <1>4, <1>5, <1>6, <1>7, <1>8, <1>11 DEF m, n

\* The stream written out.
LEMMA SyncedTidy ==
  ASSUME NEW h, NEW d \in Disks, NameOf(h) \in Names, h.pos \in Nat,
         h.pending \in Seq(Tidy), Words(h.pending) > 0,
         d[NameOf(h)] = Absent \/ d[NameOf(h)] \in Seq(Tidy)
  PROVE  LET r == Synced(h, d)
             f == d[NameOf(h)]
         IN  /\ r[NameOf(h)] \in Seq(Tidy)
             /\ \A m \in Names : m # NameOf(h) => r[m] = d[m]
             /\ Words(r[NameOf(h)]) <= Words(Content(f)) \/ Words(r[NameOf(h)]) <= End(h)
             /\ Count(r[NameOf(h)]) <= Count(Content(f)) + Count(h.pending)
<1> DEFINE n == NameOf(h)
           f == d[n]
           w == WriteAt(f, h.pos, h.pending)
           r == Synced(h, d)
<1>1. h.pending # <<>>
  BY WordsEmpty
<1>2. r = [d EXCEPT ![n] = w]
  BY <1>1 DEF Synced
<1> HIDE DEF r, w
<1>3. r[n] = w /\ \A m \in Names : m # n => r[m] = d[m]
  BY <1>2 DEF Disks
<1>4. /\ w \in Seq(Tidy) /\ Count(w) <= Count(Content(f)) + Count(h.pending)
      /\ Words(w) <= Words(Content(f)) \/ Words(w) <= h.pos + Words(h.pending)
  BY WriteAtTidy DEF w
<1>5. QED
  BY <1>3, <1>4 DEF End, r

\* The outcomes of a flush.
LEMMA FlushCases ==
  ASSUME NEW s \in Works, HandleOK(s.h)
  PROVE  LET h     == s.h
             t     == evFlush(s)
             name  == NameOf(h)
             words == Cut(Memory(h), h.wordsToBuf)
             piped == Cut(Memory(h), h.wordsToBuf - EV_HDSIZ)
             isNew == h.wordsToFile = 0 /\ ~h.file
             Kept(g) == /\ g.splitting = h.splitting /\ g.buf = h.buf
                        /\ g.split = h.split /\ g.commonBlkCount = h.commonBlkCount
                        /\ g.eventsToBuf = h.eventsToBuf /\ g.blknum = h.blknum
                        /\ g.first = h.first /\ g.dict = h.dict /\ NameOf(g) = name
         IN  /\ Kept(t.h)
             /\ h.eventsToBuf < 1 => t = s
             /\ ~(h.eventsToBuf < 1) /\ h.rw = "pipe" =>
                  /\ t.d = [s.d EXCEPT ![Pipe] = Content(s.d[Pipe]) \o piped]
                  /\ t.ok = s.ok /\ t.h.pending = h.pending
             /\ ~(h.eventsToBuf < 1) /\ h.rw # "pipe" /\ isNew /\ h.splitting /\ s.d[name] # Absent =>
                  /\ t.d = s.d /\ t.ok = FALSE
                  /\ t.h.file = h.file /\ t.h.pending = h.pending
                  /\ t.h.wordsToFile = h.wordsToFile
             /\ ~(h.eventsToBuf < 1) /\ h.rw # "pipe" /\ isNew /\ ~(h.splitting /\ s.d[name] # Absent) =>
                  /\ t.d = [s.d EXCEPT ![name] = <<>>] /\ t.ok = s.ok
                  /\ t.h.file /\ t.h.pos = 0 /\ t.h.pending = words
                  /\ t.h.fileName = name
                  /\ t.h.wordsToFile = h.wordsToFile + h.wordsToBuf
             /\ ~(h.eventsToBuf < 1) /\ h.rw # "pipe" /\ ~isNew =>
                  /\ t.d = Synced(h, s.d) /\ t.ok = s.ok
                  /\ t.h.file = h.file /\ t.h.pos = SeekBack(h) /\ t.h.pending = words
                  /\ t.h.fileName = h.fileName
                  /\ t.h.wordsToFile = h.wordsToFile + h.wordsToBuf
<1> DEFINE h == s.h
           t == evFlush(s)
           name == NameOf(h)
           words == Cut(Memory(h), h.wordsToBuf)
           piped == Cut(Memory(h), h.wordsToBuf - EV_HDSIZ)
           isNew == h.wordsToFile = 0 /\ ~h.file
           next == IF h.fileName = -1 THEN h.splitNumber + 1 ELSE h.splitNumber
           Kept(g) == /\ g.splitting = h.splitting /\ g.buf = h.buf
                      /\ g.split = h.split /\ g.commonBlkCount = h.commonBlkCount
                      /\ g.eventsToBuf = h.eventsToBuf /\ g.blknum = h.blknum
                      /\ g.first = h.first /\ g.dict = h.dict /\ NameOf(g) = name
<1>1. h \in Handles /\ s = [h |-> h, d |-> s.d, ok |-> s.ok] /\ Filed(h)
  BY DEF Works, HandleOK
<1>2. h.rw # "pipe" => h.rw = "file" /\ name # -1
  <2>1. h.rw \in {"file", "pipe"} /\ name \in Names
    BY <1>1 DEF Handles, Filed
  <2>2. -1 \notin Names
    BY SizesAssumption DEF Names
  <2>3. QED
    BY <2>1, <2>2
<1>3. CASE h.eventsToBuf < 1
  <2>1. t = s
    BY <1>3 DEF evFlush
  <2>2. QED
    BY <1>3, <2>1
<1>4. CASE ~(h.eventsToBuf < 1) /\ h.rw = "pipe"
  <2> DEFINE w == h.wordsToFile + h.wordsToBuf - EV_HDSIZ
             g == [h EXCEPT !.wordsToFile = w]
             d == [s.d EXCEPT ![Pipe] = Content(s.d[Pipe]) \o piped]
  <2>1. t = [h |-> g, d |-> d, ok |-> s.ok]
    BY <1>1, <1>4 DEF evFlush
  <2> HIDE DEF w
  <2>2. Kept(g) /\ g.pending = h.pending
    BY <1>1 DEF Handles, NameOf
  <2> HIDE DEF g, d
  <2>3. t.h = g /\ t.d = d /\ t.ok = s.ok
    BY <2>1
  <2>4. QED
    BY <1>4, <2>2, <2>3 DEF d
<1>5. CASE ~(h.eventsToBuf < 1) /\ h.rw # "pipe" /\ isNew /\ h.splitting /\ s.d[name] # Absent
  <2> DEFINE g == [h EXCEPT !.fileName = name, !.splitNumber = next]
  <2>1. t = [h |-> g, d |-> s.d, ok |-> FALSE]
    BY <1>1, <1>5 DEF evFlush
  <2>2. NameOf(g) = name
    <3>1. g.rw = h.rw /\ g.fileName = name
      BY <1>1 DEF Handles
    <3> HIDE DEF g
    <3>2. QED
      BY <1>2, <1>5, <3>1 DEF NameOf
  <2>3. /\ Kept(g) /\ g.file = h.file /\ g.pending = h.pending
        /\ g.wordsToFile = h.wordsToFile
    BY <1>1, <2>2 DEF Handles
  <2> HIDE DEF g
  <2>4. t.h = g /\ t.d = s.d /\ t.ok = FALSE
    BY <2>1
  <2>5. QED
    BY <1>5, <2>3, <2>4
<1>6. CASE ~(h.eventsToBuf < 1) /\ h.rw # "pipe" /\ isNew /\ ~(h.splitting /\ s.d[name] # Absent)
  <2> DEFINE w == h.wordsToFile + h.wordsToBuf
             g == [h EXCEPT !.fileName = name, !.splitNumber = next, !.file = TRUE,
                            !.pos = 0, !.pending = words, !.wordsToFile = w]
             d == [s.d EXCEPT ![name] = <<>>]
  <2>1. t = [h |-> g, d |-> d, ok |-> s.ok]
    BY <1>1, <1>6 DEF evFlush
  <2> HIDE DEF w
  <2>2. NameOf(g) = name
    <3>1. g.rw = h.rw /\ g.fileName = name
      BY <1>1 DEF Handles
    <3> HIDE DEF g
    <3>2. QED
      BY <1>2, <1>6, <3>1 DEF NameOf
  <2>3. /\ Kept(g) /\ g.file /\ g.pos = 0 /\ g.pending = words /\ g.wordsToFile = w
        /\ g.fileName = name
    BY <1>1, <2>2 DEF Handles
  <2> HIDE DEF g, d
  <2>4. t.h = g /\ t.d = d /\ t.ok = s.ok
    BY <2>1
  <2>5. QED
    BY <1>6, <2>3, <2>4 DEF d, w
<1>7. CASE ~(h.eventsToBuf < 1) /\ h.rw # "pipe" /\ ~isNew
  <2> DEFINE w == h.wordsToFile + h.wordsToBuf
             p == SeekBack(h)
             g == [h EXCEPT !.pos = p, !.pending = words, !.wordsToFile = w]
             d == Synced(h, s.d)
  <2>1. t = [h |-> g, d |-> d, ok |-> s.ok]
    BY <1>1, <1>7 DEF evFlush
  <2> HIDE DEF w, p
  <2>2. /\ Kept(g) /\ g.file = h.file /\ g.pos = p /\ g.pending = words
        /\ g.wordsToFile = w /\ g.fileName = h.fileName
    BY <1>1 DEF Handles, NameOf
  <2> HIDE DEF g, d
  <2>3. t.h = g /\ t.d = d /\ t.ok = s.ok
    BY <2>1
  <2>4. QED
    BY <1>7, <2>2, <2>3 DEF d, w, p
<1>8. QED
  BY <1>3, <1>4, <1>5, <1>6, <1>7

LEMMA HeaderFirst ==
  ASSUME NEW f \in Seq(Items), Len(f) > 0, f[1].words = EV_HDSIZ
  PROVE  Words(f) >= EV_HDSIZ /\ Ends(f)[1] = EV_HDSIZ
<1>1. Len(f) \in Nat /\ 1 \in 1 .. Len(f)
  OBVIOUS
<1>2. Ends(f)[1] = EV_HDSIZ
  BY <1>1, EndsDef DEF EV_HDSIZ
<1>3. QED
  BY <1>1, <1>2, EndsGrow DEF Words

LEMMA TotalNat ==
  ASSUME NEW h \in Handles, NEW f, f = Absent \/ f \in Seq(Items)
  PROVE  /\ Count(Content(f)) \in Nat /\ Count(h.pending) \in Nat /\ Count(h.buf) \in Nat
         /\ Total(h, f) \in Nat /\ Content(f) \in Seq(Items) /\ Words(Content(f)) \in Nat
<1>1. Content(f) \in Seq(Items) /\ h.pending \in Seq(Items) /\ h.buf \in Seq(Items)
  BY DEF Content, Handles
<1>2. Count(Content(f)) \in Nat /\ Count(h.pending) \in Nat /\ Count(h.buf) \in Nat
  BY <1>1, MarksTyped
<1>3. Words(Content(f)) \in Nat
  BY <1>1, WordsNat
<1>4. QED
  BY <1>1, <1>2, <1>3 DEF Total

LEMMA AbsentIsNoFile == Absent \notin Seq(Items)
<1>1. Absent[1] \notin Items /\ Len(Absent) = 1
  BY DEF Absent, Items, HeadItems, EventItems, TornItems
<1>2. QED
  BY <1>1

\* A splitting handle flushes to its own file.
LEMMA FlushFlowing ==
  ASSUME NEW s \in Works, HandleOK(s.h), s.h.splitting, NEW l,
         s.h.buf \in Seq(Tidy), s.h.pending \in Seq(Tidy),
         s.h.file \/ s.d[NameOf(s.h)] = Absent,
         Flowing(s.h, s.d[NameOf(s.h)], l), s.h.eventsToBuf > 0
  PROVE  LET h == s.h
             t == evFlush(s)
             g == t.h
             n == NameOf(h)
         IN  /\ t.ok = s.ok /\ NameOf(g) = n /\ g.file /\ g.fileName # -1
             /\ g.pending \in Seq(Tidy)
             /\ Len(g.pending) > 0 /\ g.pending[1].words = EV_HDSIZ
             /\ t.d[n] \in Seq(Tidy) /\ \A m \in Names : m # n => t.d[m] = s.d[m]
             /\ Words(t.d[n]) <= End(g) /\ End(g) = Reach(h) /\ End(g) <= g.wordsToFile
             /\ g.wordsToFile = h.wordsToFile + h.wordsToBuf /\ g.wordsToFile # 0
             /\ Count(t.d[n]) + Count(g.pending) <= Total(h, s.d[n])
<1> DEFINE h == s.h
           t == evFlush(s)
           g == t.h
           n == NameOf(h)
           f == s.d[n]
           words == Cut(Memory(h), h.wordsToBuf)
<1>1. /\ h \in Handles /\ s.d \in Disks /\ Buffered(h) /\ n \in Names /\ h.rw = "file"
      /\ h.pos \in Nat /\ h.wordsToFile \in Nat /\ h.eventsToBuf \in Nat
      /\ h.file \in BOOLEAN
  BY DEF Works, HandleOK, Filed, Handles
<1>2. /\ words \in Seq(Tidy) /\ Words(words) = h.wordsToBuf
      /\ Len(words) > 0 /\ words[1].words = EV_HDSIZ
      /\ Count(words) \in Nat /\ Count(words) <= Count(h.buf)
  BY <1>1, FlushedWords
<1>3. h.wordsToBuf \in Nat /\ h.wordsToBuf >= EV_HDSIZ
  BY <1>1, BufferWords
<1>4. ~(h.eventsToBuf < 1) /\ h.rw # "pipe" /\ (h.file <=> h.wordsToFile # 0)
  BY <1>1 DEF Flowing
<1>5. /\ Count(Content(f)) \in Nat /\ Count(h.pending) \in Nat /\ Count(h.buf) \in Nat
      /\ Words(Content(f)) \in Nat
  <2>1. f = Absent \/ f \in Seq(Items)
    BY <1>1, DiskTyped
  <2>2. QED
    BY <1>1, <2>1, TotalNat
<1>6. NameOf(g) = n
  BY FlushCases
<1> HIDE DEF words
<1>7. CASE ~h.file
  <2>1. /\ t.d = [s.d EXCEPT ![n] = <<>>] /\ t.ok = s.ok
        /\ g.file /\ g.pos = 0 /\ g.pending = words /\ g.fileName = n
        /\ g.wordsToFile = h.wordsToFile + h.wordsToBuf
    BY <1>4, <1>7, FlushCases DEF words
  <2>2. h.wordsToFile = 0 /\ f = Absent
    BY <1>4, <1>7
  <2> HIDE DEF g, t
  <2>3. t.d[n] = <<>> /\ \A m \in Names : m # n => t.d[m] = s.d[m]
    BY <1>1, <2>1 DEF Disks
  <2>4. t.d[n] \in Seq(Tidy) /\ Words(t.d[n]) = 0 /\ Count(t.d[n]) = 0
    BY <2>3, WordsEmpty, CountEmpty
  <2>5. End(g) = h.wordsToBuf /\ Reach(h) = h.wordsToBuf /\ g.wordsToFile = h.wordsToBuf
    BY <1>2, <1>3, <1>7, <2>1, <2>2 DEF End, Reach
  <2>6. Count(t.d[n]) + Count(g.pending) <= Total(h, f)
    BY <1>2, <1>5, <2>1, <2>4 DEF Total
  <2>7. Words(t.d[n]) <= End(g) /\ End(g) <= g.wordsToFile /\ g.wordsToFile # 0
    BY <1>3, <2>4, <2>5 DEF EV_HDSIZ
  <2>8. n # -1
    BY <1>1, SizesAssumption DEF Names
  <2>9. QED
    BY <1>2, <1>6, <2>1, <2>3, <2>4, <2>5, <2>6, <2>7, <2>8 DEF t, g
<1>8. CASE h.file
  <2>1. /\ t.d = Synced(h, s.d) /\ t.ok = s.ok
        /\ g.file = h.file /\ g.pos = SeekBack(h) /\ g.pending = words
        /\ g.wordsToFile = h.wordsToFile + h.wordsToBuf /\ g.fileName = h.fileName
    BY <1>4, <1>8, FlushCases DEF words
  <2>2. /\ f \in Seq(Tidy) /\ Words(f) <= End(h) /\ End(h) <= h.wordsToFile
        /\ h.fileName # -1
        /\ Len(h.pending) > 0 /\ h.pending[1].words = EV_HDSIZ /\ h.wordsToFile # 0
    BY <1>8 DEF Flowing
  <2>3. Content(f) = f
    BY <2>2, AbsentIsNoFile, TidyItems DEF Content
  <2>4. Words(h.pending) \in Nat /\ Words(h.pending) >= EV_HDSIZ
    BY <2>2, TidyItems, WordsNat, HeaderFirst
  <2> HIDE DEF g, t
  <2>5. Words(h.pending) > 0
    BY <2>4 DEF EV_HDSIZ
  <2>6. /\ t.d[n] \in Seq(Tidy) /\ \A m \in Names : m # n => t.d[m] = s.d[m]
        /\ Words(t.d[n]) <= Words(Content(f)) \/ Words(t.d[n]) <= End(h)
        /\ Count(t.d[n]) <= Count(Content(f)) + Count(h.pending)
    <3> HIDE DEF f
    <3>1. f = s.d[n]
      BY DEF f
    <3>2. QED
      BY <1>1, <2>1, <2>2, <2>5, <3>1, SyncedTidy
  <2>7. End(h) = h.pos + Words(h.pending) /\ End(h) \in Nat
    BY <1>1, <2>4 DEF End
  <2>8. Words(t.d[n]) \in Nat /\ Count(t.d[n]) \in Nat
    BY <2>6, TidyItems, WordsNat, MarksTyped
  <2>9. Words(t.d[n]) <= End(h)
    BY <1>5, <2>2, <2>3, <2>6, <2>7, <2>8
  <2>10. End(g) = End(h) - EV_HDSIZ + h.wordsToBuf
    <3> DEFINE p == Words(h.pending)
    <3>1. g.pos = h.pos + p - EV_HDSIZ /\ Words(g.pending) = h.wordsToBuf
      BY <1>2, <2>1, <2>2 DEF SeekBack
    <3>2. h.pos \in Nat /\ p \in Nat /\ End(h) = h.pos + p /\ h.wordsToBuf \in Nat
      BY <1>1, <1>3, <2>4, <2>7
    <3> HIDE DEF p
    <3>3. End(g) = g.pos + Words(g.pending)
      BY DEF End
    <3>4. QED
      BY <3>1, <3>2, <3>3, SMTT(30) DEF EV_HDSIZ
  <2>11. Reach(h) = End(h) - EV_HDSIZ + h.wordsToBuf
    BY <1>8 DEF Reach
  <2>12. Words(t.d[n]) <= End(g) /\ End(g) <= g.wordsToFile
    <3>1. \A u, v, b, w \in Nat :
            b >= 8 /\ u <= v /\ v <= w => u <= v - 8 + b /\ v - 8 + b <= w + b
      OBVIOUS
    <3> DEFINE u == Words(t.d[n])
               v == End(h)
    <3>2. /\ u \in Nat /\ v \in Nat /\ u <= v /\ v <= h.wordsToFile
          /\ h.wordsToFile \in Nat /\ h.wordsToBuf \in Nat /\ h.wordsToBuf >= 8
      BY <1>1, <1>3, <2>2, <2>7, <2>8, <2>9 DEF EV_HDSIZ
    <3>3. End(g) = v - 8 + h.wordsToBuf /\ g.wordsToFile = h.wordsToFile + h.wordsToBuf
      BY <2>1, <2>10 DEF EV_HDSIZ
    <3> HIDE DEF u, v
    <3>4. u <= End(g) /\ End(g) <= g.wordsToFile
      BY <3>1, <3>2, <3>3
    <3>5. QED
      BY <3>4 DEF u
  <2>13. Count(t.d[n]) + Count(g.pending) <= Total(h, f)
    <3> DEFINE x == Count(t.d[n])
               y == Count(words)
               c1 == Count(Content(f))
               c2 == Count(h.pending)
               c3 == Count(h.buf)
    <3>1. /\ x \in Nat /\ y \in Nat /\ c1 \in Nat /\ c2 \in Nat /\ c3 \in Nat
          /\ x <= c1 + c2 /\ y <= c3
      BY <1>2, <1>5, <2>6, <2>8
    <3>2. Count(g.pending) = y /\ Total(h, f) = c1 + c2 + c3
      BY <2>1 DEF Total
    <3> HIDE DEF x, y, c1, c2, c3
    <3>3. x + y <= c1 + c2 + c3
      BY <3>1
    <3>4. QED
      BY <3>2, <3>3 DEF x
  <2>14. g.wordsToFile # 0
    BY <1>1, <1>3, <2>1, <2>2
  <2>15. QED
    BY <1>2, <1>6, <1>8, <2>1, <2>2, <2>6, <2>10, <2>11, <2>12, <2>13, <2>14 DEF t, g
<1>9. QED
  BY <1>1, <1>7, <1>8

\* A flush of a splitting handle whose file was there before changes nothing.
LEMMA FlushRefused ==
  ASSUME NEW s \in Works, HandleOK(s.h), s.h.splitting, ~s.h.file,
         s.h.wordsToFile = 0, s.d[NameOf(s.h)] # Absent, s.h.eventsToBuf > 0
  PROVE  LET t == evFlush(s)
         IN  /\ t.d = s.d /\ t.ok = FALSE /\ NameOf(t.h) = NameOf(s.h)
             /\ ~t.h.file /\ t.h.pending = s.h.pending /\ t.h.wordsToFile = 0
<1>1. s.h.eventsToBuf \in Nat /\ s.h.rw = "file"
  BY DEF Works, Handles, HandleOK, Filed
<1>2. ~(s.h.eventsToBuf < 1) /\ s.h.rw # "pipe"
  BY <1>1
<1>3. QED
  BY <1>2, FlushCases

\* The outcomes of writing an event: a flush that failed; the event in the
\* buffer as it is; in a buffer that was flushed; or at the head of a new file.
LEMMA WriteShapes ==
  ASSUME NEW s \in Works, HandleOK(s.h), Unused(s.h), s.ok = TRUE, NEW e \in EventItems,
         s.h.splitting => s.h.splitNumber < MaxFiles,
         s.h.buf \in Seq(Tidy), s.h.first # <<>> => s.h.first[1].id <= 0
  PROVE  LET h       == s.h
             splits  == SplitsFile(h, e)
             doFlush == (splits /\ h.eventsToBuf > 0) \/ TooBig(h, e) \/ NoRoom(h, e)
             flushed == IF doFlush THEN evFlush(s) ELSE s
             sp      == splitFile(flushed)
             t       == evWriteImpl(s, e)
             g       == t.h
             w       == IF IsWritten(e) THEN 1 ELSE 0
         IN  /\ flushed.ok \in BOOLEAN
             /\ ~flushed.ok => doFlush /\ t = flushed
             /\ flushed.ok => t.ok = TRUE /\ g.buf \in Seq(Tidy)
             /\ flushed.ok /\ ~doFlush /\ ~splits =>
                  /\ t.d = s.d /\ SameFlow(g, h) /\ Count(g.buf) = Count(h.buf) + w
                  /\ g.wordsToBuf <= h.wordsToBuf + e.words + EV_HDSIZ
                  /\ g.eventsToBuf = h.eventsToBuf + 1
                  /\ g.blknum \in {h.blknum, h.blknum + 1}
                  /\ Len(h.buf) = 1 => g.blknum = h.blknum + 1
             /\ flushed.ok /\ doFlush /\ ~splits =>
                  /\ t.d = flushed.d /\ SameFlow(g, flushed.h) /\ Count(g.buf) = w
                  /\ g.wordsToBuf <= e.words + 2 * EV_HDSIZ
                  /\ g.eventsToBuf = 1 /\ g.blknum = h.blknum + 1
             /\ flushed.ok /\ splits =>
                  /\ t.d = sp.d /\ SameFlow(g, sp.h) /\ Count(g.buf) = w
                  /\ g.eventsToBuf > 0
                  /\ \/ g.blknum = 2 /\ g.eventsToBuf = 1 /\ Common(h) = <<>>
                     \/ g.blknum = 3
<1> DEFINE h       == s.h
           splits  == SplitsFile(h, e)
           big     == TooBig(h, e)
           doFlush == (splits /\ h.eventsToBuf > 0) \/ big \/ NoRoom(h, e)
           flushed == IF doFlush THEN evFlush(s) ELSE s
           repeats == splits /\ Common(h) # <<>>
           header  == repeats \/ (NeedsHeader(h, e) /\ ~doFlush /\ ~splits)
           sp      == IF splits THEN splitFile(flushed) ELSE flushed
           there   == Prepare(sp, big, e.words, doFlush \/ splits)
           begun   == IF repeats THEN Begin(there, e.words) ELSE there
           t       == evWriteImpl(s, e)
           g       == t.h
           w       == IF IsWritten(e) THEN 1 ELSE 0
<1>1. t = IF doFlush /\ ~flushed.ok THEN flushed ELSE Finish(begun, e, header)
  BY DEF evWriteImpl
<1>2. /\ h \in Handles /\ e.words \in Nat /\ h.splitNumber \in Nat /\ h.fileName \in Int
      /\ h.bufSize \in Nat /\ h.wordsToBuf \in Nat /\ MaxFiles \in Nat \ {0}
      /\ Buffered(h) /\ Filed(h) /\ Roomy(h) /\ (h.splitting => h.append = 0)
      /\ h.blknum \in Nat \ {0}
  BY SizesAssumption DEF Works, Handles, EventItems, HandleOK, Unused
<1>3. /\ splits \in BOOLEAN /\ big \in BOOLEAN
      /\ splits => h.splitting
      /\ ~doFlush => ~big /\ ~NoRoom(h, e)
  BY DEF SplitsFile, TooBig
<1>4. /\ flushed \in Works /\ SameBuffer(flushed.h, h) /\ flushed.h.blknum = h.blknum
      /\ Filed(flushed.h)
      /\ \/ flushed.h.splitNumber = h.splitNumber
         \/ h.fileName = -1 /\ flushed.h.splitNumber = h.splitNumber + 1
      /\ ~doFlush => flushed = s
  <2>1. CASE doFlush
    <3>1. flushed = evFlush(s)
      BY <2>1
    <3> HIDE DEF flushed, doFlush
    <3>2. QED
      BY <2>1, <3>1, FlushOK
  <2>2. CASE ~doFlush
    BY <1>2, <2>2 DEF SameBuffer
  <2>3. QED
    BY <2>1, <2>2
<1> HIDE DEF flushed
<1>5. flushed.ok \in BOOLEAN /\ (~doFlush => flushed.ok = TRUE)
  BY <1>4 DEF Works
<1>6. CASE ~flushed.ok
  <2>1. doFlush /\ t = flushed
    BY <1>1, <1>5, <1>6
  <2>2. QED
    BY <1>5, <1>6, <2>1 DEF flushed
<1>7. CASE flushed.ok
  <2>1. t = Finish(begun, e, header) /\ flushed.ok = TRUE
    BY <1>1, <1>5, <1>7
  <2>2. CASE ~doFlush /\ ~splits
    <3>1. there = s /\ begun = there /\ header = NeedsHeader(h, e)
      <4>1. sp = s /\ ~big
        BY <1>3, <1>4, <2>2
      <4>2. there = [s EXCEPT !.h = s.h]
        BY <2>2, <4>1 DEF Prepare
      <4>3. [s EXCEPT !.h = s.h] = s
        BY DEF Works
      <4>4. QED
        BY <2>2, <4>2, <4>3 DEF NeedsHeader
    <3> DEFINE p == Place(h, e, header)
    <3>2. t = [s EXCEPT !.h = p]
      BY <2>1, <3>1 DEF Finish
    <3>3. header \in BOOLEAN /\ (h.blknum = 1 => Len(h.buf) = 1)
      BY <3>1 DEF NeedsHeader, Unused
    <3> HIDE DEF header, begun, there, doFlush, splits
    <3>4. /\ p.buf \in Seq(Tidy) /\ Count(p.buf) = Count(h.buf) + w
          /\ SameFlow(p, h) /\ p.eventsToBuf = h.eventsToBuf + 1
          /\ p.wordsToBuf <= h.wordsToBuf + e.words + EV_HDSIZ
          /\ p.blknum = IF header \/ Len(h.buf) = 1 THEN h.blknum + 1 ELSE h.blknum
      BY <1>2, <3>3, Placed
    <3> HIDE DEF p, t
    <3>5. t.h = p /\ t.d = s.d /\ t.ok = TRUE
      BY <3>2 DEF Works
    <3>6. p.blknum \in {h.blknum, h.blknum + 1} /\ (Len(h.buf) = 1 => p.blknum = h.blknum + 1)
      BY <3>4
    <3>7. QED
      BY <1>5, <1>7, <2>2, <3>4, <3>5, <3>6 DEF t, flushed, doFlush, splits
  <2>3. CASE doFlush \/ splits
    <3>1. sp \in Works /\ SameBuffer(sp.h, h) /\ Filed(sp.h) /\ sp.ok = TRUE
      <4>1. CASE splits
        <5>1. flushed.h.splitting /\ flushed.h.splitNumber <= MaxFiles
          <6>1. h.splitting /\ h.splitNumber < MaxFiles /\ h.fileName = h.splitNumber - 1
            <7>1. h.splitting
              BY <1>3, <4>1
            <7>2. QED
              BY <1>2, <7>1 DEF Filed
          <6>2. flushed.h.splitting
            BY <1>4, <6>1 DEF SameBuffer
          <6>3. QED
            BY <1>2, <1>4, <6>1, <6>2
        <5>2. sp = splitFile(flushed)
          BY <4>1
        <5> HIDE DEF sp
        <5>3. sp \in Works /\ SameBuffer(sp.h, flushed.h) /\ Filed(sp.h) /\ sp.ok = flushed.ok
          BY <1>4, <5>1, <5>2, SplitOK
        <5>4. SameBuffer(sp.h, h)
          BY <1>4, <5>3 DEF SameBuffer
        <5>5. QED
          BY <2>1, <5>3, <5>4
      <4>2. CASE ~splits
        BY <1>4, <2>1, <4>2
      <4>3. QED
        BY <4>1, <4>2
    <3>2. there = Prepare(sp, big, e.words, TRUE)
      BY <2>3 DEF Prepare
    <3>3. sp.h.bufSize <= sp.h.bufRealSize /\ (~big => sp.h.bufSize >= e.words + 2 * EV_HDSIZ)
      <4>1. ~big => h.bufSize >= e.words + 2 * EV_HDSIZ
        BY <1>2 DEF TooBig, EV_HDSIZ
      <4>2. QED
        BY <1>2, <3>1, <4>1 DEF SameBuffer, Roomy
    <3>4. splits => sp = splitFile(flushed) /\ sp.h.blknum = 1
      <4>1. splits => sp = splitFile(flushed)
        OBVIOUS
      <4>2. splitFile(flushed).h.blknum = 1
        <5>1. flushed.h \in Handles
          BY <1>4 DEF Works
        <5>2. QED
          BY <5>1 DEF splitFile, Handles
      <4>3. QED
        BY <4>1, <4>2
    <3>5. ~splits => sp = flushed
      OBVIOUS
    <3> HIDE DEF there, sp, big
    <3>6. /\ there \in Works /\ HandleOK(there.h) /\ there.ok = sp.ok
          /\ Len(there.h.buf) = 1 /\ there.h.wordsToBuf = EV_HDSIZ
          /\ there.h.append = sp.h.append /\ there.h.splitting = sp.h.splitting
          /\ there.h.buf \in Seq(Tidy) /\ Count(there.h.buf) = 0 /\ there.h.eventsToBuf = 0
          /\ there.h.blknum = sp.h.blknum /\ SameFlow(there.h, sp.h) /\ there.d = sp.d
      <4> DEFINE v == e.words
      <4>1. big \in BOOLEAN /\ v \in Nat /\ sp \in Works /\ Filed(sp.h)
        BY <1>2, <1>3, <3>1
      <4>2. sp.h.bufSize <= sp.h.bufRealSize /\ (~big => sp.h.bufSize >= v + 2 * EV_HDSIZ)
        BY <3>3
      <4>3. there = Prepare(sp, big, v, TRUE)
        BY <3>2
      <4> HIDE DEF v
      <4>4. /\ there \in Works /\ HandleOK(there.h) /\ there.ok = sp.ok
            /\ Len(there.h.buf) = 1 /\ there.h.wordsToBuf = EV_HDSIZ
            /\ there.h.append = sp.h.append /\ there.h.splitting = sp.h.splitting
        BY <4>1, <4>2, <4>3, PrepareOK, ZenonT(30)
      <4>5. /\ there.h.buf \in Seq(Tidy) /\ Count(there.h.buf) = 0 /\ there.h.eventsToBuf = 0
            /\ there.h.blknum = sp.h.blknum /\ SameFlow(there.h, sp.h) /\ there.d = sp.d
        BY <4>1, <4>2, <4>3, Prepared, Zenon
      <4>6. QED
        BY <4>4, <4>5
    <3>7. /\ there.h.splitting => there.h.append = 0
          /\ there.ok = TRUE /\ there.h \in Handles /\ Buffered(there.h)
      BY <1>2, <3>1, <3>6 DEF SameBuffer, HandleOK
    <3>8. CASE ~repeats
      <4> DEFINE p == Place(there.h, e, FALSE)
      <4>1. begun = there /\ ~header
        BY <2>3, <3>8
      <4>2. t = [there EXCEPT !.h = p]
        BY <2>1, <3>7, <4>1 DEF Finish, Place
      <4>3. /\ p.buf \in Seq(Tidy) /\ Count(p.buf) = 0 + w
            /\ SameFlow(p, there.h) /\ p.eventsToBuf = 0 + 1
            /\ p.wordsToBuf <= EV_HDSIZ + e.words + EV_HDSIZ
            /\ p.blknum = there.h.blknum + 1
        <5> DEFINE k == there.h
        <5>1. /\ k \in Handles /\ Buffered(k) /\ (k.blknum = 1 => Len(k.buf) = 1)
              /\ (k.splitting => k.append = 0) /\ k.buf \in Seq(Tidy)
          BY <3>6, <3>7
        <5>2. /\ Count(k.buf) = 0 /\ k.eventsToBuf = 0 /\ k.wordsToBuf = EV_HDSIZ
              /\ Len(k.buf) = 1
          BY <3>6
        <5> HIDE DEF k
        <5>3. /\ p.buf \in Seq(Tidy) /\ Count(p.buf) = Count(k.buf) + w
              /\ SameFlow(p, k) /\ p.eventsToBuf = k.eventsToBuf + 1
              /\ p.wordsToBuf <= k.wordsToBuf + e.words + EV_HDSIZ
              /\ p.blknum = IF FALSE \/ Len(k.buf) = 1 THEN k.blknum + 1 ELSE k.blknum
          BY <5>1, Placed DEF k
        <5>4. QED
          BY <5>2, <5>3 DEF k
      <4> HIDE DEF p, t
      <4>4. t.h = p /\ t.d = sp.d /\ t.ok = TRUE
        BY <3>6, <3>7, <4>2 DEF Works
      <4>5. SameFlow(p, sp.h)
        BY <3>6, <4>3 DEF SameFlow
      <4>6. p.wordsToBuf <= e.words + 2 * EV_HDSIZ /\ p.eventsToBuf = 1
        <5>1. EV_HDSIZ + e.words + EV_HDSIZ = e.words + 2 * EV_HDSIZ
          BY <1>2 DEF EV_HDSIZ
        <5>2. QED
          BY <4>3, <5>1
      <4>7. splits => p.blknum = 2 /\ Common(h) = <<>>
        BY <3>4, <3>6, <3>8, <4>3
      <4>8. ~splits => p.blknum = h.blknum + 1
        BY <1>4, <3>5, <3>6, <4>3
      <4>9. Count(p.buf) = w /\ p.eventsToBuf > 0
        BY <4>3, <4>6
      <4> HIDE DEF splits, doFlush, w
      <4>10. QED
        BY <1>5, <1>7, <2>3, <3>4, <3>5, <4>3, <4>4, <4>5, <4>6, <4>7, <4>8, <4>9
           DEF t, flushed, doFlush, splits, w, big
    <3>9. CASE repeats
      <4> DEFINE p == Place(begun.h, e, TRUE)
      <4>1. begun = Begin(there, e.words) /\ header = TRUE
        BY <3>9
      <4>2. Common(there.h) # <<>> /\ there.h.append = 0
            /\ (there.h.first # <<>> => there.h.first[1].id <= 0)
        <5>1. there.h.first = h.first /\ there.h.dict = h.dict /\ there.h.splitting = h.splitting
          BY <3>1, <3>6 DEF SameBuffer, SameFlow
        <5>2. h.splitting
          BY <1>3, <3>9
        <5>3. QED
          BY <3>7, <3>9, <5>1, <5>2 DEF Common
      <4> HIDE DEF begun
      <4>3. begun \in Works /\ begun.ok = there.ok /\ Buffered(begun.h) /\ Unused(begun.h)
        BY <1>2, <3>6, <4>1, <4>2, BeginOK
      <4>4. /\ begun.h.buf \in Seq(Tidy) /\ Count(begun.h.buf) = 0
            /\ begun.h.blknum = there.h.blknum + 1 /\ SameFlow(begun.h, there.h)
            /\ begun.d = there.d
        BY <1>2, <3>6, <4>1, <4>2, Begun
      <4>5. t = [begun EXCEPT !.h = p]
        BY <2>1, <3>7, <4>1, <4>3 DEF Finish
      <4>6. /\ begun.h \in Handles /\ (begun.h.splitting => begun.h.append = 0)
            /\ (begun.h.blknum = 1 => Len(begun.h.buf) = 1) /\ begun.h.eventsToBuf \in Nat
        BY <4>3 DEF Works, Unused, Handles
      <4>7. /\ p.buf \in Seq(Tidy) /\ Count(p.buf) = 0 + w
            /\ SameFlow(p, begun.h) /\ p.eventsToBuf = begun.h.eventsToBuf + 1
            /\ p.blknum = begun.h.blknum + 1
        BY <4>3, <4>4, <4>6, Placed
      <4> HIDE DEF p, t
      <4>8. t.h = p /\ t.d = sp.d /\ t.ok = TRUE
        BY <3>6, <3>7, <4>3, <4>4, <4>5 DEF Works
      <4>9. SameFlow(p, sp.h)
        BY <3>6, <4>4, <4>7 DEF SameFlow
      <4>10. splits /\ p.blknum = 3
        BY <3>4, <3>6, <3>9, <4>4, <4>7
      <4>11. Count(p.buf) = w /\ p.eventsToBuf > 0
        BY <4>6, <4>7
      <4> HIDE DEF splits, doFlush, w
      <4>12. QED
        BY <1>5, <1>7, <3>4, <4>7, <4>8, <4>9, <4>10, <4>11
           DEF t, flushed, doFlush, splits, w, big
    <3>10. QED
      BY <3>8, <3>9
  <2>4. QED
    BY <2>2, <2>3
<1>8. QED
  BY <1>5, <1>6, <1>7

-----------------------------------------------------------------------------
(* An event written with a splitting handle.                               *)

\* Common block events are counted when they are written.
Noted(h, e) ==
  [h EXCEPT !.wroteFirstEvent = @ \/ e.id = FirstEvent,
            !.commonBlkCount = IF e.id = FirstEvent THEN @ + 1 ELSE @]
IsFirst(e) == IF e.id = FirstEvent THEN 1 ELSE 0
New(e) == IF IsWritten(e) THEN 1 ELSE 0

LEMMA NotedFields ==
  ASSUME NEW h \in Handles, NEW e \in EventItems
  PROVE  LET r == Noted(h, e)
         IN  /\ r \in Handles
             /\ r.commonBlkCount = h.commonBlkCount + IsFirst(e)
             /\ r.buf = h.buf /\ r.wordsToBuf = h.wordsToBuf /\ r.blknum = h.blknum
             /\ r.eventsToBuf = h.eventsToBuf /\ r.rw = h.rw /\ r.fileName = h.fileName
             /\ r.splitNumber = h.splitNumber /\ r.wordsToFile = h.wordsToFile
             /\ r.pending = h.pending /\ r.splitting = h.splitting /\ r.dict = h.dict
             /\ r.first = h.first /\ r.file = h.file /\ r.pos = h.pos /\ r.split = h.split
             /\ NameOf(r) = NameOf(h) /\ Common(r) = Common(h)
<1> DEFINE w == h.wroteFirstEvent \/ e.id = FirstEvent
           c == IF e.id = FirstEvent THEN h.commonBlkCount + 1 ELSE h.commonBlkCount
           r == Noted(h, e)
<1>1. h.commonBlkCount \in Nat /\ h.wroteFirstEvent \in BOOLEAN
  BY DEF Handles
<1>2. r = [h EXCEPT !.wroteFirstEvent = w, !.commonBlkCount = c]
  BY DEF Noted
<1>3. w \in BOOLEAN /\ c \in Nat /\ c = h.commonBlkCount + IsFirst(e)
  BY <1>1 DEF IsFirst
<1> HIDE DEF w, c, r
<1>4. /\ r \in Handles
      /\ r.commonBlkCount = c
      /\ r.buf = h.buf /\ r.wordsToBuf = h.wordsToBuf /\ r.blknum = h.blknum
      /\ r.eventsToBuf = h.eventsToBuf /\ r.rw = h.rw /\ r.fileName = h.fileName
      /\ r.splitNumber = h.splitNumber /\ r.wordsToFile = h.wordsToFile
      /\ r.pending = h.pending /\ r.splitting = h.splitting /\ r.dict = h.dict
      /\ r.first = h.first /\ r.file = h.file /\ r.pos = h.pos /\ r.split = h.split
  <2>1. r \in Handles
    BY <1>2, <1>3, ZenonT(30) DEF Handles
  <2>2. /\ r.buf = h.buf /\ r.wordsToBuf = h.wordsToBuf /\ r.blknum = h.blknum
        /\ r.eventsToBuf = h.eventsToBuf /\ r.rw = h.rw /\ r.fileName = h.fileName
        /\ r.splitNumber = h.splitNumber /\ r.wordsToFile = h.wordsToFile
    BY <1>2 DEF Handles
  <2>3. /\ r.pending = h.pending /\ r.splitting = h.splitting /\ r.dict = h.dict
        /\ r.first = h.first /\ r.file = h.file /\ r.pos = h.pos /\ r.split = h.split
    BY <1>2 DEF Handles
  <2>4. r.commonBlkCount = c
    BY <1>2 DEF Handles
  <2>5. QED
    BY <2>1, <2>2, <2>3, <2>4
<1>5. NameOf(r) = NameOf(h) /\ Common(r) = Common(h)
  BY <1>4 DEF NameOf, Common
<1>6. QED
  BY <1>3, <1>4, <1>5 DEF r

LEMMA NewOrFirst ==
  ASSUME NEW e \in EventItems
  PROVE  IsFirst(e) \in {0, 1} /\ New(e) \in {0, 1} /\ (New(e) = 0 \/ IsFirst(e) = 0)
BY DEF IsFirst, New, IsWritten, FirstEvent, EventItems

\* The file is not split for an event that fits, or is the first of its file.
LEMMA StaysWithin ==
  ASSUME NEW h \in Handles, NEW e \in EventItems, h.splitting, ~SplitsFile(h, e)
  PROVE  \/ h.blknum = 2 /\ h.eventsToBuf <= h.commonBlkCount
         \/ h.wordsToFile + e.words + h.wordsToBuf <= h.split
<1>1. /\ h.blknum \in Nat /\ h.wordsToFile \in Nat /\ e.words \in Nat
      /\ h.wordsToBuf \in Nat /\ h.split \in Nat
  BY DEF Handles, EventItems
<1> DEFINE x == h.wordsToFile + e.words + h.wordsToBuf
           own == IF NeedsHeader(h, e) /\ h.wordsToFile < 1 THEN EV_HDSIZ ELSE 0
           last == IF isLastBlock(h) THEN EV_HDSIZ ELSE 0
<1>2. (h.blknum - 1 = 1 /\ h.eventsToBuf <= h.commonBlkCount) \/ ~(x + own + last > h.split)
  BY DEF SplitsFile
<1>3. x \in Nat /\ own \in {0, 8} /\ last \in {0, 8}
  BY <1>1 DEF EV_HDSIZ
<1> HIDE DEF x, own, last
<1>4. ~(x + own + last > h.split) => x <= h.split
  BY <1>1, <1>3
<1>5. h.blknum - 1 = 1 => h.blknum = 2
  BY <1>1
<1>6. QED
  BY <1>2, <1>4, <1>5 DEF x

\* The event joins those in the buffer.
LEMMA FlowHere ==
  ASSUME NEW h \in Handles, NEW r \in Handles, NEW e \in EventItems,
         NEW f, f = Absent \/ f \in Seq(Items), NEW l,
         Flowing(h, f, l), h.splitting, ~SplitsFile(h, e),
         r.file = h.file, r.pos = h.pos, r.pending = h.pending,
         r.wordsToFile = h.wordsToFile, r.split = h.split, r.fileName = h.fileName,
         Count(r.buf) = Count(h.buf) + New(e),
         r.wordsToBuf <= h.wordsToBuf + e.words + EV_HDSIZ,
         r.eventsToBuf = h.eventsToBuf + 1,
         r.blknum \in {h.blknum, h.blknum + 1}, h.blknum = 1 => r.blknum = 2,
         r.commonBlkCount = h.commonBlkCount + IsFirst(e)
  PROVE  Flowing(r, f, h.split)
<1> DEFINE w == New(e)
           c == IsFirst(e)
           T == Total(h, f)
<1>1. /\ h.wordsToFile \in Nat /\ h.wordsToBuf \in Nat /\ e.words \in Nat /\ h.split \in Nat
      /\ r.wordsToBuf \in Nat /\ h.eventsToBuf \in Nat /\ h.commonBlkCount \in Nat
      /\ h.blknum \in Nat \ {0} /\ h.pos \in Nat /\ h.pending \in Seq(Items)
      /\ h.file \in BOOLEAN
  BY DEF Handles, EventItems
<1>2. w \in {0, 1} /\ c \in {0, 1} /\ (w = 0 \/ c = 0)
  BY NewOrFirst
<1>3. T \in Nat /\ Total(r, f) = T + w
  <2>1. /\ Count(Content(f)) \in Nat /\ Count(h.pending) \in Nat /\ Count(h.buf) \in Nat
        /\ T \in Nat
    BY TotalNat
  <2>2. QED
    BY <1>2, <2>1 DEF Total
<1>4. h.blknum <= 2 /\ h.eventsToBuf <= h.commonBlkCount => T = 0
  BY DEF Flowing
<1>5. \/ h.blknum = 2 /\ h.eventsToBuf <= h.commonBlkCount
      \/ h.wordsToFile + e.words + h.wordsToBuf <= h.split
  BY StaysWithin
<1>6. End(h) \in Nat /\ End(r) = End(h)
  BY <1>1, WordsNat, SMTT(30) DEF End
<1> HIDE DEF T, w, c
<1>7. T + w <= 1 \/ Reach(r) <= h.split + EV_HDSIZ
  <2>1. CASE h.blknum = 2 /\ h.eventsToBuf <= h.commonBlkCount
    <3>1. T = 0
      BY <1>1, <1>4, <2>1
    <3>2. QED
      BY <1>2, <3>1
  <2>2. CASE h.wordsToFile + e.words + h.wordsToBuf <= h.split
    <3>1. CASE h.file
      <4>1. Reach(r) = End(h) - EV_HDSIZ + r.wordsToBuf
        BY <1>6, <3>1 DEF Reach
      <4>2. End(h) <= h.wordsToFile
        BY <3>1 DEF Flowing
      <4>3. \A x, v, u, b, d, m \in Nat :
              x <= v /\ v + u + b <= m /\ d <= b + u + 8 => x - 8 + d <= m + 8
        OBVIOUS
      <4>4. End(h) - 8 + r.wordsToBuf <= h.split + 8
        BY <1>1, <1>6, <2>2, <4>2, <4>3 DEF EV_HDSIZ
      <4>5. QED
        BY <4>1, <4>4 DEF EV_HDSIZ
    <3>2. CASE ~h.file
      <4>1. Reach(r) = r.wordsToBuf
        BY <3>2 DEF Reach
      <4>2. \A v, u, b, d, m \in Nat : v + u + b <= m /\ d <= b + u + 8 => d <= m + 8
        OBVIOUS
      <4>3. r.wordsToBuf <= h.wordsToBuf + e.words + 8
        BY DEF EV_HDSIZ
      <4> DEFINE v == h.wordsToFile
                 u == e.words
                 b == h.wordsToBuf
                 d == r.wordsToBuf
                 m == h.split
      <4>4. v \in Nat /\ u \in Nat /\ b \in Nat /\ d \in Nat /\ m \in Nat
        BY <1>1
      <4>5. v + u + b <= m /\ d <= b + u + 8
        BY <2>2, <4>3
      <4> HIDE DEF v, u, b, d, m
      <4>6. d <= m + 8
        BY <4>2, <4>4, <4>5
      <4>7. QED
        BY <4>1, <4>6 DEF EV_HDSIZ, d, m
    <3>3. QED
      BY <3>1, <3>2
  <2>3. QED
    BY <1>5, <2>1, <2>2
<1>8. r.blknum # 1 /\ r.eventsToBuf # 0
  BY <1>1, SMTT(30)
<1>9. r.blknum <= 2 => /\ ~h.file /\ r.eventsToBuf >= r.commonBlkCount
                       /\ r.eventsToBuf <= r.commonBlkCount => T + w = 0
  <2>1. CASE h.blknum = 1
    <3>1. ~h.file /\ h.eventsToBuf = 0 /\ h.commonBlkCount = 0
      BY <2>1 DEF Flowing
    <3>2. T = 0
      BY <1>4, <2>1, <3>1
    <3>3. r.eventsToBuf = 1 /\ r.commonBlkCount = c
      BY <1>2, <3>1 DEF c
    <3>4. QED
      BY <1>2, <3>1, <3>2, <3>3
  <2>2. CASE h.blknum = 2
    <3>1. ~h.file /\ h.eventsToBuf >= h.commonBlkCount
      BY <2>2 DEF Flowing
    <3>2. h.eventsToBuf <= h.commonBlkCount => T = 0
      BY <1>4, <2>2
    <3>3. r.eventsToBuf = h.eventsToBuf + 1 /\ r.commonBlkCount = h.commonBlkCount + c
      BY DEF c
    <3>4. QED
      BY <1>1, <1>2, <1>3, <3>1, <3>2, <3>3
  <2>3. CASE h.blknum > 2
    BY <1>1, <2>3, SMTT(30)
  <2>4. h.blknum = 1 \/ h.blknum = 2 \/ h.blknum > 2
    <3>1. \A k \in Nat \ {0} : k = 1 \/ k = 2 \/ k > 2
      OBVIOUS
    <3>2. h.blknum \in Nat \ {0}
      BY DEF Handles
    <3>3. QED
      BY <3>1, <3>2, Zenon
  <2>5. QED
    BY <2>1, <2>2, <2>3, <2>4, Zenon
<1>10. h.file => /\ f \in Seq(Tidy) /\ Words(f) <= End(r) /\ End(r) <= h.wordsToFile
                 /\ Len(h.pending) > 0 /\ h.pending[1].words = EV_HDSIZ
                 /\ h.fileName # -1
  BY <1>6 DEF Flowing
<1>11. (h.file <=> h.wordsToFile # 0) /\ (~h.file => h.pending = <<>> /\ h.pos = 0)
  BY DEF Flowing
<1>12. r.blknum \in Nat
  BY DEF Handles
<1>13. r.blknum = 2 => r.blknum <= 2
  OBVIOUS
<1>14. QED
  BY <1>3, <1>7, <1>8, <1>9, <1>10, <1>11, <1>13 DEF Flowing

\* The event is alone in the buffer, what was there went to the file.
LEMMA FlowOn ==
  ASSUME NEW h \in Handles, NEW r \in Handles, NEW e \in EventItems,
         NEW f, f = Absent \/ f \in Seq(Items), NEW x \in Seq(Tidy), NEW l,
         Flowing(h, f, l), h.splitting, ~SplitsFile(h, e), h.eventsToBuf > 0,
         r.file, r.pending \in Seq(Tidy), Len(r.pending) > 0,
         r.pending[1].words = EV_HDSIZ, r.fileName # -1,
         Words(x) <= End(r), End(r) = Reach(h), End(r) <= r.wordsToFile,
         r.wordsToFile # 0, r.split = h.split,
         Count(x) + Count(r.pending) <= Total(h, f),
         Count(r.buf) = New(e), r.wordsToBuf <= e.words + 2 * EV_HDSIZ,
         r.eventsToBuf = 1, r.blknum = h.blknum + 1
  PROVE  Flowing(r, x, h.split)
<1> DEFINE w == New(e)
           T == Total(h, f)
<1>1. /\ h.wordsToFile \in Nat /\ h.wordsToBuf \in Nat /\ e.words \in Nat /\ h.split \in Nat
      /\ r.wordsToBuf \in Nat /\ h.eventsToBuf \in Nat /\ h.commonBlkCount \in Nat
      /\ h.blknum \in Nat \ {0} /\ h.pos \in Nat /\ h.pending \in Seq(Items)
      /\ h.file \in BOOLEAN /\ r.pos \in Nat
  BY DEF Handles, EventItems
<1>2. w \in {0, 1}
  BY NewOrFirst
<1>3. T \in Nat /\ Total(r, x) <= T + w /\ Total(r, x) \in Nat
  <2>1. T \in Nat
    BY TotalNat
  <2>2. Content(x) = x /\ x \in Seq(Items)
    BY AbsentIsNoFile, TidyItems DEF Content
  <2>3. Count(x) \in Nat /\ Count(r.pending) \in Nat
    BY <2>2, TotalNat
  <2>4. QED
    BY <1>2, <2>1, <2>2, <2>3 DEF Total
<1>4. h.blknum >= 2
  <2>1. h.blknum = 1 => h.eventsToBuf = 0
    BY DEF Flowing
  <2>2. h.blknum # 1
    BY <1>1, <2>1
  <2>3. \A y \in Nat \ {0} : y # 1 => y >= 2
    OBVIOUS
  <2>4. QED
    BY <1>1, <2>2, <2>3
<1>5. h.blknum = 2 /\ h.eventsToBuf <= h.commonBlkCount => T = 0
  BY <1>1 DEF Flowing
<1>6. \/ h.blknum = 2 /\ h.eventsToBuf <= h.commonBlkCount
      \/ h.wordsToFile + e.words + h.wordsToBuf <= h.split
  BY StaysWithin
<1> HIDE DEF T, w
<1>7. Reach(h) + 0 <= h.wordsToFile + h.wordsToBuf /\ Reach(h) \in Int
  <2>1. CASE h.file
    <3>1. End(h) <= h.wordsToFile /\ Reach(h) = End(h) - EV_HDSIZ + h.wordsToBuf
      BY <2>1 DEF Flowing, Reach
    <3>2. End(h) \in Nat
      <4>1. Words(h.pending) \in Nat
        BY <1>1, WordsNat
      <4>2. \A u, y \in Nat : u + y \in Nat
        OBVIOUS
      <4>3. QED
        BY <1>1, <4>1, <4>2 DEF End
    <3>3. \A u, v, b \in Nat : u <= v => u - 8 + b + 0 <= v + b /\ u - 8 + b \in Int
      OBVIOUS
    <3>4. QED
      BY <1>1, <3>1, <3>2, <3>3 DEF EV_HDSIZ
  <2>2. CASE ~h.file
    <3>1. Reach(h) = h.wordsToBuf
      BY <2>2 DEF Reach
    <3>2. QED
      BY <1>1, <3>1
  <2>3. QED
    BY <2>1, <2>2
<1>8. Total(r, x) <= 1 \/ Reach(r) <= h.split + EV_HDSIZ
  <2>1. CASE h.blknum = 2 /\ h.eventsToBuf <= h.commonBlkCount
    BY <1>2, <1>3, <1>5, <2>1
  <2>2. CASE h.wordsToFile + e.words + h.wordsToBuf <= h.split
    <3>1. Reach(r) = Reach(h) - EV_HDSIZ + r.wordsToBuf
      BY DEF Reach
    <3> DEFINE y == Reach(h)
    <3>2. y \in Int /\ y <= h.wordsToFile + h.wordsToBuf
      BY <1>1, <1>7
    <3> HIDE DEF y
    <3>3. \A z \in Int : \A v, u, b, d, m \in Nat :
            z <= v + b /\ v + u + b <= m /\ d <= u + 16 => z - 8 + d <= m + 8
      OBVIOUS
    <3>4. r.wordsToBuf <= e.words + 16
      BY <1>1 DEF EV_HDSIZ
    <3>5. y - 8 + r.wordsToBuf <= h.split + 8
      BY <1>1, <2>2, <3>2, <3>3, <3>4
    <3>6. QED
      BY <3>1, <3>5 DEF y, EV_HDSIZ
  <2>3. QED
    BY <1>6, <2>1, <2>2
<1>9. r.blknum # 1 /\ r.blknum # 2 /\ ~(r.blknum <= 2) /\ r.eventsToBuf # 0
  <2>1. \A b \in Nat : b >= 2 => b + 1 # 1 /\ b + 1 # 2 /\ ~(b + 1 <= 2)
    OBVIOUS
  <2> DEFINE b == h.blknum
  <2>2. b \in Nat /\ b >= 2 /\ r.blknum = b + 1
    BY <1>1, <1>4
  <2> HIDE DEF b
  <2>3. r.blknum # 1 /\ r.blknum # 2 /\ ~(r.blknum <= 2)
    BY <2>1, <2>2
  <2>4. r.eventsToBuf # 0
    OBVIOUS
  <2>5. QED
    BY <2>3, <2>4
<1>10. QED
  BY <1>8, <1>9 DEF Flowing

\* The event is the first of a new file.
LEMMA FlowNew ==
  ASSUME NEW r \in Handles, NEW e \in EventItems,
         ~r.file, r.wordsToFile = 0, r.pending = <<>>, r.pos = 0,
         Count(r.buf) = New(e), r.eventsToBuf > 0,
         \/ r.blknum = 3
         \/ r.blknum = 2 /\ r.eventsToBuf = 1 /\ r.commonBlkCount = IsFirst(e)
  PROVE  Flowing(r, Absent, r.split)
<1>1. r.eventsToBuf \in Nat /\ r.blknum \in Nat
  BY DEF Handles
<1>2. New(e) \in {0, 1} /\ IsFirst(e) \in {0, 1} /\ (New(e) = 0 \/ IsFirst(e) = 0)
  BY NewOrFirst
<1>3. Total(r, Absent) = New(e)
  <2>1. Content(Absent) = <<>>
    BY DEF Content
  <2>2. QED
    BY <1>2, <2>1, CountEmpty DEF Total
<1>4. Total(r, Absent) <= 1
  BY <1>2, <1>3
<1>5. /\ r.blknum # 1 /\ r.eventsToBuf # 0
      /\ r.blknum = 2 => r.eventsToBuf >= r.commonBlkCount
      /\ r.blknum <= 2 /\ r.eventsToBuf <= r.commonBlkCount => Total(r, Absent) = 0
  BY <1>1, <1>2, <1>3
<1>6. QED
  BY <1>4, <1>5 DEF Flowing

\* The next file is named, the stream of the last one written out.
LEMMA SplitShape ==
  ASSUME NEW s \in Works, Filed(s.h), s.h.splitting
  PROVE  LET t == splitFile(s)
             g == t.h
             h == s.h
         IN  /\ ~g.file /\ g.pending = <<>> /\ g.pos = 0 /\ g.wordsToFile = 0
             /\ g.first = h.first /\ g.dict = h.dict /\ g.splitting = h.splitting
             /\ g.split = h.split /\ g.commonBlkCount = h.commonBlkCount
             /\ NameOf(g) = h.splitNumber /\ t.d = Synced(h, s.d) /\ t.ok = s.ok
<1> DEFINE h == s.h
           t == splitFile(s)
           n == h.splitNumber
           none == <<>>
           m == n + 1
           g == [h EXCEPT !.blknum = 1, !.wordsToFile = 0, !.file = FALSE,
                          !.pending = none, !.pos = 0, !.hidden = FALSE,
                          !.fileName = n, !.splitNumber = m]
           d == Synced(h, s.d)
<1>1. h \in Handles
  BY DEF Works
<1>2. t = [h |-> g, d |-> d, ok |-> s.ok]
  BY DEF splitFile
<1>3. n \in Nat /\ h.rw = "file"
  BY <1>1 DEF Handles, Filed
<1> HIDE DEF n, m, none
<1>4. /\ ~g.file /\ g.pending = none /\ g.pos = 0 /\ g.wordsToFile = 0
      /\ g.first = h.first /\ g.dict = h.dict /\ g.splitting = h.splitting
      /\ g.split = h.split /\ g.commonBlkCount = h.commonBlkCount
      /\ g.rw = h.rw /\ g.fileName = n
  BY <1>1 DEF Handles
<1> HIDE DEF g, d
<1>5. NameOf(g) = n
  BY <1>3, <1>4 DEF NameOf
<1>6. t.h = g /\ t.d = d /\ t.ok = s.ok
  BY <1>2
<1> HIDE DEF t
<1>7. QED
  BY <1>4, <1>5, <1>6 DEF t, d, n, none

\* What a handle keeps from one file to the next.
Carried(g, h) ==
  /\ g.first = h.first /\ g.dict = h.dict /\ g.splitting = h.splitting
  /\ g.split = h.split /\ g.commonBlkCount = h.commonBlkCount

LEMMA FlowNames ==
  ASSUME NEW r, NEW h, SameFlow(r, h)
  PROVE  NameOf(r) = NameOf(h) /\ Carried(r, h)
BY DEF SameFlow, NameOf, Carried

LEMMA ImplKeeps ==
  ASSUME NEW s \in Works, HandleOK(s.h), Unused(s.h), s.ok = TRUE, NEW e \in EventItems,
         s.h.splitting => s.h.splitNumber < MaxFiles,
         s.h.buf \in Seq(Tidy), s.h.first # <<>> => s.h.first[1].id <= 0
  PROVE  LET t == evWriteImpl(s, e)
         IN  Carried(t.h, s.h) /\ t.h.buf \in Seq(Tidy)
<1> DEFINE h       == s.h
           splits  == SplitsFile(h, e)
           doFlush == (splits /\ h.eventsToBuf > 0) \/ TooBig(h, e) \/ NoRoom(h, e)
           flushed == IF doFlush THEN evFlush(s) ELSE s
           sp      == splitFile(flushed)
           t       == evWriteImpl(s, e)
           w       == IF IsWritten(e) THEN 1 ELSE 0
<1>1. /\ flushed.ok \in BOOLEAN
      /\ ~flushed.ok => doFlush /\ t = flushed
      /\ flushed.ok => t.ok = TRUE /\ t.h.buf \in Seq(Tidy)
      /\ flushed.ok /\ ~doFlush /\ ~splits => SameFlow(t.h, h)
      /\ flushed.ok /\ doFlush /\ ~splits => SameFlow(t.h, flushed.h)
      /\ flushed.ok /\ splits => SameFlow(t.h, sp.h)
  BY WriteShapes
<1>2. Carried(flushed.h, h) /\ flushed.h.buf = h.buf /\ flushed \in Works /\ Filed(flushed.h)
  <2>1. CASE doFlush
    <3> DEFINE f == evFlush(s)
    <3>1. f \in Works /\ Filed(f.h)
      BY FlushOK
    <3>2. Carried(f.h, h) /\ f.h.buf = h.buf
      BY FlushCases DEF Carried
    <3> HIDE DEF f
    <3>3. flushed = f
      BY <2>1 DEF f
    <3>4. QED
      BY <3>1, <3>2, <3>3
  <2>2. CASE ~doFlush
    BY <2>2 DEF Carried, HandleOK
  <2>3. QED
    BY <2>1, <2>2
<1>3. splits => Carried(sp.h, flushed.h)
  <2>1. splits => flushed.h.splitting
    BY <1>2 DEF SplitsFile, Carried
  <2> HIDE DEF flushed, splits
  <2>2. QED
    BY <1>2, <2>1, SplitShape DEF Carried
<1> HIDE DEF flushed, splits, doFlush, sp, t
<1>4. CASE ~flushed.ok
  BY <1>1, <1>2, <1>4 DEF t
<1>5. CASE flushed.ok /\ splits
  <2>1. Carried(t.h, sp.h)
    BY <1>1, <1>5, FlowNames
  <2>2. QED
    BY <1>1, <1>2, <1>3, <1>5, <2>1 DEF Carried, t
<1>6. CASE flushed.ok /\ ~splits
  <2>1. Carried(t.h, h) \/ Carried(t.h, flushed.h)
    BY <1>1, <1>6, FlowNames
  <2>2. QED
    BY <1>1, <1>2, <1>6, <2>1 DEF Carried, t
<1>7. QED
  BY <1>1, <1>4, <1>5, <1>6

\* A file whose handle flows is within the limit.
LEMMA FlowWithin ==
  ASSUME NEW r \in Handles, Buffered(r), NEW f, f = Absent \/ f \in Seq(Items),
         r.file \/ f = Absent, Flowing(r, f, r.split)
  PROVE  Within(f, r.split)
<1>1. CASE ~r.file
  BY <1>1 DEF Within
<1>2. CASE r.file
  <2>1. f \in Seq(Tidy) /\ Words(f) <= End(r)
    BY <1>2 DEF Flowing
  <2>2. f \in Seq(Items) /\ f # Absent
    BY <2>1, TidyItems, AbsentIsNoFile
  <2>3. Count(f) \in Nat /\ Count(f) <= Total(r, f)
    <3>1. Content(f) = f
      BY <2>2 DEF Content
    <3>2. Count(f) \in Nat /\ Count(r.pending) \in Nat /\ Count(r.buf) \in Nat
      BY <3>1, TotalNat
    <3>3. QED
      BY <3>1, <3>2 DEF Total
  <2>4. Total(r, f) \in Nat
    BY TotalNat
  <2>5. r.wordsToBuf \in Nat /\ r.wordsToBuf >= EV_HDSIZ /\ r.split \in Nat
    BY BufferWords DEF Handles
  <2>6. End(r) \in Nat /\ Words(f) \in Nat
    <3>1. Words(r.pending) \in Nat /\ Words(f) \in Nat /\ r.pos \in Nat
      BY <2>2, WordsNat DEF Handles
    <3> DEFINE p == Words(r.pending)
               q == r.pos
    <3>2. p \in Nat /\ q \in Nat
      BY <3>1
    <3> HIDE DEF p, q
    <3>3. q + p \in Nat
      BY <3>2
    <3>4. QED
      BY <3>1, <3>3 DEF End, p, q
  <2>7. Total(r, f) <= 1 \/ Reach(r) <= r.split + EV_HDSIZ
    BY DEF Flowing
  <2>8. Reach(r) = End(r) - EV_HDSIZ + r.wordsToBuf
    BY <1>2 DEF Reach
  <2>9. CASE Total(r, f) <= 1
    <3>1. Count(f) <= 1
      BY <2>3, <2>4, <2>9
    <3>2. QED
      BY <2>1, <3>1 DEF Within
  <2>10. CASE Reach(r) <= r.split + EV_HDSIZ
    <3>1. \A x, v, b, m \in Nat : x <= v /\ b >= 8 /\ v - 8 + b <= m + 8 => x <= m + 8
      OBVIOUS
    <3> DEFINE x == Words(f)
               v == End(r)
               b == r.wordsToBuf
               m == r.split
    <3>2. x \in Nat /\ v \in Nat /\ b \in Nat /\ m \in Nat /\ x <= v /\ b >= 8
          /\ v - 8 + b <= m + 8
      BY <2>1, <2>5, <2>6, <2>8, <2>10 DEF EV_HDSIZ
    <3> HIDE DEF x, v, b, m
    <3>3. x <= m + 8
      BY <3>1, <3>2
    <3>4. QED
      BY <2>1, <3>3 DEF Within, x, m, EV_HDSIZ
  <2>11. QED
    BY <2>7, <2>9, <2>10
<1>3. QED
  BY <1>1, <1>2

\* The events of the common block are counted.
LEMMA NotedCommon ==
  ASSUME NEW h \in Handles, NEW g \in Handles, NEW e \in EventItems, Carried(g, h),
         Common(h) = <<>> => h.commonBlkCount = 0, e.id = FirstEvent => h.first # <<>>
  PROVE  Common(Noted(g, e)) = <<>> => Noted(g, e).commonBlkCount = 0
<1> DEFINE r == Noted(g, e)
<1>1. h \in Handles
  OBVIOUS
<1>2. /\ r.commonBlkCount = g.commonBlkCount + IsFirst(e) /\ Common(r) = Common(g)
  BY NotedFields
<1> HIDE DEF r
<1>3. Common(r) = <<>> => r.commonBlkCount = 0
  <2>1. Common(r) = Common(h)
    BY <1>2 DEF Carried, Common
  <2>2. ASSUME Common(r) = <<>> PROVE h.first = <<>>
    <3>1. h.first \in FirstEvents
      BY <1>1 DEF Handles
    <3>2. h.first \in Seq(EventItems)
      <4>1. \A v \in EventItems : <<v>> \in Seq(EventItems)
        OBVIOUS
      <4>2. <<>> \in Seq(EventItems)
        OBVIOUS
      <4>3. QED
        BY <3>1, <4>1, <4>2, Zenon DEF FirstEvents
    <3>3. Common(h) = <<>>
      BY <2>1, <2>2
    <3>4. (IF h.dict > 0 THEN <<Event(Dictionary, h.dict)>> ELSE <<>>) \o h.first = <<>>
      BY <3>3 DEF Common
    <3> DEFINE v == Event(Dictionary, h.dict)
               x == h.first
    <3>5. x \in Seq(EventItems) /\ (<<v>> \o x = <<>> \/ <<>> \o x = <<>>)
      BY <3>2, <3>4
    <3> HIDE DEF v, x
    <3>6. <<v>> \o x # <<>>
      <4>1. x \in Seq(EventItems \cup {v}) /\ <<v>> \in Seq(EventItems \cup {v})
        BY <3>5
      <4>2. Len(<<v>> \o x) = 1 + Len(x) /\ Len(x) \in Nat
        BY <4>1
      <4>3. QED
        BY <4>2
    <3>7. <<>> \o x = x
      BY <3>5
    <3>8. QED
      BY <3>5, <3>6, <3>7 DEF x
  <2>3. ASSUME Common(r) = <<>> PROVE r.commonBlkCount = 0
    <3>1. IsFirst(e) = 0
      BY <2>2, <2>3 DEF IsFirst
    <3>2. g.commonBlkCount = 0
      BY <2>1, <2>3 DEF Carried
    <3>3. QED
      BY <1>2, <3>1, <3>2
  <2>4. QED
    BY <2>3
<1>4. QED
  BY <1>3 DEF r

\* The limits after an event was written, as Write keeps them, and what is to
\* be shown of the files and the handle then.
Refuses(h, d) == h.splitting /\ ~h.file /\ d[NameOf(h)] # Absent
Granted(lim, s, t) ==
  IF t.ok /\ ~Refuses(t.h, s.d)
  THEN [lim EXCEPT ![NameOf(t.h)] = IF s.h.splitting THEN s.h.split ELSE 0] ELSE lim
After(lim, s, t, e) ==
  LET lm == Granted(lim, s, t)
      n  == NameOf(t.h)
  IN  /\ \A m \in Names : Within(t.d[m], lm[m])
      /\ HandleWithin(Noted(t.h, e), t.d[n], lm[n])

\* It either flows into its file or was refused that.
LEMMA FlowAfter ==
  ASSUME NEW s \in Works, NEW t \in Works, HandleOK(t.h), s.h.splitting, NEW e \in EventItems,
         NEW lim \in [Names -> Nat], Carried(t.h, s.h),
         t.h.buf \in Seq(Tidy), t.h.pending \in Seq(Tidy),
         s.h.first # <<>> => s.h.first[1].id <= 0,
         Common(s.h) = <<>> => s.h.commonBlkCount = 0,
         e.id = FirstEvent => s.h.first # <<>>,
         \A m \in Names : m # NameOf(t.h) => Within(t.d[m], lim[m]),
         \/ /\ t.ok
            /\ t.h.file \/ (t.d[NameOf(t.h)] = Absent /\ s.d[NameOf(t.h)] = Absent)
            /\ Flowing(Noted(t.h, e), t.d[NameOf(t.h)], s.h.split)
         \/ /\ ~t.h.file /\ t.d[NameOf(t.h)] # Absent
            /\ t.ok => s.d[NameOf(t.h)] = t.d[NameOf(t.h)]
            /\ t.h.wordsToFile = 0 /\ t.h.pending = <<>>
            /\ Within(t.d[NameOf(t.h)], lim[NameOf(t.h)])
  PROVE  After(lim, s, t, e)
<1> DEFINE n  == NameOf(t.h)
           r  == Noted(t.h, e)
           lm == Granted(lim, s, t)
<1>1. t.h \in Handles /\ Buffered(t.h) /\ n \in Names /\ t.d \in Disks /\ s.h \in Handles
  BY DEF Works, HandleOK, Filed
<1>2. /\ r \in Handles /\ r.commonBlkCount = t.h.commonBlkCount + IsFirst(e)
      /\ r.buf = t.h.buf /\ r.wordsToBuf = t.h.wordsToBuf /\ r.wordsToFile = t.h.wordsToFile
      /\ r.pending = t.h.pending /\ r.splitting = t.h.splitting
      /\ r.first = t.h.first /\ r.file = t.h.file /\ r.split = t.h.split
      /\ Common(r) = Common(t.h)
  BY <1>1, NotedFields
<1>3. Buffered(r)
  <2>1. r.cur = t.h.cur /\ r.blksiz = t.h.blksiz
    BY <1>1 DEF Noted, Handles
  <2> HIDE DEF r
  <2>2. QED
    BY <1>1, <1>2, <2>1 DEF Buffered
<1> HIDE DEF r
<1>4. t.h.splitting /\ r.split = s.h.split
  BY <1>2 DEF Carried
<1>5. Common(r) = <<>> => r.commonBlkCount = 0
  BY <1>1, NotedCommon DEF r
<1>6. r.buf \in Seq(Tidy) /\ r.pending \in Seq(Tidy) /\ (r.first # <<>> => r.first[1].id <= 0)
  BY <1>2 DEF Carried
<1>7. CASE /\ t.ok /\ (t.h.file \/ (t.d[n] = Absent /\ s.d[n] = Absent))
           /\ Flowing(r, t.d[n], s.h.split)
  <2>1. lm = [lim EXCEPT ![n] = s.h.split]
    BY <1>7 DEF Granted, Refuses
  <2>2. lm[n] = s.h.split /\ \A m \in Names : m # n => lm[m] = lim[m]
    BY <1>1, <2>1
  <2>3. t.d[n] = Absent \/ t.d[n] \in Seq(Items)
    BY <1>1, DiskTyped
  <2>4. Within(t.d[n], r.split)
    <3>1. r.file \/ t.d[n] = Absent
      BY <1>2, <1>7
    <3>2. Flowing(r, t.d[n], r.split)
      BY <1>4, <1>7
    <3>3. QED
      BY <1>2, <1>3, <2>3, <3>1, <3>2, FlowWithin
  <2> HIDE DEF lm
  <2>5. \A m \in Names : Within(t.d[m], lm[m])
    BY <1>4, <2>2, <2>4
  <2>6. HandleWithin(r, t.d[n], lm[n])
    BY <1>2, <1>4, <1>5, <1>6, <1>7, <2>2 DEF HandleWithin
  <2>7. QED
    BY <2>5, <2>6 DEF After, lm, r
<1>8. CASE /\ ~t.h.file /\ t.d[n] # Absent /\ (t.ok => s.d[n] = t.d[n])
           /\ t.h.wordsToFile = 0 /\ t.h.pending = <<>> /\ Within(t.d[n], lim[n])
  <2>1. lm = lim
    BY <1>4, <1>8 DEF Granted, Refuses
  <2> HIDE DEF lm
  <2>2. \A m \in Names : Within(t.d[m], lm[m])
    BY <1>8, <2>1
  <2>3. HandleWithin(r, t.d[n], lm[n])
    BY <1>2, <1>4, <1>5, <1>6, <1>8 DEF HandleWithin
  <2>4. QED
    BY <2>2, <2>3 DEF After, lm, r
<1>9. QED
  BY <1>7, <1>8 DEF r

\* What a splitting handle leaves behind when it closes its file.
LEMMA FlowOut ==
  ASSUME NEW s \in Works, HandleOK(s.h), s.h.splitting, NEW l,
         s.h.buf \in Seq(Tidy), s.h.pending \in Seq(Tidy),
         s.h.file \/ s.d[NameOf(s.h)] = Absent,
         Flowing(s.h, s.d[NameOf(s.h)], l), s.h.eventsToBuf > 0
  PROVE  LET t == evFlush(s)
             z == Synced(t.h, t.d)
             n == NameOf(s.h)
         IN  Within(z[n], l) /\ \A m \in Names : m # n => z[m] = s.d[m]
<1> DEFINE h == s.h
           n == NameOf(h)
           f == evFlush(s)
           x == f.d[n]
<1>1. h \in Handles /\ n \in Names /\ s.d \in Disks /\ h.split \in Nat
  BY DEF HandleOK, Filed, Works, Handles
<1>2. s.d[n] = Absent \/ s.d[n] \in Seq(Items)
  BY <1>1, DiskTyped
<1>3. /\ NameOf(f.h) = n /\ f.h.pending \in Seq(Tidy)
      /\ Len(f.h.pending) > 0 /\ f.h.pending[1].words = EV_HDSIZ
      /\ x \in Seq(Tidy) /\ \A m \in Names : m # n => f.d[m] = s.d[m]
      /\ Words(x) <= End(f.h) /\ End(f.h) = Reach(h)
      /\ Count(x) + Count(f.h.pending) <= Total(h, s.d[n])
      /\ f.h \in Handles /\ f.d \in Disks
  <2>1. f \in Works
    BY FlushOK
  <2>2. f.h \in Handles /\ f.d \in Disks
    BY <2>1 DEF Works
  <2>3. QED
    BY <2>2, FlushFlowing
<1> HIDE DEF f, x
<1> DEFINE p == f.h
           z == Synced(p, f.d)
<1>4. /\ NameOf(p) = n /\ p.pos \in Nat /\ Words(p.pending) > 0
      /\ p.pending \in Seq(Tidy) /\ f.d \in Disks /\ x \in Seq(Tidy)
  <2>1. p.pending \in Seq(Items)
    BY <1>3, TidyItems
  <2>2. Words(p.pending) >= EV_HDSIZ /\ Words(p.pending) \in Nat
    BY <1>3, <2>1, HeaderFirst, WordsNat
  <2>3. Words(p.pending) > 0
    BY <2>2 DEF EV_HDSIZ
  <2>4. QED
    BY <1>3, <2>3 DEF Handles
<1>5. Content(x) = x
  BY <1>4, TidyItems, AbsentIsNoFile DEF Content
<1> HIDE DEF p
<1>6. /\ z[n] \in Seq(Tidy) /\ \A m \in Names : m # n => z[m] = f.d[m]
      /\ Words(z[n]) <= Words(x) \/ Words(z[n]) <= End(p)
      /\ Count(z[n]) <= Count(x) + Count(p.pending)
  BY <1>1, <1>4, <1>5, SyncedTidy DEF x
<1> HIDE DEF z
<1>7. Within(z[n], l)
  <2>1. z[n] \in Seq(Items) /\ x \in Seq(Items)
    BY <1>4, <1>6, TidyItems
  <2>2. Words(z[n]) \in Nat /\ Words(x) \in Nat /\ Count(z[n]) \in Nat
        /\ Count(x) \in Nat /\ Count(p.pending) \in Nat
    BY <1>4, <2>1, WordsNat, MarksTyped, TidyItems
  <2>3. Total(h, s.d[n]) \in Nat
    BY <1>1, <1>2, TotalNat
  <2>4. Count(z[n]) <= Total(h, s.d[n])
    BY <1>3, <1>6, <2>2, <2>3 DEF p
  <2>5. Words(x) <= Reach(h) /\ End(p) = Reach(h) /\ End(p) \in Nat
    <3>1. Words(x) <= End(p) /\ End(p) = Reach(h)
      BY <1>3 DEF p
    <3>2. p.pos \in Nat /\ Words(p.pending) \in Nat
      BY <1>4, WordsNat, TidyItems
    <3>3. End(p) \in Nat
      <4> DEFINE u == p.pos
                 v == Words(p.pending)
      <4>1. u \in Nat /\ v \in Nat
        BY <3>2
      <4> HIDE DEF u, v
      <4>2. u + v \in Nat
        BY <4>1
      <4>3. QED
        BY <4>2 DEF End, u, v
    <3>4. QED
      BY <3>1, <3>3
  <2>6. Words(z[n]) <= Reach(h)
    BY <1>6, <2>2, <2>5
  <2>7. /\ Total(h, s.d[n]) <= 1 \/ Reach(h) <= h.split + EV_HDSIZ
        /\ Total(h, s.d[n]) = 0 \/ l = h.split
    BY <1>1 DEF Flowing
  <2>8. Count(z[n]) <= 1 \/ (l = h.split /\ Words(z[n]) <= h.split + EV_HDSIZ)
    BY <1>1, <2>2, <2>3, <2>4, <2>5, <2>6, <2>7, SMTT(30) DEF EV_HDSIZ
  <2>9. QED
    BY <1>6, <2>8 DEF Within
<1>8. QED
  BY <1>3, <1>6, <1>7 DEF z, p, f

\* An event written with a splitting handle.
LEMMA WriteFlowing ==
  ASSUME NEW s \in Works, HandleOK(s.h), Unused(s.h), s.ok = TRUE, NEW e \in EventItems,
         s.h.splitting, s.h.splitNumber < MaxFiles, NEW lim \in [Names -> Nat],
         \A m \in Names : Within(s.d[m], lim[m]),
         HandleWithin(s.h, s.d[NameOf(s.h)], lim[NameOf(s.h)]),
         e.id = FirstEvent => s.h.first # <<>>
  PROVE  After(lim, s, evWriteImpl(s, e), e)
<1> DEFINE h       == s.h
           n       == NameOf(h)
           splits  == SplitsFile(h, e)
           doFlush == (splits /\ h.eventsToBuf > 0) \/ TooBig(h, e) \/ NoRoom(h, e)
           flushed == IF doFlush THEN evFlush(s) ELSE s
           sp      == splitFile(flushed)
           t       == evWriteImpl(s, e)
           r       == Noted(t.h, e)
<1>1. /\ h.buf \in Seq(Tidy) /\ h.pending \in Seq(Tidy)
      /\ h.first # <<>> => h.first[1].id <= 0
      /\ Common(h) = <<>> => h.commonBlkCount = 0
      /\ IF h.file \/ s.d[n] = Absent THEN Flowing(h, s.d[n], lim[n])
                                      ELSE h.wordsToFile = 0 /\ h.pending = <<>>
  BY DEF HandleWithin
<1>2. /\ h \in Handles /\ n \in Names /\ s.d \in Disks /\ Buffered(h) /\ Filed(h)
      /\ h.eventsToBuf \in Nat /\ h.splitNumber \in Nat /\ h.split \in Nat
      /\ h.commonBlkCount \in Nat
  BY DEF HandleOK, Filed, Works, Handles
<1>3. t \in Works /\ HandleOK(t.h) /\ t.h \in Handles /\ t.d \in Disks
  BY WriteImplOK DEF Works
<1>4. Carried(t.h, h) /\ t.h.buf \in Seq(Tidy)
  BY <1>1, ImplKeeps
<1>5. /\ flushed.ok \in BOOLEAN
      /\ ~flushed.ok => doFlush /\ t = flushed
      /\ flushed.ok => t.ok = TRUE /\ t.h.buf \in Seq(Tidy)
      /\ flushed.ok /\ ~doFlush /\ ~splits =>
           /\ t.d = s.d /\ SameFlow(t.h, h) /\ Count(t.h.buf) = Count(h.buf) + New(e)
           /\ t.h.wordsToBuf <= h.wordsToBuf + e.words + EV_HDSIZ
           /\ t.h.eventsToBuf = h.eventsToBuf + 1
           /\ t.h.blknum \in {h.blknum, h.blknum + 1}
           /\ Len(h.buf) = 1 => t.h.blknum = h.blknum + 1
      /\ flushed.ok /\ doFlush /\ ~splits =>
           /\ t.d = flushed.d /\ SameFlow(t.h, flushed.h) /\ Count(t.h.buf) = New(e)
           /\ t.h.wordsToBuf <= e.words + 2 * EV_HDSIZ
           /\ t.h.eventsToBuf = 1 /\ t.h.blknum = h.blknum + 1
      /\ flushed.ok /\ splits =>
           /\ t.d = sp.d /\ SameFlow(t.h, sp.h) /\ Count(t.h.buf) = New(e)
           /\ t.h.eventsToBuf > 0
           /\ \/ t.h.blknum = 2 /\ t.h.eventsToBuf = 1 /\ Common(h) = <<>>
              \/ t.h.blknum = 3
  BY <1>1, WriteShapes DEF New
<1>6. /\ r \in Handles /\ r.commonBlkCount = t.h.commonBlkCount + IsFirst(e)
      /\ r.buf = t.h.buf /\ r.wordsToBuf = t.h.wordsToBuf /\ r.blknum = t.h.blknum
      /\ r.eventsToBuf = t.h.eventsToBuf /\ r.fileName = t.h.fileName
      /\ r.wordsToFile = t.h.wordsToFile
      /\ r.pending = t.h.pending /\ r.file = t.h.file /\ r.pos = t.h.pos /\ r.split = t.h.split
  BY <1>3, NotedFields
<1>7. t.h.split = h.split /\ t.h.commonBlkCount = h.commonBlkCount
  BY <1>4 DEF Carried
<1> DEFINE acts == doFlush /\ h.eventsToBuf > 0
<1>8. ~acts => flushed = s
  <2>1. ASSUME doFlush, ~(h.eventsToBuf > 0) PROVE flushed = s
    <3>1. h.eventsToBuf < 1
      BY <1>2, <2>1
    <3>2. evFlush(s) = s
      BY <3>1, FlushCases
    <3>3. QED
      BY <2>1, <3>2
  <2>2. QED
    BY <2>1
<1>9. splits /\ ~acts => h.eventsToBuf = 0
  BY <1>2
<1>10. acts => flushed = evFlush(s)
  OBVIOUS
<1>11. doFlush /\ ~acts => h.eventsToBuf = 0
  BY <1>2
<1>12. flushed \in Works /\ Filed(flushed.h) /\ flushed.h.splitting /\ Carried(flushed.h, h)
  <2>1. CASE doFlush
    <3> DEFINE f == evFlush(s)
    <3>1. f \in Works /\ Filed(f.h)
      BY FlushOK
    <3>2. Carried(f.h, h)
      BY FlushCases DEF Carried
    <3> HIDE DEF f
    <3>3. flushed = f
      BY <2>1 DEF f
    <3>4. QED
      BY <3>1, <3>2, <3>3 DEF Carried
  <2>2. CASE ~doFlush
    BY <1>2, <2>2 DEF Carried
  <2>3. QED
    BY <2>1, <2>2
<1>13. doFlush \in BOOLEAN /\ splits \in BOOLEAN /\ acts \in BOOLEAN
  <2>1. splits \in BOOLEAN
    BY DEF SplitsFile
  <2>2. QED
    BY <2>1
<1>14. acts => doFlush
  OBVIOUS
<1>15. splits /\ h.eventsToBuf > 0 => acts
  OBVIOUS
<1>16. ~splits <=> ~SplitsFile(h, e)
  OBVIOUS
<1> SUFFICES After(lim, s, t, e)
  OBVIOUS
<1> HIDE DEF flushed, splits, doFlush, sp, t, r, acts
\* What is left to show when the event begins a new file.
<1>20. ASSUME flushed.ok, splits,
              \A m \in Names : Within(t.d[m], lim[m]),
              t.d[NameOf(t.h)] = s.d[NameOf(t.h)]
       PROVE  After(lim, s, t, e)
  <2>1. /\ ~sp.h.file /\ sp.h.pending = <<>> /\ sp.h.pos = 0 /\ sp.h.wordsToFile = 0
    BY <1>12, SplitShape DEF sp
  <2>2. /\ ~t.h.file /\ t.h.pending = <<>> /\ t.h.pos = 0 /\ t.h.wordsToFile = 0
    BY <1>5, <1>20, <2>1 DEF SameFlow
  <2>3. Flowing(r, Absent, r.split)
    <3>1. /\ Count(r.buf) = New(e) /\ r.eventsToBuf > 0
          /\ ~r.file /\ r.wordsToFile = 0 /\ r.pending = <<>> /\ r.pos = 0
      BY <1>5, <1>6, <1>20, <2>2
    <3>2. Common(h) = <<>> => r.commonBlkCount = IsFirst(e)
      BY <1>1, <1>6, <1>7, NewOrFirst
    <3>3. \/ r.blknum = 3
          \/ r.blknum = 2 /\ r.eventsToBuf = 1 /\ r.commonBlkCount = IsFirst(e)
      BY <1>5, <1>6, <1>20, <3>2
    <3>4. QED
      BY <1>6, <3>1, <3>3, FlowNew
  <2>4. t.h.pending \in Seq(Tidy) /\ NameOf(t.h) \in Names /\ t.ok
    BY <1>3, <1>5, <1>20, <2>2 DEF HandleOK, Filed
  <2>5. CASE t.d[NameOf(t.h)] = Absent
    <3>1. Flowing(r, t.d[NameOf(t.h)], h.split)
      BY <1>6, <1>7, <2>3, <2>5
    <3>2. QED
      BY <1>1, <1>3, <1>4, <1>20, <2>4, <2>5, <3>1, FlowAfter DEF r
  <2>6. CASE t.d[NameOf(t.h)] # Absent
    BY <1>1, <1>3, <1>4, <1>20, <2>2, <2>4, <2>6, FlowAfter
  <2>7. QED
    BY <2>5, <2>6
<1>21. CASE ~h.file /\ s.d[n] # Absent
  <2>1. h.wordsToFile = 0 /\ h.pending = <<>>
    BY <1>1, <1>21
  <2>2. CASE acts
    <3> DEFINE f == evFlush(s)
    <3>1. h.eventsToBuf > 0
      BY <2>2 DEF acts
    <3>2. /\ f.d = s.d /\ f.ok = FALSE /\ NameOf(f.h) = n
          /\ ~f.h.file /\ f.h.pending = h.pending /\ f.h.wordsToFile = 0
      BY <1>21, <2>1, <3>1, FlushRefused
    <3> HIDE DEF f
    <3>3. t = f
      BY <1>5, <1>10, <2>2, <3>2 DEF f
    <3>4. /\ ~t.ok /\ t.d = s.d /\ NameOf(t.h) = n /\ ~t.h.file /\ t.h.pending = <<>>
          /\ t.h.wordsToFile = 0
      BY <2>1, <3>2, <3>3
    <3>5. t.h.pending \in Seq(Tidy)
      BY <3>4
    <3>6. QED
      BY <1>1, <1>2, <1>3, <1>4, <1>21, <3>4, <3>5, FlowAfter
  <2>3. CASE ~acts /\ ~splits
    <3>1. t.d = s.d /\ SameFlow(t.h, h) /\ t.ok
      BY <1>5, <1>8, <1>13, <2>3
    <3>2. NameOf(t.h) = n /\ ~t.h.file /\ t.h.pending = <<>> /\ t.h.wordsToFile = 0
      BY <1>21, <2>1, <3>1, FlowNames DEF SameFlow
    <3>3. t.h.pending \in Seq(Tidy)
      BY <3>2
    <3>4. QED
      BY <1>1, <1>2, <1>3, <1>4, <1>21, <3>1, <3>2, <3>3, FlowAfter
  <2>4. CASE ~acts /\ splits
    <3>1. flushed = s /\ flushed.ok
      BY <1>8, <2>4
    <3>2. sp.d = s.d
      BY <1>12, <2>1, <3>1, SplitShape DEF Synced, sp
    <3>3. t.d = s.d
      BY <1>5, <2>4, <3>1, <3>2
    <3>4. QED
      BY <1>20, <2>4, <3>1, <3>3
  <2>5. QED
    BY <1>13, <2>2, <2>3, <2>4
<1>22. CASE h.file \/ s.d[n] = Absent
  <2>1. Flowing(h, s.d[n], lim[n])
    BY <1>1, <1>22
  <2>2. s.d[n] = Absent \/ s.d[n] \in Seq(Items)
    BY <1>2, DiskTyped
  <2>3. h.eventsToBuf = 0 =>
          /\ h.blknum = 1 /\ ~h.file /\ h.commonBlkCount = 0 /\ h.wordsToFile = 0
          /\ h.pending = <<>> /\ h.pos = 0 /\ s.d[n] = Absent
    BY <1>22, <2>1 DEF Flowing
  <2> DEFINE f == evFlush(s)
             x == f.d[n]
  <2>4. acts => /\ f.ok = TRUE /\ NameOf(f.h) = n /\ f.h.file /\ f.h.fileName # -1
                /\ f.h.pending \in Seq(Tidy)
                /\ Len(f.h.pending) > 0 /\ f.h.pending[1].words = EV_HDSIZ
                /\ x \in Seq(Tidy) /\ \A m \in Names : m # n => f.d[m] = s.d[m]
                /\ Words(x) <= End(f.h) /\ End(f.h) = Reach(h)
                /\ End(f.h) <= f.h.wordsToFile /\ f.h.wordsToFile # 0
                /\ Count(x) + Count(f.h.pending) <= Total(h, s.d[n])
                /\ f.h \in Handles /\ f.d \in Disks /\ Filed(f.h)
    <3>1. ASSUME acts PROVE h.eventsToBuf > 0
      BY <3>1 DEF acts
    <3>2. f \in Works /\ Filed(f.h)
      BY FlushOK
    <3>3. f.h \in Handles /\ f.d \in Disks
      BY <3>2 DEF Works
    <3>4. QED
      BY <1>1, <1>22, <2>1, <3>1, <3>2, <3>3, FlushFlowing
  <2>5. acts => flushed = f
    BY <1>10
  <2> HIDE DEF f, x
  <2>6. flushed.ok
    BY <1>8, <1>13, <2>4, <2>5
  <2>7. CASE acts /\ ~splits
    <3>1. /\ t.d = f.d /\ SameFlow(t.h, f.h) /\ Count(t.h.buf) = New(e)
          /\ t.h.wordsToBuf <= e.words + 2 * EV_HDSIZ
          /\ t.h.eventsToBuf = 1 /\ t.h.blknum = h.blknum + 1 /\ t.ok
      BY <1>5, <1>14, <2>5, <2>6, <2>7
    <3>2. /\ NameOf(t.h) = n /\ t.h.file /\ t.h.pending = f.h.pending
          /\ t.h.fileName = f.h.fileName /\ t.h.wordsToFile = f.h.wordsToFile
          /\ t.h.pos = f.h.pos
      BY <2>4, <2>7, <3>1, FlowNames DEF SameFlow
    <3>3. End(r) = End(f.h)
      BY <1>6, <3>2 DEF End
    <3>4. Flowing(r, x, h.split)
      <4>1. ~SplitsFile(h, e) /\ h.eventsToBuf > 0
        BY <1>16, <2>7 DEF acts
      <4>2. /\ r.file /\ r.pending \in Seq(Tidy) /\ Len(r.pending) > 0
            /\ r.pending[1].words = EV_HDSIZ /\ r.fileName # -1
            /\ Words(x) <= End(r) /\ End(r) = Reach(h) /\ End(r) <= r.wordsToFile
            /\ r.wordsToFile # 0 /\ r.split = h.split
            /\ Count(x) + Count(r.pending) <= Total(h, s.d[n])
            /\ Count(r.buf) = New(e) /\ r.wordsToBuf <= e.words + 2 * EV_HDSIZ
            /\ r.eventsToBuf = 1 /\ r.blknum = h.blknum + 1 /\ x \in Seq(Tidy)
        BY <1>6, <1>7, <2>4, <2>7, <3>1, <3>2, <3>3
      <4>3. QED
        BY <1>2, <1>6, <2>1, <2>2, <4>1, <4>2, FlowOn
    <3>5. t.d[n] = x /\ \A m \in Names : m # n => t.d[m] = s.d[m]
      BY <2>4, <2>7, <3>1 DEF x
    <3>6. t.h.pending \in Seq(Tidy) /\ \A m \in Names : m # n => Within(t.d[m], lim[m])
      BY <2>4, <2>7, <3>2, <3>5
    <3>7. Flowing(Noted(t.h, e), t.d[NameOf(t.h)], h.split)
      BY <3>2, <3>4, <3>5 DEF r
    <3>8. QED
      BY <1>1, <1>3, <1>4, <3>1, <3>2, <3>6, <3>7, FlowAfter
  <2>8. CASE acts /\ splits
    <3>1. t.d = sp.d /\ SameFlow(t.h, sp.h)
      BY <1>5, <2>6, <2>8
    <3>2. sp.d = Synced(f.h, f.d) /\ NameOf(sp.h) = f.h.splitNumber
      BY <1>12, <2>5, <2>8, SplitShape DEF sp
    <3>3. NameOf(t.h) = f.h.splitNumber /\ NameOf(t.h) # n
      <4>1. NameOf(t.h) = f.h.splitNumber
        BY <3>1, <3>2, FlowNames
      <4>2. f.h.splitting /\ f.h.rw = "file" /\ f.h.fileName = f.h.splitNumber - 1
            /\ f.h.splitNumber \in Nat
        BY <1>12, <2>4, <2>5, <2>8 DEF Filed, Handles
      <4>3. n = f.h.fileName
        BY <2>4, <2>8, <4>2 DEF NameOf
      <4>4. QED
        BY <4>1, <4>2, <4>3
    <3>4. /\ Within(t.d[n], lim[n]) /\ \A m \in Names : m # n => t.d[m] = s.d[m]
      <4>1. h.eventsToBuf > 0
        BY <2>8 DEF acts
      <4>2. t.d = Synced(evFlush(s).h, evFlush(s).d)
        BY <3>1, <3>2 DEF f
      <4>3. QED
        BY <1>1, <1>22, <2>1, <4>1, <4>2, FlowOut
    <3>5. NameOf(t.h) \in Names
      BY <1>3 DEF HandleOK, Filed
    <3>6. \A m \in Names : Within(t.d[m], lim[m])
      BY <3>4
    <3>7. QED
      BY <1>20, <2>6, <2>8, <3>3, <3>4, <3>5, <3>6
  <2>9. CASE ~acts /\ splits
    <3>1. flushed = s
      BY <1>8, <2>9
    <3>2. h.pending = <<>>
      BY <1>9, <2>3, <2>9
    <3>3. sp.d = s.d
      BY <1>12, <3>1, <3>2, SplitShape DEF Synced, sp
    <3>4. t.d = s.d
      BY <1>5, <2>6, <2>9, <3>3
    <3>5. QED
      BY <1>20, <2>6, <2>9, <3>4
  <2>10. CASE ~acts /\ ~splits /\ ~doFlush
    <3>1. /\ t.d = s.d /\ SameFlow(t.h, h) /\ Count(t.h.buf) = Count(h.buf) + New(e)
          /\ t.h.wordsToBuf <= h.wordsToBuf + e.words + EV_HDSIZ
          /\ t.h.eventsToBuf = h.eventsToBuf + 1
          /\ t.h.blknum \in {h.blknum, h.blknum + 1}
          /\ Len(h.buf) = 1 => t.h.blknum = h.blknum + 1
          /\ t.ok
      BY <1>5, <2>6, <2>10
    <3>2. h.blknum = 1 => t.h.blknum = 2
      BY <3>1 DEF Unused
    <3>3. /\ NameOf(t.h) = n /\ t.h.file = h.file /\ t.h.pending = h.pending
          /\ t.h.fileName = h.fileName /\ t.h.wordsToFile = h.wordsToFile
          /\ t.h.pos = h.pos
      BY <3>1, FlowNames DEF SameFlow
    <3>4. ~SplitsFile(h, e)
      BY <1>16, <2>10
    <3>5. Flowing(r, s.d[n], h.split)
      <4>1. /\ r.file = h.file /\ r.pos = h.pos /\ r.pending = h.pending
            /\ r.wordsToFile = h.wordsToFile /\ r.split = h.split /\ r.fileName = h.fileName
            /\ Count(r.buf) = Count(h.buf) + New(e)
            /\ r.wordsToBuf <= h.wordsToBuf + e.words + EV_HDSIZ
            /\ r.eventsToBuf = h.eventsToBuf + 1
            /\ r.blknum \in {h.blknum, h.blknum + 1}
            /\ h.blknum = 1 => r.blknum = 2
            /\ r.commonBlkCount = h.commonBlkCount + IsFirst(e)
        BY <1>6, <1>7, <3>1, <3>2, <3>3
      <4>2. QED
        BY <1>2, <1>6, <2>1, <2>2, <3>4, <4>1, FlowHere
    <3>6. t.h.pending \in Seq(Tidy) /\ \A m \in Names : m # n => Within(t.d[m], lim[m])
      BY <1>1, <3>1, <3>3
    <3>7. Flowing(Noted(t.h, e), t.d[NameOf(t.h)], h.split)
      BY <3>1, <3>3, <3>5 DEF r
    <3>8. t.h.file \/ (t.d[NameOf(t.h)] = Absent /\ s.d[NameOf(t.h)] = Absent)
      BY <1>22, <3>1, <3>3
    <3>9. QED
      BY <1>1, <1>3, <1>4, <3>1, <3>3, <3>6, <3>7, <3>8, FlowAfter
  <2>11. CASE ~acts /\ ~splits /\ doFlush
    <3>1. flushed = s /\ h.eventsToBuf = 0
      BY <1>8, <1>11, <2>11
    <3>2. /\ h.blknum = 1 /\ ~h.file /\ h.commonBlkCount = 0 /\ h.wordsToFile = 0
          /\ h.pending = <<>> /\ h.pos = 0 /\ s.d[n] = Absent
      BY <2>3, <3>1
    <3>3. /\ t.d = s.d /\ SameFlow(t.h, h) /\ Count(t.h.buf) = New(e)
          /\ t.h.eventsToBuf = 1 /\ t.h.blknum = h.blknum + 1 /\ t.ok
      BY <1>5, <2>6, <2>11, <3>1
    <3>4. /\ NameOf(t.h) = n /\ ~t.h.file /\ t.h.pending = <<>> /\ t.h.wordsToFile = 0
          /\ t.h.pos = 0
      BY <3>2, <3>3, FlowNames DEF SameFlow
    <3>5. Flowing(r, Absent, r.split)
      <4>1. r.commonBlkCount = IsFirst(e) /\ r.blknum = 2
        BY <1>6, <1>7, <3>2, <3>3, NewOrFirst
      <4>2. /\ ~r.file /\ r.wordsToFile = 0 /\ r.pending = <<>> /\ r.pos = 0
            /\ Count(r.buf) = New(e) /\ r.eventsToBuf = 1 /\ r.eventsToBuf > 0
        BY <1>6, <3>3, <3>4
      <4>3. QED
        BY <1>6, <4>1, <4>2, FlowNew
    <3>6. t.h.pending \in Seq(Tidy) /\ \A m \in Names : m # n => Within(t.d[m], lim[m])
      BY <1>1, <3>2, <3>3, <3>4
    <3>7. Flowing(Noted(t.h, e), t.d[NameOf(t.h)], h.split)
      BY <1>6, <1>7, <3>2, <3>3, <3>4, <3>5 DEF r
    <3>8. QED
      BY <1>1, <1>3, <1>4, <3>2, <3>3, <3>4, <3>6, <3>7, FlowAfter
  <2>12. QED
    BY <1>13, <2>7, <2>8, <2>9, <2>10, <2>11
<1>23. QED
  BY <1>21, <1>22

\* A flush of a handle that does not split.
LEMMA FlushPlain ==
  ASSUME NEW s \in Works, HandleOK(s.h), ~s.h.splitting,
         s.h.buf \in Seq(Tidy), s.h.pending \in Seq(Tidy)
  PROVE  LET t == evFlush(s)
             n == NameOf(s.h)
         IN  /\ t.ok = s.ok /\ NameOf(t.h) = n /\ t.h.pending \in Seq(Tidy)
             /\ \A m \in Names : m # n => t.d[m] = s.d[m]
<1> DEFINE h == s.h
           t == evFlush(s)
           n == NameOf(h)
<1>1. h \in Handles /\ Buffered(h) /\ n \in Names /\ s.d \in Disks
  BY DEF HandleOK, Filed, Works
<1>2. Cut(Memory(h), h.wordsToBuf) \in Seq(Tidy)
  BY <1>1, FlushedWords
<1>3. NameOf(t.h) = n
  BY FlushCases
<1>4. \A f : \A m \in Names : m # n => [s.d EXCEPT ![n] = f][m] = s.d[m]
  BY <1>1 DEF Disks
<1>5. CASE h.eventsToBuf < 1
  <2>1. t = s
    BY <1>5, FlushCases
  <2>2. QED
    BY <2>1
<1>6. CASE ~(h.eventsToBuf < 1) /\ h.rw = "pipe"
  <2> DEFINE f == Content(s.d[Pipe]) \o Cut(Memory(h), h.wordsToBuf - EV_HDSIZ)
  <2>1. t.d = [s.d EXCEPT ![Pipe] = f] /\ t.ok = s.ok /\ t.h.pending = h.pending
    BY <1>6, FlushCases
  <2>2. n = Pipe
    BY <1>6 DEF NameOf
  <2> HIDE DEF f, t, n
  <2>3. QED
    BY <1>3, <1>4, <2>1, <2>2 DEF t, n
<1>7. CASE ~(h.eventsToBuf < 1) /\ h.rw # "pipe" /\ h.wordsToFile = 0 /\ ~h.file
  <2> DEFINE f == <<>>
  <2>1. t.d = [s.d EXCEPT ![n] = f] /\ t.ok = s.ok /\ t.h.pending \in Seq(Tidy)
    BY <1>2, <1>7, FlushCases
  <2> HIDE DEF f, t, n
  <2>2. QED
    BY <1>3, <1>4, <2>1 DEF t, n
<1>8. CASE ~(h.eventsToBuf < 1) /\ h.rw # "pipe" /\ ~(h.wordsToFile = 0 /\ ~h.file)
  <2>1. t.d = Synced(h, s.d) /\ t.ok = s.ok /\ t.h.pending \in Seq(Tidy)
    BY <1>2, <1>8, FlushCases
  <2> DEFINE f == WriteAt(s.d[n], h.pos, h.pending)
  <2>2. t.d = s.d \/ t.d = [s.d EXCEPT ![n] = f]
    BY <2>1 DEF Synced
  <2> HIDE DEF f, t, n
  <2>3. QED
    BY <1>3, <1>4, <2>1, <2>2 DEF t, n
<1>9. QED
  BY <1>5, <1>6, <1>7, <1>8

\* An event written with a handle that does not split: its file has no limit.
LEMMA WritePlain ==
  ASSUME NEW s \in Works, HandleOK(s.h), Unused(s.h), s.ok = TRUE, NEW e \in EventItems,
         ~s.h.splitting, NEW lim \in [Names -> Nat],
         \A m \in Names : Within(s.d[m], lim[m]),
         HandleWithin(s.h, s.d[NameOf(s.h)], lim[NameOf(s.h)]),
         e.id = FirstEvent => s.h.first # <<>>
  PROVE  After(lim, s, evWriteImpl(s, e), e)
<1> DEFINE h       == s.h
           n       == NameOf(h)
           splits  == SplitsFile(h, e)
           doFlush == (splits /\ h.eventsToBuf > 0) \/ TooBig(h, e) \/ NoRoom(h, e)
           flushed == IF doFlush THEN evFlush(s) ELSE s
           t       == evWriteImpl(s, e)
           r       == Noted(t.h, e)
           lm      == Granted(lim, s, t)
<1>1. /\ h.buf \in Seq(Tidy) /\ h.pending \in Seq(Tidy)
      /\ h.first # <<>> => h.first[1].id <= 0
      /\ Common(h) = <<>> => h.commonBlkCount = 0
  BY DEF HandleWithin
<1>2. h \in Handles /\ n \in Names /\ s.d \in Disks
  BY DEF HandleOK, Filed, Works
<1>3. t \in Works /\ t.h \in Handles /\ t.d \in Disks
  BY WriteImplOK DEF Works
<1>4. Carried(t.h, h) /\ t.h.buf \in Seq(Tidy)
  BY <1>1, ImplKeeps
<1>5. ~splits
  BY DEF SplitsFile
<1>6. /\ flushed.ok => t.ok = TRUE
      /\ flushed.ok /\ ~doFlush /\ ~splits => t.d = s.d /\ SameFlow(t.h, h)
      /\ flushed.ok /\ doFlush /\ ~splits => t.d = flushed.d /\ SameFlow(t.h, flushed.h)
  BY <1>1, WriteShapes
<1>7. /\ flushed.ok /\ NameOf(flushed.h) = n /\ flushed.h.pending \in Seq(Tidy)
      /\ \A m \in Names : m # n => flushed.d[m] = s.d[m]
  <2>1. CASE doFlush
    BY <1>1, <2>1, FlushPlain
  <2>2. CASE ~doFlush
    BY <1>1, <2>2
  <2>3. QED
    BY <2>1, <2>2
<1>8. ~doFlush => flushed = s
  OBVIOUS
<1> SUFFICES After(lim, s, t, e)
  OBVIOUS
<1>9. r.buf = t.h.buf /\ r.pending = t.h.pending /\ r.splitting = t.h.splitting /\ r.first = t.h.first
  BY <1>3, NotedFields
<1>10. Common(r) = <<>> => r.commonBlkCount = 0
  BY <1>1, <1>2, <1>3, <1>4, NotedCommon
<1> HIDE DEF flushed, splits, doFlush, t, r
<1>11. t.ok /\ SameFlow(t.h, flushed.h) /\ t.d = flushed.d
  BY <1>5, <1>6, <1>7, <1>8
<1>12. NameOf(t.h) = n /\ t.h.pending \in Seq(Tidy)
  BY <1>7, <1>11, FlowNames DEF SameFlow
<1>13. ~t.h.splitting
  BY <1>4 DEF Carried
<1>14. lm = [lim EXCEPT ![n] = 0]
  BY <1>11, <1>12, <1>13 DEF Granted, Refuses
<1>15. lm[n] = 0 /\ \A m \in Names : m # n => lm[m] = lim[m]
  BY <1>2, <1>14
<1> HIDE DEF lm
<1>16. \A m \in Names : Within(t.d[m], lm[m])
  BY <1>7, <1>11, <1>15 DEF Within
<1>17. HandleWithin(r, t.d[n], lm[n])
  BY <1>1, <1>4, <1>9, <1>10, <1>12, <1>13, <1>15 DEF HandleWithin, Carried
<1>18. QED
  BY <1>12, <1>16, <1>17 DEF After, lm, r

-----------------------------------------------------------------------------
(* The steps.                                                              *)

\* Nothing but the dictionary has been written with a splitting handle.
LEMMA FlowEmpty ==
  ASSUME NEW r, ~r.file, r.wordsToFile = 0, r.pending = <<>>, r.pos = 0,
         Count(r.buf) = 0,
         \/ r.blknum = 1 /\ r.eventsToBuf = 0 /\ r.commonBlkCount = 0
         \/ r.blknum = 2 /\ r.eventsToBuf = 1 /\ r.commonBlkCount = 1,
         NEW l
  PROVE  Flowing(r, Absent, l)
<1>1. Total(r, Absent) = 0
  <2>1. Content(Absent) = <<>>
    BY DEF Content
  <2>2. QED
    BY <2>1, CountEmpty DEF Total
<1>2. QED
  BY <1>1 DEF Flowing

\* The header of an empty last block.
LEMMA OneHeader ==
  ASSUME NEW n \in Nat
  PROVE  /\ <<EmptyLast(n)>> \in Seq(Tidy) /\ Count(<<EmptyLast(n)>>) = 0
         /\ Words(<<EmptyLast(n)>>) = EV_HDSIZ
<1> DEFINE v == EmptyLast(n)
<1>1. v \in Tidy /\ ~IsWritten(v) /\ v \in Items /\ v.words = EV_HDSIZ
  BY TidyItems, EmptyLastItem
<1> HIDE DEF v
<1>2. <<v>> \in Seq(Tidy) /\ Count(<<v>>) = 0 /\ Words(<<v>>) = v.words
  BY <1>1, CountOne, WordsOne
<1>3. QED
  BY <1>1, <1>2 DEF v

LEMMA InitSplit == Init => SplitInv
BY DEF Init, SplitInv, Opened, Within

LEMMA OpenWriteSplit ==
  ASSUME FileInv, SplitInv, NEW rw \in {"file", "pipe"}, NEW splitting \in BOOLEAN,
         splitting => rw = "file", evOpen_w(rw, splitting)
  PROVE  SplitInv'
<1> DEFINE h == structInit(rw, 0, splitting)
           b == <<EmptyLast(1)>>
           n == NameOf(h)
<1>1. a' = h /\ disk' = disk /\ limit' = limit /\ (rw = "pipe" => disk[Pipe] = Absent)
  BY DEF evOpen_w, CanOpen
<1>2. /\ h.buf = b /\ h.pending = <<>> /\ h.first = <<>> /\ h.commonBlkCount = 0
      /\ h.splitting = splitting /\ h.file = FALSE /\ h.wordsToFile = 0 /\ h.pos = 0
      /\ h.blknum = 1 /\ h.eventsToBuf = 0 /\ h.rw = rw
  BY DEF structInit
<1>3. b \in Seq(Tidy) /\ Count(b) = 0 /\ <<>> \in Seq(Tidy)
  BY OneHeader
<1>4. h.rw = "pipe" => n = Pipe
  BY DEF NameOf
<1> HIDE DEF h, b, n
<1>5. h.splitting => IF h.file \/ disk[n] = Absent THEN Flowing(h, disk[n], limit[n])
                     ELSE h.wordsToFile = 0 /\ h.pending = <<>>
  <2>1. CASE disk[n] = Absent
    <3>1. Flowing(h, Absent, limit[n])
      BY <1>2, <1>3, FlowEmpty
    <3>2. QED
      BY <2>1, <3>1
  <2>2. CASE disk[n] # Absent
    BY <1>2, <2>2
  <2>3. QED
    BY <2>1, <2>2
<1>6. Untouched(h, disk[n])
  BY <1>1, <1>2, <1>3, <1>4 DEF Untouched
<1>7. HandleWithin(h, disk[n], limit[n])
  BY <1>2, <1>3, <1>5, <1>6 DEF HandleWithin
<1>8. QED
  BY <1>1, <1>7 DEF SplitInv, n

\* A handle that appends stands at the header of the empty last block of a
\* file that was split off, and writes that header again.
LEMMA AppendWithin ==
  ASSUME NEW f \in Seq(Items), NEW l \in Nat, Within(f, l), toAppendPosition(f).ok
  PROVE  LET r == toAppendPosition(f)
         IN  Within(r.f, l) /\ HandleWithin(r.h, r.f, l) /\ NameOf(r.h) = 0
<1> DEFINE heads == BlockHeaders(f)
           c     == Len(heads)
           k     == heads[c]
           num   == IF f[k].size > EV_HDSIZ THEN c + 1 ELSE c
           pos   == AppendAt(f, k)
           total == EventCount(f, heads)
           x     == [f[k] EXCEPT !.last = FALSE]
           g     == [f EXCEPT ![k] = x]
           b     == <<EmptyLast(num)>>
           evs   == IF f[1].dict THEN total + 1 ELSE total
           i     == structInit("file", 1, FALSE)
           h     == [i EXCEPT !.buf = b, !.blknum = num, !.fileName = 0, !.file = TRUE,
                              !.pos = pos, !.eventCount = total, !.eventsToBuf = evs]
           r     == toAppendPosition(f)
           v     == WriteAt(g, pos, b)
<1>1. heads # <<>> /\ r.h = h /\ r.f = v
  <2>1. heads # <<>>
    BY DEF toAppendPosition
  <2>2. r = [ok |-> TRUE, f |-> v, h |-> h]
    BY <2>1 DEF toAppendPosition
  <2> HIDE DEF h, r, v
  <2>3. QED
    BY <2>1, <2>2
<1>2. c \in Nat \ {0} /\ k \in 1 .. Len(f) /\ f[k].kind = "head" /\ f[k].last
  <2>1. /\ heads \in Seq(1 .. Len(f)) /\ \A j \in 1 .. Len(heads) : f[heads[j]].kind = "head"
        /\ heads = <<>> \/ f[heads[Len(heads)]].last
    BY BlockHeadersTyped DEF HeaderLists
  <2> HIDE DEF heads
  <2>2. c \in Nat \ {0} /\ c \in 1 .. c
    BY <1>1, <2>1
  <2>3. QED
    BY <1>1, <2>1, <2>2, SMTT(30)
<1>3. i \in Handles
  <2>1. "file" \in {"file", "pipe"} /\ 1 \in 0 .. 2 /\ FALSE \in BOOLEAN
    OBVIOUS
  <2>2. QED
    BY <2>1, StructInitOK DEF HandleOK
<1>4. /\ i.rw = "file" /\ i.splitting = FALSE /\ i.wordsToBuf = EV_HDSIZ /\ i.wordsToFile = 0
      /\ i.pending = <<>> /\ i.first = <<>> /\ i.commonBlkCount = 0 /\ i.append = 1
  BY DEF structInit
<1> HIDE DEF heads, c, k, i, total, pos
<1>5. num \in Nat
  BY <1>2
<1>6. b \in Seq(Tidy) /\ Count(b) = 0 /\ Words(b) = EV_HDSIZ
  BY <1>5, OneHeader
<1> HIDE DEF num, b, evs
<1>7. /\ h.buf = b /\ h.file = TRUE /\ h.pos = pos /\ h.fileName = 0
      /\ h.rw = "file" /\ h.splitting = FALSE /\ h.wordsToBuf = EV_HDSIZ /\ h.wordsToFile = 0
      /\ h.pending = <<>> /\ h.first = <<>> /\ h.commonBlkCount = 0 /\ h.append = 1
  BY <1>3, <1>4 DEF Handles
<1> HIDE DEF h, r, v, x, g
<1>8. NameOf(h) = 0
  BY <1>7 DEF NameOf
<1>9. l # 0 => Within(v, l) /\ Untouched(h, v)
  <2> SUFFICES ASSUME l # 0 PROVE Within(v, l) /\ Untouched(h, v)
    OBVIOUS
  <2>1. f \in Seq(Tidy) /\ (Words(f) <= l + EV_HDSIZ \/ Count(f) <= 1)
    BY AbsentIsNoFile DEF Within
  <2>2. f[k] \in HeadItems /\ f[k].size = EV_HDSIZ
    <3>1. f[k] \in Tidy
      BY <1>2, <2>1
    <3>2. QED
      BY <1>2, <3>1 DEF Tidy, Items, HeadItems, EventItems, TornItems
  <2>3. x \in HeadItems /\ ~x.last
    BY <2>2 DEF HeadItems, x
  <2>4. g \in Seq(Tidy) /\ Len(g) = Len(f) /\ Count(g) = Count(f) /\ Words(g) = Words(f)
    BY <1>2, <2>1, <2>2, <2>3, HeadChanged DEF g
  <2>5. pos \in Nat /\ pos + EV_HDSIZ <= Words(f) /\ Words(f) \in Nat
    <3>1. Len(f) \in Nat /\ k - 1 \in 0 .. Len(f) /\ k \in 0 .. Len(f) /\ k <= Len(f)
      BY <1>2
    <3>2. Ends(f)[k] = Ends(f)[k-1] + f[k].words /\ Ends(f)[k-1] \in Nat
      BY <1>2, <3>1, EndsDef
    <3>3. f[k].words = 8
      BY <2>2 DEF HeadItems, EV_HDSIZ
    <3>4. Ends(f)[k] <= Words(f) /\ Words(f) \in Nat
      BY <3>1, EndsGrow, WordsNat DEF Words
    <3>5. pos = Ends(f)[k] - 8
      <4>1. ~(f[k].size > EV_HDSIZ)
        BY <2>2 DEF EV_HDSIZ
      <4>2. pos = Ends(f)[k] - EV_HDSIZ + 0
        BY <4>1 DEF AppendAt, pos
      <4>3. Ends(f)[k] \in Nat
        BY <3>2, <3>3
      <4>4. QED
        BY <4>2, <4>3 DEF EV_HDSIZ
    <3>6. QED
      BY <3>2, <3>3, <3>4, <3>5 DEF EV_HDSIZ
  <2>6. Content(g) = g
    BY <2>4, TidyItems, AbsentIsNoFile DEF Content
  <2>7. /\ v \in Seq(Tidy) /\ Words(v) \in Nat /\ Count(v) <= Count(g) + Count(b)
        /\ Words(v) <= Words(g) \/ Words(v) <= pos + Words(b)
        /\ pos <= Words(g) => Words(v) >= pos + Words(b)
    <3>1. Words(b) > 0
      BY <1>6 DEF EV_HDSIZ
    <3>2. QED
      BY <1>6, <2>4, <2>5, <2>6, <3>1, WriteAtTidy DEF v
  <2>8. Count(v) \in Nat /\ Count(f) \in Nat
    BY <2>7, MarksTyped, TidyItems
  <2>9. Count(v) <= Count(f) /\ Words(v) <= Words(f) /\ pos + EV_HDSIZ <= Words(v)
    BY <1>6, <2>4, <2>5, <2>7, <2>8 DEF EV_HDSIZ
  <2>10. Words(v) <= l + EV_HDSIZ \/ Count(v) <= 1
    BY <2>1, <2>5, <2>7, <2>8, <2>9 DEF EV_HDSIZ
  <2>11. QED
    BY <1>6, <1>7, <2>7, <2>9, <2>10 DEF Within, Untouched
<1>10. HandleWithin(h, v, l)
  BY <1>6, <1>7, <1>9 DEF HandleWithin
<1>11. QED
  BY <1>1, <1>8, <1>9, <1>10 DEF Within, r

LEMMA OpenAppendSplit ==
  ASSUME FileInv, SplitInv, evOpen_a
  PROVE  SplitInv'
<1> DEFINE r == toAppendPosition(disk[0])
<1>1. /\ disk[0] # Absent /\ a = Closed /\ limit' = limit
      /\ IF r.ok THEN a' = r.h /\ disk' = [disk EXCEPT ![0] = r.f]
                 ELSE a' = a /\ disk' = disk
  BY DEF evOpen_a, CanOpen, Opened
<1>2. /\ 0 \in Names /\ disk \in Disks /\ disk[0] \in Seq(Items) /\ limit[0] \in Nat
      /\ Within(disk[0], limit[0])
  <2>1. 0 \in Names /\ disk \in Disks
    BY SizesAssumption DEF FileInv, Names
  <2>2. QED
    BY <1>1, <2>1 DEF SplitInv, Disks
<1>3. CASE r.ok
  <2>1. Within(r.f, limit[0]) /\ HandleWithin(r.h, r.f, limit[0]) /\ NameOf(r.h) = 0
    BY <1>2, <1>3, AppendWithin
  <2> HIDE DEF r
  <2>2. a' = r.h /\ disk'[0] = r.f /\ \A m \in Names : m # 0 => disk'[m] = disk[m]
    BY <1>1, <1>2, <1>3 DEF Disks
  <2>3. QED
    BY <1>1, <1>2, <2>1, <2>2 DEF SplitInv
<1>4. CASE ~r.ok
  BY <1>1, <1>4 DEF SplitInv, Opened
<1>5. QED
  BY <1>3, <1>4

\* What settings leave alone.
SameButSizes(h, g) ==
  /\ h.first = g.first /\ h.dict = g.dict /\ h.commonBlkCount = g.commonBlkCount
  /\ h.splitting = g.splitting /\ h.file = g.file /\ h.wordsToFile = g.wordsToFile
  /\ h.pending = g.pending /\ h.pos = g.pos /\ h.rw = g.rw /\ h.fileName = g.fileName
  /\ h.splitNumber = g.splitNumber /\ h.append = g.append /\ h.wordsToBuf = g.wordsToBuf
  /\ h.blknum = g.blknum /\ h.eventsToBuf = g.eventsToBuf

LEMMA TuneSplit ==
  ASSUME FileInv, SplitInv, CanTune, disk' = disk, limit' = limit,
         NEW h, a' = h, SameButSizes(h, a), h.buf \in {a.buf, <<EmptyLast(1)>>}
  PROVE  SplitInv'
<1> DEFINE n == NameOf(a)
           f == disk[n]
           l == limit[n]
<1>1. /\ HandleOK(a) /\ Unused(a) /\ a \in Handles /\ Len(a.buf) = 1 /\ Opened
      /\ NothingWritten
  BY TuneEmpty DEF CanTune
<1>2. HandleWithin(a, f, l)
  BY <1>1 DEF SplitInv
<1>3. NameOf(h) = n /\ Common(h) = Common(a)
  BY DEF SameButSizes, NameOf, Common
<1>4. a.buf \in Seq(Tidy) /\ Count(a.buf) = 0
  <2>1. a.buf \in Seq(Tidy)
    BY <1>2 DEF HandleWithin
  <2>2. a.buf[1].kind = "head" /\ a.buf \in Seq(Items)
    BY <1>1 DEF HandleOK, Buffered, HeadItems, Handles
  <2> DEFINE x == a.buf[1]
  <2>3. a.buf = <<x>> /\ x \in Items /\ ~IsWritten(x)
    BY <1>1, <2>2 DEF IsWritten
  <2> HIDE DEF x
  <2>4. Count(a.buf) = 0
    BY <2>3, CountOne
  <2>5. QED
    BY <2>1, <2>4
<1>5. h.buf \in Seq(Tidy) /\ Count(h.buf) = 0
  <2> DEFINE b == <<EmptyLast(1)>>
  <2>1. b \in Seq(Tidy) /\ Count(b) = 0
    BY OneHeader
  <2>2. h.buf = a.buf \/ h.buf = b
    OBVIOUS
  <2> HIDE DEF b
  <2>3. QED
    BY <1>4, <2>1, <2>2
<1> HIDE DEF n, f, l
<1>6. h.splitting => IF h.file \/ f = Absent THEN Flowing(h, f, l)
                     ELSE h.wordsToFile = 0 /\ h.pending = <<>>
  <2> SUFFICES ASSUME h.splitting
               PROVE  IF h.file \/ f = Absent THEN Flowing(h, f, l)
                      ELSE h.wordsToFile = 0 /\ h.pending = <<>>
    OBVIOUS
  <2>1. a.splitting /\ a.append = 0 /\ a.blknum = 1
    BY <1>1 DEF SameButSizes, Unused, NothingWritten
  <2>2. CASE h.file \/ f = Absent
    <3>1. Flowing(a, f, l)
      BY <1>2, <2>1, <2>2 DEF HandleWithin, SameButSizes
    <3>2. /\ ~a.file /\ a.eventsToBuf = 0 /\ a.commonBlkCount = 0 /\ a.wordsToFile = 0
          /\ a.pending = <<>> /\ a.pos = 0
      BY <2>1, <3>1 DEF Flowing
    <3>3. f = Absent
      BY <2>2, <3>2 DEF SameButSizes
    <3>4. Flowing(h, Absent, l)
      BY <1>5, <2>1, <3>2, FlowEmpty DEF SameButSizes
    <3>5. QED
      BY <2>2, <3>3, <3>4
  <2>3. CASE ~(h.file \/ f = Absent)
    BY <1>2, <2>1, <2>3 DEF HandleWithin, SameButSizes
  <2>4. QED
    BY <2>2, <2>3
<1>7. ~h.splitting => l = 0 \/ Untouched(h, f)
  BY <1>2, <1>5 DEF HandleWithin, SameButSizes, Untouched
<1>8. HandleWithin(h, f, l)
  BY <1>2, <1>3, <1>5, <1>6, <1>7 DEF HandleWithin, SameButSizes
<1>9. QED
  BY <1>3, <1>8 DEF SplitInv, n, f, l

LEMMA TargetSplit ==
  ASSUME FileInv, SplitInv, NEW n \in Targets, evIoctl_B(n)
  PROVE  SplitInv'
<1> DEFINE m == n + EV_HDSIZ
           grows == m > a.bufRealSize
           b == IF grows THEN <<EmptyLast(1)>> ELSE a.buf
           real == IF grows THEN m ELSE a.bufRealSize
           size == IF m > a.bufSize THEN m ELSE a.bufSize
           h == [a EXCEPT !.blkSizeTarget = n, !.buf = b, !.bufRealSize = real,
                          !.bufSize = size]
<1>1. CanTune /\ a' = h /\ disk' = disk /\ limit' = limit
  BY DEF evIoctl_B
<1>2. a \in Handles /\ b \in {a.buf, <<EmptyLast(1)>>}
  BY <1>1, TuneEmpty
<1> HIDE DEF b, real, size
<1>3. SameButSizes(h, a) /\ h.buf = b
  BY <1>2 DEF Handles, SameButSizes
<1> HIDE DEF h
<1>4. QED
  BY <1>1, <1>2, <1>3, TuneSplit

LEMMA BufferSplit ==
  ASSUME FileInv, SplitInv, NEW n \in Buffers, evIoctl_W(n)
  PROVE  SplitInv'
<1> DEFINE grows == n > a.bufRealSize
           b == IF grows THEN <<EmptyLast(1)>> ELSE a.buf
           real == IF grows THEN n ELSE a.bufRealSize
           h == [a EXCEPT !.bufSize = n, !.buf = b, !.bufRealSize = real]
<1>1. CanTune /\ a' = h /\ disk' = disk /\ limit' = limit
  BY DEF evIoctl_W
<1>2. a \in Handles /\ b \in {a.buf, <<EmptyLast(1)>>}
  BY <1>1, TuneEmpty
<1> HIDE DEF b, real
<1>3. SameButSizes(h, a) /\ h.buf = b
  BY <1>2 DEF Handles, SameButSizes
<1> HIDE DEF h
<1>4. QED
  BY <1>1, <1>2, <1>3, TuneSplit

LEMMA EventMaxSplit ==
  ASSUME FileInv, SplitInv, NEW n \in EventMaxima, evIoctl_N(n)
  PROVE  SplitInv'
<1> DEFINE h == [a EXCEPT !.blkEvMax = n]
<1>1. CanTune /\ a' = h /\ disk' = disk /\ limit' = limit
  BY DEF evIoctl_N
<1>2. a \in Handles
  BY <1>1, TuneEmpty
<1>3. SameButSizes(h, a) /\ h.buf = a.buf
  BY <1>2 DEF Handles, SameButSizes
<1> HIDE DEF h
<1>4. QED
  BY <1>1, <1>3, TuneSplit

LEMMA SplitSizeSplit ==
  ASSUME FileInv, SplitInv, NEW n \in Splits, evIoctl_S(n)
  PROVE  SplitInv'
<1> DEFINE h == [a EXCEPT !.split = n]
<1>1. CanTune /\ a' = h /\ disk' = disk /\ limit' = limit
  BY DEF evIoctl_S
<1>2. a \in Handles
  BY <1>1, TuneEmpty
<1>3. SameButSizes(h, a) /\ h.buf = a.buf
  BY <1>2 DEF Handles, SameButSizes
<1> HIDE DEF h
<1>4. QED
  BY <1>1, <1>3, TuneSplit

\* The dictionary alone does not count.
LEMMA DictionarySplit ==
  ASSUME FileInv, SplitInv, NEW n \in DictSizes, evWriteDictionary(n)
  PROVE  SplitInv'
<1> DEFINE size == n + 2 * EV_HDSIZ
           x    == expandBuffer(a, size)
           fits == IF a.bufSize < size THEN resetBuffer(x) ELSE a
           h    == [fits EXCEPT !.dict = n]
           d    == Event(Dictionary, n)
           w    == writeEventToBuffer(h, d, TRUE)
           r    == [w EXCEPT !.commonBlkCount = w.commonBlkCount + 1]
           m    == NameOf(a)
           f    == disk[m]
           l    == limit[m]
<1>1. /\ Opened /\ a.append = 0 /\ a.blknum = 1 /\ a' = r /\ disk' = disk /\ limit' = limit
  BY DEF evWriteDictionary
<1>2. /\ HandleOK(a) /\ Unused(a) /\ a \in Handles /\ Len(a.buf) = 1 /\ Buffered(a)
      /\ HandleWithin(a, f, l) /\ m \in Names
  BY <1>1 DEF FileInv, HandleOK, Unused, SplitInv, Filed
<1>3. n \in Nat /\ n > 0 /\ size \in Nat
  <2>1. n \in Nat /\ n > 0
    BY SizesAssumption
  <2>2. QED
    BY <2>1 DEF EV_HDSIZ
<1>4. a.buf \in Seq(Tidy) /\ Count(a.buf) = 0
  <2>1. a.buf \in Seq(Tidy)
    BY <1>2 DEF HandleWithin
  <2>2. a.buf[1].kind = "head" /\ a.buf \in Seq(Items)
    BY <1>2 DEF Buffered, HeadItems, Handles
  <2> DEFINE y == a.buf[1]
  <2>3. a.buf = <<y>> /\ y \in Items /\ ~IsWritten(y)
    BY <1>2, <2>2 DEF IsWritten
  <2> HIDE DEF y
  <2>4. Count(a.buf) = 0
    BY <2>3, CountOne
  <2>5. QED
    BY <2>1, <2>4
<1> HIDE DEF f, l, m
<1>5. /\ fits \in Handles /\ Buffered(fits) /\ Len(fits.buf) = 1 /\ fits.append = 0
      /\ fits.blknum = 1 /\ SameFlow(fits, a)
      /\ fits.buf \in Seq(Tidy) /\ Count(fits.buf) = 0
      /\ fits.eventsToBuf \in {0, a.eventsToBuf}
  <2>1. CASE a.bufSize < size
    <3> HIDE DEF size
    <3>1. /\ x \in Handles /\ x.append = 0 /\ x.blknum = 1 /\ x.bufSize <= x.bufRealSize
          /\ Filed(x) /\ x.bufSize >= size
      BY <1>1, <1>2, <1>3, ExpandOK DEF HandleOK, Roomy
    <3>2. SameFlow(x, a)
      BY <1>2, <1>3, Expanded
    <3> HIDE DEF x
    <3>3. x.bufSize \in Nat /\ size >= EV_HDSIZ
      BY <1>3, <3>1 DEF Handles, size, EV_HDSIZ
    <3>4. EV_HDSIZ <= x.bufSize
      BY <1>3, <3>1, <3>3 DEF EV_HDSIZ
    <3>5. fits = resetBuffer(x)
      BY <2>1
    <3> HIDE DEF fits
    <3>6. HandleOK(fits) /\ Len(fits.buf) = 1 /\ fits.append = 0
      BY <3>1, <3>4, <3>5, ResetOK
    <3>7. /\ fits.buf \in Seq(Tidy) /\ Count(fits.buf) = 0 /\ fits.eventsToBuf = 0
          /\ fits.blknum = 1 /\ SameFlow(fits, x)
      BY <3>1, <3>5, Emptied
    <3>8. SameFlow(fits, a)
      BY <3>2, <3>7 DEF SameFlow
    <3>9. QED
      BY <3>6, <3>7, <3>8 DEF HandleOK
  <2>2. CASE ~(a.bufSize < size)
    BY <1>1, <1>2, <1>4, <2>2 DEF SameFlow
  <2>3. QED
    BY <2>1, <2>2
<1> HIDE DEF fits, size, x
<1>6. /\ h \in Handles /\ h.buf = fits.buf /\ h.cur = fits.cur /\ h.blksiz = fits.blksiz
      /\ h.blknum = 1 /\ h.append = 0 /\ h.wordsToBuf = fits.wordsToBuf
      /\ h.splitting = fits.splitting /\ h.rw = fits.rw /\ h.fileName = fits.fileName
      /\ h.splitNumber = fits.splitNumber /\ h.wordsToFile = fits.wordsToFile
      /\ h.pending = fits.pending /\ h.first = fits.first /\ h.file = fits.file
      /\ h.pos = fits.pos /\ h.commonBlkCount = fits.commonBlkCount
      /\ h.eventsToBuf = fits.eventsToBuf /\ h.dict = n
  BY <1>3, <1>5 DEF Handles
<1> HIDE DEF h
<1>7. Ready(h) /\ isLastBlock(h)
  <2>1. fits.cur = 1 /\ fits.buf[1] \in HeadItems /\ fits.buf[1].last
        /\ fits.wordsToBuf = Words(fits.buf) + 0 /\ fits.buf[fits.cur].size = fits.blksiz
    BY <1>5 DEF Buffered
  <2>2. Words(fits.buf) \in Nat
    BY <1>5, WordsNat, TidyItems
  <2>3. 1 \in 1 .. Len(fits.buf)
    BY <1>5
  <2>4. fits.wordsToBuf = Words(fits.buf) - 0
    BY <2>1, <2>2
  <2>5. QED
    BY <1>6, <2>1, <2>3, <2>4 DEF Ready, isLastBlock
<1>8. d \in EventItems /\ ~IsWritten(d)
  BY <1>3, DictionaryItem DEF Event, IsWritten, Dictionary
<1> HIDE DEF d
<1>9. /\ w \in Handles /\ w.buf \in Seq(Tidy) /\ Count(w.buf) = Count(h.buf) + 0
      /\ SameFlow(w, h) /\ w.eventsToBuf = h.eventsToBuf + 1 /\ w.blknum = h.blknum + 1
      /\ w.append = h.append
  <2>1. w \in Handles /\ w.append = h.append
    <3>1. w \in Handles
      BY <1>6, <1>7, <1>8, WriteEventOK
    <3>2. w.append = h.append
      BY <1>6, <1>8 DEF writeEventToBuffer, Handles
    <3>3. QED
      BY <3>1, <3>2
  <2>2. TRUE \in BOOLEAN
    OBVIOUS
  <2>3. h.buf \in Seq(Tidy)
    BY <1>5, <1>6
  <2>4. QED
    BY <1>6, <1>7, <1>8, <2>1, <2>2, <2>3, EventAdded
<1> HIDE DEF w
<1>10. /\ r.buf = w.buf /\ r.commonBlkCount = w.commonBlkCount + 1
       /\ r.first = w.first /\ r.dict = w.dict /\ r.splitting = w.splitting
       /\ r.file = w.file /\ r.wordsToFile = w.wordsToFile /\ r.pending = w.pending
       /\ r.pos = w.pos /\ r.rw = w.rw /\ r.fileName = w.fileName
       /\ r.splitNumber = w.splitNumber /\ r.append = w.append
       /\ r.blknum = w.blknum /\ r.eventsToBuf = w.eventsToBuf
  BY <1>9 DEF Handles
<1> HIDE DEF r
<1>11. /\ r.buf \in Seq(Tidy) /\ Count(r.buf) = 0 /\ r.blknum = 2 /\ r.append = 0
       /\ r.commonBlkCount = a.commonBlkCount + 1 /\ r.first = a.first /\ r.dict = n
       /\ r.splitting = a.splitting /\ r.file = a.file /\ r.wordsToFile = a.wordsToFile
       /\ r.pending = a.pending /\ r.pos = a.pos /\ r.rw = a.rw /\ r.fileName = a.fileName
       /\ r.splitNumber = a.splitNumber
  BY <1>5, <1>6, <1>9, <1>10 DEF SameFlow
<1>12. NameOf(r) = m /\ Common(r) # <<>>
  <2>1. NameOf(r) = m
    BY <1>11 DEF NameOf, m
  <2> DEFINE y == Event(Dictionary, r.dict)
             z == r.first
  <2>2. Common(r) = <<y>> \o z
    BY <1>3, <1>11 DEF Common
  <2>3. z \in Seq(EventItems)
    <3>1. z \in FirstEvents
      BY <1>2, <1>11 DEF Handles
    <3>2. \A v \in EventItems : <<v>> \in Seq(EventItems)
      OBVIOUS
    <3>3. <<>> \in Seq(EventItems)
      OBVIOUS
    <3>4. QED
      BY <3>1, <3>2, <3>3, Zenon DEF FirstEvents
  <2> HIDE DEF y, z
  <2>4. <<y>> \o z # <<>>
    <3>1. z \in Seq(EventItems \cup {y}) /\ <<y>> \in Seq(EventItems \cup {y})
      BY <2>3
    <3>2. Len(<<y>> \o z) = 1 + Len(z) /\ Len(z) \in Nat
      BY <3>1
    <3>3. QED
      BY <3>2
  <2>5. QED
    BY <2>1, <2>2, <2>4
<1>13. r.splitting => IF r.file \/ f = Absent THEN Flowing(r, f, l)
                      ELSE r.wordsToFile = 0 /\ r.pending = <<>>
  <2>1. CASE r.splitting /\ (r.file \/ f = Absent)
    <3>1. Flowing(a, f, l)
      BY <1>2, <1>11, <2>1 DEF HandleWithin
    <3>2. /\ ~a.file /\ a.eventsToBuf = 0 /\ a.commonBlkCount = 0 /\ a.wordsToFile = 0
          /\ a.pending = <<>> /\ a.pos = 0
      BY <1>1, <3>1 DEF Flowing
    <3>3. f = Absent
      BY <1>11, <2>1, <3>2
    <3>4. r.eventsToBuf = 1
      BY <1>5, <1>6, <1>9, <1>10, <3>2
    <3>5. Flowing(r, Absent, l)
      BY <1>11, <3>2, <3>4, FlowEmpty
    <3>6. QED
      BY <2>1, <3>3, <3>5
  <2>2. CASE ~(r.splitting /\ (r.file \/ f = Absent))
    BY <1>2, <1>11, <2>2 DEF HandleWithin
  <2>3. QED
    BY <2>1, <2>2
<1>14. ~r.splitting => l = 0 \/ Untouched(r, f)
  BY <1>1, <1>2, <1>11 DEF HandleWithin, Untouched
<1>15. HandleWithin(r, f, l)
  BY <1>2, <1>11, <1>12, <1>13, <1>14 DEF HandleWithin
<1>16. QED
  BY <1>1, <1>12, <1>15 DEF SplitInv, f, l

\* An event written with the handle a, or with a after the first event was set.
LEMMA WriteSplit ==
  ASSUME FileInv, SplitInv, WithinBounds, NEW h \in Handles, NEW e \in EventItems,
         HandleOK(h), Unused(h), h.splitting => h.splitNumber < MaxFiles,
         NameOf(h) = NameOf(a),
         HandleWithin(h, disk[NameOf(h)], limit[NameOf(h)]),
         e.id = FirstEvent => h.first # <<>>, Write(h, e)
  PROVE  SplitInv'
<1> DEFINE s == [h |-> h, d |-> disk, ok |-> TRUE]
           t == evWriteImpl(s, e)
<1>1. /\ disk' = t.d /\ a' = Noted(t.h, e)
      /\ limit' = Granted(limit, s, t)
  <2>1. limit' = IF t.ok THEN IF Refused(t.h) THEN limit
                              ELSE [limit EXCEPT ![NameOf(t.h)] =
                                      IF h.splitting THEN h.split ELSE 0]
                 ELSE limit
    BY DEF Write
  <2>2. Refused(t.h) <=> Refuses(t.h, s.d)
    BY DEF Refused, Refuses
  <2>3. disk' = t.d /\ a' = Noted(t.h, e)
    BY DEF Write, Noted
  <2>4. s.h = h
    OBVIOUS
  <2> HIDE DEF t
  <2>5. QED
    BY <2>1, <2>2, <2>3, <2>4 DEF Granted
<1>2. s \in Works /\ s.h = h /\ s.ok = TRUE /\ s.d = disk
  BY DEF Works, FileInv
<1>3. limit \in [Names -> Nat] /\ \A m \in Names : Within(disk[m], limit[m])
  BY DEF SplitInv
<1> HIDE DEF s
<1>4. After(limit, s, t, e)
  <2>1. CASE h.splitting
    BY <1>2, <1>3, <2>1, WriteFlowing
  <2>2. CASE ~h.splitting
    BY <1>2, <1>3, <2>2, WritePlain
  <2>3. QED
    BY <2>1, <2>2
<1>5. t \in Works /\ t.h \in Handles /\ NameOf(t.h) \in Names
  BY <1>2, WriteImplOK DEF Works, HandleOK, Filed
<1> HIDE DEF t
<1>6. NameOf(Noted(t.h, e)) = NameOf(t.h)
  BY <1>5, NotedFields
<1>7. limit' \in [Names -> Nat]
  <2>1. (IF h.splitting THEN h.split ELSE 0) \in Nat
    BY DEF Handles
  <2>2. QED
    BY <1>1, <1>2, <1>3, <1>5, <2>1 DEF Granted
<1>8. QED
  BY <1>1, <1>4, <1>6, <1>7 DEF SplitInv, After

LEMMA EventSplit ==
  ASSUME FileInv, SplitInv, NEW n \in EventSizes, evWrite(n)
  PROVE  SplitInv'
<1> DEFINE e == Event(events + 1, n)
<1>1. WithinBounds /\ Write(a, e)
  BY DEF evWrite
<1>2. /\ a \in Handles /\ HandleOK(a) /\ Unused(a) /\ Opened
      /\ a.splitting => a.splitNumber < MaxFiles
  BY <1>1 DEF WithinBounds, FileInv, HandleOK
<1>3. e \in EventItems /\ e.id # FirstEvent
  <2>1. events \in Nat
    BY SizesAssumption DEF FileInv
  <2>2. events + 1 \in Int /\ events + 1 # -1 /\ n \in Nat
    BY <2>1, SizesAssumption
  <2>3. QED
    BY <2>2 DEF Event, EventItems, FirstEvent
<1>4. HandleWithin(a, disk[NameOf(a)], limit[NameOf(a)])
  BY <1>2 DEF SplitInv
<1> HIDE DEF e
<1>5. QED
  BY <1>1, <1>2, <1>3, <1>4, WriteSplit

LEMMA FirstEventSplit ==
  ASSUME FileInv, SplitInv, NEW n \in FirstSizes, evWriteFirstEvent(n)
  PROVE  SplitInv'
<1> DEFINE e == Event(FirstEvent, n)
           one == <<e>>
           h == [a EXCEPT !.first = one]
<1>1. WithinBounds /\ Write(h, e)
  BY DEF evWriteFirstEvent
<1>2. /\ a \in Handles /\ HandleOK(a) /\ Unused(a) /\ Opened
      /\ a.splitting => a.splitNumber < MaxFiles
  BY <1>1 DEF WithinBounds, FileInv, HandleOK
<1>3. e \in EventItems /\ e.id <= 0
  BY SizesAssumption DEF Event, EventItems, FirstEvent
<1>4. one \in FirstEvents /\ one # <<>> /\ one[1].id <= 0
  BY <1>3 DEF FirstEvents
<1>5. Len(one) = 1 /\ one \in Seq(EventItems)
  BY <1>3
<1>6. HandleWithin(a, disk[NameOf(a)], limit[NameOf(a)])
  BY <1>2 DEF SplitInv
<1> HIDE DEF e, one
<1>7. h \in Handles /\ h.first = one /\ h.blknum = a.blknum
  BY <1>2, <1>4 DEF Handles
<1>8. /\ h.buf = a.buf /\ h.cur = a.cur /\ h.blksiz = a.blksiz /\ h.wordsToBuf = a.wordsToBuf
      /\ h.append = a.append /\ h.bufSize = a.bufSize /\ h.bufRealSize = a.bufRealSize
      /\ h.rw = a.rw /\ h.splitting = a.splitting /\ h.fileName = a.fileName
      /\ h.splitNumber = a.splitNumber /\ h.wordsToFile = a.wordsToFile
      /\ h.pending = a.pending /\ h.file = a.file /\ h.pos = a.pos /\ h.split = a.split
      /\ h.eventsToBuf = a.eventsToBuf /\ h.commonBlkCount = a.commonBlkCount
      /\ h.dict = a.dict
  BY <1>2, <1>4 DEF Handles
<1> HIDE DEF h
<1>9. NameOf(h) = NameOf(a)
  BY <1>8 DEF NameOf
<1>10. HandleOK(h) /\ Unused(h)
  BY <1>2, <1>7, <1>8, <1>9 DEF HandleOK, Buffered, Roomy, Filed, Unused
<1>11. Common(h) # <<>>
  <2> DEFINE y == Event(Dictionary, h.dict)
  <2>1. Common(h) = <<y>> \o one \/ Common(h) = <<>> \o one
    BY <1>7 DEF Common
  <2> HIDE DEF y
  <2>2. one \in Seq(EventItems \cup {y}) /\ <<y>> \in Seq(EventItems \cup {y})
    BY <1>5
  <2>3. <<>> \o one = one
    BY <1>5
  <2>4. <<y>> \o one # <<>>
    <3>1. Len(<<y>> \o one) = 1 + Len(one) /\ Len(one) \in Nat
      BY <2>2
    <3>2. QED
      BY <3>1
  <2>5. QED
    BY <1>4, <2>1, <2>3, <2>4
<1> DEFINE f == disk[NameOf(a)]
           l == limit[NameOf(a)]
<1>12. HandleWithin(h, f, l)
  <2> HIDE DEF f, l
  <2>1. Flowing(a, f, l) => Flowing(h, f, l)
    BY <1>7, <1>8 DEF Flowing, Total, Reach, End
  <2>2. Untouched(a, f) => Untouched(h, f)
    BY <1>8 DEF Untouched
  <2>3. HandleWithin(a, f, l)
    BY <1>6 DEF f, l
  <2>4. QED
    BY <1>4, <1>7, <1>8, <1>11, <2>1, <2>2, <2>3 DEF HandleWithin
<1>13. QED
  BY <1>1, <1>2, <1>3, <1>4, <1>7, <1>8, <1>9, <1>10, <1>12, WriteSplit

\* What is cut off in front of everything is nothing.
LEMMA CutNothing ==
  ASSUME NEW f \in Seq(Items), NEW n \in Nat,
         f = <<>> \/ (n = 0 /\ Len(f) > 0 /\ f[1].words = EV_HDSIZ)
  PROVE  Cut(f, n) = <<>>
<1> DEFINE k == CHOOSE i \in 0 .. Len(f) :
                   /\ Ends(f)[i] <= n
                   /\ i = Len(f) \/ Ends(f)[i+1] > n
           g == SubSeq(f, 1, k)
           rest == IF k < Len(f) /\ Ends(f)[k] < n THEN <<Torn(n - Ends(f)[k])>> ELSE <<>>
<1>1. Cut(f, n) = g \o rest
  BY DEF Cut
<1>2. k \in 0 .. Len(f) /\ Ends(f)[k] <= n
  BY CutPlace
<1> HIDE DEF k
<1>3. Len(f) \in Nat /\ Ends(f)[k] \in Nat /\ k \in Nat
  BY <1>2, ItemWords, EndsDef
<1>4. k = 0
  <2>1. CASE f = <<>>
    BY <1>2, <2>1
  <2>2. CASE n = 0 /\ Len(f) > 0 /\ f[1].words = EV_HDSIZ
    <3>1. Ends(f)[1] = EV_HDSIZ
      BY <2>2, HeaderFirst
    <3>2. k # 0 => Ends(f)[1] <= Ends(f)[k]
      <4>1. k # 0 => 1 \in 0 .. Len(f) /\ 1 <= k
        BY <1>2, <1>3
      <4>2. QED
        BY <1>2, <4>1, EndsGrow
    <3>3. QED
      BY <1>2, <1>3, <2>2, <3>1, <3>2 DEF EV_HDSIZ
  <2>3. QED
    BY <2>1, <2>2
<1>5. g = <<>>
  BY <1>4
<1>6. rest = <<>>
  <2>1. ~(k < Len(f) /\ Ends(f)[k] < n)
    BY <1>3
  <2>2. QED
    BY <2>1
<1>7. QED
  BY <1>1, <1>5, <1>6

\* The part of the stream that a crash leaves on the disk.
LEMMA CrashSplit ==
  ASSUME FileInv, SplitInv, Crash
  PROVE  SplitInv'
<1>1. PICK n \in {0} \cup EV_HDSIZ .. Words(a.pending) :
          disk' = Synced([a EXCEPT !.pending = Cut(@, n)], disk)
  BY DEF Crash
<1>2. Opened /\ a' = Closed /\ limit' = limit
  BY DEF Crash
<1>3. HandleOK(a) /\ a \in Handles /\ disk \in Disks /\ Filed(a) /\ Buffered(a)
  BY <1>2 DEF FileInv, HandleOK
<1> DEFINE m == NameOf(a)
           f == disk[m]
           l == limit[m]
           p == Cut(a.pending, n)
           h == [a EXCEPT !.pending = p]
<1>4. /\ a.pending \in Seq(Items) /\ a.pos \in Nat /\ m \in Names /\ HandleWithin(a, f, l)
      /\ l \in Nat /\ Within(f, l)
  BY <1>2, <1>3 DEF Handles, Filed, SplitInv
<1>5. n \in Nat /\ (n = 0 \/ (n >= 8 /\ n <= Words(a.pending))) /\ Words(a.pending) \in Nat
  BY <1>4, WordsNat DEF EV_HDSIZ
<1>6. p \in Seq(Items) /\ (n <= Words(a.pending) => Words(p) = n)
  BY <1>4, <1>5, CutProperties
<1>7. disk' = Synced(h, disk)
  BY <1>1
<1>8. a.pending = <<>> => p = <<>>
  BY <1>4, <1>5, CutNothing
<1>9. a.pending \in Seq(Tidy)
  BY <1>4 DEF HandleWithin
<1>10. p \in Seq(Tidy) /\ Count(p) \in Nat /\ Count(p) <= Count(a.pending)
  BY <1>5, <1>9, CutTidy, CutCount
<1>11. Len(a.pending) > 0 /\ a.pending[1].words = EV_HDSIZ /\ n = 0 => p = <<>>
  BY <1>4, <1>5, CutNothing
<1> HIDE DEF p
<1>12. h.pending = p /\ h.pos = a.pos /\ h.rw = a.rw /\ h.fileName = a.fileName
       /\ h.splitNumber = a.splitNumber
  BY <1>3 DEF Handles
<1> HIDE DEF h
<1>13. NameOf(h) = m
  BY <1>12 DEF NameOf
<1>14. p = <<>> => disk' = disk
  BY <1>7, <1>12 DEF Synced
<1>15. \A j \in Names : j # m => disk'[j] = disk[j]
  <2> DEFINE v == WriteAt(disk[m], h.pos, h.pending)
  <2>1. disk' = disk \/ disk' = [disk EXCEPT ![m] = v]
    BY <1>7, <1>13 DEF Synced
  <2> HIDE DEF v, m
  <2>2. QED
    BY <1>3, <2>1 DEF Disks
<1>16. Within(disk'[m], l)
  <2>1. CASE l = 0
    BY <2>1 DEF Within
  <2>2. CASE p = <<>>
    BY <1>4, <1>14, <2>2
  <2>3. CASE l # 0 /\ p # <<>>
    <3>1. a.splitting /\ a.file
      BY <1>4, <1>8, <2>3 DEF HandleWithin, Untouched, Flowing
    <3>2. Flowing(a, f, l)
      BY <1>4, <3>1 DEF HandleWithin
    <3>3. /\ f \in Seq(Tidy) /\ Words(f) <= End(a) /\ l = a.split
          /\ Len(a.pending) > 0 /\ a.pending[1].words = EV_HDSIZ
          /\ Total(a, f) <= 1 \/ Reach(a) <= a.split + EV_HDSIZ
      BY <3>1, <3>2 DEF Flowing
    <3>4. n # 0 /\ Words(p) = n /\ Words(p) > 0 /\ n <= Words(a.pending)
      BY <1>5, <1>6, <1>11, <2>3, <3>3
    <3>5. Content(f) = f /\ f \in Seq(Items)
      BY <3>3, TidyItems, AbsentIsNoFile DEF Content
    <3>6. /\ disk'[m] \in Seq(Tidy)
          /\ Words(disk'[m]) <= Words(f) \/ Words(disk'[m]) <= End(h)
          /\ Count(disk'[m]) <= Count(f) + Count(p)
      BY <1>3, <1>4, <1>7, <1>10, <1>12, <1>13, <3>3, <3>4, <3>5, SyncedTidy
    <3>7. /\ Words(disk'[m]) \in Nat /\ Words(f) \in Nat /\ Count(disk'[m]) \in Nat
          /\ Count(f) \in Nat /\ Count(a.pending) \in Nat /\ Count(a.buf) \in Nat
      <4>1. disk'[m] \in Seq(Items)
        BY <3>6, TidyItems
      <4>2. Count(Content(f)) \in Nat /\ Count(a.pending) \in Nat /\ Count(a.buf) \in Nat
        BY <1>3, <3>5, TotalNat
      <4>3. QED
        BY <3>5, <4>1, <4>2, WordsNat, MarksTyped
    <3>8. Count(disk'[m]) <= Total(a, f)
      BY <1>10, <3>5, <3>6, <3>7 DEF Total
    <3>9. Total(a, f) \in Nat
      BY <3>5, <3>7 DEF Total
    <3>10. a.wordsToBuf \in Nat /\ a.wordsToBuf >= 8 /\ a.split \in Nat
      BY <1>3, BufferWords DEF Handles, EV_HDSIZ
    <3> DEFINE q == a.pos
               w == Words(a.pending)
               b == a.wordsToBuf
               x == Words(disk'[m])
    <3>11. x <= q + w /\ Reach(a) = q + w - 8 + b
      <4>1. End(a) = q + w /\ End(h) = q + n
        BY <1>12, <3>4 DEF End
      <4>2. Reach(a) = End(a) - 8 + b
        BY <3>1 DEF Reach, EV_HDSIZ
      <4>3. q \in Nat /\ w \in Nat /\ x \in Nat /\ n \in Nat /\ n <= w /\ Words(f) \in Nat
        BY <1>4, <1>5, <3>4, <3>7
      <4>4. (x <= Words(f) /\ Words(f) <= q + w) \/ x <= q + n
        BY <3>3, <3>6, <4>1
      <4> HIDE DEF q, w, x, b
      <4>5. x <= q + w
        BY <4>3, <4>4
      <4>6. b \in Nat
        BY <3>10 DEF b
      <4>7. QED
        BY <4>1, <4>2, <4>3, <4>5, <4>6
    <3>12. q \in Nat /\ w \in Nat /\ b \in Nat /\ x \in Nat /\ b >= 8
      BY <1>4, <1>5, <3>7, <3>10
    <3> HIDE DEF q, w, b, x
    <3>13. x <= l + EV_HDSIZ \/ Total(a, f) <= 1
      BY <3>3, <3>10, <3>11, <3>12 DEF EV_HDSIZ
    <3>14. Words(disk'[m]) <= l + EV_HDSIZ \/ Count(disk'[m]) <= 1
      BY <3>7, <3>8, <3>9, <3>13 DEF x
    <3>15. QED
      BY <3>6, <3>14 DEF Within
  <2>4. QED
    BY <2>1, <2>2, <2>3
<1>17. \A j \in Names : Within(disk'[j], limit[j])
  BY <1>15, <1>16 DEF SplitInv
<1>18. QED
  BY <1>2, <1>17 DEF SplitInv, Opened

\* Closing a splitting handle leaves its file within the limit.
LEMMA CloseFlowing ==
  ASSUME NEW s \in Works, HandleOK(s.h), s.h.splitting, NEW l,
         HandleWithin(s.h, s.d[NameOf(s.h)], l), Within(s.d[NameOf(s.h)], l)
  PROVE  LET t == evFlush(s)
             z == Synced(t.h, t.d)
             n == NameOf(s.h)
         IN  Within(z[n], l) /\ \A m \in Names : m # n => z[m] = s.d[m]
<1> DEFINE h == s.h
           t == evFlush(s)
           z == Synced(t.h, t.d)
           n == NameOf(h)
<1>1. /\ h.buf \in Seq(Tidy) /\ h.pending \in Seq(Tidy) /\ h.eventsToBuf \in Nat
      /\ IF h.file \/ s.d[n] = Absent THEN Flowing(h, s.d[n], l)
                                      ELSE h.wordsToFile = 0 /\ h.pending = <<>>
  BY DEF HandleWithin, HandleOK, Handles
<1>2. CASE h.eventsToBuf = 0
  <2>1. t = s
    <3>1. h.eventsToBuf < 1
      BY <1>2
    <3>2. QED
      BY <3>1, FlushCases
  <2>2. h.pending = <<>>
    BY <1>1, <1>2 DEF Flowing
  <2> HIDE DEF t
  <2>3. z = s.d
    BY <2>1, <2>2 DEF Synced
  <2>4. QED
    BY <2>3 DEF t
<1>3. CASE h.eventsToBuf # 0 /\ (h.file \/ s.d[n] = Absent)
  <2>1. h.eventsToBuf > 0 /\ Flowing(h, s.d[n], l)
    BY <1>1, <1>3
  <2>2. QED
    BY <1>1, <1>3, <2>1, FlowOut
<1>4. CASE h.eventsToBuf # 0 /\ ~(h.file \/ s.d[n] = Absent)
  <2>1. h.eventsToBuf > 0 /\ h.wordsToFile = 0 /\ h.pending = <<>>
    BY <1>1, <1>4
  <2>2. t.d = s.d /\ t.h.pending = <<>>
    BY <1>4, <2>1, FlushRefused
  <2> HIDE DEF t
  <2>3. z = s.d
    BY <2>2 DEF Synced
  <2>4. QED
    BY <2>3 DEF t
<1>5. QED
  BY <1>2, <1>3, <1>4

\* And so does closing one to which nothing but the dictionary, or the last
\* header of a file it appends to, was written.
LEMMA CloseUntouched ==
  ASSUME NEW s \in Works, HandleOK(s.h), ~s.h.splitting, s.h.rw # "pipe", NEW l \in Nat,
         s.h.buf \in Seq(Tidy), Untouched(s.h, s.d[NameOf(s.h)]),
         Within(s.d[NameOf(s.h)], l)
  PROVE  LET t == evFlush(s)
         IN  Within(Synced(t.h, t.d)[NameOf(s.h)], l)
<1> DEFINE h == s.h
           t == evFlush(s)
           n == NameOf(h)
           f == s.d[n]
           words == Cut(Memory(h), h.wordsToBuf)
           z == Synced(t.h, t.d)
<1>1. h \in Handles /\ Buffered(h) /\ n \in Names /\ s.d \in Disks
  BY DEF HandleOK, Filed, Works
<1>2. /\ words \in Seq(Tidy) /\ Words(words) = h.wordsToBuf
      /\ Count(words) \in Nat /\ Count(words) <= Count(h.buf)
  BY <1>1, FlushedWords
<1>3. h.wordsToBuf \in Nat /\ h.wordsToBuf >= 8
  BY <1>1, BufferWords DEF EV_HDSIZ
<1>4. h.pending = <<>> /\ h.wordsToFile = 0 /\ Count(h.buf) = 0
  BY DEF Untouched
<1>5. Count(words) = 0 /\ Words(words) > 0 /\ words # <<>>
  BY <1>2, <1>3, <1>4, WordsEmpty
<1>6. NameOf(t.h) = n /\ t.d \in Disks
  <2>1. t \in Works
    BY FlushOK
  <2>2. QED
    BY <2>1, FlushCases DEF Works
<1>7. CASE h.eventsToBuf < 1
  <2>1. t = s
    BY <1>7, FlushCases
  <2> HIDE DEF t
  <2>2. z = s.d
    BY <1>4, <2>1 DEF Synced
  <2>3. QED
    BY <2>2 DEF t
<1>8. CASE ~(h.eventsToBuf < 1) /\ ~h.file
  <2>1. t.d = [s.d EXCEPT ![n] = <<>>] /\ t.h.pos = 0 /\ t.h.pending = words
    BY <1>4, <1>8, FlushCases
  <2> HIDE DEF t, words
  <2>2. t.d[n] = <<>>
    BY <1>1, <2>1 DEF Disks
  <2>3. Content(<<>>) = <<>> /\ <<>> \in Seq(Tidy)
    BY DEF Content
  <2>4. z[n] \in Seq(Tidy) /\ Count(z[n]) <= Count(<<>>) + Count(words)
    <3> DEFINE g == t.h
               none == <<>>
    <3>1. /\ NameOf(g) = n /\ g.pos \in Nat /\ g.pending = words /\ t.d[n] = none
          /\ Content(none) = none /\ none \in Seq(Tidy)
      BY <1>6, <2>1, <2>2, <2>3
    <3> HIDE DEF g, none, n
    <3>2. /\ Synced(g, t.d)[n] \in Seq(Tidy)
          /\ Count(Synced(g, t.d)[n]) <= Count(none) + Count(words)
      BY <1>1, <1>2, <1>5, <1>6, <3>1, SyncedTidy
    <3>3. QED
      BY <3>2 DEF g, none
  <2>5. Count(z[n]) <= 0
    BY <1>5, <2>4, CountEmpty
  <2>6. Count(z[n]) <= 1
    BY <2>4, <2>5, MarksTyped, TidyItems
  <2>7. QED
    BY <2>4, <2>6 DEF Within, t
<1>9. CASE ~(h.eventsToBuf < 1) /\ h.file
  <2>1. f \in Seq(Tidy) /\ h.wordsToBuf = 8 /\ h.pos + 8 <= Words(f)
    BY <1>9 DEF Untouched, EV_HDSIZ
  <2>2. t.d = Synced(h, s.d) /\ t.h.pos = SeekBack(h) /\ t.h.pending = words
    BY <1>9, FlushCases
  <2>3. t.d = s.d /\ t.h.pos = h.pos /\ h.pos \in Nat
    BY <1>1, <1>4, <2>2 DEF Synced, SeekBack, Handles
  <2>4. Content(f) = f /\ f \in Seq(Items)
    BY <2>1, TidyItems, AbsentIsNoFile DEF Content
  <2> HIDE DEF t, words
  <2>5. /\ z[n] \in Seq(Tidy) /\ Count(z[n]) <= Count(f) + Count(words)
        /\ Words(z[n]) <= Words(f) \/ Words(z[n]) <= End(t.h)
    <3>1. t.d[n] = f
      BY <2>3
    <3> HIDE DEF f
    <3>2. QED
      BY <1>1, <1>2, <1>5, <1>6, <2>1, <2>2, <2>3, <2>4, <3>1, SyncedTidy
  <2>6. End(t.h) = h.pos + 8
    BY <1>2, <2>1, <2>2, <2>3 DEF End
  <2>7. Count(z[n]) \in Nat /\ Count(f) \in Nat /\ Words(z[n]) \in Nat /\ Words(f) \in Nat
    <3>1. z[n] \in Seq(Items)
      BY <2>5, TidyItems
    <3>2. QED
      BY <2>4, <3>1, MarksTyped, WordsNat
  <2>8. Count(z[n]) <= Count(f) /\ Words(z[n]) <= Words(f)
    BY <1>5, <2>1, <2>3, <2>5, <2>6, <2>7
  <2>9. CASE l = 0
    BY <2>9 DEF Within
  <2>10. CASE l # 0
    <3>1. Words(f) <= l + EV_HDSIZ \/ Count(f) <= 1
      BY <2>4, <2>10, AbsentIsNoFile DEF Within
    <3>2. CASE Count(f) <= 1
      BY <2>5, <2>7, <2>8, <3>2 DEF Within, t
    <3>3. CASE Words(f) <= l + EV_HDSIZ
      <4>1. Words(z[n]) <= l + EV_HDSIZ
        BY <2>7, <2>8, <3>3 DEF EV_HDSIZ
      <4>2. QED
        BY <2>5, <4>1 DEF Within, t
    <3>4. QED
      BY <3>1, <3>2, <3>3
  <2>11. QED
    BY <2>9, <2>10
<1>10. QED
  BY <1>7, <1>8, <1>9

LEMMA CloseSplit ==
  ASSUME FileInv, SplitInv, evClose
  PROVE  SplitInv'
<1> DEFINE s == [h |-> a, d |-> disk, ok |-> TRUE]
           t == evFlush(s)
           last == Append(Content(t.d[Pipe]), EmptyLast(a.blknum))
           n == NameOf(a)
           l == limit[n]
<1>1. /\ Opened /\ a' = Closed /\ limit' = limit
      /\ disk' = IF a.rw = "pipe" THEN [t.d EXCEPT ![Pipe] = last] ELSE Synced(t.h, t.d)
  BY DEF evClose
<1>2. HandleOK(a) /\ a \in Handles /\ disk \in Disks /\ n \in Names /\ Buffered(a)
  BY <1>1 DEF FileInv, HandleOK, Filed
<1>3. /\ HandleWithin(a, disk[n], l) /\ l \in Nat /\ Within(disk[n], l)
      /\ a.buf \in Seq(Tidy) /\ a.pending \in Seq(Tidy)
  BY <1>1, <1>2 DEF SplitInv, HandleWithin
<1>4. s \in Works /\ s.h = a /\ s.d = disk
  BY <1>2 DEF Works
<1> HIDE DEF s
<1>5. t \in Works /\ NameOf(t.h) = n /\ t.d \in Disks
  <2>1. t \in Works
    BY <1>2, <1>4, FlushOK
  <2>2. QED
    BY <1>2, <1>4, <2>1, FlushCases DEF Works
<1>6. Within(disk'[n], l) /\ \A m \in Names : m # n => disk'[m] = disk[m]
  <2>1. CASE a.splitting
    <3>1. a.rw # "pipe"
      BY <1>2, <2>1 DEF HandleOK, Filed
    <3>2. QED
      BY <1>1, <1>2, <1>3, <1>4, <2>1, <3>1, CloseFlowing
  <2>2. CASE ~a.splitting /\ a.rw # "pipe"
    <3>1. \A m \in Names : m # n => t.d[m] = disk[m]
      BY <1>2, <1>3, <1>4, <2>2, FlushPlain
    <3>2. l = 0 \/ Untouched(a, disk[n])
      BY <1>3, <2>2 DEF HandleWithin
    <3>3. Within(Synced(t.h, t.d)[n], l)
      <4>1. CASE l = 0
        BY <4>1 DEF Within
      <4>2. CASE Untouched(a, disk[n])
        BY <1>2, <1>3, <1>4, <2>2, <4>2, CloseUntouched
      <4>3. QED
        BY <3>2, <4>1, <4>2
    <3> DEFINE v == WriteAt(t.d[n], t.h.pos, t.h.pending)
    <3> HIDE DEF t
    <3>4. disk' = Synced(t.h, t.d)
      BY <1>1, <2>2
    <3>5. disk' = t.d \/ disk' = [t.d EXCEPT ![n] = v]
      BY <1>5, <3>4 DEF Synced
    <3> HIDE DEF v, n
    <3>6. QED
      BY <1>5, <3>1, <3>3, <3>4, <3>5 DEF Disks
  <2>3. CASE ~a.splitting /\ a.rw = "pipe"
    <3>1. n = Pipe
      BY <2>3 DEF NameOf
    <3>2. \A m \in Names : m # n => t.d[m] = disk[m]
      BY <1>2, <1>3, <1>4, <2>3, FlushPlain
    <3>3. disk' = [t.d EXCEPT ![n] = last]
      BY <1>1, <2>3, <3>1
    <3>4. disk'[n] = last /\ \A m \in Names : m # n => disk'[m] = disk[m]
      <4> HIDE DEF t, last, n
      <4>1. QED
        BY <1>2, <1>5, <3>2, <3>3 DEF Disks
    <3>5. l = 0 \/ Untouched(a, disk[n])
      BY <1>3, <2>3 DEF HandleWithin
    <3>6. CASE l = 0
      BY <3>4, <3>6 DEF Within
    <3>7. CASE Untouched(a, disk[n])
      <4> DEFINE piped == Cut(Memory(a), a.wordsToBuf - EV_HDSIZ)
                 c == Content(t.d[Pipe])
                 x == EmptyLast(a.blknum)
      <4>1. disk[n] = Absent /\ Count(a.buf) = 0
        BY <2>3, <3>7 DEF Untouched
      <4>2. piped \in Seq(Tidy) /\ Count(piped) \in Nat /\ Count(piped) <= Count(a.buf)
        BY <1>2, <1>3, FlushedWords
      <4>3. c = <<>> \/ c = piped
        <5>1. CASE a.eventsToBuf < 1
          <6>1. t = s
            BY <1>2, <1>4, <5>1, FlushCases
          <6>2. QED
            BY <1>4, <3>1, <4>1, <6>1 DEF Content
        <5>2. CASE ~(a.eventsToBuf < 1)
          <6>1. t.d = [disk EXCEPT ![Pipe] = Content(disk[Pipe]) \o piped]
            BY <1>2, <1>4, <2>3, <5>2, FlushCases
          <6>2. Content(disk[Pipe]) = <<>>
            BY <3>1, <4>1 DEF Content
          <6>3. <<>> \o piped = piped
            BY <4>2
          <6> HIDE DEF t, piped
          <6>4. t.d[Pipe] = piped
            BY <1>2, <3>1, <6>1, <6>2, <6>3 DEF Disks
          <6>5. piped # Absent
            BY <4>2, TidyItems, AbsentIsNoFile
          <6>6. QED
            BY <6>4, <6>5 DEF Content
        <5>3. QED
          BY <5>1, <5>2
      <4>4. x \in Tidy /\ ~IsWritten(x) /\ x \in Items
        BY <1>2, TidyItems DEF Handles
      <4>5. last = Append(c, x)
        OBVIOUS
      <4> HIDE DEF piped, c, x, last
      <4>6. c \in Seq(Tidy) /\ Count(c) = 0 /\ c \in Seq(Items)
        <5>1. Count(piped) = 0
          BY <4>1, <4>2
        <5>2. c \in Seq(Tidy) /\ Count(c) = 0
          <6>1. CASE c = <<>>
            <7>1. <<>> \in Seq(Tidy)
              OBVIOUS
            <7>2. QED
              BY <6>1, <7>1, CountEmpty
          <6>2. CASE c = piped
            BY <4>2, <5>1, <6>2
          <6>3. QED
            BY <4>3, <6>1, <6>2
        <5>3. QED
          BY <5>2, TidyItems
      <4>7. last \in Seq(Tidy) /\ Count(last) = 0 + 0
        BY <4>4, <4>5, <4>6, CountAppend
      <4>8. QED
        BY <3>4, <4>7 DEF Within
    <3>8. QED
      BY <3>4, <3>5, <3>6, <3>7
  <2>4. QED
    BY <2>1, <2>2, <2>3
<1>7. \A m \in Names : Within(disk'[m], limit[m])
  BY <1>6 DEF SplitInv
<1>8. QED
  BY <1>1, <1>7 DEF SplitInv, Opened

-----------------------------------------------------------------------------
(* Every step, and the theorem.                                            *)

LEMMA NextSplit == FileInv /\ SplitInv /\ [Next]_vars => SplitInv'
<1> SUFFICES ASSUME FileInv, SplitInv, [Next]_vars PROVE SplitInv'
  OBVIOUS
<1>1. CASE UNCHANGED vars
  <2>1. disk' = disk /\ limit' = limit /\ a' = a
    BY <1>1 DEF vars
  <2>2. QED
    BY <2>1 DEF SplitInv, Opened
<1>2. ASSUME NEW splitting \in BOOLEAN, evOpen_w("file", splitting) PROVE SplitInv'
  BY <1>2, OpenWriteSplit
<1>3. CASE evOpen_w("pipe", FALSE)
  BY <1>3, OpenWriteSplit
<1>4. CASE evOpen_a
  BY <1>4, OpenAppendSplit
<1>5. ASSUME NEW n \in Targets, evIoctl_B(n) PROVE SplitInv'
  BY <1>5, TargetSplit
<1>6. ASSUME NEW n \in Buffers, evIoctl_W(n) PROVE SplitInv'
  BY <1>6, BufferSplit
<1>7. ASSUME NEW n \in EventMaxima, evIoctl_N(n) PROVE SplitInv'
  BY <1>7, EventMaxSplit
<1>8. ASSUME NEW n \in Splits, evIoctl_S(n) PROVE SplitInv'
  BY <1>8, SplitSizeSplit
<1>9. ASSUME NEW n \in DictSizes, evWriteDictionary(n) PROVE SplitInv'
  BY <1>9, DictionarySplit
<1>10. ASSUME NEW n \in EventSizes, evWrite(n) PROVE SplitInv'
  BY <1>10, EventSplit
<1>11. ASSUME NEW n \in FirstSizes, evWriteFirstEvent(n) PROVE SplitInv'
  BY <1>11, FirstEventSplit
<1>12. CASE evClose
  BY <1>12, CloseSplit
<1>13. CASE Crash
  BY <1>13, CrashSplit
<1>14. QED
  BY <1>1, <1>2, <1>3, <1>4, <1>5, <1>6, <1>7, <1>8, <1>9, <1>10, <1>11, <1>12, <1>13 DEF Next

LEMMA InvSplitWithin == SplitInv => SplitWithinLimit
<1> SUFFICES ASSUME SplitInv, NEW n \in Names, limit[n] # 0, disk[n] # Absent,
                    ~(Words(disk[n]) <= limit[n] + EV_HDSIZ)
             PROVE  \A i, j \in 1 .. Len(disk[n]) :
                      IsWritten(disk[n][i]) /\ IsWritten(disk[n][j]) => i = j
  BY DEF SplitWithinLimit
<1>1. disk[n] \in Seq(Tidy) /\ Count(disk[n]) <= 1
  BY DEF SplitInv, Within
<1>2. disk[n] \in Seq(Items)
  BY <1>1, TidyItems
<1>3. QED
  BY <1>1, <1>2, CountAtMostOne

\* A split file is never longer than the limit it was written under and one
\* block header, unless it holds one event besides the common block: whatever
\* sizes evIoctl sets, however evWriteImpl's flushes, the buffered stream, the
\* dictionary and the first event interleave with the split, and wherever the
\* writer crashes.  Files written without splitting have no limit.
THEOREM FilesSplitWithinLimit == Spec => []SplitWithinLimit
<1>1. Init => FileInv /\ SplitInv
  BY InitInv, InitSplit
<1>2. FileInv /\ SplitInv /\ [Next]_vars => (FileInv /\ SplitInv)'
  BY NextInv, NextSplit
<1>3. SplitInv => SplitWithinLimit
  BY InvSplitWithin
<1>4. QED
  BY <1>1, <1>2, <1>3, PTL DEF Spec
=============================================================================
