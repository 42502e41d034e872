--------------------------- MODULE EvioFileProofs ---------------------------
(***************************************************************************)
(* The counters of a handle of the evio library agree with what is in its   *)
(* buffer and in its files: TypeOK of EvioFile, for any sizes of events,     *)
(* blocks, buffers and files. FileInv is the inductive invariant.            *)
(***************************************************************************)
EXTENDS EvioFile, FiniteInduction, SequenceTheorems

-----------------------------------------------------------------------------
(* Lengths of sequences of items.                                          *)

LEMMA ItemWords ==
  ASSUME NEW f \in Seq(Items)
  PROVE  /\ Len(f) \in Nat
         /\ \A i \in 1 .. Len(f) : f[i] \in Items /\ f[i].words \in Nat
<1>1. \A x \in Items : x.words \in Nat
  BY DEF Items, HeadItems, EventItems, TornItems, EV_HDSIZ
<1>2. QED
  BY <1>1

\* Ends is what its recursive definition says.
LEMMA EndsDef ==
  ASSUME NEW f \in Seq(Items)
  PROVE  /\ Ends(f) \in [0 .. Len(f) -> Nat]
         /\ Ends(f)[0] = 0
         /\ \A i \in 1 .. Len(f) : Ends(f)[i] = Ends(f)[i-1] + f[i].words
<1> DEFINE n == Len(f)
           G == [x \in Nat \X (1 .. n) |-> x[1] + f[x[2]].words]
           E == Ends(f)
<1>1. n \in Nat /\ \A i \in 1 .. n : f[i].words \in Nat
  BY ItemWords
<1>2. IsStep(G, n, Nat)
  BY <1>1 DEF IsStep
<1>3. PICK g : IsRun(g, n, Nat, 0, G)
  <2> HIDE DEF n, G
  <2>1. 0 \in Nat
    OBVIOUS
  <2>2. QED
    BY <1>1, <1>2, <2>1, RecursionUpTo
<1>4. /\ g \in [0 .. n -> Nat] /\ g[0] = 0
      /\ \A i \in 1 .. n : g[i] = g[i-1] + f[i].words
  <2>1. g \in [0 .. n -> Nat] /\ g[0] = 0
    BY <1>3 DEF IsRun
  <2>2. ASSUME NEW i \in 1 .. n PROVE g[i] = g[i-1] + f[i].words
    <3>1. <<g[i-1], i>> \in Nat \X (1 .. n)
      <4> HIDE DEF n
      <4>1. i - 1 \in 0 .. n
        BY <1>1
      <4>2. g[i-1] \in Nat
        BY <2>1, <4>1
      <4>3. QED
        BY <4>2
    <3>2. G[<<g[i-1], i>>] = g[i-1] + f[i].words
      BY <3>1
    <3>3. QED
      BY <1>3, <3>2 DEF IsRun
  <2>3. QED
    BY <2>1, <2>2
<1>5. g = [i \in 0 .. n |-> IF i = 0 THEN 0 ELSE g[i-1] + f[i].words]
  BY <1>1, <1>4
<1>6. E = [i \in 0 .. n |-> IF i = 0 THEN 0 ELSE E[i-1] + f[i].words]
  BY <1>5 DEF Ends
<1> HIDE DEF E, n
<1>7. E[0] = 0 /\ \A i \in 1 .. n : E[i] = E[i-1] + f[i].words
  BY <1>1, <1>6
<1> DEFINE S == {i \in 0 .. n : E[i] \in Nat}
<1>8. \A i \in 0 .. n : i \in S
  <2>1. 0 \in S
    BY <1>1, <1>7
  <2>2. ASSUME NEW i \in 1 .. n, i - 1 \in S PROVE i \in S
    <3>1. E[i-1] \in Nat /\ E[i] = E[i-1] + f[i].words /\ f[i].words \in Nat
      BY <1>1, <1>7, <2>2
    <3>2. QED
      BY <3>1
  <2> HIDE DEF S
  <2>3. QED
    BY <1>1, <2>1, <2>2, UpTo
<1>9. E \in [0 .. n -> Nat]
  BY <1>1, <1>6, <1>8
<1>10. QED
  BY <1>7, <1>9 DEF E, n

\* What is in front decides where an item ends.
LEMMA EndsAgree ==
  ASSUME NEW f \in Seq(Items), NEW g \in Seq(Items), NEW k \in Nat,
         k <= Len(f), k <= Len(g),
         \A i \in 1 .. k : f[i].words = g[i].words
  PROVE  \A i \in 0 .. k : Ends(f)[i] = Ends(g)[i]
<1> DEFINE S == {i \in 0 .. k : Ends(f)[i] = Ends(g)[i]}
<1>1. 0 \in S
  BY EndsDef
<1>2. ASSUME NEW i \in 1 .. k, i - 1 \in S PROVE i \in S
  <2>1. /\ Ends(f)[i] = Ends(f)[i-1] + f[i].words
        /\ Ends(g)[i] = Ends(g)[i-1] + g[i].words
    BY EndsDef
  <2>2. QED
    BY <1>2, <2>1
<1> HIDE DEF S
<1>3. \A i \in 0 .. k : i \in S
  BY <1>1, <1>2, UpTo
<1>4. QED
  BY <1>3 DEF S

LEMMA EndsGrow ==
  ASSUME NEW f \in Seq(Items), NEW i \in 0 .. Len(f), NEW j \in i .. Len(f)
  PROVE  Ends(f)[i] <= Ends(f)[j]
<1> DEFINE S == {k \in 0 .. Len(f) : i <= k => Ends(f)[i] <= Ends(f)[k]}
<1>1. Len(f) \in Nat
  BY ItemWords
<1>2. 0 \in S
  BY <1>1, EndsDef
<1>3. ASSUME NEW k \in 1 .. Len(f), k - 1 \in S PROVE k \in S
  <2>1. Ends(f)[k] = Ends(f)[k-1] + f[k].words /\ f[k].words \in Nat
    BY EndsDef, ItemWords
  <2>2. \A m \in 0 .. Len(f) : Ends(f)[m] \in Nat
    BY EndsDef
  <2>3. QED
    BY <1>1, <1>3, <2>1, <2>2, SMTT(30)
<1> HIDE DEF S
<1>4. \A k \in 0 .. Len(f) : k \in S
  BY <1>1, <1>2, <1>3, UpTo
<1>5. QED
  BY <1>1, <1>4 DEF S

LEMMA WordsNat ==
  ASSUME NEW f \in Seq(Items)
  PROVE  Words(f) \in Nat
BY EndsDef, ItemWords DEF Words

LEMMA WordsEmpty == Words(<<>>) = 0
<1>1. <<>> \in Seq(Items) /\ Len(<<>>) = 0
  OBVIOUS
<1>2. QED
  BY <1>1, EndsDef DEF Words

LEMMA WordsAppend ==
  ASSUME NEW f \in Seq(Items), NEW x \in Items
  PROVE  Words(Append(f, x)) = Words(f) + x.words
<1> DEFINE g == Append(f, x)
<1>1. g \in Seq(Items) /\ Len(g) = Len(f) + 1 /\ Len(f) \in Nat
  OBVIOUS
<1>2. g[Len(g)] = x /\ \A i \in 1 .. Len(f) : g[i] = f[i]
  OBVIOUS
<1> HIDE DEF g
<1>3. Ends(f)[Len(f)] = Ends(g)[Len(f)]
  BY <1>1, <1>2, EndsAgree
<1>4. Ends(g)[Len(g)] = Ends(g)[Len(g) - 1] + x.words
  BY <1>1, <1>2, EndsDef
<1>5. QED
  BY <1>1, <1>3, <1>4 DEF Words, g

LEMMA WordsOne ==
  ASSUME NEW x \in Items
  PROVE  Words(<<x>>) = x.words
<1>1. <<x>> = Append(<<>>, x) /\ <<>> \in Seq(Items)
  OBVIOUS
<1>2. x.words \in Nat
  BY DEF Items, HeadItems, EventItems, TornItems, EV_HDSIZ
<1>3. Words(Append(<<>>, x)) = Words(<<>>) + x.words
  BY <1>1, WordsAppend
<1>4. QED
  BY <1>1, <1>2, <1>3, WordsEmpty

\* A sequence whose items have the lengths of those of another is as long.
LEMMA WordsAgree ==
  ASSUME NEW f \in Seq(Items), NEW g \in Seq(Items), Len(f) = Len(g),
         \A i \in 1 .. Len(f) : f[i].words = g[i].words
  PROVE  Words(f) = Words(g)
<1>1. Len(f) \in Nat
  OBVIOUS
<1>2. QED
  BY <1>1, EndsAgree DEF Words

LEMMA PrefixWords ==
  ASSUME NEW f \in Seq(Items), NEW k \in 0 .. Len(f)
  PROVE  /\ SubSeq(f, 1, k) \in Seq(Items)
         /\ Len(SubSeq(f, 1, k)) = k
         /\ \A i \in 1 .. k : SubSeq(f, 1, k)[i] = f[i]
         /\ Words(SubSeq(f, 1, k)) = Ends(f)[k]
<1> DEFINE g == SubSeq(f, 1, k)
<1>1. Len(f) \in Nat /\ k \in Nat /\ k <= Len(f)
  BY ItemWords
<1>2. g \in Seq(Items) /\ Len(g) = k /\ \A i \in 1 .. k : g[i] = f[i]
  BY <1>1
<1> HIDE DEF g
<1>3. \A i \in 0 .. k : Ends(f)[i] = Ends(g)[i]
  BY <1>1, <1>2, EndsAgree
<1>4. QED
  BY <1>1, <1>2, <1>3 DEF Words, g

\* A sequence is cut in an item or between two.
LEMMA CutPlace ==
  ASSUME NEW f \in Seq(Items), NEW n \in Nat
  PROVE  \E i \in 0 .. Len(f) :
            Ends(f)[i] <= n /\ (i = Len(f) \/ Ends(f)[i+1] > n)
<1> DEFINE T == {i \in 0 .. Len(f) : i = Len(f) \/ Ends(f)[i+1] > n}
<1>1. Len(f) \in Nat
  BY ItemWords
<1>2. T \in SUBSET Nat /\ T # {}
  BY <1>1
<1>3. PICK k \in T : \A y \in T : k <= y
  <2> HIDE DEF T
  <2>1. QED
    BY <1>2, LeastNat
<1>4. Ends(f)[k] <= n
  <2>1. CASE k = 0
    BY <2>1, EndsDef
  <2>2. CASE k # 0
    <3>1. k - 1 \in 0 .. Len(f) /\ k - 1 \notin T
      <4>1. k \in 0 .. Len(f) /\ ~(k <= k - 1)
        BY <1>1, <1>3
      <4>2. k - 1 \in 0 .. Len(f)
        BY <1>1, <2>2, <4>1
      <4> HIDE DEF T
      <4>3. QED
        BY <1>3, <4>1, <4>2
    <3>2. ~(Ends(f)[k - 1 + 1] > n)
      BY <3>1
    <3>3. k - 1 + 1 = k /\ k \in 0 .. Len(f)
      BY <1>1, <1>3
    <3>4. Ends(f)[k] \in Nat
      BY <3>3, EndsDef
    <3>5. QED
      BY <3>2, <3>3, <3>4
  <2>3. QED
    BY <2>1, <2>2
<1>5. QED
  BY <1>3, <1>4

LEMMA CutProperties ==
  ASSUME NEW f \in Seq(Items), NEW n \in Nat
  PROVE  /\ Cut(f, n) \in Seq(Items)
         /\ n <= Words(f) => Words(Cut(f, n)) = n
<1> DEFINE k == CHOOSE i \in 0 .. Len(f) :
                   /\ Ends(f)[i] <= n
                   /\ i = Len(f) \/ Ends(f)[i+1] > n
           g == SubSeq(f, 1, k)
           rest == IF k < Len(f) /\ Ends(f)[k] < n THEN <<Torn(n - Ends(f)[k])>> ELSE <<>>
<1>1. Cut(f, n) = g \o rest
  BY DEF Cut
<1>2. k \in 0 .. Len(f) /\ Ends(f)[k] <= n /\ (k = Len(f) \/ Ends(f)[k+1] > n)
  BY CutPlace
<1> HIDE DEF k
<1>3. Len(f) \in Nat /\ Ends(f)[k] \in Nat
  BY <1>2, ItemWords, EndsDef
<1>4. g \in Seq(Items) /\ Words(g) = Ends(f)[k]
  BY <1>2, PrefixWords
<1> HIDE DEF g
<1>5. CASE k < Len(f) /\ Ends(f)[k] < n
  <2> DEFINE t == Torn(n - Ends(f)[k])
  <2>1. t \in Items /\ t.words = n - Ends(f)[k]
    BY <1>3, <1>5 DEF Torn, Items, TornItems
  <2>2. Cut(f, n) = Append(g, t)
    BY <1>1, <1>4, <1>5, <2>1
  <2> HIDE DEF t
  <2>3. QED
    BY <1>3, <1>4, <2>1, <2>2, WordsAppend
<1>6. CASE ~(k < Len(f) /\ Ends(f)[k] < n)
  <2>1. Cut(f, n) = g
    BY <1>1, <1>4, <1>6
  <2>2. k = Len(f) \/ Ends(f)[k] = n
    BY <1>2, <1>3, <1>6
  <2>3. QED
    BY <1>2, <1>3, <1>4, <2>1, <2>2 DEF Words
<1>7. QED
  BY <1>5, <1>6

LEMMA BeyondProperties ==
  ASSUME NEW f \in Seq(Items), NEW n \in Nat
  PROVE  Beyond(f, n) \in Seq(Items)
<1> DEFINE Is(i) == /\ i = Len(f) \/ Ends(f)[i] >= n
                    /\ i = 0 \/ Ends(f)[i-1] < n
           k == CHOOSE i \in 0 .. Len(f) : Is(i)
           t == IF k > 0 /\ Ends(f)[k] > n THEN <<Torn(Ends(f)[k] - n)>> ELSE <<>>
<1>1. Beyond(f, n) = t \o SubSeq(f, k + 1, Len(f))
  BY DEF Beyond
<1>2. Len(f) \in Nat /\ \A i \in 0 .. Len(f) : Ends(f)[i] \in Nat
  BY ItemWords, EndsDef
<1>3. \E i \in 0 .. Len(f) : Is(i)
  <2> DEFINE T == {i \in 0 .. Len(f) : i = Len(f) \/ Ends(f)[i] >= n}
  <2>1. T \in SUBSET Nat /\ T # {}
    BY <1>2
  <2>2. PICK m \in T : \A y \in T : m <= y
    <3> HIDE DEF T
    <3>1. QED
      BY <2>1, LeastNat
  <2>3. m = 0 \/ (m - 1 \in 0 .. Len(f) /\ m - 1 \notin T)
    BY <1>2, <2>2
  <2>4. m = 0 \/ Ends(f)[m-1] < n
    BY <1>2, <2>3
  <2>5. QED
    BY <2>2, <2>4
<1>4. k \in 0 .. Len(f)
  <2> HIDE DEF Is
  <2>1. QED
    BY <1>3
<1> HIDE DEF k, Is
<1>5. t \in Seq(Items)
  <2>1. CASE k > 0 /\ Ends(f)[k] > n
    <3>1. Torn(Ends(f)[k] - n) \in Items
      BY <1>2, <1>4, <2>1 DEF Torn, Items, TornItems
    <3>2. QED
      BY <2>1, <3>1
  <2>2. CASE ~(k > 0 /\ Ends(f)[k] > n)
    BY <2>2
  <2>3. QED
    BY <2>1, <2>2
<1>6. SubSeq(f, k + 1, Len(f)) \in Seq(Items)
  BY <1>2, <1>4
<1>7. QED
  BY <1>1, <1>5, <1>6

LEMMA WriteAtTyped ==
  ASSUME NEW f, f = Absent \/ f \in Seq(Items), NEW pos \in Nat, NEW s \in Seq(Items)
  PROVE  WriteAt(f, pos, s) \in Seq(Items)
<1>1. Content(f) \in Seq(Items)
  BY DEF Content
<1>2. pos + Words(s) \in Nat
  BY WordsNat
<1>3. Cut(Content(f), pos) \in Seq(Items)
  BY <1>1, CutProperties
<1>4. Beyond(Content(f), pos + Words(s)) \in Seq(Items)
  BY <1>1, <1>2, BeyondProperties
<1>5. QED
  BY <1>3, <1>4 DEF WriteAt

-----------------------------------------------------------------------------
(* The handle.                                                             *)

FirstEvents == {<<>>} \cup {<<e>> : e \in EventItems}
Handles ==
  [rw : {"file", "pipe"}, append : 0 .. 2, splitting : BOOLEAN,
   buf : Seq(Items), cur : Nat, blksiz : Nat, blknum : Nat \ {0},
   blkEvCount : Nat, blkSizeTarget : Nat, bufSize : Nat, bufRealSize : Nat,
   blkEvMax : Nat, split : Nat, fileName : Int, splitNumber : Nat,
   file : BOOLEAN, wordsToFile : Nat, wordsToBuf : Nat, eventsToBuf : Nat,
   eventCount : Nat, dict : Nat, wroteDictionary : BOOLEAN,
   first : FirstEvents, wroteFirstEvent : BOOLEAN,
   commonBlkCount : Nat, pos : Nat, pending : Seq(Items), hidden : BOOLEAN]

Disks == [Names -> {Absent} \cup Seq(Items)]

\* What the buffer holds and what the handle counts of it.  Only a header that
\* nothing was written behind is marked last, unless an event got a header of
\* its own right behind it.
Buffered(h) ==
  /\ h.cur \in 1 .. Len(h.buf)
  /\ h.buf[1] \in HeadItems /\ h.buf[h.cur] \in HeadItems
  /\ h.buf[h.cur].size = h.blksiz
  /\ Len(h.buf) = 1 => h.buf[1].last /\ h.blksiz = EV_HDSIZ
  /\ h.buf[h.cur].last => Len(h.buf) = 1
  /\ h.wordsToBuf = Words(h.buf) + (IF Len(h.buf) = 1 \/ h.buf[1].last
                                    THEN 0 ELSE EV_HDSIZ)

Roomy(h) == h.wordsToBuf <= h.bufSize /\ h.bufSize <= h.bufRealSize

\* How split files are numbered; and what was flushed to a file ends with a
\* header to go back over.
Filed(h) ==
  /\ h.splitting => h.rw = "file" /\ h.fileName = h.splitNumber - 1
  /\ ~h.splitting => h.fileName \in {-1, 0} /\ (h.fileName = -1 => h.splitNumber = 0)
  /\ NameOf(h) \in Names
  /\ h.rw = "file" /\ h.wordsToFile # 0 => Words(h.pending) >= EV_HDSIZ

\* A handle that nothing was written with has an empty buffer, and one that
\* appends does not split.
Unused(h) ==
  /\ h.blknum = 1 => Len(h.buf) = 1
  /\ h.append = 1 => Len(h.buf) = 1
  /\ h.splitting => h.append = 0

HandleOK(h) == h \in Handles /\ Buffered(h) /\ Roomy(h) /\ Filed(h)

\* The inductive invariant.
FileInv ==
  /\ opens \in 0 .. MaxOpens /\ ioctls \in 0 .. MaxIoctls /\ events \in 0 .. MaxEvents
  /\ broken \subseteq Names
  /\ disk \in Disks
  /\ Opened => HandleOK(a) /\ Unused(a)

LEMMA EmptyLastItem ==
  ASSUME NEW n \in Nat
  PROVE  /\ EmptyLast(n) \in HeadItems /\ EmptyLast(n) \in Items
         /\ EmptyLast(n).last /\ EmptyLast(n).size = EV_HDSIZ
         /\ EmptyLast(n).words = EV_HDSIZ
BY DEF EmptyLast, Header, HeadItems, Items, EV_HDSIZ

LEMMA ResetOK ==
  ASSUME NEW h \in Handles, Filed(h), EV_HDSIZ <= h.bufSize, h.bufSize <= h.bufRealSize
  PROVE  LET r == resetBuffer(h)
         IN  /\ HandleOK(r) /\ Len(r.buf) = 1 /\ r.wordsToBuf = EV_HDSIZ
             /\ r.bufSize = h.bufSize /\ r.blknum = h.blknum /\ r.append = h.append
             /\ r.dict = h.dict /\ r.first = h.first /\ r.splitting = h.splitting
<1> DEFINE r == resetBuffer(h)
<1>1. /\ EmptyLast(h.blknum) \in HeadItems /\ EmptyLast(h.blknum) \in Items
      /\ EmptyLast(h.blknum).last /\ EmptyLast(h.blknum).size = EV_HDSIZ
      /\ EmptyLast(h.blknum).words = EV_HDSIZ
  BY EmptyLastItem DEF Handles
<1>2. r \in Handles
  <2>1. <<EmptyLast(h.blknum)>> \in Seq(Items)
    BY <1>1
  <2>2. QED
    BY <2>1 DEF Handles, resetBuffer, EV_HDSIZ
<1>3. /\ r.buf = <<EmptyLast(h.blknum)>> /\ r.cur = 1 /\ r.blksiz = EV_HDSIZ
      /\ r.wordsToBuf = EV_HDSIZ
      /\ r.bufSize = h.bufSize /\ r.bufRealSize = h.bufRealSize
      /\ r.blknum = h.blknum /\ r.append = h.append
      /\ r.dict = h.dict /\ r.first = h.first /\ r.splitting = h.splitting
      /\ r.rw = h.rw /\ r.fileName = h.fileName /\ r.splitNumber = h.splitNumber
      /\ r.wordsToFile = h.wordsToFile /\ r.pending = h.pending
  BY DEF Handles, resetBuffer
<1> HIDE DEF r
<1>4. Words(r.buf) = EV_HDSIZ
  BY <1>1, <1>3, WordsOne
<1>5. Buffered(r) /\ Roomy(r)
  BY <1>1, <1>3, <1>4 DEF Buffered, Roomy, EV_HDSIZ
<1>6. Filed(r)
  BY <1>3 DEF Filed, NameOf
<1>7. QED
  BY <1>2, <1>3, <1>5, <1>6 DEF HandleOK, r

LEMMA ExpandOK ==
  ASSUME NEW h \in Handles, h.bufSize <= h.bufRealSize, NEW size \in Nat
  PROVE  LET r == expandBuffer(h, size)
         IN  /\ r \in Handles
             /\ r.bufSize >= h.bufSize /\ r.bufSize >= size
             /\ r.bufSize <= r.bufRealSize
             /\ Filed(h) => Filed(r)
             /\ \A x \in {"buf", "cur", "blksiz", "blknum", "wordsToBuf", "append",
                          "dict", "first", "splitting"} : r[x] = h[x]
<1> DEFINE r == expandBuffer(h, size)
<1>1. r \in Handles
  BY DEF Handles, expandBuffer
<1>2. /\ r.bufSize = IF size <= h.bufSize THEN h.bufSize ELSE size
      /\ r.bufRealSize = IF size <= h.bufRealSize THEN h.bufRealSize ELSE size
      /\ h.bufSize \in Nat /\ h.bufRealSize \in Nat
  BY DEF Handles, expandBuffer
<1>3. /\ r.rw = h.rw /\ r.fileName = h.fileName /\ r.splitNumber = h.splitNumber
      /\ r.wordsToFile = h.wordsToFile /\ r.pending = h.pending
      /\ r.splitting = h.splitting
  BY DEF Handles, expandBuffer
<1>4. \A x \in {"buf", "cur", "blksiz", "blknum", "wordsToBuf", "append",
                "dict", "first", "splitting"} : r[x] = h[x]
  BY DEF Handles, expandBuffer
<1> HIDE DEF r
<1>5. Filed(h) => Filed(r)
  BY <1>3 DEF Filed, NameOf
<1>6. QED
  BY <1>1, <1>2, <1>4, <1>5 DEF r

\* A handle that is about to write an event behind the current header: the
\* last empty header is not counted any more.
Ready(h) ==
  /\ h.cur \in 1 .. Len(h.buf)
  /\ h.buf[1] \in HeadItems /\ h.buf[h.cur] \in HeadItems
  /\ h.buf[h.cur].size = h.blksiz
  /\ h.blknum = 1 => h.buf[h.cur].last
  /\ h.splitting => h.append = 0
  /\ h.wordsToBuf = Words(h.buf) - (IF h.cur # 1 /\ h.buf[1].last THEN EV_HDSIZ ELSE 0)

\* What the operations on the buffer leave alone.
SameFile(r, h) ==
  /\ r.bufSize = h.bufSize /\ r.bufRealSize = h.bufRealSize
  /\ r.rw = h.rw /\ r.fileName = h.fileName /\ r.splitNumber = h.splitNumber
  /\ r.wordsToFile = h.wordsToFile /\ r.pending = h.pending
  /\ r.splitting = h.splitting /\ r.dict = h.dict /\ r.first = h.first

LEMMA FiledSame ==
  ASSUME NEW h, NEW r, SameFile(r, h), Filed(h)
  PROVE  Filed(r)
BY DEF SameFile, Filed, NameOf

LEMMA HeadIsItem ==
  ASSUME NEW x \in HeadItems
  PROVE  x \in Items /\ x.words = EV_HDSIZ /\ x.kind = "head" /\ x.last \in BOOLEAN
BY DEF HeadItems, Items

LEMMA WriteEventOK ==
  ASSUME NEW h \in Handles, NEW e \in EventItems, NEW isDictionary \in BOOLEAN,
         Ready(h), isDictionary => h.append = 0
  PROVE  LET r == writeEventToBuffer(h, e, isDictionary)
         IN  /\ r \in Handles /\ Buffered(r) /\ Unused(r) /\ SameFile(r, h)
             /\ r.wordsToBuf = h.wordsToBuf + e.words + EV_HDSIZ
             /\ Len(r.buf) > 1 /\ r.blknum > 1 /\ r.append = (IF isDictionary \/ h.append = 0
                                                              THEN h.append ELSE 2)
             /\ ~isDictionary => r.hidden = h.hidden
<1> DEFINE n == h.blkEvCount + 1
           size == h.blksiz + e.words
           head == [h.buf[h.cur] EXCEPT !.size = size,
                      !.count = HeadCount(h, n, isDictionary), !.last = FALSE]
           b1 == [h.buf EXCEPT ![h.cur] = head]
           b2 == Append(b1, e)
           b3 == IF isDictionary THEN [b2 EXCEPT ![1].dict = TRUE] ELSE b2
           r == writeEventToBuffer(h, e, isDictionary)
<1>1. /\ h.buf \in Seq(Items) /\ h.blksiz \in Nat /\ h.blkEvCount \in Nat
      /\ h.wordsToBuf \in Nat /\ h.blknum \in Nat \ {0} /\ h.append \in 0 .. 2
      /\ h.eventsToBuf \in Nat /\ h.eventCount \in Nat /\ h.wroteDictionary \in BOOLEAN
  BY DEF Handles
<1>2. e \in Items /\ e.words \in Nat
  BY DEF Items, EventItems
<1>3. HeadCount(h, n, isDictionary) \in Nat
  BY <1>1 DEF HeadCount
<1>4. /\ head \in HeadItems /\ head.last = FALSE /\ head.size = size
      /\ head.words = EV_HDSIZ /\ head \in Items
  <2> HIDE DEF n
  <2>1. h.buf[h.cur] \in HeadItems /\ size \in Nat
    BY <1>1, <1>2 DEF Ready
  <2> HIDE DEF size
  <2>2. QED
    BY <1>3, <2>1 DEF HeadItems, Items
<1> HIDE DEF head
<1>5. /\ b1 \in Seq(Items) /\ Len(b1) = Len(h.buf) /\ b1[h.cur] = head
      /\ \A i \in 1 .. Len(h.buf) : i # h.cur => b1[i] = h.buf[i]
  BY <1>1, <1>4 DEF Ready
<1>6. /\ b1[1] \in HeadItems
      /\ \A i \in 1 .. Len(h.buf) : b1[i].words = h.buf[i].words
      /\ b1[1].last = (IF h.cur = 1 THEN FALSE ELSE h.buf[1].last)
  <2>1. 1 \in 1 .. Len(h.buf) /\ h.buf[1] \in HeadItems /\ h.buf[h.cur].words = EV_HDSIZ
    BY <1>1, HeadIsItem DEF Ready
  <2> HIDE DEF b1
  <2>2. h.cur = 1 => b1[1] = head
    BY <1>5
  <2>3. h.cur # 1 => b1[1] = h.buf[1]
    BY <1>5, <2>1
  <2>4. b1[1] \in HeadItems /\ b1[1].last = (IF h.cur = 1 THEN FALSE ELSE h.buf[1].last)
    BY <1>4, <2>1, <2>2, <2>3
  <2>5. \A i \in 1 .. Len(h.buf) : b1[i].words = h.buf[i].words
    BY <1>4, <1>5, <2>1
  <2>6. QED
    BY <2>4, <2>5
<1>7. Words(b1) = Words(h.buf)
  BY <1>1, <1>5, <1>6, WordsAgree
<1> HIDE DEF b1
<1>8. /\ b2 \in Seq(Items) /\ Len(b2) = Len(h.buf) + 1 /\ b2[h.cur] = head
      /\ b2[1] = b1[1]
  BY <1>1, <1>2, <1>5, SMTT(30) DEF Ready
<1>9. Words(b2) = Words(h.buf) + e.words
  BY <1>2, <1>5, <1>7, WordsAppend
<1> HIDE DEF b2
<1>10. /\ b3 \in Seq(Items) /\ Len(b3) = Len(b2) /\ Words(b3) = Words(b2)
       /\ b3[1] \in HeadItems /\ b3[1].last = b1[1].last
       /\ b3[h.cur] \in HeadItems /\ b3[h.cur].last = FALSE /\ b3[h.cur].size = size
  <2> HIDE DEF size
  <2>1. CASE ~isDictionary
    BY <1>4, <1>6, <1>8, <2>1
  <2>2. CASE isDictionary
    <3> DEFINE d == [b2[1] EXCEPT !.dict = TRUE]
    <3>1. /\ d \in HeadItems /\ d \in Items /\ d.words = b2[1].words
          /\ d.last = b2[1].last /\ d.size = b2[1].size
      BY <1>6, <1>8 DEF HeadItems, Items
    <3>2. b3 = [b2 EXCEPT ![1] = d]
      BY <2>2
    <3> HIDE DEF d, b3
    <3>3. 1 \in 1 .. Len(b2) /\ h.cur \in 1 .. Len(b2)
      BY <1>1, <1>8 DEF Ready
    <3>4. /\ b3 \in Seq(Items) /\ Len(b3) = Len(b2) /\ b3[1] = d
          /\ \A i \in 1 .. Len(b2) : i # 1 => b3[i] = b2[i]
      BY <1>8, <3>1, <3>2, <3>3
    <3>5. Words(b3) = Words(b2)
      <4>1. \A i \in 1 .. Len(b3) : b3[i].words = b2[i].words
        BY <3>1, <3>4
      <4>2. QED
        BY <1>8, <3>4, <4>1, WordsAgree
    <3>6. QED
      BY <1>4, <1>6, <1>8, <3>1, <3>3, <3>4, <3>5
  <2>3. QED
    BY <2>1, <2>2
<1>11. /\ r.buf = b3 /\ r.cur = h.cur /\ r.blksiz = size
       /\ r.wordsToBuf = h.wordsToBuf + e.words + EV_HDSIZ
       /\ r.append = (IF isDictionary \/ h.append = 0 THEN h.append ELSE 2)
       /\ r.blknum = (IF isLastBlock(h) THEN h.blknum + 1 ELSE h.blknum)
       /\ ~isDictionary => r.hidden = h.hidden
  BY DEF Handles, writeEventToBuffer, b2, b1, head
<1>12. SameFile(r, h)
  BY DEF Handles, writeEventToBuffer, SameFile
<1>13. r \in Handles
  <2>1. /\ b3 \in Seq(Items) /\ size \in Nat /\ n \in Nat
        /\ h.wordsToBuf + e.words + EV_HDSIZ \in Nat
        /\ (IF isDictionary \/ h.append = 0 THEN h.append ELSE 2) \in 0 .. 2
        /\ (IF isLastBlock(h) THEN h.blknum + 1 ELSE h.blknum) \in Nat \ {0}
        /\ h.eventsToBuf + 1 \in Nat /\ (h.wroteDictionary \/ isDictionary) \in BOOLEAN
        /\ (IF isDictionary THEN h.eventCount ELSE h.eventCount + 1) \in Nat
    <3>1. /\ size \in Nat /\ n \in Nat /\ h.wordsToBuf + e.words + EV_HDSIZ \in Nat
          /\ h.eventsToBuf + 1 \in Nat
          /\ h.blknum + 1 \in Nat \ {0} /\ h.eventCount + 1 \in Nat
      <4>1. \A x, y \in Nat : x + y \in Nat /\ x + y + 8 \in Nat /\ x + 1 \in Nat \ {0}
        OBVIOUS
      <4>2. QED
        BY <1>1, <1>2, <4>1 DEF EV_HDSIZ
    <3>2. (h.wroteDictionary \/ isDictionary) \in BOOLEAN
      OBVIOUS
    <3> HIDE DEF b3, size, n
    <3>3. QED
      BY <1>1, <1>10, <3>1, <3>2
  <2>2. r = [h EXCEPT !.buf = b3, !.blksiz = size, !.blkEvCount = n,
                !.wordsToBuf = h.wordsToBuf + e.words + EV_HDSIZ,
                !.eventsToBuf = h.eventsToBuf + 1,
                !.wroteDictionary = h.wroteDictionary \/ isDictionary,
                !.eventCount = IF isDictionary THEN h.eventCount ELSE h.eventCount + 1,
                !.append = IF isDictionary \/ h.append = 0 THEN h.append ELSE 2,
                !.blknum = IF isLastBlock(h) THEN h.blknum + 1 ELSE h.blknum]
    BY DEF writeEventToBuffer, b2, b1, head
  <2> HIDE DEF r, b3, size, n
  <2> DEFINE w == h.wroteDictionary \/ isDictionary
             ec == IF isDictionary THEN h.eventCount ELSE h.eventCount + 1
             ap == IF isDictionary \/ h.append = 0 THEN h.append ELSE 2
             bn == IF isLastBlock(h) THEN h.blknum + 1 ELSE h.blknum
             wb == h.wordsToBuf + e.words + EV_HDSIZ
             eb == h.eventsToBuf + 1
  <2> HIDE DEF w, ec, ap, bn, wb, eb
  <2>3. /\ w \in BOOLEAN /\ ec \in Nat /\ ap \in 0 .. 2 /\ bn \in Nat \ {0}
        /\ wb \in Nat /\ eb \in Nat
    BY <2>1 DEF w, ec, ap, bn, wb, eb
  <2>4. r = [h EXCEPT !.buf = b3, !.blksiz = size, !.blkEvCount = n,
                !.wordsToBuf = wb, !.eventsToBuf = eb, !.wroteDictionary = w,
                !.eventCount = ec, !.append = ap, !.blknum = bn]
    BY <2>2 DEF w, ec, ap, bn, wb, eb
  <2>5. QED
    BY <2>1, <2>3, <2>4, ZenonT(30) DEF Handles
<1> HIDE DEF r, b3, size
<1>14. Words(h.buf) \in Nat /\ Len(h.buf) \in Nat
  BY <1>1, WordsNat
<1>15. h.cur = 1 => ~b3[1].last
  BY <1>10
<1>16. Buffered(r)
  <2>1. r.cur \in 1 .. Len(r.buf) /\ Len(r.buf) > 1
    BY <1>1, <1>8, <1>10, <1>11, <1>14 DEF Ready
  <2>2. Words(r.buf) = Words(h.buf) + e.words
    BY <1>9, <1>10, <1>11
  <2>3. r.buf[1].last = (IF h.cur = 1 THEN FALSE ELSE h.buf[1].last)
    BY <1>6, <1>10, <1>11
  <2>4. r.wordsToBuf = Words(r.buf) + (IF r.buf[1].last THEN 0 ELSE EV_HDSIZ)
    <3>1. h.wordsToBuf = Words(h.buf) - (IF h.cur # 1 /\ h.buf[1].last THEN EV_HDSIZ ELSE 0)
      BY DEF Ready
    <3>2. r.wordsToBuf = h.wordsToBuf + e.words + EV_HDSIZ
      BY <1>11
    <3>3. QED
      BY <1>2, <1>14, <2>2, <2>3, <3>1, <3>2 DEF EV_HDSIZ
  <2>5. /\ r.buf[1] \in HeadItems /\ r.buf[r.cur] \in HeadItems
        /\ r.buf[r.cur].size = r.blksiz /\ r.buf[r.cur].last = FALSE
    BY <1>10, <1>11
  <2>6. Len(r.buf) # 1
    BY <1>1, <1>8, <1>10, <1>11, <1>14 DEF Ready
  <2>7. QED
    BY <2>1, <2>4, <2>5, <2>6 DEF Buffered
<1>17. r.blknum > 1 /\ Len(r.buf) > 1
  BY <1>1, <1>8, <1>10, <1>11, <1>14, SMTT(30) DEF Ready, isLastBlock
<1>18. Unused(r)
  <2>1. r.splitting => r.append = 0
    BY <1>11, <1>12 DEF SameFile, Ready
  <2>2. r.append # 1
    <3>1. isDictionary => r.append = 0
      BY <1>11
    <3>2. ~isDictionary => r.append \in {0, 2}
      BY <1>1, <1>11
    <3>3. QED
      BY <3>1, <3>2
  <2>3. QED
    BY <1>17, <2>1, <2>2 DEF Unused
<1>19. QED
  BY <1>11, <1>12, <1>13, <1>16, <1>17, <1>18 DEF r

\* An event in the current block, over the last empty header.
LEMMA PlaceHereOK ==
  ASSUME NEW h \in Handles, NEW e \in EventItems, Buffered(h), Filed(h),
         h.blknum = 1 => Len(h.buf) = 1, h.splitting => h.append = 0,
         h.bufSize <= h.bufRealSize,
         h.bufSize >= h.wordsToBuf + e.words,
         Len(h.buf) = 1 => h.bufSize >= e.words + 2 * EV_HDSIZ
  PROVE  LET r == Place(h, e, FALSE)
         IN  /\ HandleOK(r) /\ Unused(r) /\ SameFile(r, h)
             /\ r.wordsToBuf = h.wordsToBuf + e.words +
                                 (IF Len(h.buf) = 1 THEN EV_HDSIZ ELSE 0)
<1> DEFINE w == IF isLastBlock(h) THEN h.wordsToBuf ELSE h.wordsToBuf - EV_HDSIZ
           g == [h EXCEPT !.wordsToBuf = w]
           r == writeEventToBuffer(g, e, FALSE)
<1>1. Place(h, e, FALSE) = r
  BY DEF Place
<1>2. /\ h.buf \in Seq(Items) /\ h.wordsToBuf \in Nat /\ h.bufSize \in Nat
      /\ Words(h.buf) \in Nat /\ Len(h.buf) \in Nat /\ e.words \in Nat
  BY WordsNat DEF Handles, EventItems
<1>3. isLastBlock(h) <=> Len(h.buf) = 1
  BY <1>2 DEF Buffered, isLastBlock
<1>4. w = Words(h.buf) - (IF h.cur # 1 /\ h.buf[1].last THEN EV_HDSIZ ELSE 0)
  <2>1. CASE Len(h.buf) = 1
    BY <1>2, <1>3, <2>1 DEF Buffered, EV_HDSIZ
  <2>2. CASE Len(h.buf) # 1
    <3>1. h.buf[1].last => h.cur # 1
      BY <2>2 DEF Buffered
    <3>2. QED
      BY <1>2, <1>3, <2>2, <3>1 DEF Buffered, EV_HDSIZ
  <2>3. QED
    BY <2>1, <2>2
<1>5. w \in Nat
  <2>1. h.cur # 1 => Words(h.buf) >= EV_HDSIZ
    <3>1. h.buf[1].words = EV_HDSIZ /\ 1 \in 1 .. Len(h.buf)
      BY <1>2, HeadIsItem DEF Buffered
    <3>2. Ends(h.buf)[1] = EV_HDSIZ
      BY <1>2, <3>1, EndsDef DEF EV_HDSIZ
    <3>3. QED
      BY <1>2, <3>1, <3>2, EndsGrow DEF Words
  <2>2. QED
    BY <1>2, <1>4, <2>1 DEF EV_HDSIZ
<1> HIDE DEF w
<1>6. /\ g \in Handles /\ g.wordsToBuf = w /\ g.buf = h.buf /\ g.cur = h.cur
      /\ g.blksiz = h.blksiz /\ g.blknum = h.blknum /\ SameFile(g, h)
      /\ g.splitting = h.splitting /\ g.append = h.append
  BY <1>5 DEF Handles, SameFile
<1> HIDE DEF g
<1>7. Ready(g)
  BY <1>3, <1>4, <1>6 DEF Ready, Buffered, isLastBlock
<1>8. /\ r \in Handles /\ Buffered(r) /\ Unused(r) /\ SameFile(r, g)
      /\ r.wordsToBuf = w + e.words + EV_HDSIZ
  BY <1>6, <1>7, WriteEventOK
<1> HIDE DEF r
<1>9. r.bufSize = h.bufSize /\ r.bufRealSize = h.bufRealSize /\ Filed(r)
  BY <1>6, <1>8, FiledSame DEF SameFile
<1>10. Roomy(r)
  <2>1. CASE Len(h.buf) = 1
    <3>1. w = EV_HDSIZ
      <4>1. h.buf[1] \in HeadItems /\ h.cur = 1
        BY <2>1 DEF Buffered
      <4>2. h.buf = <<h.buf[1]>>
        BY <1>2, <2>1
      <4>3. Words(h.buf) = EV_HDSIZ
        BY <4>1, <4>2, WordsOne, HeadIsItem
      <4>4. QED
        BY <1>4, <4>1, <4>3 DEF EV_HDSIZ
    <3>2. QED
      BY <1>2, <1>8, <1>9, <2>1, <3>1 DEF Roomy, EV_HDSIZ
  <2>2. CASE Len(h.buf) # 1
    <3>1. w = h.wordsToBuf - EV_HDSIZ
      BY <1>3, <2>2 DEF w
    <3>2. QED
      BY <1>2, <1>8, <1>9, <3>1 DEF Roomy, EV_HDSIZ
  <2>3. QED
    BY <2>1, <2>2
<1>11. SameFile(r, h)
  BY <1>6, <1>8 DEF SameFile
<1>12. r.wordsToBuf = h.wordsToBuf + e.words + (IF Len(h.buf) = 1 THEN EV_HDSIZ ELSE 0)
  BY <1>2, <1>3, <1>8 DEF w, EV_HDSIZ
<1>13. QED
  BY <1>1, <1>8, <1>9, <1>10, <1>11, <1>12 DEF HandleOK

\* An event in a block of its own, the header over the last empty one.
LEMMA PlaceNewOK ==
  ASSUME NEW h \in Handles, NEW e \in EventItems, Buffered(h), Filed(h),
         h.splitting => h.append = 0, h.bufSize <= h.bufRealSize,
         h.bufSize >= h.wordsToBuf + e.words + EV_HDSIZ
  PROVE  HandleOK(Place(h, e, TRUE)) /\ Unused(Place(h, e, TRUE))
<1> DEFINE hd == Header(EV_HDSIZ, h.blknum, 1, FALSE, FALSE)
           g == writeNewHeader(h)
           r == writeEventToBuffer(g, e, FALSE)
<1>1. Place(h, e, TRUE) = r
  BY DEF Place
<1>2. /\ h.buf \in Seq(Items) /\ h.wordsToBuf \in Nat /\ h.bufSize \in Nat
      /\ Words(h.buf) \in Nat /\ Len(h.buf) \in Nat /\ e.words \in Nat
      /\ h.blknum \in Nat \ {0}
  BY WordsNat DEF Handles, EventItems
<1>3. /\ hd \in HeadItems /\ hd \in Items /\ hd.last = FALSE /\ hd.size = EV_HDSIZ
      /\ hd.words = EV_HDSIZ
  BY <1>2 DEF Header, HeadItems, Items, EV_HDSIZ
<1> HIDE DEF hd
<1>4. /\ g.buf = Append(h.buf, hd) /\ g.cur = Len(h.buf) + 1 /\ g.blksiz = EV_HDSIZ
      /\ g.blknum = h.blknum + 1 /\ g.wordsToBuf = h.wordsToBuf
      /\ SameFile(g, h) /\ g.append = h.append
  BY DEF Handles, writeNewHeader, SameFile, hd
<1>5. g \in Handles
  <2>1. /\ Append(h.buf, hd) \in Seq(Items) /\ Len(h.buf) + 1 \in Nat
        /\ h.blknum + 1 \in Nat \ {0} /\ EV_HDSIZ \in Nat
    BY <1>2, <1>3 DEF EV_HDSIZ
  <2>2. (h.hidden \/ isLastBlock(h)) \in BOOLEAN
    OBVIOUS
  <2> DEFINE bl == h.hidden \/ isLastBlock(h)
             bf == Append(h.buf, hd)
             ln == Len(h.buf) + 1
             bn == h.blknum + 1
  <2>3. g = [h EXCEPT !.buf = bf, !.cur = ln, !.blksiz = EV_HDSIZ, !.blkEvCount = 0,
                      !.blknum = bn, !.hidden = bl]
    BY DEF writeNewHeader, hd
  <2> HIDE DEF bl, bf, ln, bn, g
  <2>4. bl \in BOOLEAN /\ bf \in Seq(Items) /\ ln \in Nat /\ bn \in Nat \ {0}
    BY <2>1, <2>2 DEF bl, bf, ln, bn
  <2>5. QED
    BY <2>1, <2>3, <2>4 DEF Handles
<1> HIDE DEF g
<1>6. /\ Len(g.buf) = Len(h.buf) + 1 /\ g.buf[g.cur] = hd /\ g.buf[1] = h.buf[1]
      /\ Words(g.buf) = Words(h.buf) + EV_HDSIZ
  <2>1. Len(h.buf) >= 1
    BY <1>2 DEF Buffered
  <2>2. QED
    BY <1>2, <1>3, <1>4, <2>1, WordsAppend
<1>7. Ready(g)
  <2>1. g.cur \in 1 .. Len(g.buf) /\ g.cur # 1 /\ g.blknum # 1
    BY <1>2, <1>4, <1>6 DEF Buffered
  <2>2. Len(h.buf) = 1 => h.buf[1].last
    BY DEF Buffered
  <2>3. g.wordsToBuf = Words(g.buf) - (IF g.buf[1].last THEN EV_HDSIZ ELSE 0)
    BY <1>2, <1>4, <1>6, <2>2, SMTT(30) DEF Buffered, EV_HDSIZ
  <2>4. QED
    BY <1>3, <1>4, <1>6, <2>1, <2>3 DEF Ready, Buffered, SameFile
<1>8. /\ r \in Handles /\ Buffered(r) /\ Unused(r) /\ SameFile(r, g)
      /\ r.wordsToBuf = g.wordsToBuf + e.words + EV_HDSIZ
  BY <1>5, <1>7, WriteEventOK
<1> HIDE DEF r
<1>9. Filed(r)
  BY <1>4, <1>8, FiledSame
<1>10. Roomy(r)
  BY <1>2, <1>4, <1>8 DEF Roomy, SameFile
<1>11. QED
  BY <1>1, <1>8, <1>9, <1>10 DEF HandleOK

-----------------------------------------------------------------------------
(* The common block.                                                       *)

LEMMA DictionaryItem ==
  ASSUME NEW w \in Nat
  PROVE  /\ Event(Dictionary, w) \in EventItems /\ Event(Dictionary, w) \in Items
         /\ Event(Dictionary, w).words = w
BY DEF Event, Dictionary, EventItems, Items

LEMMA FirstItem ==
  ASSUME NEW h \in Handles, h.first # <<>>
  PROVE  /\ h.first = <<h.first[1]>> /\ h.first[1] \in EventItems
         /\ h.first[1] \in Items /\ h.first[1].words \in Nat
<1>1. h.first \in FirstEvents
  BY DEF Handles
<1>2. PICK e \in EventItems : h.first = <<e>>
  BY <1>1 DEF FirstEvents
<1>3. e \in Items /\ e.words \in Nat
  BY DEF EventItems, Items
<1>4. QED
  BY <1>2, <1>3

LEMMA CommonWords ==
  ASSUME NEW h \in Handles
  PROVE  /\ Words(Common(h)) = h.dict + (IF h.first = <<>> THEN 0 ELSE h.first[1].words)
         /\ Common(h) = <<>> <=> h.dict = 0 /\ h.first = <<>>
<1> DEFINE d == Event(Dictionary, h.dict)
<1>1. h.dict \in Nat /\ d \in Items /\ d.words = h.dict
  BY DictionaryItem DEF Handles
<1> HIDE DEF d
<1>2. CASE h.first = <<>>
  <2>1. Common(h) = IF h.dict > 0 THEN <<d>> ELSE <<>>
    BY <1>2 DEF Common, d
  <2>2. Words(<<d>>) = h.dict /\ Words(<<>>) = 0
    BY <1>1, WordsOne, WordsEmpty
  <2>3. QED
    BY <1>1, <1>2, <2>1, <2>2
<1>3. CASE h.first # <<>>
  <2> DEFINE e == h.first[1]
  <2>1. h.first = <<e>> /\ e \in Items /\ e.words \in Nat
    BY <1>3, FirstItem
  <2>2. Common(h) = IF h.dict > 0 THEN <<d>> \o <<e>> ELSE <<>> \o <<e>>
    BY <2>1 DEF Common, d
  <2> HIDE DEF e
  <2>3. <<d>> \in Seq(Items) /\ <<d>> \o <<e>> = Append(<<d>>, e) /\ <<>> \o <<e>> = <<e>>
    BY <1>1, <2>1
  <2>4. Words(Append(<<d>>, e)) = h.dict + e.words
    BY <1>1, <2>1, <2>3, WordsOne, WordsAppend
  <2>5. Words(<<e>>) = e.words
    BY <2>1, WordsOne
  <2>6. Common(h) # <<>>
    BY <2>2, <2>3
  <2>7. Words(Common(h)) = h.dict + e.words
    <3>1. CASE h.dict > 0
      BY <2>2, <2>3, <2>4, <3>1
    <3>2. CASE ~(h.dict > 0)
      <4>1. h.dict = 0
        BY <1>1, <3>2
      <4>2. QED
        BY <2>1, <2>2, <2>3, <2>5, <3>2, <4>1
    <3>3. QED
      BY <3>1, <3>2
  <2>8. QED
    BY <1>3, <2>6, <2>7 DEF e
<1>4. QED
  BY <1>2, <1>3

\* The common block in an empty buffer that has room for it.
LEMMA CommonOK ==
  ASSUME NEW h \in Handles, Buffered(h), Filed(h), Len(h.buf) = 1,
         h.wordsToBuf = EV_HDSIZ, h.append = 0, Common(h) # <<>>,
         h.bufSize <= h.bufRealSize,
         h.bufSize >= Words(Common(h)) + 2 * EV_HDSIZ
  PROVE  LET r == evWriteCommonBlock(h)
         IN  /\ r \in Handles /\ Buffered(r) /\ Filed(r) /\ Unused(r) /\ SameFile(r, h)
             /\ r.wordsToBuf = Words(Common(h)) + 2 * EV_HDSIZ
<1> DEFINE r == evWriteCommonBlock(h)
           d == Event(Dictionary, h.dict)
           e == h.first[1]
<1>1. /\ h.dict \in Nat /\ d \in EventItems /\ d.words = h.dict
      /\ h.bufSize \in Nat /\ h.wordsToBuf \in Nat
  BY DictionaryItem DEF Handles
<1>2. h.first # <<>> => e \in EventItems /\ e.words \in Nat
  BY FirstItem
<1>3. /\ Words(Common(h)) = h.dict + (IF h.first = <<>> THEN 0 ELSE e.words)
      /\ h.dict # 0 \/ h.first # <<>>
  BY CommonWords
<1>4. Ready(h)
  <2>1. h.cur = 1 /\ h.buf[1].last
    BY DEF Buffered
  <2>2. Words(h.buf) \in Nat
    BY WordsNat DEF Handles
  <2>3. h.wordsToBuf = Words(h.buf)
    BY <2>2 DEF Buffered
  <2>4. h.wordsToBuf = Words(h.buf) - (IF h.cur # 1 /\ h.buf[1].last THEN EV_HDSIZ ELSE 0)
    BY <2>1, <2>2, <2>3
  <2>5. QED
    BY <2>1, <2>4 DEF Ready, Buffered
<1>5. CASE h.dict = 0
  <2>1. h.first # <<>>
    BY <1>3, <1>5
  <2>2. r = writeEventToBuffer(h, e, FALSE)
    BY <1>5, <2>1 DEF evWriteCommonBlock
  <2> HIDE DEF e, r
  <2>3. e \in EventItems /\ e.words \in Nat
    BY <1>2, <2>1
  <2>4. /\ r \in Handles /\ Buffered(r) /\ Unused(r) /\ SameFile(r, h)
        /\ r.wordsToBuf = h.wordsToBuf + e.words + EV_HDSIZ
    BY <1>4, <2>2, <2>3, WriteEventOK
  <2>5. Filed(r)
    BY <2>4, FiledSame
  <2>6. r.wordsToBuf = Words(Common(h)) + 2 * EV_HDSIZ
    BY <1>3, <1>5, <2>1, <2>3, <2>4 DEF EV_HDSIZ
  <2>7. QED
    BY <2>4, <2>5, <2>6 DEF r
<1>6. CASE h.dict # 0
  <2> DEFINE w == writeEventToBuffer(h, d, TRUE)
  <2>1. /\ w \in Handles /\ Buffered(w) /\ Unused(w) /\ SameFile(w, h)
        /\ w.wordsToBuf = h.wordsToBuf + d.words + EV_HDSIZ
        /\ Len(w.buf) > 1 /\ w.blknum > 1
    <3> HIDE DEF d
    <3>1. QED
      BY <1>1, <1>4, WriteEventOK
  <2> HIDE DEF d
  <2>2. w.wordsToBuf = h.dict + 2 * EV_HDSIZ
    <3> HIDE DEF w
    <3>1. QED
      BY <1>1, <2>1 DEF EV_HDSIZ
  <2>3. CASE h.first = <<>>
    <3>1. r = w
      BY <1>6, <2>3 DEF evWriteCommonBlock, d
    <3> HIDE DEF w, r
    <3>2. Filed(r)
      BY <2>1, <3>1, FiledSame
    <3>3. r.wordsToBuf = Words(Common(h)) + 2 * EV_HDSIZ
      BY <1>1, <1>3, <2>2, <2>3, <3>1
    <3>4. QED
      BY <2>1, <3>1, <3>2, <3>3 DEF r
  <2>4. CASE h.first # <<>>
    <3>1. r = writeEventToBuffer([w EXCEPT !.wordsToBuf = w.wordsToBuf - EV_HDSIZ], e, FALSE)
      BY <1>6, <2>4 DEF evWriteCommonBlock, d
    <3> HIDE DEF w
    <3>2. Len(w.buf) \in Nat /\ Len(w.buf) # 1 /\ w.blknum \in Nat /\ w.blknum # 1
      <4>1. w.buf \in Seq(Items) /\ w.blknum \in Nat
        BY <2>1 DEF Handles
      <4>2. Len(w.buf) \in Nat
        BY <4>1
      <4>3. \A x \in Nat : x > 1 => x # 1
        OBVIOUS
      <4>4. Len(w.buf) # 1 /\ w.blknum # 1
        BY <2>1, <4>1, <4>2, <4>3
      <4>5. QED
        BY <4>1, <4>2, <4>4
    <3>3. ~isLastBlock(w)
      BY <2>1, <3>2 DEF Buffered, isLastBlock
    <3>4. r = Place(w, e, FALSE)
      BY <3>1, <3>3 DEF Place
    <3> HIDE DEF r, e
    <3>5. /\ Filed(w) /\ w.bufSize = h.bufSize /\ w.bufRealSize = h.bufRealSize
          /\ w.splitting => w.append = 0
      BY <2>1, FiledSame DEF SameFile, Unused
    <3>6. w.bufSize >= w.wordsToBuf + e.words
      BY <1>1, <1>2, <1>3, <2>2, <2>4, <3>5 DEF EV_HDSIZ
    <3>7. /\ HandleOK(r) /\ Unused(r) /\ SameFile(r, w)
          /\ r.wordsToBuf = w.wordsToBuf + e.words + (IF Len(w.buf) = 1 THEN EV_HDSIZ ELSE 0)
      BY <1>2, <2>1, <2>4, <3>2, <3>4, <3>5, <3>6, PlaceHereOK
    <3>8. r.wordsToBuf = Words(Common(h)) + 2 * EV_HDSIZ
      BY <1>1, <1>2, <1>3, <2>2, <2>4, <3>2, <3>7 DEF EV_HDSIZ
    <3>9. SameFile(r, h)
      BY <2>1, <3>7 DEF SameFile
    <3>10. QED
      BY <3>7, <3>8, <3>9 DEF HandleOK, r
  <2>5. QED
    BY <2>3, <2>4
<1>7. QED
  BY <1>5, <1>6

-----------------------------------------------------------------------------
(* Flushing and splitting.                                                 *)

\* A handle, the disk and whether all went well so far.
Works == [h : Handles, d : Disks, ok : BOOLEAN]

SameBuffer(r, h) ==
  /\ r.buf = h.buf /\ r.cur = h.cur /\ r.blksiz = h.blksiz
  /\ r.wordsToBuf = h.wordsToBuf /\ r.append = h.append
  /\ r.bufSize = h.bufSize /\ r.bufRealSize = h.bufRealSize
  /\ r.rw = h.rw /\ r.splitting = h.splitting /\ r.dict = h.dict /\ r.first = h.first

LEMMA BufferedSame ==
  ASSUME NEW h, NEW r, SameBuffer(r, h)
  PROVE  /\ Buffered(h) => Buffered(r)
         /\ Roomy(h) => Roomy(r)
         /\ Unused(h) /\ r.blknum = h.blknum => Unused(r)
BY DEF SameBuffer, Buffered, Roomy, Unused

\* A buffer has at least a header.
LEMMA BufferWords ==
  ASSUME NEW h \in Handles, Buffered(h)
  PROVE  /\ Words(h.buf) \in Nat /\ Words(h.buf) >= EV_HDSIZ
         /\ h.wordsToBuf \in Nat /\ h.wordsToBuf >= EV_HDSIZ
         /\ h.wordsToBuf - EV_HDSIZ \in Nat
         /\ Memory(h) \in Seq(Items) /\ h.wordsToBuf <= Words(Memory(h))
<1>1. h.buf \in Seq(Items) /\ Len(h.buf) \in Nat /\ h.wordsToBuf \in Nat /\ h.blknum \in Nat
  BY DEF Handles
<1>2. h.buf[1].words = EV_HDSIZ /\ 1 \in 1 .. Len(h.buf)
  BY <1>1, HeadIsItem DEF Buffered
<1>3. Ends(h.buf)[1] = EV_HDSIZ
  BY <1>1, <1>2, EndsDef DEF EV_HDSIZ
<1>4. Words(h.buf) \in Nat /\ Words(h.buf) >= EV_HDSIZ
  BY <1>1, <1>2, <1>3, EndsGrow, WordsNat DEF Words
<1>5. h.wordsToBuf >= EV_HDSIZ /\ h.wordsToBuf <= Words(h.buf) + EV_HDSIZ
  BY <1>1, <1>4 DEF Buffered, EV_HDSIZ
<1>6. EmptyLast(h.blknum) \in Items /\ EmptyLast(h.blknum).words = EV_HDSIZ
  BY <1>1, EmptyLastItem
<1>7. Memory(h) \in Seq(Items) /\ Words(Memory(h)) = Words(h.buf) + EV_HDSIZ
  BY <1>1, <1>6, WordsAppend DEF Memory
<1>8. h.wordsToBuf - EV_HDSIZ \in Nat
  BY <1>1, <1>5 DEF EV_HDSIZ
<1>9. QED
  BY <1>1, <1>4, <1>5, <1>7, <1>8

LEMMA DiskTyped ==
  ASSUME NEW d \in Disks, NEW n \in Names
  PROVE  /\ d[n] = Absent \/ d[n] \in Seq(Items)
         /\ Content(d[n]) \in Seq(Items)
         /\ \A f \in Seq(Items) : [d EXCEPT ![n] = f] \in Disks
BY DEF Disks, Content

LEMMA SyncedTyped ==
  ASSUME NEW h, h.pos \in Nat, h.pending \in Seq(Items), NameOf(h) \in Names,
         NEW d \in Disks
  PROVE  Synced(h, d) \in Disks
<1>1. WriteAt(d[NameOf(h)], h.pos, h.pending) \in Seq(Items)
  BY DiskTyped, WriteAtTyped
<1>2. [d EXCEPT ![NameOf(h)] = WriteAt(d[NameOf(h)], h.pos, h.pending)] \in Disks
  BY <1>1, DiskTyped
<1>3. QED
  BY <1>2 DEF Synced

LEMMA FlushOK ==
  ASSUME NEW s \in Works, HandleOK(s.h)
  PROVE  LET t == evFlush(s)
         IN  /\ t \in Works /\ SameBuffer(t.h, s.h) /\ t.h.blknum = s.h.blknum
             /\ Filed(t.h)
             /\ \/ t.h.splitNumber = s.h.splitNumber
                \/ s.h.fileName = -1 /\ t.h.splitNumber = s.h.splitNumber + 1
<1> DEFINE h == s.h
           t == evFlush(s)
           name == NameOf(h)
           words == Cut(Memory(h), h.wordsToBuf)
           piped == Cut(Memory(h), h.wordsToBuf - EV_HDSIZ)
           isNew == h.wordsToFile = 0 /\ ~h.file
           next == IF h.fileName = -1 THEN h.splitNumber + 1 ELSE h.splitNumber
<1>1. h \in Handles /\ s.d \in Disks /\ s.ok \in BOOLEAN /\ Buffered(h) /\ Filed(h)
  BY DEF Works, HandleOK
<1>2. /\ h.wordsToBuf \in Nat /\ h.wordsToBuf >= EV_HDSIZ /\ h.wordsToBuf - EV_HDSIZ \in Nat
      /\ Memory(h) \in Seq(Items) /\ h.wordsToBuf <= Words(Memory(h))
  BY <1>1, BufferWords
<1>3. words \in Seq(Items) /\ Words(words) >= EV_HDSIZ
  BY <1>2, CutProperties
<1>4. piped \in Seq(Items)
  BY <1>2, CutProperties
<1>5. /\ name \in Names /\ Pipe \in Names /\ h.wordsToFile \in Nat /\ h.splitNumber \in Nat
      /\ h.fileName \in Int /\ h.pos \in Nat /\ h.pending \in Seq(Items)
      /\ h.rw \in {"file", "pipe"} /\ h.splitting \in BOOLEAN
  <2>1. Pipe \in Names
    BY SizesAssumption DEF Pipe, Names
  <2>2. name \in Names
    BY <1>1 DEF Filed
  <2>3. QED
    BY <1>1, <2>1, <2>2 DEF Handles
<1>6. next \in Nat /\ (next = h.splitNumber \/ (h.fileName = -1 /\ next = h.splitNumber + 1))
  BY <1>5
<1>7. name \in Int /\ (h.rw = "file" => name = IF h.fileName = -1 THEN h.splitNumber ELSE h.fileName)
  BY <1>5, SizesAssumption DEF NameOf, Names
<1>8. s = [h |-> h, d |-> s.d, ok |-> s.ok]
  BY DEF Works
<1>9. CASE h.eventsToBuf < 1
  <2>1. t = s
    BY <1>9 DEF evFlush
  <2>2. SameBuffer(t.h, s.h)
    BY <2>1 DEF SameBuffer
  <2>3. QED
    BY <1>1, <2>1, <2>2
<1>10. CASE ~(h.eventsToBuf < 1) /\ h.rw = "pipe"
  <2> DEFINE g == [h EXCEPT !.wordsToFile = h.wordsToFile + h.wordsToBuf - EV_HDSIZ]
             d == [s.d EXCEPT ![Pipe] = Content(s.d[Pipe]) \o piped]
  <2>1. t = [h |-> g, d |-> d, ok |-> s.ok]
    BY <1>8, <1>10 DEF evFlush
  <2>2. h.wordsToFile + h.wordsToBuf - EV_HDSIZ \in Nat
    <3>1. \A x, y \in Nat : y - EV_HDSIZ \in Nat => x + y - EV_HDSIZ \in Nat
      BY DEF EV_HDSIZ
    <3>2. QED
      BY <1>2, <1>5, <3>1
  <2>3. g \in Handles
    BY <1>1, <2>2 DEF Handles
  <2>4. /\ SameBuffer(g, h) /\ g.blknum = h.blknum /\ g.fileName = h.fileName
        /\ g.splitNumber = h.splitNumber /\ g.rw = "pipe"
    BY <1>1, <1>10 DEF Handles, SameBuffer
  <2>5. d \in Disks
    <3>1. Content(s.d[Pipe]) \o piped \in Seq(Items)
      BY <1>1, <1>4, <1>5, DiskTyped
    <3>2. QED
      BY <1>1, <1>5, <3>1, DiskTyped
  <2> HIDE DEF g, d
  <2>6. Filed(g)
    BY <1>1, <1>5, <1>10, <2>4 DEF Filed, NameOf, SameBuffer
  <2>7. t \in Works /\ t.h = g
    BY <1>1, <2>1, <2>3, <2>5 DEF Works
  <2>8. QED
    BY <2>4, <2>6, <2>7
<1>11. CASE ~(h.eventsToBuf < 1) /\ h.rw # "pipe" /\ isNew /\ h.splitting /\ s.d[name] # Absent
  <2> DEFINE g == [h EXCEPT !.fileName = name, !.splitNumber = next]
  <2>1. t = [h |-> g, d |-> s.d, ok |-> FALSE]
    BY <1>8, <1>11 DEF evFlush
  <2>2. g \in Handles
    BY <1>1, <1>6, <1>7 DEF Handles
  <2>3. /\ SameBuffer(g, h) /\ g.blknum = h.blknum /\ g.fileName = name
        /\ g.splitNumber = next /\ g.wordsToFile = h.wordsToFile /\ g.pending = h.pending
    BY <1>1 DEF Handles, SameBuffer
  <2> HIDE DEF g
  <2>4. Filed(g)
    <3>1. h.fileName = h.splitNumber - 1 /\ h.rw = "file" /\ g.rw = "file" /\ g.splitting
      BY <1>1, <1>11, <2>3 DEF Filed, SameBuffer
    <3>2. name = next - 1
      BY <1>5, <1>7, <3>1
    <3>3. g.fileName = g.splitNumber - 1 /\ g.fileName # -1
      BY <1>5, <1>7, <2>3, <3>1, <3>2
    <3>4. NameOf(g) = name
      BY <2>3, <3>1, <3>3 DEF NameOf
    <3>5. QED
      BY <1>5, <1>11, <2>3, <3>1, <3>3, <3>4 DEF Filed
  <2>5. t \in Works /\ t.h = g
    BY <1>1, <2>1, <2>2 DEF Works
  <2>6. QED
    BY <1>6, <2>3, <2>4, <2>5
<1>12. CASE ~(h.eventsToBuf < 1) /\ h.rw # "pipe" /\ isNew /\ ~(h.splitting /\ s.d[name] # Absent)
  <2> DEFINE g == [h EXCEPT !.fileName = name, !.splitNumber = next, !.file = TRUE,
                            !.pos = 0, !.pending = words,
                            !.wordsToFile = h.wordsToFile + h.wordsToBuf]
             d == [s.d EXCEPT ![name] = <<>>]
  <2>1. t = [h |-> g, d |-> d, ok |-> s.ok]
    BY <1>8, <1>12 DEF evFlush
  <2>2. g \in Handles
    <3>1. h.wordsToFile + h.wordsToBuf \in Nat
      BY <1>2, <1>5
    <3> HIDE DEF words, next, name
    <3>2. QED
      BY <1>1, <1>3, <1>6, <1>7, <3>1 DEF Handles
  <2>3. /\ SameBuffer(g, h) /\ g.blknum = h.blknum /\ g.fileName = name
        /\ g.splitNumber = next /\ g.pending = words
    BY <1>1 DEF Handles, SameBuffer
  <2>4. d \in Disks
    <3>1. <<>> \in Seq(Items)
      OBVIOUS
    <3>2. QED
      BY <1>1, <1>5, <3>1, DiskTyped
  <2> HIDE DEF g, d
  <2>5. Filed(g)
    <3>1. h.rw = "file" /\ g.rw = "file" /\ g.splitting = h.splitting
      BY <1>5, <1>12, <2>3 DEF SameBuffer
    <3>2. /\ h.splitting => h.fileName = h.splitNumber - 1
          /\ ~h.splitting => h.fileName \in {-1, 0} /\ (h.fileName = -1 => h.splitNumber = 0)
      BY <1>1 DEF Filed
    <3>3. /\ h.splitting => name = next - 1
          /\ ~h.splitting => name = 0
          /\ name # -1
      <4> HIDE DEF name
      <4>1. QED
        BY <1>5, <1>7, <3>1, <3>2
    <3>4. NameOf(g) = name
      BY <2>3, <3>1, <3>3 DEF NameOf
    <3> HIDE DEF name, next, words
    <3>5. QED
      BY <1>3, <1>5, <2>3, <3>1, <3>3, <3>4 DEF Filed
  <2>6. t \in Works /\ t.h = g
    BY <1>1, <2>1, <2>2, <2>4 DEF Works
  <2>7. QED
    BY <1>6, <2>3, <2>5, <2>6
<1>13. CASE ~(h.eventsToBuf < 1) /\ h.rw # "pipe" /\ ~isNew
  <2> DEFINE g == [h EXCEPT !.pos = SeekBack(h), !.pending = words,
                            !.wordsToFile = h.wordsToFile + h.wordsToBuf]
             d == Synced(h, s.d)
  <2>1. t = [h |-> g, d |-> d, ok |-> s.ok]
    BY <1>8, <1>13 DEF evFlush
  <2>2. h.rw = "file"
    BY <1>5, <1>13
  <2>3. SeekBack(h) \in Nat
    <3>1. Words(h.pending) \in Nat
      BY <1>5, WordsNat
    <3>2. h.wordsToFile # 0 => Words(h.pending) >= EV_HDSIZ
      BY <1>1, <2>2 DEF Filed
    <3>3. QED
      BY <1>5, <3>1, <3>2 DEF SeekBack, EV_HDSIZ
  <2>4. g \in Handles
    <3>1. h.wordsToFile + h.wordsToBuf \in Nat
      BY <1>2, <1>5
    <3> HIDE DEF words
    <3>2. QED
      BY <1>1, <1>3, <2>3, <3>1 DEF Handles
  <2>5. /\ SameBuffer(g, h) /\ g.blknum = h.blknum /\ g.fileName = h.fileName
        /\ g.splitNumber = h.splitNumber /\ g.pending = words
    BY <1>1 DEF Handles, SameBuffer
  <2>6. d \in Disks
    BY <1>1, <1>5, SyncedTyped
  <2> HIDE DEF g, d
  <2>7. Filed(g)
    <3>1. NameOf(g) = NameOf(h)
      BY <2>5 DEF NameOf, SameBuffer
    <3> HIDE DEF words
    <3>2. QED
      BY <1>1, <1>3, <2>5, <3>1 DEF Filed, SameBuffer
  <2>8. t \in Works /\ t.h = g
    BY <1>1, <2>1, <2>4, <2>6 DEF Works
  <2>9. QED
    BY <2>5, <2>7, <2>8
<1>14. QED
  BY <1>9, <1>10, <1>11, <1>12, <1>13

LEMMA SplitOK ==
  ASSUME NEW s \in Works, Filed(s.h), s.h.splitting, s.h.splitNumber <= MaxFiles
  PROVE  LET t == splitFile(s)
         IN  t \in Works /\ SameBuffer(t.h, s.h) /\ Filed(t.h) /\ t.ok = s.ok
<1> DEFINE h == s.h
           t == splitFile(s)
           n == h.splitNumber
           g == [h EXCEPT !.blknum = 1, !.wordsToFile = 0, !.file = FALSE,
                          !.pending = <<>>, !.pos = 0, !.hidden = FALSE,
                          !.fileName = n, !.splitNumber = n + 1]
           d == Synced(h, s.d)
<1>1. /\ h \in Handles /\ s.d \in Disks /\ s.ok \in BOOLEAN
      /\ s = [h |-> h, d |-> s.d, ok |-> s.ok]
  BY DEF Works
<1>2. t = [h |-> g, d |-> d, ok |-> s.ok]
  BY DEF splitFile
<1>3. n \in Nat /\ h.rw = "file" /\ <<>> \in Seq(Items)
  BY <1>1 DEF Handles, Filed
<1>4. g \in Handles
  <2> DEFINE m == n + 1
             none == <<>>
  <2>1. n \in Int /\ m \in Nat /\ none \in Seq(Items) /\ 1 \in Nat \ {0}
    BY <1>3
  <2>2. g = [h EXCEPT !.blknum = 1, !.wordsToFile = 0, !.file = FALSE,
                      !.pending = none, !.pos = 0, !.hidden = FALSE,
                      !.fileName = n, !.splitNumber = m]
    OBVIOUS
  <2> HIDE DEF n, m, none, g
  <2>3. QED
    BY <1>1, <2>1, <2>2 DEF Handles
<1>5. /\ SameBuffer(g, h) /\ g.fileName = n /\ g.splitNumber = n + 1
      /\ g.wordsToFile = 0 /\ g.rw = "file" /\ g.splitting
  BY <1>1, <1>3 DEF Handles, SameBuffer
<1>6. d \in Disks
  BY <1>1, SyncedTyped DEF Handles, Filed
<1> HIDE DEF g, d, n
<1>7. Filed(g)
  <2>1. g.fileName = g.splitNumber - 1 /\ g.fileName # -1
    BY <1>3, <1>5
  <2>2. NameOf(g) = n
    BY <1>5, <2>1 DEF NameOf
  <2>3. n \in Names
    BY <1>3, SizesAssumption DEF Names, n
  <2>4. QED
    BY <1>5, <2>1, <2>2, <2>3 DEF Filed
<1>8. t \in Works /\ t.h = g /\ t.ok = s.ok
  BY <1>1, <1>2, <1>4, <1>6 DEF Works
<1>9. QED
  BY <1>5, <1>7, <1>8

\* The buffer is emptied and given room for an event of so many words.
LEMMA PrepareOK ==
  ASSUME NEW s \in Works, Filed(s.h), s.h.bufSize <= s.h.bufRealSize,
         NEW big \in BOOLEAN, NEW words \in Nat,
         ~big => s.h.bufSize >= words + 2 * EV_HDSIZ
  PROVE  LET t == Prepare(s, big, words, TRUE)
         IN  /\ t \in Works /\ HandleOK(t.h) /\ t.ok = s.ok
             /\ Len(t.h.buf) = 1 /\ t.h.wordsToBuf = EV_HDSIZ
             /\ t.h.bufSize >= words + 2 * EV_HDSIZ
             /\ t.h.append = s.h.append /\ t.h.splitting = s.h.splitting
             /\ t.h.dict = s.h.dict /\ t.h.first = s.h.first
<1> DEFINE h == s.h
           size == words + 2 * EV_HDSIZ
           room == IF big THEN expandBuffer(h, size) ELSE h
           r == resetBuffer(room)
           t == Prepare(s, big, words, TRUE)
<1>1. h \in Handles /\ s.d \in Disks /\ s.ok \in BOOLEAN /\ s = [h |-> h, d |-> s.d, ok |-> s.ok]
  BY DEF Works
<1>2. t = [h |-> r, d |-> s.d, ok |-> s.ok]
  BY <1>1 DEF Prepare
<1>3. size \in Nat
  BY DEF EV_HDSIZ
<1>4. /\ room \in Handles /\ Filed(room) /\ room.bufSize >= size
      /\ room.bufSize <= room.bufRealSize
      /\ room.append = h.append /\ room.splitting = h.splitting
      /\ room.dict = h.dict /\ room.first = h.first
  <2> HIDE DEF size
  <2>1. CASE big
    BY <1>1, <1>3, <2>1, ExpandOK
  <2>2. CASE ~big
    BY <1>1, <2>2 DEF size
  <2>3. QED
    BY <2>1, <2>2
<1>5. room.bufSize >= EV_HDSIZ
  <2>1. room.bufSize \in Nat
    BY <1>4 DEF Handles
  <2> HIDE DEF room
  <2>2. QED
    BY <1>4, <2>1 DEF EV_HDSIZ
<1> HIDE DEF room, size
<1>6. /\ HandleOK(r) /\ Len(r.buf) = 1 /\ r.wordsToBuf = EV_HDSIZ
      /\ r.bufSize = room.bufSize /\ r.append = room.append
      /\ r.dict = room.dict /\ r.first = room.first /\ r.splitting = room.splitting
  BY <1>4, <1>5, ResetOK
<1> HIDE DEF r
<1>7. t \in Works /\ t.h = r /\ t.ok = s.ok
  <2>1. r \in Handles
    BY <1>6 DEF HandleOK
  <2> HIDE DEF t
  <2>2. QED
    BY <1>1, <1>2, <2>1 DEF Works
<1> HIDE DEF t
<1>8. QED
  BY <1>4, <1>6, <1>7 DEF t, size

\* The common block in a buffer with room for it and for the event.
LEMMA BeginOK ==
  ASSUME NEW s \in Works, HandleOK(s.h), s.h.append = 0, Common(s.h) # <<>>,
         NEW words \in Nat
  PROVE  LET t == Begin(s, words)
         IN  /\ t \in Works /\ t.ok = s.ok
             /\ Buffered(t.h) /\ Filed(t.h) /\ Unused(t.h)
             /\ t.h.bufSize <= t.h.bufRealSize
             /\ t.h.bufSize >= t.h.wordsToBuf + words + EV_HDSIZ
<1> DEFINE h == s.h
           c == Words(Common(h))
           needed == c + 3 * EV_HDSIZ + words
           x == expandBuffer(h, needed)
           r == resetBuffer(x)
           b == evWriteCommonBlock(r)
           t == Begin(s, words)
<1>1. /\ h \in Handles /\ s.d \in Disks /\ s.ok \in BOOLEAN
      /\ s = [h |-> h, d |-> s.d, ok |-> s.ok] /\ Filed(h) /\ h.bufSize <= h.bufRealSize
  BY DEF Works, HandleOK, Roomy
<1>2. t = [h |-> b, d |-> s.d, ok |-> s.ok]
  BY <1>1 DEF Begin
<1>3. c \in Nat
  <2>1. h.dict \in Nat
    BY <1>1 DEF Handles
  <2>2. h.first # <<>> => h.first[1].words \in Nat
    BY <1>1, FirstItem
  <2>3. QED
    BY <1>1, <2>1, <2>2, CommonWords
<1> HIDE DEF c
<1>4. needed \in Nat /\ needed >= EV_HDSIZ /\ needed = c + 2 * EV_HDSIZ + words + EV_HDSIZ
  BY <1>3 DEF EV_HDSIZ
<1> HIDE DEF needed
<1>5. /\ x \in Handles /\ x.bufSize >= needed /\ x.bufSize <= x.bufRealSize /\ Filed(x)
      /\ x.append = h.append /\ x.dict = h.dict /\ x.first = h.first
  BY <1>1, <1>4, ExpandOK
<1> HIDE DEF x
<1>6. x.bufSize \in Nat
  BY <1>5 DEF Handles
<1>7. x.bufSize >= EV_HDSIZ
  BY <1>4, <1>5, <1>6 DEF EV_HDSIZ
<1>8. /\ HandleOK(r) /\ Len(r.buf) = 1 /\ r.wordsToBuf = EV_HDSIZ
      /\ r.bufSize = x.bufSize /\ r.append = x.append
      /\ r.dict = x.dict /\ r.first = x.first
  BY <1>5, <1>7, ResetOK
<1> HIDE DEF r
<1>9. Common(r) = Common(h)
  BY <1>5, <1>8 DEF Common
<1>10. r.bufSize >= c + 2 * EV_HDSIZ
  BY <1>3, <1>4, <1>5, <1>6, <1>8 DEF EV_HDSIZ
<1>11. /\ b \in Handles /\ Buffered(b) /\ Filed(b) /\ Unused(b) /\ SameFile(b, r)
       /\ b.wordsToBuf = c + 2 * EV_HDSIZ
  <2>1. r \in Handles /\ Buffered(r) /\ Filed(r) /\ r.bufSize <= r.bufRealSize /\ r.append = 0
    BY <1>5, <1>8 DEF HandleOK, Roomy
  <2>2. Common(r) # <<>> /\ Words(Common(r)) = c
    BY <1>9 DEF c
  <2>3. QED
    BY <1>8, <1>10, <2>1, <2>2, CommonOK
<1> HIDE DEF b
<1>12. b.bufSize = r.bufSize /\ b.bufSize <= b.bufRealSize
  BY <1>8, <1>11 DEF SameFile, HandleOK, Roomy
<1>13. b.bufSize >= b.wordsToBuf + words + EV_HDSIZ
  BY <1>3, <1>4, <1>5, <1>6, <1>8, <1>11, <1>12 DEF EV_HDSIZ
<1>14. t \in Works /\ t.h = b /\ t.ok = s.ok
  BY <1>1, <1>2, <1>11 DEF Works
<1>15. QED
  BY <1>11, <1>12, <1>13, <1>14

LEMMA WriteImplOK ==
  ASSUME NEW s \in Works, HandleOK(s.h), Unused(s.h), s.ok = TRUE, NEW e \in EventItems,
         s.h.splitting => s.h.splitNumber < MaxFiles
  PROVE  LET t == evWriteImpl(s, e)
         IN  t \in Works /\ HandleOK(t.h) /\ Unused(t.h)
<1> DEFINE h       == s.h
           splits  == SplitsFile(h, e)
           big     == TooBig(h, e)
           doFlush == (splits /\ h.eventsToBuf > 0) \/ big \/ NoRoom(h, e)
           flushed == IF doFlush THEN evFlush(s) ELSE s
           repeats == splits /\ Common(h) # <<>>
           header  == repeats \/ (NeedsHeader(h, e) /\ ~doFlush /\ ~splits)
           sp      == IF splits THEN splitFile(flushed) ELSE flushed
           there   == Prepare(sp, big, e.words, doFlush \/ splits)
           begun   == IF repeats THEN Begin(there, e.words) ELSE there
           t       == evWriteImpl(s, e)
<1>1. t = IF doFlush /\ ~flushed.ok THEN flushed ELSE Finish(begun, e, header)
  BY DEF evWriteImpl
<1>2. /\ h \in Handles /\ e.words \in Nat /\ h.splitNumber \in Nat /\ h.fileName \in Int
      /\ h.bufSize \in Nat /\ h.wordsToBuf \in Nat /\ MaxFiles \in Nat \ {0}
      /\ Buffered(h) /\ Filed(h) /\ Roomy(h) /\ (h.splitting => h.append = 0)
  BY SizesAssumption DEF Works, Handles, EventItems, HandleOK, Unused
<1>3. /\ splits \in BOOLEAN /\ big \in BOOLEAN
      /\ splits => h.splitting
      /\ ~doFlush => ~big /\ ~NoRoom(h, e)
  BY DEF SplitsFile, TooBig
<1>4. /\ flushed \in Works /\ SameBuffer(flushed.h, h) /\ flushed.h.blknum = h.blknum
      /\ Filed(flushed.h)
      /\ \/ flushed.h.splitNumber = h.splitNumber
         \/ h.fileName = -1 /\ flushed.h.splitNumber = h.splitNumber + 1
      /\ ~doFlush => flushed = s
  <2>1. CASE doFlush
    <3>1. flushed = evFlush(s)
      BY <2>1
    <3> HIDE DEF flushed, doFlush
    <3>2. QED
      BY <2>1, <3>1, FlushOK
  <2>2. CASE ~doFlush
    BY <1>2, <2>2 DEF SameBuffer
  <2>3. QED
    BY <2>1, <2>2
<1> HIDE DEF flushed
<1>5. CASE doFlush /\ ~flushed.ok
  <2>1. t = flushed
    BY <1>1, <1>5
  <2> HIDE DEF t
  <2>2. Buffered(flushed.h) /\ Roomy(flushed.h) /\ Unused(flushed.h)
    BY <1>2, <1>4, BufferedSame
  <2>3. QED
    BY <1>4, <2>1, <2>2 DEF HandleOK, Works, t
<1>6. CASE ~(doFlush /\ ~flushed.ok)
  <2>1. t = Finish(begun, e, header) /\ flushed.ok = TRUE
    <3>1. flushed.ok \in BOOLEAN
      BY <1>4 DEF Works
    <3>2. ~doFlush => flushed.ok = TRUE
      BY <1>4
    <3>3. QED
      BY <1>1, <1>6, <3>1, <3>2
  <2>2. CASE ~doFlush /\ ~splits
    <3>1. there = s /\ begun = there /\ header = NeedsHeader(h, e)
      <4>1. sp = s /\ ~big
        BY <1>3, <1>4, <2>2
      <4>2. there = [s EXCEPT !.h = s.h]
        BY <2>2, <4>1 DEF Prepare
      <4>3. [s EXCEPT !.h = s.h] = s
        BY DEF Works
      <4>4. QED
        BY <2>2, <4>2, <4>3 DEF NeedsHeader
    <3> DEFINE p == Place(h, e, header)
    <3>2. t = [s EXCEPT !.h = p]
      BY <2>1, <3>1 DEF Finish
    <3> HIDE DEF t, header, begun, there, doFlush
    <3>3. h.bufSize >= e.words + 2 * EV_HDSIZ
      BY <1>2, <1>3, <2>2 DEF TooBig, EV_HDSIZ
    <3>4. h.bufSize - h.wordsToBuf >= e.words + (IF header THEN EV_HDSIZ ELSE 0)
      <4>1. ~(h.bufSize - h.wordsToBuf < e.words + (IF header THEN EV_HDSIZ ELSE 0))
        BY <1>3, <2>2, <3>1 DEF NoRoom
      <4>2. QED
        BY <1>2, <4>1 DEF EV_HDSIZ
    <3>5. h.bufSize <= h.bufRealSize /\ (h.blknum = 1 => Len(h.buf) = 1)
      BY <1>2 DEF Roomy, Unused
    <3>6. HandleOK(p) /\ Unused(p)
      <4>1. CASE header
        <5>1. h.bufSize >= h.wordsToBuf + e.words + EV_HDSIZ
          BY <1>2, <3>4, <4>1 DEF EV_HDSIZ
        <5>2. p = Place(h, e, TRUE)
          BY <4>1 DEF Place
        <5> HIDE DEF p
        <5>3. QED
          BY <1>2, <3>5, <5>1, <5>2, PlaceNewOK
      <4>2. CASE ~header
        <5>1. h.bufSize >= h.wordsToBuf + e.words
          BY <1>2, <3>4, <4>2
        <5>2. p = Place(h, e, FALSE)
          BY <4>2 DEF Place
        <5> HIDE DEF p
        <5>3. QED
          BY <1>2, <3>3, <3>5, <5>1, <5>2, PlaceHereOK
      <4>3. QED
        BY <4>1, <4>2
    <3> HIDE DEF p
    <3>7. t \in Works /\ t.h = p
      BY <3>2, <3>6 DEF Works, HandleOK
    <3>8. QED
      BY <3>6, <3>7 DEF t
  <2>3. CASE doFlush \/ splits
    <3>1. /\ sp \in Works /\ SameBuffer(sp.h, h) /\ Filed(sp.h) /\ sp.ok = TRUE
      <4>1. CASE splits
        <5>1. flushed.h.splitting /\ flushed.h.splitNumber <= MaxFiles
          <6>1. h.splitting /\ h.splitNumber < MaxFiles /\ h.fileName = h.splitNumber - 1
            <7>1. h.splitting
              BY <1>3, <4>1
            <7>2. QED
              BY <1>2, <7>1 DEF Filed
          <6>2. flushed.h.splitting
            BY <1>4, <6>1 DEF SameBuffer
          <6>3. QED
            BY <1>2, <1>4, <6>1, <6>2
        <5>2. sp = splitFile(flushed)
          BY <4>1
        <5> HIDE DEF sp
        <5>3. sp \in Works /\ SameBuffer(sp.h, flushed.h) /\ Filed(sp.h) /\ sp.ok = flushed.ok
          BY <1>4, <5>1, <5>2, SplitOK
        <5>4. SameBuffer(sp.h, h)
          BY <1>4, <5>3 DEF SameBuffer
        <5>5. QED
          BY <2>1, <5>3, <5>4
      <4>2. CASE ~splits
        BY <1>4, <2>1, <4>2
      <4>3. QED
        BY <4>1, <4>2
    <3>2. there = Prepare(sp, big, e.words, TRUE)
      BY <2>3 DEF Prepare
    <3>3. sp.h.bufSize <= sp.h.bufRealSize /\ (~big => sp.h.bufSize >= e.words + 2 * EV_HDSIZ)
      <4>1. ~big => h.bufSize >= e.words + 2 * EV_HDSIZ
        BY <1>2 DEF TooBig, EV_HDSIZ
      <4>2. QED
        BY <1>2, <3>1, <4>1 DEF SameBuffer, Roomy
    <3> HIDE DEF there, sp, big
    <3>4. /\ there \in Works /\ HandleOK(there.h) /\ there.ok = sp.ok
          /\ Len(there.h.buf) = 1 /\ there.h.wordsToBuf = EV_HDSIZ
          /\ there.h.bufSize >= e.words + 2 * EV_HDSIZ
          /\ there.h.append = sp.h.append /\ there.h.splitting = sp.h.splitting
          /\ there.h.dict = sp.h.dict /\ there.h.first = sp.h.first
      <4> DEFINE w == e.words
      <4>1. big \in BOOLEAN /\ w \in Nat /\ sp \in Works /\ Filed(sp.h)
        BY <1>2, <1>3, <3>1
      <4>2. sp.h.bufSize <= sp.h.bufRealSize /\ (~big => sp.h.bufSize >= w + 2 * EV_HDSIZ)
        BY <3>3
      <4>3. there = Prepare(sp, big, w, TRUE)
        BY <3>2
      <4> HIDE DEF w
      <4>4. /\ there \in Works /\ HandleOK(there.h) /\ there.ok = sp.ok
            /\ Len(there.h.buf) = 1 /\ there.h.wordsToBuf = EV_HDSIZ
            /\ there.h.bufSize >= w + 2 * EV_HDSIZ
            /\ there.h.append = sp.h.append /\ there.h.splitting = sp.h.splitting
            /\ there.h.dict = sp.h.dict /\ there.h.first = sp.h.first
        BY <4>1, <4>2, <4>3, PrepareOK, ZenonT(30)
      <4>5. QED
        BY <4>4 DEF w
    <3>5. /\ there.h.splitting => there.h.append = 0
          /\ there.ok = TRUE /\ there.h \in Handles /\ Filed(there.h) /\ Buffered(there.h)
          /\ there.h.bufSize <= there.h.bufRealSize
      BY <1>2, <3>1, <3>4 DEF SameBuffer, HandleOK, Roomy
    <3>6. CASE ~repeats
      <4> DEFINE p == Place(there.h, e, FALSE)
      <4>1. begun = there /\ ~header
        BY <2>3, <3>6
      <4>2. t = [there EXCEPT !.h = p]
        BY <2>1, <3>5, <4>1 DEF Finish, Place
      <4>3. there.h.bufSize >= there.h.wordsToBuf + e.words
        <5>1. there.h.bufSize \in Nat
          BY <3>5 DEF Handles
        <5>2. QED
          BY <1>2, <3>4, <5>1 DEF EV_HDSIZ
      <4>4. HandleOK(p) /\ Unused(p)
        BY <3>4, <3>5, <4>3, PlaceHereOK
      <4> HIDE DEF p, t
      <4>5. t \in Works /\ t.h = p
        BY <3>4, <4>2, <4>4 DEF Works, HandleOK
      <4>6. QED
        BY <4>4, <4>5 DEF t
    <3>7. CASE repeats
      <4> DEFINE p == Place(begun.h, e, TRUE)
      <4>1. begun = Begin(there, e.words) /\ header = TRUE
        BY <3>7
      <4>2. Common(there.h) # <<>> /\ there.h.append = 0
        <5>1. Common(there.h) = Common(h)
          BY <3>1, <3>4 DEF Common, SameBuffer
        <5>2. there.h.splitting
          <6>1. h.splitting
            BY <1>3, <3>7
          <6>2. QED
            BY <3>1, <3>4, <6>1 DEF SameBuffer
        <5>3. QED
          BY <3>5, <3>7, <5>1, <5>2
      <4> HIDE DEF begun
      <4>3. /\ begun \in Works /\ begun.ok = there.ok
            /\ Buffered(begun.h) /\ Filed(begun.h) /\ Unused(begun.h)
            /\ begun.h.bufSize <= begun.h.bufRealSize
            /\ begun.h.bufSize >= begun.h.wordsToBuf + e.words + EV_HDSIZ
        BY <1>2, <3>4, <4>1, <4>2, BeginOK
      <4>4. t = [begun EXCEPT !.h = p]
        BY <2>1, <3>5, <4>1, <4>3 DEF Finish
      <4>5. HandleOK(p) /\ Unused(p)
        <5>1. begun.h \in Handles /\ (begun.h.splitting => begun.h.append = 0)
          BY <4>3 DEF Works, Unused
        <5>2. QED
          BY <4>3, <5>1, PlaceNewOK
      <4> HIDE DEF p, t
      <4>6. t \in Works /\ t.h = p
        BY <4>3, <4>4, <4>5 DEF Works, HandleOK
      <4>7. QED
        BY <4>5, <4>6 DEF t
    <3>8. QED
      BY <3>6, <3>7
  <2>4. QED
    BY <2>2, <2>3
<1>7. QED
  BY <1>5, <1>6

-----------------------------------------------------------------------------
(* Appending.                                                              *)

LEMMA BlockEndRange ==
  ASSUME NEW f \in Seq(Items), NEW i \in 1 .. Len(f)
  PROVE  BlockEnd(f, i) \in {0, -1} \/ BlockEnd(f, i) \in i .. Len(f)
<1> DEFINE at == Ends(f)[i] - EV_HDSIZ + f[i].size
           J(j) == Ends(f)[j] = at
<1>1. BlockEnd(f, i) = IF at > Ends(f)[Len(f)] THEN 0
                       ELSE IF \E j \in i .. Len(f) : J(j)
                            THEN CHOOSE j \in i .. Len(f) : J(j) ELSE -1
  BY DEF BlockEnd
<1> HIDE DEF J, at
<1>2. QED
  BY <1>1

\* The headers found on the way to the last block are headers, the last of
\* them that of the last block.
HeaderLists(f) ==
  {s \in Seq(1 .. Len(f)) : /\ \A k \in 1 .. Len(s) : f[s[k]].kind = "head"
                            /\ s = <<>> \/ f[s[Len(s)]].last}

LEMMA BlockHeadersTyped ==
  ASSUME NEW f \in Seq(Items)
  PROVE  BlockHeaders(f) \in HeaderLists(f)
<1> DEFINE n == Len(f)
           D == HeaderLists(f)
           B(i) == BlockEnd(f, i)
           nx == [i \in 1 .. n |-> IF B(i) < 1 THEN n + 1 ELSE B(i) + 1]
           G == [x \in D \X (1 .. n) |->
                   IF f[x[2]].kind # "head" THEN <<>>
                   ELSE IF f[x[2]].last THEN <<x[2]>>
                   ELSE IF B(x[2]) < 1 THEN <<>>
                   ELSE IF x[1] = <<>> THEN <<>> ELSE <<x[2]>> \o x[1]]
           Body(g, i) == IF i > n \/ f[i].kind # "head" THEN <<>>
                         ELSE IF f[i].last THEN <<i>>
                         ELSE IF B(i) < 1 THEN <<>>
                         ELSE IF g[B(i) + 1] = <<>> THEN <<>>
                         ELSE <<i>> \o g[B(i) + 1]
           H == CHOOSE g : g = [i \in 1 .. n + 1 |-> Body(g, i)]
<1>1. n \in Nat
  OBVIOUS
<1>2. \A i \in 1 .. n : B(i) \in {0, -1} \/ B(i) \in i .. n
  BY BlockEndRange
<1>3. BlockHeaders(f) = H[1]
  BY DEF BlockHeaders
<1> HIDE DEF B
<1>4. \A i \in 1 .. n, x \in D :
        /\ <<>> \in D
        /\ f[i].kind = "head" /\ f[i].last => <<i>> \in D
        /\ f[i].kind = "head" /\ x # <<>> => <<i>> \o x \in D
  <2>1. ASSUME NEW i \in 1 .. n, NEW x \in D, f[i].kind = "head"
        PROVE  (f[i].last => <<i>> \in D) /\ (x # <<>> => <<i>> \o x \in D)
    <3>1. f[i].last => <<i>> \in D
      BY <2>1 DEF HeaderLists
    <3> DEFINE y == <<i>> \o x
    <3>2. /\ x \in Seq(1 .. n) /\ \A k \in 1 .. Len(x) : f[x[k]].kind = "head"
          /\ x = <<>> \/ f[x[Len(x)]].last
      BY DEF HeaderLists
    <3>3. y \in Seq(1 .. n) /\ Len(y) = Len(x) + 1 /\ y[1] = i
          /\ \A k \in 2 .. Len(y) : y[k] = x[k-1]
      BY <3>2
    <3>4. ASSUME NEW k \in 1 .. Len(y) PROVE f[y[k]].kind = "head"
      <4>1. CASE k = 1
        BY <2>1, <3>3, <4>1
      <4>2. CASE k # 1
        <5>1. Len(x) \in Nat
          BY <3>2
        <5>2. k \in 2 .. Len(y) /\ k - 1 \in 1 .. Len(x)
          BY <3>3, <4>2, <5>1
        <5>3. QED
          BY <3>2, <3>3, <5>2
      <4>3. QED
        BY <4>1, <4>2
    <3>5. x # <<>> => f[y[Len(y)]].last
      <4>1. x # <<>> => y[Len(y)] = x[Len(x)]
        BY <3>2, <3>3
      <4>2. QED
        BY <3>2, <4>1
    <3> HIDE DEF y
    <3>6. x # <<>> => y \in D
      BY <3>3, <3>4, <3>5 DEF HeaderLists
    <3>7. QED
      BY <3>1, <3>6 DEF y
  <2>2. <<>> \in D
    BY DEF HeaderLists
  <2>3. QED
    BY <2>1, <2>2
<1>5. <<>> \in D
  BY DEF HeaderLists
<1> HIDE DEF D
<1>6. IsStep(G, n, D)
  <2>1. ASSUME NEW x \in D \X (1 .. n) PROVE G[x] \in D
    <3>1. x[1] \in D /\ x[2] \in 1 .. n
      OBVIOUS
    <3>2. QED
      BY <1>4, <1>5, <3>1
  <2>2. QED
    BY <2>1 DEF IsStep
<1>7. IsAhead(nx, n)
  BY <1>1, <1>2 DEF IsAhead
<1>8. PICK g : IsRunAhead(g, n, D, <<>>, G, nx)
  <2> HIDE DEF G, nx, n
  <2>1. QED
    BY <1>1, <1>5, <1>6, <1>7, RecursionAhead
<1>9. g \in [1 .. n + 1 -> D] /\ \A i \in 1 .. n + 1 : g[i] = Body(g, i)
  <2>1. g \in [1 .. n + 1 -> D] /\ g[n+1] = <<>>
    BY <1>8 DEF IsRunAhead
  <2>2. ASSUME NEW i \in 1 .. n PROVE g[i] = Body(g, i)
    <3>1. nx[i] \in 1 .. n + 1
      BY <1>7 DEF IsAhead
    <3>2. <<g[nx[i]], i>> \in D \X (1 .. n)
      <4> HIDE DEF nx
      <4>1. QED
        BY <2>1, <3>1
    <3>3. g[i] = G[<<g[nx[i]], i>>]
      BY <1>8 DEF IsRunAhead
    <3>4. ~(B(i) < 1) => nx[i] = B(i) + 1
      BY <1>2
    <3>5. ~(i > n)
      BY <1>1
    <3> HIDE DEF nx, n
    <3>6. QED
      BY <3>2, <3>3, <3>4, <3>5
  <2>3. g[n+1] = Body(g, n + 1)
    BY <1>1, <2>1
  <2> HIDE DEF Body
  <2>4. QED
    BY <1>1, <2>1, <2>2, <2>3
<1>10. g = [i \in 1 .. n + 1 |-> Body(g, i)]
  <2> HIDE DEF Body
  <2>1. QED
    BY <1>9
<1>11. H = [i \in 1 .. n + 1 |-> Body(H, i)]
  <2> HIDE DEF Body
  <2>1. QED
    BY <1>10
<1> HIDE DEF H
<1>12. \A i \in 1 .. n + 1 : H[i] = Body(H, i)
  <2> HIDE DEF Body
  <2>1. QED
    BY <1>11
<1> DEFINE S == {i \in 1 .. n + 1 : H[i] \in D}
<1>13. n + 1 \in S
  <2>1. n + 1 \in 1 .. n + 1 /\ n + 1 > n
    BY <1>1
  <2>2. H[n+1] = <<>>
    BY <1>12, <2>1
  <2>3. QED
    BY <1>5, <2>1, <2>2
<1>14. ASSUME NEW i \in 1 .. n, \A j \in i + 1 .. n + 1 : j \in S PROVE i \in S
  <2>1. H[i] = Body(H, i)
    BY <1>1, <1>12
  <2>2. ~(B(i) < 1) => B(i) + 1 \in i + 1 .. n + 1
    BY <1>1, <1>2
  <2>3. ~(B(i) < 1) => H[B(i) + 1] \in D
    BY <1>14, <2>2
  <2>4. ~(i > n)
    BY <1>1
  <2>5. H[i] \in D
    <3> HIDE DEF n
    <3>1. QED
      BY <1>4, <1>5, <2>1, <2>3, <2>4
  <2>6. QED
    BY <1>1, <2>5
<1>15. \A i \in 1 .. n + 1 : i \in S
  <2> HIDE DEF S, n
  <2>1. QED
    BY <1>1, <1>13, <1>14, DownFrom
<1>16. H[1] \in D
  BY <1>1, <1>15
<1>17. QED
  BY <1>3, <1>16 DEF D

LEMMA EventCountNat ==
  ASSUME NEW f \in Seq(Items), NEW heads \in HeaderLists(f)
  PROVE  EventCount(f, heads) \in Nat
<1> DEFINE n == Len(heads)
           G == [x \in Nat \X (1 .. n) |-> x[1] + f[heads[x[2]]].count]
           E == CHOOSE g : g = [k \in 0 .. n |-> IF k = 0 THEN 0
                                                 ELSE g[k-1] + f[heads[k]].count]
<1>1. n \in Nat /\ \A i \in 1 .. n : f[heads[i]].count \in Nat
  <2>1. heads \in Seq(1 .. Len(f)) /\ \A k \in 1 .. Len(heads) : f[heads[k]].kind = "head"
    BY DEF HeaderLists
  <2>2. \A x \in Items : x.kind = "head" => x.count \in Nat
    BY DEF Items, HeadItems, EventItems, TornItems
  <2>3. \A i \in 1 .. n : f[heads[i]] \in Items
    BY <2>1
  <2>4. QED
    BY <2>1, <2>2, <2>3
<1>2. IsStep(G, n, Nat)
  BY <1>1 DEF IsStep
<1>3. PICK g : IsRun(g, n, Nat, 0, G)
  <2> HIDE DEF n, G
  <2>1. 0 \in Nat
    OBVIOUS
  <2>2. QED
    BY <1>1, <1>2, <2>1, RecursionUpTo
<1>4. /\ g \in [0 .. n -> Nat] /\ g[0] = 0
      /\ \A i \in 1 .. n : g[i] = g[i-1] + f[heads[i]].count
  <2>1. g \in [0 .. n -> Nat] /\ g[0] = 0
    BY <1>3 DEF IsRun
  <2>2. ASSUME NEW i \in 1 .. n PROVE g[i] = g[i-1] + f[heads[i]].count
    <3>1. <<g[i-1], i>> \in Nat \X (1 .. n)
      <4> HIDE DEF n
      <4>1. i - 1 \in 0 .. n
        BY <1>1
      <4>2. g[i-1] \in Nat
        BY <2>1, <4>1
      <4>3. QED
        BY <4>2
    <3>2. G[<<g[i-1], i>>] = g[i-1] + f[heads[i]].count
      BY <3>1
    <3>3. QED
      BY <1>3, <3>2 DEF IsRun
  <2>3. QED
    BY <2>1, <2>2
<1>5. g = [i \in 0 .. n |-> IF i = 0 THEN 0 ELSE g[i-1] + f[heads[i]].count]
  BY <1>1, <1>4
<1>6. E = [i \in 0 .. n |-> IF i = 0 THEN 0 ELSE E[i-1] + f[heads[i]].count]
  BY <1>5
<1>7. EventCount(f, heads) = E[n]
  BY DEF EventCount
<1> HIDE DEF E, n
<1>8. E[0] = 0 /\ \A i \in 1 .. n : E[i] = E[i-1] + f[heads[i]].count
  BY <1>1, <1>6
<1> DEFINE S == {i \in 0 .. n : E[i] \in Nat}
<1>9. \A i \in 0 .. n : i \in S
  <2>1. 0 \in S
    BY <1>1, <1>8
  <2>2. ASSUME NEW i \in 1 .. n, i - 1 \in S PROVE i \in S
    <3>1. E[i-1] \in Nat /\ E[i] = E[i-1] + f[heads[i]].count /\ f[heads[i]].count \in Nat
      BY <1>1, <1>8, <2>2
    <3>2. QED
      BY <3>1
  <2> HIDE DEF S
  <2>3. QED
    BY <1>1, <2>1, <2>2, UpTo
<1>10. QED
  BY <1>1, <1>7, <1>9

\* A buffer that holds the header of an empty last block.
LEMMA EmptyBuffer ==
  ASSUME NEW h, NEW n \in Nat, h.buf = <<EmptyLast(n)>>, h.cur = 1,
         h.blksiz = EV_HDSIZ, h.wordsToBuf = EV_HDSIZ
  PROVE  Buffered(h) /\ Len(h.buf) = 1 /\ h.buf \in Seq(Items)
<1> DEFINE e == EmptyLast(n)
           b == h.buf
<1>1. e \in HeadItems /\ e \in Items /\ e.last /\ e.size = EV_HDSIZ /\ e.words = EV_HDSIZ
  BY EmptyLastItem
<1>2. b = <<e>>
  OBVIOUS
<1> HIDE DEF e
<1>3. b \in Seq(Items) /\ Len(b) = 1 /\ b[1] = e /\ Words(b) = EV_HDSIZ
  BY <1>1, <1>2, WordsOne
<1> HIDE DEF b
<1>4. Buffered(h)
  BY <1>1, <1>3 DEF Buffered, EV_HDSIZ, b
<1>5. QED
  BY <1>3, <1>4 DEF b

LEMMA StructInitOK ==
  ASSUME NEW rw \in {"file", "pipe"}, NEW append \in 0 .. 2, NEW splitting \in BOOLEAN,
         splitting => rw = "file" /\ append = 0
  PROVE  HandleOK(structInit(rw, append, splitting)) /\ Unused(structInit(rw, append, splitting))
<1> DEFINE h == structInit(rw, append, splitting)
           e == EmptyLast(1)
           b == <<e>>
<1>1. e \in HeadItems /\ e \in Items /\ e.last /\ e.size = EV_HDSIZ /\ e.words = EV_HDSIZ
  BY EmptyLastItem
<1>2. b \in Seq(Items) /\ Len(b) = 1 /\ b[1] = e /\ <<>> \in Seq(Items) /\ <<>> \in FirstEvents
  BY <1>1 DEF FirstEvents
<1>3. /\ EV_BLOCKSIZE_V4 \in Nat /\ EV_EVENTS_MAX_DEF \in Nat /\ EV_SPLIT_SIZE \in Nat
      /\ EV_BLOCKSIZE_V4 >= EV_HDSIZ /\ EV_HDSIZ \in Nat /\ MaxFiles \in Nat
  BY SizesAssumption DEF EV_HDSIZ
<1>4. Words(b) = EV_HDSIZ
  BY <1>1, WordsOne
<1>5. /\ h.buf = b /\ h.cur = 1 /\ h.blksiz = EV_HDSIZ /\ h.wordsToBuf = EV_HDSIZ
      /\ h.bufSize = EV_BLOCKSIZE_V4 /\ h.bufRealSize = EV_BLOCKSIZE_V4
      /\ h.splitting = splitting /\ h.rw = rw /\ h.append = append /\ h.fileName = -1
      /\ h.splitNumber = 0 /\ h.wordsToFile = 0
  BY DEF structInit
<1>6. h \in Handles
  <2> DEFINE none == <<>>
  <2>1. h = [rw |-> rw, append |-> append, splitting |-> splitting,
             buf |-> b, cur |-> 1, blksiz |-> EV_HDSIZ, blknum |-> 1,
             blkEvCount |-> 0, blkSizeTarget |-> EV_BLOCKSIZE_V4,
             bufSize |-> EV_BLOCKSIZE_V4, bufRealSize |-> EV_BLOCKSIZE_V4,
             blkEvMax |-> EV_EVENTS_MAX_DEF, split |-> EV_SPLIT_SIZE,
             fileName |-> -1, splitNumber |-> 0, file |-> FALSE,
             wordsToFile |-> 0, wordsToBuf |-> EV_HDSIZ, eventsToBuf |-> 0,
             eventCount |-> 0, dict |-> 0, wroteDictionary |-> FALSE,
             first |-> none, wroteFirstEvent |-> FALSE, commonBlkCount |-> 0,
             pos |-> 0, pending |-> none, hidden |-> FALSE]
    BY DEF structInit
  <2>2. none \in Seq(Items) /\ none \in FirstEvents
    BY <1>2
  <2> HIDE DEF h, b, none
  <2>3. QED
    BY <1>2, <1>3, <2>1, <2>2 DEF Handles
<1> HIDE DEF h, b, e
<1>7. Buffered(h) /\ Roomy(h) /\ Unused(h)
  <2>1. Buffered(h) /\ Len(h.buf) = 1
    BY <1>5, EmptyBuffer DEF b, e
  <2>2. Roomy(h)
    BY <1>3, <1>5 DEF Roomy
  <2>3. QED
    BY <1>5, <2>1, <2>2 DEF Unused
<1>8. Filed(h)
  <2>1. NameOf(h) \in Names
    BY <1>3, <1>5 DEF NameOf, Names, Pipe
  <2>2. QED
    BY <1>5, <2>1 DEF Filed
<1>9. QED
  BY <1>6, <1>7, <1>8 DEF HandleOK, h

\* Positioning at the end of a file.
LEMMA AppendOK ==
  ASSUME NEW f \in Seq(Items), toAppendPosition(f).ok
  PROVE  /\ HandleOK(toAppendPosition(f).h) /\ Unused(toAppendPosition(f).h)
         /\ toAppendPosition(f).f \in Seq(Items)
<1> DEFINE heads == BlockHeaders(f)
           m     == Len(heads)
           l     == heads[m]
           num   == IF f[l].size > EV_HDSIZ THEN m + 1 ELSE m
           pos   == AppendAt(f, l)
           total == EventCount(f, heads)
           g     == [f EXCEPT ![l].last = FALSE]
           e     == EmptyLast(num)
           b     == <<e>>
           evs   == IF f[1].dict THEN total + 1 ELSE total
           i     == structInit("file", 1, FALSE)
           h     == [i EXCEPT !.buf = b, !.blknum = num, !.fileName = 0, !.file = TRUE,
                              !.pos = pos, !.eventCount = total, !.eventsToBuf = evs]
           r     == toAppendPosition(f)
<1>1. heads # <<>> /\ r.h = h /\ r.f = WriteAt(g, pos, b)
  <2>1. heads # <<>>
    BY DEF toAppendPosition
  <2>2. r = [ok |-> TRUE, f |-> WriteAt(g, pos, b), h |-> h]
    BY <2>1 DEF toAppendPosition
  <2> HIDE DEF h, r
  <2>3. QED
    BY <2>1, <2>2
<1>2. heads \in HeaderLists(f)
  BY BlockHeadersTyped
<1>3. m \in Nat \ {0} /\ l \in 1 .. Len(f) /\ f[l].kind = "head"
  <2>1. heads \in Seq(1 .. Len(f)) /\ \A k \in 1 .. Len(heads) : f[heads[k]].kind = "head"
    BY <1>2 DEF HeaderLists
  <2> HIDE DEF heads
  <2>2. m \in Nat \ {0} /\ m \in 1 .. m
    BY <1>1, <2>1
  <2>3. QED
    BY <2>1, <2>2
<1>4. f[l] \in HeadItems
  <2>1. f[l] \in Items
    BY <1>3
  <2> HIDE DEF l
  <2>2. QED
    BY <1>3, <2>1 DEF Items, HeadItems, EventItems, TornItems
<1>5. total \in Nat
  BY <1>2, EventCountNat
<1> HIDE DEF heads, m, l, total
<1>6. f[l].size \in Nat /\ f[l].words = EV_HDSIZ
  BY <1>4 DEF HeadItems
<1>7. num \in Nat \ {0}
  BY <1>3
<1>8. pos \in Nat
  <2>1. Ends(f)[l] = Ends(f)[l-1] + EV_HDSIZ /\ Ends(f)[l-1] \in Nat
    <3>1. Len(f) \in Nat /\ l - 1 \in 0 .. Len(f)
      BY <1>3
    <3>2. QED
      BY <1>3, <1>6, <3>1, EndsDef
  <2>2. QED
    BY <1>6, <2>1 DEF AppendAt, EV_HDSIZ
<1>9. evs \in Nat
  BY <1>5
<1>10. g \in Seq(Items)
  <2> DEFINE y == [f[l] EXCEPT !.last = FALSE]
  <2>1. y \in Items
    BY <1>4 DEF Items, HeadItems
  <2>2. g = [f EXCEPT ![l] = y]
    OBVIOUS
  <2> HIDE DEF y, g
  <2>3. QED
    BY <1>3, <2>1, <2>2
<1> HIDE DEF num, pos, evs, g
<1>11. e \in HeadItems /\ e \in Items /\ e.last /\ e.size = EV_HDSIZ /\ e.words = EV_HDSIZ
  BY <1>7, EmptyLastItem
<1> HIDE DEF e
<1>12. b \in Seq(Items) /\ Len(b) = 1 /\ b[1] = e /\ Words(b) = EV_HDSIZ
  BY <1>11, WordsOne
<1> HIDE DEF b
<1>13. r.f \in Seq(Items)
  BY <1>1, <1>8, <1>10, <1>12, WriteAtTyped
<1>14. HandleOK(i) /\ Unused(i)
  <2>1. "file" \in {"file", "pipe"} /\ 1 \in 0 .. 2 /\ FALSE \in BOOLEAN
    OBVIOUS
  <2>2. QED
    BY <2>1, StructInitOK
<1>15. /\ i.rw = "file" /\ i.append = 1 /\ i.splitting = FALSE /\ i.cur = 1 /\ i.blksiz = EV_HDSIZ
       /\ i.wordsToBuf = EV_HDSIZ /\ i.bufSize = EV_BLOCKSIZE_V4
       /\ i.bufRealSize = EV_BLOCKSIZE_V4 /\ i.wordsToFile = 0
  BY DEF structInit
<1>16. i \in Handles
  BY <1>14 DEF HandleOK
<1> HIDE DEF i
<1>17. h \in Handles
  <2>1. 0 \in Int /\ TRUE \in BOOLEAN /\ b \in Seq(Items) /\ num \in Nat \ {0} /\ pos \in Nat
        /\ total \in Nat /\ evs \in Nat
    BY <1>5, <1>7, <1>8, <1>9, <1>12
  <2>2. QED
    BY <1>16, <2>1 DEF Handles
<1>18. /\ h.buf = b /\ h.cur = 1 /\ h.blksiz = EV_HDSIZ /\ h.wordsToBuf = EV_HDSIZ
       /\ h.bufSize = EV_BLOCKSIZE_V4 /\ h.bufRealSize = EV_BLOCKSIZE_V4
       /\ h.splitting = FALSE /\ h.rw = "file" /\ h.fileName = 0 /\ h.wordsToFile = 0
  BY <1>15, <1>16 DEF Handles
<1> HIDE DEF h, r
<1>19. Buffered(h) /\ Roomy(h) /\ Unused(h)
  <2>1. Buffered(h) /\ Len(h.buf) = 1
    <3>1. num \in Nat
      BY <1>7
    <3>2. QED
      BY <1>18, <3>1, EmptyBuffer DEF b, e
  <2>2. Roomy(h)
    BY <1>18, SizesAssumption DEF Roomy
  <2>3. QED
    BY <1>18, <2>1, <2>2 DEF Unused
<1>20. Filed(h)
  <2>1. NameOf(h) \in Names
    BY <1>18, SizesAssumption DEF NameOf, Names
  <2>2. QED
    BY <1>18, <2>1 DEF Filed
<1>21. QED
  BY <1>1, <1>13, <1>17, <1>19, <1>20 DEF HandleOK, r

-----------------------------------------------------------------------------
(* The steps.                                                              *)

\* What a step leaves to be shown of the invariant.
LEMMA InvFrom ==
  ASSUME FileInv, disk' \in Disks,
         opens' \in 0 .. MaxOpens, ioctls' \in 0 .. MaxIoctls, events' \in 0 .. MaxEvents,
         broken' \subseteq Names,
         a' = Closed \/ (HandleOK(a') /\ Unused(a'))
  PROVE  FileInv'
BY DEF FileInv, Opened

LEMMA OpenWriteStep ==
  ASSUME FileInv, NEW rw \in {"file", "pipe"}, NEW splitting \in BOOLEAN,
         splitting => rw = "file", evOpen_w(rw, splitting)
  PROVE  FileInv'
<1>1. HandleOK(a') /\ Unused(a')
  <2>1. a' = structInit(rw, 0, splitting) /\ 0 \in 0 .. 2
    BY DEF evOpen_w
  <2>2. QED
    BY <2>1, StructInitOK
<1>2. /\ opens' = opens + 1 /\ opens < MaxOpens /\ disk' = disk
      /\ ioctls' = ioctls /\ events' = events /\ broken' = broken
  BY DEF evOpen_w, CanOpen
<1>3. opens' \in 0 .. MaxOpens
  BY <1>2, SizesAssumption DEF FileInv
<1>4. QED
  BY <1>1, <1>2, <1>3, InvFrom DEF FileInv

LEMMA OpenAppendStep ==
  ASSUME FileInv, evOpen_a
  PROVE  FileInv'
<1> DEFINE r == toAppendPosition(disk[0])
<1>1. /\ opens' = opens + 1 /\ opens < MaxOpens /\ disk[0] # Absent
      /\ ioctls' = ioctls /\ events' = events /\ broken' = broken /\ a = Closed
      /\ IF r.ok THEN a' = r.h /\ disk' = [disk EXCEPT ![0] = r.f]
                 ELSE a' = a /\ disk' = disk
  BY DEF evOpen_a, CanOpen, Opened
<1>2. opens' \in 0 .. MaxOpens
  BY <1>1, SizesAssumption DEF FileInv
<1>3. 0 \in Names /\ disk \in Disks /\ disk[0] \in Seq(Items)
  BY <1>1, SizesAssumption DEF FileInv, Names, Disks
<1>4. disk' \in Disks /\ (a' = Closed \/ (HandleOK(a') /\ Unused(a')))
  <2>1. CASE r.ok
    <3>1. HandleOK(r.h) /\ Unused(r.h) /\ r.f \in Seq(Items)
      BY <1>3, <2>1, AppendOK
    <3> HIDE DEF r
    <3>2. [disk EXCEPT ![0] = r.f] \in Disks
      BY <1>3, <3>1, DiskTyped
    <3>3. QED
      BY <1>1, <2>1, <3>1, <3>2
  <2>2. CASE ~r.ok
    BY <1>1, <1>3, <2>2
  <2>3. QED
    BY <2>1, <2>2
<1>5. QED
  BY <1>1, <1>2, <1>4, InvFrom DEF FileInv

\* Before the first event the buffer holds the last empty header.
LEMMA TuneEmpty ==
  ASSUME FileInv, CanTune
  PROVE  /\ HandleOK(a) /\ Unused(a) /\ a \in Handles
         /\ Len(a.buf) = 1 /\ a.cur = 1 /\ a.blksiz = EV_HDSIZ /\ a.wordsToBuf = EV_HDSIZ
         /\ ioctls' \in 0 .. MaxIoctls
<1>1. HandleOK(a) /\ Unused(a) /\ a \in Handles /\ Buffered(a)
  BY DEF FileInv, CanTune, HandleOK
<1>2. Len(a.buf) = 1
  BY <1>1 DEF CanTune, NothingWritten, Unused
<1>3. a.cur = 1 /\ a.blksiz = EV_HDSIZ /\ a.buf[1] \in HeadItems
  BY <1>1, <1>2 DEF Buffered
<1>4. a.wordsToBuf = EV_HDSIZ
  <2>1. a.buf \in Seq(Items)
    BY <1>1 DEF Handles
  <2>2. a.buf = <<a.buf[1]>> /\ a.buf[1] \in Items
    BY <1>2, <2>1
  <2>3. Words(a.buf) = a.buf[1].words /\ a.buf[1].words = EV_HDSIZ
    BY <1>3, <2>2, WordsOne DEF HeadItems
  <2>4. a.wordsToBuf = Words(a.buf) + 0
    BY <1>1, <1>2 DEF Buffered
  <2>5. QED
    BY <2>3, <2>4 DEF EV_HDSIZ
<1>5. ioctls' \in 0 .. MaxIoctls
  BY SizesAssumption DEF FileInv, CanTune
<1>6. QED
  BY <1>1, <1>2, <1>3, <1>4, <1>5

\* A handle whose sizes were set and whose buffer was perhaps made anew.
LEMMA TunedOK ==
  ASSUME FileInv, CanTune, NEW h \in Handles,
         h.bufSize >= EV_HDSIZ, h.bufSize <= h.bufRealSize,
         h.buf \in {a.buf, <<EmptyLast(1)>>}, h.cur = a.cur, h.blksiz = a.blksiz,
         h.wordsToBuf = a.wordsToBuf, h.append = a.append, h.rw = a.rw,
         h.splitting = a.splitting, h.fileName = a.fileName,
         h.splitNumber = a.splitNumber, h.wordsToFile = a.wordsToFile,
         h.pending = a.pending
  PROVE  HandleOK(h) /\ Unused(h)
<1>1. /\ HandleOK(a) /\ Unused(a) /\ a.cur = 1 /\ a.blksiz = EV_HDSIZ
      /\ a.wordsToBuf = EV_HDSIZ /\ Len(a.buf) = 1
  BY TuneEmpty
<1>2. Buffered(h) /\ Len(h.buf) = 1
  <2>1. CASE h.buf = a.buf
    BY <1>1, <2>1 DEF HandleOK, Buffered
  <2>2. CASE h.buf = <<EmptyLast(1)>>
    BY <1>1, <2>2, EmptyBuffer
  <2>3. QED
    BY <2>1, <2>2
<1>3. Roomy(h)
  BY <1>1 DEF Roomy, Handles, EV_HDSIZ
<1>4. Filed(h)
  BY <1>1 DEF HandleOK, Filed, NameOf
<1>5. Unused(h)
  BY <1>1, <1>2 DEF Unused
<1>6. QED
  BY <1>2, <1>3, <1>4, <1>5 DEF HandleOK

LEMMA TargetStep ==
  ASSUME FileInv, NEW n \in Targets, evIoctl_B(n)
  PROVE  FileInv'
<1> DEFINE m == n + EV_HDSIZ
           grows == m > a.bufRealSize
           b == IF grows THEN <<EmptyLast(1)>> ELSE a.buf
           real == IF grows THEN m ELSE a.bufRealSize
           size == IF m > a.bufSize THEN m ELSE a.bufSize
           h == [a EXCEPT !.blkSizeTarget = n, !.buf = b, !.bufRealSize = real,
                          !.bufSize = size]
<1>1. /\ CanTune /\ a' = h /\ disk' = disk
      /\ opens' = opens /\ events' = events /\ broken' = broken
  BY DEF evIoctl_B
<1>2. /\ a \in Handles /\ HandleOK(a) /\ ioctls' \in 0 .. MaxIoctls
      /\ a.wordsToBuf = EV_HDSIZ
  BY <1>1, TuneEmpty
<1>3. /\ n \in Nat /\ m \in Nat /\ a.bufSize \in Nat /\ a.bufRealSize \in Nat
      /\ a.bufSize <= a.bufRealSize /\ a.bufSize >= EV_HDSIZ
  <2>1. n \in Nat
    BY SizesAssumption
  <2>2. a.bufSize \in Nat /\ a.bufRealSize \in Nat
    BY <1>2 DEF Handles
  <2>3. EV_HDSIZ <= a.bufSize /\ a.bufSize <= a.bufRealSize
    BY <1>2 DEF HandleOK, Roomy
  <2>4. QED
    BY <2>1, <2>2, <2>3 DEF EV_HDSIZ
<1>4. real \in Nat /\ size \in Nat /\ size <= real /\ size >= EV_HDSIZ
  BY <1>3 DEF EV_HDSIZ
<1>5. b \in {a.buf, <<EmptyLast(1)>>} /\ b \in Seq(Items)
  <2>1. <<EmptyLast(1)>> \in Seq(Items)
    <3>1. EmptyLast(1) \in Items
      BY EmptyLastItem
    <3>2. QED
      BY <3>1
  <2>2. QED
    BY <1>2, <2>1 DEF Handles
<1> HIDE DEF b, real, size
<1>6. /\ h \in Handles /\ h.buf = b /\ h.bufRealSize = real /\ h.bufSize = size
      /\ h.cur = a.cur /\ h.blksiz = a.blksiz
      /\ h.wordsToBuf = a.wordsToBuf /\ h.append = a.append /\ h.rw = a.rw
      /\ h.splitting = a.splitting /\ h.fileName = a.fileName
      /\ h.splitNumber = a.splitNumber /\ h.wordsToFile = a.wordsToFile
      /\ h.pending = a.pending
  BY <1>2, <1>3, <1>4, <1>5 DEF Handles
<1> HIDE DEF h
<1>7. HandleOK(h) /\ Unused(h)
  BY <1>1, <1>4, <1>5, <1>6, TunedOK
<1>8. QED
  BY <1>1, <1>2, <1>7, InvFrom DEF FileInv

LEMMA BufferStep ==
  ASSUME FileInv, NEW n \in Buffers, evIoctl_W(n)
  PROVE  FileInv'
<1> DEFINE grows == n > a.bufRealSize
           b == IF grows THEN <<EmptyLast(1)>> ELSE a.buf
           real == IF grows THEN n ELSE a.bufRealSize
           h == [a EXCEPT !.bufSize = n, !.buf = b, !.bufRealSize = real]
<1>1. /\ CanTune /\ a' = h /\ disk' = disk /\ n >= a.blkSizeTarget + EV_HDSIZ
      /\ opens' = opens /\ events' = events /\ broken' = broken
  BY DEF evIoctl_W
<1>2. /\ a \in Handles /\ HandleOK(a) /\ ioctls' \in 0 .. MaxIoctls
  BY <1>1, TuneEmpty
<1>3. n \in Nat /\ a.bufRealSize \in Nat /\ a.blkSizeTarget \in Nat
  BY <1>2, SizesAssumption DEF Handles
<1>4. real \in Nat /\ n <= real /\ n >= EV_HDSIZ
  BY <1>1, <1>3 DEF EV_HDSIZ
<1>5. b \in {a.buf, <<EmptyLast(1)>>} /\ b \in Seq(Items)
  <2>1. <<EmptyLast(1)>> \in Seq(Items)
    <3>1. EmptyLast(1) \in Items
      BY EmptyLastItem
    <3>2. QED
      BY <3>1
  <2>2. QED
    BY <1>2, <2>1 DEF Handles
<1> HIDE DEF b, real
<1>6. /\ h \in Handles /\ h.buf = b /\ h.bufRealSize = real /\ h.bufSize = n
      /\ h.cur = a.cur /\ h.blksiz = a.blksiz
      /\ h.wordsToBuf = a.wordsToBuf /\ h.append = a.append /\ h.rw = a.rw
      /\ h.splitting = a.splitting /\ h.fileName = a.fileName
      /\ h.splitNumber = a.splitNumber /\ h.wordsToFile = a.wordsToFile
      /\ h.pending = a.pending
  BY <1>2, <1>3, <1>4, <1>5 DEF Handles
<1> HIDE DEF h
<1>7. HandleOK(h) /\ Unused(h)
  BY <1>1, <1>4, <1>5, <1>6, TunedOK
<1>8. QED
  BY <1>1, <1>2, <1>7, InvFrom DEF FileInv

LEMMA EventMaxStep ==
  ASSUME FileInv, NEW n \in EventMaxima, evIoctl_N(n)
  PROVE  FileInv'
<1> DEFINE h == [a EXCEPT !.blkEvMax = n]
<1>1. /\ CanTune /\ a' = h /\ disk' = disk
      /\ opens' = opens /\ events' = events /\ broken' = broken
  BY DEF evIoctl_N
<1>2. /\ a \in Handles /\ HandleOK(a) /\ Unused(a) /\ ioctls' \in 0 .. MaxIoctls
  BY <1>1, TuneEmpty
<1>3. h \in Handles /\ SameBuffer(h, a) /\ SameFile(h, a) /\ h.blknum = a.blknum
  <2>1. n \in Nat
    BY SizesAssumption
  <2>2. QED
    BY <1>2, <2>1 DEF Handles, SameBuffer, SameFile
<1> HIDE DEF h
<1>4. HandleOK(h) /\ Unused(h)
  BY <1>2, <1>3, BufferedSame, FiledSame DEF HandleOK
<1>5. QED
  BY <1>1, <1>2, <1>4, InvFrom DEF FileInv

LEMMA SplitSizeStep ==
  ASSUME FileInv, NEW n \in Splits, evIoctl_S(n)
  PROVE  FileInv'
<1> DEFINE h == [a EXCEPT !.split = n]
<1>1. /\ CanTune /\ a' = h /\ disk' = disk
      /\ opens' = opens /\ events' = events /\ broken' = broken
  BY DEF evIoctl_S
<1>2. /\ a \in Handles /\ HandleOK(a) /\ Unused(a) /\ ioctls' \in 0 .. MaxIoctls
  BY <1>1, TuneEmpty
<1>3. h \in Handles /\ SameBuffer(h, a) /\ SameFile(h, a) /\ h.blknum = a.blknum
  <2>1. n \in Nat
    BY SizesAssumption
  <2>2. QED
    BY <1>2, <2>1 DEF Handles, SameBuffer, SameFile
<1> HIDE DEF h
<1>4. HandleOK(h) /\ Unused(h)
  BY <1>2, <1>3, BufferedSame, FiledSame DEF HandleOK
<1>5. QED
  BY <1>1, <1>2, <1>4, InvFrom DEF FileInv

\* The dictionary is the first thing in the buffer, which is made larger for it.
LEMMA DictionaryStep ==
  ASSUME FileInv, NEW n \in DictSizes, evWriteDictionary(n)
  PROVE  FileInv'
<1> DEFINE size == n + 2 * EV_HDSIZ
           x    == expandBuffer(a, size)
           fits == IF a.bufSize < size THEN resetBuffer(x) ELSE a
           h    == [fits EXCEPT !.dict = n]
           d    == Event(Dictionary, n)
           w    == writeEventToBuffer(h, d, TRUE)
           r    == [w EXCEPT !.commonBlkCount = w.commonBlkCount + 1]
<1>1. /\ Opened /\ a.append = 0 /\ a.blknum = 1 /\ a' = r /\ disk' = disk
      /\ opens' = opens /\ ioctls' = ioctls /\ events' = events
      /\ broken' \subseteq broken
  BY DEF evWriteDictionary
<1>2. HandleOK(a) /\ Unused(a) /\ a \in Handles
  BY <1>1 DEF FileInv, HandleOK
<1>3. /\ n \in Nat /\ size \in Nat /\ size >= EV_HDSIZ /\ a.bufSize \in Nat
      /\ a.bufSize <= a.bufRealSize
  <2>1. n \in Nat
    BY SizesAssumption
  <2>2. a.bufSize \in Nat /\ a.bufSize <= a.bufRealSize
    BY <1>2 DEF Handles, HandleOK, Roomy
  <2>3. QED
    BY <2>1, <2>2 DEF EV_HDSIZ
<1>4. /\ HandleOK(fits) /\ Len(fits.buf) = 1 /\ fits.bufSize >= size
      /\ fits.append = 0 /\ fits.blknum = 1 /\ fits.splitting = a.splitting
  <2>1. CASE a.bufSize < size
    <3> HIDE DEF size
    <3>1. /\ x \in Handles /\ x.bufSize >= size /\ x.bufSize <= x.bufRealSize /\ Filed(x)
          /\ x.append = 0 /\ x.blknum = 1 /\ x.splitting = a.splitting
      BY <1>1, <1>2, <1>3, ExpandOK DEF HandleOK
    <3> HIDE DEF x
    <3>2. x.bufSize \in Nat
      BY <3>1 DEF Handles
    <3>3. EV_HDSIZ <= x.bufSize
      BY <1>3, <3>1, <3>2 DEF EV_HDSIZ
    <3>4. fits = resetBuffer(x)
      BY <2>1
    <3> HIDE DEF fits
    <3>5. QED
      BY <3>1, <3>3, <3>4, ResetOK
  <2>2. CASE ~(a.bufSize < size)
    <3>1. Len(a.buf) = 1
      BY <1>1, <1>2 DEF Unused
    <3> HIDE DEF size
    <3>2. QED
      BY <1>1, <1>2, <1>3, <2>2, <3>1
  <2>3. QED
    BY <2>1, <2>2
<1> HIDE DEF fits
<1>5. /\ h \in Handles /\ h.buf = fits.buf /\ h.cur = fits.cur /\ h.blksiz = fits.blksiz
      /\ h.blknum = 1 /\ h.append = 0 /\ h.wordsToBuf = fits.wordsToBuf
      /\ h.bufSize = fits.bufSize /\ h.bufRealSize = fits.bufRealSize
      /\ h.splitting = fits.splitting /\ h.rw = fits.rw /\ h.fileName = fits.fileName
      /\ h.splitNumber = fits.splitNumber /\ h.wordsToFile = fits.wordsToFile
      /\ h.pending = fits.pending
  BY <1>3, <1>4, ZenonT(30) DEF HandleOK, Handles
<1> HIDE DEF h
<1>6. Ready(h) /\ h.wordsToBuf = EV_HDSIZ
  <2>1. Buffered(fits) /\ fits \in Handles
    BY <1>4 DEF HandleOK
  <2>2. fits.cur = 1 /\ fits.buf[1] \in HeadItems /\ fits.buf[1].last
        /\ fits.wordsToBuf = Words(fits.buf) + 0
    BY <1>4, <2>1 DEF Buffered
  <2>3. Words(fits.buf) = EV_HDSIZ
    <3>1. fits.buf \in Seq(Items)
      BY <2>1 DEF Handles
    <3>2. fits.buf = <<fits.buf[1]>> /\ fits.buf[1] \in Items
      BY <1>4, <3>1
    <3>3. QED
      BY <2>2, <3>2, WordsOne DEF HeadItems
  <2>4. fits.buf[fits.cur].size = fits.blksiz
    BY <2>1 DEF Buffered
  <2>5. 1 \in 1 .. Len(fits.buf)
    BY <1>4
  <2>6. QED
    BY <1>5, <2>2, <2>3, <2>4, <2>5 DEF Ready, EV_HDSIZ
<1>7. d \in EventItems /\ d.words = n
  BY <1>3, DictionaryItem
<1> HIDE DEF d
<1>8. /\ w \in Handles /\ Buffered(w) /\ Unused(w) /\ SameFile(w, h)
      /\ w.wordsToBuf = h.wordsToBuf + n + EV_HDSIZ
  BY <1>5, <1>6, <1>7, WriteEventOK
<1> HIDE DEF w
<1>9. /\ r \in Handles /\ SameBuffer(r, w) /\ SameFile(r, w) /\ r.blknum = w.blknum
  <2> DEFINE c == w.commonBlkCount + 1
  <2>1. c \in Nat
    <3>1. w.commonBlkCount \in Nat
      BY <1>8 DEF Handles
    <3>2. QED
      BY <3>1
  <2> HIDE DEF c
  <2>2. [w EXCEPT !.commonBlkCount = c] \in Handles
    BY <1>8, <2>1 DEF Handles
  <2>3. QED
    BY <1>8, <2>2 DEF Handles, SameBuffer, SameFile, c
<1>10. Roomy(w)
  <2>1. w.wordsToBuf = size
    BY <1>3, <1>6, <1>8 DEF EV_HDSIZ
  <2>2. w.bufSize = fits.bufSize /\ w.bufRealSize = fits.bufRealSize
    BY <1>5, <1>8 DEF SameFile
  <2>3. fits.bufSize \in Nat /\ fits.bufSize <= fits.bufRealSize
    BY <1>4 DEF HandleOK, Handles, Roomy
  <2> HIDE DEF size
  <2>4. QED
    BY <1>3, <1>4, <2>1, <2>2, <2>3 DEF Roomy
<1>11. Filed(w)
  <2>1. Filed(fits)
    BY <1>4 DEF HandleOK
  <2>2. QED
    BY <1>5, <1>8, <2>1 DEF SameFile, Filed, NameOf
<1> HIDE DEF r
<1>12. HandleOK(r) /\ Unused(r)
  BY <1>8, <1>9, <1>10, <1>11, BufferedSame, FiledSame DEF HandleOK
<1>13. QED
  BY <1>1, <1>12, InvFrom DEF FileInv

\* Writing an event with the handle a, or with a after the first event was set.
LEMMA WriteStep ==
  ASSUME FileInv, WithinBounds, NEW h \in Handles, NEW e \in EventItems,
         SameBuffer(h, [a EXCEPT !.first = h.first]), SameFile(h, [a EXCEPT !.first = h.first]),
         h.blknum = a.blknum, Write(h, e)
  PROVE  FileInv'
<1> DEFINE s  == [h |-> h, d |-> disk, ok |-> TRUE]
           t  == evWriteImpl(s, e)
           g  == t.h
           wf == g.wroteFirstEvent \/ e.id = FirstEvent
           cc == IF e.id = FirstEvent THEN g.commonBlkCount + 1 ELSE g.commonBlkCount
           r  == [g EXCEPT !.wroteFirstEvent = wf, !.commonBlkCount = cc]
<1>1. /\ disk' = t.d /\ a' = r /\ events' = events + 1 /\ opens' = opens /\ ioctls' = ioctls
      /\ broken' \subseteq broken
  BY DEF Write
<1>2. /\ Opened /\ events < MaxEvents /\ (a.splitting => a.splitNumber < MaxFiles)
      /\ HandleOK(a) /\ Unused(a) /\ a \in Handles /\ disk \in Disks
  BY DEF WithinBounds, FileInv, HandleOK
<1>3. HandleOK(h) /\ Unused(h) /\ (h.splitting => h.splitNumber < MaxFiles)
  <2> DEFINE b == [a EXCEPT !.first = h.first]
  <2>1. /\ b.buf = a.buf /\ b.cur = a.cur /\ b.blksiz = a.blksiz
        /\ b.wordsToBuf = a.wordsToBuf /\ b.append = a.append
        /\ b.bufSize = a.bufSize /\ b.bufRealSize = a.bufRealSize
        /\ b.rw = a.rw /\ b.splitting = a.splitting /\ b.fileName = a.fileName
        /\ b.splitNumber = a.splitNumber /\ b.wordsToFile = a.wordsToFile
        /\ b.pending = a.pending /\ b.blknum = a.blknum
    BY <1>2 DEF Handles
  <2> HIDE DEF b
  <2>2. Buffered(b) /\ Roomy(b) /\ Unused(b) /\ Filed(b)
    BY <1>2, <2>1 DEF HandleOK, Buffered, Roomy, Unused, Filed, NameOf
  <2>3. SameBuffer(h, b) /\ SameFile(h, b) /\ h.blknum = b.blknum
    BY <2>1 DEF b
  <2>4. QED
    BY <1>2, <2>1, <2>2, <2>3, BufferedSame, FiledSame DEF HandleOK, SameFile
<1>4. s \in Works /\ s.h = h /\ s.ok = TRUE
  BY <1>2 DEF Works
<1> HIDE DEF s
<1>5. t \in Works /\ HandleOK(g) /\ Unused(g)
  BY <1>3, <1>4, WriteImplOK
<1> HIDE DEF t
<1>6. g \in Handles /\ t.d \in Disks
  BY <1>5 DEF Works
<1> HIDE DEF g
<1>7. wf \in BOOLEAN /\ cc \in Nat
  <2>1. g.wroteFirstEvent \in BOOLEAN /\ g.commonBlkCount \in Nat
    BY <1>6 DEF Handles
  <2>2. QED
    BY <2>1
<1> HIDE DEF wf, cc
<1>8. r \in Handles /\ SameBuffer(r, g) /\ SameFile(r, g) /\ r.blknum = g.blknum
  BY <1>6, <1>7 DEF Handles, SameBuffer, SameFile
<1> HIDE DEF r
<1>9. HandleOK(r) /\ Unused(r)
  BY <1>5, <1>8, BufferedSame, FiledSame DEF HandleOK
<1>10. events' \in 0 .. MaxEvents
  BY <1>1, <1>2, SizesAssumption DEF FileInv
<1>11. QED
  BY <1>1, <1>6, <1>9, <1>10, InvFrom DEF FileInv

LEMMA EventStep ==
  ASSUME FileInv, NEW n \in EventSizes, evWrite(n)
  PROVE  FileInv'
<1> DEFINE e == Event(events + 1, n)
<1>1. WithinBounds /\ Write(a, e)
  BY DEF evWrite
<1>2. a \in Handles
  BY <1>1 DEF WithinBounds, FileInv, HandleOK
<1>3. e \in EventItems
  BY SizesAssumption DEF FileInv, Event, EventItems
<1>4. [a EXCEPT !.first = a.first] = a
  BY <1>2 DEF Handles
<1> HIDE DEF e
<1>5. SameBuffer(a, a) /\ SameFile(a, a)
  BY DEF SameBuffer, SameFile
<1>6. QED
  BY <1>1, <1>2, <1>3, <1>4, <1>5, WriteStep

LEMMA FirstEventStep ==
  ASSUME FileInv, NEW n \in FirstSizes, evWriteFirstEvent(n)
  PROVE  FileInv'
<1> DEFINE e == Event(FirstEvent, n)
           one == <<e>>
           h == [a EXCEPT !.first = one]
<1>1. WithinBounds /\ Write(h, e)
  BY DEF evWriteFirstEvent
<1>2. a \in Handles
  BY <1>1 DEF WithinBounds, FileInv, HandleOK
<1>3. e \in EventItems
  BY SizesAssumption DEF Event, EventItems, FirstEvent
<1>4. one \in FirstEvents
  BY <1>3 DEF FirstEvents
<1> HIDE DEF e, one
<1>5. h \in Handles /\ h.first = one /\ h.blknum = a.blknum
  BY <1>2, <1>4 DEF Handles
<1>6. [a EXCEPT !.first = h.first] = h
  BY <1>5
<1> HIDE DEF h
<1>7. SameBuffer(h, h) /\ SameFile(h, h)
  BY DEF SameBuffer, SameFile
<1>8. QED
  BY <1>1, <1>3, <1>5, <1>6, <1>7, WriteStep

\* The buffer is flushed, and the stream closed, or the pipe given its end.
LEMMA CloseStep ==
  ASSUME FileInv, evClose
  PROVE  FileInv'
<1> DEFINE s == [h |-> a, d |-> disk, ok |-> TRUE]
           t == evFlush(s)
           last == Append(Content(t.d[Pipe]), EmptyLast(a.blknum))
<1>1. /\ Opened /\ a' = Closed
      /\ disk' = IF a.rw = "pipe" THEN [t.d EXCEPT ![Pipe] = last] ELSE Synced(t.h, t.d)
      /\ opens' = opens /\ ioctls' = ioctls /\ events' = events /\ broken' = broken
  BY DEF evClose
<1>2. HandleOK(a) /\ a \in Handles /\ disk \in Disks
  BY <1>1 DEF FileInv, HandleOK
<1>3. s \in Works /\ s.h = a
  BY <1>2 DEF Works
<1> HIDE DEF s
<1>4. t \in Works /\ Filed(t.h)
  BY <1>2, <1>3, FlushOK
<1> HIDE DEF t
<1>5. t.d \in Disks /\ t.h \in Handles
  BY <1>4 DEF Works
<1>6. [t.d EXCEPT ![Pipe] = last] \in Disks
  <2>1. Pipe \in Names
    BY SizesAssumption DEF Pipe, Names
  <2>2. Content(t.d[Pipe]) \in Seq(Items)
    BY <1>5, <2>1, DiskTyped
  <2>3. EmptyLast(a.blknum) \in Items
    BY <1>2, EmptyLastItem DEF Handles
  <2>4. last \in Seq(Items)
    BY <2>2, <2>3
  <2> HIDE DEF last
  <2>5. QED
    BY <1>5, <2>1, <2>4, DiskTyped
<1>7. Synced(t.h, t.d) \in Disks
  <2>1. t.h.pos \in Nat /\ t.h.pending \in Seq(Items)
    BY <1>5 DEF Handles
  <2>2. NameOf(t.h) \in Names
    BY <1>4 DEF Filed
  <2>3. QED
    BY <1>5, <2>1, <2>2, SyncedTyped
<1> HIDE DEF last
<1>8. disk' \in Disks
  BY <1>1, <1>6, <1>7
<1>9. QED
  BY <1>1, <1>8, InvFrom DEF FileInv

\* A crash leaves the stream's words on the disk up to some place.
LEMMA CrashStep ==
  ASSUME FileInv, Crash
  PROVE  FileInv'
<1>1. PICK n \in {0} \cup EV_HDSIZ .. Words(a.pending) :
          disk' = Synced([a EXCEPT !.pending = Cut(@, n)], disk)
  BY DEF Crash
<1>2. /\ Opened /\ a' = Closed /\ broken' = broken \cup {NameOf(a)}
      /\ opens' = opens /\ ioctls' = ioctls /\ events' = events
  BY DEF Crash
<1>3. HandleOK(a) /\ a \in Handles /\ disk \in Disks /\ Filed(a)
  BY <1>2 DEF FileInv, HandleOK
<1>4. a.pending \in Seq(Items) /\ a.pos \in Nat /\ NameOf(a) \in Names
  BY <1>3 DEF Handles, Filed
<1>5. n \in Nat
  BY <1>4, WordsNat DEF EV_HDSIZ
<1> DEFINE p == Cut(a.pending, n)
           h == [a EXCEPT !.pending = p]
<1>6. p \in Seq(Items)
  BY <1>4, <1>5, CutProperties
<1>7. disk' = Synced(h, disk)
  BY <1>1
<1> HIDE DEF p
<1>8. h.pending = p /\ h.pos = a.pos /\ h.rw = a.rw /\ h.fileName = a.fileName
      /\ h.splitNumber = a.splitNumber
  BY <1>3 DEF Handles
<1> HIDE DEF h
<1>9. NameOf(h) = NameOf(a)
  BY <1>8 DEF NameOf
<1>10. disk' \in Disks
  BY <1>3, <1>4, <1>6, <1>7, <1>8, <1>9, SyncedTyped
<1>11. QED
  BY <1>2, <1>4, <1>10, InvFrom DEF FileInv

LEMMA InitInv == Init => FileInv
<1> SUFFICES ASSUME Init PROVE FileInv
  OBVIOUS
<1>1. disk \in Disks
  BY ForeignAssumption DEF Init, Disks
<1>2. QED
  BY <1>1, SizesAssumption DEF Init, FileInv, Opened

\* No step leaves the invariant.
LEMMA NextInv == FileInv /\ [Next]_vars => FileInv'
<1> SUFFICES ASSUME FileInv, [Next]_vars PROVE FileInv'
  OBVIOUS
<1>1. CASE UNCHANGED vars
  BY <1>1 DEF vars, FileInv, Opened, HandleOK, Buffered, Roomy, Filed, Unused, NameOf
<1>2. ASSUME NEW splitting \in BOOLEAN, evOpen_w("file", splitting) PROVE FileInv'
  BY <1>2, OpenWriteStep
<1>3. CASE evOpen_w("pipe", FALSE)
  BY <1>3, OpenWriteStep
<1>4. CASE evOpen_a
  BY <1>4, OpenAppendStep
<1>5. ASSUME NEW n \in Targets, evIoctl_B(n) PROVE FileInv'
  BY <1>5, TargetStep
<1>6. ASSUME NEW n \in Buffers, evIoctl_W(n) PROVE FileInv'
  BY <1>6, BufferStep
<1>7. ASSUME NEW n \in EventMaxima, evIoctl_N(n) PROVE FileInv'
  BY <1>7, EventMaxStep
<1>8. ASSUME NEW n \in Splits, evIoctl_S(n) PROVE FileInv'
  BY <1>8, SplitSizeStep
<1>9. ASSUME NEW n \in DictSizes, evWriteDictionary(n) PROVE FileInv'
  BY <1>9, DictionaryStep
<1>10. ASSUME NEW n \in EventSizes, evWrite(n) PROVE FileInv'
  BY <1>10, EventStep
<1>11. ASSUME NEW n \in FirstSizes, evWriteFirstEvent(n) PROVE FileInv'
  BY <1>11, FirstEventStep
<1>12. CASE evClose
  BY <1>12, CloseStep
<1>13. CASE Crash
  BY <1>13, CrashStep
<1>14. QED
  BY <1>1, <1>2, <1>3, <1>4, <1>5, <1>6, <1>7, <1>8, <1>9, <1>10, <1>11, <1>12, <1>13 DEF Next

LEMMA InvTypeOK == FileInv => TypeOK
<1> SUFFICES ASSUME FileInv PROVE TypeOK
  OBVIOUS
<1>1. ASSUME NEW n \in Names
      PROVE  disk[n] = Absent \/ \A i \in 1 .. Len(disk[n]) :
                                    disk[n][i].kind \in {"head", "event", "torn"}
  <2>1. \A x \in Items : x.kind \in {"head", "event", "torn"}
    BY DEF Items, HeadItems, EventItems, TornItems
  <2>2. disk[n] = Absent \/ disk[n] \in Seq(Items)
    BY DiskTyped DEF FileInv
  <2>3. QED
    BY <2>1, <2>2
<1>2. ASSUME Opened
      PROVE  /\ a.rw \in {"file", "pipe"} /\ a.append \in 0 .. 2
             /\ a.cur \in 1 .. Len(a.buf) /\ a.buf[a.cur].kind = "head"
             /\ a.buf[a.cur].size = a.blksiz
             /\ a.wordsToBuf = Words(a.buf) + (IF Len(a.buf) = 1 \/ a.buf[1].last
                                               THEN 0 ELSE EV_HDSIZ)
             /\ a.wordsToBuf <= a.bufSize /\ a.bufSize <= a.bufRealSize
             /\ NameOf(a) \in Names
  <2>1. a \in Handles /\ Buffered(a) /\ Roomy(a) /\ Filed(a)
    BY <1>2 DEF FileInv, HandleOK
  <2>2. a.rw \in {"file", "pipe"} /\ a.append \in 0 .. 2
    BY <2>1 DEF Handles
  <2>3. a.buf[a.cur].kind = "head"
    BY <2>1 DEF Buffered, HeadItems
  <2>4. NameOf(a) \in Names
    BY <2>1 DEF Filed
  <2>5. QED
    BY <2>1, <2>2, <2>3, <2>4 DEF Buffered, Roomy
<1>3. QED
  BY <1>1, <1>2 DEF FileInv, TypeOK

\* The handle's counts are always those of its buffer, and the buffer never
\* holds more than it has room for: whatever sizes a program asks for with
\* evIoctl, whatever it writes, and whether evWriteImpl flushes, splits the
\* file, grows the buffer or repeats the common block, blksiz is the size in
\* the current header, bytesToBuf the words in the buffer with the last empty
\* header, and the file written to has a name of the series.
THEOREM TypeCorrect == Spec => []TypeOK
<1>1. Init => FileInv
  BY InitInv
<1>2. FileInv /\ [Next]_vars => FileInv'
  BY NextInv
<1>3. FileInv => TypeOK
  BY InvTypeOK
<1>4. QED
  BY <1>1, <1>2, <1>3, PTL DEF Spec
=============================================================================
