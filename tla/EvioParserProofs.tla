-------------------------- MODULE EvioParserProofs --------------------------
(***************************************************************************)
(* Proofs about EvioParser, for every set of well-formed events, every     *)
(* dictionary a program may book and every setting of the parser.          *)
(***************************************************************************)
EXTENDS EvioParser, TLAPS, SequenceTheorems, FiniteSetTheorems, WellFoundedInduction

\* A set of natural numbers that is not empty has a least element, and Min is it.
LEMMA MinIsLeast ==
  ASSUME NEW S \in SUBSET Nat, S # {}
  PROVE  Min(S) \in S /\ \A y \in S : Min(S) <= y
<1>1. \E x \in S : \A y \in S : ~ (<<y, x>> \in OpToRel(<, Nat))
  BY NatLessThanWellFounded, WFMin
<1>2. PICK x \in S : \A y \in S : ~ (<<y, x>> \in OpToRel(<, Nat))
  BY <1>1
<1>3. \A y \in S : ~(y < x)
  BY <1>2 DEF OpToRel
<1>4. \E z \in S : \A y \in S : z <= y
  BY <1>3
<1> QED
  BY <1>4 DEF Min

\* FirstOf finds the first element of a set of indices if there is one.
LEMMA FirstOfIs ==
  ASSUME NEW S \in SUBSET (Nat \ {0})
  PROVE  /\ FirstOf(S) = None <=> S = {}
         /\ S # {} => FirstOf(S) \in S /\ \A y \in S : FirstOf(S) <= y
  BY MinIsLeast DEF FirstOf, None

\* StoreLocation finds a free name, the plain one if it is free.
NameIsFree(b, base) ==
  /\ \A e \in name_index : ~(e.bank = b /\ e.name = <<base, Pluses(b, base)>>)
  /\ Pluses(b, base) = 0 \/ \E e \in name_index : e.bank = b /\ e.name = <<base, 0>>
LEMMA PlusesIsNew ==
  ASSUME IsFiniteSet(name_index), NEW b, NEW base
  PROVE  Pluses(b, base) \in Nat /\ NameIsFree(b, base)
<1> DEFINE N == Cardinality(name_index)
           Free == {k \in 0..N : \A e \in name_index : ~(e.bank = b /\ e.name = <<base, k>>)}
<1>1. N \in Nat
  BY FS_CardinalityType
<1>2. ASSUME Free = {} PROVE FALSE
  <2> DEFINE f == [k \in 0..N |-> CHOOSE e \in name_index : e.bank = b /\ e.name = <<base, k>>]
  <2>1. \A k \in 0..N : f[k] \in name_index /\ f[k].name = <<base, k>>
    BY <1>2
  <2>2. f \in [0..N -> name_index]
    BY <2>1
  <2>3. IsFiniteSet(0..N) /\ Cardinality(0..N) = N + 1
    BY <1>1, FS_Interval
  <2> HIDE DEF f
  <2>4. \E x, y \in 0..N : x # y /\ f[x] = f[y]
    BY <1>1, <2>2, <2>3, FS_PigeonHole
  <2> QED
    BY <2>1, <2>4
<1>3. Free \in SUBSET Nat
  BY <1>1
<1>4. 0 \in Free \/ \E e \in name_index : e.bank = b /\ e.name = <<base, 0>>
  BY <1>1
<1>5. Pluses(b, base) = Min(Free)
  BY DEF Pluses
<1> HIDE DEF Free
<1>6. Min(Free) \in Nat /\ Min(Free) \in Free /\ \A y \in Free : Min(Free) <= y
  BY <1>2, <1>3, MinIsLeast
<1>7. Pluses(b, base) = 0 \/ \E e \in name_index : e.bank = b /\ e.name = <<base, 0>>
  BY <1>4, <1>5, <1>6
<1> QED
  BY <1>5, <1>6, <1>7 DEF Free, NameIsFree

-----------------------------------------------------------------------------
(* The parser and the event stay in step.                                  *)

\* What the frames of a stack are.
Frames(cs) == cs \in Seq(FrameType)

\* A header the parser is at is a child of the container of its frame, with a
\* header of the size this container says, and NextSibling is the end of it.
LEMMA AtHeader ==
  ASSUME ParserAssumption, event \in Events, NEW cs, Frames(cs), Nested(cs),
         NEW k \in 1..Len(cs), cs[k].p < Limit(cs[k])
  PROVE  /\ cs[k].p \in DOMAIN event /\ event[cs[k].p] \in HeaderType
         /\ event[cs[k].p].up = cs[k].at
         /\ cs[k].at = Outside => k = 1 /\ cs[k].p = 0
         /\ cs[k].at # Outside => k > 1
         /\ event[cs[k].p].depth = k - 1
         /\ InType(event, cs[k].p) = cs[k].type
         /\ NextSibling(cs[k]) = EndOf(event, cs[k].p)
<1> DEFINE f == cs[k]
           x == cs[k].p
<1>1. WellFormed(event) /\ f \in FrameType /\ k \in DOMAIN cs
  BY DEF ParserAssumption, Frames
<1>2. x \in Nat /\ f.at \in Int
  BY <1>1 DEF FrameType
<1>3. EndOf(event, 0) \in Int /\ (f.at # Outside => f.at \in DOMAIN event)
  <2>1. 0 \in DOMAIN event /\ event[0] \in HeaderType
    BY <1>1 DEF WellFormed
  <2>2. EndOf(event, 0) \in Int
    BY <2>1 DEF EndOf, HeaderType
  <2>3. k = 1 \/ k \in 2..Len(cs)
    BY DEF Frames
  <2> QED
    BY <2>2, <2>3 DEF Nested
<1>4. Limit(f) \in Int
  <2>1. CASE f.at = Outside
    BY <2>1, <1>3 DEF Limit
  <2>2. CASE f.at # Outside
    <3>1. f.at \in DOMAIN event /\ event[f.at] \in HeaderType /\ f.at \in Nat
      BY <2>2, <1>1, <1>3 DEF WellFormed
    <3> QED
      BY <2>2, <3>1 DEF Limit, EndOf, HeaderType
  <2> QED
    BY <2>1, <2>2
<1>5. x \in ChildrenOf(event, f.at)
  BY <1>1, <1>2, <1>4 DEF Nested
<1>6. x \in DOMAIN event /\ event[x] \in HeaderType /\ event[x].up = f.at
  BY <1>1, <1>5 DEF ChildrenOf, WellFormed
<1>7. f.at = Outside => k = 1 /\ x = 0
  <2> SUFFICES ASSUME f.at = Outside PROVE k = 1 /\ x = 0
    OBVIOUS
  <2>1. Outside \notin DOMAIN event
    BY <1>1 DEF WellFormed, Outside
  <2>2. k = 1
    BY <2>1 DEF Nested, Frames
  <2> QED
    BY <1>1, <1>6, <2>1, <2>2 DEF WellFormed
<1>8. f.at # Outside => k \in 2..Len(cs)
  BY DEF Nested, Frames
<1>9. event[x].depth = k - 1 /\ InType(event, x) = f.type
  <2>1. CASE f.at = Outside
    BY <2>1, <1>1, <1>6, <1>7 DEF WellFormed, InType, Nested
  <2>2. CASE f.at # Outside
    <3>1. x # 0
      BY <2>2, <1>1, <1>6 DEF WellFormed
    <3>2. event[x].depth = event[f.at].depth + 1
      BY <3>1, <1>1, <1>6 DEF WellFormed
    <3>3. event[f.at].depth = k - 2 /\ f.type = event[f.at].type
      BY <2>2, <1>8 DEF Nested
    <3> QED
      BY <2>2, <3>2, <3>3, <1>6 DEF InType
  <2> QED
    BY <2>1, <2>2
<1>10. NextSibling(f) = EndOf(event, x)
  <2>1. CASE f.type = "bank"
    BY <2>1 DEF NextSibling, EndOf
  <2>2. CASE f.type # "bank"
    <3>1. x # 0
      BY <2>2, <1>1, <1>9 DEF WellFormed, InType
    <3>2. event[x].length < 65536 /\ event[x].length \in Nat
      <4>1. InType(event, x) # "bank"
        BY <2>2, <1>9
      <4>2. event[x].length < 65536
        BY <4>1, <3>1, <1>1, <1>6 DEF WellFormed
      <4> QED
        BY <4>2, <1>6 DEF HeaderType
    <3>3. event[x].length % 65536 = event[x].length
      BY <3>2
    <3> QED
      BY <2>2, <3>3 DEF NextSibling, EndOf
  <2> QED
    BY <2>1, <2>2
<1> QED
  BY <1>6, <1>7, <1>8, <1>9, <1>10

\* A header in the event: where its data start and where it ends.
LEMMA Extents ==
  ASSUME ParserAssumption, event \in Events, NEW x \in DOMAIN event
  PROVE  /\ x \in Nat /\ EndOf(event, x) \in Nat /\ DataAt(event, x) \in Nat
         /\ x < DataAt(event, x) /\ DataAt(event, x) <= EndOf(event, x)
         /\ DataAt(event, x) = x + HeaderWords(InType(event, x))
<1>1. WellFormed(event)
  BY DEF ParserAssumption
<1>2. x \in Nat /\ event[x].length \in Nat /\ DataAt(event, x) <= EndOf(event, x)
  BY <1>1 DEF WellFormed, HeaderType
<1> QED
  BY <1>2 DEF EndOf, DataAt, HeaderWords

\* The step p += (data[p] & mask) + 1 keeps the stack nested.
LEMMA StepNested ==
  ASSUME ParserAssumption, event \in Events, NEW cs, Frames(cs), Nested(cs),
         cs[Len(cs)].p < Limit(cs[Len(cs)])
  PROVE  Frames(Stepped(cs)) /\ Nested(Stepped(cs))
<1> DEFINE n  == Len(cs)
           ds == Stepped(cs)
           x  == cs[n].p
<1>1. n \in Nat \ {0} /\ n \in DOMAIN cs /\ cs[n] \in FrameType
  BY DEF Frames, Nested
<1>2. /\ x \in DOMAIN event /\ event[x].up = cs[n].at
      /\ cs[n].at = Outside => n = 1 /\ x = 0
      /\ cs[n].at # Outside => n > 1
      /\ NextSibling(cs[n]) = EndOf(event, x)
  <2>1. n \in 1..Len(cs) /\ cs[n].p < Limit(cs[n])
    BY <1>1
  <2> HIDE DEF n
  <2> QED
    BY <2>1, AtHeader
<1>3. EndOf(event, x) \in Nat /\ x < EndOf(event, x) /\ x \in Nat
  BY <1>2, Extents
<1>4. /\ DOMAIN ds = DOMAIN cs /\ Len(ds) = n
      /\ \A k \in DOMAIN cs : k # n => ds[k] = cs[k]
      /\ ds[n] = [cs[n] EXCEPT !.p = EndOf(event, x)]
  BY <1>1, <1>2 DEF Stepped, Frames
<1>5. /\ ds[n].p = EndOf(event, x) /\ ds[n].at = cs[n].at
      /\ ds[n].type = cs[n].type /\ ds[n].bank = cs[n].bank /\ ds[n] \in FrameType
  BY <1>1, <1>3, <1>4 DEF FrameType
<1>6. Frames(ds)
  BY <1>1, <1>3, <1>4, <1>5 DEF Frames, Stepped
<1>7. ds[n].p = Limit(ds[n]) \/ ds[n].p \in ChildrenOf(event, ds[n].at)
  <2>1. CASE cs[n].at = Outside
    BY <2>1, <1>2, <1>5 DEF Limit
  <2>2. CASE cs[n].at # Outside
    <3>1. cs[n].at \in DOMAIN event /\ event[cs[n].at].type \in Containers
      BY <2>2, <1>1, <1>2 DEF Nested
    <3>2. x \in ChildrenOf(event, cs[n].at)
      BY <1>2 DEF ChildrenOf
    <3>3. WellFormed(event)
      BY DEF ParserAssumption
    <3>4. EndOf(event, x) = EndOf(event, cs[n].at) \/ EndOf(event, x) \in ChildrenOf(event, cs[n].at)
      BY <3>1, <3>2, <3>3 DEF WellFormed
    <3> QED
      BY <2>2, <3>4, <1>5 DEF Limit
  <2> QED
    BY <2>1, <2>2
<1>8. \A k \in DOMAIN ds : ds[k].at = cs[k].at /\ ds[k].type = cs[k].type /\ ds[k].bank = cs[k].bank
                           /\ Limit(ds[k]) = Limit(cs[k])
  BY <1>4, <1>5 DEF Limit
<1>9. \A k \in 1..(n - 1) : ds[k].p = cs[k].p
  BY <1>1, <1>4 DEF Frames
<1> HIDE DEF ds
<1>10. \A k \in DOMAIN ds : ds[k].p = Limit(ds[k]) \/ ds[k].p \in ChildrenOf(event, ds[k].at)
  BY <1>1, <1>4, <1>7 DEF Nested
<1>11. ASSUME NEW k \in 2..Len(ds)
       PROVE  /\ ds[k].at \in DOMAIN event /\ ds[k].at = ds[k - 1].p
              /\ ds[k].at < Limit(ds[k - 1]) /\ ds[k].at < ds[k].p
              /\ ds[k].type = event[ds[k].at].type /\ ds[k].type \in Containers
              /\ event[ds[k].at].depth = k - 2 /\ event[ds[k].at].up = ds[k - 1].at
  <2>1. k \in DOMAIN ds /\ k - 1 \in DOMAIN ds /\ k \in 2..Len(cs) /\ k - 1 \in 1..(n - 1)
    BY <1>1, <1>4, <1>6 DEF Frames
  <2>2. ds[k - 1].p = cs[k - 1].p
    BY <1>9, <2>1
  <2>3. cs[k].at < ds[k].p
    <3>1. cs[k].at < cs[k].p /\ cs[k].at \in DOMAIN event
      BY <2>1 DEF Nested
    <3>2. cs[k].at \in Nat
      BY <3>1, Extents
    <3>3. CASE k = n
      BY <3>1, <3>2, <3>3, <1>3, <1>5
    <3>4. CASE k # n
      BY <3>1, <3>4, <1>4, <2>1
    <3> QED
      BY <3>3, <3>4
  <2> QED
    BY <2>1, <2>2, <2>3, <1>8 DEF Nested
<1>12. ds # <<>> /\ ds[1].at = Outside /\ ds[1].type = "bank" /\ ds[1].bank = Root
  <2>1. 1 \in DOMAIN ds /\ ds # <<>>
    BY <1>1, <1>4, <1>6 DEF Frames
  <2>2. cs[1].at = Outside /\ cs[1].type = "bank" /\ cs[1].bank = Root
    BY DEF Nested
  <2> QED
    BY <2>1, <2>2, <1>8
<1>13. Nested(ds)
  BY <1>10, <1>11, <1>12 DEF Nested
<1> QED
  BY <1>6, <1>13 DEF ds

\* What is left of a nested stack when its top is popped is nested, and is still
\* at the container that was popped.
LEMMA PopNested ==
  ASSUME NEW cs, Frames(cs), Nested(cs), Len(cs) >= 2
  PROVE  LET ds == SubSeq(cs, 1, Len(cs) - 1)
         IN /\ Frames(ds) /\ Nested(ds) /\ Len(ds) = Len(cs) - 1
            /\ ds[Len(ds)].p < Limit(ds[Len(ds)]) /\ ds[Len(ds)].p = cs[Len(cs)].at
            /\ \A k \in DOMAIN ds : ds[k] = cs[k]
<1> DEFINE n  == Len(cs)
           ds == SubSeq(cs, 1, n - 1)
<1>1. n \in Nat /\ n >= 2 /\ DOMAIN cs = 1..n
  BY DEF Frames
<1>2. Frames(ds) /\ Len(ds) = n - 1 /\ DOMAIN ds = 1..(n - 1)
  BY <1>1 DEF Frames
<1>3. \A k \in 1..(n - 1) : ds[k] = cs[k]
  BY <1>1 DEF Frames
<1> HIDE DEF ds
<1>4. Nested(ds)
  <2>1. \A k \in DOMAIN ds : ds[k].p = Limit(ds[k]) \/ ds[k].p \in ChildrenOf(event, ds[k].at)
    BY <1>1, <1>2, <1>3 DEF Nested
  <2>2. \A k \in 2..Len(ds) : k \in 2..Len(cs) /\ ds[k] = cs[k] /\ ds[k - 1] = cs[k - 1]
    BY <1>1, <1>2, <1>3
  <2>3. ds # <<>> /\ ds[1] = cs[1]
    BY <1>1, <1>2, <1>3
  <2> QED
    BY <2>1, <2>2, <2>3 DEF Nested
<1>5. ds[n - 1] = cs[n - 1] /\ cs[n].at = cs[n - 1].p /\ cs[n].at < Limit(cs[n - 1])
  BY <1>1, <1>3 DEF Nested
<1> QED
  BY <1>2, <1>3, <1>4, <1>5 DEF ds

\* Entering the container the parser is at keeps the stack nested.
LEMMA PushNested ==
  ASSUME ParserAssumption, event \in Events, NEW cs, Frames(cs), Nested(cs),
         cs[Len(cs)].p < Limit(cs[Len(cs)]), NEW b \in Nat,
         event[cs[Len(cs)].p].type \in Containers
  PROVE  LET t  == cs[Len(cs)]
             ds == Append(cs, [at |-> t.p, type |-> event[t.p].type, bank |-> b,
                               p |-> t.p + HeaderWords(t.type)])
         IN Frames(ds) /\ Nested(ds)
<1> DEFINE n  == Len(cs)
           x  == cs[n].p
           f  == [at |-> x, type |-> event[x].type, bank |-> b, p |-> x + HeaderWords(cs[n].type)]
           ds == Append(cs, f)
<1>1. n \in Nat \ {0} /\ DOMAIN cs = 1..n /\ cs[n] \in FrameType
  BY DEF Frames, Nested
<1>2. /\ x \in DOMAIN event /\ event[x].up = cs[n].at /\ event[x].depth = n - 1
      /\ InType(event, x) = cs[n].type
  <2>1. n \in 1..Len(cs) /\ cs[n].p < Limit(cs[n])
    BY <1>1
  <2> HIDE DEF n
  <2> QED
    BY <2>1, AtHeader
<1>3. x \in Nat /\ f.p = DataAt(event, x) /\ f.p \in Nat /\ x < f.p
  BY <1>2, Extents
<1>4. f \in FrameType
  BY <1>3 DEF FrameType
<1>5. f.p = Limit(f) \/ f.p \in ChildrenOf(event, x)
  <2>1. WellFormed(event) /\ x # Outside
    BY <1>3 DEF ParserAssumption, Outside
  <2>2. DataAt(event, x) = EndOf(event, x) \/ DataAt(event, x) \in ChildrenOf(event, x)
    BY <1>2, <2>1 DEF WellFormed
  <2> QED
    BY <1>3, <2>1, <2>2 DEF Limit
<1> HIDE DEF f
<1>6. Frames(ds) /\ Len(ds) = n + 1 /\ DOMAIN ds = 1..(n + 1)
      /\ ds[n + 1] = f /\ \A k \in 1..n : ds[k] = cs[k]
  BY <1>1, <1>4 DEF Frames
<1> HIDE DEF ds
<1>7. \A k \in DOMAIN ds : ds[k].p = Limit(ds[k]) \/ ds[k].p \in ChildrenOf(event, ds[k].at)
  <2> SUFFICES ASSUME NEW k \in DOMAIN ds
               PROVE  ds[k].p = Limit(ds[k]) \/ ds[k].p \in ChildrenOf(event, ds[k].at)
    OBVIOUS
  <2>1. CASE k = n + 1
    BY <2>1, <1>5, <1>6 DEF f
  <2>2. CASE k # n + 1
    <3>1. k \in DOMAIN cs /\ ds[k] = cs[k]
      BY <2>2, <1>1, <1>6
    <3> QED
      BY <3>1 DEF Nested
  <2> QED
    BY <2>1, <2>2
<1>8. ASSUME NEW k \in 2..Len(ds)
      PROVE  /\ ds[k].at \in DOMAIN event /\ ds[k].at = ds[k - 1].p
             /\ ds[k].at < Limit(ds[k - 1]) /\ ds[k].at < ds[k].p
             /\ ds[k].type = event[ds[k].at].type /\ ds[k].type \in Containers
             /\ event[ds[k].at].depth = k - 2 /\ event[ds[k].at].up = ds[k - 1].at
  <2>1. CASE k = n + 1
    <3>1. ds[k] = f /\ ds[k - 1] = cs[n]
      BY <2>1, <1>1, <1>6
    <3>2. f.at = x /\ f.type = event[x].type /\ x < f.p
      BY <1>3 DEF f
    <3> QED
      BY <2>1, <3>1, <3>2, <1>1, <1>2
  <2>2. CASE k # n + 1
    <3>1. k \in 2..Len(cs) /\ ds[k] = cs[k] /\ ds[k - 1] = cs[k - 1]
      BY <2>2, <1>1, <1>6
    <3> QED
      BY <3>1 DEF Nested
  <2> QED
    BY <2>1, <2>2
<1>9. ds # <<>> /\ ds[1] = cs[1]
  BY <1>1, <1>6
<1>10. Nested(ds)
  BY <1>7, <1>8, <1>9 DEF Nested
<1> QED
  BY <1>6, <1>10 DEF ds, f

-----------------------------------------------------------------------------
(* Types of the tree.                                                      *)

\* FindBank and FindLeaf answer with the first bank or leaf that matches.
LEMMA FindBankIs ==
  ASSUME banks \in Seq(BankType), NEW b, NEW t, NEW m
  PROVE  /\ FindBank(b, t, m) \in 0..Len(banks)
         /\ FindBank(b, t, m) # None => IsBankFor(FindBank(b, t, m), b, t, m)
         /\ \A k \in DOMAIN banks : IsBankFor(k, b, t, m) =>
              FindBank(b, t, m) # None /\ FindBank(b, t, m) <= k
<1> DEFINE S == {k \in DOMAIN banks : IsBankFor(k, b, t, m)}
<1>1. S \in SUBSET (Nat \ {0}) /\ DOMAIN banks = 1..Len(banks) /\ Len(banks) \in Nat
  OBVIOUS
<1>2. FindBank(b, t, m) = FirstOf(S)
  BY DEF FindBank
<1>3. \A k : k \in S <=> k \in DOMAIN banks /\ IsBankFor(k, b, t, m)
  OBVIOUS
<1> HIDE DEF S
<1>4. /\ FirstOf(S) = None <=> S = {}
      /\ S # {} => FirstOf(S) \in S /\ \A y \in S : FirstOf(S) <= y
  BY <1>1, FirstOfIs
<1>5. FirstOf(S) \in 0..Len(banks)
  BY <1>1, <1>3, <1>4 DEF None
<1> QED
  BY <1>2, <1>3, <1>4, <1>5

\* FindLeaf gives no leaf, or one that matches.
LEMMA FindLeafIs ==
  ASSUME leafs \in Seq(LeafType), NEW b, NEW t, NEW m
  PROVE  /\ FindLeaf(b, t, m) \in 0..Len(leafs)
         /\ FindLeaf(b, t, m) # None => IsLeafFor(FindLeaf(b, t, m), b, t, m)
         /\ \A l \in DOMAIN leafs : IsLeafFor(l, b, t, m) =>
              FindLeaf(b, t, m) # None /\ FindLeaf(b, t, m) <= l
<1> DEFINE S == {l \in DOMAIN leafs : IsLeafFor(l, b, t, m)}
<1>1. S \in SUBSET (Nat \ {0}) /\ DOMAIN leafs = 1..Len(leafs) /\ Len(leafs) \in Nat
  OBVIOUS
<1>2. FindLeaf(b, t, m) = FirstOf(S)
  BY DEF FindLeaf
<1>3. \A l : l \in S <=> l \in DOMAIN leafs /\ IsLeafFor(l, b, t, m)
  OBVIOUS
<1> HIDE DEF S
<1>4. /\ FirstOf(S) = None <=> S = {}
      /\ S # {} => FirstOf(S) \in S /\ \A y \in S : FirstOf(S) <= y
  BY <1>1, FirstOfIs
<1>5. FirstOf(S) \in 0..Len(leafs)
  BY <1>1, <1>3, <1>4 DEF None
<1> QED
  BY <1>2, <1>3, <1>4, <1>5

\* The number of bytes asked of PushDataArray is a number.
LEMMA CopiedIsInt ==
  ASSUME NEW t \in LeafTypes, NEW w \in Int, NEW pad \in 0..3
  PROVE  Copied(t, w, pad) \in Int
<1>1. pad \div 2 \in Int
  OBVIOUS
<1> QED
  BY <1>1 DEF Copied, LeafTypes

\* A new leaf is a leaf, and storing its name keeps the index finite.
LEMMA NewLeafType ==
  ASSUME IsFiniteSet(name_index), NEW b \in Nat, NEW base \in BaseNames,
         NEW t \in Nat, NEW m \in Nat, NEW y \in LeafTypes
  PROVE  /\ NewLeaf(b, base, t, m, y) \in LeafType
         /\ ThisLeaf(b, base, t, m, y) \in LeafType
         /\ IsFiniteSet(StoreLocation(b, base))
<1>1. <<base, Pluses(b, base)>> \in BaseNames \X Nat /\ <<base, 0>> \in BaseNames \X Nat
  BY PlusesIsNew
<1>2. ASSUME NEW nm \in BaseNames \X Nat
      PROVE  LeafOf(b, nm, t, m, y) \in LeafType
  <2>1. <<>> \in Seq(DataType)
    OBVIOUS
  <2> QED
    BY <1>2, <2>1 DEF LeafType, LeafOf
<1>3. NewLeaf(b, base, t, m, y) \in LeafType /\ ThisLeaf(b, base, t, m, y) \in LeafType
  BY <1>1, <1>2 DEF NewLeaf, ThisLeaf
<1>4. IsFiniteSet(StoreLocation(b, base))
  BY FS_AddElement DEF StoreLocation
<1> QED
  BY <1>3, <1>4

\* A new bank is a bank.
LEMMA NewBankType ==
  ASSUME banks \in Seq(BankType), NEW b \in DOMAIN banks, NEW ts \in SUBSET Nat, NEW m \in Nat
  PROVE  NewBank(b, ts, m) \in BankType
<1>1. banks[b] \in BankType /\ Len(banks) \in Nat /\ b \in Nat
  OBVIOUS
<1>2. banks[b].path \cup {Len(banks) + 1} \in SUBSET Nat
  BY <1>1 DEF BankType
<1> QED
  BY <1>1, <1>2 DEF NewBank, BankType

\* A function on 1..n is a sequence of n elements.
LEMMA FunctionIsSeq ==
  ASSUME NEW S, NEW n \in Nat, NEW f \in [1..n -> S]
  PROVE  f \in Seq(S) /\ Len(f) = n
<1>1. f \in Seq(S)
  BY SeqDef
<1> QED
  BY <1>1

\* Deleting banks, or the data of leafs, leaves banks and leafs what they are.
LEMMA DeletedType ==
  ASSUME banks \in Seq(BankType), leafs \in Seq(LeafType), IsFiniteSet(name_index), NEW B
  PROVE  /\ BanksWithout(B) \in Seq(BankType) /\ Len(BanksWithout(B)) = Len(banks)
         /\ LeafsWithout(B) \in Seq(LeafType) /\ Len(LeafsWithout(B)) = Len(leafs)
<1>1. DOMAIN banks = 1..Len(banks) /\ Len(banks) \in Nat
      /\ DOMAIN leafs = 1..Len(leafs) /\ Len(leafs) \in Nat
  OBVIOUS
<1>2. [up |-> Gone, path |-> {}, tags |-> {}, num |-> 0, this_tag |-> 0, this_num |-> 0] \in BankType
  BY DEF BankType, Gone
<1>3. \A k \in 1..Len(banks) : BanksWithout(B)[k] \in BankType
  BY <1>1, <1>2 DEF BanksWithout
<1>4. BanksWithout(B) \in [1..Len(banks) -> BankType]
  BY <1>1, <1>3 DEF BanksWithout
<1>5. \A l \in 1..Len(leafs) : LeafsWithout(B)[l] \in LeafType
  <2> SUFFICES ASSUME NEW l \in 1..Len(leafs) PROVE LeafsWithout(B)[l] \in LeafType
    OBVIOUS
  <2>1. leafs[l] \in LeafType /\ <<>> \in Seq(DataType) /\ Gone \in Nat
    BY <1>1 DEF Gone
  <2>2. [leafs[l] EXCEPT !.bank = Gone, !.data = <<>>] \in LeafType
    BY <2>1 DEF LeafType
  <2> QED
    BY <1>1, <2>1, <2>2 DEF LeafsWithout
<1>6. LeafsWithout(B) \in [1..Len(leafs) -> LeafType]
  BY <1>1, <1>5 DEF LeafsWithout
<1> QED
  BY <1>1, <1>4, <1>6, FunctionIsSeq

-----------------------------------------------------------------------------
(* One step of the specification.  TypeOK and StackInv need each other: what *)
(* is at the top of the stack has the type of a header only because the    *)
(* parser is in step, and the step is a number only because it has.        *)

SyncInv == TypeOK /\ (phase = "parsing" => StackInv)

\* A stack that is nested stays so while the event is the same.
LEMMA NestedKept ==
  ASSUME NEW cs, event' = event, calls' = cs, Nested(cs)
  PROVE  Nested(calls)'
  BY DEF Nested, Limit, ChildrenOf, EndOf

\* What ParseBank knows at a header.
LEMMA ParsingFacts ==
  ASSUME ParserAssumption, SyncInv, Parsing
  PROVE  /\ event \in Events /\ Frames(calls) /\ Nested(calls)
         /\ Len(calls) \in Nat \ {0} /\ Len(calls) \in DOMAIN calls
         /\ Top \in FrameType /\ Top.p < Limit(Top)
         /\ Top.p \in DOMAIN event /\ Here \in HeaderType /\ Top.bank \in 0..Len(banks)
         /\ Frames(Stepped(calls)) /\ Nested(Stepped(calls))
         /\ DOMAIN Stepped(calls) = DOMAIN calls
         /\ \A k \in DOMAIN calls : Stepped(calls)[k].bank = calls[k].bank
<1>1. event \in Events /\ Frames(calls) /\ Nested(calls)
  BY DEF SyncInv, TypeOK, StackInv, Parsing, Frames
<1>2. Len(calls) \in Nat \ {0} /\ Len(calls) \in DOMAIN calls /\ Len(calls) \in 1..Len(calls)
  BY <1>1 DEF Frames, Nested
<1>3. Top \in FrameType /\ Top.p < Limit(Top) /\ Top.bank \in 0..Len(banks)
  <2>1. Top \in FrameType /\ Top.p < Limit(Top) /\ Top.bank <= Len(banks)
    BY <1>1, <1>2 DEF Parsing, Top, Frames, SyncInv, TypeOK
  <2> QED
    BY <2>1 DEF FrameType, SyncInv, TypeOK
<1>4. Top.p \in DOMAIN event /\ Here \in HeaderType
  BY <1>1, <1>2, <1>3, AtHeader DEF Top, Here
<1>5. Frames(Stepped(calls)) /\ Nested(Stepped(calls))
  BY <1>1, <1>3, StepNested DEF Top
<1>6. /\ DOMAIN Stepped(calls) = DOMAIN calls
      /\ \A k \in DOMAIN calls : Stepped(calls)[k].bank = calls[k].bank
  BY <1>1, <1>2 DEF Stepped, Frames, FrameType
<1> QED
  BY <1>1, <1>2, <1>3, <1>4, <1>5, <1>6

\* The first state.
LEMMA SyncInit ==
  ASSUME ParserAssumption, Init
  PROVE  SyncInv
<1>1. [up |-> Gone, path |-> {Root}, tags |-> {}, num |-> 0, this_tag |-> 0, this_num |-> 0]
        \in BankType
  BY DEF BankType, Gone, Root
<1>2. IsFiniteSet({})
  BY FS_EmptySet
<1> QED
  BY <1>1, <1>2 DEF Init, SyncInv, TypeOK, NoEvent, Phases, ParserAssumption

\* Booking adds or removes banks and leafs of the right types.
LEMMA SyncBooking ==
  ASSUME ParserAssumption, SyncInv, Booking
  PROVE  SyncInv'
<1>1. /\ phase' = "booking" /\ settings' = settings /\ event' = event /\ calls' = calls
      /\ count' = count
  BY DEF Booking, Book
<1>2. /\ banks \in Seq(BankType) /\ Len(banks) > 0 /\ leafs \in Seq(LeafType)
      /\ IsFiniteSet(name_index) /\ Len(banks) \in Nat
  BY DEF SyncInv, TypeOK
<1>3. /\ banks' \in Seq(BankType) /\ Len(banks') >= Len(banks) /\ leafs' \in Seq(LeafType)
      /\ IsFiniteSet(name_index')
  <2>1. CASE Book(BookLeaf)
    <3>1. PICK b \in DOMAIN banks, n \in Names, t \in Tags, m \in Nums, y \in BookTypes :
            AddLeaf(b, <<n, 0, 0>>, t, m, y)
      BY <2>1 DEF Book, BookLeaf
    <3>2. /\ b \in Nat /\ <<n, 0, 0>> \in BaseNames
          /\ t \in Nat /\ m \in Nat /\ y \in LeafTypes
      BY <1>2 DEF ParserAssumption, BaseNames
    <3>3. /\ NewLeaf(b, <<n, 0, 0>>, t, m, y) \in LeafType
          /\ IsFiniteSet(StoreLocation(b, <<n, 0, 0>>))
      BY <1>2, <3>2, NewLeafType
    <3> QED
      BY <1>2, <3>1, <3>3 DEF AddLeaf
  <2>5. CASE Book(BookThisLeaf)
    <3>1. PICK b \in DOMAIN banks, n \in Names, t \in Tags, m \in Nums, y \in BookTypes :
            AddThisLeaf(b, <<n, 0, 0>>, t, m, y)
      BY <2>5 DEF Book, BookThisLeaf
    <3>2. /\ b \in Nat /\ <<n, 0, 0>> \in BaseNames
          /\ t \in Nat /\ m \in Nat /\ y \in LeafTypes
      BY <1>2 DEF ParserAssumption, BaseNames
    <3>3. /\ ThisLeaf(b, <<n, 0, 0>>, t, m, y) \in LeafType
          /\ IsFiniteSet(StoreLocation(b, <<n, 0, 0>>))
      BY <1>2, <3>2, NewLeafType
    <3> QED
      BY <1>2, <3>1, <3>3 DEF AddThisLeaf
  <2>2. CASE Book(BookBank)
    <3>1. PICK b \in DOMAIN banks, t \in Tags, m \in Nums, o \in BOOLEAN : AddBank(b, t, m, o)
      BY <2>2 DEF Book, BookBank
    <3>2. NewBank(b, {t}, m) \in BankType
      <4>1. {t} \in SUBSET Nat /\ m \in Nat
        BY DEF ParserAssumption
      <4> QED
        BY <1>2, <4>1, NewBankType
    <3> QED
      BY <1>2, <3>1, <3>2 DEF AddBank
  <2>3. CASE Book(BookBankOfTags)
    <3>1. PICK b \in DOMAIN banks, ts \in SUBSET Tags, m \in Nums : AddBankOfTags(b, ts, m)
      BY <2>3 DEF Book, BookBankOfTags
    <3>2. NewBank(b, ts, m) \in BankType
      <4>1. ts \in SUBSET Nat /\ m \in Nat
        BY DEF ParserAssumption
      <4> QED
        BY <1>2, <4>1, NewBankType
    <3> QED
      BY <1>2, <3>1, <3>2 DEF AddBankOfTags
  <2>4. CASE Book(Unbook)
    <3>1. PICK b \in DOMAIN banks : RemoveBank(b)
      BY <2>4 DEF Book, Unbook
    <3>2. name_index' \subseteq name_index
      BY <3>1 DEF RemoveBank
    <3>3. IsFiniteSet(name_index')
      BY <1>2, <3>2, FS_Subset
    <3> QED
      BY <1>2, <3>1, <3>3, DeletedType DEF RemoveBank
  <2> QED
    BY <2>1, <2>2, <2>3, <2>4, <2>5 DEF Booking
<1>4. Len(banks') \in Nat
  BY <1>3
<1>5. /\ settings \in Settings /\ \A x \in DOMAIN event : event[x] \in HeaderType
      /\ calls \in Seq(FrameType) /\ \A k \in DOMAIN calls : calls[k].bank <= Len(banks)
      /\ count \in 0..MaxEvents
  BY DEF SyncInv, TypeOK
<1>6. \A k \in DOMAIN calls : calls[k].bank <= Len(banks')
  <2>1. \A k \in DOMAIN calls : calls[k].bank \in Nat
    <3>1. \A k \in DOMAIN calls : calls[k] \in FrameType
      BY <1>5
    <3> QED
      BY <3>1 DEF FrameType
  <2> QED
    BY <2>1, <1>2, <1>3, <1>4, <1>5
<1> QED
  BY <1>1, <1>2, <1>3, <1>4, <1>5, <1>6 DEF SyncInv, TypeOK, Phases

\* The root or a bank below it takes the tag and num of what is parsed into it.
LEMMA EnteredType ==
  ASSUME NEW bs \in Seq(BankType), NEW b \in DOMAIN bs, NEW h \in HeaderType
  PROVE  Entered(bs, b, h) \in Seq(BankType) /\ Len(Entered(bs, b, h)) = Len(bs)
<1>1. bs[b] \in BankType /\ h.tag \in Nat /\ h.num \in Nat
  BY DEF HeaderType
<1>2. [bs[b] EXCEPT !.this_tag = h.tag, !.this_num = h.num] \in BankType
  BY <1>1 DEF BankType
<1>3. Entered(bs, b, h) = [bs EXCEPT ![b] = [bs[b] EXCEPT !.this_tag = h.tag, !.this_num = h.num]]
  BY DEF Entered
<1> QED
  BY <1>2, <1>3

\* Next starts on an event at its header.
LEMMA SyncNextEvent ==
  ASSUME ParserAssumption, SyncInv, NEW e \in Events, NextEvent(e)
  PROVE  SyncInv'
<1>1. /\ banks \in Seq(BankType) /\ Len(banks) > 0 /\ leafs \in Seq(LeafType)
      /\ IsFiniteSet(name_index) /\ Len(banks) \in Nat
      /\ settings \in Settings /\ count \in 0..MaxEvents
  BY DEF SyncInv, TypeOK
<1>2. WellFormed(e) /\ 0 \in DOMAIN e /\ e[0] \in HeaderType /\ e[0].up = Outside
      /\ \A x \in DOMAIN e : e[x] \in HeaderType
  BY DEF ParserAssumption, WellFormed
<1>3. banks' \in Seq(BankType) /\ Len(banks') = Len(banks)
  <2> DEFINE bs == ClearedBanks(settings.fFullErase)
  <2>1. bs \in Seq(BankType) /\ Len(bs) = Len(banks)
    BY <1>1, DeletedType DEF ClearedBanks
  <2>2. Root \in DOMAIN bs
    BY <1>1, <2>1 DEF Root
  <2>3. banks' = Entered(bs, Root, e[0])
    BY DEF NextEvent
  <2> HIDE DEF bs
  <2> QED
    BY <1>2, <2>1, <2>2, <2>3, EnteredType
<1>4. leafs' \in Seq(LeafType)
  <2>1. leafs' = ClearedLeafs(settings.fFullErase)
    BY DEF NextEvent
  <2>2. CASE settings.fFullErase
    BY <1>1, <2>1, <2>2, DeletedType DEF ClearedLeafs
  <2>3. CASE ~settings.fFullErase
    <3> DEFINE ls == [l \in DOMAIN leafs |-> [leafs[l] EXCEPT !.data = <<>>]]
    <3>1. Len(leafs) \in Nat /\ DOMAIN leafs = 1..Len(leafs)
      BY <1>1
    <3>2. \A l \in DOMAIN leafs : [leafs[l] EXCEPT !.data = <<>>] \in LeafType
      <4> SUFFICES ASSUME NEW l \in DOMAIN leafs PROVE [leafs[l] EXCEPT !.data = <<>>] \in LeafType
        OBVIOUS
      <4>1. leafs[l] \in LeafType /\ <<>> \in Seq(DataType)
        BY <1>1
      <4> QED
        BY <4>1 DEF LeafType
    <3>3. ls \in [1..Len(leafs) -> LeafType]
      BY <3>1, <3>2
    <3>4. leafs' = ls
      BY <2>1, <2>3 DEF ClearedLeafs
    <3> HIDE DEF ls
    <3> QED
      BY <3>1, <3>3, <3>4, FunctionIsSeq
  <2> QED
    BY <2>2, <2>3
<1>5. IsFiniteSet(name_index')
  <2>1. name_index' \subseteq name_index
    BY DEF NextEvent, ClearedIndex
  <2> QED
    BY <1>1, <2>1, FS_Subset
<1>6. settings' = settings /\ event' = e /\ count' \in 0..MaxEvents
      /\ phase' \in {"aborted", "skipped", "parsing"}
  BY <1>1 DEF NextEvent, ParserAssumption
<1> DEFINE f == [at |-> Outside, type |-> "bank", bank |-> Root, p |-> 0]
<1>7. f \in FrameType
  BY DEF FrameType, Outside, Root, Containers
<1>8. calls' = <<>> \/ calls' = <<f>>
  BY DEF NextEvent
<1>9. calls' \in Seq(FrameType) /\ \A k \in DOMAIN calls' : calls'[k].bank <= Len(banks')
  <2>1. CASE calls' = <<>>
    BY <2>1
  <2>2. CASE calls' = <<f>>
    <3>1. f.bank <= Len(banks')
      BY <1>1, <1>3 DEF Root
    <3> HIDE DEF f
    <3> QED
      BY <2>2, <3>1, <1>7
  <2> QED
    BY <1>8, <2>1, <2>2
<1>10. phase' = "parsing" => StackInv'
  <2> SUFFICES ASSUME phase' = "parsing" PROVE StackInv'
    OBVIOUS
  <2>1. calls' = <<f>> /\ event' \in Events
    BY <1>6 DEF NextEvent
  <2>2. 0 \in ChildrenOf(event, Outside)'
    BY <1>2, <1>6 DEF ChildrenOf
  <2>3. Len(calls') = 1 /\ DOMAIN calls' = {1} /\ calls'[1] = f
    BY <2>1
  <2> QED
    BY <2>1, <2>2, <2>3 DEF StackInv, Nested
<1>11. TypeOK'
  BY <1>1, <1>2, <1>3, <1>4, <1>5, <1>6, <1>9 DEF TypeOK, Phases
<1> QED
  BY <1>10, <1>11 DEF SyncInv

\* The leaf for the bank the parser is at, if there is one.
LEMMA LeafFacts ==
  ASSUME ParserAssumption, SyncInv, Parsing, Top.bank # None, Here.type \in LeafTypes
  PROVE  /\ LeafsNow \in Seq(LeafType) /\ LeafHere \in 0..Len(LeafsNow)
         /\ Len(leafs) <= Len(LeafsNow) /\ Datum \in DataType
         /\ LeafsNow = leafs \/ (Added /\ LeafsNow = Append(leafs, NewLeaf(Top.bank, LeafName,
                                                          Here.tag, Here.num, Here.type)))
         /\ IsFiniteSet(IF Added THEN StoreLocation(Top.bank, LeafName) ELSE name_index)
<1>1. /\ Top \in FrameType /\ Here \in HeaderType /\ Top.bank \in 0..Len(banks)
      /\ Top.bank \in DOMAIN banks /\ Top.p \in Nat
  <2>1. Top \in FrameType /\ Here \in HeaderType /\ Top.bank \in 0..Len(banks)
    BY ParsingFacts
  <2>2. Top.bank \in DOMAIN banks
    BY <2>1 DEF SyncInv, TypeOK, None
  <2> QED
    BY <2>1, <2>2 DEF FrameType
<1>2. Here.tag \in Nat /\ Here.num \in Nat /\ Here.length \in Nat /\ Here.pad \in 0..3
  BY <1>1 DEF HeaderType
<1>3. LeafName \in BaseNames
  <2>1. AutoName(Here.type) \in Names \cup {"Int", "String", "FADC"}
    BY DEF AutoName
  <2> QED
    BY <1>2, <2>1 DEF LeafName, BaseNames
<1>4. leafs \in Seq(LeafType) /\ IsFiniteSet(name_index) /\ banks \in Seq(BankType)
  BY DEF SyncInv, TypeOK
<1>5. /\ NewLeaf(Top.bank, LeafName, Here.tag, Here.num, Here.type) \in LeafType
      /\ IsFiniteSet(StoreLocation(Top.bank, LeafName))
  BY <1>1, <1>2, <1>3, <1>4, NewLeafType
<1>6. Found \in 0..Len(leafs)
  BY <1>4, FindLeafIs DEF Found
<1>7. Datum \in DataType
  <2>1. Here.length + 1 - HeaderWords(Top.type) \in Int
    BY <1>2 DEF HeaderWords
  <2>2. Copied(Here.type, Here.length + 1 - HeaderWords(Top.type), Here.pad) \in Int
    BY <1>2, <2>1, CopiedIsInt
  <2>3. banks[Top.bank].this_tag \in Nat
    <3>1. banks[Top.bank] \in BankType
      BY <1>1, <1>4
    <3> QED
      BY <3>1 DEF BankType
  <2>4. banks[Top.bank].this_tag % 256 \in Nat
    BY <2>3
  <2> QED
    BY <1>1, <2>2, <2>4 DEF Datum, DataType
<1>8. CASE Added
  <2> DEFINE nl == NewLeaf(Top.bank, LeafName, Here.tag, Here.num, Here.type)
  <2>1. LeafsNow = Append(leafs, nl) /\ LeafHere = Len(leafs) + 1
    BY <1>8 DEF LeafsNow, LeafHere
  <2> HIDE DEF nl
  <2>2. LeafsNow \in Seq(LeafType) /\ Len(LeafsNow) = Len(leafs) + 1
    BY <1>4, <1>5, <2>1 DEF nl
  <2> QED
    BY <1>4, <1>5, <1>7, <1>8, <2>1, <2>2 DEF nl
<1>9. CASE ~Added
  BY <1>4, <1>6, <1>7, <1>9 DEF LeafsNow, LeafHere
<1> QED
  BY <1>8, <1>9

\* ParseBank steps over a leaf to the next header of the container or its end.
LEMMA SyncParseLeaf ==
  ASSUME ParserAssumption, SyncInv, ParseLeaf
  PROVE  SyncInv'
<1>1. Parsing /\ Top.bank # None /\ Here.type \in LeafTypes
  BY DEF ParseLeaf
<1>2. /\ event \in Events /\ Frames(Stepped(calls)) /\ Nested(Stepped(calls))
      /\ DOMAIN Stepped(calls) = DOMAIN calls
      /\ \A k \in DOMAIN calls : Stepped(calls)[k].bank = calls[k].bank
  BY <1>1, ParsingFacts
<1>3. /\ LeafsNow \in Seq(LeafType) /\ LeafHere \in 0..Len(LeafsNow) /\ Datum \in DataType
      /\ IsFiniteSet(IF Added THEN StoreLocation(Top.bank, LeafName) ELSE name_index)
  BY <1>1, LeafFacts
<1>4. /\ banks' = banks /\ settings' = settings /\ event' = event /\ count' = count
      /\ calls' = Stepped(calls) /\ phase' \in {"parsing", "corrupt"}
      /\ name_index' = IF Added THEN StoreLocation(Top.bank, LeafName) ELSE name_index
  BY <1>1 DEF ParseLeaf, Parsing
<1>5. leafs' \in Seq(LeafType)
  <2>1. CASE leafs' = leafs
    BY <2>1 DEF SyncInv, TypeOK
  <2>2. CASE leafs' # leafs
    <3> DEFINE ls == LeafsNow
               l  == LeafHere
    <3>1. l # None /\ leafs' = [ls EXCEPT ![l].data = Append(@, Datum)]
      BY <2>2 DEF ParseLeaf
    <3> HIDE DEF ls, l
    <3>2. l \in DOMAIN ls /\ ls \in Seq(LeafType)
      BY <1>3, <3>1 DEF ls, l, None
    <3>3. ls[l] \in LeafType /\ ls[l].data \in Seq(DataType)
      <4>1. ls[l] \in LeafType
        BY <3>2
      <4> QED
        BY <4>1 DEF LeafType
    <3>4. Append(ls[l].data, Datum) \in Seq(DataType)
      BY <1>3, <3>3
    <3>5. [ls[l] EXCEPT !.data = Append(ls[l].data, Datum)] \in LeafType
      BY <3>3, <3>4 DEF LeafType
    <3>6. leafs' = [ls EXCEPT ![l] = [ls[l] EXCEPT !.data = Append(ls[l].data, Datum)]]
      BY <3>1
    <3> QED
      BY <3>2, <3>5, <3>6
  <2> QED
    BY <2>1, <2>2
<1>6. calls' \in Seq(FrameType) /\ \A k \in DOMAIN calls' : calls'[k].bank <= Len(banks')
  BY <1>2, <1>4 DEF SyncInv, TypeOK, Frames
<1>7. TypeOK'
  BY <1>3, <1>4, <1>5, <1>6 DEF SyncInv, TypeOK, Phases
<1>8. StackInv'
  BY <1>2, <1>4, NestedKept DEF StackInv
<1> QED
  BY <1>7, <1>8 DEF SyncInv

\* ContainerNodeHandler names a bank there is, one it adds next, or none.
LEMMA NodeFacts ==
  ASSUME ParserAssumption, SyncInv, Parsing, Top.bank # None
  PROVE  /\ Node \in 0..(Len(banks) + 1)
         /\ BanksNow(Node) \in Seq(BankType) /\ Node <= Len(BanksNow(Node))
         /\ BanksNow(Node) = banks
            \/ (Node = Len(banks) + 1
                /\ BanksNow(Node) = Append(banks, NewBank(Top.bank, {Here.tag}, Here.num)))
         /\ Len(BanksNow(Node)) >= Len(banks)
<1>1. Here \in HeaderType /\ Top.bank \in 0..Len(banks)
  BY ParsingFacts
<1>2. banks \in Seq(BankType) /\ Len(banks) \in Nat
  BY DEF SyncInv, TypeOK
<1>3. Top.bank \in DOMAIN banks
  BY <1>1, <1>2 DEF None
<1>4. FindBank(Top.bank, Here.tag, Here.num) \in 0..Len(banks)
  BY <1>2, FindBankIs
<1>5. Node \in 0..(Len(banks) + 1)
  BY <1>1, <1>2, <1>4 DEF Node, NodeFor
<1>6. {Here.tag} \in SUBSET Nat /\ Here.num \in Nat
  BY <1>1 DEF HeaderType
<1>7. NewBank(Top.bank, {Here.tag}, Here.num) \in BankType
  BY <1>2, <1>3, <1>6, NewBankType
<1> HIDE DEF Node
<1>8. CASE Node = Len(banks) + 1
  <2> DEFINE nb == NewBank(Top.bank, {Here.tag}, Here.num)
  <2>1. BanksNow(Node) = Append(banks, nb)
    BY <1>8 DEF BanksNow
  <2> HIDE DEF nb
  <2>2. BanksNow(Node) \in Seq(BankType) /\ Len(BanksNow(Node)) = Len(banks) + 1
    BY <1>2, <1>7, <2>1 DEF nb
  <2> QED
    BY <1>2, <1>5, <1>8, <2>1, <2>2 DEF nb
<1>9. CASE Node # Len(banks) + 1
  BY <1>2, <1>5, <1>9 DEF BanksNow
<1> QED
  BY <1>8, <1>9

\* ParseBank goes into a container.
LEMMA SyncParseContainer ==
  ASSUME ParserAssumption, SyncInv, ParseContainer
  PROVE  SyncInv'
<1>1. Parsing /\ Top.bank # None /\ Here.type \in Containers
  BY DEF ParseContainer
<1>2. /\ event \in Events /\ Frames(calls) /\ Nested(calls) /\ Top.p < Limit(Top)
      /\ Here \in HeaderType
  BY <1>1, ParsingFacts
<1>3. /\ Node \in 0..(Len(banks) + 1)
      /\ BanksNow(Node) \in Seq(BankType) /\ Node <= Len(BanksNow(Node))
      /\ Len(BanksNow(Node)) >= Len(banks)
  BY <1>1, NodeFacts
<1>4. banks \in Seq(BankType) /\ Len(banks) > 0 /\ Len(banks) \in Nat
  BY DEF SyncInv, TypeOK
<1> DEFINE n == Node
           f == [at |-> Top.p, type |-> Here.type, bank |-> n, p |-> Top.p + HeaderWords(Top.type)]
<1>5. /\ leafs' = leafs /\ name_index' = name_index /\ settings' = settings /\ event' = event
      /\ phase' = phase /\ count' = count /\ calls' = Append(calls, f)
      /\ banks' = IF n = None THEN banks ELSE Entered(BanksNow(n), n, Here)
  BY DEF ParseContainer
<1> HIDE DEF n
<1>6. n \in Nat
  BY <1>3, <1>4 DEF n
<1>7. banks' \in Seq(BankType) /\ Len(banks') >= Len(banks) /\ n <= Len(banks') /\ Len(banks') \in Nat
  <2>1. CASE n = None
    BY <2>1, <1>4, <1>5 DEF None
  <2>2. CASE n # None
    <3>1. n \in DOMAIN BanksNow(n)
      BY <2>2, <1>3, <1>6 DEF n, None
    <3>2. /\ Entered(BanksNow(n), n, Here) \in Seq(BankType)
          /\ Len(Entered(BanksNow(n), n, Here)) = Len(BanksNow(n))
      BY <1>2, <1>3, <3>1, EnteredType DEF n
    <3> QED
      BY <2>2, <1>3, <1>4, <1>5, <3>2 DEF n
  <2> QED
    BY <2>1, <2>2
<1>8. Frames(Append(calls, f)) /\ Nested(Append(calls, f))
  BY <1>1, <1>2, <1>6, PushNested DEF Top, Here
<1>9. \A k \in DOMAIN calls' : calls'[k].bank <= Len(banks')
  <2> SUFFICES ASSUME NEW k \in DOMAIN calls' PROVE calls'[k].bank <= Len(banks')
    OBVIOUS
  <2>1. f.bank = n
    OBVIOUS
  <2> HIDE DEF f
  <2>2. Len(calls') = Len(calls) + 1 /\ DOMAIN calls' = 1..(Len(calls) + 1) /\ Len(calls) \in Nat
        /\ DOMAIN calls = 1..Len(calls)
    BY <1>2, <1>5 DEF Frames
  <2>3. CASE k = Len(calls) + 1
    <3>1. calls'[k] = f
      BY <2>3, <1>2, <1>5 DEF Frames
    <3> QED
      BY <3>1, <2>1, <1>7
  <2>4. CASE k # Len(calls) + 1
    <3>1. k \in DOMAIN calls
      BY <2>2, <2>4
    <3>2. calls'[k] = calls[k] /\ calls[k] \in FrameType
      BY <2>2, <3>1, <1>2, <1>5 DEF Frames
    <3>3. calls[k].bank <= Len(banks) /\ calls[k].bank \in Nat
      BY <3>1, <3>2 DEF SyncInv, TypeOK, FrameType
    <3> QED
      BY <3>2, <3>3, <1>4, <1>7
  <2> QED
    BY <2>3, <2>4
<1> HIDE DEF f
<1>10. TypeOK'
  BY <1>4, <1>5, <1>7, <1>8, <1>9 DEF SyncInv, TypeOK, Frames
<1>11. StackInv'
  BY <1>2, <1>5, <1>8, NestedKept DEF StackInv
<1> QED
  BY <1>10, <1>11 DEF SyncInv

\* ParseBank passes over a bank.
LEMMA SyncParseNothing ==
  ASSUME ParserAssumption, SyncInv, ParseNothing
  PROVE  SyncInv'
<1>1. /\ event \in Events /\ Frames(Stepped(calls)) /\ Nested(Stepped(calls))
      /\ DOMAIN Stepped(calls) = DOMAIN calls
      /\ \A k \in DOMAIN calls : Stepped(calls)[k].bank = calls[k].bank
  BY ParsingFacts DEF ParseNothing
<1>2. /\ banks' = banks /\ leafs' = leafs /\ name_index' = name_index /\ settings' = settings
      /\ event' = event /\ phase' = phase /\ count' = count /\ calls' = Stepped(calls)
  BY DEF ParseNothing, bankVars
<1>3. calls' \in Seq(FrameType) /\ \A k \in DOMAIN calls' : calls'[k].bank <= Len(banks')
  BY <1>1, <1>2 DEF SyncInv, TypeOK, Frames
<1>4. TypeOK'
  BY <1>2, <1>3 DEF SyncInv, TypeOK
<1>5. StackInv'
  BY <1>1, <1>2, NestedKept DEF StackInv
<1> QED
  BY <1>4, <1>5 DEF SyncInv

\* ParseBank comes back from a container.
LEMMA SyncEndContainer ==
  ASSUME ParserAssumption, SyncInv, EndContainer
  PROVE  SyncInv'
<1> DEFINE ds == SubSeq(calls, 1, Len(calls) - 1)
<1>1. event \in Events /\ Frames(calls) /\ Nested(calls)
  BY DEF SyncInv, TypeOK, StackInv, EndContainer, Frames
<1>2. Len(calls) >= 2
  BY <1>1 DEF EndContainer, Top, Nested, Frames
<1>3. /\ Frames(ds) /\ Nested(ds) /\ Len(ds) = Len(calls) - 1
      /\ ds[Len(ds)].p < Limit(ds[Len(ds)]) /\ \A k \in DOMAIN ds : ds[k] = calls[k]
  BY <1>1, <1>2, PopNested
<1>4. /\ banks' = banks /\ leafs' = leafs /\ name_index' = name_index /\ settings' = settings
      /\ event' = event /\ phase' = phase /\ count' = count /\ calls' = Stepped(ds)
  BY DEF EndContainer, bankVars
<1> HIDE DEF ds
<1>5. Frames(Stepped(ds)) /\ Nested(Stepped(ds))
  BY <1>1, <1>3, StepNested
<1>6. \A k \in DOMAIN calls' : calls'[k].bank <= Len(banks')
  <2>1. DOMAIN calls' = DOMAIN ds /\ \A k \in DOMAIN ds : calls'[k].bank = ds[k].bank
    BY <1>3, <1>4 DEF Stepped, Frames, FrameType
  <2>2. \A k \in DOMAIN ds : k \in DOMAIN calls
    BY <1>1, <1>2, <1>3 DEF Frames
  <2> QED
    BY <2>1, <2>2, <1>3, <1>4 DEF SyncInv, TypeOK
<1>7. TypeOK'
  BY <1>4, <1>5, <1>6 DEF SyncInv, TypeOK, Frames
<1>8. StackInv'
  BY <1>1, <1>4, <1>5, NestedKept DEF StackInv
<1> QED
  BY <1>7, <1>8 DEF SyncInv

\* Every step keeps the parser in step.
LEMMA SyncStep ==
  ASSUME ParserAssumption, SyncInv, [Next]_vars
  PROVE  SyncInv'
<1>1. CASE Booking
  BY <1>1, SyncBooking
<1>2. CASE \E e \in Events : NextEvent(e)
  BY <1>2, SyncNextEvent
<1>3. CASE ParseLeaf
  BY <1>3, SyncParseLeaf
<1>4. CASE ParseContainer
  BY <1>4, SyncParseContainer
<1>5. CASE ParseNothing
  BY <1>5, SyncParseNothing
<1>6. CASE EndContainer
  BY <1>6, SyncEndContainer
<1>7. CASE EndEvent
  <2>1. /\ banks' = banks /\ leafs' = leafs /\ name_index' = name_index /\ settings' = settings
        /\ event' = event /\ phase' = "parsed" /\ count' = count /\ calls' = <<>>
    BY <1>7 DEF EndEvent, bankVars
  <2> QED
    BY <2>1 DEF SyncInv, TypeOK, Phases
<1>8. CASE UNCHANGED vars
  <2>1. /\ banks' = banks /\ leafs' = leafs /\ name_index' = name_index /\ settings' = settings
        /\ event' = event /\ phase' = phase /\ count' = count /\ calls' = calls
    BY <1>8 DEF vars, bankVars, parseVars
  <2>2. phase' = "parsing" => StackInv'
    BY <2>1, NestedKept DEF SyncInv, StackInv
  <2>3. TypeOK'
    BY <2>1 DEF SyncInv, TypeOK
  <2> QED
    BY <2>2, <2>3 DEF SyncInv
<1> QED
  BY <1>1, <1>2, <1>3, <1>4, <1>5, <1>6, <1>7, <1>8 DEF Next, ParseBank

\* What makes TypeOK and InSync inductive holds.
LEMMA InStep == Spec => []SyncInv
<1>1. Init => SyncInv
  BY SyncInit, ParserAssumption
<1>2. SyncInv /\ [Next]_vars => SyncInv'
  BY SyncStep, ParserAssumption
<1> QED
  BY <1>1, <1>2, PTL DEF Spec

\* Whatever well-formed events are read into whatever a program booked, every
\* variable keeps its type; in particular ContainerNodeHandler and AddOrFillLeaf
\* only use banks and leafs that exist.
THEOREM ParserTypeCorrect == Spec => []TypeOK
<1>1. SyncInv => TypeOK
  BY DEF SyncInv
<1> QED
  BY <1>1, InStep, PTL

\* Where the frames are nested the top one is at a child of its container or at its end.
LEMMA SyncGivesInSync ==
  ASSUME SyncInv
  PROVE  InSync
<1> SUFFICES ASSUME phase = "parsing"
             PROVE  IF Top.p < Limit(Top) THEN Top.p \in ChildrenOf(event, Top.at)
                                          ELSE Top.p = Limit(Top)
  BY DEF InSync
<1>1. Nested(calls) /\ Frames(calls) /\ event \in Events
  BY DEF SyncInv, StackInv, TypeOK, Frames
<1>2. Len(calls) \in DOMAIN calls
  BY <1>1 DEF Nested, Frames
<1>3. Top.p = Limit(Top) \/ Top.p \in ChildrenOf(event, Top.at)
  BY <1>1, <1>2 DEF Nested, Top
<1>4. Top.p \in ChildrenOf(event, Top.at) => Top.p < Limit(Top)
  <2> SUFFICES ASSUME Top.p \in ChildrenOf(event, Top.at) PROVE Top.p < Limit(Top)
    OBVIOUS
  <2>1. WellFormed(event) /\ Top.p \in DOMAIN event /\ event[Top.p].up = Top.at
    BY <1>1, ParserAssumption DEF ParserAssumption, ChildrenOf
  <2>2. Top.p < EndOf(event, Top.p) /\ Top.p \in Nat /\ EndOf(event, Top.p) \in Nat
    BY <1>1, <2>1, Extents, ParserAssumption
  <2>3. CASE Top.at = Outside
    <3>1. Top.p = 0
      BY <2>1, <2>3 DEF WellFormed, Outside
    <3> QED
      BY <2>2, <2>3, <3>1 DEF Limit
  <2>4. CASE Top.at # Outside
    <3>1. Top.at \in DOMAIN event /\ Top.p # 0
      BY <2>1, <2>4 DEF WellFormed
    <3>2. EndOf(event, Top.p) <= EndOf(event, Top.at) /\ EndOf(event, Top.at) \in Nat
      BY <1>1, <2>1, <3>1, Extents, ParserAssumption DEF WellFormed
    <3> QED
      BY <2>2, <2>4, <3>2 DEF Limit
  <2> QED
    BY <2>3, <2>4
<1>5. Top.p \in Nat
  <2>1. Top \in FrameType
    BY <1>1, <1>2 DEF Top, Frames
  <2> QED
    BY <2>1 DEF FrameType
<1> QED
  BY <1>3, <1>4, <1>5

\* ParseBank never takes data for a header, never leaves a container before its
\* end and never runs past it, for every well-formed event.
THEOREM StaysInSync == Spec => []InSync
<1>1. SyncInv => InSync
  BY SyncGivesInSync
<1> QED
  BY <1>1, InStep, PTL

-----------------------------------------------------------------------------
(* Names lead to leafs.                                                    *)

\* An entry e of the index of names has the place of leaf m of its bank.  No leaf
\* before m has the name of the entry, and m has it if any leaf has, or if the
\* name is one without a "+".
LeadsTo(e, ls, m) ==
  /\ ls[m].bank = e.bank
  /\ Cardinality({k \in DOMAIN ls : ls[k].bank = e.bank /\ k < m}) = e.loc
  /\ e.name[2] = 0 => ls[m].name = e.name
  /\ \A k \in DOMAIN ls : ls[k].bank = e.bank /\ ls[k].name = e.name => m <= k /\ ls[m].name = e.name

\* The index ix has one entry for a name of a bank, has one for the name of each of
\* the leafs ls, and what is not among the orphans os leads to a leaf.
NamesFit(ls, ix, os) ==
  /\ \A e, f \in ix : e.bank = f.bank /\ e.name = f.name => e = f
  /\ \A e \in ix : e.bank # Gone
  /\ \A e \in ix \ os : \E m \in DOMAIN ls : LeadsTo(e, ls, m)
  /\ \A l \in DOMAIN ls : ls[l].bank # Gone =>
       \E e \in ix : e.bank = ls[l].bank /\ e.name = ls[l].name
LeafsHaveBanks == \A l \in DOMAIN leafs : leafs[l].bank \in DOMAIN banks \cup {Gone}

NameInv == NamesFit(leafs, name_index, orphans) /\ LeafsHaveBanks

\* Leafs keep their places when they keep their names and, in the banks that
\* stay, their banks.
LEMMA NamesKept ==
  ASSUME NEW ls, NEW ms, NEW ix, NEW jx, NEW os, NamesFit(ls, ix, os), jx \subseteq ix,
         DOMAIN ms = DOMAIN ls, \A l \in DOMAIN ls : ms[l].name = ls[l].name,
         \A e \in jx : \A l \in DOMAIN ls : ms[l].bank = e.bank <=> ls[l].bank = e.bank,
         \A l \in DOMAIN ls : ms[l].bank # Gone =>
           ms[l].bank = ls[l].bank /\ \A e \in ix : e.bank = ls[l].bank => e \in jx
  PROVE  NamesFit(ms, jx, os)
<1>1. ASSUME NEW e \in jx \ os
      PROVE  \E m \in DOMAIN ms : LeadsTo(e, ms, m)
  <2>1. PICK m \in DOMAIN ls : LeadsTo(e, ls, m)
    BY DEF NamesFit
  <2>2. {k \in DOMAIN ms : ms[k].bank = e.bank /\ k < m} = {k \in DOMAIN ls : ls[k].bank = e.bank /\ k < m}
    OBVIOUS
  <2>3. LeadsTo(e, ms, m)
    BY <2>1, <2>2 DEF LeadsTo
  <2> QED
    BY <2>3
<1>2. \A l \in DOMAIN ms : ms[l].bank # Gone =>
        \E e \in jx : e.bank = ms[l].bank /\ e.name = ms[l].name
  BY DEF NamesFit
<1> QED
  BY <1>1, <1>2 DEF NamesFit

\* A leaf is added behind the others of its bank, where StoreLocation says it is,
\* under a name that was not in the index: its own, or its own with a "+".
LEMMA NamesAdded ==
  ASSUME leafs \in Seq(LeafType), IsFiniteSet(name_index), NEW os,
         NamesFit(leafs, name_index, os), NEW b, b # Gone, NEW base,
         NEW x \in LeafType, x.bank = b,
         x.name = <<base, Pluses(b, base)>> \/ x.name = <<base, 0>>
  PROVE  NamesFit(Append(leafs, x), StoreLocation(b, base), os)
<1> DEFINE ms  == Append(leafs, x)
           n   == Len(leafs)
           nm  == <<base, Pluses(b, base)>>
           new == [bank |-> b, name |-> nm, loc |-> Cardinality(LeafsOf(b))]
<1>1. /\ n \in Nat /\ DOMAIN leafs = 1..n /\ DOMAIN ms = 1..(n + 1) /\ ms[n + 1] = x
      /\ \A k \in 1..n : ms[k] = leafs[k]
  OBVIOUS
<1>2. StoreLocation(b, base) = name_index \cup {new}
  BY DEF StoreLocation
<1>3. /\ \A e \in name_index : ~(e.bank = b /\ e.name = nm)
      /\ nm[2] = 0 => nm = <<base, 0>>
      /\ Pluses(b, base) = 0 \/ \E e \in name_index : e.bank = b /\ e.name = <<base, 0>>
  <2>1. nm[2] = Pluses(b, base)
    OBVIOUS
  <2>2. nm[2] = 0 => nm = <<base, 0>>
    BY <2>1
  <2>3. NameIsFree(b, base)
    BY PlusesIsNew
  <2> QED
    BY <2>2, <2>3, Zenon DEF NameIsFree
<1>4. new.bank = b /\ new.name = nm /\ new.loc = Cardinality(LeafsOf(b))
  OBVIOUS
<1>5. n + 1 \in DOMAIN ms
  BY <1>1
<1>6. x.name = nm \/ (x.name = <<base, 0>> /\ x.name[2] = 0)
  OBVIOUS
<1> HIDE DEF ms, n, new, nm
<1>7. LeadsTo(new, ms, n + 1)
  <2>1. {k \in DOMAIN ms : ms[k].bank = b /\ k < n + 1} = LeafsOf(b)
    BY <1>1 DEF LeafsOf
  <2>2. nm[2] = 0 => x.name = nm
    BY <1>3 DEF nm
  <2>3. ASSUME NEW k \in DOMAIN ms, ms[k].bank = b, ms[k].name = nm
        PROVE  k = n + 1
    <3> SUFFICES ASSUME k \in 1..n PROVE FALSE
      BY <1>1
    <3> QED
      BY <1>1, <1>3, <2>3 DEF NamesFit
  <2>4. \A k \in DOMAIN ms : ms[k].bank = b /\ ms[k].name = nm => n + 1 <= k /\ x.name = nm
    BY <1>1, <2>3
  <2> QED
    BY <1>1, <1>4, <2>1, <2>2, <2>4 DEF LeadsTo
<1>8. ASSUME NEW e \in name_index \ os
      PROVE  \E m \in DOMAIN ms : LeadsTo(e, ms, m)
  <2>1. PICK m \in DOMAIN leafs : LeadsTo(e, leafs, m)
    BY DEF NamesFit
  <2>2. {k \in DOMAIN ms : ms[k].bank = e.bank /\ k < m}
          = {k \in DOMAIN leafs : leafs[k].bank = e.bank /\ k < m}
    BY <1>1
  <2>3. m \in DOMAIN ms /\ ms[m] = leafs[m] /\ m <= n + 1
    BY <1>1
  <2>4. ASSUME x.bank = e.bank, x.name = e.name
        PROVE  ms[m].name = e.name
    BY <1>3, <1>6, <2>1, <2>3, <2>4 DEF LeadsTo
  <2>5. ASSUME NEW k \in DOMAIN ms, ms[k].bank = e.bank, ms[k].name = e.name
        PROVE  m <= k /\ ms[m].name = e.name
    <3>1. CASE k = n + 1
      BY <1>1, <2>3, <2>4, <2>5, <3>1
    <3>2. CASE k \in 1..n
      BY <1>1, <2>1, <2>3, <2>5, <3>2 DEF LeadsTo
    <3> QED
      BY <1>1, <3>1, <3>2
  <2>6. LeadsTo(e, ms, m)
    BY <2>1, <2>2, <2>3, <2>5 DEF LeadsTo
  <2> QED
    BY <2>3, <2>6
<1>9. \A e, f \in name_index \cup {new} : e.bank = f.bank /\ e.name = f.name => e = f
  BY <1>3, <1>4 DEF NamesFit
<1>10. ASSUME NEW l \in DOMAIN ms, ms[l].bank # Gone
       PROVE  \E e \in name_index \cup {new} : e.bank = ms[l].bank /\ e.name = ms[l].name
  <2>1. CASE l \in 1..n
    BY <1>1, <1>10, <2>1 DEF NamesFit
  <2>2. CASE l = n + 1 /\ x.name = nm
    BY <1>1, <1>4, <2>2
  <2>3. CASE l = n + 1 /\ x.name # nm
    <3>1. x.name = <<base, 0>> /\ Pluses(b, base) # 0
      BY <1>6, <2>3 DEF nm
    <3>2. \E e \in name_index : e.bank = b /\ e.name = <<base, 0>>
      BY <1>3, <3>1
    <3> QED
      BY <1>1, <2>3, <3>1, <3>2
  <2> QED
    BY <1>1, <2>1, <2>2, <2>3
<1>11. \A e \in name_index \cup {new} : e.bank # Gone
  BY <1>4 DEF NamesFit
<1>12. NamesFit(ms, name_index \cup {new}, os)
  BY <1>5, <1>7, <1>8, <1>9, <1>10, <1>11 DEF NamesFit
<1> QED
  BY <1>2, <1>12 DEF ms

\* Booking a leaf either way, or one the parser makes, keeps the index right.
LEMMA NamesBooking ==
  ASSUME ParserAssumption, SyncInv, NameInv, Booking
  PROVE  NameInv'
<1>1. leafs \in Seq(LeafType) /\ IsFiniteSet(name_index) /\ banks \in Seq(BankType)
  BY DEF SyncInv, TypeOK
<1>2. orphans' = orphans
  BY DEF Booking, Book, BookLeaf, BookThisLeaf, BookBank, BookBankOfTags, Unbook
<1>3. ASSUME NEW b \in DOMAIN banks, NEW n \in Names, NEW x \in LeafType, x.bank = b,
             x.name = <<<<n, 0, 0>>, Pluses(b, <<n, 0, 0>>)>> \/ x.name = <<<<n, 0, 0>>, 0>>,
             leafs' = Append(leafs, x), name_index' = StoreLocation(b, <<n, 0, 0>>), banks' = banks
      PROVE  NameInv'
  <2>1. b # Gone
    BY <1>1 DEF Gone
  <2>2. NamesFit(Append(leafs, x), StoreLocation(b, <<n, 0, 0>>), orphans)
    BY <1>1, <1>3, <2>1, NamesAdded DEF NameInv
  <2>3. \A l \in DOMAIN leafs' : (l \in DOMAIN leafs /\ leafs'[l] = leafs[l]) \/ leafs'[l] = x
    BY <1>1, <1>3
  <2>4. LeafsHaveBanks'
    BY <1>3, <2>3 DEF NameInv, LeafsHaveBanks
  <2> QED
    BY <1>2, <1>3, <2>2, <2>4 DEF NameInv
<1>4. CASE Book(BookLeaf)
  <2>1. PICK b \in DOMAIN banks, n \in Names, t \in Tags, m \in Nums, y \in BookTypes :
          AddLeaf(b, <<n, 0, 0>>, t, m, y)
    BY <1>4 DEF Book, BookLeaf
  <2> DEFINE x == NewLeaf(b, <<n, 0, 0>>, t, m, y)
  <2>2. b \in Nat /\ <<n, 0, 0>> \in BaseNames /\ t \in Nat /\ m \in Nat /\ y \in LeafTypes
    BY <1>1 DEF ParserAssumption, BaseNames
  <2>3. x \in LeafType /\ x.bank = b /\ x.name = <<<<n, 0, 0>>, Pluses(b, <<n, 0, 0>>)>>
    BY <1>1, <2>2, NewLeafType DEF NewLeaf, LeafOf
  <2>4. leafs' = Append(leafs, x) /\ name_index' = StoreLocation(b, <<n, 0, 0>>) /\ banks' = banks
    BY <2>1 DEF AddLeaf
  <2> HIDE DEF x
  <2> QED
    BY <1>3, <2>3, <2>4
<1>5. CASE Book(BookThisLeaf)
  <2>1. PICK b \in DOMAIN banks, n \in Names, t \in Tags, m \in Nums, y \in BookTypes :
          AddThisLeaf(b, <<n, 0, 0>>, t, m, y)
    BY <1>5 DEF Book, BookThisLeaf
  <2> DEFINE x == ThisLeaf(b, <<n, 0, 0>>, t, m, y)
  <2>2. b \in Nat /\ <<n, 0, 0>> \in BaseNames /\ t \in Nat /\ m \in Nat /\ y \in LeafTypes
    BY <1>1 DEF ParserAssumption, BaseNames
  <2>3. x \in LeafType /\ x.bank = b /\ x.name = <<<<n, 0, 0>>, 0>>
    BY <1>1, <2>2, NewLeafType DEF ThisLeaf, LeafOf
  <2>4. leafs' = Append(leafs, x) /\ name_index' = StoreLocation(b, <<n, 0, 0>>) /\ banks' = banks
    BY <2>1 DEF AddThisLeaf
  <2> HIDE DEF x
  <2> QED
    BY <1>3, <2>3, <2>4
<1>6. ASSUME leafs' = leafs, name_index' = name_index, DOMAIN banks \subseteq DOMAIN banks'
      PROVE  NameInv'
  BY <1>2, <1>6 DEF NameInv, LeafsHaveBanks
<1>7. CASE Book(BookBank)
  <2>1. PICK b, t, m, o : AddBank(b, t, m, o)
    BY <1>7 DEF Book, BookBank
  <2>2. leafs' = leafs /\ name_index' = name_index /\ DOMAIN banks \subseteq DOMAIN banks'
    BY <1>1, <2>1 DEF AddBank
  <2> QED
    BY <1>6, <2>2
<1>8. CASE Book(BookBankOfTags)
  <2>1. PICK b, ts, m : AddBankOfTags(b, ts, m)
    BY <1>8 DEF Book, BookBankOfTags
  <2>2. leafs' = leafs /\ name_index' = name_index /\ DOMAIN banks \subseteq DOMAIN banks'
    BY <1>1, <2>1 DEF AddBankOfTags
  <2> QED
    BY <1>6, <2>2
<1>9. CASE Book(Unbook)
  <2>1. PICK b \in DOMAIN banks \ {Root} : RemoveBank(b)
    BY <1>9 DEF Book, Unbook
  <2> DEFINE ms == LeafsWithout(Below(b))
             jx == {e \in name_index : e.bank \notin Below(b)}
  <2>2. leafs' = ms /\ name_index' = jx /\ DOMAIN banks' = DOMAIN banks
    BY <2>1 DEF RemoveBank, BanksWithout
  <2>3. DOMAIN ms = DOMAIN leafs
    BY DEF LeafsWithout
  <2>4. ASSUME NEW l \in DOMAIN leafs
        PROVE  /\ ms[l].name = leafs[l].name
               /\ IF leafs[l].bank \in Below(b) THEN ms[l].bank = Gone ELSE ms[l].bank = leafs[l].bank
    <3>1. leafs[l] \in LeafType
      BY <1>1
    <3>2. ms[l] = IF leafs[l].bank \in Below(b) THEN [leafs[l] EXCEPT !.bank = Gone, !.data = <<>>]
                  ELSE leafs[l]
      BY DEF LeafsWithout
    <3> HIDE DEF ms
    <3> QED
      BY <3>1, <3>2 DEF LeafType
  <2>5. /\ jx \subseteq name_index /\ \A e \in jx : e.bank \notin Below(b) /\ e.bank # Gone
        /\ \A e \in name_index : e.bank \notin Below(b) => e \in jx
    BY DEF NameInv, NamesFit
  <2>6. NamesFit(leafs, name_index, orphans) /\ LeafsHaveBanks
    BY DEF NameInv
  <2> HIDE DEF ms, jx
  <2>7. \A e \in jx : \A l \in DOMAIN leafs : ms[l].bank = e.bank <=> leafs[l].bank = e.bank
    BY <2>4, <2>5
  <2>8. \A l \in DOMAIN leafs : ms[l].bank # Gone =>
          ms[l].bank = leafs[l].bank /\ \A e \in name_index : e.bank = leafs[l].bank => e \in jx
    BY <2>4, <2>5
  <2>9. NamesFit(ms, jx, orphans)
    BY <2>3, <2>4, <2>5, <2>6, <2>7, <2>8, NamesKept
  <2>10. LeafsHaveBanks'
    BY <2>2, <2>3, <2>4, <2>6 DEF LeafsHaveBanks
  <2> QED
    BY <1>2, <2>2, <2>9, <2>10 DEF NameInv
<1> QED
  BY <1>4, <1>5, <1>7, <1>8, <1>9 DEF Booking

LEMMA NamesParseLeaf ==
  ASSUME ParserAssumption, SyncInv, NameInv, ParseLeaf
  PROVE  NameInv'
<1>1. /\ Parsing /\ Top.bank # None /\ Here.type \in LeafTypes
      /\ orphans' = orphans /\ banks' = banks
      /\ name_index' = IF Added THEN StoreLocation(Top.bank, LeafName) ELSE name_index
  BY DEF ParseLeaf
<1>2. /\ LeafsNow \in Seq(LeafType) /\ LeafHere \in 0..Len(LeafsNow)
      /\ leafs \in Seq(LeafType) /\ IsFiniteSet(name_index) /\ banks \in Seq(BankType)
  BY <1>1, LeafFacts DEF SyncInv, TypeOK
<1>3. /\ NamesFit(LeafsNow, name_index', orphans)
      /\ \A k \in DOMAIN LeafsNow : LeafsNow[k].bank \in DOMAIN banks \cup {Gone}
  <2>1. CASE Added
    <3> DEFINE x == NewLeaf(Top.bank, LeafName, Here.tag, Here.num, Here.type)
    <3>1. LeafsNow = Append(leafs, x) /\ name_index' = StoreLocation(Top.bank, LeafName)
      BY <1>1, <2>1 DEF LeafsNow
    <3>2. /\ Top.bank \in Nat /\ Top.bank # Gone /\ LeafName \in BaseNames
          /\ Here.tag \in Nat /\ Here.num \in Nat /\ Top.bank \in DOMAIN banks
      <4>1. Top \in FrameType /\ Here \in HeaderType /\ Top.bank \in 0..Len(banks)
        BY <1>1, ParsingFacts
      <4>2. Here.tag \in Nat /\ Here.num \in Nat /\ Top.bank \in Nat
        BY <4>1 DEF HeaderType, FrameType
      <4>3. AutoName(Here.type) \in Names \cup {"Int", "String", "FADC"}
        BY DEF AutoName
      <4>4. LeafName \in BaseNames
        BY <4>2, <4>3 DEF LeafName, BaseNames
      <4> QED
        BY <1>1, <1>2, <4>1, <4>2, <4>4 DEF Gone, None
    <3>3. x \in LeafType /\ x.bank = Top.bank /\ x.name = <<LeafName, Pluses(Top.bank, LeafName)>>
      BY <1>1, <1>2, <3>2, NewLeafType DEF NewLeaf, LeafOf
    <3> HIDE DEF x
    <3>4. NamesFit(LeafsNow, name_index', orphans)
      BY <1>2, <3>1, <3>2, <3>3, NamesAdded DEF NameInv
    <3>5. \A k \in DOMAIN LeafsNow : (k \in DOMAIN leafs /\ LeafsNow[k] = leafs[k]) \/ LeafsNow[k] = x
      BY <1>2, <3>1
    <3> QED
      BY <3>2, <3>3, <3>4, <3>5 DEF NameInv, LeafsHaveBanks
  <2>2. CASE ~Added
    BY <1>1, <2>2 DEF LeafsNow, NameInv, LeafsHaveBanks
  <2> QED
    BY <2>1, <2>2
<1> DEFINE ls == LeafsNow
           l  == LeafHere
<1>4. CASE leafs' = leafs /\ ~Added
  BY <1>1, <1>4 DEF NameInv, LeafsHaveBanks
<1>5. CASE LeafHere = None
  <2>1. ~Added
    BY <1>2, <1>5 DEF LeafHere, None
  <2>2. leafs' = leafs
    BY <1>1, <1>5, <2>1 DEF ParseLeaf
  <2> QED
    BY <1>4, <2>1, <2>2
<1>6. CASE LeafHere # None
  <2>1. CASE phase' = phase
    <3>1. leafs' = [ls EXCEPT ![l].data = Append(@, Datum)]
      <4>1. phase # "corrupt"
        BY <1>1 DEF Parsing
      <4> QED
        BY <1>6, <2>1, <4>1 DEF ParseLeaf
    <3> HIDE DEF ls, l
    <3>2. l \in DOMAIN ls /\ ls \in Seq(LeafType)
      BY <1>2, <1>6 DEF ls, l, None
    <3>3. DOMAIN leafs' = DOMAIN ls
      BY <3>1
    <3>4. \A k \in DOMAIN ls : leafs'[k].name = ls[k].name /\ leafs'[k].bank = ls[k].bank
      <4>1. \A k \in DOMAIN ls : ls[k] \in LeafType
        BY <3>2
      <4> QED
        BY <3>1, <3>2, <4>1 DEF LeafType
    <3>5. /\ NamesFit(ls, name_index', orphans)
          /\ \A k \in DOMAIN ls : ls[k].bank \in DOMAIN banks \cup {Gone}
      BY <1>3 DEF ls
    <3>6. NamesFit(leafs', name_index', orphans)
      <4> DEFINE jx == name_index'
                 ms == leafs'
      <4>1. /\ \A k \in DOMAIN ls : ms[k].bank # Gone =>
                 ms[k].bank = ls[k].bank /\ \A e \in jx : e.bank = ls[k].bank => e \in jx
            /\ \A e \in jx : \A k \in DOMAIN ls : ms[k].bank = e.bank <=> ls[k].bank = e.bank
        BY <3>4
      <4>2. /\ DOMAIN ms = DOMAIN ls /\ NamesFit(ls, jx, orphans) /\ jx \subseteq jx
            /\ \A k \in DOMAIN ls : ms[k].name = ls[k].name
        BY <3>3, <3>4, <3>5
      <4> HIDE DEF jx, ms
      <4>3. NamesFit(ms, jx, orphans)
        BY <4>1, <4>2, NamesKept
      <4> QED
        BY <4>3 DEF jx, ms
    <3> QED
      BY <1>1, <3>3, <3>4, <3>5, <3>6 DEF NameInv, LeafsHaveBanks
  <2>2. CASE phase' # phase
    <3>1. leafs' = leafs /\ Corrupts(Here.type, ls[l].type)
      BY <2>2 DEF ParseLeaf
    <3>2. ~Added
      <4> SUFFICES ASSUME Added PROVE FALSE
        OBVIOUS
      <4> DEFINE x == NewLeaf(Top.bank, LeafName, Here.tag, Here.num, Here.type)
      <4>1. ls = Append(leafs, x) /\ l = Len(leafs) + 1
        BY DEF LeafsNow, LeafHere
      <4>2. x.type = Here.type
        BY DEF NewLeaf, LeafOf
      <4> HIDE DEF x, ls, l
      <4>3. ls[l] = x
        BY <1>2, <4>1
      <4> QED
        BY <3>1, <4>2, <4>3 DEF Corrupts
    <3> QED
      BY <1>4, <3>1, <3>2
  <2> QED
    BY <2>1, <2>2
<1> QED
  BY <1>5, <1>6

\* Clear keeps every leaf in its place, or deletes them all.
LEMMA NamesNextEvent ==
  ASSUME ParserAssumption, SyncInv, NameInv, NEW e \in Events, NextEvent(e)
  PROVE  NameInv'
<1>1. /\ leafs' = ClearedLeafs(settings.fFullErase)
      /\ name_index' = ClearedIndex(settings.fFullErase)
      /\ orphans' = IF settings.fFullErase THEN name_index' ELSE orphans
  BY DEF NextEvent
<1>2. /\ banks \in Seq(BankType) /\ \A l \in DOMAIN leafs : leafs[l] \in LeafType
      /\ NamesFit(leafs, name_index, orphans) /\ LeafsHaveBanks
  BY DEF SyncInv, TypeOK, NameInv
<1>3. DOMAIN banks' = DOMAIN banks
  <2>1. DOMAIN ClearedBanks(settings.fFullErase) = DOMAIN banks
    BY DEF ClearedBanks, BanksWithout
  <2>2. banks' = Entered(ClearedBanks(settings.fFullErase), Root, e[0])
    BY DEF NextEvent
  <2> QED
    BY <2>1, <2>2 DEF Entered
<1>4. CASE settings.fFullErase
  <2>1. leafs' = LeafsWithout(DOMAIN banks) /\ orphans' = name_index' /\ name_index' \subseteq name_index
    BY <1>1, <1>4 DEF ClearedLeafs, ClearedIndex
  <2>2. ASSUME NEW l \in DOMAIN leafs' PROVE leafs'[l].bank = Gone
    <3>1. l \in DOMAIN leafs /\ leafs[l] \in LeafType /\ leafs[l].bank \in DOMAIN banks \cup {Gone}
      BY <1>2, <2>1 DEF LeafsWithout, LeafsHaveBanks
    <3>2. leafs'[l] = IF leafs[l].bank \in DOMAIN banks THEN [leafs[l] EXCEPT !.bank = Gone, !.data = <<>>]
                      ELSE leafs[l]
      BY <2>1, <3>1 DEF LeafsWithout
    <3> QED
      BY <3>1, <3>2 DEF LeafType
  <2>3. NamesFit(leafs', name_index', orphans')
    BY <1>2, <2>1, <2>2 DEF NamesFit
  <2> QED
    BY <2>2, <2>3 DEF NameInv, LeafsHaveBanks
<1>5. CASE ~settings.fFullErase
  <2>1. /\ name_index' = name_index /\ orphans' = orphans
        /\ leafs' = [l \in DOMAIN leafs |-> [leafs[l] EXCEPT !.data = <<>>]]
    BY <1>1, <1>5 DEF ClearedLeafs, ClearedIndex
  <2>2. /\ DOMAIN leafs' = DOMAIN leafs
        /\ \A l \in DOMAIN leafs : leafs'[l].name = leafs[l].name /\ leafs'[l].bank = leafs[l].bank
    BY <1>2, <2>1 DEF LeafType
  <2>3. NamesFit(leafs', name_index, orphans)
    <3> DEFINE ms == leafs'
    <3>1. /\ DOMAIN ms = DOMAIN leafs
          /\ \A l \in DOMAIN leafs : ms[l].name = leafs[l].name /\ ms[l].bank = leafs[l].bank
      BY <2>2
    <3> HIDE DEF ms
    <3>2. /\ \A l \in DOMAIN leafs : ms[l].bank # Gone =>
               ms[l].bank = leafs[l].bank /\ \A f \in name_index : f.bank = leafs[l].bank => f \in name_index
          /\ \A f \in name_index : \A l \in DOMAIN leafs : ms[l].bank = f.bank <=> leafs[l].bank = f.bank
          /\ \A l \in DOMAIN leafs : ms[l].name = leafs[l].name
          /\ name_index \subseteq name_index
      BY <3>1
    <3>3. NamesFit(ms, name_index, orphans)
      BY <1>2, <3>1, <3>2, NamesKept
    <3> QED
      BY <3>3 DEF ms
  <2> QED
    BY <1>2, <1>3, <2>1, <2>2, <2>3 DEF NameInv, LeafsHaveBanks
<1> QED
  BY <1>4, <1>5

LEMMA NamesStep ==
  ASSUME ParserAssumption, SyncInv, NameInv, [Next]_vars
  PROVE  NameInv'
<1>1. CASE Booking
  BY <1>1, NamesBooking
<1>2. CASE \E e \in Events : NextEvent(e)
  BY <1>2, NamesNextEvent
<1>3. CASE ParseLeaf
  BY <1>3, NamesParseLeaf
<1>4. CASE ParseContainer
  <2>1. leafs' = leafs /\ name_index' = name_index /\ orphans' = orphans
    BY <1>4 DEF ParseContainer
  <2>2. DOMAIN banks \subseteq DOMAIN banks'
    <3>1. Parsing /\ Top.bank # None
      BY <1>4 DEF ParseContainer
    <3>2. banks \in Seq(BankType)
      BY DEF SyncInv, TypeOK
    <3>3. DOMAIN banks \subseteq DOMAIN BanksNow(Node)
      BY <3>2 DEF BanksNow
    <3>4. banks' = banks \/ banks' = Entered(BanksNow(Node), Node, Here)
      BY <1>4 DEF ParseContainer
    <3> QED
      BY <3>3, <3>4 DEF Entered
  <2> QED
    BY <2>1, <2>2 DEF NameInv, LeafsHaveBanks
<1>5. CASE ParseNothing \/ EndContainer \/ EndEvent \/ UNCHANGED vars
  <2>1. leafs' = leafs /\ name_index' = name_index /\ orphans' = orphans /\ banks' = banks
    BY <1>5 DEF ParseNothing, EndContainer, EndEvent, vars, bankVars
  <2> QED
    BY <2>1 DEF NameInv, LeafsHaveBanks
<1> QED
  BY <1>1, <1>2, <1>3, <1>4, <1>5 DEF Next, ParseBank

\* Two leafs of a bank do not have the same place.
LEMMA PlacesDiffer ==
  ASSUME leafs \in Seq(LeafType), NEW b, NEW j \in LeafsOf(b), NEW l \in LeafsOf(b),
         Cardinality({k \in LeafsOf(b) : k < j}) = Cardinality({k \in LeafsOf(b) : k < l})
  PROVE  j = l
<1>1. LeafsOf(b) \subseteq 1..Len(leafs) /\ Len(leafs) \in Nat
  BY DEF LeafsOf
<1>2. IsFiniteSet(LeafsOf(b))
  <2>1. IsFiniteSet(1..Len(leafs))
    BY <1>1, FS_Interval
  <2> QED
    BY <1>1, <2>1, FS_Subset
<1>3. ASSUME NEW x \in LeafsOf(b), NEW y \in LeafsOf(b), x < y,
             Cardinality({k \in LeafsOf(b) : k < x}) = Cardinality({k \in LeafsOf(b) : k < y})
      PROVE  FALSE
  <2> DEFINE X == {k \in LeafsOf(b) : k < x}
             Y == {k \in LeafsOf(b) : k < y}
  <2>1. x \in Nat /\ y \in Nat /\ \A k \in LeafsOf(b) : k \in Nat
    BY <1>1
  <2>2. \A k \in LeafsOf(b) : k < x => k < y
    BY <1>3, <2>1
  <2>3. X \subseteq Y /\ Y \subseteq LeafsOf(b)
    BY <2>2
  <2>4. x \in Y /\ x \notin X
    BY <1>3, <2>1
  <2>5. IsFiniteSet(Y) /\ Cardinality(X) = Cardinality(Y)
    BY <1>2, <1>3, <2>3, FS_Subset
  <2> HIDE DEF X, Y
  <2> QED
    BY <2>3, <2>4, <2>5, FS_Subset
<1>4. j \in Nat /\ l \in Nat
  BY <1>1
<1> QED
  BY <1>3, <1>4

\* The entry StoreLocation makes for a leaf stays right for as long as the leaf
\* is there: booking, adding leafs while an event is parsed, removing banks and
\* clearing the tree between events never move a leaf of a bank that stays.  So a
\* leaf is found by its own name exactly if it is the first of that name.
THEOREM NamesLeadToLeafs == Spec => []NamesResolve
<1>1. Init => NameInv
  BY DEF Init, NameInv, NamesFit, LeafsHaveBanks
<1>2. SyncInv /\ NameInv /\ [Next]_vars => NameInv'
  BY NamesStep, ParserAssumption
<1>3. SyncInv /\ NameInv => NamesResolve
  <2> SUFFICES ASSUME SyncInv, NameInv, NEW l \in DOMAIN leafs, leafs[l].bank # Gone,
                      ~Orphaned(leafs[l].bank, leafs[l].name)
               PROVE  Named(leafs[l].bank, leafs[l].name) = {l} <=> FirstOfItsName(l)
    BY DEF NamesResolve
  <2> DEFINE b  == leafs[l].bank
             nm == leafs[l].name
  <2>1. leafs \in Seq(LeafType) /\ NamesFit(leafs, name_index, orphans)
    BY DEF SyncInv, TypeOK, NameInv
  <2>2. PICK e \in name_index : e.bank = b /\ e.name = nm
    BY <2>1 DEF NamesFit
  <2>3. e \notin orphans /\ \A f \in name_index : f.bank = b /\ f.name = nm => f = e
    BY <2>1, <2>2 DEF NamesFit, Orphaned
  <2>4. PICK m \in DOMAIN leafs : LeadsTo(e, leafs, m)
    BY <2>1, <2>3 DEF NamesFit
  <2>5. {k \in LeafsOf(b) : k < m} = {k \in DOMAIN leafs : leafs[k].bank = e.bank /\ k < m}
    BY <2>2 DEF LeafsOf
  <2>6. /\ m \in LeafsOf(b) /\ Cardinality({k \in LeafsOf(b) : k < m}) = e.loc
        /\ leafs[m].name = nm
        /\ \A k \in LeafsOf(b) : leafs[k].name = nm => m <= k
    BY <2>2, <2>4, <2>5 DEF LeadsTo, LeafsOf
  <2>7. l \in LeafsOf(b) /\ l \in Nat /\ \A k \in LeafsOf(b) : k \in Nat
    BY <2>1 DEF LeafsOf
  <2> HIDE DEF b, nm
  <2>8. Named(b, nm) = {m}
    <3>1. m \in Named(b, nm)
      BY <2>2, <2>6 DEF Named
    <3>2. ASSUME NEW j \in Named(b, nm) PROVE j = m
      <4>1. j \in LeafsOf(b) /\ Cardinality({k \in LeafsOf(b) : k < j}) = e.loc
        BY <2>3 DEF Named
      <4> QED
        BY <2>1, <2>6, <4>1, PlacesDiffer
    <3> QED
      BY <3>1, <3>2
  <2>9. FirstOfItsName(l) <=> m = l
    BY <2>6, <2>7 DEF FirstOfItsName, b, nm
  <2> QED
    BY <2>8, <2>9 DEF b, nm
<1> QED
  BY <1>1, <1>2, <1>3, InStep, PTL DEF Spec
=============================================================================
