------------------------ MODULE EvioParserFaithProofs ------------------------
(***************************************************************************)
(* The parser puts the data of an event where they belong: proofs of       *)
(* ParsedFaithfully, AutoAddKeepsAll and CallBackSeesAll, and of            *)
(* CrateIsEnclosingTag.                                                     *)
(***************************************************************************)
EXTENDS EvioParserProofs

-----------------------------------------------------------------------------
(* Where headers can be.                                                   *)

\* A header is after that of the container it is in, and in the event.
LEMMA UpBefore ==
  ASSUME ParserAssumption, event \in Events, NEW y \in DOMAIN event
  PROVE  /\ y \in Nat /\ y < EndOf(event, 0)
         /\ event[y].up # Outside =>
              /\ event[y].up \in DOMAIN event /\ event[y].up < y
              /\ event[event[y].up].type \in Containers
<1>1. WellFormed(event)
  BY DEF ParserAssumption
<1>2. y \in Nat /\ y < DataAt(event, y) /\ DataAt(event, y) <= EndOf(event, y)
      /\ DataAt(event, y) \in Nat /\ EndOf(event, y) \in Nat
  BY Extents
<1>3. 0 \in DOMAIN event /\ EndOf(event, y) <= EndOf(event, 0)
  BY <1>1 DEF WellFormed
<1>4. EndOf(event, 0) \in Nat
  BY <1>3, Extents
<1>5. ASSUME event[y].up # Outside
      PROVE  /\ event[y].up \in DOMAIN event /\ event[y].up < y
             /\ event[event[y].up].type \in Containers
  <2>1. y # 0
    BY <1>1, <1>5 DEF WellFormed
  <2>2. /\ event[y].up \in DOMAIN event /\ event[event[y].up].type \in Containers
        /\ DataAt(event, event[y].up) <= y
    BY <1>1, <2>1 DEF WellFormed
  <2>3. event[y].up < DataAt(event, event[y].up) /\ event[y].up \in Nat
        /\ DataAt(event, event[y].up) \in Nat
    BY <2>2, Extents
  <2> QED
    BY <2>2, <2>3, <1>2
<1> QED
  BY <1>2, <1>3, <1>4, <1>5

\* Between a header and the end of its bank there are only the headers of what
\* is in it, none before its first data word.
LEMMA Between ==
  ASSUME ParserAssumption, event \in Events, NEW x \in DOMAIN event, NEW y \in DOMAIN event,
         x < y, y < EndOf(event, x)
  PROVE  event[x].type \in Containers /\ DataAt(event, x) <= y /\ x <= event[y].up
<1>1. WellFormed(event)
  BY DEF ParserAssumption
<1> QED
  BY <1>1 DEF WellFormed

\* Containers and leafs are different.
LEMMA KindsDiffer ==
  ASSUME NEW t
  PROVE  /\ ~(t \in LeafTypes /\ t \in Containers)
         /\ ~(t = Illegal /\ (t \in Containers \/ t \in LeafTypes))
  BY DEF LeafTypes, Containers, Illegal

-----------------------------------------------------------------------------
(* What is found stays found.                                              *)

\* The first of a set is still the first when later elements are added.
LEMMA FirstOfKept ==
  ASSUME NEW S \in SUBSET (Nat \ {0}), NEW T \in SUBSET (Nat \ {0}), NEW n \in Nat,
         \A y : y \in S <=> y \in T /\ y <= n
  PROVE  /\ S # {} => FirstOf(T) = FirstOf(S)
         /\ FirstOf(T) <= n => FirstOf(T) = FirstOf(S)
<1>1. /\ FirstOf(S) = None <=> S = {}
      /\ S # {} => FirstOf(S) \in S /\ \A y \in S : FirstOf(S) <= y
  BY FirstOfIs
<1>2. /\ FirstOf(T) = None <=> T = {}
      /\ T # {} => FirstOf(T) \in T /\ \A y \in T : FirstOf(T) <= y
  BY FirstOfIs
<1>3. CASE S # {}
  <2>1. FirstOf(S) \in S /\ FirstOf(S) \in T /\ FirstOf(S) <= n /\ T # {}
    BY <1>1, <1>3
  <2>2. FirstOf(T) \in T /\ FirstOf(T) <= FirstOf(S)
    BY <1>2, <2>1
  <2>3. FirstOf(S) \in Nat /\ FirstOf(T) \in Nat
    BY <2>1, <2>2
  <2>4. FirstOf(T) <= n
    BY <2>1, <2>2, <2>3
  <2>5. FirstOf(T) \in S
    BY <2>2, <2>4
  <2>6. FirstOf(S) <= FirstOf(T)
    BY <1>1, <1>3, <2>5
  <2> QED
    BY <1>3, <2>2, <2>6, <2>3
<1>4. CASE S = {}
  <2>1. T # {} => ~(FirstOf(T) <= n)
    BY <1>2, <1>4
  <2>2. T = {} => FirstOf(T) = FirstOf(S)
    BY <1>1, <1>2, <1>4
  <2> QED
    BY <1>4, <2>1, <2>2
<1> QED
  BY <1>3, <1>4

\* The fields FindBank and FindLeaf look at.
SameBanks(n) ==
  \A k \in 1..n : /\ banks'[k].up = banks[k].up /\ banks'[k].tags = banks[k].tags
                  /\ banks'[k].num = banks[k].num
SameLeafs(n) ==
  \A l \in 1..n : /\ leafs'[l].bank = leafs[l].bank /\ leafs'[l].tag = leafs[l].tag
                  /\ leafs'[l].num = leafs[l].num

\* A bank that FindBank finds is found as well when banks are added.
LEMMA FindBankKept ==
  ASSUME banks \in Seq(BankType), banks' \in Seq(BankType), Len(banks) <= Len(banks'),
         SameBanks(Len(banks)), NEW b, NEW t, NEW m
  PROVE  /\ FindBank(b, t, m) # None => FindBank(b, t, m)' = FindBank(b, t, m)
         /\ FindBank(b, t, m)' <= Len(banks) => FindBank(b, t, m)' = FindBank(b, t, m)
         /\ FindBank(b, t, m)' \in 0..Len(banks')
         /\ \A k \in DOMAIN banks' : IsBankFor(k, b, t, m)' => FindBank(b, t, m)' # None
<1> DEFINE S == {k \in DOMAIN banks : IsBankFor(k, b, t, m)}
           T == {k \in DOMAIN banks' : IsBankFor(k, b, t, m)'}
<1>1. /\ DOMAIN banks = 1..Len(banks) /\ Len(banks) \in Nat
      /\ DOMAIN banks' = 1..Len(banks') /\ Len(banks') \in Nat
  OBVIOUS
<1>2. S \in SUBSET (Nat \ {0}) /\ T \in SUBSET (Nat \ {0})
  BY <1>1
<1>3. \A y : y \in S <=> y \in T /\ y <= Len(banks)
  BY <1>1 DEF SameBanks, IsBankFor
<1>4. FindBank(b, t, m) = FirstOf(S) /\ FindBank(b, t, m)' = FirstOf(T)
  BY DEF FindBank
<1>5. \A y \in T : y \in 1..Len(banks')
  BY <1>1
<1> HIDE DEF S, T
<1>6. /\ S # {} => FirstOf(T) = FirstOf(S)
      /\ FirstOf(T) <= Len(banks) => FirstOf(T) = FirstOf(S)
  BY <1>1, <1>2, <1>3, FirstOfKept
<1>7. FirstOf(S) = None <=> S = {}
  BY <1>2, FirstOfIs
<1>8. FirstOf(T) = None \/ FirstOf(T) \in T
  BY <1>2, FirstOfIs
<1>9. \A k \in DOMAIN banks' : IsBankFor(k, b, t, m)' => FirstOf(T) # None
  <2>1. \A k \in DOMAIN banks' : IsBankFor(k, b, t, m)' => T # {}
    BY DEF T
  <2> QED
    BY <2>1, <1>2, FirstOfIs
<1> QED
  BY <1>1, <1>4, <1>5, <1>6, <1>7, <1>8, <1>9 DEF None

\* A leaf that FindLeaf finds is found as well when leafs are added.
LEMMA FindLeafKept ==
  ASSUME leafs \in Seq(LeafType), leafs' \in Seq(LeafType), Len(leafs) <= Len(leafs'),
         SameLeafs(Len(leafs)), NEW b, NEW t, NEW m
  PROVE  /\ FindLeaf(b, t, m) # None => FindLeaf(b, t, m)' = FindLeaf(b, t, m)
         /\ FindLeaf(b, t, m)' <= Len(leafs) => FindLeaf(b, t, m)' = FindLeaf(b, t, m)
         /\ FindLeaf(b, t, m)' \in 0..Len(leafs')
<1> DEFINE S == {l \in DOMAIN leafs : IsLeafFor(l, b, t, m)}
           T == {l \in DOMAIN leafs' : IsLeafFor(l, b, t, m)'}
<1>1. /\ DOMAIN leafs = 1..Len(leafs) /\ Len(leafs) \in Nat
      /\ DOMAIN leafs' = 1..Len(leafs') /\ Len(leafs') \in Nat
  OBVIOUS
<1>2. S \in SUBSET (Nat \ {0}) /\ T \in SUBSET (Nat \ {0})
  BY <1>1
<1>3. \A y : y \in S <=> y \in T /\ y <= Len(leafs)
  BY <1>1 DEF SameLeafs, IsLeafFor
<1>4. FindLeaf(b, t, m) = FirstOf(S) /\ FindLeaf(b, t, m)' = FirstOf(T)
  BY DEF FindLeaf
<1>5. \A y \in T : y \in 1..Len(leafs')
  BY <1>1
<1> HIDE DEF S, T
<1>6. /\ S # {} => FirstOf(T) = FirstOf(S)
      /\ FirstOf(T) <= Len(leafs) => FirstOf(T) = FirstOf(S)
  BY <1>1, <1>2, <1>3, FirstOfKept
<1>7. FirstOf(S) = None <=> S = {}
  BY <1>2, FirstOfIs
<1>8. FirstOf(T) = None \/ FirstOf(T) \in T
  BY <1>2, FirstOfIs
<1> QED
  BY <1>1, <1>4, <1>5, <1>6, <1>7, <1>8 DEF None

-----------------------------------------------------------------------------
(* How far the parser has come.                                            *)

\* A bank that is no container, or the header of one, is a step of one header.
LEMMA OneHeader ==
  ASSUME ParserAssumption, event \in Events, NEW x \in DOMAIN event, NEW q,
         (q = EndOf(event, x) /\ event[x].type \notin Containers) \/ q = DataAt(event, x)
  PROVE  q \in Nat /\ x < q /\ \A y \in DOMAIN event : y < q <=> y < x \/ y = x
<1>1. /\ x \in Nat /\ EndOf(event, x) \in Nat /\ DataAt(event, x) \in Nat
      /\ x < DataAt(event, x) /\ DataAt(event, x) <= EndOf(event, x)
  BY Extents
<1>2. q \in Nat /\ x < q /\ q <= EndOf(event, x)
  BY <1>1
<1>3. ASSUME NEW y \in DOMAIN event, x < y, y < q PROVE FALSE
  <2>1. y \in Nat
    BY Extents
  <2>2. event[x].type \in Containers /\ DataAt(event, x) <= y
    BY <1>1, <1>2, <1>3, <2>1, Between
  <2> QED
    BY <1>1, <1>3, <2>1, <2>2
<1>4. \A y \in DOMAIN event : y \in Nat
  BY Extents
<1> QED
  BY <1>1, <1>2, <1>3, <1>4

\* Passing a bank that is no container changes nothing about containers.
LEMMA PassRouted ==
  ASSUME ParserAssumption, event \in Events, NEW x \in DOMAIN event, RoutedTo(x),
         event[x].type \notin Containers
  PROVE  RoutedTo(EndOf(event, x))
<1>1. \A y \in DOMAIN event : y < EndOf(event, x) <=> y < x \/ y = x
  BY OneHeader
<1> QED
  BY <1>1 DEF RoutedTo

\* A bank of a container that is skipped, and all that is in it, belong nowhere.
LEMMA PassSkipped ==
  ASSUME ParserAssumption, event \in Events, NEW x \in DOMAIN event, RoutedTo(x), FilledTo(x),
         dest[event[x].up] = None, ~settings.fAutoAdd
  PROVE  RoutedTo(EndOf(event, x)) /\ FilledTo(EndOf(event, x))
<1> DEFINE q == EndOf(event, x)
<1>1. q \in Nat /\ x \in Nat /\ x < q
  BY Extents
<1>2. \A y \in DOMAIN event : y \in Nat
  BY Extents
<1>3. ASSUME NEW y \in DOMAIN event, ~(y < x), y < q PROVE dest[event[y].up] = None
  <2>1. CASE y = x
    BY <2>1
  <2>2. CASE y # x
    <3>1. x < y
      BY <1>1, <1>2, <1>3, <2>2
    <3>2. x <= event[y].up
      BY <1>3, <3>1, Between
    <3>3. event[y].up # Outside
      BY <1>1, <3>2 DEF Outside
    <3>4. event[y].up \in DOMAIN event /\ event[event[y].up].type \in Containers
      BY <3>3, UpBefore
    <3>5. ~(event[y].up < x)
      BY <1>1, <1>2, <3>2, <3>4
    <3> QED
      BY <3>4, <3>5 DEF RoutedTo
  <2> QED
    BY <2>1, <2>2
<1>4. RoutedTo(q)
  <2> SUFFICES ASSUME NEW c \in DOMAIN event, event[c].type \in Containers
               PROVE  IF c < q THEN dest[c] = BankFor(c) /\ (settings.fAutoAdd => dest[c] # None)
                               ELSE dest[c] = None
    BY DEF RoutedTo
  <2>1. CASE c < x
    BY <2>1, <1>1, <1>2 DEF RoutedTo
  <2>2. CASE ~(c < x)
    <3>1. dest[c] = None
      BY <2>2 DEF RoutedTo
    <3>2. c < q => BankFor(c) = None
      BY <2>2, <1>3 DEF BankFor
    <3> QED
      BY <3>1, <3>2
  <2> QED
    BY <2>1, <2>2
<1>5. FilledTo(q)
  <2>1. \A y \in DOMAIN event : LeafBank(y) => (y < q <=> y < x)
    BY <1>1, <1>2, <1>3 DEF LeafBank
  <2>2. ASSUME NEW l PROVE {y \in BanksFor(l) : y < q} = {y \in BanksFor(l) : y < x}
    BY <2>1 DEF BanksFor
  <2> QED
    BY <2>2 DEF FilledTo
<1> QED
  BY <1>4, <1>5

\* Nor does anything belong anywhere that is in a bank of unknown content.
LEMMA PassIllegal ==
  ASSUME ParserAssumption, event \in Events, NEW x \in DOMAIN event, FilledTo(x),
         event[x].type = Illegal
  PROVE  FilledTo(EndOf(event, x))
<1> DEFINE q == EndOf(event, x)
<1>1. \A y \in DOMAIN event : y < q <=> y < x \/ y = x
  BY KindsDiffer, OneHeader
<1>2. ~LeafBank(x)
  BY KindsDiffer DEF LeafBank
<1>3. ASSUME NEW l PROVE {y \in BanksFor(l) : y < q} = {y \in BanksFor(l) : y < x}
  BY <1>1, <1>2 DEF BanksFor
<1>4. \A y \in DOMAIN event : LeafBank(y) /\ y < q => y < x
  BY <1>1, <1>2
<1> HIDE DEF q
<1> QED
  BY <1>3, <1>4 DEF FilledTo, q

\* What ParseBank knows at a header about the banks.
LEMMA HereFacts ==
  ASSUME ParserAssumption, SyncInv, Parsing, RouteInv
  PROVE  /\ event \in Events /\ Top.p \in DOMAIN event /\ event[Top.p].up = Top.at
         /\ dest[Top.at] = Top.bank /\ event[Top.p].depth = Depth
         /\ NextSibling(Top) = EndOf(event, Top.p)
         /\ Top.p + HeaderWords(Top.type) = DataAt(event, Top.p)
         /\ Len(calls) \in Nat \ {0} /\ Len(calls) \in DOMAIN calls
         /\ Top.bank \in 0..Len(banks) /\ Frames(calls) /\ Nested(calls)
         /\ Top.at # Outside => /\ Top.at \in DOMAIN event /\ Top.at < Top.p
                                /\ event[Top.at].type \in Containers
<1>1. /\ event \in Events /\ Frames(calls) /\ Nested(calls) /\ Top.p < Limit(Top)
      /\ Len(calls) \in Nat \ {0} /\ Len(calls) \in DOMAIN calls /\ Top.bank \in 0..Len(banks)
  BY ParsingFacts
<1> DEFINE n == Len(calls)
<1>2. n \in 1..Len(calls) /\ calls[n].p < Limit(calls[n])
  BY <1>1 DEF Top
<1>3. /\ calls[n].p \in DOMAIN event /\ event[calls[n].p].up = calls[n].at
      /\ calls[n].at = Outside => n = 1
      /\ calls[n].at # Outside => n > 1
      /\ event[calls[n].p].depth = n - 1
      /\ InType(event, calls[n].p) = calls[n].type
      /\ NextSibling(calls[n]) = EndOf(event, calls[n].p)
  <2> HIDE DEF n
  <2> QED
    BY <1>1, <1>2, AtHeader
<1>4. calls[n].p + HeaderWords(calls[n].type) = DataAt(event, calls[n].p)
  BY <1>3 DEF DataAt
<1>5. dest[Top.at] = Top.bank
  <2>1. CASE Top.at = Outside
    BY <1>1, <1>3, <2>1 DEF RouteInv, Nested, Top
  <2>2. CASE Top.at # Outside
    <3>1. n \in 2..Len(calls)
      BY <1>1, <1>3, <2>2 DEF Top
    <3> QED
      BY <3>1 DEF RouteInv, Top
  <2> QED
    BY <2>1, <2>2
<1>6. Top.at # Outside => /\ Top.at \in DOMAIN event /\ Top.at < Top.p
                          /\ event[Top.at].type \in Containers
  BY <1>1, <1>3 DEF Nested, Top
<1> QED
  BY <1>1, <1>3, <1>4, <1>5, <1>6 DEF Top, Depth

-----------------------------------------------------------------------------
(* One step of the specification.                                          *)

FaithInv ==
  /\ LeafHome /\ ParsedFaithfully /\ AutoAddKeepsAll
  /\ phase = "parsing" => RouteInv /\ FilledTo(Top.p)

\* Where data belong depends on the leafs, the event and the route only.
LEMMA SameData ==
  ASSUME leafs' = leafs, event' = event, dest' = dest, NEW z
  PROVE  /\ BanksFor(z)' = BanksFor(z) /\ LeafFor(z)' = LeafFor(z)
         /\ LeafBank(z)' = LeafBank(z)
<1>1. \A y : LeafFor(y)' = LeafFor(y)
  BY DEF LeafFor, FindLeaf, IsLeafFor
<1>2. \A y : LeafBank(y)' = LeafBank(y)
  BY DEF LeafBank
<1>3. BanksFor(z)' = {y \in DOMAIN event : LeafBank(y) /\ LeafFor(y) = z}
  BY <1>1, <1>2 DEF BanksFor
<1> QED
  BY <1>1, <1>2, <1>3 DEF BanksFor

\* The data are as far as they were when only the place in the event moved.
LEMMA SameFilled ==
  ASSUME leafs' = leafs, event' = event, dest' = dest, settings' = settings,
         NEW q, FilledTo(q), Top.p' = q
  PROVE  FilledTo(Top.p)'
<1>1. \A z : /\ BanksFor(z)' = BanksFor(z) /\ LeafFor(z)' = LeafFor(z)
             /\ LeafBank(z)' = LeafBank(z)
  BY SameData
<1> QED
  BY <1>1 DEF FilledTo

\* The frames after p += (data[p] & mask) + 1.
LEMMA SteppedFacts ==
  ASSUME NEW cs, Frames(cs), cs # <<>>, calls' = Stepped(cs)
  PROVE  /\ DOMAIN calls' = DOMAIN cs /\ Len(calls') = Len(cs)
         /\ \A k \in DOMAIN cs : calls'[k].at = cs[k].at /\ calls'[k].bank = cs[k].bank
         /\ Top'.p = NextSibling(cs[Len(cs)])
<1>1. Len(cs) \in Nat \ {0} /\ Len(cs) \in DOMAIN cs /\ \A k \in DOMAIN cs : cs[k] \in FrameType
  BY DEF Frames
<1>2. DOMAIN calls' = DOMAIN cs /\ Len(calls') = Len(cs)
  BY DEF Stepped, Frames
<1>3. \A k \in DOMAIN cs : calls'[k].at = cs[k].at /\ calls'[k].bank = cs[k].bank
  BY <1>1 DEF Stepped, FrameType
<1>4. calls'[Len(cs)].p = NextSibling(cs[Len(cs)])
  BY <1>1 DEF Stepped, FrameType
<1> QED
  BY <1>2, <1>3, <1>4 DEF Top

\* The rest of RouteInv survives a step of the top frame.
LEMMA RouteStepped ==
  ASSUME ParserAssumption, SyncInv, Parsing, RouteInv, calls' = Stepped(calls),
         event' = event, banks' = banks, settings' = settings, dest' = dest,
         RoutedTo(EndOf(event, Top.p))
  PROVE  RouteInv' /\ Top'.p = EndOf(event, Top.p)
<1>1. Frames(calls) /\ calls # <<>> /\ NextSibling(Top) = EndOf(event, Top.p)
      /\ Len(calls) \in Nat
  BY HereFacts DEF Nested
<1>2. /\ DOMAIN calls' = DOMAIN calls /\ Len(calls') = Len(calls)
      /\ \A k \in DOMAIN calls : calls'[k].at = calls[k].at /\ calls'[k].bank = calls[k].bank
      /\ Top'.p = NextSibling(calls[Len(calls)])
  BY <1>1, SteppedFacts
<1>3. Top'.p = EndOf(event, Top.p)
  BY <1>1, <1>2 DEF Top
<1> DEFINE q == EndOf(event, Top.p)
<1>4. RoutedTo(q) => RoutedTo(Top.p)'
  <2>1. Top.p' = q
    BY <1>3
  <2> HIDE DEF q
  <2> QED
    BY <2>1 DEF RoutedTo, BankFor, Pruned, FindBank, IsBankFor
<1>5. ASSUME NEW k \in 2..Len(calls')
      PROVE  calls'[k].bank = dest'[calls'[k].at] /\ calls'[k - 1].bank # None
  <2>1. k \in 2..Len(calls) /\ k \in DOMAIN calls /\ k - 1 \in DOMAIN calls
    BY <1>1, <1>2 DEF Frames
  <2> QED
    BY <1>2, <2>1 DEF RouteInv
<1> QED
  BY <1>3, <1>4, <1>5 DEF RouteInv

\* ParseBank passes over a bank of a container that is skipped or of unknown content.
LEMMA FaithParseNothing ==
  ASSUME ParserAssumption, SyncInv, FaithInv, ParseNothing
  PROVE  FaithInv'
<1>1. Parsing /\ phase = "parsing" /\ RouteInv /\ FilledTo(Top.p)
  BY DEF ParseNothing, Parsing, FaithInv
<1>2. /\ banks' = banks /\ leafs' = leafs /\ settings' = settings /\ dest' = dest
      /\ event' = event /\ phase' = phase /\ calls' = Stepped(calls)
  BY DEF ParseNothing, bankVars
<1>3. /\ event \in Events /\ Top.p \in DOMAIN event /\ event[Top.p].up = Top.at
      /\ dest[Top.at] = Top.bank
      /\ Top.at # Outside => /\ Top.at \in DOMAIN event /\ Top.at < Top.p
                             /\ event[Top.at].type \in Containers
  BY <1>1, HereFacts
<1>4. RoutedTo(Top.p)
  BY <1>1 DEF RouteInv
<1>5. RoutedTo(EndOf(event, Top.p)) /\ FilledTo(EndOf(event, Top.p))
  <2>1. CASE Top.bank = None
    <3>1. Top.at # Outside
      BY <2>1, <1>1, <1>3 DEF RouteInv, None, Root
    <3>2. ~settings.fAutoAdd
      BY <2>1, <3>1, <1>3, <1>4 DEF RoutedTo
    <3> QED
      BY <2>1, <3>2, <1>1, <1>3, <1>4, PassSkipped
  <2>2. CASE Here.type = Illegal
    <3>1. event[Top.p].type = Illegal /\ event[Top.p].type \notin Containers
      BY <2>2, KindsDiffer DEF Here
    <3> QED
      BY <3>1, <1>1, <1>3, <1>4, PassRouted, PassIllegal
  <2> QED
    BY <2>1, <2>2 DEF ParseNothing
<1>6. RouteInv' /\ Top'.p = EndOf(event, Top.p)
  BY <1>1, <1>2, <1>5, RouteStepped
<1> DEFINE q == EndOf(event, Top.p)
<1>7. FilledTo(Top.p)'
  <2>1. Top.p' = q /\ FilledTo(q)
    BY <1>5, <1>6
  <2> HIDE DEF q
  <2> QED
    BY <1>2, <2>1, SameFilled
<1>8. LeafHome'
  BY <1>2 DEF FaithInv, LeafHome
<1>9. ParsedFaithfully' /\ AutoAddKeepsAll'
  BY <1>1, <1>2 DEF ParsedFaithfully, AutoAddKeepsAll
<1> QED
  BY <1>6, <1>7, <1>8, <1>9 DEF FaithInv

\* ParseBank comes back from a container: the frame below is at its end.
LEMMA FaithEndContainer ==
  ASSUME ParserAssumption, SyncInv, FaithInv, EndContainer
  PROVE  FaithInv'
<1>1. phase = "parsing" /\ RouteInv /\ FilledTo(Top.p) /\ Top.p >= Limit(Top) /\ Top.at # Outside
  BY DEF EndContainer, FaithInv
<1>2. /\ banks' = banks /\ leafs' = leafs /\ settings' = settings /\ dest' = dest
      /\ event' = event /\ phase' = phase
      /\ calls' = Stepped(SubSeq(calls, 1, Len(calls) - 1))
  BY DEF EndContainer, bankVars
<1>3. event \in Events /\ Frames(calls) /\ Nested(calls)
  BY <1>1 DEF SyncInv, TypeOK, StackInv, Frames
<1> DEFINE n  == Len(calls)
           ds == SubSeq(calls, 1, n - 1)
<1>4. n \in Nat /\ n >= 2 /\ DOMAIN calls = 1..n
  BY <1>1, <1>3 DEF Top, Nested, Frames
<1>5. /\ Frames(ds) /\ Nested(ds) /\ Len(ds) = n - 1
      /\ ds[Len(ds)].p < Limit(ds[Len(ds)]) /\ ds[Len(ds)].p = calls[n].at
      /\ \A k \in DOMAIN ds : ds[k] = calls[k]
  BY <1>3, <1>4, PopNested
<1>6. calls' = Stepped(ds)
  BY <1>2
<1> HIDE DEF ds
<1>7. NextSibling(ds[n - 1]) = EndOf(event, ds[n - 1].p)
  <2>1. n - 1 \in 1..Len(ds) /\ ds[n - 1].p < Limit(ds[n - 1])
    BY <1>4, <1>5
  <2> QED
    BY <2>1, <1>3, <1>5, AtHeader
<1>8. ds # <<>>
  BY <1>4, <1>5
<1>9. /\ DOMAIN calls' = DOMAIN ds /\ Len(calls') = n - 1
      /\ \A k \in DOMAIN ds : calls'[k].at = calls[k].at /\ calls'[k].bank = calls[k].bank
      /\ Top'.p = NextSibling(ds[n - 1])
  BY <1>5, <1>6, <1>8, SteppedFacts
<1>10. Top'.p = Top.p
  <2>1. Top.p = Limit(Top)
    <3>1. SyncInv => InSync
      BY SyncGivesInSync
    <3>2. Top \in FrameType
      BY <1>3, <1>4 DEF Top, Frames
    <3>3. Top.p \in Nat
      BY <3>2 DEF FrameType
    <3>4. Top.p < Limit(Top) \/ Top.p = Limit(Top)
      BY <1>1, <3>1 DEF InSync
    <3>5. Limit(Top) \in Int
      <4>1. Top.at \in DOMAIN event
        BY <1>1, <1>3, <1>4 DEF Nested, Top
      <4> QED
        BY <4>1, <1>1, <1>3, Extents DEF Limit
    <3> QED
      BY <1>1, <3>3, <3>4, <3>5
  <2>2. Limit(Top) = EndOf(event, calls[n].at)
    BY <1>1 DEF Limit, Top
  <2> QED
    BY <1>5, <1>7, <1>9, <2>1, <2>2
<1>11. RouteInv'
  <2> DEFINE q == Top.p
  <2>1. RoutedTo(Top.p)'
    <3>1. Top.p' = q /\ RoutedTo(q)
      BY <1>1, <1>10 DEF RouteInv
    <3> HIDE DEF q
    <3> QED
      BY <3>1, <1>2 DEF RoutedTo, BankFor, Pruned, FindBank, IsBankFor
  <2>2. ASSUME NEW k \in 2..Len(calls')
        PROVE  calls'[k].bank = dest'[calls'[k].at] /\ calls'[k - 1].bank # None
    <3>1. k \in 2..n /\ k \in DOMAIN ds /\ k - 1 \in DOMAIN ds
      BY <1>4, <1>5, <1>9 DEF Frames
    <3> QED
      BY <3>1, <1>1, <1>2, <1>9 DEF RouteInv
  <2> QED
    BY <2>1, <2>2, <1>1, <1>2 DEF RouteInv
<1>12. FilledTo(Top.p)'
  <2> DEFINE q == Top.p
  <2>1. Top.p' = q /\ FilledTo(q)
    BY <1>1, <1>10
  <2> HIDE DEF q
  <2> QED
    BY <1>2, <2>1, SameFilled
<1>13. LeafHome'
  BY <1>2 DEF FaithInv, LeafHome
<1>14. ParsedFaithfully' /\ AutoAddKeepsAll'
  BY <1>1, <1>2 DEF ParsedFaithfully, AutoAddKeepsAll
<1> QED
  BY <1>11, <1>12, <1>13, <1>14 DEF FaithInv

\* The event ends, and with it all of it is where it belongs.
LEMMA FaithEndEvent ==
  ASSUME ParserAssumption, SyncInv, FaithInv, EndEvent
  PROVE  FaithInv'
<1>1. /\ phase = "parsing" /\ RouteInv /\ FilledTo(Top.p) /\ Top.p >= Limit(Top)
      /\ Top.at = Outside /\ event \in Events
  BY DEF EndEvent, FaithInv, SyncInv, StackInv
<1>2. /\ banks' = banks /\ leafs' = leafs /\ settings' = settings /\ dest' = dest
      /\ event' = event /\ phase' = "parsed"
  BY DEF EndEvent, bankVars
<1>3. \A x \in DOMAIN event : x < Top.p
  <2> SUFFICES ASSUME NEW x \in DOMAIN event PROVE x < Top.p
    OBVIOUS
  <2>1. Top.p >= EndOf(event, 0)
    BY <1>1 DEF Limit
  <2>2. x \in Nat /\ x < EndOf(event, 0)
    BY <1>1, UpBefore
  <2>3. 0 \in DOMAIN event
    BY <1>1 DEF ParserAssumption, WellFormed
  <2>4. EndOf(event, 0) \in Nat
    BY <1>1, <2>3, Extents
  <2>5. Frames(calls) /\ calls # <<>>
    BY <1>1 DEF SyncInv, TypeOK, StackInv, Nested, Frames
  <2>6. Top \in FrameType
    BY <2>5 DEF Top, Frames
  <2>7. Top.p \in Nat
    BY <2>6 DEF FrameType
  <2> QED
    BY <2>1, <2>2, <2>4, <2>7
<1>4. \A c \in DOMAIN event : event[c].type \in Containers =>
        dest[c] = BankFor(c) /\ (settings.fAutoAdd => dest[c] # None)
  BY <1>1, <1>3 DEF RouteInv, RoutedTo
<1>5. \A l \in DOMAIN leafs :
        /\ {leafs[l].data[k].at : k \in DOMAIN leafs[l].data} = BanksFor(l)
        /\ \A j, k \in DOMAIN leafs[l].data : j < k => leafs[l].data[j].at < leafs[l].data[k].at
  <2>1. \A l : {x \in BanksFor(l) : x < Top.p} = BanksFor(l)
    BY <1>3 DEF BanksFor
  <2> HIDE DEF Top
  <2> QED
    BY <1>1, <2>1 DEF FilledTo
<1>6. settings.fAutoAdd =>
        \A x \in DOMAIN event : event[x].type \in LeafTypes => LeafBank(x) /\ LeafFor(x) # None
  <2> SUFFICES ASSUME settings.fAutoAdd, NEW x \in DOMAIN event, event[x].type \in LeafTypes
               PROVE  LeafBank(x) /\ LeafFor(x) # None
    OBVIOUS
  <2>1. dest[event[x].up] # None
    <3>1. CASE event[x].up = Outside
      BY <3>1, <1>1 DEF RouteInv, Root, None
    <3>2. CASE event[x].up # Outside
      BY <3>2, <1>1, <1>4, UpBefore
    <3> QED
      BY <3>1, <3>2
  <2>2. LeafBank(x)
    BY <2>1 DEF LeafBank
  <2> QED
    BY <2>2, <1>1, <1>3 DEF FilledTo
<1>7. ParsedFaithfully'
  <2>1. \A z : BanksFor(z)' = BanksFor(z)
    BY <1>2, SameData
  <2>2. \A c : BankFor(c)' = BankFor(c)
    BY <1>2 DEF BankFor, Pruned, FindBank, IsBankFor
  <2> QED
    BY <1>2, <1>4, <1>5, <2>1, <2>2 DEF ParsedFaithfully
<1>8. AutoAddKeepsAll'
  BY <1>2, <1>6 DEF AutoAddKeepsAll, LeafBank, LeafFor, FindLeaf, IsLeafFor
<1>9. LeafHome'
  BY <1>2 DEF FaithInv, LeafHome
<1> QED
  BY <1>2, <1>7, <1>8, <1>9 DEF FaithInv

\* What AddOrFillLeaf does to the leafs: a leaf may be added, with nothing that
\* was found before in another place, and the data go to the one found now.
LEMMA FillFacts ==
  ASSUME ParserAssumption, SyncInv, SyncInv', ParseLeaf, phase' = "parsing",
         NEW b, b = Top.bank, NEW t, t = Here.tag, NEW m, m = Here.num
  PROVE  /\ Len(leafs) <= Len(leafs') /\ SameLeafs(Len(leafs))
         /\ Len(leafs') > Len(leafs) => settings.fAutoAdd
         /\ FindLeaf(b, t, m)' = LeafHere
         /\ settings.fAutoAdd => LeafHere # None
         /\ \A l \in DOMAIN leafs' : leafs'[l].data =
              IF l = LeafHere THEN Append(LeafsNow[l].data, Datum) ELSE LeafsNow[l].data
         /\ \A l \in DOMAIN leafs' : LeafsNow[l].data =
              IF l \in DOMAIN leafs THEN leafs[l].data ELSE <<>>
         /\ LeafHere # None => LeafHere \in DOMAIN leafs' /\ leafs'[LeafHere].bank = b
         /\ \A l \in DOMAIN leafs' : l \in DOMAIN leafs \/ l = LeafHere
<1>1. Parsing /\ Top.bank # None /\ Here.type \in LeafTypes
  BY DEF ParseLeaf
<1>2. leafs \in Seq(LeafType) /\ leafs' \in Seq(LeafType)
  BY DEF SyncInv, TypeOK
<1>3. /\ LeafsNow \in Seq(LeafType) /\ LeafHere \in 0..Len(LeafsNow)
      /\ Len(leafs) <= Len(LeafsNow)
  BY <1>1, LeafFacts
<1> DEFINE ls == LeafsNow
           l0 == LeafHere
           nl == NewLeaf(Top.bank, LeafName, Here.tag, Here.num, Here.type)
<1>4. /\ Found \in 0..Len(leafs) /\ (Found # None => IsLeafFor(Found, b, t, m))
      /\ \A l \in DOMAIN leafs : IsLeafFor(l, b, t, m) => Found # None
  BY <1>2, FindLeafIs DEF Found
<1>5. \/ ~Added /\ ls = leafs /\ l0 = Found
      \/ /\ Added /\ ls = Append(leafs, nl) /\ l0 = Len(leafs) + 1 /\ Found = None
         /\ settings.fAutoAdd
  BY DEF LeafsNow, LeafHere, Added
<1>6. settings.fAutoAdd => l0 # None
  BY <1>2, <1>5 DEF Added, None
<1>7. \/ l0 = None /\ leafs' = leafs
      \/ l0 # None /\ leafs' = [ls EXCEPT ![l0].data = Append(@, Datum)]
  BY DEF ParseLeaf
<1>8. nl.bank = b /\ nl.tag = t /\ nl.num = m /\ nl.data = <<>>
  BY DEF NewLeaf, LeafOf
<1>9. l0 = None => ls = leafs
  BY <1>2, <1>5 DEF None
<1> HIDE DEF ls, l0, nl
<1>10. ls \in Seq(LeafType) /\ l0 \in 0..Len(ls)
  BY <1>3 DEF ls, l0
<1>11. DOMAIN leafs' = DOMAIN ls /\ Len(leafs') = Len(ls)
  BY <1>7, <1>9, <1>10
<1>12. \A l \in DOMAIN ls : ls[l] \in LeafType
  BY <1>10
<1>13. \A l \in DOMAIN leafs' :
         /\ leafs'[l].bank = ls[l].bank /\ leafs'[l].tag = ls[l].tag /\ leafs'[l].num = ls[l].num
         /\ leafs'[l].data = IF l = l0 THEN Append(ls[l].data, Datum) ELSE ls[l].data
  <2>1. CASE l0 = None
    <3>1. \A l \in DOMAIN ls : l # l0
      BY <1>10, <2>1 DEF None
    <3> QED
      BY <2>1, <3>1, <1>7, <1>9
  <2>2. CASE l0 # None
    <3> SUFFICES ASSUME NEW l \in DOMAIN ls
                 PROVE  /\ leafs'[l].bank = ls[l].bank /\ leafs'[l].tag = ls[l].tag
                        /\ leafs'[l].num = ls[l].num
                        /\ leafs'[l].data = IF l = l0 THEN Append(ls[l].data, Datum) ELSE ls[l].data
      BY <1>11
    <3>1. leafs' = [ls EXCEPT ![l0] = [ls[l0] EXCEPT !.data = Append(ls[l0].data, Datum)]]
      BY <2>2, <1>7
    <3>2. CASE l # l0
      BY <3>1, <3>2
    <3>3. CASE l = l0
      <4>1. leafs'[l] = [ls[l] EXCEPT !.data = Append(ls[l].data, Datum)] /\ ls[l] \in LeafType
        BY <3>1, <3>3, <1>12
      <4> QED
        BY <3>3, <4>1 DEF LeafType
    <3> QED
      BY <3>2, <3>3
  <2> QED
    BY <2>1, <2>2
<1>14. /\ \A l \in DOMAIN leafs : l \in DOMAIN ls /\ ls[l] = leafs[l]
       /\ \A l \in DOMAIN ls : l \in DOMAIN leafs \/ (l = l0 /\ ls[l] = nl)
  BY <1>2, <1>5
<1>15. SameLeafs(Len(leafs)) /\ Len(leafs) <= Len(leafs')
  BY <1>2, <1>3, <1>11, <1>13, <1>14 DEF SameLeafs, ls
<1>16. Len(leafs') > Len(leafs) => settings.fAutoAdd
  <2>1. CASE ls = leafs
    BY <2>1, <1>2, <1>11
  <2>2. CASE settings.fAutoAdd
    BY <2>2
  <2> QED
    BY <2>1, <2>2, <1>5
<1>17. FindLeaf(b, t, m)' = l0
  <2> DEFINE T == {l \in DOMAIN leafs' : IsLeafFor(l, b, t, m)'}
  <2>1. FindLeaf(b, t, m) = Found
    BY DEF Found
  <2>2. CASE ~Added
    <3>1. Len(leafs') = Len(leafs) /\ l0 = Found
      BY <2>2, <1>5, <1>11
    <3>2. /\ FindLeaf(b, t, m)' <= Len(leafs) => FindLeaf(b, t, m)' = FindLeaf(b, t, m)
          /\ FindLeaf(b, t, m)' \in 0..Len(leafs')
      BY <1>2, <1>15, FindLeafKept
    <3> QED
      BY <2>1, <3>1, <3>2, <1>2
  <2>3. CASE Added
    <3>1. ls = Append(leafs, nl) /\ l0 = Len(leafs) + 1 /\ Found = None /\ l0 \in DOMAIN ls
          /\ l0 \notin DOMAIN leafs
      BY <2>3, <1>2, <1>5
    <3>2. leafs'[l0].bank = b /\ leafs'[l0].tag = t /\ leafs'[l0].num = m
      BY <3>1, <1>8, <1>11, <1>13, <1>14
    <3>3. l0 \in T
      BY <3>1, <3>2, <1>11 DEF IsLeafFor
    <3>4. \A l \in T : l = l0
      <4> SUFFICES ASSUME NEW l \in T, l # l0 PROVE FALSE
        OBVIOUS
      <4>1. l \in DOMAIN leafs
        BY <1>11, <1>14
      <4>2. IsLeafFor(l, b, t, m)
        <5>1. /\ leafs'[l].bank = leafs[l].bank /\ leafs'[l].tag = leafs[l].tag
              /\ leafs'[l].num = leafs[l].num
          BY <4>1, <1>2, <1>15 DEF SameLeafs
        <5>2. IsLeafFor(l, b, t, m)'
          OBVIOUS
        <5> QED
          BY <5>1, <5>2 DEF IsLeafFor
      <4> QED
        BY <4>1, <4>2, <3>1, <1>4
    <3>5. T \in SUBSET (Nat \ {0})
      BY <1>2
    <3> HIDE DEF T
    <3>6. FirstOf(T) \in T
      BY <3>3, <3>5, FirstOfIs
    <3>7. FindLeaf(b, t, m)' = FirstOf({l \in DOMAIN leafs' : IsLeafFor(l, b, t, m)'})
      BY DEF FindLeaf
    <3> QED
      BY <3>4, <3>6, <3>7 DEF T
  <2> QED
    BY <2>2, <2>3
<1>18. l0 # None => l0 \in DOMAIN leafs' /\ leafs'[l0].bank = b
  <2> SUFFICES ASSUME l0 # None PROVE l0 \in DOMAIN leafs' /\ leafs'[l0].bank = b
    OBVIOUS
  <2>1. l0 \in DOMAIN leafs'
    BY <1>10, <1>11 DEF None
  <2>2. CASE Added
    <3>1. l0 \notin DOMAIN leafs
      BY <2>2, <1>2, <1>5
    <3> QED
      BY <2>1, <3>1, <1>8, <1>11, <1>13, <1>14
  <2>3. CASE ~Added
    <3>1. l0 \in DOMAIN leafs /\ leafs[l0].bank = b
      BY <2>3, <1>2, <1>4, <1>5 DEF IsLeafFor, None
    <3> QED
      BY <2>1, <3>1, <1>13, <1>14
  <2> QED
    BY <2>1, <2>2, <2>3
<1>19. \A l \in DOMAIN leafs' : l \in DOMAIN leafs \/ l = l0
  BY <1>11, <1>14
<1>20. \A l \in DOMAIN leafs' : ls[l].data = IF l \in DOMAIN leafs THEN leafs[l].data ELSE <<>>
  BY <1>8, <1>11, <1>14
<1> QED
  BY <1>6, <1>13, <1>15, <1>16, <1>17, <1>18, <1>19, <1>20 DEF ls, l0

\* The places data came from, when one more is appended.
Places(d) == {d[k].at : k \in DOMAIN d}
InOrder(d) == \A j, k \in DOMAIN d : j < k => d[j].at < d[k].at

\* Data appended from a later place keep the order, and add that place.
LEMMA AppendPlaces ==
  ASSUME NEW d \in Seq(DataType), NEW v \in DataType
  PROVE  /\ Places(Append(d, v)) = Places(d) \cup {v.at}
         /\ InOrder(d) /\ (\A y \in Places(d) : y < v.at) => InOrder(Append(d, v))
<1> DEFINE a == Append(d, v)
           n == Len(d)
<1>1. /\ n \in Nat /\ DOMAIN d = 1..n /\ DOMAIN a = 1..(n + 1)
      /\ a[n + 1] = v /\ \A k \in 1..n : a[k] = d[k]
  OBVIOUS
<1> HIDE DEF a, n
<1>2. Places(a) = Places(d) \cup {v.at}
  <2>1. ASSUME NEW y \in Places(a) PROVE y \in Places(d) \cup {v.at}
    <3>1. PICK k \in 1..(n + 1) : y = a[k].at
      BY <1>1, <2>1 DEF Places
    <3>2. k = n + 1 \/ k \in 1..n
      BY <1>1
    <3> QED
      BY <1>1, <3>1, <3>2 DEF Places
  <2>2. ASSUME NEW y \in Places(d) PROVE y \in Places(a)
    <3>1. PICK k \in 1..n : y = d[k].at
      BY <1>1, <2>2 DEF Places
    <3>2. k \in DOMAIN a /\ a[k] = d[k]
      BY <1>1
    <3> QED
      BY <3>1, <3>2 DEF Places
  <2>3. v.at \in Places(a)
    <3>1. n + 1 \in DOMAIN a
      BY <1>1
    <3> QED
      BY <1>1, <3>1 DEF Places
  <2> QED
    BY <2>1, <2>2, <2>3
<1>3. ASSUME InOrder(d), \A y \in Places(d) : y < v.at PROVE InOrder(a)
  <2> SUFFICES ASSUME NEW j \in 1..(n + 1), NEW k \in 1..(n + 1), j < k PROVE a[j].at < a[k].at
    BY <1>1 DEF InOrder
  <2>1. j \in 1..n
    BY <1>1
  <2>2. CASE k \in 1..n
    BY <2>1, <2>2, <1>1, <1>3 DEF InOrder
  <2>3. CASE k = n + 1
    <3>1. d[j].at \in Places(d)
      BY <2>1, <1>1 DEF Places
    <3> QED
      BY <2>1, <2>3, <3>1, <1>1, <1>3
  <2> QED
    BY <2>2, <2>3, <1>1
<1> QED
  BY <1>2, <1>3 DEF a

\* No data, no places.
LEMMA NoPlaces == Places(<<>>) = {} /\ InOrder(<<>>)
  BY DEF Places, InOrder

\* FilledTo in these terms.
LEMMA FilledToIs ==
  ASSUME NEW q
  PROVE  FilledTo(q) <=>
           /\ \A l \in DOMAIN leafs : /\ Places(leafs[l].data) = {x \in BanksFor(l) : x < q}
                                      /\ InOrder(leafs[l].data)
           /\ settings.fAutoAdd =>
                \A x \in DOMAIN event : LeafBank(x) /\ x < q => LeafFor(x) # None
  BY DEF FilledTo, Places, InOrder

\* Where the data of the banks up to the one the parser is at belong after
\* AddOrFillLeaf.
LEMMA LeafForAfter ==
  ASSUME ParserAssumption, SyncInv, SyncInv', RouteInv, FilledTo(Top.p), ParseLeaf,
         phase' = "parsing"
  PROVE  /\ \A y \in DOMAIN event : LeafBank(y)' <=> LeafBank(y)
         /\ \A y \in DOMAIN event : LeafBank(y) /\ y < Top.p => LeafFor(y)' = LeafFor(y)
         /\ \A x : x = Top.p => LeafBank(x) /\ LeafFor(x)' = LeafHere
<1>1. event' = event /\ dest' = dest /\ settings' = settings
      /\ Parsing /\ Top.bank # None /\ Here.type \in LeafTypes
  BY DEF ParseLeaf
<1>2. Top.p \in DOMAIN event /\ event[Top.p].up = Top.at /\ dest[Top.at] = Top.bank
  BY <1>1, HereFacts
<1>3. leafs \in Seq(LeafType) /\ leafs' \in Seq(LeafType)
  BY DEF SyncInv, TypeOK
<1>4. \A y, b, t, m : b = dest[event[y].up] /\ t = event[y].tag /\ m = event[y].num =>
        LeafFor(y)' = FindLeaf(b, t, m)' /\ LeafFor(y) = FindLeaf(b, t, m)
  BY <1>1 DEF LeafFor, FindLeaf, IsLeafFor
<1>5. \A b, t, m : b = Top.bank /\ t = Here.tag /\ m = Here.num =>
        /\ Len(leafs) <= Len(leafs') /\ SameLeafs(Len(leafs))
        /\ Len(leafs') > Len(leafs) => settings.fAutoAdd
        /\ FindLeaf(b, t, m)' = LeafHere
  BY FillFacts
<1>6. /\ Len(leafs) <= Len(leafs') /\ SameLeafs(Len(leafs))
      /\ Len(leafs') > Len(leafs) => settings.fAutoAdd
  BY <1>5
<1>7. \A y \in DOMAIN event : LeafBank(y)' <=> LeafBank(y)
  BY <1>1 DEF LeafBank
<1>8. ASSUME NEW y \in DOMAIN event, LeafBank(y), y < Top.p PROVE LeafFor(y)' = LeafFor(y)
  <2>1. PICK b, t, m : b = dest[event[y].up] /\ t = event[y].tag /\ m = event[y].num
    OBVIOUS
  <2>2. LeafFor(y)' = FindLeaf(b, t, m)' /\ LeafFor(y) = FindLeaf(b, t, m)
    BY <1>4, <2>1
  <2>3. /\ FindLeaf(b, t, m) # None => FindLeaf(b, t, m)' = FindLeaf(b, t, m)
        /\ FindLeaf(b, t, m)' <= Len(leafs) => FindLeaf(b, t, m)' = FindLeaf(b, t, m)
        /\ FindLeaf(b, t, m)' \in 0..Len(leafs')
    BY <1>3, <1>6, FindLeafKept
  <2>4. CASE LeafFor(y) # None
    BY <2>2, <2>3, <2>4
  <2>5. CASE LeafFor(y) = None
    <3>1. ~settings.fAutoAdd
      BY <1>8, <2>5 DEF FilledTo
    <3>2. Len(leafs') = Len(leafs)
      BY <3>1, <1>3, <1>6
    <3> QED
      BY <2>2, <2>3, <3>2, <1>3
  <2> QED
    BY <2>4, <2>5
<1>9. LeafBank(Top.p)
  BY <1>1, <1>2 DEF LeafBank, Here
<1>10. ASSUME NEW x, x = Top.p PROVE LeafFor(x)' = LeafHere
  <2>1. PICK b, t, m : b = Top.bank /\ t = Here.tag /\ m = Here.num
    OBVIOUS
  <2>2. b = dest[event[x].up] /\ t = event[x].tag /\ m = event[x].num
    BY <1>2, <1>10, <2>1 DEF Here
  <2>3. LeafFor(x)' = FindLeaf(b, t, m)'
    BY <1>4, <2>2
  <2> QED
    BY <1>5, <2>1, <2>3
<1> QED
  BY <1>7, <1>8, <1>9, <1>10

\* AddOrFillLeaf puts the data of the bank in the leaf they belong in.
LEMMA FaithParseLeaf ==
  ASSUME ParserAssumption, SyncInv, SyncInv', FaithInv, ParseLeaf
  PROVE  FaithInv'
<1>1. Parsing /\ phase = "parsing" /\ RouteInv /\ FilledTo(Top.p) /\ Top.bank # None
      /\ Here.type \in LeafTypes
  BY DEF ParseLeaf, Parsing, FaithInv
<1>2. /\ banks' = banks /\ settings' = settings /\ dest' = dest /\ event' = event
      /\ calls' = Stepped(calls) /\ phase' \in {"parsing", "corrupt"}
  BY <1>1 DEF ParseLeaf
<1>3. ParsedFaithfully' /\ AutoAddKeepsAll'
  BY <1>2 DEF ParsedFaithfully, AutoAddKeepsAll
<1>4. CASE phase' = "corrupt"
  <2>1. leafs' = leafs
    BY <1>1, <1>4 DEF ParseLeaf
  <2>2. LeafHome'
    BY <1>2, <2>1 DEF FaithInv, LeafHome
  <2> QED
    BY <1>3, <1>4, <2>2 DEF FaithInv
<1>5. CASE phase' = "parsing"
  <2>1. /\ event \in Events /\ Top.p \in DOMAIN event /\ event[Top.p].up = Top.at
        /\ dest[Top.at] = Top.bank /\ Top.bank \in 0..Len(banks)
    BY <1>1, HereFacts
  <2>2. event[Top.p].type \notin Containers
    BY <1>1, KindsDiffer DEF Here
  <2>3. RoutedTo(EndOf(event, Top.p))
    BY <1>1, <2>1, <2>2, PassRouted DEF RouteInv
  <2>4. RouteInv' /\ Top'.p = EndOf(event, Top.p)
    BY <1>1, <1>2, <2>3, RouteStepped
  <2>5. PICK x, q, l0 : x = Top.p /\ q = EndOf(event, Top.p) /\ l0 = LeafHere
    OBVIOUS
  <2>6. \A y \in DOMAIN event : y < q <=> y < x \/ y = x
    BY <2>1, <2>2, <2>5, OneHeader
  <2>7. PICK b, t, m : b = Top.bank /\ t = Here.tag /\ m = Here.num
    OBVIOUS
  <2>8. /\ Len(leafs) <= Len(leafs')
        /\ settings.fAutoAdd => l0 # None
        /\ \A l \in DOMAIN leafs' : leafs'[l].data =
             IF l = l0 THEN Append(LeafsNow[l].data, Datum) ELSE LeafsNow[l].data
        /\ \A l \in DOMAIN leafs' : LeafsNow[l].data =
             IF l \in DOMAIN leafs THEN leafs[l].data ELSE <<>>
        /\ l0 # None => l0 \in DOMAIN leafs' /\ leafs'[l0].bank = b
        /\ \A l \in DOMAIN leafs' : l \in DOMAIN leafs \/ l = l0
        /\ SameLeafs(Len(leafs))
    BY <1>5, <2>5, <2>7, FillFacts
  <2>9. /\ \A y \in DOMAIN event : LeafBank(y)' <=> LeafBank(y)
        /\ \A y \in DOMAIN event : LeafBank(y) /\ y < x => LeafFor(y)' = LeafFor(y)
        /\ LeafBank(x) /\ LeafFor(x)' = l0
    BY <1>1, <1>5, <2>5, LeafForAfter
  <2>10. leafs \in Seq(LeafType) /\ leafs' \in Seq(LeafType) /\ banks \in Seq(BankType)
    BY DEF SyncInv, TypeOK
  <2>11. \A y : LeafFor(y) \in 0..Len(leafs)
    BY <2>10, FindLeafIs DEF LeafFor
  <2>12. /\ \A l \in DOMAIN leafs : /\ Places(leafs[l].data) = {y \in BanksFor(l) : y < x}
                                    /\ InOrder(leafs[l].data)
         /\ settings.fAutoAdd =>
              \A y \in DOMAIN event : LeafBank(y) /\ y < x => LeafFor(y) # None
    BY <1>1, <2>5, FilledToIs
  <2>13. Datum \in DataType /\ Datum.at = x
    BY <1>1, <2>5, LeafFacts DEF Datum
  <2>14. x \in DOMAIN event /\ x \in Nat
    BY <2>1, <2>5, Extents
  <2>15. \A l : BanksFor(l)' = {y \in DOMAIN event : LeafBank(y)' /\ LeafFor(y)' = l}
    BY <1>2 DEF BanksFor
  <2>16. ASSUME NEW l \in DOMAIN leafs'
         PROVE  /\ Places(leafs'[l].data) = {y \in BanksFor(l)' : y < q}
                /\ InOrder(leafs'[l].data)
    <3> DEFINE d == LeafsNow[l].data
    <3>1. /\ Places(d) = {y \in DOMAIN event : y < x /\ LeafBank(y) /\ LeafFor(y) = l}
          /\ InOrder(d) /\ d \in Seq(DataType)
      <4>1. CASE l \in DOMAIN leafs
        <5>1. d = leafs[l].data /\ leafs[l] \in LeafType
          BY <4>1, <2>8, <2>10, <2>16
        <5>2. d \in Seq(DataType)
          BY <5>1 DEF LeafType
        <5> QED
          BY <4>1, <5>1, <5>2, <2>12 DEF BanksFor
      <4>2. CASE l \notin DOMAIN leafs
        <5>1. d = <<>> /\ \A y : LeafFor(y) # l
          <6>1. l \in Nat \ {0}
            BY <2>10, <2>16
          <6> QED
            BY <4>2, <6>1, <2>8, <2>10, <2>11, <2>16
        <5> QED
          BY <5>1, NoPlaces
      <4> QED
        BY <4>1, <4>2
    <3>2. leafs'[l].data = IF l = l0 THEN Append(d, Datum) ELSE d
      BY <2>8, <2>16
    <3> HIDE DEF d
    <3>3. {y \in BanksFor(l)' : y < q} =
            {y \in DOMAIN event : y < x /\ LeafBank(y) /\ LeafFor(y) = l}
              \cup (IF l = l0 THEN {x} ELSE {})
      BY <2>6, <2>9, <2>14, <2>15
    <3>4. CASE l = l0
      <4>1. Places(Append(d, Datum)) = Places(d) \cup {x}
        BY <2>13, <3>1, AppendPlaces
      <4>2. InOrder(Append(d, Datum))
        BY <2>13, <3>1, AppendPlaces
      <4> QED
        BY <3>1, <3>2, <3>3, <3>4, <4>1, <4>2
    <3>5. CASE l # l0
      BY <3>1, <3>2, <3>3, <3>5
    <3> QED
      BY <3>4, <3>5
  <2>17. settings.fAutoAdd =>
           \A y \in DOMAIN event : LeafBank(y)' /\ y < q => LeafFor(y)' # None
    BY <2>6, <2>8, <2>9, <2>12
  <2>18. FilledTo(Top.p)'
    <3>1. Top.p' = q
      BY <2>4, <2>5
    <3> HIDE DEF Top
    <3> QED
      BY <1>2, <2>16, <2>17, <3>1 DEF FilledTo, Places, InOrder
  <2>19. LeafHome'
    <3> SUFFICES ASSUME NEW l \in DOMAIN leafs', leafs'[l].data # <<>>
                 PROVE  leafs'[l].bank \in DOMAIN banks'
      BY DEF LeafHome
    <3>1. CASE l = l0
      <4>1. l0 # None
        BY <3>1, <2>10 DEF None
      <4>2. leafs'[l].bank = Top.bank
        BY <3>1, <4>1, <2>7, <2>8
      <4> QED
        BY <4>2, <1>1, <1>2, <2>1, <2>10 DEF None
    <3>2. CASE l # l0
      <4>1. l \in DOMAIN leafs /\ leafs'[l].data = leafs[l].data
        BY <3>2, <2>8
      <4>2. leafs'[l].bank = leafs[l].bank
        BY <4>1, <2>8, <2>10 DEF SameLeafs
      <4> QED
        BY <4>1, <4>2, <1>2 DEF FaithInv, LeafHome
    <3> QED
      BY <3>1, <3>2
  <2> QED
    BY <1>3, <2>4, <2>18, <2>19 DEF FaithInv
<1> QED
  BY <1>2, <1>4, <1>5

\* What ContainerNodeHandler does to the banks: a bank may be added, with nothing
\* that was found before in another place.
LEMMA NodeAfter ==
  ASSUME ParserAssumption, SyncInv, SyncInv', ParseContainer,
         NEW b, b = Top.bank, NEW t, t = Here.tag, NEW m, m = Here.num
  PROVE  /\ Len(banks) <= Len(banks') /\ SameBanks(Len(banks))
         /\ Len(banks') > Len(banks) => settings.fAutoAdd
         /\ Node \in 0..Len(banks') /\ (settings.fAutoAdd => Node # None)
         /\ Pruned(Depth) => Node = b
         /\ ~Pruned(Depth) => FindBank(b, t, m)' = Node
<1>1. Parsing /\ Top.bank # None /\ Here.type \in Containers
  BY DEF ParseContainer
<1>2. banks \in Seq(BankType) /\ banks' \in Seq(BankType) /\ Len(banks) \in Nat
  BY DEF SyncInv, TypeOK
<1>3. Here \in HeaderType /\ Top.bank \in 0..Len(banks)
  BY <1>1, ParsingFacts
<1> DEFINE n  == Node
           bs == BanksNow(n)
           nb == NewBank(Top.bank, {Here.tag}, Here.num)
<1>4. n \in 0..(Len(banks) + 1) /\ bs \in Seq(BankType) /\ n <= Len(bs)
  BY <1>1, NodeFacts
<1>5. FindBank(b, t, m) \in 0..Len(banks)
  BY <1>2, FindBankIs
<1>6. n = IF Pruned(Depth) THEN b
          ELSE IF FindBank(b, t, m) = None /\ settings.fAutoAdd THEN Len(banks) + 1
          ELSE FindBank(b, t, m)
  BY DEF Node, NodeFor
<1>7. bs = IF n = Len(banks) + 1 THEN Append(banks, nb) ELSE banks
  BY DEF BanksNow
<1>8. banks' = IF n = None THEN banks ELSE Entered(bs, n, Here)
  BY DEF ParseContainer
<1>9. nb.up = b /\ nb.tags = {t} /\ nb.num = m
  BY DEF NewBank
<1> HIDE DEF n, bs, nb
<1>10. /\ Len(banks') = Len(bs) /\ DOMAIN banks' = DOMAIN bs
       /\ \A k \in DOMAIN bs : /\ banks'[k].up = bs[k].up /\ banks'[k].tags = bs[k].tags
                               /\ banks'[k].num = bs[k].num
  <2>1. CASE n = None
    <3>1. bs = banks
      BY <2>1, <1>2, <1>7 DEF None
    <3> QED
      BY <2>1, <3>1, <1>8
  <2>2. CASE n # None
    <3> DEFINE e == [bs[n] EXCEPT !.this_tag = Here.tag, !.this_num = Here.num]
    <3>1. banks' = [bs EXCEPT ![n] = e]
      BY <2>2, <1>8 DEF Entered
    <3>2. Len(bs) \in Nat /\ DOMAIN bs = 1..Len(bs) /\ n \in DOMAIN bs /\ bs[n] \in BankType
      BY <2>2, <1>4 DEF None
    <3>3. e.up = bs[n].up /\ e.tags = bs[n].tags /\ e.num = bs[n].num
      BY <3>2 DEF BankType
    <3> HIDE DEF e
    <3>4. Len(banks') = Len(bs) /\ DOMAIN banks' = DOMAIN bs
      BY <3>1, <3>2, <1>4
    <3> QED
      BY <3>1, <3>2, <3>3, <3>4
  <2> QED
    BY <2>1, <2>2
<1>11. Len(banks) <= Len(bs) /\ \A k \in 1..Len(banks) : k \in DOMAIN bs /\ bs[k] = banks[k]
  BY <1>2, <1>7
<1>12. Len(banks) <= Len(banks') /\ SameBanks(Len(banks))
  BY <1>10, <1>11 DEF SameBanks
<1>13. n = Len(banks) + 1 => settings.fAutoAdd /\ FindBank(b, t, m) = None /\ ~Pruned(Depth)
  BY <1>2, <1>3, <1>5, <1>6
<1>14. Len(banks') > Len(banks) => settings.fAutoAdd
  <2>1. CASE n = Len(banks) + 1
    BY <2>1, <1>13
  <2>2. CASE n # Len(banks) + 1
    BY <2>2, <1>2, <1>7, <1>10
  <2> QED
    BY <2>1, <2>2
<1>15. n \in 0..Len(banks')
  BY <1>2, <1>4, <1>10
<1>16. settings.fAutoAdd => n # None
  BY <1>1, <1>2, <1>6 DEF None
<1>17. ~Pruned(Depth) => FindBank(b, t, m)' = n
  <2> SUFFICES ASSUME ~Pruned(Depth) PROVE FindBank(b, t, m)' = n
    OBVIOUS
  <2>1. /\ FindBank(b, t, m) # None => FindBank(b, t, m)' = FindBank(b, t, m)
        /\ FindBank(b, t, m)' <= Len(banks) => FindBank(b, t, m)' = FindBank(b, t, m)
        /\ FindBank(b, t, m)' \in 0..Len(banks')
        /\ \A k \in DOMAIN banks' : IsBankFor(k, b, t, m)' => FindBank(b, t, m)' # None
    BY <1>2, <1>12, FindBankKept
  <2>2. CASE FindBank(b, t, m) # None
    BY <2>1, <2>2, <1>6
  <2>3. CASE FindBank(b, t, m) = None /\ settings.fAutoAdd
    <3>1. n = Len(banks) + 1
      BY <2>3, <1>6
    <3>2. Len(banks') = Len(banks) + 1 /\ n \in DOMAIN bs /\ bs[n] = nb
      BY <3>1, <1>2, <1>7, <1>10
    <3>3. banks'[n].up = b /\ banks'[n].tags = {t} /\ banks'[n].num = m
      BY <3>2, <1>9, <1>10
    <3>4. FindBank(b, t, m)' # None
      <4>1. PICK k : k = n
        OBVIOUS
      <4>2. IsBankFor(k, b, t, m)'
        BY <3>3, <4>1 DEF IsBankFor
      <4>3. k \in DOMAIN banks'
        BY <3>2, <4>1, <1>10
      <4> QED
        BY <2>1, <4>2, <4>3
    <3> QED
      BY <2>1, <2>3, <3>1, <3>2, <3>4, <1>2
  <2>4. CASE FindBank(b, t, m) = None /\ ~settings.fAutoAdd
    <3>1. n = None /\ Len(banks') = Len(banks)
      BY <2>4, <1>2, <1>6, <1>12, <1>14
    <3> QED
      BY <2>1, <2>4, <3>1, <1>2
  <2> QED
    BY <2>2, <2>3, <2>4
<1> QED
  BY <1>6, <1>12, <1>14, <1>15, <1>16, <1>17 DEF n

\* ParseBank goes into a container, in the bank it belongs in.
LEMMA FaithParseContainer ==
  ASSUME ParserAssumption, SyncInv, SyncInv', FaithInv, ParseContainer
  PROVE  FaithInv'
<1>1. Parsing /\ phase = "parsing" /\ RouteInv /\ FilledTo(Top.p) /\ Top.bank # None
      /\ Here.type \in Containers
  BY DEF ParseContainer, Parsing, FaithInv
<1>2. PICK x, q, b, t, m, n, d :
        /\ x = Top.p /\ q = DataAt(event, Top.p) /\ b = Top.bank /\ t = Here.tag /\ m = Here.num
        /\ n = Node /\ d = Depth
  OBVIOUS
<1> DEFINE f == [at |-> x, type |-> Here.type, bank |-> n, p |-> q]
<1>3. /\ event \in Events /\ x \in DOMAIN event /\ event[x].up = Top.at
      /\ dest[Top.at] = b /\ event[x].depth = d
      /\ Top.p + HeaderWords(Top.type) = q /\ Len(calls) \in Nat \ {0} /\ Frames(calls)
      /\ Top.at # Outside => Top.at \in DOMAIN event /\ Top.at < x
  BY <1>1, <1>2, HereFacts
<1>4. /\ leafs' = leafs /\ settings' = settings /\ event' = event /\ phase' = "parsing"
      /\ calls' = Append(calls, f) /\ dest' = [dest EXCEPT ![x] = n]
  BY <1>1, <1>2, <1>3 DEF ParseContainer
<1>5. /\ Len(banks) <= Len(banks') /\ SameBanks(Len(banks))
      /\ Len(banks') > Len(banks) => settings.fAutoAdd
      /\ n \in 0..Len(banks') /\ (settings.fAutoAdd => n # None)
      /\ Pruned(d) => n = b
      /\ ~Pruned(d) => FindBank(b, t, m)' = n
  BY <1>2, NodeAfter
<1>6. banks \in Seq(BankType) /\ banks' \in Seq(BankType) /\ Len(banks) \in Nat
      /\ Len(banks') \in Nat
  BY DEF SyncInv, TypeOK
<1>7. q \in Nat /\ x < q /\ x \in Nat /\ \A y \in DOMAIN event : y < q <=> y < x \/ y = x
  BY <1>2, <1>3, OneHeader, Extents
<1>8. /\ dest \in [DOMAIN event \cup {Outside} -> 0..Len(banks)] /\ dest[Outside] = Root
      /\ \A k \in 2..Len(calls) : calls[k].bank = dest[calls[k].at] /\ calls[k - 1].bank # None
      /\ RoutedTo(x)
  BY <1>1, <1>2 DEF RouteInv
<1>9. x # Outside /\ \A y \in DOMAIN event : y \in Nat
  BY <1>3, <1>7, Extents DEF Outside
<1>10. \A z \in DOMAIN event \cup {Outside} : dest'[z] = IF z = x THEN n ELSE dest[z]
  BY <1>4, <1>8
<1>11. /\ dest' \in [DOMAIN event \cup {Outside} -> 0..Len(banks')] /\ dest'[Outside] = Root
  <2>1. dest' = [z \in DOMAIN event \cup {Outside} |-> dest'[z]]
    BY <1>4, <1>8
  <2>2. \A z \in DOMAIN event \cup {Outside} : dest'[z] \in 0..Len(banks')
    <3>1. \A z \in DOMAIN event \cup {Outside} : dest[z] \in 0..Len(banks')
      BY <1>5, <1>6, <1>8
    <3> QED
      BY <3>1, <1>5, <1>10
  <2> QED
    BY <2>1, <2>2, <1>8, <1>9, <1>10
<1>12. \A y \in DOMAIN event : event[y].up \in DOMAIN event \cup {Outside}
                               /\ (~(x < y) => dest'[event[y].up] = dest[event[y].up])
  <2> SUFFICES ASSUME NEW y \in DOMAIN event
               PROVE  event[y].up \in DOMAIN event \cup {Outside}
                      /\ (~(x < y) => dest'[event[y].up] = dest[event[y].up])
    OBVIOUS
  <2>1. event[y].up # Outside => event[y].up \in DOMAIN event /\ event[y].up < y
    BY <1>3, UpBefore
  <2> QED
    BY <2>1, <1>7, <1>9, <1>10
<1>13. \A y, b1, t1, m1 :
         y \in DOMAIN event /\ b1 = dest'[event[y].up] /\ t1 = event[y].tag /\ m1 = event[y].num =>
           BankFor(y)' = IF b1 = None THEN None
                         ELSE IF Pruned(event[y].depth) THEN b1 ELSE FindBank(b1, t1, m1)'
  BY <1>4 DEF BankFor, Pruned, FindBank, IsBankFor
<1>14. dest[x] = None
  <2>1. event[x].type \in Containers /\ ~(x < x)
    BY <1>1, <1>2, <1>7 DEF Here
  <2> QED
    BY <2>1, <1>3, <1>8 DEF RoutedTo
<1>15. RoutedTo(q)'
  <2> SUFFICES ASSUME NEW c \in DOMAIN event, event[c].type \in Containers
               PROVE  IF c < q THEN dest'[c] = BankFor(c)' /\ (settings.fAutoAdd => dest'[c] # None)
                               ELSE dest'[c] = None
    BY <1>4 DEF RoutedTo
  <2>1. CASE c = x
    <3>1. c < q /\ dest'[c] = n
      BY <2>1, <1>7, <1>10
    <3>2. dest'[event[c].up] = b
      BY <2>1, <1>3, <1>7, <1>12
    <3>3. t = event[c].tag /\ m = event[c].num /\ b # None /\ event[c].depth = d
      BY <2>1, <1>1, <1>2, <1>3 DEF Here
    <3>4. BankFor(c)' = IF Pruned(d) THEN b ELSE FindBank(b, t, m)'
      BY <1>13, <3>2, <3>3
    <3> QED
      BY <3>1, <3>4, <1>5
  <2>2. CASE c < x
    <3>1. c < q /\ dest'[c] = dest[c] /\ dest'[event[c].up] = dest[event[c].up]
      BY <2>2, <1>7, <1>9, <1>10, <1>12
    <3>2. dest[c] = BankFor(c) /\ (settings.fAutoAdd => dest[c] # None)
      BY <2>2, <1>8 DEF RoutedTo
    <3>3. PICK b1, t1, m1 : b1 = dest[event[c].up] /\ t1 = event[c].tag /\ m1 = event[c].num
      OBVIOUS
    <3>4. BankFor(c) = IF b1 = None THEN None
                       ELSE IF Pruned(event[c].depth) THEN b1 ELSE FindBank(b1, t1, m1)
      BY <3>3 DEF BankFor
    <3>5. BankFor(c)' = IF b1 = None THEN None
                        ELSE IF Pruned(event[c].depth) THEN b1 ELSE FindBank(b1, t1, m1)'
      BY <1>13, <3>1, <3>3
    <3>6. /\ FindBank(b1, t1, m1) # None => FindBank(b1, t1, m1)' = FindBank(b1, t1, m1)
          /\ FindBank(b1, t1, m1)' <= Len(banks) => FindBank(b1, t1, m1)' = FindBank(b1, t1, m1)
          /\ FindBank(b1, t1, m1)' \in 0..Len(banks')
      BY <1>5, <1>6, FindBankKept
    <3>7. CASE settings.fAutoAdd
      BY <3>1, <3>2, <3>4, <3>5, <3>6, <3>7
    <3>8. CASE ~settings.fAutoAdd
      <4>1. Len(banks') = Len(banks)
        BY <3>8, <1>5, <1>6
      <4>2. FindBank(b1, t1, m1)' = FindBank(b1, t1, m1)
        BY <3>6, <4>1, <1>6
      <4> QED
        BY <3>1, <3>2, <3>4, <3>5, <3>8, <4>2
    <3> QED
      BY <3>7, <3>8
  <2>3. CASE ~(c < x) /\ c # x
    <3>1. ~(c < q) /\ dest'[c] = dest[c] /\ dest[c] = None
      BY <2>3, <1>7, <1>8, <1>10 DEF RoutedTo
    <3> QED
      BY <3>1
  <2> QED
    BY <2>1, <2>2, <2>3
<1>16. /\ Len(calls') = Len(calls) + 1 /\ calls'[Len(calls) + 1] = f
       /\ \A k \in 1..Len(calls) : calls'[k] = calls[k]
  BY <1>3, <1>4 DEF Frames
<1>17. Top.p' = q
  BY <1>16 DEF Top
<1>18. ASSUME NEW k \in 2..Len(calls')
       PROVE  calls'[k].bank = dest'[calls'[k].at] /\ calls'[k - 1].bank # None
  <2>1. CASE k = Len(calls) + 1
    <3>1. calls'[k] = f /\ calls'[k - 1] = Top
      BY <2>1, <1>3, <1>16 DEF Top
    <3>2. f.bank = n /\ f.at = x
      OBVIOUS
    <3> QED
      BY <3>1, <3>2, <1>1, <1>3, <1>10
  <2>2. CASE k # Len(calls) + 1
    <3>1. k \in 2..Len(calls) /\ k \in 1..Len(calls) /\ k - 1 \in 1..Len(calls)
      BY <2>2, <1>3, <1>16
    <3>2. calls[k].bank = dest[calls[k].at] /\ calls[k - 1].bank # None
      BY <3>1, <1>8
    <3>3. calls[k].bank # None
      <4>1. CASE k = Len(calls)
        BY <4>1, <1>1 DEF Top
      <4>2. CASE k # Len(calls)
        <5>1. k + 1 \in 2..Len(calls) /\ (k + 1) - 1 = k
          BY <3>1, <4>2, <1>3
        <5> QED
          BY <5>1, <1>8
      <4> QED
        BY <4>1, <4>2
    <3>4. calls[k].at # x
      BY <3>2, <3>3, <1>14
    <3>5. calls[k].at \in DOMAIN event
      BY <3>1, <1>1, HereFacts DEF Nested
    <3> QED
      BY <3>1, <3>2, <3>4, <3>5, <1>10, <1>16
  <2> QED
    BY <2>1, <2>2
<1>19. RouteInv'
  <2>1. RoutedTo(Top.p)'
    BY <1>15, <1>17 DEF RoutedTo
  <2> QED
    BY <2>1, <1>4, <1>11, <1>18 DEF RouteInv
<1>20. FilledTo(Top.p)'
  <2>1. \A y \in DOMAIN event : ~(x < y) => LeafFor(y)' = LeafFor(y) /\ (LeafBank(y)' <=> LeafBank(y))
    BY <1>4, <1>12 DEF LeafFor, LeafBank, FindLeaf, IsLeafFor
  <2>2. ~LeafBank(x)' /\ ~LeafBank(x)
    <3>1. event[x].type \notin LeafTypes
      BY <1>1, <1>2, KindsDiffer DEF Here
    <3> QED
      BY <3>1, <1>4 DEF LeafBank
  <2>3. \A y \in DOMAIN event : y < x => ~(x < y)
    BY <1>7, <1>9
  <2>4. \A l : BanksFor(l)' = {y \in DOMAIN event : LeafBank(y)' /\ LeafFor(y)' = l}
    BY <1>4 DEF BanksFor
  <2>5. \A l : {y \in BanksFor(l)' : y < q} = {y \in BanksFor(l) : y < x}
    BY <2>1, <2>2, <2>3, <2>4, <1>7 DEF BanksFor
  <2>6. /\ \A l \in DOMAIN leafs : /\ Places(leafs[l].data) = {y \in BanksFor(l) : y < x}
                                   /\ InOrder(leafs[l].data)
        /\ settings.fAutoAdd =>
             \A y \in DOMAIN event : LeafBank(y) /\ y < x => LeafFor(y) # None
    BY <1>1, <1>2, FilledToIs
  <2>7. settings.fAutoAdd =>
          \A y \in DOMAIN event : LeafBank(y)' /\ y < q => LeafFor(y)' # None
    BY <2>1, <2>2, <2>3, <2>6, <1>7
  <2>8. \A l \in DOMAIN leafs : /\ Places(leafs[l].data) = {y \in BanksFor(l)' : y < q}
                                /\ InOrder(leafs[l].data)
    BY <2>5, <2>6
  <2> HIDE DEF Top
  <2> QED
    BY <1>4, <1>17, <2>7, <2>8 DEF FilledTo, Places, InOrder
<1>21. LeafHome'
  <2>1. DOMAIN banks \subseteq DOMAIN banks'
    BY <1>5, <1>6
  <2> QED
    BY <2>1, <1>4 DEF FaithInv, LeafHome
<1>22. ParsedFaithfully' /\ AutoAddKeepsAll'
  BY <1>4 DEF ParsedFaithfully, AutoAddKeepsAll
<1> QED
  BY <1>19, <1>20, <1>21, <1>22 DEF FaithInv

\* Clear leaves no data, whether it keeps the leafs or deletes them.
LEMMA NothingLeft ==
  ASSUME SyncInv, FaithInv, NEW e \in Events, NextEvent(e)
  PROVE  DOMAIN leafs' = DOMAIN leafs /\ \A l \in DOMAIN leafs' : leafs'[l].data = <<>>
<1>1. \A l \in DOMAIN leafs : leafs[l] \in LeafType
  BY DEF SyncInv, TypeOK
<1>2. leafs' = ClearedLeafs(settings.fFullErase)
  BY DEF NextEvent
<1>3. CASE settings.fFullErase
  <2>1. leafs' = [l \in DOMAIN leafs |-> IF leafs[l].bank \in DOMAIN banks
                    THEN [leafs[l] EXCEPT !.bank = Gone, !.data = <<>>] ELSE leafs[l]]
    BY <1>2, <1>3 DEF ClearedLeafs, LeafsWithout
  <2>2. \A l \in DOMAIN leafs : [leafs[l] EXCEPT !.bank = Gone, !.data = <<>>].data = <<>>
    BY <1>1 DEF LeafType
  <2> QED
    BY <2>1, <2>2 DEF FaithInv, LeafHome
<1>4. CASE ~settings.fFullErase
  <2>1. leafs' = [l \in DOMAIN leafs |-> [leafs[l] EXCEPT !.data = <<>>]]
    BY <1>2, <1>4 DEF ClearedLeafs
  <2>2. \A l \in DOMAIN leafs : [leafs[l] EXCEPT !.data = <<>>].data = <<>>
    BY <1>1 DEF LeafType
  <2> QED
    BY <2>1, <2>2
<1> QED
  BY <1>3, <1>4

\* Next clears what the last event left.
LEMMA FaithNextEvent ==
  ASSUME ParserAssumption, SyncInv, SyncInv', FaithInv, NEW e \in Events, NextEvent(e)
  PROVE  FaithInv'
<1>1. banks \in Seq(BankType) /\ leafs \in Seq(LeafType) /\ Len(banks) \in Nat
  BY DEF SyncInv, TypeOK
<1>2. /\ leafs' = ClearedLeafs(settings.fFullErase) /\ event' = e
      /\ dest' = [z \in DOMAIN e \cup {Outside} |-> IF z = Outside THEN Root ELSE None]
      /\ phase' \in {"aborted", "skipped", "parsing"}
  BY DEF NextEvent
<1>3. DOMAIN leafs' = DOMAIN leafs /\ \A l \in DOMAIN leafs' : leafs'[l].data = <<>>
  BY NothingLeft
<1>4. LeafHome'
  BY <1>3 DEF LeafHome
<1>5. ParsedFaithfully' /\ AutoAddKeepsAll'
  BY <1>2, <1>3 DEF ParsedFaithfully, AutoAddKeepsAll
<1>6. ASSUME phase' = "parsing" PROVE RouteInv' /\ FilledTo(Top.p)'
  <2>1. WellFormed(e) /\ DOMAIN e \subseteq Nat
    BY DEF ParserAssumption, WellFormed
  <2>2. \A y \in DOMAIN e : ~(y < 0) /\ y # Outside
    BY <2>1 DEF Outside
  <2>3. calls' = <<[at |-> Outside, type |-> "bank", bank |-> Root, p |-> 0]>>
    BY <1>6 DEF NextEvent
  <2>4. Len(calls') = 1 /\ Top.p' = 0
    BY <2>3 DEF Top
  <2>5. Len(banks') \in Nat /\ Len(banks') > 0
    BY DEF SyncInv, TypeOK
  <2>6. dest' \in [DOMAIN e \cup {Outside} -> 0..Len(banks')] /\ dest'[Outside] = Root
    BY <1>2, <2>5 DEF Root, None
  <2>7. \A c \in DOMAIN e : dest'[c] = None
    BY <1>2, <2>2
  <2>8. RoutedTo(Top.p)'
    BY <1>2, <2>2, <2>4, <2>7 DEF RoutedTo
  <2>9. RouteInv'
    BY <1>2, <2>4, <2>6, <2>8 DEF RouteInv
  <2>10. \A l : {y \in BanksFor(l)' : y < 0} = {}
    BY <1>2, <2>2 DEF BanksFor
  <2>11. \A l \in DOMAIN leafs' : /\ Places(leafs'[l].data) = {y \in BanksFor(l)' : y < 0}
                                  /\ InOrder(leafs'[l].data)
    BY <1>3, <2>10, NoPlaces
  <2>12. FilledTo(Top.p)'
    <3> HIDE DEF Top
    <3> QED
      BY <1>2, <2>2, <2>4, <2>11 DEF FilledTo, Places, InOrder
  <2> QED
    BY <2>9, <2>12
<1> QED
  BY <1>4, <1>5, <1>6 DEF FaithInv

\* Booking puts nothing in a leaf, and takes the data of what it deletes.
LEMMA FaithBooking ==
  ASSUME ParserAssumption, SyncInv, SyncInv', FaithInv, Booking
  PROVE  FaithInv'
<1>1. phase' = "booking"
  BY DEF Booking, Book
<1>2. banks \in Seq(BankType) /\ leafs \in Seq(LeafType) /\ LeafHome
  BY DEF SyncInv, TypeOK, FaithInv
<1>3. LeafHome'
  <2>1. CASE Book(BookLeaf)
    <3>1. PICK b \in DOMAIN banks, n \in Names, t \in Tags, m \in Nums, y \in BookTypes :
            AddLeaf(b, <<n, 0, 0>>, t, m, y)
      BY <2>1 DEF Book, BookLeaf
    <3> DEFINE nl == NewLeaf(b, <<n, 0, 0>>, t, m, y)
    <3>2. leafs' = Append(leafs, nl) /\ banks' = banks
      BY <3>1 DEF AddLeaf
    <3>3. nl.data = <<>>
      BY DEF NewLeaf, LeafOf
    <3> HIDE DEF nl
    <3>4. \A l \in DOMAIN leafs' : (l \in DOMAIN leafs /\ leafs'[l] = leafs[l]) \/ leafs'[l] = nl
      BY <3>2, <1>2
    <3> QED
      BY <3>2, <3>3, <3>4, <1>2 DEF LeafHome
  <2>5. CASE Book(BookThisLeaf)
    <3>1. PICK b \in DOMAIN banks, n \in Names, t \in Tags, m \in Nums, y \in BookTypes :
            AddThisLeaf(b, <<n, 0, 0>>, t, m, y)
      BY <2>5 DEF Book, BookThisLeaf
    <3> DEFINE nl == ThisLeaf(b, <<n, 0, 0>>, t, m, y)
    <3>2. leafs' = Append(leafs, nl) /\ banks' = banks
      BY <3>1 DEF AddThisLeaf
    <3>3. nl.data = <<>>
      BY DEF ThisLeaf, LeafOf
    <3> HIDE DEF nl
    <3>4. \A l \in DOMAIN leafs' : (l \in DOMAIN leafs /\ leafs'[l] = leafs[l]) \/ leafs'[l] = nl
      BY <3>2, <1>2
    <3> QED
      BY <3>2, <3>3, <3>4, <1>2 DEF LeafHome
  <2>2. CASE Book(BookBank)
    <3>1. PICK b, t, m, o : AddBank(b, t, m, o)
      BY <2>2 DEF Book, BookBank
    <3>2. leafs' = leafs /\ DOMAIN banks \subseteq DOMAIN banks'
      BY <3>1, <1>2 DEF AddBank
    <3> QED
      BY <3>2, <1>2 DEF LeafHome
  <2>3. CASE Book(BookBankOfTags)
    <3>1. PICK b, ts, m : AddBankOfTags(b, ts, m)
      BY <2>3 DEF Book, BookBankOfTags
    <3>2. leafs' = leafs /\ DOMAIN banks \subseteq DOMAIN banks'
      BY <3>1, <1>2 DEF AddBankOfTags
    <3> QED
      BY <3>2, <1>2 DEF LeafHome
  <2>4. CASE Book(Unbook)
    <3>1. PICK b : RemoveBank(b)
      BY <2>4 DEF Book, Unbook
    <3> DEFINE B == Below(b)
    <3>2. /\ banks' = BanksWithout(B) /\ leafs' = LeafsWithout(B)
      BY <3>1 DEF RemoveBank
    <3> HIDE DEF B
    <3>3. DOMAIN banks' = DOMAIN banks
      BY <3>2 DEF BanksWithout
    <3>4. \A l \in DOMAIN leafs : [leafs[l] EXCEPT !.bank = Gone, !.data = <<>>].data = <<>>
      <4>1. \A l \in DOMAIN leafs : leafs[l] \in LeafType
        BY <1>2
      <4> QED
        BY <4>1 DEF LeafType
    <3>5. \A l \in DOMAIN leafs' : l \in DOMAIN leafs /\ (leafs'[l].data = <<>> \/ leafs'[l] = leafs[l])
      BY <3>2, <3>4 DEF LeafsWithout
    <3> QED
      BY <3>3, <3>5, <1>2 DEF LeafHome
  <2> QED
    BY <2>1, <2>2, <2>3, <2>4, <2>5 DEF Booking
<1> QED
  BY <1>1, <1>3 DEF FaithInv, ParsedFaithfully, AutoAddKeepsAll

\* Every step keeps the data of an event where they belong.
LEMMA FaithStep ==
  ASSUME ParserAssumption, SyncInv, SyncInv', FaithInv, [Next]_vars
  PROVE  FaithInv'
<1>1. CASE Booking
  BY <1>1, FaithBooking
<1>2. CASE \E e \in Events : NextEvent(e)
  BY <1>2, FaithNextEvent
<1>3. CASE ParseLeaf
  BY <1>3, FaithParseLeaf
<1>4. CASE ParseContainer
  BY <1>4, FaithParseContainer
<1>5. CASE ParseNothing
  BY <1>5, FaithParseNothing
<1>6. CASE EndContainer
  BY <1>6, FaithEndContainer
<1>7. CASE EndEvent
  BY <1>7, FaithEndEvent
<1>8. CASE UNCHANGED vars
  <2>1. /\ banks' = banks /\ leafs' = leafs /\ settings' = settings /\ dest' = dest
        /\ event' = event /\ phase' = phase /\ calls' = calls
    BY <1>8 DEF vars, bankVars, parseVars
  <2>2. \A z : /\ BanksFor(z)' = BanksFor(z) /\ LeafFor(z)' = LeafFor(z)
               /\ LeafBank(z)' = LeafBank(z)
    BY <2>1, SameData
  <2>3. \A c : BankFor(c)' = BankFor(c)
    BY <2>1 DEF BankFor, Pruned, FindBank, IsBankFor
  <2>4. Top' = Top
    BY <2>1 DEF Top
  <2>5. LeafHome' /\ ParsedFaithfully' /\ AutoAddKeepsAll'
    BY <2>1, <2>2, <2>3 DEF FaithInv, LeafHome, ParsedFaithfully, AutoAddKeepsAll
  <2>6. phase = "parsing" => RouteInv'
    BY <2>1, <2>3, <2>4 DEF FaithInv, RouteInv, RoutedTo
  <2>7. phase = "parsing" => FilledTo(Top.p)'
    BY <2>1, <2>2, <2>4 DEF FaithInv, FilledTo
  <2> QED
    BY <2>1, <2>5, <2>6, <2>7 DEF FaithInv
<1> QED
  BY <1>1, <1>2, <1>3, <1>4, <1>5, <1>6, <1>7, <1>8 DEF Next, ParseBank

\* What makes ParsedFaithfully inductive holds.
LEMMA Faithful == Spec => []FaithInv
<1>1. Init => FaithInv
  BY DEF Init, FaithInv, LeafHome, ParsedFaithfully, AutoAddKeepsAll
<1>2. SyncInv /\ SyncInv' /\ FaithInv /\ [Next]_vars => FaithInv'
  BY FaithStep, ParserAssumption
<1> QED
  BY <1>1, <1>2, InStep, PTL DEF Spec

\* For every set of well-formed events, whatever a program booked before or
\* between them and whatever the settings are: when Next has parsed an event, each
\* leaf holds the data of just those banks of it that belong in the leaf, once and
\* in their order, and a skipped event leaves nothing.
THEOREM DataAreWhereTheyBelong == Spec => []ParsedFaithfully
<1>1. FaithInv => ParsedFaithfully
  BY DEF FaithInv
<1> QED
  BY <1>1, Faithful, PTL

\* With fAutoAdd no data of a parsed event are left out.
THEOREM NothingLeftOut == Spec => []AutoAddKeepsAll
<1>1. FaithInv => AutoAddKeepsAll
  BY DEF FaithInv
<1> QED
  BY <1>1, Faithful, PTL

-----------------------------------------------------------------------------
(* CallBack.                                                               *)

CallBackInv == CallBackSeesAll /\ (phase = "parsing" => DirtyInv)

\* Data go to the bank of the top frame, which is called back when it is popped.
LEMMA CallBackStep ==
  ASSUME ParserAssumption, SyncInv, SyncInv', CallBackInv, [Next]_vars
  PROVE  CallBackInv'
<1> DEFINE Open == {calls[k].bank : k \in 2..Len(calls)}
<1>1. CASE Booking
  BY <1>1 DEF Booking, Book, CallBackInv, CallBackSeesAll
<1>2. CASE \E e \in Events : NextEvent(e)
  BY <1>2 DEF NextEvent, CallBackInv, CallBackSeesAll, DirtyInv
<1>3. CASE ParseLeaf
  <2>1. /\ Parsing /\ phase = "parsing" /\ event' = event /\ calls' = Stepped(calls)
        /\ phase' \in {"parsing", "corrupt"} /\ dirty' \subseteq dirty \cup {Top.bank}
        /\ Here.type \in LeafTypes
    BY <1>3 DEF ParseLeaf, Parsing
  <2>2. ASSUME event[0].type \in Containers PROVE Len(calls) \in 2..Len(calls)
    <3>1. /\ event \in Events /\ Frames(calls) /\ Nested(calls) /\ Top.p < Limit(Top)
          /\ Len(calls) \in Nat \ {0}
      BY <2>1, ParsingFacts
    <3>2. CASE Len(calls) = 1
      <4>1. Top.at = Outside
        BY <3>1, <3>2 DEF Nested, Top
      <4>2. 1 \in 1..Len(calls) /\ calls[1].p < Limit(calls[1]) /\ calls[1].at = Outside
        BY <3>1, <3>2, <4>1 DEF Top
      <4>3. calls[1].p = 0
        BY <3>1, <4>2, AtHeader
      <4>4. Here = event[0]
        BY <3>2, <4>3 DEF Here, Top
      <4> QED
        BY <2>1, <2>2, <4>4, KindsDiffer
    <3>3. CASE Len(calls) # 1
      <4> DEFINE n == Len(calls)
      <4>1. n \in Nat \ {0} /\ n # 1
        BY <3>1, <3>3
      <4> HIDE DEF n
      <4>2. n \in 2..n
        BY <4>1
      <4> QED
        BY <4>2 DEF n
    <3> QED
      BY <3>2, <3>3
  <2>3. \A k \in DOMAIN calls : calls'[k].bank = calls[k].bank
    BY <2>1, ParsingFacts
  <2>4. Len(calls') = Len(calls) /\ DOMAIN calls = 1..Len(calls) /\ Len(calls) \in Nat
    BY <2>1 DEF Stepped, SyncInv, TypeOK
  <2>5. event[0].type \in Containers => dirty' \subseteq Open
    BY <2>1, <2>2 DEF CallBackInv, DirtyInv, Top
  <2>6. {calls'[k].bank : k \in 2..Len(calls')} = Open
    BY <2>3, <2>4
  <2> QED
    BY <2>1, <2>5, <2>6 DEF CallBackInv, CallBackSeesAll, DirtyInv
<1>4. CASE ParseContainer
  <2>1. /\ phase = "parsing" /\ phase' = phase /\ event' = event /\ dirty' = dirty
        /\ \E f : calls' = Append(calls, f)
    BY <1>4 DEF ParseContainer, Parsing
  <2>2. PICK f : calls' = Append(calls, f)
    BY <2>1
  <2>3. /\ Len(calls) \in Nat /\ Len(calls') = Len(calls) + 1
        /\ \A k \in 1..Len(calls) : calls'[k] = calls[k]
    BY <2>2 DEF SyncInv, TypeOK
  <2>4. Open \subseteq {calls'[k].bank : k \in 2..Len(calls')}
    <3> SUFFICES ASSUME NEW k \in 2..Len(calls)
                 PROVE  calls[k].bank \in {calls'[j].bank : j \in 2..Len(calls')}
      OBVIOUS
    <3>1. k \in 2..Len(calls') /\ calls'[k] = calls[k]
      BY <2>3
    <3> QED
      BY <3>1
  <2> QED
    BY <2>1, <2>4 DEF CallBackInv, CallBackSeesAll, DirtyInv
<1>5. CASE ParseNothing
  <2>1. /\ Parsing /\ phase = "parsing" /\ event' = event /\ calls' = Stepped(calls)
        /\ phase' = phase /\ dirty' = dirty
    BY <1>5 DEF ParseNothing, Parsing
  <2>2. \A k \in DOMAIN calls : calls'[k].bank = calls[k].bank
    BY <2>1, ParsingFacts
  <2>3. Len(calls') = Len(calls) /\ DOMAIN calls = 1..Len(calls) /\ Len(calls) \in Nat
    BY <2>1 DEF Stepped, SyncInv, TypeOK
  <2>4. {calls'[k].bank : k \in 2..Len(calls')} = Open
    BY <2>2, <2>3
  <2> QED
    BY <2>1, <2>4 DEF CallBackInv, CallBackSeesAll, DirtyInv
<1>6. CASE EndContainer
  <2> DEFINE n  == Len(calls)
             ds == SubSeq(calls, 1, n - 1)
  <2>1. /\ phase = "parsing" /\ phase' = phase /\ event' = event
        /\ dirty' = dirty \ {calls[n].bank} /\ calls' = Stepped(ds) /\ Top.at # Outside
    BY <1>6 DEF EndContainer, CalledBack, Top
  <2>2. event \in Events /\ Frames(calls) /\ Nested(calls)
    BY <2>1 DEF SyncInv, TypeOK, StackInv, Frames
  <2>3. n \in Nat /\ n >= 2 /\ DOMAIN calls = 1..n
    BY <2>1, <2>2 DEF Top, Nested, Frames
  <2>4. /\ Frames(ds) /\ Len(ds) = n - 1 /\ \A k \in DOMAIN ds : ds[k] = calls[k]
    BY <2>2, <2>3, PopNested
  <2> HIDE DEF ds
  <2>5. ds # <<>>
    BY <2>3, <2>4
  <2>6. /\ DOMAIN calls' = DOMAIN ds /\ Len(calls') = n - 1
        /\ \A k \in DOMAIN ds : calls'[k].bank = calls[k].bank
    BY <2>1, <2>4, <2>5, SteppedFacts
  <2>7. Open \subseteq {calls'[k].bank : k \in 2..Len(calls')} \cup {calls[n].bank}
    <3> SUFFICES ASSUME NEW k \in 2..n, k # n
                 PROVE  calls[k].bank \in {calls'[j].bank : j \in 2..Len(calls')}
      OBVIOUS
    <3> HIDE DEF n
    <3>1. DOMAIN ds = 1..(n - 1)
      <4>1. DOMAIN ds = 1..Len(ds)
        BY <2>4 DEF Frames
      <4> QED
        BY <2>4, <4>1
    <3>2. n \in Nat /\ k \in 2..(n - 1)
      BY <2>3
    <3>3. k \in 2..Len(calls') /\ k \in DOMAIN ds
      BY <2>6, <3>1, <3>2
    <3> QED
      BY <3>3, <2>6
  <2> QED
    BY <2>1, <2>7 DEF CallBackInv, CallBackSeesAll, DirtyInv
<1>7. CASE EndEvent
  <2>1. phase = "parsing" /\ phase' = "parsed" /\ event' = event /\ dirty' = dirty
        /\ Top.at = Outside
    BY <1>7 DEF EndEvent
  <2>2. event \in Events /\ Frames(calls) /\ Nested(calls)
    BY <2>1 DEF SyncInv, TypeOK, StackInv, Frames
  <2>3. Outside \notin DOMAIN event
    BY <2>2 DEF ParserAssumption, WellFormed, Outside
  <2>4. 2..Len(calls) = {}
    <3> SUFFICES ASSUME 2..Len(calls) # {} PROVE FALSE
      OBVIOUS
    <3>1. Len(calls) \in Nat
      BY <2>2 DEF Frames
    <3>2. Len(calls) \in 2..Len(calls)
      BY <3>1
    <3> QED
      BY <3>2, <2>1, <2>2, <2>3 DEF Nested, Top
  <2> QED
    BY <2>1, <2>4 DEF CallBackInv, CallBackSeesAll, DirtyInv
<1>8. CASE UNCHANGED vars
  BY <1>8 DEF vars, parseVars, CallBackInv, CallBackSeesAll, DirtyInv
<1> QED
  BY <1>1, <1>2, <1>3, <1>4, <1>5, <1>6, <1>7, <1>8 DEF Next, ParseBank

\* However many containers share a bank, its CallBack comes after the last data
\* of the event that went into it.
THEOREM CallBacksAreLast == Spec => []CallBackSeesAll
<1>1. Init => CallBackInv
  BY DEF Init, CallBackInv, CallBackSeesAll
<1>2. SyncInv /\ SyncInv' /\ CallBackInv /\ [Next]_vars => CallBackInv'
  BY CallBackStep, ParserAssumption
<1>3. CallBackInv => CallBackSeesAll
  BY DEF CallBackInv
<1> QED
  BY <1>1, <1>2, <1>3, InStep, PTL DEF Spec

-----------------------------------------------------------------------------
(* this_tag names the container whose data are filled in: the proof of     *)
(* CrateIsEnclosingTag.  Banks are numbered in the order they are made, so *)
(* unless levels are collapsed the banks of the open containers increase   *)
(* strictly, and entering one writes this_tag of no other.                 *)

CrateIInv == BankOrder /\ CrateIsEnclosingTag /\ (phase = "parsing" => CrateInv)

\* The crate of a piece of data is the tag of the container it was in.
RightCrate(v) ==
  event[v.at].up # Outside => v.crate = event[event[v.at].up].tag % 256

\* A bank that is made is in one that was made before.
LEMMA OrderStep ==
  ASSUME ParserAssumption, SyncInv, SyncInv', BankOrder, Next
  PROVE  BankOrder'
<1>1. banks \in Seq(BankType) /\ Len(banks) \in Nat /\ DOMAIN banks = 1..Len(banks)
  BY DEF SyncInv, TypeOK
<1>2. ASSUME NEW b \in DOMAIN banks, NEW ts, NEW m, NEW k \in 1..(Len(banks) + 1)
      PROVE  Append(banks, NewBank(b, ts, m))[k].up < k
  <2> DEFINE nb == NewBank(b, ts, m)
  <2>1. nb.up = b /\ b < Len(banks) + 1
    BY <1>1 DEF NewBank
  <2> HIDE DEF nb
  <2>2. CASE k = Len(banks) + 1
    <3>1. Append(banks, nb)[k] = nb
      BY <2>2, <1>1
    <3> QED
      BY <2>1, <2>2, <3>1 DEF nb
  <2>3. CASE k # Len(banks) + 1
    <3>1. k \in DOMAIN banks /\ Append(banks, nb)[k] = banks[k]
      BY <2>3, <1>1
    <3> QED
      BY <3>1 DEF BankOrder, nb
  <2> QED
    BY <2>2, <2>3
<1>3. ASSUME NEW B PROVE \A k \in DOMAIN BanksWithout(B) : BanksWithout(B)[k].up < k
  <2> SUFFICES ASSUME NEW k \in DOMAIN banks PROVE BanksWithout(B)[k].up < k
    BY DEF BanksWithout
  <2>1. CASE k \in B
    BY <2>1, <1>1 DEF BanksWithout, Gone
  <2>2. CASE k \notin B
    BY <2>2 DEF BanksWithout, BankOrder
  <2> QED
    BY <2>1, <2>2
<1>4. ASSUME NEW bs \in Seq(BankType), \A k \in DOMAIN bs : bs[k].up < k,
             NEW b \in DOMAIN bs, NEW h
      PROVE  \A k \in DOMAIN Entered(bs, b, h) : Entered(bs, b, h)[k].up < k
  <2>1. \A k \in DOMAIN bs : bs[k] \in BankType
    BY <1>4
  <2>2. \A k \in DOMAIN bs : Entered(bs, b, h)[k].up = bs[k].up
    BY <2>1 DEF Entered, BankType
  <2>3. DOMAIN Entered(bs, b, h) = DOMAIN bs
    BY DEF Entered
  <2> QED
    BY <1>4, <2>2, <2>3
<1>5. CASE banks' = banks
  BY <1>5 DEF BankOrder
<1>6. ASSUME NEW b \in DOMAIN banks, NEW ts, NEW m, banks' = Append(banks, NewBank(b, ts, m))
      PROVE  BankOrder'
  <2>1. DOMAIN banks' = 1..(Len(banks) + 1)
    BY <1>1, <1>6
  <2> QED
    BY <1>2, <1>6, <2>1 DEF BankOrder
<1>7. CASE Booking
  <2>1. CASE Book(BookLeaf)
    BY <2>1, <1>5 DEF Book, BookLeaf, AddLeaf
  <2>5. CASE Book(BookThisLeaf)
    BY <2>5, <1>5 DEF Book, BookThisLeaf, AddThisLeaf
  <2>2. CASE Book(BookBank)
    BY <2>2, <1>5, <1>6 DEF Book, BookBank, AddBank
  <2>3. CASE Book(BookBankOfTags)
    BY <2>3, <1>6 DEF Book, BookBankOfTags, AddBankOfTags
  <2>4. CASE Book(Unbook)
    BY <2>4, <1>3 DEF Book, Unbook, RemoveBank, BankOrder
  <2> QED
    BY <1>7, <2>1, <2>2, <2>3, <2>4, <2>5 DEF Booking
<1>8. CASE \E e \in Events : NextEvent(e)
  <2>1. PICK e \in Events : NextEvent(e)
    BY <1>8
  <2> DEFINE bs == ClearedBanks(settings.fFullErase)
  <2>2. bs \in Seq(BankType) /\ Len(bs) = Len(banks) /\ \A k \in DOMAIN bs : bs[k].up < k
    <3>1. CASE settings.fFullErase
      BY <3>1, <1>1, <1>3, DeletedType DEF ClearedBanks, SyncInv, TypeOK
    <3>2. CASE ~settings.fFullErase
      BY <3>2, <1>1 DEF ClearedBanks, BankOrder
    <3> QED
      BY <3>1, <3>2
  <2>3. banks' = Entered(bs, Root, e[0])
    BY <2>1 DEF NextEvent
  <2> HIDE DEF bs
  <2>4. Root \in DOMAIN bs
    BY <2>2, <1>1 DEF SyncInv, TypeOK, Root
  <2> QED
    BY <2>2, <2>3, <2>4, <1>4 DEF BankOrder
<1>9. CASE ParseContainer
  <2>1. Parsing /\ Top.bank # None
    BY <1>9 DEF ParseContainer
  <2>2. /\ Node \in 0..(Len(banks) + 1)
        /\ BanksNow(Node) \in Seq(BankType) /\ Node <= Len(BanksNow(Node))
        /\ BanksNow(Node) = banks
           \/ BanksNow(Node) = Append(banks, NewBank(Top.bank, {Here.tag}, Here.num))
    BY <2>1, NodeFacts
  <2>3. Top.bank \in DOMAIN banks
    BY <2>1, <1>1, ParsingFacts DEF None
  <2> DEFINE n  == Node
             bs == BanksNow(n)
  <2>4. banks' = IF n = None THEN banks ELSE Entered(bs, n, Here)
    BY <1>9 DEF ParseContainer
  <2>5. \A k \in DOMAIN bs : bs[k].up < k
    <3>1. CASE bs = banks
      BY <3>1 DEF BankOrder
    <3>2. CASE bs = Append(banks, NewBank(Top.bank, {Here.tag}, Here.num))
      <4>1. DOMAIN bs = 1..(Len(banks) + 1)
        BY <3>2, <1>1
      <4> QED
        BY <3>2, <4>1, <2>3, <1>2
    <3> QED
      BY <2>2, <3>1, <3>2
  <2>6. n # None => n \in DOMAIN bs
    BY <2>2 DEF None
  <2> HIDE DEF n, bs
  <2>7. CASE n = None
    BY <2>4, <2>7, <1>5
  <2>8. CASE n # None
    BY <2>2, <2>4, <2>5, <2>6, <2>8, <1>4 DEF BankOrder, n, bs
  <2> QED
    BY <2>7, <2>8
<1>10. CASE ParseLeaf \/ ParseNothing \/ EndContainer \/ EndEvent
  BY <1>5, <1>10 DEF ParseLeaf, ParseNothing, EndContainer, EndEvent, bankVars
<1> QED
  BY <1>7, <1>8, <1>9, <1>10 DEF Next, ParseBank

-----------------------------------------------------------------------------
(* The frames.                                                             *)

\* What CrateInv says of the frames.
CrateFrames ==
  /\ \A j, k \in DOMAIN calls : j < k /\ calls[k].bank # None => calls[j].bank <= calls[k].bank
  /\ \A j, k \in 2..Len(calls) : j < k /\ calls[k].bank # None => calls[j].bank < calls[k].bank
  /\ \A k \in 2..Len(calls) :
       calls[k].bank # None => banks[calls[k].bank].this_tag = event[calls[k].at].tag

\* It is about the banks of the frames only, so the loops may go on.
LEMMA CrateStepped ==
  ASSUME NEW cs, Frames(cs), cs # <<>>, calls' = Stepped(cs), Frames(calls),
         Len(cs) <= Len(calls), \A k \in DOMAIN cs : cs[k] = calls[k],
         banks' = banks, event' = event, CrateFrames
  PROVE  CrateFrames'
<1>1. /\ DOMAIN calls' = DOMAIN cs /\ Len(calls') = Len(cs)
      /\ \A k \in DOMAIN cs : calls'[k].at = calls[k].at /\ calls'[k].bank = calls[k].bank
  BY SteppedFacts
<1>2. /\ DOMAIN cs = 1..Len(cs) /\ Len(cs) \in Nat
      /\ DOMAIN calls = 1..Len(calls) /\ Len(calls) \in Nat
  BY DEF Frames
<1>3. DOMAIN cs \subseteq DOMAIN calls /\ 2..Len(cs) \subseteq 2..Len(calls)
      /\ 2..Len(cs) \subseteq DOMAIN cs
  BY <1>2
<1>4. \A j, k \in DOMAIN calls' :
        j < k /\ calls'[k].bank # None => calls'[j].bank <= calls'[k].bank
  BY <1>1, <1>3 DEF CrateFrames
<1>5. \A j, k \in 2..Len(calls') :
        j < k /\ calls'[k].bank # None => calls'[j].bank < calls'[k].bank
  BY <1>1, <1>3 DEF CrateFrames
<1>6. \A k \in 2..Len(calls') :
        calls'[k].bank # None => banks[calls'[k].bank].this_tag = event[calls'[k].at].tag
  BY <1>1, <1>3 DEF CrateFrames
<1> QED
  BY <1>4, <1>5, <1>6 DEF CrateFrames

\* ParseBank enters a container: its bank comes after those of the frames, so its
\* this_tag is that of no other frame.
LEMMA CrateParseContainer ==
  ASSUME ParserAssumption, SyncInv, SyncInv', RouteInv, BankOrder, BankOrder',
         NoneCollapsed, CrateFrames, ParseContainer
  PROVE  CrateFrames'
<1>1. Parsing /\ phase = "parsing" /\ Top.bank # None /\ Here.type \in Containers
  BY DEF ParseContainer, Parsing
<1>2. PICK x, b, t, m, n, d, h :
        /\ x = Top.p /\ b = Top.bank /\ t = Here.tag /\ m = Here.num /\ n = Node /\ d = Depth
        /\ h = Len(calls)
  OBVIOUS
<1>3. /\ event \in Events /\ x \in DOMAIN event /\ event[x].depth = d
      /\ h \in Nat \ {0} /\ Frames(calls) /\ b \in 0..Len(banks) /\ h \in DOMAIN calls
      /\ DOMAIN calls = 1..h /\ d = h - 1 /\ b = calls[h].bank /\ b # None
  BY <1>1, <1>2, HereFacts DEF Depth, Frames, Top
<1>4. PICK f : /\ calls' = Append(calls, f) /\ f.at = x /\ f.bank = n
  BY <1>2 DEF ParseContainer
<1>5. event' = event
  BY DEF ParseContainer
<1>6. /\ Len(banks) <= Len(banks') /\ SameBanks(Len(banks))
      /\ n \in 0..Len(banks') /\ (~Pruned(d) => FindBank(b, t, m)' = n)
  BY <1>2, NodeAfter
<1>7. /\ banks \in Seq(BankType) /\ banks' \in Seq(BankType) /\ Len(banks) \in Nat
      /\ Len(banks') \in Nat /\ DOMAIN banks' = 1..Len(banks')
  BY DEF SyncInv, TypeOK
<1>8. /\ Len(calls') = h + 1 /\ DOMAIN calls' = 1..(h + 1) /\ calls'[h + 1] = f
      /\ \A k \in 1..h : calls'[k] = calls[k]
  BY <1>2, <1>3, <1>4 DEF Frames
<1>9. ASSUME n # None, h > 1 PROVE b < n
  <2>1. ~Pruned(d)
    BY <1>3, <1>9 DEF NoneCollapsed
  <2>2. n = FindBank(b, t, m)'
    BY <1>6, <2>1
  <2>3. n \in DOMAIN banks' /\ IsBankFor(n, b, t, m)'
    <3> DEFINE S == {k \in DOMAIN banks' : IsBankFor(k, b, t, m)'}
    <3>1. FindBank(b, t, m)' = FirstOf(S)
      BY DEF FindBank
    <3>2. S \in SUBSET (Nat \ {0})
      BY <1>7
    <3>3. FirstOf(S) # None => FirstOf(S) \in S
      BY <3>2, FirstOfIs
    <3> QED
      BY <3>1, <3>3, <2>2, <1>9
  <2> QED
    BY <2>3 DEF IsBankFor, BankOrder
<1>10. ASSUME n # None, h = 1 PROVE b <= n
  <2>1. b = Root
    BY <1>1, <1>3, <1>10, ParsingFacts DEF Nested
  <2> QED
    BY <2>1, <1>6, <1>7, <1>10 DEF Root, None
<1>11. n # None => b <= n
  BY <1>3, <1>6, <1>7, <1>9, <1>10
<1>12. \A k \in 1..h : calls[k].bank \in Nat
  <2>1. \A k \in 1..h : calls[k] \in FrameType
    BY <1>3 DEF Frames
  <2> QED
    BY <2>1 DEF FrameType
<1>13. \A j, k \in 1..(h + 1) : j < k /\ calls'[k].bank # None => calls'[j].bank <= calls'[k].bank
  <2> SUFFICES ASSUME NEW j \in 1..(h + 1), NEW k \in 1..(h + 1), j < k, calls'[k].bank # None
               PROVE  calls'[j].bank <= calls'[k].bank
    OBVIOUS
  <2>1. j \in 1..h /\ calls'[j] = calls[j]
    BY <1>3, <1>8
  <2>2. CASE k \in 1..h
    BY <2>1, <2>2, <1>3, <1>8 DEF CrateFrames
  <2>3. CASE k = h + 1
    <3>1. calls[j].bank <= b
      <4>1. CASE j = h
        BY <4>1, <1>3, <1>12
      <4>2. CASE j # h
        <5>1. j < h
          BY <4>2, <2>1, <1>3
        <5> QED
          BY <5>1, <2>1, <1>3 DEF CrateFrames
      <4> QED
        BY <4>1, <4>2
    <3>2. calls'[k].bank = n
      BY <2>3, <1>4, <1>8
    <3>3. n # None /\ b <= n
      BY <3>2, <1>11
    <3> QED
      BY <2>1, <3>1, <3>2, <3>3, <1>3, <1>6, <1>7, <1>12
  <2> QED
    BY <2>2, <2>3, <1>3
<1>14. \A j, k \in 2..(h + 1) : j < k /\ calls'[k].bank # None => calls'[j].bank < calls'[k].bank
  <2> SUFFICES ASSUME NEW j \in 2..(h + 1), NEW k \in 2..(h + 1), j < k, calls'[k].bank # None
               PROVE  calls'[j].bank < calls'[k].bank
    OBVIOUS
  <2>1. j \in 1..h /\ j \in 2..h /\ calls'[j] = calls[j] /\ h > 1 /\ h \in 2..h
    BY <1>3, <1>8
  <2>2. CASE k \in 2..h
    <3>1. calls'[k] = calls[k]
      BY <2>2, <1>3, <1>8
    <3> QED
      BY <2>1, <2>2, <3>1, <1>2 DEF CrateFrames
  <2>3. CASE k = h + 1
    <3>1. calls[j].bank <= b
      <4>1. CASE j = h
        BY <4>1, <1>3, <1>12
      <4>2. CASE j # h
        <5>1. j < h
          BY <4>2, <2>1, <1>3
        <5> QED
          BY <5>1, <2>1, <1>3 DEF CrateFrames
      <4> QED
        BY <4>1, <4>2
    <3>2. calls'[k].bank = n
      BY <2>3, <1>4, <1>8
    <3>3. b < n
      BY <3>2, <2>1, <1>9
    <3> QED
      BY <2>1, <3>1, <3>2, <3>3, <1>3, <1>6, <1>7, <1>12
  <2> QED
    BY <2>2, <2>3, <1>3
<1>15. /\ n # None => banks'[n].this_tag = t
       /\ \A k \in DOMAIN banks : k # n => banks'[k].this_tag = banks[k].this_tag
  <2>1. /\ BanksNow(n) \in Seq(BankType) /\ n <= Len(BanksNow(n))
        /\ BanksNow(n) = banks
           \/ BanksNow(n) = Append(banks, NewBank(Top.bank, {Here.tag}, Here.num))
    BY <1>1, <1>2, NodeFacts
  <2> DEFINE bs == BanksNow(n)
  <2>2. banks' = IF n = None THEN banks ELSE Entered(bs, n, Here)
    BY <1>2 DEF ParseContainer
  <2>3. \A k \in DOMAIN banks : k \in DOMAIN bs /\ bs[k] = banks[k]
    BY <2>1, <1>7
  <2>4. n # None => n \in DOMAIN bs
    BY <2>1, <1>6, <1>7 DEF None
  <2>5. \A k \in DOMAIN bs : bs[k] \in BankType
    BY <2>1
  <2> HIDE DEF bs
  <2>6. CASE n = None
    BY <2>2, <2>6
  <2>7. CASE n # None
    <3>1. banks' = Entered(bs, n, Here) /\ n \in DOMAIN bs
      BY <2>2, <2>4, <2>7
    <3>2. bs[n] \in BankType
      BY <3>1, <2>5
    <3>3. banks'[n].this_tag = Here.tag
      BY <3>1, <3>2 DEF Entered, BankType
    <3>4. \A k \in DOMAIN bs : k # n => banks'[k] = bs[k]
      BY <3>1 DEF Entered
    <3> QED
      BY <3>3, <3>4, <2>3, <1>2
  <2> QED
    BY <2>6, <2>7
<1>16. ASSUME NEW k \in 2..(h + 1), calls'[k].bank # None
       PROVE  banks'[calls'[k].bank].this_tag = event[calls'[k].at].tag
  <2>1. CASE k = h + 1
    <3>1. calls'[k].bank = n /\ calls'[k].at = x
      BY <2>1, <1>4, <1>8
    <3>2. t = event[x].tag
      BY <1>2 DEF Here
    <3> QED
      BY <3>1, <3>2, <1>15, <1>16
  <2>2. CASE k # h + 1
    <3>1. k \in 1..h /\ k \in 2..h /\ calls'[k] = calls[k] /\ h + 1 \in 2..(h + 1) /\ k < h + 1
      BY <2>2, <1>3, <1>8
    <3>2. calls[k].bank # n
      <4>1. CASE n = None
        BY <4>1, <3>1, <1>16
      <4>2. CASE n # None
        <5>1. calls'[h + 1].bank = n
          BY <1>4, <1>8
        <5>2. calls[k].bank < n
          BY <3>1, <4>2, <5>1, <1>14
        <5> QED
          BY <5>2, <3>1, <1>12
      <4> QED
        BY <4>1, <4>2
    <3>3. calls[k].bank \in DOMAIN banks
      <4>1. calls[k].bank <= Len(banks) /\ calls[k].bank \in Nat /\ calls[k].bank # None
        BY <3>1, <1>3, <1>12, <1>16 DEF SyncInv, TypeOK
      <4> QED
        BY <4>1, <1>7 DEF None
    <3>4. banks[calls[k].bank].this_tag = event[calls[k].at].tag
      BY <3>1, <1>2, <1>16 DEF CrateFrames
    <3> QED
      BY <3>1, <3>2, <3>3, <3>4, <1>15
  <2> QED
    BY <2>1, <2>2
<1> QED
  BY <1>5, <1>8, <1>13, <1>14, <1>16 DEF CrateFrames

\* AddOrFillLeaf gives the data the tag of the container they are in.
LEMMA CrateParseLeaf ==
  ASSUME ParserAssumption, SyncInv, SyncInv', RouteInv, NoneCollapsed, CrateFrames,
         CratesAreEnclosingTags, ParseLeaf, phase' = "parsing"
  PROVE  CratesAreEnclosingTags'
<1>1. Parsing /\ Top.bank # None /\ event' = event /\ settings' = settings
  BY DEF ParseLeaf
<1>2. PICK b, t, m, v : b = Top.bank /\ t = Here.tag /\ m = Here.num /\ v = Datum
  OBVIOUS
<1>3. /\ event[Top.p].up = Top.at /\ Len(calls) \in Nat \ {0} /\ Nested(calls)
  BY <1>1, HereFacts
<1>4. RightCrate(v)
  <2>1. v.at = Top.p /\ v.crate = banks[Top.bank].this_tag % 256
    BY <1>2 DEF Datum
  <2>2. ASSUME Top.at # Outside PROVE banks[Top.bank].this_tag = event[Top.at].tag
    <3> DEFINE h == Len(calls)
    <3>1. h # 1
      BY <1>3, <2>2 DEF Nested, Top
    <3>2. h \in Nat \ {0}
      BY <1>3
    <3>3. h \in 2..h
      <4> HIDE DEF h
      <4> QED
        BY <3>1, <3>2
    <3> QED
      BY <3>3, <1>1 DEF CrateFrames, Top
  <2> QED
    BY <2>1, <2>2, <1>3 DEF RightCrate
<1>5. /\ \A l \in DOMAIN leafs' : leafs'[l].data =
             IF l = LeafHere THEN Append(LeafsNow[l].data, v) ELSE LeafsNow[l].data
      /\ \A l \in DOMAIN leafs' : LeafsNow[l].data =
             IF l \in DOMAIN leafs THEN leafs[l].data ELSE <<>>
  BY <1>2, FillFacts
<1>6. leafs \in Seq(LeafType) /\ \A l \in DOMAIN leafs : leafs[l] \in LeafType
  BY DEF SyncInv, TypeOK
<1>7. \A l \in DOMAIN leafs : leafs[l].data \in Seq(DataType)
  BY <1>6 DEF LeafType
<1> SUFFICES ASSUME NEW l \in DOMAIN leafs', NEW k \in DOMAIN leafs'[l].data
             PROVE  RightCrate(leafs'[l].data[k])
  BY <1>1 DEF CratesAreEnclosingTags, RightCrate
<1> DEFINE s == IF l \in DOMAIN leafs THEN leafs[l].data ELSE <<>>
<1>8. s \in Seq(DataType) /\ (leafs'[l].data = s \/ leafs'[l].data = Append(s, v))
  <2>1. <<>> \in Seq(DataType)
    OBVIOUS
  <2>2. s \in Seq(DataType)
    BY <2>1, <1>7
  <2>3. LeafsNow[l].data = s
    BY <1>5
  <2>4. leafs'[l].data = LeafsNow[l].data \/ leafs'[l].data = Append(LeafsNow[l].data, v)
    BY <1>5
  <2> QED
    BY <2>2, <2>3, <2>4
<1>9. \A i \in DOMAIN s : RightCrate(s[i])
  <2>1. CASE l \in DOMAIN leafs
    BY <2>1 DEF CratesAreEnclosingTags, RightCrate
  <2>2. CASE l \notin DOMAIN leafs
    BY <2>2
  <2> QED
    BY <2>1, <2>2
<1> HIDE DEF s
<1>10. CASE leafs'[l].data = s
  BY <1>9, <1>10
<1>11. CASE leafs'[l].data = Append(s, v)
  <2>1. CASE k = Len(s) + 1
    BY <2>1, <1>4, <1>8, <1>11
  <2>2. CASE k # Len(s) + 1
    <3>1. k \in DOMAIN s /\ Append(s, v)[k] = s[k]
      BY <2>2, <1>8, <1>11
    <3> QED
      BY <3>1, <1>9, <1>11
  <2> QED
    BY <2>1, <2>2
<1> QED
  BY <1>8, <1>10, <1>11

\* Every step keeps the crates right.
LEMMA CrateStep ==
  ASSUME ParserAssumption, SyncInv, SyncInv', FaithInv, FaithInv', CrateIInv, [Next]_vars
  PROVE  CrateIInv'
<1>1. BankOrder'
  <2>1. CASE Next
    BY <2>1, OrderStep DEF CrateIInv
  <2>2. CASE UNCHANGED vars
    BY <2>2 DEF vars, bankVars, CrateIInv, BankOrder
  <2> QED
    BY <2>1, <2>2
<1>2. CrateInv <=> (NoneCollapsed => CrateFrames /\ CratesAreEnclosingTags)
  BY DEF CrateInv, CrateFrames
<1>3. CrateInv' <=> (NoneCollapsed' => CrateFrames' /\ CratesAreEnclosingTags')
  BY DEF CrateInv, CrateFrames
<1>4. ASSUME event' = event, settings' = settings
      PROVE  /\ NoneCollapsed' <=> NoneCollapsed
             /\ leafs' = leafs => (CratesAreEnclosingTags' <=> CratesAreEnclosingTags)
  <2>1. NoneCollapsed' <=> NoneCollapsed
    BY <1>4 DEF NoneCollapsed, Pruned
  <2> QED
    BY <1>4, <2>1 DEF CratesAreEnclosingTags
<1>6. ~NoneCollapsed => CratesAreEnclosingTags
  BY DEF CratesAreEnclosingTags
<1>7. CASE Booking
  BY <1>1, <1>7 DEF Booking, Book, CrateIInv, CrateIsEnclosingTag
<1>8. CASE \E e \in Events : NextEvent(e)
  <2>1. PICK e \in Events : NextEvent(e)
    BY <1>8
  <2>2. phase' \in {"parsing", "skipped", "aborted"}
    BY <2>1 DEF NextEvent
  <2>3. ASSUME phase' = "parsing" PROVE CrateInv'
    <3>1. calls' = <<[at |-> Outside, type |-> "bank", bank |-> Root, p |-> 0]>>
      BY <2>1, <2>3 DEF NextEvent
    <3>2. CrateFrames'
      BY <3>1 DEF CrateFrames
    <3>3. \A l \in DOMAIN leafs' : leafs'[l].data = <<>>
      BY <2>1, NothingLeft
    <3>4. CratesAreEnclosingTags'
      BY <3>3 DEF CratesAreEnclosingTags
    <3> QED
      BY <1>3, <3>2, <3>4
  <2> QED
    BY <1>1, <2>2, <2>3 DEF CrateIInv, CrateIsEnclosingTag
<1>9. CASE ParseLeaf
  <2>1. /\ phase = "parsing" /\ event' = event /\ settings' = settings /\ banks' = banks
        /\ phase' \in {"parsing", "corrupt"} /\ calls' = Stepped(calls) /\ Parsing
    BY <1>9 DEF ParseLeaf, Parsing
  <2>2. ASSUME phase' = "parsing", NoneCollapsed PROVE CrateFrames' /\ CratesAreEnclosingTags'
    <3>1. CrateFrames /\ CratesAreEnclosingTags /\ RouteInv
      BY <1>2, <2>1, <2>2 DEF CrateIInv, FaithInv
    <3>2. Frames(calls) /\ calls # <<>> /\ Len(calls) \in Nat
      BY <2>1, ParsingFacts
    <3> QED
      BY <1>9, <2>1, <2>2, <3>1, <3>2, CrateParseLeaf, CrateStepped
  <2> QED
    BY <1>1, <1>3, <1>4, <2>1, <2>2 DEF CrateIInv, CrateIsEnclosingTag
<1>10. CASE ParseContainer
  <2>1. /\ phase = "parsing" /\ event' = event /\ settings' = settings /\ leafs' = leafs
        /\ phase' = "parsing"
    BY <1>10 DEF ParseContainer, Parsing
  <2>2. ASSUME NoneCollapsed PROVE CrateFrames' /\ CratesAreEnclosingTags'
    <3>1. CrateFrames /\ CratesAreEnclosingTags /\ RouteInv /\ BankOrder
      BY <1>2, <2>1, <2>2 DEF CrateIInv, FaithInv
    <3> QED
      BY <1>1, <1>4, <1>10, <2>1, <2>2, <3>1, CrateParseContainer
  <2> QED
    BY <1>1, <1>3, <1>4, <2>1, <2>2 DEF CrateIInv, CrateIsEnclosingTag
<1>11. CASE ParseNothing
  <2>1. /\ phase = "parsing" /\ event' = event /\ settings' = settings /\ leafs' = leafs
        /\ banks' = banks /\ phase' = "parsing" /\ calls' = Stepped(calls) /\ Parsing
    BY <1>11 DEF ParseNothing, Parsing, bankVars
  <2>2. ASSUME NoneCollapsed PROVE CrateFrames' /\ CratesAreEnclosingTags'
    <3>1. CrateFrames /\ CratesAreEnclosingTags
      BY <1>2, <2>1, <2>2 DEF CrateIInv
    <3>2. Frames(calls) /\ calls # <<>> /\ Len(calls) \in Nat
      BY <2>1, ParsingFacts
    <3> QED
      BY <1>4, <2>1, <3>1, <3>2, CrateStepped
  <2> QED
    BY <1>1, <1>3, <1>4, <2>1, <2>2 DEF CrateIInv, CrateIsEnclosingTag
<1>12. CASE EndContainer
  <2> DEFINE ds == SubSeq(calls, 1, Len(calls) - 1)
  <2>1. /\ phase = "parsing" /\ event' = event /\ settings' = settings /\ leafs' = leafs
        /\ banks' = banks /\ phase' = "parsing" /\ calls' = Stepped(ds) /\ Top.at # Outside
    BY <1>12 DEF EndContainer, bankVars
  <2>2. Frames(calls) /\ Nested(calls)
    BY <2>1 DEF SyncInv, TypeOK, StackInv, Frames
  <2>3. Len(calls) \in Nat /\ Len(calls) >= 2
    BY <2>1, <2>2 DEF Top, Nested, Frames
  <2>4. /\ Frames(ds) /\ Len(ds) = Len(calls) - 1 /\ \A k \in DOMAIN ds : ds[k] = calls[k]
    BY <2>2, <2>3, PopNested
  <2> HIDE DEF ds
  <2>5. ds # <<>> /\ Len(ds) <= Len(calls)
    BY <2>3, <2>4
  <2>6. ASSUME NoneCollapsed PROVE CrateFrames' /\ CratesAreEnclosingTags'
    <3>1. CrateFrames /\ CratesAreEnclosingTags
      BY <1>2, <2>1, <2>6 DEF CrateIInv
    <3>2. CrateFrames'
      BY <2>1, <2>2, <2>4, <2>5, <3>1, CrateStepped
    <3> QED
      BY <1>4, <2>1, <3>1, <3>2
  <2> QED
    BY <1>1, <1>3, <1>4, <2>1, <2>6 DEF CrateIInv, CrateIsEnclosingTag
<1>13. CASE EndEvent
  <2>1. /\ phase = "parsing" /\ event' = event /\ settings' = settings /\ leafs' = leafs
        /\ phase' = "parsed"
    BY <1>13 DEF EndEvent, bankVars
  <2>2. CratesAreEnclosingTags
    BY <1>2, <1>6, <2>1 DEF CrateIInv
  <2> QED
    BY <1>1, <1>4, <2>1, <2>2 DEF CrateIInv, CrateIsEnclosingTag
<1>14. CASE UNCHANGED vars
  <2>1. /\ event' = event /\ settings' = settings /\ leafs' = leafs /\ banks' = banks
        /\ calls' = calls /\ phase' = phase
    BY <1>14 DEF vars, bankVars, parseVars
  <2>2. CrateFrames' <=> CrateFrames
    BY <2>1 DEF CrateFrames
  <2> QED
    BY <1>1, <1>2, <1>3, <1>4, <2>1, <2>2 DEF CrateIInv, CrateIsEnclosingTag
<1> QED
  BY <1>7, <1>8, <1>9, <1>10, <1>11, <1>12, <1>13, <1>14 DEF Next, ParseBank

\* Unless levels are collapsed, the crate FADC data get from this_tag is the low
\* byte of the tag of the container they are in, though the bank is shared by
\* containers and this_tag is written for each.
THEOREM CratesAreRight == Spec => []CrateIsEnclosingTag
<1>1. Init => CrateIInv
  BY DEF Init, CrateIInv, BankOrder, CrateIsEnclosingTag, Gone
<1>2. SyncInv /\ SyncInv' /\ FaithInv /\ FaithInv' /\ CrateIInv /\ [Next]_vars => CrateIInv'
  BY CrateStep, ParserAssumption
<1>3. CrateIInv => CrateIsEnclosingTag
  BY DEF CrateIInv
<1> QED
  BY <1>1, <1>2, <1>3, InStep, Faithful, PTL DEF Spec
=============================================================================
