----------------------------- MODULE EvioParser -----------------------------
(***************************************************************************)
(* EvioTool's parser: Next clears the tree of banks and leafs and parses   *)
(* the event NextNoParse delivered into it (EvioTool.cc, ParseEvioBuff,    *)
(* ParseBank, ContainerNodeHandler, and AddOrFillLeaf of EvioTool.h).      *)
(*                                                                         *)
(* The recursion of ParseBank is a stack of frames, one for each container *)
(* whose while loop runs.  The lowest frame stands for ParseEvioBuff.      *)
(***************************************************************************)
EXTENDS BankTree, EvioEvent

CONSTANTS
  Events,      \* events that may be read
  Settings,    \* values of the public members that control the parser
  Tags, Nums,  \* tags and nums a program books
  BookTypes,   \* types of the leafs it books
  Names,       \* and their names
  MaxEvents,   \* bound: events read
  MaxBanks,    \* bound: a program books a bank only while there are fewer
  MaxLeafs     \* bound: and a leaf only while there are fewer

ASSUME ParserAssumption ==
  /\ \A e \in Events : WellFormed(e)
  /\ Settings \subseteq [fAutoAdd : BOOLEAN, fFullErase : BOOLEAN, fChop_level : Nat,
                         fMax_level : Nat, tags : Seq(Nat), tag_masks : Seq(Nat)]
  /\ Tags \subseteq Nat /\ Nums \subseteq Nat /\ BookTypes \subseteq LeafTypes
  /\ MaxEvents \in Nat /\ MaxBanks \in Nat /\ MaxLeafs \in Nat

VARIABLES
  settings,    \* set once, before the first event
  event,       \* the event in fEvioBuf
  calls,       \* frames [at, type, bank, p]: the container's header, its contentType,
               \* new_node, and where its loop is
  phase,       \* "booking", "parsing", how the last event ended, or "corrupt"
  count,       \* events read
  \* history
  dest,        \* the bank each container of the event was put in
  dirty,       \* banks that got data after their last CallBack
  orphans      \* entries of name_index whose leaf Clear("Full") deleted

parseVars == <<event, calls, phase, count, dest, dirty>>
vars == <<bankVars, settings, parseVars, orphans>>

NoEvent == [x \in {} |-> 0]
Phases  == {"booking", "parsing", "parsed", "skipped", "aborted", "corrupt"}

Init ==
  /\ banks = <<[up |-> Gone, path |-> {Root}, tags |-> {}, num |-> 0,
                this_tag |-> 0, this_num |-> 0]>>
  /\ leafs = <<>> /\ name_index = {}
  /\ settings \in Settings
  /\ event = NoEvent /\ calls = <<>> /\ phase = "booking" /\ count = 0 /\ orphans = {}
  /\ dest = [x \in {Outside} |-> Root] /\ dirty = {}

-----------------------------------------------------------------------------
(* Booking, between events.                                                *)

Idle == phase \notin {"parsing", "corrupt"}

Book(A) ==
  /\ Idle /\ count < MaxEvents /\ phase' = "booking"
  /\ A /\ UNCHANGED <<settings, event, calls, count, dest, dirty>>

BookLeaf ==
  /\ Len(leafs) < MaxLeafs
  /\ \E b \in DOMAIN banks, n \in Names, t \in Tags, m \in Nums, y \in BookTypes :
       Live(b) /\ AddLeaf(b, <<n, 0, 0>>, t, m, y) /\ UNCHANGED orphans

BookThisLeaf ==
  /\ Len(leafs) < MaxLeafs
  /\ \E b \in DOMAIN banks, n \in Names, t \in Tags, m \in Nums, y \in BookTypes :
       Live(b) /\ AddThisLeaf(b, <<n, 0, 0>>, t, m, y) /\ UNCHANGED orphans

BookBank ==
  /\ Len(banks) < MaxBanks
  /\ \E b \in DOMAIN banks, t \in Tags, m \in Nums, o \in BOOLEAN :
       Live(b) /\ AddBank(b, t, m, o) /\ UNCHANGED orphans

BookBankOfTags ==
  /\ Len(banks) < MaxBanks
  /\ \E b \in DOMAIN banks, ts \in SUBSET Tags, m \in Nums :
       Live(b) /\ AddBankOfTags(b, ts, m) /\ UNCHANGED orphans

Unbook == \E b \in DOMAIN banks \ {Root} : Live(b) /\ RemoveBank(b) /\ UNCHANGED orphans

-----------------------------------------------------------------------------
(* Next, from Clear to the end of the checks of ParseEvioBuff.             *)

Bits(n) == {k \in 0..15 : (n \div 2^k) % 2 = 1}
And(a, b) == MapThenSumSet(LAMBDA k : 2^k, Bits(a) \cap Bits(b))

\* Bank::CheckTag of the EvioTool object.
CheckTag(tag) ==
  LET T == settings.tags
      M == settings.tag_masks
  IN CASE T # <<>> /\ Len(M) = 1 -> \E i \in DOMAIN T : And(tag, M[1]) = T[i]
       [] (T = <<>> \/ Len(M) # 1) /\ Len(T) = Len(M) ->
            \E i \in DOMAIN T : And(tag, M[i]) = T[i]
       [] OTHER -> TRUE

\* The tag and num of the bank last parsed into b.  Mutant: of the first one.
Mutant_EnteredOnce(bs, b, h) ==
  IF bs[b].this_tag # 0 THEN bs ELSE [bs EXCEPT ![b].this_tag = h.tag, ![b].this_num = h.num]
Entered(bs, b, h) == [bs EXCEPT ![b].this_tag = h.tag, ![b].this_num = h.num]

NextEvent(e) ==
  /\ Idle /\ count < MaxEvents
  /\ count' = count + 1 /\ event' = e
  /\ banks' = Entered(ClearedBanks(settings.fFullErase), Root, e[0])
  /\ leafs' = ClearedLeafs(settings.fFullErase)
  /\ name_index' = ClearedIndex(settings.fFullErase)
  /\ orphans' = IF settings.fFullErase THEN name_index' ELSE orphans
  /\ dest' = [x \in DOMAIN e \cup {Outside} |-> IF x = Outside THEN Root ELSE None]
  /\ dirty' = {} /\ UNCHANGED settings
  /\ \/ /\ settings.fChop_level > 0 /\ e[0].type # "bank"
        /\ phase' = "aborted" /\ calls' = <<>>
     \/ /\ settings.fChop_level > 0 /\ e[0].type = "bank" /\ ~CheckTag(e[0].tag)
        /\ phase' = "skipped" /\ calls' = <<>>
     \/ /\ settings.fChop_level > 0 => e[0].type = "bank" /\ CheckTag(e[0].tag)
        /\ phase' = "parsing"
        /\ calls' = <<[at |-> Outside, type |-> "bank", bank |-> Root, p |-> 0]>>

-----------------------------------------------------------------------------
(* ParseBank.                                                              *)

Top      == calls[Len(calls)]
Here     == event[Top.p]
Limit(f) == IF f.at = Outside THEN EndOf(event, 0) ELSE EndOf(event, f.at)
Parsing  == phase = "parsing" /\ Top.p < Limit(Top)
Depth    == Len(calls) - 1

\* Mutant: the length is always taken for 16 bits.
Mutant_Masked(f) == f.p + (event[f.p].length % 65536) + 1

\* p += (data[p] & mask) + 1.
NextSibling(f) ==
  f.p + (IF f.type = "bank" THEN event[f.p].length ELSE event[f.p].length % 65536) + 1

Stepped(cs) == [cs EXCEPT ![Len(cs)].p = NextSibling(cs[Len(cs)])]

\* Bytes PushDataArray copies for w words of data and padding pad: the number of
\* elements ParseBank asks for times their size.
Copied(type, w, pad) ==
  CASE type \in {"uint32", "int32", "float"} -> 4 * w
    [] type = "string"                       -> 4 * w - pad
    [] type \in {"int16", "uint16"}          -> 2 * w
    [] type \in {"int8", "uint8"}            -> w
    [] type \in {"int64", "uint64"}          -> 8 * w
    [] type = "double"                       -> 8 * (2 * w - pad \div 2)
    [] type = "composite"                    -> 4 * w

\* Name of a leaf AddOrFillLeaf makes.
AutoName(type) ==
  IF type = "string" THEN "String" ELSE IF type = "composite" THEN "FADC" ELSE "Int"

\* A leaf is found by tag and num and filled as a Leaf<T> whatever it was booked
\* as.  Plain numbers are appended all the same; with strings or FADC data on one
\* side only the memory is no longer what its type says.
Corrupts(type, asBooked) == type # asBooked /\ {type, asBooked} \cap {"string", "composite"} # {}

\* AddOrFillLeaf and its specialisations: the leaf for the bank here, added if it
\* is not found and fAutoAdd is set, and what is pushed to it.
Found    == FindLeaf(Top.bank, Here.tag, Here.num)
Added    == Found = None /\ settings.fAutoAdd
LeafName == <<AutoName(Here.type), Here.tag, Here.num>>
LeafsNow ==
  IF Added THEN Append(leafs, NewLeaf(Top.bank, LeafName, Here.tag, Here.num, Here.type))
           ELSE leafs
LeafHere == IF Added THEN Len(leafs) + 1 ELSE Found
Datum ==
  [at |-> Top.p, crate |-> banks[Top.bank].this_tag % 256,
   bytes |-> Copied(Here.type, Here.length + 1 - HeaderWords(Top.type), Here.pad)]

ParseLeaf ==
  LET l  == LeafHere
      ls == LeafsNow
  IN /\ Parsing /\ Top.bank # None /\ Here.type \in LeafTypes
     /\ name_index' = IF Added THEN StoreLocation(Top.bank, LeafName) ELSE name_index
     /\ \/ /\ l = None /\ phase' = phase /\ UNCHANGED <<leafs, dirty>>
        \/ /\ l # None /\ ~Corrupts(Here.type, ls[l].type) /\ phase' = phase
           /\ leafs' = [ls EXCEPT ![l].data = Append(@, Datum)]
           /\ dirty' = dirty \cup {Top.bank}
        \/ /\ l # None /\ Corrupts(Here.type, ls[l].type)
           /\ phase' = "corrupt" /\ UNCHANGED <<leafs, dirty>>
     /\ calls' = Stepped(calls)
     /\ UNCHANGED <<banks, settings, event, count, dest, orphans>>

\* ContainerNodeHandler: above the chop level and below the maximum the banks of
\* the event are collapsed into the one they are in.
Pruned(depth) == depth < settings.fChop_level \/ depth > settings.fMax_level

\* Mutants: the index of an added bank is taken after it was added; a bank that
\* is not found is skipped even with fAutoAdd.
Mutant_IndexAfter(b, h, depth) ==
  IF Pruned(depth) THEN b
  ELSE IF FindBank(b, h.tag, h.num) = None /\ settings.fAutoAdd THEN Len(banks) + 2
  ELSE FindBank(b, h.tag, h.num)
Mutant_NeverAdds(b, h, depth) ==
  IF Pruned(depth) THEN b ELSE FindBank(b, h.tag, h.num)

NodeFor(b, h, depth) ==
  IF Pruned(depth) THEN b
  ELSE IF FindBank(b, h.tag, h.num) = None /\ settings.fAutoAdd THEN Len(banks) + 1
  ELSE FindBank(b, h.tag, h.num)

Node == NodeFor(Top.bank, Here, Depth)
BanksNow(n) ==
  IF n = Len(banks) + 1 THEN Append(banks, NewBank(Top.bank, {Here.tag}, Here.num))
                        ELSE banks

ParseContainer ==
  LET n == Node
  IN /\ Parsing /\ Top.bank # None /\ Here.type \in Containers
     /\ banks' = IF n = None THEN banks ELSE Entered(BanksNow(n), n, Here)
     /\ dest' = [dest EXCEPT ![Top.p] = n]
     /\ calls' = Append(calls, [at |-> Top.p, type |-> Here.type, bank |-> n,
                                p |-> Top.p + HeaderWords(Top.type)])
     /\ UNCHANGED <<leafs, name_index, settings, event, phase, count, dirty, orphans>>

\* A child is not parsed when its container is skipped, and ParseBank refuses an
\* unknown contentType; either way the loop goes on.
ParseNothing ==
  /\ Parsing /\ (Top.bank = None \/ Here.type = Illegal)
  /\ calls' = Stepped(calls)
  /\ UNCHANGED <<bankVars, settings, event, phase, count, dest, dirty, orphans>>

\* Mutant: a bank that was collapsed is not called back.
Mutant_CalledBack(f) ==
  IF Pruned(event[f.at].depth) THEN dirty ELSE dirty \ {f.bank}

CalledBack(f) == dirty \ {f.bank}

\* The loop over a container ends: CallBack, and back to the caller's loop.
EndContainer ==
  /\ phase = "parsing" /\ Top.p >= Limit(Top) /\ Top.at # Outside
  /\ dirty' = CalledBack(Top)
  /\ calls' = Stepped(SubSeq(calls, 1, Len(calls) - 1))
  /\ UNCHANGED <<bankVars, settings, event, phase, count, dest, orphans>>

\* ParseEvioBuff and Next return.
EndEvent ==
  /\ phase = "parsing" /\ Top.p >= Limit(Top) /\ Top.at = Outside
  /\ phase' = "parsed" /\ calls' = <<>>
  /\ UNCHANGED <<bankVars, settings, event, count, dest, dirty, orphans>>

-----------------------------------------------------------------------------

Booking ==
  \/ Book(BookLeaf) \/ Book(BookThisLeaf) \/ Book(BookBank)
  \/ Book(BookBankOfTags) \/ Book(Unbook)
ParseBank == ParseLeaf \/ ParseContainer \/ ParseNothing \/ EndContainer

Next == Booking \/ (\E e \in Events : NextEvent(e)) \/ ParseBank \/ EndEvent
Spec == Init /\ [][Next]_vars

-----------------------------------------------------------------------------
(* Correctness.                                                            *)

BankType == [up : Nat, path : SUBSET Nat, tags : SUBSET Nat, num : Nat,
             this_tag : Nat, this_num : Nat]
DataType == [at : Nat, crate : Nat, bytes : Int]
BaseNames == (Names \cup {"Int", "String", "FADC"}) \X Nat \X Nat
LeafType == [bank : Nat, name : BaseNames \X Nat, tag : Nat, num : Nat,
             type : LeafTypes, data : Seq(DataType)]
FrameType == [at : Int, type : Containers, bank : Nat, p : Nat]

TypeOK ==
  /\ banks \in Seq(BankType) /\ Len(banks) > 0 /\ leafs \in Seq(LeafType)
  /\ IsFiniteSet(name_index)
  /\ settings \in Settings /\ \A x \in DOMAIN event : event[x] \in HeaderType
  /\ calls \in Seq(FrameType) /\ \A k \in DOMAIN calls : calls[k].bank <= Len(banks)
  /\ phase \in Phases /\ count \in 0..MaxEvents

\* ParseBank only takes for a header what is one, of the kind of the container it
\* is in, and leaves a container exactly at its end.
InSync ==
  phase = "parsing" =>
    IF Top.p < Limit(Top) THEN Top.p \in ChildrenOf(event, Top.at) ELSE Top.p = Limit(Top)

\* The bank a container belongs in: the one its own container is in if it is
\* collapsed, else the one FindBank finds there, none if that is skipped.
BankFor(c) ==
  LET b == dest[event[c].up]
  IN IF b = None THEN None
     ELSE IF Pruned(event[c].depth) THEN b ELSE FindBank(b, event[c].tag, event[c].num)

\* The banks of the event whose data belong in leaf l.
LeafBank(x) == event[x].type \in LeafTypes /\ dest[event[x].up] # None
LeafFor(x)  == FindLeaf(dest[event[x].up], event[x].tag, event[x].num)
BanksFor(l) == {x \in DOMAIN event : LeafBank(x) /\ LeafFor(x) = l}

\* When an event is parsed every leaf holds exactly the data of the banks of this
\* event that belong in it, once and in the order of the event: nothing of an
\* earlier event is left, nothing is filled twice or dropped, and banks and
\* leafs added while parsing did not change where anything belongs.  An event
\* that is skipped for its tag or refused leaves no data.
ParsedFaithfully ==
  /\ phase = "parsed" =>
       /\ \A c \in DOMAIN event : event[c].type \in Containers => dest[c] = BankFor(c)
       /\ \A l \in DOMAIN leafs :
            /\ {leafs[l].data[k].at : k \in DOMAIN leafs[l].data} = BanksFor(l)
            /\ \A j, k \in DOMAIN leafs[l].data :
                 j < k => leafs[l].data[j].at < leafs[l].data[k].at
  /\ phase \in {"skipped", "aborted"} => \A l \in DOMAIN leafs : leafs[l].data = <<>>

\* With fAutoAdd all data of a parsed event are in some leaf.
AutoAddKeepsAll ==
  phase = "parsed" /\ settings.fAutoAdd =>
    \A x \in DOMAIN event : event[x].type \in LeafTypes => LeafBank(x) /\ LeafFor(x) # None

\* Unless levels of banks are collapsed, this_tag of the bank being filled, whose low
\* byte FADC data take for their crate, is the tag of the container the data are in.
NoneCollapsed ==
  \A c \in DOMAIN event : event[c].depth > 0 => ~Pruned(event[c].depth)
CratesAreEnclosingTags ==
  NoneCollapsed => \A l \in DOMAIN leafs : \A k \in DOMAIN leafs[l].data :
    LET x == leafs[l].data[k].at
    IN event[x].up # Outside => leafs[l].data[k].crate = event[event[x].up].tag % 256
CrateIsEnclosingTag == phase = "parsed" => CratesAreEnclosingTags

\* Every bank's CallBack is called after the last data of the event went into it,
\* even when several containers share the bank.
CallBackSeesAll == phase = "parsed" /\ event[0].type \in Containers => dirty = {}

\* FindLeaf(name) finds a leaf by its own name exactly if it is the first of its
\* bank with that name.  AddLeaf makes the name new; a second leaf that AddThisLeaf
\* or Add_Leaf was given under the same name is found as "name+" only, which
\* neither the leaf nor its owner knows.  Excepted are the names Clear("Full") left
\* in the index: they lead to whatever leaf has come to their place.
Named(b, name) ==
  {l \in LeafsOf(b) : \E e \in name_index :
     e.bank = b /\ e.name = name /\ Cardinality({k \in LeafsOf(b) : k < l}) = e.loc}
FirstOfItsName(l) ==
  \A k \in LeafsOf(leafs[l].bank) : k < l => leafs[k].name # leafs[l].name
Orphaned(b, name) == \E e \in orphans : e.bank = b /\ e.name = name
NamesResolve ==
  \A l \in DOMAIN leafs :
    leafs[l].bank # Gone /\ ~Orphaned(leafs[l].bank, leafs[l].name) =>
      (Named(leafs[l].bank, leafs[l].name) = {l} <=> FirstOfItsName(l))

\* EvioTool.cc:265-266, "ParseEvioBuff will *copy* the data (just once) into the
\* allocated structure": what is copied into a leaf is the data of the bank.
CopiesTheData ==
  phase = "parsed" => \A l \in DOMAIN leafs : \A k \in DOMAIN leafs[l].data :
    LET x == leafs[l].data[k].at
    IN leafs[l].data[k].bytes = 4 * (EndOf(event, x) - DataAt(event, x)) - event[x].pad

-----------------------------------------------------------------------------
(* What makes the invariants above inductive, while an event is parsed.    *)

\* Each frame is about a container the frame below it has come to, and is at one
\* of its children or at its end.
Nested(cs) ==
  /\ cs # <<>> /\ cs[1].at = Outside /\ cs[1].type = "bank" /\ cs[1].bank = Root
  /\ \A k \in DOMAIN cs : cs[k].p = Limit(cs[k]) \/ cs[k].p \in ChildrenOf(event, cs[k].at)
  /\ \A k \in 2..Len(cs) :
       /\ cs[k].at \in DOMAIN event /\ cs[k].at = cs[k - 1].p
       /\ cs[k].at < Limit(cs[k - 1]) /\ cs[k].at < cs[k].p
       /\ cs[k].type = event[cs[k].at].type /\ cs[k].type \in Containers
       /\ event[cs[k].at].depth = k - 2 /\ event[cs[k].at].up = cs[k - 1].at

StackInv == event \in Events /\ Nested(calls)

\* The containers before q are where they belong, and nothing was done yet about
\* those after.
RoutedTo(q) ==
  \A c \in DOMAIN event : event[c].type \in Containers =>
    IF c < q THEN dest[c] = BankFor(c) /\ (settings.fAutoAdd => dest[c] # None)
             ELSE dest[c] = None

\* And so are the data.
FilledTo(q) ==
  /\ \A l \in DOMAIN leafs :
       /\ {leafs[l].data[k].at : k \in DOMAIN leafs[l].data} = {x \in BanksFor(l) : x < q}
       /\ \A j, k \in DOMAIN leafs[l].data : j < k => leafs[l].data[j].at < leafs[l].data[k].at
  /\ settings.fAutoAdd =>
       \A x \in DOMAIN event : LeafBank(x) /\ x < q => LeafFor(x) # None

\* That far the parser has come, and the containers it is in are in the banks of
\* their frames.
RouteInv ==
  /\ dest \in [DOMAIN event \cup {Outside} -> 0..Len(banks)] /\ dest[Outside] = Root
  /\ \A k \in 2..Len(calls) : calls[k].bank = dest[calls[k].at] /\ calls[k - 1].bank # None
  /\ RoutedTo(Top.p)

\* Leafs that were deleted hold no data.
LeafHome == \A l \in DOMAIN leafs : leafs[l].bank \in DOMAIN banks \/ leafs[l].data = <<>>

\* A bank comes after the one it is in.
BankOrder == \A k \in DOMAIN banks : banks[k].up < k

\* The banks of the frames are nested, and know the containers they stand for.
CrateInv ==
  NoneCollapsed =>
    /\ \A j, k \in DOMAIN calls : j < k /\ calls[k].bank # None => calls[j].bank <= calls[k].bank
    /\ \A j, k \in 2..Len(calls) : j < k /\ calls[k].bank # None => calls[j].bank < calls[k].bank
    /\ \A k \in 2..Len(calls) :
         calls[k].bank # None => banks[calls[k].bank].this_tag = event[calls[k].at].tag
    /\ CratesAreEnclosingTags

\* Only the banks of open containers wait for their CallBack.
DirtyInv ==
  event[0].type \in Containers => dirty \subseteq {calls[k].bank : k \in 2..Len(calls)}

IInv ==
  /\ TypeOK /\ BankOrder /\ LeafHome /\ ParsedFaithfully /\ AutoAddKeepsAll /\ CrateIsEnclosingTag
  /\ CallBackSeesAll
  /\ phase = "parsing" => StackInv /\ RouteInv /\ FilledTo(Top.p) /\ CrateInv /\ DirtyInv
=============================================================================
