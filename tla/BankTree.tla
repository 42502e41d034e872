------------------------------ MODULE BankTree ------------------------------
(***************************************************************************)
(* The tree of banks and leafs an event is parsed into (EvioTool/Bank.h,   *)
(* Bank.cc, Leaf.h): what a program books in it, how a bank or leaf is     *)
(* found by tag and num, and what Clear does between events.               *)
(*                                                                         *)
(* Banks and leafs are numbered in the order they are made, so the entries *)
(* of one bank's TObjArray are those with its number, in this order.  What *)
(* is deleted keeps its number and belongs to Gone.                        *)
(***************************************************************************)
EXTENDS Integers, Sequences, FiniteSets, FiniteSetsExt

VARIABLES
  banks,        \* [up, path, tags, num, this_tag, this_num] of each bank
  leafs,        \* [bank, name, tag, num, type, data] of each leaf
  name_index    \* entries [bank, name, loc] of the banks' name_index maps

bankVars == <<banks, leafs, name_index>>

Root == 1       \* the EvioTool object itself is a bank
Gone == 0
None == 0       \* FindBank and FindLeaf return -1

FirstOf(S) == IF S = {} THEN None ELSE Min(S)

Live(b)      == b = Root \/ banks[b].up # Gone
LeafsOf(b)   == {l \in DOMAIN leafs : leafs[l].bank = b}
Below(b)     == {x \in DOMAIN banks : b \in banks[x].path}

\* Bank::FindBank(tag, num): a num of 0 on either side matches any.
IsBankFor(k, b, tag, num) ==
  /\ banks[k].up = b /\ tag \in banks[k].tags
  /\ num = 0 \/ banks[k].num = 0 \/ banks[k].num = num
FindBank(b, tag, num) == FirstOf({k \in DOMAIN banks : IsBankFor(k, b, tag, num)})

\* Bank::FindLeaf(tag, num): only a leaf booked with num 0 matches any.
IsLeafFor(l, b, tag, num) ==
  /\ leafs[l].bank = b /\ leafs[l].tag = tag
  /\ leafs[l].num = 0 \/ leafs[l].num = num
FindLeaf(b, tag, num) == FirstOf({l \in DOMAIN leafs : IsLeafFor(l, b, tag, num)})

NewBank(b, tags, num) ==
  [up |-> b, path |-> banks[b].path \cup {Len(banks) + 1}, tags |-> tags, num |-> num,
   this_tag |-> 0, this_num |-> 0]

\* Bank::StoreLocation: a name already in the index gets a "+" until it is new.
Pluses(b, base) ==
  Min({k \in 0..Cardinality(name_index) :
         \A e \in name_index : ~(e.bank = b /\ e.name = <<base, k>>)})

\* Mutant: the location is looked up after the leaf was added.
Mutant_LocationAfter(b, base) ==
  name_index \cup {[bank |-> b, name |-> <<base, Pluses(b, base)>>,
                    loc |-> Cardinality(LeafsOf(b)) + 1]}

StoreLocation(b, base) ==
  name_index \cup {[bank |-> b, name |-> <<base, Pluses(b, base)>>,
                    loc |-> Cardinality(LeafsOf(b))]}

LeafOf(b, name, tag, num, type) ==
  [bank |-> b, name |-> name, tag |-> tag, num |-> num, type |-> type, data |-> <<>>]

\* Bank::AddLeaf: the leaf is made with the name StoreLocation returns (a type it
\* makes no leafs of is a programming error and left out).
NewLeaf(b, base, tag, num, type) == LeafOf(b, <<base, Pluses(b, base)>>, tag, num, type)
AddLeaf(b, base, tag, num, type) ==
  /\ leafs' = Append(leafs, NewLeaf(b, base, tag, num, type))
  /\ name_index' = StoreLocation(b, base)
  /\ UNCHANGED banks

\* Bank::AddThisLeaf and Add_Leaf: the caller's leaf, or a copy of it, keeps its
\* own name, whatever name StoreLocation put in the index.
ThisLeaf(b, base, tag, num, type) == LeafOf(b, <<base, 0>>, tag, num, type)
AddThisLeaf(b, base, tag, num, type) ==
  /\ leafs' = Append(leafs, ThisLeaf(b, base, tag, num, type))
  /\ name_index' = StoreLocation(b, base)
  /\ UNCHANGED banks

\* Bank::AddBank with one tag: a bank FindBank finds is returned as it is,
\* unless the caller overrides that.
AddBank(b, tag, num, override) ==
  /\ banks' = IF FindBank(b, tag, num) = None \/ override
              THEN Append(banks, NewBank(b, {tag}, num)) ELSE banks
  /\ UNCHANGED <<leafs, name_index>>

\* Bank::AddBank with a list of tags, and of a bank made by the caller.
AddBankOfTags(b, tags, num) ==
  banks' = Append(banks, NewBank(b, tags, num)) /\ UNCHANGED <<leafs, name_index>>

\* The banks B and what is in them are deleted.
BanksWithout(B) ==
  [k \in DOMAIN banks |->
     IF k \in B THEN [up |-> Gone, path |-> {}, tags |-> {}, num |-> 0,
                      this_tag |-> 0, this_num |-> 0] ELSE banks[k]]
LeafsWithout(B) ==
  [l \in DOMAIN leafs |->
     IF leafs[l].bank \in B THEN [leafs[l] EXCEPT !.bank = Gone, !.data = <<>>] ELSE leafs[l]]

\* Bank::RemoveBank: the bank is deleted with what is in it.
RemoveBank(b) ==
  /\ banks' = BanksWithout(Below(b)) /\ leafs' = LeafsWithout(Below(b))
  /\ name_index' = {e \in name_index : e.bank \notin Below(b)}

\* Bank::Clear of the EvioTool object.  Clear("") empties the leafs and keeps the
\* structure; Clear("Full") deletes the leafs and banks, and leaves its
\* name_index as it is.
ClearedBanks(full) == IF full THEN BanksWithout(DOMAIN banks \ {Root}) ELSE banks

\* Mutant: Clear("") keeps the data of leafs below the EvioTool object.
Mutant_ClearsTopOnly(full) ==
  IF full THEN LeafsWithout(DOMAIN banks)
  ELSE [l \in DOMAIN leafs |-> IF leafs[l].bank = Root
                               THEN [leafs[l] EXCEPT !.data = <<>>] ELSE leafs[l]]

ClearedLeafs(full) ==
  IF full THEN LeafsWithout(DOMAIN banks)
  ELSE [l \in DOMAIN leafs |-> [leafs[l] EXCEPT !.data = <<>>]]
ClearedIndex(full) ==
  IF full THEN {e \in name_index : e.bank = Root} ELSE name_index
=============================================================================
