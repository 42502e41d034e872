------------------------------ MODULE EvioEvent ------------------------------
(***************************************************************************)
(* An event as evio lays it out in a buffer of 32-bit words.  An event is a *)
(* function from the offsets of bank headers to the fields of the header:  *)
(*   up      offset of the header of the bank it is in, Outside for the top *)
(*   depth   how deep it is                                                *)
(*   type    its contentType                                               *)
(*   tag, num, pad                                                         *)
(*   length  the length field: words that follow the first header word     *)
(* A bank in a container of type "bank" has a header of two words, one in a *)
(* segment or tagsegment a header of one word, with 16 bits for the length *)
(* and no num.                                                             *)
(***************************************************************************)
EXTENDS Integers, FiniteSets

Outside    == -1
Containers == {"bank", "segment", "tagsegment"}
LeafTypes  == {"uint32", "float", "string", "int16", "uint16", "int8", "uint8",
               "double", "int64", "uint64", "int32", "composite"}
Illegal    == "illegal"

\* Words of the header of a bank that is in a container of type t.
HeaderWords(t) == IF t = "bank" THEN 2 ELSE 1

InType(e, x)  == IF e[x].up = Outside THEN "bank" ELSE e[e[x].up].type
DataAt(e, x)  == x + HeaderWords(InType(e, x))     \* offset of its first data word
EndOf(e, x)   == x + e[x].length + 1               \* offset past its last word
ChildrenOf(e, c) == {x \in DOMAIN e : e[x].up = c}

HeaderType == [up : Int, depth : Nat, type : Containers \cup LeafTypes \cup {Illegal},
               tag : Nat, num : Nat, pad : 0..3, length : Nat]

\* A well-formed event: the banks in a container fill it without a gap, and
\* nothing but a container has banks in it.
WellFormed(e) ==
  /\ DOMAIN e \subseteq Nat /\ 0 \in DOMAIN e /\ \A x \in DOMAIN e : e[x] \in HeaderType
  /\ \A x \in DOMAIN e : DataAt(e, x) <= EndOf(e, x) /\ EndOf(e, x) <= EndOf(e, 0)
  /\ e[0].up = Outside /\ e[0].depth = 0
  /\ \A x \in DOMAIN e \ {0} :
       /\ e[x].up \in DOMAIN e /\ e[e[x].up].type \in Containers
       /\ e[x].depth = e[e[x].up].depth + 1
       /\ DataAt(e, e[x].up) <= x /\ EndOf(e, x) <= EndOf(e, e[x].up)
       /\ InType(e, x) # "bank" => e[x].num = 0 /\ e[x].length < 65536
  /\ \A c \in DOMAIN e : e[c].type \in Containers =>
       \A y \in {DataAt(e, c)} \cup {EndOf(e, x) : x \in ChildrenOf(e, c)} :
         y = EndOf(e, c) \/ y \in ChildrenOf(e, c)
  /\ \A x, y \in DOMAIN e : x < y /\ y < EndOf(e, x) =>
       e[x].type \in Containers /\ DataAt(e, x) <= y /\ x <= e[y].up
=============================================================================
