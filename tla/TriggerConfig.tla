---------------------------- MODULE TriggerConfig ----------------------------
(***************************************************************************)
(* TriggerConfig: the DAQ settings of a run, read line by line from a file  *)
(* or from the string bank of an event with tag 17 (Parse_raw_data).  Lines *)
(* come cut in a token, a value and, where there is one, a channel; cutting *)
(* and converting the text is left out, and so are comments.  The settings  *)
(* kept are those the ECAL code reads.  mode, w_offset and window are       *)
(* handled as NSB is, and vtp_configs is only printed.                      *)
(***************************************************************************)
EXTENDS Integers, Sequences, FiniteSets, SequencesExt, TLC

CONSTANT Channels     \* channels of a slot

Crates == 1..2
All == 0              \* FADC250_SLOT all; no slot has the number 0
Outside == 0          \* FADC250_CRATE end, VTP_CRATE end
Other == -1           \* the name of another crate, which changes nothing

\* FADC250_slot_t, as its constructor leaves it
ZeroSlot == [NSB |-> 0, NSA |-> 0, npeak |-> 0,
             threshold |-> [ch \in Channels |-> 0], pedestal4 |-> [ch \in Channels |-> 0],
             gain |-> [ch \in Channels |-> 0]]

NoSlots == [s \in {} |-> ZeroSlot]
EmptyConf == [vtp    |-> [t \in {} |-> 0],
              crates |-> [c \in Crates |-> [all |-> ZeroSlot, slots |-> NoSlots]]]

SlotTokens == {"NSB", "NSA", "npeak", "TET"}         \* for a slot or for all of them
ChannelTokens == {"CH_TET", "ALLCH_GAIN", "ALLCH_PED"} \* for a slot only
VtpTokens == {"ECAL_CLUSTER_SEED_THR", "ECAL_CLUSTER_HIT_DT"}

Lines == [tok : STRING, val : Int, ch : Int]
Line(tok, val, ch) == [tok |-> tok, val |-> val, ch |-> ch]

------------------------------------------------------------------------------

\* what a line does to the settings of one slot
Assign(slot, l) ==
    CASE l.tok = "TET"        -> [slot EXCEPT !.threshold = [ch \in Channels |-> l.val]]
      [] l.tok = "CH_TET"     -> [slot EXCEPT !.threshold[l.ch] = l.val]
      [] l.tok = "ALLCH_GAIN" -> [slot EXCEPT !.gain = [ch \in Channels |-> l.val]]
      [] l.tok = "ALLCH_PED"  -> [slot EXCEPT !.pedestal4 = [ch \in Channels |-> l.val]]
      [] OTHER                -> [slot EXCEPT ![l.tok] = l.val]

\* map[x] = v
Put(map, x, v) == [y \in DOMAIN map \cup {x} |-> IF y = x THEN v ELSE map[y]]

\* slots[s], which makes the slot when it is not there
At(slots, s) == IF s \in DOMAIN slots THEN slots[s] ELSE ZeroSlot

\* mutant: a line for all slots reaches only the slots that are named later
SetLater(crate, s, l) ==
    IF s = All THEN [crate EXCEPT !.all = Assign(@, l)]
               ELSE [crate EXCEPT !.slots = Put(@, s, Assign(At(@, s), l))]

SetSlot(crate, s, l) ==
    CASE s = All /\ l.tok \in ChannelTokens -> crate
      [] s = All /\ l.tok \notin ChannelTokens ->
                    [all |-> Assign(crate.all, l),
                     slots |-> [t \in DOMAIN crate.slots |-> Assign(crate.slots[t], l)]]
      [] OTHER -> [crate EXCEPT !.slots = Put(@, s, Assign(At(@, s), l))]

\* FADC250_SLOT: a slot seen for the first time starts with the settings for all
NameSlot(crate, s) ==
    IF s = All \/ s \in DOMAIN crate.slots THEN crate
    ELSE [crate EXCEPT !.slots = Put(@, s, crate.all)]

WithVtp(conf, t, v) == [conf EXCEPT !.vtp = Put(@, t, v)]
WithCrate(conf, c, crate) == [conf EXCEPT !.crates = [@ EXCEPT ![c] = crate]]

\* One turn of the loop. p.slot outlives the crate it was named in.
ParseLine(p, l) ==
    LET crate == p.conf.crates[p.crate]
    IN  CASE l.tok = "VTP_CRATE" -> [p EXCEPT !.vtp = IF l.val = Other THEN @ ELSE l.val # Outside]
          [] l.tok = "FADC250_CRATE" -> [p EXCEPT !.crate = IF l.val = Other THEN @ ELSE l.val]
          [] l.tok \in VtpTokens /\ p.vtp ->
                [p EXCEPT !.conf = WithVtp(@, l.tok, l.val)]
          [] l.tok = "FADC250_SLOT" /\ p.crate # Outside ->
                [p EXCEPT !.slot = l.val, !.conf = WithCrate(@, p.crate, NameSlot(crate, l.val))]
          [] l.tok \in SlotTokens \cup ChannelTokens /\ p.crate # Outside ->
                [p EXCEPT !.conf = WithCrate(@, p.crate, SetSlot(crate, p.slot, l))]
          [] OTHER -> p

\* The loop over the lines. (p is bound by the set so that TLC computes it once.)
Parser(conf) == [conf |-> conf, vtp |-> FALSE, crate |-> Outside, slot |-> All]
Parse_raw_data(conf, lines) ==
    LET after[k \in 0..Len(lines)] ==
            IF k = 0 THEN Parser(conf)
            ELSE CHOOSE q \in {ParseLine(p, lines[k]) : p \in {after[k - 1]}} : TRUE
    IN  after[Len(lines)].conf

\* the slots of the map exist from then on; a channel of the map is <<crate, slot, channel>>
InitDAQMaps(conf, channels) ==
    LET Mapped(c) == {ch[2] : ch \in {d \in channels : d[1] = c}}
        With(crate, S) == [crate EXCEPT !.slots = [s \in S \cup DOMAIN @ |-> At(@, s)]]
    IN  [conf EXCEPT !.crates = [c \in Crates |-> With(@[c], Mapped(c))]]

------------------------------------------------------------------------------
(* What the lines mean, without following the parser: a setting has the value   *)
(* of the last line that is about it.                                           *)

\* the last of the positions in S, 0 when there is none
LastOf(S) == IF S = {} THEN 0 ELSE CHOOSE k \in S : \A j \in S : j <= k

CrateAt(lines, k) ==
    LET j == LastOf({i \in 1..k : lines[i].tok = "FADC250_CRATE" /\ lines[i].val # Other})
    IN  IF j = 0 THEN Outside ELSE lines[j].val
SlotAt(lines, k) ==
    LET j == LastOf({i \in 1..k : lines[i].tok = "FADC250_SLOT" /\ CrateAt(lines, i) # Outside})
    IN  IF j = 0 THEN All ELSE lines[j].val

\* the lines with one of these tokens about slot s of crate c
About(lines, toks, c, s) ==
    {k \in DOMAIN lines : /\ lines[k].tok \in toks /\ CrateAt(lines, k) = c
                          /\ SlotAt(lines, k) \in (IF lines[k].tok \in ChannelTokens THEN {s} ELSE {s, All})}

\* slot s is named in crate c before a line sets something for it alone
NamedFirst(lines, c, s) ==
    \E k \in DOMAIN lines :
        /\ lines[k] = Line("FADC250_SLOT", s, 0) /\ CrateAt(lines, k) = c
        /\ \A j \in 1..(k - 1) :
              ~(lines[j].tok \in SlotTokens \cup ChannelTokens /\ CrateAt(lines, j) = c
                 /\ SlotAt(lines, j) = s)

ValueOf(lines, S) == IF S = {} THEN 0 ELSE lines[LastOf(S)].val
=============================================================================
