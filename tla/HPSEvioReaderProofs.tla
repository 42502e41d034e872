------------------------- MODULE HPSEvioReaderProofs -------------------------
(***************************************************************************)
(* Three things the HPS code computes, proved for all its inputs:          *)
(* LastLineWins (the settings TriggerConfig reads, for any lines),          *)
(* FilterCopies (the events HPS_Trigger_Filter writes, for any files) and   *)
(* PulsesFound (the pulses ComputeMode7fast finds, for any samples).        *)
(*                                                                         *)
(* Each is an invariant of a loop: LineInv says what the parser knows after *)
(* k lines, FilterInv which of the events read so far are in the output,    *)
(* and Found what the search knows of the samples before its index.         *)
(***************************************************************************)
EXTENDS HPSEvioReader, FiniteInduction, FiniteSetTheorems

-----------------------------------------------------------------------------
(* The settings of a run have their types.                                 *)

SlotType == [NSB : Int, NSA : Int, npeak : Int, threshold : [Channels -> Int],
             pedestal4 : [Channels -> Int], gain : [Channels -> Int]]
SlotMaps == UNION {[S -> SlotType] : S \in SUBSET (Int \ {All})}
CrateType == [all : SlotType, slots : SlotMaps]
VtpMaps == UNION {[S -> Int] : S \in SUBSET STRING}
ConfType == [vtp : VtpMaps, crates : [Crates -> CrateType]]
ParserType == [conf : ConfType, vtp : BOOLEAN, crate : Int, slot : Int]

\* What a line says about a slot is put in the settings of the slot.
LEMMA AssignType ==
  ASSUME NEW slot \in SlotType, NEW l \in Lines, l.tok \in SlotTokens \cup ChannelTokens
  PROVE  /\ Assign(slot, l) \in SlotType
         /\ \A t \in {"NSB", "NSA", "npeak"} :
              Assign(slot, l)[t] = IF l.tok = t THEN l.val ELSE slot[t]
         /\ \A ch \in Channels :
              Assign(slot, l).threshold[ch] =
                IF l.tok = "TET" \/ (l.tok = "CH_TET" /\ l.ch = ch) THEN l.val
                ELSE slot.threshold[ch]
<1> USE DEF SlotType, Lines
<1>1. CASE l.tok = "TET"
  BY <1>1 DEF Assign
<1>2. CASE l.tok = "CH_TET"
  BY <1>2 DEF Assign
<1>3. CASE l.tok = "ALLCH_GAIN"
  BY <1>3 DEF Assign
<1>4. CASE l.tok = "ALLCH_PED"
  BY <1>4 DEF Assign
<1>5. CASE l.tok = "NSB"
  BY <1>5 DEF Assign
<1>6. CASE l.tok = "NSA"
  BY <1>6 DEF Assign
<1>7. CASE l.tok = "npeak"
  BY <1>7 DEF Assign
<1>8. QED
  BY <1>1, <1>2, <1>3, <1>4, <1>5, <1>6, <1>7 DEF SlotTokens, ChannelTokens

\* Putting a slot in a map.
LEMMA PutSlot ==
  ASSUME NEW slots \in SlotMaps, NEW s \in Int \ {All}, NEW v \in SlotType
  PROVE  /\ Put(slots, s, v) \in SlotMaps
         /\ DOMAIN (Put(slots, s, v)) = DOMAIN slots \cup {s}
         /\ \A t \in DOMAIN slots \cup {s} :
              (Put(slots, s, v))[t] = IF t = s THEN v ELSE slots[t]
<1>1. PICK S \in SUBSET (Int \ {All}) : slots \in [S -> SlotType]
  BY DEF SlotMaps
<1>2. Put(slots, s, v) = [t \in S \cup {s} |-> IF t = s THEN v ELSE slots[t]]
  BY <1>1 DEF Put
<1>3. [t \in S \cup {s} |-> IF t = s THEN v ELSE slots[t]] \in [S \cup {s} -> SlotType]
  BY <1>1
<1>4. S \cup {s} \in SUBSET (Int \ {All})
  OBVIOUS
<1>5. QED
  BY <1>1, <1>2, <1>3, <1>4 DEF SlotMaps

\* The slots of a map have their types.
LEMMA SlotsTyped ==
  ASSUME NEW slots \in SlotMaps
  PROVE  /\ DOMAIN slots \in SUBSET (Int \ {All})
         /\ \A t \in DOMAIN slots : slots[t] \in SlotType
  BY DEF SlotMaps

\* The settings of a slot that is not there yet are zero.
LEMMA ZeroTyped == ZeroSlot \in SlotType
  BY DEF ZeroSlot, SlotType

\* A line with a setting, read while slot s is meant.
LEMMA SetSlotEffect ==
  ASSUME NEW crate \in CrateType, NEW s \in Int, NEW l \in Lines,
         l.tok \in SlotTokens \cup ChannelTokens
  PROVE  LET new == SetSlot(crate, s, l)
         IN  /\ new \in CrateType
             /\ new.all = IF s = All /\ l.tok \in SlotTokens THEN Assign(crate.all, l) ELSE crate.all
             /\ DOMAIN new.slots = DOMAIN crate.slots \cup (IF s = All THEN {} ELSE {s})
             /\ \A t \in DOMAIN new.slots :
                  new.slots[t] = IF s = t \/ (s = All /\ l.tok \in SlotTokens)
                                 THEN Assign(At(crate.slots, t), l) ELSE crate.slots[t]
<1>1. crate.all \in SlotType /\ crate.slots \in SlotMaps
  BY DEF CrateType
<1>2. \A t \in DOMAIN crate.slots : t \in Int \ {All} /\ crate.slots[t] \in SlotType
  BY <1>1, SlotsTyped
<1>3. \A t \in Int : At(crate.slots, t) \in SlotType
  BY <1>2, ZeroTyped DEF At
<1>4. CASE s = All /\ l.tok \in ChannelTokens
  <2>1. SetSlot(crate, s, l) = crate /\ l.tok \notin SlotTokens
    BY <1>4 DEF SetSlot, SlotTokens, ChannelTokens
  <2>2. QED
    BY <1>2, <1>4, <2>1
<1>5. CASE s = All /\ l.tok \notin ChannelTokens
  <2> DEFINE slots == [t \in DOMAIN crate.slots |-> Assign(crate.slots[t], l)]
             all == Assign(crate.all, l)
  <2>1. SetSlot(crate, s, l) = [all |-> all, slots |-> slots] /\ l.tok \in SlotTokens
    BY <1>5 DEF SetSlot
  <2>2. all \in SlotType
    BY <1>1, AssignType
  <2>3. slots \in [DOMAIN crate.slots -> SlotType]
    BY <1>2, AssignType
  <2>4. slots \in SlotMaps
    BY <1>1, <2>3, SlotsTyped DEF SlotMaps
  <2>5. \A t \in DOMAIN slots : slots[t] = Assign(At(crate.slots, t), l)
    BY DEF At
  <2>6. DOMAIN slots = DOMAIN crate.slots
    OBVIOUS
  <2>7. all = Assign(crate.all, l)
    OBVIOUS
  <2> HIDE DEF slots, all
  <2>8. [all |-> all, slots |-> slots] \in CrateType
    BY <2>2, <2>4 DEF CrateType
  <2>9. QED
    BY <1>5, <2>1, <2>5, <2>6, <2>7, <2>8
<1>6. CASE s # All
  <2> DEFINE v == Assign(At(crate.slots, s), l)
             slots == Put(crate.slots, s, v)
  <2>1. SetSlot(crate, s, l) = [crate EXCEPT !.slots = slots]
    BY <1>6 DEF SetSlot
  <2>2. v \in SlotType
    BY <1>3, AssignType
  <2> HIDE DEF v
  <2>3. /\ slots \in SlotMaps /\ DOMAIN slots = DOMAIN crate.slots \cup {s}
        /\ \A t \in DOMAIN crate.slots \cup {s} : slots[t] = IF t = s THEN v ELSE crate.slots[t]
    BY <1>1, <1>6, <2>2, PutSlot
  <2> HIDE DEF slots
  <2>4. [crate EXCEPT !.slots = slots] \in CrateType
    BY <2>3 DEF CrateType
  <2>5. /\ [crate EXCEPT !.slots = slots].all = crate.all
        /\ [crate EXCEPT !.slots = slots].slots = slots
    BY DEF CrateType
  <2>6. QED
    BY <1>6, <2>1, <2>3, <2>4, <2>5 DEF v
<1>7. QED
  BY <1>4, <1>5, <1>6

\* FADC250_SLOT: the slot is there, and has the settings for all if it was not.
LEMMA NameSlotEffect ==
  ASSUME NEW crate \in CrateType, NEW s \in Int
  PROVE  LET new == NameSlot(crate, s)
         IN  /\ new \in CrateType
             /\ new.all = crate.all
             /\ DOMAIN new.slots = DOMAIN crate.slots \cup (IF s = All THEN {} ELSE {s})
             /\ \A t \in DOMAIN new.slots :
                  new.slots[t] = IF t \in DOMAIN crate.slots THEN crate.slots[t] ELSE crate.all
<1>1. crate.all \in SlotType /\ crate.slots \in SlotMaps
  BY DEF CrateType
<1>2. CASE s = All \/ s \in DOMAIN crate.slots
  BY <1>2 DEF NameSlot
<1>3. CASE ~(s = All \/ s \in DOMAIN crate.slots)
  <2> DEFINE slots == Put(crate.slots, s, crate.all)
  <2>1. NameSlot(crate, s) = [crate EXCEPT !.slots = slots]
    BY <1>3 DEF NameSlot
  <2>2. /\ slots \in SlotMaps /\ DOMAIN slots = DOMAIN crate.slots \cup {s}
        /\ \A t \in DOMAIN crate.slots \cup {s} :
             slots[t] = IF t = s THEN crate.all ELSE crate.slots[t]
    BY <1>1, <1>3, PutSlot
  <2> HIDE DEF slots
  <2>3. /\ [crate EXCEPT !.slots = slots] \in CrateType
        /\ [crate EXCEPT !.slots = slots].all = crate.all
        /\ [crate EXCEPT !.slots = slots].slots = slots
    BY <2>2 DEF CrateType
  <2>4. QED
    BY <1>3, <2>1, <2>2, <2>3
<1>4. QED
  BY <1>2, <1>3
\* The line sets something for a slot.
Sets(l) == l.tok \in SlotTokens \cup ChannelTokens

\* What a line does to what the parser knows of one slot.
LEMMA ParseLineEffect ==
  ASSUME NEW p \in ParserType, NEW l \in Lines
  PROVE  LET q == ParseLine(p, l)
         IN  /\ q \in ParserType
             /\ q.crate = IF l.tok = "FADC250_CRATE" /\ l.val # Other THEN l.val ELSE p.crate
             /\ q.slot = IF l.tok = "FADC250_SLOT" /\ p.crate # Outside THEN l.val ELSE p.slot
             /\ \A c \in Crates :
                  q.conf.crates[c] =
                    IF p.crate # c THEN p.conf.crates[c]
                    ELSE IF l.tok = "FADC250_SLOT" THEN NameSlot(p.conf.crates[c], l.val)
                    ELSE IF Sets(l) THEN SetSlot(p.conf.crates[c], p.slot, l)
                    ELSE p.conf.crates[c]
<1> DEFINE crate == p.conf.crates[p.crate]
<1>1. /\ p.conf \in ConfType /\ p.vtp \in BOOLEAN /\ p.crate \in Int /\ p.slot \in Int
      /\ l.tok \in STRING /\ l.val \in Int /\ Outside \notin Crates
      /\ p.conf.vtp \in VtpMaps /\ p.conf.crates \in [Crates -> CrateType]
  BY DEF ParserType, Lines, Outside, Crates, ConfType
<1>2. ASSUME NEW new, p.crate \in Crates => new \in CrateType
      PROVE  /\ WithCrate(p.conf, p.crate, new) \in ConfType
             /\ \A c \in Crates : WithCrate(p.conf, p.crate, new).crates[c] =
                                    IF p.crate = c THEN new ELSE p.conf.crates[c]
  <2> DEFINE crates == [p.conf.crates EXCEPT ![p.crate] = new]
  <2>1. WithCrate(p.conf, p.crate, new) = [p.conf EXCEPT !.crates = crates]
    BY <1>1 DEF WithCrate, ConfType
  <2>2. crates \in [Crates -> CrateType]
    BY <1>1, <1>2
  <2>3. \A c \in Crates : crates[c] = IF p.crate = c THEN new ELSE p.conf.crates[c]
    BY <1>1
  <2> HIDE DEF crates
  <2>4. [p.conf EXCEPT !.crates = crates] \in ConfType /\ [p.conf EXCEPT !.crates = crates].crates = crates
    BY <1>1, <2>2 DEF ConfType
  <2>5. QED
    BY <2>1, <2>3, <2>4
<1>3. CASE l.tok = "VTP_CRATE"
  <2>1. ParseLine(p, l) = [p EXCEPT !.vtp = IF l.val = Other THEN @ ELSE l.val # Outside]
    BY <1>3 DEF ParseLine, VtpTokens, SlotTokens, ChannelTokens
  <2>2. ~Sets(l)
    BY <1>3 DEF Sets, SlotTokens, ChannelTokens
  <2>3. (IF l.val = Other THEN p.vtp ELSE l.val # Outside) \in BOOLEAN
    BY <1>1
  <2>4. QED
    BY <1>1, <1>3, <2>1, <2>2, <2>3 DEF ParserType
<1>4. CASE l.tok = "FADC250_CRATE"
  <2>1. ParseLine(p, l) = [p EXCEPT !.crate = IF l.val = Other THEN @ ELSE l.val]
    BY <1>4 DEF ParseLine, VtpTokens, SlotTokens, ChannelTokens
  <2>2. ~Sets(l)
    BY <1>4 DEF Sets, SlotTokens, ChannelTokens
  <2>4. QED
    BY <1>1, <1>4, <2>1, <2>2 DEF ParserType
<1>5. CASE l.tok \in VtpTokens /\ p.vtp
  <2> DEFINE vtps == Put(p.conf.vtp, l.tok, l.val)
             new == [p.conf EXCEPT !.vtp = vtps]
  <2>1. ParseLine(p, l) = [p EXCEPT !.conf = new]
    BY <1>5 DEF ParseLine, VtpTokens, SlotTokens, ChannelTokens, WithVtp
  <2>2. ~Sets(l) /\ l.tok # "FADC250_CRATE" /\ l.tok # "FADC250_SLOT"
    BY <1>5 DEF Sets, SlotTokens, ChannelTokens, VtpTokens
  <2>3. vtps \in VtpMaps
    <3>1. PICK S \in SUBSET STRING : p.conf.vtp \in [S -> Int]
      BY <1>1 DEF VtpMaps
    <3>2. vtps \in [S \cup {l.tok} -> Int]
      BY <1>1, <3>1 DEF Put
    <3>3. S \cup {l.tok} \in SUBSET STRING
      BY <1>1
    <3> HIDE DEF vtps
    <3>4. QED
      BY <3>2, <3>3 DEF VtpMaps
  <2> HIDE DEF vtps
  <2>4. new \in ConfType /\ new.crates = p.conf.crates
    BY <1>1, <2>3 DEF ConfType
  <2> HIDE DEF new
  <2>5. QED
    BY <1>1, <2>1, <2>2, <2>4 DEF ParserType
<1>6. CASE l.tok = "FADC250_SLOT" /\ p.crate # Outside
  <2> DEFINE new == WithCrate(p.conf, p.crate, NameSlot(crate, l.val))
  <2>1. ParseLine(p, l) = [p EXCEPT !.slot = l.val, !.conf = new]
    BY <1>6 DEF ParseLine, VtpTokens, SlotTokens, ChannelTokens
  <2>2. p.crate \in Crates => NameSlot(crate, l.val) \in CrateType
    BY <1>1, NameSlotEffect
  <2>3. /\ new \in ConfType
        /\ \A c \in Crates : new.crates[c] = IF p.crate = c THEN NameSlot(crate, l.val) ELSE p.conf.crates[c]
    BY <1>2, <2>2
  <2> HIDE DEF new
  <2>4. QED
    BY <1>1, <1>6, <2>1, <2>3 DEF ParserType
<1>7. CASE Sets(l) /\ p.crate # Outside
  <2> DEFINE new == WithCrate(p.conf, p.crate, SetSlot(crate, p.slot, l))
  <2>1. ParseLine(p, l) = [p EXCEPT !.conf = new]
    BY <1>7 DEF ParseLine, VtpTokens, SlotTokens, ChannelTokens, Sets
  <2>2. p.crate \in Crates => SetSlot(crate, p.slot, l) \in CrateType
    BY <1>1, <1>7, SetSlotEffect DEF Sets
  <2>3. /\ new \in ConfType
        /\ \A c \in Crates : new.crates[c] = IF p.crate = c THEN SetSlot(crate, p.slot, l) ELSE p.conf.crates[c]
    BY <1>2, <2>2
  <2> HIDE DEF new
  <2>4. l.tok # "FADC250_CRATE" /\ l.tok # "FADC250_SLOT"
    BY <1>7 DEF Sets, SlotTokens, ChannelTokens
  <2>5. QED
    BY <1>1, <1>7, <2>1, <2>3, <2>4 DEF ParserType
<1>8. CASE /\ l.tok # "VTP_CRATE" /\ l.tok # "FADC250_CRATE" /\ ~(l.tok \in VtpTokens /\ p.vtp)
           /\ ~(l.tok = "FADC250_SLOT" /\ p.crate # Outside) /\ ~(Sets(l) /\ p.crate # Outside)
  <2>1. ParseLine(p, l) = p
    BY <1>8 DEF ParseLine, Sets
  <2>2. QED
    BY <1>1, <1>8, <2>1
<1>9. QED
  BY <1>3, <1>4, <1>5, <1>6, <1>7, <1>8

\* The parser after the first k of the lines.
IsParse(after, cf, lines) ==
  /\ after \in [0 .. Len(lines) -> ParserType]
  /\ after[0] = Parser(cf)
  /\ \A k \in 1 .. Len(lines) : after[k] = ParseLine(after[k - 1], lines[k])
  /\ Parse_raw_data(cf, lines) = after[Len(lines)].conf

\* Parse_raw_data is what its loop makes of the lines.
LEMMA ParseRuns ==
  ASSUME NEW cf \in ConfType, NEW lines \in Seq(Lines)
  PROVE  \E after : IsParse(after, cf, lines)
<1> DEFINE n == Len(lines)
           G == [x \in ParserType \X (1 .. n) |-> ParseLine(x[1], lines[x[2]])]
<1>1. n \in Nat /\ \A k \in 1 .. n : lines[k] \in Lines
  OBVIOUS
<1>2. Parser(cf) \in ParserType
  BY DEF Parser, ParserType, Outside, All
<1>3. \A p \in ParserType : \A k \in 1 .. n : ParseLine(p, lines[k]) \in ParserType
  BY <1>1, ParseLineEffect
<1>4. IsStep(G, n, ParserType) /\ \A p \in ParserType : \A k \in 1 .. n : G[<<p, k>>] = ParseLine(p, lines[k])
  BY <1>3 DEF IsStep
<1> HIDE DEF G
<1>5. PICK f : IsRun(f, n, ParserType, Parser(cf), G)
  BY <1>1, <1>2, <1>4, RecursionUpTo
<1> DEFINE Body(g, k) == IF k = 0 THEN Parser(cf)
                         ELSE CHOOSE q \in {ParseLine(p, lines[k]) : p \in {g[k - 1]}} : TRUE
           h == CHOOSE g : g = [k \in 0 .. n |-> Body(g, k)]
<1>6. \A g : \A k \in 1 .. n : Body(g, k) = ParseLine(g[k - 1], lines[k])
  <2>1. ASSUME NEW g, NEW k \in 1 .. n
        PROVE  Body(g, k) = ParseLine(g[k - 1], lines[k])
    <3>1. {ParseLine(p, lines[k]) : p \in {g[k - 1]}} = {ParseLine(g[k - 1], lines[k])}
      OBVIOUS
    <3>2. QED
      BY <3>1
  <2>2. QED
    BY <2>1
<1>7. \A g : Body(g, 0) = Parser(cf)
  OBVIOUS
<1>8. Parse_raw_data(cf, lines) = h[n].conf
  BY DEF Parse_raw_data
<1> HIDE DEF Body
<1>9. f = [k \in 0 .. n |-> Body(f, k)]
  <2>1. f \in [0 .. n -> ParserType] /\ f[0] = Parser(cf) /\ \A k \in 1 .. n : f[k] = G[<<f[k - 1], k>>]
    BY <1>5 DEF IsRun
  <2>2. \A k \in 1 .. n : f[k - 1] \in ParserType
    BY <1>1, <2>1
  <2>3. \A k \in 1 .. n : f[k] = Body(f, k)
    BY <1>4, <1>6, <2>1, <2>2
  <2> HIDE DEF n
  <2>4. \A k \in 0 .. n : f[k] = Body(f, k)
    BY <1>1, <1>7, <2>1, <2>3
  <2>5. QED
    BY <2>1, <2>4
<1>10. h = [k \in 0 .. n |-> Body(h, k)]
  BY <1>9
<1> HIDE DEF h
<1>11. h[0] = Parser(cf) /\ \A k \in 1 .. n : h[k] = ParseLine(h[k - 1], lines[k])
  BY <1>1, <1>6, <1>7, <1>10
<1>12. \A k \in 0 .. n : k \in {j \in 0 .. n : h[j] \in ParserType}
  <2> DEFINE S == {j \in 0 .. n : h[j] \in ParserType}
  <2>1. 0 \in S
    BY <1>1, <1>2, <1>11
  <2>2. \A k \in 1 .. n : k - 1 \in S => k \in S
    BY <1>1, <1>3, <1>11
  <2> HIDE DEF S
  <2>3. QED
    BY <1>1, <2>1, <2>2, UpTo DEF S
<1>13. h \in [0 .. n -> ParserType]
  BY <1>10, <1>12
<1>14. IsParse(h, cf, lines)
  BY <1>8, <1>11, <1>13 DEF IsParse
<1>15. QED
  BY <1>14
-----------------------------------------------------------------------------
(* The last line about a setting.                                          *)

\* One more position: the last one is the new one if it is in the set.
LEMMA LastOfNext ==
  ASSUME NEW k \in Nat, NEW A
  PROVE  LastOf(A \cap (1 .. k + 1)) = IF k + 1 \in A THEN k + 1 ELSE LastOf(A \cap (1 .. k))
<1>1. CASE k + 1 \in A
  <2> DEFINE S == A \cap (1 .. k + 1)
  <2>1. k + 1 \in S /\ S # {} /\ \A j \in S : j <= k + 1 /\ j \in Nat
    BY <1>1
  <2> HIDE DEF S
  <2>2. \A m \in S : (\A j \in S : j <= m) => m = k + 1
    BY <2>1
  <2>3. LastOf(S) = k + 1
    BY <2>1, <2>2 DEF LastOf
  <2>4. QED
    BY <1>1, <2>3 DEF S
<1>2. CASE k + 1 \notin A
  <2>1. A \cap (1 .. k + 1) = A \cap (1 .. k)
    BY <1>2
  <2>2. QED
    BY <1>2, <2>1
<1>3. QED
  BY <1>1, <1>2

\* The value of a setting after one more line.
LEMMA ValueNext ==
  ASSUME NEW k \in Nat, NEW A, NEW lines
  PROVE  ValueOf(lines, A \cap (1 .. k + 1)) =
           IF k + 1 \in A THEN lines[k + 1].val ELSE ValueOf(lines, A \cap (1 .. k))
<1>1. CASE k + 1 \in A
  <2>1. A \cap (1 .. k + 1) # {}
    BY <1>1
  <2>2. QED
    BY <1>1, <2>1, LastOfNext DEF ValueOf
<1>2. CASE k + 1 \notin A
  <2>1. A \cap (1 .. k + 1) = A \cap (1 .. k)
    BY <1>2
  <2>2. QED
    BY <1>2, <2>1
<1>3. QED
  BY <1>1, <1>2

\* The crate and the slot that a line is in, from those of the line before.
LEMMA CrateNext ==
  ASSUME NEW lines, NEW k \in Nat
  PROVE  /\ CrateAt(lines, 0) = Outside /\ SlotAt(lines, 0) = All
         /\ CrateAt(lines, k + 1) =
              IF lines[k + 1].tok = "FADC250_CRATE" /\ lines[k + 1].val # Other
              THEN lines[k + 1].val ELSE CrateAt(lines, k)
         /\ SlotAt(lines, k + 1) =
              IF lines[k + 1].tok = "FADC250_SLOT" /\ CrateAt(lines, k + 1) # Outside
              THEN lines[k + 1].val ELSE SlotAt(lines, k)
<1> DEFINE A == {i \in Nat : lines[i].tok = "FADC250_CRATE" /\ lines[i].val # Other}
           B == {i \in Nat : lines[i].tok = "FADC250_SLOT" /\ CrateAt(lines, i) # Outside}
           Of(S, none) == IF LastOf(S) = 0 THEN none ELSE lines[LastOf(S)].val
<1>1. \A m \in Nat : CrateAt(lines, m) = Of(A \cap (1 .. m), Outside)
  <2>1. ASSUME NEW m \in Nat
        PROVE  CrateAt(lines, m) = Of(A \cap (1 .. m), Outside)
    <3>1. {i \in 1 .. m : lines[i].tok = "FADC250_CRATE" /\ lines[i].val # Other} = A \cap (1 .. m)
      OBVIOUS
    <3>2. QED
      BY <3>1 DEF CrateAt
  <2>2. QED
    BY <2>1
<1>2. \A m \in Nat : SlotAt(lines, m) = Of(B \cap (1 .. m), All)
  <2>1. ASSUME NEW m \in Nat
        PROVE  SlotAt(lines, m) = Of(B \cap (1 .. m), All)
    <3>1. {i \in 1 .. m : lines[i].tok = "FADC250_SLOT" /\ CrateAt(lines, i) # Outside} = B \cap (1 .. m)
      OBVIOUS
    <3>2. QED
      BY <3>1 DEF SlotAt
  <2>2. QED
    BY <2>1
<1>3. \A S : LastOf(S \cap (1 .. 0)) = 0
  BY DEF LastOf
<1>4. /\ k + 1 \in A <=> (lines[k + 1].tok = "FADC250_CRATE" /\ lines[k + 1].val # Other)
      /\ k + 1 \in B <=> (lines[k + 1].tok = "FADC250_SLOT" /\ CrateAt(lines, k + 1) # Outside)
  OBVIOUS
<1> HIDE DEF A, B
<1>5. \A S : \A none : Of(S \cap (1 .. k + 1), none) =
                         IF k + 1 \in S THEN lines[k + 1].val ELSE Of(S \cap (1 .. k), none)
  BY LastOfNext
<1>6. CrateAt(lines, 0) = Outside /\ SlotAt(lines, 0) = All
  BY <1>1, <1>2, <1>3
<1> HIDE DEF Of
<1>7. k + 1 \in Nat
  OBVIOUS
<1>8. CrateAt(lines, k + 1) = (IF k + 1 \in A THEN lines[k + 1].val ELSE CrateAt(lines, k))
  BY <1>1, <1>5, <1>7
<1>9. SlotAt(lines, k + 1) = (IF k + 1 \in B THEN lines[k + 1].val ELSE SlotAt(lines, k))
  BY <1>2, <1>5, <1>7
<1>10. QED
  BY <1>4, <1>6, <1>8, <1>9
Fields == {"NSB", "NSA", "npeak"}

\* the lines with a setting for all slots of crate c, those with a threshold of a
\* channel of slot s
AllLines(lines, t, c) ==
  {k \in DOMAIN lines : lines[k].tok = t /\ CrateAt(lines, k) = c /\ SlotAt(lines, k) = All}
ThresholdLines(lines, ch, c, s) ==
  {k \in About(lines, {"TET", "CH_TET"}, c, s) : lines[k].tok = "CH_TET" => lines[k].ch = ch}

\* line k names slot s of crate c, line k sets something for it alone
Names(lines, k, c, s) ==
  lines[k].tok = "FADC250_SLOT" /\ lines[k].val = s /\ CrateAt(lines, k) = c
SetsAlone(lines, k, c, s) ==
  Sets(lines[k]) /\ CrateAt(lines, k) = c /\ SlotAt(lines, k) = s

\* a slot that was not there has been set before it was named
SetFirst(lines, k, c, s, there) ==
  /\ s \notin there
  /\ \E j \in 1 .. k : SetsAlone(lines, j, c, s) /\ \A i \in 1 .. j - 1 : ~Names(lines, i, c, s)

\* Settings are what the last of the first k lines about them says.
AllGood(lines, k, c, all) ==
  /\ \A t \in Fields : all[t] = ValueOf(lines, AllLines(lines, t, c) \cap (1 .. k))
  /\ \A ch \in Channels :
       all.threshold[ch] = ValueOf(lines, AllLines(lines, "TET", c) \cap (1 .. k))
SlotGood(lines, k, c, s, slot) ==
  /\ \A t \in Fields : slot[t] = ValueOf(lines, About(lines, {t}, c, s) \cap (1 .. k))
  /\ \A ch \in Channels :
       slot.threshold[ch] = ValueOf(lines, ThresholdLines(lines, ch, c, s) \cap (1 .. k))

\* What the parser p knows of slot s of crate c after k lines, when the slots "there"
\* were there before the first.
LineInv(lines, k, c, s, there, p) ==
  /\ p.crate = CrateAt(lines, k) /\ p.slot = SlotAt(lines, k)
  /\ AllGood(lines, k, c, p.conf.crates[c].all)
  /\ there \subseteq DOMAIN p.conf.crates[c].slots
  /\ s \notin DOMAIN p.conf.crates[c].slots =>
       \A j \in 1 .. k : ~Names(lines, j, c, s) /\ ~SetsAlone(lines, j, c, s)
  /\ s \in DOMAIN p.conf.crates[c].slots =>
       \/ SetFirst(lines, k, c, s, there)
       \/ SlotGood(lines, k, c, s, p.conf.crates[c].slots[s])

\* One more line.
LEMMA LineStep ==
  ASSUME NEW lines \in Seq(Lines), NEW k \in Nat, k + 1 \in DOMAIN lines,
         NEW c \in Crates, NEW s \in Int \ {All}, NEW there,
         NEW p \in ParserType, LineInv(lines, k, c, s, there, p)
  PROVE  LineInv(lines, k + 1, c, s, there, ParseLine(p, lines[k + 1]))
<1> DEFINE l == lines[k + 1]
           q == ParseLine(p, l)
           old == p.conf.crates[c]
           new == q.conf.crates[c]
<1>1. /\ l \in Lines /\ l.val \in Int /\ p.crate \in Int /\ p.slot \in Int
      /\ old \in CrateType /\ c # Outside /\ old.all \in SlotType /\ old.slots \in SlotMaps
  <2>1. l \in Lines
    OBVIOUS
  <2>2. l.val \in Int
    BY <2>1 DEF Lines
  <2>3. p.crate \in Int /\ p.slot \in Int /\ c # Outside
    BY DEF ParserType, Crates, Outside
  <2>4. old \in CrateType
    BY DEF ParserType, ConfType
  <2>5. QED
    BY <2>1, <2>2, <2>3, <2>4 DEF CrateType
<1>2. \A t \in DOMAIN old.slots : t \in Int \ {All} /\ old.slots[t] \in SlotType
  BY <1>1, SlotsTyped
<1>3. /\ q \in ParserType
      /\ q.crate = IF l.tok = "FADC250_CRATE" /\ l.val # Other THEN l.val ELSE p.crate
      /\ q.slot = IF l.tok = "FADC250_SLOT" /\ p.crate # Outside THEN l.val ELSE p.slot
      /\ new = IF p.crate # c THEN old
               ELSE IF l.tok = "FADC250_SLOT" THEN NameSlot(old, l.val)
               ELSE IF Sets(l) THEN SetSlot(old, p.slot, l)
               ELSE old
  BY <1>1, ParseLineEffect
<1>4. q.crate = CrateAt(lines, k + 1) /\ q.slot = SlotAt(lines, k + 1)
  BY <1>1, <1>3, CrateNext DEF LineInv
<1>5. Sets(l) => l.tok # "FADC250_SLOT" /\ l.tok # "FADC250_CRATE"
  BY DEF Sets, SlotTokens, ChannelTokens
<1>6. /\ SetsAlone(lines, k + 1, c, s) <=> (Sets(l) /\ p.crate = c /\ p.slot = s)
      /\ Names(lines, k + 1, c, s) <=> (l.tok = "FADC250_SLOT" /\ l.val = s /\ p.crate = c)
  BY <1>3, <1>4, <1>5 DEF SetsAlone, Names
<1>7. \A t \in SlotTokens :
        k + 1 \in AllLines(lines, t, c) <=> (l.tok = t /\ p.crate = c /\ p.slot = All)
  BY <1>3, <1>4, <1>5 DEF AllLines, Sets
<1>8. \A t \in Fields :
        k + 1 \in About(lines, {t}, c, s) <=> (l.tok = t /\ p.crate = c /\ p.slot \in {s, All})
  BY <1>3, <1>4, <1>5 DEF About, Sets, Fields, SlotTokens, ChannelTokens
<1>9. \A ch \in Channels :
        k + 1 \in ThresholdLines(lines, ch, c, s) <=>
          /\ p.crate = c
          /\ \/ l.tok = "TET" /\ p.slot \in {s, All}
             \/ l.tok = "CH_TET" /\ l.ch = ch /\ p.slot = s
  BY <1>3, <1>4, <1>5 DEF ThresholdLines, About, Sets, SlotTokens, ChannelTokens
<1>10. Fields \subseteq SlotTokens /\ "TET" \in SlotTokens /\ "TET" \notin Fields /\ "CH_TET" \notin SlotTokens
  BY DEF Fields, SlotTokens
<1> HIDE DEF q, l, old
<1>11. AllGood(lines, k + 1, c, new.all)
  <2>1. AllGood(lines, k, c, old.all)
    BY DEF LineInv, old
  <2>2. new.all = IF p.crate = c /\ p.slot = All /\ l.tok \in SlotTokens THEN Assign(old.all, l) ELSE old.all
    <3>1. CASE p.crate # c
      BY <1>3, <3>1
    <3>2. CASE p.crate = c /\ l.tok = "FADC250_SLOT"
      <4>1. new = NameSlot(old, l.val) /\ l.tok \notin SlotTokens
        BY <1>3, <1>5, <3>2 DEF Sets
      <4> HIDE DEF new
      <4>2. new.all = old.all
        BY <1>1, <4>1, NameSlotEffect
      <4>3. QED
        BY <3>2, <4>1, <4>2
    <3>3. CASE p.crate = c /\ Sets(l)
      BY <1>1, <1>3, <1>5, <3>3, SetSlotEffect DEF Sets
    <3>4. CASE p.crate = c /\ l.tok # "FADC250_SLOT" /\ ~Sets(l)
      BY <1>3, <3>4 DEF Sets
    <3>5. QED
      BY <3>1, <3>2, <3>3, <3>4
  <2> HIDE DEF new
  <2>3. ASSUME NEW t \in Fields
        PROVE  new.all[t] = ValueOf(lines, AllLines(lines, t, c) \cap (1 .. k + 1))
    <3>1. new.all[t] = IF k + 1 \in AllLines(lines, t, c) THEN l.val ELSE old.all[t]
      BY <1>1, <1>7, <1>10, <2>2, AssignType DEF Fields
    <3>2. ValueOf(lines, AllLines(lines, t, c) \cap (1 .. k + 1)) =
            IF k + 1 \in AllLines(lines, t, c) THEN l.val
            ELSE ValueOf(lines, AllLines(lines, t, c) \cap (1 .. k))
      BY ValueNext DEF l
    <3>3. QED
      BY <2>1, <3>1, <3>2 DEF AllGood
  <2>4. ASSUME NEW ch \in Channels
        PROVE  new.all.threshold[ch] = ValueOf(lines, AllLines(lines, "TET", c) \cap (1 .. k + 1))
    <3>1. new.all.threshold[ch] = IF k + 1 \in AllLines(lines, "TET", c) THEN l.val ELSE old.all.threshold[ch]
      BY <1>1, <1>7, <1>10, <2>2, AssignType
    <3>2. QED
      BY <2>1, <3>1, ValueNext DEF AllGood, l
  <2>5. QED
    BY <2>3, <2>4 DEF AllGood
<1>12. /\ DOMAIN new.slots = DOMAIN old.slots \cup
             {t \in Int \ {All} :
                p.crate = c /\ ((l.tok = "FADC250_SLOT" /\ t = l.val) \/ (Sets(l) /\ t = p.slot))}
       /\ \A t \in DOMAIN new.slots :
             new.slots[t] =
               IF p.crate = c /\ Sets(l) /\ (p.slot = t \/ (p.slot = All /\ l.tok \in SlotTokens))
               THEN Assign(At(old.slots, t), l)
               ELSE IF t \in DOMAIN old.slots THEN old.slots[t] ELSE old.all
  <2>1. CASE p.crate # c
    BY <1>3, <2>1
  <2>2. CASE p.crate = c /\ l.tok = "FADC250_SLOT"
    <3>1. /\ DOMAIN new.slots = DOMAIN old.slots \cup (IF l.val = All THEN {} ELSE {l.val})
          /\ \A t \in DOMAIN new.slots :
               new.slots[t] = IF t \in DOMAIN old.slots THEN old.slots[t] ELSE old.all
      <4>1. new = NameSlot(old, l.val)
        BY <1>3, <2>2
      <4> HIDE DEF new
      <4>2. QED
        BY <1>1, <4>1, NameSlotEffect
    <3> HIDE DEF new
    <3>2. QED
      BY <1>1, <1>5, <2>2, <3>1
  <2>3. CASE p.crate = c /\ Sets(l)
    <3>1. /\ DOMAIN new.slots = DOMAIN old.slots \cup (IF p.slot = All THEN {} ELSE {p.slot})
          /\ \A t \in DOMAIN new.slots :
               new.slots[t] = IF p.slot = t \/ (p.slot = All /\ l.tok \in SlotTokens)
                              THEN Assign(At(old.slots, t), l) ELSE old.slots[t]
      BY <1>1, <1>3, <1>5, <2>3, SetSlotEffect DEF Sets
    <3> HIDE DEF new
    <3>2. QED
      BY <1>1, <1>5, <2>3, <3>1
  <2>4. CASE p.crate = c /\ l.tok # "FADC250_SLOT" /\ ~Sets(l)
    BY <1>3, <2>4
  <2>5. QED
    BY <2>1, <2>2, <2>3, <2>4
<1> HIDE DEF new
<1>13. there \subseteq DOMAIN new.slots
  BY <1>12 DEF LineInv, old
<1>14. s \notin DOMAIN new.slots =>
         \A j \in 1 .. k + 1 : ~Names(lines, j, c, s) /\ ~SetsAlone(lines, j, c, s)
  <2>1. SUFFICES ASSUME s \notin DOMAIN new.slots, NEW j \in 1 .. k + 1
                 PROVE  ~Names(lines, j, c, s) /\ ~SetsAlone(lines, j, c, s)
    OBVIOUS
  <2>2. CASE j = k + 1
    BY <1>6, <1>12, <2>1, <2>2
  <2>3. CASE j \in 1 .. k
    BY <1>12, <2>1, <2>3 DEF LineInv, old
  <2>4. QED
    BY <2>2, <2>3
<1>15. s \in DOMAIN new.slots =>
         SetFirst(lines, k + 1, c, s, there) \/ SlotGood(lines, k + 1, c, s, new.slots[s])
  <2>1. SUFFICES ASSUME s \in DOMAIN new.slots, ~SetFirst(lines, k + 1, c, s, there)
                 PROVE  SlotGood(lines, k + 1, c, s, new.slots[s])
    OBVIOUS
  <2>2. ~SetFirst(lines, k, c, s, there)
    BY <2>1 DEF SetFirst
  <2>3. CASE s \in DOMAIN old.slots
    <3>1. SlotGood(lines, k, c, s, old.slots[s])
      BY <2>2, <2>3 DEF LineInv, old
    <3>2. At(old.slots, s) = old.slots[s] /\ old.slots[s] \in SlotType
      BY <1>2, <2>3 DEF At
    <3>3. new.slots[s] = IF p.crate = c /\ Sets(l) /\ (p.slot = s \/ (p.slot = All /\ l.tok \in SlotTokens))
                         THEN Assign(old.slots[s], l) ELSE old.slots[s]
      BY <1>12, <2>1, <2>3, <3>2
    <3>4. ASSUME NEW t \in Fields
          PROVE  new.slots[s][t] = ValueOf(lines, About(lines, {t}, c, s) \cap (1 .. k + 1))
      <4>1. new.slots[s][t] = IF k + 1 \in About(lines, {t}, c, s) THEN l.val ELSE old.slots[s][t]
        <5>1. CASE p.crate = c /\ Sets(l) /\ (p.slot = s \/ (p.slot = All /\ l.tok \in SlotTokens))
          <6>1. Assign(old.slots[s], l)[t] = IF l.tok = t THEN l.val ELSE old.slots[s][t]
            BY <1>1, <3>2, <5>1, AssignType DEF Fields, Sets
          <6>2. QED
            BY <1>8, <3>3, <5>1, <6>1
        <5>2. CASE ~(p.crate = c /\ Sets(l) /\ (p.slot = s \/ (p.slot = All /\ l.tok \in SlotTokens)))
          BY <1>8, <1>10, <3>3, <5>2 DEF Sets
        <5>3. QED
          BY <5>1, <5>2
      <4>2. ValueOf(lines, About(lines, {t}, c, s) \cap (1 .. k + 1)) =
              IF k + 1 \in About(lines, {t}, c, s) THEN l.val
              ELSE ValueOf(lines, About(lines, {t}, c, s) \cap (1 .. k))
        BY ValueNext DEF l
      <4>3. QED
        BY <3>1, <4>1, <4>2 DEF SlotGood
    <3>5. ASSUME NEW ch \in Channels
          PROVE  new.slots[s].threshold[ch] = ValueOf(lines, ThresholdLines(lines, ch, c, s) \cap (1 .. k + 1))
      <4>1. new.slots[s].threshold[ch] = IF k + 1 \in ThresholdLines(lines, ch, c, s) THEN l.val
                                         ELSE old.slots[s].threshold[ch]
        BY <1>1, <1>9, <1>10, <3>2, <3>3, AssignType DEF Sets, ChannelTokens
      <4>2. ValueOf(lines, ThresholdLines(lines, ch, c, s) \cap (1 .. k + 1)) =
              IF k + 1 \in ThresholdLines(lines, ch, c, s) THEN l.val
              ELSE ValueOf(lines, ThresholdLines(lines, ch, c, s) \cap (1 .. k))
        BY ValueNext DEF l
      <4>3. QED
        BY <3>1, <4>1, <4>2 DEF SlotGood
    <3>6. QED
      BY <3>4, <3>5 DEF SlotGood
  <2>4. CASE s \notin DOMAIN old.slots
    <3>1. \A j \in 1 .. k : ~Names(lines, j, c, s) /\ ~SetsAlone(lines, j, c, s)
      BY <2>4 DEF LineInv, old
    <3>2. s \notin there
      BY <2>4 DEF LineInv, old
    <3>3. ~SetsAlone(lines, k + 1, c, s)
      BY <2>1, <3>1, <3>2 DEF SetFirst
    <3>4. p.crate = c /\ l.tok = "FADC250_SLOT" /\ l.val = s /\ ~Sets(l)
      BY <1>5, <1>6, <1>12, <2>1, <2>4, <3>3
    <3>5. new.slots[s] = old.all
      BY <1>12, <2>1, <2>4, <3>4
    <3>6. ASSUME NEW t \in Fields
          PROVE  About(lines, {t}, c, s) \cap (1 .. k + 1) = AllLines(lines, t, c) \cap (1 .. k)
      <4>1. k + 1 \notin About(lines, {t}, c, s)
        BY <1>8, <1>10, <3>4 DEF Sets
      <4>2. ASSUME NEW j \in 1 .. k PROVE j \in About(lines, {t}, c, s) <=> j \in AllLines(lines, t, c)
        <5>1. ~(Sets(lines[j]) /\ CrateAt(lines, j) = c /\ SlotAt(lines, j) = s)
          BY <3>1 DEF SetsAlone
        <5>2. lines[j].tok = t => Sets(lines[j]) /\ lines[j].tok \notin ChannelTokens
          BY <1>10 DEF Sets, Fields, ChannelTokens
        <5>3. QED
          BY <5>1, <5>2 DEF About, AllLines
      <4> DEFINE X == About(lines, {t}, c, s)
                 Y == AllLines(lines, t, c)
      <4>3. k + 1 \notin X /\ \A j \in 1 .. k : j \in X <=> j \in Y
        BY <4>1, <4>2
      <4> HIDE DEF X, Y
      <4>4. X \cap (1 .. k + 1) = Y \cap (1 .. k)
        BY <4>3
      <4>5. QED
        BY <4>4 DEF X, Y
    <3>7. ASSUME NEW ch \in Channels
          PROVE  ThresholdLines(lines, ch, c, s) \cap (1 .. k + 1) = AllLines(lines, "TET", c) \cap (1 .. k)
      <4>1. k + 1 \notin ThresholdLines(lines, ch, c, s)
        BY <1>9, <1>10, <3>4
      <4>2. ASSUME NEW j \in 1 .. k
            PROVE j \in ThresholdLines(lines, ch, c, s) <=> j \in AllLines(lines, "TET", c)
        BY <3>1 DEF ThresholdLines, About, AllLines, SetsAlone, Sets, SlotTokens, ChannelTokens
      <4>3. QED
        BY <4>1, <4>2
    <3>8. AllGood(lines, k, c, old.all)
      BY DEF LineInv, old
    <3>9. QED
      BY <3>5, <3>6, <3>7, <3>8 DEF SlotGood, AllGood
  <2>5. QED
    BY <2>3, <2>4
<1>16. QED
  BY <1>4, <1>11, <1>13, <1>14, <1>15 DEF LineInv, q, l, new
\* A configuration nothing has been read into.
Unset(cf) ==
  \A c \in Crates : /\ cf.crates[c].all = ZeroSlot
                    /\ \A s \in DOMAIN cf.crates[c].slots : cf.crates[c].slots[s] = ZeroSlot

\* All lines.
LEMMA AfterLines ==
  ASSUME NEW cf \in ConfType, Unset(cf), NEW lines \in Seq(Lines),
         NEW c \in Crates, NEW s \in Int \ {All}
  PROVE  \E p \in ParserType :
           /\ Parse_raw_data(cf, lines) = p.conf
           /\ LineInv(lines, Len(lines), c, s, DOMAIN cf.crates[c].slots, p)
<1> DEFINE n == Len(lines)
           there == DOMAIN cf.crates[c].slots
<1>1. n \in Nat /\ DOMAIN lines = 1 .. n
  OBVIOUS
<1>2. PICK after : IsParse(after, cf, lines)
  BY ParseRuns
<1>3. /\ after[0] = Parser(cf) /\ Parse_raw_data(cf, lines) = after[n].conf
      /\ \A k \in 0 .. n : after[k] \in ParserType
      /\ \A k \in 1 .. n : after[k] = ParseLine(after[k - 1], lines[k])
  BY <1>2 DEF IsParse
<1> DEFINE S == {k \in 0 .. n : LineInv(lines, k, c, s, there, after[k])}
<1>4. 0 \in S
  <2>1. Parser(cf).conf = cf /\ Parser(cf).crate = Outside /\ Parser(cf).slot = All
    BY DEF Parser
  <2>2. CrateAt(lines, 0) = Outside /\ SlotAt(lines, 0) = All
    BY CrateNext
  <2>3. \A X : ValueOf(lines, X \cap (1 .. 0)) = 0
    BY DEF ValueOf
  <2>4. /\ \A t \in Fields : ZeroSlot[t] = 0
        /\ \A ch \in Channels : ZeroSlot.threshold[ch] = 0
    BY DEF ZeroSlot, Fields
  <2>5. AllGood(lines, 0, c, ZeroSlot) /\ SlotGood(lines, 0, c, s, ZeroSlot)
    BY <2>3, <2>4 DEF AllGood, SlotGood
  <2>6. LineInv(lines, 0, c, s, there, Parser(cf))
    BY <2>1, <2>2, <2>5 DEF LineInv, Unset
  <2>7. QED
    BY <1>1, <1>3, <2>6
<1>5. \A k \in 1 .. n : k - 1 \in S => k \in S
  <2>1. SUFFICES ASSUME NEW k \in 1 .. n, LineInv(lines, k - 1, c, s, there, after[k - 1])
                 PROVE  LineInv(lines, k, c, s, there, after[k])
    BY <1>1
  <2>2. k - 1 \in Nat /\ (k - 1) + 1 = k /\ k \in DOMAIN lines /\ after[k - 1] \in ParserType
    BY <1>1, <1>3
  <2> HIDE DEF there
  <2>3. LineInv(lines, (k - 1) + 1, c, s, there, ParseLine(after[k - 1], lines[(k - 1) + 1]))
    BY <2>1, <2>2, LineStep
  <2>4. QED
    BY <1>3, <2>2, <2>3
<1> HIDE DEF S
<1>6. n \in S
  <2> HIDE DEF n
  <2>1. n \in Nat
    BY <1>1
  <2>2. \A i \in 0 .. n : i \in S
    BY <1>4, <1>5, <2>1, UpTo
  <2>3. QED
    BY <2>1, <2>2
<1>7. QED
  BY <1>1, <1>3, <1>6 DEF S

\* After the lines a slot has what the last lines about it say, if it was there or was
\* named before it was set; a slot that is not there has not been named.
LEMMA SlotAfterLines ==
  ASSUME NEW cf \in ConfType, Unset(cf), NEW lines \in Seq(Lines),
         NEW c \in Crates, NEW s \in Int \ {All},
         s \in DOMAIN cf.crates[c].slots \/ NamedFirst(lines, c, s)
  PROVE  LET crate == Parse_raw_data(cf, lines).crates[c]
         IN  /\ s \in DOMAIN crate.slots
             /\ \A t \in Fields : crate.slots[s][t] = ValueOf(lines, About(lines, {t}, c, s))
             /\ \A ch \in Channels :
                  crate.slots[s].threshold[ch] = ValueOf(lines, ThresholdLines(lines, ch, c, s))
<1> DEFINE n == Len(lines)
           there == DOMAIN cf.crates[c].slots
<1>1. PICK p \in ParserType : Parse_raw_data(cf, lines) = p.conf /\ LineInv(lines, n, c, s, there, p)
  BY AfterLines
<1>2. n \in Nat /\ DOMAIN lines = 1 .. n
  OBVIOUS
<1>3. ASSUME s \notin there
      PROVE  \E k \in 1 .. n : /\ Names(lines, k, c, s)
                               /\ \A j \in 1 .. k - 1 : ~SetsAlone(lines, j, c, s)
  <2>1. PICK k \in 1 .. n : /\ lines[k] = Line("FADC250_SLOT", s, 0) /\ CrateAt(lines, k) = c
                            /\ \A j \in 1 .. (k - 1) :
                                 ~(lines[j].tok \in SlotTokens \cup ChannelTokens /\ CrateAt(lines, j) = c
                                     /\ SlotAt(lines, j) = s)
    BY <1>2, <1>3 DEF NamedFirst
  <2>2. QED
    BY <2>1 DEF Names, SetsAlone, Sets, Line
<1>4. s \in DOMAIN p.conf.crates[c].slots
  BY <1>1, <1>3 DEF LineInv
<1>5. ~SetFirst(lines, n, c, s, there)
  <2>1. SUFFICES ASSUME s \notin there, NEW j \in 1 .. n, SetsAlone(lines, j, c, s),
                        \A i \in 1 .. j - 1 : ~Names(lines, i, c, s)
                 PROVE  FALSE
    BY DEF SetFirst
  <2>2. PICK k \in 1 .. n : Names(lines, k, c, s) /\ \A i \in 1 .. k - 1 : ~SetsAlone(lines, i, c, s)
    BY <1>3, <2>1
  <2>3. k # j
    BY <2>1, <2>2 DEF Names, SetsAlone, Sets, SlotTokens, ChannelTokens
  <2>4. k < j => k \in 1 .. j - 1
    BY <1>2
  <2>5. j < k => j \in 1 .. k - 1
    BY <1>2
  <2>6. k < j \/ j < k
    BY <1>2, <2>3
  <2>7. QED
    BY <2>1, <2>2, <2>4, <2>5, <2>6
<1>6. SlotGood(lines, n, c, s, p.conf.crates[c].slots[s])
  BY <1>1, <1>4, <1>5 DEF LineInv
<1>7. /\ \A t \in Fields : About(lines, {t}, c, s) \cap (1 .. n) = About(lines, {t}, c, s)
      /\ \A ch \in Channels : ThresholdLines(lines, ch, c, s) \cap (1 .. n) = ThresholdLines(lines, ch, c, s)
  BY <1>2 DEF About, ThresholdLines
<1>8. QED
  BY <1>1, <1>4, <1>6, <1>7 DEF SlotGood

\* A slot stays when lines are read.
LEMMA SlotsStay ==
  ASSUME NEW cf \in ConfType, NEW lines \in Seq(Lines), NEW c \in Crates
  PROVE  /\ Parse_raw_data(cf, lines) \in ConfType
         /\ DOMAIN cf.crates[c].slots \subseteq DOMAIN Parse_raw_data(cf, lines).crates[c].slots
<1> DEFINE n == Len(lines)
<1>1. n \in Nat /\ \A k \in 1 .. n : lines[k] \in Lines
  OBVIOUS
<1>2. PICK after : IsParse(after, cf, lines)
  BY ParseRuns
<1>3. /\ after[0] = Parser(cf) /\ Parse_raw_data(cf, lines) = after[n].conf
      /\ \A k \in 0 .. n : after[k] \in ParserType
      /\ \A k \in 1 .. n : after[k] = ParseLine(after[k - 1], lines[k])
  BY <1>2 DEF IsParse
<1> DEFINE Has(p) == DOMAIN cf.crates[c].slots \subseteq DOMAIN p.conf.crates[c].slots
           S == {k \in 0 .. n : Has(after[k])}
<1>4. 0 \in S
  BY <1>1, <1>3 DEF Parser
<1>5. \A k \in 1 .. n : k - 1 \in S => k \in S
  <2>1. SUFFICES ASSUME NEW k \in 1 .. n, Has(after[k - 1]) PROVE Has(after[k])
    BY <1>1
  <2> DEFINE p == after[k - 1]
             l == lines[k]
             q == after[k]
             old == p.conf.crates[c]
             new == q.conf.crates[c]
  <2>2. p \in ParserType /\ l \in Lines /\ q = ParseLine(p, l)
    BY <1>1, <1>3
  <2>3. old \in CrateType /\ p.slot \in Int /\ l.val \in Int
    <3> HIDE DEF p, l
    <3>1. QED
      BY <2>2 DEF ParserType, ConfType, Lines
  <2>4. new = IF p.crate # c THEN old
              ELSE IF l.tok = "FADC250_SLOT" THEN NameSlot(old, l.val)
              ELSE IF Sets(l) THEN SetSlot(old, p.slot, l)
              ELSE old
    <3> HIDE DEF p, l, q
    <3>1. QED
      BY <2>2, ParseLineEffect
  <2>5. DOMAIN old.slots \subseteq DOMAIN new.slots
    <3> HIDE DEF p, l, q, old, new
    <3>1. DOMAIN old.slots \subseteq DOMAIN NameSlot(old, l.val).slots
      BY <2>3, NameSlotEffect
    <3>2. Sets(l) => DOMAIN old.slots \subseteq DOMAIN SetSlot(old, p.slot, l).slots
      BY <2>2, <2>3, SetSlotEffect DEF Sets
    <3>3. QED
      BY <2>4, <3>1, <3>2
  <2>6. QED
    BY <2>1, <2>5
<1> HIDE DEF S
<1>6. n \in S
  <2> HIDE DEF n
  <2>1. n \in Nat
    BY <1>1
  <2>2. \A i \in 0 .. n : i \in S
    BY <1>4, <1>5, <2>1, UpTo
  <2>3. QED
    BY <2>1, <2>2
<1>7. after[n].conf \in ConfType
  BY <1>1, <1>3 DEF ParserType
<1>8. QED
  BY <1>3, <1>6, <1>7 DEF S
\* The slots of the DAQ map are there, and nothing else changes.
LEMMA MapsEffect ==
  ASSUME NEW conf0 \in ConfType, NEW channels,
         channels \subseteq Crates \X (Int \ {All}) \X Channels
  PROVE  LET new == InitDAQMaps(conf0, channels)
         IN  /\ new \in ConfType
             /\ \A d \in channels : d[2] \in DOMAIN new.crates[d[1]].slots
             /\ \A c \in Crates :
                  /\ new.crates[c].all = conf0.crates[c].all
                  /\ DOMAIN conf0.crates[c].slots \subseteq DOMAIN new.crates[c].slots
                  /\ \A s \in DOMAIN new.crates[c].slots :
                       /\ new.crates[c].slots[s] = At(conf0.crates[c].slots, s)
                       /\ s \in DOMAIN conf0.crates[c].slots \/ \E d \in channels : d[1] = c /\ d[2] = s
<1> DEFINE Mapped(c) == {ch[2] : ch \in {d \in channels : d[1] = c}}
           Slots(c) == [s \in Mapped(c) \cup DOMAIN conf0.crates[c].slots |-> At(conf0.crates[c].slots, s)]
           crates == [c \in Crates |-> [conf0.crates[c] EXCEPT !.slots = Slots(c)]]
           new == InitDAQMaps(conf0, channels)
<1>1. new = [conf0 EXCEPT !.crates = crates]
  BY DEF InitDAQMaps
<1>2. \A c \in Crates : /\ conf0.crates[c] \in CrateType /\ conf0.crates[c].all \in SlotType
                        /\ conf0.crates[c].slots \in SlotMaps
  BY DEF ConfType, CrateType
<1>3. ASSUME NEW c \in Crates
      PROVE  /\ [conf0.crates[c] EXCEPT !.slots = Slots(c)] \in CrateType
             /\ [conf0.crates[c] EXCEPT !.slots = Slots(c)].slots = Slots(c)
             /\ [conf0.crates[c] EXCEPT !.slots = Slots(c)].all = conf0.crates[c].all
  <2>1. DOMAIN conf0.crates[c].slots \in SUBSET (Int \ {All})
    BY <1>2, SlotsTyped
  <2>2. Mapped(c) \in SUBSET (Int \ {All})
    OBVIOUS
  <2>3. \A s \in Mapped(c) \cup DOMAIN conf0.crates[c].slots : At(conf0.crates[c].slots, s) \in SlotType
    BY <1>2, SlotsTyped, ZeroTyped DEF At
  <2> DEFINE D == Mapped(c) \cup DOMAIN conf0.crates[c].slots
  <2>4. D \in SUBSET (Int \ {All})
    BY <2>1, <2>2
  <2>5. Slots(c) \in [D -> SlotType]
    BY <2>3
  <2> HIDE DEF D, Slots
  <2>6. Slots(c) \in SlotMaps
    BY <2>4, <2>5 DEF SlotMaps
  <2>7. QED
    BY <1>2, <2>6 DEF CrateType
<1>4. crates \in [Crates -> CrateType]
  BY <1>3
<1>5. \A c \in Crates : /\ crates[c].slots = Slots(c) /\ crates[c].all = conf0.crates[c].all
  BY <1>3
<1>6. \A c \in Crates : /\ DOMAIN Slots(c) = Mapped(c) \cup DOMAIN conf0.crates[c].slots
                        /\ \A s \in DOMAIN Slots(c) : Slots(c)[s] = At(conf0.crates[c].slots, s)
  OBVIOUS
<1> HIDE DEF crates, new, Slots
<1>7. new \in ConfType /\ new.crates = crates
  BY <1>1, <1>4 DEF ConfType
<1>8. \A d \in channels : d[1] \in Crates /\ d[2] \in Mapped(d[1])
  OBVIOUS
<1>9. \A d \in channels : d[2] \in DOMAIN new.crates[d[1]].slots
  BY <1>5, <1>6, <1>7, <1>8
<1>10. \A c \in Crates :
         /\ new.crates[c].all = conf0.crates[c].all
         /\ new.crates[c].slots = Slots(c)
  BY <1>5, <1>7
<1>11. ASSUME NEW c \in Crates, NEW s \in DOMAIN new.crates[c].slots
       PROVE  /\ new.crates[c].slots[s] = At(conf0.crates[c].slots, s)
              /\ s \in DOMAIN conf0.crates[c].slots \/ \E d \in channels : d[1] = c /\ d[2] = s
  <2>1. s \in Mapped(c) => \E d \in channels : d[1] = c /\ d[2] = s
    OBVIOUS
  <2> HIDE DEF Mapped
  <2>2. DOMAIN new.crates[c].slots = DOMAIN Slots(c) /\ new.crates[c].slots[s] = Slots(c)[s]
    BY <1>10
  <2>3. s \in Mapped(c) \cup DOMAIN conf0.crates[c].slots
    BY <1>6, <2>2
  <2>4. Slots(c)[s] = At(conf0.crates[c].slots, s)
    BY <1>6, <2>2
  <2>5. QED
    BY <2>1, <2>2, <2>3, <2>4
<1>12. \A c \in Crates : DOMAIN conf0.crates[c].slots \subseteq DOMAIN new.crates[c].slots
  BY <1>6, <1>10
<1>13. QED
  BY <1>7, <1>9, <1>10, <1>11, <1>12 DEF new

\* EmptyConf has nothing in it.
LEMMA EmptyConfUnset == EmptyConf \in ConfType /\ Unset(EmptyConf)
<1>1. NoSlots \in [{} -> SlotType] /\ [t \in {} |-> 0] \in [{} -> Int]
  BY DEF NoSlots
<1>2. NoSlots \in SlotMaps /\ [t \in {} |-> 0] \in VtpMaps
  BY <1>1 DEF SlotMaps, VtpMaps
<1>3. DOMAIN NoSlots = {}
  BY DEF NoSlots
<1> DEFINE crates == [c \in Crates |-> [all |-> ZeroSlot, slots |-> NoSlots]]
<1>4. crates \in [Crates -> CrateType]
  BY <1>2, ZeroTyped DEF CrateType
<1>5. EmptyConf = [vtp |-> [t \in {} |-> 0], crates |-> crates]
  BY DEF EmptyConf
<1>6. \A c \in Crates : crates[c].all = ZeroSlot /\ crates[c].slots = NoSlots
  OBVIOUS
<1> HIDE DEF crates
<1>7. QED
  BY <1>2, <1>3, <1>4, <1>5, <1>6 DEF ConfType, Unset

-----------------------------------------------------------------------------
(* The settings of a running program.                                      *)

\* Where the program is; the settings have their types, those of the slots of the map
\* are there, and after one parse they are what the parse made.
ConfInv ==
  /\ setup \in Setups
  /\ at \in [file : 0 .. Len(setup.files), next : Nat \ {0}]
  /\ pc # "closed" => at.file # 0
  /\ conf \in ConfType
  /\ \A d \in DOMAIN setup.daq : d[2] \in DOMAIN conf.crates[d[1]].slots
  /\ parsed \in Seq(Seq(Lines))
  /\ setup.from = "file" => parsed # <<>>
  /\ parsed = <<>> => conf = InitDAQMaps(EmptyConf, DOMAIN setup.daq)
  /\ Len(parsed) = 1 =>
       conf = IF setup.from = "file"
              THEN InitDAQMaps(Parse_raw_data(EmptyConf, parsed[1]), DOMAIN setup.daq)
              ELSE Parse_raw_data(InitDAQMaps(EmptyConf, DOMAIN setup.daq), parsed[1])

\* The setups are what the assumptions say.
LEMMA SetupFacts ==
  ASSUME NEW u \in Setups
  PROVE  /\ u.program \in {"reader", "filter"} /\ u.from \in {"file", "bank"}
         /\ u.lines \in Seq(Lines)
         /\ DOMAIN u.daq \subseteq Crates \X (Int \ {All}) \X Channels
         /\ Len(u.files) \in Nat /\ DOMAIN u.files = 1 .. Len(u.files)
         /\ \A f \in DOMAIN u.files : Len(u.files[f]) \in Nat /\ DOMAIN u.files[f] = 1 .. Len(u.files[f])
  BY SetupsAssumption DEF IsSequence

\* What is at the place that is read next is one of the events of the assumption.
LEMMA EventFacts ==
  ASSUME ConfInv, pc = "loop", ~AtEnd, NEW ev \in Places
  PROVE  /\ ev.kind \in Parsed \cup {"skipped", "bare", "unreadable"}
         /\ ev.kind \in Parsed =>
              /\ ev.lines \in Seq(Lines)
              /\ ev.fadc \in Seq([crate : {37, 39}, slot : Int, chan : Channels, samples : Seq(Nat), beyond : Nat])
              /\ ev.ts.size \in {5, 7} \/ ev.ts = [size |-> 0, bits |-> {}, fcup |-> FALSE]
<1>1. setup \in Setups /\ at.file \in 0 .. Len(setup.files) /\ at.file # 0 /\ at.next \in Nat \ {0}
  BY DEF ConfInv
<1>2. Len(setup.files) \in Nat /\ at.file \in DOMAIN setup.files
  BY <1>1, SetupFacts
<1>3. at.next \in DOMAIN setup.files[at.file]
  BY <1>1, <1>2, SetupFacts DEF AtEnd
<1>4. ev \in EventsAt(setup.files[at.file][at.next])
  BY DEF Places
<1>5. QED
  BY <1>1, <1>2, <1>3, <1>4, EventsAssumption
\* At the start.
LEMMA ConfInit == Init => ConfInv
<1>1. SUFFICES ASSUME Init PROVE ConfInv
  OBVIOUS
<1> DEFINE D == DOMAIN setup.daq
<1>2. setup \in Setups /\ D \subseteq Crates \X (Int \ {All}) \X Channels /\ setup.lines \in Seq(Lines)
  BY <1>1, SetupFacts DEF Init
<1>3. at \in [file : 0 .. Len(setup.files), next : Nat \ {0}] /\ pc = "closed"
  BY <1>1, <1>2, SetupFacts DEF Init
<1>4. EmptyConf \in ConfType
  BY EmptyConfUnset
<1>5. CASE setup.from = "bank" /\ parsed = <<>> /\ conf = InitDAQMaps(EmptyConf, D)
  <2>1. conf \in ConfType /\ \A d \in D : d[2] \in DOMAIN conf.crates[d[1]].slots
    BY <1>2, <1>4, <1>5, MapsEffect
  <2>2. QED
    BY <1>2, <1>3, <1>5, <2>1 DEF ConfInv
<1>6. CASE /\ setup.from = "file" /\ parsed = <<setup.lines>>
           /\ conf = InitDAQMaps(Parse_raw_data(EmptyConf, setup.lines), D)
  <2>1. Parse_raw_data(EmptyConf, setup.lines) \in ConfType
    <3>1. 1 \in Crates
      BY DEF Crates
    <3>2. QED
      BY <1>2, <1>4, <3>1, SlotsStay
  <2>2. conf \in ConfType /\ \A d \in D : d[2] \in DOMAIN conf.crates[d[1]].slots
    BY <1>2, <1>6, <2>1, MapsEffect
  <2>3. parsed \in Seq(Seq(Lines)) /\ parsed # <<>> /\ parsed[1] = setup.lines
    BY <1>2, <1>6
  <2>4. QED
    BY <1>2, <1>3, <1>6, <2>2, <2>3 DEF ConfInv
<1>7. QED
  BY <1>1, <1>5, <1>6 DEF Init

\* Only an event that is read changes the settings.
LEMMA ConfKept ==
  ASSUME Next, ~NextReads
  PROVE  UNCHANGED <<setup, conf, parsed>>
  BY DEF Next, Open, NextFails, Parse, FindGTPClusters, Use, Close, Exit, vars,
         SkipChannel, StartChannel, Search, FinishChannel, ParseReturns, ParseFrame,
         StartSeed, Walk, StoreCluster, ClustersDone, ClusterFrame

\* The place in the files.
LEMMA AtStep ==
  ASSUME ConfInv, Next
  PROVE  /\ setup' = setup
         /\ at' \in [file : 0 .. Len(setup.files), next : Nat \ {0}]
         /\ pc' # "closed" => at'.file # 0
<1>1. setup \in Setups /\ at \in [file : 0 .. Len(setup.files), next : Nat \ {0}]
  BY DEF ConfInv
<1>2. Len(setup.files) \in Nat
  BY <1>1, SetupFacts
<1>3. CASE Open
  BY <1>1, <1>2, <1>3 DEF Open
<1>4. ASSUME NEW ev, pc = "loop", Passes(ev)
      PROVE  at' \in [file : 0 .. Len(setup.files), next : Nat \ {0}] /\ at'.file = at.file
  BY <1>1, <1>4 DEF Passes
<1>5. CASE NextFails
  <2>1. setup' = setup /\ pc = "loop" /\ (at' = at \/ \E ev \in Places : Passes(ev))
    BY <1>5 DEF NextFails
  <2>2. QED
    BY <1>1, <1>4, <2>1 DEF ConfInv
<1>6. CASE NextReads
  <2>1. setup' = setup /\ pc = "loop" /\ \E ev \in Places : Passes(ev)
    BY <1>6 DEF NextReads
  <2>2. QED
    BY <1>1, <1>4, <2>1 DEF ConfInv
<1>7. CASE Parse \/ FindGTPClusters \/ Use \/ Close \/ Exit
  <2>1. setup' = setup /\ at' = at /\ (pc' # "closed" => pc # "closed")
    BY <1>7 DEF Parse, FindGTPClusters, Use, Close, Exit, vars, InParse, Searching,
       SkipChannel, StartChannel, Search, FinishChannel, ParseReturns, ParseFrame,
       StartSeed, Walk, StoreCluster, ClustersDone, ClusterFrame
  <2>2. QED
    BY <1>1, <2>1 DEF ConfInv
<1>8. QED
  BY <1>3, <1>5, <1>6, <1>7 DEF Next

LEMMA ConfStep ==
  ASSUME ConfInv, [Next]_vars
  PROVE  ConfInv'
<1>1. CASE UNCHANGED vars
  BY <1>1 DEF ConfInv, vars
<1>2. CASE Next /\ ~NextReads
  <2>1. setup' = setup /\ conf' = conf /\ parsed' = parsed
    BY <1>2, ConfKept
  <2>2. QED
    BY <1>2, <2>1, AtStep DEF ConfInv
<1>3. CASE NextReads
  <2>1. /\ setup' = setup /\ at' \in [file : 0 .. Len(setup.files), next : Nat \ {0}]
        /\ pc' # "closed" => at'.file # 0
    BY <1>3, AtStep DEF Next
  <2>2. PICK ev \in Places :
          LET has == ev.kind \in Parsed
              lines == IF has /\ setup.from = "bank" THEN ev.lines ELSE <<>>
          IN  /\ conf' = IF lines = <<>> THEN conf ELSE Parse_raw_data(conf, lines)
              /\ parsed' = IF lines = <<>> THEN parsed ELSE Append(parsed, lines)
    BY <1>3 DEF NextReads
  <2> DEFINE lines == IF ev.kind \in Parsed /\ setup.from = "bank" THEN ev.lines ELSE <<>>
  <2>3. pc = "loop" /\ ~AtEnd
    BY <1>3 DEF NextReads
  <2>4. lines \in Seq(Lines) /\ (lines # <<>> => setup.from = "bank")
    BY <2>3, EventFacts
  <2>5. /\ conf' = IF lines = <<>> THEN conf ELSE Parse_raw_data(conf, lines)
        /\ parsed' = IF lines = <<>> THEN parsed ELSE Append(parsed, lines)
    BY <2>2
  <2> HIDE DEF lines
  <2>6. CASE lines = <<>>
    BY <2>1, <2>5, <2>6 DEF ConfInv
  <2>7. CASE lines # <<>>
    <3>1. conf' = Parse_raw_data(conf, lines) /\ parsed' = Append(parsed, lines) /\ setup.from = "bank"
      BY <2>4, <2>5, <2>7
    <3>2. /\ setup \in Setups /\ conf \in ConfType /\ parsed \in Seq(Seq(Lines))
          /\ \A d \in DOMAIN setup.daq : d[1] \in Crates /\ d[2] \in DOMAIN conf.crates[d[1]].slots
          /\ parsed = <<>> => conf = InitDAQMaps(EmptyConf, DOMAIN setup.daq)
      BY SetupFacts DEF ConfInv
    <3>3. conf' \in ConfType
      <4>1. 1 \in Crates
        BY DEF Crates
      <4>2. QED
        BY <2>4, <3>1, <3>2, <4>1, SlotsStay
    <3>4. \A d \in DOMAIN setup.daq : d[2] \in DOMAIN conf'.crates[d[1]].slots
      BY <2>4, <3>1, <3>2, SlotsStay
    <3>5. parsed' \in Seq(Seq(Lines)) /\ parsed' # <<>>
      BY <2>4, <3>1, <3>2
    <3>6. Len(parsed') = 1 => parsed = <<>> /\ parsed'[1] = lines
      BY <2>4, <3>1, <3>2
    <3>7. QED
      BY <2>1, <3>1, <3>2, <3>3, <3>4, <3>5, <3>6 DEF ConfInv
  <2>8. QED
    BY <2>6, <2>7
<1>4. QED
  BY <1>1, <1>2, <1>3

\* What TriggerConfig knows of a slot is what the last line about it says.
LEMMA ConfIsLastLine == ConfInv => LastLineWins
<1>1. SUFFICES ASSUME ConfInv, NEW c \in Crates, NEW s \in DOMAIN conf.crates[c].slots,
                      Len(parsed) = 1,
                      \/ setup.from = "bank" /\ \E d \in DOMAIN setup.daq : d[1] = c /\ d[2] = s
                      \/ NamedFirst(parsed[1], c, s)
               PROVE  /\ \A t \in Fields : conf.crates[c].slots[s][t] = ValueOf(parsed[1], About(parsed[1], {t}, c, s))
                      /\ \A ch \in Channels : conf.crates[c].slots[s].threshold[ch] =
                                                ValueOf(parsed[1], ThresholdLines(parsed[1], ch, c, s))
  BY DEF LastLineWins, Fields, ThresholdLines
<1> DEFINE lines == parsed[1]
           D == DOMAIN setup.daq
<1>2. /\ setup \in Setups /\ conf \in ConfType /\ lines \in Seq(Lines)
      /\ conf = IF setup.from = "file" THEN InitDAQMaps(Parse_raw_data(EmptyConf, lines), D)
                ELSE Parse_raw_data(InitDAQMaps(EmptyConf, D), lines)
  BY <1>1 DEF ConfInv
<1>3. D \subseteq Crates \X (Int \ {All}) \X Channels
  BY <1>2, SetupFacts
<1>4. s \in Int \ {All}
  <2>1. conf.crates[c].slots \in SlotMaps
    BY <1>2 DEF ConfType, CrateType
  <2>2. QED
    BY <2>1, SlotsTyped
<1>5. EmptyConf \in ConfType /\ Unset(EmptyConf)
  BY EmptyConfUnset
<1> HIDE DEF lines, D
<1>6. CASE setup.from = "file"
  <2> DEFINE read1 == Parse_raw_data(EmptyConf, lines)
  <2>1. NamedFirst(lines, c, s) /\ conf = InitDAQMaps(read1, D)
    BY <1>1, <1>2, <1>6 DEF lines
  <2>2. read1 \in ConfType
    BY <1>2, <1>5, SlotsStay
  <2>3. /\ s \in DOMAIN read1.crates[c].slots
        /\ \A t \in Fields : read1.crates[c].slots[s][t] = ValueOf(lines, About(lines, {t}, c, s))
        /\ \A ch \in Channels : read1.crates[c].slots[s].threshold[ch] =
                                  ValueOf(lines, ThresholdLines(lines, ch, c, s))
    BY <1>2, <1>4, <1>5, <2>1, SlotAfterLines
  <2> HIDE DEF read1
  <2>4. conf.crates[c].slots[s] = At(read1.crates[c].slots, s)
    BY <1>1, <1>3, <2>1, <2>2, MapsEffect
  <2>5. QED
    BY <2>3, <2>4 DEF At, lines
<1>7. CASE setup.from # "file"
  <2> DEFINE start == InitDAQMaps(EmptyConf, D)
  <2>1. start \in ConfType /\ conf = Parse_raw_data(start, lines)
    BY <1>2, <1>3, <1>5, <1>7, MapsEffect
  <2>2. /\ \A k \in Crates : /\ start.crates[k].all = EmptyConf.crates[k].all
                             /\ \A t \in DOMAIN start.crates[k].slots :
                                  start.crates[k].slots[t] = At(EmptyConf.crates[k].slots, t)
        /\ \A d \in D : d[2] \in DOMAIN start.crates[d[1]].slots
    BY <1>3, <1>5, MapsEffect
  <2> HIDE DEF start
  <2>3. Unset(start)
    BY <1>5, <2>2 DEF Unset, At
  <2>4. s \in DOMAIN start.crates[c].slots \/ NamedFirst(lines, c, s)
    BY <1>1, <2>2 DEF lines, D
  <2>5. QED
    BY <1>2, <1>4, <2>1, <2>3, <2>4, SlotAfterLines DEF lines
<1>8. QED
  BY <1>6, <1>7

\* After Parse_raw_data each setting of a slot has the value of the last line about it,
\* whatever the lines are and in whatever order they come.
THEOREM SettingsAreTheLast == Spec => []LastLineWins
<1>1. Init => ConfInv
  BY ConfInit
<1>2. ConfInv /\ [Next]_vars => ConfInv'
  BY ConfStep
<1>3. ConfInv => LastLineWins
  BY ConfIsLastLine
<1>4. QED
  BY <1>1, <1>2, <1>3, PTL DEF Spec
-----------------------------------------------------------------------------
(* The events HPS_Trigger_Filter copies.                                   *)

EventsOf(u) ==
  UNION {UNION {EventsAt(u.files[f][i]) : i \in DOMAIN u.files[f]} : f \in DOMAIN u.files}
IsRead(ev) == ev.kind \notin {"unreadable", "bare"}
TsOf(ev) == IF ev.kind \in Parsed THEN ev.ts ELSE NoTree.ts
Asked(ev) ==
  \/ IF setup.filter.exclusive THEN TsOf(ev).bits = setup.filter.bits
     ELSE \E b \in setup.filter.bits : b \in TsOf(ev).bits
  \/ setup.filter.fcup /\ TsOf(ev).fcup
Wanted(r) == {i \in DOMAIN r : IsRead(r[i].ev) /\ Asked(r[i].ev)}
NoneOf2016(r) == \A i \in DOMAIN r : r[i].ev.kind \in Parsed => r[i].ev.ts.size # 5

\* o has the events of r at the positions w, in their order
Copies(o, r, w) ==
  /\ Len(o) = Cardinality(w)
  /\ \A i \in w : o[Cardinality({j \in w : j <= i})] = r[i].ev

\* an event that has been read and not yet looked at
Pending == pc = "returned" /\ stat = "S_SUCCESS"
LookedAt == IF Pending THEN Len(read) - 1 ELSE Len(read)

FilterInv ==
  setup.program = "filter" =>
    /\ pc \in {"closed", "loop", "returned"} /\ ~ecal.is_configured
    /\ read \in Seq([file : Nat, ev : EventsOf(setup)]) /\ out \in Seq(EventsOf(setup))
    /\ Pending => /\ Len(read) > 0 /\ current = read[Len(read)].ev
                  /\ tree.ts = TsOf(current) /\ IsRead(current)
    /\ NoneOf2016(read) => Copies(out, read, Wanted(read) \cap (1 .. LookedAt))
    /\ \A i \in DOMAIN read : read[i].file <= at.file
    /\ \A i, j \in DOMAIN read : (i < j /\ read[i].file = read[j].file) => IsRead(read[i].ev)
    /\ (pc = "loop" \/ Pending) =>
         \A i \in DOMAIN read : read[i].file = at.file => IsRead(read[i].ev)

\* One more event is copied.
LEMMA CopyOne ==
  ASSUME NEW E, NEW o \in Seq(E), NEW r, NEW n \in Nat, NEW w, w \subseteq 1 .. n,
         Copies(o, r, w), r[n + 1].ev \in E
  PROVE  Copies(Append(o, r[n + 1].ev), r, w \cup {n + 1})
<1> DEFINE e == r[n + 1].ev
           v == w \cup {n + 1}
<1>1. IsFiniteSet(w) /\ Cardinality(w) \in Nat /\ n + 1 \notin w
  <2>1. IsFiniteSet(1 .. n)
    BY FS_Interval
  <2>2. IsFiniteSet(w)
    BY <2>1, FS_Subset
  <2>3. n + 1 \notin w
    OBVIOUS
  <2>4. QED
    BY <2>2, <2>3, FS_CardinalityType
<1>2. Cardinality(v) = Cardinality(w) + 1
  BY <1>1, FS_AddElement
<1>3. Len(o) = Cardinality(w)
  BY DEF Copies
<1>4. Len(Append(o, e)) = Cardinality(v)
  BY <1>2, <1>3
<1>5. ASSUME NEW i \in v PROVE Append(o, e)[Cardinality({j \in v : j <= i})] = r[i].ev
  <2>1. CASE i = n + 1
    <3>1. {j \in v : j <= i} = v
      <4>1. \A j \in w : j \in 1 .. n
        OBVIOUS
      <4>2. \A j \in v : j <= n + 1
        BY <4>1
      <4> HIDE DEF v
      <4>3. QED
        BY <2>1, <4>2
    <3>2. Append(o, e)[Len(o) + 1] = e
      OBVIOUS
    <3> HIDE DEF v, e
    <3>3. QED
      BY <1>2, <1>3, <2>1, <3>1, <3>2 DEF e
  <2>2. CASE i \in w
    <3> DEFINE below == {j \in w : j <= i}
    <3>1. {j \in v : j <= i} = below
      BY <2>2
    <3>2. below \subseteq w /\ i \in below
      BY <2>2
    <3> HIDE DEF below, v, e
    <3>3. IsFiniteSet(below) /\ Cardinality(below) \in Nat /\ Cardinality(below) <= Cardinality(w)
      BY <1>1, <3>2, FS_Subset, FS_CardinalityType
    <3>4. Cardinality(below) # 0
      BY <3>2, <3>3, FS_EmptySet
    <3>5. Cardinality(below) \in 1 .. Len(o)
      BY <1>1, <1>3, <3>3, <3>4
    <3>6. o[Cardinality(below)] = r[i].ev
      BY <2>2 DEF Copies, below
    <3>7. e \in E
      BY DEF e
    <3>8. Append(o, e)[Cardinality(below)] = o[Cardinality(below)]
      BY <3>5, <3>7
    <3>9. QED
      BY <3>1, <3>6, <3>8
  <2>3. QED
    BY <2>1, <2>2
<1>6. QED
  BY <1>4, <1>5 DEF Copies

\* One more event is read: the wanted ones among the earlier are the same.
LEMMA ReadOne ==
  ASSUME NEW R, NEW r \in Seq(R), NEW x \in R, NEW o
  PROVE  LET q == Append(r, x)
         IN  /\ Wanted(q) \cap (1 .. Len(r)) = Wanted(r) \cap (1 .. Len(r))
             /\ NoneOf2016(q) => NoneOf2016(r)
             /\ Copies(o, r, Wanted(r) \cap (1 .. Len(r))) => Copies(o, q, Wanted(q) \cap (1 .. Len(r)))
             /\ ~(IsRead(x.ev)) => Wanted(q) \cap (1 .. Len(q)) = Wanted(q) \cap (1 .. Len(r))
<1> DEFINE q == Append(r, x)
<1>1. /\ Len(r) \in Nat /\ DOMAIN r = 1 .. Len(r) /\ DOMAIN q = 1 .. Len(r) + 1 /\ Len(q) = Len(r) + 1
      /\ \A i \in 1 .. Len(r) : q[i] = r[i]
      /\ q[Len(r) + 1] = x
  OBVIOUS
<1> HIDE DEF q
<1>2. Wanted(q) \cap (1 .. Len(r)) = Wanted(r) \cap (1 .. Len(r))
  BY <1>1 DEF Wanted
<1>3. NoneOf2016(q) => NoneOf2016(r)
  BY <1>1 DEF NoneOf2016
<1>4. Copies(o, r, Wanted(r) \cap (1 .. Len(r))) => Copies(o, q, Wanted(q) \cap (1 .. Len(r)))
  BY <1>1, <1>2 DEF Copies
<1>5. ~(IsRead(x.ev)) => Wanted(q) \cap (1 .. Len(q)) = Wanted(q) \cap (1 .. Len(r))
  <2>1. SUFFICES ASSUME ~IsRead(x.ev) PROVE Wanted(q) \cap (1 .. Len(q)) = Wanted(q) \cap (1 .. Len(r))
    OBVIOUS
  <2>2. Len(r) + 1 \notin Wanted(q)
    BY <1>1, <2>1 DEF Wanted
  <2>3. QED
    BY <1>1, <2>2
<1>6. QED
  BY <1>2, <1>3, <1>4, <1>5 DEF q

\* The trigger of an event that is not from 2015 or 2016.
LEMMA MatchesAsked ==
  ASSUME NEW ev, NEW bits,
         ev.kind \in Parsed => /\ ev.ts.size # 5
                               /\ \/ ev.ts.size \in {5, 7}
                                  \/ ev.ts = [size |-> 0, bits |-> {}, fcup |-> FALSE],
         bits \in TriggerBits(TsOf(ev))
  PROVE  Matches(TsOf(ev), bits) <=> Asked(ev)
<1> DEFINE ts == TsOf(ev)
<1>1. ts.size = 7 \/ ts = [size |-> 0, bits |-> {}, fcup |-> FALSE]
  BY DEF TsOf, NoTree
<1> HIDE DEF ts
<1>2. bits = ts.bits
  BY <1>1 DEF TriggerBits, ts
<1>3. IsFCup(ts) <=> ts.fcup
  BY <1>1 DEF IsFCup
<1>4. QED
  BY <1>2, <1>3 DEF Matches, Asked, ts
\* What is read is one of the events of the files.
LEMMA PlaceEvents ==
  ASSUME ConfInv, pc = "loop", ~AtEnd, NEW ev \in Places
  PROVE  ev \in EventsOf(setup)
<1>1. setup \in Setups /\ at.file \in 0 .. Len(setup.files) /\ at.file # 0 /\ at.next \in Nat \ {0}
  BY DEF ConfInv
<1>2. Len(setup.files) \in Nat /\ at.file \in DOMAIN setup.files
  BY <1>1, SetupFacts
<1>3. at.next \in DOMAIN setup.files[at.file]
  BY <1>1, <1>2, SetupFacts DEF AtEnd
<1>4. QED
  BY <1>2, <1>3 DEF Places, EventsOf

LEMMA FilterInit == Init => FilterInv
<1>1. SUFFICES ASSUME Init PROVE FilterInv
  OBVIOUS
<1>2. /\ pc = "closed" /\ ecal.is_configured = FALSE /\ read = <<>> /\ out = <<>>
  BY <1>1 DEF Init
<1>3. Wanted(read) \cap (1 .. LookedAt) = {}
  BY <1>2 DEF Wanted
<1>4. Copies(out, read, {})
  BY <1>2, FS_EmptySet DEF Copies
<1>5. /\ read \in Seq([file : Nat, ev : EventsOf(setup)]) /\ out \in Seq(EventsOf(setup))
      /\ DOMAIN read = {} /\ ~Pending /\ pc \in {"closed", "loop", "returned"} /\ pc # "loop"
  BY <1>2 DEF Pending
<1>6. QED
  BY <1>2, <1>3, <1>4, <1>5 DEF FilterInv

\* An event is read: it is the last, and the files' conditions hold.
LEMMA FilterRead ==
  ASSUME ConfInv, FilterInv, setup.program = "filter", setup' = setup,
         pc = "loop", ~AtEnd, NEW ev \in Places, Passes(ev)
  PROVE  /\ read' \in Seq([file : Nat, ev : EventsOf(setup)])
         /\ Len(read') = Len(read) + 1 /\ Len(read) \in Nat /\ read'[Len(read')].ev = ev
         /\ NoneOf2016(read)' => Copies(out, read', Wanted(read)' \cap (1 .. Len(read)))
         /\ ~IsRead(ev) => Wanted(read)' \cap (1 .. Len(read')) = Wanted(read)' \cap (1 .. Len(read))
         /\ \A i \in DOMAIN read' : read'[i].file <= at'.file
         /\ \A i, j \in DOMAIN read' : (i < j /\ read'[i].file = read'[j].file) => IsRead(read'[i].ev)
         /\ IsRead(ev) => \A i \in DOMAIN read' : read'[i].file = at'.file => IsRead(read'[i].ev)
<1> DEFINE R == [file : Nat, ev : EventsOf(setup)]
           x == [file |-> at.file, ev |-> ev]
<1>1. /\ read \in Seq(R) /\ (NoneOf2016(read) => Copies(out, read, Wanted(read) \cap (1 .. LookedAt)))
      /\ \A i \in DOMAIN read : read[i].file <= at.file
      /\ \A i, j \in DOMAIN read : (i < j /\ read[i].file = read[j].file) => IsRead(read[i].ev)
      /\ \A i \in DOMAIN read : read[i].file = at.file => IsRead(read[i].ev)
  BY DEF FilterInv
<1>2. LookedAt = Len(read)
  BY DEF LookedAt, Pending
<1>3. at.file \in Nat /\ at'.file = at.file
  <2>1. at \in [file : 0 .. Len(setup.files), next : Nat \ {0}] /\ Len(setup.files) \in Nat
    BY SetupFacts DEF ConfInv
  <2>2. QED
    BY <2>1 DEF Passes
<1>4. x \in R
  BY <1>3, PlaceEvents
<1>5. read' = Append(read, x)
  BY DEF Passes
<1>6. x.ev = ev /\ x.file = at.file
  OBVIOUS
<1> HIDE DEF R, x
<1>7. /\ Len(read) \in Nat /\ DOMAIN read = 1 .. Len(read) /\ DOMAIN read' = 1 .. Len(read) + 1
      /\ Len(read') = Len(read) + 1 /\ read' \in Seq(R)
      /\ \A i \in 1 .. Len(read) : read'[i] = read[i]
      /\ read'[Len(read) + 1] = x
  BY <1>1, <1>4, <1>5
<1>8. /\ NoneOf2016(read') => NoneOf2016(read)
      /\ Copies(out, read, Wanted(read) \cap (1 .. Len(read))) => Copies(out, read', Wanted(read') \cap (1 .. Len(read)))
      /\ ~IsRead(x.ev) => Wanted(read') \cap (1 .. Len(read')) = Wanted(read') \cap (1 .. Len(read))
  <2> DEFINE y == Append(read, x)
  <2>1. /\ NoneOf2016(y) => NoneOf2016(read)
        /\ Copies(out, read, Wanted(read) \cap (1 .. Len(read))) => Copies(out, y, Wanted(y) \cap (1 .. Len(read)))
        /\ ~IsRead(x.ev) => Wanted(y) \cap (1 .. Len(y)) = Wanted(y) \cap (1 .. Len(read))
    BY <1>1, <1>4, ReadOne
  <2>2. read' = y
    BY <1>5
  <2> HIDE DEF y
  <2>3. QED
    BY <2>1, <2>2
<1>9. Wanted(read)' = Wanted(read') /\ NoneOf2016(read)' = NoneOf2016(read')
  BY DEF Wanted, NoneOf2016, Asked
<1>10. \A i \in DOMAIN read' : read'[i].file <= at'.file
  <2>1. SUFFICES ASSUME NEW i \in 1 .. Len(read) + 1 PROVE read'[i].file <= at.file
    BY <1>3, <1>7
  <2>2. CASE i = Len(read) + 1
    BY <1>3, <1>6, <1>7, <2>2
  <2>3. CASE i \in 1 .. Len(read)
    BY <1>1, <1>7, <2>3
  <2>4. QED
    BY <1>7, <2>2, <2>3
<1>11. \A i, j \in DOMAIN read' : (i < j /\ read'[i].file = read'[j].file) => IsRead(read'[i].ev)
  <2>1. SUFFICES ASSUME NEW i \in 1 .. Len(read) + 1, NEW j \in 1 .. Len(read) + 1, i < j,
                        read'[i].file = read'[j].file
                 PROVE  IsRead(read'[i].ev)
    BY <1>7
  <2>2. i \in 1 .. Len(read)
    BY <1>7, <2>1
  <2>3. CASE j = Len(read) + 1
    BY <1>1, <1>6, <1>7, <2>1, <2>2, <2>3
  <2>4. CASE j \in 1 .. Len(read)
    BY <1>1, <1>7, <2>1, <2>2, <2>4
  <2>5. QED
    BY <1>7, <2>3, <2>4
<1>12. IsRead(ev) => \A i \in DOMAIN read' : read'[i].file = at'.file => IsRead(read'[i].ev)
  <2>1. SUFFICES ASSUME IsRead(ev), NEW i \in 1 .. Len(read) + 1, read'[i].file = at.file
                 PROVE  IsRead(read'[i].ev)
    BY <1>3, <1>7
  <2>2. CASE i = Len(read) + 1
    BY <1>6, <1>7, <2>1, <2>2
  <2>3. CASE i \in 1 .. Len(read)
    BY <1>1, <1>7, <2>1, <2>3
  <2>4. QED
    BY <1>7, <2>2, <2>3
<1>13. QED
  BY <1>1, <1>2, <1>6, <1>7, <1>8, <1>9, <1>10, <1>11, <1>12 DEF R
\* The elements of a sequence.
LEMMA ElementOf ==
  ASSUME NEW R, NEW r \in Seq(R)
  PROVE  (\A i \in DOMAIN r : r[i] \in R) /\ (Len(r) > 0 => r[Len(r)] \in R)
  OBVIOUS

\* The filter never configures the ECAL code, so Next returns at once.
LEMMA FilterReturns ==
  ASSUME FilterInv, setup.program = "filter", AfterNext(ecal)
  PROVE  ~ecal'.is_configured /\ pc' = "returned"
  BY DEF FilterInv, AfterNext

\* The event is looked at: it is copied if its trigger is asked for.
LEMMA FilterUse ==
  ASSUME ConfInv, FilterInv, setup.program = "filter", Use
  PROVE  FilterInv'
<1> DEFINE n == Len(read) - 1
           w == Wanted(read) \cap (1 .. n)
<1>1. /\ pc = "returned" /\ stat = "S_SUCCESS" /\ pc' = "loop"
      /\ UNCHANGED <<setup, conf, ecal, at, tree, vtp, svt, hitmap, clusters, scan, stat, parsed, current, read>>
  BY DEF Use
<1>2. PICK bits \in TriggerBits(tree.ts) :
        out' = IF Matches(tree.ts, bits) THEN Append(out, current) ELSE out
  BY DEF Use
<1>3. /\ read \in Seq([file : Nat, ev : EventsOf(setup)]) /\ out \in Seq(EventsOf(setup))
      /\ Len(read) > 0 /\ current = read[Len(read)].ev /\ tree.ts = TsOf(current) /\ IsRead(current)
      /\ NoneOf2016(read) => Copies(out, read, Wanted(read) \cap (1 .. LookedAt))
      /\ ~ecal.is_configured
      /\ \A i \in DOMAIN read : read[i].file <= at.file
      /\ \A i, j \in DOMAIN read : (i < j /\ read[i].file = read[j].file) => IsRead(read[i].ev)
      /\ \A i \in DOMAIN read : read[i].file = at.file => IsRead(read[i].ev)
  BY <1>1 DEF FilterInv, Pending
<1>4. LookedAt = n /\ n \in Nat /\ Len(read) = n + 1 /\ DOMAIN read = 1 .. n + 1
  BY <1>1, <1>3 DEF LookedAt, Pending
<1>5. current \in EventsOf(setup) /\ current = read[n + 1].ev
  <2>1. read[Len(read)] \in [file : Nat, ev : EventsOf(setup)]
    BY <1>3, ElementOf
  <2> HIDE DEF n
  <2>2. QED
    BY <1>3, <1>4, <2>1
<1>6. out' \in Seq(EventsOf(setup))
  BY <1>2, <1>3, <1>5
<1>7. ASSUME NoneOf2016(read)
      PROVE  Copies(out', read, Wanted(read) \cap (1 .. n + 1))
  <2>1. Copies(out, read, w)
    BY <1>3, <1>4, <1>7
  <2>2. Matches(tree.ts, bits) <=> Asked(current)
    <3>1. n + 1 \in DOMAIN read
      BY <1>4
    <3>2. current.kind \in Parsed => current.ts.size # 5
      BY <1>5, <1>7, <3>1 DEF NoneOf2016
    <3>3. current.kind \in Parsed =>
            current.ts.size \in {5, 7} \/ current.ts = [size |-> 0, bits |-> {}, fcup |-> FALSE]
      <4>1. PICK f \in DOMAIN setup.files : \E i \in DOMAIN setup.files[f] : current \in EventsAt(setup.files[f][i])
        BY <1>5 DEF EventsOf
      <4>2. PICK i \in DOMAIN setup.files[f] : current \in EventsAt(setup.files[f][i])
        BY <4>1
      <4>3. setup \in Setups
        BY DEF ConfInv
      <4>4. QED
        BY <4>1, <4>2, <4>3, EventsAssumption
    <3>4. QED
      BY <1>2, <1>3, <3>2, <3>3, MatchesAsked
  <2>3. CASE Asked(current)
    <3>1. n + 1 \in Wanted(read)
      BY <1>3, <1>4, <1>5, <2>3 DEF Wanted
    <3>2. Wanted(read) \cap (1 .. n + 1) = w \cup {n + 1}
      BY <1>4, <3>1
    <3>3. w \subseteq 1 .. n /\ out' = Append(out, read[n + 1].ev)
      BY <1>2, <1>5, <2>2, <2>3
    <3> HIDE DEF w, n
    <3>4. Copies(Append(out, read[n + 1].ev), read, w \cup {n + 1})
      BY <1>3, <1>4, <1>5, <2>1, <3>3, CopyOne
    <3>5. QED
      BY <3>2, <3>3, <3>4
  <2>4. CASE ~Asked(current)
    <3>1. n + 1 \notin Wanted(read)
      BY <1>5, <2>4 DEF Wanted
    <3>2. Wanted(read) \cap (1 .. n + 1) = w
      BY <1>4, <3>1
    <3>3. QED
      BY <1>2, <2>1, <2>2, <2>4, <3>2
  <2>5. QED
    BY <2>3, <2>4
<1>8. /\ LookedAt' = n + 1 /\ ~Pending' /\ Wanted(read)' = Wanted(read)
      /\ NoneOf2016(read)' = NoneOf2016(read) /\ EventsOf(setup)' = EventsOf(setup)
  BY <1>1, <1>4 DEF LookedAt, Pending, Wanted, NoneOf2016, Asked, EventsOf
<1> HIDE DEF n
<1>9. Copies(out, read, Wanted(read) \cap (1 .. LookedAt))' <=> Copies(out', read, Wanted(read) \cap (1 .. n + 1))
  BY <1>1, <1>8 DEF Copies
<1>10. QED
  BY <1>1, <1>3, <1>6, <1>7, <1>8, <1>9 DEF FilterInv

LEMMA FilterStep ==
  ASSUME ConfInv, FilterInv, [Next]_vars
  PROVE  FilterInv'
<1>1. SUFFICES ASSUME setup.program = "filter", setup' = setup PROVE FilterInv'
  <2>1. setup' = setup
    BY AtStep DEF vars
  <2>2. QED
    BY <1>1, <2>1 DEF FilterInv
<1>2. /\ pc \in {"closed", "loop", "returned"} /\ ~ecal.is_configured
      /\ read \in Seq([file : Nat, ev : EventsOf(setup)]) /\ out \in Seq(EventsOf(setup))
      /\ NoneOf2016(read) => Copies(out, read, Wanted(read) \cap (1 .. LookedAt))
      /\ \A i \in DOMAIN read : read[i].file <= at.file
      /\ \A i, j \in DOMAIN read : (i < j /\ read[i].file = read[j].file) => IsRead(read[i].ev)
  BY <1>1 DEF FilterInv
<1>3. EventsOf(setup)' = EventsOf(setup)
  BY <1>1 DEF EventsOf
<1>4. ASSUME UNCHANGED <<setup, read, out>>, LookedAt' = LookedAt
      PROVE  NoneOf2016(read)' => Copies(out, read, Wanted(read) \cap (1 .. LookedAt))'
  BY <1>2, <1>4 DEF NoneOf2016, Copies, Wanted, Asked
<1>5. CASE UNCHANGED vars
  BY <1>5 DEF FilterInv, vars, Pending, LookedAt, NoneOf2016, Copies, Wanted, Asked, TsOf, IsRead, EventsOf
<1>6. CASE Open
  <2>1. /\ pc = "closed" /\ pc' = "loop" /\ at'.file = at.file + 1
        /\ UNCHANGED <<setup, ecal, tree, stat, out, current, read>>
    BY <1>6 DEF Open
  <2>2. ~Pending /\ ~Pending' /\ LookedAt' = LookedAt
    BY <2>1 DEF Pending, LookedAt
  <2>3. at.file \in Nat /\ \A i \in DOMAIN read : read[i].file \in Nat
    <3>1. at.file \in 0 .. Len(setup.files) /\ setup \in Setups
      BY DEF ConfInv
    <3>2. Len(setup.files) \in Nat
      BY <3>1, SetupFacts
    <3>3. \A i \in DOMAIN read : read[i] \in [file : Nat, ev : EventsOf(setup)]
      BY <1>2, ElementOf
    <3>4. QED
      BY <3>1, <3>2, <3>3
  <2>4. \A i \in DOMAIN read : read[i].file <= at'.file /\ read[i].file # at'.file
    BY <1>2, <2>1, <2>3
  <2>5. QED
    BY <1>2, <1>3, <1>4, <2>1, <2>2, <2>4 DEF FilterInv
<1>7. CASE NextFails
  <2>1. /\ pc = "loop" /\ AfterNext(ecal) /\ UNCHANGED <<setup, out>> /\ stat' # "S_SUCCESS"
        /\ \/ UNCHANGED <<at, read>>
           \/ ~AtEnd /\ \E ev \in Places : ev.kind = "unreadable" /\ Passes(ev)
    BY <1>7 DEF NextFails
  <2>2. ~ecal'.is_configured /\ pc' = "returned" /\ ~Pending /\ ~Pending'
    BY <1>1, <2>1, FilterReturns DEF Pending
  <2>3. CASE UNCHANGED <<at, read>>
    <3>1. LookedAt' = LookedAt
      BY <2>2, <2>3 DEF LookedAt
    <3>2. QED
      BY <1>2, <1>3, <1>4, <2>1, <2>2, <2>3, <3>1 DEF FilterInv
  <2>4. CASE ~AtEnd /\ \E ev \in Places : ev.kind = "unreadable" /\ Passes(ev)
    <3>1. PICK ev \in Places : ev.kind = "unreadable" /\ Passes(ev)
      BY <2>4
    <3>2. ~IsRead(ev)
      BY <3>1 DEF IsRead
    <3>3. /\ read' \in Seq([file : Nat, ev : EventsOf(setup)])
          /\ NoneOf2016(read)' => Copies(out, read', Wanted(read)' \cap (1 .. Len(read)))
          /\ Wanted(read)' \cap (1 .. Len(read')) = Wanted(read)' \cap (1 .. Len(read))
          /\ \A i \in DOMAIN read' : read'[i].file <= at'.file
          /\ \A i, j \in DOMAIN read' : (i < j /\ read'[i].file = read'[j].file) => IsRead(read'[i].ev)
      BY <1>1, <2>1, <2>4, <3>1, <3>2, FilterRead
    <3>4. LookedAt' = Len(read')
      BY <2>2 DEF LookedAt
    <3>5. NoneOf2016(read)' => Copies(out, read, Wanted(read) \cap (1 .. LookedAt))'
      BY <2>1, <3>3, <3>4 DEF Copies
    <3>6. QED
      BY <1>2, <1>3, <2>1, <2>2, <3>3, <3>5 DEF FilterInv
  <2>5. QED
    BY <2>1, <2>3, <2>4
<1>8. CASE NextReads
  <2>1. pc = "loop" /\ AfterNext(ecal) /\ UNCHANGED <<setup, out>> /\ ~AtEnd
    BY <1>8 DEF NextReads
  <2>2. PICK ev \in Places :
          /\ ev.kind # "unreadable" /\ Passes(ev) /\ current' = ev
          /\ stat' = IF ev.kind = "bare" THEN "ABORTED" ELSE "S_SUCCESS"
          /\ tree'.ts = IF ev.kind \in Parsed THEN ev.ts ELSE NoTree.ts
    <3>1. PICK ev \in Places :
            /\ ev.kind # "unreadable" /\ Passes(ev) /\ current' = ev
            /\ stat' = IF ev.kind = "bare" THEN "ABORTED" ELSE "S_SUCCESS"
            /\ tree' = [tag |-> ev.tag,
                        fadc |-> IF ev.kind \in Parsed /\ setup.program = "reader" THEN ev.fadc ELSE <<>>,
                        ts |-> IF ev.kind \in Parsed THEN ev.ts ELSE NoTree.ts]
      BY <1>8 DEF NextReads
    <3>2. QED
      BY <3>1
  <2>3. ~ecal'.is_configured /\ pc' = "returned" /\ ~Pending
    BY <1>1, <2>1, FilterReturns DEF Pending
  <2>4. /\ read' \in Seq([file : Nat, ev : EventsOf(setup)])
        /\ Len(read') = Len(read) + 1 /\ Len(read) \in Nat /\ read'[Len(read')].ev = ev
        /\ NoneOf2016(read)' => Copies(out, read', Wanted(read)' \cap (1 .. Len(read)))
        /\ ~IsRead(ev) => Wanted(read)' \cap (1 .. Len(read')) = Wanted(read)' \cap (1 .. Len(read))
        /\ \A i \in DOMAIN read' : read'[i].file <= at'.file
        /\ \A i, j \in DOMAIN read' : (i < j /\ read'[i].file = read'[j].file) => IsRead(read'[i].ev)
        /\ IsRead(ev) => \A i \in DOMAIN read' : read'[i].file = at'.file => IsRead(read'[i].ev)
    BY <1>1, <2>1, <2>2, FilterRead
  <2>5. Pending' <=> IsRead(ev)
    BY <2>2, <2>3 DEF Pending, IsRead
  <2>6. NoneOf2016(read)' => Copies(out, read, Wanted(read) \cap (1 .. LookedAt))'
    <3>1. LookedAt' = IF IsRead(ev) THEN Len(read) ELSE Len(read')
      BY <2>4, <2>5 DEF LookedAt
    <3>2. Copies(out, read', Wanted(read)' \cap (1 .. Len(read))) =>
            Copies(out, read, Wanted(read) \cap (1 .. LookedAt))'
      BY <2>1, <2>4, <3>1 DEF Copies
    <3>3. QED
      BY <2>4, <3>2
  <2>7. Pending' => /\ Len(read') > 0 /\ current' = read'[Len(read')].ev
                    /\ tree'.ts = TsOf(current') /\ IsRead(current')
    BY <2>2, <2>4, <2>5 DEF TsOf
  <2>8. QED
    BY <1>2, <1>3, <2>1, <2>3, <2>4, <2>5, <2>6, <2>7 DEF FilterInv, TsOf, IsRead
<1>9. CASE Use
  BY <1>1, <1>9, FilterUse
<1>10. CASE Close
  <2>1. pc' = "closed" /\ UNCHANGED <<setup, ecal, at, out, read>> /\ stat # "S_SUCCESS"
    BY <1>10 DEF Close
  <2>2. ~Pending /\ ~Pending' /\ LookedAt' = LookedAt
    BY <2>1 DEF Pending, LookedAt
  <2>3. QED
    BY <1>2, <1>3, <1>4, <2>1, <2>2 DEF FilterInv
<1>11. CASE Parse \/ FindGTPClusters
  BY <1>2, <1>11 DEF Parse, FindGTPClusters, SkipChannel, StartChannel, Search, FinishChannel, ParseReturns,
     InParse, Searching, StartSeed, Walk, StoreCluster, ClustersDone
<1>12. CASE Exit
  BY <1>5, <1>12 DEF Exit
<1>13. QED
  BY <1>5, <1>6, <1>7, <1>8, <1>9, <1>10, <1>11, <1>12 DEF Next

\* HPS_Trigger_Filter copies exactly the events whose trigger is asked for, once and in
\* their order, from each file up to the first event that cannot be read, whatever the
\* files hold.
THEOREM FilterIsRight == Spec => []FilterCopies
<1>1. Init => ConfInv /\ FilterInv
  BY ConfInit, FilterInit
<1>2. ConfInv /\ FilterInv /\ [Next]_vars => ConfInv' /\ FilterInv'
  BY ConfStep, FilterStep
<1>3. FilterInv => FilterCopies
  <2>1. SUFFICES ASSUME FilterInv, setup.program = "filter", pc \in {"loop", "closed"}, NoneOf2016(read)
                 PROVE  /\ Len(out) = Cardinality(Wanted(read))
                        /\ \A i \in Wanted(read) : out[Cardinality({j \in Wanted(read) : j <= i})] = read[i].ev
                        /\ \A i, j \in DOMAIN read : (i < j /\ read[i].file = read[j].file) => IsRead(read[i].ev)
    BY DEF FilterCopies, NoneOf2016, Wanted, IsRead, Asked, TsOf
  <2>2. LookedAt = Len(read)
    BY <2>1 DEF LookedAt, Pending
  <2>3. Wanted(read) \cap (1 .. LookedAt) = Wanted(read)
    BY <2>1, <2>2 DEF Wanted, FilterInv
  <2>4. QED
    BY <2>1, <2>3 DEF FilterInv, Copies
<1>4. QED
  BY <1>1, <1>2, <1>3, PTL DEF Spec
-----------------------------------------------------------------------------
(* The pulses ComputeMode7fast finds.                                      *)

\* a crossing that is kept, or in the window of one that is, or behind as many as can be kept
Passed(s, k, f, x) ==
  \/ \E j \in DOMAIN f : f[j] = x
  \/ \E j \in DOMAIN f : f[j] > 1 /\ f[j] < x /\ x < f[j] + NA(k)
  \/ k.npeak > 0 /\ \E m \in DOMAIN f : m >= MostKept(s, k) /\ f[m] < x

\* The search is at index i and has found f: it knows all crossings before i, and has
\* room for another one when it goes on.
Found(s, k, f, i) ==
  /\ \A j \in DOMAIN f : Crossing(s, k, f[j]) \/ (j = 1 /\ f[j] = 1 /\ Above(s, k, 1))
  /\ \A j, m \in DOMAIN f : j < m => f[j] < f[m] /\ (f[j] > 1 => f[j] + NA(k) <= f[m])
  /\ Above(s, k, 1) => Len(f) > 0 /\ f[1] = 1
  /\ k.npeak > 0 => Len(f) <= MostKept(s, k)
  /\ \A x \in 2 .. Len(s) : (x < i /\ Crossing(s, k, x)) => Passed(s, k, f, x)
  /\ i <= Len(s) =>
       /\ k.npeak > 0 => Len(f) < MostKept(s, k)
       /\ \A j \in DOMAIN f : f[j] < i /\ (f[j] > 1 => f[j] + NA(k) <= i)

\* Before the loop.
LEMMA FoundFirst ==
  ASSUME NEW s \in Seq(Nat), NEW k, k.npeak \in Int, NA(k) \in Nat
  PROVE  FirstCrossings(s, k) \in Seq(Nat) /\ Found(s, k, FirstCrossings(s, k), 2)
<1> DEFINE f == FirstCrossings(s, k)
<1>1. \/ Above(s, k, 1) /\ f = <<1>>
      \/ ~Above(s, k, 1) /\ f = <<>>
  BY DEF FirstCrossings
<1>2. f \in Seq(Nat) /\ Len(f) \in Nat /\ DOMAIN f = 1 .. Len(f) /\ \A j \in DOMAIN f : j = 1 /\ f[j] = 1
  <2> HIDE DEF f
  <2>1. CASE f = <<1>>
    BY <2>1
  <2>2. CASE f = <<>>
    BY <2>2
  <2>3. QED
    BY <1>1, <2>1, <2>2
<1>3. (Above(s, k, 1) => Len(f) = 1 /\ f[1] = 1) /\ (~Above(s, k, 1) => Len(f) = 0)
  BY <1>1
<1> HIDE DEF f
<1>4. Found(s, k, f, 2)
  <2>1. \A j, m \in DOMAIN f : ~(j < m)
    BY <1>2
  <2>2. \A j \in DOMAIN f : f[j] < 2 /\ ~(f[j] > 1) /\ (j = 1 /\ f[j] = 1 /\ Above(s, k, 1))
    BY <1>2, <1>3
  <2>3. k.npeak > 0 => Len(f) < MostKept(s, k) /\ Len(f) <= MostKept(s, k)
    <3> DEFINE np == k.npeak
               ln == Len(f)
               top == MostKept(s, k)
    <3>1. np \in Int /\ ln \in {0, 1}
      BY <1>3
    <3>2. top = IF np = 1 /\ Above(s, k, 1) THEN 2 ELSE np
      BY DEF MostKept
    <3>3. ln = 1 => Above(s, k, 1)
      BY <1>3
    <3> HIDE DEF np, ln, top
    <3>4. np > 0 => ln < top /\ ln <= top
      BY <3>1, <3>2, <3>3
    <3>5. QED
      BY <3>4 DEF np, ln, top
  <2>5. \A x \in 2 .. Len(s) : ~(x < 2)
    OBVIOUS
  <2>6. Above(s, k, 1) => Len(f) > 0 /\ f[1] = 1
    <3>1. SUFFICES ASSUME Above(s, k, 1) PROVE Len(f) > 0 /\ f[1] = 1
      OBVIOUS
    <3>2. Len(f) = 1 /\ f[1] = 1
      BY <1>3, <3>1
    <3>3. QED
      BY <3>2
  <2>7. QED
    BY <2>1, <2>2, <2>3, <2>5, <2>6 DEF Found
<1>5. QED
  BY <1>2, <1>4 DEF f

\* One turn of the loop.
LEMMA FoundNext ==
  ASSUME NEW s \in Seq(Nat), NEW k, k.npeak \in Int, NA(k) \in Nat, NA(k) > 0 \/ k.npeak = 1,
         NEW f \in Seq(Nat), NEW i \in Nat, i >= 2, i <= Len(s), Found(s, k, f, i)
  PROVE  LET r == SearchStep(s, k, i, f)
             next == IF r.more THEN r.i ELSE Len(s) + 1
         IN  r.found \in Seq(Nat) /\ next \in Nat /\ next >= 2 /\ Found(s, k, r.found, next)
<1> DEFINE r == SearchStep(s, k, i, f)
           hit == Crossing(s, k, i)
           n == Len(s)
           A == NA(k)
           g == Append(f, i)
<1>1. /\ n \in Nat /\ Len(f) \in Nat /\ DOMAIN f = 1 .. Len(f)
      /\ Len(g) = Len(f) + 1 /\ DOMAIN g = 1 .. Len(f) + 1 /\ g \in Seq(Nat)
      /\ \A j \in 1 .. Len(f) : g[j] = f[j] /\ f[j] \in Nat
      /\ g[Len(f) + 1] = i
  OBVIOUS
<1>2. (Above(s, k, i) /\ Below(s, k, i - 1)) <=> hit
  BY DEF Crossing
<1>3. /\ r.found = IF hit THEN g ELSE f
      /\ r.i = IF hit THEN i + A ELSE i + 1
      /\ r.more <=> ~(hit /\ k.npeak > 0 /\ Len(f) + 1 >= k.npeak)
  BY <1>2 DEF SearchStep
<1>4. /\ \A j \in DOMAIN f : Crossing(s, k, f[j]) \/ (j = 1 /\ f[j] = 1 /\ Above(s, k, 1))
      /\ \A j, m \in DOMAIN f : j < m => f[j] < f[m] /\ (f[j] > 1 => f[j] + A <= f[m])
      /\ Above(s, k, 1) => Len(f) > 0 /\ f[1] = 1
      /\ \A x \in 2 .. n : (x < i /\ Crossing(s, k, x)) => Passed(s, k, f, x)
      /\ k.npeak > 0 => Len(f) < MostKept(s, k)
      /\ \A j \in DOMAIN f : f[j] < i /\ (f[j] > 1 => f[j] + A <= i)
  BY DEF Found
<1> DEFINE np == k.npeak
           top == MostKept(s, k)
<1>top. top = IF np = 1 /\ Above(s, k, 1) THEN 2 ELSE np
  BY DEF MostKept
<1> HIDE DEF r, hit, n, A, g, np, top
<1>np. np \in Int /\ A \in Nat /\ (A > 0 \/ np = 1)
  BY DEF np, A
<1>room. np > 0 => Len(f) < top
  BY <1>4 DEF np, top
<1>len. /\ np > 0 => Len(f) <= top /\ Len(g) <= top
        /\ np > 0 /\ Len(g) >= np => Len(g) >= top
  <2> DEFINE ln == Len(f)
             first == Above(s, k, 1)
  <2>1. ln \in Nat /\ (np > 0 => ln < top) /\ Len(g) = ln + 1 /\ (first => ln > 0)
    BY <1>1, <1>4, <1>room
  <2>2. top = IF np = 1 /\ first THEN 2 ELSE np
    BY <1>top
  <2> HIDE DEF ln, first
  <2>3. top \in Int
    BY <1>np, <2>2
  <2>4. np > 0 => ln <= top /\ ln + 1 <= top
    BY <2>1, <2>3
  <2>5. np > 0 /\ ln + 1 >= np => ln + 1 >= top
    BY <1>np, <2>1, <2>2
  <2>6. QED
    BY <2>1, <2>4, <2>5 DEF ln
<1>5. CASE ~hit
  <2>1. r.found = f /\ r.more /\ r.i = i + 1
    BY <1>3, <1>5
  <2>2. ASSUME NEW x \in 2 .. n, x < i + 1, Crossing(s, k, x) PROVE Passed(s, k, f, x)
    <3>1. x # i
      BY <1>5, <2>2 DEF hit
    <3>2. x < i
      BY <1>1, <2>2, <3>1
    <3>3. QED
      BY <1>4, <2>2, <3>2
  <2>3. \A j \in DOMAIN f : f[j] < i + 1 /\ (f[j] > 1 => f[j] + A <= i + 1)
    <3>1. SUFFICES ASSUME NEW j \in DOMAIN f PROVE f[j] < i + 1 /\ (f[j] > 1 => f[j] + A <= i + 1)
      OBVIOUS
    <3> DEFINE v == f[j]
    <3>2. v \in Nat /\ v < i /\ (v > 1 => v + A <= i)
      BY <1>1, <1>4
    <3> HIDE DEF v
    <3>3. v < i + 1 /\ (v > 1 => v + A <= i + 1)
      BY <1>np, <3>2
    <3>4. QED
      BY <3>3 DEF v
  <2>4. np > 0 => Len(f) <= top
    BY <1>len
  <2>5. Found(s, k, f, i + 1)
    BY <1>4, <2>2, <2>3, <2>4 DEF Found, n, A, np, top
  <2>6. QED
    BY <1>1, <2>1, <2>5 DEF r, n
<1>6. CASE hit
  <2>1. r.found = g /\ r.i = i + A
    BY <1>3, <1>6
  <2>2. \A j \in DOMAIN g : Crossing(s, k, g[j]) \/ (j = 1 /\ g[j] = 1 /\ Above(s, k, 1))
    <3>1. SUFFICES ASSUME NEW j \in 1 .. Len(f) + 1
                   PROVE  Crossing(s, k, g[j]) \/ (j = 1 /\ g[j] = 1 /\ Above(s, k, 1))
      BY <1>1
    <3>2. CASE j = Len(f) + 1
      BY <1>1, <1>6, <3>2 DEF hit
    <3>3. CASE j \in 1 .. Len(f)
      BY <1>1, <1>4, <3>3
    <3>4. QED
      BY <1>1, <3>2, <3>3
  <2>3. \A j, m \in DOMAIN g : j < m => g[j] < g[m] /\ (g[j] > 1 => g[j] + A <= g[m])
    <3>1. SUFFICES ASSUME NEW j \in 1 .. Len(f) + 1, NEW m \in 1 .. Len(f) + 1, j < m
                   PROVE  g[j] < g[m] /\ (g[j] > 1 => g[j] + A <= g[m])
      BY <1>1
    <3>2. j \in 1 .. Len(f)
      BY <1>1, <3>1
    <3>3. CASE m = Len(f) + 1
      BY <1>1, <1>4, <1>np, <3>2, <3>3
    <3>4. CASE m \in 1 .. Len(f)
      BY <1>1, <1>4, <1>np, <3>1, <3>2, <3>4
    <3>5. QED
      BY <1>1, <3>3, <3>4
  <2>4. Above(s, k, 1) => Len(g) > 0 /\ g[1] = 1
    BY <1>1, <1>4
  <2>5. np > 0 => Len(g) <= top
    BY <1>len
  <2>6. \A x \in 2 .. n : Passed(s, k, f, x) => Passed(s, k, g, x)
    <3>1. SUFFICES ASSUME NEW x \in 2 .. n, Passed(s, k, f, x) PROVE Passed(s, k, g, x)
      OBVIOUS
    <3>2. \A j \in DOMAIN f : j \in DOMAIN g /\ g[j] = f[j]
      BY <1>1
    <3>3. QED
      BY <3>1, <3>2 DEF Passed
  <2>7. Len(f) + 1 \in DOMAIN g
    BY <1>1
  <2>8. Passed(s, k, g, i)
    BY <1>1, <2>7 DEF Passed
  <2>9. \A x \in 2 .. n : (x < i /\ Crossing(s, k, x)) => Passed(s, k, g, x)
    BY <1>4, <2>6
  <2>10. CASE r.more
    <3>1. A > 0 /\ (np > 0 => Len(g) < top)
      <4>1. np > 0 => Len(g) < np
        BY <1>1, <1>3, <1>6, <1>np, <2>10 DEF np
      <4>2. np = 1 => FALSE
        BY <1>1, <4>1
      <4>3. top = np
        BY <1>top, <4>2
      <4>4. QED
        BY <1>np, <4>1, <4>2, <4>3
    <3>2. ASSUME NEW x \in 2 .. n, x < i + A, Crossing(s, k, x) PROVE Passed(s, k, g, x)
      <4>1. CASE x < i
        BY <2>9, <3>2, <4>1
      <4>2. CASE x = i
        BY <2>8, <4>2
      <4>3. CASE i < x
        <5>1. g[Len(f) + 1] > 1 /\ g[Len(f) + 1] < x /\ x < g[Len(f) + 1] + A
          BY <1>1, <1>np, <3>2, <4>3
        <5>2. QED
          BY <2>7, <5>1 DEF Passed, A
      <4>4. QED
        BY <1>1, <4>1, <4>2, <4>3
    <3>3. \A j \in DOMAIN g : g[j] < i + A /\ (g[j] > 1 => g[j] + A <= i + A)
      <4>1. SUFFICES ASSUME NEW j \in 1 .. Len(f) + 1
                     PROVE  g[j] < i + A /\ (g[j] > 1 => g[j] + A <= i + A)
        BY <1>1
      <4>2. CASE j = Len(f) + 1
        BY <1>1, <1>np, <3>1, <4>2
      <4>3. CASE j \in 1 .. Len(f)
        <5>1. g[j] = f[j] /\ f[j] \in Nat /\ f[j] < i
          BY <1>1, <1>4, <4>3
        <5>2. QED
          BY <1>np, <5>1
      <4>4. QED
        BY <1>1, <4>2, <4>3
    <3>4. Found(s, k, g, i + A)
      BY <2>2, <2>3, <2>4, <2>5, <3>1, <3>2, <3>3 DEF Found, n, A, np, top
    <3>5. i + A \in Nat /\ i + A >= 2
      BY <1>np, <3>1
    <3>6. QED
      BY <1>1, <2>1, <2>10, <3>4, <3>5 DEF r, n
  <2>11. CASE ~r.more
    <3>1. np > 0 /\ Len(g) >= top
      <4>1. np > 0 /\ Len(g) >= np
        BY <1>1, <1>3, <1>np, <2>11 DEF np
      <4>2. QED
        BY <1>len, <4>1
    <3>2. ASSUME NEW x \in 2 .. n, x < n + 1, Crossing(s, k, x) PROVE Passed(s, k, g, x)
      <4>1. CASE x < i
        BY <2>9, <3>2, <4>1
      <4>2. CASE x = i
        BY <2>8, <4>2
      <4>3. CASE i < x
        BY <1>1, <2>7, <3>1, <4>3 DEF Passed, np, top
      <4>4. QED
        BY <1>1, <4>1, <4>2, <4>3
    <3>3. ~(n + 1 <= n) /\ n + 1 \in Nat /\ n + 1 >= 2
      <4>1. n \in Nat /\ i <= n
        BY <1>1 DEF n
      <4>2. QED
        BY <4>1
    <3>4. Found(s, k, g, n + 1)
      BY <2>2, <2>3, <2>4, <2>5, <3>2, <3>3 DEF Found, n, A, np, top
    <3>5. QED
      BY <1>1, <2>1, <2>11, <3>3, <3>4 DEF r, n
  <2>12. QED
    BY <2>10, <2>11
<1>7. QED
  BY <1>5, <1>6
\* m different values in increasing order are m elements.
LEMMA CountUp ==
  ASSUME NEW f \in Seq(Nat), \A j, m \in DOMAIN f : j < m => f[j] < f[m],
         NEW m \in DOMAIN f, NEW S, IsFiniteSet(S), \A j \in 1 .. m : f[j] \in S
  PROVE  Cardinality(S) \in Nat /\ m <= Cardinality(S)
<1> DEFINE h == [j \in 1 .. m |-> f[j]]
<1>1. m \in Nat /\ m >= 1 /\ 1 .. m \subseteq DOMAIN f
  OBVIOUS
<1>2. h \in [1 .. m -> S]
  OBVIOUS
<1>3. \A a, b \in 1 .. m : h[a] = h[b] => a = b
  <2>1. SUFFICES ASSUME NEW a \in 1 .. m, NEW b \in 1 .. m, f[a] = f[b], a # b PROVE FALSE
    OBVIOUS
  <2>2. f[a] \in Nat /\ f[b] \in Nat /\ a \in DOMAIN f /\ b \in DOMAIN f /\ (a < b \/ b < a)
    BY <1>1, <2>1
  <2>3. QED
    BY <2>1, <2>2
<1> HIDE DEF h
<1>4. h \in Injection(1 .. m, S)
  BY <1>2, <1>3 DEF Injection, IsInjective
<1>5. Cardinality(1 .. m) <= Cardinality(S)
  BY <1>4, FS_Injection
<1>6. Cardinality(1 .. m) = m
  BY <1>1, FS_Interval
<1>7. Cardinality(S) \in Nat
  BY FS_CardinalityType
<1>8. QED
  BY <1>5, <1>6, <1>7

\* The values of a .. b are no more than b - a + 1.
LEMMA CountDown ==
  ASSUME NEW f, NEW a \in Nat, NEW b \in Nat, NEW c \in Nat, b - a + 1 <= c
  PROVE  Cardinality({f[j] : j \in a .. b}) <= c
<1> DEFINE T == {f[j] : j \in a .. b}
           h == [j \in a .. b |-> f[j]]
<1>1. h \in [a .. b -> T] /\ \A t \in T : \E j \in a .. b : h[j] = t
  OBVIOUS
<1> HIDE DEF h, T
<1>2. h \in Surjection(a .. b, T)
  BY <1>1 DEF Surjection
<1>3. IsFiniteSet(a .. b) /\ Cardinality(a .. b) = IF a > b THEN 0 ELSE b - a + 1
  BY FS_Interval
<1>4. Cardinality(T) <= Cardinality(a .. b) /\ IsFiniteSet(T)
  BY <1>2, <1>3, FS_Surjection
<1>5. Cardinality(T) \in Nat
  BY <1>4, FS_CardinalityType
<1>6. Cardinality(T) <= c
  BY <1>3, <1>4, <1>5
<1>7. QED
  BY <1>6 DEF T

\* What the search has found when it is over.
LEMMA FoundAll ==
  ASSUME NEW s \in Seq(Nat), NEW k, k.npeak \in Int, NA(k) \in Nat,
         NEW f \in Seq(Nat), NEW i \in Nat, i > Len(s), Found(s, k, f, i)
  PROVE  LET kept == {f[j] : j \in DOMAIN f}
         IN  /\ \A j \in DOMAIN f : Crossing(s, k, f[j]) \/ (j = 1 /\ f[j] = 1 /\ Above(s, k, 1))
             /\ \A j \in 1 .. (Len(f) - 1) : f[j] < f[j + 1] /\ (f[j] > 1 => f[j] + NA(k) <= f[j + 1])
             /\ k.npeak > 0 => Cardinality(kept) <= MostKept(s, k)
             /\ Above(s, k, 1) => 1 \in kept
             /\ \A x \in 2 .. Len(s) : Crossing(s, k, x) /\ x \notin kept =>
                   \/ \E c \in kept \ {1} : c < x /\ x < c + NA(k)
                   \/ k.npeak > 0 /\ Cardinality({c \in kept : c < x}) >= MostKept(s, k)
<1> DEFINE kept == {f[j] : j \in DOMAIN f}
           np == k.npeak
           top == MostKept(s, k)
<1>top. top \in Int /\ (np > 0 => top \in Nat)
  <2>1. np \in Int /\ top = IF np = 1 /\ Above(s, k, 1) THEN 2 ELSE np
    BY DEF MostKept
  <2> HIDE DEF np, top
  <2>2. QED
    BY <2>1
<1>1. /\ \A j \in DOMAIN f : Crossing(s, k, f[j]) \/ (j = 1 /\ f[j] = 1 /\ Above(s, k, 1))
      /\ \A j, m \in DOMAIN f : j < m => f[j] < f[m] /\ (f[j] > 1 => f[j] + NA(k) <= f[m])
      /\ Above(s, k, 1) => Len(f) > 0 /\ f[1] = 1
      /\ np > 0 => Len(f) <= top
      /\ \A x \in 2 .. Len(s) : (x < i /\ Crossing(s, k, x)) => Passed(s, k, f, x)
  BY DEF Found
<1>2. /\ Len(f) \in Nat /\ DOMAIN f = 1 .. Len(f) /\ \A j \in DOMAIN f : f[j] \in Nat /\ f[j] \in kept
      /\ Len(s) \in Nat /\ np \in Int
  OBVIOUS
<1>3. \A j \in 1 .. (Len(f) - 1) : f[j] < f[j + 1] /\ (f[j] > 1 => f[j] + NA(k) <= f[j + 1])
  <2>1. SUFFICES ASSUME NEW j \in 1 .. (Len(f) - 1)
                 PROVE  f[j] < f[j + 1] /\ (f[j] > 1 => f[j] + NA(k) <= f[j + 1])
    OBVIOUS
  <2>2. j \in DOMAIN f /\ j + 1 \in DOMAIN f /\ j < j + 1
    BY <1>2
  <2>3. QED
    BY <1>1, <2>2
<1>4. Above(s, k, 1) => 1 \in kept
  <2>1. SUFFICES ASSUME Above(s, k, 1) PROVE 1 \in kept
    OBVIOUS
  <2>2. 1 \in DOMAIN f /\ f[1] = 1
    BY <1>1, <1>2, <2>1
  <2>3. QED
    BY <2>2
<1>5. IsFiniteSet(kept)
  <2> DEFINE h == [j \in 1 .. Len(f) |-> f[j]]
  <2>1. h \in [1 .. Len(f) -> kept] /\ \A t \in kept : \E j \in 1 .. Len(f) : h[j] = t
    BY <1>2
  <2> HIDE DEF h, kept
  <2>2. h \in Surjection(1 .. Len(f), kept)
    BY <2>1 DEF Surjection
  <2>3. IsFiniteSet(1 .. Len(f))
    BY <1>2, FS_Interval
  <2>4. QED
    BY <2>2, <2>3, FS_Surjection
<1>6. ASSUME np > 0 PROVE Cardinality(kept) <= top
  <2> DEFINE ln == Len(f)
  <2>1. ln \in Nat /\ top \in Nat /\ ln <= top
    BY <1>1, <1>2, <1>6, <1>top
  <2>2. kept = {f[j] : j \in 1 .. ln}
    BY <1>2
  <2> HIDE DEF kept, ln, top
  <2>3. ln - 1 + 1 <= top
    BY <2>1
  <2>4. Cardinality({f[j] : j \in 1 .. ln}) <= top
    BY <2>1, <2>3, CountDown
  <2>5. QED
    BY <2>2, <2>4
<1>7. ASSUME NEW x \in 2 .. Len(s), Crossing(s, k, x), x \notin kept
      PROVE  \/ \E c \in kept \ {1} : c < x /\ x < c + NA(k)
             \/ np > 0 /\ Cardinality({c \in kept : c < x}) >= top
  <2>1. Passed(s, k, f, x)
    <3>1. x < i
      BY <1>2
    <3>2. QED
      BY <1>1, <1>7, <3>1
  <2>2. CASE \E j \in DOMAIN f : f[j] = x
    BY <1>7, <2>2
  <2>3. CASE \E j \in DOMAIN f : f[j] > 1 /\ f[j] < x /\ x < f[j] + NA(k)
    <3>1. PICK j \in DOMAIN f : f[j] > 1 /\ f[j] < x /\ x < f[j] + NA(k)
      BY <2>3
    <3>2. f[j] \in kept /\ f[j] \in Nat
      BY <1>2
    <3> HIDE DEF kept
    <3>3. f[j] \in kept \ {1}
      BY <3>1, <3>2
    <3>4. QED
      BY <3>1, <3>3
  <2>4. CASE np > 0 /\ \E m \in DOMAIN f : m >= top /\ f[m] < x
    <3>1. PICK m \in DOMAIN f : m >= top /\ f[m] < x
      BY <2>4
    <3> DEFINE S == {c \in kept : c < x}
    <3>2. IsFiniteSet(S)
      <4>1. S \subseteq kept
        OBVIOUS
      <4> HIDE DEF S, kept
      <4>2. QED
        BY <1>5, <4>1, FS_Subset
    <3>3. \A j \in 1 .. m : f[j] \in S
      <4>1. SUFFICES ASSUME NEW j \in 1 .. m PROVE f[j] \in kept /\ f[j] < x
        OBVIOUS
      <4>2. j \in DOMAIN f /\ (j = m \/ j < m)
        <5> DEFINE ln == Len(f)
        <5>1. ln \in Nat /\ m \in 1 .. ln /\ DOMAIN f = 1 .. ln
          BY <1>2
        <5> HIDE DEF ln
        <5>2. QED
          BY <5>1
      <4>3. f[j] \in kept /\ f[j] \in Nat /\ f[m] \in Nat
        BY <1>2, <4>2
      <4>4. f[j] = f[m] \/ f[j] < f[m]
        BY <1>1, <4>2
      <4> HIDE DEF kept
      <4>5. f[j] < x
        BY <3>1, <4>3, <4>4
      <4>6. QED
        BY <4>3, <4>5
    <3> HIDE DEF S
    <3>4. Cardinality(S) \in Nat /\ m <= Cardinality(S)
      BY <1>1, <3>2, <3>3, CountUp
    <3>5. m \in Nat
      BY <1>2
    <3>6. Cardinality(S) >= top
      <4> DEFINE size == Cardinality(S)
      <4>1. size \in Nat /\ m <= size /\ m \in Nat /\ top \in Int /\ m >= top
        BY <1>top, <3>1, <3>4, <3>5
      <4> HIDE DEF size, top
      <4>2. size >= top
        BY <4>1
      <4>3. QED
        BY <4>2 DEF size
    <3>7. QED
      BY <2>4, <3>6 DEF S
  <2>5. QED
    BY <2>1, <2>2, <2>3, <2>4 DEF Passed
<1>8. QED
  BY <1>1, <1>3, <1>4, <1>6, <1>7

\* With an empty window the search comes to its first crossing again and again: there is no
\* crossing before i, and what is found is the first sample or that crossing.
FirstCrossing(s, k, x) == Crossing(s, k, x) /\ \A y \in 2 .. (x - 1) : ~Crossing(s, k, y)
SameFound(s, k, f, i) ==
  /\ \A j \in DOMAIN f : (j = 1 /\ f[j] = 1 /\ Above(s, k, 1)) \/ FirstCrossing(s, k, f[j])
  /\ Above(s, k, 1) => Len(f) > 0 /\ f[1] = 1
  /\ i <= Len(s) => /\ \A x \in 2 .. Len(s) : x < i => ~Crossing(s, k, x)
                    /\ k.npeak > 0 => Len(f) < k.npeak
  /\ i > Len(s) => \/ \A x \in 2 .. Len(s) : ~Crossing(s, k, x)
                   \/ k.npeak > 0 /\ Len(f) = k.npeak

LEMMA SameFirst ==
  ASSUME NEW s \in Seq(Nat), NEW k, k.npeak \in Int, k.npeak # 1
  PROVE  SameFound(s, k, FirstCrossings(s, k), 2)
<1> DEFINE f == FirstCrossings(s, k)
<1>1. \/ Above(s, k, 1) /\ f = <<1>>
      \/ ~Above(s, k, 1) /\ f = <<>>
  BY DEF FirstCrossings
<1>2. /\ \A j \in DOMAIN f : j = 1 /\ f[j] = 1 /\ Above(s, k, 1)
      /\ Above(s, k, 1) => Len(f) > 0 /\ f[1] = 1
      /\ Len(f) \in {0, 1}
  <2> HIDE DEF f
  <2>1. CASE Above(s, k, 1) /\ f = <<1>>
    BY <2>1
  <2>2. CASE ~Above(s, k, 1) /\ f = <<>>
    BY <2>2
  <2>3. QED
    BY <1>1, <2>1, <2>2
<1>3. k.npeak > 0 => Len(f) < k.npeak
  <2> DEFINE np == k.npeak
             ln == Len(f)
  <2>1. np \in Int /\ np # 1 /\ ln \in {0, 1}
    BY <1>2
  <2> HIDE DEF np, ln
  <2>2. np > 0 => ln < np
    BY <2>1
  <2>3. QED
    BY <2>2 DEF np, ln
<1>4. Len(s) \in Nat /\ (2 > Len(s) => \A x \in 2 .. Len(s) : FALSE) /\ \A x \in 2 .. Len(s) : ~(x < 2)
  <2>1. Len(s) \in Nat
    OBVIOUS
  <2>2. QED
    BY <2>1
<1> HIDE DEF f
<1>5. SameFound(s, k, f, 2)
  BY <1>2, <1>3, <1>4 DEF SameFound
<1>6. QED
  BY <1>5 DEF f

LEMMA SameNext ==
  ASSUME NEW s \in Seq(Nat), NEW k, k.npeak \in Int, NA(k) = 0, k.npeak # 1,
         NEW f \in Seq(Nat), NEW i \in Nat, i >= 2, i <= Len(s), SameFound(s, k, f, i)
  PROVE  LET r == SearchStep(s, k, i, f)
             next == IF r.more THEN r.i ELSE Len(s) + 1
         IN  SameFound(s, k, r.found, next)
<1> DEFINE r == SearchStep(s, k, i, f)
           n == Len(s)
           np == k.npeak
           g == Append(f, i)
           Ours(e) == \A j \in DOMAIN e : (j = 1 /\ e[j] = 1 /\ Above(s, k, 1)) \/ FirstCrossing(s, k, e[j])
           hit == Crossing(s, k, i)
<1>1. /\ n \in Nat /\ i <= n /\ np \in Int /\ Len(f) \in Nat /\ DOMAIN f = 1 .. Len(f)
      /\ Len(g) = Len(f) + 1 /\ DOMAIN g = 1 .. Len(f) + 1
      /\ \A j \in 1 .. Len(f) : g[j] = f[j]
      /\ g[Len(f) + 1] = i
  OBVIOUS
<1>2. /\ r.found = IF hit THEN g ELSE f
      /\ r.i = IF hit THEN i ELSE i + 1
      /\ r.more <=> ~(hit /\ np > 0 /\ Len(f) + 1 >= np)
  <2>1. (Above(s, k, i) /\ Below(s, k, i - 1)) <=> hit
    BY DEF Crossing
  <2>2. i + NA(k) = i
    OBVIOUS
  <2> HIDE DEF hit, g
  <2>3. QED
    BY <2>1, <2>2 DEF SearchStep, g
<1>3. /\ Ours(f)
      /\ Above(s, k, 1) => Len(f) > 0 /\ f[1] = 1
      /\ \A x \in 2 .. n : x < i => ~Crossing(s, k, x)
      /\ np > 0 => Len(f) < np
  BY DEF SameFound
<1> HIDE DEF r, n, np, g, hit
<1>4. CASE ~hit
  <2>1. r.found = f /\ r.more /\ r.i = i + 1
    BY <1>2, <1>4
  <2>2. \A x \in 2 .. n : x < i + 1 => ~Crossing(s, k, x)
    <3>1. SUFFICES ASSUME NEW x \in 2 .. n, x < i + 1 PROVE ~Crossing(s, k, x)
      OBVIOUS
    <3>2. x < i \/ x = i
      BY <3>1
    <3>3. QED
      BY <1>3, <1>4, <3>2 DEF hit
  <2>3. i + 1 > n => \A x \in 2 .. n : ~Crossing(s, k, x)
    <3>1. SUFFICES ASSUME i + 1 > n, NEW x \in 2 .. n PROVE x < i + 1
      BY <2>2
    <3>2. QED
      BY <1>1, <3>1
  <2>4. SameFound(s, k, f, i + 1)
    BY <1>3, <2>2, <2>3 DEF SameFound, n, np
  <2>5. QED
    BY <2>1, <2>4 DEF r, n
<1>5. CASE hit
  <2>1. Ours(g)
    <3>1. SUFFICES ASSUME NEW j \in 1 .. Len(f) + 1
                   PROVE  (j = 1 /\ g[j] = 1 /\ Above(s, k, 1)) \/ FirstCrossing(s, k, g[j])
      BY <1>1
    <3>2. CASE j \in 1 .. Len(f)
      BY <1>1, <1>3, <3>2
    <3>3. ASSUME j = Len(f) + 1 PROVE FirstCrossing(s, k, g[j])
      <4>1. g[j] = i /\ Crossing(s, k, i)
        BY <1>1, <1>5, <3>3 DEF hit
      <4>2. \A x \in 2 .. (i - 1) : ~Crossing(s, k, x)
        <5>1. \A x \in 2 .. (i - 1) : x \in 2 .. n /\ x < i
          BY <1>1
        <5>2. QED
          BY <1>3, <5>1
      <4>3. FirstCrossing(s, k, i)
        BY <4>1, <4>2 DEF FirstCrossing
      <4>4. QED
        BY <4>1, <4>3, Zenon
    <3>4. j \in 1 .. Len(f) \/ j = Len(f) + 1
      <4> DEFINE ln == Len(f)
      <4>1. ln \in Nat /\ j \in 1 .. ln + 1
        BY <1>1
      <4> HIDE DEF ln
      <4>2. j \in 1 .. ln \/ j = ln + 1
        BY <4>1
      <4>3. QED
        BY <4>2 DEF ln
    <3>5. QED
      BY <3>2, <3>3, <3>4, Zenon
  <2>2. Above(s, k, 1) => Len(g) > 0 /\ g[1] = 1
    <3>1. SUFFICES ASSUME Above(s, k, 1) PROVE Len(g) > 0 /\ g[1] = 1
      OBVIOUS
    <3>2. Len(f) > 0 /\ f[1] = 1 /\ 1 \in 1 .. Len(f)
      BY <1>1, <1>3, <3>1
    <3>3. QED
      BY <1>1, <3>2
  <2>3. CASE r.more
    <3>1. r.found = g /\ r.i = i
      BY <1>2, <1>5
    <3>2. np > 0 => Len(g) < np
      BY <1>1, <1>2, <1>5, <2>3
    <3>3. ~(i > n)
      BY <1>1
    <3>4. SameFound(s, k, g, i)
      BY <1>3, <2>1, <2>2, <3>2, <3>3 DEF SameFound, n, np
    <3>5. QED
      BY <2>3, <3>1, <3>4 DEF r, n
  <2>4. CASE ~r.more
    <3>1. r.found = g /\ np > 0 /\ Len(g) = np
      BY <1>1, <1>2, <1>3, <1>5, <2>4
    <3>2. ~(n + 1 <= n)
      BY <1>1
    <3>3. SameFound(s, k, g, n + 1)
      BY <2>1, <2>2, <3>1, <3>2 DEF SameFound, n, np
    <3>4. QED
      BY <2>4, <3>1, <3>3 DEF r, n
  <2>5. QED
    BY <2>3, <2>4
<1>6. QED
  BY <1>4, <1>5

Known(s, k, f, i) ==
  /\ NA(k) > 0 \/ k.npeak = 1 => Found(s, k, f, i)
  /\ NA(k) = 0 /\ k.npeak # 1 => SameFound(s, k, f, i)

\* The channels of an event have their types, and while ComputeMode7fast searches the
\* samples of a channel of the ECAL it has found what Found or SameFound says.
FadcType == [crate : {37, 39}, slot : Int, chan : Channels, samples : Seq(Nat), beyond : Nat]
KnownSoFar ==
  /\ scan.i >= 2 /\ scan.chan <= Len(tree.fadc)
  /\ Place(Channel) \in DOMAIN setup.daq /\ OfSlot(Channel).NSA > 0
  /\ Known(Channel.samples, OfSlot(Channel), scan.found, scan.i)
ScanInv ==
  /\ tree.fadc \in Seq(FadcType)
  /\ pc = "parse" => scan \in [chan : Nat \ {0}, i : Nat, found : Seq(Nat)]
  /\ Searching => KnownSoFar

\* A channel of the ECAL has its samples, and its slot its settings.
LEMMA ChannelFacts ==
  ASSUME ConfInv, ScanInv, pc = "parse", scan.chan <= Len(tree.fadc), Place(Channel) \in DOMAIN setup.daq
  PROVE  /\ Channel.samples \in Seq(Nat)
         /\ OfSlot(Channel).npeak \in Int /\ OfSlot(Channel).NSA \in Int
<1> DEFINE ch == Channel
           c == CrateOf(ch.crate)
<1>1. scan.chan \in Nat \ {0} /\ tree.fadc \in Seq(FadcType)
  BY DEF ScanInv
<1>2. ch \in FadcType
  <2>1. Len(tree.fadc) \in Nat /\ DOMAIN tree.fadc = 1 .. Len(tree.fadc)
    BY <1>1
  <2>2. scan.chan \in DOMAIN tree.fadc
    BY <1>1, <2>1
  <2>3. QED
    BY <1>1, <2>2, ElementOf DEF Channel
<1>3. ch.samples \in Seq(Nat)
  BY <1>2 DEF FadcType
<1>4. c \in Crates /\ ch.slot \in DOMAIN conf.crates[c].slots
  <2>1. setup \in Setups /\ Place(ch)[1] = c /\ Place(ch)[2] = ch.slot
    BY DEF ConfInv, Place
  <2>2. c \in Crates
    BY DEF CrateOf, Crates
  <2>3. Place(ch)[2] \in DOMAIN conf.crates[Place(ch)[1]].slots
    BY DEF ConfInv
  <2>4. QED
    BY <2>1, <2>2, <2>3
<1>5. conf.crates[c].slots[ch.slot] \in SlotType
  <2>1. conf.crates[c].slots \in SlotMaps
    BY <1>4 DEF ConfInv, ConfType, CrateType
  <2>2. QED
    BY <1>4, <2>1, SlotsTyped
<1>6. /\ OfSlot(ch).npeak = conf.crates[c].slots[ch.slot].npeak
      /\ OfSlot(ch).NSA = conf.crates[c].slots[ch.slot].NSA
  BY DEF OfSlot
<1>7. QED
  BY <1>3, <1>5, <1>6 DEF SlotType

LEMMA ScanInit == Init => ScanInv
  BY DEF Init, ScanInv, NoTree, Searching

\* The loop over the channels begins when EvioTool::Next has returned.
LEMMA ScanBegins ==
  ASSUME AfterNext(ecal), (tree.fadc \in Seq(FadcType))'
  PROVE  ScanInv'
<1>1. scan' = [chan |-> 1, i |-> 0, found |-> <<>>]
  BY DEF AfterNext, NoScan
<1>2. scan' \in [chan : Nat \ {0}, i : Nat, found : Seq(Nat)] /\ ~(scan'.i > 0)
  BY <1>1
<1>3. QED
  BY <1>2 DEF ScanInv, Searching

\* The channels stay while they are searched.
LEMMA ScanKept ==
  ASSUME ParseFrame
  PROVE  tree' = tree /\ setup' = setup /\ conf' = conf
  BY DEF ParseFrame

LEMMA ScanRead ==
  ASSUME ConfInv, ScanInv, NextReads
  PROVE  ScanInv'
<1>1. PICK ev \in Places :
        tree' = [tag |-> ev.tag, fadc |-> IF ev.kind \in Parsed /\ setup.program = "reader" THEN ev.fadc ELSE <<>>,
                 ts |-> IF ev.kind \in Parsed THEN ev.ts ELSE NoTree.ts]
  BY DEF NextReads
<1>2. pc = "loop" /\ ~AtEnd /\ AfterNext(ecal)
  BY DEF NextReads
<1>3. tree'.fadc = IF ev.kind \in Parsed /\ setup.program = "reader" THEN ev.fadc ELSE <<>>
  BY <1>1
<1>4. ev.kind \in Parsed => ev.fadc \in Seq(FadcType)
  BY <1>2, EventFacts DEF FadcType
<1>5. tree'.fadc \in Seq(FadcType)
  BY <1>3, <1>4
<1>6. QED
  BY <1>2, <1>5, ScanBegins

\* The loop over the channels and the search in one of them.
LEMMA ScanParse ==
  ASSUME ConfInv, ScanInv, SkipChannel \/ StartChannel \/ Search \/ FinishChannel
  PROVE  ScanInv'
<1>1. tree' = tree /\ setup' = setup /\ conf' = conf /\ pc = "parse" /\ pc' = pc
  BY ScanKept DEF SkipChannel, StartChannel, Search, FinishChannel, InParse, Searching
<1>2. tree.fadc \in Seq(FadcType) /\ scan \in [chan : Nat \ {0}, i : Nat, found : Seq(Nat)]
  BY <1>1 DEF ScanInv
<1>3. ASSUME scan' = [chan |-> scan.chan + 1, i |-> 0, found |-> <<>>] \/ (scan' = [scan EXCEPT !.chan = @ + 1] /\ scan.i = 0)
      PROVE  ScanInv'
  <2>1. scan.chan \in Nat /\ scan.chan + 1 \in Nat \ {0} /\ <<>> \in Seq(Nat)
    BY <1>2
  <2>2. CASE scan' = [chan |-> scan.chan + 1, i |-> 0, found |-> <<>>]
    BY <1>1, <1>2, <2>1, <2>2 DEF ScanInv, Searching
  <2>3. CASE scan' = [scan EXCEPT !.chan = @ + 1] /\ scan.i = 0
    <3>1. scan' \in [chan : Nat \ {0}, i : Nat, found : Seq(Nat)] /\ scan'.i = 0
      BY <1>2, <2>1, <2>3
    <3>2. QED
      BY <1>1, <1>2, <3>1 DEF ScanInv, Searching
  <2>4. QED
    BY <1>3, <2>2, <2>3
<1>4. CASE SkipChannel
  BY <1>3, <1>4 DEF SkipChannel, InParse
<1>5. CASE FinishChannel
  BY <1>3, <1>5 DEF FinishChannel, StoreHits
<1> DEFINE ch == Channel
           k == OfSlot(ch)
           s == ch.samples
<1>6. ASSUME scan.chan <= Len(tree.fadc), Place(ch) \in DOMAIN setup.daq, k.NSA > 0,
             NEW f \in Seq(Nat), NEW i \in Nat, i >= 2,
             scan' = [scan EXCEPT !.i = i, !.found = f],
             Known(s, k, f, i)
      PROVE  ScanInv'
  <2>1. scan' \in [chan : Nat \ {0}, i : Nat, found : Seq(Nat)] /\ scan'.chan = scan.chan /\ scan'.i = i /\ scan'.found = f
    BY <1>2, <1>6
  <2>2. Channel' = ch
    BY <1>1, <2>1 DEF Channel
  <2>3. OfSlot(Channel)' = k /\ Place(Channel)' = Place(ch) /\ (Channel.samples)' = s
    BY <1>1, <2>2 DEF OfSlot, Place
  <2> HIDE DEF ch, k, s
  <2>4. KnownSoFar'
    BY <1>1, <1>6, <2>1, <2>3 DEF KnownSoFar
  <2>5. QED
    BY <1>1, <1>2, <2>1, <2>4 DEF ScanInv
<1>7. CASE StartChannel
  <2>1. InParse /\ Place(ch) \in DOMAIN setup.daq /\ scan.chan <= Len(tree.fadc)
    BY <1>7 DEF StartChannel, InParse
  <2>2. s \in Seq(Nat) /\ k.npeak \in Int /\ k.NSA \in Int
    BY <1>1, <2>1, ChannelFacts
  <2>3. CASE k.NSA <= 0
    BY <1>3, <1>7, <2>3 DEF StartChannel, StoreHits
  <2>4. CASE ~(k.NSA <= 0)
    <3>1. scan' = [scan EXCEPT !.i = 2, !.found = FirstCrossings(s, k)]
      BY <1>7, <2>4 DEF StartChannel
    <3>2. k.NSA > 0 /\ NA(k) \in Nat
      <4> DEFINE a == k.NSA
      <4>1. a \in Int /\ ~(a <= 0)
        BY <2>2, <2>4
      <4> HIDE DEF a
      <4>2. a > 0 /\ a \div 4 \in Nat
        BY <4>1
      <4>3. QED
        BY <4>2 DEF a, NA
    <3>3. FirstCrossings(s, k) \in Seq(Nat) /\ Found(s, k, FirstCrossings(s, k), 2)
      BY <2>2, <3>2, FoundFirst
    <3> DEFINE g == FirstCrossings(s, k)
    <3>4. g \in Seq(Nat) /\ Known(s, k, g, 2) /\ scan' = [scan EXCEPT !.i = 2, !.found = g]
      BY <2>2, <3>1, <3>3, SameFirst DEF Known
    <3>5. 2 \in Nat /\ 2 >= 2
      OBVIOUS
    <3> HIDE DEF k, s, ch, g
    <3>6. QED
      BY <1>6, <2>1, <3>2, <3>4, <3>5
  <2>5. QED
    BY <2>3, <2>4
<1>8. CASE Search
  <2>1. Searching /\ KnownSoFar /\ ~SearchDone
    BY <1>8 DEF Search, ScanInv
  <2>2. /\ scan.i >= 2 /\ scan.chan <= Len(tree.fadc) /\ Place(ch) \in DOMAIN setup.daq /\ k.NSA > 0
        /\ Known(s, k, scan.found, scan.i)
    BY <2>1 DEF KnownSoFar
  <2>3. s \in Seq(Nat) /\ k.npeak \in Int /\ k.NSA \in Int
    BY <1>1, <2>2, ChannelFacts
  <2>4. NA(k) \in Nat
    <3> DEFINE a == k.NSA
    <3>1. a \in Int /\ a > 0
      BY <2>2, <2>3
    <3> HIDE DEF a
    <3>2. a \div 4 \in Nat
      BY <3>1
    <3>3. QED
      BY <3>2 DEF a, NA
  <2>5. scan.i \in Nat /\ scan.i <= Len(s) /\ scan.found \in Seq(Nat)
    BY <1>2, <2>1, <2>3 DEF SearchDone
  <2> DEFINE r == SearchStep(s, k, scan.i, scan.found)
             next == IF r.more THEN r.i ELSE Len(s) + 1
             found == IF Again(r) THEN scan.found ELSE r.found
  <2>6. scan' = [scan EXCEPT !.found = found, !.i = next]
    BY <1>8 DEF Search
  <2>7. r.found \in Seq(Nat) /\ next \in Nat /\ next >= 2
    <3> DEFINE A == NA(k)
               i == scan.i
               f == scan.found
               n == Len(s)
    <3>1. /\ r.found = f \/ r.found = Append(f, i)
          /\ r.i = i + A \/ r.i = i + 1
      BY DEF SearchStep
    <3>2. i \in Nat /\ A \in Nat /\ f \in Seq(Nat) /\ n \in Nat /\ i >= 2 /\ i <= n
      BY <2>2, <2>3, <2>4, <2>5
    <3>3. next = r.i \/ next = n + 1
      OBVIOUS
    <3> HIDE DEF A, i, f, n, r, s, k, ch, next
    <3>4. Append(f, i) \in Seq(Nat)
      BY <3>2
    <3>5. r.found \in Seq(Nat)
      BY <3>1, <3>2, <3>4, Zenon
    <3>6. QED
      BY <3>1, <3>2, <3>3, <3>5
  <2>8. found \in Seq(Nat)
    BY <2>5, <2>7
  <2>9. Known(s, k, found, next)
    <3>1. Known(s, k, r.found, next)
      <4>1. NA(k) > 0 \/ k.npeak = 1 => Found(s, k, r.found, next)
        BY <2>2, <2>3, <2>4, <2>5, FoundNext DEF Known
      <4>2. NA(k) = 0 /\ k.npeak # 1 => SameFound(s, k, r.found, next)
        BY <2>2, <2>3, <2>5, SameNext DEF Known
      <4>3. QED
        BY <4>1, <4>2 DEF Known
    <3>2. CASE ~Again(r)
      BY <3>1, <3>2
    <3>3. CASE Again(r)
      <4>1. Known(s, k, scan.found, scan.i) /\ r.i = scan.i /\ k.npeak <= 0
        BY <2>2, <3>3 DEF Again
      <4>2. r.more
        <5> DEFINE np == k.npeak
        <5>1. np \in Int /\ np <= 0 /\ (r.more <=> ~((Above(s, k, scan.i) /\ Below(s, k, scan.i - 1))
                                                     /\ np > 0 /\ Len(scan.found) + 1 >= np))
          BY <2>3, <4>1 DEF SearchStep
        <5> HIDE DEF np, r
        <5>2. ~(np > 0)
          BY <5>1
        <5>3. QED
          BY <5>1, <5>2
      <4>3. next = scan.i
        BY <4>1, <4>2
      <4>4. QED
        BY <3>3, <4>1, <4>3
    <3>4. QED
      BY <3>2, <3>3
  <2>10. scan' = [scan EXCEPT !.i = next, !.found = found]
    BY <2>6
  <2> HIDE DEF r, next, k, s, ch, found
  <2>11. QED
    BY <1>6, <2>2, <2>7, <2>8, <2>9, <2>10
<1>9. QED
  BY <1>4, <1>5, <1>7, <1>8

LEMMA ScanStep ==
  ASSUME ConfInv, ScanInv, [Next]_vars
  PROVE  ScanInv'
<1>1. CASE UNCHANGED vars \/ Exit
  BY <1>1 DEF ScanInv, KnownSoFar, Searching, Channel, Place, OfSlot, vars, Exit
<1>2. CASE NextFails
  <2>1. tree' = tree /\ AfterNext(ecal)
    BY <1>2 DEF NextFails
  <2>2. QED
    BY <2>1, ScanBegins DEF ScanInv
<1>3. CASE NextReads
  BY <1>3, ScanRead
<1>4. CASE SkipChannel \/ StartChannel \/ Search \/ FinishChannel
  BY <1>4, ScanParse
<1>5. CASE Open \/ ParseReturns \/ FindGTPClusters \/ Use \/ Close
  <2>1. tree' = tree /\ pc' # "parse"
    BY <1>5 DEF Open, ParseReturns, FindGTPClusters, Use, Close,
       StartSeed, Walk, StoreCluster, ClustersDone, ClusterFrame
  <2>2. QED
    BY <2>1 DEF ScanInv, Searching
<1>6. QED
  BY <1>1, <1>2, <1>3, <1>4, <1>5 DEF Next, Parse

\* When the search is over, it has found the pulses of the channel.
LEMMA ScanFinds == ConfInv /\ ScanInv => PulsesFound
<1> DEFINE k == OfSlot(Channel)
           s == Channel.samples
           f == scan.found
           kept == {f[j] : j \in DOMAIN f}
           IsFirstSample(j) == j = 1 /\ f[j] = 1 /\ Above(s, k, 1)
           Kept ==
             /\ \A j \in DOMAIN f : Crossing(s, k, f[j]) \/ IsFirstSample(j)
             /\ \A j \in 1 .. (Len(f) - 1) : f[j] < f[j + 1] /\ (f[j] > 1 => f[j] + NA(k) <= f[j + 1])
             /\ k.npeak > 0 => Cardinality(kept) <= MostKept(s, k)
             /\ \A x \in 2 .. Len(s) : Crossing(s, k, x) /\ x \notin kept =>
                  \/ \E c \in kept \ {1} : c < x /\ x < c + NA(k)
                  \/ k.npeak > 0 /\ Cardinality({c \in kept : c < x}) >= MostKept(s, k)
           Same ==
             /\ \A j \in DOMAIN f : IsFirstSample(j) \/
                  (Crossing(s, k, f[j]) /\ \A x \in 2 .. (f[j] - 1) : ~Crossing(s, k, x))
             /\ (\E x \in 2 .. Len(s) : Crossing(s, k, x)) => k.npeak > 0 /\ Len(f) = k.npeak
<1>1. SUFFICES ASSUME ConfInv, ScanInv, Searching, SearchDone
               PROVE  /\ Above(s, k, 1) => 1 \in kept
                      /\ (NA(k) > 0 \/ k.npeak = 1) => Kept
                      /\ (NA(k) = 0 /\ k.npeak # 1) => Same
  BY DEF PulsesFound
<1>2. /\ scan.chan <= Len(tree.fadc) /\ Place(Channel) \in DOMAIN setup.daq /\ k.NSA > 0
      /\ Known(s, k, f, scan.i) /\ pc = "parse"
  BY <1>1 DEF ScanInv, KnownSoFar, Searching
<1>3. s \in Seq(Nat) /\ k.npeak \in Int /\ k.NSA \in Int
  BY <1>1, <1>2, ChannelFacts
<1>4. NA(k) \in Nat
  <2> DEFINE a == k.NSA
  <2>1. a \in Int /\ a > 0
    BY <1>2, <1>3
  <2> HIDE DEF a
  <2>2. a \div 4 \in Nat
    BY <2>1
  <2>3. QED
    BY <2>2 DEF a, NA
<1>5. f \in Seq(Nat) /\ scan.i \in Nat /\ scan.i > Len(s)
  BY <1>1, <1>2 DEF ScanInv, SearchDone
<1> HIDE DEF k, s, f
<1>6. CASE NA(k) > 0 \/ k.npeak = 1
  <2>1. Found(s, k, f, scan.i)
    BY <1>2, <1>6 DEF Known
  <2>2. (Above(s, k, 1) => 1 \in kept) /\ Kept
    BY <1>3, <1>4, <1>5, <2>1, FoundAll
  <2>3. ~(NA(k) = 0 /\ k.npeak # 1)
    BY <1>6
  <2>4. QED
    BY <2>2, <2>3
<1>7. CASE NA(k) = 0 /\ k.npeak # 1
  <2>1. SameFound(s, k, f, scan.i)
    BY <1>2, <1>7 DEF Known
  <2>2. Above(s, k, 1) => 1 \in kept
    <3>1. SUFFICES ASSUME Above(s, k, 1) PROVE 1 \in kept
      OBVIOUS
    <3>2. f[1] = 1 /\ 1 \in DOMAIN f
      BY <1>5, <2>1, <3>1 DEF SameFound
    <3>3. QED
      BY <3>2
  <2>3. Same
    BY <1>5, <2>1 DEF SameFound, FirstCrossing
  <2>4. ~(NA(k) > 0 \/ k.npeak = 1)
    BY <1>7
  <2>5. QED
    BY <2>2, <2>3, <2>4
<1>8. QED
  BY <1>4, <1>6, <1>7

\* ComputeMode7fast finds the pulses of a channel, whatever its samples and the settings
\* of its slot are.
THEOREM PulsesAreFound == Spec => []PulsesFound
<1>1. Init => ConfInv /\ ScanInv
  BY ConfInit, ScanInit
<1>2. ConfInv /\ ScanInv /\ [Next]_vars => ConfInv' /\ ScanInv'
  BY ConfStep, ScanStep
<1>3. ConfInv /\ ScanInv => PulsesFound
  BY ScanFinds
<1>4. QED
  BY <1>1, <1>2, <1>3, PTL DEF Spec
=============================================================================
