--------------------------- MODULE MCHPSEvioReader ---------------------------
(***************************************************************************)
(* Instances of HPSEvioReader: one family of setups for each part.          *)
(***************************************************************************)
EXTENDS HPSEvioReader

NoTs == [size |-> 0, bits |-> {}, fcup |-> FALSE]
Ts(size, bits, fcup) == [size |-> size, bits |-> bits, fcup |-> fcup]

\* SVT banks as sequences of frames, frames as sequences of samples
Frame(f) == <<[mark |-> "header", size |-> Len(f) + 2, id |-> 0]>> \o f \o <<[mark |-> "tail", size |-> 0, id |-> 0]>>
Sample(i) == [mark |-> "sample", size |-> 0, id |-> i]
Apv(i) == [mark |-> "header", size |-> 0, id |-> i]
SvtBank(frames) == FlattenSeq([j \in DOMAIN frames |-> Frame(frames[j])])
SvtIds(banks) == LET units == SelectSeq(FlattenSeq(FlattenSeq(banks)), LAMBDA u : u.mark = "sample")
                 IN  [j \in DOMAIN units |-> units[j].id]

Word(type, i) == [type |-> type, id |-> i]
VtpIds(banks) == LET words == SelectSeq(FlattenSeq(banks), LAMBDA w : w.type = "hps")
                 IN  [j \in DOMAIN words |-> words[j].id]

Event(kind, tag, lines, fadc, vtpBanks, svtBanks, ts) ==
    [kind |-> kind, tag |-> tag, lines |-> lines, fadc |-> fadc, ts |-> ts,
     vtp |-> vtpBanks, vtpIds |-> VtpIds(vtpBanks),
     svt |-> [j \in DOMAIN svtBanks |-> SvtBank(svtBanks[j])], svtIds |-> SvtIds(svtBanks)]
Unreadable == [kind |-> "unreadable"]

Setup(program, from, lines, daq, files, filter) ==
    [program |-> program, from |-> from, lines |-> lines, daq |-> daq, files |-> files, filter |-> filter]
NoFilter == [bits |-> {}, exclusive |-> FALSE, fcup |-> FALSE]

------------------------------------------------------------------------------
(* Pulses: one channel with any samples and many settings of its slot, some of  *)
(* them with an empty window (NSA < 4)                                          *)

SlotLines(seed, NSA, NSB, npeak, tet, ped4) ==
    <<Line("VTP_CRATE", 1, 0), Line("ECAL_CLUSTER_SEED_THR", seed, 0), Line("ECAL_CLUSTER_HIT_DT", 8, 0),
      Line("FADC250_CRATE", 1, 0), Line("FADC250_SLOT", 3, 0), Line("NSA", NSA, 0), Line("NSB", NSB, 0),
      Line("npeak", npeak, 0), Line("TET", tet, 0), Line("ALLCH_PED", ped4, 0), Line("ALLCH_GAIN", 1, 0)>>
ConfigEvent(lines) == Event("config", 17, lines, <<>>, <<>>, <<>>, NoTs)
Fadc(crate, slot, chan, samples, beyond) ==
    [crate |-> crate, slot |-> slot, chan |-> chan, samples |-> samples, beyond |-> beyond]
Physics(fadc) == Event("physics", 128, <<>>, fadc, <<>>, <<>>, NoTs)
Reader(lines, daq, events) ==
    Setup("reader", "bank", <<>>, daq, << << <<"config", lines>>, events >> >>, NoFilter)

OneChannel == <<1, 3, 0>> :> <<5, 2>>
AnySamples == {Physics(<<Fadc(37, 3, 0, s, 0)>>) : s \in [1..6 -> {0, 2, 4}]}
PulseSettings == {<<0, 1, 4>>, <<3, 0, 4>>, <<3, 1, 4>>, <<3, 2, 4>>, <<4, 1, 0>>, <<4, 0, 4>>, <<4, 2, 0>>, <<9, 0, 4>>, <<9, 2, 0>>}
PulseSetup(k) == Reader(SlotLines(1, k[1], 4, k[2], 1, k[3]), OneChannel, <<"samples">>)

------------------------------------------------------------------------------
(* Clusters: a seed at each crystal with hits all around it; and three neighbours *)
(* with pulses of different size and time                                       *)

Pulse(t, h) == [i \in 1..9 |-> IF i = t THEN h ELSE IF i = t + 1 THEN h \div 2 ELSE 0]
TwoPulses(t, h, u, g) == [i \in 1..9 |-> IF i = t THEN h ELSE IF i = u THEN g ELSE 0]
ClusterLines == SlotLines(1, 4, 4, 2, 1, 1)
Trio == (<<1, 3, 0>> :> <<-1, 2>>) @@ (<<1, 3, 1>> :> <<1, 1>>) @@ (<<2, 3, 0>> :> <<1, 2>>)
Shapes == {Pulse(5, 9), Pulse(5, 20), Pulse(8, 9), TwoPulses(5, 9, 8, 9), TwoPulses(5, 9, 8, 20), Pulse(5, 0)}
TwoCrates(lines) == lines \o <<Line("FADC250_CRATE", 2, 0), Line("NSA", 4, 0), Line("npeak", 2, 0),
                               Line("TET", 1, 0), Line("ALLCH_PED", 1, 0), Line("ALLCH_GAIN", 1, 0)>>
ClusterSetup == Reader(TwoCrates(ClusterLines), Trio, <<"trio">>)
TrioEvents ==
    {Physics(<<Fadc(37, 3, 0, a, 9), Fadc(37, 3, 1, b, 9), Fadc(39, 3, 0, Pulse(5, 9), 9)>>) :
        a \in Shapes, b \in Shapes}

\* all crystals two steps from c have a hit smaller than that of c
Block(c) == InOrder({p \in Crystals : /\ p[1] \in {PrevX(PrevX(c[1])), NextX(NextX(c[1]))} \cup (c[1] - 1)..(c[1] + 1)
                                          /\ p[2] \in (c[2] - 2)..(c[2] + 2)})
ChannelNo(j) == <<1 + (j - 1) \div 13, 3, (j - 1) % 13>>
WalkSetup(c) ==
    LET block == Block(c)
    IN  Reader(TwoCrates(SlotLines(8, 4, 4, 2, 1, 1)),
               [ch \in {ChannelNo(j) : j \in DOMAIN block} |-> block[13 * (ch[1] - 1) + ch[3] + 1]],
               <<"block", Len(block), CHOOSE j \in DOMAIN block : block[j] = c>>)
BlockEvent(n, seed) ==
    Physics([j \in 1..n |-> Fadc(IF j <= 13 THEN 37 ELSE 39, 3, (j - 1) % 13, <<0, IF j = seed THEN 9 ELSE 6>>, 0)])

------------------------------------------------------------------------------
(* Settings: all short sequences of these lines, from the file or the bank      *)

SomeLines == {Line("FADC250_CRATE", 1, 0), Line("FADC250_CRATE", 2, 0),
              Line("FADC250_SLOT", All, 0), Line("FADC250_SLOT", 3, 0), Line("NSA", 8, 0),
              Line("TET", 20, 0), Line("CH_TET", 30, 0)}
LineSequences(n) ==
    {<<Line("FADC250_CRATE", 1, 0), Line("NSA", 4, 0), Line("FADC250_CRATE", Other, 0)>> \o l : l \in [1..n -> SomeLines]}
AnyConfig == {ConfigEvent(l) : l \in LineSequences(4)}
FromFile(lines) == Setup("reader", "file", lines, OneChannel, << <<>> >>, NoFilter)
FromBank == Setup("reader", "bank", <<>>, OneChannel, << << <<"anyconfig">> >> >>, NoFilter)

------------------------------------------------------------------------------
(* Files: what one event leaves behind for the next                             *)

Time == <<Word("time", 0), Word("none", 0)>>
SomeEvents ==
    {Event("physics", 128, <<>>, <<>>, << Time \o <<Word("hps", 1), Word("none", 1)>> >>,
           << <<<<Sample(1), Apv(9), Sample(2)>>, <<>>>>, <<<<Sample(3)>>>> >>, NoTs),
     Event("physics", 128, <<>>, <<Fadc(37, 3, 0, Pulse(5, 9), 0), Fadc(37, 4, 0, Pulse(5, 9), 0)>>,
           <<<<Word("hps", 2)>>, <<Word("hps", 3)>>>>, <<>>, NoTs),
     Event("physics", 128, <<>>, <<Fadc(37, 3, 0, Pulse(8, 9), 0)>>, <<>>, << <<<<Sample(4)>>>> >>, NoTs),
     Event("skipped", 20, <<>>, <<>>, <<>>, <<>>, NoTs), Event("bare", 17, <<>>, <<>>, <<>>, <<>>, NoTs),
     ConfigEvent(ClusterLines), ConfigEvent(<<Line("FADC250_CRATE", 1, 0), Line("NSA", 8, 0)>>), Unreadable}
FilesSetup == Setup("reader", "bank", <<>>, OneChannel, << << <<"some">>, <<"some">>, <<"some">> >>, <<>> >>, NoFilter)
TrigFileSetup == Setup("reader", "file", ClusterLines, OneChannel, << << <<"some">>, <<"some">> >> >>, NoFilter)

------------------------------------------------------------------------------
(* Filters                                                                      *)

Triggers == {{}, {"pair1"}, {"pair1", "fee"}, {"fee"}}
Triggered(size, bits, fcup) == Event("physics", 128, <<>>, <<>>, <<>>, <<>>, Ts(size, bits, fcup))
FilterEvents ==
    {Triggered(7, b, FALSE) : b \in Triggers}
    \cup {Triggered(7, {}, TRUE), Triggered(5, {"pair1"}, FALSE), Unreadable,
          Event("skipped", 20, <<>>, <<>>, <<>>, <<>>, NoTs), Event("bare", 128, <<>>, <<>>, <<>>, <<>>, NoTs)}
FilterSetup(bits, exclusive, fcup) ==
    Setup("filter", "bank", <<>>, OneChannel, << << <<"filter">>, <<"filter">> >>, << <<"filter">> >> >>,
          [bits |-> bits, exclusive |-> exclusive, fcup |-> fcup])

------------------------------------------------------------------------------

MCChannels == 0..12
MCSetups ==
    {PulseSetup(k) : k \in PulseSettings} \cup {WalkSetup(c) : c \in Crystals}
    \cup {ClusterSetup, FilesSetup, TrigFileSetup, FromBank} \cup {FromFile(l) : l \in LineSequences(3)}
    \cup {FilterSetup({"pair1", "fee"}, x, f) : x \in BOOLEAN, f \in BOOLEAN} \cup {FilterSetup({}, TRUE, FALSE)}
MCEventsAt(place) ==
    CASE place[1] = "config" -> {ConfigEvent(place[2])}
      [] place[1] = "anyconfig" -> AnyConfig
      [] place[1] = "samples" -> AnySamples
      [] place[1] = "trio" -> TrioEvents
      [] place[1] = "block" -> {BlockEvent(place[2], place[3])}
      [] place[1] = "some" -> SomeEvents
      [] place[1] = "filter" -> FilterEvents
=============================================================================
