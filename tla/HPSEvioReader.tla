---------------------------- MODULE HPSEvioReader ----------------------------
(***************************************************************************)
(* HPSEvioReader: EvioTool with the banks of the HPS experiment, and the    *)
(* loops over files that programs run on it: one that reads (the test       *)
(* programs) and HPS_Trigger_Filter, which copies events by their trigger.  *)
(*                                                                         *)
(* What EvioTool::Next does is the subject of EvioToolSource and            *)
(* EvioParser; here it is one step that delivers the data of the banks and  *)
(* runs their callbacks.  HPSEvioReader::Next then runs the ECAL code, loop *)
(* by loop.                                                                 *)
(***************************************************************************)
EXTENDS EcalBank, TriggerConfig

CONSTANTS
    Setups,         \* a program, its DAQ map and trigger file, and the files it is given
    EventsAt(_)     \* a file is a sequence of places: the events that may be at a place

IsSequence(q) == Len(q) \in Nat /\ DOMAIN q = 1..Len(q)

ASSUME SetupsAssumption ==
    \A u \in Setups :
        /\ u.program \in {"reader", "filter"} /\ u.from \in {"file", "bank"}
        /\ \A c, d \in DOMAIN u.daq : u.daq[c] \in Crystals /\ (u.daq[c] = u.daq[d] => c = d)
        /\ \A c \in DOMAIN u.daq : c \in Crates \X (Int \ {All}) \X Channels
        /\ u.lines \in Seq(Lines) /\ IsSequence(u.files) /\ \A f \in DOMAIN u.files : IsSequence(u.files[f])

\* "physics" and "config" events have banks; one without a bank of the trigger has no trigger
Parsed == {"physics", "config"}
ASSUME EventsAssumption ==
    \A u \in Setups : \A f \in DOMAIN u.files : \A i \in DOMAIN u.files[f] :
      \A ev \in EventsAt(u.files[f][i]) :
        /\ ev.kind \in Parsed \cup {"skipped", "bare", "unreadable"}
        /\ ev.kind \in Parsed =>
              /\ ev.lines \in Seq(Lines)
              /\ ev.fadc \in Seq([crate : {37, 39}, slot : Int, chan : Channels, samples : Seq(Nat), beyond : Nat])
              \* (a first frame of size 0 makes frame_end negative: the loop leaves the bank)
              /\ \A b \in DOMAIN ev.svt : ev.svt[b] # <<>> => ev.svt[b][1].size > 0
              /\ ev.ts.size \in {5, 7} \/ ev.ts = [size |-> 0, bits |-> {}, fcup |-> FALSE]

VARIABLES
    setup,      \* member of Setups, set when the program starts
    conf,       \* TrigConf
    ecal,       \* EcalBank: [is_configured, seed (cluster_seed_thresh), dt (cluster_hit_dt)]
    at,         \* [file, next]: the file being read, the number of its next event
    tree,       \* data of the leafs, and this_tag
    vtp, svt,   \* what VTPBank and SVTBank decoded
    hitmap, clusters,
    pc,         \* where the program is
    scan,       \* variables of the loops of Parse and FindGTPClusters
    stat,       \* result of the last Next
    out,        \* events in the output file
    \* history
    parsed,     \* lines parsed by TriggerConfig, one sequence for each parse
    current,    \* the event read last
    read        \* what was at the places read, each with the number of its file

vars == <<setup, conf, ecal, at, tree, vtp, svt, hitmap, clusters, pc, scan, stat, out,
          parsed, current, read>>

NoTree == [tag |-> 0, fadc |-> <<>>, ts |-> [size |-> 0, bits |-> {}, fcup |-> FALSE]]
NoScan == [chan |-> 1, i |-> 0, found |-> <<>>]
NoHits == [c \in {} |-> <<>>]
NoEvent == [kind |-> "none"]

------------------------------------------------------------------------------
(* The banks                                                                    *)

CrateOf(tag) == IF tag = 37 THEN 1 ELSE 2      \* GetCrateNum, of the tags of the ECAL bank

\* VTPBank::ParseBank: a trigger time takes two words; the second word of a
\* cluster has no type and is passed over
VtpWord(v, w) ==
    CASE v.skip -> [v EXCEPT !.skip = FALSE]
      [] w.type = "time" -> [v EXCEPT !.skip = TRUE]
      [] w.type = "hps" -> [v EXCEPT !.found = Append(@, w.id)]
      [] OTHER -> v
ParseVTP(words) == FoldLeft(VtpWord, [skip |-> FALSE, found |-> <<>>], words).found

\* mutant: what is decoded is added to what was there
VtpKeep(old, banks) == IF banks = <<>> THEN old ELSE old \o ParseVTP(FlattenSeq(banks))

\* The leaf is cleared with the other leafs, what was decoded only when the bank
\* is parsed; each bank of the event is added to the leaf and the leaf parsed anew.
VtpCallBacks(old, banks) == IF banks = <<>> THEN old ELSE ParseVTP(FlattenSeq(banks))

\* EcalBank::Config
Config(e, c, tag) ==
    CASE tag # 17 -> e
      [] "ECAL_CLUSTER_SEED_THR" \notin DOMAIN c.vtp -> [e EXCEPT !.is_configured = FALSE]
      [] OTHER -> [is_configured |-> TRUE, seed |-> c.vtp["ECAL_CLUSTER_SEED_THR"],
                   dt |-> c.vtp["ECAL_CLUSTER_HIT_DT"]]

\* TSBank::GetTriggerInt: of the five words of 2015 and 2016 only some bits are
\* assigned, the others are what the stack holds ("other" is any bit not asked for).
Bits2016 == {"single0", "single1", "pair0", "pair1", "cosmic", "pulser"}
TriggerBits(ts) ==
    CASE ts.size = 7 -> {ts.bits}
      [] ts.size = 5 -> {(ts.bits \cap Bits2016) \cup junk : junk \in SUBSET ((setup.filter.bits \cup {"other"}) \ Bits2016)}
      [] OTHER -> {{}}
IsFCup(ts) == ts.size \in {5, 7} /\ ts.fcup

------------------------------------------------------------------------------

Init ==
    /\ setup \in Setups
    /\ \/ setup.from = "bank" /\ parsed = <<>> /\ conf = InitDAQMaps(EmptyConf, DOMAIN setup.daq)
       \/ /\ setup.from = "file" /\ parsed = <<setup.lines>>
          /\ conf = InitDAQMaps(Parse_raw_data(EmptyConf, setup.lines), DOMAIN setup.daq)
    /\ ecal = [is_configured |-> FALSE, seed |-> 100, dt |-> 16]
    /\ at = [file |-> 0, next |-> 1] /\ pc = "closed"
    /\ tree = NoTree /\ vtp = <<>> /\ svt = <<>> /\ hitmap = NoHits /\ clusters = <<>>
    /\ scan = NoScan /\ stat = "S_SUCCESS" /\ out = <<>> /\ current = NoEvent /\ read = <<>>

\* the loop over the files
Open ==
    /\ pc = "closed" /\ at.file < Len(setup.files)
    /\ at' = [file |-> at.file + 1, next |-> 1] /\ pc' = "loop"
    /\ UNCHANGED <<setup, conf, ecal, tree, vtp, svt, hitmap, clusters, scan, stat, out, parsed, current, read>>

\* HPSEvioReader::Next once EvioTool::Next has returned: it goes on whatever the status
AfterNext(e) ==
    /\ ecal' = IF setup.program = "filter" THEN e ELSE Config(e, conf', tree'.tag)
    /\ pc' = IF ecal'.is_configured THEN "parse" ELSE "returned"
    /\ scan' = NoScan
    /\ hitmap' = IF ecal'.is_configured THEN NoHits ELSE hitmap

\* what may be at the place of the file that is read next
Places == EventsAt(setup.files[at.file][at.next])
AtEnd == at.next > Len(setup.files[at.file])
Passes(ev) == at' = [at EXCEPT !.next = @ + 1] /\ read' = Append(read, [file |-> at.file, ev |-> ev])

\* the end of the file, or an error of evio: nothing is cleared
NextFails ==
    /\ pc = "loop"
    /\ \/ AtEnd /\ stat' = "EOF" /\ UNCHANGED <<at, read>>
       \/ ~AtEnd /\ stat' = "ERROR" /\ \E ev \in Places : ev.kind = "unreadable" /\ Passes(ev)
    /\ UNCHANGED <<conf, tree>> /\ AfterNext(ecal)
    /\ UNCHANGED <<setup, vtp, svt, clusters, out, parsed, current>>

\* An event: "physics" and "config" pass CheckTag; "skipped" does not, and "bare" is
\* no container. The event is cleared and parsed, with the callbacks of its banks.
NextReads ==
    /\ pc = "loop" /\ ~AtEnd
    /\ \E ev \in Places :
        LET has == ev.kind \in Parsed
            lines == IF has /\ setup.from = "bank" THEN ev.lines ELSE <<>>
        IN  /\ ev.kind # "unreadable" /\ Passes(ev)
            /\ current' = ev
            /\ stat' = IF ev.kind = "bare" THEN "ABORTED" ELSE "S_SUCCESS"
            /\ tree' = [tag |-> ev.tag, fadc |-> IF has /\ setup.program = "reader" THEN ev.fadc ELSE <<>>,
                        ts |-> IF has THEN ev.ts ELSE NoTree.ts]
            /\ conf' = IF lines = <<>> THEN conf ELSE Parse_raw_data(conf, lines)
            /\ parsed' = IF lines = <<>> THEN parsed ELSE Append(parsed, lines)
            /\ vtp' = VtpCallBacks(vtp, IF has THEN ev.vtp ELSE <<>>)
            /\ svt' = IF has /\ setup.program = "reader" THEN FoldLeft(PushSVT, <<>>, ev.svt) ELSE <<>>
    /\ AfterNext(ecal)
    /\ UNCHANGED <<setup, clusters, out>>

------------------------------------------------------------------------------
(* EcalBank::Parse                                                              *)

Channel == tree.fadc[scan.chan]
Place(ch) == <<CrateOf(ch.crate), ch.slot, ch.chan>>
OfSlot(ch) ==
    LET s == conf.crates[CrateOf(ch.crate)].slots[ch.slot]
    IN  [NSA |-> s.NSA, NSB |-> s.NSB, npeak |-> s.npeak, threshold |-> s.threshold[ch.chan],
         pedestal4 |-> s.pedestal4[ch.chan], gain |-> s.gain[ch.chan]]

InParse == pc = "parse" /\ scan.chan <= Len(tree.fadc) /\ scan.i = 0
ParseFrame == UNCHANGED <<setup, conf, ecal, at, tree, vtp, svt, clusters, stat, out, parsed, current, read>>

\* a channel that is not the ECAL's
SkipChannel ==
    /\ InParse /\ Place(Channel) \notin DOMAIN setup.daq
    /\ scan' = [scan EXCEPT !.chan = @ + 1]
    /\ UNCHANGED <<hitmap, pc>> /\ ParseFrame

StoreHits(found) ==
    /\ hitmap' = (setup.daq[Place(Channel)] :> Hits(Channel, OfSlot(Channel), found)) @@ hitmap
    /\ scan' = [chan |-> scan.chan + 1, i |-> 0, found |-> <<>>]

\* ComputeMode7fast, up to its loop
StartChannel ==
    /\ InParse /\ Place(Channel) \in DOMAIN setup.daq
    /\ LET k == OfSlot(Channel)
       IN  IF k.NSA <= 0 THEN StoreHits(<<>>)
           ELSE /\ scan' = [scan EXCEPT !.i = 2, !.found = FirstCrossings(Channel.samples, k)]
                /\ hitmap' = hitmap
    /\ UNCHANGED pc /\ ParseFrame

Searching == pc = "parse" /\ scan.i > 0
SearchDone == scan.i > Len(Channel.samples)

\* With an empty window the search comes to the same crossing again; without a number of
\* peaks nothing ends it, and the crossings fill the memory. Bound: the model keeps one.
Again(r) == r.i = scan.i /\ OfSlot(Channel).npeak <= 0 /\ scan.i \in ToSet(scan.found)

Search ==
    /\ Searching /\ ~SearchDone
    /\ LET r == SearchStep(Channel.samples, OfSlot(Channel), scan.i, scan.found)
       IN  scan' = [scan EXCEPT !.found = IF Again(r) THEN @ ELSE r.found,
                                !.i = IF r.more THEN r.i ELSE Len(Channel.samples) + 1]
    /\ UNCHANGED <<hitmap, pc>> /\ ParseFrame

FinishChannel ==
    /\ Searching /\ SearchDone
    /\ StoreHits(scan.found)
    /\ UNCHANGED pc /\ ParseFrame

------------------------------------------------------------------------------
(* EcalBank::FindGTPClusters                                                    *)

\* the order of the map
Before(c, d) == c[1] < d[1] \/ (c[1] = d[1] /\ c[2] < d[2])
InOrder(S) == [j \in 1..Cardinality(S) |-> CHOOSE c \in S : Cardinality({d \in S : Before(d, c)}) = j - 1]

\* The seeds, in the order the loops come to them: a crystal and one of its hits
Seeds ==
    LET Tried(c) == [i \in DOMAIN hitmap[c] |-> <<c, i>>]
        all == InOrder(DOMAIN hitmap)
    IN  SelectSeq(FlattenSeq([j \in DOMAIN all |-> Tried(all[j])]),
                  LAMBDA s : hitmap[s[1]][s[2]].energy4 >= 4 * ecal.seed)

Hit(s) == hitmap[s[1]][s[2]]

\* mutant: the loop over the channels starts anew
ParseAgain ==
    /\ pc = "parse" /\ scan.chan > Len(tree.fadc) /\ scan.i = 0
    /\ scan' = NoScan /\ UNCHANGED <<hitmap, pc>> /\ ParseFrame

ParseReturns ==
    /\ pc = "parse" /\ scan.chan > Len(tree.fadc) /\ scan.i = 0
    /\ clusters' = <<>> /\ pc' = "seed" /\ scan' = [seeds |-> Seeds]
    /\ UNCHANGED <<setup, conf, ecal, at, tree, vtp, svt, hitmap, stat, out, parsed, current, read>>

ClusterFrame == UNCHANGED <<setup, conf, ecal, at, tree, vtp, svt, hitmap, stat, out, parsed, current, read>>

\* The cluster starts with hit 0 of the crystal, whichever hit is the seed: of its
\* field seed the code keeps only the crystal.
StartSeed ==
    /\ pc = "seed" /\ scan.seeds # <<>>
    /\ LET c == Head(scan.seeds)[1]
       IN  scan' = [seeds |-> scan.seeds, p |-> Begin(c), end |-> End(c), ok |-> TRUE,
                    cluster |-> [seed |-> Head(scan.seeds), hits |-> <<>>, energy4 |-> hitmap[c][1].energy4]]
    /\ pc' = "walk" /\ UNCHANGED clusters /\ ClusterFrame

\* Hit j of a crystal ends the loop over its hits: it has more energy than the seed,
\* or it is out of time.
Larger(h, s) == h.energy4 > Hit(s).energy4
Late(h, s) ==
    LET dt == h.time - Hit(s).time
    IN  (IF dt < 0 THEN -dt ELSE dt) > 1000 * ecal.dt

\* One turn of the loop around the seed. A hit with more energy ends the walk.
Walk ==
    /\ pc = "walk" /\ scan.p # scan.end /\ scan.ok
    /\ LET s == scan.cluster.seed
           hits == IF scan.p \in DOMAIN hitmap THEN hitmap[scan.p] ELSE <<>>
           stops == {j \in DOMAIN hits : Larger(hits[j], s) \/ Late(hits[j], s)}
           n == IF stops = {} THEN Len(hits) ELSE Min(stops) - 1
       IN  scan' = [scan EXCEPT
                      !.p = Advance(scan.p, s[1]),
                      !.ok = stops = {} \/ ~Larger(hits[Min(stops)], s),
                      !.cluster.hits = @ \o [j \in 1..n |-> <<scan.p, j>>],
                      !.cluster.energy4 = @ + Sum([j \in 1..n |-> hits[j].energy4])]
    /\ UNCHANGED <<pc, clusters>> /\ ClusterFrame

\* the cluster is stored, whatever the walk found
StoreCluster ==
    /\ pc = "walk" /\ (scan.p = scan.end \/ ~scan.ok)
    /\ clusters' = Append(clusters, scan.cluster)
    /\ scan' = [seeds |-> Tail(scan.seeds)] /\ pc' = "seed"
    /\ ClusterFrame

ClustersDone ==
    /\ pc = "seed" /\ scan.seeds = <<>>
    /\ pc' = "returned" /\ scan' = NoScan
    /\ UNCHANGED clusters /\ ClusterFrame

------------------------------------------------------------------------------
(* What the programs do with an event                                           *)

\* mutant: the trigger has to have every bit that is asked for
MatchesAll(ts, bits) ==
    LET f == setup.filter
    IN  \/ ~f.exclusive /\ f.bits \subseteq bits
        \/ f.exclusive /\ bits = f.bits
        \/ f.fcup /\ IsFCup(ts)

\* the condition for writing an event whose bits are these
Matches(ts, bits) ==
    LET f == setup.filter
    IN  \/ ~f.exclusive /\ bits \cap f.bits # {}
        \/ f.exclusive /\ bits = f.bits
        \/ f.fcup /\ IsFCup(ts)

Use ==
    /\ pc = "returned" /\ stat = "S_SUCCESS" /\ pc' = "loop"
    /\ \E bits \in TriggerBits(tree.ts) :
          out' = IF setup.program = "filter" /\ Matches(tree.ts, bits) THEN Append(out, current) ELSE out
    /\ UNCHANGED <<setup, conf, ecal, at, tree, vtp, svt, hitmap, clusters, scan, stat, parsed, current, read>>

\* any other status ends the loop over the file
Close ==
    /\ pc = "returned" /\ stat # "S_SUCCESS" /\ pc' = "closed"
    /\ UNCHANGED <<setup, conf, ecal, at, tree, vtp, svt, hitmap, clusters, scan, stat, out, parsed, current, read>>

Exit == pc = "closed" /\ at.file = Len(setup.files) /\ UNCHANGED vars

Parse == SkipChannel \/ StartChannel \/ Search \/ FinishChannel \/ ParseReturns
FindGTPClusters == StartSeed \/ Walk \/ StoreCluster \/ ClustersDone
Next == Open \/ NextFails \/ NextReads \/ Parse \/ FindGTPClusters \/ Use \/ Close \/ Exit

Spec == Init /\ [][Next]_vars

\* The programs have one thread and wait for nothing.
FairSpec == Spec /\ WF_vars(Next)
------------------------------------------------------------------------------

\* Type invariant: the decoded data, the hits by crystal and the loops' variables
\* have their types in every step of HPSEvioReader::Next.
TypeOK ==
    /\ at.file \in 0..Len(setup.files)
    /\ pc \in {"closed", "loop", "parse", "seed", "walk", "returned"}
    /\ stat \in {"S_SUCCESS", "EOF", "ERROR", "ABORTED"}
    /\ ecal \in [is_configured : BOOLEAN, seed : Int, dt : Int]
    /\ \A c \in Crates : {ch[2] : ch \in {d \in DOMAIN setup.daq : d[1] = c}} \subseteq DOMAIN conf.crates[c].slots
    /\ DOMAIN hitmap \subseteq Crystals
    /\ \A c \in DOMAIN hitmap : \A i \in DOMAIN hitmap[c] : hitmap[c][i].energy4 \in Int /\ hitmap[c][i].time \in Nat
    /\ pc = "walk" => scan.p \in Crystals \/ scan.p = scan.end

\* a crossing is from below to above the threshold; one through a sample equal to it does not count
Crossing(s, k, i) == i > 1 /\ Above(s, k, i) /\ Below(s, k, i - 1)

\* npeak, the "maximum number of peaks", is looked at when a crossing has been added, not
\* before the loop: of a channel that starts above the threshold two are kept with npeak 1
MostKept(s, k) == IF k.npeak = 1 /\ Above(s, k, 1) THEN 2 ELSE k.npeak

\* ComputeMode7fast finds the pulses of a channel: each threshold crossing it keeps is one
\* (or the first sample), windows after the first sample do not overlap, no more than MostKept
\* are kept, and a crossing is passed over only in the window of an earlier one or when that
\* many are there already. When NSA < 4 makes the window empty, it finds its first crossing
\* npeak times instead, and no other.
PulsesFound ==
    (Searching /\ SearchDone) =>
        LET s == Channel.samples
            k == OfSlot(Channel)
            f == scan.found
            kept == {f[j] : j \in DOMAIN f}
            IsFirstSample(j) == j = 1 /\ f[j] = 1 /\ Above(s, k, 1)
        IN  /\ Above(s, k, 1) => 1 \in kept
            /\ (NA(k) > 0 \/ k.npeak = 1) =>
                /\ \A j \in DOMAIN f : Crossing(s, k, f[j]) \/ IsFirstSample(j)
                /\ \A j \in 1..(Len(f) - 1) : f[j] < f[j + 1] /\ (f[j] > 1 => f[j] + NA(k) <= f[j + 1])
                /\ k.npeak > 0 => Cardinality(kept) <= MostKept(s, k)
                /\ \A i \in 2..Len(s) : Crossing(s, k, i) /\ i \notin kept =>
                      \/ \E c \in kept \ {1} : c < i /\ i < c + NA(k)
                      \/ k.npeak > 0 /\ Cardinality({c \in kept : c < i}) >= MostKept(s, k)
            /\ (NA(k) = 0 /\ k.npeak # 1) =>
                /\ \A j \in DOMAIN f : IsFirstSample(j) \/
                      (Crossing(s, k, f[j]) /\ \A i \in 2..(f[j] - 1) : ~Crossing(s, k, i))
                /\ (\E i \in 2..Len(s) : Crossing(s, k, i)) => k.npeak > 0 /\ Len(f) = k.npeak

\* The crystals the walk around c comes to: those around it, but two walks come to the seed
\* itself, and one of them leaves a neighbour out.
WalkedFrom(c) ==
    CASE c = <<-23, 1>> -> Around(c) \cup {c}
      [] c = <<-22, -5>> -> (Around(c) \ {<<-23, -5>>}) \cup {c}
      [] OTHER -> Around(c)

\* FindGTPClusters makes one cluster of each hit above the seed threshold, whether or not it
\* is the highest of its 3x3 crystals. The cluster has the hits of the crystals of the walk (on
\* the seed's side of the beam and around the hole), each once, up to the first hit of a crystal
\* that is larger or out of time, and nothing of the crystals behind, row by row, one that has
\* a larger hit, be that in time or not.
ClustersComplete ==
    (pc = "returned" /\ ecal.is_configured) =>
        /\ \A c \in DOMAIN hitmap : \A i \in DOMAIN hitmap[c] : hitmap[c][i].energy4 >= 4 * ecal.seed =>
              Cardinality({j \in DOMAIN clusters : clusters[j].seed = <<c, i>>}) = 1
        /\ \A j \in DOMAIN clusters :
              LET s == clusters[j].seed
                  hits == clusters[j].hits
                  near == WalkedFrom(s[1]) \cap DOMAIN hitmap
                  Belongs(h) == ~Larger(h, s) /\ ~Late(h, s)
                  Ends(c) == \E i \in DOMAIN hitmap[c] : /\ Larger(hitmap[c][i], s)
                                                        /\ \A h \in 1..(i - 1) : Belongs(hitmap[c][h])
                  Earlier(c, d) == c[2] < d[2] \/ (c[2] = d[2] /\ c[1] < d[1])
              IN  /\ Cardinality({hits[m] : m \in DOMAIN hits}) = Len(hits)
                  /\ \A c \in DOMAIN hitmap : \A i \in DOMAIN hitmap[c] :
                        (\E m \in DOMAIN hits : hits[m] = <<c, i>>)
                          <=> /\ c \in near /\ \A h \in 1..i : Belongs(hitmap[c][h])
                              /\ \A d \in near : Earlier(d, c) => ~Ends(d)

\* What TriggerConfig knows of a slot after Parse_raw_data is what the last line about it
\* says, be it for the slot or for all slots of the crate, before or after the slot was
\* named. It holds for slots of the DAQ map when InitDAQMaps came first, and for slots that
\* are named before they are set.
LastLineWins ==
    pc = "returned" => \A c \in Crates : \A s \in DOMAIN conf.crates[c].slots :
        LET lines == parsed[1]
            slot == conf.crates[c].slots[s]
            mapped == setup.from = "bank" /\ \E d \in DOMAIN setup.daq : d[1] = c /\ d[2] = s
        IN  (Len(parsed) = 1 /\ (mapped \/ NamedFirst(lines, c, s))) =>
              /\ \A t \in {"NSB", "NSA", "npeak"} : slot[t] = ValueOf(lines, About(lines, {t}, c, s))
              /\ \A ch \in Channels :
                    slot.threshold[ch] = ValueOf(lines, {k \in About(lines, {"TET", "CH_TET"}, c, s) :
                                                  lines[k].tok = "CH_TET" => lines[k].ch = ch})

\* The data a program finds after Next is the data of this event: what VTPBank decoded
\* when the event has a VTP bank, and all samples of the frames of its SVT banks, none of a
\* header or a tail and none of an earlier event.
DecodedThisEvent ==
    (pc = "returned" /\ stat = "S_SUCCESS" /\ current.kind \in Parsed) =>
        /\ current.vtp # <<>> => vtp = current.vtpIds
        /\ setup.program = "reader" => svt = current.svtIds
        /\ setup.program = "reader" /\ ecal.is_configured =>
              DOMAIN hitmap = {setup.daq[Place(tree.fadc[j])] : j \in {i \in DOMAIN tree.fadc : Place(tree.fadc[i]) \in DOMAIN setup.daq}}

\* HPS_Trigger_Filter copies the events whose trigger is asked for, once and in their order,
\* from each file up to the first event that cannot be read or parsed. (Only for files
\* without the five trigger words of 2015 and 2016, whose other bits are not initialised.)
FilterCopies ==
    LET f == setup.filter
        Read(ev) == ev.kind \notin {"unreadable", "bare"}
        Asked(ev) ==
            LET ts == IF ev.kind \in Parsed THEN ev.ts ELSE NoTree.ts
            IN  \/ IF f.exclusive THEN ts.bits = f.bits ELSE \E b \in f.bits : b \in ts.bits
                \/ f.fcup /\ ts.fcup
        wanted == {i \in DOMAIN read : Read(read[i].ev) /\ Asked(read[i].ev)}
    IN  (setup.program = "filter" /\ pc \in {"loop", "closed"}
          /\ \A i \in DOMAIN read : read[i].ev.kind \in Parsed => read[i].ev.ts.size # 5) =>
        /\ Len(out) = Cardinality(wanted)
        /\ \A i \in wanted : out[Cardinality({j \in wanted : j <= i})] = read[i].ev
        /\ \A i, j \in DOMAIN read : (i < j /\ read[i].file = read[j].file) => Read(read[i].ev)

\* The search for the pulses of a channel of the event never ends: an empty window, no
\* number of peaks to stop at, and a crossing.
SearchForEver ==
    \E j \in DOMAIN tree.fadc :
        LET ch == tree.fadc[j]
            k == OfSlot(ch)
        IN  /\ Place(ch) \in DOMAIN setup.daq
            /\ k.NSA > 0 /\ NA(k) = 0 /\ k.npeak <= 0
            /\ \E i \in 2..Len(ch.samples) : Crossing(ch.samples, k, i)

\* Next returns, and the walk around every seed comes to its end, unless the search for the
\* pulses of a channel never ends; then Parse is never left.
NextReturns ==
    /\ (pc \in {"parse", "seed", "walk"} /\ ~SearchForEver) ~> (pc = "returned")
    /\ [](pc \in {"seed", "walk"} => ~SearchForEver)
=============================================================================
