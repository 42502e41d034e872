------------------------------- MODULE EtRing -------------------------------
(***************************************************************************)
(* The ring of ET stations: GrandCentral, then the stations in the order of *)
(* the main linked list, each alone or the head of a group of parallel      *)
(* stations. Events are taken from GrandCentral, put, moved from station to *)
(* station by one conductor thread per station, and come back, while        *)
(* stations are created, moved and removed.                                 *)
(*                                                                          *)
(* Event lists are sequences here (EtLists has them pointer by pointer) and all   *)
(* events have the same priority. A conductor reads its output list, takes  *)
(* its transfer mutex and then visits the groups downstream, one a step.    *)
(***************************************************************************)
EXTENDS EtStations

CONSTANTS
    Events,
    Watched,     \* the events ComesBack is about
    Configs,     \* configurations of the stations, see IsConfig
    Att,         \* attachments
    MaxNum,      \* events asked for in one call
    Positions,   \* positions asked for in the lists of stations
    Modes        \* restore modes: "out", "in", "gc", "redist"

(* A configuration: chain is the main list at first, a sequence of groups;   *)
(* parallel are the stations of that flow mode; select, block, prescale, cue *)
(* are those of each station and match the events its selection function     *)
(* accepts; stat is the station of each attachment and start the ones there  *)
(* are at first, and makers those that ask for new events; events are those  *)
(* of the system, in the order GrandCentral has them at first; leave bounds  *)
(* how often an attachment leaves, on its own or by dying, and moves how     *)
(* often a station is created, moved or removed.                             *)
Stations(g) == DOMAIN g.select
IsConfig(g) ==
    /\ \A s \in Stations(g) :
         /\ g.select[s] \in {"all", "match", "rrobin", "equalcue"}
         /\ g.block[s] \in BOOLEAN /\ g.prescale[s] \in Nat \ {0} /\ g.cue[s] \in Nat \ {0}
         /\ g.match[s] \subseteq Events /\ s # GC
    /\ g.chain \in Seq(Seq(Stations(g)))
    /\ \A i \in DOMAIN g.chain : Len(g.chain[i]) > 0 /\ (Len(g.chain[i]) > 1 => Range(g.chain[i]) \subseteq g.parallel)
    /\ g.stat \in [Att -> Stations(g) \cup {GC}] /\ g.start \subseteq Att /\ g.makers \subseteq Att
    /\ g.moves \in Nat
    /\ g.events \in Seq(Events) /\ IsInjective(g.events) /\ g.leave \in Nat

ASSUME RingAssumption ==
    /\ Watched \subseteq Events
    /\ \A g \in Configs : IsConfig(g)
    /\ MaxNum \in Nat \ {0} /\ Positions \subseteq {ET_END} \cup (Nat \ {0})
    /\ Modes \subseteq {"out", "in", "gc", "redist"}

VARIABLES
    cf,        \* the configuration
    in, out,   \* the input and the output list of each station
    try,       \* events_try of each input list, modulo its prescale
    ring,      \* the lists of stations
    made,      \* the stations there are
    removing,  \* the station et_station_remove has taken out of the lists, or None
    cond,      \* the conductor of each station
    own,       \* own[a]: the events an attachment holds, new and used
    att,       \* the attachments there are
    leaves,    \* how often an attachment left
    moves,     \* how often a station was created, moved or removed
    dealt,     \* history: round robin events a station got, beyond the one of its
               \* group that got fewest, since one of the group came or went
    asked,     \* history: the stations as the calls on their lists ask for
    gone,      \* history: events lost with a station that was removed
    stuck,     \* history: events restored to the input list of an idle station, that
               \* no one has attached to since
    tangled    \* history: a station was moved and kept a pointer of its old place,
               \* or could not be put back into it

lists == <<ring, made, removing, moves, asked, tangled>>
vars == <<cf, in, out, try, cond, own, att, leaves, dealt, gone, stuck, lists>>

All == Stations(cf) \cup {GC}
Parallel == cf.parallel
Active(s) == s = GC \/ \E a \in att : cf.stat[a] = s

\* the station after s in the main list, GrandCentral after the last
After(s) == IF ring.link[s].next = None THEN GC ELSE ring.link[s].next
Members(h) == IF h \in Parallel THEN Group(ring, h) ELSE <<h>>
ActiveIn(h) == SelectSeq(Members(h), Active)

Resting == [phase |-> "wait", all |-> <<>>, put |-> {}, left |-> 0, at |-> GC]
Hand(c) == {c.all[i] : i \in DOMAIN c.all \ c.put}

------------------------------------------------------------------------------
(* What one station takes of the events a conductor brings *)

Ascending(S) == SelectSeq([i \in 1..Len(cf.events) |-> i], LAMBDA i : i \in S)

\* mutant: events already put are offered again
OpenAll(c) == Ascending(DOMAIN c.all)

\* the events not yet put into a station
Open(c) == Ascending(DOMAIN c.all \ c.put)

\* positions in c.all of the events station s accepts, in order
Accepted(c, s) ==
    SelectSeq(Open(c), LAMBDA i : cf.select[s] # "match" \/ c.all[i] \in cf.match[s])

\* blocking: every prescale-th; nonblocking: as many as there is room in the cue
Taken(c, s, n) ==
    LET acc == Accepted(c, s)
        room == cf.cue[s] - Len(in[s])
        kept == {i \in DOMAIN acc : (n + i - 1) % cf.prescale[s] = 0}
    IN  IF cf.block[s] THEN [i \in 1..Cardinality(kept) |-> acc[Ascending(kept)[i]]]
        ELSE SubSeq(acc, 1, IF room > 0 THEN Min({room, Len(acc)}) ELSE 0)

\* a visit under way: the lists, the tries and what the conductor still has
Visited == [in |-> in, try |-> try, c |-> Resting]

TakeSome(v, s) ==
    LET ks == Taken(v.c, s, v.try[s])
        es == [i \in DOMAIN ks |-> v.c.all[ks[i]]]
    IN  [v EXCEPT !.in[s] = @ \o es,
                  !.try[s] = IF cf.block[s] THEN (v.try[s] + Len(Accepted(v.c, s))) % cf.prescale[s] ELSE @,
                  !.c.put = @ \cup Range(ks),
                  !.c.left = @ - Len(ks)]

------------------------------------------------------------------------------
(* Round robin: events dealt in turn, beginning after the last one served *)

\* events for the i-th station served of n
RRNum(left, n, i) == (left \div n) + (IF i <= left % n THEN 1 ELSE 0)

\* The events for the i-th: every n-th of those not yet put, looked for from the i-th
\* event on.
RRDeal(c, n, i) ==
    LET open == Ascending({x \in DOMAIN c.all \ c.put : x >= i})
        have == Min({RRNum(c.left, n, i), (Len(open) + n - 1) \div n})
    IN  [j \in 1..have |-> c.all[open[1 + (j - 1) * n]]]

\* mutant: every round begins at the first station
RRAtFirst(h) == ActiveIn(h)

\* The active stations of a group in the order they are served: from the first active
\* one after the station marked waslast; of several marks the last that has one counts.
RRServed(h) ==
    LET all == Members(h)
        act == SelectSeq(all, Active)
        place(s) == CHOOSE j \in DOMAIN all : all[j] = s
        follows(j, s) == place(s) < place(act[j]) /\ (j > 1 => place(act[j - 1]) <= place(s))
        after == {j \in DOMAIN act : \E s \in ring.waslast \cap Range(all) : follows(j, s)}
        from == IF after = {} THEN 1 ELSE Max(after)
    IN  [j \in DOMAIN act |-> act[((from + j - 2) % Len(act)) + 1]]

\* the one that gets the last event
RRLast(left, n) == IF left % n = 0 THEN n ELSE left % n

VisitRR(c, h) ==
    \E served \in {RRServed(h)} :
      LET n == Len(served)
          pos(s) == CHOOSE j \in DOMAIN served : served[j] = s
          more(s) == dealt[s] + RRNum(c.left, n, pos(s))
      IN  /\ in' = [s \in All |-> in[s] \o IF s \in Range(served) THEN RRDeal(c, n, pos(s)) ELSE <<>>]
          /\ try' = [s \in All |-> IF s \in Range(served)
                                   THEN (try[s] + RRNum(c.left, n, pos(s))) % cf.prescale[s] ELSE try[s]]
          /\ dealt' = [s \in All |-> IF s \in Range(served) THEN more(s) - Min({more(t) : t \in Range(served)})
                                     ELSE dealt[s]]
          /\ ring' = [ring EXCEPT !.waslast = (@ \ Range(Members(h))) \cup {served[RRLast(c.left, n)]}]

------------------------------------------------------------------------------
(* Equal cue: the shortest input lists are filled first *)

\* mutant: the events are spread as if all lists were equally long
LevelBlindly(cnt, left) ==
    [s \in DOMAIN cnt |-> (left \div Len(cnt)) + (IF s <= left % Len(cnt) THEN 1 ELSE 0)]

\* How many of `left' events each of the lists gets, cnt[s] being their lengths. The
\* lowest are raised to the next higher one until the events no longer suffice for
\* that; the rest is spread over the lowest.
Level(cnt, left) ==
    LET n == Len(cnt)
        order == SetToSortSeq(DOMAIN cnt, LAMBDA x, y : cnt[x] < cnt[y] \/ (cnt[x] = cnt[y] /\ x < y))
        Fill[i \in 0..n] ==
            IF i = 0 THEN [num |-> [s \in DOMAIN cnt |-> 0], min |-> cnt[order[1]], out |-> 0, done |-> FALSE]
            ELSE LET f == Fill[i - 1]
                     level(x) == cnt[order[x]] + f.num[order[x]]
                     higher == {x \in 1..n : level(x) # f.min}
                     same == IF higher = {} THEN n ELSE Min(higher) - 1
                     rest == left - f.out
                     step == cnt[order[Min(higher)]] - f.min
                     at(s) == CHOOSE x \in 1..n : order[x] = s
                 IN  IF f.done \/ rest = 0 THEN [f EXCEPT !.done = TRUE]
                     ELSE IF higher = {} \/ rest < step * same
                     THEN [f EXCEPT !.done = TRUE,
                                    !.num = [s \in DOMAIN cnt |-> f.num[s] +
                                        IF at(s) > same THEN 0
                                        ELSE (rest \div same) + (IF at(s) <= rest % same THEN 1 ELSE 0)]]
                     ELSE [f EXCEPT !.min = cnt[order[Min(higher)]], !.out = f.out + step * same,
                                    !.num = [s \in DOMAIN cnt |-> f.num[s] + IF at(s) > same THEN 0 ELSE step]]
    IN  Fill[n].num

VisitEqualCue(c, h) ==
    \E act \in {ActiveIn(h)}, open \in {Open(c)} : \E cnt \in {[j \in DOMAIN act |-> Len(in[act[j]])]} :
    \E num \in {Level(cnt, c.left)} :
      LET pos(s) == CHOOSE j \in DOMAIN act : act[j] = s
          before(j) == FoldLeft(LAMBDA x, i : x + num[i], 0, [i \in 1..(j - 1) |-> i])
          given(s) == [i \in 1..num[pos(s)] |-> c.all[open[before(pos(s)) + i]]]
      IN  /\ in' = [s \in All |-> in[s] \o IF s \in Range(act) THEN given(s) ELSE <<>>]
          /\ try' = [s \in All |-> IF s \in Range(act) THEN (try[s] + num[pos(s)]) % cf.prescale[s] ELSE try[s]]
          /\ UNCHANGED <<ring, dealt>>

------------------------------------------------------------------------------
(* The conductor of station s *)

\* takes everything in the output list
ConductorReads(s) ==
    /\ cond[s].phase = "wait" /\ out[s] # <<>>
    /\ cond' = [cond EXCEPT ![s] = [Resting EXCEPT !.phase = "read", !.all = out[s], !.left = Len(out[s])]]
    /\ out' = [out EXCEPT ![s] = <<>>]
    /\ UNCHANGED <<cf, in, try, own, att, leaves, dealt, gone, stuck, lists>>

\* et_transfer_lock, which et_station_remove keeps from all but the conductor of the
\* station it removes: from here on the lists of stations do not change
TransferLock(s) ==
    /\ cond[s].phase = "read" /\ removing \in {None, s}
    /\ cond' = [cond EXCEPT ![s].phase = "move",
                            ![s].at = After(IF s \in Parallel THEN HeadOf(ring, s) ELSE s)]
    /\ UNCHANGED <<cf, in, out, try, own, att, leaves, dealt, gone, stuck, lists>>

\* What is left of a conductor's round after a visit; with nothing left it
\* unlocks its transfer mutex and waits again.
GoesOn(s, c) ==
    cond' = [cond EXCEPT ![s] = IF c.left = 0 THEN Resting ELSE [c EXCEPT !.at = After(@)]]

\* the conductor of s is at a station, the head of its group, other than GrandCentral
Visiting(s) == cond[s].phase = "move" /\ cond[s].at # GC

\* the next group has no active station
SkipGroup(s) ==
    /\ Visiting(s) /\ ActiveIn(cond[s].at) = <<>>
    /\ GoesOn(s, cond[s])
    /\ UNCHANGED <<cf, in, out, try, own, att, leaves, dealt, gone, stuck, lists>>

\* the algorithm is the one of the head of the group
Algorithm(h) ==
    IF h \in Parallel /\ cf.select[h] \in {"rrobin", "equalcue"} THEN cf.select[h] ELSE "each"

\* one station, or parallel ones that select for themselves, each in turn
VisitEach(s) ==
    /\ Visiting(s) /\ ActiveIn(cond[s].at) # <<>> /\ Algorithm(cond[s].at) = "each"
    /\ \E v \in {FoldLeft(TakeSome, [Visited EXCEPT !.c = cond[s]], ActiveIn(cond[s].at))} :
         /\ in' = v.in /\ try' = v.try
         /\ GoesOn(s, v.c)
    /\ UNCHANGED <<cf, out, own, att, leaves, dealt, gone, stuck, lists>>

VisitParallel(s) ==
    LET c == cond[s]
    IN  /\ Visiting(s) /\ ActiveIn(c.at) # <<>> /\ Algorithm(c.at) # "each"
        /\ IF Algorithm(c.at) = "rrobin" THEN VisitRR(c, c.at) ELSE VisitEqualCue(c, c.at)
        /\ cond' = [cond EXCEPT ![s] = Resting]
        /\ UNCHANGED <<cf, out, own, att, leaves, gone, stuck, made, removing, moves, asked, tangled>>

\* the end of the ring: everything left goes to GrandCentral
VisitGrandCentral(s) ==
    LET c == cond[s]
        open == Open(c)
    IN  /\ c.phase = "move" /\ c.at = GC
        /\ in' = [in EXCEPT ![GC] = @ \o [i \in DOMAIN open |-> c.all[open[i]]]]
        /\ cond' = [cond EXCEPT ![s] = Resting]
        /\ UNCHANGED <<cf, out, try, own, att, leaves, dealt, gone, stuck, lists>>

------------------------------------------------------------------------------
(* The attachments *)

et_events_new(a, n) ==
    LET k == Min({n, Len(in[GC])})
    IN  /\ a \in att /\ in[GC] # <<>>
        /\ own' = [own EXCEPT ![a].new = @ \cup Range(SubSeq(in[GC], 1, k))]
        /\ in' = [in EXCEPT ![GC] = SubSeq(@, k + 1, Len(@))]
        /\ UNCHANGED <<cf, out, try, cond, att, leaves, dealt, gone, stuck, lists>>

et_events_get(a, n) ==
    LET s == cf.stat[a]
        k == Min({n, Len(in[s])})
    IN  /\ a \in att /\ s # GC /\ in[s] # <<>>
        /\ own' = [own EXCEPT ![a].used = @ \cup Range(SubSeq(in[s], 1, k))]
        /\ in' = [in EXCEPT ![s] = SubSeq(@, k + 1, Len(@))]
        /\ UNCHANGED <<cf, out, try, cond, att, leaves, dealt, gone, stuck, lists>>

Held(a) == own[a].new \cup own[a].used
InOrder(S) == SelectSeq(cf.events, LAMBDA e : e \in S)
Without(a, S) == [own EXCEPT ![a] = [new |-> @.new \ S, used |-> @.used \ S]]

et_events_put(a, S) ==
    /\ a \in att /\ S # {} /\ S \subseteq Held(a)
    /\ out' = [out EXCEPT ![cf.stat[a]] = @ \o InOrder(S)]
    /\ own' = Without(a, S)
    /\ UNCHANGED <<cf, in, try, cond, att, leaves, dealt, gone, stuck, lists>>

et_events_dump(a, S) ==
    /\ a \in att /\ S # {} /\ S \subseteq Held(a)
    /\ in' = [in EXCEPT ![GC] = @ \o InOrder(S)]
    /\ own' = Without(a, S)
    /\ UNCHANGED <<cf, out, try, cond, att, leaves, dealt, gone, stuck, lists>>

\* et_transfer_lock_all is held while the status of a station changes
NoTransfer == \A s \in All : cond[s].phase # "move"

\* the history of a group starts again when one of it becomes active or idle
Forget(s) == [t \in All |-> IF t # GC /\ HeadOf(ring, t) = HeadOf(ring, s) THEN 0 ELSE dealt[t]]

\* a serial station is activated without stopping the transfers
et_station_attach(a) ==
    LET s == cf.stat[a]
    IN  /\ a \notin att /\ s \in made \cup {GC} /\ removing = None
        /\ NoTransfer \/ Active(s) \/ s \notin Parallel
        /\ att' = att \cup {a}
        /\ dealt' = IF Active(s) THEN dealt ELSE Forget(s)
        /\ stuck' = stuck \ Range(in[s])
        /\ UNCHANGED <<cf, in, out, try, cond, own, leaves, gone, lists>>

\* the station before the group of s in the main list
Before(s) == ring.link[HeadOf(ring, s)].prev

LastOf(a) == cf.stat[a] # GC /\ {b \in att : cf.stat[b] = cf.stat[a]} = {a}

\* mutant: the station becomes idle with its input list as it is
FlushNothing(a) == <<>>

\* what is moved from the input list to the output list when attachment a leaves
et_flush_events(a) == IF LastOf(a) THEN in[cf.stat[a]] ELSE <<>>

\* The last attachment to leave a station makes it idle and flushes its input list;
\* then the events of the attachment are restored. The heart monitor does the
\* same for a process that died.
et_station_detach(a, mode) ==
    LET s == cf.stat[a]
        last == LastOf(a)
        flushed == et_flush_events(a)
        new == InOrder(own[a].new)
        used == InOrder(own[a].used)
        to == IF s = GC THEN "gc" ELSE mode
        in1 == [in EXCEPT ![s] = SubSeq(@, Len(flushed) + 1, Len(@))]
        in2 == [in1 EXCEPT ![GC] = @ \o new \o IF to = "gc" THEN used ELSE <<>>]
        target == IF mode = "redist" THEN Before(s) ELSE s
    IN  /\ a \in att /\ removing = None /\ leaves < cf.leave /\ leaves' = leaves + 1
        /\ last => NoTransfer
        /\ att' = att \ {a}
        /\ own' = [own EXCEPT ![a] = [new |-> {}, used |-> {}]]
        /\ in' = IF to = "in" THEN [in2 EXCEPT ![s] = used \o @] ELSE in2
        /\ out' = CASE s = GC -> out
                    [] mode = "redist" -> [out EXCEPT ![target] = used \o flushed \o @]
                    [] mode = "out" -> [out EXCEPT ![s] = @ \o flushed \o used]
                    [] OTHER -> [out EXCEPT ![s] = @ \o flushed]
        /\ dealt' = IF last THEN Forget(s) ELSE dealt
        \* nattachments still counts the one that leaves, so "in" is done to the last too
        /\ stuck' = IF last /\ to = "in" THEN stuck \cup Range(used) ELSE stuck
        /\ UNCHANGED <<cf, try, cond, gone, lists>>

------------------------------------------------------------------------------
(* Stations come, move and go, under the station mutex and with transfers stopped *)

MayChange == removing = None /\ NoTransfer /\ moves < cf.moves

compatible(h, s) ==
    IF cf.select[h] \in {"rrobin", "equalcue"}
    THEN cf.select[s] = cf.select[h] /\ cf.block[s] = cf.block[h] /\ cf.prescale[s] = cf.prescale[h]
    ELSE cf.select[s] \notin {"rrobin", "equalcue"}

How(l, s, pos, ppos) ==
    Placement(l, s, pos, ppos, Parallel, Cardinality(made \cup {s, GC}),
              {h \in Stations(cf) : compatible(h, s)})

\* The conductor is started before the station is inserted, and stopped if it cannot
\* be. Both lists are made anew; an old conductor has ended.
et_station_create_at(s, pos, ppos) ==
    LET fresh == [ring EXCEPT !.link[s] = Unlinked, !.waslast = @ \ {s}]
        how == How(fresh, s, pos, ppos)
    IN  /\ MayChange /\ s \notin made /\ cond[s] = Resting
        /\ ring' = station_insert(fresh, s, pos, ppos, how)
        /\ made' = IF how = "error" THEN made ELSE made \cup {s}
        /\ in' = [in EXCEPT ![s] = <<>>] /\ out' = [out EXCEPT ![s] = <<>>] /\ try' = [try EXCEPT ![s] = 0]
        /\ gone' = gone \cup Range(in[s] \o out[s])
        /\ asked' = Placed(asked, s, pos, ppos, how)
        /\ moves' = moves + 1 /\ dealt' = [t \in All |-> 0]
        /\ UNCHANGED <<cf, cond, own, att, leaves, stuck, removing, tangled>>

\* out of its place and into the new one, or back when it does not fit there
et_station_setposition(s, pos, ppos) ==
    LET was == station_find(ring, s)
        k1 == station_remove(ring, s, Parallel)
        how == How(k1, s, pos, ppos)
        back == How(k1, s, was.pos, was.ppos)
    IN  /\ MayChange /\ s \in made
        /\ ring' = IF how # "error" THEN station_insert(k1, s, pos, ppos, how)
                ELSE station_insert(k1, s, was.pos, was.ppos, back)
        /\ asked' = IF how = "error" THEN asked ELSE Placed(Dropped(asked, s), s, pos, ppos, how)
        /\ tangled' = \/ how # "error" /\ Leftover(k1, s, how) # {None}
                      \/ how = "error" /\ (back = "error" \/ Leftover(k1, s, back) # {None})
        /\ moves' = moves + 1 /\ dealt' = [t \in All |-> 0]
        /\ UNCHANGED <<cf, in, out, try, cond, own, att, leaves, gone, stuck, made, removing>>

\* et_station_remove takes out a station without attachments and lets its conductor
\* finish
et_station_remove(s) ==
    /\ MayChange /\ s \in made /\ ~Active(s)
    /\ ring' = station_remove(ring, s, Parallel)
    /\ removing' = s /\ moves' = moves + 1 /\ dealt' = [t \in All |-> 0]
    /\ asked' = Dropped(asked, s)
    /\ UNCHANGED <<cf, in, out, try, cond, own, att, leaves, gone, stuck, made, tangled>>

\* Half a second later at most, and not in the middle of a transfer, the station is
\* no more: no one reads its input list again.
RemoveEnds(s) ==
    /\ removing = s /\ cond[s].phase # "move"
    /\ made' = made \ {s} /\ removing' = None
    /\ in' = [in EXCEPT ![s] = <<>>]
    /\ UNCHANGED <<cf, try, cond, own, att, leaves, dealt, stuck, ring, moves, asked, tangled>>

\* the conductor has read its output list, or goes on to it without a wait
ConductorOutlives(s) ==
    /\ RemoveEnds(s) /\ gone' = gone \cup Range(in[s]) /\ UNCHANGED out

\* woken from its wait, for the events or by et_station_remove, it finds itself killed
ConductorKilled(s) ==
    /\ RemoveEnds(s) /\ cond[s].phase = "wait" /\ out[s] # <<>>
    /\ gone' = gone \cup Range(in[s] \o out[s])
    /\ out' = [out EXCEPT ![s] = <<>>]

------------------------------------------------------------------------------
Init ==
    /\ cf \in Configs
    /\ in = [s \in All |-> IF s = GC THEN cf.events ELSE <<>>]
    /\ out = [s \in All |-> <<>>]
    /\ try = [s \in All |-> 0] /\ dealt = [s \in All |-> 0]
    /\ ring = Linked(cf.chain, Stations(cf)) /\ asked = cf.chain
    /\ made = UNION {Range(cf.chain[i]) : i \in DOMAIN cf.chain}
    /\ removing = None /\ moves = 0 /\ tangled = FALSE
    /\ cond = [s \in All |-> Resting]
    /\ own = [a \in Att |-> [new |-> {}, used |-> {}]]
    /\ att = cf.start /\ leaves = 0 /\ gone = {} /\ stuck = {}

Conduct(s) ==
    \/ ConductorReads(s) \/ TransferLock(s) \/ SkipGroup(s)
    \/ VisitEach(s) \/ VisitParallel(s) \/ VisitGrandCentral(s)

Produce(a) == a \in cf.makers /\ \E n \in 1..MaxNum : et_events_new(a, n)
Consume(a) == \E n \in 1..MaxNum : et_events_get(a, n)
GiveBack(a) == \E S \in SUBSET Held(a) : et_events_put(a, S) \/ et_events_dump(a, S)

Step ==
    \/ \E s \in All : Conduct(s)
    \/ \E a \in Att : Produce(a) \/ Consume(a) \/ GiveBack(a) \/ et_station_attach(a)
    \/ \E a \in Att, mode \in Modes : et_station_detach(a, mode)
    \/ \E s \in Stations(cf), pos \in Positions, ppos \in Positions \cup {0, ET_NEWHEAD} :
          et_station_create_at(s, pos, ppos) \/ et_station_setposition(s, pos, ppos)
    \/ \E s \in Stations(cf) : et_station_remove(s) \/ ConductorOutlives(s) \/ ConductorKilled(s)

\* In tangled lists conductors go round in circles or to stations that are not there:
\* the model stops. With no event left in the ring there may be nothing to do.
Over == tangled \/ Range(cf.events) \subseteq gone \cup stuck
Next == (~tangled /\ Step) \/ (Over /\ UNCHANGED vars)

\* what a client loop does: get events when it has none, else put back what it has
Serve(a) ==
    \/ Held(a) = {} /\ Consume(a)
    \/ Held(a) # {} /\ et_events_put(a, Held(a))

\* Conductors are threads that wait for events and mutexes others release;
\* consumers keep asking for events and give back what they hold.
Fairness ==
    /\ \A s \in UNION {Stations(c) : c \in Configs} \cup {GC} : WF_vars(~tangled /\ s \in All /\ Conduct(s))
    /\ \A a \in Att : WF_vars(~tangled /\ Serve(a))
    /\ WF_vars(\E s \in Stations(cf) : ConductorOutlives(s) \/ ConductorKilled(s))

Spec == Init /\ [][Next]_vars
FairSpec == Spec /\ Fairness

------------------------------------------------------------------------------
(* Properties *)

\* Events, stations and attachments are where they can be.
TypeOK ==
    /\ cf \in Configs
    /\ in \in [All -> Seq(Events)] /\ out \in [All -> Seq(Events)]
    /\ \A s \in All : try[s] \in 0..(IF s = GC THEN 0 ELSE cf.prescale[s] - 1)
    /\ ring.link \in [All -> [{"next", "prev", "nextparallel", "prevparallel"} -> All \cup {None}]]
    /\ ring.tail \in All /\ ring.waslast \subseteq Stations(cf) /\ made \subseteq Stations(cf)
    /\ att \subseteq Att /\ leaves \in 0..cf.leave /\ gone \cup stuck \subseteq Events
    /\ \A s \in All : /\ cond[s].phase \in {"wait", "read", "move"} /\ cond[s].all \in Seq(Events)
                      /\ cond[s].left = Len(cond[s].all) - Cardinality(cond[s].put)
    /\ \A a \in Att : Held(a) \subseteq Events

\* The places of an event: positions in lists, a conductor or an attachment.
Places(e) ==
    UNION {{<<"in", s, i>> : i \in {j \in DOMAIN in[s] : in[s][j] = e}} : s \in All}
    \cup UNION {{<<"out", s, i>> : i \in {j \in DOMAIN out[s] : out[s][j] = e}} : s \in All}
    \cup {<<"conductor", s, 0>> : s \in {t \in All : e \in Hand(cond[t])}}
    \cup {<<"attachment", a, 0>> : a \in {b \in Att : e \in Held(b)}}

\* Each event is in one place: whatever stations come and go while conductors are
\* between reading their lists and delivering, none is delivered to two stations, and
\* none is lost but with a removed station: what is in its input list, or in its
\* output list when its conductor is killed (et_conductor, et_station_detach,
\* et_station_remove). The comments in et_conductor say that the events destined for
\* a station "are grouped together" and that it skips "over events already put into
\* other stations". For a round robin group behind a station that took some of the
\* events it does not: the search for the i-th station begins at the i-th event,
\* put or not.
EachInOnePlace ==
    \A e \in Range(cf.events) : Cardinality(Places(e)) = IF e \in gone THEN 0 ELSE 1

\* Of the active stations of a round robin group none got two events more than
\* another since the last of them came or went: each round begins after the station
\* that got the last event of the round before (waslast).
RoundRobinIsFair ==
    \A h \in Range(MainList(ring)) : Algorithm(h) = "rrobin" =>
        \A s \in Range(ActiveIn(h)) : dealt[s] <= 1

\* A conductor that serves an equal cue group never makes a list longer than another
\* by more than one event.
Levels ==
    \A s \in All : LET h == cond[s].at IN
        (Visiting(s) /\ cond'[s] = Resting /\ ActiveIn(h) # <<>> /\ Algorithm(h) = "equalcue") =>
        \A x, y \in Range(ActiveIn(h)) :
            Len(in'[x]) > Len(in[x]) => Len(in'[x]) <= Len(in'[y]) + 1

EqualCueLevels == [][Levels]_vars

\* The pointers of the stations always form the lists that the calls made so far ask
\* for: every station once, forward and back, heads of groups in the main list, the
\* tail at the end (station_insert, station_remove). The exceptions are exactly the
\* moves that leave a pointer of the old place in the station, and those that fail
\* and cannot be undone (et_station_setposition).
ListsAsAsked == Represents(ring, asked) <=> ~tangled

\* An event put into the ring comes back to GrandCentral, whatever stations it is
\* taken to on the way, and whoever leaves or is moved or removed while it is there
\* (et_conductor, et_station_detach, et_station_remove). Three things keep it from
\* that: a move that tangles the lists; a station removed with it; and the last
\* attachment of a station with restore mode "in", whose events et_restore_events
\* puts into the input list of the station that is idle already.
ComesBack ==
    \A e \in Watched :
        e \in Range(out[GC]) ~> (e \in Range(in[GC]) \/ tangled \/ e \in gone \cup stuck)
=============================================================================
