------------------------------ MODULE EtLists ------------------------------
(***************************************************************************)
(* The event lists of ET in shared memory, pointer by pointer: GrandCentral *)
(* ("gc") and one station ("s"), each with an input and an output list.     *)
(* Client processes read and write them under the mutex of the list and may *)
(* die between any two stores, those of a detach included; the heart        *)
(* monitor of the ET process repairs what they left and restores their      *)
(* events.                                                                  *)
(*                                                                          *)
(* A call on a list is the sequence of its stores in program order,         *)
(* computed when the mutex is taken: no one else changes the list until it  *)
(* is released.                                                             *)
(***************************************************************************)
EXTENDS Integers, Sequences, FiniteSets, SequencesExt

CONSTANTS
    EventOrder,   \* the events in the order of the shared memory, a sequence
    High,         \* the events of priority ET_HIGH
    Att,          \* attachments, one per process
    Stat,         \* the station each is attached to: "gc" or "s"
    Producers,    \* attachments that ask for new events
    Consumers,    \* attachments that get events
    SYS,          \* owner ET_SYS
    NULL,
    Modes,        \* restore modes of the station: "out", "in", "gc" or "redist"
    MaxNum,       \* events asked for in one call
    MaxDeaths     \* processes dead and not cleaned up after, at one time

Events == Range(EventOrder)
Lists == {"gcIn", "gcOut", "sIn", "sOut"}
InOf(st) == IF st = "gc" THEN "gcIn" ELSE "sIn"
OutOf(st) == IF st = "gc" THEN "gcOut" ELSE "sOut"

ASSUME ListsAssumption ==
    /\ IsInjective(EventOrder) /\ High \subseteq Events
    /\ Stat \in [Att -> {"gc", "s"}]
    /\ Producers \subseteq Att /\ Consumers \subseteq {a \in Att : Stat[a] = "s"}
    /\ SYS \notin Att /\ NULL \notin Events \cup Att
    /\ Modes \subseteq {"out", "in", "gc", "redist"} /\ Modes # {}
    /\ MaxNum \in Nat \ {0} /\ MaxDeaths \in Nat

VARIABLES
    mem,       \* the shared memory: for each field its value by list or event
    proc,      \* proc[a]: "up" (attached), "dead" (not yet noticed) or "gone"
    op,        \* op[a]: the call in progress and the stores it still has to make
    moving,    \* what the conductor of a station has read and not yet written
    mon,       \* the dead process the heart monitor is cleaning up after, or NULL
    lost,      \* history: events that only a dead process knew of
    torn       \* history: lists unlocked as they were after a death in et_restore

vars == <<mem, proc, op, moving, mon, lost, torn>>

------------------------------------------------------------------------------
(* Reading the memory *)

F(m, field, key) == m[field][key]
NextOf(m, e) == IF e = NULL THEN NULL ELSE F(m, "next", e)

\* the n events from e on
Chain(m, e, n) ==
    LET c[i \in 1..n] == IF i = 1 THEN e ELSE NextOf(m, c[i - 1]) IN c

Content(m, l) == Chain(m, F(m, "first", l), F(m, "cnt", l))

\* the events from e on, up to and with `last', at most n of them
ChainTo(m, e, last, n) ==
    LET c == Chain(m, e, n)
        found == {i \in 1..n : c[i] = last}
    IN  IF found = {} THEN c ELSE SubSeq(c, 1, CHOOSE i \in found : \A j \in found : i <= j)

------------------------------------------------------------------------------
(* A program under way: the memory as it will be, the stores made so far, and *)
(* the local pointers of the writing routines.                               *)

Begin(m) == [m |-> m, log |-> <<>>, last |-> NULL, high |-> NULL]

Store(p, field, key, v) ==
    [p EXCEPT !.m[field][key] = v, !.log = Append(@, <<<<field, key>>, v>>)]

Add(p, field, key, n) == Store(p, field, key, F(p.m, field, key) + n)

StoreAll(p, s) == FoldLeft(LAMBDA q, x : Store(q, x[1], x[2], x[3]), p, s)

\* what et_llist_lock and et_llist_unlock leave in the list's mutex
et_llist_lock(p, l, a) == Store(p, "lock", l, a)
et_llist_unlock(p, l) == Store(p, "lock", l, NULL)

\* the last event of high priority, from the count kept in the list
LastHigh(m, l) ==
    IF F(m, "lasthigh", l) = 0 THEN NULL
    ELSE Chain(m, F(m, "first", l), F(m, "lasthigh", l))[F(m, "lasthigh", l)]

------------------------------------------------------------------------------
(* Writing to an output list *)

\* the record kept for et_repair_outputlist
FixOut(p, l, num) ==
    LET p1 == IF F(p.m, "cnt", l) = 0 THEN Store(p, "first", l, NULL) ELSE p
    IN  StoreAll(p1, << <<"fixcnt", l, F(p.m, "cnt", l)>>, <<"fixnum", l, num>>,
                        <<"start", l, F(p.m, "start", l) + 1>> >>)

\* one event, priorities respected, into a list that is not empty
LinkByPriority(p, l, e) ==
    LET atEnd(q)   == StoreAll(q, << <<"next", q.last, e>>, <<"last", l, e>> >>)
        atFront(q) == StoreAll(q, << <<"next", e, F(q.m, "first", l)>>, <<"first", l, e>> >>)
        after(q)   == StoreAll(q, << <<"next", e, NextOf(q.m, q.high)>>, <<"next", q.high, e>> >>)
    IN  IF e \notin High THEN [atEnd(p) EXCEPT !.last = e]
        ELSE LET q == IF p.high = NULL THEN atFront(p)
                      ELSE IF p.high = p.last THEN [atEnd(p) EXCEPT !.last = e]
                      ELSE after(p)
             IN  [Add(q, "lasthigh", l, 1) EXCEPT !.high = e]

et_station_write(p, l, e) ==
    LET p1 == FixOut(p, l, 1)
        p2 == IF F(p.m, "cnt", l) = 0
              THEN LET q == StoreAll(p1, << <<"first", l, e>>, <<"last", l, e>> >>)
                   IN  IF e \in High THEN Store(q, "lasthigh", l, 1) ELSE q
              ELSE LinkByPriority([p1 EXCEPT !.last = F(p.m, "last", l),
                                             !.high = LastHigh(p.m, l)], l, e)
        p3 == Add(Store(p2, "owner", e, SYS), "cnt", l, 1)
    IN  Add(p3, "start", l, -1)

et_station_nwrite(p, l, pe) ==
    LET p1 == FixOut(p, l, Len(pe))
        empty == F(p.m, "cnt", l) = 0
        e0 == pe[1]
        q0 == StoreAll(p1, << <<"first", l, e0>>, <<"last", l, e0>>, <<"owner", e0, SYS>> >>)
        q1 == IF e0 \in High THEN [Store(q0, "lasthigh", l, 1) EXCEPT !.high = e0] ELSE q0
        p2 == IF empty THEN [Add(q1, "cnt", l, 1) EXCEPT !.last = e0]
              ELSE [p1 EXCEPT !.last = F(p.m, "last", l), !.high = LastHigh(p.m, l)]
        one(q, e) == Add(Store(LinkByPriority(q, l, e), "owner", e, SYS), "cnt", l, 1)
        p3 == FoldLeft(one, p2, IF empty THEN Tail(pe) ELSE pe)
    IN  Add(p3, "start", l, -1)

------------------------------------------------------------------------------
(* Reading from an input list; dumping into that of GrandCentral *)

et_station_read(p, l, a) ==
    LET e == F(p.m, "first", l)
        p1 == StoreAll(p, << <<"fixcnt", l, F(p.m, "cnt", l)>>, <<"fixnum", l, 1>>,
                             <<"call", l, "read">>, <<"fixfirst", l, e>>,
                             <<"first", l, NextOf(p.m, e)>>, <<"owner", e, a>> >>)
    IN  Store(Add(p1, "cnt", l, -1), "fixfirst", l, NULL)

et_station_nread(p, l, a, num) ==
    LET pe == Chain(p.m, F(p.m, "first", l), num)
        p1 == StoreAll(p, << <<"fixnum", l, num>>, <<"fixcnt", l, F(p.m, "cnt", l)>>,
                             <<"call", l, "read">>, <<"fixfirst", l, F(p.m, "first", l)>> >>)
        p2 == FoldLeft(LAMBDA q, e : Store(q, "owner", e, a), p1, pe)
        p3 == Store(p2, "first", l, NextOf(p.m, pe[num]))
    IN  Store(Add(p3, "cnt", l, -num), "fixfirst", l, NULL)

\* mutant: the record does not say that the call is a dump
FixDumpUnnamed(p, num) ==
    StoreAll(p, << <<"fixcnt", "gcIn", F(p.m, "cnt", "gcIn")>>, <<"fixnum", "gcIn", num>>,
                   <<"start", "gcIn", F(p.m, "start", "gcIn") + 1>> >>)

\* the record kept for et_repair_gcinputlist
FixDump(p, num) ==
    LET p1 == IF F(p.m, "cnt", "gcIn") = 0 THEN Store(p, "first", "gcIn", NULL) ELSE p
    IN  StoreAll(p1, << <<"fixcnt", "gcIn", F(p.m, "cnt", "gcIn")>>, <<"fixnum", "gcIn", num>>,
                        <<"call", "gcIn", "dump">>,
                        <<"start", "gcIn", F(p.m, "start", "gcIn") + 1>> >>)

et_station_dump(p, e) ==
    LET p1 == FixDump(p, 1)
        p2 == IF F(p.m, "cnt", "gcIn") = 0 THEN Store(p1, "first", "gcIn", e)
              ELSE Store(p1, "next", F(p.m, "last", "gcIn"), e)
        p3 == StoreAll(p2, << <<"last", "gcIn", e>>, <<"owner", e, SYS>> >>)
    IN  Add(Add(p3, "cnt", "gcIn", 1), "start", "gcIn", -1)

et_station_ndump(p, pe) ==
    LET p1 == FixDump(p, Len(pe))
        empty == F(p.m, "cnt", "gcIn") = 0
        e0 == pe[1]
        q0 == StoreAll(p1, << <<"first", "gcIn", e0>>, <<"last", "gcIn", e0>>, <<"owner", e0, SYS>> >>)
        p2 == IF empty THEN Add(q0, "cnt", "gcIn", 1) ELSE p1
        one(q, e) == Add(StoreAll(q, << <<"next", F(q.m, "last", "gcIn"), e>>, <<"last", "gcIn", e>>,
                                        <<"owner", e, SYS>> >>), "cnt", "gcIn", 1)
        p3 == FoldLeft(one, p2, IF empty THEN Tail(pe) ELSE pe)
    IN  Add(p3, "start", "gcIn", -1)

\* et_init_event_ of an event just taken: the owner is given up and taken back
et_init_event_(p, e, a) ==
    StoreAll(p, << <<"owner", e, SYS>>, <<"next", e, NULL>>, <<"age", e, "new">>,
                   <<"owner", e, a>> >>)

------------------------------------------------------------------------------
(* The conductors, threads of the ET process: whole batches, under the mutex *)

\* mutant: the count is left as it was
ReadKeepsCount(m, l) == [m EXCEPT !.first[l] = NULL]

et_llist_read(m, l) ==
    [m EXCEPT !.first[l] = NULL, !.cnt[l] = 0, !.lasthigh[l] = 0]

\* pe[1] -> pe[2] -> ...
String(p, pe) ==
    StoreAll(p, [i \in 1..(Len(pe) - 1) |-> <<"next", pe[i], pe[i + 1]>>])

et_llist_write_gc(m, pe) ==
    LET p0 == Begin(m)
        p1 == IF F(m, "cnt", "gcIn") = 0 THEN Store(p0, "first", "gcIn", pe[1])
              ELSE Store(p0, "next", F(m, "last", "gcIn"), pe[1])
        p2 == Store(String(p1, pe), "last", "gcIn", pe[Len(pe)])
    IN  Add(p2, "cnt", "gcIn", Len(pe)).m

\* the events of high priority a list begins with
LeadingHigh(m, l) ==
    LET c == Content(m, l)
    IN  Cardinality({i \in 1..Len(c) : \A j \in 1..i : c[j] \in High})

et_llist_write(m, l, pe) ==
    LET p0 == Begin(m)
        n == F(m, "cnt", l)
        end(p) == Store(String(p, pe), "last", l, pe[Len(pe)])
        high == LeadingHigh(m, l)
        c == Content(m, l)
        after == IF high = 0 THEN F(m, "first", l) ELSE NextOf(m, c[high])
        highs == SelectSeq(pe, LAMBDA e : e \in High)
        lows == SelectSeq(pe, LAMBDA e : e \notin High)
        h1 == Store(String(p0, highs), "next", highs[Len(highs)], after)
        h2 == IF high = 0 THEN Store(h1, "first", l, pe[1]) ELSE Store(h1, "next", c[high], pe[1])
        h3 == IF high = n THEN Store(h2, "last", l, highs[Len(highs)]) ELSE h2
        w == IF n = 0 THEN end(Store(p0, "first", l, pe[1]))
             ELSE IF pe[1] \notin High THEN end(Store(p0, "next", F(m, "last", l), pe[1]))
             ELSE IF lows = <<>> THEN h3
             ELSE LET q == Store(String(h3, lows), "next", F(h3.m, "last", l), lows[1])
                  IN  Store(q, "last", l, lows[Len(lows)])
    IN  Add(w, "cnt", l, Len(pe)).m

------------------------------------------------------------------------------
(* Repair, by the heart monitor, of a list a dead process holds locked *)

\* mutant: the repair forgets the owners
KeepOwners(m, es, o) == m

SetOwners(m, es, o) == [m EXCEPT !.owner = [e \in Events |-> IF e \in es THEN o ELSE @[e]]]

\* mutant: the walk leaves out the events being written
WalkOld(m, l) == ChainTo(m, F(m, "first", l), F(m, "last", l), F(m, "fixcnt", l))

\* walk from the first event to the last, at most fix.cnt + fix.num of them
Walk(m, l) ==
    ChainTo(m, F(m, "first", l), F(m, "last", l), F(m, "fixcnt", l) + F(m, "fixnum", l))

et_repair_outputlist(m, l) ==
    LET untouched == [m EXCEPT !.start[l] = 0]
        m1 == IF F(m, "cnt", l) = 0 THEN [m EXCEPT !.last[l] = F(m, "first", l)] ELSE m
        w == Range(Walk(m1, l))
        m2 == SetOwners(m1, w, SYS)
    IN  IF \/ F(m, "start", l) = 0
           \/ F(m, "cnt", l) = F(m, "fixcnt", l) + F(m, "fixnum", l)
           \/ F(m, "cnt", l) = 0 /\ F(m, "first", l) = NULL
        THEN untouched
        ELSE [m2 EXCEPT !.cnt[l] = Cardinality(w), !.start[l] = 0,
                        !.lasthigh[l] = Cardinality(w \cap High)]

et_repair_inputlist(m, l) ==
    LET m1 == [m EXCEPT !.first[l] = F(m, "fixfirst", l), !.fixfirst[l] = NULL]
        w == Range(ChainTo(m1, F(m1, "first", l), F(m1, "last", l), Len(EventOrder)))
    IN  IF F(m, "fixfirst", l) = NULL THEN m
        ELSE IF F(m, "cnt", l) = F(m, "fixcnt", l) - F(m, "fixnum", l)
        THEN [m EXCEPT !.fixfirst[l] = NULL]
        ELSE [SetOwners(m1, w, SYS) EXCEPT !.cnt[l] = Cardinality(w)]

et_repair_gcinputlist(m) ==
    LET l == "gcIn"
        m1 == IF F(m, "cnt", l) = 0 THEN [m EXCEPT !.last[l] = F(m, "first", l)] ELSE m
        w == Range(Walk(m1, l))
    IN  IF \/ F(m, "start", l) = 0
           \/ F(m, "cnt", l) = F(m, "fixcnt", l) + F(m, "fixnum", l)
           \/ F(m, "cnt", l) = 0 /\ F(m, "first", l) = NULL
        THEN [m EXCEPT !.start[l] = 0]
        ELSE [SetOwners(m1, w, SYS) EXCEPT !.cnt[l] = Cardinality(w), !.start[l] = 0]

\* et_mutex_locked: still locked after two seconds, so locked by a dead process;
\* SYS stands for one cleaned up after
Dead == {a \in Att : proc[a] = "dead"}
et_mutex_locked(m, l) == F(m, "lock", l) \in Dead \cup {SYS}

Unlock(m, l) == [m EXCEPT !.lock[l] = NULL]

et_repair_gc(m) ==
    IF ~et_mutex_locked(m, "gcIn") THEN m
    ELSE Unlock(IF F(m, "call", "gcIn") = "dump" THEN et_repair_gcinputlist(m)
                ELSE et_repair_inputlist(m, "gcIn"), "gcIn")

\* mutant: only the input list is looked at
RepairInputOnly(m, st) ==
    IF et_mutex_locked(m, InOf(st)) THEN Unlock(et_repair_inputlist(m, InOf(st)), InOf(st)) ELSE m

\* the input list or else the output list, never both
et_repair_station(m, st) ==
    IF et_mutex_locked(m, InOf(st)) THEN Unlock(et_repair_inputlist(m, InOf(st)), InOf(st))
    ELSE IF et_mutex_locked(m, OutOf(st)) THEN Unlock(et_repair_outputlist(m, OutOf(st)), OutOf(st))
    ELSE m

------------------------------------------------------------------------------
(* Giving back what an attachment holds *)

\* into a list, high priority first and before the events of the same priority
et_restore(p0, l, pe, a) ==
    LET p == FoldLeft(LAMBDA q, e : Store(q, "owner", e, SYS), et_llist_lock(p0, l, a), pe)
        n == F(p.m, "cnt", l)
        c == Content(p.m, l)
        high == LeadingHigh(p.m, l)
        first == F(p.m, "first", l)
        highs == SelectSeq(pe, LAMBDA e : e \in High)
        lows == SelectSeq(pe, LAMBDA e : e \notin High)
        \* the high ones before everything, each pointing to what was first
        q1 == StoreAll(p, << <<"next", highs[1], first>>, <<"first", l, highs[1]>> >>)
        withHighs == FoldLeft(LAMBDA q, i : StoreAll(q, << <<"next", highs[i - 1], highs[i]>>,
                                                           <<"next", highs[i], first>> >>),
                              q1, [i \in 1..(Len(highs) - 1) |-> i + 1])
        h == IF highs = <<>> THEN p ELSE withHighs
        \* the low ones at the end, or before the low ones there
        lastOfHigh == IF high # 0 THEN c[high] ELSE IF highs = <<>> THEN NULL ELSE highs[Len(highs)]
        tacked(q) == StoreAll(q, << <<"next", F(p.m, "last", l), lows[1]>>, <<"last", l, lows[Len(lows)]>> >>)
        between(q) == Store(IF lastOfHigh = NULL THEN Store(q, "first", l, lows[1])
                            ELSE Store(q, "next", lastOfHigh, lows[1]),
                            "next", lows[Len(lows)], c[high + 1])
        r == IF n = 0 THEN StoreAll(String(p, pe), << <<"first", l, pe[1]>>, <<"last", l, pe[Len(pe)]>> >>)
             ELSE IF lows = <<>> THEN h
             ELSE IF high = n THEN tacked(String(h, lows))
             ELSE between(String(h, lows))
    IN  et_llist_unlock(Add(r, "cnt", l, Len(pe)), l)

Locked(p, l, a, body(_)) == et_llist_unlock(body(et_llist_lock(p, l, a)), l)

\* the two halves of et_flush_events: from the input list of a station left by
\* everyone, and to its output list or that of the station before it
FlushReads(p, a) ==
    Locked(p, "sIn", a, LAMBDA q : et_station_nread(q, "sIn", a, F(p.m, "cnt", "sIn")))
FlushWrites(p, a, mode, pe) ==
    IF mode = "redist" THEN et_restore(p, "gcOut", pe, a)
    ELSE Locked(p, "sOut", a, LAMBDA q : et_station_nwrite(q, "sOut", pe))

et_flush_events(p, a, mode) ==
    IF F(p.m, "cnt", "sIn") = 0 THEN p
    ELSE FlushWrites(FlushReads(p, a), a, mode, Content(p.m, "sIn"))

\* The three parts of et_restore_events. What the attachment holds, new and used;
ByPriority(c) == SelectSeq(c, LAMBDA e : e \in High) \o SelectSeq(c, LAMBDA e : e \notin High)
Mine(m, a, Age(_)) == SelectSeq(EventOrder, LAMBDA e : F(m, "owner", e) = a /\ Age(F(m, "age", e)))
New(m, a) == Mine(m, a, LAMBDA age : age = "new")
Used(m, a) == Mine(m, a, LAMBDA age : age # "new")

\* the used ones given up while the memory is searched;
Disown(p, es) == FoldLeft(LAMBDA q, e : Store(q, "owner", e, SYS), p, es)

\* and where they go
Dump(p, a, es) == Locked(p, "gcIn", a, LAMBDA q : et_station_ndump(q, es))
GivesBack(p, a, mode, es) ==
    IF mode = "gc" \/ Stat[a] = "gc" THEN Dump(p, a, es)
    ELSE IF mode = "out" THEN Locked(p, "sOut", a, LAMBDA q : et_station_nwrite(q, "sOut", es))
    \* nattachments still counts the one that leaves: it is never 0 here
    ELSE IF mode = "in" THEN et_restore(p, "sIn", es, a)
    ELSE et_restore(p, "gcOut", es, a)

et_restore_events(p, a, mode) ==
    LET used == ByPriority(Used(p.m, a))
        p1 == Disown(p, Used(p.m, a))
        p2 == IF New(p.m, a) = <<>> THEN p1 ELSE Dump(p1, a, New(p.m, a))
    IN  IF used = <<>> THEN p2 ELSE GivesBack(p2, a, mode, used)

Attached(st) == {a \in Att : proc[a] # "gone" /\ Stat[a] = st}
IsLast(a) == Stat[a] # "gc" /\ Attached(Stat[a]) = {a}

\* the station mutex: held by who detaches, or who died doing so
Detaching(a) == op[a].step # "none"
StationLocked == mon # NULL \/ \E a \in Att : Detaching(a)

\* idle without attachments, and from where the last one starts to leave
Idle == Attached("s") = {} \/ \E a \in Attached("s") : IsLast(a) /\ Detaching(a)

\* all of it, by the monitor for a dead process
et_station_detach(a, mode) ==
    LET p == Begin(mem)
    IN  et_restore_events(IF IsLast(a) THEN et_flush_events(p, a, mode) ELSE p, a, mode)

------------------------------------------------------------------------------
(* The clients *)

\* held: the events only the local variables of the call may still know; step: the
\* part of et_station_detach that is next; mode: the restore mode it has found
Idling == [call |-> "none", list |-> NULL, pe |-> <<>>, before |-> <<>>, log |-> <<>>,
           held |-> <<>>, step |-> "none", mode |-> NULL]
CanCall(a) == proc[a] = "up" /\ op[a].call = "none"

\* a call takes the mutex of l, the first store of p, and has the others to make
EnterWith(a, call, l, pe, p, held, step, mode) ==
    /\ F(mem, "lock", l) = NULL
    /\ mem' = [mem EXCEPT !.lock[l] = a]
    /\ op' = [op EXCEPT ![a] = [call |-> call, list |-> l, pe |-> pe,
                                before |-> Content(mem, l), log |-> Tail(p.log),
                                held |-> held, step |-> step, mode |-> mode]]
    /\ UNCHANGED <<proc, moving, mon, lost, torn>>

Enter(a, call, l, pe, p) == EnterWith(a, call, l, pe, p, <<>>, "none", NULL)

\* batches of its own events a client may put or dump
Batches(a) ==
    {pe \in UNION {[1..n -> {e \in Events : F(mem, "owner", e) = a}] : n \in 1..MaxNum} : IsInjective(pe)}

et_event_new(a, n) ==
    LET l == "gcIn"
        k == IF n > F(mem, "cnt", l) THEN F(mem, "cnt", l) ELSE n
        pe == Chain(mem, F(mem, "first", l), k)
        read == Locked(Begin(mem), l, a, LAMBDA q :
                       IF n = 1 THEN et_station_read(q, l, a) ELSE et_station_nread(q, l, a, k))
    IN  /\ CanCall(a) /\ a \in Producers
        /\ F(mem, "cnt", l) > 0
        /\ EnterWith(a, "new", l, pe,
                     FoldLeft(LAMBDA q, e : et_init_event_(q, e, a), read, pe), pe, "none", NULL)

et_event_get(a, n) ==
    LET l == "sIn"
        k == IF n > F(mem, "cnt", l) THEN F(mem, "cnt", l) ELSE n
        pe == Chain(mem, F(mem, "first", l), k)
    IN  /\ CanCall(a) /\ a \in Consumers
        /\ F(mem, "cnt", l) > 0
        /\ Enter(a, "get", l, pe, Locked(Begin(mem), l, a, LAMBDA q :
                  IF n = 1 THEN et_station_read(q, l, a) ELSE et_station_nread(q, l, a, k)))

\* put marks the events used before it asks for the mutex
et_event_put(a, pe) ==
    /\ CanCall(a)
    /\ op' = [op EXCEPT ![a] = [Idling EXCEPT !.call = "mark", !.list = OutOf(Stat[a]), !.pe = pe,
                   !.log = FoldLeft(LAMBDA q, e : Store(q, "age", e, "used"), Begin(mem), pe).log]]
    /\ UNCHANGED <<mem, proc, moving, mon, lost, torn>>

PutLocks(a) ==
    LET l == op[a].list
        pe == op[a].pe
    IN  /\ proc[a] = "up" /\ op[a].call = "mark" /\ op[a].log = <<>>
        /\ Enter(a, "put", l, pe, Locked(Begin(mem), l, a, LAMBDA q :
                  IF Len(pe) = 1 THEN et_station_write(q, l, pe[1]) ELSE et_station_nwrite(q, l, pe)))

et_event_dump(a, pe) ==
    /\ CanCall(a)
    /\ Enter(a, "dump", "gcIn", pe, Locked(Begin(mem), "gcIn", a, LAMBDA q :
              IF Len(pe) = 1 THEN et_station_dump(q, pe[1]) ELSE et_station_ndump(q, pe)))

\* the next store of the call; the call returns after the last, or goes on to its
\* next step
StoreStep(a) ==
    LET keeps == op[a].step \in {"dump", "give", "write"}
    IN  /\ proc[a] = "up" /\ op[a].log # <<>>
        /\ mem' = LET s == Head(op[a].log) IN [mem EXCEPT ![s[1][1]][s[1][2]] = s[2]]
        /\ op' = [op EXCEPT ![a] = IF Len(@.log) > 1 THEN [@ EXCEPT !.log = Tail(@)]
                                   ELSE IF @.call = "mark" THEN [@ EXCEPT !.log = <<>>]
                                   ELSE IF ~Detaching(a) THEN Idling
                                   ELSE [Idling EXCEPT !.call = op[a].call, !.step = op[a].step, !.mode = op[a].mode,
                                                       !.held = IF keeps THEN op[a].held ELSE <<>>]]
        /\ UNCHANGED <<proc, moving, mon, lost, torn>>

(* et_station_detach of a live process: its stores, list after list, and what *)
(* others do in between                                                       *)

Detaches(a, step) == proc[a] = "up" /\ op[a].step = step /\ op[a].log = <<>>
GoesOn(a, step) ==
    /\ op' = [op EXCEPT ![a].step = step]
    /\ UNCHANGED <<mem, proc, moving, mon, lost, torn>>

\* the restore mode is what et_station_setrestore has made it, and stays while the
\* station mutex is held
Finds(a, mode) == op[a].mode \in {NULL, mode}

\* the last one makes the station idle, between two transfers of any conductor
DetachBegins(a) ==
    /\ CanCall(a) /\ ~StationLocked
    /\ IsLast(a) => moving = [st \in {"gc", "s"} |-> <<>>]
    /\ op' = [op EXCEPT ![a] = [Idling EXCEPT !.call = "detach",
                                !.step = IF IsLast(a) THEN "read" ELSE "scan"]]
    /\ UNCHANGED <<mem, proc, moving, mon, lost, torn>>

FlushFindsNone(a) ==
    /\ Detaches(a, "read") /\ F(mem, "lock", "sIn") = NULL /\ F(mem, "cnt", "sIn") = 0
    /\ GoesOn(a, "scan")

FlushRead(a) ==
    LET pe == Content(mem, "sIn")
    IN  /\ Detaches(a, "read") /\ pe # <<>>
        /\ EnterWith(a, "get", "sIn", pe, FlushReads(Begin(mem), a), pe, "write", NULL)

FlushWrite(a, mode) ==
    LET pe == op[a].held
        redist == mode = "redist"
    IN  /\ Detaches(a, "write")
        /\ EnterWith(a, IF redist THEN "restore" ELSE "put", IF redist THEN "gcOut" ELSE "sOut", pe,
                     FlushWrites(Begin(mem), a, mode, pe), pe, "scan", mode)

Scan(a) ==
    LET used == Used(mem, a)
    IN  /\ Detaches(a, "scan")
        /\ op' = [op EXCEPT ![a].call = "scan", ![a].log = Disown(Begin(mem), used).log,
                            ![a].held = ByPriority(used),
                            ![a].step = IF New(mem, a) # <<>> THEN "dump"
                                        ELSE IF used # <<>> THEN "give" ELSE "left"]
        /\ UNCHANGED <<mem, proc, moving, mon, lost, torn>>

DumpNew(a) ==
    LET new == New(mem, a)
    IN  /\ Detaches(a, "dump")
        /\ EnterWith(a, "dump", "gcIn", new, Dump(Begin(mem), a, new), op[a].held,
                     IF op[a].held # <<>> THEN "give" ELSE "left", op[a].mode)

GiveBack(a, mode) ==
    LET es == op[a].held
        p == GivesBack(Begin(mem), a, mode, es)
        toGC == mode = "gc" \/ Stat[a] = "gc"
    IN  /\ Detaches(a, "give") /\ Finds(a, mode)
        /\ EnterWith(a, IF toGC THEN "dump" ELSE IF mode = "out" THEN "put" ELSE "restore",
                     Head(p.log)[1][2], es, p, es, "left", NULL)

Leaves(a) ==
    /\ Detaches(a, "left")
    /\ proc' = [proc EXCEPT ![a] = "gone"]
    /\ op' = [op EXCEPT ![a] = Idling]
    /\ UNCHANGED <<mem, moving, mon, lost, torn>>

DetachStep(a) ==
    \/ FlushFindsNone(a) \/ FlushRead(a) \/ Scan(a) \/ DumpNew(a) \/ Leaves(a)
    \/ \E mode \in Modes : FlushWrite(a, mode) \/ GiveBack(a, mode)

et_station_attach(a) ==
    /\ proc[a] = "gone" /\ ~StationLocked
    /\ proc' = [proc EXCEPT ![a] = "up"]
    /\ UNCHANGED <<mem, op, moving, mon, lost, torn>>

\* at any point, but not while another one detaches
Crash(a) ==
    /\ proc[a] = "up" /\ a \in Producers \cup Consumers /\ Cardinality(Dead) < MaxDeaths
    /\ \A b \in Att \ {a} : ~Detaching(b)
    /\ proc' = [proc EXCEPT ![a] = "dead"]
    /\ UNCHANGED <<mem, op, moving, mon, lost, torn>>

------------------------------------------------------------------------------
(* The ET process *)

\* what the lists in use hold, and what only a process knows of: events it has
\* given up, in et_init_event_ or et_station_detach, and not put anywhere yet
InList(m, l) == IF F(m, "lock", l) = SYS THEN {} ELSE Range(Content(m, l))
InHand(m, a, e) ==
    /\ e \in Range(op[a].held) /\ F(m, "owner", e) = SYS
    /\ \A l \in Lists : e \notin InList(m, l)

\* the heart monitor notices a death and repairs the lists: GrandCentral's input list and those of the station the
\* dead one was attached to, none else
Repair(a) ==
    LET repaired == et_repair_station(et_repair_gc(mem), Stat[a])
        abandoned == {l \in Lists : F(repaired, "lock", l) = a}
        m == [repaired EXCEPT !.lock = [l \in Lists |-> IF l \in abandoned THEN SYS ELSE @[l]]]
        opened == {l \in Lists : F(mem, "lock", l) \in {a, SYS} /\ F(m, "lock", l) = NULL}
    IN  /\ proc[a] = "dead" /\ mon = NULL
        /\ mem' = m
        /\ mon' = a
        /\ lost' = lost \cup {e \in Events : InHand(m, a, e)}
                        \cup (IF abandoned = {} THEN {} ELSE Range(op[a].before))
        /\ torn' = torn \cup {l \in opened : F(mem, "lock", l) = SYS \/ op[a].call = "restore"}
        /\ op' = [op EXCEPT ![a] = [Idling EXCEPT !.step = op[a].step]]
        /\ UNCHANGED <<proc, moving>>

\* lists a program locks, none of them held by someone else
Takes(p) == {l \in Lists : \E i \in DOMAIN p.log : p.log[i][1] = <<"lock", l>>}

\* and detaches what the dead one had attached
CleanUp(a, mode) ==
    LET p == et_station_detach(a, mode)
    IN  /\ mon = a /\ \A l \in Takes(p) : F(mem, "lock", l) = NULL
        /\ mem' = p.m
        /\ proc' = [proc EXCEPT ![a] = "gone"]
        /\ op' = [op EXCEPT ![a] = Idling]
        /\ mon' = NULL
        /\ UNCHANGED <<moving, lost, torn>>

ConductorReads(st) ==
    LET l == OutOf(st)
    IN  /\ moving[st] = <<>> /\ F(mem, "lock", l) = NULL /\ F(mem, "cnt", l) > 0
        /\ moving' = [moving EXCEPT ![st] = Content(mem, l)]
        /\ mem' = et_llist_read(mem, l)
        /\ UNCHANGED <<proc, op, mon, lost, torn>>

\* from GrandCentral to the station unless it is idle, from there back
ConductorWrites(st) ==
    LET l == IF st = "gc" /\ ~Idle THEN "sIn" ELSE "gcIn"
    IN  /\ moving[st] # <<>> /\ F(mem, "lock", l) = NULL
        /\ mem' = IF l = "gcIn" THEN et_llist_write_gc(mem, moving[st])
                  ELSE et_llist_write(mem, l, moving[st])
        /\ moving' = [moving EXCEPT ![st] = <<>>]
        /\ UNCHANGED <<proc, op, mon, lost, torn>>

\* every event in the input list of GrandCentral
InitialMem ==
    LET n == Len(EventOrder)
        At(e) == CHOOSE i \in 1..n : EventOrder[i] = e
        Each(v) == [l \in Lists |-> v]
        Ends(e) == [Each(NULL) EXCEPT !["gcIn"] = e]
    IN  [first |-> Ends(EventOrder[1]), last |-> Ends(EventOrder[n]), cnt |-> [Each(0) EXCEPT !["gcIn"] = n],
         lasthigh |-> Each(0), lock |-> Each(NULL), call |-> Each("read"),
         start |-> Each(0), fixcnt |-> Each(0), fixnum |-> Each(0), fixfirst |-> Each(NULL),
         next |-> [e \in Events |-> IF At(e) = n THEN NULL ELSE EventOrder[At(e) + 1]],
         owner |-> [e \in Events |-> SYS], age |-> [e \in Events |-> "new"]]

Init ==
    /\ mem = InitialMem
    /\ proc = [a \in Att |-> "up"] /\ op = [a \in Att |-> Idling]
    /\ moving = [st \in {"gc", "s"} |-> <<>>]
    /\ mon = NULL /\ lost = {} /\ torn = {}

\* The stores of a live process go to a list it holds or to events it owns, which no
\* one else reads or writes: they are not interleaved with the steps of others. Nor
\* are the steps that only lead up to the next lock it takes, when it need not wait
\* for that: others cannot tell them from the same steps made later.
Busy(a) ==
    /\ proc[a] = "up"
    /\ \/ op[a].log # <<>>
       \/ /\ \/ op[a].call \in {"mark", "scan"} \/ op[a].step \in {"write", "left"}
             \/ op[a].call = "detach" /\ op[a].step = "scan"
          /\ \A l \in Lists : F(mem, "lock", l) = NULL
Calm(others) == \A a \in others : ~Busy(a)

\* The repair changes only what the dead process holds, so it comes before the steps
\* of others when no other process may die before it.
Noticed == Dead = {} \/ mon # NULL \/ Cardinality(Dead) < MaxDeaths

\* From a list torn in et_restore anything may be read: there the model ends.
Next ==
    /\ torn = {}
    /\ \/ \E a \in Att : Calm(Att \ {a}) /\ (StoreStep(a) \/ Crash(a))
       \/ \E a \in Att : Calm(Att \ {a}) /\ Noticed /\ (PutLocks(a) \/ DetachStep(a))
       \/ \E a \in Att : Calm(Att) /\ Repair(a)
       \/ /\ Calm(Att) /\ Noticed
          /\ \/ \E a \in Att, n \in 1..MaxNum : et_event_new(a, n) \/ et_event_get(a, n)
             \/ \E a \in Att : \E pe \in Batches(a) : et_event_put(a, pe) \/ et_event_dump(a, pe)
             \/ \E a \in Att : et_station_attach(a) \/ DetachBegins(a)
             \/ \E a \in Att, mode \in Modes : CleanUp(a, mode)
             \/ \E st \in {"gc", "s"} : ConductorReads(st) \/ ConductorWrites(st)

Spec == Init /\ [][Next]_vars

------------------------------------------------------------------------------
(* Properties *)

Pointers == [Lists -> Events \cup {NULL}]
Counts == [Lists -> 0..Len(EventOrder)]

\* Every cell holds a value of its kind, and every call and step of a detach is one of
\* the code's.
TypeOK ==
    /\ mem \in [first : Pointers, last : Pointers, fixfirst : Pointers,
               cnt : Counts, lasthigh : Counts, fixcnt : Counts, fixnum : Counts,
               start : [Lists -> {0, 1}], lock : [Lists -> Att \cup {NULL, SYS}], call : [Lists -> {"read", "dump"}],
               next : [Events -> Events \cup {NULL}], owner : [Events -> Att \cup {SYS}],
               age : [Events -> {"new", "used"}]]
    /\ proc \in [Att -> {"up", "dead", "gone"}]
    /\ \A a \in Att :
        /\ op[a].call \in {"none", "new", "get", "mark", "put", "dump", "detach", "scan", "restore"}
        /\ op[a].step \in {"none", "read", "write", "scan", "dump", "give", "left"}
    /\ mon \in Att \cup {NULL} /\ lost \subseteq Events /\ torn \subseteq Lists

HighFirst(c) == \A i, j \in 1..Len(c) : i < j /\ c[j] \in High => c[i] \in High

\* A list nobody holds is whole, whoever died in the middle of a call on it: its
\* count, first and last pointers describe one chain of distinct events owned by
\* the system, high priority first except in GrandCentral's input list, and
\* lasthigh never points past the high priority events (et_station_read, nread,
\* write, nwrite, dump and ndump of a call or of a detach, et_llist_read and write,
\* et_restore, and the et_repair functions). Excepted is a list whose holder died in
\* et_restore, which keeps no record for the repair: et_repair_station unlocks it as
\* it is.
ListsIntact ==
    \A l \in Lists : F(mem, "lock", l) = NULL /\ l \notin torn =>
        LET c == Content(mem, l)
        IN  /\ F(mem, "start", l) = 0 /\ F(mem, "fixfirst", l) = NULL
            /\ Len(c) > 0 => F(mem, "last", l) = c[Len(c)]
            /\ IsInjective(c) /\ Range(c) \subseteq Events
            /\ \A e \in Range(c) : F(mem, "owner", e) = SYS
            /\ l # "gcIn" => HighFirst(c)
            /\ F(mem, "lasthigh", l) <= Cardinality(Range(c) \cap High)

\* The places an event is in.
Places(e) ==
    {l \in Lists : e \in InList(mem, l)}
    \cup {<<"moving", st>> : st \in {s \in {"gc", "s"} : e \in Range(moving[s])}}
    \cup {a \in Att : proc[a] # "gone" /\ (F(mem, "owner", e) = a \/ InHand(mem, a, e))}

Quiet == torn = {} /\ \A l \in Lists : F(mem, "lock", l) \in {NULL, SYS}

\* No crash, repair, restore or transfer duplicates an event, and each that is lost
\* is lost to one of three deaths: with no list in use, every other event is in one
\* list, with one conductor or with one attachment. The three: inside
\* et_init_event_, which gives up the owner for a moment; in et_restore_events from
\* the search, which gives up the owner of the used events, to the list they go to;
\* and in et_restore on GrandCentral's output list, which stays locked. The comment
\* on et_restore_events promises the events of a process that crashes "to the system
\* for use by others" (et_readwrite.c:2120).
LostOnlyInHand ==
    Quiet => \A e \in Events : Cardinality(Places(e)) = IF e \in lost THEN 0 ELSE 1

\* What the repair of a list makes of the call the process died in: a read took all
\* its events or none, a write or a dump wrote the first few of its events. For
\* et_restore there is no repair.
RepairFinishesOrUndoes ==
    \A l \in Lists, a \in Att :
        /\ F(mem, "lock", l) = a /\ F(mem', "lock", l) = NULL /\ mon = NULL /\ mon' # NULL
        /\ op[a].call # "restore"
        => LET c == Content(mem', l)
               b == op[a].before
               pe == op[a].pe
               n == Len(pe)
           IN  CASE op[a].call \in {"new", "get"} -> c \in {b, SubSeq(b, n + 1, Len(b))}
                 [] op[a].call = "dump" -> \E k \in 0..n : c = b \o SubSeq(pe, 1, k)
                 [] OTHER -> \E k \in 0..n : c = ByPriority(b \o SubSeq(pe, 1, k))

RepairIsClean == [][RepairFinishesOrUndoes]_vars

\* The heart monitor, which holds every lock of the system while it cleans up, waits
\* for a list a dead process holds in one case: a death in et_restore on
\* GrandCentral's output list, which et_repair_station does not look at, under the
\* restore mode that makes the monitor write there itself. Then it waits for ever.
MonitorWaitsForOneDeath ==
    mon # NULL => \A mode \in Modes : \A l \in Takes(et_station_detach(mon, mode)) :
        et_mutex_locked(mem, l) => l = "gcOut" /\ F(mem, "lock", l) = SYS /\ mode = "redist"
=============================================================================
