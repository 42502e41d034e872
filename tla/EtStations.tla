----------------------------- MODULE EtStations -----------------------------
(***************************************************************************)
(* The lists of ET stations, pointer by pointer. The main list starts at    *)
(* GrandCentral and is linked by next and prev; a parallel station in it is *)
(* the head of a group linked by nextparallel and prevparallel.             *)
(*                                                                          *)
(* A record k holds them: k.link[s] are the pointers of station s, k.tail   *)
(* is stat_tail, k.waslast the stations marked as the last of a round robin.*)
(***************************************************************************)
EXTENDS Integers, Sequences, FiniteSets, SequencesExt

CONSTANTS
    GC,       \* GrandCentral
    None      \* the pointer -1

ET_END == -1
ET_NEWHEAD == -2

\* the pointers of a station et_init_station has initialised
Unlinked == [next |-> None, prev |-> None, nextparallel |-> None, prevparallel |-> None]

Point(k, s, field, t) == [k EXCEPT !.link[s][field] = t]

\* s and the stations reached from it by a pointer, at most as many as there are
Follow(k, s, field) ==
    LET hop == [t \in DOMAIN k.link \cup {None} |-> IF t = None THEN None ELSE k.link[t][field]]
        at[i \in Nat] == IF i = 1 THEN s ELSE hop[at[i - 1]]
    IN  SelectSeq([i \in 1..Cardinality(DOMAIN k.link) |-> at[i]], LAMBDA t : t # None)

MainList(k) == Tail(Follow(k, GC, "next"))
Group(k, s) == Follow(k, s, "nextparallel")
HeadOf(k, s) == Last(Follow(k, s, "prevparallel"))

------------------------------------------------------------------------------
\* mutant: the station after one that was removed keeps pointing back to it
UnlinkForward(k, s) == Point(k, k.link[s].prev, "next", k.link[s].next)

\* a station out of the main list
Unlink(k, s) ==
    LET p == k.link[s].prev
        k1 == IF k.tail = s THEN [k EXCEPT !.tail = p] ELSE Point(k, k.link[s].next, "prev", p)
    IN  Point(k1, p, "next", k.link[s].next)

\* the next of its group takes the place of a head in the main list
Replace(k, s) ==
    LET l == k.link[s]
        h == l.nextparallel
        k1 == [k EXCEPT !.link[h] = [@ EXCEPT !.prev = l.prev, !.next = l.next, !.prevparallel = None]]
        k2 == IF k.tail = s THEN [k1 EXCEPT !.tail = h] ELSE Point(k1, l.next, "prev", h)
    IN  Point(k2, l.prev, "next", h)

\* one that is not the head out of its group
Leave(k, s) ==
    LET l == k.link[s]
        k1 == IF l.nextparallel # None THEN Point(k, l.nextparallel, "prevparallel", l.prevparallel) ELSE k
        k2 == Point(k1, l.prevparallel, "nextparallel", l.nextparallel)
    IN  IF s \in k.waslast THEN [k2 EXCEPT !.waslast = @ \cup {l.prevparallel}] ELSE k2

\* out of the lists; the pointers of s itself stay as they are
station_remove(k, s, parallel) ==
    IF s \notin parallel \/ (k.link[s].prev # None /\ k.link[s].nextparallel = None) THEN Unlink(k, s)
    ELSE IF k.link[s].prev # None THEN Replace(k, s)
    ELSE Leave(k, s)

------------------------------------------------------------------------------
\* at the end of the main list, where p is the last: next is left as it is
AddAtEnd(k, s, p) ==
    Point(Point([k EXCEPT !.tail = s], s, "prev", p), p, "next", s)

\* between p and t of the main list: the parallel pointers are left as they are
InsertBefore(k, s, p, t) ==
    LET k1 == Point(Point(k, s, "next", t), s, "prev", p)
    IN  Point(Point(k1, t, "prev", s), p, "next", s)

\* into the group of h, after its n-th station or the last: next and prev are left
Join(k, s, h, n) ==
    LET g == Group(k, h)
        before == g[IF n \in DOMAIN g THEN n ELSE Len(g)]
        after == k.link[before].nextparallel
        k1 == Point(Point(k, s, "nextparallel", after), s, "prevparallel", before)
        k2 == IF after # None THEN Point(k1, after, "prevparallel", s) ELSE k1
    IN  Point(k2, before, "nextparallel", s)

\* which of them it is to be: nstations counts s and GrandCentral, compatible are the
\* stations whose group s may join
Placement(k, s, pos, ppos, parallel, nstations, compatible) ==
    LET main == MainList(k)
    IN  IF nstations < 3 \/ pos \notin DOMAIN main THEN "end"
        ELSE IF s \notin parallel \/ main[pos] \notin parallel \/ ppos = ET_NEWHEAD THEN "before"
        ELSE IF main[pos] \notin compatible \/ ppos = 0 THEN "error"
        ELSE "join"

station_insert(k, s, pos, ppos, how) ==
    CASE how = "end" -> AddAtEnd(k, s, Last(<<GC>> \o MainList(k)))
      [] how = "before" -> InsertBefore(k, s, (<<GC>> \o MainList(k))[pos], MainList(k)[pos])
      [] how = "join" -> Join(k, s, MainList(k)[pos], ppos)
      [] OTHER -> k

\* where a station is: the place in the main list and the one in its group
station_find(k, s) ==
    LET main == MainList(k)
        i == CHOOSE j \in DOMAIN main : s \in Range(Group(k, main[j]))
        g == Group(k, main[i])
    IN  [pos |-> i, ppos |-> (CHOOSE j \in DOMAIN g : g[j] = s) - 1]

\* pointers of its old place a station keeps when it is placed in this way
Leftover(k, s, how) ==
    CASE how = "end" -> {k.link[s].next, k.link[s].nextparallel, k.link[s].prevparallel}
      [] how = "before" -> {k.link[s].nextparallel, k.link[s].prevparallel}
      [] OTHER -> {k.link[s].next, k.link[s].prev}

------------------------------------------------------------------------------
(* What the lists stand for: a sequence of groups, each a sequence of stations *)

Dropped(order, s) ==
    SelectSeq([i \in DOMAIN order |-> SelectSeq(order[i], LAMBDA t : t # s)], LAMBDA g : g # <<>>)

Placed(order, s, pos, ppos, how) ==
    CASE how = "end" -> Append(order, <<s>>)
      [] how = "before" -> InsertAt(order, pos, <<s>>)
      [] how = "join" -> [order EXCEPT ![pos] =
                            InsertAt(@, IF ppos \in DOMAIN @ THEN ppos + 1 ELSE Len(@) + 1, s)]
      [] OTHER -> order

\* the pointers, forward and back, and the tail are those of `order'
Represents(k, order) ==
    LET heads == [i \in DOMAIN order |-> Head(order[i])]
    IN  /\ MainList(k) = heads /\ k.tail = Last(<<GC>> \o heads) /\ k.link[k.tail].next = None
        /\ \A i \in DOMAIN order : /\ Group(k, heads[i]) = order[i]
                                   /\ k.link[Last(order[i])].nextparallel = None
                                   /\ k.link[heads[i]].prev = (<<GC>> \o heads)[i]
                                   /\ k.link[heads[i]].prevparallel = None
        /\ \A i \in DOMAIN order : \A j \in DOMAIN order[i] : j > 1 =>
              /\ k.link[order[i][j]].prevparallel = order[i][j - 1]
              /\ k.link[order[i][j]].prev = None /\ k.link[order[i][j]].next = None

\* the lists of `order', nothing left over in them
Linked(order, stations) ==
    LET main == <<GC>> \o [i \in DOMAIN order |-> Head(order[i])]
        at(seq, i) == IF i \in DOMAIN seq THEN seq[i] ELSE None
        of(s) == CHOOSE i \in DOMAIN order : s \in Range(order[i])
        pointers(s) ==
            LET g == order[of(s)]
                j == CHOOSE x \in DOMAIN g : g[x] = s
            IN  [next |-> IF j = 1 THEN at(main, of(s) + 2) ELSE None,
                 prev |-> IF j = 1 THEN main[of(s)] ELSE None,
                 nextparallel |-> at(g, j + 1), prevparallel |-> at(g, j - 1)]
    IN  [link |-> [s \in stations \cup {GC} |->
                     IF s = GC THEN [Unlinked EXCEPT !.next = at(main, 2)]
                     ELSE IF \E i \in DOMAIN order : s \in Range(order[i]) THEN pointers(s) ELSE Unlinked],
         tail |-> Last(main), waslast |-> {}]
=============================================================================
