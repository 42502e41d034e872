----------------------------- MODULE MCEtLists -----------------------------
(* A small ET system: three events, one of high priority, a process that     *)
(* makes events and two at the station, one of which only comes and goes.    *)
EXTENDS EtLists
CONSTANTS e1, e2, e3, g1, s1, s2

TheEvents == <<e1, e2, e3>>
TheHigh == {e2}
TheAtt == {g1, s1, s2}
TheProducers == {g1}
TheConsumers == {s1}
TheStat == [a \in TheAtt |-> IF a = g1 THEN "gc" ELSE "s"]

AllButLast(c) == IF c = <<>> THEN c ELSE SubSeq(c, 1, Len(c) - 1)

\* The view leaves out cells no one reads before they are written again: the repair
\* record of a list that is not locked (of call, one is read that an earlier call has
\* left, when either repair has nothing to do), the ends of an empty list (a write
\* clears first before it is announced in start), the age of an event of the system
\* (new ones are made new when taken, those of the other lists are all used), and the
\* next pointer of an event that is not followed by another in a list in use nor taken
\* part in by a call; and all of a list that stays locked for ever.
Free(l) == F(mem, "lock", l) = NULL
Abandoned(l) == F(mem, "lock", l) = SYS
Unused(l) == Free(l) \/ Abandoned(l)
NoEnds(l) == Abandoned(l) \/ (Free(l) /\ F(mem, "cnt", l) = 0)
Followed ==
    UNION {IF Abandoned(l) THEN {}
           ELSE IF Free(l) THEN Range(AllButLast(Content(mem, l)))
           ELSE LET a == F(mem, "lock", l) IN Range(op[a].pe \o op[a].before) : l \in Lists}
Unless(stale(_), f) == [k \in DOMAIN f |-> IF stale(k) THEN NULL ELSE f[k]]

LiveState ==
    LET follow == Followed
    IN  <<[mem EXCEPT !.fixcnt = Unless(Unused, @), !.fixnum = Unless(Unused, @), !.call = Unless(Unused, @),
                      !.cnt = Unless(Abandoned, @), !.lasthigh = Unless(Abandoned, @),
                      !.first = Unless(NoEnds, @), !.last = Unless(NoEnds, @),
                      !.age = Unless(LAMBDA e : F(mem, "owner", e) = SYS, @),
                      !.next = Unless(LAMBDA e : e \notin follow, @)],
          proc, op, moving, mon, lost, torn>>
=============================================================================
