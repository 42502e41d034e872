--------------------------- MODULE StationTraffic ---------------------------
(***************************************************************************)
(* What a station and its readers promise the rest of an ET ring, whoever  *)
(* reads and whatever fails: events arrive in the order they were made, are *)
(* taken oldest first, are held by one reader at a time, never go back to  *)
(* the input list, and once past the station or lost stay so.  Nothing is  *)
(* said of how readers hold events: EvioToolSource does.                   *)
(***************************************************************************)
EXTENDS Integers

CONSTANT MaxFill        \* bound: fills made

VARIABLE place          \* where each fill is

Fills  == 1..MaxFill
Places == {"unfilled", "queued", "held", "passed", "lost"}
At(p)  == {n \in Fills : place[n] = p}

Move(S, p) == place' = [n \in Fills |-> IF n \in S THEN p ELSE place[n]]

Init == place = [n \in Fills |-> "unfilled"]

\* The next fill is made; it is queued at the station or bypasses it.
Make ==
  \E n \in At("unfilled") :
    /\ \A m \in At("unfilled") : n <= m
    /\ Move({n}, "queued") \/ Move({n}, "passed")

\* The oldest queued fills are taken and held, or copied and let go at once.
Take ==
  \E S \in SUBSET At("queued") :
    /\ S # {} /\ \A n \in S, m \in At("queued") \ S : n < m
    /\ Move(S, "held") \/ Move(S, "passed")

\* Held fills are given back, by a put or by a reader that leaves.
GiveBack == \E S \in SUBSET At("held") : S # {} /\ Move(S, "passed")

\* The last reader leaves: the station turns idle and passes everything on.
GoIdle == Move(At("held") \cup At("queued"), "passed")

\* The ET process dies with everything in the station.
Vanish == Move(At("held") \cup At("queued"), "lost")

Next == Make \/ Take \/ GiveBack \/ GoIdle \/ Vanish

Spec == Init /\ [][Next]_place
=============================================================================
