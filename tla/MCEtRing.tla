------------------------------ MODULE MCEtRing ------------------------------
(* Rings of three stations: a prescaled station before an equal cue pair, and *)
(* a round robin pair before a nonblocking station; and rings whose stations  *)
(* are created, moved and removed while an event goes round.                  *)
EXTENDS EtRing
CONSTANTS e1, e2, e3, e4, sP, sX, sY, prod, atP, atX, atY

TheAtt == {prod, atP, atX, atY}
ThePositions == {ET_END, 1, 2}

\* a ring with station sP alone and the pair sX, sY
Ring(ch, single, pair, events, leave) ==
    [chain |-> ch,
     parallel |-> {sX, sY} \cup (IF single.parallel THEN {sP} ELSE {}),
     select |-> [s \in {sP, sX, sY} |-> IF s = sP THEN single.select ELSE pair],
     block |-> [s \in {sP, sX, sY} |-> s # sP \/ single.block],
     prescale |-> [s \in {sP, sX, sY} |-> IF s = sP THEN single.prescale ELSE 1],
     events |-> events, leave |-> leave, moves |-> 0, start |-> TheAtt,
     makers |-> IF Len(events) = 1 THEN TheAtt ELSE {prod},
     cue |-> [s \in {sP, sX, sY} |-> 1],
     match |-> [s \in {sP, sX, sY} |-> {e1, e2}],
     stat |-> [a \in TheAtt |-> CASE a = prod -> GC [] a = atP -> sP [] a = atX -> sX [] OTHER -> sY]]

Prescaled == [select |-> "all", block |-> TRUE, prescale |-> 2, parallel |-> FALSE]
Nonblocking == [select |-> "match", block |-> FALSE, prescale |-> 1, parallel |-> FALSE]
ParallelAll == [select |-> "all", block |-> TRUE, prescale |-> 1, parallel |-> TRUE]

EqualCueRing(events, leave) == Ring(<< <<sP>>, <<sX, sY>> >>, Prescaled, "equalcue", events, leave)
RoundRobinRing(events, leave) == Ring(<< <<sX, sY>>, <<sP>> >>, Nonblocking, "rrobin", events, leave)

SoundRings == {  EqualCueRing(<<e1, e2, e3>>, 0), EqualCueRing(<<e1, e2>>, 2),
                 RoundRobinRing(<<e1, e2, e3>>, 0), RoundRobinRing(<<e1, e2>>, 2) }

\* stations come and go while one event goes round
Moving(ch, single, pair, start) ==
    [Ring(ch, single, pair, <<e1>>, 1) EXCEPT !.moves = 2, !.start = start]

MovingRings == {  Moving(<< <<sP>>, <<sX, sY>> >>, Prescaled, "equalcue", {prod, atX}),
                  Moving(<< <<sX, sY>>, <<sP>> >>, ParallelAll, "rrobin", {prod, atP}),
                  Moving(<< <<sX>>, <<sP>>, <<sY>> >>, Prescaled, "rrobin", {prod, atX}),
                  Moving(<< <<sP>> >>, Prescaled, "rrobin", {prod, atP}) }
AllRings == SoundRings \cup MovingRings

\* a nonblocking station, which takes one event of four, before a round robin pair
LateRoundRobin == { Ring(<< <<sP>>, <<sX, sY>> >>, Nonblocking, "rrobin", <<e1, e2, e3, e4>>, 0) }
=============================================================================
