------------------------- MODULE EvioToolRefinement -------------------------
(***************************************************************************)
(* EvioTool and the ET station it reads, seen from the ring: the place of  *)
(* each fill as StationTraffic has it.                                     *)
(***************************************************************************)
EXTENDS EvioToolSource

Place ==
  [n \in Fills |-> IF n >= nextFill THEN "unfilled"
                   ELSE IF n \in Queued THEN "queued"
                   ELSE IF owner[n] # ET_SYS THEN "held"
                   ELSE IF n \in lost THEN "lost"
                   ELSE IF n \in passed THEN "passed" ELSE "nowhere"]

Traffic == INSTANCE StationTraffic WITH place <- Place

\* Whatever an EvioTool object's caller does, and whatever happens to the ET
\* process, the connection and the client, the ring sees an orderly station:
\* events leave its input list oldest first, none is held twice or queued again,
\* and one that passed or was lost does not come back.
OrderlyStation == Traffic!Spec
=============================================================================
