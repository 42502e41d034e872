---------------------------- MODULE EvioToolLoop ----------------------------
(***************************************************************************)
(* EvioTool_Test's main: open an ET system or a file once, then call Next  *)
(* until it returns something other than success or ET_ERROR_READ, and     *)
(* leave without closing.  It is composed with the event source and the ET *)
(* system of EvioToolSource and asks what a reading loop can rely on.  The *)
(* second client is the one IsETAlive and ReOpenEt are there for: when the *)
(* ET system is dead it closes its connection and opens it again.          *)
(***************************************************************************)
EXTENDS EvioToolSource

Opened == opens > 0

LoopOpen == ~Opened /\ (Open \/ ReOpenEt)

\* Mutant: the loop does not look at the status.
Mutant_LoopIgnoresStatus == Opened /\ CallNext("Next")

\* Next is called again after success and after ET_ERROR_READ, which the loop
\* takes for an event with a bad magic number.
LoopNext == Opened /\ ret \in {"OK", "READ"} /\ CallNext("Next")

\* Any other status leaves the loop, and main.
LoopBreak == Opened /\ ret \notin {"OK", "READ"} /\ Exit

LoopStep == Produce \/ ReapClient \/ Reading \/ LoopOpen \/ LoopNext \/ LoopBreak

\* The loop is one thread that does not stop by itself, the producer goes on as
\* long as there is a free event, and the ET system's heart monitor runs.
LoopSpec ==
  /\ Init /\ [][LoopStep]_vars
  /\ WF_vars(Reading) /\ WF_vars(LoopNext) /\ WF_vars(LoopBreak)
  /\ WF_vars(Produce) /\ WF_vars(ReapClient)

\* The same loop beside an ET process that may die.
MortalLoopSpec == Init /\ [][LoopStep \/ EtDies]_vars

\* EvioTool::IsETAlive.
IsETAlive == fReadFromEt /\ ConnAlive

\* A client of an ET system that reconnects: it calls Next while the system is
\* alive, else it closes the connection and reopens it.
ReconnectCall ==
  \/ ~fReadFromEt /\ ReOpenEt
  \/ fReadFromEt /\ ~IsETAlive /\ Close
  \/ IsETAlive /\ CallNext("Next")

ReconnectSpec ==
  Init /\ [][EtDies \/ Produce \/ EtRestarts \/ Reading \/ ReconnectCall]_vars

-----------------------------------------------------------------------------

\* EvioTool.cc:273-275, an event "needs to be put back on the ET ring for the
\* next consumer. If not, the ET ring will block": every event a producer can
\* make passes the reader's station in the end.
RingKeepsTurning == \A n \in Fills : <>(n \in passed)

\* An event queued at the station is handed to the loop unless the loop ends.
QueuedIsDelivered ==
  \A n \in Fills : (n \in Queued) ~> (n \in seen \/ proc # "running")

\* A loop over a file comes to its end.
FileLoopEnds == fIsOpen ~> proc = "exited"

\* EvioTool.cc:255-256, Next reads an event and "Returns 0 on success, or an
\* error code if not": a successful Next hands out an event not handed out before.
SuccessIsANewEvent == dup = {}

\* EvioTool.cc:64, "Open the ET system with the same parameters as before": a
\* client that closed a dead connection and reopened it goes on reading; it does
\* not follow an event pointer of a buffer that holds none.
ReopenedReaderGoesOn == proc # "bad_event"
=============================================================================
