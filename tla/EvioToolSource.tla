--------------------------- MODULE EvioToolSource ---------------------------
(***************************************************************************)
(* The event source of EvioTool: how an EvioTool object opens a file or an *)
(* ET system, takes events from it in chunks, hands them to its caller one *)
(* at a time and gives them back (EvioTool/EvioTool.cc), together with the *)
(* part of the ET system those calls reach: one station's input list, the  *)
(* owner of each event, attachments, and the ET process living and dying.  *)
(*                                                                         *)
(* A fill n is one trip of an ET event through the ring: a producer fills  *)
(* it, the conductor queues it at the station (or lets it bypass), an      *)
(* attachment owns it between get and put, and it goes on its way.         *)
(*                                                                         *)
(* EvioTool is single threaded but the ET system is another process, so a  *)
(* call of Next or NextNoParse is split where it touches the ET system:    *)
(* the EndEvent at the top of NextNoParse, the get, the EndEvent at the    *)
(* end of Next.  Anything the ET system does may fall between them.        *)
(***************************************************************************)
EXTENDS Integers, Sequences, FiniteSets, Functions

CONSTANTS
  ChunkSize,   \* fEtReadChunkSize: events asked for in one et_events_get
  RingSize,    \* number of events of the ET system
  Cue,         \* length of the input list at which a nonblocking station is skipped
  NoBlock,     \* fETNoBlock: the station is created nonblocking
  WaitModes,   \* values fETWaitMode may have: "SLEEP", "ASYNC", "TIMED"
  Kinds,       \* what a producer may put in an event
  Localities,  \* where the ET system may be: "local" and/or "remote"
  FileLen,     \* events in an evio file
  MaxFill,     \* bound: fills a producer makes
  MaxOpens,    \* bound: calls of Open and ReOpenEt
  MaxDown      \* bound: calls start with fCurrentChunk above -MaxDown

ASSUME SourceAssumption ==
  /\ ChunkSize \in Nat \ {0} /\ RingSize \in Nat \ {0} /\ Cue \in Nat \ {0}
  /\ NoBlock \in BOOLEAN
  /\ WaitModes \subseteq {"SLEEP", "ASYNC", "TIMED"}
  /\ Kinds \subseteq {"good", "bad", "short"}
  /\ Localities \subseteq {"local", "remote"}
  /\ FileLen \in Nat /\ MaxFill \in Nat /\ MaxOpens \in Nat
  /\ MaxDown \in Nat \ {0, 1}

VARIABLES
  \* the ET system
  alive,          \* the ET process runs
  kind,           \* contents of each fill
  nextFill,       \* the next fill a producer makes
  input,          \* the station's input list
  owner,          \* attachment that owns a fill, ET_SYS if none does
  attached,       \* active attachments
  passed,         \* fills that went on past the station
  lost,           \* fills that vanished with an ET process
  \* the EvioTool object
  opens,          \* Open and ReOpenEt calls so far; they number handles and ids
  etIds,          \* ids et_open returned that were not closed
  evHandles,      \* evio handles evOpen returned that were not closed
  fIsOpen, fEvioHandle, filePos,
  fReadFromEt, fEventId, fEtAttach, locality,
  fNumRead, fCurrentChunk, fEventValid,
  bufState,       \* fPEventBuffer: "null", "live" or "freed"
  fPEventBuffer,  \* what its slots point to while it is live
  fEvioBuf,       \* what the buffer pointer handed to the caller points to
  copies,         \* heap copies of fills made by remote gets, not freed yet
  pc,             \* where the caller's thread is
  op,             \* the call it is in
  ret,            \* status the last call returned
  proc,           \* the process: "running", "exited" or how it crashed
  \* history
  seen, dup,      \* fills handed to the caller, and handed to it again
  putFailed,      \* fills of chunks et_events_put refused
  skipped         \* fills EndEvent stepped over though none was valid

etVars   == <<alive, kind, nextFill, input, owner, attached, passed, lost>>
connVars == <<opens, etIds, fReadFromEt, fEventId, fEtAttach, locality, bufState>>
fileVars == <<evHandles, fIsOpen, fEvioHandle, filePos>>
chunkVars == <<fNumRead, fCurrentChunk, fEventValid, fPEventBuffer, fEvioBuf, copies>>
ctlVars  == <<pc, op, ret, proc>>
histVars == <<seen, dup, putFailed, skipped>>
vars == <<etVars, connVars, fileVars, chunkVars, ctlVars, histVars>>

Fills   == 1..MaxFill
Slots   == 0..(ChunkSize - 1)
ET_SYS  == 0        \* et.h: owner of an event no attachment holds
NULL    == 0        \* a slot of fPEventBuffer calloc cleared
NoBuf   == 0        \* fEvioBuf = nullptr
FileBuf == -1       \* fEvioBuf points into an evio block buffer
Statuses == {"OK", "EOF", "ERROR", "DEAD", "EMPTY", "READ", "WRITE", "ETERR", "PARSE"}

MinOf(a, b) == IF a <= b THEN a ELSE b
Queued  == Range(input)
InUse   == Len(input) + Cardinality({n \in Fills : owner[n] # ET_SYS})

\* fEventId still names a running ET system that knows this attachment
\* (et_alive, and for a remote client a socket that still works).
ConnAlive == alive /\ fEtAttach \in attached

Init ==
  /\ alive = TRUE /\ kind = [n \in Fills |-> "unfilled"] /\ nextFill = 1
  /\ input = <<>> /\ owner = [n \in Fills |-> ET_SYS] /\ attached = {}
  /\ passed = {} /\ lost = {}
  /\ opens = 0 /\ etIds = {} /\ evHandles = {}
  /\ fIsOpen = FALSE /\ fEvioHandle = 0 /\ filePos = 0
  /\ fReadFromEt = FALSE /\ fEventId = 0 /\ fEtAttach = 0 /\ locality = "local"
  /\ fNumRead = 1 /\ fCurrentChunk = -1 /\ fEventValid = FALSE
  /\ bufState = "null" /\ fPEventBuffer = [i \in Slots |-> NULL]
  /\ fEvioBuf = NoBuf /\ copies = {}
  /\ pc = "idle" /\ op = "Next" /\ ret = "OK" /\ proc = "running"
  /\ seen = {} /\ dup = {} /\ putFailed = {} /\ skipped = {}

-----------------------------------------------------------------------------
(* The ET system.                                                          *)

\* A producer fills a free event and the conductor carries it to the station:
\* an idle station is skipped, and so is a nonblocking one whose input list is
\* at its cue.
Produce ==
  /\ alive /\ nextFill <= MaxFill /\ InUse < RingSize
  /\ nextFill' = nextFill + 1
  /\ \E k \in Kinds : kind' = [kind EXCEPT ![nextFill] = k]
  /\ \/ /\ attached # {} /\ (NoBlock => Len(input) < Cue)
        /\ input' = Append(input, nextFill) /\ UNCHANGED passed
     \/ /\ attached = {} \/ (NoBlock /\ Len(input) >= Cue)
        /\ passed' = passed \cup {nextFill} /\ UNCHANGED input
  /\ UNCHANGED <<alive, owner, attached, lost, connVars, fileVars,
                 chunkVars, ctlVars, histVars>>

\* Mutant: what the attachments own is not taken from them.
Mutant_DetachKeepsOwner(A) ==
  LET gone == A \cap attached
      last == gone # {} /\ attached \ gone = {}
  IN /\ attached' = attached \ gone /\ UNCHANGED owner
     /\ passed' = passed \cup (IF last THEN Queued ELSE {})
     /\ input'  = IF last THEN <<>> ELSE input

\* Mutant: the input list of the idle station is dropped, not flushed.
Mutant_DetachDropsInput(A) ==
  LET gone  == A \cap attached
      freed == {n \in Fills : owner[n] \in gone}
  IN /\ attached' = attached \ gone
     /\ owner'  = [n \in Fills |-> IF n \in freed THEN ET_SYS ELSE owner[n]]
     /\ passed' = passed \cup freed
     /\ input'  = IF attached \ gone = {} THEN <<>> ELSE input

\* et_station_detach of attachments A: what they own goes to the station's
\* output list, and when the last one leaves the station turns idle and its
\* input list is flushed to the output list as well.
Detach(A) ==
  LET gone  == A \cap attached
      freed == {n \in Fills : owner[n] \in gone}
      last  == gone # {} /\ attached \ gone = {}
  IN /\ attached' = attached \ gone
     /\ owner'  = [n \in Fills |-> IF n \in freed THEN ET_SYS ELSE owner[n]]
     /\ passed' = passed \cup freed \cup (IF last THEN Queued ELSE {})
     /\ input'  = IF last THEN <<>> ELSE input

\* The ET process dies: events in the station or owned by a client are gone.
EtDies ==
  /\ alive
  /\ alive' = FALSE /\ attached' = {} /\ input' = <<>>
  /\ owner' = [n \in Fills |-> ET_SYS]
  /\ lost' = lost \cup Queued \cup {n \in Fills : owner[n] # ET_SYS}
  /\ UNCHANGED <<kind, nextFill, passed, connVars, fileVars, chunkVars, ctlVars, histVars>>

\* A new ET system is started under the same name; old ids stay dead.
EtRestarts ==
  /\ ~alive /\ alive' = TRUE
  /\ UNCHANGED <<kind, nextFill, input, owner, attached, passed, lost, connVars,
                 fileVars, chunkVars, ctlVars, histVars>>

\* The server end of a remote client's socket closes.
ConnectionDrops ==
  /\ alive /\ locality = "remote" /\ fEtAttach \in attached /\ proc = "running"
  /\ Detach({fEtAttach})
  /\ UNCHANGED <<alive, kind, nextFill, lost, connVars, fileVars, chunkVars,
                 ctlVars, histVars>>

\* et_sys_heartmonitor: a client process that stopped beating loses its
\* attachments, and with them the events it owned.
ReapClient ==
  /\ alive /\ proc # "running" /\ attached # {}
  /\ Detach(attached)
  /\ UNCHANGED <<alive, kind, nextFill, lost, connVars, fileVars, chunkVars,
                 ctlVars, histVars>>

-----------------------------------------------------------------------------
(* Opening and closing.                                                    *)

CanCall == proc = "running" /\ pc = "idle"

\* EvioTool::Open.  A second Open leaves the first handle behind; a failed
\* evOpen may or may not have zeroed fEvioHandle.
Open ==
  /\ CanCall /\ opens < MaxOpens /\ opens' = opens + 1
  /\ \/ /\ evHandles' = evHandles \cup {opens'} /\ fEvioHandle' = opens'
        /\ fIsOpen' = TRUE /\ filePos' = 0 /\ ret' = "OK"
     \/ /\ fEvioHandle' \in {0, fEvioHandle} /\ fIsOpen' = FALSE /\ ret' = "ERROR"
        /\ UNCHANGED <<evHandles, filePos>>
  /\ UNCHANGED <<etVars, etIds, fReadFromEt, fEventId, fEtAttach, locality,
                 bufState, chunkVars, pc, op, proc, histVars>>

\* ReOpenEt gives up: fReadFromEt is false again.  What was acquired before
\* the failing call stays acquired.
ReOpenEtFails ==
  /\ fReadFromEt' = FALSE /\ ret' = "ETERR"
  /\ \/ UNCHANGED <<etIds, fEventId, fEtAttach, locality, attached, bufState>>  \* et_open
     \/ /\ alive /\ etIds' = etIds \cup {opens'} /\ fEventId' = opens'
        /\ locality' \in Localities
        /\ \/ UNCHANGED <<fEtAttach, attached, bufState>>   \* et_station_create or _attach
           \/ /\ attached' = attached \cup {opens'} /\ fEtAttach' = opens'   \* calloc
              /\ bufState' = "null"
  /\ UNCHANGED fPEventBuffer

ReOpenEtSucceeds ==
  /\ alive
  /\ etIds' = etIds \cup {opens'} /\ fEventId' = opens' /\ locality' \in Localities
  /\ attached' = attached \cup {opens'} /\ fEtAttach' = opens'
  /\ bufState' = "live" /\ fPEventBuffer' = [i \in Slots |-> NULL]
  /\ fReadFromEt' = TRUE /\ ret' = "OK"

\* EvioTool::OpenEt stores its arguments and calls ReOpenEt.
ReOpenEt ==
  /\ CanCall /\ opens < MaxOpens /\ opens' = opens + 1
  /\ ReOpenEtFails \/ ReOpenEtSucceeds
  /\ UNCHANGED <<alive, kind, nextFill, input, owner, passed, lost, fileVars,
                 fNumRead, fCurrentChunk, fEventValid, fEvioBuf, copies,
                 pc, op, proc, histVars>>

\* The body of EvioTool::Close, which the destructor also runs.
CloseBody ==
  /\ IF fReadFromEt
     THEN /\ Detach(IF alive THEN {fEtAttach} ELSE {})
          /\ etIds' = etIds \ {fEventId}
     ELSE UNCHANGED <<attached, owner, passed, input, etIds>>
  /\ fReadFromEt' = FALSE
  /\ evHandles' = IF fIsOpen THEN evHandles \ {fEvioHandle} ELSE evHandles
  /\ fIsOpen' = FALSE

Close ==
  /\ CanCall /\ CloseBody
  /\ bufState' = IF fReadFromEt THEN "freed" ELSE bufState
  /\ UNCHANGED <<alive, kind, nextFill, lost, opens, fEventId, fEtAttach, locality,
                 fEvioHandle, filePos, chunkVars, ctlVars, histVars>>

\* EvioTool::~EvioTool frees fPEventBuffer after Close, whose delete left the
\* pointer as it was.
Destroy ==
  /\ CanCall /\ CloseBody
  /\ IF bufState = "freed" \/ fReadFromEt
     THEN proc' = "double_free" /\ bufState' = "freed"
     ELSE proc' = proc /\ bufState' = "null"
  /\ pc' = "destroyed"
  /\ UNCHANGED <<alive, kind, nextFill, lost, opens, fEventId, fEtAttach, locality,
                 fEvioHandle, filePos, chunkVars, op, ret, histVars>>

\* The process ends without closing anything, as EvioTool_Test does.
Exit ==
  /\ CanCall \/ (proc = "running" /\ pc = "destroyed")
  /\ proc' = "exited"
  /\ UNCHANGED <<etVars, connVars, fileVars, chunkVars, pc, op, ret, histVars>>

-----------------------------------------------------------------------------
(* EndEvent.                                                               *)

\* Mutant: one event too few is put.
Mutant_ChunkButLast == {fPEventBuffer[i] : i \in 0..(fNumRead - 2)}

Chunk   == {fPEventBuffer[i] : i \in 0..(fNumRead - 1)}

\* Mutant: the chunk is put with its first event, not with its last.
Mutant_PuttingEarly == fEventValid /\ fReadFromEt /\ fCurrentChunk >= 0

Putting == fEventValid /\ fReadFromEt /\ fCurrentChunk = 0

\* Status of the et_events_put in EndEvent, "OK" when it is not called.  The
\* pointers are followed unchecked; all fills must be owned by the attachment
\* for any to be put.  A remote put only frees the client's copies.
PutStatus ==
  CASE ~Putting                                          -> "OK"
    [] Putting /\ locality = "remote"                    ->
         IF Chunk \subseteq copies THEN "OK" ELSE "CRASH"
    [] Putting /\ locality = "local" /\ ~ConnAlive       -> "DEAD"
    [] Putting /\ locality = "local" /\ ConnAlive        ->
         IF NULL \in Chunk THEN "CRASH"
         ELSE IF \A n \in Chunk : owner[n] = fEtAttach THEN "OK" ELSE "ETERR"

\* Mutants of the end of EndEvent: the event stays valid; the place stays, moves
\* by two, or moves up.
Mutant_StaysValid ==
  /\ fCurrentChunk' = IF PutStatus = "OK" THEN fCurrentChunk - 1 ELSE fCurrentChunk
  /\ UNCHANGED fEventValid
Mutant_AdvanceBy(d) ==
  IF PutStatus = "OK"
  THEN fEventValid' = FALSE /\ fCurrentChunk' = fCurrentChunk - d
  ELSE UNCHANGED <<fEventValid, fCurrentChunk>>
Mutant_Stays     == Mutant_AdvanceBy(0)
Mutant_SkipsOne  == Mutant_AdvanceBy(2)
Mutant_MovesUp   == Mutant_AdvanceBy(-1)

\* The end of EndEvent: done with this event, unless et_events_put failed.
Advance ==
  IF PutStatus = "OK"
  THEN fEventValid' = FALSE /\ fCurrentChunk' = fCurrentChunk - 1
  ELSE UNCHANGED <<fEventValid, fCurrentChunk>>

\* The whole of EvioTool::EndEvent except its return value.
EndEventBody ==
  LET put == Putting /\ PutStatus = "OK"
  IN /\ owner'  = IF put /\ locality = "local"
                  THEN [n \in Fills |-> IF n \in Chunk THEN ET_SYS ELSE owner[n]]
                  ELSE owner
     /\ passed' = IF put /\ locality = "local" THEN passed \cup Chunk ELSE passed
     /\ copies' = IF put /\ locality = "remote" THEN copies \ Chunk ELSE copies
     /\ putFailed' = IF PutStatus \in {"DEAD", "ETERR"}
                     THEN putFailed \cup Chunk ELSE putFailed
     /\ skipped' = IF fReadFromEt /\ ~fEventValid /\ fCurrentChunk >= 0
                   THEN skipped \cup ({fPEventBuffer[fCurrentChunk]} \ {NULL}) ELSE skipped
     /\ Advance
     /\ proc' = IF PutStatus = "CRASH" THEN "bad_event" ELSE proc

EndEventFrame ==
  UNCHANGED <<alive, kind, nextFill, input, attached, lost, connVars, fileVars,
              fNumRead, fPEventBuffer, fEvioBuf, seen, dup>>

\* The caller calls EndEvent.
EndEvent ==
  /\ CanCall /\ fCurrentChunk > -MaxDown
  /\ EndEventBody /\ EndEventFrame
  /\ ret' = IF PutStatus = "CRASH" THEN ret ELSE PutStatus
  /\ UNCHANGED <<pc, op>>

-----------------------------------------------------------------------------
(* NextNoParse and Next.                                                   *)

\* The caller calls Next or NextNoParse.  Reading from ET, an event still
\* valid is ended first.
CallNext(c) ==
  /\ CanCall /\ fCurrentChunk > -MaxDown
  /\ op' = c
  /\ pc' = IF fReadFromEt /\ fEventValid THEN "preEnd" ELSE "read"
  /\ UNCHANGED <<etVars, connVars, fileVars, chunkVars, ret, proc, histVars>>

\* EndEvent at the top of NextNoParse; its status is ignored.
PreEnd ==
  /\ proc = "running" /\ pc = "preEnd" /\ pc' = "read"
  /\ EndEventBody /\ EndEventFrame
  /\ UNCHANGED <<op, ret>>

\* From et_event_getdata to the end of NextNoParse: look at slot c of b.
Select(b, c) ==
  \/ /\ b[c] = NULL /\ proc' = "bad_event" /\ fCurrentChunk' = c
     /\ UNCHANGED <<fEvioBuf, fEventValid, pc, ret, seen, dup>>
  \/ /\ b[c] # NULL /\ fEvioBuf' = b[c] /\ UNCHANGED proc
     /\ \/ /\ kind[b[c]] = "short" /\ fCurrentChunk' = c
           /\ ret' = "ERROR" /\ pc' = "idle" /\ UNCHANGED <<fEventValid, seen, dup>>
        \/ /\ kind[b[c]] = "bad" /\ fCurrentChunk' = c - 1
           /\ ret' = "READ" /\ pc' = "idle" /\ UNCHANGED <<fEventValid, seen, dup>>
        \/ /\ kind[b[c]] = "good" /\ fCurrentChunk' = c
           /\ fEventValid' = TRUE /\ ret' = "OK"
           /\ pc' = IF op = "Next" THEN "end" ELSE "idle"
           /\ seen' = seen \cup {b[c]} /\ dup' = dup \cup ({b[c]} \cap seen)

InRead == proc = "running" /\ pc = "read"

\* The current chunk still has an event to hand out.
ReadFromChunk ==
  /\ InRead /\ fReadFromEt /\ locality = "local" /\ fCurrentChunk >= 0
  /\ Select(fPEventBuffer, fCurrentChunk)
  /\ UNCHANGED <<etVars, connVars, fileVars, fNumRead, fPEventBuffer, copies,
                 op, putFailed, skipped>>

\* What et_events_get finds in the input list and leaves in fPEventBuffer.
NumGot == MinOf(ChunkSize, Len(input))
Got    == [i \in Slots |-> IF i < NumGot THEN input[i + 1] ELSE fPEventBuffer[i]]

\* et_events_get of up to ChunkSize events; the last one is handed out first.
GetChunk ==
  /\ InRead /\ fReadFromEt /\ locality = "local" /\ fCurrentChunk < 0
  /\ WaitModes # {"TIMED"} /\ ConnAlive /\ input # <<>>
  /\ fNumRead' = NumGot /\ fPEventBuffer' = Got
  /\ input' = SubSeq(input, NumGot + 1, Len(input))
  /\ owner' = [n \in Fills |-> IF \E i \in 1..NumGot : input[i] = n
                               THEN fEtAttach ELSE owner[n]]
  /\ Select(Got, NumGot - 1)
  /\ UNCHANGED <<alive, kind, nextFill, attached, passed, lost, connVars, fileVars,
                 copies, op, putFailed, skipped>>

\* et_events_get or et_event_get returns an error.  The time argument is always
\* NULL, which a timed get refuses.  Without an event a sleeping get does not
\* return.  Errors leave a local reader with no chunk; a remote one sets its
\* chunk whatever the status.
GetFails ==
  /\ InRead /\ fReadFromEt /\ (locality = "local" => fCurrentChunk < 0)
  /\ \/ "TIMED" \in WaitModes /\ ret' = "ETERR"
     \/ /\ WaitModes # {"TIMED"} /\ ~ConnAlive
        /\ IF locality = "local" THEN ret' = "DEAD" ELSE ret' \in {"READ", "WRITE"}
     \/ "ASYNC" \in WaitModes /\ ConnAlive /\ input = <<>> /\ ret' = "EMPTY"
  /\ IF locality = "local" THEN fNumRead' = 0 /\ fCurrentChunk' = -1
                           ELSE fNumRead' = 1 /\ fCurrentChunk' = 0
  /\ pc' = "idle"
  /\ UNCHANGED <<etVars, connVars, fileVars, fEventValid, fPEventBuffer, fEvioBuf,
                 copies, op, proc, histVars>>

GotCopy == [fPEventBuffer EXCEPT ![0] = Head(input)]

\* et_event_get from a remote ET system, without ET_MODIFY: the server sends a
\* copy and puts the event back at once.
GetRemote ==
  /\ InRead /\ fReadFromEt /\ locality = "remote"
  /\ WaitModes # {"TIMED"} /\ ConnAlive /\ input # <<>>
  /\ fNumRead' = 1 /\ fPEventBuffer' = GotCopy
  /\ input' = Tail(input) /\ passed' = passed \cup {Head(input)}
  /\ copies' = copies \cup {Head(input)}
  /\ Select(GotCopy, 0)
  /\ UNCHANGED <<alive, kind, nextFill, owner, attached, lost, connVars, fileVars,
                 op, putFailed, skipped>>

\* evReadNoCopy: an event, the end of the file, or an error; a handle that is
\* not open is an error.
ReadFile ==
  /\ InRead /\ ~fReadFromEt
  /\ \/ /\ fEvioHandle \in evHandles /\ filePos < FileLen
        /\ filePos' = filePos + 1 /\ fEvioBuf' = FileBuf
        /\ fEventValid' = TRUE /\ ret' = "OK"
        /\ pc' = IF op = "Next" THEN "end" ELSE "idle"
     \/ /\ fEvioHandle \in evHandles /\ filePos = FileLen /\ ret' = "EOF"
        /\ pc' = "idle" /\ UNCHANGED <<filePos, fEvioBuf, fEventValid>>
     \/ /\ ret' = "ERROR"
        /\ pc' = "idle" /\ UNCHANGED <<filePos, fEvioBuf, fEventValid>>
  /\ UNCHANGED <<etVars, connVars, evHandles, fIsOpen, fEvioHandle, fNumRead,
                 fCurrentChunk, fPEventBuffer, copies, op, proc, histVars>>

\* The rest of Next: the event is parsed, which copies its data, and ended.
\* Next returns the status of the parse, not the one of EndEvent.
FinishNext ==
  /\ proc = "running" /\ pc = "end" /\ pc' = "idle"
  /\ EndEventBody /\ EndEventFrame
  /\ ret' \in {"OK", "PARSE"}
  /\ UNCHANGED op

-----------------------------------------------------------------------------

EtNext == Produce \/ EtDies \/ EtRestarts \/ ConnectionDrops \/ ReapClient
Reading ==
  PreEnd \/ ReadFromChunk \/ GetChunk \/ GetFails \/ GetRemote \/ ReadFile \/ FinishNext
Calls ==
  \/ Open \/ ReOpenEt \/ Close \/ Destroy \/ Exit \/ EndEvent
  \/ \E c \in {"Next", "NextNoParse"} : CallNext(c)

Next == EtNext \/ Reading \/ Calls
Spec == Init /\ [][Next]_vars

-----------------------------------------------------------------------------
(* Correctness.                                                            *)

FlagType ==
  /\ alive \in BOOLEAN /\ fReadFromEt \in BOOLEAN /\ fIsOpen \in BOOLEAN
  /\ fEventValid \in BOOLEAN

EtType ==
  /\ kind \in [Fills -> Kinds \cup {"unfilled"}]
  /\ nextFill \in 1..(MaxFill + 1) /\ input \in Seq(Fills)
  /\ owner \in [Fills -> 0..MaxOpens] /\ attached \subseteq 1..MaxOpens
  /\ passed \subseteq Fills /\ lost \subseteq Fills

ConnType ==
  /\ opens \in 0..MaxOpens /\ etIds \subseteq 1..MaxOpens
  /\ fEventId \in 0..MaxOpens /\ fEtAttach \in 0..MaxOpens
  /\ locality \in {"local", "remote"} /\ bufState \in {"null", "live", "freed"}

FileType ==
  /\ evHandles \subseteq 1..MaxOpens
  /\ fEvioHandle \in 0..MaxOpens /\ filePos \in 0..FileLen

ChunkType ==
  /\ fNumRead \in 0..ChunkSize /\ fCurrentChunk \in Int /\ fCurrentChunk < ChunkSize
  /\ fPEventBuffer \in [Slots -> Fills \cup {NULL}]
  /\ fEvioBuf \in Fills \cup {NoBuf, FileBuf} /\ copies \subseteq Fills

CtlType ==
  /\ pc \in {"idle", "preEnd", "read", "end", "destroyed"}
  /\ op \in {"Next", "NextNoParse"} /\ ret \in Statuses
  /\ proc \in {"running", "exited", "bad_event", "double_free"}

HistType ==
  /\ seen \subseteq Fills /\ dup \subseteq Fills
  /\ putFailed \subseteq Fills \cup {NULL} /\ skipped \subseteq Fills

TypeOK ==
  FlagType /\ EtType /\ ConnType /\ FileType /\ ChunkType /\ CtlType /\ HistType

Owned(a) == {n \in Fills : owner[n] = a}
CurrentChunk == IF fCurrentChunk >= 0 THEN Chunk ELSE {}
Reader   == fReadFromEt /\ locality = "local" /\ ConnAlive

\* Every fill made so far is in exactly one place: queued at the station (once),
\* owned by an active attachment, past the station, or lost with an ET process;
\* whatever gets, puts, detaches, crashes and reopenings happen.
EveryFillAccountedFor ==
  /\ IsInjective(input)
  /\ \A n \in Fills : owner[n] # ET_SYS =>
       owner[n] \in attached /\ n \notin Queued \cup passed \cup lost
  /\ Queued \cap (passed \cup lost) = {} /\ passed \cap lost = {}
  /\ Queued \cup passed \cup lost \cup {n \in Fills : owner[n] # ET_SYS} = 1..(nextFill - 1)

\* While a local reader has a chunk, every event pointer in it is owned by the
\* reader's attachment, so et_events_put never finds an event of someone else
\* and EvioTool never looks at an event it has given back.
ChunkOwned ==
  Reader /\ fCurrentChunk >= 0 =>
    \A i \in 0..(fNumRead - 1) :
      fPEventBuffer[i] # NULL => owner[fPEventBuffer[i]] = fEtAttach

\* While a local reader says an event is valid, GetBufPtr points into the event
\* at the current place of the chunk.
ValidBufferIsCurrent ==
  Reader /\ fEventValid /\ fCurrentChunk >= 0 /\ fPEventBuffer[fCurrentChunk] # NULL =>
    fEvioBuf = fPEventBuffer[fCurrentChunk]

\* The caller is given the same fill twice only when et_events_put refused it.
RepeatedOnlyAfterFailedPut == dup \subseteq putFailed

\* What a local reader owns is what its current chunk holds, and nothing between
\* chunks: the ring gets every event back.  The exceptions are a caller that
\* skipped an event, a place in the chunk left over from before the buffer was
\* allocated, and a chunk with a wrong magic number in it that stayed behind.
NothingStranded ==
  Reader /\ skipped = {}
         /\ (fCurrentChunk >= 0 => fPEventBuffer[fCurrentChunk] # NULL)
         /\ (\A n \in Owned(fEtAttach) \ CurrentChunk : kind[n] # "bad") =>
    Owned(fEtAttach) = CurrentChunk

\* An event an attached reader gives back was handed to the caller, had a wrong
\* magic number, or was skipped by an EndEvent the caller called out of turn.
PutBackOnlyWhenRead ==
  [][\A n \in Fills :
       owner[n] # ET_SYS /\ owner'[n] = ET_SYS /\ owner[n] \in attached' =>
         n \in seen \cup skipped \/ kind[n] = "bad"]_vars

-----------------------------------------------------------------------------
(* What makes the invariants above inductive.                              *)

\* The input list is in the order of filling.
InOrder == \A i, j \in 1..Len(input) : i < j => input[i] < input[j]

\* Attachments are numbered by the call that made them and die with the ET
\* process; the current place lies within the chunk last read.
Bookkeeping ==
  /\ attached \subseteq 1..opens /\ (~alive => attached = {})
  /\ fCurrentChunk < fNumRead

\* Fills the caller saw, or that fPEventBuffer points to, left the input list.
TakenIsNotQueued ==
  /\ seen \subseteq 1..(nextFill - 1) /\ seen \cap Queued = {}
  /\ \A i \in Slots : fPEventBuffer[i] # NULL =>
       fPEventBuffer[i] < nextFill /\ fPEventBuffer[i] \notin Queued

\* Past the EndEvent at the top of NextNoParse an event is valid only when
\* et_events_put refused the chunk.
ValidInReadIsRefused ==
  proc = "running" /\ pc = "read" /\ fReadFromEt /\ fEventValid =>
    locality = "local" /\ fCurrentChunk = 0 /\ Chunk \subseteq putFailed

\* The events of a local chunk differ, and those still to be handed out were not
\* handed out, unless the chunk was refused.
ChunkAhead ==
  fReadFromEt /\ locality = "local" =>
    \A i \in 0..fCurrentChunk : fPEventBuffer[i] # NULL =>
      /\ \A j \in 0..fCurrentChunk : fPEventBuffer[i] = fPEventBuffer[j] => i = j
      /\ fPEventBuffer[i] \in seen =>
           (i = fCurrentChunk /\ fEventValid) \/ fPEventBuffer[i] \in putFailed

\* The events of a local chunk past the current place were dealt with, and so was
\* the current one while it is valid.
ChunkBehind ==
  Reader /\ fCurrentChunk >= 0 =>
    \A i \in fCurrentChunk..(fNumRead - 1) :
      fPEventBuffer[i] # NULL /\ (i = fCurrentChunk => fEventValid) =>
        fPEventBuffer[i] \in seen \cup skipped \/ kind[fPEventBuffer[i]] = "bad"

\* A reader whose place in the chunk is left over from before its buffer was
\* allocated owns nothing.
StaleChunkIsEmpty ==
  Reader /\ (\E i \in 0..fCurrentChunk : fPEventBuffer[i] = NULL) =>
    Owned(fEtAttach) = {} /\ \A i \in 0..fCurrentChunk : fPEventBuffer[i] = NULL

ReaderInv ==
  /\ Bookkeeping /\ ChunkOwned /\ ValidBufferIsCurrent /\ TakenIsNotQueued
  /\ ValidInReadIsRefused /\ ChunkAhead /\ ChunkBehind /\ StaleChunkIsEmpty
  /\ RepeatedOnlyAfterFailedPut /\ NothingStranded

IInv == TypeOK /\ InOrder /\ EveryFillAccountedFor /\ ReaderInv

=============================================================================
