------------------------ MODULE EvioToolSourceProofs ------------------------
(***************************************************************************)
(* Proofs about EvioToolSource, for every value of its constants.          *)
(***************************************************************************)
EXTENDS EvioToolSource, TLAPS, SequenceTheorems

\* The assumptions on the constants, as the proofs use them.
LEMMA ConstantTypes ==
  /\ ChunkSize \in Nat /\ ChunkSize >= 1 /\ MaxFill \in Nat /\ MaxOpens \in Nat
  /\ FileLen \in Nat /\ Localities \subseteq {"local", "remote"}
  BY SourceAssumption

\* The constructor's values have their types.
LEMMA TypeInit == Init => TypeOK
<1> SUFFICES ASSUME Init PROVE TypeOK
  OBVIOUS
<1> USE ConstantTypes DEF Init
<1>0. FlagType
  BY DEF FlagType
<1>1. EtType
  BY DEF EtType, Fills, ET_SYS
<1>2. ConnType
  BY DEF ConnType
<1>3. FileType
  BY DEF FileType
<1>4. ChunkType
  BY DEF ChunkType, Fills, Slots, NULL, NoBuf
<1>5. CtlType
  BY DEF CtlType, Statuses
<1>6. HistType
  BY DEF HistType
<1> QED
  BY <1>0, <1>1, <1>2, <1>3, <1>4, <1>5, <1>6 DEF TypeOK

\* The input list holds fills only.
LEMMA QueuedType == EtType => Queued = {input[i] : i \in 1..Len(input)} /\ Queued \subseteq Fills
  BY ElementOfSeq, LenProperties DEF EtType, Queued, Range

\* et_station_detach keeps the types.
LEMMA DetachType ==
  ASSUME EtType, NEW A, Detach(A)
  PROVE  /\ attached' \subseteq 1..MaxOpens /\ owner' \in [Fills -> 0..MaxOpens]
         /\ passed' \subseteq Fills /\ input' \in Seq(Fills)
<1>1. Queued \subseteq Fills
  BY QueuedType
<1>2. attached' \subseteq 1..MaxOpens
  BY DEF EtType, Detach
<1>5. owner' \in [Fills -> 0..MaxOpens]
  BY ConstantTypes DEF EtType, Detach, ET_SYS
<1>3. passed' \subseteq Fills
  BY <1>1 DEF EtType, Detach
<1>4. input' \in Seq(Fills)
  BY DEF EtType, Detach
<1> QED
  BY <1>2, <1>3, <1>4, <1>5

\* What the chunk and the current place point to.
LEMMA ChunkInBuffer ==
  ASSUME ChunkType
  PROVE  /\ Chunk \subseteq Fills \cup {NULL}
         /\ fCurrentChunk >= 0 => fPEventBuffer[fCurrentChunk] \in Fills \cup {NULL}
  BY ConstantTypes DEF ChunkType, Chunk, Slots

\* EndEvent keeps the types; the place in the chunk only moves down.
LEMMA EndEventType ==
  ASSUME TypeOK, EndEventBody
  PROVE  /\ owner' \in [Fills -> 0..MaxOpens] /\ passed' \subseteq Fills
         /\ copies' \subseteq Fills /\ putFailed' \subseteq Fills \cup {NULL}
         /\ skipped' \subseteq Fills /\ fEventValid' \in BOOLEAN
         /\ fCurrentChunk' \in Int /\ fCurrentChunk' < ChunkSize
         /\ proc' \in {"running", "exited", "bad_event", "double_free"}
<1> USE DEF TypeOK
<1>1. Putting /\ PutStatus = "OK" /\ locality = "local" => NULL \notin Chunk
  BY DEF PutStatus, ConnType
<1>2. owner' \in [Fills -> 0..MaxOpens]
  BY ConstantTypes DEF EtType, EndEventBody, Advance, ET_SYS
<1>3. passed' \subseteq Fills
  BY <1>1, ChunkInBuffer DEF EtType, EndEventBody, Advance
<1>4. copies' \subseteq Fills
  BY DEF ChunkType, EndEventBody, Advance
<1>5. putFailed' \subseteq Fills \cup {NULL} /\ skipped' \subseteq Fills
  BY ChunkInBuffer DEF HistType, EndEventBody, Advance
<1>6. fEventValid' \in BOOLEAN
  BY DEF FlagType, EndEventBody, Advance
<1>7. fCurrentChunk' \in Int /\ fCurrentChunk' < ChunkSize
  BY ConstantTypes DEF ChunkType, EndEventBody, Advance
<1>8. proc' \in {"running", "exited", "bad_event", "double_free"}
  BY DEF CtlType, EndEventBody, Advance
<1> QED
  BY <1>2, <1>3, <1>4, <1>5, <1>6, <1>7, <1>8

\* The end of NextNoParse keeps the types.
LEMMA SelectType ==
  ASSUME TypeOK, NEW b \in [Slots -> Fills \cup {NULL}], NEW c \in Slots, Select(b, c)
  PROVE  /\ fCurrentChunk' \in Int /\ fCurrentChunk' < ChunkSize
         /\ fEventValid' \in BOOLEAN /\ fEvioBuf' \in Fills \cup {NoBuf, FileBuf}
         /\ pc' \in {"idle", "preEnd", "read", "end", "destroyed"} /\ ret' \in Statuses
         /\ proc' \in {"running", "exited", "bad_event", "double_free"}
         /\ seen' \subseteq Fills /\ dup' \subseteq Fills
<1> USE DEF TypeOK
<1>1. fCurrentChunk' \in Int /\ fCurrentChunk' < ChunkSize
  BY ConstantTypes DEF ChunkType, Select, Slots
<1>2. fEventValid' \in BOOLEAN
  BY DEF FlagType, Select
<1>3. fEvioBuf' \in Fills \cup {NoBuf, FileBuf} /\ seen' \subseteq Fills /\ dup' \subseteq Fills
  BY DEF ChunkType, HistType, Select
<1>4. /\ pc' \in {"idle", "preEnd", "read", "end", "destroyed"} /\ ret' \in Statuses
      /\ proc' \in {"running", "exited", "bad_event", "double_free"}
  BY DEF CtlType, Select, Statuses
<1> QED
  BY <1>1, <1>2, <1>3, <1>4

\* What GetChunk reads and leaves.
LEMMA GotType ==
  ASSUME TypeOK, GetChunk
  PROVE  /\ NumGot \in 1..ChunkSize /\ NumGot \in 1..Len(input) /\ NumGot - 1 \in Slots
         /\ Got \in [Slots -> Fills \cup {NULL}]
         /\ fNumRead' = NumGot /\ fPEventBuffer' = Got /\ Select(Got, NumGot - 1)
         /\ input' \in Seq(Fills) /\ Len(input') = Len(input) - NumGot
         /\ \A i \in 1..Len(input') : input'[i] = input[i + NumGot]
<1> USE DEF TypeOK
<1>0. Len(input) \in Nat
  BY LenProperties DEF EtType
<1>1. NumGot \in 1..ChunkSize /\ NumGot \in 1..Len(input) /\ NumGot - 1 \in Slots
  BY <1>0, ConstantTypes, EmptySeq DEF GetChunk, EtType, NumGot, MinOf, Slots
<1>2. Got \in [Slots -> Fills \cup {NULL}]
  BY <1>0, <1>1, ElementOfSeq DEF ChunkType, EtType, Slots, Got
<1>3. /\ fNumRead' = NumGot /\ fPEventBuffer' = Got /\ Select(Got, NumGot - 1)
      /\ input' = SubSeq(input, NumGot + 1, Len(input))
  BY DEF GetChunk
<1>4. \A i \in (NumGot + 1)..Len(input) : input[i] \in Fills
  BY <1>0, <1>1, ElementOfSeq DEF EtType
<1>5. /\ SubSeq(input, NumGot + 1, Len(input)) \in Seq(Fills)
      /\ Len(SubSeq(input, NumGot + 1, Len(input))) =
           IF NumGot + 1 <= Len(input) THEN Len(input) - (NumGot + 1) + 1 ELSE 0
      /\ \A i \in 1..(Len(input) - (NumGot + 1) + 1) :
           SubSeq(input, NumGot + 1, Len(input))[i] = input[NumGot + 1 + i - 1]
  BY <1>0, <1>1, <1>4, SubSeqProperties
<1>6. Len(input') = Len(input) - NumGot
  BY <1>0, <1>1, <1>3, <1>5
<1>7. \A i \in 1..Len(input') : input'[i] = input[i + NumGot]
  <2> TAKE i \in 1..Len(input')
  <2>1. i \in 1..(Len(input) - (NumGot + 1) + 1) /\ NumGot + 1 + i - 1 = i + NumGot
    BY <1>0, <1>1, <1>6
  <2> QED
    BY <1>3, <1>5, <2>1
<1> QED
  BY <1>1, <1>2, <1>3, <1>5, <1>6, <1>7

\* What GetRemote reads and leaves.
LEMMA GotCopyType ==
  ASSUME TypeOK, GetRemote
  PROVE  /\ Head(input) = input[1] /\ Head(input) \in Fills /\ 1 \in 1..Len(input)
         /\ GotCopy \in [Slots -> Fills \cup {NULL}] /\ 0 \in Slots
         /\ fNumRead' = 1 /\ fPEventBuffer' = GotCopy /\ Select(GotCopy, 0)
         /\ input' \in Seq(Fills) /\ Len(input') = Len(input) - 1
         /\ \A i \in 1..Len(input') : input'[i] = input[i + 1]
<1> USE DEF TypeOK
<1>1. input \in Seq(Fills) /\ input # <<>>
  BY DEF GetRemote, EtType
<1>2. /\ Head(input) \in Fills /\ Tail(input) \in Seq(Fills)
      /\ Len(Tail(input)) = Len(input) - 1
      /\ \A i \in 1..Len(Tail(input)) : Tail(input)[i] = input[i + 1]
  BY <1>1, HeadTailProperties
<1>3. Head(input) = input[1] /\ 1 \in 1..Len(input)
  BY <1>1, EmptySeq
<1>4. GotCopy \in [Slots -> Fills \cup {NULL}] /\ 0 \in Slots
  BY <1>2, ConstantTypes DEF GotCopy, ChunkType, Slots
<1> QED
  BY <1>2, <1>3, <1>4 DEF GetRemote

\* Every step keeps the types.
LEMMA TypeStep == TypeOK /\ [Next]_vars => TypeOK'
<1> SUFFICES ASSUME TypeOK, [Next]_vars PROVE TypeOK'
  OBVIOUS
<1> USE DEF TypeOK, etVars, connVars, fileVars, chunkVars, ctlVars, histVars
<1>1. CASE UNCHANGED vars
  BY <1>1 DEF vars, FlagType, EtType, ConnType, FileType, ChunkType, CtlType, HistType
<1>2. CASE Produce
  <2>1. kind' \in [Fills -> Kinds \cup {"unfilled"}] /\ nextFill' \in 1..(MaxFill + 1)
    BY <1>2, ConstantTypes DEF Produce, EtType, Fills
  <2>2. nextFill \in Fills
    BY <1>2, ConstantTypes DEF Produce, EtType, Fills
  <2>3. input' \in Seq(Fills)
    <3>1. Append(input, nextFill) \in Seq(Fills)
      BY <2>2, AppendProperties DEF EtType
    <3> QED
      BY <1>2, <3>1 DEF Produce, EtType
  <2>4. passed' \subseteq Fills
    BY <1>2, <2>2 DEF Produce, EtType
  <2>5. EtType'
    BY <1>2, <2>1, <2>3, <2>4 DEF Produce, EtType
  <2> QED
    BY <1>2, <2>5 DEF Produce, FlagType, ConnType, FileType, ChunkType, CtlType, HistType
<1>3. CASE EtDies
  <2>1. owner' \in [Fills -> 0..MaxOpens]
    BY <1>3, ConstantTypes DEF EtDies, ET_SYS
  <2>2. lost' \subseteq Fills
    BY <1>3, QueuedType DEF EtDies, EtType
  <2>3. EtType'
    BY <1>3, <2>1, <2>2 DEF EtDies, EtType
  <2>4. FlagType'
    BY <1>3 DEF EtDies, FlagType
  <2> QED
    BY <1>3, <2>3, <2>4 DEF EtDies, ConnType, FileType, ChunkType, CtlType, HistType
<1>4. CASE EtRestarts
  <2>1. FlagType'
    BY <1>4 DEF EtRestarts, FlagType
  <2> QED
    BY <1>4, <2>1 DEF EtRestarts, EtType, ConnType, FileType, ChunkType, CtlType, HistType
<1>5. CASE ConnectionDrops
  <2>1. EtType'
    BY <1>5, DetachType DEF ConnectionDrops, EtType
  <2> QED
    BY <1>5, <2>1 DEF ConnectionDrops, FlagType, ConnType, FileType, ChunkType, CtlType, HistType
<1>6. CASE ReapClient
  <2>1. EtType'
    BY <1>6, DetachType DEF ReapClient, EtType
  <2> QED
    BY <1>6, <2>1 DEF ReapClient, FlagType, ConnType, FileType, ChunkType, CtlType, HistType
<1>7. CASE Open
  <2>1. opens' \in 1..MaxOpens
    BY <1>7, ConstantTypes DEF Open, ConnType
  <2>2. FlagType'
    BY <1>7 DEF Open, FlagType
  <2>3. ConnType'
    BY <1>7, <2>1 DEF Open, ConnType
  <2>4. FileType'
    <3>1. evHandles' \subseteq 1..MaxOpens
      BY <1>7, <2>1 DEF Open, FileType
    <3>2. fEvioHandle' \in 0..MaxOpens /\ filePos' \in 0..FileLen
      BY <1>7, <2>1, ConstantTypes DEF Open, FileType
    <3> QED
      BY <3>1, <3>2 DEF FileType
  <2>5. CtlType'
    BY <1>7 DEF Open, CtlType, Statuses
  <2> QED
    BY <1>7, <2>2, <2>3, <2>4, <2>5 DEF Open, EtType, ChunkType, HistType
<1>8. CASE ReOpenEt
  <2> USE <1>8 DEF ReOpenEt, ReOpenEtFails, ReOpenEtSucceeds
  <2>1. opens' \in 1..MaxOpens
    BY ConstantTypes DEF ConnType
  <2>2. FlagType'
    BY DEF FlagType
  <2>3. ConnType'
    <3>1. etIds' \subseteq 1..MaxOpens
      BY <2>1 DEF ConnType
    <3>2. fEventId' \in 0..MaxOpens /\ fEtAttach' \in 0..MaxOpens
      BY <2>1, ConstantTypes DEF ConnType
    <3>3. locality' \in {"local", "remote"} /\ bufState' \in {"null", "live", "freed"}
      BY ConstantTypes DEF ConnType
    <3> QED
      BY <2>1, <3>1, <3>2, <3>3 DEF ConnType
  <2>4. EtType'
    BY <2>1 DEF EtType
  <2>5. fPEventBuffer' \in [Slots -> Fills \cup {NULL}]
    BY DEF ChunkType
  <2>6. ChunkType'
    BY <2>5 DEF ChunkType
  <2>7. CtlType'
    BY DEF CtlType, Statuses
  <2> QED
    BY <2>2, <2>3, <2>4, <2>6, <2>7 DEF FileType, HistType
<1>9. ASSUME CloseBody
      PROVE  /\ attached' \subseteq 1..MaxOpens /\ owner' \in [Fills -> 0..MaxOpens]
             /\ passed' \subseteq Fills /\ input' \in Seq(Fills)
             /\ etIds' \subseteq 1..MaxOpens /\ evHandles' \subseteq 1..MaxOpens
             /\ fReadFromEt' \in BOOLEAN /\ fIsOpen' \in BOOLEAN
  <2>1. /\ attached' \subseteq 1..MaxOpens /\ owner' \in [Fills -> 0..MaxOpens]
        /\ passed' \subseteq Fills /\ input' \in Seq(Fills)
    BY <1>9, DetachType DEF CloseBody, EtType
  <2>2. etIds' \subseteq 1..MaxOpens /\ evHandles' \subseteq 1..MaxOpens
    BY <1>9 DEF CloseBody, ConnType, FileType
  <2> QED
    BY <1>9, <2>1, <2>2 DEF CloseBody
<1>10. CASE Close
  <2>1. EtType'
    BY <1>9, <1>10 DEF Close, EtType
  <2>2. ConnType' /\ FileType'
    BY <1>9, <1>10 DEF Close, ConnType, FileType
  <2>3. FlagType'
    BY <1>9, <1>10 DEF Close, FlagType
  <2> QED
    BY <1>10, <2>1, <2>2, <2>3 DEF Close, ChunkType, CtlType, HistType
<1>11. CASE Destroy
  <2>1. EtType'
    BY <1>9, <1>11 DEF Destroy, EtType
  <2>2. ConnType' /\ FileType'
    BY <1>9, <1>11 DEF Destroy, ConnType, FileType
  <2>3. FlagType'
    BY <1>9, <1>11 DEF Destroy, FlagType
  <2>4. CtlType'
    BY <1>11 DEF Destroy, CtlType
  <2> QED
    BY <1>11, <2>1, <2>2, <2>3, <2>4 DEF Destroy, ChunkType, HistType
<1>12. CASE Exit
  <2>1. CtlType'
    BY <1>12 DEF Exit, CtlType
  <2> QED
    BY <1>12, <2>1 DEF Exit, FlagType, EtType, ConnType, FileType, ChunkType, HistType
<1>13. ASSUME EndEventBody, EndEventFrame
       PROVE  /\ FlagType' /\ EtType' /\ ConnType' /\ FileType' /\ ChunkType' /\ HistType'
              /\ proc' \in {"running", "exited", "bad_event", "double_free"}
  <2>1. FlagType'
    BY <1>13, EndEventType DEF EndEventFrame, FlagType
  <2>2. EtType'
    BY <1>13, EndEventType DEF EndEventFrame, EtType
  <2>3. ChunkType' /\ HistType'
    BY <1>13, EndEventType DEF EndEventFrame, ChunkType, HistType
  <2> QED
    BY <1>13, <2>1, <2>2, <2>3, EndEventType DEF EndEventFrame, ConnType, FileType
<1>14. CASE EndEvent
  <2>1. PutStatus \in {"OK", "CRASH", "DEAD", "ETERR"}
    BY DEF PutStatus, ConnType
  <2>2. CtlType'
    BY <1>13, <1>14, <2>1 DEF EndEvent, CtlType, Statuses
  <2> QED
    BY <1>13, <1>14, <2>2 DEF EndEvent
<1>15. CASE \E c \in {"Next", "NextNoParse"} : CallNext(c)
  <2>1. CtlType'
    BY <1>15 DEF CallNext, CtlType
  <2> QED
    BY <1>15, <2>1 DEF CallNext, FlagType, EtType, ConnType, FileType, ChunkType, HistType
<1>16. CASE PreEnd
  BY <1>13, <1>16 DEF PreEnd, CtlType
<1>17. CASE FinishNext
  BY <1>13, <1>17 DEF FinishNext, CtlType, Statuses
<1>18. CASE ReadFromChunk
  <2>1. fCurrentChunk \in Slots /\ Select(fPEventBuffer, fCurrentChunk)
    BY <1>18, ConstantTypes DEF ReadFromChunk, ChunkType, Slots
  <2>2. fPEventBuffer \in [Slots -> Fills \cup {NULL}]
    BY DEF ChunkType
  <2>3. ChunkType' /\ CtlType' /\ HistType'
    BY <1>18, <2>1, <2>2, SelectType DEF ReadFromChunk, ChunkType, CtlType, HistType
  <2>4. FlagType'
    BY <1>18, <2>1, <2>2, SelectType DEF ReadFromChunk, FlagType
  <2> QED
    BY <1>18, <2>3, <2>4 DEF ReadFromChunk, EtType, ConnType, FileType
<1>19. CASE GetChunk
  <2>5. owner' \in [Fills -> 0..MaxOpens]
    BY <1>19 DEF GetChunk, EtType, ConnType
  <2>6. EtType'
    BY <1>19, GotType, <2>5 DEF GetChunk, EtType
  <2>7. ChunkType'
    <3>1. fCurrentChunk' \in Int /\ fCurrentChunk' < ChunkSize
      BY <1>19, GotType, SelectType
    <3>2. fEvioBuf' \in Fills \cup {NoBuf, FileBuf}
      BY <1>19, GotType, SelectType
    <3>3. copies' \subseteq Fills /\ fNumRead' \in 0..ChunkSize
      BY <1>19, GotType, ConstantTypes DEF GetChunk, ChunkType
    <3> QED
      BY <1>19, GotType, <3>1, <3>2, <3>3 DEF ChunkType
  <2>8. CtlType' /\ HistType'
    BY <1>19, GotType, SelectType DEF GetChunk, CtlType, HistType
  <2>9. FlagType'
    BY <1>19, GotType, SelectType DEF GetChunk, FlagType
  <2> QED
    BY <1>19, <2>6, <2>7, <2>8, <2>9 DEF GetChunk, ConnType, FileType
<1>20. CASE GetFails
  <2>1. ChunkType'
    BY <1>20, ConstantTypes DEF GetFails, ChunkType
  <2>2. CtlType'
    BY <1>20 DEF GetFails, CtlType, Statuses
  <2> QED
    BY <1>20, <2>1, <2>2 DEF GetFails, FlagType, EtType, ConnType, FileType, HistType
<1>21. CASE GetRemote
  <2>4. EtType'
    BY <1>21, GotCopyType DEF GetRemote, EtType
  <2>5. ChunkType'
    <3>1. fCurrentChunk' \in Int /\ fCurrentChunk' < ChunkSize
      BY <1>21, GotCopyType, SelectType
    <3>2. fEvioBuf' \in Fills \cup {NoBuf, FileBuf}
      BY <1>21, GotCopyType, SelectType
    <3>3. copies' \subseteq Fills /\ fNumRead' \in 0..ChunkSize
      BY <1>21, GotCopyType, ConstantTypes DEF GetRemote, ChunkType
    <3> QED
      BY <1>21, GotCopyType, <3>1, <3>2, <3>3 DEF ChunkType
  <2>6. CtlType' /\ HistType'
    BY <1>21, GotCopyType, SelectType DEF GetRemote, CtlType, HistType
  <2>7. FlagType'
    BY <1>21, GotCopyType, SelectType DEF GetRemote, FlagType
  <2> QED
    BY <1>21, <2>4, <2>5, <2>6, <2>7 DEF GetRemote, ConnType, FileType
<1>22. CASE ReadFile
  <2>1. FlagType'
    BY <1>22 DEF ReadFile, FlagType
  <2>2. FileType'
    BY <1>22, ConstantTypes DEF ReadFile, FileType
  <2>3. ChunkType' /\ CtlType'
    BY <1>22 DEF ReadFile, ChunkType, CtlType, Statuses
  <2> QED
    BY <1>22, <2>1, <2>2, <2>3 DEF ReadFile, EtType, ConnType, HistType
<1> QED
  BY <1>1, <1>2, <1>3, <1>4, <1>5, <1>6, <1>7, <1>8, <1>10, <1>11, <1>12, <1>14, <1>15,
     <1>16, <1>17, <1>18, <1>19, <1>20, <1>21, <1>22
     DEF Next, EtNext, Reading, Calls

\* Every behaviour keeps every variable in its type, whatever the chunk size,
\* the ring, the wait mode and the ET system's behaviour.
THEOREM TypeCorrect == Spec => []TypeOK
  BY TypeInit, TypeStep, PTL DEF Spec

-----------------------------------------------------------------------------
(* Every fill is in one place.                                             *)

\* Appending a fill to the input list queues it.
LEMMA QueuedAppend ==
  ASSUME EtType, NEW n \in Fills, input' = Append(input, n)
  PROVE  /\ Queued' = Queued \cup {n} /\ Len(input') = Len(input) + 1
         /\ \A i \in 1..Len(input) : input'[i] = input[i]
         /\ input'[Len(input) + 1] = n
<1>1. /\ Append(input, n) \in Seq(Fills) /\ Len(Append(input, n)) = Len(input) + 1
      /\ \A i \in 1..Len(input) : Append(input, n)[i] = input[i]
      /\ Append(input, n)[Len(input) + 1] = n
  BY AppendProperties DEF EtType
<1>2. Len(input) \in Nat /\ DOMAIN input = 1..Len(input) /\ DOMAIN input' = 1..Len(input')
  BY <1>1, LenProperties DEF EtType
<1> QED
  BY <1>1, <1>2 DEF Queued, Range

\* Taking the first num fills off an ordered input list leaves the others, in
\* order and all younger.
LEMMA QueuedDrop ==
  ASSUME EtType, InOrder, NEW num \in 1..Len(input), input' \in Seq(Fills),
         Len(input') = Len(input) - num,
         \A i \in 1..Len(input') : input'[i] = input[i + num]
  PROVE  /\ Queued = Queued' \cup {input[i] : i \in 1..num} /\ InOrder'
         /\ \A i \in 1..num, m \in Queued' : input[i] < m
<1>1. Len(input) \in Nat /\ Queued = {input[i] : i \in 1..Len(input)}
  BY QueuedType, LenProperties DEF EtType
<1>2. Queued' = {input'[i] : i \in 1..Len(input')}
  BY LenProperties DEF Queued, Range
<1>3. Queued' = {input[i] : i \in (num + 1)..Len(input)}
  <2>1. ASSUME NEW i \in (num + 1)..Len(input) PROVE input[i] \in Queued'
    <3>1. i - num \in 1..Len(input') /\ (i - num) + num = i
      BY <1>1
    <3> QED
      BY <1>2, <3>1
  <2>2. ASSUME NEW i \in 1..Len(input')
        PROVE  input'[i] \in {input[j] : j \in (num + 1)..Len(input)}
    <3>1. i + num \in (num + 1)..Len(input) /\ input'[i] = input[i + num]
      BY <1>1
    <3> QED
      BY <3>1
  <2> QED
    BY <1>2, <2>1, <2>2
<1>4. Queued = Queued' \cup {input[i] : i \in 1..num}
  BY <1>1, <1>3
<1>5. \A i \in 1..num, m \in Queued' : input[i] < m
  BY <1>1, <1>3 DEF InOrder
<1>6. InOrder'
  <2> SUFFICES ASSUME NEW i \in 1..Len(input'), NEW j \in 1..Len(input'), i < j
               PROVE  input'[i] < input'[j]
    BY DEF InOrder
  <2>1. i + num \in 1..Len(input) /\ j + num \in 1..Len(input) /\ i + num < j + num
    BY <1>1
  <2> QED
    BY <2>1 DEF InOrder
<1> QED
  BY <1>4, <1>5, <1>6

\* An input list in order holds no fill twice.
LEMMA OrderedIsInjective == EtType /\ InOrder => IsInjective(input)
<1> SUFFICES ASSUME EtType, InOrder, NEW i \in DOMAIN input, NEW j \in DOMAIN input,
                    input[i] = input[j]
             PROVE  i = j
  BY DEF IsInjective
<1>1. i \in 1..Len(input) /\ j \in 1..Len(input) /\ Len(input) \in Nat
  BY LenProperties DEF EtType
<1>2. input[i] \in Fills
  BY <1>1, ElementOfSeq DEF EtType
<1> QED
  BY <1>1, <1>2 DEF InOrder, Fills

\* The events of a chunk that is put back are held by the reader's attachment.
LEMMA PutIsOfOwned ==
  ASSUME TypeOK, Putting, PutStatus = "OK", locality = "local"
  PROVE  /\ ConnAlive /\ NULL \notin Chunk /\ Chunk \subseteq Fills
         /\ \A n \in Chunk : owner[n] = fEtAttach
<1>1. ConnAlive /\ NULL \notin Chunk /\ \A n \in Chunk : owner[n] = fEtAttach
  BY DEF PutStatus
<1> QED
  BY <1>1, ChunkInBuffer DEF TypeOK

Held == {n \in Fills : owner[n] # ET_SYS}

Placed ==
  /\ \A n \in Held : owner[n] \in attached /\ n \notin Queued \cup passed \cup lost
  /\ Queued \cap (passed \cup lost) = {} /\ passed \cap lost = {}
  /\ Queued \cup passed \cup lost \cup Held = 1..(nextFill - 1)

\* Placed is EveryFillAccountedFor without the order of the input list.
LEMMA PlacedIsAccounted ==
  /\ EveryFillAccountedFor => Placed
  /\ EtType /\ InOrder /\ Placed => EveryFillAccountedFor
  BY OrderedIsInjective DEF EveryFillAccountedFor, Placed, Held

\* A detach moves what was owned, and what was queued if it is the last, past the
\* station.
LEMMA DetachPlaced ==
  ASSUME EtType, InOrder, Placed, NEW A, Detach(A), UNCHANGED <<nextFill, lost>>
  PROVE  InOrder' /\ Placed'
<1> DEFINE gone  == A \cap attached
           freed == {n \in Fills : owner[n] \in gone}
           last  == gone # {} /\ attached \ gone = {}
<1>1. /\ attached' = attached \ gone
      /\ owner'  = [n \in Fills |-> IF n \in freed THEN ET_SYS ELSE owner[n]]
      /\ passed' = passed \cup freed \cup (IF last THEN Queued ELSE {})
      /\ input'  = IF last THEN <<>> ELSE input
  BY DEF Detach
<1>2. freed \subseteq Held
  BY DEF EtType, Held, ET_SYS
<1>3. Held' = Held \ freed
  BY <1>1, <1>2 DEF Held
<1>4. Queued' = (IF last THEN {} ELSE Queued)
  BY <1>1 DEF Queued, Range
<1>5. InOrder'
  BY <1>1 DEF InOrder
<1>6. \A n \in Held' : owner'[n] \in attached' /\ n \notin Queued' \cup passed' \cup lost'
  BY <1>1, <1>2, <1>3, <1>4 DEF Placed, Held
<1>7. Queued' \cap (passed' \cup lost') = {} /\ passed' \cap lost' = {}
  BY <1>1, <1>2, <1>4 DEF Placed
<1>8. Queued' \cup passed' \cup lost' \cup Held' = 1..(nextFill' - 1)
  BY <1>1, <1>2, <1>3, <1>4 DEF Placed
<1> QED
  BY <1>5, <1>6, <1>7, <1>8 DEF Placed

\* Every step keeps each fill in one place and the input list in order.
LEMMA PlacedStep ==
  ASSUME TypeOK, TypeOK', InOrder, Placed, [Next]_vars
  PROVE  InOrder' /\ Placed'
<1> USE DEF TypeOK
<1>1. ASSUME UNCHANGED <<nextFill, input, owner, attached, passed, lost>>
      PROVE  InOrder' /\ Placed'
  BY <1>1 DEF InOrder, Placed, Held, Queued
<1>2. CASE Produce
  <2>1. nextFill \in Fills /\ nextFill' = nextFill + 1 /\ UNCHANGED <<owner, attached, lost>>
    BY <1>2, ConstantTypes DEF Produce, EtType, Fills
  <2>2. Held' = Held
    BY <2>1 DEF Held
  <2>3. nextFill \notin Queued \cup passed \cup lost \cup Held
    BY <2>1 DEF Placed, Fills
  <2>4. 1..(nextFill' - 1) = 1..(nextFill - 1) \cup {nextFill}
    BY <2>1 DEF Fills
  <2>5. CASE input' = Append(input, nextFill) /\ passed' = passed
    <3>1. /\ Queued' = Queued \cup {nextFill} /\ Len(input') = Len(input) + 1
          /\ \A i \in 1..Len(input) : input'[i] = input[i]
          /\ input'[Len(input) + 1] = nextFill
      BY <2>1, <2>5, QueuedAppend
    <3>2. \A i \in 1..Len(input) : input[i] < nextFill
      <4>1. Queued \subseteq 1..(nextFill - 1)
        BY DEF Placed
      <4>2. \A i \in 1..Len(input) : input[i] \in Queued
        BY QueuedType
      <4>3. \A i \in 1..Len(input) : input[i] \in 1..(nextFill - 1)
        BY <4>1, <4>2
      <4>4. nextFill \in Int
        BY ConstantTypes DEF EtType
      <4> QED
        BY <4>3, <4>4
    <3>3. Len(input) \in Nat
      BY LenProperties DEF EtType
    <3>4. InOrder'
      BY <3>1, <3>2, <3>3 DEF InOrder
    <3> QED
      BY <2>1, <2>2, <2>3, <2>4, <2>5, <3>1, <3>4 DEF Placed
  <2>6. CASE passed' = passed \cup {nextFill} /\ input' = input
    <3>1. Queued' = Queued /\ InOrder'
      BY <2>6 DEF Queued, InOrder
    <3> QED
      BY <2>1, <2>2, <2>3, <2>4, <2>6, <3>1 DEF Placed
  <2> QED
    BY <1>2, <2>5, <2>6 DEF Produce
<1>3. CASE EtDies
  <2>1. Queued' = {} /\ Held' = {} /\ lost' = lost \cup Queued \cup Held
    BY <1>3 DEF EtDies, Queued, Range, Held
  <2>2. UNCHANGED <<nextFill, passed>> /\ InOrder'
    BY <1>3 DEF EtDies, InOrder
  <2> QED
    BY <2>1, <2>2 DEF Placed
<1>4. CASE EtRestarts
  BY <1>1, <1>4 DEF EtRestarts
<1>5. CASE ConnectionDrops
  BY <1>5, DetachPlaced DEF ConnectionDrops
<1>6. CASE ReapClient
  BY <1>6, DetachPlaced DEF ReapClient
<1>7. CASE Open
  BY <1>1, <1>7 DEF Open, etVars
<1>8. CASE ReOpenEt
  <2>1. attached \subseteq attached' /\ UNCHANGED <<nextFill, input, owner, passed, lost>>
    BY <1>8 DEF ReOpenEt, ReOpenEtFails, ReOpenEtSucceeds
  <2> QED
    BY <2>1 DEF Placed, InOrder, Held, Queued
<1>9. ASSUME CloseBody, UNCHANGED <<nextFill, lost>> PROVE InOrder' /\ Placed'
  <2>1. CASE fReadFromEt
    BY <1>9, <2>1, DetachPlaced DEF CloseBody
  <2>2. CASE ~fReadFromEt
    BY <1>1, <1>9, <2>2 DEF CloseBody
  <2> QED
    BY <2>1, <2>2
<1>10. CASE Close
  BY <1>9, <1>10 DEF Close
<1>11. CASE Destroy
  BY <1>9, <1>11 DEF Destroy
<1>12. CASE Exit
  BY <1>1, <1>12 DEF Exit, etVars
<1>13. ASSUME EndEventBody, EndEventFrame PROVE InOrder' /\ Placed'
  <2>1. UNCHANGED <<nextFill, input, attached, lost>>
    BY <1>13 DEF EndEventFrame
  <2>2. CASE Putting /\ PutStatus = "OK" /\ locality = "local"
    <3>1. /\ owner' = [n \in Fills |-> IF n \in Chunk THEN ET_SYS ELSE owner[n]]
          /\ passed' = passed \cup Chunk
      BY <1>13, <2>2 DEF EndEventBody, Advance
    <3>2. fEtAttach # ET_SYS /\ Chunk \subseteq Held
      BY <2>2, PutIsOfOwned DEF ConnAlive, EtType, Held, ET_SYS
    <3>3. Held' = Held \ Chunk
      BY <3>1, <3>2 DEF Held
    <3>4. Queued' = Queued /\ InOrder'
      BY <2>1 DEF Queued, InOrder
    <3>5. \A n \in Held' : owner'[n] \in attached' /\ n \notin Queued' \cup passed' \cup lost'
      BY <2>1, <3>1, <3>3, <3>4 DEF Placed, Held
    <3> QED
      BY <2>1, <3>1, <3>2, <3>3, <3>4, <3>5 DEF Placed
  <2>3. CASE ~(Putting /\ PutStatus = "OK" /\ locality = "local")
    BY <1>1, <1>13, <2>1, <2>3 DEF EndEventBody, Advance
  <2> QED
    BY <2>2, <2>3
<1>14. CASE EndEvent
  BY <1>13, <1>14 DEF EndEvent
<1>15. CASE \E c \in {"Next", "NextNoParse"} : CallNext(c)
  BY <1>1, <1>15 DEF CallNext, etVars
<1>16. CASE PreEnd
  BY <1>13, <1>16 DEF PreEnd
<1>17. CASE FinishNext
  BY <1>13, <1>17 DEF FinishNext
<1>18. CASE ReadFromChunk
  BY <1>1, <1>18 DEF ReadFromChunk, etVars
<1>19. CASE GetChunk
  <2> DEFINE got == {input[i] : i \in 1..NumGot}
  <2>1. /\ Queued = Queued' \cup got /\ InOrder'
        /\ \A i \in 1..NumGot, m \in Queued' : input[i] < m
    BY <1>19, GotType, QueuedDrop
  <2>2. got \subseteq Fills /\ got \cap Queued' = {}
    BY <2>1, QueuedType DEF Fills
  <2>3. /\ owner' = [n \in Fills |-> IF n \in got THEN fEtAttach ELSE owner[n]]
        /\ UNCHANGED <<nextFill, attached, passed, lost>>
    BY <1>19 DEF GetChunk
  <2>4. fEtAttach # ET_SYS /\ fEtAttach \in attached
    BY <1>19 DEF GetChunk, ConnAlive, EtType, ET_SYS
  <2>5. Held' = Held \cup got
    BY <2>2, <2>3, <2>4 DEF Held
  <2>6. \A n \in Held' : owner'[n] \in attached' /\ n \notin Queued' \cup passed' \cup lost'
    BY <2>1, <2>2, <2>3, <2>4, <2>5 DEF Placed, Held
  <2> QED
    BY <2>1, <2>2, <2>3, <2>5, <2>6 DEF Placed
<1>20. CASE GetFails
  BY <1>1, <1>20 DEF GetFails, etVars
<1>21. CASE GetRemote
  <2>1. /\ Queued = Queued' \cup {input[i] : i \in 1..1} /\ InOrder'
        /\ \A i \in 1..1, m \in Queued' : input[i] < m
    BY <1>21, GotCopyType, QueuedDrop
  <2>2. Queued = Queued' \cup {input[1]} /\ \A m \in Queued' : input[1] < m
    BY <2>1
  <2>3. input[1] \notin Queued' /\ input[1] \notin passed \cup lost \cup Held
    BY <2>2, QueuedType DEF Placed, Fills
  <2>4. passed' = passed \cup {input[1]} /\ UNCHANGED <<nextFill, owner, attached, lost>>
    BY <1>21, GotCopyType DEF GetRemote
  <2>5. Held' = Held
    BY <2>4 DEF Held
  <2> QED
    BY <2>1, <2>2, <2>3, <2>4, <2>5 DEF Placed
<1>22. CASE ReadFile
  BY <1>1, <1>22 DEF ReadFile, etVars
<1>23. CASE UNCHANGED vars
  BY <1>1, <1>23 DEF vars, etVars
<1> QED
  BY <1>2, <1>3, <1>4, <1>5, <1>6, <1>7, <1>8, <1>10, <1>11, <1>12, <1>14, <1>15,
     <1>16, <1>17, <1>18, <1>19, <1>20, <1>21, <1>22, <1>23
     DEF Next, EtNext, Reading, Calls

\* No fill is anywhere initially.
LEMMA PlacedInit == Init => InOrder /\ Placed
<1> SUFFICES ASSUME Init PROVE InOrder /\ Placed
  OBVIOUS
<1>1. Queued = {} /\ Held = {}
  BY DEF Init, Queued, Range, Held
<1> QED
  BY <1>1 DEF Init, InOrder, Placed

\* No event is ever in two places, none disappears: gets, puts, detaches, client
\* and ET crashes and reopenings together keep the ring's accounts.
THEOREM Accounted == Spec => []EveryFillAccountedFor
<1>1. Init => TypeOK /\ InOrder /\ Placed
  BY TypeInit, PlacedInit
<1>2. TypeOK /\ InOrder /\ Placed /\ [Next]_vars => (TypeOK /\ InOrder /\ Placed)'
  BY TypeStep, PlacedStep
<1>3. TypeOK /\ InOrder /\ Placed => EveryFillAccountedFor
  BY PlacedIsAccounted DEF TypeOK
<1> QED
  BY <1>1, <1>2, <1>3, PTL DEF Spec
=============================================================================
