------------------------ MODULE EvioToolReaderProofs ------------------------
(***************************************************************************)
(* What an EvioTool object that reads from ET keeps true of its chunk, for  *)
(* every value of the constants.  One lemma per kind of step shows that    *)
(* ReaderInv is preserved; the theorems follow, then the refinement.       *)
(***************************************************************************)
EXTENDS EvioToolSourceProofs, EvioToolRefinement

\* Steps after which there is no local reader on a live connection, and that
\* leave the buffer and the history alone.
LEMMA AwayStep ==
  ASSUME ReaderInv, Bookkeeping', ~Reader', Queued' \subseteq Queued,
         UNCHANGED <<nextFill, fPEventBuffer, seen, dup, putFailed>>,
         fReadFromEt' => UNCHANGED <<fReadFromEt, locality, pc, proc, fCurrentChunk,
                                     fNumRead, fEventValid>>
  PROVE  ReaderInv'
<1> USE DEF ReaderInv
<1>1. ChunkOwned' /\ ValidBufferIsCurrent' /\ ChunkBehind' /\ StaleChunkIsEmpty' /\ NothingStranded'
  BY DEF ChunkOwned, ValidBufferIsCurrent, ChunkBehind, StaleChunkIsEmpty, NothingStranded
<1>2. TakenIsNotQueued'
  BY DEF TakenIsNotQueued
<1>3. ValidInReadIsRefused'
  BY DEF ValidInReadIsRefused, Chunk
<1>4. ChunkAhead'
  <2>1. CASE fReadFromEt'
    <3>1. UNCHANGED <<fReadFromEt, locality, fCurrentChunk, fEventValid, fPEventBuffer,
                      seen, putFailed>>
      BY <2>1
    <3> QED
      BY <3>1 DEF ChunkAhead
  <2>2. CASE ~fReadFromEt'
    BY <2>2 DEF ChunkAhead
  <2> QED
    BY <2>1, <2>2
<1>5. RepeatedOnlyAfterFailedPut'
  BY DEF RepeatedOnlyAfterFailedPut
<1> QED
  BY <1>1, <1>2, <1>3, <1>4, <1>5

\* Steps that change at most where the caller's thread is.
LEMMA SameStep ==
  ASSUME ReaderInv, Bookkeeping',
         UNCHANGED <<alive, kind, nextFill, input, owner, attached, fReadFromEt, fEtAttach,
                     locality, chunkVars, histVars>>,
         ValidInReadIsRefused'
  PROVE  ReaderInv'
<1> USE DEF ReaderInv, chunkVars, histVars, Chunk, Reader, ConnAlive, Owned, Queued
<1>1. ChunkOwned' /\ ValidBufferIsCurrent' /\ StaleChunkIsEmpty'
  BY DEF ChunkOwned, ValidBufferIsCurrent, StaleChunkIsEmpty
<1>2. ChunkBehind' /\ ChunkAhead'
  BY DEF ChunkBehind, ChunkAhead
<1>3. TakenIsNotQueued' /\ RepeatedOnlyAfterFailedPut'
  BY DEF TakenIsNotQueued, RepeatedOnlyAfterFailedPut
<1>4. NothingStranded'
  BY DEF NothingStranded, CurrentChunk
<1> QED
  BY <1>1, <1>2, <1>3, <1>4

\* A new fill is in no chunk and was not seen.
LEMMA ProduceReader ==
  ASSUME TypeOK, Placed, ReaderInv, Produce
  PROVE  ReaderInv'
<1> USE DEF ReaderInv, TypeOK, connVars, fileVars, chunkVars, ctlVars, histVars
<1>1. /\ UNCHANGED <<alive, owner, attached, connVars, fileVars, chunkVars, ctlVars, histVars>>
      /\ nextFill' = nextFill + 1 /\ nextFill \in Fills
  BY ConstantTypes DEF Produce, EtType, Fills
<1>2. Queued' \subseteq Queued \cup {nextFill}
  <2>1. CASE input' = Append(input, nextFill)
    BY <1>1, <2>1, QueuedAppend
  <2>2. CASE input' = input
    BY <2>2 DEF Queued
  <2> QED
    BY <2>1, <2>2 DEF Produce
<1>3. \A n \in 1..(nextFill - 1) : kind'[n] = kind[n]
  BY <1>1 DEF Produce, EtType, Fills
<1>4. Bookkeeping' /\ ChunkOwned' /\ ValidBufferIsCurrent' /\ ValidInReadIsRefused'
      /\ ChunkAhead' /\ RepeatedOnlyAfterFailedPut'
  BY <1>1 DEF Bookkeeping, ChunkOwned, ValidBufferIsCurrent, ValidInReadIsRefused, Chunk,
     ChunkAhead, RepeatedOnlyAfterFailedPut, Reader, ConnAlive
<1>5. TakenIsNotQueued'
  <2>1. seen' \subseteq 1..(nextFill' - 1) /\ seen' \cap Queued' = {}
    BY <1>1, <1>2 DEF TakenIsNotQueued, Fills
  <2>2. ASSUME NEW i \in Slots, fPEventBuffer'[i] # NULL
        PROVE  fPEventBuffer'[i] < nextFill' /\ fPEventBuffer'[i] \notin Queued'
    <3>1. fPEventBuffer[i] < nextFill /\ fPEventBuffer[i] \notin Queued /\ fPEventBuffer[i] \in Fills
      BY <1>1, <2>2 DEF TakenIsNotQueued, ChunkType
    <3> QED
      BY <1>1, <1>2, <3>1 DEF Fills
  <2> QED
    BY <2>1, <2>2 DEF TakenIsNotQueued
<1>6. Reader' = Reader /\ Chunk' = Chunk /\ Owned(fEtAttach)' = Owned(fEtAttach)
      /\ CurrentChunk' = CurrentChunk
  BY <1>1 DEF Reader, ConnAlive, Chunk, Owned, CurrentChunk
<1>7. StaleChunkIsEmpty'
  BY <1>1, <1>6 DEF StaleChunkIsEmpty
<1>8. ChunkBehind'
  <2> SUFFICES ASSUME Reader, fCurrentChunk >= 0, NEW i \in fCurrentChunk..(fNumRead - 1),
                      fPEventBuffer[i] # NULL, i = fCurrentChunk => fEventValid
               PROVE  fPEventBuffer[i] \in seen \cup skipped \/ kind'[fPEventBuffer[i]] = "bad"
    BY <1>1, <1>6 DEF ChunkBehind
  <2>1. i \in Slots
    BY ConstantTypes DEF ChunkType, Slots
  <2>2. fPEventBuffer[i] \in 1..(nextFill - 1)
    BY <1>1, <2>1 DEF TakenIsNotQueued, ChunkType, Fills
  <2> QED
    BY <1>3, <2>2 DEF ChunkBehind
<1>9. NothingStranded'
  <2> SUFFICES ASSUME Reader, skipped = {},
                      fCurrentChunk >= 0 => fPEventBuffer[fCurrentChunk] # NULL,
                      \A n \in Owned(fEtAttach) \ CurrentChunk : kind'[n] # "bad"
               PROVE  Owned(fEtAttach) = CurrentChunk
    BY <1>1, <1>6 DEF NothingStranded
  <2>1. Owned(fEtAttach) \subseteq 1..(nextFill - 1)
    <3>1. fEtAttach # ET_SYS
      BY DEF Reader, ConnAlive, EtType, ET_SYS
    <3> QED
      BY <3>1 DEF Owned, Placed, Held
  <2> QED
    BY <1>3, <2>1 DEF NothingStranded
<1> QED
  BY <1>4, <1>5, <1>7, <1>8, <1>9

\* ReOpenEt with success: the new attachment owns nothing and the new buffer
\* points nowhere, whatever fCurrentChunk and fEventValid were left at.
LEMMA ReopenReader ==
  ASSUME TypeOK, Placed, ReaderInv, ReOpenEt, ReOpenEtSucceeds
  PROVE  ReaderInv'
<1> USE DEF ReaderInv, TypeOK
<1>1. /\ alive /\ attached' = attached \cup {opens'} /\ fEtAttach' = opens'
      /\ opens' = opens + 1 /\ fPEventBuffer' = [i \in Slots |-> NULL]
      /\ UNCHANGED <<alive, kind, nextFill, input, owner, fNumRead, fCurrentChunk, fEventValid,
                     fEvioBuf, pc, proc, seen, dup, putFailed, skipped>>
      /\ pc = "idle"
  BY DEF ReOpenEt, ReOpenEtSucceeds, CanCall, histVars
<1>2. opens \in Nat
  BY ConstantTypes DEF ConnType
<1>3. Bookkeeping'
  BY <1>1, <1>2 DEF Bookkeeping
<1>4. \A i \in 0..fCurrentChunk' : fPEventBuffer'[i] = NULL
  BY <1>1, ConstantTypes DEF ChunkType, Slots
<1>5. \A i \in 0..(fNumRead' - 1) : fPEventBuffer'[i] = NULL
  BY <1>1, ConstantTypes DEF ChunkType, Slots
<1>6. Owned(fEtAttach)' = {}
  <2>1. ASSUME NEW n \in Fills, owner[n] = opens + 1 PROVE FALSE
    <3>1. n \in Held
      BY <1>2, <2>1 DEF Held, ET_SYS
    <3> QED
      BY <1>2, <2>1, <3>1 DEF Placed, Bookkeeping
  <2> QED
    BY <1>1, <2>1 DEF Owned
<1>7. ChunkOwned'
  BY <1>5 DEF ChunkOwned
<1>8. ValidBufferIsCurrent'
  BY <1>1, <1>4 DEF ValidBufferIsCurrent, ChunkType
<1>9. TakenIsNotQueued'
  BY <1>1 DEF TakenIsNotQueued, Queued
<1>10. ValidInReadIsRefused'
  BY <1>1 DEF ValidInReadIsRefused
<1>11. ChunkAhead'
  BY <1>4 DEF ChunkAhead
<1>12. ChunkBehind'
  BY <1>1, <1>5 DEF ChunkBehind, ChunkType
<1>13. StaleChunkIsEmpty'
  BY <1>4, <1>6 DEF StaleChunkIsEmpty
<1>14. RepeatedOnlyAfterFailedPut'
  BY <1>1 DEF RepeatedOnlyAfterFailedPut
<1>15. NothingStranded'
  BY <1>1, <1>4, <1>6 DEF NothingStranded, CurrentChunk, ChunkType
<1> QED
  BY <1>3, <1>7, <1>8, <1>9, <1>10, <1>11, <1>12, <1>13, <1>14, <1>15

\* A get that fails leaves a local reader between chunks and a remote one with a
\* chunk it does not have.
LEMMA GetFailsReader ==
  ASSUME TypeOK, ReaderInv, GetFails
  PROVE  ReaderInv'
<1> USE DEF ReaderInv, TypeOK
<1>1. /\ UNCHANGED <<alive, kind, nextFill, input, owner, attached, opens, fReadFromEt,
                     fEtAttach, locality, fEventValid, fPEventBuffer, seen, dup, putFailed,
                     skipped>>
      /\ pc' = "idle"
  BY DEF GetFails, etVars, connVars, histVars
<1>2. /\ locality = "local" => fNumRead' = 0 /\ fCurrentChunk' = -1 /\ fCurrentChunk < 0
      /\ locality # "local" => fNumRead' = 1 /\ fCurrentChunk' = 0
  BY DEF GetFails
<1>3. Bookkeeping'
  BY <1>1, <1>2 DEF Bookkeeping
<1>4. Reader' = Reader /\ Owned(fEtAttach)' = Owned(fEtAttach)
  BY <1>1 DEF Reader, ConnAlive, Owned
<1>5. Reader => fCurrentChunk' = -1 /\ fCurrentChunk < 0
  BY <1>2 DEF Reader
<1>6. ChunkOwned' /\ ValidBufferIsCurrent' /\ ChunkBehind' /\ StaleChunkIsEmpty'
  BY <1>4, <1>5 DEF ChunkOwned, ValidBufferIsCurrent, ChunkBehind, StaleChunkIsEmpty
<1>7. TakenIsNotQueued' /\ RepeatedOnlyAfterFailedPut'
  BY <1>1 DEF TakenIsNotQueued, Queued, RepeatedOnlyAfterFailedPut
<1>8. ValidInReadIsRefused'
  BY <1>1 DEF ValidInReadIsRefused
<1>9. ChunkAhead'
  BY <1>1, <1>2 DEF ChunkAhead
<1>10. NothingStranded'
  BY <1>1, <1>4, <1>5 DEF NothingStranded, CurrentChunk, ChunkType
<1> QED
  BY <1>3, <1>6, <1>7, <1>8, <1>9, <1>10

\* A fill just taken off the input list was not handed to the caller before.
LEMMA GetRemoteReader ==
  ASSUME TypeOK, InOrder, Placed, ReaderInv, GetRemote
  PROVE  ReaderInv'
<1> USE DEF ReaderInv, TypeOK
<1> DEFINE n == input[1]
<1>1. /\ UNCHANGED <<alive, nextFill, attached, opens, fReadFromEt, fEtAttach, locality, putFailed>>
      /\ locality = "remote" /\ ~Reader' /\ fNumRead' = 1
  BY DEF GetRemote, connVars, Reader
<1>2. /\ Queued = Queued' \cup {input[i] : i \in 1..1}
      /\ \A i \in 1..1, m \in Queued' : input[i] < m
  BY GotCopyType, QueuedDrop
<1>3. n \in Queued /\ n \notin Queued' /\ Queued' \subseteq Queued /\ n \in Fills
  BY <1>2, QueuedType DEF Fills
<1>4. n \in 1..(nextFill - 1) /\ n \notin seen
  BY <1>3 DEF Placed, TakenIsNotQueued
<1>5. fPEventBuffer' = [fPEventBuffer EXCEPT ![0] = n] /\ fPEventBuffer'[0] = n /\ n # NULL
  BY <1>3, GotCopyType DEF GotCopy, ChunkType, Fills, NULL
<1>6. /\ fCurrentChunk' \in {0, -1} /\ seen' \in {seen, seen \cup {n}} /\ dup' = dup
      /\ pc' \in {"idle", "end"}
  <2>1. Select(GotCopy, 0) /\ GotCopy[0] = n
    BY <1>5, GotCopyType
  <2>2. fCurrentChunk' \in {0, -1} /\ pc' \in {"idle", "end"}
    BY <1>5, <2>1 DEF Select
  <2>3. seen' \in {seen, seen \cup {n}} /\ dup' = dup
    BY <1>4, <1>5, <2>1 DEF Select
  <2> QED
    BY <2>2, <2>3
<1>7. Bookkeeping'
  BY <1>1, <1>6 DEF Bookkeeping
<1>8. TakenIsNotQueued'
  <2>1. seen' \subseteq 1..(nextFill' - 1) /\ seen' \cap Queued' = {}
    BY <1>1, <1>3, <1>4, <1>6 DEF TakenIsNotQueued
  <2>2. ASSUME NEW i \in Slots, fPEventBuffer'[i] # NULL
        PROVE  fPEventBuffer'[i] < nextFill' /\ fPEventBuffer'[i] \notin Queued'
    <3>1. CASE i = 0
      BY <1>1, <1>3, <1>4, <1>5, <3>1 DEF EtType
    <3>2. CASE i # 0
      BY <1>1, <1>3, <1>5, <2>2, <3>2 DEF TakenIsNotQueued, ChunkType
    <3> QED
      BY <3>1, <3>2
  <2> QED
    BY <2>1, <2>2 DEF TakenIsNotQueued
<1>9. ChunkOwned' /\ ValidBufferIsCurrent' /\ ChunkBehind' /\ StaleChunkIsEmpty' /\ NothingStranded'
  BY <1>1 DEF ChunkOwned, ValidBufferIsCurrent, ChunkBehind, StaleChunkIsEmpty, NothingStranded
<1>10. ValidInReadIsRefused' /\ ChunkAhead'
  BY <1>1, <1>6 DEF ValidInReadIsRefused, ChunkAhead
<1>11. RepeatedOnlyAfterFailedPut'
  BY <1>1, <1>6 DEF RepeatedOnlyAfterFailedPut
<1> QED
  BY <1>7, <1>8, <1>9, <1>10, <1>11

\* What Select does to a slot c that holds fill n: which slot is current after it,
\* and what is known of n and of fEventValid.
LEMMA SelectCases ==
  ASSUME NEW b, NEW c, Select(b, c), b[c] # NULL
  PROVE  \/ /\ kind[b[c]] = "short" /\ fCurrentChunk' = c
            /\ UNCHANGED <<fEventValid, seen, dup>>
         \/ /\ kind[b[c]] = "bad" /\ fCurrentChunk' = c - 1
            /\ UNCHANGED <<fEventValid, seen, dup>>
         \/ /\ fCurrentChunk' = c /\ fEventValid' = TRUE
            /\ seen' = seen \cup {b[c]} /\ dup' = dup \cup ({b[c]} \cap seen)
  BY DEF Select

\* What the end of NextNoParse may change besides the place in the chunk.
LEMMA SelectFrame ==
  ASSUME NEW b, NEW c, Select(b, c)
  PROVE  /\ b[c] # NULL => fEvioBuf' = b[c] /\ pc' \in {"idle", "end"} /\ proc' = proc
         /\ b[c] = NULL => /\ proc' = "bad_event" /\ fCurrentChunk' = c
                           /\ UNCHANGED <<fEvioBuf, fEventValid, pc, seen, dup>>
  BY DEF Select

\* Handing out the next event of a chunk keeps the reader's invariant.
LEMMA ReadFromChunkReader ==
  ASSUME TypeOK, ReaderInv, ReadFromChunk
  PROVE  ReaderInv'
<1> USE DEF ReaderInv, TypeOK
<1> DEFINE c == fCurrentChunk
           n == fPEventBuffer[fCurrentChunk]
<1>1. /\ UNCHANGED <<alive, kind, nextFill, input, owner, attached, opens, fReadFromEt, fEtAttach,
                     locality, fNumRead, fPEventBuffer, putFailed, skipped>>
      /\ fReadFromEt /\ locality = "local" /\ c >= 0 /\ Select(fPEventBuffer, c)
      /\ proc = "running" /\ pc = "read"
  BY DEF ReadFromChunk, InRead, etVars, connVars
<1>2. c \in Slots /\ c \in Int /\ fNumRead \in Int /\ c < fNumRead /\ n \in Fills \cup {NULL}
  BY <1>1, ConstantTypes DEF ChunkType, Slots, Bookkeeping
<1>3. CASE n = NULL
  <2>1. proc' = "bad_event" /\ UNCHANGED <<fCurrentChunk, fEvioBuf, fEventValid, pc, seen, dup>>
    BY <1>1, <1>3, SelectFrame
  <2>2. ValidInReadIsRefused' /\ Bookkeeping'
    BY <1>1, <2>1 DEF ValidInReadIsRefused, Bookkeeping
  <2>3. UNCHANGED <<alive, kind, nextFill, input, owner, attached, fReadFromEt, fEtAttach,
                    locality, chunkVars, histVars>>
    BY <1>1, <2>1 DEF ReadFromChunk, chunkVars, histVars
  <2> QED
    BY <2>2, <2>3, SameStep
<1>4. CASE n # NULL
  <2>1. \/ /\ fCurrentChunk' = c /\ UNCHANGED <<fEventValid, seen, dup>>
        \/ /\ kind[n] = "bad" /\ fCurrentChunk' = c - 1 /\ UNCHANGED <<fEventValid, seen, dup>>
        \/ /\ fCurrentChunk' = c /\ fEventValid' = TRUE
           /\ seen' = seen \cup {n} /\ dup' = dup \cup ({n} \cap seen)
    BY <1>1, <1>4, SelectCases
  <2>2. fEvioBuf' = n /\ pc' \in {"idle", "end"}
    BY <1>1, <1>4, SelectFrame
  <2>3. fEventValid => c = 0 /\ n \in putFailed
    <3>1. n \in Chunk
      BY <1>1, <1>2 DEF Chunk
    <3> QED
      BY <1>1, <3>1 DEF ValidInReadIsRefused
  <2>4. fCurrentChunk' \in Int /\ fCurrentChunk' <= c
    BY <1>2, <2>1
  <2>5. Reader' = Reader /\ Owned(fEtAttach)' = Owned(fEtAttach) /\ Chunk' = Chunk
    BY <1>1 DEF Reader, ConnAlive, Owned, Chunk
  <2>6. Bookkeeping'
    BY <1>1, <1>2, <2>4 DEF Bookkeeping
  <2>7. ChunkOwned'
    BY <1>1, <2>5 DEF ChunkOwned
  <2>8. ValidBufferIsCurrent'
    <3>1. CASE fCurrentChunk' = c
      BY <1>1, <2>2, <3>1 DEF ValidBufferIsCurrent
    <3>2. CASE fCurrentChunk' = c - 1 /\ UNCHANGED fEventValid
      <4>1. fEventValid' => ~(fCurrentChunk' >= 0)
        BY <1>2, <2>3, <3>2
      <4> QED
        BY <4>1 DEF ValidBufferIsCurrent
    <3> QED
      BY <2>1, <3>1, <3>2
  <2>9. TakenIsNotQueued'
    <3>1. n \in 1..(nextFill - 1) /\ n \notin Queued
      BY <1>2, <1>4 DEF TakenIsNotQueued, Fills, EtType
    <3>2. seen' \subseteq seen \cup {n}
      BY <2>1
    <3> QED
      BY <1>1, <3>1, <3>2 DEF TakenIsNotQueued, Queued
  <2>10. ValidInReadIsRefused'
    BY <2>2 DEF ValidInReadIsRefused
  <2>11. ChunkAhead'
    BY <1>1, <1>2, <1>4, <2>1, <2>3 DEF ChunkAhead
  <2>12. ChunkBehind'
    BY <1>1, <1>2, <2>1, <2>3, <2>5 DEF ChunkBehind
  <2>13. StaleChunkIsEmpty'
    BY <1>1, <1>2, <2>4, <2>5 DEF StaleChunkIsEmpty
  <2>14. RepeatedOnlyAfterFailedPut'
    <3>1. n \in seen => n \in putFailed
      BY <1>1, <1>2, <1>4, <2>3 DEF ChunkAhead
    <3> QED
      BY <1>1, <2>1, <3>1 DEF RepeatedOnlyAfterFailedPut
  <2>15. NothingStranded'
    <3>1. CASE fCurrentChunk' >= 0
      <4>1. CurrentChunk' = CurrentChunk
        BY <1>1, <2>5, <3>1 DEF CurrentChunk
      <4> QED
        BY <1>1, <1>4, <2>5, <4>1 DEF NothingStranded
    <3>2. CASE ~(fCurrentChunk' >= 0)
      <4>1. kind[n] = "bad" /\ n \in Fills
        BY <1>1, <1>2, <1>4, <2>1, <3>2
      <4>2. Reader => n \in Owned(fEtAttach)
        BY <1>1, <1>2, <1>4, <4>1 DEF ChunkOwned, Owned
      <4>3. CurrentChunk' = {}
        BY <3>2 DEF CurrentChunk
      <4> QED
        BY <1>1, <2>5, <4>1, <4>2, <4>3 DEF NothingStranded
    <3> QED
      BY <3>1, <3>2
  <2> QED
    BY <2>6, <2>7, <2>8, <2>9, <2>10, <2>11, <2>12, <2>13, <2>14, <2>15
<1> QED
  BY <1>3, <1>4

\* A chunk just got is the reader's own, unseen and handed out from its end.
LEMMA GetChunkReader ==
  ASSUME TypeOK, InOrder, Placed, ReaderInv, GetChunk
  PROVE  ReaderInv'
<1> USE DEF ReaderInv, TypeOK
<1> DEFINE got == {input[i] : i \in 1..NumGot}
           c == NumGot - 1
           n == Got[c]
<1>1. /\ UNCHANGED <<alive, kind, nextFill, attached, opens, fReadFromEt, fEtAttach, locality,
                     putFailed, skipped>>
      /\ owner' = [m \in Fills |-> IF m \in got THEN fEtAttach ELSE owner[m]]
      /\ fReadFromEt /\ locality = "local" /\ ConnAlive /\ fCurrentChunk < 0
      /\ proc = "running" /\ pc = "read"
  BY DEF GetChunk, InRead, connVars
<1>2. /\ NumGot \in 1..ChunkSize /\ NumGot \in 1..Len(input) /\ c \in Slots /\ c \in Nat
      /\ fNumRead' = NumGot /\ fPEventBuffer' = Got /\ Select(Got, c)
  BY GotType, ConstantTypes
<1>3. /\ Queued = Queued' \cup got /\ \A i \in 1..NumGot, m \in Queued' : input[i] < m
  BY GotType, QueuedDrop
<1>4. \A i \in 1..NumGot : input[i] \in Queued /\ input[i] \in Fills /\ input[i] \notin Queued'
  BY <1>3, QueuedType DEF Fills
<1>5. \A i \in 0..c : Got[i] = input[i + 1] /\ i + 1 \in 1..NumGot /\ i \in Slots
  BY <1>2, ConstantTypes DEF Got, Slots
<1>6. \A i \in 0..c : Got[i] \in got /\ Got[i] # NULL /\ Got[i] \notin seen
  BY <1>4, <1>5 DEF TakenIsNotQueued, Fills, NULL
<1>7. \A i, j \in 0..c : Got[i] = Got[j] => i = j
  <2> TAKE i, j \in 0..c
  <2>1. i + 1 \in DOMAIN input /\ j + 1 \in DOMAIN input
    BY <1>2, <1>5, LenProperties, SMTT(30) DEF EtType
  <2>2. input[i + 1] = input[j + 1] => i + 1 = j + 1
    BY <2>1, OrderedIsInjective DEF IsInjective
  <2> QED
    BY <1>2, <1>5, <2>2
<1>8. ~fEventValid
  BY <1>1 DEF ValidInReadIsRefused
<1>9. n = Got[c] /\ c \in 0..c /\ n # NULL /\ n \in got /\ n \in Fills /\ n \notin seen
  <2>1. c \in 0..c
    BY <1>2
  <2>2. n # NULL /\ n \in got /\ n \notin seen
    BY <1>6, <2>1
  <2>3. \A x \in got : x \in Fills
    BY <1>4
  <2> QED
    BY <2>1, <2>2, <2>3
<1>10. \/ /\ fCurrentChunk' = c /\ UNCHANGED <<fEventValid, seen, dup>>
       \/ /\ kind[n] = "bad" /\ fCurrentChunk' = c - 1 /\ UNCHANGED <<fEventValid, seen, dup>>
       \/ /\ fCurrentChunk' = c /\ fEventValid' = TRUE
          /\ seen' = seen \cup {n} /\ dup' = dup \cup ({n} \cap seen)
  BY <1>2, <1>9, SelectCases
<1>11. fEvioBuf' = n /\ pc' \in {"idle", "end"} /\ fCurrentChunk' \in Int /\ fCurrentChunk' <= c
  BY <1>2, <1>9, <1>10, SelectFrame
<1>12. fEventValid' => fCurrentChunk' = c /\ seen' = seen \cup {n}
  BY <1>8, <1>10
<1>13. Bookkeeping'
  BY <1>1, <1>2, <1>11 DEF Bookkeeping
<1>14. ChunkOwned'
  <2> SUFFICES ASSUME NEW i \in 0..(fNumRead' - 1) PROVE owner'[fPEventBuffer'[i]] = fEtAttach'
    BY DEF ChunkOwned
  <2>1. i \in 0..c
    BY <1>2
  <2> QED
    BY <1>1, <1>2, <1>4, <1>5, <1>6, <2>1
<1>15. ValidBufferIsCurrent'
  BY <1>2, <1>11, <1>12 DEF ValidBufferIsCurrent
<1>16. TakenIsNotQueued'
  <2>1. seen' \subseteq 1..(nextFill' - 1) /\ seen' \cap Queued' = {}
    <3>1. n \in 1..(nextFill - 1) /\ n \notin Queued'
      BY <1>3, <1>4, <1>9 DEF Placed
    <3>2. seen' \subseteq seen \cup {n}
      BY <1>10
    <3> QED
      BY <1>1, <1>3, <3>1, <3>2 DEF TakenIsNotQueued
  <2>2. ASSUME NEW i \in Slots, fPEventBuffer'[i] # NULL
        PROVE  fPEventBuffer'[i] < nextFill' /\ fPEventBuffer'[i] \notin Queued'
    <3>1. CASE i \in 0..c
      <4>1. Got[i] \in 1..(nextFill - 1) /\ Got[i] \notin Queued'
        BY <1>3, <1>4, <1>6, <3>1 DEF Placed
      <4>2. nextFill \in Int
        BY ConstantTypes DEF EtType
      <4> QED
        BY <1>1, <1>2, <4>1, <4>2
    <3>2. CASE i \notin 0..c
      <4>1. fPEventBuffer'[i] = fPEventBuffer[i]
        BY <1>2, <3>2, ConstantTypes DEF Got, Slots
      <4> QED
        BY <1>1, <1>3, <2>2, <4>1 DEF TakenIsNotQueued
    <3> QED
      BY <3>1, <3>2
  <2> QED
    BY <2>1, <2>2 DEF TakenIsNotQueued
<1>17. ValidInReadIsRefused'
  BY <1>11 DEF ValidInReadIsRefused
<1>18. ChunkAhead'
  <2> SUFFICES ASSUME NEW i \in 0..fCurrentChunk'
               PROVE  /\ \A j \in 0..fCurrentChunk' : Got[i] = Got[j] => i = j
                      /\ Got[i] \in seen' => (i = fCurrentChunk' /\ fEventValid')
    BY <1>2 DEF ChunkAhead
  <2>1. i \in 0..c /\ \A j \in 0..fCurrentChunk' : j \in 0..c
    BY <1>2, <1>11
  <2>2. Got[i] \in seen' => (i = fCurrentChunk' /\ fEventValid')
    BY <1>6, <1>7, <1>9, <1>10, <2>1
  <2> QED
    BY <1>7, <2>1, <2>2
<1>19. ChunkBehind'
  <2> SUFFICES ASSUME fCurrentChunk' >= 0, NEW i \in fCurrentChunk'..(fNumRead' - 1),
                      i = fCurrentChunk' => fEventValid'
               PROVE  Got[i] \in seen' \/ kind[Got[i]] = "bad"
    BY <1>1, <1>2 DEF ChunkBehind
  <2>1. CASE fCurrentChunk' = c
    BY <1>2, <1>12, <2>1
  <2>2. CASE kind[n] = "bad" /\ fCurrentChunk' = c - 1 /\ UNCHANGED fEventValid
    BY <1>2, <1>8, <2>2
  <2> QED
    BY <1>10, <2>1, <2>2
<1>20. StaleChunkIsEmpty'
  <2>1. \A i \in 0..fCurrentChunk' : fPEventBuffer'[i] # NULL
    BY <1>2, <1>6, <1>11
  <2> QED
    BY <2>1 DEF StaleChunkIsEmpty
<1>21. RepeatedOnlyAfterFailedPut'
  BY <1>1, <1>9, <1>10 DEF RepeatedOnlyAfterFailedPut
<1>22. NothingStranded'
  <2> SUFFICES ASSUME skipped = {},
                      \A m \in Owned(fEtAttach)' \ CurrentChunk' : kind[m] # "bad"
               PROVE  Owned(fEtAttach)' = CurrentChunk'
    BY <1>1 DEF NothingStranded
  <2>1. got \subseteq Fills /\ Owned(fEtAttach)' = Owned(fEtAttach) \cup got
    BY <1>1, <1>4 DEF Owned
  <2>2. Owned(fEtAttach) \cap got = {}
    <3>1. fEtAttach # ET_SYS
      BY <1>1 DEF ConnAlive, EtType, ET_SYS
    <3> QED
      BY <1>4, <3>1 DEF Owned, Placed, Held
  <2>3. Chunk' = got
    <3>1. Chunk' = {Got[i] : i \in 0..c}
      BY <1>2 DEF Chunk
    <3>2. \A i \in 1..NumGot : i - 1 \in 0..c /\ Got[i - 1] = input[i]
      BY <1>2, <1>5
    <3> QED
      BY <1>6, <3>1, <3>2
  <2>4. Reader /\ CurrentChunk = {}
    BY <1>1 DEF Reader, CurrentChunk, ChunkType
  <2>5. CASE fCurrentChunk' >= 0
    <3>1. CurrentChunk' = got
      BY <2>3, <2>5 DEF CurrentChunk
    <3>2. Owned(fEtAttach) = {}
      BY <1>1, <2>1, <2>2, <2>4, <3>1 DEF NothingStranded, ChunkType
    <3> QED
      BY <2>1, <3>1, <3>2
  <2>6. CASE ~(fCurrentChunk' >= 0)
    <3>1. kind[n] = "bad"
      BY <1>2, <1>10, <2>6
    <3>2. n \in Owned(fEtAttach)' \ CurrentChunk'
      BY <1>9, <2>1, <2>6 DEF CurrentChunk
    <3> QED
      BY <3>1, <3>2
  <2> QED
    BY <2>5, <2>6
<1> QED
  BY <1>13, <1>14, <1>15, <1>16, <1>17, <1>18, <1>19, <1>20, <1>21, <1>22

\* EndEvent, called by the caller or by NextNoParse and Next: either the put is
\* refused and nothing but putFailed changes, or the place moves down by one.
LEMMA EndEventReader ==
  ASSUME TypeOK, Placed, ReaderInv, EndEventBody, EndEventFrame
  PROVE  ReaderInv'
<1> USE DEF ReaderInv, TypeOK
<1> DEFINE c == fCurrentChunk
<1>1. /\ UNCHANGED <<alive, kind, nextFill, input, attached, opens, fReadFromEt, fEtAttach, locality,
                     fNumRead, fPEventBuffer, fEvioBuf, seen, dup>>
      /\ putFailed \subseteq putFailed' /\ skipped \subseteq skipped'
  BY DEF EndEventFrame, EndEventBody, Advance, connVars
<1>2. Reader' = Reader /\ Chunk' = Chunk /\ Queued' = Queued
  BY <1>1 DEF Reader, ConnAlive, Chunk, Queued
<1>3. TakenIsNotQueued' /\ RepeatedOnlyAfterFailedPut'
  BY <1>1, <1>2 DEF TakenIsNotQueued, RepeatedOnlyAfterFailedPut
<1>4. c \in Int /\ fNumRead \in Int /\ c < fNumRead
  BY ConstantTypes DEF ChunkType, Bookkeeping
<1>5. CASE PutStatus # "OK"
  <2>1. Putting /\ UNCHANGED <<owner, fCurrentChunk, fEventValid>>
    BY <1>5 DEF EndEventBody, Advance, PutStatus
  <2>2. CurrentChunk' = CurrentChunk /\ Owned(fEtAttach)' = Owned(fEtAttach)
    BY <1>1, <1>2, <2>1 DEF CurrentChunk, Owned
  <2>3. Bookkeeping' /\ ChunkOwned' /\ ValidBufferIsCurrent' /\ StaleChunkIsEmpty'
    BY <1>1, <1>2, <2>1, <2>2 DEF Bookkeeping, ChunkOwned, ValidBufferIsCurrent, StaleChunkIsEmpty
  <2>4. ValidInReadIsRefused'
    <3>1. CASE PutStatus = "CRASH"
      BY <3>1 DEF EndEventBody, Advance, ValidInReadIsRefused
    <3>2. CASE PutStatus # "CRASH"
      <4>1. PutStatus \in {"DEAD", "ETERR"} /\ locality = "local"
        BY <1>5, <2>1, <3>2 DEF PutStatus, ConnType
      <4>2. Chunk \subseteq putFailed'
        BY <4>1 DEF EndEventBody, Advance
      <4> QED
        BY <1>1, <1>2, <2>1, <4>1, <4>2 DEF ValidInReadIsRefused, Putting
    <3> QED
      BY <3>1, <3>2
  <2>5. ChunkAhead' /\ ChunkBehind'
    BY <1>1, <1>2, <2>1 DEF ChunkAhead, ChunkBehind
  <2>6. skipped' = skipped
    BY <2>1 DEF EndEventBody, Advance, Putting
  <2>7. NothingStranded'
    BY <1>1, <1>2, <2>1, <2>2, <2>6 DEF NothingStranded
  <2> QED
    BY <1>3, <2>3, <2>4, <2>5, <2>7
<1>6. CASE PutStatus = "OK"
  <2>1. ~fEventValid' /\ fCurrentChunk' = c - 1
    BY <1>6 DEF EndEventBody, Advance
  <2>2. Bookkeeping'
    BY <1>1, <1>4, <2>1 DEF Bookkeeping
  <2>3. ValidBufferIsCurrent' /\ ValidInReadIsRefused'
    BY <2>1 DEF ValidBufferIsCurrent, ValidInReadIsRefused
  <2>4. ChunkAhead'
    BY <1>1, <1>4, <2>1 DEF ChunkAhead
  <2>5. ChunkBehind'
    <3> SUFFICES ASSUME Reader, c - 1 >= 0, NEW i \in c..(fNumRead - 1), fPEventBuffer[i] # NULL
                 PROVE  fPEventBuffer[i] \in seen \cup skipped' \/ kind[fPEventBuffer[i]] = "bad"
      BY <1>1, <1>2, <1>4, <2>1 DEF ChunkBehind
    <3>1. CASE i = c /\ ~fEventValid
      BY <1>4, <3>1 DEF EndEventBody, Advance, Reader
    <3>2. CASE ~(i = c /\ ~fEventValid)
      BY <1>1, <1>4, <3>2 DEF ChunkBehind
    <3> QED
      BY <3>1, <3>2
  <2>6. CASE Reader /\ Putting
    <3>1. c = 0 /\ locality = "local"
      BY <2>6 DEF Reader, Putting
    <3>2. owner' = [n \in Fills |-> IF n \in Chunk THEN ET_SYS ELSE owner[n]]
      BY <1>6, <2>6, <3>1 DEF EndEventBody, Advance
    <3>3. fEtAttach # ET_SYS
      BY <2>6 DEF Reader, ConnAlive, EtType, ET_SYS
    <3>4. Owned(fEtAttach)' = Owned(fEtAttach) \ Chunk
      BY <1>1, <3>2, <3>3 DEF Owned
    <3>5. ~(fCurrentChunk' >= 0) /\ CurrentChunk' = {} /\ CurrentChunk = Chunk
      BY <2>1, <3>1 DEF CurrentChunk
    <3>6. ChunkOwned' /\ StaleChunkIsEmpty'
      BY <2>1, <3>1, <3>5 DEF ChunkOwned, StaleChunkIsEmpty
    <3>7. fPEventBuffer[c] # NULL
      <4>1. fPEventBuffer[c] \in Chunk
        BY <1>4, <3>1 DEF Chunk
      <4> QED
        BY <1>6, <2>6, <3>1, <4>1, PutIsOfOwned
    <3>8. NothingStranded'
      BY <1>1, <1>2, <2>6, <3>4, <3>5, <3>7 DEF NothingStranded
    <3> QED
      BY <1>3, <2>2, <2>3, <2>4, <2>5, <3>6, <3>8
  <2>7. CASE Reader /\ ~Putting
    <3>1. owner' = owner /\ Owned(fEtAttach)' = Owned(fEtAttach)
      BY <1>1, <2>7 DEF EndEventBody, Advance, Owned
    <3>2. ChunkOwned'
      BY <1>1, <1>4, <2>1, <2>7, <3>1 DEF ChunkOwned
    <3>3. StaleChunkIsEmpty'
      BY <1>1, <1>2, <1>4, <2>1, <3>1 DEF StaleChunkIsEmpty
    <3>4. NothingStranded'
      <4> SUFFICES ASSUME skipped' = {}, c - 1 >= 0 => fPEventBuffer[c - 1] # NULL,
                          \A n \in Owned(fEtAttach) \ CurrentChunk' : kind[n] # "bad"
                   PROVE  Owned(fEtAttach) = CurrentChunk'
        BY <1>1, <2>1, <3>1 DEF NothingStranded
      <4>1. CASE c < 0
        <5>1. CurrentChunk' = {} /\ CurrentChunk = {}
          BY <1>4, <2>1, <4>1 DEF CurrentChunk
        <5> QED
          BY <1>1, <1>4, <2>7, <4>1, <5>1 DEF NothingStranded
      <4>2. CASE c >= 0 /\ fPEventBuffer[c] = NULL
        <5>1. Owned(fEtAttach) = {} /\ \A i \in 0..c : fPEventBuffer[i] = NULL
          BY <1>4, <2>7, <4>2 DEF StaleChunkIsEmpty
        <5>2. ~(c - 1 >= 0)
          BY <1>4, <5>1
        <5> QED
          BY <2>1, <5>1, <5>2 DEF CurrentChunk
      <4>3. CASE c >= 0 /\ fPEventBuffer[c] # NULL
        <5>1. fEventValid
          BY <2>7, <4>3 DEF EndEventBody, Advance, Reader
        <5>2. c # 0
          BY <2>7, <5>1 DEF Putting, Reader
        <5>3. CurrentChunk' = CurrentChunk
          BY <1>2, <1>4, <2>1, <4>3, <5>2 DEF CurrentChunk
        <5> QED
          BY <1>1, <2>7, <4>3, <5>3 DEF NothingStranded
      <4> QED
        BY <1>4, <4>1, <4>2, <4>3
    <3> QED
      BY <1>3, <2>2, <2>3, <2>4, <2>5, <3>2, <3>3, <3>4
  <2>8. CASE ~Reader
    <3>1. ChunkOwned' /\ StaleChunkIsEmpty' /\ NothingStranded'
      BY <1>2, <2>8 DEF ChunkOwned, StaleChunkIsEmpty, NothingStranded
    <3> QED
      BY <1>3, <2>2, <2>3, <2>4, <2>5, <3>1
  <2> QED
    BY <2>6, <2>7, <2>8
<1> QED
  BY <1>5, <1>6

\* A new EvioTool object has no chunk.
LEMMA ReaderInit == Init => ReaderInv
<1> SUFFICES ASSUME Init PROVE ReaderInv
  OBVIOUS
<1>1. ~Reader /\ ~fReadFromEt /\ seen = {} /\ dup = {} /\ Queued = {}
  BY DEF Init, Reader, Queued, Range
<1>2. Bookkeeping
  BY DEF Init, Bookkeeping
<1>3. TakenIsNotQueued
  BY <1>1 DEF TakenIsNotQueued, Init
<1>4. ChunkOwned /\ ValidBufferIsCurrent /\ ChunkBehind /\ StaleChunkIsEmpty /\ NothingStranded
  BY <1>1 DEF ChunkOwned, ValidBufferIsCurrent, ChunkBehind, StaleChunkIsEmpty, NothingStranded
<1>5. ValidInReadIsRefused /\ ChunkAhead /\ RepeatedOnlyAfterFailedPut
  BY <1>1 DEF ValidInReadIsRefused, ChunkAhead, RepeatedOnlyAfterFailedPut
<1> QED
  BY <1>2, <1>3, <1>4, <1>5 DEF ReaderInv

\* A detach empties the input list or leaves it.
LEMMA DetachQueued ==
  ASSUME NEW A, Detach(A)
  PROVE  Queued' \subseteq Queued /\ attached' \subseteq attached
  BY DEF Detach, Queued, Range

\* Every step of the ET system, of NextNoParse, Next and EndEvent, and of the caller
\* keeps the reader's invariant.
LEMMA ReaderStep ==
  ASSUME TypeOK, InOrder, Placed, ReaderInv, [Next]_vars
  PROVE  ReaderInv'
<1> USE DEF etVars, connVars, fileVars, chunkVars, ctlVars, histVars
<1>0. Bookkeeping /\ ValidInReadIsRefused
  BY DEF ReaderInv
<1>1. CASE UNCHANGED vars
  <2>1. Bookkeeping' /\ ValidInReadIsRefused'
    BY <1>0, <1>1 DEF vars, Bookkeeping, ValidInReadIsRefused, Chunk
  <2> QED
    BY <1>1, <2>1, SameStep DEF vars
<1>2. CASE Produce
  BY <1>2, ProduceReader
<1>3. CASE EtDies
  <2>1. Bookkeeping' /\ ~Reader' /\ Queued' \subseteq Queued
    BY <1>0, <1>3 DEF EtDies, Bookkeeping, Reader, ConnAlive, Queued, Range
  <2> QED
    BY <1>3, <2>1, AwayStep DEF EtDies
<1>4. CASE EtRestarts
  <2>1. Bookkeeping' /\ ~Reader' /\ Queued' \subseteq Queued
    BY <1>0, <1>4 DEF EtRestarts, Bookkeeping, Reader, ConnAlive, Queued
  <2> QED
    BY <1>4, <2>1, AwayStep DEF EtRestarts
<1>5. CASE ConnectionDrops
  <2>1. Queued' \subseteq Queued /\ attached' \subseteq attached
    BY <1>5, DetachQueued DEF ConnectionDrops
  <2>2. Bookkeeping' /\ ~Reader'
    BY <1>0, <1>5, <2>1 DEF ConnectionDrops, Bookkeeping, Reader
  <2> QED
    BY <1>5, <2>1, <2>2, AwayStep DEF ConnectionDrops
<1>6. CASE ReapClient
  <2>1. Queued' \subseteq Queued /\ attached' = {}
    BY <1>6, DetachQueued DEF ReapClient, Detach
  <2>2. Bookkeeping' /\ ~Reader'
    BY <1>0, <1>6, <2>1 DEF ReapClient, Bookkeeping, Reader, ConnAlive
  <2> QED
    BY <1>6, <2>1, <2>2, AwayStep DEF ReapClient
<1>7. CASE Open
  <2>1. Bookkeeping' /\ ValidInReadIsRefused'
    BY <1>0, <1>7, ConstantTypes
       DEF Open, CanCall, Bookkeeping, ValidInReadIsRefused, TypeOK, ConnType
  <2> QED
    BY <1>7, <2>1, SameStep DEF Open
<1>8. CASE ReOpenEt
  <2>1. CASE ReOpenEtSucceeds
    BY <1>8, <2>1, ReopenReader
  <2>2. CASE ReOpenEtFails
    <3>1. Bookkeeping'
      <4>1. /\ attached' = attached \/ (alive /\ attached' = attached \cup {opens'})
            /\ opens' = opens + 1 /\ UNCHANGED <<alive, fCurrentChunk, fNumRead>>
        BY <1>8, <2>2 DEF ReOpenEt, ReOpenEtFails
      <4>2. opens \in Nat
        BY ConstantTypes DEF TypeOK, ConnType
      <4>3. attached' \subseteq 1..opens'
        <5>1. attached \subseteq 1..opens /\ attached' \subseteq attached \cup {opens'}
          BY <1>0, <4>1 DEF Bookkeeping
        <5>2. 1..opens \subseteq 1..opens' /\ opens' \in 1..opens'
          BY <4>1, <4>2
        <5> QED
          BY <5>1, <5>2
      <4>4. ~alive' => attached' = {}
        BY <1>0, <4>1 DEF Bookkeeping
      <4> QED
        BY <1>0, <4>1, <4>3, <4>4 DEF Bookkeeping
    <3>2. ~fReadFromEt' /\ ~Reader' /\ Queued' \subseteq Queued
      BY <1>8, <2>2 DEF ReOpenEt, ReOpenEtFails, Reader, Queued
    <3> QED
      BY <1>8, <2>2, <3>1, <3>2, AwayStep DEF ReOpenEt, ReOpenEtFails
  <2> QED
    BY <1>8, <2>1, <2>2 DEF ReOpenEt
<1>9. ASSUME CloseBody, UNCHANGED <<alive, opens, nextFill, chunkVars, histVars>>
      PROVE  ReaderInv'
  <2>1. Queued' \subseteq Queued /\ attached' \subseteq attached
    BY <1>9, DetachQueued DEF CloseBody, Queued
  <2>2. Bookkeeping'
    BY <1>0, <1>9, <2>1 DEF Bookkeeping
  <2>3. ~fReadFromEt' /\ ~Reader'
    BY <1>9 DEF CloseBody, Reader
  <2> QED
    BY <1>9, <2>1, <2>2, <2>3, AwayStep
<1>10. CASE Close
  BY <1>9, <1>10 DEF Close
<1>11. CASE Destroy
  BY <1>9, <1>11 DEF Destroy
<1>12. CASE Exit
  <2>1. Bookkeeping' /\ ValidInReadIsRefused'
    BY <1>0, <1>12 DEF Exit, Bookkeeping, ValidInReadIsRefused
  <2> QED
    BY <1>12, <2>1, SameStep DEF Exit
<1>14. CASE EndEvent
  BY <1>14, EndEventReader DEF EndEvent
<1>15. CASE \E c \in {"Next", "NextNoParse"} : CallNext(c)
  <2>1. Bookkeeping' /\ ValidInReadIsRefused'
    BY <1>0, <1>15 DEF CallNext, Bookkeeping, ValidInReadIsRefused
  <2> QED
    BY <1>15, <2>1, SameStep DEF CallNext
<1>16. CASE PreEnd
  BY <1>16, EndEventReader DEF PreEnd
<1>17. CASE FinishNext
  BY <1>17, EndEventReader DEF FinishNext
<1>18. CASE ReadFromChunk
  BY <1>18, ReadFromChunkReader
<1>19. CASE GetChunk
  BY <1>19, GetChunkReader
<1>20. CASE GetFails
  BY <1>20, GetFailsReader
<1>21. CASE GetRemote
  BY <1>21, GetRemoteReader
<1>22. CASE ReadFile
  <2>1. Bookkeeping' /\ ~Reader' /\ Queued' = Queued /\ ~fReadFromEt'
    BY <1>0, <1>22 DEF ReadFile, Bookkeeping, Reader, Queued
  <2> QED
    BY <1>22, <2>1, AwayStep DEF ReadFile
<1> QED
  BY <1>1, <1>2, <1>3, <1>4, <1>5, <1>6, <1>7, <1>8, <1>10, <1>11, <1>12, <1>14, <1>15,
     <1>16, <1>17, <1>18, <1>19, <1>20, <1>21, <1>22
     DEF Next, EtNext, Reading, Calls

\* The inductive invariant: the types, the order of the input list, the ring's
\* accounts and what the reader knows of its chunk hold together.
THEOREM Inductive == Spec => []IInv
<1> DEFINE I == TypeOK /\ InOrder /\ Placed /\ ReaderInv
<1>1. Init => I
  BY TypeInit, PlacedInit, ReaderInit
<1>2. I /\ [Next]_vars => I'
  BY TypeStep, PlacedStep, ReaderStep
<1>3. I => IInv
  BY PlacedIsAccounted DEF IInv, TypeOK
<1>4. Spec => []I
  BY <1>1, <1>2, PTL DEF Spec
<1> QED
  BY <1>3, <1>4, PTL

\* A local reader never touches an event it does not own.
THEOREM ChunkIsOwned == Spec => []ChunkOwned
<1>1. IInv => ChunkOwned
  BY DEF IInv, ReaderInv
<1> QED
  BY <1>1, Inductive, PTL

\* GetBufPtr points into the event the reader is at.
THEOREM BufferIsCurrent == Spec => []ValidBufferIsCurrent
<1>1. IInv => ValidBufferIsCurrent
  BY DEF IInv, ReaderInv
<1> QED
  BY <1>1, Inductive, PTL

\* An event is handed out twice only after et_events_put refused its chunk.
THEOREM RepeatsAreRefused == Spec => []RepeatedOnlyAfterFailedPut
<1>1. IInv => RepeatedOnlyAfterFailedPut
  BY DEF IInv, ReaderInv
<1> QED
  BY <1>1, Inductive, PTL

\* A local reader keeps no event past its chunk, but for the named exceptions.
THEOREM NoneStranded == Spec => []NothingStranded
<1>1. IInv => NothingStranded
  BY DEF IInv, ReaderInv
<1> QED
  BY <1>1, Inductive, PTL

\* An event goes back to the ring, while the reader stays attached, only through a
\* put of a chunk every event of which was dealt with.
LEMMA PutBackStep ==
  ASSUME TypeOK, Placed, ReaderInv, [Next]_vars, NEW n \in Fills,
         owner[n] # ET_SYS, owner'[n] = ET_SYS, owner[n] \in attached'
  PROVE  n \in seen \cup skipped \/ kind[n] = "bad"
<1> USE DEF TypeOK, etVars
<1>1. ASSUME UNCHANGED owner PROVE FALSE
  BY <1>1
<1>2. ASSUME NEW A, Detach(A) PROVE FALSE
  BY <1>2 DEF Detach, EtType
<1>3. ASSUME CloseBody PROVE FALSE
  BY <1>1, <1>2, <1>3 DEF CloseBody
<1>4. ASSUME EndEventBody PROVE n \in seen \cup skipped \/ kind[n] = "bad"
  <2>1. Putting /\ PutStatus = "OK" /\ locality = "local" /\ n \in Chunk
    BY <1>4 DEF EndEventBody, Advance
  <2>2. Reader /\ fCurrentChunk = 0 /\ fEventValid
    BY <2>1, PutIsOfOwned DEF Reader, Putting
  <2>3. PICK i \in 0..(fNumRead - 1) : n = fPEventBuffer[i]
    BY <2>1 DEF Chunk
  <2>4. n # NULL
    BY DEF Fills, NULL
  <2> QED
    BY <2>2, <2>3, <2>4 DEF ReaderInv, ChunkBehind
<1>5. CASE GetChunk
  BY <1>5 DEF GetChunk, ConnAlive, EtType, ET_SYS
<1>6. CASE EtDies
  BY <1>6 DEF EtDies
<1> QED
  BY <1>1, <1>2, <1>3, <1>4, <1>5, <1>6
     DEF Next, EtNext, Reading, Calls, vars, Produce, EtRestarts, ConnectionDrops, ReapClient,
         Open, ReOpenEt, Close, Destroy, Exit, EndEvent, CallNext, PreEnd, ReadFromChunk,
         GetFails, GetRemote, ReadFile, FinishNext

\* What a reader that stays attached gives back was handed to its caller, had a
\* wrong magic number, or was skipped by a call of EndEvent out of turn.
THEOREM PutBackIsRead == Spec => PutBackOnlyWhenRead
<1> DEFINE I == TypeOK /\ InOrder /\ Placed /\ ReaderInv
<1>1. Init => I
  BY TypeInit, PlacedInit, ReaderInit
<1>2. I /\ [Next]_vars => I'
  BY TypeStep, PlacedStep, ReaderStep
<1>3. I /\ [Next]_vars =>
        [\A n \in Fills :
           owner[n] # ET_SYS /\ owner'[n] = ET_SYS /\ owner[n] \in attached' =>
             n \in seen \cup skipped \/ kind[n] = "bad"]_vars
  BY PutBackStep
<1> QED
  BY <1>1, <1>2, <1>3, PTL DEF Spec, PutBackOnlyWhenRead

-----------------------------------------------------------------------------
(* EvioToolSource implements StationTraffic: initial states map to initial *)
(* states, and every step to a step of the abstract station or to none.     *)

\* A set of fills S moves to place p.
Moves(S, p) == Place' = [n \in Fills |-> IF n \in S THEN p ELSE Place[n]]

\* The place of a fill is the set it is in.
PlaceMatches ==
  \A n \in Fills :
    /\ (n >= nextFill) <=> (Place[n] = "unfilled")
    /\ (n \in Queued) <=> (Place[n] = "queued")
    /\ (n \in Held) <=> (Place[n] = "held")
    /\ (n \in lost) <=> (Place[n] = "lost")
    /\ (n \in passed) <=> (Place[n] = "passed")

\* The places of the mapping are exclusive, so each is one of the sets.
LEMMA PlaceIs == TypeOK /\ Placed => PlaceMatches
<1> SUFFICES ASSUME TypeOK, Placed, NEW n \in Fills
             PROVE  /\ (n >= nextFill) <=> (Place[n] = "unfilled")
                    /\ (n \in Queued) <=> (Place[n] = "queued")
                    /\ (n \in Held) <=> (Place[n] = "held")
                    /\ (n \in lost) <=> (Place[n] = "lost")
                    /\ (n \in passed) <=> (Place[n] = "passed")
  BY DEF PlaceMatches
<1>1. (n >= nextFill) <=> ~(n \in Queued \cup passed \cup lost \cup Held)
  <2>1. nextFill \in Int /\ n \in Int /\ n >= 1
    BY ConstantTypes DEF TypeOK, EtType, Fills
  <2> QED
    BY <2>1 DEF Placed
<1>2. owner[n] # ET_SYS <=> n \in Held
  BY DEF Held
<1> QED
  BY <1>1, <1>2 DEF Place, Placed

\* The sets StationTraffic speaks of, in EvioTool's terms.
LEMMA AtIs ==
  ASSUME TypeOK, Placed
  PROVE  /\ Traffic!At("unfilled") = {n \in Fills : n >= nextFill}
         /\ Traffic!At("queued") = Queued /\ Traffic!At("held") = Held
         /\ Traffic!Fills = Fills
<1>1. Queued \subseteq Fills /\ Held \subseteq Fills
  BY QueuedType DEF TypeOK, Held
<1>2. Traffic!Fills = Fills
  BY DEF Traffic!Fills, Fills
<1> QED
  BY <1>1, <1>2, PlaceIs DEF PlaceMatches, Traffic!At

\* No fill was made initially.
LEMMA InitRefines == Init => Traffic!Init
  BY ConstantTypes DEF Init, Traffic!Init, Traffic!Fills, Place, Fills

\* Fills that change sets change places.
LEMMA MovesTo ==
  ASSUME NEW S \in SUBSET Fills, NEW p, \A n \in S : Place'[n] = p,
         \A n \in Fills \ S : n >= nextFill <=> n >= nextFill',
         Queued' \ S = Queued \ S, Held' \ S = Held \ S, lost' \ S = lost \ S,
         passed' \ S = passed \ S
  PROVE  Moves(S, p)
<1>1. ASSUME NEW n \in Fills \ S PROVE Place'[n] = Place[n]
  <2>1. (n \in Queued <=> n \in Queued') /\ (n \in lost <=> n \in lost')
        /\ (n \in passed <=> n \in passed')
    OBVIOUS
  <2>2. owner[n] # ET_SYS <=> owner'[n] # ET_SYS
    BY DEF Held
  <2>3. n >= nextFill <=> n >= nextFill'
    OBVIOUS
  <2>4. Place'[n] = IF n >= nextFill' THEN "unfilled"
                    ELSE IF n \in Queued' THEN "queued"
                    ELSE IF owner'[n] # ET_SYS THEN "held"
                    ELSE IF n \in lost' THEN "lost"
                    ELSE IF n \in passed' THEN "passed" ELSE "nowhere"
    BY DEF Place
  <2>5. Place[n] = IF n >= nextFill THEN "unfilled"
                   ELSE IF n \in Queued THEN "queued"
                   ELSE IF owner[n] # ET_SYS THEN "held"
                   ELSE IF n \in lost THEN "lost"
                   ELSE IF n \in passed THEN "passed" ELSE "nowhere"
    BY DEF Place
  <2> QED
    BY <2>1, <2>2, <2>3, <2>4, <2>5
<1>2. Place' = [n \in Fills |-> Place'[n]]
  BY DEF Place
<1> QED
  BY <1>1, <1>2 DEF Moves

\* Every step is a step of StationTraffic or moves no fill.
LEMMA StepRefines ==
  ASSUME TypeOK, InOrder, Placed, [Next]_vars, TypeOK', Placed'
  PROVE  [Traffic!Next]_Place
<1> USE DEF TypeOK
<1>0. PlaceMatches /\ PlaceMatches'
  <2>1. (TypeOK /\ Placed => PlaceMatches)'
    BY PlaceIs, PTL
  <2> QED
    BY <2>1, PlaceIs
<1>1. ASSUME UNCHANGED <<nextFill, input, owner, passed, lost>> PROVE UNCHANGED Place
  BY <1>1 DEF Place, Queued
<1>2. ASSUME NEW S, NEW p, Moves(S, p) PROVE Traffic!Move(S, p)
  BY <1>2, AtIs DEF Moves, Traffic!Move
<1>3. CASE Produce
  <2>1. nextFill \in Fills /\ nextFill' = nextFill + 1 /\ UNCHANGED <<owner, lost>>
    BY <1>3, ConstantTypes DEF Produce, EtType, Fills
  <2>2. nextFill \in Traffic!At("unfilled") /\ \A m \in Traffic!At("unfilled") : nextFill <= m
    BY <2>1, AtIs DEF Fills
  <2>3. \A n \in Fills \ {nextFill} : (n >= nextFill) <=> (n >= nextFill')
    BY <2>1 DEF Fills
  <2>4. Held' = Held
    BY <2>1 DEF Held
  <2>5. CASE input' = Append(input, nextFill) /\ passed' = passed
    <3>1. Queued' = Queued \cup {nextFill}
      BY <2>1, <2>5, QueuedAppend
    <3>2. Place'[nextFill] = "queued"
      BY <1>0, <2>1, <3>1 DEF PlaceMatches
    <3>3. Moves({nextFill}, "queued")
      BY <2>1, <2>3, <2>4, <2>5, <3>1, <3>2, MovesTo
    <3> QED
      BY <1>2, <2>2, <3>3 DEF Traffic!Next, Traffic!Make
  <2>6. CASE passed' = passed \cup {nextFill} /\ input' = input
    <3>1. Queued' = Queued
      BY <2>6 DEF Queued
    <3>2. Place'[nextFill] = "passed"
      BY <1>0, <2>1, <2>6 DEF PlaceMatches
    <3>3. Moves({nextFill}, "passed")
      BY <2>1, <2>3, <2>4, <2>6, <3>1, <3>2, MovesTo
    <3> QED
      BY <1>2, <2>2, <3>3 DEF Traffic!Next, Traffic!Make
  <2> QED
    BY <1>3, <2>5, <2>6 DEF Produce
<1>4. CASE EtDies
  <2>1. /\ Queued' = {} /\ Held' = {} /\ lost' = lost \cup Queued \cup Held
        /\ UNCHANGED <<nextFill, passed>> /\ Held \cup Queued \subseteq Fills
    BY <1>4, QueuedType DEF EtDies, Queued, Range, Held
  <2>2. \A n \in Held \cup Queued : Place'[n] = "lost"
    BY <1>0, <2>1 DEF PlaceMatches
  <2>3. Moves(Held \cup Queued, "lost")
    BY <2>1, <2>2, MovesTo
  <2> QED
    BY <1>2, <2>3, AtIs DEF Traffic!Next, Traffic!Vanish
<1>5. ASSUME NEW A, Detach(A), UNCHANGED <<nextFill, lost>> PROVE [Traffic!Next]_Place
  <2> DEFINE gone  == A \cap attached
             freed == {n \in Fills : owner[n] \in gone}
             last  == gone # {} /\ attached \ gone = {}
  <2>1. /\ owner'  = [n \in Fills |-> IF n \in freed THEN ET_SYS ELSE owner[n]]
        /\ passed' = passed \cup freed \cup (IF last THEN Queued ELSE {})
        /\ input'  = IF last THEN <<>> ELSE input
    BY <1>5 DEF Detach
  <2>2. freed \subseteq Held /\ Held' = Held \ freed /\ Held \subseteq Fills
    BY <2>1 DEF EtType, Held, ET_SYS
  <2>3. CASE last
    <3>1. Queued' = {} /\ Queued \subseteq Fills
      BY <2>1, <2>3, QueuedType DEF Queued, Range
    <3>2. freed = Held
      BY <2>2, <2>3 DEF Placed, Held
    <3>3. \A n \in Held \cup Queued : Place'[n] = "passed"
      BY <1>0, <2>1, <2>2, <2>3, <3>1, <3>2 DEF PlaceMatches
    <3>4. Moves(Held \cup Queued, "passed")
      BY <1>5, <2>1, <2>2, <2>3, <3>1, <3>2, <3>3, MovesTo
    <3> QED
      BY <1>2, <3>4, AtIs DEF Traffic!Next, Traffic!GoIdle
  <2>4. CASE ~last /\ freed # {}
    <3>1. Queued' = Queued
      BY <2>1, <2>4 DEF Queued
    <3>2. \A n \in freed : Place'[n] = "passed"
      BY <1>0, <2>1 DEF PlaceMatches
    <3>3. Moves(freed, "passed")
      BY <1>5, <2>1, <2>2, <2>4, <3>1, <3>2, MovesTo
    <3> QED
      BY <1>2, <2>2, <2>4, <3>3, AtIs DEF Traffic!Next, Traffic!GiveBack
  <2>5. CASE ~last /\ freed = {}
    BY <1>1, <1>5, <2>1, <2>5 DEF EtType
  <2> QED
    BY <2>3, <2>4, <2>5
<1>6. ASSUME CloseBody, UNCHANGED <<nextFill, lost>> PROVE [Traffic!Next]_Place
  BY <1>1, <1>5, <1>6 DEF CloseBody
<1>7. ASSUME EndEventBody, EndEventFrame PROVE [Traffic!Next]_Place
  <2>1. UNCHANGED <<nextFill, input, lost>>
    BY <1>7 DEF EndEventFrame
  <2>2. CASE Putting /\ PutStatus = "OK" /\ locality = "local" /\ Chunk # {}
    <3>1. /\ owner' = [n \in Fills |-> IF n \in Chunk THEN ET_SYS ELSE owner[n]]
          /\ passed' = passed \cup Chunk
      BY <1>7, <2>2 DEF EndEventBody, Advance
    <3>2. Chunk \subseteq Held /\ Chunk \subseteq Fills
      BY <2>2, PutIsOfOwned DEF ConnAlive, EtType, Held, ET_SYS
    <3>3. Held' = Held \ Chunk /\ Queued' = Queued
      BY <2>1, <3>1 DEF Held, Queued
    <3>4. \A n \in Chunk : Place'[n] = "passed"
      BY <1>0, <3>1, <3>2 DEF PlaceMatches
    <3>5. Moves(Chunk, "passed")
      BY <2>1, <3>1, <3>2, <3>3, <3>4, MovesTo
    <3> QED
      BY <1>2, <2>2, <3>2, <3>5, AtIs DEF Traffic!Next, Traffic!GiveBack
  <2>3. CASE ~(Putting /\ PutStatus = "OK" /\ locality = "local" /\ Chunk # {})
    <3>1. owner' = owner /\ passed' = passed
      BY <1>7, <2>3 DEF EndEventBody, Advance, EtType
    <3> QED
      BY <1>1, <2>1, <3>1
  <2> QED
    BY <2>2, <2>3
<1>8. ASSUME NEW S \in SUBSET Queued, S # {}, Queued = Queued' \cup S,
             \A n \in S, m \in Queued' : n < m, NEW p \in {"held", "passed"},
             \A n \in S : Place'[n] = p,
             Held' \ S = Held \ S, passed' \ S = passed \ S, UNCHANGED <<nextFill, lost>>
      PROVE  [Traffic!Next]_Place
  <2>1. S \subseteq Fills /\ Queued \subseteq Fills
    BY QueuedType
  <2>2. Moves(S, p)
    BY <1>8, <2>1, MovesTo
  <2>3. \A n \in S, m \in Traffic!At("queued") \ S : n < m
    BY <1>8, AtIs
  <2> QED
    BY <1>2, <1>8, <2>2, <2>3, AtIs DEF Traffic!Next, Traffic!Take
<1>9. CASE GetChunk
  <2> DEFINE got == {input[i] : i \in 1..NumGot}
  <2>1. /\ Queued = Queued' \cup got
        /\ \A i \in 1..NumGot, m \in Queued' : input[i] < m
    BY <1>9, GotType, QueuedDrop
  <2>2. 1 \in 1..NumGot /\ got # {} /\ got \subseteq Fills
    <3>1. NumGot \in Nat /\ NumGot >= 1
      BY <1>9, GotType
    <3>2. 1 \in 1..NumGot
      BY <3>1
    <3>3. input[1] \in got
      BY <3>2
    <3>4. got \subseteq Fills
      BY <2>1, QueuedType
    <3> QED
      BY <3>2, <3>3, <3>4
  <2>3. /\ owner' = [n \in Fills |-> IF n \in got THEN fEtAttach ELSE owner[n]]
        /\ UNCHANGED <<nextFill, passed, lost>> /\ fEtAttach # ET_SYS
    BY <1>9 DEF GetChunk, ConnAlive, EtType, ET_SYS
  <2>4. Held' = Held \cup got
    BY <2>2, <2>3 DEF Held
  <2>5. \A n \in got : Place'[n] = "held"
    BY <1>0, <2>2, <2>4 DEF PlaceMatches
  <2> QED
    BY <1>8, <2>1, <2>2, <2>3, <2>4, <2>5
<1>10. CASE GetRemote
  <2>1. /\ Queued = Queued' \cup {input[i] : i \in 1..1}
        /\ \A i \in 1..1, m \in Queued' : input[i] < m
    BY <1>10, GotCopyType, QueuedDrop
  <2>2. Queued = Queued' \cup {input[1]} /\ \A m \in Queued' : input[1] < m
    BY <2>1
  <2>3. passed' = passed \cup {input[1]} /\ UNCHANGED <<nextFill, owner, lost>>
    BY <1>10, GotCopyType DEF GetRemote
  <2>4. Held' = Held /\ input[1] \in Fills
    BY <2>2, <2>3, QueuedType DEF Held
  <2>5. Place'[input[1]] = "passed"
    BY <1>0, <2>3, <2>4 DEF PlaceMatches
  <2> QED
    <3> DEFINE S == {input[1]}
    <3>1. /\ S \in SUBSET Queued /\ S # {} /\ Queued = Queued' \cup S
          /\ Held' \ S = Held \ S /\ passed' \ S = passed \ S
      BY <2>2, <2>3, <2>4
    <3>2. (\A n \in S, m \in Queued' : n < m) /\ \A n \in S : Place'[n] = "passed"
      BY <2>2, <2>5
    <3> HIDE DEF S
    <3> QED
      BY <1>8, <2>3, <3>1, <3>2
<1> QED
  BY <1>1, <1>3, <1>4, <1>5, <1>6, <1>7, <1>9, <1>10
     DEF Next, EtNext, Reading, Calls, vars, etVars, EtRestarts, ConnectionDrops, ReapClient,
         Open, ReOpenEt, Close, Destroy, Exit, EndEvent, CallNext, PreEnd, ReadFromChunk,
         GetFails, ReadFile, FinishNext

\* EvioTool and its station keep the promise of StationTraffic to the ring.
THEOREM Implements == Spec => OrderlyStation
<1> DEFINE I == TypeOK /\ InOrder /\ Placed
<1>1. Init => I /\ Traffic!Init
  BY TypeInit, PlacedInit, InitRefines
<1>2. I /\ [Next]_vars => I' /\ [Traffic!Next]_Place
  BY TypeStep, PlacedStep, StepRefines
<1> QED
  BY <1>1, <1>2, PTL DEF Spec, OrderlyStation, Traffic!Spec
=============================================================================
