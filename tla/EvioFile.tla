------------------------------ MODULE EvioFile ------------------------------
(***************************************************************************)
(* The block layer of the evio library (evio-5.1/src/libsrc/evio.c): a     *)
(* handle open for writing to a file, a series of split files, an existing *)
(* file it appends to, or a pipe, and what the sequential reader and the   *)
(* random access table make of the result.  Events are gathered in an      *)
(* internal buffer of blocks, each an 8 word header and whole events, and  *)
(* the buffer always ends with the header of an empty "last block" which   *)
(* the next event, or the next flush of the buffer to the file, writes     *)
(* over.  Lengths are in 32-bit words, as they are in the headers; the     *)
(* code's byte counts are four times as large.  Calls on one handle        *)
(* exclude each other (mutexLock, handleWriteLock), so each is one action. *)
(***************************************************************************)
EXTENDS Integers, Sequences, FiniteSets, SequencesExt

CONSTANTS
  EventSizes,      \* Words of the events a program writes, header included
  DictSizes,       \* Words of the bank around a dictionary
  FirstSizes,      \* Words of a "first event"
  Targets,         \* Block sizes asked for with evIoctl "B"
  Buffers,         \* Buffer sizes asked for with evIoctl "W"
  EventMaxima,     \* Events in a block asked for with evIoctl "N"
  Splits,          \* File sizes asked for with evIoctl "S"
  EV_BLOCKSIZE_V4, \* Target block and buffer size of a new handle
  EV_BLOCKSIZE_MIN,
  EV_EVENTS_MAX_DEF,
  EV_SPLIT_SIZE,
  Foreign,         \* A file somebody else wrote
  MaxEvents,       \* Bound: events written in a behaviour
  MaxOpens,        \* Bound: handles opened in a behaviour
  MaxIoctls,       \* Bound: settings changed in a behaviour
  MaxFiles         \* Bound: files a handle may split into

EV_HDSIZ == 8
Pipe == MaxFiles
Names == 0 .. MaxFiles

VARIABLES
  a,      \* The handle: the EVFILE structure, or Closed
  disk,   \* What the operating system holds of each file, or Absent
  opens,  \* Handles opened so far
  ioctls, \* Settings changed so far
  events, \* Events written so far
  log,    \* History: what a reader of each file is entitled to
  old,    \* History: what could be read of it when the handle was opened
  limit,  \* History: the split size it was written under, 0 for none
  broken  \* History: the files whose writer crashed

vars == <<a, disk, opens, ioctls, events, log, old, limit, broken>>

Closed == [rw |-> "none"]
Absent == <<[kind |-> "absent", words |-> 0]>>
Opened == a # Closed

-----------------------------------------------------------------------------
(* Files are sequences of headers and events, each so many words long.     *)

Header(size, num, count, last, dict) ==
  [kind |-> "head", words |-> EV_HDSIZ, size |-> size, num |-> num,
   count |-> count, last |-> last, dict |-> dict]
EmptyLast(num) == Header(EV_HDSIZ, num, 0, TRUE, FALSE)
Event(id, words) == [kind |-> "event", words |-> words, id |-> id]
Torn(words) == [kind |-> "torn", words |-> words]
Dictionary == 0   \* Names of the dictionary bank and of a "first event"
FirstEvent == -1

HeadItems == [kind : {"head"}, words : {EV_HDSIZ}, size : Nat, num : Nat,
              count : Nat, last : BOOLEAN, dict : BOOLEAN]
EventItems == [kind : {"event"}, words : Nat, id : Int]
TornItems == [kind : {"torn"}, words : Nat]
Items == HeadItems \cup EventItems \cup TornItems

\* Banks have at least a header; a new handle's buffer has room for a block
\* header, and a foreign file is made of headers and events too.
ASSUME SizesAssumption ==
  /\ EventSizes \cup DictSizes \cup FirstSizes \subseteq Nat \ {0}
  /\ Targets \cup Buffers \cup EventMaxima \cup Splits \subseteq Nat
  /\ {EV_BLOCKSIZE_V4, EV_BLOCKSIZE_MIN, EV_EVENTS_MAX_DEF, EV_SPLIT_SIZE} \subseteq Nat
  /\ EV_BLOCKSIZE_V4 >= EV_HDSIZ
  /\ {MaxEvents, MaxOpens, MaxIoctls} \subseteq Nat /\ MaxFiles \in Nat \ {0}
ASSUME ForeignAssumption == Foreign \in Seq(Items)

Ends(f) ==
  LET end[i \in 0 .. Len(f)] == IF i = 0 THEN 0 ELSE end[i-1] + f[i].words
  IN  end
Words(f) == Ends(f)[Len(f)]

\* The first n words of a file, and what follows them.
Cut(f, n) ==
  LET end  == Ends(f)
      k    == CHOOSE i \in 0 .. Len(f) :
                /\ end[i] <= n
                /\ i = Len(f) \/ end[i+1] > n
  IN  SubSeq(f, 1, k) \o
        (IF k < Len(f) /\ end[k] < n THEN <<Torn(n - end[k])>> ELSE <<>>)
Beyond(f, n) ==
  LET end == Ends(f)
      k   == CHOOSE i \in 0 .. Len(f) :
               /\ i = Len(f) \/ end[i] >= n
               /\ i = 0 \/ end[i-1] < n
  IN  (IF k > 0 /\ end[k] > n THEN <<Torn(end[k] - n)>> ELSE <<>>)
        \o SubSeq(f, k + 1, Len(f))

Content(f) == IF f = Absent THEN <<>> ELSE f
WriteAt(f, pos, s) ==
  Cut(Content(f), pos) \o s \o Beyond(Content(f), pos + Words(s))

-----------------------------------------------------------------------------
(* Reading.  A block is readable if all of its words are in the file.      *)

\* Where the block with header i ends: the index of its last item, 0 if the
\* file is too short, -1 if the end is inside an item.
BlockEnd(f, i) ==
  LET end == Ends(f)
      at  == end[i] - EV_HDSIZ + f[i].size
  IN  IF at > end[Len(f)] THEN 0
      ELSE IF \E j \in i .. Len(f) : end[j] = at
           THEN CHOOSE j \in i .. Len(f) : end[j] = at
           ELSE -1

\* evOpen "r" and then evReadNoCopy until it does not return S_SUCCESS.
evRead(f) ==
  LET Body(i, j) == IF f[i].dict THEN SubSeq(f, i + 2, j) ELSE SubSeq(f, i + 1, j)
      from[i \in 1 .. Len(f) + 1] ==
        IF i > Len(f) \/ Words(SubSeq(f, i, Len(f))) < EV_HDSIZ THEN <<>>  \* EOF
        ELSE IF f[i].kind # "head" THEN <<Torn(0)>>
        ELSE LET j == BlockEnd(f, i)
             IN  CASE j = 0  -> <<>>                              \* EOF
                   [] j = -1 -> <<Torn(0)>>
                   [] OTHER  ->
                        IF f[i].last \/ (j = i /\ i > 1) THEN Body(i, j)
                        ELSE Body(i, j) \o from[j+1]
  IN  from[1]

\* The events generatePointerTable finds by the counts in the headers.
generatePointerTable(f) ==
  LET from[i \in 1 .. Len(f) + 1] ==
        IF i > Len(f) \/ f[i].kind # "head" THEN <<Torn(0)>>
        ELSE LET first == IF f[i].dict THEN i + 2 ELSE i + 1
                 next  == first + f[i].count
             IN  IF next > Len(f) + 1 THEN <<Torn(0)>>
                 ELSE SubSeq(f, first, next - 1) \o
                        (IF f[i].last THEN <<>> ELSE from[next])
  IN  from[1]

-----------------------------------------------------------------------------
(* The handle.                                                             *)

structInit(rw, append, splitting) ==
  [rw |-> rw, append |-> append, splitting |-> splitting,
   buf |-> <<EmptyLast(1)>>, cur |-> 1, blksiz |-> EV_HDSIZ, blknum |-> 1,
   blkEvCount |-> 0, blkSizeTarget |-> EV_BLOCKSIZE_V4,
   bufSize |-> EV_BLOCKSIZE_V4, bufRealSize |-> EV_BLOCKSIZE_V4,
   blkEvMax |-> EV_EVENTS_MAX_DEF, split |-> EV_SPLIT_SIZE,
   fileName |-> -1, splitNumber |-> 0, file |-> FALSE,
   wordsToFile |-> 0, wordsToBuf |-> EV_HDSIZ, eventsToBuf |-> 0,
   eventCount |-> 0, dict |-> 0, wroteDictionary |-> FALSE,
   first |-> <<>>, wroteFirstEvent |-> FALSE, commonBlkCount |-> 0,
   pos |-> 0, pending |-> <<>>, hidden |-> FALSE]

isLastBlock(h) == h.buf[h.cur].last

resetBuffer(h) ==
  [h EXCEPT !.buf = <<EmptyLast(h.blknum)>>, !.cur = 1, !.blksiz = EV_HDSIZ,
            !.blkEvCount = 0, !.wordsToBuf = EV_HDSIZ, !.eventsToBuf = 0]

\* A bigger buffer starts without the old one's contents; it is always reset.
expandBuffer(h, size) ==
  [h EXCEPT !.bufSize = IF size <= @ THEN @ ELSE size,
            !.bufRealSize = IF size <= @ THEN @ ELSE size]

NewHeaderCounted(h) ==
  [h EXCEPT !.buf = Append(@, Header(EV_HDSIZ, h.blknum, 1, FALSE, FALSE)),
            !.cur = Len(h.buf) + 1, !.blksiz = EV_HDSIZ, !.blkEvCount = 0,
            !.blknum = @ + 1, !.wordsToBuf = @ + EV_HDSIZ]

\* The header of a new block, in place of the empty last one.
writeNewHeader(h) ==
  [h EXCEPT !.buf = Append(@, Header(EV_HDSIZ, h.blknum, 1, FALSE, FALSE)),
            !.cur = Len(h.buf) + 1, !.blksiz = EV_HDSIZ, !.blkEvCount = 0,
            !.blknum = @ + 1,
            !.hidden = @ \/ isLastBlock(h)]

CountAll(h, n, isDictionary) == IF isDictionary THEN 0 ELSE n

\* The dictionary is not counted, nor with the events that share its block.
HeadCount(h, n, isDictionary) ==
  IF isDictionary THEN 0
  ELSE IF h.wroteDictionary /\ h.blknum = 2 /\ n > 1 THEN n - 1 ELSE n

\* The event goes behind the current header, whose size and count follow, and
\* an empty last block behind the event.
writeEventToBuffer(h, e, isDictionary) ==
  LET n     == h.blkEvCount + 1
      size  == h.blksiz + e.words
      head  == [h.buf[h.cur] EXCEPT !.size = size, !.count = HeadCount(h, n, isDictionary),
                                    !.last = FALSE]
      buf   == Append([h.buf EXCEPT ![h.cur] = head], e)
  IN  [h EXCEPT !.buf = IF isDictionary THEN [buf EXCEPT ![1].dict = TRUE]
                                        ELSE buf,
                !.blksiz = size, !.blkEvCount = n,
                !.wordsToBuf = @ + e.words + EV_HDSIZ,
                !.eventsToBuf = @ + 1,
                !.wroteDictionary = @ \/ isDictionary,
                !.eventCount = IF isDictionary THEN @ ELSE @ + 1,
                !.append = IF isDictionary \/ @ = 0 THEN @ ELSE 2,
                !.blknum = IF isLastBlock(h) THEN @ + 1 ELSE @]

\* What is in the buffer memory, the last empty header behind the last event.
Memory(h) == Append(h.buf, EmptyLast(h.blknum))

NameOf(h) == IF h.rw = "pipe" THEN Pipe
             ELSE IF h.fileName = -1 THEN h.splitNumber ELSE h.fileName

\* The file stream writes out what it holds when it is repositioned or
\* closed (external: the C library).
Synced(h, d) ==
  IF h.pending = <<>> THEN d
  ELSE [d EXCEPT ![NameOf(h)] = WriteAt(@, h.pos, h.pending)]

KeepPlace(h) == h.pos + Words(h.pending)

\* Where the next flush writes: over the last header of the one before.
SeekBack(h) ==
  IF h.wordsToFile = 0 THEN h.pos ELSE h.pos + Words(h.pending) - EV_HDSIZ

\* The buffer goes to the file, over the last empty header of the flush
\* before, or to the pipe, without its own last header.  s is the handle, the
\* disk and whether all went well so far.
evFlush(s) ==
  LET h     == s.h
      name  == NameOf(h)
      words == Cut(Memory(h), h.wordsToBuf)
      piped == Cut(Memory(h), h.wordsToBuf - EV_HDSIZ)
      isNew == h.wordsToFile = 0 /\ ~h.file
  IN  IF h.eventsToBuf < 1 THEN s
      ELSE IF h.rw = "pipe"
      THEN [s EXCEPT !.d[Pipe] = Content(@) \o piped,
                     !.h.wordsToFile = @ + h.wordsToBuf - EV_HDSIZ]
      ELSE IF isNew /\ h.splitting /\ s.d[name] # Absent
      THEN [s EXCEPT !.ok = FALSE,
                     !.h.fileName = name,
                     !.h.splitNumber = IF h.fileName = -1 THEN @ + 1 ELSE @]
      ELSE IF isNew
      THEN [s EXCEPT !.d[name] = <<>>,
                     !.h.fileName = name,
                     !.h.splitNumber = IF h.fileName = -1 THEN @ + 1 ELSE @,
                     !.h.file = TRUE, !.h.pos = 0, !.h.pending = words,
                     !.h.wordsToFile = @ + h.wordsToBuf]
      ELSE [s EXCEPT !.d = Synced(h, @),
                     !.h.pos = SeekBack(h),
                     !.h.pending = words,
                     !.h.wordsToFile = @ + h.wordsToBuf]

\* The file is closed, the next one only named; it is created by a flush.
splitFile(s) ==
  [h  |-> [s.h EXCEPT !.blknum = 1, !.wordsToFile = 0, !.file = FALSE,
                      !.pending = <<>>, !.pos = 0, !.hidden = FALSE,
                      !.fileName = s.h.splitNumber, !.splitNumber = @ + 1],
   d  |-> Synced(s.h, s.d),
   ok |-> s.ok]

\* The dictionary and the first event, in a block of their own; Begin has made
\* room for them.
Common(h) ==
  (IF h.dict > 0 THEN <<Event(Dictionary, h.dict)>> ELSE <<>>) \o h.first
evWriteCommonBlock(h) ==
  LET withDict == IF h.dict = 0 THEN h
                  ELSE writeEventToBuffer(h, Event(Dictionary, h.dict), TRUE)
      overLast == IF h.dict = 0 THEN withDict
                  ELSE [withDict EXCEPT !.wordsToBuf = @ - EV_HDSIZ]
  IN  IF h.first = <<>> THEN withDict
      ELSE writeEventToBuffer(overLast, h.first[1], FALSE)

\* Does the event need a block of its own, and the file to be split for it?
NeedsHeader(h, e) ==
  e.words + h.blksiz > h.blkSizeTarget \/ h.blkEvCount >= h.blkEvMax
SplitsAfter(h, e) ==
  /\ h.splitting
  /\ ~(h.blknum - 1 = 1 /\ h.eventsToBuf <= h.commonBlkCount)
  /\ h.wordsToFile + h.wordsToBuf > h.split
SplitsFile(h, e) ==
  LET total == h.wordsToFile + e.words + h.wordsToBuf
      own   == IF NeedsHeader(h, e) /\ h.wordsToFile < 1 THEN EV_HDSIZ ELSE 0
      last  == IF isLastBlock(h) THEN EV_HDSIZ ELSE 0
  IN  /\ h.splitting
      /\ ~(h.blknum - 1 = 1 /\ h.eventsToBuf <= h.commonBlkCount)
      /\ total + own + last > h.split
TooBig(h, e) == h.bufSize < e.words + 2 * EV_HDSIZ
NoRoom(h, e) ==
  h.bufSize - h.wordsToBuf < e.words + (IF NeedsHeader(h, e) THEN EV_HDSIZ ELSE 0)

\* The buffer is given room for the event, and emptied after a flush or split.
Prepare(s, big, words, clean) ==
  LET room == IF big THEN expandBuffer(s.h, words + 2 * EV_HDSIZ) ELSE s.h
  IN  [s EXCEPT !.h = IF clean THEN resetBuffer(room) ELSE room]

\* A file that was just split off begins with the common block.
Begin(s, words) ==
  LET needed == Words(Common(s.h)) + 3 * EV_HDSIZ + words
  IN  [s EXCEPT !.h = evWriteCommonBlock(resetBuffer(expandBuffer(@, needed)))]

\* The event takes the place of the last empty header, if there is one yet.
Place(h, e, newBlock) ==
  writeEventToBuffer(
    IF newBlock THEN writeNewHeader(h)
    ELSE [h EXCEPT !.wordsToBuf = IF isLastBlock(h) THEN @ ELSE @ - EV_HDSIZ],
    e, FALSE)

Finish(s, e, newBlock) ==
  IF s.ok THEN [s EXCEPT !.h = Place(@, e, newBlock)] ELSE s

evWriteImpl(s, e) ==
  LET h       == s.h
      splits  == SplitsFile(h, e)
      big     == TooBig(h, e)
      doFlush == (splits /\ h.eventsToBuf > 0) \/ big \/ NoRoom(h, e)
      flushed == IF doFlush THEN evFlush(s) ELSE s
      repeats == splits /\ Common(h) # <<>>
      header  == repeats \/ (NeedsHeader(h, e) /\ ~doFlush /\ ~splits)
  IN  CASE doFlush /\ ~flushed.ok -> flushed
        [] OTHER ->
             LET there == Prepare(IF splits THEN splitFile(flushed) ELSE flushed,
                                  big, e.words, doFlush \/ splits)
             IN  Finish(IF repeats THEN Begin(there, e.words) ELSE there, e, header)

AppendAtLast(f, l) == Ends(f)[l] - EV_HDSIZ

\* The last block is written over if it is empty.
AppendAt(f, l) ==
  Ends(f)[l] - EV_HDSIZ + (IF f[l].size > EV_HDSIZ THEN f[l].size ELSE 0)

\* The headers from the first to the last block, none if it is not reached.
BlockHeaders(f) ==
  LET hops[i \in 1 .. Len(f) + 1] ==
        IF i > Len(f) \/ f[i].kind # "head" THEN <<>>
        ELSE IF f[i].last THEN <<i>>
        ELSE IF BlockEnd(f, i) < 1 THEN <<>>
        ELSE IF hops[BlockEnd(f, i) + 1] = <<>> THEN <<>>
        ELSE <<i>> \o hops[BlockEnd(f, i) + 1]
  IN  hops[1]
EventCount(f, heads) ==
  LET count[k \in 0 .. Len(heads)] ==
        IF k = 0 THEN 0 ELSE count[k-1] + f[heads[k]].count
  IN  count[Len(heads)]

\* Where an existing file is to be continued: from its last block on if that
\* is empty, behind it, no longer marked last, if it is not.
toAppendPosition(f) ==
  LET heads == BlockHeaders(f)
      l     == heads[Len(heads)]
      num   == IF f[l].size > EV_HDSIZ THEN Len(heads) + 1 ELSE Len(heads)
      pos   == AppendAt(f, l)
      total == EventCount(f, heads)
  IN  IF heads = <<>> THEN [ok |-> FALSE]       \* S_EVFILE_BADFILE
      ELSE [ok |-> TRUE,
            f  |-> WriteAt([f EXCEPT ![l].last = FALSE], pos, <<EmptyLast(num)>>),
            h  |-> [structInit("file", 1, FALSE) EXCEPT
                      !.buf = <<EmptyLast(num)>>, !.blknum = num,
                      !.fileName = 0, !.file = TRUE, !.pos = pos,
                      !.eventCount = total,
                      !.eventsToBuf = IF f[1].dict THEN total + 1 ELSE total]]

-----------------------------------------------------------------------------
(* The calls a program makes.                                              *)

Init ==
  /\ a = Closed
  /\ disk \in [Names -> {Absent, Foreign}]
  /\ Cardinality({n \in Names : disk[n] = Foreign}) < 2
  /\ \A n \in Names : disk[n] = Foreign => n \in {0, 1} \ {Pipe}
  /\ opens = 0 /\ ioctls = 0 /\ events = 0
  /\ log = [n \in Names |-> evRead(Content(disk[n]))]
  /\ old = log
  /\ limit = [n \in Names |-> 0]
  /\ broken = {}

CanOpen ==
  /\ ~Opened /\ opens < MaxOpens
  /\ opens' = opens + 1
  /\ old' = [n \in Names |-> evRead(Content(disk[n]))]
  /\ log' = [n \in Names |-> evRead(Content(disk[n]))]
  /\ UNCHANGED <<ioctls, events, limit, broken>>

\* Modes "w" and "s", and a name that begins with '|'.
evOpen_w(rw, splitting) ==
  /\ CanOpen
  /\ rw = "pipe" => disk[Pipe] = Absent
  /\ a' = structInit(rw, 0, splitting)
  /\ UNCHANGED disk

\* Mode "a", for a file that has nothing behind its last block.
evOpen_a ==
  /\ CanOpen
  /\ disk[0] # Absent
  /\ \A i \in 1 .. Len(disk[0]) - 1 :
       disk[0][i].kind = "head" /\ disk[0][i].size = EV_HDSIZ => ~disk[0][i].last
  /\ LET r == toAppendPosition(disk[0])
     IN  IF r.ok THEN a' = r.h /\ disk' = [disk EXCEPT ![0] = r.f]
         ELSE UNCHANGED <<a, disk>>

NothingWritten ==
  IF a.append = 0 THEN a.blknum = 1 /\ a.blkEvCount = 0 ELSE a.append = 1
CanTune ==
  /\ Opened /\ NothingWritten
  /\ ioctls < MaxIoctls /\ ioctls' = ioctls + 1

evIoctl_B(n) ==
  LET grows == n + EV_HDSIZ > a.bufRealSize
  IN  /\ CanTune
      /\ n # a.blkSizeTarget /\ n >= EV_BLOCKSIZE_MIN
      /\ a' = [a EXCEPT !.blkSizeTarget = n,
                        !.buf = IF grows THEN <<EmptyLast(1)>> ELSE @,
                        !.bufRealSize = IF grows THEN n + EV_HDSIZ ELSE @,
                        !.bufSize = IF n + EV_HDSIZ > @ THEN n + EV_HDSIZ ELSE @]
      /\ UNCHANGED <<disk, opens, events, log, old, limit, broken>>

evIoctl_W(n) ==
  LET grows == n > a.bufRealSize
  IN  /\ CanTune
      /\ n # a.bufSize /\ n >= a.blkSizeTarget + EV_HDSIZ
      /\ a' = [a EXCEPT !.bufSize = n,
                        !.buf = IF grows THEN <<EmptyLast(1)>> ELSE @,
                        !.bufRealSize = IF grows THEN n ELSE @]
      /\ UNCHANGED <<disk, opens, events, log, old, limit, broken>>

\* Both are set, as programs do, before the first event.
evIoctl_N(n) ==
  /\ CanTune /\ n >= 1 /\ n # a.blkEvMax
  /\ a' = [a EXCEPT !.blkEvMax = n]
  /\ UNCHANGED <<disk, opens, events, log, old, limit, broken>>

evIoctl_S(n) ==
  /\ CanTune /\ a.splitting /\ n # a.split
  /\ a' = [a EXCEPT !.split = n]
  /\ UNCHANGED <<disk, opens, events, log, old, limit, broken>>

\* Nothing has gone to the handle's file yet, and nothing will, because a
\* splitting handle does not touch a file that exists.
Fresh(h) == ~h.file /\ h.eventsToBuf = 0
Refused(h) == h.splitting /\ ~h.file /\ disk[NameOf(h)] # Absent

evWriteDictionary(words) ==
  LET fits == IF a.bufSize < words + 2 * EV_HDSIZ
              THEN resetBuffer(expandBuffer(a, words + 2 * EV_HDSIZ)) ELSE a
      h    == [fits EXCEPT !.dict = words]
  IN  /\ Opened /\ a.append = 0
      /\ a.blknum = 1 /\ a.eventCount = 0 /\ ~a.wroteDictionary
      /\ a' = [writeEventToBuffer(h, Event(Dictionary, words), TRUE)
                 EXCEPT !.commonBlkCount = @ + 1]
      /\ IF Refused(a) THEN UNCHANGED <<log, broken>>
         ELSE log' = [log EXCEPT ![NameOf(a)] = <<>>] /\ broken' = broken \ {NameOf(a)}
      /\ UNCHANGED <<disk, opens, ioctls, events, old, limit>>

\* evWriteImpl on the handle h, and what a reader may then expect: the events
\* of the file and this one; in a new file the common block's come first.
Write(h, e) ==
  LET s      == evWriteImpl([h |-> h, d |-> disk, ok |-> TRUE], e)
      splits == s.h.fileName > h.fileName /\ ~s.h.file
      name   == NameOf(s.h)
      before == IF splits THEN h.first ELSE IF Fresh(h) THEN <<>> ELSE log[name]
  IN  /\ disk' = s.d
      /\ IF s.ok
         THEN /\ log' = IF Refused(s.h) THEN log
                        ELSE [log EXCEPT ![name] = IF s.h.hidden THEN before
                                                   ELSE Append(before, e)]
              /\ limit' = IF Refused(s.h) THEN limit
                          ELSE [limit EXCEPT ![name] = IF h.splitting THEN h.split ELSE 0]
         ELSE UNCHANGED <<log, limit>>
      /\ a' = [s.h EXCEPT !.wroteFirstEvent = @ \/ e.id = FirstEvent,
                          !.commonBlkCount = IF e.id = FirstEvent THEN @ + 1 ELSE @]
      /\ events' = events + 1
      /\ broken' = IF (splits \/ Fresh(h)) /\ ~Refused(s.h) THEN broken \ {name}
                   ELSE broken
      /\ UNCHANGED <<opens, ioctls, old>>

WithinBounds ==
  /\ Opened /\ events < MaxEvents
  /\ a.splitting => a.splitNumber < MaxFiles

evWrite(words) ==
  /\ WithinBounds
  /\ Write(a, Event(events + 1, words))

evWriteFirstEvent(words) ==
  /\ WithinBounds
  /\ ~a.wroteFirstEvent
  /\ Write([a EXCEPT !.first = <<Event(FirstEvent, words)>>],
           Event(FirstEvent, words))

\* A failed flush goes unnoticed.  A pipe gets its last block now.
evClose ==
  LET s == evFlush([h |-> a, d |-> disk, ok |-> TRUE])
  IN  /\ Opened
      /\ disk' = IF a.rw = "pipe"
                 THEN [s.d EXCEPT ![Pipe] = Append(Content(@), EmptyLast(a.blknum))]
                 ELSE Synced(s.h, s.d)
      /\ a' = Closed
      /\ UNCHANGED <<opens, ioctls, events, log, old, limit, broken>>

\* The program dies.  What the stream holds has been written up to some place,
\* but not to one inside the first header (external: the C library writes
\* whole blocks of its own, each larger than a header).
Crash ==
  /\ Opened
  /\ \E n \in {0} \cup EV_HDSIZ .. Words(a.pending) :
       /\ \/ n \in {0, Words(a.pending) - 1}
          \/ \E i \in 1 .. Len(a.pending) : n = Ends(a.pending)[i]
       /\ disk' = Synced([a EXCEPT !.pending = Cut(@, n)], disk)
  /\ a' = Closed
  /\ broken' = broken \cup {NameOf(a)}
  /\ UNCHANGED <<opens, ioctls, events, log, old, limit>>

Next ==
  \/ \E splitting \in BOOLEAN : evOpen_w("file", splitting)
  \/ evOpen_w("pipe", FALSE)
  \/ evOpen_a
  \/ \E n \in Targets : evIoctl_B(n)
  \/ \E n \in Buffers : evIoctl_W(n)
  \/ \E n \in EventMaxima : evIoctl_N(n)
  \/ \E n \in Splits : evIoctl_S(n)
  \/ \E n \in DictSizes : evWriteDictionary(n)
  \/ \E n \in EventSizes : evWrite(n)
  \/ \E n \in FirstSizes : evWriteFirstEvent(n)
  \/ evClose
  \/ Crash

Spec == Init /\ [][Next]_vars

-----------------------------------------------------------------------------
\* The handle's size counts are what its buffer says, and fit it: the words to
\* be flushed are those in memory with the last empty header (without it while
\* a first header is unused).
TypeOK ==
  /\ opens \in 0 .. MaxOpens /\ ioctls \in 0 .. MaxIoctls /\ events \in 0 .. MaxEvents
  /\ broken \subseteq Names
  /\ \A n \in Names : disk[n] = Absent \/ \A i \in 1 .. Len(disk[n]) :
                       disk[n][i].kind \in {"head", "event", "torn"}
  /\ Opened =>
       /\ a.rw \in {"file", "pipe"} /\ a.append \in 0 .. 2
       /\ a.cur \in 1 .. Len(a.buf) /\ a.buf[a.cur].kind = "head"
       /\ a.buf[a.cur].size = a.blksiz
       /\ a.wordsToBuf = Words(a.buf) + (IF Len(a.buf) = 1 \/ a.buf[1].last
                                         THEN 0 ELSE EV_HDSIZ)
       /\ a.wordsToBuf <= a.bufSize /\ a.bufSize <= a.bufRealSize
       /\ NameOf(a) \in Names

\* A file that no handle is writing gives the reader exactly the events that
\* evWrite accepted for it, in their order, a split file those of the common
\* block first; after a crash of its writer it gives the first of them, or
\* what it held before.  (Not what was written behind an unused header, and
\* not what was meant for a file a splitting handle found to exist.)
ReadsBack ==
  \A n \in Names :
    \/ Opened /\ n = NameOf(a)
    \/ LET got == evRead(Content(disk[n]))
       IN  IF n \in broken THEN got = old[n] \/ IsPrefix(got, log[n])
           ELSE got = log[n]

\* The counts in the block headers agree with the blocks: random access to a
\* finished file finds the events that sequential reading finds.
RandomAccessAgrees ==
  \A n \in Names :
    \/ disk[n] = Absent \/ n \in broken
    \/ Opened /\ n = NameOf(a)
    \/ disk[n] = <<>>
    \/ generatePointerTable(disk[n]) = evRead(disk[n])

\* An event evWrite wrote, not the common block's dictionary or first event.
IsWritten(x) == x.kind = "event" /\ x.id > 0

\* "The algorithm used to split is only accurate to within +1 block header"
\* (evIoctl): a split file is longer than that only if it holds one event
\* besides the common block.
SplitWithinLimit ==
  \A n \in Names :
    \/ limit[n] = 0 \/ disk[n] = Absent
    \/ Words(disk[n]) <= limit[n] + EV_HDSIZ
    \/ \A i, j \in 1 .. Len(disk[n]) :
         IsWritten(disk[n][i]) /\ IsWritten(disk[n][j]) => i = j

\* What can be read of a file is never taken away: appending, flushing over
\* the last header, closing and crashing only add events.  The exception is
\* the file that a handle opened with "w" is about to create anew.
OnlyGrows ==
  [][\A n \in Names :
       \/ IsPrefix(evRead(Content(disk[n])), evRead(Content(disk'[n])))
       \/ Opened /\ a.rw = "file" /\ ~a.splitting /\ ~a.file /\ n = NameOf(a)]_vars
=============================================================================
