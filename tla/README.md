# EvioTool: a TLA+ model of the reader, the ET ring and the evio files

EvioTool reads physics events in the EVIO format from a file or from an ET
(Event Transfer) ring and parses them into a tree of banks and leafs. The HPS
experiment builds its readers, a trigger filter and test programs on it. This
directory holds TLA+ modules for that system, from the programs down to the event
lists of ET in shared memory and the blocks of a file, TLC runs on small
instances, and theorems checked by TLAPS for every value of the constants.

`PROJECT.json` says for every definition which lines it models (`map`), and lists
the runs, the mutants each property must catch, the findings, the hazards and the
theorems.

## The system

| Part | State it keeps | Operations | Hard about it | Module |
|---|---|---|---|---|
| Event source, `EvioTool/EvioTool.{h,cc}` | `fIsOpen`, `fEvioHandle`, `fReadFromEt`, `fEventId`, `fEtAttach`, the chunk (`fPEventBuffer`, `fNumRead`, `fCurrentChunk`), `fEventValid`, `fEvioBuf` | `Open`, `OpenEt`, `ReOpenEt`, `Close`, destructor, `NextNoParse`, `Next`, `EndEvent` | an error return between any two steps; ET dies between get and put; stale place in a chunk | `EvioToolSource` |
| ET as EvioTool meets it, `et-14.0-clon/et.s` | input and output list of a station, owner of each event, attachments, heartbeats | new, get, put, attach, detach, heart monitor, remote server | another process; client and system death; blocking and nonblocking stations | in `EvioToolSource`; its promise is `StationTraffic` |
| Event lists of ET, `et_readwrite.c` | `first`, `last`, `cnt`, `lasthigh`, the repair record and mutex of a list; `next`, `owner` of an event | read, write, dump, restore, repair | a process dies between two stores, holding the mutex | `EtLists` |
| Stations of ET, `et_station.c` | `next`, `prev`, `nextparallel`, `prevparallel`, `stat_tail` | create, insert, move, remove | pointers left over from an earlier place | `EtStations` |
| Ring of ET, `et_system.c`, `et_station.c` | lists of every station, what each conductor holds, attachments | conductor with its selection rules, attach, detach, new, get, put, dump | conductors run beside clients that leave and stations that come and go | `EtRing` |
| Reading loop, `EvioTool_Test` | none of its own | open, `Next` until an error | what a loop can rely on | `EvioToolLoop` |
| Bank tree, `EvioTool/Bank.{h,cc}`, `Leaf.{h,cc}` | banks, leafs with data, `name_index`, `this_tag`, `this_num` | `AddLeaf`, `AddThisLeaf`, `AddBank`, `RemoveBank`, `Clear`, `FindBank`, `FindLeaf`, `StoreLocation` | wildcard nums, first match wins, erasing | `BankTree` |
| Parser, `EvioTool.cc` | the recursion of `ParseBank` | `ParseEvioBuff`, `ParseBank`, `ContainerNodeHandler`, `AddOrFillLeaf` | staying on header boundaries; adding to the tree that is being searched | `EvioParser`, `EvioEvent` |
| FADC data, `EvioTool/FADCdata.*` | samples of a channel | unpacking, `ComputeMode7*` | cursor arithmetic, loop progress | `EcalBank` (`ComputeMode7fast`) |
| `HPSEvioReader` | data of the banks, the configuration | `Open`, `Next`, `Close` | going on after a failed `Next` | `HPSEvioReader` |
| HPS banks (Ecal, SVT, TS, VTP, headers) | decoded hits, clusters, trigger words | `CallBack`, `Clear`, `Parse`, `FindGTPClusters` | data of an event surviving into the next; neighbours at the edges | `HPSEvioReader`, `EcalBank` |
| `TriggerConfig` | settings of slots and channels | `Parse_raw_data`, `InitDAQMaps` | which of several lines wins | `TriggerConfig` |
| Trigger filter and test programs | files, output file | open, read, select, copy | events that cannot be read; stale trigger bits | `HPSEvioReader` |
| evio library, `evio-5.1/src/libsrc/evio.c` | a buffer of blocks, sizes and counts, the file | `evOpen`, `evWrite`, `evWriteDictionary`, `evWriteFirstEvent`, `evIoctl`, `evClose`, reading | block, buffer and file limits; appending; a crash | `EvioFile`; by results in `EvioToolSource` |
| `et_evio_blaster`, `et_evio_test_consumer` | chunk of events, file position | fill and put; get and put | end of file in the middle of a chunk | not modelled |
| `et-16.1`, Java, macros | | | not built into the program | not modelled |

How they interact: a program books banks and leafs in an `EvioTool` object, which
is itself a bank; `Next` calls `NextNoParse` (get an event from a file, or from a
chunk of events taken from ET), clears the tree, parses the event into it, calls
`CallBack` of each leaf and bank, and calls `EndEvent`, which puts a chunk back on
the ring with its last event. ET is another process that shares memory with a
local client or talks to a remote one over a socket. EvioTool itself has one
thread.

What makes each part correct: the source gives every event to the caller once and
back to the ring once; the station loses and duplicates nothing whatever clients
do; the loop lets the ring turn; the parser reads only headers as headers and
puts each datum into the leaf booked for it; the tree's names lead to its leafs.
ET keeps every event in one place and brings it back to GrandCentral, whoever
crashes; an evio file gives back what was written into it; the HPS code finds the
pulses and clusters there are and shows a program the data of this event only.

## Modules

* `EvioToolSource`: one EvioTool object and the station it reads. A *fill* is one
  trip of an ET event through the ring. `NextNoParse` and `Next` are split where
  they touch ET (`PreEnd`, `ReadFromChunk` / `GetChunk` / `GetRemote` / `GetFails`
  / `ReadFile`, `FinishNext`), so the actions of ET (`Produce`, `EtDies`,
  `EtRestarts`, `ConnectionDrops`, `ReapClient`) fall between them. Everything
  else a call does is one action. Event contents are three kinds: good, wrong
  magic number, and at most ten words. Statuses are kept as far as a caller tells
  them apart. `seen`, `dup`, `putFailed`, `skipped`, `passed` and `lost` are
  history. The ring is seen from one serial station: what happens to an event
  after the station is `passed`.
* `StationTraffic`: the abstract specification: what the ring may rely on.
* `EvioToolRefinement`: the mapping from `EvioToolSource` to it.
* `EvioToolLoop`: `EvioTool_Test`'s main, and a client that reconnects with
  `IsETAlive`, `Close` and `ReOpenEt`, both composed with `EvioToolSource`.
* `BankTree`: banks and leafs numbered in the order they are made; deleted ones
  keep their number. Names are pairs of a base and the number of `+` that
  `StoreLocation` appended; formatting is left out. `AddLeaf` gives the leaf the name
  `StoreLocation` returns; `AddThisLeaf` and `Add_Leaf`, in which the HPS banks are
  booked, leave the leaf its own.
* `EvioEvent`: an event as a function from the offsets of headers to their
  fields, and what makes it well formed. Data words are left out.
* `EvioParser`: booking between events, `Next` from `Clear` on, and the recursion
  of `ParseBank` as a stack of frames. `ParseLeaf` is `AddOrFillLeaf` with its
  specialisations; a datum records where it came from, how many bytes are copied
  and the crate FADC data would get. `dest`, `dirty` and `orphans` are history. Filling a
  leaf booked with an incompatible type is undefined in C++; the model stops there
  (`phase = "corrupt"`). Inside composite data only the crate is modelled.
* `EtLists`: GrandCentral and one station, each with an input and an output list,
  as cells of shared memory. A call on a list is the sequence of its stores in
  program order, computed when the mutex is taken; a process may die before any of
  them. `et_station_detach` of a live client is a sequence of such calls
  (`DetachBegins`, `FlushRead`, `FlushWrite`, `Scan`, `DumpNew`, `GiveBack`,
  `Leaves`), one for each mutex it takes, and the client may die between any two
  stores of it as well; what only its local variables know then is `held`. The
  monitor repairs the lists (`et_repair_station`, `et_repair_gc`), restores the events
  of the dead process by the station's restore mode and detaches it. A list the repair
  does not look at stays locked (`SYS` in `lock`). `lost` and `torn` are history.
* `EtStations`: the linked lists of stations as records of pointers, with
  insertion and removal of single and parallel stations.
* `EtRing`: extends it with events, conductors and attachments. Lists are
  sequences here and all events have one priority: what a list does is the subject
  of `EtLists`. A conductor reads its output list, takes its transfer mutex and
  visits the groups downstream, one a step; a visit to a group is one step, so the
  lengths that the equal-cue rule reads without a mutex are those of that moment.
  `dealt`, `asked`, `gone`, `stuck` and `tangled` are history: what a round robin gave,
  the lists asked for, events lost with a removed station, events restored to the
  input list of an idle one, and whether a move left a pointer behind, after which the
  model stops. `et_station_remove` waits half a second at most for its conductor, which
  has then read its output list (`ConductorOutlives`) or is killed with events in it
  (`ConductorKilled`). A removed station's place is used again only when its old
  conductor rests.
* `EcalBank`, `TriggerConfig`: operators for what the ECAL code and the
  configuration compute; `HPSEvioReader`: the programs, `HPSEvioReader::Next` and
  the loops of `Parse` and `FindGTPClusters` step by step. `EvioTool::Next` is one
  step that delivers the data and runs the callbacks; that it does so is what
  `EvioToolSource` and `EvioParser` are about. `parsed`, `current` and `read` are
  history.
* `EvioFile`: a handle open for writing, the files it writes and what the two
  readers make of them. Lengths are in words. Calls on a handle exclude each other
  by its mutex, so each is one action. `log`, `old`, `limit` and `broken` are
  history. `evRead` stands for `evOpen` with `"r"` and `evReadNoCopy` until it
  fails, `generatePointerTable` for random access. Events per block and the split
  size are set before the first event, as the comments ask, and a handle appends
  only to a file with nothing behind its last block.
* `MC...`: instances for TLC. `MCEvioParser` lays out events from lists of banks,
  `MCEtRing` builds rings, `MCHPSEvioReader` the families of files.

The source and the parser meet in `Next`: `EvioToolSource` takes the parse as one
step that copies the data (`FinishNext`), `EvioParser` takes reading as the choice
of an event. They share no variable but the event buffer, which `EndEvent` gives
back only after the parse; `ValidBufferIsCurrent` is what the parser relies on.

## Runs

| Run | Checks | Expected |
|---|---|---|
| `source_api` | any sequence of calls, local and remote, ET and connection failing anywhere: `TypeOK`, `EveryFillAccountedFor`, `ChunkOwned`, `ValidBufferIsCurrent`, `RepeatedOnlyAfterFailedPut`, `NothingStranded`, `PutBackOnlyWhenRead`, and `OrderlyStation` (refinement of `StationTraffic`) | holds |
| `loop_live` | `EvioTool_Test` on good events: `RingKeepsTurning`, `QueuedIsDelivered`, `FileLoopEnds` | holds |
| `loop_bad_magic` | the same loop with wrong magic numbers: `RingKeepsTurning` | violated |
| `loop_dead_et` | the same loop beside an ET process that may die: `SuccessIsANewEvent` | violated |
| `loop_reconnect` | close and reopen after ET died: `ReopenedReaderGoesOn` | violated |
| `parser` | two events into whatever was booked, under eleven settings: `TypeOK`, `InSync`, `ParsedFaithfully`, `AutoAddKeepsAll`, `CrateIsEnclosingTag`, `CallBackSeesAll`, `NamesResolve` | holds |
| `parser_widths` | one leaf of each content type: `CopiesTheData` | violated |
| `et_lists` | processes dying between any two stores: `TypeOK`, `ListsIntact`, `LostOnlyInHand`, `MonitorWaitsForOneDeath`, `RepairIsClean` | holds |
| `et_ring` | rings that turn while clients and stations come and go: `EachInOnePlace`, `RoundRobinIsFair`, `ListsAsAsked`, `EqualCueLevels`, `ComesBack` | holds |
| `et_ring_late` | a round robin pair behind a nonblocking station: `EachInOnePlace` | violated |
| `hps` | pulses, clusters, settings, decoded data, filtering: `TypeOK`, `PulsesFound`, `ClustersComplete`, `LastLineWins`, `DecodedThisEvent`, `FilterCopies`, `NextReturns` | holds |
| `evio_file` | writing, appending, splitting and crashing: `TypeOK`, `ReadsBack`, `RandomAccessAgrees`, `SplitWithinLimit`, `OnlyGrows` | holds |

The five violated properties are statements of comments in the repository; the
findings in `PROJECT.json` quote them. In short: an event with a wrong magic
number at index 0 of a chunk keeps the whole chunk from being put back; after ET
died the last event is handed out again and again as a success; after `Close` and
`ReOpenEt` the old place in the chunk indexes an empty buffer; the number of elements
copied is wrong for every width but 32 bits; and a round robin group behind a station
that took some of the events delivers one of the others twice and one not at all.

### What the properties leave out, and why

Some properties that hold name exceptions, or say what the code does where one would
expect something else. Each is a disagreement between the code and a comment, quoted
in the findings, or a thing a reader may not expect:

* Names (`NamesResolve`). A second leaf that `AddThisLeaf` or `Add_Leaf` is given under
  a name of its bank is in the index as `name+` but keeps its name, so it cannot be
  found by it; `Bank.h:249` says the name is made unique. `Clear("Full")` leaves the
  index of the `EvioTool` object; `EvioTool.h:93` says the structure is gone completely.
* Deaths in ET. `LostOnlyInHand` names three deaths that lose events: in
  `et_init_event_`, which gives up the owner of new events for a moment; in
  `et_restore_events` and `et_restore` of a client that detaches, from where the used
  events are given up (`et_readwrite.c:2165`, `1863`) to where they are linked; and in
  `et_restore` on the output list of the station before (restore mode "redist"). That
  last list stays locked, and the monitor waits for it for ever if it has to write there
  itself (`MonitorWaitsForOneDeath`), with every lock of the system. A death in
  `et_restore` on an input list (mode "in") leaves it half linked, and the repair
  unlocks it as it is (`torn` in `ListsIntact`). The comments at
  `et_readwrite.c:2041` and `2121` promise that these events are recovered, the one at
  `et_system.c:924` that most crashes in a detach are taken care of.
* The ring. Restoring events to the input list at the last detach strands them, since
  the attachment is still counted (`stuck` in `ComesBack`; `et_readwrite.c:2273` says
  they go to the output list). They are lost when the station is removed, as are those
  in its output list when the conductor is stopped after half a second (`gone`).
  Moving a station to the end, or in or out of a parallel group, keeps pointers of its
  old place, and a failed move of a group's head cannot be undone: the lists are then
  wrong (`tangled` in `ListsAsAsked` and `ComesBack`).
* HPS. `npeak` is not the maximum `FADCdata.cc:141` calls it: with 1, two pulses are kept
  of a channel that starts above the threshold (`MostKept` in `PulsesFound`). With `NSA`
  below 4 the window is empty, the first crossing is found `npeak` times, and with
  `npeak` 0 the search never ends (`SearchForEver` in `NextReturns`). A hit above the
  seed threshold makes a cluster whether or not it is the largest of its neighbours,
  which `EcalBank.cpp:37` asks for; a larger neighbour, in time or not, only ends its
  walk (`ClustersComplete`). The walks around (-23,1) and (-22,-5) come to the seed
  itself, and the second leaves out (-23,-5) (`WalkedFrom`). Data of a VTP bank stay
  when an event has none (`DecodedThisEvent`). The bits of a five word trigger bank are
  not initialised, and the filter skips the rest of a file after an event it cannot read
  (`FilterCopies`). Settings for all slots in a trigger *file* do not reach slots
  that are not named in it, and the slot named last in one crate is still current
  in the next (`LastLineWins`).
* The reader. What an `EndEvent` out of turn steps over is excepted where chunks are
  concerned (`skipped`), and so are events with a wrong magic number in
  `NothingStranded`: `loop_bad_magic` is about those. The destructor releases the
  event buffer that `Close` has released (`proc = "double_free"`); no run is spent on
  it. When levels are collapsed, FADC data get the crate of the container parsed last.
* evio. A first event longer than the target block is written behind an unused
  header marked last, and no reader finds it or what follows in that buffer
  (`ReadsBack`). `evClose` does not look at the status of its flush, which matters
  when a splitting handle cannot make its next file. Random access to the file of
  a crashed program walks past its end (`RandomAccessAgrees`).

### Bounds, and why they are enough

* `MaxFill` fills, `RingSize` events: two fills against a chunk of two, a ring of
  three and two connections in `source_api`; four against a ring of three in the
  loops. So chunks are full and partial, a second chunk follows a first, a chunk
  outlives its connection, and the ring can run out of events.
* `MaxOpens` connections: two, since state left over from one is met by the next.
* `MaxDown`: calls start with `fCurrentChunk > -MaxDown`. Below -1 the code only
  asks whether it is negative.
* `FileLen`: one or two events; the file branch keeps no other state.
* The parser's five events have the same bank twice, a catch-all and a specific
  num, three levels, segments and tagsegments, an illegal content type, a bank
  longer than 16 bits can say, an empty container and a leaf at the top. Two banks
  (the tool and one more) and two leafs are booked at most, in every order and
  between the events; with `fAutoAdd` the parser adds more. `MaxEvents` is two:
  an event meets only what the one before it left.

* `et_lists`: three events, one of high priority, calls for up to two (`MaxNum`),
  a producer at GrandCentral and two processes at the station, one of which only
  attaches and detaches; one death at a time (`MaxDeaths`), and none of another process
  while one detaches, which would only meet the station mutex. Lists are empty, of one
  and of more events, and high priority events go before others. The model ends when a
  list is torn in `et_restore`: from there anything may be read. The view leaves out
  cells that are written before they are read again, and all of a list that stays
  locked for ever. Not modelled is a death after the attachment was taken off the
  station's count and before it was taken off the process.
* `et_ring`, `et_ring_late`: three stations, alone or in a pair, with a cue of one; three
  events that nobody's leaving disturbs, or two with up to two leavings; and rings with
  one event in which stations are created, moved or removed twice. Two events reach a
  pair together, one blocks at a full list, and one is under way when the ring changes. A
  second move meets what the first left. New events are asked for by any attachment in
  the rings of one event, by GrandCentral's in the others (`makers`).
* `hps`: one channel with every sequence of six samples of three heights, under nine
  settings, with full and empty windows and every kind of `npeak`; each of the 442
  crystals as a seed with hits on all sides, and three neighbours across the gap with
  pulses of six shapes; every sequence of three or four lines out of seven; files of
  three events out of eight, and two files for the filter. A search that never ends keeps
  the crossing it repeats once (`Again`).
* `evio_file`: headers have their eight words; a block holds two events and a
  buffer 48 words, so that events of 14 and 40 words fill a block, overfill it and
  force a flush; up to three events in up to three files, two handles one after
  the other, one setting. The file to append to may be one of another program,
  whose last block has data.

No symmetry is used: fills are ordered, tags and nums are compared with 0, the
events of ET have an order.

`source_api`, `et_ring`, `et_ring_late` and `hps` check deadlock (a program that has read its files
stays in `Exit`). `et_lists` and `evio_file` do not: processes may all be gone, and
the bounds of the writer are reached. The loops may stop: the program
ends, or a sleeping get waits for a producer that made its last fill. The parser
stops after `MaxEvents`.

### Fairness

`LoopSpec`: weak fairness of the reading steps and of the loop: the
program is one thread that does nothing else. Of `Produce`: a producer goes on as
long as there is a free event, which is what "the ring blocks" is about. Of
`ReapClient`: the heart monitor is a thread of ET that runs all the time. Nothing
is assumed of ET dying or restarting.

`FairSpec` of `EtRing`: weak fairness of each conductor, a thread that waits only
for events and for mutexes others release; of `Serve`, a client loop that gets
events when it has none and puts back what it holds, as `EvioTool_Test` and
`et_evio_test_consumer` do; and of the end of a removal, which is a timeout. Nothing is
assumed of producers, of leaving, or of changes to the ring.

`FairSpec` of `HPSEvioReader`: weak fairness of `Next`, one thread that waits for
nothing.

## Proofs

What is assumed of the constants is named in the module that declares them and
evaluated by TLC on every run:

* `SourceAssumption`, `ParserAssumption`: types, and that events are well formed.
  There is no bound on chunk size, ring size, connections, depth or length of events.
* `SizesAssumption`, `ForeignAssumption` (`EvioFile`): sizes and limits are natural
  numbers, events are not empty, a default block has room for its header, and the
  file of another program is a sequence of items.
* `SetupsAssumption`, `EventsAssumption` (`HPSEvioReader`): the DAQ map gives each
  channel a crystal of its own and names crates 1 and 2, settings are lines, files are
  sequences of places, and what may be at a place has the fields its kind needs. The
  trigger bank of a parsed event has five or seven words, or is not there, and the first frame of
  an SVT bank is not empty.

The theorems and the argument of each:

* `FiniteInduction`: the library's induction theorems take an operator, which the
  provers cannot instantiate. Here induction up to `n`, induction down from `n`, and
  what a recursive function on `0..n` is are stated with *sets* and *functions*: a
  proof gives the set of numbers for which its claim holds. All loops below rest on it.
* `EvioToolSourceProofs`: `TypeCorrect` (`TypeOK`) and `Accounted`
  (`EveryFillAccountedFor`). The latter is inductive only together with the order
  of the input list (`InOrder`): without it a fill could be queued twice.
* `EvioToolReaderProofs`: `Inductive`, and from it `ChunkIsOwned`,
  `BufferIsCurrent`, `RepeatsAreRefused`, `NoneStranded` and the action property
  `PutBackIsRead`. `ReaderInv` adds to the properties what ties the place in the
  chunk to the buffer: events taken are not queued, events ahead of the place were
  not handed out and differ, events behind it were dealt with, a place left over
  from an older buffer is empty, and past the first `EndEvent` an event is valid
  only if its put was refused.
  `Implements`: `Spec => OrderlyStation`, by the places of fills being exclusive and
  each action moving a set of them.
* `EvioParserProofs`: `ParserTypeCorrect`, `StaysInSync` and `NamesLeadToLeafs`. The
  inductive part of the first two is `StackInv`: each frame stands on a child, or at
  the end, of the container the frame below has come to. For `NamesResolve` it is
  `NameInv`: a bank has one entry for a name and one for the name of each of its leafs,
  and an entry that is not one of the `orphans` of `Clear("Full")` has the place of the
  first leaf of that name, counted among the leafs of the bank; bookings and automatic
  additions only add behind.
* `EvioParserFaithProofs`: `DataAreWhereTheyBelong` (`ParsedFaithfully`),
  `NothingLeftOut` and `CallBacksAreLast`. The invariant says how far the parser
  has come: containers before the current offset are routed, those after are not
  (`RoutedTo`), and the same for data (`FilledTo`). The heart is that what
  `FindBank` or `FindLeaf` found before stays found when banks or leafs are added
  (`FindBankKept`, `FindLeafKept`), because additions come last and the first
  match wins. `CratesAreRight`: a bank is made after the one it is in
  (`BankOrder`), so the banks of open containers increase and entering one
  overwrites `this_tag` of no other.
* `EvioFileProofs`: `TypeCorrect` (`TypeOK` of `EvioFile`). `TypeOK` bounds what is
  buffered by the buffer; that holds only because the counters `wordsToBuf` and
  `blkSize` are the lengths of what is in the buffer and in its last block, and
  because `resetBuffer` and `expandBuffer` come before an event that would not fit.
  `FileInv` says so of every handle (`HandleOK`), with what a handle that has not
  written yet still promises (`Unused`), and each action of the library keeps it.
* `EvioFileSplitProofs`: `FilesSplitWithinLimit` (`SplitWithinLimit`). The property
  speaks of a file only; that it stays true depends on what the handle has not written
  yet, which is in three places: the buffer, the stream behind `fwrite` (`pending`)
  and the file. `SplitInv` follows the events through all three. A splitting handle is
  `Flowing`: the file as it will be when the stream and the buffer are written out
  (`Reach`) is within the limit and one header, or holds one event of those counted
  over the three places (`Total`). That is kept because `wordsToFile` is never less
  than the end of the stream; because an event that passes the limit goes without
  a split only when nothing but the common block is before it, and then `Total` is 0
  (`StaysWithin`, `FlowOn`);
  and because what overwrites the last header of a file adds no event that was not in
  `pending` (`SyncedTidy`). A last header is empty (`Tidy`), so overwriting it
  loses nothing and a crash that cuts `pending` short leaves a file no longer and with
  no more events than the whole. A handle that does not split has put no
  event into a file with a limit (`Untouched`); once it does, the file has none. Most of the length is in `WriteFlowing`, the
  flush, split, growth and common block of one `evWriteImpl`, and in `CloseFlowing`.
* `HPSEvioReaderProofs`:
  `SettingsAreTheLast` (`LastLineWins`). `LineInv` says what the parser knows after
  `k` lines: the crate and slot it is in are those the lines before name, the
  settings for all slots are the last ones for all slots, and a slot that is there has
  the last value about it. `ConfInv` carries that through the run: after one parse the
  settings are what that parse made of the empty ones.
  `FilterIsRight` (`FilterCopies`). `FilterInv`: the output is the wanted events among
  those looked at, in order (`Copies`); while `Next` has returned and the event is
  not yet looked at, that is all but the last one.
  `PulsesAreFound` (`PulsesFound`). `Found` is the invariant of the loop of
  `ComputeMode7fast`: all crossings before its index are kept, or in the window of one
  that is, or behind as many as are kept at most, and there is room for another one as
  long as it goes on. It is false when the window is empty and `npeak` is not 1, since
  the same crossing is then found again: for that case `SameFound` says that only the
  first crossing has been found, as often as the loop went on. `Known` holds them
  together over a run.

Only model-checked, and why:

* Liveness (`loop_live`, `ComesBack`, `NextReturns`):
  fairness and ENABLED are out of the prover's reach.
* `EtLists`: its invariants speak of lists as reachable cells in the middle of
  a sequence of stores cut short by a death; `MonitorWaitsForOneDeath` is a property
  of one death at a time (`MaxDeaths` = 1), not of every value of the constants.
* `EtRing` and `EtStations`: `EachInOnePlace` is not true of every value of the
  constants (`et_ring_late` refutes it), so a theorem would need the rings
  described without enumerating them. `EqualCueLevels` rests on the order of the
  input lists by length, which the model takes from the library's sort of a set by a
  given relation; that a sorted sequence exists is an induction over the set.
* `EvioFile`: `ReadsBack` and `RandomAccessAgrees` compare two recursive readers with
  the history over any sequence of blocks, and `OnlyGrows` compares a reader before
  and after a step: a proof would be an induction over the file for each of them.
* `HPSEvioReader`: `TypeOK` depends on both settings of the clusters being in the
  configuration, without which the code reads an element that is not there;
  `ClustersComplete` is about the 442 crystals one by one, which is what TLC is good
  at; `DecodedThisEvent` compares folds over words with what the event was made from.

## Not modelled

Of EvioTool: `ET_MODIFY` (no program of the repository sets it in `fETWaitMode`);
debug output and printing; `RemoveLeaf<T>`, which does not compile where it is
instantiated; `AddLeaf` by type number of a type it refuses, whose name stays stored; copy
constructors of banks; `parseDictionary`, which is empty; unpacking of FADC words.

Of ET: the network server and the remote calls (`et_server.c`, `et_remote.c`,
`etCommonNetwork.c`) but for those `EvioTool` makes, because each marshals the
arguments of a local call that is modelled and adds no state of its own but the
connection, whose loss is in `EvioToolSource`; event groups, bridges, temporary
events, statistics; `et_conductorSerial`, which is not used; the repair of the
tables of processes, attachments and stations; the heart monitor's mistakes (it may
take a live process for dead when the slot it reuses has an old heartbeat,
`et_system.c:875`); a conductor that misses the signal to end,
and one that wakes up after its station was created anew.

Of evio: writing to and reading from buffers and sockets, which go through the same
code as a pipe; byte swapping; the text of dictionaries; versions before 4; `evOpen`
with `"a"` on a file that is not there.

Of the HPS code: an SVT bank without words, or whose first frame is empty; fields inside
a word, headers, printing and plotting, and
`Set2016Data` and `Set2019Data`, which book banks before the first event.

Most of the repository's lines are outside: `et-16.1` is a second copy of ET, and the
network code of both copies, the utilities of evio and ET, and the Java trees
are not part of what the program does with an event.

## Left open

* Proofs about the readers of `EvioFile` (`ReadsBack`, `RandomAccessAgrees`,
  `OnlyGrows`): what `evRead` makes of a file that was appended to, from what it
  made of it before. `SplitInv` shows that a file keeps its form.
* The part of `DecodedThisEvent` about the crystals that have hits, from `ScanInv`.
* A module for the remote calls of ET, if a property is found that the local
  ones do not have already.
