# Verification of the RTMPlayer client and the VTM codec's control

This directory holds TLA+ modules for the parts of this repository whose
correctness depends on order and on two sides agreeing: the RTMPlayer client
(`source/App/RTMPlayer`), its streams of NAL units, the control part of the VTM
7.1 decoder (`source/App/DecoderApp`, `source/Lib/DecoderLib`,
`source/Lib/CommonLib`), and the entropy coding layer of encoder and decoder:
arithmetic coder, slices and substreams, coefficients, coding trees.
`PROJECT.json` lists the runs, the mutants, the source lines of every definition,
the hazards and the theorems. All paths below are under `src/source/`.

To repeat a run: `tlc -config Decoder_streams.cfg MCDecoder`; to repeat a proof:
`tlapm NaluReceiveProofs.tla`.

## 1. The system

### Parts, state and operations

| Part | State | Operations | Module |
|---|---|---|---|
| Encoder thread, `main.cpp:400-481` | place in the file, packet number | scan a byte, send a packet, send Fin | `NalStream`, `SendQueue` |
| Output queue and `WriteCallback`, `main.cpp:279-327` | priority queue, EV_WRITE | push, enable, top, pop, write, failed write | `SendQueue` |
| Dispatcher and thread pool, `main.cpp:279-309` | bytes in flight, work items, running callbacks | `ReadCallback`, start of a callback | `NaluReceive`, `PlayerSession` |
| `MyWorkCallback`, `main.cpp:120-277` | `g_umHashToSession`, `g_umHashToWin` | one per packet type, cut at every map operation | `PlayerSession` |
| UI thread, `WndProc` and the dialogs, `main.cpp:750-1090` | message queue, modal dialogs, menu, encoder handle | one per message and per dialog button, `WM_DESTROY` | `PlayerSession` |
| Window's packet queue and `get_next_nalu`, `DecApp.cpp:57-115` | priority queue, lost flag, frame under construction | top, pop, combine, Fin, lost | `NaluReceive` |
| Byte stream of NAL units, `NALwrite`, `AnnexBwrite`, `NALread`, `AnnexBread` | file, read positions | write, scan, read, extract | `NalBytes`, `NalStream` |
| Decoder loop, `DecApp.cpp:141-1107` | lookahead buffer, flags, last POC shown | look ahead, take, finish, write, flush | `Decoder` |
| `DecLib` up to the activation of a picture | POC and random access state, picture header, access unit | one per NAL unit type, cut where it may fail | `Decoder` |
| Parameter sets, `Slice.h:2590-2832`, `DecLib.cpp:907-1284` | maps of SPSs, PPSs and APSs, changed and active ids, the last active set | store, activate, check, delete | `ParamSets`, `Decoder` |
| Decoded picture buffer, `DecLib.cpp:498-573`, `Slice.cpp` | list of pictures with their flags and parameter sets | get a buffer, mark, find references, sort, bump, flush | `DecPicBuffer` |
| Arithmetic coder, `BinEncoder`, `BinDecoder`, `Contexts` | registers, bytes kept back, context models | one per kind of bin, start, finish | `BinCoder`, `BinStream` |
| Slices, `EncSlice`, `DecSlice`, `BrickMap` | place in the picture, coder, contexts, QP predictor | decide, write and read a CTU, close a slice | `BrickMap`, `SliceSyntax`, `SliceData` |
| Coefficients, `residual_coding` on both sides | subblock, quantiser state, bins left | write and read the last position and a subblock | `CoeffContext`, `ResidualCoding` |
| Coding tree, `QTBTPartitioner`, `coding_tree` on both sides, `EncCu` | partitioner stack, trees, units | split, code or read a node, close a CTU | `Partitioner`, `CodingTree` |

`PROJECT.json` also lists the parts that are not modelled (section 6).

### How they interact

A peer's encoder thread reads a coded file, cuts it at the start codes and sends
each NAL unit in packets of `MAX_BODY_SIZE` bytes (`NalStream`, `SendQueue`). A
relay server, which is not in the repository, forwards packets in order. The
receiving client submits one pool work item per packet it reads. Callbacks for
sessions change the maps and post messages to the UI thread (`PlayerSession`);
callbacks for data push into the window's queue (`NaluReceive`), from which the
window's decoder thread builds NAL units and decodes them (`Decoder`). Inside a
slice NAL unit, `SliceData` has the path from the encoder's decisions to the
decoder's.

The modules meet at these interfaces:

- `PacketStream` is what `SendQueue` promises (a refinement TLC checks, run
  `send_stream`) and what `NaluReceive` assumes of its sender.
- The units `NaluReceive` accepts are the `stream` of `Decoder`: an empty one is the
  type `EMPTY`, a missing one a stream with a unit removed.
- `sent` of `NalStream` holds the frames whose sizes `NaluReceive` takes as a
  constant. `NalBytes`, the escapes, is shared by `NalStream` and `SliceData`.
- `BinChannel` is what entropy coding promises. `BinStream` implements it with the
  code's registers (run `bin_coder`); `ResidualCoding` and `CodingTree` are models
  over it, in which a bin is its value and its context. `SliceData` uses the
  registers themselves.
- `Decoder` is composed of `DecPicBuffer` and `ParamSets`.

### What makes it hard

Unlocked `top()`/`pop()` pairs on two queues, a pool that reorders packets, maps
shared without locks, object addresses in posted messages, message loops inside
message handlers, reads that cut packets, a connection that is lost at any
moment, lookahead on a queue that is being filled, buffers taken before others
are freed, parameter sets replaced while pictures point to them, POCs that wrap,
streams that are joined in the middle, carries that run through bytes not yet
written, and two programs that must derive the same contexts, orders and limits
from different knowledge. "hazards" in `PROJECT.json` names the lines.

## 2. Modules

- `NaluReceive` — packets of one stream to NAL units. One action per turn of the
  sender's packet loop, per call of `ReadCallback`, per pool callback, and per step
  of `get_next_nalu`; `top()` and `pop()` are separate steps because each takes the
  mutex on its own. Bytes arrive in halves of packets: a read of half a packet is
  thrown away, and from then on what is read starts in the middle of a packet. Its
  header is then whatever the bodies hold at that place; nothing in the code checks
  it. The model takes streams whose bodies hold no number of an `RtmpType` there, an
  assumption about the peer's data that the code does not enforce. `raced` records
  that a `pop()` removed another packet than `top()` returned; it is not in the code.
- `PlayerSession` — each `count()`, `operator[]`, `insert()`, `erase()` and `delete` of
  the two maps is one step, for callbacks and for the UI thread alike: a callback
  and the handler of `WM_NEW_CONNECTION` carry their place (`at`) and the pointer
  they have read. A key is absent, holds the peer's object, or holds the null
  pointer that `operator[]` inserts when the key has gone since the `count()`. A
  pointer is alive while its object is in `sessAlive` or `winAlive`. A failed
  assertion or a use of a null or dead object sets `fault` and stops the model, as
  the debug build stops. Dialogs form a stack because `DialogBoxParam` runs a
  message loop of its own; the tail of `WM_NEW_CONNECTION` waits below it. Reads
  are of whole packets here.
- `SendQueue` — the heap is a set of entries and its front, because packets of equal
  time stamp and `seq` may come out in any order. After a `pop()` that removed
  another packet than `top()` returned, `WriteCallback` goes on: the packet removed is
  lost, and the entry of the one that was written and deleted stays in the queue,
  dangling; to write it is a `fault`, to compare it gives any result. `safe`, the
  packets not pushed between a `top()` and its `pop()`, and `raced` are for the
  properties. `pending` is libevent's promise to call `WriteCallback` after an enable
  (external).
- `PacketStream` — the abstract sender.
- `NalBytes`, `NalStream` — bytes are numbers; escaping and unescaping are folds over
  the payload. A file is complete before the player opens it.
- `ParamSets` — operators on maps of parameter sets. An object has the bytes the
  code tells apart, and the number of the NAL unit that brought it, which tells
  objects from their replacements, so that `Deleted` can say whether a pointer
  dangles.
- `DecPicBuffer` — operators on the list of pictures, no variables. `id` (which
  coded picture a buffer holds) and the `id` of a reference are for the properties.
- `Decoder` — one action per part of an iteration of `decode()`. `failed` stands
  for a CHECK, a THROW, or the use of a null or deleted object, `endless` for the loop
  over the prefix SEIs at `DecLib.cpp:1293`, which never pops one. What is read from
  a deleted PPS when a buffer is used again (`DecLib.cpp:557`) is either value.
  `disturbed` tells the streams of `Disturbed`, which a loss has changed and whose
  window may close, from the conforming ones of `Streams`.
- `BinCoder` — encoder, decoder and context models as functions on their
  registers, to the bit. `BinStream` makes any sequence of calls of the one and
  repeats them on the other; `BinChannel` is the abstract channel.
- `BrickMap`, `SliceSyntax`, `SliceData` — a picture of CTUs through compression,
  `encodeSlice`, the slice NAL unit with its entry points, and `decompressSlice`.
- `CoeffContext`, `ResidualCoding` — one block of coefficients through
  `residual_coding` and `residual_coding_subblock` (also the transform skip ones).
- `Partitioner`, `CodingTree` — the partitioner's stack as the code keeps it; the
  search takes every choice it may make, the writer repeats the walk from what the
  coding units keep, the reader grows the trees from the bins.
- `*Proofs` — the proofs. `MC*` — the instances.

### Abstractions

- Decoder: one layer, frames only; all SPSs agree in picture size, buffer size,
  reordering and POC bits; the slices of a picture name the same set of APSs; DPS and VPS
  ids are 0 and only ALF APSs are there; both reference lists name the same pictures
  in the same order and all entries are active; no STSA pictures, no recon file, no
  `xUpdateRasInit`. A NAL unit that was popped when the connection is lost counts
  as not received, which is what both callers do with it. The calls that stream
  into a window are those of the `_DEBUG` build.
- `NaluReceive`: a frame's time stamp is its number. Frames are sent
  `msleep(g_timebase)` apart, so the stamps of two frames differ; `SendQueue` has
  the clock itself.
- `SliceData`: of a CTU there is one unit with its skip flag, its QP difference and
  bypass data; SAO, ALF and split flags are left out. Slices are of whole bricks, in
  scan order or rectangular: the slice modes `FIXED_NUMBER_OF_CTU`,
  `FIXED_NUMBER_OF_BYTES` (with the end of a slice at its byte limit,
  `EncSlice.cpp:1728-1740`) and `SINGLE_BRICK_PER_SLICE` and the adjustments they make
  (`EncSlice.cpp:2052-2089`) are left out.
- `ResidualCoding`: the flags before it (transform skip, explicit RDPCM), the value
  returned for joint CbCr, and the 32-wide zero-out of SBT and MTS are left out. The
  choice of the quantiser when signs are hidden is an input.
- `CodingTree`: the slice is the picture, in one brick; delta QP is on; skipped
  units, IBC, palette and the groups of the chroma QP offset are left out; picture
  sizes are multiples of 8.

## 3. Runs

| Run | Instance | States | Shows |
|---|---|---|---|
| `receive_pool` | 2+2+1 packets, 3 threads, cut reads, loss at any time | 196980 | no NAL unit mixes frames; whole unless raced; the thread stops |
| `session_pool` | 1 peer, 3 threads, 1 data packet, exit | 139891 | pointers live until the peer is lost; menu, maps and messages agree; posted work is done |
| `session_race` | 2 peers, 2 threads | violated | two callbacks at a time fail the asserts of `MyWorkCallback` |
| `send_stream` | 2+1 packets, 1 UI packet, 1 failure | 739380 | refinement of `PacketStream` until a race; what a race needs and loses; the queue drains |
| `nal_bytes` | payloads of up to 4 bytes, 2 zero words, 3 units | 257034 | escaping, splitting, extraction and reading agree |
| `decoder_streams` | every coding of 4 pictures; long-term references; every open GOP with 2 leading pictures; every change of parameter sets between 4 pictures and at a new sequence; one unit lost, empty or reserved, `-s` 0 or 1, close at any time | 541447 | references, current and living parameter sets, order, bumping, buffer bound, random access; with losses an exact look-ahead and an end |
| `decoder_lost` | the same losses; a stream joined at a CRA picture that names a picture of POC 0 | violated | a missing reference is not replaced |
| `bin_coder` | 4 calls, 1 context | 101490 | refinement of `BinChannel`; carries; the stop bit |
| `slice_data` | 8 layouts, 3 to 6 CTUs, 3 kinds of unit, 2 headers | 71195 | every CTU is read back with the writer's contexts, and its QP inside a brick |
| `slice_qp` | two tiles of two CTUs in one slice, units with a QP and no data | violated | at a tile boundary writer and reader predict different QPs |
| `residual` | all levels of two subblocks; larger blocks with few levels | 162494 | contexts, levels and bin budget agree |
| `partition` | every tree of small pictures, one tree and two, CTUs of 32 and 128 | 112237 | trees tile, are read back, and their lists, groups and limits hold |

### Why the bounds are enough

- Two packets in flight of the same frame, plus one of the next, are what a
  reordering needs; three threads let all of them run at once. The last packet is
  short in one frame and full in another, which is the edge of `NUM_PACK`. A cut
  anywhere inside a packet has the effect of a cut in its middle.
- One peer makes every race between two callbacks of that peer and the UI thread;
  the maps keep peers apart by key, so a second one matters only for the stack of
  dialogs; one peer that connects twice has that too. With three threads a data
  packet, a connection and a loss of the peer are handled at once.
- One packet of the UI thread, made before the stream or during it, is enough for a
  race: its time stamp may be below that of the packet `top()` returned. The two
  packets of a frame and Fin then meet a queue with a dangling entry.
- A payload of four bytes holds an escape followed by another, an escape at the
  end, and a run of zeros broken by an escape. One value of each kind of byte
  that the code tells apart is used: 0, 1, 3, 4.
- The POC has three low bits and starts at 6, so that it wraps inside the GOP and
  steps back over the wrap. Buffer 4 and reorder 2 leave streams that fill both.
- A reference picture is made long-term at each of four pictures and dropped at each
  later one. In the open GOPs of `decoder_streams` the CRA picture has POC 8, whose
  low bits are 0, so a decoder that joins there finds negative POCs for what is
  missing, which `xDecodeSlice` does not look at; `decoder_lost` has the case where
  such a POC is 0 (its low bits are 4).
- Three pictures after an IDR picture each bring nothing, a PPS, an APS before their
  slices, or one or both of the two APSs in use after them. The next sequence
  starts with an IDR picture, or with a CRA picture after an end of sequence, and
  brings nothing, or a new SPS (same id or another, same CTU size or another) with
  PPSs that are new or unchanged. That is enough for a set to be replaced while in
  use, while kept by `m_lastActiveParameterSet`, and in a buffer that is used again.
- The bin strings of `bin_coder` are chosen so that four calls fill the register
  several times, carry through bytes kept back, and end at every fill of it.
- `slice_data` has a boundary of each kind: rows of a wavefront, tiles, bricks of a
  tile, slices in scan order, rectangular slices that interleave in scan order.
  The QPs -12 and 30 with slice QP 62 make differences that wrap in both
  directions; the headers have escapes before and at the end.
- Two chroma subblocks have every level that the bin budget and the templates
  tell apart; escapes go to both ends of the range.
- The pictures of `partition` end inside a coding tree unit in each direction and
  have every split type; CTUs of 128 are those where luma and chroma alternate.

Deadlock is checked for the decoder, where `Terminated` is the only stop, and for
`partition`, where a block with no split allowed would be one. The others may stop
(`CHECK_DEADLOCK FALSE`): a user who does nothing, a stream that was sent, a
failed assertion, the end of a file or of a block ends them.

### Fairness

Weak fairness on a thread's own steps: the operating system schedules it.

- `NaluReceive`: the pool and the decoder thread. None on `ReadCallback`, which is
  called only when bytes arrive; `DecoderStops` therefore speaks of a Fin that was
  read.
- `PlayerSession`: the pool's callbacks and, while it is not stopped, the UI
  thread's message loop. None on reads, users, peers or the server.
- `SendQueue`: clock, encoder thread, the UI thread's push and enable once it has
  made a packet or is starting the encoder, and `WriteCallback` while its promise is
  pending. `StreamSent` excludes behaviours with a failed write, after which nothing
  calls `WriteCallback` again, and those with a race.
- `Decoder`, `BinStream`, `SliceData`: the one sequential program goes on while it
  can. Nothing is assumed of `Close`.

### Properties and mutants

A property that another implies on the way is not checked again. Rebuilt POCs
show in `RefsFound`, `OutputInOrder` and `NoFailure`; slice ranges, brick scan and
entry points in `CtusReadBack` and `PictureDecoded`; a stuck block in the deadlock
check; types in the evaluation and, for four modules, in a proof.

Each property of each passing run has a mutant in the module, an operator named
after the definition it replaces, that a run must catch: a dropped guard, a
missing reset, an off-by-one or a swapped order in that definition's code.

## 4. Proofs

All theorems hold for every value of the constants allowed by the named
assumptions (`NaluReceiveAssumption`, `PlayerSessionAssumption`,
`DpbAssumption`, `DecoderAssumption` and those of `SendQueue` and `BinStream`):
sizes positive, sets finite, streams sequences of NAL units.

- `NaluReceiveProofs!TypeCorrect`: `TypeOK` is inductive. The point is that the
  queue is not empty at the `pop()`: only the decoder thread removes packets.
- `NaluReceiveProofs!NaluIntegrity` (`OneFramePerNalu`) by `FrameInv`: the frame
  under construction is zeroed or belongs to one frame.
- `NaluReceiveProofs!NaluComplete` (`CompleteUnlessRaced`). The length test
  compares a byte count, so completeness needs that no packet is counted twice.
  `OrderInv` orders what is on its way by (time stamp, seq) and so makes packets
  distinct; `ConsumedInv` says that what was copied is not on its way any more;
  `CountInv` says that `totalSize` is the number of bytes of the chunks copied.
  A full count is then a full set of chunks (`BytesFull`). Each of the three needs
  the ones before it.
- `PlayerSessionProofs!PointersStayLive` (`PointersLive`) by `SessionInv`: as long as
  no LostSession of a peer is on its way, its session is in the map from the first
  assertion that found it; whatever a callback has found (`CallbackOk`), a message
  or a handler carries therefore stays live, for any number of pool threads.
  `TypeOK` is proved inductive on the way.
- `SendQueueProofs!TypeCorrect` by `TypeInv`, that is `TypeOK` and `Held`: though
  `empty()`, `top()` and `pop()` are three calls, the last two never meet an empty
  queue, after a race either. `NothingLost` (`NoneLost`) by `IndexInv`, every packet
  that is anywhere has been pushed, so that none is pushed twice, and `LostInv`, while
  a `pop()` is due the front is what `top()` returned or was pushed since.
  `RaceTakesLatePacket` (`RaceNeedsLate`) by `LateInv`: until the UI thread sends a
  packet during the stream, the queue is a heap whose packets do not come after those
  yet to be pushed (`Ordered`), so no push changes its front while a `pop()` is due.
- `DecoderProofs!LookaheadExact` (`QueueExact`) by `QueueInv`: what was taken is no
  more than what was received, and the buffer is the stretch between.
- `DecoderProofs!PocRebuilt`: the POC computed from the low bits is the coded one
  if it lies within half the range, for any sign and any wrap. Which picture was
  the last of temporal layer 0 in the running decoder is model-checked only.
- `ParamSetsProofs!StoredIsCurrent`, `ActiveSurvives`, `LastActiveSurvives`: what
  `storePS` does to any map. The new bytes are found under their id and no other
  id changes; a set in use is not deleted by one store, and stays until another
  set in use is replaced.
- `BinStreamProofs!CarryAlwaysFits` (`CarryFits`) and `TypeCorrect` by `EncOK`, for
  any sequence of calls of any length: `low` stays below what the free bits of the
  register allow plus the range, and as long as bytes are kept back a carry fits
  the first of them. The bound is kept by each kind of bin and by `writeOut`.
- `PartitionerProofs!PartsTile`: the parts of a split cover a block once.
  `ExitUndoesSplit`: split, moves through the parts and exit restore stack and
  counters, given that what happened inside the parts did; this is the induction
  step for trees of any depth. `BorderStuckExactly`: a walk from a coding
  tree unit meets only blocks that fit, whatever the picture size and the limits, and
  such a block has neither a split nor the choice to stay whole exactly if it is a
  block of 128 samples that must be split in four, at the border or in separate
  trees, while the smallest quad-tree size is not below it. Neither encoder nor
  decoder refuses such limits.

Only model-checked: all liveness; everything about the picture list (sorting,
marking, bumping are folds, and what a fold computes needs induction over data);
escaping and unescaping, and the round trips of bins, slices, coefficients and
trees, for the same reason; the refinements of `PacketStream` and `BinChannel`;
`SetsCurrent` and `SetsAlive` of the running decoder; order of output and
references in the presence of losses.

## 5. Disagreements met while modelling

Three are runs with a finding:

- `slice_qp`: the writer (`EncSlice.cpp:1851`) sets the QP predictor at the start of a
  slice only, the search and the reader at each brick and wavefront row too, so with
  two tiles in a slice a unit's QP is misread.
- `session_race`: the work item's callback environment is NULL (`main.cpp:286`), so the
  pool limited to one thread at line 879 is not used. With two callbacks at once a
  BuildConnect overtakes the OnlineSessions packet that makes its peer known and fails
  the assertion at line 248; a LostSession can do the same to a NewSession and fail
  `atLeatDeleteOne` (line 233).
- `decoder_lost`: a missing reference leads to the null picture of the pilot slice
  (`DecLib.cpp:1538` and `1546`); the comment at 1529 says "detect lost reference
  picture and insert copy of earlier frame." It happens after a loss, and on joining
  at a CRA picture whose references have POCs that are not negative.

Four are exceptions that properties of passing runs state, and that TLC shows to be
needed:

- `Picture.cpp:981-990`: `finalInit` sets `cs->sps` only for a new coding structure.
  A buffer that is used again for a CRA picture after an end of sequence keeps the
  old SPS; `DecLib.cpp:1117` says "Update the PPS and SPS pointers with the ones of
  the picture." (`SetsCurrent`, `SetsAlive`)
- `Slice.h:2647` and `DecLib.cpp:1043`: a PPS that comes again unchanged is kept, with
  PreCalcValues of an SPS that may have been replaced (`SetsCurrent`).
- `Slice.h:2656`: `m_lastActiveParameterSet` keeps one set; two suffix APSs that
  replace two APSs in use delete one before the ALF runs (`SetsAlive`).
- `DecLib.cpp:1293`: the loop deletes the front SEI without popping it, so a reserved
  IRAP unit after a prefix SEI keeps the decoder there for good (`Terminates`).

The following have no run. TLC showed these on instances of the same modules:

- `main.cpp:287`: the pool reorders packets, so `get_next_nalu` returns another unit
  than the next one, or an empty one.
- `main.cpp:964`: Accept is sent before the window is in `g_umHashToWin`; data that
  comes at once finds no window and fails the assertion.
- `main.cpp:222`: a posted message keeps the address of a Session that LostSession
  deletes.
- `main.cpp:970/976`: a second connection of the same peer builds a window and its
  decoder thread before `assert( g_umHashToWin.count( s->hash ) == 0 )` fails.
- `main.cpp:1039` and `1045`, under the comments "stop thread pool" and "stop encoder
  thread": the pool closed is not the one in use, and closing a handle does not
  stop a thread. Callbacks and encoder go on while their objects are deleted.
- `main.cpp:299-305`: one packet is read per call, so packets that came together
  (Fin among them) wait for more data, and a short read is thrown away.
- `main.cpp:437-474`: the last NAL unit of the file is never sent (`SplitExact` says
  so).
- `DecApp.cpp:209`: the last picture is never shown without an end of sequence;
  `DecApp.h:89` says "flush all remaining decoded pictures to file".
- `DecLib.cpp:540`: the comment blames a faulty encoder or a dropped NAL for a full
  buffer; it also happens on conforming streams, because the buffer is taken
  before the new picture's marking. `BufferBound` is the true bound.
- `DecLib.cpp:1359`: while slices are skipped, `m_accessUnitNals` is not cleared, so
  the TemporalId CHECK compares different access units.
- `DecApp.cpp:772`: after an end of sequence `m_iPOCLastDisplay` is kept, so pictures
  of lower POC are not bumped until a flush.
- `DecLib.cpp:1454/1487`: the POC for no-output-of-prior-pictures is stored before
  its high bits are reset, so the CRA picture itself can be dropped.
- `Slice.cpp:1039-1045`: the RADL check compares with pictures of an earlier coded
  video sequence.
- `DecLib.cpp:2123`: `-s` counts slices, the manual (`doc/software-manual.tex:3497`)
  says frames.

These come from reading the code:

- `Slice.h:2681` looks an APS up by `(id << 3) + type`, `Slice.h:2805` stores it by
  `id` and 32 times the type: they agree for type and id 0 only.
- `DecLib.cpp:557`: `xGetNewPicBuffer` reads `cs->pcv` of a PPS that may be deleted.
- `VLCReader.cpp:614-632`: with uniform tiles and no brick splitting the number of
  tiles stays 0, so `slice_address` of raster slices is not read, though
  `VLCWriter.cpp:1828` writes it.
- `VLCWriter.cpp:395-405`: with one brick per slice the number of tiles is used for
  that of bricks; a negative `bottom_right_brick_idx_delta` is written without
  `abs`.
- `EncGOP.cpp:2902` and `3310`: the slice loops stop at the slice that ends with the
  picture's last CTU in scan order.
- Tiles with wavefronts: `isLastCTUinWPP` is never true in a tile narrower than the
  picture (high throughput profile only).
- `BitStream.cpp`: `pseudoRead` does not restore `m_numBitsRead`.
- `CABACReader.cpp:3909`: `decodeBinsEP(0) << 32` shifts by the width; the result is
  not used.
- `DecLib.cpp:2104`: filler data has no case and throws.
- `DecLib.cpp:2152`: the increment of `iPOCLastDisplay` is lost, the parameter of
  `xDecodeSlice` (line 1319) is passed by value.
- `NALread.cpp:173`: the test for VCL units looks at the reserved bit, so zero words
  are stripped from every unit. `StripZeros` does as the code does.

## 6. Not modelled

The modules stand for about 6% of the lines of `source/`. The rest is mostly not
control, and is left out for these reasons:

- Sample arithmetic: prediction, transform, quantisation, loop filters, resampling,
  and their SIMD variants. The state is blocks of samples, the code has no order
  or interleaving to explore, and small blocks are not the interesting ones.
- The encoder's search, rate control and rate-distortion costs: floating point.
  Where the search's outcome matters the models take every outcome
  (`CodingTree`, `SliceData`, `ResidualCoding`).
- The remaining syntax: parameter sets, headers and SEI field by field, and the
  syntax inside a coding unit. A translation of it is as long as the code; the
  contexts of the latter need motion and palette derivations.
- `EncGOP`/`EncLib` picture control: NAL unit types and references come from
  configuration tables; `Decoder` is checked with every conforming stream of
  small size instead.
- DPS, VPS, LMCS and scaling list parameter sets, several layers, fields.
- `parcat`, `StreamMergeApp`, `SEIRemovalApp`: stand-alone tools that rewrite files in
  one pass. The log thread: it shares no state with the rest
  (`Log.cpp:141` stops it without waiting for what is queued).
- Configuration, YUV files, drawing: I/O. libevent, the relay server and the
  operating system's pool are external, modelled from how the player uses them.
