----------------------------- MODULE SliceData ------------------------------
(***************************************************************************)
(* One picture, from the encoder's decisions to the decoder's: compress    *)
(* decides the CTUs of every slice, encodeSlice writes them as substreams  *)
(* with the arithmetic coder, the slice becomes a NAL unit with the sizes  *)
(* of its substreams in the header, and decompressSlice reads it.          *)
(*   pic      the brick map                                                *)
(*   slices   the ranges [start, end) in brick scan, as compress finds them*)
(*   c        compress: the next CTU and the QP before it                  *)
(*   cus      the decisions, by raster address                             *)
(*   w        encodeSlice: slice, ctu, coder, ctx, sync, prevQP, subs      *)
(*   nals     the slices written: [head, offsets, subs, raw]               *)
(*   r        decompressSlice: slice, range, ctu, d, ctx, sync, prevQP,    *)
(*            subs, sub, ok                                                *)
(*   decoded  what was read, by raster address                             *)
(*   marks    the writer's and the reader's contexts before each CTU       *)
(***************************************************************************)
EXTENDS SliceSyntax, BrickMap, NalBytes, FiniteSets, TLC

CONSTANTS Layouts, CodedCtus, HeaderBytes, DataLengths

VARIABLES pic, slices, c, cus, w, nals, r, decoded, marks

vars == <<pic, slices, c, cus, w, nals, r, decoded, marks>>

NumCtus(p) == p.l.w * p.l.h
NONE == [none |-> TRUE]

BrickIdxBs(p, ts) == p.idxRs[p.bsToRs[ts]]
BrickOf(p, rs) == p.bricks[p.idxRs[rs] + 1]

\* A rectangular slice skips the CTUs of the scan outside its rectangle.
InSlice(p, s, ts) ==
  LET x(t) == p.bsToRs[t] % p.l.w
      y(t) == p.bsToRs[t] \div p.l.w
  IN p.l.rect => /\ x(ts) \in x(s.start) .. x(s.end - 1)
                 /\ y(ts) \in y(s.start) .. y(s.end - 1)

\* The next CTU of the slice at ts or after it; limit if there is none.
NextIn(p, s, ts, limit) ==
  LET later == {t \in ts .. limit - 1 : InSlice(p, s, t)}
  IN IF later = {} THEN limit ELSE CHOOSE t \in later : \A u \in later : t <= u

\* getCURestricted: a coded neighbour of the same slice and brick.
Restricted(p, coded, rs, nb) ==
  nb \in DOMAIN coded /\ p.idxRs[nb] = p.idxRs[rs] /\ coded[nb].slice = coded[rs].slice

LeftOf(p, rs) == IF rs % p.l.w = 0 THEN -1 ELSE rs - 1

CtxSkipFlag(p, coded, rs) ==
  LET Skipped(nb) == Restricted(p, coded, rs, nb) /\ coded[nb].skip
  IN (IF Skipped(LeftOf(p, rs)) THEN 1 ELSE 0) + (IF Skipped(rs - p.l.w) THEN 1 ELSE 0)

\* predictQP, for a unit that fills its CTU.
PredictQP(p, coded, rs, prevQP) ==
  IF rs % p.l.w = 0 /\ Restricted(p, coded, rs, rs - p.l.w) THEN coded[rs - p.l.w].qp ELSE prevQP

BrickStart(p, rs) == rs = FirstCtuRsAddr(p.l, BrickOf(p, rs))
RowStart(p, rs) == rs % p.l.w = BrickOf(p, rs).col /\ p.l.wpp
-----------------------------------------------------------------------------
(* EncGOP and compressSlice.                                               *)

\* calculateBoundingCtuTsAddrForSlice: the last CTU of the slice's last brick,
\* or of the picture.
Bounding(p, start) ==
  LET first == BrickIdxBs(p, start)
      named == {i \in DOMAIN p.l.corners : p.l.corners[i][1] = first}
      last == IF p.l.rect
              THEN IF named = {} THEN -1 ELSE p.l.corners[CHOOSE i \in named : \A j \in named : i <= j][2]
              ELSE first + p.l.tiles - 1
      ends == {t \in start .. NumCtus(p) - 1 : BrickIdxBs(p, t) = last}
  IN IF ends = {} THEN NumCtus(p) ELSE 1 + CHOOSE t \in ends : \A u \in ends : u <= t

\* A rectangular slice starts at its first brick, another where the last ended.
NextStart(p, n, end) ==
  IF p.l.rect
  THEN CHOOSE t \in 0 .. NumCtus(p) - 1 :
         /\ BrickIdxBs(p, t) = p.l.corners[n + 1][1]
         /\ \A u \in 0 .. t - 1 : BrickIdxBs(p, u) # p.l.corners[n + 1][1]
  ELSE end

NewSlice(p, start) == [start |-> start, end |-> Bounding(p, start)]

\* Mutant: a unit without residual keeps the QP it was tried with.
CodedQp_Tried(cu, pred) == cu.qp

\* A unit without residual has the predicted QP.
CodedQp(cu, pred) == IF cu.skip THEN pred ELSE cu.qp

CanCompress == c.ctu < slices[Len(slices)].end
Compressed == c.ctu = slices[Len(slices)].end /\ c.ctu = NumCtus(pic)

\* encodeCtus, one CTU.
CompressCtu(cu) ==
  /\ CanCompress
  /\ LET s == slices[Len(slices)]
         rs == pic.bsToRs[c.ctu]
         prev == IF BrickStart(pic, rs) \/ RowStart(pic, rs) THEN SliceQp ELSE c.prevQP
         here == [skip |-> cu.skip, qp |-> cu.qp, data |-> cu.data, slice |-> Len(slices) - 1]
         pred == PredictQP(pic, (rs :> here) @@ cus, rs, prev)
         qp == CodedQp(cu, pred)
     IN /\ cus' = (rs :> [here EXCEPT !.qp = qp]) @@ cus
        /\ c' = [ctu |-> NextIn(pic, s, c.ctu + 1, s.end), prevQP |-> qp]
  /\ UNCHANGED <<pic, slices, w, nals, r, decoded, marks>>

\* The slice is compressed and the picture goes on.
AllocateNewSlice ==
  /\ ~CanCompress /\ ~Compressed
  /\ LET start == NextStart(pic, Len(slices), c.ctu)
     IN slices' = Append(slices, NewSlice(pic, start)) /\ c' = [ctu |-> start, prevQP |-> SliceQp]
  /\ UNCHANGED <<pic, cus, w, nals, r, decoded, marks>>
-----------------------------------------------------------------------------
(* encodeSlice and the NAL unit of the slice.                              *)

CanWrite == Compressed /\ w.slice < Len(slices)
SliceCoded == w.ctu # -1 /\ w.ctu = slices[w.slice + 1].end

StartSlice ==
  /\ CanWrite /\ w.ctu = -1
  /\ w' = [w EXCEPT !.ctu = slices[w.slice + 1].start, !.coder = StartEncoder(<<>>), !.ctx = InitCtxModels,
                    !.prevQP = SliceQp, !.subs = <<>>]
  /\ UNCHANGED <<pic, slices, c, cus, nals, r, decoded, marks>>

\* The coder and the contexts a CTU starts with, in the encoder and in the
\* decoder.  At the start of a row of a wavefront the contexts are those after
\* the first CTU above, if that is in the same slice and brick.
CtuStart(p, coded, x, rs, first, restart) ==
  LET row == RowStart(p, rs) /\ ~BrickStart(p, rs)
      fresh == ~first /\ (BrickStart(p, rs) \/ row)
  IN [coder |-> IF fresh THEN restart ELSE x.coder,
      ctx |-> IF row /\ Restricted(p, coded, rs, rs - p.l.w) THEN x.sync
              ELSE IF fresh THEN InitCtxModels ELSE x.ctx]

\* Mutant: the rows of a wavefront are not substreams of their own.
SubstreamEnds_Bricks(p, s, ts) ==
  ts + 1 = NumCtus(p) \/ BrickIdxBs(p, ts) # BrickIdxBs(p, ts + 1) \/ ts = s.end - 1

\* Does encodeSlice end the substream after the CTU?
SubstreamEnds(p, s, ts) ==
  \/ ts + 1 = NumCtus(p) \/ BrickIdxBs(p, ts) # BrickIdxBs(p, ts + 1)
  \/ p.l.wpp /\ (p.bsToRs[ts] + 1) % p.l.w = BrickOf(p, p.bsToRs[ts]).col
  \/ ts = s.end - 1

\* Mutant: the contexts are kept after the second CTU of a row.
StoredSync_Second(p, rs, old, ctx) == IF p.l.wpp /\ rs % p.l.w = BrickOf(p, rs).col + 1 THEN ctx ELSE old

\* The contexts after the first CTU of a row are kept for the next row.
StoredSync(p, rs, old, ctx) == IF RowStart(p, rs) THEN ctx ELSE old

EncodeCtu ==
  /\ CanWrite /\ w.ctu # -1 /\ ~SliceCoded
  /\ LET s == slices[w.slice + 1]
         rs == pic.bsToRs[w.ctu]
         at == CtuStart(pic, cus, w, rs, w.ctu = s.start, StartEncoder(<<>>))
         pred == PredictQP(pic, cus, rs, w.prevQP)
         z == WriteCtu([e |-> at.coder, ctx |-> at.ctx], cus[rs], CtxSkipFlag(pic, cus, rs), pred,
                       w.ctu = s.end - 1)
         ends == SubstreamEnds(pic, s, w.ctu)
     IN /\ w' = [w EXCEPT !.ctu = NextIn(pic, s, w.ctu + 1, s.end),
                          !.coder = IF ends THEN EndSubstream(z.e) ELSE z.e,
                          !.ctx = z.ctx,
                          !.sync = StoredSync(pic, rs, @, z.ctx),
                          !.prevQP = CodedQp(cus[rs], pred),
                          !.subs = IF ends THEN Append(@, EndSubstream(z.e).fifo) ELSE @]
        /\ marks' = [marks EXCEPT !.w = (rs :> at.ctx) @@ @]
  /\ UNCHANGED <<pic, slices, c, cus, nals, r, decoded>>

CountStep(acc, b) ==
  IF acc.zeros = 2 /\ b <= 3 THEN [zeros |-> IF b = 0 THEN 1 ELSE 0, cnt |-> acc.cnt + 1]
  ELSE [acc EXCEPT !.zeros = IF b = 0 THEN @ + 1 ELSE 0]

CountStartCodeEmulations(bytes) == FoldLeft(CountStep, [zeros |-> 0, cnt |-> 0], bytes).cnt

\* addSubstreamSize, for every substream but the last.
SubstreamSizes(subs) ==
  [i \in 1 .. Len(subs) - 1 |-> Len(subs[i]) + CountStartCodeEmulations(subs[i])]

HasEntryPoints(l) == NumTiles(l) > 1 \/ l.wpp

\* slice_address and num_bricks_in_slice_minus1, where they are written.
SliceHead(p, s, n, bytes) ==
  [address |-> IF p.l.rect THEN n ELSE IF Len(p.bricks) > 1 THEN BrickIdxBs(p, s.start) ELSE 0,
   minus1 |-> IF p.l.rect THEN 0 ELSE BrickIdxBs(p, s.end - 1) - BrickIdxBs(p, s.start),
   bytes |-> bytes]

\* codeSliceHeader, codeTilesWPPEntryPoint, xAttachSliceDataToNalUnit and write.
WriteSlice(bytes) ==
  /\ CanWrite /\ SliceCoded
  /\ nals' = Append(nals,
       [head |-> SliceHead(pic, slices[w.slice + 1], w.slice, bytes),
        offsets |-> IF HasEntryPoints(pic.l) THEN SubstreamSizes(w.subs) ELSE <<>>,
        subs |-> w.subs,
        raw |-> <<0, 1>> \o EscapePayload(bytes \o FlattenSeq(w.subs))])
  /\ w' = [w EXCEPT !.slice = @ + 1, !.ctu = -1]
  /\ UNCHANGED <<pic, slices, c, cus, r, decoded, marks>>
-----------------------------------------------------------------------------
(* The slice header in the decoder, and decompressSlice.                   *)

\* endOfSliceHeaderLocation, in bytes of the unit with its escapes.
HeaderEnd(locations, size) ==
  FoldLeft(LAMBDA end, loc : IF loc < end THEN end + 1 ELSE end, size, locations)

\* The sizes without the escapes that lie inside the substreams.
EntryPoints(offsets, locations, end) ==
  [i \in 1 .. Len(offsets) |->
     offsets[i] - Len(SelectSeq(locations,
       LAMBDA loc : loc >= end + Bd(offsets, i - 1) /\ loc < end + Bd(offsets, i)))]

\* extractSubstream, one after the other; the last takes what is left.
ExtractSubstreams(data, sizes) ==
  [i \in 1 .. Len(sizes) + 1 |->
     LET from == Bd(sizes, i - 1)
         n == IF i > Len(sizes) THEN Len(data) - from ELSE sizes[i]
     IN [j \in 1 .. n |-> IF from + j <= Len(data) THEN data[from + j] ELSE 0]]

\* The first CTU of the first brick, and the CTU after the last of the last.
SliceRange(p, head) ==
  LET bricks == IF p.l.rect THEN p.slices[head.address + 1] ELSE <<head.address, head.address + head.minus1>>
      Of(b) == {t \in 0 .. NumCtus(p) - 1 : BrickIdxBs(p, t) = b}
  IN [start |-> CHOOSE t \in Of(bricks[1]) : \A u \in Of(bricks[1]) : t <= u,
      end |-> 1 + CHOOSE t \in Of(bricks[2]) : \A u \in Of(bricks[2]) : u <= t]

\* The bit stream is decoded when it is complete.
CanRead == w.slice = Len(slices) /\ r.ok /\ r.slice < Len(nals)

ReadSlice ==
  /\ CanRead /\ r.ctu = -1
  /\ LET nal == nals[r.slice + 1]
         head == 2 + Len(nal.head.bytes)
         range == SliceRange(pic, nal.head)
     IN \E u \in {convertPayloadToRBSP(nal.raw)} :
        \E subs \in {ExtractSubstreams(SubSeq(u.bytes, head + 1, Len(u.bytes)),
                       EntryPoints(nal.offsets, u.locations, HeaderEnd(u.locations, head)))} :
          r' = [r EXCEPT !.range = range, !.ctu = NextIn(pic, range, range.start, NumCtus(pic)),
                         !.coder = StartDecoder(subs[1]), !.ctx = InitCtxModels, !.prevQP = SliceQp,
                         !.subs = subs, !.sub = 1, !.ok = u.ok /\ StartDecoder(subs[1]).ok]
  /\ UNCHANGED <<pic, slices, c, cus, w, nals, decoded, marks>>

\* The unit, z having its data, and the state after end_of_ctu.
ReadEndOfCtu(z, skip, qp) ==
  LET t == TerminatingBit(z.d)
  IN [d |-> t, ctx |-> z.ctx, last |-> t.bin = 1, skip |-> skip, qp |-> qp, data |-> z.val]

ReadUnitData(q) == ReadEndOfCtu(ReadData(q, DataLengths), FALSE, q.val)

ReadUnit(f, predQP) ==
  IF f.val = 1 THEN ReadEndOfCtu([f EXCEPT !.val = <<>>], TRUE, predQP) ELSE ReadUnitData(ReadQpDelta(f, predQP))

\* coding_tree_unit in the reader.
ReadCtu(x, ctxId, predQP) == ReadUnit(GetBin(x, 1 + ctxId), predQP)

\* Does decompressSlice expect the end of a substream after the CTU?
SubstreamExpected(p, rs) ==
  LET b == BrickOf(p, rs)
  IN (rs % p.l.w) + 1 = b.col + b.w /\ ((rs \div p.l.w) + 1 = b.row + b.h \/ p.l.wpp)

\* The last CTU of the slice may be followed by zero bytes, that of another
\* substream by none.
NothingLeft(d, zeros) == \A i \in d.idx + 1 .. Len(d.fifo) : zeros /\ d.fifo[i] = 0

DecodeCtu ==
  /\ CanRead /\ r.ctu # -1
  /\ LET rs == pic.bsToRs[r.ctu]
         here == (rs :> [slice |-> r.slice]) @@ decoded
         prev == IF BrickStart(pic, rs) \/ RowStart(pic, rs) THEN SliceQp ELSE r.prevQP
         next == NextIn(pic, r.range, r.ctu + 1, NumCtus(pic))
     IN \E at \in {CtuStart(pic, here, r, rs, r.ctu = r.range.start, StartDecoder(r.subs[r.sub]))} :
        \E z \in {ReadCtu([d |-> at.coder, ctx |-> at.ctx, val |-> 0], CtxSkipFlag(pic, here, rs),
                          PredictQP(pic, here, rs, prev))} :
        LET more == ~z.last /\ SubstreamExpected(pic, rs)
            t == IF more THEN TerminatingBit(z.d) ELSE z.d
        IN
        /\ decoded' = (rs :> [skip |-> z.skip, qp |-> z.qp, data |-> z.data, slice |-> r.slice,
                              times |-> IF rs \in DOMAIN decoded THEN 2 ELSE 1]) @@ decoded
        /\ marks' = [marks EXCEPT !.r = (rs :> at.ctx) @@ @]
        /\ r' = [r EXCEPT !.ctu = IF z.last THEN -1 ELSE next,
                          !.slice = IF z.last THEN @ + 1 ELSE @,
                          !.coder = t, !.ctx = z.ctx,
                          !.sync = IF RowStart(pic, rs) THEN z.ctx ELSE @,
                          !.prevQP = z.qp,
                          !.sub = IF more THEN @ + 1 ELSE @,
                          !.ok = /\ t.ok
                                 /\ z.last => NothingLeft(t, TRUE)
                                 /\ more => t.bin = 1 /\ NothingLeft(t, FALSE) /\ r.sub < Len(r.subs)
                                 /\ z.last \/ next < NumCtus(pic)]
  /\ UNCHANGED <<pic, slices, c, cus, w, nals>>
-----------------------------------------------------------------------------
Init ==
  /\ pic \in {CreateBrickMap(l) : l \in Layouts}
  /\ slices = <<NewSlice(pic, 0)>> /\ c = [ctu |-> 0, prevQP |-> SliceQp] /\ cus = <<>>
  /\ w = [slice |-> 0, ctu |-> -1, coder |-> NONE, ctx |-> <<>>, sync |-> <<>>, prevQP |-> SliceQp, subs |-> <<>>]
  /\ nals = <<>>
  /\ r = [slice |-> 0, range |-> NONE, ctu |-> -1, coder |-> NONE, ctx |-> <<>>, sync |-> <<>>,
          prevQP |-> SliceQp, subs |-> <<>>, sub |-> 0, ok |-> TRUE]
  /\ decoded = <<>> /\ marks = [w |-> <<>>, r |-> <<>>]

Ctus == CodedCtus \cup {[skip |-> TRUE, qp |-> SliceQp, data |-> <<>>]}

Next ==
  \/ \E cu \in Ctus : CompressCtu(cu)
  \/ AllocateNewSlice \/ StartSlice \/ EncodeCtu
  \/ \E bytes \in HeaderBytes : WriteSlice(bytes)
  \/ ReadSlice \/ DecodeCtu

\* Both programs run until they have nothing left to do: weak fairness of Next,
\* with the guards of the actions for its enabledness.
Fairness == <>[]~(~Compressed \/ CanWrite \/ CanRead) \/ []<><<Next>>_vars

Spec == Init /\ [][Next]_vars /\ Fairness
-----------------------------------------------------------------------------
(* Properties.                                                             *)

All == 0 .. NumCtus(pic) - 1

\* Every CTU is read once, in its slice, with the unit that was written. Before
\* it the reader's contexts are the ones the writer had, through the resets at
\* bricks and the copies at the rows of a wavefront.
CtusReadBack ==
  /\ \A rs \in DOMAIN marks.r : marks.r[rs] = marks.w[rs]
  /\ \A rs \in DOMAIN decoded :
       /\ decoded[rs].times = 1 /\ decoded[rs].slice = cus[rs].slice
       /\ decoded[rs].skip = cus[rs].skip /\ decoded[rs].data = cus[rs].data

OneBrick(s) == BrickIdxBs(pic, s.start) = BrickIdxBs(pic, s.end - 1)

\* In a slice of one brick the decoder finds the QP the encoder used: the
\* predictions of compress, of the writer and of the reader agree.
QpReadBackInBrick ==
  \A rs \in DOMAIN decoded : OneBrick(slices[cus[rs].slice + 1]) => decoded[rs].qp = cus[rs].qp

\* "Predict QP on start of quantization group": the writer's prediction, from
\* which it takes the difference, and the reader's, to which it adds it, give
\* every unit the QP it was coded with.
QpReadBack == \A rs \in DOMAIN decoded : decoded[rs].qp = cus[rs].qp

\* In the end every CTU of the picture is decoded and every slice is read to its
\* end, from the substreams the header's sizes cut out: no CHECK of
\* decompressSlice, of the bin decoder or of readByte fails on the way.
PictureDecoded == <>(DOMAIN decoded = All /\ r.slice = Len(slices) /\ r.ok)
=============================================================================
