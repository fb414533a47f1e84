------------------------------ MODULE BinCoder ------------------------------
(***************************************************************************)
(* The arithmetic coder: the two-rate probability model of a context, and  *)
(* the encoder and the decoder as functions on their states.               *)
(*   context  [s0, s1, r0, r1]: the two estimates and their rates          *)
(*   encoder  [low, range, bufferedByte, numBuffered, bitsLeft, fifo, ok]  *)
(*   decoder  [range, value, bitsNeeded, fifo, idx, ok]                    *)
(* fifo holds bytes; ok is FALSE once a CHECK of the code has failed.      *)
(***************************************************************************)
EXTENDS Integers, Sequences
-----------------------------------------------------------------------------
(* BinProbModel_Std.  PROB_BITS = 15; the masks keep 10 and 14 bits.       *)

Mask0(x) == x - (x % 32)
Mask1(x) == x - (x % 2)

WindowRates(log2WindowSize) ==
  LET r0 == 2 + ((log2WindowSize \div 4) % 4)
  IN [r0 |-> r0, r1 |-> 3 + r0 + (log2WindowSize % 4)]

InitModel(qp, initId, log2WindowSize) ==
  LET slope == (initId \div 8) - 4
      offset == (initId % 8) * 18 + 1
      inistate == ((slope * (qp - 16)) \div 2) + offset
      clipped == IF inistate < 1 THEN 1 ELSE IF inistate > 127 THEN 127 ELSE inistate
      rates == WindowRates(log2WindowSize)
  IN [s0 |-> Mask0(clipped * 256), s1 |-> Mask1(clipped * 256), r0 |-> rates.r0, r1 |-> rates.r1]

Estimate0(x, rate, bin) == x - Mask0(x \div 2^rate) + bin * Mask0(32767 \div 2^rate)

Estimate1(x, rate, bin) == x - Mask1(x \div 2^rate) + bin * Mask1(32767 \div 2^rate)

UpdateModel(m, bin) ==
  [s0 |-> Estimate0(m.s0, m.r0, bin), s1 |-> Estimate1(m.s1, m.r1, bin), r0 |-> m.r0, r1 |-> m.r1]

State(m) == (m.s0 + m.s1) \div 256
Mps(m) == State(m) \div 128

\* The width of the less probable symbol's interval.
LPS(m, range) ==
  LET q == IF State(m) >= 128 THEN 255 - State(m) ELSE State(m)
  IN ((q \div 4) * (range \div 32)) \div 2 + 4

RenormTable32 == <<6, 5, 4, 4, 3, 3, 3, 3, 2, 2, 2, 2, 2, 2, 2, 2,
                   1, 1, 1, 1, 1, 1, 1, 1, 1, 1, 1, 1, 1, 1, 1, 1>>

RenormBitsLPS(lps) == RenormTable32[(lps \div 8) + 1]
-----------------------------------------------------------------------------
(* BinEncoderBase and TBinEncoder.                                         *)

StartEncoder(fifo) ==
  [low |-> 0, range |-> 510, bufferedByte |-> 255, numBuffered |-> 0, bitsLeft |-> 23,
   fifo |-> fifo, ok |-> TRUE]

\* OutputBitstream::write of whole bytes: first, and then n times byte.
WriteBytes(e, first, n, byte) ==
  [e EXCEPT !.fifo = @ \o <<first>> \o [i \in 1 .. n |-> byte], !.ok = @ /\ first <= 255]

\* Mutant: a 0xff byte is not kept back.
WriteOut_NoHold(e) ==
  LET lead == e.low \div 2^(24 - e.bitsLeft)
      f == [e EXCEPT !.bitsLeft = @ + 8, !.low = @ % 2^(24 - e.bitsLeft)]
      carry == lead \div 256
  IN IF e.numBuffered > 0
     THEN [WriteBytes(f, f.bufferedByte + carry, f.numBuffered - 1, (255 + carry) % 256)
             EXCEPT !.bufferedByte = lead % 256, !.numBuffered = 1]
     ELSE [f EXCEPT !.numBuffered = 1, !.bufferedByte = lead]

\* Mutant: the carry stops at the last byte kept back.
WriteOut_CarryOnce(e) ==
  LET lead == e.low \div 2^(24 - e.bitsLeft)
      f == [e EXCEPT !.bitsLeft = @ + 8, !.low = @ % 2^(24 - e.bitsLeft)]
  IN IF lead = 255 THEN [f EXCEPT !.numBuffered = @ + 1]
     ELSE IF e.numBuffered > 0
     THEN [WriteBytes(f, f.bufferedByte + lead \div 256, f.numBuffered - 1, 255)
             EXCEPT !.bufferedByte = lead % 256, !.numBuffered = 1]
     ELSE [f EXCEPT !.numBuffered = 1, !.bufferedByte = lead]

\* The byte that leaves low is kept back, and so is every 0xff after it, until
\* a carry can no longer reach it.
WriteOut(e) ==
  LET lead == e.low \div 2^(24 - e.bitsLeft)
      f == [e EXCEPT !.bitsLeft = @ + 8, !.low = @ % 2^(24 - e.bitsLeft)]
      carry == lead \div 256
  IN IF lead = 255 THEN [f EXCEPT !.numBuffered = @ + 1]
     ELSE IF e.numBuffered > 0
     THEN [WriteBytes(f, f.bufferedByte + carry, f.numBuffered - 1, (255 + carry) % 256)
             EXCEPT !.bufferedByte = lead % 256, !.numBuffered = 1]
     ELSE [f EXCEPT !.numBuffered = 1, !.bufferedByte = lead]

TestAndWriteOut(e) == IF e.bitsLeft < 12 THEN WriteOut(e) ELSE e

\* low grows by n bits and then by add.
Shift(e, n, add, range) ==
  TestAndWriteOut([e EXCEPT !.low = @ * 2^n + add, !.range = range, !.bitsLeft = @ - n])

EncodeBin(e, m, bin) ==
  LET lps == LPS(m, e.range)
      mpsRange == e.range - lps
      n == RenormBitsLPS(lps)
  IN IF bin # Mps(m) THEN Shift([e EXCEPT !.low = @ + mpsRange], n, 0, lps * 2^n)
     ELSE IF mpsRange < 256 THEN Shift(e, 1, 0, mpsRange * 2)
     ELSE [e EXCEPT !.range = mpsRange]

\* At most eight bins at once, with any range or with range 256.
PutBins(e, bins, n) == Shift(e, n, e.range * bins, e.range)

EncodeBinEP(e, bin) == PutBins(e, bin, 1)

\* encodeBinsEP and encodeAlignedBinsEP, for up to 16 bins.
EncodeBinsEP(e, bins, n) ==
  IF n <= 8 THEN PutBins(e, bins, n)
  ELSE PutBins(PutBins(e, bins \div 2^(n - 8), 8), bins % 2^(n - 8), n - 8)

EncodeBinTrm(e, bin) ==
  LET range == e.range - 2
  IN IF bin = 1 THEN Shift([e EXCEPT !.low = @ + range], 7, 0, 256)
     ELSE IF range >= 256 THEN [e EXCEPT !.range = range]
     ELSE Shift(e, 1, 0, range * 2)

Align(e) == [e EXCEPT !.range = 256]

\* Mutant: a whole byte of alignment when the bits end on a byte boundary.
AlignedTail_Extra(v, n) ==
  IF n <= 6 THEN <<(v * 2 + 1) * 2^(7 - n)>>
  ELSE LET w == (v * 2 + 1) * 2^(15 - n) IN <<w \div 256, w % 256>>

\* n bits, then writeByteAlignment: a 1 and zeros up to the next byte.
AlignedTail(v, n) ==
  IF n <= 7 THEN <<(v * 2 + 1) * 2^(7 - n)>>
  ELSE LET w == (v * 2 + 1) * 2^(15 - n) IN <<w \div 256, w % 256>>

\* finish() and the writeByteAlignment that follows it everywhere.
FinishEncoder(e) ==
  LET carry == e.low \div 2^(32 - e.bitsLeft) > 0
      f == IF carry THEN WriteBytes(e, e.bufferedByte + 1, e.numBuffered - 1, 0)
           ELSE IF e.numBuffered > 0 THEN WriteBytes(e, e.bufferedByte, e.numBuffered - 1, 255)
           ELSE e
      low == IF carry THEN e.low - 2^(32 - e.bitsLeft) ELSE e.low
  IN [f EXCEPT !.low = low,
               !.fifo = @ \o AlignedTail(low \div 256, 24 - e.bitsLeft),
               !.ok = @ /\ low \div 256 < 2^(24 - e.bitsLeft)]

\* end_of_slice.
EndSubstream(e) == FinishEncoder(EncodeBinTrm(e, 1))
-----------------------------------------------------------------------------
(* BinDecoderBase and TBinDecoder.  An operation gives the state after it, *)
(* with the bins it returns in bin.                                        *)

\* readByte throws at the end of the bytes.
PeekByte(d) == IF d.idx < Len(d.fifo) THEN d.fifo[d.idx + 1] ELSE 0

Consume(d) == [d EXCEPT !.idx = @ + 1, !.ok = @ /\ d.idx < Len(d.fifo)]

StartDecoder(fifo) ==
  LET d == [range |-> 510, value |-> 0, bitsNeeded |-> -8, fifo |-> fifo, idx |-> 0, ok |-> TRUE,
            bin |-> 0]
  IN [Consume(Consume(d)) EXCEPT !.value = PeekByte(d) * 256 + PeekByte(Consume(d))]

\* value moves up by n bits, and a byte is read when eight are missing.
Refill(d, n) ==
  LET needed == d.bitsNeeded + n IN
  IF needed < 0 THEN [d EXCEPT !.value = @ * 2^n, !.bitsNeeded = needed]
  ELSE [Consume(d) EXCEPT !.value = @ * 2^n + PeekByte(d) * 2^needed, !.bitsNeeded = needed - 8]

DecodeBin(d, m) ==
  LET lps == LPS(m, d.range)
      range == d.range - lps
      n == RenormBitsLPS(lps)
  IN IF d.value < range * 128
     THEN IF range < 256 THEN [Refill(d, 1) EXCEPT !.range = range * 2, !.bin = Mps(m)]
          ELSE [d EXCEPT !.range = range, !.bin = Mps(m)]
     ELSE [Refill([d EXCEPT !.value = @ - range * 128], n)
             EXCEPT !.range = lps * 2^n, !.bin = 1 - Mps(m)]

\* n bins by repeated comparison with the halves of the range.
TakeBins(d, n) ==
  LET r == Refill(d, n)
      q == r.value \div (d.range * 128)
      bins == IF q < 2^n THEN q ELSE 2^n - 1
  IN [r EXCEPT !.value = @ - bins * d.range * 128, !.bin = bins]

\* With range 256 the bins are the bits of value.
TakeAlignedBins(d, n) ==
  [Refill([d EXCEPT !.value = @ % 2^(15 - n)], n) EXCEPT !.bin = (d.value \div 2^(15 - n)) % 2^n]

TakeUpTo8(d, n) == IF d.range = 256 THEN TakeAlignedBins(d, n) ELSE TakeBins(d, n)

DecodeBinEP(d) == TakeBins(d, 1)

\* decodeBinsEP and decodeAlignedBinsEP.
DecodeBinsEP(d, n) ==
  IF n <= 8 THEN TakeUpTo8(d, n)
  ELSE LET h == TakeUpTo8(d, 8)
           t == TakeUpTo8(h, n - 8)
       IN [t EXCEPT !.bin = h.bin * 2^(n - 8) + t.bin]

DecodeBinTrm(d) ==
  LET range == d.range - 2 IN
  IF d.value >= range * 128 THEN [d EXCEPT !.range = range, !.bin = 1]
  ELSE IF range < 256 THEN [Refill(d, 1) EXCEPT !.range = range * 2, !.bin = 0]
  ELSE [d EXCEPT !.range = range, !.bin = 0]

\* finish: the last byte read ends with the stop bit.
FinishDecoder(d) ==
  [d EXCEPT !.ok = @ /\ (d.fifo[d.idx] * 2^(8 + d.bitsNeeded)) % 256 = 128]

\* terminating_bit.
TerminatingBit(d) == LET t == DecodeBinTrm(d) IN IF t.bin = 1 THEN FinishDecoder(t) ELSE t
=============================================================================
