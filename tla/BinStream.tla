----------------------------- MODULE BinStream ------------------------------
(***************************************************************************)
(* One substream: any sequence of calls of the arithmetic encoder with its *)
(* adaptive contexts, the end of the substream, and then the same calls of *)
(* the decoder on the bytes written.  Refines BinChannel.                  *)
(***************************************************************************)
EXTENDS BinCoder

CONSTANTS
  Ctxs,        \* the contexts
  InitModels,  \* what each of them may start as: a set of [s0, s1, r0, r1]
  BinStrings,  \* <<numBins, bins>> that encodeBinsEP is called with
  MaxCalls     \* bound on the calls in a substream

\* The windows are those setLog2WindowSize accepts; the estimates are below
\* one, and masked.
Estimates(unit) == {x \in Nat : x < 32768 /\ x % unit = 0}
Models == [s0 : Estimates(32), s1 : Estimates(2), r0 : 2 .. 5, r1 : 5 .. 9]

ASSUME BinStreamAssumption ==
  /\ InitModels \subseteq Models
  /\ \A s \in BinStrings : s[1] \in 1 .. 16 /\ s[2] \in Nat /\ s[2] < 2^s[1]
  /\ MaxCalls \in Nat

\* A call of the encoder, with its arguments: which operation, on which
\* context or with how many bins, and the bins.
Calls == ({"bin"} \X Ctxs \X {0, 1}) \cup ({"ep"} \X {1} \X {0, 1})
           \cup {<<"bins", s[1], s[2]>> : s \in BinStrings}
           \cup {<<"trm", 1, 0>>, <<"align", 0, 0>>}

VARIABLES
  calls,   \* the calls made
  enc,     \* BinEncoder
  ectx,    \* its contexts
  dec,     \* BinDecoder, or NoDecoder before the end of the substream
  dctx,    \* its contexts
  got,     \* the calls the decoder has repeated, with the bins it returned
  ended    \* the decoder has returned the terminating bit

vars == <<calls, enc, ectx, dec, dctx, got, ended>>

NoDecoder == [fifo |-> <<>>]

Init ==
  /\ calls = <<>> /\ got = <<>> /\ ended = FALSE
  /\ enc = StartEncoder(<<>>)
  /\ ectx \in [Ctxs -> InitModels] /\ dctx = ectx
  /\ dec = NoDecoder
-----------------------------------------------------------------------------
Open == dec = NoDecoder

Call(op, arg, bins) ==
  /\ Open /\ Len(calls) < MaxCalls
  /\ calls' = Append(calls, <<op, arg, bins>>)
  /\ UNCHANGED <<dec, dctx, got, ended>>

EncBin(c, bin) ==
  /\ Call("bin", c, bin)
  /\ enc' = EncodeBin(enc, ectx[c], bin)
  /\ ectx' = [ectx EXCEPT ![c] = UpdateModel(@, bin)]

EncBinEP(bin) == Call("ep", 1, bin) /\ enc' = EncodeBinEP(enc, bin) /\ UNCHANGED ectx

EncBinsEP(s) ==
  Call("bins", s[1], s[2]) /\ enc' = EncodeBinsEP(enc, s[2], s[1]) /\ UNCHANGED ectx

\* The terminating bin inside a substream is 0.
EncBinTrm == Call("trm", 1, 0) /\ enc' = EncodeBinTrm(enc, 0) /\ UNCHANGED ectx

EncAlign == Call("align", 0, 0) /\ enc' = Align(enc) /\ UNCHANGED ectx

\* end_of_slice; the decoder starts on the bytes, with the same contexts.
Finish ==
  /\ Open
  /\ enc' = EndSubstream(enc)
  /\ dec' = StartDecoder(enc'.fifo)
  /\ UNCHANGED <<calls, ectx, dctx, got, ended>>
-----------------------------------------------------------------------------
Reading(op) == ~Open /\ Len(got) < Len(calls) /\ calls[Len(got) + 1][1] = op

\* The argument of the call to repeat.
Arg == calls[Len(got) + 1][2]

Return(op, arg, d) ==
  /\ dec' = d /\ got' = Append(got, <<op, arg, d.bin>>)
  /\ UNCHANGED <<calls, enc, ectx, ended>>

DecBin ==
  /\ Reading("bin")
  /\ LET d == DecodeBin(dec, dctx[Arg]) IN
     Return("bin", Arg, d) /\ dctx' = [dctx EXCEPT ![Arg] = UpdateModel(@, d.bin)]

DecBinEP == Reading("ep") /\ Return("ep", 1, DecodeBinEP(dec)) /\ UNCHANGED dctx

DecBinsEP == Reading("bins") /\ Return("bins", Arg, DecodeBinsEP(dec, Arg)) /\ UNCHANGED dctx

DecBinTrm == Reading("trm") /\ Return("trm", 1, DecodeBinTrm(dec)) /\ UNCHANGED dctx

DecAlign ==
  Reading("align") /\ Return("align", 0, [Align(dec) EXCEPT !.bin = 0]) /\ UNCHANGED dctx

\* The terminating bit of the substream.
DecEnd ==
  /\ ~Open /\ Len(got) = Len(calls) /\ ~ended
  /\ dec' = TerminatingBit(dec) /\ ended' = TRUE
  /\ UNCHANGED <<calls, enc, ectx, dctx, got>>

Decode == DecBin \/ DecBinEP \/ DecBinsEP \/ DecBinTrm \/ DecAlign \/ DecEnd

Encode == \/ \E c \in Ctxs, bin \in {0, 1} : EncBin(c, bin)
          \/ \E bin \in {0, 1} : EncBinEP(bin)
          \/ \E s \in BinStrings : EncBinsEP(s)
          \/ EncBinTrm \/ EncAlign

Next == Encode \/ Finish \/ Decode

\* The decoder runs to the end of what it was given.
Spec == Init /\ [][Next]_vars /\ WF_vars(Decode)
-----------------------------------------------------------------------------
\* The types of the encoder's state: at least 12 bits of its word are free,
\* its range is 256 .. 510 and the estimates stay below one.
TypeOK ==
  /\ enc.bitsLeft \in 12 .. 23 /\ enc.range \in 256 .. 510
  /\ enc.low \in Nat /\ enc.bufferedByte \in 0 .. 255 /\ enc.numBuffered \in Nat
  /\ ectx \in [Ctxs -> Models]

\* BinEncoderBase::writeOut and finish write bytes: a carry out of low never
\* meets a byte kept back that is 0xff already, whatever calls were made, and
\* what finish writes fits the bits it is written in.
CarryFits == enc.ok

\* The decoder's CHECKs hold: it ends on the stop bit that finish() and
\* writeByteAlignment() left, never reads past the last byte, and leaves none
\* unread at the terminating bit.
StopBitFound ==
  ~Open => dec.ok /\ (ended => dec.bin = 1 /\ dec.idx = Len(dec.fifo))

Channel == INSTANCE BinChannel WITH
  Symbols <- Calls, given <- calls, got <- got, closed <- ~Open

\* The coder is a lossless channel: decodeBin, decodeBinEP, decodeBinsEP and
\* decodeBinTrm return the bins the encoder was called with, in order, and all
\* of them.
LosslessChannel == Channel!Spec
=============================================================================
