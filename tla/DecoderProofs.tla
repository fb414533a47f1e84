--------------------------- MODULE DecoderProofs ----------------------------
(* Proofs about Decoder and DecPicBuffer, for every stream, every size of  *)
(* the buffer and every number of low bits of the POC.                     *)
EXTENDS Decoder, SequenceTheorems, TLAPS

USE DecoderAssumption, DpbAssumption
-----------------------------------------------------------------------------
(* The lookahead.                                                          *)

\* QueueExact with what makes it inductive: the stream stays what it was, and
\* no more is received than sent, nor taken than received.
QueueInv ==
  /\ stream \in Seq(Nalus)
  /\ recv \in 0 .. Len(stream) /\ naluCount \in 0 .. recv
  /\ QueueExact

\* The buffer is as long as what was received and not taken.
LEMMA BufferLength ==
  ASSUME QueueInv
  PROVE  buf \in Seq(Nalus) /\ Len(buf) = recv - naluCount
  <1>1. /\ \A i \in naluCount + 1 .. recv : stream[i] \in Nalus
        /\ naluCount + 1 \in Int /\ recv \in Int
    BY DEF QueueInv
  <1>2. /\ SubSeq(stream, naluCount + 1, recv) \in Seq(Nalus)
        /\ Len(SubSeq(stream, naluCount + 1, recv))
             = IF naluCount + 1 <= recv THEN recv - (naluCount + 1) + 1 ELSE 0
    BY <1>1, SubSeqProperties
  <1>. QED BY <1>2 DEF QueueInv, QueueExact

\* A unit received while looking ahead becomes the last one of the buffer.
LEMMA LookExact ==
  ASSUME QueueInv, CanLook, Look
  PROVE  QueueInv'
  <1>1. CASE look < Len(buf)
    BY <1>1 DEF Look, QueueInv, QueueExact
  <1>2. CASE ~(look < Len(buf))
    <2>1. Arrives /\ buf' = Append(buf, stream[recv + 1]) /\ recv' = recv + 1
          /\ stream' = stream /\ naluCount' = naluCount
      BY <1>2 DEF CanLook, Look
    <2>2. recv + 1 \in 1 .. Len(stream) /\ naluCount + 1 \in 1 .. Len(stream)
          /\ recv + 1 \in naluCount + 1 .. Len(stream) /\ recv + 1 - 1 = recv
      BY <2>1 DEF Arrives, QueueInv
    <2>3. SubSeq(stream, naluCount + 1, recv + 1)
            = SubSeq(stream, naluCount + 1, recv + 1 - 1) \o <<stream[recv + 1]>>
      BY <2>2, SubSeqRecursiveSecond DEF QueueInv
    <2>4. Append(buf, stream[recv + 1]) = buf \o <<stream[recv + 1]>>
      BY <2>2, BufferLength, AppendIsConcat DEF QueueInv
    <2>5. QueueExact'
      BY <2>1, <2>2, <2>3, <2>4 DEF QueueInv, QueueExact
    <2>. QED BY <2>1, <2>2, <2>5 DEF QueueInv
  <1>. QED BY <1>1, <1>2

\* The unit of an iteration is the first of the buffer, or a new one.
LEMMA TakeExact ==
  ASSUME QueueInv, Take
  PROVE  QueueInv'
  <1>1. CASE buf # <<>>
    <2>1. buf' = Tail(buf) /\ recv' = recv /\ stream' = stream /\ naluCount' = naluCount + 1
      BY <1>1 DEF Take
    <2>2. naluCount < recv
      BY <1>1, BufferLength, EmptySeq DEF QueueInv
    <2>3. naluCount + 1 \in 1 .. Len(stream) /\ recv \in naluCount + 1 .. Len(stream)
      BY <2>2 DEF QueueInv
    <2>4. Tail(SubSeq(stream, naluCount + 1, recv)) = SubSeq(stream, naluCount + 1 + 1, recv)
      BY <2>3, HeadTailOfSubSeq DEF QueueInv
    <2>. QED BY <2>1, <2>2, <2>4 DEF QueueInv, QueueExact
  <1>2. CASE buf = <<>>
    <2>1. buf' = <<>> /\ recv' = recv + 1 /\ stream' = stream /\ naluCount' = naluCount + 1
          /\ Arrives
      BY <1>2 DEF Take
    <2>2. naluCount = recv
      BY <1>2, BufferLength, EmptySeq DEF QueueInv
    <2>3. SubSeq(stream, naluCount + 1 + 1, recv + 1) = <<>>
      BY <2>2, SubSeqEmpty DEF QueueInv
    <2>. QED BY <2>1, <2>2, <2>3 DEF QueueInv, QueueExact, Arrives
  <1>. QED BY <1>1, <1>2

\* A step that leaves the stream, the counts and the buffer alone.
LEMMA OthersExact ==
  ASSUME QueueInv, UNCHANGED <<stream, recv, buf, naluCount>>
  PROVE  QueueInv'
  BY DEF QueueInv, QueueExact

\* For every stream the window may receive, and wherever it is closed or the
\* stream ends, isNewPicture and isNewAccessUnit look ahead without losing,
\* repeating or reordering a NAL unit.
THEOREM LookaheadExact == Spec => []QueueExact
  <1>1. Init => QueueInv
    <2> SUFFICES ASSUME Init PROVE QueueInv
      OBVIOUS
    <2>1. stream \in Seq(Nalus) /\ recv = 0 /\ naluCount = 0 /\ buf = <<>>
      BY DEF Init
    <2>2. SubSeq(stream, 0 + 1, 0) = <<>>
      BY SubSeqEmpty
    <2>. QED BY <2>1, <2>2 DEF QueueInv, QueueExact
  <1>2. QueueInv /\ [Next]_vars => QueueInv'
    <2> SUFFICES ASSUME QueueInv, [Next]_vars PROVE QueueInv'
      OBVIOUS
    <2>1. CASE isNewPicture
      BY <2>1, LookExact DEF isNewPicture
    <2>2. CASE isNewAccessUnit
      BY <2>2, LookExact DEF isNewAccessUnit
    <2>3. CASE Take
      BY <2>3, TakeExact
    <2>4. CASE isNewPictureLost \/ isNewAccessUnitLost \/ TakeLost \/ Close
      BY <2>4, OthersExact
        DEF isNewPictureLost, isNewAccessUnitLost, LookFails, TakeLost, Close
    <2>5. CASE Loop \/ Read \/ DecodeOther \/ Discard \/ DecodeSliceNoHeader \/ LeaveLoop
               \/ FlushOutput \/ Write \/ NothingToFinish
      BY <2>5, OthersExact
        DEF Loop, Read, DecodeOther, Discard, DecodeSliceNoHeader, LeaveLoop, FlushOutput,
            Write, NothingToFinish, queueVars
    <2>6. CASE DecodeSlice \/ Available \/ CreateLostPicture \/ Activate \/ FinishPicture
      BY <2>6, OthersExact
        DEF DecodeSlice, Available, CreateLostPicture, Activate, FinishPicture, queueVars
    <2>7. CASE Terminated \/ UNCHANGED vars
      BY <2>7, OthersExact DEF Terminated, vars
    <2>. QED BY <2>1, <2>2, <2>3, <2>4, <2>5, <2>6, <2>7 DEF Next, Step
  <1>3. QueueInv => QueueExact
    BY DEF QueueInv
  <1>. QED BY <1>1, <1>2, <1>3, PTL DEF Spec
-----------------------------------------------------------------------------
(* Picture order counts.                                                   *)

\* The quotient and the low bits of a POC, which may be negative.
LEMMA LsbFacts ==
  ASSUME NEW p \in Int
  PROVE  /\ Lsb(p) \in 0 .. MaxPocLsb - 1
         /\ \E q \in Int : p = MaxPocLsb * q + Lsb(p)
  <1>1. p \div MaxPocLsb \in Int /\ p % MaxPocLsb \in 0 .. MaxPocLsb - 1
        /\ p = MaxPocLsb * (p \div MaxPocLsb) + (p % MaxPocLsb)
    OBVIOUS
  <1>. QED BY <1>1 DEF Lsb

\* A number below 3/2 M in size that M divides is -M, 0 or M.
LEMMA SmallMultiple ==
  ASSUME NEW M \in Nat \ {0}, NEW k \in Int, 2 * (M * k) < 3 * M, 2 * (M * k) > -(3 * M)
  PROVE  k \in {-1, 0, 1}
  <1>1. CASE k >= 2
    <2>1. M * k >= M * 2
      BY <1>1
    <2>. QED BY <2>1
  <1>2. CASE k <= -2
    <2>1. M * k <= M * (-2)
      BY <1>2
    <2>. QED BY <2>1
  <1>. QED BY <1>1, <1>2

\* parseSliceHeader rebuilds every POC that is less than half the range of the
\* low bits before, or at most half of it after, the previous picture of the
\* lowest temporal layer, whatever the signs and however often the bits wrapped.
THEOREM PocRebuilt ==
  ASSUME NEW h \in Nat \ {0}, MaxPocLsb = 2 * h,
         NEW type, type \notin IdrTypes,
         NEW poc \in Int, NEW prev \in Int,
         poc - prev > -h, poc - prev <= h
  PROVE  ParsePoc(type, Lsb(poc), prev) = poc
  <1> DEFINE l == Lsb(poc)
             b == Lsb(prev)
  <1>1. l \in 0 .. 2 * h - 1 /\ b \in 0 .. 2 * h - 1
    BY LsbFacts
  <1>2. PICK c \in Int : poc = MaxPocLsb * c + l
    BY LsbFacts
  <1>3. PICK a \in Int : prev = MaxPocLsb * a + b
    BY LsbFacts
  <1>4. MaxPocLsb * (c - a) = MaxPocLsb * c - MaxPocLsb * a
    OBVIOUS
  <1>5. MaxPocLsb * (c - a) \in Int
    OBVIOUS
  <1>6. MaxPocLsb * (c - a) + (l - b) = poc - prev
    <2> HIDE DEF l, b
    <2>1. MaxPocLsb * c \in Int /\ MaxPocLsb * a \in Int
      OBVIOUS
    <2>. QED BY <1>1, <1>2, <1>3, <1>4, <2>1
  <1>7. 2 * (MaxPocLsb * (c - a)) < 3 * MaxPocLsb /\ 2 * (MaxPocLsb * (c - a)) > -(3 * MaxPocLsb)
    <2> DEFINE m == MaxPocLsb * (c - a)
    <2>1. m \in Int /\ m + (l - b) = poc - prev
      BY <1>5, <1>6
    <2> HIDE DEF l, b, m
    <2>2. 2 * m < 3 * (2 * h) /\ 2 * m > -(3 * (2 * h))
      BY <1>1, <2>1
    <2>. QED BY <2>2 DEF m
  <1>8. c - a \in {-1, 0, 1}
    BY <1>7, SmallMultiple
  <1>9. MaxPocLsb \div 2 = h
    OBVIOUS
  <1>10. /\ l < b /\ b - l >= h => ParsePoc(type, l, prev) = prev - b + 2 * h + l
         /\ l > b /\ l - b > h => ParsePoc(type, l, prev) = prev - b - 2 * h + l
         /\ ~(l < b /\ b - l >= h) /\ ~(l > b /\ l - b > h) => ParsePoc(type, l, prev) = prev - b + l
    <2>1. ASSUME l < b, b - l >= h PROVE ParsePoc(type, l, prev) = prev - b + 2 * h + l
      <3> HIDE DEF l
      <3>. QED BY <1>1, <1>9, <2>1 DEF ParsePoc
    <2>2. ASSUME l > b, l - b > h PROVE ParsePoc(type, l, prev) = prev - b - 2 * h + l
      <3>1. ~(l < b)
        BY <1>1, <2>2
      <3> HIDE DEF l
      <3>. QED BY <1>1, <1>9, <2>2, <3>1 DEF ParsePoc
    <2>3. ASSUME ~(l < b /\ b - l >= h), ~(l > b /\ l - b > h)
          PROVE  ParsePoc(type, l, prev) = prev - b + l
      <3> HIDE DEF l
      <3>. QED BY <1>1, <1>9, <2>3 DEF ParsePoc
    <2>. QED BY <2>1, <2>2, <2>3
  <1>11. CASE c - a = -1
    <2> HIDE DEF l, b
    <2>1. -(2 * h) + (l - b) = poc - prev
      BY <1>1, <1>6, <1>11
    <2>2. l > b /\ l - b > h
      BY <1>1, <2>1
    <2>3. ParsePoc(type, l, prev) = poc
      BY <1>1, <1>10, <2>1, <2>2
    <2>. QED BY <2>3 DEF l
  <1>12. CASE c - a = 0
    <2> HIDE DEF l, b
    <2>1. l - b = poc - prev
      BY <1>1, <1>6, <1>12
    <2>2. ~(l < b /\ b - l >= h) /\ ~(l > b /\ l - b > h)
      BY <1>1, <2>1
    <2>3. ParsePoc(type, l, prev) = poc
      BY <1>1, <1>10, <2>1, <2>2
    <2>. QED BY <2>3 DEF l
  <1>13. CASE c - a = 1
    <2> HIDE DEF l, b
    <2>1. 2 * h + (l - b) = poc - prev
      BY <1>1, <1>6, <1>13
    <2>2. l < b /\ b - l >= h
      BY <1>1, <2>1
    <2>3. ParsePoc(type, l, prev) = poc
      BY <1>1, <1>10, <2>1, <2>2
    <2>. QED BY <2>3 DEF l
  <1>. QED BY <1>8, <1>11, <1>12, <1>13
=============================================================================
