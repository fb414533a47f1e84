-------------------------- MODULE BinStreamProofs ---------------------------
(***************************************************************************)
(* The encoder's carry always fits: whatever calls are made, with whatever *)
(* contexts, BinEncoderBase writes bytes and its word keeps its free bits. *)
(***************************************************************************)
EXTENDS BinStream, TLAPS

\* Powers of two as a table, which the provers can evaluate.
Table == <<1, 2, 4, 8, 16, 32, 64, 128, 256, 512, 1024, 2048, 4096, 8192, 16384, 32768, 65536,
           131072, 262144, 524288, 1048576, 2097152, 4194304, 8388608, 16777216>>
Pow(k) == Table[k + 1]

\* The power operator on the exponents the coder shifts by.
LEMMA PowIs == \A k \in 0 .. 24 : 2^k = Pow(k)
<1> SUFFICES ASSUME NEW k \in 0 .. 24 PROVE 2^k = Pow(k)
  OBVIOUS
<1>1. CASE k \in 0 .. 4
  <2>1. k = 0 \/ k = 1 \/ k = 2 \/ k = 3 \/ k = 4
    BY <1>1
  <2>2. 2^0 = Pow(0) /\ 2^1 = Pow(1) /\ 2^2 = Pow(2) /\ 2^3 = Pow(3) /\ 2^4 = Pow(4)
    BY SMT DEF Pow, Table
  <2> QED BY <2>1, <2>2, Zenon
<1>2. CASE k \in 5 .. 8
  <2>1. k = 5 \/ k = 6 \/ k = 7 \/ k = 8
    BY <1>2
  <2>2. 2^5 = Pow(5) /\ 2^6 = Pow(6) /\ 2^7 = Pow(7) /\ 2^8 = Pow(8)
    BY SMT DEF Pow, Table
  <2> QED BY <2>1, <2>2, Zenon
<1>3. CASE k \in 9 .. 12
  <2>1. k = 9 \/ k = 10 \/ k = 11 \/ k = 12
    BY <1>3
  <2>2. 2^9 = Pow(9) /\ 2^10 = Pow(10) /\ 2^11 = Pow(11) /\ 2^12 = Pow(12)
    BY SMT DEF Pow, Table
  <2> QED BY <2>1, <2>2, Zenon
<1>4. CASE k \in 13 .. 16
  <2>1. k = 13 \/ k = 14 \/ k = 15 \/ k = 16
    BY <1>4
  <2>2. 2^13 = Pow(13) /\ 2^14 = Pow(14) /\ 2^15 = Pow(15) /\ 2^16 = Pow(16)
    BY SMT DEF Pow, Table
  <2> QED BY <2>1, <2>2, Zenon
<1>5. CASE k \in 17 .. 20
  <2>1. k = 17 \/ k = 18 \/ k = 19 \/ k = 20
    BY <1>5
  <2>2. 2^17 = Pow(17) /\ 2^18 = Pow(18) /\ 2^19 = Pow(19) /\ 2^20 = Pow(20)
    BY SMT DEF Pow, Table
  <2> QED BY <2>1, <2>2, Zenon
<1>6. CASE k \in 21 .. 24
  <2>1. k = 21 \/ k = 22 \/ k = 23 \/ k = 24
    BY <1>6
  <2>2. 2^21 = Pow(21) /\ 2^22 = Pow(22) /\ 2^23 = Pow(23) /\ 2^24 = Pow(24)
    BY SMT DEF Pow, Table
  <2> QED BY <2>1, <2>2, Zenon
<1> QED BY <1>1, <1>2, <1>3, <1>4, <1>5, <1>6

\* 2^(a + n) for the shifts of low.
LEMMA PowSum == \A a \in 5 .. 16, n \in 1 .. 8 : Pow(a + n) = Pow(a) * Pow(n)
  BY SMT DEF Pow, Table

\* Products keep the order.
LEMMA MulMono == \A a, b, c \in Nat : b <= c => a * b <= a * c
  BY SMT
\* Products distribute.
LEMMA Distrib == \A a, b, q \in Nat : (a + b) * q = a * q + b * q
  BY SMT
-----------------------------------------------------------------------------
\* low and the interval above it, in sixteenths of the word that bits leaves.
Reach(low, range, k, bits) == low + range <= k * Pow(28 - bits)

\* The bounds on the encoder's word.  Before writeOut, low and the interval above
\* it reach at most 272 times the unit of the byte that leaves next, and 256
\* times when the byte kept back could not take a carry.
Bounds(low, range, buffered, num, bits) ==
  /\ range \in 256 .. 510 /\ bits \in 4 .. 23 /\ low \in Nat
  /\ buffered \in 0 .. 255 /\ num \in Nat
  /\ Reach(low, range, 17, bits)
  /\ buffered = 255 => Reach(low, range, 16, bits)
  /\ num = 0 => buffered = 255

Fields == {"low", "range", "bufferedByte", "numBuffered", "bitsLeft", "fifo", "ok"}

IsEnc(e) == DOMAIN e = Fields /\ e.ok = TRUE

Bounded(e) ==
  IsEnc(e) /\ Bounds(e.low, e.range, e.bufferedByte, e.numBuffered, e.bitsLeft)

\* The inductive invariant of the encoder.
EncOK(e) == Bounded(e) /\ e.bitsLeft \in 12 .. 23
-----------------------------------------------------------------------------
\* low, reduced by writeOut, keeps its bound; the lead byte is at most 271, and
\* at most 255 when the byte kept back is 0xff.
LEMMA LeadBound ==
  ASSUME NEW low, NEW range, NEW buffered, NEW num, NEW b, Bounds(low, range, buffered, num, b),
         b < 12
  PROVE  LET P == Pow(24 - b)
             lead == low \div P
             rest == low % P
         IN /\ lead \in 0 .. 271 /\ rest \in Nat
            /\ Reach(rest, range, 17, b + 8)
            /\ buffered = 255 => lead <= 255
            /\ buffered = 255 /\ lead = 255 => Reach(rest, range, 16, b + 8)
<1>1. /\ low \in Nat /\ range \in 256 .. 510 /\ b \in 4 .. 11
      /\ Reach(low, range, 17, b) /\ (buffered = 255 => Reach(low, range, 16, b))
  BY DEF Bounds
<1>2. b = 4 \/ b = 5 \/ b = 6 \/ b = 7 \/ b = 8 \/ b = 9 \/ b = 10 \/ b = 11
  BY <1>1
<1>4. CASE b = 4
  BY <1>1, <1>4, SMT DEF Reach, Pow, Table
<1>5. CASE b = 5
  BY <1>1, <1>5, SMT DEF Reach, Pow, Table
<1>6. CASE b = 6
  BY <1>1, <1>6, SMT DEF Reach, Pow, Table
<1>7. CASE b = 7
  BY <1>1, <1>7, SMT DEF Reach, Pow, Table
<1>8. CASE b = 8
  BY <1>1, <1>8, SMT DEF Reach, Pow, Table
<1>9. CASE b = 9
  BY <1>1, <1>9, SMT DEF Reach, Pow, Table
<1>10. CASE b = 10
  BY <1>1, <1>10, SMT DEF Reach, Pow, Table
<1>11. CASE b = 11
  BY <1>1, <1>11, SMT DEF Reach, Pow, Table
<1> HIDE DEF Bounds
<1> QED BY <1>2, <1>4, <1>5, <1>6, <1>7, <1>8, <1>9, <1>10, <1>11

\* WriteBytes changes the bytes alone when the first of them fits.
LEMMA WriteBytesOK ==
  ASSUME NEW e, IsEnc(e), NEW first, NEW n, NEW byte, first \in 0 .. 255
  PROVE  /\ IsEnc(WriteBytes(e, first, n, byte))
         /\ WriteBytes(e, first, n, byte).low = e.low
         /\ WriteBytes(e, first, n, byte).range = e.range
         /\ WriteBytes(e, first, n, byte).bitsLeft = e.bitsLeft
         /\ WriteBytes(e, first, n, byte).bufferedByte = e.bufferedByte
         /\ WriteBytes(e, first, n, byte).numBuffered = e.numBuffered
<1> DEFINE bytes == e.fifo \o <<first>> \o [i \in 1 .. n |-> byte]
           w == WriteBytes(e, first, n, byte)
<1> HIDE DEF bytes, w
<1>1. (e.ok /\ first <= 255) = TRUE
  BY DEF IsEnc
<1>2. w = [e EXCEPT !.fifo = bytes, !.ok = TRUE]
  BY <1>1, Zenon DEF WriteBytes, bytes, w
<1>3. DOMAIN w = Fields /\ w.ok = TRUE
  BY <1>2, Zenon DEF IsEnc, Fields
<1>4. /\ w.low = e.low /\ w.range = e.range /\ w.bitsLeft = e.bitsLeft
      /\ w.bufferedByte = e.bufferedByte /\ w.numBuffered = e.numBuffered
  BY <1>2 DEF IsEnc, Fields
<1> QED BY <1>3, <1>4 DEF IsEnc, w

\* writeOut leaves a byte's room in low again, and every byte it writes fits.
LEMMA WriteOutOK ==
  ASSUME NEW e, Bounded(e), e.bitsLeft < 12
  PROVE  EncOK(WriteOut(e))
<1> DEFINE lead == e.low \div 2^(24 - e.bitsLeft)
           rest == e.low % 2^(24 - e.bitsLeft)
           carry == lead \div 256
           f == [e EXCEPT !.bitsLeft = @ + 8, !.low = rest]
           first == f.bufferedByte + carry
           more == f.numBuffered - 1
           byte == (255 + carry) % 256
           w == WriteBytes(f, first, more, byte)
           g == [w EXCEPT !.bufferedByte = lead % 256, !.numBuffered = 1]
           h == [f EXCEPT !.numBuffered = 1, !.bufferedByte = lead]
           i == [f EXCEPT !.numBuffered = @ + 1]
<1>1. IsEnc(e) /\ Bounds(e.low, e.range, e.bufferedByte, e.numBuffered, e.bitsLeft)
  BY DEF Bounded
<1>2. e.bitsLeft \in 4 .. 11
  BY <1>1 DEF Bounds
<1>3. 2^(24 - e.bitsLeft) = Pow(24 - e.bitsLeft)
  <2>1. 24 - e.bitsLeft \in 0 .. 24
    BY <1>2
  <2> QED BY <2>1, PowIs, Zenon
<1>4. WriteOut(e) = IF lead = 255 THEN i ELSE IF e.numBuffered > 0 THEN g ELSE h
  BY DEF WriteOut
<1>5. /\ lead \in 0 .. 271 /\ rest \in Nat
      /\ Reach(rest, e.range, 17, e.bitsLeft + 8)
      /\ e.bufferedByte = 255 => lead <= 255
      /\ e.bufferedByte = 255 /\ lead = 255 => Reach(rest, e.range, 16, e.bitsLeft + 8)
  <2>1. e.bitsLeft < 12
    BY <1>2
  <2>2. /\ lead = e.low \div Pow(24 - e.bitsLeft)
        /\ rest = e.low % Pow(24 - e.bitsLeft)
    BY <1>3, Zenon
  <2> HIDE DEF lead, rest
  <2> QED BY <1>1, <2>1, <2>2, LeadBound
<1> HIDE DEF lead, rest
<1>6. /\ IsEnc(f) /\ f.bitsLeft = e.bitsLeft + 8 /\ f.low = rest
      /\ f.range = e.range /\ f.bufferedByte = e.bufferedByte /\ f.numBuffered = e.numBuffered
  BY <1>1 DEF IsEnc, Fields
<1> HIDE DEF f
<1>7. /\ carry \in {0, 1} /\ lead % 256 \in 0 .. 255 /\ (lead <= 255 => carry = 0)
      /\ (lead # 255 => lead % 256 # 255)
  BY <1>5
<1> HIDE DEF carry
<1>8. f.bitsLeft \in 12 .. 23
  BY <1>2, <1>6
<1>9. CASE lead = 255
  <2>1. /\ IsEnc(i) /\ i.bitsLeft = f.bitsLeft /\ i.low = f.low
        /\ i.range = f.range /\ i.bufferedByte = f.bufferedByte
        /\ i.numBuffered = f.numBuffered + 1
    BY <1>6 DEF IsEnc, Fields
  <2> HIDE DEF i
  <2>2. Bounds(rest, e.range, e.bufferedByte, e.numBuffered + 1, e.bitsLeft + 8)
    BY <1>1, <1>2, <1>5, <1>9 DEF Bounds
  <2> QED BY <1>4, <1>6, <1>8, <1>9, <2>1, <2>2 DEF EncOK, Bounded
<1>10. CASE lead # 255 /\ e.numBuffered > 0
  <2>1. first \in 0 .. 255
    BY <1>1, <1>5, <1>6, <1>7, <1>10 DEF Bounds
  <2> HIDE DEF first, more, byte
  <2>2. IsEnc(w) /\ w.low = f.low /\ w.range = f.range /\ w.bitsLeft = f.bitsLeft
    BY <1>6, <2>1, WriteBytesOK, SMT
  <2> HIDE DEF w
  <2>3. /\ IsEnc(g) /\ g.bitsLeft = f.bitsLeft /\ g.low = f.low
        /\ g.range = f.range /\ g.bufferedByte = lead % 256 /\ g.numBuffered = 1
    BY <2>2 DEF IsEnc, Fields
  <2> HIDE DEF g
  <2>4. Bounds(rest, e.range, lead % 256, 1, e.bitsLeft + 8)
    BY <1>1, <1>2, <1>5, <1>7, <1>10 DEF Bounds
  <2> QED BY <1>4, <1>6, <1>8, <1>10, <2>3, <2>4 DEF EncOK, Bounded
<1>11. CASE lead # 255 /\ ~(e.numBuffered > 0)
  <2>1. lead \in 0 .. 254
    BY <1>1, <1>5, <1>11 DEF Bounds
  <2>2. /\ IsEnc(h) /\ h.bitsLeft = f.bitsLeft /\ h.low = f.low
        /\ h.range = f.range /\ h.bufferedByte = lead /\ h.numBuffered = 1
    BY <1>6 DEF IsEnc, Fields
  <2> HIDE DEF h
  <2>3. Bounds(rest, e.range, lead, 1, e.bitsLeft + 8)
    BY <1>1, <1>2, <1>5, <2>1 DEF Bounds
  <2> QED BY <1>4, <1>6, <1>8, <1>11, <2>2, <2>3 DEF EncOK, Bounded
<1> QED BY <1>9, <1>10, <1>11
-----------------------------------------------------------------------------
\* The new interval is inside the old one, at the new scale.
Within(low, range, oldLow, oldRange, n) == low + range <= (oldLow + oldRange) * Pow(n)

\* The bound of low under a shift that stays inside the interval.
LEMMA ShiftBound ==
  ASSUME NEW low \in Nat, NEW range \in Nat, NEW b \in 12 .. 23, NEW n \in 1 .. 8, NEW k \in Nat,
         NEW low2 \in Nat, NEW range2 \in Nat,
         Reach(low, range, k, b), Within(low2, range2, low, range, n)
  PROVE  Reach(low2, range2, k, b - n)
<1>1. Pow(28 - (b - n)) = Pow(28 - b) * Pow(n)
  <2>1. 28 - b \in 5 .. 16 /\ 28 - (b - n) = (28 - b) + n
    OBVIOUS
  <2> QED BY <2>1, PowSum, Zenon
<1>2. Pow(28 - b) \in Nat /\ Pow(n) \in Nat
  BY SMT DEF Pow, Table
<1> DEFINE p == Pow(28 - b)
           q == Pow(n)
           r == low + range
           s == low2 + range2
<1> HIDE DEF p, q, r, s
<1>3. p \in Nat /\ q \in Nat /\ r \in Nat /\ s \in Nat /\ r <= k * p /\ s <= r * q
  BY <1>2 DEF p, q, r, s, Reach, Within
<1>4. k * p \in Nat
  BY <1>3
<1>5. q * r <= q * (k * p)
  BY <1>3, <1>4, MulMono
<1>6. s <= k * (p * q)
  BY <1>3, <1>5
<1> QED BY <1>1, <1>6 DEF p, q, s, Reach

\* e0 is e with another low, and its shift stays inside the interval of e.
Inside(e, e0, n, low, add, range) ==
  /\ EncOK(e) /\ IsEnc(e0) /\ n \in 1 .. 8 /\ range \in 256 .. 510
  /\ e0.bufferedByte = e.bufferedByte /\ e0.numBuffered = e.numBuffered
  /\ e0.bitsLeft = e.bitsLeft
  /\ low \in Nat /\ low = e0.low * 2^n + add
  /\ Within(low, range, e.low, e.range, n)

\* A shift inside the interval, with the writeOut that may follow it.
LEMMA ShiftOK ==
  ASSUME NEW e, NEW e0, NEW n, NEW low, NEW add, NEW range, Inside(e, e0, n, low, add, range)
  PROVE  EncOK(Shift(e0, n, add, range))
<1>0. /\ EncOK(e) /\ IsEnc(e0) /\ n \in 1 .. 8 /\ range \in 256 .. 510
      /\ e0.bufferedByte = e.bufferedByte /\ e0.numBuffered = e.numBuffered
      /\ e0.bitsLeft = e.bitsLeft /\ low \in Nat
      /\ Within(low, range, e.low, e.range, n)
  BY DEF Inside
<1>12. low = e0.low * 2^n + add
  BY DEF Inside
<1> DEFINE s == [e0 EXCEPT !.low = low, !.range = range, !.bitsLeft = @ - n]
<1>1. Bounds(e.low, e.range, e.bufferedByte, e.numBuffered, e.bitsLeft)
      /\ e.bitsLeft \in 12 .. 23
  BY <1>0 DEF EncOK, Bounded
<1>2. Shift(e0, n, add, range) = IF s.bitsLeft < 12 THEN WriteOut(s) ELSE s
  BY <1>12, Zenon DEF Shift, TestAndWriteOut
<1>3. /\ IsEnc(s) /\ s.low = low /\ s.range = range /\ s.bitsLeft = e.bitsLeft - n
      /\ s.bufferedByte = e.bufferedByte /\ s.numBuffered = e.numBuffered
  BY <1>0 DEF IsEnc, Fields
<1> HIDE DEF s
<1>4. e.low \in Nat /\ e.range \in Nat /\ range \in Nat /\ 16 \in Nat /\ 17 \in Nat
  BY <1>0, <1>1 DEF Bounds
<1>5. Reach(low, range, 17, e.bitsLeft - n)
  <2>1. Reach(e.low, e.range, 17, e.bitsLeft)
    BY <1>1 DEF Bounds
  <2> QED BY <1>0, <1>1, <1>4, <2>1, ShiftBound
<1>6. e.bufferedByte = 255 => Reach(low, range, 16, e.bitsLeft - n)
  <2>1. SUFFICES ASSUME e.bufferedByte = 255 PROVE Reach(low, range, 16, e.bitsLeft - n)
    OBVIOUS
  <2>2. Reach(e.low, e.range, 16, e.bitsLeft)
    BY <1>1, <2>1 DEF Bounds
  <2> QED BY <1>0, <1>1, <1>4, <2>2, ShiftBound
<1>7. Bounds(low, range, e.bufferedByte, e.numBuffered, e.bitsLeft - n)
  BY <1>0, <1>1, <1>5, <1>6 DEF Bounds
<1>9. Bounded(s)
  BY <1>3, <1>7 DEF Bounded
<1>10. CASE s.bitsLeft < 12
  BY <1>2, <1>9, <1>10, WriteOutOK
<1>11. CASE ~(s.bitsLeft < 12)
  <2>1. s.bitsLeft \in 12 .. 23
    BY <1>0, <1>1, <1>3, <1>11
  <2> QED BY <1>2, <1>9, <1>11, <2>1 DEF EncOK
<1> QED BY <1>10, <1>11
-----------------------------------------------------------------------------
\* The fields of a context.
LEMMA ModelFields ==
  ASSUME NEW m \in Models
  PROVE  /\ m.s0 \in Estimates(32) /\ m.s1 \in Estimates(2) /\ m.r0 \in 2 .. 5 /\ m.r1 \in 5 .. 9
         /\ DOMAIN m = {"s0", "s1", "r0", "r1"}
  BY DEF Models

\* The eight leading bits of the sum of two estimates.
LEMMA HalfSum ==
  ASSUME NEW a \in Nat, a < 32768, NEW b \in Nat, b < 32768, NEW c, c = a + b
  PROVE  c \div 256 \in 0 .. 255
<1>1. c \in Nat /\ c < 65536
  BY SMT
<1>2. 0 <= c \div 256 /\ c \div 256 <= 255
  BY <1>1, SMT
<1>3. c \div 256 \in Int
  BY <1>1, SMT
<1> QED BY <1>2, <1>3

\* The state of a context is eight bits.
LEMMA StateRange ==
  ASSUME NEW m \in Models
  PROVE  State(m) \in 0 .. 255
<1>1. m.s0 \in Estimates(32) /\ m.s1 \in Estimates(2)
  BY ModelFields
<1>2. State(m) = (m.s0 + m.s1) \div 256
  BY DEF State
<1>3. (m.s0 + m.s1) \div 256 \in 0 .. 255
  <2>1. m.s0 \in Nat /\ m.s0 < 32768 /\ m.s1 \in Nat /\ m.s1 < 32768
    BY <1>1, SMT DEF Estimates
  <2> QED BY <2>1, HalfSum
<1> QED BY <1>2, <1>3

\* The interval of the less probable symbol, and what is left of the range.
LEMMA LPSRange ==
  ASSUME NEW m \in Models, NEW range \in 256 .. 510
  PROVE  LPS(m, range) \in 4 .. 236 /\ range - LPS(m, range) \in 128 .. 506
<1> DEFINE q == IF State(m) >= 128 THEN 255 - State(m) ELSE State(m)
           a == q \div 4
           b == range \div 32
<1>1. a \in 0 .. 31
  BY StateRange
<1>2. b \in 8 .. 15 /\ range >= 32 * b
  OBVIOUS
<1>3. LPS(m, range) = (a * b) \div 2 + 4
  BY DEF LPS
<1> HIDE DEF a, b
<1>4. b = 8 \/ b = 9 \/ b = 10 \/ b = 11 \/ b = 12 \/ b = 13 \/ b = 14 \/ b = 15
  BY <1>2
<1> QED BY <1>1, <1>2, <1>3, <1>4

\* Renormalisation brings that interval back to 256 .. 510.
LEMMA RenormRange ==
  ASSUME NEW lps \in 4 .. 236
  PROVE  RenormBitsLPS(lps) \in 1 .. 6 /\ lps * Pow(RenormBitsLPS(lps)) \in 256 .. 510
<1>1. CASE lps \div 8 = 0
  BY <1>1, SMT DEF RenormBitsLPS, RenormTable32, Pow, Table
<1>2. CASE lps \div 8 = 1
  BY <1>2, SMT DEF RenormBitsLPS, RenormTable32, Pow, Table
<1>3. CASE lps \div 8 \in 2 .. 3
  BY <1>3, SMT DEF RenormBitsLPS, RenormTable32, Pow, Table
<1>4. CASE lps \div 8 \in 4 .. 7
  BY <1>4, SMT DEF RenormBitsLPS, RenormTable32, Pow, Table
<1>5. CASE lps \div 8 \in 8 .. 15
  BY <1>5, SMT DEF RenormBitsLPS, RenormTable32, Pow, Table
<1>6. CASE lps \div 8 \in 16 .. 31
  BY <1>6, SMT DEF RenormBitsLPS, RenormTable32, Pow, Table
<1> QED BY <1>1, <1>2, <1>3, <1>4, <1>5, <1>6

\* The shifts of low are by powers of the table.
LEMMA SmallPow == \A n \in 1 .. 8 : 2^n = Pow(n) /\ Pow(n) \in Nat
<1> SUFFICES ASSUME NEW n \in 1 .. 8 PROVE 2^n = Pow(n) /\ Pow(n) \in Nat
  OBVIOUS
<1>1. Pow(n) \in Nat
  BY SMT DEF Pow, Table
<1>2. n \in 0 .. 24
  OBVIOUS
<1> QED BY <1>1, <1>2, PowIs, Zenon

\* encodeBin, whatever the bin and the state of the context.
LEMMA EncodeBinOK ==
  ASSUME NEW e, EncOK(e), NEW m \in Models, NEW bin
  PROVE  EncOK(EncodeBin(e, m, bin))
<1> DEFINE lps == LPS(m, e.range)
           mpsRange == e.range - lps
           n == RenormBitsLPS(lps)
           e0 == [e EXCEPT !.low = @ + mpsRange]
           e1 == [e EXCEPT !.range = mpsRange]
<1>1. /\ IsEnc(e) /\ e.low \in Nat /\ e.range \in 256 .. 510
      /\ Bounds(e.low, e.range, e.bufferedByte, e.numBuffered, e.bitsLeft)
      /\ e.bitsLeft \in 12 .. 23
  BY DEF EncOK, Bounded, Bounds
<1>0. lps \in 4 .. 236 /\ mpsRange \in 128 .. 506
  BY <1>1, LPSRange
<1>2. lps \in 4 .. 236 /\ mpsRange \in 128 .. 506 /\ e.range = mpsRange + lps
  <2> HIDE DEF lps
  <2> QED BY <1>0, <1>1
<1>3. n \in 1 .. 6 /\ lps * Pow(n) \in 256 .. 510
  BY <1>2, RenormRange
<1>4. EncodeBin(e, m, bin) = IF bin # Mps(m) THEN Shift(e0, n, 0, lps * 2^n)
                             ELSE IF mpsRange < 256 THEN Shift(e, 1, 0, mpsRange * 2) ELSE e1
  BY DEF EncodeBin
<1> HIDE DEF lps, mpsRange, n
<1>5. 2^n = Pow(n) /\ Pow(n) \in Nat
  <2>1. n \in 1 .. 8
    BY <1>3
  <2> QED BY <2>1, SmallPow, Zenon
<1>6. EncOK(Shift(e0, n, 0, lps * 2^n))
  <2>1. /\ IsEnc(e0) /\ e0.bufferedByte = e.bufferedByte /\ e0.numBuffered = e.numBuffered
        /\ e0.bitsLeft = e.bitsLeft /\ e0.low = e.low + mpsRange
    BY <1>1 DEF IsEnc, Fields
  <2> HIDE DEF e0
  <2> DEFINE q == Pow(n)
             low == e0.low * 2^n + 0
             range == lps * 2^n
  <2>2. range \in 256 .. 510 /\ n \in 1 .. 8
    BY <1>3, <1>5
  <2>3. low = (e.low + mpsRange) * q /\ range = lps * q /\ q \in Nat
    BY <1>1, <1>2, <1>5, <2>1
  <2> HIDE DEF q, low, range
  <2> DEFINE a == e.low + mpsRange
  <2>7. a \in Nat /\ lps \in Nat /\ e.low + e.range = a + lps
    BY <1>1, <1>2
  <2> HIDE DEF a
  <2>8. low = a * q /\ range = lps * q /\ (a + lps) * q = a * q + lps * q
    BY <2>3, <2>7, Distrib DEF a
  <2>4. low \in Nat /\ low + range = (e.low + e.range) * q
    BY <2>3, <2>7, <2>8
  <2>5. (e.low + e.range) * q \in Nat
    BY <1>1, <2>3
  <2>6. Within(low, range, e.low, e.range, n)
    BY <2>4, <2>5 DEF Within, q
  <2>9. Inside(e, e0, n, low, 0, range)
    BY <2>1, <2>2, <2>4, <2>6 DEF Inside, low
  <2> QED BY <2>9, ShiftOK DEF range
<1>7. mpsRange < 256 => EncOK(Shift(e, 1, 0, mpsRange * 2))
  <2> SUFFICES ASSUME mpsRange < 256 PROVE EncOK(Shift(e, 1, 0, mpsRange * 2))
    OBVIOUS
  <2> DEFINE low == e.low * 2^1 + 0
             range == mpsRange * 2
  <2>1. low = e.low * 2 /\ Pow(1) = 2
    <3>1. 2^1 = 2
      BY SMT
    <3>2. Pow(1) = 2
      BY SMT DEF Pow, Table
    <3> QED BY <1>1, <3>1, <3>2
  <2>2. range \in 256 .. 510 /\ 1 \in 1 .. 8
    BY <1>2
  <2> HIDE DEF low
  <2>3. low \in Nat /\ Within(low, range, e.low, e.range, 1)
    BY <1>1, <1>2, <2>1 DEF Within
  <2> HIDE DEF range
  <2>4. Inside(e, e, 1, low, 0, range)
    BY <1>1, <2>2, <2>3 DEF Inside, low
  <2> QED BY <2>4, ShiftOK DEF range
<1>8. ~(mpsRange < 256) => EncOK(e1)
  <2> SUFFICES ASSUME ~(mpsRange < 256) PROVE EncOK(e1)
    OBVIOUS
  <2>1. /\ IsEnc(e1) /\ e1.bufferedByte = e.bufferedByte /\ e1.numBuffered = e.numBuffered
        /\ e1.bitsLeft = e.bitsLeft /\ e1.low = e.low /\ e1.range = mpsRange
    BY <1>1 DEF IsEnc, Fields
  <2> HIDE DEF e1
  <2>2. Bounds(e.low, mpsRange, e.bufferedByte, e.numBuffered, e.bitsLeft)
    <3>1. Pow(28 - e.bitsLeft) \in Nat
      BY <1>1, SMT DEF Pow, Table
    <3> QED BY <1>1, <1>2, <3>1 DEF Bounds, Reach
  <2> QED BY <1>1, <2>1, <2>2 DEF EncOK, Bounded
<1> QED BY <1>4, <1>6, <1>7, <1>8
-----------------------------------------------------------------------------
\* One update of an estimate, with 2^rate in place of the rate.
Step0(x, r, bin) == x - Mask0(x \div r) + bin * Mask0(32767 \div r)
Step1(x, r, bin) == x - Mask1(x \div r) + bin * Mask1(32767 \div r)

\* What an update adds for a 1 is what it takes away from the greatest estimate.
LEMMA FirstEstimateArith ==
  ASSUME NEW x \in Estimates(32), NEW r \in {4, 8, 16, 32}, NEW bin \in {0, 1}
  PROVE  Step0(x, r, bin) \in Estimates(32)
<1> DEFINE y == x - Mask0(x \div r) + bin * Mask0(32767 \div r)
<1>0. x \in Nat /\ x < 32768 /\ x % 32 = 0
  BY SMT DEF Estimates
<1>20. y \in Nat /\ y < 32768 /\ y % 32 = 0
  <2>1. CASE r = 4
    BY <1>0, <2>1, SMT DEF Mask0
  <2>2. CASE r = 8
    BY <1>0, <2>2, SMT DEF Mask0
  <2>3. CASE r = 16
    BY <1>0, <2>3, SMT DEF Mask0
  <2>4. CASE r = 32
    BY <1>0, <2>4, SMT DEF Mask0
  <2> QED BY <2>1, <2>2, <2>3, <2>4
<1> HIDE DEF y
<1>21. y \in Estimates(32)
  BY <1>20, SMT DEF Estimates
<1> QED BY <1>21 DEF y, Step0

\* The same as a fact about update().
LEMMA FirstEstimate ==
  ASSUME NEW x \in Estimates(32), NEW rate \in 2 .. 5, NEW bin \in {0, 1}
  PROVE  Estimate0(x, rate, bin) \in Estimates(32)
<1> DEFINE r == 2^rate
<1>1. r \in {4, 8, 16, 32}
  <2>1. rate \in 0 .. 24
    OBVIOUS
  <2>2. r = Pow(rate)
    BY <2>1, PowIs, Zenon
  <2>3. Pow(rate) \in {4, 8, 16, 32}
    BY SMT DEF Pow, Table
  <2> QED BY <2>2, <2>3
<1>2. Estimate0(x, rate, bin) = Step0(x, r, bin)
  BY DEF Estimate0, Step0
<1> HIDE DEF r
<1> QED BY <1>1, <1>2, FirstEstimateArith

\* The slower estimate, which keeps 14 bits.
LEMMA SecondEstimateArith ==
  ASSUME NEW x \in Estimates(2), NEW r \in {32, 64, 128, 256, 512}, NEW bin \in {0, 1}
  PROVE  Step1(x, r, bin) \in Estimates(2)
<1> DEFINE y == x - Mask1(x \div r) + bin * Mask1(32767 \div r)
<1>0. x \in Nat /\ x < 32768 /\ x % 2 = 0
  BY SMT DEF Estimates
<1>20. y \in Nat /\ y < 32768 /\ y % 2 = 0
  <2>1. CASE r = 32
    BY <1>0, <2>1, SMT DEF Mask1
  <2>2. CASE r = 64
    BY <1>0, <2>2, SMT DEF Mask1
  <2>3. CASE r = 128
    BY <1>0, <2>3, SMT DEF Mask1
  <2>4. CASE r = 256
    BY <1>0, <2>4, SMT DEF Mask1
  <2>5. CASE r = 512
    BY <1>0, <2>5, SMT DEF Mask1
  <2> QED BY <2>1, <2>2, <2>3, <2>4, <2>5
<1> HIDE DEF y
<1>21. y \in Estimates(2)
  BY <1>20, SMT DEF Estimates
<1> QED BY <1>21 DEF y, Step1

\* The same as a fact about update().
LEMMA SecondEstimate ==
  ASSUME NEW x \in Estimates(2), NEW rate \in 5 .. 9, NEW bin \in {0, 1}
  PROVE  Estimate1(x, rate, bin) \in Estimates(2)
<1> DEFINE r == 2^rate
<1>1. r \in {32, 64, 128, 256, 512}
  <2>1. rate \in 0 .. 24
    OBVIOUS
  <2>2. r = Pow(rate)
    BY <2>1, PowIs, Zenon
  <2>3. Pow(rate) \in {32, 64, 128, 256, 512}
    BY SMT DEF Pow, Table
  <2> QED BY <2>2, <2>3
<1>2. Estimate1(x, rate, bin) = Step1(x, r, bin)
  BY DEF Estimate1, Step1
<1> HIDE DEF r
<1> QED BY <1>1, <1>2, SecondEstimateArith

\* update() keeps the estimates below one, and masked.
LEMMA UpdateModelOK ==
  ASSUME NEW m \in Models, NEW bin \in {0, 1}
  PROVE  UpdateModel(m, bin) \in Models
<1>1. m.s0 \in Estimates(32) /\ m.s1 \in Estimates(2) /\ m.r0 \in 2 .. 5 /\ m.r1 \in 5 .. 9
  BY ModelFields
<1>2. Estimate0(m.s0, m.r0, bin) \in Estimates(32)
  BY <1>1, FirstEstimate
<1>3. Estimate1(m.s1, m.r1, bin) \in Estimates(2)
  BY <1>1, SecondEstimate
<1> QED BY <1>1, <1>2, <1>3 DEF Models, UpdateModel
-----------------------------------------------------------------------------
\* Up to eight bins at once stay inside the interval.
LEMMA PutBinsOK ==
  ASSUME NEW e, EncOK(e), NEW n \in 1 .. 8, NEW bins \in Nat, bins < 2^n
  PROVE  EncOK(PutBins(e, bins, n))
<1> DEFINE q == Pow(n)
           add == e.range * bins
           low == e.low * 2^n + add
<1>1. IsEnc(e) /\ e.low \in Nat /\ e.range \in 256 .. 510 /\ e.range \in Nat
  BY DEF EncOK, Bounded, Bounds
<1>2. 2^n = q /\ q \in Nat
  BY SmallPow, Zenon
<1>3. bins + 1 <= q /\ bins + 1 \in Nat
  BY <1>2
<1> HIDE DEF q
<1>4. low = e.low * q + add
  BY <1>2, Zenon
<1> HIDE DEF low
<1>5. e.range * (bins + 1) <= e.range * q
  BY <1>1, <1>2, <1>3, MulMono
<1>6. e.range * (bins + 1) = add + e.range /\ add \in Nat
  BY <1>1
<1> HIDE DEF add
<1>7. (e.low + e.range) * q = e.low * q + e.range * q /\ e.low * q \in Nat /\ e.range * q \in Nat
  BY <1>1, <1>2, Distrib
<1>8. low \in Nat
  BY <1>4, <1>6, <1>7
<1>9. low + e.range <= (e.low + e.range) * q
  BY <1>1, <1>4, <1>5, <1>6, <1>7
<1>10. Within(low, e.range, e.low, e.range, n)
  BY <1>9 DEF Within, q
<1>11. PutBins(e, bins, n) = Shift(e, n, add, e.range)
  BY DEF PutBins, add
<1>12. low = e.low * 2^n + add
  BY DEF low
<1> HIDE DEF low
<1>13. Inside(e, e, n, low, add, e.range)
  BY <1>1, <1>8, <1>10, <1>12, Zenon DEF Inside
<1> QED BY <1>11, <1>13, ShiftOK

\* The first eight of up to sixteen bins, and the rest of them.
LEMMA SplitBins ==
  ASSUME NEW n \in 9 .. 16, NEW bins \in Nat, bins < Pow(n)
  PROVE  /\ bins \div Pow(n - 8) \in Nat /\ bins \div Pow(n - 8) < 256
         /\ bins % Pow(n - 8) \in Nat /\ bins % Pow(n - 8) < Pow(n - 8)
<1>0. n = 9 \/ n = 10 \/ n = 11 \/ n = 12 \/ n = 13 \/ n = 14 \/ n = 15 \/ n = 16
  OBVIOUS
<1>1. CASE n = 9
  BY <1>1, SMT DEF Pow, Table
<1>2. CASE n = 10
  BY <1>2, SMT DEF Pow, Table
<1>3. CASE n = 11
  BY <1>3, SMT DEF Pow, Table
<1>4. CASE n = 12
  BY <1>4, SMT DEF Pow, Table
<1>5. CASE n = 13
  BY <1>5, SMT DEF Pow, Table
<1>6. CASE n = 14
  BY <1>6, SMT DEF Pow, Table
<1>7. CASE n = 15
  BY <1>7, SMT DEF Pow, Table
<1>8. CASE n = 16
  BY <1>8, SMT DEF Pow, Table
<1> QED BY <1>0, <1>1, <1>2, <1>3, <1>4, <1>5, <1>6, <1>7, <1>8

\* encodeBinsEP, for any string of up to sixteen bins.
LEMMA EncodeBinsEPOK ==
  ASSUME NEW e, EncOK(e), NEW n \in 1 .. 16, NEW bins \in Nat, bins < 2^n
  PROVE  EncOK(EncodeBinsEP(e, bins, n))
<1>1. CASE n <= 8
  <2>1. n \in 1 .. 8
    BY <1>1
  <2>2. EncOK(PutBins(e, bins, n))
    BY <2>1, PutBinsOK
  <2> QED BY <1>1, <2>2 DEF EncodeBinsEP
<1>2. CASE ~(n <= 8)
  <2>1. n \in 9 .. 16 /\ n - 8 \in 1 .. 8 /\ n \in 0 .. 24 /\ n - 8 \in 0 .. 24 /\ 8 \in 1 .. 8
    BY <1>2
  <2>2. 2^n = Pow(n) /\ 2^(n - 8) = Pow(n - 8)
    BY <2>1, PowIs, Zenon
  <2> DEFINE head == bins \div 2^(n - 8)
             rest == bins % 2^(n - 8)
  <2>3. bins < Pow(n)
    BY <2>2
  <2>4. /\ bins \div Pow(n - 8) \in Nat /\ bins \div Pow(n - 8) < 256
        /\ bins % Pow(n - 8) \in Nat /\ bins % Pow(n - 8) < Pow(n - 8)
    BY <2>1, <2>3, SplitBins
  <2>5. head \in Nat /\ head < 256 /\ rest \in Nat /\ rest < 2^(n - 8)
    BY <2>2, <2>4
  <2>6. EncodeBinsEP(e, bins, n) = PutBins(PutBins(e, head, 8), rest, n - 8)
    BY <1>2 DEF EncodeBinsEP
  <2> HIDE DEF head, rest
  <2>7. 2^8 = 256
    BY SMT
  <2>8. EncOK(PutBins(e, head, 8))
    BY <2>1, <2>5, <2>7, PutBinsOK
  <2>9. EncOK(PutBins(PutBins(e, head, 8), rest, n - 8))
    BY <2>1, <2>5, <2>8, PutBinsOK
  <2> QED BY <2>6, <2>9
<1> QED BY <1>1, <1>2

\* A smaller range leaves the bounds as they are.
LEMMA NarrowOK ==
  ASSUME NEW e, EncOK(e), NEW r \in 256 .. 510, r <= e.range
  PROVE  EncOK([e EXCEPT !.range = r])
<1> DEFINE f == [e EXCEPT !.range = r]
<1>1. /\ IsEnc(e) /\ Bounds(e.low, e.range, e.bufferedByte, e.numBuffered, e.bitsLeft)
      /\ e.bitsLeft \in 12 .. 23
  BY DEF EncOK, Bounded
<1>2. /\ IsEnc(f) /\ f.low = e.low /\ f.range = r /\ f.bufferedByte = e.bufferedByte
      /\ f.numBuffered = e.numBuffered /\ f.bitsLeft = e.bitsLeft
  BY <1>1 DEF IsEnc, Fields
<1> HIDE DEF f
<1>3. Pow(28 - e.bitsLeft) \in Nat
  BY <1>1, SMT DEF Pow, Table
<1>4. Bounds(e.low, r, e.bufferedByte, e.numBuffered, e.bitsLeft)
  BY <1>1, <1>3 DEF Bounds, Reach
<1>5. EncOK(f)
  BY <1>1, <1>2, <1>4 DEF EncOK, Bounded
<1> QED BY <1>5 DEF f

\* align().
LEMMA AlignOK ==
  ASSUME NEW e, EncOK(e)
  PROVE  EncOK(Align(e))
<1>1. 256 \in 256 .. 510 /\ 256 <= e.range
  BY DEF EncOK, Bounded, Bounds
<1> QED BY <1>1, NarrowOK DEF Align

\* encodeBinTrm, with either bin.
LEMMA EncodeBinTrmOK ==
  ASSUME NEW e, EncOK(e), NEW bin
  PROVE  EncOK(EncodeBinTrm(e, bin))
<1> DEFINE r == e.range - 2
           e0 == [e EXCEPT !.low = @ + r]
<1>1. IsEnc(e) /\ e.low \in Nat /\ e.range \in 256 .. 510
  BY DEF EncOK, Bounded, Bounds
<1>2. EncodeBinTrm(e, bin) = IF bin = 1 THEN Shift(e0, 7, 0, 256)
                             ELSE IF r >= 256 THEN [e EXCEPT !.range = r] ELSE Shift(e, 1, 0, r * 2)
  BY DEF EncodeBinTrm
<1>3. EncOK(Shift(e0, 7, 0, 256))
  <2>1. /\ IsEnc(e0) /\ e0.bufferedByte = e.bufferedByte /\ e0.numBuffered = e.numBuffered
        /\ e0.bitsLeft = e.bitsLeft /\ e0.low = e.low + r
    BY <1>1 DEF IsEnc, Fields
  <2> HIDE DEF e0
  <2> DEFINE low == e0.low * 2^7 + 0
  <2>2. 2^7 = 128
    BY SMT
  <2>3. Pow(7) = 128
    BY SMT DEF Pow, Table
  <2>4. low \in Nat /\ low = (e.low + r) * 128
    BY <1>1, <2>1, <2>2
  <2> HIDE DEF low
  <2>5. Within(low, 256, e.low, e.range, 7)
    BY <1>1, <2>3, <2>4 DEF Within
  <2>6. 7 \in 1 .. 8 /\ 256 \in 256 .. 510
    OBVIOUS
  <2>7. Inside(e, e0, 7, low, 0, 256)
    BY <2>1, <2>4, <2>5, <2>6 DEF Inside, low
  <2> QED BY <2>7, ShiftOK
<1>4. r >= 256 => EncOK([e EXCEPT !.range = r])
  <2> SUFFICES ASSUME r >= 256 PROVE EncOK([e EXCEPT !.range = r])
    OBVIOUS
  <2>1. r \in 256 .. 510 /\ r <= e.range
    BY <1>1
  <2> HIDE DEF r
  <2> QED BY <2>1, NarrowOK
<1>5. ~(r >= 256) => EncOK(Shift(e, 1, 0, r * 2))
  <2> SUFFICES ASSUME ~(r >= 256) PROVE EncOK(Shift(e, 1, 0, r * 2))
    OBVIOUS
  <2> DEFINE low == e.low * 2^1 + 0
             range == r * 2
  <2>1. 2^1 = 2
    BY SMT
  <2>2. Pow(1) = 2
    BY SMT DEF Pow, Table
  <2>3. low \in Nat /\ low = e.low * 2
    BY <1>1, <2>1
  <2>4. range \in 256 .. 510 /\ 1 \in 1 .. 8 /\ range + 4 = e.range * 2
    BY <1>1
  <2> HIDE DEF low, range, r
  <2>5. Within(low, range, e.low, e.range, 1)
    BY <1>1, <2>2, <2>3, <2>4 DEF Within
  <2>6. Inside(e, e, 1, low, 0, range)
    BY <1>1, <2>3, <2>4, <2>5 DEF Inside, low
  <2> QED BY <2>6, ShiftOK DEF range
<1> QED BY <1>2, <1>3, <1>4, <1>5
-----------------------------------------------------------------------------
\* A carry is still in low at the end, and low without it.
HasCarry(low, b) == low \div Pow(32 - b) > 0
FinishLow(low, b) == IF HasCarry(low, b) THEN low - Pow(32 - b) ELSE low

\* What finish() finds in low: a carry only when the byte kept back takes it,
\* and bits that fit behind it.
LEMMA FinishBound ==
  ASSUME NEW low \in Nat, NEW range \in 256 .. 510, NEW b \in 12 .. 23,
         Reach(low, range, 17, b)
  PROVE  /\ FinishLow(low, b) \in Nat /\ FinishLow(low, b) <= low
         /\ FinishLow(low, b) \div 256 < Pow(24 - b)
         /\ Reach(low, range, 16, b) => ~HasCarry(low, b)
<1>1. b = 12 \/ b = 13 \/ b = 14 \/ b = 15 \/ b = 16 \/ b = 17 \/ b = 18 \/ b = 19 \/ b = 20
      \/ b = 21 \/ b = 22 \/ b = 23
  OBVIOUS
<1>12. CASE b = 12
  BY <1>1, <1>12, SMT DEF Reach, HasCarry, FinishLow, Pow, Table
<1>13. CASE b = 13
  BY <1>1, <1>13, SMT DEF Reach, HasCarry, FinishLow, Pow, Table
<1>14. CASE b = 14
  BY <1>1, <1>14, SMT DEF Reach, HasCarry, FinishLow, Pow, Table
<1>15. CASE b = 15
  BY <1>1, <1>15, SMT DEF Reach, HasCarry, FinishLow, Pow, Table
<1>16. CASE b = 16
  BY <1>1, <1>16, SMT DEF Reach, HasCarry, FinishLow, Pow, Table
<1>17. CASE b = 17
  BY <1>1, <1>17, SMT DEF Reach, HasCarry, FinishLow, Pow, Table
<1>18. CASE b = 18
  BY <1>1, <1>18, SMT DEF Reach, HasCarry, FinishLow, Pow, Table
<1>19. CASE b = 19
  BY <1>1, <1>19, SMT DEF Reach, HasCarry, FinishLow, Pow, Table
<1>20. CASE b = 20
  BY <1>1, <1>20, SMT DEF Reach, HasCarry, FinishLow, Pow, Table
<1>21. CASE b = 21
  BY <1>1, <1>21, SMT DEF Reach, HasCarry, FinishLow, Pow, Table
<1>22. CASE b = 22
  BY <1>1, <1>22, SMT DEF Reach, HasCarry, FinishLow, Pow, Table
<1>23. CASE b = 23
  BY <1>1, <1>23, SMT DEF Reach, HasCarry, FinishLow, Pow, Table
<1> QED BY <1>1, <1>12, <1>13, <1>14, <1>15, <1>16, <1>17, <1>18, <1>19, <1>20, <1>21, <1>22, <1>23

\* finish() and the alignment after it: every byte and every bit written fits.
LEMMA FinishEncoderOK ==
  ASSUME NEW e, EncOK(e)
  PROVE  EncOK(FinishEncoder(e))
<1> DEFINE b == e.bitsLeft
           unit == 2^(32 - b)
           carry == e.low \div unit > 0
           w == WriteBytes(e, e.bufferedByte + 1, e.numBuffered - 1, 0)
           v == WriteBytes(e, e.bufferedByte, e.numBuffered - 1, 255)
           f == IF carry THEN w ELSE IF e.numBuffered > 0 THEN v ELSE e
           low == IF carry THEN e.low - unit ELSE e.low
           tail == AlignedTail(low \div 256, 24 - b)
           fits == low \div 256 < 2^(24 - b)
           bytes == f.fifo \o tail
           g == [f EXCEPT !.low = low, !.fifo = bytes, !.ok = @ /\ fits]
<1>1. /\ IsEnc(e) /\ Bounds(e.low, e.range, e.bufferedByte, e.numBuffered, e.bitsLeft)
      /\ b \in 12 .. 23
  BY DEF EncOK, Bounded
<1>2. e.low \in Nat /\ e.range \in 256 .. 510 /\ e.bufferedByte \in 0 .. 255 /\ e.numBuffered \in Nat
  BY <1>1 DEF Bounds
<1>3. FinishEncoder(e) = g
  BY DEF FinishEncoder
<1>4. unit = Pow(32 - b) /\ 2^(24 - b) = Pow(24 - b)
  <2>1. 32 - b \in 0 .. 24 /\ 24 - b \in 0 .. 24
    BY <1>1
  <2> QED BY <2>1, PowIs, Zenon
<1> HIDE DEF unit
<1>5. low = FinishLow(e.low, b) /\ (carry <=> HasCarry(e.low, b))
  BY <1>4, Zenon DEF FinishLow, HasCarry
<1>8. Reach(e.low, e.range, 17, b) /\ (e.bufferedByte = 255 => Reach(e.low, e.range, 16, b))
  BY <1>1 DEF Bounds
<1> HIDE DEF low, carry
<1>6. /\ FinishLow(e.low, b) \in Nat /\ FinishLow(e.low, b) <= e.low
      /\ FinishLow(e.low, b) \div 256 < Pow(24 - b)
      /\ Reach(e.low, e.range, 16, b) => ~HasCarry(e.low, b)
  BY <1>1, <1>2, <1>8, FinishBound
<1>9. low \in Nat /\ low <= e.low /\ low \div 256 < 2^(24 - b)
  BY <1>4, <1>5, <1>6
<1>10. fits /\ (carry => e.bufferedByte # 255)
  BY <1>5, <1>6, <1>8, <1>9
<1> HIDE DEF fits, bytes
<1>11. /\ IsEnc(f) /\ f.range = e.range /\ f.bitsLeft = b
       /\ f.bufferedByte = e.bufferedByte /\ f.numBuffered = e.numBuffered
  <2>1. CASE carry
    <3>1. e.bufferedByte + 1 \in 0 .. 255
      BY <1>2, <1>10, <2>1
    <3> QED BY <1>1, <2>1, <3>1, WriteBytesOK
  <2>2. CASE ~carry /\ e.numBuffered > 0
    BY <1>1, <1>2, <2>2, WriteBytesOK
  <2>3. CASE ~carry /\ ~(e.numBuffered > 0)
    BY <1>1, <2>3
  <2> QED BY <2>1, <2>2, <2>3
<1> HIDE DEF f
<1>12. (f.ok /\ fits) = TRUE
  BY <1>10, <1>11 DEF IsEnc
<1>13. g = [f EXCEPT !.low = low, !.fifo = bytes, !.ok = TRUE]
  BY <1>12, Zenon
<1> HIDE DEF g
<1>14. DOMAIN g = Fields /\ g.ok = TRUE
  BY <1>11, <1>13, Zenon DEF IsEnc, Fields
<1>15. /\ g.low = low /\ g.range = e.range /\ g.bitsLeft = b
       /\ g.bufferedByte = e.bufferedByte /\ g.numBuffered = e.numBuffered
  BY <1>11, <1>13 DEF IsEnc, Fields
<1>16. Pow(28 - b) \in Nat
  BY <1>1, SMT DEF Pow, Table
<1>17. Bounds(low, e.range, e.bufferedByte, e.numBuffered, b)
  BY <1>1, <1>9, <1>16 DEF Bounds, Reach
<1> QED BY <1>1, <1>3, <1>14, <1>15, <1>17 DEF EncOK, Bounded, IsEnc
-----------------------------------------------------------------------------
\* The inductive invariant of the substream.
Inv == EncOK(enc) /\ ectx \in [Ctxs -> Models]

\* start() establishes the bounds.
LEMMA InitInv == Init => Inv
<1> SUFFICES ASSUME Init PROVE Inv
  OBVIOUS
<1>1. /\ IsEnc(enc) /\ enc.low = 0 /\ enc.range = 510 /\ enc.bufferedByte = 255
      /\ enc.numBuffered = 0 /\ enc.bitsLeft = 23
  BY DEF Init, StartEncoder, IsEnc, Fields
<1>2. Bounds(0, 510, 255, 0, 23)
  BY SMT DEF Bounds, Reach, Pow, Table
<1>3. EncOK(enc)
  BY <1>1, <1>2 DEF EncOK, Bounded
<1>4. ectx \in [Ctxs -> Models]
  BY BinStreamAssumption DEF Init
<1> QED BY <1>3, <1>4 DEF Inv

\* Every call of the encoder, the end of the substream and every step of the
\* decoder keep the bounds.
LEMMA NextInv == Inv /\ [Next]_vars => Inv'
<1> SUFFICES ASSUME Inv, [Next]_vars PROVE Inv'
  OBVIOUS
<1>0. EncOK(enc) /\ ectx \in [Ctxs -> Models]
  BY DEF Inv
<1>1. ASSUME NEW c \in Ctxs, NEW bin \in {0, 1}, EncBin(c, bin) PROVE Inv'
  <2>1. ectx[c] \in Models
    BY <1>0
  <2>2. EncOK(enc')
    BY <1>0, <1>1, <2>1, EncodeBinOK DEF EncBin
  <2>3. UpdateModel(ectx[c], bin) \in Models
    BY <2>1, UpdateModelOK
  <2>4. ectx' = [ectx EXCEPT ![c] = UpdateModel(ectx[c], bin)]
    BY <1>1 DEF EncBin
  <2>5. ectx' \in [Ctxs -> Models]
    BY <1>0, <2>3, <2>4
  <2> QED BY <2>2, <2>5 DEF Inv
<1>2. ASSUME NEW bin \in {0, 1}, EncBinEP(bin) PROVE Inv'
  <2>1. bin \in Nat /\ bin < 2^1 /\ 1 \in 1 .. 8
    BY SMT
  <2>2. EncOK(PutBins(enc, bin, 1))
    BY <1>0, <2>1, PutBinsOK
  <2> QED BY <1>0, <1>2, <2>2 DEF EncBinEP, EncodeBinEP, Inv
<1>3. ASSUME NEW s \in BinStrings, EncBinsEP(s) PROVE Inv'
  <2>1. s[1] \in 1 .. 16 /\ s[2] \in Nat /\ s[2] < 2^s[1]
    BY BinStreamAssumption
  <2>2. EncOK(EncodeBinsEP(enc, s[2], s[1]))
    BY <1>0, <2>1, EncodeBinsEPOK
  <2> QED BY <1>0, <1>3, <2>2 DEF EncBinsEP, Inv
<1>4. CASE EncBinTrm
  BY <1>0, <1>4, EncodeBinTrmOK DEF EncBinTrm, Inv
<1>5. CASE EncAlign
  BY <1>0, <1>5, AlignOK DEF EncAlign, Inv
<1>6. CASE Finish
  BY <1>0, <1>6, EncodeBinTrmOK, FinishEncoderOK DEF Finish, EndSubstream, Inv
<1>7. CASE Decode \/ UNCHANGED vars
  <2>1. enc' = enc /\ ectx' = ectx
    BY <1>7 DEF Decode, DecBin, DecBinEP, DecBinsEP, DecBinTrm, DecAlign, DecEnd, Return, vars
  <2> QED BY <1>0, <2>1 DEF Inv
<1> QED BY <1>1, <1>2, <1>3, <1>4, <1>5, <1>6, <1>7 DEF Next, Encode

\* The bounds give the types and that the carry fits.
LEMMA InvImplies == Inv => TypeOK /\ CarryFits
  BY DEF Inv, EncOK, Bounded, Bounds, IsEnc, TypeOK, CarryFits

\* For any contexts, any strings of bins and substreams of any length: every
\* value that writeOut() and finish() write fits, so the CHECK of
\* OutputBitstream::write never fails and no carry is lost.
THEOREM CarryAlwaysFits == Spec => []CarryFits
  BY InitInv, NextInv, InvImplies, PTL DEF Spec

\* bitsLeft, range and the estimates of the contexts stay in their ranges.
THEOREM TypeCorrect == Spec => []TypeOK
  BY InitInv, NextInv, InvImplies, PTL DEF Spec
=============================================================================
