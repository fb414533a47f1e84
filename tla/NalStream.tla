----------------------------- MODULE NalStream ------------------------------
(***************************************************************************)
(* NAL units as bytes.  The encoder writes them, escaped and with start    *)
(* codes, to a file; the player's encoder thread looks for the start codes *)
(* byte by byte and sends what lies between; the decoder at the other end  *)
(* removes the escapes.  byteStreamNALUnit, with which the other programs  *)
(* read such a file, is the second reader.                                 *)
(* A unit is [layer, type, tid, first, rbsp]: first tells whether it is    *)
(* the first of its access unit, rbsp is its payload, bytes in 0 .. 255.   *)
(***************************************************************************)
EXTENDS NalBytes

CONSTANTS Streams    \* the sequences of units the encoder may write

ParameterSetTypes == 13 .. 16      \* DPS, VPS, SPS, PPS

VARIABLES
  units,      \* what the encoder writes
  written,    \* how many it has written
  file,       \* the bytes of the file
  k, pL,      \* the sender's loop: bytes looked at, start of the unit or 0
  sent,       \* the units it has sent
  received,   \* the units read() has unescaped at the other end
  pos,        \* the byte stream reader: bytes consumed
  extracted   \* the units byteStreamNALUnit has returned

vars == <<units, written, file, k, pL, sent, received, pos, extracted>>
-----------------------------------------------------------------------------
(* Writing.                                                                *)

writeNalUnitHeader(u) == <<u.layer, u.type * 8 + u.tid + 1>>

write(u) == writeNalUnitHeader(u) \o EscapePayload(u.rbsp)

start_code_prefix(u) ==
  IF u.first \/ u.type \in ParameterSetTypes THEN <<0, 0, 0, 1>> ELSE <<0, 0, 1>>

writeAnnexB ==
  /\ written < Len(units)
  /\ LET u == units[written + 1] IN file' = file \o start_code_prefix(u) \o write(u)
  /\ written' = written + 1
  /\ UNCHANGED <<units, k, pL, sent, received, pos, extracted>>
-----------------------------------------------------------------------------
(* The player's encoder thread, when the whole file has been read.         *)

Complete == written = Len(units)

\* Mutant: the zero byte before a start code is taken for the unit's last.
FrameSize_ZeroByte(p) == p - pL - 2

\* p is the place of the 1 of a start code, counted from 1.
FrameSize(p) == IF file[p - 3] = 0 THEN p - pL - 3 ELSE p - pL - 2

StartCodeEnds(p) == p > 2 /\ file[p] = 1 /\ file[p - 1] = 0 /\ file[p - 2] = 0

\* One turn of the loop; a unit is sent when the next start code is seen.
ScanByte ==
  /\ Complete /\ k < Len(file)
  /\ k' = k + 1
  /\ IF StartCodeEnds(k + 1)
       THEN /\ pL' = k + 2
            /\ sent' = IF pL = 0 THEN sent
                       ELSE Append(sent, SubSeq(file, pL, pL + FrameSize(k + 1) - 1))
       ELSE UNCHANGED <<pL, sent>>
  /\ UNCHANGED <<units, written, file, received, pos, extracted>>
-----------------------------------------------------------------------------
(* read() in the decoder: convertPayloadToRBSP and readNalUnitHeader.      *)

\* STSA is type 1.
HeaderOk(bytes) == /\ bytes[1] % 64 <= 55
                   /\ ~(bytes[1] % 64 = 0 /\ bytes[2] % 8 = 1 /\ bytes[2] \div 8 = 1)

\* What read() makes of it; ok if no CHECK fails.
Read ==
  /\ Len(received) < Len(sent)
  /\ LET r == convertPayloadToRBSP(sent[Len(received) + 1])
     IN received' = Append(received,
          [ok |-> r.ok /\ HeaderOk(r.bytes), layer |-> r.bytes[1] % 64, type |-> r.bytes[2] \div 8,
           tid |-> (r.bytes[2] % 8) - 1, rbsp |-> SubSeq(r.bytes, 3, Len(r.bytes))])
  /\ UNCHANGED <<units, written, file, k, pL, sent, pos, extracted>>
-----------------------------------------------------------------------------
(* byteStreamNALUnit.                                                      *)

\* Does the file go on with these bytes after the first p?
Peek(p, bytes) == p + Len(bytes) <= Len(file) /\ SubSeq(file, p + 1, p + Len(bytes)) = bytes

StartsCode(p) == Peek(p, <<0, 0, 1>>) \/ Peek(p, <<0, 0, 0, 1>>)

\* The first of these places from p on, or the end of the file.
FirstFrom(p, places) ==
  LET later == {q \in places : q >= p}
  IN IF later = {} THEN Len(file) ELSE CHOOSE q \in later : \A r \in later : q <= r

EndsUnit(p) == \E b \in 0 .. 2 : Peek(p, <<0, 0, b>>)

byteStreamNALUnit ==
  /\ Complete /\ pos < Len(file)
  /\ LET codes == {q \in 0 .. Len(file) : StartsCode(q)}
         code == FirstFrom(pos, codes)
         from == IF Peek(code, <<0, 0, 1>>) THEN code + 3 ELSE code + 4
         to == FirstFrom(from, {q \in 0 .. Len(file) : EndsUnit(q)})
     IN /\ extracted' = Append(extracted, SubSeq(file, from + 1, to))
        /\ pos' = FirstFrom(to, codes)
  /\ UNCHANGED <<units, written, file, k, pL, sent, received>>
-----------------------------------------------------------------------------
Init ==
  /\ units \in Streams /\ written = 0 /\ file = <<>>
  /\ k = 0 /\ pL = 0 /\ sent = <<>> /\ received = <<>>
  /\ pos = 0 /\ extracted = <<>>

Next == writeAnnexB \/ ScanByte \/ Read \/ byteStreamNALUnit

Spec == Init /\ [][Next]_vars
-----------------------------------------------------------------------------
(* Properties.                                                             *)

Escaped == [i \in DOMAIN units |-> write(units[i])]

\* What write()'s comment quotes of 7.4.1: no start code and no other reserved
\* pattern is inside a unit, whatever its payload, and it does not end in zero.
NoEmulation ==
  \A i \in DOMAIN units :
    LET e == write(units[i]) IN
    /\ e[Len(e)] # 0
    /\ \A j \in 1 .. (Len(e) - 2) :
         e[j] = 0 /\ e[j + 1] = 0 =>
           e[j + 2] >= 3 /\ (e[j + 2] = 3 /\ j + 3 <= Len(e) => e[j + 3] <= 3)

\* The sender's search for start codes of either length cuts the file exactly
\* where the encoder wrote a unit; the last unit, which no start code follows,
\* is never sent (thread_func_for_encoder).
SplitExact ==
  /\ IsPrefix(sent, Escaped)
  /\ Complete /\ k = Len(file) => Len(sent) = Len(units) - 1

\* What the decoder reads is what the encoder wrote, less the zero words at its
\* end, and no CHECK of read() fails; byteStreamNALUnit finds every unit, the
\* last one included, without the zero bytes around it.
ReadBack ==
  /\ \A i \in DOMAIN received :
       LET u == units[i] IN
       received[i] = [ok |-> TRUE, layer |-> u.layer, type |-> u.type, tid |-> u.tid,
                      rbsp |-> StripZeros(u.rbsp)]
  /\ IsPrefix(extracted, Escaped)
  /\ Complete /\ pos = Len(file) => Len(extracted) = Len(units)
=============================================================================
