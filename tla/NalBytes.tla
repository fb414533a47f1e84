------------------------------ MODULE NalBytes ------------------------------
(***************************************************************************)
(* Emulation prevention: the escapes write() puts into the payload of a    *)
(* NAL unit and convertPayloadToRBSP takes out of the whole unit, noting   *)
(* where they were (counted in bytes of the unit, from 0).                 *)
(***************************************************************************)
EXTENDS Integers, Sequences, SequencesExt

\* Mutant: 3 itself is not escaped.
Escapes_NotThree(zeroCount, v) == zeroCount = 2 /\ v < 3

Escapes(zeroCount, v) == zeroCount = 2 /\ v <= 3

EscapeByte(acc, v) ==
  LET esc == Escapes(acc.zeroCount, v)
      zeros == IF esc THEN 0 ELSE acc.zeroCount
  IN [bytes |-> acc.bytes \o (IF esc THEN <<3, v>> ELSE <<v>>),
      zeroCount |-> IF v = 0 THEN zeros + 1 ELSE 0]

EscapePayload(rbsp) ==
  LET e == FoldLeft(EscapeByte, [bytes |-> <<>>, zeroCount |-> 0], rbsp)
  IN e.bytes \o (IF e.zeroCount > 0 THEN <<3>> ELSE <<>>)
-----------------------------------------------------------------------------
\* Mutant: the zeros before an escape still count after it.
AfterEscape_Counts(acc) ==
  [acc EXCEPT !.escaped = TRUE, !.locations = Append(@, acc.pos), !.pos = @ + 1]

AfterEscape(acc) ==
  [acc EXCEPT !.escaped = TRUE, !.zeroCount = 0, !.locations = Append(@, acc.pos), !.pos = @ + 1]

Copy(acc, b) ==
  [acc EXCEPT !.bytes = Append(@, b), !.escaped = FALSE, !.pos = @ + 1,
              !.zeroCount = IF b = 0 THEN @ + 1 ELSE 0]

ConvertByte(acc, b) ==
  CASE ~acc.ok -> acc
    [] acc.ok /\ acc.escaped -> [Copy(acc, b) EXCEPT !.ok = b <= 3]
    [] acc.ok /\ ~acc.escaped /\ acc.zeroCount >= 2 /\ b < 3 -> [acc EXCEPT !.ok = FALSE]
    [] acc.ok /\ ~acc.escaped /\ acc.zeroCount = 2 /\ b = 3 -> AfterEscape(acc)
    [] OTHER -> Copy(acc, b)

\* cabac_zero_words go, from every unit: the bit that is to tell slices from
\* the rest is the reserved one, which is 0.
StripZeros(bytes) ==
  SubSeq(bytes, 1, SelectLastInSeq(bytes, LAMBDA b : b # 0))

convertPayloadToRBSP(bytes) ==
  LET start == [bytes |-> <<>>, zeroCount |-> 0, escaped |-> FALSE, ok |-> TRUE,
                pos |-> 0, locations |-> <<>>]
      c == FoldLeft(ConvertByte, start, bytes)
  IN [ok |-> c.ok /\ c.zeroCount = 0, bytes |-> StripZeros(c.bytes), locations |-> c.locations]
=============================================================================
