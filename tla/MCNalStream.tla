---------------------------- MODULE MCNalStream -----------------------------
(***************************************************************************)
(* Instances of NalStream: three units, the first with every payload of up *)
(* to MaxPayload bytes that ends with its trailing bits and, in a slice,   *)
(* up to two cabac_zero_words.                                             *)
(***************************************************************************)
EXTENDS NalStream

CONSTANT MaxPayload

\* One byte of each kind: zero, end of a start code, escape, other.
PayloadBytes == {0, 1, 3, 4}

Payloads(n) == {p \in UNION {[1 .. m -> PayloadBytes] : m \in 1 .. n} : p[Len(p)] # 0}
ZeroWords(n) == [i \in 1 .. 2 * n |-> 0]

NalUnit(layer, type, tid, first, rbsp) ==
  [layer |-> layer, type |-> type, tid |-> tid, first |-> first, rbsp |-> rbsp]

\* TRAIL is 0, PPS 16, EOS 21: a slice, then one that needs no zero byte or
\* one that has it, then an end of sequence without payload.
ThreeUnits ==
  {<<NalUnit(0, 0, 0, TRUE, p \o ZeroWords(z)), u, NalUnit(0, 21, 0, FALSE, <<>>)>> :
     <<p, z, u>> \in
       Payloads(MaxPayload) \X (0 .. 2)
         \X {NalUnit(0, 0, 0, FALSE, <<1>>), NalUnit(1, 16, 2, FALSE, <<0, 0, 1, 4>>)}}
=============================================================================
