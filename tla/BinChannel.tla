----------------------------- MODULE BinChannel -----------------------------
(***************************************************************************)
(* What entropy coding promises: once the substream is closed, the decoder *)
(* returns the symbols that the encoder was given, in their order.         *)
(***************************************************************************)
EXTENDS Naturals, Sequences

CONSTANT Symbols

VARIABLES given,   \* the symbols handed to the encoder
          got,     \* the symbols the decoder has returned
          closed   \* the substream is closed

vars == <<given, got, closed>>

Init == given = <<>> /\ got = <<>> /\ closed = FALSE

Give(s) == ~closed /\ given' = Append(given, s) /\ UNCHANGED <<got, closed>>

Close == ~closed /\ closed' = TRUE /\ UNCHANGED <<given, got>>

Take ==
  /\ closed /\ Len(got) < Len(given)
  /\ got' = Append(got, given[Len(got) + 1])
  /\ UNCHANGED <<given, closed>>

Next == Close \/ Take \/ \E s \in Symbols : Give(s)

Spec == Init /\ [][Next]_vars /\ WF_vars(Take)
=============================================================================
