---------------------------- MODULE PacketStream ----------------------------
(***************************************************************************)
(* What the sending side of the client promises: the packets of its video  *)
(* stream go out in the order in which the encoder thread made them, each  *)
(* once.  This is the sender that NaluReceive assumes.                     *)
(***************************************************************************)
EXTENDS Naturals, Sequences

CONSTANT Stream   \* the packets of the stream, in order, Fin last

VARIABLE sent

Init == sent = <<>>

SendNext ==
  /\ sent # Stream
  /\ sent' = SubSeq(Stream, 1, Len(sent) + 1)

Next == SendNext

Spec == Init /\ [][Next]_sent

FairSpec == Spec /\ WF_sent(Next)
=============================================================================
