---------------------------- MODULE MCSendQueue ----------------------------
(* Instances of SendQueue: a frame of two packets and one of a single one. *)
EXTENDS SendQueue

TwoFrames == <<2, 1>>
=============================================================================
