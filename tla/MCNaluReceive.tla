--------------------------- MODULE MCNaluReceive ---------------------------
(* Instances of NaluReceive, with packets of two bytes: frames of two      *)
(* packets whose last one is short, and a frame that fills its packet.     *)
EXTENDS NaluReceive

TwoFrames == <<3, 2>>
ThreeFrames == <<3, 3, 2>>
=============================================================================
