-------------------------- MODULE MCPlayerSession --------------------------
(* Small instances of PlayerSession for TLC. *)
EXTENDS PlayerSession

CONSTANTS p1, p2

OnePeer == {p1}

TwoPeers == {p1, p2}
=============================================================================
