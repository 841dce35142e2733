------------------------- MODULE MCFrameStreamServer -------------------------
(***************************************************************************)
(* FrameStreamServer on small instances.                                   *)
(***************************************************************************)
EXTENDS FrameStreamServer

CONSTANTS b1, b2, b3, c1, c2

MCBuffers == {b1, b2, b3}
TwoBuffers == {b1, b2}
OneClient == {c1}
TwoClients == {c1, c2}

=============================================================================
