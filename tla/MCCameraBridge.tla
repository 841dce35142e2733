---------------------------- MODULE MCCameraBridge ----------------------------
(***************************************************************************)
(* CameraBridge on small instances.                                        *)
(***************************************************************************)
EXTENDS CameraBridge, TLC

CONSTANTS b1, b2

TwoBuffers == {b1, b2}
OneSize == {5}
BufferSymmetry == Permutations(TwoBuffers)

=============================================================================
