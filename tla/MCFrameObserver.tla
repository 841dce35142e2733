--------------------------- MODULE MCFrameObserver ---------------------------
(***************************************************************************)
(* FrameObserver on small instances.                                       *)
(***************************************************************************)
EXTENDS FrameObserver, TLC

CONSTANTS b1, b2, renderer

MCBuffers == {b1, b2}

(* Every kind of thread that runs `done': the frame thread, the main       *)
(* thread and the thread of a renderer or of a conversion.                 *)
AllThreads == {"frame", "main", renderer}
TwoThreads == {"frame", renderer}
MainAndFrame == {"main", "frame"}

BufferSymmetry == Permutations(MCBuffers)

=============================================================================
