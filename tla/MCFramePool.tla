----------------------------- MODULE MCFramePool -----------------------------
(***************************************************************************)
(* FramePool on the instances of MCFrameObserver.                          *)
(***************************************************************************)
EXTENDS MCFrameObserver, FramePool

=============================================================================
