------------------------------ MODULE FrameSink ------------------------------
(***************************************************************************)
(* What a RenderSystem promises to the one who passes it frames: a frame   *)
(* is returned after it has been drawn, or undrawn when a newer frame      *)
(* replaces it.  So the newest frame is never dropped, and no frame is     *)
(* returned twice.                                                         *)
(***************************************************************************)
CONSTANT Frames

VARIABLES
  lent,   (* frames passed and not returned yet                            *)
  drawn   (* those of them that are on the screen                          *)

sinkVars == <<lent, drawn>>

SinkInit ==
  /\ lent = {}
  /\ drawn = {}

Pass(f) ==
  /\ f \notin lent
  /\ \/ lent' = lent \cup {f}
     \/ \E old \in lent \ drawn : lent' = (lent \ {old}) \cup {f}
  /\ UNCHANGED drawn

Draw(f) ==
  /\ f \in lent \ drawn
  /\ drawn' = drawn \cup {f}
  /\ UNCHANGED lent

Return(f) ==
  /\ f \in drawn
  /\ lent' = lent \ {f}
  /\ drawn' = drawn \ {f}

SinkNext == \E f \in Frames : Pass(f) \/ Draw(f) \/ Return(f)

SinkSpec == SinkInit /\ [][SinkNext]_sinkVars

=============================================================================
