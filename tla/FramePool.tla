------------------------------ MODULE FramePool ------------------------------
(***************************************************************************)
(* FrameObserver with a history variable, and the promise of BufferPool    *)
(* that it keeps, on whatever threads the processors call `done', until    *)
(* one of three things happens that the code does not exclude.             *)
(***************************************************************************)
EXTENDS FrameObserver

VARIABLE disturbed  (* has one of the disturbances happened so far?        *)

watchedVars == <<vars, disturbed>>

Busy(t) == rel[t].pc # "idle"

(* Two threads are inside a `done' of the same buffer when its last bit    *)
(* has been cleared: both may read 0, and both then queue the buffer.      *)
BothLast ==
  \E t, u \in Releasers :
    /\ t # u /\ Busy(t) /\ Busy(u)
    /\ rel[t].buf = rel[u].buf
    /\ processMap[rel[t].buf] = {}

(* A wait of StopStream has expired: for the frame thread, or for a buffer. *)
WaitExpired ==
  main = "drain" /\ (~stopped \/ \E b \in alloc \ left : processMap[b] # {})

(* StopStream has seen the last bit cleared and goes on, while the thread  *)
(* that cleared it is still between the clearing and the queueing.         *)
DoneOvertaken == main = "streamoff" /\ \E t \in Releasers : Busy(t)

Disturbance == BothLast \/ WaitExpired \/ DoneOvertaken

WatchedInit == Init /\ disturbed = FALSE
WatchedNext == Next /\ disturbed' = (disturbed \/ Disturbance')
WatchedSpec == WatchedInit /\ [][WatchedNext]_watchedVars

-----------------------------------------------------------------------------
(* Properties. *)

(* Buffer ownership, as BufferPool promises it. *)
Owner(b) == IF b \notin alloc THEN "none"
            ELSE IF DriverMayWrite(b) THEN "driver" ELSE "app"
Pool == INSTANCE BufferPool WITH owner <- [b \in Buffers |-> Owner(b)], users <- held

(* On any threads the processors call `done', frames are handed out and    *)
(* buffers given back, torn down and freed as BufferPool says: a buffer    *)
(* goes to the driver, or loses its memory, only when no processor uses    *)
(* it.  This holds up to the first disturbance and for the step that       *)
(* brings it about; nothing is claimed of what comes after.                *)
ImplementsPool ==
  Pool!PoolInit /\ [][disturbed \/ Pool!PoolNext]_(Pool!poolVars)

(* The driver does not write into a frame some processor still holds,      *)
(* unless a disturbance has let two `done's queue one buffer, or the       *)
(* teardown overtake one.                                                  *)
FramesKeptUntilDisturbed == disturbed \/ NoWriteWhileHeld

=============================================================================
