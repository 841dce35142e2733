-------------------------- MODULE DisplayPathProofs --------------------------
(***************************************************************************)
(* Theorems about DisplayPath, for any buffers and formats: the render     *)
(* systems hold every frame exactly once until they return it, and they    *)
(* keep the promise of FrameSink.                                          *)
(***************************************************************************)
EXTENDS DisplayPath, TLAPS

(* Where the main thread is, what the stream's state says of it, and what  *)
(* both say of the frame thread and the renderer: between streams nothing  *)
(* is left in the renderer, unless memory it refers to has been freed.     *)
Control ==
  /\ stop = "starting" <=> stream = "Starting"
  /\ stop \notin {"idle", "starting"} => stream = "Stopping"
  /\ stop = "idle" => stream \in {"Stopped", "Streaming"}
  /\ stop \in {"drain", "events"} \/ stream = "Stopped" => frame.at = "off"
  /\ stream = "Stopped" /\ ~stale => waiting = NoFrame /\ using = NoFrame
  /\ painting # "no" => renderer = "egl"

(* What the driver has, no processor has. *)
DriverApart == \A b \in Buffers : place[b] = "driver" => pending[b] = {}

DisplayInv == DisplayTypeOK /\ Control /\ DriverApart /\ RenderOneHolder

(* Initially nothing is streamed. *)
LEMMA DisplayInvInit == DisplayInit => DisplayInv
<1> SUFFICES ASSUME DisplayInit PROVE DisplayInv
  OBVIOUS
<1> USE DEF DisplayInit
<1>1. {visible, showFrames, running, formatRaced, dialog, stale} \subseteq BOOLEAN
  OBVIOUS
<1>2. ~stale
  OBVIOUS
<1>3. DisplayTypeOK
  BY <1>1, NoFrameAssumption, MaxHidesAssumption
     DEF DisplayTypeOK, NoFormatOr, OneOrNone, Processors
<1> QED
  BY <1>2, <1>3, NoFrameAssumption
     DEF DisplayInv, Control, DriverApart, RenderOneHolder

(* What `done' does to the two maps. *)
LEMMA DoneEffect ==
  ASSUME DisplayTypeOK, DriverApart, NEW b \in Buffers, NEW p \in Processors, Done(b, p)
  PROVE  /\ pending' \in [Buffers -> SUBSET Processors]
         /\ pending'[b] = pending[b] \ {p}
         /\ \A c \in Buffers \ {b} : pending'[c] = pending[c]
         /\ place' \in [Buffers -> {"none", "driver", "viewer"}]
         /\ DriverApart'
BY DEF DisplayTypeOK, DriverApart, Done, Processors

(* The frame thread. *)
LEMMA FrameThreadKeeps ==
  ASSUME DisplayInv, FrameThread \/ \E b \in Buffers : Dequeue(b)
  PROVE  DisplayInv'
<1> USE NoFrameAssumption
        DEF DisplayInv, DisplayTypeOK, Control, RenderOneHolder, NoFormatOr, OneOrNone,
            NothingDone, userVars, mainVars, mailVars, widgetVars
<1>1. ASSUME NEW b \in Buffers, Dequeue(b) PROVE DisplayInv'
  BY <1>1 DEF Dequeue, DriverApart, Processors
<1>2. CASE RenderChecks
  <2>1. CASE Wanted
    BY <1>2, <2>1 DEF RenderChecks, DriverApart
  <2>2. CASE ~Wanted
    <3>1. "render" \in Processors /\ frame.buf \in Buffers /\ Done(frame.buf, "render")
      BY <1>2, <2>2 DEF RenderChecks, Processors
    <3> QED
      BY <1>2, <2>2, <3>1, DoneEffect DEF RenderChecks
  <2> QED
    BY <2>1, <2>2
<1>3. CASE SetFormat
  BY <1>3 DEF SetFormat, DriverApart
<1>4. CASE PassFrame
  <2>1. CASE waiting = NoFrame
    BY <1>4, <2>1 DEF PassFrame, Replace, DriverApart
  <2>2. CASE waiting # NoFrame
    <3>1. "render" \in Processors /\ waiting \in Buffers /\ Done(waiting, "render")
      BY <1>4, <2>2 DEF PassFrame, Replace, Processors
    <3> QED
      BY <1>4, <2>2, <3>1, DoneEffect DEF PassFrame
  <2> QED
    BY <2>1, <2>2
<1>5. CASE RetainChecks
  <2>1. CASE Wanted
    BY <1>5, <2>1 DEF RetainChecks, DriverApart
  <2>2. CASE ~Wanted
    <3>1. "retain" \in Processors /\ frame.buf \in Buffers /\ Done(frame.buf, "retain")
      BY <1>5, <2>2 DEF RetainChecks, Processors
    <3> QED
      BY <1>5, <2>2, <3>1, DoneEffect DEF RetainChecks
  <2> QED
    BY <2>1, <2>2
<1>6. CASE Retain
  <2>1. CASE retained = NoFrame
    BY <1>6, <2>1 DEF Retain, GivesBack, DriverApart
  <2>2. CASE retained # NoFrame
    <3>1. "retain" \in Processors /\ retained \in Buffers /\ Done(retained, "retain")
      BY <1>6, <2>2 DEF Retain, GivesBack, Processors
    <3> QED
      BY <1>6, <2>2, <3>1, DoneEffect DEF Retain
  <2> QED
    BY <2>1, <2>2
<1>7. CASE FrameThreadEnds
  BY <1>7 DEF FrameThreadEnds, DriverApart
<1> QED
  BY <1>1, <1>2, <1>3, <1>4, <1>5, <1>6, <1>7 DEF FrameThread

(* The conversion thread and the widget. *)
LEMMA RendererKeeps ==
  ASSUME DisplayInv, ConversionThread \/ Paint
  PROVE  DisplayInv'
<1> USE NoFrameAssumption
        DEF DisplayInv, DisplayTypeOK, Control, RenderOneHolder, NoFormatOr, OneOrNone,
            NothingDone, userVars, mainVars, mailVars, widgetVars
<1>0. "render" \in Processors
  BY DEF Processors
<1>1. CASE ConvWaits
  BY <1>1 DEF ConvWaits, DriverApart
<1>2. CASE ConvTakes
  BY <1>2 DEF ConvTakes, Take, DriverApart
<1>3. CASE ConvDraws
  BY <1>3 DEF ConvDraws, DriverApart
<1>4. CASE ConvReturns
  <2>1. using \in Buffers /\ Done(using, "render")
    BY <1>4 DEF ConvReturns
  <2> QED
    BY <1>0, <1>4, <2>1, DoneEffect DEF ConvReturns
<1>5. CASE PaintBegins
  <2>1. formatRaced' \in BOOLEAN
    BY <1>5 DEF PaintBegins
  <2> QED
    BY <1>5, <2>1 DEF PaintBegins, DriverApart
<1>6. CASE PaintUploads
  <2>1. formatRaced' \in BOOLEAN
    BY <1>6 DEF PaintUploads
  <2> QED
    BY <1>6, <2>1 DEF PaintUploads, DriverApart
<1>7. CASE PaintReturns
  <2>1. waiting \in Buffers /\ Done(waiting, "render")
    BY <1>7 DEF PaintReturns
  <2> QED
    BY <1>0, <1>7, <2>1, DoneEffect DEF PaintReturns
<1> QED
  BY <1>1, <1>2, <1>3, <1>4, <1>5, <1>6, <1>7 DEF ConversionThread, Paint

(* The main thread starts and stops streams. *)
LEMMA MainThreadKeeps ==
  ASSUME DisplayInv, StreamingStarts \/ StopSteps \/ StartStreaming \/ StopRequested
  PROVE  DisplayInv'
<1> USE NoFrameAssumption
        DEF DisplayInv, DisplayTypeOK, Control, RenderOneHolder, NoFormatOr, OneOrNone,
            NothingDone, userVars, mainVars, mailVars, widgetVars, MainAt, HandlesEvents
<1>1. CASE StreamingStarts
  BY <1>1 DEF StreamingStarts, DriverApart
<1>2. CASE StartStreaming
  BY <1>2 DEF StartStreaming, DriverApart, Processors
<1>3. CASE StopRequested
  BY <1>3 DEF StopRequested, DriverApart
<1>4. CASE StopCallsDone
  <2>1. CASE retained = NoFrame
    BY <1>4, <2>1 DEF StopCallsDone, DriverApart
  <2>2. CASE retained # NoFrame
    <3>1. "retain" \in Processors /\ retained \in Buffers /\ Done(retained, "retain")
      BY <1>4, <2>2 DEF StopCallsDone, Processors
    <3> QED
      BY <1>4, <2>2, <3>1, DoneEffect DEF StopCallsDone
  <2> QED
    BY <2>1, <2>2
<1>5. CASE StopEmptiesDone
  BY <1>5 DEF StopEmptiesDone, DriverApart
<1>6. CASE StopSignals
  <2>1. running' \in BOOLEAN
    BY <1>6 DEF StopSignals
  <2> QED
    BY <1>6, <2>1 DEF StopSignals, DriverApart
<1>7. CASE StopJoins
  BY <1>7 DEF StopJoins, DriverApart
<1>8. ASSUME NEW b \in Buffers, DrainBuffer(b) \/ DrainExpires(b) PROVE DisplayInv'
  BY <1>8 DEF DrainBuffer, DrainExpires, DriverApart
<1>9. CASE Drained
  BY <1>9 DEF Drained, DriverApart
<1>10. CASE DeleteUserBuffer
  <2>1. stale' \in BOOLEAN
    BY <1>10 DEF DeleteUserBuffer
  <2>2. ~stale' => waiting = NoFrame /\ using = NoFrame
    BY <1>10 DEF DeleteUserBuffer
  <2> QED
    BY <1>10, <2>1, <2>2 DEF DeleteUserBuffer, ForgetsRetained, DriverApart, Processors
<1> QED
  BY <1>1, <1>2, <1>3, <1>4, <1>5, <1>6, <1>7, <1>8, <1>9, <1>10 DEF StopSteps

(* Users and the window system. *)
LEMMA UsersKeep ==
  ASSUME DisplayInv,
         SaveBegins \/ SaveEnds \/ OnShowFrames \/ WindowHidden \/ WindowShown
  PROVE  DisplayInv'
<1> USE DEF userVars, mainVars, mailVars, widgetVars, HandlesEvents,
            SaveBegins, SaveEnds, OnShowFrames, WindowHidden, WindowShown
<1>1. dialog' \in BOOLEAN /\ showFrames' \in BOOLEAN /\ visible' \in BOOLEAN
  BY DEF DisplayInv, DisplayTypeOK
<1>2. hides' \in 0 .. MaxHides
  BY MaxHidesAssumption DEF DisplayInv, DisplayTypeOK
<1>3. /\ UNCHANGED <<renderer, mainVars, place, pending, frame, retained, mailVars, widgetVars>>
  OBVIOUS
<1> QED
  BY <1>1, <1>2, <1>3
     DEF DisplayInv, DisplayTypeOK, Control, RenderOneHolder, DriverApart, NoFormatOr, OneOrNone

(* Every step keeps the invariant. *)
LEMMA DisplayInvStep == DisplayInv /\ [DisplayNext]_displayVars => DisplayInv'
<1> SUFFICES ASSUME DisplayInv, [DisplayNext]_displayVars PROVE DisplayInv'
  OBVIOUS
<1>1. CASE UNCHANGED displayVars
  BY <1>1 DEF DisplayInv, DisplayTypeOK, Control, RenderOneHolder, DriverApart, NoFormatOr,
              OneOrNone, displayVars, userVars, mainVars, mailVars, widgetVars
<1>2. CASE DisplayNext
  BY <1>2, FrameThreadKeeps, RendererKeeps, MainThreadKeeps, UsersKeep DEF DisplayNext, User
<1> QED
  BY <1>1, <1>2

(* Type correctness. *)
THEOREM DisplayTypeCorrect == DisplaySpec => []DisplayTypeOK
<1>1. DisplayInv => DisplayTypeOK
  BY DEF DisplayInv
<1> QED
  BY <1>1, DisplayInvInit, DisplayInvStep, PTL DEF DisplaySpec

(* No frame goes back to the driver while a renderer holds it, and none    *)
(* that a renderer has not returned is without a holder.                   *)
THEOREM RenderersHoldOnce == DisplaySpec => []RenderOneHolder
<1>1. DisplayInv => RenderOneHolder
  BY DEF DisplayInv
<1> QED
  BY <1>1, DisplayInvInit, DisplayInvStep, PTL DEF DisplaySpec

(* As long as no memory was freed under the renderer, what it has been     *)
(* lent is what it refers to.                                              *)
LEMMA LentAreHeld ==
  ASSUME DisplayInv, ~stale
  PROVE  LentFrames = {waiting, using} \cap Buffers
BY DEF DisplayInv, DisplayTypeOK, RenderOneHolder, LentFrames

(* The steps that move a frame inside the renderer, one action each.       *)
LEMMA RendererImplements ==
  ASSUME DisplayInv, DisplayInv', ~stale, ~stale',
         PassFrame \/ ConversionThread \/ Paint
  PROVE  Sink!SinkNext \/ UNCHANGED <<LentFrames, DrawnFrames>>
<1> DEFINE Lent == {waiting, using} \cap Buffers
<1>1. LentFrames = Lent /\ LentFrames' = Lent'
  <2>1. LentFrames = Lent
    BY LentAreHeld
  <2>2. LentFrames' = Lent'
    BY DEF DisplayInv, DisplayTypeOK, RenderOneHolder, LentFrames
  <2> QED
    BY <2>1, <2>2
<1>2. /\ waiting # NoFrame => waiting # using
      /\ waiting \in Buffers \cup {NoFrame} /\ using \in Buffers \cup {NoFrame}
      /\ conv \in {"test", "asleep", "convert", "drawn"}
      /\ conv \in {"convert", "drawn"} <=> using \in Buffers
      /\ painting \in {"no", "upload", "return"}
      /\ painting # "no" => renderer = "egl"
  BY DEF DisplayInv, DisplayTypeOK, Control, RenderOneHolder, OneOrNone
<1> USE <1>2, NoFrameAssumption
        DEF DrawnFrames, Sink!SinkNext, Sink!Pass, Sink!Draw, Sink!Return, mailVars, widgetVars
<1>3. CASE PassFrame
  <2>1. /\ frame.buf \in Buffers /\ frame.buf \notin Lent
    BY <1>3 DEF PassFrame, DisplayInv, DisplayTypeOK, RenderOneHolder
  <2>2. UNCHANGED DrawnFrames
    BY <1>3 DEF PassFrame
  <2>3. CASE waiting = NoFrame
    <3>1. Lent' = Lent \cup {frame.buf}
      BY <1>3, <2>1, <2>3 DEF PassFrame
    <3> QED
      BY <1>1, <2>1, <2>2, <3>1
  <2>4. CASE waiting # NoFrame
    <3>1. waiting \in Lent \ DrawnFrames
      BY <1>3, <2>4 DEF PassFrame
    <3>2. Lent' = (Lent \ {waiting}) \cup {frame.buf}
      BY <1>3, <2>1, <2>4 DEF PassFrame
    <3> QED
      BY <1>1, <2>1, <2>2, <3>1, <3>2
  <2> QED
    BY <2>3, <2>4
<1>4. CASE ConvWaits
  BY <1>1, <1>4 DEF ConvWaits
<1>5. CASE ConvTakes
  BY <1>1, <1>5 DEF ConvTakes, Take
<1>6. CASE ConvDraws
  <2>1. using \in Buffers /\ using \in Lent \ DrawnFrames
    BY <1>6 DEF ConvDraws
  <2>2. DrawnFrames' = DrawnFrames \cup {using} /\ Lent' = Lent
    BY <1>6 DEF ConvDraws
  <2> QED
    BY <1>1, <2>1, <2>2
<1>7. CASE ConvReturns
  <2>1. using \in Buffers /\ using \in DrawnFrames
    BY <1>7 DEF ConvReturns
  <2>2. DrawnFrames' = DrawnFrames \ {using} /\ Lent' = Lent \ {using}
    BY <1>7 DEF ConvReturns
  <2> QED
    BY <1>1, <2>1, <2>2
<1>8. CASE PaintBegins
  BY <1>1, <1>8 DEF PaintBegins
<1>9. CASE PaintUploads
  <2>1. CASE waiting = NoFrame
    BY <1>1, <1>9, <2>1 DEF PaintUploads
  <2>2. CASE waiting # NoFrame
    <3>1. waiting \in Buffers /\ waiting \in Lent \ DrawnFrames
      BY <1>9, <2>2 DEF PaintUploads
    <3>2. DrawnFrames' = DrawnFrames \cup {waiting} /\ Lent' = Lent
      BY <1>9, <2>2 DEF PaintUploads
    <3> QED
      BY <1>1, <3>1, <3>2
  <2> QED
    BY <2>1, <2>2
<1>10. CASE PaintReturns
  <2>1. waiting \in Buffers /\ waiting \in DrawnFrames
    BY <1>10 DEF PaintReturns, DisplayInv, DisplayTypeOK
  <2>2. DrawnFrames' = DrawnFrames \ {waiting} /\ Lent' = Lent \ {waiting}
    BY <1>10 DEF PaintReturns
  <2> QED
    BY <1>1, <2>1, <2>2
<1> QED
  BY <1>3, <1>4, <1>5, <1>6, <1>7, <1>8, <1>9, <1>10 DEF ConversionThread, Paint

(* Every other step is none of the sink's.                                 *)
LEMMA OthersStutter ==
  ASSUME DisplayInv, DisplayInv', ~stale, ~stale', DisplayNext,
         ~(PassFrame \/ ConversionThread \/ Paint)
  PROVE  UNCHANGED <<LentFrames, DrawnFrames>>
<1>1. UNCHANGED <<waiting, using, conv, painting>>
  BY DEF DisplayNext, FrameThread, StopSteps, User, mailVars, widgetVars, userVars, mainVars,
         Dequeue, RenderChecks, SetFormat, RetainChecks, Retain, FrameThreadEnds,
         StreamingStarts, StopCallsDone, StopEmptiesDone, StopSignals, StopJoins, DrainBuffer,
         DrainExpires, Drained, DeleteUserBuffer, SaveEnds, StartStreaming, StopRequested,
         SaveBegins, OnShowFrames, WindowHidden, WindowShown
<1>2. LentFrames = {waiting, using} \cap Buffers
  BY LentAreHeld
<1>3. LentFrames' = {waiting', using'} \cap Buffers
  BY DEF DisplayInv, DisplayTypeOK, RenderOneHolder, LentFrames
<1> QED
  BY <1>1, <1>2, <1>3 DEF DrawnFrames

(* A stale renderer stays stale. *)
LEMMA StaleStays == ASSUME DisplayNext, stale PROVE stale'
BY DEF DisplayNext, FrameThread, ConversionThread, Paint, StopSteps, User, mailVars, widgetVars,
       userVars, mainVars, Dequeue, RenderChecks, SetFormat, PassFrame, RetainChecks, Retain,
       FrameThreadEnds, ConvWaits, ConvTakes, ConvDraws, ConvReturns, PaintBegins,
       PaintUploads, PaintReturns, StreamingStarts, StopCallsDone, StopEmptiesDone,
       StopSignals, StopJoins, DrainBuffer, DrainExpires, Drained, DeleteUserBuffer, SaveEnds,
       StartStreaming, StopRequested, SaveBegins, OnShowFrames, WindowHidden, WindowShown

(* The render systems, their mailboxes and threads implement FrameSink:    *)
(* they draw a frame or replace it by a newer one before they return it.   *)
THEOREM RenderersImplementSink == DisplaySpec => ImplementsSink
<1>1. DisplayInit => Sink!SinkInit
  BY DEF DisplayInit, Sink!SinkInit, LentFrames, DrawnFrames
<1>2. DisplayInv /\ DisplayInv' /\ [DisplayNext]_displayVars
        => [stale' \/ Sink!SinkNext]_<<LentFrames, DrawnFrames>>
  <2> SUFFICES ASSUME DisplayInv, DisplayInv', [DisplayNext]_displayVars, ~stale'
               PROVE  Sink!SinkNext \/ UNCHANGED <<LentFrames, DrawnFrames>>
    OBVIOUS
  <2>1. CASE UNCHANGED displayVars
    BY <2>1 DEF displayVars, mailVars, widgetVars, LentFrames, DrawnFrames
  <2>2. CASE DisplayNext
    <3>1. ~stale
      BY <2>2, StaleStays
    <3> QED
      BY <2>2, <3>1, RendererImplements, OthersStutter
  <2> QED
    BY <2>1, <2>2
<1> QED
  BY <1>1, <1>2, DisplayInvInit, DisplayInvStep, PTL DEF DisplaySpec, ImplementsSink

-----------------------------------------------------------------------------
(* The retained frame. *)

(* The processors have a frame that nobody else gives back; the retained   *)
(* frame is another one and has not been given back, except while a Stop   *)
(* is between the call of its callback and the assignment after it.        *)
RetainInv ==
  /\ frame.at \notin {"off", "loop"} =>
       "retain" \in pending[frame.buf] /\ place[frame.buf] = "viewer"
  /\ retained # NoFrame /\ stop # "null" =>
       /\ "retain" \in pending[retained] /\ place[retained] = "viewer"
       /\ frame.at \notin {"off", "loop"} => frame.buf # retained
  /\ stream = "Stopped" => retained = NoFrame
  /\ dialog => stop \in {"idle", "drain", "events"}

LEMMA RetainInvStep == DisplayInv /\ RetainInv /\ [DisplayNext]_displayVars => RetainInv'
<1> SUFFICES ASSUME DisplayInv, RetainInv, [DisplayNext]_displayVars PROVE RetainInv'
  OBVIOUS
<1>a. DisplayTypeOK /\ Control /\ DriverApart
  BY DEF DisplayInv
<1>t. /\ pending \in [Buffers -> SUBSET Processors]
      /\ place \in [Buffers -> {"none", "driver", "viewer"}]
      /\ retained \in Buffers \cup {NoFrame}
      /\ frame.at \notin {"off", "loop"} => frame.buf \in Buffers
      /\ frame = [at |-> frame.at, buf |-> frame.buf]
  BY <1>a DEF DisplayTypeOK, OneOrNone
<1> USE NoFrameAssumption DEF userVars, mainVars, mailVars, widgetVars, NothingDone
(* A `done' of the renderer leaves what waits for the other processor. *)
<1>d. ASSUME NEW b \in Buffers, NEW p \in Processors, Done(b, p), NEW c \in Buffers,
             c # b \/ p = "render", "retain" \in pending[c], place[c] = "viewer"
      PROVE  "retain" \in pending'[c] /\ place'[c] = "viewer"
  BY <1>d, <1>t DEF Done
<1>r. ASSUME NEW b \in Buffers, Done(b, "render"),
             UNCHANGED <<retained, stop, stream, dialog>>,
             frame'.at \notin {"off", "loop"} =>
               frame.at \notin {"off", "loop"} /\ frame'.buf = frame.buf
      PROVE  RetainInv'
  <2>1. "render" \in Processors
    BY DEF Processors
  <2>2. \A c \in Buffers : "retain" \in pending[c] /\ place[c] = "viewer"
                             => "retain" \in pending'[c] /\ place'[c] = "viewer"
    BY <1>d, <1>r, <2>1
  <2> QED
    BY <1>t, <1>r, <2>2 DEF RetainInv
<1>u. ASSUME UNCHANGED <<place, pending, retained, stop, stream, dialog>>,
             frame'.at \notin {"off", "loop"} =>
               frame.at \notin {"off", "loop"} /\ frame'.buf = frame.buf
      PROVE  RetainInv'
  BY <1>u DEF RetainInv
<1>1. ASSUME NEW b \in Buffers, Dequeue(b) PROVE RetainInv'
  BY <1>1, <1>t DEF Dequeue, RetainInv, Processors
<1>2. CASE RenderChecks
  <2>1. CASE Wanted
    BY <1>2, <1>t, <1>u, <2>1 DEF RenderChecks
  <2>2. CASE ~Wanted
    <3>1. /\ Done(frame.buf, "render") /\ frame.buf \in Buffers
          /\ UNCHANGED <<retained, stop, stream, dialog>>
          /\ frame.at = "render" /\ frame'.buf = frame.buf
      BY <1>2, <1>t, <2>2 DEF RenderChecks
    <3> QED
      BY <1>r, <3>1
  <2> QED
    BY <2>1, <2>2
<1>3. CASE SetFormat
  BY <1>3, <1>t, <1>u DEF SetFormat
<1>4. CASE PassFrame
  <2>1. CASE waiting = NoFrame
    BY <1>4, <1>t, <1>u, <2>1 DEF PassFrame, Replace
  <2>2. CASE waiting # NoFrame
    <3>1. /\ Done(waiting, "render") /\ waiting \in Buffers
          /\ UNCHANGED <<retained, stop, stream, dialog>>
          /\ frame.at = "pass" /\ frame'.buf = frame.buf
      BY <1>4, <1>a, <1>t, <2>2 DEF PassFrame, Replace, DisplayTypeOK, OneOrNone
    <3> QED
      BY <1>r, <3>1
  <2> QED
    BY <2>1, <2>2
<1>5. CASE RetainChecks
  <2>1. CASE Wanted
    BY <1>5, <1>t, <1>u, <2>1 DEF RetainChecks
  <2>2. CASE ~Wanted
    <3>1. /\ Done(frame.buf, "retain") /\ frame.buf \in Buffers /\ "retain" \in Processors
          /\ UNCHANGED <<retained, stop, stream, dialog>>
          /\ frame'.at = "loop" /\ frame.at = "retain"
      BY <1>5, <1>t, <2>2 DEF RetainChecks, Processors
    <3>2. ASSUME retained # NoFrame, stop # "null"
          PROVE  "retain" \in pending'[retained] /\ place'[retained] = "viewer"
      BY <1>d, <1>t, <3>1, <3>2 DEF RetainInv
    <3> QED
      BY <3>1, <3>2 DEF RetainInv
  <2> QED
    BY <2>1, <2>2
<1>6. CASE Retain
  <2>1. /\ retained' = frame.buf /\ frame'.at = "loop" /\ frame.at = "lock"
        /\ frame.buf \in Buffers /\ "retain" \in pending[frame.buf] /\ place[frame.buf] = "viewer"
        /\ UNCHANGED <<stop, stream, dialog>> /\ "retain" \in Processors
    BY <1>6, <1>t DEF Retain, RetainInv, Processors
  <2>2. stream # "Stopped"
    BY <1>a, <2>1 DEF Control
  <2>3. ASSUME stop # "null"
        PROVE  "retain" \in pending'[frame.buf] /\ place'[frame.buf] = "viewer"
    <3>1. CASE retained = NoFrame
      BY <1>6, <2>1, <3>1 DEF Retain, GivesBack
    <3>2. CASE retained # NoFrame
      <4>1. Done(retained, "retain") /\ retained \in Buffers
        BY <1>6, <1>t, <3>2 DEF Retain, GivesBack
      <4>2. frame.buf # retained
        BY <2>1, <2>3, <3>2 DEF RetainInv
      <4> QED
        BY <1>d, <2>1, <4>1, <4>2
    <3> QED
      BY <3>1, <3>2
  <2> QED
    BY <2>1, <2>2, <2>3 DEF RetainInv
<1>7. CASE FrameThreadEnds
  BY <1>7, <1>t, <1>u DEF FrameThreadEnds
<1>8. CASE ConvWaits \/ ConvTakes \/ ConvDraws \/ PaintBegins \/ PaintUploads \/ UNCHANGED displayVars
  BY <1>8, <1>u DEF ConvWaits, ConvTakes, ConvDraws, PaintBegins, PaintUploads, displayVars
<1>9. CASE ConvReturns
  <2>1. Done(using, "render") /\ using \in Buffers /\ UNCHANGED <<retained, stop, stream, dialog, frame>>
    BY <1>9, <1>a DEF ConvReturns, DisplayTypeOK
  <2> QED
    BY <1>r, <2>1
<1>10. CASE PaintReturns
  <2>1. Done(waiting, "render") /\ waiting \in Buffers
        /\ UNCHANGED <<retained, stop, stream, dialog, frame>>
    BY <1>10, <1>a DEF PaintReturns, DisplayTypeOK
  <2> QED
    BY <1>r, <2>1
<1>11. CASE StreamingStarts \/ StopRequested \/ StopSignals
  BY <1>11 DEF StreamingStarts, StopRequested, StopSignals, MainAt, HandlesEvents, RetainInv
<1>12. CASE StartStreaming
  <2>1. retained' = NoFrame /\ ~dialog /\ dialog' = dialog /\ frame'.at = "loop"
    BY <1>12, <1>t DEF StartStreaming, HandlesEvents, RetainInv
  <2> QED
    BY <2>1, <1>12 DEF StartStreaming, RetainInv
<1>13. CASE StopCallsDone
  <2>1. ~dialog /\ dialog' = dialog /\ UNCHANGED <<retained, frame, stream>>
        /\ stop = "release"
    BY <1>13 DEF StopCallsDone, MainAt
  <2>2. CASE retained = NoFrame
    BY <1>13, <2>1, <2>2 DEF StopCallsDone, RetainInv
  <2>3. CASE retained # NoFrame
    <3>1. Done(retained, "retain") /\ retained \in Buffers /\ stop' = "null" /\ "retain" \in Processors
      BY <1>13, <1>t, <2>3 DEF StopCallsDone, Processors
    <3>2. ASSUME frame.at \notin {"off", "loop"}
          PROVE  "retain" \in pending'[frame.buf] /\ place'[frame.buf] = "viewer"
      BY <1>d, <1>t, <2>1, <2>3, <3>1, <3>2 DEF RetainInv
    <3> QED
      BY <2>1, <3>1, <3>2 DEF RetainInv
  <2> QED
    BY <2>2, <2>3
<1>14. CASE StopEmptiesDone
  BY <1>14 DEF StopEmptiesDone, MainAt, RetainInv
<1>15. CASE StopJoins \/ \E b \in Buffers : DrainBuffer(b) \/ DrainExpires(b)
  BY <1>15 DEF StopJoins, DrainBuffer, DrainExpires, MainAt, RetainInv
<1>16. CASE Drained
  <2>1. frame.at = "off" /\ frame' = frame
    BY <1>16, <1>a DEF Drained, MainAt, Control
  <2>2. \A b \in Buffers : place'[b] = "viewer"
    BY <1>16 DEF Drained
  <2> QED
    BY <1>16, <1>t, <2>1, <2>2 DEF Drained, MainAt, RetainInv
<1>17. CASE DeleteUserBuffer
  <2>1. frame.at = "off" /\ frame' = frame
    BY <1>17, <1>a DEF DeleteUserBuffer, MainAt, Control
  <2> QED
    BY <1>17, <2>1 DEF DeleteUserBuffer, ForgetsRetained, MainAt, RetainInv
<1>18. CASE SaveBegins \/ SaveEnds \/ OnShowFrames \/ WindowHidden \/ WindowShown
  BY <1>18 DEF SaveBegins, SaveEnds, OnShowFrames, WindowHidden, WindowShown, HandlesEvents, RetainInv
<1> QED
  BY <1>1, <1>2, <1>3, <1>4, <1>5, <1>6, <1>7, <1>8, <1>9, <1>10, <1>11, <1>12, <1>13, <1>14, <1>15,
     <1>16, <1>17, <1>18
     DEF DisplayNext, FrameThread, ConversionThread, Paint, StopSteps, User

LEMMA RetainInvHolds == DisplaySpec => [](DisplayInv /\ RetainInv)
<1>1. DisplayInit => RetainInv
  BY DEF DisplayInit, RetainInv
<1> QED
  BY <1>1, DisplayInvInit, DisplayInvStep, RetainInvStep, PTL DEF DisplaySpec

(* The frame that is kept for Save image and for a click has not been      *)
(* given back, except between the two statements of Stop: a frame that     *)
(* arrives gives back the one before it, never the one that is kept, and   *)
(* Stop and the frame thread do not both give it back.                     *)
THEOREM RetainedFrameIsHeld == DisplaySpec => []RetainedIsHeld
<1>1. RetainInv => RetainedIsHeld
  BY DEF RetainInv, RetainedIsHeld
<1> QED
  BY <1>1, RetainInvHolds, PTL

(* Wherever a handler can run, in the file dialog, in the wait of a Stop   *)
(* and after it, the frame it would read has memory.                       *)
THEOREM SavedFrameHasMemory == DisplaySpec => []SavedFrameLive
<1>1. RetainInv => SavedFrameLive
  BY DEF RetainInv, SavedFrameLive, HandlesEvents
<1> QED
  BY <1>1, RetainInvHolds, PTL

-----------------------------------------------------------------------------
(* The format. *)

(* What waits for the widget is of the current stream, whose format the    *)
(* widget was told before; the pipeline is for the widget's format, unless *)
(* that has just changed.                                                  *)
FormatInv ==
  /\ renderer = "egl" /\ ~stale /\ waiting # NoFrame =>
       waitingFormat = format /\ widgetFormat = format
  /\ renderer = "egl" /\ frame.at = "pass" => widgetFormat = format
  /\ painting = "upload" => glFormat = widgetFormat \/ formatRaced

LEMMA FormatInvStep == DisplayInv /\ FormatInv /\ [DisplayNext]_displayVars => FormatInv'
<1> SUFFICES ASSUME DisplayInv, FormatInv, [DisplayNext]_displayVars PROVE FormatInv'
  OBVIOUS
<1>a. DisplayTypeOK /\ Control
  BY DEF DisplayInv
<1>t. frame = [at |-> frame.at, buf |-> frame.buf]
  BY <1>a DEF DisplayTypeOK
<1> USE DEF userVars, mainVars, mailVars, widgetVars
<1>1. CASE \E b \in Buffers : Dequeue(b)
  BY <1>1 DEF Dequeue, FormatInv
<1>2. CASE RenderChecks
  <2>1. UNCHANGED <<renderer, stale, waiting, waitingFormat, format, widgetFormat, painting, glFormat, formatRaced>>
    BY <1>2 DEF RenderChecks
  <2>2. renderer = "egl" /\ frame'.at = "pass" => widgetFormat = format
    BY <1>2, <1>t DEF RenderChecks, FormatIsNew
  <2> QED
    BY <2>1, <2>2 DEF FormatInv
<1>3. CASE SetFormat
  BY <1>3 DEF SetFormat, FormatInv
<1>4. CASE PassFrame
  BY <1>4, <1>t DEF PassFrame, FormatInv
<1>5. CASE RetainChecks \/ Retain \/ FrameThreadEnds
  <2>1. frame'.at # "pass"
    BY <1>5, <1>t DEF RetainChecks, Retain, FrameThreadEnds
  <2> QED
    BY <1>5, <2>1 DEF RetainChecks, Retain, FrameThreadEnds, FormatInv
<1>6. CASE ConversionThread
  BY <1>6 DEF ConversionThread, ConvWaits, ConvTakes, Take, ConvDraws, ConvReturns, FormatInv
<1>7. CASE Paint
  BY <1>7 DEF Paint, PaintBegins, PaintUploads, PaintReturns, FormatInv
<1>8. CASE StartStreaming
  <2>1. ~stale => waiting = NoFrame
    BY <1>8, <1>a DEF StartStreaming, Control
  <2>2. frame'.at = "loop"
    BY <1>8, <1>t DEF StartStreaming
  <2> QED
    BY <1>8, <2>1, <2>2 DEF StartStreaming, FormatInv
<1>9. CASE StreamingStarts \/ StopRequested \/ StopSteps
  BY <1>9 DEF StreamingStarts, StopRequested, StopSteps, StopCallsDone, StopEmptiesDone, StopSignals,
     StopJoins, DrainBuffer, DrainExpires, Drained, DeleteUserBuffer, FormatInv
<1>10. CASE SaveBegins \/ SaveEnds \/ OnShowFrames \/ WindowHidden \/ WindowShown \/ UNCHANGED displayVars
  BY <1>10 DEF SaveBegins, SaveEnds, OnShowFrames, WindowHidden, WindowShown, displayVars, FormatInv
<1> QED
  BY <1>1, <1>2, <1>3, <1>4, <1>5, <1>6, <1>7, <1>8, <1>9, <1>10 DEF DisplayNext, FrameThread, User

(* A frame goes into a texture of its own format, whatever streams of other*)
(* formats were shown before and whatever is left of them in the widget,   *)
(* unless the frame thread changed the format in the middle of a paint.    *)
THEOREM UploadsMatchTheirFormat == DisplaySpec => []UploadMatchesFormat
<1>1. DisplayInit => FormatInv
  BY DEF DisplayInit, FormatInv
<1>2. DisplayInv /\ FormatInv => UploadMatchesFormat
  BY DEF DisplayInv, Control, FormatInv, UploadMatchesFormat
<1> QED
  BY <1>1, <1>2, DisplayInvInit, DisplayInvStep, FormatInvStep, PTL DEF DisplaySpec

=============================================================================
