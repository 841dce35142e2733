----------------------------- MODULE DisplayPath -----------------------------
(***************************************************************************)
(* From the frame thread to the screen and to a saved file: the processors *)
(* that V4L2Viewer registers for every frame, the two render systems (the  *)
(* software one converts on a thread of its own, the EGL one uploads while *)
(* its widget paints), the frame kept for `Save image' and for a click,    *)
(* and the stop of a stream, which has to get every frame back.            *)
(*                                                                         *)
(* The first processor calls `done' at once and is part of Dequeue; `done' *)
(* is one step here (FrameObserver splits it).  Every step of the main     *)
(* thread runs between two returns to Qt's event loop, or, where the code  *)
(* calls processEvents, with event handlers nested in it.                  *)
(***************************************************************************)
EXTENDS Naturals

CONSTANTS
  Buffers,    (* the user buffers of a stream                              *)
  NoFrame,    (* no frame                                                  *)
  Formats,    (* width, height and pixel format of a stream                *)
  NoFormat,   (* frameWidth = 0                                            *)
  MaxHides    (* bound: how often the window can be hidden                 *)

ASSUME NoFrameAssumption  == NoFrame \notin Buffers
ASSUME NoFormatAssumption == NoFormat \notin Formats
ASSUME MaxHidesAssumption == MaxHides \in Nat

VARIABLES
  renderer,      (* which RenderSystem the viewer was started with          *)
  visible,       (* can its widget be painted?                              *)
  hides,
  showFrames,    (* m_ShowFrames                                            *)
  stream,        (* m_StreamingState                                        *)
  format,        (* format of the stream                                    *)
  running,       (* m_IsStreamRunning                                       *)
  place,         (* per buffer: no memory, with the driver, with the viewer *)
  pending,       (* processMap: processors that have not called `done'      *)
  frame,         (* frame thread: its place in the processors, its buffer   *)
  retained,      (* lastFrame, NoFrame while lastDoneCallback is empty      *)
  waiting,       (* nextBuffer, NoFrame while nextDoneCallback does nothing *)
  waitingFormat, (* format of nextBuffer                                    *)
  conv,          (* conversion thread of the software renderer              *)
  using,         (* the buffer it converts                                  *)
  widgetFormat,  (* EGLRenderWidget::frameWidth, frameHeight, pixelFormat   *)
  glFormat,      (* format that texture and shader were made for            *)
  painting,      (* main thread: in paintGL before the upload or after it   *)
  formatRaced,   (* did the format change meanwhile?                        *)
  dialog,        (* is OnSaveImageClicked at its file dialog?               *)
  stop,          (* main thread: its place in start and stop                *)
  left,          (* buffers that StopStream has still to wait for           *)
  stale          (* was memory freed that the renderer still refers to?     *)

widgetVars == <<widgetFormat, glFormat, painting, formatRaced>>
mailVars == <<waiting, waitingFormat, conv, using>>
mainVars == <<stream, format, running, stop, left, stale>>
userVars == <<renderer, visible, hides, showFrames>>
displayVars == <<userVars, mainVars, place, pending, frame, retained, mailVars,
                 widgetVars, dialog>>

Processors == {"render", "retain"}
NoFormatOr == Formats \cup {NoFormat}
OneOrNone == Buffers \cup {NoFrame}

DisplayTypeOK ==
  /\ renderer \in {"software", "egl"}
  /\ visible \in BOOLEAN /\ showFrames \in BOOLEAN /\ hides \in 0 .. MaxHides
  /\ stream \in {"Stopped", "Starting", "Streaming", "Stopping"}
  /\ format \in NoFormatOr /\ widgetFormat \in NoFormatOr
  /\ glFormat \in NoFormatOr /\ waitingFormat \in NoFormatOr
  /\ running \in BOOLEAN
  /\ place \in [Buffers -> {"none", "driver", "viewer"}]
  /\ pending \in [Buffers -> SUBSET Processors]
  /\ frame \in [at : {"off", "loop", "render", "format", "pass", "retain", "lock"},
                buf : OneOrNone]
  /\ frame.at \notin {"off", "loop"} => frame.buf \in Buffers
  /\ retained \in OneOrNone /\ waiting \in OneOrNone /\ using \in OneOrNone
  /\ conv \in {"test", "asleep", "convert", "drawn"}
  /\ conv \in {"convert", "drawn"} <=> using \in Buffers
  /\ painting \in {"no", "upload", "return"}
  /\ painting = "return" => waiting \in Buffers
  /\ formatRaced \in BOOLEAN /\ dialog \in BOOLEAN
  /\ stop \in {"idle", "starting", "release", "null", "signal", "join", "drain", "events"}
  /\ left \in SUBSET Buffers
  /\ stale \in BOOLEAN

DisplayInit ==
  /\ renderer \in {"software", "egl"}
  /\ visible = TRUE /\ hides = 0
  /\ showFrames = TRUE
  /\ stream = "Stopped"
  /\ format = NoFormat /\ running = FALSE
  /\ place = [b \in Buffers |-> "none"]
  /\ pending = [b \in Buffers |-> {}]
  /\ frame = [at |-> "off", buf |-> NoFrame]
  /\ retained = NoFrame
  /\ waiting = NoFrame /\ waitingFormat = NoFormat
  /\ conv = "test" /\ using = NoFrame
  /\ widgetFormat = NoFormat /\ glFormat = NoFormat
  /\ painting = "no" /\ formatRaced = FALSE
  /\ dialog = FALSE
  /\ stop = "idle" /\ left = {} /\ stale = FALSE

(* Processor p is done with buffer b; when all are, the driver gets it     *)
(* back, unless the stream is being stopped.                               *)
Done(b, p) ==
  /\ pending' = [pending EXCEPT ![b] = @ \ {p}]
  /\ place' = IF pending[b] \subseteq {p} /\ running /\ place[b] # "none"
              THEN [place EXCEPT ![b] = "driver"] ELSE place

NothingDone == UNCHANGED <<place, pending>>

(* The main thread runs event handlers: idle, or inside processEvents. *)
HandlesEvents == stop \in {"idle", "drain", "events"} /\ painting = "no" /\ ~dialog
(* OnStopButtonClicked and StartStreaming make their next step. *)
MainAt(at) == stop = at /\ painting = "no" /\ ~dialog

-----------------------------------------------------------------------------
(* Frame thread: the processors of OpenAndSetupCamera. *)

Dequeue(b) ==
  /\ frame.at = "loop" /\ running
  /\ place[b] = "driver"
  /\ place' = [place EXCEPT ![b] = "viewer"]
  /\ pending' = [pending EXCEPT ![b] = Processors]
  /\ frame' = [at |-> "render", buf |-> b]
  /\ UNCHANGED <<userVars, mainVars, retained, mailVars, widgetVars, dialog>>

Wanted == stream = "Streaming" /\ showFrames

(* Mutant: the format is told only once. *)
FormatIsFirst == renderer = "egl" /\ widgetFormat = NoFormat
(* EGLRenderSystem::PassFrame tells the widget a new format first. *)
FormatIsNew == renderer = "egl" /\ format # widgetFormat

RenderChecks ==
  /\ frame.at = "render"
  /\ IF ~Wanted
     THEN /\ Done(frame.buf, "render")
          /\ frame' = [frame EXCEPT !.at = "retain"]
     ELSE /\ frame' = [frame EXCEPT !.at = IF FormatIsNew THEN "format" ELSE "pass"]
          /\ NothingDone
  /\ UNCHANGED <<userVars, mainVars, retained, mailVars, widgetVars, dialog>>

(* EGLRenderWidget::setFormat takes no lock. *)
SetFormat ==
  /\ frame.at = "format"
  /\ widgetFormat' = format
  /\ formatRaced' = (painting = "upload")
  /\ frame' = [frame EXCEPT !.at = "pass"]
  /\ UNCHANGED <<userVars, mainVars, place, pending, retained, mailVars, glFormat,
                 painting, dialog>>

(* Mutant: the frame that is replaced is forgotten. *)
ReplaceForgets == NothingDone
(* Mutant: the new frame is returned, and yet it waits to be drawn. *)
ReplaceSwapped == IF waiting = NoFrame THEN NothingDone ELSE Done(frame.buf, "render")
Replace == IF waiting = NoFrame THEN NothingDone ELSE Done(waiting, "render")

(* PassFrame and nextFrame, each under the mutex of its mailbox. *)
PassFrame ==
  /\ frame.at = "pass" /\ painting # "return"
  /\ Replace
  /\ waiting' = frame.buf
  /\ waitingFormat' = format
  /\ conv' = IF conv = "asleep" THEN "test" ELSE conv
  /\ frame' = [frame EXCEPT !.at = "retain"]
  /\ UNCHANGED <<userVars, mainVars, retained, using, widgetVars, dialog>>

RetainChecks ==
  /\ frame.at = "retain"
  /\ IF Wanted THEN /\ frame' = [frame EXCEPT !.at = "lock"]
                    /\ NothingDone
               ELSE /\ frame' = [at |-> "loop", buf |-> NoFrame]
                    /\ Done(frame.buf, "retain")
  /\ UNCHANGED <<userVars, mainVars, retained, mailVars, widgetVars, dialog>>

(* Mutant: the frame just received is given back, not the one before it. *)
GivesBackNew == Done(frame.buf, "retain")
GivesBack == IF retained = NoFrame THEN NothingDone ELSE Done(retained, "retain")

(* Under lastFrameMutex, which OnSaveImageClicked holds over its dialog. *)
Retain ==
  /\ frame.at = "lock" /\ ~dialog
  /\ GivesBack
  /\ retained' = frame.buf
  /\ frame' = [at |-> "loop", buf |-> NoFrame]
  /\ UNCHANGED <<userVars, mainVars, mailVars, widgetVars, dialog>>

FrameThreadEnds ==
  /\ frame.at = "loop" /\ ~running
  /\ frame' = [frame EXCEPT !.at = "off"]
  /\ UNCHANGED <<userVars, mainVars, place, pending, retained, mailVars, widgetVars, dialog>>

-----------------------------------------------------------------------------
(* SoftwareRenderSystem::ConversionThreadMain. *)

ConvWaits ==
  /\ renderer = "software"
  /\ conv = "test" /\ waiting = NoFrame
  /\ conv' = "asleep"
  /\ UNCHANGED <<userVars, mainVars, place, pending, frame, retained, waiting,
                 waitingFormat, using, widgetVars, dialog>>

(* Mutant: the callback stays in the mailbox too. *)
TakeKeeps == using' = waiting /\ UNCHANGED waiting
(* Mutant: the mailbox is emptied before the callback is taken out of it. *)
TakeSwapped == waiting' = NoFrame /\ using' = NoFrame
Take == using' = waiting /\ waiting' = NoFrame

ConvTakes ==
  /\ renderer = "software"
  /\ conv = "test" /\ waiting # NoFrame
  /\ Take
  /\ conv' = "convert"
  /\ UNCHANGED <<userVars, mainVars, place, pending, frame, retained, waitingFormat,
                 widgetVars, dialog>>

(* ConvertFrame and SetPixmap. *)
ConvDraws ==
  /\ conv = "convert"
  /\ conv' = "drawn"
  /\ UNCHANGED <<userVars, mainVars, place, pending, frame, retained, waiting,
                 waitingFormat, using, widgetVars, dialog>>

ConvReturns ==
  /\ conv = "drawn"
  /\ Done(using, "render")
  /\ using' = NoFrame
  /\ conv' = "test"
  /\ UNCHANGED <<userVars, mainVars, frame, retained, waiting, waitingFormat, widgetVars,
                 dialog>>

-----------------------------------------------------------------------------
(* EGLRenderWidget::paintGL, on the main thread. *)

(* Up to the upload: nothing before the first format, then a pipeline for  *)
(* the current format if it has changed.                                   *)
PaintBegins ==
  /\ renderer = "egl" /\ visible
  /\ stop \in {"idle", "drain", "events"} /\ painting = "no"
  /\ widgetFormat # NoFormat
  /\ glFormat' = widgetFormat
  /\ painting' = "upload"
  /\ formatRaced' = FALSE
  /\ UNCHANGED <<userVars, mainVars, place, pending, frame, retained, mailVars,
                 widgetFormat, dialog>>

(* uploadData and then the callback, in one critical section of dataMutex. *)
PaintUploads ==
  /\ painting = "upload"
  /\ painting' = IF waiting = NoFrame THEN "no" ELSE "return"
  /\ formatRaced' = FALSE
  /\ UNCHANGED <<userVars, mainVars, place, pending, frame, retained, mailVars,
                 widgetFormat, glFormat, dialog>>

PaintReturns ==
  /\ painting = "return"
  /\ Done(waiting, "render")
  /\ waiting' = NoFrame
  /\ painting' = "no"
  /\ UNCHANGED <<userVars, mainVars, frame, retained, waitingFormat, conv, using,
                 widgetFormat, glFormat, formatRaced, dialog>>

-----------------------------------------------------------------------------
(* Main thread: streams. *)

(* StartStreaming up to StartStreamChannel; the state follows. *)
StartStreaming ==
  /\ HandlesEvents /\ stop = "idle"
  /\ stream = "Stopped"
  /\ stop' = "starting"
  /\ stream' = "Starting"
  /\ format' \in Formats
  /\ running' = TRUE
  /\ place' = [b \in Buffers |-> "driver"]
  /\ pending' = [b \in Buffers |-> {}]
  /\ frame' = [frame EXCEPT !.at = "loop"]
  /\ UNCHANGED <<userVars, retained, mailVars, widgetVars, dialog, left, stale>>

StreamingStarts ==
  /\ MainAt("starting")
  /\ stream' = "Streaming"
  /\ stop' = "idle"
  /\ UNCHANGED <<userVars, place, pending, frame, retained, mailVars, widgetVars, dialog,
                 format, running, left, stale>>

(* OnStopButtonClicked: the compare-and-exchange lets one caller in. *)
StopRequested ==
  /\ HandlesEvents
  /\ stream = "Streaming"
  /\ stream' = "Stopping"
  /\ stop' = "release"
  /\ UNCHANGED <<userVars, place, pending, frame, retained, mailVars, widgetVars, dialog,
                 format, running, left, stale>>

(* lastDoneCallback is called and then emptied, without lastFrameMutex. *)
StopCallsDone ==
  /\ MainAt("release")
  /\ IF retained = NoFrame THEN NothingDone ELSE Done(retained, "retain")
  /\ stop' = IF retained = NoFrame THEN "signal" ELSE "null"
  /\ UNCHANGED <<userVars, frame, retained, mailVars, widgetVars, dialog, stream, format,
                 running, left, stale>>

StopEmptiesDone ==
  /\ MainAt("null")
  /\ retained' = NoFrame
  /\ stop' = "signal"
  /\ UNCHANGED <<userVars, place, pending, frame, mailVars, widgetVars, dialog, stream,
                 format, running, left, stale>>

(* StopStreamChannel. *)
StopSignals ==
  /\ MainAt("signal")
  /\ running' = FALSE
  /\ stop' = "join"
  /\ UNCHANGED <<userVars, place, pending, frame, retained, mailVars, widgetVars, dialog,
                 stream, format, left, stale>>

StopJoins ==
  /\ MainAt("join")
  /\ frame.at = "off"
  /\ left' = Buffers
  /\ stop' = "drain"
  /\ UNCHANGED <<userVars, place, pending, frame, retained, mailVars, widgetVars, dialog,
                 stream, format, running, stale>>

DrainBuffer(b) ==
  /\ MainAt("drain")
  /\ b \in left /\ pending[b] = {}
  /\ left' = left \ {b}
  /\ UNCHANGED <<userVars, place, pending, frame, retained, mailVars, widgetVars, dialog,
                 stream, format, running, stop, stale>>

(* The ten seconds of a buffer pass only if no thread is about to return   *)
(* it: a frame retained after the release, or in the mailbox of a widget   *)
(* that is not painted.  Where assertions are compiled out, Stop goes on.  *)
DrainExpires(b) ==
  /\ MainAt("drain")
  /\ b \in left
  /\ \/ "retain" \in pending[b]
     \/ "render" \in pending[b] /\ renderer = "egl" /\ ~visible
  /\ left' = left \ {b}
  /\ UNCHANGED <<userVars, place, pending, frame, retained, mailVars, widgetVars, dialog,
                 stream, format, running, stop, stale>>

(* StopStreaming takes all buffers back, then processEvents. *)
Drained ==
  /\ MainAt("drain")
  /\ left = {}
  /\ place' = [b \in Buffers |-> "viewer"]
  /\ stop' = "events"
  /\ UNCHANGED <<userVars, pending, frame, retained, mailVars, widgetVars, dialog, stream,
                 format, running, left, stale>>

(* Mutant: Stop does not empty lastDoneCallback once more. *)
ForgetsNothing == UNCHANGED retained
ForgetsRetained == retained' = NoFrame

DeleteUserBuffer ==
  /\ MainAt("events")
  /\ stream' = "Stopped"
  /\ place' = [b \in Buffers |-> "none"]
  /\ pending' = [b \in Buffers |-> {}]
  /\ ForgetsRetained
  /\ stale' = (stale \/ waiting # NoFrame \/ using # NoFrame)
  /\ stop' = "idle"
  /\ UNCHANGED <<userVars, frame, mailVars, widgetVars, dialog, format, running, left>>

-----------------------------------------------------------------------------
(* Users and the window system. *)

(* A save dialog, and its end: the frame is converted or copied.  A click  *)
(* on the image reads the frame in one step, where HandlesEvents.          *)
SaveBegins ==
  /\ HandlesEvents
  /\ retained # NoFrame
  /\ dialog' = TRUE
  /\ UNCHANGED <<userVars, mainVars, place, pending, frame, retained, mailVars, widgetVars>>

SaveEnds ==
  /\ dialog /\ painting = "no"
  /\ dialog' = FALSE
  /\ UNCHANGED <<userVars, mainVars, place, pending, frame, retained, mailVars, widgetVars>>

OnShowFrames ==
  /\ HandlesEvents
  /\ showFrames' = ~showFrames
  /\ UNCHANGED <<renderer, visible, hides, mainVars, place, pending, frame, retained,
                 mailVars, widgetVars, dialog>>

WindowHidden ==
  /\ visible /\ hides < MaxHides /\ HandlesEvents
  /\ visible' = FALSE /\ hides' = hides + 1
  /\ UNCHANGED <<renderer, showFrames, mainVars, place, pending, frame, retained,
                 mailVars, widgetVars, dialog>>

WindowShown ==
  /\ ~visible /\ HandlesEvents
  /\ visible' = TRUE
  /\ UNCHANGED <<renderer, hides, showFrames, mainVars, place, pending, frame, retained,
                 mailVars, widgetVars, dialog>>

-----------------------------------------------------------------------------

FrameThread ==
  \/ RenderChecks \/ SetFormat \/ PassFrame \/ RetainChecks \/ Retain \/ FrameThreadEnds
ConversionThread == ConvWaits \/ ConvTakes \/ ConvDraws \/ ConvReturns
Paint == PaintBegins \/ PaintUploads \/ PaintReturns
StopSteps ==
  \/ StopCallsDone \/ StopEmptiesDone \/ StopSignals \/ StopJoins
  \/ \E b \in Buffers : DrainBuffer(b) \/ DrainExpires(b)
  \/ Drained \/ DeleteUserBuffer
User ==
  \/ StartStreaming \/ StopRequested \/ SaveBegins \/ OnShowFrames
  \/ WindowHidden \/ WindowShown

DisplayNext ==
  \/ \E b \in Buffers : Dequeue(b)
  \/ FrameThread
  \/ ConversionThread
  \/ Paint
  \/ StreamingStarts \/ StopSteps
  \/ SaveEnds
  \/ User

(* Every thread runs on; a widget whose update() was called is painted     *)
(* while it is visible; a user leaves the file dialog.  Each round of      *)
(* StopStream's wait calls processEvents once, which returns when it has   *)
(* handled the events it found: they cannot keep the wait from going on.   *)
DisplayFairness ==
  /\ WF_displayVars(FrameThread)
  /\ WF_displayVars(ConversionThread)
  /\ WF_displayVars(PaintBegins /\ waiting # NoFrame)
  /\ WF_displayVars(PaintUploads \/ PaintReturns)
  /\ SF_displayVars(StreamingStarts \/ StopSteps)
  /\ SF_displayVars(SaveEnds)

DisplaySpec == DisplayInit /\ [][DisplayNext]_displayVars /\ DisplayFairness

-----------------------------------------------------------------------------
(* A frame that the renderer waits for or uses is still the viewer's, and  *)
(* a frame whose `done' is missing is in its hands or about to be: no      *)
(* frame goes back to the driver under the renderer, none is lost.  Only a *)
(* Stop that ran out of patience with a hidden window breaks this.         *)
RenderOneHolder ==
  ~stale =>
    /\ \A b \in Buffers :
         "render" \in pending[b] <=>
           \/ b \in {waiting, using}
           \/ frame.at \in {"render", "format", "pass"} /\ frame.buf = b
    /\ waiting # NoFrame => waiting # using
    /\ frame.at \in {"render", "format", "pass"} => frame.buf \notin {waiting, using}

(* The render systems keep the promise of FrameSink.  A frame counts as    *)
(* lent from PassFrame until `done' has cleared its bit.                   *)
LentFrames == {b \in Buffers : "render" \in pending[b] /\
                 ~(frame.at \in {"render", "format", "pass"} /\ frame.buf = b)}
DrawnFrames ==
  (IF conv = "drawn" THEN {using} ELSE {}) \cup (IF painting = "return" THEN {waiting} ELSE {})
Sink == INSTANCE FrameSink WITH Frames <- Buffers, lent <- LentFrames, drawn <- DrawnFrames

ImplementsSink ==
  /\ Sink!SinkInit
  /\ [][stale' \/ Sink!SinkNext]_<<LentFrames, DrawnFrames>>

(* When a user saves or clicks, the frame that is kept still has memory:   *)
(* Stop frees the buffers only when no handler can reach them any more.    *)
SavedFrameLive ==
  (dialog \/ HandlesEvents) /\ retained # NoFrame => place[retained] # "none"

(* The frame that is kept has not been given back, so that the driver does *)
(* not fill it while it is saved; except for the moment between the two    *)
(* statements of Stop that take no lock.                                   *)
RetainedIsHeld ==
  retained # NoFrame /\ stop # "null" =>
    "retain" \in pending[retained] /\ place[retained] = "viewer"

(* A frame is uploaded to a texture of its own format, unless the frame    *)
(* thread changed the format in the middle of a paint.                     *)
UploadMatchesFormat ==
  painting = "upload" /\ waiting # NoFrame /\ ~stale => waitingFormat = glFormat \/ formatRaced

(* Stop gets through: all frames come back, or their wait expires. *)
StopReturns == stop = "release" ~> stop = "idle"

=============================================================================
