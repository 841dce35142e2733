---------------------------- MODULE ViewerSession ----------------------------
(***************************************************************************)
(* The main thread of V4L2Viewer: opening and closing a camera, starting   *)
(* and stopping its stream, and changing its format.  Three handlers call  *)
(* QApplication::processEvents half way through, so that other handlers    *)
(* run nested inside them: `stack' holds the handlers that have not        *)
(* returned, the innermost last.  What keeps them from doing harm is which *)
(* widgets are enabled, the signals of the camera list that are blocked,   *)
(* and the compare-and-exchange on m_StreamingState.                       *)
(***************************************************************************)
EXTENDS CameraFormats, Sequences

Seqs == INSTANCE SequencesExt

CONSTANTS
  NoParameters,  (* no stream has been started                              *)
  MaxDepth       (* bound: nested handlers                                  *)

ASSUME DepthAssumption == MaxDepth \in Nat

VARIABLES
  isOpen,        (* m_bIsOpen                                               *)
  isStreaming,   (* m_bIsStreaming                                          *)
  streamState,   (* m_StreamingState                                        *)
  openEnabled,   (* m_OpenCloseButton is enabled                            *)
  startEnabled,  (* m_StartButton is enabled                                *)
  listBlocked,   (* the camera list sends no signals                        *)
  frameEnabled,  (* m_ImageControlFrame is enabled                          *)
  formatEnabled, (* m_pixelFormats and m_cropWidget are enabled             *)
  sizesEnabled,  (* m_frameSizes is enabled                                 *)
  shown,         (* frame size and pixel format the widgets show            *)
  buffers,       (* the frame observer has user buffers                     *)
  thread,        (* its frame thread runs                                   *)
  streamOn,      (* driver: VIDIOC_STREAMON is in effect                    *)
  params,        (* the format the frame observer was started with          *)
  stack,
  drift,         (* did the format change while Start was on the stack?     *)
  cropMoved,     (* did a crop handler end without reading the format?      *)
  doubleOpen,    (* did an open begin inside another one?                   *)
  dangling       (* was the observer replaced inside its own StopStream?    *)

widgets == <<openEnabled, startEnabled, listBlocked, frameEnabled, formatEnabled, sizesEnabled>>
streamVars == <<buffers, thread, streamOn, params>>
sessionVars == <<formatVars, isOpen, isStreaming, streamState, widgets, shown, streamVars,
                 stack, drift, cropMoved, doubleOpen, dangling>>

SessionTypeOK ==
  /\ FormatsTypeOK
  /\ {isOpen, isStreaming, openEnabled, startEnabled, listBlocked, frameEnabled,
      formatEnabled, sizesEnabled, buffers, thread, streamOn, drift, cropMoved, doubleOpen, dangling}
       \subseteq BOOLEAN
  /\ streamState \in {"Stopped", "Starting", "Streaming", "Stopping"}
  /\ shown \in Format \cup {NoParameters} /\ params \in Format \cup {NoParameters}
  /\ Len(stack) <= MaxDepth + 1
  /\ \A i \in DOMAIN stack :
       /\ stack[i].at \in {"toggle", "closing", "start", "drain", "off"}
       /\ stack[i].arg \in Format \cup {NoParameters}

SessionInit ==
  /\ FormatsInit
  /\ isOpen = FALSE /\ isStreaming = FALSE
  /\ streamState = "Stopped"
  /\ openEnabled = TRUE /\ startEnabled = FALSE /\ listBlocked = FALSE
  /\ frameEnabled = FALSE /\ formatEnabled = TRUE /\ sizesEnabled = FALSE
  /\ shown = NoParameters
  /\ buffers = FALSE /\ thread = FALSE /\ streamOn = FALSE /\ params = NoParameters
  /\ stack = <<>>
  /\ drift = FALSE /\ cropMoved = FALSE
  /\ doubleOpen = FALSE /\ dangling = FALSE

-----------------------------------------------------------------------------
(* Handlers on the stack. *)

OnStack(at) == \E i \in DOMAIN stack : stack[i].at = at
Innermost == IF stack = <<>> THEN "none" ELSE Seqs!Last(stack).at
(* The innermost handler waits in processEvents, or there is none. *)
EventLoop == ~dangling /\ Innermost # "closing"
Top(at) == ~dangling /\ Innermost = at
Push(at, arg) == stack' = Append(stack, [at |-> at, arg |-> arg])
Return == stack' = Seqs!Front(stack)
Becomes(at) == stack' = [stack EXCEPT ![Len(stack)].at = at]

(* Mutant: the camera list keeps sending signals. *)
UpdateViewerLayoutNoBlock(open, streaming) ==
  /\ isStreaming' = (open /\ streaming)
  /\ startEnabled' = (open /\ ~streaming)
  /\ listBlocked' = FALSE
(* UpdateViewerLayout, for the values of m_bIsOpen and m_bIsStreaming. *)
UpdateViewerLayout(open, streaming) ==
  /\ isStreaming' = (open /\ streaming)
  /\ startEnabled' = (open /\ ~streaming)
  /\ listBlocked' = open

(* A format that changes while Start waits in processEvents. *)
Drifts == drift' = (drift \/ (OnStack("start") /\ (camera' # camera \/ video' # video)))

-----------------------------------------------------------------------------
(* OnOpenCloseButtonClicked. *)

(* By its button or by a double click on the list.  Check4IOReadAbility    *)
(* opens and closes the camera first if none is open: the frame observer   *)
(* is replaced.                                                            *)
ToggleBegins ==
  /\ EventLoop /\ Len(stack) < MaxDepth
  /\ openEnabled \/ ~listBlocked
  /\ openEnabled' = FALSE
  /\ Push("toggle", NoParameters)
  /\ doubleOpen' = (doubleOpen \/ OnStack("toggle"))
  /\ IF isOpen
     THEN UNCHANGED <<camera, busy, buffers, streamOn, dangling>>
     ELSE /\ camera' = NoCamera /\ busy' = FALSE
          /\ buffers' = FALSE /\ streamOn' = FALSE
          /\ dangling' = (thread \/ OnStack("drain"))
  /\ UNCHANGED <<video, sizeFd, cropFd, isOpen, isStreaming, streamState, startEnabled,
                 listBlocked, frameEnabled, formatEnabled, sizesEnabled, shown, thread, params, cropMoved>>
  /\ Drifts

(* OpenAndSetupCamera and GetImageInformation. *)
ToggleOpens(c) ==
  /\ Top("toggle") /\ ~isOpen
  /\ Return
  /\ camera' = c
  /\ buffers' = FALSE
  /\ dangling' = OnStack("drain")
  /\ PrepareFrameSize(c) /\ PrepareCrop(c)
  /\ isOpen' = TRUE
  /\ frameEnabled' = TRUE
  /\ shown' = video[c]
  /\ sizesEnabled' \in BOOLEAN
  /\ formatEnabled' \in {formatEnabled, TRUE}
  /\ UpdateViewerLayout(TRUE, isStreaming)
  /\ openEnabled' = TRUE
  /\ cropMoved' = FALSE
  /\ UNCHANGED <<busy, video, streamState, thread, streamOn, params, doubleOpen>>
  /\ Drifts

OpenFails ==
  /\ Top("toggle") /\ ~isOpen
  /\ Return
  /\ buffers' = FALSE
  /\ dangling' = OnStack("drain")
  /\ UpdateViewerLayout(FALSE, isStreaming)
  /\ openEnabled' = TRUE
  /\ UNCHANGED <<formatVars, isOpen, streamState, frameEnabled, formatEnabled, sizesEnabled,
                 shown, thread, streamOn, params, drift, cropMoved, doubleOpen>>

(* The rest of a close: the descriptors and with them the driver's stream. *)
Closes(open) ==
  /\ Return
  /\ camera' = NoCamera /\ busy' = FALSE /\ streamOn' = FALSE
  /\ frameEnabled' = FALSE
  /\ UpdateViewerLayout(open, isStreaming)
  /\ openEnabled' = TRUE
  /\ isOpen' = open
  /\ UNCHANGED <<video, sizeFd, cropFd, streamState, formatEnabled, sizesEnabled, shown, buffers,
                 thread, params, cropMoved, doubleOpen, dangling>>
  /\ Drifts

(* m_bIsOpen is cleared first.  A stream is stopped by                     *)
(* OnStopButtonClicked, which returns at once if one is being stopped.     *)
StopsAtOnce == isStreaming /\ streamState = "Streaming"
ToggleCloses ==
  /\ Top("toggle") /\ isOpen /\ ~StopsAtOnce
  /\ Closes(FALSE)

(* OnStopButtonClicked up to the first processEvents of StopStream, which  *)
(* comes after the frame thread has ended.                                 *)
StopEffects ==
  /\ streamState' = "Stopping"
  /\ formatEnabled' = TRUE /\ sizesEnabled' = TRUE
  /\ thread' = FALSE

ToggleStops ==
  /\ Top("toggle") /\ isOpen /\ StopsAtOnce
  /\ isOpen' = FALSE
  /\ StopEffects
  /\ stack' = Seqs!Front(stack)
                \o <<[at |-> "closing", arg |-> NoParameters], [at |-> "drain", arg |-> NoParameters]>>
  /\ UNCHANGED <<formatVars, isStreaming, openEnabled, startEnabled, listBlocked, frameEnabled,
                 shown, buffers, streamOn, params, drift, cropMoved, doubleOpen, dangling>>

ToggleCloseEnds == Top("closing") /\ Closes(isOpen)

-----------------------------------------------------------------------------
(* OnStartButtonClicked and StartStreaming. *)

(* Mutant: the stream is started with what the window shows. *)
ReadsShown == shown
ReadsFormat == video[camera]

MayStart == streamState = "Stopped"

StartBegins ==
  /\ EventLoop /\ Len(stack) < MaxDepth
  /\ startEnabled /\ camera # NoCamera
  /\ MayStart
  /\ streamState' = "Starting"
  /\ startEnabled' = FALSE /\ formatEnabled' = FALSE /\ sizesEnabled' = FALSE
  /\ Push("start", ReadsFormat)
  /\ drift' = FALSE
  /\ UNCHANGED <<formatVars, isOpen, isStreaming, openEnabled, listBlocked, frameEnabled, shown,
                 streamVars, cropMoved, doubleOpen, dangling>>

StartSucceeds ==
  /\ Top("start")
  /\ camera # NoCamera /\ ~busy
  /\ Return
  /\ busy' = TRUE /\ buffers' = TRUE /\ streamOn' = TRUE /\ thread' = TRUE
  /\ params' = Seqs!Last(stack).arg
  /\ streamState' = "Streaming"
  /\ UpdateViewerLayout(isOpen, TRUE)
  /\ UNCHANGED <<camera, video, sizeFd, cropFd, isOpen, openEnabled, frameEnabled, formatEnabled,
                 sizesEnabled, shown, drift, cropMoved, doubleOpen, dangling>>

(* CreateUserBuffer, QueueAllUserBuffer or VIDIOC_STREAMON fails; what was *)
(* done before is undone.                                                  *)
StartFails ==
  /\ Top("start")
  /\ Return
  /\ formatEnabled' = TRUE /\ sizesEnabled' = TRUE
  /\ streamState' = "Stopped"
  /\ UpdateViewerLayout(isOpen, isStreaming)
  /\ UNCHANGED <<formatVars, isOpen, openEnabled, frameEnabled, shown, streamVars, drift,
                 cropMoved, doubleOpen, dangling>>

-----------------------------------------------------------------------------
(* OnStopButtonClicked, by its button or by closing the window. *)

StopBegins ==
  /\ EventLoop /\ Len(stack) < MaxDepth
  /\ streamState = "Streaming"
  /\ StopEffects
  /\ Push("drain", NoParameters)
  /\ UNCHANGED <<formatVars, isOpen, isStreaming, openEnabled, startEnabled, listBlocked,
                 frameEnabled, shown, buffers, streamOn, params, drift, cropMoved, doubleOpen, dangling>>

StopStreaming ==
  /\ Top("drain")
  /\ Becomes("off")
  /\ streamOn' = FALSE
  /\ UNCHANGED <<formatVars, isOpen, isStreaming, streamState, widgets, shown, buffers, thread,
                 params, drift, cropMoved, doubleOpen, dangling>>

DeletesBuffers == buffers' = FALSE /\ busy' = FALSE

StopFinishes ==
  /\ Top("off")
  /\ Return
  /\ streamState' = "Stopped"
  /\ UpdateViewerLayout(isOpen, FALSE)
  /\ DeletesBuffers
  /\ UNCHANGED <<camera, video, sizeFd, cropFd, isOpen, openEnabled, frameEnabled, formatEnabled,
                 sizesEnabled, shown, thread, streamOn, params, drift, cropMoved, doubleOpen, dangling>>

-----------------------------------------------------------------------------
(* The format handlers. *)

HandlesFormat == EventLoop /\ frameEnabled /\ camera # NoCamera
FormatKeeps ==
  UNCHANGED <<camera, busy, isOpen, isStreaming, streamState, openEnabled, startEnabled,
              listBlocked, frameEnabled, streamVars, stack, doubleOpen, dangling>>

(* Mutant: the format is read before it is set. *)
UpdateCameraFormatLate ==
  /\ shown' = video[camera]
  /\ sizesEnabled' \in BOOLEAN
  /\ cropMoved' = FALSE
(* UpdateCameraFormat reads the format back and fills the two lists; the   *)
(* list of frame sizes is enabled if it is long enough, streaming or not.  *)
UpdateCameraFormat ==
  /\ shown' = video'[camera]
  /\ sizesEnabled' \in BOOLEAN
  /\ cropMoved' = FALSE

(* GetImageInformation probes the devices again. *)
GetImageInformation ==
  /\ PrepareFrameSize(camera) /\ PrepareCrop(camera)
  /\ UpdateCameraFormat
  /\ formatEnabled' \in {formatEnabled, formatEnabled \/ ~isStreaming}

(* m_edWidth and m_edHeight can be edited while a stream runs. *)
OnHeight ==
  /\ HandlesFormat
  /\ SetFrameSize
  /\ UpdateCameraFormat
  /\ FormatKeeps /\ UNCHANGED <<sizeFd, cropFd, formatEnabled>>
  /\ Drifts

OnPixelFormatChanged(pix) ==
  /\ HandlesFormat /\ formatEnabled
  /\ SetPixelFormat(pix)
  /\ GetImageInformation
  /\ FormatKeeps
  /\ Drifts

OnFrameSizeIndexChanged ==
  /\ HandlesFormat /\ sizesEnabled
  /\ SetFrameSizeByIndex
  /\ GetImageInformation
  /\ FormatKeeps
  /\ Drifts

OnCropWidth ==
  /\ HandlesFormat /\ formatEnabled /\ CropDeviceAnswers
  /\ SetCrop
  /\ GetImageInformation
  /\ FormatKeeps
  /\ Drifts

(* OnCropXOffset reads the format only when the driver took the rectangle, *)
(* OnCropYOffset never does.                                               *)
OnCropOffset(reads) ==
  /\ HandlesFormat /\ formatEnabled /\ CropDeviceAnswers
  /\ SetCrop
  /\ IF reads THEN UpdateCameraFormat
     ELSE /\ cropMoved' = TRUE
          /\ UNCHANGED <<shown, sizesEnabled>>
  /\ FormatKeeps /\ UNCHANGED <<sizeFd, cropFd, formatEnabled>>
  /\ Drifts

-----------------------------------------------------------------------------

SessionNext ==
  \/ ToggleBegins
  \/ \E c \in Cameras : ToggleOpens(c)
  \/ OpenFails
  \/ ToggleCloses \/ ToggleStops \/ ToggleCloseEnds
  \/ StartBegins \/ StartSucceeds \/ StartFails
  \/ StopBegins \/ StopStreaming \/ StopFinishes
  \/ OnHeight \/ OnFrameSizeIndexChanged \/ OnCropWidth
  \/ \E pix \in PixelFormats : OnPixelFormatChanged(pix)
  \/ \E reads \in BOOLEAN : OnCropOffset(reads)

SessionSpec == SessionInit /\ [][SessionNext]_sessionVars

-----------------------------------------------------------------------------
AtRest == stack = <<>> /\ ~dangling

(* However the handlers were nested, when all have returned the flags of   *)
(* the window, the observer and the driver agree: nothing is left half     *)
(* started, and the user can go on.  Two opens inside each other are not   *)
(* covered: while a camera is being opened the list still sends signals.   *)
IdleConsistent ==
  AtRest /\ ~doubleOpen =>
    /\ isOpen <=> camera # NoCamera
    /\ openEnabled /\ listBlocked = isOpen /\ frameEnabled = isOpen
    /\ isStreaming <=> streamState = "Streaming"
    /\ ~isStreaming => streamState = "Stopped"
    /\ startEnabled <=> isOpen /\ ~isStreaming
    /\ \A flag \in {thread, streamOn, buffers, busy} : flag = isStreaming

(* The frame observer describes the frames as the device delivers them:    *)
(* nothing can change the format while the stream runs, unless it changed  *)
(* in the processEvents of StartStreaming, after it had been read.         *)
StreamDescribesDevice ==
  thread /\ ~dangling /\ camera # NoCamera => params = video[camera] \/ drift

(* At rest the window shows the format of the open camera, except after a  *)
(* crop handler that does not read it back.                                *)
ShownCurrent == AtRest /\ camera # NoCamera => shown = video[camera] \/ cropMoved

=============================================================================
