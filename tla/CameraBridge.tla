----------------------------- MODULE CameraBridge -----------------------------
(***************************************************************************)
(* The web back end: the page's calls are events of the main thread, which *)
(* signals back to the page; the main thread opens and closes the camera,  *)
(* starts and stops the stream and the recorder; the frame thread runs     *)
(* processors 2 and 3 on every frame, and the conversion thread writes     *)
(* frames to the recorder.                                                 *)
(*                                                                         *)
(* The main thread's stack of activations is `main', the running one       *)
(* first.  A file dialog and the wait in StopStream run the event loop, so *)
(* that calls and events are handled on top of them.                       *)
(*                                                                         *)
(* The capture path and the stream server are reduced to what they promise *)
(* (FrameObserver, FrameStreamServer): a buffer is dispatched when all its *)
(* `done' callbacks have been called; the server gives back the frame it   *)
(* has when it gets the next one, has converted it, or is flushed.         *)
(***************************************************************************)
EXTENDS VideoRecorder, FiniteSets

CONSTANTS
  Buffers,      (* user buffers                                             *)
  NoBuffer,     (* no callback                                              *)
  Freed,        (* a callback for a buffer of a stream that was torn down   *)
  FrameSizes,   (* bytes of a frame                                         *)
  MaxBytes,     (* the size limit of a recording                            *)
  MaxEvents,    (* bound: the page calls only with fewer events waiting     *)
  MaxSignals,   (* bound: the page calls only with fewer signals on the way *)
  MaxDepth      (* bound: activations on the main thread's stack            *)

ASSUME BridgeAssumption ==
  /\ NoBuffer \notin Buffers /\ Freed \notin Buffers /\ NoBuffer # Freed
  /\ FrameSizes \subseteq Nat
  /\ {MaxBytes, MaxEvents, MaxSignals, MaxDepth} \subseteq Nat

VARIABLES
  open,        (* m_bIsOpen                                                 *)
  streaming,   (* m_bIsStreaming                                            *)
  streamon,    (* is the device between STREAMON and STREAMOFF?              *)
  capturing,   (* does the frame thread read frames?                        *)
  held,        (* `done' callbacks not called: <<buffer, processor>>        *)
  lastDone,    (* m_lastDoneCallback                                        *)
  mail,        (* the stream server's m_nextDoneCallback                    *)
  ft,          (* frame thread                                              *)
  conv,        (* conversion thread; it holds m_recordMutex at "write"      *)
  callback,    (* m_recordingCallback: none, or the format it writes        *)
  recorder,    (* m_recorder                                                *)
  main,        (* main thread                                               *)
  events,      (* the main thread's event queue                             *)
  signals,     (* signals on their way to the page                          *)
  page         (* what the page shows                                       *)

camera == <<open, streaming, streamon>>
capture == <<capturing, held, lastDone, mail, ft>>
recording == <<conv, callback, recorder>>
channel == <<events, signals, page>>
vars == <<camera, capture, recording, main, channel>>

MaybeBuffer == Buffers \cup {NoBuffer, Freed}
Processors == {"server", "last"}
Calls == {"open", "close", "start", "stop", "save", "record", "stopRecord"}
Flags == {"open", "streaming", "recording"}
MainPC == {"started", "clear", "finish", "finished", "flag", "release", "flush", "channel", "wait",
           "off", "close", "dialog", "accepted", "callback", "saving", "replaced"}

TypeOK ==
  /\ open \in BOOLEAN /\ streaming \in BOOLEAN /\ streamon \in BOOLEAN /\ capturing \in BOOLEAN
  /\ held \subseteq Buffers \X Processors
  /\ lastDone \in MaybeBuffer /\ mail \in MaybeBuffer
  /\ ft \in [pc : {"idle", "server", "push", "last", "retain", "swap", "store"},
             buf : MaybeBuffer, old : MaybeBuffer]
  /\ conv \in [pc : {"idle", "record", "write", "give"}, buf : MaybeBuffer]
  /\ conv.pc # "idle" => conv.buf # NoBuffer
  /\ callback \in Formats \cup {"none"}
  /\ recorder.recording \in BOOLEAN /\ recorder.format \in Formats
  /\ main \in Seq([pc : MainPC, format : Formats])
  /\ events \in Seq([name : Calls \cup {"stopped"}, format : Formats])
  /\ signals \in Seq([flag : Flags, value : BOOLEAN])
  /\ page \in [Flags -> BOOLEAN]

Idle == [pc |-> "idle", buf |-> NoBuffer, old |-> NoBuffer]
At(pc) == [pc |-> pc, format |-> "avi"]

Init ==
  /\ open = FALSE /\ streaming = FALSE /\ streamon = FALSE /\ capturing = FALSE
  /\ held = {} /\ lastDone = NoBuffer /\ mail = NoBuffer /\ ft = Idle
  /\ conv = [pc |-> "idle", buf |-> NoBuffer]
  /\ callback = "none" /\ recorder = NewRecorder
  /\ main = <<>>
  /\ events = <<>> /\ signals = <<>> /\ page = [f \in Flags |-> FALSE]

(* Calling the `done' callback of processor p for buffer b. *)
Done(b, p) == held \ {<<b, p>>}

-----------------------------------------------------------------------------
(* Frame thread: a frame is dispatched to the processors openCamera has    *)
(* registered.  Processor 1 keeps nothing.                                 *)

FrameArrives(b) ==
  /\ capturing /\ ft.pc = "idle"
  /\ \A p \in Processors : <<b, p>> \notin held
  /\ held' = held \cup {<<b, p>> : p \in Processors}
  /\ ft' = [Idle EXCEPT !.pc = "server", !.buf = b]
  /\ UNCHANGED <<camera, capturing, lastDone, mail, recording, main, channel>>

Processor2 ==
  /\ ft.pc = "server"
  /\ \/ streaming /\ ft' = [ft EXCEPT !.pc = "push"] /\ UNCHANGED held
     \/ ~streaming /\ ft' = [ft EXCEPT !.pc = "last"] /\ held' = Done(ft.buf, "server")
  /\ UNCHANGED <<camera, capturing, lastDone, mail, recording, main, channel>>

(* pushFrame: the frame that was waiting is given back. *)
PushFrame ==
  /\ ft.pc = "push"
  /\ held' = Done(mail, "server")
  /\ mail' = ft.buf
  /\ ft' = [ft EXCEPT !.pc = "last"]
  /\ UNCHANGED <<camera, capturing, lastDone, recording, main, channel>>

Processor3 ==
  /\ ft.pc = "last"
  /\ \/ streaming /\ ft' = [ft EXCEPT !.pc = "retain"] /\ UNCHANGED held
     \/ ~streaming /\ ft' = Idle /\ held' = Done(ft.buf, "last")
  /\ UNCHANGED <<camera, capturing, lastDone, mail, recording, main, channel>>

(* Mutant: the callback stays in m_lastDoneCallback while it is called. *)
RetainCopiesCallback ==
  /\ ft.pc = "retain"
  /\ \/ /\ lastDone # NoBuffer
        /\ ft' = [ft EXCEPT !.pc = "swap", !.old = lastDone]
        /\ UNCHANGED lastDone
     \/ /\ lastDone = NoBuffer
        /\ lastDone' = ft.buf
        /\ ft' = Idle
  /\ UNCHANGED <<camera, capturing, held, mail, recording, main, channel>>

(* m_lastFrameMutex is released to call the previous frame's callback. *)
Retain ==
  /\ ft.pc = "retain"
  /\ \/ /\ lastDone # NoBuffer
        /\ ft' = [ft EXCEPT !.pc = "swap", !.old = lastDone]
        /\ lastDone' = NoBuffer
     \/ /\ lastDone = NoBuffer
        /\ lastDone' = ft.buf
        /\ ft' = Idle
  /\ UNCHANGED <<camera, capturing, held, mail, recording, main, channel>>

RetainReleasesPrevious ==
  /\ ft.pc = "swap"
  /\ held' = Done(ft.old, "last")
  /\ ft' = [ft EXCEPT !.pc = "store", !.old = NoBuffer]
  /\ UNCHANGED <<camera, capturing, lastDone, mail, recording, main, channel>>

RetainStores ==
  /\ ft.pc = "store"
  /\ lastDone' = ft.buf
  /\ ft' = Idle
  /\ UNCHANGED <<camera, capturing, held, mail, recording, main, channel>>

FrameThread ==
  \/ \E b \in Buffers : FrameArrives(b)
  \/ Processor2 \/ PushFrame \/ Processor3
  \/ Retain \/ RetainReleasesPrevious \/ RetainStores

-----------------------------------------------------------------------------
(* Main thread. *)

RunsAt(pc) == main # <<>> /\ Head(main).pc = pc
GoTo(pc) == main' = [main EXCEPT ![1].pc = pc]
Return == main' = Tail(main)
Emit(flag, value) == signals' = Append(signals, [flag |-> flag, value |-> value])

(* StopStream runs the event loop only while a callback is outstanding. *)
EventLoop ==
  \/ main = <<>>
  \/ RunsAt("dialog") \/ RunsAt("saving")
  \/ RunsAt("wait") /\ ft.pc = "idle" /\ held # {}

(* The next event is a call of the page. *)
Called(name) ==
  /\ EventLoop /\ Len(main) < MaxDepth
  /\ events # <<>> /\ Head(events).name = name
  /\ events' = Tail(events)
  /\ UNCHANGED page

(* OpenDevice replaces the FrameObserver.  If its StopStream waits on the  *)
(* stack, the wait goes on in an object that is gone, and what the main    *)
(* thread does from here on is undefined: the model has it stay there.     *)
StopWaits == \E i \in DOMAIN main : main[i].pc = "wait"

OpenCamera ==
  /\ Called("open")
  /\ \/ /\ ~open /\ open' = TRUE /\ Emit("open", TRUE)
        /\ main' = IF StopWaits THEN <<At("replaced")>> \o main ELSE main
     \/ UNCHANGED <<open, signals, main>>
  /\ UNCHANGED <<streaming, streamon, capture, recording>>

Undefined == RunsAt("replaced") /\ UNCHANGED vars

(* Mutant: a failure of CreateUserBuffer is ignored. *)
StartStreamingAnyway ==
  /\ Called("start")
  /\ \/ /\ open /\ ~streaming
        /\ streamon' = TRUE /\ capturing' = TRUE
        /\ main' = <<At("started")>> \o main
     \/ UNCHANGED <<streamon, capturing, main>>
  /\ UNCHANGED <<open, streaming, held, lastDone, mail, ft, recording, signals>>

(* VIDIOC_REQBUFS fails on a device that streams; other steps may fail as  *)
(* well, and every failure undoes the steps before it.                     *)
StartStreaming ==
  /\ Called("start")
  /\ \/ /\ open /\ ~streaming /\ ~streamon
        /\ streamon' = TRUE /\ capturing' = TRUE
        /\ main' = <<At("started")>> \o main
     \/ UNCHANGED <<streamon, capturing, main>>
  /\ UNCHANGED <<open, streaming, held, lastDone, mail, ft, recording, signals>>

StartStreamingEnds ==
  /\ RunsAt("started")
  /\ streaming' = TRUE
  /\ Emit("streaming", TRUE)
  /\ Return
  /\ UNCHANGED <<open, streamon, capture, recording, events, page>>

(* stopStreaming and stopRecording begin by stopping the recorder. *)
StopRecorder == IF recorder.recording THEN <<At("clear")>> ELSE <<>>
StopStream == IF streaming THEN StopRecorder \o <<At("flag")>> ELSE <<>>

StopStreaming ==
  /\ Called("stop")
  /\ main' = StopStream \o main
  /\ UNCHANGED <<camera, capture, recording, signals>>

StopRecording ==
  /\ Called("stopRecord")
  /\ main' = StopRecorder \o main
  /\ UNCHANGED <<camera, capture, recording, signals>>

CloseCamera ==
  /\ Called("close")
  /\ main' = IF open THEN StopStream \o <<At("close")>> \o main ELSE main
  /\ UNCHANGED <<camera, capture, recording, signals>>

(* clearRecordingCallback takes m_recordMutex. *)
ClearCallback == conv.pc # "write" /\ callback' = "none"

(* Mutant: the recorder is stopped before the callback is cleared. *)
KeepRecordingCallback ==
  /\ RunsAt("clear")
  /\ GoTo("finish")
  /\ UNCHANGED <<camera, capture, recording, channel>>

ClearRecordingCallback ==
  /\ RunsAt("clear")
  /\ ClearCallback
  /\ GoTo("finish")
  /\ UNCHANGED <<camera, capture, conv, recorder, channel>>

(* VideoRecorder::stop emits recordingStopped with m_mutex held ... *)
RecorderStops ==
  /\ RunsAt("finish")
  /\ recorder' = Stopped(recorder)
  /\ IF recorder.recording THEN GoTo("finished") ELSE Return
  /\ UNCHANGED <<camera, capture, conv, callback, channel>>

(* ... and the slot, called directly, takes m_recordMutex. *)
RecorderStopped ==
  /\ RunsAt("finished")
  /\ ClearCallback
  /\ Emit("recording", FALSE)
  /\ Return
  /\ UNCHANGED <<camera, capture, conv, recorder, events, page>>

(* The slot, queued by the conversion thread when the limit was reached. *)
OnRecordingStopped ==
  /\ Called("stopped")
  /\ ClearCallback
  /\ Emit("recording", FALSE)
  /\ UNCHANGED <<camera, capture, conv, recorder, main>>

ClearStreaming ==
  /\ RunsAt("flag")
  /\ streaming' = FALSE
  /\ GoTo("release")
  /\ UNCHANGED <<open, streamon, capture, recording, channel>>

ReleaseRetained ==
  /\ RunsAt("release")
  /\ lastDone' = NoBuffer
  /\ held' = Done(lastDone, "last")
  /\ GoTo("flush")
  /\ UNCHANGED <<camera, capturing, mail, ft, recording, channel>>

(* flush joins the conversion thread, empties the mailbox and starts a new *)
(* conversion thread.                                                      *)
Flush ==
  /\ RunsAt("flush")
  /\ conv.pc = "idle"
  /\ mail' = NoBuffer
  /\ held' = Done(mail, "server")
  /\ GoTo("channel")
  /\ UNCHANGED <<camera, capturing, lastDone, ft, recording, channel>>

StopStreamChannel ==
  /\ RunsAt("channel")
  /\ capturing' = FALSE
  /\ GoTo("wait")
  /\ UNCHANGED <<camera, held, lastDone, mail, ft, recording, channel>>

(* All callbacks have been called, or the wait for them has expired. *)
StopStreamChannelEnds ==
  /\ RunsAt("wait") /\ ft.pc = "idle"
  /\ GoTo("off")
  /\ UNCHANGED <<camera, capture, recording, channel>>

(* StopStreaming and DeleteUserBuffer: what still holds a callback holds   *)
(* one for a buffer that is gone.                                          *)
DeleteUserBuffer ==
  /\ RunsAt("off")
  /\ streamon' = FALSE
  /\ held' = {}
  /\ lastDone' = IF lastDone = NoBuffer THEN NoBuffer ELSE Freed
  /\ mail' = IF mail = NoBuffer THEN NoBuffer ELSE Freed
  /\ conv' = [conv EXCEPT !.buf = IF conv.pc = "idle" THEN NoBuffer ELSE Freed]
  /\ Emit("streaming", FALSE)
  /\ Return
  /\ UNCHANGED <<open, streaming, capturing, ft, callback, recorder, events, page>>

CloseDevice ==
  /\ RunsAt("close")
  /\ open' = FALSE /\ streamon' = FALSE
  /\ lastDone' = NoBuffer
  /\ held' = Done(lastDone, "last")
  /\ Emit("open", FALSE)
  /\ Return
  /\ UNCHANGED <<streaming, capturing, mail, ft, recording, events, page>>

-----------------------------------------------------------------------------
(* Main thread: recordDialog, startRecording and saveImageDialog. *)

RecordDialog ==
  /\ Called("record")
  /\ main' = IF streaming /\ ~recorder.recording
                THEN <<[pc |-> "dialog", format |-> Head(events).format]>> \o main ELSE main
  /\ UNCHANGED <<camera, capture, recording, signals>>

DialogEnds ==
  /\ RunsAt("dialog")
  /\ GoTo("accepted") \/ Return
  /\ UNCHANGED <<camera, capture, recording, channel>>

(* Mutant: what recordDialog checked before the dialog is not checked again. *)
StartRecordingUnchecked ==
  /\ RunsAt("accepted")
  /\ \/ /\ recorder' = Started(Head(main).format, MaxBytes)
        /\ GoTo("callback")
     \/ UNCHANGED recorder /\ Return
  /\ UNCHANGED <<camera, capture, conv, callback, channel>>

(* The file may not open. *)
StartRecording ==
  /\ RunsAt("accepted")
  /\ \/ /\ streaming /\ ~recorder.recording
        /\ recorder' = Started(Head(main).format, MaxBytes)
        /\ GoTo("callback")
     \/ UNCHANGED recorder /\ Return
  /\ UNCHANGED <<camera, capture, conv, callback, channel>>

SetRecordingCallback ==
  /\ RunsAt("callback")
  /\ conv.pc # "write"
  /\ callback' = Head(main).format
  /\ Emit("recording", TRUE)
  /\ Return
  /\ UNCHANGED <<camera, capture, conv, recorder, events, page>>

(* The frame is converted under m_lastFrameMutex before the dialog opens. *)
SaveImageDialog ==
  /\ Called("save")
  /\ main' = IF lastDone = NoBuffer THEN main ELSE <<At("saving")>> \o main
  /\ UNCHANGED <<camera, capture, recording, signals>>

SaveImageEnds ==
  /\ RunsAt("saving")
  /\ Return
  /\ UNCHANGED <<camera, capture, recording, channel>>

-----------------------------------------------------------------------------
(* Conversion thread. *)

(* Mutant: a wake-up is taken for a frame. *)
ConversionTakesAnything ==
  /\ conv.pc = "idle" /\ ~RunsAt("flush")
  /\ \E pc \in {"record", "give"} : conv' = [pc |-> pc, buf |-> mail]
  /\ mail' = NoBuffer
  /\ UNCHANGED <<camera, capturing, held, lastDone, ft, callback, recorder, main, channel>>

(* A frame that cannot be converted is given back. *)
ConversionTakes ==
  /\ conv.pc = "idle" /\ mail # NoBuffer /\ ~RunsAt("flush")
  /\ \E pc \in {"record", "give"} : conv' = [pc |-> pc, buf |-> mail]
  /\ mail' = NoBuffer
  /\ UNCHANGED <<camera, capturing, held, lastDone, ft, callback, recorder, main, channel>>

ConversionLocksRecord ==
  /\ conv.pc = "record"
  /\ conv' = [conv EXCEPT !.pc = IF callback = "none" THEN "give" ELSE "write"]
  /\ UNCHANGED <<camera, capture, callback, recorder, main, channel>>

(* The recorder's m_mutex is with the main thread while it emits. *)
ConversionRecords ==
  /\ conv.pc = "write" /\ ~RunsAt("finished")
  /\ \E n \in FrameSizes :
       recorder' = IF callback = "avi" THEN JpegFrameWritten(recorder, n)
                                       ELSE RawFrameWritten(recorder, n)
  /\ events' = IF recorder.recording /\ ~recorder'.recording
                 THEN Append(events, [name |-> "stopped", format |-> "avi"]) ELSE events
  /\ conv' = [conv EXCEPT !.pc = "give"]
  /\ UNCHANGED <<camera, capture, callback, main, signals, page>>

ConversionGivesBack ==
  /\ conv.pc = "give"
  /\ held' = Done(conv.buf, "server")
  /\ conv' = [pc |-> "idle", buf |-> NoBuffer]
  /\ UNCHANGED <<camera, capturing, lastDone, mail, ft, callback, recorder, main, channel>>

-----------------------------------------------------------------------------
(* The page. *)

ModalDialog == \E i \in DOMAIN main : main[i].pc \in {"dialog", "saving"}

(* Which buttons can be pressed. *)
Enabled(name) ==
  CASE name = "open" -> ~page["open"]
    [] name = "close" -> page["open"]
    [] name = "start" -> page["open"] /\ ~page["streaming"]
    [] name \in {"stop", "save"} -> page["streaming"]
    [] name = "record" -> page["streaming"] /\ ~page["recording"]
    [] name = "stopRecord" -> page["recording"]

PageCalls(name, format) ==
  /\ ~ModalDialog /\ Len(events) < MaxEvents /\ Len(signals) < MaxSignals
  /\ Enabled(name)
  /\ name = "record" \/ format = "avi"
  /\ events' = Append(events, [name |-> name, format |-> format])
  /\ UNCHANGED <<camera, capture, recording, main, signals, page>>

PageHears ==
  /\ signals # <<>>
  /\ page' = [page EXCEPT ![Head(signals).flag] = Head(signals).value]
  /\ signals' = Tail(signals)
  /\ UNCHANGED <<camera, capture, recording, main, events>>

-----------------------------------------------------------------------------
MainThread ==
  \/ StartStreamingEnds
  \/ ClearRecordingCallback \/ RecorderStops \/ RecorderStopped
  \/ ClearStreaming \/ ReleaseRetained \/ Flush \/ StopStreamChannel
  \/ StopStreamChannelEnds \/ DeleteUserBuffer \/ CloseDevice
  \/ DialogEnds \/ StartRecording \/ SetRecordingCallback \/ SaveImageEnds
  \/ Undefined
Handler ==
  \/ OpenCamera \/ CloseCamera \/ StartStreaming \/ StopStreaming
  \/ RecordDialog \/ StopRecording \/ SaveImageDialog \/ OnRecordingStopped
ConversionThread == ConversionLocksRecord \/ ConversionRecords \/ ConversionGivesBack
Page == PageHears \/ \E name \in Calls, format \in Formats : PageCalls(name, format)

Next == FrameThread \/ MainThread \/ Handler \/ ConversionTakes \/ ConversionThread \/ Page

Spec == Init /\ [][Next]_vars

-----------------------------------------------------------------------------
(* Properties. *)

(* The `done' callbacks of processors 2 and 3 that have not been called    *)
(* are in exactly one place each, although the frame, conversion and main  *)
(* threads pass them on with the mutexes released.                         *)
Holders(b, p) ==
  {h \in {"frame", "previous", "last", "mail", "conversion"} :
     \/ h = "frame" /\ ft.buf = b /\ (p = "server" => ft.pc \in {"server", "push"})
     \/ h = "previous" /\ ft.old = b /\ p = "last"
     \/ h = "last" /\ lastDone = b /\ p = "last"
     \/ h = "mail" /\ mail = b /\ p = "server"
     \/ h = "conversion" /\ conv.buf = b /\ p = "server"}
OneHolder ==
  \A b \in Buffers, p \in Processors :
    Cardinality(Holders(b, p)) = IF <<b, p>> \in held THEN 1 ELSE 0

(* A recording never outlives the stream: stopStreaming stops it, and a    *)
(* dialog that was open meanwhile does not start another one.              *)
RecordingNeedsStream == main = <<>> /\ recorder.recording => streaming

(* Every AVI file that has been finished, by stopRecording, stopStreaming  *)
(* or the size limit, can be played, whichever of them came first.         *)
FileConsistent ==
  recorder.format = "avi" /\ ~recorder.recording /\ recorder.file # NoFile
    => AviConsistent(recorder.file)

(* When nothing is on its way, the page shows what is the case, although   *)
(* calls cross signals and stopStreaming can be interrupted by calls.      *)
PageInStep ==
  main = <<>> /\ events = <<>> /\ signals = <<>>
    => page["open"] = open /\ page["streaming"] = streaming

(* m_recordMutex and the recorder's mutex are taken in both orders, but    *)
(* never by two threads that wait for each other: the main thread, which   *)
(* emits recordingStopped with the recorder's mutex, and the conversion    *)
(* thread, which is in the recording callback with m_recordMutex.          *)
NoLockCycle == ~(RunsAt("finished") /\ conv.pc = "write")

(* Finishing a recording updates its header and leaves the frames alone:   *)
(* VideoRecorder::stop writes the raw header again, with longer numbers.   *)
RecordedFramesIntact == ~recorder.recording => FramesIntact(recorder.file)

(* saveImage reads a frame whose buffer still exists. *)
SaveReadsLiveFrame ==
  EventLoop /\ events # <<>> /\ Head(events).name = "save" => lastDone # Freed

=============================================================================
