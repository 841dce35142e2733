# V4L2Viewer: TLA+ models, checks and proofs

V4L2Viewer shows the picture of Video4Linux cameras, in a Qt widget window or
(with `--web`) in a web page served from the same process. Its own logic is the
part this project is about: threads that lend camera buffers to each other and
have to give them back, and handlers that start, stop, open and close while
those threads run. Paths below are relative to `src/lib/Source` unless they
name another directory.

## Inventory

| Component | State it keeps | Operations | Correct when |
|---|---|---|---|
| Capture (`FrameObserver.cpp`, `FrameObserverMMAP.cpp`, `FrameObserverUSER.cpp`) | user buffers with a bit mask `processMap` of processors still using them, `m_IsStreamRunning`, `m_bStreamStopped` | create, queue, start, dequeue and dispatch, `done`, stop, delete | a buffer belongs either to the driver or to the application; every buffer comes back; a stop ends |
| `Camera.cpp` | file descriptors, event subscriptions, volatile controls | open/close, STREAMON/STREAMOFF, read and write of controls and formats | calls come in the order the driver needs; closing undoes opening |
| `FrameStreamServer.cpp` with `Resources/web/js/frame-renderer.js` | a mailbox for one frame, flags of the send window, WebSocket clients, recording callback | push, convert, broadcast, acknowledge, connect, flush, stop | every `done` is called once; a slow page slows the stream and never stops it |
| `CameraBridge.cpp` with the page's `app.js` and `camera-channel.js` | open and streaming flag, retained last frame, recorder; the page's copy of the flags | open, close, start, stop, record, save; signals to the page | nothing is retained past a stop; a recording ends with its stream; the page shows what is the case |
| `VideoRecorder.cpp` | file, sizes, AVI index | start, write, stop, size limit | the header and the index agree with what was written, whoever ends the recording |
| `V4L2Viewer.cpp` | open and streaming state, enabled widgets, retained frame | the handlers of the widget window, nested in each other through `processEvents` | when all handlers have returned, the window, the frame observer and the driver agree; the retained frame has memory |
| `SoftwareRenderSystem.cpp`, `EGLRenderSystem.cpp`, `EGLRenderWidget.cpp` | a mailbox for one frame, a render thread | pass frame, convert or upload, draw | every `done` is called once, after the frame was drawn or replaced |
| `V4L2EventHandler.cpp` | descriptors to poll, an eventfd | poll loop, subscribe, stop | the stop handshake separates the thread's and the caller's use of the descriptors |
| `EnumeratorInterface/` and the page's list of controls | what is shown of each control | update, set, slide | what is shown is what the device has |
| `BaseLogger.cpp`, `Logger.cpp` | three queues, three threads | log, dump, drain at exit | messages come out once and in order |
| `ImageTransform.cpp` | a conversion buffer | convert a frame to an image | each pixel is made from its own bytes, nothing is read or written outside |
| `CameraObserver.cpp`, `AutoReader.cpp` | known devices, a timer | scan; read again | their threads and timers are never started |
| `FPSCalculator.cpp`, `V4L2Helper.cpp` | little or none | computations | functions of their input |
| dialogs, forms, the rest of the page | presentation | | not modelled |

How they interact. The Qt main thread runs every handler of the widget window
or of `CameraBridge`. It starts the frame thread (`FrameObserver::run`), which
takes each filled buffer from the driver and calls every registered processor
with the buffer and a `done` callback. A processor may call `done` at once, pass
the buffer to a conversion or render thread, or retain it until the next frame
or until the user stops the stream. The last `done` queues the buffer again.
Stopping clears a flag, polls for the thread to leave its loop, and then waits,
running the event loop, until every `processMap` is 0.

What is hard about it: flags and bit masks are shared between threads without a
common lock; callbacks run outside the mutexes that protect them; stop flags
are set without the mutex of the condition variable they belong to; stop
handlers run the event loop and so can be re-entered; several waits expire and
go on. `PROJECT.json` lists these hazards with their lines.

## Modules

| Module | Models | Used by |
|---|---|---|
| `FrameObserver` | the capture path, main thread, frame thread and the threads that run `done` | `MCFrameObserver`, `FrameObserverProofs` |
| `BufferPool` | what the capture path promises: exclusive ownership of buffers | instantiated in `FramePool` as `Pool` |
| `FramePool` | `FrameObserver` with a history variable for what breaks the promise | `MCFramePool`, `FrameObserverProofs` |
| `FrameStreamServer` | mailbox, conversion thread, broadcasts, flush and stop, and the page's acknowledgements | `MCFrameStreamServer`, `FrameStreamServerProofs` |
| `CameraBridge` | the handlers of the web back end, processors 2 and 3, the recording callbacks, the event queue of the main thread, the page's flags and buttons | `MCCameraBridge`, `CameraBridgeProofs` |
| `VideoRecorder` | the recorder's operations on its state and on the layout of its file | extended by `CameraBridge` |
| `V4L2EventHandler` | the event thread and the handshake that ends it | extended by `CameraControls` |
| `CameraControls` | a camera from open to close: descriptors, the table of controls, the thread for volatile controls, events, and the panel in the window or in the page | `MCCameraControls`, `CameraControlsProofs` |
| `DisplayPath` | the window's processors, both render systems, the retained frame, saving, and the stop of a stream | `MCWindowParts`, `DisplayPathProofs` |
| `FrameSink` | what a render system promises | instantiated in `DisplayPath` as `Sink` |
| `CameraFormats` | setting and reading the image format along a pipeline of sub-devices | extended by `ViewerSession` |
| `ViewerSession` | the window's handlers that open, close, start, stop and change the format, nested | `MCWindowParts`, `ViewerSessionProofs` |
| `ImageTransform` | every converter, one line at a time | `MCWindowParts`, `ImageTransformProofs` |
| `BaseLogger` | the queues of the log, their threads and the shutdown | `MCWindowParts`, `WindowPartsProofs` |
| `FrameObserverProofs`, `FrameStreamServerProofs`, `CameraControlsProofs`, `DisplayPathProofs`, `ViewerSessionProofs`, `ImageTransformProofs` | theorems about the module they are named after | |
| `CameraBridgeProofs` | lemmas on what the recorder's operations do to a file, and theorems about the bridge that calls them | |
| `WindowPartsProofs` | theorems about the log, and about the parts of the window side by side | |

### FrameObserver

`running` and `stopped` are `m_IsStreamRunning` and `m_bStreamStopped`; `alloc`
is the list of user buffers; `processMap[b]` is the set of bits that are 1;
`drv` and `streamon` are the driver's view; `held[b][p]` counts the `done`
callbacks processor `p` has not called for buffer `b`; `ft`, `rel` and `main`
are the control points of the frame thread, of a thread inside `done`, and of
the main thread.

The `done` callback is three steps (`DoneClears`, `DoneChecks`, `DoneQueues`)
because the code clears the bit, reads the mask again and only then takes the
lock in `QueueSingleUserBuffer`. `QueueSingleUserBuffer` itself is one critical
section. The clear is one step because `processMap` is a `std::atomic`
(`FrameObserver.h:49`). `m_IsStreamRunning` and `m_bStreamStopped` are plain
`bool`s, read and written here as if sequentially consistent: the loops that
poll them contain calls the compiler cannot see through.

Processors run on the frame thread, on the main thread (between two operations
or in the event loop of `StopStream`) or on threads of their own: `Releasers`
says which. Assertions are taken as compiled out, so that an expired wait goes
on, and `StopMayTimeOut` says whether waits expire. STREAMOFF does not fail in
the model; a failed buffer creation changes nothing.

Both front ends call `done` on several threads: processor 1 on the frame thread
at once (`V4L2Viewer.cpp:1528`, `CameraBridge.cpp:216`), the others on the frame
thread, on a render or conversion thread, or on the main thread. `FramePool`
says up to which moment the path keeps the promise of `BufferPool` on such
threads. `disturbed` is set by one of three things: two threads are inside
`done`s of one buffer when its last bit is cleared (`BothLast`: both may read 0,
and `capture_retained` shows what comes of it), a wait of `StopStream` has
expired (`WaitExpired`), or `StopStream` has seen the last bit cleared and goes
on while the thread that cleared it has not queued the buffer yet
(`DoneOvertaken`). Nothing in the code excludes them, and nothing is claimed
after them. `NoBufferLost`, `PendingBitHasHolder`, `EveryBufferReturns` and
`StopTerminates` do not depend on them and hold in either case.

### FrameStreamServer

`nextBuf`, `nextDone` and `bufferReady` are the mailbox; `lent` is the set of
buffers whose `done` has not been called; `push`, `conv` and `main` are the
three threads; `queued` counts the `broadcastReady` events in the main thread's
queue; `page[c]` has the frames on their way to client `c`, whether it is
drawing one or has failed to, and its acknowledgements on their way back. A
frame the page cannot decode is never acknowledged, and with one page the
stream then stands still: `PageKeepsGettingFrames` shows that nothing else
stops it.

The conversion thread holds `m_frameMutex` at the control points of
`HoldsFrameMutex`; all other critical sections are single steps. The atomic
flags are read and written outside of it, each in its own step, so lost
notifications occur in the model, and spurious wake-ups do. A page connects by
sending one acknowledgement, drops frames that arrive while it draws, and can
leave at any time.

### CameraBridge and VideoRecorder

`CameraBridge` puts the parts together above the capture path. `open` and
`streaming` are `m_bIsOpen` and `m_bIsStreaming`, `streamon` is what the device
knows. `main` is the main thread's stack of handlers that have not returned:
file dialogs and the wait in `StopStream` run the event loop (`EventLoop`), and
a call of the page is then handled on top of them. `events` is the event queue,
with the page's calls and the `recordingStopped` signal of the conversion
thread; `signals` are on their way to the page, and `page` is what it shows,
which decides the buttons a user can press (`Enabled`).

`held` has the `done` callbacks of processors 2 and 3 that have not been called,
as pairs of buffer and processor; `lastDone` is `m_lastDoneCallback`, `mail` the
stream server's mailbox, `ft` and `conv` are the frame and conversion threads.
`DeleteUserBuffer` turns whatever is still kept into `Freed`.

The capture path and the stream server are reduced to what `FrameObserver` and
`FrameStreamServer` show of them: a buffer is dispatched when all its callbacks
have been called, and the server gives a frame back when it gets the next one,
has converted it, or is flushed. Three steps of the code are larger here than
there: a push replaces the mailbox in one step, the recording callback does not
see the raw-data race, and `flush` does not miss its wake-up. `startStreaming`
is one step up to its `streamingStateChanged`, because nothing it calls runs the
event loop; its calls may fail at any point, and `VIDIOC_REQBUFS` does fail on a
device that streams, which is what keeps a start inside a stop from going
through. A camera opened inside a stop replaces the `FrameObserver` whose
`StopStream` is on the stack; what the main thread does then is undefined, and
the model keeps it at `replaced` (`Undefined`) while the other threads go on.

`VideoRecorder` keeps a file as the extents of what was written: where each
frame's chunk is, where each index chunk is and what it lists, and the sizes in
the header. Each operation is one critical section of `m_mutex` and one
operator. `HeaderSize` and `Word` are constants so that small files suffice; in
the code they are 224 and 2^32.

### V4L2EventHandler and CameraControls

`V4L2EventHandler` has the thread (`run`, with the poll entries it has still to
handle, which it takes in the order of `m_Fds`), its descriptors `watched` (`m_Fds`), the `counter` of the eventfd, and
the driver's subscriptions and unread events. `RunHandles` is one poll entry,
with the erase by position that the code does. `Stop` is four steps, the two
writes, the read and the unsubscription, since each of them can wait for the
other thread; `MaxCounter` stands for 2^64 - 2.

`CameraControls` puts `Camera` around it: `ctlFd` is the table from control to
descriptor, `volatiles` the list of volatile controls, `rereader` the thread
that reads them again every second, `promised` the promise that ends it.
`posted` is the main thread's event queue, `wire` the messages on their way to
the page, and `panel` what the window or the page shows of each control.
`EnumSubscribes` and `EnumReads` are the two halves of one control's
enumeration: an event that comes between them must not be lost. Neither
`CloseDevice` nor `OpenDevice` clears `m_volatileControls` or the table, and the
model keeps them too. A failed open leaves both threads running; the window
closes again (`AfterFailedOpen`), the page does not, and its next open assigns
a running `std::thread` (`Terminates`).

What the page displays is more than its records. An input keeps what the user
entered (`entry`) until a record with another value comes: `PageSets` sends it
and reads nothing back, whether the set was accepted, refused, or clamped to
the limits. `overruled` marks the entries that the device refused or changed,
and those whose control went back to the value of the record, which a slider or
a menu does not notice. An event and the automatics come without the entries
of a menu: `LosesEntries` says whose menu is then empty, every one of the page,
and of the window the menus of integers and those that were empty before.

Abstractions: values are labels, and the device's values start anew with each
open; the list of volatile controls is a set, while the code's has an entry per
enumeration; `Check4IOReadAbility`, which opens and closes the camera before it
is opened, is left out here and part of `ViewerSession`.

### DisplayPath and FrameSink

The three processors of `OpenAndSetupCamera` run on the frame thread (`frame`);
the first one calls `done` at once. `waiting` is the mailbox: `nextBuffer` of
`SoftwareRenderSystem` or of `EGLRenderWidget`. The conversion thread (`conv`,
`using`) or `paintGL` (`painting`) empties it. `retained` is `lastFrame` with
its `lastDoneCallback`, `dialog` says that `OnSaveImageClicked` is at its file
dialog, with the mutex held. `stop` is the main thread's place in
`OnStopButtonClicked` and `StopStream`: calling and emptying
`lastDoneCallback` are two steps, since that code takes no lock. `pending` is
`processMap` as in `FrameObserver`, with `done` as one step; the races inside
`done` are the subject of `FrameObserver`.

`setFormat` runs on the frame thread while the widget paints; `formatRaced`
marks a paint during which the format changed. A hidden widget is not painted
and keeps its frame; a Stop whose wait then expires frees memory the renderer
refers to (`stale`). `FrameSink` states what both renderers promise: a frame is
returned after it was drawn or when a newer one takes its place.

### CameraFormats and ViewerSession

`stack` holds the handlers of the window that have not returned. Three of them
call `processEvents` half way: opening and closing (at its beginning), starting
(after the format was read), stopping (until all frames are back). Any handler
whose widget is enabled can then run on top of them, and what keeps them from
doing harm is which widgets are enabled, the blocked signals of the camera list
and the compare-and-exchange on `m_StreamingState`.

Two things can go wrong in the code and are recorded instead of excluded: an
open that begins inside another open (`doubleOpen`; the camera list still sends
double clicks), and a camera opened inside the wait of a stop, which replaces
the frame observer under `StopStream` (`dangling`; the model stops there, since
what follows is undefined). `drift` marks a format that changed in the
`processEvents` of `StartStreaming`, `cropMoved` a crop handler that ended
without reading the format back.

`CameraFormats` numbers descriptors as the kernel does, so that a descriptor
remembered from one camera (`PrepareFrameSize`, `PrepareCrop`) can be another
device of the next one. Sizes of sub-devices, crop rectangles and frame rates
are left out, as is everything that only decides which numbers are shown.

### ImageTransform

A `job` is an image: layout, width, height, padding at the end of a line, Bayer
filter. `buffer` says for each byte of the buffer which byte of the frame it
holds, after the first pass that unpacks 10 and 12 bit formats or takes the
high bits of 16 bit ones; a step converts a line, moves `src` and
`chroma` as the code moves its pointers, and `wrote` is the
line's pixels, each channel as the set of bytes it was made from. What is done
with those bytes (weights, clipping) is left out.
`PixelsFromTheirPlace` compares with `LayoutPixel`, which says what V4L2 defines
the layouts to be. It excuses what the converters are not made for (Bayer
filters of less than three columns, odd sizes of `yuv420`), and, for what a
pixel is made from, images that come out skewed: the 565, 32 bit, planar and
packed converters ignore padding, and the pair and packed converters need
widths that are multiples of their group. A Bayer image of one line is left
out, since the loop over its inner lines would not end. Two layouts come out in
the wrong colours and are named as exceptions (`Miscoloured`): `YUV420` is
converted with `yvu` = 1, which takes V from the plane of U
(`ImageTransform.cpp:990`), and `RGB32` is copied like `BGR32` (`:999`). Of them
the property only says which wrong pixel they get. JPEG, the formats `QImage`
copies, and the alignment of a `QImage`'s lines are left out.

### BaseLogger

An item goes through a queue once, except that a dump is popped by the dump
thread and logged as text. The test of the running flag and the push are two
steps, because the destructor can come between them; `late` has the items for
which it did. `LogBuffer` tests the flag of the dump thread.

Lines and dumps are pushed and popped under one mutex each, in one step.
`LogBuffer` pushes under `m_DumpMutex` and its thread pops under
`m_BufferMutex` (`BaseLogger.cpp:181`, `:256`), so that for buffers a push and a
pop have a beginning and an end and may overlap. From the first overlap on
(`torn`) a push may be lost, a pop may leave its item in the queue or find none,
and nothing is claimed of buffers any more; what a corrupted queue does to the
rest of the process is beyond the model. `Logger::LogBuffer` and
`Logger::LogDump` only forward, and the application calls neither of them.

## Runs

| Run | Shows |
|---|---|
| `capture_threads` | `NoBufferLost` and `PendingBitHasHolder` with `done` on three threads, waits that expire, streams started and stopped again and again; and `ImplementsPool`, on these threads until the first disturbance (2 buffers, 2 processors) |
| `capture_returns` | two processors that return their buffers on the frame thread or the main thread, as the first processor and the one that retains a frame do (a third thread is left to `capture_threads`), so that a stop itself runs `done`s it waits for: it tears down only after the thread left its loop (`TeardownAfterThread`), every buffer returns (`EveryBufferReturns`), also after two threads met in `done`, and a stop ends (`StopTerminates`) (2 buffers) |
| `capture_retained` | violation of `NoWriteWhileHeld`: two threads both see 0 and the second queues a buffer that is in use again |
| `capture_stop` | violation of `StopIsFinal`: `run()` undoes a stop that came before its first statement |
| `stream_flow` | `OneHolder`, `OneBroadcast`, and that frames keep flowing, buffers come back and flushes end (2 buffers, 1 page) |
| `stream_rawdata` | violation of `RawDataValid`: the recorder gets a buffer that was given back while `pushFrame` had the mutex released |
| `stream_quiet` | violation of `FlushNeedsNoFrame`: `flush` notifies without the mutex, the conversion thread misses it, and `join` waits for good when no further frame is pushed, as in `stopStreaming` |
| `bridge_page` | `OneHolder` across frame, conversion and main thread; `RecordingNeedsStream`, `FileConsistent`, `PageInStep` and `NoLockCycle` with calls nested in dialogs and stops, and recordings ended by a call, by a stop or by the size limit |
| `bridge_save` | violation of `SaveReadsLiveFrame`: processor 3 tests the flag before it takes the mutex, and retains a frame after `stopStreaming` has released what was retained |
| `bridge_rawheader` | violation of `RecordedFramesIntact`: `stop` writes the raw header again with longer numbers, over the first frame |
| `control_panel` | two cameras opened and closed in turn, from the window or from the page, with both threads, users whose sets are refused, clamped or crossed by a change of the device, and devices that disappear: window, records and inputs of the page are in step (`PanelInStep`), controls are set on their descriptor (`SetReachesOwner`), the handshake of closing (`StopAfterRun`, `PolledFdsOpen`, `CloseEnds`), `OnlyFailingErased`, `WindowReopens`, and volatile controls are shown in the end (`VolatilesShown`) |
| `window_parts` | the parts of the window that share no state, one at a time: frames (`RenderOneHolder`, `RetainedIsHeld`, `SavedFrameLive`, `UploadMatchesFormat`, `StopReturns`, `ImplementsSink`), handlers (`IdleConsistent`, `StreamDescribesDevice`, `ShownCurrent`), image conversions (`PixelsFromTheirPlace`), the log's shutdown (`LogComplete`) |

Bounds. Two buffers are enough for one to be with the driver while the other is
in use, and for a stale QBUF to hit a buffer that is dispatched again. Two
processors on different threads are the smallest instance of the race in
`done`; the theorems hold for any number of them.
`MaxHolds` bounds a processor's uncalled callbacks for one buffer, which exceed
one only after a stale QBUF; in `capture_returns` it is 1, so that there the
frame thread gives a processor its buffer again only after the first callback.
In `stream_flow` the two buffers are the one in the mailbox and the one being
pushed or converted; the theorem on `OneHolder` has no such bound. `MaxInFlight` = 2 lets the acknowledgement a page sends on
connecting overlap with the one for a frame.
`capture_returns`, `capture_retained`: deadlock is not
checked, since with the given threads nobody has to start another stream.
In `bridge_page` a page has at most two calls and one signal under way when it
makes another (`MaxEvents`, `MaxSignals`), and three handlers can be nested
(`MaxDepth`): a dialog, a stop and a call handled during its wait. The limit of
72 bytes ends an AVI recording with its second frame of 5 bytes and a raw one
with its second frame, so that a recording can end with no frame, in its
middle, and at the limit. The buffers are symmetric. The run checks safety
only; `NoLockCycle` is the deadlock of the two recording mutexes as an
invariant, since with a page that can always call TLC's deadlock check does not
see it.
`control_panel` has a camera with two sub-devices and a volatile control, and
one with none and a gain, an automatic that is a menu, one that is a switch, and
a menu of integers, so that a gain is on different descriptors and a volatile
control is one that only one of them has. Two opens are what it takes to carry
tables from one camera to the next, or to meet the thread of a failed open. One set and one
event of the device (a change or a loss) give every order of a set, an event
and its feedback; two devices lost at once, for which erasing by position is
wrong, are outside of the bound and of `OnlyFailingErased`. The reader starts a
round only when the event queue is empty, and an open finds it empty. Deadlock
is not checked, since users and devices need not act.
In `window_parts` a behaviour belongs to one part (`part`), and the others keep
one initial state each. Two buffers are one with the renderer and one that
arrives, or one retained and one that replaces it; two formats; the window is
hidden at most once. Three handlers can be nested. The two cameras have no
sub-device and two, of which one enumerates sizes and both can crop. The widths
and heights have each parity, each remainder by four, lines with and without
inner pixels, and `Paddings` a line that is longer than its pixels. The log has
two messages, a dump and a buffer: two messages for their order.

Fairness. Threads are scheduled (weak fairness of their actions). The driver
fills buffers it was given and a processor gives back what it holds; strong
fairness there, because other buffers come and go in between. Nobody has to
start or stop a stream. In `FrameStreamServer` the frame thread gets the mutex
if it keeps asking (strong fairness, which `std::mutex` grants in practice),
frames keep arriving, and not every conversion fails, since `startStreaming`
rejects formats that cannot be converted. Connections, disconnections, flushes
and spurious wake-ups are not assumed to happen. `QuietSpec` of `stream_quiet`
drops the assumption that frames keep arriving; a push that has begun still
ends. `stopStreaming` clears `m_bIsStreaming`, the condition for
processor 2 to push, before it calls `flush`.
In `CameraControls` the two threads, the main thread's event loop and the page
go on; nobody has to use the camera. In `DisplayPath` the frame and conversion
threads go on, a visible widget with a frame is painted, and a user leaves the
file dialog. The steps of a stop have strong fairness: each round of its wait
calls `processEvents` once, which handles the events it finds and returns, so
that events cannot keep the wait from going on. `ViewerSession`,
`ImageTransform` and `BaseLogger` are checked for safety only.

## Proofs

TLAPS proves what follows for all values of the constants; the bounds of the
runs are constants too, so that none of it depends on their size. Each theorem
rests on an inductive invariant, named here with what it adds.

Capture path (`FrameObserverProofs`):

* `TypeCorrect`: `TypeOK`.
* `BuffersAreNotLost`: `NoBufferLost`. The inductive invariant `UpInv` adds why
  `QueueSingleUserBuffer` cannot skip a buffer while the stream is up: all
  buffers exist, a streaming stream runs, and whoever has a buffer got it from
  a running one.
* `PendingBitsAreHeld`: `PendingBitHasHolder`, inductive together with `TypeOK`.
* `TeardownWaitsForTheThread`: `TeardownAfterThread`, if no wait expires.
  `ThreadInv` says that `m_bStreamStopped` is true only while the thread is out
  of its loop, and is true again whenever no stream runs or is waited for.
* `CaptureImplementsPool`: the refinement of `BufferPool`, step by step, and
  `HeldFramesAreNotOverwritten`: `NoWriteWhileHeld`, on any threads, until the
  first disturbance (`FramePool`). `PoolInv` holds until then. Its part `HoldInv`
  says that a processor holds a buffer once, while its bit is set, and that the
  buffer is then the application's and out of the frame thread's hands, as it is
  while a thread is inside a `done` of it, and no second thread is once its last
  bit is cleared;
  `DrainInv` that no bit is set again behind `StopStream`'s back, `MemoryInv`
  when buffers exist and the driver streams. Up to a disturbance a processor
  never holds a buffer twice, so that `MaxHolds` cuts nothing off before one.

Stream server (`FrameStreamServerProofs`):

* `EveryLentBufferHasOneHolder`: `OneHolder`. `CallbackInv` says what each
  thread holds at each control point, that the places a callback can be in are
  pairwise different, that the mailbox is empty while `pushFrame` has the mutex
  released, and that there is no conversion thread between the join and the
  restart in `flush`.
* `NoSecondBroadcast`: `OneBroadcast`, by `BroadcastInv`.
* `ServerTypeCorrect`: `TypeOK`. It needs `FrameReady`: what `m_bufferReady`
  announces is a real buffer, although the mutex is given up in between.

Web back end (`CameraBridgeProofs`). One invariant, `BridgeInv`, carries the
first five; its parts hold at every depth of nesting:

* `BridgeTypeCorrect`: `TypeOK`.
* `EveryCallbackHasOneHolder`: `OneHolder`, by `HolderInv`: what each thread
  holds at each place, and that a callback is in at most one place.
* `RecordingsEndWithTheStream`: `RecordingNeedsStream`, and
  `RecorderLocksAreFree`: `NoLockCycle`, by `StackInv` and `RecordingInv`. There
  is one `stopStreaming` on the stack at a time, nothing starts a stream above
  it, what is not on top is in a nested event loop, and a `closeCamera` stands
  right below the stop it called.
* `PageFollowsTheBridge`: `PageInStep`, by `PageInv`: the last signal on its
  way about a flag, or else what the page shows, is the flag's value.
* `FinishedFilesPlay`: `FileConsistent`, by `FileInv` with the lemmas on
  the recorder's operations. It supposes that three times the size limit and one
  more frame fit in the 32-bit sizes (`SizesFit`), which holds for the default
  limit of 200 MB and any real frame; a user may set a higher limit.

Control panel and event thread (`CameraControlsProofs`):

* `ControlsTypeCorrect`: `ControlsTypeOK`, by `TypeInv`.
* `StopIsApart`: `StopAfterRun`. Its invariant ties the eventfd's counter to
  the places of the two threads: while the event thread is in its loop, the
  counter is 0 or holds the first write, and the second write needs it to
  be 0 again, which only the thread's last statement makes it.
* `PolledDescriptorsAreOpen`: `PolledFdsOpen`. Erasing only removes
  descriptors, and they are closed only after the handler was deleted, which
  the order of `CloseDevice` gives: the main thread is past the join only when
  the handler is being stopped.
* `WindowClosesBeforeReopening`: `WindowReopens`, by `OpenInv`: in the window, a
  thread for volatile controls that exists while the main thread is idle belongs
  to a camera that is open; one of a failed open is gone by then.
* `WorkingDescriptorsStayPolled`: `OnlyFailingErased`, by `ErasedInv`: no
  descriptor is watched twice, and the poll entries are where their descriptors
  are until the first is erased.
* `ControlsAreSetOnTheirDevice`: `SetReachesOwner`, by `OwnerInv`: a control
  whose entry in the table, left by an earlier camera, leads elsewhere is still
  to be read by the enumeration.
* `PanelFollowsTheDevice`: `PanelInStep`. `PanelInv` follows each control
  through the queues: subscribed, or still to be read with no event on its way;
  the latest event on its way has the device's value; and if none is, the
  latest message, or the panel, has it, unless a reading is due. `InputInv` adds
  the page's inputs: an entry in front of a record is the device's value, or the
  record is about to change and to take it away, or the entry was overruled.

Window (`DisplayPathProofs`, `ViewerSessionProofs`):

* `DisplayTypeCorrect` and `RenderersHoldOnce`: `DisplayTypeOK` and
  `RenderOneHolder`. Inductive together with what each thread is entitled to
  at its place: a frame in the processors is the viewer's and in neither the
  mailbox nor the conversion thread, and memory is freed only when no bit is
  left or the wait expired (`stale`).
* `RenderersImplementSink`: both render systems implement `FrameSink`; every
  step maps to a pass, a draw, a return or a stutter until a stop has freed
  memory under the renderer.
* `RetainedFrameIsHeld` and `SavedFrameHasMemory`: `RetainedIsHeld` and
  `SavedFrameLive`, by `RetainInv`: the retained frame has not been given back
  except between the two statements of Stop, and the dialog is open only where
  Stop handles events.
* `UploadsMatchTheirFormat`: `UploadMatchesFormat`, by `FormatInv`.
* `StreamMatchesItsDevice`: `StreamDescribesDevice`. `StackInv` says that the
  compare-and-exchange lets one start or stop wait at a time and which
  (`streamState`), `DeviceInv` whose the descriptors and the thread are,
  `ParamsInv` that a waiting start has read the current format.
* `WindowShowsTheFormat`: `ShownCurrent`, by `ShownInv`, which holds at any
  moment and not only at rest.
* `SessionTypeCorrect`: `SessionTypeOK`. The descriptors that the probes
  remember are devices of some camera (`OtherTypes`); that a probe finds the
  first or the last of several needs the least element of a set of naturals,
  which `LeastNatural` and `GreatestNatural` get from the order of subsets of a
  finite set.
* `IdleWindowIsConsistent`: `IdleConsistent`. `WindowInv` says what every flag of
  the window is while handlers wait, as long as no open has begun inside
  another: the widgets are what keeps the wrong handler from running, so the
  invariant has to relate every flag to what is on the stack.

Images (`ImageTransformProofs`):

* `PixelsAreFromTheirPlace`: `PixelsFromTheirPlace`, and `ImageTypeCorrect`:
  `ImageTypeOK`. `ImageInv` says where the pointers are at each line, as
  products of the line's number: the source pointer (`LineStart`), the place in
  the planes of chroma (`ChromaStart`) and the pixels written (`Counted`); and
  that the line written last is good (`GoodLine`). That a line is good has
  nothing to do with states and is proved for each kind of converter: one pixel
  after the other (`PixelsLineIsGood`), pairs (`PairsLineIsGood`), planes
  (`PlanesLineIsGood`), Bayer filters (`BayerLineIsGood`). A Bayer line is
  written as a beginning, rounds of two pixels and an end; `BorderLineIs` and
  `MiddleLineIs` show that its pixel in column x is what `BorderPixel` and
  `MiddlePixel` say of x alone, whatever the width and whether the line begins
  with green, and `BorderPixelIsRight` and `MiddlePixelIsRight` that those
  pixels take each colour from neighbours of that colour. `BufferInFrame` and
  `SampleInBuffer` are about the first pass: removed padding, and the groups of
  3 and 5 bytes of which the last is dropped (`GroupsDropped`).

Log and parts (`WindowPartsProofs`):

* `NothingLoggedIsLost`: `LogComplete`. `PlaceInv` says that an item that has
  been pushed is in one place, once, `OrderInv` that a line stays behind the
  lines accepted before it wherever the two are, `ControlInv` that a thread that
  has ended has nothing left and that the dump thread ends before the text
  thread is told to, so that nothing it logs is dropped. `BufferInv` says the
  same of buffers, as long as no push has overlapped a pop.
* `PartsTypeCorrect`: `PartsTypeOK`. By `PartsAreApart`, a behaviour of the
  parts side by side is one of each part, so that each theorem about a part
  holds of the specification that `window_parts` checks.

They rest on the named assumptions of the modules: the null buffer is no
buffer, no format is no format, at most 63 processors (the assertion in
`allOnes`), positive bounds, a counter that can be at least 1; there are
controls and values, layouts name each control once and only descriptors that
opening the camera opens, and the sub-devices of a camera have different
descriptors; the bound on nested handlers and file sizes are natural numbers;
images and paddings have natural numbers for sizes; messages, dumps and buffers are
different items. A theorem's own hypotheses are in its statement.

Every invariant the runs check is proved, and every action property. Only
model-checked: what holds under fairness (`EveryBufferReturns`,
`StopTerminates`, `PageKeepsGettingFrames`, `EveryBufferGivenBack`, `FlushEnds`,
`CloseEnds`, `VolatilesShown`, `StopReturns`), which is out of the provers'
reach. `CaptureImplementsPool` cannot do without its three disturbances:
`capture_retained` shows the first, an expired wait frees what is in use by
design, and with a single thread that calls `done`, other than the frame and the main
thread, TLC finds the third, a `done` that has seen 0
and queues its buffer only after the stream was stopped and started again and
the buffer dispatched anew. The violations are traces, and nothing about them
is proved.

## Not modelled

* `CameraObserver` and `AutoReader`: their thread and their timers are never
  started; the list of devices is asked for once.
* `FPSCalculator`: floating point arithmetic for a label.
* The order of destruction at the end of the program, of the window, the
  bridge, the stream server and the render system.
* Memory: what a failed allocation or mapping of buffers leaves behind.
* Of `Camera`: frame rates, register access, queries of names and versions, and
  the named Read and Set calls, each of which wraps `SetExtControl` or its
  counterpart. Of the window: the fixed sliders for them, zoom, scrolling and
  the device list. Of the page: the same sliders, and the WebM recording.
* Colour arithmetic, JPEG and OpenGL drawing.
* Data races proper: flags and descriptor lists that two threads access without
  a lock are read and written in single steps.

Smaller hazards that were met on the way and have no property of their own:
`m_bStreamStopped` is set before the thread has finished, so that a quick
restart may find it running (`FrameObserver.cpp:238`); with two recording
dialogs open, the queued `recordingStopped` of the first recording takes the
callback of the second (`CameraBridge.cpp:861`); the frame observer can be
replaced inside its own `StopStream` (`Camera.cpp:447`); `done` of a rendered
frame and the detached thread that saves an image touch widgets off the main
thread (`V4L2Viewer.cpp:1545`, `:1238`); `s_ConversionBuffer` is shared by the
conversion thread and Save image (`ImageTransform.cpp:33`);
`SubscribeControl` walks through `m_Fds` while the thread may erase from it
(`V4L2EventHandler.cpp:41`), and the eventfd is never closed (`:31`); values
posted before a close bring back widgets of the closed camera
(`Camera.cpp:526`); two `refreshControls` of the page interleave
(`app.js:1301`), and its sliders show what was asked for (`app.js:1391`); after
a failed allocation or mapping `DeleteAllUserBuffer` dereferences entries that
are not there (`FrameObserverMMAP.cpp:161`, `FrameObserverUSER.cpp:279`); the
stop flag of the render thread is notified without the mutex, so that the
destructor can join a thread that sleeps for good
(`SoftwareRenderSystem.cpp:33`); `PrepareFrameSize` and `PrepareCrop` keep the
descriptor found for an earlier camera (`Camera.cpp:2151`); `LogBuffer` tests the
flag of the dump thread, not of the thread of the buffers (`BaseLogger.cpp:177`);
YUV420 and RGB32 come out in other colours (`ImageTransform.cpp:990`).

## Plan

Done: the capture path, the stream server, the web back end with the recorder,
a camera's controls with the event thread, the window's frames and handlers,
the image conversions and the log.
Next, in this order:

1. The page's format calls and the named sliders, on top of `CameraFormats`.
2. The destruction of the render systems and of `WebViewerWindow`.
