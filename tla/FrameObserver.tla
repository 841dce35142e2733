---------------------------- MODULE FrameObserver ----------------------------
(***************************************************************************)
(* The capture path: the main thread that starts and stops a stream        *)
(* (Camera::CreateUserBuffer .. DeleteUserBuffer), the frame thread        *)
(* (FrameObserver::run) that dequeues V4L2 buffers and hands each of them  *)
(* to every registered data processor, and the threads on which processors *)
(* run the `done' callback that returns the buffer to the driver.          *)
(*                                                                         *)
(* The reads and writes the code does without a common lock are separate   *)
(* steps: in particular `done' clears its bit of processMap, then reads    *)
(* processMap again, then calls QueueSingleUserBuffer.                     *)
(***************************************************************************)
EXTENDS Naturals

CONSTANTS
  Buffers,         (* indices of the user buffers the application allocates *)
  NoBuffer,        (* no buffer                                             *)
  NumProcs,        (* number of registered raw data processors              *)
  Releasers,       (* threads on which processors call `done'; "frame" is   *)
                   (* the frame thread, "main" the Qt main thread           *)
  StopMayTimeOut,  (* may the bounded waits of StopStream expire?           *)
  MaxHolds         (* bound: uncalled `done's of one processor for a buffer *)

ASSUME BuffersAssumption  == NoBuffer \notin Buffers
(* allOnes() asserts that the bit mask fits into 64 bits. *)
ASSUME NumProcsAssumption == NumProcs \in 0 .. 63
ASSUME TimeoutAssumption  == StopMayTimeOut \in BOOLEAN
ASSUME HoldsAssumption    == MaxHolds \in Nat \ {0}

Procs == 0 .. NumProcs - 1

VARIABLES
  running,     (* m_IsStreamRunning                                         *)
  stopped,     (* m_bStreamStopped                                          *)
  alloc,       (* indices whose memory is in m_UserBufferContainerList      *)
  processMap,  (* UserBuffer::processMap as the set of bits that are 1      *)
  streamon,    (* driver: VIDIOC_STREAMON is in effect                      *)
  drv,         (* driver: state of every buffer                             *)
  held,        (* processors' uncalled `done' callbacks, counted            *)
  ft,          (* frame thread: program counter, its buffer, next processor *)
  rel,         (* per releasing thread: the `done' callback it is executing *)
  main,        (* main thread: where it is in the start / stop sequence     *)
  left         (* main thread: buffers StopStream has still to wait for     *)

vars == <<running, stopped, alloc, processMap, streamon, drv, held, ft, rel, main, left>>

(* "new": allocated and never queued; "user": dequeued by the application. *)
DriverState == {"new", "queued", "filled", "user"}
FramePC == {"off", "started", "loop", "dequeue", "have", "requeue", "dispatch",
            "leaving", "exit"}
MainPC == {"idle", "created", "queued", "on", "streaming", "join", "drain",
           "streamoff", "delete"}
Idle == [pc |-> "idle", buf |-> NoBuffer]

TypeOK ==
  /\ running \in BOOLEAN
  /\ stopped \in BOOLEAN
  /\ alloc \in SUBSET Buffers
  /\ processMap \in [Buffers -> SUBSET Procs]
  /\ streamon \in BOOLEAN
  /\ drv \in [Buffers -> DriverState]
  /\ held \in [Buffers -> [Procs -> 0 .. MaxHolds]]
  /\ ft \in [pc : FramePC, buf : Buffers \cup {NoBuffer}, next : 0 .. NumProcs]
  /\ ft.pc \in {"have", "requeue", "dispatch"} => ft.buf \in Buffers
  /\ rel \in [Releasers -> [pc : {"idle", "check", "queue"}, buf : Buffers \cup {NoBuffer}]]
  /\ \A t \in Releasers : rel[t].pc # "idle" => rel[t].buf \in Buffers
  /\ main \in MainPC
  /\ left \in SUBSET Buffers

Init ==
  /\ running = FALSE
  /\ stopped = TRUE
  /\ alloc = {}
  /\ processMap = [b \in Buffers |-> {}]
  /\ streamon = FALSE
  /\ drv = [b \in Buffers |-> "new"]
  /\ held = [b \in Buffers |-> [p \in Procs |-> 0]]
  /\ ft = [pc |-> "off", buf |-> NoBuffer, next |-> 0]
  /\ rel = [t \in Releasers |-> Idle]
  /\ main = "idle"
  /\ left = {}

(* A thread that is inside a `done' callback does nothing else meanwhile. *)
NotInDone(t) == t \in Releasers => rel[t].pc = "idle"

-----------------------------------------------------------------------------
(* The driver, as the code uses it. *)

(* VIDIOC_QBUF fails with EINVAL, and changes nothing, on a buffer that    *)
(* the driver already has.                                                 *)
Qbuf(b) == IF drv[b] \in {"new", "user"} THEN [drv EXCEPT ![b] = "queued"] ELSE drv

DriverFills(b) ==
  /\ streamon
  /\ drv[b] = "queued"
  /\ drv' = [drv EXCEPT ![b] = "filled"]
  /\ UNCHANGED <<running, stopped, alloc, processMap, streamon, held, ft, rel, main, left>>

(* QueueSingleUserBuffer: one critical section of m_UsedBufferMutex; it    *)
(* skips buffers that no longer exist and streams that have been stopped.  *)
QueueSingleUserBuffer(b) ==
  drv' = IF b \in alloc /\ running THEN Qbuf(b) ELSE drv

-----------------------------------------------------------------------------
(* Main thread: starting a stream. *)

MainAt(at) == main = at /\ NotInDone("main")

(* CreateAllUserBuffer succeeds; a failure leaves the main thread idle. *)
CreateAllUserBuffer ==
  /\ MainAt("idle")
  /\ main' = "created"
  /\ alloc' = Buffers
  /\ processMap' = [b \in Buffers |-> {}]
  /\ drv' = [b \in Buffers |-> "new"]
  /\ UNCHANGED <<running, stopped, streamon, held, ft, rel, left>>

(* QueueAllUserBuffer returns -1 only if its first VIDIOC_QBUF fails: a    *)
(* later failure ends the loop with the 0 of the earlier success, and the  *)
(* stream starts with the buffers queued so far.                           *)
QueueAllUserBuffer ==
  /\ MainAt("created")
  /\ \E Q \in SUBSET alloc :
       /\ main' = IF Q = {} THEN "delete" ELSE "queued"
       /\ drv' = [b \in Buffers |-> IF b \in Q THEN "queued" ELSE drv[b]]
  /\ UNCHANGED <<running, stopped, alloc, processMap, streamon, held, ft, rel, left>>

(* Camera::StartStreaming: VIDIOC_STREAMON, and the clean-up if it fails. *)
StreamOn ==
  /\ MainAt("queued")
  /\ \E ok \in BOOLEAN :
       /\ streamon' = ok
       /\ main' = IF ok THEN "on" ELSE "delete"
  /\ UNCHANGED <<running, stopped, alloc, processMap, drv, held, ft, rel, left>>

(* QThread::start() does nothing if the thread has not finished yet. *)
StartThread == ft' = IF ft.pc = "off" THEN [ft EXCEPT !.pc = "started"] ELSE ft

(* Mutant: m_bStreamStopped keeps the value of the previous stream. *)
StartStreamKeepsStopped ==
  /\ MainAt("on")
  /\ main' = "streaming"
  /\ running' = TRUE
  /\ StartThread
  /\ UNCHANGED <<stopped, alloc, processMap, streamon, drv, held, rel, left>>

StartStream ==
  /\ MainAt("on")
  /\ main' = "streaming"
  /\ stopped' = FALSE
  /\ running' = TRUE
  /\ StartThread
  /\ UNCHANGED <<alloc, processMap, streamon, drv, held, rel, left>>

-----------------------------------------------------------------------------
(* Main thread: stopping a stream. *)

(* StopStream, first statement; the wait for the thread follows. *)
StopStream ==
  /\ MainAt("streaming")
  /\ main' = "join"
  /\ running' = FALSE
  /\ UNCHANGED <<stopped, alloc, processMap, streamon, drv, held, ft, rel, left>>

(* StopStream polls m_bStreamStopped 300 times and goes on in any case. *)
Join ==
  /\ MainAt("join")
  /\ stopped \/ StopMayTimeOut
  /\ main' = "drain"
  /\ left' = alloc
  /\ UNCHANGED <<running, stopped, alloc, processMap, streamon, drv, held, ft, rel>>

(* StopStream waits for every buffer until all processors are done with    *)
(* it, running the event loop meanwhile; with assertions compiled out an   *)
(* expired wait goes on to the next buffer.                                *)
DrainBuffer(b) ==
  /\ MainAt("drain")
  /\ b \in left
  /\ processMap[b] = {} \/ StopMayTimeOut
  /\ left' = left \ {b}
  /\ UNCHANGED <<running, stopped, alloc, processMap, streamon, drv, held, ft, rel, main>>

Drained ==
  /\ MainAt("drain")
  /\ left = {}
  /\ main' = "streamoff"
  /\ UNCHANGED <<running, stopped, alloc, processMap, streamon, drv, held, ft, rel, left>>

(* Camera::StopStreaming: VIDIOC_STREAMOFF takes every buffer from the driver. *)
StreamOff ==
  /\ MainAt("streamoff")
  /\ main' = "delete"
  /\ streamon' = FALSE
  /\ drv' = [b \in Buffers |-> IF drv[b] = "new" THEN "new" ELSE "user"]
  /\ UNCHANGED <<running, stopped, alloc, processMap, held, ft, rel, left>>

(* DeleteAllUserBuffer unmaps the memory and frees the UserBuffers. *)
DeleteAllUserBuffer ==
  /\ MainAt("delete")
  /\ main' = "idle"
  /\ alloc' = {}
  /\ processMap' = [b \in Buffers |-> {}]
  /\ drv' = [b \in Buffers |-> "new"]
  /\ UNCHANGED <<running, stopped, streamon, held, ft, rel, left>>

-----------------------------------------------------------------------------
(* Frame thread. *)

FrameAt(at) == ft.pc = at /\ NotInDone("frame")
FrameTo(to) == ft' = [ft EXCEPT !.pc = to]
(* The next iteration of the loop in run(). *)
NextFrame == ft' = [pc |-> "loop", buf |-> NoBuffer, next |-> 0]

(* The first statement of run() sets m_IsStreamRunning once more. *)
RunBegins ==
  /\ FrameAt("started")
  /\ running' = TRUE
  /\ FrameTo("loop")
  /\ UNCHANGED <<stopped, alloc, processMap, streamon, drv, held, rel, main, left>>

RunLoop ==
  /\ FrameAt("loop")
  /\ FrameTo(IF running THEN "dequeue" ELSE "leaving")
  /\ UNCHANGED <<running, stopped, alloc, processMap, streamon, drv, held, rel, main, left>>

(* ReadFrame: VIDIOC_DQBUF, only if the stream still runs. *)
ReadFrame(b) ==
  /\ FrameAt("dequeue")
  /\ running /\ streamon
  /\ drv[b] = "filled"
  /\ drv' = [drv EXCEPT ![b] = "user"]
  /\ ft' = [pc |-> "have", buf |-> b, next |-> 0]
  /\ UNCHANGED <<running, stopped, alloc, processMap, streamon, held, rel, main, left>>

(* select() expires, the stream has been stopped, or there is no frame. *)
NoFrame ==
  /\ FrameAt("dequeue")
  /\ running => \A b \in Buffers : drv[b] # "filled"
  /\ FrameTo("loop")
  /\ UNCHANGED <<running, stopped, alloc, processMap, streamon, drv, held, rel, main, left>>

(* The driver flags the frame as erroneous, GetFrameData fails, or nobody  *)
(* is registered: the buffer goes back without being processed.            *)
SkipFrame ==
  /\ FrameAt("have")
  /\ FrameTo("requeue")
  /\ UNCHANGED <<running, stopped, alloc, processMap, streamon, drv, held, rel, main, left>>

(* Mutant: an unprocessed frame is dropped instead of queued again. *)
DropFrame ==
  /\ FrameAt("requeue")
  /\ NextFrame
  /\ UNCHANGED <<running, stopped, alloc, processMap, streamon, drv, held, rel, main, left>>

RequeueFrame ==
  /\ FrameAt("requeue")
  /\ QueueSingleUserBuffer(ft.buf)
  /\ NextFrame
  /\ UNCHANGED <<running, stopped, alloc, processMap, streamon, held, rel, main, left>>

(* allOnes(); mutant: a bit for one processor too many. *)
AllOnesOffByOne == 0 .. NumProcs
AllOnes == Procs

(* GetFrameData succeeds: every processor has to be done with the buffer. *)
BeginDispatch ==
  /\ FrameAt("have")
  /\ running /\ ft.buf \in alloc
  /\ NumProcs > 0
  /\ processMap' = [processMap EXCEPT ![ft.buf] = AllOnes]
  /\ ft' = [ft EXCEPT !.pc = "dispatch", !.next = 0]
  /\ UNCHANGED <<running, stopped, alloc, streamon, drv, held, rel, main, left>>

(* The buffer and a `done' callback are passed to the next processor. *)
Deliver ==
  /\ FrameAt("dispatch")
  /\ ft.next < NumProcs
  /\ held[ft.buf][ft.next] < MaxHolds
  /\ held' = [held EXCEPT ![ft.buf][ft.next] = @ + 1]
  /\ ft' = [ft EXCEPT !.next = @ + 1]
  /\ UNCHANGED <<running, stopped, alloc, processMap, streamon, drv, rel, main, left>>

EndDispatch ==
  /\ FrameAt("dispatch")
  /\ ft.next = NumProcs
  /\ NextFrame
  /\ UNCHANGED <<running, stopped, alloc, processMap, streamon, drv, held, rel, main, left>>

(* Mutant: the thread ends without saying so. *)
RunEndsSilently ==
  /\ FrameAt("leaving")
  /\ FrameTo("exit")
  /\ UNCHANGED <<running, stopped, alloc, processMap, streamon, drv, held, rel, main, left>>

(* Last statement of run(); the thread ends some time later. *)
RunEnds ==
  /\ FrameAt("leaving")
  /\ stopped' = TRUE
  /\ FrameTo("exit")
  /\ UNCHANGED <<running, alloc, processMap, streamon, drv, held, rel, main, left>>

ThreadFinishes ==
  /\ FrameAt("exit")
  /\ FrameTo("off")
  /\ UNCHANGED <<running, stopped, alloc, processMap, streamon, drv, held, rel, main, left>>

-----------------------------------------------------------------------------
(* The `done' callback of processor p for buffer b, on thread t. *)

(* Processors run on the frame thread while it dispatches; on the main     *)
(* thread between two operations and in the event loop of StopStream; on   *)
(* their own threads at any time.                                          *)
MayCallDone(t) ==
  /\ rel[t].pc = "idle"
  /\ t = "frame" => ft.pc = "dispatch"
  /\ t = "main" => main \in {"idle", "streaming", "drain"}

(* Mutant: `done' looks at processMap before it clears its own bit. *)
DoneChecksFirst(t, b, p) ==
  /\ MayCallDone(t)
  /\ held[b][p] > 0
  /\ held' = [held EXCEPT ![b][p] = @ - 1]
  /\ processMap' = [processMap EXCEPT ![b] = @ \ {p}]
  /\ rel' = [rel EXCEPT ![t] = IF processMap[b] = {} THEN [pc |-> "queue", buf |-> b] ELSE Idle]
  /\ UNCHANGED <<running, stopped, alloc, streamon, drv, ft, main, left>>

(* Mutant: `done' does nothing once the stream has been stopped. *)
DoneIgnoredIfStopped(t, b, p) ==
  /\ MayCallDone(t)
  /\ held[b][p] > 0
  /\ held' = [held EXCEPT ![b][p] = @ - 1]
  /\ processMap' = IF running THEN [processMap EXCEPT ![b] = @ \ {p}] ELSE processMap
  /\ rel' = IF running THEN [rel EXCEPT ![t] = [pc |-> "check", buf |-> b]] ELSE rel
  /\ UNCHANGED <<running, stopped, alloc, streamon, drv, ft, main, left>>

DoneClears(t, b, p) ==
  /\ MayCallDone(t)
  /\ held[b][p] > 0
  /\ held' = [held EXCEPT ![b][p] = @ - 1]
  /\ processMap' = [processMap EXCEPT ![b] = @ \ {p}]
  /\ rel' = [rel EXCEPT ![t] = [pc |-> "check", buf |-> b]]
  /\ UNCHANGED <<running, stopped, alloc, streamon, drv, ft, main, left>>

(* Mutant: the first processor that is done returns the buffer. *)
DoneWithoutCheck(t) ==
  /\ rel[t].pc = "check"
  /\ rel' = [rel EXCEPT ![t] = [pc |-> "queue", buf |-> rel[t].buf]]
  /\ UNCHANGED <<running, stopped, alloc, processMap, streamon, drv, held, ft, main, left>>

DoneChecks(t) ==
  /\ rel[t].pc = "check"
  /\ rel' = [rel EXCEPT ![t] = IF processMap[rel[t].buf] = {}
                               THEN [pc |-> "queue", buf |-> rel[t].buf]
                               ELSE Idle]
  /\ UNCHANGED <<running, stopped, alloc, processMap, streamon, drv, held, ft, main, left>>

DoneQueues(t) ==
  /\ rel[t].pc = "queue"
  /\ QueueSingleUserBuffer(rel[t].buf)
  /\ rel' = [rel EXCEPT ![t] = Idle]
  /\ UNCHANGED <<running, stopped, alloc, processMap, streamon, held, ft, main, left>>

-----------------------------------------------------------------------------
Starting == CreateAllUserBuffer \/ QueueAllUserBuffer \/ StreamOn \/ StartStream
Stopping ==
  \/ Join
  \/ \E b \in Buffers : DrainBuffer(b)
  \/ Drained
  \/ StreamOff
  \/ DeleteAllUserBuffer
FrameThread ==
  \/ RunBegins
  \/ RunLoop
  \/ \E b \in Buffers : ReadFrame(b)
  \/ NoFrame
  \/ SkipFrame
  \/ RequeueFrame
  \/ BeginDispatch
  \/ Deliver
  \/ EndDispatch
  \/ RunEnds
  \/ ThreadFinishes
CallDone == \E t \in Releasers, b \in Buffers, p \in Procs : DoneClears(t, b, p)
FinishDone(t) == DoneChecks(t) \/ DoneQueues(t)

Next ==
  \/ \E b \in Buffers : DriverFills(b)
  \/ Starting
  \/ StopStream
  \/ Stopping
  \/ FrameThread
  \/ CallDone
  \/ \E t \in Releasers : FinishDone(t)

Spec == Init /\ [][Next]_vars

(* The threads are scheduled, the driver fills what it was given, and a    *)
(* processor that holds a buffer gives it back, whatever other buffers it  *)
(* returns in the meantime (hence SF); nobody has to start or stop a       *)
(* stream.                                                                 *)
Fairness ==
  /\ \A b \in Buffers : WF_vars(DriverFills(b))
  /\ WF_vars(Starting)
  /\ WF_vars(Stopping)
  /\ WF_vars(FrameThread)
  /\ \A t \in Releasers : WF_vars(FinishDone(t))
  /\ \A b \in Buffers, p \in Procs : SF_vars(\E t \in Releasers : DoneClears(t, b, p))

FairSpec == Spec /\ Fairness

-----------------------------------------------------------------------------
(* Properties. *)

(* No buffer gets lost while the stream is up: a buffer the driver has     *)
(* handed out is on its way back in the frame thread, or has a bit set in  *)
(* its processMap, or is in the hands of a thread that is still to queue   *)
(* it.  `done' reads processMap after clearing its own bit, so the last    *)
(* one to clear always sees 0, however the threads interleave.             *)
InFrameThread(b) == ft.pc \in {"have", "requeue"} /\ ft.buf = b
InDone(b) == \E t \in Releasers : rel[t].pc \in {"check", "queue"} /\ rel[t].buf = b
Responsible(b) == InFrameThread(b) \/ processMap[b] # {} \/ InDone(b)
StreamUp == main \in {"created", "queued", "on", "streaming"}
NoBufferLost == StreamUp => \A b \in Buffers : drv[b] = "user" => Responsible(b)

(* StopStream never waits for a `done' that nobody will call: a bit that   *)
(* is set belongs to a processor that still holds the buffer, or that the  *)
(* frame thread is about to give it to.                                    *)
StillToDeliver(b, p) == ft.pc = "dispatch" /\ ft.buf = b /\ p >= ft.next
PendingBitHasHolder ==
  \A b \in Buffers : \A p \in processMap[b] : held[b][p] > 0 \/ StillToDeliver(b, p)

(* The driver does not write into a buffer a processor still uses: a frame *)
(* retained for saving or rendering stays what it was.                     *)
DriverMayWrite(b) == streamon /\ drv[b] \in {"queued", "filled"}
NoWriteWhileHeld ==
  \A b \in Buffers, p \in Procs : held[b][p] > 0 => ~DriverMayWrite(b)

(* If no wait expires, the driver's queue is torn down, and the memory     *)
(* unmapped, only after the frame thread has left its loop for good: the   *)
(* m_bStreamStopped that StopStream reads is never one of an earlier       *)
(* stream.                                                                 *)
TeardownAfterThread ==
  main \in {"drain", "streamoff", "delete", "idle"} => ft.pc \in {"exit", "off"}

(* A stream that StopStream has stopped stays stopped until the next       *)
(* StartStream.                                                            *)
StopIsFinal == main \in {"join", "drain", "streamoff", "delete", "idle"} => ~running

(* While the stream stays up, every buffer handed out returns to the driver. *)
EveryBufferReturns ==
  \A b \in Buffers :
    (main = "streaming" /\ drv[b] = "user") ~> (main # "streaming" \/ drv[b] # "user")

(* StopStream, called while the frame thread is in its loop, comes to an   *)
(* end without any of its waits expiring, and so does the teardown.        *)
InLoop == ft.pc \in {"loop", "dequeue", "have", "requeue", "dispatch"}
StopTerminates == (main = "join" /\ ~running /\ InLoop) ~> (main = "idle")

=============================================================================
