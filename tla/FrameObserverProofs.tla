------------------------- MODULE FrameObserverProofs -------------------------
(***************************************************************************)
(* Theorems about FrameObserver, for any set of buffers, any number of     *)
(* processors and any set of releasing threads.  Only the theorem on the   *)
(* end of the frame thread assumes that no wait of StopStream expires; the *)
(* last two hold up to the first disturbance that FramePool records.       *)
(***************************************************************************)
EXTENDS FramePool, TLAPS

USE DEF Procs, Idle, MainPC, FramePC, DriverState

(* Type correctness of the capture path. *)
THEOREM TypeCorrect == Spec => []TypeOK
<1>1. Init => TypeOK
  <2> SUFFICES ASSUME Init PROVE TypeOK
    OBVIOUS
  <2>1. 0 \in 0 .. NumProcs /\ 0 \in 0 .. MaxHolds
    BY NumProcsAssumption, HoldsAssumption
  <2>2. held \in [Buffers -> [Procs -> 0 .. MaxHolds]]
    BY <2>1 DEF Init
  <2>3. ft \in [pc : FramePC, buf : Buffers \cup {NoBuffer}, next : 0 .. NumProcs]
    BY <2>1 DEF Init
  <2>4. rel \in [Releasers -> [pc : {"idle", "check", "queue"}, buf : Buffers \cup {NoBuffer}]]
    BY DEF Init
  <2> QED
    BY <2>2, <2>3, <2>4 DEF Init, TypeOK
<1>2. TypeOK /\ [Next]_vars => TypeOK'
  <2> SUFFICES ASSUME TypeOK, [Next]_vars PROVE TypeOK'
    OBVIOUS
  <2> USE NumProcsAssumption, HoldsAssumption DEF TypeOK
  <2>1. ASSUME NEW b \in Buffers, DriverFills(b) PROVE TypeOK'
    BY <2>1 DEF DriverFills
  <2>2. CASE Starting
    <3>1. CASE CreateAllUserBuffer
      BY <3>1 DEF CreateAllUserBuffer, MainAt
    <3>2. CASE QueueAllUserBuffer
      BY <3>2 DEF QueueAllUserBuffer, MainAt
    <3>3. CASE StreamOn
      BY <3>3 DEF StreamOn, MainAt
    <3>4. CASE StartStream
      BY <3>4 DEF StartStream, StartThread, MainAt
    <3> QED
      BY <2>2, <3>1, <3>2, <3>3, <3>4 DEF Starting
  <2>3. CASE StopStream
    BY <2>3 DEF StopStream, MainAt
  <2>4. CASE Stopping
    <3>1. CASE Join
      BY <3>1 DEF Join, MainAt
    <3>2. CASE \E b \in Buffers : DrainBuffer(b)
      BY <3>2 DEF DrainBuffer, MainAt
    <3>3. CASE Drained
      BY <3>3 DEF Drained, MainAt
    <3>4. CASE StreamOff
      BY <3>4 DEF StreamOff, MainAt
    <3>5. CASE DeleteAllUserBuffer
      BY <3>5 DEF DeleteAllUserBuffer, MainAt
    <3> QED
      BY <2>4, <3>1, <3>2, <3>3, <3>4, <3>5 DEF Stopping
  <2>5. CASE FrameThread
    <3> USE DEF FrameAt, FrameTo, NextFrame
    <3>1. CASE RunBegins \/ RunLoop \/ RunEnds \/ ThreadFinishes
      <4>1. CASE RunBegins
        BY <4>1 DEF RunBegins
      <4>2. CASE RunLoop
        BY <4>2 DEF RunLoop
      <4>3. CASE RunEnds
        BY <4>3 DEF RunEnds
      <4>4. CASE ThreadFinishes
        BY <4>4 DEF ThreadFinishes
      <4> QED
        BY <3>1, <4>1, <4>2, <4>3, <4>4
    <3>2. ASSUME NEW b \in Buffers, ReadFrame(b) PROVE TypeOK'
      BY <3>2 DEF ReadFrame
    <3>3. CASE NoFrame \/ SkipFrame
      BY <3>3 DEF NoFrame, SkipFrame
    <3>4. CASE RequeueFrame
      BY <3>4 DEF RequeueFrame, QueueSingleUserBuffer, Qbuf
    <3>5. CASE BeginDispatch
      <4>1. 0 \in 0 .. NumProcs
        OBVIOUS
      <4>2. processMap' \in [Buffers -> SUBSET Procs]
        BY <3>5 DEF BeginDispatch, AllOnes
      <4>3. ft' = [pc |-> "dispatch", buf |-> ft.buf, next |-> 0]
        BY <3>5 DEF BeginDispatch
      <4> QED
        BY <3>5, <4>1, <4>2, <4>3 DEF BeginDispatch
    <3>6. CASE Deliver
      <4>0. ft.next \in 0 .. NumProcs /\ ft.next < NumProcs
        BY <3>6 DEF Deliver
      <4>1. ft.next \in Procs /\ ft.next + 1 \in 0 .. NumProcs
        BY ONLY <4>0, NumProcsAssumption DEF Procs
      <4>2. held' \in [Buffers -> [Procs -> 0 .. MaxHolds]]
        <5>1. held[ft.buf] \in [Procs -> 0 .. MaxHolds]
          BY <3>6 DEF Deliver, FrameAt
        <5>2. held[ft.buf][ft.next] \in 0 .. MaxHolds /\ held[ft.buf][ft.next] < MaxHolds
          BY <3>6, <4>1, <5>1 DEF Deliver
        <5>3. held[ft.buf][ft.next] + 1 \in 0 .. MaxHolds
          BY <5>2, HoldsAssumption
        <5>4. [held[ft.buf] EXCEPT ![ft.next] = held[ft.buf][ft.next] + 1]
                \in [Procs -> 0 .. MaxHolds]
          BY <4>1, <5>1, <5>3
        <5> QED
          BY <3>6, <5>4 DEF Deliver
      <4>3. ft' = [pc |-> "dispatch", buf |-> ft.buf, next |-> ft.next + 1]
        BY <3>6 DEF Deliver
      <4> QED
        BY <3>6, <4>1, <4>2, <4>3 DEF Deliver
    <3>7. CASE EndDispatch
      BY <3>7 DEF EndDispatch
    <3> QED
      BY <2>5, <3>1, <3>2, <3>3, <3>4, <3>5, <3>6, <3>7 DEF FrameThread
  <2>6. ASSUME NEW t \in Releasers, NEW b \in Buffers, NEW p \in Procs, DoneClears(t, b, p)
        PROVE TypeOK'
    <3>1. held' = [held EXCEPT ![b][p] = held[b][p] - 1] /\ held[b][p] > 0
      BY <2>6 DEF DoneClears
    <3>2. held[b] \in [Procs -> 0 .. MaxHolds] /\ held[b][p] \in 0 .. MaxHolds
      OBVIOUS
    <3>3. held[b][p] - 1 \in 0 .. MaxHolds
      BY <3>1, <3>2, HoldsAssumption
    <3>4. [held[b] EXCEPT ![p] = held[b][p] - 1] \in [Procs -> 0 .. MaxHolds]
      BY <3>2, <3>3
    <3>5. held' \in [Buffers -> [Procs -> 0 .. MaxHolds]]
      BY <3>1, <3>4
    <3>6. processMap' \in [Buffers -> SUBSET Procs]
      BY <2>6 DEF DoneClears
    <3>7. /\ rel' \in [Releasers -> [pc : {"idle", "check", "queue"}, buf : Buffers \cup {NoBuffer}]]
          /\ \A u \in Releasers : rel'[u].pc # "idle" => rel'[u].buf \in Buffers
      BY <2>6 DEF DoneClears
    <3>8. UNCHANGED <<running, stopped, alloc, streamon, drv, ft, main, left>>
      BY <2>6 DEF DoneClears
    <3> QED
      BY <3>5, <3>6, <3>7, <3>8
  <2>7. ASSUME NEW t \in Releasers, FinishDone(t) PROVE TypeOK'
    <3>1. CASE DoneChecks(t)
      BY <3>1 DEF DoneChecks
    <3>2. CASE DoneQueues(t)
      BY <3>2 DEF DoneQueues, QueueSingleUserBuffer, Qbuf
    <3> QED
      BY <2>7, <3>1, <3>2 DEF FinishDone
  <2>8. CASE UNCHANGED vars
    BY <2>8 DEF vars
  <2> QED
    BY <2>1, <2>2, <2>3, <2>4, <2>5, <2>6, <2>7, <2>8 DEF Next, CallDone
<1> QED
  BY <1>1, <1>2, PTL DEF Spec

-----------------------------------------------------------------------------
(* While the stream is up its buffers exist, a streaming stream runs, and  *)
(* whoever has taken a buffer from the driver did so while it ran, so that *)
(* QueueSingleUserBuffer will not skip the buffer.                         *)
UpInv ==
  StreamUp =>
    /\ alloc = Buffers
    /\ main = "streaming" => running
    /\ \A b \in Buffers : drv[b] = "user" => running /\ Responsible(b)

(* What QueueSingleUserBuffer does to the driver's view of the buffers.    *)
LEMMA QueueSingleEffect ==
  ASSUME TypeOK, NEW b \in Buffers, QueueSingleUserBuffer(b)
  PROVE  /\ \A c \in Buffers : drv'[c] = "user" => drv[c] = "user"
         /\ (b \in alloc /\ running) => drv'[b] # "user"
BY DEF QueueSingleUserBuffer, Qbuf, TypeOK

(* No buffer the driver has handed out is lost while the stream is up.     *)
THEOREM BuffersAreNotLost == Spec => []NoBufferLost
<1>1. Init => UpInv
  BY DEF Init, UpInv, StreamUp
<1>2. TypeOK /\ UpInv /\ [Next]_vars => UpInv'
  <2> SUFFICES ASSUME TypeOK, UpInv, [Next]_vars PROVE UpInv'
    OBVIOUS
  <2> USE DEF Responsible, InFrameThread, InDone
  <2>1. ASSUME NEW b \in Buffers, DriverFills(b) PROVE UpInv'
    BY <2>1 DEF DriverFills, UpInv, StreamUp, TypeOK
  <2>2. CASE Starting
    <3>1. CASE CreateAllUserBuffer
      BY <3>1 DEF CreateAllUserBuffer, MainAt, UpInv, StreamUp
    <3>2. CASE QueueAllUserBuffer
      BY <3>2 DEF QueueAllUserBuffer, MainAt, UpInv, StreamUp
    <3>3. CASE StreamOn
      BY <3>3 DEF StreamOn, MainAt, UpInv, StreamUp
    <3>4. CASE StartStream
      BY <3>4 DEF StartStream, StartThread, MainAt, UpInv, StreamUp, TypeOK
    <3> QED
      BY <2>2, <3>1, <3>2, <3>3, <3>4 DEF Starting
  <2>3. CASE StopStream
    BY <2>3 DEF StopStream, UpInv, StreamUp
  <2>4. CASE Stopping
    BY <2>4 DEF Stopping, Join, DrainBuffer, Drained, StreamOff, DeleteAllUserBuffer,
      MainAt, UpInv, StreamUp
  <2>5. CASE FrameThread
    <3> USE DEF FrameAt, FrameTo, NextFrame
    <3>1. CASE RunBegins \/ RunLoop \/ RunEnds \/ ThreadFinishes \/ NoFrame
      BY <3>1 DEF RunBegins, RunLoop, RunEnds, ThreadFinishes, NoFrame, UpInv, StreamUp, TypeOK
    <3>2. ASSUME NEW b \in Buffers, ReadFrame(b) PROVE UpInv'
      BY <3>2 DEF ReadFrame, UpInv, StreamUp, TypeOK
    <3>3. CASE SkipFrame
      BY <3>3 DEF SkipFrame, UpInv, StreamUp, TypeOK
    <3>4. CASE RequeueFrame
      <4>1. ft.buf \in Buffers
        BY <3>4 DEF RequeueFrame, TypeOK
      <4>2. /\ \A c \in Buffers : drv'[c] = "user" => drv[c] = "user"
            /\ (ft.buf \in alloc /\ running) => drv'[ft.buf] # "user"
        BY <3>4, <4>1, QueueSingleEffect DEF RequeueFrame
      <4> QED
        BY <3>4, <4>1, <4>2 DEF RequeueFrame, UpInv, StreamUp
    <3>5. CASE BeginDispatch
      <4>0. NumProcs \in Nat /\ NumProcs > 0
        BY <3>5, NumProcsAssumption DEF BeginDispatch
      <4>1. 0 \in AllOnes
        BY ONLY <4>0 DEF AllOnes, Procs
      <4> QED
        BY <3>5, <4>1 DEF BeginDispatch, UpInv, StreamUp, TypeOK
    <3>6. CASE Deliver \/ EndDispatch
      <4>1. UNCHANGED <<running, alloc, main, drv, processMap, rel>> /\ ft.pc = "dispatch"
        BY <3>6 DEF Deliver, EndDispatch
      <4>2. \A b \in Buffers : Responsible(b) => Responsible(b)'
        BY <4>1
      <4> QED
        BY <4>1, <4>2 DEF UpInv, StreamUp
    <3> QED
      BY <2>5, <3>1, <3>2, <3>3, <3>4, <3>5, <3>6 DEF FrameThread
  <2>6. ASSUME NEW t \in Releasers, NEW b \in Buffers, NEW p \in Procs, DoneClears(t, b, p)
        PROVE UpInv'
    BY <2>6 DEF DoneClears, MayCallDone, UpInv, StreamUp, TypeOK
  <2>7. ASSUME NEW t \in Releasers, FinishDone(t) PROVE UpInv'
    <3>1. CASE DoneChecks(t)
      BY <3>1 DEF DoneChecks, UpInv, StreamUp, TypeOK
    <3>2. CASE DoneQueues(t)
      <4> DEFINE b == rel[t].buf
      <4>1. b \in Buffers
        BY <3>2 DEF DoneQueues, TypeOK
      <4>2. /\ \A c \in Buffers : drv'[c] = "user" => drv[c] = "user"
            /\ (b \in alloc /\ running) => drv'[b] # "user"
        BY <3>2, <4>1, QueueSingleEffect DEF DoneQueues
      <4> QED
        BY <3>2, <4>1, <4>2 DEF DoneQueues, UpInv, StreamUp, TypeOK
    <3> QED
      BY <2>7, <3>1, <3>2 DEF FinishDone
  <2>8. CASE UNCHANGED vars
    BY <2>8 DEF vars, UpInv, StreamUp
  <2> QED
    BY <2>1, <2>2, <2>3, <2>4, <2>5, <2>6, <2>7, <2>8 DEF Next, CallDone
<1>3. UpInv => NoBufferLost
  BY DEF UpInv, NoBufferLost
<1> QED
  BY <1>1, <1>2, <1>3, TypeCorrect, PTL DEF Spec

-----------------------------------------------------------------------------
(* Every bit that is set in a processMap belongs to a processor that still *)
(* holds the buffer or is about to be given it.                            *)
THEOREM PendingBitsAreHeld == Spec => []PendingBitHasHolder
<1>1. Init => PendingBitHasHolder
  BY DEF Init, PendingBitHasHolder
<1>2. TypeOK /\ PendingBitHasHolder /\ [Next]_vars => PendingBitHasHolder'
  <2> SUFFICES ASSUME TypeOK, PendingBitHasHolder, [Next]_vars PROVE PendingBitHasHolder'
    OBVIOUS
  <2> USE DEF PendingBitHasHolder, StillToDeliver
  <2>1. ASSUME NEW b \in Buffers, DriverFills(b) PROVE PendingBitHasHolder'
    BY <2>1 DEF DriverFills
  <2>2. CASE Starting
    BY <2>2 DEF Starting, CreateAllUserBuffer, QueueAllUserBuffer, StreamOn, StartStream,
      StartThread, MainAt, TypeOK
  <2>3. CASE StopStream \/ Stopping
    BY <2>3 DEF StopStream, Stopping, Join, DrainBuffer, Drained, StreamOff,
      DeleteAllUserBuffer, MainAt
  <2>4. CASE FrameThread
    <3> USE DEF FrameAt, FrameTo, NextFrame
    <3>1. CASE RunBegins \/ RunLoop \/ RunEnds \/ ThreadFinishes \/ NoFrame \/ SkipFrame
      BY <3>1 DEF RunBegins, RunLoop, RunEnds, ThreadFinishes, NoFrame, SkipFrame, TypeOK
    <3>2. ASSUME NEW b \in Buffers, ReadFrame(b) PROVE PendingBitHasHolder'
      BY <3>2 DEF ReadFrame
    <3>3. CASE RequeueFrame
      BY <3>3 DEF RequeueFrame
    <3>4. CASE BeginDispatch
      BY <3>4, NumProcsAssumption DEF BeginDispatch, AllOnes, TypeOK, Procs
    <3>5. CASE Deliver
      <4> DEFINE n == ft.next
      <4>1. ft.buf \in Buffers /\ n \in 0 .. NumProcs /\ n < NumProcs
        BY <3>5 DEF Deliver, TypeOK
      <4>2. n \in Procs
        BY ONLY <4>1, NumProcsAssumption DEF Procs
      <4>3. \A q \in Procs : q >= n /\ q # n => q >= n + 1
        BY ONLY <4>1, NumProcsAssumption DEF Procs
      <4>4. ft'.pc = "dispatch" /\ ft'.buf = ft.buf /\ ft'.next = n + 1
        BY <3>5 DEF Deliver, TypeOK
      <4>5. held[ft.buf][n] \in 0 .. MaxHolds /\ held'[ft.buf][n] = held[ft.buf][n] + 1
        <5>1. held[ft.buf] \in [Procs -> 0 .. MaxHolds]
          BY <4>1 DEF TypeOK
        <5>2. held' = [held EXCEPT ![ft.buf] = [held[ft.buf] EXCEPT ![n] = held[ft.buf][n] + 1]]
          BY <3>5 DEF Deliver
        <5>3. held'[ft.buf] = [held[ft.buf] EXCEPT ![n] = held[ft.buf][n] + 1]
          BY <4>1, <5>2 DEF TypeOK
        <5> QED
          BY <4>2, <5>1, <5>3
      <4>6. held'[ft.buf][n] > 0
        BY ONLY <4>5, HoldsAssumption
      <4>7. \A c \in Buffers : \A q \in Procs : c # ft.buf \/ q # n => held'[c][q] = held[c][q]
        BY <3>5, <4>1, <4>2 DEF Deliver, TypeOK
      <4>8. processMap' = processMap /\ \A c \in Buffers : processMap[c] \subseteq Procs
        BY <3>5 DEF Deliver, TypeOK
      <4> HIDE DEF n
      <4> SUFFICES ASSUME NEW c \in Buffers, NEW q \in processMap[c]
                   PROVE  held'[c][q] > 0 \/ StillToDeliver(c, q)'
        BY <4>8
      <4>9. q \in Procs /\ (held[c][q] > 0 \/ (ft.buf = c /\ q >= n))
        BY <4>8 DEF n
      <4>10. CASE c = ft.buf /\ q = n
        BY <4>6, <4>10
      <4>11. CASE c # ft.buf \/ q # n
        BY <4>3, <4>4, <4>7, <4>9, <4>11
      <4> QED
        BY <4>10, <4>11
    <3>6. CASE EndDispatch
      BY <3>6, NumProcsAssumption DEF EndDispatch, TypeOK, Procs
    <3> QED
      BY <2>4, <3>1, <3>2, <3>3, <3>4, <3>5, <3>6 DEF FrameThread
  <2>5. ASSUME NEW t \in Releasers, NEW b \in Buffers, NEW p \in Procs, DoneClears(t, b, p)
        PROVE PendingBitHasHolder'
    BY <2>5 DEF DoneClears, TypeOK
  <2>6. ASSUME NEW t \in Releasers, FinishDone(t) PROVE PendingBitHasHolder'
    BY <2>6 DEF FinishDone, DoneChecks, DoneQueues
  <2>7. CASE UNCHANGED vars
    BY <2>7 DEF vars
  <2> QED
    BY <2>1, <2>2, <2>3, <2>4, <2>5, <2>6, <2>7 DEF Next, CallDone
<1> QED
  BY <1>1, <1>2, TypeCorrect, PTL DEF Spec

-----------------------------------------------------------------------------
(* The end of the frame thread. *)

(* m_bStreamStopped says that the frame thread has left its loop, and,     *)
(* with no expired wait, it is set unless a stream runs or is waited for.  *)
ThreadInv ==
  /\ stopped => ft.pc \in {"exit", "off"}
  /\ main \notin {"streaming", "join"} => stopped

LEMMA ThreadInvInit == Init => ThreadInv
BY DEF Init, ThreadInv

LEMMA ThreadInvStep ==
  ASSUME StopMayTimeOut => ~WaitExpired', TypeOK, ThreadInv, [Next]_vars
  PROVE  ThreadInv'
<1> USE DEF ThreadInv
<1>1. ASSUME NEW b \in Buffers, DriverFills(b) PROVE ThreadInv'
  BY <1>1 DEF DriverFills
<1>2. CASE Starting
  BY <1>2 DEF Starting, CreateAllUserBuffer, QueueAllUserBuffer, StreamOn, StartStream, MainAt
<1>3. CASE StopStream \/ Stopping
  <2>1. CASE Join
    <3>1. main' = "drain" /\ UNCHANGED <<stopped, ft>> /\ (stopped \/ StopMayTimeOut)
      BY <2>1 DEF Join, MainAt
    <3>2. stopped
      BY <3>1 DEF WaitExpired
    <3> QED
      BY <3>1, <3>2
  <2> QED
    BY <1>3, <2>1 DEF StopStream, Stopping, DrainBuffer, Drained, StreamOff,
      DeleteAllUserBuffer, MainAt
<1>4. CASE FrameThread
  <2> USE DEF FrameAt, FrameTo, NextFrame, TypeOK
  <2>1. CASE RunBegins \/ RunLoop \/ NoFrame \/ SkipFrame \/ RequeueFrame \/ EndDispatch
    BY <2>1 DEF RunBegins, RunLoop, NoFrame, SkipFrame, RequeueFrame, EndDispatch
  <2>2. CASE (\E b \in Buffers : ReadFrame(b)) \/ BeginDispatch \/ Deliver
    BY <2>2 DEF ReadFrame, BeginDispatch, Deliver
  <2>3. CASE RunEnds \/ ThreadFinishes
    BY <2>3 DEF RunEnds, ThreadFinishes
  <2> QED
    BY <1>4, <2>1, <2>2, <2>3 DEF FrameThread
<1>5. ASSUME NEW t \in Releasers, NEW b \in Buffers, NEW p \in Procs, DoneClears(t, b, p)
      PROVE  ThreadInv'
  BY <1>5 DEF DoneClears
<1>6. ASSUME NEW t \in Releasers, FinishDone(t) PROVE ThreadInv'
  BY <1>6 DEF FinishDone, DoneChecks, DoneQueues
<1>7. CASE UNCHANGED vars
  BY <1>7 DEF vars
<1> QED
  BY <1>1, <1>2, <1>3, <1>4, <1>5, <1>6, <1>7 DEF Next, CallDone

(* If no wait of StopStream expires, the driver's queue is torn down and   *)
(* the memory unmapped only after the frame thread has left its loop.      *)
THEOREM TeardownWaitsForTheThread ==
  ASSUME ~StopMayTimeOut
  PROVE  Spec => []TeardownAfterThread
<1>1. TypeOK /\ ThreadInv /\ [Next]_vars => ThreadInv'
  BY ThreadInvStep
<1>2. ThreadInv => TeardownAfterThread
  BY DEF ThreadInv, TeardownAfterThread
<1> QED
  BY <1>1, <1>2, ThreadInvInit, TypeCorrect, PTL DEF Spec

-----------------------------------------------------------------------------
(* Refinement of BufferPool. *)

(* The memory exists between creation and deletion; the driver streams     *)
(* from VIDIOC_STREAMON to VIDIOC_STREAMOFF.                               *)
MemoryInv ==
  /\ alloc = IF main = "idle" THEN {} ELSE Buffers
  /\ streamon <=> main \in {"on", "streaming", "join", "drain", "streamoff"}

(* A processor holds a buffer once, while its bit is set; a buffer with a  *)
(* bit set, or in the frame thread, is the application's; the processors   *)
(* that are still to be given a buffer do not hold it; and a thread that   *)
(* is in the `done' of a buffer has it to itself once no bit is set.       *)
HeldOnce ==
  \A b \in Buffers, p \in Procs : held[b][p] > 0 => held[b][p] = 1 /\ p \in processMap[b]
PendingIsOut == \A b \in Buffers : processMap[b] # {} => drv[b] = "user" /\ ~InFrameThread(b)
FrameIsOut == ft.pc \in {"have", "requeue"} => drv[ft.buf] = "user"
Dispatching ==
  ft.pc = "dispatch" =>
    \A p \in Procs : p >= ft.next => p \in processMap[ft.buf] /\ held[ft.buf][p] = 0
Returning ==
  \A t \in Releasers : rel[t].pc # "idle" =>
    /\ drv[rel[t].buf] = "user" /\ ~InFrameThread(rel[t].buf)
    /\ rel[t].pc = "queue" => processMap[rel[t].buf] = {}
HoldInv == HeldOnce /\ PendingIsOut /\ FrameIsOut /\ Dispatching /\ Returning

(* What StopStream has waited for stays so; nobody is inside a `done' when *)
(* the main thread has left the drain.                                     *)
DrainInv ==
  /\ main = "drain" => \A b \in Buffers \ left : processMap[b] = {}
  /\ main \notin {"streaming", "join", "drain"} => \A b \in Buffers : processMap[b] = {}
  /\ \A t \in Releasers : rel[t].pc # "idle" => main \in {"streaming", "join", "drain"}

PoolInv == ThreadInv /\ MemoryInv /\ HoldInv /\ DrainInv /\ ~BothLast

LEMMA PoolInvInit == Init => PoolInv
<1> SUFFICES ASSUME Init PROVE PoolInv
  OBVIOUS
<1>1. MemoryInv
  <2>1. alloc = {} /\ main = "idle" /\ ~streamon
    BY DEF Init
  <2> QED
    BY <2>1 DEF MemoryInv
<1>2. DrainInv
  BY DEF Init, DrainInv
<1>3. HoldInv
  BY DEF Init, HoldInv, HeldOnce, PendingIsOut, FrameIsOut, Dispatching, Returning
<1>4. ~BothLast
  BY DEF Init, BothLast, Busy
<1> QED
  BY <1>1, <1>2, <1>3, <1>4, ThreadInvInit DEF PoolInv

LEMMA MemoryInvStep == TypeOK /\ MemoryInv /\ [Next]_vars => MemoryInv'
<1> SUFFICES ASSUME TypeOK, MemoryInv, [Next]_vars PROVE MemoryInv'
  OBVIOUS
<1> USE DEF MemoryInv
<1>1. ASSUME NEW b \in Buffers, DriverFills(b) PROVE MemoryInv'
  BY <1>1 DEF DriverFills
<1>2. CASE Starting
  BY <1>2 DEF Starting, CreateAllUserBuffer, QueueAllUserBuffer, StreamOn, StartStream, MainAt
<1>3. CASE StopStream \/ Stopping
  <2>1. CASE StopStream \/ Join \/ Drained
    BY <2>1 DEF StopStream, Join, Drained, MainAt
  <2>2. ASSUME NEW b \in Buffers, DrainBuffer(b) PROVE MemoryInv'
    BY <2>2 DEF DrainBuffer, MainAt
  <2>3. CASE StreamOff
    <3>1. main = "streamoff" /\ main' = "delete" /\ ~streamon' /\ alloc' = alloc
      BY <2>3 DEF StreamOff, MainAt
    <3> QED
      BY <3>1
  <2>4. CASE DeleteAllUserBuffer
    BY <2>4 DEF DeleteAllUserBuffer, MainAt
  <2> QED
    BY <1>3, <2>1, <2>2, <2>3, <2>4 DEF Stopping
<1>4. CASE FrameThread
  BY <1>4 DEF FrameThread, RunBegins, RunLoop, ReadFrame, NoFrame, SkipFrame, RequeueFrame,
    BeginDispatch, Deliver, EndDispatch, RunEnds, ThreadFinishes
<1>5. ASSUME NEW t \in Releasers, NEW b \in Buffers, NEW p \in Procs, DoneClears(t, b, p)
      PROVE  MemoryInv'
  BY <1>5 DEF DoneClears
<1>6. ASSUME NEW t \in Releasers, FinishDone(t) PROVE MemoryInv'
  BY <1>6 DEF FinishDone, DoneChecks, DoneQueues
<1>7. CASE UNCHANGED vars
  BY <1>7 DEF vars
<1> QED
  BY <1>1, <1>2, <1>3, <1>4, <1>5, <1>6, <1>7 DEF Next, CallDone

(* Outside a stream nobody uses a buffer.                                  *)
LEMMA NobodyUses ==
  ASSUME TypeOK, ThreadInv, HeldOnce, DrainInv, main \notin {"streaming", "join", "drain"}
  PROVE  /\ ft.pc \in {"exit", "off"}
         /\ \A b \in Buffers : processMap[b] = {}
         /\ \A b \in Buffers, p \in Procs : ~(held[b][p] > 0)
         /\ \A t \in Releasers : rel[t].pc = "idle"
BY DEF ThreadInv, HeldOnce, DrainInv

(* QueueSingleUserBuffer leaves the other buffers alone.                   *)
LEMMA QueueSingleOthers ==
  ASSUME TypeOK, NEW b \in Buffers, QueueSingleUserBuffer(b)
  PROVE  \A c \in Buffers : c # b => drv'[c] = drv[c]
BY DEF QueueSingleUserBuffer, Qbuf, TypeOK

LEMMA HoldInvStep ==
  ASSUME TypeOK, ThreadInv, HoldInv, DrainInv, ~BothLast, [Next]_vars
  PROVE  HoldInv'
<1> USE NumProcsAssumption DEF HoldInv
<1>1. ASSUME NEW b \in Buffers, DriverFills(b) PROVE HoldInv'
  <2>1. \A c \in Buffers : drv[c] = "user" => drv'[c] = "user"
    BY <1>1 DEF DriverFills, TypeOK
  <2>2. UNCHANGED <<processMap, held, ft, rel>>
    BY <1>1 DEF DriverFills
  <2>3. ft.pc \in {"have", "requeue"} => ft.buf \in Buffers
    BY DEF TypeOK
  <2>4. \A t \in Releasers : rel[t].pc # "idle" => rel[t].buf \in Buffers
    BY DEF TypeOK
  <2> QED
    BY <2>1, <2>2, <2>3, <2>4
       DEF HeldOnce, PendingIsOut, FrameIsOut, Dispatching, Returning, InFrameThread
<1>2. CASE Starting \/ StreamOff \/ DeleteAllUserBuffer
  <2>1. main \notin {"streaming", "join", "drain"}
    BY <1>2 DEF Starting, CreateAllUserBuffer, QueueAllUserBuffer, StreamOn, StartStream,
      StreamOff, DeleteAllUserBuffer, MainAt
  <2>2. UNCHANGED <<held, rel>>
    BY <1>2 DEF Starting, CreateAllUserBuffer, QueueAllUserBuffer, StreamOn, StartStream,
      StreamOff, DeleteAllUserBuffer
  <2>3. ft' = ft \/ (ft.pc = "off" /\ ft' = [ft EXCEPT !.pc = "started"])
    BY <1>2 DEF Starting, CreateAllUserBuffer, QueueAllUserBuffer, StreamOn, StartStream,
      StartThread, StreamOff, DeleteAllUserBuffer
  <2>4. ft'.pc \in {"exit", "off", "started"}
    BY <2>1, <2>3, NobodyUses DEF TypeOK
  <2>5. \A b \in Buffers : processMap[b] = {} => processMap'[b] = {}
    BY <1>2 DEF Starting, CreateAllUserBuffer, QueueAllUserBuffer, StreamOn, StartStream,
      StreamOff, DeleteAllUserBuffer
  <2>6. /\ \A b \in Buffers : processMap'[b] = {}
        /\ \A b \in Buffers, p \in Procs : ~(held'[b][p] > 0)
        /\ \A t \in Releasers : rel'[t].pc = "idle"
    BY <2>1, <2>2, <2>5, NobodyUses
  <2> QED
    BY <2>4, <2>6 DEF HeldOnce, PendingIsOut, FrameIsOut, Dispatching, Returning
<1>3. CASE StopStream \/ Join \/ (\E b \in Buffers : DrainBuffer(b)) \/ Drained
  <2>1. UNCHANGED <<processMap, drv, held, ft, rel>>
    BY <1>3 DEF StopStream, Join, DrainBuffer, Drained
  <2> QED
    BY <2>1 DEF HeldOnce, PendingIsOut, FrameIsOut, Dispatching, Returning, InFrameThread
<1>4. CASE RunBegins \/ RunLoop \/ NoFrame \/ RunEnds \/ ThreadFinishes \/ EndDispatch
  <2>1. UNCHANGED <<processMap, drv, held, rel>>
    BY <1>4 DEF RunBegins, RunLoop, NoFrame, RunEnds, ThreadFinishes, EndDispatch
  <2>2. ft'.pc \in {"loop", "dequeue", "leaving", "exit", "off"}
    BY <1>4 DEF RunBegins, RunLoop, NoFrame, RunEnds, ThreadFinishes, EndDispatch, FrameTo,
      NextFrame, TypeOK
  <2> QED
    BY <2>1, <2>2 DEF HeldOnce, PendingIsOut, FrameIsOut, Dispatching, Returning, InFrameThread
<1>5. ASSUME NEW b \in Buffers, ReadFrame(b) PROVE HoldInv'
  <2>1. /\ drv[b] = "filled" /\ drv' = [drv EXCEPT ![b] = "user"]
        /\ ft' = [pc |-> "have", buf |-> b, next |-> 0]
        /\ UNCHANGED <<processMap, held, rel>>
    BY <1>5 DEF ReadFrame
  <2>2. processMap[b] = {}
    BY <2>1 DEF PendingIsOut
  <2>3. \A c \in Buffers : drv'[c] = IF c = b THEN "user" ELSE drv[c]
    BY <2>1 DEF TypeOK
  <2>4. \A t \in Releasers : rel[t].pc # "idle" => rel[t].buf \in Buffers /\ rel[t].buf # b
    BY <2>1 DEF Returning, TypeOK
  <2>5. \A c \in Buffers : InFrameThread(c)' => c = b
    BY <2>1 DEF InFrameThread
  <2>6. HeldOnce' /\ Dispatching'
    BY <2>1 DEF HeldOnce, Dispatching
  <2>7. PendingIsOut'
    BY <2>1, <2>2, <2>3, <2>5 DEF PendingIsOut
  <2>8. FrameIsOut'
    BY <2>1, <2>3 DEF FrameIsOut
  <2>9. Returning'
    BY <2>1, <2>3, <2>4, <2>5 DEF Returning
  <2> QED
    BY <2>6, <2>7, <2>8, <2>9
<1>6. CASE SkipFrame
  <2>1. UNCHANGED <<processMap, drv, held, rel>>
    BY <1>6 DEF SkipFrame
  <2>2. ft.pc = "have" /\ ft'.pc = "requeue" /\ ft'.buf = ft.buf
    BY <1>6 DEF SkipFrame, FrameAt, FrameTo, TypeOK
  <2> QED
    BY <2>1, <2>2 DEF HeldOnce, PendingIsOut, FrameIsOut, Dispatching, Returning, InFrameThread
<1>7. CASE RequeueFrame
  <2>1. /\ ft.pc = "requeue" /\ ft'.pc = "loop"
        /\ UNCHANGED <<processMap, held, rel>>
        /\ QueueSingleUserBuffer(ft.buf)
    BY <1>7 DEF RequeueFrame, FrameAt, NextFrame
  <2>2. ft.buf \in Buffers
    BY <2>1 DEF TypeOK
  <2>3. \A c \in Buffers : c # ft.buf => drv'[c] = drv[c]
    BY <2>1, <2>2, QueueSingleOthers
  <2>4. processMap[ft.buf] = {}
    BY <2>1, <2>2 DEF PendingIsOut, InFrameThread
  <2>5. \A t \in Releasers : rel[t].pc # "idle" => rel[t].buf \in Buffers /\ rel[t].buf # ft.buf
    BY <2>1 DEF Returning, InFrameThread, TypeOK
  <2>6. HeldOnce' /\ Dispatching' /\ FrameIsOut'
    BY <2>1 DEF HeldOnce, Dispatching, FrameIsOut
  <2>7. PendingIsOut'
    BY <2>1, <2>3, <2>4 DEF PendingIsOut, InFrameThread
  <2>8. Returning'
    BY <2>1, <2>3, <2>5 DEF Returning, InFrameThread
  <2> QED
    BY <2>6, <2>7, <2>8
<1>8. CASE BeginDispatch
  <2> DEFINE b == ft.buf
  <2>1. /\ ft.pc = "have" /\ b \in Buffers
        /\ processMap' = [processMap EXCEPT ![b] = Procs]
        /\ UNCHANGED <<drv, held, rel>>
    BY <1>8 DEF BeginDispatch, FrameAt, AllOnes, TypeOK
  <2>2. ft'.pc = "dispatch" /\ ft'.buf = b
    BY <1>8 DEF BeginDispatch, TypeOK
  <2>3. drv[b] = "user" /\ processMap[b] = {}
    BY <2>1 DEF FrameIsOut, PendingIsOut, InFrameThread
  <2>4. \A c \in Buffers : processMap'[c] = IF c = b THEN Procs ELSE processMap[c]
    BY <2>1 DEF TypeOK
  <2>5. \A p \in Procs : held[b][p] = 0
    <3>1. \A p \in Procs : held[b][p] \in 0 .. MaxHolds /\ ~(held[b][p] > 0)
      BY <2>1, <2>3 DEF HeldOnce, TypeOK
    <3> QED
      BY <3>1, HoldsAssumption
  <2>6. \A t \in Releasers : rel[t].pc # "idle" => rel[t].buf \in Buffers /\ rel[t].buf # b
    BY <2>1 DEF Returning, InFrameThread, TypeOK
  <2> HIDE DEF b
  <2>7. HeldOnce'
    BY <2>1, <2>4, <2>5 DEF HeldOnce
  <2>8. PendingIsOut' /\ FrameIsOut'
    BY <2>1, <2>2, <2>3, <2>4 DEF PendingIsOut, FrameIsOut, InFrameThread
  <2>9. Dispatching'
    BY <2>1, <2>2, <2>4, <2>5 DEF Dispatching
  <2>10. Returning'
    BY <2>1, <2>2, <2>4, <2>6 DEF Returning, InFrameThread
  <2> QED
    BY <2>7, <2>8, <2>9, <2>10
<1>9. CASE Deliver
  <2> DEFINE b == ft.buf
             n == ft.next
  <2>1. ft.pc = "dispatch" /\ b \in Buffers /\ n \in 0 .. NumProcs /\ n < NumProcs
    BY <1>9 DEF Deliver, FrameAt, TypeOK
  <2>2. n \in Procs
    BY ONLY <2>1, NumProcsAssumption DEF Procs
  <2>3. n \in processMap[b] /\ held[b][n] = 0
    BY <2>1, <2>2 DEF Dispatching
  <2>4. held' = [held EXCEPT ![b] = [held[b] EXCEPT ![n] = held[b][n] + 1]]
    BY <1>9 DEF Deliver
  <2>5. held[b] \in [Procs -> 0 .. MaxHolds] /\ held \in [Buffers -> [Procs -> 0 .. MaxHolds]]
    BY <2>1 DEF TypeOK
  <2>6. \A c \in Buffers, q \in Procs : held'[c][q] = IF c = b /\ q = n THEN 1 ELSE held[c][q]
    BY <2>1, <2>2, <2>3, <2>4, <2>5
  <2>7. ft'.pc = "dispatch" /\ ft'.buf = b /\ ft'.next = n + 1
    BY <1>9 DEF Deliver, FrameAt, TypeOK
  <2>8. UNCHANGED <<processMap, drv, rel>>
    BY <1>9 DEF Deliver
  <2>9. \A q \in Procs : q >= n + 1 => q >= n /\ q # n
    BY ONLY <2>1, NumProcsAssumption DEF Procs
  <2> HIDE DEF b, n
  <2>10. HeldOnce'
    BY <2>3, <2>6, <2>8 DEF HeldOnce
  <2>11. PendingIsOut' /\ FrameIsOut' /\ Returning'
    BY <2>1, <2>7, <2>8 DEF PendingIsOut, FrameIsOut, Returning, InFrameThread
  <2>12. Dispatching'
    <3> SUFFICES ASSUME NEW q \in Procs, q >= n + 1
                 PROVE  q \in processMap'[b] /\ held'[b][q] = 0
      BY <2>7 DEF Dispatching
    <3>1. q >= n /\ q # n
      BY <2>9
    <3>2. q \in processMap[b] /\ held[b][q] = 0
      BY <2>1, <3>1 DEF Dispatching, b, n
    <3> QED
      BY <2>1, <2>6, <2>8, <3>1, <3>2
  <2> QED
    BY <2>10, <2>11, <2>12
<1>10. ASSUME NEW t \in Releasers, NEW b \in Buffers, NEW p \in Procs, DoneClears(t, b, p)
       PROVE  HoldInv'
  <2>1. /\ held[b][p] > 0
        /\ held' = [held EXCEPT ![b] = [held[b] EXCEPT ![p] = held[b][p] - 1]]
        /\ processMap' = [processMap EXCEPT ![b] = processMap[b] \ {p}]
        /\ rel' = [rel EXCEPT ![t] = [pc |-> "check", buf |-> b]]
        /\ UNCHANGED <<drv, ft>>
    BY <1>10 DEF DoneClears
  <2>2. held[b][p] = 1 /\ p \in processMap[b]
    BY <2>1 DEF HeldOnce
  <2>3. drv[b] = "user" /\ ~InFrameThread(b)
    BY <2>2 DEF PendingIsOut
  <2>4. held[b] \in [Procs -> 0 .. MaxHolds] /\ held \in [Buffers -> [Procs -> 0 .. MaxHolds]]
    BY DEF TypeOK
  <2>5. \A c \in Buffers, q \in Procs : held'[c][q] = IF c = b /\ q = p THEN 0 ELSE held[c][q]
    BY <2>1, <2>2, <2>4
  <2>6. \A c \in Buffers : processMap'[c] = IF c = b THEN processMap[b] \ {p} ELSE processMap[c]
    BY <2>1 DEF TypeOK
  <2>7. HeldOnce'
    BY <2>5, <2>6 DEF HeldOnce
  <2>8. PendingIsOut' /\ FrameIsOut'
    BY <2>1, <2>3, <2>6 DEF PendingIsOut, FrameIsOut, InFrameThread
  <2>9. Dispatching'
    <3>1. ft.pc = "dispatch" => ft.buf \in Buffers
      BY DEF TypeOK
    <3> QED
      BY <2>1, <2>2, <2>5, <2>6, <3>1 DEF Dispatching
  <2>10. \A u \in Releasers : rel'[u] = IF u = t THEN [pc |-> "check", buf |-> b] ELSE rel[u]
    BY <2>1 DEF TypeOK
  <2>11. Returning'
    <3> SUFFICES ASSUME NEW u \in Releasers, rel'[u].pc # "idle"
                 PROVE  /\ drv'[rel'[u].buf] = "user" /\ ~InFrameThread(rel[u].buf)'
                        /\ rel'[u].pc = "queue" => processMap'[rel'[u].buf] = {}
      BY DEF Returning
    <3>1. CASE u = t
      BY <2>1, <2>3, <2>10, <3>1 DEF InFrameThread
    <3>2. CASE u # t
      <4>1. rel'[u] = rel[u] /\ rel[u].buf \in Buffers
        BY <2>10, <3>2 DEF TypeOK
      <4>2. rel[u].pc = "queue" => rel[u].buf # b
        BY <2>2 DEF Returning
      <4> QED
        BY <2>1, <2>6, <4>1, <4>2 DEF Returning, InFrameThread
    <3> QED
      BY <3>1, <3>2
  <2> QED
    BY <2>7, <2>8, <2>9, <2>11
<1>11. ASSUME NEW t \in Releasers, DoneChecks(t) PROVE HoldInv'
  <2> DEFINE b == rel[t].buf
  <2>1. UNCHANGED <<processMap, drv, held, ft>> /\ rel[t].pc = "check"
    BY <1>11 DEF DoneChecks
  <2>2. \A u \in Releasers : u # t => rel'[u] = rel[u]
    BY <1>11 DEF DoneChecks, TypeOK
  <2>3. \/ rel'[t].pc = "idle"
        \/ rel'[t] = [pc |-> "queue", buf |-> b] /\ processMap[b] = {}
    BY <1>11 DEF DoneChecks, TypeOK
  <2>4. drv[b] = "user" /\ ~InFrameThread(b)
    BY <2>1 DEF Returning
  <2>5. rel'[t].pc # "idle" => rel'[t] = [pc |-> "queue", buf |-> b] /\ processMap[b] = {}
    BY <2>3
  <2> HIDE DEF b
  <2>6. rel'[t].pc # "idle" => rel'[t].buf = b /\ processMap[b] = {}
    BY <2>5
  <2>7. Returning'
    <3> SUFFICES ASSUME NEW u \in Releasers, rel'[u].pc # "idle"
                 PROVE  /\ drv'[rel'[u].buf] = "user" /\ ~InFrameThread(rel[u].buf)'
                        /\ rel'[u].pc = "queue" => processMap'[rel'[u].buf] = {}
      BY DEF Returning
    <3>1. CASE u = t
      <4>1. rel'[u].buf = b /\ processMap[b] = {}
        BY <2>6, <3>1
      <4> QED
        BY <2>1, <2>4, <4>1 DEF InFrameThread
    <3>2. CASE u # t
      BY <2>1, <2>2, <3>2 DEF Returning, InFrameThread
    <3> QED
      BY <3>1, <3>2
  <2> QED
    BY <2>1, <2>7 DEF HeldOnce, PendingIsOut, FrameIsOut, Dispatching, InFrameThread
<1>12. ASSUME NEW t \in Releasers, DoneQueues(t) PROVE HoldInv'
  <2> DEFINE b == rel[t].buf
  <2>1. /\ UNCHANGED <<processMap, held, ft>> /\ rel[t].pc = "queue"
        /\ QueueSingleUserBuffer(b) /\ b \in Buffers
    BY <1>12 DEF DoneQueues, TypeOK
  <2>2. \A u \in Releasers : u # t => rel'[u] = rel[u]
    BY <1>12 DEF DoneQueues, TypeOK
  <2>3. rel'[t].pc = "idle"
    BY <1>12 DEF DoneQueues, TypeOK
  <2>4. processMap[b] = {} /\ ~InFrameThread(b)
    BY <2>1 DEF Returning
  <2>10. \A u \in Releasers : u # t /\ rel[u].pc # "idle" => rel[u].buf \in Buffers /\ rel[u].buf # b
    BY <2>1, <2>4 DEF BothLast, Busy, TypeOK
  <2>5. \A c \in Buffers : c # b => drv'[c] = drv[c]
    BY <2>1, QueueSingleOthers
  <2>6. ft.pc \in {"have", "requeue"} => ft.buf \in Buffers /\ ft.buf # b
    BY <2>4 DEF InFrameThread, TypeOK
  <2> HIDE DEF b
  <2>7. HeldOnce' /\ Dispatching'
    BY <2>1 DEF HeldOnce, Dispatching
  <2>8. PendingIsOut' /\ FrameIsOut'
    BY <2>1, <2>4, <2>5, <2>6 DEF PendingIsOut, FrameIsOut, InFrameThread
  <2>9. Returning'
    BY <2>1, <2>2, <2>3, <2>5, <2>10 DEF Returning, InFrameThread
  <2> QED
    BY <2>7, <2>8, <2>9
<1>13. CASE UNCHANGED vars
  BY <1>13 DEF vars, HeldOnce, PendingIsOut, FrameIsOut, Dispatching, Returning, InFrameThread
<1> QED
  BY <1>1, <1>2, <1>3, <1>4, <1>5, <1>6, <1>7, <1>8, <1>9, <1>10, <1>11, <1>12, <1>13
     DEF Next, Stopping, FrameThread, CallDone, FinishDone

(* StopStream leaves the drain only when no buffer has a bit set, and no   *)
(* bit is set after that: the frame thread, which alone sets bits, is out  *)
(* of its loop.                                                            *)
LEMMA DrainInvStep ==
  ASSUME ~WaitExpired', ~DoneOvertaken',
         TypeOK, ThreadInv, MemoryInv, HoldInv, DrainInv, [Next]_vars
  PROVE  DrainInv'
<1> USE DEF DrainInv
<1>1. ASSUME NEW b \in Buffers, DriverFills(b) PROVE DrainInv'
  BY <1>1 DEF DriverFills
<1>2. CASE Starting \/ StreamOff \/ DeleteAllUserBuffer
  <2>1. main \notin {"streaming", "join", "drain"}
    BY <1>2 DEF Starting, CreateAllUserBuffer, QueueAllUserBuffer, StreamOn, StartStream,
      StreamOff, DeleteAllUserBuffer, MainAt
  <2>2. main' # "drain" /\ UNCHANGED rel
    BY <1>2 DEF Starting, CreateAllUserBuffer, QueueAllUserBuffer, StreamOn, StartStream,
      StreamOff, DeleteAllUserBuffer
  <2>3. \A b \in Buffers : processMap[b] = {} => processMap'[b] = {}
    BY <1>2 DEF Starting, CreateAllUserBuffer, QueueAllUserBuffer, StreamOn, StartStream,
      StreamOff, DeleteAllUserBuffer
  <2>4. \A b \in Buffers : processMap'[b] = {}
    BY <2>1, <2>3
  <2>5. \A t \in Releasers : rel'[t].pc = "idle"
    BY <2>1, <2>2
  <2> QED
    BY <2>2, <2>4, <2>5
<1>3. CASE StopStream \/ Join \/ (\E b \in Buffers : DrainBuffer(b)) \/ Drained
  <2>1. UNCHANGED <<processMap, rel>>
    BY <1>3 DEF StopStream, Join, DrainBuffer, Drained
  <2>2. CASE StopStream
    BY <2>1, <2>2 DEF StopStream, MainAt
  <2>3. CASE Join
    <3>1. left' = Buffers /\ main = "join" /\ main' = "drain"
      BY <2>3 DEF Join, MainAt, MemoryInv
    <3> QED
      BY <2>1, <3>1
  <2>4. ASSUME NEW b \in Buffers, DrainBuffer(b) PROVE DrainInv'
    <3>1. main = "drain" /\ main' = "drain" /\ left' = left \ {b} /\ UNCHANGED alloc
      BY <2>4 DEF DrainBuffer, MainAt
    <3>2. b \in alloc' \ left'
      BY <3>1 DEF MemoryInv
    <3>3. processMap[b] = {}
      BY <2>1, <3>1, <3>2 DEF WaitExpired
    <3> QED
      BY <2>1, <3>1, <3>3
  <2>5. CASE Drained
    <3>1. main = "drain" /\ main' = "streamoff" /\ left = {}
      BY <2>5 DEF Drained, MainAt
    <3>2. \A t \in Releasers : rel[t].pc = "idle"
      BY <2>1, <3>1 DEF DoneOvertaken, Busy
    <3> QED
      BY <2>1, <3>1, <3>2
  <2> QED
    BY <1>3, <2>2, <2>3, <2>4, <2>5
<1>4. CASE FrameThread
  <2>1. UNCHANGED <<main, left, rel>>
    BY <1>4 DEF FrameThread, RunBegins, RunLoop, ReadFrame, NoFrame, SkipFrame, RequeueFrame,
      BeginDispatch, Deliver, EndDispatch, RunEnds, ThreadFinishes
  <2>2. CASE BeginDispatch
    <3>1. main \in {"streaming", "join"}
      BY <2>2 DEF BeginDispatch, FrameAt, ThreadInv
    <3> QED
      BY <2>1, <3>1
  <2>3. CASE ~BeginDispatch
    <3>1. UNCHANGED processMap
      BY <1>4, <2>3 DEF FrameThread, RunBegins, RunLoop, ReadFrame, NoFrame, SkipFrame,
        RequeueFrame, Deliver, EndDispatch, RunEnds, ThreadFinishes
    <3> QED
      BY <2>1, <3>1
  <2> QED
    BY <2>2, <2>3
<1>5. ASSUME NEW t \in Releasers, NEW b \in Buffers, NEW p \in Procs, DoneClears(t, b, p)
      PROVE  DrainInv'
  <2>1. /\ held[b][p] > 0
        /\ processMap' = [processMap EXCEPT ![b] = processMap[b] \ {p}]
        /\ UNCHANGED <<main, left>>
    BY <1>5 DEF DoneClears
  <2>2. p \in processMap[b]
    BY <2>1 DEF HoldInv, HeldOnce
  <2>3. main \in {"streaming", "join", "drain"}
    BY <2>2
  <2>4. \A c \in Buffers : processMap[c] = {} => processMap'[c] = {}
    BY <2>1 DEF TypeOK
  <2> QED
    BY <2>1, <2>3, <2>4
<1>6. ASSUME NEW t \in Releasers, FinishDone(t) PROVE DrainInv'
  <2>1. UNCHANGED <<processMap, main, left>> /\ rel[t].pc # "idle"
    BY <1>6 DEF FinishDone, DoneChecks, DoneQueues
  <2>2. \A u \in Releasers : u # t => rel'[u] = rel[u]
    BY <1>6 DEF FinishDone, DoneChecks, DoneQueues, TypeOK
  <2>3. main \in {"streaming", "join", "drain"}
    BY <2>1
  <2> QED
    BY <2>1, <2>2, <2>3
<1>7. CASE UNCHANGED vars
  BY <1>7 DEF vars
<1> QED
  BY <1>1, <1>2, <1>3, <1>4, <1>5, <1>6, <1>7 DEF Next, Stopping, CallDone

(* The invariant under which the capture path follows BufferPool.          *)
LEMMA PoolInvStep ==
  ASSUME TypeOK, PoolInv, [Next]_vars, ~Disturbance'
  PROVE  PoolInv'
<1>1. ~WaitExpired' /\ ~DoneOvertaken' /\ ~BothLast'
  BY DEF Disturbance
<1> QED
  BY <1>1, ThreadInvStep, MemoryInvStep, HoldInvStep, DrainInvStep DEF PoolInv

(* The history variable only watches.                                      *)
LEMMA WatchingSpec == WatchedSpec => Spec
<1>1. WatchedInit => Init
  BY DEF WatchedInit
<1>2. [WatchedNext]_watchedVars => [Next]_vars
  BY DEF WatchedNext, watchedVars
<1> QED
  BY <1>1, <1>2, PTL DEF WatchedSpec, Spec

(* Until the first disturbance, PoolInv holds.                             *)
WatchedInv == disturbed \/ PoolInv

LEMMA WatchedInvHolds == WatchedSpec => [](TypeOK /\ WatchedInv)
<1>1. WatchedInit => WatchedInv
  BY PoolInvInit DEF WatchedInit, WatchedInv
<1>2. TypeOK /\ WatchedInv /\ [WatchedNext]_watchedVars => WatchedInv'
  <2> SUFFICES ASSUME TypeOK, WatchedInv, [WatchedNext]_watchedVars, ~disturbed'
               PROVE  PoolInv'
    BY DEF WatchedInv
  <2>1. CASE WatchedNext
    <3>1. ~disturbed /\ ~Disturbance' /\ Next
      BY <2>1 DEF WatchedNext
    <3> QED
      BY <3>1, PoolInvStep DEF WatchedInv
  <2>2. CASE UNCHANGED watchedVars
    <3>1. UNCHANGED vars /\ ~disturbed
      BY <2>2 DEF watchedVars
    <3>2. PoolInv
      BY <3>1 DEF WatchedInv
    <3>3. ThreadInv' /\ MemoryInv' /\ HoldInv'
      BY <3>1, <3>2, MemoryInvStep, HoldInvStep DEF PoolInv, ThreadInv, vars
    <3>4. DrainInv' /\ ~BothLast'
      BY <3>1, <3>2 DEF PoolInv, DrainInv, BothLast, Busy, vars
    <3> QED
      BY <3>3, <3>4 DEF PoolInv
  <2> QED
    BY <2>1, <2>2
<1> QED
  BY <1>1, <1>2, WatchingSpec, TypeCorrect, PTL DEF WatchedSpec

(* The driver does not write into a frame a processor still holds, on any  *)
(* threads the processors call `done', up to the first disturbance.        *)
THEOREM HeldFramesAreNotOverwritten == WatchedSpec => []FramesKeptUntilDisturbed
<1>1. TypeOK /\ WatchedInv => FramesKeptUntilDisturbed
  BY DEF WatchedInv, PoolInv, HoldInv, HeldOnce, PendingIsOut, NoWriteWhileHeld, DriverMayWrite,
     FramesKeptUntilDisturbed
<1> QED
  BY <1>1, WatchedInvHolds, PTL

PoolOwner == [b \in Buffers |-> Owner(b)]
PoolStep == Pool!PoolNext \/ UNCHANGED <<PoolOwner, held>>

(* A step that leaves the driver's access alone is a stutter of the pool.  *)
LEMMA StutterSteps ==
  ASSUME UNCHANGED <<alloc, held>>,
         \A b \in Buffers : DriverMayWrite(b)' <=> DriverMayWrite(b)
  PROVE  PoolStep
BY DEF PoolStep, PoolOwner, Owner

(* A buffer without a bit set is used by no processor.                     *)
LEMMA NoBitUnused ==
  ASSUME TypeOK, HeldOnce, NEW b \in Buffers, processMap[b] = {}
  PROVE  \A p \in Procs : held[b][p] = 0
<1>1. \A p \in Procs : held[b][p] \in 0 .. MaxHolds
  <2>1. held[b] \in [Procs -> 0 .. MaxHolds]
    BY DEF TypeOK
  <2> QED
    BY <2>1
<1>2. \A p \in Procs : ~(held[b][p] > 0)
  BY DEF HeldOnce
<1> QED
  BY <1>1, <1>2, HoldsAssumption

(* Queueing a buffer nobody uses gives it to the driver of the pool, or    *)
(* does nothing.                                                           *)
LEMMA QueueGives ==
  ASSUME TypeOK, MemoryInv, HeldOnce, NEW b \in Buffers, processMap[b] = {},
         QueueSingleUserBuffer(b), UNCHANGED <<alloc, streamon, held>>
  PROVE  PoolStep
<1>1. CASE drv' = drv \/ ~streamon
  <2>1. \A c \in Buffers : DriverMayWrite(c)' <=> DriverMayWrite(c)
    BY <1>1 DEF DriverMayWrite
  <2> QED
    BY <2>1, StutterSteps
<1>2. CASE drv' # drv /\ streamon
  <2>1. alloc = Buffers
    BY <1>2 DEF MemoryInv
  <2>2. drv[b] \in {"new", "user"} /\ drv' = [drv EXCEPT ![b] = "queued"]
    BY <1>2 DEF QueueSingleUserBuffer, Qbuf
  <2>3. \A c \in Buffers : drv'[c] = IF c = b THEN "queued" ELSE drv[c]
    BY <2>2 DEF TypeOK
  <2>4. Owner(b) = "app" /\ \A c \in Buffers : Owner(c)' = IF c = b THEN "driver" ELSE Owner(c)
    BY <1>2, <2>1, <2>2, <2>3 DEF Owner, DriverMayWrite
  <2>5. \A p \in Procs : held[b][p] = 0
    BY NoBitUnused
  <2>6. {b} \in SUBSET {c \in Buffers : PoolOwner[c] = "app" /\ Pool!Unused(c)}
    BY <2>4, <2>5 DEF PoolOwner, Pool!Unused
  <2>7. PoolOwner' = [c \in Buffers |-> IF c \in {b} THEN "driver" ELSE PoolOwner[c]]
    BY <2>4 DEF PoolOwner
  <2>8. Pool!Give
    BY <2>6, <2>7 DEF Pool!Give, PoolOwner
  <2> QED
    BY <2>8 DEF PoolStep, Pool!PoolNext
<1> QED
  BY <1>1, <1>2

(* Creating, queueing and starting: the pool allocates, and the driver is  *)
(* given what has been queued when the stream is switched on.              *)
LEMMA StartingSteps == ASSUME TypeOK, PoolInv, Starting PROVE PoolStep
<1> USE DEF PoolInv
<1>1. CASE CreateAllUserBuffer
  <2>1. main = "idle" /\ alloc' = Buffers /\ UNCHANGED <<streamon, held>>
    BY <1>1 DEF CreateAllUserBuffer, MainAt
  <2>2. alloc = {} /\ ~streamon
    BY <2>1 DEF MemoryInv
  <2>3. \A b \in Buffers : Owner(b) = "none" /\ Owner(b)' = "app"
    BY <2>1, <2>2 DEF Owner, DriverMayWrite
  <2>4. Pool!Allocate
    BY <2>1, <2>3 DEF Pool!Allocate
  <2> QED
    BY <2>4 DEF PoolStep, Pool!PoolNext
<1>2. CASE QueueAllUserBuffer
  <2>1. main = "created" /\ UNCHANGED <<alloc, streamon, held>>
    BY <1>2 DEF QueueAllUserBuffer, MainAt
  <2>2. ~streamon
    BY <2>1 DEF MemoryInv
  <2> QED
    BY <2>1, <2>2, StutterSteps DEF DriverMayWrite
<1>3. CASE StreamOn
  <2>1. main = "queued" /\ UNCHANGED <<alloc, drv, held>>
    BY <1>3 DEF StreamOn, MainAt
  <2>2. ~streamon /\ alloc = Buffers
    BY <2>1 DEF MemoryInv
  <2>3. CASE ~streamon'
    BY <2>1, <2>2, <2>3, StutterSteps DEF DriverMayWrite
  <2>4. CASE streamon'
    <3> DEFINE Q == {b \in Buffers : drv[b] \in {"queued", "filled"}}
    <3>1. \A b \in Buffers, p \in Procs : held[b][p] = 0
      BY <2>1, NobodyUses, NoBitUnused DEF HoldInv
    <3>2. \A b \in Buffers : Owner(b) = "app" /\ Owner(b)' = IF b \in Q THEN "driver" ELSE "app"
      BY <2>1, <2>2, <2>4 DEF Owner, DriverMayWrite
    <3> HIDE DEF Q
    <3>3. Q \subseteq Buffers
      BY DEF Q
    <3>4. Q \in SUBSET {b \in Buffers : PoolOwner[b] = "app" /\ Pool!Unused(b)}
      BY <3>1, <3>2, <3>3 DEF PoolOwner, Pool!Unused
    <3>5. PoolOwner' = [b \in Buffers |-> IF b \in Q THEN "driver" ELSE PoolOwner[b]]
      BY <3>2 DEF PoolOwner
    <3>6. Pool!Give
      BY <2>1, <3>4, <3>5 DEF Pool!Give, PoolOwner
    <3> QED
      BY <3>6 DEF PoolStep, Pool!PoolNext
  <2> QED
    BY <2>3, <2>4
<1>4. CASE StartStream
  <2>1. UNCHANGED <<alloc, streamon, drv, held>>
    BY <1>4 DEF StartStream
  <2> QED
    BY <2>1, StutterSteps DEF DriverMayWrite
<1> QED
  BY <1>1, <1>2, <1>3, <1>4 DEF Starting

(* Stopping: VIDIOC_STREAMOFF reclaims the buffers, and nobody uses one    *)
(* any more when their memory is freed.                                    *)
LEMMA StoppingSteps == ASSUME TypeOK, PoolInv, StopStream \/ Stopping PROVE PoolStep
<1> USE DEF PoolInv
<1>1. CASE StopStream \/ Join \/ (\E b \in Buffers : DrainBuffer(b)) \/ Drained
  <2>1. UNCHANGED <<alloc, streamon, drv, held>>
    BY <1>1 DEF StopStream, Join, DrainBuffer, Drained
  <2> QED
    BY <2>1, StutterSteps DEF DriverMayWrite
<1>2. CASE StreamOff
  <2>1. main = "streamoff" /\ ~streamon' /\ UNCHANGED <<alloc, held>>
    BY <1>2 DEF StreamOff, MainAt
  <2>2. alloc = Buffers
    BY <2>1 DEF MemoryInv
  <2>3. \A b \in Buffers : Owner(b) \in {"app", "driver"} /\ Owner(b)' = "app"
    BY <2>1, <2>2 DEF Owner, DriverMayWrite
  <2>4. Pool!Reclaim
    BY <2>1, <2>3 DEF Pool!Reclaim
  <2> QED
    BY <2>4 DEF PoolStep, Pool!PoolNext
<1>3. CASE DeleteAllUserBuffer
  <2>1. main = "delete" /\ alloc' = {} /\ UNCHANGED <<streamon, held>>
    BY <1>3 DEF DeleteAllUserBuffer, MainAt
  <2>2. alloc = Buffers /\ ~streamon
    BY <2>1 DEF MemoryInv
  <2>3. \A b \in Buffers : Owner(b) = "app" /\ Owner(b)' = "none"
    BY <2>1, <2>2 DEF Owner, DriverMayWrite
  <2>4. \A b \in Buffers, p \in Procs : held[b][p] = 0
    BY <2>1, NobodyUses, NoBitUnused DEF HoldInv
  <2>5. Pool!Free
    BY <2>1, <2>3, <2>4 DEF Pool!Free, Pool!Unused
  <2> QED
    BY <2>5 DEF PoolStep, Pool!PoolNext
<1> QED
  BY <1>1, <1>2, <1>3 DEF Stopping

(* The frame thread takes buffers, hands them to the processors and gives  *)
(* back those it does not hand out.                                        *)
LEMMA FrameThreadSteps == ASSUME TypeOK, PoolInv, FrameThread PROVE PoolStep
<1> USE DEF PoolInv
<1>1. CASE RunBegins \/ RunLoop \/ NoFrame \/ SkipFrame \/ BeginDispatch \/ EndDispatch
             \/ RunEnds \/ ThreadFinishes
  <2>1. UNCHANGED <<alloc, streamon, drv, held>>
    BY <1>1 DEF RunBegins, RunLoop, NoFrame, SkipFrame, BeginDispatch, EndDispatch, RunEnds,
      ThreadFinishes
  <2> QED
    BY <2>1, StutterSteps DEF DriverMayWrite
<1>2. ASSUME NEW b \in Buffers, ReadFrame(b) PROVE PoolStep
  <2>1. /\ streamon /\ drv[b] = "filled"
        /\ drv' = [drv EXCEPT ![b] = "user"] /\ UNCHANGED <<alloc, streamon, held>>
    BY <1>2 DEF ReadFrame
  <2>2. alloc = Buffers
    BY <2>1 DEF MemoryInv
  <2>3. \A c \in Buffers : drv'[c] = IF c = b THEN "user" ELSE drv[c]
    BY <2>1 DEF TypeOK
  <2>4. Owner(b) = "driver" /\ \A c \in Buffers : Owner(c)' = IF c = b THEN "app" ELSE Owner(c)
    BY <2>1, <2>2, <2>3 DEF Owner, DriverMayWrite
  <2>5. Pool!Take(b)
    BY <2>1, <2>4 DEF Pool!Take
  <2> QED
    BY <2>5 DEF PoolStep, Pool!PoolNext
<1>3. CASE RequeueFrame
  <2>1. /\ ft.pc = "requeue" /\ ft.buf \in Buffers
        /\ QueueSingleUserBuffer(ft.buf) /\ UNCHANGED <<alloc, streamon, held>>
    BY <1>3 DEF RequeueFrame, FrameAt, TypeOK
  <2>2. processMap[ft.buf] = {}
    BY <2>1 DEF HoldInv, PendingIsOut, InFrameThread
  <2> QED
    BY <2>1, <2>2, QueueGives DEF HoldInv
<1>4. CASE Deliver
  <2> DEFINE b == ft.buf
             n == ft.next
  <2>1. ft.pc = "dispatch" /\ b \in Buffers /\ n \in 0 .. NumProcs /\ n < NumProcs
    BY <1>4 DEF Deliver, FrameAt, TypeOK
  <2>2. n \in Procs
    BY ONLY <2>1, NumProcsAssumption DEF Procs
  <2>3. n \in processMap[b] /\ held[b][n] = 0
    BY <2>1, <2>2, NumProcsAssumption DEF HoldInv, Dispatching
  <2>4. drv[b] = "user"
    BY <2>1, <2>3 DEF HoldInv, PendingIsOut
  <2>5. main # "idle"
    BY <2>1 DEF ThreadInv
  <2>6. alloc = Buffers
    BY <2>5 DEF MemoryInv
  <2>7. /\ held' = [held EXCEPT ![b] = [held[b] EXCEPT ![n] = held[b][n] + 1]]
        /\ UNCHANGED <<alloc, streamon, drv>>
    BY <1>4 DEF Deliver
  <2>8. Owner(b) = "app" /\ PoolOwner' = PoolOwner
    BY <2>1, <2>4, <2>6, <2>7 DEF Owner, PoolOwner, DriverMayWrite
  <2>9. held' = [held EXCEPT ![b] = [held[b] EXCEPT ![n] = 1]]
    BY <2>3, <2>7
  <2> HIDE DEF b, n
  <2>10. Pool!Acquire(b, n)
    BY <2>1, <2>3, <2>8, <2>9 DEF Pool!Acquire, PoolOwner
  <2> QED
    BY <2>1, <2>2, <2>10 DEF PoolStep, Pool!PoolNext
<1> QED
  BY <1>1, <1>2, <1>3, <1>4 DEF FrameThread

(* A `done' releases the buffer; the last one gives it to the driver.      *)
LEMMA DoneSteps ==
  ASSUME TypeOK, PoolInv, CallDone \/ \E t \in Releasers : FinishDone(t)
  PROVE  PoolStep
<1> USE DEF PoolInv
<1>1. ASSUME NEW t \in Releasers, NEW b \in Buffers, NEW p \in Procs, DoneClears(t, b, p)
      PROVE  PoolStep
  <2>1. /\ held[b][p] > 0
        /\ held' = [held EXCEPT ![b] = [held[b] EXCEPT ![p] = held[b][p] - 1]]
        /\ UNCHANGED <<alloc, streamon, drv>>
    BY <1>1 DEF DoneClears
  <2>2. held[b][p] = 1
    BY <2>1 DEF HoldInv, HeldOnce
  <2>3. held' = [held EXCEPT ![b] = [held[b] EXCEPT ![p] = 0]]
    BY <2>1, <2>2
  <2>4. PoolOwner' = PoolOwner
    BY <2>1 DEF Owner, PoolOwner, DriverMayWrite
  <2>5. Pool!Release(b, p)
    BY <2>2, <2>3, <2>4 DEF Pool!Release, PoolOwner
  <2> QED
    BY <2>5 DEF PoolStep, Pool!PoolNext
<1>2. ASSUME NEW t \in Releasers, DoneChecks(t) PROVE PoolStep
  <2>1. UNCHANGED <<alloc, streamon, drv, held>>
    BY <1>2 DEF DoneChecks
  <2> QED
    BY <2>1, StutterSteps DEF DriverMayWrite
<1>3. ASSUME NEW t \in Releasers, DoneQueues(t) PROVE PoolStep
  <2>1. /\ rel[t].pc = "queue" /\ rel[t].buf \in Buffers
        /\ QueueSingleUserBuffer(rel[t].buf) /\ UNCHANGED <<alloc, streamon, held>>
    BY <1>3 DEF DoneQueues, TypeOK
  <2>2. processMap[rel[t].buf] = {}
    BY <2>1 DEF HoldInv, Returning
  <2> QED
    BY <2>1, <2>2, QueueGives DEF HoldInv
<1> QED
  BY <1>1, <1>2, <1>3 DEF CallDone, FinishDone

(* The capture path keeps the promise of BufferPool, on any threads the    *)
(* processors call `done', up to the first disturbance and including the   *)
(* step that brings it about: a buffer goes back to the driver, and its    *)
(* memory is freed, only when no processor uses it any more, and a         *)
(* processor is only given buffers the application owns.                   *)
THEOREM CaptureImplementsPool == WatchedSpec => ImplementsPool
<1>1. WatchedInit => Pool!PoolInit
  <2> SUFFICES ASSUME Init PROVE Pool!PoolInit
    BY DEF WatchedInit
  <2>1. \A b \in Buffers : Owner(b) = "none"
    BY DEF Init, Owner
  <2> QED
    BY <2>1 DEF Init, Pool!PoolInit
<1>2. TypeOK /\ WatchedInv /\ [WatchedNext]_watchedVars
        => [disturbed \/ Pool!PoolNext]_(Pool!poolVars)
  <2> SUFFICES ASSUME TypeOK, PoolInv, [Next]_vars PROVE PoolStep
    BY DEF PoolStep, PoolOwner, Pool!poolVars, WatchedInv, WatchedNext, watchedVars
  <2>1. ASSUME NEW b \in Buffers, DriverFills(b) PROVE PoolStep
    <3>1. UNCHANGED <<alloc, streamon, held>>
      BY <2>1 DEF DriverFills
    <3>2. \A c \in Buffers : DriverMayWrite(c)' <=> DriverMayWrite(c)
      BY <2>1 DEF DriverFills, DriverMayWrite, TypeOK
    <3> QED
      BY <3>1, <3>2, StutterSteps
  <2>2. CASE UNCHANGED vars
    BY <2>2, StutterSteps DEF vars, DriverMayWrite
  <2> QED
    BY <2>1, <2>2, StartingSteps, StoppingSteps, FrameThreadSteps, DoneSteps DEF Next
<1> QED
  BY <1>1, <1>2, WatchedInvHolds, PTL DEF WatchedSpec, ImplementsPool

=============================================================================
