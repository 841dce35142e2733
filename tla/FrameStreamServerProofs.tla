----------------------- MODULE FrameStreamServerProofs -----------------------
(***************************************************************************)
(* Theorems about FrameStreamServer, for any buffers, clients and bound on *)
(* the messages in flight.                                                 *)
(***************************************************************************)
EXTENDS FrameStreamServer, TLAPS

(* Type correctness of what the buffers' callbacks pass through.           *)
CallbackTypes ==
  /\ lent \subseteq Buffers
  /\ nextBuf \in MaybeBuffer /\ nextDone \in MaybeBuffer
  /\ push \in [pc : {"idle", "release", "relock"}, buf : MaybeBuffer, old : MaybeBuffer]
  /\ conv \in [pc : ConvPC, buf : MaybeBuffer, done : MaybeBuffer]
  /\ main \in [pc : {"idle", "broadcast", "notify", "join", "take", "release", "restart", "closed"},
               cb : MaybeBuffer, quit : BOOLEAN]

(* Two places hold different callbacks, or none. *)
Apart(x, y) == x = y => x = NoBuffer

(* The inductive strengthening of OneHolder: what each thread holds at     *)
(* each of its control points.                                             *)
CallbackInv ==
  /\ CallbackTypes
  /\ lent = {nextDone, push.old, push.buf, conv.done, main.cb} \ {NoBuffer}
  /\ Apart(nextDone, push.old) /\ Apart(nextDone, push.buf)
  /\ Apart(nextDone, conv.done) /\ Apart(nextDone, main.cb)
  /\ Apart(push.old, push.buf) /\ Apart(push.old, conv.done) /\ Apart(push.old, main.cb)
  /\ Apart(push.buf, conv.done) /\ Apart(push.buf, main.cb)
  /\ Apart(conv.done, main.cb)
  /\ push.pc = "idle" => push.buf = NoBuffer
  /\ push.pc # "release" => push.old = NoBuffer
  /\ push.pc # "idle" => nextDone = NoBuffer
  /\ conv.done # NoBuffer => conv.pc \in {"convert", "skip", "encoded", "record", "release"}
  /\ main.cb # NoBuffer => main.pc = "release"
  /\ main.pc \in {"take", "release", "restart", "closed"} => conv.pc = "none"

USE DEF MaybeBuffer, ConvPC

(* A notification changes the program counter of the conversion thread     *)
(* and nothing else.                                                       *)
LEMMA NotifiedEffect ==
  ASSUME CallbackTypes
  PROVE  /\ Notified \in [pc : ConvPC, buf : MaybeBuffer, done : MaybeBuffer]
         /\ Notified.done = conv.done
         /\ Notified.pc = conv.pc \/ conv.pc \in {"wait1", "wait2"}
BY DEF CallbackTypes, Notified

(* Initially nothing is lent. *)
LEMMA CallbackInvInit == Init => CallbackInv
BY BuffersAssumption DEF Init, CallbackInv, CallbackTypes, Apart

(* Every step of every thread moves callbacks between places, or calls one. *)
LEMMA CallbackInvStep == CallbackInv /\ [Next]_vars => CallbackInv'
<1> SUFFICES ASSUME CallbackInv, [Next]_vars PROVE CallbackInv'
  OBVIOUS
<1> USE BuffersAssumption DEF CallbackInv, CallbackTypes, Apart, mailbox
<1>1. ASSUME NEW b \in Buffers, PushFrame(b) PROVE CallbackInv'
  BY <1>1, NotifiedEffect DEF PushFrame, Store
<1>2. CASE PushReleases
  <2>1. push.pc = "release" /\ push' = [pc |-> "relock", buf |-> push.buf, old |-> NoBuffer]
    BY <1>2 DEF PushReleases
  <2>2. lent' = lent \ {push.old} /\ UNCHANGED <<nextBuf, nextDone, conv, main>>
    BY <1>2 DEF PushReleases
  <2>3. CallbackTypes'
    BY <2>1, <2>2
  <2>4. lent' = {nextDone, NoBuffer, push.buf, conv.done, main.cb} \ {NoBuffer}
    BY <2>2
  <2> QED
    BY <2>1, <2>2, <2>3, <2>4
<1>3. CASE PushStores
  <2>1. push.pc = "relock" /\ push.old = NoBuffer /\ push.buf \in MaybeBuffer
    BY <1>3 DEF PushStores
  <2>2. nextDone' = push.buf /\ nextBuf' = push.buf /\ conv' = Notified
    BY <1>3 DEF PushStores, Store
  <2>3. push' = [pc |-> "idle", buf |-> NoBuffer, old |-> NoBuffer]
    BY <1>3 DEF PushStores
  <2>4. UNCHANGED <<lent, main>>
    BY <1>3 DEF PushStores
  <2>5. /\ conv' \in [pc : ConvPC, buf : MaybeBuffer, done : MaybeBuffer]
        /\ conv'.done = conv.done
        /\ conv'.pc = conv.pc \/ conv.pc \in {"wait1", "wait2"}
    BY <2>2, NotifiedEffect
  <2>6. nextDone = NoBuffer
    BY <2>1
  <2>7. CallbackTypes'
    BY <2>1, <2>2, <2>3, <2>4, <2>5
  <2>8. lent' = {push.buf, NoBuffer, NoBuffer, conv.done, main.cb} \ {NoBuffer}
    BY <2>1, <2>4, <2>6
  <2> QED
    BY <2>1, <2>2, <2>3, <2>4, <2>5, <2>6, <2>7, <2>8
<1>4. CASE ConversionThread
  <2> USE DEF ConvAt, ConvTo, ConvOnly
  <2>1. CASE ConvWaitsForFrame \/ ConvSleeps \/ ConvReadsClientReady \/ ConvWaitsForClient
    BY <2>1 DEF ConvWaitsForFrame, ConvSleeps, ConvReadsClientReady, ConvWaitsForClient
  <2>2. CASE ConvTakesFrame
    BY <2>2 DEF ConvTakesFrame
  <2>3. CASE ConvConverts \/ ConvCallsRecorder \/ ConvRecords
    BY <2>3 DEF ConvConverts, ConvCallsRecorder, ConvRecords
  <2>4. CASE ConvReleases
    BY <2>4 DEF ConvReleases
  <2>5. CASE ConvEmits
    BY <2>5 DEF ConvEmits
  <2> QED
    BY <1>4, <2>1, <2>2, <2>3, <2>4, <2>5 DEF ConversionThread
<1>5. CASE ConvWakesUp
  BY <1>5, NotifiedEffect DEF ConvWakesUp, ConvOnly
<1>6. CASE OnBroadcast \/ SendToClients
  BY <1>6 DEF OnBroadcast, SendToClients, MainAt, MainTo
<1>7. ASSUME NEW c \in Clients,
             \/ OnClientTextMessage(c) \/ OnNewConnection(c) \/ OnClientDisconnected(c)
             \/ HandleFrame(c) \/ FrameDrawn(c) \/ DecodeFails(c)
      PROVE  CallbackInv'
  BY <1>7, NotifiedEffect DEF OnClientTextMessage, OnNewConnection, OnClientDisconnected, HandleFrame,
    FrameDrawn, DecodeFails
<1>9. CASE Flush
  BY <1>9 DEF Flush, MainAt
<1>10. CASE Flushing
  <2> USE DEF MainAt, MainTo
  <2>1. CASE FlushNotifies
    BY <2>1, NotifiedEffect DEF FlushNotifies
  <2>2. CASE FlushJoins
    BY <2>2 DEF FlushJoins
  <2>3. CASE FlushTakesPending
    <3>1. main' = [pc |-> "release", cb |-> nextDone, quit |-> main.quit]
      BY <2>3 DEF FlushTakesPending
    <3>2. main.pc = "take" /\ nextDone' = NoBuffer /\ UNCHANGED <<lent, nextBuf, push, conv>>
      BY <2>3 DEF FlushTakesPending
    <3>3. CallbackTypes'
      BY <3>1, <3>2
    <3>4. main.cb = NoBuffer
      BY <3>2
    <3>5. lent' = {NoBuffer, push.old, push.buf, conv.done, nextDone} \ {NoBuffer}
      BY <3>2, <3>4
    <3> QED
      BY <3>1, <3>2, <3>3, <3>4, <3>5
  <2>4. CASE FlushReleases
    <3>1. main.pc = "release" /\ main' = [pc |-> "restart", cb |-> NoBuffer, quit |-> main.quit]
      BY <2>4 DEF FlushReleases
    <3>2. lent' = lent \ {main.cb} /\ UNCHANGED <<nextBuf, nextDone, push, conv>>
      BY <2>4 DEF FlushReleases
    <3>3. CallbackTypes'
      BY <3>1, <3>2
    <3>4. lent' = {nextDone, push.old, push.buf, conv.done, NoBuffer} \ {NoBuffer}
      BY <3>2
    <3> QED
      BY <3>1, <3>2, <3>3, <3>4
  <2>5. CASE FlushRestarts
    <3>1. conv' = [pc |-> "lock", buf |-> NoBuffer, done |-> NoBuffer] /\ conv.pc = "none"
      BY <2>5 DEF FlushRestarts
    <3>2. main' = [main EXCEPT !.pc = "idle"] /\ main.pc = "restart"
      BY <2>5 DEF FlushRestarts
    <3>3. UNCHANGED <<lent, nextBuf, nextDone, push>>
      BY <2>5 DEF FlushRestarts
    <3>4. conv.done = NoBuffer
      BY <3>1
    <3> QED
      BY <3>1, <3>2, <3>3, <3>4
  <2>6. CASE StopCloses
    BY <2>6 DEF StopCloses
  <2> QED
    BY <1>10, <2>1, <2>2, <2>3, <2>4, <2>5, <2>6 DEF Flushing
<1>11. CASE UNCHANGED vars
  BY <1>11 DEF vars
<1> QED
  BY <1>1, <1>2, <1>3, <1>4, <1>5, <1>6, <1>7, <1>9, <1>10, <1>11
     DEF Next, FrameThread, Connecting

(* Every buffer lent to the server has exactly one party that is to call   *)
(* its `done', in every interleaving of the frame thread, the conversion   *)
(* thread and the main thread.                                             *)
THEOREM EveryLentBufferHasOneHolder == Spec => []OneHolder
<1>1. CallbackInv => OneHolder
  BY BuffersAssumption DEF CallbackInv, CallbackTypes, Apart, OneHolder, Holders
<1> QED
  BY <1>1, CallbackInvInit, CallbackInvStep, PTL DEF Spec

-----------------------------------------------------------------------------
(* The event queue and the rest of the types. *)

(* The inductive strengthening of OneBroadcast: the queue holds one event  *)
(* at most and m_broadcastPending is set while it does; emptying the queue *)
(* and clearing the flag are one step of the main thread, testing and      *)
(* setting it one of the conversion thread.                                *)
BroadcastInv == queued \in Nat /\ OneBroadcast

LEMMA BroadcastInvInit == Init => BroadcastInv
BY DEF Init, BroadcastInv, OneBroadcast

(* ConvEmits and OnBroadcast alone touch the queue or the flag.            *)
LEMMA BroadcastInvStep == BroadcastInv /\ [Next]_vars => BroadcastInv'
<1> SUFFICES ASSUME BroadcastInv, [Next]_vars PROVE BroadcastInv'
  OBVIOUS
<1> USE DEF BroadcastInv, OneBroadcast
<1>1. CASE ConvEmits
  BY <1>1 DEF ConvEmits
<1>2. CASE OnBroadcast
  BY <1>2 DEF OnBroadcast
<1>3. CASE FrameThread
  BY <1>3 DEF FrameThread, PushFrame, PushReleases, PushStores
<1>4. CASE ConversionThread \/ ConvWakesUp
  BY <1>1, <1>4 DEF ConversionThread, ConvWaitsForFrame, ConvSleeps, ConvReadsClientReady,
    ConvWaitsForClient, ConvTakesFrame, ConvConverts, ConvCallsRecorder, ConvRecords, ConvReleases,
    ConvWakesUp, ConvOnly
<1>5. CASE SendToClients \/ Flush \/ Flushing
  BY <1>5 DEF SendToClients, Flush, Flushing, FlushNotifies, FlushJoins, FlushTakesPending,
    FlushReleases, FlushRestarts, StopCloses
<1>6. ASSUME NEW c \in Clients,
             \/ OnClientTextMessage(c) \/ OnNewConnection(c) \/ OnClientDisconnected(c)
             \/ HandleFrame(c) \/ FrameDrawn(c) \/ DecodeFails(c)
      PROVE  BroadcastInv'
  BY <1>6 DEF OnClientTextMessage, OnNewConnection, OnClientDisconnected, HandleFrame, FrameDrawn,
    DecodeFails
<1>7. CASE UNCHANGED vars
  BY <1>7 DEF vars
<1> QED
  BY <1>1, <1>2, <1>3, <1>4, <1>5, <1>6, <1>7 DEF Next, Connecting

(* The main thread's event queue never holds a second JPEG, however often  *)
(* the conversion thread emits and is restarted.                           *)
THEOREM NoSecondBroadcast == Spec => []OneBroadcast
<1>1. BroadcastInv => OneBroadcast
  BY DEF BroadcastInv
<1> QED
  BY <1>1, BroadcastInvInit, BroadcastInvStep, PTL DEF Spec

(* A page's counters and canvas. *)
PageType == [frames : 0 .. MaxInFlight, canvas : {"idle", "drawing", "failed"}, acks : 0 .. MaxInFlight]

(* The flags, the connected pages and what travels to and from them. *)
ServerTypes ==
  /\ bufferReady \in BOOLEAN /\ stopThread \in BOOLEAN /\ pending \in BOOLEAN
  /\ clientReady \in BOOLEAN /\ listening \in BOOLEAN
  /\ clients \subseteq Clients
  /\ page \in [Clients -> PageType]

LEMMA NoPageType == NoPage \in PageType
BY InFlightAssumption DEF PageType, NoPage

(* Changing a counter within its bound, or the canvas, keeps the type.     *)
LEMMA PageCounters ==
  ASSUME NEW p \in PageType
  PROVE  p.frames \in 0 .. MaxInFlight /\ p.acks \in 0 .. MaxInFlight
BY DEF PageType

LEMMA PageFrames ==
  ASSUME NEW p \in PageType, NEW n \in 0 .. MaxInFlight
  PROVE  [p EXCEPT !.frames = n] \in PageType
BY DEF PageType

LEMMA PageAcks ==
  ASSUME NEW p \in PageType, NEW n \in 0 .. MaxInFlight
  PROVE  [p EXCEPT !.acks = n] \in PageType
BY DEF PageType

LEMMA PageCanvas ==
  ASSUME NEW p \in PageType, NEW how \in {"idle", "drawing", "failed"}
  PROVE  [p EXCEPT !.canvas = how] \in PageType
BY DEF PageType

LEMMA ServerTypesInit == Init => ServerTypes
BY NoPageType DEF Init, ServerTypes

(* The bound on the messages in flight is in the guards of the steps that  *)
(* send one.                                                               *)
LEMMA ServerTypesStep == ServerTypes /\ [Next]_vars => ServerTypes'
<1> SUFFICES ASSUME ServerTypes, [Next]_vars PROVE ServerTypes'
  OBVIOUS
<1> USE InFlightAssumption DEF ServerTypes, mailbox
<1>1. CASE FrameThread
  BY <1>1 DEF FrameThread, PushFrame, PushReleases, PushStores, Store
<1>2. CASE ConversionThread \/ ConvWakesUp
  BY <1>2 DEF ConversionThread, ConvWaitsForFrame, ConvSleeps, ConvReadsClientReady, ConvEmits,
    ConvWaitsForClient, ConvTakesFrame, ConvConverts, ConvCallsRecorder, ConvRecords, ConvReleases,
    ConvWakesUp, ConvOnly
<1>3. CASE SendToClients
  <2>1. CASE UNCHANGED <<clientReady, page>>
    BY <1>3, <2>1 DEF SendToClients
  <2>2. CASE ~ UNCHANGED <<clientReady, page>>
    <3>1. \A c \in clients : page[c].frames < MaxInFlight
      BY <1>3, <2>2 DEF SendToClients
    <3>2. page' = [c \in Clients |-> IF c \in clients
                                     THEN [page[c] EXCEPT !.frames = @ + 1]
                                     ELSE page[c]]
      BY <1>3, <2>2 DEF SendToClients
    <3>3. ASSUME NEW c \in clients PROVE [page[c] EXCEPT !.frames = @ + 1] \in PageType
      <4>1. page[c] \in PageType /\ page[c].frames < MaxInFlight
        BY <3>1, <3>3
      <4>2. page[c].frames + 1 \in 0 .. MaxInFlight
        <5>1. page[c].frames \in 0 .. MaxInFlight
          BY <4>1, PageCounters
        <5> QED
          BY <4>1, <5>1
      <4> QED
        BY <4>1, <4>2, PageFrames
    <3>4. page' \in [Clients -> PageType]
      BY <3>2, <3>3
    <3> QED
      BY <1>3, <2>2, <3>4 DEF SendToClients
  <2> QED
    BY <2>1, <2>2
<1>4. CASE OnBroadcast \/ Flush \/ Flushing
  BY <1>4, NoPageType DEF OnBroadcast, Flush, Flushing, FlushNotifies, FlushJoins,
    FlushTakesPending, FlushReleases, FlushRestarts, StopCloses
<1>5. ASSUME NEW c \in Clients,
             \/ OnClientTextMessage(c) \/ OnNewConnection(c) \/ OnClientDisconnected(c)
             \/ HandleFrame(c) \/ FrameDrawn(c) \/ DecodeFails(c)
      PROVE  ServerTypes'
  <2>1. page[c] \in PageType
    OBVIOUS
  <2>2. \E p \in PageType : page' = [page EXCEPT ![c] = p]
    <3>1. CASE OnClientTextMessage(c)
      <4>1. page' = [page EXCEPT ![c] = [page[c] EXCEPT !.acks = @ - 1]] /\ page[c].acks > 0
        BY <3>1 DEF OnClientTextMessage
      <4>2. [page[c] EXCEPT !.acks = @ - 1] \in PageType
        <5>1. page[c].acks \in 0 .. MaxInFlight
          BY <2>1, PageCounters
        <5>2. page[c].acks - 1 \in 0 .. MaxInFlight
          BY <4>1, <5>1
        <5> QED
          BY <2>1, <5>2, PageAcks
      <4> QED
        BY <4>1, <4>2
    <3>2. CASE OnNewConnection(c)
      <4>1. page' = [page EXCEPT ![c] = [NoPage EXCEPT !.acks = 1]]
        BY <3>2 DEF OnNewConnection
      <4>2. [NoPage EXCEPT !.acks = 1] \in PageType
        <5>1. 1 \in 0 .. MaxInFlight
          OBVIOUS
        <5> QED
          BY <5>1, NoPageType, PageAcks
      <4> QED
        BY <4>1, <4>2
    <3>3. CASE OnClientDisconnected(c)
      BY <3>3, NoPageType DEF OnClientDisconnected
    <3>4. CASE HandleFrame(c)
      <4>1. page' = [page EXCEPT ![c] = [page[c] EXCEPT !.frames = @ - 1, !.canvas = "drawing"]]
        BY <3>4 DEF HandleFrame
      <4>2. page[c].frames > 0
        BY <3>4 DEF HandleFrame
      <4>3. [page[c] EXCEPT !.frames = @ - 1, !.canvas = "drawing"] \in PageType
        <5>1. page[c].frames \in 0 .. MaxInFlight
          BY <2>1, PageCounters
        <5>2. page[c].frames - 1 \in 0 .. MaxInFlight
          BY <4>2, <5>1
        <5>3. [page[c] EXCEPT !.frames = @ - 1] \in PageType
          BY <2>1, <5>2, PageFrames
        <5>4. [[page[c] EXCEPT !.frames = @ - 1] EXCEPT !.canvas = "drawing"] \in PageType
          BY <5>3, PageCanvas
        <5> QED
          BY <5>4
      <4> QED
        BY <4>1, <4>3
    <3>5. CASE FrameDrawn(c)
      <4>1. page' = [page EXCEPT ![c] = [page[c] EXCEPT !.canvas = "idle", !.acks = @ + 1]]
        BY <3>5 DEF FrameDrawn
      <4>2. page[c].acks < MaxInFlight
        BY <3>5 DEF FrameDrawn
      <4>3. [page[c] EXCEPT !.canvas = "idle", !.acks = @ + 1] \in PageType
        <5>1. page[c].acks \in 0 .. MaxInFlight
          BY <2>1, PageCounters
        <5>2. page[c].acks + 1 \in 0 .. MaxInFlight
          BY <4>2, <5>1
        <5>3. [page[c] EXCEPT !.acks = @ + 1] \in PageType
          BY <2>1, <5>2, PageAcks
        <5>4. [[page[c] EXCEPT !.acks = @ + 1] EXCEPT !.canvas = "idle"] \in PageType
          BY <5>3, PageCanvas
        <5>5. [page[c] EXCEPT !.canvas = "idle", !.acks = @ + 1]
                = [[page[c] EXCEPT !.acks = @ + 1] EXCEPT !.canvas = "idle"]
          BY <2>1 DEF PageType
        <5> QED
          BY <5>4, <5>5
      <4> QED
        BY <4>1, <4>3
    <3>6. CASE DecodeFails(c)
      <4>1. page' = [page EXCEPT ![c] = [page[c] EXCEPT !.canvas = "failed"]]
        BY <3>6 DEF DecodeFails
      <4>2. [page[c] EXCEPT !.canvas = "failed"] \in PageType
        BY <2>1, PageCanvas
      <4> QED
        BY <4>1, <4>2
    <3> QED
      BY <1>5, <3>1, <3>2, <3>3, <3>4, <3>5, <3>6
  <2>3. page' \in [Clients -> PageType]
    BY <2>2
  <2> QED
    BY <1>5, <2>3 DEF OnClientTextMessage, OnNewConnection, OnClientDisconnected, HandleFrame,
      FrameDrawn, DecodeFails
<1>6. CASE UNCHANGED vars
  BY <1>6 DEF vars
<1> QED
  BY <1>1, <1>2, <1>3, <1>4, <1>5, <1>6 DEF Next, Connecting

(* The conversion thread works on a real buffer: what m_bufferReady        *)
(* announces was stored by a pushFrame, and m_nextBuffer is never cleared, *)
(* so that it may be read after the mutex was given up in between.         *)
FrameReady ==
  /\ push.pc # "idle" => push.buf \in Buffers
  /\ bufferReady => nextBuf \in Buffers
  /\ conv.pc \in {"ready", "pending"} => nextBuf \in Buffers
  /\ conv.pc \in {"convert", "skip", "encoded", "record", "release"} => conv.buf \in Buffers

LEMMA FrameReadyInit == Init => FrameReady
BY DEF Init, FrameReady

LEMMA FrameReadyStep ==
  FrameReady /\ CallbackTypes /\ bufferReady \in BOOLEAN /\ [Next]_vars => FrameReady'
<1> SUFFICES ASSUME FrameReady, CallbackTypes, bufferReady \in BOOLEAN, [Next]_vars PROVE FrameReady'
  OBVIOUS
<1> USE DEF FrameReady, mailbox
<1>1. /\ Notified.buf = conv.buf
      /\ Notified.pc = conv.pc \/ Notified.pc \in {"lock", "lock2"}
  BY DEF Notified, CallbackTypes
<1>2. ASSUME NEW b \in Buffers, PushFrame(b) PROVE FrameReady'
  BY <1>1, <1>2 DEF PushFrame, Store
<1>3. CASE PushReleases
  BY <1>3 DEF PushReleases, CallbackTypes
<1>4. CASE PushStores
  BY <1>1, <1>4 DEF PushStores, Store
<1>5. CASE ConversionThread
  <2> USE DEF ConvAt, ConvTo, ConvOnly, CallbackTypes
  <2>1. CASE ConvWaitsForFrame
    BY <2>1 DEF ConvWaitsForFrame
  <2>2. CASE ConvSleeps \/ ConvReadsClientReady \/ ConvWaitsForClient
    BY <2>2 DEF ConvSleeps, ConvReadsClientReady, ConvWaitsForClient
  <2>3. CASE ConvTakesFrame
    BY <2>3 DEF ConvTakesFrame
  <2>4. CASE ConvConverts \/ ConvCallsRecorder \/ ConvRecords
    BY <2>4 DEF ConvConverts, ConvCallsRecorder, ConvRecords
  <2>5. CASE ConvReleases \/ ConvEmits
    BY <2>5 DEF ConvReleases, ConvEmits
  <2> QED
    BY <1>5, <2>1, <2>2, <2>3, <2>4, <2>5 DEF ConversionThread
<1>6. CASE ConvWakesUp
  BY <1>1, <1>6 DEF ConvWakesUp, ConvOnly
<1>7. CASE OnBroadcast \/ SendToClients \/ Flush
  BY <1>7 DEF OnBroadcast, SendToClients, Flush
<1>8. CASE Flushing
  <2> USE DEF MainAt, MainTo
  <2>1. CASE FlushNotifies
    BY <1>1, <2>1 DEF FlushNotifies
  <2>2. CASE FlushJoins
    BY <2>2 DEF FlushJoins, CallbackTypes
  <2>3. CASE FlushTakesPending
    <3>1. UNCHANGED <<nextBuf, push, conv>> /\ (bufferReady' => bufferReady)
      BY <2>3 DEF FlushTakesPending
    <3> QED
      BY <3>1
  <2>4. CASE FlushReleases \/ StopCloses
    BY <2>4 DEF FlushReleases, StopCloses
  <2>5. CASE FlushRestarts
    BY <2>5 DEF FlushRestarts
  <2> QED
    BY <1>8, <2>1, <2>2, <2>3, <2>4, <2>5 DEF Flushing
<1>9. ASSUME NEW c \in Clients,
             \/ OnClientTextMessage(c) \/ OnNewConnection(c) \/ OnClientDisconnected(c)
             \/ HandleFrame(c) \/ FrameDrawn(c) \/ DecodeFails(c)
      PROVE  FrameReady'
  BY <1>1, <1>9 DEF OnClientTextMessage, OnNewConnection, OnClientDisconnected, HandleFrame,
    FrameDrawn, DecodeFails
<1>10. CASE UNCHANGED vars
  BY <1>10 DEF vars
<1> QED
  BY <1>2, <1>3, <1>4, <1>5, <1>6, <1>7, <1>8, <1>9, <1>10 DEF Next, FrameThread, Connecting

(* Type correctness of the server, with the frame that is converted and    *)
(* the messages in flight within their bound.                              *)
THEOREM ServerTypeCorrect == Spec => []TypeOK
<1> DEFINE Inv == CallbackInv /\ BroadcastInv /\ ServerTypes /\ FrameReady
<1>1. Init => Inv
  BY CallbackInvInit, BroadcastInvInit, ServerTypesInit, FrameReadyInit
<1>2. Inv /\ [Next]_vars => Inv'
  <2>1. CallbackInv => CallbackTypes
    BY DEF CallbackInv
  <2>2. ServerTypes => bufferReady \in BOOLEAN
    BY DEF ServerTypes
  <2> QED
    BY <2>1, <2>2, CallbackInvStep, BroadcastInvStep, ServerTypesStep, FrameReadyStep
<1>3. Inv => TypeOK
  <2> SUFFICES ASSUME Inv PROVE TypeOK
    OBVIOUS
  <2>1. CallbackTypes
    BY DEF CallbackInv
  <2>2. {bufferReady, stopThread, pending, clientReady, listening} \subseteq BOOLEAN
    BY DEF ServerTypes
  <2>3. conv.pc \in {"convert", "skip", "encoded", "record", "release"} => conv.buf \in Buffers
    BY DEF FrameReady
  <2>4. queued \in Nat
    BY DEF BroadcastInv
  <2>5. clients \in SUBSET Clients /\ page \in [Clients -> PageType]
    BY DEF ServerTypes
  <2> QED
    BY <2>1, <2>2, <2>3, <2>4, <2>5 DEF TypeOK, CallbackTypes, PageType
<1> QED
  BY <1>1, <1>2, <1>3, PTL DEF Spec

=============================================================================
