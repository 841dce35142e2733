------------------------- MODULE CameraControlsProofs -------------------------
(***************************************************************************)
(* Theorems about CameraControls, for any cameras, descriptors, controls   *)
(* and bounds: the thread of V4L2EventHandler and the main thread that     *)
(* opens and closes the camera do not get into each other's way, a control *)
(* is set on its device, and the panel follows the device.                 *)
(***************************************************************************)
EXTENDS CameraControls, FiniteSetTheorems, SequenceTheorems, TLAPS

(* The handshake: what the counter of the eventfd is at every control      *)
(* point of Stop, and where the thread can be meanwhile.                   *)
Handshake ==
  /\ run = [pc |-> run.pc, pfds |-> run.pfds]
  /\ stop \in {"none", "idle", "write1", "writeMax", "read", "unsubscribe", "wait"}
  /\ stop = "none" => run.pc = "none"
  /\ stop \in {"idle", "write1"} => counter = 0 /\ run.pc # "finished"
  /\ stop = "writeMax" => \/ counter = 1 /\ run.pc # "finished"
                          \/ counter = 0 /\ run.pc = "finished"
  /\ stop = "read" => counter = MaxCounter /\ run.pc = "finished"
  /\ stop \in {"unsubscribe", "wait"} => counter = 0 /\ run.pc = "finished"

(* Every watched descriptor is open as long as there is a handler. *)
WatchedOpen ==
  /\ watched \in Seq(Fds)
  /\ stop # "none" => \A i \in DOMAIN watched : watched[i] \in openFds

HandlerInv == Handshake /\ WatchedOpen

(* Initially there is no handler. *)
LEMMA HandlerInvInit == Init => HandlerInv
BY DEF Init, NoHandler, NotPolling, HandlerInv, Handshake, WatchedOpen

(* Erasing an entry keeps the others, in their order. *)
LEMMA ErasedEntries ==
  ASSUME watched \in Seq(Fds), NEW i \in DOMAIN watched
  PROVE  /\ Erased(i) \in Seq(Fds) /\ DOMAIN Erased(i) = 1 .. Len(watched) - 1
         /\ \A j \in 1 .. Len(watched) - 1 :
              Erased(i)[j] = watched[IF j <= i - 1 THEN j ELSE j + 1]
<1> DEFINE front_ == SubSeq(watched, 1, i - 1)
           back_ == SubSeq(watched, i + 1, Len(watched))
<1>1. i \in 1 .. Len(watched) /\ Len(watched) \in Nat
  OBVIOUS
<1>2. /\ front_ \in Seq(Fds) /\ Len(front_) = i - 1
      /\ \A j \in 1 .. i - 1 : front_[j] = watched[j]
  BY <1>1
<1>3. /\ back_ \in Seq(Fds) /\ Len(back_) = Len(watched) - i
      /\ \A j \in 1 .. Len(watched) - i : back_[j] = watched[i + j]
  BY <1>1
<1>4. Erased(i) = front_ \o back_
  BY DEF Erased
<1> HIDE DEF front_, back_
<1>5. /\ front_ \o back_ \in Seq(Fds)
      /\ Len(front_ \o back_) = Len(front_) + Len(back_)
      /\ \A j \in 1 .. Len(front_) + Len(back_) :
           (front_ \o back_)[j] = IF j <= Len(front_) THEN front_[j]
                                                    ELSE back_[j - Len(front_)]
  BY <1>2, <1>3, ConcatProperties
<1>6. /\ Erased(i) \in Seq(Fds) /\ Len(Erased(i)) = Len(watched) - 1
      /\ \A j \in 1 .. Len(watched) - 1 :
           Erased(i)[j] = IF j <= i - 1 THEN front_[j] ELSE back_[j - (i - 1)]
  <2>1. Len(front_) + Len(back_) = Len(watched) - 1
    BY <1>1, <1>2, <1>3
  <2> QED
    BY <1>2, <1>4, <1>5, <2>1
<1>7. DOMAIN Erased(i) = 1 .. Len(watched) - 1
  BY <1>1, <1>6
<1>8. ASSUME NEW j \in 1 .. Len(watched) - 1
      PROVE  Erased(i)[j] = watched[IF j <= i - 1 THEN j ELSE j + 1]
  <2>1. CASE j <= i - 1
    BY <1>1, <1>2, <1>6, <2>1
  <2>2. CASE ~(j <= i - 1)
    <3>1. j - (i - 1) \in 1 .. Len(watched) - i /\ i + (j - (i - 1)) = j + 1
      BY <1>1, <2>2
    <3> QED
      BY <1>1, <1>3, <1>6, <2>2, <3>1
  <2> QED
    BY <2>1, <2>2
<1> QED
  BY <1>6, <1>7, <1>8

LEMMA ErasedEffect ==
  ASSUME watched \in Seq(Fds), NEW i
  PROVE  /\ Erased(i) \in Seq(Fds)
         /\ \A j \in DOMAIN Erased(i) : \E k \in DOMAIN watched : Erased(i)[j] = watched[k]
<1>1. CASE i \notin DOMAIN watched
  BY <1>1 DEF Erased
<1>2. CASE i \in DOMAIN watched
  <2>1. i \in 1 .. Len(watched) /\ Len(watched) \in Nat /\ DOMAIN watched = 1 .. Len(watched)
    BY <1>2
  <2>2. /\ Erased(i) \in Seq(Fds) /\ DOMAIN Erased(i) = 1 .. Len(watched) - 1
        /\ \A j \in 1 .. Len(watched) - 1 :
             Erased(i)[j] = watched[IF j <= i - 1 THEN j ELSE j + 1]
    BY <1>2, ErasedEntries
  <2>3. \A j \in 1 .. Len(watched) - 1 : (IF j <= i - 1 THEN j ELSE j + 1) \in 1 .. Len(watched)
    BY <2>1
  <2> QED
    BY <2>1, <2>2, <2>3
<1> QED
  BY <1>1, <1>2

(* The steps of the handler's thread. *)
LEMMA HandlerThreadStep == ASSUME HandlerInv, HandlerThread PROVE HandlerInv'
<1> USE DEF HandlerInv, Handshake, WatchedOpen, NotPolling, driverVars
<1>0. UNCHANGED openFds
  BY DEF HandlerThread, Unrelated, cameraVars
<1>1. CASE RunLoops
  BY <1>0, <1>1 DEF RunLoops
<1>2. CASE RunPolls
  BY <1>0, <1>2 DEF RunPolls
<1>3. CASE RunHandles
  <2>1. PICK item \in run.pfds :
          /\ watched' = IF item.err THEN Erased(item.at) ELSE watched
          /\ run' = IF run.pfds = {item} THEN NotPolling("loop")
                    ELSE [run EXCEPT !.pfds = @ \ {item}]
    BY <1>3 DEF RunHandles
  <2>2. run.pc = "handle" /\ UNCHANGED <<counter, stop>>
    BY <1>3 DEF RunHandles
  <2>3. run' = [pc |-> run'.pc, pfds |-> run'.pfds] /\ run'.pc \in {"loop", "handle"}
    BY <2>1, <2>2
  <2>4. Handshake'
    BY <2>2, <2>3
  <2>5. WatchedOpen'
    <3>1. CASE watched' = watched
      BY <1>0, <2>2, <3>1
    <3>2. CASE watched' = Erased(item.at)
      BY <1>0, <2>2, <3>2, ErasedEffect
    <3> QED
      BY <2>1, <3>1, <3>2
  <2> QED
    BY <2>4, <2>5
<1>4. CASE RunDrains
  BY <1>0, <1>4 DEF RunDrains
<1> QED
  BY <1>1, <1>2, <1>3, <1>4 DEF HandlerThread, RunNext

(* The steps of Stop and of the destructor. *)
LEMMA StopStep == ASSUME HandlerInv, StopNext, Unrelated PROVE HandlerInv'
<1> USE CounterAssumption DEF HandlerInv, Handshake, WatchedOpen, NotPolling, driverVars
<1>0. UNCHANGED openFds
  BY DEF Unrelated, cameraVars
<1>1. CASE StopWritesOne
  BY <1>0, <1>1 DEF StopWritesOne
<1>2. CASE StopWritesMax
  BY <1>0, <1>2 DEF StopWritesMax
<1>3. CASE StopReads
  BY <1>0, <1>3 DEF StopReads
<1>4. CASE StopUnsubscribes
  BY <1>0, <1>4 DEF StopUnsubscribes
<1>5. CASE Deleted
  BY <1>0, <1>5 DEF Deleted
<1> QED
  BY <1>1, <1>2, <1>3, <1>4, <1>5 DEF StopNext

(* Opening starts a handler for the descriptors it has opened. *)
LEMMA OpenStep ==
  ASSUME HandlerInv, NEW cam \in Cameras, OpenCamera(cam) PROVE HandlerInv'
<1> USE DEF HandlerInv, Handshake, WatchedOpen, NotPolling
<1>0. SubDevices[cam] \in Seq(Fds)
  <2>1. SubDevices[cam] \in Seq(Fds \ {Video})
    BY LayoutAssumption
  <2> QED
    BY <2>1
<1>1. CASE Terminates
  BY <1>1 DEF Terminates, handlerVars
<1>2. CASE OpenSucceeds(cam)
  <2>1. /\ Append(SubDevices[cam], Video) \in Seq(Fds)
        /\ Len(Append(SubDevices[cam], Video)) = Len(SubDevices[cam]) + 1
        /\ \A i \in DOMAIN Append(SubDevices[cam], Video) :
             \/ Append(SubDevices[cam], Video)[i] = Video
             \/ i \in DOMAIN SubDevices[cam]
                /\ Append(SubDevices[cam], Video)[i] = SubDevices[cam][i]
    BY <1>0, VideoAssumption
  <2>2. /\ watched' = Append(SubDevices[cam], Video) /\ stop' = "idle"
        /\ run' = [pc |-> "loop", pfds |-> {}] /\ counter' = 0
        /\ openFds' = Opened(cam)
    BY <1>2 DEF OpenSucceeds, Started
  <2> QED
    BY <2>1, <2>2 DEF Opened
<1>3. CASE OpenFails(cam)
  <2>1. /\ watched' = SubDevices[cam] /\ stop' = "idle"
        /\ run' = [pc |-> "loop", pfds |-> {}] /\ counter' = 0
        /\ openFds' = Opened(cam) \ {Video}
    BY <1>3 DEF OpenFails, Started
  <2>2. \A i \in DOMAIN SubDevices[cam] : SubDevices[cam][i] # Video
    <3>1. SubDevices[cam] \in Seq(Fds \ {Video})
      BY LayoutAssumption
    <3> QED
      BY <3>1
  <2> QED
    BY <1>0, <2>1, <2>2 DEF Opened
<1> QED
  BY <1>1, <1>2, <1>3 DEF OpenCamera

(* Everything else leaves the handler alone, or only asks it to stop, or   *)
(* closes the descriptors when it is gone.                                 *)
LEMMA HandlerInvStep == HandlerInv /\ [Next]_vars => HandlerInv'
<1> SUFFICES ASSUME HandlerInv, [Next]_vars PROVE HandlerInv'
  OBVIOUS
<1>0. ASSUME UNCHANGED handlerVars, UNCHANGED openFds PROVE HandlerInv'
  BY <1>0 DEF HandlerInv, Handshake, WatchedOpen, handlerVars
<1>1. CASE HandlerThread
  BY <1>1, HandlerThreadStep
<1>2. CASE Rereader
  <2>1. UNCHANGED handlerVars /\ UNCHANGED openFds
    BY <1>2 DEF Rereader, RereadBegins, RereadDevice, RereaderExits
  <2> QED
    BY <1>0, <2>1
<1>3. CASE MainThread
  <2>1. CASE EnumSubscribes \/ EnumReads \/ Delivers \/ PageEnumerates \/ DialogEnds
    <3>1. UNCHANGED handlerVars /\ UNCHANGED openFds
      BY <2>1 DEF EnumSubscribes, EnumReads, Delivers, PageEnumerates, DialogEnds, EndRereader,
         cameraVars
    <3> QED
      BY <1>0, <3>1
  <2>2. CASE RereaderJoined
    <3>1. /\ stop = "idle" /\ stop' = "write1"
          /\ UNCHANGED <<watched, run, counter, openFds>>
      BY <2>2 DEF RereaderJoined, RequestInterruption
    <3> QED
      BY <3>1 DEF HandlerInv, Handshake, WatchedOpen
  <2>3. CASE StopNext /\ Unrelated
    BY <2>3, StopStep
  <2>4. CASE CloseFds
    <3>1. stop = "none" /\ UNCHANGED handlerVars
      BY <2>4 DEF CloseFds
    <3> QED
      BY <3>1 DEF HandlerInv, Handshake, WatchedOpen, handlerVars
  <2> QED
    BY <1>3, <2>1, <2>2, <2>3, <2>4 DEF MainThread
<1>4. CASE PageHears
  BY <1>0, <1>4 DEF PageHears, cameraVars
<1>5. CASE Users
  <2>1. ASSUME NEW cam \in Cameras, OpenCamera(cam) PROVE HandlerInv'
    BY <2>1, OpenStep
  <2>2. CASE CloseCamera \/ SliderReleased
    BY <1>0, <2>2 DEF CloseCamera, EndRereader, SliderReleased, cameraVars
  <2>3. ASSUME NEW c \in Controls, NEW v \in Values,
               \/ SetEnumerationControlValue(c, v) \/ SetEnumerationControlValueIntList(c, v)
               \/ SliderMoves(c, v) \/ SetAuto(c, v)
               \/ \E e \in Values : PageSets(c, e, v)
        PROVE HandlerInv'
    BY <1>0, <2>3 DEF SetEnumerationControlValue, SetEnumerationControlValueIntList,
         SetsInWindow, SliderMoves, PageSets, SetAuto, UserActs, cameraVars
  <2> QED
    BY <1>5, <2>1, <2>2, <2>3 DEF Users
<1>6. CASE Devices
  <2>1. UNCHANGED handlerVars /\ UNCHANGED openFds
    BY <1>6 DEF Devices, DeviceChanges, Unplugged, DeviceFails, cameraVars
  <2> QED
    BY <1>0, <2>1
<1>7. CASE UNCHANGED vars
  BY <1>0, <1>7 DEF vars, cameraVars
<1> QED
  BY <1>1, <1>2, <1>3, <1>4, <1>5, <1>6, <1>7 DEF Next

(* Stop touches m_Fds only when the thread has left its loop for good.     *)
THEOREM StopIsApart == Spec => []StopAfterRun
<1>1. HandlerInv => StopAfterRun
  BY DEF HandlerInv, Handshake, StopAfterRun
<1> QED
  BY <1>1, HandlerInvInit, HandlerInvStep, PTL DEF Spec

(* The thread never polls a descriptor that has been closed. *)
THEOREM PolledDescriptorsAreOpen == Spec => []PolledFdsOpen
<1>1. HandlerInv => PolledFdsOpen
  BY DEF HandlerInv, Handshake, WatchedOpen, PolledFdsOpen
<1> QED
  BY <1>1, HandlerInvInit, HandlerInvStep, PTL DEF Spec

-----------------------------------------------------------------------------
(* Types. *)

EventType == [kind : {"changed", "reread"}, id : Controls, val : Values]
MsgType ==
  [kind : {"record", "value", "opened", "closed"}, id : Controls, val : Values \cup {Emptied}]
DragType == [id : Controls, val : Values, on : BOOLEAN]

PendingType ==
  /\ pending = [f \in Fds |-> pending[f]]
  /\ \A f \in Fds : DOMAIN pending[f] \subseteq Controls
  /\ \A f \in Fds : \A c \in DOMAIN pending[f] : pending[f][c] \in Values

QueueTypes ==
  /\ posted \in Seq(EventType) /\ wire \in Seq(MsgType)
  /\ drag \in DragType /\ asks \in BOOLEAN
  /\ PendingType

(* The records have their fields, a camera that has descriptors is one of  *)
(* the cameras, and every list of volatile controls is finite.             *)
ShapeInv ==
  /\ main = [pc |-> main.pc, todo |-> main.todo]
  /\ rereader = [pc |-> rereader.pc, left |-> rereader.left]
  /\ openFds # {} => dev \in Cameras /\ openFds \in {Opened(dev), Opened(dev) \ {Video}}
  /\ \A f \in Fds : IsFiniteSet(volatiles[f])

TypeInv == DevicesTypeOK /\ QueueTypes /\ ShapeInv

LEMMA TypeInvInit == Init => TypeInv
<1> SUFFICES ASSUME Init PROVE TypeInv
  OBVIOUS
<1>1. AnyValue \in Values /\ AnyControl \in Controls
  BY ValuesAssumption DEF AnyValue, AnyControl
<1>2. HandlerTypeOK
  <2>1. watched = <<>> /\ run = [pc |-> "none", pfds |-> {}] /\ counter = 0 /\ stop = "none"
    BY DEF Init, NoHandler, NotPolling
  <2>2. interrupted \in BOOLEAN
    BY DEF Init, NoHandler
  <2>3. subscribed = {} /\ failed = {} /\ watched \in Seq(Fds) /\ counter \in 0 .. MaxCounter
    BY <2>1, CounterAssumption DEF Init
  <2> QED
    BY <2>1, <2>2, <2>3 DEF HandlerTypeOK
<1>3. DevicesTypeOK
  BY <1>1, <1>2 DEF Init, DevicesTypeOK, NotRereading, Idle, EmptyPanel
<1>4. PendingType
  BY DEF Init, PendingType, NoEvents
<1>5. QueueTypes
  <2>1. FALSE \in BOOLEAN
    OBVIOUS
  <2>2. NoDrag \in DragType
    BY <1>1, <2>1 DEF NoDrag, DragType
  <2>3. asks \in BOOLEAN
    BY DEF Init
  <2>4. posted = <<>> /\ wire = <<>> /\ drag = NoDrag
    BY DEF Init
  <2> QED
    BY <1>4, <2>2, <2>3, <2>4 DEF QueueTypes
<1>6. ShapeInv
  BY FS_EmptySet DEF Init, ShapeInv, Idle, NotRereading
<1> QED
  BY <1>3, <1>5, <1>6 DEF TypeInv

(* What can be read or set belongs to the open camera. *)
LEMMA IoOkTypes ==
  ASSUME TypeInv, NEW f, NEW c, IoOk(f, c)
  PROVE  /\ f \in Fds /\ c \in Controls /\ f \in openFds /\ f \notin failed
         /\ dev \in Cameras
         /\ \E i \in DOMAIN Layout[dev] : Layout[dev][i] = <<f, c>>
<1>1. f \in openFds /\ f \notin failed /\ openFds \subseteq Fds
  BY DEF TypeInv, DevicesTypeOK, IoOk
<1>2. dev \in Cameras
  BY <1>1 DEF TypeInv, ShapeInv
<1>3. PICK i \in DOMAIN Layout[dev] : Layout[dev][i] = <<f, c>>
  BY DEF IoOk
<1>4. Layout[dev] \in Seq(Fds \X Controls)
  BY <1>2, LayoutAssumption
<1>5. Layout[dev][i] \in Fds \X Controls
  BY <1>3, <1>4
<1> QED
  BY <1>1, <1>2, <1>3, <1>5

LEMMA PassTypes ==
  ASSUME TypeInv, NEW c \in Controls, NEW v \in Values, NEW b \in BOOLEAN,
         PassData(c, v, b) \/ PassExtControl(c, v)
  PROVE  /\ panel' \in [Controls -> Values \cup {NoWidget, Emptied}]
         /\ wire' \in Seq(MsgType)
<1>1. Shows(c, v, b) \in Values \cup {Emptied}
  BY DEF Shows
<1>2. /\ panel \in [Controls -> Values \cup {NoWidget, Emptied}]
      /\ wire \in Seq(MsgType)
  BY DEF TypeInv, DevicesTypeOK, QueueTypes
<1>3. ASSUME NEW m \in MsgType, Sends(m) PROVE wire' \in Seq(MsgType)
  BY <1>2, <1>3 DEF Sends
<1>4. Msg("record", c, Shows(c, v, b)) \in MsgType /\ Msg("value", c, v) \in MsgType
  BY <1>1 DEF Msg, MsgType
<1>5. CASE PassData(c, v, b)
  BY <1>1, <1>2, <1>3, <1>4, <1>5 DEF PassData, PassToWindow, PassToPage
<1>6. CASE PassExtControl(c, v)
  BY <1>2, <1>3, <1>4, <1>6 DEF PassExtControl
<1> QED
  BY <1>5, <1>6

LEMMA SetTypes ==
  ASSUME TypeInv, NEW c \in Controls, NEW v \in Values, NEW b \in BOOLEAN, SetExtControl(c, v, b)
  PROVE  value' \in [Controls -> Values] /\ PendingType'
<1>1. value \in [Controls -> Values] /\ PendingType
  BY DEF TypeInv, DevicesTypeOK, QueueTypes
<1>2. CASE UNCHANGED <<value, pending>>
  BY <1>1, <1>2 DEF PendingType
<1>3. CASE IoOk(ctlFd[c], c) /\ ValueSet(c, v)
  <2> DEFINE f == ctlFd[c]
  <2>1. f \in Fds /\ value' \in [Controls -> Values]
    BY <1>1, <1>3, IoOkTypes DEF ValueSet
  <2> HIDE DEF f
  <2>2. CASE pending' = pending
    BY <1>1, <2>1, <2>2 DEF PendingType
  <2>3. CASE pending' = [pending EXCEPT ![f] =
                           [d \in DOMAIN pending[f] \cup {c} |-> IF d = c THEN v ELSE pending[f][d]]]
    BY <1>1, <2>1, <2>3 DEF PendingType
  <2> QED
    BY <1>3, <2>1, <2>2, <2>3 DEF ValueSet, WithEvent, f
<1> QED
  BY <1>2, <1>3 DEF SetExtControl

(* The handler's thread and the event queues. *)
LEMMA HandlerTypesKept ==
  ASSUME TypeInv, HandlerInv, HandlerThread \/ (StopNext /\ Unrelated)
  PROVE  TypeInv'
<1>a. HandlerTypeOK /\ posted \in Seq(EventType) /\ PendingType
  BY DEF TypeInv, DevicesTypeOK, QueueTypes
<1>b. ASSUME HandlerTypeOK', posted' \in Seq(EventType), PendingType' PROVE TypeInv'
  BY <1>b DEF TypeInv, DevicesTypeOK, QueueTypes, ShapeInv, HandlerThread, Unrelated, cameraVars,
     panelVars
<1> USE DEF driverVars, NotPolling
<1>1. CASE RunLoops
  BY <1>1, <1>a, <1>b DEF RunLoops, HandlerTypeOK, PendingType
<1>2. CASE RunPolls
  <2>1. Reported \subseteq [at : Nat \ {0}, fd : Fds, err : BOOLEAN, pri : BOOLEAN]
    <3>1. \A i \in DOMAIN watched : i \in Nat \ {0} /\ watched[i] \in Fds
      BY <1>a DEF HandlerTypeOK
    <3>2. \A i \in DOMAIN watched :
            Entry(i) \in [at : Nat \ {0}, fd : Fds, err : BOOLEAN, pri : BOOLEAN]
      BY <3>1 DEF Entry
    <3> QED
      BY <3>2 DEF Reported
  <2>2. run'.pc \in {"loop", "handle"}
        /\ run'.pfds \subseteq [at : Nat \ {0}, fd : Fds, err : BOOLEAN, pri : BOOLEAN]
    BY <1>2, <2>1 DEF RunPolls
  <2> QED
    BY <1>2, <1>a, <1>b, <2>2 DEF RunPolls, HandlerTypeOK, PendingType
<1>3. CASE RunHandles
  <2>1. PICK e \in run.pfds :
          /\ run' = IF run.pfds = {e} THEN NotPolling("loop") ELSE [run EXCEPT !.pfds = @ \ {e}]
          /\ IF e.pri THEN DequeuesEvent(e.fd) ELSE UNCHANGED <<pending, posted>>
    BY <1>3 DEF RunHandles
  <2>2. run.pfds \subseteq [at : Nat \ {0}, fd : Fds, err : BOOLEAN, pri : BOOLEAN] /\ run.pc = "handle"
        /\ run = [pc |-> run.pc, pfds |-> run.pfds]
    BY <1>3, <1>a DEF RunHandles, HandlerTypeOK, HandlerInv, Handshake
  <2>3. run'.pc \in {"loop", "handle"}
        /\ run'.pfds \subseteq [at : Nat \ {0}, fd : Fds, err : BOOLEAN, pri : BOOLEAN]
    BY <2>1, <2>2
  <2>4. posted' \in Seq(EventType) /\ PendingType'
    <3>1. CASE UNCHANGED <<pending, posted>>
      BY <1>a, <3>1 DEF PendingType
    <3>2. ASSUME NEW c \in DOMAIN pending[e.fd],
                 pending' = [pending EXCEPT ![e.fd] =
                              [d \in DOMAIN pending[e.fd] \ {c} |-> pending[e.fd][d]]],
                 posted' = Append(posted, Event("changed", c, pending[e.fd][c]))
          PROVE  posted' \in Seq(EventType) /\ PendingType'
      <4>1. e.fd \in Fds
        BY <2>2
      <4>2. c \in Controls /\ pending[e.fd][c] \in Values
        BY <1>a, <3>2, <4>1 DEF PendingType
      <4>3. Event("changed", c, pending[e.fd][c]) \in EventType
        BY <4>2 DEF Event, EventType
      <4>4. posted' \in Seq(EventType)
        BY <1>a, <3>2, <4>3
      <4>5. PendingType'
        BY <1>a, <3>2, <4>1 DEF PendingType
      <4> QED
        BY <4>4, <4>5
    <3> QED
      BY <2>1, <3>1, <3>2 DEF DequeuesEvent
  <2>5. watched' \in Seq(Fds) /\ UNCHANGED <<counter, interrupted, stop, subscribed, failed>>
    BY <1>3, HandlerThreadStep DEF RunHandles, HandlerInv, WatchedOpen, HandlerThread, StopNext,
       StopWritesOne, StopWritesMax, StopReads, StopUnsubscribes, Deleted
  <2> QED
    BY <1>a, <1>b, <2>3, <2>4, <2>5 DEF HandlerTypeOK
<1>4. CASE RunDrains
  BY <1>4, <1>a, <1>b, CounterAssumption DEF RunDrains, HandlerTypeOK, PendingType
<1>5. CASE StopWritesOne
  <2>1. counter' \in 0 .. MaxCounter
    BY <1>5, CounterAssumption DEF StopWritesOne, HandlerInv, Handshake
  <2> QED
    BY <1>5, <1>a, <1>b, <2>1 DEF StopWritesOne, HandlerTypeOK, PendingType
<1>6. CASE StopWritesMax
  <2>1. counter' \in 0 .. MaxCounter
    BY <1>6, <1>a, CounterAssumption DEF StopWritesMax, HandlerTypeOK
  <2> QED
    BY <1>6, <1>a, <1>b, <2>1 DEF StopWritesMax, HandlerTypeOK, PendingType
<1>7. CASE StopReads
  BY <1>7, <1>a, <1>b, CounterAssumption DEF StopReads, HandlerTypeOK, PendingType
<1>8. CASE StopUnsubscribes
  <2>1. PendingType'
    BY <1>8, <1>a DEF StopUnsubscribes, PendingType, NoEvents
  <2> QED
    BY <1>8, <1>a, <1>b, <2>1 DEF StopUnsubscribes, HandlerTypeOK
<1>9. CASE Deleted
  <2>1. /\ watched' = <<>> /\ run' = [pc |-> "none", pfds |-> {}] /\ counter' = 0 /\ stop' = "none"
        /\ UNCHANGED <<posted, subscribed, pending, failed>>
    BY <1>9 DEF Deleted
  <2>2. interrupted' \in BOOLEAN
    BY <1>9 DEF Deleted
  <2>3. HandlerTypeOK'
    BY <1>a, <2>1, <2>2, CounterAssumption DEF HandlerTypeOK
  <2> QED
    BY <1>a, <1>b, <2>1, <2>3 DEF PendingType
<1> QED
  BY <1>1, <1>2, <1>3, <1>4, <1>5, <1>6, <1>7, <1>8, <1>9 DEF HandlerThread, RunNext, StopNext

LEMMA OpenTypes == ASSUME TypeInv, NEW cam \in Cameras, OpenCamera(cam) PROVE TypeInv'
<1>a. DevicesTypeOK /\ QueueTypes /\ ShapeInv /\ HandlerTypeOK
  BY DEF TypeInv, DevicesTypeOK
<1>b. UNCHANGED <<subscribed, pending, failed, posted, front, ctlFd, volatiles, panel, misled,
                  drag, asks>>
  BY DEF OpenCamera, driverVars
<1>c. PendingType' /\ drag' \in DragType /\ asks' \in BOOLEAN /\ posted' \in Seq(EventType)
  BY <1>a, <1>b DEF QueueTypes, PendingType
<1>1. CASE Terminates
  <2>1. /\ main' = [pc |-> "terminated", todo |-> <<>>]
        /\ UNCHANGED <<handlerVars, dev, openFds, rereader, promised, value, wire>>
    BY <1>1 DEF Terminates
  <2>2. HandlerTypeOK'
    BY <1>a, <1>b, <2>1 DEF HandlerTypeOK, handlerVars
  <2> QED
    BY <1>a, <1>b, <1>c, <2>1, <2>2 DEF TypeInv, DevicesTypeOK, QueueTypes, ShapeInv
<1>2. CASE OpenSucceeds(cam) \/ OpenFails(cam)
  <2>1. SubDevices[cam] \in Seq(Fds \ {Video})
    BY LayoutAssumption
  <2>2. Opened(cam) \subseteq Fds /\ Append(SubDevices[cam], Video) \in Seq(Fds)
        /\ SubDevices[cam] \in Seq(Fds)
    BY <2>1, VideoAssumption DEF Opened
  <2>3. PICK fds \in Seq(Fds) : Started(fds)
    BY <1>2, <2>2 DEF OpenSucceeds, OpenFails
  <2>4. /\ watched' \in Seq(Fds) /\ run' = [pc |-> "loop", pfds |-> {}] /\ counter' = 0
        /\ stop' = "idle"
    BY <2>3 DEF Started, NotPolling
  <2>5. interrupted' \in BOOLEAN
    BY <2>3 DEF Started
  <2>6. HandlerTypeOK'
    BY <1>a, <1>b, <2>4, <2>5, CounterAssumption DEF HandlerTypeOK
  <2>7. rereader' = [pc |-> "wait", left |-> {}]
    BY <1>2 DEF OpenSucceeds, OpenFails, ThreadStarted, NotRereading
  <2>8. dev' = cam /\ openFds' \in {Opened(cam), Opened(cam) \ {Video}}
    BY <1>2 DEF OpenSucceeds, OpenFails
  <2>9. main' = [pc |-> main'.pc, todo |-> main'.todo] /\ main'.pc \in {"idle", "subscribe", "dialog"}
    BY <1>2 DEF OpenSucceeds, OpenFails, EnumFrom, AfterFailedOpen, Idle
  <2>10. AnyValue \in Values /\ AnyControl \in Controls
    BY ValuesAssumption DEF AnyValue, AnyControl
  <2>11. value' \in [Controls -> Values]
    BY <1>2, <1>a, <2>10 DEF OpenSucceeds, OpenFails, DevicesTypeOK
  <2>12. wire' \in Seq(MsgType)
    <3>1. wire \in Seq(MsgType)
      BY <1>a DEF QueueTypes
    <3>2. Msg("opened", AnyControl, AnyValue) \in MsgType
      BY <2>10 DEF Msg, MsgType
    <3> QED
      BY <1>2, <3>1, <3>2 DEF OpenSucceeds, OpenFails, Sends
  <2>13. DevicesTypeOK'
    BY <1>a, <1>b, <2>2, <2>6, <2>7, <2>8, <2>9, <2>11 DEF DevicesTypeOK
  <2>14. ShapeInv'
    BY <1>a, <1>b, <2>7, <2>8, <2>9 DEF ShapeInv
  <2> QED
    BY <1>c, <2>12, <2>13, <2>14 DEF TypeInv, QueueTypes
<1> QED
  BY <1>1, <1>2 DEF OpenCamera

(* The entry the enumeration has come to exists when its device answers. *)
LEMMA EnumTypes == ASSUME TypeInv, EnumSubscribes \/ EnumReads PROVE TypeInv'
<1> DEFINE f == main.todo[1][1]
           c == main.todo[1][2]
<1>a. DevicesTypeOK /\ QueueTypes /\ ShapeInv /\ HandlerTypeOK
  BY DEF TypeInv, DevicesTypeOK
<1>b. /\ UNCHANGED <<handlerVars, pending, failed, posted, front, dev, openFds, rereader,
                     promised, value, drag, asks>>
  BY DEF EnumSubscribes, EnumReads, driverVars, panelVars
<1>c. PendingType' /\ drag' \in DragType /\ asks' \in BOOLEAN /\ posted' \in Seq(EventType)
  BY <1>a, <1>b DEF QueueTypes, PendingType
<1>d. main' = [pc |-> main'.pc, todo |-> main'.todo] /\ main'.pc \in {"idle", "subscribe", "read"}
  <2>1. main' = [main EXCEPT !.pc = "read"] \/ \E todo : main' = EnumFrom(todo)
    BY DEF EnumSubscribes, EnumReads
  <2> QED
    BY <1>a, <2>1 DEF EnumFrom, Idle, ShapeInv
<1>e. ASSUME subscribed' \subseteq Fds \X Controls, ctlFd' \in [Controls -> Fds \cup {Fds0}],
             volatiles' \in [Fds -> SUBSET Controls], \A g \in Fds : IsFiniteSet(volatiles'[g]),
             panel' \in [Controls -> Values \cup {NoWidget, Emptied}], misled' \subseteq Controls,
             wire' \in Seq(MsgType)
      PROVE  TypeInv'
  <2>1. HandlerTypeOK'
    BY <1>a, <1>b, <1>e DEF HandlerTypeOK, handlerVars
  <2>2. DevicesTypeOK'
    BY <1>a, <1>b, <1>d, <1>e, <2>1 DEF DevicesTypeOK
  <2>3. ShapeInv'
    BY <1>a, <1>b, <1>d, <1>e DEF ShapeInv
  <2> QED
    BY <1>c, <1>e, <2>2, <2>3 DEF TypeInv, QueueTypes
<1>f. /\ subscribed \subseteq Fds \X Controls /\ ctlFd \in [Controls -> Fds \cup {Fds0}]
      /\ volatiles \in [Fds -> SUBSET Controls] /\ \A g \in Fds : IsFiniteSet(volatiles[g])
      /\ panel \in [Controls -> Values \cup {NoWidget, Emptied}] /\ misled \subseteq Controls
      /\ wire \in Seq(MsgType) /\ value \in [Controls -> Values]
  BY <1>a DEF DevicesTypeOK, QueueTypes, ShapeInv, HandlerTypeOK
<1>g. IoOk(f, c) => f \in Fds /\ c \in Controls
  BY IoOkTypes
<1> HIDE DEF f, c
<1>1. CASE EnumSubscribes
  <2>0. UNCHANGED <<ctlFd, panel, misled, wire>>
    BY <1>1 DEF EnumSubscribes, panelVars
  <2>1. CASE IoOk(f, c)
    <3>1. /\ volatiles' = IF Kind[c] = "volatile" THEN [volatiles EXCEPT ![f] = @ \cup {c}] ELSE volatiles
          /\ subscribed' = IF \E i \in DOMAIN watched : watched[i] = f
                           THEN subscribed \cup {<<f, c>>} ELSE subscribed
      BY <1>1, <2>1 DEF EnumSubscribes, f, c, SubscribeControl
    <3>2. subscribed' \subseteq Fds \X Controls
      BY <1>f, <1>g, <2>1, <3>1
    <3>3. volatiles' \in [Fds -> SUBSET Controls]
      BY <1>f, <1>g, <2>1, <3>1
    <3>4. ASSUME NEW g \in Fds PROVE IsFiniteSet(volatiles'[g])
      <4>1. volatiles'[g] \in {volatiles[g], volatiles[g] \cup {c}} /\ IsFiniteSet(volatiles[g])
        BY <1>f, <1>g, <2>1, <3>1
      <4> QED
        BY <4>1, FS_AddElement
    <3> QED
      BY <1>e, <1>f, <2>0, <3>2, <3>3, <3>4
  <2>2. CASE ~IoOk(f, c)
    <3>1. UNCHANGED <<volatiles, subscribed>>
      BY <1>1, <2>2 DEF EnumSubscribes, f, c
    <3> QED
      BY <1>e, <1>f, <2>0, <3>1
  <2> QED
    BY <2>1, <2>2
<1>2. CASE EnumReads
  <2>0. UNCHANGED <<subscribed, volatiles>>
    BY <1>2 DEF EnumReads, driverVars
  <2>1. CASE IoOk(f, c)
    <3>1. ctlFd' = [ctlFd EXCEPT ![c] = f] /\ PassData(c, value[c], TRUE) /\ misled' = misled \ {c}
      BY <1>2, <2>1 DEF EnumReads, f, c
    <3>2. ctlFd' \in [Controls -> Fds \cup {Fds0}] /\ misled' \subseteq Controls
      BY <1>f, <1>g, <2>1, <3>1
    <3>3. value[c] \in Values /\ TRUE \in BOOLEAN
      BY <1>f, <1>g, <2>1
    <3>4. panel' \in [Controls -> Values \cup {NoWidget, Emptied}] /\ wire' \in Seq(MsgType)
      BY <1>g, <2>1, <3>1, <3>3, PassTypes
    <3> QED
      BY <1>e, <1>f, <2>0, <3>2, <3>4
  <2>2. CASE ~IoOk(f, c)
    <3>1. UNCHANGED <<ctlFd, panel, wire, misled>>
      BY <1>2, <2>2 DEF EnumReads, f, c
    <3> QED
      BY <1>e, <1>f, <2>0, <3>1
  <2> QED
    BY <2>1, <2>2
<1> QED
  BY <1>1, <1>2

(* What the main thread and the page do with what they receive. *)
LEMMA ReceiveTypes == ASSUME TypeInv, Delivers \/ PageHears \/ PageEnumerates PROVE TypeInv'
<1>a. DevicesTypeOK /\ QueueTypes /\ ShapeInv /\ HandlerTypeOK
  BY DEF TypeInv, DevicesTypeOK
<1>b. UNCHANGED <<handlerVars, driverVars, front, cameraVars, value, drag>>
  BY DEF Delivers, PageHears, PageEnumerates
<1>c. HandlerTypeOK' /\ PendingType' /\ drag' \in DragType
  BY <1>a, <1>b DEF HandlerTypeOK, QueueTypes, PendingType, handlerVars, driverVars
<1>d. ASSUME panel' \in [Controls -> Values \cup {NoWidget, Emptied}], misled' \subseteq Controls,
             wire' \in Seq(MsgType), posted' \in Seq(EventType), asks' \in BOOLEAN,
             main' = [pc |-> main'.pc, todo |-> main'.todo],
             main'.pc \in {"idle", "subscribe", "read", "dialog", "join", "delete", "terminated"}
      PROVE  TypeInv'
  <2>1. DevicesTypeOK'
    BY <1>a, <1>b, <1>c, <1>d DEF DevicesTypeOK, cameraVars
  <2>2. ShapeInv'
    BY <1>a, <1>b, <1>d DEF ShapeInv, cameraVars
  <2> QED
    BY <1>c, <1>d, <2>1, <2>2 DEF TypeInv, QueueTypes
<1>e. /\ panel \in [Controls -> Values \cup {NoWidget, Emptied}] /\ misled \subseteq Controls
      /\ wire \in Seq(MsgType) /\ posted \in Seq(EventType)
      /\ main = [pc |-> main.pc, todo |-> main.todo]
      /\ main.pc \in {"idle", "subscribe", "read", "dialog", "join", "delete", "terminated"}
  BY <1>a DEF DevicesTypeOK, QueueTypes, ShapeInv
<1>f. asks \in BOOLEAN
  BY <1>a DEF QueueTypes
<1>1. CASE Delivers
  <2> DEFINE e == Head(posted)
  <2>1. posted # <<>> /\ posted' = Tail(posted) /\ UNCHANGED <<main, asks>>
    BY <1>1 DEF Delivers
  <2>2. e \in EventType /\ Tail(posted) \in Seq(EventType)
    BY <1>e, <2>1
  <2>3. e.id \in Controls /\ e.val \in Values /\ FALSE \in BOOLEAN
    BY <2>2 DEF EventType
  <2>4. \/ PassData(e.id, e.val, FALSE) /\ misled' = misled \ {e.id}
        \/ PassExtControl(e.id, e.val) /\ misled' = misled
    BY <1>1 DEF Delivers
  <2> HIDE DEF e
  <2>5. panel' \in [Controls -> Values \cup {NoWidget, Emptied}] /\ wire' \in Seq(MsgType)
    BY <2>3, <2>4, PassTypes
  <2>6. misled' \subseteq Controls
    BY <1>e, <2>4
  <2> QED
    BY <1>d, <1>e, <1>f, <2>1, <2>2, <2>5, <2>6
<1>2. CASE PageHears
  <2> DEFINE msg == Head(wire)
  <2>1. wire # <<>> /\ wire' = Tail(wire) /\ UNCHANGED <<main, posted, misled>>
    BY <1>2 DEF PageHears
  <2>2. msg \in MsgType /\ Tail(wire) \in Seq(MsgType)
    BY <1>e, <2>1
  <2>3. msg.id \in Controls /\ msg.val \in Values \cup {Emptied}
    BY <2>2 DEF MsgType
  <2>4. panel' \in {EmptyPanel, [panel EXCEPT ![msg.id] = msg.val],
                    [panel EXCEPT ![msg.id] = IF @ \in {NoWidget, Emptied} THEN @ ELSE msg.val]}
    BY <1>2 DEF PageHears
  <2>5. panel' \in [Controls -> Values \cup {NoWidget, Emptied}]
    BY <1>e, <2>3, <2>4 DEF EmptyPanel
  <2>6. asks' \in BOOLEAN
    BY <1>2 DEF PageHears
  <2> QED
    BY <1>d, <1>e, <2>1, <2>2, <2>5, <2>6
<1>3. CASE PageEnumerates
  <2>1. UNCHANGED <<posted, panel, misled, wire>>
    BY <1>3 DEF PageEnumerates
  <2>2. main' = [pc |-> main'.pc, todo |-> main'.todo] /\ main'.pc \in {"idle", "subscribe"}
    BY <1>3 DEF PageEnumerates, Rereads, EnumFrom, Idle
  <2>3. asks' \in BOOLEAN
    BY <1>3 DEF PageEnumerates
  <2> QED
    BY <1>d, <1>e, <2>1, <2>2, <2>3
<1> QED
  BY <1>1, <1>2, <1>3

(* Closing. *)
LEMMA CloseTypes ==
  ASSUME TypeInv, CloseCamera \/ DialogEnds \/ RereaderJoined \/ CloseFds PROVE TypeInv'
<1>a. DevicesTypeOK /\ QueueTypes /\ ShapeInv /\ HandlerTypeOK
  BY DEF TypeInv, DevicesTypeOK
<1>1. CASE CloseCamera \/ DialogEnds
  <2>1. /\ main' = [pc |-> "join", todo |-> <<>>]
        /\ UNCHANGED <<handlerVars, driverVars, posted, front, dev, openFds, ctlFd, volatiles,
                       rereader, value, panelVars>>
    BY <1>1 DEF CloseCamera, DialogEnds, EndRereader
  <2>2. HandlerTypeOK' /\ QueueTypes'
    BY <1>a, <2>1 DEF HandlerTypeOK, QueueTypes, PendingType, handlerVars, driverVars, panelVars
  <2> QED
    BY <1>a, <2>1, <2>2 DEF TypeInv, DevicesTypeOK, ShapeInv, panelVars
<1>2. CASE RereaderJoined
  <2>1. /\ rereader' = [pc |-> "none", left |-> {}] /\ main' = [main EXCEPT !.pc = "delete"]
        /\ stop' = "write1"
        /\ UNCHANGED <<watched, run, counter, subscribed, pending, failed, posted, front, dev,
                       openFds, ctlFd, volatiles, promised, value, panel, misled, drag, wire, asks>>
    BY <1>2 DEF RereaderJoined, RequestInterruption, NotRereading, driverVars, panelVars
  <2>2. interrupted' \in BOOLEAN
    BY <1>2 DEF RereaderJoined, RequestInterruption
  <2>3. HandlerTypeOK' /\ QueueTypes'
    BY <1>a, <2>1, <2>2 DEF HandlerTypeOK, QueueTypes, PendingType
  <2>4. main' = [pc |-> main'.pc, todo |-> main'.todo] /\ main'.pc = "delete"
    BY <1>a, <2>1 DEF ShapeInv
  <2> QED
    BY <1>a, <2>1, <2>3, <2>4 DEF TypeInv, DevicesTypeOK, ShapeInv
<1>3. CASE CloseFds
  <2>1. /\ main' = [pc |-> "idle", todo |-> <<>>] /\ dev' = NoCamera /\ openFds' = {}
        /\ subscribed' = {} /\ pending' = [f \in Fds |-> NoEvents] /\ failed' = {} /\ misled' = {}
        /\ UNCHANGED <<handlerVars, posted, front, ctlFd, volatiles, rereader, value, drag, asks>>
    BY <1>3 DEF CloseFds, Idle
  <2>2. HandlerTypeOK'
    BY <1>a, <2>1 DEF HandlerTypeOK, handlerVars
  <2>3. PendingType'
    BY <2>1 DEF PendingType, NoEvents
  <2>4. panel' \in [Controls -> Values \cup {NoWidget, Emptied}]
    <3>1. panel \in [Controls -> Values \cup {NoWidget, Emptied}] /\ panel' \in {panel, EmptyPanel}
      BY <1>3, <1>a DEF CloseFds, DevicesTypeOK
    <3> QED
      BY <3>1 DEF EmptyPanel
  <2>5. wire' \in Seq(MsgType)
    <3>1. AnyValue \in Values /\ AnyControl \in Controls
      BY ValuesAssumption DEF AnyValue, AnyControl
    <3>2. Msg("closed", AnyControl, AnyValue) \in MsgType
      BY <3>1 DEF Msg, MsgType
    <3>3. wire \in Seq(MsgType)
      BY <1>a DEF QueueTypes
    <3> QED
      BY <1>3, <3>2, <3>3 DEF CloseFds, Sends
  <2>6. drag' \in DragType /\ asks' \in BOOLEAN /\ posted' \in Seq(EventType)
    BY <1>a, <2>1 DEF QueueTypes
  <2>7. DevicesTypeOK'
    BY <1>a, <2>1, <2>2, <2>4 DEF DevicesTypeOK
  <2>8. ShapeInv'
    BY <1>a, <2>1 DEF ShapeInv
  <2> QED
    BY <2>3, <2>5, <2>6, <2>7, <2>8 DEF TypeInv, QueueTypes
<1> QED
  BY <1>1, <1>2, <1>3

(* A value is set, by the user or by the device. *)
LEMMA ValueTypes ==
  ASSUME TypeInv, value' \in [Controls -> Values], PendingType',
         main' = [pc |-> main'.pc, todo |-> main'.todo],
         main'.pc \in {"idle", "subscribe", "read", "dialog", "join", "delete", "terminated"},
         panel' \in [Controls -> Values \cup {NoWidget, Emptied}], misled' \subseteq Controls,
         wire' \in Seq(MsgType), drag' \in DragType,
         UNCHANGED <<handlerVars, subscribed, failed, posted, front, cameraVars, asks>>
  PROVE  TypeInv'
<1>a. DevicesTypeOK /\ QueueTypes /\ ShapeInv /\ HandlerTypeOK
  BY DEF TypeInv, DevicesTypeOK
<1>1. HandlerTypeOK'
  BY <1>a DEF HandlerTypeOK, handlerVars
<1>2. DevicesTypeOK'
  BY <1>a, <1>1 DEF DevicesTypeOK, cameraVars
<1>3. posted' \in Seq(EventType) /\ asks' \in BOOLEAN
  BY <1>a DEF QueueTypes
<1>4. ShapeInv'
  BY <1>a DEF ShapeInv, cameraVars
<1> QED
  BY <1>2, <1>3, <1>4 DEF TypeInv, QueueTypes

LEMMA UserTypes ==
  ASSUME TypeInv, NEW c \in Controls, NEW v \in Values,
         \/ SetEnumerationControlValue(c, v) \/ SetEnumerationControlValueIntList(c, v)
         \/ SliderMoves(c, v) \/ SetAuto(c, v)
         \/ \E e \in Values : PageSets(c, e, v)
  PROVE  TypeInv'
<1>a. /\ panel \in [Controls -> Values \cup {NoWidget, Emptied}] /\ misled \subseteq Controls
      /\ wire \in Seq(MsgType) /\ drag \in DragType
      /\ main = [pc |-> main.pc, todo |-> main.todo]
      /\ main.pc \in {"idle", "subscribe", "read", "dialog", "join", "delete", "terminated"}
  BY DEF TypeInv, DevicesTypeOK, QueueTypes, ShapeInv
<1>b. /\ UNCHANGED <<handlerVars, subscribed, failed, posted, front, cameraVars, asks>>
      /\ \E accepted \in BOOLEAN : SetExtControl(c, v, accepted)
  BY DEF SetEnumerationControlValue, SetEnumerationControlValueIntList, SetsInWindow, SliderMoves,
     PageSets, SetAuto, UserActs
<1>c. value' \in [Controls -> Values] /\ PendingType'
  BY <1>b, SetTypes
<1>1. CASE SetsInWindow(c, v)
  <2>1. main' = Rereads /\ UNCHANGED <<panel, misled, drag, wire>>
    BY <1>1 DEF SetsInWindow
  <2>2. main' = [pc |-> main'.pc, todo |-> main'.todo] /\ main'.pc \in {"idle", "subscribe"}
    BY <2>1 DEF Rereads, EnumFrom, Idle
  <2> QED
    BY <1>a, <1>b, <1>c, <2>1, <2>2, ValueTypes
<1>2. CASE SliderMoves(c, v)
  <2>1. /\ panel' = [panel EXCEPT ![c] = v] /\ drag' = [id |-> c, val |-> v, on |-> TRUE]
        /\ UNCHANGED <<main, misled, wire>>
    BY <1>2 DEF SliderMoves
  <2>2. panel' \in [Controls -> Values \cup {NoWidget, Emptied}]
    BY <1>a, <2>1
  <2>3. TRUE \in BOOLEAN
    OBVIOUS
  <2>4. drag' \in DragType
    BY <2>1, <2>3 DEF DragType
  <2> QED
    BY <1>a, <1>b, <1>c, <2>1, <2>2, <2>4, ValueTypes
<1>3. ASSUME NEW e \in Values, PageSets(c, e, v) PROVE TypeInv'
  <2>1. UNCHANGED <<main, panel, misled, drag, wire>>
    BY <1>3 DEF PageSets
  <2> QED
    BY <1>a, <1>b, <1>c, <2>1, ValueTypes
<1>4. CASE SetAuto(c, v)
  <2>1. /\ PassData(c, v, FALSE) /\ misled' \in {misled, misled \cup {c}} /\ UNCHANGED <<main, drag>>
    BY <1>4 DEF SetAuto
  <2>2. FALSE \in BOOLEAN
    OBVIOUS
  <2>3. panel' \in [Controls -> Values \cup {NoWidget, Emptied}] /\ wire' \in Seq(MsgType)
    BY <2>1, <2>2, PassTypes
  <2>4. misled' \subseteq Controls
    BY <1>a, <2>1
  <2> QED
    BY <1>a, <1>b, <1>c, <2>1, <2>3, <2>4, ValueTypes
<1> QED
  BY <1>1, <1>2, <1>3, <1>4 DEF SetEnumerationControlValue, SetEnumerationControlValueIntList

LEMMA ReleaseTypes == ASSUME TypeInv, SliderReleased PROVE TypeInv'
<1>a. /\ panel \in [Controls -> Values \cup {NoWidget, Emptied}] /\ misled \subseteq Controls
      /\ wire \in Seq(MsgType) /\ drag \in DragType
  BY DEF TypeInv, DevicesTypeOK, QueueTypes
<1>b. drag.id \in Controls /\ drag.val \in Values
  BY <1>a DEF DragType
<1>c. value' \in [Controls -> Values] /\ PendingType'
  BY <1>b, SetTypes DEF SliderReleased
<1>1. AnyValue \in Values /\ AnyControl \in Controls /\ FALSE \in BOOLEAN
  BY ValuesAssumption DEF AnyValue, AnyControl
<1>2. NoDrag \in DragType
  BY <1>1 DEF NoDrag, DragType
<1>3. /\ drag' = NoDrag /\ main' = Rereads
      /\ UNCHANGED <<handlerVars, subscribed, failed, posted, front, cameraVars, panel, misled,
                     wire, asks>>
  BY DEF SliderReleased
<1>4. main' = [pc |-> main'.pc, todo |-> main'.todo] /\ main'.pc \in {"idle", "subscribe"}
  BY <1>3 DEF Rereads, EnumFrom, Idle
<1> QED
  BY <1>a, <1>c, <1>2, <1>3, <1>4, ValueTypes

LEMMA DeviceTypes == ASSUME TypeInv, Devices PROVE TypeInv'
<1>a. DevicesTypeOK /\ QueueTypes /\ ShapeInv /\ HandlerTypeOK
  BY DEF TypeInv, DevicesTypeOK
<1>1. ASSUME NEW f \in Fds, NEW c \in Controls, NEW v \in Values, DeviceChanges(f, c, v)
      PROVE  TypeInv'
  <2>1. /\ value' = [value EXCEPT ![c] = v]
        /\ pending' = pending \/ pending' = WithEvent(f, c, v)
        /\ UNCHANGED <<handlerVars, subscribed, failed, posted, front, cameraVars, main, panel, misled,
                       drag, wire, asks>>
    BY <1>1 DEF DeviceChanges
  <2>2. value' \in [Controls -> Values]
    BY <1>a, <2>1 DEF DevicesTypeOK
  <2>3. PendingType'
    <3>1. PendingType
      BY <1>a DEF QueueTypes
    <3>2. CASE pending' = pending
      BY <3>1, <3>2 DEF PendingType
    <3>3. CASE pending' = [pending EXCEPT ![f] =
                             [d \in DOMAIN pending[f] \cup {c} |-> IF d = c THEN v ELSE pending[f][d]]]
      BY <3>1, <3>3 DEF PendingType
    <3> QED
      BY <2>1, <3>2, <3>3 DEF WithEvent
  <2>4. /\ main' = [pc |-> main'.pc, todo |-> main'.todo]
        /\ main'.pc \in {"idle", "subscribe", "read", "dialog", "join", "delete", "terminated"}
        /\ panel' \in [Controls -> Values \cup {NoWidget, Emptied}] /\ misled' \subseteq Controls
        /\ wire' \in Seq(MsgType) /\ drag' \in DragType /\ UNCHANGED asks
    BY <1>a, <2>1 DEF DevicesTypeOK, QueueTypes, ShapeInv
  <2> QED
    BY <2>1, <2>2, <2>3, <2>4, ValueTypes
<1>2. ASSUME NEW f \in Fds, Unplugged(f) PROVE TypeInv'
  <2>1. /\ failed' = failed \cup {f}
        /\ UNCHANGED <<subscribed, pending, posted, handlerVars, front, cameraVars, value, main,
                       panelVars>>
    BY <1>2 DEF Unplugged, DeviceFails
  <2>2. HandlerTypeOK' /\ QueueTypes'
    BY <1>a, <2>1 DEF HandlerTypeOK, QueueTypes, PendingType, handlerVars, panelVars
  <2> QED
    BY <1>a, <2>1, <2>2 DEF TypeInv, DevicesTypeOK, ShapeInv, cameraVars, panelVars
<1> QED
  BY <1>1, <1>2 DEF Devices

LEMMA RereaderTypes == ASSUME TypeInv, Rereader PROVE TypeInv'
<1>a. DevicesTypeOK /\ QueueTypes /\ ShapeInv /\ HandlerTypeOK
  BY DEF TypeInv, DevicesTypeOK
<1>b. UNCHANGED <<handlerVars, driverVars, front, dev, openFds, ctlFd, volatiles, promised,
                  value, main, panelVars>>
  BY DEF Rereader, RereadBegins, RereadDevice, RereaderExits
<1>c. HandlerTypeOK' /\ PendingType' /\ drag' \in DragType /\ asks' \in BOOLEAN /\ wire' \in Seq(MsgType)
  BY <1>a, <1>b DEF HandlerTypeOK, QueueTypes, PendingType, handlerVars, driverVars, panelVars
<1>d. ASSUME rereader' = [pc |-> rereader'.pc, left |-> rereader'.left],
             rereader'.pc \in {"none", "wait", "read", "exited"}, rereader'.left \subseteq Fds,
             posted' \in Seq(EventType)
      PROVE  TypeInv'
  <2>1. DevicesTypeOK'
    BY <1>a, <1>b, <1>c, <1>d DEF DevicesTypeOK, panelVars
  <2>2. ShapeInv'
    BY <1>a, <1>b, <1>d DEF ShapeInv
  <2> QED
    BY <1>c, <1>d, <2>1, <2>2 DEF TypeInv, QueueTypes
<1>1. CASE RereadBegins \/ RereaderExits
  BY <1>1, <1>a, <1>d DEF RereadBegins, RereaderExits, NotRereading, QueueTypes
<1>2. ASSUME NEW f \in Fds, RereadDevice(f) PROVE TypeInv'
  <2>1. /\ rereader' = [pc |-> rereader'.pc, left |-> rereader'.left]
        /\ rereader'.pc \in {"wait", "read"} /\ rereader'.left \subseteq Fds
    BY <1>2, <1>a DEF RereadDevice, NotRereading, DevicesTypeOK, ShapeInv
  <2>2. CASE UNCHANGED posted
    BY <1>a, <1>d, <2>1, <2>2 DEF QueueTypes
  <2>3. CASE SendUpdates(volatiles[f])
    <3>1. PICK s \in [1 .. Cardinality(volatiles[f]) -> volatiles[f]] :
            posted' = posted \o [i \in DOMAIN s |-> Event("reread", s[i], value[s[i]])]
      BY <2>3 DEF SendUpdates
    <3> DEFINE t == [i \in DOMAIN s |-> Event("reread", s[i], value[s[i]])]
    <3>2. Cardinality(volatiles[f]) \in Nat /\ volatiles[f] \subseteq Controls
      BY <1>a, FS_CardinalityType DEF ShapeInv, DevicesTypeOK
    <3>3. \A i \in DOMAIN s : s[i] \in Controls /\ value[s[i]] \in Values
      BY <1>a, <3>2 DEF DevicesTypeOK
    <3>4. \A i \in DOMAIN s : Event("reread", s[i], value[s[i]]) \in EventType
      BY <3>3 DEF Event, EventType
    <3>5. t \in Seq(EventType)
      BY <3>2, <3>4
    <3>6. posted \in Seq(EventType)
      BY <1>a DEF QueueTypes
    <3> QED
      BY <1>d, <2>1, <3>1, <3>5, <3>6
  <2> QED
    BY <1>2, <2>2, <2>3 DEF RereadDevice
<1> QED
  BY <1>1, <1>2 DEF Rereader

LEMMA TypeInvStep == TypeInv /\ HandlerInv /\ [Next]_vars => TypeInv'
<1> SUFFICES ASSUME TypeInv, HandlerInv, [Next]_vars PROVE TypeInv'
  OBVIOUS
<1>1. CASE HandlerThread
  BY <1>1, HandlerTypesKept
<1>2. CASE Rereader
  BY <1>2, RereaderTypes
<1>3. CASE MainThread
  BY <1>3, EnumTypes, ReceiveTypes, CloseTypes, HandlerTypesKept DEF MainThread
<1>4. CASE PageHears
  BY <1>4, ReceiveTypes
<1>5. CASE Users
  BY <1>5, OpenTypes, CloseTypes, ReleaseTypes, UserTypes DEF Users
<1>6. CASE Devices
  BY <1>6, DeviceTypes
<1>7. CASE UNCHANGED vars
  <2>1. HandlerTypeOK' /\ QueueTypes'
    BY <1>7 DEF TypeInv, DevicesTypeOK, HandlerTypeOK, QueueTypes, PendingType, vars, handlerVars,
       driverVars, panelVars
  <2> QED
    BY <1>7, <2>1 DEF TypeInv, DevicesTypeOK, ShapeInv, vars, cameraVars, panelVars
<1> QED
  BY <1>1, <1>2, <1>3, <1>4, <1>5, <1>6, <1>7 DEF Next

-----------------------------------------------------------------------------
(* Opening and closing.  A camera that is open has its handler running     *)
(* until CloseDevice has joined the reader, and in the window a reader     *)
(* that still runs when the main thread is idle belongs to an open camera. *)
OpenInv ==
  /\ main.pc \in {"subscribe", "read"} => IsOpen
  /\ main.pc = "delete" => rereader.pc = "none"
  /\ main.pc \notin {"delete", "terminated"} /\ IsOpen => stop = "idle"
  /\ stop # "none" => run.pc # "none"
  /\ front = "window" /\ main.pc = "idle" /\ rereader.pc # "none" => IsOpen
  /\ front = "window" => main.pc # "terminated"

LEMMA OpenInvInit == Init => OpenInv
BY DEF Init, OpenInv, NoHandler, NotPolling, Idle, NotRereading, IsOpen

LEMMA OpenInvStep == TypeInv /\ OpenInv /\ [Next]_vars => OpenInv'
<1> SUFFICES ASSUME TypeInv, OpenInv, [Next]_vars PROVE OpenInv'
  OBVIOUS
<1> USE DEF OpenInv, IsOpen
<1>a. /\ main = [pc |-> main.pc, todo |-> main.todo]
      /\ rereader = [pc |-> rereader.pc, left |-> rereader.left]
  BY DEF TypeInv, ShapeInv
(* Enumerating changes only the control point, and only while it is open. *)
<1>b. ASSUME UNCHANGED <<openFds, rereader, handlerVars, front>>, main.pc \in {"idle", "subscribe", "read"},
             \/ main' \in {main, Rereads} /\ main.pc = "idle"
             \/ main'.pc \in {"idle", "subscribe", "read"} /\ main.pc \in {"subscribe", "read"}
      PROVE  OpenInv'
  <2>1. main' = Rereads => main'.pc = "idle" \/ (main'.pc = "subscribe" /\ IsOpen)
    BY DEF Rereads, EnumFrom, Idle
  <2> QED
    BY <1>b, <2>1 DEF handlerVars
<1>c. ASSUME UNCHANGED <<openFds, rereader, handlerVars, front, main>> PROVE OpenInv'
  BY <1>c DEF handlerVars
<1>1. CASE HandlerThread
  <2>1. UNCHANGED <<openFds, rereader, front, main, stop>>
    BY <1>1 DEF HandlerThread, Unrelated, cameraVars, RunNext, RunLoops, RunPolls, RunHandles, RunDrains
  <2>2. run.pc # "none" /\ (run'.pc = "none" => run' = run)
    <3>1. CASE RunHandles
      <4>1. PICK item \in run.pfds : run' = IF run.pfds = {item} THEN NotPolling("loop")
                                             ELSE [run EXCEPT !.pfds = @ \ {item}]
        BY <3>1 DEF RunHandles
      <4> QED
        BY <3>1, <4>1 DEF RunHandles, NotPolling
    <3> QED
      BY <1>1, <3>1 DEF HandlerThread, RunNext, RunLoops, RunPolls, RunDrains, NotPolling
  <2> QED
    BY <2>1, <2>2
<1>2. CASE Rereader
  <2>1. UNCHANGED <<openFds, handlerVars, front, main>>
    BY <1>2 DEF Rereader, RereadBegins, RereadDevice, RereaderExits
  <2>2. rereader.pc # "none"
    BY <1>2 DEF Rereader, RereadBegins, RereadDevice, RereaderExits
  <2> QED
    BY <2>1, <2>2 DEF handlerVars
<1>3. CASE EnumSubscribes \/ EnumReads
  <2>1. /\ UNCHANGED <<openFds, rereader, handlerVars, front>>
        /\ main.pc \in {"subscribe", "read"}
    BY <1>3 DEF EnumSubscribes, EnumReads
  <2>2. main' = [main EXCEPT !.pc = "read"] \/ \E todo : main' = EnumFrom(todo)
    BY <1>3 DEF EnumSubscribes, EnumReads
  <2>3. main'.pc \in {"idle", "subscribe", "read"}
    BY <1>a, <2>2 DEF EnumFrom, Idle
  <2> QED
    BY <1>b, <2>1, <2>3
<1>4. CASE Delivers \/ PageHears \/ Devices
  BY <1>4, <1>c DEF Delivers, PageHears, Devices, DeviceChanges, Unplugged, DeviceFails, cameraVars
<1>5. CASE PageEnumerates
  BY <1>5, <1>b DEF PageEnumerates, cameraVars
<1>6. CASE CloseCamera \/ DialogEnds
  <2>1. /\ main' = [pc |-> "join", todo |-> <<>>] /\ main.pc \in {"idle", "dialog"}
        /\ UNCHANGED <<handlerVars, front, openFds, rereader>>
    BY <1>6 DEF CloseCamera, DialogEnds, EndRereader
  <2> QED
    BY <2>1 DEF handlerVars
<1>7. CASE RereaderJoined
  BY <1>7, <1>a DEF RereaderJoined, RequestInterruption, NotRereading
<1>8. CASE StopNext /\ Unrelated
  <2>1. UNCHANGED <<openFds, rereader, front, main>>
    BY <1>8 DEF Unrelated, cameraVars
  <2>2. stop \notin {"none", "idle"} /\ stop' # "idle" /\ (stop' = "none" \/ run' = run)
    BY <1>8 DEF StopNext, StopWritesOne, StopWritesMax, StopReads, StopUnsubscribes, Deleted
  <2> QED
    BY <2>1, <2>2
<1>9. CASE CloseFds
  BY <1>9 DEF CloseFds, Idle, handlerVars
<1>10. ASSUME NEW cam \in Cameras, OpenCamera(cam) PROVE OpenInv'
  <2>1. main.pc = "idle" /\ ~IsOpen /\ UNCHANGED front
    BY <1>10 DEF OpenCamera
  <2>2. CASE Terminates /\ rereader.pc # "none"
    BY <2>1, <2>2 DEF Terminates, handlerVars
  <2>3. CASE OpenSucceeds(cam)
    <3>1. /\ Video \in openFds' /\ stop' = "idle" /\ run' = NotPolling("loop")
          /\ rereader' = NotRereading("wait") /\ main' = EnumFrom(Layout[cam])
      BY <2>3 DEF OpenSucceeds, Opened, Started, ThreadStarted
    <3> QED
      BY <3>1 DEF NotPolling, NotRereading, EnumFrom, Idle
  <2>4. CASE OpenFails(cam)
    <3>1. /\ Video \notin openFds' /\ stop' = "idle" /\ run' = NotPolling("loop")
          /\ rereader' = NotRereading("wait") /\ main' = AfterFailedOpen
      BY <2>4 DEF OpenFails, Started, ThreadStarted
    <3> QED
      BY <2>1, <3>1 DEF NotPolling, NotRereading, AfterFailedOpen, Idle
  <2> QED
    BY <1>10, <2>2, <2>3, <2>4 DEF OpenCamera
<1>11. CASE SliderReleased
  BY <1>11, <1>b DEF SliderReleased, cameraVars
<1>12. ASSUME NEW c \in Controls, NEW v \in Values,
              \/ SetEnumerationControlValue(c, v) \/ SetEnumerationControlValueIntList(c, v)
              \/ SliderMoves(c, v) \/ SetAuto(c, v)
              \/ \E e \in Values : PageSets(c, e, v)
       PROVE OpenInv'
  <2>1. /\ UNCHANGED <<openFds, rereader, handlerVars, front>> /\ main.pc = "idle"
        /\ main' \in {main, Rereads}
    BY <1>12 DEF SetEnumerationControlValue, SetEnumerationControlValueIntList,
         SetsInWindow, SliderMoves, PageSets, SetAuto, UserActs, cameraVars
  <2> QED
    BY <1>b, <2>1
<1>13. CASE UNCHANGED vars
  BY <1>13, <1>c DEF vars, cameraVars
<1> QED
  BY <1>1, <1>2, <1>3, <1>4, <1>5, <1>6, <1>7, <1>8, <1>9, <1>10, <1>11, <1>12, <1>13
     DEF Next, MainThread, Users

(* The window never assigns a std::thread that still runs: between a       *)
(* failed open and the next one there is always a close.                   *)
THEOREM WindowClosesBeforeReopening == Spec => []WindowReopens
<1>1. OpenInv => WindowReopens
  BY DEF OpenInv, WindowReopens
<1> QED
  BY <1>1, TypeInvInit, TypeInvStep, HandlerInvInit, HandlerInvStep, OpenInvInit, OpenInvStep, PTL
     DEF Spec

-----------------------------------------------------------------------------
(* Erasing by position.  No descriptor is watched twice, and while at most *)
(* one device has failed the poll entries are where their descriptors are. *)
Watched == {watched[i] : i \in DOMAIN watched}

ErasedInv ==
  /\ IsFiniteSet(failed)
  /\ run.pc # "none" =>
       /\ \A i, j \in DOMAIN watched : watched[i] = watched[j] => i = j
       /\ \A e \in run.pfds : e.err => e.fd \in failed
       /\ \A d, e \in run.pfds : d.fd = e.fd => d = e
       /\ Cardinality(failed) <= 1 =>
            /\ openFds \ failed \subseteq Watched
            /\ \A e \in run.pfds : e.err => e.at \in DOMAIN watched /\ watched[e.at] = e.fd

LEMMA ErasedInvInit == Init => ErasedInv
BY FS_EmptySet DEF Init, ErasedInv, NoHandler, NotPolling

(* Among at most one failed descriptor no two are different. *)
LEMMA OneFailed ==
  ASSUME IsFiniteSet(failed), Cardinality(failed) <= 1, NEW d \in failed, NEW e \in failed
  PROVE  d = e
<1>1. SUFFICES ASSUME d # e PROVE FALSE
  OBVIOUS
<1>2. IsFiniteSet({d}) /\ Cardinality({d}) = 1 /\ IsFiniteSet({d} \cup {e})
      /\ Cardinality({d} \cup {e}) = 2
  <2>1. IsFiniteSet({d}) /\ Cardinality({d}) = 1
    BY FS_Singleton
  <2>2. IsFiniteSet({d} \cup {e}) /\ Cardinality({d} \cup {e}) = Cardinality({d}) + 1
    BY <1>1, <2>1, FS_AddElement
  <2> QED
    BY <2>1, <2>2
<1>3. {d} \cup {e} \subseteq failed
  OBVIOUS
<1>4. Cardinality({d} \cup {e}) <= Cardinality(failed) /\ Cardinality(failed) \in Nat
  BY <1>3, FS_Subset, FS_CardinalityType
<1> QED
  BY <1>2, <1>4

LEMMA HandlesErased == ASSUME TypeInv, HandlerInv, ErasedInv, RunHandles, Unrelated PROVE ErasedInv'
<1> USE DEF ErasedInv
<1>1. PICK e \in run.pfds :
        /\ watched' = IF e.err THEN Erased(e.at) ELSE watched
        /\ run' = IF run.pfds = {e} THEN NotPolling("loop") ELSE [run EXCEPT !.pfds = @ \ {e}]
  BY DEF RunHandles
<1>2. /\ run.pc = "handle" /\ run = [pc |-> run.pc, pfds |-> run.pfds] /\ watched \in Seq(Fds)
      /\ UNCHANGED <<failed, openFds>>
  BY DEF RunHandles, HandlerInv, Handshake, WatchedOpen, Unrelated, cameraVars
<1>3. run'.pfds = run.pfds \ {e}
  BY <1>1, <1>2 DEF NotPolling
<1>4. CASE watched' = watched
  BY <1>2, <1>3, <1>4 DEF Watched
<1>5. CASE e.err /\ watched' = Erased(e.at)
  <2>1. CASE e.at \notin DOMAIN watched
    <3>1. watched' = watched
      BY <1>5, <2>1 DEF Erased
    <3> QED
      BY <1>4, <3>1
  <2>2. CASE e.at \in DOMAIN watched
    <3> DEFINE at == e.at
               n == Len(watched)
    <3>1. /\ n \in Nat /\ at \in 1 .. n /\ DOMAIN watched = 1 .. n
      BY <1>2, <2>2
    <3>2. /\ DOMAIN watched' = 1 .. n - 1
          /\ \A j \in 1 .. n - 1 : watched'[j] = watched[IF j <= at - 1 THEN j ELSE j + 1]
      BY <1>2, <1>5, <2>2, ErasedEntries
    <3> HIDE DEF at, n
    <3>3. \A i, j \in DOMAIN watched' : watched'[i] = watched'[j] => i = j
      <4> SUFFICES ASSUME NEW i \in 1 .. n - 1, NEW j \in 1 .. n - 1, watched'[i] = watched'[j]
                   PROVE  i = j
        BY <3>2
      <4>1. (IF i <= at - 1 THEN i ELSE i + 1) = (IF j <= at - 1 THEN j ELSE j + 1)
        BY <1>2, <3>1, <3>2
      <4> QED
        BY <3>1, <4>1
    <3>4. ASSUME Cardinality(failed') <= 1
          PROVE  /\ (openFds \ failed)' \subseteq Watched'
                 /\ \A d \in run'.pfds : ~d.err
      <4>1. watched[at] = e.fd /\ e.fd \in failed /\ openFds \ failed \subseteq Watched
        BY <1>2, <1>5, <3>4 DEF at
      <4>2. ASSUME NEW f \in openFds \ failed PROVE f \in Watched'
        <5>1. PICK k \in 1 .. n : watched[k] = f
          BY <3>1, <4>1, <4>2 DEF Watched
        <5>2. k # at
          BY <4>1, <4>2, <5>1
        <5>3. \E j \in 1 .. n - 1 : watched'[j] = f
          <6>1. CASE k < at
            <7>1. k \in 1 .. n - 1 /\ k <= at - 1
              BY <3>1, <5>1, <6>1
            <7> QED
              BY <3>2, <5>1, <7>1
          <6>2. CASE k > at
            <7>1. k - 1 \in 1 .. n - 1 /\ ~(k - 1 <= at - 1) /\ (k - 1) + 1 = k
              BY <3>1, <5>1, <6>2
            <7> QED
              BY <3>2, <5>1, <7>1
          <6> QED
            BY <3>1, <5>1, <5>2, <6>1, <6>2
        <5> QED
          BY <3>2, <5>3 DEF Watched
      <4>3. ASSUME NEW d \in run'.pfds, d.err PROVE FALSE
        <5>1. d \in run.pfds /\ d # e /\ d.fd \in failed
          BY <1>2, <1>3, <4>3
        <5>2. d.fd = e.fd
          BY <1>2, <3>4, <4>1, <5>1, OneFailed
        <5> QED
          BY <1>2, <5>1, <5>2
      <4> QED
        BY <1>2, <4>2, <4>3
    <3> QED
      BY <1>2, <1>3, <3>3, <3>4
  <2> QED
    BY <2>1, <2>2
<1> QED
  BY <1>1, <1>4, <1>5

LEMMA ErasedInvStep == TypeInv /\ HandlerInv /\ ErasedInv /\ [Next]_vars => ErasedInv'
<1> SUFFICES ASSUME TypeInv, HandlerInv, ErasedInv, [Next]_vars PROVE ErasedInv'
  OBVIOUS
<1> USE DEF ErasedInv
<1>a. ASSUME UNCHANGED <<watched, run, failed, openFds>> PROVE ErasedInv'
  BY <1>a DEF Watched
<1>b. ASSUME UNCHANGED <<watched, failed, openFds>>, run'.pfds = {}, run.pc # "none" PROVE ErasedInv'
  BY <1>b DEF Watched
<1>1. CASE HandlerThread
  <2>0. UNCHANGED openFds /\ Unrelated
    BY <1>1 DEF HandlerThread, Unrelated, cameraVars
  <2>1. CASE RunLoops \/ RunDrains
    BY <1>b, <2>0, <2>1 DEF RunLoops, RunDrains, NotPolling, driverVars
  <2>2. CASE RunPolls
    <3>1. UNCHANGED <<watched, failed>> /\ run.pc = "poll" /\ run'.pfds \in {{}, Reported}
      BY <2>2 DEF RunPolls, NotPolling, driverVars
    <3>2. CASE run'.pfds = {}
      BY <1>b, <2>0, <3>1, <3>2
    <3>3. CASE run'.pfds = Reported
      <4>1. \A e \in Reported : \E i \in DOMAIN watched :
              e.at = i /\ e.fd = watched[i] /\ e.err = (watched[i] \in failed) /\ e = Entry(i)
        BY DEF Reported, Entry
      <4>2. \A d, e \in Reported : d.fd = e.fd => d = e
        BY <3>1, <4>1
      <4>3. \A e \in run'.pfds : e.err => e.fd \in failed'
        BY <3>1, <3>3, <4>1
      <4>4. \A e \in run'.pfds : e.at \in DOMAIN watched' /\ watched'[e.at] = e.fd
        BY <3>1, <3>3, <4>1
      <4> QED
        BY <2>0, <3>1, <3>3, <4>2, <4>3, <4>4 DEF Watched
    <3> QED
      BY <3>1, <3>2, <3>3
  <2>3. CASE RunHandles
    BY <2>0, <2>3, HandlesErased
  <2> QED
    BY <1>1, <2>1, <2>2, <2>3 DEF HandlerThread, RunNext
<1>2. CASE Rereader
  BY <1>2, <1>a DEF Rereader, RereadBegins, RereadDevice, RereaderExits, handlerVars, driverVars
<1>3. CASE EnumSubscribes \/ EnumReads \/ Delivers \/ PageEnumerates \/ DialogEnds \/ CloseCamera
  BY <1>3, <1>a DEF EnumSubscribes, EnumReads, Delivers, PageEnumerates, DialogEnds, CloseCamera,
     EndRereader, cameraVars, handlerVars, driverVars
<1>4. CASE RereaderJoined
  BY <1>4, <1>a DEF RereaderJoined, RequestInterruption, driverVars
<1>5. CASE StopNext /\ Unrelated
  <2>1. UNCHANGED <<failed, openFds>>
    BY <1>5 DEF StopNext, StopWritesOne, StopWritesMax, StopReads, StopUnsubscribes, Deleted,
       Unrelated, cameraVars, driverVars
  <2>2. CASE Deleted
    BY <2>1, <2>2 DEF Deleted, NotPolling
  <2>3. CASE ~Deleted
    BY <1>5, <1>a, <2>1, <2>3 DEF StopNext, StopWritesOne, StopWritesMax, StopReads, StopUnsubscribes
  <2> QED
    BY <2>2, <2>3
<1>6. CASE CloseFds
  <2>1. run'.pc = "none" /\ failed' = {}
    BY <1>6 DEF CloseFds, HandlerInv, Handshake, handlerVars
  <2> QED
    BY <2>1, FS_EmptySet
<1>7. CASE PageHears \/ SliderReleased
  BY <1>7, <1>a DEF PageHears, SliderReleased, cameraVars, handlerVars, driverVars
<1>8. ASSUME NEW cam \in Cameras, OpenCamera(cam) PROVE ErasedInv'
  <2>0. UNCHANGED failed
    BY <1>8 DEF OpenCamera, driverVars
  <2>1. CASE Terminates
    BY <1>a, <2>0, <2>1 DEF Terminates, handlerVars
  <2>2. CASE OpenSucceeds(cam) \/ OpenFails(cam)
    <3> DEFINE sub == SubDevices[cam]
    <3>1. /\ sub \in Seq(Fds \ {Video})
          /\ \A i, j \in DOMAIN sub : sub[i] = sub[j] => i = j
      BY LayoutAssumption
    <3>2. /\ Len(sub) \in Nat /\ DOMAIN sub = 1 .. Len(sub)
          /\ \A i \in DOMAIN sub : sub[i] # Video
      BY <3>1
    <3>3. run' = [pc |-> "loop", pfds |-> {}]
      BY <2>2 DEF OpenSucceeds, OpenFails, Started, NotPolling
    <3>4. CASE OpenFails(cam)
      <4>1. watched' = sub /\ openFds' = Opened(cam) \ {Video}
        BY <3>4 DEF OpenFails, Started
      <4>2. openFds' \subseteq Watched'
        BY <4>1 DEF Opened, Watched
      <4> QED
        BY <2>0, <3>1, <3>3, <4>1, <4>2
    <3>5. CASE OpenSucceeds(cam)
      <4>1. watched' = Append(sub, Video) /\ openFds' = Opened(cam)
        BY <3>5 DEF OpenSucceeds, Started
      <4> HIDE DEF sub
      <4>2. /\ DOMAIN watched' = 1 .. Len(sub) + 1
            /\ \A i \in 1 .. Len(sub) : watched'[i] = sub[i]
            /\ watched'[Len(sub) + 1] = Video
        BY <3>1, <3>2, <4>1
      <4>3. \A i, j \in DOMAIN watched' : watched'[i] = watched'[j] => i = j
        <5> SUFFICES ASSUME NEW i \in 1 .. Len(sub) + 1, NEW j \in 1 .. Len(sub) + 1,
                            watched'[i] = watched'[j]
                     PROVE  i = j
          BY <4>2
        <5>1. CASE i \in 1 .. Len(sub) /\ j \in 1 .. Len(sub)
          BY <3>1, <3>2, <4>2, <5>1
        <5>2. CASE i \notin 1 .. Len(sub)
          BY <3>2, <4>2, <5>2
        <5>3. CASE j \notin 1 .. Len(sub)
          BY <3>2, <4>2, <5>3
        <5> QED
          BY <5>1, <5>2, <5>3
      <4>4. openFds' \subseteq Watched'
        <5>1. ASSUME NEW f \in openFds' PROVE \E i \in DOMAIN watched' : watched'[i] = f
          <6>1. f = Video \/ \E i \in DOMAIN sub : sub[i] = f
            BY <4>1, <5>1 DEF Opened, sub
          <6> QED
            BY <3>2, <4>2, <6>1
        <5> QED
          BY <5>1 DEF Watched
      <4> QED
        BY <2>0, <3>3, <4>3, <4>4
    <3> QED
      BY <2>2, <3>4, <3>5
  <2> QED
    BY <1>8, <2>1, <2>2 DEF OpenCamera
<1>9. ASSUME NEW c \in Controls, NEW v \in Values,
              \/ SetEnumerationControlValue(c, v) \/ SetEnumerationControlValueIntList(c, v)
              \/ SliderMoves(c, v) \/ SetAuto(c, v)
              \/ \E e \in Values : PageSets(c, e, v)
       PROVE ErasedInv'
  BY <1>9, <1>a DEF SetEnumerationControlValue, SetEnumerationControlValueIntList,
     SetsInWindow, SliderMoves, PageSets, SetAuto, UserActs, cameraVars, handlerVars
<1>10. CASE Devices
  <2>1. UNCHANGED <<watched, run, openFds>>
    BY <1>10 DEF Devices, DeviceChanges, Unplugged, DeviceFails, cameraVars, handlerVars
  <2>2. CASE failed' = failed
    BY <1>a, <2>1, <2>2
  <2>3. ASSUME NEW f \in Fds, failed' = failed \cup {f} PROVE ErasedInv'
    <3>1. /\ IsFiniteSet(failed') /\ Cardinality(failed) <= Cardinality(failed')
          /\ Cardinality(failed) \in Nat /\ Cardinality(failed') \in Nat
      <4>1. IsFiniteSet(failed')
        BY <2>3, FS_AddElement
      <4> QED
        BY <2>3, <4>1, FS_Subset, FS_CardinalityType
    <3>2. Cardinality(failed') <= 1 => Cardinality(failed) <= 1
      BY <3>1
    <3>3. openFds' \ failed' \subseteq openFds \ failed
      BY <2>1, <2>3
    <3> QED
      BY <2>1, <2>3, <3>1, <3>2, <3>3 DEF Watched
  <2> QED
    BY <1>10, <2>2, <2>3 DEF Devices, DeviceChanges, Unplugged, DeviceFails
<1>11. CASE UNCHANGED vars
  BY <1>11, <1>a DEF vars, cameraVars, handlerVars, driverVars
<1> QED
  BY <1>1, <1>2, <1>3, <1>4, <1>5, <1>6, <1>7, <1>8, <1>9, <1>10, <1>11 DEF Next, MainThread, Users

(* A descriptor whose device works is not erased from the poll as long as  *)
(* at most one device has failed.                                          *)
THEOREM WorkingDescriptorsStayPolled == Spec => []OnlyFailingErased
<1>1. ErasedInv => OnlyFailingErased
  BY DEF ErasedInv, OnlyFailingErased, Watched
<1> QED
  BY <1>1, TypeInvInit, TypeInvStep, HandlerInvInit, HandlerInvStep, ErasedInvInit, ErasedInvStep, PTL
     DEF Spec

-----------------------------------------------------------------------------
(* The table of descriptors.  While the camera works, a control the table  *)
(* does not lead to the right device for is still to be read by the        *)
(* enumeration that runs.                                                  *)
Works == IsOpen /\ failed = {} /\ main.pc \in {"idle", "subscribe", "read"}

ToRead(item) == main.pc # "idle" /\ \E k \in DOMAIN main.todo : main.todo[k] = item

OwnerInv ==
  Works =>
    /\ main.pc # "idle" =>
         /\ main.todo # <<>> /\ main.todo \in Seq(Fds \X Controls)
         /\ \A k \in DOMAIN main.todo : \E i \in DOMAIN Layout[dev] : main.todo[k] = Layout[dev][i]
    /\ \A i \in DOMAIN Layout[dev] :
         ctlFd[Layout[dev][i][2]] = Layout[dev][i][1] \/ ToRead(Layout[dev][i])

LEMMA OwnerInvInit == Init => OwnerInv
BY DEF Init, OwnerInv, Works, IsOpen

(* The entries of a camera's layout are pairs, with an id each. *)
LEMMA LayoutEntries ==
  ASSUME NEW cam \in Cameras
  PROVE  /\ Layout[cam] \in Seq(Fds \X Controls)
         /\ \A i \in DOMAIN Layout[cam] :
              /\ Layout[cam][i] = <<Layout[cam][i][1], Layout[cam][i][2]>>
              /\ Layout[cam][i][1] \in Fds /\ Layout[cam][i][2] \in Controls
              /\ Layout[cam][i][1] \in Opened(cam)
         /\ \A i, j \in DOMAIN Layout[cam] :
              Layout[cam][i][2] = Layout[cam][j][2] => Layout[cam][i] = Layout[cam][j]
<1>1. Layout[cam] \in Seq(Fds \X Controls)
  BY LayoutAssumption
<1>2. \A i \in DOMAIN Layout[cam] : Layout[cam][i] \in Fds \X Controls
  BY <1>1
<1>3. /\ \A i \in DOMAIN Layout[cam] : Layout[cam][i][1] \in Opened(cam)
      /\ \A i, j \in DOMAIN Layout[cam] : Layout[cam][i][2] = Layout[cam][j][2] => i = j
  BY LayoutAssumption
<1> QED
  BY <1>1, <1>2, <1>3

LEMMA WorksOpen ==
  ASSUME TypeInv, Works PROVE dev \in Cameras /\ openFds = Opened(dev)
BY DEF TypeInv, ShapeInv, Works, IsOpen

(* While the camera works, the device of every entry answers. *)
LEMMA WorkingEntry ==
  ASSUME TypeInv, OwnerInv, Works, main.pc # "idle"
  PROVE  /\ main.todo # <<>> /\ main.todo \in Seq(Fds \X Controls)
         /\ main.todo[1] = <<main.todo[1][1], main.todo[1][2]>>
         /\ \E i \in DOMAIN Layout[dev] : main.todo[1] = Layout[dev][i]
         /\ IoOk(main.todo[1][1], main.todo[1][2])
<1>1. /\ main.todo # <<>> /\ main.todo \in Seq(Fds \X Controls)
      /\ \A k \in DOMAIN main.todo : \E i \in DOMAIN Layout[dev] : main.todo[k] = Layout[dev][i]
  BY DEF OwnerInv
<1>2. 1 \in DOMAIN main.todo
  BY <1>1
<1>3. PICK i \in DOMAIN Layout[dev] : main.todo[1] = Layout[dev][i]
  BY <1>1, <1>2
<1>4. dev \in Cameras /\ openFds = Opened(dev)
  BY WorksOpen
<1>5. Layout[dev][i] = <<Layout[dev][i][1], Layout[dev][i][2]>> /\ Layout[dev][i][1] \in Opened(dev)
  BY <1>3, <1>4, LayoutEntries
<1> QED
  BY <1>1, <1>3, <1>4, <1>5 DEF IoOk, Works

(* A camera works after a step that did not open it only if it worked.     *)
LEMMA WorksBefore ==
  ASSUME TypeInv, OpenInv, [Next]_vars, Works',
         ~\E cam \in Cameras : OpenCamera(cam) /\ OpenSucceeds(cam)
  PROVE  Works /\ UNCHANGED <<dev, openFds>> /\ failed' = {}
<1> USE DEF Works, IsOpen
<1>a. main = [pc |-> main.pc, todo |-> main.todo]
  BY DEF TypeInv, ShapeInv
<1>1. CASE HandlerThread
  BY <1>1 DEF HandlerThread, Unrelated, cameraVars, RunNext, RunLoops, RunPolls, RunHandles,
     RunDrains, driverVars
<1>2. CASE Rereader
  BY <1>2 DEF Rereader, RereadBegins, RereadDevice, RereaderExits, driverVars
<1>3. CASE EnumSubscribes \/ EnumReads \/ Delivers \/ PageEnumerates
  <2>1. UNCHANGED <<dev, openFds, failed>> /\ main.pc \in {"idle", "subscribe", "read", "dialog"}
    BY <1>3 DEF EnumSubscribes, EnumReads, Delivers, PageEnumerates, driverVars, cameraVars
  <2>2. main.pc = "dialog" => main'.pc = "dialog"
    BY <1>3 DEF EnumSubscribes, EnumReads, Delivers, PageEnumerates
  <2> QED
    BY <2>1, <2>2
<1>4. CASE DialogEnds \/ CloseCamera
  BY <1>4 DEF DialogEnds, CloseCamera, EndRereader
<1>5. CASE RereaderJoined
  BY <1>5, <1>a DEF RereaderJoined
<1>6. CASE StopNext /\ Unrelated
  BY <1>6 DEF StopNext, StopWritesOne, StopWritesMax, StopReads, StopUnsubscribes, Deleted,
     Unrelated, cameraVars, driverVars
<1>7. CASE CloseFds
  BY <1>7 DEF CloseFds
<1>8. CASE PageHears \/ SliderReleased
  BY <1>8 DEF PageHears, SliderReleased, cameraVars, driverVars
<1>9. ASSUME NEW cam \in Cameras, OpenCamera(cam) PROVE FALSE
  BY <1>9 DEF OpenCamera, OpenFails, Terminates
<1>10. ASSUME NEW c \in Controls, NEW v \in Values,
              \/ SetEnumerationControlValue(c, v) \/ SetEnumerationControlValueIntList(c, v)
              \/ SliderMoves(c, v) \/ SetAuto(c, v)
              \/ \E e \in Values : PageSets(c, e, v)
       PROVE  Works /\ UNCHANGED <<dev, openFds>> /\ failed' = {}
  BY <1>10 DEF SetEnumerationControlValue, SetEnumerationControlValueIntList, SetsInWindow,
     SliderMoves, PageSets, SetAuto, UserActs, cameraVars
<1>11. CASE Devices
  BY <1>11 DEF Devices, DeviceChanges, Unplugged, DeviceFails, cameraVars
<1>12. CASE UNCHANGED vars
  BY <1>12 DEF vars, cameraVars, driverVars
<1> QED
  BY <1>1, <1>2, <1>3, <1>4, <1>5, <1>6, <1>7, <1>8, <1>9, <1>10, <1>11, <1>12
     DEF Next, MainThread, Users

(* An enumeration begins with all entries to read. *)
LEMMA EnumerationBegins ==
  ASSUME NEW cam \in Cameras, dev' = cam, main' = EnumFrom(Layout[cam]) PROVE OwnerInv'
<1>1. Layout[cam] \in Seq(Fds \X Controls)
  BY LayoutEntries
<1>2. CASE Layout[cam] = <<>>
  BY <1>2 DEF OwnerInv, EnumFrom, Idle
<1>3. CASE Layout[cam] # <<>>
  <2>1. main' = [pc |-> "subscribe", todo |-> Layout[cam]]
    BY <1>3 DEF EnumFrom
  <2> QED
    BY <1>1, <1>3, <2>1 DEF OwnerInv, ToRead
<1> QED
  BY <1>2, <1>3

LEMMA ReadsOwner == ASSUME TypeInv, OwnerInv, Works, EnumReads PROVE OwnerInv'
<1> DEFINE f == main.todo[1][1]
           c == main.todo[1][2]
           rest == Tail(main.todo)
<1>1. dev \in Cameras /\ UNCHANGED dev /\ main.pc = "read"
  BY WorksOpen DEF EnumReads
<1>2. /\ main.todo # <<>> /\ main.todo \in Seq(Fds \X Controls) /\ main.todo[1] = <<f, c>>
      /\ IoOk(f, c)
  BY <1>1, WorkingEntry
<1>3. PICK n \in DOMAIN Layout[dev] : main.todo[1] = Layout[dev][n]
  BY <1>1, WorkingEntry
<1>4. ctlFd' = [ctlFd EXCEPT ![c] = f] /\ main' = EnumFrom(rest)
  BY <1>2 DEF EnumReads
<1>5. ctlFd'[c] = f /\ \A d \in Controls : d # c => ctlFd'[d] = ctlFd[d]
  <2>1. c \in Controls /\ ctlFd \in [Controls -> Fds \cup {Fds0}]
    BY <1>2, IoOkTypes DEF TypeInv, DevicesTypeOK
  <2> QED
    BY <1>4, <2>1
<1>6. /\ rest \in Seq(Fds \X Controls)
      /\ \A k \in DOMAIN rest : k + 1 \in DOMAIN main.todo /\ rest[k] = main.todo[k + 1]
      /\ \A k \in DOMAIN main.todo : k # 1 => k - 1 \in DOMAIN rest /\ rest[k - 1] = main.todo[k]
  BY <1>2
<1>7. /\ \A k \in DOMAIN main.todo : \E i \in DOMAIN Layout[dev] : main.todo[k] = Layout[dev][i]
      /\ \A i \in DOMAIN Layout[dev] :
           ctlFd[Layout[dev][i][2]] = Layout[dev][i][1] \/ ToRead(Layout[dev][i])
  BY <1>1 DEF OwnerInv
<1> HIDE DEF f, c, rest
<1>8. ASSUME NEW i \in DOMAIN Layout[dev]
      PROVE  \/ ctlFd'[Layout[dev][i][2]] = Layout[dev][i][1]
             \/ \E k \in DOMAIN rest : rest[k] = Layout[dev][i]
  <2>1. Layout[dev][i] = <<Layout[dev][i][1], Layout[dev][i][2]>> /\ Layout[dev][i][2] \in Controls
    BY <1>1, LayoutEntries
  <2>2. CASE Layout[dev][i][2] = c
    <3>1. Layout[dev][i] = Layout[dev][n]
      BY <1>1, <1>2, <1>3, <2>2, LayoutEntries
    <3> QED
      BY <1>2, <1>3, <1>5, <2>2, <3>1
  <2>3. CASE Layout[dev][i][2] # c /\ ctlFd[Layout[dev][i][2]] = Layout[dev][i][1]
    BY <1>5, <2>1, <2>3
  <2>4. CASE Layout[dev][i][2] # c /\ ToRead(Layout[dev][i])
    <3>1. PICK k \in DOMAIN main.todo : main.todo[k] = Layout[dev][i]
      BY <2>4 DEF ToRead
    <3>2. k # 1
      BY <1>2, <2>4, <3>1
    <3> QED
      BY <1>6, <3>1, <3>2
  <2> QED
    BY <1>7, <2>2, <2>3, <2>4
<1>9. CASE rest = <<>>
  <2>1. main'.pc = "idle"
    BY <1>4, <1>9 DEF EnumFrom, Idle
  <2>2. DOMAIN rest = {}
    BY <1>9
  <2> QED
    BY <1>1, <1>8, <2>1, <2>2 DEF OwnerInv
<1>10. CASE rest # <<>>
  <2>1. main' = [pc |-> "subscribe", todo |-> rest]
    BY <1>4, <1>10 DEF EnumFrom
  <2>2. \A i \in DOMAIN Layout[dev] :
          ctlFd'[Layout[dev][i][2]] = Layout[dev][i][1] \/ ToRead(Layout[dev][i])'
    BY <1>1, <1>8, <2>1 DEF ToRead
  <2>3. \A k \in DOMAIN rest : \E i \in DOMAIN Layout[dev] : rest[k] = Layout[dev][i]
    BY <1>6, <1>7
  <2> QED
    BY <1>1, <1>6, <1>10, <2>1, <2>2, <2>3 DEF OwnerInv
<1> QED
  BY <1>9, <1>10

LEMMA OwnerInvStep == TypeInv /\ OpenInv /\ OwnerInv /\ [Next]_vars => OwnerInv'
<1> SUFFICES ASSUME TypeInv, OpenInv, OwnerInv, [Next]_vars, Works' PROVE OwnerInv'
  BY DEF OwnerInv
<1>1. ASSUME NEW cam \in Cameras, OpenSucceeds(cam) PROVE OwnerInv'
  BY <1>1, EnumerationBegins DEF OpenSucceeds
<1> SUFFICES ASSUME ~\E cam \in Cameras : OpenCamera(cam) /\ OpenSucceeds(cam) PROVE OwnerInv'
  BY <1>1
<1>2. Works /\ UNCHANGED <<dev, openFds>> /\ dev \in Cameras
  BY WorksBefore, WorksOpen
<1>3. ASSUME UNCHANGED <<main, ctlFd>> PROVE OwnerInv'
  BY <1>2, <1>3 DEF OwnerInv, Works, ToRead
<1>4. ASSUME main' = Rereads PROVE OwnerInv'
  BY <1>2, <1>4, EnumerationBegins DEF Works, Rereads
<1>5. CASE EnumSubscribes
  <2>1. main.pc = "subscribe" /\ UNCHANGED ctlFd
    BY <1>5 DEF EnumSubscribes
  <2>2. main' = [main EXCEPT !.pc = "read"]
    BY <1>2, <1>5, <2>1, WorkingEntry DEF EnumSubscribes
  <2>3. main'.pc = "read" /\ main'.todo = main.todo
    BY <2>2 DEF TypeInv, ShapeInv
  <2> QED
    BY <1>2, <2>1, <2>3 DEF OwnerInv, ToRead
<1>6. CASE EnumReads
  BY <1>2, <1>6, ReadsOwner
<1>7. CASE PageEnumerates \/ SliderReleased
  BY <1>4, <1>7 DEF PageEnumerates, SliderReleased
<1>8. CASE \/ HandlerThread \/ Rereader \/ Delivers \/ PageHears \/ Devices \/ UNCHANGED vars
           \/ StopNext /\ Unrelated
  BY <1>3, <1>8 DEF HandlerThread, Rereader, RereadBegins, RereadDevice, RereaderExits, Delivers,
     PageHears, Devices, DeviceChanges, Unplugged, Unrelated, cameraVars, vars
<1>9. CASE DialogEnds \/ CloseCamera \/ RereaderJoined \/ CloseFds
  BY <1>2, <1>9 DEF DialogEnds, CloseCamera, EndRereader, RereaderJoined, CloseFds, Works
<1>10. ASSUME NEW cam \in Cameras, OpenCamera(cam) PROVE OwnerInv'
  BY <1>2, <1>10 DEF OpenCamera, Works
<1>11. ASSUME NEW c \in Controls, NEW v \in Values,
              \/ SetEnumerationControlValue(c, v) \/ SetEnumerationControlValueIntList(c, v)
              \/ SliderMoves(c, v) \/ SetAuto(c, v)
              \/ \E e \in Values : PageSets(c, e, v)
       PROVE OwnerInv'
  BY <1>3, <1>4, <1>11 DEF SetEnumerationControlValue, SetEnumerationControlValueIntList,
     SetsInWindow, SliderMoves, PageSets, SetAuto, UserActs, cameraVars
<1> QED
  BY <1>5, <1>6, <1>7, <1>8, <1>9, <1>10, <1>11 DEF Next, MainThread, Users

(* Once the enumeration is done, every control of the open camera is set   *)
(* on the device that has it, whatever cameras were open before.           *)
THEOREM ControlsAreSetOnTheirDevice == Spec => []SetReachesOwner
<1>1. OwnerInv => SetReachesOwner
  BY DEF OwnerInv, SetReachesOwner, Works, ToRead
<1> QED
  BY <1>1, TypeInvInit, TypeInvStep, HandlerInvInit, HandlerInvStep, OpenInvInit, OpenInvStep,
     OwnerInvInit, OwnerInvStep, PTL DEF Spec

-----------------------------------------------------------------------------
(* The panel.  What is on its way about a control is looked for in the     *)
(* queues: messages of some kinds about c in a queue s, and whether the    *)
(* last of them has a value of V.                                          *)
About(s, kinds, c) == {k \in DOMAIN s : s[k].kind \in kinds /\ s[k].id = c}

LastIn(s, kinds, c, V) ==
  \A k \in About(s, kinds, c) : (\A l \in About(s, kinds, c) : l <= k) => s[k].val \in V

(* A message about something else changes nothing for c. *)
LEMMA AppendOther ==
  ASSUME NEW T, NEW s \in Seq(T), NEW m \in T, NEW kinds, NEW c, m.kind \notin kinds \/ m.id # c
  PROVE  /\ About(Append(s, m), kinds, c) = About(s, kinds, c)
         /\ \A V : LastIn(s, kinds, c, V) => LastIn(Append(s, m), kinds, c, V)
<1>1. /\ DOMAIN Append(s, m) = 1 .. Len(s) + 1 /\ DOMAIN s = 1 .. Len(s) /\ Len(s) \in Nat
      /\ \A k \in DOMAIN s : Append(s, m)[k] = s[k]
      /\ Append(s, m)[Len(s) + 1] = m
  OBVIOUS
<1>2. \A k \in DOMAIN Append(s, m) : k \in DOMAIN s \/ k = Len(s) + 1
  BY <1>1
<1>3. About(Append(s, m), kinds, c) = About(s, kinds, c)
  BY <1>1, <1>2 DEF About
<1>4. \A k \in About(s, kinds, c) : Append(s, m)[k] = s[k]
  BY <1>1 DEF About
<1> QED
  BY <1>3, <1>4 DEF LastIn

(* A message about c is the last one. *)
LEMMA AppendThis ==
  ASSUME NEW T, NEW s \in Seq(T), NEW m \in T, NEW kinds, NEW c, NEW V,
         m.kind \in kinds, m.id = c, m.val \in V
  PROVE  /\ About(Append(s, m), kinds, c) # {}
         /\ LastIn(Append(s, m), kinds, c, V)
<1>1. /\ DOMAIN Append(s, m) = 1 .. Len(s) + 1 /\ Len(s) \in Nat
      /\ Append(s, m)[Len(s) + 1] = m
  OBVIOUS
<1>2. Len(s) + 1 \in About(Append(s, m), kinds, c)
  BY <1>1 DEF About
<1>3. ASSUME NEW k \in About(Append(s, m), kinds, c),
             \A l \in About(Append(s, m), kinds, c) : l <= k
      PROVE  Append(s, m)[k].val \in V
  <2>1. k \in 1 .. Len(s) + 1 /\ Len(s) + 1 <= k
    BY <1>1, <1>2, <1>3 DEF About
  <2>2. k = Len(s) + 1
    BY <1>1, <2>1
  <2> QED
    BY <1>1, <2>2
<1> QED
  BY <1>2, <1>3 DEF LastIn

(* Taking the first message: the last one stays the last, unless it was    *)
(* the first and the only one.                                             *)
LEMMA TailAbout ==
  ASSUME NEW T, NEW s \in Seq(T), s # <<>>, NEW kinds, NEW c
  PROVE  /\ About(s, kinds, c) = {} => About(Tail(s), kinds, c) = {}
         /\ Head(s).kind \notin kinds \/ Head(s).id # c =>
              (About(Tail(s), kinds, c) = {} => About(s, kinds, c) = {})
         /\ \A V : LastIn(s, kinds, c, V) => LastIn(Tail(s), kinds, c, V)
         /\ \A V : /\ LastIn(s, kinds, c, V) /\ About(Tail(s), kinds, c) = {}
                   /\ Head(s).kind \in kinds /\ Head(s).id = c
                   => Head(s).val \in V
<1> DEFINE n == Len(s)
           rest == Tail(s)
<1>1. /\ n \in Nat /\ n > 0 /\ DOMAIN s = 1 .. n /\ DOMAIN rest = 1 .. n - 1
      /\ \A k \in 1 .. n - 1 : rest[k] = s[k + 1]
      /\ Head(s) = s[1]
  OBVIOUS
<1> HIDE DEF n, rest
<1>2. \A k \in About(rest, kinds, c) : k \in 1 .. n - 1 /\ k + 1 \in About(s, kinds, c)
  BY <1>1 DEF About
<1>3. \A k \in About(s, kinds, c) : k \in 1 .. n
  BY <1>1 DEF About
<1>4. ASSUME NEW k \in About(s, kinds, c), k # 1 PROVE k - 1 \in About(rest, kinds, c)
  <2>1. k - 1 \in 1 .. n - 1 /\ (k - 1) + 1 = k
    BY <1>1, <1>3, <1>4
  <2>2. rest[k - 1] = s[k]
    BY <1>1, <2>1
  <2> QED
    BY <1>1, <1>4, <2>1, <2>2 DEF About
<1>5. About(s, kinds, c) = {} => About(rest, kinds, c) = {}
  BY <1>2
<1>6. ASSUME Head(s).kind \notin kinds \/ Head(s).id # c, About(rest, kinds, c) = {}
      PROVE  About(s, kinds, c) = {}
  <2>1. 1 \notin About(s, kinds, c)
    BY <1>1, <1>6 DEF About
  <2> QED
    BY <1>4, <1>6, <2>1
<1>7. ASSUME NEW V, LastIn(s, kinds, c, V), NEW k \in About(rest, kinds, c),
             \A l \in About(rest, kinds, c) : l <= k
      PROVE  rest[k].val \in V
  <2>1. k \in 1 .. n - 1 /\ k + 1 \in About(s, kinds, c)
    BY <1>2, <1>7
  <2>2. ASSUME NEW l \in About(s, kinds, c) PROVE l <= k + 1
    <3>1. CASE l = 1
      BY <1>1, <2>1, <3>1
    <3>2. CASE l # 1
      <4>1. l \in 1 .. n /\ l - 1 <= k
        BY <1>3, <1>4, <1>7, <3>2
      <4> QED
        BY <1>1, <2>1, <4>1
    <3> QED
      BY <3>1, <3>2
  <2>3. s[k + 1].val \in V
    BY <1>7, <2>1, <2>2 DEF LastIn
  <2> QED
    BY <1>1, <2>1, <2>3
<1>8. ASSUME NEW V, LastIn(s, kinds, c, V), About(rest, kinds, c) = {},
             Head(s).kind \in kinds, Head(s).id = c
      PROVE  Head(s).val \in V
  <2>1. 1 \in About(s, kinds, c)
    BY <1>1, <1>8 DEF About
  <2>2. \A l \in About(s, kinds, c) : l = 1
    BY <1>4, <1>8
  <2> QED
    BY <1>1, <1>8, <2>1, <2>2 DEF LastIn
<1> QED
  BY <1>5, <1>6, <1>7, <1>8 DEF LastIn, rest

(* Messages of other kinds change nothing. *)
LEMMA ConcatOther ==
  ASSUME NEW T, NEW s \in Seq(T), NEW t \in Seq(T), NEW kinds, NEW c,
         \A k \in DOMAIN t : t[k].kind \notin kinds
  PROVE  /\ About(s \o t, kinds, c) = About(s, kinds, c)
         /\ \A V : LastIn(s, kinds, c, V) => LastIn(s \o t, kinds, c, V)
<1>1. /\ Len(s) \in Nat /\ Len(t) \in Nat /\ DOMAIN s = 1 .. Len(s) /\ DOMAIN t = 1 .. Len(t)
      /\ DOMAIN (s \o t) = 1 .. Len(s) + Len(t)
      /\ \A k \in 1 .. Len(s) + Len(t) :
           (s \o t)[k] = IF k <= Len(s) THEN s[k] ELSE t[k - Len(s)]
  BY ConcatProperties
<1>2. \A k \in DOMAIN s : k \in DOMAIN (s \o t) /\ (s \o t)[k] = s[k]
  BY <1>1
<1>3. ASSUME NEW k \in DOMAIN (s \o t), k \notin DOMAIN s PROVE (s \o t)[k].kind \notin kinds
  <2>1. k - Len(s) \in DOMAIN t /\ (s \o t)[k] = t[k - Len(s)]
    BY <1>1, <1>3
  <2> QED
    BY <2>1
<1>4. About(s \o t, kinds, c) = About(s, kinds, c)
  BY <1>2, <1>3 DEF About
<1>5. \A k \in About(s, kinds, c) : (s \o t)[k] = s[k]
  BY <1>2 DEF About
<1> QED
  BY <1>4, <1>5 DEF LastIn

(* The enumeration has still to subscribe to the entry. *)
ToSubscribe(item) ==
  \/ main.pc = "subscribe" /\ ToRead(item)
  \/ main.pc = "read" /\ \E k \in DOMAIN main.todo : k > 1 /\ main.todo[k] = item

(* The page is going to read all controls again. *)
Reopened == asks \/ \E k \in DOMAIN wire : wire[k].kind = "opened"

(* A control that is not subscribed to has no event on the way, and is     *)
(* still to be subscribed to and read.                                     *)
Subscription(f, c) ==
  \/ <<f, c>> \in subscribed
  \/ ToSubscribe(<<f, c>>) /\ About(posted, {"changed"}, c) = {}

(* The latest event on the way has the value of the device ... *)
Latest(f, c) ==
  IF c \in DOMAIN pending[f] THEN pending[f][c] = value[c]
  ELSE LastIn(posted, {"changed"}, c, {value[c]})

(* ... and when there is none, and no reading is due, so does the panel,   *)
(* once the messages on the way to the page have arrived.                  *)
Shown(f, c) ==
  \/ c \in DOMAIN pending[f] \/ About(posted, {"changed"}, c) # {}
  \/ c \in misled \/ ToRead(<<f, c>>) \/ Reopened \/ (drag.on /\ drag.id = c)
  \/ /\ LastIn(wire, {"record"}, c, InStep(c))
     /\ About(wire, {"record"}, c) = {} => panel[c] \in InStep(c)

EntryInv(f, c) == Subscription(f, c) /\ Latest(f, c) /\ Shown(f, c)

(* Only controls of the open device are subscribed to; *)
SubscribedInv ==
  /\ \A f \in Fds : \A c \in DOMAIN pending[f] : <<f, c>> \in subscribed
  /\ \A s \in subscribed : IsOpen /\ \E i \in DOMAIN Layout[dev] : s = Layout[dev][i]

(* the window has no messages on the way, and what the page receives as a  *)
(* bare value is of a volatile control,                                    *)
WireInv ==
  /\ front = "window" => wire = <<>> /\ ~asks
  /\ IsOpen => \A k \in DOMAIN wire : wire[k].kind # "closed"
  /\ \A k \in DOMAIN wire : wire[k].kind = "value" => Kind[wire[k].id] = "volatile"

(* as are the controls that are read again.                                *)
RereadInv ==
  /\ \A f \in Fds : \A c \in volatiles[f] : Kind[c] = "volatile"
  /\ \A k \in DOMAIN posted : posted[k].kind = "reread" => Kind[posted[k].id] = "volatile"

PanelInv ==
  Works =>
    \A i \in DOMAIN Layout[dev] :
      Kind[Layout[dev][i][2]] # "volatile" => EntryInv(Layout[dev][i][1], Layout[dev][i][2])

LEMMA PanelInvInit == Init => SubscribedInv /\ WireInv /\ RereadInv /\ PanelInv
BY DEF Init, SubscribedInv, WireInv, RereadInv, PanelInv, Works, IsOpen, NoEvents

(* What the user or the device does to a value, in driver terms. *)
LEMMA EventNeedsSubscription ==
  ASSUME TypeInv, SubscribedInv, NEW f \in Fds, NEW c \in Controls, NEW v \in Values,
         pending' = WithEvent(f, c, v), UNCHANGED <<subscribed, openFds, dev>>
  PROVE  SubscribedInv'
<1>1. PendingType
  BY DEF TypeInv, QueueTypes
<1>2. CASE pending' = pending
  BY <1>2 DEF SubscribedInv, IsOpen
<1>3. CASE /\ <<f, c>> \in subscribed
           /\ pending' = [pending EXCEPT ![f] =
                            [d \in DOMAIN pending[f] \cup {c} |-> IF d = c THEN v ELSE pending[f][d]]]
  <2>1. \A g \in Fds : \A d \in DOMAIN pending'[g] : d \in DOMAIN pending[g] \/ (g = f /\ d = c)
    BY <1>1, <1>3 DEF PendingType
  <2> QED
    BY <1>3, <2>1 DEF SubscribedInv, IsOpen
<1> QED
  BY <1>2, <1>3 DEF WithEvent

LEMMA SetKeepsSubscribed ==
  ASSUME TypeInv, SubscribedInv, NEW c \in Controls, NEW v \in Values, NEW b \in BOOLEAN,
         SetExtControl(c, v, b), UNCHANGED <<subscribed, openFds, dev>>
  PROVE  SubscribedInv'
<1>1. CASE pending' = pending
  BY <1>1 DEF SubscribedInv, IsOpen
<1>2. CASE pending' = WithEvent(ctlFd[c], c, v) /\ IoOk(ctlFd[c], c)
  <2>1. ctlFd[c] \in Fds
    BY <1>2, IoOkTypes
  <2> QED
    BY <1>2, <2>1, EventNeedsSubscription
<1> QED
  BY <1>1, <1>2 DEF SetExtControl, ValueSet

LEMMA SubscribedInvStep == TypeInv /\ OpenInv /\ SubscribedInv /\ [Next]_vars => SubscribedInv'
<1> SUFFICES ASSUME TypeInv, OpenInv, SubscribedInv, [Next]_vars PROVE SubscribedInv'
  OBVIOUS
<1>a. PendingType
  BY DEF TypeInv, QueueTypes
<1>b. ASSUME UNCHANGED <<pending, subscribed, openFds, dev>> PROVE SubscribedInv'
  BY <1>b DEF SubscribedInv, IsOpen
<1>1. CASE HandlerThread
  <2>1. UNCHANGED <<subscribed, openFds, dev>>
    BY <1>1 DEF HandlerThread, Unrelated, cameraVars, RunNext, RunLoops, RunPolls, RunHandles,
       RunDrains, driverVars
  <2>2. CASE UNCHANGED pending
    BY <1>b, <2>1, <2>2
  <2>3. ASSUME NEW f \in Fds, NEW c \in DOMAIN pending[f],
               pending' = [pending EXCEPT ![f] = [d \in DOMAIN pending[f] \ {c} |-> pending[f][d]]]
        PROVE  SubscribedInv'
    <3>1. \A g \in Fds : \A d \in DOMAIN pending'[g] : d \in DOMAIN pending[g]
      BY <1>a, <2>3 DEF PendingType
    <3> QED
      BY <2>1, <3>1 DEF SubscribedInv, IsOpen
  <2>4. CASE RunHandles
    <3>1. PICK e \in run.pfds : IF e.pri THEN DequeuesEvent(e.fd) ELSE UNCHANGED <<pending, posted>>
      BY <2>4 DEF RunHandles
    <3>2. e.fd \in Fds
      BY <3>1 DEF TypeInv, DevicesTypeOK, HandlerTypeOK
    <3> QED
      BY <2>2, <2>3, <3>1, <3>2 DEF DequeuesEvent
  <2> QED
    BY <1>1, <2>2, <2>4 DEF HandlerThread, RunNext, RunLoops, RunPolls, RunDrains, driverVars
<1>2. CASE EnumSubscribes
  <2> DEFINE f == main.todo[1][1]
             c == main.todo[1][2]
  <2>1. UNCHANGED <<pending, openFds, dev>> /\ IsOpen
    BY <1>2 DEF EnumSubscribes, OpenInv
  <2>2. subscribed' = subscribed \/ (IoOk(f, c) /\ subscribed' = subscribed \cup {<<f, c>>})
    BY <1>2 DEF EnumSubscribes, SubscribeControl
  <2> HIDE DEF f, c
  <2>3. IoOk(f, c) => \E i \in DOMAIN Layout[dev] : Layout[dev][i] = <<f, c>>
    BY DEF IoOk
  <2> QED
    BY <2>1, <2>2, <2>3 DEF SubscribedInv, IsOpen
<1>3. CASE StopNext /\ Unrelated
  <2>1. UNCHANGED <<openFds, dev>>
    BY <1>3 DEF Unrelated, cameraVars
  <2>2. CASE StopUnsubscribes
    <3> DEFINE left == {watched[i] : i \in DOMAIN watched}
    <3>1. /\ subscribed' = {s \in subscribed : s[1] \notin left}
          /\ pending' = [f \in Fds |-> IF f \in left THEN NoEvents ELSE pending[f]]
      BY <2>2 DEF StopUnsubscribes
    <3> HIDE DEF left
    <3>2. \A f \in Fds : \A c \in DOMAIN pending'[f] : f \notin left /\ c \in DOMAIN pending[f]
      BY <3>1 DEF NoEvents
    <3>3. \A f \in Fds : \A c \in DOMAIN pending'[f] : <<f, c>> \in subscribed'
      BY <3>1, <3>2 DEF SubscribedInv
    <3> QED
      BY <2>1, <3>1, <3>3 DEF SubscribedInv, IsOpen
  <2> QED
    BY <1>3, <1>b, <2>1, <2>2 DEF StopNext, StopWritesOne, StopWritesMax, StopReads, Deleted, driverVars
<1>4. CASE CloseFds
  BY <1>4 DEF CloseFds, SubscribedInv, NoEvents
<1>5. ASSUME NEW cam \in Cameras, OpenCamera(cam) PROVE SubscribedInv'
  <2>1. UNCHANGED <<pending, subscribed>> /\ subscribed = {}
    BY <1>5 DEF OpenCamera, driverVars, SubscribedInv
  <2> QED
    BY <2>1 DEF SubscribedInv
<1>6. ASSUME NEW c \in Controls, NEW v \in Values,
              \/ SetEnumerationControlValue(c, v) \/ SetEnumerationControlValueIntList(c, v)
              \/ SliderMoves(c, v) \/ SetAuto(c, v)
              \/ \E e \in Values : PageSets(c, e, v)
      PROVE SubscribedInv'
  <2>1. /\ UNCHANGED <<subscribed, openFds, dev>>
        /\ \E accepted \in BOOLEAN : SetExtControl(c, v, accepted)
    BY <1>6 DEF SetEnumerationControlValue, SetEnumerationControlValueIntList,
       SetsInWindow, SliderMoves, PageSets, SetAuto, UserActs, cameraVars
  <2> QED
    BY <2>1, SetKeepsSubscribed
<1>7. CASE SliderReleased
  <2>1. drag.id \in Controls /\ drag.val \in Values
    BY DEF TypeInv, QueueTypes, DragType
  <2> QED
    BY <1>7, <2>1, SetKeepsSubscribed DEF SliderReleased, cameraVars
<1>8. ASSUME NEW f \in Fds, NEW c \in Controls, NEW v \in Values, DeviceChanges(f, c, v)
      PROVE  SubscribedInv'
  BY <1>8, <1>b, EventNeedsSubscription DEF DeviceChanges, cameraVars
<1>9. CASE \/ Rereader \/ EnumReads \/ Delivers \/ PageEnumerates \/ DialogEnds \/ RereaderJoined
           \/ PageHears \/ CloseCamera \/ (\E f \in Fds : Unplugged(f)) \/ UNCHANGED vars
  BY <1>9, <1>b DEF Rereader, RereadBegins, RereadDevice, RereaderExits, EnumReads, Delivers,
     PageEnumerates, DialogEnds, EndRereader, RereaderJoined, PageHears, CloseCamera, Unplugged,
     DeviceFails, vars, cameraVars, driverVars
<1> QED
  BY <1>1, <1>2, <1>3, <1>4, <1>5, <1>6, <1>7, <1>8, <1>9 DEF Next, MainThread, Users, Devices

(* Every message in the queue was there or is the one that was sent. *)
LEMMA SendsElements ==
  ASSUME TypeInv, NEW m \in MsgType, Sends(m)
  PROVE  \A k \in DOMAIN wire' : wire'[k] = m \/ \E j \in DOMAIN wire : wire'[k] = wire[j]
<1>1. wire \in Seq(MsgType) /\ wire' = Append(wire, m)
  BY DEF TypeInv, QueueTypes, Sends
<1> QED
  BY <1>1

LEMMA TailElements ==
  ASSUME NEW T, NEW s \in Seq(T), s # <<>>
  PROVE  \A k \in DOMAIN Tail(s) : \E j \in DOMAIN s : Tail(s)[k] = s[j]
<1>1. \A k \in DOMAIN Tail(s) : k + 1 \in DOMAIN s /\ Tail(s)[k] = s[k + 1]
  OBVIOUS
<1> QED
  BY <1>1

(* What is passed to the panel goes to the window or is sent to the page. *)
LEMMA PassSends ==
  ASSUME TypeInv, NEW c \in Controls, NEW v \in Values, NEW b \in BOOLEAN
  PROVE  /\ PassData(c, v, b) =>
              \/ front = "window" /\ UNCHANGED wire /\ panel' = [panel EXCEPT ![c] = Shows(c, v, b)]
              \/ /\ front # "window" /\ UNCHANGED panel
                 /\ Msg("record", c, Shows(c, v, b)) \in MsgType /\ Sends(Msg("record", c, Shows(c, v, b)))
         /\ PassExtControl(c, v) =>
              \/ /\ front = "window" /\ UNCHANGED wire
                 /\ panel' = [panel EXCEPT ![c] = IF @ \in {NoWidget, Emptied} THEN @ ELSE v]
              \/ /\ front # "window" /\ UNCHANGED panel
                 /\ Msg("value", c, v) \in MsgType /\ Sends(Msg("value", c, v))
<1>1. Shows(c, v, b) \in Values \cup {Emptied}
  BY DEF Shows
<1>2. Msg("record", c, Shows(c, v, b)) \in MsgType /\ Msg("value", c, v) \in MsgType
  BY <1>1 DEF Msg, MsgType
<1>3. /\ PassData(c, v, b) =>
              \/ front = "window" /\ UNCHANGED wire /\ panel' = [panel EXCEPT ![c] = Shows(c, v, b)]
              \/ front # "window" /\ UNCHANGED panel /\ Sends(Msg("record", c, Shows(c, v, b)))
  BY DEF PassData, PassToWindow, PassToPage
<1>4. /\ PassExtControl(c, v) =>
              \/ /\ front = "window" /\ UNCHANGED wire
                 /\ panel' = [panel EXCEPT ![c] = IF @ \in {NoWidget, Emptied} THEN @ ELSE v]
              \/ front # "window" /\ UNCHANGED panel /\ Sends(Msg("value", c, v))
  BY DEF PassExtControl
<1> QED
  BY <1>2, <1>3, <1>4

LEMMA WireInvStep == TypeInv /\ WireInv /\ RereadInv /\ [Next]_vars => WireInv'
<1> SUFFICES ASSUME TypeInv, WireInv, RereadInv, [Next]_vars PROVE WireInv'
  OBVIOUS
<1>a. wire \in Seq(MsgType) /\ posted \in Seq(EventType)
  BY DEF TypeInv, QueueTypes
<1>b. ASSUME UNCHANGED <<front, wire, openFds>>, asks' = asks \/ asks' = FALSE PROVE WireInv'
  BY <1>b DEF WireInv, IsOpen
<1>c. ASSUME UNCHANGED <<front, asks>>, front # "window", NEW m \in MsgType, Sends(m),
             IsOpen' => m.kind # "closed", m.kind = "value" => Kind[m.id] = "volatile",
             IsOpen' => IsOpen \/ wire = <<>>
      PROVE  WireInv'
  <2>1. \A k \in DOMAIN wire' : wire'[k] = m \/ \E j \in DOMAIN wire : wire'[k] = wire[j]
    BY <1>c, SendsElements
  <2>2. wire = <<>> => DOMAIN wire = {}
    OBVIOUS
  <2> QED
    BY <1>c, <2>1, <2>2 DEF WireInv
<1>d. ASSUME NEW c \in Controls, NEW v \in Values, NEW b \in BOOLEAN, UNCHANGED <<front, asks, openFds>>,
             PassData(c, v, b) \/ (PassExtControl(c, v) /\ Kind[c] = "volatile")
      PROVE  WireInv'
  <2>1. CASE front = "window"
    <3>1. UNCHANGED wire
      BY <1>d, <2>1, PassSends
    <3> QED
      BY <1>b, <1>d, <3>1
  <2>2. CASE front # "window"
    <3>1. PICK m \in MsgType : /\ Sends(m) /\ m.kind # "closed"
                               /\ m.kind = "value" => Kind[m.id] = "volatile"
      <4>1. CASE PassData(c, v, b)
        <5> DEFINE m == Msg("record", c, Shows(c, v, b))
        <5>1. m \in MsgType /\ Sends(m) /\ m.kind = "record"
          BY <2>2, <4>1, PassSends DEF Msg
        <5> QED
          BY <5>1
      <4>2. CASE PassExtControl(c, v) /\ Kind[c] = "volatile"
        <5> DEFINE m == Msg("value", c, v)
        <5>1. m \in MsgType /\ Sends(m) /\ m.kind = "value" /\ m.id = c
          BY <2>2, <4>2, PassSends DEF Msg
        <5> QED
          BY <4>2, <5>1
      <4> QED
        BY <1>d, <4>1, <4>2
    <3>2. IsOpen' = IsOpen
      BY <1>d DEF IsOpen
    <3> QED
      BY <1>c, <1>d, <2>2, <3>1, <3>2
  <2> QED
    BY <2>1, <2>2
<1>1. CASE EnumReads
  <2> DEFINE f == main.todo[1][1]
             c == main.todo[1][2]
  <2>1. UNCHANGED <<front, asks, openFds>>
    BY <1>1 DEF EnumReads
  <2>2. UNCHANGED wire \/ (IoOk(f, c) /\ PassData(c, value[c], TRUE))
    BY <1>1 DEF EnumReads
  <2> HIDE DEF f, c
  <2>3. IoOk(f, c) => c \in Controls /\ value[c] \in Values
    BY IoOkTypes DEF TypeInv, DevicesTypeOK
  <2> QED
    BY <1>b, <1>d, <2>1, <2>2, <2>3
<1>2. CASE Delivers
  <2> DEFINE e == Head(posted)
  <2>1. UNCHANGED <<front, asks, openFds>> /\ posted # <<>>
    BY <1>2 DEF Delivers, cameraVars
  <2>2. e \in EventType /\ e = posted[1] /\ 1 \in DOMAIN posted
    BY <1>a, <2>1
  <2>3. /\ e.id \in Controls /\ e.val \in Values /\ e.kind \in {"changed", "reread"}
    BY <2>2 DEF EventType
  <2>4. e.kind = "reread" => Kind[e.id] = "volatile"
    BY <2>2 DEF RereadInv
  <2>5. IF e.kind = "changed" THEN PassData(e.id, e.val, FALSE) ELSE PassExtControl(e.id, e.val)
    BY <1>2 DEF Delivers
  <2> HIDE DEF e
  <2> QED
    BY <1>d, <2>1, <2>3, <2>4, <2>5
<1>3. CASE PageHears
  <2>1. wire # <<>> /\ wire' = Tail(wire) /\ UNCHANGED <<front, openFds>>
    BY <1>3 DEF PageHears, cameraVars
  <2>2. \A k \in DOMAIN Tail(wire) : \E j \in DOMAIN wire : Tail(wire)[k] = wire[j]
    BY <1>a, <2>1, TailElements
  <2> QED
    BY <2>1, <2>2 DEF WireInv, IsOpen
<1>4. CASE CloseFds
  <2>1. UNCHANGED <<front, asks>> /\ ~IsOpen'
    BY <1>4 DEF CloseFds, IsOpen
  <2>2. CASE front = "window"
    BY <1>4, <2>1, <2>2 DEF CloseFds, WireInv
  <2>3. CASE front # "window"
    <3> DEFINE m == Msg("closed", AnyControl, AnyValue)
    <3>1. AnyValue \in Values /\ AnyControl \in Controls
      BY ValuesAssumption DEF AnyValue, AnyControl
    <3>2. m \in MsgType /\ m.kind = "closed"
      BY <3>1 DEF Msg, MsgType
    <3>3. Sends(m)
      BY <1>4, <2>3 DEF CloseFds
    <3> QED
      BY <1>c, <2>1, <2>3, <3>2, <3>3
  <2> QED
    BY <2>2, <2>3
<1>5. ASSUME NEW cam \in Cameras, OpenCamera(cam) PROVE WireInv'
  <2>1. UNCHANGED <<front, asks>> /\ wire = <<>>
    BY <1>5 DEF OpenCamera
  <2>2. CASE UNCHANGED wire
    BY <2>1, <2>2 DEF WireInv
  <2>3. CASE front # "window" /\ Sends(Msg("opened", AnyControl, AnyValue))
    <3> DEFINE m == Msg("opened", AnyControl, AnyValue)
    <3>1. AnyValue \in Values /\ AnyControl \in Controls
      BY ValuesAssumption DEF AnyValue, AnyControl
    <3>2. m \in MsgType /\ m.kind = "opened"
      BY <3>1 DEF Msg, MsgType
    <3> QED
      BY <1>c, <2>1, <2>3, <3>2
  <2>4. front = "window" \/ front = "page"
    BY DEF TypeInv, DevicesTypeOK
  <2> QED
    BY <1>5, <2>2, <2>3, <2>4 DEF OpenCamera, OpenSucceeds, OpenFails, Terminates
<1>6. ASSUME NEW c \in Controls, NEW v \in Values, SetAuto(c, v) PROVE WireInv'
  <2>1. UNCHANGED <<front, asks, openFds>> /\ PassData(c, v, FALSE)
    BY <1>6 DEF SetAuto, UserActs, cameraVars
  <2> QED
    BY <1>d, <2>1
<1>7. ASSUME NEW c \in Controls, NEW v \in Values,
              \/ SetEnumerationControlValue(c, v) \/ SetEnumerationControlValueIntList(c, v)
              \/ SliderMoves(c, v) \/ \E e \in Values : PageSets(c, e, v)
      PROVE WireInv'
  BY <1>7, <1>b DEF SetEnumerationControlValue, SetEnumerationControlValueIntList,
     SetsInWindow, SliderMoves, PageSets, UserActs, cameraVars
<1>8. CASE HandlerThread \/ (StopNext /\ Unrelated)
  BY <1>8, <1>b DEF HandlerThread, Unrelated, cameraVars, panelVars
<1>9. CASE \/ Rereader \/ EnumSubscribes \/ PageEnumerates \/ DialogEnds \/ RereaderJoined
           \/ CloseCamera \/ SliderReleased \/ Devices \/ UNCHANGED vars
  BY <1>9, <1>b DEF Rereader, RereadBegins, RereadDevice, RereaderExits, EnumSubscribes,
     PageEnumerates, DialogEnds, EndRereader, RereaderJoined, CloseCamera, SliderReleased, Devices,
     DeviceChanges, Unplugged, vars, cameraVars, panelVars
<1> QED
  BY <1>1, <1>2, <1>3, <1>4, <1>5, <1>6, <1>7, <1>8, <1>9 DEF Next, MainThread, Users

LEMMA RereadInvStep == TypeInv /\ RereadInv /\ [Next]_vars => RereadInv'
<1> SUFFICES ASSUME TypeInv, RereadInv, [Next]_vars PROVE RereadInv'
  OBVIOUS
<1>a. posted \in Seq(EventType) /\ volatiles \in [Fds -> SUBSET Controls]
  BY DEF TypeInv, QueueTypes, DevicesTypeOK
<1>b. ASSUME UNCHANGED <<volatiles, posted>> PROVE RereadInv'
  BY <1>b DEF RereadInv
<1>1. CASE HandlerThread
  <2>1. UNCHANGED volatiles
    BY <1>1 DEF HandlerThread, Unrelated, cameraVars
  <2>2. ASSUME NEW f, NEW c \in DOMAIN pending[f], f \in Fds,
               posted' = Append(posted, Event("changed", c, pending[f][c]))
        PROVE  RereadInv'
    <3> DEFINE e == Event("changed", c, pending[f][c])
    <3>1. c \in Controls /\ pending[f][c] \in Values
      BY <2>2 DEF TypeInv, QueueTypes, PendingType
    <3>2. e \in EventType /\ e.kind = "changed"
      BY <3>1 DEF Event, EventType
    <3> HIDE DEF e
    <3>3. \A k \in DOMAIN Append(posted, e) :
            Append(posted, e)[k] = e \/ (k \in DOMAIN posted /\ Append(posted, e)[k] = posted[k])
      BY <1>a, <3>2
    <3>4. posted' = Append(posted, e)
      BY <2>2 DEF e
    <3> QED
      BY <2>1, <3>2, <3>3, <3>4 DEF RereadInv
  <2>3. CASE RunHandles
    <3>1. PICK e \in run.pfds : IF e.pri THEN DequeuesEvent(e.fd) ELSE UNCHANGED <<pending, posted>>
      BY <2>3 DEF RunHandles
    <3>2. e.fd \in Fds
      BY <3>1 DEF TypeInv, DevicesTypeOK, HandlerTypeOK
    <3> QED
      BY <1>b, <2>1, <2>2, <3>1, <3>2 DEF DequeuesEvent
  <2> QED
    BY <1>1, <1>b, <2>1, <2>3 DEF HandlerThread, RunNext, RunLoops, RunPolls, RunDrains
<1>2. CASE EnumSubscribes
  <2> DEFINE f == main.todo[1][1]
             c == main.todo[1][2]
  <2>1. UNCHANGED posted
    BY <1>2 DEF EnumSubscribes
  <2>2. volatiles' = volatiles \/ (Kind[c] = "volatile" /\ volatiles' = [volatiles EXCEPT ![f] = @ \cup {c}])
    BY <1>2 DEF EnumSubscribes
  <2> HIDE DEF f, c
  <2>3. \A g \in Fds : volatiles'[g] = volatiles[g]
                       \/ (Kind[c] = "volatile" /\ volatiles'[g] = volatiles[g] \cup {c})
    BY <1>a, <2>2
  <2> QED
    BY <2>1, <2>3 DEF RereadInv
<1>3. ASSUME NEW f \in Fds, RereadDevice(f) PROVE RereadInv'
  <2>1. UNCHANGED volatiles /\ (UNCHANGED posted \/ SendUpdates(volatiles[f]))
    BY <1>3 DEF RereadDevice
  <2>2. CASE SendUpdates(volatiles[f])
    <3>1. PICK s \in [1 .. Cardinality(volatiles[f]) -> volatiles[f]] :
            posted' = posted \o [i \in DOMAIN s |-> Event("reread", s[i], value[s[i]])]
      BY <2>2 DEF SendUpdates
    <3> DEFINE t == [i \in DOMAIN s |-> Event("reread", s[i], value[s[i]])]
    <3>2. Cardinality(volatiles[f]) \in Nat /\ volatiles[f] \subseteq Controls
      BY <1>a, FS_CardinalityType DEF TypeInv, ShapeInv
    <3>3. \A i \in DOMAIN s : s[i] \in volatiles[f] /\ value[s[i]] \in Values
      BY <3>2 DEF TypeInv, DevicesTypeOK
    <3>4. \A i \in DOMAIN s : t[i] \in EventType /\ t[i].id \in volatiles[f]
      BY <3>2, <3>3 DEF Event, EventType
    <3>5. t \in Seq(EventType) /\ DOMAIN t = 1 .. Len(t) /\ Len(t) \in Nat
          /\ \A i \in DOMAIN t : t[i].id \in volatiles[f]
      BY <3>2, <3>4
    <3> HIDE DEF t
    <3>6. \A k \in DOMAIN (posted \o t) :
            \/ k \in DOMAIN posted /\ (posted \o t)[k] = posted[k]
            \/ k - Len(posted) \in DOMAIN t /\ (posted \o t)[k] = t[k - Len(posted)]
      <4>1. /\ Len(posted) \in Nat /\ DOMAIN posted = 1 .. Len(posted)
            /\ DOMAIN (posted \o t) = 1 .. Len(posted) + Len(t)
            /\ \A k \in 1 .. Len(posted) + Len(t) :
                 (posted \o t)[k] = IF k <= Len(posted) THEN posted[k] ELSE t[k - Len(posted)]
        BY <1>a, <3>5, ConcatProperties
      <4> QED
        BY <3>5, <4>1
    <3>7. posted' = posted \o t
      BY <3>1 DEF t
    <3> QED
      BY <2>1, <3>5, <3>6, <3>7 DEF RereadInv
  <2> QED
    BY <1>b, <2>1, <2>2
<1>4. CASE Delivers
  <2>1. UNCHANGED volatiles /\ posted # <<>> /\ posted' = Tail(posted)
    BY <1>4 DEF Delivers, cameraVars
  <2>2. \A k \in DOMAIN Tail(posted) : \E j \in DOMAIN posted : Tail(posted)[k] = posted[j]
    BY <1>a, <2>1, TailElements
  <2> QED
    BY <2>1, <2>2 DEF RereadInv
<1>5. ASSUME NEW c \in Controls, NEW v \in Values,
              \/ SetEnumerationControlValue(c, v) \/ SetEnumerationControlValueIntList(c, v)
              \/ SliderMoves(c, v) \/ SetAuto(c, v)
              \/ \E e \in Values : PageSets(c, e, v)
      PROVE RereadInv'
  BY <1>5, <1>b DEF SetEnumerationControlValue, SetEnumerationControlValueIntList,
     SetsInWindow, SliderMoves, PageSets, SetAuto, UserActs, cameraVars
<1>6. ASSUME NEW cam \in Cameras, OpenCamera(cam) PROVE RereadInv'
  BY <1>6, <1>b DEF OpenCamera
<1>7. CASE StopNext /\ Unrelated
  BY <1>7, <1>b DEF StopNext, StopWritesOne, StopWritesMax, StopReads, StopUnsubscribes, Deleted,
     Unrelated, cameraVars
<1>8. CASE \/ RereadBegins \/ RereaderExits \/ EnumReads \/ PageEnumerates \/ DialogEnds
           \/ RereaderJoined \/ CloseFds \/ CloseCamera \/ SliderReleased \/ PageHears \/ Devices
           \/ UNCHANGED vars
  BY <1>8, <1>b DEF RereadBegins, RereaderExits, EnumReads, PageEnumerates, DialogEnds, EndRereader,
     RereaderJoined, CloseFds, CloseCamera, SliderReleased, PageHears, Devices, DeviceChanges,
     Unplugged, DeviceFails, vars, cameraVars
<1> QED
  BY <1>1, <1>2, <1>3, <1>4, <1>5, <1>6, <1>7, <1>8 DEF Next, Rereader, MainThread, Users

(* An entry of the working camera: descriptor f has control c, which is    *)
(* not volatile.                                                           *)
OfLayout(f, c) ==
  /\ f \in Fds /\ c \in Controls /\ Kind[c] # "volatile"
  /\ \E n \in DOMAIN Layout[dev] : Layout[dev][n] = <<f, c>>

LEMMA OnlyDevice ==
  ASSUME TypeInv, Works, NEW f, NEW c, OfLayout(f, c), NEW g, NEW n \in DOMAIN Layout[dev],
         Layout[dev][n] = <<g, c>>
  PROVE  g = f
<1>1. PICK m \in DOMAIN Layout[dev] : Layout[dev][m] = <<f, c>>
  BY DEF OfLayout
<1>2. Layout[dev][m][2] = Layout[dev][n][2]
  BY <1>1
<1>3. Layout[dev][m] = Layout[dev][n]
  BY <1>2, WorksOpen, LayoutEntries
<1> QED
  BY <1>1, <1>3

(* Nothing changes for the entry. *)
LEMMA EntryKept ==
  ASSUME NEW f, NEW c, EntryInv(f, c),
         UNCHANGED <<subscribed, pending, posted, value, misled, main, asks, wire, drag, panel>>
  PROVE  EntryInv(f, c)'
BY DEF EntryInv, Subscription, Latest, Shown, ToSubscribe, ToRead, Reopened, About, LastIn, InStep

(* A value changes, and the driver has an event for a subscriber.          *)
LEMMA ValueStep ==
  ASSUME TypeInv, SubscribedInv, Works, NEW f, NEW c, OfLayout(f, c), EntryInv(f, c),
         NEW g \in Fds, NEW d \in Controls, NEW v \in Values, IoOk(g, d),
         value' = [value EXCEPT ![d] = v], UNCHANGED <<subscribed, posted>>,
         \/ pending' = pending /\ (value[d] = v \/ d # c)
         \/ pending' = WithEvent(g, d, v)
  PROVE  /\ Latest(f, c)'
         /\ \/ c \in DOMAIN pending'[f]
            \/ value'[c] = value[c] /\ c \notin DOMAIN pending[f]
            \/ ToSubscribe(<<f, c>>)
<1>1. /\ value \in [Controls -> Values] /\ PendingType /\ f \in Fds /\ c \in Controls
  BY DEF TypeInv, DevicesTypeOK, QueueTypes, OfLayout
<1>2. /\ Latest(f, c) /\ Subscription(f, c)
  BY DEF EntryInv
<1>3. CASE d # c \/ (pending' = pending /\ value[d] = v)
  <2>1. value'[c] = value[c]
    BY <1>1, <1>3
  <2>2. /\ c \in DOMAIN pending'[f] <=> c \in DOMAIN pending[f]
        /\ c \in DOMAIN pending[f] => pending'[f][c] = pending[f][c]
    <3>1. CASE pending' = pending
      BY <3>1
    <3>2. CASE /\ d # c
               /\ pending' = [pending EXCEPT ![g] =
                                [e \in DOMAIN pending[g] \cup {d} |-> IF e = d THEN v ELSE pending[g][e]]]
      BY <1>1, <3>2 DEF PendingType
    <3> QED
      BY <1>3, <3>1, <3>2 DEF WithEvent
  <2>3. Latest(f, c)'
    BY <1>2, <2>1, <2>2 DEF Latest, About, LastIn
  <2> QED
    BY <2>1, <2>2, <2>3
<1>4. CASE d = c /\ pending' = WithEvent(g, c, v)
  <2>1. g = f
    BY <1>4, OnlyDevice DEF IoOk
  <2>2. value'[c] = v
    BY <1>1, <1>4
  <2>3. CASE <<f, c>> \in subscribed
    <3>1. pending' = [pending EXCEPT ![f] =
                        [e \in DOMAIN pending[f] \cup {c} |-> IF e = c THEN v ELSE pending[f][e]]]
      BY <1>4, <2>1, <2>3 DEF WithEvent
    <3>2. c \in DOMAIN pending'[f] /\ pending'[f][c] = v
      BY <1>1, <3>1 DEF PendingType
    <3> QED
      BY <2>2, <3>2 DEF Latest
  <2>4. CASE <<f, c>> \notin subscribed
    <3>1. ToSubscribe(<<f, c>>) /\ About(posted, {"changed"}, c) = {}
      BY <1>2, <2>4 DEF Subscription
    <3>2. pending' = pending /\ c \notin DOMAIN pending[f]
      BY <1>1, <1>4, <2>1, <2>4 DEF WithEvent, SubscribedInv
    <3>3. Latest(f, c)'
      BY <3>1, <3>2 DEF Latest, LastIn, About
    <3> QED
      BY <3>1, <3>3
  <2> QED
    BY <2>3, <2>4
<1> QED
  BY <1>3, <1>4

(* The user sets a value, and the device accepts it or not.                *)
LEMMA SetStep ==
  ASSUME TypeInv, SubscribedInv, Works, NEW f, NEW c, OfLayout(f, c), EntryInv(f, c),
         NEW d \in Controls, NEW v \in Values, NEW b \in BOOLEAN, SetExtControl(d, v, b),
         main.pc = "idle", UNCHANGED <<subscribed, posted>>
  PROVE  /\ Latest(f, c)' /\ <<f, c>> \in subscribed'
         /\ c \in DOMAIN pending'[f] \/ (value'[c] = value[c] /\ c \notin DOMAIN pending[f])
<1>1. ~ToSubscribe(<<f, c>>)
  BY DEF ToSubscribe
<1>2. <<f, c>> \in subscribed'
  BY <1>1 DEF EntryInv, Subscription
<1>3. CASE UNCHANGED <<value, pending>>
  BY <1>2, <1>3 DEF EntryInv, Latest, About, LastIn
<1>4. CASE IoOk(ctlFd[d], d) /\ ValueSet(d, v)
  <2>1. ctlFd[d] \in Fds
    BY <1>4, IoOkTypes
  <2>2. /\ value' = [value EXCEPT ![d] = v]
        /\ \/ pending' = pending /\ (value[d] = v \/ d # c)
           \/ pending' = WithEvent(ctlFd[d], d, v)
    BY <1>4 DEF ValueSet
  <2> QED
    BY <1>1, <1>2, <1>4, <2>1, <2>2, ValueStep
<1> QED
  BY <1>3, <1>4 DEF SetExtControl

(* Nothing new comes to the panel about c.                                 *)
PanelKept(c) ==
  /\ panel'[c] = panel[c]
  /\ About(wire', {"record"}, c) = About(wire, {"record"}, c)
  /\ \A V : LastIn(wire, {"record"}, c, V) => LastIn(wire', {"record"}, c, V)
  /\ Reopened => Reopened'

LEMMA PanelUnchanged == ASSUME NEW c, UNCHANGED <<panel, wire, asks>> PROVE PanelKept(c)
BY DEF PanelKept, About, LastIn, Reopened

(* Another control is passed to the panel ...                              *)
LEMMA PassOther ==
  ASSUME TypeInv, NEW c \in Controls, NEW d \in Controls, d # c, NEW v \in Values, NEW b \in BOOLEAN,
         PassData(d, v, b) \/ PassExtControl(d, v), UNCHANGED asks
  PROVE  PanelKept(c)
<1>1. panel \in [Controls -> Values \cup {NoWidget, Emptied}] /\ wire \in Seq(MsgType)
  BY DEF TypeInv, DevicesTypeOK, QueueTypes
<1>2. CASE UNCHANGED wire /\ panel'[c] = panel[c]
  BY <1>2 DEF PanelKept, About, LastIn, Reopened
<1>3. ASSUME NEW m \in MsgType, m.id # c, Sends(m), UNCHANGED panel PROVE PanelKept(c)
  <2>1. wire' = Append(wire, m)
    BY <1>3 DEF Sends
  <2>2. /\ About(wire', {"record"}, c) = About(wire, {"record"}, c)
        /\ \A V : LastIn(wire, {"record"}, c, V) => LastIn(wire', {"record"}, c, V)
    BY <1>1, <1>3, <2>1, AppendOther
  <2>3. \A k \in DOMAIN wire : k \in DOMAIN wire' /\ wire'[k] = wire[k]
    BY <1>1, <1>3, <2>1
  <2>4. Reopened => Reopened'
    BY <2>3 DEF Reopened
  <2> QED
    BY <1>3, <2>2, <2>4 DEF PanelKept
<1>4. Msg("record", d, Shows(d, v, b)).id = d /\ Msg("value", d, v).id = d
  BY DEF Msg
<1>5. CASE PassData(d, v, b)
  BY <1>1, <1>2, <1>3, <1>4, <1>5, PassSends
<1>6. CASE PassExtControl(d, v)
  BY <1>1, <1>2, <1>3, <1>4, <1>6, PassSends
<1> QED
  BY <1>5, <1>6

(* ... or this one: then the panel is about to show what was passed.       *)
LEMMA PassThis ==
  ASSUME TypeInv, WireInv, NEW c \in Controls, NEW v \in Values, NEW b \in BOOLEAN, PassData(c, v, b),
         NEW V, Shows(c, v, b) \in V
  PROVE  /\ LastIn(wire', {"record"}, c, V)
         /\ About(wire', {"record"}, c) = {} => panel'[c] \in V
<1>1. panel \in [Controls -> Values \cup {NoWidget, Emptied}] /\ wire \in Seq(MsgType)
  BY DEF TypeInv, DevicesTypeOK, QueueTypes
<1>2. CASE front = "window"
  <2>1. panel' = [panel EXCEPT ![c] = Shows(c, v, b)] /\ wire' = <<>>
    BY <1>2, PassSends DEF WireInv
  <2>2. panel'[c] \in V /\ DOMAIN wire' = {}
    BY <1>1, <2>1
  <2> QED
    BY <2>2 DEF LastIn, About
<1>3. CASE front # "window"
  <2> DEFINE m == Msg("record", c, Shows(c, v, b))
  <2>1. m \in MsgType /\ Sends(m)
    BY <1>3, PassSends
  <2>2. m.kind = "record" /\ m.id = c /\ m.val \in V
    BY DEF Msg
  <2> HIDE DEF m
  <2> DEFINE records == {"record"}
  <2>3. wire' = Append(wire, m) /\ m.kind \in records
    BY <2>1, <2>2 DEF Sends
  <2> HIDE DEF records
  <2>4. /\ About(Append(wire, m), records, c) # {}
        /\ LastIn(Append(wire, m), records, c, V)
    BY <1>1, <2>1, <2>2, <2>3, AppendThis
  <2> QED
    BY <2>3, <2>4 DEF records
<1> QED
  BY <1>2, <1>3

(* What was shown stays shown when neither the device nor the panel        *)
(* changes, or when a reading is due.                                      *)
LEMMA ShownKept ==
  ASSUME NEW f, NEW c, Shown(f, c), PanelKept(c),
         About(posted', {"changed"}, c) = About(posted, {"changed"}, c),
         c \in misled => c \in misled',
         ToRead(<<f, c>>) => ToRead(<<f, c>>)',
         drag.on /\ drag.id = c => drag'.on /\ drag'.id = c,
         \/ c \in DOMAIN pending'[f]
         \/ value'[c] = value[c] /\ c \notin DOMAIN pending[f]
         \/ ToRead(<<f, c>>)'
  PROVE  Shown(f, c)'
<1>1. CASE c \in DOMAIN pending'[f]
  BY <1>1 DEF Shown
<1>2. CASE ToRead(<<f, c>>)'
  BY <1>2 DEF Shown
<1>3. CASE value'[c] = value[c] /\ c \notin DOMAIN pending[f]
  BY <1>3 DEF Shown, PanelKept, InStep
<1> QED
  BY <1>1, <1>2, <1>3

LEMMA RereadsAll ==
  ASSUME Works, NEW f, NEW c, OfLayout(f, c), main' = Rereads PROVE ToRead(<<f, c>>)'
<1>1. PICK n \in DOMAIN Layout[dev] : Layout[dev][n] = <<f, c>>
  BY DEF OfLayout
<1>2. Layout[dev] # <<>>
  BY <1>1
<1>3. main' = [pc |-> "subscribe", todo |-> Layout[dev]]
  BY <1>2 DEF Works, Rereads, EnumFrom
<1> QED
  BY <1>1, <1>3 DEF ToRead

LEMMA UserPanel ==
  ASSUME TypeInv, SubscribedInv, WireInv, Works, UNCHANGED dev, NEW f, NEW c, OfLayout(f, c), EntryInv(f, c),
         NEW d \in Controls, NEW v \in Values,
         \/ SetEnumerationControlValue(d, v) \/ SetEnumerationControlValueIntList(d, v)
         \/ SliderMoves(d, v) \/ SetAuto(d, v)
         \/ \E e \in Values : PageSets(d, e, v)
  PROVE  EntryInv(f, c)'
<1>a. /\ UNCHANGED <<subscribed, posted, asks>> /\ main.pc = "idle"
      /\ \E accepted \in BOOLEAN : SetExtControl(d, v, accepted)
  BY DEF SetEnumerationControlValue, SetEnumerationControlValueIntList, SetsInWindow, SliderMoves,
     PageSets, SetAuto, UserActs
<1>b. /\ Latest(f, c)' /\ <<f, c>> \in subscribed'
      /\ c \in DOMAIN pending'[f] \/ (value'[c] = value[c] /\ c \notin DOMAIN pending[f])
  BY <1>a, SetStep
<1>c. ASSUME Shown(f, c)' PROVE EntryInv(f, c)'
  BY <1>b, <1>c DEF EntryInv, Subscription
<1>d. /\ Shown(f, c) /\ ~ToRead(<<f, c>>) /\ c \in Controls /\ f \in Fds
      /\ panel \in [Controls -> Values \cup {NoWidget, Emptied}] /\ wire \in Seq(MsgType)
  BY <1>a DEF EntryInv, ToRead, OfLayout, TypeInv, DevicesTypeOK, QueueTypes
<1>e. About(posted', {"changed"}, c) = About(posted, {"changed"}, c)
  BY <1>a DEF About
<1>1. CASE SetsInWindow(d, v)
  <2>1. main' = Rereads
    BY <1>1 DEF SetsInWindow
  <2>2. ToRead(<<f, c>>)'
    BY <2>1, RereadsAll
  <2> QED
    BY <1>c, <2>2 DEF Shown
<1>2. CASE SliderMoves(d, v)
  <2>1. /\ panel' = [panel EXCEPT ![d] = v] /\ drag' = [id |-> d, val |-> v, on |-> TRUE]
        /\ drag.on => drag.id = d
        /\ UNCHANGED <<main, misled, wire>>
    BY <1>2 DEF SliderMoves
  <2>2. CASE d = c
    <3>1. drag'.on /\ drag'.id = c
      BY <2>1, <2>2
    <3> QED
      BY <1>c, <3>1 DEF Shown
  <2>3. CASE d # c
    <3>1. panel'[c] = panel[c] /\ ~(drag.on /\ drag.id = c)
      BY <1>d, <2>1, <2>3
    <3>2. PanelKept(c)
      BY <1>a, <2>1, <3>1 DEF PanelKept, About, LastIn, Reopened
    <3>3. Shown(f, c)'
      BY <1>a, <1>b, <1>d, <1>e, <2>1, <3>1, <3>2, ShownKept
    <3> QED
      BY <1>c, <3>3
  <2> QED
    BY <2>2, <2>3
<1>3. ASSUME NEW e \in Values, PageSets(d, e, v) PROVE EntryInv(f, c)'
  <2>1. UNCHANGED <<main, panel, misled, drag, wire>>
    BY <1>3 DEF PageSets
  <2>2. PanelKept(c)
    BY <1>a, <2>1, PanelUnchanged
  <2>3. Shown(f, c)'
    BY <1>a, <1>b, <1>d, <1>e, <2>1, <2>2, ShownKept
  <2> QED
    BY <1>c, <2>3
<1>4. CASE SetAuto(d, v)
  <2>1. /\ PassData(d, v, FALSE) /\ UNCHANGED <<main, drag>>
        /\ \E accepted \in BOOLEAN :
             /\ SetExtControl(d, v, accepted)
             /\ misled' = IF accepted THEN misled ELSE misled \cup {d}
    BY <1>4 DEF SetAuto
  <2>2. v = value'[d] => Shows(d, v, FALSE) \in InStep(d)'
    BY DEF Shows, LosesEntries, InStep
  <2>3. CASE d = c
    <3>1. CASE c \in misled'
      BY <1>c, <3>1 DEF Shown
    <3>2. CASE c \notin misled'
      <4>1. SetExtControl(d, v, TRUE)
        BY <2>1, <2>3, <3>2
      <4>2. value'[c] = v
        BY <1>d, <2>3, <4>1 DEF SetExtControl, ValueSet, TypeInv, DevicesTypeOK
      <4>3. /\ LastIn(wire', {"record"}, c, InStep(c)')
            /\ About(wire', {"record"}, c) = {} => panel'[c] \in InStep(c)'
        BY <2>1, <2>2, <2>3, <4>2, PassThis
      <4> QED
        BY <1>c, <4>3 DEF Shown
    <3> QED
      BY <3>1, <3>2
  <2>4. CASE d # c
    <3>1. PanelKept(c)
      BY <1>a, <1>d, <2>1, <2>4, PassOther
    <3>2. Shown(f, c)'
      BY <1>a, <1>b, <1>d, <1>e, <2>1, <2>4, <3>1, ShownKept
    <3> QED
      BY <1>c, <3>2
  <2> QED
    BY <2>3, <2>4
<1> QED
  BY <1>1, <1>2, <1>3, <1>4 DEF SetEnumerationControlValue, SetEnumerationControlValueIntList

(* The slider is released, or the page asks for the controls.              *)
LEMMA RereadPanel ==
  ASSUME TypeInv, SubscribedInv, Works, NEW f, NEW c, OfLayout(f, c), EntryInv(f, c),
         SliderReleased \/ PageEnumerates
  PROVE  EntryInv(f, c)'
<1>1. ToRead(<<f, c>>)'
  BY RereadsAll DEF SliderReleased, PageEnumerates
<1>2. CASE SliderReleased
  <2>1. drag.id \in Controls /\ drag.val \in Values
    BY DEF TypeInv, QueueTypes, DragType
  <2>2. Latest(f, c)' /\ <<f, c>> \in subscribed'
    BY <1>2, <2>1, SetStep DEF SliderReleased
  <2> QED
    BY <1>1, <2>2 DEF EntryInv, Subscription, Shown
<1>3. CASE PageEnumerates
  <2>1. main.pc = "idle" /\ UNCHANGED <<subscribed, pending, posted, value>>
    BY <1>3 DEF PageEnumerates, driverVars
  <2>2. <<f, c>> \in subscribed
    BY <2>1 DEF EntryInv, Subscription, ToSubscribe
  <2>3. Latest(f, c)'
    BY <2>1 DEF EntryInv, Latest, LastIn, About
  <2> QED
    BY <1>1, <2>1, <2>2, <2>3 DEF EntryInv, Subscription, Shown
<1> QED
  BY <1>2, <1>3

LEMMA DevicePanel ==
  ASSUME TypeInv, SubscribedInv, Works, NEW f, NEW c, OfLayout(f, c), EntryInv(f, c),
         NEW g \in Fds, NEW d \in Controls, NEW v \in Values, DeviceChanges(g, d, v)
  PROVE  EntryInv(f, c)'
<1>1. /\ value' = [value EXCEPT ![d] = v] /\ IoOk(g, d)
      /\ \/ pending' = pending /\ d # c
         \/ pending' = WithEvent(g, d, v)
      /\ UNCHANGED <<subscribed, posted, main, panel, misled, drag, wire, asks>>
  BY DEF DeviceChanges, OfLayout, panelVars
<1>2. /\ Latest(f, c)'
      /\ \/ c \in DOMAIN pending'[f]
         \/ value'[c] = value[c] /\ c \notin DOMAIN pending[f]
         \/ ToSubscribe(<<f, c>>)
  BY <1>1, ValueStep
<1>3. (ToRead(<<f, c>>) <=> ToRead(<<f, c>>)') /\ (ToSubscribe(<<f, c>>) <=> ToSubscribe(<<f, c>>)')
  BY <1>1 DEF ToRead, ToSubscribe
<1>4. ToSubscribe(<<f, c>>) => ToRead(<<f, c>>)
  BY DEF ToSubscribe, ToRead
<1>5. Subscription(f, c)'
  BY <1>1, <1>3 DEF EntryInv, Subscription, About
<1>6. PanelKept(c) /\ About(posted', {"changed"}, c) = About(posted, {"changed"}, c)
  BY <1>1, PanelUnchanged DEF About
<1>7. Shown(f, c)'
  BY <1>1, <1>2, <1>3, <1>4, <1>6, ShownKept DEF EntryInv
<1> QED
  BY <1>2, <1>5, <1>7 DEF EntryInv

(* The camera is opened: nothing is on the way, and all is to be read.     *)
LEMMA OpenPanel ==
  ASSUME TypeInv, SubscribedInv, NEW cam \in Cameras, OpenCamera(cam), OpenSucceeds(cam)
  PROVE  PanelInv'
<1>1. /\ dev' = cam /\ main' = EnumFrom(Layout[cam]) /\ ~IsOpen
      /\ UNCHANGED <<pending, subscribed, posted>> /\ posted = <<>>
  BY DEF OpenCamera, OpenSucceeds, driverVars
<1>2. \A f \in Fds : DOMAIN pending[f] = {}
  BY <1>1 DEF SubscribedInv
<1>3. ASSUME NEW i \in DOMAIN Layout[cam]
      PROVE  EntryInv(Layout[cam][i][1], Layout[cam][i][2])'
  <2> DEFINE f == Layout[cam][i][1]
             c == Layout[cam][i][2]
  <2>1. f \in Fds /\ Layout[cam][i] = <<f, c>>
    BY LayoutEntries
  <2>2. main' = [pc |-> "subscribe", todo |-> Layout[cam]]
    BY <1>1, <1>3 DEF EnumFrom
  <2> HIDE DEF f, c
  <2>3. ToRead(<<f, c>>)' /\ ToSubscribe(<<f, c>>)'
    BY <2>1, <2>2 DEF ToRead, ToSubscribe
  <2>4. About(posted', {"changed"}, c) = {}
    BY <1>1 DEF About
  <2>5. c \notin DOMAIN pending'[f]
    BY <1>1, <1>2, <2>1
  <2>6. EntryInv(f, c)'
    BY <2>3, <2>4, <2>5 DEF EntryInv, Subscription, Latest, Shown, LastIn
  <2> QED
    BY <2>6 DEF f, c
<1> QED
  BY <1>1, <1>3 DEF PanelInv

(* While the camera works, its descriptors are watched, and a subscription *)
(* reaches the device.                                                     *)
LEMMA SubscribePanel ==
  ASSUME TypeInv, OpenInv, ErasedInv, OwnerInv, Works, NEW f, NEW c, OfLayout(f, c), EntryInv(f, c),
         EnumSubscribes
  PROVE  EntryInv(f, c)'
<1> DEFINE g == main.todo[1][1]
           d == main.todo[1][2]
<1>1. main.pc = "subscribe" /\ UNCHANGED <<pending, posted, value, misled, asks, wire, drag, panel>>
  BY DEF EnumSubscribes, panelVars
<1>2. IoOk(g, d) /\ main.todo[1] = <<g, d>>
  BY <1>1, WorkingEntry
<1>3. /\ subscribed' = IF \E i \in DOMAIN watched : watched[i] = g
                       THEN subscribed \cup {<<g, d>>} ELSE subscribed
      /\ main' = [main EXCEPT !.pc = "read"]
  BY <1>2 DEF EnumSubscribes, SubscribeControl
<1>4. main'.pc = "read" /\ main'.todo = main.todo
  BY <1>3 DEF TypeInv, ShapeInv
<1>5. \E i \in DOMAIN watched : watched[i] = g
  <2>1. run.pc # "none"
    BY <1>1 DEF OpenInv, Works
  <2>2. failed = {} /\ Cardinality(failed) <= 1
    BY FS_EmptySet DEF Works
  <2>3. g \in openFds \ failed
    BY <1>2 DEF IoOk
  <2> QED
    BY <2>1, <2>2, <2>3 DEF ErasedInv, Watched
<1> HIDE DEF g, d
<1>6. subscribed' = subscribed \cup {<<g, d>>}
  BY <1>3, <1>5
<1>7. Subscription(f, c)'
  <2>1. CASE <<f, c>> \in subscribed
    BY <1>6, <2>1 DEF Subscription
  <2>2. CASE ToSubscribe(<<f, c>>) /\ About(posted, {"changed"}, c) = {}
    <3>1. PICK k \in DOMAIN main.todo : main.todo[k] = <<f, c>>
      BY <1>1, <2>2 DEF ToSubscribe, ToRead
    <3>2. CASE k = 1
      <4>1. <<f, c>> = <<g, d>>
        BY <1>2, <3>1, <3>2
      <4> QED
        BY <1>6, <4>1 DEF Subscription
    <3>3. CASE k # 1
      <4>1. k > 1
        <5>1. main.todo \in Seq(Fds \X Controls)
          BY <1>1, WorkingEntry
        <5> QED
          BY <3>1, <3>3, <5>1
      <4>2. ToSubscribe(<<f, c>>)'
        BY <1>4, <3>1, <4>1 DEF ToSubscribe
      <4> QED
        BY <1>1, <2>2, <4>2 DEF Subscription, About
    <3> QED
      BY <3>2, <3>3
  <2> QED
    BY <2>1, <2>2 DEF EntryInv, Subscription
<1>8. Latest(f, c)'
  BY <1>1 DEF EntryInv, Latest, LastIn, About
<1>9. Shown(f, c)'
  <2>1. ToRead(<<f, c>>) => ToRead(<<f, c>>)'
    BY <1>4 DEF ToRead
  <2>2. PanelKept(c) /\ About(posted', {"changed"}, c) = About(posted, {"changed"}, c)
    BY <1>1, PanelUnchanged DEF About
  <2>3. c \in DOMAIN pending'[f] \/ (value'[c] = value[c] /\ c \notin DOMAIN pending[f])
    BY <1>1
  <2> QED
    BY <1>1, <2>1, <2>2, <2>3, ShownKept DEF EntryInv
<1> QED
  BY <1>7, <1>8, <1>9 DEF EntryInv

LEMMA ReadPanel ==
  ASSUME TypeInv, OwnerInv, WireInv, Works, NEW f, NEW c, OfLayout(f, c), EntryInv(f, c), EnumReads
  PROVE  EntryInv(f, c)'
<1> DEFINE g == main.todo[1][1]
           d == main.todo[1][2]
           rest == Tail(main.todo)
<1>1. main.pc = "read" /\ UNCHANGED <<subscribed, pending, posted, value, drag, asks>>
  BY DEF EnumReads, driverVars
<1>2. /\ IoOk(g, d) /\ main.todo[1] = <<g, d>> /\ main.todo \in Seq(Fds \X Controls) /\ main.todo # <<>>
  BY <1>1, WorkingEntry
<1>3. PassData(d, value[d], TRUE) /\ misled' = misled \ {d} /\ main' = EnumFrom(rest)
  BY <1>2 DEF EnumReads
<1>4. \A k \in DOMAIN main.todo : k # 1 => k - 1 \in DOMAIN rest /\ rest[k - 1] = main.todo[k]
  BY <1>2
<1>5. d \in Controls /\ c \in Controls /\ value[d] \in Values /\ TRUE \in BOOLEAN
  BY <1>2, IoOkTypes DEF TypeInv, DevicesTypeOK, OfLayout
<1>6. \A n \in DOMAIN Layout[dev] : Layout[dev][n] = <<g, c>> => g = f
  BY OnlyDevice
<1> HIDE DEF g, d, rest
<1>7. ASSUME NEW k \in DOMAIN main.todo, k # 1, main.todo[k] = <<f, c>>
      PROVE  ToRead(<<f, c>>)' /\ ToSubscribe(<<f, c>>)'
  <2>1. k - 1 \in DOMAIN rest /\ rest[k - 1] = <<f, c>> /\ rest # <<>>
    BY <1>4, <1>7
  <2>2. main' = [pc |-> "subscribe", todo |-> rest]
    BY <1>3, <2>1 DEF EnumFrom
  <2> QED
    BY <2>1, <2>2 DEF ToRead, ToSubscribe
<1>8. Subscription(f, c)'
  <2>1. CASE <<f, c>> \in subscribed
    BY <1>1, <2>1 DEF Subscription
  <2>2. CASE ToSubscribe(<<f, c>>) /\ About(posted, {"changed"}, c) = {}
    <3>1. PICK k \in DOMAIN main.todo : k > 1 /\ main.todo[k] = <<f, c>>
      BY <1>1, <2>2 DEF ToSubscribe
    <3>2. ToSubscribe(<<f, c>>)'
      BY <1>7, <3>1
    <3> QED
      BY <1>1, <2>2, <3>2 DEF Subscription, About
  <2> QED
    BY <2>1, <2>2 DEF EntryInv, Subscription
<1>9. Latest(f, c)'
  BY <1>1 DEF EntryInv, Latest, LastIn, About
<1>10. Shown(f, c)'
  <2>1. CASE d = c
    <3>1. Shows(d, value[d], TRUE) \in InStep(c)'
      BY <1>1, <2>1 DEF Shows, InStep
    <3>2. /\ LastIn(wire', {"record"}, c, InStep(c)')
          /\ About(wire', {"record"}, c) = {} => panel'[c] \in InStep(c)'
      BY <1>3, <1>5, <2>1, <3>1, PassThis
    <3> QED
      BY <3>2 DEF Shown
  <2>2. CASE d # c
    <3>1. PanelKept(c)
      BY <1>1, <1>3, <1>5, <2>2, PassOther
    <3>2. ToRead(<<f, c>>) => ToRead(<<f, c>>)'
      <4> SUFFICES ASSUME ToRead(<<f, c>>) PROVE ToRead(<<f, c>>)'
        OBVIOUS
      <4>1. PICK k \in DOMAIN main.todo : main.todo[k] = <<f, c>>
        BY DEF ToRead
      <4>2. k # 1
        BY <1>2, <2>2, <4>1
      <4> QED
        BY <1>7, <4>1, <4>2
    <3>3. About(posted', {"changed"}, c) = About(posted, {"changed"}, c)
      BY <1>1 DEF About
    <3>4. c \in DOMAIN pending'[f] \/ (value'[c] = value[c] /\ c \notin DOMAIN pending[f])
      BY <1>1
    <3>5. c \in misled => c \in misled'
      BY <1>3, <2>2
    <3> QED
      BY <1>1, <3>1, <3>2, <3>3, <3>4, <3>5, ShownKept DEF EntryInv
  <2> QED
    BY <2>1, <2>2
<1> QED
  BY <1>8, <1>9, <1>10 DEF EntryInv

(* Values that are read again are of volatile controls.                    *)
LEMMA RereadDevicePanel ==
  ASSUME TypeInv, NEW f, NEW c, EntryInv(f, c), NEW g \in Fds, RereadDevice(g)
  PROVE  EntryInv(f, c)'
<1>1. UNCHANGED <<subscribed, pending, value, misled, main, asks, wire, drag, panel>>
  BY DEF RereadDevice, driverVars, panelVars
<1>2. CASE UNCHANGED posted
  BY <1>1, <1>2, EntryKept
<1>3. CASE SendUpdates(volatiles[g])
  <2>1. PICK s \in [1 .. Cardinality(volatiles[g]) -> volatiles[g]] :
          posted' = posted \o [i \in DOMAIN s |-> Event("reread", s[i], value[s[i]])]
    BY <1>3 DEF SendUpdates
  <2> DEFINE t == [i \in DOMAIN s |-> Event("reread", s[i], value[s[i]])]
  <2>2. Cardinality(volatiles[g]) \in Nat /\ volatiles[g] \subseteq Controls
    BY FS_CardinalityType DEF TypeInv, ShapeInv, DevicesTypeOK
  <2>3. \A i \in DOMAIN s : s[i] \in Controls /\ value[s[i]] \in Values
    BY <2>2 DEF TypeInv, DevicesTypeOK
  <2>4. \A i \in DOMAIN s : t[i] \in EventType /\ t[i].kind = "reread"
    BY <2>3 DEF Event, EventType
  <2> DEFINE changes == {"changed"}
  <2>5. t \in Seq(EventType) /\ \A i \in DOMAIN t : t[i].kind \notin changes
    BY <2>2, <2>4
  <2>6. posted \in Seq(EventType) /\ posted' = posted \o t
    BY <2>1 DEF TypeInv, QueueTypes
  <2> HIDE DEF t, changes
  <2>7. /\ About(posted', changes, c) = About(posted, changes, c)
        /\ \A V : LastIn(posted, changes, c, V) => LastIn(posted', changes, c, V)
    <3>1. /\ About(posted \o t, changes, c) = About(posted, changes, c)
          /\ \A V : LastIn(posted, changes, c, V) => LastIn(posted \o t, changes, c, V)
      BY <2>5, <2>6, ConcatOther, Zenon
    <3> QED
      BY <2>6, <3>1, Zenon
  <2> USE DEF changes
  <2>8. Subscription(f, c)'
    BY <1>1, <2>7 DEF EntryInv, Subscription, ToSubscribe, ToRead
  <2>9. Latest(f, c)'
    BY <1>1, <2>7 DEF EntryInv, Latest
  <2>10. Shown(f, c)'
    BY <1>1, <2>7 DEF EntryInv, Shown, ToRead, Reopened, About, LastIn, InStep
  <2> QED
    BY <2>8, <2>9, <2>10 DEF EntryInv
<1> QED
  BY <1>2, <1>3 DEF RereadDevice

(* The thread takes an event from a device and posts it.                   *)
LEMMA DequeuePanel ==
  ASSUME TypeInv, SubscribedInv, Works, NEW f, NEW c, OfLayout(f, c), EntryInv(f, c), RunHandles, Unrelated
  PROVE  EntryInv(f, c)'
<1>1. UNCHANGED <<subscribed, value, misled, main, asks, wire, drag, panel>>
  BY DEF RunHandles, Unrelated, panelVars
<1>2. CASE UNCHANGED <<pending, posted>>
  BY <1>1, <1>2, EntryKept
<1>3. ASSUME NEW g \in Fds, NEW d \in DOMAIN pending[g],
             pending' = [pending EXCEPT ![g] = [e \in DOMAIN pending[g] \ {d} |-> pending[g][e]]],
             posted' = Append(posted, Event("changed", d, pending[g][d]))
      PROVE  EntryInv(f, c)'
  <2> DEFINE m == Event("changed", d, pending[g][d])
  <2>1. PendingType /\ posted \in Seq(EventType) /\ f \in Fds /\ c \in Controls
    BY DEF TypeInv, QueueTypes, OfLayout
  <2>2. d \in Controls /\ pending[g][d] \in Values
    BY <1>3, <2>1 DEF PendingType
  <2>3. m \in EventType /\ m.kind = "changed" /\ m.id = d /\ m.val = pending[g][d]
    BY <2>2 DEF Event, EventType
  <2>4. posted' = Append(posted, m)
    BY <1>3
  <2> HIDE DEF m
  <2>5. CASE d = c
    <3>1. <<g, c>> \in subscribed /\ \E n \in DOMAIN Layout[dev] : Layout[dev][n] = <<g, c>>
      BY <1>3, <2>5 DEF SubscribedInv
    <3>2. g = f
      BY <3>1, OnlyDevice
    <3>3. m.val = value'[c]
      BY <1>1, <1>3, <2>3, <2>5, <3>2 DEF EntryInv, Latest
    <3>4. c \notin DOMAIN pending'[f]
      BY <1>3, <2>1, <2>5, <3>2 DEF PendingType
    <3> DEFINE changes == {"changed"}
               V == {value'[c]}
    <3>5. m.kind \in changes /\ m.val \in V
      BY <2>3, <3>3
    <3> HIDE DEF changes, V
    <3>6. About(Append(posted, m), changes, c) # {} /\ LastIn(Append(posted, m), changes, c, V)
      BY <2>1, <2>3, <2>5, <3>5, AppendThis
    <3>7. About(posted', {"changed"}, c) # {} /\ LastIn(posted', {"changed"}, c, {value'[c]})
      BY <2>4, <3>6 DEF changes, V
    <3>8. <<f, c>> \in subscribed'
      BY <1>1, <3>1, <3>2
    <3> QED
      BY <3>4, <3>7, <3>8 DEF EntryInv, Subscription, Latest, Shown
  <2>6. CASE d # c
    <3>1. /\ c \in DOMAIN pending'[f] <=> c \in DOMAIN pending[f]
          /\ c \in DOMAIN pending[f] => pending'[f][c] = pending[f][c]
      BY <1>3, <2>1, <2>6 DEF PendingType
    <3>2. /\ About(posted', {"changed"}, c) = About(posted, {"changed"}, c)
          /\ \A V : LastIn(posted, {"changed"}, c, V) => LastIn(posted', {"changed"}, c, V)
      BY <2>1, <2>3, <2>4, <2>6, AppendOther
    <3>3. Subscription(f, c)'
      BY <1>1, <3>2 DEF EntryInv, Subscription, ToSubscribe, ToRead
    <3>4. Latest(f, c)'
      BY <1>1, <3>1, <3>2 DEF EntryInv, Latest
    <3>5. Shown(f, c)'
      BY <1>1, <3>1, <3>2 DEF EntryInv, Shown, ToRead, Reopened, About, LastIn, InStep
    <3> QED
      BY <3>3, <3>4, <3>5 DEF EntryInv
  <2> QED
    BY <2>5, <2>6
<1>4. PICK e \in run.pfds : IF e.pri THEN DequeuesEvent(e.fd) ELSE UNCHANGED <<pending, posted>>
  BY DEF RunHandles
<1>5. e.fd \in Fds
  BY <1>4 DEF TypeInv, DevicesTypeOK, HandlerTypeOK
<1> QED
  BY <1>2, <1>3, <1>4, <1>5 DEF DequeuesEvent

(* The main thread delivers an event or a value that was read again.       *)
LEMMA DeliverPanel ==
  ASSUME TypeInv, WireInv, RereadInv, NEW f, NEW c, OfLayout(f, c), EntryInv(f, c), Delivers
  PROVE  EntryInv(f, c)'
<1> DEFINE e == Head(posted)
           changes == {"changed"}
           V == {value[c]}
<1>1. /\ UNCHANGED <<subscribed, pending, value, main, drag, asks>>
      /\ posted # <<>> /\ posted' = Tail(posted)
      /\ IF e.kind = "changed" THEN PassData(e.id, e.val, FALSE) /\ misled' = misled \ {e.id}
                               ELSE PassExtControl(e.id, e.val) /\ UNCHANGED misled
  BY DEF Delivers, driverVars
<1>2. /\ posted \in Seq(EventType) /\ c \in Controls
      /\ e \in EventType /\ e = posted[1] /\ 1 \in DOMAIN posted
  BY <1>1 DEF TypeInv, QueueTypes, OfLayout
<1>3. e.id \in Controls /\ e.val \in Values /\ FALSE \in BOOLEAN /\ e.kind \in {"changed", "reread"}
  BY <1>2 DEF EventType
<1>4. e.kind = "reread" => Kind[e.id] = "volatile"
  BY <1>2 DEF RereadInv
<1>5. e.kind \in changes <=> e.kind = "changed"
  OBVIOUS
<1> HIDE DEF e, changes, V
<1>6. /\ About(posted, changes, c) = {} => About(posted', changes, c) = {}
      /\ e.kind \notin changes \/ e.id # c =>
           (About(posted', changes, c) = {} => About(posted, changes, c) = {})
      /\ LastIn(posted, changes, c, V) => LastIn(posted', changes, c, V)
      /\ /\ LastIn(posted, changes, c, V) /\ About(posted', changes, c) = {}
         /\ e.kind \in changes /\ e.id = c
         => e.val \in V
  BY <1>1, <1>2, TailAbout DEF e
<1>7. Subscription(f, c)'
  BY <1>1, <1>6 DEF EntryInv, Subscription, ToSubscribe, ToRead, changes
<1>8. Latest(f, c)'
  BY <1>1, <1>6 DEF EntryInv, Latest, changes, V
<1>9. CASE e.kind = "changed" /\ e.id = c
  <2>1. CASE c \in DOMAIN pending'[f] \/ About(posted', changes, c) # {}
    BY <1>7, <1>8, <2>1 DEF EntryInv, Shown, changes
  <2>2. CASE c \notin DOMAIN pending'[f] /\ About(posted', changes, c) = {}
    <3>1. LastIn(posted, changes, c, V)
      BY <1>1, <2>2 DEF EntryInv, Latest, changes, V
    <3>2. e.val = value'[c]
      BY <1>1, <1>5, <1>6, <1>9, <2>2, <3>1 DEF V
    <3>3. Shows(c, e.val, FALSE) \in InStep(c)'
      BY <3>2 DEF Shows, LosesEntries, InStep
    <3>4. /\ LastIn(wire', {"record"}, c, InStep(c)')
          /\ About(wire', {"record"}, c) = {} => panel'[c] \in InStep(c)'
      BY <1>1, <1>3, <1>9, <3>3, PassThis
    <3> QED
      BY <1>7, <1>8, <3>4 DEF EntryInv, Shown
  <2> QED
    BY <2>1, <2>2
<1>10. CASE e.kind # "changed" \/ e.id # c
  <2>1. e.id # c
    BY <1>3, <1>4, <1>10 DEF OfLayout
  <2>2. PanelKept(c)
    BY <1>1, <1>2, <1>3, <2>1, PassOther
  <2>3. c \in misled => c \in misled'
    BY <1>1, <2>1
  <2>4. About(posted', changes, c) = {} => About(posted, changes, c) = {}
    BY <1>6, <2>1
  <2>5. Shown(f, c)'
    <3>1. CASE About(posted', changes, c) # {}
      BY <3>1 DEF Shown, changes
    <3>2. CASE About(posted', changes, c) = {}
      BY <1>1, <2>2, <2>3, <2>4, <3>2 DEF EntryInv, Shown, PanelKept, ToRead, InStep, changes
    <3> QED
      BY <3>1, <3>2
  <2> QED
    BY <1>7, <1>8, <2>5 DEF EntryInv
<1> QED
  BY <1>9, <1>10

(* The page takes a message: it shows a record, or empties its list and    *)
(* asks for the controls again.                                            *)
LEMMA PageHearsPanel ==
  ASSUME TypeInv, WireInv, Works, NEW f, NEW c, OfLayout(f, c), EntryInv(f, c), PageHears
  PROVE  EntryInv(f, c)'
<1> DEFINE m == Head(wire)
           records == {"record"}
           V == InStep(c)
<1>1. /\ UNCHANGED <<subscribed, pending, posted, value, main, misled, drag>>
      /\ wire # <<>> /\ wire' = Tail(wire)
      /\ panel' = CASE m.kind = "record" -> [panel EXCEPT ![m.id] = m.val]
                  [] m.kind = "value" ->
                       [panel EXCEPT ![m.id] = IF @ \in {NoWidget, Emptied} THEN @ ELSE m.val]
                  [] OTHER -> EmptyPanel
      /\ asks' = (asks \/ m.kind = "opened")
  BY DEF PageHears, driverVars
<1>2. /\ wire \in Seq(MsgType) /\ c \in Controls /\ panel \in [Controls -> Values \cup {NoWidget, Emptied}]
      /\ m \in MsgType /\ m = wire[1] /\ 1 \in DOMAIN wire
  BY <1>1 DEF TypeInv, DevicesTypeOK, QueueTypes, OfLayout
<1>3. m.id \in Controls /\ m.kind \in {"record", "value", "opened"} /\ (m.kind = "value" => m.id # c)
  <2>1. m.kind \in {"record", "value", "opened", "closed"} /\ m.id \in Controls
    BY <1>2 DEF MsgType
  <2>2. m.kind # "closed" /\ (m.kind = "value" => Kind[m.id] = "volatile")
    BY <1>2 DEF WireInv, Works
  <2> QED
    BY <2>1, <2>2 DEF OfLayout
<1>4. m.kind \in records <=> m.kind = "record"
  OBVIOUS
<1>5. \A k \in DOMAIN wire : k # 1 => k - 1 \in DOMAIN wire' /\ wire'[k - 1] = wire[k]
  BY <1>1, <1>2
<1> HIDE DEF m, records, V
<1>6. /\ m.kind \notin records \/ m.id # c =>
           (About(wire', records, c) = {} => About(wire, records, c) = {})
      /\ LastIn(wire, records, c, V) => LastIn(wire', records, c, V)
      /\ /\ LastIn(wire, records, c, V) /\ About(wire', records, c) = {}
         /\ m.kind \in records /\ m.id = c
         => m.val \in V
  BY <1>1, <1>2, TailAbout DEF m
<1>7. Subscription(f, c)' /\ Latest(f, c)'
  BY <1>1 DEF EntryInv, Subscription, Latest, ToSubscribe, ToRead, About, LastIn
<1>8. Reopened => Reopened'
  <2>1. CASE asks \/ m.kind = "opened"
    BY <1>1, <2>1 DEF Reopened
  <2>2. ASSUME m.kind # "opened", NEW k \in DOMAIN wire, wire[k].kind = "opened" PROVE Reopened'
    <3>1. k # 1
      BY <1>2, <2>2
    <3> QED
      BY <1>5, <2>2, <3>1 DEF Reopened
  <2> QED
    BY <2>1, <2>2 DEF Reopened
<1>9. m.kind = "opened" => Reopened'
  BY <1>1 DEF Reopened
<1>10. CASE m.kind # "opened" /\ LastIn(wire, records, c, V)
            /\ (About(wire, records, c) = {} => panel[c] \in V)
  <2>1. LastIn(wire', records, c, V)
    BY <1>6, <1>10
  <2>2. About(wire', records, c) = {} => panel'[c] \in V
    <3> SUFFICES ASSUME About(wire', records, c) = {} PROVE panel'[c] \in V
      OBVIOUS
    <3>1. CASE m.kind = "record" /\ m.id = c
      <4>1. m.val \in V /\ panel' = [panel EXCEPT ![c] = m.val]
        BY <1>1, <1>4, <1>6, <1>10, <3>1
      <4> QED
        BY <1>2, <4>1
    <3>2. CASE m.id # c
      <4>1. panel[c] \in V
        BY <1>6, <1>10, <3>2
      <4>2. panel'[c] = panel[c]
        <5>1. CASE m.kind = "record"
          BY <1>1, <1>2, <1>3, <3>2, <5>1
        <5>2. CASE m.kind = "value"
          BY <1>1, <1>2, <1>3, <3>2, <5>2
        <5> QED
          BY <1>3, <1>10, <5>1, <5>2
      <4> QED
        BY <4>1, <4>2
    <3> QED
      BY <1>3, <1>10, <3>1, <3>2
  <2>3. Shown(f, c)'
    BY <1>1, <2>1, <2>2 DEF Shown, InStep, records, V
  <2> QED
    BY <1>7, <2>3 DEF EntryInv
<1>11. CASE \/ c \in DOMAIN pending[f] \/ About(posted, {"changed"}, c) # {}
            \/ c \in misled \/ ToRead(<<f, c>>) \/ Reopened \/ (drag.on /\ drag.id = c)
            \/ m.kind = "opened"
  <2>1. Shown(f, c)'
    BY <1>1, <1>8, <1>9, <1>11 DEF Shown, ToRead, About
  <2> QED
    BY <1>7, <2>1 DEF EntryInv
<1> QED
  BY <1>10, <1>11 DEF EntryInv, Shown, records, V

LEMMA PanelInvStep ==
  /\ TypeInv /\ OpenInv /\ ErasedInv /\ OwnerInv
  /\ SubscribedInv /\ WireInv /\ RereadInv /\ PanelInv /\ [Next]_vars
  => PanelInv'
<1> SUFFICES ASSUME TypeInv, OpenInv, ErasedInv, OwnerInv, SubscribedInv, WireInv, RereadInv, PanelInv,
                    [Next]_vars, Works'
             PROVE  PanelInv'
  BY DEF PanelInv
<1>0. ASSUME NEW cam \in Cameras, OpenCamera(cam), OpenSucceeds(cam) PROVE PanelInv'
  BY <1>0, OpenPanel
<1> SUFFICES ASSUME ~\E cam \in Cameras : OpenCamera(cam) /\ OpenSucceeds(cam) PROVE PanelInv'
  BY <1>0
<1>1. Works /\ UNCHANGED dev /\ dev \in Cameras
  BY WorksBefore, WorksOpen
<1>2. ASSUME NEW i \in DOMAIN Layout[dev], Kind[Layout[dev][i][2]] # "volatile"
      PROVE  OfLayout(Layout[dev][i][1], Layout[dev][i][2]) /\ EntryInv(Layout[dev][i][1], Layout[dev][i][2])
  <2>1. /\ Layout[dev][i] = <<Layout[dev][i][1], Layout[dev][i][2]>>
        /\ Layout[dev][i][1] \in Fds /\ Layout[dev][i][2] \in Controls
    BY <1>1, LayoutEntries
  <2> QED
    BY <1>1, <1>2, <2>1 DEF OfLayout, PanelInv
<1>3. ASSUME NEW f, NEW c, OfLayout(f, c), EntryInv(f, c) PROVE EntryInv(f, c)'
  <2>1. CASE HandlerThread
    <3>1. CASE RunHandles
      BY <1>1, <1>3, <2>1, <3>1, DequeuePanel DEF HandlerThread
    <3>2. CASE RunLoops \/ RunPolls \/ RunDrains
      BY <1>3, <2>1, <3>2, EntryKept DEF HandlerThread, Unrelated, RunLoops, RunPolls, RunDrains,
         driverVars, panelVars
    <3> QED
      BY <2>1, <3>1, <3>2 DEF HandlerThread, RunNext
  <2>2. CASE RereadBegins \/ RereaderExits
    BY <1>3, <2>2, EntryKept DEF RereadBegins, RereaderExits, driverVars, panelVars
  <2>3. ASSUME NEW g \in Fds, RereadDevice(g) PROVE EntryInv(f, c)'
    BY <1>3, <2>3, RereadDevicePanel
  <2>4. CASE EnumSubscribes
    BY <1>1, <1>3, <2>4, SubscribePanel
  <2>5. CASE EnumReads
    BY <1>1, <1>3, <2>5, ReadPanel
  <2>6. CASE Delivers
    BY <1>3, <2>6, DeliverPanel
  <2>7. CASE PageEnumerates \/ SliderReleased
    BY <1>1, <1>3, <2>7, RereadPanel
  <2>8. CASE DialogEnds \/ CloseCamera \/ RereaderJoined \/ CloseFds
    BY <1>1, <2>8 DEF DialogEnds, CloseCamera, EndRereader, RereaderJoined, CloseFds, Works
  <2>9. CASE StopNext /\ Unrelated
    BY <1>1, <2>9 DEF StopNext, StopWritesOne, StopWritesMax, StopReads, StopUnsubscribes, Deleted,
       OpenInv, Works
  <2>10. CASE PageHears
    BY <1>1, <1>3, <2>10, PageHearsPanel
  <2>11. ASSUME NEW cam \in Cameras, OpenCamera(cam) PROVE FALSE
    BY <1>1, <2>11 DEF OpenCamera, Works
  <2>12. ASSUME NEW d \in Controls, NEW v \in Values,
                \/ SetEnumerationControlValue(d, v) \/ SetEnumerationControlValueIntList(d, v)
                \/ SliderMoves(d, v) \/ SetAuto(d, v)
                \/ \E e \in Values : PageSets(d, e, v)
         PROVE EntryInv(f, c)'
    BY <1>1, <1>3, <2>12, UserPanel
  <2>13. ASSUME NEW g \in Fds, NEW d \in Controls, NEW v \in Values, DeviceChanges(g, d, v)
         PROVE  EntryInv(f, c)'
    BY <1>1, <1>3, <2>13, DevicePanel
  <2>14. ASSUME NEW g \in Fds, Unplugged(g) PROVE EntryInv(f, c)'
    BY <1>3, <2>14, EntryKept DEF Unplugged, DeviceFails, panelVars
  <2>15. CASE UNCHANGED vars
    BY <1>3, <2>15, EntryKept DEF vars, driverVars, panelVars
  <2> QED
    BY <2>1, <2>2, <2>3, <2>4, <2>5, <2>6, <2>7, <2>8, <2>9, <2>10, <2>11, <2>12, <2>13, <2>14, <2>15
       DEF Next, Rereader, MainThread, Users, Devices
<1> QED
  BY <1>1, <1>2, <1>3 DEF PanelInv

-----------------------------------------------------------------------------
(* The inputs of the page.  Where the user has left something, the page    *)
(* has a record, and what was left is the value, or the record is about to *)
(* change and to take it away, or it has been overruled.                   *)
OpenedComes == \E k \in DOMAIN wire : wire[k].kind = "opened"

InputInv ==
  /\ entry \in [Controls -> Values \cup {NoWidget}] /\ overruled \subseteq Controls
  /\ \A c \in Controls : entry[c] # NoWidget =>
       /\ front = "page" /\ panel[c] \notin {NoWidget, Emptied}
       /\ c \in overruled \/ entry[c] = value[c] \/ panel[c] # value[c] \/ OpenedComes

LEMMA InputInvInit == Init => InputInv
BY DEF Init, InputInv, EmptyPanel

(* The sliders are the window's.                                           *)
DragInv == drag.on => front = "window"

LEMMA DragInvInit == Init => DragInv
BY DEF Init, DragInv, NoDrag

LEMMA DragInvStep == DragInv /\ [Next]_vars => DragInv'
<1> SUFFICES ASSUME DragInv, [Next]_vars PROVE DragInv'
  OBVIOUS
<1>0. ASSUME UNCHANGED <<front, drag>> PROVE DragInv'
  BY <1>0 DEF DragInv
<1>1. CASE HandlerThread \/ (StopNext /\ Unrelated) \/ UNCHANGED vars
  BY <1>0, <1>1 DEF HandlerThread, Unrelated, vars, panelVars
<1>2. CASE Rereader \/ PageHears
  BY <1>0, <1>2 DEF Rereader, RereadBegins, RereadDevice, RereaderExits, PageHears, panelVars
<1>3. CASE EnumSubscribes \/ EnumReads \/ Delivers \/ PageEnumerates
  BY <1>0, <1>3 DEF EnumSubscribes, EnumReads, Delivers, PageEnumerates, panelVars
<1>4. CASE DialogEnds \/ CloseCamera \/ RereaderJoined \/ CloseFds
  BY <1>0, <1>4 DEF DialogEnds, CloseCamera, EndRereader, RereaderJoined, CloseFds, panelVars
<1>5. ASSUME NEW cam \in Cameras, OpenCamera(cam) PROVE DragInv'
  BY <1>0, <1>5 DEF OpenCamera
<1>6. ASSUME NEW c \in Controls, NEW v \in Values,
             \/ SetsInWindow(c, v) \/ SetAuto(c, v)
             \/ \E e \in Values : PageSets(c, e, v)
      PROVE DragInv'
  BY <1>0, <1>6 DEF SetsInWindow, SetAuto, PageSets, UserActs
<1>7. ASSUME NEW c \in Controls, NEW v \in Values, SliderMoves(c, v) PROVE DragInv'
  BY <1>7 DEF SliderMoves, UserActs, DragInv
<1>8. CASE SliderReleased
  BY <1>8 DEF SliderReleased, NoDrag, DragInv
<1>9. CASE Devices
  BY <1>0, <1>9 DEF Devices, DeviceChanges, Unplugged, panelVars
<1> QED
  BY <1>1, <1>2, <1>3, <1>4, <1>5, <1>6, <1>7, <1>8, <1>9
     DEF Next, MainThread, Users, SetEnumerationControlValue, SetEnumerationControlValueIntList

(* Nothing happens to the inputs, and what the window does never matters.  *)
LEMMA InputsKept ==
  ASSUME InputInv, UNCHANGED <<front, inputVars>>,
         \/ front = "window"
         \/ UNCHANGED <<panel, value>> /\ (OpenedComes => OpenedComes')
  PROVE  InputInv'
BY DEF InputInv, inputVars

(* A message that is sent follows those on the way.                        *)
LEMMA SendsKeepsOpened ==
  ASSUME TypeInv, NEW m, Sends(m) PROVE OpenedComes => OpenedComes'
<1>1. wire \in Seq(MsgType) /\ wire' = Append(wire, m)
  BY DEF TypeInv, QueueTypes, Sends
<1>2. \A k \in DOMAIN wire : k \in DOMAIN wire' /\ wire'[k] = wire[k]
  BY <1>1
<1> QED
  BY <1>2 DEF OpenedComes

LEMMA PassKeepsInputs ==
  ASSUME TypeInv, NEW c, NEW v, NEW b, PassData(c, v, b) \/ PassExtControl(c, v)
  PROVE  front = "window" \/ (UNCHANGED panel /\ (OpenedComes => OpenedComes'))
<1>1. front # "window" => UNCHANGED panel /\ \E m : Sends(m)
  <2>1. ASSUME front # "window", PassData(c, v, b)
        PROVE  UNCHANGED panel /\ Sends(Msg("record", c, Shows(c, v, b)))
    BY <2>1 DEF PassData, PassToPage
  <2>2. ASSUME front # "window", PassExtControl(c, v)
        PROVE  UNCHANGED panel /\ Sends(Msg("value", c, v))
    BY <2>2 DEF PassExtControl
  <2> QED
    BY <2>1, <2>2
<1>2. (\E m : Sends(m)) => (OpenedComes => OpenedComes')
  BY SendsKeepsOpened
<1> QED
  BY <1>1, <1>2

(* A value changes: either the record is going to follow, or the entry is  *)
(* overruled.                                                              *)
LEMMA SupersededInputs ==
  ASSUME TypeInv, InputInv, NEW c \in Controls, NEW v \in Values, UNCHANGED front,
         front = "window" \/ (UNCHANGED panel /\ (OpenedComes => OpenedComes')),
         value' = [value EXCEPT ![c] = v], Supersedes(c, v)
  PROVE  InputInv'
<1>1. value \in [Controls -> Values] /\ overruled' \subseteq Controls
  BY DEF TypeInv, DevicesTypeOK, InputInv, Supersedes
<1>2. ASSUME NEW d \in Controls, entry'[d] # NoWidget
      PROVE  /\ front' = "page" /\ panel'[d] \notin {NoWidget, Emptied}
             /\ d \in overruled' \/ entry'[d] = value'[d] \/ panel'[d] # value'[d] \/ OpenedComes'
  <2>1. /\ entry[d] # NoWidget /\ front = "page" /\ UNCHANGED panel
        /\ panel[d] \notin {NoWidget, Emptied}
        /\ d \in overruled \/ entry[d] = value[d] \/ panel[d] # value[d] \/ OpenedComes
    BY <1>2 DEF InputInv, Supersedes
  <2>2. CASE d = c
    BY <1>1, <2>1, <2>2 DEF Supersedes
  <2>3. CASE d # c
    BY <1>1, <2>1, <2>3 DEF Supersedes
  <2> QED
    BY <2>1, <2>2, <2>3
<1> QED
  BY <1>1, <1>2 DEF InputInv, Supersedes

(* The user enters something, which is sent to the device.                 *)
LEMMA PageSetsInputs ==
  ASSUME TypeInv, InputInv, NEW c \in Controls, NEW e \in Values, NEW v \in Values, PageSets(c, e, v)
  PROVE  InputInv'
<1>1. /\ front = "page" /\ panel[c] \notin {NoWidget, Emptied} /\ UNCHANGED <<front, panel, wire>>
      /\ value \in [Controls -> Values]
  BY DEF PageSets, UserActs, TypeInv, DevicesTypeOK
<1>2. PICK accepted \in BOOLEAN :
        /\ SetExtControl(c, v, accepted)
        /\ IF Kind[c] = "switch" THEN v # panel[c] /\ UNCHANGED inputVars
           ELSE /\ entry' = [entry EXCEPT ![c] = e]
                /\ overruled' = IF accepted /\ e = v THEN overruled \ {c} ELSE overruled \cup {c}
  BY DEF PageSets
<1>3. IF accepted THEN value' = [value EXCEPT ![c] = v] ELSE UNCHANGED value
  BY <1>2 DEF SetExtControl, ValueSet
<1>4. OpenedComes => OpenedComes'
  BY <1>1 DEF OpenedComes
<1>5. entry' \in [Controls -> Values \cup {NoWidget}] /\ overruled' \subseteq Controls
  BY <1>2 DEF InputInv, inputVars
<1>6. ASSUME NEW d \in Controls, entry'[d] # NoWidget
      PROVE  /\ front' = "page" /\ panel'[d] \notin {NoWidget, Emptied}
             /\ d \in overruled' \/ entry'[d] = value'[d] \/ panel'[d] # value'[d] \/ OpenedComes'
  <2>1. CASE d = c /\ Kind[c] = "switch"
    BY <1>1, <1>2, <1>3, <1>4, <1>6, <2>1 DEF InputInv, inputVars
  <2>2. CASE d = c /\ Kind[c] # "switch"
    BY <1>1, <1>2, <1>3, <2>2 DEF InputInv
  <2>3. CASE d # c
    <3>1. UNCHANGED entry[d] /\ (d \in overruled => d \in overruled') /\ UNCHANGED value[d]
      BY <1>1, <1>2, <1>3, <2>3 DEF InputInv, inputVars
    <3> QED
      BY <1>1, <1>4, <1>6, <3>1 DEF InputInv
  <2> QED
    BY <2>1, <2>2, <2>3
<1> QED
  BY <1>5, <1>6 DEF InputInv

(* The page hears of a record or of another camera.                        *)
LEMMA PageHearsInputs == ASSUME TypeInv, InputInv, PageHears PROVE InputInv'
<1> DEFINE m == Head(wire)
<1>1. /\ wire # <<>> /\ wire' = Tail(wire) /\ UNCHANGED <<front, value>>
      /\ panel' = CASE m.kind = "record" -> [panel EXCEPT ![m.id] = m.val]
                  [] m.kind = "value" ->
                       [panel EXCEPT ![m.id] = IF @ \in {NoWidget, Emptied} THEN @ ELSE m.val]
                  [] OTHER -> EmptyPanel
  BY DEF PageHears
<1>8. IF m.kind \in {"opened", "closed"} THEN InputsFollow(Controls)
      ELSE InputsFollow({m.id}) \/ (panel'[m.id] = panel[m.id] /\ InputsFollow({}))
  BY DEF PageHears
<1>2. /\ wire \in Seq(MsgType) /\ panel \in [Controls -> Values \cup {NoWidget, Emptied}]
      /\ m \in MsgType /\ m = wire[1]
  BY <1>1 DEF TypeInv, DevicesTypeOK, QueueTypes
<1>3. m.id \in Controls /\ m.kind \in {"record", "value", "opened", "closed"}
  BY <1>2 DEF MsgType
<1>4. \A k \in DOMAIN wire : k # 1 => k - 1 \in DOMAIN wire' /\ wire'[k - 1] = wire[k]
  BY <1>1, <1>2
<1> HIDE DEF m
<1>5. ASSUME NEW ids \in SUBSET Controls, InputsFollow(ids),
             \A d \in Controls \ ids : panel'[d] = panel[d],
             ids # Controls => (OpenedComes => OpenedComes')
      PROVE  InputInv'
  <2>1. /\ entry' \in [Controls -> Values \cup {NoWidget}] /\ overruled' \subseteq Controls
        /\ \A d \in Controls : entry'[d] = IF d \in ids THEN NoWidget ELSE entry[d]
    BY <1>5 DEF InputInv, InputsFollow
  <2>2. \A d \in Controls : d \in overruled /\ d \notin ids => d \in overruled'
    BY <1>5 DEF InputsFollow
  <2> QED
    BY <1>1, <1>5, <2>1, <2>2 DEF InputInv
<1>6. CASE m.kind \in {"opened", "closed"}
  BY <1>5, <1>6, <1>8
<1>7. CASE m.kind \in {"record", "value"}
  <2>1. OpenedComes => OpenedComes'
    BY <1>2, <1>4, <1>7 DEF OpenedComes
  <2>2. \A d \in Controls \ {m.id} : panel'[d] = panel[d]
    <3>1. CASE m.kind = "record"
      BY <1>1, <1>2, <3>1
    <3>2. CASE m.kind = "value"
      BY <1>1, <1>2, <3>2
    <3> QED
      BY <1>7, <3>1, <3>2
  <2>3. InputsFollow({m.id}) \/ (panel'[m.id] = panel[m.id] /\ InputsFollow({}))
    BY <1>7, <1>8
  <2>4. CASE InputsFollow({m.id})
    <3> DEFINE ids == {m.id}
    <3>1. ids \in SUBSET Controls /\ InputsFollow(ids) /\ \A d \in Controls \ ids : panel'[d] = panel[d]
      BY <1>3, <2>2, <2>4
    <3> HIDE DEF ids
    <3> QED
      BY <1>5, <2>1, <3>1
  <2>5. CASE panel'[m.id] = panel[m.id] /\ InputsFollow({})
    <3>1. \A d \in Controls \ {} : panel'[d] = panel[d]
      BY <2>2, <2>5
    <3> QED
      BY <1>5, <2>1, <2>5, <3>1
  <2> QED
    BY <2>3, <2>4, <2>5
<1> QED
  BY <1>3, <1>6, <1>7

LEMMA InputInvStep == TypeInv /\ DragInv /\ InputInv /\ [Next]_vars => InputInv'
<1> SUFFICES ASSUME TypeInv, DragInv, InputInv, [Next]_vars PROVE InputInv'
  OBVIOUS
<1>0. ASSUME UNCHANGED <<front, inputVars, panel, value, wire>> PROVE InputInv'
  BY <1>0, InputsKept DEF OpenedComes
<1>1. CASE HandlerThread \/ (StopNext /\ Unrelated)
  BY <1>0, <1>1 DEF HandlerThread, Unrelated, panelVars
<1>2. CASE Rereader
  BY <1>0, <1>2 DEF Rereader, RereadBegins, RereadDevice, RereaderExits, panelVars
<1>3. CASE EnumSubscribes \/ PageEnumerates \/ DialogEnds \/ CloseCamera \/ RereaderJoined
  BY <1>0, <1>3 DEF EnumSubscribes, PageEnumerates, DialogEnds, CloseCamera, EndRereader,
     RereaderJoined, panelVars
<1>4. CASE EnumReads
  <2>1. UNCHANGED <<front, inputVars, value>>
    BY <1>4 DEF EnumReads
  <2>2. CASE UNCHANGED <<panel, wire>>
    BY <1>0, <2>1, <2>2
  <2>3. ASSUME NEW c, NEW v, PassData(c, v, TRUE) PROVE InputInv'
    BY <2>1, <2>3, PassKeepsInputs, InputsKept
  <2> QED
    BY <1>4, <2>2, <2>3 DEF EnumReads
<1>5. CASE Delivers
  <2>1. UNCHANGED <<front, inputVars, value>>
    BY <1>5 DEF Delivers, cameraVars
  <2>2. ASSUME NEW c, NEW v, PassData(c, v, FALSE) \/ PassExtControl(c, v) PROVE InputInv'
    BY <2>1, <2>2, PassKeepsInputs, InputsKept
  <2> QED
    BY <1>5, <2>2 DEF Delivers
<1>6. CASE CloseFds
  <2>1. UNCHANGED <<front, inputVars, value>>
    BY <1>6 DEF CloseFds
  <2>2. CASE front = "window"
    BY <2>1, <2>2, InputsKept
  <2>3. CASE front # "window"
    <3>1. UNCHANGED panel /\ Sends(Msg("closed", AnyControl, AnyValue))
      BY <1>6, <2>3 DEF CloseFds
    <3> QED
      BY <2>1, <3>1, SendsKeepsOpened, InputsKept
  <2> QED
    BY <2>2, <2>3
<1>7. CASE PageHears
  BY <1>7, PageHearsInputs
<1>8. ASSUME NEW cam \in Cameras, OpenCamera(cam) PROVE InputInv'
  <2>1. UNCHANGED <<front, inputVars, panel>>
    BY <1>8 DEF OpenCamera
  <2>2. CASE Terminates \/ OpenFails(cam)
    BY <1>0, <2>1, <2>2 DEF Terminates, OpenFails
  <2>3. CASE OpenSucceeds(cam)
    <3>1. CASE front = "window"
      BY <2>1, <3>1, InputsKept
    <3>2. CASE front = "page"
      <4> DEFINE m == Msg("opened", AnyControl, AnyValue)
      <4>1. wire \in Seq(MsgType) /\ wire' = Append(wire, m)
        BY <2>3, <3>2 DEF OpenSucceeds, Sends, TypeInv, QueueTypes
      <4>2. m.kind = "opened"
        BY DEF Msg
      <4> HIDE DEF m
      <4>3. Len(wire) + 1 \in DOMAIN wire' /\ wire'[Len(wire) + 1] = m
        BY <4>1
      <4>4. OpenedComes'
        BY <4>2, <4>3 DEF OpenedComes
      <4> QED
        BY <2>1, <4>4 DEF InputInv, inputVars
    <3> QED
      BY <3>1, <3>2 DEF TypeInv, DevicesTypeOK
  <2> QED
    BY <1>8, <2>2, <2>3 DEF OpenCamera
<1>9. CASE SliderReleased
  <2>1. front = "window" /\ UNCHANGED <<front, inputVars>>
    BY <1>9 DEF SliderReleased, DragInv
  <2> QED
    BY <2>1, InputsKept
<1>10. ASSUME NEW c \in Controls, NEW v \in Values, SetsInWindow(c, v) \/ SliderMoves(c, v)
       PROVE  InputInv'
  <2>1. front = "window" /\ UNCHANGED <<front, inputVars>>
    BY <1>10 DEF SetsInWindow, SliderMoves, UserActs
  <2> QED
    BY <2>1, InputsKept
<1>11. ASSUME NEW c \in Controls, NEW v \in Values, SetAuto(c, v) PROVE InputInv'
  <2>1. UNCHANGED front /\ (front = "window" \/ (UNCHANGED panel /\ (OpenedComes => OpenedComes')))
    BY <1>11, PassKeepsInputs DEF SetAuto, UserActs
  <2>2. PICK accepted \in BOOLEAN :
          /\ SetExtControl(c, v, accepted)
          /\ IF accepted THEN Supersedes(c, v) ELSE UNCHANGED inputVars
    BY <1>11 DEF SetAuto
  <2>3. CASE accepted
    BY <2>1, <2>2, <2>3, SupersededInputs DEF SetExtControl, ValueSet
  <2>4. CASE ~accepted
    BY <2>1, <2>2, <2>4, InputsKept DEF SetExtControl
  <2> QED
    BY <2>3, <2>4
<1>12. ASSUME NEW c \in Controls, NEW e \in Values, NEW v \in Values, PageSets(c, e, v) PROVE InputInv'
  BY <1>12, PageSetsInputs
<1>13. ASSUME NEW f \in Fds, NEW c \in Controls, NEW v \in Values, DeviceChanges(f, c, v) PROVE InputInv'
  BY <1>13, SupersededInputs DEF DeviceChanges, OpenedComes
<1>14. ASSUME NEW f \in Fds, Unplugged(f) PROVE InputInv'
  BY <1>0, <1>14 DEF Unplugged, panelVars
<1>15. CASE UNCHANGED vars
  BY <1>0, <1>15 DEF vars, panelVars
<1> QED
  BY <1>1, <1>2, <1>3, <1>4, <1>5, <1>6, <1>7, <1>8, <1>9, <1>10, <1>11, <1>12, <1>13, <1>14, <1>15
     DEF Next, MainThread, Users, Devices, SetEnumerationControlValue, SetEnumerationControlValueIntList

(* Every variable keeps its type: descriptors and controls in the tables,  *)
(* the queues and the records of the threads are those the code can hold.  *)
THEOREM ControlsTypeCorrect == Spec => []ControlsTypeOK
<1>1. TypeInv /\ InputInv => ControlsTypeOK
  BY DEF TypeInv, InputInv, ControlsTypeOK
<1> QED
  BY <1>1, TypeInvInit, TypeInvStep, HandlerInvInit, HandlerInvStep, DragInvInit, DragInvStep,
     InputInvInit, InputInvStep, PTL DEF Spec

(* When nothing is on its way any more, the window and the records of the  *)
(* page hold the value of every control, whoever changed it last, and what *)
(* the page displays is in step where the device has not overruled what    *)
(* the user left there.                                                    *)
THEOREM PanelFollowsTheDevice == Spec => []PanelInStep
<1>1. TypeInv /\ PanelInv /\ InputInv => PanelInStep
  <2> SUFFICES ASSUME TypeInv, PanelInv, InputInv, Quiet, IsOpen, failed = {},
                      NEW c \in IdsOf(dev) \ misled, Kind[c] # "volatile"
               PROVE  /\ panel[c] \in InStep(c)
                      /\ c \notin overruled => Displayed(c) \in InStep(c)
    BY DEF PanelInStep
  <2>1. Works
    BY DEF Works, Quiet
  <2>2. PICK i \in DOMAIN Layout[dev] : c = Layout[dev][i][2]
    BY DEF IdsOf
  <2> DEFINE f == Layout[dev][i][1]
  <2>3. f \in Fds /\ c \in Controls
    BY <2>1, <2>2, WorksOpen, LayoutEntries
  <2>4. Shown(f, c)
    BY <2>1, <2>2 DEF PanelInv, EntryInv
  <2> HIDE DEF f
  <2>5. /\ c \notin DOMAIN pending[f] /\ About(posted, {"changed"}, c) = {}
        /\ ~ToRead(<<f, c>>) /\ ~Reopened /\ ~drag.on /\ About(wire, {"record"}, c) = {}
    BY <2>3 DEF Quiet, About, ToRead, Reopened
  <2>6. panel[c] \in InStep(c)
    BY <2>4, <2>5 DEF Shown
  <2>7. ASSUME c \notin overruled, entry[c] # NoWidget PROVE entry[c] = value[c]
    <3>1. panel[c] # Emptied /\ (entry[c] = value[c] \/ panel[c] # value[c] \/ OpenedComes)
      BY <2>3, <2>7 DEF InputInv
    <3>2. panel[c] = value[c] /\ ~OpenedComes
      BY <2>6, <3>1 DEF InStep, Quiet, OpenedComes
    <3> QED
      BY <3>1, <3>2
  <2> QED
    BY <2>6, <2>7 DEF Displayed, InStep
<1> QED
  BY <1>1, TypeInvInit, TypeInvStep, HandlerInvInit, HandlerInvStep, OpenInvInit, OpenInvStep,
     ErasedInvInit, ErasedInvStep, OwnerInvInit, OwnerInvStep, PanelInvInit, SubscribedInvStep,
     WireInvStep, RereadInvStep, PanelInvStep, DragInvInit, DragInvStep, InputInvInit, InputInvStep,
     PTL DEF Spec

=============================================================================
