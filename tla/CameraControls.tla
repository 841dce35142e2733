---------------------------- MODULE CameraControls ----------------------------
(***************************************************************************)
(* Camera.cpp from OpenDevice to CloseDevice: the device descriptors, the  *)
(* table of controls, the thread that reads volatile controls again every  *)
(* second, the events of V4L2EventHandler, and the panel that shows the    *)
(* controls, either in the window (V4L2Viewer with ControlsHolderWidget)   *)
(* or in the page (CameraBridge and app.js).                               *)
(*                                                                         *)
(* Signals between objects of the main thread are direct calls; the two    *)
(* threads post to the event queue of the main thread, and the bridge      *)
(* sends messages to the page in order.                                    *)
(***************************************************************************)
EXTENDS V4L2EventHandler, FiniteSets

CONSTANTS
  Cameras, NoCamera,
  Layout,      (* per camera: <<descriptor, id>> in the order of enumeration *)
  SubDevices,  (* per camera: descriptors of the sub-devices                *)
  Video,       (* descriptor of the video device                            *)
  Kind,        (* per id: its type, or "volatile"                           *)
  Autos,       (* ids of the automatics: switches, or menus (the exposure)  *)
  Fds0,        (* no descriptor yet: operator[] of the table yields 0       *)
  NoWidget,    (* no widget for the control, or nothing entered into it     *)
  Emptied,     (* the widget has lost its entries ("Unknown Value")         *)
  MaxOpens, MaxSets, MaxEvents,   (* bounds on what users and devices do    *)
  MaxWire      (* bound on the messages on the way to the page              *)

(* The descriptors of a camera's devices. *)
Opened(cam) == {Video} \cup {SubDevices[cam][i] : i \in DOMAIN SubDevices[cam]}

ASSUME VideoAssumption == Video \in Fds
ASSUME LayoutAssumption ==
  \A cam \in Cameras :
    /\ Layout[cam] \in Seq(Fds \X Controls)
    /\ SubDevices[cam] \in Seq(Fds \ {Video})
    /\ \A i, j \in DOMAIN SubDevices[cam] : SubDevices[cam][i] = SubDevices[cam][j] => i = j
    /\ \A i \in DOMAIN Layout[cam] : Layout[cam][i][1] \in Opened(cam)
    /\ \A i, j \in DOMAIN Layout[cam] : Layout[cam][i][2] = Layout[cam][j][2] => i = j

ASSUME KindAssumption ==
  /\ \A c \in Controls : Kind[c] \in {"integer", "switch", "menu", "intmenu", "volatile"}
  /\ Autos \subseteq {c \in Controls : Kind[c] \in {"switch", "menu"}}

VARIABLES
  front,       (* "window" or "page"                                        *)
  dev,         (* the camera whose descriptors are open                     *)
  openFds,     (* m_DeviceFileDescriptor, m_SubDeviceFileDescriptors        *)
  ctlFd,       (* m_ControlIdToFileDescriptorMap                            *)
  volatiles,   (* m_volatileControls                                        *)
  rereader,    (* m_pVolatileControlThread: control point, maps left        *)
  promised,    (* m_pStopVolatileControlThreadPromise has a value           *)
  value,       (* the controls in the open device                           *)
  main,        (* main thread: control point, controls left to enumerate    *)
  panel,       (* what the window or the page shows of each control         *)
  misled,      (* automatics shown with a value the device refused          *)
  entry,       (* what the user left in the inputs of the page              *)
  overruled,   (* entries that the device refused or changed (history)      *)
  drag,        (* slider being dragged and its last value                   *)
  wire,        (* bridge to page: messages on the way                       *)
  asks,        (* the page has asked for enumerateControls                  *)
  used         (* how often users and devices have acted                    *)

cameraVars == <<dev, openFds, ctlFd, volatiles, rereader, promised>>
inputVars == <<entry, overruled>>
panelVars == <<panel, misled, inputVars, drag, wire, asks>>
vars == <<handlerVars, driverVars, posted, front, cameraVars, value, main, panelVars, used>>

Msg(kind, c, v) == [kind |-> kind, id |-> c, val |-> v]
AnyControl == CHOOSE c \in Controls : TRUE
AnyValue == CHOOSE v \in Values : TRUE
NoDrag == [id |-> AnyControl, val |-> AnyValue, on |-> FALSE]
EmptyPanel == [c \in Controls |-> NoWidget]
Idle == [pc |-> "idle", todo |-> <<>>]
NotRereading(pc) == [pc |-> pc, left |-> {}]

DevicesTypeOK ==
  /\ HandlerTypeOK
  /\ front \in {"window", "page"} /\ dev \in Cameras \cup {NoCamera}
  /\ openFds \subseteq Fds
  /\ ctlFd \in [Controls -> Fds \cup {Fds0}]
  /\ volatiles \in [Fds -> SUBSET Controls]
  /\ rereader.pc \in {"none", "wait", "read", "exited"} /\ rereader.left \subseteq Fds
  /\ value \in [Controls -> Values]
  /\ main.pc \in {"idle", "subscribe", "read", "dialog", "join", "delete", "terminated"}
  /\ panel \in [Controls -> Values \cup {NoWidget, Emptied}]
  /\ misled \subseteq Controls

ControlsTypeOK ==
  /\ DevicesTypeOK
  /\ entry \in [Controls -> Values \cup {NoWidget}] /\ overruled \subseteq Controls

Init ==
  /\ NoHandler
  /\ subscribed = {} /\ pending = [f \in Fds |-> NoEvents] /\ failed = {} /\ posted = <<>>
  /\ front \in {"window", "page"}
  /\ dev = NoCamera /\ openFds = {}
  /\ ctlFd = [c \in Controls |-> Fds0] /\ volatiles = [f \in Fds |-> {}]
  /\ rereader = NotRereading("none") /\ promised = FALSE
  /\ value = [c \in Controls |-> AnyValue]
  /\ main = Idle
  /\ panel = EmptyPanel /\ misled = {} /\ entry = EmptyPanel /\ overruled = {}
  /\ drag = NoDrag /\ wire = <<>> /\ asks = FALSE
  /\ used = [opens |-> 0, sets |-> 0, events |-> 0]

(* Do ioctls on descriptor f for control c succeed? *)
IoOk(f, c) ==
  /\ f \in openFds \ failed
  /\ \E i \in DOMAIN Layout[dev] : Layout[dev][i] = <<f, c>>

IsOpen == Video \in openFds

(***************************************************************************)
(* The panel.  The window creates a widget for a control it does not have  *)
(* and updates the one it has; the page replaces its record.  An event,    *)
(* and the automatics, come with no entries of the menu: only the menu of  *)
(* the window that has entries keeps them.                                 *)
(***************************************************************************)
LosesEntries(c) ==
  \/ Kind[c] = "intmenu"
  \/ Kind[c] = "menu" /\ (front = "page" \/ panel[c] \in {NoWidget, Emptied})

Shows(c, v, entries) == IF ~entries /\ LosesEntries(c) THEN Emptied ELSE v

PassToWindow(c, v, entries) ==
  /\ panel' = [panel EXCEPT ![c] = Shows(c, v, entries)]
  /\ UNCHANGED wire

Sends(msg) == Len(wire) < MaxWire /\ wire' = Append(wire, msg)

PassToPage(c, v, entries) ==
  /\ Sends(Msg("record", c, Shows(c, v, entries)))
  /\ UNCHANGED panel

PassData(c, v, entries) ==
  IF front = "window" THEN PassToWindow(c, v, entries) ELSE PassToPage(c, v, entries)

(* V4L2Viewer::PassExtControl and CameraBridge::onControlUpdate: only for  *)
(* a control that is shown.                                                *)
PassExtControl(c, v) ==
  IF front = "window"
  THEN /\ panel' = [panel EXCEPT ![c] = IF @ \in {NoWidget, Emptied} THEN @ ELSE v]
       /\ UNCHANGED wire
  ELSE Sends(Msg("value", c, v)) /\ UNCHANGED panel

(***************************************************************************)
(* OpenDevice.  When it is called while the thread of an earlier call runs *)
(* (the device could not be opened, and nobody closed), assigning the      *)
(* running std::thread ends the process.                                   *)
(***************************************************************************)
ThreadStarted ==
  /\ rereader' = NotRereading("wait")
  /\ promised' = FALSE

EnumFrom(todo) == IF todo = <<>> THEN Idle ELSE [pc |-> "subscribe", todo |-> todo]
Rereads == IF IsOpen THEN EnumFrom(Layout[dev]) ELSE Idle

OpenSucceeds(cam) ==
  /\ dev' = cam
  /\ openFds' = Opened(cam)
  /\ Started(Append(SubDevices[cam], Video))
  /\ ThreadStarted
  /\ value' = [c \in Controls |-> AnyValue]
  /\ main' = EnumFrom(Layout[cam])
  /\ IF front = "page" THEN Sends(Msg("opened", AnyControl, AnyValue)) ELSE UNCHANGED wire

(* Mutant: the window reports a failed open and leaves the threads running. *)
AfterFailedOpenNothing == Idle

(* The sub-devices are opened all the same.  The window shows an error and *)
(* closes again; the page's openCamera only reports the failure.           *)
AfterFailedOpen ==
  IF front = "window" THEN [pc |-> "dialog", todo |-> <<>>] ELSE Idle

OpenFails(cam) ==
  /\ dev' = cam
  /\ openFds' = Opened(cam) \ {Video}
  /\ Started(SubDevices[cam])
  /\ ThreadStarted
  /\ main' = AfterFailedOpen
  /\ UNCHANGED <<value, wire>>

Terminates ==
  /\ main' = [pc |-> "terminated", todo |-> <<>>]
  /\ UNCHANGED <<handlerVars, dev, openFds, rereader, promised, value, wire>>

(* processEvents, at the beginning of the window's handler, delivers what  *)
(* the threads of the last camera have posted; so does the event loop      *)
(* before it gets to a call the page made after it heard of the close.     *)
OpenCamera(cam) ==
  /\ main.pc = "idle" /\ ~IsOpen /\ used.opens < MaxOpens /\ ~drag.on
  /\ posted = <<>> /\ wire = <<>>
  /\ used' = [used EXCEPT !.opens = @ + 1]
  /\ IF rereader.pc # "none" THEN Terminates ELSE OpenSucceeds(cam) \/ OpenFails(cam)
  /\ UNCHANGED <<driverVars, posted, front, ctlFd, volatiles, panel, misled, inputVars, drag,
                 asks>>

(***************************************************************************)
(* EnumAllControlNewStyle, per control: note it if it is volatile (under   *)
(* the mutex, which the reader holds while it reads), subscribe, and then  *)
(* read and show its value.  A device that is gone ends its enumeration.   *)
(***************************************************************************)
Skipped(todo, f) == SelectSeq(todo, LAMBDA e : e[1] # f)

EnumSubscribes ==
  /\ main.pc = "subscribe"
  /\ LET f == main.todo[1][1]
         c == main.todo[1][2]
     IN  IF IoOk(f, c)
         THEN /\ Kind[c] = "volatile" => rereader.pc # "read"
              /\ volatiles' = IF Kind[c] = "volatile" THEN [volatiles EXCEPT ![f] = @ \cup {c}]
                              ELSE volatiles
              /\ SubscribeControl(f, c)
              /\ main' = [main EXCEPT !.pc = "read"]
         ELSE /\ main' = EnumFrom(Skipped(main.todo, f))
              /\ UNCHANGED <<volatiles, subscribed>>
  /\ UNCHANGED <<handlerVars, pending, failed, posted, front, dev, openFds, ctlFd, rereader,
                 promised, value, panelVars, used>>

(* Mutant: a control keeps the descriptor it was first seen on. *)
EnumReadsKeepsFd ==
  /\ main.pc = "read"
  /\ LET f == main.todo[1][1]
         c == main.todo[1][2]
     IN  IF IoOk(f, c)
         THEN /\ ctlFd' = [ctlFd EXCEPT ![c] = IF @ = Fds0 THEN f ELSE @]
              /\ PassData(c, value[c], TRUE)
              /\ misled' = misled \ {c}
         ELSE UNCHANGED <<ctlFd, panel, wire, misled>>
  /\ main' = EnumFrom(Tail(main.todo))
  /\ UNCHANGED <<handlerVars, driverVars, posted, front, dev, openFds, volatiles, rereader,
                 promised, value, inputVars, drag, asks, used>>

EnumReads ==
  /\ main.pc = "read"
  /\ LET f == main.todo[1][1]
         c == main.todo[1][2]
     IN  IF IoOk(f, c)
         THEN /\ ctlFd' = [ctlFd EXCEPT ![c] = f]
              /\ PassData(c, value[c], TRUE)
              /\ misled' = misled \ {c}
         ELSE UNCHANGED <<ctlFd, panel, wire, misled>>
  /\ main' = EnumFrom(Tail(main.todo))
  /\ UNCHANGED <<handlerVars, driverVars, posted, front, dev, openFds, volatiles, rereader,
                 promised, value, inputVars, drag, asks, used>>

(***************************************************************************)
(* Setting a control.  The driver reports the change to every subscriber,  *)
(* the one who made it included.                                           *)
(***************************************************************************)
(* Mutant: subscribed without V4L2_EVENT_SUB_FL_ALLOW_FEEDBACK. *)
ValueSetSilently(c, v) ==
  /\ value' = [value EXCEPT ![c] = v]
  /\ UNCHANGED pending

ValueSet(c, v) ==
  /\ value' = [value EXCEPT ![c] = v]
  /\ pending' = IF value[c] = v THEN pending ELSE WithEvent(ctlFd[c], c, v)

SetExtControl(c, v, accepted) ==
  IF accepted THEN IoOk(ctlFd[c], c) /\ ValueSet(c, v) ELSE UNCHANGED <<value, pending>>

UserActs(c) ==
  /\ main.pc = "idle" /\ used.sets < MaxSets
  /\ Kind[c] # "volatile"
  /\ used' = [used EXCEPT !.sets = @ + 1]
  /\ UNCHANGED <<handlerVars, subscribed, failed, posted, front, cameraVars, asks>>

(* A widget of the window sets its control, and then enumerates all        *)
(* controls again (SendSignalToUpdateWidgets).                             *)
SetsInWindow(c, v) ==
  /\ front = "window" /\ panel[c] \notin {NoWidget, Emptied} /\ ~drag.on
  /\ UserActs(c)
  /\ \E accepted \in BOOLEAN : SetExtControl(c, v, accepted)
  /\ main' = Rereads
  /\ UNCHANGED <<panel, misled, inputVars, drag, wire>>

SetEnumerationControlValue(c, v) == Kind[c] # "intmenu" /\ SetsInWindow(c, v)

(* The entry is looked up among the device's menu items by its value. *)
SetEnumerationControlValueIntList(c, v) == Kind[c] = "intmenu" /\ SetsInWindow(c, v)

(* A slider sets the control while it moves, and once more on release. *)
SliderMoves(c, v) ==
  /\ front = "window" /\ Kind[c] = "integer" /\ panel[c] # NoWidget
  /\ drag.on => drag.id = c
  /\ UserActs(c)
  /\ \E accepted \in BOOLEAN : SetExtControl(c, v, accepted)
  /\ panel' = [panel EXCEPT ![c] = v]
  /\ drag' = [id |-> c, val |-> v, on |-> TRUE]
  /\ UNCHANGED <<main, misled, inputVars, wire>>

SliderReleased ==
  /\ drag.on /\ main.pc = "idle"
  /\ \E accepted \in BOOLEAN : SetExtControl(drag.id, drag.val, accepted)
  /\ drag' = NoDrag
  /\ main' = Rereads
  /\ UNCHANGED <<handlerVars, subscribed, failed, posted, front, cameraVars, panel, misled,
                 inputVars, wire, asks, used>>

(* setControlInt and its siblings in the page: e is what the user enters,  *)
(* v what the page sends, a number kept within the limits.  Nothing is     *)
(* read back, so that the input keeps e; a switch has no input, it offers  *)
(* the other value and goes on to show its record.                         *)
PageSets(c, e, v) ==
  /\ front = "page" /\ IsOpen /\ panel[c] \notin {NoWidget, Emptied}
  /\ e # v => Kind[c] = "integer"
  /\ UserActs(c)
  /\ \E accepted \in BOOLEAN :
       /\ SetExtControl(c, v, accepted)
       /\ IF Kind[c] = "switch"
          THEN v # panel[c] /\ UNCHANGED inputVars
          ELSE /\ entry' = [entry EXCEPT ![c] = e]
               /\ overruled' = IF accepted /\ e = v THEN overruled \ {c}
                                                   ELSE overruled \cup {c}
  /\ UNCHANGED <<main, panel, misled, drag, wire>>

(* c gets the value v that the record of the page already has: no change   *)
(* of the record will take the user's entry away.                          *)
Supersedes(c, v) ==
  /\ overruled' = IF entry[c] # NoWidget /\ panel[c] = v THEN overruled \cup {c} ELSE overruled
  /\ UNCHANGED entry

(* SetAutoGain, SetAutoExposure, SetAutoWhiteBalance show the new value    *)
(* and then set it.                                                        *)
SetAuto(c, v) ==
  /\ c \in Autos /\ IsOpen /\ ~drag.on
  /\ UserActs(c)
  /\ PassData(c, v, FALSE)
  /\ \E accepted \in BOOLEAN :
       /\ SetExtControl(c, v, accepted)
       /\ misled' = IF accepted THEN misled ELSE misled \cup {c}
       /\ IF accepted THEN Supersedes(c, v) ELSE UNCHANGED inputVars
  /\ UNCHANGED <<main, drag>>

(* The device, or another process, changes a control. *)
DeviceChanges(f, c, v) ==
  /\ IoOk(f, c) /\ value[c] # v
  /\ used.events < MaxEvents
  /\ used' = [used EXCEPT !.events = @ + 1]
  /\ value' = [value EXCEPT ![c] = v]
  /\ pending' = IF Kind[c] = "volatile" THEN pending ELSE WithEvent(f, c, v)
  /\ Supersedes(c, v)
  /\ UNCHANGED <<handlerVars, subscribed, failed, posted, front, cameraVars, main, panel, misled,
                 drag, wire, asks>>

Unplugged(f) ==
  /\ f \in openFds \ failed /\ used.events < MaxEvents
  /\ used' = [used EXCEPT !.events = @ + 1]
  /\ DeviceFails(f)
  /\ UNCHANGED <<front, cameraVars, value, main, panelVars>>

(***************************************************************************)
(* RereadVolatileControls: one VIDIOC_G_EXT_CTRLS per descriptor for all   *)
(* its volatile controls, which fails as a whole if the device does not    *)
(* know one of them.                                                       *)
(***************************************************************************)
RereadBegins ==
  /\ rereader.pc = "wait" /\ ~promised
  /\ posted = <<>> /\ wire = <<>>           (* bound: it reads every second *)
  /\ LET left == {f \in Fds : volatiles[f] # {}}
     IN  left # {} /\ rereader' = [pc |-> "read", left |-> left]
  /\ UNCHANGED <<handlerVars, driverVars, posted, front, dev, openFds, ctlFd, volatiles,
                 promised, value, main, panelVars, used>>

(* Mutant: the first control that was read is not passed on. *)
SendUpdatesButFirst(ids) ==
  \E c \in ids : \E s \in [1 .. Cardinality(ids \ {c}) -> ids \ {c}] :
    posted' = posted \o [i \in DOMAIN s |-> Event("reread", s[i], value[s[i]])]

SendUpdates(ids) ==
  \E s \in [1 .. Cardinality(ids) -> ids] :
    /\ \A c \in ids : \E i \in DOMAIN s : s[i] = c
    /\ posted' = posted \o [i \in DOMAIN s |-> Event("reread", s[i], value[s[i]])]

RereadDevice(f) ==
  /\ rereader.pc = "read" /\ f \in rereader.left
  /\ rereader' = IF rereader.left = {f} THEN NotRereading("wait")
                 ELSE [rereader EXCEPT !.left = @ \ {f}]
  /\ IF \A c \in volatiles[f] : IoOk(f, c) THEN SendUpdates(volatiles[f]) ELSE UNCHANGED posted
  /\ UNCHANGED <<handlerVars, driverVars, front, dev, openFds, ctlFd, volatiles, promised,
                 value, main, panelVars, used>>

RereaderExits ==
  /\ rereader.pc = "wait" /\ promised
  /\ rereader' = NotRereading("exited")
  /\ UNCHANGED <<handlerVars, driverVars, posted, front, dev, openFds, ctlFd, volatiles,
                 promised, value, main, panelVars, used>>

(***************************************************************************)
(* The main thread's event loop: OnCtrlUpdate for an event, the panel's    *)
(* update for a value that was read again.                                 *)
(***************************************************************************)
Delivers ==
  /\ main.pc \in {"idle", "dialog"} /\ posted # <<>>
  /\ LET e == Head(posted)
     IN  IF e.kind = "changed"
         THEN PassData(e.id, e.val, FALSE) /\ misled' = misled \ {e.id}
         ELSE PassExtControl(e.id, e.val) /\ UNCHANGED misled
  /\ posted' = Tail(posted)
  /\ UNCHANGED <<handlerVars, driverVars, front, cameraVars, value, main, inputVars, drag, asks,
                 used>>

(* Mutant: the inputs are filled once and do not follow their records. *)
InputsStay(ids) == UNCHANGED inputVars

(* A record with another value takes the user's entry away; one with the   *)
(* same value does so in a text input, not in a slider or a menu.          *)
InputsFollow(ids) ==
  /\ entry' = [c \in Controls |-> IF c \in ids THEN NoWidget ELSE entry[c]]
  /\ overruled' = overruled \ ids

(* The page: openStateChanged empties its list and asks for the controls   *)
(* again, or empties everything.                                           *)
PageHears ==
  /\ wire # <<>>
  /\ LET msg == Head(wire)
     IN  /\ panel' = CASE msg.kind = "record" -> [panel EXCEPT ![msg.id] = msg.val]
                       [] msg.kind = "value" ->
                            [panel EXCEPT ![msg.id] = IF @ \in {NoWidget, Emptied} THEN @ ELSE msg.val]
                       [] OTHER -> EmptyPanel
         /\ IF msg.kind \in {"opened", "closed"} THEN InputsFollow(Controls)
            ELSE \/ InputsFollow({msg.id})
                 \/ panel'[msg.id] = panel[msg.id] /\ InputsFollow({})
         /\ asks' = (asks \/ msg.kind = "opened")
  /\ wire' = Tail(wire)
  /\ UNCHANGED <<handlerVars, driverVars, posted, front, cameraVars, value, main, misled, drag, used>>

(* enumerateControls; without an open camera it only reports an error. *)
PageEnumerates ==
  /\ asks /\ main.pc = "idle"
  /\ asks' = FALSE
  /\ main' = Rereads
  /\ UNCHANGED <<handlerVars, driverVars, posted, front, cameraVars, value, panel, misled,
                 inputVars, drag, wire, used>>

(***************************************************************************)
(* CloseDevice: end and join the reader, stop and delete the handler,      *)
(* close the descriptors.  The tables of controls stay.                    *)
(***************************************************************************)
EndRereader ==
  /\ promised' = TRUE
  /\ main' = [pc |-> "join", todo |-> <<>>]
  /\ UNCHANGED <<handlerVars, driverVars, posted, front, dev, openFds, ctlFd, volatiles,
                 rereader, value, panelVars, used>>

CloseCamera == main.pc = "idle" /\ IsOpen /\ ~drag.on /\ EndRereader
DialogEnds == main.pc = "dialog" /\ EndRereader

RereaderJoined ==
  /\ main.pc = "join" /\ rereader.pc = "exited"
  /\ rereader' = NotRereading("none")
  /\ main' = [main EXCEPT !.pc = "delete"]
  /\ RequestInterruption
  /\ UNCHANGED <<driverVars, posted, front, dev, openFds, ctlFd, volatiles, promised, value,
                 panelVars, used>>

(* Mutant: the descriptors are closed before the threads have ended. *)
CloseFdsFirst ==
  /\ main.pc \in {"join", "delete"}
  /\ dev' = NoCamera /\ openFds' = {}
  /\ subscribed' = {} /\ pending' = [f \in Fds |-> NoEvents] /\ failed' = {}
  /\ panel' = EmptyPanel /\ misled' = {}
  /\ UNCHANGED <<handlerVars, posted, front, ctlFd, volatiles, rereader, promised, value, main,
                 inputVars, drag, wire, asks, used>>

(* close() drops the subscriptions; the window then removes the widgets of *)
(* a camera that was open, and the page is told.                           *)
CloseFds ==
  /\ main.pc = "delete" /\ stop = "none"
  /\ dev' = NoCamera /\ openFds' = {}
  /\ subscribed' = {} /\ pending' = [f \in Fds |-> NoEvents] /\ failed' = {}
  /\ promised' = FALSE
  /\ main' = Idle
  /\ IF front = "window"
     THEN /\ panel' = IF IsOpen THEN EmptyPanel ELSE panel
          /\ UNCHANGED wire
     ELSE Sends(Msg("closed", AnyControl, AnyValue)) /\ UNCHANGED panel
  /\ misled' = {}
  /\ UNCHANGED <<handlerVars, posted, front, ctlFd, volatiles, rereader, value, inputVars, drag,
                 asks, used>>

Unrelated == UNCHANGED <<front, cameraVars, value, main, panelVars, used>>
HandlerThread == RunNext /\ Unrelated

Rereader == RereadBegins \/ (\E f \in Fds : RereadDevice(f)) \/ RereaderExits

MainThread ==
  \/ EnumSubscribes \/ EnumReads \/ Delivers \/ PageEnumerates
  \/ DialogEnds \/ RereaderJoined \/ (StopNext /\ Unrelated) \/ CloseFds

Users ==
  \/ \E cam \in Cameras : OpenCamera(cam)
  \/ CloseCamera \/ SliderReleased
  \/ \E c \in Controls, v \in Values :
       \/ SetEnumerationControlValue(c, v) \/ SetEnumerationControlValueIntList(c, v)
       \/ SliderMoves(c, v) \/ SetAuto(c, v)
       \/ \E e \in Values : PageSets(c, e, v)

Devices ==
  \/ \E f \in Fds, c \in Controls, v \in Values : DeviceChanges(f, c, v)
  \/ \E f \in Fds : Unplugged(f)

Next == HandlerThread \/ Rereader \/ MainThread \/ PageHears \/ Users \/ Devices

(* Both threads and the event loops run; nobody has to use the camera. *)
Fairness ==
  /\ WF_vars(HandlerThread) /\ WF_vars(Rereader) /\ WF_vars(MainThread) /\ WF_vars(PageHears)

Spec == Init /\ [][Next]_vars /\ Fairness

(***************************************************************************)
(* Properties.                                                             *)
(***************************************************************************)
IdsOf(cam) == {Layout[cam][i][2] : i \in DOMAIN Layout[cam]}

(* Nothing is on its way from the device to the panel. *)
Quiet ==
  /\ main.pc = "idle" /\ posted = <<>> /\ wire = <<>> /\ ~asks /\ ~drag.on
  /\ \A f \in Fds : DOMAIN pending[f] = {}

(* An input of the page shows what the user left in it, else its record.   *)
Displayed(c) == IF entry[c] # NoWidget THEN entry[c] ELSE panel[c]

(* What may be shown of c: its value, or a menu that has lost its entries. *)
InStep(c) == {value[c]} \cup (IF Kind[c] \in {"menu", "intmenu"} THEN {Emptied} ELSE {})

(* When nothing is on its way, the window and the records of the page hold *)
(* the value of every control of the open device, whoever changed it: a    *)
(* stale event that was queued before a set arrives after it, and only the *)
(* driver's feedback on our own set (V4L2_EVENT_SUB_FL_ALLOW_FEEDBACK)     *)
(* corrects the panel.  What the page displays is in step as well, except  *)
(* where the user's own entry stands in front of the record: the device    *)
(* has refused it or taken another value, and no other record followed.    *)
(* Excepted are volatile controls, and automatics the device has refused.  *)
PanelInStep ==
  Quiet /\ IsOpen /\ failed = {} =>
    \A c \in IdsOf(dev) \ misled : Kind[c] # "volatile" =>
      /\ panel[c] \in InStep(c)
      /\ c \notin overruled => Displayed(c) \in InStep(c)

(* Once the controls of the open device have been enumerated, a control is *)
(* set on the descriptor that has it, although the table still holds the   *)
(* descriptors of the cameras opened before.                               *)
SetReachesOwner ==
  main.pc = "idle" /\ IsOpen /\ failed = {} =>
    \A i \in DOMAIN Layout[dev] : ctlFd[Layout[dev][i][2]] = Layout[dev][i][1]

(* Stop walks through m_Fds, which has no lock, only after the thread has  *)
(* left its loop for good: the second write of the handshake waits for it. *)
StopAfterRun ==
  stop \in {"read", "unsubscribe", "wait"} => run.pc = "finished"

(* The thread never polls a descriptor that CloseDevice has closed. *)
PolledFdsOpen ==
  run.pc \in {"poll", "handle"} => \A i \in DOMAIN watched : watched[i] \in openFds

(* Erasing by position removes a descriptor that works only when a second  *)
(* one has failed as well.                                                 *)
OnlyFailingErased ==
  run.pc # "none" /\ Cardinality(failed) <= 1 =>
    openFds \ failed \subseteq {watched[i] : i \in DOMAIN watched}

(* The window never assigns a std::thread that still runs: a failed open   *)
(* is closed before the next one (the page's is not).                      *)
WindowReopens == front = "window" => main.pc # "terminated"

(* CloseDevice ends: again and again the main thread is outside it, so     *)
(* that neither the promise nor the handshake over the eventfd leaves it   *)
(* waiting.                                                                *)
CloseEnds == []<>(main.pc \notin {"join", "delete"})

(* Only ids of the open device are read again with its descriptors. *)
NoStaleIds == \A f \in openFds : \A c \in volatiles[f] : IoOk(f, c)

(* In the end a volatile control of an open camera is shown with its       *)
(* value, as long as no id of another camera makes the reads fail.         *)
VolatilesShown ==
  <>[](IsOpen /\ failed = {} /\ NoStaleIds =>
         \A c \in IdsOf(dev) : Kind[c] = "volatile" => panel[c] = value[c])

=============================================================================
