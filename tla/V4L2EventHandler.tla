--------------------------- MODULE V4L2EventHandler ---------------------------
(***************************************************************************)
(* The thread that waits for control events of an open camera and posts    *)
(* them to the main thread, and the handshake over an eventfd with which   *)
(* the main thread ends it (Stop and the destructor).                      *)
(*                                                                         *)
(* The thread polls its own copy of the descriptors (m_Fds) and drops a    *)
(* descriptor that reports an error; the main thread walks through m_Fds   *)
(* in Stop, without a lock: the handshake has to keep the two apart.       *)
(***************************************************************************)
EXTENDS Naturals, Sequences

CONSTANTS
  Fds,         (* file descriptors of devices and sub-devices               *)
  Controls,    (* control ids                                               *)
  Values,      (* values of a control                                       *)
  MaxCounter   (* the largest value of an eventfd counter, 2^64 - 2         *)

ASSUME CounterAssumption == MaxCounter \in Nat \ {0}
(* There are controls, and a control always has some value. *)
ASSUME ValuesAssumption == Controls # {} /\ Values # {}

VARIABLES
  watched,     (* m_Fds                                                     *)
  run,         (* the thread: control point, poll entries left to handle,   *)
               (* which it takes in the order of m_Fds                      *)
  counter,     (* m_eventFd                                                 *)
  interrupted, (* QThread::isInterruptionRequested                          *)
  stop,        (* the main thread in Stop and in the destructor             *)
  subscribed,  (* driver: control events asked for, <<descriptor, id>>      *)
  pending,     (* driver: per descriptor, the latest unread event of an id  *)
  failed,      (* driver: descriptors whose device is gone                  *)
  posted       (* the main thread's event queue                             *)

handlerVars == <<watched, run, counter, interrupted, stop>>
driverVars == <<subscribed, pending, failed>>

NotPolling(pc) == [pc |-> pc, pfds |-> {}]
NoEvents == [c \in {} |-> CHOOSE v \in Values : TRUE]
Event(kind, c, v) == [kind |-> kind, id |-> c, val |-> v]

HandlerTypeOK ==
  /\ watched \in Seq(Fds)
  /\ run.pc \in {"none", "loop", "poll", "handle", "drain", "finished"}
  /\ run.pfds \subseteq [at : Nat \ {0}, fd : Fds, err : BOOLEAN, pri : BOOLEAN]
  /\ counter \in 0 .. MaxCounter
  /\ interrupted \in BOOLEAN
  /\ stop \in {"none", "idle", "write1", "writeMax", "read", "unsubscribe", "wait"}
  /\ subscribed \subseteq Fds \X Controls
  /\ failed \subseteq Fds

NoHandler ==
  /\ watched = <<>> /\ run = NotPolling("none")
  /\ counter = 0 /\ interrupted = FALSE /\ stop = "none"

(* new V4L2EventHandler(fds), start(). *)
Started(fds) ==
  /\ watched' = fds
  /\ run' = NotPolling("loop")
  /\ counter' = 0 /\ interrupted' = FALSE /\ stop' = "idle"

(***************************************************************************)
(* The driver.  An event replaces an unread one of the same control.       *)
(***************************************************************************)
WithEvent(f, c, v) ==
  IF <<f, c>> \in subscribed
  THEN [pending EXCEPT ![f] = [d \in DOMAIN @ \cup {c} |-> IF d = c THEN v ELSE @[d]]]
  ELSE pending

(* What poll() reports: a device that is gone reports POLLERR and POLLPRI. *)
Entry(i) ==
  LET f == watched[i]
  IN  [at |-> i, fd |-> f, err |-> f \in failed, pri |-> f \in failed \/ DOMAIN pending[f] # {}]

Reported == {e \in {Entry(i) : i \in DOMAIN watched} : e.err \/ e.pri}

DeviceFails(f) ==
  /\ failed' = failed \cup {f}
  /\ UNCHANGED <<subscribed, pending, posted>> /\ UNCHANGED handlerVars

(* SubscribeControl: tried on every watched descriptor, and accepted by    *)
(* the one that has the control.                                           *)
SubscribeControl(f, c) ==
  subscribed' = IF \E i \in DOMAIN watched : watched[i] = f
                THEN subscribed \cup {<<f, c>>} ELSE subscribed

(***************************************************************************)
(* The thread.                                                             *)
(***************************************************************************)
RunLoops ==
  /\ run.pc = "loop"
  /\ run' = NotPolling(IF interrupted THEN "drain" ELSE "poll")
  /\ UNCHANGED <<watched, counter, interrupted, stop, posted>> /\ UNCHANGED driverVars

RunPolls ==
  /\ run.pc = "poll"
  /\ counter > 0 \/ Reported # {}
  /\ run' = IF Reported = {} THEN NotPolling("loop") ELSE [pc |-> "handle", pfds |-> Reported]
  /\ UNCHANGED <<watched, counter, interrupted, stop, posted>> /\ UNCHANGED driverVars

(* Mutant: positions that count from one are used as if from zero. *)
ErasedOffByOne(i) ==
  IF i + 1 \in DOMAIN watched THEN SubSeq(watched, 1, i) \o SubSeq(watched, i + 2, Len(watched))
  ELSE watched

(* An entry with an error is erased by its position in the poll entries.   *)
Erased(i) ==
  IF i \in DOMAIN watched THEN SubSeq(watched, 1, i - 1) \o SubSeq(watched, i + 1, Len(watched))
  ELSE watched

(* VIDIOC_DQEVENT takes one event, and the thread posts it. *)
DequeuesEvent(f) ==
  IF f \in failed \/ DOMAIN pending[f] = {}
  THEN UNCHANGED <<pending, posted>>
  ELSE \E c \in DOMAIN pending[f] :
         /\ pending' = [pending EXCEPT ![f] = [d \in DOMAIN @ \ {c} |-> @[d]]]
         /\ posted' = Append(posted, Event("changed", c, pending[f][c]))

RunHandles ==
  /\ run.pc = "handle"
  /\ \E entry \in run.pfds :
       /\ \A other \in run.pfds : entry.at <= other.at
       /\ watched' = IF entry.err THEN Erased(entry.at) ELSE watched
       /\ IF entry.pri THEN DequeuesEvent(entry.fd) ELSE UNCHANGED <<pending, posted>>
       /\ run' = IF run.pfds = {entry} THEN NotPolling("loop")
                 ELSE [run EXCEPT !.pfds = @ \ {entry}]
  /\ UNCHANGED <<counter, interrupted, stop, subscribed, failed>>

(* Mutant: the thread ends without reading the eventfd. *)
RunDrainsNothing ==
  /\ run.pc = "drain" /\ counter > 0
  /\ run' = NotPolling("finished")
  /\ UNCHANGED <<watched, counter, interrupted, stop, posted>> /\ UNCHANGED driverVars

(* eventfd_read takes the whole counter, and waits while it is zero. *)
RunDrains ==
  /\ run.pc = "drain" /\ counter > 0
  /\ counter' = 0
  /\ run' = NotPolling("finished")
  /\ UNCHANGED <<watched, interrupted, stop, posted>> /\ UNCHANGED driverVars

RunNext == RunLoops \/ RunPolls \/ RunHandles \/ RunDrains

(***************************************************************************)
(* The main thread: Stop, then delete.                                     *)
(***************************************************************************)
RequestInterruption ==
  /\ stop = "idle"
  /\ interrupted' = TRUE
  /\ stop' = "write1"
  /\ UNCHANGED <<watched, run, counter>>

(* Mutant: Stop without its first write. *)
StopSkipsWrite ==
  /\ stop = "write1"
  /\ stop' = "writeMax"
  /\ UNCHANGED <<watched, run, counter, interrupted, posted>> /\ UNCHANGED driverVars

StopWritesOne ==
  /\ stop = "write1"
  /\ counter' = counter + 1
  /\ stop' = "writeMax"
  /\ UNCHANGED <<watched, run, interrupted, posted>> /\ UNCHANGED driverVars

(* Mutant: the second write does not wait (EFD_NONBLOCK ignored). *)
StopOverflows ==
  /\ stop = "writeMax"
  /\ counter' = counter + MaxCounter
  /\ stop' = "read"
  /\ UNCHANGED <<watched, run, interrupted, posted>> /\ UNCHANGED driverVars

(* This write waits until the sum fits, which is when the thread has read. *)
StopWritesMax ==
  /\ stop = "writeMax" /\ counter + MaxCounter <= MaxCounter
  /\ counter' = counter + MaxCounter
  /\ stop' = "read"
  /\ UNCHANGED <<watched, run, interrupted, posted>> /\ UNCHANGED driverVars

StopReads ==
  /\ stop = "read" /\ counter > 0
  /\ counter' = 0
  /\ stop' = "unsubscribe"
  /\ UNCHANGED <<watched, run, interrupted, posted>> /\ UNCHANGED driverVars

StopUnsubscribes ==
  /\ stop = "unsubscribe"
  /\ LET left == {watched[i] : i \in DOMAIN watched}
     IN  /\ subscribed' = {s \in subscribed : s[1] \notin left}
         /\ pending' = [f \in Fds |-> IF f \in left THEN NoEvents ELSE pending[f]]
  /\ stop' = "wait"
  /\ UNCHANGED <<watched, run, counter, interrupted, failed, posted>>

(* The destructor waits for the thread. *)
Deleted ==
  /\ stop = "wait" /\ run.pc = "finished"
  /\ watched' = <<>> /\ run' = NotPolling("none")
  /\ counter' = 0 /\ interrupted' = FALSE /\ stop' = "none"
  /\ UNCHANGED posted /\ UNCHANGED driverVars

StopNext == StopWritesOne \/ StopWritesMax \/ StopReads \/ StopUnsubscribes \/ Deleted

=============================================================================
