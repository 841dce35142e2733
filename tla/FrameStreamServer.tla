-------------------------- MODULE FrameStreamServer --------------------------
(***************************************************************************)
(* The stream of JPEG frames to the web page: the frame thread pushes      *)
(* camera buffers into a mailbox for one frame (pushFrame), the conversion *)
(* thread takes them out and converts them (conversionThreadMain), the     *)
(* main thread sends the result to the clients (onBroadcast) and restarts  *)
(* the conversion when a stream ends (flush).  A client acknowledges every *)
(* frame it has drawn (frame-renderer.js); nothing is taken out of the     *)
(* mailbox until it has.                                                   *)
(*                                                                         *)
(* m_frameMutex is held by the conversion thread at HoldsFrameMutex; every *)
(* other critical section is one step.  The atomic flags are written       *)
(* without it.                                                             *)
(***************************************************************************)
EXTENDS Naturals

CONSTANTS
  Buffers,        (* camera buffers that may be lent to the server         *)
  NoBuffer,       (* no buffer, no `done' callback                         *)
  Clients,        (* web pages that may connect                            *)
  MaxInFlight     (* bound: messages on the way to, or from, one client    *)

ASSUME BuffersAssumption  == NoBuffer \notin Buffers
ASSUME InFlightAssumption == MaxInFlight \in Nat \ {0}

VARIABLES
  lent,        (* buffers whose `done' has not been called yet              *)
  nextBuf,     (* m_nextBuffer                                              *)
  nextDone,    (* m_nextDoneCallback, named by its buffer                   *)
  bufferReady, (* m_bufferReady                                             *)
  stopThread,  (* m_stopThread                                              *)
  pending,     (* m_broadcastPending                                        *)
  clientReady, (* m_clientReady                                             *)
  listening,   (* does the WebSocket server accept connections?             *)
  push,        (* frame thread, in pushFrame                                *)
  conv,        (* conversion thread                                         *)
  main,        (* main thread, in flush, stop or onBroadcast                *)
  queued,      (* broadcastReady events in the main thread's event queue    *)
  clients,     (* m_clients                                                 *)
  page         (* per client: frames sent, what it does, acks sent           *)

mailbox == <<nextBuf, nextDone, bufferReady>>
vars == <<lent, nextBuf, nextDone, bufferReady, stopThread, pending, clientReady,
          listening, push, conv, main, queued, clients, page>>

MaybeBuffer == Buffers \cup {NoBuffer}
NoPage == [frames |-> 0, canvas |-> "idle", acks |-> 0]
ConvPC == {"none", "lock", "top", "sleep1", "wait1", "ready", "pending", "again",
           "sleep2", "wait2", "lock2", "convert", "skip", "encoded", "record", "release",
           "emit", "exited"}

TypeOK ==
  /\ lent \in SUBSET Buffers
  /\ nextBuf \in MaybeBuffer /\ nextDone \in MaybeBuffer
  /\ {bufferReady, stopThread, pending, clientReady, listening} \subseteq BOOLEAN
  /\ push \in [pc : {"idle", "release", "relock"}, buf : MaybeBuffer, old : MaybeBuffer]
  /\ conv \in [pc : ConvPC, buf : MaybeBuffer, done : MaybeBuffer]
  /\ conv.pc \in {"convert", "skip", "encoded", "record", "release"} => conv.buf \in Buffers
  /\ main \in [pc : {"idle", "broadcast", "notify", "join", "take", "release", "restart", "closed"},
               cb : MaybeBuffer, quit : BOOLEAN]
  /\ queued \in Nat
  /\ clients \in SUBSET Clients
  /\ page \in [Clients -> [frames : 0 .. MaxInFlight, canvas : {"idle", "drawing", "failed"},
                           acks : 0 .. MaxInFlight]]

(* After start(), which may have failed to listen. *)
Init ==
  /\ listening \in BOOLEAN
  /\ lent = {}
  /\ nextBuf = NoBuffer /\ nextDone = NoBuffer /\ bufferReady = FALSE
  /\ stopThread = FALSE /\ pending = FALSE /\ clientReady = TRUE
  /\ push = [pc |-> "idle", buf |-> NoBuffer, old |-> NoBuffer]
  /\ conv = [pc |-> IF listening THEN "lock" ELSE "none", buf |-> NoBuffer, done |-> NoBuffer]
  /\ main = [pc |-> "idle", cb |-> NoBuffer, quit |-> FALSE]
  /\ queued = 0
  /\ clients = {}
  /\ page = [c \in Clients |-> NoPage]

HoldsFrameMutex == conv.pc \in {"top", "sleep1", "ready", "pending", "again", "sleep2"}

(* notify_one and notify_all: the conversion thread is the only one that   *)
(* waits; a notification nobody waits for is lost.                         *)
Notified == [conv EXCEPT !.pc = CASE @ = "wait1" -> "lock"
                                  [] @ = "wait2" -> "lock2"
                                  [] OTHER -> @]

-----------------------------------------------------------------------------
(* Frame thread: pushFrame. *)

Store(b) ==
  /\ nextBuf' = b
  /\ nextDone' = b
  /\ bufferReady' = TRUE
  /\ conv' = Notified

(* Mutant: the previous frame's `done' stays in the mailbox. *)
PushFrameKeepsCallback(b) ==
  /\ push.pc = "idle" /\ ~HoldsFrameMutex
  /\ b \notin lent
  /\ lent' = lent \cup {b}
  /\ \/ /\ nextDone # NoBuffer
        /\ push' = [pc |-> "release", buf |-> b, old |-> nextDone]
        /\ UNCHANGED <<mailbox, conv>>
     \/ /\ nextDone = NoBuffer
        /\ Store(b)
        /\ UNCHANGED push
  /\ UNCHANGED <<stopThread, pending, clientReady, listening, main, queued, clients, page>>

PushFrame(b) ==
  /\ push.pc = "idle" /\ ~HoldsFrameMutex
  /\ b \notin lent
  /\ lent' = lent \cup {b}
  /\ \/ /\ nextDone # NoBuffer
        /\ push' = [pc |-> "release", buf |-> b, old |-> nextDone]
        /\ nextDone' = NoBuffer
        /\ UNCHANGED <<nextBuf, bufferReady, conv>>
     \/ /\ nextDone = NoBuffer
        /\ Store(b)
        /\ UNCHANGED push
  /\ UNCHANGED <<stopThread, pending, clientReady, listening, main, queued, clients, page>>

(* The previous frame's `done' is called outside the mutex ... *)
PushReleases ==
  /\ push.pc = "release"
  /\ lent' = lent \ {push.old}
  /\ push' = [push EXCEPT !.pc = "relock", !.old = NoBuffer]
  /\ UNCHANGED <<mailbox, stopThread, pending, clientReady, listening, conv, main, queued, clients, page>>

(* ... and the new frame is stored once the mutex is free again. *)
PushStores ==
  /\ push.pc = "relock" /\ ~HoldsFrameMutex
  /\ Store(push.buf)
  /\ push' = [pc |-> "idle", buf |-> NoBuffer, old |-> NoBuffer]
  /\ UNCHANGED <<lent, stopThread, pending, clientReady, listening, main, queued, clients, page>>

-----------------------------------------------------------------------------
(* Conversion thread. *)

ConvAt(at) == conv.pc = at
ConvTo(to) == conv' = [conv EXCEPT !.pc = to]
ConvOnly == UNCHANGED <<lent, mailbox, stopThread, pending, clientReady,
                        listening, push, main, queued, clients, page>>

(* Mutant: the first wait has no predicate. *)
ConvTrustsWakeUp ==
  /\ conv.pc \in {"lock", "top"}
  /\ ConvTo(IF stopThread THEN "exited" ELSE "ready")
  /\ ConvOnly

(* while (!m_stopThread) and the first wait: its predicate is evaluated    *)
(* under the mutex, but m_stopThread is set without it.                    *)
ConvWaitsForFrame ==
  /\ conv.pc \in {"lock", "top"}
  /\ ConvTo(CASE stopThread -> "exited"
              [] ~stopThread /\ ~bufferReady -> "sleep1"
              [] ~stopThread /\ bufferReady -> "ready")
  /\ ConvOnly

(* The thread goes to sleep and gives up the mutex in one step. *)
ConvSleeps ==
  /\ conv.pc \in {"sleep1", "sleep2"}
  /\ ConvTo(IF conv.pc = "sleep1" THEN "wait1" ELSE "wait2")
  /\ ConvOnly

(* A condition variable may wake up without a notification. *)
ConvWakesUp ==
  /\ conv.pc \in {"wait1", "wait2"}
  /\ conv' = Notified
  /\ ConvOnly

ConvReadsClientReady ==
  /\ ConvAt("ready")
  /\ ConvTo(IF clientReady THEN "pending" ELSE "again")
  /\ ConvOnly

(* Mutant: the second wait does not look at m_stopThread. *)
ConvIgnoresStop ==
  /\ conv.pc \in {"again", "lock2"}
  /\ ConvTo(IF clientReady THEN "top" ELSE "sleep2")
  /\ ConvOnly

(* The second wait; with a client ready it does not wait at all. *)
ConvWaitsForClient ==
  /\ conv.pc \in {"again", "lock2"}
  /\ ConvTo(IF clientReady \/ stopThread THEN "top" ELSE "sleep2")
  /\ ConvOnly

ConvTakesFrame ==
  /\ ConvAt("pending")
  /\ \/ /\ pending
        /\ ConvTo("again")
        /\ UNCHANGED mailbox
     \/ /\ ~pending
        /\ conv' = [pc |-> "convert", buf |-> nextBuf, done |-> nextDone]
        /\ nextDone' = NoBuffer
        /\ bufferReady' = FALSE
        /\ UNCHANGED nextBuf
  /\ UNCHANGED <<lent, stopThread, pending, clientReady, listening, push, main, queued, clients, page>>

ConvConverts ==
  /\ ConvAt("convert")
  /\ \E ok \in BOOLEAN : ConvTo(IF ok THEN "encoded" ELSE "skip")
  /\ ConvOnly

(* The recording callback, set and cleared by the main thread at any time, *)
(* runs inside m_recordMutex.                                              *)
ConvCallsRecorder ==
  /\ ConvAt("encoded")
  /\ \E recording \in BOOLEAN : ConvTo(IF recording THEN "record" ELSE "release")
  /\ ConvOnly

ConvRecords ==
  /\ ConvAt("record")
  /\ ConvTo("release")
  /\ ConvOnly

(* Mutant: a frame that cannot be converted is not given back. *)
ConvReleasesConverted ==
  /\ conv.pc \in {"skip", "release"}
  /\ lent' = IF conv.pc = "skip" THEN lent ELSE lent \ {conv.done}
  /\ conv' = [pc |-> IF conv.pc = "skip" THEN "lock" ELSE "emit",
              buf |-> NoBuffer, done |-> NoBuffer]
  /\ UNCHANGED <<mailbox, stopThread, pending, clientReady, listening, push, main, queued, clients, page>>

ConvReleases ==
  /\ conv.pc \in {"skip", "release"}
  /\ lent' = lent \ {conv.done}
  /\ conv' = [pc |-> IF conv.pc = "skip" THEN "lock" ELSE "emit",
              buf |-> NoBuffer, done |-> NoBuffer]
  /\ UNCHANGED <<mailbox, stopThread, pending, clientReady, listening, push, main, queued, clients, page>>

(* Mutant: m_broadcastPending is tested but not set. *)
ConvEmitsUnmarked ==
  /\ ConvAt("emit")
  /\ queued' = IF pending THEN queued ELSE queued + 1
  /\ ConvTo("lock")
  /\ UNCHANGED <<lent, mailbox, stopThread, pending, clientReady, listening, push, main, clients, page>>

ConvEmits ==
  /\ ConvAt("emit")
  /\ pending' = TRUE
  /\ queued' = IF pending THEN queued ELSE queued + 1
  /\ ConvTo("lock")
  /\ UNCHANGED <<lent, mailbox, stopThread, clientReady, listening, push, main, clients, page>>

-----------------------------------------------------------------------------
(* Main thread: events. *)

MainAt(at) == main.pc = at
MainTo(to) == main' = [main EXCEPT !.pc = to]

OnBroadcast ==
  /\ MainAt("idle")
  /\ queued > 0
  /\ queued' = queued - 1
  /\ pending' = FALSE
  /\ MainTo("broadcast")
  /\ UNCHANGED <<lent, mailbox, stopThread, clientReady, listening, push, conv, clients, page>>

(* A frame for which no client is ready is dropped. *)
SendToClients ==
  /\ MainAt("broadcast")
  /\ MainTo("idle")
  /\ \/ /\ ~clientReady
        /\ UNCHANGED <<clientReady, page>>
     \/ /\ clientReady
        /\ \A c \in clients : page[c].frames < MaxInFlight
        /\ clientReady' = FALSE
        /\ page' = [c \in Clients |-> IF c \in clients
                                      THEN [page[c] EXCEPT !.frames = @ + 1]
                                      ELSE page[c]]
  /\ UNCHANGED <<lent, mailbox, stopThread, pending, listening, push, conv, queued, clients>>

OnClientTextMessage(c) ==
  /\ MainAt("idle")
  /\ c \in clients /\ page[c].acks > 0
  /\ page' = [page EXCEPT ![c].acks = @ - 1]
  /\ clientReady' = TRUE
  /\ conv' = Notified
  /\ UNCHANGED <<lent, mailbox, stopThread, pending, listening, push, main, queued, clients>>

(* The page acknowledges once as soon as its socket is open. *)
OnNewConnection(c) ==
  /\ MainAt("idle") /\ listening
  /\ c \notin clients
  /\ clients' = clients \cup {c}
  /\ page' = [page EXCEPT ![c] = [NoPage EXCEPT !.acks = 1]]
  /\ clientReady' = TRUE
  /\ UNCHANGED <<lent, mailbox, stopThread, pending, listening, push, conv, main, queued>>

OnClientDisconnected(c) ==
  /\ MainAt("idle")
  /\ c \in clients
  /\ clients' = clients \ {c}
  /\ page' = [page EXCEPT ![c] = NoPage]
  /\ UNCHANGED <<lent, mailbox, stopThread, pending, clientReady, listening, push, conv, main, queued>>

-----------------------------------------------------------------------------
(* Main thread: flush and stop. *)

Flush ==
  /\ MainAt("idle")
  /\ \E quit \in BOOLEAN : main' = [pc |-> "notify", cb |-> NoBuffer, quit |-> quit]
  /\ stopThread' = TRUE
  /\ UNCHANGED <<lent, mailbox, pending, clientReady, listening, push, conv, queued, clients, page>>

FlushNotifies ==
  /\ MainAt("notify")
  /\ MainTo("join")
  /\ conv' = Notified
  /\ UNCHANGED <<lent, mailbox, stopThread, pending, clientReady, listening, push, queued, clients, page>>

FlushJoins ==
  /\ MainAt("join")
  /\ conv.pc \in {"none", "exited"}
  /\ conv' = [conv EXCEPT !.pc = "none"]
  /\ MainTo("take")
  /\ UNCHANGED <<lent, mailbox, stopThread, pending, clientReady, listening, push, queued, clients, page>>

(* Mutant: the pending callback is called but stays in the mailbox. *)
FlushCopiesPending ==
  /\ MainAt("take")
  /\ bufferReady' = IF nextDone = NoBuffer THEN bufferReady ELSE FALSE
  /\ main' = [main EXCEPT !.pc = "release", !.cb = nextDone]
  /\ UNCHANGED <<lent, nextBuf, nextDone, stopThread, pending, clientReady, listening, push, conv, queued, clients, page>>

FlushTakesPending ==
  /\ MainAt("take")
  /\ nextDone' = NoBuffer
  /\ bufferReady' = IF nextDone = NoBuffer THEN bufferReady ELSE FALSE
  /\ main' = [main EXCEPT !.pc = "release", !.cb = nextDone]
  /\ UNCHANGED <<lent, nextBuf, stopThread, pending, clientReady, listening, push, conv, queued, clients, page>>

FlushReleases ==
  /\ MainAt("release")
  /\ lent' = lent \ {main.cb}
  /\ main' = [main EXCEPT !.pc = "restart", !.cb = NoBuffer]
  /\ UNCHANGED <<mailbox, stopThread, pending, clientReady, listening, push, conv, queued, clients, page>>

(* flush: a new conversion thread for the next stream. *)
FlushRestarts ==
  /\ MainAt("restart") /\ ~main.quit
  /\ MainTo("idle")
  /\ clientReady' = TRUE
  /\ stopThread' = FALSE
  /\ conv' = [pc |-> "lock", buf |-> NoBuffer, done |-> NoBuffer]
  /\ UNCHANGED <<lent, mailbox, pending, listening, push, queued, clients, page>>

(* stop: the clients are disconnected and the server is closed. *)
StopCloses ==
  /\ MainAt("restart") /\ main.quit
  /\ MainTo("closed")
  /\ clients' = {}
  /\ page' = [c \in Clients |-> NoPage]
  /\ listening' = FALSE
  /\ UNCHANGED <<lent, mailbox, stopThread, pending, clientReady, push, conv, queued>>

-----------------------------------------------------------------------------
(* The page in the browser. *)

(* A frame that arrives while another is being drawn is dropped. *)
HandleFrame(c) ==
  /\ page[c].frames > 0
  /\ page' = [page EXCEPT ![c].frames = @ - 1, ![c].canvas = "drawing"]
  /\ UNCHANGED <<lent, mailbox, stopThread, pending, clientReady, listening, push, conv, main, queued, clients>>

(* Mutant: the page does not acknowledge the frames it has drawn. *)
FrameDrawnNoAck(c) ==
  /\ page[c].canvas = "drawing"
  /\ page[c].acks < MaxInFlight
  /\ page' = [page EXCEPT ![c].canvas = "idle"]
  /\ UNCHANGED <<lent, mailbox, stopThread, pending, clientReady, listening, push, conv, main, queued, clients>>

FrameDrawn(c) ==
  /\ page[c].canvas = "drawing"
  /\ page[c].acks < MaxInFlight
  /\ page' = [page EXCEPT ![c].canvas = "idle", ![c].acks = @ + 1]
  /\ UNCHANGED <<lent, mailbox, stopThread, pending, clientReady, listening, push, conv, main, queued, clients>>

(* A frame that cannot be decoded is not acknowledged. *)
DecodeFails(c) ==
  /\ page[c].canvas = "drawing"
  /\ page' = [page EXCEPT ![c].canvas = "failed"]
  /\ UNCHANGED <<lent, mailbox, stopThread, pending, clientReady, listening, push, conv, main, queued, clients>>

-----------------------------------------------------------------------------
FrameThread == (\E b \in Buffers : PushFrame(b)) \/ PushReleases \/ PushStores
ConversionThread ==
  \/ ConvWaitsForFrame
  \/ ConvSleeps
  \/ ConvReadsClientReady
  \/ ConvWaitsForClient
  \/ ConvTakesFrame
  \/ ConvConverts
  \/ ConvCallsRecorder
  \/ ConvRecords
  \/ ConvReleases
  \/ ConvEmits
Flushing == FlushNotifies \/ FlushJoins \/ FlushTakesPending \/ FlushReleases
              \/ FlushRestarts \/ StopCloses
Connecting == \E c \in Clients : OnNewConnection(c) \/ OnClientDisconnected(c)

Next ==
  \/ FrameThread
  \/ ConversionThread
  \/ ConvWakesUp
  \/ OnBroadcast
  \/ SendToClients
  \/ \E c \in Clients : OnClientTextMessage(c)
  \/ Connecting
  \/ Flush
  \/ Flushing
  \/ \E c \in Clients : HandleFrame(c) \/ FrameDrawn(c) \/ DecodeFails(c)

Spec == Init /\ [][Next]_vars

(* The camera keeps delivering frames, the threads are scheduled, one that *)
(* keeps asking for m_frameMutex gets it, not every frame is one that      *)
(* cannot be converted (startStreaming has checked the format), the main   *)
(* thread handles its events and the pages draw what they get.             *)
Fairness ==
  /\ SF_vars(FrameThread)
  /\ WF_vars(ConversionThread)
  /\ SF_vars(ConvConverts /\ conv'.pc = "encoded")
  /\ WF_vars(OnBroadcast \/ SendToClients)
  /\ WF_vars(Flushing)
  /\ \A c \in Clients :
       /\ WF_vars(OnClientTextMessage(c))
       /\ WF_vars(HandleFrame(c) \/ FrameDrawn(c))

FairSpec == Spec /\ Fairness

(* stopStreaming clears m_bIsStreaming before it calls flush: pushFrame is *)
(* left by whoever is in it, but nobody has to enter it again.             *)
QuietSpec ==
  /\ Spec
  /\ WF_vars(PushReleases \/ PushStores)
  /\ WF_vars(ConversionThread)
  /\ SF_vars(ConvConverts /\ conv'.pc = "encoded")
  /\ WF_vars(OnBroadcast \/ SendToClients)
  /\ WF_vars(Flushing)

-----------------------------------------------------------------------------
(* Properties. *)

(* Who is to call the `done' of a buffer: the mailbox, pushFrame between   *)
(* its two critical sections (for the old and for the new frame), the      *)
(* conversion thread, or flush.                                            *)
Holders(b) ==
  {h \in {"mailbox", "old", "new", "conversion", "flush"} :
     \/ h = "mailbox" /\ nextDone = b
     \/ h = "old" /\ push.old = b
     \/ h = "new" /\ push.buf = b
     \/ h = "conversion" /\ conv.done = b
     \/ h = "flush" /\ main.cb = b}

(* Every buffer lent to the server has exactly one holder, and nobody      *)
(* holds one that was given back: no `done' is lost, none is called twice, *)
(* although callbacks move between three threads and are called unlocked.  *)
OneHolder ==
  \A b \in Buffers :
    /\ b \in lent => \E h \in Holders(b) : Holders(b) = {h}
    /\ b \notin lent => Holders(b) = {}

(* The main thread's event queue never holds a second JPEG, however slow   *)
(* the main thread is and however often the conversion is restarted.       *)
OneBroadcast == queued <= 1 /\ (queued = 1 => pending)

(* As long as the stream goes on, a connected page keeps getting frames    *)
(* until it fails to decode one: no lost notification, dropped broadcast   *)
(* or double acknowledgement stops the flow for good.                      *)
StreamInterrupted == main.pc \in {"notify", "join", "take", "release", "restart", "closed"}
PageKeepsGettingFrames ==
  \A c \in Clients :
    (c \in clients) ~> \/ page[c].frames > 0
                       \/ page[c].canvas = "failed"
                       \/ c \notin clients \/ StreamInterrupted

(* Every buffer lent to the server is given back while frames keep coming. *)
EveryBufferGivenBack == \A b \in Buffers : (b \in lent) ~> (b \notin lent)

(* flush and stop come to an end while frames keep coming: it is the next  *)
(* pushFrame that wakes a conversion thread that missed their notification. *)
FlushEnds == StreamInterrupted ~> main.pc \in {"idle", "closed"}

(* flush stops the conversion thread by itself, whether or not another     *)
(* frame comes.                                                            *)
FlushNeedsNoFrame == StreamInterrupted ~> main.pc \in {"idle", "closed"}

(* The recording callback gets a buffer that has not been given back. *)
RawDataValid == ConvAt("record") => conv.buf \in lent

=============================================================================
