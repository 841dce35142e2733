------------------------------ MODULE BaseLogger ------------------------------
(***************************************************************************)
(* The log file: callers queue messages, dumps and buffers, three threads  *)
(* empty the queues, and the destructor stops the threads one after the    *)
(* other before it closes the file.  The dump thread is itself a caller of *)
(* Log, so the order in which the threads are stopped matters.             *)
(*                                                                         *)
(* A line of text, a dump and a buffer are items; what they say is left    *)
(* out.  The threads test the length of a queue without a mutex.  Lines    *)
(* are pushed and popped under m_Mutex and dumps under m_DumpMutex; but    *)
(* buffers are pushed under m_DumpMutex and popped under m_BufferMutex, so *)
(* that a push and a pop of m_BufferQueue may overlap.  The exit messages  *)
(* pop without a mutex.                                                    *)
(***************************************************************************)
EXTENDS Naturals, Sequences

Lines == INSTANCE SequencesExt

CONSTANTS Messages, Dumps, Packets  (* items for Log, LogDump and LogBuffer *)

ASSUME ItemsAssumption ==
  /\ Messages \cap Dumps = {} /\ Messages \cap Packets = {} /\ Dumps \cap Packets = {}

VARIABLES
  queue,     (* m_OutputQueue, m_DumpQueue and m_BufferQueue                *)
  serving,   (* the item a thread has popped, as a sequence                 *)
  active,    (* m_bThreadRunning, m_bDumpThreadRunning, m_bBufferThreadRunning *)
  stopped,   (* m_bThreadStopped and so on                                  *)
  calling,   (* items of calls between their test and the end of their push *)
  pushing,   (* the buffer a call of LogBuffer is pushing, as a set: the    *)
             (* caller holds m_DumpMutex                                    *)
  popping,   (* the buffer thread is popping: it holds m_BufferMutex        *)
  torn,      (* a push and a pop of m_BufferQueue have overlapped           *)
  called,    (* items that have been logged                                 *)
  accepted,  (* m_OutputQueue's items, in the order of their push           *)
  late,      (* items pushed when the thread was already told to stop, or   *)
             (* whose call was under way when the thread emptied its queue  *)
  logFile,   (* lines and dumps in the log file                             *)
  files,     (* buffers written, each to a file of its own                  *)
  waitingFor,(* the destructor waits for this thread: index in StopOrder    *)
  closed     (* the file is closed                                          *)

loggerVars == <<queue, serving, active, stopped, calling, pushing, popping, torn, called,
                accepted, late, logFile, files, waitingFor, closed>>

Threads == {"text", "dump", "buffer"}
Items == Messages \cup Dumps \cup Packets
ThreadOf(i) == IF i \in Messages THEN "text" ELSE IF i \in Dumps THEN "dump" ELSE "buffer"

(* Mutant: the text thread is stopped before the one that logs dumps. *)
StopOrderTextFirst == <<"buffer", "text", "dump">>
StopOrder == <<"buffer", "dump", "text">>

LoggerTypeOK ==
  /\ \A t \in Threads : queue[t] \in Seq(Items) /\ Len(serving[t]) <= 1
  /\ active \in [Threads -> BOOLEAN] /\ stopped \in [Threads -> BOOLEAN]
  /\ calling \subseteq called /\ called \subseteq Items /\ late \subseteq Items
  /\ pushing \subseteq calling \cap Packets /\ popping \in BOOLEAN /\ torn \in BOOLEAN
  /\ waitingFor \in 0 .. Len(StopOrder) + 1 /\ closed \in BOOLEAN

LoggerInit ==
  /\ queue = [t \in Threads |-> <<>>] /\ serving = [t \in Threads |-> <<>>]
  /\ active = [t \in Threads |-> TRUE] /\ stopped = [t \in Threads |-> FALSE]
  /\ calling = {} /\ called = {} /\ late = {}
  /\ pushing = {} /\ popping = FALSE /\ torn = FALSE
  /\ accepted = <<>> /\ logFile = <<>> /\ files = <<>>
  /\ waitingFor = 0 /\ closed = FALSE

-----------------------------------------------------------------------------
(* Log, LogDump and LogBuffer.  LogBuffer tests the flag of the dump       *)
(* thread, not that of the thread that serves it.                          *)

MayLog(i) == active[IF i \in Messages THEN "text" ELSE "dump"]

LogTests(i) ==
  /\ ~closed
  /\ i \notin called
  /\ MayLog(i)
  /\ called' = called \cup {i}
  /\ calling' = calling \cup {i}
  /\ UNCHANGED <<queue, serving, active, stopped, pushing, popping, torn, accepted, late, logFile,
                 files, waitingFor, closed>>

DumpMutexFree == pushing = {}

PushReturns(i) ==
  /\ calling' = calling \ {i}
  /\ late' = IF active[ThreadOf(i)] THEN late ELSE late \cup {i}

(* Log and LogDump push under the mutex of the thread that pops.           *)
LogPushes(i) ==
  /\ ~closed
  /\ i \in calling \ Packets
  /\ i \in Dumps => DumpMutexFree
  /\ PushReturns(i)
  /\ queue' = [queue EXCEPT ![ThreadOf(i)] = Append(@, i)]
  /\ accepted' = IF i \in Messages THEN Append(accepted, i) ELSE accepted
  /\ UNCHANGED <<serving, active, stopped, pushing, popping, torn, called, logFile, files,
                 waitingFor, closed>>

LogBufferBegins(i) ==
  /\ ~closed
  /\ i \in calling
  /\ DumpMutexFree
  /\ pushing' = {i}
  /\ torn' = (torn \/ popping)
  /\ UNCHANGED <<queue, serving, active, stopped, calling, popping, called, accepted, late, logFile,
                 files, waitingFor, closed>>

(* A push into a torn queue may be lost. *)
LogBufferEnds(i) ==
  /\ ~closed
  /\ i \in pushing
  /\ pushing' = {}
  /\ PushReturns(i)
  /\ \/ queue' = [queue EXCEPT !["buffer"] = Append(@, i)]
     \/ torn /\ UNCHANGED queue
  /\ UNCHANGED <<serving, active, stopped, popping, torn, called, accepted, logFile, files,
                 waitingFor, closed>>

-----------------------------------------------------------------------------
(* ThreadProc, DmpThreadProc and BufThreadProc. *)

Pops(t) ==
  /\ t # "buffer"
  /\ t = "dump" => DumpMutexFree
  /\ active[t] /\ serving[t] = <<>> /\ queue[t] # <<>>
  /\ serving' = [serving EXCEPT ![t] = <<Head(queue[t])>>]
  /\ queue' = [queue EXCEPT ![t] = Tail(@)]
  /\ UNCHANGED <<active, stopped, calling, pushing, popping, torn, called, accepted, late, logFile,
                 files, waitingFor, closed>>

(* m_BufferMutex keeps nobody out.  A queue somebody is pushing to may     *)
(* already look longer than it is.                                         *)
BufferPopBegins ==
  /\ active["buffer"] /\ serving["buffer"] = <<>> /\ ~popping
  /\ queue["buffer"] # <<>> \/ pushing # {}
  /\ popping' = TRUE
  /\ torn' = (torn \/ pushing # {})
  /\ UNCHANGED <<queue, serving, active, stopped, calling, pushing, called, accepted, late, logFile,
                 files, waitingFor, closed>>

(* What a pop of a torn queue takes off the queue may stay there (once per *)
(* buffer: a bound), and there may be nothing to take.                     *)
BufferPopEnds ==
  /\ popping
  /\ popping' = FALSE
  /\ LET q == queue["buffer"] IN
     \/ /\ q # <<>>
        /\ serving' = [serving EXCEPT !["buffer"] = <<Head(q)>>]
        /\ \/ queue' = [queue EXCEPT !["buffer"] = Tail(q)]
           \/ torn /\ Head(q) \notin Lines!ToSet(files) /\ UNCHANGED queue
     \/ torn /\ q = <<>> /\ UNCHANGED <<serving, queue>>
  /\ UNCHANGED <<active, stopped, calling, pushing, torn, called, accepted, late, logFile, files,
                 waitingFor, closed>>

WritesLine ==
  /\ serving["text"] # <<>>
  /\ logFile' = logFile \o serving["text"]
  /\ serving' = [serving EXCEPT !["text"] = <<>>]
  /\ UNCHANGED <<queue, active, stopped, calling, pushing, popping, torn, called, accepted, late,
                 files, waitingFor, closed>>

WritesBuffer ==
  /\ serving["buffer"] # <<>>
  /\ files' = files \o serving["buffer"]
  /\ serving' = [serving EXCEPT !["buffer"] = <<>>]
  /\ UNCHANGED <<queue, active, stopped, calling, pushing, popping, torn, called, accepted, late,
                 logFile, waitingFor, closed>>

(* The dump thread logs what it has popped; Log drops it if the text       *)
(* thread has been told to stop.                                           *)
LogsDump ==
  /\ serving["dump"] # <<>>
  /\ IF active["text"]
     THEN /\ queue' = [queue EXCEPT !["text"] = @ \o serving["dump"]]
          /\ accepted' = accepted \o serving["dump"]
     ELSE UNCHANGED <<queue, accepted>>
  /\ serving' = [serving EXCEPT !["dump"] = <<>>]
  /\ UNCHANGED <<active, stopped, calling, pushing, popping, torn, called, late, logFile, files,
                 waitingFor, closed>>

(* PrintExitMessage, PrintDumpExitMessage and PrintBufferExitMessage write *)
(* what is left in the queue; the dump thread writes to the file itself.   *)
Leaving(t) == ~active[t] /\ ~stopped[t] /\ serving[t] = <<>> /\ (t = "buffer" => ~popping)

PrintsLeft(t) ==
  /\ Leaving(t)
  /\ queue[t] # <<>>
  /\ IF t = "buffer"
     THEN files' = Append(files, Head(queue[t])) /\ UNCHANGED logFile
     ELSE logFile' = Append(logFile, Head(queue[t])) /\ UNCHANGED files
  /\ queue' = [queue EXCEPT ![t] = Tail(@)]
  /\ late' = late \cup {i \in calling : ThreadOf(i) = t}
  /\ UNCHANGED <<serving, active, stopped, calling, pushing, popping, torn, called, accepted,
                 waitingFor, closed>>

ThreadEnds(t) ==
  /\ Leaving(t)
  /\ queue[t] = <<>>
  /\ stopped' = [stopped EXCEPT ![t] = TRUE]
  /\ UNCHANGED <<queue, serving, active, calling, pushing, popping, torn, called, accepted, late,
                 logFile, files, waitingFor, closed>>

-----------------------------------------------------------------------------
(* ~BaseLogger. *)

DestructorWaited == waitingFor > 0 => stopped[StopOrder[waitingFor]]

DestructorStops ==
  /\ waitingFor < Len(StopOrder)
  /\ DestructorWaited
  /\ waitingFor' = waitingFor + 1
  /\ active' = [active EXCEPT ![StopOrder[waitingFor + 1]] = FALSE]
  /\ UNCHANGED <<queue, serving, stopped, calling, pushing, popping, torn, called, accepted, late,
                 logFile, files, closed>>

DestructorCloses ==
  /\ waitingFor = Len(StopOrder) /\ ~closed
  /\ DestructorWaited
  /\ closed' = TRUE
  /\ UNCHANGED <<queue, serving, active, stopped, calling, pushing, popping, torn, called, accepted,
                 late, logFile, files, waitingFor>>

-----------------------------------------------------------------------------

LoggerNext ==
  \/ \E i \in Items : LogTests(i) \/ LogPushes(i)
  \/ \E i \in Packets : LogBufferBegins(i) \/ LogBufferEnds(i)
  \/ \E t \in Threads : Pops(t) \/ PrintsLeft(t) \/ ThreadEnds(t)
  \/ BufferPopBegins \/ BufferPopEnds
  \/ WritesLine \/ WritesBuffer \/ LogsDump
  \/ DestructorStops \/ DestructorCloses

LoggerSpec == LoggerInit /\ [][LoggerNext]_loggerVars

-----------------------------------------------------------------------------
(* When the file is closed every line and every dump that was logged is in *)
(* it once, and lines of text are in the order in which they were          *)
(* accepted; but for calls that push only after their thread was told to   *)
(* stop.  Every buffer that was logged has been written once, if moreover  *)
(* no push into m_BufferQueue overlapped a pop: their mutexes differ, and  *)
(* after an overlap nothing is claimed of the buffers.                     *)
Before(x, y, s) == \E k, l \in DOMAIN s : k < l /\ s[k] = x /\ s[l] = y
Logged == called \ calling
LogComplete ==
  closed /\ late = {} =>
    /\ Lines!ToSet(logFile) = Logged \ Packets
    /\ Lines!IsInjective(logFile)
    /\ \A i, j \in DOMAIN accepted : i < j => Before(accepted[i], accepted[j], logFile)
    /\ ~torn => Lines!ToSet(files) = Logged \cap Packets /\ Lines!IsInjective(files)

=============================================================================
