-------------------------- MODULE WindowPartsProofs --------------------------
(***************************************************************************)
(* Nothing that is logged gets lost, doubled or out of order, for any      *)
(* number of messages, dumps and buffers; and the parts of the window side *)
(* by side, display path, session, image conversion and logger: each keeps *)
(* its promises, whatever the others do.                                   *)
(***************************************************************************)
EXTENDS MCWindowParts, DisplayPathProofs, ViewerSessionProofs, ImageTransformProofs, TLAPS

-----------------------------------------------------------------------------
(* Sequences without duplicates. *)

In(s) == Lines!ToSet(s)
Once(s) == Lines!IsInjective(s)

LEMMA EmptyLine == In(<<>>) = {} /\ Once(<<>>) /\ \A x, y : ~Before(x, y, <<>>)
BY DEF In, Once, Before, Lines!ToSet, Lines!IsInjective

LEMMA Appended ==
  ASSUME NEW S, NEW s \in Seq(S), NEW x \in S
  PROVE  /\ In(Append(s, x)) = In(s) \cup {x}
         /\ Once(s) /\ x \notin In(s) => Once(Append(s, x))
         /\ \A a, b : Before(a, b, s) => Before(a, b, Append(s, x))
         /\ \A a \in In(s) : Before(a, x, Append(s, x))
<1> DEFINE t == Append(s, x)
           n == Len(s)
<1>1. /\ n \in Nat /\ DOMAIN s = 1 .. n /\ DOMAIN t = 1 .. (n + 1)
      /\ \A i \in 1 .. n : t[i] = s[i]
      /\ t[n + 1] = x
  BY AppendProperties
<1> HIDE DEF t, n
<1>2. \A i \in 1 .. (n + 1) : i \in 1 .. n \/ i = n + 1
  BY <1>1
<1>3. \A i \in 1 .. n : i \in 1 .. (n + 1) /\ i < n + 1
  BY <1>1
<1>4. n + 1 \in 1 .. (n + 1)
  BY <1>1
<1>5. In(t) = In(s) \cup {x}
  BY <1>1, <1>2, <1>3, <1>4 DEF In, Lines!ToSet
<1>6. Once(s) /\ x \notin In(s) => Once(t)
  <2> SUFFICES ASSUME Once(s), x \notin In(s), NEW i \in DOMAIN t, NEW j \in DOMAIN t, t[i] = t[j]
               PROVE  i = j
    BY DEF Once, Lines!IsInjective
  <2>1. \A k \in 1 .. n : s[k] # x
    BY <1>1 DEF In, Lines!ToSet
  <2> QED
    BY <1>1, <1>2, <2>1 DEF Once, Lines!IsInjective
<1>7. ASSUME NEW a, NEW b, Before(a, b, s) PROVE Before(a, b, t)
  BY <1>1, <1>3, <1>7 DEF Before
<1>8. ASSUME NEW a \in In(s) PROVE Before(a, x, t)
  BY <1>1, <1>3, <1>4 DEF Before, In, Lines!ToSet
<1> QED
  BY <1>5, <1>6, <1>7, <1>8 DEF t

LEMMA HeadRemoved ==
  ASSUME NEW S, NEW s \in Seq(S), s # <<>>
  PROVE  /\ Head(s) \in S /\ Tail(s) \in Seq(S)
         /\ In(s) = {Head(s)} \cup In(Tail(s))
         /\ Once(s) => Once(Tail(s)) /\ Head(s) \notin In(Tail(s))
         /\ \A a, b : Before(a, b, s) =>
              Before(a, b, Tail(s)) \/ (a = Head(s) /\ b \in In(Tail(s)))
<1> DEFINE t == Tail(s)
           n == Len(s)
<1>1. /\ n \in Nat /\ n >= 1 /\ DOMAIN s = 1 .. n /\ DOMAIN t = 1 .. (n - 1)
      /\ \A i \in 1 .. (n - 1) : t[i] = s[i + 1]
      /\ Head(s) = s[1]
      /\ Head(s) \in S /\ t \in Seq(S)
  BY HeadTailProperties, EmptySeq, LenProperties
<1> HIDE DEF t, n
<1>2. 1 \in 1 .. n
  BY <1>1
<1>3. \A i \in 1 .. (n - 1) : i + 1 \in 1 .. n /\ i + 1 # 1
  BY <1>1
<1>4. \A i \in 1 .. n : i = 1 \/ (i - 1 \in 1 .. (n - 1) /\ i = (i - 1) + 1 /\ t[i - 1] = s[i])
  <2> SUFFICES ASSUME NEW i \in 1 .. n, i # 1
               PROVE  i - 1 \in 1 .. (n - 1) /\ i = (i - 1) + 1 /\ t[i - 1] = s[i]
    OBVIOUS
  <2>1. i - 1 \in 1 .. (n - 1) /\ i = (i - 1) + 1
    BY <1>1
  <2> QED
    BY <1>1, <2>1
<1>5. In(s) = {Head(s)} \cup In(t)
  <2>1. In(s) = {s[i] : i \in 1 .. n} /\ In(t) = {t[i] : i \in 1 .. (n - 1)}
    BY <1>1 DEF In, Lines!ToSet
  <2>2. ASSUME NEW x \in In(s) PROVE x = Head(s) \/ x \in In(t)
    BY <1>1, <1>4, <2>1
  <2>3. ASSUME NEW x \in In(t) PROVE x \in In(s)
    BY <1>1, <1>3, <2>1
  <2>4. Head(s) \in In(s)
    BY <1>1, <1>2, <2>1
  <2> QED
    BY <2>2, <2>3, <2>4
<1>6. ASSUME Once(s) PROVE Once(t) /\ Head(s) \notin In(t)
  <2>1. ASSUME NEW i \in 1 .. (n - 1), NEW j \in 1 .. (n - 1), t[i] = t[j] PROVE i = j
    <3>1. i + 1 \in DOMAIN s /\ j + 1 \in DOMAIN s /\ s[i + 1] = s[j + 1]
      BY <1>1, <1>3, <2>1
    <3>2. i + 1 = j + 1
      BY <1>6, <3>1 DEF Once, Lines!IsInjective
    <3> QED
      BY <1>1, <3>2
  <2>2. ASSUME NEW i \in 1 .. (n - 1) PROVE t[i] # s[1]
    <3>1. 1 \in DOMAIN s /\ i + 1 \in DOMAIN s /\ i + 1 # 1 /\ t[i] = s[i + 1]
      BY <1>1, <1>2, <1>3
    <3> QED
      BY ONLY <1>6, <3>1 DEF Once, Lines!IsInjective
  <2> QED
    BY <1>1, <2>1, <2>2 DEF Once, In, Lines!ToSet, Lines!IsInjective
<1>7. ASSUME NEW a, NEW b, Before(a, b, s)
      PROVE  Before(a, b, t) \/ (a = Head(s) /\ b \in In(t))
  <2>1. PICK k \in 1 .. n, l \in 1 .. n : k < l /\ s[k] = a /\ s[l] = b
    BY <1>1, <1>7 DEF Before
  <2>2. l # 1 /\ l - 1 \in 1 .. (n - 1) /\ t[l - 1] = b
    BY <1>1, <1>4, <2>1
  <2>3. CASE k = 1
    BY <1>1, <2>1, <2>2, <2>3 DEF In, Lines!ToSet
  <2>4. CASE k # 1
    <3>1. k - 1 \in 1 .. (n - 1) /\ t[k - 1] = a /\ k - 1 < l - 1
      BY <1>1, <1>4, <2>1, <2>4
    <3> QED
      BY <1>1, <2>2, <3>1 DEF Before
  <2> QED
    BY <2>3, <2>4
<1> QED
  BY <1>1, <1>5, <1>6, <1>7 DEF t

LEMMA SingleLine ==
  ASSUME NEW S, NEW s \in Seq(S), NEW x \in S
  PROVE  In(<<x>>) = {x} /\ s \o <<x>> = Append(s, x) /\ Head(<<x>>) = x
<1>1. In(<<x>>) = {x}
  BY DEF In, Lines!ToSet
<1> QED
  BY <1>1, AppendIsConcat

-----------------------------------------------------------------------------
(* The ways of the items. *)

LoggerTypes ==
  /\ queue \in [Threads -> Seq(Items)]
  /\ serving \in [Threads -> {<<>>} \cup {<<i>> : i \in Items}]
  /\ active \in [Threads -> BOOLEAN] /\ stopped \in [Threads -> BOOLEAN]
  /\ calling \subseteq called /\ called \subseteq Items /\ late \subseteq Items
  /\ pushing \subseteq calling \cap Packets /\ popping \in BOOLEAN /\ torn \in BOOLEAN
  /\ accepted \in Seq(Items) /\ logFile \in Seq(Items) /\ files \in Seq(Items)
  /\ waitingFor \in 0 .. 3 /\ closed \in BOOLEAN

(* The threads are stopped one after the other; a thread that has ended    *)
(* has nothing left, if nobody pushes late.                                *)
ControlInv ==
  /\ active["buffer"] <=> waitingFor = 0
  /\ active["dump"] <=> waitingFor \in {0, 1}
  /\ active["text"] <=> waitingFor # 3
  /\ waitingFor \in {2, 3} => stopped["buffer"]
  /\ waitingFor = 3 => stopped["dump"]
  /\ closed => waitingFor = 3 /\ stopped["text"]
  /\ popping => serving["buffer"] = <<>>
  /\ \A t \in Threads : stopped[t] =>
       /\ ~active[t] /\ serving[t] = <<>>
       /\ t = "buffer" => ~popping
       /\ late = {} => queue[t] = <<>>

File == In(logFile)
Way(t) == In(serving[t]) \cup In(queue[t])
LogThreads == Threads \ {"buffer"}
LinesLogged == Logged \ Packets
BuffersLogged == Logged \cap Packets

(* A line or dump that has been pushed is in one place, once.              *)
OnlyOnce == Once(logFile) /\ \A t \in LogThreads : Once(queue[t])
Apart ==
  \A t \in LogThreads :
    /\ In(serving[t]) \cap In(queue[t]) = {} /\ File \cap Way(t) = {}
    /\ \A u \in LogThreads \ {t} : Way(t) \cap Way(u) = {}
AllPushed == File \subseteq LinesLogged /\ \A t \in LogThreads : Way(t) \subseteq LinesLogged
NoneLost ==
  late = {} => \A i \in LinesLogged : i \in File \/ \E t \in LogThreads : i \in Way(t)
PlaceInv == OnlyOnce /\ Apart /\ AllPushed /\ NoneLost

(* So is a buffer, as long as no push and pop have overlapped.             *)
BufferInv ==
  ~torn =>
    /\ Once(files) /\ Once(queue["buffer"])
    /\ In(serving["buffer"]) \cap In(queue["buffer"]) = {}
    /\ In(files) \cap Way("buffer") = {}
    /\ In(files) \cup Way("buffer") \subseteq BuffersLogged
    /\ late = {} => BuffersLogged \subseteq In(files) \cup Way("buffer")

(* A line of text stays behind the lines that were accepted before it.     *)
InOrder(x, y) ==
  \/ Before(x, y, logFile)
  \/ x \in File /\ y \in Way("text")
  \/ x \in In(serving["text"]) /\ y \in In(queue["text"])
  \/ Before(x, y, queue["text"])
TextWay == File \cup Way("text")
OrderInv ==
  /\ \A i \in DOMAIN accepted : accepted[i] \in TextWay
  /\ \A i, j \in DOMAIN accepted : i < j => InOrder(accepted[i], accepted[j])

LoggerInv == LoggerTypes /\ ControlInv /\ PlaceInv /\ BufferInv /\ OrderInv

LEMMA LoggerInvInit == LoggerInit => LoggerInv
<1> SUFFICES ASSUME LoggerInit PROVE LoggerInv
  OBVIOUS
<1>1. LoggerTypes
  <2>1. <<>> \in Seq(Items) /\ 0 \in 0 .. 3
    OBVIOUS
  <2>2. queue \in [Threads -> Seq(Items)] /\ serving \in [Threads -> {<<>>} \cup {<<i>> : i \in Items}]
    BY <2>1 DEF LoggerInit
  <2>3. active \in [Threads -> BOOLEAN] /\ stopped \in [Threads -> BOOLEAN]
    BY DEF LoggerInit
  <2> QED
    BY <2>1, <2>2, <2>3 DEF LoggerInit, LoggerTypes
<1>2. ControlInv
  BY DEF LoggerInit, ControlInv, Threads
<1>3. /\ queue = [t \in Threads |-> <<>>] /\ serving = [t \in Threads |-> <<>>]
      /\ logFile = <<>> /\ files = <<>> /\ called = {} /\ accepted = <<>>
  BY DEF LoggerInit
<1>4. File = {} /\ Logged = {} /\ \A t \in Threads : Way(t) = {}
  BY <1>3, EmptyLine DEF File, Logged, Way
<1>5. PlaceInv
  BY <1>3, <1>4, EmptyLine
     DEF PlaceInv, OnlyOnce, Apart, AllPushed, NoneLost, LogThreads, LinesLogged
<1>6. BufferInv
  BY <1>3, <1>4, EmptyLine DEF BufferInv, BuffersLogged, Threads
<1>7. OrderInv
  BY <1>3 DEF OrderInv
<1> QED
  BY <1>1, <1>2, <1>5, <1>6, <1>7 DEF LoggerInv

LEMMA LoggerTypesStep == LoggerTypes /\ [LoggerNext]_loggerVars => LoggerTypes'
<1> SUFFICES ASSUME LoggerTypes, [LoggerNext]_loggerVars PROVE LoggerTypes'
  OBVIOUS
<1> USE DEF LoggerTypes
<1>0. \A i \in Items : ThreadOf(i) \in Threads
  BY DEF ThreadOf, Threads
<1>1. ASSUME NEW i \in Items, LogTests(i) PROVE LoggerTypes'
  BY <1>1 DEF LogTests
<1>2. ASSUME NEW i \in Items, LogPushes(i) PROVE LoggerTypes'
  <2>1. Append(queue[ThreadOf(i)], i) \in Seq(Items) /\ Append(accepted, i) \in Seq(Items)
    BY <1>0, <1>2
  <2>2. queue' \in [Threads -> Seq(Items)] /\ accepted' \in Seq(Items)
    BY <1>0, <1>2, <2>1 DEF LogPushes
  <2> QED
    BY <1>2, <2>2 DEF LogPushes, PushReturns
<1>3. ASSUME NEW i \in Packets, LogBufferBegins(i) \/ LogBufferEnds(i) PROVE LoggerTypes'
  <2>1. i \in Items
    BY DEF Items
  <2>2. "buffer" \in Threads
    BY DEF Threads
  <2>3. Append(queue["buffer"], i) \in Seq(Items)
    BY <2>1, <2>2
  <2>4. CASE LogBufferBegins(i)
    BY <2>4 DEF LogBufferBegins
  <2>5. CASE LogBufferEnds(i)
    <3>1. queue' \in [Threads -> Seq(Items)]
      BY <2>2, <2>3, <2>5 DEF LogBufferEnds
    <3> QED
      BY <2>1, <2>5, <3>1 DEF LogBufferEnds, PushReturns
  <2> QED
    BY <1>3, <2>4, <2>5
<1>4. ASSUME NEW t \in Threads, Pops(t) PROVE LoggerTypes'
  <2>1. Head(queue[t]) \in Items /\ Tail(queue[t]) \in Seq(Items)
    BY <1>4, HeadRemoved DEF Pops
  <2> QED
    BY <1>4, <2>1 DEF Pops
<1>5. CASE BufferPopBegins \/ BufferPopEnds
  <2>1. "buffer" \in Threads
    BY DEF Threads
  <2>2. queue["buffer"] # <<>> =>
          Head(queue["buffer"]) \in Items /\ Tail(queue["buffer"]) \in Seq(Items)
    BY <2>1, HeadRemoved
  <2>3. CASE BufferPopBegins
    BY <2>3 DEF BufferPopBegins
  <2>4. CASE BufferPopEnds
    <3>1. queue' \in [Threads -> Seq(Items)]
      BY <2>1, <2>2, <2>4 DEF BufferPopEnds
    <3>2. serving' \in [Threads -> {<<>>} \cup {<<i>> : i \in Items}]
      BY <2>1, <2>2, <2>4 DEF BufferPopEnds
    <3> QED
      BY <2>4, <3>1, <3>2 DEF BufferPopEnds
  <2> QED
    BY <1>5, <2>3, <2>4
<1>6. CASE WritesLine \/ WritesBuffer
  <2>1. "text" \in Threads /\ "buffer" \in Threads
    BY DEF Threads
  <2>2. CASE WritesLine
    <3>1. PICK i \in Items : serving["text"] = <<i>>
      BY <2>1, <2>2 DEF WritesLine
    <3>2. logFile' \in Seq(Items)
      BY <2>2, <3>1 DEF WritesLine
    <3> QED
      BY <2>2, <3>2 DEF WritesLine
  <2>3. CASE WritesBuffer
    <3>1. PICK i \in Items : serving["buffer"] = <<i>>
      BY <2>1, <2>3 DEF WritesBuffer
    <3>2. files' \in Seq(Items)
      BY <2>3, <3>1 DEF WritesBuffer
    <3> QED
      BY <2>3, <3>2 DEF WritesBuffer
  <2> QED
    BY <1>6, <2>2, <2>3
<1>7. ASSUME NEW t \in Threads, PrintsLeft(t) PROVE LoggerTypes'
  <2>1. Head(queue[t]) \in Items /\ Tail(queue[t]) \in Seq(Items)
    BY <1>7, HeadRemoved DEF PrintsLeft
  <2>0. Append(logFile, Head(queue[t])) \in Seq(Items) /\ Append(files, Head(queue[t])) \in Seq(Items)
    BY <2>1
  <2>2. logFile' \in Seq(Items) /\ files' \in Seq(Items)
    BY <1>7, <2>0 DEF PrintsLeft
  <2>3. queue' \in [Threads -> Seq(Items)]
    BY <1>7, <2>1 DEF PrintsLeft
  <2>4. late' \subseteq Items
    BY <1>7 DEF PrintsLeft
  <2> QED
    BY <1>7, <2>2, <2>3, <2>4 DEF PrintsLeft
<1>8. ASSUME NEW t \in Threads, ThreadEnds(t) PROVE LoggerTypes'
  BY <1>8 DEF ThreadEnds
<1>9. CASE LogsDump
  <2>0. "dump" \in Threads /\ "text" \in Threads
    BY DEF Threads
  <2>1. PICK i \in Items : serving["dump"] = <<i>>
    BY <1>9, <2>0 DEF LogsDump
  <2>2. queue["text"] \o <<i>> \in Seq(Items) /\ accepted \o <<i>> \in Seq(Items)
    BY <2>0
  <2>3. queue' \in [Threads -> Seq(Items)] /\ accepted' \in Seq(Items)
    BY <1>9, <2>1, <2>2 DEF LogsDump
  <2> QED
    BY <1>9, <2>3 DEF LogsDump
<1>10. CASE DestructorStops
  <2>1. waitingFor' \in 0 .. 3
    BY <1>10 DEF DestructorStops, StopOrder
  <2> QED
    BY <1>10, <2>1 DEF DestructorStops
<1>11. CASE DestructorCloses
  BY <1>11 DEF DestructorCloses
<1>12. CASE UNCHANGED loggerVars
  BY <1>12 DEF loggerVars
<1> QED
  BY <1>1, <1>2, <1>3, <1>4, <1>5, <1>6, <1>7, <1>8, <1>9, <1>10, <1>11, <1>12 DEF LoggerNext

LEMMA ControlInvStep ==
  ASSUME LoggerTypes, ControlInv, [LoggerNext]_loggerVars
  PROVE  ControlInv'
<1> USE DEF LoggerTypes, ControlInv
<1>1. ASSUME NEW i \in Items, LogTests(i) PROVE ControlInv'
  BY <1>1 DEF LogTests
<1>2. ASSUME NEW i \in Items, LogPushes(i) PROVE ControlInv'
  <2>1. ASSUME NEW t \in Threads, stopped[t], late' = {} PROVE late = {} /\ queue'[t] = <<>>
    <3>1. ~active[t]
      BY <2>1
    <3>2. late = {} /\ active[ThreadOf(i)]
      BY <1>2, <2>1 DEF LogPushes, PushReturns
    <3>3. t # ThreadOf(i)
      BY <3>1, <3>2
    <3>4. queue'[t] = queue[t]
      BY <1>2, <3>3 DEF LogPushes
    <3> QED
      BY <2>1, <3>2, <3>4
  <2> QED
    BY <1>2, <2>1 DEF LogPushes
<1>3. ASSUME NEW i \in Packets, LogBufferBegins(i) \/ LogBufferEnds(i) PROVE ControlInv'
  <2>1. CASE LogBufferBegins(i)
    BY <2>1 DEF LogBufferBegins
  <2>2. CASE LogBufferEnds(i)
    <3>1. ThreadOf(i) = "buffer"
      BY ItemsAssumption DEF ThreadOf
    <3>2. ASSUME NEW t \in Threads, stopped[t], late' = {} PROVE late = {} /\ queue'[t] = <<>>
      <4>1. late = {} /\ active["buffer"] /\ ~active[t]
        BY <2>2, <3>1, <3>2 DEF LogBufferEnds, PushReturns
      <4>2. queue'[t] = queue[t]
        BY <2>2, <4>1 DEF LogBufferEnds
      <4> QED
        BY <3>2, <4>1, <4>2
    <3> QED
      BY <2>2, <3>2 DEF LogBufferEnds
  <2> QED
    BY <1>3, <2>1, <2>2
<1>4. ASSUME NEW t \in Threads, Pops(t) PROVE ControlInv'
  BY <1>4 DEF Pops
<1>5. CASE BufferPopBegins \/ BufferPopEnds
  <2>1. CASE BufferPopBegins
    BY <2>1 DEF BufferPopBegins
  <2>2. CASE BufferPopEnds
    <3>1. ~stopped["buffer"]
      BY <2>2 DEF BufferPopEnds, Threads
    <3>2. \A t \in Threads : t # "buffer" => queue'[t] = queue[t] /\ serving'[t] = serving[t]
      BY <2>2 DEF BufferPopEnds
    <3>3. ~popping' /\ UNCHANGED <<active, stopped, late, waitingFor, closed>>
      BY <2>2 DEF BufferPopEnds
    <3> QED
      BY <3>1, <3>2, <3>3
  <2> QED
    BY <1>5, <2>1, <2>2
<1>6. CASE WritesLine \/ WritesBuffer
  <2>1. /\ \A t \in Threads : serving[t] = <<>> => serving'[t] = <<>>
        /\ UNCHANGED <<queue, active, stopped, popping, late, waitingFor, closed>>
    BY <1>6 DEF WritesLine, WritesBuffer
  <2>2. "buffer" \in Threads
    BY DEF Threads
  <2> QED
    BY <2>1, <2>2
<1>7. ASSUME NEW t \in Threads, PrintsLeft(t) PROVE ControlInv'
  <2>1. late' = {} => late = {}
    BY <1>7 DEF PrintsLeft
  <2> QED
    BY <1>7, <2>1 DEF PrintsLeft, Leaving
<1>8. ASSUME NEW t \in Threads, ThreadEnds(t) PROVE ControlInv'
  <2>1. /\ ~active[t] /\ serving[t] = <<>> /\ queue[t] = <<>> /\ (t = "buffer" => ~popping)
        /\ \A u \in Threads : stopped'[u] <=> (u = t \/ stopped[u])
        /\ UNCHANGED <<queue, serving, active, popping, late, waitingFor, closed>>
    BY <1>8 DEF ThreadEnds, Leaving
  <2> QED
    BY <2>1 DEF Threads
<1>9. CASE LogsDump
  <2>1. /\ \A t \in Threads : serving[t] = <<>> => serving'[t] = <<>>
        /\ UNCHANGED <<active, stopped, popping, late, waitingFor, closed>>
    BY <1>9 DEF LogsDump
  <2>2. ASSUME NEW t \in Threads, stopped[t] PROVE queue'[t] = queue[t]
    BY <1>9, <2>2 DEF LogsDump
  <2>3. "buffer" \in Threads
    BY DEF Threads
  <2> QED
    BY <2>1, <2>2, <2>3
<1>10. CASE DestructorStops
  <2>1. /\ waitingFor \in {0, 1, 2} /\ waitingFor' = waitingFor + 1
        /\ waitingFor = 1 => stopped["buffer"]
        /\ waitingFor = 2 => stopped["dump"]
        /\ active' = [active EXCEPT ![StopOrder[waitingFor + 1]] = FALSE]
        /\ UNCHANGED <<queue, serving, stopped, popping, late, closed>>
    BY <1>10 DEF DestructorStops, DestructorWaited, StopOrder
  <2>2. CASE waitingFor = 0
    <3>1. StopOrder[waitingFor + 1] = "buffer" /\ waitingFor' = 1
      BY <2>1, <2>2 DEF StopOrder
    <3> QED
      BY <2>1, <2>2, <3>1 DEF Threads
  <2>3. CASE waitingFor = 1
    <3>1. StopOrder[waitingFor + 1] = "dump" /\ waitingFor' = 2
      BY <2>1, <2>3 DEF StopOrder
    <3> QED
      BY <2>1, <2>3, <3>1 DEF Threads
  <2>4. CASE waitingFor = 2
    <3>1. StopOrder[waitingFor + 1] = "text" /\ waitingFor' = 3
      BY <2>1, <2>4 DEF StopOrder
    <3> QED
      BY <2>1, <2>4, <3>1 DEF Threads
  <2> QED
    BY <2>1, <2>2, <2>3, <2>4
<1>11. CASE DestructorCloses
  <2>1. waitingFor = 3 /\ stopped["text"] /\ closed'
        /\ UNCHANGED <<queue, serving, active, stopped, popping, late, waitingFor>>
    BY <1>11 DEF DestructorCloses, DestructorWaited, StopOrder
  <2> QED
    BY <2>1
<1>12. CASE UNCHANGED loggerVars
  BY <1>12 DEF loggerVars
<1> QED
  BY <1>1, <1>2, <1>3, <1>4, <1>5, <1>6, <1>7, <1>8, <1>9, <1>10, <1>11, <1>12 DEF LoggerNext

(* The moves of an item: onto a queue, from a queue to the thread, from a  *)
(* thread to the file, from a queue to the file.                           *)
Pushes(i, t) ==
  /\ queue' = [queue EXCEPT ![t] = Append(queue[t], i)]
  /\ UNCHANGED logFile

LEMMA PushedItem ==
  ASSUME LoggerTypes, NEW i \in Items, NEW t \in Threads, Pushes(i, t)
  PROVE  /\ In(queue'[t]) = In(queue[t]) \cup {i}
         /\ Once(queue[t]) /\ i \notin In(queue[t]) => Once(queue'[t])
         /\ \A a, b : Before(a, b, queue[t]) => Before(a, b, queue'[t])
         /\ \A a \in In(queue[t]) : Before(a, i, queue'[t])
         /\ \A u \in Threads \ {t} : queue'[u] = queue[u]
<1>1. queue'[t] = Append(queue[t], i) /\ queue[t] \in Seq(Items)
  BY DEF LoggerTypes, Pushes
<1>2. \A u \in Threads \ {t} : queue'[u] = queue[u]
  BY DEF LoggerTypes, Pushes
<1> QED
  BY <1>1, <1>2, Appended

LEMMA PoppedItem ==
  ASSUME LoggerTypes, NEW t \in Threads, queue[t] # <<>>, queue' = [queue EXCEPT ![t] = Tail(@)]
  PROVE  /\ Head(queue[t]) \in Items
         /\ In(queue[t]) = {Head(queue[t])} \cup In(queue'[t])
         /\ Once(queue[t]) => Once(queue'[t]) /\ Head(queue[t]) \notin In(queue'[t])
         /\ \A a, b : Before(a, b, queue[t]) =>
              Before(a, b, queue'[t]) \/ (a = Head(queue[t]) /\ b \in In(queue'[t]))
         /\ \A u \in Threads \ {t} : queue'[u] = queue[u]
<1>1. queue'[t] = Tail(queue[t]) /\ queue[t] \in Seq(Items)
  BY DEF LoggerTypes
<1>2. \A u \in Threads \ {t} : queue'[u] = queue[u]
  BY DEF LoggerTypes
<1> QED
  BY <1>1, <1>2, HeadRemoved

LEMMA WrittenItem ==
  ASSUME LoggerTypes, NEW i \in Items, logFile' = Append(logFile, i)
  PROVE  /\ In(logFile') = In(logFile) \cup {i}
         /\ Once(logFile) /\ i \notin In(logFile) => Once(logFile')
         /\ \A a, b : Before(a, b, logFile) => Before(a, b, logFile')
         /\ \A a \in In(logFile) : Before(a, i, logFile')
BY Appended DEF LoggerTypes

(* The item in a thread's hands.                                           *)
LEMMA ServedItem ==
  ASSUME LoggerTypes, NEW t \in Threads, serving[t] # <<>>,
         serving' = [serving EXCEPT ![t] = <<>>]
  PROVE  \E i \in Items :
           /\ serving[t] = <<i>> /\ In(serving[t]) = {i} /\ In(serving'[t]) = {}
           /\ \A u \in Threads \ {t} : serving'[u] = serving[u]
           /\ \A s \in Seq(Items) : s \o serving[t] = Append(s, i)
<1>1. PICK i \in Items : serving[t] = <<i>>
  BY DEF LoggerTypes
<1>2. serving'[t] = <<>> /\ \A u \in Threads \ {t} : serving'[u] = serving[u]
  BY DEF LoggerTypes
<1>3. <<>> \in Seq(Items)
  OBVIOUS
<1>4. In(serving[t]) = {i} /\ \A s \in Seq(Items) : s \o serving[t] = Append(s, i)
  BY <1>1, <1>3, SingleLine
<1>5. In(serving'[t]) = {}
  BY <1>2, EmptyLine
<1> QED
  BY <1>1, <1>2, <1>4, <1>5

(* What happens to buffers does not concern the lines.                     *)
LEMMA PlaceKept ==
  ASSUME PlaceInv, logFile' = logFile, LinesLogged' = LinesLogged, late' = {} => late = {},
         \A t \in LogThreads : queue'[t] = queue[t] /\ serving'[t] = serving[t]
  PROVE  PlaceInv'
<1>1. File' = File /\ \A t \in LogThreads : Way(t)' = Way(t)
  BY DEF File, Way
<1> QED
  BY <1>1 DEF PlaceInv, OnlyOnce, Apart, AllPushed, NoneLost

(* Nor does what happens to lines concern the buffers.                     *)
LEMMA BuffersKept ==
  ASSUME BufferInv, files' = files, BuffersLogged' = BuffersLogged, late' = {} => late = {},
         torn' = torn, queue'["buffer"] = queue["buffer"], serving'["buffer"] = serving["buffer"]
  PROVE  BufferInv'
<1>1. In(files)' = In(files) /\ Way("buffer")' = Way("buffer")
  BY DEF Way
<1> QED
  BY <1>1 DEF BufferInv

LEMMA PlaceInvStep ==
  ASSUME LoggerTypes, ControlInv, PlaceInv, [LoggerNext]_loggerVars
  PROVE  PlaceInv'
<1>a. \A t \in LogThreads : t \in Threads /\ t # "buffer"
  BY DEF LogThreads
<1>b. "dump" \in LogThreads /\ "text" \in LogThreads
  BY DEF Threads, LogThreads
<1>1. ASSUME NEW i \in Items, LogTests(i) PROVE PlaceInv'
  <2>1. LinesLogged' = LinesLogged /\ UNCHANGED <<queue, serving, logFile, late>>
    BY <1>1 DEF LogTests, LinesLogged, Logged, LoggerTypes
  <2> QED
    BY <2>1, PlaceKept
<1>2. ASSUME NEW i \in Items, LogPushes(i) PROVE PlaceInv'
  <2> DEFINE t == ThreadOf(i)
  <2>0. t \in LogThreads
    BY <1>2 DEF LogPushes, LoggerTypes, Items, ThreadOf, Threads, LogThreads
  <2>1. /\ t \in LogThreads /\ t \in Threads /\ Pushes(i, t)
        /\ i \notin LinesLogged /\ LinesLogged' = LinesLogged \cup {i}
        /\ UNCHANGED <<serving, logFile>> /\ (late' = {} => late = {})
    BY <1>2, <1>a, <2>0
       DEF LogPushes, PushReturns, Pushes, LinesLogged, Logged, LoggerTypes
  <2> HIDE DEF t
  <2>2. /\ In(queue'[t]) = In(queue[t]) \cup {i}
        /\ Once(queue[t]) /\ i \notin In(queue[t]) => Once(queue'[t])
        /\ \A u \in LogThreads \ {t} : queue'[u] = queue[u]
    BY <2>1, <1>a, PushedItem
  <2>3. i \notin File /\ \A u \in LogThreads : i \notin Way(u)
    BY <2>1 DEF PlaceInv, AllPushed
  <2>4. OnlyOnce'
    BY <2>1, <2>2, <2>3
       DEF PlaceInv, OnlyOnce, Apart, AllPushed, File, Way
  <2>5. Apart'
    BY <2>1, <2>2, <2>3
       DEF PlaceInv, Apart, AllPushed, File, Way
  <2>6. AllPushed'
    BY <2>1, <2>2, <2>3
       DEF PlaceInv, Apart, AllPushed, File, Way
  <2>7. NoneLost'
    BY <2>1, <2>2, <2>3
       DEF PlaceInv, NoneLost, AllPushed, File, Way
  <2> QED
    BY <2>4, <2>5, <2>6, <2>7 DEF PlaceInv
<1>3. ASSUME NEW i \in Packets, LogBufferBegins(i) \/ LogBufferEnds(i) PROVE PlaceInv'
  <2>1. LinesLogged' = LinesLogged /\ (late' = {} => late = {}) /\ UNCHANGED <<serving, logFile>>
    BY <1>3 DEF LogBufferBegins, LogBufferEnds, PushReturns, LinesLogged, Logged
  <2>2. \A t \in LogThreads : queue'[t] = queue[t]
    BY <1>3, <1>a DEF LogBufferBegins, LogBufferEnds, LoggerTypes
  <2> QED
    BY <2>1, <2>2, PlaceKept
<1>4. ASSUME NEW t \in Threads, Pops(t) PROVE PlaceInv'
  <2> DEFINE i == Head(queue[t])
  <2>0. t \in LogThreads
    BY <1>4 DEF Pops, LogThreads
  <2>1. /\ queue[t] # <<>> /\ queue' = [queue EXCEPT ![t] = Tail(@)]
        /\ serving[t] = <<>> /\ serving' = [serving EXCEPT ![t] = <<i>>]
        /\ UNCHANGED <<logFile, late>> /\ LinesLogged' = LinesLogged
    BY <1>4 DEF Pops, LinesLogged, Logged
  <2>2. /\ i \in Items
        /\ In(queue[t]) = {i} \cup In(queue'[t])
        /\ Once(queue[t]) => Once(queue'[t]) /\ i \notin In(queue'[t])
        /\ \A u \in LogThreads \ {t} : queue'[u] = queue[u]
    BY <2>0, <2>1, <1>a, PoppedItem
  <2>3. /\ serving'[t] = <<i>>
        /\ \A u \in LogThreads \ {t} : serving'[u] = serving[u]
    BY <1>a, <2>0, <2>1 DEF LoggerTypes
  <2>4. <<>> \in Seq(Items)
    OBVIOUS
  <2>5. In(serving'[t]) = {i} /\ In(serving[t]) = {}
    BY <2>1, <2>2, <2>3, <2>4, SingleLine, EmptyLine
  <2> HIDE DEF i
  <2>6. \A u \in LogThreads : Way(u)' = Way(u)
    BY <2>0, <2>2, <2>3, <2>5 DEF Way
  <2>7. OnlyOnce'
    BY <2>0, <2>1, <2>2, <2>3, <2>5, <2>6
       DEF PlaceInv, OnlyOnce, Apart, AllPushed, File
  <2>8. Apart'
    <3>1. In(serving'[t]) \cap In(queue'[t]) = {}
      BY <2>0, <2>2, <2>5 DEF PlaceInv, OnlyOnce
    <3>2. \A u \in LogThreads \ {t} : In(serving'[u]) \cap In(queue'[u]) = {}
      BY <2>2, <2>3 DEF PlaceInv, Apart
    <3>3. File' = File
      BY <2>1 DEF File
    <3> QED
      BY <2>6, <3>1, <3>2, <3>3 DEF PlaceInv, Apart
  <2>9. AllPushed'
    BY <2>2, <2>1, <2>6 DEF PlaceInv, AllPushed, File
  <2>10. NoneLost'
    BY <2>1, <2>2, <2>3, <2>5, <2>6
       DEF PlaceInv, NoneLost, AllPushed, File
  <2> QED
    BY <2>7, <2>8, <2>9, <2>10 DEF PlaceInv
<1>5. CASE BufferPopBegins \/ BufferPopEnds \/ WritesBuffer
  <2>1. UNCHANGED <<logFile, late>> /\ LinesLogged' = LinesLogged
    BY <1>5 DEF BufferPopBegins, BufferPopEnds, WritesBuffer, LinesLogged, Logged
  <2>2. \A t \in LogThreads : queue'[t] = queue[t] /\ serving'[t] = serving[t]
    BY <1>5, <1>a DEF BufferPopBegins, BufferPopEnds, WritesBuffer, LoggerTypes
  <2> QED
    BY <2>1, <2>2, PlaceKept
<1>6. CASE WritesLine
  <2> DEFINE t == "text"
  <2>0. t \in LogThreads /\ t \in Threads
    BY <1>a, <1>b
  <2>1. /\ serving[t] # <<>> /\ serving' = [serving EXCEPT ![t] = <<>>]
        /\ logFile' = logFile \o serving[t]
        /\ UNCHANGED <<queue, late>> /\ LinesLogged' = LinesLogged
    BY <1>6 DEF WritesLine, LinesLogged, Logged
  <2>2. PICK i \in Items :
           /\ serving[t] = <<i>> /\ In(serving[t]) = {i} /\ In(serving'[t]) = {}
           /\ \A u \in LogThreads \ {t} : serving'[u] = serving[u]
           /\ \A s \in Seq(Items) : s \o serving[t] = Append(s, i)
    BY <1>a, <2>0, <2>1, ServedItem
  <2>3. logFile' = Append(logFile, i)
    BY <2>1, <2>2 DEF LoggerTypes
  <2>4. /\ In(logFile') = In(logFile) \cup {i}
        /\ Once(logFile) /\ i \notin In(logFile) => Once(logFile')
    BY <2>3, WrittenItem
  <2>5. i \in Way(t)
    BY <2>2 DEF Way
  <2> HIDE DEF t
  <2>6. OnlyOnce'
    <3>1. i \notin File
      BY <2>0, <2>5 DEF PlaceInv, Apart
    <3>2. Once(logFile')
      BY <2>4, <3>1 DEF PlaceInv, OnlyOnce, File
    <3> QED
      BY <2>1, <3>2 DEF PlaceInv, OnlyOnce
  <2>7. Apart'
    <3>1. In(serving[t]) \cap In(queue[t]) = {}
      BY <2>0 DEF PlaceInv, Apart
    <3>2. i \notin Way(t)' /\ Way(t)' \subseteq Way(t)
      BY <2>1, <2>2, <3>1 DEF Way
    <3>3. \A u \in LogThreads \ {t} : Way(u)' = Way(u) /\ i \notin Way(u)
      BY <2>0, <2>1, <2>2, <2>5 DEF Way, PlaceInv, Apart
    <3>4. File' = File \cup {i}
      BY <2>4 DEF File
    <3>5. \A u \in LogThreads : In(serving'[u]) \cap In(queue'[u]) = {}
      BY <2>0, <2>1, <2>2 DEF PlaceInv, Apart
    <3>6. \A u \in LogThreads : File' \cap Way(u)' = {}
      BY <2>0, <3>2, <3>3, <3>4 DEF PlaceInv, Apart
    <3>7. \A u \in LogThreads, v \in LogThreads : u # v => Way(u)' \cap Way(v)' = {}
      BY <2>0, <3>2, <3>3 DEF PlaceInv, Apart
    <3> QED
      BY <3>5, <3>6, <3>7 DEF Apart
  <2>8. AllPushed'
    BY <2>0, <2>1, <2>2, <2>4, <2>5
       DEF PlaceInv, Apart, AllPushed, File, Way
  <2>9. NoneLost'
    BY <2>0, <2>1, <2>2, <2>4, <2>5
       DEF PlaceInv, NoneLost, AllPushed, File, Way
  <2> QED
    BY <2>6, <2>7, <2>8, <2>9 DEF PlaceInv
<1>7. ASSUME NEW t \in Threads, PrintsLeft(t) PROVE PlaceInv'
  <2>1. CASE t = "buffer"
    <3>1. /\ UNCHANGED <<logFile, serving>> /\ (late' = {} => late = {})
          /\ LinesLogged' = LinesLogged
          /\ \A u \in LogThreads : queue'[u] = queue[u]
      BY <1>7, <1>a, <2>1 DEF PrintsLeft, LinesLogged, Logged, LoggerTypes
    <3> QED
      BY <3>1, PlaceKept
  <2>2. CASE t # "buffer"
    <3>0. t \in LogThreads
      BY <2>2 DEF LogThreads
    <3> DEFINE i == Head(queue[t])
    <3>1. /\ queue[t] # <<>> /\ queue' = [queue EXCEPT ![t] = Tail(@)]
          /\ logFile' = Append(logFile, i)
          /\ UNCHANGED serving /\ (late' = {} => late = {}) /\ LinesLogged' = LinesLogged
      BY <1>7, <2>2 DEF PrintsLeft, LinesLogged, Logged
    <3>2. /\ i \in Items
          /\ In(queue[t]) = {i} \cup In(queue'[t])
          /\ Once(queue[t]) => Once(queue'[t]) /\ i \notin In(queue'[t])
          /\ \A u \in LogThreads \ {t} : queue'[u] = queue[u]
      BY <1>a, <3>0, <3>1, PoppedItem
    <3> HIDE DEF i
    <3>3. /\ In(logFile') = In(logFile) \cup {i}
          /\ Once(logFile) /\ i \notin In(logFile) => Once(logFile')
      BY <3>1, <3>2, WrittenItem
    <3>4. i \in Way(t)
      BY <3>2 DEF Way
    <3>5. OnlyOnce'
      BY <3>0, <3>1, <3>2, <3>3, <3>4
         DEF PlaceInv, OnlyOnce, Apart, AllPushed, File, Way
    <3>6. Apart'
      <4>1. File' = File \cup {i} /\ Way(t) = Way(t)' \cup {i} /\ i \notin Way(t)'
        <5>1. i \notin In(serving[t])
          BY <3>0, <3>2 DEF PlaceInv, Apart
        <5> QED
          BY <3>0, <3>1, <3>2, <3>3, <5>1 DEF PlaceInv, OnlyOnce, File, Way
      <4>2. \A u \in LogThreads \ {t} : Way(u)' = Way(u) /\ i \notin Way(u)
        BY <3>0, <3>1, <3>2, <3>4 DEF PlaceInv, Apart, Way
      <4>3. \A u \in LogThreads : In(serving'[u]) \cap In(queue'[u]) = {}
        BY <3>0, <3>1, <3>2 DEF PlaceInv, Apart
      <4> QED
        BY <3>0, <4>1, <4>2, <4>3 DEF PlaceInv, Apart
    <3>7. AllPushed'
      BY <3>0, <3>1, <3>2, <3>3, <3>4 DEF PlaceInv, AllPushed, File, Way
    <3>8. NoneLost'
      BY <3>0, <3>1, <3>2, <3>3, <3>4
         DEF PlaceInv, NoneLost, AllPushed, File, Way
    <3> QED
      BY <3>5, <3>6, <3>7, <3>8 DEF PlaceInv
  <2> QED
    BY <2>1, <2>2
<1>8. ASSUME NEW t \in Threads, ThreadEnds(t) PROVE PlaceInv'
  BY <1>8, PlaceKept DEF ThreadEnds, LinesLogged, Logged
<1>9. CASE LogsDump
  <2>1. /\ serving["dump"] # <<>> /\ serving' = [serving EXCEPT !["dump"] = <<>>]
        /\ UNCHANGED <<logFile, late>> /\ LinesLogged' = LinesLogged
    BY <1>9 DEF LogsDump, LinesLogged, Logged
  <2>2. PICK i \in Items :
           /\ serving["dump"] = <<i>> /\ In(serving["dump"]) = {i} /\ In(serving'["dump"]) = {}
           /\ \A u \in LogThreads \ {"dump"} : serving'[u] = serving[u]
           /\ \A s \in Seq(Items) : s \o serving["dump"] = Append(s, i)
    BY <1>a, <1>b, <2>1, ServedItem
  <2>3. active["text"]
    BY <1>a, <1>b, <2>1 DEF ControlInv, LoggerTypes
  <2>4. Pushes(i, "text")
    BY <1>9, <1>a, <1>b, <2>1, <2>2, <2>3 DEF LogsDump, Pushes, LoggerTypes
  <2>5. /\ In(queue'["text"]) = In(queue["text"]) \cup {i}
        /\ Once(queue["text"]) /\ i \notin In(queue["text"]) => Once(queue'["text"])
        /\ \A u \in LogThreads \ {"text"} : queue'[u] = queue[u]
    BY <1>a, <1>b, <2>4, PushedItem
  <2>6. i \in Way("dump")
    BY <2>2 DEF Way
  <2>7. OnlyOnce'
    BY <1>b, <2>1, <2>2, <2>5, <2>6
       DEF PlaceInv, OnlyOnce, Apart, AllPushed, File, Way
  <2>8. Apart'
    <3>1. /\ Way("text")' = Way("text") \cup {i} /\ Way("dump") = Way("dump")' \cup {i}
          /\ i \notin Way("dump")'
      BY <1>b, <2>2, <2>5 DEF PlaceInv, Apart, Way
    <3>2. \A u \in LogThreads \ {"text", "dump"} : Way(u)' = Way(u)
      BY <2>2, <2>5 DEF Way
    <3>3. i \notin File /\ \A u \in LogThreads \ {"dump"} : i \notin Way(u)
      BY <1>b, <2>6 DEF PlaceInv, Apart
    <3>4. \A u \in LogThreads : In(serving'[u]) \cap In(queue'[u]) = {}
      BY <1>b, <2>2, <2>5, <3>3 DEF PlaceInv, Apart, Way
    <3>5. File' = File
      BY <2>1 DEF File
    <3>6. \A u \in LogThreads : File \cap Way(u)' = {}
      BY <1>b, <3>1, <3>2, <3>3 DEF PlaceInv, Apart
    <3>7. \A u \in LogThreads : \A v \in LogThreads \ {u} : Way(u)' \cap Way(v)' = {}
      BY <1>b, <3>1, <3>2, <3>3 DEF PlaceInv, Apart
    <3> QED
      BY <3>4, <3>5, <3>6, <3>7 DEF Apart
  <2>9. AllPushed'
    BY <1>b, <2>1, <2>2, <2>5, <2>6 DEF PlaceInv, AllPushed, File, Way
  <2>10. NoneLost'
    BY <1>b, <2>1, <2>2, <2>5, <2>6
       DEF PlaceInv, NoneLost, AllPushed, File, Way
  <2> QED
    BY <2>7, <2>8, <2>9, <2>10 DEF PlaceInv
<1>10. CASE DestructorStops \/ DestructorCloses
  BY <1>10, PlaceKept DEF DestructorStops, DestructorCloses, LinesLogged, Logged
<1>11. CASE UNCHANGED loggerVars
  BY <1>11, PlaceKept DEF loggerVars, LinesLogged, Logged
<1> QED
  BY <1>1, <1>2, <1>3, <1>4, <1>5, <1>6, <1>7, <1>8, <1>9, <1>10, <1>11 DEF LoggerNext

(* A buffer on its way from the call to its file.                          *)
LEMMA BufferInvStep ==
  ASSUME LoggerTypes, ControlInv, BufferInv, [LoggerNext]_loggerVars
  PROVE  BufferInv'
<1>a. "buffer" \in Threads
  BY DEF Threads
<1>b. torn => torn'
  BY DEF LoggerNext, LogTests, LogPushes, LogBufferBegins, LogBufferEnds, Pops, BufferPopBegins,
    BufferPopEnds, WritesLine, WritesBuffer, LogsDump, PrintsLeft, ThreadEnds, DestructorStops,
    DestructorCloses, loggerVars
<1> SUFFICES ASSUME ~torn' PROVE BufferInv'
  BY DEF BufferInv
<1>c. ~torn
  BY <1>b
<1>1. ASSUME NEW i \in Items, LogTests(i) PROVE BufferInv'
  <2>1. BuffersLogged' = BuffersLogged
    BY <1>1 DEF LogTests, BuffersLogged, Logged, LoggerTypes
  <2> QED
    BY <1>1, <2>1, BuffersKept DEF LogTests
<1>2. ASSUME NEW i \in Items, LogPushes(i) PROVE BufferInv'
  <2>1. BuffersLogged' = BuffersLogged /\ (late' = {} => late = {})
    BY <1>2 DEF LogPushes, PushReturns, BuffersLogged, Logged
  <2>2. ThreadOf(i) # "buffer"
    BY <1>2 DEF LogPushes, LoggerTypes, Items, ThreadOf
  <2>3. queue'["buffer"] = queue["buffer"]
    BY <1>2, <1>a, <2>2 DEF LogPushes, LoggerTypes
  <2> QED
    BY <1>2, <2>1, <2>3, BuffersKept DEF LogPushes
<1>3. ASSUME NEW i \in Packets, LogBufferBegins(i) PROVE BufferInv'
  <2>1. torn' = torn /\ BuffersLogged' = BuffersLogged
    BY <1>3, <1>c DEF LogBufferBegins, BuffersLogged, Logged, LoggerTypes
  <2> QED
    BY <1>3, <2>1, BuffersKept DEF LogBufferBegins
<1>4. ASSUME NEW i \in Packets, LogBufferEnds(i) PROVE BufferInv'
  <2>1. i \in Items /\ i \in calling
    BY <1>4 DEF LogBufferEnds, LoggerTypes, Items
  <2>2. /\ Pushes(i, "buffer")
        /\ i \notin BuffersLogged /\ BuffersLogged' = BuffersLogged \cup {i}
        /\ UNCHANGED <<serving, files>> /\ (late' = {} => late = {})
    BY <1>4, <1>c, <2>1
       DEF LogBufferEnds, PushReturns, Pushes, BuffersLogged, Logged, LoggerTypes
  <2>3. /\ In(queue'["buffer"]) = In(queue["buffer"]) \cup {i}
        /\ Once(queue["buffer"]) /\ i \notin In(queue["buffer"]) => Once(queue'["buffer"])
    BY <1>a, <2>1, <2>2, PushedItem
  <2>4. i \notin In(files) /\ i \notin Way("buffer")
    BY <1>c, <2>2 DEF BufferInv
  <2> QED
    BY <1>c, <2>2, <2>3, <2>4 DEF BufferInv, Way
<1>5. ASSUME NEW t \in Threads, Pops(t) PROVE BufferInv'
  <2>1. BuffersLogged' = BuffersLogged /\ UNCHANGED <<files, late, torn>>
    BY <1>5 DEF Pops, BuffersLogged, Logged
  <2>2. queue'["buffer"] = queue["buffer"] /\ serving'["buffer"] = serving["buffer"]
    BY <1>5, <1>a DEF Pops, LoggerTypes
  <2> QED
    BY <2>1, <2>2, BuffersKept
<1>6. CASE BufferPopBegins
  <2>1. torn' = torn /\ BuffersLogged' = BuffersLogged
    BY <1>6, <1>c DEF BufferPopBegins, BuffersLogged, Logged, LoggerTypes
  <2> QED
    BY <1>6, <2>1, BuffersKept DEF BufferPopBegins
<1>7. CASE BufferPopEnds
  <2> DEFINE i == Head(queue["buffer"])
  <2>1. /\ queue["buffer"] # <<>> /\ queue' = [queue EXCEPT !["buffer"] = Tail(@)]
        /\ serving' = [serving EXCEPT !["buffer"] = <<i>>]
        /\ UNCHANGED <<files, late>> /\ BuffersLogged' = BuffersLogged
    BY <1>7, <1>c DEF BufferPopEnds, BuffersLogged, Logged
  <2>2. serving["buffer"] = <<>>
    BY <1>7 DEF ControlInv, BufferPopEnds
  <2>3. /\ i \in Items
        /\ In(queue["buffer"]) = {i} \cup In(queue'["buffer"])
        /\ Once(queue["buffer"]) => Once(queue'["buffer"]) /\ i \notin In(queue'["buffer"])
    BY <1>a, <2>1, PoppedItem
  <2>4. serving'["buffer"] = <<i>>
    BY <1>a, <2>1 DEF LoggerTypes
  <2>5. <<>> \in Seq(Items)
    OBVIOUS
  <2>6. In(serving'["buffer"]) = {i} /\ In(serving["buffer"]) = {}
    BY <2>2, <2>3, <2>4, <2>5, SingleLine, EmptyLine
  <2> HIDE DEF i
  <2>7. Way("buffer")' = Way("buffer")
    BY <2>3, <2>6 DEF Way
  <2> QED
    BY <1>c, <2>1, <2>3, <2>6, <2>7 DEF BufferInv
<1>8. CASE WritesBuffer
  <2>1. /\ serving["buffer"] # <<>> /\ serving' = [serving EXCEPT !["buffer"] = <<>>]
        /\ files' = files \o serving["buffer"]
        /\ UNCHANGED <<queue, late>> /\ BuffersLogged' = BuffersLogged
    BY <1>8 DEF WritesBuffer, BuffersLogged, Logged
  <2>2. PICK i \in Items :
           /\ serving["buffer"] = <<i>> /\ In(serving["buffer"]) = {i}
           /\ In(serving'["buffer"]) = {}
           /\ \A s \in Seq(Items) : s \o serving["buffer"] = Append(s, i)
    BY <1>a, <2>1, ServedItem
  <2>3. files' = Append(files, i)
    BY <2>1, <2>2 DEF LoggerTypes
  <2>4. /\ In(files') = In(files) \cup {i}
        /\ Once(files) /\ i \notin In(files) => Once(files')
    BY <2>3, Appended DEF LoggerTypes
  <2>5. i \in Way("buffer") /\ i \notin In(files) /\ i \notin In(queue["buffer"])
    BY <1>c, <2>2 DEF Way, BufferInv
  <2> QED
    BY <1>c, <2>1, <2>2, <2>4, <2>5 DEF BufferInv, Way
<1>9. ASSUME NEW t \in Threads, PrintsLeft(t) PROVE BufferInv'
  <2>0. BuffersLogged' = BuffersLogged /\ (late' = {} => late = {}) /\ UNCHANGED <<serving, torn>>
    BY <1>9 DEF PrintsLeft, BuffersLogged, Logged
  <2>1. CASE t # "buffer"
    <3>1. queue'["buffer"] = queue["buffer"] /\ files' = files
      BY <1>9, <1>a, <2>1 DEF PrintsLeft, LoggerTypes
    <3> QED
      BY <2>0, <3>1, BuffersKept
  <2>2. CASE t = "buffer"
    <3> DEFINE i == Head(queue["buffer"])
    <3>1. /\ queue["buffer"] # <<>> /\ queue' = [queue EXCEPT !["buffer"] = Tail(@)]
          /\ files' = Append(files, i)
      BY <1>9, <2>2 DEF PrintsLeft
    <3>2. /\ i \in Items
          /\ In(queue["buffer"]) = {i} \cup In(queue'["buffer"])
          /\ Once(queue["buffer"]) => Once(queue'["buffer"]) /\ i \notin In(queue'["buffer"])
      BY <1>a, <3>1, PoppedItem
    <3> HIDE DEF i
    <3>3. /\ In(files') = In(files) \cup {i}
          /\ Once(files) /\ i \notin In(files) => Once(files')
      BY <3>1, <3>2, Appended DEF LoggerTypes
    <3>4. i \in Way("buffer") /\ i \notin In(files) /\ i \notin In(serving["buffer"])
      BY <1>c, <3>2 DEF Way, BufferInv
    <3> QED
      BY <1>c, <2>0, <3>2, <3>3, <3>4 DEF BufferInv, Way
  <2> QED
    BY <2>1, <2>2
<1>10. CASE WritesLine \/ LogsDump
  <2>1. BuffersLogged' = BuffersLogged /\ UNCHANGED <<files, late, torn>>
    BY <1>10 DEF WritesLine, LogsDump, BuffersLogged, Logged
  <2>2. queue'["buffer"] = queue["buffer"] /\ serving'["buffer"] = serving["buffer"]
    BY <1>10, <1>a DEF WritesLine, LogsDump, LoggerTypes
  <2> QED
    BY <2>1, <2>2, BuffersKept
<1>11. CASE (\E t \in Threads : ThreadEnds(t)) \/ DestructorStops \/ DestructorCloses
  BY <1>11, BuffersKept
     DEF ThreadEnds, DestructorStops, DestructorCloses, BuffersLogged, Logged
<1>12. CASE UNCHANGED loggerVars
  BY <1>12, BuffersKept DEF loggerVars, BuffersLogged, Logged
<1> QED
  BY <1>1, <1>2, <1>3, <1>4, <1>5, <1>6, <1>7, <1>8, <1>9, <1>10, <1>11, <1>12 DEF LoggerNext

(* Moves that keep the order of the lines.                                 *)
LEMMA OrderKept ==
  ASSUME OrderInv, accepted' = accepted,
         \A x \in TextWay : x \in TextWay',
         \A x, y : InOrder(x, y) => InOrder(x, y)'
  PROVE  OrderInv'
BY DEF OrderInv

(* A line that is accepted comes behind all the others.                    *)
LEMMA OrderExtended ==
  ASSUME LoggerTypes, OrderInv, NEW i \in Items, Pushes(i, "text"),
         serving'["text"] = serving["text"], accepted' = Append(accepted, i)
  PROVE  OrderInv'
<1>1. "text" \in Threads
  BY DEF Threads
<1>2. /\ In(queue'["text"]) = In(queue["text"]) \cup {i}
      /\ \A a, b : Before(a, b, queue["text"]) => Before(a, b, queue'["text"])
      /\ \A a \in In(queue["text"]) : Before(a, i, queue'["text"])
  BY <1>1, PushedItem
<1>3. logFile' = logFile
  BY DEF Pushes
<1>4. \A x \in TextWay : x \in TextWay' /\ InOrder(x, i)'
  BY <1>2, <1>3 DEF TextWay, Way, File, InOrder
<1>5. i \in TextWay'
  BY <1>2 DEF TextWay, Way
<1>6. \A x, y : InOrder(x, y) => InOrder(x, y)'
  BY <1>2, <1>3 DEF InOrder, Way, File
<1> DEFINE n == Len(accepted)
<1>7. /\ n \in Nat /\ DOMAIN accepted = 1 .. n /\ DOMAIN accepted' = 1 .. (n + 1)
      /\ \A k \in 1 .. n : accepted'[k] = accepted[k]
      /\ accepted'[n + 1] = i
  BY AppendProperties DEF LoggerTypes
<1> HIDE DEF n
<1>8. \A k \in 1 .. (n + 1) : k \in 1 .. n \/ k = n + 1
  BY <1>7
<1>9. ASSUME NEW k \in 1 .. (n + 1), NEW l \in 1 .. (n + 1), k < l PROVE k \in 1 .. n
  BY <1>7, <1>9
<1>10. ASSUME NEW k \in 1 .. (n + 1) PROVE accepted'[k] \in TextWay'
  BY <1>4, <1>5, <1>7, <1>8 DEF OrderInv
<1>11. ASSUME NEW k \in 1 .. (n + 1), NEW l \in 1 .. (n + 1), k < l
       PROVE  InOrder(accepted[k], accepted[l])'
  <2>1. k \in 1 .. n /\ accepted'[k] = accepted[k] /\ accepted[k] \in TextWay
    BY <1>7, <1>9, <1>11 DEF OrderInv
  <2>2. CASE l = n + 1
    BY <1>4, <1>7, <2>1, <2>2 DEF InOrder
  <2>3. CASE l \in 1 .. n
    <3>1. InOrder(accepted[k], accepted[l]) /\ accepted'[l] = accepted[l]
      BY <1>7, <1>11, <2>1, <2>3 DEF OrderInv
    <3> QED
      BY <1>6, <2>1, <3>1 DEF InOrder
  <2> QED
    BY <1>8, <2>2, <2>3
<1> QED
  BY <1>7, <1>10, <1>11 DEF OrderInv

LEMMA OrderInvStep ==
  ASSUME LoggerTypes, ControlInv, OrderInv, [LoggerNext]_loggerVars
  PROVE  OrderInv'
<1>a. "dump" \in Threads /\ "text" \in Threads
  BY DEF Threads
<1>1. ASSUME NEW i \in Items, LogTests(i) PROVE OrderInv'
  BY <1>1, OrderKept DEF LogTests, TextWay, Way, File, InOrder
<1>2. ASSUME NEW i \in Items, LogPushes(i) PROVE OrderInv'
  <2>1. UNCHANGED <<logFile, serving>>
    BY <1>2 DEF LogPushes
  <2>2. CASE i \in Messages
    <3>1. Pushes(i, "text") /\ accepted' = Append(accepted, i)
      BY <1>2, <2>2 DEF LogPushes, Pushes, ThreadOf
    <3> QED
      BY <2>1, <3>1, OrderExtended
  <2>3. CASE i \notin Messages
    <3>1. queue'["text"] = queue["text"] /\ accepted' = accepted
      BY <1>2, <1>a, <2>3 DEF LogPushes, ThreadOf, LoggerTypes
    <3> QED
      BY <2>1, <3>1, OrderKept DEF TextWay, Way, File, InOrder
  <2> QED
    BY <2>2, <2>3
<1>3. ASSUME NEW i \in Packets, LogBufferBegins(i) \/ LogBufferEnds(i) PROVE OrderInv'
  <2>1. UNCHANGED <<serving, logFile, accepted>> /\ queue'["text"] = queue["text"]
    BY <1>3, <1>a DEF LogBufferBegins, LogBufferEnds, LoggerTypes
  <2> QED
    BY <2>1, OrderKept DEF TextWay, Way, File, InOrder
<1>4. CASE BufferPopBegins \/ BufferPopEnds \/ WritesBuffer
  <2>1. /\ UNCHANGED <<logFile, accepted>>
        /\ queue'["text"] = queue["text"] /\ serving'["text"] = serving["text"]
    BY <1>4, <1>a DEF BufferPopBegins, BufferPopEnds, WritesBuffer, LoggerTypes
  <2> QED
    BY <2>1, OrderKept DEF TextWay, Way, File, InOrder
<1>5. ASSUME NEW t \in Threads, Pops(t) PROVE OrderInv'
  <2>1. UNCHANGED <<logFile, accepted>>
    BY <1>5 DEF Pops
  <2>2. CASE t # "text"
    <3>1. queue'["text"] = queue["text"] /\ serving'["text"] = serving["text"]
      BY <1>5, <1>a, <2>2 DEF Pops, LoggerTypes
    <3> QED
      BY <2>1, <3>1, OrderKept DEF TextWay, Way, File, InOrder
  <2>3. CASE t = "text"
    <3> DEFINE i == Head(queue["text"])
    <3>1. /\ queue["text"] # <<>> /\ queue' = [queue EXCEPT !["text"] = Tail(@)]
          /\ serving["text"] = <<>> /\ serving'["text"] = <<i>>
      BY <1>5, <1>a, <2>3 DEF Pops, LoggerTypes
    <3>2. /\ i \in Items
          /\ In(queue["text"]) = {i} \cup In(queue'["text"])
          /\ \A a, b : Before(a, b, queue["text"]) =>
               Before(a, b, queue'["text"]) \/ (a = i /\ b \in In(queue'["text"]))
      BY <1>a, <3>1, PoppedItem
    <3>3. <<>> \in Seq(Items)
      OBVIOUS
    <3>4. In(serving'["text"]) = {i} /\ In(serving["text"]) = {}
      BY <3>1, <3>2, <3>3, SingleLine, EmptyLine
    <3> HIDE DEF i
    <3>5. File' = File /\ Way("text")' = Way("text")
      BY <2>1, <3>2, <3>4 DEF File, Way
    <3>6. \A x, y : InOrder(x, y) => InOrder(x, y)'
      BY <2>1, <3>2, <3>4, <3>5 DEF InOrder
    <3> QED
      BY <2>1, <3>5, <3>6, OrderKept DEF TextWay
  <2> QED
    BY <2>2, <2>3
<1>6. CASE WritesLine
  <2> DEFINE t == "text"
  <2>1. /\ serving[t] # <<>> /\ serving' = [serving EXCEPT ![t] = <<>>]
        /\ logFile' = logFile \o serving[t]
        /\ UNCHANGED <<queue, accepted>>
    BY <1>6 DEF WritesLine
  <2>2. PICK i \in Items :
           /\ serving[t] = <<i>> /\ In(serving[t]) = {i} /\ In(serving'[t]) = {}
           /\ \A u \in Threads \ {t} : serving'[u] = serving[u]
           /\ \A s \in Seq(Items) : s \o serving[t] = Append(s, i)
    BY <1>a, <2>1, ServedItem
  <2>3. logFile' = Append(logFile, i)
    BY <2>1, <2>2 DEF LoggerTypes
  <2>4. /\ In(logFile') = In(logFile) \cup {i}
        /\ \A a, b : Before(a, b, logFile) => Before(a, b, logFile')
        /\ \A a \in In(logFile) : Before(a, i, logFile')
    BY <2>3, WrittenItem
  <2>5. In(serving'["text"]) = {} \/ serving'["text"] = serving["text"]
    BY <1>a, <2>2
  <2>6. In(serving["text"]) \subseteq In(serving'["text"]) \cup {i}
    BY <1>a, <2>2
  <2>7. \A x \in TextWay : x \in TextWay'
    BY <2>1, <2>4, <2>6 DEF TextWay, Way, File
  <2>8. ASSUME NEW x, NEW y, InOrder(x, y) PROVE InOrder(x, y)'
    <3>1. CASE Before(x, y, logFile)
      BY <2>4, <3>1 DEF InOrder
    <3>2. CASE x \in File /\ y \in Way("text")
      BY <2>1, <2>4, <2>6, <3>2 DEF InOrder, File, Way
    <3>3. CASE x \in In(serving["text"]) /\ y \in In(queue["text"])
      BY <2>1, <2>4, <2>6, <3>3 DEF InOrder, File, Way
    <3>4. CASE Before(x, y, queue["text"])
      BY <2>1, <3>4 DEF InOrder
    <3> QED
      BY <2>8, <3>1, <3>2, <3>3, <3>4 DEF InOrder
  <2> QED
    BY <2>1, <2>7, <2>8, OrderKept
<1>7. ASSUME NEW t \in Threads, PrintsLeft(t) PROVE OrderInv'
  <2> DEFINE i == Head(queue[t])
  <2>1. /\ queue[t] # <<>> /\ queue' = [queue EXCEPT ![t] = Tail(@)]
        /\ serving[t] = <<>> /\ (logFile' = Append(logFile, i) \/ (t # "text" /\ logFile' = logFile))
        /\ UNCHANGED <<serving, accepted>>
    BY <1>7 DEF PrintsLeft, Leaving
  <2>2. /\ i \in Items
        /\ In(queue[t]) = {i} \cup In(queue'[t])
        /\ \A a, b : Before(a, b, queue[t]) =>
             Before(a, b, queue'[t]) \/ (a = i /\ b \in In(queue'[t]))
        /\ \A u \in Threads \ {t} : queue'[u] = queue[u]
    BY <2>1, PoppedItem
  <2> HIDE DEF i
  <2>3. /\ In(logFile) \subseteq In(logFile') /\ In(logFile') \subseteq In(logFile) \cup {i}
        /\ \A a, b : Before(a, b, logFile) => Before(a, b, logFile')
        /\ t = "text" => i \in In(logFile') /\ \A a \in In(logFile) : Before(a, i, logFile')
    BY <2>1, <2>2, WrittenItem
  <2>4. CASE t # "text"
    <3>1. queue'["text"] = queue["text"]
      BY <1>a, <2>2, <2>4
    <3>2. \A x, y : InOrder(x, y) => InOrder(x, y)'
      BY <2>1, <2>3, <3>1 DEF InOrder, File, Way
    <3> QED
      BY <2>1, <2>3, <3>1, <3>2, OrderKept DEF TextWay, Way, File
  <2>5. CASE t = "text"
    <3>1. In(serving["text"]) = {}
      BY <2>1, <2>5, EmptyLine
    <3>2. \A x \in TextWay : x \in TextWay'
      BY <2>1, <2>2, <2>3, <2>5 DEF TextWay, Way, File
    <3>3. ASSUME NEW x, NEW y, InOrder(x, y) PROVE InOrder(x, y)'
      <4>1. CASE Before(x, y, logFile)
        BY <2>3, <4>1 DEF InOrder
      <4>2. CASE x \in File /\ y \in Way("text")
        BY <2>1, <2>2, <2>3, <2>5, <3>1, <4>2 DEF InOrder, File, Way
      <4>3. CASE Before(x, y, queue["text"])
        BY <2>2, <2>3, <2>5, <4>3 DEF InOrder, File, Way
      <4> QED
        BY <3>1, <3>3, <4>1, <4>2, <4>3 DEF InOrder
    <3> QED
      BY <2>1, <3>2, <3>3, OrderKept
  <2> QED
    BY <2>4, <2>5
<1>8. ASSUME NEW t \in Threads, ThreadEnds(t) PROVE OrderInv'
  BY <1>8, OrderKept DEF ThreadEnds, TextWay, Way, File, InOrder
<1>9. CASE LogsDump
  <2>1. /\ serving["dump"] # <<>> /\ serving' = [serving EXCEPT !["dump"] = <<>>]
        /\ UNCHANGED logFile
    BY <1>9 DEF LogsDump
  <2>2. PICK i \in Items :
           /\ serving["dump"] = <<i>>
           /\ \A u \in Threads \ {"dump"} : serving'[u] = serving[u]
           /\ \A s \in Seq(Items) : s \o serving["dump"] = Append(s, i)
    BY <1>a, <2>1, ServedItem
  <2>3. active["text"]
    BY <1>a, <2>1 DEF ControlInv, LoggerTypes
  <2>4. Pushes(i, "text") /\ accepted' = Append(accepted, i)
    BY <1>9, <1>a, <2>2, <2>3 DEF LogsDump, Pushes, LoggerTypes
  <2> QED
    BY <1>a, <2>2, <2>4, OrderExtended
<1>10. CASE DestructorStops \/ DestructorCloses
  BY <1>10, OrderKept DEF DestructorStops, DestructorCloses, TextWay, Way, File, InOrder
<1>11. CASE UNCHANGED loggerVars
  BY <1>11, OrderKept DEF loggerVars, TextWay, Way, File, InOrder
<1> QED
  BY <1>1, <1>2, <1>3, <1>4, <1>5, <1>6, <1>7, <1>8, <1>9, <1>10, <1>11 DEF LoggerNext

LEMMA LoggerInvStep == LoggerInv /\ [LoggerNext]_loggerVars => LoggerInv'
BY LoggerTypesStep, ControlInvStep, PlaceInvStep, BufferInvStep, OrderInvStep DEF LoggerInv

(* The queues hold items of their callers, a thread serves at most one, and *)
(* the destructor stops no more threads than there are.                    *)
LEMMA LoggerTypesCorrect == LoggerTypes => LoggerTypeOK
<1> SUFFICES ASSUME LoggerTypes PROVE LoggerTypeOK
  OBVIOUS
<1>1. Len(StopOrder) = 3
  BY DEF StopOrder
<1>2. ASSUME NEW t \in Threads PROVE queue[t] \in Seq(Items) /\ Len(serving[t]) <= 1
  <2>1. serving[t] = <<>> \/ \E i \in Items : serving[t] = <<i>>
    BY DEF LoggerTypes
  <2>2. Len(serving[t]) <= 1
    <3>1. CASE serving[t] = <<>>
      BY <3>1
    <3>2. ASSUME NEW i \in Items, serving[t] = <<i>> PROVE Len(serving[t]) <= 1
      BY <3>2
    <3> QED
      BY <2>1, <3>1, <3>2
  <2> QED
    BY <2>2 DEF LoggerTypes
<1> QED
  BY <1>1, <1>2 DEF LoggerTypes, LoggerTypeOK

(* When the destructor has closed the file, every line and every dump that *)
(* was logged is in it once, and lines of text are in the order in which   *)
(* they were accepted, unless somebody pushed after his thread was told to *)
(* stop; and every buffer has been written once, unless moreover a push    *)
(* into m_BufferQueue overlapped a pop, from which no mutex keeps it.      *)
THEOREM NothingLoggedIsLost == LoggerSpec => []LogComplete
<1>1. LoggerInv => LogComplete
  <2> SUFFICES ASSUME LoggerInv, closed, late = {}
               PROVE  /\ In(logFile) = LinesLogged
                      /\ Once(logFile)
                      /\ ~torn => In(files) = BuffersLogged /\ Once(files)
                      /\ \A i, j \in DOMAIN accepted :
                           i < j => Before(accepted[i], accepted[j], logFile)
    BY DEF LogComplete, In, Once, LinesLogged, BuffersLogged
  <2>1. stopped["buffer"] /\ stopped["dump"] /\ stopped["text"]
    BY DEF LoggerInv, ControlInv
  <2>2. \A t \in Threads : serving[t] = <<>> /\ queue[t] = <<>>
    BY <2>1 DEF LoggerInv, ControlInv, Threads
  <2>3. \A t \in Threads : Way(t) = {}
    BY <2>2, EmptyLine DEF Way
  <2>4. In(logFile) = LinesLogged /\ Once(logFile)
    BY <2>3 DEF LoggerInv, PlaceInv, OnlyOnce, AllPushed, NoneLost, File, LogThreads
  <2>7. ~torn => In(files) = BuffersLogged /\ Once(files)
    BY <2>3 DEF LoggerInv, BufferInv, Threads
  <2>5. "text" \in Threads
    BY DEF Threads
  <2>6. ASSUME NEW i \in DOMAIN accepted, NEW j \in DOMAIN accepted, i < j
        PROVE  Before(accepted[i], accepted[j], logFile)
    <3>1. InOrder(accepted[i], accepted[j])
      BY <2>6 DEF LoggerInv, OrderInv
    <3>2. /\ Way("text") = {} /\ In(queue["text"]) = {}
          /\ ~Before(accepted[i], accepted[j], queue["text"])
      BY <2>2, <2>3, <2>5, EmptyLine
    <3> QED
      BY <3>1, <3>2 DEF InOrder
  <2> QED
    BY <2>4, <2>6, <2>7
<1> QED
  BY <1>1, LoggerInvInit, LoggerInvStep, PTL DEF LoggerSpec

-----------------------------------------------------------------------------
(* The parts side by side. *)

(* What the parts do is what each of them does, as the others see it.      *)
LEMMA PartsAreApart ==
  PartsSpec => DisplaySpec /\ SessionSpec /\ ImageSpec /\ LoggerSpec
<1>1. PartsInit => DisplayInit /\ SessionInit /\ ImageInit /\ LoggerInit
  BY DEF PartsInit
<1>2. [PartsNext]_parts => /\ [DisplayNext]_displayVars /\ [SessionNext]_sessionVars
                          /\ [ImageNext]_imageVars /\ [LoggerNext]_loggerVars
  BY DEF PartsNext, parts
<1> QED
  BY <1>1, <1>2, PTL DEF PartsSpec, DisplaySpec, SessionSpec, ImageSpec, LoggerSpec

(* All variables of the window stay of their types.                        *)
THEOREM PartsTypeCorrect == PartsSpec => []PartsTypeOK
<1>1. LoggerInv => LoggerTypeOK
  BY LoggerTypesCorrect DEF LoggerInv
<1>2. LoggerSpec => []LoggerTypeOK
  BY <1>1, LoggerInvInit, LoggerInvStep, PTL DEF LoggerSpec
<1> QED
  BY <1>2, PartsAreApart, DisplayTypeCorrect, SessionTypeCorrect, ImageTypeCorrect, PTL
     DEF PartsTypeOK

=============================================================================
