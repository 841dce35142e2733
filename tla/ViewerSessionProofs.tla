------------------------- MODULE ViewerSessionProofs -------------------------
(***************************************************************************)
(* Theorems about ViewerSession, for any cameras, sizes, pixel formats and *)
(* any depth of nested event loops.                                        *)
(***************************************************************************)
EXTENDS ViewerSession, SequenceTheorems, FiniteSetTheorems, TLAPS

(* A handler that has not returned. *)
Waiting == {"toggle", "closing", "start", "drain", "off"}
Handler == [at : Waiting, arg : Format \cup {NoParameters}]
(* Those of OnOpenCloseButtonClicked, of StopStreaming, and of both        *)
(* StartStreaming and StopStreaming.                                       *)
Opening == {"toggle", "closing"}
Stopping == {"drain", "off"}
Streaming == {"start", "drain", "off"}

States == {"Stopped", "Starting", "Streaming", "Stopping"}

(* Type correctness of what the properties depend on.                      *)
SessionTypes ==
  /\ camera \in Cameras \cup {NoCamera}
  /\ video \in [Cameras -> Format]
  /\ stack \in Seq(Handler)
  /\ streamState \in States
  /\ isOpen \in BOOLEAN /\ isStreaming \in BOOLEAN
  /\ openEnabled \in BOOLEAN /\ startEnabled \in BOOLEAN
  /\ listBlocked \in BOOLEAN /\ frameEnabled \in BOOLEAN
  /\ busy \in BOOLEAN /\ buffers \in BOOLEAN /\ thread \in BOOLEAN /\ streamOn \in BOOLEAN

-----------------------------------------------------------------------------
(* The stack. *)

(* A handler begins.                                                       *)
LEMMA PushStack ==
  ASSUME NEW s \in Seq(Handler), NEW h \in Handler
  PROVE  /\ Append(s, h) \in Seq(Handler)
         /\ Len(Append(s, h)) = Len(s) + 1
         /\ \A i \in 1 .. Len(s) : Append(s, h)[i] = s[i]
         /\ Append(s, h)[Len(s) + 1] = h
BY AppendProperties

(* The innermost handler returns.                                          *)
LEMMA PopStack ==
  ASSUME NEW s \in Seq(Handler), s # <<>>
  PROVE  /\ Seqs!Front(s) \in Seq(Handler)
         /\ Len(s) \in Nat \ {0}
         /\ Len(Seqs!Front(s)) = Len(s) - 1
         /\ \A i \in 1 .. Len(s) - 1 : Seqs!Front(s)[i] = s[i]
         /\ s[Len(s)] \in Handler
<1>1. Len(s) \in Nat \ {0}
  BY EmptySeq, LenProperties
<1>2. 1 \in Int /\ Len(s) - 1 \in Int /\ \A i \in 1 .. Len(s) - 1 : s[i] \in Handler
  BY <1>1, ElementOfSeq
<1>3. /\ SubSeq(s, 1, Len(s) - 1) \in Seq(Handler)
      /\ Len(SubSeq(s, 1, Len(s) - 1)) = Len(s) - 1
      /\ \A i \in 1 .. Len(s) - 1 : SubSeq(s, 1, Len(s) - 1)[i] = s[i]
  <2>1. /\ SubSeq(s, 1, Len(s) - 1) \in Seq(Handler)
        /\ Len(SubSeq(s, 1, Len(s) - 1)) = IF 1 <= Len(s) - 1 THEN Len(s) - 1 - 1 + 1 ELSE 0
        /\ \A i \in 1 .. Len(s) - 1 - 1 + 1 : SubSeq(s, 1, Len(s) - 1)[i] = s[1 + i - 1]
    BY <1>2, SubSeqProperties
  <2>2. Len(SubSeq(s, 1, Len(s) - 1)) = Len(s) - 1
    <3> DEFINE n == Len(s)
    <3>1. n \in Nat \ {0} /\ Len(SubSeq(s, 1, n - 1)) = IF 1 <= n - 1 THEN n - 1 - 1 + 1 ELSE 0
      BY <1>1, <2>1
    <3> HIDE DEF n
    <3>2. Len(SubSeq(s, 1, n - 1)) = n - 1
      BY <3>1
    <3> QED
      BY <3>2 DEF n
  <2>3. ASSUME NEW i \in 1 .. Len(s) - 1 PROVE SubSeq(s, 1, Len(s) - 1)[i] = s[i]
    <3>1. i \in 1 .. Len(s) - 1 - 1 + 1 /\ 1 + i - 1 = i
      BY <1>1
    <3> QED
      BY <2>1, <3>1
  <2> QED
    BY <2>1, <2>2, <2>3
<1>4. s[Len(s)] \in Handler
  BY <1>1, ElementOfSeq
<1> QED
  BY <1>1, <1>3, <1>4 DEF Seqs!Front

(* The innermost handler goes on.                                          *)
LEMMA ChangeStack ==
  ASSUME NEW s \in Seq(Handler), s # <<>>, NEW a \in Waiting
  PROVE  /\ [s EXCEPT ![Len(s)].at = a] \in Seq(Handler)
         /\ Len([s EXCEPT ![Len(s)].at = a]) = Len(s)
         /\ \A i \in 1 .. Len(s) - 1 : [s EXCEPT ![Len(s)].at = a][i] = s[i]
         /\ [s EXCEPT ![Len(s)].at = a][Len(s)].at = a
         /\ [s EXCEPT ![Len(s)].at = a][Len(s)].arg = s[Len(s)].arg
<1> DEFINE h == [s[Len(s)] EXCEPT !.at = a]
<1>1. Len(s) \in Nat \ {0} /\ s[Len(s)] \in Handler
  BY PopStack
<1>2. h \in Handler /\ h.at = a /\ h.arg = s[Len(s)].arg
  BY <1>1 DEF Handler
<1>3. [s EXCEPT ![Len(s)].at = a] = [s EXCEPT ![Len(s)] = h]
  OBVIOUS
<1> HIDE DEF h
<1>4. /\ [s EXCEPT ![Len(s)] = h] \in Seq(Handler)
      /\ Len([s EXCEPT ![Len(s)] = h]) = Len(s)
      /\ \A i \in 1 .. Len(s) : [s EXCEPT ![Len(s)] = h][i] = IF i = Len(s) THEN h ELSE s[i]
  BY <1>1, <1>2, ExceptSeq
<1> QED
  BY <1>1, <1>2, <1>3, <1>4

(* OnOpenCloseButtonClicked goes on into OnStopButtonClicked.              *)
LEMMA StopStack ==
  ASSUME NEW s \in Seq(Handler), s # <<>>, NEW g \in Handler, NEW h \in Handler
  PROVE  LET t == Seqs!Front(s) \o <<g, h>>
         IN  /\ t \in Seq(Handler)
             /\ Len(t) = Len(s) + 1
             /\ \A i \in 1 .. Len(s) - 1 : t[i] = s[i]
             /\ t[Len(s)] = g /\ t[Len(s) + 1] = h
<1> DEFINE f == Seqs!Front(s)
<1>1. /\ f \in Seq(Handler) /\ Len(s) \in Nat \ {0} /\ Len(f) = Len(s) - 1
      /\ \A i \in 1 .. Len(s) - 1 : f[i] = s[i]
  BY PopStack
<1>2. <<g, h>> \in Seq(Handler) /\ Len(<<g, h>>) = 2 /\ <<g, h>>[1] = g /\ <<g, h>>[2] = h
  OBVIOUS
<1> HIDE DEF f
<1>3. /\ f \o <<g, h>> \in Seq(Handler)
      /\ Len(f \o <<g, h>>) = Len(f) + 2
      /\ \A i \in 1 .. Len(f) + 2 :
           (f \o <<g, h>>)[i] = IF i <= Len(f) THEN f[i] ELSE <<g, h>>[i - Len(f)]
  BY <1>1, <1>2, ConcatProperties
<1>4. Len(s) \in 1 .. Len(f) + 2 /\ Len(s) + 1 \in 1 .. Len(f) + 2
  BY <1>1
<1>5. (f \o <<g, h>>)[Len(s)] = g /\ (f \o <<g, h>>)[Len(s) + 1] = h
  BY <1>1, <1>2, <1>3, <1>4
<1>6. \A i \in 1 .. Len(s) - 1 : (f \o <<g, h>>)[i] = s[i]
  BY <1>1, <1>3
<1> QED
  BY <1>1, <1>3, <1>5, <1>6 DEF f

(* What a step does to the stack. *)
Grows(h) ==
  /\ stack' \in Seq(Handler) /\ Len(stack') = Len(stack) + 1
  /\ \A i \in 1 .. Len(stack) : stack'[i] = stack[i]
  /\ stack'[Len(stack) + 1] = h
Shrinks ==
  /\ stack' \in Seq(Handler) /\ Len(stack) \in Nat \ {0} /\ Len(stack') = Len(stack) - 1
  /\ \A i \in 1 .. Len(stack) - 1 : stack'[i] = stack[i]

LEMMA PushGrows ==
  ASSUME SessionTypes, NEW a \in Waiting, NEW f \in Format \cup {NoParameters}, Push(a, f)
  PROVE  Grows([at |-> a, arg |-> f])
<1> DEFINE h == [at |-> a, arg |-> f]
<1>1. h \in Handler
  BY DEF Handler
<1>2. stack' = Append(stack, h) /\ stack \in Seq(Handler)
  BY DEF Push, SessionTypes
<1> HIDE DEF h
<1>3. Grows(h)
  BY <1>1, <1>2, PushStack DEF Grows
<1> QED
  BY <1>3 DEF h

LEMMA ReturnShrinks ==
  ASSUME SessionTypes, stack # <<>>, Return
  PROVE  Shrinks
BY PopStack DEF Shrinks, Return, SessionTypes

LEMMA TopIsLast ==
  ASSUME SessionTypes, NEW a \in Waiting, Top(a)
  PROVE  /\ stack # <<>> /\ Len(stack) \in Nat \ {0}
         /\ stack[Len(stack)] \in Handler /\ stack[Len(stack)].at = a
         /\ ~dangling
<1>1. stack \in Seq(Handler)
  BY DEF SessionTypes
<1>2. stack # <<>>
  BY DEF Top, Innermost, Waiting
<1>3. Innermost = stack[Len(stack)].at
  BY <1>2 DEF Innermost, Seqs!Last
<1> QED
  BY <1>1, <1>2, <1>3, PopStack DEF Top

(* The positions of the stack.                                             *)
LEMMA StackDomain ==
  ASSUME SessionTypes
  PROVE  Len(stack) \in Nat /\ DOMAIN stack = 1 .. Len(stack)
BY LenProperties DEF SessionTypes

LEMMA NextPosition == \A n \in Nat : \A i \in 1 .. n : i # n => i + 1 \in 1 .. n
OBVIOUS

LEMMA NewPosition ==
  \A n \in Nat : \A i \in 1 .. n + 1 :
    \/ i \in 1 .. n - 1 /\ i \in 1 .. n
    \/ i = n \/ i = n + 1
OBVIOUS

LEMMA LastPosition == \A n \in Nat : \A i \in 1 .. n : i = n \/ i \in 1 .. n - 1
OBVIOUS

-----------------------------------------------------------------------------
(* The format handlers. *)

FormatHandling ==
  \/ OnHeight \/ OnFrameSizeIndexChanged \/ OnCropWidth
  \/ \E pix \in PixelFormats : OnPixelFormatChanged(pix)
  \/ \E reads \in BOOLEAN : OnCropOffset(reads)

LEMMA SetsFormatType ==
  ASSUME SessionTypes, NEW pix \in PixelFormats, SetsFormat(pix)
  PROVE  video' \in [Cameras -> Format] /\ (busy => video' = video)
<1>1. CASE busy
  BY <1>1 DEF SetsFormat, SessionTypes
<1>2. CASE ~busy
  <2>1. PICK got \in Sizes : video' = [video EXCEPT ![camera] = [size |-> got, pix |-> pix]]
    BY <1>2 DEF SetsFormat
  <2>2. [size |-> got, pix |-> pix] \in Format
    BY DEF Format
  <2> QED
    BY <1>2, <2>1, <2>2 DEF SessionTypes
<1> QED
  BY <1>1, <1>2

LEMMA SetsSizeType ==
  ASSUME SessionTypes, camera # NoCamera, SetsSize
  PROVE  video' \in [Cameras -> Format] /\ (busy => video' = video)
<1>1. video[camera].pix \in PixelFormats
  BY DEF SessionTypes, Format
<1> QED
  BY <1>1, SetsFormatType DEF SetsSize

(* A format handler changes the format of the open camera, not while the   *)
(* driver has buffers, and shows what it reads back, or says that it does  *)
(* not.                                                                    *)
LEMMA FormatEffect ==
  ASSUME SessionTypes, FormatHandling
  PROVE  /\ FormatKeeps /\ Drifts
         /\ camera # NoCamera
         /\ video' \in [Cameras -> Format] /\ (busy => video' = video)
         /\ shown' = video'[camera] \/ cropMoved'
<1>1. video \in [Cameras -> Format]
  BY DEF SessionTypes
<1>2. CASE OnHeight
  BY <1>1, <1>2, SetsSizeType DEF OnHeight, HandlesFormat, SetFrameSize, UpdateCameraFormat
<1>3. CASE OnFrameSizeIndexChanged
  BY <1>1, <1>3, SetsSizeType
     DEF OnFrameSizeIndexChanged, HandlesFormat, SetFrameSizeByIndex, GetImageInformation, UpdateCameraFormat
<1>4. CASE OnCropWidth
  BY <1>1, <1>4, SetsSizeType
     DEF OnCropWidth, HandlesFormat, SetCrop, GetImageInformation, UpdateCameraFormat
<1>5. ASSUME NEW pix \in PixelFormats, OnPixelFormatChanged(pix)
      PROVE  /\ FormatKeeps /\ Drifts
             /\ camera # NoCamera
             /\ video' \in [Cameras -> Format] /\ (busy => video' = video)
             /\ shown' = video'[camera] \/ cropMoved'
  BY <1>5, SetsFormatType
     DEF OnPixelFormatChanged, HandlesFormat, SetPixelFormat, GetImageInformation, UpdateCameraFormat
<1>6. ASSUME NEW reads \in BOOLEAN, OnCropOffset(reads)
      PROVE  /\ FormatKeeps /\ Drifts
             /\ camera # NoCamera
             /\ video' \in [Cameras -> Format] /\ (busy => video' = video)
             /\ shown' = video'[camera] \/ cropMoved'
  BY <1>6, SetsSizeType DEF OnCropOffset, HandlesFormat, SetCrop, UpdateCameraFormat
<1> QED
  BY <1>2, <1>3, <1>4, <1>5, <1>6 DEF FormatHandling

-----------------------------------------------------------------------------
(* Type correctness. *)

LEMMA SessionTypesInit == SessionInit => SessionTypes
<1> SUFFICES ASSUME SessionInit PROVE SessionTypes
  OBVIOUS
<1>1. video \in [Cameras -> Format]
  BY DEF SessionInit, FormatsInit
<1>2. stack \in Seq(Handler)
  BY EmptySeq DEF SessionInit
<1> QED
  BY <1>1, <1>2 DEF SessionInit, FormatsInit, SessionTypes, States

(* A handler begins, goes on or returns on a well-formed stack.            *)
LEMMA SessionTypesStep == SessionTypes /\ [SessionNext]_sessionVars => SessionTypes'
<1> SUFFICES ASSUME SessionTypes, [SessionNext]_sessionVars PROVE SessionTypes'
  OBVIOUS
<1> USE DEF formatVars, widgets, streamVars
<1>0. NoParameters \in Format \cup {NoParameters}
  OBVIOUS
<1>1. CASE ToggleBegins
  <2>1. stack' \in Seq(Handler)
    BY <1>0, <1>1, PushGrows DEF ToggleBegins, Grows, Waiting
  <2> QED
    BY <1>1, <2>1 DEF ToggleBegins, SessionTypes
<1>2. ASSUME NEW c \in Cameras, ToggleOpens(c) PROVE SessionTypes'
  <2>1. stack' \in Seq(Handler)
    BY <1>2, ReturnShrinks, TopIsLast DEF ToggleOpens, Shrinks, Waiting
  <2> QED
    BY <1>2, <2>1 DEF ToggleOpens, UpdateViewerLayout, SessionTypes
<1>3. CASE OpenFails
  <2>1. stack' \in Seq(Handler)
    BY <1>3, ReturnShrinks, TopIsLast DEF OpenFails, Shrinks, Waiting
  <2> QED
    BY <1>3, <2>1 DEF OpenFails, UpdateViewerLayout, SessionTypes
<1>4. CASE ToggleCloses \/ ToggleCloseEnds
  <2>1. stack # <<>> /\ \E open \in BOOLEAN : Closes(open)
    BY <1>4, TopIsLast DEF ToggleCloses, ToggleCloseEnds, Waiting, SessionTypes
  <2>2. stack' \in Seq(Handler)
    BY <2>1, ReturnShrinks DEF Closes, Shrinks
  <2> QED
    BY <2>1, <2>2 DEF Closes, UpdateViewerLayout, SessionTypes
<1>5. CASE ToggleStops
  <2> DEFINE g == [at |-> "closing", arg |-> NoParameters]
             h == [at |-> "drain", arg |-> NoParameters]
  <2>1. g \in Handler /\ h \in Handler
    BY <1>0 DEF Handler, Waiting
  <2>2. stack \in Seq(Handler) /\ stack # <<>>
    BY <1>5, TopIsLast DEF ToggleStops, SessionTypes, Waiting
  <2>3. stack' = Seqs!Front(stack) \o <<g, h>>
    BY <1>5 DEF ToggleStops
  <2> HIDE DEF g, h
  <2>4. stack' \in Seq(Handler)
    BY <2>1, <2>2, <2>3, StopStack
  <2> QED
    BY <1>5, <2>4 DEF ToggleStops, StopEffects, SessionTypes, States
<1>6. CASE StartBegins
  <2>1. ReadsFormat \in Format
    BY <1>6 DEF StartBegins, ReadsFormat, SessionTypes
  <2>2. stack' \in Seq(Handler)
    BY <1>6, <2>1, PushGrows DEF StartBegins, Grows, Waiting
  <2> QED
    BY <1>6, <2>2 DEF StartBegins, SessionTypes, States
<1>7. CASE StartSucceeds \/ StartFails
  <2>1. stack' \in Seq(Handler)
    BY <1>7, ReturnShrinks, TopIsLast DEF StartSucceeds, StartFails, Shrinks, Waiting
  <2> QED
    BY <1>7, <2>1 DEF StartSucceeds, StartFails, UpdateViewerLayout, SessionTypes, States
<1>8. CASE StopBegins
  <2>1. stack' \in Seq(Handler)
    BY <1>0, <1>8, PushGrows DEF StopBegins, Grows, Waiting
  <2>2. /\ streamState' \in States /\ thread' \in BOOLEAN
        /\ UNCHANGED <<camera, video, busy, isOpen, isStreaming, openEnabled, startEnabled,
                       listBlocked, frameEnabled, buffers, streamOn>>
    BY <1>8 DEF StopBegins, StopEffects, States, formatVars
  <2> QED
    BY <2>1, <2>2 DEF SessionTypes
<1>9. CASE StopStreaming
  <2>1. stack' \in Seq(Handler)
    BY <1>9, ChangeStack, TopIsLast DEF StopStreaming, Becomes, Waiting, SessionTypes
  <2>2. /\ streamOn' \in BOOLEAN
        /\ UNCHANGED <<camera, video, busy, streamState, isOpen, isStreaming, openEnabled,
                       startEnabled, listBlocked, frameEnabled, buffers, thread>>
    BY <1>9 DEF StopStreaming, formatVars, widgets
  <2> QED
    BY <2>1, <2>2 DEF SessionTypes
<1>10. CASE StopFinishes
  <2>1. stack' \in Seq(Handler)
    BY <1>10, ReturnShrinks, TopIsLast DEF StopFinishes, Shrinks, Waiting
  <2> QED
    BY <1>10, <2>1 DEF StopFinishes, DeletesBuffers, UpdateViewerLayout, SessionTypes, States
<1>11. CASE FormatHandling
  BY <1>11, FormatEffect DEF FormatKeeps, SessionTypes
<1>12. CASE UNCHANGED sessionVars
  BY <1>12 DEF sessionVars, SessionTypes
<1> QED
  BY <1>1, <1>2, <1>3, <1>4, <1>5, <1>6, <1>7, <1>8, <1>9, <1>10, <1>11, <1>12
     DEF SessionNext, FormatHandling

-----------------------------------------------------------------------------
(* Which handlers can wait inside which. *)

(* The compare-and-exchange on m_StreamingState lets one StartStreaming or *)
(* StopStreaming wait at a time, and the state says which; a close that    *)
(* stops the stream waits right below that StopStreaming, or goes on.      *)
StackInv ==
  /\ \A i \in 1 .. Len(stack) : stack[i].at = "start" => streamState = "Starting"
  /\ \A i \in 1 .. Len(stack) : stack[i].at \in Stopping => streamState = "Stopping"
  /\ \A i, j \in 1 .. Len(stack) : stack[i].at \in Streaming /\ stack[j].at \in Streaming => i = j
  /\ \A i \in 1 .. Len(stack) : stack[i].at = "closing" =>
       IF i = Len(stack) THEN streamState = "Stopped" ELSE stack[i + 1].at \in Stopping
  /\ streamState = "Starting" => \E i \in 1 .. Len(stack) : stack[i].at = "start"
  /\ streamState = "Stopping" => \E i \in 1 .. Len(stack) : stack[i].at \in Stopping

LEMMA StackInvInit == SessionInit => StackInv
BY DEF SessionInit, StackInv

(* Nothing waits in StartStreaming or StopStreaming, and no close either,  *)
(* while the state is neither Starting nor Stopping, but for a close that  *)
(* is about to go on.                                                      *)
LEMMA QuietStack ==
  ASSUME SessionTypes, StackInv, streamState \in {"Stopped", "Streaming"}
  PROVE  /\ \A i \in 1 .. Len(stack) : stack[i].at \notin Streaming
         /\ \A i \in 1 .. Len(stack) : stack[i].at = "closing" =>
              i = Len(stack) /\ streamState = "Stopped"
<1> USE DEF StackInv, Streaming, Stopping
<1>1. \A i \in 1 .. Len(stack) : stack[i].at \notin Streaming
  OBVIOUS
<1>2. ASSUME NEW i \in 1 .. Len(stack), stack[i].at = "closing", i # Len(stack) PROVE FALSE
  <2>1. i + 1 \in 1 .. Len(stack)
    BY <1>2, StackDomain, NextPosition
  <2> QED
    BY <1>1, <1>2, <2>1
<1> QED
  BY <1>1, <1>2

(* A handler that is not one of StartStreaming or StopStreaming begins or  *)
(* returns: an open, or a close that does not wait.                        *)
LEMMA StackInvOpening ==
  ASSUME SessionTypes, StackInv, UNCHANGED streamState,
         \/ \E h \in Handler : Grows(h) /\ h.at = "toggle" /\ Innermost # "closing"
         \/ Shrinks /\ stack[Len(stack)].at \in Opening
  PROVE  StackInv'
<1>1. CASE \E h \in Handler : Grows(h) /\ h.at = "toggle" /\ Innermost # "closing"
  <2>1. PICK h \in Handler : Grows(h) /\ h.at = "toggle"
    BY <1>1
  <2>2. \A i \in 1 .. Len(stack') : i \in 1 .. Len(stack) \/ i = Len(stack) + 1
    BY <2>1, StackDomain DEF Grows
  <2>3. \A i \in 1 .. Len(stack) : i \in 1 .. Len(stack') /\ i # Len(stack')
    BY <2>1, StackDomain DEF Grows
  <2>4. \A i \in 1 .. Len(stack) : stack[i].at = "closing" => i # Len(stack)
    BY <1>1, StackDomain, EmptySeq DEF Innermost, Seqs!Last, SessionTypes
  <2>5. \A i \in 1 .. Len(stack) : i # Len(stack) => i + 1 \in 1 .. Len(stack)
    BY StackDomain, NextPosition
  <2>6. /\ \A i \in 1 .. Len(stack) : stack'[i] = stack[i]
        /\ stack'[Len(stack) + 1].at = "toggle"
    BY <2>1 DEF Grows
  <2>7. \A i \in 1 .. Len(stack') :
          stack'[i].at = "toggle" \/ (i \in 1 .. Len(stack) /\ stack'[i] = stack[i])
    BY <2>2, <2>6
  <2>8. \A i \in 1 .. Len(stack') :
          stack'[i].at \in Streaming \/ stack'[i].at = "closing" =>
            i \in 1 .. Len(stack) /\ stack'[i] = stack[i]
    BY <2>7 DEF Streaming
  <2>9. ASSUME NEW i \in 1 .. Len(stack'), stack'[i].at = "closing"
        PROVE  i # Len(stack') /\ stack'[i + 1].at \in Stopping
    <3>1. i \in 1 .. Len(stack) /\ stack[i].at = "closing"
      BY <2>8, <2>9
    <3>2. i # Len(stack) /\ i + 1 \in 1 .. Len(stack)
      BY <2>4, <2>5, <3>1
    <3> QED
      BY <2>3, <2>6, <3>1, <3>2 DEF StackInv
  <2>10. \A i, j \in 1 .. Len(stack') :
           stack'[i].at \in Streaming /\ stack'[j].at \in Streaming => i = j
    BY <2>8 DEF StackInv
  <2>11. \A i \in 1 .. Len(stack') :
           /\ stack'[i].at = "start" => streamState = "Starting"
           /\ stack'[i].at \in Stopping => streamState = "Stopping"
    BY <2>7 DEF StackInv, Stopping
  <2> QED
    BY <2>3, <2>6, <2>9, <2>10, <2>11 DEF StackInv
<1>2. CASE Shrinks /\ stack[Len(stack)].at \in Opening
  <2>1. \A i \in 1 .. Len(stack') : i \in 1 .. Len(stack) /\ i # Len(stack) /\ i + 1 \in 1 .. Len(stack)
    BY <1>2, StackDomain DEF Shrinks
  <2>2. \A i \in 1 .. Len(stack) : i = Len(stack) \/ i \in 1 .. Len(stack')
    BY <1>2, StackDomain DEF Shrinks
  <2>3. \A i \in 1 .. Len(stack') : stack'[i] = stack[i]
    BY <1>2 DEF Shrinks
  <2>4. ASSUME NEW i \in 1 .. Len(stack'), stack'[i].at = "closing"
        PROVE  i # Len(stack') /\ stack'[i + 1].at \in Stopping
    <3>1. stack[i + 1].at \in Stopping
      BY <2>1, <2>3, <2>4 DEF StackInv
    <3>2. i + 1 # Len(stack)
      BY <1>2, <3>1 DEF Opening, Stopping
    <3>3. i + 1 \in 1 .. Len(stack')
      BY <2>1, <2>2, <3>2
    <3>4. i # Len(stack')
      BY <3>3, <1>2 DEF Shrinks
    <3> QED
      BY <2>3, <3>1, <3>3, <3>4
  <2>5. \A i, j \in 1 .. Len(stack') :
          stack'[i].at \in Streaming /\ stack'[j].at \in Streaming => i = j
    BY <2>1, <2>3 DEF StackInv
  <2>6. \A i \in 1 .. Len(stack) : stack[i].at \in Streaming => i \in 1 .. Len(stack')
    BY <1>2, <2>2 DEF Opening, Streaming
  <2> QED
    BY <2>1, <2>3, <2>4, <2>5, <2>6 DEF StackInv, Streaming, Stopping
<1> QED
  BY <1>1, <1>2

(* StartStreaming or StopStreaming begins.                                 *)
LEMMA StackInvStreaming ==
  ASSUME SessionTypes, StackInv, NEW h \in Handler, Grows(h), Innermost # "closing",
         streamState \in {"Stopped", "Streaming"},
         \/ h.at = "start" /\ streamState' = "Starting"
         \/ h.at = "drain" /\ streamState' = "Stopping"
  PROVE  StackInv'
<1>1. \A i \in 1 .. Len(stack) : stack[i].at # "closing"
  BY QuietStack, StackDomain, EmptySeq DEF Innermost, Seqs!Last, SessionTypes
<1>2. \A i \in 1 .. Len(stack) : stack[i].at \notin Streaming
  BY QuietStack
<1>3. \A i \in 1 .. Len(stack') : i \in 1 .. Len(stack) \/ i = Len(stack) + 1
  BY StackDomain DEF Grows
<1>4. Len(stack) + 1 \in 1 .. Len(stack')
  BY StackDomain DEF Grows
<1> QED
  BY <1>1, <1>2, <1>3, <1>4 DEF Grows, StackInv, Streaming, Stopping

(* StartStreaming or StopStreaming returns.                                *)
LEMMA StackInvReturns ==
  ASSUME SessionTypes, StackInv, Shrinks,
         \/ stack[Len(stack)].at = "start" /\ streamState' \in {"Stopped", "Streaming"}
         \/ stack[Len(stack)].at = "off" /\ streamState' = "Stopped"
  PROVE  StackInv'
<1>1. \A i \in 1 .. Len(stack') : i \in 1 .. Len(stack) /\ i # Len(stack)
  BY StackDomain DEF Shrinks
<1>2. Len(stack) \in 1 .. Len(stack)
  BY DEF Shrinks
<1>3. \A i \in 1 .. Len(stack') : stack'[i] = stack[i]
  BY DEF Shrinks
<1>4. \A i \in 1 .. Len(stack') : stack'[i].at \notin Streaming
  BY <1>1, <1>2, <1>3 DEF StackInv, Streaming
<1>5. ASSUME NEW i \in 1 .. Len(stack'), stack'[i].at = "closing"
      PROVE  i = Len(stack') /\ streamState' = "Stopped"
  <2>1. stack[i + 1].at \in Stopping /\ i + 1 \in 1 .. Len(stack)
    BY <1>1, <1>3, <1>5, StackDomain, NextPosition DEF StackInv
  <2>2. i + 1 = Len(stack)
    BY <1>2, <2>1 DEF StackInv, Streaming, Stopping
  <2>3. stack[Len(stack)].at \in Stopping
    BY <2>1, <2>2
  <2>4. i = Len(stack')
    BY <1>5, <2>2, StackDomain DEF Shrinks
  <2> QED
    BY <2>3, <2>4 DEF Stopping
<1> QED
  BY <1>4, <1>5 DEF StackInv, Streaming, Stopping

LEMMA StackInvStep ==
  SessionTypes /\ StackInv /\ [SessionNext]_sessionVars => StackInv'
<1> SUFFICES ASSUME SessionTypes, StackInv, [SessionNext]_sessionVars PROVE StackInv'
  OBVIOUS
<1>0. NoParameters \in Format \cup {NoParameters}
  OBVIOUS
<1>1. CASE ToggleBegins
  <2> DEFINE h == [at |-> "toggle", arg |-> NoParameters]
  <2>1. Grows(h) /\ h \in Handler
    BY <1>0, <1>1, PushGrows DEF ToggleBegins, Handler, Waiting
  <2>2. h.at = "toggle"
    OBVIOUS
  <2>3. UNCHANGED streamState /\ Innermost # "closing"
    BY <1>1 DEF ToggleBegins, EventLoop
  <2> HIDE DEF h
  <2> QED
    BY <2>1, <2>2, <2>3, StackInvOpening
<1>2. ASSUME \/ \E c \in Cameras : ToggleOpens(c)
             \/ OpenFails \/ ToggleCloses \/ ToggleCloseEnds
      PROVE  StackInv'
  <2>1. /\ UNCHANGED streamState /\ Return
        /\ Top("toggle") \/ Top("closing")
    BY <1>2 DEF ToggleOpens, OpenFails, ToggleCloses, ToggleCloseEnds, Closes
  <2>2. stack # <<>> /\ stack[Len(stack)].at \in Opening
    BY <2>1, TopIsLast DEF Waiting, Opening
  <2>3. Shrinks
    BY <2>1, <2>2, ReturnShrinks
  <2> QED
    BY <2>1, <2>2, <2>3, StackInvOpening
<1>3. CASE ToggleStops
  <2> DEFINE g == [at |-> "closing", arg |-> NoParameters]
             h == [at |-> "drain", arg |-> NoParameters]
             n == Len(stack)
  <2>1. g \in Handler /\ h \in Handler /\ g.at = "closing" /\ h.at = "drain"
    BY <1>0 DEF Handler, Waiting
  <2>2. stack \in Seq(Handler) /\ stack # <<>> /\ stack[n].at = "toggle" /\ n \in Nat \ {0}
    BY <1>3, TopIsLast DEF ToggleStops, SessionTypes, Waiting
  <2>3. stack' = Seqs!Front(stack) \o <<g, h>>
    BY <1>3 DEF ToggleStops
  <2>4. streamState = "Streaming" /\ streamState' = "Stopping"
    BY <1>3 DEF ToggleStops, StopsAtOnce, StopEffects
  <2> HIDE DEF g, h
  <2>5. /\ Len(stack') = n + 1
        /\ \A i \in 1 .. n - 1 : stack'[i] = stack[i]
        /\ stack'[n] = g /\ stack'[n + 1] = h
    BY <2>1, <2>2, <2>3, StopStack
  <2> HIDE DEF n
  <2>6. \A i \in 1 .. n + 1 : i \in 1 .. n - 1 \/ i = n \/ i = n + 1
    BY <2>2
  <2>7. \A i \in 1 .. n - 1 : stack'[i].at \notin Streaming /\ stack'[i].at # "closing"
    <3>1. \A i \in 1 .. n - 1 : i \in 1 .. Len(stack)
      BY <2>2 DEF n
    <3> QED
      BY <2>4, <2>5, <3>1, QuietStack
  <2>8. n + 1 \in 1 .. n + 1 /\ n # n + 1
    BY <2>2
  <2>9. /\ stack'[n].at = "closing" /\ stack'[n + 1].at = "drain"
    BY <2>1, <2>5
  <2> QED
    BY <2>4, <2>5, <2>6, <2>7, <2>8, <2>9 DEF StackInv, Streaming, Stopping
<1>4. CASE StartBegins
  <2> DEFINE h == [at |-> "start", arg |-> ReadsFormat]
  <2>1. ReadsFormat \in Format
    BY <1>4 DEF StartBegins, ReadsFormat, SessionTypes
  <2>2. Grows(h) /\ h \in Handler
    BY <1>4, <2>1, PushGrows DEF StartBegins, Handler, Waiting
  <2>3. h.at = "start"
    OBVIOUS
  <2>4. streamState = "Stopped" /\ streamState' = "Starting" /\ Innermost # "closing"
    BY <1>4 DEF StartBegins, MayStart, EventLoop
  <2> HIDE DEF h
  <2> QED
    BY <2>2, <2>3, <2>4, StackInvStreaming
<1>5. CASE StopBegins
  <2> DEFINE h == [at |-> "drain", arg |-> NoParameters]
  <2>1. Grows(h) /\ h \in Handler
    BY <1>0, <1>5, PushGrows DEF StopBegins, Handler, Waiting
  <2>2. h.at = "drain"
    OBVIOUS
  <2>3. streamState = "Streaming" /\ streamState' = "Stopping" /\ Innermost # "closing"
    BY <1>5 DEF StopBegins, StopEffects, EventLoop
  <2> HIDE DEF h
  <2> QED
    BY <2>1, <2>2, <2>3, StackInvStreaming
<1>6. CASE StartSucceeds \/ StartFails \/ StopFinishes
  <2>1. /\ Return
        /\ \/ Top("start") /\ streamState' \in {"Stopped", "Streaming"}
           \/ Top("off") /\ streamState' = "Stopped"
    BY <1>6 DEF StartSucceeds, StartFails, StopFinishes
  <2>2. stack # <<>>
    BY <2>1, TopIsLast DEF Waiting
  <2>3. \/ stack[Len(stack)].at = "start" /\ streamState' \in {"Stopped", "Streaming"}
        \/ stack[Len(stack)].at = "off" /\ streamState' = "Stopped"
    BY <2>1, TopIsLast DEF Waiting
  <2> QED
    BY <2>1, <2>2, <2>3, ReturnShrinks, StackInvReturns
<1>7. CASE StopStreaming
  <2>1. /\ stack \in Seq(Handler) /\ stack # <<>>
        /\ Len(stack) \in Nat \ {0} /\ stack[Len(stack)].at = "drain"
    BY <1>7, TopIsLast DEF StopStreaming, SessionTypes, Waiting
  <2>2. /\ Len(stack') = Len(stack)
        /\ \A i \in 1 .. Len(stack) - 1 : stack'[i] = stack[i]
        /\ stack'[Len(stack)].at = "off"
    <3>1. stack' = [stack EXCEPT ![Len(stack)].at = "off"] /\ "off" \in Waiting
      BY <1>7 DEF StopStreaming, Becomes, Waiting
    <3> QED
      BY <2>1, <3>1, ChangeStack
  <2>3. \A i \in 1 .. Len(stack) : i \in 1 .. Len(stack) - 1 \/ i = Len(stack)
    BY <2>1
  <2>4. \A i \in 1 .. Len(stack) : i # Len(stack) => i + 1 \in 1 .. Len(stack)
    BY <2>1, NextPosition
  <2>5. \A i \in 1 .. Len(stack) :
          /\ stack'[i].at \in Stopping <=> stack[i].at \in Stopping
          /\ stack'[i].at \in Streaming <=> stack[i].at \in Streaming
          /\ stack'[i].at = "start" <=> stack[i].at = "start"
          /\ stack'[i].at = "closing" <=> stack[i].at = "closing"
    BY <2>1, <2>2, <2>3 DEF Stopping, Streaming
  <2>6. UNCHANGED streamState
    BY <1>7 DEF StopStreaming
  <2> QED
    BY <2>2, <2>4, <2>5, <2>6 DEF StackInv
<1>8. CASE FormatHandling
  <2>1. UNCHANGED <<stack, streamState>>
    BY <1>8, FormatEffect DEF FormatKeeps
  <2> QED
    BY <2>1 DEF StackInv
<1>9. CASE UNCHANGED sessionVars
  BY <1>9 DEF sessionVars, StackInv
<1> QED
  BY <1>1, <1>2, <1>3, <1>4, <1>5, <1>6, <1>7, <1>8, <1>9 DEF SessionNext, FormatHandling

-----------------------------------------------------------------------------
(* The stream and the device. *)

(* Who waits, after each kind of step.                                     *)
LEMMA OnStackGrows ==
  ASSUME SessionTypes, NEW h, Grows(h), NEW a
  PROVE  OnStack(a)' <=> (OnStack(a) \/ h.at = a)
<1>1. DOMAIN stack = 1 .. Len(stack) /\ Len(stack) \in Nat
  BY StackDomain
<1>2. DOMAIN stack' = 1 .. Len(stack')
  BY LenProperties DEF Grows
<1>3. \A i \in 1 .. Len(stack') : i \in 1 .. Len(stack) \/ i = Len(stack) + 1
  BY <1>1 DEF Grows
<1>4. \A i \in 1 .. Len(stack) : i \in 1 .. Len(stack')
  BY <1>1 DEF Grows
<1>5. Len(stack) + 1 \in 1 .. Len(stack')
  BY <1>1 DEF Grows
<1> QED
  BY <1>1, <1>2, <1>3, <1>4, <1>5 DEF OnStack, Grows

LEMMA OnStackShrinks ==
  ASSUME SessionTypes, Shrinks, NEW a, stack[Len(stack)].at # a
  PROVE  OnStack(a)' <=> OnStack(a)
<1>1. DOMAIN stack = 1 .. Len(stack)
  BY StackDomain
<1>2. DOMAIN stack' = 1 .. Len(stack')
  BY LenProperties DEF Shrinks
<1>3. \A i \in 1 .. Len(stack) : i = Len(stack) \/ i \in 1 .. Len(stack')
  BY DEF Shrinks
<1>4. \A i \in 1 .. Len(stack') : i \in 1 .. Len(stack)
  BY DEF Shrinks
<1> QED
  BY <1>1, <1>2, <1>3, <1>4 DEF OnStack, Shrinks

(* What ToggleStops and StopStreaming do to the stack.                     *)
LEMMA ToggleStopsEffect ==
  ASSUME SessionTypes, ToggleStops
  PROVE  /\ Len(stack) \in Nat \ {0} /\ stack[Len(stack)].at = "toggle"
         /\ DOMAIN stack' = 1 .. Len(stack) + 1 /\ Len(stack') = Len(stack) + 1
         /\ \A i \in 1 .. Len(stack) - 1 : stack'[i] = stack[i]
         /\ stack'[Len(stack)].at = "closing" /\ stack'[Len(stack) + 1].at = "drain"
<1> DEFINE g == [at |-> "closing", arg |-> NoParameters]
           h == [at |-> "drain", arg |-> NoParameters]
<1>1. g \in Handler /\ h \in Handler /\ g.at = "closing" /\ h.at = "drain"
  BY DEF Handler, Waiting
<1>2. /\ stack \in Seq(Handler) /\ stack # <<>>
      /\ Len(stack) \in Nat \ {0} /\ stack[Len(stack)].at = "toggle"
  BY TopIsLast DEF ToggleStops, SessionTypes, Waiting
<1>3. stack' = Seqs!Front(stack) \o <<g, h>>
  BY DEF ToggleStops
<1> HIDE DEF g, h
<1>4. /\ stack' \in Seq(Handler) /\ Len(stack') = Len(stack) + 1
      /\ \A i \in 1 .. Len(stack) - 1 : stack'[i] = stack[i]
      /\ stack'[Len(stack)] = g /\ stack'[Len(stack) + 1] = h
  BY <1>1, <1>2, <1>3, StopStack
<1>5. DOMAIN stack' = 1 .. Len(stack')
  BY <1>4, LenProperties
<1> QED
  BY <1>1, <1>2, <1>4, <1>5

LEMMA StopStreamingEffect ==
  ASSUME SessionTypes, StopStreaming
  PROVE  /\ Len(stack) \in Nat \ {0} /\ stack[Len(stack)].at = "drain"
         /\ DOMAIN stack' = 1 .. Len(stack) /\ Len(stack') = Len(stack)
         /\ \A i \in 1 .. Len(stack) - 1 : stack'[i] = stack[i]
         /\ stack'[Len(stack)].at = "off"
<1>1. /\ stack \in Seq(Handler) /\ stack # <<>>
      /\ Len(stack) \in Nat \ {0} /\ stack[Len(stack)].at = "drain"
  BY TopIsLast DEF StopStreaming, SessionTypes, Waiting
<1>2. /\ stack' \in Seq(Handler) /\ Len(stack') = Len(stack)
      /\ \A i \in 1 .. Len(stack) - 1 : stack'[i] = stack[i]
      /\ stack'[Len(stack)].at = "off"
  <2>1. stack' = [stack EXCEPT ![Len(stack)].at = "off"] /\ "off" \in Waiting
    BY DEF StopStreaming, Becomes, Waiting
  <2> QED
    BY <1>1, <2>1, ChangeStack
<1>3. DOMAIN stack' = 1 .. Len(stack')
  BY <1>2, LenProperties
<1> QED
  BY <1>1, <1>2, <1>3

(* The frame thread runs only for a camera that is open and streaming, and *)
(* a camera whose descriptors are open is open to the user or is being     *)
(* closed.                                                                 *)
DeviceInv ==
  /\ camera # NoCamera => isOpen \/ OnStack("closing")
  /\ thread => streamState = "Streaming" /\ isOpen /\ isStreaming /\ busy /\ camera # NoCamera

LEMMA DeviceInvInit == SessionInit => DeviceInv
BY DEF SessionInit, FormatsInit, DeviceInv

(* What the state says of the handlers that wait.                          *)
LEMMA StackStates ==
  ASSUME SessionTypes, StackInv
  PROVE  /\ Top("start") => streamState = "Starting" /\ ~OnStack("closing")
         /\ Top("drain") \/ Top("off") => streamState = "Stopping"
         /\ Top("closing") => streamState = "Stopped"
         /\ OnStack("start") => streamState = "Starting"
         /\ OnStack("closing") => streamState \in {"Stopping", "Stopped"}
<1>1. DOMAIN stack = 1 .. Len(stack) /\ Len(stack) \in Nat
  BY StackDomain
<1>2. \A a \in Waiting : Top(a) => Len(stack) \in 1 .. Len(stack) /\ stack[Len(stack)].at = a
  BY TopIsLast
<1>3. \A i \in 1 .. Len(stack) : stack[i].at = "closing" => streamState \in {"Stopping", "Stopped"}
  BY <1>1, NextPosition DEF StackInv
<1>4. OnStack("closing") => streamState \in {"Stopping", "Stopped"}
  BY <1>1, <1>3 DEF OnStack
<1>5. Top("start") => streamState = "Starting"
  BY <1>2 DEF StackInv, Waiting
<1>6. Top("drain") \/ Top("off") => streamState = "Stopping"
  BY <1>2 DEF StackInv, Waiting, Stopping
<1>7. Top("closing") => streamState = "Stopped"
  BY <1>2 DEF StackInv, Waiting
<1>8. OnStack("start") => streamState = "Starting"
  BY <1>1 DEF StackInv, OnStack
<1> QED
  BY <1>4, <1>5, <1>6, <1>7, <1>8

LEMMA DeviceInvStep ==
  SessionTypes /\ StackInv /\ DeviceInv /\ [SessionNext]_sessionVars => DeviceInv'
<1> SUFFICES ASSUME SessionTypes, StackInv, DeviceInv, [SessionNext]_sessionVars PROVE DeviceInv'
  OBVIOUS
<1> USE DEF formatVars, widgets, streamVars
<1>0. NoParameters \in Format \cup {NoParameters}
  OBVIOUS
<1>1. CASE ToggleBegins
  <2>1. Grows([at |-> "toggle", arg |-> NoParameters])
    BY <1>0, <1>1, PushGrows DEF ToggleBegins, Waiting
  <2>2. OnStack("closing") => OnStack("closing")'
    BY <2>1, OnStackGrows
  <2> QED
    BY <1>1, <2>2 DEF ToggleBegins, DeviceInv
<1>2. ASSUME NEW c \in Cameras, ToggleOpens(c) PROVE DeviceInv'
  BY <1>2 DEF ToggleOpens, DeviceInv
<1>3. CASE OpenFails
  <2>1. Shrinks /\ stack[Len(stack)].at = "toggle"
    BY <1>3, TopIsLast, ReturnShrinks DEF OpenFails, Waiting
  <2>2. OnStack("closing") => OnStack("closing")'
    BY <2>1, OnStackShrinks
  <2> QED
    BY <1>3, <2>2 DEF OpenFails, DeviceInv
<1>4. CASE ToggleCloses
  BY <1>4 DEF ToggleCloses, Closes, StopsAtOnce, DeviceInv
<1>5. CASE ToggleCloseEnds
  BY <1>5, StackStates DEF ToggleCloseEnds, Closes, DeviceInv
<1>6. CASE ToggleStops
  <2>1. OnStack("closing")'
    BY <1>6, ToggleStopsEffect DEF OnStack
  <2> QED
    BY <1>6, <2>1 DEF ToggleStops, StopEffects, DeviceInv
<1>7. CASE StartBegins
  <2>1. ReadsFormat \in Format
    BY <1>7 DEF StartBegins, ReadsFormat, SessionTypes
  <2>2. Grows([at |-> "start", arg |-> ReadsFormat])
    BY <1>7, <2>1, PushGrows DEF StartBegins, Waiting
  <2>3. OnStack("closing") => OnStack("closing")'
    BY <2>2, OnStackGrows
  <2> QED
    BY <1>7, <2>3 DEF StartBegins, MayStart, DeviceInv
<1>8. CASE StartSucceeds
  BY <1>8, StackStates DEF StartSucceeds, UpdateViewerLayout, DeviceInv, SessionTypes
<1>9. CASE StartFails
  <2>1. Shrinks /\ stack[Len(stack)].at = "start"
    BY <1>9, TopIsLast, ReturnShrinks DEF StartFails, Waiting
  <2>2. OnStack("closing") => OnStack("closing")'
    BY <2>1, OnStackShrinks
  <2> QED
    BY <1>9, <2>2, StackStates DEF StartFails, DeviceInv
<1>10. CASE StopBegins
  <2>1. Grows([at |-> "drain", arg |-> NoParameters])
    BY <1>0, <1>10, PushGrows DEF StopBegins, Waiting
  <2>2. OnStack("closing") => OnStack("closing")'
    BY <2>1, OnStackGrows
  <2> QED
    BY <1>10, <2>2 DEF StopBegins, StopEffects, DeviceInv
<1>11. CASE StopStreaming
  <2>1. OnStack("closing") => OnStack("closing")'
    <3>1. \A i \in 1 .. Len(stack) : i = Len(stack) \/ i \in 1 .. Len(stack) - 1
      BY StackDomain, LastPosition
    <3> QED
      BY <1>11, <3>1, StopStreamingEffect, StackDomain DEF OnStack
  <2> QED
    BY <1>11, <2>1, StackStates DEF StopStreaming, DeviceInv
<1>12. CASE StopFinishes
  <2>1. Shrinks /\ stack[Len(stack)].at = "off"
    BY <1>12, TopIsLast, ReturnShrinks DEF StopFinishes, Waiting
  <2>2. OnStack("closing") => OnStack("closing")'
    BY <2>1, OnStackShrinks
  <2> QED
    BY <1>12, <2>2, StackStates DEF StopFinishes, DeviceInv
<1>13. CASE FormatHandling
  BY <1>13, FormatEffect DEF FormatKeeps, DeviceInv, OnStack
<1>14. CASE UNCHANGED sessionVars
  BY <1>14 DEF sessionVars, DeviceInv, OnStack
<1> QED
  BY <1>1, <1>2, <1>3, <1>4, <1>5, <1>6, <1>7, <1>8, <1>9, <1>10, <1>11, <1>12, <1>13, <1>14
     DEF SessionNext, FormatHandling

(* A StartStreaming that waits has read the current format, or the format  *)
(* changed meanwhile, and so has the stream that runs.                     *)
ParamsInv ==
  /\ \A i \in 1 .. Len(stack) :
       stack[i].at = "start" /\ camera # NoCamera => stack[i].arg = video[camera] \/ drift
  /\ thread => params = video[camera] \/ drift

LEMMA ParamsInvInit == SessionInit => ParamsInv
BY DEF SessionInit, ParamsInv

(* A step that begins no StartStreaming and starts no stream.              *)
LEMMA ParamsInvKept ==
  ASSUME SessionTypes, ParamsInv,
         \A i \in 1 .. Len(stack') :
           stack'[i].at = "start" => i \in 1 .. Len(stack) /\ stack'[i] = stack[i],
         Drifts \/ UNCHANGED <<camera, video, drift>>,
         thread' => thread /\ UNCHANGED <<camera, video, params>>
  PROVE  ParamsInv'
<1>1. drift => drift'
  BY DEF Drifts
<1>2. ASSUME NEW i \in 1 .. Len(stack'), stack'[i].at = "start", camera' # NoCamera
      PROVE  stack'[i].arg = video'[camera'] \/ drift'
  <2>1. i \in 1 .. Len(stack) /\ stack'[i] = stack[i]
    BY <1>2
  <2>2. OnStack("start")
    BY <1>2, <2>1, StackDomain DEF OnStack
  <2>3. (camera' # camera \/ video' # video) => drift'
    BY <2>2 DEF Drifts
  <2>4. CASE camera' = camera /\ video' = video
    BY <1>1, <1>2, <2>1, <2>4 DEF ParamsInv
  <2> QED
    BY <2>3, <2>4
<1>3. thread' => params' = video'[camera'] \/ drift'
  BY <1>1 DEF ParamsInv
<1> QED
  BY <1>2, <1>3 DEF ParamsInv

(* A handler other than StartStreaming begins, or one returns.             *)
LEMMA StartsKept ==
  ASSUME SessionTypes,
         (\E h : Grows(h) /\ h.at # "start") \/ Shrinks \/ UNCHANGED stack
  PROVE  \A i \in 1 .. Len(stack') :
           stack'[i].at = "start" => i \in 1 .. Len(stack) /\ stack'[i] = stack[i]
<1>1. CASE \E h : Grows(h) /\ h.at # "start"
  <2>1. PICK h : Grows(h) /\ h.at # "start"
    BY <1>1
  <2>2. \A i \in 1 .. Len(stack') : i \in 1 .. Len(stack) \/ i = Len(stack) + 1
    BY <2>1, StackDomain DEF Grows
  <2> QED
    BY <2>1, <2>2 DEF Grows
<1>2. CASE Shrinks
  <2>1. \A i \in 1 .. Len(stack') : i \in 1 .. Len(stack) /\ i \in 1 .. Len(stack) - 1
    BY <1>2 DEF Shrinks
  <2> QED
    BY <1>2, <2>1 DEF Shrinks
<1> QED
  BY <1>1, <1>2

LEMMA ParamsInvStep ==
  SessionTypes /\ StackInv /\ DeviceInv /\ ParamsInv /\ [SessionNext]_sessionVars => ParamsInv'
<1> SUFFICES ASSUME SessionTypes, StackInv, DeviceInv, ParamsInv, [SessionNext]_sessionVars
             PROVE  ParamsInv'
  OBVIOUS
<1> USE DEF formatVars, widgets, streamVars
<1>0. NoParameters \in Format \cup {NoParameters}
  OBVIOUS
<1>1. CASE ToggleBegins
  <2>1. Grows([at |-> "toggle", arg |-> NoParameters])
    BY <1>0, <1>1, PushGrows DEF ToggleBegins, Waiting
  <2>2. \E h : Grows(h) /\ h.at # "start"
    BY <2>1
  <2>3. thread' => thread /\ UNCHANGED <<camera, video, params>>
    BY <1>1 DEF ToggleBegins, DeviceInv
  <2>4. Drifts
    BY <1>1 DEF ToggleBegins
  <2> QED
    BY <2>2, <2>3, <2>4, StartsKept, ParamsInvKept
<1>2. ASSUME \/ \E c \in Cameras : ToggleOpens(c)
             \/ OpenFails \/ ToggleCloses \/ ToggleCloseEnds
      PROVE  ParamsInv'
  <2>1. /\ Return
        /\ Top("toggle") \/ Top("closing")
        /\ Drifts \/ UNCHANGED <<camera, video, drift>>
        /\ UNCHANGED thread
    BY <1>2 DEF ToggleOpens, OpenFails, ToggleCloses, ToggleCloseEnds, Closes
  <2>2. Shrinks
    BY <2>1, TopIsLast, ReturnShrinks DEF Waiting
  <2>3. ~thread
    <3>1. CASE \/ \E c \in Cameras : ToggleOpens(c)
               \/ OpenFails
      BY <3>1 DEF ToggleOpens, OpenFails, DeviceInv
    <3>2. CASE ToggleCloses
      BY <3>2 DEF ToggleCloses, StopsAtOnce, DeviceInv
    <3>3. CASE ToggleCloseEnds
      BY <3>3, StackStates DEF ToggleCloseEnds, DeviceInv
    <3> QED
      BY <1>2, <3>1, <3>2, <3>3
  <2> QED
    BY <2>1, <2>2, <2>3, StartsKept, ParamsInvKept
<1>3. CASE ToggleStops
  <2>1. \A i \in 1 .. Len(stack) + 1 :
          \/ i \in 1 .. Len(stack) - 1 /\ i \in 1 .. Len(stack)
          \/ i = Len(stack) \/ i = Len(stack) + 1
    BY StackDomain, NewPosition
  <2>2. \A i \in 1 .. Len(stack') :
          stack'[i].at = "start" => i \in 1 .. Len(stack) /\ stack'[i] = stack[i]
    BY <1>3, <2>1, ToggleStopsEffect
  <2>3. ~thread' /\ UNCHANGED <<camera, video, drift>>
    BY <1>3 DEF ToggleStops, StopEffects
  <2> QED
    BY <2>2, <2>3, ParamsInvKept
<1>4. CASE StartBegins
  <2> DEFINE h == [at |-> "start", arg |-> ReadsFormat]
  <2>1. ReadsFormat \in Format
    BY <1>4 DEF StartBegins, ReadsFormat, SessionTypes
  <2>2. Grows(h)
    BY <1>4, <2>1, PushGrows DEF StartBegins, Waiting
  <2>3. streamState = "Stopped" /\ UNCHANGED <<camera, video, thread>>
    BY <1>4 DEF StartBegins, MayStart
  <2>4. h.arg = video'[camera'] /\ ~thread'
    BY <2>3 DEF ReadsFormat, DeviceInv
  <2> HIDE DEF h
  <2>5. \A i \in 1 .. Len(stack') : i \in 1 .. Len(stack) \/ i = Len(stack) + 1
    BY <2>2, StackDomain DEF Grows
  <2>6. \A i \in 1 .. Len(stack) : stack'[i].at # "start"
    BY <2>2, <2>3, QuietStack DEF Grows, Streaming
  <2>7. stack'[Len(stack) + 1].arg = video'[camera']
    BY <2>2, <2>4 DEF Grows
  <2> QED
    BY <2>4, <2>5, <2>6, <2>7 DEF ParamsInv
<1>5. CASE StartSucceeds
  <2>1. /\ Return /\ Top("start")
        /\ camera # NoCamera /\ UNCHANGED <<camera, video, drift>>
        /\ params' = stack[Len(stack)].arg
    BY <1>5 DEF StartSucceeds, Seqs!Last
  <2>2. Shrinks /\ stack[Len(stack)].at = "start"
    BY <2>1, TopIsLast, ReturnShrinks DEF Waiting
  <2>3. Len(stack) \in 1 .. Len(stack)
    BY <2>2 DEF Shrinks
  <2>4. params' = video'[camera'] \/ drift'
    BY <2>1, <2>2, <2>3 DEF ParamsInv
  <2>5. \A i \in 1 .. Len(stack') : i \in 1 .. Len(stack) /\ i # Len(stack) /\ stack'[i] = stack[i]
    BY <2>2 DEF Shrinks
  <2>6. \A i \in 1 .. Len(stack') : stack'[i].at # "start"
    BY <2>2, <2>3, <2>5 DEF StackInv, Streaming
  <2> QED
    BY <2>4, <2>6 DEF ParamsInv
<1>6. CASE StartFails
  <2>1. Shrinks
    BY <1>6, TopIsLast, ReturnShrinks DEF StartFails, Waiting
  <2>2. UNCHANGED <<camera, video, drift, thread, params>>
    BY <1>6 DEF StartFails
  <2> QED
    BY <2>1, <2>2, StartsKept, ParamsInvKept
<1>7. CASE StopBegins
  <2>1. Grows([at |-> "drain", arg |-> NoParameters])
    BY <1>0, <1>7, PushGrows DEF StopBegins, Waiting
  <2>2. \E h : Grows(h) /\ h.at # "start"
    BY <2>1
  <2>3. ~thread' /\ UNCHANGED <<camera, video, drift>>
    BY <1>7 DEF StopBegins, StopEffects
  <2> QED
    BY <2>2, <2>3, StartsKept, ParamsInvKept
<1>8. CASE StopStreaming
  <2>1. \A i \in 1 .. Len(stack) : i = Len(stack) \/ i \in 1 .. Len(stack) - 1
    BY StackDomain, LastPosition
  <2>2. \A i \in 1 .. Len(stack') :
          stack'[i].at = "start" => i \in 1 .. Len(stack) /\ stack'[i] = stack[i]
    BY <1>8, <2>1, StopStreamingEffect
  <2>3. UNCHANGED <<camera, video, drift, thread>> /\ ~thread
    BY <1>8, StackStates DEF StopStreaming, DeviceInv
  <2> QED
    BY <2>2, <2>3, ParamsInvKept
<1>9. CASE StopFinishes
  <2>1. Shrinks
    BY <1>9, TopIsLast, ReturnShrinks DEF StopFinishes, Waiting
  <2>2. UNCHANGED <<camera, video, drift, thread>> /\ ~thread
    BY <1>9, StackStates DEF StopFinishes, DeviceInv
  <2> QED
    BY <2>1, <2>2, StartsKept, ParamsInvKept
<1>10. CASE FormatHandling
  <2>1. UNCHANGED <<stack, thread, camera, params>> /\ Drifts /\ (busy => video' = video)
    BY <1>10, FormatEffect DEF FormatKeeps
  <2>2. thread => busy
    BY DEF DeviceInv
  <2> QED
    BY <2>1, <2>2, StartsKept, ParamsInvKept
<1>11. CASE UNCHANGED sessionVars
  BY <1>11 DEF sessionVars, ParamsInv
<1> QED
  BY <1>1, <1>2, <1>3, <1>4, <1>5, <1>6, <1>7, <1>8, <1>9, <1>10, <1>11
     DEF SessionNext, FormatHandling

(* While the frame thread runs, the frame observer describes the frames as *)
(* the device delivers them, unless the format changed in the event loop   *)
(* of StartStreaming: for any depth of nesting, opens inside opens too.    *)
THEOREM StreamMatchesItsDevice == SessionSpec => []StreamDescribesDevice
<1> DEFINE Inv == SessionTypes /\ StackInv /\ DeviceInv /\ ParamsInv
<1>1. SessionInit => Inv
  BY SessionTypesInit, StackInvInit, DeviceInvInit, ParamsInvInit
<1>2. Inv /\ [SessionNext]_sessionVars => Inv'
  BY SessionTypesStep, StackInvStep, DeviceInvStep, ParamsInvStep
<1>3. Inv => StreamDescribesDevice
  BY DEF ParamsInv, StreamDescribesDevice
<1> QED
  BY <1>1, <1>2, <1>3, PTL DEF SessionSpec

-----------------------------------------------------------------------------
(* What the window shows. *)

(* Whatever waits, the window shows the format of the open camera, or a    *)
(* crop handler has not read it back.                                      *)
ShownInv == camera # NoCamera => shown = video[camera] \/ cropMoved

LEMMA ShownInvInit == SessionInit => ShownInv
BY DEF SessionInit, FormatsInit, ShownInv

LEMMA ShownInvStep ==
  SessionTypes /\ ShownInv /\ [SessionNext]_sessionVars => ShownInv'
<1> SUFFICES ASSUME SessionTypes, ShownInv, [SessionNext]_sessionVars PROVE ShownInv'
  OBVIOUS
<1> USE DEF ShownInv, formatVars
<1>1. CASE ToggleBegins
  BY <1>1 DEF ToggleBegins
<1>2. ASSUME NEW c \in Cameras, ToggleOpens(c) PROVE ShownInv'
  BY <1>2 DEF ToggleOpens
<1>3. CASE OpenFails \/ ToggleCloses \/ ToggleCloseEnds \/ ToggleStops
  BY <1>3 DEF OpenFails, ToggleCloses, ToggleCloseEnds, ToggleStops, Closes
<1>4. CASE StartBegins \/ StartSucceeds \/ StartFails
  BY <1>4 DEF StartBegins, StartSucceeds, StartFails
<1>5. CASE StopBegins \/ StopStreaming \/ StopFinishes
  BY <1>5 DEF StopBegins, StopStreaming, StopFinishes, widgets
<1>6. CASE FormatHandling
  BY <1>6, FormatEffect DEF FormatKeeps
<1>7. CASE UNCHANGED sessionVars
  BY <1>7 DEF sessionVars
<1> QED
  BY <1>1, <1>2, <1>3, <1>4, <1>5, <1>6, <1>7 DEF SessionNext, FormatHandling

(* At rest the window shows the format of the open camera, except after a  *)
(* crop handler that does not read it back.                                *)
THEOREM WindowShowsTheFormat == SessionSpec => []ShownCurrent
<1> DEFINE Inv == SessionTypes /\ ShownInv
<1>1. SessionInit => Inv
  BY SessionTypesInit, ShownInvInit
<1>2. Inv /\ [SessionNext]_sessionVars => Inv'
  BY SessionTypesStep, ShownInvStep
<1>3. Inv => ShownCurrent
  BY DEF ShownInv, ShownCurrent
<1> QED
  BY <1>1, <1>2, <1>3, PTL DEF SessionSpec

-----------------------------------------------------------------------------
(* The flags of the window. *)

OneOpening ==
  \A i, j \in 1 .. Len(stack) : stack[i].at \in Opening /\ stack[j].at \in Opening => i = j

(* The inductive strengthening of IdleConsistent: what the flags say at    *)
(* every moment, whatever waits.  A close that stops the stream has        *)
(* cleared m_bIsOpen before anything else, and what waits above an open or *)
(* a close that has not stopped the stream found the camera open.          *)
WindowInv ==
  /\ OneOpening
  /\ openEnabled <=> ~OnStack("toggle") /\ ~OnStack("closing")
  /\ OnStack("toggle") /\ Innermost # "toggle" => isOpen
  /\ ~OnStack("closing") =>
       /\ isOpen <=> camera # NoCamera
       /\ listBlocked = isOpen /\ frameEnabled = isOpen
       /\ streamState # "Starting" => startEnabled = (isOpen /\ ~isStreaming)
  /\ OnStack("closing") => ~isOpen /\ (streamState = "Stopping" => listBlocked)
  /\ streamState = "Streaming" => isOpen /\ isStreaming /\ thread /\ streamOn /\ buffers /\ busy
  /\ streamState \in {"Stopped", "Starting"} => ~isStreaming /\ ~streamOn /\ ~buffers /\ ~busy
  /\ OnStack("off") => ~streamOn

LEMMA WindowInvInit == SessionInit => WindowInv
<1> SUFFICES ASSUME SessionInit PROVE WindowInv
  OBVIOUS
<1>1. stack = <<>> /\ Len(stack) = 0 /\ DOMAIN stack = {}
  BY DEF SessionInit
<1>2. OneOpening /\ \A a \in Waiting : ~OnStack(a)
  BY <1>1 DEF OneOpening, OnStack
<1>3. ~OnStack("toggle") /\ ~OnStack("closing") /\ ~OnStack("off")
  BY <1>2 DEF Waiting
<1> QED
  BY <1>2, <1>3 DEF SessionInit, FormatsInit, WindowInv

(* Opens and closes stay one at a time ...                                 *)
LEMMA OneOpeningGrows ==
  ASSUME SessionTypes, OneOpening, NEW h, Grows(h),
         h.at \in Opening => ~OnStack("toggle") /\ ~OnStack("closing")
  PROVE  OneOpening'
<1>1. \A i \in 1 .. Len(stack') : i \in 1 .. Len(stack) \/ i = Len(stack) + 1
  BY StackDomain DEF Grows
<1>2. h.at \in Opening => \A i \in 1 .. Len(stack) : stack[i].at \notin Opening
  BY StackDomain DEF OnStack, Opening
<1> QED
  BY <1>1, <1>2 DEF OneOpening, Grows

LEMMA OneOpeningShrinks ==
  ASSUME SessionTypes, OneOpening, Shrinks
  PROVE  OneOpening'
<1>1. \A i \in 1 .. Len(stack') : i \in 1 .. Len(stack) /\ stack'[i] = stack[i]
  BY DEF Shrinks
<1> QED
  BY <1>1 DEF OneOpening

(* ... and after the one that returns there is none.                       *)
LEMMA OpeningReturns ==
  ASSUME SessionTypes, OneOpening, Shrinks, stack[Len(stack)].at \in Opening
  PROVE  ~OnStack("toggle")' /\ ~OnStack("closing")'
<1>1. DOMAIN stack' = 1 .. Len(stack')
  BY LenProperties DEF Shrinks
<1>2. \A i \in 1 .. Len(stack') : i \in 1 .. Len(stack) /\ i # Len(stack) /\ stack'[i] = stack[i]
  BY DEF Shrinks
<1>3. Len(stack) \in 1 .. Len(stack)
  BY DEF Shrinks
<1>4. \A i \in 1 .. Len(stack') : stack'[i].at \notin Opening
  BY <1>2, <1>3 DEF OneOpening
<1> QED
  BY <1>1, <1>4 DEF OnStack, Opening

(* A close waits for its StopStreaming.                                    *)
LEMMA ClosingWaits ==
  ASSUME SessionTypes, StackInv, OnStack("closing"), Innermost # "closing"
  PROVE  streamState = "Stopping"
<1>1. PICK i \in 1 .. Len(stack) : stack[i].at = "closing"
  BY StackDomain DEF OnStack
<1>2. i # Len(stack)
  BY <1>1, StackDomain, EmptySeq DEF Innermost, Seqs!Last, SessionTypes
<1>3. i + 1 \in 1 .. Len(stack)
  BY <1>1, <1>2, StackDomain, NextPosition
<1> QED
  BY <1>1, <1>2, <1>3 DEF StackInv

LEMMA WindowInvStep ==
  ASSUME SessionTypes, StackInv, DeviceInv, WindowInv, [SessionNext]_sessionVars, ~doubleOpen'
  PROVE  WindowInv'
<1> USE DEF formatVars, widgets, streamVars
<1>0. NoParameters \in Format \cup {NoParameters}
  OBVIOUS
<1>1. CASE ToggleBegins
  <2> DEFINE h == [at |-> "toggle", arg |-> NoParameters]
  <2>1. Grows(h) /\ h.at = "toggle"
    BY <1>0, <1>1, PushGrows DEF ToggleBegins, Waiting
  <2>2. ~OnStack("toggle")
    BY <1>1 DEF ToggleBegins
  <2>3. ~OnStack("closing")
    BY <1>1, ClosingWaits DEF ToggleBegins, EventLoop, WindowInv
  <2> HIDE DEF h
  <2>4. OneOpening'
    BY <2>1, <2>2, <2>3, OneOpeningGrows DEF WindowInv
  <2>5. OnStack("toggle")' /\ ~OnStack("closing")' /\ (OnStack("off")' => OnStack("off"))
    BY <2>1, <2>3, OnStackGrows
  <2>6. Innermost' = "toggle"
    <3>1. stack' # <<>> /\ stack'[Len(stack')].at = "toggle"
      BY <2>1, StackDomain, EmptySeq DEF Grows
    <3> QED
      BY <3>1 DEF Innermost, Seqs!Last
  <2>7. UNCHANGED <<isOpen, isStreaming, streamState, startEnabled, listBlocked, frameEnabled, thread>>
    BY <1>1 DEF ToggleBegins
  <2>8. ~openEnabled'
    BY <1>1 DEF ToggleBegins
  <2>9. IF isOpen THEN UNCHANGED <<camera, busy, buffers, streamOn>>
        ELSE camera' = NoCamera /\ ~busy' /\ ~buffers' /\ ~streamOn'
    BY <1>1 DEF ToggleBegins
  <2> QED
    BY <2>3, <2>4, <2>5, <2>6, <2>7, <2>8, <2>9 DEF WindowInv
<1>2. ASSUME NEW c \in Cameras, ToggleOpens(c) PROVE WindowInv'
  <2>1. Shrinks /\ stack[Len(stack)].at = "toggle" /\ Innermost = "toggle"
    BY <1>2, TopIsLast, ReturnShrinks DEF ToggleOpens, Waiting, Top
  <2>2. OneOpening' /\ ~OnStack("toggle")' /\ ~OnStack("closing")'
    BY <2>1, OneOpeningShrinks, OpeningReturns DEF WindowInv, Opening
  <2>3. OnStack("off")' => OnStack("off")
    BY <2>1, OnStackShrinks
  <2>4. /\ ~isOpen /\ camera' = c /\ ~buffers' /\ isOpen' /\ frameEnabled' /\ openEnabled'
        /\ isStreaming' = isStreaming /\ startEnabled' = ~isStreaming /\ listBlocked'
        /\ UNCHANGED <<busy, streamState, thread, streamOn>>
    BY <1>2 DEF ToggleOpens, UpdateViewerLayout, SessionTypes
  <2>5. isOpen' = TRUE /\ frameEnabled' = TRUE /\ listBlocked' = TRUE
    BY <1>2 DEF ToggleOpens, UpdateViewerLayout
  <2>6. camera' # NoCamera
    BY <2>4, NoCameraAssumption
  <2> QED
    BY <2>2, <2>3, <2>4, <2>5, <2>6 DEF WindowInv
<1>3. CASE OpenFails
  <2>1. Shrinks /\ stack[Len(stack)].at = "toggle"
    BY <1>3, TopIsLast, ReturnShrinks DEF OpenFails, Waiting
  <2>2. OneOpening' /\ ~OnStack("toggle")' /\ ~OnStack("closing")'
    BY <2>1, OneOpeningShrinks, OpeningReturns DEF WindowInv, Opening
  <2>3. OnStack("off")' => OnStack("off")
    BY <2>1, OnStackShrinks
  <2>4. ~OnStack("closing")
    BY <2>1, <2>2, OnStackShrinks
  <2>5. /\ ~isOpen /\ ~buffers' /\ openEnabled'
        /\ isStreaming' = FALSE /\ startEnabled' = FALSE /\ listBlocked' = FALSE
        /\ UNCHANGED <<camera, busy, isOpen, streamState, frameEnabled, thread, streamOn>>
    BY <1>3 DEF OpenFails, UpdateViewerLayout
  <2>6. isOpen = FALSE
    BY <2>5 DEF SessionTypes
  <2> QED
    BY <2>2, <2>3, <2>4, <2>5, <2>6 DEF WindowInv
<1>4. CASE ToggleCloses \/ ToggleCloseEnds
  <2>1. Return /\ (Top("toggle") \/ Top("closing"))
    BY <1>4 DEF ToggleCloses, ToggleCloseEnds, Closes
  <2>2. Shrinks /\ stack[Len(stack)].at \in Opening
    BY <2>1, TopIsLast, ReturnShrinks DEF Waiting, Opening
  <2>3. OneOpening' /\ ~OnStack("toggle")' /\ ~OnStack("closing")'
    BY <2>2, OneOpeningShrinks, OpeningReturns DEF WindowInv
  <2>4. OnStack("off")' => OnStack("off")
    BY <2>2, OnStackShrinks DEF Opening
  <2>5. Closes(FALSE)
    <3>1. CASE ToggleCloseEnds
      <4>1. OnStack("closing")
        BY <3>1, TopIsLast, StackDomain DEF ToggleCloseEnds, OnStack, Waiting
      <4>2. isOpen = FALSE
        BY <4>1 DEF WindowInv, SessionTypes
      <4> QED
        BY <3>1, <4>2 DEF ToggleCloseEnds
    <3> QED
      BY <1>4, <3>1 DEF ToggleCloses
  <2>6. streamState # "Streaming"
    BY <1>4, StackStates DEF ToggleCloses, ToggleCloseEnds, StopsAtOnce, WindowInv
  <2>7. /\ camera' = NoCamera /\ ~busy' /\ ~streamOn' /\ openEnabled'
        /\ isOpen' = FALSE /\ frameEnabled' = FALSE /\ listBlocked' = FALSE
        /\ isStreaming' = FALSE /\ startEnabled' = FALSE
        /\ UNCHANGED <<streamState, buffers, thread>>
    BY <2>5 DEF Closes, UpdateViewerLayout
  <2> QED
    BY <2>3, <2>4, <2>6, <2>7 DEF WindowInv
<1>5. CASE ToggleStops
  <2>1. \A i \in 1 .. Len(stack) + 1 :
          \/ i \in 1 .. Len(stack) - 1 /\ i \in 1 .. Len(stack)
          \/ i = Len(stack) \/ i = Len(stack) + 1
    BY StackDomain, NewPosition
  <2>2. Len(stack) \in 1 .. Len(stack) /\ \A i \in 1 .. Len(stack) - 1 : i # Len(stack)
    BY <1>5, ToggleStopsEffect
  <2>3. \A i \in 1 .. Len(stack) - 1 : stack'[i].at \notin Opening
    BY <1>5, <2>1, <2>2, ToggleStopsEffect DEF WindowInv, OneOpening, Opening
  <2>4. OneOpening'
    BY <1>5, <2>1, <2>3, ToggleStopsEffect DEF OneOpening, Opening
  <2>5. OnStack("closing")' /\ ~OnStack("toggle")'
    BY <1>5, <2>1, <2>3, ToggleStopsEffect DEF OnStack, Opening
  <2>6. OnStack("off")' => OnStack("off")
    BY <1>5, <2>1, ToggleStopsEffect, StackDomain DEF OnStack
  <2>7. OnStack("toggle") /\ ~OnStack("closing") /\ isOpen
    <3>1. OnStack("toggle")
      BY <1>5, <2>2, ToggleStopsEffect, StackDomain DEF OnStack
    <3> QED
      BY <1>5, <3>1 DEF ToggleStops, WindowInv
  <2>8. /\ isOpen' = FALSE /\ streamState' = "Stopping"
        /\ UNCHANGED <<openEnabled, listBlocked, streamOn>>
    BY <1>5 DEF ToggleStops, StopEffects
  <2> QED
    BY <2>4, <2>5, <2>6, <2>7, <2>8 DEF WindowInv
<1>6. CASE StartBegins
  <2> DEFINE h == [at |-> "start", arg |-> ReadsFormat]
  <2>1. ReadsFormat \in Format
    BY <1>6 DEF StartBegins, ReadsFormat, SessionTypes
  <2>2. Grows(h) /\ h.at = "start"
    BY <1>6, <2>1, PushGrows DEF StartBegins, Waiting
  <2> HIDE DEF h
  <2>3. OneOpening'
    BY <2>2, OneOpeningGrows DEF WindowInv, Opening
  <2>4. \A a \in {"toggle", "closing", "off"} : OnStack(a)' <=> OnStack(a)
    BY <2>2, OnStackGrows
  <2>5. /\ streamState = "Stopped" /\ Innermost # "closing" /\ camera # NoCamera
        /\ streamState' = "Starting"
        /\ UNCHANGED <<camera, busy, isOpen, isStreaming, openEnabled, listBlocked, frameEnabled>>
        /\ UNCHANGED <<buffers, thread, streamOn>>
    BY <1>6 DEF StartBegins, MayStart, EventLoop
  <2>6. ~OnStack("closing") /\ isOpen
    BY <2>5, ClosingWaits DEF WindowInv
  <2> QED
    BY <2>3, <2>4, <2>5, <2>6 DEF WindowInv
<1>7. CASE StartSucceeds
  <2>1. /\ Return /\ Top("start") /\ Innermost = "start"
        /\ camera # NoCamera /\ busy' /\ buffers' /\ streamOn' /\ thread'
        /\ streamState' = "Streaming"
        /\ UpdateViewerLayout(isOpen, TRUE)
        /\ UNCHANGED <<camera, isOpen, openEnabled, frameEnabled>>
    BY <1>7 DEF StartSucceeds, Top
  <2>2. Shrinks /\ stack[Len(stack)].at = "start"
    BY <2>1, TopIsLast, ReturnShrinks DEF Waiting
  <2>3. OneOpening'
    BY <2>2, OneOpeningShrinks DEF WindowInv
  <2>4. \A a \in {"toggle", "closing", "off"} : OnStack(a)' <=> OnStack(a)
    BY <2>2, OnStackShrinks
  <2>5. ~OnStack("closing") /\ streamState = "Starting"
    BY <2>1, StackStates
  <2>6. ~OnStack("off")
    BY <2>5, StackDomain DEF StackInv, OnStack, Stopping
  <2>7. isOpen = TRUE
    BY <2>1, <2>5 DEF WindowInv, SessionTypes
  <2>8. isStreaming' = TRUE /\ startEnabled' = FALSE /\ listBlocked' = TRUE
    BY <2>1, <2>7 DEF UpdateViewerLayout
  <2> QED
    BY <2>1, <2>3, <2>4, <2>5, <2>6, <2>7, <2>8 DEF WindowInv
<1>8. CASE StartFails
  <2>1. /\ Return /\ Top("start") /\ Innermost = "start"
        /\ streamState' = "Stopped"
        /\ UpdateViewerLayout(isOpen, isStreaming)
        /\ UNCHANGED <<camera, busy, isOpen, openEnabled, frameEnabled, buffers, thread, streamOn>>
    BY <1>8 DEF StartFails, Top
  <2>2. Shrinks /\ stack[Len(stack)].at = "start"
    BY <2>1, TopIsLast, ReturnShrinks DEF Waiting
  <2>3. OneOpening'
    BY <2>2, OneOpeningShrinks DEF WindowInv
  <2>4. \A a \in {"toggle", "closing", "off"} : OnStack(a)' <=> OnStack(a)
    BY <2>2, OnStackShrinks
  <2>5. ~OnStack("closing") /\ streamState = "Starting"
    BY <2>1, StackStates
  <2>6. isStreaming = FALSE
    BY <2>5 DEF WindowInv, SessionTypes
  <2>7. isStreaming' = FALSE /\ startEnabled' = (isOpen /\ ~isStreaming') /\ listBlocked' = isOpen
    BY <2>1, <2>6 DEF UpdateViewerLayout
  <2> QED
    BY <2>1, <2>3, <2>4, <2>5, <2>6, <2>7 DEF WindowInv
<1>9. CASE StopBegins
  <2> DEFINE h == [at |-> "drain", arg |-> NoParameters]
  <2>1. Grows(h) /\ h.at = "drain"
    BY <1>0, <1>9, PushGrows DEF StopBegins, Waiting
  <2> HIDE DEF h
  <2>2. OneOpening'
    BY <2>1, OneOpeningGrows DEF WindowInv, Opening
  <2>3. \A a \in {"toggle", "closing", "off"} : OnStack(a)' <=> OnStack(a)
    BY <2>1, OnStackGrows
  <2>4. /\ streamState = "Streaming" /\ streamState' = "Stopping"
        /\ UNCHANGED <<camera, busy, isOpen, isStreaming, openEnabled, startEnabled, listBlocked>>
        /\ UNCHANGED <<frameEnabled, buffers, streamOn>>
    BY <1>9 DEF StopBegins, StopEffects
  <2>5. isOpen /\ ~OnStack("closing")
    BY <2>4 DEF WindowInv
  <2> QED
    BY <2>2, <2>3, <2>4, <2>5 DEF WindowInv
<1>10. CASE StopStreaming
  <2>1. \A i \in 1 .. Len(stack) : i = Len(stack) \/ i \in 1 .. Len(stack) - 1
    BY StackDomain, LastPosition
  <2>2. \A i \in 1 .. Len(stack) :
          /\ stack'[i].at = "toggle" <=> stack[i].at = "toggle"
          /\ stack'[i].at = "closing" <=> stack[i].at = "closing"
    BY <1>10, <2>1, StopStreamingEffect
  <2>3. /\ OnStack("toggle")' <=> OnStack("toggle")
        /\ OnStack("closing")' <=> OnStack("closing")
    BY <1>10, <2>2, StopStreamingEffect, StackDomain DEF OnStack
  <2>4. OneOpening'
    BY <1>10, <2>2, StopStreamingEffect DEF WindowInv, OneOpening, Opening
  <2>5. Innermost = "drain" /\ streamState = "Stopping"
    BY <1>10, StackStates DEF StopStreaming, Top
  <2>6. /\ ~streamOn'
        /\ UNCHANGED <<camera, isOpen, isStreaming, streamState, openEnabled, startEnabled>>
        /\ UNCHANGED <<listBlocked, frameEnabled>>
    BY <1>10 DEF StopStreaming
  <2> QED
    BY <2>3, <2>4, <2>5, <2>6 DEF WindowInv
<1>11. CASE StopFinishes
  <2>1. /\ Return /\ Top("off") /\ Innermost = "off"
        /\ streamState' = "Stopped" /\ ~buffers' /\ ~busy'
        /\ UpdateViewerLayout(isOpen, FALSE)
        /\ UNCHANGED <<camera, isOpen, openEnabled, frameEnabled, thread, streamOn>>
    BY <1>11 DEF StopFinishes, DeletesBuffers, Top
  <2>2. Shrinks /\ stack[Len(stack)].at = "off"
    BY <2>1, TopIsLast, ReturnShrinks DEF Waiting
  <2>3. OneOpening'
    BY <2>2, OneOpeningShrinks DEF WindowInv
  <2>4. \A a \in {"toggle", "closing"} : OnStack(a)' <=> OnStack(a)
    BY <2>2, OnStackShrinks
  <2>5. ~streamOn
    <3>1. OnStack("off")
      BY <2>2, StackDomain DEF OnStack, Shrinks
    <3> QED
      BY <3>1 DEF WindowInv
  <2>6. isStreaming' = FALSE /\ startEnabled' = (isOpen /\ ~isStreaming') /\ listBlocked' = isOpen
    BY <2>1 DEF UpdateViewerLayout
  <2> QED
    BY <2>1, <2>3, <2>4, <2>5, <2>6 DEF WindowInv
<1>12. CASE FormatHandling
  <2>1. /\ UNCHANGED <<camera, busy, isOpen, isStreaming, streamState, openEnabled, startEnabled>>
        /\ UNCHANGED <<listBlocked, frameEnabled, buffers, thread, streamOn, stack>>
    BY <1>12, FormatEffect DEF FormatKeeps
  <2> QED
    BY <2>1 DEF WindowInv, OneOpening, OnStack, Innermost
<1>13. CASE UNCHANGED sessionVars
  BY <1>13 DEF sessionVars, WindowInv, OneOpening, OnStack, Innermost
<1> QED
  BY <1>1, <1>2, <1>3, <1>4, <1>5, <1>6, <1>7, <1>8, <1>9, <1>10, <1>11, <1>12, <1>13
     DEF SessionNext, FormatHandling

(* Once an open began inside another one the flags are not followed.       *)
LEMMA DoubleOpenStays == [SessionNext]_sessionVars /\ ~doubleOpen' => ~doubleOpen
BY FormatEffect DEF SessionNext, sessionVars, ToggleBegins, ToggleOpens, OpenFails, ToggleCloses,
  ToggleStops, ToggleCloseEnds, Closes, StartBegins, StartSucceeds, StartFails, StopBegins,
  StopStreaming, StopFinishes, OnHeight, OnFrameSizeIndexChanged, OnCropWidth, OnPixelFormatChanged,
  OnCropOffset, FormatKeeps

(* However the handlers were nested, when all have returned the flags of   *)
(* the window, the frame observer and the driver agree, unless an open     *)
(* began inside another one.                                               *)
THEOREM IdleWindowIsConsistent == SessionSpec => []IdleConsistent
<1> DEFINE Inv == SessionTypes /\ StackInv /\ DeviceInv /\ (~doubleOpen => WindowInv)
<1>1. SessionInit => Inv
  BY SessionTypesInit, StackInvInit, DeviceInvInit, WindowInvInit
<1>2. Inv /\ [SessionNext]_sessionVars => Inv'
  BY SessionTypesStep, StackInvStep, DeviceInvStep, WindowInvStep, DoubleOpenStays
<1>3. Inv => IdleConsistent
  <2> SUFFICES ASSUME Inv, AtRest, ~doubleOpen
               PROVE  /\ isOpen <=> camera # NoCamera
                      /\ openEnabled /\ listBlocked = isOpen /\ frameEnabled = isOpen
                      /\ isStreaming <=> streamState = "Streaming"
                      /\ ~isStreaming => streamState = "Stopped"
                      /\ startEnabled <=> isOpen /\ ~isStreaming
                      /\ \A flag \in {thread, streamOn, buffers, busy} : flag = isStreaming
    BY DEF IdleConsistent
  <2>1. Len(stack) = 0 /\ DOMAIN stack = {}
    BY DEF AtRest
  <2>2. streamState \in {"Stopped", "Streaming"}
    BY <2>1 DEF StackInv, SessionTypes, States
  <2>3. \A a \in Waiting : ~OnStack(a)
    BY <2>1 DEF OnStack
  <2>4. ~OnStack("toggle") /\ ~OnStack("closing")
    BY <2>3 DEF Waiting
  <2>5. CASE streamState = "Streaming"
    BY <2>4, <2>5 DEF WindowInv, DeviceInv, SessionTypes
  <2>6. CASE streamState = "Stopped"
    BY <2>4, <2>6 DEF WindowInv, DeviceInv, SessionTypes
  <2> QED
    BY <2>2, <2>5, <2>6
<1> QED
  BY <1>1, <1>2, <1>3, PTL DEF SessionSpec

-----------------------------------------------------------------------------
(* Type correctness of the whole session. *)

(* A set of naturals has a least element, and one with a bound a greatest. *)
LEMMA LeastNatural ==
  ASSUME NEW T \in SUBSET Nat, T # {}
  PROVE  \E x \in T : \A y \in T : x <= y
<1> DEFINE Upto(x) == 1 .. x
           U == {Upto(x) : x \in T}
<1>1. U \subseteq FiniteSubsetsOf(Nat) /\ U # {}
  <2>1. \A x \in Nat : Upto(x) \in SUBSET Nat /\ IsFiniteSet(Upto(x))
    BY FS_Interval
  <2> QED
    BY <2>1 DEF FiniteSubsetsOf
<1>2. PICK u \in U : \A v \in U : ~(<<v, u>> \in StrictSubsetOrdering(Nat))
  <2>1. IsWellFoundedOn(StrictSubsetOrdering(Nat), FiniteSubsetsOf(Nat))
    BY FS_StrictSubsetOrderingWellFounded
  <2> HIDE DEF U
  <2> QED
    BY <1>1, <2>1, WFMin
<1>3. PICK x \in T : u = 1 .. x
  OBVIOUS
<1>4. ASSUME NEW y \in T, y < x PROVE FALSE
  <2>1. x \in Nat /\ y \in Nat /\ 1 .. y \in U
    OBVIOUS
  <2>2. 1 .. y \in SUBSET Nat /\ 1 .. x \in SUBSET Nat /\ 1 .. y \subseteq 1 .. x /\ x \in 1 .. x /\ x \notin 1 .. y
    BY <2>1, <1>4
  <2>3. <<1 .. y, 1 .. x>> \in StrictSubsetOrdering(Nat)
    BY <2>2 DEF StrictSubsetOrdering
  <2> QED
    BY <1>2, <1>3, <2>1, <2>3
<1>5. \A y \in T : x <= y
  BY <1>4
<1> QED
  BY <1>5

LEMMA GreatestNatural ==
  ASSUME NEW m \in Nat, NEW T \in SUBSET (0 .. m), T # {}
  PROVE  \E x \in T : \A y \in T : x >= y
<1> DEFINE U == {n \in Nat : \A y \in T : n >= y}
<1>1. U \in SUBSET Nat /\ m \in U
  OBVIOUS
<1> HIDE DEF U
<1>2. PICK x \in U : \A n \in U : x <= n
  BY <1>1, LeastNatural
<1>3. x \in Nat /\ \A y \in T : x >= y
  BY <1>2 DEF U
<1>4. x \in T
  <2> SUFFICES ASSUME x \notin T PROVE FALSE
    OBVIOUS
  <2>1. \A y \in T : y \in Nat /\ x >= y /\ x # y
    BY <1>3
  <2>2. x - 1 \in Nat /\ \A y \in T : x - 1 >= y
    <3>1. PICK z \in T : TRUE
      OBVIOUS
    <3>2. x > z /\ z \in Nat /\ x \in Nat
      BY <1>3, <2>1, <3>1
    <3>3. x - 1 \in Nat
      BY <3>2
    <3>4. ASSUME NEW y \in T PROVE x - 1 >= y
      <4>1. y \in Nat /\ x >= y /\ x # y
        BY <2>1
      <4> QED
        BY <1>3, <4>1
    <3> QED
      BY <3>3, <3>4
  <2>3. x - 1 \in U
    BY <2>2 DEF U
  <2> QED
    BY <1>2, <1>3, <2>3
<1> QED
  BY <1>3, <1>4

(* What a probe remembers is a descriptor of the camera.                   *)
LEMMA ProbedDescriptors ==
  ASSUME SessionTypes, NEW c \in Cameras, sizeFd \in FdOrUnset, cropFd \in FdOrUnset,
         PrepareFrameSize(c), PrepareCrop(c)
  PROVE  sizeFd' \in FdOrUnset /\ cropFd' \in FdOrUnset
<1>1. MaxSubs \in Nat /\ NumSubs[c] \in 0 .. MaxSubs
  BY SubsAssumption
<1>2. SizeFds[c] \subseteq 0 .. MaxSubs /\ CropFds[c] \subseteq 0 .. MaxSubs
  <2>1. {Video} \cup Subs(c) \subseteq 0 .. MaxSubs
    BY <1>1 DEF Video, Subs
  <2> QED
    BY <2>1, SubsAssumption
<1>3. 0 .. MaxSubs \subseteq FdOrUnset
  BY <1>1 DEF FdOrUnset, Video, SubFds
<1>4. SizeFds[c] # {} => Sets!Min(SizeFds[c]) \in SizeFds[c]
  <2> SUFFICES ASSUME SizeFds[c] # {} PROVE Sets!Min(SizeFds[c]) \in SizeFds[c]
    OBVIOUS
  <2>1. SizeFds[c] \in SUBSET Nat
    BY <1>1, <1>2
  <2>2. \E x \in SizeFds[c] : \A y \in SizeFds[c] : x <= y
    BY <2>1, LeastNatural
  <2> QED
    BY <2>2 DEF Sets!Min
<1>5. CropFds[c] # {} => Sets!Max(CropFds[c]) \in CropFds[c]
  <2> SUFFICES ASSUME CropFds[c] # {} PROVE Sets!Max(CropFds[c]) \in CropFds[c]
    OBVIOUS
  <2>1. \E x \in CropFds[c] : \A y \in CropFds[c] : x >= y
    BY <1>1, <1>2, GreatestNatural
  <2> QED
    BY <2>1 DEF Sets!Max
<1>6. sizeFd' \in FdOrUnset
  BY <1>2, <1>3, <1>4 DEF PrepareFrameSize, FdOrUnset, Video
<1>7. cropFd' \in FdOrUnset
  BY <1>2, <1>3, <1>5 DEF PrepareCrop, FdOrUnset, Video
<1> QED
  BY <1>6, <1>7

(* The descriptors of the probes, the formats that are shown and streamed, *)
(* and the flags the properties do not need.                               *)
OtherTypes ==
  /\ sizeFd \in FdOrUnset /\ cropFd \in FdOrUnset
  /\ shown \in Format \cup {NoParameters} /\ params \in Format \cup {NoParameters}
  /\ formatEnabled \in BOOLEAN /\ sizesEnabled \in BOOLEAN
  /\ drift \in BOOLEAN /\ cropMoved \in BOOLEAN /\ doubleOpen \in BOOLEAN /\ dangling \in BOOLEAN

LEMMA OtherTypesInit == SessionInit => OtherTypes
BY DEF SessionInit, FormatsInit, OtherTypes, FdOrUnset

(* What a format handler reads back.                                       *)
LEMMA FormatHandlingTypes ==
  ASSUME SessionTypes, OtherTypes, FormatHandling
  PROVE  /\ sizeFd' \in FdOrUnset /\ cropFd' \in FdOrUnset
         /\ shown' \in Format \cup {NoParameters}
         /\ formatEnabled' \in BOOLEAN /\ sizesEnabled' \in BOOLEAN /\ cropMoved' \in BOOLEAN
<1>1. camera \in Cameras /\ video'[camera] \in Format
  BY FormatEffect DEF SessionTypes
<1>2. ASSUME GetImageInformation
      PROVE  /\ sizeFd' \in FdOrUnset /\ cropFd' \in FdOrUnset
             /\ shown' \in Format \cup {NoParameters}
             /\ formatEnabled' \in BOOLEAN /\ sizesEnabled' \in BOOLEAN /\ cropMoved' \in BOOLEAN
  <2>1. sizeFd' \in FdOrUnset /\ cropFd' \in FdOrUnset
    BY <1>1, <1>2, ProbedDescriptors DEF GetImageInformation, OtherTypes
  <2>2. shown' \in Format \cup {NoParameters} /\ sizesEnabled' \in BOOLEAN /\ cropMoved' \in BOOLEAN
    BY <1>1, <1>2 DEF GetImageInformation, UpdateCameraFormat
  <2>3. formatEnabled' \in BOOLEAN
    BY <1>2 DEF GetImageInformation, OtherTypes
  <2> QED
    BY <2>1, <2>2, <2>3
<1>3. CASE OnHeight
  BY <1>1, <1>3 DEF OnHeight, UpdateCameraFormat, OtherTypes
<1>4. ASSUME NEW reads \in BOOLEAN, OnCropOffset(reads)
      PROVE  /\ sizeFd' \in FdOrUnset /\ cropFd' \in FdOrUnset
             /\ shown' \in Format \cup {NoParameters}
             /\ formatEnabled' \in BOOLEAN /\ sizesEnabled' \in BOOLEAN /\ cropMoved' \in BOOLEAN
  <2>1. UNCHANGED <<sizeFd, cropFd, formatEnabled>>
    BY <1>4 DEF OnCropOffset
  <2>2. shown' \in Format \cup {NoParameters} /\ sizesEnabled' \in BOOLEAN /\ cropMoved' \in BOOLEAN
    BY <1>1, <1>4 DEF OnCropOffset, UpdateCameraFormat, OtherTypes
  <2> QED
    BY <2>1, <2>2 DEF OtherTypes
<1> QED
  BY <1>2, <1>3, <1>4
     DEF FormatHandling, OnFrameSizeIndexChanged, OnCropWidth, OnPixelFormatChanged

LEMMA OtherTypesStep == SessionTypes /\ OtherTypes /\ [SessionNext]_sessionVars => OtherTypes'
<1> SUFFICES ASSUME SessionTypes, OtherTypes, [SessionNext]_sessionVars PROVE OtherTypes'
  OBVIOUS
<1> USE DEF formatVars, widgets, streamVars
<1>1. CASE ToggleBegins
  BY <1>1 DEF ToggleBegins, Drifts, OtherTypes
<1>2. ASSUME NEW c \in Cameras, ToggleOpens(c) PROVE OtherTypes'
  <2>1. sizeFd' \in FdOrUnset /\ cropFd' \in FdOrUnset
    BY <1>2, ProbedDescriptors DEF ToggleOpens, OtherTypes
  <2>2. shown' \in Format
    BY <1>2 DEF ToggleOpens, SessionTypes
  <2> QED
    BY <1>2, <2>1, <2>2 DEF ToggleOpens, Drifts, OnStack, OtherTypes
<1>3. CASE OpenFails
  BY <1>3 DEF OpenFails, OnStack, OtherTypes
<1>4. CASE ToggleCloses \/ ToggleCloseEnds
  BY <1>4 DEF ToggleCloses, ToggleCloseEnds, Closes, Drifts, OtherTypes
<1>5. CASE ToggleStops
  BY <1>5 DEF ToggleStops, StopEffects, OtherTypes
<1>6. CASE StartBegins
  BY <1>6 DEF StartBegins, OtherTypes
<1>7. CASE StartSucceeds
  <2>1. params' \in Format \cup {NoParameters}
    <3>1. Seqs!Last(stack).arg \in Format \cup {NoParameters}
      BY <1>7, TopIsLast DEF StartSucceeds, Seqs!Last, Waiting, Handler
    <3> QED
      BY <1>7, <3>1 DEF StartSucceeds
  <2> QED
    BY <1>7, <2>1 DEF StartSucceeds, OtherTypes
<1>8. CASE StartFails
  BY <1>8 DEF StartFails, OtherTypes
<1>9. CASE StopBegins
  BY <1>9 DEF StopBegins, StopEffects, OtherTypes
<1>10. CASE StopStreaming \/ StopFinishes
  BY <1>10 DEF StopStreaming, StopFinishes, OtherTypes
<1>11. CASE FormatHandling
  <2>1. FormatKeeps /\ Drifts
    BY <1>11, FormatEffect
  <2> QED
    BY <1>11, <2>1, FormatHandlingTypes DEF FormatKeeps, Drifts, OtherTypes
<1>12. CASE UNCHANGED sessionVars
  BY <1>12 DEF sessionVars, OtherTypes
<1> QED
  BY <1>1, <1>2, <1>3, <1>4, <1>5, <1>6, <1>7, <1>8, <1>9, <1>10, <1>11, <1>12
     DEF SessionNext, FormatHandling

(* Only a StopStreaming begun by a close exceeds the depth of the nesting. *)
DepthInv ==
  /\ Len(stack) <= MaxDepth + 1
  /\ \A i \in 1 .. Len(stack) : i > MaxDepth => stack[i].at \in Stopping

LEMMA DepthInvInit == SessionInit => DepthInv
BY DepthAssumption DEF SessionInit, DepthInv

LEMMA DepthInvStep ==
  SessionTypes /\ DepthInv /\ [SessionNext]_sessionVars => DepthInv'
<1> SUFFICES ASSUME SessionTypes, DepthInv, [SessionNext]_sessionVars PROVE DepthInv'
  OBVIOUS
<1>a. Len(stack) \in Nat /\ MaxDepth \in Nat
  BY StackDomain, DepthAssumption
<1>b. NoParameters \in Format \cup {NoParameters}
  OBVIOUS
<1>1. CASE ToggleBegins \/ StartBegins \/ StopBegins
  <2>1. Len(stack) < MaxDepth /\ \E h \in Handler : Grows(h)
    <3>1. ASSUME NEW a \in Waiting, NEW f \in Format \cup {NoParameters}, Push(a, f)
          PROVE  \E h \in Handler : Grows(h)
      <4>1. [at |-> a, arg |-> f] \in Handler
        BY DEF Handler
      <4> QED
        BY <3>1, <4>1, PushGrows
    <3>2. StartBegins => ReadsFormat \in Format
      BY DEF StartBegins, ReadsFormat, SessionTypes
    <3> QED
      BY <1>1, <1>b, <3>1, <3>2 DEF ToggleBegins, StartBegins, StopBegins, Waiting
  <2>2. Len(stack') <= MaxDepth
    BY <1>a, <2>1 DEF Grows
  <2>3. Len(stack') \in Nat
    BY <1>a, <2>1 DEF Grows
  <2> QED
    BY <1>a, <2>2, <2>3 DEF DepthInv
<1>2. ASSUME Shrinks PROVE DepthInv'
  <2>1. \A i \in 1 .. Len(stack') : i \in 1 .. Len(stack) /\ stack'[i] = stack[i]
    BY <1>2 DEF Shrinks
  <2>2. Len(stack') <= MaxDepth + 1
    BY <1>2, <1>a DEF Shrinks, DepthInv
  <2> QED
    BY <2>1, <2>2 DEF DepthInv
<1>3. CASE (\E c \in Cameras : ToggleOpens(c)) \/ OpenFails \/ ToggleCloses \/ ToggleCloseEnds
           \/ StartSucceeds \/ StartFails \/ StopFinishes
  <2>1. Return /\ stack # <<>>
    BY <1>3, TopIsLast DEF ToggleOpens, OpenFails, ToggleCloses, ToggleCloseEnds, Closes,
         StartSucceeds, StartFails, StopFinishes, Waiting
  <2> QED
    BY <1>2, <2>1, ReturnShrinks
<1>4. CASE ToggleStops
  <2>1. Len(stack) \in 1 .. Len(stack) /\ stack[Len(stack)].at \notin Stopping
    BY <1>4, ToggleStopsEffect DEF Stopping
  <2>2. Len(stack) <= MaxDepth
    BY <1>a, <2>1 DEF DepthInv
  <2>3. \A i \in 1 .. Len(stack') : i > MaxDepth => i = Len(stack) + 1
    BY <1>4, <1>a, <2>2, ToggleStopsEffect
  <2> QED
    BY <1>4, <1>a, <2>2, <2>3, ToggleStopsEffect DEF DepthInv, Stopping
<1>5. CASE StopStreaming
  <2>1. \A i \in 1 .. Len(stack) : i = Len(stack) \/ i \in 1 .. Len(stack) - 1
    BY <1>a, LastPosition
  <2>2. \A i \in 1 .. Len(stack) : stack[i].at \in Stopping => stack'[i].at \in Stopping
    BY <1>5, <2>1, StopStreamingEffect DEF Stopping
  <2> QED
    BY <1>5, <2>2, StopStreamingEffect DEF DepthInv
<1>6. CASE FormatHandling
  BY <1>6, FormatEffect DEF FormatKeeps, DepthInv
<1>7. CASE UNCHANGED sessionVars
  BY <1>7 DEF sessionVars, DepthInv
<1> QED
  BY <1>1, <1>3, <1>4, <1>5, <1>6, <1>7 DEF SessionNext, FormatHandling

SessionTypeInv == SessionTypes /\ OtherTypes /\ DepthInv

LEMMA SessionTypesCorrect == SessionTypeInv => SessionTypeOK
<1> SUFFICES ASSUME SessionTypes, OtherTypes, DepthInv PROVE SessionTypeOK
  BY DEF SessionTypeInv
<1>1. FormatsTypeOK
  BY DEF SessionTypes, OtherTypes, FormatsTypeOK
<1>2. {isOpen, isStreaming, openEnabled, startEnabled, listBlocked, frameEnabled, formatEnabled,
       sizesEnabled, buffers, thread, streamOn, drift, cropMoved, doubleOpen, dangling}
        \subseteq BOOLEAN
  BY DEF SessionTypes, OtherTypes
<1>3. \A i \in DOMAIN stack : stack[i] \in Handler
  BY ElementOfSeq, StackDomain DEF SessionTypes
<1>4. \A i \in DOMAIN stack :
        /\ stack[i].at \in {"toggle", "closing", "start", "drain", "off"}
        /\ stack[i].arg \in Format \cup {NoParameters}
  BY <1>3 DEF Handler, Waiting
<1>5. streamState \in {"Stopped", "Starting", "Streaming", "Stopping"}
  BY DEF SessionTypes, States
<1> QED
  BY <1>1, <1>2, <1>4, <1>5 DEF OtherTypes, DepthInv, SessionTypeOK

LEMMA SessionTypeInvInit == SessionInit => SessionTypeInv
BY SessionTypesInit, OtherTypesInit, DepthInvInit DEF SessionTypeInv

LEMMA SessionTypeInvStep == SessionTypeInv /\ [SessionNext]_sessionVars => SessionTypeInv'
BY SessionTypesStep, OtherTypesStep, DepthInvStep DEF SessionTypeInv

(* The state of the window stays of its type: the descriptors that probes  *)
(* remember are devices of a camera, the observer is started with a real   *)
(* format, and handlers nest no deeper than the bound, but for the         *)
(* StopStreaming of a close at the bound.                                  *)
THEOREM SessionTypeCorrect == SessionSpec => []SessionTypeOK
BY SessionTypeInvInit, SessionTypeInvStep, SessionTypesCorrect, PTL DEF SessionSpec

=============================================================================
