-------------------------- MODULE CameraBridgeProofs --------------------------
(***************************************************************************)
(* Theorems about VideoRecorder and CameraBridge.  First, what the         *)
(* recorder's operations do to an AVI file, for any number and any sizes   *)
(* of frames that stay below a limit; then the bridge that calls them, for *)
(* any number of buffers and any bounds on the events, signals and         *)
(* activations.                                                            *)
(***************************************************************************)
EXTENDS CameraBridge, FiniteSetTheorems, SequenceTheorems, TLAPS

-----------------------------------------------------------------------------
(* The recorder: a record with these fields, whatever they hold. *)

Shaped(r) ==
  /\ r = [x \in DOMAIN NewRecorder |-> r[x]]
  /\ r.file = [x \in DOMAIN NoFile |-> r.file[x]]

Chunk == [at : Nat, size : Nat]
Entry == [offset : Int, size : Nat]
EndOf(c) == c.at + ChunkHeader + Padded(c.size)

(* A file of `maxBytes' and one more frame of `most' bytes, with its index,*)
(* which has at most two bytes for every byte of the frames, fits in the   *)
(* 32-bit sizes of an AVI file.                                            *)
SizesFit(maxBytes, most) ==
  /\ maxBytes \in Nat \ {0} /\ most \in Nat
  /\ 3 * (HeaderSize + maxBytes + most + ChunkHeader + 1) < Word

(* The frames of a recording that goes on follow each other behind the     *)
(* header, and the index has an entry for each.                            *)
FramesInOrder(r) ==
  LET f == r.file
      n == Len(f.chunks)
  IN /\ f.chunks \in Seq(Chunk) /\ r.index \in Seq(Entry) /\ Len(r.index) = n
     /\ r.frames = n /\ f.indexes = <<>> /\ f.size \in Nat
     /\ HeaderSize + ChunkHeader * n <= f.size
     /\ n = 0 => f.size = HeaderSize
     /\ \A i \in 1 .. n :
          /\ r.index[i] = [offset |-> f.chunks[i].at - HeaderSize, size |-> f.chunks[i].size]
          /\ EndOf(f.chunks[i]) = IF i = n THEN f.size ELSE f.chunks[i + 1].at

(* Before checkSizeLimit, the file may have one frame too much. *)
Within(r, maxBytes, most) == r.file.size <= HeaderSize + maxBytes + most + ChunkHeader + 1

Growing(r, maxBytes) ==
  /\ Shaped(r) /\ r.recording = TRUE /\ r.format = "avi" /\ r.maxBytes = maxBytes
  /\ FramesInOrder(r)
  /\ r.file.size < maxBytes \/ r.file.size = HeaderSize

Finished(r) ==
  /\ Shaped(r) /\ r.recording = FALSE /\ r.format = "avi"
  /\ AviConsistent(r.file)

LEMMA PaddedIsNat == ASSUME NEW n \in Nat PROVE Padded(n) \in Nat /\ Padded(n) >= n /\ Padded(n) <= n + 1
BY DEF Padded

LEMMA StartedIs ==
  ASSUME NEW format, NEW maxBytes
  PROVE  LET r == Started(format, maxBytes)
         IN Shaped(r) /\ r.recording = TRUE /\ r.format = format /\ r.maxBytes = maxBytes
<1> DEFINE r == Started(format, maxBytes)
           end == IF format = "avi" THEN HeaderSize ELSE RawHeaderSize(0, 0)
           file == [NoFile EXCEPT !.size = end, !.header.end = end]
<1>1. r = [NewRecorder EXCEPT !.recording = TRUE, !.format = format, !.maxBytes = maxBytes,
                              !.file = file]
  BY DEF Started
<1> HIDE DEF end, file, r
<1>2. r.recording = TRUE /\ r.format = format /\ r.maxBytes = maxBytes /\ r.file = file
  BY <1>1 DEF NewRecorder
<1>3. r = [x \in DOMAIN NewRecorder |-> r[x]]
  BY <1>1 DEF NewRecorder
<1>4. file = [x \in DOMAIN NoFile |-> file[x]]
  BY DEF NoFile, file
<1> QED
  BY <1>2, <1>3, <1>4 DEF Shaped, r

LEMMA StartedGrows ==
  ASSUME NEW maxBytes PROVE Growing(Started("avi", maxBytes), maxBytes)
<1> DEFINE r == Started("avi", maxBytes)
<1>1. /\ Shaped(r) /\ r.recording = TRUE /\ r.format = "avi" /\ r.maxBytes = maxBytes
      /\ r.frames = 0 /\ r.index = <<>> /\ r.file.chunks = <<>> /\ r.file.indexes = <<>>
      /\ r.file.size = HeaderSize
  <2> DEFINE file == [NoFile EXCEPT !.size = HeaderSize, !.header.end = HeaderSize]
  <2>1. r = [NewRecorder EXCEPT !.recording = TRUE, !.format = "avi", !.maxBytes = maxBytes,
                                !.file = file]
    BY DEF Started
  <2> HIDE DEF file, r
  <2>2. /\ r.recording = TRUE /\ r.format = "avi" /\ r.maxBytes = maxBytes
        /\ r.frames = 0 /\ r.index = <<>> /\ r.file = file
    BY <2>1 DEF NewRecorder
  <2>3. r = [x \in DOMAIN NewRecorder |-> r[x]]
    BY <2>1 DEF NewRecorder
  <2>4. file = [x \in DOMAIN NoFile |-> file[x]]
    BY DEF NoFile, file
  <2>5. file.chunks = <<>> /\ file.indexes = <<>> /\ file.size = HeaderSize
    BY DEF NoFile, file
  <2> QED
    BY <2>2, <2>3, <2>4, <2>5 DEF Shaped
<1> HIDE DEF r
<1>2. FramesInOrder(r)
  BY <1>1, RecorderAssumption DEF FramesInOrder, ChunkHeader
<1> QED
  BY <1>1, <1>2 DEF Growing, r

(* An index entry is at most twice as long as the chunk it is for. *)
LEMMA IndexIsSmall ==
  ASSUME NEW size \in Nat, NEW n \in Nat, NEW head \in Nat, NEW room \in Nat, NEW word \in Nat,
         head + 8 * n <= size, size <= head + room, 3 * (head + room) < word, room >= 9
  PROVE  size + 16 * n \in 0 .. word - 1 /\ size - head + 4 \in 0 .. word - 1
OBVIOUS

(* A chunk has at least its header, and at most a byte of padding.         *)
LEMMA RoomForChunk ==
  ASSUME NEW k \in Nat, NEW head \in Nat, NEW size \in Nat, NEW after \in Nat,
         head + 8 * k <= size, after >= size + 8
  PROVE  head + 8 * (k + 1) <= after
OBVIOUS

LEMMA RoomForFrame ==
  ASSUME NEW head \in Nat, NEW size \in Nat, NEW after \in Nat, NEW max \in Nat,
         NEW most \in Nat, NEW n \in Nat, n <= most,
         size <= head + max, after <= size + 8 + n + 1
  PROVE  after <= head + max + most + 8 + 1
OBVIOUS

(* The index written behind the frames makes the file consistent. *)
LEMMA FinishedIsConsistent ==
  ASSUME NEW r, NEW maxBytes, NEW most, SizesFit(maxBytes, most),
         Shaped(r), r.format = "avi", FramesInOrder(r), Within(r, maxBytes, most)
  PROVE  Finished(AviFinished(r))
<1> DEFINE f == r.file
           n == Len(f.chunks)
           idx1 == ChunkHeader + Len(r.index) * IndexEntrySize
           g == AviFinished(r).file
<1>a. /\ f.chunks \in Seq(Chunk) /\ r.index \in Seq(Entry) /\ Len(r.index) = n
      /\ r.frames = n /\ f.indexes = <<>> /\ f.size \in Nat
      /\ HeaderSize + ChunkHeader * n <= f.size
  BY DEF FramesInOrder
<1>b. \A i \in 1 .. n :
        /\ r.index[i] = [offset |-> f.chunks[i].at - HeaderSize, size |-> f.chunks[i].size]
        /\ EndOf(f.chunks[i]) = IF i = n THEN f.size ELSE f.chunks[i + 1].at
  BY DEF FramesInOrder
<1>c. n \in Nat
  BY <1>a
<1>d. /\ Shaped(AviFinished(r)) /\ AviFinished(r).recording = FALSE /\ AviFinished(r).format = "avi"
      /\ g.chunks = f.chunks
  <2>1. AviFinished(r).recording = FALSE /\ AviFinished(r).format = "avi"
    BY DEF AviFinished, Shaped, NewRecorder
  <2>2. g.chunks = f.chunks
    BY DEF AviFinished, Shaped, NewRecorder, NoFile
  <2>3. AviFinished(r) = [x \in DOMAIN NewRecorder |-> AviFinished(r)[x]]
    BY DEF AviFinished, Shaped, NewRecorder
  <2>4. g = [x \in DOMAIN NoFile |-> g[x]]
    BY DEF AviFinished, Shaped, NewRecorder, NoFile
  <2> QED
    BY <2>1, <2>2, <2>3, <2>4 DEF Shaped
<1>e. /\ g.indexes = Append(f.indexes, [at |-> f.size, entries |-> r.index])
      /\ g.size = f.size + idx1
  <2>1. g.indexes = Append(f.indexes, [at |-> f.size, entries |-> r.index])
    BY DEF AviFinished, Shaped, NewRecorder, NoFile
  <2>2. g.size = f.size + idx1
    BY DEF AviFinished, Shaped, NewRecorder, NoFile
  <2> QED
    BY <2>1, <2>2
<1>f. g.header = [end |-> HeaderSize, riff |-> ((f.size + idx1) - 8) % Word,
                  movi |-> ((f.size + idx1) - idx1 - HeaderSize + 4) % Word, frames |-> r.frames]
  <2> DEFINE size == f.size + idx1
             head == [end    |-> HeaderSize,
                      riff   |-> (size - 8) % Word,
                      movi   |-> (size - idx1 - HeaderSize + 4) % Word,
                      frames |-> r.frames]
             index == Append(f.indexes, [at |-> f.size, entries |-> r.index])
  <2>1. AviFinished(r) = [r EXCEPT !.recording = FALSE, !.file.indexes = index,
                                   !.file.size = size, !.file.header = head]
    BY DEF AviFinished
  <2> HIDE DEF size, head, index
  <2>2. /\ "file" \in DOMAIN r /\ "header" \in DOMAIN r.file
    BY DEF Shaped, NewRecorder, NoFile
  <2>3. AviFinished(r).file = [r.file EXCEPT !.indexes = index, !.size = size, !.header = head]
    BY <2>1, <2>2
  <2>4. g.header = head
    BY <2>2, <2>3
  <2> QED
    BY <2>4 DEF head, size
<1>2. idx1 = 8 + 16 * n
  BY <1>a, <1>c DEF ChunkHeader, IndexEntrySize
<1> HIDE DEF idx1, n, g
<1>4. (f.size + idx1) - 8 \in 0 .. Word - 1 /\ f.size - HeaderSize + 4 \in 0 .. Word - 1
  <2>1. HeaderSize + 8 * n <= f.size
    BY <1>a DEF ChunkHeader
  <2>2. f.size <= HeaderSize + maxBytes + most + 9
        /\ maxBytes \in Nat \ {0} /\ most \in Nat /\ 3 * (HeaderSize + maxBytes + most + 9) < Word
    BY RecorderAssumption DEF SizesFit, Within, ChunkHeader
  <2>3. (f.size + idx1) - 8 = f.size + 16 * n
    BY <1>2, <1>a, <1>c
  <2> DEFINE room == maxBytes + most + 9
  <2>4. /\ room \in Nat /\ room >= 9 /\ f.size <= HeaderSize + room /\ 3 * (HeaderSize + room) < Word
        /\ HeaderSize \in Nat /\ Word \in Nat /\ f.size \in Nat
    BY <1>a, <2>2, RecorderAssumption
  <2> HIDE DEF f, room
  <2>5. f.size + 16 * n \in 0 .. Word - 1 /\ f.size - HeaderSize + 4 \in 0 .. Word - 1
    BY <1>c, <2>1, <2>4, IndexIsSmall
  <2> QED
    BY <2>3, <2>5
<1>5. \A k \in 0 .. Word - 1 : k % Word = k
  BY RecorderAssumption
<1>6. /\ ((f.size + idx1) - 8) % Word = g.size - 8
      /\ ((f.size + idx1) - idx1 - HeaderSize + 4) % Word = f.size - HeaderSize + 4
  <2>1. (f.size + idx1) - idx1 - HeaderSize + 4 = f.size - HeaderSize + 4
    BY <1>2, <1>a, <1>c, RecorderAssumption
  <2>2. ((f.size + idx1) - 8) % Word = (f.size + idx1) - 8
    BY <1>4, <1>5
  <2>3. (f.size - HeaderSize + 4) % Word = f.size - HeaderSize + 4
    BY <1>4, <1>5
  <2> QED
    BY <1>2, <1>a, <1>c, <1>e, <2>1, <2>2, <2>3
<1>7. Len(g.indexes) = 1 /\ g.indexes[1].at = f.size /\ g.indexes[1].entries = r.index
  BY <1>a, <1>e
<1>8. r.index = [i \in 1 .. n |-> [offset |-> f.chunks[i].at - HeaderSize, size |-> f.chunks[i].size]]
  <2>1. DOMAIN r.index = 1 .. n /\ r.index = [i \in DOMAIN r.index |-> r.index[i]]
    BY <1>a
  <2> QED
    BY <1>b, <2>1
<1>9. \A i \in 1 .. n : EndOf(f.chunks[i]) = IF i = n THEN f.size ELSE f.chunks[i + 1].at
  BY <1>b
<1>10. g.size = f.size + ChunkHeader + n * IndexEntrySize
  BY <1>2, <1>a, <1>c, <1>e DEF ChunkHeader, IndexEntrySize
<1>11. g.header = [end |-> HeaderSize, riff |-> g.size - 8, movi |-> f.size - HeaderSize + 4, frames |-> n]
  BY <1>a, <1>f, <1>6
<1>12. Len(g.chunks) = n /\ g.chunks = f.chunks
  BY <1>d DEF n
<1> HIDE DEF f
<1>13. AviConsistent(g)
  BY <1>7, <1>8, <1>9, <1>10, <1>11, <1>12 DEF AviConsistent, EndOf
<1> QED
  BY <1>d, <1>13 DEF Finished, g

LEMMA StoppedIsFinished ==
  ASSUME NEW r, NEW maxBytes, NEW most, SizesFit(maxBytes, most), Growing(r, maxBytes)
  PROVE  Finished(Stopped(r))
<1>1. Within(r, maxBytes, most)
  <2>1. /\ r.file.size \in Nat /\ HeaderSize \in Nat /\ maxBytes \in Nat /\ most \in Nat
        /\ r.file.size < maxBytes \/ r.file.size = HeaderSize
    BY RecorderAssumption DEF Growing, FramesInOrder, SizesFit
  <2> DEFINE size == r.file.size
  <2>2. size <= HeaderSize + maxBytes + most + 8 + 1
    <3> HIDE DEF size
    <3> QED
      BY <2>1 DEF size
  <2> QED
    BY <2>2 DEF Within, ChunkHeader
<1> QED
  BY <1>1, FinishedIsConsistent DEF Growing, Stopped

(* A frame goes behind the others, and checkSizeLimit ends the recording   *)
(* with the first frame that reaches the limit.                            *)
LEMMA FrameGrowsOrFinishes ==
  ASSUME NEW r, NEW maxBytes, NEW most, SizesFit(maxBytes, most), Growing(r, maxBytes),
         NEW n \in Nat, n <= most
  PROVE  Growing(JpegFrameWritten(r, n), maxBytes) \/ Finished(JpegFrameWritten(r, n))
<1> DEFINE f == r.file
           k == Len(f.chunks)
           o == [r EXCEPT !.frames = @ + 1,
                   !.index = Append(@, [offset |-> (r.file.size - HeaderSize) % Word,
                                        size   |-> n % Word]),
                   !.file.chunks = Append(@, [at |-> r.file.size, size |-> n]),
                   !.file.size = @ + ChunkHeader + Padded(n)]
           c == [at |-> f.size, size |-> n]
           e == [offset |-> f.size - HeaderSize, size |-> n]
<1>a. /\ f.chunks \in Seq(Chunk) /\ r.index \in Seq(Entry) /\ Len(r.index) = k
      /\ r.frames = k /\ f.indexes = <<>> /\ f.size \in Nat
      /\ HeaderSize + ChunkHeader * k <= f.size
  BY DEF Growing, FramesInOrder
<1>b. \A i \in 1 .. k :
        /\ r.index[i] = [offset |-> f.chunks[i].at - HeaderSize, size |-> f.chunks[i].size]
        /\ EndOf(f.chunks[i]) = IF i = k THEN f.size ELSE f.chunks[i + 1].at
  BY DEF Growing, FramesInOrder
<1>c. k \in Nat /\ HeaderSize \in Nat /\ Word \in Nat \ {0} /\ maxBytes \in Nat \ {0} /\ most \in Nat
  BY <1>a, RecorderAssumption DEF SizesFit
<1>d. Shaped(r) /\ r.recording = TRUE /\ r.format = "avi" /\ r.maxBytes = maxBytes
  BY DEF Growing
<1>1. /\ (f.size - HeaderSize) % Word = f.size - HeaderSize
      /\ n % Word = n
  <2>1. f.size - HeaderSize \in 0 .. Word - 1 /\ n \in 0 .. Word - 1
    <3>1. f.size < maxBytes \/ f.size = HeaderSize
      BY DEF Growing
    <3>2. HeaderSize <= f.size
      BY <1>a, <1>c DEF ChunkHeader
    <3>3. 3 * (HeaderSize + maxBytes + most + 9) < Word
      BY <1>c DEF SizesFit, ChunkHeader
    <3> HIDE DEF f
    <3> QED
      BY <1>a, <1>c, <3>1, <3>2, <3>3
  <2>2. \A m \in 0 .. Word - 1 : m % Word = m
    BY <1>c
  <2> QED
    BY <2>1, <2>2
<1>2. /\ Shaped(o) /\ o.recording = TRUE /\ o.format = "avi" /\ o.maxBytes = maxBytes
  BY <1>d DEF Shaped, NewRecorder, NoFile
<1>3. /\ o.frames = r.frames + 1
      /\ o.index = Append(r.index, [offset |-> (f.size - HeaderSize) % Word, size |-> n % Word])
  BY <1>d DEF Shaped, NewRecorder, NoFile
<1>4. o.file.chunks = Append(f.chunks, c)
  BY <1>d DEF Shaped, NewRecorder, NoFile
<1>5. o.file.indexes = f.indexes /\ o.file.size = f.size + ChunkHeader + Padded(n)
  BY <1>d DEF Shaped, NewRecorder, NoFile
<1>6. JpegFrameWritten(r, n) = SizeLimitChecked(o)
  BY <1>d DEF JpegFrameWritten
<1>7. c \in Chunk /\ e \in Entry /\ EndOf(c) = o.file.size /\ o.file.size \in Nat
      /\ c.at = f.size /\ c.size = n
      /\ o.file.size >= f.size + ChunkHeader /\ o.file.size <= f.size + ChunkHeader + n + 1
  <2>1. Padded(n) \in Nat /\ Padded(n) >= n /\ Padded(n) <= n + 1
    BY PaddedIsNat
  <2>2. HeaderSize <= f.size
    BY <1>a, <1>c DEF ChunkHeader
  <2>3. c \in Chunk /\ c.at = f.size /\ c.size = n
    BY <1>a DEF Chunk
  <2>4. f.size - HeaderSize \in Int
    BY <1>a, <1>c
  <2>5. e \in Entry
    BY <2>4 DEF Entry
  <2>6. EndOf(c) = o.file.size
    BY <1>5, <2>3 DEF EndOf
  <2>7. /\ f.size + ChunkHeader + Padded(n) \in Nat
        /\ f.size + ChunkHeader + Padded(n) >= f.size + ChunkHeader
        /\ f.size + ChunkHeader + Padded(n) <= f.size + ChunkHeader + n + 1
    <3> DEFINE size == f.size
               pad == Padded(n)
    <3>1. size \in Nat /\ pad \in Nat /\ pad <= n + 1
      BY <1>a, <2>1
    <3> HIDE DEF size, pad
    <3>2. size + 8 + pad \in Nat /\ size + 8 + pad >= size + 8 /\ size + 8 + pad <= size + 8 + n + 1
      BY <3>1
    <3> QED
      BY <3>2 DEF size, pad, ChunkHeader
  <2> QED
    BY <1>5, <2>3, <2>5, <2>6, <2>7
<1>8. o.index = Append(r.index, e)
  BY <1>1, <1>3
<1> HIDE DEF o, c, e, f
<1>9. FramesInOrder(o)
  <2> DEFINE g == o.file
             m == Len(g.chunks)
  <2>1. g.chunks \in Seq(Chunk) /\ o.index \in Seq(Entry) /\ m = k + 1 /\ Len(o.index) = m
    BY <1>a, <1>4, <1>7, <1>8
  <2>2. /\ \A i \in 1 .. k : g.chunks[i] = f.chunks[i] /\ o.index[i] = r.index[i]
        /\ g.chunks[k + 1] = c /\ o.index[k + 1] = e
    BY <1>a, <1>4, <1>7, <1>8
  <2>3. o.frames = m /\ g.indexes = <<>> /\ g.size \in Nat
    BY <1>3, <1>5, <1>7, <1>a, <2>1
  <2>4. HeaderSize + ChunkHeader * m <= g.size
    <3>1. HeaderSize + 8 * k <= f.size /\ f.size \in Nat
      BY <1>a DEF ChunkHeader
    <3>2. g.size \in Nat /\ g.size >= f.size + 8
      BY <1>7 DEF ChunkHeader
    <3>3. HeaderSize + 8 * (k + 1) <= g.size
      BY <1>c, <3>1, <3>2, RoomForChunk
    <3> QED
      BY <2>1, <3>3 DEF ChunkHeader
  <2>5. ASSUME NEW i \in 1 .. m
        PROVE  /\ o.index[i] = [offset |-> g.chunks[i].at - HeaderSize, size |-> g.chunks[i].size]
               /\ EndOf(g.chunks[i]) = IF i = m THEN g.size ELSE g.chunks[i + 1].at
    <3>1. CASE i = k + 1
      <4>1. o.index[i] = e /\ g.chunks[i] = c
        BY <2>2, <3>1
      <4>2. e = [offset |-> c.at - HeaderSize, size |-> c.size]
        BY <1>7 DEF e
      <4> QED
        BY <1>7, <2>1, <3>1, <4>1, <4>2
    <3>2. CASE i \in 1 .. k
      <4>1. o.index[i] = r.index[i] /\ g.chunks[i] = f.chunks[i]
        BY <2>2, <3>2
      <4>2. EndOf(f.chunks[i]) = g.chunks[i + 1].at
        <5>1. CASE i = k
          BY <1>7, <1>b, <2>2, <3>2, <5>1
        <5>2. CASE i # k
          <6>1. i + 1 \in 1 .. k
            BY <1>c, <3>2, <5>2
          <6> QED
            BY <1>b, <2>2, <3>2, <5>2, <6>1
        <5> QED
          BY <5>1, <5>2
      <4>3. i # m
        BY <1>c, <2>1, <3>2
      <4> QED
        BY <1>b, <3>2, <4>1, <4>2, <4>3
    <3> QED
      BY <1>c, <2>1, <3>1, <3>2
  <2>6. m # 0
    BY <1>c, <2>1
  <2> HIDE DEF m, g
  <2> QED
    BY <2>1, <2>3, <2>4, <2>5, <2>6 DEF FramesInOrder, m, g
<1>10. CASE o.file.size >= maxBytes
  <2>1. Within(o, maxBytes, most)
    <3>1. f.size < maxBytes \/ f.size = HeaderSize
      BY DEF Growing, f
    <3>2. f.size <= HeaderSize + maxBytes
      BY <1>a, <1>c, <3>1
    <3>3. o.file.size <= f.size + 8 + n + 1 /\ f.size \in Nat /\ o.file.size \in Nat
      BY <1>7, <1>a DEF ChunkHeader
    <3>4. o.file.size <= HeaderSize + maxBytes + most + 8 + 1
      BY <1>c, <3>2, <3>3, RoomForFrame
    <3> QED
      BY <3>4 DEF Within, ChunkHeader
  <2>2. SizeLimitChecked(o) = AviFinished(o)
    BY <1>2, <1>10, <1>c DEF SizeLimitChecked, LimitReached
  <2> QED
    BY <1>2, <1>6, <1>9, <2>1, <2>2, FinishedIsConsistent
<1>11. CASE ~(o.file.size >= maxBytes)
  <2>1. SizeLimitChecked(o) = o
    BY <1>2, <1>11 DEF SizeLimitChecked, LimitReached
  <2>2. Growing(o, maxBytes)
    BY <1>2, <1>7, <1>9, <1>11, <1>c DEF Growing
  <2> QED
    BY <1>6, <2>1, <2>2
<1> QED
  BY <1>10, <1>11

-----------------------------------------------------------------------------
(* The bridge: its types. *)

Activation == [pc : MainPC, format : Formats]
Event == [name : Calls \cup {"stopped"}, format : Formats]
Signal == [flag : Flags, value : BOOLEAN]
FrameThreadPC == {"idle", "server", "push", "last", "retain", "swap", "store"}
ConversionPC == {"idle", "record", "write", "give"}

(* The recorder is a record with these fields, whatever they hold. *)
RecorderShape == Shaped(recorder)

-----------------------------------------------------------------------------
(* The main thread's stack. *)

(* The activations of a stopStreaming, from the one that clears the flag. *)
StopPC == {"flag", "release", "flush", "channel", "wait", "off"}

(* An activation that is not on top is in a nested event loop or has still *)
(* to be reached.                                                          *)
StackShape ==
  \A i \in DOMAIN main : i > 1 =>
     \/ main[i].pc \in {"dialog", "saving", "wait", "close"}
     \/ main[i].pc = "flag" /\ i = 2 /\ main[1].pc \in {"clear", "finish", "finished"}

OneStop ==
  \A i, j \in DOMAIN main : main[i].pc \in StopPC /\ main[j].pc \in StopPC => i = j

(* closeCamera waits for the stopStreaming it called. *)
CloseWaits ==
  \A i \in DOMAIN main : main[i].pc = "close" =>
     \/ i = 1 /\ ~streaming
     \/ i > 1 /\ main[i - 1].pc \in StopPC

(* A stop that has begun is the end of the stream: the device still        *)
(* streams, or has been closed, and no start goes through.                 *)
StopIsFinal ==
  \A i \in DOMAIN main :
     /\ main[i].pc = "flag" => streaming
     /\ main[i].pc \in StopPC \ {"flag"} =>
          /\ ~streaming
          /\ streamon \/ ~open \/ RunsAt("replaced")
          /\ ~RunsAt("started")
     /\ main[i].pc \in {"wait", "off"} => ~capturing
     /\ main[i].pc = "off" => ft.pc = "idle"

StreamRuns ==
  /\ streaming => open /\ streamon
  /\ RunsAt("started") => open /\ streamon /\ ~streaming
  /\ capturing => \/ streaming \/ RunsAt("started")
                  \/ RunsAt("release") \/ RunsAt("flush") \/ RunsAt("channel")

StackInv == StackShape /\ OneStop /\ CloseWaits /\ StopIsFinal /\ StreamRuns

-----------------------------------------------------------------------------
(* The callbacks. *)

FrameHolds(b, p) == ft.buf = b /\ (p = "server" => ft.pc \in {"server", "push"})

ThreadsHold ==
  /\ ft.pc = "idle" => ft = Idle
  /\ ft.pc # "idle" => ft.buf \in Buffers
  /\ ft.pc # "swap" => ft.old = NoBuffer
  /\ ft.pc \in {"swap", "store"} => lastDone = NoBuffer
  /\ conv.pc = "idle" => conv.buf = NoBuffer

(* The callbacks for buffer b that have not been called are in one of the  *)
(* places each of them passes through.                                     *)
OnePlace(b) ==
  /\ <<b, "server">> \in held <=> FrameHolds(b, "server") \/ mail = b \/ conv.buf = b
  /\ ~(FrameHolds(b, "server") /\ mail = b)
  /\ ~(FrameHolds(b, "server") /\ conv.buf = b)
  /\ ~(mail = b /\ conv.buf = b)
  /\ <<b, "last">> \in held <=> FrameHolds(b, "last") \/ ft.old = b \/ lastDone = b
  /\ ~(FrameHolds(b, "last") /\ ft.old = b)
  /\ ~(FrameHolds(b, "last") /\ lastDone = b)
  /\ ~(ft.old = b /\ lastDone = b)

HolderInv == ThreadsHold /\ \A b \in Buffers : OnePlace(b)

-----------------------------------------------------------------------------
(* The recorder. *)

RecordingInv ==
  /\ recorder.recording => streaming
  /\ RunsAt("flag") \/ RunsAt("finished") => ~recorder.recording
  /\ RunsAt("finish") \/ RunsAt("finished") => callback = "none" /\ conv.pc # "write"

-----------------------------------------------------------------------------
(* The page. *)

(* The last word about flag f in signals s, or else what page q shows, is v. *)
ToldIn(s, q, f, v) ==
  /\ (\A i \in DOMAIN s : s[i].flag # f) => q[f] = v
  /\ \A i \in DOMAIN s :
       s[i].flag = f /\ (\A j \in DOMAIN s : j > i => s[j].flag # f) => s[i].value = v
Told(f, v) == ToldIn(signals, page, f, v)

(* The page is told that the stream has ended when it has been torn down. *)
Stopping == \E i \in DOMAIN main : main[i].pc \in StopPC

Running == streaming \/ Stopping

PageInv == Told("open", open) /\ Told("streaming", Running)

BridgeInv ==
  TypeOK /\ RecorderShape /\ StackInv /\ HolderInv /\ RecordingInv /\ PageInv

-----------------------------------------------------------------------------
(* Lemmas about the stack and about the recorder. *)

LEMMA Prepend ==
  ASSUME NEW R, NEW s \in Seq(R), NEW p \in Seq(R)
  PROVE  /\ p \o s \in Seq(R)
         /\ DOMAIN (p \o s) = 1 .. Len(p) + Len(s)
         /\ \A i \in 1 .. Len(p) : (p \o s)[i] = p[i]
         /\ \A i \in 1 .. Len(s) : (p \o s)[i + Len(p)] = s[i]
OBVIOUS

LEMMA Pop ==
  ASSUME NEW R, NEW s \in Seq(R), s # <<>>
  PROVE  /\ Tail(s) \in Seq(R)
         /\ DOMAIN Tail(s) = 1 .. Len(s) - 1
         /\ DOMAIN s = 1 .. Len(s)
         /\ Head(s) = s[1] /\ 1 \in DOMAIN s
         /\ \A i \in DOMAIN Tail(s) : i + 1 \in DOMAIN s /\ Tail(s)[i] = s[i + 1]
OBVIOUS

LEMMA Replace ==
  ASSUME NEW s \in Seq(Activation), s # <<>>, NEW pc \in MainPC,
         NEW t, t = [s EXCEPT ![1].pc = pc]
  PROVE  /\ t \in Seq(Activation) /\ t # <<>> /\ DOMAIN t = DOMAIN s
         /\ 1 \in DOMAIN s /\ Head(t) = t[1] /\ Head(s) = s[1]
         /\ t[1].pc = pc /\ t[1].format = s[1].format
         /\ \A i \in DOMAIN s : i > 1 => t[i] = s[i]
<1>1. 1 \in DOMAIN s /\ s[1] \in Activation /\ Head(s) = s[1]
  OBVIOUS
<1>2. [s[1] EXCEPT !.pc = pc] \in Activation
  BY <1>1 DEF Activation
<1>3. [s[1] EXCEPT !.pc = pc].pc = pc /\ [s[1] EXCEPT !.pc = pc].format = s[1].format
  BY <1>1 DEF Activation
<1>4. t = [s EXCEPT ![1] = [s[1] EXCEPT !.pc = pc]]
  OBVIOUS
<1>5. t \in Seq(Activation) /\ Len(t) = Len(s) /\ t[1] = [s[1] EXCEPT !.pc = pc]
  BY <1>1, <1>2, <1>4
<1>6. \A i \in DOMAIN s : i > 1 => t[i] = s[i]
  BY <1>1, <1>4
<1> QED
  <2>1. t # <<>> /\ DOMAIN t = DOMAIN s /\ Head(t) = t[1]
    BY <1>1, <1>5
  <2> QED
    BY <1>1, <1>3, <1>5, <1>6, <2>1

LEMMA AtIsActivation == ASSUME NEW pc \in MainPC
                        PROVE At(pc) \in Activation /\ At(pc).pc = pc
BY DEF At, Activation, Formats

LEMMA RecorderKeepsShape ==
  ASSUME RecorderShape, NEW n,
         NEW r \in {Stopped(recorder), JpegFrameWritten(recorder, n), RawFrameWritten(recorder, n)}
  PROVE  /\ Shaped(r)
         /\ r.recording \in {FALSE, recorder.recording}
         /\ r.format = recorder.format
<1> DEFINE Follows(q, o) == /\ Shaped(q) /\ q.format = o.format
                            /\ q.recording \in {FALSE, o.recording}
<1>1. ASSUME NEW o, Shaped(o) PROVE Follows(AviFinished(o), o)
  BY <1>1 DEF Shaped, AviFinished, NewRecorder, NoFile
<1>2. ASSUME NEW o, Shaped(o) PROVE Follows(RawFinished(o), o)
  BY <1>2 DEF Shaped, RawFinished, NewRecorder, NoFile
<1>3. ASSUME NEW o, Shaped(o) PROVE Follows(SizeLimitChecked(o), o)
  <2>1. Follows([o EXCEPT !.recording = FALSE], o)
    BY <1>3 DEF Shaped, NewRecorder, NoFile
  <2>2. Follows(o, o)
    BY <1>3
  <2>3. SizeLimitChecked(o) \in {o, AviFinished(o), [o EXCEPT !.recording = FALSE]}
    BY DEF SizeLimitChecked
  <2>4. Follows(AviFinished(o), o)
    BY <1>1, <1>3
  <2> HIDE DEF Follows
  <2> QED
    BY <2>1, <2>2, <2>3, <2>4
<1>4. Follows(Stopped(recorder), recorder)
  BY <1>1, <1>2 DEF Stopped, RecorderShape
<1>5. Follows(JpegFrameWritten(recorder, n), recorder)
  <2> DEFINE o == [recorder EXCEPT
                     !.frames = @ + 1,
                     !.index = Append(@, [offset |-> (recorder.file.size - HeaderSize) % Word,
                                          size   |-> n % Word]),
                     !.file.chunks = Append(@, [at |-> recorder.file.size, size |-> n]),
                     !.file.size = @ + ChunkHeader + Padded(n)]
  <2>1. Follows(o, recorder)
    BY DEF Shaped, RecorderShape, NewRecorder, NoFile
  <2>2. Follows(SizeLimitChecked(o), recorder)
    <3> HIDE DEF o
    <3> QED BY <2>1, <1>3
  <2>3. Follows(recorder, recorder)
    BY DEF RecorderShape
  <2>4. JpegFrameWritten(recorder, n) \in {recorder, SizeLimitChecked(o)}
    BY DEF JpegFrameWritten
  <2> HIDE DEF o, Follows
  <2> QED
    BY <2>2, <2>3, <2>4
<1>6. Follows(RawFrameWritten(recorder, n), recorder)
  <2> DEFINE o == [recorder EXCEPT !.frames = @ + 1,
                     !.file.chunks = Append(@, [at |-> recorder.file.size, size |-> n]),
                     !.file.size = @ + n]
  <2>1. Follows(o, recorder)
    BY DEF Shaped, RecorderShape, NewRecorder, NoFile
  <2>2. Follows(SizeLimitChecked(o), recorder)
    <3> HIDE DEF o
    <3> QED BY <2>1, <1>3
  <2>3. Follows(recorder, recorder)
    BY DEF RecorderShape
  <2>4. RawFrameWritten(recorder, n) \in {recorder, SizeLimitChecked(o)}
    BY DEF RawFrameWritten
  <2> HIDE DEF o, Follows
  <2> QED
    BY <2>2, <2>3, <2>4
<1> QED
  BY <1>4, <1>5, <1>6

LEMMA StoppedIsOver == ASSUME RecorderShape PROVE ~ Stopped(recorder).recording
BY DEF Shaped, RecorderShape, Stopped, AviFinished, RawFinished, NewRecorder

-----------------------------------------------------------------------------
(* Types. *)

Types == TypeOK /\ RecorderShape

FlagTypes ==
  {open, streaming, streamon, capturing} \subseteq BOOLEAN
BufferTypes ==
  /\ held \subseteq Buffers \X Processors
  /\ lastDone \in MaybeBuffer /\ mail \in MaybeBuffer
  /\ ft \in [pc : FrameThreadPC, buf : MaybeBuffer, old : MaybeBuffer]
ConversionTypesOK ==
  /\ conv \in [pc : ConversionPC, buf : MaybeBuffer]
  /\ conv.pc # "idle" => conv.buf # NoBuffer
  /\ callback \in Formats \cup {"none"}
RecorderTypes ==
  RecorderShape /\ recorder.recording \in BOOLEAN /\ recorder.format \in Formats
EventTypes == events \in Seq(Event) /\ page \in [Flags -> BOOLEAN]

(* The types, by what an action changes together.                          *)
LEMMA TypesInParts ==
  /\ Types <=>
       /\ FlagTypes /\ BufferTypes /\ ConversionTypesOK /\ RecorderTypes /\ EventTypes
       /\ main \in Seq(Activation) /\ signals \in Seq(Signal)
  /\ Types' <=>
       /\ FlagTypes' /\ BufferTypes' /\ ConversionTypesOK' /\ RecorderTypes' /\ EventTypes'
       /\ main' \in Seq(Activation) /\ signals' \in Seq(Signal)
BY DEF Types, TypeOK, FlagTypes, BufferTypes, ConversionTypesOK, RecorderTypes, EventTypes,
       Activation, Event, Signal, FrameThreadPC, ConversionPC

LEMMA InitTypes == Init => Types
<1> SUFFICES ASSUME Init PROVE Types
  OBVIOUS
<1>1. RecorderShape /\ recorder.recording \in BOOLEAN /\ recorder.format \in Formats
  BY DEF Init, Shaped, RecorderShape, NewRecorder, NoFile, Formats
<1>2. /\ ft \in [pc : FrameThreadPC, buf : MaybeBuffer, old : MaybeBuffer]
      /\ conv \in [pc : ConversionPC, buf : MaybeBuffer]
  BY DEF Init, Idle, MaybeBuffer, FrameThreadPC, ConversionPC
<1>3. page \in [Flags -> BOOLEAN] /\ main \in Seq(Activation)
  BY DEF Init
<1>4. /\ events \in Seq([name : Calls \cup {"stopped"}, format : Formats])
      /\ signals \in Seq([flag : Flags, value : BOOLEAN])
      /\ held \subseteq Buffers \X Processors
  BY DEF Init
<1>5. lastDone \in MaybeBuffer /\ mail \in MaybeBuffer /\ callback \in Formats \cup {"none"}
  BY DEF Init, MaybeBuffer
<1> QED
  BY <1>1, <1>2, <1>3, <1>4, <1>5 DEF Init, Types, TypeOK, FrameThreadPC, ConversionPC, Activation

LEMMA FrameThreadTypes == Types /\ FrameThread => Types'
<1> SUFFICES ASSUME Types, FrameThread PROVE Types'
  OBVIOUS
<1> USE DEF Types, TypeOK, vars, camera, capture, recording, channel, MaybeBuffer, Done, Processors
<1>1. RecorderShape' <=> RecorderShape
  BY DEF FrameThread, FrameArrives, Processor2, PushFrame, Processor3, Retain,
         RetainReleasesPrevious, RetainStores, RecorderShape
<1> DEFINE FtType == ft \in [pc : FrameThreadPC, buf : MaybeBuffer, old : MaybeBuffer]
<1>2. ASSUME NEW b \in Buffers, FrameArrives(b) PROVE Types'
  <2>1. FtType'
    BY <1>2 DEF FrameArrives, Idle, FrameThreadPC
  <2>2. held' \subseteq Buffers \X Processors
    BY <1>2 DEF FrameArrives
  <2> QED
    BY <1>1, <1>2, <2>1, <2>2 DEF FrameArrives, FrameThreadPC
<1>3. CASE Processor2
  <2>1. FtType' /\ held' \subseteq Buffers \X Processors
    BY <1>3 DEF Processor2, FrameThreadPC
  <2> QED
    BY <1>1, <1>3, <2>1 DEF Processor2, FrameThreadPC
<1>4. CASE PushFrame
  <2>1. FtType' /\ held' \subseteq Buffers \X Processors
    BY <1>4 DEF PushFrame, FrameThreadPC
  <2> QED
    BY <1>1, <1>4, <2>1 DEF PushFrame, FrameThreadPC
<1>5. CASE Processor3
  <2>1. FtType' /\ held' \subseteq Buffers \X Processors
    BY <1>5 DEF Processor3, Idle, FrameThreadPC
  <2> QED
    BY <1>1, <1>5, <2>1 DEF Processor3, FrameThreadPC
<1>6. CASE Retain
  <2>1. FtType' /\ held' \subseteq Buffers \X Processors
    <3>1. CASE lastDone # NoBuffer
      BY <1>6, <3>1 DEF Retain, FrameThreadPC
    <3>2. CASE lastDone = NoBuffer
      BY <1>6, <3>2 DEF Retain, Idle, FrameThreadPC
    <3> QED
      BY <3>1, <3>2
  <2> QED
    BY <1>1, <1>6, <2>1 DEF Retain, FrameThreadPC
<1>7. CASE RetainReleasesPrevious
  <2>1. FtType' /\ held' \subseteq Buffers \X Processors
    BY <1>7 DEF RetainReleasesPrevious, FrameThreadPC
  <2> QED
    BY <1>1, <1>7, <2>1 DEF RetainReleasesPrevious, FrameThreadPC
<1>8. CASE RetainStores
  <2>1. FtType' /\ held' \subseteq Buffers \X Processors
    BY <1>8 DEF RetainStores, Idle, FrameThreadPC
  <2> QED
    BY <1>1, <1>8, <2>1 DEF RetainStores, FrameThreadPC
<1> QED
  BY <1>2, <1>3, <1>4, <1>5, <1>6, <1>7, <1>8 DEF FrameThread

LEMMA ConversionTypes == Types /\ (ConversionTakes \/ ConversionThread) => Types'
<1> SUFFICES ASSUME Types, ConversionTakes \/ ConversionThread PROVE Types'
  OBVIOUS
<1> USE DEF Types, TypeOK, vars, camera, capture, recording, channel, MaybeBuffer, Done, Processors
<1>1. CASE ConversionTakes
  BY <1>1 DEF ConversionTakes, RecorderShape
<1>2. CASE ConversionLocksRecord
  <2>1. conv' \in [pc : ConversionPC, buf : MaybeBuffer] /\ conv'.buf = conv.buf /\ conv'.pc # "idle"
    BY <1>2 DEF ConversionLocksRecord, ConversionPC
  <2> QED
    BY <1>2, <2>1 DEF ConversionLocksRecord, RecorderShape, ConversionPC
<1>3. CASE ConversionRecords
  <2>1. PICK n \in FrameSizes :
          recorder' = IF callback = "avi" THEN JpegFrameWritten(recorder, n)
                                          ELSE RawFrameWritten(recorder, n)
    BY <1>3 DEF ConversionRecords
  <2>2. /\ RecorderShape' /\ recorder'.recording \in {FALSE, recorder.recording}
        /\ recorder'.format = recorder.format
    <3>1. recorder' \in {Stopped(recorder), JpegFrameWritten(recorder, n), RawFrameWritten(recorder, n)}
      BY ONLY <2>1
    <3>2. RecorderShape
      OBVIOUS
    <3>3. /\ Shaped(recorder') /\ recorder'.recording \in {FALSE, recorder.recording}
          /\ recorder'.format = recorder.format
      BY ONLY <3>1, <3>2, RecorderKeepsShape
    <3> QED
      BY <3>3 DEF RecorderShape
  <2>3. events' \in Seq(Event)
    <3>1. [name |-> "stopped", format |-> "avi"] \in Event
      BY DEF Event, Formats
    <3>2. events \in Seq(Event)
      BY DEF Event
    <3>3. Append(events, [name |-> "stopped", format |-> "avi"]) \in Seq(Event)
      BY <3>1, <3>2
    <3> QED
      BY <1>3, <3>2, <3>3 DEF ConversionRecords
  <2>4. conv' \in [pc : ConversionPC, buf : MaybeBuffer] /\ conv'.buf = conv.buf
    BY <1>3 DEF ConversionRecords, ConversionPC
  <2>5. recorder'.recording \in BOOLEAN /\ recorder'.format \in Formats
    BY <2>2
  <2>6. conv.buf # NoBuffer
    BY <1>3 DEF ConversionRecords
  <2> QED
    BY <1>3, <2>2, <2>3, <2>4, <2>5, <2>6 DEF ConversionRecords, Event, ConversionPC
<1>4. CASE ConversionGivesBack
  BY <1>4 DEF ConversionGivesBack, RecorderShape
<1> QED
  BY <1>1, <1>2, <1>3, <1>4 DEF ConversionThread

LEMMA PageTypes == Types /\ Page => Types'
<1> SUFFICES ASSUME Types, Page PROVE Types'
  OBVIOUS
<1> USE DEF Types, TypeOK, RecorderShape, vars, camera, capture, recording, channel
<1>1. CASE PageHears
  <2>1. Head(signals) \in Signal /\ Tail(signals) \in Seq(Signal)
    <3>1. signals \in Seq(Signal) /\ signals # <<>>
      BY <1>1 DEF PageHears, Signal
    <3> QED
      BY ONLY <3>1
  <2>2. page' \in [Flags -> BOOLEAN]
    BY <1>1, <2>1 DEF PageHears, Signal
  <2>3. signals' \in Seq([flag : Flags, value : BOOLEAN])
    BY <1>1, <2>1 DEF PageHears, Signal
  <2> QED
    BY <1>1, <2>2, <2>3 DEF PageHears
<1>2. ASSUME NEW name \in Calls, NEW format \in Formats, PageCalls(name, format) PROVE Types'
  BY <1>2 DEF PageCalls
<1> QED
  BY <1>1, <1>2 DEF Page

LEMMA ActivationType == TypeOK => main \in Seq(Activation)
BY DEF TypeOK, Activation

LEMMA HeadIs ==
  ASSUME TypeOK, main # <<>>
  PROVE  /\ Head(main) \in Activation /\ Head(main).format \in Formats
         /\ Head(main) = main[1] /\ 1 \in DOMAIN main
<1>1. main \in Seq(Activation)
  BY ActivationType
<1>2. Head(main) \in Activation /\ Head(main) = main[1] /\ 1 \in DOMAIN main
  BY <1>1
<1> QED
  BY <1>2 DEF Activation

LEMMA GoToIs ==
  ASSUME TypeOK, main # <<>>, NEW pc \in MainPC, GoTo(pc)
  PROVE  /\ main' \in Seq(Activation) /\ main' # <<>> /\ DOMAIN main' = DOMAIN main
         /\ 1 \in DOMAIN main /\ Head(main') = main'[1] /\ Head(main) = main[1]
         /\ main'[1].pc = pc
         /\ \A i \in DOMAIN main : i > 1 => main'[i] = main[i]
<1>1. main \in Seq(Activation)
  BY ActivationType
<1>2. main' = [main EXCEPT ![1].pc = pc]
  BY DEF GoTo
<1> QED
  BY <1>1, <1>2, Replace

LEMMA ReturnIs ==
  ASSUME TypeOK, main # <<>>, Return
  PROVE  /\ main' \in Seq(Activation)
         /\ DOMAIN main' = 1 .. Len(main) - 1 /\ DOMAIN main = 1 .. Len(main)
         /\ Head(main) = main[1] /\ 1 \in DOMAIN main
         /\ main' # <<>> => 1 \in DOMAIN main' /\ Head(main') = main'[1]
         /\ \A i \in DOMAIN main' : i + 1 \in DOMAIN main /\ main'[i] = main[i + 1]
<1>1. main \in Seq(Activation)
  BY ActivationType
<1>2. main' = Tail(main)
  BY DEF Return
<1> QED
  BY <1>1, <1>2, Pop

(* What stopStreaming puts on the stack. *)
LEMMA StopStreamIs ==
  /\ StopStream \in Seq(Activation) /\ StopRecorder \in Seq(Activation)
  /\ \/ ~streaming /\ Len(StopStream) = 0
     \/ streaming /\ ~recorder.recording /\ Len(StopStream) = 1 /\ StopStream[1] = At("flag")
     \/ /\ streaming /\ recorder.recording /\ Len(StopStream) = 2
        /\ StopStream[1] = At("clear") /\ StopStream[2] = At("flag")
<1>1. At("clear") \in Activation /\ At("flag") \in Activation
  BY AtIsActivation DEF MainPC
<1>2. ASSUME NEW a \in Activation, NEW b \in Activation
      PROVE  /\ Len(<<a>> \o <<b>>) = 2 /\ (<<a>> \o <<b>>)[1] = a /\ (<<a>> \o <<b>>)[2] = b
             /\ <<a>> \o <<b>> \in Seq(Activation)
             /\ Len(<<>> \o <<a>>) = 1 /\ (<<>> \o <<a>>)[1] = a /\ <<>> \o <<a>> \in Seq(Activation)
             /\ <<a>> \in Seq(Activation)
  OBVIOUS
<1>3. StopRecorder = IF recorder.recording THEN <<At("clear")>> ELSE <<>>
  BY DEF StopRecorder
<1>4. StopStream = IF streaming THEN StopRecorder \o <<At("flag")>> ELSE <<>>
  BY DEF StopStream
<1>5. CASE ~streaming
  BY <1>1, <1>2, <1>3, <1>4, <1>5
<1>6. CASE streaming /\ ~recorder.recording
  BY <1>1, <1>2, <1>3, <1>4, <1>6
<1>7. CASE streaming /\ recorder.recording
  BY <1>1, <1>2, <1>3, <1>4, <1>7
<1> QED
  BY <1>5, <1>6, <1>7

LEMMA MainThreadTypes == Types /\ MainThread => Types'
<1> SUFFICES ASSUME Types, MainThread PROVE Types'
  OBVIOUS
<1> DEFINE SignalType == signals \in Seq(Signal)
           MainType == main \in Seq(Activation)
<1>a. TypeOK /\ RecorderShape /\ SignalType /\ MainType
  BY DEF Types, TypeOK, Signal, Activation
<1>b. ASSUME NEW flag \in Flags, NEW value \in BOOLEAN, Emit(flag, value) PROVE SignalType'
  <2>1. [flag |-> flag, value |-> value] \in Signal
    BY DEF Signal
  <2> QED
    BY <1>a, <1>b, <2>1 DEF Emit
<1>c. ASSUME Return, main # <<>> PROVE MainType'
  BY <1>a, <1>c, ReturnIs
<1>d. ASSUME NEW pc \in MainPC, GoTo(pc), main # <<>> PROVE MainType'
  BY <1>a, <1>d, GoToIs
<1>p. FlagTypes /\ BufferTypes /\ ConversionTypesOK /\ RecorderTypes /\ EventTypes
  BY TypesInParts
<1> USE DEF vars, camera, capture, recording, channel, RunsAt
<1>1. CASE StartStreamingEnds
  <2>1. MainType'
    BY <1>1, <1>c DEF StartStreamingEnds
  <2>2. SignalType'
    BY <1>1, <1>b DEF StartStreamingEnds, Flags
  <2>f. FlagTypes' /\ EventTypes'
    BY <1>p, <1>1 DEF FlagTypes, EventTypes, StartStreamingEnds, ClearCallback
  <2>b. BufferTypes'
    BY <1>p, <1>1 DEF BufferTypes, StartStreamingEnds, ClearCallback
  <2>c. ConversionTypesOK'
    BY <1>p, <1>1 DEF ConversionTypesOK, StartStreamingEnds, ClearCallback
  <2>r. RecorderTypes'
    BY <1>p, <1>1 DEF RecorderTypes, RecorderShape, StartStreamingEnds, ClearCallback
  <2> QED
    BY <2>1, <2>2, <2>f, <2>b, <2>c, <2>r, TypesInParts
<1>2. CASE ClearRecordingCallback
  <2>1. MainType'
    BY <1>2, <1>d DEF ClearRecordingCallback, MainPC
  <2>2. SignalType'
    BY <1>a, <1>2 DEF ClearRecordingCallback
  <2>3. callback' \in Formats \cup {"none"}
    BY <1>2 DEF ClearRecordingCallback, ClearCallback
  <2>f. FlagTypes' /\ EventTypes'
    BY <1>p, <1>2, <2>3 DEF FlagTypes, EventTypes, ClearRecordingCallback, ClearCallback
  <2>b. BufferTypes'
    BY <1>p, <1>2, <2>3 DEF BufferTypes, ClearRecordingCallback, ClearCallback
  <2>c. ConversionTypesOK'
    BY <1>p, <1>2, <2>3 DEF ConversionTypesOK, ClearRecordingCallback, ClearCallback
  <2>r. RecorderTypes'
    BY <1>p, <1>2, <2>3 DEF RecorderTypes, RecorderShape, ClearRecordingCallback, ClearCallback
  <2> QED
    BY <2>1, <2>2, <2>f, <2>b, <2>c, <2>r, TypesInParts
<1>3. CASE ClearStreaming
  <2>1. MainType'
    BY <1>3, <1>d DEF ClearStreaming, MainPC
  <2>2. SignalType'
    BY <1>a, <1>3 DEF ClearStreaming
  <2>f. FlagTypes' /\ EventTypes'
    BY <1>p, <1>3 DEF FlagTypes, EventTypes, ClearStreaming, ClearCallback
  <2>b. BufferTypes'
    BY <1>p, <1>3 DEF BufferTypes, ClearStreaming, ClearCallback
  <2>c. ConversionTypesOK'
    BY <1>p, <1>3 DEF ConversionTypesOK, ClearStreaming, ClearCallback
  <2>r. RecorderTypes'
    BY <1>p, <1>3 DEF RecorderTypes, RecorderShape, ClearStreaming, ClearCallback
  <2> QED
    BY <2>1, <2>2, <2>f, <2>b, <2>c, <2>r, TypesInParts
<1>4. CASE StopStreamChannel
  <2>1. MainType'
    BY <1>4, <1>d DEF StopStreamChannel, MainPC
  <2>2. SignalType'
    BY <1>a, <1>4 DEF StopStreamChannel
  <2>f. FlagTypes' /\ EventTypes'
    BY <1>p, <1>4 DEF FlagTypes, EventTypes, StopStreamChannel, ClearCallback
  <2>b. BufferTypes'
    BY <1>p, <1>4 DEF BufferTypes, StopStreamChannel, ClearCallback
  <2>c. ConversionTypesOK'
    BY <1>p, <1>4 DEF ConversionTypesOK, StopStreamChannel, ClearCallback
  <2>r. RecorderTypes'
    BY <1>p, <1>4 DEF RecorderTypes, RecorderShape, StopStreamChannel, ClearCallback
  <2> QED
    BY <2>1, <2>2, <2>f, <2>b, <2>c, <2>r, TypesInParts
<1>5. CASE StopStreamChannelEnds
  <2>1. MainType'
    BY <1>5, <1>d DEF StopStreamChannelEnds, MainPC
  <2>2. SignalType'
    BY <1>a, <1>5 DEF StopStreamChannelEnds
  <2>f. FlagTypes' /\ EventTypes'
    BY <1>p, <1>5 DEF FlagTypes, EventTypes, StopStreamChannelEnds, ClearCallback
  <2>b. BufferTypes'
    BY <1>p, <1>5 DEF BufferTypes, StopStreamChannelEnds, ClearCallback
  <2>c. ConversionTypesOK'
    BY <1>p, <1>5 DEF ConversionTypesOK, StopStreamChannelEnds, ClearCallback
  <2>r. RecorderTypes'
    BY <1>p, <1>5 DEF RecorderTypes, RecorderShape, StopStreamChannelEnds, ClearCallback
  <2> QED
    BY <2>1, <2>2, <2>f, <2>b, <2>c, <2>r, TypesInParts
<1>6. CASE RecorderStopped
  <2>1. MainType'
    BY <1>6, <1>c DEF RecorderStopped
  <2>2. SignalType'
    BY <1>6, <1>b DEF RecorderStopped, Flags
  <2>3. callback' \in Formats \cup {"none"}
    BY <1>6 DEF RecorderStopped, ClearCallback
  <2>f. FlagTypes' /\ EventTypes'
    BY <1>p, <1>6, <2>3 DEF FlagTypes, EventTypes, RecorderStopped, ClearCallback
  <2>b. BufferTypes'
    BY <1>p, <1>6, <2>3 DEF BufferTypes, RecorderStopped, ClearCallback
  <2>c. ConversionTypesOK'
    BY <1>p, <1>6, <2>3 DEF ConversionTypesOK, RecorderStopped, ClearCallback
  <2>r. RecorderTypes'
    BY <1>p, <1>6, <2>3 DEF RecorderTypes, RecorderShape, RecorderStopped, ClearCallback
  <2> QED
    BY <2>1, <2>2, <2>f, <2>b, <2>c, <2>r, TypesInParts
<1>7. CASE CloseDevice
  <2>1. MainType'
    BY <1>7, <1>c DEF CloseDevice
  <2>2. SignalType'
    BY <1>7, <1>b DEF CloseDevice, Flags
  <2>3. held' \subseteq Buffers \X Processors /\ lastDone' \in MaybeBuffer /\ mail' \in MaybeBuffer
    BY <1>p, <1>7 DEF BufferTypes, CloseDevice, Done, MaybeBuffer
  <2>f. FlagTypes' /\ EventTypes'
    BY <1>p, <1>7, <2>3 DEF FlagTypes, EventTypes, CloseDevice, ClearCallback
  <2>b. BufferTypes'
    BY <1>p, <1>7, <2>3 DEF BufferTypes, CloseDevice, ClearCallback
  <2>c. ConversionTypesOK'
    BY <1>p, <1>7, <2>3 DEF ConversionTypesOK, CloseDevice, ClearCallback
  <2>r. RecorderTypes'
    BY <1>p, <1>7, <2>3 DEF RecorderTypes, RecorderShape, CloseDevice, ClearCallback
  <2> QED
    BY <2>1, <2>2, <2>f, <2>b, <2>c, <2>r, TypesInParts
<1>8. CASE DeleteUserBuffer
  <2>1. MainType'
    BY <1>8, <1>c DEF DeleteUserBuffer
  <2>2. SignalType'
    BY <1>8, <1>b DEF DeleteUserBuffer, Flags
  <2>3. held' \subseteq Buffers \X Processors /\ lastDone' \in MaybeBuffer /\ mail' \in MaybeBuffer
    BY <1>p, <1>8 DEF BufferTypes, DeleteUserBuffer, Done, MaybeBuffer
  <2>4. /\ conv' \in [pc : ConversionPC, buf : MaybeBuffer]
        /\ conv'.pc # "idle" => conv'.buf # NoBuffer
    BY <1>p, <1>8, BridgeAssumption DEF ConversionTypesOK, DeleteUserBuffer, MaybeBuffer, ConversionPC
  <2>f. FlagTypes' /\ EventTypes'
    BY <1>p, <1>8, <2>3, <2>4 DEF FlagTypes, EventTypes, DeleteUserBuffer, ClearCallback
  <2>b. BufferTypes'
    BY <1>p, <1>8, <2>3, <2>4 DEF BufferTypes, DeleteUserBuffer, ClearCallback
  <2>c. ConversionTypesOK'
    BY <1>p, <1>8, <2>3, <2>4 DEF ConversionTypesOK, DeleteUserBuffer, ClearCallback
  <2>r. RecorderTypes'
    BY <1>p, <1>8, <2>3, <2>4 DEF RecorderTypes, RecorderShape, DeleteUserBuffer, ClearCallback
  <2> QED
    BY <2>1, <2>2, <2>f, <2>b, <2>c, <2>r, TypesInParts
<1>9. CASE ReleaseRetained
  <2>1. MainType'
    BY <1>9, <1>d DEF ReleaseRetained, MainPC
  <2>2. SignalType'
    BY <1>a, <1>9 DEF ReleaseRetained
  <2>3. held' \subseteq Buffers \X Processors /\ lastDone' \in MaybeBuffer /\ mail' \in MaybeBuffer
    BY <1>p, <1>9 DEF BufferTypes, ReleaseRetained, Done, MaybeBuffer
  <2>f. FlagTypes' /\ EventTypes'
    BY <1>p, <1>9, <2>3 DEF FlagTypes, EventTypes, ReleaseRetained, ClearCallback
  <2>b. BufferTypes'
    BY <1>p, <1>9, <2>3 DEF BufferTypes, ReleaseRetained, ClearCallback
  <2>c. ConversionTypesOK'
    BY <1>p, <1>9, <2>3 DEF ConversionTypesOK, ReleaseRetained, ClearCallback
  <2>r. RecorderTypes'
    BY <1>p, <1>9, <2>3 DEF RecorderTypes, RecorderShape, ReleaseRetained, ClearCallback
  <2> QED
    BY <2>1, <2>2, <2>f, <2>b, <2>c, <2>r, TypesInParts
<1>10. CASE Flush
  <2>1. MainType'
    BY <1>10, <1>d DEF Flush, MainPC
  <2>2. SignalType'
    BY <1>a, <1>10 DEF Flush
  <2>3. held' \subseteq Buffers \X Processors /\ lastDone' \in MaybeBuffer /\ mail' \in MaybeBuffer
    BY <1>p, <1>10 DEF BufferTypes, Flush, Done, MaybeBuffer
  <2>f. FlagTypes' /\ EventTypes'
    BY <1>p, <1>10, <2>3 DEF FlagTypes, EventTypes, Flush, ClearCallback
  <2>b. BufferTypes'
    BY <1>p, <1>10, <2>3 DEF BufferTypes, Flush, ClearCallback
  <2>c. ConversionTypesOK'
    BY <1>p, <1>10, <2>3 DEF ConversionTypesOK, Flush, ClearCallback
  <2>r. RecorderTypes'
    BY <1>p, <1>10, <2>3 DEF RecorderTypes, RecorderShape, Flush, ClearCallback
  <2> QED
    BY <2>1, <2>2, <2>f, <2>b, <2>c, <2>r, TypesInParts
<1>11. CASE SetRecordingCallback
  <2>1. MainType'
    BY <1>11, <1>c DEF SetRecordingCallback
  <2>2. SignalType'
    BY <1>11, <1>b DEF SetRecordingCallback, Flags
  <2>3. callback' \in Formats \cup {"none"}
    <3>1. Head(main).format \in Formats /\ callback' = Head(main).format
      BY <1>a, <1>11, HeadIs DEF SetRecordingCallback
    <3> QED
      BY <3>1
  <2>f. FlagTypes' /\ EventTypes'
    BY <1>p, <1>11, <2>3 DEF FlagTypes, EventTypes, SetRecordingCallback, ClearCallback
  <2>b. BufferTypes'
    BY <1>p, <1>11, <2>3 DEF BufferTypes, SetRecordingCallback, ClearCallback
  <2>c. ConversionTypesOK'
    BY <1>p, <1>11, <2>3 DEF ConversionTypesOK, SetRecordingCallback, ClearCallback
  <2>r. RecorderTypes'
    BY <1>p, <1>11, <2>3 DEF RecorderTypes, RecorderShape, SetRecordingCallback, ClearCallback
  <2> QED
    BY <2>1, <2>2, <2>f, <2>b, <2>c, <2>r, TypesInParts
<1>12. CASE SaveImageEnds
  <2>1. MainType'
    BY <1>12, <1>c DEF SaveImageEnds
  <2>2. SignalType'
    BY <1>a, <1>12 DEF SaveImageEnds
  <2>f. FlagTypes' /\ EventTypes'
    BY <1>p, <1>12 DEF FlagTypes, EventTypes, SaveImageEnds, ClearCallback
  <2>b. BufferTypes'
    BY <1>p, <1>12 DEF BufferTypes, SaveImageEnds, ClearCallback
  <2>c. ConversionTypesOK'
    BY <1>p, <1>12 DEF ConversionTypesOK, SaveImageEnds, ClearCallback
  <2>r. RecorderTypes'
    BY <1>p, <1>12 DEF RecorderTypes, RecorderShape, SaveImageEnds, ClearCallback
  <2> QED
    BY <2>1, <2>2, <2>f, <2>b, <2>c, <2>r, TypesInParts
<1>13. CASE DialogEnds
  <2>1. MainType'
    BY <1>13, <1>c, <1>d DEF DialogEnds, MainPC
  <2>2. SignalType'
    BY <1>a, <1>13 DEF DialogEnds
  <2>f. FlagTypes' /\ EventTypes'
    BY <1>p, <1>13 DEF FlagTypes, EventTypes, DialogEnds, ClearCallback
  <2>b. BufferTypes'
    BY <1>p, <1>13 DEF BufferTypes, DialogEnds, ClearCallback
  <2>c. ConversionTypesOK'
    BY <1>p, <1>13 DEF ConversionTypesOK, DialogEnds, ClearCallback
  <2>r. RecorderTypes'
    BY <1>p, <1>13 DEF RecorderTypes, RecorderShape, DialogEnds, ClearCallback
  <2> QED
    BY <2>1, <2>2, <2>f, <2>b, <2>c, <2>r, TypesInParts
<1>14. CASE Undefined
  <2>1. MainType'
    BY <1>a, <1>14 DEF Undefined
  <2>2. SignalType'
    BY <1>a, <1>14 DEF Undefined
  <2>f. FlagTypes' /\ EventTypes'
    BY <1>p, <1>14 DEF FlagTypes, EventTypes, Undefined, ClearCallback
  <2>b. BufferTypes'
    BY <1>p, <1>14 DEF BufferTypes, Undefined, ClearCallback
  <2>c. ConversionTypesOK'
    BY <1>p, <1>14 DEF ConversionTypesOK, Undefined, ClearCallback
  <2>r. RecorderTypes'
    BY <1>p, <1>14 DEF RecorderTypes, RecorderShape, Undefined, ClearCallback
  <2> QED
    BY <2>1, <2>2, <2>f, <2>b, <2>c, <2>r, TypesInParts
<1>15. CASE RecorderStops
  <2>1. MainType'
    BY <1>15, <1>c, <1>d DEF RecorderStops, MainPC
  <2>2. SignalType'
    BY <1>a, <1>15 DEF RecorderStops
  <2>3. RecorderShape' /\ recorder'.recording \in BOOLEAN /\ recorder'.format \in Formats
    BY <1>p, <1>15, RecorderKeepsShape DEF RecorderTypes, RecorderShape, RecorderStops
  <2>f. FlagTypes' /\ EventTypes'
    BY <1>p, <1>15, <2>3 DEF FlagTypes, EventTypes, RecorderStops, ClearCallback
  <2>b. BufferTypes'
    BY <1>p, <1>15, <2>3 DEF BufferTypes, RecorderStops, ClearCallback
  <2>c. ConversionTypesOK'
    BY <1>p, <1>15, <2>3 DEF ConversionTypesOK, RecorderStops, ClearCallback
  <2>r. RecorderTypes'
    BY <1>p, <1>15, <2>3 DEF RecorderTypes, RecorderShape, RecorderStops, ClearCallback
  <2> QED
    BY <2>1, <2>2, <2>f, <2>b, <2>c, <2>r, TypesInParts
<1>16. CASE StartRecording
  <2>1. MainType'
    BY <1>16, <1>c, <1>d DEF StartRecording, MainPC
  <2>2. SignalType'
    BY <1>a, <1>16 DEF StartRecording
  <2>3. Head(main).format \in Formats
    BY <1>a, <1>16, HeadIs DEF StartRecording
  <2>4. RecorderShape' /\ recorder'.recording \in BOOLEAN /\ recorder'.format \in Formats
    <3>1. CASE UNCHANGED recorder
      BY <1>p, <3>1 DEF RecorderTypes, RecorderShape
    <3>2. CASE recorder' = Started(Head(main).format, MaxBytes)
      BY <2>3, <3>2, StartedIs DEF RecorderShape
    <3> QED
      BY <1>16, <3>1, <3>2 DEF StartRecording
  <2>f. FlagTypes' /\ EventTypes'
    BY <1>p, <1>16, <2>4 DEF FlagTypes, EventTypes, StartRecording, ClearCallback
  <2>b. BufferTypes'
    BY <1>p, <1>16, <2>4 DEF BufferTypes, StartRecording, ClearCallback
  <2>c. ConversionTypesOK'
    BY <1>p, <1>16, <2>4 DEF ConversionTypesOK, StartRecording, ClearCallback
  <2>r. RecorderTypes'
    BY <1>p, <1>16, <2>4 DEF RecorderTypes, RecorderShape, StartRecording, ClearCallback
  <2> QED
    BY <2>1, <2>2, <2>f, <2>b, <2>c, <2>r, TypesInParts
<1> QED
  BY <1>1, <1>2, <1>3, <1>4, <1>5, <1>6, <1>7, <1>8, <1>9, <1>10, <1>11, <1>12, <1>13, <1>14, <1>15, <1>16 DEF MainThread

LEMMA HandlerTypes == Types /\ Handler => Types'
<1> SUFFICES ASSUME Types, Handler PROVE Types'
  OBVIOUS
<1> DEFINE SignalType == signals \in Seq(Signal)
           MainType == main \in Seq(Activation)
           EventType == events \in Seq(Event)
<1>a. TypeOK /\ RecorderShape /\ SignalType /\ MainType /\ EventType
  BY DEF Types, TypeOK, Signal, Activation, Event
<1>b. ASSUME NEW flag \in Flags, NEW value \in BOOLEAN, Emit(flag, value) PROVE SignalType'
  <2>1. [flag |-> flag, value |-> value] \in Signal
    BY DEF Signal
  <2> QED
    BY <1>a, <1>b, <2>1 DEF Emit
<1>c. ASSUME NEW p \in Seq(Activation), main' = p \o main PROVE MainType'
  BY <1>a, <1>c, Prepend
<1>d. ASSUME NEW x \in Activation, main' = <<x>> \o main PROVE MainType'
  <2>1. <<x>> \in Seq(Activation)
    OBVIOUS
  <2> QED
    BY <1>c, <1>d, <2>1
<1>e. EventType' /\ page' = page /\ events # <<>> /\ Head(events).format \in Formats
  <2>1. events # <<>> /\ events' = Tail(events) /\ page' = page
    BY DEF Handler, OpenCamera, CloseCamera, StartStreaming, StopStreaming, RecordDialog,
           StopRecording, SaveImageDialog, OnRecordingStopped, Called
  <2>2. Tail(events) \in Seq(Event) /\ Head(events) \in Event
    BY <1>a, <2>1
  <2> QED
    BY <2>1, <2>2 DEF Event
<1>f. \A pc \in MainPC : At(pc) \in Activation
  BY AtIsActivation
<1>p. FlagTypes /\ BufferTypes /\ ConversionTypesOK /\ RecorderTypes /\ EventTypes
  BY TypesInParts
<1> USE DEF vars, camera, capture, recording, channel
<1>1. CASE OpenCamera
  <2>1. MainType'
    BY <1>a, <1>d, <1>f, <1>1 DEF OpenCamera, MainPC
  <2>2. SignalType'
    BY <1>a, <1>b, <1>1 DEF OpenCamera, Flags
  <2>3. open' \in BOOLEAN
    BY <1>p, <1>1 DEF FlagTypes, OpenCamera
  <2>f. FlagTypes' /\ EventTypes'
    BY <1>p, <1>e, <1>1, <2>3 DEF FlagTypes, EventTypes, OpenCamera
  <2>b. BufferTypes'
    BY <1>p, <1>e, <1>1, <2>3 DEF BufferTypes, OpenCamera
  <2>c. ConversionTypesOK'
    BY <1>p, <1>e, <1>1, <2>3 DEF ConversionTypesOK, OpenCamera
  <2>r. RecorderTypes'
    BY <1>p, <1>e, <1>1, <2>3 DEF RecorderTypes, RecorderShape, OpenCamera
  <2> QED
    BY <2>1, <2>2, <2>f, <2>b, <2>c, <2>r, TypesInParts
<1>2. CASE CloseCamera
  <2>1. MainType'
    <3>1. StopStream \o <<At("close")>> \in Seq(Activation)
      <4>1. StopStream \in Seq(Activation) /\ At("close") \in Activation
        BY <1>f, StopStreamIs DEF MainPC
      <4> HIDE DEF TypeOK
      <4> QED
        BY <4>1
    <3> QED
      BY <1>a, <1>c, <1>2, <3>1 DEF CloseCamera
  <2>2. SignalType'
    BY <1>a, <1>2 DEF CloseCamera
  <2>f. FlagTypes' /\ EventTypes'
    BY <1>p, <1>e, <1>2 DEF FlagTypes, EventTypes, CloseCamera
  <2>b. BufferTypes'
    BY <1>p, <1>e, <1>2 DEF BufferTypes, CloseCamera
  <2>c. ConversionTypesOK'
    BY <1>p, <1>e, <1>2 DEF ConversionTypesOK, CloseCamera
  <2>r. RecorderTypes'
    BY <1>p, <1>e, <1>2 DEF RecorderTypes, RecorderShape, CloseCamera
  <2> QED
    BY <2>1, <2>2, <2>f, <2>b, <2>c, <2>r, TypesInParts
<1>3. CASE StartStreaming
  <2>1. MainType'
    BY <1>a, <1>d, <1>f, <1>3 DEF StartStreaming, MainPC
  <2>2. SignalType'
    BY <1>a, <1>3 DEF StartStreaming
  <2>f. FlagTypes' /\ EventTypes'
    BY <1>p, <1>e, <1>3 DEF FlagTypes, EventTypes, StartStreaming
  <2>b. BufferTypes'
    BY <1>p, <1>e, <1>3 DEF BufferTypes, StartStreaming
  <2>c. ConversionTypesOK'
    BY <1>p, <1>e, <1>3 DEF ConversionTypesOK, StartStreaming
  <2>r. RecorderTypes'
    BY <1>p, <1>e, <1>3 DEF RecorderTypes, RecorderShape, StartStreaming
  <2> QED
    BY <2>1, <2>2, <2>f, <2>b, <2>c, <2>r, TypesInParts
<1>4. CASE StopStreaming
  <2>1. MainType'
    BY <1>a, <1>c, <1>4, StopStreamIs DEF StopStreaming
  <2>2. SignalType'
    BY <1>a, <1>4 DEF StopStreaming
  <2>f. FlagTypes' /\ EventTypes'
    BY <1>p, <1>e, <1>4 DEF FlagTypes, EventTypes, StopStreaming
  <2>b. BufferTypes'
    BY <1>p, <1>e, <1>4 DEF BufferTypes, StopStreaming
  <2>c. ConversionTypesOK'
    BY <1>p, <1>e, <1>4 DEF ConversionTypesOK, StopStreaming
  <2>r. RecorderTypes'
    BY <1>p, <1>e, <1>4 DEF RecorderTypes, RecorderShape, StopStreaming
  <2> QED
    BY <2>1, <2>2, <2>f, <2>b, <2>c, <2>r, TypesInParts
<1>5. CASE RecordDialog
  <2>1. MainType'
    <3>1. [pc |-> "dialog", format |-> Head(events).format] \in Activation
      BY <1>e DEF Activation, MainPC
    <3> QED
      BY <1>a, <1>d, <1>5, <3>1 DEF RecordDialog
  <2>2. SignalType'
    BY <1>a, <1>5 DEF RecordDialog
  <2>f. FlagTypes' /\ EventTypes'
    BY <1>p, <1>e, <1>5 DEF FlagTypes, EventTypes, RecordDialog
  <2>b. BufferTypes'
    BY <1>p, <1>e, <1>5 DEF BufferTypes, RecordDialog
  <2>c. ConversionTypesOK'
    BY <1>p, <1>e, <1>5 DEF ConversionTypesOK, RecordDialog
  <2>r. RecorderTypes'
    BY <1>p, <1>e, <1>5 DEF RecorderTypes, RecorderShape, RecordDialog
  <2> QED
    BY <2>1, <2>2, <2>f, <2>b, <2>c, <2>r, TypesInParts
<1>6. CASE StopRecording
  <2>1. MainType'
    BY <1>a, <1>c, <1>6, StopStreamIs DEF StopRecording
  <2>2. SignalType'
    BY <1>a, <1>6 DEF StopRecording
  <2>f. FlagTypes' /\ EventTypes'
    BY <1>p, <1>e, <1>6 DEF FlagTypes, EventTypes, StopRecording
  <2>b. BufferTypes'
    BY <1>p, <1>e, <1>6 DEF BufferTypes, StopRecording
  <2>c. ConversionTypesOK'
    BY <1>p, <1>e, <1>6 DEF ConversionTypesOK, StopRecording
  <2>r. RecorderTypes'
    BY <1>p, <1>e, <1>6 DEF RecorderTypes, RecorderShape, StopRecording
  <2> QED
    BY <2>1, <2>2, <2>f, <2>b, <2>c, <2>r, TypesInParts
<1>7. CASE SaveImageDialog
  <2>1. MainType'
    BY <1>a, <1>d, <1>f, <1>7 DEF SaveImageDialog, MainPC
  <2>2. SignalType'
    BY <1>a, <1>7 DEF SaveImageDialog
  <2>f. FlagTypes' /\ EventTypes'
    BY <1>p, <1>e, <1>7 DEF FlagTypes, EventTypes, SaveImageDialog
  <2>b. BufferTypes'
    BY <1>p, <1>e, <1>7 DEF BufferTypes, SaveImageDialog
  <2>c. ConversionTypesOK'
    BY <1>p, <1>e, <1>7 DEF ConversionTypesOK, SaveImageDialog
  <2>r. RecorderTypes'
    BY <1>p, <1>e, <1>7 DEF RecorderTypes, RecorderShape, SaveImageDialog
  <2> QED
    BY <2>1, <2>2, <2>f, <2>b, <2>c, <2>r, TypesInParts
<1>8. CASE OnRecordingStopped
  <2>1. MainType'
    BY <1>a, <1>8 DEF OnRecordingStopped
  <2>2. SignalType'
    BY <1>a, <1>b, <1>8 DEF OnRecordingStopped, Flags
  <2>f. FlagTypes' /\ EventTypes'
    BY <1>p, <1>e, <1>8 DEF FlagTypes, EventTypes, OnRecordingStopped, ClearCallback
  <2>b. BufferTypes'
    BY <1>p, <1>e, <1>8 DEF BufferTypes, OnRecordingStopped, ClearCallback
  <2>c. ConversionTypesOK'
    BY <1>p, <1>e, <1>8 DEF ConversionTypesOK, OnRecordingStopped, ClearCallback
  <2>r. RecorderTypes'
    BY <1>p, <1>e, <1>8 DEF RecorderTypes, RecorderShape, OnRecordingStopped, ClearCallback
  <2> QED
    BY <2>1, <2>2, <2>f, <2>b, <2>c, <2>r, TypesInParts
<1> QED
  BY <1>1, <1>2, <1>3, <1>4, <1>5, <1>6, <1>7, <1>8 DEF Handler

LEMMA TypesKept == Types /\ [Next]_vars => Types'
<1>1. Types /\ UNCHANGED vars => Types'
  BY DEF Types, TypeOK, RecorderShape, vars, camera, capture, recording, channel
<1> QED
  BY <1>1, FrameThreadTypes, MainThreadTypes, HandlerTypes, ConversionTypes, PageTypes DEF Next

(* Every variable has its type: the threads are where the code can be, and *)
(* a conversion that has taken a frame has one to give back.               *)
THEOREM BridgeTypeCorrect == Spec => []TypeOK
<1>1. Spec => []Types
  BY InitTypes, TypesKept, PTL DEF Spec
<1> QED
  BY <1>1, PTL DEF Types

-----------------------------------------------------------------------------
(* The stack keeps its shape. *)

LEMMA ReturnShape ==
  ASSUME TypeOK, main # <<>>, StackShape, OneStop, CloseWaits, Return,
         main[1].pc \in StopPC => ~streaming'
  PROVE  /\ StackShape' /\ OneStop' /\ CloseWaits'
         /\ \A i \in DOMAIN main' : i + 1 \in DOMAIN main /\ main'[i] = main[i + 1]
         /\ main' # <<>> =>
              /\ 1 \in DOMAIN main' /\ Head(main') = main'[1]
              /\ \/ main'[1].pc \in {"dialog", "saving", "wait", "close"}
                 \/ main'[1].pc = "flag" /\ main[1].pc \in {"clear", "finish", "finished"}
<1>1. /\ main' \in Seq(Activation)
      /\ DOMAIN main' = 1 .. Len(main) - 1 /\ DOMAIN main = 1 .. Len(main)
      /\ main' # <<>> => 1 \in DOMAIN main' /\ Head(main') = main'[1]
      /\ \A i \in DOMAIN main' : i + 1 \in DOMAIN main /\ main'[i] = main[i + 1]
  BY ReturnIs
<1>2. Len(main) \in Nat
  BY ActivationType
<1>3. StackShape'
  BY <1>1, <1>2 DEF StackShape
<1>4. OneStop'
  BY <1>1, <1>2 DEF OneStop
<1>5. CloseWaits'
  <2> SUFFICES ASSUME NEW i \in DOMAIN main', main'[i].pc = "close"
               PROVE  (i = 1 /\ ~streaming') \/ (i > 1 /\ main'[i - 1].pc \in StopPC)
    BY DEF CloseWaits
  <2>1. i + 1 \in DOMAIN main /\ main[i + 1].pc = "close" /\ i \in 1 .. Len(main) - 1
    BY <1>1
  <2>2. main[i].pc \in StopPC
    <3>1. i + 1 = 1 \/ main[(i + 1) - 1].pc \in StopPC
      BY <2>1 DEF CloseWaits
    <3>2. (i + 1) - 1 = i /\ i + 1 # 1
      BY <1>2, <2>1
    <3> QED
      BY <3>1, <3>2
  <2>3. i > 1 => i - 1 \in DOMAIN main' /\ main'[i - 1] = main[i]
    BY <1>1, <1>2, <2>1
  <2> QED
    BY <2>1, <2>2, <2>3, <1>2
<1>6. main' # <<>> =>
        \/ main'[1].pc \in {"dialog", "saving", "wait", "close"}
        \/ main'[1].pc = "flag" /\ main[1].pc \in {"clear", "finish", "finished"}
  BY <1>1 DEF StackShape
<1> QED
  BY <1>1, <1>3, <1>4, <1>5, <1>6

LEMMA GoToShape ==
  ASSUME TypeOK, main # <<>>, StackShape, OneStop, CloseWaits, NEW pc \in MainPC, GoTo(pc),
         main[1].pc \in StopPC <=> pc \in StopPC, pc # "close",
         main[1].pc \in {"clear", "finish"} => pc \in {"finish", "finished"},
         main[1].pc # "finished"
  PROVE  StackShape' /\ OneStop' /\ CloseWaits'
<1>1. /\ DOMAIN main' = DOMAIN main /\ DOMAIN main = 1 .. Len(main) /\ Len(main) \in Nat
      /\ 1 \in DOMAIN main /\ main'[1].pc = pc
      /\ \A i \in DOMAIN main : i > 1 => main'[i] = main[i]
  BY GoToIs, ActivationType
<1>2. StackShape'
  BY <1>1 DEF StackShape
<1>3. OneStop'
  <2> SUFFICES ASSUME NEW i \in DOMAIN main', NEW j \in DOMAIN main',
                      main'[i].pc \in StopPC, main'[j].pc \in StopPC
               PROVE  i = j
    BY DEF OneStop
  <2>1. main[i].pc \in StopPC /\ main[j].pc \in StopPC
    BY <1>1
  <2> QED
    BY <1>1, <2>1 DEF OneStop
<1>4. CloseWaits'
  <2> SUFFICES ASSUME NEW i \in DOMAIN main', main'[i].pc = "close"
               PROVE  i > 1 /\ main'[i - 1].pc \in StopPC
    BY DEF CloseWaits
  <2>1. i > 1 /\ i \in DOMAIN main /\ main[i].pc = "close"
    BY <1>1
  <2>2. i - 1 \in DOMAIN main /\ main[i - 1].pc \in StopPC
    BY <1>1, <2>1 DEF CloseWaits
  <2>3. main'[i - 1].pc \in StopPC
    <3>1. CASE i - 1 = 1
      BY <1>1, <2>2, <3>1
    <3>2. CASE i - 1 > 1
      BY <1>1, <2>2, <3>2
    <3> QED
      BY <1>1, <2>1, <2>2, <3>1, <3>2
  <2> QED
    BY <2>1, <2>3
<1> QED
  BY <1>2, <1>3, <1>4

(* What runs the event loop is a dialog or the wait for callbacks. *)
LEMMA EventLoopShape ==
  ASSUME TypeOK, StackShape, EventLoop
  PROVE  \A i \in DOMAIN main : main[i].pc \in {"dialog", "saving", "wait", "close"}
                                /\ (main[i].pc = "close" => i > 1)
<1>1. main # <<>> => Head(main) = main[1] /\ 1 \in DOMAIN main
  BY HeadIs
<1>2. DOMAIN main = 1 .. Len(main) /\ Len(main) \in Nat /\ (main = <<>> => DOMAIN main = {})
  BY ActivationType
<1> QED
  BY <1>1, <1>2 DEF EventLoop, RunsAt, StackShape

LEMMA PushShape ==
  ASSUME TypeOK, StackShape, OneStop, CloseWaits, EventLoop,
         NEW p \in Seq(Activation), main' = p \o main, Len(p) > 0,
         \A i \in 1 .. Len(p) : i > 1 =>
            p[i].pc = "close" \/ (p[i].pc = "flag" /\ i = 2 /\ p[1].pc = "clear"),
         \A i, j \in 1 .. Len(p) : p[i].pc \in StopPC /\ p[j].pc \in StopPC => i = j,
         \A i \in 1 .. Len(p), j \in DOMAIN main : p[i].pc \in StopPC => main[j].pc \notin StopPC,
         \A i \in 1 .. Len(p) : p[i].pc = "close" =>
            (i = 1 /\ ~streaming') \/ (i > 1 /\ p[i - 1].pc \in StopPC)
  PROVE  /\ StackShape' /\ OneStop' /\ CloseWaits'
         /\ main' # <<>> /\ Head(main') = p[1]
         /\ DOMAIN main' = 1 .. Len(p) + Len(main) /\ DOMAIN main = 1 .. Len(main)
         /\ \A i \in 1 .. Len(p) : main'[i] = p[i]
         /\ \A i \in DOMAIN main' : i > Len(p) =>
              i - Len(p) \in DOMAIN main /\ main'[i] = main[i - Len(p)]
<1>1. /\ main' \in Seq(Activation) /\ DOMAIN main' = 1 .. Len(p) + Len(main)
      /\ \A i \in 1 .. Len(p) : main'[i] = p[i]
      /\ \A i \in 1 .. Len(main) : main'[i + Len(p)] = main[i]
      /\ DOMAIN main = 1 .. Len(main) /\ Len(main) \in Nat /\ Len(p) \in Nat
  BY ActivationType, Prepend
<1>2. \A i \in DOMAIN main' : i > Len(p) =>
        i - Len(p) \in DOMAIN main /\ main'[i] = main[i - Len(p)]
  <2> SUFFICES ASSUME NEW i \in DOMAIN main', i > Len(p)
               PROVE  i - Len(p) \in DOMAIN main /\ main'[i] = main[i - Len(p)]
    OBVIOUS
  <2>1. i - Len(p) \in 1 .. Len(main) /\ (i - Len(p)) + Len(p) = i
    BY <1>1
  <2> QED
    BY <1>1, <2>1
<1>3. main' # <<>> /\ Head(main') = p[1]
  BY <1>1
<1>4. \A i \in DOMAIN main : main[i].pc \in {"dialog", "saving", "wait", "close"}
                            /\ (main[i].pc = "close" => i > 1)
  BY EventLoopShape
<1>5. StackShape'
  <2> SUFFICES ASSUME NEW i \in DOMAIN main', i > 1
               PROVE  \/ main'[i].pc \in {"dialog", "saving", "wait", "close"}
                      \/ main'[i].pc = "flag" /\ i = 2 /\ main'[1].pc = "clear"
    BY DEF StackShape
  <2>1. CASE i \in 1 .. Len(p)
    BY <1>1, <2>1
  <2>2. CASE i > Len(p)
    BY <1>2, <1>4, <2>2
  <2> QED
    BY <1>1, <2>1, <2>2
<1>6. OneStop'
  <2> SUFFICES ASSUME NEW i \in DOMAIN main', NEW j \in DOMAIN main',
                      main'[i].pc \in StopPC, main'[j].pc \in StopPC
               PROVE  i = j
    BY DEF OneStop
  <2>1. CASE i \in 1 .. Len(p) /\ j \in 1 .. Len(p)
    BY <1>1, <2>1
  <2>2. CASE i > Len(p) /\ j > Len(p)
    <3>1. i - Len(p) = j - Len(p)
      BY <1>2, <2>2 DEF OneStop
    <3> QED
      BY <1>1, <3>1
  <2> QED
    BY <1>1, <1>2, <2>1, <2>2
<1>7. CloseWaits'
  <2> SUFFICES ASSUME NEW i \in DOMAIN main', main'[i].pc = "close"
               PROVE  (i = 1 /\ ~streaming') \/ (i > 1 /\ main'[i - 1].pc \in StopPC)
    BY DEF CloseWaits
  <2>1. CASE i \in 1 .. Len(p)
    BY <1>1, <2>1
  <2>2. CASE i > Len(p)
    <3> DEFINE k == i - Len(p)
    <3>1. k \in DOMAIN main /\ k > 1 /\ main[k].pc = "close"
      BY <1>2, <1>4, <2>2
    <3>2. main[k - 1].pc \in StopPC
      BY <3>1 DEF CloseWaits
    <3>3. i - 1 \in DOMAIN main' /\ i - 1 > Len(p) /\ (i - 1) - Len(p) = k - 1
      BY <1>1, <2>2, <3>1
    <3> QED
      BY <1>1, <1>2, <2>2, <3>1, <3>2, <3>3
  <2> QED
    BY <1>1, <2>1, <2>2
<1> QED
  BY <1>1, <1>2, <1>3, <1>5, <1>6, <1>7

(* The other threads leave the stack and the stream alone; after the wait  *)
(* the frame thread no longer reads frames.                                *)
LEMMA OthersKeepStack ==
  TypeOK /\ StackInv /\ (FrameThread \/ ConversionTakes \/ ConversionThread \/ Page \/ UNCHANGED vars)
    => StackInv'
<1> SUFFICES ASSUME TypeOK, StackInv,
                    FrameThread \/ ConversionTakes \/ ConversionThread \/ Page \/ UNCHANGED vars
             PROVE  StackInv'
  OBVIOUS
<1>1. UNCHANGED <<open, streaming, streamon, capturing, main>>
  BY DEF FrameThread, FrameArrives, Processor2, PushFrame, Processor3, Retain, RetainReleasesPrevious,
         RetainStores, ConversionTakes, ConversionThread, ConversionLocksRecord, ConversionRecords,
         ConversionGivesBack, Page, PageHears, PageCalls, vars, camera, capture, recording, channel
<1>2. ft.pc = "idle" /\ ~capturing => ft'.pc = "idle"
  BY DEF FrameThread, FrameArrives, Processor2, PushFrame, Processor3, Retain, RetainReleasesPrevious,
         RetainStores, ConversionTakes, ConversionThread, ConversionLocksRecord, ConversionRecords,
         ConversionGivesBack, Page, PageHears, PageCalls, vars, camera, capture, recording, channel
<1>3. StackShape' /\ OneStop' /\ CloseWaits' /\ StreamRuns'
  BY <1>1 DEF StackInv, StackShape, OneStop, CloseWaits, StreamRuns, RunsAt
<1>4. StopIsFinal'
  BY <1>1, <1>2 DEF StackInv, StopIsFinal, RunsAt
<1> QED
  BY <1>3, <1>4 DEF StackInv

LEMMA MainThreadKeepsStack == TypeOK /\ StackInv /\ MainThread => StackInv'
<1> SUFFICES ASSUME TypeOK, StackInv, MainThread PROVE StackInv'
  OBVIOUS
<1>a. StackShape /\ OneStop /\ CloseWaits /\ StopIsFinal /\ StreamRuns
  BY DEF StackInv
<1>b. main # <<>> /\ Head(main) = main[1] /\ 1 \in DOMAIN main
  <2>1. main # <<>>
    BY DEF MainThread, StartStreamingEnds, ClearRecordingCallback, RecorderStops, RecorderStopped,
       ClearStreaming, ReleaseRetained, Flush, StopStreamChannel, StopStreamChannelEnds, DeleteUserBuffer,
       CloseDevice, DialogEnds, StartRecording, SetRecordingCallback, SaveImageEnds, Undefined, RunsAt
  <2> QED
    BY <2>1, HeadIs
<1>c. DOMAIN main = 1 .. Len(main) /\ Len(main) \in Nat
  BY ActivationType
<1> USE DEF vars, camera, capture, recording, channel, RunsAt, StopPC
<1>1. CASE StartStreamingEnds
  <2>1. /\ StackShape' /\ OneStop' /\ CloseWaits'
        /\ \A i \in DOMAIN main' : i + 1 \in DOMAIN main /\ main'[i] = main[i + 1]
        /\ main' # <<>> =>
             /\ 1 \in DOMAIN main' /\ Head(main') = main'[1]
             /\ \/ main'[1].pc \in {"dialog", "saving", "wait", "close"}
                \/ main'[1].pc = "flag" /\ main[1].pc \in {"clear", "finish", "finished"}
    BY <1>a, <1>b, <1>1, ReturnShape DEF StartStreamingEnds, StopIsFinal
  <2>2. StopIsFinal'
    BY <1>a, <1>b, <1>c, <1>1, <2>1 DEF StartStreamingEnds, StopIsFinal, OneStop, StreamRuns
  <2>3. StreamRuns'
    BY <1>a, <1>b, <1>c, <1>1, <2>1 DEF StartStreamingEnds, StopIsFinal, OneStop, StreamRuns, CloseWaits
  <2> QED
    BY <2>1, <2>2, <2>3 DEF StackInv
<1>2. CASE RecorderStopped
  <2>1. /\ StackShape' /\ OneStop' /\ CloseWaits'
        /\ \A i \in DOMAIN main' : i + 1 \in DOMAIN main /\ main'[i] = main[i + 1]
        /\ main' # <<>> =>
             /\ 1 \in DOMAIN main' /\ Head(main') = main'[1]
             /\ \/ main'[1].pc \in {"dialog", "saving", "wait", "close"}
                \/ main'[1].pc = "flag" /\ main[1].pc \in {"clear", "finish", "finished"}
    BY <1>a, <1>b, <1>2, ReturnShape DEF RecorderStopped, StopIsFinal
  <2>2. StopIsFinal'
    BY <1>a, <1>b, <1>c, <1>2, <2>1 DEF RecorderStopped, StopIsFinal, OneStop, StreamRuns
  <2>3. StreamRuns'
    BY <1>a, <1>b, <1>c, <1>2, <2>1 DEF RecorderStopped, StopIsFinal, OneStop, StreamRuns, CloseWaits
  <2> QED
    BY <2>1, <2>2, <2>3 DEF StackInv
<1>3. CASE DeleteUserBuffer
  <2>1. /\ StackShape' /\ OneStop' /\ CloseWaits'
        /\ \A i \in DOMAIN main' : i + 1 \in DOMAIN main /\ main'[i] = main[i + 1]
        /\ main' # <<>> =>
             /\ 1 \in DOMAIN main' /\ Head(main') = main'[1]
             /\ \/ main'[1].pc \in {"dialog", "saving", "wait", "close"}
                \/ main'[1].pc = "flag" /\ main[1].pc \in {"clear", "finish", "finished"}
    BY <1>a, <1>b, <1>3, ReturnShape DEF DeleteUserBuffer, StopIsFinal
  <2>2. StopIsFinal'
    <3>1. \A i \in DOMAIN main' : main'[i].pc \notin StopPC
      <4>1. main[1].pc \in StopPC
        BY <1>b, <1>3 DEF DeleteUserBuffer
      <4>2. \A i \in DOMAIN main : i > 1 => main[i].pc \notin StopPC
        BY <1>a, <1>b, <1>c, <4>1 DEF OneStop
      <4> QED
        BY <1>c, <2>1, <4>2
    <3> QED
      BY <3>1 DEF StopIsFinal
  <2>3. StreamRuns'
    BY <1>a, <1>b, <1>c, <1>3, <2>1 DEF DeleteUserBuffer, StopIsFinal, OneStop, StreamRuns, CloseWaits
  <2> QED
    BY <2>1, <2>2, <2>3 DEF StackInv
<1>4. CASE CloseDevice
  <2>1. /\ StackShape' /\ OneStop' /\ CloseWaits'
        /\ \A i \in DOMAIN main' : i + 1 \in DOMAIN main /\ main'[i] = main[i + 1]
        /\ main' # <<>> =>
             /\ 1 \in DOMAIN main' /\ Head(main') = main'[1]
             /\ \/ main'[1].pc \in {"dialog", "saving", "wait", "close"}
                \/ main'[1].pc = "flag" /\ main[1].pc \in {"clear", "finish", "finished"}
    BY <1>a, <1>b, <1>4, ReturnShape DEF CloseDevice, StopIsFinal
  <2>2. StopIsFinal'
    BY <1>a, <1>b, <1>c, <1>4, <2>1 DEF CloseDevice, StopIsFinal, OneStop, StreamRuns
  <2>3. StreamRuns'
    BY <1>a, <1>b, <1>c, <1>4, <2>1 DEF CloseDevice, StopIsFinal, OneStop, StreamRuns, CloseWaits
  <2> QED
    BY <2>1, <2>2, <2>3 DEF StackInv
<1>5. CASE SetRecordingCallback
  <2>1. /\ StackShape' /\ OneStop' /\ CloseWaits'
        /\ \A i \in DOMAIN main' : i + 1 \in DOMAIN main /\ main'[i] = main[i + 1]
        /\ main' # <<>> =>
             /\ 1 \in DOMAIN main' /\ Head(main') = main'[1]
             /\ \/ main'[1].pc \in {"dialog", "saving", "wait", "close"}
                \/ main'[1].pc = "flag" /\ main[1].pc \in {"clear", "finish", "finished"}
    BY <1>a, <1>b, <1>5, ReturnShape DEF SetRecordingCallback, StopIsFinal
  <2>2. StopIsFinal'
    BY <1>a, <1>b, <1>c, <1>5, <2>1 DEF SetRecordingCallback, StopIsFinal, OneStop, StreamRuns
  <2>3. StreamRuns'
    BY <1>a, <1>b, <1>c, <1>5, <2>1 DEF SetRecordingCallback, StopIsFinal, OneStop, StreamRuns, CloseWaits
  <2> QED
    BY <2>1, <2>2, <2>3 DEF StackInv
<1>6. CASE SaveImageEnds
  <2>1. /\ StackShape' /\ OneStop' /\ CloseWaits'
        /\ \A i \in DOMAIN main' : i + 1 \in DOMAIN main /\ main'[i] = main[i + 1]
        /\ main' # <<>> =>
             /\ 1 \in DOMAIN main' /\ Head(main') = main'[1]
             /\ \/ main'[1].pc \in {"dialog", "saving", "wait", "close"}
                \/ main'[1].pc = "flag" /\ main[1].pc \in {"clear", "finish", "finished"}
    BY <1>a, <1>b, <1>6, ReturnShape DEF SaveImageEnds, StopIsFinal
  <2>2. StopIsFinal'
    BY <1>a, <1>b, <1>c, <1>6, <2>1 DEF SaveImageEnds, StopIsFinal, OneStop, StreamRuns
  <2>3. StreamRuns'
    BY <1>a, <1>b, <1>c, <1>6, <2>1 DEF SaveImageEnds, StopIsFinal, OneStop, StreamRuns, CloseWaits
  <2> QED
    BY <2>1, <2>2, <2>3 DEF StackInv
<1>7. CASE ClearRecordingCallback
  <2>1. StackShape' /\ OneStop' /\ CloseWaits'
    BY <1>a, <1>b, <1>7, GoToShape DEF ClearRecordingCallback, MainPC
  <2>2. /\ DOMAIN main' = DOMAIN main /\ main' # <<>> /\ Head(main') = main'[1] /\ main'[1].pc = "finish"
        /\ \A i \in DOMAIN main : i > 1 => main'[i] = main[i]
    BY <1>b, <1>7, GoToIs DEF ClearRecordingCallback, MainPC
  <2>3. StopIsFinal'
    BY <1>a, <1>b, <1>c, <1>7, <2>2 DEF ClearRecordingCallback, StopIsFinal, OneStop, StreamRuns
  <2>4. StreamRuns'
    BY <1>a, <1>b, <1>c, <1>7, <2>2 DEF ClearRecordingCallback, StopIsFinal, OneStop, StreamRuns
  <2> QED
    BY <2>1, <2>3, <2>4 DEF StackInv
<1>8. CASE ClearStreaming
  <2>1. StackShape' /\ OneStop' /\ CloseWaits'
    BY <1>a, <1>b, <1>8, GoToShape DEF ClearStreaming, MainPC
  <2>2. /\ DOMAIN main' = DOMAIN main /\ main' # <<>> /\ Head(main') = main'[1] /\ main'[1].pc = "release"
        /\ \A i \in DOMAIN main : i > 1 => main'[i] = main[i]
    BY <1>b, <1>8, GoToIs DEF ClearStreaming, MainPC
  <2>3. StopIsFinal'
    BY <1>a, <1>b, <1>c, <1>8, <2>2 DEF ClearStreaming, StopIsFinal, OneStop, StreamRuns
  <2>4. StreamRuns'
    BY <1>a, <1>b, <1>c, <1>8, <2>2 DEF ClearStreaming, StopIsFinal, OneStop, StreamRuns
  <2> QED
    BY <2>1, <2>3, <2>4 DEF StackInv
<1>9. CASE ReleaseRetained
  <2>1. StackShape' /\ OneStop' /\ CloseWaits'
    BY <1>a, <1>b, <1>9, GoToShape DEF ReleaseRetained, MainPC
  <2>2. /\ DOMAIN main' = DOMAIN main /\ main' # <<>> /\ Head(main') = main'[1] /\ main'[1].pc = "flush"
        /\ \A i \in DOMAIN main : i > 1 => main'[i] = main[i]
    BY <1>b, <1>9, GoToIs DEF ReleaseRetained, MainPC
  <2>3. StopIsFinal'
    BY <1>a, <1>b, <1>c, <1>9, <2>2 DEF ReleaseRetained, StopIsFinal, OneStop, StreamRuns
  <2>4. StreamRuns'
    BY <1>a, <1>b, <1>c, <1>9, <2>2 DEF ReleaseRetained, StopIsFinal, OneStop, StreamRuns
  <2> QED
    BY <2>1, <2>3, <2>4 DEF StackInv
<1>10. CASE Flush
  <2>1. StackShape' /\ OneStop' /\ CloseWaits'
    BY <1>a, <1>b, <1>10, GoToShape DEF Flush, MainPC
  <2>2. /\ DOMAIN main' = DOMAIN main /\ main' # <<>> /\ Head(main') = main'[1] /\ main'[1].pc = "channel"
        /\ \A i \in DOMAIN main : i > 1 => main'[i] = main[i]
    BY <1>b, <1>10, GoToIs DEF Flush, MainPC
  <2>3. StopIsFinal'
    BY <1>a, <1>b, <1>c, <1>10, <2>2 DEF Flush, StopIsFinal, OneStop, StreamRuns
  <2>4. StreamRuns'
    BY <1>a, <1>b, <1>c, <1>10, <2>2 DEF Flush, StopIsFinal, OneStop, StreamRuns
  <2> QED
    BY <2>1, <2>3, <2>4 DEF StackInv
<1>11. CASE StopStreamChannel
  <2>1. StackShape' /\ OneStop' /\ CloseWaits'
    BY <1>a, <1>b, <1>11, GoToShape DEF StopStreamChannel, MainPC
  <2>2. /\ DOMAIN main' = DOMAIN main /\ main' # <<>> /\ Head(main') = main'[1] /\ main'[1].pc = "wait"
        /\ \A i \in DOMAIN main : i > 1 => main'[i] = main[i]
    BY <1>b, <1>11, GoToIs DEF StopStreamChannel, MainPC
  <2>3. StopIsFinal'
    BY <1>a, <1>b, <1>c, <1>11, <2>2 DEF StopStreamChannel, StopIsFinal, OneStop, StreamRuns
  <2>4. StreamRuns'
    BY <1>a, <1>b, <1>c, <1>11, <2>2 DEF StopStreamChannel, StopIsFinal, OneStop, StreamRuns
  <2> QED
    BY <2>1, <2>3, <2>4 DEF StackInv
<1>12. CASE StopStreamChannelEnds
  <2>1. StackShape' /\ OneStop' /\ CloseWaits'
    BY <1>a, <1>b, <1>12, GoToShape DEF StopStreamChannelEnds, MainPC
  <2>2. /\ DOMAIN main' = DOMAIN main /\ main' # <<>> /\ Head(main') = main'[1] /\ main'[1].pc = "off"
        /\ \A i \in DOMAIN main : i > 1 => main'[i] = main[i]
    BY <1>b, <1>12, GoToIs DEF StopStreamChannelEnds, MainPC
  <2>3. StopIsFinal'
    BY <1>a, <1>b, <1>c, <1>12, <2>2 DEF StopStreamChannelEnds, StopIsFinal, OneStop, StreamRuns
  <2>4. StreamRuns'
    BY <1>a, <1>b, <1>c, <1>12, <2>2 DEF StopStreamChannelEnds, StopIsFinal, OneStop, StreamRuns
  <2> QED
    BY <2>1, <2>3, <2>4 DEF StackInv
<1>13. CASE DialogEnds
  <2>1. CASE GoTo("accepted")
    <3>1. StackShape' /\ OneStop' /\ CloseWaits'
      BY <1>a, <1>b, <1>13, <2>1, GoToShape DEF DialogEnds, MainPC
    <3>2. /\ DOMAIN main' = DOMAIN main /\ main' # <<>> /\ Head(main') = main'[1] /\ main'[1].pc = "accepted"
          /\ \A i \in DOMAIN main : i > 1 => main'[i] = main[i]
      BY <1>b, <1>13, <2>1, GoToIs DEF DialogEnds, MainPC
    <3>3. StopIsFinal'
      BY <1>a, <1>b, <1>c, <1>13, <2>1, <3>2 DEF DialogEnds, StopIsFinal, OneStop, StreamRuns
    <3>4. StreamRuns'
      BY <1>a, <1>b, <1>c, <1>13, <2>1, <3>2 DEF DialogEnds, StopIsFinal, OneStop, StreamRuns
    <3> QED
      BY <3>1, <3>3, <3>4 DEF StackInv
  <2>2. CASE Return
    <3>1. /\ StackShape' /\ OneStop' /\ CloseWaits'
          /\ \A i \in DOMAIN main' : i + 1 \in DOMAIN main /\ main'[i] = main[i + 1]
          /\ main' # <<>> =>
               /\ 1 \in DOMAIN main' /\ Head(main') = main'[1]
               /\ \/ main'[1].pc \in {"dialog", "saving", "wait", "close"}
                  \/ main'[1].pc = "flag" /\ main[1].pc \in {"clear", "finish", "finished"}
      BY <1>a, <1>b, <1>13, <2>2, ReturnShape DEF DialogEnds, StopIsFinal
    <3>2. StopIsFinal'
      BY <1>a, <1>b, <1>c, <1>13, <2>2, <3>1 DEF DialogEnds, StopIsFinal, OneStop, StreamRuns
    <3>3. StreamRuns'
      BY <1>a, <1>b, <1>c, <1>13, <2>2, <3>1 DEF DialogEnds, StopIsFinal, OneStop, StreamRuns, CloseWaits
    <3> QED
      BY <3>1, <3>2, <3>3 DEF StackInv
  <2> QED
    BY <1>13, <2>1, <2>2 DEF DialogEnds
<1>14. CASE StartRecording
  <2>1. CASE GoTo("callback")
    <3>1. StackShape' /\ OneStop' /\ CloseWaits'
      BY <1>a, <1>b, <1>14, <2>1, GoToShape DEF StartRecording, MainPC
    <3>2. /\ DOMAIN main' = DOMAIN main /\ main' # <<>> /\ Head(main') = main'[1] /\ main'[1].pc = "callback"
          /\ \A i \in DOMAIN main : i > 1 => main'[i] = main[i]
      BY <1>b, <1>14, <2>1, GoToIs DEF StartRecording, MainPC
    <3>3. StopIsFinal'
      BY <1>a, <1>b, <1>c, <1>14, <2>1, <3>2 DEF StartRecording, StopIsFinal, OneStop, StreamRuns
    <3>4. StreamRuns'
      BY <1>a, <1>b, <1>c, <1>14, <2>1, <3>2 DEF StartRecording, StopIsFinal, OneStop, StreamRuns
    <3> QED
      BY <3>1, <3>3, <3>4 DEF StackInv
  <2>2. CASE Return
    <3>1. /\ StackShape' /\ OneStop' /\ CloseWaits'
          /\ \A i \in DOMAIN main' : i + 1 \in DOMAIN main /\ main'[i] = main[i + 1]
          /\ main' # <<>> =>
               /\ 1 \in DOMAIN main' /\ Head(main') = main'[1]
               /\ \/ main'[1].pc \in {"dialog", "saving", "wait", "close"}
                  \/ main'[1].pc = "flag" /\ main[1].pc \in {"clear", "finish", "finished"}
      BY <1>a, <1>b, <1>14, <2>2, ReturnShape DEF StartRecording, StopIsFinal
    <3>2. StopIsFinal'
      BY <1>a, <1>b, <1>c, <1>14, <2>2, <3>1 DEF StartRecording, StopIsFinal, OneStop, StreamRuns
    <3>3. StreamRuns'
      BY <1>a, <1>b, <1>c, <1>14, <2>2, <3>1 DEF StartRecording, StopIsFinal, OneStop, StreamRuns, CloseWaits
    <3> QED
      BY <3>1, <3>2, <3>3 DEF StackInv
  <2> QED
    BY <1>14, <2>1, <2>2 DEF StartRecording
<1>15. CASE RecorderStops
  <2>1. CASE GoTo("finished")
    <3>1. StackShape' /\ OneStop' /\ CloseWaits'
      BY <1>a, <1>b, <1>15, <2>1, GoToShape DEF RecorderStops, MainPC
    <3>2. /\ DOMAIN main' = DOMAIN main /\ main' # <<>> /\ Head(main') = main'[1] /\ main'[1].pc = "finished"
          /\ \A i \in DOMAIN main : i > 1 => main'[i] = main[i]
      BY <1>b, <1>15, <2>1, GoToIs DEF RecorderStops, MainPC
    <3>3. StopIsFinal'
      BY <1>a, <1>b, <1>c, <1>15, <2>1, <3>2 DEF RecorderStops, StopIsFinal, OneStop, StreamRuns
    <3>4. StreamRuns'
      BY <1>a, <1>b, <1>c, <1>15, <2>1, <3>2 DEF RecorderStops, StopIsFinal, OneStop, StreamRuns
    <3> QED
      BY <3>1, <3>3, <3>4 DEF StackInv
  <2>2. CASE Return
    <3>1. /\ StackShape' /\ OneStop' /\ CloseWaits'
          /\ \A i \in DOMAIN main' : i + 1 \in DOMAIN main /\ main'[i] = main[i + 1]
          /\ main' # <<>> =>
               /\ 1 \in DOMAIN main' /\ Head(main') = main'[1]
               /\ \/ main'[1].pc \in {"dialog", "saving", "wait", "close"}
                  \/ main'[1].pc = "flag" /\ main[1].pc \in {"clear", "finish", "finished"}
      BY <1>a, <1>b, <1>15, <2>2, ReturnShape DEF RecorderStops, StopIsFinal
    <3>2. StopIsFinal'
      BY <1>a, <1>b, <1>c, <1>15, <2>2, <3>1 DEF RecorderStops, StopIsFinal, OneStop, StreamRuns
    <3>3. StreamRuns'
      BY <1>a, <1>b, <1>c, <1>15, <2>2, <3>1 DEF RecorderStops, StopIsFinal, OneStop, StreamRuns, CloseWaits
    <3> QED
      BY <3>1, <3>2, <3>3 DEF StackInv
  <2> QED
    BY <1>15, <2>1, <2>2 DEF RecorderStops
<1>16. CASE Undefined
  BY <1>16, OthersKeepStack DEF Undefined
<1> QED
  BY <1>1, <1>2, <1>3, <1>4, <1>5, <1>6, <1>7, <1>8, <1>9, <1>10, <1>11, <1>12, <1>13, <1>14, <1>15, <1>16 DEF MainThread

LEMMA HandlerKeepsStack == TypeOK /\ StackInv /\ Handler => StackInv'
<1> SUFFICES ASSUME TypeOK, StackInv, Handler PROVE StackInv'
  OBVIOUS
<1>a. StackShape /\ OneStop /\ CloseWaits /\ StopIsFinal /\ StreamRuns
  BY DEF StackInv
<1>b. EventLoop
  BY DEF Handler, OpenCamera, CloseCamera, StartStreaming, StopStreaming, RecordDialog,
         StopRecording, SaveImageDialog, OnRecordingStopped, Called
<1>c. \A i \in DOMAIN main :
        /\ main[i].pc \in {"dialog", "saving", "wait", "close"}
        /\ main[i].pc = "close" => i > 1
  BY <1>a, <1>b, EventLoopShape
<1>d. /\ DOMAIN main = 1 .. Len(main) /\ Len(main) \in Nat
      /\ main # <<>> => 1 \in DOMAIN main /\ Head(main) = main[1]
  BY ActivationType
(* The stop that waits is the only one, and no other can begin under it. *)
<1>e. \A i \in DOMAIN main : main[i].pc \in StopPC =>
        /\ main[i].pc = "wait" /\ ~streaming /\ ~capturing
        /\ streamon \/ ~open
  <2>1. ~RunsAt("replaced")
    BY <1>c, <1>d DEF RunsAt
  <2> QED
    BY <1>a, <1>c, <2>1 DEF StopIsFinal, StopPC
<1> USE DEF vars, camera, capture, recording, channel, RunsAt
<1>f. ASSUME UNCHANGED <<camera, capturing, ft, main>> PROVE StackInv'
  BY <1>f DEF StackInv, StackShape, OneStop, CloseWaits, StopIsFinal, StreamRuns
(* One activation that is no stop: what is under it moves down. *)
<1>g. ASSUME NEW x \in Activation, x.pc \notin StopPC \cup {"close"}, main' = <<x>> \o main
      PROVE  /\ StackShape' /\ OneStop' /\ CloseWaits'
             /\ main' # <<>> /\ Head(main') = x /\ 1 \in DOMAIN main' /\ main'[1] = x
             /\ \A i \in DOMAIN main' : i > 1 =>
                  i - 1 \in DOMAIN main /\ main'[i] = main[i - 1]
  <2> DEFINE p == <<x>>
  <2>1. p \in Seq(Activation) /\ Len(p) = 1 /\ p[1] = x
    OBVIOUS
  <2> HIDE DEF p
  <2>2. main' = p \o main
    BY <1>g DEF p
  <2>3. /\ StackShape' /\ OneStop' /\ CloseWaits'
        /\ main' # <<>> /\ Head(main') = p[1]
        /\ DOMAIN main' = 1 .. Len(p) + Len(main) /\ DOMAIN main = 1 .. Len(main)
        /\ \A i \in 1 .. Len(p) : main'[i] = p[i]
        /\ \A i \in DOMAIN main' : i > Len(p) =>
             i - Len(p) \in DOMAIN main /\ main'[i] = main[i - Len(p)]
    <3>1. /\ \A i \in 1 .. Len(p) : i = 1
          /\ \A i \in 1 .. Len(p) : p[i].pc \notin StopPC /\ p[i].pc # "close"
          /\ Len(p) > 0
      BY <1>g, <2>1
    <3>2. /\ \A i \in 1 .. Len(p) : i > 1 =>
               p[i].pc = "close" \/ (p[i].pc = "flag" /\ i = 2 /\ p[1].pc = "clear")
          /\ \A i, j \in 1 .. Len(p) : p[i].pc \in StopPC /\ p[j].pc \in StopPC => i = j
          /\ \A i \in 1 .. Len(p), j \in DOMAIN main : p[i].pc \in StopPC => main[j].pc \notin StopPC
          /\ \A i \in 1 .. Len(p) : p[i].pc = "close" =>
               (i = 1 /\ ~streaming') \/ (i > 1 /\ p[i - 1].pc \in StopPC)
      BY <3>1
    <3> QED
      BY <1>a, <1>b, <2>1, <2>2, <3>1, <3>2, PushShape
  <2> QED
    BY <1>d, <2>1, <2>3
<1>h. ASSUME NEW x \in Activation, x.pc \in {"dialog", "saving", "clear"}, main' = <<x>> \o main,
             UNCHANGED <<camera, capturing, ft>>
      PROVE  StackInv'
  <2>1. x.pc \notin StopPC \cup {"close"}
    BY <1>h DEF StopPC
  <2>2. /\ StackShape' /\ OneStop' /\ CloseWaits'
        /\ main' # <<>> /\ Head(main') = x /\ 1 \in DOMAIN main' /\ main'[1] = x
        /\ \A i \in DOMAIN main' : i > 1 => i - 1 \in DOMAIN main /\ main'[i] = main[i - 1]
    BY <1>g, <1>h, <2>1
  <2>3. \A i \in DOMAIN main' : main'[i].pc \in StopPC =>
          /\ main'[i].pc = "wait" /\ ~streaming' /\ ~capturing'
          /\ streamon' \/ ~open'
    <3> SUFFICES ASSUME NEW i \in DOMAIN main', main'[i].pc \in StopPC
                 PROVE  /\ main'[i].pc = "wait" /\ ~streaming' /\ ~capturing'
                        /\ streamon' \/ ~open'
      OBVIOUS
    <3>1. i > 1
      BY <1>d, <2>1, <2>2
    <3> QED
      BY <1>e, <1>h, <2>2, <3>1
  <2>4. StopIsFinal'
    BY <1>h, <2>2, <2>3 DEF StopIsFinal, StopPC
  <2>5. StreamRuns'
    BY <1>a, <1>c, <1>d, <1>h, <2>2 DEF StreamRuns
  <2> QED
    BY <2>2, <2>4, <2>5 DEF StackInv
(* A stopStreaming, perhaps called by closeCamera. *)
<1>i. ASSUME streaming, NEW p \in Seq(Activation), main' = p \o main,
             UNCHANGED <<camera, capturing, ft>>,
             \/ p[1].pc = "flag" /\ Len(p) \in {1, 2} /\ (Len(p) = 2 => p[2].pc = "close")
             \/ /\ p[1].pc = "clear" /\ p[2].pc = "flag" /\ Len(p) \in {2, 3}
                /\ Len(p) = 3 => p[3].pc = "close"
      PROVE  StackInv'
  <2>1. \A i \in DOMAIN main : main[i].pc \notin StopPC
    BY <1>e, <1>i
  <2>2. /\ Len(p) > 0
        /\ \A i \in 1 .. Len(p) : i > 1 =>
             p[i].pc = "close" \/ (p[i].pc = "flag" /\ i = 2 /\ p[1].pc = "clear")
        /\ \A i, j \in 1 .. Len(p) : p[i].pc \in StopPC /\ p[j].pc \in StopPC => i = j
        /\ \A i \in 1 .. Len(p) : p[i].pc = "close" => i > 1 /\ p[i - 1].pc \in StopPC
    <3>1. \A i \in 1 .. Len(p) : i \in {1, 2, 3}
      BY <1>i
    <3>2. Len(p) > 0 /\ Len(p) \in Nat
      BY <1>i
    <3>3. \A i \in 1 .. Len(p) : i > 1 =>
            \/ p[i].pc = "close" /\ p[i - 1].pc = "flag"
            \/ p[i].pc = "flag" /\ i = 2 /\ p[1].pc = "clear"
      BY <1>i, <3>1
    <3>4. p[1].pc \in {"clear", "flag"}
      BY <1>i
    <3> QED
      BY <3>1, <3>2, <3>3, <3>4 DEF StopPC
  <2>3. /\ StackShape' /\ OneStop' /\ CloseWaits'
        /\ main' # <<>> /\ Head(main') = p[1]
        /\ DOMAIN main' = 1 .. Len(p) + Len(main)
        /\ \A i \in 1 .. Len(p) : main'[i] = p[i]
        /\ \A i \in DOMAIN main' : i > Len(p) =>
             i - Len(p) \in DOMAIN main /\ main'[i] = main[i - Len(p)]
    BY <1>a, <1>b, <1>i, <2>1, <2>2, PushShape
  <2>4. \A i \in DOMAIN main' : main'[i].pc \in StopPC => main'[i].pc = "flag"
    <3> SUFFICES ASSUME NEW i \in DOMAIN main', main'[i].pc \in StopPC
                 PROVE  main'[i].pc = "flag"
      OBVIOUS
    <3>1. i \in 1 .. Len(p)
      BY <1>d, <1>i, <2>1, <2>3
    <3> QED
      BY <1>i, <2>3, <3>1 DEF StopPC
  <2>5. StopIsFinal'
    BY <1>i, <2>4 DEF StopIsFinal, StopPC
  <2>6. StreamRuns'
    BY <1>a, <1>i, <2>3 DEF StreamRuns
  <2> QED
    BY <2>3, <2>5, <2>6 DEF StackInv
<1>j. \A s \in Seq(Activation) : <<>> \o s = s
  OBVIOUS
<1>1. CASE OpenCamera
  <2>1. CASE ~open /\ open' /\ StopWaits /\ main' = <<At("replaced")>> \o main
    <3> DEFINE x == At("replaced")
    <3>1. x \in Activation /\ x.pc = "replaced" /\ x.pc \notin StopPC \cup {"close"}
      BY AtIsActivation DEF MainPC, StopPC
    <3> HIDE DEF x
    <3>2. main' = <<x>> \o main
      BY <2>1 DEF x
    <3>3. /\ StackShape' /\ OneStop' /\ CloseWaits'
          /\ main' # <<>> /\ Head(main') = x /\ 1 \in DOMAIN main' /\ main'[1] = x
          /\ \A i \in DOMAIN main' : i > 1 => i - 1 \in DOMAIN main /\ main'[i] = main[i - 1]
      BY <1>g, <3>1, <3>2
    <3>4. UNCHANGED <<streaming, streamon, capturing, ft>>
      BY <1>1 DEF OpenCamera
    <3>5. StopIsFinal'
      <4> SUFFICES ASSUME NEW i \in DOMAIN main', main'[i].pc \in StopPC
                   PROVE  main'[i].pc = "wait" /\ ~streaming' /\ ~capturing'
        BY <3>1, <3>3 DEF StopIsFinal, StopPC
      <4>1. i > 1
        BY <1>d, <3>1, <3>3
      <4> QED
        BY <1>e, <3>3, <3>4, <4>1
    <3>6. StreamRuns'
      BY <1>a, <1>c, <1>d, <2>1, <3>1, <3>3, <3>4 DEF StreamRuns
    <3> QED
      BY <3>3, <3>5, <3>6 DEF StackInv
  <2>2. CASE ~open /\ open' /\ ~StopWaits /\ main' = main
    <3>1. \A i \in DOMAIN main : main[i].pc \notin StopPC
      BY <1>e, <2>2 DEF StopWaits
    <3>2. UNCHANGED <<streaming, streamon, capturing, ft, main>>
      BY <1>1, <2>2 DEF OpenCamera
    <3>3. StopIsFinal'
      BY <3>1, <3>2 DEF StopIsFinal, StopPC
    <3>4. StackShape' /\ OneStop' /\ CloseWaits' /\ StreamRuns'
      BY <1>a, <2>2, <3>2 DEF StackShape, OneStop, CloseWaits, StreamRuns
    <3> QED
      BY <3>3, <3>4 DEF StackInv
  <2>3. CASE UNCHANGED <<open, signals, main>>
    BY <1>1, <1>f, <2>3 DEF OpenCamera
  <2> QED
    BY <1>1, <2>1, <2>2, <2>3 DEF OpenCamera
<1>2. CASE StartStreaming
  <2>1. CASE UNCHANGED <<streamon, capturing, main>>
    BY <1>2, <1>f, <2>1 DEF StartStreaming
  <2>2. CASE /\ open /\ ~streaming /\ ~streamon /\ streamon' /\ capturing'
             /\ main' = <<At("started")>> \o main
    <3> DEFINE x == At("started")
    <3>1. x \in Activation /\ x.pc = "started" /\ x.pc \notin StopPC \cup {"close"}
      BY AtIsActivation DEF MainPC, StopPC
    <3> HIDE DEF x
    <3>2. main' = <<x>> \o main
      BY <2>2 DEF x
    <3>3. /\ StackShape' /\ OneStop' /\ CloseWaits'
          /\ main' # <<>> /\ Head(main') = x /\ 1 \in DOMAIN main' /\ main'[1] = x
          /\ \A i \in DOMAIN main' : i > 1 => i - 1 \in DOMAIN main /\ main'[i] = main[i - 1]
      BY <1>g, <3>1, <3>2
    <3>4. UNCHANGED <<open, streaming, ft>>
      BY <1>2 DEF StartStreaming
    <3>5. \A i \in DOMAIN main' : main'[i].pc \notin StopPC
      <4>1. \A i \in DOMAIN main : main[i].pc \notin StopPC
        BY <1>e, <2>2
      <4> QED
        BY <1>d, <3>1, <3>3, <4>1
    <3>6. StopIsFinal'
      BY <3>5 DEF StopIsFinal, StopPC
    <3>7. StreamRuns'
      BY <2>2, <3>1, <3>3, <3>4 DEF StreamRuns
    <3> QED
      BY <3>3, <3>6, <3>7 DEF StackInv
  <2> QED
    BY <1>2, <2>1, <2>2 DEF StartStreaming
<1>3. CASE StopStreaming
  <2>1. UNCHANGED <<camera, capturing, ft>> /\ main' = StopStream \o main
    BY <1>3 DEF StopStreaming
  <2>2. CASE ~streaming
    <3>1. main' = main
      BY <1>j, <2>1, <2>2, ActivationType DEF StopStream
    <3> QED
      BY <1>f, <2>1, <3>1
  <2>3. CASE streaming
    <3>1. At("flag").pc = "flag" /\ At("clear").pc = "clear"
      BY AtIsActivation DEF MainPC
    <3>2. /\ StopStream \in Seq(Activation)
          /\ \/ StopStream[1].pc = "flag" /\ Len(StopStream) = 1
             \/ StopStream[1].pc = "clear" /\ StopStream[2].pc = "flag" /\ Len(StopStream) = 2
      BY <2>3, <3>1, StopStreamIs
    <3> QED
      BY <1>i, <2>1, <2>3, <3>2
  <2> QED
    BY <2>2, <2>3
<1>4. CASE CloseCamera
  <2>1. UNCHANGED <<camera, capturing, ft>>
    BY <1>4 DEF CloseCamera
  <2>2. CASE ~open
    BY <1>4, <1>f, <2>2 DEF CloseCamera
  <2>3. CASE open /\ streaming
    <3> DEFINE p == StopStream \o <<At("close")>>
    <3>1. At("close") \in Activation /\ At("close").pc = "close"
          /\ At("flag").pc = "flag" /\ At("clear").pc = "clear"
      BY AtIsActivation DEF MainPC
    <3>2. /\ p \in Seq(Activation) /\ Len(p) = Len(StopStream) + 1
          /\ p[Len(p)] = At("close")
          /\ \A i \in 1 .. Len(StopStream) : p[i] = StopStream[i]
      BY StopStreamIs, <3>1
    <3>3. main' = p \o main
      BY <1>4, <2>3 DEF CloseCamera
    <3> HIDE DEF p
    <3>4. \/ p[1].pc = "flag" /\ Len(p) \in {1, 2} /\ (Len(p) = 2 => p[2].pc = "close")
          \/ /\ p[1].pc = "clear" /\ p[2].pc = "flag" /\ Len(p) \in {2, 3}
             /\ Len(p) = 3 => p[3].pc = "close"
      BY <2>3, <3>1, <3>2, StopStreamIs
    <3> QED
      BY <1>i, <2>1, <2>3, <3>2, <3>3, <3>4
  <2>4. CASE open /\ ~streaming
    <3> DEFINE x == At("close")
               p == <<x>>
    <3>1. x \in Activation /\ x.pc = "close" /\ x.pc \notin StopPC
      BY AtIsActivation DEF MainPC, StopPC
    <3>2. main' = p \o main
      <4>1. <<>> \o <<x>> = <<x>>
        BY <3>1
      <4> QED
        BY <1>4, <2>4, <4>1 DEF CloseCamera, StopStream
    <3> HIDE DEF x
    <3>3. p \in Seq(Activation) /\ Len(p) = 1 /\ p[1] = x
      BY <3>1
    <3> HIDE DEF p
    <3>4. ~streaming'
      BY <2>1, <2>4
    <3>5. /\ StackShape' /\ OneStop' /\ CloseWaits'
          /\ main' # <<>> /\ Head(main') = p[1]
          /\ DOMAIN main' = 1 .. Len(p) + Len(main)
          /\ \A i \in 1 .. Len(p) : main'[i] = p[i]
          /\ \A i \in DOMAIN main' : i > Len(p) =>
               i - Len(p) \in DOMAIN main /\ main'[i] = main[i - Len(p)]
      <4>1. /\ \A i \in 1 .. Len(p) : i = 1
            /\ \A i \in 1 .. Len(p) : p[i].pc \notin StopPC
            /\ Len(p) > 0
        BY <3>1, <3>3
      <4>2. /\ \A i \in 1 .. Len(p) : i > 1 =>
                 p[i].pc = "close" \/ (p[i].pc = "flag" /\ i = 2 /\ p[1].pc = "clear")
            /\ \A i, j \in 1 .. Len(p) : p[i].pc \in StopPC /\ p[j].pc \in StopPC => i = j
            /\ \A i \in 1 .. Len(p), j \in DOMAIN main : p[i].pc \in StopPC => main[j].pc \notin StopPC
            /\ \A i \in 1 .. Len(p) : p[i].pc = "close" =>
                 (i = 1 /\ ~streaming') \/ (i > 1 /\ p[i - 1].pc \in StopPC)
        BY <3>4, <4>1
      <4> QED
        BY <1>a, <1>b, <3>2, <3>3, <4>1, <4>2, PushShape
    <3>6. \A i \in DOMAIN main' : main'[i].pc \in StopPC =>
            i > 1 /\ i - 1 \in DOMAIN main /\ main'[i] = main[i - 1]
      BY <1>d, <3>1, <3>3, <3>5
    <3>7. StopIsFinal'
      BY <1>e, <2>1, <3>1, <3>3, <3>5, <3>6 DEF StopIsFinal, StopPC
    <3>8. StreamRuns'
      BY <1>a, <1>c, <1>d, <2>1, <2>4, <3>1, <3>3, <3>5 DEF StreamRuns
    <3> QED
      BY <3>5, <3>7, <3>8 DEF StackInv
  <2> QED
    BY <2>2, <2>3, <2>4 DEF TypeOK
<1>5. CASE RecordDialog
  <2>1. UNCHANGED <<camera, capturing, ft>>
    BY <1>5 DEF RecordDialog
  <2>2. CASE main' = main
    BY <1>f, <2>1, <2>2
  <2>3. CASE main' = <<[pc |-> "dialog", format |-> Head(events).format]>> \o main
    <3>1. Head(events).format \in Formats
      <4>1. events \in Seq(Event) /\ events # <<>>
        BY <1>5 DEF RecordDialog, Called, TypeOK, Event
      <4>2. Head(events) \in Event
        BY <4>1
      <4> QED
        BY <4>2 DEF Event
    <3>2. [pc |-> "dialog", format |-> Head(events).format] \in Activation
      BY <3>1 DEF Activation, MainPC
    <3> QED
      BY <1>h, <2>1, <2>3, <3>2
  <2> QED
    BY <1>5, <2>2, <2>3 DEF RecordDialog
<1>6. CASE StopRecording
  <2>1. UNCHANGED <<camera, capturing, ft>> /\ main' = StopRecorder \o main
    BY <1>6 DEF StopRecording
  <2>2. CASE recorder.recording
    BY <1>h, <2>1, <2>2, AtIsActivation DEF StopRecorder, MainPC
  <2>3. CASE ~recorder.recording
    <3>1. main' = main
      BY <1>j, <2>1, <2>3, ActivationType DEF StopRecorder
    <3> QED
      BY <1>f, <2>1, <3>1
  <2> QED
    BY <2>2, <2>3
<1>7. CASE SaveImageDialog
  <2>1. UNCHANGED <<camera, capturing, ft>>
    BY <1>7 DEF SaveImageDialog
  <2>2. main' = main \/ main' = <<At("saving")>> \o main
    BY <1>7 DEF SaveImageDialog
  <2> QED
    BY <1>f, <1>h, <2>1, <2>2, AtIsActivation DEF MainPC
<1>8. CASE OnRecordingStopped
  BY <1>8, <1>f DEF OnRecordingStopped
<1> QED
  BY <1>1, <1>2, <1>3, <1>4, <1>5, <1>6, <1>7, <1>8 DEF Handler

-----------------------------------------------------------------------------
(* The callbacks. *)

LEMMA HoldersKept == TypeOK /\ StackInv /\ HolderInv /\ [Next]_vars => HolderInv'
<1> SUFFICES ASSUME TypeOK, StackInv, HolderInv, [Next]_vars PROVE HolderInv'
  OBVIOUS
<1>a. ThreadsHold /\ \A b \in Buffers : OnePlace(b)
  BY DEF HolderInv
<1>b. ASSUME UNCHANGED <<ft, conv, held, mail, lastDone>> PROVE HolderInv'
  BY <1>a, <1>b DEF HolderInv, ThreadsHold, OnePlace, FrameHolds
<1>c. /\ \A b \in Buffers : b # NoBuffer /\ b # Freed
      /\ ft \in [pc : FrameThreadPC, buf : MaybeBuffer, old : MaybeBuffer]
      /\ conv \in [pc : ConversionPC, buf : MaybeBuffer]
  BY BridgeAssumption DEF TypeOK, FrameThreadPC, ConversionPC
<1> USE DEF camera, capture, recording, channel
<1>1. ASSUME NEW x \in Buffers, FrameArrives(x) PROVE HolderInv'
  <2>1. ThreadsHold'
    BY <1>1, <1>a, <1>c DEF FrameArrives, ThreadsHold, Idle
  <2>2. ASSUME NEW b \in Buffers PROVE OnePlace(b)'
    BY <1>1, <1>a, <1>c, <2>2 DEF FrameArrives, ThreadsHold, OnePlace, FrameHolds, Idle, Processors
  <2> QED
    BY <2>1, <2>2 DEF HolderInv
<1>2. CASE PushFrame
  <2>1. ThreadsHold'
    BY <1>2, <1>a, <1>c DEF PushFrame, ThreadsHold
  <2>2. ASSUME NEW b \in Buffers PROVE OnePlace(b)'
    BY <1>2, <1>a, <1>c, <2>2 DEF PushFrame, ThreadsHold, OnePlace, FrameHolds, Done
  <2> QED
    BY <2>1, <2>2 DEF HolderInv
<1>3. CASE Processor2
  <2>1. ThreadsHold'
    BY <1>3, <1>a, <1>c DEF Processor2, ThreadsHold
  <2>2. ASSUME NEW b \in Buffers PROVE OnePlace(b)'
    BY <1>3, <1>a, <1>c, <2>2 DEF Processor2, ThreadsHold, OnePlace, FrameHolds, Done
  <2> QED
    BY <2>1, <2>2 DEF HolderInv
<1>4. CASE Processor3
  <2>1. ThreadsHold'
    BY <1>4, <1>a, <1>c DEF Processor3, ThreadsHold, Idle
  <2>2. ASSUME NEW b \in Buffers PROVE OnePlace(b)'
    BY <1>4, <1>a, <1>c, <2>2 DEF Processor3, ThreadsHold, OnePlace, FrameHolds, Done, Idle
  <2> QED
    BY <2>1, <2>2 DEF HolderInv
<1>5. CASE Retain
  <2>1. ThreadsHold'
    <3>1. CASE lastDone # NoBuffer
      BY <1>5, <1>a, <1>c, <3>1 DEF Retain, ThreadsHold
    <3>2. CASE lastDone = NoBuffer
      BY <1>5, <1>a, <1>c, <3>2 DEF Retain, ThreadsHold, Idle
    <3> QED
      BY <3>1, <3>2
  <2>2. ASSUME NEW b \in Buffers PROVE OnePlace(b)'
    <3>1. CASE lastDone # NoBuffer
      BY <1>5, <1>a, <1>c, <2>2, <3>1 DEF Retain, ThreadsHold, OnePlace, FrameHolds
    <3>2. CASE lastDone = NoBuffer
      BY <1>5, <1>a, <1>c, <2>2, <3>2 DEF Retain, ThreadsHold, OnePlace, FrameHolds, Idle
    <3> QED
      BY <3>1, <3>2
  <2> QED
    BY <2>1, <2>2 DEF HolderInv
<1>6. CASE RetainReleasesPrevious
  <2>1. ThreadsHold'
    BY <1>6, <1>a, <1>c DEF RetainReleasesPrevious, ThreadsHold
  <2>2. ASSUME NEW b \in Buffers PROVE OnePlace(b)'
    BY <1>6, <1>a, <1>c, <2>2 DEF RetainReleasesPrevious, ThreadsHold, OnePlace, FrameHolds, Done
  <2> QED
    BY <2>1, <2>2 DEF HolderInv
<1>7. CASE RetainStores
  <2>1. ThreadsHold'
    BY <1>7, <1>a, <1>c DEF RetainStores, ThreadsHold, Idle
  <2>2. ASSUME NEW b \in Buffers PROVE OnePlace(b)'
    BY <1>7, <1>a, <1>c, <2>2 DEF RetainStores, ThreadsHold, OnePlace, FrameHolds, Done, Idle
  <2> QED
    BY <2>1, <2>2 DEF HolderInv
<1>8. CASE ReleaseRetained
  <2>1. ThreadsHold'
    BY <1>8, <1>a, <1>c DEF ReleaseRetained, ThreadsHold
  <2>2. ASSUME NEW b \in Buffers PROVE OnePlace(b)'
    BY <1>8, <1>a, <1>c, <2>2 DEF ReleaseRetained, ThreadsHold, OnePlace, FrameHolds, Done
  <2> QED
    BY <2>1, <2>2 DEF HolderInv
<1>9. CASE Flush
  <2>1. ThreadsHold'
    BY <1>9, <1>a, <1>c DEF Flush, ThreadsHold
  <2>2. ASSUME NEW b \in Buffers PROVE OnePlace(b)'
    BY <1>9, <1>a, <1>c, <2>2 DEF Flush, ThreadsHold, OnePlace, FrameHolds, Done
  <2> QED
    BY <2>1, <2>2 DEF HolderInv
<1>10. CASE CloseDevice
  <2>1. ThreadsHold'
    BY <1>10, <1>a, <1>c DEF CloseDevice, ThreadsHold
  <2>2. ASSUME NEW b \in Buffers PROVE OnePlace(b)'
    BY <1>10, <1>a, <1>c, <2>2 DEF CloseDevice, ThreadsHold, OnePlace, FrameHolds, Done
  <2> QED
    BY <2>1, <2>2 DEF HolderInv
<1>11. CASE ConversionTakes
  <2>1. ThreadsHold'
    BY <1>11, <1>a, <1>c DEF ConversionTakes, ThreadsHold
  <2>2. ASSUME NEW b \in Buffers PROVE OnePlace(b)'
    BY <1>11, <1>a, <1>c, <2>2 DEF ConversionTakes, ThreadsHold, OnePlace, FrameHolds, Done
  <2> QED
    BY <2>1, <2>2 DEF HolderInv
<1>12. CASE ConversionLocksRecord
  <2>1. ThreadsHold'
    BY <1>12, <1>a, <1>c DEF ConversionLocksRecord, ThreadsHold
  <2>2. ASSUME NEW b \in Buffers PROVE OnePlace(b)'
    BY <1>12, <1>a, <1>c, <2>2 DEF ConversionLocksRecord, ThreadsHold, OnePlace, FrameHolds, Done
  <2> QED
    BY <2>1, <2>2 DEF HolderInv
<1>13. CASE ConversionRecords
  <2>1. ThreadsHold'
    BY <1>13, <1>a, <1>c DEF ConversionRecords, ThreadsHold
  <2>2. ASSUME NEW b \in Buffers PROVE OnePlace(b)'
    BY <1>13, <1>a, <1>c, <2>2 DEF ConversionRecords, ThreadsHold, OnePlace, FrameHolds, Done
  <2> QED
    BY <2>1, <2>2 DEF HolderInv
<1>14. CASE ConversionGivesBack
  <2>1. ThreadsHold'
    BY <1>14, <1>a, <1>c DEF ConversionGivesBack, ThreadsHold
  <2>2. ASSUME NEW b \in Buffers PROVE OnePlace(b)'
    BY <1>14, <1>a, <1>c, <2>2 DEF ConversionGivesBack, ThreadsHold, OnePlace, FrameHolds, Done
  <2> QED
    BY <2>1, <2>2 DEF HolderInv
<1>15. CASE DeleteUserBuffer
  <2>1. ft = Idle
    <3>1. main # <<>> /\ 1 \in DOMAIN main /\ main[1].pc = "off"
      BY <1>15, HeadIs DEF DeleteUserBuffer, RunsAt
    <3> QED
      BY <1>a, <3>1 DEF StackInv, StopIsFinal, ThreadsHold
  <2>2. ThreadsHold'
    BY <1>15, <1>a, <1>c, <2>1 DEF DeleteUserBuffer, ThreadsHold, Idle
  <2>3. ASSUME NEW b \in Buffers PROVE OnePlace(b)'
    BY <1>15, <1>a, <1>c, <2>1, <2>3 DEF DeleteUserBuffer, OnePlace, FrameHolds, Idle
  <2> QED
    BY <2>2, <2>3 DEF HolderInv
<1>16. ASSUME \/ StartStreamingEnds \/ ClearRecordingCallback \/ RecorderStops
             \/ RecorderStopped \/ ClearStreaming \/ StopStreamChannel \/ StopStreamChannelEnds
             \/ DialogEnds \/ StartRecording \/ SetRecordingCallback \/ SaveImageEnds \/ Undefined
      PROVE  HolderInv'
  BY <1>16, <1>b DEF StartStreamingEnds, ClearRecordingCallback, RecorderStops, RecorderStopped,
     ClearStreaming, StopStreamChannel, StopStreamChannelEnds, DialogEnds,
     StartRecording, SetRecordingCallback, SaveImageEnds, Undefined, vars
<1>17. CASE Handler \/ Page \/ UNCHANGED vars
  BY <1>17, <1>b DEF Handler, OpenCamera, CloseCamera, StartStreaming, StopStreaming, RecordDialog,
     StopRecording, SaveImageDialog, OnRecordingStopped, Page, PageHears, PageCalls, vars
<1> QED
  BY <1>1, <1>2, <1>3, <1>4, <1>5, <1>6, <1>7, <1>8, <1>9, <1>10, <1>11, <1>12, <1>13, <1>14, <1>15, <1>16, <1>17
     DEF Next, FrameThread, MainThread, ConversionThread

(* Where a callback is depends on nothing else. *)
LEMMA OnePlaceIsOneHolder ==
  ASSUME HolderInv, NEW b \in Buffers, NEW p \in Processors
  PROVE  Cardinality(Holders(b, p)) = IF <<b, p>> \in held THEN 1 ELSE 0
<1>1. OnePlace(b) /\ ThreadsHold
  BY DEF HolderInv
<1>2. CASE p = "server"
  <2>1. \A h : h \in Holders(b, p) <=>
          \/ h = "frame" /\ FrameHolds(b, "server")
          \/ h = "mail" /\ mail = b
          \/ h = "conversion" /\ conv.buf = b
    BY <1>2 DEF Holders, FrameHolds
  <2>2. CASE <<b, p>> \notin held
    <3>1. Holders(b, p) = {}
      BY <1>1, <1>2, <2>1, <2>2 DEF OnePlace
    <3> QED
      BY <2>2, <3>1, FS_EmptySet
  <2>3. CASE <<b, p>> \in held
    <3>1. \E h : Holders(b, p) = {h}
      <4>1. CASE FrameHolds(b, "server")
        <5>1. Holders(b, p) = {"frame"}
          BY <1>1, <2>1, <4>1 DEF OnePlace
        <5> QED
          BY <5>1
      <4>2. CASE mail = b
        <5>1. Holders(b, p) = {"mail"}
          BY <1>1, <2>1, <4>2 DEF OnePlace
        <5> QED
          BY <5>1
      <4>3. CASE conv.buf = b
        <5>1. Holders(b, p) = {"conversion"}
          BY <1>1, <2>1, <4>3 DEF OnePlace
        <5> QED
          BY <5>1
      <4> QED
        BY <1>1, <1>2, <2>3, <4>1, <4>2, <4>3 DEF OnePlace
    <3> QED
      BY <2>3, <3>1, FS_Singleton
  <2> QED
    BY <2>2, <2>3
<1>3. CASE p = "last"
  <2>1. \A h : h \in Holders(b, p) <=>
          \/ h = "frame" /\ FrameHolds(b, "last")
          \/ h = "previous" /\ ft.old = b
          \/ h = "last" /\ lastDone = b
    BY <1>3 DEF Holders, FrameHolds
  <2>2. CASE <<b, p>> \notin held
    <3>1. Holders(b, p) = {}
      BY <1>1, <1>3, <2>1, <2>2 DEF OnePlace
    <3> QED
      BY <2>2, <3>1, FS_EmptySet
  <2>3. CASE <<b, p>> \in held
    <3>1. \E h : Holders(b, p) = {h}
      <4>1. CASE FrameHolds(b, "last")
        <5>1. Holders(b, p) = {"frame"}
          BY <1>1, <2>1, <4>1 DEF OnePlace
        <5> QED
          BY <5>1
      <4>2. CASE ft.old = b
        <5>1. Holders(b, p) = {"previous"}
          BY <1>1, <2>1, <4>2 DEF OnePlace
        <5> QED
          BY <5>1
      <4>3. CASE lastDone = b
        <5>1. Holders(b, p) = {"last"}
          BY <1>1, <2>1, <4>3 DEF OnePlace
        <5> QED
          BY <5>1
      <4> QED
        BY <1>1, <1>3, <2>3, <4>1, <4>2, <4>3 DEF OnePlace
    <3> QED
      BY <2>3, <3>1, FS_Singleton
  <2> QED
    BY <2>2, <2>3
<1> QED
  BY <1>2, <1>3 DEF Processors

-----------------------------------------------------------------------------
(* The recorder. *)

LEMMA RecordingKept == Types /\ StackInv /\ RecordingInv /\ [Next]_vars => RecordingInv'
<1> SUFFICES ASSUME Types, StackInv, RecordingInv, [Next]_vars PROVE RecordingInv'
  OBVIOUS
<1>a. TypeOK /\ RecorderShape /\ StackShape /\ StreamRuns
  BY DEF Types, StackInv
<1>b. ASSUME UNCHANGED <<recorder, streaming, main, callback, conv>> PROVE RecordingInv'
  BY <1>b DEF RecordingInv, RunsAt
(* What is called begins in an activation of its own. *)
<1>c. ASSUME UNCHANGED <<recorder, streaming, callback, conv>>, main' # <<>>,
             Head(main').pc \notin {"flag", "finish", "finished"}
      PROVE  RecordingInv'
  BY <1>c DEF RecordingInv, RunsAt
<1> USE DEF camera, capture, recording, channel
<1>1. CASE FrameThread
  BY <1>1, <1>b DEF FrameThread, FrameArrives, Processor2, PushFrame, Processor3, Retain,
     RetainReleasesPrevious, RetainStores
<1>2. CASE Page \/ UNCHANGED vars
  BY <1>2, <1>b DEF Page, PageHears, PageCalls, vars
<1>3. CASE ConversionTakes \/ ConversionGivesBack
  <2>1. UNCHANGED <<recorder, streaming, main, callback>> /\ conv'.pc # "write"
    BY <1>3 DEF ConversionTakes, ConversionGivesBack
  <2> QED
    BY <2>1 DEF RecordingInv, RunsAt
<1>4. CASE ConversionLocksRecord
  BY <1>4, <1>a DEF ConversionLocksRecord, RecordingInv, RunsAt, TypeOK
<1>5. CASE ConversionRecords
  <2>1. UNCHANGED <<streaming, main, callback>> /\ conv'.pc # "write"
    BY <1>5, <1>a DEF ConversionRecords, TypeOK
  <2>2. recorder'.recording \in {FALSE, recorder.recording}
    BY <1>5, <1>a, RecorderKeepsShape DEF ConversionRecords
  <2> QED
    BY <2>1, <2>2 DEF RecordingInv, RunsAt

<1>r. ASSUME Return, main # <<>>
      PROVE  main' # <<>> =>
               \/ Head(main').pc \in {"dialog", "saving", "wait", "close"}
               \/ Head(main').pc = "flag" /\ Head(main).pc \in {"clear", "finish", "finished"}
  BY <1>a, <1>r, ReturnIs DEF StackShape
<1>g. ASSUME NEW pc \in MainPC, GoTo(pc), main # <<>> PROVE main' # <<>> /\ Head(main').pc = pc
  BY <1>a, <1>g, GoToIs
<1>p. ASSUME NEW x, main' = <<x>> \o main PROVE main' # <<>> /\ Head(main') = x
  <2>1. <<x>> \o main = [i \in 1 .. Len(<<x>>) + Len(main) |->
                          IF i <= Len(<<x>>) THEN <<x>>[i] ELSE main[i - Len(<<x>>)]]
    OBVIOUS
  <2> QED
    BY <1>a, <1>p, <2>1, ActivationType
<1>q. ASSUME NEW p \in Seq(Activation), Len(p) > 0, main' = p \o main
      PROVE  main' # <<>> /\ Head(main') = p[1]
  BY <1>a, <1>q, ActivationType, Prepend
<1>6. CASE StartStreamingEnds
  BY <1>6, <1>r DEF StartStreamingEnds, RecordingInv, RunsAt
<1>7. CASE ClearRecordingCallback
  BY <1>7, <1>g DEF ClearRecordingCallback, ClearCallback, RecordingInv, RunsAt, MainPC
<1>8. CASE RecorderStops
  <2>1. ~recorder'.recording /\ callback' = "none" /\ conv'.pc # "write"
    BY <1>8, <1>a, StoppedIsOver DEF RecorderStops, RecordingInv, RunsAt
  <2> QED
    BY <2>1 DEF RecordingInv, RunsAt
<1>9. CASE RecorderStopped
  BY <1>9, <1>r DEF RecorderStopped, RecordingInv, RunsAt
<1>10. CASE ClearStreaming
  BY <1>10, <1>g DEF ClearStreaming, RecordingInv, RunsAt, MainPC
<1>11. ASSUME ReleaseRetained \/ Flush \/ StopStreamChannel \/ StopStreamChannelEnds
       PROVE  RecordingInv'
  <2>1. UNCHANGED <<recorder, streaming, callback, conv>>
    BY <1>11 DEF ReleaseRetained, Flush, StopStreamChannel, StopStreamChannelEnds
  <2>2. main' # <<>> /\ Head(main').pc \in {"flush", "channel", "wait", "off"}
    BY <1>11, <1>g DEF ReleaseRetained, Flush, StopStreamChannel, StopStreamChannelEnds, RunsAt, MainPC
  <2> QED
    BY <1>c, <2>1, <2>2
<1>12. ASSUME DeleteUserBuffer \/ CloseDevice \/ SaveImageEnds
       PROVE  RecordingInv'
  <2>1. UNCHANGED <<recorder, streaming, callback>> /\ conv'.pc = conv.pc
    BY <1>12, <1>a DEF DeleteUserBuffer, CloseDevice, SaveImageEnds, TypeOK
  <2>2. main' # <<>> => Head(main').pc \notin {"flag", "finish", "finished"}
    BY <1>12, <1>r DEF DeleteUserBuffer, CloseDevice, SaveImageEnds, RunsAt
  <2> QED
    BY <2>1, <2>2 DEF RecordingInv, RunsAt
<1>13. CASE DialogEnds
  <2>1. UNCHANGED <<recorder, streaming, callback, conv>>
    BY <1>13 DEF DialogEnds
  <2>2. main' # <<>> => Head(main').pc \notin {"flag", "finish", "finished"}
    BY <1>13, <1>g, <1>r DEF DialogEnds, RunsAt, MainPC
  <2> QED
    BY <2>1, <2>2 DEF RecordingInv, RunsAt
<1>14. CASE StartRecording
  <2>1. UNCHANGED <<streaming, callback, conv>>
    BY <1>14 DEF StartRecording
  <2>2. main' # <<>> => Head(main').pc \notin {"flag", "finish", "finished"}
    BY <1>14, <1>g, <1>r DEF StartRecording, RunsAt, MainPC
  <2>3. recorder'.recording => streaming
    BY <1>14 DEF StartRecording, RecordingInv
  <2> QED
    BY <2>1, <2>2, <2>3 DEF RecordingInv, RunsAt
<1>15. CASE SetRecordingCallback
  <2>1. UNCHANGED <<streaming, recorder, conv>>
    BY <1>15 DEF SetRecordingCallback
  <2>2. main' # <<>> => Head(main').pc \notin {"flag", "finish", "finished"}
    BY <1>15, <1>r DEF SetRecordingCallback, RunsAt
  <2> QED
    BY <2>1, <2>2 DEF RecordingInv, RunsAt
<1>16. CASE Undefined
  BY <1>16, <1>b DEF Undefined, vars
<1>17. CASE OpenCamera \/ StartStreaming \/ RecordDialog \/ SaveImageDialog
  <2>1. UNCHANGED <<recorder, streaming, callback, conv>>
    BY <1>17 DEF OpenCamera, StartStreaming, RecordDialog, SaveImageDialog
  <2>2. \/ main' = main
        \/ main' = <<At("replaced")>> \o main \/ main' = <<At("started")>> \o main
        \/ main' = <<[pc |-> "dialog", format |-> Head(events).format]>> \o main
        \/ main' = <<At("saving")>> \o main
    BY <1>17 DEF OpenCamera, StartStreaming, RecordDialog, SaveImageDialog
  <2>3. main' = main \/ (main' # <<>> /\ Head(main').pc \in {"replaced", "started", "dialog", "saving"})
    BY <1>p, <2>2 DEF At
  <2> QED
    BY <1>b, <1>c, <2>1, <2>3
<1>18. CASE StopStreaming \/ CloseCamera \/ StopRecording
  <2>1. UNCHANGED <<recorder, streaming, callback, conv>>
    BY <1>18 DEF StopStreaming, CloseCamera, StopRecording
  <2>2. \/ main' = main
        \/ main' # <<>> /\ Head(main').pc \in {"clear", "close"}
        \/ main' # <<>> /\ Head(main').pc = "flag" /\ ~recorder.recording
    <3>1. At("flag").pc = "flag" /\ At("clear").pc = "clear" /\ At("close").pc = "close"
          /\ At("close") \in Activation
      BY AtIsActivation DEF MainPC
    <3>2. \A s \in Seq(Activation) : <<>> \o s = s /\ (Len(s) = 0 => s = <<>>)
      OBVIOUS
    <3>3. CASE StopStreaming
      <4>1. main' = StopStream \o main
        BY <3>3 DEF StopStreaming
      <4>2. CASE Len(StopStream) = 0
        BY <1>a, <3>2, <4>1, <4>2, StopStreamIs, ActivationType
      <4>3. CASE Len(StopStream) > 0
        BY <1>q, <3>1, <4>1, <4>3, StopStreamIs
      <4> QED
        BY <4>2, <4>3, StopStreamIs
    <3>4. CASE CloseCamera
      <4> DEFINE p == StopStream \o <<At("close")>>
      <4>1. main' = main \/ main' = p \o main
        BY <3>4 DEF CloseCamera
      <4>2. /\ p \in Seq(Activation) /\ Len(p) > 0
            /\ Len(StopStream) = 0 => p[1] = At("close")
            /\ Len(StopStream) > 0 => p[1] = StopStream[1]
        BY <3>1, StopStreamIs
      <4> HIDE DEF p
      <4>3. main' = p \o main => main' # <<>> /\ Head(main') = p[1]
        BY <1>q, <4>2
      <4> QED
        BY <3>1, <4>1, <4>2, <4>3, StopStreamIs
    <3>5. CASE StopRecording
      <4>1. main' = StopRecorder \o main
        BY <3>5 DEF StopRecording
      <4>2. CASE recorder.recording
        BY <1>p, <3>1, <4>1, <4>2 DEF StopRecorder
      <4>3. CASE ~recorder.recording
        BY <1>a, <3>2, <4>1, <4>3, ActivationType DEF StopRecorder
      <4> QED
        BY <4>2, <4>3
    <3> QED
      BY <1>18, <3>3, <3>4, <3>5
  <2>3. CASE main' = main
    BY <1>b, <2>1, <2>3
  <2>4. CASE main' # <<>> /\ Head(main').pc \in {"clear", "close"}
    BY <1>c, <2>1, <2>4
  <2>5. CASE main' # <<>> /\ Head(main').pc = "flag" /\ ~recorder.recording
    BY <2>1, <2>5 DEF RecordingInv, RunsAt
  <2> QED
    BY <2>2, <2>3, <2>4, <2>5
<1>19. CASE OnRecordingStopped
  BY <1>19 DEF OnRecordingStopped, ClearCallback, RecordingInv, RunsAt
<1> QED
  BY <1>1, <1>2, <1>3, <1>4, <1>5, <1>6, <1>7, <1>8, <1>9, <1>10, <1>11, <1>12, <1>13, <1>14, <1>15,
     <1>16, <1>17, <1>18, <1>19 DEF Next, MainThread, Handler, ConversionThread

-----------------------------------------------------------------------------
(* The page. *)

Then(s, g, w) == Append(s, [flag |-> g, value |-> w])

LEMMA AppendTells ==
  ASSUME NEW s \in Seq(Signal), NEW q, NEW f, NEW g \in Flags, NEW v, NEW w \in BOOLEAN
  PROVE  /\ f = g => ToldIn(Then(s, g, w), q, f, w)
         /\ f # g /\ ToldIn(s, q, f, v) => ToldIn(Then(s, g, w), q, f, v)
<1> DEFINE t == Then(s, g, w)
<1>1. /\ DOMAIN t = 1 .. Len(s) + 1 /\ DOMAIN s = 1 .. Len(s) /\ Len(s) \in Nat
      /\ t[Len(s) + 1].flag = g /\ t[Len(s) + 1].value = w
      /\ \A i \in DOMAIN s : t[i] = s[i] /\ i \in DOMAIN t
  BY DEF Then
<1> HIDE DEF t
<1>2. ASSUME f = g PROVE ToldIn(t, q, f, w)
  <2>1. Len(s) + 1 \in DOMAIN t
    BY <1>1
  <2>2. ASSUME NEW i \in DOMAIN t, \A j \in DOMAIN t : j > i => t[j].flag # f
        PROVE  i = Len(s) + 1
    BY <1>1, <1>2, <2>1, <2>2
  <2> QED
    BY <1>1, <1>2, <2>1, <2>2 DEF ToldIn
<1>3. ASSUME f # g, ToldIn(s, q, f, v) PROVE ToldIn(t, q, f, v)
  <2>1. ASSUME \A i \in DOMAIN t : t[i].flag # f PROVE q[f] = v
    BY <1>1, <1>3, <2>1 DEF ToldIn
  <2>2. ASSUME NEW i \in DOMAIN t, t[i].flag = f, \A j \in DOMAIN t : j > i => t[j].flag # f
        PROVE  t[i].value = v
    <3>1. i \in DOMAIN s /\ s[i].flag = f /\ t[i] = s[i]
      BY <1>1, <1>3, <2>2
    <3>2. \A j \in DOMAIN s : j > i => s[j].flag # f
      BY <1>1, <2>2
    <3> QED
      BY <1>3, <3>1, <3>2 DEF ToldIn
  <2> QED
    BY <2>1, <2>2 DEF ToldIn
<1> QED
  BY <1>2, <1>3 DEF t

LEMMA TailTells ==
  ASSUME NEW s \in Seq(Signal), s # <<>>, NEW q \in [Flags -> BOOLEAN], NEW f \in Flags, NEW v,
         ToldIn(s, q, f, v)
  PROVE  ToldIn(Tail(s), [q EXCEPT ![Head(s).flag] = Head(s).value], f, v)
<1> DEFINE t == Tail(s)
           r == [q EXCEPT ![Head(s).flag] = Head(s).value]
<1>1. /\ DOMAIN t = 1 .. Len(s) - 1 /\ DOMAIN s = 1 .. Len(s) /\ Len(s) \in Nat /\ 1 \in DOMAIN s
      /\ Head(s) = s[1] /\ Head(s) \in Signal
      /\ \A i \in DOMAIN t : i + 1 \in DOMAIN s /\ t[i] = s[i + 1]
  OBVIOUS
<1>2. Head(s).flag \in Flags /\ r[f] = IF Head(s).flag = f THEN Head(s).value ELSE q[f]
  BY <1>1 DEF Signal
<1>3. \A j \in DOMAIN s : j > 1 => j - 1 \in DOMAIN t /\ s[j] = t[j - 1]
  <2> SUFFICES ASSUME NEW j \in DOMAIN s, j > 1 PROVE j - 1 \in DOMAIN t /\ s[j] = t[j - 1]
    OBVIOUS
  <2>1. j - 1 \in DOMAIN t /\ (j - 1) + 1 = j
    BY <1>1
  <2> QED
    BY <1>1, <2>1
<1> HIDE DEF t, r
<1>4. ASSUME \A i \in DOMAIN t : t[i].flag # f PROVE r[f] = v
  <2>1. \A j \in DOMAIN s : j > 1 => s[j].flag # f
    BY <1>3, <1>4
  <2>2. CASE s[1].flag = f
    BY <1>1, <1>2, <2>1, <2>2 DEF ToldIn
  <2>3. CASE s[1].flag # f
    <3>1. \A j \in DOMAIN s : s[j].flag # f
      BY <1>1, <2>1, <2>3
    <3> QED
      BY <1>1, <1>2, <2>3, <3>1 DEF ToldIn
  <2> QED
    BY <2>2, <2>3
<1>5. ASSUME NEW i \in DOMAIN t, t[i].flag = f, \A j \in DOMAIN t : j > i => t[j].flag # f
      PROVE  t[i].value = v
  <2>1. i + 1 \in DOMAIN s /\ s[i + 1] = t[i]
    BY <1>1
  <2>2. \A j \in DOMAIN s : j > i + 1 => s[j].flag # f
    <3> SUFFICES ASSUME NEW j \in DOMAIN s, j > i + 1 PROVE s[j].flag # f
      OBVIOUS
    <3>1. j - 1 \in DOMAIN t /\ s[j] = t[j - 1] /\ j - 1 > i
      BY <1>1, <1>3
    <3> QED
      BY <1>5, <3>1
  <2> QED
    BY <1>5, <2>1, <2>2 DEF ToldIn
<1>6. ToldIn(t, r, f, v)
  BY <1>4, <1>5 DEF ToldIn
<1> QED
  BY <1>6 DEF t, r

LEMMA EmitTells ==
  ASSUME TypeOK, NEW f, NEW v, NEW g \in Flags, NEW w \in BOOLEAN, Emit(g, w), page' = page
  PROVE  /\ f = g => ToldIn(signals', page', f, w)
         /\ f # g /\ ToldIn(signals, page, f, v) => ToldIn(signals', page', f, v)
<1>1. signals \in Seq(Signal) /\ signals' = Then(signals, g, w)
  BY DEF TypeOK, Signal, Emit, Then
<1> QED
  BY <1>1, AppendTells

(* The stream is taken for running from StartStreaming to DeleteUserBuffer. *)
LEMMA RunningKept ==
  ASSUME TypeOK, StackInv,
         \/ MainThread /\ ~StartStreamingEnds /\ ~DeleteUserBuffer
         \/ Handler
  PROVE  Running' = Running
<1>a. StackShape /\ StopIsFinal
  BY DEF StackInv
<1>b. DOMAIN main = 1 .. Len(main) /\ Len(main) \in Nat /\ main \in Seq(Activation)
  BY ActivationType
<1> USE DEF camera, capture, recording, channel
<1>1. ASSUME Return, main # <<>>, Head(main).pc \notin StopPC, streaming' = streaming
      PROVE  Running' = Running
  <2>1. \A i \in DOMAIN main : i > 1 => i - 1 \in DOMAIN main' /\ main'[i - 1] = main[i]
    <3> SUFFICES ASSUME NEW i \in DOMAIN main, i > 1
                 PROVE  i - 1 \in DOMAIN main' /\ main'[i - 1] = main[i]
      OBVIOUS
    <3>1. i - 1 \in DOMAIN main' /\ (i - 1) + 1 = i
      BY <1>1, <1>b, ReturnIs
    <3> QED
      BY <1>1, <3>1, ReturnIs
  <2>2. \A i \in DOMAIN main' : i + 1 \in DOMAIN main /\ main'[i] = main[i + 1]
    BY <1>1, ReturnIs
  <2>3. main[1].pc \notin StopPC
    BY <1>1, ReturnIs
  <2>4. Stopping' <=> Stopping
    BY <1>b, <2>1, <2>2, <2>3 DEF Stopping
  <2> QED
    BY <1>1, <2>4 DEF Running
<1>2. ASSUME NEW pc \in MainPC, GoTo(pc), main # <<>>, streaming' = streaming,
             Head(main).pc \in StopPC <=> pc \in StopPC
      PROVE  Running' = Running
  <2>1. Stopping' <=> Stopping
    BY <1>2, <1>b, GoToIs DEF Stopping
  <2> QED
    BY <1>2, <2>1 DEF Running
<1>3. ASSUME NEW p \in Seq(Activation), main' = p \o main, streaming' = streaming,
             streaming \/ \A i \in 1 .. Len(p) : p[i].pc \notin StopPC
      PROVE  Running' = Running
  <2>1. CASE streaming
    BY <1>3, <2>1 DEF Running
  <2>2. CASE ~streaming
    <3>1. /\ DOMAIN main' = 1 .. Len(p) + Len(main) /\ Len(p) \in Nat
          /\ \A i \in 1 .. Len(p) : main'[i] = p[i]
          /\ \A i \in 1 .. Len(main) : main'[i + Len(p)] = main[i]
      BY <1>3, <1>b, Prepend
    <3>2. ASSUME Stopping PROVE Stopping'
      <4>1. PICK i \in 1 .. Len(main) : main[i].pc \in StopPC
        BY <1>b, <3>2 DEF Stopping
      <4>2. i + Len(p) \in DOMAIN main' /\ main'[i + Len(p)].pc \in StopPC
        BY <1>b, <3>1, <4>1
      <4> QED
        BY <4>2 DEF Stopping
    <3>3. ASSUME Stopping' PROVE Stopping
      <4>1. PICK i \in 1 .. Len(p) + Len(main) : main'[i].pc \in StopPC
        BY <3>1, <3>3 DEF Stopping
      <4>2. i > Len(p)
        BY <1>3, <2>2, <3>1, <4>1
      <4>3. i - Len(p) \in 1 .. Len(main) /\ (i - Len(p)) + Len(p) = i
        BY <1>b, <3>1, <4>1, <4>2
      <4>4. main[i - Len(p)].pc \in StopPC
        BY <3>1, <4>1, <4>3
      <4> QED
        BY <1>b, <4>3, <4>4 DEF Stopping
    <3> QED
      BY <1>3, <3>2, <3>3 DEF Running
  <2> QED
    BY <2>1, <2>2
<1>4. ASSUME main' = main, streaming' = streaming PROVE Running' = Running
  BY <1>4 DEF Running, Stopping
<1>5. ASSUME NEW x \in Activation, x.pc \notin StopPC, main' = <<x>> \o main, streaming' = streaming
      PROVE  Running' = Running
  <2> DEFINE p == <<x>>
  <2>1. p \in Seq(Activation) /\ \A i \in 1 .. Len(p) : p[i].pc \notin StopPC
    BY <1>5
  <2> QED
    BY <1>3, <1>5, <2>1
<1>6. CASE ClearStreaming
  <2>1. main # <<>> /\ Head(main) = main[1] /\ 1 \in DOMAIN main /\ main[1].pc = "flag"
    BY <1>6, HeadIs DEF ClearStreaming, RunsAt
  <2>2. Stopping
    BY <2>1 DEF Stopping, StopPC
  <2>3. 1 \in DOMAIN main' /\ main'[1].pc = "release"
    BY <1>6, <2>1, GoToIs DEF ClearStreaming, MainPC
  <2>4. Stopping'
    BY <2>3 DEF Stopping, StopPC
  <2> QED
    BY <2>2, <2>4 DEF Running
<1>7. CASE ClearRecordingCallback
  BY <1>7, <1>2 DEF ClearRecordingCallback, RunsAt, StopPC, MainPC
<1>8. CASE ReleaseRetained
  BY <1>8, <1>2 DEF ReleaseRetained, RunsAt, StopPC, MainPC
<1>9. CASE Flush
  BY <1>9, <1>2 DEF Flush, RunsAt, StopPC, MainPC
<1>10. CASE StopStreamChannel
  BY <1>10, <1>2 DEF StopStreamChannel, RunsAt, StopPC, MainPC
<1>11. CASE StopStreamChannelEnds
  BY <1>11, <1>2 DEF StopStreamChannelEnds, RunsAt, StopPC, MainPC
<1>12. CASE RecorderStops
  BY <1>12, <1>1, <1>2 DEF RecorderStops, RunsAt, StopPC, MainPC
<1>13. CASE DialogEnds
  BY <1>13, <1>1, <1>2 DEF DialogEnds, RunsAt, StopPC, MainPC
<1>14. CASE StartRecording
  BY <1>14, <1>1, <1>2 DEF StartRecording, RunsAt, StopPC, MainPC
<1>15. ASSUME RecorderStopped \/ CloseDevice \/ SetRecordingCallback \/ SaveImageEnds
       PROVE  Running' = Running
  BY <1>15, <1>1 DEF RecorderStopped, CloseDevice, SetRecordingCallback, SaveImageEnds, RunsAt, StopPC
<1>16. CASE Undefined
  BY <1>16, <1>4 DEF Undefined, vars
<1>17. CASE OpenCamera \/ StartStreaming \/ SaveImageDialog \/ OnRecordingStopped
  <2>1. streaming' = streaming
    BY <1>17 DEF OpenCamera, StartStreaming, SaveImageDialog, OnRecordingStopped
  <2>2. \/ main' = main
        \/ \E pc \in {"replaced", "started", "saving"} : main' = <<At(pc)>> \o main
    BY <1>17 DEF OpenCamera, StartStreaming, SaveImageDialog, OnRecordingStopped
  <2>3. \A pc \in {"replaced", "started", "saving"} :
          At(pc) \in Activation /\ At(pc).pc \notin StopPC
    BY AtIsActivation DEF MainPC, StopPC
  <2> QED
    BY <1>4, <1>5, <2>1, <2>2, <2>3
<1>18. CASE RecordDialog
  <2>1. streaming' = streaming
    BY <1>18 DEF RecordDialog
  <2>2. Head(events).format \in Formats
    <3>1. events \in Seq(Event) /\ events # <<>>
      BY <1>18 DEF RecordDialog, Called, TypeOK, Event
    <3>2. Head(events) \in Event
      BY <3>1
    <3> QED
      BY <3>2 DEF Event
  <2> DEFINE x == [pc |-> "dialog", format |-> Head(events).format]
  <2>3. x \in Activation /\ x.pc \notin StopPC
    BY <2>2 DEF Activation, MainPC, StopPC
  <2>4. main' = main \/ main' = <<x>> \o main
    BY <1>18 DEF RecordDialog
  <2> HIDE DEF x
  <2> QED
    BY <1>4, <1>5, <2>1, <2>3, <2>4
<1>19. CASE StopStreaming
  <2>1. streaming' = streaming /\ main' = StopStream \o main
    BY <1>19 DEF StopStreaming
  <2>2. streaming \/ \A i \in 1 .. Len(StopStream) : StopStream[i].pc \notin StopPC
    BY StopStreamIs
  <2> QED
    BY <1>3, <2>1, <2>2, StopStreamIs
<1>20. CASE CloseCamera
  <2> DEFINE p == StopStream \o <<At("close")>>
  <2>1. streaming' = streaming /\ (main' = main \/ main' = p \o main)
    BY <1>20 DEF CloseCamera
  <2>2. At("close") \in Activation /\ At("close").pc = "close"
    BY AtIsActivation DEF MainPC
  <2>3. /\ p \in Seq(Activation)
        /\ Len(StopStream) = 0 => Len(p) = 1 /\ p[1] = At("close")
    BY StopStreamIs, <2>2
  <2> HIDE DEF p
  <2>4. streaming \/ \A i \in 1 .. Len(p) : p[i].pc \notin StopPC
    BY <2>2, <2>3, StopStreamIs DEF StopPC
  <2> QED
    BY <1>3, <1>4, <2>1, <2>3, <2>4
<1>21. CASE StopRecording
  <2>1. streaming' = streaming /\ main' = StopRecorder \o main
    BY <1>21 DEF StopRecording
  <2>2. \A i \in 1 .. Len(StopRecorder) : StopRecorder[i].pc \notin StopPC
    BY AtIsActivation DEF StopRecorder, StopPC, MainPC
  <2> QED
    BY <1>3, <2>1, <2>2, StopStreamIs
<1> QED
  BY <1>6, <1>7, <1>8, <1>9, <1>10, <1>11, <1>12, <1>13, <1>14, <1>15, <1>16, <1>17, <1>18, <1>19,
     <1>20, <1>21 DEF MainThread, Handler

LEMMA PageKept == TypeOK /\ StackInv /\ PageInv /\ [Next]_vars => PageInv'
<1> SUFFICES ASSUME TypeOK, StackInv, PageInv, [Next]_vars PROVE PageInv'
  OBVIOUS
<1>a. ToldIn(signals, page, "open", open) /\ ToldIn(signals, page, "streaming", Running)
  BY DEF PageInv, Told
<1>b. ASSUME ToldIn(signals', page', "open", open'), ToldIn(signals', page', "streaming", Running')
      PROVE  PageInv'
  BY <1>b DEF PageInv, Told
<1>c. ASSUME UNCHANGED <<signals, page, open>>, Running' = Running PROVE PageInv'
  BY <1>a, <1>b, <1>c
<1>d. StackShape /\ OneStop /\ StopIsFinal
  BY DEF StackInv
<1> USE DEF camera, capture, recording, channel
<1>e. Flags = {"open", "streaming", "recording"}
  BY DEF Flags
<1>1. ASSUME FrameThread \/ ConversionTakes \/ ConversionThread
             \/ (\E name \in Calls, format \in Formats : PageCalls(name, format)) \/ UNCHANGED vars
      PROVE  PageInv'
  <2>1. UNCHANGED <<signals, page, open, streaming, main>>
    BY <1>1 DEF FrameThread, FrameArrives, Processor2, PushFrame, Processor3, Retain,
       RetainReleasesPrevious, RetainStores, ConversionTakes, ConversionThread, ConversionLocksRecord,
       ConversionRecords, ConversionGivesBack, PageCalls, vars
  <2> QED
    BY <1>c, <2>1 DEF Running, Stopping
<1>2. CASE PageHears
  <2>1. UNCHANGED <<open, streaming, main>>
    BY <1>2 DEF PageHears
  <2>2. /\ signals \in Seq(Signal) /\ signals # <<>> /\ page \in [Flags -> BOOLEAN]
        /\ signals' = Tail(signals)
        /\ page' = [page EXCEPT ![Head(signals).flag] = Head(signals).value]
    BY <1>2 DEF PageHears, TypeOK, Signal
  <2>3. Running' = Running
    BY <2>1 DEF Running, Stopping
  <2>4. ToldIn(signals', page', "open", open) /\ ToldIn(signals', page', "streaming", Running)
    BY <1>a, <1>e, <2>2, TailTells
  <2> QED
    BY <1>b, <2>1, <2>3, <2>4
<1>3. CASE StartStreamingEnds
  <2>1. /\ Emit("streaming", TRUE) /\ page' = page /\ open' = open /\ streaming' = TRUE
    BY <1>3 DEF StartStreamingEnds
  <2>2. Running' = TRUE
    BY <2>1 DEF Running
  <2>3. ToldIn(signals', page', "open", open) /\ ToldIn(signals', page', "streaming", TRUE)
    BY <1>a, <1>e, <2>1, EmitTells
  <2> QED
    BY <1>b, <2>1, <2>2, <2>3
<1>4. CASE DeleteUserBuffer
  <2>1. Emit("streaming", FALSE) /\ page' = page /\ open' = open /\ streaming' = streaming /\ Return
    BY <1>4 DEF DeleteUserBuffer
  <2>2. main # <<>> /\ 1 \in DOMAIN main /\ main[1].pc = "off"
    BY <1>4, HeadIs DEF DeleteUserBuffer, RunsAt
  <2>3. ~streaming /\ \A i \in DOMAIN main : main[i].pc \in StopPC => i = 1
    BY <1>d, <2>2 DEF StopIsFinal, OneStop, StopPC
  <2>4. \A i \in DOMAIN main' : i + 1 \in DOMAIN main /\ i # 0 /\ i \in Nat /\ main'[i] = main[i + 1]
    BY <2>1, <2>2, ReturnIs, ActivationType
  <2>5. Running' = FALSE
    BY <2>1, <2>3, <2>4 DEF Running, Stopping
  <2>6. ToldIn(signals', page', "open", open) /\ ToldIn(signals', page', "streaming", FALSE)
    BY <1>a, <1>e, <2>1, EmitTells
  <2> QED
    BY <1>b, <2>1, <2>5, <2>6
<1>5. ASSUME MainThread, ~StartStreamingEnds, ~DeleteUserBuffer PROVE PageInv'
  <2>1. Running' = Running
    BY <1>5, RunningKept
  <2>2. CASE CloseDevice
    <3>1. Emit("open", FALSE) /\ page' = page /\ open' = FALSE
      BY <2>2 DEF CloseDevice
    <3>2. ToldIn(signals', page', "open", FALSE) /\ ToldIn(signals', page', "streaming", Running)
      BY <1>a, <1>e, <3>1, EmitTells
    <3> QED
      BY <1>b, <2>1, <3>1, <3>2
  <2>3. CASE RecorderStopped \/ SetRecordingCallback
    <3>1. (\E v \in BOOLEAN : Emit("recording", v)) /\ page' = page /\ open' = open
      BY <2>3 DEF RecorderStopped, SetRecordingCallback
    <3>2. ToldIn(signals', page', "open", open) /\ ToldIn(signals', page', "streaming", Running)
      BY <1>a, <1>e, <3>1, EmitTells
    <3> QED
      BY <1>b, <2>1, <3>1, <3>2
  <2>4. CASE ~CloseDevice /\ ~RecorderStopped /\ ~SetRecordingCallback
    <3>1. UNCHANGED <<signals, page, open>>
      BY <1>5, <2>4 DEF MainThread, ClearRecordingCallback, RecorderStops, ClearStreaming,
         ReleaseRetained, Flush, StopStreamChannel, StopStreamChannelEnds, DialogEnds, StartRecording,
         SaveImageEnds, Undefined, vars
    <3> QED
      BY <1>c, <2>1, <3>1
  <2> QED
    BY <2>2, <2>3, <2>4
<1>6. CASE Handler
  <2>1. Running' = Running
    BY <1>6, RunningKept
  <2>2. page' = page
    BY <1>6 DEF Handler, OpenCamera, CloseCamera, StartStreaming, StopStreaming, RecordDialog,
       StopRecording, SaveImageDialog, OnRecordingStopped, Called
  <2>3. CASE UNCHANGED <<signals, open>>
    BY <1>c, <2>1, <2>2, <2>3
  <2>4. CASE Emit("open", TRUE) /\ open' = TRUE
    <3>1. ToldIn(signals', page', "open", TRUE) /\ ToldIn(signals', page', "streaming", Running)
      BY <1>a, <1>e, <2>2, <2>4, EmitTells
    <3> QED
      BY <1>b, <2>1, <2>4, <3>1
  <2>5. CASE Emit("recording", FALSE) /\ open' = open
    <3>1. ToldIn(signals', page', "open", open) /\ ToldIn(signals', page', "streaming", Running)
      BY <1>a, <1>e, <2>2, <2>5, EmitTells
    <3> QED
      BY <1>b, <2>1, <2>5, <3>1
  <2> QED
    BY <1>6, <2>3, <2>4, <2>5 DEF Handler, OpenCamera, CloseCamera, StartStreaming, StopStreaming,
       RecordDialog, StopRecording, SaveImageDialog, OnRecordingStopped
<1> QED
  BY <1>1, <1>2, <1>3, <1>4, <1>5, <1>6 DEF Next, Page

-----------------------------------------------------------------------------
(* The theorems. *)

LEMMA InitBridgeInv == Init => BridgeInv
<1> SUFFICES ASSUME Init PROVE BridgeInv
  OBVIOUS
<1>1. Types
  BY InitTypes
<1>2. main = <<>> /\ DOMAIN main = {} /\ signals = <<>> /\ DOMAIN signals = {}
  BY DEF Init
<1>3. StackInv
  BY <1>2 DEF Init, StackInv, StackShape, OneStop, CloseWaits, StopIsFinal, StreamRuns, RunsAt
<1>4. HolderInv
  <2>1. ThreadsHold
    BY DEF Init, ThreadsHold, Idle
  <2>2. ASSUME NEW b \in Buffers PROVE OnePlace(b)
    BY <2>2, BridgeAssumption DEF Init, OnePlace, FrameHolds, Idle
  <2> QED
    BY <2>1, <2>2 DEF HolderInv
<1>5. RecordingInv
  BY <1>2 DEF Init, RecordingInv, RunsAt, NewRecorder
<1>6. PageInv
  <2>1. Running = FALSE
    BY <1>2 DEF Init, Running, Stopping
  <2>2. ToldIn(signals, page, "open", FALSE) /\ ToldIn(signals, page, "streaming", FALSE)
    BY <1>2 DEF Init, ToldIn, Flags
  <2> QED
    BY <2>1, <2>2 DEF Init, PageInv, Told
<1> QED
  BY <1>1, <1>3, <1>4, <1>5, <1>6 DEF BridgeInv, Types

LEMMA BridgeInvKept == BridgeInv /\ [Next]_vars => BridgeInv'
<1>1. BridgeInv <=> Types /\ TypeOK /\ StackInv /\ HolderInv /\ RecordingInv /\ PageInv
  BY DEF BridgeInv, Types
<1>2. BridgeInv' <=> Types' /\ TypeOK' /\ StackInv' /\ HolderInv' /\ RecordingInv' /\ PageInv'
  BY DEF BridgeInv, Types
<1>3. Types' => TypeOK'
  BY DEF Types
<1>4. TypeOK /\ StackInv /\ [Next]_vars => StackInv'
  BY OthersKeepStack, MainThreadKeepsStack, HandlerKeepsStack DEF Next
<1> QED
  BY <1>1, <1>2, <1>3, <1>4, TypesKept, HoldersKept, RecordingKept, PageKept

LEMMA BridgeInvHolds == Spec => []BridgeInv
BY InitBridgeInv, BridgeInvKept, PTL DEF Spec

(* Each `done' callback of processors 2 and 3 that has not been called is  *)
(* in exactly one place, through Retain's unlocked call of the previous    *)
(* one, PushFrame, the release and flush of stopStreaming, and the calls   *)
(* the page makes while StopStream waits: none is lost and none is called  *)
(* for a frame that somebody else holds.                                   *)
THEOREM EveryCallbackHasOneHolder == Spec => []OneHolder
<1>1. BridgeInv => OneHolder
  BY OnePlaceIsOneHolder DEF BridgeInv, OneHolder
<1> QED
  BY <1>1, BridgeInvHolds, PTL

(* A recording never outlives the stream: startRecording checks again what *)
(* recordDialog checked before its dialog, and stopStreaming stops the     *)
(* recorder before it clears m_bIsStreaming.                               *)
THEOREM RecordingsEndWithTheStream == Spec => []RecordingNeedsStream
<1>1. BridgeInv => RecordingNeedsStream
  BY DEF BridgeInv, RecordingInv, RecordingNeedsStream
<1> QED
  BY <1>1, BridgeInvHolds, PTL

(* The main thread, which holds the recorder's mutex while it emits        *)
(* recordingStopped, and the conversion thread, which holds m_recordMutex  *)
(* in the recording callback, never wait for each other.                   *)
THEOREM RecorderLocksAreFree == Spec => []NoLockCycle
<1>1. BridgeInv => NoLockCycle
  BY DEF BridgeInv, RecordingInv, NoLockCycle
<1> QED
  BY <1>1, BridgeInvHolds, PTL

(* When no call, event or signal is on its way, the page shows whether the *)
(* camera is open and streams, whatever calls crossed which signals and    *)
(* whatever was called while a stopStreaming waited.                       *)
THEOREM PageFollowsTheBridge == Spec => []PageInStep
<1>1. BridgeInv => PageInStep
  <2> SUFFICES ASSUME BridgeInv, main = <<>>, events = <<>>, signals = <<>>
               PROVE  page["open"] = open /\ page["streaming"] = streaming
    BY DEF PageInStep
  <2>1. ToldIn(signals, page, "open", open) /\ ToldIn(signals, page, "streaming", Running)
    BY DEF BridgeInv, PageInv, Told
  <2>2. DOMAIN signals = {} /\ DOMAIN main = {}
    OBVIOUS
  <2>3. page["open"] = open /\ page["streaming"] = Running
    BY <2>1, <2>2 DEF ToldIn
  <2>4. Running = streaming
    BY <2>2 DEF BridgeInv, TypeOK, Running, Stopping
  <2> QED
    BY <2>3, <2>4
<1> QED
  BY <1>1, BridgeInvHolds, PTL

-----------------------------------------------------------------------------
(* The files. *)

(* A recording that goes on keeps its frames in order; one that has ended  *)
(* has left a file that can be played, or nothing.                         *)
FileInv ==
  recorder.format = "avi" =>
    IF recorder.recording THEN Growing(recorder, MaxBytes)
                          ELSE recorder.file = NoFile \/ AviConsistent(recorder.file)

LEMMA FilesKept ==
  ASSUME NEW most, SizesFit(MaxBytes, most), \A n \in FrameSizes : n <= most,
         Types, FileInv, [Next]_vars
  PROVE  FileInv'
<1>a. RecorderShape /\ recorder.recording \in BOOLEAN
  BY DEF Types, TypeOK
<1>b. ASSUME UNCHANGED recorder PROVE FileInv'
  BY <1>b DEF FileInv
<1>f. ASSUME Finished(recorder') PROVE FileInv'
  BY <1>f DEF FileInv, Finished
<1>g. ASSUME Growing(recorder', MaxBytes) PROVE FileInv'
  BY <1>g DEF FileInv, Growing
<1> USE DEF camera, capture, recording, channel
<1>1. CASE RecorderStops
  <2>1. CASE ~recorder.recording
    BY <1>1, <1>b, <2>1 DEF RecorderStops, Stopped
  <2>2. CASE recorder.format # "avi"
    <3>1. recorder'.format = recorder.format
      BY <1>1, <1>a, RecorderKeepsShape DEF RecorderStops
    <3> QED
      BY <2>2, <3>1 DEF FileInv
  <2>3. CASE recorder.recording /\ recorder.format = "avi"
    <3>1. Growing(recorder, MaxBytes)
      BY <2>3 DEF FileInv
    <3>2. Finished(recorder')
      BY <1>1, <3>1, StoppedIsFinished DEF RecorderStops
    <3> QED
      BY <1>f, <3>2
  <2> QED
    BY <2>1, <2>2, <2>3
<1>2. CASE StartRecording
  <2>1. CASE UNCHANGED recorder
    BY <1>b, <2>1
  <2>2. CASE recorder' = Started(Head(main).format, MaxBytes)
    <3>1. recorder'.format = Head(main).format
      BY <2>2 DEF Started, NewRecorder
    <3>2. CASE Head(main).format = "avi"
      <4>1. Growing(recorder', MaxBytes)
        BY <2>2, <3>2, StartedGrows
      <4> QED
        BY <1>g, <4>1
    <3>3. CASE Head(main).format # "avi"
      BY <3>1, <3>3 DEF FileInv
    <3> QED
      BY <3>2, <3>3
  <2> QED
    BY <1>2, <2>1, <2>2 DEF StartRecording
<1>3. CASE ConversionRecords
  <2>1. PICK n \in FrameSizes :
          recorder' \in {JpegFrameWritten(recorder, n), RawFrameWritten(recorder, n)}
    BY <1>3 DEF ConversionRecords
  <2>2. recorder'.format = recorder.format
    BY <1>a, <2>1, RecorderKeepsShape
  <2>3. CASE recorder.format # "avi"
    BY <2>2, <2>3 DEF FileInv
  <2>4. CASE recorder.format = "avi" /\ ~recorder.recording
    <3>1. UNCHANGED recorder
      BY <2>1, <2>4 DEF JpegFrameWritten, RawFrameWritten
    <3> QED
      BY <1>b, <3>1
  <2>5. CASE recorder.format = "avi" /\ recorder.recording
    <3>1. Growing(recorder, MaxBytes)
      BY <2>5 DEF FileInv
    <3>2. RawFrameWritten(recorder, n) = recorder
      BY <2>5 DEF RawFrameWritten
    <3>3. n \in Nat /\ n <= most
      BY BridgeAssumption
    <3>4. Growing(recorder', MaxBytes) \/ Finished(recorder')
      BY <2>1, <3>1, <3>2, <3>3, FrameGrowsOrFinishes
    <3> QED
      BY <1>f, <1>g, <3>4
  <2> QED
    BY <1>a, <2>3, <2>4, <2>5
<1>4. CASE FrameThread \/ Page \/ ConversionTakes \/ ConversionLocksRecord \/ ConversionGivesBack
           \/ UNCHANGED vars
  BY <1>4, <1>b DEF FrameThread, FrameArrives, Processor2, PushFrame, Processor3, Retain,
     RetainReleasesPrevious, RetainStores, Page, PageHears, PageCalls, ConversionTakes,
     ConversionLocksRecord, ConversionGivesBack, vars
<1>5. CASE StartStreamingEnds \/ ClearRecordingCallback \/ RecorderStopped \/ ClearStreaming
           \/ ReleaseRetained \/ Flush \/ StopStreamChannel \/ StopStreamChannelEnds
           \/ DeleteUserBuffer \/ CloseDevice \/ DialogEnds \/ SetRecordingCallback
           \/ SaveImageEnds \/ Undefined
  BY <1>5, <1>b DEF StartStreamingEnds, ClearRecordingCallback, RecorderStopped, ClearStreaming,
     ReleaseRetained, Flush, StopStreamChannel, StopStreamChannelEnds, DeleteUserBuffer,
     CloseDevice, DialogEnds, SetRecordingCallback, SaveImageEnds, Undefined, vars
<1>6. CASE Handler
  BY <1>6, <1>b DEF Handler, OpenCamera, CloseCamera, StartStreaming, StopStreaming, RecordDialog,
     StopRecording, SaveImageDialog, OnRecordingStopped
<1> QED
  BY <1>1, <1>2, <1>3, <1>4, <1>5, <1>6 DEF Next, MainThread, ConversionThread

(* An AVI file can be played once its recording has ended, whichever of    *)
(* stopRecording, stopStreaming and the size limit ends it and whatever    *)
(* frames came first: as long as the limit leaves the 32-bit sizes room    *)
(* for the frames and their index, which the default of 200 MB does.       *)
THEOREM FinishedFilesPlay ==
  ASSUME NEW most, SizesFit(MaxBytes, most), \A n \in FrameSizes : n <= most
  PROVE  Spec => []FileConsistent
<1>1. Init => FileInv
  BY DEF Init, FileInv, NewRecorder
<1>2. BridgeInv /\ FileInv /\ [Next]_vars => FileInv'
  BY FilesKept DEF BridgeInv, Types
<1>3. FileInv => FileConsistent
  BY DEF FileInv, FileConsistent
<1> QED
  BY <1>1, <1>2, <1>3, BridgeInvHolds, PTL DEF Spec

===============================================================================
