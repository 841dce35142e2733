---------------------------- MODULE VideoRecorder ----------------------------
(***************************************************************************)
(* The recorder's operations, each one critical section of m_mutex, as     *)
(* functions from the recorder's state to its next state.  The file is     *)
(* kept as the extents of what was written: the header at its beginning    *)
(* with the sizes in it, the frames' chunks, and the index chunks.         *)
(***************************************************************************)
EXTENDS Integers, Sequences

CONSTANTS
  HeaderSize,   (* bytes of an AVI header: m_moviStart                      *)
  Word          (* 2^32: sizes in an AVI file have 32 bits                  *)

ASSUME RecorderAssumption == HeaderSize \in Nat /\ Word \in Nat \ {0}

Formats == {"avi", "raw"}
ChunkHeader == 8
IndexEntrySize == 16
Padded(n) == n + (n % 2)

(* A raw file's text header: two decimal numbers and the rest (640x480). *)
RawText == 60
Digits[n \in Nat] == IF n < 10 THEN 1 ELSE 1 + Digits[n \div 10]
RawHeaderSize(bytesPerFrame, frames) == RawText + Digits[bytesPerFrame] + Digits[frames]

NoFile == [chunks |-> <<>>, indexes |-> <<>>, size |-> 0,
           header |-> [end |-> 0, riff |-> 0, movi |-> 0, frames |-> 0]]
NewRecorder == [recording |-> FALSE, format |-> "avi", maxBytes |-> 0,
                frames |-> 0, index |-> <<>>, file |-> NoFile]

-----------------------------------------------------------------------------
(* start: the sizes in the header are placeholders. *)
Started(format, maxBytes) ==
  LET end == IF format = "avi" THEN HeaderSize ELSE RawHeaderSize(0, 0)
      file == [NoFile EXCEPT !.size = end, !.header.end = end]
  IN [NewRecorder EXCEPT !.recording = TRUE, !.format = format, !.maxBytes = maxBytes,
                         !.file = file]

(* The index chunk, and writeAviHeader(true). *)
AviFinished(r) ==
  LET idx1 == ChunkHeader + Len(r.index) * IndexEntrySize
      size == r.file.size + idx1
  IN [r EXCEPT !.recording = FALSE,
               !.file.indexes = Append(@, [at |-> r.file.size, entries |-> r.index]),
               !.file.size = size,
               !.file.header = [end    |-> HeaderSize,
                                riff   |-> (size - 8) % Word,
                                movi   |-> (size - idx1 - HeaderSize + 4) % Word,
                                frames |-> r.frames]]

(* The raw header is written over the old one with the final numbers, *)
(* the bytes of a frame being an average that includes the header.    *)
RawFinished(r) ==
  LET bytesPerFrame == IF r.frames > 0 THEN r.file.size \div r.frames ELSE 0
  IN [r EXCEPT !.recording = FALSE,
               !.file.header.end = RawHeaderSize(bytesPerFrame, r.frames),
               !.file.header.frames = r.frames]

(* Mutant: a recording that has already ended is finished once more. *)
StoppedAgain(r) == IF r.format = "avi" THEN AviFinished(r) ELSE RawFinished(r)

Stopped(r) ==
  IF ~r.recording THEN r
  ELSE IF r.format = "avi" THEN AviFinished(r) ELSE RawFinished(r)

(* checkSizeLimit: a raw file keeps the header it has. *)
LimitReached(r) == r.maxBytes > 0 /\ r.file.size >= r.maxBytes
SizeLimitChecked(r) ==
  IF ~LimitReached(r) THEN r
  ELSE IF r.format = "avi" THEN AviFinished(r) ELSE [r EXCEPT !.recording = FALSE]

JpegFrameWritten(r, n) ==
  IF ~r.recording \/ r.format # "avi" THEN r
  ELSE SizeLimitChecked(
         [r EXCEPT !.frames = @ + 1,
                   !.index = Append(@, [offset |-> (r.file.size - HeaderSize) % Word,
                                        size   |-> n % Word]),
                   !.file.chunks = Append(@, [at |-> r.file.size, size |-> n]),
                   !.file.size = @ + ChunkHeader + Padded(n)])

RawFrameWritten(r, n) ==
  IF ~r.recording \/ r.format # "raw" THEN r
  ELSE SizeLimitChecked([r EXCEPT !.frames = @ + 1,
                                  !.file.chunks = Append(@, [at |-> r.file.size, size |-> n]),
                                  !.file.size = @ + n])

-----------------------------------------------------------------------------
(* An AVI file somebody can play: one index, which lists every frame where *)
(* it is; the frames follow each other up to the index; the header's sizes *)
(* are those of the file and of the movi list, and it counts the frames.   *)
AviConsistent(f) ==
  LET idx1 == f.indexes[1]
      end(i) == f.chunks[i].at + ChunkHeader + Padded(f.chunks[i].size)
      n == Len(f.chunks)
  IN /\ Len(f.indexes) = 1
     /\ f.header = [end |-> HeaderSize, riff |-> f.size - 8,
                    movi |-> idx1.at - HeaderSize + 4, frames |-> n]
     /\ idx1.entries = [i \in 1 .. n |-> [offset |-> f.chunks[i].at - HeaderSize,
                                          size   |-> f.chunks[i].size]]
     /\ \A i \in 1 .. n : end(i) = IF i = n THEN idx1.at ELSE f.chunks[i + 1].at
     /\ f.size = idx1.at + ChunkHeader + n * IndexEntrySize

(* No frame has been written over by the header. *)
FramesIntact(f) == f.chunks # <<>> => f.header.end <= f.chunks[1].at

=============================================================================
