---------------------------- MODULE ImageTransform ----------------------------
(***************************************************************************)
(* ImageTransform::ConvertFrame: from the bytes of a frame to the pixels   *)
(* of an image, by converters that walk over the frame with pointers.      *)
(*                                                                         *)
(* A byte is modelled by where it comes from: its offset in the frame.     *)
(* The value of a colour channel is then the set of offsets it was         *)
(* computed from, and a pixel is the channels red, green and blue.  One    *)
(* step converts one line.  Some formats go through a buffer first, which  *)
(* loses the padding or the low bits: `buffer' maps its offsets to those   *)
(* of the frame.  What QImage and its JPEG reader convert is left out.     *)
(***************************************************************************)
EXTENDS Integers, Sequences

CONSTANTS
  Widths, Heights,  (* sizes of images                                     *)
  Paddings          (* bytes at the end of a line of the frame             *)

ASSUME ImageSizesAssumption ==
  Widths \subseteq Nat \ {0} /\ Heights \subseteq Nat \ {0} /\ Paddings \subseteq Nat

VARIABLES
  job,      (* the frame: layout, colour filter, width, height, padding    *)
  buffer,   (* what the converter walks over                               *)
  line,     (* the line it is at                                           *)
  src,      (* its source pointer                                          *)
  chroma,   (* yuv420: its place in the planes of u and v                  *)
  wrote,    (* the pixels of the line written last                         *)
  written   (* number of pixels written                                    *)

imageVars == <<job, buffer, line, src, chroma, wrote, written>>

(* Bytes per eight pixels of a line, by layout. *)
Bytes == [bgr24 |-> 24, uyvy |-> 16, vyuy |-> 16, yuyv |-> 16, yuv420 |-> 8, rgb565 |-> 16,
          bgr32 |-> 32, rgb32 |-> 32, xrgb32 |-> 32, grey |-> 8, mono10p |-> 10, mono12p |-> 12, mono16 |-> 16,
          bayer8 |-> 8, bayer10p |-> 10, bayer12p |-> 12, bayer16 |-> 16]
BayerLayouts == {"bayer8", "bayer10p", "bayer12p", "bayer16"}
Filters == {"BGGR", "GBRG", "GRBG", "RGGB"}

Job == [layout : DOMAIN Bytes, filter : Filters, w : Widths, h : Heights, pad : Paddings]
Payload(j) == (j.w * Bytes[j.layout]) \div 8
BytesPerLine(j) == Payload(j) + j.pad
(* The size of a frame; the two planes of chroma follow the luma. *)
FrameSize(j) ==
  IF j.layout = "yuv420" THEN (BytesPerLine(j) * j.h * 3) \div 2 ELSE BytesPerLine(j) * j.h

-----------------------------------------------------------------------------
(* The first pass of a format. *)

WholeFrame(j) == [o \in 0 .. FrameSize(j) - 1 |-> o]

RemovePadding(j, bytes) ==
  [k \in 0 .. j.w * j.h * bytes - 1 |->
     (k \div (j.w * bytes)) * BytesPerLine(j) + (k % (j.w * bytes))]

(* Packed 10 and 12 bits: every group of n bytes ends with the low bits of *)
(* the others, (o + 1) % n = 0, which are dropped.  The groups are counted *)
(* over all lines of w * 1.25 or 1.5 bytes, whatever the padding.          *)
DropEvery(j, n) ==
  LET count == Payload(j) * j.h
  IN [k \in 0 .. count - count \div n - 1 |-> k + k \div (n - 1)]

(* Ten and more bits in words of 16; the two bytes count as one sample. *)
HighBits(j) ==
  [k \in 0 .. j.w * j.h - 1 |-> (k \div j.w) * BytesPerLine(j) + 2 * (k % j.w)]

FirstPass(j) ==
  CASE j.layout \in {"grey", "bayer8"}      -> RemovePadding(j, 1)
    [] j.layout = "xrgb32"                  -> RemovePadding(j, 4)
    [] j.layout \in {"mono10p", "bayer10p"} -> DropEvery(j, 5)
    [] j.layout \in {"mono12p", "bayer12p"} -> DropEvery(j, 3)
    [] j.layout \in {"mono16", "bayer16"}   -> HighBits(j)
    [] OTHER                                -> WholeFrame(j)

(* A Bayer image has two lines or more: of one the converter would not     *)
(* find the end.                                                           *)
ImageInit ==
  /\ job \in Job
  /\ job.layout \in BayerLayouts => job.h > 1
  /\ job.layout \notin BayerLayouts => job.filter = "BGGR"
  /\ buffer = FirstPass(job)
  /\ line = 0 /\ src = 0 /\ chroma = 0
  /\ wrote = <<>> /\ written = 0

-----------------------------------------------------------------------------
(* Pixels; a channel is a set of offsets in the buffer. *)

Pixel(r, g, b) == <<r, g, b>>
Grey(o) == Pixel({o}, {o}, {o})
(* From luma and chroma. *)
Yuv(y, u, v) == Pixel({y, v}, {y, u, v}, {y, u})

(* The pixels of n rounds of a loop that writes two at a time. *)
InPairs(n, round) == [k \in 1 .. 2 * n |-> round[(k + 1) \div 2][2 - (k % 2)]]

Writes(pixels, advance) ==
  /\ line < job.h
  /\ wrote' = pixels
  /\ written' = written + Len(pixels)
  /\ src' = src + advance
  /\ line' = line + 1
  /\ UNCHANGED <<job, buffer>>

(* The formats of one pixel after the other; RGB32 is copied like BGR32. *)
PixelAt(j, o) ==
  CASE j.layout \in {"bgr24", "bgr32", "rgb32"} -> Pixel({o + 2}, {o + 1}, {o})
    [] j.layout = "xrgb32" -> Pixel({o + 1}, {o + 2}, {o + 3})
    [] j.layout = "rgb565" -> Pixel({o + 1}, {o, o + 1}, {o})
    [] OTHER               -> Grey(o)
Unit(j) == CASE j.layout = "bgr24"                        -> 3
             [] j.layout \in {"bgr32", "rgb32", "xrgb32"} -> 4
             [] j.layout = "rgb565"                       -> 2
             [] OTHER                                     -> 1
(* Only v4lconvert_swap_rgb skips the padding on its way. *)
Skip(j) == IF j.layout = "bgr24" THEN j.pad ELSE 0

(* The packed ones write a pixel for every byte they keep, so fewer than   *)
(* the image has if a group is cut off.                                    *)
PackedMono == {"mono10p", "mono12p"}

ConvertPixels ==
  /\ job.layout \notin BayerLayouts \cup {"uyvy", "vyuy", "yuyv", "yuv420"}
  /\ LET pixels == {x \in 1 .. job.w : job.layout \in PackedMono => src + x - 1 \in DOMAIN buffer}
     IN Writes([x \in pixels |-> PixelAt(job, src + (x - 1) * Unit(job))],
               job.w * Unit(job) + Skip(job))
  /\ UNCHANGED chroma

(* Two pixels at a time, while there are two. *)
PairAt(j, o) ==
  CASE j.layout = "uyvy" -> <<Yuv(o + 1, o, o + 2), Yuv(o + 3, o, o + 2)>>
    [] j.layout = "vyuy" -> <<Yuv(o + 1, o + 2, o), Yuv(o + 3, o + 2, o)>>
    [] j.layout = "yuyv" -> <<Yuv(o, o + 1, o + 3), Yuv(o + 2, o + 1, o + 3)>>

ConvertPairs ==
  /\ job.layout \in {"uyvy", "vyuy", "yuyv"}
  /\ LET pairs == job.w \div 2
     IN Writes(InPairs(pairs, [i \in 1 .. pairs |-> PairAt(job, src + 4 * (i - 1))]),
               4 * pairs + BytesPerLine(job) - job.w * 2)
  /\ UNCHANGED chroma

(* yuv420 is called with yvu = 1: the plane of v is taken to be the first. *)
ConvertPlanes ==
  /\ job.layout = "yuv420"
  /\ LET pairs == (job.w + 1) \div 2
         area  == job.w * job.h
         u(i)  == area + area \div 4 + chroma + i - 1
         v(i)  == area + chroma + i - 1
         pair(i) == <<Yuv(src + 2 * i - 2, u(i), v(i)), Yuv(src + 2 * i - 1, u(i), v(i))>>
     IN /\ Writes(InPairs(pairs, [i \in 1 .. pairs |-> pair(i)]), 2 * pairs)
        /\ chroma' = chroma + pairs - (IF line % 2 = 0 THEN job.w \div 2 ELSE 0)

-----------------------------------------------------------------------------
(* Bayer filters: v4lconvert_bayer8_to_rgb24.  The lines of the buffer     *)
(* have job.w bytes.                                                       *)

StartsGreen(j, y) == (j.filter \in {"GBRG", "GRBG"}) # (y % 2 = 1)
(* Mutant: the order of the colours does not change from line to line. *)
BlueLineFixed(j, y) == j.filter \in {"GRBG", "RGGB"}
BlueLine(j, y) == (j.filter \in {"GRBG", "RGGB"}) # (y % 2 = 1)

(* A pixel whose line has the colours a and green; c is the third colour. *)
Ordered(j, y, a, g, c) == IF BlueLine(j, y) THEN Pixel(a, g, c) ELSE Pixel(c, g, a)

(* Number of iterations of `for (; width > 2; width -= 2)', and of the     *)
(* loop up to bayer_end in the lines between the borders.                  *)
Rounds(width) == IF width > 2 THEN (width - 1) \div 2 ELSE 0

(* The first and the last line: p is the start of the line, q that of the  *)
(* line next to it.                                                        *)
BorderLine(j, y, p, q) ==
  LET px(a, g, c) == Ordered(j, y, a, g, c)
      green == StartsGreen(j, y)
      first == IF green
               THEN << px({p + 1}, {p}, {q}),
                       px({p + 1}, {p, p + 2, q + 1}, {q, q + 2}) >>
               ELSE << px({p}, {p + 1, q}, {q + 1}) >>
      start == IF green THEN 1 ELSE 0
      width == j.w - 1 - start
      rounds == Rounds(width)
      round(i) ==
        LET b == p + start + 2 * (i - 1)
            a == q + start + 2 * (i - 1)
        IN << px({b, b + 2}, {b + 1}, {a + 1}),
              px({b + 2}, {b + 1, b + 3, a + 2}, {a + 1, a + 3}) >>
      b == p + start + 2 * rounds
      a == q + start + 2 * rounds
      last == IF width - 2 * rounds = 2
              THEN << px({b, b + 2}, {b + 1}, {a + 1}),
                      px({b + 2}, {b + 1, a + 2}, {a + 1}) >>
              ELSE << px({b}, {b + 1}, {a + 1}) >>
  IN first \o InPairs(rounds, [i \in 1 .. rounds |-> round(i)]) \o last

(* A line between two others, after line y, which starts at p.  Where a    *)
(* line y has a and green, this one has green and c.                       *)
MiddleLine(j, y, p) ==
  LET px(a, g, c) == Ordered(j, y, a, g, c)
      s == j.w
      green == StartsGreen(j, y)
      first == IF green
               THEN << px({p + 1, p + 2*s + 1}, {p, p + 2*s, p + s + 1}, {p + s}),
                       px({p + 1, p + 2*s + 1}, {p + s + 1}, {p + s, p + s + 2}) >>
               ELSE << px({p, p + 2*s}, {p + s}, {p + s + 1}) >>
      start == IF green THEN 1 ELSE 0
      rounds == Rounds(j.w - 1 - start)
      cross(b) == px({b, b + 2, b + 2*s, b + 2*s + 2},
                     {b + 1, b + s, b + s + 2, b + 2*s + 1}, {b + s + 1})
      round(i) ==
        LET b == p + start + 2 * (i - 1)
        IN << cross(b), px({b + 2, b + 2*s + 2}, {b + s + 2}, {b + s + 1, b + s + 3}) >>
      b == p + start + 2 * rounds
      last == IF b < p + j.w - 2
              THEN << cross(b), px({b + 2, b + 2*s + 2}, {b + s + 2}, {b + s + 1}) >>
              ELSE << px({b, b + 2*s}, {b + 1, b + 2*s + 1, b + s}, {b + s + 1}) >>
  IN first \o InPairs(rounds, [i \in 1 .. rounds |-> round(i)]) \o last

ConvertBayer ==
  /\ job.layout \in BayerLayouts
  /\ CASE line = 0         -> Writes(BorderLine(job, 0, src, src + job.w), 0)
       [] line = job.h - 1 -> Writes(BorderLine(job, line, src + job.w, src), 0)
       [] OTHER            -> Writes(MiddleLine(job, line - 1, src), job.w)
  /\ UNCHANGED chroma

ImageNext == ConvertPixels \/ ConvertPairs \/ ConvertPlanes \/ ConvertBayer

ImageSpec == ImageInit /\ [][ImageNext]_imageVars

-----------------------------------------------------------------------------
ImageTypeOK ==
  /\ job \in Job
  /\ line \in 0 .. job.h /\ src \in Nat /\ chroma \in Nat /\ written \in Nat
  /\ \A o \in DOMAIN buffer : o \in Nat /\ buffer[o] \in Nat

(* What the layouts mean. *)

Column(k) == k % job.w
Row(k) == k \div job.w
(* Where the sample of pixel (x, y) is in the frame. *)
SampleAt(j, x, y) ==
  y * BytesPerLine(j) +
    CASE j.layout \in {"mono10p", "bayer10p"} -> (x \div 4) * 5 + (x % 4)
      [] j.layout \in {"mono12p", "bayer12p"} -> (x \div 2) * 3 + (x % 2)
      [] OTHER                                -> (x * Bytes[j.layout]) \div 8

(* The colour of a pixel of the filter, as a channel. *)
FilterColour(j, x, y) ==
  LET i == 2 * (y % 2) + (x % 2)
  IN CASE j.filter = "BGGR" -> <<3, 2, 2, 1>>[i + 1]
       [] j.filter = "GBRG" -> <<2, 3, 1, 2>>[i + 1]
       [] j.filter = "GRBG" -> <<2, 1, 3, 2>>[i + 1]
       [] j.filter = "RGGB" -> <<1, 2, 2, 3>>[i + 1]

Near(j, x, y) ==
  ((x - 1 .. x + 1) \cap (0 .. j.w - 1)) \X ((y - 1 .. y + 1) \cap (0 .. j.h - 1))

(* A channel of pixel (x, y) comes from samples of its own colour among    *)
(* the neighbours, and from the pixel's own sample where it has one.       *)
IsDemosaiced(j, pixel, x, y) ==
  \A c \in 1 .. 3 :
    /\ pixel[c] # {}
    /\ pixel[c] \subseteq {SampleAt(j, n[1], n[2]) :
                            n \in {m \in Near(j, x, y) : FilterColour(j, m[1], m[2]) = c}}
    /\ FilterColour(j, x, y) = c => SampleAt(j, x, y) \in pixel[c]

(* Chroma of yuv420: one byte for four pixels in each plane. *)
Quad(j, x, y) == j.w * j.h + (y \div 2) * (j.w \div 2) + x \div 2
Plane(j) == (j.w * j.h) \div 4

(* The other layouts say which bytes make a pixel, as V4L2 defines them:   *)
(* bgr24 is B G R in memory, bgr32 is B G R X, rgb32 and xrgb32 are        *)
(* X R G B, and the first plane of chroma of yuv420 is that of u.          *)
LayoutPixel(j, x, y) ==
  LET o == SampleAt(j, x, y)
      pair == SampleAt(j, x - (x % 2), y)
      quad == Quad(j, x, y)
  IN CASE j.layout = "uyvy"                -> Yuv(o + 1, pair, pair + 2)
       [] j.layout = "vyuy"                -> Yuv(o + 1, pair + 2, pair)
       [] j.layout = "yuyv"                -> Yuv(o, pair + 1, pair + 3)
       [] j.layout = "yuv420"              -> Yuv(o, quad, quad + Plane(j))
       [] j.layout \in {"bgr24", "bgr32"}  -> Pixel({o + 2}, {o + 1}, {o})
       [] j.layout \in {"rgb32", "xrgb32"} -> Pixel({o + 1}, {o + 2}, {o + 3})
       [] j.layout = "rgb565"              -> Pixel({o + 1}, {o, o + 1}, {o})
       [] OTHER                            -> Grey(o)

(* The two layouts whose colours are wrong: yuv420 is read with its planes *)
(* of u and v exchanged, and rgb32 as if it were bgr32.                    *)
Miscoloured(j) == j.layout \in {"yuv420", "rgb32"}
MiscolouredPixel(j, x, y) ==
  LET o == SampleAt(j, x, y)
      quad == Quad(j, x, y)
  IN IF j.layout = "yuv420" THEN Yuv(o, quad + Plane(j), quad)
                            ELSE Pixel({o + 2}, {o + 1}, {o})

(* A pixel, with offsets in the frame. *)
InFrame(bytes, pixel) == [c \in 1 .. 3 |-> {bytes[o] : o \in pixel[c]}]

(* Images that the converters are not made for: Bayer filters of less than *)
(* three columns, and odd sizes of yuv420.                                 *)
TooSmall(j) ==
  \/ j.layout \in BayerLayouts /\ j.w < 3
  \/ j.layout = "yuv420" /\ (j.w % 2 = 1 \/ j.h % 2 = 1)
(* Layouts whose padding is ignored, and widths that split a group of      *)
(* pixels, give an image that is skewed.                                   *)
Skewed(j) ==
  \/ j.pad > 0 /\ j.layout \in {"rgb565", "bgr32", "rgb32", "yuv420", "mono10p",
                                "bayer10p", "mono12p", "bayer12p"}
  \/ j.w % 2 = 1 /\ j.layout \in {"uyvy", "vyuy", "yuyv", "mono12p", "bayer12p"}
  \/ j.w % 4 # 0 /\ j.layout \in {"mono10p", "bayer10p"}

(* s_ConversionBuffer, where Bayer filters of more than 8 bits go first,   *)
(* has four bytes for every pixel.                                         *)
Readable ==
  IF job.layout \in BayerLayouts \ {"bayer8"} THEN 0 .. 4 * job.w * job.h - 1 ELSE DOMAIN buffer

(* The converters read nothing outside the frame and write nothing outside *)
(* the image, whatever the padding and the parity of width and height; and *)
(* unless the layout and the padding skew it, each pixel of the image is   *)
(* made from the bytes that V4L2 assigns to it, each in its colour.  The   *)
(* exceptions are yuv420 and rgb32: ConvertFrame gives them other colours, *)
(* and a pixel of theirs is the one of MiscolouredPixel.                   *)
PixelsFromTheirPlace ==
  ~TooSmall(job) =>
    /\ \A o \in DOMAIN buffer : buffer[o] \in 0 .. FrameSize(job) - 1
    /\ \A i \in DOMAIN wrote, c \in 1 .. 3 :
         wrote[i][c] \subseteq Readable
    /\ written <= job.w * job.h
    /\ ~Skewed(job) =>
         /\ line = job.h => written = job.w * job.h
         /\ \A i \in DOMAIN wrote :
              LET k == written - Len(wrote) + i - 1
                  pixel == InFrame(buffer, wrote[i])
              IN CASE job.layout \in BayerLayouts ->
                        IsDemosaiced(job, pixel, Column(k), Row(k))
                   [] Miscoloured(job) -> pixel = MiscolouredPixel(job, Column(k), Row(k))
                   [] OTHER -> pixel = LayoutPixel(job, Column(k), Row(k))

=============================================================================
