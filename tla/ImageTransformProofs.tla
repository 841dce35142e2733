------------------------- MODULE ImageTransformProofs -------------------------
(***************************************************************************)
(* The converters of ImageTransform read inside the frame, write inside    *)
(* the image and make each pixel from the bytes of its place, for images   *)
(* of any width and height and lines with any padding.                     *)
(***************************************************************************)
EXTENDS ImageTransform, SequenceTheorems, TLAPS

-----------------------------------------------------------------------------
(* Arithmetic of lines and columns. *)

LEMMA TimesIsNat == \A a, b \in Nat : a * b \in Nat
OBVIOUS

LEMMA TimesMonotone ==
  ASSUME NEW a \in Nat, NEW b \in Nat, NEW w \in Nat, a <= b
  PROVE  a * w <= b * w
OBVIOUS

(* One line further is w places further.                                   *)
LEMMA NextLine ==
  ASSUME NEW a \in Nat, NEW b \in Nat, NEW w \in Nat, b = a + 1
  PROVE  b * w = a * w + w
OBVIOUS

(* A whole line fits below the last one.                                   *)
LEMMA LineFits ==
  ASSUME NEW y \in Nat, NEW h \in Nat, NEW w \in Nat, y < h
  PROVE  y * w \in Nat /\ h * w \in Nat /\ y * w + w <= h * w
<1>1. (y + 1) * w <= h * w
  BY TimesMonotone
<1> QED
  BY <1>1, TimesIsNat

(* The place of column x in line y, and back.                              *)
LEMMA RowColumn ==
  ASSUME NEW w \in Nat \ {0}, NEW y \in Nat, NEW x \in 0 .. w - 1
  PROVE  (y * w + x) \div w = y /\ (y * w + x) % w = x
<1> DEFINE n == y * w + x
           q == n \div w
           r == n % w
<1>1. n \in Nat
  OBVIOUS
<1>2. q \in Int /\ r \in 0 .. w - 1 /\ n = w * q + r
  <2> HIDE DEF n
  <2> QED
    BY <1>1
<1> QED
  OBVIOUS

(* Every place below h lines of w has a line and a column.                 *)
LEMMA PlaceOf ==
  ASSUME NEW w \in Nat \ {0}, NEW h \in Nat, NEW k \in 0 .. h * w - 1
  PROVE  /\ k \div w \in 0 .. h - 1
         /\ k % w \in 0 .. w - 1
         /\ k = (k \div w) * w + (k % w)
OBVIOUS

-----------------------------------------------------------------------------
(* Sizes. *)

PixelLayouts ==
  {"bgr24", "rgb565", "bgr32", "rgb32", "xrgb32", "grey", "mono10p", "mono12p", "mono16"}
PairLayouts == {"uyvy", "vyuy", "yuyv"}
Layouts == PixelLayouts \cup PairLayouts \cup {"yuv420"} \cup BayerLayouts

LEMMA JobTypes ==
  ASSUME NEW j \in Job
  PROVE  /\ j.w \in Nat /\ j.w > 0 /\ j.h \in Nat /\ j.h > 0 /\ j.pad \in Nat
         /\ j.layout \in Layouts /\ j.filter \in Filters
<1>1. DOMAIN Bytes = Layouts
  BY DEF Bytes, Layouts, PixelLayouts, PairLayouts, BayerLayouts
<1>2. j.w \in Widths /\ j.h \in Heights /\ j.pad \in Paddings /\ j.layout \in Layouts /\ j.filter \in Filters
  BY <1>1 DEF Job
<1>3. j.w \in Nat \ {0} /\ j.h \in Nat \ {0} /\ j.pad \in Nat
  BY <1>2, ImageSizesAssumption
<1>4. \A n \in Nat \ {0} : n \in Nat /\ n > 0
  OBVIOUS
<1> QED
  BY <1>2, <1>3, <1>4

(* Bytes of the pixels of a line.                                          *)
LEMMA LineBytes ==
  ASSUME NEW j \in Job
  PROVE  /\ Payload(j) \in Nat /\ BytesPerLine(j) \in Nat
         /\ BytesPerLine(j) = Payload(j) + j.pad
         /\ j.layout \in {"yuv420", "grey", "bayer8"} => Payload(j) = j.w
         /\ j.layout \in {"uyvy", "vyuy", "yuyv", "rgb565", "mono16", "bayer16"} => Payload(j) = 2 * j.w
         /\ j.layout = "bgr24" => Payload(j) = 3 * j.w
         /\ j.layout \in {"bgr32", "rgb32", "xrgb32"} => Payload(j) = 4 * j.w
         /\ j.layout \in {"mono10p", "bayer10p"} => Payload(j) = (10 * j.w) \div 8
         /\ j.layout \in {"mono12p", "bayer12p"} => Payload(j) = (12 * j.w) \div 8
<1> DEFINE w == j.w
           l == j.layout
<1>1. w \in Nat /\ j.pad \in Nat /\ l \in Layouts
  BY JobTypes
<1> HIDE DEF w, l
<1>2. /\ l \in {"yuv420", "grey", "bayer8"} => Bytes[l] = 8
      /\ l \in {"uyvy", "vyuy", "yuyv", "rgb565", "mono16", "bayer16"} => Bytes[l] = 16
      /\ l = "bgr24" => Bytes[l] = 24
      /\ l \in {"bgr32", "rgb32", "xrgb32"} => Bytes[l] = 32
      /\ l \in {"mono10p", "bayer10p"} => Bytes[l] = 10
      /\ l \in {"mono12p", "bayer12p"} => Bytes[l] = 12
  BY DEF Bytes
<1>3. Payload(j) = (w * Bytes[l]) \div 8 /\ BytesPerLine(j) = Payload(j) + j.pad
  BY DEF Payload, BytesPerLine, w, l
<1>4. l \in {"yuv420", "grey", "bayer8"} => Payload(j) = w
  BY <1>1, <1>2, <1>3
<1>5. l \in {"uyvy", "vyuy", "yuyv", "rgb565", "mono16", "bayer16"} => Payload(j) = 2 * w
  BY <1>1, <1>2, <1>3
<1>6. l = "bgr24" => Payload(j) = 3 * w
  BY <1>1, <1>2, <1>3
<1>7. l \in {"bgr32", "rgb32", "xrgb32"} => Payload(j) = 4 * w
  BY <1>1, <1>2, <1>3
<1>8. l \in {"mono10p", "bayer10p"} => Payload(j) = (10 * w) \div 8
  BY <1>1, <1>2, <1>3
<1>9. l \in {"mono12p", "bayer12p"} => Payload(j) = (12 * w) \div 8
  BY <1>1, <1>2, <1>3
<1>10. Payload(j) \in Nat
  BY <1>1, <1>4, <1>5, <1>6, <1>7, <1>8, <1>9 DEF Layouts, PixelLayouts, PairLayouts, BayerLayouts
<1> QED
  BY <1>1, <1>3, <1>4, <1>5, <1>6, <1>7, <1>8, <1>9, <1>10 DEF w, l

-----------------------------------------------------------------------------
(* The first pass. *)

LEMMA FrameSizes ==
  ASSUME NEW j \in Job
  PROVE  /\ FrameSize(j) \in Nat
         /\ j.layout # "yuv420" => FrameSize(j) = BytesPerLine(j) * j.h
         /\ j.layout = "yuv420" => FrameSize(j) = (BytesPerLine(j) * j.h * 3) \div 2
<1>1. BytesPerLine(j) * j.h \in Nat
  BY JobTypes, LineBytes, TimesIsNat
<1>2. \A n \in Nat : (n * 3) \div 2 \in Nat
  OBVIOUS
<1> QED
  BY <1>1, <1>2 DEF FrameSize

(* Removing the padding reads whole lines.                                 *)
LEMMA PaddingRemoved ==
  ASSUME NEW j \in Job, NEW b \in Nat \ {0}, Payload(j) = j.w * b, j.layout # "yuv420"
  PROVE  /\ DOMAIN RemovePadding(j, b) = 0 .. j.w * j.h * b - 1
         /\ \A o \in DOMAIN RemovePadding(j, b) : RemovePadding(j, b)[o] \in 0 .. FrameSize(j) - 1
         /\ \A y \in 0 .. j.h - 1, x \in 0 .. j.w * b - 1 :
              /\ y * (j.w * b) + x \in DOMAIN RemovePadding(j, b)
              /\ RemovePadding(j, b)[y * (j.w * b) + x] = y * BytesPerLine(j) + x
<1> DEFINE w == j.w
           h == j.h
           n == w * b
           l == BytesPerLine(j)
<1>1. w \in Nat /\ w > 0 /\ h \in Nat /\ h > 0 /\ l \in Nat /\ l >= n
  BY JobTypes, LineBytes
<1>2. n \in Nat \ {0} /\ w * h * b = h * n
  <2>1. \A p, q \in Nat \ {0} : p * q \in Nat \ {0}
    OBVIOUS
  <2>2. n \in Nat \ {0}
    BY <1>1, <2>1
  <2>3. w * h * b = h * (w * b)
    <3> HIDE DEF w, h
    <3> QED
      BY <1>1
  <2> QED
    BY <2>2, <2>3
<1>3. RemovePadding(j, b) = [k \in 0 .. h * n - 1 |-> (k \div n) * l + (k % n)]
  BY <1>2 DEF RemovePadding
<1>4. FrameSize(j) = h * l
  <2>1. FrameSize(j) = l * h
    BY FrameSizes
  <2> HIDE DEF l, h
  <2> QED
    BY <1>1, <2>1
<1> HIDE DEF w, h, n, l
<1>5. ASSUME NEW y \in 0 .. h - 1, NEW x \in 0 .. n - 1
      PROVE  /\ y * n + x \in 0 .. h * n - 1
             /\ (y * n + x) \div n = y /\ (y * n + x) % n = x
             /\ y * l + x \in 0 .. h * l - 1
  <2>1. y * n \in Nat /\ h * n \in Nat /\ y * n + n <= h * n
    BY <1>1, <1>2, LineFits
  <2>2. y * l \in Nat /\ h * l \in Nat /\ y * l + l <= h * l
    BY <1>1, <1>2, LineFits
  <2>3. (y * n + x) \div n = y /\ (y * n + x) % n = x
    BY <1>1, <1>2, RowColumn
  <2> QED
    BY <1>1, <1>2, <2>1, <2>2, <2>3
<1>6. ASSUME NEW k \in 0 .. h * n - 1
      PROVE  (k \div n) * l + (k % n) \in 0 .. h * l - 1
  <2>1. k \div n \in 0 .. h - 1 /\ k % n \in 0 .. n - 1
    BY <1>1, <1>2, PlaceOf
  <2> QED
    BY <1>5, <2>1
<1>7. /\ DOMAIN RemovePadding(j, b) = 0 .. h * n - 1
      /\ \A k \in 0 .. h * n - 1 : RemovePadding(j, b)[k] = (k \div n) * l + (k % n)
  BY <1>3
<1>8. \A o \in DOMAIN RemovePadding(j, b) : RemovePadding(j, b)[o] \in 0 .. h * l - 1
  BY <1>6, <1>7
<1>9. \A y \in 0 .. h - 1, x \in 0 .. n - 1 :
        /\ y * n + x \in DOMAIN RemovePadding(j, b)
        /\ RemovePadding(j, b)[y * n + x] = y * l + x
  BY <1>5, <1>7
<1> QED
  BY <1>2, <1>4, <1>7, <1>8, <1>9 DEF w, h, n, l

(* The first bytes of groups of n; those that are kept, in their order.    *)
LEMMA GroupsDropped ==
  ASSUME NEW n \in {3, 5}, NEW count \in Nat
  PROVE  /\ count - count \div n \in Nat
         /\ \A k \in 0 .. count - count \div n - 1 :
              k + k \div (n - 1) \in 0 .. count - 1 /\ (k + k \div (n - 1) + 1) % n # 0
         /\ \A k \in Nat : k + k \div (n - 1) < (k + 1) + (k + 1) \div (n - 1)
         /\ \A o \in 0 .. count - 1 : (o + 1) % n # 0 =>
              /\ o - o \div n \in 0 .. count - count \div n - 1
              /\ o = (o - o \div n) + (o - o \div n) \div (n - 1)
<1>1. CASE n = 3
  BY <1>1
<1>2. CASE n = 5
  BY <1>2
<1> QED
  BY <1>1, <1>2

Packed10 == {"mono10p", "bayer10p"}
Packed12 == {"mono12p", "bayer12p"}

(* What is kept of packed formats lies in the frame; and if no line has    *)
(* padding or ends inside a group, it is the samples of the pixels.        *)
LEMMA PackedSamples ==
  ASSUME NEW j \in Job, NEW n \in {3, 5},
         j.layout \in IF n = 5 THEN Packed10 ELSE Packed12
  PROVE  /\ \E c \in Nat : DOMAIN DropEvery(j, n) = 0 .. c - 1
         /\ \A o \in DOMAIN DropEvery(j, n) : DropEvery(j, n)[o] \in 0 .. FrameSize(j) - 1
         /\ ~Skewed(j) => \A y \in 0 .. j.h - 1, x \in 0 .. j.w - 1 :
              /\ y * j.w + x \in DOMAIN DropEvery(j, n)
              /\ DropEvery(j, n)[y * j.w + x] = SampleAt(j, x, y)
<1> DEFINE w == j.w
           h == j.h
           l == BytesPerLine(j)
           p == Payload(j)
           count == p * h
           c == count - count \div n
<1>1. w \in Nat /\ w > 0 /\ h \in Nat /\ h > 0 /\ p \in Nat /\ l \in Nat /\ l = p + j.pad /\ j.pad \in Nat
  BY JobTypes, LineBytes
<1>2. p = IF n = 5 THEN (10 * w) \div 8 ELSE (12 * w) \div 8
  BY LineBytes DEF Packed10, Packed12
<1>3. count \in Nat /\ c \in Nat /\ \A k \in 0 .. c - 1 : k + k \div (n - 1) \in 0 .. count - 1
  <2>1. count \in Nat
    BY <1>1, TimesIsNat
  <2> HIDE DEF count
  <2> QED
    BY <2>1, GroupsDropped
<1>4. /\ DOMAIN DropEvery(j, n) = 0 .. c - 1
      /\ \A k \in 0 .. c - 1 : DropEvery(j, n)[k] = k + k \div (n - 1)
  BY DEF DropEvery
<1>5. FrameSize(j) = h * l /\ count <= h * l
  <2>1. FrameSize(j) = l * h
    BY FrameSizes DEF Packed10, Packed12
  <2> HIDE DEF p, l, h
  <2>2. p * h <= l * h /\ l * h = h * l
    BY <1>1, TimesMonotone
  <2> QED
    BY <2>1, <2>2
<1>6. \A k \in 0 .. c - 1 : DropEvery(j, n)[k] \in 0 .. h * l - 1
  <2> HIDE DEF count, c, h, l
  <2>1. h * l \in Nat
    BY <1>1, TimesIsNat
  <2>2. \A i \in 0 .. count - 1 : i \in 0 .. h * l - 1
    BY <1>3, <1>5, <2>1
  <2> QED
    BY <1>3, <1>4, <2>2
<1>7. ASSUME ~Skewed(j), NEW y \in 0 .. h - 1, NEW x \in 0 .. w - 1
      PROVE  /\ y * w + x \in 0 .. c - 1
             /\ (y * w + x) + (y * w + x) \div (n - 1) = SampleAt(j, x, y)
  <2>1. /\ j.pad = 0
        /\ n = 5 => w % 4 = 0
        /\ n = 3 => w % 2 = 0
    BY <1>1, <1>7 DEF Skewed, Packed10, Packed12
  <2>2. PICK m \in Nat : w = (n - 1) * m /\ p = n * m
    <3> HIDE DEF w, p
    <3>1. CASE n = 5
      <4>1. w \div 4 \in Nat /\ w = 4 * (w \div 4) /\ p = 5 * (w \div 4)
        BY <1>1, <1>2, <2>1, <3>1
      <4> QED
        BY <3>1, <4>1
    <3>2. CASE n = 3
      <4>1. w \div 2 \in Nat /\ w = 2 * (w \div 2) /\ p = 3 * (w \div 2)
        BY <1>1, <1>2, <2>1, <3>2
      <4> QED
        BY <3>2, <4>1
    <3> QED
      BY <3>1, <3>2
  <2>3. SampleAt(j, x, y) = y * l + ((x \div (n - 1)) * n + (x % (n - 1)))
    <3>1. CASE n = 5
      BY <3>1 DEF SampleAt, Packed10
    <3>2. CASE n = 3
      BY <3>2 DEF SampleAt, Packed12
    <3> QED
      BY <3>1, <3>2
  <2> DEFINE a == y * m
             b == h * m
  <2>4. l = n * m
    BY <1>1, <2>1, <2>2
  <2>5. a \in Nat /\ b \in Nat /\ a + m <= b
    <3> HIDE DEF h
    <3> QED
      BY <1>1, LineFits
  <2>6. y * w = (n - 1) * a /\ y * l = n * a /\ count = n * b
    <3> HIDE DEF h, w, l, p
    <3> QED
      BY <1>1, <2>2, <2>4
  <2>7. x \in Nat /\ x < (n - 1) * m
    <3> HIDE DEF w
    <3> QED
      BY <1>1, <2>2
  <2> HIDE DEF a, b, w, h, l, p
  <2>8. CASE n = 5
    <3>1. c = 4 * b
      BY <2>5, <2>6, <2>8
    <3>2. y * w = 4 * a /\ y * l = 5 * a /\ x < 4 * m
      BY <2>6, <2>7, <2>8
    <3>3. y * w + x \in 0 .. c - 1
      BY <2>5, <2>7, <3>1, <3>2
    <3>4. (4 * a + x) + (4 * a + x) \div 4 = 5 * a + ((x \div 4) * 5 + (x % 4))
      BY <2>5, <2>7
    <3> QED
      BY <2>3, <2>8, <3>2, <3>3, <3>4
  <2>9. CASE n = 3
    <3>1. c = 2 * b
      BY <2>5, <2>6, <2>9
    <3>2. y * w = 2 * a /\ y * l = 3 * a /\ x < 2 * m
      BY <2>6, <2>7, <2>9
    <3>3. y * w + x \in 0 .. c - 1
      BY <2>5, <2>7, <3>1, <3>2
    <3>4. (2 * a + x) + (2 * a + x) \div 2 = 3 * a + ((x \div 2) * 3 + (x % 2))
      BY <2>5, <2>7
    <3> QED
      BY <2>3, <2>9, <3>2, <3>3, <3>4
  <2> QED
    BY <2>8, <2>9
<1> HIDE DEF c
<1> QED
  BY <1>3, <1>4, <1>5, <1>6, <1>7

(* The high bytes of words.                                                *)
LEMMA HighSamples ==
  ASSUME NEW j \in Job, j.layout \in {"mono16", "bayer16"}
  PROVE  /\ DOMAIN HighBits(j) = 0 .. j.w * j.h - 1
         /\ \A o \in DOMAIN HighBits(j) : HighBits(j)[o] \in 0 .. FrameSize(j) - 1
         /\ \A y \in 0 .. j.h - 1, x \in 0 .. j.w - 1 :
              /\ y * j.w + x \in DOMAIN HighBits(j)
              /\ HighBits(j)[y * j.w + x] = SampleAt(j, x, y)
<1> DEFINE w == j.w
           h == j.h
           l == BytesPerLine(j)
<1>1. w \in Nat \ {0} /\ h \in Nat /\ h > 0 /\ l \in Nat /\ l >= 2 * w
  BY JobTypes, LineBytes
<1>2. FrameSize(j) = h * l
  <2>1. FrameSize(j) = l * h
    BY FrameSizes
  <2> HIDE DEF l, h
  <2> QED
    BY <1>1, <2>1
<1>3. /\ DOMAIN HighBits(j) = 0 .. w * h - 1
      /\ \A k \in 0 .. w * h - 1 : HighBits(j)[k] = (k \div w) * l + 2 * (k % w)
  BY DEF HighBits
<1>4. ASSUME NEW x \in 0 .. w - 1, NEW y \in 0 .. h - 1
      PROVE  SampleAt(j, x, y) = y * l + 2 * x
  <2>1. Bytes[j.layout] = 16
    BY DEF Bytes
  <2>2. SampleAt(j, x, y) = y * l + (x * Bytes[j.layout]) \div 8
    BY DEF SampleAt
  <2>3. (x * 16) \div 8 = 2 * x
    OBVIOUS
  <2> HIDE DEF l
  <2> QED
    BY <2>1, <2>2, <2>3
<1> HIDE DEF w, h, l
<1>5. ASSUME NEW y \in 0 .. h - 1, NEW x \in 0 .. w - 1
      PROVE  /\ y * w + x \in 0 .. w * h - 1
             /\ (y * w + x) \div w = y /\ (y * w + x) % w = x
             /\ y * l + 2 * x \in 0 .. h * l - 1
  <2>1. y * w \in Nat /\ h * w \in Nat /\ y * w + w <= h * w /\ h * w = w * h
    BY <1>1, LineFits
  <2>2. y * l \in Nat /\ h * l \in Nat /\ y * l + l <= h * l
    BY <1>1, LineFits
  <2>3. (y * w + x) \div w = y /\ (y * w + x) % w = x
    BY <1>1, RowColumn
  <2> QED
    BY <1>1, <2>1, <2>2, <2>3
<1>6. ASSUME NEW k \in 0 .. w * h - 1
      PROVE  (k \div w) * l + 2 * (k % w) \in 0 .. h * l - 1
  <2>1. k \in 0 .. h * w - 1
    BY <1>1
  <2>2. k \div w \in 0 .. h - 1 /\ k % w \in 0 .. w - 1
    BY <1>1, <2>1, PlaceOf
  <2> QED
    BY <1>5, <2>2
<1>7. \A o \in DOMAIN HighBits(j) : HighBits(j)[o] \in 0 .. h * l - 1
  BY <1>3, <1>6
<1>8. \A y \in 0 .. h - 1, x \in 0 .. w - 1 :
        y * w + x \in DOMAIN HighBits(j) /\ HighBits(j)[y * w + x] = SampleAt(j, x, y)
  BY <1>3, <1>4, <1>5
<1> QED
  BY <1>2, <1>3, <1>7, <1>8 DEF w, h, l

(* Layouts of which one byte of the buffer is the sample of a pixel.       *)
OneByte == BayerLayouts \cup {"grey", "mono16"} \cup PackedMono

LEMMA SampleInBuffer ==
  ASSUME NEW j \in Job, j.layout \in OneByte, ~Skewed(j),
         NEW y \in 0 .. j.h - 1, NEW x \in 0 .. j.w - 1
  PROVE  /\ y * j.w + x \in DOMAIN FirstPass(j)
         /\ FirstPass(j)[y * j.w + x] = SampleAt(j, x, y)
<1>1. CASE j.layout \in {"grey", "bayer8"}
  <2> DEFINE w == j.w
             l == BytesPerLine(j)
  <2>1. w \in Nat /\ l \in Nat /\ Payload(j) = w
    BY <1>1, JobTypes, LineBytes
  <2>2. w * 1 = w
    BY <2>1
  <2>3. FirstPass(j) = RemovePadding(j, 1)
    BY <1>1 DEF FirstPass
  <2>4. /\ y * w + x \in DOMAIN RemovePadding(j, 1)
        /\ RemovePadding(j, 1)[y * w + x] = y * l + x
    <3>1. j.layout # "yuv420" /\ Payload(j) = j.w * 1 /\ x \in 0 .. j.w * 1 - 1
      BY <1>1, <2>1, <2>2
    <3> QED
      BY <2>2, <3>1, PaddingRemoved
  <2>5. SampleAt(j, x, y) = y * l + x
    <3>1. Bytes[j.layout] = 8
      BY <1>1 DEF Bytes
    <3>2. SampleAt(j, x, y) = y * l + (x * Bytes[j.layout]) \div 8
      BY <1>1 DEF SampleAt
    <3>3. (x * 8) \div 8 = x
      OBVIOUS
    <3> HIDE DEF l
    <3> QED
      BY <3>1, <3>2, <3>3
  <2> QED
    BY <2>3, <2>4, <2>5
<1>2. CASE j.layout \in {"mono16", "bayer16"}
  <2>1. FirstPass(j) = HighBits(j)
    BY <1>2 DEF FirstPass
  <2> QED
    BY <1>2, <2>1, HighSamples
<1>3. CASE j.layout \in Packed10
  <2>1. FirstPass(j) = DropEvery(j, 5)
    BY <1>3 DEF FirstPass, Packed10
  <2> QED
    BY <1>3, <2>1, PackedSamples
<1>4. CASE j.layout \in Packed12
  <2>1. FirstPass(j) = DropEvery(j, 3)
    BY <1>4 DEF FirstPass, Packed12
  <2> QED
    BY <1>4, <2>1, PackedSamples
<1> QED
  BY <1>1, <1>2, <1>3, <1>4 DEF OneByte, BayerLayouts, PackedMono, Packed10, Packed12

(* What the converters walk over is in the frame.                          *)
LEMMA BufferInFrame ==
  ASSUME NEW j \in Job
  PROVE  /\ \E c \in Int : DOMAIN FirstPass(j) = 0 .. c - 1
         /\ \A o \in DOMAIN FirstPass(j) : FirstPass(j)[o] \in 0 .. FrameSize(j) - 1
<1>0. j.w \in Nat /\ j.h \in Nat /\ j.layout \in Layouts /\ FrameSize(j) \in Nat
  BY JobTypes, FrameSizes
<1>1. CASE j.layout \in {"grey", "bayer8"}
  <2>1. FirstPass(j) = RemovePadding(j, 1) /\ j.w * 1 = j.w /\ Payload(j) = j.w
    BY <1>0, <1>1, LineBytes DEF FirstPass
  <2>2. Payload(j) = j.w * 1 /\ j.layout # "yuv420" /\ j.w * j.h * 1 \in Int
    BY <1>0, <1>1, <2>1
  <2>3. /\ DOMAIN RemovePadding(j, 1) = 0 .. j.w * j.h * 1 - 1
        /\ \A o \in DOMAIN RemovePadding(j, 1) : RemovePadding(j, 1)[o] \in 0 .. FrameSize(j) - 1
    BY <2>2, PaddingRemoved
  <2> QED
    BY <2>1, <2>2, <2>3
<1>2. CASE j.layout = "xrgb32"
  <2>1. FirstPass(j) = RemovePadding(j, 4) /\ j.w * 4 = 4 * j.w /\ Payload(j) = 4 * j.w
    BY <1>0, <1>2, LineBytes DEF FirstPass
  <2>2. Payload(j) = j.w * 4 /\ j.layout # "yuv420" /\ j.w * j.h * 4 \in Int
    BY <1>0, <1>2, <2>1
  <2>3. /\ DOMAIN RemovePadding(j, 4) = 0 .. j.w * j.h * 4 - 1
        /\ \A o \in DOMAIN RemovePadding(j, 4) : RemovePadding(j, 4)[o] \in 0 .. FrameSize(j) - 1
    <3>1. 4 \in Nat \ {0}
      OBVIOUS
    <3> QED
      BY <2>2, <3>1, PaddingRemoved
  <2> QED
    BY <2>1, <2>2, <2>3
<1>3. CASE j.layout \in {"mono16", "bayer16"}
  <2>1. FirstPass(j) = HighBits(j) /\ j.w * j.h \in Int
    BY <1>0, <1>3 DEF FirstPass
  <2> QED
    BY <1>3, <2>1, HighSamples
<1>4. CASE j.layout \in Packed10
  <2>1. FirstPass(j) = DropEvery(j, 5)
    BY <1>4 DEF FirstPass, Packed10
  <2> QED
    BY <1>4, <2>1, PackedSamples
<1>5. CASE j.layout \in Packed12
  <2>1. FirstPass(j) = DropEvery(j, 3)
    BY <1>5 DEF FirstPass, Packed12
  <2> QED
    BY <1>5, <2>1, PackedSamples
<1>6. CASE j.layout \in {"bgr24", "rgb565", "bgr32", "rgb32", "yuv420"} \cup PairLayouts
  <2>1. FirstPass(j) = [o \in 0 .. FrameSize(j) - 1 |-> o]
    BY <1>6 DEF FirstPass, WholeFrame, PairLayouts
  <2> QED
    BY <1>0, <2>1
<1> QED
  BY <1>0, <1>1, <1>2, <1>3, <1>4, <1>5, <1>6
     DEF Layouts, PixelLayouts, PairLayouts, BayerLayouts, Packed10, Packed12

-----------------------------------------------------------------------------
(* Pixels that are made one after the other. *)

LEMMA PixelChannels ==
  ASSUME NEW r, NEW g, NEW b
  PROVE  /\ Pixel(r, g, b)[1] = r /\ Pixel(r, g, b)[2] = g /\ Pixel(r, g, b)[3] = b
         /\ \A c \in 1 .. 3 : Pixel(r, g, b)[c] \in {r, g, b}
<1>1. Pixel(r, g, b)[1] = r /\ Pixel(r, g, b)[2] = g /\ Pixel(r, g, b)[3] = b
  BY DEF Pixel
<1>2. \A c \in 1 .. 3 : c = 1 \/ c = 2 \/ c = 3
  OBVIOUS
<1> QED
  BY <1>1, <1>2

(* The offsets of a pixel in the frame.                                    *)
Places(bytes, offsets) == {bytes[o] : o \in offsets}

LEMMA PixelInFrame ==
  ASSUME NEW bytes, NEW r, NEW g, NEW b
  PROVE  InFrame(bytes, Pixel(r, g, b)) = Pixel(Places(bytes, r), Places(bytes, g), Places(bytes, b))
<1> DEFINE f == [c \in 1 .. 3 |-> Places(bytes, Pixel(r, g, b)[c])]
<1>1. f[1] = Places(bytes, r) /\ f[2] = Places(bytes, g) /\ f[3] = Places(bytes, b)
  BY PixelChannels
<1>2. InFrame(bytes, Pixel(r, g, b)) = f
  BY DEF InFrame, Places
<1>3. f = [c \in 1 .. 3 |-> f[c]]
  OBVIOUS
<1> HIDE DEF f
<1>4. f = <<Places(bytes, r), Places(bytes, g), Places(bytes, b)>>
  BY <1>1, <1>3
<1> QED
  BY <1>2, <1>4 DEF Pixel

LEMMA OneOffset == \A bytes, p : Places(bytes, {p}) = {bytes[p]}
BY DEF Places

LEMMA TwoOffsets == \A bytes, p, q : Places(bytes, {p, q}) = {bytes[p], bytes[q]}
BY DEF Places

(* A pixel of PixelAt(j, o), if the bytes from o on are those from s on.   *)
LEMMA PixelMoved ==
  ASSUME NEW j \in Job, NEW bytes, NEW o \in Nat, NEW s \in Nat,
         \A d \in 0 .. Unit(j) - 1 : o + d \in DOMAIN bytes /\ bytes[o + d] = s + d
  PROVE  /\ \A c \in 1 .. 3 : PixelAt(j, o)[c] \subseteq DOMAIN bytes
         /\ InFrame(bytes, PixelAt(j, o)) = PixelAt(j, s)
<1>1. CASE j.layout \in {"bgr24", "bgr32", "rgb32"}
  <2>1. \A d \in 0 .. 2 : o + d \in DOMAIN bytes /\ bytes[o + d] = s + d
    BY <1>1 DEF Unit
  <2>2. o + 0 = o /\ s + 0 = s
    OBVIOUS
  <2>3. bytes[o] = s /\ bytes[o + 1] = s + 1 /\ bytes[o + 2] = s + 2
    BY <2>1, <2>2
  <2>4. \A p : PixelAt(j, p) = Pixel({p + 2}, {p + 1}, {p})
    BY <1>1 DEF PixelAt
  <2>5. {o, o + 1, o + 2} \subseteq DOMAIN bytes
    BY <2>1, <2>2
  <2>6. \A c \in 1 .. 3 : Pixel({o + 2}, {o + 1}, {o})[c] \subseteq DOMAIN bytes
    BY <2>5, PixelChannels
  <2>7. InFrame(bytes, Pixel({o + 2}, {o + 1}, {o})) = Pixel({s + 2}, {s + 1}, {s})
    <3>1. InFrame(bytes, Pixel({o + 2}, {o + 1}, {o})) =
            Pixel(Places(bytes, {o + 2}), Places(bytes, {o + 1}), Places(bytes, {o}))
      BY PixelInFrame
    <3>2. /\ Places(bytes, {o + 2}) = {bytes[o + 2]}
          /\ Places(bytes, {o + 1}) = {bytes[o + 1]}
          /\ Places(bytes, {o}) = {bytes[o]}
      BY OneOffset
    <3> QED
      BY <2>3, <3>1, <3>2
  <2>8. PixelAt(j, o) = Pixel({o + 2}, {o + 1}, {o}) /\ PixelAt(j, s) = Pixel({s + 2}, {s + 1}, {s})
    BY <2>4
  <2> QED
    BY <2>6, <2>7, <2>8
<1>2. CASE j.layout = "xrgb32"
  <2>1. \A d \in 0 .. 3 : o + d \in DOMAIN bytes /\ bytes[o + d] = s + d
    BY <1>2 DEF Unit
  <2>3. bytes[o + 1] = s + 1 /\ bytes[o + 2] = s + 2 /\ bytes[o + 3] = s + 3
    BY <2>1
  <2>4. \A p : PixelAt(j, p) = Pixel({p + 1}, {p + 2}, {p + 3})
    BY <1>2 DEF PixelAt
  <2>5. {o + 1, o + 2, o + 3} \subseteq DOMAIN bytes
    BY <2>1
  <2>6. \A c \in 1 .. 3 : Pixel({o + 1}, {o + 2}, {o + 3})[c] \subseteq DOMAIN bytes
    BY <2>5, PixelChannels
  <2>7. InFrame(bytes, Pixel({o + 1}, {o + 2}, {o + 3})) = Pixel({s + 1}, {s + 2}, {s + 3})
    <3>1. InFrame(bytes, Pixel({o + 1}, {o + 2}, {o + 3})) =
            Pixel(Places(bytes, {o + 1}), Places(bytes, {o + 2}), Places(bytes, {o + 3}))
      BY PixelInFrame
    <3>2. /\ Places(bytes, {o + 1}) = {bytes[o + 1]}
          /\ Places(bytes, {o + 2}) = {bytes[o + 2]}
          /\ Places(bytes, {o + 3}) = {bytes[o + 3]}
      BY OneOffset
    <3> QED
      BY <2>3, <3>1, <3>2
  <2>8. PixelAt(j, o) = Pixel({o + 1}, {o + 2}, {o + 3}) /\ PixelAt(j, s) = Pixel({s + 1}, {s + 2}, {s + 3})
    BY <2>4
  <2> QED
    BY <2>6, <2>7, <2>8
<1>3. CASE j.layout = "rgb565"
  <2>1. \A d \in 0 .. 1 : o + d \in DOMAIN bytes /\ bytes[o + d] = s + d
    BY <1>3 DEF Unit
  <2>2. o + 0 = o /\ s + 0 = s
    OBVIOUS
  <2>3. bytes[o] = s /\ bytes[o + 1] = s + 1
    BY <2>1, <2>2
  <2>4. \A p : PixelAt(j, p) = Pixel({p + 1}, {p, p + 1}, {p})
    BY <1>3 DEF PixelAt
  <2>5. {o, o + 1} \subseteq DOMAIN bytes
    BY <2>1, <2>2
  <2>6. \A c \in 1 .. 3 : Pixel({o + 1}, {o, o + 1}, {o})[c] \subseteq DOMAIN bytes
    BY <2>5, PixelChannels
  <2>7. InFrame(bytes, Pixel({o + 1}, {o, o + 1}, {o})) = Pixel({s + 1}, {s, s + 1}, {s})
    <3>1. InFrame(bytes, Pixel({o + 1}, {o, o + 1}, {o})) =
            Pixel(Places(bytes, {o + 1}), Places(bytes, {o, o + 1}), Places(bytes, {o}))
      BY PixelInFrame
    <3>2. /\ Places(bytes, {o + 1}) = {bytes[o + 1]}
          /\ Places(bytes, {o, o + 1}) = {bytes[o], bytes[o + 1]}
          /\ Places(bytes, {o}) = {bytes[o]}
      BY OneOffset, TwoOffsets
    <3> QED
      BY <2>3, <3>1, <3>2
  <2>8. PixelAt(j, o) = Pixel({o + 1}, {o, o + 1}, {o}) /\ PixelAt(j, s) = Pixel({s + 1}, {s, s + 1}, {s})
    BY <2>4
  <2> QED
    BY <2>6, <2>7, <2>8
<1>4. CASE j.layout \notin {"bgr24", "bgr32", "rgb32", "xrgb32", "rgb565"}
  <2>1. \A d \in 0 .. 0 : o + d \in DOMAIN bytes /\ bytes[o + d] = s + d
    BY <1>4 DEF Unit
  <2>2. o + 0 = o /\ s + 0 = s
    OBVIOUS
  <2>3. bytes[o] = s /\ o \in DOMAIN bytes
    BY <2>1, <2>2
  <2>4. \A p : PixelAt(j, p) = Pixel({p}, {p}, {p})
    BY <1>4 DEF PixelAt, Grey
  <2>6. \A c \in 1 .. 3 : Pixel({o}, {o}, {o})[c] \subseteq DOMAIN bytes
    BY <2>3, PixelChannels
  <2>7. InFrame(bytes, Pixel({o}, {o}, {o})) = Pixel({s}, {s}, {s})
    <3>1. InFrame(bytes, Pixel({o}, {o}, {o})) =
            Pixel(Places(bytes, {o}), Places(bytes, {o}), Places(bytes, {o}))
      BY PixelInFrame
    <3>2. /\ Places(bytes, {o}) = {bytes[o]}
          /\ Places(bytes, {o}) = {bytes[o]}
          /\ Places(bytes, {o}) = {bytes[o]}
      BY OneOffset
    <3> QED
      BY <2>3, <3>1, <3>2
  <2>8. PixelAt(j, o) = Pixel({o}, {o}, {o}) /\ PixelAt(j, s) = Pixel({s}, {s}, {s})
    BY <2>4
  <2> QED
    BY <2>6, <2>7, <2>8
<1> QED
  BY <1>1, <1>2, <1>3, <1>4

(* The converters that walk over the whole frame stay inside it.           *)
LEMMA WholeFrameRead ==
  ASSUME NEW j \in Job, j.layout \in {"bgr24", "bgr32", "rgb32", "rgb565"},
         NEW y \in 0 .. j.h - 1, NEW x \in 0 .. j.w - 1
  PROVE  LET o == y * (j.w * Unit(j) + Skip(j)) + x * Unit(j)
         IN  /\ o \in Nat
             /\ \A d \in 0 .. Unit(j) - 1 :
                  o + d \in DOMAIN FirstPass(j) /\ FirstPass(j)[o + d] = o + d
             /\ ~Skewed(j) => o = SampleAt(j, x, y)
<1> DEFINE w == j.w
           h == j.h
           u == Unit(j)
           stride == w * u + Skip(j)
           l == BytesPerLine(j)
           o == y * stride + x * u
<1>1. w \in Nat /\ w > 0 /\ h \in Nat /\ h > 0 /\ l \in Nat /\ l = Payload(j) + j.pad /\ j.pad \in Nat
  BY JobTypes, LineBytes
<1>a. y \in Nat /\ y < h /\ x \in Nat /\ x < w
  BY <1>1
<1>2. u \in {2, 3, 4} /\ stride \in Nat /\ stride >= w * u /\ stride <= l /\ (~Skewed(j) => stride = l)
  <2>1. CASE j.layout = "bgr24"
    <3>1. u = 3 /\ Skip(j) = j.pad /\ Payload(j) = 3 * w
      BY <2>1, LineBytes DEF Unit, Skip
    <3> HIDE DEF w, u
    <3> QED
      BY <1>1, <3>1
  <2>2. CASE j.layout \in {"bgr32", "rgb32"}
    <3>1. u = 4 /\ Skip(j) = 0 /\ Payload(j) = 4 * w
      BY <2>2, LineBytes DEF Unit, Skip
    <3>2. ~Skewed(j) => j.pad = 0
      BY <1>1, <2>2 DEF Skewed
    <3> HIDE DEF w, u
    <3> QED
      BY <1>1, <3>1, <3>2
  <2>3. CASE j.layout = "rgb565"
    <3>1. u = 2 /\ Skip(j) = 0 /\ Payload(j) = 2 * w
      BY <2>3, LineBytes DEF Unit, Skip
    <3>2. ~Skewed(j) => j.pad = 0
      BY <1>1, <2>3 DEF Skewed
    <3> HIDE DEF w, u
    <3> QED
      BY <1>1, <3>1, <3>2
  <2> QED
    BY <2>1, <2>2, <2>3
<1>3. FirstPass(j) = [k \in 0 .. FrameSize(j) - 1 |-> k] /\ FrameSize(j) = l * h
  BY FrameSizes DEF FirstPass, WholeFrame
<1>4. ~Skewed(j) => SampleAt(j, x, y) = y * l + x * u
  <2>1. SampleAt(j, x, y) = y * l + (x * Bytes[j.layout]) \div 8
    BY DEF SampleAt
  <2>2. Bytes[j.layout] = 8 * u
    BY DEF Bytes, Unit
  <2>3. (x * (8 * u)) \div 8 = x * u
    <3> HIDE DEF u, w
    <3>1. x \in Int /\ u \in Int /\ x * (8 * u) = 8 * (x * u) /\ x * u \in Int
      BY <1>1, <1>2
    <3>2. \A n \in Int : (8 * n) \div 8 = n
      OBVIOUS
    <3> QED
      BY <3>1, <3>2
  <2> HIDE DEF l, u
  <2> QED
    BY <2>1, <2>2, <2>3
<1> HIDE DEF w, h, u, stride, l
<1>5. ASSUME NEW d \in 0 .. u - 1 PROVE o + d \in 0 .. l * h - 1
  <2>1. y * stride \in Nat /\ h * stride \in Nat /\ y * stride + stride <= h * stride
    BY <1>1, <1>2, <1>a, LineFits
  <2>2. stride * h <= l * h /\ stride * h = h * stride /\ l * h \in Nat
    BY <1>1, <1>2, TimesMonotone, TimesIsNat
  <2>3. x * u \in Nat /\ x * u + u <= w * u
    BY <1>1, <1>2, <1>a, LineFits
  <2> QED
    BY <1>1, <1>2, <2>1, <2>2, <2>3
<1>6. o \in Nat
  BY <1>1, <1>2, TimesIsNat
<1>7. ~Skewed(j) => o = SampleAt(j, x, y)
  BY <1>2, <1>4
<1> HIDE DEF o
<1>8. \A d \in 0 .. u - 1 : o + d \in DOMAIN FirstPass(j) /\ FirstPass(j)[o + d] = o + d
  BY <1>3, <1>5
<1> QED
  BY <1>6, <1>7, <1>8 DEF o, u, stride, w

(* So do those that walk over what the first pass has left.                *)
LEMMA SmallerFrameRead ==
  ASSUME NEW j \in Job, j.layout \in {"xrgb32", "grey", "mono16"},
         NEW y \in 0 .. j.h - 1, NEW x \in 0 .. j.w - 1
  PROVE  LET o == y * (j.w * Unit(j) + Skip(j)) + x * Unit(j)
         IN  /\ o \in Nat /\ SampleAt(j, x, y) \in Nat
             /\ \A d \in 0 .. Unit(j) - 1 :
                  /\ o + d \in DOMAIN FirstPass(j)
                  /\ FirstPass(j)[o + d] = SampleAt(j, x, y) + d
<1> DEFINE w == j.w
           u == Unit(j)
           o == y * (w * u + Skip(j)) + x * u
           l == BytesPerLine(j)
           s == SampleAt(j, x, y)
<1>1. w \in Nat \ {0} /\ l \in Nat /\ j.h \in Nat
  BY JobTypes, LineBytes
<1>2. CASE j.layout = "xrgb32"
  <2>1. u = 4 /\ Skip(j) = 0 /\ Payload(j) = 4 * w
    BY <1>2, LineBytes DEF Unit, Skip
  <2>2. s = y * l + 4 * x
    <3>1. Bytes[j.layout] = 32
      BY <1>2 DEF Bytes
    <3>2. s = y * l + (x * Bytes[j.layout]) \div 8
      BY <1>2 DEF SampleAt
    <3>3. (x * 32) \div 8 = 4 * x
      OBVIOUS
    <3> HIDE DEF l, s
    <3> QED
      BY <3>1, <3>2, <3>3
  <2>3. FirstPass(j) = RemovePadding(j, 4)
    BY <1>2 DEF FirstPass
  <2>4. \A r \in 0 .. w * 4 - 1 :
          /\ y * (w * 4) + r \in DOMAIN FirstPass(j)
          /\ FirstPass(j)[y * (w * 4) + r] = y * l + r
    <3>1. 4 \in Nat \ {0} /\ Payload(j) = w * 4 /\ j.layout # "yuv420"
      <4> HIDE DEF w
      <4> QED
        BY <1>1, <1>2, <2>1
    <3> QED
      BY <2>3, <3>1, PaddingRemoved
  <2> HIDE DEF w, u, l, s
  <2>5. o = y * (w * 4) + x * 4 /\ o \in Nat /\ y * l \in Nat
    <3>1. y * (w * 4) \in Nat /\ y * l \in Nat
      BY <1>1, TimesIsNat
    <3>2. w * 4 + 0 = w * 4
      BY <1>1
    <3> QED
      BY <2>1, <3>1, <3>2
  <2> HIDE DEF o
  <2>6. ASSUME NEW d \in 0 .. 3
        PROVE  o + d \in DOMAIN FirstPass(j) /\ FirstPass(j)[o + d] = s + d
    <3>1. x * 4 + d \in 0 .. w * 4 - 1
      BY <1>1 DEF w
    <3>2. o + d = y * (w * 4) + (x * 4 + d) /\ s + d = y * l + (x * 4 + d)
      BY <1>1, <2>2, <2>5, TimesIsNat
    <3> QED
      BY <2>4, <3>1, <3>2
  <2>7. s \in Nat
    BY <2>2, <2>5
  <2> QED
    BY <2>1, <2>5, <2>6, <2>7 DEF o, w, u, s
<1>3. CASE j.layout \in {"grey", "mono16"}
  <2>1. u = 1 /\ Skip(j) = 0 /\ ~Skewed(j) /\ j.layout \in OneByte
    BY <1>3 DEF Unit, Skip, Skewed, OneByte
  <2>2. y * w + x \in DOMAIN FirstPass(j) /\ FirstPass(j)[y * w + x] = s
    BY <2>1, SampleInBuffer
  <2>3. s \in Nat
    <3>1. FrameSize(j) \in Nat /\ FirstPass(j)[y * w + x] \in 0 .. FrameSize(j) - 1
      BY <2>2, BufferInFrame, FrameSizes
    <3> QED
      BY <2>2, <3>1
  <2> HIDE DEF w, u, s
  <2>4. o = y * w + x /\ o \in Nat
    BY <1>1, <2>1, TimesIsNat
  <2> HIDE DEF o
  <2>5. \A d \in 0 .. u - 1 : o + d = o /\ s + d = s
    BY <2>1, <2>3, <2>4
  <2> QED
    BY <2>2, <2>3, <2>4, <2>5 DEF o, w, u, s
<1> QED
  BY <1>2, <1>3

(* What the converters may read, and a line as it should be.               *)
ReadableOf(j) ==
  IF j.layout \in BayerLayouts \ {"bayer8"} THEN 0 .. 4 * j.w * j.h - 1 ELSE DOMAIN FirstPass(j)

RightPixel(j, pixel, x, y) ==
  LET inFrame == InFrame(FirstPass(j), pixel)
  IN CASE j.layout \in BayerLayouts -> IsDemosaiced(j, inFrame, x, y)
       [] Miscoloured(j) -> inFrame = MiscolouredPixel(j, x, y)
       [] OTHER -> inFrame = LayoutPixel(j, x, y)

GoodLine(j, y, pixels) ==
  /\ Len(pixels) \in 0 .. j.w /\ DOMAIN pixels = 1 .. Len(pixels)
  /\ \A i \in DOMAIN pixels, c \in 1 .. 3 : pixels[i][c] \subseteq ReadableOf(j)
  /\ ~Skewed(j) => /\ Len(pixels) = j.w
                   /\ \A x \in 0 .. j.w - 1 : RightPixel(j, pixels[x + 1], x, y)

(* The line that ConvertPixels writes.                                     *)
PixelsStart(j, y) == y * (j.w * Unit(j) + Skip(j))
PixelsWritten(j, y) ==
  {x \in 1 .. j.w : j.layout \in PackedMono => PixelsStart(j, y) + x - 1 \in DOMAIN FirstPass(j)}
PixelsLine(j, y) ==
  [x \in PixelsWritten(j, y) |-> PixelAt(j, PixelsStart(j, y) + (x - 1) * Unit(j))]

LEMMA PixelRead ==
  ASSUME NEW j \in Job, j.layout \in PixelLayouts, NEW y \in 0 .. j.h - 1,
         NEW i \in PixelsWritten(j, y)
  PROVE  LET pixel == PixelAt(j, PixelsStart(j, y) + (i - 1) * Unit(j))
         IN  /\ \A c \in 1 .. 3 : pixel[c] \subseteq DOMAIN FirstPass(j)
             /\ ~Skewed(j) => InFrame(FirstPass(j), pixel) = PixelAt(j, SampleAt(j, i - 1, y))
<1> DEFINE x == i - 1
           o == PixelsStart(j, y) + x * Unit(j)
           bytes == FirstPass(j)
           s == SampleAt(j, x, y)
<1>1. j.w \in Nat /\ i \in 1 .. j.w /\ x \in 0 .. j.w - 1
  <2>1. j.w \in Nat /\ i \in 1 .. j.w
    BY JobTypes DEF PixelsWritten
  <2> QED
    BY <2>1
<1>2. CASE j.layout \in {"bgr24", "bgr32", "rgb32", "rgb565"}
  <2>1. /\ o \in Nat
        /\ \A d \in 0 .. Unit(j) - 1 : o + d \in DOMAIN bytes /\ bytes[o + d] = o + d
        /\ ~Skewed(j) => o = s
    BY <1>1, <1>2, WholeFrameRead DEF PixelsStart
  <2> HIDE DEF o, bytes, s
  <2>2. o \in Nat /\ \A d \in 0 .. Unit(j) - 1 : o + d \in DOMAIN bytes /\ bytes[o + d] = o + d
    BY <2>1
  <2>3. /\ \A c \in 1 .. 3 : PixelAt(j, o)[c] \subseteq DOMAIN bytes
        /\ InFrame(bytes, PixelAt(j, o)) = PixelAt(j, o)
    BY ONLY <2>2, j \in Job, PixelMoved
  <2> QED
    BY <2>1, <2>3 DEF o, bytes, s
<1>3. CASE j.layout \in {"xrgb32", "grey", "mono16"}
  <2>1. /\ o \in Nat /\ s \in Nat
        /\ \A d \in 0 .. Unit(j) - 1 : o + d \in DOMAIN bytes /\ bytes[o + d] = s + d
    BY <1>1, <1>3, SmallerFrameRead DEF PixelsStart
  <2> HIDE DEF o, bytes, s
  <2>2. /\ \A c \in 1 .. 3 : PixelAt(j, o)[c] \subseteq DOMAIN bytes
        /\ InFrame(bytes, PixelAt(j, o)) = PixelAt(j, s)
    BY ONLY <2>1, j \in Job, PixelMoved
  <2> QED
    BY <2>2 DEF o, bytes, s
<1>4. CASE j.layout \in PackedMono
  <2>1. Unit(j) = 1 /\ Skip(j) = 0
    BY <1>4 DEF PackedMono, Unit, Skip
  <2>2. y \in Nat /\ y * j.w \in Nat
    BY <1>1, JobTypes, TimesIsNat
  <2>3. PixelsStart(j, y) = y * j.w
    BY <1>1, <2>1 DEF PixelsStart
  <2>4. o = y * j.w + x /\ o \in Nat /\ o \in DOMAIN bytes
    <3>1. PixelsStart(j, y) + i - 1 \in DOMAIN bytes
      BY <1>4 DEF PixelsWritten
    <3> QED
      BY <1>1, <2>1, <2>2, <2>3, <3>1
  <2>5. PixelAt(j, o) = Pixel({o}, {o}, {o})
    BY <1>4 DEF PixelAt, Grey, PackedMono
  <2> HIDE DEF o, bytes
  <2>6. \A c \in 1 .. 3 : PixelAt(j, o)[c] \subseteq DOMAIN bytes
    BY <2>4, <2>5, PixelChannels
  <2>7. ASSUME ~Skewed(j) PROVE InFrame(bytes, PixelAt(j, o)) = PixelAt(j, s)
    <3>1. o \in DOMAIN bytes /\ bytes[o] = s
      BY <1>1, <1>4, <2>4, <2>7, SampleInBuffer DEF OneByte, bytes
    <3>2. s \in Nat
      <4>1. FrameSize(j) \in Nat /\ bytes[o] \in 0 .. FrameSize(j) - 1
        BY <3>1, BufferInFrame, FrameSizes DEF bytes
      <4> QED
        BY <3>1, <4>1
    <3> HIDE DEF s
    <3>3. \A d \in 0 .. Unit(j) - 1 : o + d = o /\ s + d = s
      BY <2>1, <2>4, <3>2
    <3> QED
      BY <2>4, <3>1, <3>2, <3>3, PixelMoved
  <2> QED
    BY <2>6, <2>7 DEF o, bytes
<1> QED
  BY <1>2, <1>3, <1>4 DEF PixelLayouts, PackedMono

LEMMA GoodLineIntro ==
  ASSUME NEW j \in Job, NEW y, NEW pixels, NEW n \in 0 .. j.w,
         DOMAIN pixels = 1 .. n, Len(pixels) = n,
         \A i \in 1 .. n, c \in 1 .. 3 : pixels[i][c] \subseteq ReadableOf(j),
         ~Skewed(j) => n = j.w /\ \A x \in 0 .. j.w - 1 : RightPixel(j, pixels[x + 1], x, y)
  PROVE  GoodLine(j, y, pixels)
BY DEF GoodLine

LEMMA PixelsLineIsGood ==
  ASSUME NEW j \in Job, j.layout \in PixelLayouts, NEW y \in 0 .. j.h - 1
  PROVE  GoodLine(j, y, PixelsLine(j, y))
<1> DEFINE w == j.w
           pixels == PixelsLine(j, y)
           a == PixelsStart(j, y)
<1>1. w \in Nat /\ w > 0 /\ j.h \in Nat
  BY JobTypes
<1>2. \E n \in 0 .. w : PixelsWritten(j, y) = 1 .. n /\ (~Skewed(j) => n = w)
  <2>1. CASE j.layout \notin PackedMono
    <3>1. PixelsWritten(j, y) = 1 .. w
      BY <2>1 DEF PixelsWritten
    <3> QED
      BY <1>1, <3>1
  <2>2. CASE j.layout \in PackedMono
    <3>1. PICK c \in Int : DOMAIN FirstPass(j) = 0 .. c - 1
      BY BufferInFrame
    <3>2. Unit(j) = 1 /\ Skip(j) = 0
      BY <2>2 DEF PackedMono, Unit, Skip
    <3>3. y * w \in Nat /\ a = y * w
      <4>1. y \in Nat
        OBVIOUS
      <4>2. w * 1 + 0 = w
        BY <1>1
      <4> QED
        BY <1>1, <3>2, <4>1, <4>2, TimesIsNat DEF PixelsStart
    <3>4. PixelsWritten(j, y) = {x \in 1 .. w : a + x - 1 \in 0 .. c - 1}
      BY <2>2, <3>1 DEF PixelsWritten
    <3>5. ASSUME ~Skewed(j) PROVE a + (w - 1) \in 0 .. c - 1
      <4>1. w - 1 \in 0 .. w - 1 /\ j.layout \in OneByte
        BY <1>1, <2>2 DEF OneByte
      <4> QED
        BY <3>1, <3>3, <3>5, <4>1, SampleInBuffer
    <3> HIDE DEF w, a
    <3> DEFINE n == IF c - a >= w THEN w ELSE IF c - a >= 0 THEN c - a ELSE 0
    <3>6. n \in 0 .. w /\ (~Skewed(j) => n = w)
      BY <1>1, <3>3, <3>5
    <3>7. \A x \in Int : (x \in 1 .. w /\ a + x - 1 \in 0 .. c - 1) <=> x \in 1 .. n
      BY <1>1, <3>3
    <3> HIDE DEF n
    <3>8. PixelsWritten(j, y) = 1 .. n
      BY <1>1, <3>4, <3>6, <3>7
    <3> QED
      BY <3>6, <3>8
  <2> QED
    BY <2>1, <2>2
<1>3. PICK n \in 0 .. w : PixelsWritten(j, y) = 1 .. n /\ (~Skewed(j) => n = w)
  BY <1>2
<1>4. DOMAIN pixels = 1 .. n /\ Len(pixels) = n
  BY <1>1, <1>3 DEF PixelsLine
<1>5. \A i \in 1 .. n : pixels[i] = PixelAt(j, a + (i - 1) * Unit(j))
  BY <1>3 DEF PixelsLine
<1> HIDE DEF pixels, a
<1>6. ASSUME NEW i \in 1 .. n
      PROVE  /\ \A c \in 1 .. 3 : pixels[i][c] \subseteq DOMAIN FirstPass(j)
             /\ ~Skewed(j) => InFrame(FirstPass(j), pixels[i]) = PixelAt(j, SampleAt(j, i - 1, y))
  BY <1>3, <1>5, PixelRead DEF a
<1>7. ReadableOf(j) = DOMAIN FirstPass(j) /\ j.layout \notin BayerLayouts
  BY DEF ReadableOf, PixelLayouts, BayerLayouts
<1>8. ASSUME ~Skewed(j), NEW x \in 0 .. w - 1 PROVE RightPixel(j, pixels[x + 1], x, y)
  <2>1. x + 1 \in 1 .. n /\ (x + 1) - 1 = x
    BY <1>1, <1>3, <1>8
  <2>2. InFrame(FirstPass(j), pixels[x + 1]) = PixelAt(j, SampleAt(j, x, y))
    BY <1>6, <1>8, <2>1
  <2>3. CASE Miscoloured(j)
    <3>1. j.layout = "rgb32"
      BY <2>3 DEF Miscoloured, PixelLayouts
    <3>2. MiscolouredPixel(j, x, y) = PixelAt(j, SampleAt(j, x, y))
      BY <3>1 DEF MiscolouredPixel, PixelAt
    <3> QED
      BY <1>7, <2>2, <2>3, <3>2 DEF RightPixel
  <2>4. CASE ~Miscoloured(j)
    <3>1. j.layout \in PixelLayouts \ {"rgb32"}
      BY <2>4 DEF Miscoloured
    <3>2. LayoutPixel(j, x, y) = PixelAt(j, SampleAt(j, x, y))
      BY <3>1 DEF LayoutPixel, PixelLayouts, PixelAt
    <3> QED
      BY <1>7, <2>2, <2>4, <3>2 DEF RightPixel
  <2> QED
    BY <2>3, <2>4
<1>9. /\ \A i \in 1 .. n, c \in 1 .. 3 : pixels[i][c] \subseteq ReadableOf(j)
      /\ ~Skewed(j) => n = w /\ \A x \in 0 .. w - 1 : RightPixel(j, pixels[x + 1], x, y)
  BY <1>3, <1>6, <1>7, <1>8
<1>10. GoodLine(j, y, pixels)
  BY ONLY <1>3, <1>4, <1>9, j \in Job, GoodLineIntro DEF w
<1> QED
  BY <1>10 DEF pixels

-----------------------------------------------------------------------------
(* Pixels that are made two at a time. *)

LEMMA PixelsInPairs ==
  ASSUME NEW n \in Nat, NEW round
  PROVE  /\ Len(InPairs(n, round)) = 2 * n /\ DOMAIN InPairs(n, round) = 1 .. 2 * n
         /\ \A x \in 0 .. 2 * n - 1 :
              /\ x \div 2 \in 0 .. n - 1
              /\ x % 2 = 0 => InPairs(n, round)[x + 1] = round[x \div 2 + 1][1]
              /\ x % 2 = 1 => InPairs(n, round)[x + 1] = round[x \div 2 + 1][2]
<1>1. DOMAIN InPairs(n, round) = 1 .. 2 * n /\ 2 * n \in Nat
  BY DEF InPairs
<1>2. Len(InPairs(n, round)) = 2 * n
  BY <1>1 DEF InPairs
<1>3. ASSUME NEW x \in 0 .. 2 * n - 1
      PROVE  /\ x \div 2 \in 0 .. n - 1
             /\ x % 2 = 0 => InPairs(n, round)[x + 1] = round[x \div 2 + 1][1]
             /\ x % 2 = 1 => InPairs(n, round)[x + 1] = round[x \div 2 + 1][2]
  <2>1. x + 1 \in 1 .. 2 * n /\ x \div 2 \in 0 .. n - 1
    OBVIOUS
  <2>2. ((x + 1) + 1) \div 2 = x \div 2 + 1
    OBVIOUS
  <2>3. (x % 2 = 0 => 2 - ((x + 1) % 2) = 1) /\ (x % 2 = 1 => 2 - ((x + 1) % 2) = 2)
    OBVIOUS
  <2>4. InPairs(n, round)[x + 1] = round[((x + 1) + 1) \div 2][2 - ((x + 1) % 2)]
    BY <2>1 DEF InPairs
  <2> QED
    BY <2>1, <2>2, <2>3, <2>4
<1> QED
  BY <1>1, <1>2, <1>3

LEMMA YuvMoved ==
  ASSUME NEW bytes, NEW y \in DOMAIN bytes, NEW u \in DOMAIN bytes, NEW v \in DOMAIN bytes
  PROVE  /\ \A c \in 1 .. 3 : Yuv(y, u, v)[c] \subseteq DOMAIN bytes
         /\ InFrame(bytes, Yuv(y, u, v)) = Yuv(bytes[y], bytes[u], bytes[v])
<1>1. \A c \in 1 .. 3 : Yuv(y, u, v)[c] \in {{y, v}, {y, u, v}, {y, u}}
  BY PixelChannels DEF Yuv
<1>2. InFrame(bytes, Yuv(y, u, v)) =
        Pixel(Places(bytes, {y, v}), Places(bytes, {y, u, v}), Places(bytes, {y, u}))
  BY PixelInFrame DEF Yuv
<1>3. /\ Places(bytes, {y, v}) = {bytes[y], bytes[v]}
      /\ Places(bytes, {y, u, v}) = {bytes[y], bytes[u], bytes[v]}
      /\ Places(bytes, {y, u}) = {bytes[y], bytes[u]}
  <2>1. Places(bytes, {y, v}) = {bytes[y], bytes[v]}
    BY ONLY TwoOffsets
  <2>2. Places(bytes, {y, u, v}) = {bytes[y], bytes[u], bytes[v]}
    BY DEF Places
  <2>3. Places(bytes, {y, u}) = {bytes[y], bytes[u]}
    BY ONLY TwoOffsets
  <2> QED
    BY <2>1, <2>2, <2>3
<1>4. InFrame(bytes, Yuv(y, u, v)) = Yuv(bytes[y], bytes[u], bytes[v])
  BY <1>2, <1>3 DEF Yuv
<1>5. \A c \in 1 .. 3 : Yuv(y, u, v)[c] \subseteq DOMAIN bytes
  BY <1>1
<1> QED
  BY <1>4, <1>5

(* The lines that ConvertPairs and ConvertPlanes write.                    *)
PairsStart(j, y) == y * (4 * (j.w \div 2) + BytesPerLine(j) - j.w * 2)
PairsLine(j, y) ==
  InPairs(j.w \div 2, [i \in 1 .. j.w \div 2 |-> PairAt(j, PairsStart(j, y) + 4 * (i - 1))])

LEMMA PairRead ==
  ASSUME NEW j \in Job, j.layout \in PairLayouts, NEW y \in 0 .. j.h - 1,
         NEW x \in 0 .. 2 * (j.w \div 2) - 1
  PROVE  LET o == PairsStart(j, y) + 4 * (x \div 2)
         IN  /\ o \in Nat /\ \A d \in 0 .. 3 : o + d \in 0 .. FrameSize(j) - 1
             /\ ~Skewed(j) => /\ SampleAt(j, x, y) = o + 2 * (x % 2)
                              /\ SampleAt(j, x - (x % 2), y) = o
<1> DEFINE w == j.w
           h == j.h
           l == BytesPerLine(j)
           n == w \div 2
           stride == 4 * n + l - w * 2
           k == 4 * (x \div 2)
           o == PairsStart(j, y) + k
<1>1. /\ w \in Nat /\ h \in Nat /\ l \in Nat /\ n \in Nat /\ 2 * n <= w /\ 2 * w <= l
  <2>1. w \in Nat /\ h \in Nat /\ j.pad \in Nat /\ l \in Nat /\ l = 2 * w + j.pad
    <3>1. Payload(j) = 2 * w
      BY LineBytes DEF PairLayouts
    <3> QED
      BY <3>1, JobTypes, LineBytes
  <2> QED
    BY <2>1
<1>2. y \in Nat /\ y < h /\ x \in Nat /\ x < 2 * n
  BY <1>1
<1>3. PairsStart(j, y) = y * stride
  BY DEF PairsStart
<1>4. FrameSize(j) = l * h
  BY FrameSizes DEF PairLayouts
<1>5. SampleAt(j, x, y) = y * l + 2 * x /\ SampleAt(j, x - (x % 2), y) = y * l + 2 * (x - (x % 2))
  <2>1. \A z \in Nat : SampleAt(j, z, y) = y * l + (z * 16) \div 8
    BY DEF SampleAt, Bytes, PairLayouts
  <2>2. \A z \in Nat : (z * 16) \div 8 = 2 * z
    OBVIOUS
  <2>3. x - (x % 2) \in Nat
    BY <1>2
  <2> QED
    BY <1>2, <2>1, <2>2, <2>3
<1>6. ~Skewed(j) => w = 2 * n
  <2>1. ~Skewed(j) => w % 2 # 1
    BY DEF Skewed, PairLayouts
  <2> HIDE DEF w
  <2>2. w % 2 \in {0, 1} /\ w = 2 * (w \div 2) + (w % 2)
    BY <1>1
  <2> QED
    BY <1>1, <2>1, <2>2
<1> HIDE DEF w, h, l, n
<1>7. stride \in Nat /\ 4 * n <= stride /\ stride <= l
  BY <1>1
<1>8. k \in Nat /\ k + 4 <= 4 * n /\ 2 * x = k + 2 * (x % 2) /\ 2 * (x - (x % 2)) = k
  BY <1>1, <1>2
<1> HIDE DEF stride, k
<1>9. y * stride \in Nat /\ h * stride \in Nat /\ y * stride + stride <= h * stride
  BY <1>1, <1>2, <1>7, LineFits
<1>10. h * stride <= l * h /\ l * h \in Nat
  BY <1>1, <1>7, TimesMonotone, TimesIsNat
<1>11. o \in Nat /\ \A d \in 0 .. 3 : o + d \in 0 .. FrameSize(j) - 1
  <2> DEFINE m == y * stride
             f == l * h
  <2>1. m \in Nat /\ f \in Nat /\ m + stride <= f
    <3>1. \A a, b, c \in Nat : a <= b /\ b <= c => a <= c
      OBVIOUS
    <3>2. y * stride + stride \in Nat
      BY <1>7, <1>9
    <3> QED
      BY <1>9, <1>10, <3>1, <3>2
  <2>2. o = m + k /\ FrameSize(j) = f
    BY <1>3, <1>4
  <2> HIDE DEF o, m, f
  <2> QED
    BY <1>1, <1>7, <1>8, <2>1, <2>2
<1>12. ASSUME ~Skewed(j)
       PROVE  SampleAt(j, x, y) = o + 2 * (x % 2) /\ SampleAt(j, x - (x % 2), y) = o
  <2>1. stride = l
    BY <1>1, <1>6, <1>12 DEF stride
  <2>2. SampleAt(j, x, y) = y * l + (k + 2 * (x % 2)) /\ SampleAt(j, x - (x % 2), y) = y * l + k
    BY <1>5, <1>8
  <2>3. y * l \in Nat /\ o = y * l + k /\ x % 2 \in Nat
    BY <1>2, <1>3, <1>9, <2>1
  <2> QED
    BY <1>8, <2>2, <2>3
<1> QED
  BY <1>11, <1>12 DEF o, k

LEMMA PairsLineIsGood ==
  ASSUME NEW j \in Job, j.layout \in PairLayouts, NEW y \in 0 .. j.h - 1
  PROVE  GoodLine(j, y, PairsLine(j, y))
<1> DEFINE n == j.w \div 2
           o(x) == PairsStart(j, y) + 4 * (x \div 2)
           pixels == PairsLine(j, y)
<1>1. j.w \in Nat /\ n \in Nat /\ 2 * n \in 0 .. j.w
  <2>1. j.w \in Nat
    BY JobTypes
  <2> QED
    BY <2>1
<1>2. /\ Len(pixels) = 2 * n /\ DOMAIN pixels = 1 .. 2 * n
      /\ \A x \in 0 .. 2 * n - 1 :
           /\ x % 2 = 0 => pixels[x + 1] = PairAt(j, o(x))[1]
           /\ x % 2 = 1 => pixels[x + 1] = PairAt(j, o(x))[2]
  <2> DEFINE round == [i \in 1 .. n |-> PairAt(j, PairsStart(j, y) + 4 * (i - 1))]
  <2>1. \A i \in 0 .. n - 1 : round[i + 1] = PairAt(j, PairsStart(j, y) + 4 * i)
    <3>1. \A i \in 0 .. n - 1 : i + 1 \in 1 .. n /\ (i + 1) - 1 = i
      BY <1>1
    <3> QED
      BY <3>1
  <2>2. pixels = InPairs(n, round)
    BY DEF PairsLine
  <2> HIDE DEF round, n, pixels
  <2> QED
    BY <1>1, <2>1, <2>2, PixelsInPairs
<1>3. DOMAIN FirstPass(j) = 0 .. FrameSize(j) - 1 /\ \A a \in 0 .. FrameSize(j) - 1 : FirstPass(j)[a] = a
  BY DEF FirstPass, WholeFrame, PairLayouts
<1>4. ReadableOf(j) = DOMAIN FirstPass(j) /\ j.layout \notin BayerLayouts /\ ~Miscoloured(j)
  BY DEF ReadableOf, PairLayouts, BayerLayouts, Miscoloured
<1> HIDE DEF pixels
<1>5. ASSUME NEW x \in 0 .. 2 * n - 1
      PROVE  /\ \A c \in 1 .. 3 : pixels[x + 1][c] \subseteq ReadableOf(j)
             /\ ~Skewed(j) => RightPixel(j, pixels[x + 1], x, y)
  <2> DEFINE p == o(x)
  <2>1. /\ p \in Nat /\ \A d \in 0 .. 3 : p + d \in DOMAIN FirstPass(j)
        /\ ~Skewed(j) => /\ SampleAt(j, x, y) = p + 2 * (x % 2)
                         /\ SampleAt(j, x - (x % 2), y) = p
    BY <1>3, PairRead
  <2>2. /\ x % 2 \in {0, 1}
        /\ x % 2 = 0 => pixels[x + 1] = PairAt(j, p)[1]
        /\ x % 2 = 1 => pixels[x + 1] = PairAt(j, p)[2]
    <3>1. x % 2 \in {0, 1}
      BY <1>1
    <3> QED
      BY <1>2, <3>1
  <2> HIDE DEF p
  <2>3. p \in DOMAIN FirstPass(j) /\ p + 1 \in DOMAIN FirstPass(j)
        /\ p + 2 \in DOMAIN FirstPass(j) /\ p + 3 \in DOMAIN FirstPass(j)
    <3>1. p + 0 = p
      BY <2>1
    <3> QED
      BY <2>1, <3>1
  <2>4. PICK a \in DOMAIN FirstPass(j), u \in DOMAIN FirstPass(j), v \in DOMAIN FirstPass(j) :
          /\ pixels[x + 1] = Yuv(a, u, v)
          /\ ~Skewed(j) => LayoutPixel(j, x, y) = Yuv(a, u, v)
    <3>1. CASE j.layout = "uyvy"
      <4>1. PairAt(j, p) = <<Yuv(p + 1, p, p + 2), Yuv(p + 3, p, p + 2)>>
        BY <3>1 DEF PairAt
      <4>2. LayoutPixel(j, x, y) = Yuv(SampleAt(j, x, y) + 1, SampleAt(j, x - (x % 2), y),
                                       SampleAt(j, x - (x % 2), y) + 2)
        BY <3>1 DEF LayoutPixel
      <4>3. CASE x % 2 = 0
        <5>1. ~Skewed(j) => SampleAt(j, x, y) + 1 = p + 1
          BY <2>1, <4>3
        <5> QED
          BY <2>1, <2>2, <2>3, <4>1, <4>2, <4>3, <5>1
      <4>4. CASE x % 2 = 1
        <5>1. ~Skewed(j) => SampleAt(j, x, y) + 1 = p + 3
          BY <2>1, <4>4
        <5> QED
          BY <2>1, <2>2, <2>3, <4>1, <4>2, <4>4, <5>1
      <4> QED
        BY <2>2, <4>3, <4>4
    <3>2. CASE j.layout = "yuyv"
      <4>1. PairAt(j, p) = <<Yuv(p, p + 1, p + 3), Yuv(p + 2, p + 1, p + 3)>>
        BY <3>2 DEF PairAt
      <4>2. LayoutPixel(j, x, y) = Yuv(SampleAt(j, x, y), SampleAt(j, x - (x % 2), y) + 1,
                                       SampleAt(j, x - (x % 2), y) + 3)
        BY <3>2 DEF LayoutPixel
      <4>3. CASE x % 2 = 0
        <5>1. ~Skewed(j) => SampleAt(j, x, y) = p
          BY <2>1, <4>3
        <5> QED
          BY <2>1, <2>2, <2>3, <4>1, <4>2, <4>3, <5>1
      <4>4. CASE x % 2 = 1
        <5>1. ~Skewed(j) => SampleAt(j, x, y) = p + 2
          BY <2>1, <4>4
        <5> QED
          BY <2>1, <2>2, <2>3, <4>1, <4>2, <4>4, <5>1
      <4> QED
        BY <2>2, <4>3, <4>4
    <3>3. CASE j.layout = "vyuy"
      <4>1. PairAt(j, p) = <<Yuv(p + 1, p + 2, p), Yuv(p + 3, p + 2, p)>>
        BY <3>3 DEF PairAt
      <4>2. LayoutPixel(j, x, y) = Yuv(SampleAt(j, x, y) + 1, SampleAt(j, x - (x % 2), y) + 2,
                                       SampleAt(j, x - (x % 2), y))
        BY <3>3 DEF LayoutPixel
      <4>3. CASE x % 2 = 0
        <5>1. ~Skewed(j) => SampleAt(j, x, y) + 1 = p + 1
          BY <2>1, <4>3
        <5> QED
          BY <2>1, <2>2, <2>3, <4>1, <4>2, <4>3, <5>1
      <4>4. CASE x % 2 = 1
        <5>1. ~Skewed(j) => SampleAt(j, x, y) + 1 = p + 3
          BY <2>1, <4>4
        <5> QED
          BY <2>1, <2>2, <2>3, <4>1, <4>2, <4>4, <5>1
      <4> QED
        BY <2>2, <4>3, <4>4
    <3> QED
      BY <3>1, <3>2, <3>3 DEF PairLayouts
  <2>5. FirstPass(j)[a] = a /\ FirstPass(j)[u] = u /\ FirstPass(j)[v] = v
    BY <1>3, <2>4
  <2>6. /\ \A c \in 1 .. 3 : Yuv(a, u, v)[c] \subseteq DOMAIN FirstPass(j)
        /\ InFrame(FirstPass(j), Yuv(a, u, v)) = Yuv(a, u, v)
    BY <2>4, <2>5, YuvMoved
  <2> QED
    BY <1>4, <2>4, <2>6 DEF RightPixel
<1>6. \A i \in 1 .. 2 * n, c \in 1 .. 3 : pixels[i][c] \subseteq ReadableOf(j)
  <2>1. \A i \in 1 .. 2 * n : i - 1 \in 0 .. 2 * n - 1 /\ (i - 1) + 1 = i
    BY <1>1
  <2> HIDE DEF n
  <2> QED
    BY <1>5, <2>1
<1>7. ~Skewed(j) => 2 * n = j.w
  <2>1. ~Skewed(j) => j.w % 2 # 1
    BY DEF Skewed, PairLayouts
  <2> QED
    BY <1>1, <2>1
<1>8. ~Skewed(j) => 2 * n = j.w /\ \A x \in 0 .. j.w - 1 : RightPixel(j, pixels[x + 1], x, y)
  <2> HIDE DEF n
  <2> QED
    BY <1>5, <1>7
<1> HIDE DEF n
<1>9. GoodLine(j, y, pixels)
  BY <1>1, <1>2, <1>6, <1>8, GoodLineIntro
<1> QED
  BY <1>9 DEF pixels

(* yuv420 of even sizes: `area' bytes of luma, and a quarter of it for     *)
(* each plane of chroma.                                                   *)
PlanesLine(j, y) ==
  LET pairs  == j.w \div 2
      area   == j.w * j.h
      start  == y * j.w
      chromaAt == (y \div 2) * pairs
      u(i)   == area + area \div 4 + chromaAt + i - 1
      v(i)   == area + chromaAt + i - 1
      pair(i) == <<Yuv(start + 2 * i - 2, u(i), v(i)), Yuv(start + 2 * i - 1, u(i), v(i))>>
  IN InPairs(pairs, [i \in 1 .. pairs |-> pair(i)])

LEMMA Planes ==
  ASSUME NEW j \in Job, j.layout = "yuv420", ~TooSmall(j), NEW y \in 0 .. j.h - 1,
         NEW x \in 0 .. j.w - 1
  PROVE  LET area == j.w * j.h
             a    == y * j.w + x
             v    == area + (y \div 2) * (j.w \div 2) + x \div 2
             u    == v + area \div 4
         IN  /\ a \in 0 .. FrameSize(j) - 1
             /\ u \in 0 .. FrameSize(j) - 1
             /\ v \in 0 .. FrameSize(j) - 1
             /\ ~Skewed(j) => SampleAt(j, x, y) = a
<1> DEFINE w == j.w
           h == j.h
           l == BytesPerLine(j)
           n == w \div 2
           m == h \div 2
           q == n * m
           area == w * h
           c == (y \div 2) * n + x \div 2
<1>1. w \in Nat /\ h \in Nat /\ l \in Nat /\ w <= l /\ (~Skewed(j) => l = w)
  <2>1. Payload(j) = w /\ l = w + j.pad /\ w \in Nat /\ h \in Nat /\ j.pad \in Nat
    BY JobTypes, LineBytes
  <2>2. ~Skewed(j) => j.pad = 0
    <3>1. ~Skewed(j) => ~(j.pad > 0)
      BY DEF Skewed
    <3> QED
      BY <2>1, <3>1
  <2> QED
    BY <2>1, <2>2
<1>2. w = 2 * n /\ h = 2 * m /\ n \in Nat /\ m \in Nat
  <2>1. w % 2 # 1 /\ h % 2 # 1
    BY DEF TooSmall
  <2> QED
    BY <1>1, <2>1
<1>3. y \in Nat /\ y < h /\ x \in Nat /\ x < w
  BY <1>1
<1>4. FrameSize(j) = (l * h * 3) \div 2 /\ FrameSize(j) \in Nat
  BY FrameSizes
<1>5. SampleAt(j, x, y) = y * l + x
  <2>1. SampleAt(j, x, y) = y * l + (x * 8) \div 8
    BY DEF SampleAt, Bytes
  <2> QED
    BY <1>3, <2>1
<1> HIDE DEF w, h, l, n, m
<1>6. q \in Nat /\ area = 4 * q /\ area \div 4 = q
  <2>1. q \in Nat
    BY <1>2, TimesIsNat
  <2>2. area = 4 * q
    BY <1>2
  <2> HIDE DEF q, area
  <2> QED
    BY <2>1, <2>2
<1>7. area <= l * h /\ l * h \in Nat
  BY <1>1, TimesMonotone, TimesIsNat
<1>8. FrameSize(j) >= 6 * q
  <2> DEFINE f == l * h
  <2>1. f \in Nat /\ 4 * q <= f /\ FrameSize(j) = (f * 3) \div 2
    BY <1>4, <1>6, <1>7
  <2> HIDE DEF f, q
  <2> QED
    BY <1>6, <2>1
<1>9. c \in Nat /\ c < q
  <2> DEFINE r == y \div 2
             s == x \div 2
  <2>1. r \in Nat /\ r < m /\ s \in Nat /\ s < n
    BY <1>2, <1>3
  <2> HIDE DEF r, s
  <2>2. r * n \in Nat /\ r * n + n <= m * n
    BY <1>2, <2>1, LineFits
  <2>3. m * n = q
    BY <1>2
  <2>4. c = r * n + s
    BY DEF r, s
  <2> HIDE DEF c, q
  <2> QED
    BY <1>2, <1>6, <2>1, <2>2, <2>3, <2>4
<1>10. y * w + x \in Nat /\ y * w + x < area
  <2>1. y * w \in Nat /\ y * w + w <= h * w
    BY <1>1, <1>3, LineFits
  <2>2. h * w = area
    BY <1>1
  <2> DEFINE t == y * w
  <2> HIDE DEF t, area
  <2> QED
    BY <1>1, <1>3, <2>1, <2>2 DEF t
<1> DEFINE a == y * w + x
           v == area + (y \div 2) * n + x \div 2
           u == v + area \div 4
<1>11. v = area + c
  <2>1. (y \div 2) * n \in Nat /\ x \div 2 \in Nat
    <3>1. y \div 2 \in Nat /\ x \div 2 \in Nat
      BY <1>3
    <3> QED
      BY <1>2, <3>1, TimesIsNat
  <2> QED
    BY <1>6, <2>1
<1>12. a \in 0 .. FrameSize(j) - 1 /\ v \in 0 .. FrameSize(j) - 1 /\ u \in 0 .. FrameSize(j) - 1
  <2>1. a \in Nat /\ a < 4 * q /\ v = 4 * q + c /\ u = 5 * q + c
    <3>1. u = v + q
      BY <1>6
    <3> HIDE DEF u, v, c, q, a
    <3>2. a \in Nat /\ a < 4 * q
      BY <1>6, <1>10 DEF a
    <3> QED
      BY <1>6, <1>9, <1>11, <3>1, <3>2
  <2> HIDE DEF a, v, u, c, q
  <2> QED
    BY <1>4, <1>6, <1>8, <1>9, <2>1
<1>13. ~Skewed(j) => SampleAt(j, x, y) = a
  BY <1>1, <1>5
<1> QED
  BY <1>12, <1>13 DEF w, h, l, n

LEMMA PlanesLineIsGood ==
  ASSUME NEW j \in Job, j.layout = "yuv420", ~TooSmall(j), NEW y \in 0 .. j.h - 1
  PROVE  GoodLine(j, y, PlanesLine(j, y))
<1> DEFINE n == j.w \div 2
           area == j.w * j.h
           start == y * j.w
           c == (y \div 2) * n
           q == area \div 4
           bytes == FirstPass(j)
           pixels == PlanesLine(j, y)
<1>1. j.w \in Nat /\ n \in Nat /\ 2 * n = j.w
  <2>1. j.w \in Nat /\ j.w % 2 # 1
    BY JobTypes DEF TooSmall
  <2> QED
    BY <2>1
<1>2. area \in Nat /\ start \in Nat /\ c \in Nat /\ q \in Nat
  <2>1. y \in Nat /\ y \div 2 \in Nat /\ j.h \in Nat
    BY JobTypes
  <2>2. area \in Nat /\ start \in Nat /\ c \in Nat
    BY <1>1, <2>1, TimesIsNat
  <2> HIDE DEF area
  <2> QED
    BY <2>2
<1>3. DOMAIN bytes = 0 .. FrameSize(j) - 1 /\ \A a \in 0 .. FrameSize(j) - 1 : bytes[a] = a
  BY DEF FirstPass, WholeFrame
<1>4. ReadableOf(j) = DOMAIN bytes /\ j.layout \notin BayerLayouts /\ Miscoloured(j)
  BY DEF ReadableOf, BayerLayouts, Miscoloured
<1> DEFINE round == [i \in 1 .. n |-> <<Yuv(start + 2 * i - 2, area + q + c + i - 1, area + c + i - 1),
                                        Yuv(start + 2 * i - 1, area + q + c + i - 1, area + c + i - 1)>>]
<1>5. pixels = InPairs(n, round)
  BY DEF PlanesLine
<1> DEFINE theYuv(x) == Yuv(start + x, area + c + x \div 2 + q, area + c + x \div 2)
<1> HIDE DEF pixels, n, area, start, c, q
<1>6. \A i \in 0 .. n - 1 :
        round[i + 1] = <<Yuv(start + 2 * i, area + c + i + q, area + c + i),
                         Yuv(start + 2 * i + 1, area + c + i + q, area + c + i)>>
  <2> SUFFICES ASSUME NEW i \in 0 .. n - 1
               PROVE  round[i + 1] = <<Yuv(start + 2 * i, area + c + i + q, area + c + i),
                                       Yuv(start + 2 * i + 1, area + c + i + q, area + c + i)>>
    OBVIOUS
  <2>1. i + 1 \in 1 .. n
    BY <1>1
  <2>2. /\ start + 2 * (i + 1) - 2 = start + 2 * i /\ start + 2 * (i + 1) - 1 = start + 2 * i + 1
        /\ area + q + c + (i + 1) - 1 = area + c + i + q /\ area + c + (i + 1) - 1 = area + c + i
    BY <1>1, <1>2
  <2>3. round[i + 1] = <<Yuv(start + 2 * (i + 1) - 2, area + q + c + (i + 1) - 1, area + c + (i + 1) - 1),
                         Yuv(start + 2 * (i + 1) - 1, area + q + c + (i + 1) - 1, area + c + (i + 1) - 1)>>
    BY <2>1
  <2> QED
    BY <2>2, <2>3
<1> HIDE DEF round
<1>7. /\ Len(pixels) = 2 * n /\ DOMAIN pixels = 1 .. 2 * n
      /\ \A x \in 0 .. 2 * n - 1 :
           /\ x \div 2 \in 0 .. n - 1
           /\ x % 2 = 0 => pixels[x + 1] = round[x \div 2 + 1][1]
           /\ x % 2 = 1 => pixels[x + 1] = round[x \div 2 + 1][2]
  BY <1>1, <1>5, PixelsInPairs
<1>8. ASSUME NEW x \in 0 .. 2 * n - 1
      PROVE  pixels[x + 1] = theYuv(x)
  <2>1. x \div 2 \in 0 .. n - 1 /\ (x % 2 = 0 \/ x % 2 = 1)
    BY <1>1
  <2>2. round[x \div 2 + 1] =
          <<Yuv(start + 2 * (x \div 2), area + c + x \div 2 + q, area + c + x \div 2),
            Yuv(start + 2 * (x \div 2) + 1, area + c + x \div 2 + q, area + c + x \div 2)>>
    BY <1>6, <2>1
  <2>3. CASE x % 2 = 0
    <3>1. start + 2 * (x \div 2) = start + x
      BY <1>1, <1>2, <2>3
    <3>2. round[x \div 2 + 1][1] = theYuv(x)
      BY <2>2, <3>1
    <3>3. pixels[x + 1] = round[x \div 2 + 1][1]
      BY <1>7, <2>3
    <3> QED
      BY <3>2, <3>3
  <2>4. CASE x % 2 = 1
    <3>1. start + 2 * (x \div 2) + 1 = start + x
      BY <1>1, <1>2, <2>4
    <3>2. round[x \div 2 + 1][2] = theYuv(x)
      BY <2>2, <3>1
    <3>3. pixels[x + 1] = round[x \div 2 + 1][2]
      BY <1>7, <2>4
    <3> QED
      BY <3>2, <3>3
  <2> QED
    BY <2>1, <2>3, <2>4
<1>9. ASSUME NEW x \in 0 .. 2 * n - 1
      PROVE  /\ \A d \in 1 .. 3 : pixels[x + 1][d] \subseteq ReadableOf(j)
             /\ ~Skewed(j) => RightPixel(j, pixels[x + 1], x, y)
  <2> DEFINE a == start + x
             u == area + c + x \div 2 + q
             v == area + c + x \div 2
  <2>1. /\ a \in DOMAIN bytes /\ u \in DOMAIN bytes /\ v \in DOMAIN bytes
        /\ ~Skewed(j) => SampleAt(j, x, y) = a
    <3>1. x \in 0 .. j.w - 1
      BY <1>1
    <3> QED
      BY <1>3, <3>1, Planes DEF n, area, start, c, q
  <2>2. MiscolouredPixel(j, x, y) = Yuv(SampleAt(j, x, y), u, v)
    BY DEF MiscolouredPixel, Quad, Plane, n, area, c, q
  <2>3. pixels[x + 1] = Yuv(a, u, v)
    BY <1>8
  <2> HIDE DEF a, u, v
  <2>4. bytes[a] = a /\ bytes[u] = u /\ bytes[v] = v
    BY <1>3, <2>1
  <2>5. /\ \A d \in 1 .. 3 : Yuv(a, u, v)[d] \subseteq DOMAIN bytes
        /\ InFrame(bytes, Yuv(a, u, v)) = Yuv(a, u, v)
    BY <2>1, <2>4, YuvMoved
  <2> QED
    BY <1>4, <2>1, <2>2, <2>3, <2>5 DEF RightPixel
<1>10. \A i \in 1 .. 2 * n, d \in 1 .. 3 : pixels[i][d] \subseteq ReadableOf(j)
  <2>1. \A i \in 1 .. 2 * n : i - 1 \in 0 .. 2 * n - 1 /\ (i - 1) + 1 = i
    BY <1>1
  <2> QED
    BY <1>9, <2>1
<1>11. GoodLine(j, y, pixels)
  <2>1. 2 * n \in 0 .. j.w
    BY <1>1
  <2> QED
    BY <1>1, <1>7, <1>9, <1>10, <2>1, GoodLineIntro
<1> QED
  BY <1>11 DEF pixels

-----------------------------------------------------------------------------
(* Bayer filters: what the lines consist of.                               *)

(* A line of w pixels that begins with start + 1 of them, goes on two by   *)
(* two, and ends with the one or two that are left.                        *)
LEMMA RoundsOfLine ==
  ASSUME NEW w \in Nat, w >= 3, NEW start \in {0, 1}
  PROVE  LET rounds == Rounds(w - 1 - start)
         IN  /\ rounds \in Nat
             /\ w - 1 - start - 2 * rounds \in {1, 2}
BY DEF Rounds

PartsOf(w, start, rounds, left, first, round, last, f) ==
  /\ start \in {0, 1} /\ rounds \in Nat /\ left \in {1, 2}
  /\ w \in Nat /\ w = start + 1 + 2 * rounds + left
  /\ LET S == {f[x] : x \in 0 .. w - 1}
     IN first \in Seq(S) /\ InPairs(rounds, round) \in Seq(S) /\ last \in Seq(S)
  /\ Len(first) = start + 1 /\ Len(last) = left
  /\ \A x \in 0 .. start : first[x + 1] = f[x]
  /\ \A i \in 1 .. rounds : /\ round[i][1] = f[start + 2 * i - 1]
                            /\ round[i][2] = f[start + 2 * i]
  /\ \A k \in 1 .. left : last[k] = f[start + 2 * rounds + k]

IsLineOf(s, w, f) == /\ Len(s) = w /\ DOMAIN s = 1 .. w
                     /\ \A x \in 0 .. w - 1 : s[x + 1] = f[x]

LEMMA LineOfParts ==
  ASSUME NEW w, NEW start, NEW rounds, NEW left, NEW first, NEW last, NEW round, NEW f,
         PartsOf(w, start, rounds, left, first, round, last, f)
  PROVE  IsLineOf(first \o InPairs(rounds, round) \o last, w, f)
<1> DEFINE S == {f[x] : x \in 0 .. w - 1}
           middle == InPairs(rounds, round)
           half == first \o middle
           s == half \o last
           m == 2 * rounds
           n == start + 1
<1>0. /\ start \in {0, 1} /\ rounds \in Nat /\ left \in {1, 2}
      /\ w \in Nat /\ w = start + 1 + 2 * rounds + left
      /\ first \in Seq(S) /\ middle \in Seq(S) /\ last \in Seq(S)
      /\ Len(first) = start + 1 /\ Len(last) = left
      /\ \A x \in 0 .. start : first[x + 1] = f[x]
      /\ \A i \in 1 .. rounds : /\ round[i][1] = f[start + 2 * i - 1]
                                /\ round[i][2] = f[start + 2 * i]
      /\ \A k \in 1 .. left : last[k] = f[start + 2 * rounds + k]
  BY DEF PartsOf
<1> HIDE DEF S
<1>01. start \in {0, 1} /\ rounds \in Nat /\ left \in {1, 2} /\ w \in Nat /\ w = start + 1 + 2 * rounds + left
  BY ONLY <1>0
<1>02. first \in Seq(S) /\ middle \in Seq(S) /\ last \in Seq(S)
  BY ONLY <1>0
<1>03. Len(first) = start + 1 /\ Len(last) = left
  BY ONLY <1>0
<1>04. /\ \A x \in 0 .. start : first[x + 1] = f[x]
       /\ \A i \in 1 .. rounds : /\ round[i][1] = f[start + 2 * i - 1]
                                 /\ round[i][2] = f[start + 2 * i]
       /\ \A k \in 1 .. left : last[k] = f[start + 2 * rounds + k]
  BY ONLY <1>0
<1>1. /\ Len(middle) = m
      /\ \A x \in 0 .. m - 1 : /\ x \div 2 \in 0 .. rounds - 1
                               /\ x % 2 = 0 => middle[x + 1] = round[x \div 2 + 1][1]
                               /\ x % 2 = 1 => middle[x + 1] = round[x \div 2 + 1][2]
  BY ONLY <1>01, PixelsInPairs
<1>2. n \in Nat /\ start \in Nat /\ m \in Nat /\ m = 2 * rounds /\ left \in Nat /\ w = n + m + left /\ n = start + 1
  BY ONLY <1>01
<1>3. Len(first) = n /\ Len(last) = left
  BY ONLY <1>03
<1> HIDE DEF middle, m, n
<1>4. /\ half \in Seq(S) /\ Len(half) = n + m
      /\ \A i \in 1 .. n + m : half[i] = IF i <= n THEN first[i] ELSE middle[i - n]
  <2>1. /\ half \in Seq(S) /\ Len(half) = Len(first) + Len(middle)
        /\ \A i \in 1 .. Len(first) + Len(middle) :
             half[i] = IF i <= Len(first) THEN first[i] ELSE middle[i - Len(first)]
    BY ONLY <1>02, ConcatProperties DEF half
  <2> HIDE DEF half
  <2> QED
    BY <1>1, <1>3, <2>1
<1> HIDE DEF half
<1>5. /\ s \in Seq(S) /\ Len(s) = w
      /\ \A i \in 1 .. w : s[i] = IF i <= n + m THEN half[i] ELSE last[i - (n + m)]
  <2>1. /\ s \in Seq(S) /\ Len(s) = Len(half) + Len(last)
        /\ \A i \in 1 .. Len(half) + Len(last) :
             s[i] = IF i <= Len(half) THEN half[i] ELSE last[i - Len(half)]
    BY ONLY <1>02, <1>4, ConcatProperties DEF s
  <2> HIDE DEF s
  <2> QED
    BY <1>2, <1>3, <1>4, <2>1
<1> HIDE DEF s
<1>6. ASSUME NEW x \in 0 .. w - 1 PROVE s[x + 1] = f[x]
  <2>0. x \in Nat /\ x + 1 \in 1 .. w
    BY ONLY <1>01, x \in 0 .. w - 1
  <2>1. CASE x <= start
    <3>1. x \in 0 .. start /\ x + 1 \in 1 .. n + m /\ x + 1 <= n
      BY ONLY <1>2, <2>0, <2>1
    <3>2. s[x + 1] = first[x + 1]
      <4>1. s[x + 1] = half[x + 1]
        BY ONLY <1>2, <1>5, <2>0, <3>1
      <4>2. half[x + 1] = first[x + 1]
        BY ONLY <1>2, <1>4, <2>0, <3>1
      <4> QED
        BY ONLY <4>1, <4>2
    <3> QED
      BY <1>04, <3>1, <3>2
  <2>2. CASE x > start /\ x <= start + m
    <3> DEFINE k == x - n
               i == k \div 2 + 1
    <3>1. k \in 0 .. m - 1 /\ x + 1 \in 1 .. n + m /\ ~(x + 1 <= n) /\ (x + 1) - n = k + 1
      BY ONLY <1>2, <2>0, <2>2
    <3>2. s[x + 1] = middle[k + 1]
      <4> HIDE DEF k
      <4>1. s[x + 1] = half[x + 1]
        <5>1. x + 1 \in 1 .. w /\ x + 1 <= n + m
          BY ONLY <1>2, <2>0, <3>1
        <5> QED
          BY ONLY <1>5, <5>1
      <4> QED
        BY ONLY <1>2, <1>4, <3>1, <4>1
    <3>3. x = n + k
      BY <1>2, <2>0
    <3> HIDE DEF k
    <3>4. /\ i \in 1 .. rounds
          /\ k % 2 = 0 => x = start + 2 * i - 1
          /\ k % 2 = 1 => x = start + 2 * i
          /\ k % 2 = 0 \/ k % 2 = 1
      BY ONLY <1>01, <1>2, <3>1, <3>3
    <3>5. /\ k % 2 = 0 => middle[k + 1] = round[i][1]
          /\ k % 2 = 1 => middle[k + 1] = round[i][2]
      BY <1>1, <3>1
    <3> HIDE DEF i
    <3>6. round[i][1] = f[start + 2 * i - 1] /\ round[i][2] = f[start + 2 * i]
      BY <1>04, <3>4
    <3> QED
      BY <3>2, <3>4, <3>5, <3>6
  <2>3. CASE x > start + m
    <3> DEFINE k == x - (start + m)
    <3>1. /\ k \in 1 .. left /\ x = start + 2 * rounds + k
          /\ ~(x + 1 <= n + m) /\ (x + 1) - (n + m) = k
      BY <1>2, <2>0, <2>3
    <3> HIDE DEF k
    <3>2. s[x + 1] = last[k]
      BY <1>5, <2>0, <3>1
    <3> QED
      BY <1>04, <3>1, <3>2
  <2>4. x <= start \/ (x > start /\ x <= start + m) \/ x > start + m
    BY ONLY <1>2, <2>0
  <2> QED
    BY <2>1, <2>2, <2>3, <2>4
<1>7. DOMAIN s = 1 .. w
  BY <1>5, LenProperties
<1> QED
  BY <1>5, <1>6, <1>7 DEF IsLineOf, s, half, middle

(* The neighbours of offset o in its line; x is its column.                *)
Beside(j, x, o) ==
  (IF x > 0 THEN {o - 1} ELSE {}) \cup (IF x < j.w - 1 THEN {o + 1} ELSE {})
IsGreen(j, y, x) == StartsGreen(j, y) = (x % 2 = 0)

(* Pixel x of a border line, and of a line after line y.                   *)
BorderPixel(j, y, p, q, x) ==
  IF IsGreen(j, y, x)
  THEN Ordered(j, y, Beside(j, x, p + x), {p + x}, {q + x})
  ELSE Ordered(j, y, {p + x}, Beside(j, x, p + x) \cup {q + x}, Beside(j, x, q + x))
MiddlePixel(j, y, p, x) ==
  LET o == p + j.w + x
      above == p + x
      below == p + 2 * j.w + x
  IN IF IsGreen(j, y, x)
     THEN Ordered(j, y, Beside(j, x, above) \cup Beside(j, x, below),
                  Beside(j, x, o) \cup {above, below}, {o})
     ELSE Ordered(j, y, {above, below}, {o}, Beside(j, x, o))

LEMMA BesideIs ==
  ASSUME NEW j, j.w \in Nat, j.w >= 3, NEW x \in 0 .. j.w - 1, NEW o \in Int
  PROVE  /\ x = 0 => Beside(j, x, o) = {o + 1}
         /\ 0 < x /\ x < j.w - 1 => Beside(j, x, o) = {o - 1, o + 1}
         /\ x = j.w - 1 => Beside(j, x, o) = {o - 1}
<1>1. x = 0 => x < j.w - 1 /\ ~(x > 0)
  OBVIOUS
<1>2. x = j.w - 1 => ~(x < j.w - 1) /\ x > 0
  OBVIOUS
<1>3. ASSUME x = 0 PROVE Beside(j, x, o) = {o + 1}
  BY <1>1, <1>3 DEF Beside
<1>4. ASSUME 0 < x, x < j.w - 1 PROVE Beside(j, x, o) = {o - 1, o + 1}
  BY <1>4 DEF Beside
<1>5. ASSUME x = j.w - 1 PROVE Beside(j, x, o) = {o - 1}
  BY <1>2, <1>5 DEF Beside
<1> QED
  BY <1>3, <1>4, <1>5

LEMMA PairsAreSequence ==
  ASSUME NEW S, NEW n \in Nat, NEW round,
         \A i \in 1 .. n : round[i][1] \in S /\ round[i][2] \in S
  PROVE  InPairs(n, round) \in Seq(S)
<1>1. \A k \in 1 .. 2 * n : (k + 1) \div 2 \in 1 .. n /\ 2 - (k % 2) \in {1, 2}
  OBVIOUS
<1>2. \A k \in 1 .. 2 * n : round[(k + 1) \div 2][2 - (k % 2)] \in S
  BY <1>1
<1>3. InPairs(n, round) \in [1 .. 2 * n -> S] /\ 2 * n \in Nat
  BY <1>2 DEF InPairs
<1> QED
  BY <1>3, SeqDef

(* The pixels of a border line; o and n are the offsets of the pixel and   *)
(* of the one next to it.                                                  *)
BorderShape(j, y, pixel, x, o, n) ==
  LET px(a, g, c) == Ordered(j, y, a, g, c)
  IN  /\ IsGreen(j, y, x) =>
           /\ x = 0 => pixel = px({o + 1}, {o}, {n})
           /\ 0 < x /\ x < j.w - 1 => pixel = px({o - 1, o + 1}, {o}, {n})
           /\ x = j.w - 1 => pixel = px({o - 1}, {o}, {n})
      /\ ~IsGreen(j, y, x) =>
           /\ x = 0 => pixel = px({o}, {o + 1, n}, {n + 1})
           /\ 0 < x /\ x < j.w - 1 => pixel = px({o}, {o - 1, o + 1, n}, {n - 1, n + 1})
           /\ x = j.w - 1 => pixel = px({o}, {o - 1, n}, {n - 1})

LEMMA BorderPixelIs ==
  ASSUME NEW j, j.w \in Nat, j.w >= 3, NEW y, NEW p \in Int, NEW q \in Int, NEW x \in 0 .. j.w - 1
  PROVE  BorderShape(j, y, BorderPixel(j, y, p, q, x), x, p + x, q + x)
<1> DEFINE o == p + x
           n == q + x
           pixel == BorderPixel(j, y, p, q, x)
           px(a, g, c) == Ordered(j, y, a, g, c)
<1>0. o \in Int /\ n \in Int
  OBVIOUS
<1>1. /\ x = 0 => Beside(j, x, o) = {o + 1} /\ Beside(j, x, n) = {n + 1}
      /\ 0 < x /\ x < j.w - 1 => Beside(j, x, o) = {o - 1, o + 1} /\ Beside(j, x, n) = {n - 1, n + 1}
      /\ x = j.w - 1 => Beside(j, x, o) = {o - 1} /\ Beside(j, x, n) = {n - 1}
  <2> HIDE DEF o, n
  <2> QED
    BY <1>0, BesideIs
<1>2. /\ x = 0 => Beside(j, x, o) \cup {n} = {o + 1, n}
      /\ 0 < x /\ x < j.w - 1 => Beside(j, x, o) \cup {n} = {o - 1, o + 1, n}
      /\ x = j.w - 1 => Beside(j, x, o) \cup {n} = {o - 1, n}
  <2>1. /\ {o + 1} \cup {n} = {o + 1, n} /\ {o - 1, o + 1} \cup {n} = {o - 1, o + 1, n}
        /\ {o - 1} \cup {n} = {o - 1, n}
    OBVIOUS
  <2> QED
    BY ONLY <1>1, <2>1
<1>3. /\ IsGreen(j, y, x) => pixel = px(Beside(j, x, o), {o}, {n})
      /\ ~IsGreen(j, y, x) => pixel = px({o}, Beside(j, x, o) \cup {n}, Beside(j, x, n))
  BY DEF BorderPixel
<1> HIDE DEF pixel, px, o, n
<1>4. ASSUME IsGreen(j, y, x)
      PROVE  /\ x = 0 => pixel = px({o + 1}, {o}, {n})
             /\ 0 < x /\ x < j.w - 1 => pixel = px({o - 1, o + 1}, {o}, {n})
             /\ x = j.w - 1 => pixel = px({o - 1}, {o}, {n})
  BY ONLY <1>1, <1>3, <1>4
<1>5. ASSUME ~IsGreen(j, y, x)
      PROVE  /\ x = 0 => pixel = px({o}, {o + 1, n}, {n + 1})
             /\ 0 < x /\ x < j.w - 1 => pixel = px({o}, {o - 1, o + 1, n}, {n - 1, n + 1})
             /\ x = j.w - 1 => pixel = px({o}, {o - 1, n}, {n - 1})
  <2>1. pixel = px({o}, Beside(j, x, o) \cup {n}, Beside(j, x, n))
    BY ONLY <1>3, <1>5
  <2>2. x = 0 => pixel = px({o}, {o + 1, n}, {n + 1})
    BY ONLY <1>1, <1>2, <2>1
  <2>3. 0 < x /\ x < j.w - 1 => pixel = px({o}, {o - 1, o + 1, n}, {n - 1, n + 1})
    BY ONLY <1>1, <1>2, <2>1
  <2>4. x = j.w - 1 => pixel = px({o}, {o - 1, n}, {n - 1})
    BY ONLY <1>1, <1>2, <2>1
  <2> QED
    BY ONLY <2>2, <2>3, <2>4
<1> QED
  BY ONLY <1>4, <1>5 DEF BorderShape, pixel, px, o, n

(* Which of the places of a line are green: the first of each pair.        *)
Opens(start, x) == (x + start) % 2 = 1

LEMMA GreenPlaces ==
  ASSUME NEW j, NEW y, NEW start, start = IF StartsGreen(j, y) THEN 1 ELSE 0
  PROVE  /\ start \in {0, 1} /\ (StartsGreen(j, y) <=> start = 1)
         /\ start = 1 => IsGreen(j, y, 0) /\ ~IsGreen(j, y, 1)
         /\ start = 0 => ~IsGreen(j, y, 0)
         /\ \A x \in Nat : Opens(start, x) => IsGreen(j, y, x) /\ ~IsGreen(j, y, x + 1)
<1>1. StartsGreen(j, y) \in BOOLEAN
  BY DEF StartsGreen
<1>2. 0 % 2 = 0 /\ 1 % 2 = 1
  OBVIOUS
<1>3. /\ \A x \in Nat : (x + 1) % 2 = 1 => x % 2 = 0 /\ (x + 1) % 2 # 0
      /\ \A x \in Nat : (x + 0) % 2 = 1 => x % 2 # 0 /\ (x + 1) % 2 = 0
  OBVIOUS
<1>4. CASE start = 1
  BY <1>1, <1>2, <1>3, <1>4 DEF IsGreen, Opens
<1>5. CASE start = 0
  BY <1>1, <1>2, <1>3, <1>5 DEF IsGreen, Opens
<1> QED
  BY <1>1, <1>4, <1>5

(* Where the parts of a line are.                                          *)
PartPlaces(w, start, rounds, left) ==
  /\ rounds \in Nat /\ left \in {1, 2} /\ w = start + 1 + 2 * rounds + left
  /\ \A i \in 1 .. rounds :
       LET x == start + 2 * i - 1
       IN  /\ x \in 0 .. w - 1 /\ x + 1 \in 0 .. w - 1 /\ start + 2 * i = x + 1
           /\ 0 < x /\ x < w - 1 /\ 0 < x + 1 /\ x + 1 < w - 1 /\ Opens(start, x)
  /\ LET x == start + 2 * rounds + 1
     IN  /\ x \in 0 .. w - 1 /\ 0 < x /\ Opens(start, x)
         /\ left = 1 => x = w - 1
         /\ left = 2 => x < w - 1 /\ x + 1 \in 0 .. w - 1 /\ x + 1 = w - 1

LEMMA PlacesOfParts ==
  ASSUME NEW w \in Nat, w >= 3, NEW start \in {0, 1}
  PROVE  PartPlaces(w, start, Rounds(w - 1 - start), w - 1 - start - 2 * Rounds(w - 1 - start))
<1> DEFINE rounds == Rounds(w - 1 - start)
           left == w - 1 - start - 2 * rounds
<1>1. rounds \in Nat /\ left \in {1, 2}
  BY RoundsOfLine
<1>2. w = start + 1 + 2 * rounds + left
  BY <1>1
<1> HIDE DEF rounds, left
<1>3. ASSUME NEW i \in 1 .. rounds
      PROVE  LET x == start + 2 * i - 1
             IN  /\ x \in 0 .. w - 1 /\ x + 1 \in 0 .. w - 1 /\ start + 2 * i = x + 1
                 /\ 0 < x /\ x < w - 1 /\ 0 < x + 1 /\ x + 1 < w - 1 /\ Opens(start, x)
  BY ONLY <1>1, <1>2, w \in Nat, start \in {0, 1}, i \in 1 .. rounds DEF Opens
<1>4. LET x == start + 2 * rounds + 1
      IN  /\ x \in 0 .. w - 1 /\ 0 < x /\ Opens(start, x)
          /\ left = 1 => x = w - 1
          /\ left = 2 => x < w - 1 /\ x + 1 \in 0 .. w - 1 /\ x + 1 = w - 1
  BY ONLY <1>1, <1>2, w \in Nat, start \in {0, 1} DEF Opens
<1>5. PartPlaces(w, start, rounds, left)
  BY ONLY <1>1, <1>2, <1>3, <1>4 DEF PartPlaces
<1> QED
  BY <1>5 DEF rounds, left

(* The parts of a line, each made from the pixels f.                       *)
MadeFrom(f, w, start, rounds, left, first, all, last) ==
  /\ w \in Nat /\ start \in {0, 1} /\ rounds \in Nat /\ left \in {1, 2}
  /\ w = start + 1 + 2 * rounds + left
  /\ start = 1 => first = <<f[0], f[1]>>
  /\ start = 0 => first = <<f[0]>>
  /\ \A i \in 1 .. rounds : all[i] = <<f[start + 2 * i - 1], f[start + 2 * i]>>
  /\ left = 1 => last = <<f[start + 2 * rounds + 1]>>
  /\ left = 2 => last = <<f[start + 2 * rounds + 1], f[start + 2 * rounds + 2]>>

LEMMA LineFromParts ==
  ASSUME NEW w, NEW start, NEW rounds, NEW left, NEW first, NEW last, NEW all, NEW f,
         MadeFrom(f, w, start, rounds, left, first, all, last)
  PROVE  IsLineOf(first \o InPairs(rounds, all) \o last, w, f)
<1>01. /\ w \in Nat /\ start \in {0, 1} /\ rounds \in Nat /\ left \in {1, 2}
       /\ w = start + 1 + 2 * rounds + left
  BY DEF MadeFrom
<1>02. /\ start = 1 => first = <<f[0], f[1]>>
       /\ start = 0 => first = <<f[0]>>
  BY DEF MadeFrom
<1>03. \A i \in 1 .. rounds : all[i] = <<f[start + 2 * i - 1], f[start + 2 * i]>>
  BY DEF MadeFrom
<1>04. /\ left = 1 => last = <<f[start + 2 * rounds + 1]>>
       /\ left = 2 => last = <<f[start + 2 * rounds + 1], f[start + 2 * rounds + 2]>>
  BY DEF MadeFrom
<1> DEFINE S == {f[x] : x \in 0 .. w - 1}
<1>1. \A x \in 0 .. w - 1 : f[x] \in S
  OBVIOUS
<1>2. /\ 0 \in 0 .. w - 1 /\ (start = 1 => 1 \in 0 .. w - 1)
      /\ \A i \in 1 .. rounds : start + 2 * i - 1 \in 0 .. w - 1 /\ start + 2 * i \in 0 .. w - 1
      /\ start + 2 * rounds + 1 \in 0 .. w - 1
      /\ left = 2 => start + 2 * rounds + 2 \in 0 .. w - 1
  BY <1>01
<1> HIDE DEF S
<1>3. /\ first \in Seq(S) /\ Len(first) = start + 1 /\ \A x \in 0 .. start : first[x + 1] = f[x]
  <2>1. CASE start = 0
    <3>1. first = <<f[0]>> /\ f[0] \in S /\ \A x \in 0 .. start : x = 0
      BY <1>02, <1>1, <1>2, <2>1
    <3> QED
      BY ONLY <2>1, <3>1
  <2>2. CASE start = 1
    <3>1. first = <<f[0], f[1]>> /\ f[0] \in S /\ f[1] \in S /\ \A x \in 0 .. start : x = 0 \/ x = 1
      BY <1>02, <1>1, <1>2, <2>2
    <3> QED
      BY ONLY <2>2, <3>1
  <2> QED
    BY <1>01, <2>1, <2>2
<1>4. /\ last \in Seq(S) /\ Len(last) = left
      /\ \A k \in 1 .. left : last[k] = f[start + 2 * rounds + k]
  <2>1. CASE left = 1
    <3>1. /\ last = <<f[start + 2 * rounds + 1]>> /\ f[start + 2 * rounds + 1] \in S
          /\ \A k \in 1 .. left : k = 1
      BY <1>04, <1>1, <1>2, <2>1
    <3> QED
      BY ONLY <2>1, <3>1
  <2>2. CASE left = 2
    <3>1. /\ last = <<f[start + 2 * rounds + 1], f[start + 2 * rounds + 2]>>
          /\ f[start + 2 * rounds + 1] \in S /\ f[start + 2 * rounds + 2] \in S
          /\ \A k \in 1 .. left : k = 1 \/ k = 2
      BY <1>04, <1>1, <1>2, <2>2
    <3> QED
      BY ONLY <2>2, <3>1
  <2> QED
    BY <1>01, <2>1, <2>2
<1>5. \A i \in 1 .. rounds : /\ all[i][1] = f[start + 2 * i - 1] /\ all[i][1] \in S
                             /\ all[i][2] = f[start + 2 * i] /\ all[i][2] \in S
  BY <1>03, <1>1, <1>2
<1>6. InPairs(rounds, all) \in Seq(S)
  BY ONLY <1>01, <1>5, PairsAreSequence
<1>7. PartsOf(w, start, rounds, left, first, all, last, f)
  BY ONLY <1>01, <1>3, <1>4, <1>5, <1>6 DEF PartsOf, S
<1> QED
  BY ONLY <1>7, LineOfParts

LEMMA BorderLineIs ==
  ASSUME NEW j, j.w \in Nat, j.w >= 3, NEW y, NEW p \in Nat, NEW q \in Nat
  PROVE  IsLineOf(BorderLine(j, y, p, q), j.w, [x \in 0 .. j.w - 1 |-> BorderPixel(j, y, p, q, x)])
<1> DEFINE w == j.w
           px(a, g, c) == Ordered(j, y, a, g, c)
           green == StartsGreen(j, y)
           first == IF green
                    THEN << px({p + 1}, {p}, {q}), px({p + 1}, {p, p + 2, q + 1}, {q, q + 2}) >>
                    ELSE << px({p}, {p + 1, q}, {q + 1}) >>
           start == IF green THEN 1 ELSE 0
           width == w - 1 - start
           rounds == Rounds(width)
           round(i) ==
             LET b == p + start + 2 * (i - 1)
                 a == q + start + 2 * (i - 1)
             IN << px({b, b + 2}, {b + 1}, {a + 1}),
                   px({b + 2}, {b + 1, b + 3, a + 2}, {a + 1, a + 3}) >>
           b == p + start + 2 * rounds
           a == q + start + 2 * rounds
           last == IF width - 2 * rounds = 2
                   THEN << px({b, b + 2}, {b + 1}, {a + 1}),
                           px({b + 2}, {b + 1, a + 2}, {a + 1}) >>
                   ELSE << px({b}, {b + 1}, {a + 1}) >>
           all == [i \in 1 .. rounds |-> round(i)]
           f == [x \in 0 .. w - 1 |-> BorderPixel(j, y, p, q, x)]
           left == width - 2 * rounds
<1>1. BorderLine(j, y, p, q) = first \o InPairs(rounds, all) \o last
  BY DEF BorderLine
<1>2. /\ start \in {0, 1} /\ (green <=> start = 1)
      /\ start = 1 => IsGreen(j, y, 0) /\ ~IsGreen(j, y, 1)
      /\ start = 0 => ~IsGreen(j, y, 0)
      /\ \A x \in Nat : Opens(start, x) => IsGreen(j, y, x) /\ ~IsGreen(j, y, x + 1)
  BY GreenPlaces
<1>3. w \in Nat /\ w >= 3
  OBVIOUS
<1>4. PartPlaces(w, start, rounds, left)
  <2> HIDE DEF w, start
  <2> QED
    BY ONLY <1>2, <1>3, PlacesOfParts
<1>5. \A x \in 0 .. w - 1 : BorderShape(j, y, f[x], x, p + x, q + x)
  <2>1. p \in Int /\ q \in Int
    OBVIOUS
  <2>2. \A x \in 0 .. w - 1 : BorderShape(j, y, BorderPixel(j, y, p, q, x), x, p + x, q + x)
    BY ONLY <1>3, <2>1, BorderPixelIs
  <2> QED
    BY <2>2
<1> HIDE DEF start, width, rounds, f
<1>6. start = 1 => first = <<f[0], f[1]>>
  <2> SUFFICES ASSUME start = 1 PROVE first = <<f[0], f[1]>>
    OBVIOUS
  <2>1. /\ 0 \in 0 .. w - 1 /\ p = p + 0 /\ q = q + 0 /\ p \in Int /\ q \in Int
        /\ 1 \in 0 .. w - 1 /\ p + 1 \in Int /\ q + 1 \in Int /\ 0 < 1 /\ 1 < w - 1
        /\ (p + 1) - 1 = p /\ (p + 1) + 1 = p + 2 /\ (q + 1) - 1 = q /\ (q + 1) + 1 = q + 2
    BY <1>3
  <2>2. f[0] = px({p + 1}, {p}, {q})
    <3>1. IsGreen(j, y, 0) /\ BorderShape(j, y, f[0], 0, p, q)
      BY <1>2, <1>5, <2>1
    <3> QED
      BY ONLY <3>1 DEF BorderShape
  <2>3. f[1] = px({p + 1}, {(p + 1) - 1, (p + 1) + 1, q + 1}, {(q + 1) - 1, (q + 1) + 1})
    <3>1. ~IsGreen(j, y, 1) /\ BorderShape(j, y, f[1], 1, p + 1, q + 1)
      BY <1>2, <1>5, <2>1
    <3> QED
      BY ONLY <2>1, <3>1 DEF BorderShape
  <2>4. first = << px({p + 1}, {p}, {q}), px({p + 1}, {p, p + 2, q + 1}, {q, q + 2}) >>
    BY <1>2
  <2> HIDE DEF first, px
  <2>5. f[1] = px({p + 1}, {p, p + 2, q + 1}, {q, q + 2})
    BY ONLY <2>1, <2>3
  <2> QED
    BY ONLY <2>2, <2>4, <2>5
<1>7. start = 0 => first = <<f[0]>>
  <2> SUFFICES ASSUME start = 0 PROVE first = <<f[0]>>
    OBVIOUS
  <2>1. 0 \in 0 .. w - 1 /\ p = p + 0 /\ q = q + 0 /\ p \in Int /\ q \in Int
    BY <1>3
  <2>2. f[0] = px({p}, {p + 1, q}, {q + 1})
    <3>1. ~IsGreen(j, y, 0) /\ BorderShape(j, y, f[0], 0, p, q)
      BY <1>2, <1>5, <2>1
    <3> QED
      BY ONLY <3>1 DEF BorderShape
  <2>3. first = << px({p}, {p + 1, q}, {q + 1}) >>
    BY <1>2
  <2> QED
    BY ONLY <2>2, <2>3
<1>8. ASSUME NEW x \in 0 .. w - 1, Opens(start, x), 0 < x
      PROVE  LET o == p + x
                 n == q + x
             IN  /\ x < w - 1 => f[x] = px({o - 1, (o - 1) + 2}, {(o - 1) + 1}, {(n - 1) + 1})
                 /\ x < w - 1 /\ x + 1 < w - 1 =>
                      f[x + 1] = px({(o - 1) + 2}, {(o - 1) + 1, (o - 1) + 3, (n - 1) + 2},
                                    {(n - 1) + 1, (n - 1) + 3})
                 /\ x = w - 1 => f[x] = px({o - 1}, {(o - 1) + 1}, {(n - 1) + 1})
                 /\ x + 1 = w - 1 =>
                      f[x + 1] = px({(o - 1) + 2}, {(o - 1) + 1, (n - 1) + 2}, {(n - 1) + 1})
  <2> DEFINE o == p + x
             n == q + x
  <2>1. /\ x \in Nat /\ o \in Int /\ n \in Int
        /\ p + (x + 1) = o + 1 /\ q + (x + 1) = n + 1 /\ 0 < x + 1
        /\ x < w - 1 => x + 1 \in 0 .. w - 1
        /\ x + 1 = w - 1 => x < w - 1
    BY <1>3, <1>8
  <2>2. IsGreen(j, y, x) /\ ~IsGreen(j, y, x + 1)
    BY <1>2, <1>8, <2>1
  <2>3. /\ BorderShape(j, y, f[x], x, o, n)
        /\ x + 1 \in 0 .. w - 1 => BorderShape(j, y, f[x + 1], x + 1, o + 1, n + 1)
    BY <1>5, <2>1
  <2>4. /\ x < w - 1 => f[x] = px({o - 1, o + 1}, {o}, {n})
        /\ x = w - 1 => f[x] = px({o - 1}, {o}, {n})
    BY ONLY <1>8, <2>2, <2>3 DEF BorderShape
  <2>5. /\ x < w - 1 /\ x + 1 < w - 1 =>
             f[x + 1] = px({o + 1}, {(o + 1) - 1, (o + 1) + 1, n + 1}, {(n + 1) - 1, (n + 1) + 1})
        /\ x + 1 = w - 1 => f[x + 1] = px({o + 1}, {(o + 1) - 1, n + 1}, {(n + 1) - 1})
    BY ONLY <2>1, <2>2, <2>3 DEF BorderShape
  <2>6. /\ (o - 1) + 2 = o + 1 /\ (o - 1) + 1 = o /\ (n - 1) + 1 = n /\ (o - 1) + 3 = (o + 1) + 1
        /\ (n - 1) + 2 = n + 1 /\ (n - 1) + 3 = (n + 1) + 1 /\ (o + 1) - 1 = o /\ (n + 1) - 1 = n
    BY ONLY <2>1
  <2> HIDE DEF px, o, n
  <2>7. /\ x < w - 1 => f[x] = px({o - 1, (o - 1) + 2}, {(o - 1) + 1}, {(n - 1) + 1})
        /\ x = w - 1 => f[x] = px({o - 1}, {(o - 1) + 1}, {(n - 1) + 1})
    BY ONLY <2>4, <2>6
  <2>8. /\ x < w - 1 /\ x + 1 < w - 1 =>
             f[x + 1] = px({(o - 1) + 2}, {(o - 1) + 1, (o - 1) + 3, (n - 1) + 2},
                           {(n - 1) + 1, (n - 1) + 3})
        /\ x + 1 = w - 1 => f[x + 1] = px({(o - 1) + 2}, {(o - 1) + 1, (n - 1) + 2}, {(n - 1) + 1})
    BY ONLY <2>5, <2>6
  <2> QED
    BY ONLY <2>1, <2>7, <2>8 DEF o, n
<1>9. \A i \in 1 .. rounds : all[i] = <<f[start + 2 * i - 1], f[start + 2 * i]>>
  <2> SUFFICES ASSUME NEW i \in 1 .. rounds PROVE all[i] = <<f[start + 2 * i - 1], f[start + 2 * i]>>
    OBVIOUS
  <2> DEFINE x == start + 2 * i - 1
             o == p + x
             n == q + x
  <2>1. /\ x \in 0 .. w - 1 /\ start + 2 * i = x + 1 /\ 0 < x /\ x < w - 1 /\ x + 1 < w - 1
        /\ Opens(start, x)
    BY ONLY <1>4, i \in 1 .. rounds DEF PartPlaces
  <2>2. p + start + 2 * (i - 1) = o - 1 /\ q + start + 2 * (i - 1) = n - 1
    BY <1>2, <1>4 DEF PartPlaces
  <2>3. all[i] = << px({o - 1, (o - 1) + 2}, {(o - 1) + 1}, {(n - 1) + 1}),
                    px({(o - 1) + 2}, {(o - 1) + 1, (o - 1) + 3, (n - 1) + 2},
                       {(n - 1) + 1, (n - 1) + 3}) >>
    BY <2>2
  <2> HIDE DEF x, all, px
  <2>5. f[x] = px({o - 1, (o - 1) + 2}, {(o - 1) + 1}, {(n - 1) + 1})
    BY ONLY <1>8, <2>1
  <2>6. f[x + 1] = px({(o - 1) + 2}, {(o - 1) + 1, (o - 1) + 3, (n - 1) + 2},
                      {(n - 1) + 1, (n - 1) + 3})
    BY ONLY <1>8, <2>1
  <2>7. all[i] = <<f[x], f[x + 1]>>
    BY ONLY <2>3, <2>5, <2>6
  <2> QED
    BY ONLY <2>1, <2>7 DEF x
<1>10. /\ left = 1 => last = <<f[start + 2 * rounds + 1]>>
       /\ left = 2 => last = <<f[start + 2 * rounds + 1], f[start + 2 * rounds + 2]>>
  <2> DEFINE x == start + 2 * rounds + 1
             o == p + x
             n == q + x
  <2>1. /\ x \in 0 .. w - 1 /\ 0 < x /\ Opens(start, x)
        /\ left = 1 => x = w - 1
        /\ left = 2 => x < w - 1 /\ x + 1 = w - 1
    BY ONLY <1>4 DEF PartPlaces
  <2>2. b = o - 1 /\ a = n - 1 /\ start + 2 * rounds + 2 = x + 1
    BY <1>2, <1>4 DEF PartPlaces
  <2>3. /\ left = 1 => last = << px({o - 1}, {(o - 1) + 1}, {(n - 1) + 1}) >>
        /\ left = 2 => last = << px({o - 1, (o - 1) + 2}, {(o - 1) + 1}, {(n - 1) + 1}),
                                 px({(o - 1) + 2}, {(o - 1) + 1, (n - 1) + 2}, {(n - 1) + 1}) >>
    <3>1. left = width - 2 * rounds
      OBVIOUS
    <3> HIDE DEF left, b, a, o, n
    <3>2. /\ left = 1 => last = << px({b}, {b + 1}, {a + 1}) >>
          /\ left = 2 => last = << px({b, b + 2}, {b + 1}, {a + 1}), px({b + 2}, {b + 1, a + 2}, {a + 1}) >>
      BY ONLY <3>1
    <3> QED
      BY ONLY <2>2, <3>2
  <2> HIDE DEF x, last, px, left
  <2>5. left = 1 => f[x] = px({o - 1}, {(o - 1) + 1}, {(n - 1) + 1})
    BY ONLY <1>8, <2>1
  <2>6. left = 2 => f[x] = px({o - 1, (o - 1) + 2}, {(o - 1) + 1}, {(n - 1) + 1})
    BY ONLY <1>8, <2>1
  <2>7. left = 2 => f[x + 1] = px({(o - 1) + 2}, {(o - 1) + 1, (n - 1) + 2}, {(n - 1) + 1})
    BY ONLY <1>8, <2>1
  <2>8. left = 1 => last = <<f[x]>>
    BY ONLY <2>3, <2>5
  <2>9. left = 2 => last = <<f[x], f[x + 1]>>
    BY ONLY <2>3, <2>6, <2>7
  <2> QED
    BY ONLY <2>2, <2>8, <2>9 DEF x
<1> HIDE DEF first, last, all, left
<1>11. IsLineOf(first \o InPairs(rounds, all) \o last, w, f)
  <2>1. MadeFrom(f, w, start, rounds, left, first, all, last)
    BY ONLY <1>2, <1>3, <1>4, <1>6, <1>7, <1>9, <1>10 DEF MadeFrom, PartPlaces
  <2> QED
    BY ONLY <2>1, LineFromParts
<1> QED
  BY ONLY <1>1, <1>11 DEF f, w

(* The pixels of a line after line y: u, o and d are the offsets of the    *)
(* pixel above, of the pixel and of the one below.                         *)
MiddleShape(j, y, pixel, x, u, o, d) ==
  LET px(a, g, c) == Ordered(j, y, a, g, c)
  IN  /\ IsGreen(j, y, x) =>
           /\ x = 0 => pixel = px({u + 1, d + 1}, {u, d, o + 1}, {o})
           /\ 0 < x /\ x < j.w - 1 =>
                pixel = px({u - 1, u + 1, d - 1, d + 1}, {u, o - 1, o + 1, d}, {o})
           /\ x = j.w - 1 => pixel = px({u - 1, d - 1}, {u, d, o - 1}, {o})
      /\ ~IsGreen(j, y, x) =>
           /\ x = 0 => pixel = px({u, d}, {o}, {o + 1})
           /\ 0 < x /\ x < j.w - 1 => pixel = px({u, d}, {o}, {o - 1, o + 1})
           /\ x = j.w - 1 => pixel = px({u, d}, {o}, {o - 1})

LEMMA MiddlePixelIs ==
  ASSUME NEW j, j.w \in Nat, j.w >= 3, NEW y, NEW p \in Int, NEW x \in 0 .. j.w - 1
  PROVE  MiddleShape(j, y, MiddlePixel(j, y, p, x), x, p + x, p + j.w + x, p + 2 * j.w + x)
<1> DEFINE u == p + x
           o == p + j.w + x
           d == p + 2 * j.w + x
           pixel == MiddlePixel(j, y, p, x)
           px(a, g, c) == Ordered(j, y, a, g, c)
<1>0. u \in Int /\ o \in Int /\ d \in Int
  OBVIOUS
<1>1. \A k \in Int : /\ x = 0 => Beside(j, x, k) = {k + 1}
                     /\ 0 < x /\ x < j.w - 1 => Beside(j, x, k) = {k - 1, k + 1}
                     /\ x = j.w - 1 => Beside(j, x, k) = {k - 1}
  BY BesideIs
<1>2. /\ IsGreen(j, y, x) =>
           pixel = px(Beside(j, x, u) \cup Beside(j, x, d), Beside(j, x, o) \cup {u, d}, {o})
      /\ ~IsGreen(j, y, x) => pixel = px({u, d}, {o}, Beside(j, x, o))
  BY DEF MiddlePixel
<1> HIDE DEF pixel, px, u, o, d
<1>3. x = 0 => /\ Beside(j, x, u) \cup Beside(j, x, d) = {u + 1, d + 1}
               /\ Beside(j, x, o) \cup {u, d} = {u, d, o + 1}
               /\ Beside(j, x, o) = {o + 1}
  <2>1. {u + 1} \cup {d + 1} = {u + 1, d + 1} /\ {o + 1} \cup {u, d} = {u, d, o + 1}
    OBVIOUS
  <2> QED
    BY ONLY <1>0, <1>1, <2>1
<1>4. 0 < x /\ x < j.w - 1 =>
        /\ Beside(j, x, u) \cup Beside(j, x, d) = {u - 1, u + 1, d - 1, d + 1}
        /\ Beside(j, x, o) \cup {u, d} = {u, o - 1, o + 1, d}
        /\ Beside(j, x, o) = {o - 1, o + 1}
  <2>1. /\ {u - 1, u + 1} \cup {d - 1, d + 1} = {u - 1, u + 1, d - 1, d + 1}
        /\ {o - 1, o + 1} \cup {u, d} = {u, o - 1, o + 1, d}
    OBVIOUS
  <2> QED
    BY ONLY <1>0, <1>1, <2>1
<1>5. x = j.w - 1 => /\ Beside(j, x, u) \cup Beside(j, x, d) = {u - 1, d - 1}
                     /\ Beside(j, x, o) \cup {u, d} = {u, d, o - 1}
                     /\ Beside(j, x, o) = {o - 1}
  <2>1. {u - 1} \cup {d - 1} = {u - 1, d - 1} /\ {o - 1} \cup {u, d} = {u, d, o - 1}
    OBVIOUS
  <2> QED
    BY ONLY <1>0, <1>1, <2>1
<1>6. ASSUME IsGreen(j, y, x)
      PROVE  /\ x = 0 => pixel = px({u + 1, d + 1}, {u, d, o + 1}, {o})
             /\ 0 < x /\ x < j.w - 1 =>
                  pixel = px({u - 1, u + 1, d - 1, d + 1}, {u, o - 1, o + 1, d}, {o})
             /\ x = j.w - 1 => pixel = px({u - 1, d - 1}, {u, d, o - 1}, {o})
  <2>1. pixel = px(Beside(j, x, u) \cup Beside(j, x, d), Beside(j, x, o) \cup {u, d}, {o})
    BY ONLY <1>2, <1>6
  <2>2. x = 0 => pixel = px({u + 1, d + 1}, {u, d, o + 1}, {o})
    BY ONLY <1>3, <2>1
  <2>3. 0 < x /\ x < j.w - 1 =>
          pixel = px({u - 1, u + 1, d - 1, d + 1}, {u, o - 1, o + 1, d}, {o})
    BY ONLY <1>4, <2>1
  <2>4. x = j.w - 1 => pixel = px({u - 1, d - 1}, {u, d, o - 1}, {o})
    BY ONLY <1>5, <2>1
  <2> QED
    BY ONLY <2>2, <2>3, <2>4
<1>7. ASSUME ~IsGreen(j, y, x)
      PROVE  /\ x = 0 => pixel = px({u, d}, {o}, {o + 1})
             /\ 0 < x /\ x < j.w - 1 => pixel = px({u, d}, {o}, {o - 1, o + 1})
             /\ x = j.w - 1 => pixel = px({u, d}, {o}, {o - 1})
  <2>1. pixel = px({u, d}, {o}, Beside(j, x, o))
    BY ONLY <1>2, <1>7
  <2> QED
    BY ONLY <1>3, <1>4, <1>5, <2>1
<1> QED
  BY ONLY <1>6, <1>7 DEF MiddleShape, pixel, px, u, o, d

LEMMA MiddleLineIs ==
  ASSUME NEW j, j.w \in Nat, j.w >= 3, NEW y, NEW p \in Nat
  PROVE  IsLineOf(MiddleLine(j, y, p), j.w, [x \in 0 .. j.w - 1 |-> MiddlePixel(j, y, p, x)])
<1> DEFINE w == j.w
           s == j.w
           px(a, g, c) == Ordered(j, y, a, g, c)
           green == StartsGreen(j, y)
           first == IF green
                    THEN << px({p + 1, p + 2*s + 1}, {p, p + 2*s, p + s + 1}, {p + s}),
                            px({p + 1, p + 2*s + 1}, {p + s + 1}, {p + s, p + s + 2}) >>
                    ELSE << px({p, p + 2*s}, {p + s}, {p + s + 1}) >>
           start == IF green THEN 1 ELSE 0
           rounds == Rounds(w - 1 - start)
           cross(b) == px({b, b + 2, b + 2*s, b + 2*s + 2},
                          {b + 1, b + s, b + s + 2, b + 2*s + 1}, {b + s + 1})
           round(i) ==
             LET b == p + start + 2 * (i - 1)
             IN << cross(b), px({b + 2, b + 2*s + 2}, {b + s + 2}, {b + s + 1, b + s + 3}) >>
           b == p + start + 2 * rounds
           last == IF b < p + w - 2
                   THEN << cross(b), px({b + 2, b + 2*s + 2}, {b + s + 2}, {b + s + 1}) >>
                   ELSE << px({b, b + 2*s}, {b + 1, b + 2*s + 1, b + s}, {b + s + 1}) >>
           all == [i \in 1 .. rounds |-> round(i)]
           f == [x \in 0 .. w - 1 |-> MiddlePixel(j, y, p, x)]
           left == w - 1 - start - 2 * rounds
<1>1. MiddleLine(j, y, p) = first \o InPairs(rounds, all) \o last
  BY DEF MiddleLine
<1>2. /\ start \in {0, 1} /\ (green <=> start = 1)
      /\ start = 1 => IsGreen(j, y, 0) /\ ~IsGreen(j, y, 1)
      /\ start = 0 => ~IsGreen(j, y, 0)
      /\ \A x \in Nat : Opens(start, x) => IsGreen(j, y, x) /\ ~IsGreen(j, y, x + 1)
  BY GreenPlaces
<1>3. w \in Nat /\ w >= 3
  OBVIOUS
<1>4. PartPlaces(w, start, rounds, left)
  <2> HIDE DEF w, start
  <2> QED
    BY ONLY <1>2, <1>3, PlacesOfParts
<1>5. \A x \in 0 .. w - 1 : MiddleShape(j, y, f[x], x, p + x, p + s + x, p + 2 * s + x)
  <2>1. p \in Int
    OBVIOUS
  <2>2. \A x \in 0 .. w - 1 : MiddleShape(j, y, MiddlePixel(j, y, p, x), x, p + x, p + s + x, p + 2 * s + x)
    BY ONLY <1>3, <2>1, MiddlePixelIs
  <2> QED
    BY <2>2
<1> HIDE DEF start, rounds, f
<1>6. start = 1 => first = <<f[0], f[1]>>
  <2> SUFFICES ASSUME start = 1 PROVE first = <<f[0], f[1]>>
    OBVIOUS
  <2> DEFINE o == p + s
             d == p + 2 * s
  <2>1. /\ 0 \in 0 .. w - 1 /\ p + 0 = p /\ p + s + 0 = o /\ p + 2 * s + 0 = d
        /\ 1 \in 0 .. w - 1 /\ 0 < 1 /\ 1 < w - 1 /\ o \in Int /\ d \in Int /\ p \in Int
        /\ p + s + 1 = o + 1 /\ p + 2 * s + 1 = d + 1 /\ p + s + 2 = (o + 1) + 1
        /\ (o + 1) - 1 = o
    BY <1>3
  <2>2. f[0] = px({p + 1, d + 1}, {p, d, o + 1}, {o})
    <3>1. IsGreen(j, y, 0) /\ MiddleShape(j, y, f[0], 0, p, o, d)
      BY <1>2, <1>5, <2>1
    <3> QED
      BY ONLY <3>1 DEF MiddleShape
  <2>3. f[1] = px({p + 1, d + 1}, {o + 1}, {(o + 1) - 1, (o + 1) + 1})
    <3>1. ~IsGreen(j, y, 1) /\ MiddleShape(j, y, f[1], 1, p + 1, o + 1, d + 1)
      BY <1>2, <1>5, <2>1
    <3> QED
      BY ONLY <2>1, <3>1 DEF MiddleShape
  <2>4. first = << px({p + 1, p + 2*s + 1}, {p, p + 2*s, p + s + 1}, {p + s}),
                   px({p + 1, p + 2*s + 1}, {p + s + 1}, {p + s, p + s + 2}) >>
    BY <1>2
  <2> HIDE DEF first, px
  <2>5. first = << px({p + 1, d + 1}, {p, d, o + 1}, {o}),
                   px({p + 1, d + 1}, {o + 1}, {(o + 1) - 1, (o + 1) + 1}) >>
    BY ONLY <2>1, <2>4
  <2> QED
    BY ONLY <2>2, <2>3, <2>5
<1>7. start = 0 => first = <<f[0]>>
  <2> SUFFICES ASSUME start = 0 PROVE first = <<f[0]>>
    OBVIOUS
  <2>1. 0 \in 0 .. w - 1 /\ p + 0 = p /\ p + s + 0 = p + s /\ p + 2 * s + 0 = p + 2 * s
    BY <1>3
  <2>2. f[0] = px({p, p + 2*s}, {p + s}, {p + s + 1})
    <3>1. ~IsGreen(j, y, 0) /\ MiddleShape(j, y, f[0], 0, p, p + s, p + 2 * s)
      BY <1>2, <1>5, <2>1
    <3> QED
      BY ONLY <3>1 DEF MiddleShape
  <2>3. first = << px({p, p + 2*s}, {p + s}, {p + s + 1}) >>
    BY <1>2
  <2> QED
    BY ONLY <2>2, <2>3
<1>8. ASSUME NEW x \in 0 .. w - 1, Opens(start, x), 0 < x, NEW e, e = p + x - 1
      PROVE  /\ x < w - 1 => f[x] = cross(e)
             /\ x < w - 1 /\ x + 1 < w - 1 =>
                  f[x + 1] = px({e + 2, e + 2*s + 2}, {e + s + 2}, {e + s + 1, e + s + 3})
             /\ x = w - 1 => f[x] = px({e, e + 2*s}, {e + 1, e + 2*s + 1, e + s}, {e + s + 1})
             /\ x + 1 = w - 1 => f[x + 1] = px({e + 2, e + 2*s + 2}, {e + s + 2}, {e + s + 1})
  <2> DEFINE u == p + x
             o == p + s + x
             d == p + 2 * s + x
  <2>1. /\ x \in Nat /\ u \in Int /\ o \in Int /\ d \in Int
        /\ p + (x + 1) = u + 1 /\ p + s + (x + 1) = o + 1 /\ p + 2 * s + (x + 1) = d + 1 /\ 0 < x + 1
        /\ x < w - 1 => x + 1 \in 0 .. w - 1
        /\ x + 1 = w - 1 => x < w - 1
    BY <1>3, <1>8
  <2>2. IsGreen(j, y, x) /\ ~IsGreen(j, y, x + 1)
    BY <1>2, <1>8, <2>1
  <2>3. /\ MiddleShape(j, y, f[x], x, u, o, d)
        /\ x + 1 \in 0 .. w - 1 => MiddleShape(j, y, f[x + 1], x + 1, u + 1, o + 1, d + 1)
    BY <1>5, <2>1
  <2>4. /\ e = u - 1 /\ e + 1 = u /\ e + 2 = u + 1
        /\ e + s = o - 1 /\ e + s + 1 = o /\ e + s + 2 = o + 1 /\ e + s + 3 = (o + 1) + 1
        /\ e + 2*s = d - 1 /\ e + 2*s + 1 = d /\ e + 2*s + 2 = d + 1 /\ (o + 1) - 1 = o
    BY <1>3, <1>8, <2>1
  <2>5. /\ x < w - 1 => f[x] = px({u - 1, u + 1, d - 1, d + 1}, {u, o - 1, o + 1, d}, {o})
        /\ x = w - 1 => f[x] = px({u - 1, d - 1}, {u, d, o - 1}, {o})
    BY ONLY <1>8, <2>2, <2>3 DEF MiddleShape
  <2>6. /\ x < w - 1 /\ x + 1 < w - 1 =>
             f[x + 1] = px({u + 1, d + 1}, {o + 1}, {(o + 1) - 1, (o + 1) + 1})
        /\ x + 1 = w - 1 => f[x + 1] = px({u + 1, d + 1}, {o + 1}, {(o + 1) - 1})
    BY ONLY <2>1, <2>2, <2>3 DEF MiddleShape
  <2> HIDE DEF px, u, o, d
  <2>7. x < w - 1 => f[x] = cross(e)
    BY ONLY <2>4, <2>5
  <2>8. x = w - 1 => f[x] = px({e, e + 2*s}, {e + 1, e + 2*s + 1, e + s}, {e + s + 1})
    BY ONLY <2>4, <2>5
  <2>9. /\ x < w - 1 /\ x + 1 < w - 1 =>
             f[x + 1] = px({e + 2, e + 2*s + 2}, {e + s + 2}, {e + s + 1, e + s + 3})
        /\ x + 1 = w - 1 => f[x + 1] = px({e + 2, e + 2*s + 2}, {e + s + 2}, {e + s + 1})
    BY ONLY <2>4, <2>6
  <2> QED
    BY ONLY <2>7, <2>8, <2>9
<1>9. \A i \in 1 .. rounds : all[i] = <<f[start + 2 * i - 1], f[start + 2 * i]>>
  <2> SUFFICES ASSUME NEW i \in 1 .. rounds PROVE all[i] = <<f[start + 2 * i - 1], f[start + 2 * i]>>
    OBVIOUS
  <2> DEFINE x == start + 2 * i - 1
             e == p + start + 2 * (i - 1)
  <2>1. /\ x \in 0 .. w - 1 /\ start + 2 * i = x + 1 /\ 0 < x /\ x < w - 1 /\ x + 1 < w - 1
        /\ Opens(start, x)
    BY ONLY <1>4, i \in 1 .. rounds DEF PartPlaces
  <2>2. e = p + x - 1
    BY <1>2, <1>4 DEF PartPlaces
  <2>3. all[i] = << cross(e), px({e + 2, e + 2*s + 2}, {e + s + 2}, {e + s + 1, e + s + 3}) >>
    OBVIOUS
  <2> HIDE DEF x, e, all, px
  <2>4. f[x] = cross(e) /\ f[x + 1] = px({e + 2, e + 2*s + 2}, {e + s + 2}, {e + s + 1, e + s + 3})
    BY ONLY <1>8, <2>1, <2>2
  <2> HIDE DEF cross
  <2>5. all[i] = <<f[x], f[x + 1]>>
    BY ONLY <2>3, <2>4
  <2> QED
    BY ONLY <2>1, <2>5 DEF x
<1>10. /\ left = 1 => last = <<f[start + 2 * rounds + 1]>>
       /\ left = 2 => last = <<f[start + 2 * rounds + 1], f[start + 2 * rounds + 2]>>
  <2> DEFINE x == start + 2 * rounds + 1
  <2>1. /\ x \in 0 .. w - 1 /\ 0 < x /\ Opens(start, x)
        /\ left = 1 => x = w - 1
        /\ left = 2 => x < w - 1 /\ x + 1 = w - 1
    BY ONLY <1>4 DEF PartPlaces
  <2>2. /\ b = p + x - 1 /\ start + 2 * rounds + 2 = x + 1
        /\ left = 1 => ~(b < p + w - 2)
        /\ left = 2 => b < p + w - 2
    BY <1>2, <1>4 DEF PartPlaces
  <2> HIDE DEF x, left, b
  <2>3. /\ left = 1 => last = << px({b, b + 2*s}, {b + 1, b + 2*s + 1, b + s}, {b + s + 1}) >>
        /\ left = 2 => last = << cross(b), px({b + 2, b + 2*s + 2}, {b + s + 2}, {b + s + 1}) >>
    BY ONLY <2>2
  <2> HIDE DEF last, px
  <2>4. left = 1 => f[x] = px({b, b + 2*s}, {b + 1, b + 2*s + 1, b + s}, {b + s + 1})
    BY ONLY <1>8, <2>1, <2>2
  <2>5. left = 2 => f[x] = cross(b)
    BY ONLY <1>8, <2>1, <2>2
  <2>6. left = 2 => f[x + 1] = px({b + 2, b + 2*s + 2}, {b + s + 2}, {b + s + 1})
    BY ONLY <1>8, <2>1, <2>2
  <2> HIDE DEF cross
  <2>7. left = 1 => last = <<f[x]>>
    BY ONLY <2>3, <2>4
  <2>8. left = 2 => last = <<f[x], f[x + 1]>>
    BY ONLY <2>3, <2>5, <2>6
  <2> QED
    BY ONLY <2>2, <2>7, <2>8 DEF x
<1> HIDE DEF first, last, all, left
<1>11. IsLineOf(first \o InPairs(rounds, all) \o last, w, f)
  <2>1. MadeFrom(f, w, start, rounds, left, first, all, last)
    BY ONLY <1>2, <1>3, <1>4, <1>6, <1>7, <1>9, <1>10 DEF MadeFrom, PartPlaces
  <2> QED
    BY ONLY <2>1, LineFromParts
<1> QED
  BY ONLY <1>1, <1>11 DEF f, w

-----------------------------------------------------------------------------
(* Bayer filters: the colours of the places. *)

(* The colour that shares a line with green; the other one is 4 minus it.  *)
LineColour(j, y) == IF BlueLine(j, y) THEN 1 ELSE 3

LEMMA FilterColours ==
  ASSUME NEW j, j.filter \in Filters, NEW x \in Nat, NEW y \in Nat
  PROVE  FilterColour(j, x, y) = IF IsGreen(j, y, x) THEN 2 ELSE LineColour(j, y)
<1> DEFINE i == 2 * (y % 2) + (x % 2)
<1>1. (x % 2 = 0 \/ x % 2 = 1) /\ (y % 2 = 0 \/ y % 2 = 1)
  OBVIOUS
<1>2. \/ j.filter = "BGGR" \/ j.filter = "GBRG" \/ j.filter = "GRBG" \/ j.filter = "RGGB"
  BY DEF Filters
<1>3. /\ IsGreen(j, y, x) <=> ((j.filter = "GBRG" \/ j.filter = "GRBG") # (y % 2 = 1)) = (x % 2 = 0)
      /\ BlueLine(j, y) <=> ((j.filter = "GRBG" \/ j.filter = "RGGB") # (y % 2 = 1))
  BY DEF IsGreen, StartsGreen, BlueLine
<1>4. /\ j.filter = "BGGR" => FilterColour(j, x, y) = <<3, 2, 2, 1>>[i + 1]
      /\ j.filter = "GBRG" => FilterColour(j, x, y) = <<2, 3, 1, 2>>[i + 1]
      /\ j.filter = "GRBG" => FilterColour(j, x, y) = <<2, 1, 3, 2>>[i + 1]
      /\ j.filter = "RGGB" => FilterColour(j, x, y) = <<1, 2, 2, 3>>[i + 1]
  BY DEF FilterColour
<1>5. CASE x % 2 = 0 /\ y % 2 = 0
  <2>1. i + 1 = 1
    BY <1>5
  <2> HIDE DEF i
  <2> QED
    BY <1>2, <1>3, <1>4, <1>5, <2>1 DEF LineColour
<1>6. CASE x % 2 = 1 /\ y % 2 = 0
  <2>1. i + 1 = 2
    BY <1>6
  <2> HIDE DEF i
  <2> QED
    BY <1>2, <1>3, <1>4, <1>6, <2>1 DEF LineColour
<1>7. CASE x % 2 = 0 /\ y % 2 = 1
  <2>1. i + 1 = 3
    BY <1>7
  <2> HIDE DEF i
  <2> QED
    BY <1>2, <1>3, <1>4, <1>7, <2>1 DEF LineColour
<1>8. CASE x % 2 = 1 /\ y % 2 = 1
  <2>1. i + 1 = 4
    BY <1>8
  <2> HIDE DEF i
  <2> QED
    BY <1>2, <1>3, <1>4, <1>8, <2>1 DEF LineColour
<1> QED
  BY <1>1, <1>5, <1>6, <1>7, <1>8

(* The colours alternate from column to column and from line to line.      *)
LEMMA ColoursAlternate ==
  ASSUME NEW j, NEW x \in Nat, NEW y \in Nat
  PROVE  /\ IsGreen(j, y, x) \in BOOLEAN
         /\ IsGreen(j, y, x + 1) <=> ~IsGreen(j, y, x)
         /\ IsGreen(j, y + 1, x) <=> ~IsGreen(j, y, x)
         /\ LineColour(j, y + 1) = 4 - LineColour(j, y)
         /\ LineColour(j, y) \in {1, 3}
<1>1. /\ x % 2 = 0 <=> ~((x + 1) % 2 = 0)
      /\ y % 2 = 1 <=> ~((y + 1) % 2 = 1)
  OBVIOUS
<1>2. /\ StartsGreen(j, y) \in BOOLEAN /\ StartsGreen(j, y + 1) \in BOOLEAN /\ BlueLine(j, y) \in BOOLEAN
      /\ StartsGreen(j, y + 1) <=> ~StartsGreen(j, y)
      /\ BlueLine(j, y + 1) <=> ~BlueLine(j, y)
  BY <1>1 DEF StartsGreen, BlueLine
<1>3. /\ IsGreen(j, y, x) \in BOOLEAN
      /\ IsGreen(j, y, x + 1) <=> ~IsGreen(j, y, x)
  BY ONLY <1>1, <1>2 DEF IsGreen
<1>4. IsGreen(j, y + 1, x) <=> ~IsGreen(j, y, x)
  <2> DEFINE even == x % 2 = 0
  <2>1. even \in BOOLEAN /\ (IsGreen(j, y + 1, x) <=> (StartsGreen(j, y + 1) = even))
        /\ (IsGreen(j, y, x) <=> (StartsGreen(j, y) = even))
    BY DEF IsGreen
  <2> HIDE DEF even
  <2> QED
    BY ONLY <1>2, <2>1
<1>5. LineColour(j, y + 1) = 4 - LineColour(j, y) /\ LineColour(j, y) \in {1, 3}
  <2>1. CASE BlueLine(j, y)
    <3>1. LineColour(j, y) = 1 /\ LineColour(j, y + 1) = 3
      BY ONLY <1>2, <2>1 DEF LineColour
    <3> QED
      BY ONLY <3>1
  <2>2. CASE ~BlueLine(j, y)
    <3>1. LineColour(j, y) = 3 /\ LineColour(j, y + 1) = 1
      BY ONLY <1>2, <2>2 DEF LineColour
    <3> QED
      BY ONLY <3>1
  <2> QED
    BY <2>1, <2>2
<1> QED
  BY <1>3, <1>4, <1>5

(* The offsets in the buffer that colour c of pixel (x, y) may come from.  *)
Site(j, x, y, o, c) ==
  \E m \in Near(j, x, y) : FilterColour(j, m[1], m[2]) = c /\ o = m[2] * j.w + m[1]
Sites(j, x, y, offsets, c) == offsets # {} /\ \A o \in offsets : Site(j, x, y, o, c)

(* A pixel as it should be, with offsets in the buffer.                    *)
OffsetsAreRight(j, pixel, x, y) ==
  \A c \in 1 .. 3 : /\ Sites(j, x, y, pixel[c], c)
                    /\ FilterColour(j, x, y) = c => y * j.w + x \in pixel[c]

LEMMA SiteOf ==
  ASSUME NEW j \in Job, NEW x \in 0 .. j.w - 1, NEW y \in 0 .. j.h - 1,
         NEW cx \in 0 .. j.w - 1, NEW cy \in 0 .. j.h - 1,
         cx \in x - 1 .. x + 1, cy \in y - 1 .. y + 1
  PROVE  Site(j, x, y, cy * j.w + cx, FilterColour(j, cx, cy))
<1>1. <<cx, cy>> \in Near(j, x, y)
  BY DEF Near
<1> QED
  BY <1>1 DEF Site

LEMMA SitesJoin ==
  ASSUME NEW j, NEW x, NEW y, NEW c, NEW a, NEW b, Sites(j, x, y, a, c), Sites(j, x, y, b, c)
  PROVE  Sites(j, x, y, a \cup b, c)
BY DEF Sites

(* The offset in line cy, next to y or y itself, and those beside it.      *)
LEMMA SitesOfLine ==
  ASSUME NEW j \in Job, j.w >= 3, NEW x \in 0 .. j.w - 1, NEW y \in 0 .. j.h - 1,
         NEW cy \in 0 .. j.h - 1, cy \in y - 1 .. y + 1
  PROVE  /\ IsGreen(j, cy, x) =>
              /\ Sites(j, x, y, {cy * j.w + x}, 2)
              /\ Sites(j, x, y, Beside(j, x, cy * j.w + x), LineColour(j, cy))
         /\ ~IsGreen(j, cy, x) =>
              /\ Sites(j, x, y, {cy * j.w + x}, LineColour(j, cy))
              /\ Sites(j, x, y, Beside(j, x, cy * j.w + x), 2)
<1> DEFINE w == j.w
           m == cy * w
           own == IF IsGreen(j, cy, x) THEN 2 ELSE LineColour(j, cy)
           side == IF IsGreen(j, cy, x) THEN LineColour(j, cy) ELSE 2
<1>1. w \in Nat /\ w >= 3 /\ x \in Nat /\ x < w /\ cy \in Nat /\ m \in Nat /\ j.filter \in Filters
  <2>1. w \in Nat /\ w >= 3 /\ j.h \in Nat /\ j.filter \in Filters
    BY JobTypes
  <2>2. x \in Nat /\ x < w /\ cy \in Nat
    BY <2>1
  <2> QED
    BY <2>1, <2>2, TimesIsNat
<1>2. FilterColour(j, x, cy) = own
  BY <1>1, FilterColours
<1>3. x > 0 => x - 1 \in Nat /\ FilterColour(j, x - 1, cy) = side
  <2> SUFFICES ASSUME x > 0 PROVE x - 1 \in Nat /\ FilterColour(j, x - 1, cy) = side
    OBVIOUS
  <2>1. x - 1 \in Nat /\ (x - 1) + 1 = x
    BY <1>1
  <2>2. IsGreen(j, cy, x) <=> ~IsGreen(j, cy, x - 1)
    BY ONLY <1>1, <2>1, ColoursAlternate
  <2> QED
    BY <1>1, <2>1, <2>2, FilterColours
<1>4. FilterColour(j, x + 1, cy) = side
  <2>1. IsGreen(j, cy, x + 1) <=> ~IsGreen(j, cy, x)
    BY ONLY <1>1, ColoursAlternate
  <2> QED
    BY <1>1, <2>1, FilterColours
<1>5. Site(j, x, y, m + x, own)
  <2>1. x \in x - 1 .. x + 1
    BY <1>1
  <2> QED
    BY <1>2, <2>1, SiteOf
<1>6. x > 0 => Site(j, x, y, (m + x) - 1, side)
  <2> SUFFICES ASSUME x > 0 PROVE Site(j, x, y, (m + x) - 1, side)
    OBVIOUS
  <2>1. x - 1 \in 0 .. w - 1 /\ x - 1 \in x - 1 .. x + 1 /\ m + (x - 1) = (m + x) - 1
    BY <1>1
  <2>2. Site(j, x, y, m + (x - 1), FilterColour(j, x - 1, cy))
    BY <2>1, SiteOf
  <2> QED
    BY ONLY <1>3, <2>1, <2>2, x > 0
<1>7. x < w - 1 => Site(j, x, y, (m + x) + 1, side)
  <2> SUFFICES ASSUME x < w - 1 PROVE Site(j, x, y, (m + x) + 1, side)
    OBVIOUS
  <2>1. x + 1 \in 0 .. w - 1 /\ x + 1 \in x - 1 .. x + 1 /\ m + (x + 1) = (m + x) + 1
    BY <1>1
  <2>2. Site(j, x, y, m + (x + 1), FilterColour(j, x + 1, cy))
    BY <2>1, SiteOf
  <2> QED
    BY ONLY <1>4, <2>1, <2>2
<1> HIDE DEF m, own, side
<1>8. Sites(j, x, y, {m + x}, own)
  BY ONLY <1>5 DEF Sites
<1>9. Sites(j, x, y, Beside(j, x, m + x), side)
  <2>1. Beside(j, x, m + x) # {}
    <3>1. x > 0 \/ x < w - 1
      BY <1>1
    <3> QED
      BY <3>1 DEF Beside
  <2>2. \A o \in Beside(j, x, m + x) : (x > 0 /\ o = (m + x) - 1) \/ (x < w - 1 /\ o = (m + x) + 1)
    <3>1. Beside(j, x, m + x) = (IF x > 0 THEN {(m + x) - 1} ELSE {}) \cup (IF x < w - 1 THEN {(m + x) + 1} ELSE {})
      BY DEF Beside
    <3> HIDE DEF w
    <3> QED
      BY ONLY <3>1
  <2> QED
    BY ONLY <1>6, <1>7, <2>1, <2>2 DEF Sites
<1> QED
  BY <1>8, <1>9 DEF m, own, side

(* The three colours of a line of the filter, in their channels.           *)
LEMMA OrderedIsRight ==
  ASSUME NEW j, NEW x, NEW y, NEW l \in Nat, NEW a, NEW g, NEW c,
         Sites(j, x, y, a, LineColour(j, l)), Sites(j, x, y, g, 2),
         Sites(j, x, y, c, 4 - LineColour(j, l)),
         FilterColour(j, x, y) = LineColour(j, l) => y * j.w + x \in a,
         FilterColour(j, x, y) = 2 => y * j.w + x \in g,
         FilterColour(j, x, y) = 4 - LineColour(j, l) => y * j.w + x \in c
  PROVE  OffsetsAreRight(j, Ordered(j, l, a, g, c), x, y)
<1> DEFINE pixel == Ordered(j, l, a, g, c)
           o == y * j.w + x
<1> HIDE DEF o
<1>1. CASE BlueLine(j, l)
  <2>1. LineColour(j, l) = 1 /\ 4 - LineColour(j, l) = 3
    BY <1>1 DEF LineColour
  <2>2. pixel[1] = a /\ pixel[2] = g /\ pixel[3] = c
    BY <1>1, PixelChannels DEF Ordered
  <2> HIDE DEF pixel
  <2>3. \A k \in 1 .. 3 : k = 1 \/ k = 2 \/ k = 3
    OBVIOUS
  <2>4. OffsetsAreRight(j, pixel, x, y)
    BY <2>1, <2>2, <2>3 DEF OffsetsAreRight, o
  <2> QED
    BY <2>4 DEF pixel
<1>2. CASE ~BlueLine(j, l)
  <2>1. LineColour(j, l) = 3 /\ 4 - LineColour(j, l) = 1
    BY <1>2 DEF LineColour
  <2>2. pixel[1] = c /\ pixel[2] = g /\ pixel[3] = a
    BY <1>2, PixelChannels DEF Ordered
  <2> HIDE DEF pixel
  <2>3. \A k \in 1 .. 3 : k = 1 \/ k = 2 \/ k = 3
    OBVIOUS
  <2>4. OffsetsAreRight(j, pixel, x, y)
    BY <2>1, <2>2, <2>3 DEF OffsetsAreRight, o
  <2> QED
    BY <2>4 DEF pixel
<1> QED
  BY <1>1, <1>2

LEMMA BorderPixelIsRight ==
  ASSUME NEW j \in Job, j.w >= 3, NEW x \in 0 .. j.w - 1,
         NEW y \in 0 .. j.h - 1, NEW z \in 0 .. j.h - 1, z = y + 1 \/ y = z + 1
  PROVE  OffsetsAreRight(j, BorderPixel(j, y, y * j.w, z * j.w, x), x, y)
<1> DEFINE o == y * j.w + x
           n == z * j.w + x
           beside(k) == Beside(j, x, k)
           l == LineColour(j, y)
<1>1. /\ y \in Nat /\ z \in Nat /\ x \in Nat /\ z \in y - 1 .. y + 1 /\ y \in y - 1 .. y + 1
      /\ j.filter \in Filters
  <2>1. j.w \in Nat /\ j.h \in Nat /\ j.filter \in Filters
    BY JobTypes
  <2> QED
    BY <2>1
<1>2. /\ IsGreen(j, y, x) \in BOOLEAN /\ (IsGreen(j, z, x) <=> ~IsGreen(j, y, x))
      /\ LineColour(j, z) = 4 - l /\ l \in {1, 3}
  <2>1. CASE z = y + 1
    BY ONLY <1>1, <2>1, ColoursAlternate
  <2>2. CASE y = z + 1
    <3>1. /\ IsGreen(j, z, x) \in BOOLEAN /\ (IsGreen(j, y, x) <=> ~IsGreen(j, z, x))
          /\ l = 4 - LineColour(j, z) /\ LineColour(j, z) \in {1, 3}
      BY ONLY <1>1, <2>2, ColoursAlternate
    <3>2. IsGreen(j, y, x) \in BOOLEAN
      BY DEF IsGreen
    <3> QED
      BY ONLY <3>1, <3>2
  <2> QED
    BY <2>1, <2>2
<1>3. FilterColour(j, x, y) = IF IsGreen(j, y, x) THEN 2 ELSE l
  BY <1>1, FilterColours
<1>4. /\ IsGreen(j, y, x) => Sites(j, x, y, {o}, 2) /\ Sites(j, x, y, beside(o), l)
      /\ ~IsGreen(j, y, x) => Sites(j, x, y, {o}, l) /\ Sites(j, x, y, beside(o), 2)
  BY <1>1, SitesOfLine
<1>5. /\ IsGreen(j, z, x) => Sites(j, x, y, {n}, 2) /\ Sites(j, x, y, beside(n), LineColour(j, z))
      /\ ~IsGreen(j, z, x) => Sites(j, x, y, {n}, LineColour(j, z))
  BY <1>1, SitesOfLine
<1> DEFINE pixel == BorderPixel(j, y, y * j.w, z * j.w, x)
<1>6. pixel = IF IsGreen(j, y, x) THEN Ordered(j, y, beside(o), {o}, {n})
              ELSE Ordered(j, y, {o}, beside(o) \cup {n}, beside(n))
  BY DEF BorderPixel
<1>7. o = y * j.w + x
  OBVIOUS
<1> HIDE DEF o, n, beside, l, pixel
<1>8. CASE IsGreen(j, y, x)
  <2>1. Sites(j, x, y, beside(o), l) /\ Sites(j, x, y, {o}, 2) /\ Sites(j, x, y, {n}, 4 - l)
    BY ONLY <1>2, <1>4, <1>5, <1>8
  <2>2. FilterColour(j, x, y) = 2 /\ 2 # l /\ 2 # 4 - l /\ o \in {o}
    BY ONLY <1>2, <1>3, <1>8
  <2>3. OffsetsAreRight(j, Ordered(j, y, beside(o), {o}, {n}), x, y)
    BY ONLY <1>1, <1>7, <2>1, <2>2, OrderedIsRight DEF l
  <2> QED
    BY <1>6, <1>8, <2>3 DEF pixel
<1>9. CASE ~IsGreen(j, y, x)
  <2>1. /\ Sites(j, x, y, {o}, l) /\ Sites(j, x, y, beside(o), 2) /\ Sites(j, x, y, {n}, 2)
        /\ Sites(j, x, y, beside(n), 4 - l)
    BY ONLY <1>2, <1>4, <1>5, <1>9
  <2>2. FilterColour(j, x, y) = l /\ 2 # l /\ 4 - l # l /\ o \in {o}
    BY ONLY <1>2, <1>3, <1>9
  <2>3. Sites(j, x, y, beside(o) \cup {n}, 2)
    BY ONLY <2>1, SitesJoin
  <2>4. OffsetsAreRight(j, Ordered(j, y, {o}, beside(o) \cup {n}, beside(n)), x, y)
    BY ONLY <1>1, <1>7, <2>1, <2>2, <2>3, OrderedIsRight DEF l
  <2> QED
    BY <1>6, <1>9, <2>4 DEF pixel
<1> QED
  BY <1>8, <1>9

LEMMA MiddlePixelIsRight ==
  ASSUME NEW j \in Job, j.w >= 3, NEW x \in 0 .. j.w - 1, NEW y \in 1 .. j.h - 2
  PROVE  OffsetsAreRight(j, MiddlePixel(j, y - 1, (y - 1) * j.w, x), x, y)
<1> DEFINE a == y - 1
           b == y + 1
           u == a * j.w + x
           o == y * j.w + x
           d == b * j.w + x
           beside(k) == Beside(j, x, k)
           l == LineColour(j, a)
<1>1. /\ y \in Nat /\ a \in Nat /\ b \in Nat /\ x \in Nat /\ j.w \in Nat /\ j.filter \in Filters
      /\ a \in 0 .. j.h - 1 /\ y \in 0 .. j.h - 1 /\ b \in 0 .. j.h - 1
      /\ a \in y - 1 .. y + 1 /\ y \in y - 1 .. y + 1 /\ b \in y - 1 .. y + 1
      /\ y = a + 1 /\ b = y + 1
  <2>1. j.w \in Nat /\ j.h \in Nat /\ j.filter \in Filters
    BY JobTypes
  <2> QED
    BY <2>1
<1> DEFINE pixel == MiddlePixel(j, a, a * j.w, x)
<1>2. pixel = IF IsGreen(j, a, x)
              THEN Ordered(j, a, beside(u) \cup beside(d), beside(o) \cup {u, d}, {o})
              ELSE Ordered(j, a, {u, d}, {o}, beside(o))
  <2> DEFINE t == a * j.w
  <2>1. y * j.w = t + j.w /\ b * j.w = t + 2 * j.w /\ t \in Nat
    <3>1. y * j.w = a * j.w + j.w /\ b * j.w = y * j.w + j.w
      <4> HIDE DEF a, b
      <4>1. a \in Nat /\ y \in Nat /\ b \in Nat /\ j.w \in Nat /\ y = a + 1 /\ b = y + 1
        BY ONLY <1>1
      <4>2. y * j.w = a * j.w + j.w
        BY ONLY <4>1, NextLine
      <4>3. b * j.w = y * j.w + j.w
        BY ONLY <4>1, NextLine
      <4> QED
        BY ONLY <4>2, <4>3
    <3>2. t \in Nat
      BY <1>1, TimesIsNat
    <3> HIDE DEF a, b
    <3> QED
      BY ONLY <1>1, <3>1, <3>2
  <2>2. o = t + j.w + x /\ d = t + 2 * j.w + x /\ u = t + x
    BY <2>1
  <2>3. pixel = IF IsGreen(j, a, x)
                THEN Ordered(j, a, beside(t + x) \cup beside(t + 2 * j.w + x),
                             beside(t + j.w + x) \cup {t + x, t + 2 * j.w + x}, {t + j.w + x})
                ELSE Ordered(j, a, {t + x, t + 2 * j.w + x}, {t + j.w + x}, beside(t + j.w + x))
    BY DEF MiddlePixel
  <2> HIDE DEF t, u, o, d, pixel, beside, a
  <2> QED
    BY ONLY <2>2, <2>3
<1> HIDE DEF pixel
<1>3. pixel = MiddlePixel(j, y - 1, (y - 1) * j.w, x)
  BY DEF pixel
<1>4. o = y * j.w + x
  OBVIOUS
<1> HIDE DEF a, b
<1>5. /\ IsGreen(j, a, x) \in BOOLEAN /\ (IsGreen(j, y, x) <=> ~IsGreen(j, a, x))
      /\ (IsGreen(j, b, x) <=> IsGreen(j, a, x))
      /\ LineColour(j, y) = 4 - l /\ LineColour(j, b) = l /\ l \in {1, 3}
  <2>1. /\ IsGreen(j, a, x) \in BOOLEAN /\ (IsGreen(j, y, x) <=> ~IsGreen(j, a, x))
        /\ LineColour(j, y) = 4 - l /\ l \in {1, 3}
    BY ONLY <1>1, ColoursAlternate
  <2>2. /\ (IsGreen(j, b, x) <=> ~IsGreen(j, y, x)) /\ LineColour(j, b) = 4 - LineColour(j, y)
    BY ONLY <1>1, ColoursAlternate
  <2>3. LineColour(j, b) = l
    BY ONLY <2>1, <2>2
  <2> QED
    BY ONLY <2>1, <2>2, <2>3
<1>6. FilterColour(j, x, y) = IF IsGreen(j, y, x) THEN 2 ELSE LineColour(j, y)
  BY <1>1, FilterColours
<1>7. /\ IsGreen(j, a, x) => Sites(j, x, y, {u}, 2) /\ Sites(j, x, y, beside(u), l)
      /\ ~IsGreen(j, a, x) => Sites(j, x, y, {u}, l)
  BY <1>1, SitesOfLine
<1>8. /\ IsGreen(j, b, x) => Sites(j, x, y, {d}, 2) /\ Sites(j, x, y, beside(d), LineColour(j, b))
      /\ ~IsGreen(j, b, x) => Sites(j, x, y, {d}, LineColour(j, b))
  BY <1>1, SitesOfLine
<1>9. /\ IsGreen(j, y, x) => Sites(j, x, y, {o}, 2) /\ Sites(j, x, y, beside(o), LineColour(j, y))
      /\ ~IsGreen(j, y, x) => Sites(j, x, y, {o}, LineColour(j, y)) /\ Sites(j, x, y, beside(o), 2)
  BY <1>1, SitesOfLine
<1> HIDE DEF u, o, d, beside, l
<1>10. {u} \cup {d} = {u, d}
  OBVIOUS
<1>11. CASE IsGreen(j, a, x)
  <2>1. /\ Sites(j, x, y, {u}, 2) /\ Sites(j, x, y, beside(u), l)
        /\ Sites(j, x, y, {d}, 2) /\ Sites(j, x, y, beside(d), l)
        /\ Sites(j, x, y, {o}, 4 - l) /\ Sites(j, x, y, beside(o), 2)
    BY ONLY <1>5, <1>7, <1>8, <1>9, <1>11
  <2>2. FilterColour(j, x, y) = 4 - l /\ 4 - l # l /\ 4 - l # 2 /\ o \in {o}
    BY ONLY <1>5, <1>6, <1>11
  <2>3. Sites(j, x, y, beside(u) \cup beside(d), l) /\ Sites(j, x, y, {u, d}, 2)
    BY ONLY <1>10, <2>1, SitesJoin
  <2>4. Sites(j, x, y, beside(o) \cup {u, d}, 2)
    BY ONLY <2>1, <2>3, SitesJoin
  <2>5. OffsetsAreRight(j, Ordered(j, a, beside(u) \cup beside(d), beside(o) \cup {u, d}, {o}), x, y)
    BY ONLY <1>1, <1>4, <2>1, <2>2, <2>3, <2>4, OrderedIsRight DEF l
  <2> QED
    BY ONLY <1>2, <1>3, <1>11, <2>5
<1>12. CASE ~IsGreen(j, a, x)
  <2>1. /\ Sites(j, x, y, {u}, l) /\ Sites(j, x, y, {d}, l)
        /\ Sites(j, x, y, {o}, 2) /\ Sites(j, x, y, beside(o), 4 - l)
    BY ONLY <1>5, <1>7, <1>8, <1>9, <1>12
  <2>2. FilterColour(j, x, y) = 2 /\ 2 # l /\ 4 - l # 2 /\ o \in {o}
    BY ONLY <1>5, <1>6, <1>12
  <2>3. Sites(j, x, y, {u, d}, l)
    BY ONLY <1>10, <2>1, SitesJoin
  <2>4. OffsetsAreRight(j, Ordered(j, a, {u, d}, {o}, beside(o)), x, y)
    BY ONLY <1>1, <1>4, <2>1, <2>2, <2>3, OrderedIsRight DEF l
  <2> QED
    BY ONLY <1>2, <1>3, <1>12, <2>4
<1> QED
  BY <1>11, <1>12

(* The samples of a Bayer filter are inside what the converter may read.   *)
LEMMA BayerReadable ==
  ASSUME NEW j \in Job, j.layout \in BayerLayouts, NEW y \in 0 .. j.h - 1, NEW x \in 0 .. j.w - 1
  PROVE  y * j.w + x \in ReadableOf(j)
<1> DEFINE o == y * j.w + x
           all == j.w * j.h
<1>1. j.w \in Nat /\ j.h \in Nat /\ j.h > 0 /\ y \in Nat /\ y < j.h /\ x \in Nat /\ x < j.w
  BY JobTypes
<1>2. y * j.w \in Nat /\ j.h * j.w \in Nat /\ y * j.w + j.w <= j.h * j.w
  BY ONLY <1>1, LineFits
<1>3. j.h * j.w = all /\ 4 * j.w * j.h = 4 * all
  <2>1. \A a, b \in Nat : b * a = a * b /\ 4 * a * b = 4 * (a * b)
    OBVIOUS
  <2> QED
    BY ONLY <1>1, <2>1
<1>4. all \in Nat /\ o \in 0 .. all - 1
  <2> DEFINE s == y * j.w
  <2>1. s \in Nat /\ all \in Nat /\ s + j.w <= all /\ o = s + x
    BY ONLY <1>2, <1>3
  <2> HIDE DEF s, o, all
  <2> QED
    BY ONLY <1>1, <2>1
<1>5. o \in 0 .. 4 * j.w * j.h - 1
  <2> HIDE DEF o, all
  <2> QED
    BY ONLY <1>3, <1>4
<1>6. CASE j.layout = "bayer8"
  <2>1. Payload(j) = j.w * 1 /\ j.layout # "yuv420" /\ 1 \in Nat \ {0}
    BY <1>1, <1>6, LineBytes
  <2>2. DOMAIN RemovePadding(j, 1) = 0 .. j.w * j.h * 1 - 1
    BY ONLY <2>1, PaddingRemoved
  <2>3. FirstPass(j) = RemovePadding(j, 1) /\ ReadableOf(j) = DOMAIN FirstPass(j)
    BY <1>6 DEF FirstPass, ReadableOf
  <2>4. j.w * j.h * 1 = all
    BY ONLY <1>1
  <2> HIDE DEF o, all
  <2> QED
    BY ONLY <1>4, <2>2, <2>3, <2>4 DEF o
<1>7. CASE j.layout # "bayer8"
  <2>1. ReadableOf(j) = 0 .. 4 * j.w * j.h - 1
    BY <1>7 DEF ReadableOf
  <2> QED
    BY ONLY <1>5, <2>1
<1> QED
  BY ONLY <1>6, <1>7

LEMMA SiteInFrame ==
  ASSUME NEW j \in Job, j.layout \in BayerLayouts, NEW x, NEW y, NEW o, NEW c, Site(j, x, y, o, c)
  PROVE  /\ o \in ReadableOf(j)
         /\ ~Skewed(j) => FirstPass(j)[o] \in
              {SampleAt(j, n[1], n[2]) :
                 n \in {m \in Near(j, x, y) : FilterColour(j, m[1], m[2]) = c}}
<1>1. PICK m \in Near(j, x, y) : FilterColour(j, m[1], m[2]) = c /\ o = m[2] * j.w + m[1]
  BY DEF Site
<1>2. m[1] \in 0 .. j.w - 1 /\ m[2] \in 0 .. j.h - 1
  BY DEF Near
<1>3. o \in ReadableOf(j)
  BY <1>1, <1>2, BayerReadable
<1>4. j.layout \in OneByte
  BY DEF OneByte
<1>5. ASSUME ~Skewed(j)
      PROVE  FirstPass(j)[o] = SampleAt(j, m[1], m[2])
  BY <1>1, <1>2, <1>4, <1>5, SampleInBuffer
<1> QED
  BY <1>1, <1>3, <1>5

(* Offsets that are right in the buffer are right in the frame.            *)
LEMMA OffsetsInFrame ==
  ASSUME NEW j \in Job, j.layout \in BayerLayouts, NEW x \in 0 .. j.w - 1, NEW y \in 0 .. j.h - 1,
         NEW pixel, OffsetsAreRight(j, pixel, x, y)
  PROVE  /\ \A c \in 1 .. 3 : pixel[c] \subseteq ReadableOf(j)
         /\ ~Skewed(j) => RightPixel(j, pixel, x, y)
<1> DEFINE inFrame == InFrame(FirstPass(j), pixel)
<1>1. ASSUME NEW c \in 1 .. 3
      PROVE  pixel[c] \subseteq ReadableOf(j)
  BY SiteInFrame DEF OffsetsAreRight, Sites
<1>2. ASSUME NEW c \in 1 .. 3, ~Skewed(j)
      PROVE  /\ inFrame[c] # {}
             /\ inFrame[c] \subseteq {SampleAt(j, n[1], n[2]) :
                  n \in {m \in Near(j, x, y) : FilterColour(j, m[1], m[2]) = c}}
             /\ FilterColour(j, x, y) = c => SampleAt(j, x, y) \in inFrame[c]
  <2>1. /\ pixel[c] # {} /\ \A o \in pixel[c] : Site(j, x, y, o, c)
        /\ FilterColour(j, x, y) = c => y * j.w + x \in pixel[c]
    BY DEF OffsetsAreRight, Sites
  <2>2. inFrame[c] = {FirstPass(j)[o] : o \in pixel[c]}
    BY DEF InFrame
  <2>3. FirstPass(j)[y * j.w + x] = SampleAt(j, x, y)
    BY <1>2, SampleInBuffer DEF OneByte
  <2> DEFINE own == {SampleAt(j, n[1], n[2]) :
                       n \in {m \in Near(j, x, y) : FilterColour(j, m[1], m[2]) = c}}
  <2>4. \A o \in pixel[c] : FirstPass(j)[o] \in own
    BY <1>2, <2>1, SiteInFrame
  <2> HIDE DEF own, inFrame
  <2>5. inFrame[c] # {} /\ inFrame[c] \subseteq own
    BY ONLY <2>1, <2>2, <2>4
  <2>6. FilterColour(j, x, y) = c => SampleAt(j, x, y) \in inFrame[c]
    BY ONLY <2>1, <2>2, <2>3
  <2> QED
    BY <2>5, <2>6 DEF own
<1>3. ASSUME ~Skewed(j)
      PROVE  RightPixel(j, pixel, x, y)
  <2>1. IsDemosaiced(j, inFrame, x, y)
    BY <1>2, <1>3 DEF IsDemosaiced
  <2>2. ~Miscoloured(j)
    BY DEF Miscoloured, BayerLayouts
  <2> QED
    BY <2>1, <2>2 DEF RightPixel
<1> QED
  BY <1>1, <1>3

(* The lines that ConvertBayer writes, with what is above and below them.  *)
BayerLine(j, y) ==
  CASE y = 0       -> BorderLine(j, 0, 0, j.w)
    [] y = j.h - 1 -> BorderLine(j, y, y * j.w, (y - 1) * j.w)
    [] OTHER       -> MiddleLine(j, y - 1, (y - 1) * j.w)

LEMMA GoodLineOf ==
  ASSUME NEW j \in Job, j.layout \in BayerLayouts, NEW y \in 0 .. j.h - 1, NEW f, NEW pixels,
         IsLineOf(pixels, j.w, [x \in 0 .. j.w - 1 |-> f[x]]),
         \A x \in 0 .. j.w - 1 : OffsetsAreRight(j, f[x], x, y)
  PROVE  GoodLine(j, y, pixels)
<1>1. j.w \in Nat /\ j.w \in 0 .. j.w
  BY JobTypes
<1>2. /\ Len(pixels) = j.w /\ DOMAIN pixels = 1 .. j.w
      /\ \A x \in 0 .. j.w - 1 : pixels[x + 1] = f[x]
  BY DEF IsLineOf
<1>3. \A x \in 0 .. j.w - 1 : /\ \A c \in 1 .. 3 : pixels[x + 1][c] \subseteq ReadableOf(j)
                              /\ ~Skewed(j) => RightPixel(j, pixels[x + 1], x, y)
  BY <1>2, OffsetsInFrame
<1>4. ASSUME NEW i \in 1 .. j.w, NEW c \in 1 .. 3
      PROVE  pixels[i][c] \subseteq ReadableOf(j)
  <2>1. PICK x \in 0 .. j.w - 1 : i = x + 1
    BY <1>1
  <2> QED
    BY <1>3, <2>1
<1> QED
  BY <1>1, <1>2, <1>3, <1>4, GoodLineIntro

LEMMA BayerLineIsGood ==
  ASSUME NEW j \in Job, j.layout \in BayerLayouts, ~TooSmall(j), j.h > 1, NEW y \in 0 .. j.h - 1
  PROVE  GoodLine(j, y, BayerLine(j, y))
<1>1. /\ j.w \in Nat /\ j.w >= 3 /\ j.h \in Nat /\ y \in Nat /\ 0 \in Nat
      /\ 0 \in 0 .. j.h - 1 /\ 1 \in 0 .. j.h - 1
  BY JobTypes DEF TooSmall
<1>2. CASE y = 0
  <2> DEFINE f == [x \in 0 .. j.w - 1 |-> BorderPixel(j, 0, 0, j.w, x)]
  <2>1. BayerLine(j, y) = BorderLine(j, 0, 0, j.w)
    BY <1>2 DEF BayerLine
  <2>2. IsLineOf(BayerLine(j, y), j.w, f)
    BY <1>1, <2>1, BorderLineIs
  <2>3. 0 * j.w = 0 /\ 1 * j.w = j.w
    BY ONLY <1>1
  <2>4. ASSUME NEW x \in 0 .. j.w - 1
        PROVE  OffsetsAreRight(j, f[x], x, y)
    <3>1. OffsetsAreRight(j, BorderPixel(j, 0, 0 * j.w, 1 * j.w, x), x, 0)
      BY <1>1, BorderPixelIsRight
    <3> QED
      BY ONLY <1>2, <2>3, <3>1
  <2>5. f = [x \in 0 .. j.w - 1 |-> f[x]]
    OBVIOUS
  <2> HIDE DEF f
  <2> QED
    BY <2>2, <2>4, <2>5, GoodLineOf
<1>3. CASE y # 0 /\ y = j.h - 1
  <2> DEFINE z == y - 1
             f == [x \in 0 .. j.w - 1 |-> BorderPixel(j, y, y * j.w, z * j.w, x)]
  <2>1. BayerLine(j, y) = BorderLine(j, y, y * j.w, z * j.w)
    BY <1>3 DEF BayerLine
  <2>2. z \in 0 .. j.h - 1 /\ z \in Nat /\ y = z + 1
    BY <1>1, <1>3
  <2>3. y * j.w \in Nat /\ z * j.w \in Nat
    <3> HIDE DEF z
    <3> QED
      BY ONLY <1>1, <2>2, TimesIsNat
  <2>4. IsLineOf(BayerLine(j, y), j.w, f)
    <3> HIDE DEF z
    <3> QED
      BY <1>1, <2>1, <2>3, BorderLineIs
  <2>5. ASSUME NEW x \in 0 .. j.w - 1
        PROVE  OffsetsAreRight(j, f[x], x, y)
    <3>1. f[x] = BorderPixel(j, y, y * j.w, z * j.w, x)
      OBVIOUS
    <3> HIDE DEF z, f
    <3>2. OffsetsAreRight(j, BorderPixel(j, y, y * j.w, z * j.w, x), x, y)
      BY <1>1, <2>2, BorderPixelIsRight
    <3> QED
      BY ONLY <3>1, <3>2
  <2>6. f = [x \in 0 .. j.w - 1 |-> f[x]]
    OBVIOUS
  <2> HIDE DEF f
  <2> QED
    BY <2>4, <2>5, <2>6, GoodLineOf
<1>4. CASE y # 0 /\ y # j.h - 1
  <2> DEFINE z == y - 1
             f == [x \in 0 .. j.w - 1 |-> MiddlePixel(j, z, z * j.w, x)]
  <2>1. BayerLine(j, y) = MiddleLine(j, z, z * j.w)
    BY <1>4 DEF BayerLine
  <2>2. z \in Nat /\ y \in 1 .. j.h - 2
    BY <1>1, <1>4
  <2>3. z * j.w \in Nat
    <3> HIDE DEF z
    <3> QED
      BY ONLY <1>1, <2>2, TimesIsNat
  <2>4. IsLineOf(BayerLine(j, y), j.w, f)
    <3> HIDE DEF z
    <3> QED
      BY <1>1, <2>1, <2>3, MiddleLineIs
  <2>5. ASSUME NEW x \in 0 .. j.w - 1
        PROVE  OffsetsAreRight(j, f[x], x, y)
    <3>1. f[x] = MiddlePixel(j, z, z * j.w, x)
      OBVIOUS
    <3>2. OffsetsAreRight(j, MiddlePixel(j, y - 1, (y - 1) * j.w, x), x, y)
      BY <1>1, <2>2, MiddlePixelIsRight
    <3> QED
      BY <3>1, <3>2
  <2>6. f = [x \in 0 .. j.w - 1 |-> f[x]]
    OBVIOUS
  <2> HIDE DEF f
  <2> QED
    BY <2>4, <2>5, <2>6, GoodLineOf
<1> QED
  BY ONLY <1>2, <1>3, <1>4

-----------------------------------------------------------------------------
(* Lines of any width have a length. *)

OneOrTwo(s) == (\E a : s = <<a>>) \/ (\E a, b : s = <<a, b>>)

LEMMA OneOrTwoInSeq ==
  ASSUME NEW s, OneOrTwo(s), NEW S, s[1] \in S, s[2] \in S
  PROVE  s \in Seq(S)
<1>1. ASSUME NEW a, s = <<a>>
      PROVE  s \in Seq(S)
  <2>1. a \in S
    BY <1>1
  <2> QED
    BY ONLY <1>1, <2>1
<1>2. ASSUME NEW a, NEW b, s = <<a, b>>
      PROVE  s \in Seq(S)
  <2>1. a \in S /\ b \in S
    BY <1>2
  <2> QED
    BY ONLY <1>2, <2>1
<1> QED
  BY <1>1, <1>2 DEF OneOrTwo

LEMMA LengthOfParts ==
  ASSUME NEW first, NEW rounds \in Nat, NEW all, NEW last, OneOrTwo(first), OneOrTwo(last)
  PROVE  Len(first \o InPairs(rounds, all) \o last) \in Nat
<1> DEFINE S == {first[1], first[2], last[1], last[2]}
                  \cup {all[i][1] : i \in 1 .. rounds} \cup {all[i][2] : i \in 1 .. rounds}
           middle == InPairs(rounds, all)
<1>1. first[1] \in S /\ first[2] \in S /\ last[1] \in S /\ last[2] \in S
  OBVIOUS
<1>2. \A i \in 1 .. rounds : all[i][1] \in S /\ all[i][2] \in S
  OBVIOUS
<1> HIDE DEF S
<1>3. first \in Seq(S) /\ last \in Seq(S)
  BY <1>1, OneOrTwoInSeq
<1>4. middle \in Seq(S)
  BY <1>2, PairsAreSequence
<1> HIDE DEF middle
<1>5. first \o middle \o last \in Seq(S)
  BY ONLY <1>3, <1>4
<1> QED
  BY ONLY <1>5 DEF middle

LEMMA RoundsAreNat == \A width \in Int : Rounds(width) \in Nat
BY DEF Rounds

LEMMA BorderLength ==
  ASSUME NEW j, j.w \in Nat, NEW y, NEW p, NEW q
  PROVE  Len(BorderLine(j, y, p, q)) \in Nat
<1> DEFINE px(a, g, c) == Ordered(j, y, a, g, c)
           green == StartsGreen(j, y)
           first == IF green
                    THEN << px({p + 1}, {p}, {q}), px({p + 1}, {p, p + 2, q + 1}, {q, q + 2}) >>
                    ELSE << px({p}, {p + 1, q}, {q + 1}) >>
           start == IF green THEN 1 ELSE 0
           width == j.w - 1 - start
           rounds == Rounds(width)
           round(i) ==
             LET b == p + start + 2 * (i - 1)
                 a == q + start + 2 * (i - 1)
             IN << px({b, b + 2}, {b + 1}, {a + 1}),
                   px({b + 2}, {b + 1, b + 3, a + 2}, {a + 1, a + 3}) >>
           b == p + start + 2 * rounds
           a == q + start + 2 * rounds
           last == IF width - 2 * rounds = 2
                   THEN << px({b, b + 2}, {b + 1}, {a + 1}),
                           px({b + 2}, {b + 1, a + 2}, {a + 1}) >>
                   ELSE << px({b}, {b + 1}, {a + 1}) >>
           all == [i \in 1 .. rounds |-> round(i)]
<1>1. BorderLine(j, y, p, q) = first \o InPairs(rounds, all) \o last
  BY DEF BorderLine
<1>2. rounds \in Nat
  <2>1. width \in Int
    OBVIOUS
  <2> HIDE DEF width
  <2> QED
    BY <2>1, RoundsAreNat
<1> HIDE DEF px, green, rounds, a, b
<1>3. OneOrTwo(first)
  BY DEF OneOrTwo
<1>4. OneOrTwo(last)
  BY DEF OneOrTwo
<1> HIDE DEF first, last, all
<1> QED
  BY <1>1, <1>2, <1>3, <1>4, LengthOfParts

LEMMA MiddleLength ==
  ASSUME NEW j, j.w \in Nat, NEW y, NEW p
  PROVE  Len(MiddleLine(j, y, p)) \in Nat
<1> DEFINE s == j.w
           px(a, g, c) == Ordered(j, y, a, g, c)
           green == StartsGreen(j, y)
           first == IF green
                    THEN << px({p + 1, p + 2*s + 1}, {p, p + 2*s, p + s + 1}, {p + s}),
                            px({p + 1, p + 2*s + 1}, {p + s + 1}, {p + s, p + s + 2}) >>
                    ELSE << px({p, p + 2*s}, {p + s}, {p + s + 1}) >>
           start == IF green THEN 1 ELSE 0
           width == j.w - 1 - start
           rounds == Rounds(width)
           cross(b) == px({b, b + 2, b + 2*s, b + 2*s + 2},
                          {b + 1, b + s, b + s + 2, b + 2*s + 1}, {b + s + 1})
           round(i) ==
             LET b == p + start + 2 * (i - 1)
             IN << cross(b), px({b + 2, b + 2*s + 2}, {b + s + 2}, {b + s + 1, b + s + 3}) >>
           b == p + start + 2 * rounds
           last == IF b < p + j.w - 2
                   THEN << cross(b), px({b + 2, b + 2*s + 2}, {b + s + 2}, {b + s + 1}) >>
                   ELSE << px({b, b + 2*s}, {b + 1, b + 2*s + 1, b + s}, {b + s + 1}) >>
           all == [i \in 1 .. rounds |-> round(i)]
<1>1. MiddleLine(j, y, p) = first \o InPairs(rounds, all) \o last
  BY DEF MiddleLine
<1>2. rounds \in Nat
  <2>1. width \in Int
    OBVIOUS
  <2> HIDE DEF width
  <2> QED
    BY <2>1, RoundsAreNat
<1> HIDE DEF px, cross, green, rounds, b, s
<1>3. OneOrTwo(first)
  BY DEF OneOrTwo
<1>4. OneOrTwo(last)
  BY DEF OneOrTwo
<1> HIDE DEF first, last, all
<1> QED
  BY <1>1, <1>2, <1>3, <1>4, LengthOfParts

-----------------------------------------------------------------------------
(* The converters, line after line. *)

(* Where a line begins in the buffer; for Bayer filters, the line above.   *)
LineStart(j, y) ==
  CASE j.layout \in PixelLayouts -> PixelsStart(j, y)
    [] j.layout \in PairLayouts  -> PairsStart(j, y)
    [] j.layout = "yuv420"       -> y * (2 * ((j.w + 1) \div 2))
    [] OTHER -> CASE y = 0   -> 0
                  [] y = j.h -> (y - 2) * j.w
                  [] OTHER   -> (y - 1) * j.w
ChromaStart(j, y) == (y \div 2) * (j.w \div 2)
Counted(j, y, n) == n <= y * j.w /\ (~Skewed(j) => n = y * j.w)

ImageTypes ==
  /\ job \in Job /\ (job.layout \in BayerLayouts => job.h > 1)
  /\ buffer = FirstPass(job)
  /\ line \in 0 .. job.h
  /\ chroma \in Nat /\ written \in Nat
Placed ==
  /\ src = LineStart(job, line)
  /\ job.layout = "yuv420" /\ ~TooSmall(job) => chroma = ChromaStart(job, line)
Converted ==
  ~TooSmall(job) => /\ Counted(job, line, written)
                    /\ line > 0 => GoodLine(job, line - 1, wrote)

ImageInv ==
  /\ ImageTypes /\ Placed /\ Converted
  /\ line = 0 => wrote = <<>> /\ written = 0

LEMMA LineStarts ==
  ASSUME NEW j, NEW y
  PROVE  /\ j.layout \in PixelLayouts => LineStart(j, y) = PixelsStart(j, y)
         /\ j.layout \in PairLayouts => LineStart(j, y) = PairsStart(j, y)
         /\ j.layout = "yuv420" => LineStart(j, y) = y * (2 * ((j.w + 1) \div 2))
         /\ j.layout \in BayerLayouts =>
              /\ y = 0 /\ j.h # 0 => LineStart(j, y) = 0
              /\ y # 0 /\ y # j.h => LineStart(j, y) = (y - 1) * j.w
              /\ y # 0 /\ y = j.h => LineStart(j, y) = (y - 2) * j.w
<1> DEFINE planes == y * (2 * ((j.w + 1) \div 2))
           above  == (y - 1) * j.w
           above2 == (y - 2) * j.w
<1>1. LineStart(j, y) =
        CASE j.layout \in PixelLayouts -> PixelsStart(j, y)
          [] j.layout \in PairLayouts  -> PairsStart(j, y)
          [] j.layout = "yuv420"       -> planes
          [] OTHER -> CASE y = 0   -> 0
                        [] y = j.h -> above2
                        [] OTHER   -> above
  BY DEF LineStart
<1> HIDE DEF planes, above, above2
<1>2. CASE j.layout \in PixelLayouts
  <2>1. j.layout \notin PairLayouts /\ j.layout # "yuv420" /\ j.layout \notin BayerLayouts
    BY <1>2 DEF PixelLayouts, PairLayouts, BayerLayouts
  <2> QED
    BY ONLY <1>1, <1>2, <2>1
<1>3. CASE j.layout \in PairLayouts
  <2>1. j.layout \notin PixelLayouts /\ j.layout # "yuv420" /\ j.layout \notin BayerLayouts
    BY <1>3 DEF PixelLayouts, PairLayouts, BayerLayouts
  <2> QED
    BY ONLY <1>1, <1>3, <2>1
<1>4. CASE j.layout = "yuv420"
  <2>1. j.layout \notin PixelLayouts /\ j.layout \notin PairLayouts /\ j.layout \notin BayerLayouts
    BY <1>4 DEF PixelLayouts, PairLayouts, BayerLayouts
  <2> QED
    BY <1>1, <1>4, <2>1 DEF planes
<1>5. CASE j.layout \in BayerLayouts
  <2>1. j.layout \notin PixelLayouts /\ j.layout \notin PairLayouts /\ j.layout # "yuv420"
    BY <1>5 DEF PixelLayouts, PairLayouts, BayerLayouts
  <2>2. LineStart(j, y) = CASE y = 0   -> 0
                            [] y = j.h -> above2
                            [] OTHER   -> above
    BY ONLY <1>1, <2>1
  <2>3. /\ y = 0 /\ j.h # 0 => LineStart(j, y) = 0
        /\ y # 0 /\ y # j.h => LineStart(j, y) = above
        /\ y # 0 /\ y = j.h => LineStart(j, y) = above2
    BY ONLY <2>2
  <2> QED
    BY <2>1, <2>3 DEF above, above2
<1> QED
  BY <1>2, <1>3, <1>4, <1>5

(* How far the converter of pairs goes in a line.                          *)
LEMMA PairsStepIsNat ==
  ASSUME NEW j \in Job, j.layout \in PairLayouts
  PROVE  4 * (j.w \div 2) + BytesPerLine(j) - j.w * 2 \in Nat
<1> DEFINE half == j.w \div 2
           bytes == BytesPerLine(j)
           step == 4 * half + bytes - j.w * 2
<1>1. j.w \in Nat /\ half \in Nat
  BY JobTypes
<1>2. bytes \in Nat /\ bytes >= 2 * j.w
  <2>1. /\ Payload(j) \in Nat /\ bytes = Payload(j) + j.pad /\ j.pad \in Nat
        /\ Payload(j) = 2 * j.w
    BY LineBytes, JobTypes DEF PairLayouts
  <2> HIDE DEF bytes
  <2> QED
    BY ONLY <1>1, <2>1
<1>3. step \in Nat
  <2> HIDE DEF half, bytes
  <2> QED
    BY ONLY <1>1, <1>2
<1> QED
  BY <1>3

LEMMA PairsStartIsNat ==
  ASSUME NEW j \in Job, j.layout \in PairLayouts, NEW y \in Nat
  PROVE  PairsStart(j, y) \in Nat
BY PairsStepIsNat, TimesIsNat DEF PairsStart

LEMMA LineStartIsNat ==
  ASSUME NEW j \in Job, NEW y \in 0 .. j.h, j.layout \in BayerLayouts => j.h > 1
  PROVE  LineStart(j, y) \in Nat
<1>1. j.w \in Nat /\ j.h \in Nat /\ j.h > 0 /\ j.pad \in Nat /\ j.layout \in Layouts /\ y \in Nat
  BY JobTypes
<1>2. CASE j.layout \in PixelLayouts
  <2>1. Unit(j) \in Nat /\ Skip(j) \in Nat
    BY <1>1 DEF Unit, Skip
  <2>2. j.w * Unit(j) + Skip(j) \in Nat
    BY <1>1, <2>1, TimesIsNat
  <2>3. PixelsStart(j, y) \in Nat
    BY <1>1, <2>2, TimesIsNat DEF PixelsStart
  <2> QED
    BY <1>2, <2>3, LineStarts
<1>3. CASE j.layout \in PairLayouts
  <2>1. PairsStart(j, y) \in Nat
    BY <1>1, <1>3, PairsStartIsNat
  <2> QED
    BY <1>3, <2>1, LineStarts
<1>4. CASE j.layout = "yuv420"
  <2>1. 2 * ((j.w + 1) \div 2) \in Nat
    BY <1>1
  <2>2. y * (2 * ((j.w + 1) \div 2)) \in Nat
    BY <1>1, <2>1, TimesIsNat
  <2> QED
    BY <1>4, <2>2, LineStarts
<1>5. CASE j.layout \in BayerLayouts
  <2>1. /\ y # 0 /\ y # j.h => LineStart(j, y) = (y - 1) * j.w /\ y - 1 \in Nat
        /\ y # 0 /\ y = j.h => LineStart(j, y) = (y - 2) * j.w /\ y - 2 \in Nat
        /\ y = 0 => LineStart(j, y) = 0
    BY <1>1, <1>5, LineStarts
  <2> QED
    BY <1>1, <2>1, TimesIsNat
<1> QED
  BY <1>1, <1>2, <1>3, <1>4, <1>5 DEF Layouts

LEMMA ImageInvInit == ImageInit => ImageInv
<1> SUFFICES ASSUME ImageInit PROVE ImageInv
  OBVIOUS
<1>1. ImageTypes
  <2>1. job \in Job
    BY DEF ImageInit
  <2> QED
    BY <2>1, JobTypes DEF ImageInit, ImageTypes
<1>2. job.w \in Nat /\ job.h \in Nat /\ job.h > 0 /\ job.pad \in Nat /\ line = 0
  BY <1>1, JobTypes DEF ImageInit, ImageTypes
<1>3. \A n \in Int : 0 * n = 0
  OBVIOUS
<1>4. LineStart(job, 0) = 0
  <2>1. PixelsStart(job, 0) = 0
    <3>1. Unit(job) \in Nat /\ Skip(job) \in Nat
      BY <1>2 DEF Unit, Skip
    <3>2. job.w * Unit(job) + Skip(job) \in Int
      BY <1>2, <3>1, TimesIsNat
    <3> QED
      BY <1>3, <3>2 DEF PixelsStart
  <2>2. PairsStart(job, 0) = 0
    <3>1. BytesPerLine(job) \in Nat
      BY <1>1, LineBytes DEF ImageTypes
    <3>2. 4 * (job.w \div 2) + BytesPerLine(job) - job.w * 2 \in Int
      BY <1>2, <3>1
    <3> QED
      BY <1>3, <3>2 DEF PairsStart
  <2>3. 0 * (2 * ((job.w + 1) \div 2)) = 0
    <3>1. 2 * ((job.w + 1) \div 2) \in Int
      BY <1>2
    <3> QED
      BY <1>3, <3>1
  <2> QED
    <3>1. job.layout \in Layouts /\ 0 # job.h
      BY <1>1, <1>2, JobTypes DEF ImageTypes
    <3> QED
      BY ONLY <2>1, <2>2, <2>3, <3>1, LineStarts DEF Layouts
<1>5. ChromaStart(job, 0) = 0 /\ 0 * job.w = 0
  <2>1. 0 \div 2 = 0 /\ job.w \div 2 \in Int
    BY <1>2
  <2> QED
    BY <1>2, <1>3, <2>1 DEF ChromaStart
<1>6. Placed
  BY <1>4, <1>5 DEF ImageInit, Placed
<1>7. Converted
  BY <1>2, <1>5 DEF ImageInit, Converted, Counted
<1> QED
  BY <1>1, <1>6, <1>7 DEF ImageInit, ImageInv

(* One more line: `n' pixels are added to the count. *)
LEMMA CountedNext ==
  ASSUME NEW j \in Job, NEW y \in Nat, NEW written0 \in Nat, NEW n \in 0 .. j.w,
         Counted(j, y, written0), ~Skewed(j) => n = j.w
  PROVE  Counted(j, y + 1, written0 + n)
<1> DEFINE m == y * j.w
           m1 == (y + 1) * j.w
<1>1. j.w \in Nat
  BY JobTypes
<1>2. m \in Nat /\ m1 = m + j.w
  BY <1>1, TimesIsNat, NextLine
<1>3. written0 <= m /\ (~Skewed(j) => written0 = m)
  BY DEF Counted
<1> HIDE DEF m, m1
<1>4. written0 + n <= m1 /\ (~Skewed(j) => written0 + n = m1)
  BY <1>1, <1>2, <1>3
<1> QED
  BY <1>4 DEF Counted, m1

(* What is to be shown of a converter.                                     *)
LEMMA LineConverted ==
  ASSUME ImageInv, NEW pixels, NEW advance, Writes(pixels, advance),
         Len(pixels) \in Nat, chroma' \in Nat,
         LineStart(job, line + 1) = src + advance,
         job.layout = "yuv420" /\ ~TooSmall(job) => chroma' = ChromaStart(job, line + 1),
         ~TooSmall(job) => GoodLine(job, line, pixels)
  PROVE  ImageInv'
<1>1. /\ job' = job /\ buffer' = buffer /\ line' = line + 1 /\ line \in Nat /\ line < job.h
      /\ wrote' = pixels /\ written' = written + Len(pixels) /\ src' = src + advance
      /\ job \in Job /\ job.h \in Nat
  BY JobTypes DEF Writes, ImageInv, ImageTypes
<1>2. ImageTypes'
  BY <1>1 DEF ImageInv, ImageTypes
<1>3. Placed'
  BY <1>1 DEF Placed
<1>4. ASSUME ~TooSmall(job)
      PROVE  Counted(job, line + 1, written + Len(pixels))
  <2>1. Len(pixels) \in 0 .. job.w /\ (~Skewed(job) => Len(pixels) = job.w)
    BY <1>4 DEF GoodLine
  <2>2. Counted(job, line, written) /\ written \in Nat
    BY <1>4 DEF ImageInv, ImageTypes, Converted
  <2> QED
    BY <1>1, <2>1, <2>2, CountedNext
<1>5. (line + 1) - 1 = line /\ line + 1 # 0
  BY <1>1
<1>6. Converted'
  BY <1>1, <1>4, <1>5 DEF Converted
<1> QED
  BY <1>1, <1>2, <1>3, <1>5, <1>6 DEF ImageInv

LEMMA PixelsConverted == ImageInv /\ ConvertPixels => ImageInv'
<1> SUFFICES ASSUME ImageInv, ConvertPixels PROVE ImageInv'
  OBVIOUS
<1>1. job \in Job /\ buffer = FirstPass(job) /\ line \in 0 .. job.h /\ line < job.h /\ chroma \in Nat
  BY DEF ImageInv, ImageTypes, ConvertPixels, Writes
<1>2. /\ job.layout \in PixelLayouts /\ job.layout # "yuv420" /\ ~TooSmall(job)
      /\ job.w \in Nat /\ job.h \in Nat /\ job.pad \in Nat /\ line \in 0 .. job.h - 1
  <2>1. /\ job.layout \in Layouts /\ job.layout \notin BayerLayouts \cup {"uyvy", "vyuy", "yuyv", "yuv420"}
        /\ job.w \in Nat /\ job.h \in Nat /\ job.pad \in Nat
    BY <1>1, JobTypes DEF ConvertPixels
  <2> QED
    BY <1>1, <2>1 DEF Layouts, PairLayouts, TooSmall
<1>3. src = PixelsStart(job, line)
  BY <1>2, LineStarts DEF ImageInv, Placed
<1> DEFINE step == job.w * Unit(job) + Skip(job)
<1>4. Writes(PixelsLine(job, line), step) /\ chroma' = chroma
  BY <1>1, <1>3 DEF ConvertPixels, PixelsLine, PixelsWritten
<1>5. GoodLine(job, line, PixelsLine(job, line))
  BY <1>1, <1>2, PixelsLineIsGood
<1>6. Len(PixelsLine(job, line)) \in Nat
  BY <1>2, <1>5 DEF GoodLine
<1>7. LineStart(job, line + 1) = src + step
  <2>1. step \in Nat /\ line \in Nat
    <3>1. Unit(job) \in Nat /\ Skip(job) \in Nat
      BY <1>2 DEF Unit, Skip
    <3> QED
      BY <1>1, <1>2, <3>1, TimesIsNat
  <2>2. LineStart(job, line + 1) = (line + 1) * step /\ src = line * step
    BY <1>2, <1>3, LineStarts DEF PixelsStart
  <2> HIDE DEF step
  <2> QED
    BY ONLY <2>1, <2>2, NextLine
<1> HIDE DEF step
<1> QED
  BY <1>1, <1>2, <1>4, <1>5, <1>6, <1>7, LineConverted

LEMMA PairsConverted == ImageInv /\ ConvertPairs => ImageInv'
<1> SUFFICES ASSUME ImageInv, ConvertPairs PROVE ImageInv'
  OBVIOUS
<1>1. job \in Job /\ buffer = FirstPass(job) /\ line \in 0 .. job.h /\ line < job.h /\ chroma \in Nat
  BY DEF ImageInv, ImageTypes, ConvertPairs, Writes
<1>2. /\ job.layout \in PairLayouts /\ job.layout # "yuv420" /\ ~TooSmall(job)
      /\ job.w \in Nat /\ job.h \in Nat /\ line \in 0 .. job.h - 1 /\ line \in Nat
  <2>1. job.layout \in PairLayouts /\ job.w \in Nat /\ job.h \in Nat
    BY <1>1, JobTypes DEF ConvertPairs, PairLayouts
  <2> QED
    BY <1>1, <2>1 DEF PairLayouts, BayerLayouts, TooSmall
<1>3. src = PairsStart(job, line)
  BY <1>2, LineStarts DEF ImageInv, Placed
<1> DEFINE step == 4 * (job.w \div 2) + BytesPerLine(job) - job.w * 2
<1>4. Writes(PairsLine(job, line), step) /\ chroma' = chroma
  BY <1>3 DEF ConvertPairs, PairsLine
<1>5. GoodLine(job, line, PairsLine(job, line))
  BY <1>1, <1>2, PairsLineIsGood
<1>6. Len(PairsLine(job, line)) \in Nat
  BY <1>2, <1>5 DEF GoodLine
<1>7. LineStart(job, line + 1) = src + step
  <2>1. step \in Nat
    BY <1>1, <1>2, PairsStepIsNat
  <2>2. LineStart(job, line + 1) = (line + 1) * step /\ src = line * step
    BY <1>2, <1>3, LineStarts DEF PairsStart
  <2> HIDE DEF step
  <2> QED
    BY ONLY <1>2, <2>1, <2>2, NextLine
<1> HIDE DEF step
<1> QED
  BY <1>1, <1>2, <1>4, <1>5, <1>6, <1>7, LineConverted

(* The planes of u and v have a line for two of the image.                 *)
LEMMA ChromaNext ==
  ASSUME NEW j, NEW y \in Nat, j.w \in Nat
  PROVE  /\ ChromaStart(j, y) \in Nat
         /\ y % 2 = 0 => ChromaStart(j, y + 1) = ChromaStart(j, y)
         /\ y % 2 # 0 => ChromaStart(j, y + 1) = ChromaStart(j, y) + j.w \div 2
<1> DEFINE half == j.w \div 2
           q == y \div 2
           q1 == (y + 1) \div 2
<1>1. q \in Nat /\ q1 \in Nat /\ half \in Nat /\ (y % 2 = 0 => q1 = q) /\ (y % 2 # 0 => q1 = q + 1)
  OBVIOUS
<1>2. ChromaStart(j, y) = q * half /\ ChromaStart(j, y + 1) = q1 * half
  BY DEF ChromaStart
<1> HIDE DEF half, q, q1
<1>3. q * half \in Nat
  BY ONLY <1>1, TimesIsNat
<1>4. y % 2 # 0 => q1 * half = q * half + half
  BY ONLY <1>1, NextLine
<1> QED
  BY <1>1, <1>2, <1>3, <1>4 DEF half

LEMMA PlanesConverted == ImageInv /\ ConvertPlanes => ImageInv'
<1> SUFFICES ASSUME ImageInv, ConvertPlanes PROVE ImageInv'
  OBVIOUS
<1>1. job \in Job /\ buffer = FirstPass(job) /\ line \in 0 .. job.h /\ line < job.h /\ chroma \in Nat
  BY DEF ImageInv, ImageTypes, ConvertPlanes, Writes
<1>2. /\ job.layout = "yuv420" /\ job.w \in Nat /\ job.h \in Nat
      /\ line \in 0 .. job.h - 1 /\ line \in Nat
  BY <1>1, JobTypes DEF ConvertPlanes
<1> DEFINE pairs == (job.w + 1) \div 2
           half  == job.w \div 2
           area  == job.w * job.h
           u(i)  == area + area \div 4 + chroma + i - 1
           v(i)  == area + chroma + i - 1
           pair(i) == <<Yuv(src + 2 * i - 2, u(i), v(i)), Yuv(src + 2 * i - 1, u(i), v(i))>>
           pixels == InPairs(pairs, [i \in 1 .. pairs |-> pair(i)])
<1>3. /\ Writes(pixels, 2 * pairs)
      /\ chroma' = chroma + pairs - (IF line % 2 = 0 THEN half ELSE 0)
  BY DEF ConvertPlanes
<1>4. pairs \in Nat /\ half \in Nat /\ half <= pairs
  BY <1>2
<1>5. Len(pixels) \in Nat
  <2> HIDE DEF pairs
  <2>1. Len(pixels) = 2 * pairs
    BY <1>4, PixelsInPairs
  <2> HIDE DEF pixels
  <2> QED
    BY ONLY <1>4, <2>1
<1>6. chroma' \in Nat
  <2> HIDE DEF pairs, half
  <2> QED
    BY ONLY <1>1, <1>3, <1>4
<1>7. LineStart(job, line + 1) = src + 2 * pairs
  <2> DEFINE step == 2 * pairs
  <2>1. step \in Nat
    BY <1>4
  <2>2. src = LineStart(job, line)
    BY DEF ImageInv, Placed
  <2>3. LineStart(job, line + 1) = (line + 1) * step /\ LineStart(job, line) = line * step
    BY <1>2, LineStarts
  <2> HIDE DEF step
  <2>4. LineStart(job, line + 1) = src + step
    BY ONLY <1>2, <2>1, <2>2, <2>3, NextLine
  <2> QED
    BY <2>4 DEF step
<1>8. ASSUME ~TooSmall(job)
      PROVE  pairs = half /\ 2 * pairs = job.w /\ chroma = ChromaStart(job, line)
  <2>1. job.w % 2 # 1
    BY <1>2, <1>8 DEF TooSmall
  <2>2. pairs = half /\ 2 * pairs = job.w
    BY ONLY <1>2, <2>1
  <2> QED
    BY <1>2, <1>8, <2>2 DEF ImageInv, Placed
<1>9. ASSUME ~TooSmall(job)
      PROVE  chroma' = ChromaStart(job, line + 1)
  <2> DEFINE c0 == ChromaStart(job, line)
             c1 == ChromaStart(job, line + 1)
  <2>1. c0 \in Nat /\ (line % 2 = 0 => c1 = c0) /\ (line % 2 # 0 => c1 = c0 + half)
    BY <1>2, ChromaNext
  <2>2. pairs = half /\ chroma = c0
    BY <1>8, <1>9
  <2> DEFINE odd == line % 2
  <2>3. chroma' = chroma + pairs - (IF odd = 0 THEN half ELSE 0)
    BY <1>3
  <2>4. (odd = 0 => c1 = c0) /\ (odd # 0 => c1 = c0 + half)
    BY <2>1
  <2> HIDE DEF pairs, half, c0, c1, odd
  <2>5. chroma' = c1
    BY ONLY <1>4, <2>1, <2>2, <2>3, <2>4
  <2> QED
    BY <2>5 DEF c1
<1>10. ASSUME ~TooSmall(job)
       PROVE  GoodLine(job, line, pixels)
  <2>1. pairs = half /\ 2 * pairs = job.w /\ chroma = (line \div 2) * half
    BY <1>8, <1>10 DEF ChromaStart
  <2>2. src = line * job.w
    <3>1. src = line * (2 * pairs)
      BY <1>2, LineStarts DEF ImageInv, Placed
    <3> HIDE DEF pairs
    <3> QED
      BY ONLY <2>1, <3>1
  <2>3. PlanesLine(job, line) = InPairs(half, [i \in 1 .. half |->
          <<Yuv(src + 2 * i - 2, u(i), v(i)), Yuv(src + 2 * i - 1, u(i), v(i))>>])
    <3> HIDE DEF area
    <3> QED
      BY ONLY <2>1, <2>2 DEF PlanesLine, area, half
  <2>4. pixels = PlanesLine(job, line)
    <3> HIDE DEF pairs, half, u, v
    <3> QED
      BY ONLY <2>1, <2>3 DEF pixels, pair
  <2> HIDE DEF pixels
  <2> QED
    BY ONLY <1>1, <1>2, <1>10, <2>4, PlanesLineIsGood
<1> HIDE DEF pixels, pairs
<1> QED
  BY <1>3, <1>5, <1>6, <1>7, <1>9, <1>10, LineConverted

LEMMA BayerConverted == ImageInv /\ ConvertBayer => ImageInv'
<1> SUFFICES ASSUME ImageInv, ConvertBayer PROVE ImageInv'
  OBVIOUS
<1>1. job \in Job /\ line \in 0 .. job.h /\ line < job.h /\ chroma \in Nat /\ chroma' = chroma
  BY DEF ImageInv, ImageTypes, ConvertBayer, Writes
<1>2. /\ job.layout \in BayerLayouts /\ job.layout # "yuv420" /\ job.w \in Nat /\ job.h \in Nat
      /\ job.h > 1 /\ line \in 0 .. job.h - 1 /\ line \in Nat
  <2>1. job.layout \in BayerLayouts /\ job.w \in Nat /\ job.h \in Nat /\ job.h > 1
    BY <1>1, JobTypes DEF ConvertBayer, ImageInv, ImageTypes
  <2> QED
    BY <1>1, <2>1 DEF BayerLayouts
<1>3. src = LineStart(job, line)
  BY DEF ImageInv, Placed
<1>4. \E pixels, advance :
        /\ Writes(pixels, advance) /\ pixels = BayerLine(job, line) /\ Len(pixels) \in Nat
        /\ LineStart(job, line + 1) = src + advance
  <2>1. CASE line = 0
    <3>1. src = 0 /\ LineStart(job, line + 1) = 0 * job.w
      <4>1. job.h # 0 /\ line + 1 # 0 /\ line + 1 # job.h /\ (line + 1) - 1 = 0
        BY <1>2, <2>1
      <4>2. src = 0
        BY <1>2, <1>3, <2>1, <4>1, LineStarts
      <4>3. LineStart(job, line + 1) = ((line + 1) - 1) * job.w
        BY <1>2, <4>1, LineStarts
      <4> QED
        BY ONLY <4>1, <4>2, <4>3
    <3>2. Writes(BorderLine(job, 0, src, src + job.w), 0)
      BY <1>2, <2>1 DEF ConvertBayer
    <3>3. src + job.w = job.w /\ 0 * job.w = 0 /\ 0 + 0 = 0
      BY ONLY <1>2, <3>1
    <3>4. BayerLine(job, line) = BorderLine(job, 0, 0, job.w)
      BY <1>2, <2>1 DEF BayerLine
    <3>5. Len(BayerLine(job, line)) \in Nat
      BY <1>2, <3>4, BorderLength
    <3>6. Writes(BayerLine(job, line), 0) /\ LineStart(job, line + 1) = src + 0
      BY ONLY <3>1, <3>2, <3>3, <3>4
    <3> QED
      BY <3>5, <3>6
  <2>2. CASE line # 0 /\ line = job.h - 1
    <3> DEFINE above == (line - 1) * job.w
    <3>1. src = above /\ LineStart(job, line + 1) = above /\ above \in Nat
      <4>1. /\ line # 0 /\ line # job.h /\ line + 1 # 0 /\ line + 1 = job.h
            /\ (line + 1) - 2 = line - 1 /\ line - 1 \in Nat
        BY <1>2, <2>2
      <4>2. src = above
        BY <1>2, <1>3, <4>1, LineStarts
      <4>3. LineStart(job, line + 1) = ((line + 1) - 2) * job.w
        BY <1>2, <4>1, LineStarts
      <4>4. above \in Nat
        BY <1>2, <4>1, TimesIsNat
      <4> QED
        BY ONLY <4>1, <4>2, <4>3, <4>4
    <3>2. Writes(BorderLine(job, line, src + job.w, src), 0)
      BY <1>2, <2>2 DEF ConvertBayer
    <3>3. src + job.w = line * job.w /\ src + 0 = src
      <4>1. line - 1 \in Nat /\ line = (line - 1) + 1
        BY <1>2, <2>2
      <4>2. line * job.w = above + job.w
        BY <1>2, <4>1, NextLine
      <4> HIDE DEF above
      <4> QED
        BY ONLY <3>1, <4>2
    <3>4. BayerLine(job, line) = BorderLine(job, line, line * job.w, above)
      BY <2>2 DEF BayerLine
    <3> HIDE DEF above
    <3>5. Len(BayerLine(job, line)) \in Nat
      BY <1>2, <3>4, BorderLength
    <3>6. Writes(BayerLine(job, line), 0) /\ LineStart(job, line + 1) = src + 0
      BY ONLY <3>1, <3>2, <3>3, <3>4
    <3> QED
      BY <3>5, <3>6
  <2>3. CASE line # 0 /\ line # job.h - 1
    <3> DEFINE above == (line - 1) * job.w
    <3>1. src = above /\ LineStart(job, line + 1) = line * job.w /\ above \in Nat
      <4>1. /\ line # 0 /\ line # job.h /\ line + 1 # 0 /\ line + 1 # job.h
            /\ (line + 1) - 1 = line /\ line - 1 \in Nat
        BY <1>2, <2>3
      <4>2. src = above
        BY <1>2, <1>3, <4>1, LineStarts
      <4>3. LineStart(job, line + 1) = ((line + 1) - 1) * job.w
        BY <1>2, <4>1, LineStarts
      <4>4. above \in Nat
        BY <1>2, <4>1, TimesIsNat
      <4> QED
        BY ONLY <4>1, <4>2, <4>3, <4>4
    <3>2. Writes(MiddleLine(job, line - 1, src), job.w)
      BY <1>2, <2>3 DEF ConvertBayer
    <3>3. src + job.w = line * job.w
      <4>1. line - 1 \in Nat /\ line = (line - 1) + 1
        BY <1>2, <2>3
      <4>2. line * job.w = above + job.w
        BY <1>2, <4>1, NextLine
      <4> HIDE DEF above
      <4> QED
        BY ONLY <3>1, <4>2
    <3>4. BayerLine(job, line) = MiddleLine(job, line - 1, above)
      BY <2>3 DEF BayerLine
    <3> HIDE DEF above
    <3>5. Len(BayerLine(job, line)) \in Nat
      BY <1>2, <3>4, MiddleLength
    <3>6. Writes(BayerLine(job, line), job.w) /\ LineStart(job, line + 1) = src + job.w
      BY ONLY <3>1, <3>2, <3>3, <3>4
    <3> QED
      BY <3>5, <3>6
  <2> QED
    BY ONLY <2>1, <2>2, <2>3
<1>5. ~TooSmall(job) => GoodLine(job, line, BayerLine(job, line))
  BY <1>1, <1>2, BayerLineIsGood
<1> QED
  BY <1>1, <1>2, <1>4, <1>5, LineConverted

LEMMA ImageInvStep == ImageInv /\ [ImageNext]_imageVars => ImageInv'
<1>1. ImageInv /\ UNCHANGED imageVars => ImageInv'
  BY DEF imageVars, ImageInv, ImageTypes, Placed, Converted
<1> QED
  BY <1>1, PixelsConverted, PairsConverted, PlanesConverted, BayerConverted DEF ImageNext

LEMMA ImageTypesCorrect == ImageInv => ImageTypeOK
<1> SUFFICES ASSUME ImageInv PROVE ImageTypeOK
  OBVIOUS
<1>1. /\ job \in Job /\ buffer = FirstPass(job) /\ line \in 0 .. job.h
      /\ chroma \in Nat /\ written \in Nat /\ job.w \in Nat /\ job.h \in Nat
      /\ job.layout \in BayerLayouts => job.h > 1
  BY JobTypes DEF ImageInv, ImageTypes
<1>2. ASSUME NEW o \in DOMAIN buffer
      PROVE  o \in Nat /\ buffer[o] \in Nat
  <2>1. PICK c \in Int : DOMAIN FirstPass(job) = 0 .. c - 1
    BY <1>1, BufferInFrame
  <2>2. FirstPass(job)[o] \in 0 .. FrameSize(job) - 1
    BY <1>1, BufferInFrame
  <2> QED
    BY <1>1, <2>1, <2>2, FrameSizes
<1>3. src \in Nat
  <2>1. src = LineStart(job, line)
    BY DEF ImageInv, Placed
  <2> QED
    BY <1>1, <2>1, LineStartIsNat
<1> QED
  BY <1>1, <1>2, <1>3 DEF ImageTypeOK

LEMMA PixelsAreRight == ImageInv => PixelsFromTheirPlace
<1> SUFFICES ASSUME ImageInv, ~TooSmall(job) PROVE PixelsFromTheirPlace
  BY DEF PixelsFromTheirPlace
<1>1. /\ job \in Job /\ buffer = FirstPass(job) /\ line \in 0 .. job.h /\ line \in Nat
      /\ job.w \in Nat \ {0} /\ job.h \in Nat /\ job.h > 0 /\ written \in Nat
      /\ job.layout \in Layouts
  BY JobTypes DEF ImageInv, ImageTypes
<1>2. \A o \in DOMAIN buffer : buffer[o] \in 0 .. FrameSize(job) - 1
  BY <1>1, BufferInFrame
<1>3. Readable = ReadableOf(job)
  BY <1>1 DEF Readable, ReadableOf
<1>4. Counted(job, line, written)
  BY DEF ImageInv, Converted
<1>5. line * job.w <= job.w * job.h /\ (line = job.h => line * job.w = job.w * job.h)
  <2>1. line <= job.h
    BY <1>1
  <2>2. line * job.w <= job.h * job.w
    BY ONLY <1>1, <2>1, TimesMonotone
  <2>3. job.h * job.w = job.w * job.h
    BY ONLY <1>1
  <2> QED
    BY ONLY <2>2, <2>3
<1>6. /\ written <= job.w * job.h
      /\ ~Skewed(job) /\ line = job.h => written = job.w * job.h
  <2> DEFINE m == line * job.w
             all == job.w * job.h
  <2>1. m \in Nat /\ all \in Nat
    BY <1>1, TimesIsNat
  <2>2. written <= m /\ (~Skewed(job) => written = m)
    BY <1>4 DEF Counted
  <2> HIDE DEF m, all
  <2>3. m <= all /\ (line = job.h => m = all)
    BY ONLY <1>5 DEF m, all
  <2>4. written <= all /\ (~Skewed(job) /\ line = job.h => written = all)
    BY ONLY <1>1, <2>1, <2>2, <2>3
  <2> QED
    BY <2>4 DEF all
<1>7. CASE line = 0
  <2>1. wrote = <<>> /\ DOMAIN wrote = {}
    BY <1>7 DEF ImageInv
  <2> QED
    BY <1>2, <1>6, <2>1 DEF PixelsFromTheirPlace
<1>8. CASE line > 0
  <2> DEFINE y == line - 1
  <2>1. GoodLine(job, y, wrote) /\ y \in Nat /\ line = y + 1
    BY <1>1, <1>8 DEF ImageInv, Converted
  <2>2. \A i \in DOMAIN wrote, c \in 1 .. 3 : wrote[i][c] \subseteq Readable
    BY <1>3, <2>1 DEF GoodLine
  <2>3. ASSUME ~Skewed(job), NEW i \in DOMAIN wrote
        PROVE  LET k == written - Len(wrote) + i - 1
                   pixel == InFrame(buffer, wrote[i])
               IN CASE job.layout \in BayerLayouts ->
                         IsDemosaiced(job, pixel, Column(k), Row(k))
                    [] Miscoloured(job) -> pixel = MiscolouredPixel(job, Column(k), Row(k))
                    [] OTHER -> pixel = LayoutPixel(job, Column(k), Row(k))
    <3> DEFINE k == written - Len(wrote) + i - 1
               x == i - 1
    <3>1. Len(wrote) = job.w /\ i \in 1 .. job.w
      BY <2>1, <2>3 DEF GoodLine
    <3>2. x \in 0 .. job.w - 1 /\ i = x + 1
      BY <1>1, <3>1
    <3>3. RightPixel(job, wrote[x + 1], x, y)
      BY <2>1, <2>3, <3>2 DEF GoodLine
    <3>4. k = y * job.w + x
      <4> DEFINE m == y * job.w
      <4>1. written = m + job.w
        <5>1. written = line * job.w
          BY <1>4, <2>3 DEF Counted
        <5>2. line * job.w = y * job.w + job.w
          <6> HIDE DEF y
          <6> QED
            BY ONLY <1>1, <2>1, NextLine
        <5> QED
          BY <5>1, <5>2
      <4>2. m \in Nat
        <5> HIDE DEF y
        <5> QED
          BY <1>1, <2>1, TimesIsNat
      <4>3. k = m + x
        <5> HIDE DEF m
        <5> QED
          BY <1>1, <3>1, <4>1, <4>2
      <4> QED
        BY <4>3
    <3>5. Column(k) = x /\ Row(k) = y
      <4> HIDE DEF k, x, y
      <4> QED
        BY <1>1, <2>1, <3>2, <3>4, RowColumn DEF Column, Row
    <3> HIDE DEF k, x, y
    <3>6. (CASE job.layout \in BayerLayouts ->
                  IsDemosaiced(job, InFrame(buffer, wrote[i]), Column(k), Row(k))
             [] Miscoloured(job) ->
                  InFrame(buffer, wrote[i]) = MiscolouredPixel(job, Column(k), Row(k))
             [] OTHER -> InFrame(buffer, wrote[i]) = LayoutPixel(job, Column(k), Row(k)))
      BY <1>1, <3>2, <3>3, <3>5 DEF RightPixel
    <3> QED
      BY <3>6 DEF k
  <2> QED
    BY <1>2, <1>6, <2>2, <2>3 DEF PixelsFromTheirPlace
<1> QED
  BY <1>1, <1>7, <1>8

(* The converter's pointers and counters never become negative, and its    *)
(* line stays in the image.                                                *)
THEOREM ImageTypeCorrect == ImageSpec => []ImageTypeOK
BY ImageInvInit, ImageInvStep, ImageTypesCorrect, PTL DEF ImageSpec

(* Each pixel of an image is made from the bytes that V4L2 assigns to it,  *)
(* each in its colour, and the converters stay in the frame and in the     *)
(* image.  Where padding, parity or size excuse an image see Skewed and    *)
(* TooSmall; the wrong colours of YUV420 and RGB32 are the ones that       *)
(* MiscolouredPixel says.                                                  *)
THEOREM PixelsAreFromTheirPlace == ImageSpec => []PixelsFromTheirPlace
<1>1. ImageSpec => []ImageInv
  BY ImageInvInit, ImageInvStep, PTL DEF ImageSpec
<1> QED
  BY <1>1, PixelsAreRight, PTL

=============================================================================
