--------------------------- MODULE SurfaceLayout ---------------------------
(***************************************************************************)
(* The picture algorithms of nexus-client's decoder and renderer: the size *)
(* checks on a surface, the copy out of a mapped Media Foundation buffer,  *)
(* the removal of row padding, and the colour conversion.  Bytes are       *)
(* functions from 0-based positions.  In a copy a byte is named by its     *)
(* address in the buffer it was read from.                                 *)
(***************************************************************************)
EXTENDS Integers, FiniteSets

CONSTANTS
  MaxWidth, MaxHeight,  \* MAX_SURFACE_WIDTH and MAX_SURFACE_HEIGHT
  MaxBytes,             \* MAX_SURFACE_BYTES
  BufferSlack,          \* bound: bytes by which a reported extent strays from the picture's
  Fillings              \* bound: the byte patterns converted, as pairs (step, first)

ASSUME LayoutAssumption ==
  /\ MaxWidth \in Nat /\ MaxHeight \in Nat /\ MaxBytes \in Nat /\ BufferSlack \in Nat
  /\ Fillings \subseteq (0 .. 255) \X (0 .. 255)

Invalid == [ok |-> FALSE]
Ok(bytes, stride) == [ok |-> TRUE, bytes |-> bytes, stride |-> stride]
Length(bytes) == Cardinality(DOMAIN bytes)

ValidDimensions(w, h) ==
  /\ w \in 1 .. MaxWidth /\ h \in 1 .. MaxHeight
  /\ w % 2 = 0 /\ h % 2 = 0

Nv12Length(w, h) == w * h + (w * h) \div 2

ValidNv12(w, h) == ValidDimensions(w, h) /\ Nv12Length(w, h) <= MaxBytes

Rows(h) == h + h \div 2

\* DecodedSurface::validate.
ValidSurface(bytes, w, h, format) ==
  LET expected == IF format = "Nv12" THEN Nv12Length(w, h) ELSE 4 * w * h
  IN  ValidDimensions(w, h) /\ expected <= MaxBytes /\ Length(bytes) = expected

----------------------------------------------------------------------------
(* The copy out of a media buffer.  b is what the native buffer reports:   *)
(* its interface, maximal and current length, and for a mapped buffer the  *)
(* pitch, the first byte's offset and the length of the allocation.        *)

\* IMF2DBuffer2: the mapped rows, padding included.
CopyMapped(b, w, h) ==
  LET length == b.pitch * Rows(h)
  IN  IF \/ b.pitch < w
         \/ b.extent > b.max \/ b.extent > MaxBytes
         \/ b.offset < 0
         \/ b.offset + length > b.extent
      THEN Invalid
      ELSE Ok([i \in 0 .. length - 1 |-> b.offset + i], b.pitch)

\* IMF2DBuffer: a contiguous copy the buffer makes itself.
CopyContiguous(b, w, h) ==
  IF b.extent # Nv12Length(w, h) \/ b.extent > b.max
  THEN Invalid
  ELSE Ok([i \in 0 .. b.extent - 1 |-> i], w)

\* IMFMediaBuffer: a linear lock that reports its lengths once more.
CopyLinear(b, w, h) ==
  IF \/ b.extent > b.max \/ b.extent > MaxBytes
     \/ b.locked < Nv12Length(w, h) \/ b.locked > b.extent
  THEN Invalid
  ELSE Ok([i \in 0 .. Nv12Length(w, h) - 1 |-> i], w)

CopyBufferWithStride(b, w, h) ==
  IF b.max > MaxBytes \/ b.actual > b.max \/ ~ ValidNv12(w, h) \/ b.actual < Nv12Length(w, h)
  THEN Invalid
  ELSE CASE b.interface = "mapped"     -> CopyMapped(b, w, h)
         [] b.interface = "contiguous" -> CopyContiguous(b, w, h)
         [] b.interface = "linear"     -> CopyLinear(b, w, h)

RepackNv12PackedChroma(source, stride, w, h) ==
  IF ~ ValidNv12(w, h) \/ stride < w \/ Length(source) < stride * Rows(h)
  THEN Invalid
  ELSE Ok([i \in 0 .. Nv12Length(w, h) - 1 |->
             source[IF i < w * h THEN (i \div w) * stride + (i % w)
                    ELSE w * h + ((i - w * h) \div w) * stride + (i % w)]], w)

\* Both planes without their padding: the luma rows, then the chroma rows.
RepackNv12(source, stride, w, h) ==
  IF ~ ValidNv12(w, h) \/ stride < w \/ Length(source) < stride * Rows(h)
  THEN Invalid
  ELSE LET luma == [i \in 0 .. w * h - 1 |-> source[(i \div w) * stride + (i % w)]]
           chroma(i) == source[h * stride + (i \div w) * stride + (i % w)]
       IN  Ok([i \in 0 .. Nv12Length(w, h) - 1 |->
                 IF i < w * h THEN luma[i] ELSE chroma(i - w * h)], w)

----------------------------------------------------------------------------
(* Colours *)

Clamp(v) == IF v < 0 THEN 0 ELSE IF v > 255 THEN 255 ELSE v

\* nv12_to_bgra of one pixel, blue first; >> 8 of an i32 rounds down.
Bgra(y, u, v) ==
  LET luma == IF y < 16 THEN 0 ELSE y - 16
      d == u - 128
      e == v - 128
  IN  <<Clamp((298 * luma + 516 * d + 128) \div 256),
        Clamp((298 * luma - 100 * d - 208 * e + 128) \div 256),
        Clamp((298 * luma + 409 * e + 128) \div 256),
        255>>

Nv12ToBgra(bytes, w, h) ==
  [p \in 0 .. w * h - 1 |->
     LET x == p % w
         chroma == w * h + ((p \div w) \div 2) * w + 2 * (x \div 2)
     IN  Bgra(bytes[p], bytes[chroma], bytes[chroma + 1])]

----------------------------------------------------------------------------
(* Properties of the algorithms *)

Dimensions == {d \in (0 .. MaxWidth + 1) \X (0 .. MaxHeight + 1) : ValidDimensions(d[1], d[2])}

Near(n) == {m \in n - BufferSlack .. n + BufferSlack : m >= 0}

\* The buffers a driver may report for a picture of w by h.
Buffers(w, h) ==
  LET n == Nv12Length(w, h)
  IN  [interface : {"mapped"}, max : {n + 2 * Rows(h), MaxBytes + 1}, actual : {n - 1, n},
       pitch : {-w, w - 1, w, w + 2}, offset : {-1, 0, 2}, locked : {n},
       extent : Near(w * Rows(h)) \cup Near((w + 2) * Rows(h))]
      \cup
      [interface : {"contiguous", "linear"}, max : {n - 1, n, n + 1}, actual : Near(n),
       pitch : {w}, offset : {0}, locked : Near(n), extent : Near(n)]

\* No byte outside the reported allocation of a native buffer is read: what
\* copy_buffer_with_stride copies lies inside it whatever pitch, offset and lengths the
\* driver reports, and a copy it returns is always long enough to be repacked.
CopiesStayInside ==
  \A d \in Dimensions : \A b \in Buffers(d[1], d[2]) :
    LET copy == CopyBufferWithStride(b, d[1], d[2])
    IN  copy.ok => /\ \A i \in DOMAIN copy.bytes : copy.bytes[i] \in 0 .. b.extent - 1
                   /\ RepackNv12(copy.bytes, copy.stride, d[1], d[2]).ok

\* Where the sample of a plane at row r, column c lies in the native buffer.
PlaneAddress(b, w, h, plane, r, c) ==
  LET pitch == IF b.interface = "mapped" THEN b.pitch ELSE w
      start == IF b.interface = "mapped" THEN b.offset ELSE 0
  IN  start + (IF plane = "luma" THEN r ELSE h + r) * pitch + c

\* The surface handed to the renderer is the picture in the native buffer: after the copy
\* and the removal of the padding every luma and chroma sample is the one of its row and
\* column, and the surface passes its own validation.
PictureKept ==
  \A d \in Dimensions : \A b \in Buffers(d[1], d[2]) :
    LET w == d[1]
        h == d[2]
        copy == CopyBufferWithStride(b, w, h)
        packed == RepackNv12(copy.bytes, copy.stride, w, h)
    IN  copy.ok =>
          /\ ValidSurface(packed.bytes, w, h, "Nv12")
          /\ \A r \in 0 .. h - 1, c \in 0 .. w - 1 :
               packed.bytes[r * w + c] = PlaneAddress(b, w, h, "luma", r, c)
          /\ \A r \in 0 .. h \div 2 - 1, c \in 0 .. w - 1 :
               packed.bytes[w * h + r * w + c] = PlaneAddress(b, w, h, "chroma", r, c)

\* BT.601 with studio range, in ten-thousandths.
Reference(y, u, v) ==
  LET luma == 11644 * (IF y < 16 THEN 0 ELSE y - 16)
  IN  <<luma + 20172 * (u - 128), luma - 3918 * (u - 128) - 8130 * (v - 128),
        luma + 15960 * (v - 128)>>

\* The integer conversion shows the picture's colours: every channel of every pixel is
\* within one step of BT.601 applied to the pixel's own luma and its two-by-two block's
\* chroma.
ColoursWithinOne ==
  \A d \in Dimensions, f \in Fillings :
    LET w == d[1]
        h == d[2]
        bytes == [i \in 0 .. Nv12Length(w, h) - 1 |-> (f[2] + f[1] * i) % 256]
        shown == Nv12ToBgra(bytes, w, h)
    IN  \A r \in 0 .. h - 1, c \in 0 .. w - 1 : \A channel \in 1 .. 3 :
          LET block == w * h + (r \div 2) * w + 2 * (c \div 2)
              exact == Reference(bytes[r * w + c], bytes[block], bytes[block + 1])[channel]
              got == shown[r * w + c][channel]
          IN  \/ 10000 * (got - 1) <= exact /\ exact <= 10000 * (got + 1)
              \/ got = 0 /\ exact < 0
              \/ got = 255 /\ exact > 2550000
============================================================================
