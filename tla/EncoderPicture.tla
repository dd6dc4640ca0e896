--------------------------- MODULE EncoderPicture ---------------------------
(***************************************************************************)
(* The picture algorithms of platform/windows' encoder: the checked layout *)
(* of a frame, the removal of the row padding of a mapped texture, and the *)
(* conversion of a captured picture to NV12.  They are composed here with  *)
(* the conversion nexus-client applies to the decoded picture              *)
(* (SurfaceLayout).  Bytes are functions from 0-based positions; in a copy *)
(* a byte is named by its address in the texture.                          *)
(***************************************************************************)
EXTENDS SurfaceLayout

CONSTANTS
  MaxSize,              \* usize::MAX
  MaxSide,              \* bound: the sides of the enumerated pictures
  Colours               \* bound: the colours converted, as triples blue, green, red

ASSUME PictureAssumption ==
  /\ MaxSize \in Nat /\ MaxSide \in Nat
  /\ Colours \subseteq (0 .. 255) \X (0 .. 255) \X (0 .. 255)

\* Nv12Layout::from_bgra_dimensions: even sides, and lengths that fit a usize.
Nv12Layout(w, h) ==
  IF \/ w = 0 \/ h = 0 \/ w % 2 # 0 \/ h % 2 # 0
     \/ 4 * w > MaxSize \/ 4 * w * h > MaxSize
     \/ w * h + (w * h) \div 2 > MaxSize
  THEN Invalid
  ELSE [ok |-> TRUE, width |-> w, height |-> h, bgra_stride |-> 4 * w, bgra_len |-> 4 * w * h,
        y_len |-> w * h, output_len |-> w * h + (w * h) \div 2]

BgraOffset(l, row, column) == row * l.bgra_stride + column * 4
Nv12Offset(l, row, column) == row * l.width + column

\* Where the blue difference of a block goes; the red one follows it.
ChromaOffset(l, row, column) == l.y_len + (row \div 2) * l.width + column

----------------------------------------------------------------------------
(* The colour conversion.  >> 8 of an i32 rounds down. *)

Luma(b, g, r) == Clamp((66 * r + 129 * g + 25 * b + 128) \div 256 + 16)
BlueDifference(b, g, r) == (112 * b - 38 * r - 74 * g + 128) \div 256 + 128
RedDifference(b, g, r) == (112 * r - 94 * g - 18 * b + 128) \div 256 + 128

Block == (0 .. 1) \X (0 .. 1)

\* The mean of a difference over the four pixels of a block.
Mean(f) == Clamp((f[<<0, 0>>] + f[<<0, 1>>] + f[<<1, 0>>] + f[<<1, 1>>]) \div 4)

\* bgra_to_nv12: the luma of every pixel, then the mean differences of every block.
BgraToNv12(data, w, h) ==
  LET l == Nv12Layout(w, h) IN
  IF ~l.ok \/ Length(data) # l.bgra_len THEN Invalid
  ELSE Ok([i \in 0 .. l.output_len - 1 |->
             IF i < l.y_len
             THEN LET p == BgraOffset(l, i \div w, i % w)
                  IN  Luma(data[p], data[p + 1], data[p + 2])
             ELSE LET row == 2 * ((i - l.y_len) \div w)
                      column == 2 * (((i - l.y_len) % w) \div 2)
                      at(d) == BgraOffset(l, row + d[1], column + d[2])
                  IN  Mean([d \in Block |->
                        IF i = ChromaOffset(l, row, column)
                        THEN BlueDifference(data[at(d)], data[at(d) + 1], data[at(d) + 2])
                        ELSE RedDifference(data[at(d)], data[at(d) + 1], data[at(d) + 2])])], w)

----------------------------------------------------------------------------
(* The texture a D3D11 converter leaves *)

\* copy_pitched_nv12 of a mapping of the given length.
CopyPitchedNv12(length, pitch, l) ==
  IF \/ pitch < l.width \/ Rows(l.height) > MaxSize
     \/ pitch * Rows(l.height) > MaxSize \/ length < pitch * Rows(l.height)
  THEN Invalid
  ELSE Ok([i \in 0 .. l.output_len - 1 |->
             IF i < l.y_len THEN (i \div l.width) * pitch + (i % l.width)
             ELSE l.height * pitch + ((i - l.y_len) \div l.width) * pitch + (i % l.width)],
          l.width)

\* Faulty variant: the mapping is taken to be as long as the picture without its padding.
CopyMappedNv12Tight(pitch, null, w, h) ==
  LET l == Nv12Layout(w, h) IN
  IF ~l.ok \/ null \/ pitch < w THEN Invalid ELSE CopyPitchedNv12(l.output_len, pitch, l)

\* copy_mapped_nv12: the mapping is the rows of both planes.
CopyMappedNv12(pitch, null, w, h) ==
  LET l == Nv12Layout(w, h) IN
  IF ~l.ok \/ null \/ pitch < w \/ pitch * Rows(h) > MaxSize THEN Invalid
  ELSE CopyPitchedNv12(pitch * Rows(h), pitch, l)

----------------------------------------------------------------------------
(* Properties of the algorithms *)

Sides == (0 .. MaxSide) \X (0 .. MaxSide)

\* A layout that passes its checks bounds every access made with it: all bytes of each pixel
\* of each two-by-two block lie in the captured frame, every luma sample and both differences
\* of a block in their own plane of the output, and no offset overflows (Nv12Layout).
OffsetsInLayout ==
  \A d \in Sides :
    LET l == Nv12Layout(d[1], d[2]) IN
    l.ok => \A row \in 0 .. l.height - 1, column \in 0 .. l.width - 1 :
              /\ Nv12Offset(l, row, column) < l.y_len
              /\ row % 2 = 0 /\ column % 2 = 0 =>
                   /\ \A b \in Block : BgraOffset(l, row + b[1], column + b[2]) + 3 < l.bgra_len
                   /\ ChromaOffset(l, row, column) \in l.y_len .. l.output_len - 2
              /\ l.bgra_len <= MaxSize /\ l.output_len <= MaxSize

\* A mapped texture is encoded whatever its pitch, without its padding: a copy fails only for
\* a pitch no texture of the size has, or a length no usize holds, and every sample in it is
\* the one of its plane, row and column (copy_mapped_nv12, copy_pitched_nv12).
TextureKept ==
  \A d \in Sides : \A pitch \in 0 .. MaxSide + 2 :
    LET w == d[1]
        h == d[2]
        copy == CopyMappedNv12(pitch, FALSE, w, h)
    IN  Nv12Layout(w, h).ok /\ pitch >= w /\ pitch * Rows(h) <= MaxSize =>
          /\ copy.ok
          /\ \A r \in 0 .. Rows(h) - 1, c \in 0 .. w - 1 : copy.bytes[r * w + c] = r * pitch + c

\* The colours of a picture of four columns: a block of the one beside a block of the other.
Painted(left, right) ==
  [i \in 0 .. 31 |-> IF i % 4 = 3 THEN 255
                     ELSE (IF (i \div 4) % 4 < 2 THEN left ELSE right)[(i % 4) + 1]]

\* What the host captured is what the client shows: a picture converted by bgra_to_nv12 and
\* converted back by nv12_to_bgra has, in every block of one colour, each channel of each
\* pixel within three steps of the captured one, whatever the colour of the block beside it.
ColoursReachClient ==
  \A left, right \in Colours :
    LET sent == BgraToNv12(Painted(left, right), 4, 2)
        shown == Nv12ToBgra(sent.bytes, 4, 2)
    IN  /\ sent.ok
        /\ \A p \in 0 .. 7, channel \in 1 .. 3 :
             LET colour == IF p % 4 < 2 THEN left ELSE right
             IN  shown[p][channel] - colour[channel] \in -3 .. 3
=============================================================================
