----------------------------- MODULE TestBuffer -----------------------------
(***************************************************************************)
(* buffers.c: create_test_buffer allocates and maps a scan-out buffer,     *)
(* lays the planes of its format out in it and fills them with a pattern.  *)
(* Offsets count from the start of the mapping; a fill is the set of its   *)
(* writes, each with what it writes (Y, U, V or a pixel) and for which     *)
(* pixel; a colour is its place in the pattern's table.  libkms and the    *)
(* kernel, which choose the pitch, are external.  The build is one without *)
(* cairo, in which make_pwetty draws nothing over the tiles.               *)
(***************************************************************************)
EXTENDS Integers, FiniteSets

CONSTANTS
  Tile,       \* the side of a tile of PATTERN_TILES (64)
  Pad         \* by how much a pitch may exceed the pixels' bytes

ASSUME TestBufferAssumption == Tile \in Nat \ {0} /\ Pad \in Nat

\* format_info; rgb16, rgb24 and rgb32 stand for the formats of 2, 3, 4 bytes,
\* which are filled alike.
Info(cr, luma, xs, ys, cs) == [YCrCb |-> cr, YC |-> luma, xsub |-> xs, ysub |-> ys, chroma_stride |-> cs]
YuvInfo ==
  [UYVY   |-> Info(FALSE, FALSE, 2, 2, 2), VYUY   |-> Info(TRUE, FALSE, 2, 2, 2),
   YUYV   |-> Info(FALSE, TRUE, 2, 2, 2),  YVYU   |-> Info(TRUE, TRUE, 2, 2, 2),
   NV12   |-> Info(FALSE, FALSE, 2, 2, 2), NV21   |-> Info(TRUE, FALSE, 2, 2, 2),
   NV16   |-> Info(FALSE, FALSE, 2, 1, 2), NV61   |-> Info(TRUE, FALSE, 2, 1, 2),
   YUV420 |-> Info(FALSE, FALSE, 2, 2, 1), YVU420 |-> Info(TRUE, FALSE, 2, 2, 1)]
RgbBytes == [rgb16 |-> 2, rgb24 |-> 3, rgb32 |-> 4]

Packed == {"UYVY", "VYUY", "YUYV", "YVYU"}
SemiPlanar == {"NV12", "NV21", "NV16", "NV61"}
Planar == {"YUV420", "YVU420"}
Rgb == DOMAIN RgbBytes
Known == Packed \cup SemiPlanar \cup Planar \cup Rgb

-----------------------------------------------------------------------------
(* The patterns. *)

\* The bars of the bottom band of an SMPTE picture.
BottomBar(x, w) ==
  LET five == (w * 5) \div 7  six == (w * 6) \div 7
  IN IF x < five THEN (x * 4) \div five
     ELSE IF x < six THEN ((x - five) * 3) \div (w \div 7) + 4 ELSE 7
TopBar(x, w) == (x * 7) \div w

SmpteColor(x, y, w, h) ==
  IF y < (h * 6) \div 9 THEN <<"top", TopBar(x, w)>>
  ELSE IF y < (h * 7) \div 9 THEN <<"middle", TopBar(x, w)>>
  ELSE <<"bottom", BottomBar(x, w)>>

\* The bottom band divides by width / 7 whenever it has a pixel between 5/7
\* and 6/7 of the width.
DividesByZero(w) == w \div 7 = 0 /\ (w * 5) \div 7 < (w * 6) \div 7

TileColor(x, y, w) == <<((x + y) \div w) \div Tile, ((x + y) % w) \div Tile>>

Put(at, kind, x, y, color) == [at |-> at, kind |-> kind, x |-> x, y |-> y, color |-> color]
Columns(w) == 0 .. w - 1
Pairs(w) == {x \in Columns(w) : x % 2 = 0}
Rows(h) == 0 .. h - 1

\* A line of the chroma planes, and the place of a sample on it.
ChromaLine(i, s) == (s * i.chroma_stride) \div i.xsub
ChromaAt(i, x) == (x \div i.xsub) * i.chroma_stride

fill_smpte_yuv_planar(i, p, w, h, s) ==
  {Put(p.y + y * s + x, "Y", x, y, SmpteColor(x, y, w, h)) : x \in Columns(w), y \in Rows(h)}
  \cup UNION {{Put(p[k] + y * ChromaLine(i, s) + ChromaAt(i, x), k, x, y, SmpteColor(x, y, w, h \div i.ysub))
                 : x \in Pairs(w), y \in Rows(h \div i.ysub)} : k \in {"u", "v"}}

\* The places of the components of two packed pixels.
LumaAt(i) == IF i.YC THEN 0 ELSE 1
PackedAt(i, k) == (IF i.YC THEN 1 ELSE 0) + (IF (k = "u") = i.YCrCb THEN 2 ELSE 0)

fill_smpte_yuv_packed(i, w, h, s) ==
  {Put(y * s + LumaAt(i) + 2 * x, "Y", x, y, SmpteColor(x, y, w, h)) : x \in Columns(w), y \in Rows(h)}
  \cup {Put(y * s + 2 * x + PackedAt(i, k), k, x, y, SmpteColor(x, y, w, h))
          : x \in Pairs(w), y \in Rows(h), k \in {"u", "v"}}

\* fill_smpte_rgb16, rgb24 and rgb32: a pixel of b bytes.
fill_smpte_rgb(b, w, h, s) ==
  {Put(y * s + b * x + k, "RGB", x, y, SmpteColor(x, y, w, h)) : x \in Columns(w), y \in Rows(h), k \in 0 .. b - 1}

fill_tiles_yuv_planar(i, p, w, h, s) ==
  {Put(p.y + y * s + x, "Y", x, y, TileColor(x, y, w)) : x \in Columns(w), y \in Rows(h)}
  \cup {Put(p[k] + (y \div i.ysub) * ChromaLine(i, s) + ChromaAt(i, x), k, x, y \div i.ysub, TileColor(x, y, w))
          : x \in Columns(w), y \in Rows(h), k \in {"u", "v"}}

\* Two pixels take the colour of the first.
fill_tiles_yuv_packed(i, w, h, s) ==
  {Put(y * s + LumaAt(i) + 2 * (x + d), "Y", x + d, y, TileColor(x, y, w))
     : x \in Pairs(w), d \in {0, 1}, y \in Rows(h)}
  \cup {Put(y * s + 2 * x + PackedAt(i, k), k, x, y, TileColor(x, y, w))
          : x \in Pairs(w), y \in Rows(h), k \in {"u", "v"}}

fill_tiles_rgb(b, w, h, s) ==
  {Put(y * s + b * x + k, "RGB", x, y, TileColor(x, y, w)) : x \in Columns(w), y \in Rows(h), k \in 0 .. b - 1}

\* fill_plain: memset of the first plane's lines.
fill_plain(h, s) == {Put(a, "plain", 0, 0, <<>>) : a \in 0 .. s * h - 1}

\* Faulty variants: u and v of the semi-planar formats the wrong way round.
SemiPlanesSwapped(f, p) ==
  [y |-> p[0], u |-> p[1] + (IF YuvInfo[f].YCrCb THEN 0 ELSE 1), v |-> p[1] + (IF YuvInfo[f].YCrCb THEN 1 ELSE 0)]
SemiPlanes(f, p) ==
  [y |-> p[0], u |-> p[1] + (IF YuvInfo[f].YCrCb THEN 1 ELSE 0), v |-> p[1] + (IF YuvInfo[f].YCrCb THEN 0 ELSE 1)]

\* fill_smpte's and fill_tiles' choice of u and v.
PlanesOf(f, p) ==
  IF f \in SemiPlanar THEN SemiPlanes(f, p)
  ELSE IF f = "YUV420" THEN [y |-> p[0], u |-> p[1], v |-> p[2]] ELSE [y |-> p[0], u |-> p[2], v |-> p[1]]

fill_smpte(f, p, w, h, s) ==
  IF f \in Packed THEN fill_smpte_yuv_packed(YuvInfo[f], w, h, s)
  ELSE IF f \in Rgb THEN fill_smpte_rgb(RgbBytes[f], w, h, s)
  ELSE fill_smpte_yuv_planar(YuvInfo[f], PlanesOf(f, p), w, h, s)

fill_tiles(f, p, w, h, s) ==
  IF f \in Packed THEN fill_tiles_yuv_packed(YuvInfo[f], w, h, s)
  ELSE IF f \in Rgb THEN fill_tiles_rgb(RgbBytes[f], w, h, s)
  ELSE fill_tiles_yuv_planar(YuvInfo[f], PlanesOf(f, p), w, h, s)

\* fill_pattern leaves a format that it does not know as it is.
fill_pattern(f, pattern, p, w, h, s) ==
  IF f \notin Known THEN {}
  ELSE CASE pattern = "tiles" -> fill_tiles(f, p, w, h, s)
         [] pattern = "smpte" -> fill_smpte(f, p, w, h, s)
         [] pattern = "plain" -> fill_plain(h, s)

-----------------------------------------------------------------------------
(* create_test_buffer. *)

VARIABLE buf    \* the call in progress, and the buffer it builds

NoBuffer == [pc |-> "idle"]

\* Faulty variant: no room for the chroma of NV16 and NV61.
VirtualHeightLuma(f, h) == IF f \in SemiPlanar THEN (h * 3) \div 2 ELSE h
VirtualHeight(f, h) ==
  IF f \in {"NV12", "NV21"} THEN (h * 3) \div 2
  ELSE IF f \in {"NV16", "NV61"} THEN h * 2 ELSE h

CallCreate(f, w, h, pattern) ==
  buf' = [pc |-> "alloc", format |-> f, pattern |-> pattern, width |-> w, height |-> h]

Return(what) == buf' = [buf EXCEPT !.pc = what]

\* allocate_buffer: KMS_WIDTH and KMS_HEIGHT of an X8R8G8B8 buffer; the driver
\* chooses the pitch.
allocate_buffer ==
  /\ buf.pc = "alloc"
  /\ \/ \E pitch \in {4 * buf.width, 4 * buf.width + Pad} :
          buf' = [pc |-> "map", format |-> buf.format, pattern |-> buf.pattern, width |-> buf.width,
                  height |-> buf.height, pitch |-> pitch,
                  size |-> pitch * VirtualHeight(buf.format, buf.height)]
     \/ Return("null")

MapBuffer == buf.pc = "map" /\ \E to \in {"fill", "null"} : Return(to)

\* The offsets of the planes; planes that a format does not have stay null.
LastPlane(f) == IF f \in SemiPlanar THEN 1 ELSE IF f \in Planar THEN 2 ELSE 0
Offsets(f, pitch, h) ==
  [p \in 0 .. LastPlane(f) |->
     CASE p = 0 -> 0 [] p = 1 -> pitch * h [] p = 2 -> pitch * h + ((pitch \div 2) * h) \div 2]

FillBuffer ==
  /\ buf.pc = "fill"
  /\ IF buf.pattern = "smpte" /\ buf.format \in Known /\ DividesByZero(buf.width)
     THEN Return("crashed")
     ELSE LET planes == Offsets(buf.format, buf.pitch, buf.height)
          IN buf' = [pc |-> "filled", format |-> buf.format, pattern |-> buf.pattern, width |-> buf.width,
                     height |-> buf.height, pitch |-> buf.pitch, size |-> buf.size, offsets |-> planes,
                     writes |-> fill_pattern(buf.format, buf.pattern, planes, buf.width, buf.height, buf.pitch)]

Unmap == buf.pc = "filled" /\ Return("done")

CreateTestBuffer == allocate_buffer \/ MapBuffer \/ FillBuffer \/ Unmap

-----------------------------------------------------------------------------
(* What the display controller makes of a buffer (drm_fourcc.h): external. *)

\* Where it looks for component k of pixel (x, y).
UvOrder(f) == IF YuvInfo[f].YCrCb THEN [u |-> 1, v |-> 0] ELSE [u |-> 0, v |-> 1]
UvPlane(f) == IF YuvInfo[f].YCrCb THEN [u |-> 2, v |-> 1] ELSE [u |-> 1, v |-> 2]
PackedPlace == [UYVY |-> [u |-> 0, Y |-> 1, v |-> 2], VYUY |-> [u |-> 2, Y |-> 1, v |-> 0],
                YUYV |-> [u |-> 1, Y |-> 0, v |-> 3], YVYU |-> [u |-> 3, Y |-> 0, v |-> 1]]
Scanned(b, k, x, y) ==
  LET f == b.format
  IN IF f \in Packed
     THEN y * b.pitch + PackedPlace[f][k] + (IF k = "Y" THEN 2 * x ELSE 4 * (x \div 2))
     ELSE IF f \in Rgb THEN y * b.pitch + RgbBytes[f] * x
     ELSE IF k = "Y" THEN y * b.pitch + x
     ELSE IF f \in Planar THEN b.offsets[UvPlane(f)[k]] + (y \div 2) * (b.pitch \div 2) + x \div 2
     ELSE b.offsets[1] + (y \div YuvInfo[f].ysub) * b.pitch + 2 * (x \div 2) + UvOrder(f)[k]
Components(f) == IF f \in Rgb THEN {"RGB"} ELSE {"Y", "u", "v"}

-----------------------------------------------------------------------------
(* Properties. *)

Filled == buf.pc = "filled"

\* The chroma lines for which the virtual height leaves no room: all of the planar
\* formats', and in tiles of an odd height the last of NV12 and NV21.
Beyond(wr) ==
  /\ wr.kind \in {"u", "v"}
  /\ \/ buf.format \in Planar
     \/ buf.format \in {"NV12", "NV21"} /\ wr.y = buf.height \div 2

\* Safety: a fill's writes lie inside the buffer, but for the chroma of YUV420 and
\* YVU420, which is wholly outside (default virtual_height), and one line of
\* chroma of NV12 and NV21 tiles whose height is odd: those all lie outside.
FillInside == Filled => \A wr \in buf.writes : wr.at \in 0 .. buf.size - 1 <=> ~Beyond(wr)

\* The last line of an odd height, whose chroma the SMPTE fill rounds away.
Undrawn(k, y) ==
  /\ buf.pattern = "smpte" /\ k \in {"u", "v"} /\ buf.format \in SemiPlanar \cup Planar
  /\ y \div YuvInfo[buf.format].ysub = buf.height \div YuvInfo[buf.format].ysub

\* Safety: in every format and size, tiles and bars are drawn in one piece: a component is written
\* where the display looks for it, for that pixel (for the pixel's cell in chroma), in
\* a colour of the pattern's tables; and wherever the display looks, but for the chroma of
\* the last line of bars of odd height, something is written.
FillDrawsImage ==
  Filled /\ buf.format \in Known /\ buf.pattern # "plain" =>
    LET f == buf.format
        line(wr) == IF f \in SemiPlanar \cup Planar /\ wr.kind # "Y" THEN wr.y * YuvInfo[f].ysub ELSE wr.y
        bytes == IF f \in Rgb THEN 0 .. RgbBytes[f] - 1 ELSE {0}
        written == {wr.at : wr \in buf.writes}
    IN /\ \A wr \in buf.writes :
            /\ wr.at - Scanned(buf, wr.kind, wr.x, line(wr)) \in bytes
            /\ buf.pattern = "smpte" => wr.color[2] \in 0 .. (IF wr.color[1] = "bottom" THEN 7 ELSE 6)
       /\ \A k \in Components(f), x \in Columns(buf.width), y \in Rows(buf.height) :
            Scanned(buf, k, x, y) \in written \/ Undrawn(k, y)

=============================================================================
