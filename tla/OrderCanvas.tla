---------------------------- MODULE OrderCanvas ----------------------------
(***************************************************************************)
(* The software renderer behind the order decoder: rectangle arithmetic,    *)
(* clipping, fills, raster operations, screen-to-screen copies, bitmap and  *)
(* glyph blits and lines, each as the loop the code runs, next to what the  *)
(* order is meant to do to the picture, pixel by pixel.                     *)
(*                                                                          *)
(* crates/sccm-rc-orders/src: canvas.rs, bitmap.rs (decode), primary.rs     *)
(* (draw, draw_line, fill_text_bg), rop.rs                                  *)
(*                                                                          *)
(* A pixel is any value; the picture an order starts from gives every pixel *)
(* a value of its own, so no wrong source goes unnoticed.  Coordinates come *)
(* from 16-bit fields, far from where the saturating i32 arithmetic bites.  *)
(***************************************************************************)
EXTENDS Integers, Sequences, FiniteSets, Functions, SequencesExt

CONSTANTS
    Width, Height,   \* the canvas
    Coords,          \* coordinates and extents of rectangles the server names
    Sources,         \* source coordinates it names
    Clips,           \* bounds rectangles, and NoClip
    NoClip,
    Tile,            \* a bitmap, bottom-up as sent: rows of TileWidth values
    TileWidth,
    Ink,             \* the set pixels of a glyph, within GlyphWidth x GlyphHeight
    GlyphWidth, GlyphHeight,
    ByteBits,        \* bits in a byte of glyph data (8 in the code)
    Seeds,           \* what earlier orders of the update may have left dirty
    MaxDrawn,        \* bound: orders of one update
    Overlaps         \* the server also scrolls a region onto part of itself

ASSUME SizeAssumption == Width \in Nat \ {0} /\ Height \in Nat \ {0} /\ MaxDrawn \in Nat
ASSUME CoordsAssumption == Coords \subseteq Int /\ Sources \subseteq Int
ASSUME TileAssumption == TileWidth \in Nat \ {0} /\ Tile \in Seq(Range(Tile))
ASSUME GlyphAssumption ==
    /\ ByteBits \in Nat \ {0} /\ GlyphWidth \in Nat /\ GlyphHeight \in Nat
    /\ Ink \subseteq (0..GlyphWidth - 1) \X (0..GlyphHeight - 1)
ASSUME OverlapsAssumption == Overlaps \in BOOLEAN

Canvas == (0..Width - 1) \X (0..Height - 1)

-----------------------------------------------------------------------------
(* Rect *)

Rects == [x : Int, y : Int, w : Int, h : Int]
ASSUME RectsAssumption == Clips \ {NoClip} \subseteq Rects /\ Seeds \subseteq Rects

Rect(x, y, w, h) == [x |-> x, y |-> y, w |-> w, h |-> h]
FromInclusive(l, t, r, b) == Rect(l, t, r - l + 1, b - t + 1)
Right(r) == r.x + r.w
Bottom(r) == r.y + r.h
IsEmpty(r) == r.w <= 0 \/ r.h <= 0
NoRect == Rect(0, 0, 0, 0)

Least(a, b) == IF a < b THEN a ELSE b
Most(a, b) == IF a > b THEN a ELSE b

Intersect(r, s) ==
    LET x == Most(r.x, s.x)
        y == Most(r.y, s.y)
    IN  Rect(x, y, Least(Right(r), Right(s)) - x, Least(Bottom(r), Bottom(s)) - y)

\* Mutant: the dirty region of the first order stands for the whole update.
UnionFirst(r, s) == IF IsEmpty(r) THEN s ELSE r

Union(r, s) ==
    IF IsEmpty(r) THEN s
    ELSE IF IsEmpty(s) THEN r
    ELSE LET x == Least(r.x, s.x)
             y == Least(r.y, s.y)
         IN  Rect(x, y, Most(Right(r), Right(s)) - x, Most(Bottom(r), Bottom(s)) - y)

\* The pixels a rectangle stands for.
Pixels(r) == (r.x .. Right(r) - 1) \X (r.y .. Bottom(r) - 1)

\* OrderCanvas::clip
Clip(dst, bounds) ==
    LET r == Intersect(dst, Rect(0, 0, Width, Height))
    IN  IF bounds = NoClip THEN r ELSE Intersect(r, bounds)

-----------------------------------------------------------------------------
Black == <<"black">>
White == <<"white">>
Fore == <<"ink">>
Back == <<"paper">>

(* The loops.  A result is the new canvas and the rectangle reported dirty. *)

Result(c, r) == [canvas |-> c, dirty |-> r]

\* put() for every pixel of r, in no order that matters.
Paint(c, ps, value(_)) == [p \in Canvas |-> IF p \in ps THEN value(p) ELSE c[p]]

FillRect(c, dst, bounds, colour) ==
    LET r == Clip(dst, bounds)
    IN  Result(Paint(c, Pixels(r), LAMBDA p : colour), r)

\* dst_rop: black, white, the inverse of what is there; any other code draws
\* nothing and reports its rectangle all the same.
DstRop(c, dst, bounds, rop) ==
    LET r == Clip(dst, bounds)
    IN  IF IsEmpty(r) THEN Result(c, r)
        ELSE CASE rop = "black" -> Result(FillRect(c, dst, bounds, Black).canvas, r)
               [] rop = "white" -> Result(FillRect(c, dst, bounds, White).canvas, r)
               [] rop = "invert" -> Result(Paint(c, Pixels(r), LAMBDA p : <<"inverse", c[p]>>), r)
               [] OTHER -> Result(c, r)

\* PatBlt::draw: anything that is not black or white fills with the foreground.
FillPattern(c, dst, bounds, rop, fore) ==
    FillRect(c, dst, bounds, IF rop \in {"black", "white"} THEN <<rop>> ELSE fore)

Ascending(a, b) == [i \in 1..Most(0, b - a) |-> a + i - 1]

\* Rows of pixels in the order the loops of copy_rect visit them.
Scan(xs, ys) ==
    [k \in 1..Len(xs) * Len(ys) |-> <<xs[((k - 1) % Len(xs)) + 1], ys[((k - 1) \div Len(xs)) + 1]>>]

\* get() from the source of p, put() to p; a source off the canvas is skipped.
Move(d, p, dx, dy) ==
    LET q == <<p[1] + dx, p[2] + dy>>
    IN  IF q \in Canvas THEN [d EXCEPT ![p] = d[q]] ELSE d

\* The two nested loops, within one buffer.
Moved(c, scan, dx, dy) ==
    LET moved[k \in 0..Len(scan)] == IF k = 0 THEN c ELSE Move(moved[k - 1], scan[k], dx, dy)
    IN  moved[Len(scan)]

\* Mutant: the source offset is taken from the clipped rectangle.
CopyRectClippedOffset(c, dst, bounds, sx, sy) ==
    LET r == Clip(dst, bounds)
        dx == sx - r.x
        dy == sy - r.y
        xs == Ascending(r.x, Right(r))
        ys == Ascending(r.y, Bottom(r))
    IN  IF IsEmpty(r) THEN Result(c, r)
        ELSE Result(Moved(c, Scan(IF dx > 0 THEN Reverse(xs) ELSE xs,
                                  IF dy > 0 THEN Reverse(ys) ELSE ys), dx, dy), r)

\* copy_rect: pixel by pixel, backwards in a direction in which the source lies
\* ahead.
CopyRect(c, dst, bounds, sx, sy) ==
    LET r == Clip(dst, bounds)
        dx == sx - dst.x
        dy == sy - dst.y
        xs == Ascending(r.x, Right(r))
        ys == Ascending(r.y, Bottom(r))
    IN  IF IsEmpty(r) THEN Result(c, r)
        ELSE Result(Moved(c, Scan(IF dx > 0 THEN Reverse(xs) ELSE xs,
                                  IF dy > 0 THEN Reverse(ys) ELSE ys), dx, dy), r)

-----------------------------------------------------------------------------
(* Bitmaps and glyphs. *)

\* bitmap::decode: the rows of the wire are bottom-up.
DecodeBitmap(raw, w, h) ==
    [p \in (0..w - 1) \X (0..h - 1) |-> raw[(h - 1 - p[2]) * w + p[1] + 1]]

\* blit_bitmap: pixels the bitmap does not have are left alone.
BlitBitmap(c, dst, bounds, bmp, sx, sy) ==
    LET r == Clip(dst, bounds)
        from(p) == <<sx + (p[1] - dst.x), sy + (p[2] - dst.y)>>
    IN  Result(Paint(c, {p \in Pixels(r) : from(p) \in DOMAIN bmp}, LAMBDA p : bmp[from(p)]), r)

\* The bit of glyph pixel (gx, gy): rows start on a byte, missing bytes are 0.
GlyphBit(aj, cx, gx, gy) ==
    LET row == gy * ((cx + ByteBits - 1) \div ByteBits) * ByteBits
    IN  row + gx + 1 \in DOMAIN aj /\ aj[row + gx + 1] = 1

\* blit_glyph
BlitGlyph(c, x, y, cx, cy, aj, bounds, colour) ==
    LET r == Clip(Rect(x, y, cx, cy), bounds)
    IN  Result(Paint(c, {p \in Pixels(r) : GlyphBit(aj, cx, p[1] - x, p[2] - y)},
                     LAMBDA p : colour), r)

\* FastGlyph::draw: the background box, if it is one, then the glyph; dirty is
\* what both touched.
FillTextBg(c, l, t, r, b, bounds, colour) ==
    IF r > l /\ b > t THEN FillRect(c, FromInclusive(l, t, r, b), bounds, colour)
    ELSE Result(c, NoRect)

DrawGlyph(c, box, x, y, cx, cy, aj, bounds, back, fore) ==
    LET bg == FillTextBg(c, box.x, box.y, Right(box), Bottom(box), bounds, back)
        fg == BlitGlyph(bg.canvas, x, y, cx, cy, aj, bounds, fore)
    IN  Result(fg.canvas,
               IF IsEmpty(fg.dirty) THEN bg.dirty
               ELSE IF IsEmpty(bg.dirty) THEN fg.dirty ELSE Union(bg.dirty, fg.dirty))

-----------------------------------------------------------------------------
(* draw_line *)

Abs(n) == IF n < 0 THEN -n ELSE n

\* Mutant: a step in y is taken only when none in x is.
TurnEither(s, end, dx, dy, sx, sy) ==
    LET stepX == 2 * s.err >= dy
        stepY == 2 * s.err <= dx /\ ~stepX
    IN  IF s.x = end[1] /\ s.y = end[2] THEN s
        ELSE [x |-> IF stepX THEN s.x + sx ELSE s.x,
              y |-> IF stepY THEN s.y + sy ELSE s.y,
              err |-> s.err + (IF stepX THEN dy ELSE 0) + (IF stepY THEN dx ELSE 0)]

\* A turn of the loop at s, if it is not at the end.
Turn(s, end, dx, dy, sx, sy) ==
    LET stepX == 2 * s.err >= dy
        stepY == 2 * s.err <= dx
    IN  IF s.x = end[1] /\ s.y = end[2] THEN s
        ELSE [x |-> IF stepX THEN s.x + sx ELSE s.x,
              y |-> IF stepY THEN s.y + sy ELSE s.y,
              err |-> s.err + (IF stepX THEN dy ELSE 0) + (IF stepY THEN dx ELSE 0)]

\* The pixels of the loop.  dx + |dy| turns are enough to see it end
\* (LineIsStraight).
LinePixels(x0, y0, x1, y1) ==
    LET dx == Abs(x1 - x0)
        dy == -Abs(y1 - y0)
        sx == IF x0 < x1 THEN 1 ELSE -1
        sy == IF y0 < y1 THEN 1 ELSE -1
        at[k \in 0..(dx - dy)] ==
            IF k = 0 THEN [x |-> x0, y |-> y0, err |-> dx + dy]
            ELSE Turn(at[k - 1], <<x1, y1>>, dx, dy, sx, sy)
    IN  {<<at[k].x, at[k].y>> : k \in 0..(dx - dy)}

\* Every pixel is a clipped 1x1 fill; dirty is the whole box, unclipped.
DrawLine(c, x0, y0, x1, y1, bounds, colour) ==
    Result(Paint(c, {p \in LinePixels(x0, y0, x1, y1) :
                        ~IsEmpty(Clip(Rect(p[1], p[2], 1, 1), bounds))}, LAMBDA p : colour),
           FromInclusive(Least(x0, x1), Least(y0, y1), Most(x0, x1), Most(y0, y1)))

-----------------------------------------------------------------------------
(* The server's side of the data: the picture of the tile, the glyph's bits. *)

TileHeight == Len(Tile) \div TileWidth
TilePicture ==
    [p \in (0..TileWidth - 1) \X (0..TileHeight - 1) |->
        Tile[(TileHeight - p[2] - 1) * TileWidth + p[1] + 1]]

RowBits == ((GlyphWidth + ByteBits - 1) \div ByteBits) * ByteBits
GlyphData ==
    [i \in 1..RowBits * GlyphHeight |->
        IF <<(i - 1) % RowBits, (i - 1) \div RowBits>> \in Ink THEN 1 ELSE 0]

\* The pixels of a rectangle that an order may change.
Visible(dst, bounds) ==
    {p \in Canvas :
        /\ dst.x <= p[1] /\ p[1] < Right(dst) /\ dst.y <= p[2] /\ p[2] < Bottom(dst)
        /\ bounds # NoClip => /\ bounds.x <= p[1] /\ p[1] < Right(bounds)
                              /\ bounds.y <= p[2] /\ p[2] < Bottom(bounds)}

VARIABLES
    canvas,   \* OrderCanvas::data
    dirty,    \* ProcessOutcome::dirty, NoRect for none
    orders,   \* ProcessOutcome::orders
    before,   \* auxiliary: the picture before the order
    seed,     \* auxiliary: dirty before the order
    picture,  \* auxiliary: the picture the order is meant to leave
    line      \* auxiliary: the end points of a line order, or <<>>

canvasVars == <<canvas, dirty, orders, before, seed, picture, line>>

CanvasInit ==
    /\ canvas = [p \in Canvas |-> <<"pixel", p[1], p[2]>>]
    /\ dirty \in Seeds /\ orders = 0
    /\ before = canvas /\ seed = dirty /\ picture = canvas /\ line = <<>>

\* The tail of process_orders: the order's rectangle joins the update's.
Draw(result, intended, ends) ==
    /\ canvas' = result.canvas
    /\ dirty' = IF IsEmpty(result.dirty) THEN dirty ELSE Union(dirty, result.dirty)
    /\ picture' = intended
    /\ line' = ends
    /\ orders' = orders + 1
    /\ before' = canvas /\ seed' = dirty

Over(ps, value(_)) == [p \in Canvas |-> IF p \in ps THEN value(p) ELSE canvas[p]]

DrawOpaqueRect(dst, b) ==
    Draw(FillRect(canvas, dst, b, Fore), Over(Visible(dst, b), LAMBDA p : Fore), <<>>)

DrawDstBlt(dst, b, rop) ==
    Draw(DstRop(canvas, dst, b, rop),
         Over(IF rop = "other" THEN {} ELSE Visible(dst, b),
              LAMBDA p : IF rop = "invert" THEN <<"inverse", canvas[p]>> ELSE <<rop>>), <<>>)

DrawPatBlt(dst, b, rop) ==
    Draw(FillPattern(canvas, dst, b, rop, Fore),
         Over(Visible(dst, b), LAMBDA p : IF rop = "other" THEN Fore ELSE <<rop>>), <<>>)

\* The picture moves as a whole: what is read is what was there before.
DrawScrBlt(dst, b, sx, sy) ==
    LET from(p) == <<p[1] + sx - dst.x, p[2] + sy - dst.y>>
        ps == {p \in Visible(dst, b) : from(p) \in Canvas}
    IN  /\ Overlaps \/ ps \cap {from(p) : p \in ps} = {}
        /\ Draw(CopyRect(canvas, dst, b, sx, sy), Over(ps, LAMBDA p : canvas[from(p)]), <<>>)

DrawMemBlt(dst, b, sx, sy) ==
    LET from(p) == <<p[1] + sx - dst.x, p[2] + sy - dst.y>>
        ps == {p \in Visible(dst, b) : from(p) \in DOMAIN TilePicture}
    IN  Draw(BlitBitmap(canvas, dst, b, DecodeBitmap(Tile, TileWidth, TileHeight), sx, sy),
             Over(ps, LAMBDA p : TilePicture[from(p)]), <<>>)

\* A glyph over its background box.
DrawText(box, b, x, y) ==
    LET back == IF box.w > 0 /\ box.h > 0
                THEN Visible(Rect(box.x, box.y, box.w + 1, box.h + 1), b) ELSE {}
        ink == {p \in Visible(Rect(x, y, GlyphWidth, GlyphHeight), b) : <<p[1] - x, p[2] - y>> \in Ink}
    IN  Draw(DrawGlyph(canvas, box, x, y, GlyphWidth, GlyphHeight, GlyphData, b, Back, Fore),
             Over(back \cup ink, LAMBDA p : IF p \in ink THEN Fore ELSE Back), <<>>)

DrawLineTo(x0, y0, x1, y1, b) ==
    Draw(DrawLine(canvas, x0, y0, x1, y1, b, Fore),
         Over({p \in LinePixels(x0, y0, x1, y1) : p \in Visible(Rect(p[1], p[2], 1, 1), b)},
              LAMBDA p : Fore),
         <<x0, y0, x1, y1>>)

Rops == {"black", "white", "invert", "other"}

\* One turn of process_orders on an order that draws.
ProcessOrder ==
    /\ orders < MaxDrawn
    /\ \E b \in Clips, x, y, w, h \in Coords :
        LET dst == Rect(x, y, w, h)
        IN  \/ DrawOpaqueRect(dst, b)
            \/ \E rop \in Rops : DrawDstBlt(dst, b, rop)
            \/ \E rop \in Rops \ {"invert"} : DrawPatBlt(dst, b, rop)
            \/ \E sx, sy \in Sources :
                  \/ DrawScrBlt(dst, b, sx, sy)
                  \/ DrawMemBlt(dst, b, sx, sy)
                  \/ DrawText(dst, b, sx, sy)
            \/ DrawLineTo(x, y, w, h, b)

Done == orders = MaxDrawn /\ UNCHANGED canvasVars

CanvasNext == ProcessOrder \/ Done

CanvasSpec == CanvasInit /\ [][CanvasNext]_canvasVars

-----------------------------------------------------------------------------
(* Properties *)

\* Every order leaves the picture it is meant to leave: clipped to bounds and
\* canvas, from the right source pixels, and nothing else touched.
RendersAsMeant == canvas = picture

\* What the viewer is told to redraw covers every pixel the order changed and
\* everything earlier orders of the update had reported.
DirtyCovers ==
    /\ {p \in Canvas : canvas[p] # before[p]} \subseteq Pixels(dirty)
    /\ Pixels(seed) \subseteq Pixels(dirty)

\* A line meets both its ends and takes one pixel per step of its longer axis,
\* none further than half a pixel from the ideal line.
LineIsStraight ==
    line # <<>> =>
        LET dx == line[3] - line[1]
            dy == line[4] - line[2]
            major == Most(Abs(dx), Abs(dy))
            ps == LinePixels(line[1], line[2], line[3], line[4])
        IN  /\ {<<line[1], line[2]>>, <<line[3], line[4]>>} \subseteq ps
            /\ Cardinality(ps) = major + 1
            /\ \A p \in ps : 2 * Abs(dx * (p[2] - line[2]) - dy * (p[1] - line[1])) <= major

=============================================================================
