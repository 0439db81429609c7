--------------------------- MODULE FramePathProofs ---------------------------
(***************************************************************************)
(* Proofs about FramePath, for every set of desktop sizes and every number  *)
(* of paints, activations and surface errors: no painted pixel is lost      *)
(* between the composite and the texture, and an upload that is due always  *)
(* has a wake-up on its way.                                                *)
(***************************************************************************)
EXTENDS FramePath, TLAPS

USE SizesAssumption, FrameBoundsAssumption, FaultsAssumption

-----------------------------------------------------------------------------
(* Regions *)

\* The pixels of a desktop have natural coordinates.
LEMMA CellType ==
  ASSUME NEW sz \in Sizes \cup {NoSize}, NEW c \in Cells(sz)
  PROVE  c[1] \in Nat /\ c[2] \in Nat /\ c[1] <= sz[1] - 1 /\ c[2] <= sz[2] - 1
         /\ sz[1] \in Nat \ {0} /\ sz[2] \in Nat \ {0}
<1>1. sz[1] \in Nat /\ sz[2] \in Nat
  BY DEF NoSize
<1>2. c[1] \in 0..(sz[1] - 1) /\ c[2] \in 0..(sz[2] - 1)
  BY DEF Cells
<1> QED
  BY <1>1, <1>2

\* A union covers what either region covers, and its rows.
LEMMA UnionCovers ==
  ASSUME NEW a \in Region, NEW b \in Region, NEW sz \in Sizes, NEW c \in Cells(sz)
  PROVE  /\ Covers(a, c) \/ Covers(b, c) => Covers(UnionRegion(a, b), c)
         /\ Rows(a, c) \/ Rows(b, c) => Rows(UnionRegion(a, b), c)
         /\ UnionRegion(a, b) \in Region
<1>1. c[1] \in Nat /\ c[2] \in Nat
  BY CellType
<1>2. CASE a = NoRegion
  <2>1. ~Rows(a, c)
    BY <1>1, <1>2 DEF NoRegion, Rows
  <2> QED
    BY <1>2, <2>1 DEF UnionRegion, Covers
<1>3. CASE a # NoRegion
  <2> DEFINE u == UnionRegion(a, b)
  <2>1. /\ u.left = Least(a.left, b.left) /\ u.top = Least(a.top, b.top)
        /\ u.right = Most(a.right, b.right) /\ u.bottom = Most(a.bottom, b.bottom)
    BY <1>3 DEF UnionRegion
  <2>2. /\ a.left \in Nat /\ a.top \in Nat /\ a.right \in Nat /\ a.bottom \in Nat
        /\ b.left \in Nat /\ b.top \in Nat /\ b.right \in Nat /\ b.bottom \in Nat
    BY DEF Region
  <2>3. /\ u.left \in Nat /\ u.left <= a.left /\ u.left <= b.left
        /\ u.top \in Nat /\ u.top <= a.top /\ u.top <= b.top
        /\ u.right \in Nat /\ u.right >= a.right /\ u.right >= b.right
        /\ u.bottom \in Nat /\ u.bottom >= a.bottom /\ u.bottom >= b.bottom
    BY <2>1, <2>2 DEF Least, Most
  <2>4. u \in Region
    BY <1>3, <2>2 DEF UnionRegion, Region, Least, Most
  <2> HIDE DEF u
  <2>5. /\ Covers(a, c) \/ Covers(b, c) => Covers(u, c)
        /\ Rows(a, c) \/ Rows(b, c) => Rows(u, c)
    BY <1>1, <2>2, <2>3 DEF Covers, Rows
  <2> QED
    BY <2>4, <2>5 DEF u
<1> QED
  BY <1>2, <1>3

\* Clamping to the desktop loses none of its pixels.
LEMMA ClampCovers ==
  ASSUME NEW sz \in Sizes, NEW r \in Region
  PROVE  /\ Clamp(sz, r) \in Region
         /\ \A c \in Cells(sz) : Covers(r, c) => Covers(Clamp(sz, r), c)
<1>1. sz[1] \in Nat \ {0} /\ sz[2] \in Nat \ {0}
  OBVIOUS
<1>2. r.left \in Nat /\ r.top \in Nat /\ r.right \in Nat /\ r.bottom \in Nat
  BY DEF Region
<1>3. Clamp(sz, r) \in Region
  BY <1>1, <1>2 DEF Clamp, Region, Least
<1>4. ASSUME NEW c \in Cells(sz), Covers(r, c) PROVE Covers(Clamp(sz, r), c)
  <2>1. c[1] \in Nat /\ c[2] \in Nat /\ c[1] <= sz[1] - 1 /\ c[2] <= sz[2] - 1
    BY CellType
  <2> QED
    BY <1>1, <1>2, <1>4, <2>1 DEF Covers, Rows, Clamp, Least
<1> QED
  BY <1>3, <1>4

\* No pixel is in no region, and every region drawn is a region.
LEMMA RegionFacts ==
  /\ NoRegion \in Region
  /\ \A sz \in Sizes : \A over \in {0, 1} : Regions(sz, over) \subseteq Region
  /\ \A sz \in Sizes \cup {NoSize} : \A c \in Cells(sz) : ~Covers(NoRegion, c) /\ ~Rows(NoRegion, c)
<1>1. NoRegion \in Region
  BY DEF NoRegion, Region
<1>2. ASSUME NEW sz \in Sizes, NEW over \in {0, 1}, NEW r \in Regions(sz, over)
      PROVE  r \in Region
  <2>1. sz[1] \in Nat /\ sz[2] \in Nat
    OBVIOUS
  <2>2. r \in [left : 0..(sz[1] - 1), top : 0..(sz[2] - 1),
               right : 0..(sz[1] - 1 + over), bottom : 0..(sz[2] - 1 + over)]
    BY DEF Regions
  <2> QED
    BY <2>1, <2>2 DEF Region
<1>3. ASSUME NEW sz \in Sizes \cup {NoSize}, NEW c \in Cells(sz)
      PROVE  ~Covers(NoRegion, c) /\ ~Rows(NoRegion, c)
  BY CellType DEF NoRegion, Covers, Rows
<1> QED
  BY <1>1, <1>2, <1>3

-----------------------------------------------------------------------------
(* Framebuffers *)

Pixels(sz) == [Cells(sz) -> 0..MaxPaints]

\* Painting and copying keep a framebuffer one of its size.
LEMMA PixelsKept ==
  ASSUME NEW sz, NEW px \in Pixels(sz)
  PROVE  /\ \A v \in 0..MaxPaints : \A rs : Paint(px, v, rs) \in Pixels(sz)
         /\ \A src \in Pixels(sz) : \A r : Copy(px, src, r) \in Pixels(sz)
  BY DEF Pixels, Paint, Copy

\* A blank framebuffer and the absent frame.
LEMMA BlankFacts ==
  /\ \A sz \in Sizes \cup {NoSize} : Blank(sz) \in Pixels(sz)
  /\ IsFrame(NoFrame)
  /\ \A sz \in Sizes : \A px \in Pixels(sz) : IsFrame([size |-> sz, px |-> px])
<1>1. \A sz : Blank(sz) \in Pixels(sz)
  <2>1. 0 \in 0..MaxPaints
    OBVIOUS
  <2> QED
    BY <2>1 DEF Blank, Pixels
<1>2. IsFrame(NoFrame)
  BY <1>1 DEF IsFrame, NoFrame, Pixels
<1> QED
  BY <1>1, <1>2 DEF IsFrame, Pixels

\* What a frame is made of.
LEMMA FrameParts ==
  ASSUME NEW f, IsFrame(f)
  PROVE  /\ f.size \in Sizes \cup {NoSize} /\ f.px \in Pixels(f.size)
         /\ f = [size |-> f.size, px |-> f.px]
<1>1. PICK sz \in Sizes \cup {NoSize} :
        \E px \in [Cells(sz) -> 0..MaxPaints] : f = [size |-> sz, px |-> px]
  BY DEF IsFrame
<1>2. PICK px \in [Cells(sz) -> 0..MaxPaints] : f = [size |-> sz, px |-> px]
  BY <1>1
<1> QED
  BY <1>2 DEF Pixels

-----------------------------------------------------------------------------
(* The inductive invariant *)

\* IInv with its parts in the form the proofs use.
LEMMA Parts ==
  ASSUME IInv
  PROVE  /\ paints \in 0..MaxPaints /\ size \in Sizes
         /\ canvas \in Pixels(size) /\ image \in Pixels(size) /\ composite \in Pixels(size)
         /\ pending \in Region /\ dirty \in Region
         /\ shared.size \in Sizes \cup {NoSize} /\ shared.px \in Pixels(shared.size)
         /\ shared = [size |-> shared.size, px |-> shared.px]
         /\ texture.size \in Sizes \cup {NoSize} /\ texture.px \in Pixels(texture.size)
         /\ texture = [size |-> texture.size, px |-> texture.px]
  BY FrameParts DEF IInv, TypeOK, Pixels

\* The program starts with everything blank and nothing shared.
LEMMA InitInv == Init => IInv
<1> SUFFICES ASSUME Init PROVE IInv
  OBVIOUS
<1>1. size \in Sizes /\ Blank(size) \in Pixels(size)
  BY BlankFacts DEF Init
<1>2. TypeOK
  <2>1. {canvas, image, composite} \subseteq [Cells(size) -> 0..MaxPaints]
    BY <1>1 DEF Init, Pixels
  <2>2. paints \in 0..MaxPaints /\ starts \in 1..MaxStarts /\ refused \in 0..SurfaceErrors
    BY DEF Init
  <2>3. pending \in Region /\ dirty \in Region
    BY RegionFacts DEF Init
  <2>4. IsFrame(shared) /\ IsFrame(texture) /\ IsFrame(screen)
    BY BlankFacts DEF Init
  <2>5. {fullResync, event, redraw, redrawPending, capped} \subseteq BOOLEAN
    BY DEF Init
  <2> QED
    BY <1>1, <2>1, <2>2, <2>3, <2>4, <2>5 DEF TypeOK
<1>3. SharedCovered
  BY DEF Init, SharedCovered, Blank
<1>4. TextureCovered
  BY DEF Init, TextureCovered
<1>5. UploadIsScheduled
  BY DEF Init, UploadIsScheduled
<1> QED
  BY <1>2, <1>3, <1>4, <1>5 DEF IInv

\* What a paint does to the composite, from whichever source: pixels outside the
\* region it reports are as they were.
LEMMA BlitKeepsCover ==
  ASSUME IInv, NEW r \in Region, NEW src \in Pixels(size),
         composite' = Copy(composite, src, r), pending' = UnionRegion(pending, r),
         UNCHANGED <<size, shared>>
  PROVE  SharedCovered' /\ pending' \in Region /\ composite' \in Pixels(size)
<1>1. /\ size \in Sizes /\ composite \in Pixels(size) /\ pending \in Region
  BY Parts
<1>2. composite' \in Pixels(size)
  BY <1>1, PixelsKept
<1>3. ASSUME NEW c \in Cells(size), composite'[c] # 0, ~Covers(pending', c)
      PROVE  shared.size = size /\ shared.px[c] = composite'[c]
  <2>1. ~Covers(pending, c) /\ ~Covers(r, c)
    BY <1>1, <1>3, UnionCovers
  <2>2. composite'[c] = composite[c]
    BY <1>1, <2>1 DEF Copy, Pixels
  <2> QED
    BY <1>3, <2>1, <2>2 DEF IInv, SharedCovered
<1>4. pending' \in Region
  <2>1. size[1] \in Nat \ {0} /\ size[2] \in Nat \ {0}
    BY <1>1
  <2>2. <<0, 0>> \in Cells(size)
    BY <2>1 DEF Cells
  <2> QED
    BY <1>1, <2>2, UnionCovers
<1> QED
  BY <1>2, <1>3, <1>4 DEF SharedCovered

\* The parts about the UI thread hold after a step that leaves its state alone.
LEMMA UiAlone ==
  ASSUME IInv, UNCHANGED <<frame, event, ui>>
  PROVE  TextureCovered' /\ UploadIsScheduled'
  BY DEF IInv, TextureCovered, UploadIsScheduled, frame, ui, display

\* A stream of orders, rendered or failed, and a bitmap update.
LEMMA PaintsKeepInv ==
  ASSUME IInv,
         \/ \E r1, r2 \in Regions(size, 0) : RenderOrders(r1, r2) \/ FailOrders(r1, r2)
         \/ \E r \in Regions(size, 1) : RenderBitmap(r)
  PROVE  IInv'
<1> USE DEF frame, ui, display
<1>1. /\ size \in Sizes /\ paints \in 0..MaxPaints
      /\ canvas \in Pixels(size) /\ image \in Pixels(size) /\ composite \in Pixels(size)
  BY Parts
<1>2. CASE \E r1, r2 \in Regions(size, 0) : RenderOrders(r1, r2)
  <2>1. PICK r1 \in Regions(size, 0), r2 \in Regions(size, 0) : RenderOrders(r1, r2)
    BY <1>2
  <2>2. r1 \in Region /\ r2 \in Region /\ UnionRegion(r1, r2) \in Region
    <3>1. r1 \in Region /\ r2 \in Region
      BY <1>1, RegionFacts
    <3>2. size[1] \in Nat \ {0} /\ size[2] \in Nat \ {0}
      BY <1>1
    <3>3. <<0, 0>> \in Cells(size)
      BY <3>2 DEF Cells
    <3> QED
      BY <1>1, <3>1, <3>3, UnionCovers
  <2>3. paints' \in 0..MaxPaints
    BY <1>1, <2>1 DEF RenderOrders
  <2>4. canvas' \in Pixels(size)
    BY <1>1, <2>1, <2>3, PixelsKept DEF RenderOrders
  <2>5. SharedCovered' /\ pending' \in Region /\ composite' \in Pixels(size)
    BY <2>1, <2>2, <2>4, BlitKeepsCover DEF RenderOrders
  <2>6. TextureCovered' /\ UploadIsScheduled'
    BY <2>1, UiAlone DEF RenderOrders
  <2>7. UNCHANGED <<starts, size, image, frame, event, ui>>
    BY <2>1 DEF RenderOrders
  <2>8. TypeOK'
    BY <1>1, <2>3, <2>4, <2>5, <2>7 DEF IInv, TypeOK, IsFrame, Pixels
  <2> QED
    BY <2>5, <2>6, <2>8 DEF IInv
<1>3. CASE \E r1, r2 \in Regions(size, 0) : FailOrders(r1, r2)
  <2>1. PICK r1 \in Regions(size, 0), r2 \in Regions(size, 0) : FailOrders(r1, r2)
    BY <1>3
  <2>2. paints' \in 0..MaxPaints
    BY <1>1, <2>1 DEF FailOrders
  <2>3. canvas' \in Pixels(size)
    BY <1>1, <2>1, <2>2, PixelsKept DEF FailOrders
  <2>4. UNCHANGED <<starts, size, image, composite, pending, frame, event, ui>>
    BY <2>1 DEF FailOrders
  <2>5. TypeOK'
    BY <1>1, <2>2, <2>3, <2>4 DEF IInv, TypeOK, IsFrame, Pixels
  <2>6. SharedCovered'
    BY <2>4 DEF IInv, SharedCovered
  <2> QED
    BY <2>4, <2>5, <2>6, UiAlone DEF IInv
<1>4. CASE \E r \in Regions(size, 1) : RenderBitmap(r)
  <2>1. PICK r \in Regions(size, 1) : RenderBitmap(r)
    BY <1>4
  <2>2. r \in Region
    BY <1>1, RegionFacts
  <2>3. paints' \in 0..MaxPaints
    BY <1>1, <2>1 DEF RenderBitmap
  <2>4. image' \in Pixels(size)
    BY <1>1, <2>1, <2>3, PixelsKept DEF RenderBitmap
  <2>5. SharedCovered' /\ pending' \in Region /\ composite' \in Pixels(size)
    BY <2>1, <2>2, <2>4, BlitKeepsCover DEF RenderBitmap
  <2>6. TextureCovered' /\ UploadIsScheduled'
    BY <2>1, UiAlone DEF RenderBitmap
  <2>7. UNCHANGED <<starts, size, canvas, frame, event, ui>>
    BY <2>1 DEF RenderBitmap
  <2>8. TypeOK'
    BY <1>1, <2>3, <2>4, <2>5, <2>7 DEF IInv, TypeOK, IsFrame, Pixels
  <2> QED
    BY <2>5, <2>6, <2>8 DEF IInv
<1> QED
  BY <1>2, <1>3, <1>4

\* The sink's copy: the pixels of the pending region reach the SharedFrame and its
\* dirty region, or all of the composite does with a full resync.
LEMMA FlushKeepsInv == ASSUME IInv, Flush PROVE IInv'
<1> USE DEF frame, ui, display, session
<1>0. /\ size \in Sizes /\ composite \in Pixels(size)
      /\ pending \in Region /\ dirty \in Region
      /\ shared.size \in Sizes \cup {NoSize} /\ shared.px \in Pixels(shared.size)
      /\ shared = [size |-> shared.size, px |-> shared.px]
  BY Parts
<1>1. /\ pending' = NoRegion /\ event' = TRUE
      /\ UNCHANGED <<paints, starts, size, canvas, image, composite>>
      /\ UNCHANGED <<redraw, redrawPending, capped, texture, screen, refused>>
  BY DEF Flush, OnGraphicsUpdate
<1>2. UploadIsScheduled'
  BY <1>1 DEF UploadIsScheduled
<1>3. pending' \in Region
  BY <1>1, RegionFacts
<1>4. CASE shared' = [size |-> size, px |-> composite] /\ fullResync' = TRUE /\ dirty' = dirty
  <2>1. IsFrame(shared')
    BY <1>0, <1>4, BlankFacts
  <2>2. TypeOK'
    BY <1>0, <1>1, <1>3, <1>4, <2>1 DEF IInv, TypeOK, IsFrame, Pixels
  <2>3. SharedCovered'
    BY <1>1, <1>4 DEF SharedCovered
  <2>4. TextureCovered'
    BY <1>4 DEF TextureCovered
  <2> QED
    BY <1>2, <2>2, <2>3, <2>4 DEF IInv
<1>5. CASE /\ shared.size = size
           /\ shared' = [shared EXCEPT !.px = Copy(@, composite, Clamp(size, pending))]
           /\ dirty' = UnionRegion(dirty, Clamp(size, pending))
           /\ fullResync' = fullResync
  <2> DEFINE k == Clamp(size, pending)
  <2>0. k \in Region /\ \A c \in Cells(size) : Covers(pending, c) => Covers(k, c)
    BY <1>0, ClampCovers
  <2> HIDE DEF k
  <2>1. shared' = [size |-> size, px |-> Copy(shared.px, composite, k)]
    BY <1>0, <1>5 DEF k
  <2>2. Copy(shared.px, composite, k) \in Pixels(size)
    BY <1>0, <1>5, PixelsKept
  <2>3. IsFrame(shared')
    BY <1>0, <2>1, <2>2, BlankFacts
  <2>4. \A c \in Cells(size) :
          /\ Covers(k, c) => shared'.px[c] = composite[c]
          /\ ~Covers(k, c) => shared'.px[c] = shared.px[c]
    BY <1>0, <1>5, <2>1 DEF Copy, Pixels
  <2>5. /\ dirty' \in Region
        /\ \A c \in Cells(size) : Rows(dirty, c) \/ Rows(k, c) => Rows(dirty', c)
    <3>1. size[1] \in Nat \ {0} /\ size[2] \in Nat \ {0}
      BY <1>0
    <3>2. <<0, 0>> \in Cells(size)
      BY <3>1 DEF Cells
    <3>3. dirty' = UnionRegion(dirty, k)
      BY <1>5 DEF k
    <3> QED
      BY <1>0, <2>0, <3>2, <3>3, UnionCovers
  <2>6. TypeOK'
    BY <1>0, <1>1, <1>3, <1>5, <2>3, <2>5 DEF IInv, TypeOK, IsFrame, Pixels
  <2>7. SharedCovered'
    <3>1. ASSUME NEW c \in Cells(size), composite[c] # 0
          PROVE  shared'.px[c] = composite[c]
      <4>1. CASE Covers(k, c)
        BY <2>4, <4>1
      <4>2. CASE ~Covers(k, c)
        BY <2>0, <2>4, <3>1, <4>2 DEF IInv, SharedCovered
      <4> QED
        BY <4>1, <4>2
    <3> QED
      BY <1>1, <2>1, <3>1 DEF SharedCovered
  <2>8. TextureCovered'
    <3> SUFFICES ASSUME size = texture.size, ~fullResync,
                        NEW c \in Cells(size), texture.px[c] # shared'.px[c]
                 PROVE  Rows(dirty', c)
      BY <1>1, <1>5, <2>1 DEF TextureCovered
    <3>1. CASE Covers(k, c)
      BY <2>5, <3>1 DEF Covers
    <3>2. CASE ~Covers(k, c)
      BY <1>5, <2>4, <2>5, <3>2 DEF IInv, TextureCovered
    <3> QED
      BY <3>1, <3>2
  <2> QED
    BY <1>2, <2>6, <2>7, <2>8 DEF IInv
<1> QED
  BY <1>4, <1>5 DEF Flush, OnGraphicsUpdate

\* New framebuffers: nothing is painted yet, and the SharedFrame is kept or dropped
\* with the flags that go with it.
LEMMA StartsKeepInv ==
  ASSUME IInv, NEW sz \in Sizes, Reactivate(sz) \/ StartSession(sz)
  PROVE  IInv'
<1> USE DEF frame, ui, display
<1>1. Blank(sz) \in Pixels(sz) /\ IsFrame(NoFrame)
  BY BlankFacts
<1>2. /\ size' = sz /\ pending' = NoRegion
      /\ canvas' = Blank(sz) /\ image' = Blank(sz) /\ composite' = Blank(sz)
      /\ paints' = paints
  BY DEF Reactivate, StartSession, Fresh
<1>3. starts' \in 1..MaxStarts
  BY DEF Reactivate, StartSession, IInv, TypeOK
<1>4. SharedCovered'
  BY <1>2 DEF SharedCovered, Blank
<1>5. CASE Reactivate(sz)
  <2>1. TypeOK'
    BY <1>1, <1>2, <1>3, <1>5, RegionFacts DEF Reactivate, IInv, TypeOK, IsFrame, Pixels
  <2>2. TextureCovered' /\ UploadIsScheduled'
    BY <1>5 DEF Reactivate, IInv, TextureCovered, UploadIsScheduled
  <2> QED
    BY <1>4, <2>1, <2>2 DEF IInv
<1>6. CASE StartSession(sz)
  <2>1. TypeOK'
    BY <1>1, <1>2, <1>3, <1>6, RegionFacts DEF StartSession, IInv, TypeOK, IsFrame, Pixels
  <2>2. TextureCovered'
    <3>1. shared'.size = NoSize
      BY <1>6 DEF StartSession, NoFrame
    <3>2. Cells(NoSize) = {}
      BY DEF Cells, NoSize
    <3> QED
      BY <3>1, <3>2 DEF TextureCovered
  <2>3. UploadIsScheduled'
    BY <1>6 DEF StartSession, UploadIsScheduled
  <2> QED
    BY <1>4, <2>1, <2>2, <2>3 DEF IInv
<1> QED
  BY <1>5, <1>6

\* An upload brings the texture in step with the SharedFrame.
LEMMA RenderKeepsInv ==
  ASSUME IInv, Render
  PROVE  /\ TextureCovered' /\ UploadIsScheduled'
         /\ IsFrame(texture') /\ IsFrame(screen') /\ IsFrame(shared')
         /\ refused' \in 0..SurfaceErrors /\ dirty' \in Region /\ fullResync' \in BOOLEAN
<1>0. /\ shared.size \in Sizes \cup {NoSize} /\ shared.px \in Pixels(shared.size)
      /\ texture.size \in Sizes \cup {NoSize} /\ texture.px \in Pixels(texture.size)
      /\ texture = [size |-> texture.size, px |-> texture.px]
      /\ IsFrame(shared) /\ IsFrame(texture) /\ IsFrame(screen)
  BY Parts DEF IInv, TypeOK
<1>1. /\ texture' = Uploaded /\ dirty' = NoRegion /\ fullResync' = FALSE /\ shared' = shared
  BY DEF Render
<1>2. UploadIsScheduled'
  BY <1>1 DEF UploadIsScheduled
<1>3. IsFrame(texture') /\ TextureCovered'
  <2>1. CASE shared = NoFrame
    <3>1. Cells(NoSize) = {}
      BY DEF Cells, NoSize
    <3>2. shared'.size = NoSize
      BY <1>1, <2>1 DEF NoFrame
    <3> QED
      BY <1>0, <1>1, <2>1, <3>1, <3>2 DEF Uploaded, TextureCovered
  <2>2. CASE shared # NoFrame /\ (fullResync \/ texture.size # shared.size)
    BY <1>0, <1>1, <2>2 DEF Uploaded, TextureCovered
  <2>3. CASE shared # NoFrame /\ ~fullResync /\ texture.size = shared.size
    <3> DEFINE px == [c \in DOMAIN texture.px |->
                        IF Rows(dirty, c) THEN shared.px[c] ELSE texture.px[c]]
    <3>1. texture' = [size |-> texture.size, px |-> px]
      BY <1>0, <1>1, <2>3 DEF Uploaded
    <3>2. px \in Pixels(texture.size)
      BY <1>0, <2>3 DEF Pixels
    <3>3. \A c \in Cells(texture.size) : px[c] = shared.px[c]
      BY <1>0, <2>3 DEF Pixels, IInv, TextureCovered
    <3> HIDE DEF px
    <3>4. IsFrame(texture')
      BY <1>0, <3>1, <3>2 DEF IsFrame, Pixels
    <3>5. TextureCovered'
      BY <1>1, <2>3, <3>1, <3>3 DEF TextureCovered
    <3> QED
      BY <3>4, <3>5
  <2> QED
    BY <2>1, <2>2, <2>3
<1>4. IsFrame(screen')
  BY <1>0, <1>3, BlankFacts DEF Render
<1>5. refused' \in 0..SurfaceErrors
  BY DEF Render, IInv, TypeOK
<1> QED
  BY <1>0, <1>1, <1>2, <1>3, <1>4, <1>5, RegionFacts

\* The UI thread's events.
LEMMA UiKeepsInv ==
  ASSUME IInv, UserFrame \/ OtherRedraw \/ RedrawRequested \/ IntervalEnds \/ AboutToWait
  PROVE  IInv'
<1> USE DEF session, frame, ui, display
<1>1. UNCHANGED <<session, pending>>
  BY DEF UserFrame, OtherRedraw, RedrawRequested, IntervalEnds, AboutToWait
<1>2. CASE RedrawRequested /\ Render
  <2>1. /\ event' = event /\ redraw' = FALSE /\ redrawPending' \in BOOLEAN /\ capped' \in BOOLEAN
        /\ shared' = shared
    BY <1>2 DEF RedrawRequested, Render, IInv, TypeOK
  <2>2. TypeOK'
    BY <1>1, <1>2, <2>1, RenderKeepsInv DEF IInv, TypeOK
  <2>3. SharedCovered'
    BY <1>1, <2>1 DEF IInv, SharedCovered
  <2> QED
    BY <1>2, <2>2, <2>3, RenderKeepsInv DEF IInv
<1>3. CASE /\ UNCHANGED <<frame, display>>
           /\ {event', redraw', redrawPending', capped'} \subseteq BOOLEAN
           /\ event \/ redraw \/ redrawPending => event' \/ redraw' \/ redrawPending'
  <2>1. TypeOK'
    BY <1>1, <1>3 DEF IInv, TypeOK, IsFrame
  <2>2. SharedCovered' /\ TextureCovered' /\ UploadIsScheduled'
    BY <1>1, <1>3 DEF IInv, SharedCovered, TextureCovered, UploadIsScheduled
  <2> QED
    BY <2>1, <2>2 DEF IInv
<1>4. {event, redraw, redrawPending, capped} \subseteq BOOLEAN
  BY DEF IInv, TypeOK
<1>5. CASE UserFrame
  BY <1>3, <1>4, <1>5 DEF UserFrame
<1>6. CASE OtherRedraw
  BY <1>3, <1>4, <1>6 DEF OtherRedraw
<1>7. CASE RedrawRequested
  BY <1>2, <1>3, <1>4, <1>7 DEF RedrawRequested
<1>8. CASE IntervalEnds
  BY <1>3, <1>4, <1>8 DEF IntervalEnds
<1>9. CASE AboutToWait
  BY <1>3, <1>4, <1>9 DEF AboutToWait
<1> QED
  BY <1>5, <1>6, <1>7, <1>8, <1>9

\* Every step keeps the invariant.
LEMMA NextKeepsInv == ASSUME IInv, [Next]_vars PROVE IInv'
<1>1. CASE Next
  BY <1>1, PaintsKeepInv, FlushKeepsInv, StartsKeepInv, UiKeepsInv DEF Next
<1>2. CASE UNCHANGED vars
  BY <1>2 DEF vars, session, frame, ui, display, IInv, TypeOK, IsFrame,
              SharedCovered, TextureCovered, UploadIsScheduled
<1> QED
  BY <1>1, <1>2

-----------------------------------------------------------------------------
(* Theorems *)

\* The inductive invariant of the frame path, from the composite to the texture.
THEOREM Invariance == Spec => []IInv
  BY InitInv, NextKeepsInv, PTL DEF Spec

\* Nothing the server painted is lost between the composite and the SharedFrame
\* (FrameSink::on_graphics_update), whatever the order of paints, flushes, resyncs
\* and reactivations.
THEOREM NoPaintLost == Spec => []SharedCovered
<1>1. IInv => SharedCovered
  BY DEF IInv
<1> QED
  BY <1>1, Invariance, PTL

\* Nothing is lost between the SharedFrame and the texture (write_layer_rows),
\* although the flags are taken by every render and only a row band is uploaded.
THEOREM NoUploadLost == Spec => []TextureCovered
<1>1. IInv => TextureCovered
  BY DEF IInv
<1> QED
  BY <1>1, Invariance, PTL

\* The frame cap never strands an upload (RedrawRequested, about_to_wait).
THEOREM UploadScheduled == Spec => []UploadIsScheduled
<1>1. IInv => UploadIsScheduled
  BY DEF IInv
<1> QED
  BY <1>1, Invariance, PTL

=============================================================================
