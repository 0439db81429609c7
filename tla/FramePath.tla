------------------------------ MODULE FramePath ------------------------------
(***************************************************************************)
(* From a decoded graphics update to the screen: the two sources (drawing   *)
(* orders and IronRDP's image) blitted into one composite, updates          *)
(* coalesced into one pending region, the sink's copy into the SharedFrame  *)
(* with its dirty region, and the UI thread that uploads the dirty rows to  *)
(* the desktop texture, at most once per frame interval.                    *)
(*                                                                          *)
(* crates/sccm-rc-core/src/rdp.rs (CompositeFrame, union_region, the loop   *)
(* of run_active_session), crates/sccm-rc-viewer/src/main.rs (FrameSink,    *)
(* user_event, about_to_wait, RedrawRequested, render_gpu) and gpu.rs       *)
(*                                                                          *)
(* A pixel holds the number of the paint that last wrote it, 0 for none.    *)
(***************************************************************************)
EXTENDS Integers, FiniteSets

CONSTANTS
    Sizes,          \* desktop sizes <<width, height>>
    MaxPaints,      \* bound: paints by the server
    MaxStarts,      \* bound: sessions and activations
    Sources,        \* what the server paints with
    StreamsFail,    \* an order stream may fail to decode half way
    SurfaceErrors   \* bound: frames the window surface refuses

NoSize == <<0, 0>>

ASSUME SizesAssumption ==
    Sizes # {} /\ Sizes \subseteq (Nat \ {0}) \X (Nat \ {0})
ASSUME FrameBoundsAssumption == MaxPaints \in Nat /\ MaxStarts \in Nat \ {0}
ASSUME SourcesAssumption == Sources \subseteq {"orders", "bitmaps"}
ASSUME FaultsAssumption == StreamsFail \in BOOLEAN /\ SurfaceErrors \in Nat

VARIABLES
    paints,     \* paints so far
    starts,     \* activations so far
    size,       \* width, height of run_active_session
    canvas,     \* the OrderCanvas
    image,      \* IronRDP's DecodedImage
    composite,  \* the CompositeFrame
    pending,    \* region to flush
    shared,     \* SharedFrame: width, height, rgba
    dirty, fullResync,      \* SharedFrame
    event,      \* a UserEvent::Frame is queued
    redraw,     \* a redraw is requested of the window
    redrawPending,          \* App.redraw_pending
    capped,     \* last_paint is less than a frame interval ago
    texture,    \* the desktop Layer
    screen,     \* what was presented last
    refused     \* frames the surface refused so far

session == <<paints, starts, size, canvas, image, composite>>
frame == <<shared, dirty, fullResync>>
display == <<texture, screen, refused>>
ui == <<redraw, redrawPending, capped, display>>
vars == <<session, pending, frame, event, ui>>

-----------------------------------------------------------------------------
(* Regions (UpdateRegion, inclusive) and framebuffers *)

NoRegion == [left |-> 1, top |-> 1, right |-> 0, bottom |-> 0]

Cells(sz) == (0..(sz[1] - 1)) \X (0..(sz[2] - 1))
Blank(sz) == [c \in Cells(sz) |-> 0]
NoFrame == [size |-> NoSize, px |-> Blank(NoSize)]

Rows(r, c) == r.top <= c[2] /\ c[2] <= r.bottom
Covers(r, c) == r.left <= c[1] /\ c[1] <= r.right /\ Rows(r, c)

\* Regions that start on a desktop of size sz and reach over its edge by at most
\* `over`.
Regions(sz, over) ==
    {r \in [left : 0..(sz[1] - 1), top : 0..(sz[2] - 1),
            right : 0..(sz[1] - 1 + over), bottom : 0..(sz[2] - 1 + over)] :
        r.left <= r.right /\ r.top <= r.bottom}

Least(a, b) == IF a <= b THEN a ELSE b
Most(a, b) == IF a >= b THEN a ELSE b

\* union_region: the bounding box; NoRegion stands for None.
UnionRegion(a, b) ==
    IF a = NoRegion THEN b
    ELSE [left |-> Least(a.left, b.left), top |-> Least(a.top, b.top),
          right |-> Most(a.right, b.right), bottom |-> Most(a.bottom, b.bottom)]

\* Mutant: the clamp is off by one, short of the last column.
ClampShort(sz, r) ==
    [left |-> r.left, top |-> Least(r.top, sz[2] - 1),
     right |-> Least(r.right, Most(sz[1] - 2, 0)), bottom |-> Least(r.bottom, sz[2] - 1)]

\* A region cut off at the edge of the desktop.
Clamp(sz, r) ==
    [left |-> r.left, top |-> Least(r.top, sz[2] - 1),
     right |-> Least(r.right, sz[1] - 1), bottom |-> Least(r.bottom, sz[2] - 1)]

Paint(px, v, rs) ==
    [c \in DOMAIN px |-> IF \E r \in rs : Covers(r, c) THEN v ELSE px[c]]

\* CompositeFrame::blit and the sink's row copies.
Copy(dst, src, r) == [c \in DOMAIN dst |-> IF Covers(r, c) THEN src[c] ELSE dst[c]]

-----------------------------------------------------------------------------
(* run_active_session *)

Fresh(sz) ==
    /\ size' = sz
    /\ canvas' = Blank(sz) /\ image' = Blank(sz) /\ composite' = Blank(sz)
    /\ pending' = NoRegion

Init ==
    /\ paints = 0 /\ starts = 1
    /\ size \in Sizes
    /\ canvas = Blank(size) /\ image = Blank(size) /\ composite = Blank(size)
    /\ pending = NoRegion
    /\ shared = NoFrame /\ dirty = NoRegion /\ fullResync = FALSE
    /\ event = TRUE   \* on_status
    /\ redraw = FALSE /\ redrawPending = FALSE /\ capped = TRUE
    /\ texture = NoFrame /\ screen = NoFrame /\ refused = 0

\* A stream of two orders that renders: its dirty region is the bounding box of
\* what the orders drew.
RenderOrders(r1, r2) ==
    LET region == UnionRegion(r1, r2)
    IN  /\ "orders" \in Sources /\ paints < MaxPaints
        /\ paints' = paints + 1
        /\ canvas' = Paint(canvas, paints', {r1, r2})
        /\ composite' = Copy(composite, canvas', region)
        /\ pending' = UnionRegion(pending, region)
        /\ UNCHANGED <<starts, size, image, frame, event, ui>>

\* process_orders fails at the second order: the first is on the canvas already
\* and its region is lost with the outcome.
FailOrders(r1, r2) ==
    /\ StreamsFail /\ "orders" \in Sources /\ paints < MaxPaints
    /\ paints' = paints + 1
    /\ canvas' = Paint(canvas, paints', {r1})
    /\ UNCHANGED <<starts, size, image, composite, pending, frame, event, ui>>

\* A bitmap or surface update through the active stage.
RenderBitmap(r) ==
    /\ "bitmaps" \in Sources /\ paints < MaxPaints
    /\ paints' = paints + 1
    /\ image' = Paint(image, paints', {r})
    /\ composite' = Copy(composite, image', r)
    /\ pending' = UnionRegion(pending, r)
    /\ UNCHANGED <<starts, size, canvas, frame, event, ui>>

\* FrameSink::on_graphics_update: all of the composite on a new size or when the
\* last full copy is 300 ms old, else the region.
OnGraphicsUpdate(r) ==
    \E resync \in BOOLEAN :
        /\ IF shared.size # size \/ resync
           THEN /\ shared' = [size |-> size, px |-> composite]
                /\ fullResync' = TRUE
                /\ UNCHANGED dirty
           ELSE /\ shared' = [shared EXCEPT !.px = Copy(@, composite, Clamp(size, r))]
                /\ dirty' = UnionRegion(dirty, Clamp(size, r))
                /\ UNCHANGED fullResync
        /\ event' = TRUE

\* Buffer drained, or 16 ms since the last flush.
Flush ==
    /\ pending # NoRegion
    /\ OnGraphicsUpdate(pending)
    /\ pending' = NoRegion
    /\ UNCHANGED <<session, ui>>

\* The server reactivates, or the thread reconnects to the same host: all new
\* framebuffers, nothing pending; the SharedFrame is kept.
Reactivate(sz) ==
    /\ starts < MaxStarts /\ starts' = starts + 1
    /\ Fresh(sz)
    /\ event' = TRUE   \* on_status
    /\ UNCHANGED <<paints, frame, ui>>

\* start_session for the next host: SharedFrame::default().
StartSession(sz) ==
    /\ starts < MaxStarts /\ starts' = starts + 1
    /\ Fresh(sz)
    /\ shared' = NoFrame /\ dirty' = NoRegion /\ fullResync' = FALSE
    /\ redraw' = TRUE
    /\ UNCHANGED <<paints, event, redrawPending, capped, display>>

-----------------------------------------------------------------------------
(* The UI thread *)

\* user_event
UserFrame ==
    /\ event /\ event' = FALSE
    /\ redraw' = TRUE
    /\ UNCHANGED <<session, pending, frame, redrawPending, capped, display>>

\* Mouse, keys, overlays, resizing: a redraw for another reason.
OtherRedraw ==
    /\ ~redraw /\ redraw' = TRUE
    /\ UNCHANGED <<session, pending, frame, event, redrawPending, capped, display>>

\* GpuRenderer::render's upload: everything into a new texture or on a full
\* resync, else the rows of the dirty region.
Uploaded ==
    IF shared = NoFrame THEN texture
    ELSE IF fullResync \/ texture.size # shared.size THEN shared
    ELSE [texture EXCEPT !.px = [c \in DOMAIN @ |->
                                    IF Rows(dirty, c) THEN shared.px[c] ELSE @[c]]]

\* render_gpu: takes the SharedFrame's flags, uploads and presents; a surface
\* error returns after the upload.
Render ==
    /\ texture' = Uploaded
    /\ dirty' = NoRegion /\ fullResync' = FALSE
    /\ \/ /\ screen' = IF shared = NoFrame THEN NoFrame ELSE texture'
          /\ UNCHANGED refused
       \/ /\ refused < SurfaceErrors /\ refused' = refused + 1
          /\ UNCHANGED screen
    /\ UNCHANGED shared

\* WindowEvent::RedrawRequested
RedrawRequested ==
    /\ redraw /\ redraw' = FALSE
    /\ \/ /\ ~capped
          /\ capped' = TRUE /\ redrawPending' = FALSE
          /\ Render
       \/ /\ capped
          /\ redrawPending' = TRUE
          /\ UNCHANGED <<capped, frame, display>>
    /\ UNCHANGED <<session, pending, event>>

\* The frame interval is over.
IntervalEnds ==
    /\ capped /\ capped' = FALSE
    /\ UNCHANGED <<session, pending, frame, event, redraw, redrawPending, display>>

\* Mutant: no trailing paint, only the spinner.
AboutToWaitSpinnerOnly ==
    /\ ~redraw /\ redraw' = TRUE
    /\ shared = NoFrame
    /\ UNCHANGED <<session, pending, frame, event, redrawPending, capped, display>>

\* about_to_wait: the spinner while nothing is painted, the trailing paint.
AboutToWait ==
    /\ ~redraw /\ redraw' = TRUE
    /\ shared = NoFrame \/ (redrawPending /\ ~capped)
    /\ UNCHANGED <<session, pending, frame, event, redrawPending, capped, display>>

Next ==
    \/ \E r1, r2 \in Regions(size, 0) : RenderOrders(r1, r2) \/ FailOrders(r1, r2)
    \/ \E r \in Regions(size, 1) : RenderBitmap(r)
    \/ Flush
    \/ \E sz \in Sizes : Reactivate(sz) \/ StartSession(sz)
    \/ UserFrame \/ OtherRedraw
    \/ RedrawRequested \/ IntervalEnds \/ AboutToWait

Fairness ==
    /\ WF_vars(Flush) /\ WF_vars(UserFrame)
    /\ WF_vars(RedrawRequested) /\ WF_vars(IntervalEnds) /\ WF_vars(AboutToWait)

Spec == Init /\ [][Next]_vars
FairSpec == Spec /\ Fairness

-----------------------------------------------------------------------------
(* Properties *)

IsFrame(f) ==
    \E sz \in Sizes \cup {NoSize} :
        \E px \in [Cells(sz) -> 0..MaxPaints] : f = [size |-> sz, px |-> px]
Region == [left : Nat, top : Nat, right : Nat, bottom : Nat]

TypeOK ==
    /\ paints \in 0..MaxPaints /\ starts \in 1..MaxStarts /\ size \in Sizes
    /\ {canvas, image, composite} \subseteq [Cells(size) -> 0..MaxPaints]
    /\ pending \in Region /\ dirty \in Region
    /\ IsFrame(shared) /\ IsFrame(texture) /\ IsFrame(screen)
    /\ refused \in 0..SurfaceErrors
    /\ {fullResync, event, redraw, redrawPending, capped} \subseteq BOOLEAN

\* The composite holds the newest pixel of the two sources ("so the sink always
\* sees the complete desktop"): no paint is under-reported on the way into it, and
\* none is overwritten by an older one.  It holds when one source paints and every
\* stream decodes; with both, the bounding box of two orders covers newer pixels.
CompositeIsNewest ==
    \A c \in Cells(size) : composite[c] = Most(canvas[c], image[c])

\* Every painted pixel of the composite is in the SharedFrame or will be flushed,
\* through changes of size, resyncs, reactivations and host switches.
SharedCovered ==
    \A c \in Cells(size) :
        composite[c] # 0 /\ ~Covers(pending, c)
            => shared.size = size /\ shared.px[c] = composite[c]

\* Where the texture differs from the SharedFrame, its next upload will bring the
\* pixel: all of it, or a row band with that row in it.
TextureCovered ==
    shared.size = texture.size /\ ~fullResync =>
        \A c \in Cells(shared.size) :
            texture.px[c] # shared.px[c] => Rows(dirty, c)

\* An upload that is due has a wake-up on its way: a queued event, a redraw, or
\* the trailing paint of the frame cap.
UploadIsScheduled ==
    fullResync \/ dirty # NoRegion => event \/ redraw \/ redrawPending

\* "the latest frame lands": once the server stops painting, what is on the
\* screen is what is in the composite, unless the surface refused a frame:
\* nothing asks for that one again.
LatestFrameLands ==
    <>[](refused = 0 =>
            \A c \in Cells(size) :
                composite[c] # 0 => screen.size = size /\ screen.px[c] = composite[c])

IInv == TypeOK /\ SharedCovered /\ TextureCovered /\ UploadIsScheduled

=============================================================================
