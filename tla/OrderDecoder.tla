---------------------------- MODULE OrderDecoder ----------------------------
(***************************************************************************)
(* The drawing-order decoder and its caches: the state RDP's order encoding *)
(* makes client and server share.  A primary order carries only the fields  *)
(* that changed, as absolute values or deltas to the last order of its      *)
(* type; the order type and the clip bounds are sticky too; bitmaps, glyphs *)
(* and palettes are sent once and named by cache cell afterwards.           *)
(*                                                                          *)
(* crates/sccm-rc-orders/src: processor.rs (OrderProcessor), header.rs,     *)
(* primary.rs (decode), secondary.rs, cache.rs, cursor.rs                   *)
(*                                                                          *)
(* The server (external) encodes against its own copy of that state and     *)
(* hears nothing back, so the stream has one order in flight.  Orders come  *)
(* in updates; an order the decoder gives up on takes the rest of its       *)
(* update with it.  `lost` is auxiliary: what the client was told and did   *)
(* not take in since it last heard of it afresh.                            *)
(***************************************************************************)
EXTENDS Integers, Sequences, FiniteSets, FiniteSetsExt

CONSTANTS
    Touched,     \* the positions the server varies, for each order type it draws with
    Values,      \* values of those fields
    CacheIds,    \* cache identifiers in use
    Indices,     \* cache indices in use
    WaitingList, \* WAITING_LIST_INDEX (0x7FFF)
    Kinds,       \* cell kinds in use, of "bitmap", "waiting", "glyph" and "palette"
    Contents,    \* what a cache cell can hold
    Edges,       \* the bounds edges the server varies
    MaxOrders,   \* bound: orders the server sends
    None         \* no value

ASSUME FieldsAssumption ==
    /\ Values \subseteq Int /\ Indices \subseteq Int /\ WaitingList \in Indices
    /\ Edges \subseteq {"left", "top", "right", "bottom"}
    /\ Kinds \subseteq {"bitmap", "waiting", "glyph", "palette"}
    /\ MaxOrders \in Nat
ASSUME NoneAssumption == None \notin Contents /\ None \notin Int

-----------------------------------------------------------------------------
(* What each order type's decode() reads, one entry per field-flag bit. *)

Rectangle == <<"coord", "coord", "coord", "coord">>

DstBlt == Rectangle \o <<"byte">>
OpaqueRect == Rectangle \o <<"byte", "byte", "byte">>
ScrBlt == Rectangle \o <<"byte", "coord", "coord">>
MemBlt == <<"word">> \o Rectangle \o <<"byte", "coord", "coord", "word">>
PatBlt == Rectangle \o <<"byte", "colour", "colour", "byte", "byte", "byte", "byte", "skip">>
LineTo == <<"word">> \o Rectangle \o <<"colour", "byte", "byte", "byte", "colour">>
GlyphIndex ==
    <<"byte", "byte", "byte", "byte", "colour", "colour">> \o Rectangle \o Rectangle
        \o <<"byte", "byte", "byte", "byte", "skip", "coord", "coord", "data">>
FastIndex ==
    <<"byte", "pair", "colour", "colour">> \o Rectangle \o Rectangle
        \o <<"coord", "coord", "data">>
FastGlyph == FastIndex

Layout ==
    [DstBlt |-> DstBlt, OpaqueRect |-> OpaqueRect, ScrBlt |-> ScrBlt,
     MemBlt |-> MemBlt, PatBlt |-> PatBlt, LineTo |-> LineTo,
     GlyphIndex |-> GlyphIndex, FastIndex |-> FastIndex, FastGlyph |-> FastGlyph]

\* Bytes of field flags (field_bytes).  Mem3Blt stands for the types that are
\* sized but not drawn; a type without an entry is unknown.
FieldBytes ==
    [DstBlt |-> 1, OpaqueRect |-> 1, ScrBlt |-> 1, MemBlt |-> 2, PatBlt |-> 2,
     LineTo |-> 2, GlyphIndex |-> 3, FastIndex |-> 3, FastGlyph |-> 2,
     Mem3Blt |-> 3]

Types == DOMAIN Touched
Unsupported == {"Mem3Blt", "NoSuchOrder"}
Positions == UNION {{<<"field", t, i>> : i \in Touched[t]} : t \in Types}
EdgeKeys == {<<"edge", e>> : e \in Edges}
TypeKey == <<"type">>

\* Orders whose drawing would write to the glyph cache are left out: a server that
\* never sends glyph data draws no run and caches no inline glyph or fragment.
ASSUME TouchedAssumption ==
    /\ Types \subseteq DOMAIN Layout
    /\ \A t \in Types : /\ Touched[t] \subseteq DOMAIN Layout[t]
                        /\ \A i \in Touched[t] : Layout[t][i] # "data"

\* Bitmap and glyph cells, palettes, and one waiting-list slot per bitmap cache.
Cells == {c \in Kinds \X CacheIds \X Indices : (c[1] = "waiting") <=> (c[3] = WaitingList)}

VARIABLES
    sType, sFields, sBounds, sCells,   \* server: what it encodes against
    sent,                              \* server: orders sent
    wire,                              \* the order in flight, if there is one
    meant,                             \* server: what its last order draws, or None
    type,      \* current_order_type
    fields,    \* dstblt, patblt, ..., fast_glyph: persistent field state
    bounds,    \* bounds
    cells,     \* bitmaps, waiting slots, glyphs, palettes
    mode,      \* what becomes of the update: "parse", "drop" or "garbled"
    drawn,     \* what the last order drew, or None
    lost       \* auxiliary

server == <<sType, sFields, sBounds, sCells, sent, meant>>
memory == <<type, fields, bounds, cells>>
vars == <<server, wire, memory, mode, drawn, lost>>

-----------------------------------------------------------------------------
(* Field flags. *)

\* Mutant: TS_ZERO_FIELD_BYTE_BIT1 takes one byte off instead of two.
ReadBytesShort(zero, fb) ==
    LET fb0 == IF 0 \in zero THEN (IF fb = 0 THEN 0 ELSE fb - 1) ELSE fb
    IN  IF 1 \in zero THEN (IF fb0 > 1 THEN fb0 - 1 ELSE 0) ELSE fb0

\* The number of flag bytes read_field_flags takes, given the two
\* TS_ZERO_FIELD_BYTE bits of the control byte.
ReadBytes(zero, fb) ==
    LET fb0 == IF 0 \in zero THEN (IF fb = 0 THEN 0 ELSE fb - 1) ELSE fb
    IN  IF 1 \in zero THEN (IF fb0 > 1 THEN fb0 - 2 ELSE 0) ELSE fb0

\* Server: how many bytes it needs for flags, and the control bits that say so.
BytesFor(flags) == IF flags = {} THEN 0 ELSE ((Max(flags) - 1) \div 8) + 1
ZeroBits(dropped) ==
    CASE dropped = 0 -> {} [] dropped = 1 -> {0} [] dropped = 2 -> {1} [] OTHER -> {0, 1}

-----------------------------------------------------------------------------
(* One primary order. *)

Plus(a, v) == IF a = None THEN None ELSE a + v

\* Mutant: a delta order's coordinates are stored as they come.
DecodedNoDelta(t, old, flags, delta, vals, avail) ==
    [i \in DOMAIN old |->
        IF i \in flags /\ Layout[t][i] # "skip" /\ Cardinality({j \in flags : j <= i}) <= avail
        THEN vals[i] ELSE old[i]]

\* decode(): the fields in the order of their bits, each overwritten (or, a
\* coordinate of a delta order, added to) when its bit is set, until the bytes
\* run out after avail of them.
Decoded(t, old, flags, delta, vals, avail) ==
    [i \in DOMAIN old |->
        IF i \in flags /\ Layout[t][i] # "skip" /\ Cardinality({j \in flags : j <= i}) <= avail
        THEN IF delta /\ Layout[t][i] = "coord" THEN Plus(old[i], vals[i]) ELSE vals[i]
        ELSE old[i]]

\* Bounds::read: an edge is absolute, a delta or kept.
ReadBounds(old, desc) ==
    [e \in Edges |-> CASE desc[e].how = "abs" -> desc[e].v
                       [] desc[e].how = "delta" -> Plus(old[e], desc[e].v)
                       [] OTHER -> old[e]]

\* Fields the server never varies keep their default.
Field(f, i) == IF i \in DOMAIN f THEN f[i] ELSE 0

\* The cell MemBlt draws from: the waiting-list slot of its cache when the index
\* says so (MemBlt::draw, BitmapCache::get).
CellOf(t, f) ==
    IF t # "MemBlt" THEN <<>>
    ELSE <<IF Field(f, 9) = WaitingList THEN "waiting" ELSE "bitmap",
           Field(f, 1), Field(f, 9)>>

Fetch(t, f, c) == IF CellOf(t, f) \in Cells THEN c[CellOf(t, f)] ELSE None

Drawing(t, f, clip, b, c) ==
    [type |-> t, fields |-> f, clip |-> IF clip THEN <<b>> ELSE <<>>, tile |-> Fetch(t, f, c)]

-----------------------------------------------------------------------------
(* The server. *)

Keep == [e \in Edges |-> [how |-> "keep", v |-> 0]]

Init ==
    /\ sType = None /\ type = None
    /\ sFields = [t \in Types |-> [i \in Touched[t] |-> 0]] /\ fields = sFields
    /\ sBounds = [e \in Edges |-> 0] /\ bounds = sBounds
    /\ sCells = [c \in Cells |-> None] /\ cells = sCells
    /\ sent = 0 /\ wire = <<>> /\ meant = None /\ drawn = None
    /\ mode = "parse" /\ lost = {}

Send(e) ==
    /\ wire = <<>> /\ sent < MaxOrders
    /\ sent' = sent + 1
    /\ wire' = <<e>>
    /\ UNCHANGED <<memory, mode, drawn, lost>>

\* A primary order that draws f with clip bounds b.  A full one says everything
\* afresh; otherwise only what changed is said, coordinates as deltas if delta.
\* cut: the update's bytes end after that many fields (the bulk decompressor
\* stops early on a bad token).
SendPrimary(t, f, clip, b, style, cut, last) ==
    LET full == style = "full"
        delta == style = "delta"
        flags == IF full THEN Touched[t] ELSE {i \in Touched[t] : f[i] # sFields[t][i]}
        say(old, new) == IF delta THEN new - old ELSE new
        desc == [e \in Edges |->
                    IF full THEN [how |-> "abs", v |-> b[e]]
                    ELSE IF b[e] = sBounds[e] THEN Keep[e]
                    ELSE [how |-> IF delta THEN "delta" ELSE "abs", v |-> say(sBounds[e], b[e])]]
    IN  /\ cut => last /\ flags # {}
        /\ Send([kind |-> "primary", typed |-> full \/ t # sType, of |-> t,
                 zero |-> ZeroBits(FieldBytes[t] - BytesFor(flags)),
                 flags |-> flags, delta |-> delta,
                 clip |-> clip, reads |-> clip /\ (full \/ desc # Keep), bounds |-> desc,
                 vals |-> [i \in flags |-> IF Layout[t][i] = "coord"
                                           THEN say(sFields[t][i], f[i]) ELSE f[i]],
                 avail |-> IF cut THEN Cardinality(flags) - 1 ELSE Cardinality(flags),
                 last |-> last])
        /\ sType' = t
        /\ sFields' = [sFields EXCEPT ![t] = f]
        /\ sBounds' = b
        /\ meant' = Drawing(t, f, clip, b, sCells)
        /\ UNCHANGED sCells

\* A primary order of a type the decoder does not draw, clipped to b.
SendUnsupported(t, b, last) ==
    /\ t # sType
    /\ Send([kind |-> "unsupported", of |-> t, last |-> last,
             reads |-> b # sBounds,
             bounds |-> [e \in Edges |-> IF b[e] = sBounds[e] THEN Keep[e]
                                         ELSE [how |-> "abs", v |-> b[e]]]])
    /\ sType' = t /\ sBounds' = b /\ meant' = None
    /\ UNCHANGED <<sFields, sCells>>

\* The secondary orders that can fill a cell.
Vias(c) ==
    CASE c[1] = "bitmap" -> {"rev1", "rev2", "rev3"} [] c[1] = "waiting" -> {"rev2"}
      [] OTHER -> {c[1]}

\* A secondary order fills cell c.  bad: the decoder cannot make anything of the
\* payload (unknown depth, dimensions, length, compression).
SendSecondary(c, via, v, bad, last) ==
    /\ Send([kind |-> "secondary", via |-> via, cell |-> c, id |-> c[2], index |-> c[3],
             v |-> v, bad |-> bad, last |-> last])
    /\ sCells' = [sCells EXCEPT ![c] = v] /\ meant' = None
    /\ UNCHANGED <<sType, sFields, sBounds>>

\* An alternate secondary order: frame marker and switch surface have a known
\* size, the others none.
SendAltsec(known, last) ==
    /\ Send([kind |-> "altsec", known |-> known, last |-> last])
    /\ meant' = None
    /\ UNCHANGED <<sType, sFields, sBounds, sCells>>

-----------------------------------------------------------------------------
(* OrderProcessor::process_orders, one turn of its loop per action. *)

\* The order at hand.
Order == Head(wire)
\* The next update starts at a known place whatever became of this one.
GoOn(m) == mode' = IF Order.last THEN "parse" ELSE m
Taken == wire' = <<>>

\* The bounds edges order e describes in one of these ways.
EdgesSaid(e, hows) ==
    IF ~e.reads THEN {}
    ELSE {<<"edge", d>> : d \in {x \in Edges : e.bounds[x].how \in hows}}

\* What order e tells the client.
Told(e) ==
    CASE e.kind = "primary" ->
            (IF e.typed THEN {TypeKey} ELSE {}) \cup EdgesSaid(e, {"abs", "delta"})
                \cup {<<"field", e.of, i>> : i \in e.flags}
      [] e.kind = "unsupported" -> {TypeKey} \cup EdgesSaid(e, {"abs"})
      [] e.kind = "secondary" -> {e.cell}
      [] OTHER -> {}

HandleAltsec ==
    /\ wire # <<>> /\ mode = "parse" /\ Order.kind = "altsec"
    /\ GoOn(IF Order.known THEN "parse" ELSE "drop")
    /\ Taken /\ drawn' = None
    /\ UNCHANGED <<server, memory, lost>>

Put(kind, e) == [cells EXCEPT ![<<kind, e.id, e.index>>] = e.v]

\* Mutant: a bitmap for the waiting list goes into the cache proper.
CacheBitmapRev2Clobber(e) ==
    IF e.index = WaitingList
    THEN [c \in Cells |-> IF c[2] = e.id /\ c[1] \in {"bitmap", "waiting"} THEN e.v ELSE cells[c]]
    ELSE Put("bitmap", e)

\* Revision 1 bitmaps know no waiting list.
CacheBitmapRev1(e) == IF e.index = WaitingList THEN cells ELSE Put("bitmap", e)

\* Revision 2: a bitmap for one-time use goes into the slot kept for it.
CacheBitmapRev2(e) == IF e.index = WaitingList THEN Put("waiting", e) ELSE Put("bitmap", e)

CacheGlyph(e) == Put("glyph", e)
CacheColorTable(e) == Put("palette", e)

\* secondary::apply; revision 3 bitmaps and brushes are skipped.
Apply(e) ==
    IF e.bad \/ e.via = "rev3" THEN cells
    ELSE CASE e.via = "rev1" -> CacheBitmapRev1(e)
           [] e.via = "rev2" -> CacheBitmapRev2(e)
           [] e.via = "glyph" -> CacheGlyph(e)
           [] e.via = "palette" -> CacheColorTable(e)

\* secondary(): the order's length keeps the stream in step, so a payload that
\* cannot be decoded costs nothing but its cell.
HandleSecondary ==
    /\ wire # <<>> /\ mode = "parse" /\ Order.kind = "secondary"
    /\ cells' = Apply(Order)
    /\ lost' = IF Order.bad \/ Order.via = "rev3" THEN lost \cup {Order.cell}
               ELSE lost \ {Order.cell}
    /\ GoOn("parse")
    /\ Taken /\ drawn' = None
    /\ UNCHANGED <<server, type, fields, bounds>>

\* TS_BOUNDS without TS_ZERO_BOUNDS_DELTAS reads the bounds; they stay for the
\* orders that only refer to them.
BoundsAfter(e) == IF e.reads THEN ReadBounds(bounds, e.bounds) ELSE bounds

\* primary() up to the point where the order type turns out not to be drawable:
\* at once if it is unknown, after the bounds if it is one of the sized ones.
\* The type stays, the rest of the update is given up.
HandleUnsupported ==
    /\ wire # <<>> /\ mode = "parse" /\ Order.kind = "unsupported"
    /\ type' = Order.of
    /\ IF Order.of \in DOMAIN FieldBytes
       THEN /\ bounds' = BoundsAfter(Order)
            /\ lost' = lost \ Told(Order)
       ELSE /\ lost' = (lost \cup Told(Order)) \ {TypeKey}
            /\ UNCHANGED bounds
    /\ GoOn("drop")
    /\ Taken /\ drawn' = None
    /\ UNCHANGED <<server, fields, cells>>

\* No order type yet, or one that is not drawable.  With one of the sized types
\* bounds are read before it shows, and not from where they are.
HandleNoType ==
    LET noisy == type \in DOMAIN FieldBytes /\ Order.reads
    IN  /\ wire # <<>> /\ mode = "parse" /\ Order.kind = "primary"
        /\ ~Order.typed /\ type \in {None} \cup Unsupported
        /\ bounds' = IF noisy THEN [e \in Edges |-> None] ELSE bounds
        /\ lost' = lost \cup Told(Order) \cup (IF noisy THEN EdgeKeys ELSE {})
        /\ GoOn("drop")
        /\ Taken /\ drawn' = None
        /\ UNCHANGED <<server, type, fields, cells>>

\* The bytes after the header are taken for something else: the client's type is
\* not the order's, or the flag bytes are not as many as the server sent.
Misread(e) ==
    \/ ~e.typed /\ type # e.of
    \/ ReadBytes(e.zero, FieldBytes[e.of]) # BytesFor(e.flags)

Everything == {TypeKey} \cup EdgeKeys \cup Positions \cup Cells

\* What follows in the update is noise to the decoder: it may overwrite anything.
HandleGarbled ==
    /\ wire # <<>>
    /\ \/ mode = "garbled"
       \/ mode = "parse" /\ Order.kind = "primary" /\ Misread(Order)
          /\ (Order.typed \/ type \notin {None} \cup Unsupported)
    /\ type' \in {type} \cup Types
    /\ fields' = [t \in Types |-> [i \in Touched[t] |-> None]]
    /\ bounds' = [e \in Edges |-> None]
    /\ cells' = [c \in Cells |-> None]
    /\ lost' = Everything
    /\ drawn' = None
    /\ GoOn("garbled")
    /\ Taken
    /\ UNCHANGED server

\* The fields that arrive before the bytes run out, and those of them that are
\* kept: the seven bytes of a brush pattern are read past (c.skip).
Got(e) == {i \in e.flags : Cardinality({j \in e.flags : j <= i}) <= e.avail}
Kept(e) == {i \in Got(e) : Layout[e.of][i] # "skip"}

\* What order e says without reference to what the client holds.
Fresh(e) ==
    (IF e.typed THEN {TypeKey} ELSE {})
        \cup EdgesSaid(e, {"abs"})
        \cup {<<"field", e.of, i>> : i \in {j \in Kept(e) : ~e.delta \/ Layout[e.of][j] # "coord"}}

\* primary(): the type if it changed, the field flags, the bounds, the fields;
\* then it is drawn, unless the bytes ran out on the way.
HandlePrimary ==
    LET e == Order
    IN  /\ wire # <<>> /\ mode = "parse" /\ e.kind = "primary" /\ ~Misread(e)
        /\ type' = e.of
        /\ bounds' = BoundsAfter(e)
        /\ fields' = [fields EXCEPT
                        ![e.of] = Decoded(e.of, @, e.flags, e.delta, e.vals, e.avail)]
        /\ drawn' = IF Got(e) = e.flags
                    THEN Drawing(e.of, fields'[e.of], e.clip, bounds', cells) ELSE None
        /\ lost' = (lost \ Fresh(e)) \cup {<<"field", e.of, i>> : i \in e.flags \ Kept(e)}
        /\ GoOn("parse")
        /\ Taken
        /\ UNCHANGED <<server, cells>>

\* The rest of an update that was given up.
HandleDropped ==
    /\ wire # <<>> /\ mode = "drop"
    /\ lost' = lost \cup Told(Order)
    /\ GoOn("drop")
    /\ Taken /\ drawn' = None
    /\ UNCHANGED <<server, memory>>

\* The server has nothing more to say.
Quiet == wire = <<>> /\ sent = MaxOrders /\ UNCHANGED vars

Next ==
    \/ \E last \in BOOLEAN :
          \/ \E t \in Types : \E f \in [Touched[t] -> Values], cut \in BOOLEAN,
                             style \in {"full", "absolute", "delta"} :
                \/ SendPrimary(t, f, FALSE, sBounds, style, cut, last)
                \/ \E b \in [Edges -> Values] : SendPrimary(t, f, TRUE, b, style, cut, last)
          \/ \E t \in Unsupported, b \in [Edges -> Values] : SendUnsupported(t, b, last)
          \/ \E c \in Cells, v \in Contents, bad \in BOOLEAN :
                \E via \in Vias(c) : SendSecondary(c, via, v, bad, last)
          \/ \E known \in BOOLEAN : SendAltsec(known, last)
    \/ HandleAltsec \/ HandleSecondary \/ HandleUnsupported \/ HandleNoType
    \/ HandleGarbled \/ HandlePrimary \/ HandleDropped
    \/ Quiet

Spec == Init /\ [][Next]_vars

-----------------------------------------------------------------------------
(* Properties *)

TypeOK ==
    /\ sType \in {None} \cup Types \cup Unsupported
    /\ type \in {None} \cup Types \cup Unsupported
    /\ DOMAIN sFields = Types /\ DOMAIN fields = Types
    /\ \A t \in Types : sFields[t] \in [Touched[t] -> Int]
    /\ \A t \in Types : fields[t] \in [Touched[t] -> Int \cup {None}]
    /\ sBounds \in [Edges -> Int] /\ bounds \in [Edges -> Int \cup {None}]
    /\ sCells \in [Cells -> Contents \cup {None}] /\ cells \in [Cells -> Contents \cup {None}]
    /\ mode \in {"parse", "drop", "garbled"}
    /\ lost \subseteq Everything
    /\ wire = <<>> \/ wire = <<Order>>

\* Client and server agree on everything but the keys in K: the order type, the
\* fields of every type, the bounds, the cache cells.
AgreeBut(K) ==
    /\ TypeKey \notin K => type = sType
    /\ \A t \in Types : \A i \in Touched[t] :
          <<"field", t, i>> \notin K => fields[t][i] = sFields[t][i]
    /\ \A d \in Edges : <<"edge", d>> \notin K => bounds[d] = sBounds[d]
    /\ \A c \in Cells : c \notin K => cells[c] = sCells[c]

\* Damage stays where it was done.  Between two orders, everything the client
\* has not missed (or has been told afresh since) is what the server encodes
\* against: the order type, every field of every type, every bounds edge and
\* every cache cell, whatever was dropped, cut or misread before.
InSync == wire = <<>> => AgreeBut(lost)

\* What the fields and bounds of order e come to on the client: the server's new
\* values where they are absolute, and where they are deltas if what they are
\* added to was not lost.
FieldsSaySo(e) ==
    \A i \in e.flags :
        IF e.delta /\ Layout[e.of][i] = "coord"
        THEN <<"field", e.of, i>> \notin lost => Plus(fields[e.of][i], e.vals[i]) = sFields[e.of][i]
        ELSE e.vals[i] = sFields[e.of][i]
BoundsSaySo(e) ==
    e.reads => \A d \in Edges :
        CASE e.bounds[d].how = "abs" -> e.bounds[d].v = sBounds[d]
          [] e.bounds[d].how = "delta" ->
                <<"edge", d>> \notin lost => Plus(bounds[d], e.bounds[d].v) = sBounds[d]
          [] OTHER -> TRUE

\* An order in flight is one the server encodes, for what it is about to draw.
Described == [Edges -> [how : {"keep", "abs", "delta"}, v : Int]]
OrderOK(e) ==
    \/ /\ e.kind = "primary" /\ e.of \in Types /\ e.of = sType
       /\ e.flags \subseteq Touched[e.of] /\ e.vals \in [e.flags -> Int]
       /\ e.bounds \in Described /\ {e.delta, e.clip, e.reads, e.typed} \subseteq BOOLEAN
       /\ e.zero = ZeroBits(FieldBytes[e.of] - BytesFor(e.flags))
       /\ FieldsSaySo(e) /\ BoundsSaySo(e)
       /\ meant = Drawing(e.of, sFields[e.of], e.clip, sBounds, sCells)
    \/ /\ e.kind = "unsupported" /\ e.of \in Unsupported /\ e.of = sType
       /\ e.bounds \in Described /\ e.reads \in BOOLEAN /\ BoundsSaySo(e)
       /\ \A d \in Edges : e.bounds[d].how # "delta"
    \/ /\ e.kind = "secondary" /\ e.cell \in Cells /\ e.via \in Vias(e.cell)
       /\ e.id = e.cell[2] /\ e.index = e.cell[3]
       /\ e.v = sCells[e.cell] /\ e.v \in Contents
    \/ e.kind = "altsec"

\* With an order in flight they agree on what it does not tell, and applied to
\* what the client has not lost it will tell the rest.
InFlightInSync == wire # <<>> => OrderOK(Order) /\ AgreeBut(lost \cup Told(Order))

\* What a drawn order depends on.
Inputs(m) ==
    {<<"field", m.type, i>> : i \in Touched[m.type]}
        \cup (IF m.clip = <<>> THEN {} ELSE EdgeKeys) \cup {CellOf(m.type, m.fields)}

\* An order drawn with nothing missing among its inputs draws what the server
\* meant: same fields, same clip, same tile.
DrawsAsMeant ==
    wire = <<>> /\ drawn # None =>
        (Inputs(drawn) \cap lost = {} => drawn = meant)

\* Noise comes from one thing only: as long as no change of the order type was
\* missed, every order is read for what it is, down to the number of its flag
\* bytes.
NoiseOnlyAfterLoss ==
    [][HandleGarbled => mode = "garbled" \/ TypeKey \in lost]_vars

\* The inductive invariant.
IInv == TypeOK /\ InSync /\ InFlightInSync /\ DrawsAsMeant

=============================================================================
