------------------------ MODULE OrderRendererProofs -------------------------
(***************************************************************************)
(* Proofs about the two halves of sccm-rc-orders: OrderDecoder, for every   *)
(* choice of order types, fields, values, caches and bounds edges, and any  *)
(* number of orders; OrderCanvas, for every canvas, rectangle, clip, bitmap *)
(* and glyph, and any number of orders of an update.                        *)
(***************************************************************************)
EXTENDS OrderDecoder, OrderCanvas, FiniteSetTheorems, WellFoundedInduction, TLAPS

-----------------------------------------------------------------------------
(* Field flags *)

\* A nonempty set of naturals has a least element.
LEMMA LeastNat ==
  ASSUME NEW T, T \subseteq Nat, T # {}
  PROVE  \E x \in T : \A y \in T : x <= y
<1>1. \E x \in T : \A y \in T : ~ (<<y, x>> \in OpToRel(<, Nat))
  BY NatLessThanWellFounded, WFMin, Zenon DEF OpToRel
<1>2. PICK x \in T : \A y \in T : ~ (<<y, x>> \in OpToRel(<, Nat))
  BY <1>1, Zenon
<1>3. \A y \in T : ~(y < x)
  BY <1>2 DEF OpToRel
<1> QED
  BY <1>3

\* The last set flag is one of the flags.
LEMMA MaxIsMember ==
  ASSUME NEW n \in Nat, NEW S, S \subseteq 1..n, S # {}
  PROVE  Max(S) \in S
<1> DEFINE T == {n - x : x \in S}
<1>1. T \subseteq Nat /\ T # {}
  OBVIOUS
<1>2. PICK m \in T : \A y \in T : m <= y
  BY <1>1, LeastNat, Zenon
<1>3. PICK x \in S : m = n - x
  BY <1>2
<1>4. ASSUME NEW y \in S PROVE x >= y
  <2>1. n - y \in T
    OBVIOUS
  <2>2. m <= n - y
    BY <1>2, <2>1
  <2>3. x \in Int /\ y \in Int
    OBVIOUS
  <2> QED
    BY <1>3, <2>2, <2>3
<1>5. \E z \in S : \A y \in S : z >= y
  BY <1>4
<1> QED
  BY <1>5 DEF Max

\* Every order type has as many flag bytes as its fields need.
LEMMA LayoutFits ==
  ASSUME NEW t \in Types
  PROVE  /\ FieldBytes[t] \in 1..3
         /\ DOMAIN Layout[t] \subseteq 1..(8 * FieldBytes[t])
<1>1. t \in DOMAIN Layout
  BY TouchedAssumption
<1>2. t \in {"DstBlt", "OpaqueRect", "ScrBlt", "MemBlt", "PatBlt", "LineTo", "GlyphIndex",
             "FastIndex", "FastGlyph"}
  BY <1>1 DEF Layout
<1>3. CASE t = "DstBlt"
  BY <1>3 DEF Layout, FieldBytes, DstBlt, Rectangle
<1>4. CASE t = "OpaqueRect"
  BY <1>4 DEF Layout, FieldBytes, OpaqueRect, Rectangle
<1>5. CASE t = "ScrBlt"
  BY <1>5 DEF Layout, FieldBytes, ScrBlt, Rectangle
<1>6. CASE t = "MemBlt"
  BY <1>6 DEF Layout, FieldBytes, MemBlt, Rectangle
<1>7. CASE t = "PatBlt"
  BY <1>7 DEF Layout, FieldBytes, PatBlt, Rectangle
<1>8. CASE t = "LineTo"
  BY <1>8 DEF Layout, FieldBytes, LineTo, Rectangle
<1>9. CASE t = "GlyphIndex"
  BY <1>9 DEF Layout, FieldBytes, GlyphIndex, Rectangle
<1>10. CASE t = "FastIndex"
  BY <1>10 DEF Layout, FieldBytes, FastIndex, Rectangle
<1>11. CASE t = "FastGlyph"
  BY <1>11 DEF Layout, FieldBytes, FastGlyph, FastIndex, Rectangle
<1> QED
  BY <1>2, <1>3, <1>4, <1>5, <1>6, <1>7, <1>8, <1>9, <1>10, <1>11

\* The flag bytes of an order are as many as the control byte says.
LEMMA FlagBytesRead ==
  ASSUME NEW t \in Types, NEW flags, flags \subseteq Touched[t]
  PROVE  ReadBytes(ZeroBits(FieldBytes[t] - BytesFor(flags)), FieldBytes[t]) = BytesFor(flags)
<1> DEFINE fb == FieldBytes[t]
<1>1. fb \in 1..3 /\ flags \subseteq 1..(8 * fb)
  BY LayoutFits, TouchedAssumption
<1>2. BytesFor(flags) \in 0..fb
  <2>1. CASE flags = {}
    BY <1>1, <2>1 DEF BytesFor
  <2>2. CASE flags # {}
    <3> HIDE DEF fb
    <3>1. 8 * fb \in Nat
      BY <1>1
    <3>2. Max(flags) \in flags
      BY <1>1, <2>2, <3>1, MaxIsMember
    <3>3. Max(flags) \in 1..(8 * fb)
      BY <1>1, <3>2
    <3>4. (Max(flags) - 1) \div 8 \in 0..(fb - 1)
      BY <1>1, <3>3
    <3> QED
      BY <1>1, <2>2, <3>4 DEF BytesFor
  <2> QED
    BY <2>1, <2>2
<1> HIDE DEF fb
<1>3. ASSUME NEW n \in 0..3, n <= fb PROVE ReadBytes(ZeroBits(fb - n), fb) = n
  <2>1. fb \in {1, 2, 3} /\ n \in {0, 1, 2, 3}
    BY <1>1
  <2> QED
    BY <1>3, <2>1 DEF ReadBytes, ZeroBits
<1> QED
  BY <1>1, <1>2, <1>3 DEF fb

-----------------------------------------------------------------------------
(* Keys *)

\* No key is two things.
LEMMA KeysApart ==
  /\ \A t, i : <<"field", t, i>> # TypeKey /\ <<"field", t, i>> \notin Cells
  /\ \A d : <<"edge", d>> # TypeKey /\ <<"edge", d>> \notin Cells
  /\ \A d, t, i : <<"edge", d>> # <<"field", t, i>>
  /\ TypeKey \notin Cells
<1>1. \A c \in Cells : c[1] \notin {"field", "edge", "type"}
  BY FieldsAssumption DEF Cells
<1>2. \A c \in Cells : c # TypeKey
  BY <1>1 DEF TypeKey
<1>3. \A d : <<"edge", d>>[1] = "edge"
  OBVIOUS
<1>4. \A t, i : <<"field", t, i>>[1] = "field"
  OBVIOUS
<1>5. TypeKey[1] = "type"
  BY DEF TypeKey
<1> QED
  BY <1>1, <1>2, <1>3, <1>4, <1>5, Zenon

\* A cell is its kind, cache and index.
LEMMA CellParts ==
  ASSUME NEW c \in Cells
  PROVE  /\ c = <<c[1], c[2], c[3]>>
         /\ c[1] \in {"bitmap", "waiting", "glyph", "palette"}
         /\ c[1] = "waiting" <=> c[3] = WaitingList
<1>1. c \in Kinds \X CacheIds \X Indices /\ (c[1] = "waiting" <=> c[3] = WaitingList)
  BY DEF Cells
<1>2. PICK k \in Kinds, i \in CacheIds, x \in Indices : c = <<k, i, x>>
  BY <1>1
<1>3. c[1] = k /\ c[2] = i /\ c[3] = x
  BY <1>2
<1>4. c[1] \in {"bitmap", "waiting", "glyph", "palette"}
  BY <1>3, FieldsAssumption
<1>5. c = <<c[1], c[2], c[3]>>
  BY <1>2, <1>3, Zenon
<1> QED
  BY <1>1, <1>4, <1>5, Zenon

\* The edges an order describes, as keys.
LEMMA EdgesSaidMeans ==
  ASSUME NEW e, NEW hows
  PROVE  /\ \A d \in Edges : <<"edge", d>> \in EdgesSaid(e, hows) <=>
               e.reads /\ e.bounds[d].how \in hows
         /\ EdgesSaid(e, hows) \subseteq EdgeKeys
         /\ TypeKey \notin EdgesSaid(e, hows)
         /\ \A t, i : <<"field", t, i>> \notin EdgesSaid(e, hows)
         /\ \A c \in Cells : c \notin EdgesSaid(e, hows)
<1> DEFINE E == EdgesSaid(e, hows)
<1>1. \A k \in E : \E d \in Edges : k = <<"edge", d>> /\ e.reads /\ e.bounds[d].how \in hows
  BY DEF EdgesSaid
<1>2. \A d \in Edges : e.reads /\ e.bounds[d].how \in hows => <<"edge", d>> \in E
  BY DEF EdgesSaid
<1>3. \A d1, d2 : <<"edge", d1>> = <<"edge", d2>> => d1 = d2
  OBVIOUS
<1>4. E \subseteq EdgeKeys
  BY <1>1 DEF EdgeKeys
<1> HIDE DEF E
<1>5. \A d \in Edges : <<"edge", d>> \in E => e.reads /\ e.bounds[d].how \in hows
  BY <1>1, <1>3
<1> QED
  BY <1>1, <1>2, <1>4, <1>5, KeysApart DEF E

\* The fields S of one order type, as keys.
LEMMA FieldKeysMean ==
  ASSUME NEW of, NEW S
  PROVE  LET F == {<<"field", of, i>> : i \in S}
         IN  /\ \A t, i : <<"field", t, i>> \in F <=> t = of /\ i \in S
             /\ TypeKey \notin F
             /\ \A d : <<"edge", d>> \notin F
             /\ \A c \in Cells : c \notin F
<1> DEFINE F == {<<"field", of, i>> : i \in S}
<1>1. \A t, i : <<"field", t, i>> \in F <=> t = of /\ i \in S
  OBVIOUS
<1>2. \A k \in F : \E i : k = <<"field", of, i>>
  OBVIOUS
<1> HIDE DEF F
<1> QED
  BY <1>1, <1>2, KeysApart DEF F

\* What a primary order tells, and what of it is absolute, key by key.
LEMMA PrimaryKeys ==
  ASSUME NEW e, e.kind = "primary"
  PROVE  /\ TypeKey \in Told(e) <=> e.typed
         /\ \A t, i : <<"field", t, i>> \in Told(e) <=> t = e.of /\ i \in e.flags
         /\ \A d \in Edges : <<"edge", d>> \in Told(e) <=>
               e.reads /\ e.bounds[d].how \in {"abs", "delta"}
         /\ \A c \in Cells : c \notin Told(e)
         /\ TypeKey \in Fresh(e) <=> e.typed
         /\ \A t, i : <<"field", t, i>> \in Fresh(e) <=>
               t = e.of /\ i \in Kept(e) /\ (~e.delta \/ Layout[e.of][i] # "coord")
         /\ \A d \in Edges : <<"edge", d>> \in Fresh(e) <=>
               e.reads /\ e.bounds[d].how = "abs"
         /\ \A c \in Cells : c \notin Fresh(e)
<1> DEFINE T == IF e.typed THEN {TypeKey} ELSE {}
           S == {j \in Kept(e) : ~e.delta \/ Layout[e.of][j] # "coord"}
<1>1. Told(e) = T \cup EdgesSaid(e, {"abs", "delta"}) \cup {<<"field", e.of, i>> : i \in e.flags}
  BY DEF Told
<1>2. Fresh(e) = T \cup EdgesSaid(e, {"abs"}) \cup {<<"field", e.of, i>> : i \in S}
  BY DEF Fresh
<1>3. \A k : k \in T <=> k = TypeKey /\ e.typed
  OBVIOUS
<1>4. \A i : i \in S <=> i \in Kept(e) /\ (~e.delta \/ Layout[e.of][i] # "coord")
  OBVIOUS
<1> HIDE DEF T, S
<1>5. /\ TypeKey \in Told(e) <=> e.typed
      /\ \A t, i : <<"field", t, i>> \in Told(e) <=> t = e.of /\ i \in e.flags
      /\ \A d \in Edges : <<"edge", d>> \in Told(e) <=>
            e.reads /\ e.bounds[d].how \in {"abs", "delta"}
      /\ \A c \in Cells : c \notin Told(e)
  BY <1>1, <1>3, EdgesSaidMeans, FieldKeysMean, KeysApart
<1>6. /\ TypeKey \in Fresh(e) <=> e.typed
      /\ \A t, i : <<"field", t, i>> \in Fresh(e) <=>
            t = e.of /\ i \in Kept(e) /\ (~e.delta \/ Layout[e.of][i] # "coord")
      /\ \A d \in Edges : <<"edge", d>> \in Fresh(e) <=> e.reads /\ e.bounds[d].how = "abs"
      /\ \A c \in Cells : c \notin Fresh(e)
  BY <1>2, <1>3, <1>4, EdgesSaidMeans, FieldKeysMean, KeysApart
<1> QED
  BY <1>5, <1>6

\* The same for an order of a type that is not drawn.
LEMMA UnsupportedKeys ==
  ASSUME NEW e, e.kind = "unsupported"
  PROVE  /\ TypeKey \in Told(e)
         /\ \A t, i : <<"field", t, i>> \notin Told(e)
         /\ \A d \in Edges : <<"edge", d>> \in Told(e) <=> e.reads /\ e.bounds[d].how = "abs"
         /\ \A c \in Cells : c \notin Told(e)
<1>1. Told(e) = {TypeKey} \cup EdgesSaid(e, {"abs"})
  BY DEF Told
<1> QED
  BY <1>1, EdgesSaidMeans, KeysApart

\* And for a secondary order.
LEMMA SecondaryKeys ==
  ASSUME NEW e, e.kind = "secondary", e.cell \in Cells
  PROVE  /\ TypeKey \notin Told(e)
         /\ \A t, i : <<"field", t, i>> \notin Told(e)
         /\ \A d : <<"edge", d>> \notin Told(e)
         /\ \A c \in Cells : c \in Told(e) <=> c = e.cell
<1>1. Told(e) = {e.cell}
  BY DEF Told
<1> QED
  BY <1>1, KeysApart

\* Nothing else can be told.
LEMMA ToldIsKnown ==
  ASSUME NEW e, OrderOK(e)
  PROVE  Told(e) \subseteq Everything
<1>1. CASE e.kind = "primary"
  <2>1. Told(e) = (IF e.typed THEN {TypeKey} ELSE {}) \cup EdgesSaid(e, {"abs", "delta"})
                      \cup {<<"field", e.of, i>> : i \in e.flags}
    BY <1>1 DEF Told
  <2>2. {<<"field", e.of, i>> : i \in e.flags} \subseteq Positions
    BY <1>1 DEF OrderOK, Positions
  <2> QED
    BY <2>1, <2>2, EdgesSaidMeans DEF Everything
<1>2. CASE e.kind = "unsupported"
  <2>1. Told(e) = {TypeKey} \cup EdgesSaid(e, {"abs"})
    BY <1>2 DEF Told
  <2> QED
    BY <2>1, EdgesSaidMeans DEF Everything
<1>3. CASE e.kind = "secondary"
  BY <1>3 DEF OrderOK, Told, Everything
<1>4. CASE e.kind = "altsec"
  BY <1>4 DEF Told
<1> QED
  BY <1>1, <1>2, <1>3, <1>4 DEF OrderOK

-----------------------------------------------------------------------------
(* The server's steps *)

\* A fresh processor agrees with the server on everything.
LEMMA InitHolds == Init => IInv
<1> SUFFICES ASSUME Init PROVE IInv
  OBVIOUS
<1>1. TypeOK
  BY DEF Init, TypeOK, Everything
<1>2. AgreeBut(lost)
  BY DEF Init, AgreeBut
<1> QED
  BY <1>1, <1>2 DEF Init, IInv, InSync, InFlightInSync, DrawsAsMeant

\* A primary order tells exactly what the server's copy differs in.
LEMMA SendPrimaryKeeps ==
  ASSUME IInv, NEW t \in Types, NEW f \in [Touched[t] -> Values], NEW clip \in BOOLEAN,
         NEW b \in [Edges -> Int], ~clip => b = sBounds,
         NEW style \in {"full", "absolute", "delta"}, NEW cut, NEW last,
         SendPrimary(t, f, clip, b, style, cut, last)
  PROVE  IInv'
<1> DEFINE full == style = "full"
           delta == style = "delta"
           flags == IF full THEN Touched[t] ELSE {i \in Touched[t] : f[i] # sFields[t][i]}
           say(old, new) == IF delta THEN new - old ELSE new
           desc == [d \in Edges |->
                      IF full THEN [how |-> "abs", v |-> b[d]]
                      ELSE IF b[d] = sBounds[d] THEN Keep[d]
                      ELSE [how |-> IF delta THEN "delta" ELSE "abs", v |-> say(sBounds[d], b[d])]]
           order == [kind |-> "primary", typed |-> full \/ t # sType, of |-> t,
                 zero |-> ZeroBits(FieldBytes[t] - BytesFor(flags)),
                 flags |-> flags, delta |-> delta,
                 clip |-> clip, reads |-> clip /\ (full \/ desc # Keep), bounds |-> desc,
                 vals |-> [i \in flags |-> IF Layout[t][i] = "coord"
                                           THEN say(sFields[t][i], f[i]) ELSE f[i]],
                 avail |-> IF cut THEN Cardinality(flags) - 1 ELSE Cardinality(flags),
                 last |-> last]
<1>1. /\ wire = <<>> /\ wire' = <<order>>
      /\ sType' = t /\ sFields' = [sFields EXCEPT ![t] = f] /\ sBounds' = b
      /\ meant' = Drawing(t, f, clip, b, sCells) /\ sCells' = sCells
      /\ UNCHANGED <<type, fields, bounds, cells, mode, drawn, lost>>
  BY DEF SendPrimary, Send, memory
<1>2. PICK e : e = order
  OBVIOUS
<1>3. /\ e.kind = "primary" /\ e.of = t /\ e.flags = flags /\ e.delta = delta
      /\ e.typed = (full \/ t # sType) /\ e.clip = clip /\ e.bounds = desc
      /\ e.zero = ZeroBits(FieldBytes[t] - BytesFor(flags))
      /\ e.reads = (clip /\ (full \/ desc # Keep))
      /\ e.vals = [i \in flags |-> IF Layout[t][i] = "coord"
                                   THEN say(sFields[t][i], f[i]) ELSE f[i]]
  BY <1>2
<1>4. wire' = <<e>> /\ Order' = e
  BY <1>1, <1>2 DEF Order
<1> HIDE DEF order
<1>5. TypeOK /\ AgreeBut(lost) /\ f \in [Touched[t] -> Int]
  BY <1>1, FieldsAssumption DEF IInv, InSync
<1>6. TypeOK'
  BY <1>1, <1>4, <1>5 DEF TypeOK
<1>7. desc \in Described
  BY <1>5 DEF Described, Keep, TypeOK
<1>8. \A d \in Edges : b[d] # sBounds[d] => e.reads /\ e.bounds[d].how \in {"abs", "delta"}
  <2> SUFFICES ASSUME NEW d \in Edges, b[d] # sBounds[d]
               PROVE  e.reads /\ e.bounds[d].how \in {"abs", "delta"}
    OBVIOUS
  <2>1. clip
    OBVIOUS
  <2>2. desc[d].how \in {"abs", "delta"} /\ Keep[d].how = "keep"
    BY DEF Keep
  <2> QED
    BY <1>3, <2>1, <2>2
<1>9. \A i \in Touched[t] : i \notin flags => f[i] = sFields[t][i]
  OBVIOUS
<1>10. AgreeBut(lost \cup Told(e))'
  <2> DEFINE K == lost \cup Told(e)
  <2>1. K' = K /\ lost \subseteq K
    BY <1>1
  <2>2. TypeKey \notin K => type' = sType'
    BY <1>1, <1>3, <1>5, PrimaryKeys DEF AgreeBut
  <2>3. ASSUME NEW u \in Types, NEW i \in Touched[u], <<"field", u, i>> \notin K
        PROVE  fields'[u][i] = sFields'[u][i]
    <3>1. fields[u][i] = sFields[u][i]
      BY <1>5, <2>3 DEF AgreeBut
    <3>2. CASE u = t
      <4>1. i \notin flags
        BY <1>3, <2>3, <3>2, PrimaryKeys
      <4>2. sFields'[t] = f
        BY <1>1, <1>5 DEF TypeOK
      <4> QED
        BY <1>1, <1>9, <3>1, <3>2, <4>1, <4>2
    <3>3. CASE u # t
      BY <1>1, <1>5, <3>1, <3>3 DEF TypeOK
    <3> QED
      BY <3>2, <3>3
  <2>4. ASSUME NEW d \in Edges, <<"edge", d>> \notin K PROVE bounds'[d] = sBounds'[d]
    <3>1. bounds[d] = sBounds[d]
      BY <1>5, <2>4 DEF AgreeBut
    <3>2. b[d] = sBounds[d]
      <4>1. ~(e.reads /\ e.bounds[d].how \in {"abs", "delta"})
        BY <1>3, <2>4, PrimaryKeys
      <4> QED
        BY <1>8, <4>1
    <3>3. bounds' = bounds /\ sBounds' = b
      BY <1>1
    <3> QED
      BY <3>1, <3>2, <3>3
  <2>5. \A c \in Cells : c \notin K => cells'[c] = sCells'[c]
    BY <1>1, <1>5 DEF AgreeBut
  <2> QED
    BY <2>1, <2>2, <2>3, <2>4, <2>5 DEF AgreeBut
<1>11. FieldsSaySo(e)'
  <2> SUFFICES ASSUME NEW i \in e.flags
               PROVE  IF e.delta /\ Layout[e.of][i] = "coord"
                      THEN <<"field", e.of, i>> \notin lost'
                              => Plus(fields'[e.of][i], e.vals[i]) = sFields'[e.of][i]
                      ELSE e.vals[i] = sFields'[e.of][i]
    BY DEF FieldsSaySo
  <2>1. i \in Touched[t] /\ i \in flags
    BY <1>3
  <2>2. sFields'[t] = f /\ f[i] \in Int /\ sFields[t][i] \in Int
    BY <1>1, <1>5, <2>1 DEF TypeOK
  <2>3. e.vals[i] = IF Layout[t][i] = "coord" /\ delta THEN f[i] - sFields[t][i] ELSE f[i]
    BY <1>3, <2>1
  <2>4. <<"field", t, i>> \notin lost => fields[t][i] = sFields[t][i]
    BY <1>5, <2>1 DEF AgreeBut
  <2>5. e.of = t /\ (e.delta <=> delta) /\ lost' = lost /\ fields' = fields
    BY <1>1, <1>3
  <2> HIDE DEF delta
  <2>6. CASE delta /\ Layout[t][i] = "coord"
    BY <2>2, <2>3, <2>4, <2>5, <2>6, NoneAssumption DEF Plus
  <2>7. CASE ~(delta /\ Layout[t][i] = "coord")
    BY <2>2, <2>3, <2>5, <2>7
  <2> QED
    BY <2>6, <2>7
<1>12. BoundsSaySo(e)'
  <2> SUFFICES ASSUME NEW d \in Edges
               PROVE  /\ e.bounds[d].how = "abs" => e.bounds[d].v = b[d]
                      /\ e.bounds[d].how = "delta" /\ <<"edge", d>> \notin lost
                            => Plus(bounds[d], e.bounds[d].v) = b[d]
    BY <1>1 DEF BoundsSaySo
  <2>1. e.bounds[d] = IF full THEN [how |-> "abs", v |-> b[d]]
                      ELSE IF b[d] = sBounds[d] THEN [how |-> "keep", v |-> 0]
                      ELSE [how |-> IF delta THEN "delta" ELSE "abs", v |-> say(sBounds[d], b[d])]
    BY <1>3 DEF Keep
  <2>2. b[d] \in Int /\ sBounds[d] \in Int
    BY <1>5 DEF TypeOK
  <2>3. <<"edge", d>> \notin lost => bounds[d] = sBounds[d]
    BY <1>5 DEF AgreeBut
  <2> QED
    BY <2>1, <2>2, <2>3, NoneAssumption DEF Plus
<1>13. OrderOK(e)'
  <2>1. sFields'[t] = f
    BY <1>1, <1>5 DEF TypeOK
  <2>2. e.flags \subseteq Touched[t]
    BY <1>3
  <2>3. e.vals \in [e.flags -> Int]
    <3>1. \A i \in flags : f[i] \in Int /\ sFields[t][i] \in Int
      BY <1>5 DEF TypeOK
    <3> QED
      BY <1>3, <3>1
  <2>4. {e.delta, e.clip, e.reads, e.typed} \subseteq BOOLEAN
    BY <1>3
  <2>5. meant' = Drawing(e.of, sFields'[e.of], e.clip, sBounds', sCells')
    BY <1>1, <1>3, <2>1
  <2>6. e.zero = ZeroBits(FieldBytes[e.of] - BytesFor(e.flags))
    BY <1>3
  <2> QED
    BY <1>1, <1>3, <1>7, <1>11, <1>12, <2>2, <2>3, <2>4, <2>5, <2>6 DEF OrderOK
<1> QED
  BY <1>4, <1>6, <1>10, <1>13 DEF IInv, InSync, InFlightInSync, DrawsAsMeant

\* So do the others of their part.
LEMMA SendUnsupportedKeeps ==
  ASSUME IInv, NEW t \in Unsupported, NEW b \in [Edges -> Values], NEW last,
         SendUnsupported(t, b, last)
  PROVE  IInv'
<1> DEFINE desc == [d \in Edges |-> IF b[d] = sBounds[d] THEN Keep[d]
                                    ELSE [how |-> "abs", v |-> b[d]]]
           order == [kind |-> "unsupported", of |-> t, last |-> last,
                     reads |-> b # sBounds, bounds |-> desc]
<1>1. /\ wire = <<>> /\ wire' = <<order>> /\ sType' = t /\ sBounds' = b
      /\ UNCHANGED <<sFields, sCells, type, fields, bounds, cells, mode, drawn, lost>>
  BY DEF SendUnsupported, Send, memory
<1>2. PICK e : e = order
  OBVIOUS
<1>3. /\ e.kind = "unsupported" /\ e.of = t /\ e.reads = (b # sBounds) /\ e.bounds = desc
  BY <1>2
<1>4. wire' = <<e>> /\ Order' = e
  BY <1>1, <1>2 DEF Order
<1> HIDE DEF order
<1>5. TypeOK /\ AgreeBut(lost) /\ b \in [Edges -> Int]
  BY <1>1, FieldsAssumption DEF IInv, InSync
<1>6. TypeOK'
  BY <1>1, <1>4, <1>5 DEF TypeOK
<1>7. \A d \in Edges : e.bounds[d] = IF b[d] = sBounds[d] THEN [how |-> "keep", v |-> 0]
                                     ELSE [how |-> "abs", v |-> b[d]]
  BY <1>3 DEF Keep
<1>8. e.bounds \in Described
  BY <1>3, <1>5 DEF Described, Keep
<1>9. OrderOK(e)'
  <2>1. \A d \in Edges : e.bounds[d].how \in {"keep", "abs"}
                         /\ (e.bounds[d].how = "abs" => e.bounds[d].v = b[d])
    <3> SUFFICES ASSUME NEW d \in Edges
                 PROVE  e.bounds[d].how \in {"keep", "abs"}
                        /\ (e.bounds[d].how = "abs" => e.bounds[d].v = b[d])
      OBVIOUS
    <3> HIDE DEF desc
    <3>1. PICK x : x = e.bounds[d]
      OBVIOUS
    <3>2. x = [how |-> "keep", v |-> 0] \/ x = [how |-> "abs", v |-> b[d]]
      BY <1>7, <3>1
    <3>3. x.how \in {"keep", "abs"} /\ (x.how = "abs" => x.v = b[d])
      BY <3>2
    <3> QED
      BY <3>1, <3>3, Zenon
  <2>2. BoundsSaySo(e)'
    BY <1>1, <2>1 DEF BoundsSaySo
  <2>3. e.reads \in BOOLEAN
    BY <1>3
  <2> QED
    BY <1>1, <1>3, <1>8, <2>1, <2>2, <2>3 DEF OrderOK
<1>10. AgreeBut(lost \cup Told(e))'
  <2>1. Told(e)' = Told(e)
    OBVIOUS
  <2>2. ASSUME NEW d \in Edges, <<"edge", d>> \notin lost \cup Told(e)
        PROVE  bounds'[d] = sBounds'[d]
    <3>1. ASSUME b[d] # sBounds[d] PROVE e.reads /\ e.bounds[d].how = "abs"
      <4> HIDE DEF desc
      <4>1. e.bounds[d] = [how |-> "abs", v |-> b[d]]
        BY <1>7, <3>1
      <4>2. e.bounds[d].how = "abs"
        BY <4>1
      <4>3. b # sBounds
        BY <3>1
      <4>4. e.reads
        BY <1>3, <4>3
      <4> QED
        BY <4>2, <4>4
    <3>2. b[d] = sBounds[d]
      BY <1>3, <2>2, <3>1, UnsupportedKeys
    <3> QED
      BY <1>1, <1>5, <2>2, <3>2 DEF AgreeBut
  <2> QED
    BY <1>1, <1>3, <1>5, <2>2, UnsupportedKeys DEF AgreeBut
<1> QED
  BY <1>4, <1>6, <1>9, <1>10 DEF IInv, InSync, InFlightInSync, DrawsAsMeant

LEMMA SendSecondaryKeeps ==
  ASSUME IInv, NEW c \in Cells, NEW via \in Vias(c), NEW v \in Contents, NEW bad \in BOOLEAN,
         NEW last, SendSecondary(c, via, v, bad, last)
  PROVE  IInv'
<1> DEFINE order == [kind |-> "secondary", via |-> via, cell |-> c, id |-> c[2], index |-> c[3],
                     v |-> v, bad |-> bad, last |-> last]
<1>1. /\ wire = <<>> /\ wire' = <<order>> /\ sCells' = [sCells EXCEPT ![c] = v]
      /\ UNCHANGED <<sType, sFields, sBounds, type, fields, bounds, cells, mode, drawn, lost>>
  BY DEF SendSecondary, Send, memory
<1>2. PICK e : e = order
  OBVIOUS
<1>3. /\ e.kind = "secondary" /\ e.via = via /\ e.cell = c /\ e.id = c[2] /\ e.index = c[3]
      /\ e.v = v
  BY <1>2
<1>4. wire' = <<e>> /\ Order' = e
  BY <1>1, <1>2 DEF Order
<1> HIDE DEF order
<1>5. TypeOK /\ AgreeBut(lost)
  BY <1>1 DEF IInv, InSync
<1>6. TypeOK'
  BY <1>1, <1>4, <1>5 DEF TypeOK
<1>7. OrderOK(e)'
  BY <1>1, <1>3, <1>5 DEF OrderOK, TypeOK
<1>8. AgreeBut(lost \cup Told(e))'
  BY <1>1, <1>3, <1>5, SecondaryKeys DEF AgreeBut, TypeOK
<1> QED
  BY <1>4, <1>6, <1>7, <1>8 DEF IInv, InSync, InFlightInSync, DrawsAsMeant

LEMMA SendAltsecKeeps ==
  ASSUME IInv, NEW known \in BOOLEAN, NEW last, SendAltsec(known, last)
  PROVE  IInv'
<1>1. /\ wire = <<>> /\ wire' = <<[kind |-> "altsec", known |-> known, last |-> last]>>
      /\ UNCHANGED <<sType, sFields, sBounds, sCells, type, fields, bounds, cells, mode, drawn, lost>>
  BY DEF SendAltsec, Send, memory
<1>2. wire' = <<Order'>> /\ Order'.kind = "altsec"
  BY <1>1 DEF Order
<1>3. TypeOK /\ AgreeBut(lost)
  BY <1>1 DEF IInv, InSync
<1>4. TypeOK'
  BY <1>1, <1>2, <1>3 DEF TypeOK
<1>5. AgreeBut(lost \cup Told(Order))'
  BY <1>1, <1>3 DEF AgreeBut
<1> QED
  BY <1>1, <1>2, <1>4, <1>5 DEF IInv, InSync, InFlightInSync, DrawsAsMeant, OrderOK

-----------------------------------------------------------------------------
(* The decoder's steps *)

\* An order that arrives is one the server sent.
LEMMA ArrivesInSync ==
  ASSUME IInv, wire # <<>>
  PROVE  OrderOK(Order) /\ AgreeBut(lost \cup Told(Order)) /\ TypeOK
  BY DEF IInv, InFlightInSync

\* After an order that drew nothing agreement and types are all there is to show.
LEMMA NothingDrawn ==
  ASSUME TypeOK', AgreeBut(lost)', wire' = <<>>, drawn' = None
  PROVE  IInv'
  BY DEF IInv, InSync, InFlightInSync, DrawsAsMeant

LEMMA HandleAltsecKeeps ==
  ASSUME IInv, HandleAltsec
  PROVE  IInv'
<1>1. wire # <<>> /\ Order.kind = "altsec" /\ wire' = <<>> /\ drawn' = None
      /\ mode' \in {"parse", "drop"}
      /\ UNCHANGED <<sType, sFields, sBounds, sCells, type, fields, bounds, cells, lost>>
  BY DEF HandleAltsec, GoOn, Taken, server, memory
<1>2. TypeOK /\ AgreeBut(lost \cup Told(Order))
  BY <1>1, ArrivesInSync
<1>3. Told(Order) = {}
  BY <1>1 DEF Told
<1>4. TypeOK'
  BY <1>1, <1>2 DEF TypeOK
<1>5. AgreeBut(lost)'
  BY <1>1, <1>2, <1>3 DEF AgreeBut
<1> QED
  BY <1>1, <1>4, <1>5, NothingDrawn

\* What goes into a cell is what the server put there, and nothing else changes.
LEMMA HandleSecondaryKeeps ==
  ASSUME IInv, HandleSecondary
  PROVE  IInv'
<1>1. /\ wire # <<>> /\ Order.kind = "secondary" /\ wire' = <<>> /\ drawn' = None
      /\ mode' = "parse" /\ cells' = Apply(Order)
      /\ lost' = IF Order.bad \/ Order.via = "rev3" THEN lost \cup {Order.cell}
                 ELSE lost \ {Order.cell}
      /\ UNCHANGED <<sType, sFields, sBounds, sCells, type, fields, bounds>>
  BY DEF HandleSecondary, GoOn, Taken, server
<1>2. PICK e : e = Order
  OBVIOUS
<1>3. TypeOK /\ AgreeBut(lost \cup Told(e)) /\ OrderOK(e)
  BY <1>1, <1>2, ArrivesInSync
<1>4. /\ e.cell \in Cells /\ e.via \in Vias(e.cell) /\ e.id = e.cell[2] /\ e.index = e.cell[3]
      /\ e.v = sCells[e.cell] /\ e.v \in Contents
  BY <1>1, <1>2, <1>3 DEF OrderOK
<1>5. CASE e.bad \/ e.via = "rev3"
  <2>1. cells' = cells /\ lost' = lost \cup {e.cell}
    BY <1>1, <1>2, <1>5 DEF Apply
  <2>2. TypeOK'
    BY <1>1, <1>3, <1>4, <2>1 DEF TypeOK, Everything
  <2>3. AgreeBut(lost)'
    BY <1>1, <1>2, <1>3, <1>4, <2>1, SecondaryKeys DEF AgreeBut
  <2> QED
    BY <1>1, <2>2, <2>3, NothingDrawn
<1>6. CASE ~(e.bad \/ e.via = "rev3")
  <2>1. e.cell = <<e.cell[1], e.cell[2], e.cell[3]>>
        /\ e.cell[1] \in {"bitmap", "waiting", "glyph", "palette"}
        /\ (e.cell[1] = "waiting" <=> e.cell[3] = WaitingList)
    BY <1>4, CellParts
  <2>2. cells' = [cells EXCEPT ![e.cell] = e.v] /\ lost' = lost \ {e.cell}
    BY <1>1, <1>2, <1>4, <1>6, <2>1
    DEF Apply, Vias, CacheBitmapRev1, CacheBitmapRev2, CacheGlyph, CacheColorTable, Put
  <2>3. TypeOK'
    BY <1>1, <1>3, <1>4, <2>2 DEF TypeOK
  <2>4. AgreeBut(lost)'
    BY <1>1, <1>2, <1>3, <1>4, <2>2, SecondaryKeys, KeysApart DEF AgreeBut, TypeOK
  <2> QED
    BY <1>1, <2>3, <2>4, NothingDrawn
<1> QED
  BY <1>5, <1>6

\* What was given up with its update is lost until it is told afresh.
LEMMA HandleDroppedKeeps ==
  ASSUME IInv, HandleDropped
  PROVE  IInv'
<1>1. /\ wire # <<>> /\ wire' = <<>> /\ drawn' = None /\ mode' \in {"parse", "drop"}
      /\ lost' = lost \cup Told(Order)
      /\ UNCHANGED <<sType, sFields, sBounds, sCells, type, fields, bounds, cells>>
  BY DEF HandleDropped, GoOn, Taken, server, memory
<1>2. PICK e : e = Order
  OBVIOUS
<1>3. TypeOK /\ AgreeBut(lost \cup Told(e)) /\ OrderOK(e)
  BY <1>1, <1>2, ArrivesInSync
<1>4. TypeOK'
  BY <1>1, <1>2, <1>3, ToldIsKnown DEF TypeOK
<1>5. AgreeBut(lost)'
  BY <1>1, <1>2, <1>3 DEF AgreeBut
<1> QED
  BY <1>1, <1>4, <1>5, NothingDrawn

\* Noise leaves nothing to agree on.
LEMMA HandleGarbledKeeps ==
  ASSUME IInv, HandleGarbled
  PROVE  IInv'
<1>1. /\ wire # <<>> /\ wire' = <<>> /\ drawn' = None /\ mode' \in {"parse", "garbled"}
      /\ lost' = Everything /\ type' \in {type} \cup Types
      /\ fields' = [t \in Types |-> [i \in Touched[t] |-> None]]
      /\ bounds' = [d \in Edges |-> None] /\ cells' = [c \in Cells |-> None]
      /\ UNCHANGED <<sType, sFields, sBounds, sCells>>
  BY DEF HandleGarbled, GoOn, Taken, server
<1>2. TypeOK
  BY <1>1, ArrivesInSync
<1>3. TypeOK'
  BY <1>1, <1>2 DEF TypeOK
<1>4. AgreeBut(lost)'
  <2>1. \A t \in Types : \A i \in Touched[t] : <<"field", t, i>> \in Everything
    BY DEF Everything, Positions
  <2>2. \A d \in Edges : <<"edge", d>> \in Everything
    BY DEF Everything, EdgeKeys
  <2>3. TypeKey \in Everything /\ Cells \subseteq Everything
    BY DEF Everything
  <2> QED
    BY <1>1, <2>1, <2>2, <2>3 DEF AgreeBut
<1> QED
  BY <1>1, <1>3, <1>4, NothingDrawn

\* What an order makes of the client's bounds.
LEMMA BoundsTaken ==
  ASSUME TypeOK, NEW e, e.bounds \in Described, e.reads \in BOOLEAN, BoundsSaySo(e)
  PROVE  /\ BoundsAfter(e) \in [Edges -> Int \cup {None}]
         /\ \A d \in Edges :
              /\ e.reads /\ e.bounds[d].how = "abs" => BoundsAfter(e)[d] = sBounds[d]
              /\ e.reads /\ e.bounds[d].how = "delta" /\ <<"edge", d>> \notin lost
                    => BoundsAfter(e)[d] = sBounds[d]
              /\ ~(e.reads /\ e.bounds[d].how \in {"abs", "delta"})
                    => BoundsAfter(e)[d] = bounds[d]
<1>1. CASE ~e.reads
  BY <1>1 DEF BoundsAfter, TypeOK
<1>2. CASE e.reads
  <2>1. BoundsAfter(e) = ReadBounds(bounds, e.bounds)
    BY <1>2 DEF BoundsAfter
  <2>2. ASSUME NEW d \in Edges
        PROVE  /\ e.bounds[d].how \in {"keep", "abs", "delta"} /\ e.bounds[d].v \in Int
               /\ bounds[d] \in Int \cup {None}
    BY DEF Described, TypeOK
  <2>3. ASSUME NEW d \in Edges
        PROVE  /\ BoundsAfter(e)[d] = CASE e.bounds[d].how = "abs" -> e.bounds[d].v
                                        [] e.bounds[d].how = "delta" -> Plus(bounds[d], e.bounds[d].v)
                                        [] OTHER -> bounds[d]
               /\ BoundsAfter(e)[d] \in Int \cup {None}
    BY <2>1, <2>2 DEF ReadBounds, Plus
  <2>4. BoundsAfter(e) \in [Edges -> Int \cup {None}]
    <3>1. BoundsAfter(e) = [d \in Edges |-> BoundsAfter(e)[d]]
      BY <2>1 DEF ReadBounds
    <3> QED
      BY <2>3, <3>1
  <2>5. ASSUME NEW d \in Edges
        PROVE  /\ e.bounds[d].how = "abs" => e.bounds[d].v = sBounds[d]
               /\ e.bounds[d].how = "delta" /\ <<"edge", d>> \notin lost
                    => Plus(bounds[d], e.bounds[d].v) = sBounds[d]
    BY <1>2 DEF BoundsSaySo
  <2> QED
    BY <1>2, <2>2, <2>3, <2>4, <2>5
<1> QED
  BY <1>1, <1>2

\* What a primary order makes of the fields of its type.
LEMMA FieldsTaken ==
  ASSUME TypeOK, NEW e, e.of \in Types, e.flags \subseteq Touched[e.of],
         e.vals \in [e.flags -> Int], FieldsSaySo(e)
  PROVE  LET new == Decoded(e.of, fields[e.of], e.flags, e.delta, e.vals, e.avail)
         IN  /\ new \in [Touched[e.of] -> Int \cup {None}]
             /\ \A i \in Touched[e.of] :
                  /\ i \in Kept(e) /\ ~(e.delta /\ Layout[e.of][i] = "coord")
                        => new[i] = sFields[e.of][i]
                  /\ i \in Kept(e) /\ <<"field", e.of, i>> \notin lost
                        => new[i] = sFields[e.of][i]
                  /\ i \notin Kept(e) => new[i] = fields[e.of][i]
<1> DEFINE new == Decoded(e.of, fields[e.of], e.flags, e.delta, e.vals, e.avail)
           old == fields[e.of]
<1>1. old \in [Touched[e.of] -> Int \cup {None}]
  BY DEF TypeOK
<1>2. ASSUME NEW i \in Touched[e.of]
      PROVE  new[i] = IF i \in Kept(e)
                      THEN IF e.delta /\ Layout[e.of][i] = "coord"
                           THEN Plus(old[i], e.vals[i]) ELSE e.vals[i]
                      ELSE old[i]
  BY <1>1 DEF Decoded, Kept, Got
<1>3. Kept(e) \subseteq e.flags
  BY DEF Kept, Got
<1>4. new = [i \in Touched[e.of] |-> new[i]]
  BY <1>1 DEF Decoded
<1>5. ASSUME NEW i \in Kept(e)
      PROVE  /\ ~(e.delta /\ Layout[e.of][i] = "coord") => e.vals[i] = sFields[e.of][i]
             /\ e.delta /\ Layout[e.of][i] = "coord" /\ <<"field", e.of, i>> \notin lost
                  => Plus(old[i], e.vals[i]) = sFields[e.of][i]
             /\ e.vals[i] \in Int
  BY <1>3 DEF FieldsSaySo
<1> HIDE DEF new, old
<1>6. ASSUME NEW i \in Touched[e.of] PROVE new[i] \in Int \cup {None}
  <2>1. old[i] \in Int \cup {None}
    BY <1>1
  <2>2. CASE i \notin Kept(e)
    BY <1>2, <2>1, <2>2
  <2>3. CASE i \in Kept(e)
    <3>1. e.vals[i] \in Int
      BY <1>5, <2>3
    <3>2. Plus(old[i], e.vals[i]) \in Int \cup {None}
      BY <2>1, <3>1 DEF Plus
    <3> QED
      BY <1>2, <2>3, <3>1, <3>2
  <2> QED
    BY <2>2, <2>3
<1>7. new \in [Touched[e.of] -> Int \cup {None}]
  BY <1>4, <1>6
<1>8. \A i \in Touched[e.of] :
         /\ i \in Kept(e) /\ ~(e.delta /\ Layout[e.of][i] = "coord") => new[i] = sFields[e.of][i]
         /\ i \in Kept(e) /\ <<"field", e.of, i>> \notin lost => new[i] = sFields[e.of][i]
         /\ i \notin Kept(e) => new[i] = old[i]
  BY <1>2, <1>5
<1> QED
  BY <1>7, <1>8 DEF new, old

\* An order of a type that is not drawn leaves its type, and its bounds if they
\* could be found.
LEMMA HandleUnsupportedKeeps ==
  ASSUME IInv, HandleUnsupported
  PROVE  IInv'
<1>1. /\ wire # <<>> /\ wire' = <<>> /\ drawn' = None /\ mode' \in {"parse", "drop"}
      /\ Order.kind = "unsupported" /\ type' = Order.of
      /\ UNCHANGED <<sType, sFields, sBounds, sCells, fields, cells>>
  BY DEF HandleUnsupported, GoOn, Taken, server
<1>2. PICK e : e = Order
  OBVIOUS
<1>3. TypeOK /\ AgreeBut(lost \cup Told(e)) /\ OrderOK(e)
  BY <1>1, <1>2, ArrivesInSync
<1>4. /\ e.kind = "unsupported" /\ e.of \in Unsupported /\ e.of = sType
      /\ e.bounds \in Described /\ e.reads \in BOOLEAN /\ BoundsSaySo(e)
      /\ \A d \in Edges : e.bounds[d].how # "delta"
  BY <1>1, <1>2, <1>3 DEF OrderOK
<1>5. CASE e.of \in DOMAIN FieldBytes
  <2>1. bounds' = BoundsAfter(e) /\ lost' = lost \ Told(e)
    BY <1>2, <1>5 DEF HandleUnsupported
  <2>2. TypeOK'
    BY <1>1, <1>2, <1>3, <1>4, <2>1, BoundsTaken DEF TypeOK
  <2>3. ASSUME NEW d \in Edges, <<"edge", d>> \notin lost' PROVE bounds'[d] = sBounds'[d]
    <3>1. CASE <<"edge", d>> \in Told(e)
      BY <1>1, <1>3, <1>4, <2>1, <3>1, BoundsTaken, UnsupportedKeys
    <3>2. CASE <<"edge", d>> \notin Told(e)
      <4>1. ~(e.reads /\ e.bounds[d].how \in {"abs", "delta"})
        BY <1>4, <3>2, UnsupportedKeys
      <4>2. bounds'[d] = bounds[d]
        BY <1>3, <1>4, <2>1, <4>1, BoundsTaken
      <4>3. <<"edge", d>> \notin lost \cup Told(e)
        BY <2>1, <2>3, <3>2
      <4> QED
        BY <1>1, <1>3, <4>2, <4>3 DEF AgreeBut
    <3> QED
      BY <3>1, <3>2
  <2>4. AgreeBut(lost)'
    BY <1>1, <1>2, <1>3, <1>4, <2>1, <2>3, UnsupportedKeys DEF AgreeBut
  <2> QED
    BY <1>1, <2>2, <2>4, NothingDrawn
<1>6. CASE e.of \notin DOMAIN FieldBytes
  <2>1. bounds' = bounds /\ lost' = (lost \cup Told(e)) \ {TypeKey}
    BY <1>2, <1>6 DEF HandleUnsupported
  <2>2. TypeOK'
    BY <1>1, <1>2, <1>3, <1>4, <2>1, ToldIsKnown DEF TypeOK
  <2>3. AgreeBut(lost)'
    BY <1>1, <1>2, <1>3, <1>4, <2>1, KeysApart DEF AgreeBut
  <2> QED
    BY <1>1, <2>2, <2>3, NothingDrawn
<1> QED
  BY <1>5, <1>6

\* An order that cannot be placed is lost, and the bounds with it if they were
\* read from the wrong place.
LEMMA HandleNoTypeKeeps ==
  ASSUME IInv, HandleNoType
  PROVE  IInv'
<1> DEFINE noisy == type \in DOMAIN FieldBytes /\ Order.reads
<1>1. /\ wire # <<>> /\ wire' = <<>> /\ drawn' = None /\ mode' \in {"parse", "drop"}
      /\ bounds' = IF noisy THEN [d \in Edges |-> None] ELSE bounds
      /\ lost' = lost \cup Told(Order) \cup (IF noisy THEN EdgeKeys ELSE {})
      /\ UNCHANGED <<sType, sFields, sBounds, sCells, type, fields, cells>>
  BY DEF HandleNoType, GoOn, Taken, server
<1>2. PICK e : e = Order
  OBVIOUS
<1>3. TypeOK /\ AgreeBut(lost \cup Told(e)) /\ OrderOK(e)
  BY <1>1, <1>2, ArrivesInSync
<1> HIDE DEF noisy
<1>4. TypeOK'
  BY <1>1, <1>2, <1>3, ToldIsKnown DEF TypeOK, Everything
<1>5. lost \cup Told(e) \subseteq lost'
  BY <1>1, <1>2
<1>6. ASSUME NEW d \in Edges, <<"edge", d>> \notin lost' PROVE bounds'[d] = sBounds'[d]
  <2>1. <<"edge", d>> \in EdgeKeys
    BY DEF EdgeKeys
  <2>2. ~noisy
    BY <1>1, <1>6, <2>1
  <2> QED
    BY <1>1, <1>3, <1>5, <1>6, <2>2 DEF AgreeBut
<1>7. AgreeBut(lost)'
  BY <1>1, <1>3, <1>5, <1>6 DEF AgreeBut
<1> QED
  BY <1>1, <1>4, <1>7, NothingDrawn

\* A primary order read for what it is brings the client to the server's state,
\* and what it draws from state it has not lost is what the server meant.
LEMMA HandlePrimaryKeeps ==
  ASSUME IInv, HandlePrimary
  PROVE  IInv'
<1>1. PICK e : e = Order
  OBVIOUS
<1>2. /\ wire # <<>> /\ wire' = <<>> /\ mode' = "parse" /\ e.kind = "primary"
      /\ type' = e.of /\ bounds' = BoundsAfter(e)
      /\ fields' = [fields EXCEPT
                      ![e.of] = Decoded(e.of, @, e.flags, e.delta, e.vals, e.avail)]
      /\ drawn' = IF Got(e) = e.flags
                  THEN Drawing(e.of, fields'[e.of], e.clip, bounds', cells) ELSE None
      /\ lost' = (lost \ Fresh(e)) \cup {<<"field", e.of, i>> : i \in e.flags \ Kept(e)}
      /\ UNCHANGED <<sType, sFields, sBounds, sCells, meant, cells>>
  BY <1>1 DEF HandlePrimary, GoOn, Taken, server
<1>3. TypeOK /\ AgreeBut(lost \cup Told(e)) /\ OrderOK(e)
  BY <1>1, <1>2, ArrivesInSync
<1>4. /\ e.of \in Types /\ e.of = sType /\ e.flags \subseteq Touched[e.of]
      /\ e.vals \in [e.flags -> Int] /\ e.bounds \in Described
      /\ {e.delta, e.clip, e.reads, e.typed} \subseteq BOOLEAN
      /\ FieldsSaySo(e) /\ BoundsSaySo(e)
      /\ meant = Drawing(e.of, sFields[e.of], e.clip, sBounds, sCells)
  BY <1>2, <1>3 DEF OrderOK
<1> DEFINE new == Decoded(e.of, fields[e.of], e.flags, e.delta, e.vals, e.avail)
<1>5. /\ new \in [Touched[e.of] -> Int \cup {None}]
      /\ \A i \in Touched[e.of] :
           /\ i \in Kept(e) /\ ~(e.delta /\ Layout[e.of][i] = "coord") => new[i] = sFields[e.of][i]
           /\ i \in Kept(e) /\ <<"field", e.of, i>> \notin lost => new[i] = sFields[e.of][i]
           /\ i \notin Kept(e) => new[i] = fields[e.of][i]
  BY <1>3, <1>4, FieldsTaken
<1> HIDE DEF new
<1>6. fields'[e.of] = new /\ DOMAIN fields' = Types
      /\ \A t \in Types : t # e.of => fields'[t] = fields[t]
  BY <1>2, <1>3, <1>4 DEF TypeOK, new
<1> DEFINE gone == {<<"field", e.of, i>> : i \in e.flags \ Kept(e)}
<1>7. \A k : k \in lost' <=> (k \in lost /\ k \notin Fresh(e)) \/ k \in gone
  BY <1>2
<1>8. /\ \A t, i : <<"field", t, i>> \in gone <=> t = e.of /\ i \in e.flags \ Kept(e)
      /\ TypeKey \notin gone
      /\ \A d : <<"edge", d>> \notin gone
      /\ \A c \in Cells : c \notin gone
  <2>1. PICK of, S : of = e.of /\ S = e.flags \ Kept(e)
    OBVIOUS
  <2>2. gone = {<<"field", of, i>> : i \in S}
    BY <2>1
  <2> QED
    BY <2>1, <2>2, FieldKeysMean
<1>9. TypeOK'
  <2>1. gone \subseteq Everything
    BY <1>4 DEF Everything, Positions
  <2>2. lost' \subseteq Everything
    BY <1>3, <1>7, <2>1 DEF TypeOK
  <2>3. BoundsAfter(e) \in [Edges -> Int \cup {None}]
    BY <1>3, <1>4, BoundsTaken
  <2>4. \A t \in Types : fields'[t] \in [Touched[t] -> Int \cup {None}]
    BY <1>3, <1>5, <1>6 DEF TypeOK
  <2> QED
    BY <1>2, <1>3, <1>4, <1>6, <2>2, <2>3, <2>4 DEF TypeOK
<1> HIDE DEF gone
<1>10. ASSUME NEW t \in Types, NEW i \in Touched[t], <<"field", t, i>> \notin lost'
       PROVE  fields'[t][i] = sFields'[t][i]
  <2>1. CASE <<"field", t, i>> \in Told(e)
    <3>1. t = e.of /\ i \in Kept(e)
      BY <1>2, <1>7, <1>8, <1>10, <2>1, PrimaryKeys
    <3>2. CASE e.delta /\ Layout[e.of][i] = "coord"
      <4>1. <<"field", t, i>> \notin Fresh(e)
        BY <1>2, <3>1, <3>2, PrimaryKeys
      <4> QED
        BY <1>2, <1>5, <1>6, <1>7, <1>10, <3>1, <4>1
    <3>3. CASE ~(e.delta /\ Layout[e.of][i] = "coord")
      BY <1>2, <1>5, <1>6, <3>1, <3>3
    <3> QED
      BY <3>2, <3>3
  <2>2. CASE <<"field", t, i>> \notin Told(e)
    <3>1. t # e.of \/ i \notin Kept(e)
      BY <1>2, <2>2, PrimaryKeys DEF Kept, Got
    <3>2. <<"field", t, i>> \notin lost \cup Told(e)
      BY <1>2, <1>7, <1>10, <2>2, <3>1, PrimaryKeys
    <3>3. fields[t][i] = sFields[t][i]
      BY <1>3, <3>2 DEF AgreeBut
    <3>4. fields'[t][i] = fields[t][i]
      BY <1>5, <1>6, <3>1
    <3> QED
      BY <1>2, <3>3, <3>4
  <2> QED
    BY <2>1, <2>2
<1>11. ASSUME NEW d \in Edges, <<"edge", d>> \notin lost'
       PROVE  bounds'[d] = sBounds'[d]
  <2>1. <<"edge", d>> \notin lost \/ <<"edge", d>> \in Fresh(e)
    BY <1>7, <1>11
  <2>2. CASE e.reads /\ e.bounds[d].how \in {"abs", "delta"}
    <3>1. CASE e.bounds[d].how = "abs"
      BY <1>2, <1>3, <1>4, <2>2, <3>1, BoundsTaken
    <3>2. CASE e.bounds[d].how = "delta"
      <4>1. <<"edge", d>> \notin lost
        BY <1>2, <2>1, <3>2, PrimaryKeys
      <4> QED
        BY <1>2, <1>3, <1>4, <2>2, <3>2, <4>1, BoundsTaken
    <3> QED
      BY <2>2, <3>1, <3>2
  <2>3. CASE ~(e.reads /\ e.bounds[d].how \in {"abs", "delta"})
    <3>1. <<"edge", d>> \notin lost \cup Told(e)
      BY <1>2, <2>1, <2>3, PrimaryKeys
    <3>2. bounds'[d] = bounds[d]
      BY <1>2, <1>3, <1>4, <2>3, BoundsTaken
    <3> QED
      BY <1>2, <1>3, <3>1, <3>2 DEF AgreeBut
  <2> QED
    BY <2>2, <2>3
<1>12. ASSUME NEW c \in Cells, c \notin lost' PROVE cells'[c] = sCells'[c]
  BY <1>2, <1>3, <1>7, <1>12, PrimaryKeys DEF AgreeBut
<1>13. AgreeBut(lost)'
  BY <1>2, <1>4, <1>10, <1>11, <1>12 DEF AgreeBut
<1>14. ASSUME drawn' # None, Inputs(drawn') \cap lost' = {}
       PROVE  drawn' = meant'
  <2>1. drawn' = Drawing(e.of, new, e.clip, bounds', cells)
    BY <1>2, <1>6, <1>14
  <2>2. /\ drawn'.type = e.of /\ drawn'.fields = new
        /\ drawn'.clip = IF e.clip THEN <<bounds'>> ELSE <<>>
    BY <2>1 DEF Drawing
  <2>3. new = sFields[e.of]
    <3>1. \A i \in Touched[e.of] : <<"field", e.of, i>> \notin lost'
      BY <1>14, <2>2 DEF Inputs
    <3>2. \A i \in Touched[e.of] : new[i] = sFields[e.of][i]
      BY <1>2, <1>4, <1>6, <1>10, <3>1
    <3>3. sFields[e.of] \in [Touched[e.of] -> Int]
      BY <1>3, <1>4 DEF TypeOK
    <3> QED
      BY <1>5, <3>2, <3>3
  <2>4. e.clip => bounds' = sBounds
    <3> SUFFICES ASSUME e.clip PROVE bounds' = sBounds
      OBVIOUS
    <3>1. drawn'.clip # <<>>
      BY <2>2
    <3>2. \A d \in Edges : <<"edge", d>> \notin lost'
      BY <1>14, <3>1 DEF Inputs, EdgeKeys
    <3>3. \A d \in Edges : bounds'[d] = sBounds[d]
      BY <1>2, <1>11, <3>2
    <3>4. sBounds \in [Edges -> Int] /\ bounds' \in [Edges -> Int \cup {None}]
      BY <1>3, <1>9 DEF TypeOK
    <3> QED
      BY <3>3, <3>4
  <2>5. Fetch(e.of, new, cells) = Fetch(e.of, sFields[e.of], sCells)
    <3>1. CellOf(e.of, new) \notin lost'
      BY <1>14, <2>2 DEF Inputs
    <3>2. CASE CellOf(e.of, new) \in Cells
      BY <1>2, <1>12, <2>3, <3>1, <3>2 DEF Fetch
    <3>3. CASE CellOf(e.of, new) \notin Cells
      BY <2>3, <3>3 DEF Fetch
    <3> QED
      BY <3>2, <3>3
  <2> QED
    BY <1>2, <1>4, <2>1, <2>3, <2>4, <2>5 DEF Drawing
<1> QED
  BY <1>2, <1>9, <1>13, <1>14 DEF IInv, InSync, InFlightInSync, DrawsAsMeant

-----------------------------------------------------------------------------
(* Theorems *)

LEMMA NextKeeps == IInv /\ [Next]_vars => IInv'
<1> SUFFICES ASSUME IInv, [Next]_vars PROVE IInv'
  OBVIOUS
<1>1. ASSUME NEW last \in BOOLEAN, NEW t \in Types, NEW f \in [Touched[t] -> Values],
             NEW cut \in BOOLEAN, NEW style \in {"full", "absolute", "delta"},
             SendPrimary(t, f, FALSE, sBounds, style, cut, last)
      PROVE  IInv'
  <2>1. PICK b : b = sBounds
    OBVIOUS
  <2>2. b \in [Edges -> Int] /\ SendPrimary(t, f, FALSE, b, style, cut, last)
    BY <1>1, <2>1 DEF IInv, TypeOK
  <2> QED
    BY <2>1, <2>2, SendPrimaryKeeps
<1>2. ASSUME NEW last \in BOOLEAN, NEW t \in Types, NEW f \in [Touched[t] -> Values],
             NEW cut \in BOOLEAN, NEW style \in {"full", "absolute", "delta"},
             NEW b \in [Edges -> Values], SendPrimary(t, f, TRUE, b, style, cut, last)
      PROVE  IInv'
  <2>1. b \in [Edges -> Int]
    BY FieldsAssumption
  <2> QED
    BY <1>2, <2>1, SendPrimaryKeeps
<1>3. CASE \E last \in BOOLEAN :
              \/ \E t \in Types : \E f \in [Touched[t] -> Values], cut \in BOOLEAN,
                                 style \in {"full", "absolute", "delta"} :
                    \/ SendPrimary(t, f, FALSE, sBounds, style, cut, last)
                    \/ \E b \in [Edges -> Values] : SendPrimary(t, f, TRUE, b, style, cut, last)
              \/ \E t \in Unsupported, b \in [Edges -> Values] : SendUnsupported(t, b, last)
              \/ \E c \in Cells, v \in Contents, bad \in BOOLEAN :
                    \E via \in Vias(c) : SendSecondary(c, via, v, bad, last)
              \/ \E known \in BOOLEAN : SendAltsec(known, last)
  BY <1>1, <1>2, <1>3, SendUnsupportedKeeps, SendSecondaryKeeps, SendAltsecKeeps, ZenonT(60)
<1>4. CASE \/ HandleAltsec \/ HandleSecondary \/ HandleUnsupported \/ HandleNoType
           \/ HandleGarbled \/ HandlePrimary \/ HandleDropped
  BY <1>4, HandleAltsecKeeps, HandleSecondaryKeeps, HandleUnsupportedKeeps, HandleNoTypeKeeps,
     HandleGarbledKeeps, HandlePrimaryKeeps, HandleDroppedKeeps
<1>5. CASE Quiet \/ UNCHANGED vars
  BY <1>5 DEF Quiet, vars, server, memory, IInv, TypeOK, InSync, InFlightInSync, DrawsAsMeant,
     AgreeBut, OrderOK, FieldsSaySo, BoundsSaySo, Order
<1> QED
  BY <1>3, <1>4, <1>5 DEF Next

\* The decoder is never wrong about what it has not missed: through orders that
\* are dropped, cut short or taken for something else, type, fields, bounds and
\* caches it was told of agree with the server's (primary.rs, secondary.rs,
\* cache.rs).
THEOREM Invariance == Spec => []IInv
<1> QED
  BY InitHolds, NextKeeps, PTL DEF Spec

\* Between two orders the client agrees with the server on every key it has not
\* lost (OrderProcessor::process_orders).
THEOREM Synchrony == Spec => []InSync
<1>1. IInv => InSync
  BY DEF IInv
<1> QED
  BY Invariance, <1>1, PTL

\* An order drawn from state that was not lost draws what the server meant:
\* same fields, clip and tile (primary.rs, cache.rs).
THEOREM DrawsWhatWasMeant == Spec => []DrawsAsMeant
<1>1. IInv => DrawsAsMeant
  BY DEF IInv
<1> QED
  BY Invariance, <1>1, PTL

\* Only a missed change of the order type turns the stream into noise: the flag
\* bytes of an order are always counted as the server meant (header.rs,
\* read_field_flags).
THEOREM OrdersReadForWhatTheyAre == Spec => NoiseOnlyAfterLoss
<1>1. ASSUME IInv, HandleGarbled, mode # "garbled" PROVE TypeKey \in lost
  <2>1. PICK e : e = Order
    OBVIOUS
  <2>2. wire # <<>> /\ e.kind = "primary" /\ Misread(e)
    BY <1>1, <2>1 DEF HandleGarbled
  <2>3. OrderOK(e) /\ AgreeBut(lost \cup Told(e))
    BY <1>1, <2>1, <2>2, ArrivesInSync
  <2>4. /\ e.of \in Types /\ e.of = sType /\ e.flags \subseteq Touched[e.of]
        /\ e.zero = ZeroBits(FieldBytes[e.of] - BytesFor(e.flags))
    BY <2>2, <2>3 DEF OrderOK
  <2>5. ReadBytes(e.zero, FieldBytes[e.of]) = BytesFor(e.flags)
    BY <2>4, FlagBytesRead
  <2>6. ~e.typed /\ type # e.of
    BY <2>2, <2>5 DEF Misread
  <2>7. TypeKey \notin Told(e)
    BY <2>2, <2>6, PrimaryKeys
  <2> QED
    BY <2>3, <2>4, <2>6, <2>7 DEF AgreeBut
<1>2. IInv /\ [Next]_vars => [HandleGarbled => mode = "garbled" \/ TypeKey \in lost]_vars
  BY <1>1
<1> QED
  BY Invariance, <1>2, PTL DEF Spec, NoiseOnlyAfterLoss

-----------------------------------------------------------------------------
(* Rectangles *)

\* The pixels of a rectangle by their coordinates.
LEMMA InPixels ==
  ASSUME NEW r \in Rects
  PROVE  /\ Pixels(r) \subseteq Int \X Int
         /\ \A x, y \in Int : <<x, y>> \in Pixels(r) <=>
              r.x <= x /\ x < r.x + r.w /\ r.y <= y /\ y < r.y + r.h
<1>1. r.x \in Int /\ r.y \in Int /\ r.w \in Int /\ r.h \in Int
  BY DEF Rects
<1>2. r.x .. Right(r) - 1 \subseteq Int /\ r.y .. Bottom(r) - 1 \subseteq Int
  BY <1>1 DEF Right, Bottom
<1>3. \A x \in Int : x \in r.x .. Right(r) - 1 <=> r.x <= x /\ x < r.x + r.w
  BY <1>1 DEF Right
<1>4. \A y \in Int : y \in r.y .. Bottom(r) - 1 <=> r.y <= y /\ y < r.y + r.h
  BY <1>1 DEF Bottom
<1> QED
  BY <1>2, <1>3, <1>4 DEF Pixels

LEMMA EmptyPixels ==
  ASSUME NEW r \in Rects, IsEmpty(r)
  PROVE  Pixels(r) = {}
<1>1. r.x \in Int /\ r.y \in Int /\ r.w \in Int /\ r.h \in Int
  BY DEF Rects
<1>2. r.x .. Right(r) - 1 = {} \/ r.y .. Bottom(r) - 1 = {}
  BY <1>1 DEF Right, Bottom, IsEmpty
<1> QED
  BY <1>2 DEF Pixels

\* A union covers both its parts (Rect::union).
LEMMA UnionCovers ==
  ASSUME NEW r \in Rects, NEW s \in Rects
  PROVE  /\ Union(r, s) \in Rects
         /\ Pixels(r) \subseteq Pixels(Union(r, s))
         /\ Pixels(s) \subseteq Pixels(Union(r, s))
<1>1. CASE IsEmpty(r)
  BY <1>1, EmptyPixels DEF Union
<1>2. CASE ~IsEmpty(r) /\ IsEmpty(s)
  BY <1>2, EmptyPixels DEF Union
<1>3. CASE ~IsEmpty(r) /\ ~IsEmpty(s)
  <2>1. PICK u : u = Union(r, s)
    OBVIOUS
  <2>2. /\ r.x \in Int /\ r.y \in Int /\ r.w \in Int /\ r.h \in Int
        /\ s.x \in Int /\ s.y \in Int /\ s.w \in Int /\ s.h \in Int
    BY DEF Rects
  <2>3. /\ u.x = Least(r.x, s.x) /\ u.y = Least(r.y, s.y)
        /\ u.w = Most(Right(r), Right(s)) - u.x /\ u.h = Most(Bottom(r), Bottom(s)) - u.y
        /\ u = Rect(u.x, u.y, u.w, u.h)
    BY <1>3, <2>1 DEF Union, Rect
  <2>4. /\ u.x \in Int /\ u.y \in Int /\ u.w \in Int /\ u.h \in Int
        /\ u.x <= r.x /\ u.x <= s.x /\ u.y <= r.y /\ u.y <= s.y
        /\ r.x + r.w <= u.x + u.w /\ s.x + s.w <= u.x + u.w
        /\ r.y + r.h <= u.y + u.h /\ s.y + s.h <= u.y + u.h
    BY <2>2, <2>3 DEF Least, Most, Right, Bottom
  <2>5. u \in Rects
    BY <2>3, <2>4 DEF Rect, Rects
  <2>6. ASSUME NEW x \in Int, NEW y \in Int, <<x, y>> \in Pixels(r) \/ <<x, y>> \in Pixels(s)
        PROVE  <<x, y>> \in Pixels(u)
    BY <2>2, <2>4, <2>5, <2>6, InPixels
  <2>7. Pixels(r) \subseteq Int \X Int /\ Pixels(s) \subseteq Int \X Int
    BY InPixels
  <2> QED
    BY <2>1, <2>5, <2>6, <2>7
<1> QED
  BY <1>1, <1>2, <1>3

LEMMA IntersectPixels ==
  ASSUME NEW r \in Rects, NEW s \in Rects
  PROVE  /\ Intersect(r, s) \in Rects
         /\ Pixels(Intersect(r, s)) = Pixels(r) \cap Pixels(s)
<1>1. PICK u : u = Intersect(r, s)
  OBVIOUS
<1>2. /\ r.x \in Int /\ r.y \in Int /\ r.w \in Int /\ r.h \in Int
      /\ s.x \in Int /\ s.y \in Int /\ s.w \in Int /\ s.h \in Int
  BY DEF Rects
<1>3. /\ u.x = Most(r.x, s.x) /\ u.y = Most(r.y, s.y)
      /\ u.w = Least(Right(r), Right(s)) - u.x /\ u.h = Least(Bottom(r), Bottom(s)) - u.y
      /\ u = Rect(u.x, u.y, u.w, u.h)
  BY <1>1 DEF Intersect, Rect
<1>4. u.x \in Int /\ u.y \in Int /\ u.w \in Int /\ u.h \in Int
  BY <1>2, <1>3 DEF Least, Most, Right, Bottom
<1>5. u \in Rects
  BY <1>3, <1>4 DEF Rect, Rects
<1>6. ASSUME NEW x \in Int
      PROVE  u.x <= x /\ x < u.x + u.w <=> /\ r.x <= x /\ x < r.x + r.w
                                           /\ s.x <= x /\ x < s.x + s.w
  BY <1>2, <1>3, <1>4 DEF Least, Most, Right
<1>7. ASSUME NEW y \in Int
      PROVE  u.y <= y /\ y < u.y + u.h <=> /\ r.y <= y /\ y < r.y + r.h
                                           /\ s.y <= y /\ y < s.y + s.h
  BY <1>2, <1>3, <1>4 DEF Least, Most, Bottom
<1>8. \A x, y \in Int : <<x, y>> \in Pixels(u) <=> <<x, y>> \in Pixels(r) /\ <<x, y>> \in Pixels(s)
  BY <1>5, <1>6, <1>7, InPixels
<1>9. Pixels(r) \subseteq Int \X Int /\ Pixels(u) \subseteq Int \X Int
  BY <1>5, InPixels
<1> QED
  BY <1>1, <1>5, <1>8, <1>9

\* Clipping leaves the pixels an order may change (OrderCanvas::clip).
LEMMA ClipIsVisible ==
  ASSUME NEW dst \in Rects, NEW b \in Clips
  PROVE  /\ Clip(dst, b) \in Rects
         /\ Pixels(Clip(dst, b)) = Visible(dst, b)
         /\ Visible(dst, b) \subseteq Canvas
<1>1. PICK all : all = Rect(0, 0, Width, Height)
  OBVIOUS
<1>2. all \in Rects
  BY <1>1, SizeAssumption DEF Rect, Rects
<1>3. PICK r : r = Intersect(dst, all)
  OBVIOUS
<1>4. r \in Rects /\ Pixels(r) = Pixels(dst) \cap Pixels(all)
  BY <1>2, <1>3, IntersectPixels
<1>5. \A x, y \in Int : <<x, y>> \in Pixels(all) <=> <<x, y>> \in Canvas
  <2>1. all.x = 0 /\ all.y = 0 /\ all.w = Width /\ all.h = Height
    BY <1>1 DEF Rect
  <2>2. Width \in Int /\ Height \in Int
    BY SizeAssumption
  <2>3. \A x \in Int : x \in 0..Width - 1 <=> 0 <= x /\ x < 0 + Width
    BY <2>2
  <2>4. \A y \in Int : y \in 0..Height - 1 <=> 0 <= y /\ y < 0 + Height
    BY <2>2
  <2>5. \A x, y \in Int : <<x, y>> \in Pixels(all) <=>
           0 <= x /\ x < 0 + Width /\ 0 <= y /\ y < 0 + Height
    BY <1>2, <2>1, InPixels
  <2> QED
    BY <2>3, <2>4, <2>5 DEF Canvas
<1>6. Canvas \subseteq Int \X Int /\ Pixels(dst) \subseteq Int \X Int
  BY InPixels, SizeAssumption DEF Canvas
<1>7. \A x, y \in Int : <<x, y>> \in Pixels(r) <=> <<x, y>> \in Canvas /\ <<x, y>> \in Pixels(dst)
  BY <1>4, <1>5
<1>8. CASE b = NoClip
  <2>1. Clip(dst, b) = r
    BY <1>1, <1>3, <1>8 DEF Clip
  <2>2. ASSUME NEW x \in Int, NEW y \in Int
        PROVE  <<x, y>> \in Visible(dst, b) <=> <<x, y>> \in Canvas /\ <<x, y>> \in Pixels(dst)
    BY <1>8, InPixels DEF Visible, Right, Bottom
  <2>3. Pixels(r) = Visible(dst, b)
    BY <1>4, <1>6, <1>7, <2>2 DEF Visible
  <2> QED
    BY <1>4, <2>1, <2>3 DEF Visible
<1>9. CASE b # NoClip
  <2>1. b \in Rects
    BY <1>9, RectsAssumption
  <2>2. Clip(dst, b) = Intersect(r, b)
    BY <1>1, <1>3, <1>9 DEF Clip
  <2>3. Clip(dst, b) \in Rects /\ Pixels(Clip(dst, b)) = Pixels(r) \cap Pixels(b)
    BY <1>4, <2>1, <2>2, IntersectPixels
  <2>4. ASSUME NEW x \in Int, NEW y \in Int
        PROVE  <<x, y>> \in Visible(dst, b) <=>
                 <<x, y>> \in Canvas /\ <<x, y>> \in Pixels(dst) /\ <<x, y>> \in Pixels(b)
    BY <1>9, <2>1, InPixels DEF Visible, Right, Bottom
  <2>5. Pixels(r) \cap Pixels(b) = Visible(dst, b)
    BY <1>4, <1>6, <1>7, <2>4 DEF Visible
  <2> QED
    BY <2>3, <2>5 DEF Visible
<1> QED
  BY <1>8, <1>9


-----------------------------------------------------------------------------
(* One order *)

\* A canvas has a value at every pixel and nowhere else.
IsPicture(c) == c = [p \in Canvas |-> c[p]]

\* What an order may do: leave a canvas, and report every pixel it changed.
Confined(result, c) ==
    /\ IsPicture(result.canvas)
    /\ result.dirty \in Rects
    /\ \A p \in Canvas : p \notin Pixels(result.dirty) => result.canvas[p] = c[p]

\* A result is its canvas and its rectangle.
LEMMA ResultIs ==
  ASSUME NEW c, NEW r
  PROVE  Result(c, r).canvas = c /\ Result(c, r).dirty = r
BY DEF Result

\* fill_rect fills what is visible of its rectangle.
LEMMA FillRectPaints ==
  ASSUME NEW c, NEW dst \in Rects, NEW b \in Clips, NEW colour
  PROVE  /\ FillRect(c, dst, b, colour).canvas =
              [p \in Canvas |-> IF p \in Visible(dst, b) THEN colour ELSE c[p]]
         /\ Confined(FillRect(c, dst, b, colour), c)
<1> DEFINE r == Clip(dst, b)
           d == [p \in Canvas |-> IF p \in Visible(dst, b) THEN colour ELSE c[p]]
<1>1. r \in Rects /\ Pixels(r) = Visible(dst, b)
  BY ClipIsVisible
<1>2. FillRect(c, dst, b, colour) = Result(d, r)
  BY <1>1 DEF FillRect, Paint
<1>3. \A p \in Canvas : p \notin Pixels(r) => d[p] = c[p]
  BY <1>1
<1>4. IsPicture(d)
  BY DEF IsPicture
<1> HIDE DEF d, r
<1>5. Confined(Result(d, r), c)
  BY <1>1, <1>3, <1>4, ResultIs DEF Confined
<1> QED
  BY <1>2, <1>5, ResultIs DEF d

\* dst_rop
LEMMA DstRopPaints ==
  ASSUME NEW c, IsPicture(c), NEW dst \in Rects, NEW b \in Clips, NEW rop \in Rops
  PROVE  /\ DstRop(c, dst, b, rop).canvas =
              [p \in Canvas |->
                 IF p \in (IF rop = "other" THEN {} ELSE Visible(dst, b))
                 THEN IF rop = "invert" THEN <<"inverse", c[p]>> ELSE <<rop>> ELSE c[p]]
         /\ Confined(DstRop(c, dst, b, rop), c)
<1> DEFINE r == Clip(dst, b)
           V == Visible(dst, b)
           d == [p \in Canvas |-> IF p \in (IF rop = "other" THEN {} ELSE V)
                                  THEN IF rop = "invert" THEN <<"inverse", c[p]>> ELSE <<rop>>
                                  ELSE c[p]]
<1>1. r \in Rects /\ Pixels(r) = V
  BY ClipIsVisible
<1>2. DstRop(c, dst, b, rop) = Result(d, r)
  <2>1. rop = "black" \/ rop = "white" \/ rop = "invert" \/ rop = "other"
    BY DEF Rops
  <2>2. CASE IsEmpty(r)
    <3>1. V = {}
      BY <1>1, <2>2, EmptyPixels
    <3>2. d = c
      <4>1. \A p \in Canvas : d[p] = c[p]
        BY <3>1
      <4> QED
        BY <4>1 DEF IsPicture
    <3> HIDE DEF d
    <3> QED
      BY <2>2, <3>2 DEF DstRop
  <2>3. CASE ~IsEmpty(r) /\ rop = "black"
    <3>1. FillRect(c, dst, b, Black).canvas = d
      BY <2>3, FillRectPaints DEF Black
    <3> HIDE DEF d
    <3> QED
      BY <2>3, <3>1 DEF DstRop
  <2>4. CASE ~IsEmpty(r) /\ rop = "white"
    <3>1. FillRect(c, dst, b, White).canvas = d
      BY <2>4, FillRectPaints DEF White
    <3> HIDE DEF d
    <3> QED
      BY <2>4, <3>1 DEF DstRop
  <2>5. CASE ~IsEmpty(r) /\ rop = "invert"
    <3>1. DstRop(c, dst, b, rop) = Result(Paint(c, Pixels(r), LAMBDA p : <<"inverse", c[p]>>), r)
      BY <2>5 DEF DstRop
    <3>2. Paint(c, Pixels(r), LAMBDA p : <<"inverse", c[p]>>) = d
      BY <1>1, <2>5 DEF Paint
    <3> HIDE DEF d
    <3> QED
      BY <3>1, <3>2
  <2>6. CASE ~IsEmpty(r) /\ rop = "other"
    <3>1. DstRop(c, dst, b, rop) = Result(c, r)
      BY <2>6 DEF DstRop
    <3>2. d = c
      <4>1. \A p \in Canvas : d[p] = c[p]
        BY <2>6
      <4> QED
        BY <4>1 DEF IsPicture
    <3> HIDE DEF d
    <3> QED
      BY <3>1, <3>2
  <2> QED
    BY <2>1, <2>2, <2>3, <2>4, <2>5, <2>6
<1>3. \A p \in Canvas : p \notin Pixels(r) => d[p] = c[p]
  BY <1>1
<1>4. IsPicture(d)
  BY DEF IsPicture
<1> HIDE DEF d, r
<1>5. Confined(Result(d, r), c)
  BY <1>1, <1>3, <1>4, ResultIs DEF Confined
<1> QED
  BY <1>2, <1>5, ResultIs DEF d

\* PatBlt::draw
LEMMA FillPatternPaints ==
  ASSUME NEW c, NEW dst \in Rects, NEW b \in Clips, NEW rop \in Rops \ {"invert"}, NEW fore
  PROVE  /\ FillPattern(c, dst, b, rop, fore).canvas =
              [p \in Canvas |-> IF p \in Visible(dst, b)
                                THEN IF rop = "other" THEN fore ELSE <<rop>> ELSE c[p]]
         /\ Confined(FillPattern(c, dst, b, rop, fore), c)
<1> DEFINE colour == IF rop = "other" THEN fore ELSE <<rop>>
<1>1. FillPattern(c, dst, b, rop, fore) = FillRect(c, dst, b, colour)
  BY DEF FillPattern, Rops
<1>2. /\ FillRect(c, dst, b, colour).canvas =
           [p \in Canvas |-> IF p \in Visible(dst, b) THEN colour ELSE c[p]]
      /\ Confined(FillRect(c, dst, b, colour), c)
  <2> HIDE DEF colour
  <2> QED
    BY FillRectPaints
<1> QED
  BY <1>1, <1>2

\* A bitmap decodes to the picture it was made of.
LEMMA TileDecodes == DecodeBitmap(Tile, TileWidth, TileHeight) = TilePicture
<1>1. TileWidth \in Int /\ TileWidth > 0 /\ Len(Tile) \in Nat
  BY TileAssumption
<1>2. TileHeight \in Int
  BY <1>1 DEF TileHeight
<1>3. ASSUME NEW x \in 0..TileWidth - 1, NEW y \in 0..TileHeight - 1
      PROVE  TileHeight - 1 - y = TileHeight - y - 1
  BY <1>2
<1>4. ASSUME NEW p \in (0..TileWidth - 1) \X (0..TileHeight - 1)
      PROVE  Tile[(TileHeight - 1 - p[2]) * TileWidth + p[1] + 1] =
               Tile[(TileHeight - p[2] - 1) * TileWidth + p[1] + 1]
  <2>1. p[1] \in 0..TileWidth - 1 /\ p[2] \in 0..TileHeight - 1
    OBVIOUS
  <2> QED
    BY <1>3, <2>1
<1> QED
  BY <1>4 DEF DecodeBitmap, TilePicture

\* The picture a bitmap blit is meant to leave.
BlitPicture(c, dst, b, bmp, sx, sy) ==
    [p \in Canvas |->
       IF p \in {q \in Visible(dst, b) : <<q[1] + sx - dst.x, q[2] + sy - dst.y>> \in DOMAIN bmp}
       THEN bmp[<<p[1] + sx - dst.x, p[2] + sy - dst.y>>] ELSE c[p]]

\* blit_bitmap copies the pixels the bitmap has.
LEMMA BlitBitmapPaints ==
  ASSUME NEW c, NEW dst \in Rects, NEW b \in Clips, NEW bmp, NEW sx \in Int, NEW sy \in Int
  PROVE  /\ BlitBitmap(c, dst, b, bmp, sx, sy).canvas = BlitPicture(c, dst, b, bmp, sx, sy)
         /\ Confined(BlitBitmap(c, dst, b, bmp, sx, sy), c)
<1> DEFINE r == Clip(dst, b)
           V == Visible(dst, b)
           from(p) == <<p[1] + sx - dst.x, p[2] + sy - dst.y>>
           d == [p \in Canvas |-> IF p \in {q \in V : from(q) \in DOMAIN bmp}
                                  THEN bmp[from(p)] ELSE c[p]]
<1>1. r \in Rects /\ Pixels(r) = V /\ V \subseteq Canvas
  BY ClipIsVisible
<1>2. \A p \in Canvas : from(p) = <<sx + (p[1] - dst.x), sy + (p[2] - dst.y)>>
  <2>1. dst.x \in Int /\ dst.y \in Int
    BY DEF Rects
  <2>2. \A p \in Canvas : p[1] \in Int /\ p[2] \in Int
    BY SizeAssumption DEF Canvas
  <2> QED
    BY <2>1, <2>2
<1>3. BlitBitmap(c, dst, b, bmp, sx, sy) = Result(d, r)
  <2>1. BlitBitmap(c, dst, b, bmp, sx, sy) =
          Result([p \in Canvas |->
                    IF p \in {q \in V : <<sx + (q[1] - dst.x), sy + (q[2] - dst.y)>> \in DOMAIN bmp}
                    THEN bmp[<<sx + (p[1] - dst.x), sy + (p[2] - dst.y)>>] ELSE c[p]], r)
    BY <1>1 DEF BlitBitmap, Paint
  <2> HIDE DEF from, V, r
  <2>2. \A q \in V : <<sx + (q[1] - dst.x), sy + (q[2] - dst.y)>> = from(q)
    BY <1>1, <1>2
  <2>3. {q \in V : <<sx + (q[1] - dst.x), sy + (q[2] - dst.y)>> \in DOMAIN bmp} =
          {q \in V : from(q) \in DOMAIN bmp}
    BY <2>2
  <2>4. [p \in Canvas |->
           IF p \in {q \in V : <<sx + (q[1] - dst.x), sy + (q[2] - dst.y)>> \in DOMAIN bmp}
           THEN bmp[<<sx + (p[1] - dst.x), sy + (p[2] - dst.y)>>] ELSE c[p]] = d
    BY <1>2, <2>3
  <2> QED
    BY <2>1, <2>4
<1>4. \A p \in Canvas : p \notin Pixels(r) => d[p] = c[p]
  BY <1>1
<1>5. IsPicture(d)
  BY DEF IsPicture
<1>6. Confined(Result(d, r), c)
  <2> HIDE DEF d, r
  <2> QED
    BY <1>1, <1>4, <1>5, ResultIs DEF Confined
<1>7. Result(d, r).canvas = d
  BY ResultIs
<1>8. d = BlitPicture(c, dst, b, bmp, sx, sy)
  BY DEF BlitPicture
<1> HIDE DEF d, r
<1> QED
  BY <1>3, <1>6, <1>7, <1>8

\* Quotient and remainder are the ones there are.
LEMMA DivMod ==
  ASSUME NEW q \in Int, NEW n \in Nat \ {0}, NEW r \in 0..n - 1
  PROVE  (q * n + r) \div n = q /\ (q * n + r) % n = r
<1> DEFINE m == q * n + r
<1>1. m \in Int /\ q * n \in Int
  OBVIOUS
<1>2. PICK k \in Int, j \in 0..n - 1 : k = m \div n /\ j = m % n /\ m = n * k + j
  <2> HIDE DEF m
  <2> QED
    BY <1>1
<1>3. n * (k - q) = r - j
  BY <1>2
<1>4. CASE k >= q + 1
  <2>1. n * (k - q) >= n
    BY <1>4
  <2> QED
    BY <1>3, <2>1
<1>5. CASE k <= q - 1
  <2>1. n * (q - k) >= n
    BY <1>5
  <2>2. n * (q - k) = j - r
    BY <1>3
  <2> QED
    BY <2>1, <2>2
<1>6. CASE k = q
  BY <1>2, <1>3, <1>6
<1> QED
  BY <1>4, <1>5, <1>6

\* A row of a glyph has room for its pixels.
LEMMA RowHasRoom ==
  /\ RowBits \in Nat /\ GlyphWidth <= RowBits
  /\ RowBits = ((GlyphWidth + ByteBits - 1) \div ByteBits) * ByteBits
  /\ (GlyphWidth + ByteBits - 1) \div ByteBits \in Int
<1>1. GlyphWidth \in Nat /\ ByteBits \in Nat \ {0}
  BY GlyphAssumption
<1>2. PICK m \in Nat : m = GlyphWidth + ByteBits - 1
  BY <1>1
<1>3. PICK k \in Int, j \in 0..ByteBits - 1 :
        k = m \div ByteBits /\ m = ByteBits * k + j
  BY <1>1, <1>2
<1>4. RowBits = k * ByteBits
  BY <1>2, <1>3 DEF RowBits
<1>5. k * ByteBits = m - j
  BY <1>1, <1>3
<1> QED
  BY <1>1, <1>2, <1>3, <1>4, <1>5

\* The bits of the glyph are its ink (blit_glyph).
LEMMA GlyphBitIsInk ==
  ASSUME NEW x \in 0..GlyphWidth - 1, NEW y \in 0..GlyphHeight - 1
  PROVE  GlyphBit(GlyphData, GlyphWidth, x, y) <=> <<x, y>> \in Ink
<1>1. GlyphWidth \in Nat /\ GlyphHeight \in Nat /\ ByteBits \in Nat \ {0}
  BY GlyphAssumption
<1>2. PICK n \in Nat : n = RowBits
  BY RowHasRoom
<1>3. n \in Nat \ {0} /\ x \in 0..n - 1
  BY <1>1, <1>2, RowHasRoom
<1>4. PICK k \in Int : k = (GlyphWidth + ByteBits - 1) \div ByteBits /\ n = k * ByteBits
  BY <1>2, RowHasRoom
<1>5. y * k * ByteBits = y * n
  BY <1>1, <1>4
<1>6. PICK i \in Int : i = y * n + x + 1
  BY <1>3
<1>7. (i - 1) % n = x /\ (i - 1) \div n = y
  <2>1. i - 1 = y * n + x
    BY <1>3, <1>6
  <2>2. y \in Int
    BY <1>1
  <2>3. (y * n + x) \div n = y /\ (y * n + x) % n = x
    BY <1>3, <2>2, DivMod, Zenon
  <2> QED
    BY <2>1, <2>3, Zenon
<1>8. i \in 1..n * GlyphHeight
  <2>1. n * GlyphHeight = n * y + n * (GlyphHeight - y)
    BY <1>1
  <2>2. n * (GlyphHeight - y) >= n
    BY <1>1
  <2>3. n * y = y * n /\ y * n \in Nat /\ n * GlyphHeight \in Int
    BY <1>1
  <2> QED
    BY <1>1, <1>3, <1>6, <2>1, <2>2, <2>3
<1>9. GlyphBit(GlyphData, GlyphWidth, x, y) <=> i \in DOMAIN GlyphData /\ GlyphData[i] = 1
  BY <1>4, <1>5, <1>6 DEF GlyphBit
<1>10. /\ DOMAIN GlyphData = 1..n * GlyphHeight
       /\ GlyphData[i] = IF <<(i - 1) % n, (i - 1) \div n>> \in Ink THEN 1 ELSE 0
  BY <1>2, <1>8 DEF GlyphData
<1> QED
  BY <1>7, <1>8, <1>9, <1>10

\* The picture a glyph over its background is meant to leave.
TextBack(box, b) ==
    IF box.w > 0 /\ box.h > 0 THEN Visible(Rect(box.x, box.y, box.w + 1, box.h + 1), b) ELSE {}
TextInk(b, x, y) ==
    {p \in Visible(Rect(x, y, GlyphWidth, GlyphHeight), b) : <<p[1] - x, p[2] - y>> \in Ink}
TextPicture(c, box, b, x, y) ==
    [p \in Canvas |-> IF p \in TextBack(box, b) \cup TextInk(b, x, y)
                      THEN IF p \in TextInk(b, x, y) THEN Fore ELSE Back ELSE c[p]]

\* FastGlyph::draw: the glyph over its background.
LEMMA DrawGlyphPaints ==
  ASSUME NEW c, IsPicture(c), NEW box \in Rects, NEW b \in Clips, NEW x \in Int, NEW y \in Int,
         NEW g, g = DrawGlyph(c, box, x, y, GlyphWidth, GlyphHeight, GlyphData, b, Back, Fore)
  PROVE  g.canvas = TextPicture(c, box, b, x, y) /\ Confined(g, c)
<1>1. PICK back, ink : back = TextBack(box, b) /\ ink = TextInk(b, x, y)
  OBVIOUS
<1>2. back = IF box.w > 0 /\ box.h > 0
             THEN Visible(Rect(box.x, box.y, box.w + 1, box.h + 1), b) ELSE {}
  BY <1>1 DEF TextBack
<1>3. ink = {p \in Visible(Rect(x, y, GlyphWidth, GlyphHeight), b) : <<p[1] - x, p[2] - y>> \in Ink}
  BY <1>1 DEF TextInk
<1>4. PICK bg : bg = FillTextBg(c, box.x, box.y, Right(box), Bottom(box), b, Back)
  OBVIOUS
<1>5. PICK fg : fg = BlitGlyph(bg.canvas, x, y, GlyphWidth, GlyphHeight, GlyphData, b, Fore)
  OBVIOUS
<1>6. /\ g.canvas = fg.canvas
      /\ g.dirty = IF IsEmpty(fg.dirty) THEN bg.dirty
                   ELSE IF IsEmpty(bg.dirty) THEN fg.dirty ELSE Union(bg.dirty, fg.dirty)
  BY <1>4, <1>5, ResultIs DEF DrawGlyph
<1>7. /\ bg.canvas = [p \in Canvas |-> IF p \in back THEN Back ELSE c[p]]
      /\ Confined(bg, c)
  <2>1. box.x \in Int /\ box.y \in Int /\ box.w \in Int /\ box.h \in Int
    BY DEF Rects
  <2>2. Right(box) > box.x <=> box.w > 0
    BY <2>1 DEF Right
  <2>3. Bottom(box) > box.y <=> box.h > 0
    BY <2>1 DEF Bottom
  <2>4. CASE box.w > 0 /\ box.h > 0
    <3>1. FromInclusive(box.x, box.y, Right(box), Bottom(box)) = Rect(box.x, box.y, box.w + 1, box.h + 1)
      BY <2>1 DEF FromInclusive, Right, Bottom
    <3>2. Rect(box.x, box.y, box.w + 1, box.h + 1) \in Rects
      BY <2>1 DEF Rect, Rects
    <3>3. bg = FillRect(c, Rect(box.x, box.y, box.w + 1, box.h + 1), b, Back)
      BY <1>4, <2>2, <2>3, <2>4, <3>1 DEF FillTextBg
    <3> QED
      <4>1. PICK bx \in Rects : bx = Rect(box.x, box.y, box.w + 1, box.h + 1)
        BY <3>2
      <4>2. back = Visible(bx, b) /\ bg = FillRect(c, bx, b, Back)
        BY <1>2, <2>4, <3>3, <4>1
      <4> QED
        BY <4>2, FillRectPaints
  <2>5. CASE ~(box.w > 0 /\ box.h > 0)
    <3>1. bg.canvas = c /\ bg.dirty = NoRect
      BY <1>4, <2>2, <2>3, <2>5, ResultIs DEF FillTextBg
    <3>2. NoRect \in Rects
      BY DEF NoRect, Rect, Rects
    <3>3. c = [p \in Canvas |-> IF p \in back THEN Back ELSE c[p]]
      BY <1>2, <2>5 DEF IsPicture
    <3> QED
      BY <3>1, <3>2, <3>3 DEF Confined
  <2> QED
    BY <2>4, <2>5
<1>8. /\ fg.canvas = [p \in Canvas |-> IF p \in ink THEN Fore ELSE bg.canvas[p]]
      /\ fg.dirty \in Rects /\ ink \subseteq Pixels(fg.dirty)
  <2>1. GlyphWidth \in Int /\ GlyphHeight \in Int
    BY GlyphAssumption
  <2>2. PICK at : at = Rect(x, y, GlyphWidth, GlyphHeight)
    OBVIOUS
  <2>3. at \in Rects /\ at.x = x /\ at.y = y /\ at.w = GlyphWidth /\ at.h = GlyphHeight
    BY <2>1, <2>2 DEF Rect, Rects
  <2>4. PICK r : r = Clip(at, b)
    OBVIOUS
  <2>5. r \in Rects /\ Pixels(r) = Visible(at, b) /\ Visible(at, b) \subseteq Canvas
    BY <2>3, <2>4, ClipIsVisible
  <2>6. \A p \in Visible(at, b) : /\ p[1] \in Int /\ p[2] \in Int
                                  /\ p[1] - x \in 0..GlyphWidth - 1 /\ p[2] - y \in 0..GlyphHeight - 1
    <3>1. \A p \in Canvas : p[1] \in Int /\ p[2] \in Int
      BY SizeAssumption DEF Canvas
    <3> QED
      BY <2>1, <2>3, <3>1 DEF Visible, Right, Bottom
  <2>7. {p \in Pixels(r) : GlyphBit(GlyphData, GlyphWidth, p[1] - x, p[2] - y)} = ink
    <3>1. \A p \in Visible(at, b) :
            GlyphBit(GlyphData, GlyphWidth, p[1] - x, p[2] - y) <=> <<p[1] - x, p[2] - y>> \in Ink
      BY <2>6, GlyphBitIsInk
    <3> QED
      BY <1>3, <2>2, <2>5, <3>1
  <2>8. fg = Result([p \in Canvas |-> IF p \in ink THEN Fore ELSE bg.canvas[p]], r)
    BY <1>5, <2>2, <2>4, <2>7 DEF BlitGlyph, Paint
  <2>9. ink \subseteq Pixels(r)
    BY <1>3, <2>2, <2>5
  <2> QED
    BY <2>5, <2>8, <2>9, ResultIs
<1>9. g.canvas = [p \in Canvas |-> IF p \in back \cup ink
                                   THEN IF p \in ink THEN Fore ELSE Back ELSE c[p]]
  BY <1>6, <1>7, <1>8
<1>10. bg.dirty \in Rects /\ \A p \in Canvas : p \notin Pixels(bg.dirty) => bg.canvas[p] = c[p]
  BY <1>7 DEF Confined
<1>11. g.dirty \in Rects /\ Pixels(bg.dirty) \subseteq Pixels(g.dirty) /\ Pixels(fg.dirty) \subseteq Pixels(g.dirty)
  BY <1>6, <1>8, <1>10, UnionCovers, EmptyPixels
<1>12. \A p \in Canvas : p \notin Pixels(g.dirty) => g.canvas[p] = c[p]
  BY <1>6, <1>8, <1>10, <1>11
<1>13. IsPicture(g.canvas)
  BY <1>9 DEF IsPicture
<1>14. Confined(g, c)
  BY <1>11, <1>12, <1>13 DEF Confined
<1> QED
  BY <1>9, <1>14, <1>1 DEF TextPicture

-----------------------------------------------------------------------------
(* Copies *)

\* Induction up to N.
LEMMA UpTo ==
  ASSUME NEW N \in Nat, NEW T, 0 \in T, \A n \in 0..N : n < N /\ n \in T => n + 1 \in T
  PROVE  0..N \subseteq T
<1> SUFFICES ASSUME (0..N) \ T # {} PROVE FALSE
  OBVIOUS
<1> DEFINE U == (0..N) \ T
<1>1. PICK x \in U : \A y \in U : x <= y
  <2>1. U \subseteq Nat /\ U # {}
    OBVIOUS
  <2> HIDE DEF U
  <2> QED
    BY <2>1, LeastNat
<1>2. x # 0 /\ x - 1 \in 0..N /\ x - 1 \in T
  BY <1>1
<1> QED
  BY <1>1, <1>2

\* h is the canvas after each turn of the loops of copy_rect.
Turns(h, c, scan, dx, dy) ==
    /\ h[0] = c
    /\ \A n \in 1..Len(scan) : h[n] = Move(h[n - 1], scan[n], dx, dy)
    /\ Moved(c, scan, dx, dy) = h[Len(scan)]

\* xs lists the members of X.
Lists(xs, X) ==
    /\ Len(xs) \in Nat \ {0}
    /\ \A i \in 1..Len(xs) : xs[i] \in X
    /\ \A v \in X : \E i \in 1..Len(xs) : xs[i] = v

\* scan goes through the pixels P.
Visits(scan, P) == {scan[k] : k \in 1..Len(scan)} = P

\* copy_rect moves one pixel after the other.
LEMMA MovedSteps ==
  ASSUME NEW c, NEW scan, NEW dx, NEW dy, Len(scan) \in Nat
  PROVE  \E h : Turns(h, c, scan, dx, dy)
<1> DEFINE L == Len(scan)
           One(f, n) == IF n = 0 THEN c ELSE Move(f[n - 1], scan[n], dx, dy)
           Is(f, m) == f = [n \in 0..m |-> One(f, n)]
           T == {m \in 0..L : \E f : Is(f, m)}
<1>1. 0 \in T
  <2>1. Is([n \in 0..0 |-> c], 0)
    OBVIOUS
  <2>2. 0 \in 0..L
    OBVIOUS
  <2> HIDE DEF Is
  <2> QED
    BY <2>1, <2>2
<1>2. ASSUME NEW m \in 0..L, m < L, m \in T PROVE m + 1 \in T
  <2>1. PICK f : Is(f, m)
    BY <1>2
  <2> DEFINE g == [n \in 0..(m + 1) |-> IF n = m + 1 THEN One(f, n) ELSE f[n]]
  <2>2. ASSUME NEW n \in 0..(m + 1) PROVE g[n] = One(g, n)
    <3>1. CASE n = 0
      <4>1. g[0] = f[0] /\ f[0] = One(f, 0)
        BY <2>1
      <4> QED
        BY <3>1, <4>1
    <3>2. CASE n # 0
      <4>1. n - 1 \in 0..m /\ g[n - 1] = f[n - 1]
        BY <3>2
      <4>2. One(g, n) = One(f, n)
        BY <3>2, <4>1
      <4>3. g[n] = One(f, n)
        <5>1. f = [i \in 0..m |-> One(f, i)]
          BY <2>1
        <5> HIDE DEF One
        <5>2. CASE n = m + 1
          BY <5>2
        <5>3. CASE n # m + 1
          <6>1. n \in 0..m
            BY <5>3
          <6>2. g[n] = f[n]
            BY <5>3
          <6> QED
            BY <5>1, <6>1, <6>2
        <5> QED
          BY <5>2, <5>3
      <4> QED
        BY <4>2, <4>3
    <3> QED
      BY <3>1, <3>2
  <2>3. g = [n \in 0..(m + 1) |-> One(g, n)]
    BY <2>2
  <2>4. Is(g, m + 1)
    BY <2>3
  <2>5. m + 1 \in 0..L
    BY <1>2
  <2> HIDE DEF Is, g
  <2> QED
    BY <2>4, <2>5
<1>3. L \in T
  <2> HIDE DEF T
  <2>1. 0..L \subseteq T
    BY <1>1, <1>2, UpTo
  <2> QED
    BY <2>1
<1>4. \E f : f = [n \in 0..L |-> One(f, n)]
  BY <1>3
<1> DEFINE h == CHOOSE f : f = [n \in 0..L |-> One(f, n)]
<1>5. h = [n \in 0..L |-> One(h, n)]
  BY <1>4, Zenon
<1>6. Moved(c, scan, dx, dy) = h[L]
  BY DEF Moved
<1> HIDE DEF h
<1>7. \A n \in 0..L : h[n] = One(h, n)
  <2> HIDE DEF One
  <2> QED
    BY <1>5
<1>8. h[0] = c /\ \A n \in 1..L : h[n] = Move(h[n - 1], scan[n], dx, dy)
  BY <1>7
<1>9. Turns(h, c, scan, dx, dy)
  BY <1>6, <1>8 DEF Turns
<1> QED
  BY <1>9

\* A row or column of a copy, in either direction.
LEMMA AxisIs ==
  ASSUME NEW a \in Int, NEW b \in Int, a < b, NEW xs,
         xs = Ascending(a, b) \/ xs = Reverse(Ascending(a, b))
  PROVE  Lists(xs, a..b - 1)
<1>1. PICK n \in Nat : n = b - a
  OBVIOUS
<1>2. PICK up : up = Ascending(a, b)
  OBVIOUS
<1>3. up = [i \in 1..n |-> a + i - 1]
  BY <1>1, <1>2 DEF Ascending, Most
<1>4. Len(up) = n
  BY <1>3
<1>5. CASE xs = Ascending(a, b)
  <2>1. xs = up
    BY <1>2, <1>5
  <2>2. \A i \in 1..n : xs[i] \in a..b - 1
    BY <1>1, <1>3, <2>1
  <2>3. ASSUME NEW v \in a..b - 1 PROVE \E i \in 1..n : xs[i] = v
    <3>1. v - a + 1 \in 1..n
      BY <1>1
    <3>2. xs[v - a + 1] = v
      BY <1>3, <2>1, <3>1
    <3> QED
      BY <3>1, <3>2
  <2> QED
    BY <1>1, <1>4, <2>1, <2>2, <2>3 DEF Lists
<1>6. CASE xs = Reverse(Ascending(a, b))
  <2>1. xs = [i \in 1..n |-> up[(n - i) + 1]]
    BY <1>2, <1>4, <1>6 DEF Reverse
  <2>2. Len(xs) = n
    BY <2>1
  <2>3. \A i \in 1..n : xs[i] = b - i
    BY <1>1, <1>3, <2>1
  <2>4. ASSUME NEW v \in a..b - 1 PROVE \E i \in 1..n : xs[i] = v
    <3>1. b - v \in 1..n
      BY <1>1
    <3>2. xs[b - v] = v
      BY <2>3, <3>1
    <3> QED
      BY <3>1, <3>2
  <2>5. \A i \in 1..n : xs[i] \in a..b - 1
    BY <1>1, <2>3
  <2> QED
    BY <1>1, <2>2, <2>4, <2>5 DEF Lists
<1> QED
  BY <1>5, <1>6

\* A number below m * n is a row and a place in it.
LEMMA QuotientInRange ==
  ASSUME NEW m \in Nat \ {0}, NEW n \in Nat \ {0}, NEW j \in Nat, j < m * n
  PROVE  j \div m \in 0..n - 1 /\ j % m \in 0..m - 1
<1>1. PICK q \in Int, r \in 0..m - 1 : q = j \div m /\ r = j % m /\ j = m * q + r
  OBVIOUS
<1>2. CASE q < 0
  <2>1. m * (-q) >= m
    BY <1>2
  <2>2. m * q = -(m * (-q))
    OBVIOUS
  <2> QED
    BY <1>1, <2>1, <2>2
<1>3. CASE q >= n
  <2>1. m * q = m * n + m * (q - n) /\ m * (q - n) >= 0
    BY <1>3
  <2> QED
    BY <1>1, <2>1
<1> QED
  BY <1>1, <1>2, <1>3

\* The two loops of copy_rect visit every pixel of the rectangle, and no other.
LEMMA ScanVisits ==
  ASSUME NEW xs, NEW ys, NEW X, NEW Y, Lists(xs, X), Lists(ys, Y)
  PROVE  /\ Len(Scan(xs, ys)) \in Nat
         /\ Visits(Scan(xs, ys), X \X Y)
<1>1. PICK m \in Nat \ {0} : m = Len(xs)
  BY DEF Lists
<1>2. PICK n \in Nat \ {0} : n = Len(ys)
  BY DEF Lists
<1>3. PICK L \in Nat : L = m * n
  OBVIOUS
<1>4. PICK s : s = Scan(xs, ys)
  OBVIOUS
<1>5. s = [k \in 1..L |-> <<xs[((k - 1) % m) + 1], ys[((k - 1) \div m) + 1]>>]
  BY <1>1, <1>2, <1>3, <1>4 DEF Scan
<1>6. Len(s) = L
  BY <1>5
<1>7. ASSUME NEW k \in 1..L PROVE s[k] \in X \X Y
  <2>1. PICK j \in Nat : j = k - 1 /\ j < m * n
    BY <1>3
  <2>2. PICK q \in 0..n - 1, r \in 0..m - 1 : q = j \div m /\ r = j % m
    BY <2>1, QuotientInRange, Zenon
  <2>3. r + 1 \in 1..m /\ q + 1 \in 1..n
    BY <2>2
  <2>4. s[k] = <<xs[r + 1], ys[q + 1]>>
    BY <1>5, <2>1, <2>2
  <2> QED
    BY <1>1, <1>2, <2>3, <2>4 DEF Lists
<1>8. ASSUME NEW x \in X, NEW y \in Y PROVE \E k \in 1..L : s[k] = <<x, y>>
  <2>1. PICK i \in 1..m : xs[i] = x
    BY <1>1 DEF Lists
  <2>2. PICK j \in 1..n : ys[j] = y
    BY <1>2 DEF Lists
  <2>3. PICK q \in Int : q = j - 1
    OBVIOUS
  <2>4. PICK r \in 0..m - 1 : r = i - 1
    OBVIOUS
  <2>5. (q * m + r) \div m = q /\ (q * m + r) % m = r
    BY DivMod, Zenon
  <2>6. PICK k \in Int : k = q * m + r + 1 /\ k - 1 = q * m + r
    OBVIOUS
  <2>7. k \in 1..L
    <3>1. m * n = q * m + m * (n - q) /\ m * (n - q) >= m
      BY <2>3
    <3>2. q * m >= 0
      BY <2>3
    <3> QED
      BY <1>3, <2>6, <3>1, <3>2
  <2>8. (k - 1) \div m = q /\ (k - 1) % m = r
    BY <2>5, <2>6, Zenon
  <2>9. s[k] = <<xs[r + 1], ys[q + 1]>>
    BY <1>5, <2>7, <2>8
  <2> QED
    BY <2>1, <2>2, <2>3, <2>4, <2>7, <2>9
<1>9. {s[k] : k \in 1..L} = X \X Y
  <2>1. {s[k] : k \in 1..L} \subseteq X \X Y
    BY <1>7
  <2>2. ASSUME NEW p \in X \X Y PROVE p \in {s[k] : k \in 1..L}
    <3>1. PICK x \in X, y \in Y : p = <<x, y>>
      OBVIOUS
    <3>2. PICK k \in 1..L : s[k] = <<x, y>>
      BY <1>8
    <3> QED
      BY <3>1, <3>2
  <2> QED
    BY <2>1, <2>2
<1> QED
  BY <1>4, <1>6, <1>9 DEF Visits

\* A pixel moved: the place it goes to takes the value of where it comes from.
LEMMA MoveIs ==
  ASSUME NEW d, IsPicture(d), NEW p \in Canvas, NEW dx, NEW dy, NEW q, q = <<p[1] + dx, p[2] + dy>>
  PROVE  /\ IsPicture(Move(d, p, dx, dy))
         /\ \A o \in Canvas : Move(d, p, dx, dy)[o] = IF o = p /\ q \in Canvas THEN d[q] ELSE d[o]
<1>1. CASE q \notin Canvas
  BY <1>1 DEF Move
<1>2. CASE q \in Canvas
  <2>1. Move(d, p, dx, dy) = [d EXCEPT ![p] = d[q]]
    BY <1>2 DEF Move
  <2>2. DOMAIN d = Canvas
    BY DEF IsPicture
  <2>3. [d EXCEPT ![p] = d[q]] = [o \in Canvas |-> IF o = p THEN d[q] ELSE d[o]]
    BY <2>2
  <2> HIDE DEF Move
  <2>4. PICK e : e = Move(d, p, dx, dy)
    OBVIOUS
  <2>5. e = [o \in Canvas |-> IF o = p THEN d[q] ELSE d[o]]
    BY <2>1, <2>3, <2>4
  <2>6. IsPicture(e) /\ \A o \in Canvas : e[o] = IF o = p THEN d[q] ELSE d[o]
    BY <2>5 DEF IsPicture
  <2> QED
    BY <1>2, <2>4, <2>6
<1> QED
  BY <1>1, <1>2

\* Where a copy reads each pixel, the pixels of P it copies, and that it reads
\* none it writes.
From(dx, dy) == [p \in Canvas |-> <<p[1] + dx, p[2] + dy>>]
Copied(P, dx, dy) == {p \in P : From(dx, dy)[p] \in Canvas}
Apart(P, dx, dy) == \A p, q \in Copied(P, dx, dy) : From(dx, dy)[p] # q

\* A copy changes only the pixels it visits.
LEMMA MovedConfined ==
  ASSUME NEW c, IsPicture(c), NEW scan, Len(scan) \in Nat, NEW dx, NEW dy,
         NEW P, P \subseteq Canvas, Visits(scan, P)
  PROVE  /\ IsPicture(Moved(c, scan, dx, dy))
         /\ \A p \in Canvas : p \notin P => Moved(c, scan, dx, dy)[p] = c[p]
<1>1. PICK h : Turns(h, c, scan, dx, dy)
  BY MovedSteps
<1>2. /\ h[0] = c
      /\ \A n \in 1..Len(scan) : h[n] = Move(h[n - 1], scan[n], dx, dy)
      /\ Moved(c, scan, dx, dy) = h[Len(scan)]
  BY <1>1 DEF Turns
<1>3. PICK L \in Nat : L = Len(scan)
  OBVIOUS
<1> DEFINE Good(d) == IsPicture(d) /\ \A p \in Canvas : p \notin P => d[p] = c[p]
           T == {k \in 0..L : Good(h[k])}
<1>4. 0 \in T
  BY <1>2
<1>5. ASSUME NEW k \in 0..L, k < L, k \in T PROVE k + 1 \in T
  <2>1. PICK d : d = h[k]
    OBVIOUS
  <2>2. Good(d)
    BY <1>5, <2>1
  <2>3. k + 1 \in 1..L /\ k + 1 - 1 = k
    BY <1>5
  <2>4. PICK p \in P : p = scan[k + 1]
    BY <1>3, <2>3 DEF Visits
  <2>5. PICK e : e = Move(d, p, dx, dy)
    OBVIOUS
  <2>6. h[k + 1] = e
    BY <1>2, <1>3, <2>1, <2>3, <2>4, <2>5
  <2>7. PICK q : q = <<p[1] + dx, p[2] + dy>>
    OBVIOUS
  <2>8. IsPicture(e) /\ \A o \in Canvas : e[o] = IF o = p /\ q \in Canvas THEN d[q] ELSE d[o]
    BY <2>2, <2>5, <2>7, MoveIs
  <2>9. Good(e)
    BY <2>2, <2>8
  <2> QED
    BY <2>3, <2>6, <2>9
<1>6. L \in T
  <2> HIDE DEF T
  <2>1. 0..L \subseteq T
    BY <1>4, <1>5, UpTo
  <2> QED
    BY <2>1
<1>7. Good(h[L])
  BY <1>6
<1> QED
  BY <1>2, <1>3, <1>7

\* A copy none of whose sources is one of its destinations moves the picture as
\* it was.
LEMMA MovedCopies ==
  ASSUME NEW c, IsPicture(c), NEW scan, Len(scan) \in Nat, NEW dx, NEW dy,
         NEW P, P \subseteq Canvas, Visits(scan, P), Apart(P, dx, dy)
  PROVE  Moved(c, scan, dx, dy) =
           [p \in Canvas |-> IF p \in Copied(P, dx, dy) THEN c[From(dx, dy)[p]] ELSE c[p]]
<1>1. PICK h : Turns(h, c, scan, dx, dy)
  BY MovedSteps
<1>2. /\ h[0] = c
      /\ \A n \in 1..Len(scan) : h[n] = Move(h[n - 1], scan[n], dx, dy)
      /\ Moved(c, scan, dx, dy) = h[Len(scan)]
  BY <1>1 DEF Turns
<1>3. PICK L \in Nat : L = Len(scan)
  OBVIOUS
<1>4. PICK from, ps : from = From(dx, dy) /\ ps = Copied(P, dx, dy)
  OBVIOUS
<1>5. ps = {p \in P : from[p] \in Canvas} /\ \A p, q \in ps : from[p] # q
  BY <1>4 DEF Copied, Apart
<1> DEFINE Gone(k) == {scan[j] : j \in 1..k} \cap ps
           Good(d, k) == /\ IsPicture(d)
                         /\ \A p \in Canvas : d[p] = IF p \in Gone(k) THEN c[from[p]] ELSE c[p]
           T == {k \in 0..L : Good(h[k], k)}
<1>6. 0 \in T
  <2>1. Gone(0) = {}
    OBVIOUS
  <2>2. Good(c, 0)
    BY <2>1
  <2> QED
    BY <1>2, <2>2
<1>7. ASSUME NEW k \in 0..L, k < L, k \in T PROVE k + 1 \in T
  <2>1. PICK d : d = h[k]
    OBVIOUS
  <2>2. Good(d, k)
    BY <1>7, <2>1
  <2>3. k + 1 \in 1..L /\ k + 1 - 1 = k
    BY <1>7
  <2>4. PICK p \in P : p = scan[k + 1]
    BY <1>3, <2>3 DEF Visits
  <2>5. PICK e : e = Move(d, p, dx, dy)
    OBVIOUS
  <2>6. h[k + 1] = e
    BY <1>2, <1>3, <2>1, <2>3, <2>4, <2>5
  <2>7. PICK q : q = <<p[1] + dx, p[2] + dy>>
    OBVIOUS
  <2>8. q = from[p]
    BY <1>4, <2>7 DEF From
  <2>9. IsPicture(e) /\ \A o \in Canvas : e[o] = IF o = p /\ q \in Canvas THEN d[q] ELSE d[o]
    BY <2>2, <2>5, <2>7, MoveIs
  <2>10. Gone(k + 1) = Gone(k) \cup ({p} \cap ps)
    <3>1. 1..(k + 1) = 1..k \cup {k + 1}
      OBVIOUS
    <3>2. {scan[j] : j \in 1..(k + 1)} = {scan[j] : j \in 1..k} \cup {p}
      BY <2>4, <3>1
    <3> QED
      BY <3>2
  <2>11. Good(e, k + 1)
    <3> HIDE DEF Gone
    <3>1. CASE q \notin Canvas
      <4>1. p \notin ps
        BY <1>5, <2>8, <3>1
      <4>2. Gone(k + 1) = Gone(k)
        BY <2>10, <4>1
      <4> QED
        BY <2>2, <2>9, <3>1, <4>2
    <3>2. CASE q \in Canvas
      <4>1. p \in ps
        BY <1>5, <2>8, <3>2
      <4>2. Gone(k) \subseteq ps
        BY DEF Gone
      <4>3. q \notin Gone(k)
        BY <1>5, <2>8, <4>1, <4>2
      <4>4. d[q] = c[from[p]]
        BY <2>2, <2>8, <3>2, <4>3
      <4>5. ASSUME NEW o \in Canvas
            PROVE  e[o] = IF o \in Gone(k + 1) THEN c[from[o]] ELSE c[o]
        <5>1. CASE o = p
          BY <2>9, <2>10, <3>2, <4>1, <4>4, <5>1
        <5>2. CASE o # p
          BY <2>2, <2>9, <2>10, <5>2
        <5> QED
          BY <5>1, <5>2
      <4> QED
        BY <2>9, <4>5
    <3> QED
      BY <3>1, <3>2
  <2> HIDE DEF Good
  <2> QED
    BY <2>3, <2>6, <2>11
<1>8. L \in T
  <2> HIDE DEF T
  <2>1. 0..L \subseteq T
    BY <1>6, <1>7, UpTo
  <2> QED
    BY <2>1
<1>9. PICK d : d = h[L] /\ Good(d, L)
  BY <1>8
<1>10. Gone(L) = ps
  BY <1>3, <1>5 DEF Visits
<1>11. \A p \in Canvas : d[p] = IF p \in ps THEN c[from[p]] ELSE c[p]
  BY <1>9, <1>10
<1>12. d = [p \in Canvas |-> IF p \in ps THEN c[from[p]] ELSE c[p]]
  BY <1>9, <1>11 DEF IsPicture
<1> QED
  BY <1>2, <1>3, <1>9, <1>12, <1>4

\* The picture a copy is meant to leave.
CopyPicture(c, P, dx, dy) ==
    [p \in Canvas |-> IF p \in Copied(P, dx, dy) THEN c[From(dx, dy)[p]] ELSE c[p]]

\* copy_rect reports what it changes; it moves the picture as it was unless a
\* source is also a destination.
LEMMA CopyRectCopies ==
  ASSUME NEW c, IsPicture(c), NEW dst \in Rects, NEW b \in Clips, NEW sx \in Int, NEW sy \in Int,
         NEW dx, NEW dy, dx = sx - dst.x, dy = sy - dst.y
  PROVE  /\ Confined(CopyRect(c, dst, b, sx, sy), c)
         /\ Apart(Visible(dst, b), dx, dy) =>
              CopyRect(c, dst, b, sx, sy).canvas = CopyPicture(c, Visible(dst, b), dx, dy)
<1>1. PICK r : r = Clip(dst, b)
  OBVIOUS
<1>2. r \in Rects /\ Pixels(r) = Visible(dst, b) /\ Visible(dst, b) \subseteq Canvas
  BY <1>1, ClipIsVisible
<1>3. CASE IsEmpty(r)
  <2>1. CopyRect(c, dst, b, sx, sy) = Result(c, r)
    BY <1>1, <1>3 DEF CopyRect
  <2>2. Copied(Visible(dst, b), dx, dy) = {}
    BY <1>2, <1>3, EmptyPixels DEF Copied
  <2>3. c = CopyPicture(c, Visible(dst, b), dx, dy)
    BY <2>2 DEF IsPicture, CopyPicture
  <2>4. Confined(Result(c, r), c)
    BY <1>2, ResultIs DEF Confined
  <2> QED
    BY <2>1, <2>3, <2>4, ResultIs
<1>4. CASE ~IsEmpty(r)
  <2>1. PICK xs : xs = IF dx > 0 THEN Reverse(Ascending(r.x, Right(r))) ELSE Ascending(r.x, Right(r))
    OBVIOUS
  <2>2. PICK ys : ys = IF dy > 0 THEN Reverse(Ascending(r.y, Bottom(r))) ELSE Ascending(r.y, Bottom(r))
    OBVIOUS
  <2>3. PICK scan : scan = Scan(xs, ys)
    OBVIOUS
  <2>4. CopyRect(c, dst, b, sx, sy) = Result(Moved(c, scan, dx, dy), r)
    BY <1>1, <1>4, <2>1, <2>2, <2>3 DEF CopyRect
  <2>5. /\ r.x \in Int /\ r.y \in Int /\ Right(r) \in Int /\ Bottom(r) \in Int
        /\ r.x < Right(r) /\ r.y < Bottom(r)
    BY <1>2, <1>4 DEF Rects, Right, Bottom, IsEmpty
  <2>6. Lists(xs, r.x .. Right(r) - 1)
    BY <2>1, <2>5, AxisIs
  <2>7. Lists(ys, r.y .. Bottom(r) - 1)
    BY <2>2, <2>5, AxisIs
  <2>8. PICK P : P = Visible(dst, b)
    OBVIOUS
  <2>9. Len(scan) \in Nat /\ Visits(scan, P)
    <3>1. PICK X, Y : X = r.x .. Right(r) - 1 /\ Y = r.y .. Bottom(r) - 1
      OBVIOUS
    <3>2. Len(Scan(xs, ys)) \in Nat /\ Visits(Scan(xs, ys), X \X Y)
      BY <2>6, <2>7, <3>1, ScanVisits
    <3> QED
      BY <1>2, <2>3, <2>8, <3>1, <3>2 DEF Pixels
  <2>10. P \subseteq Canvas
    BY <1>2, <2>8
  <2>11. IsPicture(Moved(c, scan, dx, dy)) /\ \A p \in Canvas : p \notin P => Moved(c, scan, dx, dy)[p] = c[p]
    BY <2>9, <2>10, MovedConfined
  <2>12. Apart(P, dx, dy) =>
           Moved(c, scan, dx, dy) = CopyPicture(c, P, dx, dy)
    BY <2>9, <2>10, MovedCopies DEF CopyPicture
  <2>13. Confined(Result(Moved(c, scan, dx, dy), r), c)
    BY <1>2, <2>8, <2>11, ResultIs DEF Confined
  <2> QED
    BY <2>4, <2>8, <2>12, <2>13, ResultIs
<1> QED
  BY <1>3, <1>4

-----------------------------------------------------------------------------
(* Lines *)

\* h is where each turn of the loop of draw_line stands.
Walks(h, x0, y0, x1, y1, dx, dy, sx, sy) ==
    /\ h[0] = [x |-> x0, y |-> y0, err |-> dx + dy]
    /\ \A n \in 1..dx - dy : h[n] = Turn(h[n - 1], <<x1, y1>>, dx, dy, sx, sy)
    /\ LinePixels(x0, y0, x1, y1) = {<<h[k].x, h[k].y>> : k \in 0..dx - dy}

\* draw_line takes one turn after the other.
LEMMA LineWalks ==
  ASSUME NEW x0 \in Int, NEW y0 \in Int, NEW x1 \in Int, NEW y1 \in Int,
         NEW dx, NEW dy, NEW sx, NEW sy, dx = Abs(x1 - x0), dy = -Abs(y1 - y0),
         sx = IF x0 < x1 THEN 1 ELSE -1, sy = IF y0 < y1 THEN 1 ELSE -1
  PROVE  \E h : Walks(h, x0, y0, x1, y1, dx, dy, sx, sy)
<1> DEFINE L == dx - dy
           start == [x |-> x0, y |-> y0, err |-> dx + dy]
           end == <<x1, y1>>
           One(f, n) == IF n = 0 THEN start ELSE Turn(f[n - 1], end, dx, dy, sx, sy)
           Is(f, m) == f = [n \in 0..m |-> One(f, n)]
           T == {m \in 0..L : \E f : Is(f, m)}
<1>1. L \in Nat
  BY DEF Abs
<1> HIDE DEF L, start, end
<1>2. 0 \in T
  <2>1. Is([n \in 0..0 |-> start], 0)
    OBVIOUS
  <2>2. 0 \in 0..L
    BY <1>1
  <2> HIDE DEF Is
  <2> QED
    BY <2>1, <2>2
<1>3. ASSUME NEW m \in 0..L, m < L, m \in T PROVE m + 1 \in T
  <2>1. PICK f : Is(f, m)
    BY <1>3
  <2> DEFINE g == [n \in 0..(m + 1) |-> IF n = m + 1 THEN One(f, n) ELSE f[n]]
  <2>2. ASSUME NEW n \in 0..(m + 1) PROVE g[n] = One(g, n)
    <3>1. CASE n = 0
      <4>1. g[0] = f[0] /\ f[0] = One(f, 0)
        BY <2>1
      <4> QED
        BY <3>1, <4>1
    <3>2. CASE n # 0
      <4>1. n - 1 \in 0..m /\ g[n - 1] = f[n - 1]
        BY <3>2
      <4>2. One(g, n) = One(f, n)
        BY <3>2, <4>1
      <4>3. g[n] = One(f, n)
        <5>1. f = [i \in 0..m |-> One(f, i)]
          BY <2>1
        <5> HIDE DEF One
        <5>2. CASE n = m + 1
          BY <5>2
        <5>3. CASE n # m + 1
          <6>1. n \in 0..m
            BY <5>3
          <6>2. g[n] = f[n]
            BY <5>3
          <6> QED
            BY <5>1, <6>1, <6>2
        <5> QED
          BY <5>2, <5>3
      <4> QED
        BY <4>2, <4>3
    <3> QED
      BY <3>1, <3>2
  <2>3. g = [n \in 0..(m + 1) |-> One(g, n)]
    BY <2>2
  <2>4. Is(g, m + 1)
    BY <2>3
  <2>5. m + 1 \in 0..L
    BY <1>3, <1>1
  <2> HIDE DEF Is, g
  <2> QED
    BY <2>4, <2>5
<1>4. L \in T
  <2> HIDE DEF T
  <2>1. 0..L \subseteq T
    BY <1>2, <1>3, <1>1, UpTo
  <2> QED
    BY <1>1, <2>1
<1>5. \E f : f = [n \in 0..L |-> One(f, n)]
  BY <1>4
<1> DEFINE h == CHOOSE f : f = [n \in 0..L |-> One(f, n)]
<1>6. h = [n \in 0..L |-> One(h, n)]
  BY <1>5, Zenon
<1>7. LinePixels(x0, y0, x1, y1) = {<<h[k].x, h[k].y>> : k \in 0..L}
  BY DEF LinePixels, L, start, end
<1> HIDE DEF h
<1>8. \A n \in 0..L : h[n] = One(h, n)
  <2> HIDE DEF One
  <2> QED
    BY <1>6
<1>9. h[0] = start /\ \A n \in 1..L : h[n] = Turn(h[n - 1], end, dx, dy, sx, sy)
  BY <1>8, <1>1
<1>10. Walks(h, x0, y0, x1, y1, dx, dy, sx, sy)
  BY <1>7, <1>9 DEF Walks, L, start, end
<1> QED
  BY <1>10

\* The error of a turn of a line that is at least as wide as it is high: it
\* always steps in x, and in y when that keeps it within half a pixel.
LEMMA WideTurn ==
  ASSUME NEW a \in Nat, NEW b \in Nat, b <= a, NEW i \in 0..a, i < a, NEW j \in 0..b,
         NEW D \in Int, D = a * j - b * i, -a <= 2 * D, 2 * D <= a,
         NEW err \in Int, err = a - b + D
  PROVE  /\ 2 * err >= -b
         /\ 2 * err <= a => /\ j + 1 <= b /\ a * (j + 1) - b * (i + 1) = D + a - b
                            /\ -a <= 2 * (D + a - b) /\ 2 * (D + a - b) <= a
         /\ ~(2 * err <= a) => /\ a * j - b * (i + 1) = D - b
                               /\ -a <= 2 * (D - b) /\ 2 * (D - b) <= a
<1>1. a * j \in Int /\ b * i \in Int
  OBVIOUS
<1>2. a * (j + 1) = a * j + a /\ b * (i + 1) = b * i + b
  OBVIOUS
<1>3. 2 * err >= -b
  OBVIOUS
<1>4. ASSUME 2 * err <= a PROVE j + 1 <= b
  <2> SUFFICES ASSUME j = b PROVE FALSE
    OBVIOUS
  <2>1. a * b - b * i = b * (a - i)
    OBVIOUS
  <2>2. b * (a - i) >= b
    OBVIOUS
  <2>3. D >= b
    BY <2>1, <2>2
  <2> QED
    BY <1>4, <2>3
<1>5. ASSUME 2 * err <= a
      PROVE  /\ a * (j + 1) - b * (i + 1) = D + a - b
             /\ -a <= 2 * (D + a - b) /\ 2 * (D + a - b) <= a
  BY <1>1, <1>2, <1>5
<1>6. ASSUME ~(2 * err <= a)
      PROVE  /\ a * j - b * (i + 1) = D - b
             /\ -a <= 2 * (D - b) /\ 2 * (D - b) <= a
  BY <1>1, <1>2, <1>6
<1> QED
  BY <1>3, <1>4, <1>5, <1>6

\* The same for a line higher than it is wide.
LEMMA HighTurn ==
  ASSUME NEW a \in Nat, NEW b \in Nat, a < b, NEW i \in 0..a, NEW j \in 0..b, j < b,
         NEW D \in Int, D = a * j - b * i, -b <= 2 * D, 2 * D <= b,
         NEW err \in Int, err = a - b + D
  PROVE  /\ 2 * err <= a
         /\ 2 * err >= -b => /\ i + 1 <= a /\ a * (j + 1) - b * (i + 1) = D + a - b
                             /\ -b <= 2 * (D + a - b) /\ 2 * (D + a - b) <= b
         /\ ~(2 * err >= -b) => /\ a * (j + 1) - b * i = D + a
                                /\ -b <= 2 * (D + a) /\ 2 * (D + a) <= b
<1>1. a * j \in Int /\ b * i \in Int
  OBVIOUS
<1>2. a * (j + 1) = a * j + a /\ b * (i + 1) = b * i + b
  OBVIOUS
<1>3. 2 * err <= a
  OBVIOUS
<1>4. ASSUME 2 * err >= -b PROVE i + 1 <= a
  <2> SUFFICES ASSUME i = a PROVE FALSE
    OBVIOUS
  <2>1. a * j - b * a = -(a * (b - j))
    OBVIOUS
  <2>2. a * (b - j) >= a
    OBVIOUS
  <2>3. D <= -a
    BY <2>1, <2>2
  <2> QED
    BY <1>4, <2>3
<1>5. ASSUME 2 * err >= -b
      PROVE  /\ a * (j + 1) - b * (i + 1) = D + a - b
             /\ -b <= 2 * (D + a - b) /\ 2 * (D + a - b) <= b
  BY <1>1, <1>2, <1>5
<1>6. ASSUME ~(2 * err >= -b)
      PROVE  /\ a * (j + 1) - b * i = D + a
             /\ -b <= 2 * (D + a) /\ 2 * (D + a) <= b
  BY <1>1, <1>2, <1>6
<1> QED
  BY <1>3, <1>4, <1>5, <1>6

\* Where turn k stands: k pixels along the longer axis, and within half a pixel
\* of the ideal line.
StandsAt(s, k, i, j, x0, y0, a, b, sx, sy) ==
    /\ i \in 0..a /\ j \in 0..b
    /\ s = [x |-> x0 + sx * i, y |-> y0 + sy * j, err |-> a - b + (a * j - b * i)]
    /\ -Most(a, b) <= 2 * (a * j - b * i) /\ 2 * (a * j - b * i) <= Most(a, b)
    /\ b <= a => i = k
    /\ a < b => j = k

Stands(s, k, x0, y0, a, b, sx, sy) == \E i, j : StandsAt(s, k, i, j, x0, y0, a, b, sx, sy)

\* A line goes from one end a steps of sx and b steps of sy to the other.
LineGoes(x0, y0, x1, y1, a, b, sx, sy) ==
    /\ x0 \in Int /\ y0 \in Int /\ x1 \in Int /\ y1 \in Int
    /\ a \in Nat /\ b \in Nat /\ sx \in {1, -1} /\ sy \in {1, -1}
    /\ x1 = x0 + sx * a /\ y1 = y0 + sy * b

\* A turn before the end steps along the longer axis.
LEMMA TurnStands ==
  ASSUME NEW x0, NEW y0, NEW x1, NEW y1, NEW a, NEW b, NEW sx, NEW sy,
         LineGoes(x0, y0, x1, y1, a, b, sx, sy), NEW k \in Nat, k < Most(a, b),
         NEW s, Stands(s, k, x0, y0, a, b, sx, sy)
  PROVE  Stands(Turn(s, <<x1, y1>>, a, -b, sx, sy), k + 1, x0, y0, a, b, sx, sy)
<1>1. /\ x0 \in Int /\ y0 \in Int /\ a \in Nat /\ b \in Nat
      /\ sx \in {1, -1} /\ sy \in {1, -1} /\ x1 = x0 + sx * a /\ y1 = y0 + sy * b
  BY DEF LineGoes
<1>2. PICK i, j : StandsAt(s, k, i, j, x0, y0, a, b, sx, sy)
  BY DEF Stands
<1>3. i \in 0..a /\ j \in 0..b
  BY <1>2 DEF StandsAt
<1>4. PICK D \in Int : D = a * j - b * i
  BY <1>1, <1>3
<1>5. /\ s = [x |-> x0 + sx * i, y |-> y0 + sy * j, err |-> a - b + D]
      /\ -Most(a, b) <= 2 * D /\ 2 * D <= Most(a, b)
      /\ b <= a => i = k
      /\ a < b => j = k
  BY <1>2, <1>4 DEF StandsAt
<1>6. PICK err \in Int : err = a - b + D
  BY <1>1
<1>7. PICK t : t = Turn(s, <<x1, y1>>, a, -b, sx, sy)
  OBVIOUS
<1>8. sx * (i + 1) = sx * i + sx /\ sy * (j + 1) = sy * j + sy
  BY <1>1, <1>3
<1>9. CASE b <= a
  <2>1. i < a /\ i = k /\ Most(a, b) = a
    BY <1>1, <1>5, <1>9 DEF Most
  <2>2. s.x # x1
    BY <1>1, <1>3, <1>5, <2>1
  <2>3. /\ 2 * err >= -b
        /\ 2 * err <= a => /\ j + 1 <= b /\ a * (j + 1) - b * (i + 1) = D + a - b
                           /\ -a <= 2 * (D + a - b) /\ 2 * (D + a - b) <= a
        /\ ~(2 * err <= a) => /\ a * j - b * (i + 1) = D - b
                              /\ -a <= 2 * (D - b) /\ 2 * (D - b) <= a
    BY <1>1, <1>3, <1>4, <1>5, <1>6, <1>9, <2>1, WideTurn
  <2>4. CASE 2 * err <= a
    <3>1. t = [x |-> x0 + sx * i + sx, y |-> y0 + sy * j + sy, err |-> err + (-b) + a]
      BY <1>5, <1>6, <1>7, <2>2, <2>3, <2>4 DEF Turn
    <3>2. /\ x0 + sx * i + sx = x0 + sx * (i + 1) /\ y0 + sy * j + sy = y0 + sy * (j + 1)
          /\ err + (-b) + a = a - b + (D + a - b)
      BY <1>1, <1>3, <1>6, <1>8
    <3>3. i + 1 \in 0..a /\ j + 1 \in 0..b
      BY <1>1, <1>3, <2>1, <2>3, <2>4
    <3>4. t = [x |-> x0 + sx * (i + 1), y |-> y0 + sy * (j + 1),
               err |-> a - b + (a * (j + 1) - b * (i + 1))]
      BY <2>3, <2>4, <3>1, <3>2
    <3>5. StandsAt(t, k + 1, i + 1, j + 1, x0, y0, a, b, sx, sy)
      BY <1>1, <1>9, <2>1, <2>3, <2>4, <3>3, <3>4 DEF StandsAt
    <3> QED
      BY <1>7, <3>5 DEF Stands
  <2>5. CASE ~(2 * err <= a)
    <3>1. t = [x |-> x0 + sx * i + sx, y |-> y0 + sy * j, err |-> err + (-b) + 0]
      BY <1>5, <1>6, <1>7, <2>2, <2>3, <2>5 DEF Turn
    <3>2. /\ x0 + sx * i + sx = x0 + sx * (i + 1)
          /\ err + (-b) + 0 = a - b + (D - b)
      BY <1>1, <1>3, <1>6, <1>8
    <3>3. i + 1 \in 0..a
      BY <1>1, <1>3, <2>1
    <3>4. t = [x |-> x0 + sx * (i + 1), y |-> y0 + sy * j,
               err |-> a - b + (a * j - b * (i + 1))]
      BY <2>3, <2>5, <3>1, <3>2
    <3>5. StandsAt(t, k + 1, i + 1, j, x0, y0, a, b, sx, sy)
      BY <1>1, <1>3, <1>9, <2>1, <2>3, <2>5, <3>3, <3>4 DEF StandsAt
    <3> QED
      BY <1>7, <3>5 DEF Stands
  <2> QED
    BY <2>4, <2>5
<1>10. CASE a < b
  <2>1. j < b /\ j = k /\ Most(a, b) = b
    BY <1>1, <1>5, <1>10 DEF Most
  <2>2. s.y # y1
    BY <1>1, <1>3, <1>5, <2>1
  <2>3. /\ 2 * err <= a
        /\ 2 * err >= -b => /\ i + 1 <= a /\ a * (j + 1) - b * (i + 1) = D + a - b
                            /\ -b <= 2 * (D + a - b) /\ 2 * (D + a - b) <= b
        /\ ~(2 * err >= -b) => /\ a * (j + 1) - b * i = D + a
                               /\ -b <= 2 * (D + a) /\ 2 * (D + a) <= b
    BY <1>1, <1>3, <1>4, <1>5, <1>6, <1>10, <2>1, HighTurn
  <2>4. CASE 2 * err >= -b
    <3>1. t = [x |-> x0 + sx * i + sx, y |-> y0 + sy * j + sy, err |-> err + (-b) + a]
      BY <1>5, <1>6, <1>7, <2>2, <2>3, <2>4 DEF Turn
    <3>2. /\ x0 + sx * i + sx = x0 + sx * (i + 1) /\ y0 + sy * j + sy = y0 + sy * (j + 1)
          /\ err + (-b) + a = a - b + (D + a - b)
      BY <1>1, <1>3, <1>6, <1>8
    <3>3. i + 1 \in 0..a /\ j + 1 \in 0..b
      BY <1>1, <1>3, <2>1, <2>3, <2>4
    <3>4. t = [x |-> x0 + sx * (i + 1), y |-> y0 + sy * (j + 1),
               err |-> a - b + (a * (j + 1) - b * (i + 1))]
      BY <2>3, <2>4, <3>1, <3>2
    <3>5. StandsAt(t, k + 1, i + 1, j + 1, x0, y0, a, b, sx, sy)
      BY <1>1, <1>10, <2>1, <2>3, <2>4, <3>3, <3>4 DEF StandsAt
    <3> QED
      BY <1>7, <3>5 DEF Stands
  <2>5. CASE ~(2 * err >= -b)
    <3>1. t = [x |-> x0 + sx * i, y |-> y0 + sy * j + sy, err |-> err + 0 + a]
      BY <1>5, <1>6, <1>7, <2>2, <2>3, <2>5 DEF Turn
    <3>2. /\ y0 + sy * j + sy = y0 + sy * (j + 1)
          /\ err + 0 + a = a - b + (D + a)
      BY <1>1, <1>3, <1>6, <1>8
    <3>3. j + 1 \in 0..b
      BY <1>1, <1>3, <2>1
    <3>4. t = [x |-> x0 + sx * i, y |-> y0 + sy * (j + 1),
               err |-> a - b + (a * (j + 1) - b * i)]
      BY <2>3, <2>5, <3>1, <3>2
    <3>5. StandsAt(t, k + 1, i, j + 1, x0, y0, a, b, sx, sy)
      BY <1>1, <1>3, <1>10, <2>1, <2>3, <2>5, <3>3, <3>4 DEF StandsAt
    <3> QED
      BY <1>7, <3>5 DEF Stands
  <2> QED
    BY <2>4, <2>5
<1> QED
  BY <1>1, <1>9, <1>10

\* After as many turns as the longer axis has steps, the loop is at the end.
LEMMA LastStands ==
  ASSUME NEW x0, NEW y0, NEW x1, NEW y1, NEW a, NEW b, NEW sx, NEW sy,
         LineGoes(x0, y0, x1, y1, a, b, sx, sy),
         NEW s, Stands(s, Most(a, b), x0, y0, a, b, sx, sy)
  PROVE  s.x = x1 /\ s.y = y1
<1>1. /\ x0 \in Int /\ y0 \in Int /\ a \in Nat /\ b \in Nat
      /\ sx \in {1, -1} /\ sy \in {1, -1} /\ x1 = x0 + sx * a /\ y1 = y0 + sy * b
  BY DEF LineGoes
<1>2. PICK i, j : StandsAt(s, Most(a, b), i, j, x0, y0, a, b, sx, sy)
  BY DEF Stands
<1>3. i \in 0..a /\ j \in 0..b
  BY <1>2 DEF StandsAt
<1>4. /\ s.x = x0 + sx * i /\ s.y = y0 + sy * j
      /\ -Most(a, b) <= 2 * (a * j - b * i) /\ 2 * (a * j - b * i) <= Most(a, b)
      /\ b <= a => i = Most(a, b)
      /\ a < b => j = Most(a, b)
  BY <1>2 DEF StandsAt
<1>5. CASE b <= a
  <2>1. i = a /\ Most(a, b) = a
    BY <1>1, <1>4, <1>5 DEF Most
  <2>2. j = b
    <3> SUFFICES ASSUME j < b PROVE FALSE
      BY <1>1, <1>3
    <3>1. a * j - b * a = -(a * (b - j))
      BY <1>1, <1>3
    <3>2. a * (b - j) >= a
      BY <1>1, <1>3
    <3>3. a >= 1
      BY <1>1, <1>3, <1>5
    <3>4. a * (b - j) \in Int
      BY <1>1, <1>3
    <3> QED
      BY <1>1, <1>4, <2>1, <3>1, <3>2, <3>3, <3>4
  <2> QED
    BY <1>1, <1>4, <2>1, <2>2
<1>6. CASE a < b
  <2>1. j = b /\ Most(a, b) = b
    BY <1>1, <1>4, <1>6 DEF Most
  <2>2. i = a
    <3> SUFFICES ASSUME i < a PROVE FALSE
      BY <1>1, <1>3
    <3>1. a * b - b * i = b * (a - i)
      BY <1>1, <1>3
    <3>2. b * (a - i) >= b
      BY <1>1, <1>3
    <3>3. b >= 1
      BY <1>1, <1>6
    <3>4. b * (a - i) \in Int
      BY <1>1, <1>3
    <3> QED
      BY <1>1, <1>4, <2>1, <3>1, <3>2, <3>3, <3>4
  <2> QED
    BY <1>1, <1>4, <2>1, <2>2
<1> QED
  BY <1>1, <1>5, <1>6

\* What the loop of draw_line paints: one pixel per turn of the longer axis, the
\* last at the end.
LEMMA LineIsWalked ==
  ASSUME NEW x0, NEW y0, NEW x1, NEW y1, NEW a, NEW b, NEW sx, NEW sy,
         LineGoes(x0, y0, x1, y1, a, b, sx, sy), NEW M \in Nat, M = Most(a, b),
         NEW h, Walks(h, x0, y0, x1, y1, a, -b, sx, sy)
  PROVE  /\ \A k \in 0..M : Stands(h[k], k, x0, y0, a, b, sx, sy)
         /\ h[0].x = x0 /\ h[0].y = y0 /\ h[M].x = x1 /\ h[M].y = y1
         /\ LinePixels(x0, y0, x1, y1) = {<<h[k].x, h[k].y>> : k \in 0..M}
<1>1. /\ x0 \in Int /\ y0 \in Int /\ a \in Nat /\ b \in Nat /\ sx \in {1, -1} /\ sy \in {1, -1}
  BY DEF LineGoes
<1>2. PICK N \in Nat : N = a - (-b) /\ M <= N
  BY <1>1 DEF Most
<1>3. /\ h[0] = [x |-> x0, y |-> y0, err |-> a + (-b)]
      /\ \A n \in 1..N : h[n] = Turn(h[n - 1], <<x1, y1>>, a, -b, sx, sy)
      /\ LinePixels(x0, y0, x1, y1) = {<<h[k].x, h[k].y>> : k \in 0..N}
  BY <1>2 DEF Walks
<1>4. \A k \in 0..M : Stands(h[k], k, x0, y0, a, b, sx, sy)
  <2> DEFINE T == {k \in 0..M : Stands(h[k], k, x0, y0, a, b, sx, sy)}
  <2>1. 0 \in T
    <3>1. a * 0 = 0 /\ b * 0 = 0 /\ sx * 0 = 0 /\ sy * 0 = 0 /\ a + (-b) = a - b + (0 - 0)
      BY <1>1
    <3>2. h[0] = [x |-> x0 + sx * 0, y |-> y0 + sy * 0, err |-> a - b + (a * 0 - b * 0)]
      BY <1>1, <1>3, <3>1
    <3>3. StandsAt(h[0], 0, 0, 0, x0, y0, a, b, sx, sy)
      BY <1>1, <3>1, <3>2 DEF StandsAt, Most
    <3> QED
      BY <3>3 DEF Stands
  <2>2. ASSUME NEW k \in 0..M, k < M, k \in T PROVE k + 1 \in T
    <3>1. PICK s : s = h[k] /\ Stands(s, k, x0, y0, a, b, sx, sy)
      BY <2>2
    <3>2. k \in Nat /\ k < Most(a, b)
      BY <2>2
    <3>3. Stands(Turn(s, <<x1, y1>>, a, -b, sx, sy), k + 1, x0, y0, a, b, sx, sy)
      BY <3>1, <3>2, TurnStands
    <3>4. k + 1 \in 1..N /\ k + 1 - 1 = k
      BY <1>2, <2>2
    <3>5. h[k + 1] = Turn(s, <<x1, y1>>, a, -b, sx, sy)
      BY <1>3, <3>1, <3>4
    <3> QED
      BY <2>2, <3>3, <3>5
  <2> HIDE DEF T
  <2>3. 0..M \subseteq T
    BY <2>1, <2>2, UpTo
  <2> QED
    BY <2>3 DEF T
<1>5. h[M].x = x1 /\ h[M].y = y1
  <2>1. Stands(h[M], Most(a, b), x0, y0, a, b, sx, sy)
    BY <1>4
  <2> QED
    BY <2>1, LastStands
<1>6. \A k \in 0..N : k >= M => h[k] = h[M]
  <2> DEFINE T == {k \in 0..N : k >= M => h[k] = h[M]}
  <2>1. 0 \in T
    OBVIOUS
  <2>2. ASSUME NEW k \in 0..N, k < N, k \in T PROVE k + 1 \in T
    <3>1. CASE k + 1 <= M
      BY <2>2, <3>1
    <3>2. CASE k >= M
      <4>1. h[k] = h[M]
        BY <2>2, <3>2
      <4>2. k + 1 \in 1..N /\ k + 1 - 1 = k
        BY <2>2
      <4>3. h[k + 1] = Turn(h[M], <<x1, y1>>, a, -b, sx, sy)
        BY <1>3, <4>1, <4>2
      <4>4. h[k + 1] = h[M]
        BY <1>5, <4>3 DEF Turn
      <4> QED
        BY <2>2, <4>4
    <3> QED
      BY <3>1, <3>2
  <2> HIDE DEF T
  <2>3. 0..N \subseteq T
    BY <2>1, <2>2, UpTo
  <2> QED
    BY <2>3 DEF T
<1>7. {<<h[k].x, h[k].y>> : k \in 0..N} = {<<h[k].x, h[k].y>> : k \in 0..M}
  <2>1. 0..M \subseteq 0..N
    BY <1>2
  <2>2. \A k \in 0..N : \E m \in 0..M : h[k] = h[m]
    BY <1>6
  <2> QED
    BY <2>1, <2>2
<1> QED
  BY <1>3, <1>4, <1>5, <1>7

\* Every pixel of a line, as steps along its axes.
LEMMA LineParts ==
  ASSUME NEW x0, NEW y0, NEW x1, NEW y1, NEW a, NEW b, NEW sx, NEW sy,
         LineGoes(x0, y0, x1, y1, a, b, sx, sy), NEW M \in Nat, M = Most(a, b),
         NEW h, Walks(h, x0, y0, x1, y1, a, -b, sx, sy), NEW k \in 0..M
  PROVE  \E i \in 0..a, j \in 0..b :
            /\ h[k].x = x0 + sx * i /\ h[k].y = y0 + sy * j
            /\ -M <= 2 * (a * j - b * i) /\ 2 * (a * j - b * i) <= M
            /\ b <= a => i = k
            /\ a < b => j = k
<1>1. Stands(h[k], k, x0, y0, a, b, sx, sy)
  BY LineIsWalked
<1> QED
  BY <1>1 DEF Stands, StandsAt

\* The end points of an order make a line that goes somewhere.
LEMMA LineExists ==
  ASSUME NEW x0 \in Int, NEW y0 \in Int, NEW x1 \in Int, NEW y1 \in Int
  PROVE  \E a, b, sx, sy, h :
            /\ a = Abs(x1 - x0) /\ b = Abs(y1 - y0)
            /\ LineGoes(x0, y0, x1, y1, a, b, sx, sy)
            /\ Walks(h, x0, y0, x1, y1, a, -b, sx, sy)
<1>1. Abs(x1 - x0) \in Nat /\ Abs(y1 - y0) \in Nat
  BY DEF Abs
<1>2. PICK a \in Nat, b \in Nat : a = Abs(x1 - x0) /\ b = Abs(y1 - y0)
  BY <1>1
<1>3. PICK sx \in {1, -1} : sx = IF x0 < x1 THEN 1 ELSE -1
  OBVIOUS
<1>4. PICK sy \in {1, -1} : sy = IF y0 < y1 THEN 1 ELSE -1
  OBVIOUS
<1>5. x1 = x0 + sx * a
  BY <1>2, <1>3 DEF Abs
<1>6. y1 = y0 + sy * b
  BY <1>2, <1>4 DEF Abs
<1>7. LineGoes(x0, y0, x1, y1, a, b, sx, sy)
  BY <1>5, <1>6 DEF LineGoes
<1>8. PICK dy : dy = -b /\ dy = -Abs(y1 - y0)
  BY <1>2
<1>9. PICK h : Walks(h, x0, y0, x1, y1, a, dy, sx, sy)
  BY <1>2, <1>3, <1>4, <1>8, LineWalks
<1> QED
  BY <1>2, <1>7, <1>8, <1>9

\* The pixels ps lie within the box of a line's ends.
InBox(ps, x0, y0, x1, y1) ==
    \A p \in ps : /\ p \in Int \X Int
                  /\ Least(x0, x1) <= p[1] /\ p[1] <= Most(x0, x1)
                  /\ Least(y0, y1) <= p[2] /\ p[2] <= Most(y0, y1)

\* What LineIsStraight says of one line.
Straight(x0, y0, x1, y1) ==
    LET ps == LinePixels(x0, y0, x1, y1)
        M == Most(Abs(x1 - x0), Abs(y1 - y0))
    IN  /\ <<x0, y0>> \in ps /\ <<x1, y1>> \in ps
        /\ Cardinality(ps) = M + 1
        /\ \A p \in ps : 2 * Abs((x1 - x0) * (p[2] - y0) - (y1 - y0) * (p[1] - x0)) <= M

\* A line stays within its box, meets both its ends, takes one pixel per step of
\* its longer axis, and none further than half a pixel from the ideal.
LEMMA LineShape ==
  ASSUME NEW x0 \in Int, NEW y0 \in Int, NEW x1 \in Int, NEW y1 \in Int
  PROVE  InBox(LinePixels(x0, y0, x1, y1), x0, y0, x1, y1) /\ Straight(x0, y0, x1, y1)
<1>1. PICK ps, M : ps = LinePixels(x0, y0, x1, y1) /\ M = Most(Abs(x1 - x0), Abs(y1 - y0))
  OBVIOUS
<1>2. PICK a, b, sx, sy, h : /\ a = Abs(x1 - x0) /\ b = Abs(y1 - y0)
                             /\ LineGoes(x0, y0, x1, y1, a, b, sx, sy)
                             /\ Walks(h, x0, y0, x1, y1, a, -b, sx, sy)
  BY LineExists
<1>3. /\ a \in Nat /\ b \in Nat /\ sx \in {1, -1} /\ sy \in {1, -1}
      /\ x1 = x0 + sx * a /\ y1 = y0 + sy * b
  BY <1>2 DEF LineGoes
<1>4. M \in Nat /\ M = Most(a, b)
  BY <1>2, <1>3, <1>1 DEF Most
<1>5. ps = {<<h[k].x, h[k].y>> : k \in 0..M}
  BY <1>2, <1>4, <1>1, LineIsWalked
<1>6. h[0].x = x0 /\ h[0].y = y0 /\ h[M].x = x1 /\ h[M].y = y1
  BY <1>2, <1>4, LineIsWalked
<1>7. ASSUME NEW k \in 0..M
      PROVE  \E i \in 0..a, j \in 0..b :
                /\ h[k].x = x0 + sx * i /\ h[k].y = y0 + sy * j
                /\ -M <= 2 * (a * j - b * i) /\ 2 * (a * j - b * i) <= M
                /\ b <= a => i = k
                /\ a < b => j = k
  BY <1>2, <1>4, LineParts
<1>8. <<x0, y0>> \in ps /\ <<x1, y1>> \in ps
  BY <1>4, <1>5, <1>6
<1>9. ASSUME NEW p \in ps
      PROVE  /\ p \in Int \X Int
             /\ Least(x0, x1) <= p[1] /\ p[1] <= Most(x0, x1)
             /\ Least(y0, y1) <= p[2] /\ p[2] <= Most(y0, y1)
             /\ 2 * Abs((x1 - x0) * (p[2] - y0) - (y1 - y0) * (p[1] - x0)) <= M
  <2>1. PICK k \in 0..M : p = <<h[k].x, h[k].y>>
    BY <1>5
  <2>2. PICK i \in 0..a, j \in 0..b :
              /\ h[k].x = x0 + sx * i /\ h[k].y = y0 + sy * j
              /\ -M <= 2 * (a * j - b * i) /\ 2 * (a * j - b * i) <= M
    BY <1>7
  <2>3. PICK x \in Int, y \in Int : p = <<x, y>> /\ x = x0 + sx * i /\ y = y0 + sy * j
    BY <1>3, <2>1, <2>2
  <2>4. Least(x0, x1) <= x /\ x <= Most(x0, x1)
    BY <1>3, <2>3 DEF Least, Most
  <2>5. Least(y0, y1) <= y /\ y <= Most(y0, y1)
    BY <1>3, <2>3 DEF Least, Most
  <2>6. PICK D \in Int : D = a * j - b * i /\ -M <= 2 * D /\ 2 * D <= M
    BY <1>3, <2>2
  <2>7. PICK E \in Int : E = (x1 - x0) * (y - y0) - (y1 - y0) * (x - x0)
    BY <1>3
  <2>8. E = D \/ E = -D
    <3>1. x1 - x0 = sx * a /\ y1 - y0 = sy * b /\ x - x0 = sx * i /\ y - y0 = sy * j
      BY <1>3, <2>3
    <3>2. CASE sx = 1 /\ sy = 1
      BY <1>3, <2>6, <2>7, <3>1, <3>2
    <3>3. CASE sx = 1 /\ sy = -1
      BY <1>3, <2>6, <2>7, <3>1, <3>3
    <3>4. CASE sx = -1 /\ sy = 1
      BY <1>3, <2>6, <2>7, <3>1, <3>4
    <3>5. CASE sx = -1 /\ sy = -1
      BY <1>3, <2>6, <2>7, <3>1, <3>5
    <3> QED
      BY <1>3, <3>2, <3>3, <3>4, <3>5
  <2>9. 2 * Abs(E) <= M
    BY <1>4, <2>6, <2>8 DEF Abs
  <2> QED
    BY <2>3, <2>4, <2>5, <2>7, <2>9
<1>10. Cardinality(ps) = M + 1
  <2> DEFINE f == [k \in 0..M |-> <<h[k].x, h[k].y>>]
  <2>1. f \in [0..M -> ps] /\ \A t \in ps : \E k \in 0..M : f[k] = t
    BY <1>5
  <2>2. ASSUME NEW k \in 0..M, NEW m \in 0..M, f[k] = f[m] PROVE k = m
    <3>1. h[k].x = h[m].x /\ h[k].y = h[m].y
      BY <2>2
    <3>2. PICK i \in 0..a, j \in 0..b : /\ h[k].x = x0 + sx * i /\ h[k].y = y0 + sy * j
                                        /\ b <= a => i = k
                                        /\ a < b => j = k
      BY <1>7
    <3>3. PICK u \in 0..a, v \in 0..b : /\ h[m].x = x0 + sx * u /\ h[m].y = y0 + sy * v
                                        /\ b <= a => u = m
                                        /\ a < b => v = m
      BY <1>7
    <3>4. x0 + sx * i = x0 + sx * u /\ y0 + sy * j = y0 + sy * v
      BY <3>1, <3>2, <3>3
    <3>5. i \in Int /\ j \in Int /\ u \in Int /\ v \in Int
      BY <1>3
    <3>6. i = u
      BY <1>3, <3>4, <3>5
    <3>7. j = v
      BY <1>3, <3>4, <3>5
    <3> QED
      BY <1>3, <3>2, <3>3, <3>6, <3>7
  <2>3. f \in Bijection(0..M, ps)
    <3>1. DOMAIN f = 0..M
      OBVIOUS
    <3> HIDE DEF f
    <3> QED
      BY <2>1, <2>2, <3>1 DEF Bijection, Injection, Surjection, IsInjective
  <2>4. ExistsBijection(0..M, ps)
    BY <2>3 DEF ExistsBijection
  <2>5. 0 \in Int /\ M \in Int
    BY <1>4
  <2>6. IsFiniteSet(0..M) /\ Cardinality(0..M) = M + 1
    BY <1>4, <2>5, FS_Interval
  <2> QED
    BY <2>4, <2>6, FS_Bijection
<1>11. InBox(ps, x0, y0, x1, y1)
  BY <1>9 DEF InBox
<1>12. Straight(x0, y0, x1, y1)
  BY <1>8, <1>9, <1>10, <1>1 DEF Straight
<1> QED
  BY <1>1, <1>11, <1>12

\* draw_line paints what is visible of the line, and reports its box.
LEMMA DrawLinePaints ==
  ASSUME NEW c, NEW x0 \in Int, NEW y0 \in Int, NEW x1 \in Int, NEW y1 \in Int,
         NEW b \in Clips, NEW colour
  PROVE  /\ DrawLine(c, x0, y0, x1, y1, b, colour).canvas =
              [p \in Canvas |->
                 IF p \in {q \in LinePixels(x0, y0, x1, y1) : q \in Visible(Rect(q[1], q[2], 1, 1), b)}
                 THEN colour ELSE c[p]]
         /\ Confined(DrawLine(c, x0, y0, x1, y1, b, colour), c)
<1>1. PICK ps : ps = LinePixels(x0, y0, x1, y1)
  OBVIOUS
<1>2. \A p \in ps : /\ p \in Int \X Int
                    /\ Least(x0, x1) <= p[1] /\ p[1] <= Most(x0, x1)
                    /\ Least(y0, y1) <= p[2] /\ p[2] <= Most(y0, y1)
  <2>1. InBox(ps, x0, y0, x1, y1)
    BY <1>1, LineShape
  <2> QED
    BY <2>1 DEF InBox
<1>3. ASSUME NEW p \in ps
      PROVE  ~IsEmpty(Clip(Rect(p[1], p[2], 1, 1), b)) <=> p \in Visible(Rect(p[1], p[2], 1, 1), b)
  <2>1. PICK x \in Int, y \in Int : p = <<x, y>> /\ p[1] = x /\ p[2] = y
    BY <1>2
  <2>2. PICK one : one = Rect(x, y, 1, 1)
    OBVIOUS
  <2>3. one \in Rects /\ one.x = x /\ one.y = y /\ one.w = 1 /\ one.h = 1
    BY <2>2 DEF Rect, Rects
  <2>4. PICK r : r = Clip(one, b)
    OBVIOUS
  <2>5. r \in Rects /\ Pixels(r) = Visible(one, b) /\ Visible(one, b) \subseteq Canvas
    BY <2>3, <2>4, ClipIsVisible
  <2>6. CASE IsEmpty(r)
    BY <2>1, <2>2, <2>4, <2>5, <2>6, EmptyPixels
  <2>7. CASE ~IsEmpty(r)
    <3>1. r.x \in Int /\ r.y \in Int /\ r.w \in Int /\ r.h \in Int /\ r.w > 0 /\ r.h > 0
      BY <2>5, <2>7 DEF Rects, IsEmpty
    <3>2. <<r.x, r.y>> \in Visible(one, b)
      BY <2>5, <3>1, InPixels
    <3>3. r.x = x /\ r.y = y
      BY <2>3, <3>1, <3>2 DEF Visible, Right, Bottom
    <3> QED
      BY <2>1, <2>2, <2>4, <2>7, <3>2, <3>3
  <2> QED
    BY <2>6, <2>7
<1> DEFINE vs == {q \in ps : q \in Visible(Rect(q[1], q[2], 1, 1), b)}
           d == [p \in Canvas |-> IF p \in vs THEN colour ELSE c[p]]
<1>4. PICK r : r = FromInclusive(Least(x0, x1), Least(y0, y1), Most(x0, x1), Most(y0, y1))
  OBVIOUS
<1>5. {p \in ps : ~IsEmpty(Clip(Rect(p[1], p[2], 1, 1), b))} = vs
  BY <1>3
<1>6. DrawLine(c, x0, y0, x1, y1, b, colour) = Result(d, r)
  BY <1>1, <1>4, <1>5 DEF DrawLine, Paint
<1>7. /\ r.x = Least(x0, x1) /\ r.y = Least(y0, y1)
      /\ r.w = Most(x0, x1) - Least(x0, x1) + 1 /\ r.h = Most(y0, y1) - Least(y0, y1) + 1
      /\ r \in Rects
  BY <1>4 DEF FromInclusive, Rect, Rects, Least, Most
<1>8. ps \subseteq Pixels(r)
  <2>1. ASSUME NEW p \in ps PROVE p \in Pixels(r)
    <3>1. PICK x \in Int, y \in Int : p = <<x, y>> /\ p[1] = x /\ p[2] = y
      BY <1>2
    <3>2. /\ r.x <= x /\ x < r.x + r.w /\ r.y <= y /\ y < r.y + r.h
      BY <1>2, <1>7, <3>1 DEF Least, Most
    <3> QED
      BY <1>7, <3>1, <3>2, InPixels
  <2> QED
    BY <2>1
<1>9. \A p \in Canvas : p \notin Pixels(r) => d[p] = c[p]
  BY <1>8
<1>10. IsPicture(d)
  BY DEF IsPicture
<1>11. Confined(Result(d, r), c)
  <2> HIDE DEF d
  <2> QED
    BY <1>7, <1>9, <1>10, ResultIs DEF Confined
<1>12. Result(d, r).canvas = d
  BY ResultIs
<1> QED
  BY <1>1, <1>6, <1>11, <1>12

-----------------------------------------------------------------------------
(* Updates *)

\* The inductive invariant: the canvas is a picture, dirty a rectangle, the line
\* one whose ends the server named; orders leave what they are meant to, unless
\* copies onto their own source are allowed; dirty covers what changed.
CanvasInv ==
    /\ IsPicture(canvas)
    /\ dirty \in Rects
    /\ line = <<>> \/ \E x0, y0, x1, y1 \in Int : line = <<x0, y0, x1, y1>>
    /\ ~Overlaps => RendersAsMeant
    /\ DirtyCovers

\* process_orders adds an order's rectangle to the update's.
LEMMA DrawKeeps ==
  ASSUME CanvasInv, NEW result, Confined(result, canvas), NEW intended, NEW ends,
         ~Overlaps => result.canvas = intended,
         ends = <<>> \/ \E x0, y0, x1, y1 \in Int : ends = <<x0, y0, x1, y1>>,
         Draw(result, intended, ends)
  PROVE  CanvasInv'
<1>1. /\ canvas' = result.canvas /\ picture' = intended /\ line' = ends
      /\ dirty' = IF IsEmpty(result.dirty) THEN dirty ELSE Union(dirty, result.dirty)
      /\ before' = canvas /\ seed' = dirty
  BY DEF Draw
<1>2. /\ IsPicture(result.canvas) /\ result.dirty \in Rects
      /\ \A p \in Canvas : p \notin Pixels(result.dirty) => result.canvas[p] = canvas[p]
  BY DEF Confined
<1>3. dirty \in Rects
  BY DEF CanvasInv
<1>4. /\ dirty' \in Rects /\ Pixels(dirty) \subseteq Pixels(dirty')
      /\ Pixels(result.dirty) \subseteq Pixels(dirty')
  <2>1. CASE IsEmpty(result.dirty)
    BY <1>1, <1>2, <1>3, <2>1, EmptyPixels
  <2>2. CASE ~IsEmpty(result.dirty)
    BY <1>1, <1>2, <1>3, <2>2, UnionCovers
  <2> QED
    BY <2>1, <2>2
<1>5. {p \in Canvas : canvas'[p] # before'[p]} \subseteq Pixels(dirty')
  BY <1>1, <1>2, <1>4
<1>6. Pixels(seed') \subseteq Pixels(dirty')
  BY <1>1, <1>4
<1>7. DirtyCovers'
  BY <1>5, <1>6 DEF DirtyCovers, Canvas, Pixels, Right, Bottom
<1>8. IsPicture(canvas')
  BY <1>1, <1>2
<1>9. (~Overlaps => RendersAsMeant)'
  BY <1>1 DEF RendersAsMeant
<1>10. (line = <<>> \/ \E x0, y0, x1, y1 \in Int : line = <<x0, y0, x1, y1>>)'
  BY <1>1
<1> QED
  BY <1>4, <1>7, <1>8, <1>9, <1>10 DEF CanvasInv, IsPicture, Canvas

\* Every order keeps the invariant.
LEMMA OrderKeeps ==
  ASSUME CanvasInv, NEW dst \in Rects, NEW b \in Clips
  PROVE  /\ DrawOpaqueRect(dst, b) => CanvasInv'
         /\ \A rop \in Rops : DrawDstBlt(dst, b, rop) => CanvasInv'
         /\ \A rop \in Rops \ {"invert"} : DrawPatBlt(dst, b, rop) => CanvasInv'
         /\ \A sx, sy \in Int : DrawMemBlt(dst, b, sx, sy) => CanvasInv'
<1>1. IsPicture(canvas)
  BY DEF CanvasInv
<1>2. ASSUME DrawOpaqueRect(dst, b) PROVE CanvasInv'
  <2>1. PICK r, m : r = FillRect(canvas, dst, b, Fore) /\ m = Over(Visible(dst, b), LAMBDA p : Fore)
    OBVIOUS
  <2>2. Draw(r, m, <<>>)
    BY <1>2, <2>1 DEF DrawOpaqueRect
  <2>3. Confined(r, canvas) /\ r.canvas = m
    BY <2>1, FillRectPaints DEF Over
  <2> QED
    BY <2>2, <2>3, DrawKeeps
<1>3. ASSUME NEW rop \in Rops, DrawDstBlt(dst, b, rop) PROVE CanvasInv'
  <2>1. PICK r : r = DstRop(canvas, dst, b, rop)
    OBVIOUS
  <2>2. PICK m : m = Over(IF rop = "other" THEN {} ELSE Visible(dst, b),
                          LAMBDA p : IF rop = "invert" THEN <<"inverse", canvas[p]>> ELSE <<rop>>)
    OBVIOUS
  <2>3. Draw(r, m, <<>>)
    BY <1>3, <2>1, <2>2 DEF DrawDstBlt
  <2>4. m = [p \in Canvas |->
               IF p \in (IF rop = "other" THEN {} ELSE Visible(dst, b))
               THEN IF rop = "invert" THEN <<"inverse", canvas[p]>> ELSE <<rop>> ELSE canvas[p]]
    BY <2>2 DEF Over
  <2>5. Confined(r, canvas) /\ r.canvas = m
    BY <1>1, <2>1, <2>4, DstRopPaints
  <2> QED
    BY <2>3, <2>5, DrawKeeps
<1>4. ASSUME NEW rop \in Rops \ {"invert"}, DrawPatBlt(dst, b, rop) PROVE CanvasInv'
  <2>1. PICK r : r = FillPattern(canvas, dst, b, rop, Fore)
    OBVIOUS
  <2>2. PICK m : m = Over(Visible(dst, b), LAMBDA p : IF rop = "other" THEN Fore ELSE <<rop>>)
    OBVIOUS
  <2>3. Draw(r, m, <<>>)
    BY <1>4, <2>1, <2>2 DEF DrawPatBlt
  <2>4. m = [p \in Canvas |-> IF p \in Visible(dst, b)
                              THEN IF rop = "other" THEN Fore ELSE <<rop>> ELSE canvas[p]]
    BY <2>2 DEF Over
  <2>5. Confined(r, canvas) /\ r.canvas = m
    BY <2>1, <2>4, FillPatternPaints
  <2> QED
    BY <2>3, <2>5, DrawKeeps
<1>5. ASSUME NEW sx \in Int, NEW sy \in Int, DrawMemBlt(dst, b, sx, sy) PROVE CanvasInv'
  <2>1. PICK r : r = BlitBitmap(canvas, dst, b, TilePicture, sx, sy)
    OBVIOUS
  <2>2. PICK m : m = BlitPicture(canvas, dst, b, TilePicture, sx, sy)
    OBVIOUS
  <2>3. Draw(r, m, <<>>)
    BY <1>5, <2>1, <2>2, TileDecodes DEF DrawMemBlt, Over, BlitPicture
  <2>4. Confined(r, canvas) /\ r.canvas = m
    BY <2>1, <2>2, BlitBitmapPaints
  <2> QED
    BY <2>3, <2>4, DrawKeeps
<1> QED
  BY <1>2, <1>3, <1>4, <1>5

\* So does a copy; what it leaves is only claimed where it cannot read its own
\* output.
LEMMA ScrBltKeeps ==
  ASSUME CanvasInv, NEW dst \in Rects, NEW b \in Clips, NEW sx \in Int, NEW sy \in Int,
         DrawScrBlt(dst, b, sx, sy)
  PROVE  CanvasInv'
<1>1. IsPicture(canvas)
  BY DEF CanvasInv
<1>2. PICK dx, dy : dx = sx - dst.x /\ dy = sy - dst.y
  OBVIOUS
<1>3. PICK V : V = Visible(dst, b)
  OBVIOUS
<1>4. V \subseteq Canvas
  BY <1>3 DEF Visible
<1>5. \A p \in Canvas : <<p[1] + sx - dst.x, p[2] + sy - dst.y>> = From(dx, dy)[p]
  <2>1. dst.x \in Int /\ dst.y \in Int
    BY DEF Rects
  <2>2. \A p \in Canvas : p[1] \in Int /\ p[2] \in Int
    BY SizeAssumption DEF Canvas
  <2> QED
    BY <1>2, <2>1, <2>2 DEF From
<1>6. PICK ps : ps = {p \in V : <<p[1] + sx - dst.x, p[2] + sy - dst.y>> \in Canvas}
  OBVIOUS
<1>7. ps = Copied(V, dx, dy)
  BY <1>4, <1>5, <1>6 DEF Copied
<1>8. PICK r, m : /\ r = CopyRect(canvas, dst, b, sx, sy)
                  /\ m = [p \in Canvas |-> IF p \in ps THEN canvas[<<p[1] + sx - dst.x, p[2] + sy - dst.y>>]
                                           ELSE canvas[p]]
  OBVIOUS
<1>9. Draw(r, m, <<>>)
  BY <1>3, <1>6, <1>8 DEF DrawScrBlt, Over
<1>10. ~Overlaps => ps \cap {<<p[1] + sx - dst.x, p[2] + sy - dst.y>> : p \in ps} = {}
  BY <1>3, <1>6 DEF DrawScrBlt
<1>11. ~Overlaps => Apart(V, dx, dy)
  <2>1. ASSUME ~Overlaps, NEW p \in ps, NEW q \in ps PROVE From(dx, dy)[p] # q
    <3>1. <<p[1] + sx - dst.x, p[2] + sy - dst.y>> # q
      BY <1>10, <2>1
    <3> QED
      BY <1>4, <1>5, <1>6, <3>1
  <2> QED
    BY <1>7, <2>1 DEF Apart
<1>12. m = CopyPicture(canvas, V, dx, dy)
  BY <1>5, <1>7, <1>8 DEF CopyPicture
<1>13. Confined(r, canvas) /\ (Apart(V, dx, dy) => r.canvas = m)
  <2>1. r = CopyRect(canvas, dst, b, sx, sy)
    BY <1>8
  <2> QED
    BY <1>1, <1>2, <1>3, <1>12, <2>1, CopyRectCopies
<1> QED
  BY <1>9, <1>11, <1>13, DrawKeeps

LEMMA TextKeeps ==
  ASSUME CanvasInv, NEW box \in Rects, NEW b \in Clips, NEW x \in Int, NEW y \in Int,
         DrawText(box, b, x, y)
  PROVE  CanvasInv'
<1>1. IsPicture(canvas)
  BY DEF CanvasInv
<1>2. PICK r, m : /\ r = DrawGlyph(canvas, box, x, y, GlyphWidth, GlyphHeight, GlyphData, b, Back, Fore)
                  /\ m = TextPicture(canvas, box, b, x, y)
  OBVIOUS
<1>3. Draw(r, m, <<>>)
  BY <1>2 DEF DrawText, Over, TextPicture, TextBack, TextInk
<1>4. Confined(r, canvas) /\ r.canvas = m
  BY <1>1, <1>2, DrawGlyphPaints
<1> QED
  BY <1>3, <1>4, DrawKeeps

LEMMA LineKeeps ==
  ASSUME CanvasInv, NEW x0 \in Int, NEW y0 \in Int, NEW x1 \in Int, NEW y1 \in Int, NEW b \in Clips,
         DrawLineTo(x0, y0, x1, y1, b)
  PROVE  CanvasInv'
<1>1. PICK r, m : /\ r = DrawLine(canvas, x0, y0, x1, y1, b, Fore)
                  /\ m = [p \in Canvas |->
                            IF p \in {q \in LinePixels(x0, y0, x1, y1) :
                                        q \in Visible(Rect(q[1], q[2], 1, 1), b)}
                            THEN Fore ELSE canvas[p]]
  OBVIOUS
<1>2. Draw(r, m, <<x0, y0, x1, y1>>)
  BY <1>1 DEF DrawLineTo, Over
<1>3. Confined(r, canvas) /\ r.canvas = m
  BY <1>1, DrawLinePaints
<1> QED
  BY <1>2, <1>3, DrawKeeps

\* CanvasInv is an inductive invariant of the renderer.
THEOREM CanvasInvariance == CanvasSpec => []CanvasInv
<1>1. CanvasInit => CanvasInv
  <2> SUFFICES ASSUME CanvasInit PROVE CanvasInv
    OBVIOUS
  <2>1. /\ canvas = [p \in Canvas |-> <<"pixel", p[1], p[2]>>] /\ dirty \in Rects
        /\ before = canvas /\ seed = dirty /\ picture = canvas /\ line = <<>>
    BY RectsAssumption DEF CanvasInit
  <2>2. IsPicture(canvas)
    BY <2>1 DEF IsPicture
  <2> QED
    BY <2>1, <2>2 DEF CanvasInv, RendersAsMeant, DirtyCovers
<1>2. CanvasInv /\ [CanvasNext]_canvasVars => CanvasInv'
  <2> SUFFICES ASSUME CanvasInv, [CanvasNext]_canvasVars PROVE CanvasInv'
    OBVIOUS
  <2>1. CASE ProcessOrder
    <3>1. PICK b \in Clips, x \in Coords, y \in Coords, w \in Coords, h \in Coords :
            LET dst == Rect(x, y, w, h)
            IN  \/ DrawOpaqueRect(dst, b)
                \/ \E rop \in Rops : DrawDstBlt(dst, b, rop)
                \/ \E rop \in Rops \ {"invert"} : DrawPatBlt(dst, b, rop)
                \/ \E sx, sy \in Sources :
                      \/ DrawScrBlt(dst, b, sx, sy)
                      \/ DrawMemBlt(dst, b, sx, sy)
                      \/ DrawText(dst, b, sx, sy)
                \/ DrawLineTo(x, y, w, h, b)
      BY <2>1 DEF ProcessOrder
    <3>2. PICK dst : dst = Rect(x, y, w, h)
      OBVIOUS
    <3>3. x \in Int /\ y \in Int /\ w \in Int /\ h \in Int /\ Sources \subseteq Int
      BY CoordsAssumption
    <3>4. dst \in Rects
      BY <3>2, <3>3 DEF Rect, Rects
    <3>5. CASE DrawOpaqueRect(dst, b)
      BY <3>4, <3>5, OrderKeeps
    <3>6. CASE \E rop \in Rops : DrawDstBlt(dst, b, rop)
      BY <3>4, <3>6, OrderKeeps
    <3>7. CASE \E rop \in Rops \ {"invert"} : DrawPatBlt(dst, b, rop)
      BY <3>4, <3>7, OrderKeeps
    <3>8. ASSUME NEW sx \in Sources, NEW sy \in Sources, DrawScrBlt(dst, b, sx, sy) PROVE CanvasInv'
      BY <3>3, <3>4, <3>8, ScrBltKeeps
    <3>9. ASSUME NEW sx \in Sources, NEW sy \in Sources, DrawMemBlt(dst, b, sx, sy) PROVE CanvasInv'
      BY <3>3, <3>4, <3>9, OrderKeeps
    <3>10. ASSUME NEW sx \in Sources, NEW sy \in Sources, DrawText(dst, b, sx, sy) PROVE CanvasInv'
      BY <3>3, <3>4, <3>10, TextKeeps
    <3>11. CASE DrawLineTo(x, y, w, h, b)
      BY <3>3, <3>11, LineKeeps
    <3> QED
      BY <3>1, <3>2, <3>5, <3>6, <3>7, <3>8, <3>9, <3>10, <3>11
  <2>2. CASE Done
    BY <2>2 DEF Done, canvasVars, CanvasInv, RendersAsMeant, DirtyCovers
  <2>3. CASE UNCHANGED canvasVars
    BY <2>3 DEF canvasVars, CanvasInv, RendersAsMeant, DirtyCovers
  <2> QED
    BY <2>1, <2>2, <2>3 DEF CanvasNext
<1> QED
  BY <1>1, <1>2, PTL DEF CanvasSpec

\* Every order leaves the picture it is meant to leave, whatever its rectangle,
\* clip, source and raster operation: the loops of canvas.rs, bitmap.rs and
\* primary.rs do what the order says, as long as no copy reads its own output.
THEOREM OrdersRender == CanvasSpec => [](~Overlaps => RendersAsMeant)
<1>1. CanvasInv => (~Overlaps => RendersAsMeant)
  BY DEF CanvasInv
<1> QED
  BY <1>1, CanvasInvariance, PTL

\* What the viewer is told to redraw covers every pixel changed since, with
\* copies onto their own source too.
THEOREM DirtyIsEnough == CanvasSpec => []DirtyCovers
<1>1. CanvasInv => DirtyCovers
  BY DEF CanvasInv
<1> QED
  BY <1>1, CanvasInvariance, PTL

\* Lines of any length and direction meet both ends, take one pixel per step of
\* their longer axis and stay within half a pixel of the ideal (draw_line).
THEOREM LinesAreStraight == CanvasSpec => []LineIsStraight
<1>1. CanvasInv => LineIsStraight
  <2> SUFFICES ASSUME CanvasInv, line # <<>> PROVE LineIsStraight
    BY DEF LineIsStraight
  <2>1. PICK x0 \in Int, y0 \in Int, x1 \in Int, y1 \in Int : line = <<x0, y0, x1, y1>>
    BY DEF CanvasInv
  <2>2. line[1] = x0 /\ line[2] = y0 /\ line[3] = x1 /\ line[4] = y1
    BY <2>1
  <2>3. Straight(x0, y0, x1, y1)
    BY LineShape
  <2> QED
    BY <2>2, <2>3 DEF LineIsStraight, Straight
<1> QED
  BY <1>1, CanvasInvariance, PTL

=============================================================================
