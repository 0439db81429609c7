--------------------------- MODULE MCOrderDecoder ---------------------------
(* Instance of OrderDecoder for TLC. *)
EXTENDS OrderDecoder

MCTouched == [MemBlt |-> {2, 9}, GlyphIndex |-> {19}]
=============================================================================
