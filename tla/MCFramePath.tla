----------------------------- MODULE MCFramePath -----------------------------
(* FramePath on desktops of two by two and three by one pixels. *)
EXTENDS FramePath

SmallSizes == {<<2, 2>>, <<3, 1>>}
Both == {"orders", "bitmaps"}

=============================================================================
