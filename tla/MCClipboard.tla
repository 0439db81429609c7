----------------------------- MODULE MCClipboard -----------------------------
(* Clipboard with one text on each side and two files. *)
EXTENDS Clipboard

CONSTANTS f1, f2

TwoFiles == {f1, f2}
BothFiles == {<<f1, f2>>}

=============================================================================
