------------------------- MODULE MCBulkDecompressor -------------------------
(* Instance of BulkDecompressor for TLC: an 8-byte window, 3-bit bytes. *)
EXTENDS BulkDecompressor

MCClasses == <<[bits |-> 2, base |-> 6], [bits |-> 2, base |-> 2], [bits |-> 1, base |-> 0]>>
=============================================================================
