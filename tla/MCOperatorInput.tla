--------------------------- MODULE MCOperatorInput ---------------------------
(* Keys that make chords, one text key, a clipboard with both shift states. *)
EXTENDS OperatorInput

MCScancode == [a |-> [key |-> "ka", shift |-> FALSE], A |-> [key |-> "ka", shift |-> TRUE]]
MCClip == <<"A", "newline", "a">>
=============================================================================
