----------------------------- MODULE MCBringUp -----------------------------
(* Bring-up of one session, two share ids, two sizes, one reactivation more. *)
EXTENDS BringUp

MCExchanges == {[legs |-> 2, tail |-> FALSE], [legs |-> 3, tail |-> TRUE]}
Off == [arb |-> FALSE, channels |-> FALSE, takeover |-> FALSE, reply |-> FALSE,
        event |-> FALSE, persist |-> FALSE, wlc |-> FALSE, once |-> FALSE,
        refresh |-> FALSE, cursor |-> FALSE]
Wlc == [Off EXCEPT !.arb = TRUE, !.takeover = TRUE, !.event = TRUE, !.wlc = TRUE,
                   !.refresh = TRUE, !.cursor = TRUE]
MCEnvs == {Wlc,
           [Wlc EXCEPT !.reply = TRUE, !.persist = TRUE, !.cursor = FALSE, !.refresh = FALSE],
           [Off EXCEPT !.channels = TRUE, !.refresh = TRUE]}
MCSizes == {[w |-> 2, h |-> 2], [w |-> 4, h |-> 2]}
General == [type |-> "general", len |-> 100]
Rev2(len) == [type |-> "rev2", len |-> len]
\* Whole, short, and short in each way the padding does not get right: two of them,
\* an MCS length of one byte, one that outgrows its two bytes.
MCCapLists == {<<Rev2(40), General>>, <<General, Rev2(28)>>,
               <<General, Rev2(28), Rev2(24)>>, <<Rev2(28)>>,
               <<[type |-> "general", len |-> 32710], Rev2(28)>>}
MCPoints == {[x |-> 0, y |-> 0], [x |-> 3, y |-> 1]}
=============================================================================
