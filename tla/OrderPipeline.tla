---------------------------- MODULE OrderPipeline ----------------------------
(***************************************************************************)
(* The graphics path of run_active_session, from a fast-path PDU to the     *)
(* order renderer: bulk decompression of every update in the PDU, the queue *)
(* of updates decompressed ahead, reassembly of fragmented order streams,   *)
(* the failure streak that forces a reconnect, and what a server-driven     *)
(* reactivation throws away.                                                *)
(*                                                                          *)
(* crates/sccm-rc-core/src/rdp.rs (run_active_session, maybe_decompress,    *)
(* decode_fastpath_orders, reassemble_orders)                               *)
(*                                                                          *)
(* PDUs arrive whole and in order (SealedTransport).  The bytes of an       *)
(* update are the part of an order stream that it carries; the history of   *)
(* the bulk compressor is the number of updates it has compressed.  `due`   *)
(* and `log` are auxiliary: the streams the server completed on one         *)
(* desktop, and how the streams rendered since the last reactivation went.  *)
(***************************************************************************)
EXTENDS Integers, Sequences, FiniteSets

CONSTANTS
    MaxStreams,    \* bound: order streams the server begins
    MaxParts,      \* bound: fragments of one stream
    MaxPerPdu,     \* bound: updates in one fast-path PDU
    MaxPacked,     \* bound: updates the server compresses
    MaxEpochs,     \* bound: desktops (activations) of one session
    FailLimit,     \* ORDER_FAIL_RECONNECT (60 in the code)
    OkReset,       \* ORDER_OK_RESET (8 in the code)
    PlainBundles   \* the server also bundles updates none of which is compressed

ASSUME BoundsAssumption ==
    {MaxStreams, MaxParts, MaxPerPdu, MaxPacked, MaxEpochs} \subseteq Nat \ {0}
ASSUME LimitsAssumption == FailLimit \in Nat \ {0} /\ OkReset \in Nat \ {0}
ASSUME BundlesAssumption == PlainBundles \in BOOLEAN

VARIABLES
    streams,   \* server: streams begun
    open,      \* server: the parts sent of its fragmented stream, <<>> if none
    packed,    \* server: updates its bulk compressor has compressed
    epoch,     \* server: the desktop it draws on
    wire,      \* the updates of the fast-path PDU that is arriving
    due,       \* auxiliary: streams completed on the desktop they began on
    phase,     \* where run_active_session is
    fed,       \* updates the MppcDecompressor has been fed
    extra,     \* decompressed_extra
    frag,      \* order_frag
    active,    \* order_frag_active
    okStreak, failStreak,  \* order_ok_streak, order_fail_streak
    rendered,  \* the order streams handed to OrderProcessor::process_orders
    log        \* auxiliary: their results since the last reactivation

vars == <<streams, open, packed, epoch, wire, due, phase, fed, extra, frag,
          active, okStreak, failStreak, rendered, log>>
server == <<streams, open, packed, epoch, wire, due>>
assembly == <<frag, active>>
results == <<okStreak, failStreak, rendered, log>>

Frags == {"single", "first", "next", "last"}
Phases == {"active", "reactivating", "ended", "reconnect"}

Part == [stream : 1..MaxStreams, part : 1..MaxParts, epoch : 1..MaxEpochs]
Update == [orders : BOOLEAN, frag : Frags, comp : BOOLEAN, data : Part]

Init ==
    /\ streams = 0 /\ open = <<>> /\ packed = 0 /\ epoch = 1
    /\ wire = <<>> /\ due = <<>>
    /\ phase = "active" /\ fed = 0 /\ extra = <<>>
    /\ frag = <<>> /\ active = FALSE
    /\ okStreak = 0 /\ failStreak = 0
    /\ rendered = <<>> /\ log = <<>>

-----------------------------------------------------------------------------
(* The server. *)

\* A PDU may carry several updates; without PlainBundles only when at least one
\* of them is compressed.
MayBundle(comp) ==
    /\ Len(wire) < MaxPerPdu
    /\ \/ wire = <<>> \/ PlainBundles \/ comp
       \/ \E i \in DOMAIN wire : wire[i].comp

SendUpdate(u) ==
    /\ MayBundle(u.comp)
    /\ u.comp => packed < MaxPacked
    /\ wire' = Append(wire, u)
    /\ packed' = IF u.comp THEN packed + 1 ELSE packed
    /\ UNCHANGED <<epoch, phase, fed, extra, assembly, results>>

\* A new stream, whole or its first fragment.  A fragmented stream still open
\* is abandoned by a first fragment and may go on after a single one.
BeginStream(fr, comp) ==
    LET p == [stream |-> streams + 1, part |-> 1, epoch |-> epoch]
    IN  /\ phase \in {"active", "reactivating"}
        /\ streams < MaxStreams
        /\ fr = "first" => MaxParts > 1
        /\ SendUpdate([orders |-> TRUE, frag |-> fr, comp |-> comp, data |-> p])
        /\ streams' = streams + 1
        /\ open' = IF fr = "first" THEN <<p>> ELSE open
        /\ due' = IF fr = "single" THEN Append(due, <<p>>) ELSE due

\* The next or last fragment of the open stream, also when it was begun on the
\* desktop before.
GoOnStream(fr, comp) ==
    LET p == [stream |-> open[1].stream, part |-> Len(open) + 1, epoch |-> epoch]
    IN  /\ phase \in {"active", "reactivating"}
        /\ open # <<>> /\ Len(open) < (IF fr = "next" THEN MaxParts - 1 ELSE MaxParts)
        /\ SendUpdate([orders |-> TRUE, frag |-> fr, comp |-> comp, data |-> p])
        /\ open' = IF fr = "next" THEN Append(open, p) ELSE <<>>
        /\ due' = IF fr = "last" /\ open[1].epoch = epoch
                    THEN Append(due, Append(open, p)) ELSE due
        /\ UNCHANGED streams

\* An update of another kind (bitmap, surface, pointer).
SendOther(comp) ==
    /\ phase \in {"active", "reactivating"}
    /\ SendUpdate([orders |-> FALSE, frag |-> "single", comp |-> comp,
                   data |-> [stream |-> 1, part |-> 1, epoch |-> epoch]])
    /\ UNCHANGED <<streams, open, due>>

-----------------------------------------------------------------------------
(* One update, already decompressed. *)

\* The order stream that u completes, <<>> if none (reassemble_orders).
Completed(u) ==
    IF u.frag = "single" THEN <<u.data>>
    ELSE IF u.frag = "last" /\ active THEN Append(frag, u.data)
    ELSE <<>>

\* reassemble_orders' effect on its buffer.
Reassemble(u) ==
    \/ /\ u.frag = "first"
       /\ frag' = <<u.data>> /\ active' = TRUE
    \/ /\ u.frag = "next" /\ active
       /\ frag' = Append(frag, u.data) /\ UNCHANGED active
    \/ /\ u.frag = "last" /\ active
       /\ frag' = <<>> /\ active' = FALSE
    \/ /\ u.frag = "single" \/ (u.frag \in {"next", "last"} /\ ~active)
       /\ UNCHANGED assembly

\* Mutant: every clean stream clears the failure streak.
RenderHardReset(c) ==
    \E good \in BOOLEAN :
        /\ rendered' = Append(rendered, c)
        /\ log' = Append(log, good)
        /\ okStreak' = IF good THEN okStreak + 1 ELSE 0
        /\ failStreak' = IF good THEN 0 ELSE failStreak + 1
        /\ phase' = IF failStreak' >= FailLimit THEN "reconnect" ELSE phase

\* Mutant: a failure does not interrupt the run of clean streams.
RenderKeepsRun(c) ==
    \E good \in BOOLEAN :
        /\ rendered' = Append(rendered, c)
        /\ log' = Append(log, good)
        /\ okStreak' = IF good THEN okStreak + 1 ELSE okStreak
        /\ failStreak' = IF ~good THEN failStreak + 1
                         ELSE IF okStreak' >= OkReset THEN 0 ELSE failStreak
        /\ phase' = IF ~good /\ failStreak' >= FailLimit THEN "reconnect" ELSE phase

\* process_orders on a complete stream, with either result.
Render(c) ==
    \E good \in BOOLEAN :
        /\ rendered' = Append(rendered, c)
        /\ log' = Append(log, good)
        /\ okStreak' = IF good THEN okStreak + 1 ELSE 0
        /\ failStreak' = IF ~good THEN failStreak + 1
                         ELSE IF okStreak' >= OkReset THEN 0 ELSE failStreak
        /\ phase' = IF ~good /\ failStreak' >= FailLimit THEN "reconnect" ELSE phase

\* The body of the loop after decompression.  What is not an order update goes
\* to the active stage, which may end the session over it.
Handle(u) ==
    \/ /\ u.orders
       /\ Reassemble(u)
       /\ IF Completed(u) # <<>> THEN Render(Completed(u))
          ELSE UNCHANGED <<phase, results>>
    \/ /\ ~u.orders
       /\ phase' \in {"active", "ended"}
       /\ UNCHANGED <<assembly, results>>

-----------------------------------------------------------------------------
(* run_active_session *)

Compressed == {i \in DOMAIN wire : wire[i].comp}

\* A fast-path PDU, taken only when decompressed_extra is empty: all of its
\* compressed updates are decompressed at once, the first update is handled and
\* the rest are queued.  With nothing compressed the PDU passes through
\* unchanged, and only its first update is looked at.
Receive ==
    /\ phase = "active" /\ extra = <<>> /\ wire # <<>>
    /\ fed' = fed + Cardinality(Compressed)
    /\ Handle(wire[1])
    /\ extra' = IF Compressed = {} THEN <<>> ELSE Tail(wire)
    /\ wire' = <<>>
    /\ UNCHANGED <<streams, open, packed, epoch, due>>

\* The next queued update.
PopExtra ==
    /\ phase = "active" /\ extra # <<>>
    /\ Handle(extra[1])
    /\ extra' = Tail(extra)
    /\ UNCHANGED <<server, fed>>

\* A DeactivateAll or DemandActive: drive_reactivation.
Reactivate ==
    /\ phase = "active" /\ extra = <<>> /\ wire = <<>>
    /\ epoch < MaxEpochs
    /\ phase' = "reactivating"
    /\ epoch' = epoch + 1
    /\ UNCHANGED <<streams, open, packed, wire, due, fed, extra, assembly, results>>

\* The activation sequence meets a fast-path PDU, which it cannot decode, or
\* fails otherwise.
ReactivationFails ==
    /\ phase = "reactivating"
    /\ phase' = "ended"
    /\ UNCHANGED <<server, fed, extra, assembly, results>>

\* Mutant: the half-assembled stream of the old desktop is kept.
ReactivatedKeepsFragment ==
    /\ phase = "reactivating" /\ wire = <<>>
    /\ phase' = "active"
    /\ extra' = <<>>
    /\ okStreak' = 0 /\ failStreak' = 0
    /\ log' = <<>>
    /\ UNCHANGED <<server, fed, rendered, assembly>>

\* The activation is finalized: queue, fragment and streaks are dropped, the
\* decompressor keeps its history.
Reactivated ==
    /\ phase = "reactivating" /\ wire = <<>>
    /\ phase' = "active"
    /\ extra' = <<>>
    /\ frag' = <<>> /\ active' = FALSE
    /\ okStreak' = 0 /\ failStreak' = 0
    /\ log' = <<>>
    /\ UNCHANGED <<server, fed, rendered>>

\* The session is over, or the server has nothing more to send.
Quiet ==
    /\ phase \in {"ended", "reconnect"} \/ (wire = <<>> /\ extra = <<>>)
    /\ UNCHANGED vars

Next ==
    \/ \E comp \in BOOLEAN :
          \/ \E fr \in {"single", "first"} : BeginStream(fr, comp)
          \/ \E fr \in {"next", "last"} : GoOnStream(fr, comp)
          \/ SendOther(comp)
    \/ Receive \/ PopExtra
    \/ Reactivate \/ ReactivationFails \/ Reactivated
    \/ Quiet

Spec == Init /\ [][Next]_vars

-----------------------------------------------------------------------------
(* Properties *)

TypeOK ==
    /\ streams \in 0..MaxStreams /\ epoch \in 1..MaxEpochs
    /\ open \in Seq(Part) /\ packed \in Nat
    /\ wire \in Seq(Update) /\ extra \in Seq(Update) /\ frag \in Seq(Part)
    /\ phase \in Phases /\ fed \in Nat /\ active \in BOOLEAN
    /\ okStreak \in Nat /\ failStreak \in Nat
    /\ due \in Seq(Seq(Part)) /\ rendered \in Seq(Seq(Part))
    /\ log \in Seq(BOOLEAN)

\* Our history holds exactly what the server's compressor put into its own,
\* up to the PDU now arriving: no compressed update bypasses the decompressor
\* or is fed to it twice, in the active session or around a reactivation.
HistoryInSync ==
    phase \in {"active", "reactivating"} => packed = fed + Cardinality(Compressed)

\* The renderer is given the streams the server completed, each whole and in
\* the order they were completed, and nothing of a stream that a reactivation
\* or a new stream cut short; once the PDU and the queue are worked off, none
\* is missing.
RendersWhatWasSent ==
    /\ Len(rendered) <= Len(due)
    /\ \A i \in DOMAIN rendered : rendered[i] = due[i]
    /\ phase = "active" /\ wire = <<>> /\ extra = <<>> => Len(rendered) = Len(due)

\* A run of OkReset clean streams ends at position j of the log l.
LongRunEnds(l, j) ==
    /\ j >= OkReset
    /\ \A i \in (j - OkReset + 1)..j : l[i]

NoLongRun(l) == \A j \in 1..Len(l) : ~LongRunEnds(l, j)

\* The failures that no such run has followed.
OpenFailures(l) ==
    {i \in 1..Len(l) : ~l[i] /\ \A j \in i..Len(l) : ~LongRunEnds(l, j)}

\* The two streak counters amount to this: the session is given up exactly when
\* FailLimit failures are open ("only cleared after ORDER_OK_RESET consecutive
\* clean streams").
GivesUpExactly ==
    /\ phase = "active" => Cardinality(OpenFailures(log)) < FailLimit
    /\ phase = "reconnect" => Cardinality(OpenFailures(log)) = FailLimit

\* As long as clean streams stay sporadic (no run of OkReset of them), a stream
\* that has desynced is noticed within FailLimit * OkReset streams, however
\* failures and lucky successes alternate.
RecoveryBound ==
    NoLongRun(log) => Len(log) <= FailLimit * OkReset

\* What makes these inductive: okStreak is the length of the clean run the log
\* ends with, failStreak counts the open failures.
StreaksFollowLog ==
    /\ okStreak <= Len(log)
    /\ \A i \in (Len(log) - okStreak + 1)..Len(log) : log[i]
    /\ okStreak < Len(log) => ~log[Len(log) - okStreak]
    /\ NoLongRun(log) => /\ okStreak < OkReset
                         /\ Len(log) <= failStreak * OkReset + okStreak
    /\ failStreak = Cardinality(OpenFailures(log))
    /\ IF phase = "reconnect" THEN failStreak = FailLimit /\ okStreak = 0
       ELSE failStreak < FailLimit

\* What the client has assembled and rendered once it has taken update u too.
Took(a, u) ==
    CASE ~u.orders \/ (u.frag \in {"next", "last"} /\ ~a.active) -> a
      [] u.orders /\ u.frag = "single" -> [a EXCEPT !.rendered = Append(@, <<u.data>>)]
      [] u.orders /\ u.frag = "first" -> [a EXCEPT !.frag = <<u.data>>, !.active = TRUE]
      [] u.orders /\ u.frag = "next" /\ a.active -> [a EXCEPT !.frag = Append(@, u.data)]
      [] u.orders /\ u.frag = "last" /\ a.active ->
            [frag |-> <<>>, active |-> FALSE,
             rendered |-> Append(a.rendered, Append(a.frag, u.data))]
TookAll(a, q) ==
    LET took[n \in 0..Len(q)] == IF n = 0 THEN a ELSE Took(took[n - 1], q[n])
    IN  took[Len(q)]

\* What makes RendersWhatWasSent inductive: the updates on their way lead the
\* client to what the server has completed and to the stream it has open on this
\* desktop; around a reactivation there are none on their way and none is open.
OpenHere == open # <<>> /\ open[1].epoch = epoch
OnCourse ==
    /\ open # <<>> => open[1].epoch <= epoch
    /\ Len(wire) > 1 => Compressed # {}
    /\ Len(rendered) <= Len(due) /\ \A i \in DOMAIN rendered : rendered[i] = due[i]
    /\ phase = "active" =>
          LET end == TookAll([frag |-> frag, active |-> active, rendered |-> rendered],
                             extra \o wire)
          IN  /\ end.rendered = due /\ end.active = OpenHere
              /\ OpenHere => end.frag = open
    /\ phase = "reactivating" =>
          extra = <<>> /\ (wire = <<>> => rendered = due /\ ~OpenHere)

\* The inductive invariant of the proofs.
CoreInv == TypeOK /\ HistoryInSync /\ StreaksFollowLog
IInv == CoreInv /\ (~PlainBundles => OnCourse)

=============================================================================
