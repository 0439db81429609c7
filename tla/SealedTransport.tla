--------------------------- MODULE SealedTransport ---------------------------
(***************************************************************************)
(* The receive path under an established session: the TCP stream, the       *)
(* persistent receive buffer of RawConnection::recv_frame, unsealing and    *)
(* control filtering in SccmSession::recv_rdp, and the PDU buffer that      *)
(* connect_rdp, run_active_session and drive_reactivation hand on to each   *)
(* other.  In the active session recv_rdp is one branch of a select! and is *)
(* dropped whenever an input event or the refresh timer wins.               *)
(*                                                                          *)
(* crates/sccm-rc-protocol/src/transport.rs, framing.rs                     *)
(* crates/sccm-rc-core/src/lib.rs, rdp.rs                                   *)
(*                                                                          *)
(* Bytes are positions.  The TCP stream is the interval of positions        *)
(* written so far; rxbuf is the interval of those read and not parsed yet,  *)
(* and the PDU buffer is an interval of the PDU stream in the same way.     *)
(* `taken` is an auxiliary variable: the frames recv_frame has returned.    *)
(***************************************************************************)
EXTENDS Integers, Sequences

CONSTANTS
    HeaderLen,   \* bytes of a frame header (4 in the code)
    MaxBody,     \* the largest body recv_frame accepts (8 MiB)
    MaxChunk,    \* bound: PDU bytes in one sealed frame
    MaxFrames,   \* bound: frames the server sends
    NPdus,       \* bound: PDUs in the server's stream
    PduEnd,      \* PduEnd[p]: where PDU p ends in the PDU stream
    PduKind      \* PduKind[p]: what the active stage makes of PDU p

ASSUME SizesAssumption ==
    /\ {HeaderLen, MaxBody, MaxChunk} \subseteq Nat \ {0}
    /\ {MaxFrames, NPdus} \subseteq Nat
ASSUME StreamAssumption ==
    /\ PduEnd \in [0..NPdus -> Nat]
    /\ PduEnd[0] = 0
    /\ \A p \in 0..NPdus, q \in 0..NPdus : p < q => PduEnd[p] < PduEnd[q]
    /\ PduKind \in [1..NPdus -> {"plain", "deactivate", "demand"}]

VARIABLES
    frames,    \* the frames the server has written, oldest first
    total,     \* bytes of them that reach the client
    fin,       \* the server has closed its side
    rxStart, rxEnd,  \* rxbuf: positions after rxStart, up to rxEnd
    taken,     \* auxiliary: frames returned by recv_frame
    openSeq,   \* the sequence number the next DecryptMessage expects
    bufStart, bufEnd, \* the PDU buffer, an interval of the PDU stream
    handled,   \* the PDUs taken out of it, and by whom
    phase,     \* which loop owns the buffer
    polling,   \* a recv_rdp future exists
    outcome    \* how the receive path ended, "run" while it has not

vars == <<frames, total, fin, rxStart, rxEnd, taken, openSeq,
          bufStart, bufEnd, handled, phase, polling, outcome>>
server == <<frames, total, fin>>
pdus == <<bufStart, handled, phase>>

Kinds == {"control", "keyword", "rdp"}
Phases == {"connect", "active", "reactivate"}
Outcomes == {"run", "closed", "mid_frame", "too_large", "io_error",
             "desync", "ui_closed", "ended"}
Loops == {"connector", "stage", "activation"}
Handling == [pdu : 1..NPdus, by : Loops]
Frame == [kind : Kinds, start : Nat, end : Nat, seq : Nat, upto : Nat]

\* What the first i frames of fs add up to.
EndOf(fs, i) == IF i = 0 THEN 0 ELSE fs[i].end
UptoOf(fs, i) == IF i = 0 THEN 0 ELSE fs[i].upto
Sealed(f) == f.kind # "control"
SeqAfter(fs, i) == IF i = 0 THEN 0
                   ELSE fs[i].seq + (IF Sealed(fs[i]) THEN 1 ELSE 0)

Init ==
    /\ frames = <<>> /\ total = 0 /\ fin = FALSE
    /\ rxStart = 0 /\ rxEnd = 0 /\ taken = 0 /\ openSeq = 0
    /\ bufStart = 0 /\ bufEnd = 0 /\ handled = <<>>
    /\ phase = "connect" /\ polling = FALSE /\ outcome = "run"

-----------------------------------------------------------------------------
(* The server. *)

\* One frame: an unsealed control frame, a sealed control keyword, or the next
\* n bytes of the PDU stream, sealed.  The server cuts PDUs where it likes.
ServerSend(kind, n) ==
    LET last == Len(frames)
        payload == IF kind = "rdp" THEN n ELSE 0
    IN  /\ ~fin /\ last < MaxFrames
        /\ kind # "rdp" => n = 1   \* bound: control bodies of one size
        /\ UptoOf(frames, last) + payload <= PduEnd[NPdus]
        /\ frames' = Append(frames,
              [kind |-> kind, start |-> EndOf(frames, last),
               end |-> EndOf(frames, last) + HeaderLen + n,
               seq |-> SeqAfter(frames, last), upto |-> UptoOf(frames, last) + payload])
        /\ total' = EndOf(frames, last) + HeaderLen + n
        /\ UNCHANGED <<fin, rxStart, rxEnd, taken, openSeq, bufEnd, pdus,
                       polling, outcome>>

\* The server closes; bytes of its last frame may never arrive.
ServerClose ==
    /\ ~fin
    /\ fin' = TRUE
    /\ \E n \in rxEnd..total :
          /\ frames # <<>> => n >= frames[Len(frames)].start
          /\ total' = n
    /\ UNCHANGED <<frames, rxStart, rxEnd, taken, openSeq, bufEnd, pdus,
                   polling, outcome>>

-----------------------------------------------------------------------------
(* RawConnection::recv_frame and SccmSession::recv_rdp *)

\* The frame whose header is the first thing in rxbuf.
AtFront(i) == i \in DOMAIN frames /\ frames[i].start = rxStart

HeaderRead == rxEnd - rxStart >= HeaderLen
BodyLen(i) == frames[i].end - frames[i].start - HeaderLen
Oversized == \E i \in DOMAIN frames :
                AtFront(i) /\ HeaderRead /\ BodyLen(i) > MaxBody
FrameReady == \E i \in DOMAIN frames :
                 AtFront(i) /\ HeaderRead /\ frames[i].end <= rxEnd
\* recv_frame has nothing to return and awaits read_buf.
Awaiting == polling /\ ~FrameReady /\ ~Oversized

\* PduReady: find_size(&buf) is Some for PDU p.
PduReady(p) == PduEnd[p - 1] = bufStart /\ PduEnd[p] <= bufEnd

\* Mutant: the loop awaits the network before draining its buffer.
PollFirst ==
    /\ outcome = "run" /\ ~polling
    /\ polling' = TRUE
    /\ UNCHANGED <<server, rxStart, rxEnd, taken, openSeq, bufEnd, pdus, outcome>>

\* A loop finds no whole PDU in its buffer and calls recv_rdp.
Poll ==
    /\ outcome = "run" /\ ~polling
    /\ \A p \in 1..NPdus : ~PduReady(p)
    /\ polling' = TRUE
    /\ UNCHANGED <<server, rxStart, rxEnd, taken, openSeq, bufEnd, pdus, outcome>>

\* stream.read_buf: any non-empty run of the bytes that have arrived.
Read ==
    /\ Awaiting /\ rxEnd < total
    /\ \E n \in (rxEnd + 1)..total : rxEnd' = n
    /\ UNCHANGED <<server, rxStart, taken, openSeq, bufEnd, pdus, polling, outcome>>

\* read_buf returned 0.
ReadEof ==
    /\ Awaiting /\ fin /\ rxEnd = total
    /\ outcome' = IF rxStart = rxEnd THEN "closed" ELSE "mid_frame"
    /\ polling' = FALSE
    /\ UNCHANGED <<server, rxStart, rxEnd, taken, openSeq, bufEnd, pdus>>

\* read_buf failed (reset, keepalive gave up).
ReadError ==
    /\ Awaiting
    /\ outcome' = "io_error"
    /\ polling' = FALSE
    /\ UNCHANGED <<server, rxStart, rxEnd, taken, openSeq, bufEnd, pdus>>

\* A header announces more than 8 MiB; checked before the body is awaited.
RejectFrame ==
    /\ polling /\ Oversized
    /\ outcome' = "too_large"
    /\ polling' = FALSE
    /\ UNCHANGED <<server, rxStart, rxEnd, taken, openSeq, bufEnd, pdus>>

\* recv_frame returns frame i to recv_rdp's loop: an unsealed frame is skipped;
\* a sealed one is decrypted in sequence, then a control keyword is skipped and
\* anything else is returned and appended to the caller's PDU buffer.
TakeFrame(i) ==
    /\ polling /\ AtFront(i) /\ HeaderRead
    /\ BodyLen(i) <= MaxBody /\ frames[i].end <= rxEnd
    /\ rxStart' = frames[i].end
    /\ taken' = i
    /\ \/ /\ frames[i].kind = "control"
          /\ UNCHANGED <<openSeq, bufEnd, polling, outcome>>
       \/ /\ Sealed(frames[i])
          /\ openSeq' = openSeq + 1
          /\ outcome' = IF frames[i].seq = openSeq THEN outcome ELSE "desync"
          /\ bufEnd' = IF frames[i].kind = "rdp" THEN frames[i].upto ELSE bufEnd
          /\ polling' = (frames[i].kind = "keyword" /\ frames[i].seq = openSeq)
    /\ UNCHANGED <<server, rxEnd, pdus>>

\* Mutant: bytes read into a local buffer die with the dropped future.
CancelLosesBytes ==
    /\ Awaiting /\ phase = "active"
    /\ polling' = FALSE
    /\ rxStart' = rxEnd
    /\ UNCHANGED <<server, rxEnd, taken, openSeq, bufEnd, pdus, outcome>>

\* Another branch of run_active_session's select! wins while recv_rdp waits in
\* read_buf: its future is dropped.
Cancel ==
    /\ Awaiting /\ phase = "active"
    /\ polling' = FALSE
    /\ UNCHANGED <<server, rxStart, rxEnd, taken, openSeq, bufEnd, pdus, outcome>>

\* The branch that wins is a closed input channel: run_active_session returns.
UiClosed ==
    /\ Awaiting /\ phase = "active"
    /\ outcome' = "ui_closed"
    /\ polling' = FALSE
    /\ UNCHANGED <<server, rxStart, rxEnd, taken, openSeq, bufEnd, pdus>>

-----------------------------------------------------------------------------
(* The three loops that take PDUs out of the buffer. *)

LoopOf == [connect |-> "connector", active |-> "stage", reactivate |-> "activation"]

Drain(p, who) ==
    /\ bufStart' = PduEnd[p]
    /\ handled' = Append(handled, [pdu |-> p, by |-> who])

\* Mutant: the bytes behind the last handshake PDU are not handed over.
ConnectStepDropsLeftover(p) ==
    /\ outcome = "run" /\ ~polling /\ phase = "connect" /\ PduReady(p)
    /\ handled' = Append(handled, [pdu |-> p, by |-> "connector"])
    /\ \/ phase' = "connect" /\ bufStart' = PduEnd[p]
       \/ phase' = "active" /\ bufStart' = bufEnd
    /\ UNCHANGED <<server, rxStart, rxEnd, taken, openSeq, bufEnd, polling, outcome>>

\* connect_rdp: the connector consumes one PDU and may thereby be connected;
\* what is left in the buffer becomes run_active_session's initial_buf.
ConnectStep(p) ==
    /\ outcome = "run" /\ ~polling /\ phase = "connect" /\ PduReady(p)
    /\ Drain(p, "connector")
    /\ phase' \in {"connect", "active"}
    /\ UNCHANGED <<server, rxStart, rxEnd, taken, openSeq, bufEnd, polling, outcome>>

\* run_active_session: DeactivateAll starts a reactivation with the next PDU; a
\* DemandActive is put back in front of the buffer and starts one with itself.
ActiveStep(p) ==
    /\ outcome = "run" /\ ~polling /\ phase = "active" /\ PduReady(p)
    /\ \/ /\ PduKind[p] = "plain"
          /\ Drain(p, "stage")
          /\ phase' = "active"
       \/ /\ PduKind[p] = "deactivate"
          /\ Drain(p, "stage")
          /\ phase' = "reactivate"
       \/ /\ PduKind[p] = "demand"
          /\ phase' = "reactivate"
          /\ UNCHANGED <<bufStart, handled>>
    /\ UNCHANGED <<server, rxStart, rxEnd, taken, openSeq, bufEnd, polling, outcome>>

\* drive_reactivation: the activation sequence consumes one PDU and may
\* thereby be finalized.
ReactivateStep(p) ==
    /\ outcome = "run" /\ ~polling /\ phase = "reactivate" /\ PduReady(p)
    /\ Drain(p, "activation")
    /\ phase' \in {"reactivate", "active"}
    /\ UNCHANGED <<server, rxStart, rxEnd, taken, openSeq, bufEnd, polling, outcome>>

\* The loop that takes PDU p returns on it: a Terminate, a decode error, an
\* order-stream desync, or a reply that cannot be sent.  A DemandActive only
\* makes the active stage hand over to the activation sequence.
LoopEnds(p) ==
    /\ outcome = "run" /\ ~polling /\ PduReady(p)
    /\ phase = "active" => PduKind[p] # "demand"
    /\ Drain(p, LoopOf[phase])
    /\ outcome' = "ended"
    /\ UNCHANGED <<server, rxStart, rxEnd, taken, openSeq, bufEnd, phase, polling>>

-----------------------------------------------------------------------------

Client == \/ Poll \/ Read \/ ReadEof \/ ReadError \/ RejectFrame \/ Cancel
          \/ UiClosed
          \/ \E i \in DOMAIN frames : TakeFrame(i)
          \/ \E p \in 1..NPdus : \/ ConnectStep(p) \/ ActiveStep(p)
                                 \/ ReactivateStep(p) \/ LoopEnds(p)

Server == \/ \E kind \in Kinds, n \in 1..MaxChunk : ServerSend(kind, n)
          \/ ServerClose

\* The receive path has ended, or waits for a server that is done.
Idle == /\ \/ outcome # "run"
           \/ Awaiting /\ rxEnd = total /\ ~fin
        /\ UNCHANGED vars

Next == Client \/ Server \/ Idle

Spec == Init /\ [][Next]_vars

(***************************************************************************)
(* Polling a recv_rdp future reads whatever has arrived at once, so a read *)
(* that is possible again and again is not cancelled for ever (SF).        *)
(***************************************************************************)
Fairness ==
    /\ WF_vars(Poll) /\ SF_vars(Read) /\ WF_vars(RejectFrame)
    /\ WF_vars(\E i \in DOMAIN frames : TakeFrame(i))
    /\ WF_vars(\E p \in 1..NPdus :
                  ConnectStep(p) \/ ActiveStep(p) \/ ReactivateStep(p))

FairSpec == Spec /\ Fairness

-----------------------------------------------------------------------------
(* Properties *)

TypeOK ==
    /\ frames \in Seq(Frame)
    /\ total \in Nat /\ fin \in BOOLEAN
    /\ rxStart \in Nat /\ rxEnd \in Nat /\ taken \in Nat /\ openSeq \in Nat
    /\ bufStart \in Nat /\ bufEnd \in Nat
    /\ handled \in Seq(Handling)
    /\ phase \in Phases /\ polling \in BOOLEAN /\ outcome \in Outcomes

\* The receive buffer always begins at the first byte of the frame after the
\* last one returned, however reads and cancellations fell: the framing of the
\* sealed stream is never lost (the rxbuf comment of RawConnection).
FramingInSync ==
    /\ taken \in 0..Len(frames)
    /\ rxStart = EndOf(frames, taken)
    /\ rxStart <= rxEnd /\ rxEnd <= total

\* Every sealed frame is decrypted once and in the order it was sealed, so the
\* security context of an honest server never desynchronises.
SealInSync == openSeq = SeqAfter(frames, taken) /\ outcome # "desync"

\* The PDU buffer continues exactly where the last PDU taken out ended and
\* holds every PDU byte received: nothing is lost or repeated when the buffer
\* passes from connect to active to reactivation and back.
PduBufferInSync ==
    /\ Len(handled) <= NPdus
    /\ bufStart = PduEnd[Len(handled)]
    /\ bufStart <= bufEnd
    /\ bufEnd = UptoOf(frames, taken)

\* PDUs are handled once each, in the order sent, and a DemandActive is
\* consumed by the connector or by an activation sequence, never by the
\* active stage.
PdusInOrder ==
    \A k \in DOMAIN handled :
        /\ handled[k].pdu = k
        /\ handled[k].by = "stage" => PduKind[k] # "demand"

\* When the receive path ends other than on a PDU itself, every PDU of the
\* frames taken has been handled; when the server closed it, no frame that
\* arrived whole is left in rxbuf: the last thing the server managed to say is
\* not lost.
NothingLeftAtEnd ==
    outcome \notin {"run", "ended"} =>
        /\ \A p \in 1..NPdus : PduEnd[p] <= bufEnd => p <= Len(handled)
        /\ outcome \in {"closed", "mid_frame"} =>
              taken = Len(frames) \/ total < frames[taken + 1].end

\* What makes these inductive.  Frames lie back to back in the stream, carry
\* consecutive sequence numbers and continue one PDU stream; what a frame adds
\* up to only grows; and a loop that is polling has no whole PDU at hand.
FrameChain ==
    /\ \A i \in 1..Len(frames) :
          /\ frames[i].start = EndOf(frames, i - 1)
          /\ frames[i].seq = SeqAfter(frames, i - 1)
          /\ frames[i].end >= frames[i].start + HeaderLen
          /\ UptoOf(frames, i - 1) <= frames[i].upto
          /\ frames[i].kind # "rdp" => frames[i].upto = UptoOf(frames, i - 1)
    /\ \A i, j \in 0..Len(frames) : i < j => EndOf(frames, i) < EndOf(frames, j)
    /\ \A i, j \in 0..Len(frames) : i < j => UptoOf(frames, i) <= UptoOf(frames, j)
    /\ total <= EndOf(frames, Len(frames))

PollingIsDrained ==
    /\ polling => \A p \in 1..NPdus : ~PduReady(p)
    /\ outcome # "run" => ~polling
    /\ outcome \in {"closed", "mid_frame"} => fin

IInv == /\ TypeOK /\ FrameChain /\ FramingInSync /\ SealInSync
        /\ PduBufferInSync /\ PdusInOrder /\ PollingIsDrained /\ NothingLeftAtEnd

\* The PDUs of a history, without who took them.
PdusOf(hs) == [k \in DOMAIN hs |-> hs[k].pdu]

\* The receive path implements the PDU channel.
Channel == INSTANCE PduChannel WITH
              written <- UptoOf(frames, Len(frames)),
              delivered <- PdusOf(handled)
ImplementsChannel == Channel!Spec

\* Every PDU whose bytes have all been written is handled in the end, unless
\* the receive path fails or the connection is cut.
EveryPduHandled ==
    \A p \in 1..NPdus :
        (PduEnd[p] <= UptoOf(frames, Len(frames)))
           ~> (Len(handled) >= p \/ fin \/ outcome # "run")

=============================================================================
