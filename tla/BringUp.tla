------------------------------- MODULE BringUp -------------------------------
(***************************************************************************)
(* From the grant to a painted desktop: the RDP connection sequence, the    *)
(* session arbitration that takes the host over, the activation and every   *)
(* reactivation the server asks for, and the refresh requests that make it  *)
(* paint and erase the cursor's trail.  Composed with Handshake, which must *)
(* grant first.                                                             *)
(*                                                                          *)
(* crates/sccm-rc-core/src/rdp.rs connect_rdp, ArbitrationChannel,          *)
(* build_wlc_channel_set, run_active_session, drive_reactivation            *)
(*                                                                          *)
(* What the client sends reaches the server at once and in order; what the  *)
(* server sends waits in `pdus`.  The server is external: the code's own    *)
(* account of what it does and what it waits for.  Losing the link after    *)
(* the grant is in SealedTransport and SessionLifecycle.                    *)
(***************************************************************************)
EXTENDS Handshake, SequencesExt

CONSTANTS
    Envs,             \* the settings the SCCM_RC_ variables may choose
    ShareIds,         \* share ids the server may give an activation
    Sizes,            \* desktop sizes: [w, h]
    CapLists,         \* capability sets of a DemandActive: sequences of [type, len]
    Points,           \* where the operator moves the mouse
    CursorPad,        \* CURSOR_PAD
    Traffic,          \* channels the server sends data on by itself
    MaxQueue,         \* bound: PDUs in flight to the client
    MaxReactivations  \* bound: reactivations after the shadow is attached

Capability == [type : STRING, len : Nat]
ASSUME BringUpAssumption ==
    /\ Envs \subseteq [arb : BOOLEAN, channels : BOOLEAN, takeover : BOOLEAN,
                       reply : BOOLEAN, event : BOOLEAN, persist : BOOLEAN,
                       wlc : BOOLEAN, once : BOOLEAN, refresh : BOOLEAN,
                       cursor : BOOLEAN]
    /\ ShareIds \subseteq Nat \ {0}
    /\ Sizes \subseteq [w : Nat \ {0}, h : Nat \ {0}]
    /\ Points \subseteq [x : Nat, y : Nat] /\ CursorPad \in Nat
    /\ CapLists \subseteq Seq(Capability)
    /\ MaxQueue \in Nat /\ MaxReactivations \in Nat

VARIABLES
    env,          \* the settings, constant once the program runs
    stage,        \* where the RDP session is
    cause,        \* why it ended
    pdus,         \* PDUs in flight to the client
    share_id,     \* the id the client's PDUs carry
    desktop,      \* width and height
    chans,        \* the static channel set: MCS id by channel name, 0 is none
    snapshot,     \* channel_id_snapshot
    arbitration,  \* the ArbitrationChannel object
    cursor_trail, \* the area the cursor passed through
    asked,        \* the last area asked for
    server        \* the server's end of the session

activationVars == <<env, stage, cause, pdus, share_id, desktop, chans, snapshot,
                    arbitration, cursor_trail, asked, server>>
vars == <<handshakeVars, activationVars>>

WlcChannels == <<"rdpdr", "rdpsnd", "cliprdr", "curtain", "sessarb", "dynres",
                 "dskcfg", "drdynvc">>
LegacyChannels == <<"cliprdr", "rdpsnd", "rdpdr", "drdynvc">>
\* The channels connect_rdp declares.
Declared == IF env.arb THEN WlcChannels ELSE IF env.channels THEN LegacyChannels ELSE <<>>
\* The MCS ids the server gives them, in their order.
Joined == [n \in ToSet(Declared) |-> 1003 + CHOOSE i \in 1..Len(Declared) : Declared[i] = n]

NoChannels == [n \in {} |-> 0]
NoArea == [left |-> 0, top |-> 0, right |-> -1, bottom |-> -1]
Inverted(a) == a.left > a.right \/ a.top > a.bottom
Inside(p, a) == p.x \in a.left..a.right /\ p.y \in a.top..a.bottom
Full(d) == [left |-> 0, top |-> 0, right |-> d.w - 1, bottom |-> d.h - 1]
FreshArbitration == [takeover_sent |-> FALSE, replies_sent |-> 0]

Init ==
    /\ HandshakeInit
    /\ env \in Envs /\ stage = "none" /\ cause = "none" /\ pdus = <<>>
    /\ share_id = 0 /\ desktop \in Sizes
    /\ chans = NoChannels /\ snapshot = NoChannels /\ arbitration = FreshArbitration
    /\ cursor_trail = NoArea /\ asked = NoArea
    /\ server \in [state : {"wait"}, share : {0}, desktop : Sizes,
                   inUse : BOOLEAN, allowed : {FALSE}, attached : {FALSE},
                   heard : {{}}, painted : {FALSE}, stamps : {{}},
                   deactivated : {FALSE}, rounds : {0}]

-----------------------------------------------------------------------------
(* DemandActive on the wire and fix_short_bitmap_cache_rev2 *)

Rev2Full == 40    \* header and body of a whole Bitmap Cache Rev2 capability
CapsLen(caps) ==
    LET sum[n \in 0..Len(caps)] == IF n = 0 THEN 4 ELSE sum[n - 1] + caps[n].len
    IN  sum[Len(caps)]
TpktOverhead(f) == 13 + (IF f.wide THEN 2 ELSE 1)
\* Share control header, share id, two lengths, source descriptor, session id.
DemandOverhead == 6 + 8 + 4 + 4

\* The server's DemandActive: lengths nested in lengths, the MCS one in two
\* bytes from 128 on.
Demand(share, size, caps) ==
    LET lcc == CapsLen(caps)
        total == DemandOverhead + lcc
        wide == total >= 128
        body == [share |-> share, size |-> size, caps |-> caps, lcc |-> lcc,
                 total |-> total, mcs |-> total, wide |-> wide]
    IN  [kind |-> "demand", frame |-> body, tpkt |-> TpktOverhead(body) + total]

Short(c) == c.type = "rev2" /\ c.len < Rev2Full

\* The two-byte form of the MCS length holds 15 bits; what the server sends fits.
McsLimit == 32768
ASSUME LengthAssumption == \A caps \in CapLists : DemandOverhead + CapsLen(caps) < McsLimit

\* Mutant: lengthCombinedCapabilities is not patched.
FixShortKeepsLcc(d) ==
    LET f == d.frame
        at == SelectInSeq(f.caps, Short)
        pad == Rev2Full - f.caps[at].len
    IN  IF at = 0 THEN d
        ELSE [d EXCEPT !.frame = [f EXCEPT !.caps[at].len = Rev2Full,
                                           !.total = f.total + pad,
                                           !.mcs = IF f.wide THEN (f.mcs + pad) % McsLimit
                                                   ELSE f.mcs],
                       !.tpkt = d.tpkt + pad]
\* The first Rev2 capability shorter than it should be is padded with zeros and
\* every length around it grows by as much; the MCS length only when it has
\* two bytes, and then in 15 bits.
FixShortRev2(d) ==
    LET f == d.frame
        at == SelectInSeq(f.caps, Short)
        pad == Rev2Full - f.caps[at].len
    IN  IF at = 0 THEN d
        ELSE [d EXCEPT !.frame = [f EXCEPT !.caps[at].len = Rev2Full,
                                           !.lcc = f.lcc + pad,
                                           !.total = f.total + pad,
                                           !.mcs = IF f.wide THEN (f.mcs + pad) % McsLimit
                                                   ELSE f.mcs],
                       !.tpkt = d.tpkt + pad]

\* What the padding does not get right: a second short capability, and a short one
\* in a frame whose MCS length has one byte or outgrows the two-byte form.
Beyond(f) ==
    \E i \in DOMAIN f.caps :
        /\ Short(f.caps[i])
        /\ \/ \E j \in DOMAIN f.caps : j # i /\ Short(f.caps[j])
           \/ f.total < 128
           \/ f.total + (Rev2Full - f.caps[i].len) >= McsLimit

\* The vendored decoder: every capability whole, every length right.
Decodes(d) ==
    /\ \A i \in DOMAIN d.frame.caps : ~Short(d.frame.caps[i])
    /\ d.frame.lcc = CapsLen(d.frame.caps)
    /\ d.frame.total = DemandOverhead + d.frame.lcc
    /\ d.frame.mcs = d.frame.total
    /\ d.tpkt = TpktOverhead(d.frame) + d.frame.total

-----------------------------------------------------------------------------
(* What the client sends, and what the server makes of it (external) *)

Word(kind) == [kind |-> kind, share |-> 0, area |-> NoArea]
Ask(kind, share, area) == [kind |-> kind, share |-> share, area |-> area]

\* A PDU that carries a share id counts only when it is the server's.  A
\* refreshed area comes back without the cursor's images in it.
Receive(s, m) ==
    CASE m.kind = "confirm" -> [s EXCEPT !.state = "up"]
      [] m.kind \in {"event", "takeover", "reply", "wlc"} ->
            [s EXCEPT !.heard = @ \union {m.kind}]
      [] m.kind \in {"keys", "output"} /\ m.share = s.share ->
            [s EXCEPT !.heard = @ \union {m.kind}]
      [] m.kind = "refresh" /\ m.share = s.share ->
            [s EXCEPT !.stamps = {p \in @ : ~Inside(p, m.area)},
                      !.painted = @ \/ m.area = Full(s.desktop)]
      [] OTHER -> s
\* s after each of ms in turn.
AfterAll(s, ms) ==
    LET after[n \in 0..Len(ms)] == IF n = 0 THEN s ELSE Receive(after[n - 1], ms[n])
    IN  after[Len(ms)]
SendAll(ms) == server' = AfterAll(server, ms)

When(b, ms) == IF b THEN ms ELSE <<>>

\* send_refresh_rect: allow output, then refresh the whole desktop.
RefreshRect(share, d) == <<Ask("output", share, Full(d)), Ask("refresh", share, Full(d))>>
\* send_wlc_desktop_caps and send_persistent_key_list.
WlcDesktopCaps == <<Word("wlc")>>
PersistentKeyList(share) == <<Ask("keys", share, NoArea)>>

\* What run_active_session sends before its loop.
Prologue(share, d) ==
    When(env.persist, PersistentKeyList(share))
    \o When(env.arb /\ env.event, <<Word("event")>>)
    \o When(env.wlc, WlcDesktopCaps)
    \o When(env.refresh, RefreshRect(share, d))
\* Mutant: the WLC handshake only on the first activation.
ResumptionWithoutWlc(share, d) == RefreshRect(share, d)
\* What it sends after a reactivation.
Resumption(share, d) == When(env.wlc /\ ~env.once, WlcDesktopCaps) \o RefreshRect(share, d)

-----------------------------------------------------------------------------
(* The session thread *)

Next1 == Head(pdus)
Arrived(st, kind) == stage = st /\ pdus # <<>> /\ Next1.kind = kind
Took == pdus' = Tail(pdus)
End(why) ==
    /\ stage' = "ended" /\ cause' = why /\ pdus' = <<>>
    /\ UNCHANGED <<env, share_id, desktop, chans, snapshot, arbitration,
                   cursor_trail, asked, server>>

\* connect_rdp: the connection sequence ends with the DemandActive, whose share
\* id is kept; the server has joined the declared channels.
ConnectRdp ==
    /\ Arrived("connecting", "demand")
    /\ \/ ~Decodes(Next1) /\ End("demand")
       \/ /\ Decodes(Next1)
          /\ stage' = "active" /\ Took
          /\ share_id' = Next1.frame.share /\ desktop' = Next1.frame.size
          /\ chans' = Joined /\ snapshot' = Joined
          /\ SendAll(<<Word("confirm")>> \o Prologue(share_id', desktop'))
          /\ asked' = IF env.refresh THEN Full(desktop') ELSE asked
          /\ UNCHANGED <<env, cause, arbitration, cursor_trail>>

\* Mutant: the ids are not attached again.
BuildWithoutIds == IF ~env.arb THEN NoChannels ELSE [n \in ToSet(WlcChannels) |-> 0]
\* build_wlc_channel_set: fresh channels under the ids of the first join.
BuildWlcChannelSet ==
    IF ~env.arb THEN NoChannels
    ELSE [n \in ToSet(WlcChannels) |-> IF n \in DOMAIN snapshot THEN snapshot[n] ELSE 0]

\* drive_reactivation and what follows it: d is the DemandActive, padded, and
\* share the id taken from the frame that started the reactivation.
\* cursor_trail is left as it is.
Reactivate(d, share) ==
    \/ ~Decodes(d) /\ End("demand")
    \/ /\ Decodes(d)
       /\ stage' = "active" /\ Took
       /\ share_id' = share /\ desktop' = d.frame.size
       /\ chans' = BuildWlcChannelSet /\ arbitration' = FreshArbitration
       /\ SendAll(<<Word("confirm")>> \o Resumption(share, desktop'))
       /\ asked' = Full(desktop')
       /\ UNCHANGED <<env, cause, snapshot, cursor_trail>>
\* Mutant: the share id of the first connection is kept.
HandleDemandActiveKeepsShare ==
    Arrived("active", "demand") /\ Reactivate(FixShortRev2(Next1), share_id)
\* (a) a DemandActive in the active session is fed to the sequence again.
HandleDemandActive ==
    Arrived("active", "demand") /\ Reactivate(FixShortRev2(Next1), Next1.frame.share)
\* (b) a DeactivateAll: the DemandActive is the next PDU, and the share id is
\* that of the DeactivateAll.
HandleDeactivateAll ==
    /\ Arrived("active", "deactivate")
    /\ stage' = "reactivating" /\ Took /\ share_id' = Next1.share
    /\ UNCHANGED <<env, cause, desktop, chans, snapshot, arbitration, cursor_trail,
                   asked, server>>
FinishReactivation ==
    Arrived("reactivating", "demand") /\ Reactivate(FixShortRev2(Next1), share_id)

\* ArbitrationChannel::process: one take-over and one reply per object.
TakesOver(ev) == ev = "in_use" /\ ~arbitration.takeover_sent /\ env.takeover
ProcessEvent(ev) ==
    \/ /\ TakesOver(ev)
       /\ arbitration' = [arbitration EXCEPT !.takeover_sent = TRUE]
       /\ SendAll(<<Word("takeover")>>)
    \/ /\ ~TakesOver(ev) /\ env.reply /\ arbitration.replies_sent = 0
       /\ arbitration' = [arbitration EXCEPT !.replies_sent = 1]
       /\ SendAll(<<Word("reply")>>)
    \/ /\ ~TakesOver(ev) /\ (env.reply => arbitration.replies_sent > 0)
       /\ UNCHANGED <<arbitration, server>>
\* Data on a static channel goes to the channel with that id, if there is one.
Knows(id) == \E n \in DOMAIN chans : chans[n] = id
HandleSvc ==
    /\ Arrived("active", "svc")
    /\ \/ ~Knows(Next1.id) /\ End("channel")
       \/ /\ Knows(Next1.id) /\ Took
          /\ IF env.arb /\ chans["sessarb"] = Next1.id THEN ProcessEvent(Next1.event)
             ELSE UNCHANGED <<arbitration, server>>
          /\ UNCHANGED <<env, stage, cause, share_id, desktop, chans, snapshot,
                         cursor_trail, asked>>

-----------------------------------------------------------------------------
(* Input and the cursor's trail *)

Saturating(n) == IF n < 0 THEN 0 ELSE n
Lesser(a, b) == IF a < b THEN a ELSE b
Greater(a, b) == IF a > b THEN a ELSE b
\* The area around p, its far corner kept on the desktop.
Around(p) ==
    [left |-> Saturating(p.x - CursorPad), top |-> Saturating(p.y - CursorPad),
     right |-> Lesser(p.x + CursorPad, desktop.w - 1),
     bottom |-> Lesser(p.y + CursorPad, desktop.h - 1)]
Hull(a, b) ==
    [left |-> Lesser(a.left, b.left), top |-> Lesser(a.top, b.top),
     right |-> Greater(a.right, b.right), bottom |-> Greater(a.bottom, b.bottom)]
\* Mutant: only the last point counts.
ExtendedToLast(p) == Around(p)
\* cursor_trail with the area around p.
Extended(p) == IF cursor_trail = NoArea THEN Around(p) ELSE Hull(cursor_trail, Around(p))

trailOnly == <<env, stage, cause, pdus, share_id, desktop, chans, snapshot, arbitration>>

\* flush_cursor_trail takes the trail and leaves out an inverted area.
FlushTrail(trail, s) ==
    /\ cursor_trail' = NoArea
    /\ asked' = IF Inverted(trail) THEN asked ELSE trail
    /\ server' = IF Inverted(trail) THEN s ELSE Receive(s, Ask("refresh", share_id, trail))

\* A mouse event is sent to the server, which leaves a cursor image there, and
\* the trail is flushed when the last time is 120 ms ago.
MoveMouse ==
    /\ stage = "active"
    /\ \E p \in Points :
          LET moved == IF server.state = "up" /\ Inside(p, Full(server.desktop))
                       THEN [server EXCEPT !.stamps = @ \union {p}] ELSE server
              trail == IF env.cursor THEN Extended(p) ELSE cursor_trail
          IN  \/ cursor_trail' = trail /\ server' = moved /\ UNCHANGED asked
              \/ env.cursor /\ FlushTrail(trail, moved)
    /\ UNCHANGED trailOnly

\* Nothing for 120 ms and a trail: refresh everything.
IdleRefresh ==
    /\ stage = "active" /\ env.cursor /\ cursor_trail # NoArea
    /\ cursor_trail' = NoArea /\ asked' = Full(desktop)
    /\ SendAll(<<Ask("refresh", share_id, Full(desktop))>>)
    /\ UNCHANGED trailOnly

-----------------------------------------------------------------------------
(* The server (external) *)

ServerSends(p) == Len(pdus) < MaxQueue /\ pdus' = Append(pdus, p)
clientSide == <<env, stage, cause, share_id, desktop, chans, snapshot, arbitration,
                cursor_trail, asked>>
Svc(n, event) == [kind |-> "svc", id |-> Joined[n], event |-> event]

\* A new activation: another share id, another size, a blank picture.
NewActivation(s, lists) ==
    \E caps \in lists, share \in ShareIds, size \in Sizes :
        /\ ServerSends(Demand(share, size, caps))
        /\ server' = [s EXCEPT !.state = "demand", !.share = share, !.desktop = size,
                         !.painted = FALSE, !.stamps = {}, !.heard = @ \ {"wlc", "output"}]

\* The first DemandActive, which connect_rdp does not pad, has whole
\* capabilities.
ServerActivates ==
    /\ stage = "none" /\ phase = "granted" /\ link = "up" /\ stage' = "connecting"
    /\ NewActivation(server, {caps \in CapLists : \A i \in DOMAIN caps : ~Short(caps[i])})
    /\ UNCHANGED <<env, cause, share_id, desktop, chans, snapshot, arbitration,
                   cursor_trail, asked>>

\* Arbitration: host in use until a take-over is heard, then host allowed.
ServerArbitrates ==
    /\ server.state = "up" /\ ~server.allowed /\ env.arb
    /\ LET taken == server.inUse /\ "takeover" \notin server.heard
       IN  /\ taken => Svc("sessarb", "in_use") \notin ToSet(pdus)
           /\ ServerSends(Svc("sessarb", IF taken THEN "in_use" ELSE "allowed"))
           /\ server' = [server EXCEPT !.allowed = ~taken]
    /\ UNCHANGED clientSide

\* The shadow is attached by a DemandActive without a DeactivateAll.
ServerAttaches ==
    /\ server.state = "up" /\ server.allowed /\ ~server.attached
    /\ NewActivation([server EXCEPT !.attached = TRUE, !.deactivated = FALSE], CapLists)
    /\ UNCHANGED clientSide

\* Later reactivations, with or without a DeactivateAll before them.
ServerReactivates ==
    /\ server.state = "up" /\ server.rounds < MaxReactivations
    /\ NewActivation([server EXCEPT !.rounds = @ + 1, !.deactivated = FALSE], CapLists)
    /\ UNCHANGED clientSide
ServerDeactivates ==
    /\ server.state = "up" /\ server.rounds < MaxReactivations
    /\ ServerSends([kind |-> "deactivate", share |-> server.share])
    /\ server' = [server EXCEPT !.state = "down", !.rounds = @ + 1, !.deactivated = TRUE]
    /\ UNCHANGED clientSide
ServerDemands ==
    /\ server.state = "down" /\ NewActivation(server, CapLists)
    /\ UNCHANGED clientSide

\* Sound, clipboard and the like.
ServerTraffic ==
    /\ server.state = "up" /\ pdus = <<>> /\ stage # "ended"
    /\ \E n \in Traffic \intersect DOMAIN Joined : ServerSends(Svc(n, "data"))
    /\ UNCHANGED <<clientSide, server>>

-----------------------------------------------------------------------------
SessionStep ==
    ConnectRdp \/ HandleDemandActive \/ HandleDeactivateAll \/ FinishReactivation \/ HandleSvc
ServerActs == ServerActivates \/ ServerArbitrates \/ ServerAttaches \/ ServerDemands
Next ==
    \/ HandshakeNext /\ UNCHANGED activationVars
    \/ /\ \/ SessionStep \/ MoveMouse \/ IdleRefresh
          \/ ServerActs \/ ServerReactivates \/ ServerDeactivates \/ ServerTraffic
       /\ UNCHANGED handshakeVars

\* The session thread handles the PDUs that arrive, the server goes on with
\* what it waits to do.  Nothing is fair about the operator or a server that
\* reactivates of its own.
Spec == Init /\ [][Next]_vars /\ HandshakeFairness
        /\ WF_vars(SessionStep /\ UNCHANGED handshakeVars)
        /\ WF_vars(ServerActs /\ UNCHANGED handshakeVars)

-----------------------------------------------------------------------------
Area == [left : Int, top : Int, right : Int, bottom : Int]
Pdus == {Demand(share, size, caps) : share \in ShareIds, size \in Sizes, caps \in CapLists}
        \union {Svc(n, event) : n \in DOMAIN Joined, event \in {"in_use", "allowed", "data"}}
        \union [kind : {"deactivate"}, share : ShareIds]
ServerState ==
    [state : {"wait", "demand", "up", "down"}, share : ShareIds \union {0}, desktop : Sizes,
     inUse : BOOLEAN, allowed : BOOLEAN, attached : BOOLEAN,
     heard : SUBSET {"event", "takeover", "reply", "wlc", "keys", "output"},
     painted : BOOLEAN, stamps : SUBSET Points, deactivated : BOOLEAN,
     rounds : 0..MaxReactivations]
SessionTypeOK ==
    /\ env \in Envs
    /\ stage \in {"none", "connecting", "active", "reactivating", "ended"}
    /\ cause \in {"none", "channel", "demand"}
    /\ pdus \in Seq(Pdus) /\ Len(pdus) <= MaxQueue
    /\ share_id \in ShareIds \union {0} /\ desktop \in Sizes
    /\ DOMAIN chans \subseteq DOMAIN snapshot /\ DOMAIN snapshot \subseteq ToSet(Declared)
    /\ arbitration \in [takeover_sent : BOOLEAN, replies_sent : 0..1]
    /\ cursor_trail \in Area /\ asked \in Area
    /\ server \in ServerState
TypeOK == HandshakeTypeOK /\ SessionTypeOK

\* A session exists only when the server granted that very access, over a
\* context both ends have completed and that encrypts, with nothing of the
\* exchange left on the wire (SccmSession::connect, handshake.rs).
GrantIsTheServers ==
    phase = "granted" =>
        /\ acceptor.state = "granted" /\ grant = acceptor.access
        /\ confidential /\ acceptor.tokens = Tokens
        /\ toServer = <<>> /\ toClient = <<>>

\* With the WLC channels every id the server sends data on is still routed
\* after any number of reactivations, and only the legacy set, which
\* build_wlc_channel_set does not rebuild, loses its channels that way
\* (rdp.rs, "unexpected channel ID").
ChannelsSurvive ==
    /\ stage \in {"active", "reactivating"} /\ env.arb => chans = Joined
    /\ cause = "channel" => env.channels /\ ~env.arb

\* A DemandActive ends the session exactly when the padding cannot get it right
\* (Beyond): any other one, with or without a short capability, whatever the lengths
\* around it, has a decodable frame after the padding, in the active session and
\* after a DeactivateAll; the first one, of whole capabilities, decodes without it
\* (fix_short_bitmap_cache_rev2, drive_reactivation).
ReactivationDecodes ==
    [][pdus # <<>> /\ Next1.kind = "demand" =>
          /\ cause' # cause => Beyond(Next1.frame)
          /\ Took /\ stage' = "active" => ~Beyond(Next1.frame)]_vars

\* An active session whose server is up has been painted since the last
\* activation, and its refreshes carry the server's share id, unless refreshes
\* are turned off at first or a DeactivateAll came before the activation: its
\* frame, and not the DemandActive, gives the share id (rdp.rs, the
\* DeactivateAll arm).
PaintedUnlessDeactivated ==
    stage = "active" /\ server.state = "up" /\ ~server.deactivated =>
        /\ share_id = server.share
        /\ env.refresh \/ server.attached \/ server.rounds > 0 => server.painted

\* While the share id is right, every cursor image the server left on the
\* desktop lies in the trail still to be refreshed, over reactivations and
\* points off the desktop too; and no area asked for is inverted (the trail of
\* run_active_session, flush_cursor_trail).
TrailCovers ==
    /\ stage = "active" /\ env.cursor /\ share_id = server.share =>
          \A p \in server.stamps : Inside(p, cursor_trail)
    /\ asked # NoArea => ~Inverted(asked)

\* How far the session has come on each side.  Before the connection sequence is
\* through nothing else has happened, and its DemandActive is whole; the
\* channels are those the server joined; a DeactivateAll is answered by a
\* DemandActive.
StagesInStep ==
    /\ stage = "none" => server.state = "wait" /\ pdus = <<>>
    /\ server.state # "wait" => server.share \in ShareIds
    /\ stage = "connecting" =>
          /\ server.state = "demand"
          /\ \A i \in DOMAIN pdus :
                /\ pdus[i].kind = "demand"
                /\ \A j \in DOMAIN pdus[i].frame.caps : ~Short(pdus[i].frame.caps[j])
    /\ stage \in {"none", "connecting"} =>
          /\ ~server.attached /\ server.rounds = 0 /\ ~server.deactivated
          /\ chans = NoChannels /\ snapshot = NoChannels
    /\ stage = "active" => snapshot = Joined
    /\ stage = "active" /\ server.state \in {"up", "down"} => desktop = server.desktop
    /\ stage = "reactivating" =>
          snapshot = Joined /\ server.deactivated /\ server.state \in {"down", "demand"}

\* What is in flight fits the server's state: a DemandActive is the last PDU and
\* the server's current activation, a DeactivateAll is of a server that has gone
\* down since.
FlightInStep ==
    \A i \in DOMAIN pdus :
        /\ pdus[i].kind = "demand" =>
              /\ i = Len(pdus) /\ server.state = "demand"
              /\ pdus[i].frame.share = server.share /\ pdus[i].frame.size = server.desktop
        /\ pdus[i].kind = "deactivate" =>
              server.state \in {"down", "demand"} /\ server.deactivated

\* Cursor images are on a picture the server is sending.
StampsInStep ==
    /\ server.state \in {"wait", "demand"} => server.stamps = {}
    /\ \A p \in server.stamps : Inside(p, Full(server.desktop))

\* The inductive invariant of bring-up: types, the two ends of the exchange in
\* step, a session only on the server's grant, no RDP without a session, and the
\* two ends of the session in step.
IInv ==
    /\ TypeOK /\ ExchangeInStep /\ AnswersInStep /\ GrantIsTheServers
    /\ stage # "none" => phase = "granted"
    /\ StagesInStep /\ FlightInStep /\ StampsInStep
    /\ ChannelsSurvive /\ PaintedUnlessDeactivated /\ TrailCovers

\* Bring-up ends: connect returns a session or an error, however the exchange
\* goes, with a server that answers what it gets: neither end waits for a token
\* the other does not send (SccmSession::connect).
Establishes == phase = "tcp" ~> phase \in {"granted", "failed"}

\* A session that may take hosts over gets its desktop: arbitration, the
\* attaching reactivation, the WLC handshake and the repaint follow, whatever
\* reactivation the server puts in between; again the exceptions are a
\* DeactivateAll on the attached desktop and a DemandActive the padding cannot
\* get right (ArbitrationChannel::process and the DeactivateAll arm).
Streaming == server.attached /\ server.state = "up" /\ "wlc" \in server.heard /\ server.painted
DesktopStarts ==
    stage = "active" /\ env.arb /\ env.takeover /\ env.wlc /\ ~env.once
        ~> Streaming \/ (server.attached /\ server.deactivated) \/ cause = "demand"
=============================================================================
