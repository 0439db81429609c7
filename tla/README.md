# Verification of the SCCM remote-control viewer

TLA+ models of the viewer's own logic: which session thread owns which host, how a
connection is brought up and kept through reactivations, the receive path under the RDP
session, the graphics path from compressed bits to drawing orders, pixels and the
screen, the clipboard, and what the operator's keys become on the remote. TLC checks
them on small instances; TLAPS proves the main safety properties for every value of the
constants. `PROJECT.json` lists components, runs, mutants, the map from definitions to
source lines, findings, hazards and theorems.

Paths below are relative to `crates/`.

## The system

| Component | Where | State | Operations | Talks to |
|---|---|---|---|---|
| Session lifecycle | `sccm-rc-viewer/src/main.rs`, `winhook.rs` | `running` flag, input channel, done channel, host prompt, host occupancy | spawn, reconnect loop, switch host, close, exit | UI thread and one thread per session; the server |
| Handshake | `sccm-rc-core/src/lib.rs`, `sccm-rc-protocol/src/handshake.rs` | security context, grant | connect, authenticate, wait for `SUCCESS_*` | server |
| Activation | `sccm-rc-core/src/rdp.rs` | share id, channel ids, arbitration flags, cursor trail | connect, take over, reactivate, refresh | server |
| Sealed transport | `sccm-rc-protocol/src/transport.rs`, `framing.rs`, `sccm-rc-core/src/lib.rs` | `rxbuf`, seal sequence | `recv_frame`, `recv_rdp` | TCP; the PDU loops |
| PDU loops | `sccm-rc-core/src/rdp.rs` | PDU buffer | `connect_rdp`, `run_active_session`, `drive_reactivation` | transport, IronRDP's active stage |
| Graphics path | `sccm-rc-core/src/rdp.rs` | `decompressed_extra`, `order_frag`, two streak counters | decompress, reassemble, render, give up | MPPC, order renderer |
| Order renderer | `sccm-rc-orders/src/` | order type, field memory, bounds, glyph, bitmap and palette caches, canvas | primary, secondary, altsec orders | composite |
| Bulk decompressor | `sccm-rc-protocol/src/mppc.rs` | 64 K history | decompress | graphics path |
| Frame path | `rdp.rs`, `main.rs`, `gpu.rs` | composite, pending region, `SharedFrame`, texture, redraw flags | blit, flush, copy, upload, paint | session thread and UI thread over a mutex and an event proxy |
| Clipboard, file offer, curtain | `rdp.rs`, `sccm-rc-protocol/src/cliprdr.rs` | channel readiness, offered files, known text | format list, data request, file contents | server, OS clipboard |
| Operator input | `main.rs`, `winhook.rs`, `type_text.rs` | bounded channel, view-only, held keys | key, mouse, hook, type text, paste | session thread |
| Chrome, recording, audit, diagnostics, tools | `toolbar.rs`, `record.rs`, `audit.rs`, `sccm-rc-diag`, ... | | | |

What is hard here: three kinds of threads (UI, session threads, the keyboard hook's
callback) that share flags, channels and a framebuffer; a `select!` that drops its
receive future at any await; server-driven reactivation in the middle of anything;
waits with a bound (3 s, 20 s) that race a peer; two streams with history (the
cipher's sequence, the bulk compressor) that can never be out of step by one; a
frame cap that must not strand the last frame. `PROJECT.json` has every such
place under `hazards`.

## The modules

**SessionLifecycle** (`main.rs` `spawn_session`, `run_session`, `App`; `winhook.rs`;
`lib.rs` `disconnect`). Session threads are numbered as they are spawned, 0 is the
handle of an App started without a session. Each thread has a program counter
(`top`, `connecting`, ... `finished`), a target and a `running` flag; `appTx` and
`hookTx` are the two senders of the input channel; `owner[h]` is the server's
view of host `h`: free, held by thread s, or orphaned by it (`-s`). UI actions are
`SwitchHost`, `StartSession`, `CancelPrompt`, `CloseRequested`, `Exit`, the waits split
at their `recv_timeout`. `SlowThreads` lets the 3 s waits expire on a thread that could
move; `HookBuild` is `cfg(windows)`; `LinksFail` lets a link drop.

**SealedTransport** (`transport.rs` `recv_frame`, `lib.rs` `recv_rdp`, the PDU buffer of
`rdp.rs`). Bytes are positions in the stream, so buffers are intervals and the
framing, the seal sequence and the PDU boundaries are arithmetic on them. `Cancel` is
another branch of `select!` winning while the read is pending. **PduChannel** is what
the receive path promises (PDUs once each, in order, a DemandActive only to the
activation sequence); SealedTransport implements it, with the refinement mapping
in the module. **MCSealedTransport** gives a PDU stream of four PDUs with a
DeactivateAll and a DemandActive.

**OrderPipeline** (`rdp.rs` `maybe_decompress`, `reassemble_orders`, the loop of
`run_active_session`). The server sends streams whole or in fragments, compressed or
not, several updates to a PDU; the client decompresses all updates of a PDU at once,
handles the first and queues the rest. Whether an order stream decodes is a choice.
Auxiliary: `due` (streams completed on one desktop) and `log` (results since the
last reactivation).

**FramePath** (`rdp.rs` `CompositeFrame`, `union_region`; `main.rs` `FrameSink`,
`user_event`, `about_to_wait`, `RedrawRequested`, `render_gpu`; `gpu.rs`). A pixel holds
the number of the paint that last wrote it. Paints go to the canvas or to IronRDP's
image, regions are blitted and coalesced, flushed into the `SharedFrame`, uploaded as
rows and presented under the 16 ms cap. Time is the flag `capped`; the 300 ms resync
is a choice. **MCFramePath** gives the desktop sizes.

**Clipboard** (`rdp.rs` `CliprdrChannel` and the slots `run_active_session` looks at between
PDUs; `cliprdr.rs`; `main.rs` `SendFile`, `ToggleCurtain`). `text` and `hdrop` are the OS
clipboard, `known`, `knownFiles`, `pending` and `ready` the fields of the channel, `at` the
place in the loop: a PDU is taken (`Arrive`), files and text are polled in two reads, the
offer slot and the curtain flag are looked at, then the PDU is processed, one action per
`ClipPdu`. A clipboard call that fails or times out returns nothing; a write that timed
out may land later (`LateWrite`). `Reconnect` and `ProcessDeactivate` forget what the code
forgets. The server is external and free: it pastes, asks for any entry, copies,
deactivates, and decides itself whether to send MonitorReady again afterwards. Auxiliary:
`told` (last Format List) and `described` (the descriptor sent under it).
**MCClipboard** gives two files.

**Handshake** (`lib.rs` `SccmSession::connect`, `handshake.rs`, `transport.rs`,
`framing.rs`). One connection attempt: `TcpConnect`, `Greeting`, one `Step` per turn of the
token loop, `PeerToken`, `ReadGrant`, each with its error returns. The security package
is external: an exchange is a number of `InitializeSecurityContext` calls and whether the last
of them has a token (NTLM) or not (Kerberos). `recv_frame` has no timeout here: a silent server
holds the attempt up until `run_session`'s 20 s (SessionLifecycle).

**BringUp** extends Handshake with what comes after the grant (`rdp.rs` `connect_rdp`,
`ArbitrationChannel`, `build_wlc_channel_set`, `fix_short_bitmap_cache_rev2`,
`run_active_session`, `drive_reactivation`). `env` is the choice of `SCCM_RC_*` variables;
`HandleDemandActive` and `HandleDeactivateAll` are the two ways a reactivation starts. A
DemandActive is its nested lengths, so padding it is arithmetic, with the one-byte and two-byte forms of
the MCS length as the code treats them. The server (external) is
what the code says of it: it arbitrates, attaches the shadow by a DemandActive, and ignores
PDUs with a share id that is not its own; `stamps` are the cursor images it leaves behind.

**BulkDecompressor** (`mppc.rs`). The bits of a packet, read token by token, against a compressor
(external) with the same history. History of 8 bytes of 3 bits with three offset classes stand for
64 K, 8 bits and four. `bits_left` wraps past the end, as in a release build; a packet may lose its
last byte. `sender` is the server's half (its history, the packet it builds, what it says), `client`
the decompressor's. `marks` (auxiliary) is the server's state at every token boundary of the packet,
`astray` and `strayed` say whether a cut packet has been decoded since the last flush.

**OrderDecoder** (`processor.rs`, `header.rs`, `primary.rs` `decode`, `secondary.rs`, `cache.rs`,
`cursor.rs`). Server and client each hold the order type, the fields of every order type, the
bounds and the cache cells; an order in flight carries only what changed. Updates may be cut,
given up (unknown alternate secondary order, type that is not drawn) or misread, and `lost`
(auxiliary) is what the client was told and did not take in, such as the seven bytes of a
brush pattern, which it reads past. One order is on its way at a time.

**OrderCanvas** (`canvas.rs`, `bitmap.rs`, `rop.rs`, `draw` of `primary.rs`). One order of an update on a
small canvas, each drawing operation as the loop the code runs beside the picture the order
means (`picture`).

**OperatorInput** (`main.rs` `window_event`, `about_to_wait`, `send_input`; `winhook.rs`;
`type_text.rs`). Keys pressed under the operator's hand, batches in the bounded channel, keys
down on the remote. A key goes to the hook, an overlay, a chord or the channel, in the code's
order. `swallowed` (auxiliary) is the set of keys whose last release was not sent. `loop` is the
UI thread between two events: awake, in the middle of `about_to_wait`, or asleep with the
control flow that call left behind. `about_to_wait` is two actions, the drain of the type-text prompt
and the rest, in that order; its last assignment of the control flow (1521 to 1552) decides
whether the loop wakes by itself, so the `WaitUntil` of a staged paste (1509) has no effect on
`loop`. The drain of the host prompt is `StartSession` and `CancelPrompt` of SessionLifecycle.

A definition whose comment begins "Mutant:" is a plausible bug; it is used in no
specification and only shows that a property can fail.

## The runs

| Run | Question | Result |
|---|---|---|
| `lifecycle_windows` | two threads, two hosts, hook, dropping links: who holds a host, where input goes (`HeldHostHasDriver`, `InputReachesShownHost` in `IInv`), why a host is left occupied, do shutdown, reconnect and close end | holds |
| `transport` | framing, seal, PDU buffer in step (`IInv`); implements PduChannel; is every PDU handled despite cancellations | holds |
| `orders` | compression history in step (`IInv`), streams rendered once, whole, in order; when exactly is a desynced session given up | holds |
| `frame` | is any painted pixel lost on the way to the texture, any upload unscheduled (`SharedCovered`, `TextureCovered`, `UploadIsScheduled` in `IInv`); does the last frame reach the screen | holds |
| `clipboard` | is what was announced held, are files served as described, do offer and curtain settle on what the operator last did | holds |
| `clipboard_lindex` | does an index into the descriptor always name the described file | violated: a file dropped from the descriptor shifts it |
| `decoder` | after dropped, cut and misread orders, does the client still agree with the server on all it has not missed; is what it draws what was meant; what makes it misread | holds |
| `canvas` | does each order leave the picture it means, does the dirty region cover the change, are lines straight | holds |
| `canvas_scroll` | also when a region is copied onto part of itself | violated: the scan order is the wrong way round |
| `mppc` | does decompression invert compression, within the buffer, to an end, on cut packets too | holds |
| `bringup` | no session without the server's sealed grant; channels, share id, repaint and cursor trail over reactivations; which DemandActives end the session; does connect end and the desktop start | holds |
| `input` | what can leave a key down, does typed text arrive as meant, is a staged paste decided unless the event loop sleeps for good, what passes the view-only lock | holds |

The violated runs check what a comment in the source says; `findings` quotes it.

**Known divergences.** Stated in the modules, each failing with the constants given; the
properties above are worded around them.

| Property | Shown by | What happens |
|---|---|---|
| `SessionLifecycle!ExitAfterRelease` | `HookBuild = TRUE`, `SlowThreads = FALSE`, `LinksFail = FALSE` | the hook's clone of the sender (`winhook.rs` 35) keeps the input channel open, and the process exits over a streaming session; `main.rs` 691 says closing the channel unblocks it. With `HookBuild = FALSE` it holds |
| `SessionLifecycle!LockIsForShownHost` | the same, `MaxSessions = 2` | a thread outliving the 3 s wait writes its security summary into the next host's frame (`main.rs` 867, against 268) |
| `OrderPipeline!RendersWhatWasSent` | `PlainBundles = TRUE` | of several updates in a PDU, none compressed, only the first is seen (`rdp.rs` 2070, against 1645) |
| `FramePath!CompositeIsNewest` | two sources, or `StreamsFail` | a bounding box copied from the canvas covers newer pixels (`rdp.rs` 1707, against 1153); an order stream that fails half way leaves pixels that are never blitted. With orders alone that all decode it holds |
| `OperatorInput!ViewOnlyExceptions` | names them | `main.rs` 957 says the lock suppresses all input; the hook (`winhook.rs` 123), a confirmed prompt (`main.rs` 1437) and a staged paste (`main.rs` 1472) pass it |
| `OperatorInput!FloorWakes` | the constants of `MCOperatorInput.cfg` | Ctrl, V and V up on a painted desktop with nothing to repaint: the `WaitUntil` of a staged paste (`main.rs` 1509) is overwritten by `Wait` in the same call (1552; on other paths 1521, 1536, 1547, 1549), so neither the 100 ms floor nor the 1500 ms age-out wakes the loop, and the paste waits for the next event, whenever that is; the comment at 1504 says "wake at the floor to fire the decision without stalling for user input". `PasteSettles` names the exception |
| `BringUp!ReactivationDecodes` | names them (`Beyond`) | the padding leaves a one-byte MCS length as it was (`rdp.rs` 243, though 204 accepts it), cuts a two-byte one to 15 bits and returns after the first short capability; the comment at 187 says any short Rev2 capability is padded, "fixing every enclosing length field". Such a DemandActive ends the session |
| `BringUp!PaintedUnlessDeactivated` | names it | after a DeactivateAll the client keeps the old share id (`rdp.rs` 1820), so a server that gave a new one ignores its refreshes |
| `BringUp!ChannelsSurvive` | names it | the legacy channel set is empty after a reactivation (`rdp.rs` 415) |
| `OperatorInput!TypedAsMeant` | its condition | Ctrl+Shift+V types under held modifiers (`main.rs` 1956); the fallback may fire with Ctrl down |
| `FramePath!LatestFrameLands` | its condition | a last frame refused by the surface is not presented until something else asks for a redraw |

**Bounds.** Lifecycle: two threads are enough for an old one outliving a switch and a
new one on the same or another host; a third only repeats the second. Transport:
headers of two bytes, bodies of up to three with two accepted (so oversized frames
occur), four frames, four PDUs that straddle frames. Orders: five streams of up to three
fragments, two updates to a PDU, two compressed, two desktops; streak limits 2 and 2 for
60 and 8, so that `FailLimit * OkReset` is within reach. Frames:
desktops of 2x2 and 3x1, two paints, two activations, one refused surface. Clipboard: two files (an
index can shift), one text on each side, one message on the wire to the client, a new PDU
taken only when the server has read the answers to the last, and three events together
out of copies, clicks, failing calls, vanished files, reactivations and reconnects, so that
every triple of them occurs in every order. Decoder: four orders, over two order types of
different flag sizes (so that one can be misread as the other), one bounds edge, one cache of one
cell and the waiting-list slot: enough to lose a type change, a bounds edge, a field or a cell, draw
with it and be told afresh. Canvas: 4x3 pixels, coordinates from outside to past the far edge, a
glyph whose rows need two bytes; one order, since each starts from a picture whose pixels are all
different, after any of several dirty regions. Mppc: three packets of three tokens fill the history and
come back to its front; matches reach before the front and into themselves. BringUp: exchanges
of two and three calls, with and without a last token; three settings; two share ids and two
sizes; the attaching reactivation and one more; two cursor points, one of them off the smaller
desktop. The capability lists are one of each kind the padding tells apart: whole, one short, two short, one
short in a frame with a one-byte MCS length, one in a frame just below 2^15 bytes.
Input: four acts, a channel of two batches, one lost session; one key repeats; a clipboard
with two typable characters, one of them shifted, and one that is not. Four acts are a
chord and what interferes with it, such as Ctrl, V, V up and a click.

**Fairness.** Lifecycle: the UI thread leaves its bounded waits, a session thread takes
steps it can take alone, connect's own timeout ends it, TCP keepalive ends a dead
session. Servers, operators, negotiation and reactivation (no timeout) are not fair.
Transport: weak fairness of the loops, strong fairness of `Read`: polling `recv_rdp` reads
what has arrived, but the biased `select!` looks at the operator's input first; the
assumption is that input does not win for ever. Frames: the event loop delivers events
and redraws, the interval ends, the session thread flushes when its buffer is drained.
Clipboard: the loop takes its steps, the 700 ms timer of the poll expires again and again
(strong fairness of a turn with a poll), the server reads what it is sent and keeps sending
something, because the loop looks at the slots only when a PDU has arrived. The server need
not send MonitorReady: `OfferSettles` is about sessions that have seen it. The comment at
`rdp.rs` 1831 says the channel state persists on the server over a reactivation; a server
that therefore sends no second MonitorReady hears of no later copy.
Bring-up: the client's future is polled, the server answers what it is sent and closes after a
refusal (one that waits for a token may wait for ever), the session thread handles the PDUs that arrive, and the server goes on with what it waits to do (activate,
arbitrate, attach, demand after deactivating); reactivations of its own, dying links and the
operator are not fair. Decompression: a call runs to its end. Input: time passes, an event loop that is
awake runs `about_to_wait`, and one that sleeps with a `WaitUntil` wakes when it is over. Nothing
is fair about frames, redraws and the operator, so a loop that sleeps with `Wait` may sleep for ever,
which is the one exception `PasteSettles` names.

**Deadlock** is checked in every passing run but those of FramePath and BringUp: a desktop
may simply be still, a refused connection is over. In OperatorInput a redraw is always possible; the other
modules have an explicit step for "nothing left to do".

## The proofs

Eight modules, each `EXTENDS` its component (two of them both components of a path) and TLAPS; every theorem is checked to the
last leaf for all values of the constants under the named ASSUMEs. The safety
properties of every passing run are theorems; what is left to TLC alone is liveness.

* **SessionLifecycleProofs**: `IInv` adds to the properties that a cleared `running` flag is
  never set again (`RunningIsShown`) and that unspawned numbers are unborn. From it
  `HeldHostHasDriver`, `InputReachesShownHost`, and, as action properties,
  `OrphanCauses` and `NoConnectAfterShutdown`.
* **SealedTransportProofs**: `IInv` says how the written frames lie end to end and that
  `rxStart`, `openSeq`, `bufEnd` are what the first `taken` frames add up to. From it framing,
  seal, buffer, order, nothing left at the end, and that the receive path
  implements `PduChannel`, step by step.
* **GraphicsPathProofs**, the way to the order decoder. OrderPipeline: `IInv` states both streak counters as functions of the log
  (`StreaksFollowLog`): `okStreak` is the clean run it ends with, `failStreak` counts failures no
  long run has followed. From it `HistoryInSync`, `GivesUpExactly`, `RecoveryBound`. The
  bound holds while no run of `OkReset` clean streams occurs: one such run rightly
  clears the streak. `RendersWhatWasSent` compares the client with a server that is ahead
  of it, so it is not inductive: `OnCourse` says where the updates on their way (`extra`, then
  `wire`) will lead the client (`TookAll`), namely to all the server has completed and to the
  stream it has open on this desktop. An update sent leads one update further, an update
  handled leads to the same end, a reactivation starts with none on their way and none
  open. The theorem `Renders` has the hypothesis `~PlainBundles`, since with
  `PlainBundles` the property fails (known divergences).

  BulkDecompressor, the other end of `HistoryInSync`: fed every compressed update in order,
  does `decompress()` give back what was compressed? The inductive invariant `MppcInv` compares
  two machines that are at different places, the server past the end of the packet, the client
  somewhere inside it, so it needs a place where they can be compared: `TokensSpelled` says that
  the bits between two `marks` are one token taking the server from the one to the other, `InStep`
  that the client stands at a mark with that mark's history, pointer and plaintext. The proof goes
  up by layers: `Pow2` and the bit reader (what `Bits` writes, `ReadBits` reads), offset and length
  codes (`OffsetDecodes`, `LengthDecodes`: the reader stops at the 0 that ends the code and at no
  earlier one), the copy loop (`CopiedIsMatched`: copying byte by byte from a source that may be the
  bytes just written is the match repeated, and a source wrapped to the part kept from before the
  front lies ahead of the pointer and is read before it is overwritten), one token (`TokenDecoded`), one packet. No token is
  shorter than a byte, so fewer than 8 bits are padding and never a token, and a packet that loses
  its last byte loses bits of its last token only. `CopiesInside` (`WindowSafe`) needs none of this: it
  holds for any bits at all. Assumed: `ClassesAssumption` (an offset class carries at least 6 bits,
  two less than a byte; the last class starts at 0), `AlphabetAssumption` and `MatchAssumption`
  (the server's matches have a code): all so in `decode_offset` (133 to 143), `decode_length`
  and a byte. `DecompressesWhatWasSent` says nothing of compressed packets between a cut one and
  the next flush, where it is false.
* **FramePathProofs**: the properties are inductive together with types. The argument:
  a union covers what its parts cover, clamping loses no pixel of the desktop, so a paint
  leaves a pixel covered or unchanged, a flush moves the cover from `pending` to `dirty`, an
  upload clears it by making the rows equal.
* **OrderRendererProofs**, the two halves of `sccm-rc-orders`. OrderDecoder: `InSync` says that client and server agree on every order type, field,
  bounds edge and cache cell that is not in `lost`; it becomes inductive with
  `InFlightInSync`, the same for the order that is on its way, which was encoded against
  the server's state of that moment. From it `DrawsAsMeant` and, as an action property,
  `NoiseOnlyAfterLoss`: an order is read as something it is not only after a loss.

  OrderCanvas: `CanvasInv` is types, `RendersAsMeant` and `DirtyCovers`; the work is in the loops.
  Every drawing operation is shown to paint the picture its order means and to report a rectangle
  outside of which nothing changed (`Confined`), whatever the rectangle, clip, bitmap or glyph
  (`ClipIsVisible`: the clipped loops visit exactly the visible pixels). `copy_rect` is shown correct
  when source and destination share no pixel, which is the hypothesis `~Overlaps` of
  `OrdersRender`; with `Overlaps` the run `canvas_scroll` shows it false. `DirtyIsEnough` and
  `LinesAreStraight` have no such hypothesis. A line: after i steps along its longer axis a and j along the shorter b,
  `2 |a j - b i| <= max(a, b)`; with it the longer axis is stepped at every turn, so the loop
  ends at the other end after as many turns. Assumed: `TileAssumption` and `GlyphAssumption` (a tile has a
  width, a glyph's ink lies inside it), `RectsAssumption`.
* **BringUpProofs** (and Handshake, which BringUp extends): `IInv` adds how far the token
  exchange is at either end (`ExchangeInStep`, `AnswersInStep`), which stage the session may be in
  (`StagesInStep`), that what is in flight fits the server's state (`FlightInStep`) and that cursor
  stamps are on a picture the server is sending (`StampsInStep`). From it: no grant but the server's own, sealed one;
  `ChannelsSurvive`, `ReactivationDecodes`, `PaintedUnlessDeactivated`, `TrailCovers`. The padding of
  a short capability is a lemma on the lengths of any list of capabilities. It needs
  `LengthAssumption` only: the frame as the server sends it has an MCS length that fits its 15 bits.
  `PaddedDecodes`: the padded frame decodes exactly when the list is not `Beyond`, that is, unless a second
  capability is short, or one is short and the MCS length has one byte or outgrows its two
  (`fix_short_bitmap_cache_rev2`, `rdp.rs` 187, returns after the first and patches only the two-byte form). So
  the theorem says which DemandActives end a session and which do not, for any of them;
  it is an action property, because the DemandActive is gone from the queue when it has ended the session.
* **ClipboardProofs**: `ToldIsHeld` (what the last Format List announced is what the channel holds)
  with `OffersInStep`: a descriptor with as many files as are pending is of those files, and
  between the two reads of a poll the flag says whether a list is still owed. From them
  `ServedIsDescribed`, as an action property: what is served under an index is what was
  described there.
* **OperatorInputProofs**: `StuckKeyHasCause` speaks of the remote, which sees a batch long after
  it was put into the channel. `IInv` therefore says of every batch in the channel that it is
  one event or lets go of what it presses (`BatchesClosed`) and types the typable characters of
  its text and nothing else (`BatchesType`), and of every key that is down, or will be when the
  channel is drained, why (`StuckHasCause`). From it `TypedAsMeant` and the action property `ViewOnlyExceptions`.
  `LayoutAssumption`: every character of the table has a scancode and Shift state of its
  own, and none is a modifier's; both are so in `ascii_to_scancode` (`type_text.rs` 130).

The operators that walk a sequence or a loop (`TookAll`, `Encoded`, `Only`, `After`, `CapsLen`,
`Shifted`, `Copied`, the loops of OrderCanvas) are recursive functions. What they compute for every input is proved from the well-foundedness of
the naturals: the least position where a claim fails is not 0 and not the next after
one where it holds (lemmas `LeastNat` and `UpTo`).

Only model-checked: liveness (every property with `<>` or `~>`), because the prover has
neither fairness nor ENABLED: that shutdown drains, a lost session reconnects and closing ends,
that every PDU is handled, the latest frame lands, offer and curtain settle, a staged paste is decided,
`connect` ends and the desktop starts, and that `decompress()` terminates.

## Not modelled

The cipher and Kerberos (external, only their sequence counts and their outcome), IronRDP's
connector and active stage (vendored or external), the softbuffer fallback, cursor and toolbar
layers, shaders, text and toolbar drawing, recording, audit, reports, wake-on-LAN,
recent hosts, the diagnostics crate and the developer binaries: pure I/O or drawing
without protocol state.

Within the modelled parts: runs of several glyphs with their fragments and the glyph cells
FastGlyph fills while drawing (the decoder's `Touched` excludes glyph data), interleaved RLE and
colour conversion of bitmaps, 8 bpp palettes in use, `i32` saturation (fields have 16
bits), editing in the host prompt, monitor cropping and coordinate mapping of the mouse.

## Plan

1. Done: the models and their runs.
2. Done: the proofs of the safety properties of every module, and of the refinement of PduChannel.
3. Left: the parts named above as not modelled.
