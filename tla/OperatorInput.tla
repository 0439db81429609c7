---------------------------- MODULE OperatorInput ----------------------------
(***************************************************************************)
(* The operator's way to the remote keyboard: the window's key and mouse    *)
(* handlers, the low-level keyboard hook, the type-text overlay, the Ctrl+V *)
(* fallback with its two timers, the event loop that has to be awake for    *)
(* them, and the bounded channel they share, which outlives a reconnect of  *)
(* the session thread.                                                      *)
(*                                                                          *)
(* crates/sccm-rc-viewer/src/main.rs, winhook.rs, type_text.rs              *)
(*                                                                          *)
(* A key is a name and "left" is the left mouse button.  Everything is put  *)
(* into the channel with try_send, as a batch of events: what does not fit  *)
(* is gone.  `swallowed`, `typed` and a batch's `text` are auxiliary.  Keys *)
(* pressed and released while the type-text overlay is up are one edit.     *)
(* Losing the focus sends nothing; releases that winit makes up then are    *)
(* those of an operator who lets go first.                                  *)
(***************************************************************************)
EXTENDS Integers, SequencesExt

CONSTANTS
    Keys,        \* keys the operator uses, by name
    Repeats,     \* bound: those of them the operator holds until they repeat
    Scancode,    \* ascii_to_scancode: typable character -> [key, shift]
    Printable,   \* characters that are not control characters
    Clip,        \* the text on the local clipboard
    Capacity,    \* of the input channel (256)
    MaxInput,    \* bound: characters in the overlay
    MaxActs,     \* bound: acts of the operator
    MaxDrops     \* bound: times the session is lost

ASSUME InputAssumption ==
    /\ Capacity \in Nat \ {0} /\ {MaxInput, MaxActs, MaxDrops} \subseteq Nat
    /\ Clip \in Seq(STRING)

Modifiers == {"ctrl", "shift", "alt", "win"}

\* The table has a scancode and a shift state of its own for every character,
\* and no modifier's scancode.
ASSUME LayoutAssumption ==
    /\ \A c \in DOMAIN Scancode : /\ Scancode[c] \in [key : STRING, shift : BOOLEAN]
                                 /\ Scancode[c].key \notin Modifiers \union {"pointer"}
    /\ \A c, d \in DOMAIN Scancode : Scancode[c] = Scancode[d] => c = d

VARIABLES
    pressed,     \* keys physically down
    focused,     \* the window has the focus, and ACTIVE
    hooked,      \* SetWindowsHookExW succeeded
    view_only,   \* the local view-only lock
    overlay,     \* "none", "about" or "type"
    prompt,      \* TypeTextOverlay: [input, outcome]
    paste,       \* paste_pending: [age, baseline, v_released], or none
    counter,     \* cliprdr_req_counter
    channel,     \* batches in the input channel
    linked,      \* the session thread reads the channel
    remote,      \* keys down on the remote, and whether it will ask for text
    swallowed,   \* keys whose last release did not go into the channel
    typed,       \* what the last batch typed on the remote, if it was text
    loop,        \* the UI thread: "awake" has about_to_wait before it, "drained" is in
                 \* the middle of it, "wait" and "until" sleep with that ControlFlow
    repaints,    \* the desktop is not painted yet, or a repaint was deferred
    acts, drops  \* counters for the bounds

vars == <<loop, repaints, pressed, focused, hooked, view_only, overlay, prompt, paste, counter,
          channel, linked, remote, swallowed, typed, acts, drops>>
window == <<focused, hooked, view_only, overlay, prompt>>
session == <<counter, linked, remote, typed, drops>>
eventLoop == <<loop, repaints>>

NoPaste == [age |-> -1, baseline |-> 0, v_released |-> FALSE]
NoText == [meant |-> <<>>, got |-> <<>>, clean |-> TRUE, left |-> {}]
NoOutcome == [kind |-> "none", text |-> <<>>]
EmptyPrompt == [input |-> <<>>, outcome |-> NoOutcome]

Init ==
    /\ pressed = {} /\ focused = TRUE /\ hooked \in BOOLEAN /\ view_only = FALSE
    /\ overlay = "none" /\ prompt = EmptyPrompt /\ paste = NoPaste /\ counter = 0
    /\ channel = <<>> /\ linked = TRUE
    /\ remote = [held |-> {}, wants |-> FALSE]
    /\ swallowed = {} /\ typed = NoText
    /\ loop = "awake" /\ repaints = TRUE
    /\ acts = 0 /\ drops = 0

-----------------------------------------------------------------------------
(* Batches *)

Down(k) == [key |-> k, down |-> TRUE]
Up(k) == [key |-> k, down |-> FALSE]
Batch(events, text) == [events |-> events, text |-> text]
Single(e) == Batch(<<e>>, <<>>)

\* try_send: a full channel drops the batch.
Fits == Len(channel) < Capacity
Offer(b) == channel' = IF Fits THEN Append(channel, b) ELSE channel

\* Mutant: Shift is only let go by the next character.
PutKeepsShift(acc, c) ==
    IF c \notin DOMAIN Scancode THEN acc
    ELSE [acc EXCEPT !.out = @ \o (IF Scancode[c].shift THEN <<Down("shift")>> ELSE <<>>)
                              \o <<Down(Scancode[c].key), Up(Scancode[c].key)>>]
\* One character of encode_string: pressed and released when it is typable, Shift
\* pressed before when it needs it and let go when it does not.
Put(acc, c) ==
    IF c \notin DOMAIN Scancode THEN acc
    ELSE LET s == Scancode[c]
             turn == IF s.shift = acc.shift THEN <<>>
                     ELSE IF s.shift THEN <<Down("shift")>> ELSE <<Up("shift")>>
         IN  [shift |-> s.shift, out |-> acc.out \o turn \o <<Down(s.key), Up(s.key)>>]
Encoded(text) ==
    LET put[n \in 0..Len(text)] ==
            IF n = 0 THEN [shift |-> FALSE, out |-> <<>>] ELSE Put(put[n - 1], text[n])
    IN  put[Len(text)]
\* encode_string: every character, and Shift let go at the end.
EncodeString(text) ==
    Encoded(text).out \o (IF Encoded(text).shift THEN <<Up("shift")>> ELSE <<>>)

\* The characters of text that are in S.
Only(text, S) ==
    LET kept[n \in 0..Len(text)] ==
            IF n = 0 THEN <<>>
            ELSE IF text[n] \in S THEN Append(kept[n - 1], text[n]) ELSE kept[n - 1]
    IN  kept[Len(text)]
Typable(text) == Only(text, DOMAIN Scancode)
TextBatch(text) == Batch(EncodeString(text), Typable(text))
OfferText(text) == IF EncodeString(text) = <<>> THEN UNCHANGED channel
                   ELSE Offer(TextBatch(text))

\* send_ctrl_alt_del and the Windows-key tap, one batch each.
CtrlAltDel == Batch(<<Down("ctrl"), Down("alt"), Down("del"), Up("del"), Up("alt"),
                      Up("ctrl")>>, <<>>)
WinTap == Batch(<<Down("win"), Up("win")>>, <<>>)
\* Mutant: a chord forgets the lock.
OfferAlways(b) == Offer(b)
\* Chords, taps, moves and the wheel respect the view-only lock.
OfferUnlessViewOnly(b) == IF view_only THEN UNCHANGED channel ELSE Offer(b)

\* send_input for one key.
Forward(e) ==
    LET sent == ~view_only /\ Fits
    IN  /\ channel' = IF sent THEN Append(channel, Single(e)) ELSE channel
        /\ swallowed' = IF sent THEN swallowed \ {e.key}
                        ELSE IF e.down THEN swallowed ELSE swallowed \union {e.key}
\* A release nobody forwards.
Swallow(k) == swallowed' = swallowed \union {k} /\ UNCHANGED channel

-----------------------------------------------------------------------------
(* The keyboard *)

\* One act of the operator.  An event the window sees wakes the event loop; what
\* the hook takes or happens without the focus does not.
Act(seen) ==
    /\ acts < MaxActs /\ acts' = acts + 1
    /\ loop # "drained" /\ loop' = (IF seen THEN "awake" ELSE loop)
    /\ UNCHANGED repaints
Ctrl == "ctrl" \in pressed
Shift == "shift" \in pressed
Alt == "alt" \in pressed

\* hook_proc: while the window is active it takes the Windows key, and Escape
\* with Ctrl, for itself.  It does not know the view-only lock, and gives up
\* when it does not get the mutex.
TakenByHook(k) == hooked /\ focused /\ (k = "win" \/ (k = "esc" /\ Ctrl))
SeenByWindow(k) == focused /\ ~TakenByHook(k)
HookSends(b, released) ==
    \/ Fits /\ channel' = Append(channel, b) /\ swallowed' = swallowed \ released
    \/ UNCHANGED channel /\ swallowed' = swallowed \union released
\* The Windows key goes down; Escape with Ctrl stands for a tap of it.
HookDown(k) == HookSends(IF k = "win" THEN Single(Down("win")) ELSE WinTap, {})
\* Mutant: the hook swallows the release as well as the press.
HookUpIgnored(k) == UNCHANGED <<channel, swallowed>>
\* The Windows key's release follows its press; Escape's is kept.
HookUp(k) == IF k = "win" THEN HookSends(Single(Up("win")), {"win"}) ELSE Swallow(k)

\* The chords the window keeps for itself, down or up.
SasChord(k) == k = "end" /\ Ctrl /\ Alt
TypeChord(k) == k = "v" /\ Ctrl /\ Shift
LocalChord(k) == k \in {"esc", "tab"} /\ Ctrl
Arms(k) == k = "v" /\ Ctrl /\ ~Shift /\ ~Alt /\ ~view_only /\ Clip # <<>>

\* KeyboardInput, pressed.  A repeat is a press of a key that is down.
Pressed(k) ==
    IF SasChord(k) THEN OfferUnlessViewOnly(CtrlAltDel) /\ UNCHANGED <<paste, swallowed>>
    ELSE IF TypeChord(k) THEN
        /\ IF view_only THEN UNCHANGED channel ELSE OfferText(Clip)
        /\ UNCHANGED <<paste, swallowed>>
    ELSE IF LocalChord(k) THEN
        /\ IF k = "esc" THEN OfferUnlessViewOnly(WinTap) ELSE UNCHANGED channel
        /\ UNCHANGED <<paste, swallowed>>
    ELSE /\ Forward(Down(k))
         /\ paste' = IF Arms(k) THEN [age |-> 0, baseline |-> counter, v_released |-> FALSE]
                     ELSE paste
\* KeyboardInput, released.
Released(k) ==
    /\ paste' = IF k = "v" /\ paste # NoPaste
                THEN [paste EXCEPT !.v_released = TRUE] ELSE paste
    /\ IF LocalChord(k) THEN Swallow(k) ELSE Forward(Up(k))

KeyDown(k) ==
    /\ Act(SeenByWindow(k)) /\ (k \notin pressed \/ k \in Repeats) /\ pressed' = pressed \union {k}
    /\ CASE ~focused -> UNCHANGED <<channel, paste, swallowed, overlay>>
         [] TakenByHook(k) -> HookDown(k) /\ UNCHANGED <<paste, overlay>>
         [] ~TakenByHook(k) /\ focused /\ overlay = "about" ->
               /\ overlay' = IF k = "esc" THEN "none" ELSE overlay
               /\ UNCHANGED <<channel, paste, swallowed>>
         [] ~TakenByHook(k) /\ focused /\ overlay = "type" ->
               UNCHANGED <<channel, paste, swallowed, overlay>>
         [] OTHER -> Pressed(k) /\ UNCHANGED overlay
    /\ UNCHANGED <<focused, hooked, view_only, prompt, session>>
KeyUp(k) ==
    /\ Act(SeenByWindow(k)) /\ k \in pressed /\ pressed' = pressed \ {k}
    /\ CASE ~focused -> Swallow(k) /\ UNCHANGED paste
         [] TakenByHook(k) -> HookUp(k) /\ UNCHANGED paste
         [] ~TakenByHook(k) /\ focused /\ overlay # "none" -> Swallow(k) /\ UNCHANGED paste
         [] OTHER -> Released(k)
    /\ UNCHANGED <<window, session>>

-----------------------------------------------------------------------------
(* The mouse and the toolbar *)

\* MouseInput off the toolbar: the About overlay closes, the type-text overlay
\* keeps the click (its buttons are edits), the desktop gets it.
MouseDown ==
    /\ Act(TRUE) /\ focused /\ "left" \notin pressed /\ pressed' = pressed \union {"left"}
    /\ overlay' = IF overlay = "about" THEN "none" ELSE overlay
    /\ IF overlay = "none" THEN Forward(Down("left")) ELSE UNCHANGED <<channel, swallowed>>
    /\ UNCHANGED <<focused, hooked, view_only, prompt, paste, session>>
MouseUp(onToolbar) ==
    /\ Act(TRUE) /\ focused /\ "left" \in pressed /\ pressed' = pressed \ {"left"}
    /\ IF onToolbar \/ overlay # "none" THEN Swallow("left") ELSE Forward(Up("left"))
    /\ UNCHANGED <<window, paste, session>>
\* CursorMoved, coalesced, and MouseWheel, which no overlay stops.
MoveOrScroll(wheel) ==
    /\ Act(TRUE) /\ (wheel \/ overlay # "type")
    /\ OfferUnlessViewOnly(Single(Down("pointer")))
    /\ UNCHANGED <<pressed, window, paste, session, swallowed>>

\* run_toolbar_action, by a click that stays on the toolbar.
Toolbar(action) ==
    /\ Act(TRUE) /\ focused /\ overlay = "none" /\ "left" \notin pressed
    /\ CASE action = "cad" -> OfferUnlessViewOnly(CtrlAltDel)
         [] action = "win" -> OfferUnlessViewOnly(WinTap)
         [] OTHER -> UNCHANGED channel
    /\ view_only' = (IF action = "view_only" THEN ~view_only ELSE view_only)
    /\ overlay' = IF action \in {"type", "about"} THEN action ELSE overlay
    /\ prompt' = IF action = "type" THEN EmptyPrompt ELSE prompt
    /\ UNCHANGED <<pressed, focused, hooked, paste, session, swallowed>>

\* Focused: the hook is active with the window.
FocusChanges ==
    /\ Act(TRUE) /\ focused' = ~focused
    /\ UNCHANGED <<pressed, hooked, view_only, overlay, prompt, paste, channel,
                   session, swallowed>>

-----------------------------------------------------------------------------
(* The type-text overlay *)

\* on_text drops control characters; on_backspace, on_clear, on_enter, on_esc.
Edit(p, kind, c) ==
    CASE kind = "text" -> [p EXCEPT !.input = @ \o Only(<<c>>, Printable)]
      [] kind = "paste" -> [p EXCEPT !.input = @ \o Only(Clip, Printable)]
      [] kind = "backspace" -> [p EXCEPT !.input = IF @ = <<>> THEN @ ELSE Front(@)]
      [] kind = "clear" -> [p EXCEPT !.input = <<>>]
      [] kind = "enter" -> IF p.input = <<>> THEN p
                           ELSE [p EXCEPT !.outcome = [kind |-> "confirmed", text |-> p.input]]
      [] kind = "esc" -> [p EXCEPT !.outcome = [kind |-> "cancelled", text |-> <<>>]]
TypeEdit ==
    /\ Act(TRUE) /\ focused /\ overlay = "type"
    /\ \E kind \in {"text", "paste", "backspace", "clear", "enter", "esc"},
          c \in DOMAIN Scancode :
          /\ prompt' = Edit(prompt, kind, c)
          /\ Len(prompt'.input) <= MaxInput
    /\ UNCHANGED <<pressed, focused, hooked, view_only, overlay, paste, channel,
                   session, swallowed>>

\* about_to_wait first sends the prompt's outcome, whatever the view-only lock says.
PromptDone == overlay = "type" /\ prompt.outcome.kind # "none"
DrainTypePrompt ==
    /\ loop = "awake" /\ PromptDone /\ loop' = "drained"
    /\ IF prompt.outcome.kind = "confirmed" THEN Offer(TextBatch(prompt.outcome.text))
       ELSE UNCHANGED channel
    /\ overlay' = "none" /\ prompt' = EmptyPrompt
    /\ UNCHANGED <<pressed, focused, hooked, view_only, paste, session, swallowed, acts,
                   repaints>>

-----------------------------------------------------------------------------
(* The Ctrl+V fallback *)

\* Time passes: age 1 is FLOOR (100 ms), age 2 is AGE_OUT (1500 ms).
TimePasses ==
    /\ paste # NoPaste /\ paste.age < 2
    /\ paste' = [paste EXCEPT !.age = @ + 1]
    /\ UNCHANGED <<pressed, window, channel, session, swallowed, acts, eventLoop>>

\* Mutant: a missed release is never aged out.
ReadyOnRelease == paste.v_released /\ paste.age >= 1
\* V is up and the floor has passed, or the paste has aged out.
Ready == (paste.v_released /\ paste.age >= 1) \/ paste.age >= 2
\* The control flow about_to_wait leaves: a wake-up while the overlay's caret
\* blinks, the connect spinner turns or a repaint is due, and otherwise none.  The
\* wake-up it sets for a pending paste is overwritten by this one every time.
ControlFlow == IF overlay = "type" \/ repaints THEN "until" ELSE "wait"
\* The rest of about_to_wait: a paste that is ready is decided, by typing the
\* clipboard when the remote has not asked for it.
DecidePaste ==
    /\ loop = "drained" \/ (loop = "awake" /\ ~PromptDone)
    /\ loop' = ControlFlow
    /\ IF paste # NoPaste /\ Ready
       THEN /\ IF counter = paste.baseline THEN OfferText(Clip) ELSE UNCHANGED channel
            /\ paste' = NoPaste
       ELSE UNCHANGED <<channel, paste>>
    /\ UNCHANGED <<pressed, window, session, swallowed, acts, repaints>>

-----------------------------------------------------------------------------
(* What else wakes the event loop *)

asleep == <<pressed, window, paste, channel, session, swallowed, acts>>
\* The wake-up of the control flow.
TimerFires ==
    /\ loop = "until" /\ loop' = "awake"
    /\ UNCHANGED <<asleep, repaints>>
\* A frame or a status of the session thread, or a redraw that a handler asked
\* for: it paints, or is deferred by the frame cap.
Redraws ==
    /\ loop # "drained" /\ loop' = "awake" /\ repaints' \in BOOLEAN
    /\ UNCHANGED asleep

-----------------------------------------------------------------------------
(* The session thread and the remote *)

\* What the events of a batch do to the remote's keyboard (external): a
\* character comes out when no modifier but Shift is down.
Press(r, e) ==
    LET chars == {c \in DOMAIN Scancode : Scancode[c].key = e.key
                     /\ Scancode[c].shift = ("shift" \in r.held)}
        plain == r.held \intersect (Modifiers \ {"shift"}) = {}
    IN  IF ~e.down THEN [r EXCEPT !.held = @ \ {e.key}]
        ELSE [held |-> r.held \union ({e.key} \ {"pointer"}),
              out |-> IF plain /\ chars # {} THEN Append(r.out, CHOOSE c \in chars : TRUE)
                      ELSE r.out,
              wants |-> r.wants \/ (e.key = "v" /\ "ctrl" \in r.held)]

After(r, events) ==
    LET after[n \in 0..Len(events)] == IF n = 0 THEN r ELSE Press(after[n - 1], events[n])
    IN  after[Len(events)]

\* run_active_session takes a batch from the channel and sends it.
ForwardBatch ==
    /\ linked /\ channel # <<>>
    /\ LET b == Head(channel)
           r == After([held |-> remote.held, out |-> <<>>, wants |-> remote.wants], b.events)
       IN  /\ remote' = [held |-> r.held, wants |-> r.wants]
           /\ typed' = IF b.text = <<>> THEN NoText
                       ELSE [meant |-> b.text, got |-> r.out,
                             clean |-> remote.held \intersect Modifiers = {},
                             left |-> r.held \ remote.held]
    /\ channel' = Tail(channel)
    /\ UNCHANGED <<eventLoop, pressed, window, paste, counter, linked, swallowed, acts,
                   drops>>

\* The remote asks for the clipboard, unless a secure desktop has it not paste.
RemoteAsks ==
    /\ remote.wants /\ linked
    /\ remote' = [remote EXCEPT !.wants = FALSE] /\ counter' = counter + 1
    /\ UNCHANGED <<eventLoop, pressed, window, paste, channel, linked, swallowed, typed,
                   acts, drops>>

\* The session is lost and comes back to the same channel, with what is in it.
SessionLost ==
    /\ linked /\ drops < MaxDrops /\ linked' = FALSE /\ drops' = drops + 1
    /\ UNCHANGED <<eventLoop, pressed, window, paste, counter, channel, remote, swallowed,
                   typed, acts>>
SessionBack ==
    /\ ~linked /\ linked' = TRUE
    /\ \/ UNCHANGED remote
       \/ remote' = [held |-> {}, wants |-> FALSE]
    /\ UNCHANGED <<eventLoop, pressed, window, paste, counter, channel, swallowed, typed,
                   acts, drops>>

-----------------------------------------------------------------------------
Operator ==
    \/ \E k \in Keys : KeyDown(k) \/ KeyUp(k)
    \/ MouseDown
    \/ \E b \in BOOLEAN : MouseUp(b) \/ MoveOrScroll(b)
    \/ \E a \in {"cad", "win", "view_only", "type", "about"} : Toolbar(a)
    \/ FocusChanges \/ TypeEdit
AboutToWait == DrainTypePrompt \/ DecidePaste
Next ==
    \/ Operator /\ UNCHANGED drops
    \/ AboutToWait \/ TimerFires \/ Redraws \/ TimePasses
    \/ ForwardBatch \/ RemoteAsks \/ SessionLost \/ SessionBack

\* The event loop calls about_to_wait when it has handled its events, and again
\* when the control flow's time has come.  No frame, redraw or act of the operator
\* has to come.
Spec == Init /\ [][Next]_vars
        /\ WF_vars(TimePasses) /\ WF_vars(AboutToWait) /\ WF_vars(TimerFires)

-----------------------------------------------------------------------------
KeyNames == Keys \union {Scancode[c].key : c \in DOMAIN Scancode} \union Modifiers
                \union {"del", "left", "pointer"}
InputEvent == [key : KeyNames, down : BOOLEAN]
InputBatch == [events : Seq(InputEvent), text : Seq(DOMAIN Scancode)]
WindowOK ==
    /\ pressed \subseteq Keys \union {"left"} /\ swallowed \subseteq Keys \union {"left"}
    /\ focused \in BOOLEAN /\ hooked \in BOOLEAN /\ view_only \in BOOLEAN
    /\ overlay \in {"none", "about", "type"}
    /\ loop \in {"awake", "drained", "wait", "until"} /\ repaints \in BOOLEAN
    /\ prompt \in [input : Seq(Printable),
                   outcome : [kind : {"none", "confirmed", "cancelled"}, text : Seq(Printable)]]
PasteOK == paste \in [age : -1..2, baseline : Nat, v_released : BOOLEAN] /\ counter \in Nat
ChannelOK ==
    /\ channel \in Seq(InputBatch) /\ Len(channel) <= Capacity /\ linked \in BOOLEAN
    /\ remote \in [held : SUBSET KeyNames, wants : BOOLEAN]
TypeOK == WindowOK /\ PasteOK /\ ChannelOK

\* A key that is down on the remote, up under the operator's hand and not in
\* the channel is there for one reason only: its last release was swallowed,
\* by an overlay, the view-only lock, the toolbar, a chord, the hook's mutex,
\* a window without the focus or a full channel (send_input, KeyboardInput,
\* MouseInput, hook_proc).  No order of chords, taps, typed text and
\* reconnects leaves one down otherwise.
StuckKeyHasCause ==
    channel = <<>> => remote.held \ pressed \subseteq swallowed

\* Typed text arrives as it was meant, each typable character once and in
\* order, and leaves no key down, whenever it finds no modifier down; text
\* typed while the operator holds one (Ctrl+Shift+V, a fallback that fires
\* before Ctrl is up) is not protected (encode_string).
TypedAsMeant == typed.clean => typed.got = typed.meant /\ typed.left = {}

\* about_to_wait: "wake at the floor to fire the decision without stalling for user
\* input".  Not so: the wake-up is overwritten, and on an idle desktop the event loop
\* sleeps past the floor (README, known divergences).
FloorWakes == paste.v_released ~> paste = NoPaste

\* A staged paste is decided, by its floor or its age, also when V's release never
\* comes, whatever overlay is up, however prompts are confirmed and the session comes
\* and goes meanwhile; unless the event loop sleeps for good with ControlFlow::Wait
\* (about_to_wait, AGE_OUT).
PasteSettles == (paste # NoPaste ~> paste = NoPaste) \/ <>[](loop = "wait")

\* With the view-only lock on, three things still send input: a key the hook
\* takes, a confirmed type-text prompt and a paste staged before.  No chord,
\* tap, toolbar button, key, click, move or wheel does (App::view_only:
\* "suppress all input to the remote").
ViewOnlyExceptions ==
    [][view_only /\ Len(channel') > Len(channel) =>
          \/ AboutToWait
          \/ \E k \in Keys : TakenByHook(k) /\ (KeyDown(k) \/ KeyUp(k))]_vars

\* A batch is one event, or lets go of every key it presses.
Closed(b) ==
    \A i \in DOMAIN b.events : b.events[i].down =>
        \E j \in DOMAIN b.events : i < j /\ b.events[j] = Up(b.events[i].key)
LonePress(b) == Len(b.events) = 1 /\ b.events[1].down
BatchesClosed == \A i \in DOMAIN channel : LonePress(channel[i]) \/ Closed(channel[i])

\* The text of a batch is what its events type, and came from the clipboard or
\* the prompt.
SourceTexts == {Clip} \union UNION {[1..n -> Printable] : n \in 0..MaxInput}
PromptFits == Len(prompt.input) <= MaxInput /\ Len(prompt.outcome.text) <= MaxInput
BatchesType == \A i \in DOMAIN channel : channel[i].text # <<>> =>
                  \E text \in SourceTexts : channel[i] = TextBatch(text)

\* A key that is down, or will be when the channel is drained, and is up under the
\* operator's hand: its last release was swallowed.
Releases(b, k) == \E j \in DOMAIN b.events : b.events[j] = Up(k)
Stays(k, i) == \A j \in DOMAIN channel : j > i => ~Releases(channel[j], k)
StuckHasCause ==
    /\ \A k \in remote.held : Stays(k, 0) => k \in pressed \union swallowed
    /\ \A i \in DOMAIN channel : \A k \in KeyNames \ {"pointer"} :
          LonePress(channel[i]) /\ channel[i].events[1].key = k /\ Stays(k, i) =>
              k \in pressed \union swallowed

\* The inductive invariant: types, what the batches in the channel are, and the
\* keys they leave down.
IInv ==
    /\ TypeOK /\ StuckKeyHasCause
    /\ PromptFits /\ BatchesClosed /\ BatchesType /\ StuckHasCause
=============================================================================
