--------------------------- MODULE SessionLifecycle ---------------------------
(***************************************************************************)
(* The life of remote-control sessions in the viewer: the winit (UI) thread *)
(* that starts, switches and closes sessions, the session thread that each  *)
(* start spawns with its auto-reconnect loop, the input-channel senders     *)
(* held by the App and by the low-level keyboard hook, and the occupancy of *)
(* each SCCM host as its server sees it.                                    *)
(*                                                                          *)
(* crates/sccm-rc-viewer/src/main.rs (spawn_session, run_session, App),     *)
(* crates/sccm-rc-viewer/src/winhook.rs (INPUT_TX),                         *)
(* crates/sccm-rc-core/src/lib.rs (SccmSession::connect, disconnect).       *)
(*                                                                          *)
(* Session threads are numbered in the order they are spawned.  Number 0 is *)
(* the handle main() builds when it starts without a session: a running     *)
(* flag that is false and a done channel whose sender is already dropped.   *)
(***************************************************************************)
EXTENDS Integers

CONSTANTS
    Hosts,        \* names of SCCM hosts
    MaxSessions,  \* bound: session threads spawned in one run of the viewer
    MaxPdus,      \* bound: whole PDUs one sealed chunk can bring
    HookBuild,    \* cfg(windows): the keyboard hook holds a sender too
    SlowThreads,  \* the 3 s waits may also expire on a thread that can move
    LinksFail     \* established links may drop

ASSUME HostsAssumption == Hosts # {}
ASSUME BoundsAssumption ==
    /\ MaxSessions \in Nat \ {0}
    /\ MaxPdus \in Nat \ {0}
ASSUME SwitchesAssumption == {HookBuild, SlowThreads, LinksFail} \subseteq BOOLEAN

VARIABLES
    ui,       \* where the UI thread is
    prompt,   \* host_prompt.is_some()
    cur,      \* the thread whose running flag and done_rx the App holds
    spawned,  \* threads spawned so far
    pc,       \* where each session thread is
    target,   \* the host each thread drives
    running,  \* each thread's `running` flag
    inbuf,    \* whole PDUs waiting in the active session's buffer
    link,     \* the thread's connection still carries bytes
    appTx,    \* the thread whose input sender App.input_tx is, 0 = None
    hookTx,   \* the thread whose input sender INPUT_TX is, 0 = None
    owner,    \* per host: 0 free, s held by thread s, -s orphaned by thread s
    badge,    \* the thread that last wrote SharedFrame.secure, 0 = default
    screen    \* the thread that last wrote SharedFrame.rgba, 0 = default

uiVars == <<ui, prompt, cur, spawned, target, running, appTx, hookTx>>
vars == <<ui, prompt, cur, spawned, pc, target, running, inbuf, link,
          appTx, hookTx, owner, badge, screen>>

Threads == 1..MaxSessions
Handles == 0..MaxSessions

UiStates == {"event_loop", "switch_wait", "close_wait", "exit_wait", "exited"}
ThreadStates == {"unborn", "top", "connecting", "negotiating", "active",
                 "reactivating", "disconnect", "retry", "sleep", "finished",
                 "killed"}

\* States in which the server's session, if any, still has a thread that
\* will close it.
Responsible == {"connecting", "negotiating", "active", "reactivating",
                "disconnect"}

\* Some Sender of thread s's input channel exists, so input_rx.recv() pends.
SenderAlive(s) == s \in {appTx, hookTx}

\* The thread waits for something only its peer or the UI can provide.
Blocked(s) ==
    \/ pc[s] \in {"connecting", "negotiating", "reactivating"}
    \/ pc[s] = "active" /\ link[s] /\ SenderAlive(s)

\* Mutant: done_rx.recv() with no bound.
WaitUnbounded(s) == pc[s] = "finished"

\* done_rx.recv_timeout(3 s) returns: the thread sent its message or dropped
\* its sender, or the time is over.
WaitEnds(s) == pc[s] = "finished" \/ SlowThreads \/ Blocked(s)

Goto(s, from, to) == pc[s] = from /\ pc' = [pc EXCEPT ![s] = to]

\* The socket is closed with no Disconnect-Provider-Ultimatum: the server
\* keeps the session it granted.
Orphaned(s) ==
    [owner EXCEPT ![target[s]] = IF @ = s THEN -s ELSE @]

\* The state of thread s just before it runs, on behalf of host h.
Spawn(s, h) ==
    /\ pc' = [pc EXCEPT ![s] = "top"]
    /\ target' = [target EXCEPT ![s] = h]
    /\ running' = [running EXCEPT ![s] = TRUE]
    /\ spawned' = s
    /\ cur' = s
    /\ appTx' = s
    /\ hookTx' = IF HookBuild THEN s ELSE 0

(***************************************************************************)
(* main(): with a host on the command line the first session is spawned at *)
(* once; without one, or in demo mode, the App starts on handle 0.          *)
(***************************************************************************)
Init ==
    /\ ui = "event_loop"
    /\ target \in [Handles -> Hosts]
    /\ \A s, t \in Handles : target[s] = target[t]
    /\ inbuf = [s \in Handles |-> 0]
    /\ link = [s \in Handles |-> FALSE]
    /\ owner = [h \in Hosts |-> 0]
    /\ badge = 0 /\ screen = 0
    /\ \/ /\ spawned = 1 /\ cur = 1 /\ prompt = FALSE
          /\ pc = [s \in Handles |-> CASE s = 0 -> "finished"
                                       [] s = 1 -> "top"
                                       [] OTHER -> "unborn"]
          /\ running = [s \in Handles |-> s = 1]
          /\ appTx = 1
          /\ hookTx = IF HookBuild THEN 1 ELSE 0
       \/ /\ spawned = 0 /\ cur = 0 /\ prompt \in BOOLEAN
          /\ pc = [s \in Handles |-> IF s = 0 THEN "finished" ELSE "unborn"]
          /\ running = [s \in Handles |-> FALSE]
          /\ appTx = 0 /\ hookTx = 0

-----------------------------------------------------------------------------
(* The UI thread. *)

\* Mutant: the flag is left set and only the sender is dropped.
BeginShutdownKeepsRunning ==
    /\ running' = running
    /\ appTx' = 0

\* begin_shutdown: clear `running`, drop App.input_tx.
BeginShutdown ==
    /\ running' = [running EXCEPT ![cur] = FALSE]
    /\ appTx' = 0

\* switch_host up to the bounded wait for the old thread.
SwitchHost ==
    /\ ui = "event_loop" /\ ~prompt
    /\ ui' = "switch_wait"
    /\ BeginShutdown
    /\ UNCHANGED <<prompt, cur, spawned, pc, target, inbuf, link, hookTx,
                   owner, badge, screen>>

\* The rest of switch_host, after the wait.
SwitchHostResume ==
    /\ ui = "switch_wait" /\ WaitEnds(cur)
    /\ ui' = "event_loop"
    /\ prompt' = TRUE
    /\ hookTx' = 0
    /\ badge' = 0 /\ screen' = 0
    /\ UNCHANGED <<cur, spawned, pc, target, running, inbuf, link, appTx, owner>>

\* The host prompt confirmed: start_session(new_target).
StartSession(h) ==
    /\ ui = "event_loop" /\ prompt
    /\ spawned < MaxSessions
    /\ Spawn(spawned + 1, h)
    /\ prompt' = FALSE
    /\ badge' = 0 /\ screen' = 0
    /\ UNCHANGED <<ui, inbuf, link, owner>>

\* The host prompt cancelled: event_loop.exit(), then the end of main() clears
\* `running`, drops the sender and waits once more.
CancelPrompt ==
    /\ ui = "event_loop" /\ prompt
    /\ ui' = "exit_wait"
    /\ BeginShutdown
    /\ UNCHANGED <<prompt, cur, spawned, pc, target, inbuf, link, hookTx,
                   owner, badge, screen>>

\* WindowEvent::CloseRequested up to its bounded wait.
CloseRequested ==
    /\ ui = "event_loop"
    /\ ui' = "close_wait"
    /\ BeginShutdown
    /\ UNCHANGED <<prompt, cur, spawned, pc, target, inbuf, link, hookTx,
                   owner, badge, screen>>

\* CloseRequested returns, run_app ends, main() shuts down again and waits.
CloseResume ==
    /\ ui = "close_wait" /\ WaitEnds(cur)
    /\ ui' = "exit_wait"
    /\ BeginShutdown
    /\ UNCHANGED <<prompt, cur, spawned, pc, target, inbuf, link, hookTx,
                   owner, badge, screen>>

\* main() returns: the process ends with every thread still running in it.
Exit ==
    /\ ui = "exit_wait" /\ WaitEnds(cur)
    /\ ui' = "exited"
    /\ pc' = [s \in Handles |->
                 IF pc[s] \in {"unborn", "finished"} THEN pc[s] ELSE "killed"]
    /\ owner' = [h \in Hosts |-> IF owner[h] > 0 THEN -owner[h] ELSE owner[h]]
    /\ UNCHANGED <<prompt, cur, spawned, target, running, inbuf, link,
                   appTx, hookTx, badge, screen>>

\* Mutant: the reconnect loop ignores `running`.
LoopTopForever(s) ==
    /\ Goto(s, "top", "connecting")
    /\ UNCHANGED <<uiVars, inbuf, link, owner, badge, screen>>

-----------------------------------------------------------------------------
(* A session thread: the loop of spawn_session around run_session. *)

LoopTop(s) ==
    /\ Goto(s, "top", IF running[s] THEN "connecting" ELSE "finished")
    /\ UNCHANGED <<uiVars, inbuf, link, owner, badge, screen>>

\* SccmSession::connect returns a granted session; run_session writes its
\* transport security into the shared frame.
ConnectOk(s) ==
    /\ Goto(s, "connecting", "negotiating")
    /\ owner[target[s]] = s
    /\ link' = [link EXCEPT ![s] = TRUE]
    /\ badge' = s
    /\ UNCHANGED <<uiVars, inbuf, owner, screen>>

\* The greeting is ERROR_EXISTING_SESSION.
ConnectExisting(s) ==
    /\ Goto(s, "connecting", "retry")
    /\ owner[target[s]] \notin {0, s}
    /\ UNCHANGED <<uiVars, inbuf, link, owner, badge, screen>>

\* Any other failure of connect, and the 20 s timeout that drops its future
\* wherever it is: run_session returns without a disconnect.
ConnectFail(s) ==
    /\ Goto(s, "connecting", "retry")
    /\ owner' = Orphaned(s)
    /\ UNCHANGED <<uiVars, inbuf, link, badge, screen>>

\* Mutant: a failed negotiation returns with `?`, skipping the disconnect.
NegotiateFailEarlyReturn(s) ==
    /\ Goto(s, "negotiating", "retry")
    /\ owner' = Orphaned(s)
    /\ UNCHANGED <<uiVars, inbuf, link, badge, screen>>

\* connect_rdp succeeds; bytes behind the last handshake PDU stay buffered.
NegotiateOk(s) ==
    /\ Goto(s, "negotiating", "active")
    /\ link[s]
    /\ \E n \in 0..MaxPdus : inbuf' = [inbuf EXCEPT ![s] = n]
    /\ UNCHANGED <<uiVars, link, owner, badge, screen>>

NegotiateFail(s) ==
    /\ Goto(s, "negotiating", "disconnect")
    /\ UNCHANGED <<uiVars, inbuf, link, owner, badge, screen>>

\* run_active_session with a whole PDU at hand: it is decoded and delivered
\* to the FrameSink before any other event is looked at.
ProcessPdu(s) ==
    /\ pc[s] = "active" /\ inbuf[s] > 0
    /\ inbuf' = [inbuf EXCEPT ![s] = @ - 1]
    /\ screen' = s
    /\ UNCHANGED <<uiVars, pc, link, owner, badge>>

\* A DeactivateAll or DemandActive: drive_reactivation takes over the buffer
\* and, like the negotiation, looks at nothing but the connection.
Reactivate(s) ==
    /\ inbuf[s] > 0
    /\ Goto(s, "active", "reactivating")
    /\ inbuf' = [inbuf EXCEPT ![s] = @ - 1]
    /\ UNCHANGED <<uiVars, link, owner, badge, screen>>

\* The activation sequence is finalized; what is left in the buffer is the
\* active session's again.
Reactivated(s) ==
    /\ Goto(s, "reactivating", "active")
    /\ \E n \in 0..(IF link[s] THEN MaxPdus ELSE inbuf[s] - 1) :
          inbuf' = [inbuf EXCEPT ![s] = n]
    /\ UNCHANGED <<uiVars, link, owner, badge, screen>>

\* Mutant: the select polls the socket although the input channel is closed.
ReceiveUnbiased(s) ==
    /\ pc[s] = "active" /\ inbuf[s] = 0
    /\ link[s]
    /\ \E n \in 1..MaxPdus : inbuf' = [inbuf EXCEPT ![s] = n]
    /\ UNCHANGED <<uiVars, pc, link, owner, badge, screen>>

\* The biased select found no input event and no closed channel: recv_rdp.
Receive(s) ==
    /\ pc[s] = "active" /\ inbuf[s] = 0
    /\ SenderAlive(s)
    /\ link[s]
    /\ \E n \in 1..MaxPdus : inbuf' = [inbuf EXCEPT ![s] = n]
    /\ UNCHANGED <<uiVars, pc, link, owner, badge, screen>>

\* input_rx.recv() is None: every sender is gone, the session returns Ok.
InputClosed(s) ==
    /\ inbuf[s] = 0
    /\ ~SenderAlive(s)
    /\ Goto(s, "active", "disconnect")
    /\ UNCHANGED <<uiVars, inbuf, link, owner, badge, screen>>

\* A read error, end of stream, Terminate or decode failure ends the session.
ActiveEnd(s) ==
    /\ pc[s] \in {"active", "reactivating"}
    /\ pc' = [pc EXCEPT ![s] = "disconnect"]
    /\ inbuf' = [inbuf EXCEPT ![s] = 0]
    /\ UNCHANGED <<uiVars, link, owner, badge, screen>>

\* session.disconnect(): the best-effort ultimatum frees the host if the link
\* still carries it, then the socket is closed.
Disconnect(s) ==
    /\ Goto(s, "disconnect", "retry")
    /\ owner' = IF link[s] /\ owner[target[s]] = s
                  THEN [owner EXCEPT ![target[s]] = 0]
                  ELSE Orphaned(s)
    /\ link' = [link EXCEPT ![s] = FALSE]
    /\ inbuf' = [inbuf EXCEPT ![s] = 0]
    /\ UNCHANGED <<uiVars, badge, screen>>

\* Mutant: a session that ends on its own is not retried.
RetryNever(s) ==
    /\ Goto(s, "retry", "finished")
    /\ UNCHANGED <<uiVars, inbuf, link, owner, badge, screen>>

\* run_session returned: leave if `running` was cleared, else sleep 1 s.
Retry(s) ==
    /\ Goto(s, "retry", IF running[s] THEN "sleep" ELSE "finished")
    /\ UNCHANGED <<uiVars, inbuf, link, owner, badge, screen>>

Wake(s) ==
    /\ Goto(s, "sleep", "top")
    /\ UNCHANGED <<uiVars, inbuf, link, owner, badge, screen>>

-----------------------------------------------------------------------------
(* The SCCM server and the network, as the client's code relies on them. *)

\* The server answers START_HANDSHAKE ... SUCCESS_*: the host is now occupied.
\* The client learns of it only when ConnectOk reads the grant.
ServerGrant(s) ==
    /\ pc[s] = "connecting" /\ owner[target[s]] = 0
    /\ owner' = [owner EXCEPT ![target[s]] = s]
    /\ UNCHANGED <<uiVars, pc, inbuf, link, badge, screen>>

\* The server ends the session itself.
ServerEnd(s) ==
    /\ pc[s] \in {"active", "reactivating"} /\ owner[target[s]] = s
    /\ owner' = [owner EXCEPT ![target[s]] = 0]
    /\ inbuf' = [inbuf EXCEPT ![s] = 0]
    /\ link' = [link EXCEPT ![s] = FALSE]
    /\ UNCHANGED <<uiVars, pc, badge, screen>>

\* The server gives up on a session whose client is gone.
ServerReap(h) ==
    /\ owner[h] < 0
    /\ owner' = [owner EXCEPT ![h] = 0]
    /\ UNCHANGED <<uiVars, pc, inbuf, link, badge, screen>>

LinkDrop(s) ==
    /\ LinksFail
    /\ link[s] /\ pc[s] \in {"negotiating", "active", "reactivating", "disconnect"}
    /\ link' = [link EXCEPT ![s] = FALSE]
    /\ UNCHANGED <<uiVars, pc, inbuf, owner, badge, screen>>

-----------------------------------------------------------------------------

Ui == \/ SwitchHost \/ SwitchHostResume \/ CancelPrompt
      \/ CloseRequested \/ CloseResume \/ Exit
      \/ \E h \in Hosts : StartSession(h)

Session(s) ==
    \/ LoopTop(s) \/ ConnectOk(s) \/ ConnectExisting(s) \/ ConnectFail(s)
    \/ NegotiateOk(s) \/ NegotiateFail(s) \/ ProcessPdu(s) \/ Receive(s)
    \/ Reactivate(s) \/ Reactivated(s) \/ InputClosed(s) \/ ActiveEnd(s)
    \/ Disconnect(s) \/ Retry(s) \/ Wake(s)

Environment ==
    \/ \E s \in Threads : ServerGrant(s) \/ ServerEnd(s) \/ LinkDrop(s)
    \/ \E h \in Hosts : ServerReap(h)

\* The process is gone and its threads with it.
Terminated == ui = "exited" /\ UNCHANGED vars

Next == \/ Ui
        \/ \E s \in Threads : Session(s)
        \/ Environment
        \/ Terminated

(***************************************************************************)
(* Fairness: the UI thread leaves its bounded waits, and a session thread  *)
(* takes the steps it can take alone.  A peer that never answers is        *)
(* allowed everywhere except that connect's own 20 s timeout ends it and   *)
(* TCP keepalive ends a session whose link is dead.  Operators, servers    *)
(* and negotiation and reactivation (which have no timeout) are not fair.  *)
(***************************************************************************)
Fairness ==
    /\ WF_vars(SwitchHostResume) /\ WF_vars(CloseResume) /\ WF_vars(Exit)
    /\ \A s \in Threads :
         /\ WF_vars(LoopTop(s))
         /\ WF_vars(ConnectFail(s))
         /\ WF_vars(ProcessPdu(s))
         /\ WF_vars(InputClosed(s))
         /\ WF_vars(~link[s] /\ ActiveEnd(s))
         /\ WF_vars(Disconnect(s))
         /\ WF_vars(Retry(s))
         /\ WF_vars(Wake(s))

Spec == Init /\ [][Next]_vars
FairSpec == Spec /\ Fairness

-----------------------------------------------------------------------------
(* Properties *)

TypeOK ==
    /\ ui \in UiStates
    /\ prompt \in BOOLEAN
    /\ cur \in Handles /\ spawned \in Handles
    /\ pc \in [Handles -> ThreadStates]
    /\ target \in [Handles -> Hosts]
    /\ running \in [Handles -> BOOLEAN]
    /\ inbuf \in [Handles -> 0..MaxPdus]
    /\ link \in [Handles -> BOOLEAN]
    /\ appTx \in Handles /\ hookTx \in Handles
    /\ owner \in [Hosts -> (-MaxSessions)..MaxSessions]
    /\ badge \in Handles /\ screen \in Handles

\* Whenever the server holds a host for a session of this viewer, the thread
\* of that session drives that very host and is at a point from which
\* run_session still reaches session.disconnect() or drops the connect.  Two
\* threads never hold one host.
HeldHostHasDriver ==
    \A h \in Hosts, s \in Threads :
        owner[h] = s => target[s] = h /\ pc[s] \in Responsible

\* What makes the properties inductive: a cleared `running` flag is never set
\* again, and it is cleared whenever the App waits, prompts or exits; a number
\* not yet spawned is an unborn thread.
RunningIsShown ==
    \A s \in Handles : running[s] => s = cur /\ ui = "event_loop" /\ ~prompt

UnspawnedUnborn == \A s \in Threads : s > spawned => pc[s] = "unborn"

\* A granted host is left occupied (orphaned) only when the grant had not yet
\* been read, the link was already dead, or the process exited: run_session
\* disconnects on every other exit path, a failed negotiation included.
OrphanCauses ==
    [][\A h \in Hosts :
          owner[h] >= 0 /\ owner'[h] < 0
            => LET s == -owner'[h]
               IN  pc[s] = "connecting" \/ ~link[s] \/ ui' = "exited"]_vars

\* After begin_shutdown no thread starts another connection: an attempt begins
\* only for the session the window shows, with no prompt up.
NoConnectAfterShutdown ==
    [][\A s \in Threads :
          pc[s] = "top" /\ pc'[s] = "connecting"
            => s = cur /\ ui = "event_loop" /\ ~prompt]_vars

\* Keys taken by the keyboard hook and input taken by the window reach the
\* same session, and that is the one the App shows.
InputReachesShownHost ==
    /\ appTx # 0 => appTx = cur /\ running[cur]
    /\ hookTx # 0 => hookTx = cur
    /\ HookBuild /\ appTx # 0 => hookTx = appTx

\* The inductive invariant of the proofs.
IInv == /\ TypeOK
        /\ HeldHostHasDriver
        /\ InputReachesShownHost
        /\ RunningIsShown
        /\ UnspawnedUnborn

\* A streaming session whose senders are all gone winds down, however much
\* the server keeps sending (spawn_session: "drop it to unblock the active
\* session").  Only a reactivation the server does not finish can hold it up:
\* drive_reactivation has no timeout and does not look at the input channel.
ShutdownDrains ==
    \A s \in Threads :
        (pc[s] = "active" /\ ~SenderAlive(s))
            ~> pc[s] \in {"finished", "killed", "reactivating"}

\* A session whose link dies is tried again unless the operator stopped it.
ReconnectsAfterLoss ==
    \A s \in Threads :
        (pc[s] = "active" /\ ~link[s]) ~> (pc[s] = "connecting" \/ ~running[s])

\* Closing the window ends the process even with a wedged session thread
\* ("bounded so a wedged session thread can't hang exit").
CloseTerminates == ui = "close_wait" ~> ui = "exited"

\* The process does not end while the session it shows is still streaming:
\* dropping the sender "unblocks run_active_session so it sends the graceful
\* disconnect", and main() waits for that.  Holds where App holds the only
\* sender; on Windows the hook's clone keeps the channel open.
ExitAfterRelease == [][ui' = "exited" /\ ui # "exited" => pc[cur] # "active"]_vars

\* The lock in the toolbar ("True when the link is encrypted AND the server is
\* verified") was written by the session that is shown, not by another host's.
LockIsForShownHost == ~prompt /\ badge # 0 => badge = cur

=============================================================================
