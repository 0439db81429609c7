------------------------ MODULE SessionLifecycleProofs ------------------------
(***************************************************************************)
(* Proofs about SessionLifecycle for every set of hosts, every number of    *)
(* session threads and every build.                                         *)
(***************************************************************************)
EXTENDS SessionLifecycle, TLAPS

USE HostsAssumption, BoundsAssumption, SwitchesAssumption

\* main() establishes the invariant, with or without a first session.
LEMMA InitEstablishes == Init => IInv
<1> SUFFICES ASSUME Init PROVE IInv
  OBVIOUS
<1> USE DEF Init, Handles, Threads
<1>1. TypeOK
  <2>1. pc \in [Handles -> ThreadStates]
    BY DEF ThreadStates
  <2>2. running \in [Handles -> BOOLEAN]
    BY Zenon
  <2>3. /\ inbuf \in [Handles -> 0..MaxPdus]
        /\ owner \in [Hosts -> (-MaxSessions)..MaxSessions]
        /\ cur \in Handles /\ spawned \in Handles
        /\ appTx \in Handles /\ hookTx \in Handles
        /\ badge \in Handles /\ screen \in Handles
    OBVIOUS
  <2>4. /\ link \in [Handles -> BOOLEAN]
        /\ prompt \in BOOLEAN
        /\ ui \in UiStates
        /\ target \in [Handles -> Hosts]
    BY Zenon DEF UiStates
  <2> QED
    BY <2>1, <2>2, <2>3, <2>4 DEF TypeOK
<1>2. HeldHostHasDriver
  BY DEF HeldHostHasDriver
<1>3. InputReachesShownHost
  <2>1. appTx # 0 => appTx = cur /\ running[cur]
    <3>1. CASE spawned = 1
      <4>1. cur = 1 /\ running = [s \in Handles |-> s = 1] /\ appTx = 1
        BY <3>1
      <4>2. 1 \in Handles
        OBVIOUS
      <4> QED
        BY <4>1, <4>2, Zenon
    <3> QED
      BY <3>1
  <2>2. /\ hookTx # 0 => hookTx = cur
        /\ HookBuild /\ appTx # 0 => hookTx = appTx
    OBVIOUS
  <2> QED
    BY <2>1, <2>2 DEF InputReachesShownHost
<1>4. RunningIsShown
  BY DEF RunningIsShown
<1>5. UnspawnedUnborn
  BY DEF UnspawnedUnborn
<1> QED
  BY <1>1, <1>2, <1>3, <1>4, <1>5 DEF IInv

\* Every operation of the UI thread preserves the invariant.
LEMMA UiPreserves == IInv /\ Ui => IInv'
<1> SUFFICES ASSUME IInv, Ui PROVE IInv'
  OBVIOUS
<1> USE DEF IInv, TypeOK, HeldHostHasDriver, InputReachesShownHost,
            RunningIsShown, UnspawnedUnborn, Handles, Threads
<1>1. CASE SwitchHost
  BY <1>1, SMTT(60) DEF SwitchHost, BeginShutdown, UiStates
<1>2. CASE SwitchHostResume
  BY <1>2, SMTT(60) DEF SwitchHostResume, UiStates
<1>3. CASE CancelPrompt
  BY <1>3, SMTT(60) DEF CancelPrompt, BeginShutdown, UiStates
<1>4. CASE CloseRequested
  BY <1>4, SMTT(60) DEF CloseRequested, BeginShutdown, UiStates
<1>5. CASE CloseResume
  BY <1>5, SMTT(60) DEF CloseResume, BeginShutdown, UiStates
<1>6. CASE Exit
  BY <1>6, SMTT(60) DEF Exit, UiStates, ThreadStates
<1>7. ASSUME NEW h \in Hosts, StartSession(h) PROVE IInv'
  <2> DEFINE n == spawned + 1
  <2> USE <1>7 DEF StartSession, Spawn
  <2>1. n \in Threads /\ pc[n] = "unborn" /\ n \in Handles
    OBVIOUS
  <2>2. TypeOK'
    BY <2>1 DEF UiStates, ThreadStates
  <2>3. HeldHostHasDriver'
    <3>1. \A g \in Hosts : owner[g] # n
      BY <2>1 DEF Responsible
    <3> QED
      BY <2>1, <3>1
  <2>4. RunningIsShown'
    <3>1. \A s \in Handles : ~running[s]
      OBVIOUS
    <3>2. running' = [running EXCEPT ![n] = TRUE] /\ cur' = n
          /\ ui' = "event_loop" /\ ~prompt'
      BY Zenon
    <3> QED
      BY <2>1, <3>1, <3>2
  <2>5. InputReachesShownHost'
    <3>1. running'[cur'] = TRUE
      BY <2>1
    <3>2. cur' = n /\ appTx' = n /\ hookTx' = IF HookBuild THEN n ELSE 0
      BY Zenon
    <3> QED
      BY <3>1, <3>2, Zenon
  <2>6. UnspawnedUnborn'
    BY <2>1
  <2> QED
    BY <2>2, <2>3, <2>4, <2>5, <2>6
<1> QED
  BY <1>1, <1>2, <1>3, <1>4, <1>5, <1>6, <1>7 DEF Ui

\* Every step of a session thread preserves the invariant.
LEMMA SessionPreserves ==
  ASSUME NEW s \in Threads, IInv, Session(s)
  PROVE  IInv'
<1> USE DEF IInv, TypeOK, HeldHostHasDriver, InputReachesShownHost,
            RunningIsShown, UnspawnedUnborn, Handles, Threads, uiVars,
            ThreadStates, Responsible
<1>1. CASE LoopTop(s)
  BY <1>1, SMTT(60) DEF LoopTop, Goto
<1>2. CASE ConnectOk(s)
  BY <1>2, SMTT(60) DEF ConnectOk, Goto
<1>3. CASE ConnectExisting(s)
  BY <1>3, SMTT(60) DEF ConnectExisting, Goto
<1>4. CASE ConnectFail(s)
  BY <1>4, SMTT(60) DEF ConnectFail, Goto, Orphaned
<1>5. CASE NegotiateOk(s)
  BY <1>5, SMTT(60) DEF NegotiateOk, Goto
<1>6. CASE NegotiateFail(s)
  BY <1>6, SMTT(60) DEF NegotiateFail, Goto
<1>7. CASE ProcessPdu(s)
  BY <1>7, SMTT(60) DEF ProcessPdu, Goto
<1>8. CASE Receive(s)
  BY <1>8, SMTT(60) DEF Receive, Goto
<1>9. CASE InputClosed(s)
  BY <1>9, SMTT(60) DEF InputClosed, Goto
<1>10. CASE ActiveEnd(s)
  BY <1>10, SMTT(60) DEF ActiveEnd, Goto
<1>11. CASE Disconnect(s)
  BY <1>11, SMTT(60) DEF Disconnect, Goto, Orphaned
<1>12. CASE Retry(s)
  <2>1. CASE running[s]
    BY <1>12, <2>1, SMTT(60) DEF Retry, Goto
  <2>2. CASE ~running[s]
    BY <1>12, <2>2, SMTT(60) DEF Retry, Goto
  <2> QED
    BY <2>1, <2>2
<1>13. CASE Wake(s)
  BY <1>13, SMTT(60) DEF Wake, Goto
<1>14. CASE Reactivate(s)
  BY <1>14, SMTT(60) DEF Reactivate, Goto
<1>15. CASE Reactivated(s)
  BY <1>15, SMTT(60) DEF Reactivated, Goto
<1> QED
  BY <1>1, <1>2, <1>3, <1>4, <1>5, <1>6, <1>7, <1>8, <1>9, <1>10, <1>11,
     <1>12, <1>13, <1>14, <1>15 DEF Session

\* So does whatever the server and the network do.
LEMMA EnvironmentPreserves == IInv /\ Environment => IInv'
<1> SUFFICES ASSUME IInv, Environment PROVE IInv'
  OBVIOUS
<1> USE DEF IInv, TypeOK, HeldHostHasDriver, InputReachesShownHost,
            RunningIsShown, UnspawnedUnborn, Handles, Threads, uiVars,
            Responsible
<1>1. ASSUME NEW s \in Threads, ServerGrant(s) PROVE IInv'
  BY <1>1, SMTT(60) DEF ServerGrant
<1>2. ASSUME NEW s \in Threads, ServerEnd(s) PROVE IInv'
  BY <1>2, SMTT(60) DEF ServerEnd
<1>3. ASSUME NEW s \in Threads, LinkDrop(s) PROVE IInv'
  BY <1>3, SMTT(60) DEF LinkDrop
<1>4. ASSUME NEW h \in Hosts, ServerReap(h) PROVE IInv'
  BY <1>4, SMTT(60) DEF ServerReap
<1> QED
  BY <1>1, <1>2, <1>3, <1>4 DEF Environment

\* Hence every step of the viewer and of its environment does.
LEMMA NextPreserves == IInv /\ [Next]_vars => IInv'
<1> SUFFICES ASSUME IInv, [Next]_vars PROVE IInv'
  OBVIOUS
<1>1. CASE UNCHANGED vars
  BY <1>1, SMTT(60) DEF vars, IInv, TypeOK, HeldHostHasDriver, InputReachesShownHost,
     RunningIsShown, UnspawnedUnborn
<1>2. CASE Terminated
  BY <1>1, <1>2 DEF Terminated
<1> QED
  BY <1>1, <1>2, UiPreserves, SessionPreserves, EnvironmentPreserves DEF Next

\* The inductive invariant holds of every reachable state.
THEOREM Invariance == Spec => []IInv
<1>1. Init => IInv
  BY InitEstablishes
<1>2. IInv /\ [Next]_vars => IInv'
  BY NextPreserves
<1> QED
  BY <1>1, <1>2, PTL DEF Spec

\* A host the server holds for this viewer always has a thread that drives it
\* and will still release it (run_session's teardown contract).
THEOREM HeldHostsAreDriven == Spec => []HeldHostHasDriver
<1>1. IInv => HeldHostHasDriver
  BY DEF IInv
<1> QED
  BY <1>1, Invariance, PTL

\* Window input and hook input address the shown session (winhook::set_tx).
THEOREM InputIsNotMisrouted == Spec => []InputReachesShownHost
<1>1. IInv => InputReachesShownHost
  BY DEF IInv
<1> QED
  BY <1>1, Invariance, PTL

\* No thread starts a connection once its shutdown has begun (the two
\* `running` checks of spawn_session's loop).
THEOREM ShutdownStopsConnecting == Spec => NoConnectAfterShutdown
<1> DEFINE Step == \A s \in Threads :
                      pc[s] = "top" /\ pc'[s] = "connecting"
                        => s = cur /\ ui = "event_loop" /\ ~prompt
<1>1. ASSUME IInv, [Next]_vars PROVE Step
  <2> SUFFICES ASSUME NEW s \in Threads, pc[s] = "top", pc'[s] = "connecting"
               PROVE  s = cur /\ ui = "event_loop" /\ ~prompt
    OBVIOUS
  <2> USE <1>1 DEF IInv, TypeOK, RunningIsShown, Handles, Threads
  <2>1. CASE Ui
    <3>1. ASSUME NEW h \in Hosts, StartSession(h) PROVE pc'[s] # "connecting"
      BY <3>1 DEF StartSession, Spawn
    <3>2. CASE Exit
      BY <3>2 DEF Exit
    <3> QED
      BY <2>1, <3>1, <3>2 DEF Ui, SwitchHost, SwitchHostResume, CancelPrompt,
         CloseRequested, CloseResume
  <2>2. ASSUME NEW t \in Threads, Session(t)
        PROVE  s = cur /\ ui = "event_loop" /\ ~prompt
    <3>1. CASE LoopTop(t)
      <4>1. CASE running[t]
        <5>1. t = s
          BY <3>1, <4>1 DEF LoopTop, Goto
        <5> QED
          BY <4>1, <5>1
      <4>2. CASE ~running[t]
        BY <3>1, <4>2 DEF LoopTop, Goto
      <4> QED
        BY <4>1, <4>2
    <3>2. ASSUME NEW f, NEW g, g # "connecting", Goto(t, f, g) PROVE FALSE
      <4>1. pc' = [pc EXCEPT ![t] = g]
        BY <3>2 DEF Goto
      <4>2. CASE t = s
        BY <3>2, <4>1, <4>2
      <4>3. CASE t # s
        BY <4>1, <4>3
      <4> QED
        BY <4>2, <4>3
    <3>3. CASE ProcessPdu(t) \/ Receive(t)
      BY <3>3 DEF ProcessPdu, Receive
    <3>4. CASE Retry(t)
      BY <3>4 DEF Retry, Goto
    <3>5. CASE Reactivate(t) \/ Reactivated(t)
      <4>1. Goto(t, "active", "reactivating") \/ Goto(t, "reactivating", "active")
        BY <3>5 DEF Reactivate, Reactivated
      <4> QED
        BY <3>2, <4>1
    <3>6. CASE ActiveEnd(t)
      BY <3>6 DEF ActiveEnd
    <3> QED
      BY <2>2, <3>1, <3>2, <3>3, <3>4, <3>5, <3>6 DEF Session, ConnectOk, ConnectExisting,
         ConnectFail, NegotiateOk, NegotiateFail, InputClosed,
         Disconnect, Wake
  <2>3. CASE Environment
    BY <2>3 DEF Environment, ServerGrant, ServerEnd, ServerReap, LinkDrop
  <2>4. CASE Terminated \/ UNCHANGED vars
    BY <2>4 DEF Terminated, vars
  <2> QED
    BY <2>1, <2>2, <2>3, <2>4 DEF Next
<1>2. IInv /\ [Next]_vars => [Step]_vars
  BY <1>1
<1> QED
  BY <1>2, Invariance, PTL DEF Spec, NoConnectAfterShutdown

\* A granted host is orphaned only by a connect that had not read its grant,
\* by a dead link or by process exit (run_session disconnects otherwise).
THEOREM OrphansHaveACause == Spec => OrphanCauses
<1> DEFINE Step == \A h \in Hosts :
                      owner[h] >= 0 /\ owner'[h] < 0
                        => LET s == -owner'[h]
                           IN  pc[s] = "connecting" \/ ~link[s] \/ ui' = "exited"
<1>1. ASSUME IInv, [Next]_vars PROVE Step
  <2> SUFFICES ASSUME NEW h \in Hosts, owner[h] >= 0, owner'[h] < 0
               PROVE  \/ pc[-owner'[h]] = "connecting"
                      \/ ~link[-owner'[h]] \/ ui' = "exited"
    OBVIOUS
  <2> USE <1>1 DEF IInv, TypeOK, Handles, Threads
  <2>1. CASE Ui
    BY <2>1 DEF Ui, SwitchHost, SwitchHostResume, CancelPrompt, CloseRequested,
       CloseResume, Exit, StartSession
  <2>2. ASSUME NEW t \in Threads, Session(t)
        PROVE  pc[-owner'[h]] = "connecting" \/ ~link[-owner'[h]]
    <3>1. CASE ConnectFail(t)
      BY <3>1 DEF ConnectFail, Goto, Orphaned
    <3>2. CASE Disconnect(t)
      BY <3>2 DEF Disconnect, Goto, Orphaned
    <3>3. CASE owner' = owner
      BY <3>3
    <3> QED
      BY <2>2, <3>1, <3>2, <3>3 DEF Session, LoopTop, ConnectOk,
         ConnectExisting, NegotiateOk, NegotiateFail, ProcessPdu, Receive,
         Reactivate, Reactivated,
         InputClosed, ActiveEnd, Retry, Wake
  <2>3. CASE Environment
    <3>1. ASSUME NEW g \in Hosts, ServerReap(g) PROVE FALSE
      BY <3>1 DEF ServerReap
    <3>2. ASSUME NEW t \in Threads, ServerGrant(t) PROVE FALSE
      BY <3>2 DEF ServerGrant
    <3>3. ASSUME NEW t \in Threads, ServerEnd(t) PROVE FALSE
      BY <3>3 DEF ServerEnd
    <3>4. ASSUME NEW t \in Threads, LinkDrop(t) PROVE FALSE
      BY <3>4 DEF LinkDrop
    <3> QED
      BY <2>3, <3>1, <3>2, <3>3, <3>4 DEF Environment
  <2>4. CASE Terminated \/ UNCHANGED vars
    BY <2>4, SMTT(60) DEF Terminated, vars
  <2> QED
    BY <2>1, <2>2, <2>3, <2>4 DEF Next
<1>2. IInv /\ [Next]_vars => [Step]_vars
  BY <1>1
<1> QED
  BY <1>2, Invariance, PTL DEF Spec, OrphanCauses

=============================================================================
