------------------------------ MODULE Handshake ------------------------------
(***************************************************************************)
(* Bring-up of one connection: the TCP connect with its timeout, the        *)
(* greeting, the SSPI Negotiate exchange and the access grant.              *)
(*                                                                          *)
(* crates/sccm-rc-core/src/lib.rs SccmSession::connect                      *)
(* crates/sccm-rc-protocol/src/handshake.rs SspiSession, transport.rs,      *)
(* framing.rs                                                               *)
(*                                                                          *)
(* A frame is its type, what its body decodes to, and how it is protected.  *)
(* The security package is external: an exchange is a number of calls of    *)
(* InitializeSecurityContext and whether the last of them still has a token *)
(* for the server (NTLM does, Kerberos with mutual authentication does      *)
(* not).                                                                    *)
(***************************************************************************)
EXTENDS Integers, Sequences

CONSTANTS
    Exchanges,  \* the exchanges a package may run: [legs, tail]
    Denials     \* control words the client does not know

ASSUME ExchangesAssumption ==
    /\ Exchanges \subseteq [legs : Nat \ {0}, tail : BOOLEAN]
    /\ \A x \in Exchanges : x.legs = 1 => x.tail

VARIABLES
    phase,      \* where SccmSession::connect is, "granted" when it returned Ok
    error,      \* the error it returned, "none" otherwise
    link,       \* the TCP connection as the client sees it
    toServer, toClient, \* frames in flight
    exchange,   \* the exchange Negotiate settled on
    calls,      \* InitializeSecurityContext calls so far
    confidential, \* ISC_RET_CONFIDENTIALITY in the context_attr of the last call
    grant,      \* what connect returned
    acceptor    \* the server's side: [state, tokens, access]

handshakeVars == <<phase, error, link, toServer, toClient, exchange, calls,
                   confidential, grant, acceptor>>
network == <<toServer, toClient>>

Access == {"SUCCESS_FULL_CONTROL", "SUCCESS_VIEW_ONLY"}
Greetings == {"START_HANDSHAKE", "ERROR_EXISTING_SESSION"} \union Denials
\* "malformed" is a body that does not decode: decode_control_string gives
\* the empty string for it, decode_handshake_body nothing.
Frame == [type : {"control", "data"},
          body : Greetings \union Access \union {"token", "malformed"},
          seal : {"clear", "sealed", "signed"}]
Control(word) == [type |-> "control", body |-> word, seal |-> "clear"]
Token(body) == [type |-> "data", body |-> body, seal |-> "clear"]

HandshakeInit ==
    /\ phase = "tcp" /\ error = "none" /\ link = "none"
    /\ toServer = <<>> /\ toClient = <<>>
    /\ exchange \in Exchanges /\ calls = 0 /\ confidential = FALSE /\ grant = "none"
    /\ acceptor = [state |-> "greet", tokens |-> 0, access |-> "none"]

\* connect returns Err: the connection and the context are dropped.  What was
\* sent is still on its way.
Fail(e) ==
    /\ phase' = "failed" /\ error' = e /\ link' = "dropped" /\ toClient' = <<>>
    /\ UNCHANGED <<exchange, calls, confidential, grant, acceptor>>

-----------------------------------------------------------------------------
(* RawConnection *)

\* The connect returns a stream, is refused or fails, or the 10 s run out.
TcpConnect ==
    /\ phase = "tcp" /\ UNCHANGED toServer
    /\ \/ /\ phase' = "greeting" /\ link' = "up"
          /\ UNCHANGED <<error, toClient, exchange, calls, confidential, grant, acceptor>>
       \/ \E e \in {"Refused", "Io"} : Fail(e)

\* recv_frame while connect is at p: the next frame goes to p2.
Waiting(p) == phase = p /\ toClient # <<>> /\ UNCHANGED toServer
Received == Head(toClient)
Proceed(p2) ==
    /\ phase' = p2 /\ toClient' = Tail(toClient)
    /\ UNCHANGED <<error, link, exchange, calls, confidential, acceptor>>
\* A clean close is Ok(None), which connect makes an error; a dead peer is
\* found by the keepalive probes.  recv_frame has no timeout of its own.
RecvFails ==
    /\ phase \in {"greeting", "token", "grant"} /\ toClient = <<>>
    /\ UNCHANGED toServer
    /\ \/ link = "closed" /\ Fail("Protocol")
       \/ link = "reset" /\ Fail("Io")

-----------------------------------------------------------------------------
(* SccmSession::connect *)

\* 1. the greeting, and the credentials for the target.  The type of the
\* frame is not looked at.
Greeting ==
    /\ Waiting("greeting")
    /\ LET g == Received.body IN
          \/ g = "START_HANDSHAKE" /\ Proceed("step") /\ UNCHANGED grant
          \/ g = "START_HANDSHAKE" /\ Fail("Sspi")
          \/ g = "ERROR_EXISTING_SESSION" /\ Fail("ExistingSession")
          \/ g \notin {"START_HANDSHAKE", "ERROR_EXISTING_SESSION"} /\ Fail("Protocol")

\* What the next InitializeSecurityContext call is (external): the last one of
\* the exchange, one with a token for the server.
LastCall == calls + 1 = exchange.legs
HasOutput == ~LastCall \/ exchange.tail
\* Mutant: the loop breaks before the last token is sent.
SendOutputUnlessDone ==
    toServer' = IF ~LastCall THEN Append(toServer, Token("token")) ELSE toServer
\* conn.send_handshake_token when the step has an output, done or not.
SendOutput == toServer' = IF HasOutput THEN Append(toServer, Token("token")) ELSE toServer

\* Mutant: no look at the granted bits.
MayProceedAnyway(got) == TRUE
\* Fail closed: no session whose messages would not be encrypted.
MayProceed(got) == ~LastCall \/ got

\* 2. one turn of the loop: sspi.step, the output sent, and when it was the
\* last step the sizes and the check that messages will be encrypted.  got is
\* whether this call granted confidentiality; mutual_auth is only reported.
Step ==
    /\ phase = "step" /\ link # "reset"
    /\ SendOutput
    /\ \E got \in BOOLEAN :
          \/ /\ MayProceed(got)
             /\ phase' = IF LastCall THEN "grant" ELSE "token"
             /\ calls' = calls + 1 /\ confidential' = got
             /\ UNCHANGED <<error, link, toClient, exchange, grant, acceptor>>
          \/ ~MayProceed(got) /\ Fail("Protocol")
\* A call, CompleteAuthToken or the sizes query fails, or the send does.
StepFails ==
    /\ phase = "step"
    /\ \/ UNCHANGED toServer /\ Fail("Sspi")
       \/ LastCall /\ SendOutput /\ Fail("Sspi")
       \/ link \in {"closed", "reset"} /\ HasOutput /\ UNCHANGED toServer /\ Fail("Io")

\* The peer's next token; a control frame is a rejection.
PeerToken ==
    /\ Waiting("token")
    /\ \/ Received.type = "control" /\ Fail("Protocol")
       \/ Received.type = "data" /\ Received.body = "malformed" /\ Fail("Protocol")
       \/ /\ Received.type = "data" /\ Received.body # "malformed"
          /\ Proceed("step") /\ UNCHANGED grant

\* unseal: the lengths, then DecryptMessage, then the QOP that tells a frame
\* that was only signed from one that was encrypted.
Unseals(f) == f.seal = "sealed"

\* 3. the grant.
ReadGrant ==
    /\ Waiting("grant")
    /\ \/ ~Unseals(Received) /\ \E e \in {"Sspi", "Protocol"} : Fail(e)
       \/ Unseals(Received) /\ Received.body \notin Access /\ Fail("Protocol")
       \/ /\ Unseals(Received) /\ Received.body \in Access
          /\ Proceed("granted") /\ grant' = Received.body

-----------------------------------------------------------------------------
(* The server (external) *)

Send(f) == toClient' = IF link = "up" THEN Append(toClient, f) ELSE toClient
client == <<phase, error, link, exchange, calls, confidential, grant>>

ServerGreets ==
    /\ acceptor.state = "greet" /\ link = "up"
    /\ \E g \in Greetings \union {"malformed"} :
          /\ Send(Control(g))
          /\ acceptor' = [acceptor EXCEPT !.state =
                             IF g = "START_HANDSHAKE" THEN "accept" ELSE "refused"]
    /\ UNCHANGED <<client, toServer>>

\* AcceptSecurityContext on the next token: a reply while the client has a
\* call left to make, and the end of the exchange when it has no token left.
Tokens == IF exchange.tail THEN exchange.legs ELSE exchange.legs - 1
ServerAccepts ==
    /\ acceptor.state = "accept" /\ toServer # <<>>
    /\ toServer' = Tail(toServer)
    /\ LET n == acceptor.tokens + 1 IN
          /\ acceptor' = [acceptor EXCEPT !.tokens = n,
                             !.state = IF n = Tokens THEN "accepted" ELSE "accept"]
          /\ IF n < exchange.legs
             THEN \E body \in {"token", "malformed"} : Send(Token(body))
             ELSE UNCHANGED toClient
    /\ UNCHANGED client

\* The grant or a denial, sealed as the context allows; or a word in the clear.
ServerAnswers ==
    /\ acceptor.state = "accepted"
    /\ \E word \in Access \union Denials, seal \in {"sealed", "signed"} :
          /\ Send([type |-> "data", body |-> word, seal |-> seal])
          /\ acceptor' = [acceptor EXCEPT
                !.state = IF word \in Access THEN "granted" ELSE "refused",
                !.access = IF word \in Access THEN word ELSE "none"]
    /\ UNCHANGED <<client, toServer>>
ServerRejects ==
    /\ acceptor.state \in {"accept", "accepted"}
    /\ \E word \in Denials : Send(Control(word))
    /\ acceptor' = [acceptor EXCEPT !.state = "refused"]
    /\ UNCHANGED <<client, toServer>>

\* The server closes, at the latest when it has refused; the link dies.
ServerCloses ==
    /\ link = "up" /\ acceptor.state # "granted"
    /\ link' = "closed" /\ acceptor' = [acceptor EXCEPT !.state = "refused"]
    /\ UNCHANGED <<phase, error, network, exchange, calls, confidential, grant>>
LinkDies ==
    /\ phase \notin {"granted", "failed"} /\ link \in {"up", "closed"}
    /\ link' = "reset"
    /\ UNCHANGED <<phase, error, network, exchange, calls, confidential, grant, acceptor>>

-----------------------------------------------------------------------------
ClientStep == TcpConnect \/ RecvFails \/ Greeting \/ Step \/ StepFails \/ PeerToken \/ ReadGrant
ServerStep == ServerGreets \/ ServerAccepts \/ ServerAnswers
HandshakeNext == ClientStep \/ ServerStep \/ ServerRejects \/ ServerCloses \/ LinkDies

\* tokio polls the client's future; a server that has something to answer
\* answers, and one that has refused closes.  One that waits for a token may
\* wait for ever.
HandshakeFairness ==
    /\ WF_handshakeVars(ClientStep)
    /\ WF_handshakeVars(ServerStep \/ (acceptor.state = "refused" /\ ServerCloses))

-----------------------------------------------------------------------------
HandshakeTypeOK ==
    /\ phase \in {"tcp", "greeting", "step", "token", "grant", "granted", "failed"}
    /\ error \in {"none", "Refused", "Io", "ExistingSession", "Sspi", "Protocol"}
    /\ link \in {"none", "up", "closed", "reset", "dropped"}
    /\ toServer \in Seq(Frame) /\ toClient \in Seq(Frame)
    /\ exchange \in Exchanges /\ calls \in 0..exchange.legs /\ confidential \in BOOLEAN
    /\ grant \in Access \union {"none"}
    /\ acceptor \in [state : {"greet", "accept", "accepted", "granted", "refused"},
                     tokens : Nat, access : Access \union {"none"}]

\* How far the two ends of the exchange can be apart: every token is either
\* accepted or on its way, and the client is through when it has made every call
\* and the last of them granted confidentiality.
ExchangeInStep ==
    phase # "failed" =>
        /\ acceptor.tokens + Len(toServer) =
              (IF calls = exchange.legs THEN Tokens ELSE calls)
        /\ phase \in {"tcp", "greeting"} => calls = 0
        /\ phase \in {"step", "token"} => calls < exchange.legs
        /\ phase \in {"grant", "granted"} => calls = exchange.legs /\ confidential

\* The acceptor answers when it has every token, and a sealed grant on its way
\* is its last word.
AnswersInStep ==
    /\ acceptor.state \in {"accepted", "granted"} => acceptor.tokens = Tokens
    /\ \A i \in DOMAIN toClient : Unseals(toClient[i]) /\ toClient[i].body \in Access =>
          /\ i = Len(toClient)
          /\ acceptor.state = "granted" /\ acceptor.access = toClient[i].body
=============================================================================
