------------------------------ MODULE Clipboard ------------------------------
(***************************************************************************)
(* The side channels of an active session: clipboard text and files over    *)
(* cliprdr, the Send File slot and the curtain flag that the UI thread       *)
(* leaves for the session thread, and what a reactivation or a reconnect     *)
(* forgets.  The slots are looked at only when a PDU has arrived, before     *)
(* that PDU is processed.                                                    *)
(*                                                                           *)
(* crates/sccm-rc-core/src/rdp.rs (CliprdrChannel, the loop of               *)
(* run_active_session), crates/sccm-rc-protocol/src/cliprdr.rs,              *)
(* crates/sccm-rc-viewer/src/main.rs (SendFile, ToggleCurtain)               *)
(*                                                                           *)
(* A message is a record with the fields of one ClipPdu; PDUs that the       *)
(* channel answers with nothing are "other".  `told` and `described` are     *)
(* auxiliary: the last Format List of this CliprdrChannel, and the file      *)
(* group descriptor sent under it.                                           *)
(***************************************************************************)
EXTENDS Integers, Sequences

CONSTANTS
    LocalTexts,    \* what the operator copies
    RemoteTexts,   \* what the remote user copies
    Files,         \* paths of local files
    Selections,    \* file lists the operator copies in Explorer
    MaxEvents,     \* bound: copies, clicks, failed clipboard calls, files removed,
                   \* reactivations and reconnects, together
    MaxWire,       \* bound: messages in flight, per direction
    None           \* no text, no file

ASSUME ClipboardAssumption ==
    /\ LocalTexts \cap RemoteTexts = {}
    /\ None \notin LocalTexts \cup RemoteTexts \cup Files
    /\ Selections \subseteq Seq(Files)
ASSUME ClipboardBounds ==
    MaxEvents \in Nat /\ MaxWire \in Nat

VARIABLES
    text, hdrop,   \* the local OS clipboard: its text, its CF_HDROP list
    disk,          \* the files that exist
    late,          \* a write whose caller has given up on it
    offer,         \* the file_offer slot
    curtainOn,     \* the curtain flag
    at,            \* where run_active_session's loop is
    inbox,         \* the PDU it has taken
    announce,      \* local_changed's flag
    ready, known, knownFiles, pending,   \* CliprdrChannel (pending_files)
    curtainApplied,
    toServer, toClient,
    told, described,
    readySent,     \* server: MonitorReady was sent
    view,          \* server: the client's last Format List
    curtained,     \* server: the screen is blank
    events

local == <<text, hdrop, disk, late>>
slots == <<offer, curtainOn>>
loop == <<at, inbox, announce, curtainApplied>>
channel == <<ready, known, knownFiles, pending, told, described>>
server == <<readySent, view, curtained>>
vars == <<local, slots, loop, channel, toServer, toClient, server, events>>

Texts == LocalTexts \cup RemoteTexts
NoList == [text |-> FALSE, files |-> FALSE]
Indices == {1} \cup UNION {DOMAIN fs : fs \in Selections}

Event == events < MaxEvents /\ events' = events + 1

Other == [m |-> "other"]
List(t, fs) == [m |-> "format_list", text |-> t # None, files |-> fs # <<>>]

\* all_names_sizes: entries that cannot be read are dropped.
AllNamesSizes ==
    LET readable[n \in 0..Len(pending)] ==
            IF n = 0 THEN <<>>
            ELSE IF pending[n] \in disk THEN Append(readable[n - 1], pending[n])
            ELSE readable[n - 1]
    IN  readable[Len(pending)]

Init ==
    /\ \/ text \in LocalTexts \cup {None} /\ hdrop = <<>>
       \/ text = None /\ hdrop \in Selections
    /\ disk = Files /\ late = None
    /\ offer = None /\ curtainOn = FALSE
    /\ at = "idle" /\ inbox = Other /\ announce = FALSE
    /\ ready = FALSE /\ known = None /\ knownFiles = <<>> /\ pending = <<>>
    /\ told = NoList /\ described = <<>>
    /\ curtainApplied = FALSE
    /\ toServer = <<>> /\ toClient = <<>>
    /\ readySent = FALSE /\ view = NoList /\ curtained = FALSE
    /\ events = 0

-----------------------------------------------------------------------------
(* The operator and the local machine *)

\* A copy replaces the whole clipboard.
CopyText(t) ==
    /\ Event
    /\ text' = t /\ hdrop' = <<>>
    /\ UNCHANGED <<disk, late, slots, loop, channel, toServer, toClient, server>>

CopyFiles(fs) ==
    /\ Event
    /\ text' = None /\ hdrop' = fs
    /\ UNCHANGED <<disk, late, slots, loop, channel, toServer, toClient, server>>

RemoveFile(f) ==
    /\ f \in disk /\ disk' = disk \ {f}
    /\ Event
    /\ UNCHANGED <<text, hdrop, late, slots, loop, channel, toServer, toClient, server>>

\* The worker thread of a write_local that timed out gets the clipboard after all.
LateWrite ==
    /\ late # None /\ late' = None
    /\ text' = late /\ hdrop' = <<>>
    /\ UNCHANGED <<disk, slots, loop, channel, toServer, toClient, server, events>>

\* ToolbarAction::SendFile, when the picker has returned.
SendFile(f) ==
    /\ Event
    /\ offer' = f
    /\ UNCHANGED <<local, curtainOn, loop, channel, toServer, toClient, server>>

\* ToolbarAction::ToggleCurtain
ToggleCurtain ==
    /\ Event
    /\ curtainOn' = ~curtainOn
    /\ UNCHANGED <<local, offer, loop, channel, toServer, toClient, server>>

-----------------------------------------------------------------------------
(* One turn of run_active_session's loop, up to the PDU *)

\* A clipboard call returned `got`; it timed out or failed if that is not `real`.
Called(got, real) ==
    IF got = real THEN UNCHANGED events
    ELSE Event

\* format_list, sent.  What was described under the list before is void.
Announce(k, p) ==
    /\ toServer' = Append(toServer, List(k, p))
    /\ told' = [text |-> k # None, files |-> p # <<>>]
    /\ described' = <<>>

\* A PDU is there.  The poll is skipped less than 700 ms after the last one, and
\* before MonitorReady.
Arrive ==
    /\ at = "idle" /\ toClient # <<>>
    /\ Len(toServer) < MaxWire
    /\ inbox' = Head(toClient) /\ toClient' = Tail(toClient)
    /\ \/ at' = "offer"
       \/ ready /\ at' = "poll"
    /\ UNCHANGED <<local, slots, announce, curtainApplied, channel, toServer, server, events>>

\* local_changed, the file clipboard.
PollFiles ==
    /\ at = "poll" /\ at' = "poll_text"
    /\ \E files \in {hdrop, <<>>} :
          /\ Called(files, hdrop)
          /\ announce' = (files # knownFiles)
          /\ knownFiles' = files
          /\ pending' = IF files # knownFiles THEN files ELSE pending
    /\ UNCHANGED <<local, slots, inbox, curtainApplied, ready, known, told, described,
                   toServer, toClient, server>>

\* Mutant: only a change of the text is announced.
PollTextOnly ==
    /\ at = "poll_text" /\ at' = "offer"
    /\ \E cur \in {text, None} :
          /\ Called(cur, text)
          /\ known' = cur
          /\ IF cur # known THEN Announce(cur, pending)
             ELSE UNCHANGED <<toServer, told, described>>
    /\ announce' = FALSE
    /\ UNCHANGED <<local, slots, inbox, curtainApplied, ready, knownFiles, pending,
                   toClient, server>>

\* local_changed, the text, and its announcement.
PollText ==
    /\ at = "poll_text" /\ at' = "offer"
    /\ \E cur \in {text, None} :
          /\ Called(cur, text)
          /\ known' = cur
          /\ IF announce \/ cur # known THEN Announce(cur, pending)
             ELSE UNCHANGED <<toServer, told, described>>
    /\ announce' = FALSE
    /\ UNCHANGED <<local, slots, inbox, curtainApplied, ready, knownFiles, pending,
                   toClient, server>>

\* The file_offer slot: offer_file.
OfferFile ==
    /\ at = "offer" /\ at' = "curtain"
    /\ \/ /\ offer # None /\ offer' = None
          /\ pending' = <<offer>>
          /\ Announce(known, pending')
       \/ /\ offer = None
          /\ UNCHANGED <<offer, pending, toServer, told, described>>
    /\ UNCHANGED <<local, curtainOn, inbox, announce, curtainApplied, ready, known,
                   knownFiles, toClient, server, events>>

\* The curtain flag, read once.
Curtain ==
    /\ at = "curtain" /\ at' = "process"
    /\ \/ /\ curtainOn # curtainApplied
          /\ curtainApplied' = curtainOn
          /\ toServer' = Append(toServer, [m |-> "curtain", on |-> curtainOn])
       \/ /\ curtainOn = curtainApplied
          /\ UNCHANGED <<curtainApplied, toServer>>
    /\ UNCHANGED <<local, slots, inbox, announce, channel, toClient, server, events>>

-----------------------------------------------------------------------------
(* CliprdrChannel::process *)

Process(m) == at = "process" /\ inbox.m = m /\ at' = "idle" /\ inbox' = Other
Reply(r) == toServer' = Append(toServer, r)

\* Capabilities, FormatListResponse, unknown messages, everything that is not
\* cliprdr.
ProcessOther ==
    /\ Process("other")
    /\ UNCHANGED <<local, slots, announce, curtainApplied, channel, toServer, toClient,
                   server, events>>

ProcessMonitorReady ==
    /\ Process("monitor_ready")
    /\ ready' = TRUE
    /\ \E cur \in {text, None}, files \in {hdrop, <<>>} :
          /\ Called(<<cur, files>>, <<text, hdrop>>)
          /\ known' = cur
          /\ pending' = IF files # <<>> THEN files ELSE pending
          /\ knownFiles' = files
          /\ Announce(cur, pending')
    /\ UNCHANGED <<local, slots, announce, curtainApplied, toClient, server>>

\* Acknowledged, and the text asked for.
ProcessFormatList ==
    /\ Process("format_list")
    /\ IF inbox.text THEN Reply([m |-> "data_request"]) ELSE UNCHANGED toServer
    /\ UNCHANGED <<local, slots, announce, curtainApplied, channel, toClient, server, events>>

\* FormatDataRequest for text: what is on the clipboard now.
ProcessTextRequest ==
    /\ Process("text_request")
    /\ \E cur \in {text, None} :
          /\ Called(cur, text)
          /\ Reply([m |-> "data_response", text |-> cur])
    /\ UNCHANGED <<local, slots, announce, curtainApplied, channel, toClient, server>>

\* FormatDataRequest for the file group: its descriptor, failing (no files) when
\* none can be read.
ProcessFilesRequest ==
    /\ Process("files_request")
    /\ Reply([m |-> "descriptor", files |-> AllNamesSizes])
    /\ described' = AllNamesSizes
    /\ UNCHANGED <<local, slots, announce, curtainApplied, ready, known, knownFiles,
                   pending, told, toClient, server, events>>

\* What a request for entry i of `fs` gets.
ContentsOf(fs, i) ==
    [m |-> "contents", index |-> i,
     file |-> IF i \in DOMAIN fs /\ fs[i] \in disk THEN fs[i] ELSE None]

\* Mutant: the index is looked up in the CF_HDROP snapshot.
ProcessContentsRequestKnown ==
    /\ Process("contents_request")
    /\ Reply(ContentsOf(knownFiles, inbox.index))
    /\ UNCHANGED <<local, slots, announce, curtainApplied, channel, toClient, server, events>>

\* FileContentsRequest: file_name_size or read_range of the offered file there.
ProcessContentsRequest ==
    /\ Process("contents_request")
    /\ Reply(ContentsOf(pending, inbox.index))
    /\ UNCHANGED <<local, slots, announce, curtainApplied, channel, toClient, server, events>>

\* FormatDataResponse: write_local, which may fail, or time out and land later.
ProcessDataResponse ==
    /\ Process("data_response")
    /\ \/ /\ inbox.text = None
          /\ UNCHANGED <<local, known, events>>
       \/ /\ inbox.text # None
          /\ text' = inbox.text /\ hdrop' = <<>> /\ known' = inbox.text
          /\ UNCHANGED <<disk, late, events>>
       \/ /\ inbox.text # None
          /\ Event
          /\ late' \in {None, inbox.text}
          /\ UNCHANGED <<text, hdrop, disk, known>>
    /\ UNCHANGED <<slots, announce, curtainApplied, ready, knownFiles, pending, told,
                   described, toServer, toClient, server>>

\* A new CliprdrChannel with nothing known.
FreshChannel ==
    /\ ready' = FALSE /\ known' = None /\ knownFiles' = <<>> /\ pending' = <<>>
    /\ told' = NoList /\ described' = <<>>

\* DeactivateAll: drive_reactivation and build_wlc_channel_set.
ProcessDeactivate ==
    /\ Process("deactivate")
    /\ FreshChannel
    /\ UNCHANGED <<local, slots, announce, curtainApplied, toServer, toClient, server, events>>

\* Mutant: the new session believes the curtain is still down.
ReconnectKeepsCurtain ==
    /\ Event
    /\ at' = "idle" /\ inbox' = Other /\ announce' = FALSE
    /\ FreshChannel
    /\ toServer' = <<>> /\ toClient' = <<>>
    /\ readySent' = FALSE /\ view' = NoList /\ curtained' = FALSE
    /\ UNCHANGED <<local, slots, curtainApplied>>

\* The link is lost and the session thread connects again: run_active_session
\* begins anew, the slots stay.
Reconnect ==
    /\ Event
    /\ at' = "idle" /\ inbox' = Other /\ announce' = FALSE
    /\ curtainApplied' = FALSE
    /\ FreshChannel
    /\ toServer' = <<>> /\ toClient' = <<>>
    /\ readySent' = FALSE /\ view' = NoList /\ curtained' = FALSE
    /\ UNCHANGED <<local, slots>>

-----------------------------------------------------------------------------
(* The server *)

Send(msg) == toClient' = Append(toClient, msg)

ServerReady ==
    /\ ~readySent /\ readySent' = TRUE
    /\ Len(toClient) < MaxWire /\ Send([m |-> "monitor_ready"])
    /\ UNCHANGED <<local, slots, loop, channel, toServer, view, curtained, events>>

\* Graphics and everything else that makes the loop turn.
ServerOther ==
    /\ toClient = <<>> /\ Send(Other)
    /\ UNCHANGED <<local, slots, loop, channel, toServer, server, events>>

RemoteCopy ==
    /\ readySent /\ Event /\ Len(toClient) < MaxWire
    /\ \E t \in BOOLEAN : Send([m |-> "format_list", text |-> t])
    /\ UNCHANGED <<local, slots, loop, channel, toServer, server>>

\* The remote user pastes what the client offers.
RemotePaste ==
    /\ readySent /\ Len(toClient) < MaxWire
    /\ \/ view.text /\ Send([m |-> "text_request"])
       \/ view.files /\ Send([m |-> "files_request"])
    /\ UNCHANGED <<local, slots, loop, channel, toServer, server, events>>

\* An entry of some descriptor the server has had, however old.
RemoteFetch ==
    /\ readySent /\ Len(toClient) < MaxWire
    /\ view.files
    /\ \E i \in Indices : Send([m |-> "contents_request", index |-> i])
    /\ UNCHANGED <<local, slots, loop, channel, toServer, server, events>>

\* The server resizes or reattaches the desktop.  Whether it starts its clipboard
\* channel again is its own affair.
ServerDeactivate ==
    /\ Event
    /\ Len(toClient) < MaxWire /\ Send([m |-> "deactivate"])
    /\ readySent' \in {FALSE, readySent}
    /\ UNCHANGED <<local, slots, loop, channel, toServer, view, curtained>>

\* The client's Format List; one before MonitorReady may be dropped.
ServerList ==
    /\ Head(toServer).m = "format_list"
    /\ \/ view' = [text |-> Head(toServer).text, files |-> Head(toServer).files]
       \/ ~readySent /\ UNCHANGED view
    /\ UNCHANGED <<toClient, curtained>>

\* The client asks for the remote text, which may be gone.
ServerData ==
    /\ Head(toServer).m = "data_request"
    /\ \E t \in RemoteTexts \cup {None} : Send([m |-> "data_response", text |-> t])
    /\ UNCHANGED <<view, curtained>>

ServerRest ==
    /\ Head(toServer).m \in {"data_response", "descriptor", "contents", "curtain"}
    /\ curtained' = IF Head(toServer).m = "curtain" THEN Head(toServer).on ELSE curtained
    /\ UNCHANGED <<toClient, view>>

ServerHandle ==
    /\ toServer # <<>> /\ toServer' = Tail(toServer)
    /\ ServerList \/ ServerData \/ ServerRest
    /\ UNCHANGED <<local, slots, loop, channel, readySent, events>>

-----------------------------------------------------------------------------

Environment ==
    \/ \E t \in LocalTexts : CopyText(t)
    \/ \E fs \in Selections : CopyFiles(fs)
    \/ \E f \in Files : RemoveFile(f) \/ SendFile(f)
    \/ LateWrite \/ ToggleCurtain

Loop ==
    \/ Arrive \/ PollFiles \/ PollText \/ OfferFile \/ Curtain
    \/ ProcessOther \/ ProcessMonitorReady \/ ProcessFormatList \/ ProcessTextRequest
    \/ ProcessFilesRequest \/ ProcessContentsRequest \/ ProcessDataResponse
    \/ ProcessDeactivate

Server ==
    \/ ServerReady \/ ServerOther \/ ServerDeactivate \/ ServerHandle
    \/ RemoteCopy \/ RemotePaste \/ RemoteFetch

Next == Environment \/ Loop \/ Reconnect \/ Server

(***************************************************************************)
(* The loop takes its steps; its 700 ms timer expires again and again, so  *)
(* the poll is not skipped for ever (SF).  The server works off what it is *)
(* sent and keeps sending something; it need never send MonitorReady.      *)
(***************************************************************************)
Fairness ==
    /\ WF_vars(Loop) /\ SF_vars(Arrive /\ at' = "poll")
    /\ WF_vars(ServerHandle) /\ WF_vars(ServerOther)

Spec == Init /\ [][Next]_vars
FairSpec == Spec /\ Fairness

-----------------------------------------------------------------------------
(* Properties *)

ToClient ==
    [m : {"other", "monitor_ready", "text_request", "files_request", "deactivate"}]
    \cup [m : {"format_list"}, text : BOOLEAN]
    \cup [m : {"contents_request"}, index : Indices]
    \cup [m : {"data_response"}, text : RemoteTexts \cup {None}]
ToServer ==
    [m : {"format_list"}, text : BOOLEAN, files : BOOLEAN]
    \cup [m : {"data_request"}]
    \cup [m : {"data_response"}, text : Texts \cup {None}]
    \cup [m : {"descriptor"}, files : Seq(Files)]
    \cup [m : {"contents"}, index : Indices, file : Files \cup {None}]
    \cup [m : {"curtain"}, on : BOOLEAN]
LocalOK ==
    /\ text \in Texts \cup {None} /\ hdrop \in Seq(Files)
    /\ disk \subseteq Files /\ late \in RemoteTexts \cup {None}
SlotsOK == offer \in Files \cup {None} /\ curtainOn \in BOOLEAN
LoopOK ==
    /\ at \in {"idle", "poll", "poll_text", "offer", "curtain", "process"}
    /\ inbox \in ToClient /\ announce \in BOOLEAN /\ curtainApplied \in BOOLEAN
ChannelOK ==
    /\ ready \in BOOLEAN /\ known \in Texts \cup {None}
    /\ knownFiles \in Seq(Files) /\ pending \in Seq(Files)
    /\ told \in [text : BOOLEAN, files : BOOLEAN] /\ described \in Seq(Files)
WireOK == toServer \in Seq(ToServer) /\ toClient \in Seq(ToClient)
ServerOK ==
    /\ readySent \in BOOLEAN /\ view \in [text : BOOLEAN, files : BOOLEAN]
    /\ curtained \in BOOLEAN
TypeOK ==
    /\ LocalOK /\ SlotsOK /\ LoopOK /\ ChannelOK /\ WireOK /\ ServerOK
    /\ events \in 0..MaxEvents

\* What this CliprdrChannel has told the server it can still answer for: files are
\* on offer exactly when the last Format List said so, and text it announced is
\* still known.  Every change of pending_files is announced.
ToldIsHeld ==
    at # "poll_text" => /\ told.files <=> pending # <<>>
                        /\ told.text => known # None

\* Between the two halves of local_changed the flag says whether the list still has
\* to be sent.  A descriptor with as many files as are pending is of those files.
OffersInStep ==
    /\ announce => at = "poll_text"
    /\ told.text => known # None
    /\ ~announce => /\ told.files <=> pending # <<>>
                    /\ Len(described) = Len(pending) => described = pending

\* This step answers a contents request for entry i of the descriptor.
Answers(i) ==
    /\ at = "process" /\ inbox = [m |-> "contents_request", index |-> i]
    /\ at' = "idle" /\ events' = events

\* Under one Format List, whose descriptor had all its files, a contents request is
\* answered from the file described at that index, whatever was copied or removed
\* since: pending_files never changes without a new list.
ServedIsDescribed ==
    [][\A i \in DOMAIN described :
          Answers(i) /\ Len(described) = Len(pending)
              => toServer' = Append(toServer, ContentsOf(described, i))]_vars

\* all_names_sizes: "in the same order (so `lindex` in a FileContentsRequest can
\* index straight in)", entries it dropped notwithstanding.
LindexIndexesStraight ==
    [][\A i \in DOMAIN described :
          Answers(i) => toServer' = Append(toServer, ContentsOf(described, i))]_vars

\* Once everyone stops, and MonitorReady has been seen, the server's idea of the
\* offer is the client's, and the client's is the clipboard's, through timeouts,
\* late writes, reactivations and reconnects.
OfferSettles ==
    <>[](ready => /\ known = text /\ knownFiles = hdrop
                  /\ view.files = (pending # <<>>) /\ (view.text => text # None))

\* The remote screen is blank exactly when the curtain is on, in the end and in
\* whichever session.
CurtainFollows == <>[](curtained = curtainOn)

\* The inductive invariant: types and what is on offer in step.
IInv == TypeOK /\ ToldIsHeld /\ OffersInStep

=============================================================================
