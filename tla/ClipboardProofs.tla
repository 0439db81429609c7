--------------------------- MODULE ClipboardProofs ---------------------------
(***************************************************************************)
(* Proofs about Clipboard, for every set of texts, files and selections and *)
(* any number of events and messages in flight.                             *)
(***************************************************************************)
EXTENDS Clipboard, SequenceTheorems, WellFoundedInduction, TLAPS

-----------------------------------------------------------------------------
(* all_names_sizes *)

\* A nonempty set of naturals has a least element.
LEMMA LeastNat ==
  ASSUME NEW T, T \subseteq Nat, T # {}
  PROVE  \E x \in T : \A y \in T : x <= y
<1>1. \E x \in T : \A y \in T : ~ (<<y, x>> \in OpToRel(<, Nat))
  BY NatLessThanWellFounded, WFMin, Zenon DEF OpToRel
<1>2. PICK x \in T : \A y \in T : ~ (<<y, x>> \in OpToRel(<, Nat))
  BY <1>1, Zenon
<1>3. \A y \in T : ~(y < x)
  BY <1>2 DEF OpToRel
<1> QED
  BY <1>3

\* Induction up to N.
LEMMA UpTo ==
  ASSUME NEW N \in Nat, NEW T, 0 \in T, \A n \in 0..N : n < N /\ n \in T => n + 1 \in T
  PROVE  0..N \subseteq T
<1> SUFFICES ASSUME (0..N) \ T # {} PROVE FALSE
  OBVIOUS
<1> DEFINE U == (0..N) \ T
<1>1. PICK x \in U : \A y \in U : x <= y
  <2>1. U \subseteq Nat /\ U # {}
    OBVIOUS
  <2> HIDE DEF U
  <2> QED
    BY <2>1, LeastNat
<1>2. x # 0 /\ x - 1 \in 0..N /\ x - 1 \in T
  BY <1>1
<1> QED
  BY <1>1, <1>2

\* What is kept of fs when the files outside D are dropped.
Keep(fs, D, f, n) ==
    IF n = 0 THEN <<>>
    ELSE IF fs[n] \in D THEN Append(f[n - 1], fs[n])
    ELSE f[n - 1]

\* There is a function that keeps the files one by one.
LEMMA KeepExists ==
  ASSUME NEW fs, Len(fs) \in Nat, NEW D
  PROVE  \E f : f = [n \in 0..Len(fs) |-> Keep(fs, D, f, n)]
<1> DEFINE L == Len(fs)
           Is(f, m) == f = [n \in 0..m |-> Keep(fs, D, f, n)]
           T == {m \in 0..L : \E f : Is(f, m)}
<1>1. 0 \in T
  <2>1. Is([n \in 0..0 |-> <<>>], 0)
    BY DEF Keep
  <2>2. 0 \in 0..L
    OBVIOUS
  <2> HIDE DEF Is
  <2> QED
    BY <2>1, <2>2
<1>2. ASSUME NEW m \in 0..L, m < L, m \in T PROVE m + 1 \in T
  <2>1. PICK f : Is(f, m)
    BY <1>2
  <2> DEFINE g == [n \in 0..(m + 1) |-> IF n = m + 1 THEN Keep(fs, D, f, n) ELSE f[n]]
  <2>2. ASSUME NEW n \in 0..(m + 1)
        PROVE  g[n] = Keep(fs, D, g, n)
    <3>1. CASE n = 0
      <4>1. g[0] = f[0] /\ f[0] = Keep(fs, D, f, 0)
        BY <2>1
      <4> QED
        BY <3>1, <4>1 DEF Keep
    <3>2. CASE n # 0
      <4>1. n - 1 \in 0..m /\ g[n - 1] = f[n - 1]
        BY <3>2
      <4>2. Keep(fs, D, g, n) = Keep(fs, D, f, n)
        BY <3>2, <4>1 DEF Keep
      <4>3. g[n] = Keep(fs, D, f, n)
        BY <2>1
      <4> QED
        BY <4>2, <4>3
    <3> QED
      BY <3>1, <3>2
  <2>3. g = [n \in 0..(m + 1) |-> Keep(fs, D, g, n)]
    BY <2>2
  <2>4. Is(g, m + 1)
    BY <2>3
  <2>5. m + 1 \in 0..L
    BY <1>2
  <2> HIDE DEF Is, g
  <2> QED
    BY <2>4, <2>5
<1>3. 0..L \subseteq T
  <2> HIDE DEF T
  <2> QED
    BY <1>1, <1>2, UpTo
<1>4. L \in T
  BY <1>3
<1> QED
  BY <1>4

\* Dropping files leaves a list of files, and the whole list when no file is
\* dropped.
LEMMA Readable ==
  ASSUME pending \in Seq(Files)
  PROVE  /\ AllNamesSizes \in Seq(Files)
         /\ Len(AllNamesSizes) = Len(pending) => AllNamesSizes = pending
<1>1. PICK fs, D : fs = pending /\ D = disk
  OBVIOUS
<1>2. fs \in Seq(Files) /\ Len(fs) \in Nat /\ \A n \in 1..Len(fs) : fs[n] \in Files
  BY <1>1
<1> DEFINE f == CHOOSE h : h = [n \in 0..Len(fs) |-> Keep(fs, D, h, n)]
<1>3. AllNamesSizes = f[Len(fs)]
  BY <1>1 DEF AllNamesSizes, Keep
<1>4. f = [n \in 0..Len(fs) |-> Keep(fs, D, f, n)]
  <2>1. \E h : h = [n \in 0..Len(fs) |-> Keep(fs, D, h, n)]
    BY <1>2, KeepExists
  <2> QED
    BY <2>1, Zenon
<1> HIDE DEF f
<1>5. \A n \in 0..Len(fs) : f[n] = Keep(fs, D, f, n)
  BY <1>4
<1> DEFINE T == {n \in 0..Len(fs) :
                   /\ f[n] \in Seq(Files) /\ Len(f[n]) <= n
                   /\ Len(f[n]) = n => \A i \in 1..n : f[n][i] = fs[i]}
<1>6. 0 \in T
  <2>1. f[0] = <<>>
    BY <1>2, <1>5 DEF Keep
  <2>2. f[0] \in Seq(Files) /\ Len(f[0]) = 0
    BY <2>1, EmptySeq
  <2>3. \A i \in 1..0 : f[0][i] = fs[i]
    OBVIOUS
  <2> QED
    BY <1>2, <2>2, <2>3
<1>7. ASSUME NEW n \in 0..Len(fs), n < Len(fs), n \in T PROVE n + 1 \in T
  <2>1. PICK s : s = f[n]
    OBVIOUS
  <2>2. s \in Seq(Files) /\ Len(s) \in Nat /\ Len(s) <= n /\ (Len(s) = n => \A i \in 1..n : s[i] = fs[i])
    BY <1>7, <2>1
  <2>3. n + 1 \in 0..Len(fs) /\ n + 1 \in 1..Len(fs) /\ n + 1 # 0 /\ (n + 1) - 1 = n
    BY <1>2, <1>7
  <2>4. f[n + 1] = IF fs[n + 1] \in D THEN Append(s, fs[n + 1]) ELSE s
    BY <1>5, <2>1, <2>3 DEF Keep
  <2>5. CASE fs[n + 1] \in D
    <3>1. PICK a : a = Append(s, fs[n + 1])
      OBVIOUS
    <3>2. fs[n + 1] \in Files
      BY <1>2, <2>3
    <3>3. /\ a \in Seq(Files) /\ Len(a) = Len(s) + 1 /\ a[Len(s) + 1] = fs[n + 1]
          /\ \A i \in 1..Len(s) : a[i] = s[i]
      BY <2>2, <3>1, <3>2, AppendProperties
    <3>4. Len(a) = n + 1 => \A i \in 1..(n + 1) : a[i] = fs[i]
      BY <2>2, <3>3
    <3>5. Len(a) <= n + 1
      BY <2>2, <3>3
    <3>6. f[n + 1] = a
      BY <2>4, <2>5, <3>1
    <3> QED
      BY <2>3, <3>3, <3>4, <3>5, <3>6
  <2>6. CASE fs[n + 1] \notin D
    <3>1. f[n + 1] = s
      BY <2>4, <2>6
    <3>2. Len(s) <= n + 1 /\ Len(s) # n + 1
      BY <2>2
    <3> QED
      BY <2>2, <2>3, <3>1, <3>2
  <2> QED
    BY <2>5, <2>6
<1>8. Len(fs) \in T
  <2> HIDE DEF T
  <2>1. 0..Len(fs) \subseteq T
    BY <1>2, <1>6, <1>7, UpTo
  <2> QED
    BY <1>2, <2>1
<1>9. PICK a : a = f[Len(fs)]
  OBVIOUS
<1>10. a \in Seq(Files) /\ (Len(a) = Len(fs) => \A i \in 1..Len(fs) : a[i] = fs[i])
  BY <1>8, <1>9
<1>11. Len(a) = Len(fs) => a = fs
  BY <1>2, <1>10, SeqEqual
<1> QED
  BY <1>1, <1>3, <1>9, <1>10, <1>11

-----------------------------------------------------------------------------
(* Messages *)

\* A message that joins a queue, and the one that leaves it.
LEMMA QueueGrows ==
  ASSUME NEW S, NEW q \in Seq(S), NEW e \in S
  PROVE  Append(q, e) \in Seq(S)
  BY AppendProperties

LEMMA QueueShrinks ==
  ASSUME NEW S, NEW q \in Seq(S), q # <<>>
  PROVE  Head(q) \in S /\ Tail(q) \in Seq(S)
  BY HeadTailProperties

\* The messages the client sends.
LEMMA ClientSays ==
  /\ \A t, fs : List(t, fs) \in ToServer
  /\ [m |-> "data_request"] \in ToServer
  /\ \A t \in Texts \cup {None} : [m |-> "data_response", text |-> t] \in ToServer
  /\ \A fs \in Seq(Files) : [m |-> "descriptor", files |-> fs] \in ToServer
  /\ \A i \in Indices, f \in Files \cup {None} :
        [m |-> "contents", index |-> i, file |-> f] \in ToServer
  /\ \A on \in BOOLEAN : [m |-> "curtain", on |-> on] \in ToServer
<1>1. \A t, fs : List(t, fs) \in ToServer
  <2> SUFFICES ASSUME NEW t, NEW fs PROVE List(t, fs) \in ToServer
    OBVIOUS
  <2>1. PICK a, b : a = (t # None) /\ b = (fs # <<>>)
    OBVIOUS
  <2>2. a \in BOOLEAN /\ b \in BOOLEAN
    BY <2>1
  <2>3. List(t, fs) = [m |-> "format_list", text |-> a, files |-> b]
    BY <2>1 DEF List
  <2> QED
    BY <2>2, <2>3 DEF ToServer
<1> QED
  BY <1>1 DEF ToServer

\* The messages the server sends.
LEMMA ServerSays ==
  /\ \A k \in {"other", "monitor_ready", "text_request", "files_request", "deactivate"} :
        [m |-> k] \in ToClient
  /\ \A t \in BOOLEAN : [m |-> "format_list", text |-> t] \in ToClient
  /\ \A i \in Indices : [m |-> "contents_request", index |-> i] \in ToClient
  /\ \A t \in RemoteTexts \cup {None} : [m |-> "data_response", text |-> t] \in ToClient
  /\ Other \in ToClient
  BY DEF ToClient, Other

\* What the fields of a message are, by its kind.
LEMMA MessagesSay ==
  /\ \A e \in ToClient : /\ e.m = "data_response" => e.text \in RemoteTexts \cup {None}
                         /\ e.m = "contents_request" => e.index \in Indices
  /\ \A e \in ToServer : /\ e.m = "format_list" => e.text \in BOOLEAN /\ e.files \in BOOLEAN
                         /\ e.m = "curtain" => e.on \in BOOLEAN
  BY DEF ToClient, ToServer

\* A Format List of what is known and pending is in step with both.
LEMMA AnnounceKeeps ==
  ASSUME TypeOK, Announce(known', pending'),
         pending' \in Seq(Files), announce' = FALSE
  PROVE  /\ toServer' \in Seq(ToServer) /\ described' \in Seq(Files)
         /\ told' \in [text : BOOLEAN, files : BOOLEAN]
         /\ OffersInStep'
<1>1. PICK a, b : a = (known' # None) /\ b = (pending' # <<>>)
  OBVIOUS
<1>2. a \in BOOLEAN /\ b \in BOOLEAN
  BY <1>1
<1>3. told' = [text |-> a, files |-> b] /\ described' = <<>>
  BY <1>1 DEF Announce
<1>4. told' \in [text : BOOLEAN, files : BOOLEAN] /\ told'.text = a /\ told'.files = b
  BY <1>2, <1>3
<1>5. described' \in Seq(Files) /\ (Len(described') = Len(pending') => described' = pending')
  <2>1. PICK p : p = pending'
    OBVIOUS
  <2>2. p \in Seq(Files) /\ (Len(p) = 0 => p = <<>>)
    BY <2>1, EmptySeq
  <2> QED
    BY <1>3, <2>1, <2>2, EmptySeq
<1>6. toServer' \in Seq(ToServer)
  <2>1. PICK l : l = List(known', pending')
    OBVIOUS
  <2>2. l \in ToServer
    BY <2>1, ClientSays
  <2>3. toServer' = Append(toServer, l)
    BY <2>1 DEF Announce
  <2> QED
    BY <2>2, <2>3, QueueGrows DEF TypeOK, WireOK
<1>7. OffersInStep'
  BY <1>1, <1>4, <1>5 DEF OffersInStep
<1> QED
  BY <1>4, <1>5, <1>6, <1>7

-----------------------------------------------------------------------------
(* The steps *)

\* ToldIsHeld adds nothing to the flag's meaning.
LEMMA Enough ==
  ASSUME TypeOK', OffersInStep'
  PROVE  IInv'
  BY DEF IInv, ToldIsHeld, OffersInStep

\* Nothing on offer changes.
LEMMA OffersStay ==
  ASSUME IInv, UNCHANGED <<announce, known, pending, told, described>>,
         announce => at' = "poll_text"
  PROVE  OffersInStep'
  BY DEF IInv, OffersInStep

LEMMA CountKeeps ==
  ASSUME IInv, Event \/ UNCHANGED events
  PROVE  events' \in 0..MaxEvents
  BY ClipboardBounds DEF IInv, TypeOK, Event

LEMMA CalledKeeps ==
  ASSUME IInv, NEW got, NEW real, Called(got, real)
  PROVE  events' \in 0..MaxEvents
  BY CountKeeps DEF Called

\* The operator and the local machine leave the channel alone.
LEMMA EnvironmentKeeps ==
  ASSUME IInv, Environment
  PROVE  IInv'
<1>1. UNCHANGED <<loop, channel, toServer, toClient, server>>
  BY DEF Environment, CopyText, CopyFiles, RemoveFile, LateWrite, SendFile, ToggleCurtain
<1>2. LocalOK'
  <2>1. LocalOK
    BY DEF IInv, TypeOK
  <2>2. CASE \E t \in LocalTexts : CopyText(t)
    BY <2>1, <2>2, EmptySeq DEF LocalOK, Texts, CopyText
  <2>3. CASE \E fs \in Selections : CopyFiles(fs)
    BY <2>1, <2>3, ClipboardAssumption DEF LocalOK, CopyFiles
  <2>4. CASE \E f \in Files : RemoveFile(f) \/ SendFile(f)
    BY <2>1, <2>4 DEF LocalOK, RemoveFile, SendFile, local
  <2>5. CASE LateWrite
    BY <2>1, <2>5, EmptySeq DEF LocalOK, Texts, LateWrite
  <2>6. CASE ToggleCurtain
    BY <2>1, <2>6 DEF LocalOK, ToggleCurtain, local
  <2> QED
    BY <2>2, <2>3, <2>4, <2>5, <2>6 DEF Environment
<1>3. SlotsOK'
  BY DEF IInv, TypeOK, SlotsOK, Environment, CopyText, CopyFiles,
     RemoveFile, LateWrite, SendFile, ToggleCurtain, slots
<1>4. events' \in 0..MaxEvents
  BY CountKeeps DEF Environment, CopyText, CopyFiles, RemoveFile, LateWrite, SendFile,
     ToggleCurtain
<1>5. LoopOK' /\ ChannelOK' /\ WireOK' /\ ServerOK'
  BY <1>1 DEF IInv, TypeOK, LoopOK, ChannelOK, WireOK, ServerOK, loop, channel, server
<1>6. OffersInStep'
  BY <1>1, OffersStay DEF loop, channel, IInv, OffersInStep
<1> QED
  BY <1>2, <1>3, <1>4, <1>5, <1>6, Enough DEF TypeOK

LEMMA ArriveKeeps ==
  ASSUME IInv, Arrive
  PROVE  IInv'
<1>1. inbox' \in ToClient /\ toClient' \in Seq(ToClient)
  BY QueueShrinks DEF Arrive, IInv, TypeOK, WireOK
<1>2. announce = FALSE
  BY DEF Arrive, IInv, TypeOK, LoopOK, OffersInStep
<1>3. LoopOK'
  BY <1>1 DEF Arrive, IInv, TypeOK, LoopOK
<1>4. OffersInStep'
  BY <1>2, OffersStay DEF Arrive, channel
<1>5. LocalOK' /\ SlotsOK' /\ ChannelOK' /\ WireOK' /\ ServerOK' /\ events' \in 0..MaxEvents
  BY <1>1 DEF Arrive, IInv, TypeOK, LocalOK, SlotsOK, ChannelOK, WireOK, ServerOK,
     local, slots, channel, server
<1> QED
  BY <1>3, <1>4, <1>5, Enough DEF TypeOK

\* The files of the clipboard: a change raises the flag.
LEMMA PollFilesKeeps ==
  ASSUME IInv, PollFiles
  PROVE  IInv'
<1>1. PICK files \in {hdrop, <<>>} :
         /\ Called(files, hdrop)
         /\ announce' = (files # knownFiles)
         /\ knownFiles' = files
         /\ pending' = IF files # knownFiles THEN files ELSE pending
  BY DEF PollFiles
<1>2. /\ at = "poll" /\ at' = "poll_text"
      /\ UNCHANGED <<local, slots, inbox, curtainApplied, ready, known, told, described,
                     toServer, toClient, server>>
  BY DEF PollFiles
<1>3. announce = FALSE
  BY <1>2 DEF IInv, TypeOK, LoopOK, OffersInStep
<1>4. files \in Seq(Files) /\ pending' \in Seq(Files)
  BY <1>1, EmptySeq DEF IInv, TypeOK, LocalOK, ChannelOK
<1>5. LoopOK'
  BY <1>1, <1>2 DEF IInv, TypeOK, LoopOK
<1>6. ChannelOK'
  BY <1>1, <1>2, <1>4 DEF IInv, TypeOK, ChannelOK
<1>7. OffersInStep'
  <2>1. CASE files # knownFiles
    BY <1>1, <1>2, <2>1 DEF IInv, OffersInStep
  <2>2. CASE files = knownFiles
    BY <1>1, <1>2, <1>3, <2>2 DEF IInv, OffersInStep
  <2> QED
    BY <2>1, <2>2
<1>8. LocalOK' /\ SlotsOK' /\ WireOK' /\ ServerOK'
  BY <1>2 DEF IInv, TypeOK, LocalOK, SlotsOK, WireOK, ServerOK, local, slots, server
<1>9. events' \in 0..MaxEvents
  BY <1>1, CalledKeeps
<1> QED
  BY <1>5, <1>6, <1>7, <1>8, <1>9, Enough DEF TypeOK

\* The text of the clipboard, and the list that the flag or the text calls for.
LEMMA PollTextKeeps ==
  ASSUME IInv, PollText
  PROVE  IInv'
<1>1. PICK cur \in {text, None} :
         /\ Called(cur, text)
         /\ known' = cur
         /\ IF announce \/ cur # known THEN Announce(cur, pending)
            ELSE UNCHANGED <<toServer, told, described>>
  BY DEF PollText
<1>2. /\ at' = "offer" /\ announce' = FALSE
      /\ UNCHANGED <<local, slots, inbox, curtainApplied, ready, knownFiles, pending,
                     toClient, server>>
  BY DEF PollText
<1>3. cur \in Texts \cup {None}
  BY <1>1 DEF IInv, TypeOK, LocalOK
<1>4. /\ toServer' \in Seq(ToServer) /\ described' \in Seq(Files)
      /\ told' \in [text : BOOLEAN, files : BOOLEAN]
      /\ OffersInStep'
  <2>1. CASE announce \/ cur # known
    <3>1. Announce(known', pending') /\ pending' \in Seq(Files)
      BY <1>1, <1>2, <2>1 DEF IInv, TypeOK, ChannelOK
    <3> QED
      BY <1>2, <3>1, AnnounceKeeps DEF IInv
  <2>2. CASE ~(announce \/ cur # known)
    <3>1. UNCHANGED <<toServer, told, described, known, announce>>
      BY <1>1, <1>2, <2>2 DEF IInv, TypeOK, LoopOK
    <3> QED
      BY <1>2, <2>2, <3>1, OffersStay DEF IInv, TypeOK, ChannelOK, WireOK
  <2> QED
    BY <2>1, <2>2
<1>5. LoopOK'
  BY <1>2 DEF IInv, TypeOK, LoopOK
<1>6. ChannelOK'
  BY <1>1, <1>2, <1>3, <1>4 DEF IInv, TypeOK, ChannelOK
<1>7. LocalOK' /\ SlotsOK' /\ WireOK' /\ ServerOK'
  BY <1>2, <1>4 DEF IInv, TypeOK, LocalOK, SlotsOK, WireOK, ServerOK, local, slots, server
<1>8. events' \in 0..MaxEvents
  BY <1>1, CalledKeeps
<1> QED
  BY <1>4, <1>5, <1>6, <1>7, <1>8, Enough DEF TypeOK

\* A file of the operator's choice replaces what was on offer.
LEMMA OfferFileKeeps ==
  ASSUME IInv, OfferFile
  PROVE  IInv'
<1>1. /\ at = "offer" /\ at' = "curtain"
      /\ UNCHANGED <<local, curtainOn, inbox, announce, curtainApplied, ready, known,
                     knownFiles, toClient, server, events>>
  BY DEF OfferFile
<1>2. announce = FALSE
  BY <1>1 DEF IInv, TypeOK, LoopOK, OffersInStep
<1>3. /\ toServer' \in Seq(ToServer) /\ described' \in Seq(Files) /\ pending' \in Seq(Files)
      /\ told' \in [text : BOOLEAN, files : BOOLEAN]
      /\ OffersInStep' /\ offer' \in Files \cup {None}
  <2>1. CASE offer # None /\ offer' = None /\ pending' = <<offer>> /\ Announce(known, pending')
    <3>1. offer \in Files /\ pending' \in Seq(Files)
      BY <2>1 DEF IInv, TypeOK, SlotsOK
    <3>2. Announce(known', pending') /\ announce' = FALSE
      BY <1>1, <1>2, <2>1
    <3> QED
      BY <2>1, <3>1, <3>2, AnnounceKeeps DEF IInv
  <2>2. CASE UNCHANGED <<offer, pending, toServer, told, described>>
    BY <1>1, <1>2, <2>2, OffersStay DEF IInv, TypeOK, ChannelOK, WireOK, SlotsOK
  <2> QED
    BY <2>1, <2>2 DEF OfferFile
<1>4. LoopOK'
  BY <1>1 DEF IInv, TypeOK, LoopOK
<1>5. ChannelOK'
  BY <1>1, <1>3 DEF IInv, TypeOK, ChannelOK
<1>6. LocalOK' /\ SlotsOK' /\ WireOK' /\ ServerOK' /\ events' \in 0..MaxEvents
  BY <1>1, <1>3 DEF IInv, TypeOK, LocalOK, SlotsOK, WireOK, ServerOK, local, server
<1> QED
  BY <1>3, <1>4, <1>5, <1>6, Enough DEF TypeOK

LEMMA CurtainKeeps ==
  ASSUME IInv, Curtain
  PROVE  IInv'
<1>1. /\ at = "curtain" /\ at' = "process"
      /\ UNCHANGED <<local, slots, inbox, announce, channel, toClient, server, events>>
  BY DEF Curtain
<1>2. announce = FALSE
  BY <1>1 DEF IInv, TypeOK, LoopOK, OffersInStep
<1>3. curtainApplied' \in BOOLEAN /\ toServer' \in Seq(ToServer)
  <2>1. CASE /\ curtainApplied' = curtainOn
             /\ toServer' = Append(toServer, [m |-> "curtain", on |-> curtainOn])
    <3>1. PICK e : e = [m |-> "curtain", on |-> curtainOn]
      OBVIOUS
    <3>2. e \in ToServer /\ curtainOn \in BOOLEAN
      BY <3>1, ClientSays DEF IInv, TypeOK, SlotsOK
    <3> QED
      BY <2>1, <3>1, <3>2, QueueGrows DEF IInv, TypeOK, WireOK
  <2>2. CASE UNCHANGED <<curtainApplied, toServer>>
    BY <2>2 DEF IInv, TypeOK, WireOK, LoopOK
  <2> QED
    BY <2>1, <2>2 DEF Curtain
<1>4. LoopOK'
  BY <1>1, <1>3 DEF IInv, TypeOK, LoopOK
<1>5. OffersInStep'
  BY <1>1, <1>2, OffersStay DEF channel
<1>6. /\ LocalOK' /\ SlotsOK' /\ ChannelOK' /\ WireOK' /\ ServerOK'
      /\ events' \in 0..MaxEvents
  BY <1>1, <1>3 DEF IInv, TypeOK, LocalOK, SlotsOK, ChannelOK, WireOK, ServerOK,
     local, slots, channel, server
<1> QED
  BY <1>4, <1>5, <1>6, Enough DEF TypeOK

\* The steps that end a turn of the loop and leave the channel alone.
LEMMA QuietKeeps ==
  ASSUME IInv, NEW k, Process(k), toServer' \in Seq(ToServer), events' \in 0..MaxEvents,
         UNCHANGED <<local, slots, announce, curtainApplied, channel, toClient, server>>
  PROVE  IInv'
<1>1. announce = FALSE
  BY DEF Process, IInv, TypeOK, LoopOK, OffersInStep
<1>2. LoopOK'
  BY ServerSays DEF Process, IInv, TypeOK, LoopOK
<1>3. OffersInStep'
  BY <1>1, OffersStay DEF channel
<1>4. LocalOK' /\ SlotsOK' /\ ChannelOK' /\ WireOK' /\ ServerOK'
  BY DEF IInv, TypeOK, LocalOK, SlotsOK, ChannelOK, WireOK, ServerOK,
     local, slots, channel, server
<1> QED
  BY <1>2, <1>3, <1>4, Enough DEF TypeOK

\* A reply joins the queue.
LEMMA ReplyKeeps ==
  ASSUME IInv, NEW r \in ToServer, Reply(r)
  PROVE  toServer' \in Seq(ToServer)
  BY QueueGrows DEF IInv, TypeOK, WireOK, Reply

LEMMA ProcessQuietKeeps ==
  ASSUME IInv,
         ProcessOther \/ ProcessFormatList \/ ProcessTextRequest \/ ProcessContentsRequest
  PROVE  IInv'
<1>1. toServer \in Seq(ToServer) /\ events \in 0..MaxEvents
  BY DEF IInv, TypeOK, WireOK
<1>2. CASE ProcessOther
  BY <1>1, <1>2, QuietKeeps DEF ProcessOther
<1>3. CASE ProcessFormatList
  <2>1. toServer' \in Seq(ToServer)
    BY <1>1, <1>3, ReplyKeeps, ClientSays DEF ProcessFormatList
  <2> QED
    BY <1>1, <1>3, <2>1, QuietKeeps DEF ProcessFormatList
<1>4. CASE ProcessTextRequest
  <2>1. PICK cur \in {text, None} :
           Called(cur, text) /\ Reply([m |-> "data_response", text |-> cur])
    BY <1>4 DEF ProcessTextRequest
  <2>2. cur \in Texts \cup {None}
    BY <2>1 DEF IInv, TypeOK, LocalOK
  <2>3. [m |-> "data_response", text |-> cur] \in ToServer
    BY <2>2, ClientSays
  <2>4. toServer' \in Seq(ToServer)
    BY <2>1, <2>3, ReplyKeeps
  <2>5. events' \in 0..MaxEvents
    BY <2>1, CalledKeeps
  <2> QED
    BY <1>4, <2>4, <2>5, QuietKeeps DEF ProcessTextRequest
<1>5. CASE ProcessContentsRequest
  <2>1. inbox.index \in Indices
    BY <1>5, MessagesSay DEF ProcessContentsRequest, Process, IInv, TypeOK, LoopOK
  <2>2. PICK f : f = IF inbox.index \in DOMAIN pending /\ pending[inbox.index] \in disk
                     THEN pending[inbox.index] ELSE None
    OBVIOUS
  <2>3. f \in Files \cup {None}
    BY <2>2 DEF IInv, TypeOK, LocalOK
  <2>4. PICK i : i = inbox.index
    OBVIOUS
  <2>5. [m |-> "contents", index |-> i, file |-> f] \in ToServer
    BY <2>1, <2>3, <2>4, ClientSays
  <2>6. Reply([m |-> "contents", index |-> i, file |-> f])
    BY <1>5, <2>2, <2>4 DEF ProcessContentsRequest, ContentsOf
  <2>7. toServer' \in Seq(ToServer)
    BY <2>5, <2>6, ReplyKeeps
  <2> QED
    BY <1>1, <1>5, <2>7, QuietKeeps DEF ProcessContentsRequest
<1> QED
  BY <1>2, <1>3, <1>4, <1>5

\* MonitorReady: both halves of the clipboard are read and announced.
LEMMA ProcessMonitorReadyKeeps ==
  ASSUME IInv, ProcessMonitorReady
  PROVE  IInv'
<1>1. PICK cur \in {text, None}, files \in {hdrop, <<>>} :
         /\ Called(<<cur, files>>, <<text, hdrop>>)
         /\ known' = cur
         /\ pending' = IF files # <<>> THEN files ELSE pending
         /\ knownFiles' = files
         /\ Announce(cur, pending')
  BY DEF ProcessMonitorReady
<1>2. /\ at = "process" /\ at' = "idle" /\ inbox' = Other /\ ready' = TRUE
      /\ UNCHANGED <<local, slots, announce, curtainApplied, toClient, server>>
  BY DEF ProcessMonitorReady, Process
<1>3. announce' = FALSE
  BY <1>2 DEF IInv, TypeOK, LoopOK, OffersInStep
<1>4. cur \in Texts \cup {None} /\ files \in Seq(Files) /\ pending' \in Seq(Files)
  BY <1>1, EmptySeq DEF IInv, TypeOK, LocalOK, ChannelOK
<1>5. Announce(known', pending')
  BY <1>1
<1>6. /\ toServer' \in Seq(ToServer) /\ described' \in Seq(Files)
      /\ told' \in [text : BOOLEAN, files : BOOLEAN] /\ OffersInStep'
  BY <1>3, <1>4, <1>5, AnnounceKeeps DEF IInv
<1>7. ChannelOK'
  BY <1>1, <1>2, <1>4, <1>6 DEF ChannelOK
<1>8. LoopOK'
  BY <1>2, ServerSays DEF IInv, TypeOK, LoopOK
<1>9. LocalOK' /\ SlotsOK' /\ WireOK' /\ ServerOK'
  BY <1>2, <1>6 DEF IInv, TypeOK, LocalOK, SlotsOK, WireOK, ServerOK, local, slots, server
<1>10. events' \in 0..MaxEvents
  BY <1>1, CalledKeeps
<1> QED
  BY <1>6, <1>7, <1>8, <1>9, <1>10, Enough DEF TypeOK

\* The descriptor is of the files on offer.
LEMMA ProcessFilesRequestKeeps ==
  ASSUME IInv, ProcessFilesRequest
  PROVE  IInv'
<1>1. PICK fs : fs = AllNamesSizes
  OBVIOUS
<1>2. pending \in Seq(Files)
  BY DEF IInv, TypeOK, ChannelOK
<1>3. fs \in Seq(Files) /\ (Len(fs) = Len(pending) => fs = pending)
  BY <1>1, <1>2, Readable
<1>4. /\ at = "process" /\ at' = "idle" /\ inbox' = Other
      /\ Reply([m |-> "descriptor", files |-> fs]) /\ described' = fs
      /\ UNCHANGED <<local, slots, announce, curtainApplied, ready, known, knownFiles,
                     pending, told, toClient, server, events>>
  BY <1>1 DEF ProcessFilesRequest, Process
<1>5. announce = FALSE
  BY <1>4 DEF IInv, TypeOK, LoopOK, OffersInStep
<1>6. [m |-> "descriptor", files |-> fs] \in ToServer
  BY <1>3, ClientSays
<1>7. toServer' \in Seq(ToServer)
  BY <1>4, <1>6, ReplyKeeps
<1>8. OffersInStep'
  BY <1>3, <1>4, <1>5 DEF IInv, OffersInStep
<1>9. ChannelOK' /\ LoopOK'
  BY <1>3, <1>4, ServerSays DEF IInv, TypeOK, ChannelOK, LoopOK
<1>10. LocalOK' /\ SlotsOK' /\ WireOK' /\ ServerOK' /\ events' \in 0..MaxEvents
  BY <1>4, <1>7 DEF IInv, TypeOK, LocalOK, SlotsOK, WireOK, ServerOK, local, slots, server
<1> QED
  BY <1>8, <1>9, <1>10, Enough DEF TypeOK

\* Text from the remote is known when it is on the clipboard.
LEMMA ProcessDataResponseKeeps ==
  ASSUME IInv, ProcessDataResponse
  PROVE  IInv'
<1>1. /\ at = "process" /\ at' = "idle" /\ inbox' = Other
      /\ inbox.text \in RemoteTexts \cup {None}
      /\ UNCHANGED <<slots, announce, curtainApplied, ready, knownFiles, pending, told,
                     described, toServer, toClient, server>>
  BY MessagesSay DEF ProcessDataResponse, Process, IInv, TypeOK, LoopOK
<1>2. announce = FALSE
  BY <1>1 DEF IInv, TypeOK, LoopOK, OffersInStep
<1>3. PICK t : t = inbox.text
  OBVIOUS
<1>4. /\ LocalOK' /\ known' \in Texts \cup {None}
      /\ known' = known \/ known' # None
  <2>1. LocalOK /\ known \in Texts \cup {None} /\ t \in RemoteTexts \cup {None}
    BY <1>1, <1>3 DEF IInv, TypeOK, ChannelOK
  <2>2. CASE UNCHANGED <<local, known, events>>
    BY <2>1, <2>2, CountKeeps DEF LocalOK, local
  <2>3. CASE /\ t # None
             /\ text' = t /\ hdrop' = <<>> /\ known' = t
             /\ UNCHANGED <<disk, late, events>>
    BY <2>1, <2>3, CountKeeps, EmptySeq DEF LocalOK, Texts
  <2>4. CASE /\ t # None
             /\ Event
             /\ late' \in {None, t}
             /\ UNCHANGED <<text, hdrop, disk, known>>
    BY <2>1, <2>4, CountKeeps DEF LocalOK
  <2> QED
    BY <1>3, <2>2, <2>3, <2>4 DEF ProcessDataResponse
<1>5. OffersInStep'
  BY <1>1, <1>2, <1>4 DEF IInv, OffersInStep
<1>6. events' \in 0..MaxEvents
  BY CountKeeps DEF ProcessDataResponse
<1>7. ChannelOK' /\ LoopOK'
  BY <1>1, <1>4, ServerSays DEF IInv, TypeOK, ChannelOK, LoopOK
<1>8. SlotsOK' /\ WireOK' /\ ServerOK'
  BY <1>1 DEF IInv, TypeOK, SlotsOK, WireOK, ServerOK, slots, server
<1> QED
  BY <1>4, <1>5, <1>6, <1>7, <1>8, Enough DEF TypeOK

\* A new channel has told the server nothing and has nothing on offer.
LEMMA FreshChannelKeeps ==
  ASSUME FreshChannel, announce' = FALSE
  PROVE  ChannelOK' /\ OffersInStep'
<1>1. ChannelOK'
  BY EmptySeq DEF FreshChannel, ChannelOK, NoList
<1>2. OffersInStep'
  BY DEF FreshChannel, OffersInStep, NoList
<1> QED
  BY <1>1, <1>2

LEMMA ForgettingKeeps ==
  ASSUME IInv, ProcessDeactivate \/ Reconnect
  PROVE  IInv'
<1>1. CASE ProcessDeactivate
  <2>1. announce = FALSE
    BY <1>1 DEF ProcessDeactivate, Process, IInv, TypeOK, LoopOK, OffersInStep
  <2>2. ChannelOK' /\ OffersInStep'
    BY <1>1, <2>1, FreshChannelKeeps DEF ProcessDeactivate
  <2>3. LoopOK'
    BY <1>1, ServerSays DEF ProcessDeactivate, Process, IInv, TypeOK, LoopOK
  <2>4. LocalOK' /\ SlotsOK' /\ WireOK' /\ ServerOK' /\ events' \in 0..MaxEvents
    BY <1>1 DEF ProcessDeactivate, IInv, TypeOK, LocalOK, SlotsOK, WireOK, ServerOK,
       local, slots, server
  <2> QED
    BY <2>2, <2>3, <2>4, Enough DEF TypeOK
<1>2. CASE Reconnect
  <2>1. ChannelOK' /\ OffersInStep'
    BY <1>2, FreshChannelKeeps DEF Reconnect
  <2>2. LoopOK'
    BY <1>2, ServerSays DEF Reconnect, LoopOK
  <2>3. WireOK' /\ ServerOK'
    BY <1>2, EmptySeq DEF Reconnect, WireOK, ServerOK, NoList
  <2>4. LocalOK' /\ SlotsOK'
    BY <1>2 DEF Reconnect, IInv, TypeOK, LocalOK, SlotsOK, local, slots
  <2>5. events' \in 0..MaxEvents
    BY <1>2, CountKeeps DEF Reconnect
  <2> QED
    BY <2>1, <2>2, <2>3, <2>4, <2>5, Enough DEF TypeOK
<1> QED
  BY <1>1, <1>2

\* The server's steps.
LEMMA SendKeeps ==
  ASSUME IInv, NEW e \in ToClient, Send(e)
  PROVE  toClient' \in Seq(ToClient)
  BY QueueGrows DEF IInv, TypeOK, WireOK, Send

LEMMA ServerKeeps ==
  ASSUME IInv, Server
  PROVE  IInv'
<1>1. UNCHANGED <<local, slots, loop, channel>>
  BY DEF Server, ServerReady, ServerOther, ServerDeactivate, ServerHandle, RemoteCopy,
     RemotePaste, RemoteFetch
<1>2. LocalOK' /\ SlotsOK' /\ LoopOK' /\ ChannelOK'
  BY <1>1 DEF IInv, TypeOK, LocalOK, SlotsOK, LoopOK, ChannelOK, local, slots, loop, channel
<1>3. OffersInStep'
  BY <1>1, OffersStay DEF loop, channel, IInv, OffersInStep
<1>4. events' \in 0..MaxEvents
  BY CountKeeps DEF Server, ServerReady, ServerOther, ServerDeactivate, ServerHandle,
     RemoteCopy, RemotePaste, RemoteFetch
<1>5. WireOK /\ ServerOK
  BY DEF IInv, TypeOK
<1>6. WireOK' /\ ServerOK'
  <2>1. CASE ServerReady
    BY <1>5, <2>1, SendKeeps, ServerSays DEF ServerReady, WireOK, ServerOK
  <2>2. CASE ServerOther
    BY <1>5, <2>2, SendKeeps, ServerSays DEF ServerOther, WireOK, ServerOK, server
  <2>3. CASE ServerDeactivate
    BY <1>5, <2>3, SendKeeps, ServerSays DEF ServerDeactivate, WireOK, ServerOK
  <2>4. CASE RemoteCopy
    BY <1>5, <2>4, SendKeeps, ServerSays DEF RemoteCopy, WireOK, ServerOK, server
  <2>5. CASE RemotePaste
    BY <1>5, <2>5, SendKeeps, ServerSays DEF RemotePaste, WireOK, ServerOK, server
  <2>6. CASE RemoteFetch
    BY <1>5, <2>6, SendKeeps, ServerSays DEF RemoteFetch, WireOK, ServerOK, server
  <2>7. CASE ServerHandle
    <3>1. PICK e : e = Head(toServer)
      OBVIOUS
    <3>2. e \in ToServer /\ toServer' \in Seq(ToServer) /\ readySent' = readySent
      BY <1>5, <2>7, <3>1, QueueShrinks DEF ServerHandle, WireOK
    <3>3. CASE ServerList
      <4>1. e.text \in BOOLEAN /\ e.files \in BOOLEAN
        BY <3>1, <3>2, <3>3, MessagesSay DEF ServerList
      <4>2. view' = [text |-> e.text, files |-> e.files] \/ view' = view
        BY <3>1, <3>3 DEF ServerList
      <4>3. view' \in [text : BOOLEAN, files : BOOLEAN]
        BY <1>5, <4>1, <4>2 DEF ServerOK
      <4> QED
        BY <1>5, <3>2, <3>3, <4>3 DEF ServerList, WireOK, ServerOK
    <3>4. CASE ServerData
      BY <1>5, <3>2, <3>4, SendKeeps, ServerSays DEF ServerData, WireOK, ServerOK
    <3>5. CASE ServerRest
      <4>1. curtained' \in BOOLEAN
        BY <1>5, <3>1, <3>2, <3>5, MessagesSay DEF ServerRest, ServerOK
      <4> QED
        BY <1>5, <3>2, <3>5, <4>1 DEF ServerRest, WireOK, ServerOK
    <3> QED
      BY <2>7, <3>3, <3>4, <3>5 DEF ServerHandle
  <2> QED
    BY <2>1, <2>2, <2>3, <2>4, <2>5, <2>6, <2>7 DEF Server
<1> QED
  BY <1>2, <1>3, <1>4, <1>6, Enough DEF TypeOK

LEMMA InitHolds ==
  ASSUME Init
  PROVE  IInv
<1>1. LocalOK /\ SlotsOK
  BY ClipboardAssumption, EmptySeq DEF Init, LocalOK, SlotsOK, Texts
<1>2. LoopOK /\ ChannelOK /\ WireOK /\ ServerOK
  BY ServerSays, EmptySeq DEF Init, LoopOK, ChannelOK, WireOK, ServerOK, NoList
<1>3. events \in 0..MaxEvents
  BY ClipboardBounds DEF Init
<1>4. OffersInStep /\ ToldIsHeld
  BY DEF Init, OffersInStep, ToldIsHeld, NoList
<1> QED
  BY <1>1, <1>2, <1>3, <1>4 DEF IInv, TypeOK

LEMMA NextKeeps ==
  ASSUME IInv, [Next]_vars
  PROVE  IInv'
<1>1. CASE Environment
  BY <1>1, EnvironmentKeeps
<1>2. CASE Loop
  BY <1>2, ArriveKeeps, PollFilesKeeps, PollTextKeeps, OfferFileKeeps, CurtainKeeps,
     ProcessQuietKeeps, ProcessMonitorReadyKeeps, ProcessFilesRequestKeeps,
     ProcessDataResponseKeeps, ForgettingKeeps DEF Loop
<1>3. CASE Reconnect
  BY <1>3, ForgettingKeeps
<1>4. CASE Server
  BY <1>4, ServerKeeps
<1>5. CASE UNCHANGED vars
  <2>1. UNCHANGED <<local, slots, loop, channel, toServer, toClient, server, events>>
    BY <1>5 DEF vars
  <2>2. TypeOK'
    BY <2>1 DEF IInv, TypeOK, LocalOK, SlotsOK, LoopOK, ChannelOK, WireOK, ServerOK,
       local, slots, loop, channel, server
  <2>3. OffersInStep'
    BY <2>1, OffersStay DEF loop, channel, IInv, OffersInStep
  <2> QED
    BY <2>2, <2>3, Enough
<1> QED
  BY <1>1, <1>2, <1>3, <1>4, <1>5 DEF Next

\* Whatever is copied, sent, timed out, written late or removed, through every
\* reactivation and reconnect, what the channel has told the server is what it
\* holds (CliprdrChannel, run_active_session).
THEOREM Invariance == Spec => []IInv
<1> QED
  BY InitHolds, NextKeeps, PTL DEF Spec

\* Files are on offer exactly when the last Format List of this channel said so,
\* and announced text is still known (CliprdrChannel::local_changed, offer_file).
THEOREM TellsWhatItHolds == Spec => []ToldIsHeld
<1>1. IInv => ToldIsHeld
  BY DEF IInv
<1> QED
  BY Invariance, <1>1, PTL

\* A contents request under a whole descriptor gets the file described at its
\* index, for any number of files (file_name_size and read_range of
\* pending_files).
THEOREM ServesWhatWasDescribed == Spec => ServedIsDescribed
<1>1. ASSUME IInv, Next, NEW i \in DOMAIN described, Answers(i), Len(described) = Len(pending)
      PROVE  toServer' = Append(toServer, ContentsOf(described, i))
  <2>1. /\ at = "process" /\ at' = "idle" /\ events' = events
        /\ inbox = [m |-> "contents_request", index |-> i]
    BY <1>1 DEF Answers
  <2>2. inbox.m = "contents_request" /\ inbox.index = i
    BY <2>1
  <2>3. announce = FALSE /\ events \in Nat
    BY <1>1, <2>1, ClipboardBounds DEF IInv, TypeOK, LoopOK, OffersInStep
  <2>4. described = pending
    BY <1>1, <2>3 DEF IInv, OffersInStep
  <2>5. ProcessContentsRequest
    <3>1. ~Event
      BY <2>1, <2>3 DEF Event
    <3>2. CASE Environment
      BY <2>1, <3>2 DEF Environment, CopyText, CopyFiles, RemoveFile, LateWrite, SendFile,
         ToggleCurtain, loop
    <3>3. CASE Loop
      BY <2>1, <2>2, <3>3 DEF Loop, Arrive, PollFiles, PollText, OfferFile, Curtain,
         ProcessOther, ProcessMonitorReady, ProcessFormatList, ProcessTextRequest,
         ProcessFilesRequest, ProcessDataResponse, ProcessDeactivate, Process
    <3>4. CASE Reconnect
      BY <3>1, <3>4 DEF Reconnect
    <3>5. CASE Server
      BY <2>1, <3>5 DEF Server, ServerReady, ServerOther, ServerDeactivate, ServerHandle,
         RemoteCopy, RemotePaste, RemoteFetch, loop
    <3> QED
      BY <1>1, <3>2, <3>3, <3>4, <3>5 DEF Next
  <2> QED
    BY <2>2, <2>4, <2>5 DEF ProcessContentsRequest, Reply
<1>2. ASSUME IInv, [Next]_vars
      PROVE  [\A i \in DOMAIN described :
                Answers(i) /\ Len(described) = Len(pending)
                    => toServer' = Append(toServer, ContentsOf(described, i))]_vars
  BY <1>1, <1>2
<1> QED
  BY Invariance, <1>2, PTL DEF Spec, ServedIsDescribed
=============================================================================
