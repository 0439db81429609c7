------------------------- MODULE SealedTransportProofs -------------------------
(***************************************************************************)
(* Proofs about SealedTransport: for every stream of PDUs, every way the    *)
(* server cuts it into sealed frames, every segmentation of the reads and   *)
(* every pattern of cancellation.                                           *)
(***************************************************************************)
EXTENDS SealedTransport, SequenceTheorems, TLAPS

USE SizesAssumption, StreamAssumption

\* What a chain of frames adds up to is a number.
LEMMA SumsAreNat ==
  ASSUME NEW fs \in Seq(Frame), NEW i \in 0..Len(fs)
  PROVE  EndOf(fs, i) \in Nat /\ UptoOf(fs, i) \in Nat /\ SeqAfter(fs, i) \in Nat
<1>1. CASE i = 0
  BY <1>1 DEF EndOf, UptoOf, SeqAfter
<1>2. CASE i # 0
  <2>1. fs[i] \in Frame
    BY <1>2
  <2>2. fs[i].end \in Nat /\ fs[i].upto \in Nat /\ fs[i].seq \in Nat
    BY <2>1 DEF Frame
  <2> QED
    BY <1>2, <2>2 DEF EndOf, UptoOf, SeqAfter
<1> QED
  BY <1>1, <1>2

\* Appending a frame leaves every earlier sum alone.
LEMMA SumsOfAppend ==
  ASSUME NEW fs \in Seq(Frame), NEW f \in Frame, NEW i \in 0..Len(fs)
  PROVE  /\ EndOf(Append(fs, f), i) = EndOf(fs, i)
         /\ UptoOf(Append(fs, f), i) = UptoOf(fs, i)
         /\ SeqAfter(Append(fs, f), i) = SeqAfter(fs, i)
<1>1. i # 0 => Append(fs, f)[i] = fs[i]
  OBVIOUS
<1> QED
  BY <1>1 DEF EndOf, UptoOf, SeqAfter

\* The empty stream and buffers satisfy the invariant.
LEMMA InitEstablishes == Init => IInv
<1> SUFFICES ASSUME Init PROVE IInv
  OBVIOUS
<1> USE DEF Init, EndOf, UptoOf, SeqAfter
<1>1. TypeOK
  <2>1. frames \in Seq(Frame)
    OBVIOUS
  <2>2. handled \in Seq(Handling)
    OBVIOUS
  <2> QED
    BY <2>1, <2>2 DEF TypeOK, Phases, Outcomes
<1>2. FrameChain /\ FramingInSync /\ SealInSync
  BY DEF FrameChain, FramingInSync, SealInSync
<1>3. PduBufferInSync /\ PdusInOrder
  BY DEF PduBufferInSync, PdusInOrder
<1>4. PollingIsDrained /\ NothingLeftAtEnd
  BY DEF PollingIsDrained, NothingLeftAtEnd
<1> QED
  BY <1>1, <1>2, <1>3, <1>4 DEF IInv

\* The header at the front of rxbuf is that of the frame after the last taken.
LEMMA FrontIsNext ==
  ASSUME IInv, NEW i \in DOMAIN frames, AtFront(i)
  PROVE  i = taken + 1
<1> USE DEF IInv, TypeOK, FrameChain, FramingInSync, AtFront
<1>1. i \in 1..Len(frames) /\ taken \in 0..Len(frames) /\ i - 1 \in 0..Len(frames)
  OBVIOUS
<1>2. EndOf(frames, i - 1) = EndOf(frames, taken)
  BY <1>1
<1>3. ~(i - 1 < taken) /\ ~(taken < i - 1)
  <2>1. /\ i - 1 < taken => EndOf(frames, i - 1) < EndOf(frames, taken)
        /\ taken < i - 1 => EndOf(frames, taken) < EndOf(frames, i - 1)
    BY <1>1
  <2>2. EndOf(frames, taken) \in Nat
    BY <1>1, SumsAreNat
  <2> QED
    BY <1>2, <2>1, <2>2
<1> QED
  BY <1>1, <1>3, SMTT(60)

\* The PDU at the front of the buffer is the one after the last handled.
LEMMA ReadyIsNext ==
  ASSUME IInv, NEW p \in 1..NPdus, PduReady(p)
  PROVE  p = Len(handled) + 1
<1> USE DEF IInv, TypeOK, PduBufferInSync, PduReady
<1>1. Len(handled) \in 0..NPdus /\ p - 1 \in 0..NPdus
  OBVIOUS
<1>2. PduEnd[p - 1] = PduEnd[Len(handled)]
  OBVIOUS
<1>3. ~(p - 1 < Len(handled)) /\ ~(Len(handled) < p - 1)
  BY <1>1, <1>2
<1> QED
  BY <1>1, <1>3

\* Writing one more frame keeps the chain and concerns nothing already read.
LEMMA ServerSendPreserves ==
  ASSUME IInv, NEW kind \in Kinds, NEW n \in 1..MaxChunk, ServerSend(kind, n)
  PROVE  IInv'
<1> USE DEF IInv
<1>a. PICK L \in Nat : L = Len(frames)
  BY DEF TypeOK
<1>b. PICK f \in Frame :
        /\ frames' = Append(frames, f)
        /\ f.kind = kind /\ f.start = EndOf(frames, L) /\ f.seq = SeqAfter(frames, L)
        /\ f.end = EndOf(frames, L) + HeaderLen + n
        /\ f.upto = UptoOf(frames, L) + (IF kind = "rdp" THEN n ELSE 0)
        /\ total' = f.end
  <2>1. /\ EndOf(frames, L) \in Nat /\ SeqAfter(frames, L) \in Nat
        /\ UptoOf(frames, L) \in Nat /\ n \in Nat /\ HeaderLen \in Nat
    BY <1>a, SumsAreNat DEF TypeOK
  <2> DEFINE g == [kind |-> kind, start |-> EndOf(frames, L),
                   end |-> EndOf(frames, L) + HeaderLen + n,
                   seq |-> SeqAfter(frames, L),
                   upto |-> UptoOf(frames, L) + (IF kind = "rdp" THEN n ELSE 0)]
  <2>2. g \in Frame
    BY <2>1 DEF Frame
  <2>3. frames' = Append(frames, g) /\ total' = EndOf(frames, L) + HeaderLen + n
    BY <1>a DEF ServerSend
  <2>4. /\ g.kind = kind /\ g.start = EndOf(frames, L) /\ g.seq = SeqAfter(frames, L)
        /\ g.end = EndOf(frames, L) + HeaderLen + n
        /\ g.upto = UptoOf(frames, L) + (IF kind = "rdp" THEN n ELSE 0)
    OBVIOUS
  <2> HIDE DEF g
  <2> QED
    BY <2>2, <2>3, <2>4
<1>1. /\ frames \in Seq(Frame) /\ HeaderLen \in Nat \ {0} /\ n \in Nat
      /\ EndOf(frames, L) \in Nat /\ SeqAfter(frames, L) \in Nat
      /\ UptoOf(frames, L) \in Nat
  BY <1>a, SumsAreNat DEF TypeOK
<1>2. /\ Len(frames') = L + 1 /\ frames' \in Seq(Frame)
      /\ \A i \in 1..L : frames'[i] = frames[i]
      /\ frames'[L + 1] = f
  BY <1>a, <1>b, <1>1
<1>3. \A i \in 0..L :
         /\ EndOf(frames', i) = EndOf(frames, i)
         /\ SeqAfter(frames', i) = SeqAfter(frames, i)
         /\ UptoOf(frames', i) = UptoOf(frames, i)
  BY <1>a, <1>b, <1>1, SumsOfAppend
<1>4. EndOf(frames', L + 1) = EndOf(frames, L) + HeaderLen + n
  BY <1>1, <1>2, <1>b DEF EndOf
<1>5. UNCHANGED <<fin, rxStart, rxEnd, taken, openSeq, bufEnd, bufStart, handled,
                  phase, polling, outcome>>
  BY DEF ServerSend, pdus
<1>6. TypeOK'
  <2>1. total' \in Nat
    BY <1>1, <1>b
  <2> QED
    BY <1>2, <1>5, <2>1 DEF TypeOK
<1>7. FrameChain'
  <2>1. ASSUME NEW i \in 1..(L + 1)
        PROVE  /\ frames'[i].start = EndOf(frames', i - 1)
               /\ frames'[i].seq = SeqAfter(frames', i - 1)
               /\ frames'[i].end >= frames'[i].start + HeaderLen
               /\ UptoOf(frames', i - 1) <= frames'[i].upto
               /\ frames'[i].kind # "rdp" => frames'[i].upto = UptoOf(frames', i - 1)
    <3>1. CASE i \in 1..L
      <4>1. frames'[i] = frames[i] /\ i - 1 \in 0..L
        BY <1>2, <3>1
      <4> QED
        BY <1>a, <1>3, <3>1, <4>1 DEF FrameChain
    <3>2. CASE i = L + 1
      <4>a. i - 1 = L /\ L \in 0..L
        BY <3>2
      <4>1. frames'[i] = f /\ i - 1 = L /\ L \in 0..L
        BY <1>2, <3>2, <4>a
      <4>2. /\ EndOf(frames', i - 1) = f.start /\ SeqAfter(frames', i - 1) = f.seq
            /\ UptoOf(frames', i - 1) = UptoOf(frames, L)
        BY <1>b, <1>3, <4>1
      <4>3. f.end >= f.start + HeaderLen
        BY <1>b, <1>1
      <4>4. /\ UptoOf(frames, L) <= f.upto
            /\ f.kind # "rdp" => f.upto = UptoOf(frames, L)
        BY <1>b, <1>1
      <4> QED
        BY <4>1, <4>2, <4>3, <4>4
    <3> QED
      BY <3>1, <3>2
  <2>2. ASSUME NEW i \in 0..(L + 1), NEW j \in 0..(L + 1), i < j
        PROVE  EndOf(frames', i) < EndOf(frames', j)
    <3>1. i \in 0..L
      BY <2>2
    <3>2. CASE j \in 0..L
      BY <1>a, <1>3, <2>2, <3>1, <3>2 DEF FrameChain
    <3>3. CASE j = L + 1
      <4>1. EndOf(frames, i) \in Nat
        BY <1>a, <1>1, <3>1, SumsAreNat
      <4>2. EndOf(frames, i) <= EndOf(frames, L)
        <5>1. CASE i = L
          BY <5>1, <1>1
        <5>2. CASE i < L
          BY <1>a, <1>1, <3>1, <4>1, <5>2 DEF FrameChain
        <5> QED
          BY <3>1, <5>1, <5>2
      <4> QED
        BY <1>1, <1>3, <1>4, <3>1, <3>3, <4>1, <4>2, SMTT(60)
    <3> QED
      BY <3>2, <3>3
  <2>3. total' <= EndOf(frames', L + 1)
    BY <1>b, <1>1, <1>4
  <2>4. ASSUME NEW i \in 0..(L + 1), NEW j \in 0..(L + 1), i < j
        PROVE  UptoOf(frames', i) <= UptoOf(frames', j)
    <3>1. i \in 0..L
      BY <2>4
    <3>2. CASE j \in 0..L
      BY <1>a, <1>3, <2>4, <3>1, <3>2 DEF FrameChain
    <3>3. CASE j = L + 1
      <4>1. UptoOf(frames, i) \in Nat
        BY <1>a, <1>1, <3>1, SumsAreNat
      <4>2. UptoOf(frames, i) <= UptoOf(frames, L)
        <5>1. CASE i = L
          BY <5>1, <1>1
        <5>2. CASE i < L
          BY <1>a, <1>1, <3>1, <4>1, <5>2 DEF FrameChain
        <5> QED
          BY <3>1, <5>1, <5>2
      <4>3. UptoOf(frames', j) = f.upto
        BY <1>2, <3>3 DEF UptoOf
      <4>4. UptoOf(frames, L) <= f.upto /\ f.upto \in Nat
        BY <1>b, <1>1, SMTT(60)
      <4> QED
        BY <1>1, <1>3, <3>1, <4>1, <4>2, <4>3, <4>4
    <3> QED
      BY <3>2, <3>3
  <2> QED
    BY <1>2, <2>1, <2>2, <2>3, <2>4 DEF FrameChain
<1>8. taken \in 0..L /\ taken' = taken
  BY <1>a, <1>5 DEF FramingInSync
<1>9. FramingInSync'
  <2>1. total <= total'
    BY <1>a, <1>b, <1>1 DEF FrameChain, TypeOK
  <2>2. taken' \in 0..Len(frames') /\ rxStart' = EndOf(frames', taken')
    BY <1>2, <1>3, <1>5, <1>8 DEF FramingInSync
  <2>3. rxStart' <= rxEnd' /\ rxEnd' <= total'
    <3>1. total \in Nat /\ rxEnd \in Nat /\ total' \in Nat
      BY <1>6 DEF TypeOK
    <3> QED
      BY <1>5, <2>1, <3>1 DEF FramingInSync
  <2> QED
    BY <2>2, <2>3 DEF FramingInSync
<1>10. SealInSync' /\ PduBufferInSync' /\ PdusInOrder'
  BY <1>3, <1>5, <1>8 DEF SealInSync, PduBufferInSync, PdusInOrder
<1>11. PollingIsDrained'
  BY <1>5 DEF PollingIsDrained, PduReady
<1>12. NothingLeftAtEnd'
  <2>1. outcome' \notin {"closed", "mid_frame"}
    BY <1>5 DEF PollingIsDrained, ServerSend
  <2> QED
    BY <1>5, <2>1 DEF NothingLeftAtEnd
<1> QED
  BY <1>6, <1>7, <1>9, <1>10, <1>11, <1>12

\* A close cuts at most the tail of the last frame.
LEMMA ServerClosePreserves ==
  ASSUME IInv, ServerClose
  PROVE  IInv'
<1> USE DEF IInv
<1>1. UNCHANGED <<frames, rxStart, rxEnd, taken, openSeq, bufEnd, bufStart,
                  handled, phase, polling, outcome>>
  BY DEF ServerClose, pdus
<1>2. total' \in Nat /\ rxEnd <= total' /\ total' <= total /\ fin' = TRUE
  BY DEF ServerClose, TypeOK
<1>3. TypeOK'
  BY <1>1, <1>2 DEF TypeOK
<1>4. FrameChain'
  <2>1. EndOf(frames, Len(frames)) \in Nat
    BY SumsAreNat DEF TypeOK
  <2>2. total' <= EndOf(frames, Len(frames))
    BY <1>2, <2>1 DEF FrameChain, TypeOK
  <2> QED
    BY <1>1, <2>2 DEF FrameChain
<1>5. FramingInSync' /\ SealInSync' /\ PduBufferInSync' /\ PdusInOrder'
  BY <1>1, <1>2 DEF FramingInSync, SealInSync, PduBufferInSync, PdusInOrder
<1>6. PollingIsDrained'
  BY <1>1, <1>2 DEF PollingIsDrained, PduReady
<1>7. NothingLeftAtEnd'
  <2>1. outcome' \notin {"closed", "mid_frame"}
    BY <1>1 DEF PollingIsDrained, ServerClose
  <2> QED
    BY <1>1, <2>1 DEF NothingLeftAtEnd
<1> QED
  BY <1>3, <1>4, <1>5, <1>6, <1>7

\* With no whole PDU at the front of the buffer, every PDU whose bytes have
\* been received has been handled.
LEMMA NoneReadyMeansDrained ==
  ASSUME IInv, \A p \in 1..NPdus : ~PduReady(p)
  PROVE  \A p \in 1..NPdus : PduEnd[p] <= bufEnd => p <= Len(handled)
<1> SUFFICES ASSUME NEW p \in 1..NPdus, PduEnd[p] <= bufEnd, p > Len(handled)
             PROVE  FALSE
  BY DEF IInv, TypeOK
<1>1. PICK h \in Nat : h = Len(handled)
  BY DEF IInv, TypeOK
<1>2. h + 1 \in 1..NPdus /\ h + 1 <= p /\ h = (h + 1) - 1
  BY <1>1
<1>3. PduEnd[h + 1] <= bufEnd
  <2>0. h + 1 \in 0..NPdus /\ p \in 0..NPdus
    BY <1>2
  <2>1. PduEnd[h + 1] \in Nat /\ PduEnd[p] \in Nat /\ bufEnd \in Nat
    BY <2>0 DEF IInv, TypeOK
  <2>2. CASE h + 1 = p
    BY <2>2
  <2>3. CASE h + 1 < p
    BY <1>2, <2>1, <2>3
  <2> QED
    BY <1>2, <2>2, <2>3
<1>4. PduReady(h + 1)
  BY <1>1, <1>2, <1>3 DEF PduReady, IInv, PduBufferInSync
<1> QED
  BY <1>2, <1>4

\* Starting and dropping a recv_rdp future, and reading bytes, move nothing
\* but polling and the end of rxbuf.
LEMMA PollPreserves ==
  ASSUME IInv, Poll \/ Read \/ Cancel
  PROVE  IInv'
<1> USE DEF IInv
<1>1. UNCHANGED <<frames, total, fin, rxStart, taken, openSeq, bufEnd, bufStart,
                  handled, phase, outcome>>
  BY DEF Poll, Read, Cancel, server, pdus
<1>2. polling' \in BOOLEAN /\ outcome = "run"
      /\ (polling' => \A p \in 1..NPdus : ~PduReady(p))
  BY DEF Poll, Read, Cancel, Awaiting, PollingIsDrained, TypeOK
<1>3. rxEnd' \in Nat /\ rxEnd <= rxEnd' /\ rxEnd' <= total
  BY DEF Poll, Read, Cancel, TypeOK, FramingInSync
<1>4. TypeOK' /\ FrameChain'
  BY <1>1, <1>2, <1>3 DEF TypeOK, FrameChain
<1>5. FramingInSync'
  BY <1>1, <1>3 DEF FramingInSync, TypeOK
<1>6. SealInSync' /\ PduBufferInSync' /\ PdusInOrder'
  BY <1>1 DEF SealInSync, PduBufferInSync, PdusInOrder
<1>7. PollingIsDrained' /\ NothingLeftAtEnd'
  BY <1>1, <1>2 DEF PollingIsDrained, PduReady, NothingLeftAtEnd
<1> QED
  BY <1>4, <1>5, <1>6, <1>7

\* Where the receive path ends, it leaves no whole frame and no whole PDU.
LEMMA EndPreserves ==
  ASSUME IInv, ReadEof \/ ReadError \/ RejectFrame \/ UiClosed
  PROVE  IInv'
<1> USE DEF IInv
<1>1. UNCHANGED <<frames, total, fin, rxStart, rxEnd, taken, openSeq, bufEnd,
                  bufStart, handled, phase>>
  BY DEF ReadEof, ReadError, RejectFrame, UiClosed, server, pdus
<1>2. polling /\ polling' = FALSE
  BY DEF ReadEof, ReadError, RejectFrame, UiClosed, Awaiting
<1>3. /\ outcome' \in {"closed", "mid_frame", "too_large", "io_error", "ui_closed"}
      /\ outcome' \in {"closed", "mid_frame"} => fin /\ ~FrameReady /\ rxEnd = total
  BY DEF ReadEof, ReadError, RejectFrame, UiClosed, Awaiting
<1>4. TypeOK' /\ FrameChain'
  <2>1. outcome' \in Outcomes /\ polling' \in BOOLEAN
    BY <1>2, <1>3 DEF Outcomes
  <2> QED
    BY <1>1, <2>1 DEF TypeOK, FrameChain
<1>5. FramingInSync' /\ SealInSync' /\ PduBufferInSync' /\ PdusInOrder'
  BY <1>1, <1>3 DEF FramingInSync, SealInSync, PduBufferInSync, PdusInOrder
<1>6. PollingIsDrained'
  BY <1>1, <1>2, <1>3 DEF PollingIsDrained
<1>7. NothingLeftAtEnd'
  <2>1. \A p \in 1..NPdus : PduEnd[p] <= bufEnd => p <= Len(handled)
    BY <1>2, NoneReadyMeansDrained DEF PollingIsDrained
  <2>2. ASSUME outcome' \in {"closed", "mid_frame"}, taken # Len(frames)
        PROVE  total < frames[taken + 1].end
    <3>1. PICK i \in 1..Len(frames) : i = taken + 1
      BY <2>2 DEF FramingInSync, TypeOK
    <3>2. /\ frames[i] \in Frame /\ frames[i].start = EndOf(frames, i - 1)
          /\ frames[i].end >= frames[i].start + HeaderLen
      <4>1. frames[i] \in Frame
        BY DEF TypeOK
      <4> QED
        BY <4>1 DEF FrameChain
    <3>3. frames[i].start \in Nat /\ frames[i].end \in Nat
      BY <3>2 DEF Frame
    <3>4. i \in DOMAIN frames /\ AtFront(i)
      BY <3>1, <3>2 DEF AtFront, FramingInSync, TypeOK
    <3>5. rxEnd = total /\ (~HeaderRead \/ ~(frames[i].end <= rxEnd))
      BY <1>3, <2>2, <3>4 DEF FrameReady
    <3>6. rxStart = frames[i].start /\ rxEnd \in Nat
      BY <3>4 DEF AtFront, TypeOK
    <3> QED
      BY <3>1, <3>2, <3>3, <3>5, <3>6, SMTT(60) DEF HeaderRead
  <2> QED
    BY <1>1, <2>1, <2>2 DEF NothingLeftAtEnd
<1> QED
  BY <1>4, <1>5, <1>6, <1>7

\* recv_frame returns the next frame of the chain, and recv_rdp unseals it
\* with the sequence number it was sealed with.
LEMMA TakeFramePreserves ==
  ASSUME IInv, NEW i \in DOMAIN frames, TakeFrame(i)
  PROVE  IInv'
<1> USE DEF IInv
<1>1. UNCHANGED <<frames, total, fin, rxEnd, bufStart, handled, phase>>
  BY DEF TakeFrame, server, pdus
<1>2. i = taken + 1 /\ i \in 1..Len(frames) /\ i - 1 = taken
  <2>1. AtFront(i)
    BY DEF TakeFrame
  <2>2. i = taken + 1
    BY <2>1, FrontIsNext
  <2> QED
    BY <2>2 DEF TypeOK
<1>3. /\ frames[i] \in Frame /\ frames[i].seq = SeqAfter(frames, taken)
      /\ UptoOf(frames, taken) <= frames[i].upto
      /\ frames[i].kind # "rdp" => frames[i].upto = UptoOf(frames, taken)
  BY <1>2 DEF FrameChain, TypeOK
<1>4. /\ frames[i].end \in Nat /\ frames[i].upto \in Nat /\ frames[i].seq \in Nat
      /\ frames[i].kind \in Kinds
  BY <1>3 DEF Frame
<1>5. /\ EndOf(frames, i) = frames[i].end /\ UptoOf(frames, i) = frames[i].upto
      /\ SeqAfter(frames, i) = frames[i].seq + (IF Sealed(frames[i]) THEN 1 ELSE 0)
  BY <1>2 DEF EndOf, UptoOf, SeqAfter
<1>6. openSeq = frames[i].seq /\ outcome = "run"
  BY <1>3 DEF SealInSync, TakeFrame, PollingIsDrained
<1>7. taken' = i /\ rxStart' = frames[i].end /\ frames[i].end <= rxEnd /\ polling
  BY DEF TakeFrame
<1>8. outcome' = "run" /\ openSeq' = SeqAfter(frames, i) /\ openSeq' \in Nat
  <2>1. CASE frames[i].kind = "control"
    BY <2>1, <1>4, <1>5, <1>6 DEF TakeFrame, Sealed
  <2>2. CASE frames[i].kind # "control"
    <3>1. /\ openSeq' = openSeq + 1
          /\ outcome' = IF frames[i].seq = openSeq THEN outcome ELSE "desync"
      BY <2>2 DEF TakeFrame, Sealed
    <3>2. SeqAfter(frames, i) = frames[i].seq + 1
      BY <2>2, <1>5 DEF Sealed
    <3> QED
      BY <3>1, <3>2, <1>4, <1>6
  <2> QED
    BY <2>1, <2>2
<1>9. bufEnd' = frames[i].upto /\ polling' \in BOOLEAN /\ (polling' => bufEnd' = bufEnd)
  <2>0. bufEnd = UptoOf(frames, taken)
    BY DEF PduBufferInSync
  <2>1. CASE frames[i].kind = "control"
    BY <2>0, <2>1, <1>3, <1>7 DEF TakeFrame, Sealed
  <2>2. CASE frames[i].kind # "control"
    BY <2>0, <2>2, <1>3 DEF TakeFrame, Sealed
  <2> QED
    BY <2>1, <2>2
<1>10. TypeOK'
  <2>1. rxStart' \in Nat /\ taken' \in Nat /\ bufEnd' \in Nat
    BY <1>2, <1>4, <1>7, <1>9
  <2>2. outcome' \in Outcomes
    BY <1>8 DEF Outcomes
  <2> QED
    BY <1>1, <1>8, <1>9, <2>1, <2>2 DEF TypeOK
<1>11. FrameChain'
  BY <1>1 DEF FrameChain
<1>12. FramingInSync'
  BY <1>1, <1>2, <1>5, <1>7 DEF FramingInSync
<1>13. SealInSync'
  BY <1>1, <1>7, <1>8 DEF SealInSync
<1>14. PduBufferInSync'
  <2>1. bufStart <= bufEnd'
    BY <1>3, <1>4, <1>9 DEF PduBufferInSync, TypeOK
  <2> QED
    BY <1>1, <1>5, <1>7, <1>9, <2>1 DEF PduBufferInSync
<1>15. PdusInOrder'
  BY <1>1 DEF PdusInOrder
<1>16. PollingIsDrained' /\ NothingLeftAtEnd'
  BY <1>1, <1>7, <1>8, <1>9 DEF PollingIsDrained, PduReady, NothingLeftAtEnd
<1> QED
  BY <1>10, <1>11, <1>12, <1>13, <1>14, <1>15, <1>16

\* Taking a PDU out of the buffer moves its start to the next one.
LEMMA DrainPreserves ==
  ASSUME IInv, NEW p \in 1..NPdus, PduReady(p), outcome = "run", ~polling,
         NEW who \in Loops,
         who = "stage" => PduKind[p] # "demand",
         Drain(p, who), phase' \in Phases, outcome' \in {"run", "ended"},
         UNCHANGED <<server, rxStart, rxEnd, taken, openSeq, bufEnd, polling>>
  PROVE  IInv'
<1> USE DEF IInv
<1>1. UNCHANGED <<frames, total, fin>>
  BY DEF server
<1>2. PICK h \in Nat : h = Len(handled)
  BY DEF TypeOK
<1>3. p = h + 1 /\ p \in 0..NPdus
  BY <1>2, ReadyIsNext
<1>4. PICK r \in Handling :
         r = [pdu |-> p, by |-> who]
  BY DEF Handling
<1>5. handled' = Append(handled, r) /\ bufStart' = PduEnd[p]
  BY <1>4 DEF Drain
<1>6. /\ handled' \in Seq(Handling)
      /\ Len(handled') = h + 1 /\ handled'[h + 1] = r
      /\ \A k \in 1..h : handled'[k] = handled[k]
  BY <1>2, <1>5 DEF TypeOK
<1>7. bufStart' \in Nat /\ bufStart' <= bufEnd
  BY <1>3, <1>5 DEF PduReady
<1>8. TypeOK'
  BY <1>1, <1>6, <1>7 DEF TypeOK, Outcomes
<1>9. FrameChain' /\ FramingInSync' /\ SealInSync'
  BY <1>1 DEF FrameChain, FramingInSync, SealInSync
<1>10. PduBufferInSync'
  BY <1>1, <1>3, <1>5, <1>6, <1>7 DEF PduBufferInSync
<1>11. PdusInOrder'
  <2>1. ASSUME NEW k \in 1..(h + 1)
        PROVE  /\ handled'[k].pdu = k
               /\ handled'[k].by = "stage" => PduKind[k] # "demand"
    <3>1. CASE k \in 1..h
      <4>1. k \in DOMAIN handled /\ handled'[k] = handled[k]
        BY <1>2, <1>6, <3>1 DEF TypeOK
      <4> QED
        BY <4>1 DEF PdusInOrder
    <3>2. CASE k = h + 1
      <4>1. handled'[k] = r /\ r.pdu = p /\ r.by = who
        BY <1>4, <1>6, <3>2
      <4> QED
        BY <1>3, <3>2, <4>1
    <3> QED
      BY <3>1, <3>2
  <2>2. DOMAIN handled' = 1..(h + 1)
    BY <1>6
  <2> QED
    BY <2>1, <2>2 DEF PdusInOrder
<1>12. PollingIsDrained' /\ NothingLeftAtEnd'
  BY DEF PollingIsDrained, NothingLeftAtEnd
<1> QED
  BY <1>8, <1>9, <1>10, <1>11, <1>12

\* The three loops drain PDUs; only putting a DemandActive back does not.
LEMMA LoopPreserves ==
  ASSUME IInv, NEW p \in 1..NPdus,
         ConnectStep(p) \/ ActiveStep(p) \/ ReactivateStep(p) \/ LoopEnds(p)
  PROVE  IInv'
<1>1. CASE ConnectStep(p)
  BY <1>1, DrainPreserves DEF ConnectStep, Phases, Loops
<1>2. CASE ReactivateStep(p)
  BY <1>2, DrainPreserves DEF ReactivateStep, Phases, Loops
<1>3. CASE ActiveStep(p) /\ PduKind[p] # "demand"
  <2>1. Drain(p, "stage") /\ phase' \in Phases
    BY <1>3 DEF ActiveStep, Phases
  <2> QED
    BY <1>3, <2>1, DrainPreserves DEF ActiveStep, Loops
<1>4. CASE ActiveStep(p) /\ PduKind[p] = "demand"
  <2>1. UNCHANGED <<frames, total, fin, rxStart, rxEnd, taken, openSeq, bufEnd,
                    bufStart, handled, polling, outcome>> /\ phase' = "reactivate"
    BY <1>4 DEF ActiveStep, server
  <2>2. TypeOK'
    BY <2>1 DEF IInv, TypeOK, Phases
  <2>3. FrameChain' /\ FramingInSync' /\ SealInSync'
    BY <2>1 DEF IInv, FrameChain, FramingInSync, SealInSync
  <2>4. PduBufferInSync' /\ PdusInOrder'
    BY <2>1 DEF IInv, PduBufferInSync, PdusInOrder
  <2>5. PollingIsDrained' /\ NothingLeftAtEnd'
    BY <2>1 DEF IInv, PollingIsDrained, NothingLeftAtEnd, PduReady
  <2> QED
    BY <2>2, <2>3, <2>4, <2>5 DEF IInv
<1>5. CASE LoopEnds(p)
  <2>1. phase \in Phases
    BY DEF IInv, TypeOK
  <2>2. LoopOf[phase] \in Loops /\ (LoopOf[phase] = "stage" => phase = "active")
    BY <2>1 DEF LoopOf, Loops, Phases
  <2>3. LoopOf[phase] = "stage" => PduKind[p] # "demand"
    BY <1>5, <2>2 DEF LoopEnds
  <2>4. PICK who \in Loops : who = LoopOf[phase]
    BY <2>2
  <2> QED
    BY <1>5, <2>1, <2>3, <2>4, DrainPreserves DEF LoopEnds
<1> QED
  BY <1>1, <1>2, <1>3, <1>4, <1>5

\* Every step preserves the invariant.
LEMMA NextPreserves == IInv /\ [Next]_vars => IInv'
<1> SUFFICES ASSUME IInv, [Next]_vars PROVE IInv'
  OBVIOUS
<1>1. CASE Client
  <2>1. CASE Poll \/ Read \/ Cancel
    BY <2>1, PollPreserves
  <2>2. CASE ReadEof \/ ReadError \/ RejectFrame \/ UiClosed
    BY <2>2, EndPreserves
  <2>3. CASE \E i \in DOMAIN frames : TakeFrame(i)
    BY <2>3, TakeFramePreserves
  <2>4. CASE \E p \in 1..NPdus :
                ConnectStep(p) \/ ActiveStep(p) \/ ReactivateStep(p) \/ LoopEnds(p)
    BY <2>4, LoopPreserves
  <2> QED
    BY <1>1, <2>1, <2>2, <2>3, <2>4 DEF Client
<1>2. CASE Server
  BY <1>2, ServerSendPreserves, ServerClosePreserves DEF Server
<1>3. CASE UNCHANGED vars
  <2>1. UNCHANGED <<frames, total, fin, rxStart, rxEnd, taken, openSeq, bufEnd,
                    bufStart, handled, phase, polling, outcome>>
    BY <1>3 DEF vars
  <2>2. TypeOK'
    BY <2>1 DEF IInv, TypeOK
  <2>3. FrameChain' /\ FramingInSync' /\ SealInSync'
    BY <2>1 DEF IInv, FrameChain, FramingInSync, SealInSync
  <2>4. PduBufferInSync' /\ PdusInOrder'
    BY <2>1 DEF IInv, PduBufferInSync, PdusInOrder
  <2>5. PollingIsDrained' /\ NothingLeftAtEnd'
    BY <2>1 DEF IInv, PollingIsDrained, NothingLeftAtEnd, PduReady
  <2> QED
    BY <2>2, <2>3, <2>4, <2>5 DEF IInv
<1> QED
  BY <1>1, <1>2, <1>3 DEF Next, Idle

\* The invariant holds of the receive path for every PDU stream, framing,
\* segmentation and cancellation pattern.
THEOREM Invariance == Spec => []IInv
<1> QED
  BY InitEstablishes, NextPreserves, PTL DEF Spec

\* recv_frame never loses the framing of the sealed stream.
THEOREM FramingKept == Spec => []FramingInSync
<1>1. IInv => FramingInSync
  BY DEF IInv
<1> QED
  BY <1>1, Invariance, PTL

\* recv_rdp never desynchronises the security context of an honest server.
THEOREM SealKept == Spec => []SealInSync
<1>1. IInv => SealInSync
  BY DEF IInv
<1> QED
  BY <1>1, Invariance, PTL

\* The buffer handed from loop to loop loses and repeats nothing.
THEOREM PduBufferKept == Spec => []PduBufferInSync
<1>1. IInv => PduBufferInSync
  BY DEF IInv
<1> QED
  BY <1>1, Invariance, PTL

\* PDUs are handled in order, DemandActive never by the active stage.
THEOREM PdusHandledInOrder == Spec => []PdusInOrder
<1>1. IInv => PdusInOrder
  BY DEF IInv
<1> QED
  BY <1>1, Invariance, PTL

\* The receive path ends with nothing whole left unhandled.
THEOREM EndsDrained == Spec => []NothingLeftAtEnd
<1>1. IInv => NothingLeftAtEnd
  BY DEF IInv
<1> QED
  BY <1>1, Invariance, PTL

\* The PDUs of a history of length n are a sequence of length n.
LEMMA PdusOfSeq ==
  ASSUME NEW s \in Seq(Handling)
  PROVE  /\ PdusOf(s) \in Seq(1..NPdus) /\ Len(PdusOf(s)) = Len(s)
         /\ \A k \in 1..Len(s) : PdusOf(s)[k] = s[k].pdu
<1>1. Len(s) \in Nat /\ DOMAIN s = 1..Len(s)
  OBVIOUS
<1>2. \A k \in 1..Len(s) : s[k].pdu \in 1..NPdus
  <2> SUFFICES ASSUME NEW k \in 1..Len(s) PROVE s[k].pdu \in 1..NPdus
    OBVIOUS
  <2>1. s[k] \in Handling
    BY ElementOfSeq
  <2> QED
    BY <2>1 DEF Handling
<1>3. PdusOf(s) = [k \in 1..Len(s) |-> s[k].pdu]
  BY <1>1 DEF PdusOf
<1>4. PdusOf(s) \in [1..Len(s) -> 1..NPdus] /\ DOMAIN PdusOf(s) = 1..Len(s)
  BY <1>2, <1>3
<1>5. PdusOf(s) \in Seq(1..NPdus)
  <2>1. Seq(1..NPdus) = UNION {[1..n -> 1..NPdus] : n \in Nat}
    BY SeqDef, Zenon
  <2> QED
    BY <1>1, <1>4, <2>1, Zenon
<1>6. Len(PdusOf(s)) = Len(s)
  BY <1>1, <1>4, <1>5, LenProperties
<1>7. \A k \in 1..Len(s) : PdusOf(s)[k] = s[k].pdu
  BY <1>3
<1> QED
  BY <1>5, <1>6, <1>7

\* Taking one more PDU appends it to them.
LEMMA PdusOfAppend ==
  ASSUME NEW s \in Seq(Handling), NEW r \in Handling
  PROVE  PdusOf(Append(s, r)) = Append(PdusOf(s), r.pdu)
<1>0. PICK n \in Nat : n = Len(s)
  OBVIOUS
<1>1. PICK t \in Seq(Handling) : t = Append(s, r)
  OBVIOUS
<1>2. Len(t) = n + 1 /\ t[n + 1] = r /\ \A k \in 1..n : t[k] = s[k]
  BY <1>0, <1>1
<1>3. PdusOf(s) \in Seq(1..NPdus) /\ Len(PdusOf(s)) = n
      /\ \A k \in 1..n : PdusOf(s)[k] = s[k].pdu
  BY <1>0, PdusOfSeq
<1>4. PdusOf(t) \in Seq(1..NPdus) /\ Len(PdusOf(t)) = n + 1
      /\ \A k \in 1..(n + 1) : PdusOf(t)[k] = t[k].pdu
  BY <1>2, PdusOfSeq
<1>5. r.pdu \in 1..NPdus
  BY DEF Handling
<1>6. PICK a : a = Append(PdusOf(s), r.pdu)
  OBVIOUS
<1>7. a \in Seq(1..NPdus) /\ Len(a) = n + 1 /\ a[n + 1] = r.pdu
      /\ \A k \in 1..n : a[k] = PdusOf(s)[k]
  BY <1>3, <1>5, <1>6
<1>8. ASSUME NEW k \in 1..(n + 1) PROVE PdusOf(t)[k] = a[k]
  <2>1. CASE k \in 1..n
    <3>1. PdusOf(t)[k] = t[k].pdu /\ t[k] = s[k] /\ a[k] = s[k].pdu
      BY <2>1, <1>2, <1>3, <1>4, <1>7
    <3> QED
      BY <3>1
  <2>2. CASE k = n + 1
    BY <2>2, <1>2, <1>4, <1>7
  <2> QED
    BY <2>1, <2>2
<1>9. PdusOf(t) = a
  BY <1>4, <1>7, <1>8, SeqEqual
<1> QED
  BY <1>1, <1>6, <1>9

\* Taking PDU p is the channel delivering it.
LEMMA DrainDelivers ==
  ASSUME IInv, NEW p \in 1..NPdus, PduReady(p),
         NEW who \in Loops,
         Drain(p, who), UNCHANGED frames
  PROVE  Channel!Deliver
<1>1. handled \in Seq(Handling) /\ frames \in Seq(Frame) /\ taken \in 0..Len(frames)
  BY DEF IInv, TypeOK, FramingInSync
<1>2. p = Len(handled) + 1 /\ Len(handled) < NPdus
  BY ReadyIsNext, <1>1
<1>3. PICK r \in Handling : r = [pdu |-> p, by |-> who] /\ r.pdu = p
  <2>1. [pdu |-> p, by |-> who] \in Handling
    BY DEF Handling
  <2>2. [pdu |-> p, by |-> who].pdu = p
    OBVIOUS
  <2> QED
    BY <2>1, <2>2, Zenon
<1>4. PdusOf(handled') = Append(PdusOf(handled), p)
  BY <1>1, <1>3, PdusOfAppend DEF Drain
<1>5. Len(PdusOf(handled)) = Len(handled)
  BY <1>1, PdusOfSeq
<1>6. PduEnd[p] <= UptoOf(frames, Len(frames))
  <2>1. /\ UptoOf(frames, taken) \in Nat /\ UptoOf(frames, Len(frames)) \in Nat
        /\ Len(frames) \in 0..Len(frames) /\ PduEnd[p] \in Nat
    BY <1>1, SumsAreNat, SMTT(60)
  <2>2. UptoOf(frames, taken) <= UptoOf(frames, Len(frames))
    <3>1. CASE taken = Len(frames)
      BY <2>1, <3>1
    <3>2. CASE taken # Len(frames)
      BY <1>1, <2>1, <3>2 DEF IInv, FrameChain
    <3> QED
      BY <3>1, <3>2
  <2>3. PduEnd[p] <= UptoOf(frames, taken)
    BY DEF IInv, PduReady, PduBufferInSync
  <2> QED
    BY <2>1, <2>2, <2>3
<1>7. UptoOf(frames', Len(frames')) = UptoOf(frames, Len(frames))
  OBVIOUS
<1> QED
  BY <1>2, <1>4, <1>5, <1>6, <1>7 DEF Channel!Deliver

\* The receive path implements the channel of PDUs: each delivered once, in
\* order, and only when all of it has been written.
THEOREM Refinement == Spec => ImplementsChannel
<1>1. Init => Channel!Init
  BY DEF Init, Channel!Init, UptoOf, PdusOf
<1>2. ASSUME IInv, [Next]_vars
      PROVE  [Channel!Next]_<<UptoOf(frames, Len(frames)), PdusOf(handled)>>
  <2>1. CASE UNCHANGED <<frames, handled>>
    BY <2>1
  <2>2. CASE \E kind \in Kinds, n \in 1..MaxChunk : ServerSend(kind, n)
    <3>1. PICK kind \in Kinds, n \in 1..MaxChunk : ServerSend(kind, n)
      BY <2>2
    <3>2. frames \in Seq(Frame) /\ Len(frames) \in Nat
      BY <1>2 DEF IInv, TypeOK
    <3>3. PICK w \in Nat : w = UptoOf(frames, Len(frames))
      BY <3>2, SumsAreNat, SMTT(60)
    <3>4. PICK m \in Nat : m = IF kind = "rdp" THEN n ELSE 0
      OBVIOUS
    <3>5. w + m <= PduEnd[NPdus] /\ PduEnd[NPdus] \in Nat
      BY <3>1, <3>3, <3>4 DEF ServerSend
    <3>6. UptoOf(frames', Len(frames')) = w + m
      <4>1. PICK f : frames' = Append(frames, f) /\ f.upto = w + m
        BY <3>1, <3>3, <3>4, SMTT(60) DEF ServerSend
      <4>2. Len(frames') = Len(frames) + 1 /\ frames'[Len(frames) + 1] = f
        BY <3>2, <4>1
      <4> QED
        BY <3>2, <4>1, <4>2 DEF UptoOf
    <3>7. handled' = handled
      BY <3>1 DEF ServerSend, pdus
    <3>8. Channel!Write
      BY <3>3, <3>5, <3>6, <3>7 DEF Channel!Write
    <3> QED
      BY <3>8 DEF Channel!Next
  <2>3. CASE \E p \in 1..NPdus :
                ConnectStep(p) \/ ActiveStep(p) \/ ReactivateStep(p) \/ LoopEnds(p)
    <3>1. PICK p \in 1..NPdus :
             ConnectStep(p) \/ ActiveStep(p) \/ ReactivateStep(p) \/ LoopEnds(p)
      BY <2>3
    <3>2. UNCHANGED frames /\ PduReady(p)
      BY <3>1 DEF ConnectStep, ActiveStep, ReactivateStep, LoopEnds, server
    <3>3. \/ \E who \in Loops : Drain(p, who)
          \/ UNCHANGED handled
      <4>1. phase \in Phases
        BY <1>2 DEF IInv, TypeOK
      <4>2. LoopOf[phase] \in Loops
        BY <4>1 DEF LoopOf, Loops, Phases
      <4> QED
        BY <3>1, <4>2 DEF ConnectStep, ActiveStep, ReactivateStep, LoopEnds, Loops
    <3>4. Channel!Deliver \/ UNCHANGED handled
      BY <1>2, <3>2, <3>3, DrainDelivers
    <3> QED
      BY <2>1, <3>2, <3>4 DEF Channel!Next
  <2>4. CASE \/ Poll \/ Read \/ ReadEof \/ ReadError \/ RejectFrame \/ Cancel
             \/ UiClosed \/ ServerClose \/ \E i \in DOMAIN frames : TakeFrame(i)
    <3>1. UNCHANGED <<frames, handled>>
      BY <2>4 DEF Poll, Read, ReadEof, ReadError, RejectFrame, Cancel, UiClosed,
                  ServerClose, TakeFrame, server, pdus
    <3> QED
      BY <2>1, <3>1
  <2>5. CASE UNCHANGED vars
    BY <2>1, <2>5 DEF vars
  <2> QED
    BY <1>2, <2>2, <2>3, <2>4, <2>5 DEF Next, Client, Server, Idle
<1> QED
  BY <1>1, <1>2, Invariance, PTL DEF Spec, ImplementsChannel, Channel!Spec

=============================================================================
