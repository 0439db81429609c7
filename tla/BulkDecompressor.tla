-------------------------- MODULE BulkDecompressor --------------------------
(***************************************************************************)
(* MPPC bulk decompression: MppcDecompressor::decompress down to the bits,  *)
(* against a compressor (external) that keeps the same history.             *)
(*                                                                          *)
(* crates/sccm-rc-protocol/src/mppc.rs                                      *)
(*                                                                          *)
(* The constants shrink the code's numbers: HistorySize is 2^16, a byte has *)
(* 8 bits, the offset classes carry 16, 11, 8 and 6 bits.  Packets arrive   *)
(* in order; a packet may be cut short.  The arithmetic is that of a        *)
(* release build, where subtracting past zero wraps around.                 *)
(***************************************************************************)
EXTENDS Integers, Sequences, FiniteSets, FiniteSetsExt, SequencesExt

CONSTANTS
    HistorySize,   \* HISTORY_SIZE
    ByteBits,      \* bits in a byte; a literal carries one less
    Classes,       \* offset classes, longest first: records of bits and base
    MaxOnes,       \* the cap of decode_length (30 in the code)
    Alphabet,      \* bytes of the server's plaintext
    MaxPackets,    \* bound: packets sent
    MaxTokens,     \* bound: tokens in all of them
    Offsets,       \* offsets and lengths of the matches the server finds
    Lengths,
    Cuts           \* packets may lose their last byte

ASSUME SizesAssumption ==
    /\ HistorySize \in Nat \ {0, 1} /\ ByteBits \in Nat \ {0, 1} /\ MaxOnes \in Nat \ {0}
    /\ MaxPackets \in Nat /\ MaxTokens \in Nat /\ Cuts \in BOOLEAN

HistoryCap == 2 * HistorySize
LitBits == ByteBits - 1

\* read_bit at p: reads past the end return 0.
Bit(q, p) == IF p < Len(q) THEN q[p + 1] ELSE 0

\* v = (v << 1) | read_bit(), n times from p.
Shifted(v, q, p, n) ==
    LET s[k \in 0..n] == IF k = 0 THEN v ELSE 2 * s[k - 1] + Bit(q, p + k - 1)
    IN  s[n]
ReadBits(q, p, n) == Shifted(0, q, p, n)

\* 1 << n
Pow2(n) == Shifted(1, <<>>, 0, n)

\* Offset o is of class k: in its range, below the earlier classes'.
InClass(o, k) ==
    /\ Classes[k].base <= o /\ o < Classes[k].base + Pow2(Classes[k].bits)
    /\ \A j \in 1..(k - 1) : o < Classes[j].base

\* Length l has n leading ones.
HasOnes(l, n) == Pow2(n + 1) <= l /\ l < Pow2(n + 2)

\* No token is shorter than a byte: the shortest offset has 6 bits after its 11.
ASSUME ClassesAssumption ==
    /\ Classes \in Seq([bits : Nat, base : Nat]) /\ Classes # <<>>
    /\ Classes[Len(Classes)].base = 0
    /\ \A k \in DOMAIN Classes : Classes[k].bits + 2 >= ByteBits
ASSUME AlphabetAssumption == Alphabet \subseteq 0..Pow2(ByteBits) - 1

\* The server finds matches that have a code.
ASSUME MatchAssumption ==
    /\ Offsets \subseteq 1..(HistorySize - 1) /\ Lengths \subseteq 3..HistorySize
    /\ \A o \in Offsets : \E k \in DOMAIN Classes : InClass(o, k)
    /\ \A l \in Lengths \ {3} : \E n \in 1..(MaxOnes - 1) : HasOnes(l, n)

VARIABLES
    sHist, sOffset,  \* server: history and history pointer
    packet,          \* server: the packet being built or decoded, as bits
    flags,           \* its compressed / at_front / flushed flags
    plain,           \* server: what the packet says
    marks,           \* auxiliary: the server's state before each token and after the last
    packets, tokens, \* server: how many
    cut,             \* bytes missing from the packet's end
    stage,           \* "idle", "building" (server), "decoding" (client)
    pos,             \* BitReader: bits read, past the end too
    history, offset, \* MppcDecompressor
    out,             \* decompress: the plaintext so far
    astray,          \* auxiliary: a cut packet has been decoded since the last flush
    strayed          \* auxiliary: one before the present packet has

sender == <<sHist, sOffset, packet, flags, plain, marks, packets, tokens, cut>>
client == <<pos, history, offset, out>>
mppcVars == <<sender, stage, client, astray, strayed>>

Zeros == [i \in 0..HistoryCap - 1 |-> 0]

Mark(q, said, h, off) == [at |-> Len(q), plain |-> said, hist |-> h, off |-> off]

MppcInit ==
    /\ sHist = Zeros /\ sOffset = 0 /\ history = Zeros /\ offset = 0
    /\ packet = <<>> /\ plain = <<>> /\ out = <<>> /\ pos = 0
    /\ marks = <<Mark(<<>>, <<>>, Zeros, 0)>>
    /\ flags = [compressed |-> FALSE, at_front |-> FALSE, flushed |-> FALSE]
    /\ packets = 0 /\ tokens = 0 /\ cut = 0 /\ stage = "idle"
    /\ astray = FALSE /\ strayed = FALSE

-----------------------------------------------------------------------------
(* The bits of a token. *)

Ones(n) == [i \in 1..n |-> 1]

\* n bits of v, most significant first.
Bits(v, n) == [i \in 1..n |-> (v \div Pow2(n - i)) % 2]

LiteralBits(b) ==
    IF b < Pow2(LitBits) THEN <<0>> \o Bits(b, LitBits)
    ELSE <<1, 0>> \o Bits(b - Pow2(LitBits), LitBits)

\* The class of an offset, and its code: a one for each class passed over.
ClassOf(o) == CHOOSE k \in DOMAIN Classes : InClass(o, k)
ClassBits(k) == IF k < Len(Classes) THEN Ones(k - 1) \o <<0>> ELSE Ones(k - 1)
OffsetBits(o) ==
    LET k == ClassOf(o) IN ClassBits(k) \o Bits(o - Classes[k].base, Classes[k].bits)

\* 3 is a single 0; 2^(n+1) .. 2^(n+2) - 1 is n ones, a 0 and n + 1 bits.
LengthBits(l) ==
    IF l = 3 THEN <<0>>
    ELSE LET n == CHOOSE k \in 1..(MaxOnes - 1) : HasOnes(l, k)
         IN  Ones(n) \o <<0>> \o Bits(l - Pow2(n + 1), n + 1)

CopyBits(o, l) == <<1, 1>> \o OffsetBits(o) \o LengthBits(l)

-----------------------------------------------------------------------------
(* The server. *)

\* A packet begins; the pointer goes to the front when told, the history is
\* cleared by a flush.
BeginPacket(f) ==
    /\ stage = "idle" /\ packets < MaxPackets /\ tokens < MaxTokens
    /\ f.compressed /\ sOffset = HistorySize => f.flushed \/ f.at_front
    /\ flags' = f
    /\ sHist' = IF f.flushed THEN Zeros ELSE sHist
    /\ sOffset' = IF f.flushed \/ f.at_front THEN 0 ELSE sOffset
    /\ packet' = <<>> /\ plain' = <<>> /\ cut' = 0
    /\ marks' = <<Mark(<<>>, <<>>, sHist', sOffset')>>
    /\ packets' = packets + 1
    /\ stage' = "building"
    /\ UNCHANGED <<tokens, client, astray, strayed>>

AddToken(bits, bytes, h, off) ==
    /\ stage = "building" /\ tokens < MaxTokens
    /\ tokens' = tokens + 1
    /\ packet' = packet \o bits
    /\ plain' = plain \o bytes
    /\ sHist' = h /\ sOffset' = off
    /\ marks' = Append(marks, Mark(packet', plain', h, off))
    /\ UNCHANGED <<flags, packets, cut, stage, client, astray, strayed>>

AddLiteral(b) ==
    /\ flags.compressed /\ sOffset < HistorySize
    /\ AddToken(LiteralBits(b), <<b>>, [sHist EXCEPT ![sOffset] = b], sOffset + 1)

\* Byte i of a match o back from off, in the part of the history kept from before
\* the last return to the front if o is past it; a match into itself repeats.
MatchByte(h, off, o, i) == IF o <= off THEN h[off - o + (i % o)] ELSE h[off - o + HistorySize + i]
Match(h, off, o, l) == [i \in 1..l |-> MatchByte(h, off, o, i - 1)]
Matched(h, off, o, l) ==
    [x \in 0..HistoryCap - 1 |->
        IF off <= x /\ x < off + l THEN MatchByte(h, off, o, x - off) ELSE h[x]]

AddCopy(o, l) ==
    /\ flags.compressed /\ sOffset + l <= HistorySize
    /\ AddToken(CopyBits(o, l), Match(sHist, sOffset, o, l), Matched(sHist, sOffset, o, l), sOffset + l)

\* A byte of a packet sent as it is.
AddPlain(b) ==
    /\ ~flags.compressed
    /\ AddToken(Bits(b, ByteBits), <<b>>, sHist, sOffset)

\* The bits missing to whole bytes.
Missing(n) == (ByteBits - (n % ByteBits)) % ByteBits

\* A packet padded to whole bytes, or short of the last of them.
Handed(q, short) ==
    LET whole == q \o [i \in 1..Missing(Len(q)) |-> 0]
    IN  IF short THEN SubSeq(whole, 1, Len(whole) - ByteBits) ELSE whole

\* The packet is handed to decompress(), whose first lines see to the flags.
Deliver(short) ==
    /\ stage = "building" /\ plain # <<>>
    /\ short => Cuts /\ flags.compressed /\ Len(packet) + Missing(Len(packet)) > ByteBits
    /\ packet' = Handed(packet, short)
    /\ cut' = IF short THEN 1 ELSE 0
    /\ history' = IF flags.flushed
                  THEN [i \in DOMAIN history |-> IF i < HistorySize THEN 0 ELSE history[i]]
                  ELSE history
    /\ offset' = IF flags.flushed \/ flags.at_front THEN 0 ELSE offset
    /\ pos' = 0 /\ out' = <<>>
    /\ stage' = "decoding"
    /\ strayed' = (astray /\ ~flags.flushed)
    /\ astray' = (short \/ strayed')
    /\ UNCHANGED <<sHist, sOffset, flags, plain, marks, packets, tokens>>

-----------------------------------------------------------------------------
(* BitReader *)

\* bits_left() >= 8; past the end the subtraction wraps to a huge number.
MoreBits == pos > Len(packet) \/ Len(packet) - pos >= ByteBits

-----------------------------------------------------------------------------
(* decompress *)

\* decode_offset at p: a 0 ends the class code, the last class has none; the
\* offset and where it ends.
ReadClass(q, p) ==
    LET zeros == {j \in 1..(Len(Classes) - 1) : Bit(q, p + j - 1) = 0}
    IN  IF zeros # {} THEN Min(zeros) ELSE Len(Classes)
DecodeOffset(q, p) ==
    LET k == ReadClass(q, p)
        at == IF k < Len(Classes) THEN p + k ELSE p + k - 1
    IN  [v |-> ReadBits(q, at, Classes[k].bits) + Classes[k].base, next |-> at + Classes[k].bits]

\* decode_length at p: ones up to a 0 or to the cap.
ReadOnes(q, p) ==
    LET zeros == {j \in 0..(MaxOnes - 1) : Bit(q, p + j) = 0}
    IN  IF zeros # {} THEN Min(zeros) ELSE MaxOnes
DecodeLength(q, p) ==
    LET n == ReadOnes(q, p)
        at == IF n < MaxOnes THEN p + n + 1 ELSE p + n
    IN  IF n = 0 THEN [v |-> 3, next |-> at]
        ELSE [v |-> Pow2(n + 1) + ReadBits(q, at, n + 1), next |-> at + n + 1]

\* An uncompressed packet is returned as it is, whatever the history.
PassThrough ==
    /\ stage = "decoding" /\ ~flags.compressed
    /\ out' = [i \in 1..(Len(packet) \div ByteBits) |-> ReadBits(packet, (i - 1) * ByteBits, ByteBits)]
    /\ stage' = "idle"
    /\ UNCHANGED <<sender, pos, history, offset, astray, strayed>>

\* Mutant: the loop goes on when the history is full.
DecodingUnbounded == stage = "decoding" /\ flags.compressed /\ MoreBits

\* Another token is looked for.
Decoding == stage = "decoding" /\ flags.compressed /\ MoreBits /\ offset < HistorySize

Emit(b) ==
    /\ history' = [history EXCEPT ![offset] = b]
    /\ out' = Append(out, b)
    /\ offset' = offset + 1
    /\ UNCHANGED <<sender, stage, astray, strayed>>

LiteralLow ==
    /\ Decoding /\ Bit(packet, pos) = 0
    /\ Emit(ReadBits(packet, pos + 1, LitBits))
    /\ pos' = pos + 1 + LitBits

LiteralHigh ==
    /\ Decoding /\ Bit(packet, pos) = 1 /\ Bit(packet, pos + 1) = 0
    /\ Emit(Pow2(LitBits) + ReadBits(packet, pos + 2, LitBits))
    /\ pos' = pos + 2 + LitBits

\* history[offset] = history[src]
CopyByte(h, off, src) == [h EXCEPT ![off] = h[src]]

\* Mutant: the source wraps to the front at every byte, as in a ring.
CopiedCircular(h, off, src, l) ==
    LET copy[k \in 0..l] ==
            IF k = 0 THEN h
            ELSE CopyByte(copy[k - 1], off + k - 1, (src + k - 1) % HistorySize)
    IN  copy[l]

\* offset.wrapping_sub(copy_offset) & (HISTORY_SIZE - 1)
Source(off, o) == (off - o) % HistorySize

\* The copy loop, byte by byte: linear, into the zeroed headroom if it gets there.
Copied(h, off, src, l) ==
    LET copy[k \in 0..l] ==
            IF k = 0 THEN h
            ELSE CopyByte(copy[k - 1], off + k - 1, src + k - 1)
    IN  copy[l]

IsCopy == Bit(packet, pos) = 1 /\ Bit(packet, pos + 1) = 1
OffsetAt[p \in Nat] == DecodeOffset(packet, p)
LengthAt[p \in Nat] == DecodeLength(packet, p)
CopyOffset == OffsetAt[pos + 2]
CopyLength == LengthAt[CopyOffset.next]

\* The offset is not 0 and the copy ends inside the window.
CopyFits == CopyOffset.v # 0 /\ offset + CopyLength.v <= HistorySize

Copy ==
    /\ Decoding /\ IsCopy /\ CopyFits
    /\ history' = Copied(history, offset, Source(offset, CopyOffset.v), CopyLength.v)
    /\ out' = out \o [i \in 1..CopyLength.v |-> history'[offset + i - 1]]
    /\ offset' = offset + CopyLength.v
    /\ pos' = CopyLength.next
    /\ UNCHANGED <<sender, stage, astray, strayed>>

\* Mutant: a copy that makes no sense is tried again instead of ending the loop.
FinishRetries ==
    /\ stage = "decoding" /\ flags.compressed
    /\ ~MoreBits \/ offset >= HistorySize \/ (IsCopy /\ ~CopyFits)
    /\ stage' = IF MoreBits /\ offset < HistorySize THEN stage ELSE "idle"
    /\ UNCHANGED <<sender, client, astray, strayed>>

\* The loop ends: the bits are used up (padding is left), the history is full,
\* or the copy makes no sense.
Finish ==
    /\ stage = "decoding" /\ flags.compressed
    /\ ~MoreBits \/ offset >= HistorySize \/ (IsCopy /\ ~CopyFits)
    /\ stage' = "idle"
    /\ UNCHANGED <<sender, client, astray, strayed>>

MppcQuiet == stage = "idle" /\ (packets = MaxPackets \/ tokens = MaxTokens) /\ UNCHANGED mppcVars

Server ==
    \/ \E f \in [compressed : BOOLEAN, at_front : BOOLEAN, flushed : BOOLEAN] : BeginPacket(f)
    \/ \E b \in Alphabet : AddLiteral(b) \/ AddPlain(b)
    \/ \E o \in Offsets, l \in Lengths : AddCopy(o, l)
    \/ \E short \in BOOLEAN : Deliver(short)

Decompress == PassThrough \/ LiteralLow \/ LiteralHigh \/ Copy \/ Finish

MppcNext == Server \/ Decompress \/ MppcQuiet

\* decompress() runs to its end once it is called.
MppcSpec == MppcInit /\ [][MppcNext]_mppcVars /\ WF_mppcVars(Decompress)

-----------------------------------------------------------------------------
(* Properties *)

Histories == [0..HistoryCap - 1 -> Nat]
Snapshots == [at : Nat, plain : Seq(Nat), hist : Histories, off : 0..HistorySize]

MppcTypeOK ==
    /\ stage \in {"idle", "building", "decoding"}
    /\ sHist \in Histories /\ sOffset \in 0..HistorySize
    /\ packet \in Seq({0, 1}) /\ plain \in Seq(Nat)
    /\ flags \in [compressed : BOOLEAN, at_front : BOOLEAN, flushed : BOOLEAN]
    /\ marks \in Seq(Snapshots)
    /\ packets \in 0..MaxPackets /\ tokens \in 0..MaxTokens /\ cut \in {0, 1}
    /\ pos \in Nat /\ history \in Histories /\ offset \in 0..HistorySize /\ out \in Seq(Nat)
    /\ astray \in BOOLEAN /\ strayed \in BOOLEAN

\* The headroom a copy may read past the window is zero and stays zero, and no
\* read or write leaves the buffer, on whatever bits arrive.
HeadroomZero == \A i \in HistorySize..HistoryCap - 1 : history[i] = 0
WindowSafe ==
    /\ HeadroomZero
    /\ Decoding /\ IsCopy /\ CopyFits =>
        /\ Source(offset, CopyOffset.v) + CopyLength.v <= HistoryCap
        /\ offset + CopyLength.v <= HistorySize

\* Every packet that arrived whole decompresses to what was compressed, and the
\* two histories and pointers agree after it: across returns to the front,
\* flushes, uncompressed packets in between and matches into the part kept from
\* before.  A cut packet spoils this until the next flush, no longer, and what it
\* says up to its last token is decompressed all the same.
DecompressesWhatWasSent ==
    stage = "idle" /\ packets > 0 =>
        /\ ~astray => history = sHist /\ offset = sOffset
        /\ ~astray \/ ~flags.compressed => out = plain
        /\ (cut = 1 /\ ~strayed) => IsPrefix(marks[Len(marks) - 1].plain, out)

\* The bits of a token at p.
Spells(q, p, bits) ==
    p + Len(bits) <= Len(q) /\ \A i \in 1..Len(bits) : q[p + i] = bits[i]

\* Between two marks a packet has one token, which takes the server from the one
\* to the other.
LiteralBetween(q, m, n, b) ==
    /\ m.off < HistorySize
    /\ Spells(q, m.at, LiteralBits(b))
    /\ n = [at |-> m.at + Len(LiteralBits(b)), plain |-> Append(m.plain, b),
            hist |-> [m.hist EXCEPT ![m.off] = b], off |-> m.off + 1]
CopyBetween(q, m, n, o, l) ==
    /\ m.off + l <= HistorySize
    /\ Spells(q, m.at, CopyBits(o, l))
    /\ n = [at |-> m.at + Len(CopyBits(o, l)), plain |-> m.plain \o Match(m.hist, m.off, o, l),
            hist |-> Matched(m.hist, m.off, o, l), off |-> m.off + l]
TokenBetween(q, m, n) ==
    \/ \E b \in Alphabet : LiteralBetween(q, m, n, b)
    \/ \E o \in Offsets, l \in Lengths : CopyBetween(q, m, n, o, l)

MarksKept ==
    /\ marks # <<>> /\ marks[1].at = 0 /\ marks[1].plain = <<>>
    /\ Last(marks).plain = plain /\ Last(marks).hist = sHist /\ Last(marks).off = sOffset

\* A compressed packet, but for what is cut off, is the tokens between the marks;
\* less than a byte of padding follows.
TokensSpelled ==
    stage # "idle" /\ flags.compressed =>
        /\ \A k \in 1..(Len(marks) - 1 - cut) : TokenBetween(packet, marks[k], marks[k + 1])
        /\ stage = "building" =>
            /\ Last(marks).at = Len(packet)
            /\ \A k \in 1..(Len(marks) - 1) : marks[k].at + ByteBits <= Len(packet)
        /\ stage = "decoding" /\ cut = 0 => Len(packet) - Last(marks).at \in 0..ByteBits - 1

\* A packet sent as it is spells its bytes and leaves the server's history alone.
BytesSpelled ==
    stage # "idle" /\ ~flags.compressed =>
        /\ sHist = marks[1].hist /\ sOffset = marks[1].off
        /\ Len(packet) = ByteBits * Len(plain)
        /\ \A i \in 1..Len(plain) :
            plain[i] < Pow2(ByteBits) /\ Spells(packet, (i - 1) * ByteBits, Bits(plain[i], ByteBits))

\* The flags of the packet take the client to the server's first mark.
AtStart ==
    /\ IF flags.flushed THEN marks[1].hist = Zeros ELSE history = marks[1].hist
    /\ IF flags.flushed \/ flags.at_front THEN marks[1].off = 0 ELSE offset = marks[1].off

AtMark(k) ==
    pos = marks[k].at /\ history = marks[k].hist /\ offset = marks[k].off /\ out = marks[k].plain

\* The client is at a mark, or past the last one before the cut.
OnTheWay ==
    \/ \E k \in 1..(Len(marks) - cut) : AtMark(k)
    \/ cut = 1 /\ IsPrefix(marks[Len(marks) - 1].plain, out)

InStep ==
    /\ stage = "idle" /\ ~astray => history = sHist /\ offset = sOffset
    /\ stage = "building" => cut = 0
    /\ stage = "building" /\ (astray => flags.flushed) => AtStart
    /\ stage # "building" => (astray <=> cut = 1 \/ strayed)
    /\ cut = 1 => Len(marks) > 1 /\ flags.compressed
    /\ stage = "decoding" /\ ~strayed =>
        IF flags.compressed THEN OnTheWay ELSE history = sHist /\ offset = sOffset

\* The inductive invariant.
MppcInv ==
    MppcTypeOK /\ WindowSafe /\ MarksKept /\ TokensSpelled /\ BytesSpelled /\ InStep

\* decompress() comes to an end, even when the wrapped bits_left() never again
\* says that the bits are used up.
Terminates == stage = "decoding" ~> stage = "idle"

=============================================================================
