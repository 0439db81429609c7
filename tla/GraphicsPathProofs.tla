-------------------------- MODULE GraphicsPathProofs --------------------------
(***************************************************************************)
(* Proofs about the way of an order stream to the order decoder.            *)
(*                                                                          *)
(* OrderPipeline, for every number of streams, fragments, updates and       *)
(* reactivations and every pair of streak limits: the updates fed to the    *)
(* bulk decompressor are those the server compressed, every completed       *)
(* stream is rendered once, whole and in order, and the streak counters     *)
(* give a desynced stream up exactly at its limit and within a bounded      *)
(* number of streams.                                                       *)
(*                                                                          *)
(* BulkDecompressor, for every history size, width of a byte, offset        *)
(* classes, alphabet, matches and numbers of packets and tokens: fed in     *)
(* step, decompress() gives back what was compressed.                       *)
(***************************************************************************)
EXTENDS OrderPipeline, BulkDecompressor, FiniteSetTheorems, SequenceTheorems,
        WellFoundedInduction, TLAPS

-----------------------------------------------------------------------------
(* Naturals *)

\* A nonempty set of naturals has a least element.
LEMMA LeastNat ==
  ASSUME NEW T, T \subseteq Nat, T # {}
  PROVE  \E x \in T : \A y \in T : x <= y
<1>1. \E x \in T : \A y \in T : ~ (<<y, x>> \in OpToRel(<, Nat))
  BY NatLessThanWellFounded, WFMin, Zenon DEF OpToRel
<1>2. PICK x \in T : \A y \in T : ~ (<<y, x>> \in OpToRel(<, Nat))
  BY <1>1, Zenon
<1>3. \A y \in T : ~(y < x)
  BY <1>2 DEF OpToRel
<1> QED
  BY <1>3

\* Induction up to N.
LEMMA UpTo ==
  ASSUME NEW N \in Nat, NEW T, 0 \in T, \A n \in 0..N : n < N /\ n \in T => n + 1 \in T
  PROVE  0..N \subseteq T
<1> SUFFICES ASSUME (0..N) \ T # {} PROVE FALSE
  OBVIOUS
<1> DEFINE U == (0..N) \ T
<1>1. PICK x \in U : \A y \in U : x <= y
  <2>1. U \subseteq Nat /\ U # {}
    OBVIOUS
  <2> HIDE DEF U
  <2> QED
    BY <2>1, LeastNat
<1>2. x # 0 /\ x - 1 \in 0..N /\ x - 1 \in T
  BY <1>1
<1> QED
  BY <1>1, <1>2

\* Quotient and remainder are the ones there are.
LEMMA DivMod ==
  ASSUME NEW q \in Int, NEW n \in Nat \ {0}, NEW r \in 0..n - 1
  PROVE  (q * n + r) \div n = q /\ (q * n + r) % n = r
<1> DEFINE m == q * n + r
<1>1. m \in Int /\ q * n \in Int
  OBVIOUS
<1>2. PICK k \in Int, j \in 0..n - 1 : k = m \div n /\ j = m % n /\ m = n * k + j
  <2> HIDE DEF m
  <2> QED
    BY <1>1
<1>3. n * (k - q) = r - j
  BY <1>2
<1>4. CASE k >= q + 1
  <2>1. n * (k - q) >= n
    BY <1>4
  <2> QED
    BY <1>3, <2>1
<1>5. CASE k <= q - 1
  <2>1. n * (q - k) >= n
    BY <1>5
  <2>2. n * (q - k) = j - r
    BY <1>3
  <2> QED
    BY <2>1, <2>2
<1>6. CASE k = q
  BY <1>2, <1>3, <1>6
<1> QED
  BY <1>4, <1>5, <1>6

\* Halving a quotient.
LEMMA HalfOfQuotient ==
  ASSUME NEW v \in Nat, NEW m \in Nat \ {0}
  PROVE  /\ v \div (2 * m) = (v \div m) \div 2
         /\ v \div m = 2 * (v \div (2 * m)) + ((v \div m) % 2)
<1>1. PICK q \in Int, r \in 0..m - 1 : v \div m = q /\ v = q * m + r
  OBVIOUS
<1>2. PICK k \in Int, j \in 0..1 : q \div 2 = k /\ q % 2 = j /\ q = 2 * k + j
  OBVIOUS
<1>3. PICK n \in Nat \ {0} : n = 2 * m
  OBVIOUS
<1>4. PICK s \in Int : s = j * m + r
  OBVIOUS
<1>5. s \in 0..n - 1
  <2>1. CASE j = 0
    BY <1>3, <1>4, <2>1
  <2>2. CASE j = 1
    BY <1>3, <1>4, <2>2
  <2> QED
    BY <2>1, <2>2
<1>6. v = k * n + s
  <2>1. q * m = 2 * k * m + j * m
    BY <1>2
  <2>2. k * n = 2 * k * m
    BY <1>3
  <2> QED
    BY <1>1, <1>4, <2>1, <2>2
<1>7. v \div n = k
  BY <1>5, <1>6, DivMod, Zenon
<1> QED
  BY <1>1, <1>2, <1>3, <1>7

-----------------------------------------------------------------------------
(* The bit reader *)

\* The values h that v takes as N bits from p are shifted in.
Shifts(h, v, q, p, N) ==
  h[0] = v /\ \A n \in 1..N : h[n] = 2 * h[n - 1] + Bit(q, p + n - 1)

\* Shifting goes through such values.
LEMMA ShiftedSteps ==
  ASSUME NEW v, NEW q, NEW p, NEW N \in Nat
  PROVE  \E h : Shifts(h, v, q, p, N) /\ Shifted(v, q, p, N) = h[N]
<1> DEFINE One(f, n) == IF n = 0 THEN v ELSE 2 * f[n - 1] + Bit(q, p + n - 1)
           Is(f, m) == f = [n \in 0..m |-> One(f, n)]
           T == {m \in 0..N : \E f : Is(f, m)}
<1>1. 0 \in T
  <2>1. Is([n \in 0..0 |-> v], 0)
    OBVIOUS
  <2>2. 0 \in 0..N
    OBVIOUS
  <2> HIDE DEF Is
  <2> QED
    BY <2>1, <2>2
<1>2. ASSUME NEW m \in 0..N, m < N, m \in T PROVE m + 1 \in T
  <2>1. PICK f : Is(f, m)
    BY <1>2
  <2> DEFINE g == [n \in 0..(m + 1) |-> IF n = m + 1 THEN One(f, n) ELSE f[n]]
  <2>2. ASSUME NEW n \in 0..(m + 1) PROVE g[n] = One(g, n)
    <3>1. CASE n = 0
      <4>1. g[0] = f[0] /\ f[0] = One(f, 0)
        BY <2>1
      <4> QED
        BY <3>1, <4>1
    <3>2. CASE n # 0
      <4>1. n - 1 \in 0..m /\ g[n - 1] = f[n - 1]
        BY <3>2
      <4>2. One(g, n) = One(f, n)
        BY <3>2, <4>1
      <4>3. g[n] = One(f, n)
        <5>1. f = [i \in 0..m |-> One(f, i)]
          BY <2>1
        <5> HIDE DEF One
        <5>2. CASE n = m + 1
          BY <5>2
        <5>3. CASE n # m + 1
          <6>1. n \in 0..m
            BY <5>3
          <6>2. g[n] = f[n]
            BY <5>3
          <6> QED
            BY <5>1, <6>1, <6>2
        <5> QED
          BY <5>2, <5>3
      <4> QED
        BY <4>2, <4>3
    <3> QED
      BY <3>1, <3>2
  <2>3. g = [n \in 0..(m + 1) |-> One(g, n)]
    BY <2>2
  <2>4. Is(g, m + 1)
    BY <2>3
  <2>5. m + 1 \in 0..N
    BY <1>2
  <2> HIDE DEF Is, g
  <2> QED
    BY <2>4, <2>5
<1>3. N \in T
  <2> HIDE DEF T
  <2>1. 0..N \subseteq T
    BY <1>1, <1>2, UpTo
  <2> QED
    BY <2>1
<1>4. \E f : f = [n \in 0..N |-> One(f, n)]
  BY <1>3
<1> DEFINE h == CHOOSE f : f = [n \in 0..N |-> One(f, n)]
<1>5. h = [n \in 0..N |-> One(h, n)]
  BY <1>4, Zenon
<1>6. Shifted(v, q, p, N) = h[N]
  BY DEF Shifted
<1> HIDE DEF h
<1>7. \A n \in 0..N : h[n] = One(h, n)
  <2> HIDE DEF One
  <2> QED
    BY <1>5
<1>8. Shifts(h, v, q, p, N)
  BY <1>7 DEF Shifts
<1> QED
  BY <1>6, <1>8

\* Whatever takes the same steps ends the same.
LEMMA ShiftedIs ==
  ASSUME NEW v, NEW q, NEW p, NEW N \in Nat, NEW g, Shifts(g, v, q, p, N)
  PROVE  Shifted(v, q, p, N) = g[N]
<1>1. PICK h : Shifts(h, v, q, p, N) /\ Shifted(v, q, p, N) = h[N]
  BY ShiftedSteps, Zenon
<1> DEFINE T == {n \in 0..N : g[n] = h[n]}
<1>2. 0 \in T
  BY <1>1 DEF Shifts
<1>3. ASSUME NEW n \in 0..N, n < N, n \in T PROVE n + 1 \in T
  <2>1. PICK k \in 1..N : k = n + 1 /\ k - 1 = n
    BY <1>3
  <2>2. g[k] = h[k]
    BY <1>1, <1>3, <2>1 DEF Shifts
  <2> QED
    BY <2>1, <2>2
<1>4. N \in T
  <2> HIDE DEF T
  <2>1. 0..N \subseteq T
    BY <1>2, <1>3, UpTo
  <2> QED
    BY <2>1
<1> QED
  BY <1>1, <1>4

\* A bit read is 0 or 1.
LEMMA BitIsBit ==
  ASSUME NEW q \in Seq({0, 1}), NEW p \in Nat
  PROVE  Bit(q, p) \in {0, 1}
BY DEF Bit

\* Shifting keeps naturals natural.
LEMMA ShiftedNat ==
  ASSUME NEW v \in Nat, NEW q \in Seq({0, 1}), NEW p \in Nat, NEW N \in Nat
  PROVE  Shifted(v, q, p, N) \in Nat /\ Shifted(v, q, p, N) >= v
<1>1. PICK h : Shifts(h, v, q, p, N) /\ Shifted(v, q, p, N) = h[N]
  BY ShiftedSteps, Zenon
<1> DEFINE T == {n \in 0..N : h[n] \in Nat /\ h[n] >= v}
<1>2. 0 \in T
  BY <1>1 DEF Shifts
<1>3. ASSUME NEW n \in 0..N, n < N, n \in T PROVE n + 1 \in T
  <2>1. PICK k \in 1..N : k = n + 1 /\ k - 1 = n
    BY <1>3
  <2>2. Bit(q, p + k - 1) \in {0, 1}
    <3>1. p + k - 1 \in Nat
      OBVIOUS
    <3> QED
      BY <3>1, BitIsBit
  <2>3. h[k] = 2 * h[n] + Bit(q, p + k - 1)
    BY <1>1, <2>1 DEF Shifts
  <2>4. h[k] \in Nat /\ h[k] >= v
    BY <1>3, <2>2, <2>3
  <2> QED
    BY <2>1, <2>4
<1>4. N \in T
  <2> HIDE DEF T
  <2>1. 0..N \subseteq T
    BY <1>2, <1>3, UpTo
  <2> QED
    BY <2>1
<1> QED
  BY <1>1, <1>4

\* Powers of two.
LEMMA Pow2Steps ==
  /\ Pow2(0) = 1
  /\ \A n \in Nat : Pow2(n) \in Nat \ {0} /\ Pow2(n + 1) = 2 * Pow2(n)
<1>1. \A k \in Nat : Bit(<<>>, k) = 0
  BY DEF Bit
<1>2. Pow2(0) = 1
  <2>1. 0 \in Nat
    OBVIOUS
  <2>2. PICK h : Shifts(h, 1, <<>>, 0, 0) /\ Shifted(1, <<>>, 0, 0) = h[0]
    BY <2>1, ShiftedSteps, Zenon
  <2> QED
    BY <2>2 DEF Pow2, Shifts
<1>3. ASSUME NEW n \in Nat PROVE Pow2(n) \in Nat \ {0} /\ Pow2(n + 1) = 2 * Pow2(n)
  <2>1. PICK m \in Nat : m = n + 1 /\ m - 1 = n /\ m \in 1..m /\ 1..n \subseteq 1..m
    OBVIOUS
  <2>2. PICK h : Shifts(h, 1, <<>>, 0, m) /\ Shifted(1, <<>>, 0, m) = h[m]
    BY ShiftedSteps, Zenon
  <2>3. Shifted(1, <<>>, 0, n) = h[n]
    <3>1. Shifts(h, 1, <<>>, 0, n)
      BY <2>1, <2>2 DEF Shifts
    <3> QED
      BY <3>1, ShiftedIs, Zenon
  <2>4. Shifted(1, <<>>, 0, n) \in Nat /\ Shifted(1, <<>>, 0, n) >= 1
    <3>1. <<>> \in Seq({0, 1}) /\ 0 \in Nat /\ 1 \in Nat
      OBVIOUS
    <3> QED
      BY <3>1, ShiftedNat
  <2>5. Bit(<<>>, 0 + m - 1) = 0
    <3>1. 0 + m - 1 \in Nat
      BY <2>1
    <3> QED
      BY <1>1, <3>1
  <2>6. h[m] = 2 * h[n] + 0
    BY <2>1, <2>2, <2>5 DEF Shifts
  <2> QED
    BY <2>1, <2>2, <2>3, <2>4, <2>6 DEF Pow2
<1> QED
  BY <1>2, <1>3

\* Pow2(0) is 1, and a greater exponent doubles.
LEMMA Pow2Nat == \A n \in Nat : Pow2(n) \in Nat \ {0}
BY Pow2Steps

\* The bits of a number below 2^n read back as the number.
LEMMA ReadsBack ==
  ASSUME NEW n \in Nat, NEW v \in Nat, v < Pow2(n), NEW q, NEW p \in Nat,
         \A i \in 1..n : Bit(q, p + i - 1) = Bits(v, n)[i]
  PROVE  ReadBits(q, p, n) = v
<1> DEFINE g == [k \in 0..n |-> v \div Pow2(n - k)]
<1>1. g[0] = 0
  <2>1. PICK m \in Nat \ {0} : m = Pow2(n)
    BY Pow2Nat
  <2>2. v \div m = 0
    BY <2>1
  <2>3. g[0] = v \div Pow2(n)
    OBVIOUS
  <2> QED
    BY <2>1, <2>2, <2>3
<1>2. g[n] = v
  <2>1. g[n] = v \div Pow2(0)
    OBVIOUS
  <2>2. Pow2(0) = 1
    BY Pow2Steps
  <2> QED
    BY <2>1, <2>2
<1>3. ASSUME NEW k \in 1..n PROVE g[k] = 2 * g[k - 1] + Bit(q, p + k - 1)
  <2>1. PICK j \in Nat : j = n - k /\ j + 1 = n - (k - 1)
    OBVIOUS
  <2>2. PICK m \in Nat \ {0} : m = Pow2(j)
    BY Pow2Nat
  <2>3. Pow2(j + 1) = 2 * m
    BY <2>2, Pow2Steps
  <2>4. v \div m = 2 * (v \div (2 * m)) + ((v \div m) % 2)
    BY HalfOfQuotient
  <2>5. g[k] = v \div m
    BY <2>1, <2>2
  <2>6. g[k - 1] = v \div (2 * m)
    BY <2>1, <2>3
  <2>7. Bits(v, n)[k] = (v \div m) % 2
    BY <2>1, <2>2 DEF Bits
  <2> HIDE DEF g
  <2> QED
    BY <2>4, <2>5, <2>6, <2>7
<1> HIDE DEF g
<1>4. Shifted(0, q, p, n) = g[n]
  <2>1. Shifts(g, 0, q, p, n)
    BY <1>1, <1>3 DEF Shifts
  <2> QED
    BY <2>1, ShiftedIs, ZenonT(60)
<1> QED
  BY <1>2, <1>4 DEF ReadBits

\* Bits are bits.
LEMMA BitsAreBits ==
  ASSUME NEW n \in Nat, NEW v \in Nat
  PROVE  Bits(v, n) \in Seq({0, 1}) /\ Len(Bits(v, n)) = n
<1>1. ASSUME NEW i \in 1..n PROVE (v \div Pow2(n - i)) % 2 \in {0, 1}
  <2>1. PICK m \in Nat \ {0} : m = Pow2(n - i)
    <3>1. n - i \in Nat
      OBVIOUS
    <3> QED
      BY <3>1, Pow2Nat
  <2>2. v \div m \in Int
    OBVIOUS
  <2> QED
    BY <2>1, <2>2
<1>2. Bits(v, n) \in [1..n -> {0, 1}]
  BY <1>1 DEF Bits
<1> QED
  BY <1>2

-----------------------------------------------------------------------------
(* The tokens *)

\* A token of a packet is what the bit reader sees.
LEMMA SpellsBits ==
  ASSUME NEW q \in Seq({0, 1}), NEW p \in Nat, NEW bits \in Seq({0, 1}), Spells(q, p, bits)
  PROVE  \A i \in 1..Len(bits) : Bit(q, p + i - 1) = bits[i]
<1> SUFFICES ASSUME NEW i \in 1..Len(bits) PROVE Bit(q, p + i - 1) = bits[i]
  OBVIOUS
<1>1. p + i - 1 < Len(q) /\ p + i - 1 + 1 = p + i
  BY DEF Spells
<1>2. q[p + i] = bits[i]
  BY DEF Spells
<1> QED
  BY <1>1, <1>2 DEF Bit

\* The first part of what is spelled, and the rest.
LEMMA SpellsParts ==
  ASSUME NEW q \in Seq({0, 1}), NEW p \in Nat, NEW a \in Seq({0, 1}), NEW b \in Seq({0, 1}),
         Spells(q, p, a \o b)
  PROVE  Spells(q, p, a) /\ Spells(q, p + Len(a), b)
<1>1. Len(a \o b) = Len(a) + Len(b) /\ Len(a) \in Nat /\ Len(b) \in Nat /\ Len(q) \in Nat
  OBVIOUS
<1>2. \A i \in 1..Len(a) : (a \o b)[i] = a[i] /\ i \in 1..Len(a \o b)
  BY <1>1
<1>3. \A i \in 1..Len(b) : (a \o b)[Len(a) + i] = b[i] /\ Len(a) + i \in 1..Len(a \o b)
  BY <1>1
<1>4. Spells(q, p, a)
  BY <1>1, <1>2 DEF Spells
<1>5. ASSUME NEW i \in 1..Len(b) PROVE q[p + Len(a) + i] = b[i]
  <2>1. PICK k \in 1..Len(a \o b) : k = Len(a) + i
    BY <1>3
  <2>2. q[p + k] = (a \o b)[k]
    BY DEF Spells
  <2>3. p + k = p + Len(a) + i
    BY <1>1, <2>1
  <2> QED
    BY <1>3, <2>1, <2>2, <2>3
<1>6. p + Len(a) + Len(b) <= Len(q)
  BY <1>1 DEF Spells
<1> QED
  BY <1>4, <1>5, <1>6 DEF Spells

\* A number spelled in a packet is read back.
LEMMA ReadsSpelled ==
  ASSUME NEW n \in Nat, NEW v \in Nat, v < Pow2(n), NEW q \in Seq({0, 1}), NEW p \in Nat,
         Spells(q, p, Bits(v, n))
  PROVE  ReadBits(q, p, n) = v
<1>1. Bits(v, n) \in Seq({0, 1}) /\ Len(Bits(v, n)) = n
  BY BitsAreBits
<1>2. \A i \in 1..n : Bit(q, p + i - 1) = Bits(v, n)[i]
  BY <1>1, SpellsBits
<1> QED
  BY <1>2, ReadsBack

\* A single bit of a token.
LEMMA SpellsOne ==
  ASSUME NEW q \in Seq({0, 1}), NEW p \in Nat, NEW b \in {0, 1}, Spells(q, p, <<b>>)
  PROVE  Bit(q, p) = b
<1>1. <<b>> \in Seq({0, 1}) /\ Len(<<b>>) = 1 /\ <<b>>[1] = b /\ p + 1 - 1 = p /\ 1 \in 1..Len(<<b>>)
  OBVIOUS
<1>2. \A i \in 1..Len(<<b>>) : Bit(q, p + i - 1) = <<b>>[i]
  BY <1>1, SpellsBits
<1> QED
  BY <1>1, <1>2

\* A run of ones.
LEMMA SpellsOnes ==
  ASSUME NEW q \in Seq({0, 1}), NEW p \in Nat, NEW n \in Nat, Spells(q, p, Ones(n))
  PROVE  \A j \in 0..n - 1 : Bit(q, p + j) = 1
<1>1. Ones(n) \in Seq({0, 1}) /\ Len(Ones(n)) = n /\ \A i \in 1..n : Ones(n)[i] = 1
  BY DEF Ones
<1>2. \A i \in 1..n : Bit(q, p + i - 1) = 1
  <2>1. \A i \in 1..Len(Ones(n)) : Bit(q, p + i - 1) = Ones(n)[i]
    BY <1>1, SpellsBits
  <2> QED
    BY <1>1, <2>1
<1>3. ASSUME NEW j \in 0..n - 1 PROVE Bit(q, p + j) = 1
  <2>1. PICK i \in 1..n : i = j + 1 /\ p + i - 1 = p + j
    OBVIOUS
  <2> QED
    BY <1>2, <2>1
<1> QED
  BY <1>3

\* Runs of ones are bits.
LEMMA OnesAreBits ==
  ASSUME NEW n \in Nat
  PROVE  Ones(n) \in Seq({0, 1}) /\ Len(Ones(n)) = n
BY DEF Ones

\* A literal is as long as a byte or one bit longer, and reads back.
LiteralRead(q, p, b) ==
  \/ Bit(q, p) = 0 /\ ReadBits(q, p + 1, LitBits) = b /\ Len(LiteralBits(b)) = 1 + LitBits
  \/ /\ Bit(q, p) = 1 /\ Bit(q, p + 1) = 0 /\ Pow2(LitBits) + ReadBits(q, p + 2, LitBits) = b
     /\ Len(LiteralBits(b)) = 2 + LitBits

\* The bits of a literal.
LEMMA LiteralBitsAreBits ==
  ASSUME NEW b \in Alphabet
  PROVE  /\ LiteralBits(b) \in Seq({0, 1}) /\ Len(LiteralBits(b)) >= ByteBits
         /\ b \in Nat /\ b < Pow2(LitBits) => Len(LiteralBits(b)) = 1 + LitBits
         /\ ~(b < Pow2(LitBits)) => /\ Len(LiteralBits(b)) = 2 + LitBits
                                    /\ b - Pow2(LitBits) \in Nat /\ b - Pow2(LitBits) < Pow2(LitBits)
<1>1. LitBits \in Nat /\ LitBits + 1 = ByteBits
  BY SizesAssumption DEF LitBits
<1>2. PICK m \in Nat \ {0} : m = Pow2(LitBits) /\ Pow2(ByteBits) = 2 * m
  BY <1>1, Pow2Steps
<1>3. b \in Nat /\ b < 2 * m
  BY <1>2, AlphabetAssumption
<1>4. CASE b < m
  <2>1. Bits(b, LitBits) \in Seq({0, 1}) /\ Len(Bits(b, LitBits)) = LitBits
    BY <1>1, <1>3, BitsAreBits
  <2>2. LiteralBits(b) = <<0>> \o Bits(b, LitBits)
    BY <1>2, <1>4 DEF LiteralBits
  <2> QED
    BY <1>1, <1>2, <1>3, <1>4, <2>1, <2>2
<1>5. CASE ~(b < m)
  <2>1. PICK c \in Nat : c = b - m
    BY <1>3, <1>5
  <2>2. Bits(c, LitBits) \in Seq({0, 1}) /\ Len(Bits(c, LitBits)) = LitBits
    BY <1>1, <1>3, BitsAreBits
  <2>3. LiteralBits(b) = <<1, 0>> \o Bits(c, LitBits)
    BY <1>2, <1>5, <2>1 DEF LiteralBits
  <2> QED
    BY <1>1, <1>2, <1>3, <1>5, <2>1, <2>2, <2>3
<1> QED
  BY <1>4, <1>5

\* A literal reads back.
LEMMA LiteralDecodes ==
  ASSUME NEW b \in Alphabet, NEW q \in Seq({0, 1}), NEW p \in Nat, Spells(q, p, LiteralBits(b))
  PROVE  LiteralRead(q, p, b)
<1>1. LitBits \in Nat /\ LitBits + 1 = ByteBits
  BY SizesAssumption DEF LitBits
<1>2. PICK m \in Nat \ {0} : m = Pow2(LitBits)
  BY <1>1, Pow2Nat
<1>3. CASE b < m
  <2>1. b \in Nat /\ Len(LiteralBits(b)) = 1 + LitBits
    BY <1>2, <1>3, LiteralBitsAreBits, AlphabetAssumption
  <2>2. Bits(b, LitBits) \in Seq({0, 1}) /\ <<0>> \in Seq({0, 1}) /\ Len(<<0>>) = 1
    BY <1>1, <2>1, BitsAreBits
  <2>3. LiteralBits(b) = <<0>> \o Bits(b, LitBits)
    BY <1>2, <1>3 DEF LiteralBits
  <2>4. Spells(q, p, <<0>>) /\ Spells(q, p + Len(<<0>>), Bits(b, LitBits))
    BY <2>2, <2>3, SpellsParts
  <2>5. Bit(q, p) = 0
    BY <2>4, SpellsOne
  <2>6. ReadBits(q, p + 1, LitBits) = b
    <3>1. p + 1 \in Nat /\ Spells(q, p + 1, Bits(b, LitBits)) /\ b < Pow2(LitBits)
      BY <1>2, <1>3, <2>2, <2>4
    <3> QED
      BY <1>1, <2>1, <3>1, ReadsSpelled
  <2> QED
    BY <2>1, <2>5, <2>6 DEF LiteralRead
<1>4. CASE ~(b < m)
  <2>1. PICK c \in Nat : c = b - m /\ c < m /\ b = m + c /\ Len(LiteralBits(b)) = 2 + LitBits
    <3>1. b - m \in Nat /\ b - m < m /\ Len(LiteralBits(b)) = 2 + LitBits /\ b \in Nat
      BY <1>2, <1>4, LiteralBitsAreBits, AlphabetAssumption
    <3> QED
      BY <3>1
  <2>2. Bits(c, LitBits) \in Seq({0, 1}) /\ <<1, 0>> \in Seq({0, 1}) /\ Len(<<1, 0>>) = 2
    BY <1>1, <2>1, BitsAreBits
  <2>3. LiteralBits(b) = <<1, 0>> \o Bits(c, LitBits)
    BY <1>2, <1>4, <2>1 DEF LiteralBits
  <2>4. Spells(q, p, <<1, 0>>) /\ Spells(q, p + Len(<<1, 0>>), Bits(c, LitBits))
    BY <2>2, <2>3, SpellsParts
  <2>5. Bit(q, p) = 1 /\ Bit(q, p + 1) = 0
    <3>1. \A i \in 1..2 : Bit(q, p + i - 1) = <<1, 0>>[i]
      BY <2>2, <2>4, SpellsBits
    <3>2. p + 1 - 1 = p /\ p + 2 - 1 = p + 1
      OBVIOUS
    <3> QED
      BY <3>1, <3>2
  <2>6. ReadBits(q, p + 2, LitBits) = c
    <3>1. p + 2 \in Nat /\ Spells(q, p + 2, Bits(c, LitBits)) /\ c < Pow2(LitBits)
      BY <1>2, <2>1, <2>2, <2>4
    <3> QED
      BY <1>1, <2>1, <3>1, ReadsSpelled
  <2> QED
    BY <1>2, <2>1, <2>5, <2>6 DEF LiteralRead
<1> QED
  BY <1>3, <1>4

\* The least element of a set.
LEMMA MinIs ==
  ASSUME NEW S \in SUBSET Int, NEW x \in S, \A y \in S : x <= y
  PROVE  Min(S) = x
<1>1. PICK z : z = Min(S)
  OBVIOUS
<1>2. \E y \in S : \A w \in S : y =< w
  OBVIOUS
<1>3. z \in S /\ \A y \in S : z =< y
  BY <1>1, <1>2, Zenon DEF Min
<1> QED
  BY <1>1, <1>3

\* The class the server picks for an offset.
LEMMA ClassIs ==
  ASSUME NEW o \in Offsets
  PROVE  /\ ClassOf(o) \in 1..Len(Classes) /\ InClass(o, ClassOf(o))
         /\ Len(Classes) \in Nat \ {0} /\ o \in Nat \ {0}
         /\ Classes[ClassOf(o)].bits \in Nat /\ Classes[ClassOf(o)].base \in Nat
         /\ Classes[ClassOf(o)].bits + 2 >= ByteBits
<1>1. \E k \in DOMAIN Classes : InClass(o, k)
  BY MatchAssumption, Zenon
<1>2. ClassOf(o) \in DOMAIN Classes /\ InClass(o, ClassOf(o))
  BY <1>1, Zenon DEF ClassOf
<1>3. Len(Classes) \in Nat \ {0} /\ DOMAIN Classes = 1..Len(Classes)
  BY ClassesAssumption
<1>4. o \in Nat \ {0}
  BY MatchAssumption, SizesAssumption
<1>5. PICK k \in 1..Len(Classes) : k = ClassOf(o)
  BY <1>2, <1>3
<1>6. Classes[k] \in [bits : Nat, base : Nat] /\ Classes[k].bits + 2 >= ByteBits
  <2>1. Classes \in Seq([bits : Nat, base : Nat])
    BY ClassesAssumption, Zenon
  <2>2. Classes[k] \in [bits : Nat, base : Nat]
    BY <2>1, ElementOfSeq, Zenon
  <2>3. Classes[k].bits + 2 >= ByteBits
    BY <1>3, ClassesAssumption, Zenon
  <2> QED
    BY <2>2, <2>3
<1> QED
  BY <1>2, <1>3, <1>4, <1>5, <1>6

\* The code of a class.
LEMMA ClassBitsAreBits ==
  ASSUME NEW k \in 1..Len(Classes)
  PROVE  /\ ClassBits(k) \in Seq({0, 1})
         /\ k < Len(Classes) => Len(ClassBits(k)) = k
         /\ ~(k < Len(Classes)) => Len(ClassBits(k)) = k - 1
<1>1. Len(Classes) \in Nat
  BY ClassesAssumption
<1>2. PICK n \in Nat : n = k - 1
  BY <1>1
<1>3. Ones(n) \in Seq({0, 1}) /\ Len(Ones(n)) = n
  BY OnesAreBits
<1>4. PICK s \in Seq({0, 1}) : s = Ones(k - 1) /\ Len(s) = k - 1
  BY <1>2, <1>3
<1>5. s \o <<0>> \in Seq({0, 1}) /\ Len(s \o <<0>>) = k
  BY <1>1, <1>4
<1>6. CASE k < Len(Classes)
  BY <1>4, <1>5, <1>6 DEF ClassBits
<1>7. CASE ~(k < Len(Classes))
  BY <1>4, <1>7 DEF ClassBits
<1> QED
  BY <1>6, <1>7

\* The class read is the class written.
LEMMA ClassDecodes ==
  ASSUME NEW q \in Seq({0, 1}), NEW p \in Nat, NEW k \in 1..Len(Classes), Spells(q, p, ClassBits(k))
  PROVE  ReadClass(q, p) = k
<1>1. PICK last \in Nat : last = Len(Classes) /\ k \in 1..last
  BY ClassesAssumption
<1>2. PICK n \in Nat : n = k - 1
  BY <1>1
<1>3. Ones(n) \in Seq({0, 1}) /\ Len(Ones(n)) = n /\ <<0>> \in Seq({0, 1})
  BY OnesAreBits
<1>4. Spells(q, p, Ones(n)) /\ (k < last => Spells(q, p + n, <<0>>))
  <2>1. CASE k < last
    <3>1. Spells(q, p, Ones(n) \o <<0>>)
      BY <1>1, <1>2, <2>1 DEF ClassBits
    <3>2. Spells(q, p, Ones(n)) /\ Spells(q, p + Len(Ones(n)), <<0>>)
      BY <1>3, <3>1, SpellsParts
    <3> QED
      BY <1>3, <3>2
  <2>2. CASE ~(k < last)
    BY <1>1, <1>2, <2>2 DEF ClassBits
  <2> QED
    BY <2>1, <2>2
<1>5. \A j \in 0..n - 1 : Bit(q, p + j) = 1
  BY <1>4, SpellsOnes
<1>6. PICK zeros : zeros = {j \in 1..(last - 1) : Bit(q, p + j - 1) = 0}
  OBVIOUS
<1>7. ASSUME NEW j \in zeros PROVE j \in Int /\ k <= j /\ j < last
  <2>1. j \in 1..(last - 1) /\ Bit(q, p + j - 1) = 0
    BY <1>6
  <2>2. PICK i \in Nat : i = j - 1 /\ p + i = p + j - 1
    BY <2>1
  <2>3. ~(i \in 0..n - 1)
    <3>1. Bit(q, p + i) = 0
      BY <2>1, <2>2
    <3> QED
      BY <1>5, <3>1
  <2> QED
    BY <1>1, <1>2, <2>1, <2>2, <2>3
<1>8. zeros \in SUBSET Int
  BY <1>7
<1>9. ReadClass(q, p) = IF zeros # {} THEN Min(zeros) ELSE last
  BY <1>1, <1>6, Zenon DEF ReadClass
<1>10. CASE k < last
  <2>1. Bit(q, p + n) = 0
    <3>1. p + n \in Nat
      OBVIOUS
    <3> QED
      BY <1>4, <1>10, <3>1, SpellsOne
  <2>2. k \in zeros
    <3>1. p + n = p + k - 1 /\ k \in 1..(last - 1)
      BY <1>1, <1>2, <1>10
    <3> QED
      BY <1>6, <2>1, <3>1
  <2>3. Min(zeros) = k
    BY <1>7, <1>8, <2>2, MinIs
  <2> QED
    BY <1>9, <2>2, <2>3
<1>11. CASE ~(k < last)
  <2>1. k = last
    BY <1>1, <1>11
  <2>2. zeros = {}
    BY <1>7, <2>1
  <2> QED
    BY <1>9, <2>1, <2>2
<1> QED
  BY <1>10, <1>11

\* An offset's code: its class, and the w bits of v above the class's base.
OffsetMade(o, k, w, base, v) ==
  /\ w = Classes[k].bits /\ base = Classes[k].base /\ v + base = o /\ v < Pow2(w) /\ w + 2 >= ByteBits
  /\ OffsetBits(o) = ClassBits(k) \o Bits(v, w)

\* Every offset the server uses has such a code.
LEMMA OffsetParts ==
  ASSUME NEW o \in Offsets
  PROVE  \E k \in 1..Len(Classes), w \in Nat, base \in Nat, v \in Nat : OffsetMade(o, k, w, base, v)
<1>1. PICK k \in 1..Len(Classes) : k = ClassOf(o)
  BY ClassIs
<1>2. InClass(o, k) /\ o \in Nat
  BY <1>1, ClassIs
<1>3. PICK w \in Nat, base \in Nat : w = Classes[k].bits /\ base = Classes[k].base /\ w + 2 >= ByteBits
  BY <1>1, ClassIs
<1>4. PICK v \in Nat : v + base = o /\ v = o - base /\ v < Pow2(w)
  <2>1. Pow2(w) \in Nat
    BY Pow2Nat
  <2>2. base <= o /\ o < base + Pow2(w)
    BY <1>2, <1>3 DEF InClass
  <2> QED
    BY <1>2, <2>1, <2>2
<1>5. OffsetBits(o) = ClassBits(k) \o Bits(v, w)
  BY <1>1, <1>3, <1>4, Zenon DEF OffsetBits
<1>6. OffsetMade(o, k, w, base, v)
  BY <1>3, <1>4, <1>5 DEF OffsetMade
<1> QED
  BY <1>6

\* The bits of an offset, no fewer than make a byte after the two of a copy.
LEMMA OffsetBitsAreBits ==
  ASSUME NEW o \in Offsets
  PROVE  OffsetBits(o) \in Seq({0, 1}) /\ Len(OffsetBits(o)) + 2 >= ByteBits
<1>1. PICK k \in 1..Len(Classes), w \in Nat, base \in Nat, v \in Nat : OffsetMade(o, k, w, base, v)
  BY OffsetParts, Zenon
<1>2. PICK head \in Seq({0, 1}) : head = ClassBits(k)
  BY ClassBitsAreBits
<1>3. PICK tail \in Seq({0, 1}) : tail = Bits(v, w) /\ Len(tail) = w
  BY BitsAreBits
<1>4. OffsetBits(o) = head \o tail /\ w + 2 >= ByteBits
  BY <1>1, <1>2, <1>3 DEF OffsetMade
<1>5. head \o tail \in Seq({0, 1}) /\ Len(head \o tail) >= w /\ Len(head \o tail) \in Nat
  BY <1>3
<1>6. ByteBits \in Nat
  BY SizesAssumption
<1> QED
  BY <1>4, <1>5, <1>6

\* An offset reads back.
LEMMA OffsetDecodes ==
  ASSUME NEW o \in Offsets, NEW q \in Seq({0, 1}), NEW p \in Nat, Spells(q, p, OffsetBits(o))
  PROVE  DecodeOffset(q, p) = [v |-> o, next |-> p + Len(OffsetBits(o))]
<1>1. PICK k \in 1..Len(Classes), w \in Nat, base \in Nat, v \in Nat : OffsetMade(o, k, w, base, v)
  BY OffsetParts, Zenon
<1>2. PICK head \in Seq({0, 1}) : /\ head = ClassBits(k)
                                  /\ k < Len(Classes) => Len(head) = k
                                  /\ ~(k < Len(Classes)) => Len(head) = k - 1
  BY ClassBitsAreBits
<1>3. PICK tail \in Seq({0, 1}) : tail = Bits(v, w) /\ Len(tail) = w
  BY BitsAreBits
<1>4. PICK at \in Nat : at = p + Len(head)
  OBVIOUS
<1>5. OffsetBits(o) = head \o tail
  BY <1>1, <1>2, <1>3 DEF OffsetMade
<1>6. p + Len(OffsetBits(o)) = at + w
  <2>1. Len(head \o tail) = Len(head) + Len(tail)
    OBVIOUS
  <2>2. Len(OffsetBits(o)) = Len(head) + w
    BY <1>3, <1>5, <2>1
  <2> QED
    BY <1>4, <2>2
<1>7. Spells(q, p, head) /\ Spells(q, at, tail)
  <2>1. Spells(q, p, head \o tail)
    BY <1>5
  <2> QED
    BY <1>4, <2>1, SpellsParts
<1>8. ReadBits(q, at, w) = v
  <2>1. Spells(q, at, Bits(v, w)) /\ v < Pow2(w)
    BY <1>1, <1>3, <1>7 DEF OffsetMade
  <2> QED
    BY <2>1, ReadsSpelled
<1>9. ReadClass(q, p) = k
  BY <1>2, <1>7, ClassDecodes
<1>10. at = IF k < Len(Classes) THEN p + k ELSE p + k - 1
  <2>1. k \in Nat
    BY ClassesAssumption
  <2> QED
    BY <1>2, <1>4, <2>1
<1>11. DecodeOffset(q, p) = [v |-> ReadBits(q, at, Classes[k].bits) + Classes[k].base,
                             next |-> at + Classes[k].bits]
  BY <1>9, <1>10, Zenon DEF DecodeOffset
<1>12. Classes[k].bits = w /\ Classes[k].base = base /\ v + base = o
  BY <1>1 DEF OffsetMade
<1> QED
  BY <1>6, <1>8, <1>11, <1>12

\* A length's code: three, or n ones, a zero and the n + 1 bits of v.
LengthMade(l, n, v) ==
  /\ v + Pow2(n + 1) = l /\ v < Pow2(n + 1)
  /\ LengthBits(l) = Ones(n) \o <<0>> \o Bits(v, n + 1)

\* Every length the server uses has such a code.
LEMMA LengthParts ==
  ASSUME NEW l \in Lengths
  PROVE  \/ l = 3 /\ LengthBits(l) = <<0>>
         \/ \E n \in 1..(MaxOnes - 1), v \in Nat : LengthMade(l, n, v)
<1>1. CASE l = 3
  BY <1>1 DEF LengthBits
<1>2. CASE l # 3
  <2>1. \E n \in 1..(MaxOnes - 1) : HasOnes(l, n)
    BY <1>2, MatchAssumption
  <2> DEFINE N == CHOOSE k \in 1..(MaxOnes - 1) : HasOnes(l, k)
  <2>2. N \in 1..(MaxOnes - 1) /\ HasOnes(l, N)
    BY <2>1, Zenon
  <2>3. LengthBits(l) = Ones(N) \o <<0>> \o Bits(l - Pow2(N + 1), N + 1)
    BY <1>2, Zenon DEF LengthBits
  <2> HIDE DEF N
  <2>4. PICK n \in 1..(MaxOnes - 1) : n = N
    BY <2>2
  <2>5. l \in Nat /\ MaxOnes \in Nat
    BY MatchAssumption, SizesAssumption
  <2>6. PICK m \in Nat : m = Pow2(n + 1) /\ Pow2(n + 2) = 2 * m
    <3>1. PICK j \in Nat : j = n + 1 /\ j + 1 = n + 2
      BY <2>5
    <3>2. Pow2(j) \in Nat /\ Pow2(j + 1) = 2 * Pow2(j)
      BY Pow2Steps
    <3> QED
      BY <3>1, <3>2
  <2>7. m <= l /\ l < 2 * m
    BY <2>2, <2>4, <2>6 DEF HasOnes
  <2>8. PICK v \in Nat : v = l - m /\ v + m = l /\ v < m
    BY <2>5, <2>7
  <2>9. LengthMade(l, n, v)
    BY <2>3, <2>4, <2>6, <2>8 DEF LengthMade
  <2> QED
    BY <2>9
<1> QED
  BY <1>1, <1>2

\* The bits of a length.
LEMMA LengthBitsAreBits ==
  ASSUME NEW l \in Lengths
  PROVE  LengthBits(l) \in Seq({0, 1})
<1>1. <<0>> \in Seq({0, 1}) /\ MaxOnes \in Nat
  BY SizesAssumption
<1>2. ASSUME NEW n \in 1..(MaxOnes - 1), NEW v \in Nat, LengthMade(l, n, v)
      PROVE  LengthBits(l) \in Seq({0, 1})
  <2>1. n \in Nat /\ n + 1 \in Nat
    BY <1>1
  <2>2. Ones(n) \in Seq({0, 1}) /\ Bits(v, n + 1) \in Seq({0, 1})
    BY <2>1, OnesAreBits, BitsAreBits
  <2>3. LengthBits(l) = Ones(n) \o <<0>> \o Bits(v, n + 1)
    BY <1>2 DEF LengthMade
  <2> QED
    BY <1>1, <2>2, <2>3
<1> QED
  BY <1>1, <1>2, LengthParts

\* The ones read are the ones written.
LEMMA OnesDecode ==
  ASSUME NEW q \in Seq({0, 1}), NEW p \in Nat, NEW n \in 0..(MaxOnes - 1),
         \A j \in 0..n - 1 : Bit(q, p + j) = 1, Bit(q, p + n) = 0
  PROVE  ReadOnes(q, p) = n
<1>1. MaxOnes \in Nat
  BY SizesAssumption
<1>2. PICK zeros : zeros = {j \in 0..(MaxOnes - 1) : Bit(q, p + j) = 0}
  OBVIOUS
<1>3. n \in zeros /\ zeros \in SUBSET Int
  BY <1>1, <1>2
<1>4. \A j \in zeros : n <= j
  <2> SUFFICES ASSUME NEW j \in zeros, j < n PROVE FALSE
    BY <1>3
  <2>1. j \in 0..(MaxOnes - 1) /\ Bit(q, p + j) = 0
    BY <1>2
  <2>2. j \in 0..n - 1
    BY <1>1, <2>1
  <2>3. Bit(q, p + j) = 1
    BY <2>2, Zenon
  <2> QED
    BY <2>1, <2>3
<1>5. Min(zeros) = n
  BY <1>3, <1>4, MinIs
<1>6. ReadOnes(q, p) = IF zeros # {} THEN Min(zeros) ELSE MaxOnes
  BY <1>2, Zenon DEF ReadOnes
<1> QED
  BY <1>3, <1>5, <1>6

\* A length reads back.
LEMMA LengthDecodes ==
  ASSUME NEW l \in Lengths, NEW q \in Seq({0, 1}), NEW p \in Nat, Spells(q, p, LengthBits(l))
  PROVE  DecodeLength(q, p) = [v |-> l, next |-> p + Len(LengthBits(l))]
<1>1. MaxOnes \in Nat \ {0} /\ l \in Nat /\ <<0>> \in Seq({0, 1}) /\ Len(<<0>>) = 1
  BY SizesAssumption, MatchAssumption
<1>2. CASE l = 3 /\ LengthBits(l) = <<0>>
  <2>1. Bit(q, p) = 0
    BY <1>1, <1>2, SpellsOne
  <2>2. ReadOnes(q, p) = 0
    <3>1. 0 \in 0..(MaxOnes - 1) /\ p + 0 = p /\ 0..0 - 1 = {}
      BY <1>1
    <3>2. Bit(q, p + 0) = 0 /\ \A j \in 0..0 - 1 : Bit(q, p + j) = 1
      BY <2>1, <3>1
    <3> QED
      BY <3>1, <3>2, OnesDecode
  <2>3. DecodeLength(q, p) = [v |-> 3, next |-> IF 0 < MaxOnes THEN p + 0 + 1 ELSE p + 0]
    BY <2>2, Zenon DEF DecodeLength
  <2>4. (IF 0 < MaxOnes THEN p + 0 + 1 ELSE p + 0) = p + 1
    BY <1>1
  <2>5. Len(LengthBits(l)) = 1
    BY <1>1, <1>2
  <2> QED
    BY <1>2, <2>3, <2>4, <2>5
<1>3. ASSUME NEW n \in 1..(MaxOnes - 1), NEW v \in Nat, LengthMade(l, n, v)
      PROVE  DecodeLength(q, p) = [v |-> l, next |-> p + Len(LengthBits(l))]
  <2>1. PICK w \in Nat : w = n + 1 /\ n \in Nat
    BY <1>1
  <2>2. PICK ones \in Seq({0, 1}) : ones = Ones(n) /\ Len(ones) = n
    BY <2>1, OnesAreBits
  <2>3. PICK tail \in Seq({0, 1}) : tail = Bits(v, w) /\ Len(tail) = w
    BY BitsAreBits
  <2>4. PICK head \in Seq({0, 1}) : head = ones \o <<0>> /\ Len(head) = n + 1
    <3>1. ones \o <<0>> \in Seq({0, 1}) /\ Len(ones \o <<0>>) = Len(ones) + 1
      BY <1>1
    <3> QED
      BY <2>2, <3>1
  <2>5. LengthBits(l) = head \o tail /\ v + Pow2(w) = l /\ v < Pow2(w)
    BY <1>3, <2>1, <2>2, <2>3, <2>4 DEF LengthMade
  <2>6. Spells(q, p, head) /\ Spells(q, p + Len(head), tail)
    BY <2>5, SpellsParts
  <2>7. Spells(q, p, ones) /\ Spells(q, p + Len(ones), <<0>>)
    <3>1. Spells(q, p, ones \o <<0>>)
      BY <2>4, <2>6
    <3> QED
      BY <1>1, <3>1, SpellsParts
  <2>8. PICK at \in Nat : at = p + n + 1 /\ at = p + Len(head)
    <3>1. p + n + 1 \in Nat /\ p + n + 1 = p + (n + 1)
      BY <2>1
    <3> QED
      BY <2>4, <3>1
  <2>9. ReadBits(q, at, w) = v
    <3>1. Spells(q, at, Bits(v, w))
      BY <2>3, <2>6, <2>8
    <3> QED
      BY <2>5, <3>1, ReadsSpelled
  <2>10. ReadOnes(q, p) = n
    <3>1. \A j \in 0..n - 1 : Bit(q, p + j) = 1
      BY <2>1, <2>2, <2>7, SpellsOnes
    <3>2. Bit(q, p + n) = 0
      <4>1. p + n \in Nat /\ Spells(q, p + n, <<0>>)
        BY <2>1, <2>2, <2>7
      <4> QED
        BY <4>1, SpellsOne
    <3>3. n \in 0..(MaxOnes - 1)
      BY <1>1
    <3> QED
      BY <3>1, <3>2, <3>3, OnesDecode
  <2>11. n < MaxOnes /\ n # 0
    BY <1>1
  <2>12. DecodeLength(q, p) = [v |-> Pow2(n + 1) + ReadBits(q, at, n + 1), next |-> at + n + 1]
    BY <2>8, <2>10, <2>11, Zenon DEF DecodeLength
  <2>13. p + Len(LengthBits(l)) = at + w
    <3>1. Len(head \o tail) = Len(head) + Len(tail)
      OBVIOUS
    <3>2. Len(LengthBits(l)) = n + 1 + w
      BY <2>3, <2>4, <2>5, <3>1
    <3> QED
      BY <2>1, <2>8, <3>2
  <2>14. Pow2(w) \in Nat
    BY Pow2Nat
  <2>15. Pow2(n + 1) + ReadBits(q, at, n + 1) = l /\ at + n + 1 = at + w
    BY <1>1, <2>1, <2>5, <2>9, <2>14
  <2> QED
    BY <2>12, <2>13, <2>15
<1> QED
  BY <1>2, <1>3, LengthParts

\* What a copy reads back as.
CopyRead(q, p, o, l) ==
  /\ Bit(q, p) = 1 /\ Bit(q, p + 1) = 1
  /\ DecodeOffset(q, p + 2).v = o
  /\ DecodeOffset(q, p + 2).next \in Nat
  /\ DecodeLength(q, DecodeOffset(q, p + 2).next) = [v |-> l, next |-> p + Len(CopyBits(o, l))]

\* The bits of a copy.
LEMMA CopyBitsAreBits ==
  ASSUME NEW o \in Offsets, NEW l \in Lengths
  PROVE  CopyBits(o, l) \in Seq({0, 1}) /\ Len(CopyBits(o, l)) >= ByteBits
<1>1. PICK a \in Seq({0, 1}) : a = OffsetBits(o) /\ Len(a) + 2 >= ByteBits
  BY OffsetBitsAreBits
<1>2. PICK b \in Seq({0, 1}) : b = LengthBits(l)
  BY LengthBitsAreBits
<1>3. <<1, 1>> \o a \o b \in Seq({0, 1}) /\ Len(<<1, 1>> \o a \o b) = 2 + Len(a) + Len(b)
  OBVIOUS
<1>4. CopyBits(o, l) = <<1, 1>> \o a \o b
  BY <1>1, <1>2 DEF CopyBits
<1>5. ByteBits \in Nat
  BY SizesAssumption
<1> QED
  BY <1>1, <1>3, <1>4, <1>5

\* A copy reads back.
LEMMA CopyDecodes ==
  ASSUME NEW o \in Offsets, NEW l \in Lengths, NEW q \in Seq({0, 1}), NEW p \in Nat,
         Spells(q, p, CopyBits(o, l))
  PROVE  CopyRead(q, p, o, l)
<1>1. PICK a \in Seq({0, 1}) : a = OffsetBits(o)
  BY OffsetBitsAreBits
<1>2. PICK b \in Seq({0, 1}) : b = LengthBits(l)
  BY LengthBitsAreBits
<1>3. PICK t \in Seq({0, 1}), c \in Seq({0, 1}) :
        t = <<1, 1>> /\ Len(t) = 2 /\ c = t \o a /\ Len(c) = 2 + Len(a)
  <2>1. PICK t \in Seq({0, 1}) : t = <<1, 1>> /\ Len(t) = 2
    <3>1. <<1, 1>> \in Seq({0, 1}) /\ Len(<<1, 1>>) = 2
      OBVIOUS
    <3> QED
      BY <3>1
  <2>2. t \o a \in Seq({0, 1}) /\ Len(t \o a) = Len(t) + Len(a)
    OBVIOUS
  <2> QED
    BY <2>1, <2>2
<1>4. CopyBits(o, l) = c \o b
  BY <1>1, <1>2, <1>3 DEF CopyBits
<1>5. Spells(q, p, c) /\ Spells(q, p + Len(c), b)
  BY <1>4, SpellsParts
<1>6. Spells(q, p, <<1, 1>>) /\ Spells(q, p + 2, a)
  <2>1. Spells(q, p, t \o a)
    BY <1>3, <1>5
  <2>2. Spells(q, p, t) /\ Spells(q, p + Len(t), a)
    BY <2>1, SpellsParts
  <2> QED
    BY <1>3, <2>2
<1>7. Bit(q, p) = 1 /\ Bit(q, p + 1) = 1
  <2>1. <<1, 1>> \in Seq({0, 1}) /\ Len(<<1, 1>>) = 2
    OBVIOUS
  <2>2. \A i \in 1..2 : Bit(q, p + i - 1) = <<1, 1>>[i]
    BY <1>6, <2>1, SpellsBits
  <2>3. p + 1 - 1 = p /\ p + 2 - 1 = p + 1
    OBVIOUS
  <2> QED
    BY <2>2, <2>3
<1>8. PICK r \in Nat : r = p + Len(c) /\ r = p + 2 + Len(a)
  BY <1>3
<1>9. DecodeOffset(q, p + 2) = [v |-> o, next |-> r]
  <2>1. p + 2 \in Nat
    OBVIOUS
  <2> QED
    BY <1>1, <1>6, <1>8, <2>1, OffsetDecodes
<1>10. DecodeLength(q, r) = [v |-> l, next |-> r + Len(b)]
  BY <1>2, <1>5, <1>8, LengthDecodes
<1>11. r + Len(b) = p + Len(CopyBits(o, l))
  <2>1. Len(c \o b) = Len(c) + Len(b)
    OBVIOUS
  <2> QED
    BY <1>4, <1>8, <2>1
<1> QED
  BY <1>7, <1>9, <1>10, <1>11 DEF CopyRead

-----------------------------------------------------------------------------
(* The copy loop *)

\* The histories g that h0 becomes as N bytes are copied from src to off.
Copies(g, h0, off, src, N) ==
  g[0] = h0 /\ \A n \in 1..N : g[n] = CopyByte(g[n - 1], off + n - 1, src + n - 1)

\* The copy loop goes through such histories.
LEMMA CopiedSteps ==
  ASSUME NEW h0, NEW off, NEW src, NEW N \in Nat
  PROVE  \E h : Copies(h, h0, off, src, N) /\ Copied(h0, off, src, N) = h[N]
<1> DEFINE One(f, n) == IF n = 0 THEN h0
                         ELSE CopyByte(f[n - 1], off + n - 1, src + n - 1)
           Is(f, m) == f = [n \in 0..m |-> One(f, n)]
           T == {m \in 0..N : \E f : Is(f, m)}
<1>1. 0 \in T
  <2>1. Is([n \in 0..0 |-> h0], 0)
    OBVIOUS
  <2>2. 0 \in 0..N
    OBVIOUS
  <2> HIDE DEF Is
  <2> QED
    BY <2>1, <2>2
<1>2. ASSUME NEW m \in 0..N, m < N, m \in T PROVE m + 1 \in T
  <2>1. PICK f : Is(f, m)
    BY <1>2
  <2> DEFINE g == [n \in 0..(m + 1) |-> IF n = m + 1 THEN One(f, n) ELSE f[n]]
  <2>2. ASSUME NEW n \in 0..(m + 1) PROVE g[n] = One(g, n)
    <3>1. CASE n = 0
      <4>1. g[0] = f[0] /\ f[0] = One(f, 0)
        BY <2>1
      <4> QED
        BY <3>1, <4>1
    <3>2. CASE n # 0
      <4>1. n - 1 \in 0..m /\ g[n - 1] = f[n - 1]
        BY <3>2
      <4>2. One(g, n) = One(f, n)
        BY <3>2, <4>1
      <4>3. g[n] = One(f, n)
        <5>1. f = [i \in 0..m |-> One(f, i)]
          BY <2>1
        <5> HIDE DEF One
        <5>2. CASE n = m + 1
          BY <5>2
        <5>3. CASE n # m + 1
          <6>1. n \in 0..m
            BY <5>3
          <6>2. g[n] = f[n]
            BY <5>3
          <6> QED
            BY <5>1, <6>1, <6>2
        <5> QED
          BY <5>2, <5>3
      <4> QED
        BY <4>2, <4>3
    <3> QED
      BY <3>1, <3>2
  <2>3. g = [n \in 0..(m + 1) |-> One(g, n)]
    BY <2>2
  <2>4. Is(g, m + 1)
    BY <2>3
  <2>5. m + 1 \in 0..N
    BY <1>2
  <2> HIDE DEF Is, g
  <2> QED
    BY <2>4, <2>5
<1>3. N \in T
  <2> HIDE DEF T
  <2>1. 0..N \subseteq T
    BY <1>1, <1>2, UpTo
  <2> QED
    BY <2>1
<1>4. \E f : f = [n \in 0..N |-> One(f, n)]
  BY <1>3
<1> DEFINE h == CHOOSE f : f = [n \in 0..N |-> One(f, n)]
<1>5. h = [n \in 0..N |-> One(h, n)]
  BY <1>4, Zenon
<1>6. Copied(h0, off, src, N) = h[N]
  BY DEF Copied
<1> HIDE DEF h
<1>7. \A n \in 0..N : h[n] = One(h, n)
  <2> HIDE DEF One
  <2> QED
    BY <1>5
<1>8. Copies(h, h0, off, src, N)
  BY <1>7 DEF Copies
<1> QED
  BY <1>6, <1>8

\* Whatever takes the same steps ends the same.
LEMMA CopiedIs ==
  ASSUME NEW h0, NEW off, NEW src, NEW N \in Nat, NEW g, Copies(g, h0, off, src, N)
  PROVE  Copied(h0, off, src, N) = g[N]
<1>1. PICK h : Copies(h, h0, off, src, N) /\ Copied(h0, off, src, N) = h[N]
  BY CopiedSteps, Zenon
<1> DEFINE T == {n \in 0..N : g[n] = h[n]}
<1>2. 0 \in T
  BY <1>1 DEF Copies
<1>3. ASSUME NEW n \in 0..N, n < N, n \in T PROVE n + 1 \in T
  <2>1. PICK k \in 1..N : k = n + 1 /\ k - 1 = n
    BY <1>3
  <2>2. g[k] = h[k]
    BY <1>1, <1>3, <2>1 DEF Copies
  <2> QED
    BY <2>1, <2>2
<1>4. N \in T
  <2> HIDE DEF T
  <2>1. 0..N \subseteq T
    BY <1>2, <1>3, UpTo
  <2> QED
    BY <2>1
<1> QED
  BY <1>1, <1>4

\* The sizes of the window and of the buffer.
LEMMA Sizes ==
  /\ HistorySize \in Nat \ {0, 1} /\ HistoryCap \in Nat /\ HistoryCap = 2 * HistorySize
  /\ ByteBits \in Nat \ {0, 1} /\ LitBits \in Nat /\ LitBits + 1 = ByteBits
BY SizesAssumption DEF HistoryCap, LitBits

\* A copy that ends inside the window leaves the headroom alone, whatever its
\* source.
LEMMA CopiedSafe ==
  ASSUME NEW h0 \in Histories, NEW off \in Nat, NEW src \in 0..HistorySize - 1, NEW N \in Nat,
         off + N <= HistorySize
  PROVE  /\ Copied(h0, off, src, N) \in Histories
         /\ \A x \in HistorySize..HistoryCap - 1 : Copied(h0, off, src, N)[x] = h0[x]
<1>1. PICK h : Copies(h, h0, off, src, N) /\ Copied(h0, off, src, N) = h[N]
  BY CopiedSteps, Zenon
<1> DEFINE Good(g) == g \in Histories /\ \A x \in HistorySize..HistoryCap - 1 : g[x] = h0[x]
           T == {n \in 0..N : Good(h[n])}
<1>2. 0 \in T
  BY <1>1 DEF Copies
<1>3. ASSUME NEW n \in 0..N, n < N, n \in T PROVE n + 1 \in T
  <2>1. PICK k \in 1..N : k = n + 1 /\ k - 1 = n
    BY <1>3
  <2>2. h[k] = CopyByte(h[n], off + k - 1, src + k - 1)
    BY <1>1, <2>1 DEF Copies
  <2>3. Good(h[n])
    BY <1>3
  <2>4. PICK d \in 0..HistorySize - 1 : d = off + k - 1
    BY Sizes
  <2>5. PICK s \in 0..HistoryCap - 1 : s = src + k - 1
    BY Sizes
  <2>6. h[n] \in [0..HistoryCap - 1 -> Nat] /\ h[n][s] \in Nat
    BY <2>3, <2>5 DEF Histories
  <2>7. h[k] = [h[n] EXCEPT ![d] = h[n][s]]
    BY <2>2, <2>4, <2>5 DEF CopyByte
  <2>8. h[k] \in Histories
    BY <2>6, <2>7 DEF Histories
  <2>9. ASSUME NEW x \in HistorySize..HistoryCap - 1 PROVE h[k][x] = h0[x]
    <3>1. x # d /\ x \in 0..HistoryCap - 1
      BY Sizes
    <3>2. h[k][x] = h[n][x]
      BY <2>6, <2>7, <3>1
    <3> QED
      BY <2>3, <3>2
  <2> QED
    BY <2>1, <2>8, <2>9
<1>4. N \in T
  <2> HIDE DEF T
  <2>1. 0..N \subseteq T
    BY <1>2, <1>3, UpTo
  <2> QED
    BY <2>1
<1> QED
  BY <1>1, <1>4

\* A remainder is the same one divisor further.
LEMMA ModAgain ==
  ASSUME NEW k \in Nat, NEW o \in Nat \ {0}, k >= o
  PROVE  (k - o) % o = k % o
<1>1. PICK q \in Int, r \in 0..o - 1 : k = q * o + r
  <2>1. PICK q \in Int, r \in 0..o - 1 : q = k \div o /\ r = k % o /\ k = o * q + r
    OBVIOUS
  <2>2. o * q = q * o
    OBVIOUS
  <2> QED
    BY <2>1, <2>2
<1>2. (q * o + r) % o = r
  BY DivMod, Zenon
<1>3. PICK u \in Int : u = q - 1
  OBVIOUS
<1>4. (u * o + r) % o = r
  BY DivMod, Zenon
<1>5. k - o = u * o + r
  BY <1>1, <1>3
<1> QED
  BY <1>1, <1>2, <1>4, <1>5

\* Where the source of a copy is.
LEMMA SourceIs ==
  ASSUME NEW off \in 0..HistorySize, NEW o \in Nat
  PROVE  /\ Source(off, o) \in 0..HistorySize - 1
         /\ 1 <= o /\ o <= off => Source(off, o) = off - o
         /\ off < o /\ o < HistorySize => Source(off, o) = off - o + HistorySize
<1>1. PICK n \in Nat \ {0} : n = HistorySize
  BY Sizes
<1>2. PICK d \in Int : d = off - o
  BY Sizes
<1>3. d % n \in 0..n - 1
  OBVIOUS
<1>4. ASSUME 1 <= o /\ o <= off PROVE d % n = d
  <2>1. d \in 0..n - 1
    BY <1>1, <1>2, <1>4
  <2> QED
    BY <2>1
<1>5. ASSUME off < o /\ o < HistorySize PROVE d % n = d + n
  <2>1. PICK e \in 0..n - 1 : e = d + n
    BY <1>1, <1>2, <1>5
  <2>2. PICK u \in Int : u = -1
    OBVIOUS
  <2>3. (u * n + e) % n = e
    BY DivMod, Zenon
  <2>4. u * n + e = d
    BY <2>1, <2>2
  <2> QED
    BY <2>1, <2>3, <2>4
<1> QED
  BY <1>1, <1>2, <1>3, <1>4, <1>5 DEF Source

\* A match never reads outside the buffer.
LEMMA MatchByteNat ==
  ASSUME NEW h \in Histories, NEW off \in 0..HistorySize, NEW o \in 1..(HistorySize - 1), NEW i \in Nat,
         i < HistorySize
  PROVE  MatchByte(h, off, o, i) \in Nat
<1>1. CASE o <= off
  <2>1. i % o \in 0..o - 1
    OBVIOUS
  <2>2. off - o + (i % o) \in 0..HistoryCap - 1
    BY <1>1, <2>1, Sizes
  <2> QED
    BY <1>1, <2>2 DEF MatchByte, Histories
<1>2. CASE ~(o <= off)
  <2>1. off - o + HistorySize + i \in 0..HistoryCap - 1
    BY <1>2, Sizes
  <2> QED
    BY <1>2, <2>1 DEF MatchByte, Histories
<1> QED
  BY <1>1, <1>2

\* What the server's match makes of the history, place by place.
LEMMA MatchedAt ==
  ASSUME NEW h \in Histories, NEW off \in 0..HistorySize, NEW o \in 1..(HistorySize - 1), NEW l \in Nat,
         off + l <= HistorySize
  PROVE  /\ Matched(h, off, o, l) \in Histories
         /\ \A x \in 0..HistoryCap - 1 :
              Matched(h, off, o, l)[x] = IF off <= x /\ x < off + l THEN MatchByte(h, off, o, x - off)
                                         ELSE h[x]
<1>1. ASSUME NEW x \in 0..HistoryCap - 1, off <= x, x < off + l PROVE MatchByte(h, off, o, x - off) \in Nat
  <2>1. PICK i \in Nat : i = x - off /\ i < HistorySize
    BY <1>1, Sizes
  <2>2. MatchByte(h, off, o, i) \in Nat
    BY <2>1, MatchByteNat
  <2> QED
    BY <2>1, <2>2
<1>2. \A x \in 0..HistoryCap - 1 : h[x] \in Nat
  BY DEF Histories
<1> QED
  BY <1>1, <1>2, Zenon DEF Matched, Histories

\* The byte the loop reads is the byte the match says.
LEMMA SourceByte ==
  ASSUME NEW h \in Histories, NEW off \in 0..HistorySize, NEW o \in 1..(HistorySize - 1), NEW i \in Nat,
         off + i < HistorySize, NEW src, src = Source(off, o)
  PROVE  src + i \in 0..HistoryCap - 1 /\ Matched(h, off, o, i)[src + i] = MatchByte(h, off, o, i)
<1>1. HistorySize \in Nat /\ HistoryCap = 2 * HistorySize /\ o \in Nat \ {0} /\ off \in Nat
  BY Sizes
<1>2. src \in 0..HistorySize - 1
  BY <1>1, SourceIs
<1>3. PICK x \in 0..HistoryCap - 1 : x = src + i
  BY <1>1, <1>2
<1>4. Matched(h, off, o, i)[x] = IF off <= x /\ x < off + i THEN MatchByte(h, off, o, x - off) ELSE h[x]
  BY <1>1, MatchedAt
<1>5. CASE o <= off
  <2>1. src = off - o
    BY <1>1, <1>5, SourceIs
  <2>2. CASE i < o
    <3>1. i % o = i
      BY <1>1, <2>2
    <3>2. ~(off <= x)
      BY <1>1, <1>3, <2>1, <2>2
    <3>3. MatchByte(h, off, o, i) = h[off - o + (i % o)]
      BY <1>5 DEF MatchByte
    <3>4. off - o + i = x
      BY <1>1, <1>3, <2>1
    <3> QED
      BY <1>3, <1>4, <3>1, <3>2, <3>3, <3>4
  <2>3. CASE ~(i < o)
    <3>1. PICK j \in Nat : j = i - o /\ j = x - off
      BY <1>1, <1>3, <2>1, <2>3
    <3>2. off <= x /\ x < off + i
      BY <1>1, <1>3, <2>1, <2>3
    <3>3. j % o = i % o
      <4>1. i >= o
        BY <1>1, <2>3
      <4>2. (i - o) % o = i % o
        BY <1>1, <4>1, ModAgain
      <4> QED
        BY <3>1, <4>2
    <3>4. MatchByte(h, off, o, j) = h[off - o + (j % o)] /\ MatchByte(h, off, o, i) = h[off - o + (i % o)]
      BY <1>5 DEF MatchByte
    <3>5. Matched(h, off, o, i)[x] = MatchByte(h, off, o, j)
      BY <1>4, <3>1, <3>2
    <3> QED
      BY <1>3, <3>3, <3>4, <3>5
  <2> QED
    BY <2>2, <2>3
<1>6. CASE ~(o <= off)
  <2>1. src = off - o + HistorySize
    BY <1>1, <1>6, SourceIs
  <2>2. ~(x < off + i)
    BY <1>1, <1>3, <2>1
  <2>3. off - o + HistorySize + i = x
    BY <1>1, <1>3, <2>1
  <2>4. MatchByte(h, off, o, i) = h[off - o + HistorySize + i]
    BY <1>6 DEF MatchByte
  <2> QED
    BY <1>3, <1>4, <2>2, <2>3, <2>4
<1> QED
  BY <1>5, <1>6

\* Histories that agree everywhere are equal.
LEMMA SameHistory ==
  ASSUME NEW a \in Histories, NEW b \in Histories, \A x \in 0..HistoryCap - 1 : a[x] = b[x]
  PROVE  a = b
<1>1. a = [x \in 0..HistoryCap - 1 |-> a[x]] /\ b = [x \in 0..HistoryCap - 1 |-> b[x]]
  BY DEF Histories
<1>2. [x \in 0..HistoryCap - 1 |-> a[x]] = [x \in 0..HistoryCap - 1 |-> b[x]]
  OBVIOUS
<1> QED
  BY <1>1, <1>2

\* The copy loop does what the server's match says: linear from the start of the
\* source, repeating itself where it overtakes it.
LEMMA CopiedIsMatched ==
  ASSUME NEW h \in Histories, NEW off \in 0..HistorySize, NEW o \in 1..(HistorySize - 1), NEW l \in Nat,
         off + l <= HistorySize
  PROVE  Copied(h, off, Source(off, o), l) = Matched(h, off, o, l)
<1>1. HistorySize \in Nat /\ HistoryCap = 2 * HistorySize /\ off \in Nat
  BY Sizes
<1>2. PICK src : src = Source(off, o)
  OBVIOUS
<1> DEFINE g == [k \in 0..l |-> Matched(h, off, o, k)]
<1>3. g[0] = h
  <2>1. PICK m \in Histories : m = Matched(h, off, o, 0)
    BY <1>1, MatchedAt
  <2>2. \A x \in 0..HistoryCap - 1 : m[x] = h[x]
    <3>1. 0 \in Nat /\ off + 0 <= HistorySize
      BY <1>1
    <3>2. \A x \in 0..HistoryCap - 1 :
            m[x] = IF off <= x /\ x < off + 0 THEN MatchByte(h, off, o, x - off) ELSE h[x]
      BY <2>1, <3>1, MatchedAt
    <3> QED
      BY <1>1, <3>2
  <2>3. m = h
    BY <2>2, SameHistory
  <2> QED
    BY <2>1, <2>3
<1>4. ASSUME NEW k \in 1..l PROVE g[k] = CopyByte(g[k - 1], off + k - 1, src + k - 1)
  <2>1. PICK i \in Nat : i = k - 1 /\ i + 1 = k /\ i \in 0..l /\ off + i < HistorySize
    BY <1>1
  <2>2. k \in Nat /\ off + k <= HistorySize /\ off + i <= HistorySize
    BY <1>1, <2>1
  <2>3. PICK a \in Histories : a = Matched(h, off, o, i)
    BY <2>2, MatchedAt
  <2>4. PICK b \in Histories : b = Matched(h, off, o, k)
    BY <2>2, MatchedAt
  <2>5. PICK d \in 0..HistoryCap - 1 : d = off + k - 1 /\ d = off + i
    BY <1>1, <2>1
  <2>6. PICK s \in 0..HistoryCap - 1 : s = src + k - 1 /\ s = src + i
    <3>1. src + i \in 0..HistoryCap - 1
      BY <1>2, <2>1, SourceByte
    <3>2. src \in Nat
      BY <1>1, <1>2, SourceIs
    <3> QED
      BY <2>1, <3>1, <3>2
  <2>7. a[s] = MatchByte(h, off, o, i)
    BY <1>2, <2>1, <2>3, <2>6, SourceByte
  <2>8. ASSUME NEW x \in 0..HistoryCap - 1 PROVE b[x] = IF x = d THEN a[s] ELSE a[x]
    <3>1. b[x] = IF off <= x /\ x < off + k THEN MatchByte(h, off, o, x - off) ELSE h[x]
      BY <2>2, <2>4, MatchedAt
    <3>2. a[x] = IF off <= x /\ x < off + i THEN MatchByte(h, off, o, x - off) ELSE h[x]
      BY <2>2, <2>3, MatchedAt
    <3>3. CASE x = d
      <4>1. off <= x /\ x < off + k /\ x - off = i
        BY <1>1, <2>1, <2>5, <3>3
      <4> QED
        BY <2>7, <3>1, <3>3, <4>1
    <3>4. CASE x # d
      <4>1. (off <= x /\ x < off + k) <=> (off <= x /\ x < off + i)
        BY <1>1, <2>1, <2>5, <3>4
      <4> QED
        BY <3>1, <3>2, <3>4, <4>1
    <3> QED
      BY <3>3, <3>4
  <2>9. b = [a EXCEPT ![d] = a[s]]
    BY <2>8 DEF Histories
  <2>10. g[k] = b /\ g[k - 1] = a
    BY <2>1, <2>3, <2>4
  <2> HIDE DEF g
  <2> QED
    BY <2>5, <2>6, <2>9, <2>10 DEF CopyByte
<1>5. g[l] = Matched(h, off, o, l)
  OBVIOUS
<1> HIDE DEF g
<1>6. Copies(g, h, off, src, l)
  BY <1>3, <1>4 DEF Copies
<1>7. Copied(h, off, src, l) = g[l]
  BY <1>6, CopiedIs, Zenon
<1> QED
  BY <1>2, <1>5, <1>7

\* Whatever the bits, an offset and a length are naturals and end somewhere.
LEMMA DecodesNat ==
  ASSUME NEW q \in Seq({0, 1}), NEW p \in Nat
  PROVE  /\ DecodeOffset(q, p).v \in Nat /\ DecodeOffset(q, p).next \in Nat
         /\ DecodeLength(q, p).v \in Nat /\ DecodeLength(q, p).next \in Nat
<1>1. Len(Classes) \in Nat \ {0} /\ MaxOnes \in Nat \ {0}
  BY ClassesAssumption, SizesAssumption
<1>2. ASSUME NEW S, S \subseteq Nat, S # {} PROVE Min(S) \in S
  <2>1. PICK x \in S : \A y \in S : x <= y
    BY <1>2, LeastNat
  <2>2. Min(S) = x
    <3>1. S \in SUBSET Int
      BY <1>2
    <3> QED
      BY <2>1, <3>1, MinIs
  <2> QED
    BY <2>2
<1>3. \A a, w \in Nat : ReadBits(q, a, w) \in Nat
  <2> SUFFICES ASSUME NEW a \in Nat, NEW w \in Nat PROVE ReadBits(q, a, w) \in Nat
    OBVIOUS
  <2>1. 0 \in Nat
    OBVIOUS
  <2> QED
    BY <2>1, ShiftedNat DEF ReadBits
<1>4. PICK k \in 1..Len(Classes) : k = ReadClass(q, p)
  <2>1. PICK zeros : zeros = {j \in 1..(Len(Classes) - 1) : Bit(q, p + j - 1) = 0}
    OBVIOUS
  <2>2. zeros \subseteq 1..Len(Classes) /\ zeros \subseteq Nat
    BY <1>1, <2>1
  <2>3. ReadClass(q, p) = IF zeros # {} THEN Min(zeros) ELSE Len(Classes)
    BY <2>1, Zenon DEF ReadClass
  <2>4. Len(Classes) \in 1..Len(Classes)
    BY <1>1
  <2>5. zeros # {} => Min(zeros) \in zeros
    BY <1>2, <2>2
  <2>6. ReadClass(q, p) \in 1..Len(Classes)
    BY <2>2, <2>3, <2>4, <2>5, Zenon
  <2> QED
    BY <2>6
<1>5. PICK w \in Nat, base \in Nat : w = Classes[k].bits /\ base = Classes[k].base
  <2>1. Classes[k] \in [bits : Nat, base : Nat]
    <3>1. Classes \in Seq([bits : Nat, base : Nat])
      BY ClassesAssumption, Zenon
    <3> QED
      BY <3>1, ElementOfSeq, Zenon
  <2> QED
    BY <2>1
<1>6. PICK a \in Nat : a = IF k < Len(Classes) THEN p + k ELSE p + k - 1
  <2>1. (IF k < Len(Classes) THEN p + k ELSE p + k - 1) \in Nat
    BY <1>1
  <2> QED
    BY <2>1
<1>7. DecodeOffset(q, p) = [v |-> ReadBits(q, a, w) + base, next |-> a + w]
  BY <1>4, <1>5, <1>6, Zenon DEF DecodeOffset
<1>8. DecodeOffset(q, p).v \in Nat /\ DecodeOffset(q, p).next \in Nat
  <2>1. PICK r \in Nat : r = ReadBits(q, a, w)
    BY <1>3
  <2> QED
    BY <1>7, <2>1
<1>9. PICK n \in 0..MaxOnes : n = ReadOnes(q, p)
  <2>1. PICK zeros : zeros = {j \in 0..(MaxOnes - 1) : Bit(q, p + j) = 0}
    OBVIOUS
  <2>2. zeros \subseteq 0..MaxOnes /\ zeros \subseteq Nat
    BY <1>1, <2>1
  <2>3. ReadOnes(q, p) = IF zeros # {} THEN Min(zeros) ELSE MaxOnes
    BY <2>1, Zenon DEF ReadOnes
  <2>4. MaxOnes \in 0..MaxOnes
    BY <1>1
  <2>5. zeros # {} => Min(zeros) \in zeros
    BY <1>2, <2>2
  <2>6. ReadOnes(q, p) \in 0..MaxOnes
    BY <2>2, <2>3, <2>4, <2>5, Zenon
  <2> QED
    BY <2>6
<1>10. PICK b \in Nat : b = IF n < MaxOnes THEN p + n + 1 ELSE p + n
  <2>1. (IF n < MaxOnes THEN p + n + 1 ELSE p + n) \in Nat
    BY <1>1
  <2> QED
    BY <2>1
<1>11. DecodeLength(q, p) = IF n = 0 THEN [v |-> 3, next |-> b]
                            ELSE [v |-> Pow2(n + 1) + ReadBits(q, b, n + 1), next |-> b + n + 1]
  BY <1>9, <1>10, Zenon DEF DecodeLength
<1>12. Pow2(n + 1) \in Nat /\ ReadBits(q, b, n + 1) \in Nat /\ b + n + 1 \in Nat
  <2>1. n + 1 \in Nat
    BY <1>1
  <2>2. PICK m \in Nat : m = n + 1
    BY <2>1
  <2>3. Pow2(m) \in Nat /\ ReadBits(q, b, m) \in Nat
    BY <1>3, Pow2Nat
  <2> QED
    BY <1>1, <2>2, <2>3
<1>13. DecodeLength(q, p).v \in Nat /\ DecodeLength(q, p).next \in Nat
  BY <1>11, <1>12
<1> QED
  BY <1>8, <1>13

-----------------------------------------------------------------------------
(* Packets and prefixes *)

\* A packet that grows keeps what it spells.
LEMMA SpellsGrows ==
  ASSUME NEW q \in Seq({0, 1}), NEW t \in Seq({0, 1}), NEW p \in Nat, NEW b \in Seq({0, 1}),
         Spells(q, p, b)
  PROVE  Spells(q \o t, p, b)
<1>1. Len(q \o t) = Len(q) + Len(t) /\ Len(q) \in Nat /\ Len(t) \in Nat /\ Len(b) \in Nat
  OBVIOUS
<1>2. p + Len(b) <= Len(q)
  BY DEF Spells
<1>3. ASSUME NEW i \in 1..Len(b) PROVE (q \o t)[p + i] = b[i]
  <2>1. PICK k \in 1..Len(q) : k = p + i
    BY <1>1, <1>2
  <2>2. (q \o t)[k] = q[k]
    OBVIOUS
  <2>3. q[p + i] = b[i]
    BY DEF Spells
  <2> QED
    BY <2>1, <2>2, <2>3
<1> QED
  BY <1>1, <1>2, <1>3 DEF Spells

\* A packet that is cut keeps what it spells before the cut.
LEMMA SpellsCut ==
  ASSUME NEW q \in Seq({0, 1}), NEW N \in 0..Len(q), NEW p \in Nat, NEW b \in Seq({0, 1}),
         Spells(q, p, b), p + Len(b) <= N
  PROVE  Spells(SubSeq(q, 1, N), p, b)
<1>1. Len(q) \in Nat /\ Len(b) \in Nat
  OBVIOUS
<1>2. Len(SubSeq(q, 1, N)) = N /\ \A k \in 1..N : SubSeq(q, 1, N)[k] = q[k]
  BY <1>1
<1>3. ASSUME NEW i \in 1..Len(b) PROVE SubSeq(q, 1, N)[p + i] = b[i]
  <2>1. PICK k \in 1..N : k = p + i
    BY <1>1
  <2>2. q[p + i] = b[i]
    BY DEF Spells
  <2> QED
    BY <1>2, <2>1, <2>2
<1> QED
  BY <1>2, <1>3 DEF Spells

\* What is added is spelled at the end.
LEMMA SpellsAdded ==
  ASSUME NEW q \in Seq({0, 1}), NEW b \in Seq({0, 1})
  PROVE  Spells(q \o b, Len(q), b)
<1>1. Len(q \o b) = Len(q) + Len(b) /\ Len(q) \in Nat /\ Len(b) \in Nat
  OBVIOUS
<1>2. \A i \in 1..Len(b) : (q \o b)[Len(q) + i] = b[i]
  BY <1>1
<1> QED
  BY <1>1, <1>2 DEF Spells

\* Output only gets longer.
LEMMA PrefixGrows ==
  ASSUME NEW s \in Seq(Nat), NEW o \in Seq(Nat), NEW t \in Seq(Nat), IsPrefix(s, o)
  PROVE  IsPrefix(s, o \o t)
<1>1. Len(s) <= Len(o) /\ SubSeq(s, 1, Len(s)) = SubSeq(o, 1, Len(s))
  BY DEF IsPrefix
<1>2. Len(o \o t) = Len(o) + Len(t) /\ Len(o) \in Nat /\ Len(t) \in Nat /\ Len(s) \in Nat
  OBVIOUS
<1>3. SubSeq(o \o t, 1, Len(s)) = SubSeq(o, 1, Len(s))
  <2>1. PICK n \in 0..Len(o) : n = Len(s)
    BY <1>1, <1>2
  <2>2. \A i \in 1..n : (o \o t)[i] = o[i]
    BY <1>2
  <2>3. SubSeq(o \o t, 1, n) = SubSeq(o, 1, n)
    BY <1>2, <2>2
  <2> QED
    BY <2>1, <2>3
<1> QED
  BY <1>1, <1>2, <1>3 DEF IsPrefix

\* A sequence begins with itself.
LEMMA PrefixOfItself ==
  ASSUME NEW s \in Seq(Nat)
  PROVE  IsPrefix(s, s)
BY DEF IsPrefix

\* The plaintext of a match is what it leaves in the history.
LEMMA MatchIs ==
  ASSUME NEW h \in Histories, NEW off \in 0..HistorySize, NEW o \in 1..(HistorySize - 1), NEW l \in Nat,
         off + l <= HistorySize
  PROVE  /\ Match(h, off, o, l) \in Seq(Nat)
         /\ Match(h, off, o, l) = [i \in 1..l |-> Matched(h, off, o, l)[off + i - 1]]
<1>1. ASSUME NEW i \in 1..l
      PROVE  MatchByte(h, off, o, i - 1) \in Nat /\ Matched(h, off, o, l)[off + i - 1] = MatchByte(h, off, o, i - 1)
  <2>1. HistorySize \in Nat /\ HistoryCap = 2 * HistorySize
    BY Sizes
  <2>2. PICK x \in 0..HistoryCap - 1, j \in Nat :
          x = off + i - 1 /\ j = i - 1 /\ x - off = j /\ off <= x /\ x < off + l /\ j < HistorySize
    <3>1. off + i - 1 \in 0..HistoryCap - 1 /\ i - 1 \in Nat /\ off + i - 1 - off = i - 1
      BY <2>1
    <3>2. off <= off + i - 1 /\ off + i - 1 < off + l /\ i - 1 < HistorySize
      BY <2>1
    <3> QED
      BY <3>1, <3>2
  <2>3. Matched(h, off, o, l)[x] = MatchByte(h, off, o, j)
    BY <2>2, MatchedAt
  <2>4. MatchByte(h, off, o, j) \in Nat
    BY <2>2, MatchByteNat
  <2> QED
    BY <2>2, <2>3, <2>4
<1>2. Match(h, off, o, l) = [i \in 1..l |-> MatchByte(h, off, o, i - 1)]
  BY DEF Match
<1>3. Match(h, off, o, l) \in [1..l -> Nat]
  BY <1>1, <1>2
<1>4. [i \in 1..l |-> MatchByte(h, off, o, i - 1)] = [i \in 1..l |-> Matched(h, off, o, l)[off + i - 1]]
  BY <1>1, Zenon
<1> QED
  BY <1>2, <1>3, <1>4

\* A token stays where it is in a packet that grows.
LEMMA TokenGrows ==
  ASSUME NEW q \in Seq({0, 1}), NEW t \in Seq({0, 1}), NEW m \in Snapshots, NEW n, TokenBetween(q, m, n)
  PROVE  TokenBetween(q \o t, m, n)
<1>1. m.at \in Nat
  BY DEF Snapshots
<1>2. ASSUME NEW b \in Alphabet, LiteralBetween(q, m, n, b) PROVE LiteralBetween(q \o t, m, n, b)
  <2>1. LiteralBits(b) \in Seq({0, 1})
    BY LiteralBitsAreBits
  <2>2. Spells(q \o t, m.at, LiteralBits(b))
    BY <1>1, <1>2, <2>1, SpellsGrows DEF LiteralBetween
  <2> QED
    BY <1>2, <2>2 DEF LiteralBetween
<1>3. ASSUME NEW o \in Offsets, NEW l \in Lengths, CopyBetween(q, m, n, o, l)
      PROVE  CopyBetween(q \o t, m, n, o, l)
  <2>1. CopyBits(o, l) \in Seq({0, 1})
    BY CopyBitsAreBits
  <2>2. Spells(q \o t, m.at, CopyBits(o, l))
    BY <1>1, <1>3, <2>1, SpellsGrows DEF CopyBetween
  <2> QED
    BY <1>3, <2>2 DEF CopyBetween
<1> QED
  BY <1>2, <1>3, Zenon DEF TokenBetween

\* A token before the cut stays where it is.
LEMMA TokenCut ==
  ASSUME NEW q \in Seq({0, 1}), NEW N \in 0..Len(q), NEW m \in Snapshots, NEW n, TokenBetween(q, m, n),
         n.at <= N
  PROVE  TokenBetween(SubSeq(q, 1, N), m, n)
<1>1. m.at \in Nat
  BY DEF Snapshots
<1>2. ASSUME NEW b \in Alphabet, LiteralBetween(q, m, n, b) PROVE LiteralBetween(SubSeq(q, 1, N), m, n, b)
  <2>1. LiteralBits(b) \in Seq({0, 1})
    BY LiteralBitsAreBits
  <2>2. Spells(q, m.at, LiteralBits(b)) /\ m.at + Len(LiteralBits(b)) <= N
    BY <1>2 DEF LiteralBetween
  <2>3. Spells(SubSeq(q, 1, N), m.at, LiteralBits(b))
    BY <1>1, <2>1, <2>2, SpellsCut
  <2> QED
    BY <1>2, <2>3 DEF LiteralBetween
<1>3. ASSUME NEW o \in Offsets, NEW l \in Lengths, CopyBetween(q, m, n, o, l)
      PROVE  CopyBetween(SubSeq(q, 1, N), m, n, o, l)
  <2>1. CopyBits(o, l) \in Seq({0, 1})
    BY CopyBitsAreBits
  <2>2. Spells(q, m.at, CopyBits(o, l)) /\ m.at + Len(CopyBits(o, l)) <= N
    BY <1>3 DEF CopyBetween
  <2>3. Spells(SubSeq(q, 1, N), m.at, CopyBits(o, l))
    BY <1>1, <2>1, <2>2, SpellsCut
  <2> QED
    BY <1>3, <2>3 DEF CopyBetween
<1> QED
  BY <1>2, <1>3, Zenon DEF TokenBetween

-----------------------------------------------------------------------------
(* The server's steps *)

\* What is inductive: the invariant without what follows from it.
MppcCore ==
  /\ MppcTypeOK /\ HeadroomZero /\ MarksKept /\ TokensSpelled /\ BytesSpelled /\ InStep
  /\ DecompressesWhatWasSent

\* A mark of the marks.
LEMMA MarkTyped ==
  ASSUME NEW s \in Seq(Snapshots), NEW k \in 1..Len(s)
  PROVE  /\ s[k] \in Snapshots /\ s[k].at \in Nat /\ s[k].plain \in Seq(Nat)
         /\ s[k].hist \in Histories /\ s[k].off \in 0..HistorySize
<1>1. s[k] \in Snapshots
  BY ElementOfSeq, Zenon
<1> QED
  BY <1>1 DEF Snapshots

\* What holds at the beginning.
LEMMA CoreInit == MppcInit => MppcCore
<1> SUFFICES ASSUME MppcInit PROVE MppcCore
  OBVIOUS
<1> USE DEF MppcInit
<1>1. Zeros \in Histories
  BY Sizes DEF Zeros, Histories
<1>2. PICK m \in Snapshots : m = Mark(<<>>, <<>>, Zeros, 0) /\ m.at = 0 /\ m.plain = <<>> /\ m.hist = Zeros /\ m.off = 0
  <2>1. Mark(<<>>, <<>>, Zeros, 0) = [at |-> 0, plain |-> <<>>, hist |-> Zeros, off |-> 0]
    BY DEF Mark
  <2>2. 0 \in 0..HistorySize /\ <<>> \in Seq(Nat)
    BY Sizes
  <2>3. [at |-> 0, plain |-> <<>>, hist |-> Zeros, off |-> 0] \in Snapshots
    BY <1>1, <2>2 DEF Snapshots
  <2> QED
    BY <2>1, <2>3
<1>3. marks = <<m>> /\ marks \in Seq(Snapshots) /\ Len(marks) = 1 /\ marks[1] = m /\ Last(marks) = m
  BY <1>2 DEF Last
<1>4. MppcTypeOK
  <2>1. 0 \in 0..HistorySize /\ 0 \in 0..MaxPackets /\ 0 \in 0..MaxTokens
    BY SizesAssumption
  <2>2. packet \in Seq({0, 1}) /\ plain \in Seq(Nat) /\ out \in Seq(Nat)
    OBVIOUS
  <2>3. flags \in [compressed : BOOLEAN, at_front : BOOLEAN, flushed : BOOLEAN]
    OBVIOUS
  <2> QED
    BY <1>1, <1>3, <2>1, <2>2, <2>3 DEF MppcTypeOK
<1>5. HeadroomZero
  <2>1. \A i \in HistorySize..HistoryCap - 1 : i \in 0..HistoryCap - 1
    BY Sizes
  <2> QED
    BY <2>1 DEF HeadroomZero, Zeros
<1>6. MarksKept
  BY <1>2, <1>3 DEF MarksKept
<1>7. TokensSpelled /\ BytesSpelled
  BY DEF TokensSpelled, BytesSpelled
<1>8. InStep /\ DecompressesWhatWasSent
  BY DEF InStep, DecompressesWhatWasSent
<1> QED
  BY <1>4, <1>5, <1>6, <1>7, <1>8 DEF MppcCore

\* A new packet starts at its first mark.
LEMMA BeginKeeps ==
  ASSUME MppcCore, NEW f \in [compressed : BOOLEAN, at_front : BOOLEAN, flushed : BOOLEAN], BeginPacket(f)
  PROVE  MppcCore'
<1> USE DEF BeginPacket, client
<1>1. Zeros \in Histories
  BY Sizes DEF Zeros, Histories
<1>2. sHist' \in Histories /\ sOffset' \in 0..HistorySize
  BY <1>1, Sizes DEF MppcCore, MppcTypeOK
<1>3. PICK m \in Snapshots : /\ m = Mark(<<>>, <<>>, sHist', sOffset')
                             /\ m.at = 0 /\ m.plain = <<>> /\ m.hist = sHist' /\ m.off = sOffset'
  <2>1. Mark(<<>>, <<>>, sHist', sOffset') = [at |-> 0, plain |-> <<>>, hist |-> sHist', off |-> sOffset']
    BY DEF Mark
  <2>2. <<>> \in Seq(Nat)
    OBVIOUS
  <2>3. [at |-> 0, plain |-> <<>>, hist |-> sHist', off |-> sOffset'] \in Snapshots
    BY <1>2, <2>2 DEF Snapshots
  <2> QED
    BY <2>1, <2>3
<1>4. marks' = <<m>> /\ marks' \in Seq(Snapshots) /\ Len(marks') = 1 /\ marks'[1] = m /\ Last(marks)' = m
  BY <1>3 DEF Last
<1>5. MppcTypeOK'
  <2>1. packets' \in 0..MaxPackets
    BY SizesAssumption DEF MppcCore, MppcTypeOK
  <2>2. packet' \in Seq({0, 1}) /\ plain' \in Seq(Nat)
    OBVIOUS
  <2> QED
    BY <1>2, <1>4, <2>1, <2>2 DEF MppcCore, MppcTypeOK
<1>6. HeadroomZero'
  BY DEF MppcCore, HeadroomZero
<1>7. MarksKept'
  BY <1>3, <1>4 DEF MarksKept
<1>8. stage' = "building" /\ cut' = 0 /\ packet' = <<>> /\ plain' = <<>> /\ flags' = f
  OBVIOUS
<1>9. TokensSpelled'
  <2>1. Len(packet') = 0
    BY <1>8
  <2> QED
    BY <1>3, <1>4, <1>8, <2>1 DEF TokensSpelled
<1>10. BytesSpelled'
  <2>1. Len(packet') = 0 /\ Len(plain') = 0 /\ ByteBits * 0 = 0
    BY <1>8, Sizes
  <2> QED
    BY <1>3, <1>4, <1>8, <2>1 DEF BytesSpelled
<1>11. InStep'
  <2>1. ASSUME astray => f.flushed PROVE AtStart'
    <3>1. CASE f.flushed
      BY <1>3, <1>4, <3>1 DEF AtStart
    <3>2. CASE ~f.flushed
      <4>1. ~astray /\ history = sHist /\ offset = sOffset
        BY <2>1, <3>2 DEF MppcCore, InStep
      <4> QED
        BY <1>3, <1>4, <3>2, <4>1 DEF AtStart
    <3> QED
      BY <3>1, <3>2
  <2> QED
    BY <1>8, <2>1 DEF InStep
<1>12. DecompressesWhatWasSent'
  BY <1>8 DEF DecompressesWhatWasSent
<1> QED
  BY <1>5, <1>6, <1>7, <1>9, <1>10, <1>11, <1>12 DEF MppcCore

\* The marks with one more at the end.
LEMMA MarkAdded ==
  ASSUME NEW s \in Seq(Snapshots), s # <<>>, NEW m \in Snapshots
  PROVE  /\ Append(s, m) \in Seq(Snapshots) /\ Len(Append(s, m)) = Len(s) + 1 /\ Append(s, m) # <<>>
         /\ Len(s) \in Nat \ {0} /\ Append(s, m)[1] = s[1] /\ Append(s, m)[Len(s) + 1] = m
         /\ \A k \in 1..Len(s) : Append(s, m)[k] = s[k]
OBVIOUS

\* A token added to the packet: all but the spelling.
LEMMA TokenKeeps ==
  ASSUME MppcCore, NEW bits \in Seq({0, 1}), NEW bytes \in Seq(Nat), NEW h \in Histories,
         NEW off \in 0..HistorySize, AddToken(bits, bytes, h, off)
  PROVE  /\ MppcTypeOK' /\ HeadroomZero' /\ MarksKept' /\ InStep' /\ DecompressesWhatWasSent'
         /\ Mark(packet', plain', h, off) \in Snapshots
<1> USE DEF AddToken, client
<1>1. MppcTypeOK /\ MarksKept /\ InStep /\ marks # <<>> /\ marks \in Seq(Snapshots)
  BY DEF MppcCore, MarksKept, MppcTypeOK
<1>2. packet' \in Seq({0, 1}) /\ plain' \in Seq(Nat)
  BY <1>1 DEF MppcTypeOK
<1>3. PICK m \in Snapshots : /\ m = Mark(packet', plain', h, off)
                             /\ m.plain = plain' /\ m.hist = h /\ m.off = off
  <2>1. Mark(packet', plain', h, off) = [at |-> Len(packet'), plain |-> plain', hist |-> h, off |-> off]
    BY DEF Mark
  <2>2. Len(packet') \in Nat
    BY <1>2
  <2>3. [at |-> Len(packet'), plain |-> plain', hist |-> h, off |-> off] \in Snapshots
    BY <1>2, <2>2 DEF Snapshots
  <2> QED
    BY <2>1, <2>3
<1>4. marks' = Append(marks, m)
  BY <1>3
<1>5. /\ marks' \in Seq(Snapshots) /\ Len(marks') = Len(marks) + 1 /\ marks' # <<>>
      /\ marks'[1] = marks[1] /\ marks'[Len(marks) + 1] = m
  <2> HIDE DEF AddToken
  <2>1. /\ Append(marks, m) \in Seq(Snapshots) /\ Len(Append(marks, m)) = Len(marks) + 1
        /\ Append(marks, m) # <<>> /\ Append(marks, m)[1] = marks[1]
        /\ Append(marks, m)[Len(marks) + 1] = m
    BY <1>1, MarkAdded
  <2> QED
    BY <1>4, <2>1
<1>6. Last(marks)' = m
  BY <1>5 DEF Last
<1>7. MppcTypeOK'
  <2>1. tokens' \in 0..MaxTokens
    BY <1>1, SizesAssumption DEF MppcTypeOK
  <2> QED
    BY <1>1, <1>2, <1>5, <2>1 DEF MppcTypeOK
<1>8. HeadroomZero'
  BY DEF MppcCore, HeadroomZero
<1>9. MarksKept'
  BY <1>1, <1>3, <1>5, <1>6 DEF MarksKept
<1>10. InStep'
  <2>1. AtStart => AtStart'
    BY <1>5 DEF AtStart
  <2>2. cut = 0 /\ stage' = "building" /\ stage = "building"
    BY <1>1 DEF InStep
  <2> QED
    BY <1>1, <2>1, <2>2 DEF InStep
<1>11. DecompressesWhatWasSent'
  BY DEF DecompressesWhatWasSent
<1> QED
  BY <1>3, <1>7, <1>8, <1>9, <1>10, <1>11

\* A token added to a compressed packet lies between the last mark and the new one.
LEMMA TokenSpelled ==
  ASSUME MppcCore, NEW bits \in Seq({0, 1}), NEW bytes \in Seq(Nat), NEW h \in Histories,
         NEW off \in 0..HistorySize, AddToken(bits, bytes, h, off), flags.compressed,
         Len(bits) >= ByteBits,
         TokenBetween(packet', Last(marks), Mark(packet', plain', h, off))
  PROVE  MppcCore'
<1> USE DEF AddToken, client
<1>1. /\ MppcTypeOK /\ MarksKept /\ InStep /\ TokensSpelled /\ marks # <<>> /\ marks \in Seq(Snapshots)
      /\ packet \in Seq({0, 1}) /\ stage = "building" /\ stage' = "building" /\ cut = 0 /\ cut' = 0
  BY DEF MppcCore, MarksKept, MppcTypeOK, InStep
<1>2. /\ MppcTypeOK' /\ HeadroomZero' /\ MarksKept' /\ InStep' /\ DecompressesWhatWasSent'
      /\ Mark(packet', plain', h, off) \in Snapshots
  BY TokenKeeps
<1>3. PICK m \in Snapshots : m = Mark(packet', plain', h, off) /\ m.at = Len(packet')
  BY <1>2 DEF Mark
<1>4. marks' = Append(marks, m)
  BY <1>3
<1>5. /\ Len(marks') = Len(marks) + 1 /\ Len(marks) \in Nat \ {0} /\ marks'[Len(marks) + 1] = m
      /\ \A k \in 1..Len(marks) : marks'[k] = marks[k]
  BY <1>1, <1>4, MarkAdded
<1>6. PICK N \in Nat \ {0} : N = Len(marks) /\ N + 1 = Len(marks')
  BY <1>5
<1>7. /\ Len(packet) \in Nat /\ Len(packet') \in Nat /\ ByteBits \in Nat
      /\ Len(packet) + ByteBits <= Len(packet')
  <2>1. Len(packet') = Len(packet) + Len(bits) /\ Len(packet) \in Nat /\ Len(bits) \in Nat
    BY <1>1
  <2> QED
    BY <2>1, Sizes
<1>8. /\ \A k \in 1..(N - 1) : TokenBetween(packet, marks[k], marks[k + 1])
      /\ marks[N].at = Len(packet)
      /\ \A k \in 1..(N - 1) : marks[k].at + ByteBits <= Len(packet)
  BY <1>1, <1>6 DEF TokensSpelled, Last
<1>9. ASSUME NEW k \in 1..N PROVE TokenBetween(packet', marks'[k], marks'[k + 1])
  <2>1. CASE k < N
    <3>1. k \in 1..(N - 1) /\ k \in 1..Len(marks) /\ k + 1 \in 1..Len(marks)
      BY <1>6, <2>1
    <3>2. marks'[k] = marks[k] /\ marks'[k + 1] = marks[k + 1] /\ marks[k] \in Snapshots
      BY <1>1, <1>5, <3>1, MarkTyped
    <3>3. TokenBetween(packet \o bits, marks[k], marks[k + 1])
      BY <1>1, <1>8, <3>1, <3>2, TokenGrows
    <3> QED
      BY <3>2, <3>3
  <2>2. CASE ~(k < N)
    <3>1. k = N
      BY <2>2
    <3>2. marks'[k] = Last(marks) /\ marks'[k + 1] = m
      BY <1>5, <1>6, <3>1 DEF Last
    <3> QED
      BY <1>3, <3>2
  <2> QED
    BY <2>1, <2>2
<1>10. ASSUME NEW k \in 1..N PROVE marks'[k].at + ByteBits <= Len(packet')
  <2>1. PICK mk \in Snapshots : mk = marks[k] /\ mk = marks'[k] /\ mk.at \in Nat
    BY <1>1, <1>5, <1>6, MarkTyped
  <2> HIDE DEF AddToken, client
  <2>2. PICK a \in Nat, n \in Nat, n1 \in Nat :
          a = mk.at /\ n = Len(packet) /\ n1 = Len(packet') /\ n + ByteBits <= n1
    BY <1>7, <2>1
  <2>3. CASE k < N
    <3>1. k \in 1..(N - 1)
      BY <2>3
    <3>2. a + ByteBits <= n
      BY <1>8, <2>1, <2>2, <3>1
    <3>3. a + ByteBits <= n1
      BY <1>7, <2>2, <3>2
    <3> QED
      BY <2>1, <2>2, <3>3
  <2>4. CASE ~(k < N)
    <3>1. k = N
      BY <2>4
    <3>2. a = n
      BY <1>8, <2>1, <2>2, <3>1
    <3>3. a + ByteBits <= n1
      BY <1>7, <2>2, <3>2
    <3> QED
      BY <2>1, <2>2, <3>3
  <2> QED
    BY <2>3, <2>4
<1>11. TokensSpelled'
  <2>1. Last(marks)' = m
    BY <1>5 DEF Last
  <2>2. Len(marks') - 1 - cut' = N /\ Len(marks') - 1 = N
    BY <1>1, <1>6
  <2> QED
    BY <1>1, <1>3, <1>9, <1>10, <2>1, <2>2 DEF TokensSpelled
<1>12. BytesSpelled'
  BY DEF BytesSpelled
<1> QED
  BY <1>2, <1>11, <1>12 DEF MppcCore

\* The last mark is the server's state.
LEMMA LastMark ==
  ASSUME MppcCore, stage = "building", flags.compressed
  PROVE  /\ Last(marks).at = Len(packet) /\ Last(marks).plain = plain
         /\ Last(marks).hist = sHist /\ Last(marks).off = sOffset
BY DEF MppcCore, MarksKept, TokensSpelled

\* A literal.
LEMMA LiteralKeeps ==
  ASSUME MppcCore, NEW b \in Alphabet, AddLiteral(b)
  PROVE  MppcCore'
<1>1. b \in Nat /\ LiteralBits(b) \in Seq({0, 1}) /\ Len(LiteralBits(b)) >= ByteBits
  BY LiteralBitsAreBits, AlphabetAssumption
<1>2. /\ sHist \in Histories /\ sOffset \in 0..HistorySize /\ sOffset < HistorySize
      /\ flags.compressed /\ stage = "building" /\ packet \in Seq({0, 1}) /\ plain \in Seq(Nat)
  BY DEF MppcCore, MppcTypeOK, AddLiteral, AddToken
<1>3. PICK h \in Histories : h = [sHist EXCEPT ![sOffset] = b]
  BY <1>1, <1>2 DEF Histories
<1>4. PICK off \in 0..HistorySize : off = sOffset + 1
  BY <1>2, Sizes
<1>5. PICK bits \in Seq({0, 1}), bytes \in Seq(Nat) : bits = LiteralBits(b) /\ bytes = <<b>>
  <2>1. <<b>> \in Seq(Nat)
    BY <1>1
  <2> QED
    BY <1>1, <2>1
<1>6. AddToken(bits, bytes, h, off)
  BY <1>3, <1>4, <1>5 DEF AddLiteral
<1>7. packet' = packet \o bits /\ plain' = plain \o bytes
  BY <1>6 DEF AddToken
<1>8. Spells(packet', Len(packet), bits)
  BY <1>2, <1>7, SpellsAdded
<1>9. LiteralBetween(packet', Last(marks), Mark(packet', plain', h, off), b)
  <2>1. Len(packet') = Len(packet) + Len(bits) /\ plain' = Append(plain, b)
    BY <1>2, <1>5, <1>7
  <2>2. PICK l : l = Last(marks) /\ l.at = Len(packet) /\ l.plain = plain /\ l.hist = sHist /\ l.off = sOffset
    BY <1>2, LastMark
  <2>3. LiteralBetween(packet', l, Mark(packet', plain', h, off), b)
    BY <1>2, <1>3, <1>4, <1>5, <1>8, <2>1, <2>2 DEF LiteralBetween, Mark
  <2> QED
    BY <2>2, <2>3
<1>10. TokenBetween(packet', Last(marks), Mark(packet', plain', h, off))
  BY <1>9 DEF TokenBetween
<1> QED
  BY <1>1, <1>2, <1>5, <1>6, <1>10, TokenSpelled

\* A copy.
LEMMA CopyKeeps ==
  ASSUME MppcCore, NEW o \in Offsets, NEW l \in Lengths, AddCopy(o, l)
  PROVE  MppcCore'
<1>1. /\ o \in 1..(HistorySize - 1) /\ l \in Nat /\ CopyBits(o, l) \in Seq({0, 1})
      /\ Len(CopyBits(o, l)) >= ByteBits
  BY CopyBitsAreBits, MatchAssumption, Sizes
<1>2. /\ sHist \in Histories /\ sOffset \in 0..HistorySize /\ sOffset + l <= HistorySize
      /\ flags.compressed /\ stage = "building" /\ packet \in Seq({0, 1}) /\ plain \in Seq(Nat)
  BY DEF MppcCore, MppcTypeOK, AddCopy, AddToken
<1>3. PICK h \in Histories : h = Matched(sHist, sOffset, o, l)
  BY <1>1, <1>2, MatchedAt
<1>4. PICK off \in 0..HistorySize : off = sOffset + l
  BY <1>1, <1>2, Sizes
<1>5. PICK bits \in Seq({0, 1}), bytes \in Seq(Nat) : bits = CopyBits(o, l) /\ bytes = Match(sHist, sOffset, o, l)
  BY <1>1, <1>2, MatchIs
<1>6. AddToken(bits, bytes, h, off)
  BY <1>3, <1>4, <1>5 DEF AddCopy
<1>7. packet' = packet \o bits /\ plain' = plain \o bytes
  BY <1>6 DEF AddToken
<1>8. Spells(packet', Len(packet), bits)
  BY <1>2, <1>7, SpellsAdded
<1>9. CopyBetween(packet', Last(marks), Mark(packet', plain', h, off), o, l)
  <2>1. Len(packet') = Len(packet) + Len(bits)
    BY <1>2, <1>7
  <2>2. PICK m : m = Last(marks) /\ m.at = Len(packet) /\ m.plain = plain /\ m.hist = sHist /\ m.off = sOffset
    BY <1>2, LastMark
  <2>3. CopyBetween(packet', m, Mark(packet', plain', h, off), o, l)
    BY <1>2, <1>3, <1>4, <1>5, <1>7, <1>8, <2>1, <2>2 DEF CopyBetween, Mark
  <2> QED
    BY <2>2, <2>3
<1>10. TokenBetween(packet', Last(marks), Mark(packet', plain', h, off))
  BY <1>9 DEF TokenBetween
<1> QED
  BY <1>1, <1>2, <1>5, <1>6, <1>10, TokenSpelled

\* A byte of a packet sent as it is.
LEMMA PlainKeeps ==
  ASSUME MppcCore, NEW b \in Alphabet, AddPlain(b)
  PROVE  MppcCore'
<1>1. b \in Nat /\ b < Pow2(ByteBits) /\ ByteBits \in Nat
  <2>1. Pow2(ByteBits) \in Nat /\ ByteBits \in Nat
    BY Sizes, Pow2Nat
  <2> QED
    BY <2>1, AlphabetAssumption
<1>2. /\ sHist \in Histories /\ sOffset \in 0..HistorySize /\ packet \in Seq({0, 1}) /\ plain \in Seq(Nat)
      /\ ~flags.compressed /\ stage = "building" /\ marks # <<>> /\ marks \in Seq(Snapshots)
  BY DEF MppcCore, MppcTypeOK, MarksKept, AddPlain, AddToken
<1>3. PICK bits \in Seq({0, 1}), bytes \in Seq(Nat) :
        bits = Bits(b, ByteBits) /\ Len(bits) = ByteBits /\ bytes = <<b>>
  <2>1. <<b>> \in Seq(Nat)
    BY <1>1
  <2>2. Bits(b, ByteBits) \in Seq({0, 1}) /\ Len(Bits(b, ByteBits)) = ByteBits
    BY <1>1, BitsAreBits
  <2> QED
    BY <2>1, <2>2
<1>4. AddToken(bits, bytes, sHist, sOffset)
  BY <1>3 DEF AddPlain
<1>5. /\ MppcTypeOK' /\ HeadroomZero' /\ MarksKept' /\ InStep' /\ DecompressesWhatWasSent'
      /\ Mark(packet', plain', sHist, sOffset) \in Snapshots
  BY <1>2, <1>4, TokenKeeps
<1>6. /\ packet' = packet \o bits /\ plain' = plain \o bytes /\ sHist' = sHist /\ sOffset' = sOffset
      /\ flags' = flags /\ marks' = Append(marks, Mark(packet', plain', sHist, sOffset))
  BY <1>4 DEF AddToken
<1>7. marks'[1] = marks[1]
  BY <1>2, <1>5, <1>6, MarkAdded
<1>8. /\ sHist = marks[1].hist /\ sOffset = marks[1].off /\ Len(packet) = ByteBits * Len(plain)
      /\ \A i \in 1..Len(plain) :
            plain[i] < Pow2(ByteBits) /\ Spells(packet, (i - 1) * ByteBits, Bits(plain[i], ByteBits))
  BY <1>2 DEF MppcCore, BytesSpelled
<1>9. PICK n \in Nat : n = Len(plain)
  BY <1>2
<1>10. /\ Len(plain') = n + 1 /\ plain'[n + 1] = b /\ \A i \in 1..n : plain'[i] = plain[i] /\ plain[i] \in Nat
  BY <1>2, <1>3, <1>6, <1>9
<1>11. Len(packet') = ByteBits * (n + 1)
  <2>1. Len(packet') = Len(packet) + ByteBits
    BY <1>2, <1>3, <1>6
  <2>2. ByteBits * (n + 1) = ByteBits * n + ByteBits
    BY <1>1
  <2> QED
    BY <1>8, <1>9, <2>1, <2>2
<1>12. ASSUME NEW i \in 1..(n + 1)
       PROVE  plain'[i] < Pow2(ByteBits) /\ Spells(packet', (i - 1) * ByteBits, Bits(plain'[i], ByteBits))
  <2>1. CASE i \in 1..n
    <3>1. PICK v \in Nat : v = plain[i] /\ v = plain'[i]
      BY <1>10, <2>1
    <3>2. PICK p \in Nat : p = (i - 1) * ByteBits
      <4>1. i - 1 \in Nat
        BY <2>1
      <4>2. (i - 1) * ByteBits \in Nat
        BY <1>1, <4>1
      <4> QED
        BY <4>2
    <3>3. v < Pow2(ByteBits) /\ Spells(packet, p, Bits(v, ByteBits))
      BY <1>8, <1>9, <2>1, <3>1, <3>2
    <3>4. Bits(v, ByteBits) \in Seq({0, 1})
      BY <1>1, BitsAreBits
    <3>5. Spells(packet \o bits, p, Bits(v, ByteBits))
      BY <1>2, <3>3, <3>4, SpellsGrows
    <3> QED
      BY <1>6, <3>1, <3>2, <3>3, <3>5
  <2>2. CASE i = n + 1
    <3>1. (i - 1) * ByteBits = Len(packet)
      <4>1. i - 1 = n /\ n * ByteBits = ByteBits * n
        BY <1>1, <2>2
      <4> QED
        BY <1>8, <1>9, <4>1
    <3>2. Spells(packet \o bits, Len(packet), bits)
      BY <1>2, SpellsAdded
    <3> QED
      BY <1>1, <1>3, <1>6, <1>10, <2>2, <3>1, <3>2
  <2> QED
    BY <2>1, <2>2
<1>13. BytesSpelled'
  BY <1>6, <1>7, <1>8, <1>10, <1>11, <1>12 DEF BytesSpelled
<1>14. TokensSpelled'
  BY <1>2, <1>6 DEF TokensSpelled
<1> QED
  BY <1>5, <1>13, <1>14 DEF MppcCore

\* Less than a byte is missing, and nothing from whole bytes.
LEMMA MissingIs ==
  ASSUME NEW n \in Nat
  PROVE  Missing(n) \in 0..ByteBits - 1 /\ \A k \in Nat : n = ByteBits * k => Missing(n) = 0
<1>1. PICK b \in Nat \ {0, 1} : b = ByteBits
  BY Sizes
<1>2. PICK r \in 0..b - 1 : r = n % b
  OBVIOUS
<1>3. PICK m \in Int : m = b - r
  OBVIOUS
<1>4. m % b \in 0..b - 1
  OBVIOUS
<1>5. ASSUME NEW k \in Nat, n = b * k PROVE m % b = 0
  <2>1. b * k = k * b + 0
    OBVIOUS
  <2>2. (k * b + 0) % b = 0
    <3>1. PICK z \in 0..b - 1, q \in Int : z = 0 /\ q = k
      OBVIOUS
    <3>2. b \in Nat \ {0}
      OBVIOUS
    <3>3. (q * b + z) % b = z
      BY <3>2, DivMod, Zenon
    <3> QED
      BY <3>1, <3>3
  <2>3. m = b
    BY <1>2, <1>3, <1>5, <2>1, <2>2
  <2> QED
    BY <2>3
<1> QED
  BY <1>1, <1>2, <1>3, <1>4, <1>5 DEF Missing

\* What is handed over is what the packet spells, but for the cut.
LEMMA HandedIs ==
  ASSUME NEW q \in Seq({0, 1}), NEW short \in BOOLEAN,
         short => Len(q) + Missing(Len(q)) > ByteBits
  PROVE  /\ Handed(q, short) \in Seq({0, 1})
         /\ short => Len(Handed(q, short)) + ByteBits >= Len(q)
         /\ ~short => Len(Handed(q, short)) - Len(q) \in 0..ByteBits - 1
         /\ \A k \in Nat : ~short /\ Len(q) = ByteBits * k => Handed(q, short) = q
         /\ \A m \in Snapshots, n \in Snapshots :
              TokenBetween(q, m, n) /\ n.at <= Len(Handed(q, short)) => TokenBetween(Handed(q, short), m, n)
<1>1. PICK z \in 0..ByteBits - 1 : z = Missing(Len(q))
  BY MissingIs
<1>2. PICK t \in Seq({0, 1}) : t = [i \in 1..z |-> 0] /\ Len(t) = z
  <2>1. z \in Nat
    BY Sizes
  <2>2. [i \in 1..z |-> 0] \in Seq({0, 1}) /\ Len([i \in 1..z |-> 0]) = z
    BY <2>1
  <2> QED
    BY <2>2
<1>3. PICK w \in Seq({0, 1}) : w = q \o t /\ Len(w) = Len(q) + z
  <2>1. q \o t \in Seq({0, 1}) /\ Len(q \o t) = Len(q) + Len(t)
    OBVIOUS
  <2> QED
    BY <1>2, <2>1
<1>4. Len(q) \in Nat /\ ByteBits \in Nat /\ z \in Nat
  BY Sizes
<1>5. Handed(q, short) = IF short THEN SubSeq(w, 1, Len(w) - ByteBits) ELSE w
  BY <1>1, <1>2, <1>3, Zenon DEF Handed
<1>6. ASSUME NEW m \in Snapshots, NEW n \in Snapshots, TokenBetween(q, m, n)
      PROVE  TokenBetween(w, m, n)
  BY <1>3, <1>6, TokenGrows
<1>7. CASE short
  <2>1. PICK N \in 0..Len(w) : N = Len(w) - ByteBits
    BY <1>1, <1>3, <1>4, <1>7
  <2>2. SubSeq(w, 1, N) \in Seq({0, 1}) /\ Len(SubSeq(w, 1, N)) = N
    <3>1. Len(w) \in Nat
      OBVIOUS
    <3>2. \A i \in 1..N : w[i] \in {0, 1}
      BY <3>1
    <3> QED
      BY <3>1, <3>2
  <2>3. Handed(q, short) = SubSeq(w, 1, N)
    BY <1>5, <1>7, <2>1
  <2>4. N + ByteBits >= Len(q)
    BY <1>3, <1>4, <2>1
  <2>5. ASSUME NEW m \in Snapshots, NEW n \in Snapshots, TokenBetween(q, m, n), n.at <= N
        PROVE  TokenBetween(SubSeq(w, 1, N), m, n)
    BY <1>6, <2>5, TokenCut
  <2> QED
    BY <1>7, <2>2, <2>3, <2>4, <2>5
<1>8. CASE ~short
  <2>1. Handed(q, short) = w
    BY <1>5, <1>8
  <2>2. Len(w) - Len(q) \in 0..ByteBits - 1
    BY <1>3, <1>4
  <2>3. ASSUME NEW k \in Nat, Len(q) = ByteBits * k PROVE w = q
    <3>1. z = 0
      BY <1>1, <1>4, <2>3, MissingIs
    <3>2. Len(w) = Len(q) /\ \A i \in 1..Len(q) : w[i] = q[i]
      BY <1>3, <1>4, <3>1
    <3> QED
      BY <3>2
  <2> QED
    BY <1>6, <1>8, <2>1, <2>2, <2>3
<1> QED
  BY <1>7, <1>8

\* The packet is handed over.
LEMMA DeliverKeeps ==
  ASSUME MppcCore, NEW short \in BOOLEAN, Deliver(short)
  PROVE  MppcCore'
<1>1. /\ MppcTypeOK /\ HeadroomZero /\ MarksKept /\ TokensSpelled /\ BytesSpelled /\ InStep
      /\ stage = "building" /\ cut = 0 /\ plain # <<>>
  BY DEF MppcCore, InStep, Deliver
<1>2. /\ packet \in Seq({0, 1}) /\ plain \in Seq(Nat) /\ marks \in Seq(Snapshots) /\ marks # <<>>
      /\ history \in Histories /\ offset \in 0..HistorySize
      /\ flags.compressed \in BOOLEAN /\ flags.flushed \in BOOLEAN /\ flags.at_front \in BOOLEAN
      /\ astray \in BOOLEAN
  BY <1>1 DEF MppcTypeOK, MarksKept
<1>3. /\ packet' = Handed(packet, short) /\ cut' = (IF short THEN 1 ELSE 0)
      /\ pos' = 0 /\ out' = <<>> /\ stage' = "decoding"
      /\ strayed' = (astray /\ ~flags.flushed) /\ astray' = (short \/ strayed')
      /\ short => flags.compressed /\ Len(packet) + Missing(Len(packet)) > ByteBits
      /\ UNCHANGED <<sHist, sOffset, flags, plain, marks, packets, tokens>>
  BY DEF Deliver
<1>4. PICK N \in Nat \ {0} : N = Len(marks) /\ N > 1
  <2>1. Len(marks) \in Nat \ {0}
    BY <1>2
  <2>2. Len(marks) # 1
    <3>1. SUFFICES ASSUME Len(marks) = 1 PROVE FALSE
      OBVIOUS
    <3>2. Last(marks) = marks[1]
      BY <3>1 DEF Last
    <3> QED
      BY <1>1, <3>2 DEF MarksKept
  <2>3. Len(marks) > 1
    <3>1. \A n \in Nat \ {0} : n # 1 => n > 1
      OBVIOUS
    <3> QED
      BY <2>1, <2>2, <3>1, Zenon
  <2> QED
    BY <2>1, <2>3
<1>5. Zeros \in Histories
  BY Sizes DEF Zeros, Histories
<1>6. history' = IF flags.flushed THEN Zeros ELSE history
  <2>1. history' = IF flags.flushed
                   THEN [i \in DOMAIN history |-> IF i < HistorySize THEN 0 ELSE history[i]]
                   ELSE history
    BY DEF Deliver
  <2>2. DOMAIN history = 0..HistoryCap - 1
    BY <1>2 DEF Histories
  <2>3. ASSUME NEW i \in 0..HistoryCap - 1 PROVE (IF i < HistorySize THEN 0 ELSE history[i]) = 0
    <3>1. CASE i < HistorySize
      BY <3>1
    <3>2. CASE ~(i < HistorySize)
      <4>1. i \in HistorySize..HistoryCap - 1
        BY <3>2, Sizes
      <4> QED
        BY <1>1, <3>2, <4>1 DEF HeadroomZero
    <3> QED
      BY <3>1, <3>2
  <2>4. [i \in 0..HistoryCap - 1 |-> IF i < HistorySize THEN 0 ELSE history[i]] = Zeros
    BY <2>3 DEF Zeros
  <2> QED
    BY <2>1, <2>2, <2>4
<1>7. history' \in Histories /\ HeadroomZero'
  <2>1. CASE flags.flushed
    <3>1. \A i \in HistorySize..HistoryCap - 1 : i \in 0..HistoryCap - 1
      BY Sizes
    <3> QED
      BY <1>5, <1>6, <2>1, <3>1 DEF HeadroomZero, Zeros
  <2>2. CASE ~flags.flushed
    BY <1>1, <1>2, <1>6, <2>2 DEF HeadroomZero
  <2> QED
    BY <2>1, <2>2
<1>8. offset' = IF flags.flushed \/ flags.at_front THEN 0 ELSE offset
  BY DEF Deliver
<1>9. /\ packet' \in Seq({0, 1})
      /\ short => Len(packet') + ByteBits >= Len(packet)
      /\ ~short => Len(packet') - Len(packet) \in 0..ByteBits - 1
      /\ \A k \in Nat : ~short /\ Len(packet) = ByteBits * k => packet' = packet
      /\ \A m \in Snapshots, n \in Snapshots :
           TokenBetween(packet, m, n) /\ n.at <= Len(packet') => TokenBetween(packet', m, n)
  BY <1>2, <1>3, HandedIs, Zenon
<1>10. MppcTypeOK'
  <2>1. 0 \in Nat /\ <<>> \in Seq(Nat) /\ 0 \in 0..HistorySize
    BY Sizes
  <2>2. offset' \in 0..HistorySize /\ cut' \in {0, 1} /\ strayed' \in BOOLEAN /\ astray' \in BOOLEAN
    BY <1>2, <1>3, <1>8, <2>1
  <2> QED
    BY <1>1, <1>3, <1>7, <1>9, <2>1, <2>2 DEF MppcTypeOK
<1>11. MarksKept'
  BY <1>1, <1>3 DEF MarksKept
<1>12. TokensSpelled'
  <2>1. ASSUME flags.compressed
        PROVE  /\ \A k \in 1..(N - 1 - cut') : TokenBetween(packet', marks[k], marks[k + 1])
               /\ cut' = 0 => Len(packet') - Last(marks).at \in 0..ByteBits - 1
    <3>1. /\ \A k \in 1..(N - 1) : TokenBetween(packet, marks[k], marks[k + 1])
          /\ marks[N].at = Len(packet) /\ Last(marks).at = Len(packet)
          /\ \A k \in 1..(N - 1) : marks[k].at + ByteBits <= Len(packet)
      BY <1>1, <1>4, <2>1 DEF TokensSpelled, Last
    <3>2. ASSUME NEW k \in 1..(N - 1 - cut') PROVE TokenBetween(packet', marks[k], marks[k + 1])
      <4>1. k \in 1..(N - 1) /\ k \in 1..N /\ k + 1 \in 1..N /\ (short => k + 1 \in 1..(N - 1))
        BY <1>3
      <4>2. PICK m \in Snapshots, n \in Snapshots : m = marks[k] /\ n = marks[k + 1] /\ n.at \in Nat
        <5>1. marks[k] \in Snapshots /\ marks[k + 1] \in Snapshots /\ marks[k + 1].at \in Nat
          BY <1>2, <1>4, <4>1, MarkTyped
        <5> QED
          BY <5>1
      <4>3. n.at <= Len(packet')
        <5>1. PICK a \in Nat, p \in Nat, p1 \in Nat : a = n.at /\ p = Len(packet) /\ p1 = Len(packet')
          BY <1>2, <1>9, <4>2
        <5>2. CASE short
          <6>1. a + ByteBits <= p
            BY <3>1, <4>1, <4>2, <5>1, <5>2
          <6>2. p1 + ByteBits >= p
            BY <1>9, <5>1, <5>2
          <6> QED
            BY <5>1, <6>1, <6>2, Sizes
        <5>3. CASE ~short
          <6>1. p1 >= p
            BY <1>9, <5>1, <5>3
          <6>2. a + ByteBits <= p \/ a = p
            <7>1. k + 1 \in 1..(N - 1) \/ k + 1 = N
              BY <4>1
            <7> QED
              BY <3>1, <4>2, <5>1, <7>1
          <6> QED
            BY <5>1, <6>1, <6>2, Sizes
        <5> QED
          BY <5>2, <5>3
      <4>4. TokenBetween(packet, m, n)
        BY <3>1, <4>1, <4>2
      <4> QED
        BY <1>9, <4>2, <4>3, <4>4
    <3>3. ASSUME cut' = 0 PROVE Len(packet') - Last(marks).at \in 0..ByteBits - 1
      BY <1>3, <1>9, <3>1, <3>3
    <3> QED
      BY <3>2, <3>3
  <2> QED
    BY <1>3, <1>4, <2>1 DEF TokensSpelled
<1>13. BytesSpelled'
  <2>1. ASSUME ~flags.compressed PROVE packet' = packet
    <3>1. Len(packet) = ByteBits * Len(plain) /\ Len(plain) \in Nat
      BY <1>1, <1>2, <2>1 DEF BytesSpelled
    <3> QED
      BY <1>3, <1>9, <2>1, <3>1
  <2>2. CASE flags.compressed
    BY <1>3, <2>2 DEF BytesSpelled
  <2>3. CASE ~flags.compressed
    BY <1>1, <1>3, <2>1, <2>3 DEF BytesSpelled
  <2> QED
    BY <2>2, <2>3
<1>14. InStep'
  <2>1. ASSUME ~strayed' PROVE history' = marks[1].hist /\ offset' = marks[1].off
    <3>1. AtStart
      BY <1>1, <1>2, <1>3, <2>1 DEF InStep
    <3> QED
      BY <1>6, <1>8, <3>1 DEF AtStart
  <2>2. ASSUME ~strayed' PROVE IF flags.compressed THEN OnTheWay' ELSE history' = sHist /\ offset' = sOffset
    <3>1. CASE flags.compressed
      <4>1. 1 \in 1..(Len(marks') - cut')
        BY <1>3, <1>4
      <4>2. AtMark(1)'
        BY <1>1, <1>3, <2>1, <2>2 DEF AtMark, MarksKept
      <4>3. OnTheWay'
        BY <4>1, <4>2 DEF OnTheWay, AtMark
      <4> QED
        BY <3>1, <4>3
    <3>2. CASE ~flags.compressed
      BY <1>1, <2>1, <2>2, <3>2 DEF BytesSpelled
    <3> QED
      BY <3>1, <3>2
  <2>3. cut' = 1 => Len(marks') > 1 /\ flags'.compressed
    BY <1>3, <1>4
  <2>4. astray' <=> cut' = 1 \/ strayed'
    BY <1>3
  <2> QED
    BY <1>3, <2>2, <2>3, <2>4 DEF InStep
<1>15. DecompressesWhatWasSent'
  BY <1>3 DEF DecompressesWhatWasSent
<1> QED
  BY <1>7, <1>10, <1>11, <1>12, <1>13, <1>14, <1>15 DEF MppcCore

-----------------------------------------------------------------------------
(* The client's steps *)

\* The client is at mark m.
At(m) == pos = m.at /\ history = m.hist /\ offset = m.off /\ out = m.plain

\* The next token of the packet is a literal: what the bits say.
LEMMA AtLiteral ==
  ASSUME MppcCore, NEW m \in Snapshots, NEW n, NEW b \in Alphabet, LiteralBetween(packet, m, n, b), At(m)
  PROVE  /\ pos + ByteBits <= Len(packet) /\ offset < HistorySize
         /\ \/ /\ Bit(packet, pos) = 0 /\ ReadBits(packet, pos + 1, LitBits) = b
               /\ n.at = pos + (1 + LitBits)
            \/ /\ Bit(packet, pos) = 1 /\ Bit(packet, pos + 1) = 0
               /\ Pow2(LitBits) + ReadBits(packet, pos + 2, LitBits) = b
               /\ n.at = pos + (2 + LitBits)
         /\ n.plain = Append(out, b) /\ n.hist = [history EXCEPT ![offset] = b] /\ n.off = offset + 1
<1>1. packet \in Seq({0, 1}) /\ pos \in Nat
  BY DEF MppcCore, MppcTypeOK
<1>2. /\ offset < HistorySize /\ Spells(packet, pos, LiteralBits(b))
      /\ n.at = pos + Len(LiteralBits(b)) /\ n.plain = Append(out, b)
      /\ n.hist = [history EXCEPT ![offset] = b] /\ n.off = offset + 1
  BY DEF LiteralBetween, At
<1>3. LiteralRead(packet, pos, b)
  BY <1>1, <1>2, LiteralDecodes
<1>4. pos + ByteBits <= Len(packet)
  <2>1. pos + Len(LiteralBits(b)) <= Len(packet)
    BY <1>2 DEF Spells
  <2>2. Len(LiteralBits(b)) >= ByteBits /\ LiteralBits(b) \in Seq({0, 1})
    BY LiteralBitsAreBits
  <2>3. PICK w \in Nat, z \in Nat : w = Len(LiteralBits(b)) /\ z = Len(packet)
    BY <1>1, <2>2
  <2> QED
    BY <1>1, <2>1, <2>2, <2>3, Sizes
<1> QED
  BY <1>2, <1>3, <1>4 DEF LiteralRead

\* The next token of the packet is a copy.
LEMMA AtCopy ==
  ASSUME MppcCore, NEW m \in Snapshots, NEW n, NEW o \in Offsets, NEW l \in Lengths,
         CopyBetween(packet, m, n, o, l), At(m)
  PROVE  /\ pos + ByteBits <= Len(packet) /\ offset < HistorySize
         /\ IsCopy /\ CopyFits /\ CopyOffset.v = o /\ CopyLength.v = l /\ CopyLength.next = n.at
         /\ n.plain = out \o Match(history, offset, o, l) /\ n.hist = Matched(history, offset, o, l)
         /\ n.off = offset + l /\ offset + l <= HistorySize
<1>1. packet \in Seq({0, 1}) /\ pos \in Nat /\ offset \in 0..HistorySize
  BY DEF MppcCore, MppcTypeOK
<1>2. /\ offset + l <= HistorySize /\ Spells(packet, pos, CopyBits(o, l))
      /\ n.at = pos + Len(CopyBits(o, l)) /\ n.plain = out \o Match(history, offset, o, l)
      /\ n.hist = Matched(history, offset, o, l) /\ n.off = offset + l
  BY DEF CopyBetween, At
<1>3. CopyRead(packet, pos, o, l)
  BY <1>1, <1>2, CopyDecodes
<1>4. CopyOffset = DecodeOffset(packet, pos + 2) /\ CopyOffset.v = o /\ CopyOffset.next \in Nat
  <2>1. pos + 2 \in Nat
    BY <1>1
  <2>2. CopyOffset = DecodeOffset(packet, pos + 2)
    BY <2>1 DEF CopyOffset, OffsetAt
  <2> QED
    BY <1>3, <2>2 DEF CopyRead
<1>5. CopyLength = [v |-> l, next |-> n.at]
  <2>1. CopyLength = DecodeLength(packet, CopyOffset.next)
    BY <1>4 DEF CopyLength, LengthAt
  <2> QED
    BY <1>2, <1>3, <1>4, <2>1 DEF CopyRead
<1>6. pos + ByteBits <= Len(packet)
  <2>1. pos + Len(CopyBits(o, l)) <= Len(packet)
    BY <1>2 DEF Spells
  <2>2. Len(CopyBits(o, l)) >= ByteBits /\ CopyBits(o, l) \in Seq({0, 1})
    BY CopyBitsAreBits
  <2>3. PICK w \in Nat, z \in Nat : w = Len(CopyBits(o, l)) /\ z = Len(packet)
    BY <1>1, <2>2
  <2> QED
    BY <1>1, <2>1, <2>2, <2>3, Sizes
<1>7. o # 0 /\ l \in Nat /\ l > 0 /\ offset < HistorySize
  BY <1>1, <1>2, MatchAssumption, Sizes
<1>8. IsCopy /\ CopyFits
  BY <1>2, <1>3, <1>4, <1>5, <1>7 DEF IsCopy, CopyFits, CopyRead
<1> QED
  BY <1>2, <1>4, <1>5, <1>6, <1>7, <1>8

\* Before a token of the packet the loop goes on.
LEMMA TokenGoesOn ==
  ASSUME MppcCore, NEW m \in Snapshots, NEW n, TokenBetween(packet, m, n), At(m)
  PROVE  MoreBits /\ offset < HistorySize /\ ~(IsCopy /\ ~CopyFits)
<1>1. pos \in Nat /\ packet \in Seq({0, 1}) /\ Len(packet) \in Nat
  BY DEF MppcCore, MppcTypeOK
<1>2. ASSUME pos + ByteBits <= Len(packet) PROVE MoreBits
  BY <1>1, <1>2, Sizes DEF MoreBits
<1>3. ASSUME NEW b \in Alphabet, LiteralBetween(packet, m, n, b)
      PROVE  MoreBits /\ offset < HistorySize /\ ~IsCopy
  <2>1. /\ pos + ByteBits <= Len(packet) /\ offset < HistorySize
        /\ Bit(packet, pos) = 0 \/ (Bit(packet, pos) = 1 /\ Bit(packet, pos + 1) = 0)
    BY <1>3, AtLiteral
  <2>2. ~IsCopy
    BY <2>1 DEF IsCopy
  <2> QED
    BY <1>2, <2>1, <2>2
<1>4. ASSUME NEW o \in Offsets, NEW l \in Lengths, CopyBetween(packet, m, n, o, l)
      PROVE  MoreBits /\ offset < HistorySize /\ CopyFits
  <2>1. pos + ByteBits <= Len(packet) /\ offset < HistorySize /\ CopyFits
    BY <1>4, AtCopy
  <2> QED
    BY <1>2, <2>1
<1> QED
  BY <1>3, <1>4 DEF TokenBetween

\* Decoding a token goes from mark to mark.
LEMMA TokenDecoded ==
  ASSUME MppcCore, NEW m \in Snapshots, NEW n, TokenBetween(packet, m, n), At(m),
         LiteralLow \/ LiteralHigh \/ Copy
  PROVE  pos' = n.at /\ history' = n.hist /\ offset' = n.off /\ out' = n.plain
<1>1. pos \in Nat /\ packet \in Seq({0, 1}) /\ history \in Histories /\ offset \in 0..HistorySize
  BY DEF MppcCore, MppcTypeOK
<1>2. LitBits \in Nat
  BY Sizes
<1>3. ASSUME NEW b \in Alphabet, LiteralBetween(packet, m, n, b)
      PROVE  pos' = n.at /\ history' = n.hist /\ offset' = n.off /\ out' = n.plain
  <2>1. /\ \/ /\ Bit(packet, pos) = 0 /\ ReadBits(packet, pos + 1, LitBits) = b
              /\ n.at = pos + (1 + LitBits)
           \/ /\ Bit(packet, pos) = 1 /\ Bit(packet, pos + 1) = 0
              /\ Pow2(LitBits) + ReadBits(packet, pos + 2, LitBits) = b
              /\ n.at = pos + (2 + LitBits)
        /\ n.plain = Append(out, b) /\ n.hist = [history EXCEPT ![offset] = b] /\ n.off = offset + 1
    BY <1>3, AtLiteral
  <2>2. Emit(b) /\ pos' = n.at
    <3>1. CASE Bit(packet, pos) = 0 /\ ReadBits(packet, pos + 1, LitBits) = b /\ n.at = pos + (1 + LitBits)
      <4>1. LiteralLow
        BY <3>1 DEF LiteralHigh, Copy, IsCopy
      <4>2. pos' = pos + (1 + LitBits)
        BY <1>1, <1>2, <4>1 DEF LiteralLow
      <4>3. Emit(b)
        BY <3>1, <4>1 DEF LiteralLow
      <4> QED
        BY <3>1, <4>2, <4>3
    <3>2. CASE /\ Bit(packet, pos) = 1 /\ Bit(packet, pos + 1) = 0
               /\ Pow2(LitBits) + ReadBits(packet, pos + 2, LitBits) = b /\ n.at = pos + (2 + LitBits)
      <4>1. LiteralHigh
        BY <3>2 DEF LiteralLow, Copy, IsCopy
      <4>2. pos' = pos + (2 + LitBits)
        BY <1>1, <1>2, <4>1 DEF LiteralHigh
      <4>3. Emit(b)
        BY <3>2, <4>1 DEF LiteralHigh
      <4> QED
        BY <3>2, <4>2, <4>3
    <3> QED
      BY <2>1, <3>1, <3>2
  <2> QED
    BY <2>1, <2>2 DEF Emit
<1>4. ASSUME NEW o \in Offsets, NEW l \in Lengths, CopyBetween(packet, m, n, o, l)
      PROVE  pos' = n.at /\ history' = n.hist /\ offset' = n.off /\ out' = n.plain
  <2>1. /\ IsCopy /\ CopyOffset.v = o /\ CopyLength.v = l /\ CopyLength.next = n.at
        /\ n.plain = out \o Match(history, offset, o, l) /\ n.hist = Matched(history, offset, o, l)
        /\ n.off = offset + l /\ offset + l <= HistorySize
    BY <1>4, AtCopy
  <2>2. Copy
    BY <2>1 DEF LiteralLow, LiteralHigh, IsCopy
  <2>3. o \in 1..(HistorySize - 1) /\ l \in Nat
    BY MatchAssumption, Sizes
  <2>4. Copied(history, offset, Source(offset, o), l) = Matched(history, offset, o, l)
    BY <1>1, <2>1, <2>3, CopiedIsMatched
  <2>5. history' = Matched(history, offset, o, l)
    BY <2>1, <2>2, <2>4 DEF Copy
  <2>6. Match(history, offset, o, l) = [i \in 1..l |-> history'[offset + i - 1]]
    <3>1. Match(history, offset, o, l) = [i \in 1..l |-> Matched(history, offset, o, l)[offset + i - 1]]
      BY <1>1, <2>1, <2>3, MatchIs, Zenon
    <3> QED
      BY <2>5, <3>1, Zenon
  <2>7. out' = out \o Match(history, offset, o, l)
    BY <2>1, <2>2, <2>6 DEF Copy
  <2> QED
    BY <2>1, <2>2, <2>5, <2>7 DEF Copy
<1> QED
  BY <1>3, <1>4 DEF TokenBetween

\* What a decoding step leaves: values of their types, the headroom zero, and the
\* plaintext so far with something added.
Decoded ==
  /\ pos' \in Nat /\ history' \in Histories /\ offset' \in 0..HistorySize /\ out' \in Seq(Nat)
  /\ HeadroomZero'
  /\ \E t \in Seq(Nat) : out' = out \o t
  /\ UNCHANGED <<sender, stage, astray, strayed>>

\* A literal.
LEMMA EmitDecodes ==
  ASSUME MppcCore, offset < HistorySize, NEW b \in Nat, Emit(b), pos' \in Nat
  PROVE  Decoded
<1>1. history \in Histories /\ offset \in 0..HistorySize /\ out \in Seq(Nat) /\ HeadroomZero
  BY DEF MppcCore, MppcTypeOK
<1>2. /\ history' = [history EXCEPT ![offset] = b] /\ out' = Append(out, b) /\ offset' = offset + 1
      /\ UNCHANGED <<sender, stage, astray, strayed>>
  BY DEF Emit
<1>3. offset' \in 0..HistorySize
  BY <1>1, <1>2, Sizes
<1>4. history' \in Histories
  BY <1>1, <1>2 DEF Histories
<1>5. HeadroomZero'
  <2>1. \A i \in HistorySize..HistoryCap - 1 : i # offset /\ i \in 0..HistoryCap - 1
    BY <1>1, Sizes
  <2> QED
    BY <1>1, <1>2, <2>1 DEF HeadroomZero, Histories
<1>6. out' \in Seq(Nat) /\ <<b>> \in Seq(Nat) /\ out' = out \o <<b>>
  BY <1>1, <1>2
<1> QED
  BY <1>2, <1>3, <1>4, <1>5, <1>6 DEF Decoded

\* Any step of the decoding, whatever the bits.
LEMMA StepDecodes ==
  ASSUME MppcCore, LiteralLow \/ LiteralHigh \/ Copy
  PROVE  Decoded
<1>1. /\ packet \in Seq({0, 1}) /\ pos \in Nat /\ history \in Histories
      /\ offset \in 0..HistorySize /\ out \in Seq(Nat) /\ HeadroomZero
  BY DEF MppcCore, MppcTypeOK
<1>2. LitBits \in Nat /\ Pow2(LitBits) \in Nat
  BY Sizes, Pow2Nat
<1>3. CASE LiteralLow
  <2>1. pos + 1 \in Nat
    BY <1>1
  <2>2. ReadBits(packet, pos + 1, LitBits) \in Nat
    BY <1>1, <1>2, <2>1, ShiftedNat DEF ReadBits
  <2>3. /\ offset < HistorySize /\ Emit(ReadBits(packet, pos + 1, LitBits))
        /\ pos' = pos + 1 + LitBits
    BY <1>3 DEF LiteralLow, Decoding
  <2>4. pos' \in Nat
    BY <1>1, <1>2, <2>3
  <2> QED
    BY <2>2, <2>3, <2>4, EmitDecodes
<1>4. CASE LiteralHigh
  <2>1. pos + 2 \in Nat
    BY <1>1
  <2>2. ReadBits(packet, pos + 2, LitBits) \in Nat
    BY <1>1, <1>2, <2>1, ShiftedNat DEF ReadBits
  <2>3. PICK b \in Nat : b = Pow2(LitBits) + ReadBits(packet, pos + 2, LitBits)
    BY <1>2, <2>2
  <2>4. offset < HistorySize /\ Emit(b) /\ pos' = pos + 2 + LitBits
    BY <1>4, <2>3 DEF LiteralHigh, Decoding
  <2>5. pos' \in Nat
    BY <1>1, <1>2, <2>4
  <2> QED
    BY <2>4, <2>5, EmitDecodes
<1>5. CASE Copy
  <2>1. CopyOffset.v \in Nat /\ CopyOffset.next \in Nat
    <3>1. pos + 2 \in Nat
      BY <1>1
    <3>2. CopyOffset = DecodeOffset(packet, pos + 2)
      BY <3>1 DEF CopyOffset, OffsetAt
    <3> QED
      BY <1>1, <3>1, <3>2, DecodesNat
  <2>2. CopyLength.v \in Nat /\ CopyLength.next \in Nat
    <3>1. CopyLength = DecodeLength(packet, CopyOffset.next)
      BY <2>1 DEF CopyLength, LengthAt
    <3> QED
      BY <1>1, <2>1, <3>1, DecodesNat
  <2>3. PICK o \in Nat, l \in Nat : o = CopyOffset.v /\ l = CopyLength.v
    BY <2>1, <2>2
  <2>4. /\ offset + l <= HistorySize
        /\ history' = Copied(history, offset, Source(offset, o), l)
        /\ out' = out \o [i \in 1..l |-> history'[offset + i - 1]]
        /\ offset' = offset + l /\ pos' = CopyLength.next
        /\ UNCHANGED <<sender, stage, astray, strayed>>
    BY <1>5, <2>3 DEF Copy, CopyFits
  <2>5. Source(offset, o) \in 0..HistorySize - 1
    BY <1>1, SourceIs
  <2>6. /\ history' \in Histories
        /\ \A x \in HistorySize..HistoryCap - 1 : history'[x] = history[x]
    BY <1>1, <2>4, <2>5, CopiedSafe
  <2>7. HeadroomZero'
    BY <1>1, <2>6 DEF HeadroomZero
  <2>8. [i \in 1..l |-> history'[offset + i - 1]] \in Seq(Nat)
    <3>1. ASSUME NEW i \in 1..l PROVE history'[offset + i - 1] \in Nat
      <4>1. offset + i - 1 \in 0..HistoryCap - 1
        BY <1>1, <2>4, Sizes
      <4> QED
        BY <2>6, <4>1 DEF Histories
    <3> QED
      BY <3>1
  <2>9. out' \in Seq(Nat) /\ \E t \in Seq(Nat) : out' = out \o t
    <3>1. PICK t \in Seq(Nat) : t = [i \in 1..l |-> history'[offset + i - 1]]
      BY <2>8
    <3>2. out' = out \o t
      BY <2>4, <3>1
    <3>3. out \o t \in Seq(Nat)
      BY <1>1
    <3>4. out' \in Seq(Nat)
      BY <3>2, <3>3, Zenon
    <3> QED
      BY <3>2, <3>4
  <2>10. offset' \in 0..HistorySize
    BY <1>1, <2>4, Sizes
  <2> QED
    BY <2>2, <2>4, <2>6, <2>7, <2>9, <2>10 DEF Decoded
<1> QED
  BY <1>3, <1>4, <1>5

\* No copy leaves the buffer, whatever the bits say.
LEMMA CopyInside ==
  ASSUME MppcTypeOK, HeadroomZero
  PROVE  WindowSafe
<1>1. packet \in Seq({0, 1}) /\ pos \in Nat /\ offset \in 0..HistorySize
  BY DEF MppcTypeOK
<1>2. CopyOffset.v \in Nat /\ CopyOffset.next \in Nat
  <2>1. pos + 2 \in Nat
    BY <1>1
  <2>2. CopyOffset = DecodeOffset(packet, pos + 2)
    BY <2>1 DEF CopyOffset, OffsetAt
  <2> QED
    BY <1>1, <2>1, <2>2, DecodesNat
<1>3. CopyLength.v \in Nat
  <2>1. CopyLength = DecodeLength(packet, CopyOffset.next)
    BY <1>2 DEF CopyLength, LengthAt
  <2> QED
    BY <1>1, <1>2, <2>1, DecodesNat
<1>4. Source(offset, CopyOffset.v) \in 0..HistorySize - 1
  BY <1>1, <1>2, SourceIs
<1>5. ASSUME offset + CopyLength.v <= HistorySize
      PROVE  Source(offset, CopyOffset.v) + CopyLength.v <= HistoryCap
  <2>1. PICK s \in 0..HistorySize - 1, l \in Nat : s = Source(offset, CopyOffset.v) /\ l = CopyLength.v
    BY <1>3, <1>4
  <2> QED
    BY <1>1, <1>5, <2>1, Sizes
<1> QED
  BY <1>5 DEF WindowSafe, CopyFits

\* The state outside the client's hands.
LEMMA DecodeKeeps ==
  ASSUME MppcCore, LiteralLow \/ LiteralHigh \/ Copy
  PROVE  MppcCore'
<1>1. Decoded
  BY StepDecodes
<1>2. /\ MppcTypeOK /\ HeadroomZero /\ MarksKept /\ TokensSpelled /\ BytesSpelled /\ InStep
      /\ stage = "decoding" /\ flags.compressed /\ MoreBits
  BY DEF MppcCore, LiteralLow, LiteralHigh, Copy, Decoding
<1>3. UNCHANGED <<sender, stage, astray, strayed>> /\ stage' = "decoding"
  BY <1>1, <1>2 DEF Decoded
<1>4. UNCHANGED <<sHist, sOffset, packet, flags, plain, marks, packets, tokens, cut, stage, astray, strayed>>
  BY <1>3 DEF sender
<1>5. MppcTypeOK'
  BY <1>1, <1>2, <1>4 DEF MppcTypeOK, Decoded
<1>6. MarksKept' /\ TokensSpelled' /\ BytesSpelled'
  <2>1. MarksKept'
    BY <1>2, <1>4 DEF MarksKept
  <2>2. TokensSpelled'
    BY <1>2, <1>4 DEF TokensSpelled
  <2>3. BytesSpelled'
    BY <1>2, <1>4 DEF BytesSpelled
  <2> QED
    BY <2>1, <2>2, <2>3
<1>7. DecompressesWhatWasSent'
  BY <1>3 DEF DecompressesWhatWasSent
<1>8. ASSUME OnTheWay PROVE OnTheWay'
  <2>1. /\ marks \in Seq(Snapshots) /\ out \in Seq(Nat) /\ packet \in Seq({0, 1}) /\ pos \in Nat
        /\ marks # <<>>
    BY <1>2 DEF MppcTypeOK, MarksKept
  <2>2. PICK N \in Nat \ {0} : N = Len(marks)
    BY <2>1
  <2>3. cut \in {0, 1} /\ (cut = 1 => N > 1)
    BY <1>2, <2>2 DEF MppcTypeOK, InStep
  <2>4. ASSUME cut = 1, IsPrefix(marks[N - 1].plain, out) PROVE OnTheWay'
    <3>1. N - 1 \in 1..N
      BY <2>3, <2>4
    <3>2. marks[N - 1].plain \in Seq(Nat)
      BY <2>1, <2>2, <3>1, MarkTyped
    <3>3. PICK t \in Seq(Nat) : out' = out \o t
      BY <1>1 DEF Decoded
    <3>4. IsPrefix(marks[N - 1].plain, out')
      BY <2>1, <2>4, <3>2, <3>3, PrefixGrows
    <3> QED
      BY <1>4, <2>2, <2>4, <3>4 DEF OnTheWay
  <2>5. ASSUME NEW k \in 1..(N - cut), AtMark(k) PROVE OnTheWay'
    <3>1. k \in 1..N
      BY <2>3
    <3>2. marks[k] \in Snapshots /\ marks[k].plain \in Seq(Nat)
      BY <2>1, <2>2, <3>1, MarkTyped
    <3>3. CASE k = N - cut
      <4>1. CASE cut = 1
        <5>1. IsPrefix(marks[N - 1].plain, out)
          BY <2>1, <2>5, <3>2, <3>3, <4>1, PrefixOfItself DEF AtMark
        <5> QED
          BY <2>4, <4>1, <5>1
      <4>2. CASE cut = 0
        <5>1. pos = Last(marks).at
          BY <2>2, <2>5, <3>3, <4>2 DEF AtMark, Last
        <5>2. Len(packet) - pos \in 0..ByteBits - 1
          BY <1>2, <4>2, <5>1 DEF TokensSpelled
        <5>3. ~MoreBits
          <6>1. PICK w \in Nat : w = Len(packet)
            BY <2>1
          <6> QED
            BY <2>1, <5>2, <6>1, Sizes DEF MoreBits
        <5> QED
          BY <1>2, <5>3
      <4> QED
        BY <2>3, <4>1, <4>2
    <3>4. CASE k # N - cut
      <4>1. k \in 1..(N - 1 - cut) /\ k + 1 \in 1..(N - cut)
        BY <2>3, <3>4
      <4>2. TokenBetween(packet, marks[k], marks[k + 1])
        BY <1>2, <2>2, <4>1 DEF TokensSpelled
      <4>3. At(marks[k])
        BY <2>5 DEF At, AtMark
      <4>4. /\ pos' = marks[k + 1].at /\ history' = marks[k + 1].hist
            /\ offset' = marks[k + 1].off /\ out' = marks[k + 1].plain
        BY <3>2, <4>2, <4>3, TokenDecoded
      <4>5. \E j \in 1..(N - cut) :
              /\ pos' = marks[j].at /\ history' = marks[j].hist
              /\ offset' = marks[j].off /\ out' = marks[j].plain
        BY <4>1, <4>4
      <4> QED
        BY <1>4, <2>2, <4>5 DEF OnTheWay, AtMark
    <3> QED
      BY <3>3, <3>4
  <2> QED
    BY <1>8, <2>2, <2>4, <2>5 DEF OnTheWay
<1>9. InStep'
  <2>1. /\ astray <=> cut = 1 \/ strayed
        /\ cut = 1 => Len(marks) > 1 /\ flags.compressed
        /\ ~strayed => OnTheWay
    BY <1>2 DEF InStep
  <2>2. ~strayed' => OnTheWay'
    BY <1>4, <1>8, <2>1
  <2> QED
    BY <1>2, <1>3, <1>4, <2>1, <2>2 DEF InStep
<1> QED
  BY <1>1, <1>5, <1>6, <1>7, <1>9 DEF MppcCore, Decoded

\* The end of the loop comes at the last mark, or past the last one before the cut.
LEMMA FinishKeeps ==
  ASSUME MppcCore, Finish
  PROVE  MppcCore'
<1>1. /\ MppcTypeOK /\ HeadroomZero /\ MarksKept /\ TokensSpelled /\ BytesSpelled /\ InStep
      /\ stage = "decoding" /\ flags.compressed /\ stage' = "idle"
      /\ ~MoreBits \/ offset >= HistorySize \/ (IsCopy /\ ~CopyFits)
  BY DEF MppcCore, Finish
<1>2. /\ UNCHANGED <<sHist, sOffset, packet, flags, plain, marks, packets, tokens, cut>>
      /\ UNCHANGED <<pos, history, offset, out, astray, strayed>>
  BY DEF Finish, sender, client
<1>3. /\ marks \in Seq(Snapshots) /\ out \in Seq(Nat) /\ marks # <<>> /\ cut \in {0, 1}
      /\ astray <=> cut = 1 \/ strayed
      /\ cut = 1 => Len(marks) > 1
      /\ ~strayed => OnTheWay
  BY <1>1 DEF MppcTypeOK, MarksKept, InStep
<1>4. PICK N \in Nat \ {0} : N = Len(marks)
  BY <1>3
<1>5. ASSUME NEW k \in 1..(N - cut), AtMark(k) PROVE k = N - cut
  <2>1. SUFFICES ASSUME k # N - cut PROVE FALSE
    OBVIOUS
  <2>2. k \in 1..(N - 1 - cut) /\ k \in 1..N
    BY <1>3, <2>1
  <2>3. TokenBetween(packet, marks[k], marks[k + 1])
    BY <1>1, <1>4, <2>2 DEF TokensSpelled
  <2>4. At(marks[k])
    BY <1>5 DEF At, AtMark
  <2>5. marks[k] \in Snapshots
    BY <1>3, <1>4, <2>2, MarkTyped
  <2>6. MoreBits /\ offset < HistorySize /\ ~(IsCopy /\ ~CopyFits)
    BY <2>3, <2>4, <2>5, TokenGoesOn
  <2>7. offset \in 0..HistorySize
    BY <1>1 DEF MppcTypeOK
  <2> QED
    BY <1>1, <2>6, <2>7, Sizes
<1>6. ASSUME ~astray PROVE history = sHist /\ offset = sOffset /\ out = plain
  <2>1. OnTheWay /\ cut = 0
    BY <1>3, <1>6
  <2>2. PICK k \in 1..(N - cut) : AtMark(k)
    BY <1>4, <2>1 DEF OnTheWay
  <2>3. k = N
    BY <1>5, <2>1, <2>2
  <2> QED
    BY <1>1, <1>4, <2>2, <2>3 DEF AtMark, MarksKept, Last
<1>7. ASSUME cut = 1, ~strayed PROVE IsPrefix(marks[N - 1].plain, out)
  <2>1. OnTheWay
    BY <1>3, <1>7
  <2>2. ASSUME NEW k \in 1..(N - cut), AtMark(k) PROVE IsPrefix(marks[N - 1].plain, out)
    <3>1. k = N - 1 /\ N - 1 \in 1..N
      BY <1>5, <1>7, <2>2
    <3>2. marks[N - 1].plain \in Seq(Nat)
      BY <1>3, <1>4, <3>1, MarkTyped
    <3> QED
      BY <1>3, <2>2, <3>1, <3>2, PrefixOfItself DEF AtMark
  <2> QED
    BY <1>4, <2>1, <2>2 DEF OnTheWay
<1>8. MppcTypeOK' /\ HeadroomZero'
  <2>1. MppcTypeOK'
    BY <1>1, <1>2 DEF MppcTypeOK
  <2>2. HeadroomZero'
    BY <1>1, <1>2 DEF HeadroomZero
  <2> QED
    BY <2>1, <2>2
<1>9. MarksKept' /\ TokensSpelled' /\ BytesSpelled'
  <2>1. MarksKept'
    BY <1>1, <1>2 DEF MarksKept
  <2>2. TokensSpelled' /\ BytesSpelled'
    BY <1>1 DEF TokensSpelled, BytesSpelled
  <2> QED
    BY <2>1, <2>2
<1>10. InStep'
  <2>1. cut = 1 => flags.compressed
    BY <1>1
  <2> QED
    BY <1>1, <1>2, <1>3, <1>6, <2>1 DEF InStep
<1>11. DecompressesWhatWasSent'
  BY <1>1, <1>2, <1>4, <1>6, <1>7 DEF DecompressesWhatWasSent
<1> QED
  BY <1>8, <1>9, <1>10, <1>11 DEF MppcCore

\* What was sent uncompressed comes out as it is, even to a client astray.
LEMMA PassThroughKeeps ==
  ASSUME MppcCore, PassThrough
  PROVE  MppcCore'
<1>1. /\ MppcTypeOK /\ HeadroomZero /\ MarksKept /\ TokensSpelled /\ BytesSpelled /\ InStep
      /\ stage = "decoding" /\ ~flags.compressed /\ stage' = "idle"
  BY DEF MppcCore, PassThrough
<1>2. /\ UNCHANGED <<sHist, sOffset, packet, flags, plain, marks, packets, tokens, cut>>
      /\ UNCHANGED <<pos, history, offset, astray, strayed>>
  BY DEF PassThrough, sender
<1>3. packet \in Seq({0, 1}) /\ plain \in Seq(Nat) /\ cut \in {0, 1} /\ strayed \in BOOLEAN
  BY <1>1 DEF MppcTypeOK
<1>4. cut = 0 /\ (astray <=> strayed) /\ (~strayed => history = sHist /\ offset = sOffset)
  BY <1>1, <1>3 DEF InStep
<1>5. out' = plain
  <2>1. PICK n \in Nat : n = Len(plain) /\ Len(packet) = ByteBits * n
    BY <1>1, <1>3 DEF BytesSpelled
  <2>2. Len(packet) \div ByteBits = n
    <3>1. ByteBits \in Nat \ {0} /\ 0 \in 0..ByteBits - 1 /\ n \in Int
      BY Sizes
    <3>2. (n * ByteBits + 0) \div ByteBits = n
      BY <3>1, DivMod, Zenon
    <3>3. n * ByteBits + 0 = ByteBits * n
      BY <3>1
    <3> QED
      BY <2>1, <3>2, <3>3
  <2>3. ASSUME NEW i \in 1..n PROVE ReadBits(packet, (i - 1) * ByteBits, ByteBits) = plain[i]
    <3>1. plain[i] \in Nat /\ plain[i] < Pow2(ByteBits)
          /\ Spells(packet, (i - 1) * ByteBits, Bits(plain[i], ByteBits))
      BY <1>1, <1>3, <2>1 DEF BytesSpelled
    <3>2. (i - 1) * ByteBits \in Nat /\ ByteBits \in Nat
      <4>1. i - 1 \in Nat /\ ByteBits \in Nat
        BY Sizes
      <4> QED
        BY <4>1
    <3> QED
      BY <1>3, <3>1, <3>2, ReadsSpelled
  <2>4. out' = [i \in 1..n |-> ReadBits(packet, (i - 1) * ByteBits, ByteBits)]
    BY <2>2 DEF PassThrough
  <2>5. out' = [i \in 1..n |-> plain[i]]
    BY <2>3, <2>4
  <2> QED
    BY <1>3, <2>1, <2>5
<1>6. MppcTypeOK' /\ HeadroomZero'
  <2>1. MppcTypeOK'
    BY <1>1, <1>2, <1>5 DEF MppcTypeOK
  <2>2. HeadroomZero'
    BY <1>1, <1>2 DEF HeadroomZero
  <2> QED
    BY <2>1, <2>2
<1>7. MarksKept' /\ TokensSpelled' /\ BytesSpelled'
  <2>1. MarksKept'
    BY <1>1, <1>2 DEF MarksKept
  <2>2. TokensSpelled' /\ BytesSpelled'
    BY <1>1 DEF TokensSpelled, BytesSpelled
  <2> QED
    BY <2>1, <2>2
<1>8. InStep'
  BY <1>1, <1>2, <1>4 DEF InStep
<1>9. DecompressesWhatWasSent'
  BY <1>1, <1>2, <1>4, <1>5 DEF DecompressesWhatWasSent
<1> QED
  BY <1>6, <1>7, <1>8, <1>9 DEF MppcCore

\* A step that changes nothing.
LEMMA MppcStutters ==
  ASSUME MppcCore, UNCHANGED mppcVars
  PROVE  MppcCore'
<1> USE DEF mppcVars, sender, client
<1>1. MppcTypeOK'
  BY DEF MppcCore, MppcTypeOK
<1>2. HeadroomZero'
  BY DEF MppcCore, HeadroomZero
<1>3. MarksKept'
  BY DEF MppcCore, MarksKept
<1>4. TokensSpelled'
  BY DEF MppcCore, TokensSpelled
<1>5. BytesSpelled'
  BY DEF MppcCore, BytesSpelled
<1>6. InStep'
  <2>1. OnTheWay' <=> OnTheWay
    BY DEF OnTheWay, AtMark
  <2>2. AtStart' <=> AtStart
    BY DEF AtStart
  <2> QED
    BY <2>1, <2>2 DEF MppcCore, InStep
<1>7. DecompressesWhatWasSent'
  BY DEF MppcCore, DecompressesWhatWasSent
<1> QED
  BY <1>1, <1>2, <1>3, <1>4, <1>5, <1>6, <1>7 DEF MppcCore

\* The invariant is kept by every step of the server and of the client.
LEMMA CoreNext == MppcCore /\ [MppcNext]_mppcVars => MppcCore'
<1> SUFFICES ASSUME MppcCore, [MppcNext]_mppcVars
             PROVE  MppcCore'
  OBVIOUS
<1>1. ASSUME NEW f \in [compressed : BOOLEAN, at_front : BOOLEAN, flushed : BOOLEAN], BeginPacket(f)
      PROVE  MppcCore'
  BY <1>1, BeginKeeps
<1>2. ASSUME NEW b \in Alphabet, AddLiteral(b) PROVE MppcCore'
  BY <1>2, LiteralKeeps
<1>3. ASSUME NEW b \in Alphabet, AddPlain(b) PROVE MppcCore'
  BY <1>3, PlainKeeps
<1>4. ASSUME NEW o \in Offsets, NEW l \in Lengths, AddCopy(o, l) PROVE MppcCore'
  BY <1>4, CopyKeeps
<1>5. ASSUME NEW short \in BOOLEAN, Deliver(short) PROVE MppcCore'
  BY <1>5, DeliverKeeps
<1>6. CASE LiteralLow \/ LiteralHigh \/ Copy
  BY <1>6, DecodeKeeps
<1>7. CASE Finish
  BY <1>7, FinishKeeps
<1>8. CASE PassThrough
  BY <1>8, PassThroughKeeps
<1>9. CASE MppcQuiet \/ UNCHANGED mppcVars
  BY <1>9, MppcStutters DEF MppcQuiet
<1> QED
  BY <1>1, <1>2, <1>3, <1>4, <1>5, <1>6, <1>7, <1>8, <1>9 DEF MppcNext, Server, Decompress

-----------------------------------------------------------------------------
(* Theorems about the decompressor *)

\* decompress() keeps in step with the server: at every mark of a packet it has
\* said what the server said and holds the server's history, the headroom stays
\* zero and no copy leaves the buffer, for every history size, width of a byte,
\* offset classes and matches, and whatever is cut off.
THEOREM MppcInvariance == MppcSpec => []MppcInv
<1>1. MppcCore => MppcInv
  BY CopyInside DEF MppcCore, MppcInv
<1> QED
  BY <1>1, CoreInit, CoreNext, PTL DEF MppcSpec

\* The headroom past the window stays zero, and no copy of decompress() reads or
\* writes past the buffer, cut packets and a client astray included.
THEOREM CopiesInside == MppcSpec => []WindowSafe
<1>1. MppcInv => WindowSafe
  BY DEF MppcInv
<1> QED
  BY <1>1, MppcInvariance, PTL

\* Packets decompress to what was compressed, the two histories agree after them,
\* and a packet cut short harms no more than its last token until the next flush.
THEOREM DecompressionCorrect == MppcSpec => []DecompressesWhatWasSent
<1>1. MppcCore => DecompressesWhatWasSent
  BY DEF MppcCore
<1> QED
  BY <1>1, CoreInit, CoreNext, PTL DEF MppcSpec

-----------------------------------------------------------------------------
(* The order pipeline: constants *)

USE BoundsAssumption, LimitsAssumption

\* One is a stream, a part and an epoch.
LEMMA OneInBounds == 1 \in 1..MaxStreams /\ 1 \in 1..MaxParts /\ 1 \in 1..MaxEpochs
<1>1. MaxStreams \in Nat \ {0} /\ MaxParts \in Nat \ {0} /\ MaxEpochs \in Nat \ {0}
  BY BoundsAssumption, Zenon
<1> QED
  BY <1>1

-----------------------------------------------------------------------------
(* Logs of results *)

\* A result more keeps the runs among the older ones.
LEMMA RunsKept ==
  ASSUME NEW l \in Seq(BOOLEAN), NEW b \in BOOLEAN, NEW j \in 1..Len(l)
  PROVE  LongRunEnds(Append(l, b), j) <=> LongRunEnds(l, j)
<1>1. \A i \in 1..Len(l) : Append(l, b)[i] = l[i]
  OBVIOUS
<1>2. CASE j >= OkReset
  <2>1. ASSUME NEW i \in (j - OkReset + 1)..j PROVE Append(l, b)[i] = l[i]
    BY <1>1, <1>2
  <2> QED
    BY <2>1 DEF LongRunEnds
<1>3. CASE ~(j >= OkReset)
  BY <1>3 DEF LongRunEnds
<1> QED
  BY <1>2, <1>3

\* A failure at the end of a log ends no clean run there.
LEMMA FailureEndsNoRun ==
  ASSUME NEW m, NEW k \in Nat, m[k + 1] = FALSE
  PROVE  ~LongRunEnds(m, k + 1)
<1>1. k + 1 \in (k + 1 - OkReset + 1)..(k + 1)
  OBVIOUS
<1> QED
  BY <1>1 DEF LongRunEnds

\* The clean run a log l ends with has length s.
EndsWithRun(l, s) ==
    /\ s \in Nat /\ s <= Len(l)
    /\ \A i \in (Len(l) - s + 1)..Len(l) : l[i]
    /\ s < Len(l) => ~l[Len(l) - s]

\* One clean result more makes it a long run if and only if there are then
\* OkReset of them.
LEMMA RunByStreak ==
  ASSUME NEW l \in Seq(BOOLEAN), NEW s, EndsWithRun(l, s),
         NEW m, m = Append(l, TRUE), NEW n, n = Len(l)
  PROVE  LongRunEnds(m, n + 1) <=> s + 1 >= OkReset
<1>1. n \in Nat /\ m[n + 1] = TRUE /\ \A i \in 1..n : m[i] = l[i]
  OBVIOUS
<1>2. /\ s \in Nat /\ s <= n
      /\ \A i \in (n - s + 1)..n : l[i]
      /\ s < n => ~l[n - s]
  BY DEF EndsWithRun
<1>3. ASSUME s + 1 >= OkReset PROVE LongRunEnds(m, n + 1)
  <2>1. n + 1 >= OkReset
    BY <1>1, <1>2, <1>3
  <2>2. ASSUME NEW i \in (n + 1 - OkReset + 1)..(n + 1) PROVE m[i]
    <3>1. CASE i = n + 1
      BY <3>1, <1>1
    <3>2. CASE i # n + 1
      <4>1. i \in 1..n /\ i \in (n - s + 1)..n
        BY <3>2, <1>1, <1>2, <1>3, <2>1
      <4> QED
        BY <4>1, <1>1, <1>2
    <3> QED
      BY <3>1, <3>2
  <2> QED
    BY <2>1, <2>2 DEF LongRunEnds
<1>4. ASSUME LongRunEnds(m, n + 1), s + 1 < OkReset PROVE FALSE
  <2>1. n + 1 >= OkReset /\ \A i \in (n + 1 - OkReset + 1)..(n + 1) : m[i]
    BY <1>4 DEF LongRunEnds
  <2>2. s < n /\ n - s \in 1..n
    BY <2>1, <1>1, <1>2, <1>4
  <2>3. n - s \in (n + 1 - OkReset + 1)..(n + 1)
    BY <2>1, <2>2, <1>1, <1>2, <1>4
  <2>4. m[n - s] = l[n - s]
    BY <2>2, <1>1
  <2> QED
    BY <2>1, <2>2, <2>3, <2>4, <1>2
<1>5. LongRunEnds(m, n + 1) => s + 1 >= OkReset
  BY <1>2, <1>4
<1> QED
  BY <1>3, <1>5 DEF LongRunEnds

\* The open failures are finitely many positions of the log.
LEMMA OpenFailuresFinite ==
  ASSUME NEW l \in Seq(BOOLEAN)
  PROVE  IsFiniteSet(OpenFailures(l)) /\ OpenFailures(l) \subseteq 1..Len(l)
<1>1. Len(l) \in Nat
  OBVIOUS
<1>2. OpenFailures(l) \subseteq 1..Len(l)
  BY DEF OpenFailures
<1>3. IsFiniteSet(1..Len(l))
  BY <1>1, FS_Interval
<1> QED
  BY <1>2, <1>3, FS_Subset

\* A failure opens one more; a clean result opens none and closes all of them
\* exactly when it completes a long run.
LEMMA OpenFailuresStep ==
  ASSUME NEW l \in Seq(BOOLEAN), NEW s, EndsWithRun(l, s), NEW b \in BOOLEAN,
         NEW m, m = Append(l, b)
  PROVE  Cardinality(OpenFailures(m)) =
            IF ~b THEN Cardinality(OpenFailures(l)) + 1
            ELSE IF s + 1 >= OkReset THEN 0 ELSE Cardinality(OpenFailures(l))
<1>1. PICK n \in Nat : n = Len(l)
  OBVIOUS
<1>2. /\ Len(m) = n + 1 /\ m[n + 1] = b
      /\ \A i \in 1..n : m[i] = l[i]
      /\ \A j \in 1..n : LongRunEnds(m, j) <=> LongRunEnds(l, j)
  <2>1. Len(m) = n + 1 /\ m[n + 1] = b /\ \A i \in 1..n : m[i] = l[i]
    BY <1>1
  <2>2. \A j \in 1..n : LongRunEnds(m, j) <=> LongRunEnds(l, j)
    BY <1>1, RunsKept, Zenon
  <2> QED
    BY <2>1, <2>2, Zenon
<1>3. IsFiniteSet(OpenFailures(l)) /\ OpenFailures(l) \subseteq 1..n
  BY <1>1, OpenFailuresFinite
<1>4. OpenFailures(m) \subseteq 1..(n + 1)
  BY <1>2 DEF OpenFailures
<1>5. ASSUME ~LongRunEnds(m, n + 1), NEW i \in 1..n
      PROVE  i \in OpenFailures(m) <=> i \in OpenFailures(l)
  <2>1. m[i] = l[i]
    BY <1>2
  <2>2. (\A j \in i..(n + 1) : ~LongRunEnds(m, j)) <=> (\A j \in i..n : ~LongRunEnds(l, j))
    <3>1. \A j \in i..n : j \in 1..n /\ j \in i..(n + 1)
      BY <1>5
    <3>2. \A j \in i..(n + 1) : j \in i..n \/ j = n + 1
      BY <1>5
    <3> QED
      BY <1>2, <1>5, <3>1, <3>2, Zenon
  <2> QED
    BY <1>1, <1>2, <2>1, <2>2 DEF OpenFailures
<1>6. CASE b = FALSE
  <2>1. ~LongRunEnds(m, n + 1)
    BY <1>2, <1>6, FailureEndsNoRun
  <2>2. n + 1 \in OpenFailures(m)
    BY <1>2, <1>6, <2>1 DEF OpenFailures
  <2>3. OpenFailures(m) = OpenFailures(l) \cup {n + 1}
    <3>1. \A i \in 1..n : i \in OpenFailures(m) <=> i \in OpenFailures(l)
      BY <1>5, <2>1
    <3>2. \A i \in 1..(n + 1) : i \in 1..n \/ i = n + 1
      OBVIOUS
    <3> QED
      BY <1>3, <1>4, <2>2, <3>1, <3>2, Zenon
  <2>4. n + 1 \notin OpenFailures(l)
    BY <1>3
  <2> QED
    BY <1>3, <1>6, <2>3, <2>4, FS_AddElement
<1>7. CASE b = TRUE
  <2>1. LongRunEnds(m, n + 1) <=> s + 1 >= OkReset
    BY <1>1, <1>7, RunByStreak
  <2>2. n + 1 \notin OpenFailures(m)
    BY <1>2, <1>7 DEF OpenFailures
  <2>3. CASE s + 1 >= OkReset
    <3>1. \A i \in 1..(n + 1) : i \notin OpenFailures(m)
      BY <1>2, <2>1, <2>3 DEF OpenFailures
    <3>2. OpenFailures(m) = {}
      BY <1>4, <3>1
    <3>3. Cardinality(OpenFailures(m)) = 0
      BY <3>2, FS_EmptySet
    <3> QED
      BY <1>7, <2>3, <3>3
  <2>4. CASE ~(s + 1 >= OkReset)
    <3>1. \A i \in 1..n : i \in OpenFailures(m) <=> i \in OpenFailures(l)
      BY <1>5, <2>1, <2>4
    <3>2. \A i \in 1..(n + 1) : i \in 1..n \/ i = n + 1
      OBVIOUS
    <3>3. OpenFailures(m) = OpenFailures(l)
      BY <1>3, <1>4, <2>2, <3>1, <3>2, Zenon
    <3> QED
      BY <1>7, <2>4, <3>3
  <2> QED
    BY <2>3, <2>4
<1> QED
  BY <1>6, <1>7

\* Rendering one stream keeps the streaks and the log together.
LEMMA RenderKeepsStreaks ==
  ASSUME log \in Seq(BOOLEAN), okStreak \in Nat, failStreak \in Nat,
         phase = "active", StreaksFollowLog, NEW c, Render(c)
  PROVE  /\ StreaksFollowLog'
         /\ log' \in Seq(BOOLEAN) /\ okStreak' \in Nat /\ failStreak' \in Nat
         /\ phase' \in {"active", "reconnect"}
<1>1. PICK good \in BOOLEAN :
         /\ log' = Append(log, good)
         /\ okStreak' = IF good THEN okStreak + 1 ELSE 0
         /\ failStreak' = IF ~good THEN failStreak + 1
                          ELSE IF okStreak' >= OkReset THEN 0 ELSE failStreak
         /\ phase' = IF ~good /\ failStreak' >= FailLimit THEN "reconnect" ELSE phase
  BY DEF Render
<1>2. PICK n \in Nat : n = Len(log)
  OBVIOUS
<1>3. /\ log' \in Seq(BOOLEAN) /\ Len(log') = n + 1 /\ log'[n + 1] = good
      /\ \A i \in 1..n : log'[i] = log[i]
  BY <1>1, <1>2
<1>4. /\ okStreak <= n /\ failStreak < FailLimit
      /\ \A i \in (n - okStreak + 1)..n : log[i]
      /\ okStreak < n => ~log[n - okStreak]
      /\ NoLongRun(log) => okStreak < OkReset /\ n <= failStreak * OkReset + okStreak
      /\ failStreak = Cardinality(OpenFailures(log))
  BY <1>2 DEF StreaksFollowLog
<1>5. EndsWithRun(log, okStreak)
  BY <1>2, <1>4 DEF EndsWithRun
<1>6. Cardinality(OpenFailures(log')) =
         IF ~good THEN failStreak + 1
         ELSE IF okStreak + 1 >= OkReset THEN 0 ELSE failStreak
  BY <1>1, <1>4, <1>5, OpenFailuresStep
<1>7. NoLongRun(log') => NoLongRun(log) /\ ~LongRunEnds(log', n + 1)
  <2>1. \A j \in 1..n : LongRunEnds(log', j) <=> LongRunEnds(log, j)
    BY <1>1, <1>2, RunsKept, Zenon
  <2> QED
    BY <1>2, <1>3, <2>1 DEF NoLongRun
<1>8. PICK k \in Nat : k = failStreak * OkReset
  OBVIOUS
<1>bound. NoLongRun(log') => okStreak < OkReset /\ n <= k + okStreak
  BY <1>4, <1>7, <1>8
<1>9. CASE good = FALSE
  <2>1. okStreak' = 0 /\ failStreak' = failStreak + 1
    BY <1>1, <1>9
  <2>2. failStreak' * OkReset = k + OkReset
    BY <1>8, <2>1
  <2>3. NoLongRun(log') => okStreak' < OkReset /\ n + 1 <= failStreak' * OkReset + okStreak'
    <3> SUFFICES ASSUME NoLongRun(log')
                 PROVE  okStreak' < OkReset /\ n + 1 <= failStreak' * OkReset + okStreak'
      OBVIOUS
    <3>1. n + 1 <= (k + OkReset) + 0
      BY <1>bound
    <3> QED
      BY <2>1, <2>2, <3>1
  <2>4. IF phase' = "reconnect" THEN failStreak' = FailLimit /\ okStreak' = 0
        ELSE failStreak' < FailLimit
    BY <1>1, <1>4, <1>9, <2>1
  <2>5. /\ Len(log') - okStreak' = n + 1 /\ Len(log') = n + 1
        /\ okStreak' <= Len(log')
    BY <1>3, <2>1
  <2>6. failStreak' = Cardinality(OpenFailures(log'))
    BY <1>6, <1>9, <2>1
  <2>7. StreaksFollowLog'
    <3>1. /\ okStreak' <= Len(log')
          /\ \A i \in (Len(log') - okStreak' + 1)..Len(log') : log'[i]
          /\ okStreak' < Len(log') => ~log'[Len(log') - okStreak']
      <4>1. (Len(log') - okStreak' + 1)..Len(log') = {}
        BY <2>5
      <4> QED
        BY <1>3, <1>9, <2>5, <4>1
    <3>2. NoLongRun(log') => /\ okStreak' < OkReset
                             /\ Len(log') <= failStreak' * OkReset + okStreak'
      BY <1>3, <2>3
    <3> QED
      BY <3>1, <3>2, <2>4, <2>6, Zenon DEF StreaksFollowLog
  <2> QED
    BY <1>1, <1>3, <2>1, <2>7
<1>10. CASE good = TRUE
  <2>1. /\ okStreak' = okStreak + 1 /\ phase' = "active"
        /\ failStreak' = IF okStreak + 1 >= OkReset THEN 0 ELSE failStreak
    BY <1>1, <1>10
  <2>2. LongRunEnds(log', n + 1) <=> okStreak + 1 >= OkReset
    BY <1>1, <1>2, <1>5, <1>10, RunByStreak
  <2>3. NoLongRun(log') => okStreak' < OkReset /\ n + 1 <= failStreak' * OkReset + okStreak'
    <3> SUFFICES ASSUME NoLongRun(log')
                 PROVE  okStreak' < OkReset /\ n + 1 <= failStreak' * OkReset + okStreak'
      OBVIOUS
    <3>1. okStreak + 1 < OkReset /\ failStreak' = failStreak
      BY <1>7, <2>1, <2>2
    <3>2. n + 1 <= k + (okStreak + 1)
      BY <1>bound
    <3> QED
      BY <1>8, <2>1, <3>1, <3>2
  <2>4. \A i \in (n + 1 - okStreak' + 1)..(n + 1) : log'[i]
    <3> SUFFICES ASSUME NEW i \in (n + 1 - okStreak' + 1)..(n + 1) PROVE log'[i]
      OBVIOUS
    <3>1. CASE i = n + 1
      BY <1>3, <1>10, <3>1
    <3>2. CASE i # n + 1
      <4>1. n + 1 - okStreak' + 1 = n - okStreak + 1
        BY <2>1
      <4>2. i \in (n - okStreak + 1)..(n + 1)
        BY <4>1
      <4>3. i \in (n - okStreak + 1)..n /\ i \in 1..n
        <5>1. okStreak <= n
          BY <1>4
        <5>2. i \in Int /\ n - okStreak + 1 <= i /\ i <= n + 1
          BY <4>2
        <5> QED
          BY <3>2, <5>1, <5>2
      <4> QED
        BY <1>3, <1>4, <4>3
    <3> QED
      BY <3>1, <3>2
  <2>5. ASSUME okStreak' < n + 1 PROVE ~log'[n + 1 - okStreak']
    <3>1. n + 1 - okStreak' = n - okStreak /\ n - okStreak \in 1..n /\ okStreak < n
      <4>1. PICK s \in Nat, s1 \in Nat : s = okStreak /\ s1 = okStreak' /\ s1 = s + 1
        BY <2>1
      <4>2. s1 < n + 1
        BY <2>5, <4>1, Zenon
      <4>3. n + 1 - s1 = n - s /\ n - s \in 1..n /\ s < n
        BY <4>1, <4>2
      <4> QED
        BY <4>1, <4>3, Zenon
    <3> QED
      BY <1>3, <1>4, <3>1
  <2>6. failStreak' < FailLimit /\ okStreak' <= n + 1
    BY <1>4, <2>1
  <2>7. failStreak' = Cardinality(OpenFailures(log'))
    BY <1>6, <1>10, <2>1
  <2>8. StreaksFollowLog'
    BY <1>3, <2>1, <2>3, <2>4, <2>5, <2>6, <2>7 DEF StreaksFollowLog
  <2> QED
    BY <1>3, <2>1, <2>8
<1> QED
  BY <1>9, <1>10

-----------------------------------------------------------------------------
(* Steps *)

\* Streaks and log unchanged in a session that goes on or ends.
LEMMA StreaksKept ==
  ASSUME StreaksFollowLog, phase # "reconnect",
         UNCHANGED results, phase' # "reconnect"
  PROVE  StreaksFollowLog'
<1>1. failStreak < FailLimit
  BY DEF StreaksFollowLog
<1>2. okStreak' = okStreak /\ failStreak' = failStreak /\ log' = log
  BY DEF results
<1> QED
  BY <1>1, <1>2, Zenon DEF StreaksFollowLog

\* One update through reassembly and, if it completes a stream, the renderer.
LEMMA HandleStep ==
  ASSUME TypeOK, StreaksFollowLog, phase = "active",
         NEW u \in Update, Handle(u)
  PROVE  /\ frag' \in Seq(Part) /\ active' \in BOOLEAN
         /\ rendered' \in Seq(Seq(Part)) /\ log' \in Seq(BOOLEAN)
         /\ okStreak' \in Nat /\ failStreak' \in Nat
         /\ phase' \in Phases
         /\ StreaksFollowLog'
<1>1. u.data \in Part /\ u.frag \in Frags /\ frag \in Seq(Part) /\ active \in BOOLEAN
  BY DEF Update, TypeOK
<1>2. CASE u.orders
  <2>1. /\ Reassemble(u)
        /\ IF Completed(u) # <<>> THEN Render(Completed(u)) ELSE UNCHANGED <<phase, results>>
    BY <1>2 DEF Handle
  <2>2. frag' \in Seq(Part) /\ active' \in BOOLEAN
    <3>1. /\ frag' \in {<<u.data>>, Append(frag, u.data), <<>>, frag}
          /\ active' \in {TRUE, FALSE, active}
      BY <2>1, Zenon DEF Reassemble, assembly
    <3>2. <<u.data>> \in Seq(Part) /\ Append(frag, u.data) \in Seq(Part) /\ <<>> \in Seq(Part)
      BY <1>1
    <3>3. frag' \in Seq(Part)
      BY <1>1, <3>1, <3>2, Zenon
    <3>4. active' \in BOOLEAN
      BY <1>1, <3>1, Zenon
    <3> QED
      BY <3>3, <3>4
  <2>3. Completed(u) \in Seq(Part)
    BY <1>1 DEF Completed
  <2>4. CASE Completed(u) # <<>>
    <3>1. Render(Completed(u))
      BY <2>1, <2>4
    <3>2. rendered' = Append(rendered, Completed(u))
      BY <3>1 DEF Render
    <3>3. rendered' \in Seq(Seq(Part))
      BY <2>3, <3>2 DEF TypeOK
    <3>4. /\ StreaksFollowLog'
          /\ log' \in Seq(BOOLEAN) /\ okStreak' \in Nat /\ failStreak' \in Nat
          /\ phase' \in {"active", "reconnect"}
      BY <3>1, RenderKeepsStreaks DEF TypeOK
    <3> QED
      BY <2>2, <3>3, <3>4 DEF Phases
  <2>5. CASE Completed(u) = <<>>
    <3>1. UNCHANGED <<phase, results>>
      BY <2>1, <2>5
    <3>2. StreaksFollowLog'
      BY <3>1, StreaksKept
    <3> QED
      BY <2>2, <3>1, <3>2 DEF TypeOK, results
  <2> QED
    BY <2>4, <2>5
<1>3. CASE ~u.orders
  <2>1. phase' \in {"active", "ended"} /\ UNCHANGED <<assembly, results>>
    BY <1>3 DEF Handle
  <2>2. StreaksFollowLog'
    BY <2>1, StreaksKept
  <2> QED
    BY <2>1, <2>2 DEF TypeOK, assembly, results, Phases
<1> QED
  BY <1>2, <1>3

\* The compressed updates of a PDU are finitely many.
LEMMA CompressedFinite ==
  ASSUME wire \in Seq(Update)
  PROVE  /\ Compressed \subseteq 1..Len(wire)
         /\ IsFiniteSet(Compressed) /\ Cardinality(Compressed) \in Nat
<1>1. Len(wire) \in Nat /\ DOMAIN wire = 1..Len(wire)
  OBVIOUS
<1>2. Compressed \subseteq 1..Len(wire)
  BY <1>1 DEF Compressed
<1>3. IsFiniteSet(Compressed)
  <2>1. IsFiniteSet(1..Len(wire))
    BY <1>1, FS_Interval
  <2> QED
    BY <1>2, <2>1, FS_Subset
<1> QED
  BY <1>2, <1>3, FS_CardinalityType

\* An update sent enters the server's history and the PDU alike.
LEMMA SendStep ==
  ASSUME CoreInv, phase \in {"active", "reactivating"},
         NEW u \in Update, SendUpdate(u)
  PROVE  /\ wire' \in Seq(Update) /\ packed' \in Nat
         /\ epoch' = epoch /\ extra' = extra /\ frag' = frag /\ active' = active
         /\ phase' = phase /\ fed' = fed /\ rendered' = rendered
         /\ okStreak' = okStreak /\ failStreak' = failStreak /\ log' = log
         /\ HistoryInSync' /\ StreaksFollowLog'
<1>1. /\ wire' = Append(wire, u)
      /\ packed' = IF u.comp THEN packed + 1 ELSE packed
      /\ UNCHANGED <<epoch, phase, fed, extra, assembly, results>>
  BY DEF SendUpdate
<1>2. wire \in Seq(Update) /\ packed \in Nat /\ fed \in Nat /\ u.comp \in BOOLEAN
  BY DEF CoreInv, TypeOK, Update
<1>3. PICK n \in Nat : n = Len(wire)
  BY <1>2
<1>4. /\ DOMAIN wire = 1..n /\ DOMAIN wire' = 1..(n + 1)
      /\ wire'[n + 1] = u /\ \A i \in 1..n : wire'[i] = wire[i]
  BY <1>1, <1>2, <1>3
<1>5. /\ Compressed \subseteq 1..n
      /\ IsFiniteSet(Compressed) /\ Cardinality(Compressed) \in Nat
  BY <1>2, <1>3, CompressedFinite
<1>6. packed = fed + Cardinality(Compressed)
  BY DEF CoreInv, HistoryInSync
<1>7. HistoryInSync'
  <2>1. CASE u.comp = TRUE
    <3>1. Compressed' = Compressed \cup {n + 1}
      BY <1>4, <2>1 DEF Compressed
    <3>2. n + 1 \notin Compressed
      BY <1>5
    <3>3. Cardinality(Compressed') = Cardinality(Compressed) + 1
      BY <1>5, <3>1, <3>2, FS_AddElement
    <3>4. packed' = packed + 1 /\ fed' = fed
      BY <1>1, <2>1
    <3> QED
      BY <1>2, <1>5, <1>6, <3>3, <3>4 DEF HistoryInSync
  <2>2. CASE u.comp = FALSE
    <3>1. Compressed' = Compressed
      BY <1>4, <2>2 DEF Compressed
    <3> QED
      BY <1>1, <1>6, <2>2, <3>1 DEF HistoryInSync
  <2> QED
    BY <1>2, <2>1, <2>2
<1>8. StreaksFollowLog'
  BY <1>1, StreaksKept DEF CoreInv
<1>9. /\ epoch' = epoch /\ extra' = extra /\ frag' = frag /\ active' = active
       /\ phase' = phase /\ fed' = fed /\ rendered' = rendered
       /\ okStreak' = okStreak /\ failStreak' = failStreak /\ log' = log
  BY <1>1 DEF assembly, results
<1>10. wire' \in Seq(Update) /\ packed' \in Nat
  BY <1>1, <1>2
<1> QED
  BY <1>7, <1>8, <1>9, <1>10

\* Initial states satisfy the invariant.
LEMMA InitEstablishes == Init => CoreInv
<1> SUFFICES ASSUME Init PROVE CoreInv
  OBVIOUS
<1> USE DEF Init
<1>1. TypeOK
  <2>1. 0 \in 0..MaxStreams
    BY OneInBounds
  <2>2. \A S : <<>> \in Seq(S)
    OBVIOUS
  <2>3. 0 \in Nat /\ FALSE \in BOOLEAN /\ "active" \in Phases
    BY DEF Phases
  <2> QED
    BY OneInBounds, <2>1, <2>2, <2>3, Zenon DEF TypeOK
<1>2. HistoryInSync
  <2>1. Compressed = {}
    BY DEF Compressed
  <2>2. Cardinality(Compressed) = 0
    BY <2>1, FS_EmptySet
  <2> QED
    BY <2>2 DEF HistoryInSync
<1>3. StreaksFollowLog
  <2>1. Len(log) = 0 /\ okStreak = 0 /\ failStreak = 0 /\ phase = "active"
    OBVIOUS
  <2>2. OpenFailures(log) = {}
    BY <2>1 DEF OpenFailures
  <2>3. Cardinality(OpenFailures(log)) = 0
    BY <2>2, FS_EmptySet
  <2> QED
    BY <2>1, <2>3 DEF StreaksFollowLog
<1> QED
  BY <1>1, <1>2, <1>3 DEF CoreInv

\* A whole stream or its first fragment.
LEMMA BeginStreamStep ==
  ASSUME CoreInv, NEW fr \in {"single", "first"}, NEW comp \in BOOLEAN, BeginStream(fr, comp)
  PROVE  CoreInv'
<1> DEFINE p == [stream |-> streams + 1, part |-> 1, epoch |-> epoch]
           u == [orders |-> TRUE, frag |-> fr, comp |-> comp, data |-> p]
<1>1. p \in Part
  BY SMTT(60) DEF BeginStream, CoreInv, TypeOK, Part
<1>2. u \in Update
  BY <1>1 DEF Update, Frags
<1>3. /\ phase \in {"active", "reactivating"} /\ SendUpdate(u)
      /\ streams' = streams + 1 /\ streams < MaxStreams
      /\ open' = IF fr = "first" THEN <<p>> ELSE open
      /\ due' = IF fr = "single" THEN Append(due, <<p>>) ELSE due
  BY DEF BeginStream
<1>4. streams' \in 0..MaxStreams /\ open' \in Seq(Part) /\ due' \in Seq(Seq(Part))
  <2>1. /\ streams \in 0..MaxStreams /\ open \in Seq(Part) /\ due \in Seq(Seq(Part))
    BY DEF CoreInv, TypeOK
  <2> QED
    BY <1>1, <1>3, <2>1
<1> HIDE DEF p, u
<1>5. /\ wire' \in Seq(Update) /\ packed' \in Nat
      /\ epoch' = epoch /\ extra' = extra /\ frag' = frag /\ active' = active
      /\ phase' = phase /\ fed' = fed /\ rendered' = rendered
      /\ okStreak' = okStreak /\ failStreak' = failStreak /\ log' = log
      /\ HistoryInSync' /\ StreaksFollowLog'
  BY <1>2, <1>3, SendStep
<1> QED
  BY <1>4, <1>5 DEF CoreInv, TypeOK

\* A further fragment of the open stream.
LEMMA GoOnStreamStep ==
  ASSUME CoreInv, NEW fr \in {"next", "last"}, NEW comp \in BOOLEAN, GoOnStream(fr, comp)
  PROVE  CoreInv'
<1> DEFINE p == [stream |-> open[1].stream, part |-> Len(open) + 1, epoch |-> epoch]
           u == [orders |-> TRUE, frag |-> fr, comp |-> comp, data |-> p]
<1>1. /\ streams \in 0..MaxStreams /\ open \in Seq(Part) /\ due \in Seq(Seq(Part))
      /\ epoch \in 1..MaxEpochs
  BY DEF CoreInv, TypeOK
<1>2. /\ phase \in {"active", "reactivating"} /\ SendUpdate(u)
      /\ open # <<>> /\ Len(open) < MaxParts
      /\ open' = IF fr = "next" THEN Append(open, p) ELSE <<>>
      /\ due' = IF fr = "last" /\ open[1].epoch = epoch
                  THEN Append(due, Append(open, p)) ELSE due
      /\ streams' = streams
  BY <1>1 DEF GoOnStream
<1>3. p \in Part
  <2>1. open[1] \in Part /\ Len(open) + 1 \in 1..MaxParts
    BY <1>1, <1>2, OneInBounds
  <2>2. open[1].stream \in 1..MaxStreams
    BY <2>1 DEF Part
  <2> QED
    BY <1>1, <2>1, <2>2 DEF Part
<1>4. u \in Update
  BY <1>3 DEF Update, Frags
<1>5. streams' \in 0..MaxStreams /\ open' \in Seq(Part) /\ due' \in Seq(Seq(Part))
  <2> HIDE DEF p
  <2>1. Append(open, p) \in Seq(Part) /\ <<>> \in Seq(Part)
    BY <1>1, <1>3
  <2>2. Append(due, Append(open, p)) \in Seq(Seq(Part))
    BY <1>1, <2>1
  <2> QED
    BY <1>1, <1>2, <2>1, <2>2
<1> HIDE DEF p, u
<1>6. /\ wire' \in Seq(Update) /\ packed' \in Nat
      /\ epoch' = epoch /\ extra' = extra /\ frag' = frag /\ active' = active
      /\ phase' = phase /\ fed' = fed /\ rendered' = rendered
      /\ okStreak' = okStreak /\ failStreak' = failStreak /\ log' = log
      /\ HistoryInSync' /\ StreaksFollowLog'
  BY <1>2, <1>4, SendStep
<1> QED
  BY <1>5, <1>6 DEF CoreInv, TypeOK

\* An update that is no order stream.
LEMMA SendOtherStep ==
  ASSUME CoreInv, NEW comp \in BOOLEAN, SendOther(comp)
  PROVE  CoreInv'
<1> DEFINE u == [orders |-> FALSE, frag |-> "single", comp |-> comp,
                 data |-> [stream |-> 1, part |-> 1, epoch |-> epoch]]
<1>1. u \in Update
  <2>1. [stream |-> 1, part |-> 1, epoch |-> epoch] \in Part
    BY OneInBounds DEF Part, CoreInv, TypeOK
  <2> QED
    BY <2>1 DEF Update, Frags
<1>2. /\ phase \in {"active", "reactivating"} /\ SendUpdate(u)
      /\ UNCHANGED <<streams, open, due>>
  BY DEF SendOther
<1> HIDE DEF u
<1>3. /\ wire' \in Seq(Update) /\ packed' \in Nat
      /\ epoch' = epoch /\ extra' = extra /\ frag' = frag /\ active' = active
      /\ phase' = phase /\ fed' = fed /\ rendered' = rendered
      /\ okStreak' = okStreak /\ failStreak' = failStreak /\ log' = log
      /\ HistoryInSync' /\ StreaksFollowLog'
  BY <1>1, <1>2, SendStep
<1> QED
  BY <1>2, <1>3 DEF CoreInv, TypeOK

\* Taking a PDU.
LEMMA ReceiveStep == ASSUME CoreInv, Receive PROVE CoreInv'
<1>1. /\ phase = "active" /\ wire # <<>> /\ Handle(wire[1])
      /\ fed' = fed + Cardinality(Compressed)
      /\ extra' = IF Compressed = {} THEN <<>> ELSE Tail(wire)
      /\ wire' = <<>>
      /\ UNCHANGED <<streams, open, packed, epoch, due>>
  BY DEF Receive
<1>2. TypeOK /\ wire \in Seq(Update) /\ fed \in Nat /\ packed \in Nat
  BY DEF CoreInv, TypeOK
<1>3. wire[1] \in Update /\ Tail(wire) \in Seq(Update) /\ <<>> \in Seq(Update)
  BY <1>1, <1>2
<1>4. /\ frag' \in Seq(Part) /\ active' \in BOOLEAN
      /\ rendered' \in Seq(Seq(Part)) /\ log' \in Seq(BOOLEAN)
      /\ okStreak' \in Nat /\ failStreak' \in Nat
      /\ phase' \in Phases
      /\ StreaksFollowLog'
  BY <1>1, <1>2, <1>3, HandleStep DEF CoreInv
<1>5. Cardinality(Compressed) \in Nat /\ packed = fed + Cardinality(Compressed)
  BY <1>1, <1>2, CompressedFinite DEF CoreInv, HistoryInSync
<1>6. HistoryInSync'
  <2>1. Compressed' = {}
    BY <1>1 DEF Compressed
  <2>2. Cardinality(Compressed') = 0
    BY <2>1, FS_EmptySet
  <2>3. packed' = packed /\ fed' = packed
    BY <1>1, <1>5
  <2> QED
    BY <1>2, <2>2, <2>3 DEF HistoryInSync
<1>7. wire' \in Seq(Update) /\ extra' \in Seq(Update) /\ fed' \in Nat
  BY <1>1, <1>2, <1>3, <1>5
<1> QED
  BY <1>1, <1>2, <1>4, <1>6, <1>7 DEF CoreInv, TypeOK

\* Taking a queued update.
LEMMA PopExtraStep == ASSUME CoreInv, PopExtra PROVE CoreInv'
<1>1. /\ phase = "active" /\ extra # <<>> /\ Handle(extra[1])
      /\ extra' = Tail(extra)
      /\ UNCHANGED <<server, fed>>
  BY DEF PopExtra
<1>2. TypeOK /\ extra \in Seq(Update)
  BY DEF CoreInv, TypeOK
<1>3. extra[1] \in Update /\ extra' \in Seq(Update)
  BY <1>1, <1>2
<1>4. /\ frag' \in Seq(Part) /\ active' \in BOOLEAN
      /\ rendered' \in Seq(Seq(Part)) /\ log' \in Seq(BOOLEAN)
      /\ okStreak' \in Nat /\ failStreak' \in Nat
      /\ phase' \in Phases
      /\ StreaksFollowLog'
  BY <1>1, <1>2, <1>3, HandleStep DEF CoreInv
<1>5. HistoryInSync'
  BY <1>1 DEF CoreInv, HistoryInSync, Compressed, server
<1> QED
  BY <1>1, <1>2, <1>3, <1>4, <1>5 DEF CoreInv, TypeOK, server

\* A reactivation begins.
LEMMA ReactivateStep == ASSUME CoreInv, Reactivate PROVE CoreInv'
<1>1. /\ phase = "active" /\ phase' = "reactivating" /\ epoch < MaxEpochs /\ epoch' = epoch + 1
      /\ UNCHANGED <<streams, open, packed, wire, due, fed, extra, assembly, results>>
  BY DEF Reactivate
<1>2. StreaksFollowLog'
  BY <1>1, StreaksKept DEF CoreInv
<1>3. HistoryInSync'
  BY <1>1 DEF CoreInv, HistoryInSync, Compressed
<1>4. epoch' \in 1..MaxEpochs
  BY <1>1, OneInBounds DEF CoreInv, TypeOK
<1> QED
  BY <1>1, <1>2, <1>3, <1>4 DEF CoreInv, TypeOK, Phases, assembly, results

\* It fails.
LEMMA ReactivationFailsStep == ASSUME CoreInv, ReactivationFails PROVE CoreInv'
<1>1. /\ phase = "reactivating" /\ phase' = "ended"
      /\ UNCHANGED <<server, fed, extra, assembly, results>>
  BY DEF ReactivationFails
<1>2. StreaksFollowLog'
  BY <1>1, StreaksKept DEF CoreInv
<1>3. HistoryInSync'
  BY <1>1 DEF HistoryInSync
<1> QED
  BY <1>1, <1>2, <1>3 DEF CoreInv, TypeOK, Phases, server, assembly, results

\* It is finalized.
LEMMA ReactivatedStep == ASSUME CoreInv, Reactivated PROVE CoreInv'
<1>1. /\ phase = "reactivating" /\ phase' = "active" /\ extra' = <<>>
      /\ frag' = <<>> /\ active' = FALSE /\ okStreak' = 0 /\ failStreak' = 0 /\ log' = <<>>
      /\ UNCHANGED <<server, fed, rendered>>
  BY DEF Reactivated
<1>2. StreaksFollowLog'
  <2>1. Len(log') = 0
    BY <1>1
  <2>2. OpenFailures(log') = {}
    BY <2>1 DEF OpenFailures
  <2>3. Cardinality(OpenFailures(log')) = 0
    BY <2>2, FS_EmptySet
  <2> QED
    BY <1>1, <2>1, <2>3 DEF StreaksFollowLog
<1>3. HistoryInSync'
  BY <1>1 DEF CoreInv, HistoryInSync, Compressed, server
<1>4. /\ extra' \in Seq(Update) /\ frag' \in Seq(Part) /\ active' \in BOOLEAN
      /\ okStreak' \in Nat /\ failStreak' \in Nat /\ log' \in Seq(BOOLEAN)
      /\ phase' \in Phases
  <2>1. \A S : <<>> \in Seq(S)
    OBVIOUS
  <2>2. 0 \in Nat /\ FALSE \in BOOLEAN /\ "active" \in Phases
    BY DEF Phases
  <2> QED
    BY <1>1, <2>1, <2>2, Zenon
<1> QED
  BY <1>1, <1>2, <1>3, <1>4 DEF CoreInv, TypeOK, server

\* Nothing happens.
LEMMA StutterStep == ASSUME CoreInv, UNCHANGED vars PROVE CoreInv'
<1>1. StreaksFollowLog'
  BY Zenon DEF CoreInv, StreaksFollowLog, vars
<1>2. HistoryInSync'
  BY DEF CoreInv, HistoryInSync, Compressed, vars
<1>3. TypeOK'
  BY DEF CoreInv, TypeOK, vars
<1> QED
  BY <1>1, <1>2, <1>3 DEF CoreInv

\* Every step keeps the invariant.
LEMMA NextPreserves == CoreInv /\ [Next]_vars => CoreInv'
<1> SUFFICES ASSUME CoreInv, [Next]_vars PROVE CoreInv'
  OBVIOUS
<1>1. ASSUME NEW comp \in BOOLEAN, NEW fr \in {"single", "first"}, BeginStream(fr, comp)
      PROVE  CoreInv'
  BY <1>1, BeginStreamStep
<1>2. ASSUME NEW comp \in BOOLEAN, NEW fr \in {"next", "last"}, GoOnStream(fr, comp)
      PROVE  CoreInv'
  BY <1>2, GoOnStreamStep
<1>3. ASSUME NEW comp \in BOOLEAN, SendOther(comp) PROVE CoreInv'
  BY <1>3, SendOtherStep
<1>4. CASE Receive
  BY <1>4, ReceiveStep
<1>5. CASE PopExtra
  BY <1>5, PopExtraStep
<1>6. CASE Reactivate
  BY <1>6, ReactivateStep
<1>7. CASE ReactivationFails
  BY <1>7, ReactivationFailsStep
<1>8. CASE Reactivated
  BY <1>8, ReactivatedStep
<1>9. CASE Quiet \/ UNCHANGED vars
  BY <1>9, StutterStep DEF Quiet
<1> QED
  BY <1>1, <1>2, <1>3, <1>4, <1>5, <1>6, <1>7, <1>8, <1>9, Zenon DEF Next

-----------------------------------------------------------------------------
(* The updates on their way *)

\* The client takes one update after the other.
LEMMA TookSteps ==
  ASSUME NEW a0, NEW q, Len(q) \in Nat
  PROVE  \E h : /\ h[0] = a0
                /\ \A n \in 1..Len(q) : h[n] = Took(h[n - 1], q[n])
                /\ TookAll(a0, q) = h[Len(q)]
<1> DEFINE L == Len(q)
           One(f, n) == IF n = 0 THEN a0 ELSE Took(f[n - 1], q[n])
           Is(f, m) == f = [n \in 0..m |-> One(f, n)]
           T == {m \in 0..L : \E f : Is(f, m)}
<1>1. 0 \in T
  <2>1. Is([n \in 0..0 |-> a0], 0)
    OBVIOUS
  <2>2. 0 \in 0..L
    OBVIOUS
  <2> HIDE DEF Is
  <2> QED
    BY <2>1, <2>2
<1>2. ASSUME NEW m \in 0..L, m < L, m \in T PROVE m + 1 \in T
  <2>1. PICK f : Is(f, m)
    BY <1>2
  <2> DEFINE g == [n \in 0..(m + 1) |-> IF n = m + 1 THEN One(f, n) ELSE f[n]]
  <2>2. ASSUME NEW n \in 0..(m + 1) PROVE g[n] = One(g, n)
    <3>1. CASE n = 0
      <4>1. g[0] = f[0] /\ f[0] = One(f, 0)
        BY <2>1
      <4> QED
        BY <3>1, <4>1
    <3>2. CASE n # 0
      <4>1. n - 1 \in 0..m /\ g[n - 1] = f[n - 1]
        BY <3>2
      <4>2. One(g, n) = One(f, n)
        BY <3>2, <4>1
      <4>3. g[n] = One(f, n)
        <5>1. f = [i \in 0..m |-> One(f, i)]
          BY <2>1
        <5> HIDE DEF One
        <5>2. CASE n = m + 1
          BY <5>2
        <5>3. CASE n # m + 1
          <6>1. n \in 0..m
            BY <5>3
          <6>2. g[n] = f[n]
            BY <5>3
          <6> QED
            BY <5>1, <6>1, <6>2
        <5> QED
          BY <5>2, <5>3
      <4> QED
        BY <4>2, <4>3
    <3> QED
      BY <3>1, <3>2
  <2>3. g = [n \in 0..(m + 1) |-> One(g, n)]
    BY <2>2
  <2>4. Is(g, m + 1)
    BY <2>3
  <2>5. m + 1 \in 0..L
    BY <1>2
  <2> HIDE DEF Is, g
  <2> QED
    BY <2>4, <2>5
<1>3. L \in T
  <2> HIDE DEF T
  <2>1. 0..L \subseteq T
    BY <1>1, <1>2, UpTo
  <2> QED
    BY <2>1
<1>4. \E f : f = [n \in 0..L |-> One(f, n)]
  BY <1>3
<1> DEFINE h == CHOOSE f : f = [n \in 0..L |-> One(f, n)]
<1>5. h = [n \in 0..L |-> One(h, n)]
  BY <1>4, Zenon
<1>6. TookAll(a0, q) = h[L]
  BY DEF TookAll
<1> HIDE DEF h
<1>7. \A n \in 0..L : h[n] = One(h, n)
  <2> HIDE DEF One
  <2> QED
    BY <1>5
<1>8. h[0] = a0 /\ \A n \in 1..L : h[n] = Took(h[n - 1], q[n])
  BY <1>7
<1> QED
  BY <1>6, <1>8

\* An update sent last is taken last.
LEMMA TookAppend ==
  ASSUME NEW a0, NEW q \in Seq(Update), NEW e \in Update
  PROVE  TookAll(a0, Append(q, e)) = Took(TookAll(a0, q), e)
<1>1. PICK a : a = Append(q, e)
  OBVIOUS
<1>2. PICK L : L = Len(q)
  OBVIOUS
<1>3. /\ L \in Nat /\ Len(a) = L + 1 /\ Len(a) \in Nat /\ a[L + 1] = e
      /\ \A i \in 1..L : a[i] = q[i]
  BY <1>1, <1>2, AppendProperties
<1>4. PICK g : /\ g[0] = a0
               /\ \A n \in 1..Len(q) : g[n] = Took(g[n - 1], q[n])
               /\ TookAll(a0, q) = g[Len(q)]
  <2>1. Len(q) \in Nat
    OBVIOUS
  <2> QED
    BY <2>1, TookSteps, Zenon
<1>5. PICK h : /\ h[0] = a0
               /\ \A n \in 1..Len(a) : h[n] = Took(h[n - 1], a[n])
               /\ TookAll(a0, a) = h[Len(a)]
  <2>1. Len(a) \in Nat
    BY <1>3
  <2> QED
    BY <2>1, TookSteps, Zenon
<1> DEFINE T == {n \in 0..L : g[n] = h[n]}
<1>6. 0 \in T
  BY <1>3, <1>4, <1>5
<1>7. ASSUME NEW n \in 0..L, n < L, n \in T PROVE n + 1 \in T
  <2>1. n + 1 \in 1..L /\ n + 1 \in 1..Len(a) /\ (n + 1) - 1 = n
    <3>1. L \in Nat /\ Len(a) = L + 1
      BY <1>3
    <3>2. n < L
      BY <1>7
    <3> HIDE DEF T
    <3>3. n + 1 \in 1..L /\ n + 1 \in 1..(L + 1) /\ (n + 1) - 1 = n
      BY <3>1, <3>2
    <3> QED
      BY <3>1, <3>3
  <2>2. g[n + 1] = Took(g[n], q[n + 1])
    BY <1>2, <1>4, <2>1
  <2>3. h[n + 1] = Took(h[n], a[n + 1])
    BY <1>5, <2>1
  <2>4. a[n + 1] = q[n + 1]
    BY <1>3, <2>1
  <2> QED
    BY <1>3, <1>7, <2>1, <2>2, <2>3, <2>4
<1>8. L \in T
  <2> HIDE DEF T
  <2>1. 0..L \subseteq T
    BY <1>3, <1>6, <1>7, UpTo
  <2> QED
    BY <1>3, <2>1
<1>9. h[L + 1] = Took(h[L], a[L + 1])
  <2>1. L + 1 \in 1..Len(a) /\ (L + 1) - 1 = L
    BY <1>3
  <2> QED
    BY <1>5, <2>1
<1>10. h[L] = TookAll(a0, q) /\ h[L + 1] = TookAll(a0, a)
  BY <1>2, <1>3, <1>4, <1>5, <1>8
<1> QED
  BY <1>1, <1>3, <1>9, <1>10

LEMMA TookNothing ==
  ASSUME NEW a0
  PROVE  TookAll(a0, <<>>) = a0
<1>1. PICK q : q = <<>>
  OBVIOUS
<1>2. Len(q) = 0
  BY <1>1
<1>3. PICK g : /\ g[0] = a0
               /\ \A n \in 1..Len(q) : g[n] = Took(g[n - 1], q[n])
               /\ TookAll(a0, q) = g[Len(q)]
  <2>1. Len(q) \in Nat
    BY <1>2
  <2> QED
    BY <2>1, TookSteps, Zenon
<1> QED
  BY <1>1, <1>2, <1>3

\* The update taken first is taken first.
LEMMA TookFront ==
  ASSUME NEW a0, NEW q \in Seq(Update), q # <<>>
  PROVE  TookAll(a0, q) = TookAll(Took(a0, q[1]), Tail(q))
<1>1. PICK t, b0, L : t = Tail(q) /\ b0 = Took(a0, q[1]) /\ L = Len(q)
  OBVIOUS
<1>2. /\ L \in Nat \ {0} /\ Len(t) = L - 1 /\ Len(t) \in Nat
      /\ \A i \in 1..(L - 1) : t[i] = q[i + 1]
  BY <1>1, HeadTailProperties, EmptySeq
<1>3. PICK g : /\ g[0] = a0
               /\ \A n \in 1..Len(q) : g[n] = Took(g[n - 1], q[n])
               /\ TookAll(a0, q) = g[Len(q)]
  <2>1. Len(q) \in Nat
    OBVIOUS
  <2> QED
    BY <2>1, TookSteps, Zenon
<1>4. PICK h : /\ h[0] = b0
               /\ \A n \in 1..Len(t) : h[n] = Took(h[n - 1], t[n])
               /\ TookAll(b0, t) = h[Len(t)]
  <2>1. Len(t) \in Nat
    BY <1>2
  <2> QED
    BY <2>1, TookSteps, Zenon
<1> DEFINE T == {n \in 0..(L - 1) : h[n] = g[n + 1]}
<1>5. 0 \in T
  <2>1. 1 \in 1..Len(q) /\ 1 - 1 = 0
    BY <1>1, <1>2
  <2>2. g[1] = Took(a0, q[1])
    BY <1>3, <2>1
  <2> QED
    BY <1>1, <1>2, <1>4, <2>2
<1>6. ASSUME NEW n \in 0..(L - 1), n < L - 1, n \in T PROVE n + 1 \in T
  <2>1. /\ n + 1 \in 1..Len(t) /\ (n + 1) - 1 = n /\ n + 1 \in 1..(L - 1) /\ n + 1 \in 0..(L - 1)
        /\ (n + 1) + 1 \in 1..Len(q) /\ ((n + 1) + 1) - 1 = n + 1
    BY <1>1, <1>2, <1>6
  <2>2. h[n + 1] = Took(h[n], t[n + 1])
    BY <1>4, <2>1
  <2>3. g[(n + 1) + 1] = Took(g[n + 1], q[(n + 1) + 1])
    BY <1>3, <2>1
  <2>4. t[n + 1] = q[(n + 1) + 1] /\ h[n] = g[n + 1]
    BY <1>2, <1>6, <2>1
  <2> QED
    BY <2>1, <2>2, <2>3, <2>4
<1>7. L - 1 \in T
  <2>1. L - 1 \in Nat
    BY <1>2
  <2> HIDE DEF T
  <2>2. 0..(L - 1) \subseteq T
    BY <1>5, <1>6, <2>1, UpTo
  <2> QED
    BY <2>1, <2>2
<1>8. h[L - 1] = g[L]
  <2>1. (L - 1) + 1 = L
    BY <1>2
  <2> QED
    BY <1>7, <2>1
<1> QED
  BY <1>1, <1>2, <1>3, <1>4, <1>8

\* What the client has assembled and rendered.
Assembly == [frag : Seq(Part), active : BOOLEAN, rendered : Seq(Seq(Part))]
Client == [frag |-> frag, active |-> active, rendered |-> rendered]
BeginsWith(d, r) == Len(r) <= Len(d) /\ \A i \in DOMAIN r : r[i] = d[i]

\* reassemble_orders on an update, case by case.
LEMMA TookNone ==
  ASSUME NEW a \in Assembly, NEW u \in Update,
         ~u.orders \/ (u.frag \in {"next", "last"} /\ ~a.active)
  PROVE  Took(a, u) = a
  BY DEF Took

LEMMA TookSingle ==
  ASSUME NEW a \in Assembly, NEW u \in Update, u.orders, u.frag = "single",
         NEW m, m = Append(a.rendered, <<u.data>>)
  PROVE  Took(a, u) = [frag |-> a.frag, active |-> a.active, rendered |-> m]
<1>1. Took(a, u) = [a EXCEPT !.rendered = m]
  BY DEF Took
<1> QED
  BY <1>1 DEF Assembly

LEMMA TookFirst ==
  ASSUME NEW a \in Assembly, NEW u \in Update, u.orders, u.frag = "first",
         NEW m, m = <<u.data>>
  PROVE  Took(a, u) = [frag |-> m, active |-> TRUE, rendered |-> a.rendered]
<1>1. Took(a, u) = [a EXCEPT !.frag = m, !.active = TRUE]
  BY DEF Took
<1> QED
  BY <1>1 DEF Assembly

LEMMA TookNext ==
  ASSUME NEW a \in Assembly, NEW u \in Update, u.orders, u.frag = "next", a.active,
         NEW m, m = Append(a.frag, u.data)
  PROVE  Took(a, u) = [frag |-> m, active |-> TRUE, rendered |-> a.rendered]
<1>1. Took(a, u) = [a EXCEPT !.frag = m]
  BY DEF Took
<1>2. a.active = TRUE
  BY DEF Assembly
<1> QED
  BY <1>1, <1>2 DEF Assembly

LEMMA TookLast ==
  ASSUME NEW a \in Assembly, NEW u \in Update, u.orders, u.frag = "last", a.active,
         NEW m, m = Append(a.rendered, Append(a.frag, u.data))
  PROVE  Took(a, u) = [frag |-> <<>>, active |-> FALSE, rendered |-> m]
  BY DEF Took

LEMMA BeginsWithMore ==
  ASSUME NEW S, NEW r \in Seq(S), NEW d \in Seq(S), NEW x \in S, BeginsWith(d, r)
  PROVE  BeginsWith(Append(d, x), r) /\ Append(d, x) \in Seq(S)
<1>1. PICK e : e = Append(d, x)
  OBVIOUS
<1>2. /\ e \in Seq(S) /\ Len(e) = Len(d) + 1 /\ \A i \in 1..Len(d) : e[i] = d[i]
      /\ Len(d) \in Nat /\ Len(r) \in Nat /\ DOMAIN r = 1..Len(r)
  BY <1>1, AppendProperties
<1>3. Len(r) <= Len(d) /\ \A i \in 1..Len(r) : r[i] = d[i]
  BY <1>2 DEF BeginsWith
<1>4. \A i \in DOMAIN r : r[i] = e[i]
  BY <1>2, <1>3
<1> QED
  BY <1>1, <1>2, <1>3, <1>4 DEF BeginsWith

LEMMA BeginsWithItself ==
  ASSUME NEW S, NEW r \in Seq(S)
  PROVE  BeginsWith(r, r)
  BY DEF BeginsWith

\* Taking an update forgets nothing that was rendered.
LEMMA TookIs ==
  ASSUME NEW a \in Assembly, NEW u \in Update
  PROVE  Took(a, u) \in Assembly /\ BeginsWith(Took(a, u).rendered, a.rendered)
<1>1. PICK f, r, d : f = a.frag /\ r = a.rendered /\ d = u.data
  OBVIOUS
<1>2. /\ f \in Seq(Part) /\ r \in Seq(Seq(Part)) /\ a.active \in BOOLEAN /\ d \in Part
      /\ u.frag \in {"single", "first", "next", "last"} /\ u.orders \in BOOLEAN
  BY <1>1 DEF Assembly, Update, Frags
<1>3. <<d>> \in Seq(Part) /\ Append(f, d) \in Seq(Part) /\ <<>> \in Seq(Part)
  BY <1>2, AppendProperties
<1>4. PICK one, more : one = Append(r, <<d>>) /\ more = Append(r, Append(f, d))
  OBVIOUS
<1>5. BeginsWith(r, r)
  BY <1>2, BeginsWithItself
<1>6. /\ one \in Seq(Seq(Part)) /\ more \in Seq(Seq(Part))
      /\ BeginsWith(one, r) /\ BeginsWith(more, r)
  <2>1. PICK S, x, y : S = Seq(Part) /\ x = <<d>> /\ y = Append(f, d)
    OBVIOUS
  <2>2. r \in Seq(S) /\ x \in S /\ y \in S
    BY <1>2, <1>3, <2>1
  <2>3. BeginsWith(Append(r, x), r) /\ Append(r, x) \in Seq(S)
    BY <1>5, <2>2, BeginsWithMore
  <2>4. BeginsWith(Append(r, y), r) /\ Append(r, y) \in Seq(S)
    BY <1>5, <2>2, BeginsWithMore
  <2> QED
    BY <1>4, <2>1, <2>3, <2>4
<1>7. CASE ~u.orders \/ (u.frag \in {"next", "last"} /\ ~a.active)
  <2>1. Took(a, u) = a
    BY <1>7, TookNone
  <2> QED
    BY <1>1, <1>5, <2>1
<1>8. CASE u.orders /\ u.frag = "single"
  <2>1. one = Append(a.rendered, <<u.data>>)
    BY <1>1, <1>4
  <2>2. Took(a, u) = [frag |-> a.frag, active |-> a.active, rendered |-> one]
    BY <1>8, <2>1, TookSingle
  <2> QED
    BY <1>1, <1>2, <1>6, <2>2 DEF Assembly
<1>9. CASE u.orders /\ u.frag = "first"
  <2>1. PICK m : m = <<u.data>>
    OBVIOUS
  <2>2. Took(a, u) = [frag |-> m, active |-> TRUE, rendered |-> a.rendered]
    BY <1>9, <2>1, TookFirst
  <2> QED
    BY <1>1, <1>2, <1>3, <1>5, <2>1, <2>2 DEF Assembly
<1>10. CASE u.orders /\ u.frag = "next" /\ a.active
  <2>1. PICK m : m = Append(a.frag, u.data)
    OBVIOUS
  <2>2. Took(a, u) = [frag |-> m, active |-> TRUE, rendered |-> a.rendered]
    BY <1>10, <2>1, TookNext
  <2>3. m \in Seq(Part)
    BY <1>1, <1>3, <2>1
  <2> QED
    BY <1>1, <1>2, <1>5, <2>2, <2>3 DEF Assembly
<1>11. CASE u.orders /\ u.frag = "last" /\ a.active
  <2>1. more = Append(a.rendered, Append(a.frag, u.data))
    BY <1>1, <1>4
  <2>2. Took(a, u) = [frag |-> <<>>, active |-> FALSE, rendered |-> more]
    BY <1>11, <2>1, TookLast
  <2> QED
    BY <1>1, <1>3, <1>6, <2>2 DEF Assembly
<1> QED
  BY <1>2, <1>7, <1>8, <1>9, <1>10, <1>11

LEMMA BeginsWithTrans ==
  ASSUME NEW S, NEW r \in Seq(S), NEW d \in Seq(S), NEW e \in Seq(S),
         BeginsWith(d, r), BeginsWith(e, d)
  PROVE  BeginsWith(e, r)
<1>1. /\ Len(r) \in Nat /\ Len(d) \in Nat /\ Len(e) \in Nat
      /\ DOMAIN r = 1..Len(r) /\ DOMAIN d = 1..Len(d)
  OBVIOUS
<1>2. /\ Len(r) <= Len(d) /\ Len(d) <= Len(e)
      /\ \A i \in DOMAIN r : r[i] = d[i]
      /\ \A i \in DOMAIN d : d[i] = e[i]
  BY DEF BeginsWith
<1>3. Len(r) <= Len(e) /\ \A i \in DOMAIN r : i \in DOMAIN d
  BY <1>1, <1>2
<1> QED
  BY <1>2, <1>3 DEF BeginsWith

LEMMA TookAllIs ==
  ASSUME NEW a \in Assembly, NEW q \in Seq(Update)
  PROVE  TookAll(a, q) \in Assembly /\ BeginsWith(TookAll(a, q).rendered, a.rendered)
<1>1. PICK L : L = Len(q)
  OBVIOUS
<1>2. L \in Nat /\ Len(q) \in Nat /\ \A i \in 1..L : q[i] \in Update
  BY <1>1
<1>3. PICK g : /\ g[0] = a
               /\ \A n \in 1..L : g[n] = Took(g[n - 1], q[n])
               /\ TookAll(a, q) = g[L]
  <2>1. Len(q) \in Nat
    BY <1>2
  <2>2. \E g : /\ g[0] = a
               /\ \A n \in 1..Len(q) : g[n] = Took(g[n - 1], q[n])
               /\ TookAll(a, q) = g[Len(q)]
    BY <2>1, TookSteps, Zenon
  <2> QED
    BY <1>1, <2>2
<1>4. \A x \in Assembly : x.rendered \in Seq(Seq(Part))
  BY DEF Assembly
<1> DEFINE T == {n \in 0..L : g[n] \in Assembly /\ BeginsWith(g[n].rendered, a.rendered)}
<1>5. 0 \in T
  <2>1. BeginsWith(a.rendered, a.rendered)
    BY <1>4, BeginsWithItself
  <2> QED
    BY <1>2, <1>3, <2>1
<1>6. ASSUME NEW n \in 0..L, n < L, n \in T PROVE n + 1 \in T
  <2>1. n + 1 \in 1..L /\ (n + 1) - 1 = n /\ n + 1 \in 0..L
    BY <1>2, <1>6
  <2>2. PICK u, x, y : u = q[n + 1] /\ x = g[n] /\ y = g[n + 1]
    OBVIOUS
  <2>3. u \in Update /\ y = Took(x, u) /\ x \in Assembly /\ BeginsWith(x.rendered, a.rendered)
    BY <1>2, <1>3, <1>6, <2>1, <2>2
  <2>4. y \in Assembly /\ BeginsWith(y.rendered, x.rendered)
    BY <2>3, TookIs
  <2>5. BeginsWith(y.rendered, a.rendered)
    <3>1. PICK S, p, r, s : S = Seq(Part) /\ p = a.rendered /\ r = x.rendered /\ s = y.rendered
      OBVIOUS
    <3>2. p \in Seq(S) /\ r \in Seq(S) /\ s \in Seq(S)
      BY <1>4, <2>3, <2>4, <3>1
    <3>3. BeginsWith(r, p) /\ BeginsWith(s, r)
      BY <2>3, <2>4, <3>1
    <3>4. BeginsWith(s, p)
      BY <3>2, <3>3, BeginsWithTrans
    <3> QED
      BY <3>1, <3>4
  <2> QED
    BY <2>1, <2>2, <2>4, <2>5
<1> HIDE DEF T
<1>7. 0..L \subseteq T
  BY <1>2, <1>5, <1>6, UpTo
<1>8. L \in T
  BY <1>2, <1>7
<1> QED
  BY <1>3, <1>8 DEF T

\* The body of the loop takes an update as Took says.
LEMMA HandleTakes ==
  ASSUME TypeOK, NEW u \in Update, Handle(u)
  PROVE  Client' = Took(Client, u) /\ Client \in Assembly
<1>1. PICK f, ac, r, d : f = frag /\ ac = active /\ r = rendered /\ d = u.data
  OBVIOUS
<1>2. /\ f \in Seq(Part) /\ ac \in BOOLEAN /\ r \in Seq(Seq(Part)) /\ u.orders \in BOOLEAN
      /\ u.frag \in {"single", "first", "next", "last"} /\ d \in Part
  BY <1>1 DEF TypeOK, Update, Frags
<1>3. PICK a : a = Client
  OBVIOUS
<1>4. a = [frag |-> f, active |-> ac, rendered |-> r] /\ a.active = ac /\ a.frag = f /\ a.rendered = r
  BY <1>1, <1>3 DEF Client
<1>5. a \in Assembly
  BY <1>2, <1>4 DEF Assembly
<1>6. CASE ~u.orders
  <2>1. frag' = f /\ active' = ac /\ rendered' = r
    BY <1>1, <1>6 DEF Handle, assembly, results
  <2>2. Client' = a
    BY <1>4, <2>1 DEF Client
  <2> QED
    BY <1>3, <1>5, <1>6, <2>2, TookNone
<1>7. CASE u.orders
  <2>1. /\ Reassemble(u)
        /\ IF Completed(u) # <<>> THEN Render(Completed(u)) ELSE UNCHANGED <<phase, results>>
    BY <1>7 DEF Handle
  <2>2. CASE u.frag = "single"
    <3>1. Completed(u) = <<d>> /\ Completed(u) # <<>>
      BY <1>1, <2>2 DEF Completed
    <3>2. rendered' = Append(r, <<d>>)
      BY <1>1, <2>1, <3>1 DEF Render
    <3>3. frag' = f /\ active' = ac
      BY <1>1, <2>1, <2>2 DEF Reassemble, assembly
    <3>4. Client' = [frag |-> f, active |-> ac, rendered |-> Append(r, <<d>>)]
      BY <3>2, <3>3 DEF Client
    <3>5. PICK m : m = Append(a.rendered, <<u.data>>)
      OBVIOUS
    <3>6. Took(a, u) = [frag |-> a.frag, active |-> a.active, rendered |-> m]
      BY <1>5, <1>7, <2>2, <3>5, TookSingle
    <3>7. m = Append(r, <<d>>)
      BY <1>1, <1>4, <3>5
    <3> QED
      BY <1>3, <1>4, <1>5, <3>4, <3>6, <3>7
  <2>3. CASE u.frag = "first"
    <3>1. Completed(u) = <<>>
      BY <2>3 DEF Completed
    <3>2. rendered' = r
      BY <1>1, <2>1, <3>1 DEF results
    <3>3. frag' = <<d>> /\ active' = TRUE
      BY <1>1, <2>1, <2>3 DEF Reassemble
    <3>4. Client' = [frag |-> <<d>>, active |-> TRUE, rendered |-> r]
      BY <3>2, <3>3 DEF Client
    <3>5. PICK m : m = <<u.data>>
      OBVIOUS
    <3>6. Took(a, u) = [frag |-> m, active |-> TRUE, rendered |-> a.rendered]
      BY <1>5, <1>7, <2>3, <3>5, TookFirst
    <3>7. m = <<d>>
      BY <1>1, <3>5
    <3> QED
      BY <1>3, <1>4, <1>5, <3>4, <3>6, <3>7
  <2>4. CASE u.frag \in {"next", "last"} /\ ~ac
    <3>1. Completed(u) = <<>>
      BY <1>1, <2>4 DEF Completed
    <3>2. rendered' = r
      BY <1>1, <2>1, <3>1 DEF results
    <3>3. frag' = f /\ active' = ac
      BY <1>1, <2>1, <2>4 DEF Reassemble, assembly
    <3>4. Client' = a
      BY <1>4, <3>2, <3>3 DEF Client
    <3>5. Took(a, u) = a
      BY <1>4, <1>5, <2>4, TookNone
    <3> QED
      BY <1>3, <1>5, <3>4, <3>5
  <2>5. CASE u.frag = "next" /\ ac
    <3>1. Completed(u) = <<>>
      BY <2>5 DEF Completed
    <3>2. rendered' = r
      BY <1>1, <2>1, <3>1 DEF results
    <3>3. frag' = Append(f, d) /\ active' = ac
      BY <1>1, <2>1, <2>5 DEF Reassemble
    <3>4. Client' = [frag |-> Append(f, d), active |-> ac, rendered |-> r]
      BY <3>2, <3>3 DEF Client
    <3>5. PICK m : m = Append(a.frag, u.data)
      OBVIOUS
    <3>6. a.active /\ ac = TRUE
      BY <1>2, <1>4, <2>5
    <3>7. Took(a, u) = [frag |-> m, active |-> TRUE, rendered |-> a.rendered]
      BY <1>5, <1>7, <2>5, <3>5, <3>6, TookNext
    <3>8. m = Append(f, d)
      BY <1>1, <1>4, <3>5
    <3> QED
      BY <1>3, <1>4, <1>5, <3>4, <3>6, <3>7, <3>8
  <2>6. CASE u.frag = "last" /\ ac
    <3>1. Completed(u) = Append(f, d) /\ Completed(u) # <<>>
      <4>1. Completed(u) = Append(frag, u.data)
        <5>1. u.frag # "single" /\ u.frag = "last" /\ active
          BY <1>1, <2>6
        <5> QED
          BY <5>1 DEF Completed
      <4>2. Append(f, d) # <<>>
        <5>1. f \in Seq(Part) /\ d \in Part
          BY <1>2, Zenon
        <5> QED
          BY <5>1, AppendProperties, ZenonT(60)
      <4>3. Append(frag, u.data) = Append(f, d)
        BY <1>1
      <4> QED
        BY <4>1, <4>2, <4>3, Zenon
    <3>2. rendered' = Append(r, Append(f, d))
      BY <1>1, <2>1, <3>1 DEF Render
    <3>3. frag' = <<>> /\ active' = FALSE
      BY <1>1, <2>1, <2>6 DEF Reassemble
    <3>4. Client' = [frag |-> <<>>, active |-> FALSE, rendered |-> Append(r, Append(f, d))]
      BY <3>2, <3>3 DEF Client
    <3>5. PICK m : m = Append(a.rendered, Append(a.frag, u.data))
      OBVIOUS
    <3>6. a.active
      BY <1>4, <2>6
    <3>7. Took(a, u) = [frag |-> <<>>, active |-> FALSE, rendered |-> m]
      BY <1>5, <1>7, <2>6, <3>5, <3>6, TookLast
    <3>8. m = Append(r, Append(f, d))
      BY <1>1, <1>4, <3>5
    <3> QED
      BY <1>3, <1>5, <3>4, <3>7, <3>8
  <2> QED
    BY <1>2, <2>2, <2>3, <2>4, <2>5, <2>6
<1> QED
  BY <1>2, <1>6, <1>7

-----------------------------------------------------------------------------
(* Rendering stays on course *)

\* Where the updates on their way lead the client.
End == TookAll(Client, extra \o wire)
Led == End.rendered = due /\ End.active = OpenHere /\ (OpenHere => End.frag = open)

LEMMA CourseIs ==
  OnCourse <=> /\ open # <<>> => open[1].epoch <= epoch
               /\ Len(wire) > 1 => Compressed # {}
               /\ BeginsWith(due, rendered)
               /\ phase = "active" => Led
               /\ phase = "reactivating" =>
                     extra = <<>> /\ (wire = <<>> => rendered = due /\ ~OpenHere)
  BY DEF OnCourse, BeginsWith, Led, End, Client

LEMMA CourseIsNext ==
  OnCourse' <=> /\ open' # <<>> => open'[1].epoch <= epoch'
                /\ Len(wire') > 1 => Compressed' # {}
                /\ BeginsWith(due', rendered')
                /\ phase' = "active" => Led'
                /\ phase' = "reactivating" =>
                      extra' = <<>> /\ (wire' = <<>> => rendered' = due' /\ ~OpenHere')
  BY DEF OnCourse, BeginsWith, Led, End, Client

LEMMA ClientIs ==
  ASSUME TypeOK
  PROVE  /\ Client \in Assembly /\ Client.rendered = rendered /\ Client.active = active
         /\ Client.frag = frag
         /\ extra \o wire \in Seq(Update) /\ End \in Assembly
<1>1. /\ frag \in Seq(Part) /\ active \in BOOLEAN /\ rendered \in Seq(Seq(Part))
      /\ extra \in Seq(Update) /\ wire \in Seq(Update)
  BY DEF TypeOK
<1>2. Client \in Assembly
  BY <1>1 DEF Client, Assembly
<1>3. extra \o wire \in Seq(Update)
  BY <1>1, ConcatProperties
<1>4. End \in Assembly
  BY <1>2, <1>3, TookAllIs DEF End
<1> QED
  BY <1>2, <1>3, <1>4 DEF Client

\* An update sent leads the client one update further.
LEMMA SendCourse ==
  ASSUME CoreInv, ~PlainBundles, OnCourse, NEW u \in Update, SendUpdate(u)
  PROVE  /\ End' = Took(End, u) /\ End \in Assembly
         /\ Len(wire') > 1 => Compressed' # {}
         /\ wire' # <<>> /\ UNCHANGED <<epoch, phase, rendered, extra>>
<1>1. /\ wire' = Append(wire, u) /\ MayBundle(u.comp)
      /\ UNCHANGED <<epoch, phase, extra, frag, active, rendered>>
  BY DEF SendUpdate, assembly, results
<1>2. TypeOK /\ wire \in Seq(Update) /\ extra \in Seq(Update)
  BY DEF CoreInv, TypeOK
<1>3. PICK q : q = extra \o wire
  OBVIOUS
<1>4. q \in Seq(Update) /\ End \in Assembly
  BY <1>2, <1>3, ClientIs
<1>5. extra' \o wire' = Append(q, u)
  <2>1. PICK e, w : e = extra /\ w = wire
    OBVIOUS
  <2>2. e \in Seq(Update) /\ w \in Seq(Update) /\ <<u>> \in Seq(Update)
    BY <1>2, <2>1
  <2>3. Append(w, u) = w \o <<u>>
    BY <2>2, AppendIsConcat
  <2>4. e \o (w \o <<u>>) = (e \o w) \o <<u>>
    BY <2>2, ConcatAssociative
  <2>5. (e \o w) \in Seq(Update)
    BY <2>2, ConcatProperties
  <2>6. (e \o w) \o <<u>> = Append(e \o w, u)
    BY <2>5, AppendIsConcat
  <2> QED
    BY <1>1, <1>3, <2>1, <2>3, <2>4, <2>6
<1>6. Client' = Client
  BY <1>1 DEF Client
<1>7. End' = TookAll(Client, Append(q, u))
  BY <1>5, <1>6 DEF End
<1>8. TookAll(Client, Append(q, u)) = Took(TookAll(Client, q), u)
  <2>1. PICK c : c = Client
    OBVIOUS
  <2>2. TookAll(c, Append(q, u)) = Took(TookAll(c, q), u)
    BY <1>4, TookAppend
  <2> QED
    BY <2>1, <2>2
<1>9. End' = Took(End, u)
  BY <1>3, <1>7, <1>8 DEF End
<1>10. PICK L : L = Len(wire)
  OBVIOUS
<1>11. /\ L \in Nat /\ DOMAIN wire = 1..L /\ Len(wire') = L + 1 /\ DOMAIN wire' = 1..(L + 1)
       /\ wire'[L + 1] = u /\ \A i \in 1..L : wire'[i] = wire[i]
  BY <1>1, <1>2, <1>10
<1>12. ASSUME Len(wire') > 1 PROVE Compressed' # {}
  <2>1. wire # <<>>
    BY <1>2, <1>10, <1>11, <1>12
  <2>2. u.comp \/ \E i \in DOMAIN wire : wire[i].comp
    BY <1>1, <2>1 DEF MayBundle
  <2>3. \E i \in DOMAIN wire' : wire'[i].comp
    <3>1. CASE u.comp
      BY <1>11, <3>1
    <3>2. CASE \E i \in DOMAIN wire : wire[i].comp
      <4>1. PICK i \in DOMAIN wire : wire[i].comp
        BY <3>2
      <4>2. i \in DOMAIN wire' /\ wire'[i] = wire[i]
        BY <1>11
      <4> QED
        BY <4>1, <4>2
    <3> QED
      BY <2>2, <3>1, <3>2
  <2> QED
    BY <2>3 DEF Compressed
<1>13. wire' # <<>>
  BY <1>11
<1> QED
  BY <1>1, <1>4, <1>9, <1>12, <1>13

\* The streams completed only become more.
LEMMA DueGrows ==
  ASSUME CoreInv, OnCourse, rendered' = rendered,
         due' = due \/ \E x \in Seq(Part) : due' = Append(due, x)
  PROVE  BeginsWith(due', rendered')
<1>1. BeginsWith(due, rendered)
  BY CourseIs
<1>2. CASE due' = due
  BY <1>1, <1>2
<1>3. ASSUME NEW x \in Seq(Part), due' = Append(due, x) PROVE BeginsWith(due', rendered')
  <2>1. PICK S, r, d : S = Seq(Part) /\ r = rendered /\ d = due
    OBVIOUS
  <2>2. r \in Seq(S) /\ d \in Seq(S) /\ x \in S /\ BeginsWith(d, r)
    BY <1>1, <2>1 DEF CoreInv, TypeOK
  <2>3. BeginsWith(Append(d, x), r)
    BY <2>2, BeginsWithMore
  <2> QED
    BY <1>3, <2>1, <2>3
<1> QED
  BY <1>2, <1>3

LEMMA BeginCourse ==
  ASSUME CoreInv, ~PlainBundles, OnCourse,
         NEW comp \in BOOLEAN, NEW fr \in {"single", "first"}, BeginStream(fr, comp)
  PROVE  OnCourse'
<1>1. PICK p : p = [stream |-> streams + 1, part |-> 1, epoch |-> epoch]
  OBVIOUS
<1>2. PICK u : u = [orders |-> TRUE, frag |-> fr, comp |-> comp, data |-> p]
  OBVIOUS
<1>3. /\ SendUpdate(u) /\ streams < MaxStreams
      /\ open' = (IF fr = "first" THEN <<p>> ELSE open)
      /\ due' = (IF fr = "single" THEN Append(due, <<p>>) ELSE due)
  BY <1>1, <1>2 DEF BeginStream
<1>4. p \in Part
  BY <1>1, <1>3, OneInBounds DEF CoreInv, TypeOK, Part
<1>5. u \in Update /\ u.orders = TRUE /\ u.frag = fr /\ u.data = p
  BY <1>2, <1>4 DEF Update, Frags
<1>6. /\ End' = Took(End, u) /\ End \in Assembly
      /\ Len(wire') > 1 => Compressed' # {}
      /\ wire' # <<>> /\ UNCHANGED <<epoch, phase, rendered, extra>>
  BY <1>3, <1>5, SendCourse
<1>7. BeginsWith(due', rendered')
  <2>1. <<p>> \in Seq(Part)
    BY <1>4
  <2> QED
    BY <1>3, <1>6, <2>1, DueGrows
<1>8. open' # <<>> => open'[1].epoch <= epoch'
  <2>1. CASE fr = "first"
    <3>1. open'[1].epoch = epoch
      BY <1>1, <1>3, <2>1
    <3> QED
      BY <1>6, <3>1 DEF CoreInv, TypeOK
  <2>2. CASE fr # "first"
    BY <1>3, <1>6, <2>2, CourseIs
  <2> QED
    BY <2>1, <2>2
<1>9. ASSUME phase' = "active" PROVE Led'
  <2>1. Led
    BY <1>6, <1>9, CourseIs
  <2>2. PICK a : a = End
    OBVIOUS
  <2>3. a \in Assembly /\ End' = Took(a, u)
    BY <1>6, <2>2
  <2>4. CASE fr = "single"
    <3>1. open' = open /\ due' = Append(due, <<p>>) /\ OpenHere' = OpenHere
      BY <1>3, <1>6, <2>4 DEF OpenHere
    <3>2. PICK m : m = Append(a.rendered, <<u.data>>)
      OBVIOUS
    <3>3. /\ m = Append(a.rendered, <<p>>)
          /\ End'.rendered = m /\ End'.active = a.active /\ End'.frag = a.frag
      <4>1. Took(a, u) = [frag |-> a.frag, active |-> a.active, rendered |-> m]
        BY <1>5, <2>3, <2>4, <3>2, TookSingle
      <4> QED
        BY <1>5, <2>3, <3>2, <4>1
    <3>4. a.rendered = due /\ a.active = OpenHere /\ (OpenHere => a.frag = open)
      BY <2>1, <2>2 DEF Led
    <3> QED
      BY <3>1, <3>3, <3>4 DEF Led
  <2>5. CASE fr = "first"
    <3>1. open' = <<p>> /\ due' = due
      BY <1>3, <2>5
    <3>2. OpenHere' = TRUE
      BY <1>1, <1>6, <3>1 DEF OpenHere
    <3>3. PICK m : m = <<u.data>>
      OBVIOUS
    <3>4. End'.rendered = a.rendered /\ End'.active = TRUE /\ End'.frag = <<p>>
      <4>1. Took(a, u) = [frag |-> m, active |-> TRUE, rendered |-> a.rendered]
        BY <1>5, <2>3, <2>5, <3>3, TookFirst
      <4> QED
        BY <1>5, <2>3, <3>3, <4>1
    <3>5. a.rendered = due
      BY <2>1, <2>2 DEF Led
    <3> QED
      BY <3>1, <3>2, <3>4, <3>5 DEF Led
  <2> QED
    BY <2>4, <2>5
<1>10. phase' = "reactivating" => extra' = <<>>
  BY <1>6, CourseIs
<1> QED
  BY <1>6, <1>7, <1>8, <1>9, <1>10, CourseIsNext

LEMMA GoOnCourse ==
  ASSUME CoreInv, ~PlainBundles, OnCourse,
         NEW comp \in BOOLEAN, NEW fr \in {"next", "last"}, GoOnStream(fr, comp)
  PROVE  OnCourse'
<1>1. PICK p : p = [stream |-> open[1].stream, part |-> Len(open) + 1, epoch |-> epoch]
  OBVIOUS
<1>2. PICK u : u = [orders |-> TRUE, frag |-> fr, comp |-> comp, data |-> p]
  OBVIOUS
<1>3. /\ SendUpdate(u) /\ open # <<>>
      /\ Len(open) < (IF fr = "next" THEN MaxParts - 1 ELSE MaxParts)
      /\ open' = (IF fr = "next" THEN Append(open, p) ELSE <<>>)
      /\ due' = (IF fr = "last" /\ open[1].epoch = epoch THEN Append(due, Append(open, p)) ELSE due)
  BY <1>1, <1>2 DEF GoOnStream
<1>4. open \in Seq(Part) /\ Len(open) \in Nat \ {0} /\ open[1] \in Part
  BY <1>3 DEF CoreInv, TypeOK
<1>5. p \in Part
  <2>1. Len(open) + 1 \in 1..MaxParts
    BY <1>3, <1>4, OneInBounds
  <2> QED
    BY <1>1, <1>4, <2>1 DEF CoreInv, TypeOK, Part
<1>6. u \in Update /\ u.orders = TRUE /\ u.frag = fr /\ u.data = p
  BY <1>2, <1>5 DEF Update, Frags
<1>7. /\ End' = Took(End, u) /\ End \in Assembly
      /\ Len(wire') > 1 => Compressed' # {}
      /\ wire' # <<>> /\ UNCHANGED <<epoch, phase, rendered, extra>>
  BY <1>3, <1>6, SendCourse
<1>8. PICK more : more = Append(open, p)
  OBVIOUS
<1>9. more \in Seq(Part) /\ more # <<>> /\ more[1] = open[1]
  BY <1>4, <1>5, <1>8
<1>10. BeginsWith(due', rendered')
  BY <1>3, <1>7, <1>8, <1>9, DueGrows
<1>11. open' # <<>> => open'[1].epoch <= epoch'
  BY <1>3, <1>7, <1>8, <1>9, CourseIs
<1>12. ASSUME phase' = "active" PROVE Led'
  <2>1. PICK a : a = End
    OBVIOUS
  <2>2. a \in Assembly /\ End' = Took(a, u)
    BY <1>7, <2>1
  <2>3. a.rendered = due /\ a.active = OpenHere /\ (OpenHere => a.frag = open)
    BY <1>7, <1>12, <2>1, CourseIs DEF Led
  <2>4. CASE ~OpenHere
    <3>1. ~a.active
      BY <2>3, <2>4
    <3>2. End' = a
      BY <1>6, <2>2, <3>1, TookNone
    <3>3. open[1].epoch # epoch
      BY <1>3, <2>4 DEF OpenHere
    <3>4. due' = due /\ ~OpenHere'
      BY <1>3, <1>7, <1>8, <1>9, <3>3 DEF OpenHere
    <3>5. End'.rendered = due' /\ ~End'.active /\ End'.active \in BOOLEAN
      BY <2>2, <2>3, <3>1, <3>2, <3>4 DEF Assembly
    <3>6. OpenHere' \in BOOLEAN
      BY DEF OpenHere
    <3> QED
      BY <3>4, <3>5, <3>6 DEF Led
  <2>5. CASE OpenHere /\ fr = "next"
    <3>1. a.active /\ a.frag = open
      BY <2>3, <2>5
    <3>2. more = Append(a.frag, u.data)
      BY <1>6, <1>8, <3>1
    <3>3. End'.rendered = a.rendered /\ End'.active = TRUE /\ End'.frag = more
      <4>1. Took(a, u) = [frag |-> more, active |-> TRUE, rendered |-> a.rendered]
        BY <1>6, <2>2, <2>5, <3>1, <3>2, TookNext
      <4> QED
        BY <2>2, <4>1
    <3>4. open' = more /\ due' = due /\ OpenHere' = TRUE
      BY <1>3, <1>7, <1>8, <1>9, <2>5 DEF OpenHere
    <3> QED
      BY <2>3, <3>3, <3>4 DEF Led
  <2>6. CASE OpenHere /\ fr = "last"
    <3>1. a.active /\ a.frag = open
      BY <2>3, <2>6
    <3>2. PICK m : m = Append(a.rendered, Append(a.frag, u.data))
      OBVIOUS
    <3>3. End'.rendered = Append(a.rendered, more) /\ End'.active = FALSE
      <4>1. Took(a, u) = [frag |-> <<>>, active |-> FALSE, rendered |-> m]
        BY <1>6, <2>2, <2>6, <3>1, <3>2, TookLast
      <4>2. m = Append(a.rendered, more)
        BY <1>6, <1>8, <3>1, <3>2
      <4> QED
        BY <2>2, <4>1, <4>2
    <3>4. open' = <<>> /\ due' = Append(due, more) /\ OpenHere' = FALSE
      BY <1>3, <1>8, <2>6 DEF OpenHere
    <3> QED
      BY <2>3, <3>3, <3>4 DEF Led
  <2> QED
    BY <2>4, <2>5, <2>6
<1>13. phase' = "reactivating" => extra' = <<>>
  BY <1>7, CourseIs
<1> QED
  BY <1>7, <1>10, <1>11, <1>12, <1>13, CourseIsNext

LEMMA OtherCourse ==
  ASSUME CoreInv, ~PlainBundles, OnCourse, NEW comp \in BOOLEAN, SendOther(comp)
  PROVE  OnCourse'
<1>1. PICK p : p = [stream |-> 1, part |-> 1, epoch |-> epoch]
  OBVIOUS
<1>2. PICK u : u = [orders |-> FALSE, frag |-> "single", comp |-> comp, data |-> p]
  OBVIOUS
<1>3. SendUpdate(u) /\ UNCHANGED <<open, due>>
  BY <1>1, <1>2 DEF SendOther
<1>4. p \in Part
  BY <1>1, OneInBounds DEF CoreInv, TypeOK, Part
<1>5. u \in Update /\ u.orders = FALSE
  BY <1>2, <1>4 DEF Update, Frags
<1>6. /\ End' = Took(End, u) /\ End \in Assembly
      /\ Len(wire') > 1 => Compressed' # {}
      /\ wire' # <<>> /\ UNCHANGED <<epoch, phase, rendered, extra>>
  BY <1>3, <1>5, SendCourse
<1>7. PICK a : a = End
  OBVIOUS
<1>8. End' = End
  BY <1>5, <1>6, <1>7, TookNone
<1>9. phase' = "active" => Led'
  BY <1>3, <1>6, <1>8, CourseIs DEF Led, OpenHere
<1> QED
  BY <1>3, <1>6, <1>9, CourseIs, CourseIsNext

\* The client takes the first of the updates on their way.
LEMMA TakeCourse ==
  ASSUME CoreInv, CoreInv', OnCourse, phase = "active", NEW u \in Update, Handle(u),
         extra \o wire # <<>>, u = (extra \o wire)[1],
         extra' \o wire' = Tail(extra \o wire), UNCHANGED <<open, epoch, due>>,
         Len(wire') <= 1 \/ UNCHANGED wire
  PROVE  OnCourse'
<1>1. PICK q : q = extra \o wire
  OBVIOUS
<1>2. TypeOK /\ TypeOK' /\ phase' # "reactivating"
  BY DEF CoreInv, Handle, Render
<1>3. q \in Seq(Update) /\ Client \in Assembly /\ Client' = Took(Client, u)
  BY <1>1, <1>2, ClientIs, HandleTakes
<1>4. PICK c, d : c = Client /\ d = Took(c, u)
  OBVIOUS
<1>5. TookAll(c, q) = TookAll(d, Tail(q))
  BY <1>1, <1>3, <1>4, TookFront
<1>6. End = TookAll(c, q) /\ End' = TookAll(d, Tail(q))
  BY <1>1, <1>3, <1>4 DEF End
<1>7. Led
  BY CourseIs
<1>8. Led'
  BY <1>5, <1>6, <1>7 DEF Led, OpenHere
<1>9. BeginsWith(due', rendered')
  <2>1. Tail(q) \in Seq(Update) /\ d \in Assembly /\ d.rendered = rendered'
    <3>1. Tail(q) \in Seq(Update)
      BY <1>1, <1>3
    <3>2. d \in Assembly
      BY <1>3, <1>4, TookIs
    <3>3. d = Client'
      BY <1>3, <1>4
    <3> QED
      BY <3>1, <3>2, <3>3 DEF Client
  <2>2. BeginsWith(TookAll(d, Tail(q)).rendered, d.rendered)
    <3>1. PICK t : t = Tail(q)
      OBVIOUS
    <3> QED
      BY <2>1, <3>1, TookAllIs
  <2> QED
    BY <1>6, <1>8, <2>1, <2>2 DEF Led
<1>10. Len(wire') > 1 => Compressed' # {}
  BY CourseIs DEF Compressed, TypeOK
<1> QED
  BY <1>2, <1>8, <1>9, <1>10, CourseIs, CourseIsNext

LEMMA ReceiveCourse ==
  ASSUME CoreInv, CoreInv', ~PlainBundles, OnCourse, Receive
  PROVE  OnCourse'
<1>1. /\ phase = "active" /\ extra = <<>> /\ wire # <<>> /\ Handle(wire[1])
      /\ extra' = (IF Compressed = {} THEN <<>> ELSE Tail(wire)) /\ wire' = <<>>
      /\ UNCHANGED <<open, epoch, due>>
  BY DEF Receive
<1>2. PICK w : w = wire
  OBVIOUS
<1>3. w \in Seq(Update) /\ w # <<>>
  BY <1>1, <1>2 DEF CoreInv, TypeOK
<1>4. Len(w) \in Nat \ {0} /\ w[1] \in Update /\ Tail(w) \in Seq(Update)
  BY <1>3
<1>5. extra \o wire = w
  BY <1>1, <1>2, <1>3, ConcatEmptySeq
<1>6. extra' = Tail(w)
  <2>1. CASE Compressed = {}
    <3>1. Len(w) = 1
      <4>1. PICK n : n = Len(w)
        OBVIOUS
      <4>2. ~(n > 1)
        BY <1>2, <2>1, <4>1, CourseIs
      <4>3. n \in Nat \ {0}
        BY <1>4, <4>1, Zenon
      <4>4. n = 1
        BY <4>2, <4>3
      <4> QED
        BY <4>1, <4>4
    <3>2. Tail(w) = <<>>
      <4>1. Tail(w) \in Seq(Update) /\ Len(Tail(w)) = Len(w) - 1
        BY <1>3, HeadTailProperties
      <4>2. Len(Tail(w)) = 0
        BY <3>1, <4>1
      <4> QED
        BY <4>1, <4>2, EmptySeq
    <3> QED
      BY <1>1, <2>1, <3>2
  <2>2. CASE Compressed # {}
    BY <1>1, <1>2, <2>2
  <2> QED
    BY <2>1, <2>2
<1>7. extra' \o wire' = Tail(w)
  <2>1. PICK t : t = Tail(w)
    OBVIOUS
  <2>2. t \o <<>> = t
    BY <1>4, <2>1, ConcatEmptySeq
  <2> QED
    BY <1>1, <1>6, <2>1, <2>2
<1>8. Len(wire') <= 1
  BY <1>1
<1>9. PICK u : u = w[1]
  OBVIOUS
<1>10. u \in Update /\ Handle(u)
  BY <1>1, <1>2, <1>4, <1>9
<1> QED
  BY <1>1, <1>3, <1>5, <1>7, <1>8, <1>9, <1>10, TakeCourse

LEMMA PopCourse ==
  ASSUME CoreInv, CoreInv', ~PlainBundles, OnCourse, PopExtra
  PROVE  OnCourse'
<1>1. /\ phase = "active" /\ extra # <<>> /\ Handle(extra[1]) /\ extra' = Tail(extra)
      /\ UNCHANGED <<open, epoch, due, wire>>
  BY DEF PopExtra, server
<1>2. PICK e, w : e = extra /\ w = wire
  OBVIOUS
<1>3. e \in Seq(Update) /\ w \in Seq(Update) /\ e # <<>>
  BY <1>1, <1>2 DEF CoreInv, TypeOK
<1>4. Len(e) \in Nat \ {0} /\ e[1] \in Update
  BY <1>3
<1>5. e \o w # <<>> /\ (e \o w)[1] = e[1] /\ Tail(e \o w) = Tail(e) \o w
  <2>1. PICK x, t : x = e[1] /\ t = Tail(e)
    OBVIOUS
  <2>2. t \in Seq(Update) /\ x \in Update
    BY <1>3, <1>4, <2>1
  <2>3. /\ e \o w \in Seq(Update) /\ Len(e \o w) = Len(e) + Len(w)
        /\ \A i \in 1..(Len(e) + Len(w)) :
             (e \o w)[i] = IF i <= Len(e) THEN e[i] ELSE w[i - Len(e)]
    BY <1>3, ConcatProperties
  <2>4. Len(w) \in Nat
    BY <1>3
  <2>5. (e \o w)[1] = e[1] /\ Len(e \o w) # 0
    BY <1>4, <2>3, <2>4
  <2>6. Tail(e \o w) = Tail(e) \o w
    <3>1. PICK c, y, z : c = e \o w /\ y = Tail(c) /\ z = t \o w
      OBVIOUS
    <3>2. /\ t \in Seq(Update) /\ Len(t) = Len(e) - 1
          /\ \A i \in 1..(Len(e) - 1) : t[i] = e[i + 1]
      BY <1>3, <2>1, HeadTailProperties
    <3>3. /\ z \in Seq(Update) /\ Len(z) = Len(t) + Len(w)
          /\ \A i \in 1..(Len(t) + Len(w)) : z[i] = IF i <= Len(t) THEN t[i] ELSE w[i - Len(t)]
      BY <1>3, <3>1, <3>2, ConcatProperties
    <3>4. c \in Seq(Update) /\ c # <<>>
      BY <2>3, <2>5, <3>1
    <3>5. /\ y \in Seq(Update) /\ Len(y) = Len(c) - 1
          /\ \A i \in 1..(Len(c) - 1) : y[i] = c[i + 1]
      BY <3>1, <3>4, HeadTailProperties
    <3>6. Len(y) = Len(z)
      BY <1>4, <2>3, <2>4, <3>1, <3>2, <3>3, <3>5
    <3>7. ASSUME NEW i \in 1..Len(y) PROVE y[i] = z[i]
      <4>1. y[i] = c[i + 1] /\ i + 1 \in 1..(Len(e) + Len(w)) /\ i \in Nat
        BY <1>4, <2>3, <2>4, <3>1, <3>5, <3>7
      <4>2. c[i + 1] = IF i + 1 <= Len(e) THEN e[i + 1] ELSE w[(i + 1) - Len(e)]
        BY <2>3, <3>1, <4>1
      <4>3. i \in 1..(Len(t) + Len(w))
        BY <3>3, <3>6, <3>7
      <4>4. z[i] = IF i <= Len(t) THEN t[i] ELSE w[i - Len(t)]
        BY <3>3, <4>3
      <4>5. CASE i <= Len(t)
        <5>1. i + 1 <= Len(e) /\ i \in 1..(Len(e) - 1)
          BY <1>4, <3>2, <4>3, <4>5
        <5> QED
          BY <3>2, <4>1, <4>2, <4>4, <4>5, <5>1
      <4>6. CASE ~(i <= Len(t))
        <5>1. ~(i + 1 <= Len(e)) /\ (i + 1) - Len(e) = i - Len(t)
          <6>0. Len(e) \in Nat /\ Len(t) \in Int /\ Len(t) = Len(e) - 1
            BY <1>4, <3>2
          <6>1. PICK ne \in Nat, nt \in Int : ne = Len(e) /\ nt = Len(t) /\ nt = ne - 1
            BY <6>0, Zenon
          <6>2. ~(i <= nt) /\ i \in Nat
            BY <4>1, <4>6, <6>1, Zenon
          <6>3. ~(i + 1 <= ne) /\ (i + 1) - ne = i - nt
            BY <6>1, <6>2
          <6> QED
            BY <6>1, <6>3, Zenon
        <5> QED
          BY <4>1, <4>2, <4>4, <4>6, <5>1
      <4> QED
        BY <4>5, <4>6
    <3>8. y = z
      BY <3>3, <3>5, <3>6, <3>7, SeqEqual
    <3> QED
      BY <2>1, <3>1, <3>8
  <2>7. e \o w # <<>>
    <3>1. Len(<<>>) = 0
      OBVIOUS
    <3> QED
      BY <2>5, <3>1, Zenon
  <2> QED
    BY <2>5, <2>6, <2>7, Zenon
<1>6. PICK u : u = e[1]
  OBVIOUS
<1>7. u \in Update /\ Handle(u)
  BY <1>1, <1>2, <1>4, <1>6
<1>8. extra \o wire # <<>> /\ u = (extra \o wire)[1] /\ extra' \o wire' = Tail(extra \o wire)
  BY <1>1, <1>2, <1>5, <1>6
<1> QED
  BY <1>1, <1>7, <1>8, TakeCourse

LEMMA EndWhenDrained ==
  ASSUME extra = <<>>, wire = <<>>
  PROVE  End = Client
<1>1. extra \o wire = <<>>
  OBVIOUS
<1>2. PICK c : c = Client
  OBVIOUS
<1>3. TookAll(c, <<>>) = c
  BY TookNothing
<1> QED
  BY <1>1, <1>2, <1>3 DEF End

LEMMA EndWhenDrainedNext ==
  ASSUME extra' = <<>>, wire' = <<>>
  PROVE  End' = Client'
<1>1. extra' \o wire' = <<>>
  OBVIOUS
<1>2. PICK c : c = Client'
  OBVIOUS
<1>3. TookAll(c, <<>>) = c
  BY TookNothing
<1> QED
  BY <1>1, <1>2, <1>3 DEF End

LEMMA ReactivationCourse ==
  ASSUME CoreInv, OnCourse, Reactivate \/ ReactivationFails \/ Reactivated
  PROVE  OnCourse'
<1>1. epoch \in Nat /\ TypeOK
  BY OneInBounds DEF CoreInv, TypeOK
<1>2. CASE Reactivate
  <2>1. /\ phase = "active" /\ extra = <<>> /\ wire = <<>> /\ phase' = "reactivating"
        /\ epoch' = epoch + 1 /\ UNCHANGED <<open, wire, due, extra, rendered>>
    BY <1>2 DEF Reactivate, results
  <2>2. rendered = due
    <3>1. End = Client
      BY <2>1, EndWhenDrained
    <3> QED
      BY <1>1, <2>1, <3>1, CourseIs, ClientIs DEF Led
  <2>3. open # <<>> => open[1].epoch \in Nat
    <3> SUFFICES ASSUME open # <<>> PROVE open[1].epoch \in Nat
      OBVIOUS
    <3>1. open \in Seq(Part)
      BY <1>1 DEF TypeOK
    <3>2. open[1] \in Part
      BY <3>1
    <3>3. open[1].epoch \in 1..MaxEpochs
      BY <3>2 DEF Part
    <3> QED
      BY <3>3, OneInBounds
  <2>4. open' # <<>> => open'[1].epoch <= epoch'
    BY <1>1, <2>1, <2>3, CourseIs
  <2>5. ~OpenHere'
    BY <1>1, <2>1, <2>3, CourseIs DEF OpenHere
  <2>6. Len(wire') <= 1
    BY <2>1
  <2> QED
    BY <1>1, <2>1, <2>2, <2>4, <2>5, <2>6, CourseIs, CourseIsNext
<1>3. CASE ReactivationFails
  <2>1. phase' = "ended" /\ UNCHANGED <<open, wire, due, epoch, rendered>>
    BY <1>3 DEF ReactivationFails, server, results
  <2>2. Compressed' = Compressed
    BY <2>1 DEF Compressed
  <2> QED
    BY <2>1, <2>2, CourseIs, CourseIsNext
<1>4. CASE Reactivated
  <2>1. /\ phase = "reactivating" /\ wire = <<>> /\ phase' = "active" /\ extra' = <<>>
        /\ frag' = <<>> /\ active' = FALSE /\ UNCHANGED <<open, wire, due, epoch, rendered>>
    BY <1>4 DEF Reactivated, server
  <2>2. rendered = due /\ ~OpenHere
    BY <2>1, CourseIs
  <2>3. ~OpenHere' /\ OpenHere' \in BOOLEAN
    BY <2>1, <2>2 DEF OpenHere
  <2>4. End' = Client'
    BY <2>1, EndWhenDrainedNext
  <2>5. Client'.rendered = rendered' /\ Client'.active = FALSE
    BY <2>1 DEF Client
  <2>6. Led'
    BY <2>1, <2>2, <2>3, <2>4, <2>5 DEF Led
  <2>7. Compressed' = Compressed
    BY <2>1 DEF Compressed
  <2> QED
    BY <2>1, <2>6, <2>7, CourseIs, CourseIsNext
<1> QED
  BY <1>2, <1>3, <1>4

LEMMA CourseKept ==
  ASSUME ~PlainBundles, CoreInv, CoreInv', OnCourse, [Next]_vars
  PROVE  OnCourse'
<1>1. ASSUME NEW comp \in BOOLEAN, NEW fr \in {"single", "first"}, BeginStream(fr, comp)
      PROVE  OnCourse'
  BY <1>1, BeginCourse
<1>2. ASSUME NEW comp \in BOOLEAN, NEW fr \in {"next", "last"}, GoOnStream(fr, comp)
      PROVE  OnCourse'
  BY <1>2, GoOnCourse
<1>3. ASSUME NEW comp \in BOOLEAN, SendOther(comp) PROVE OnCourse'
  BY <1>3, OtherCourse
<1>4. CASE Receive
  BY <1>4, ReceiveCourse
<1>5. CASE PopExtra
  BY <1>5, PopCourse
<1>6. CASE Reactivate \/ ReactivationFails \/ Reactivated
  BY <1>6, ReactivationCourse
<1>7. CASE UNCHANGED vars
  <2>1. UNCHANGED <<open, wire, due, epoch, rendered, extra, frag, active, phase>>
    BY <1>7 DEF vars
  <2>2. Compressed' = Compressed /\ Led' = Led /\ OpenHere' = OpenHere
    BY <2>1 DEF Compressed, Led, End, Client, OpenHere
  <2> QED
    BY <2>1, <2>2, CourseIs, CourseIsNext
<1> QED
  BY <1>1, <1>2, <1>3, <1>4, <1>5, <1>6, <1>7, Zenon DEF Next, Quiet

LEMMA CourseBegins == Init => OnCourse
<1> SUFFICES ASSUME Init PROVE OnCourse
  OBVIOUS
<1>1. /\ open = <<>> /\ wire = <<>> /\ extra = <<>> /\ due = <<>> /\ rendered = <<>>
      /\ active = FALSE /\ phase = "active"
  BY DEF Init
<1>2. ~OpenHere /\ OpenHere \in BOOLEAN
  BY <1>1 DEF OpenHere
<1>3. End = Client
  BY <1>1, EndWhenDrained
<1>4. Led
  BY <1>1, <1>2, <1>3 DEF Led, Client
<1>5. BeginsWith(due, rendered) /\ Len(wire) = 0
  BY <1>1 DEF BeginsWith
<1> QED
  BY <1>1, <1>4, <1>5, CourseIs

-----------------------------------------------------------------------------
(* Theorems about the pipeline *)

\* The inductive invariant of the graphics path (run_active_session): types,
\* the compression history, what the two streak counters stand for, and, when no
\* PDU bundles updates without a compressed one, where the updates on their way lead.
THEOREM Invariance == Spec => []IInv
<1>1. Init => IInv
  BY InitEstablishes, CourseBegins DEF IInv
<1>2. IInv /\ [Next]_vars => IInv'
  <2> SUFFICES ASSUME IInv, [Next]_vars PROVE IInv'
    OBVIOUS
  <2>1. CoreInv /\ CoreInv'
    BY NextPreserves DEF IInv
  <2>2. CASE ~PlainBundles
    <3>1. OnCourse'
      BY <2>1, <2>2, CourseKept DEF IInv
    <3> QED
      BY <2>1, <3>1 DEF IInv
  <2>3. CASE PlainBundles
    BY <2>1, <2>3 DEF IInv
  <2> QED
    BY <2>2, <2>3
<1> QED
  BY <1>1, <1>2, PTL DEF Spec

\* Every stream the server completes on a desktop is rendered once, whole and in
\* order, through queued updates, fragments and reactivations, when no PDU bundles
\* updates none of which is compressed (reassemble_orders, decompressed_extra).
THEOREM Renders == Spec => [](~PlainBundles => RendersWhatWasSent)
<1>1. ASSUME IInv, ~PlainBundles PROVE RendersWhatWasSent
  <2>1. OnCourse /\ TypeOK
    BY <1>1 DEF IInv, CoreInv
  <2>2. ASSUME phase = "active", wire = <<>>, extra = <<>> PROVE Len(rendered) = Len(due)
    <3>1. End = Client /\ Client.rendered = rendered
      BY <2>1, <2>2, EndWhenDrained, ClientIs
    <3>2. End.rendered = due
      BY <2>1, <2>2, CourseIs DEF Led
    <3> QED
      BY <3>1, <3>2
  <2>3. Len(rendered) <= Len(due) /\ \A i \in DOMAIN rendered : rendered[i] = due[i]
    BY <2>1, CourseIs DEF BeginsWith
  <2> QED
    BY <2>2, <2>3 DEF RendersWhatWasSent
<1>2. IInv => (~PlainBundles => RendersWhatWasSent)
  BY <1>1
<1> QED
  BY <1>2, Invariance, PTL

\* maybe_decompress feeds the decompressor every compressed update exactly once,
\* through queued updates and reactivations.
THEOREM HistoryKept == Spec => []HistoryInSync
<1>1. IInv => HistoryInSync
  BY DEF IInv, CoreInv
<1> QED
  BY <1>1, Invariance, PTL

\* The session is given up exactly when FailLimit failed streams have not been
\* followed by OkReset clean ones in a row.
THEOREM GivesUp == Spec => []GivesUpExactly
<1>1. IInv => GivesUpExactly
  BY DEF IInv, CoreInv, StreaksFollowLog, GivesUpExactly
<1> QED
  BY <1>1, Invariance, PTL

\* A desynced stream is noticed within FailLimit * OkReset streams, as long as
\* no OkReset of them in a row render cleanly by luck.
THEOREM Recovery == Spec => []RecoveryBound
<1>1. ASSUME IInv, NoLongRun(log) PROVE Len(log) <= FailLimit * OkReset
  <2>1. /\ okStreak < OkReset /\ Len(log) <= failStreak * OkReset + okStreak
        /\ IF phase = "reconnect" THEN failStreak = FailLimit /\ okStreak = 0
           ELSE failStreak < FailLimit
    BY <1>1 DEF IInv, CoreInv, StreaksFollowLog
  <2>2. okStreak \in Nat /\ failStreak \in Nat /\ Len(log) \in Nat
    BY <1>1 DEF IInv, CoreInv, TypeOK
  <2>3. CASE phase = "reconnect"
    <3>1. failStreak = FailLimit /\ okStreak = 0
      BY <2>1, <2>3
    <3> QED
      BY <2>1, <2>2, <3>1
  <2>4. CASE phase # "reconnect"
    <3>1. failStreak < FailLimit
      BY <2>1, <2>4
    <3>2. PICK d \in Nat : FailLimit = failStreak + 1 + d
      <4>1. FailLimit - failStreak - 1 \in Nat
        BY <2>2, <3>1
      <4> QED
        BY <2>2, <4>1
    <3>3. FailLimit * OkReset = failStreak * OkReset + OkReset + d * OkReset
      BY <2>2, <3>2
    <3>4. failStreak * OkReset \in Nat /\ d * OkReset \in Nat
      BY <2>2, <3>2
    <3> QED
      BY <2>1, <2>2, <3>3, <3>4
  <2> QED
    BY <2>3, <2>4
<1>2. IInv => RecoveryBound
  BY <1>1 DEF RecoveryBound
<1> QED
  BY <1>2, Invariance, PTL

=============================================================================
